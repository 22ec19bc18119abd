CONSTANTS
    Madts <- MCMadtsSecond
    PinsOf <- MCPins
    LAPIC_NUM_DEVS = 3
    IOAPIC_NUM_DEVS = 2
    Irqs <- MCIrqs
    cpus <- MCCpus
    Bsp = "bsp"
    Vectors = {0, 19, 20, 32, 33, 34, 35, 36, 37, 38, 39}
    First = 32
    Samples = 2
SPECIFICATION Spec
INVARIANTS
    IoapicFound
