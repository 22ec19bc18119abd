----------------------------- MODULE IrqRouting -----------------------------
(***************************************************************************)
(* What the kernel reads from the ACPI tables (kernel/acpi/acpi.c), and    *)
(* the routing of device interrupts through the I/O APICs                  *)
(* (kernel/devices/ioapic.c) that init_ps2 asks for.                       *)
(*                                                                         *)
(* This is the part of init_system before init_cpu; Boot goes on from it.  *)
(* The MADT is a sequence of records of the types the code looks for.  An  *)
(* entry of a redirection table is written as two registers, the half with *)
(* the destination first.                                                  *)
(***************************************************************************)
EXTENDS Integers, Sequences

CONSTANTS Madts,             \* tables to try: sequences of records
          PinsOf,            \* the number of the last pin (max_red_entry) by address
          LAPIC_NUM_DEVS, IOAPIC_NUM_DEVS,
          Irqs               \* what init_ps2 maps, in order: interrupt and vector

VARIABLES madt,
          valid,   \* whether the checksums of the tables hold, and there is an HPET
          dev,     \* what init_acpi found: lapic_addr, local_apic_ID, ioapics, mmio devices
          redtab,  \* the redirection tables, by address and pin
          pc, i,   \* what the bsp core does, and which of Irqs it is at
          addr     \* the I/O APIC found for it, 0 for NULL

irqVars == <<madt, valid, dev, redtab, pc, i, addr>>

ENTRY_LAPIC == 0
ENTRY_IO_APIC == 1
ENTRY_IOAPIC_INT_OVERRIDE == 2
LOCAL_APIC_ADDR_OVERRIDE == 5

(* The base field of the MADT itself.                                      *)
Lapic == 1000

Of(type) == SelectSeq(madt, LAMBDA r : r.type = type)
Masked == [vector |-> 0, mask |-> TRUE, apic |-> 0]

IrqInit ==
    /\ madt \in Madts
    /\ valid \in {"all", "no_madt", "no_hpet"}
    /\ dev = [lapic_addr |-> 0, local_apic_ID |-> <<>>, ioapics |-> <<>>, mmio |-> <<>>, core_count |-> 0]
    /\ redtab = [a \in DOMAIN PinsOf |-> [n \in 0 .. PinsOf[a] |-> Masked]]
    /\ pc = "acpi" /\ i = 1 /\ addr = 0

-----------------------------------------------------------------------------
(* acpi.c                                                                  *)
find_lapic_addr ==
    LET over == Of(LOCAL_APIC_ADDR_OVERRIDE)
    IN  IF over = <<>> THEN Lapic ELSE over[1].address

(* Mutant of Enabled: cores that are not there count too.                  *)
EnabledOrNot(r) == TRUE

(* ... or those that come online late do not.                              *)
EnabledAtOnce(r) == r.flags % 2 = 1

Enabled(r) == r.flags % 4 # 0

(* init_apic_info.  Its assertion on the list of local APICs compares with *)
(* a count that has just grown, and never fails.                           *)
init_apic_info ==
    LET lapics == SelectSeq(Of(ENTRY_LAPIC), Enabled)
    IN  [ids |-> [n \in DOMAIN lapics |-> lapics[n].apic_id], ioapics |-> Of(ENTRY_IO_APIC)]

(* init_acpi: a kernel that finds no valid table, no local APIC or no HPET *)
(* stops.                                                                  *)
init_acpi ==
    /\ pc = "acpi"
    /\ IF valid = "no_madt" \/ find_lapic_addr = 0 \/ Len(Of(ENTRY_IO_APIC)) > IOAPIC_NUM_DEVS \/ valid = "no_hpet"
       THEN pc' = "stopped" /\ UNCHANGED dev
       ELSE /\ pc' = "map"
            /\ dev' = [lapic_addr |-> find_lapic_addr,
                       local_apic_ID |-> init_apic_info.ids,
                       core_count |-> Len(init_apic_info.ids),
                       ioapics |-> init_apic_info.ioapics,
                       mmio |-> [n \in DOMAIN Of(ENTRY_IO_APIC) |-> Of(ENTRY_IO_APIC)[n].address]
                                \o <<find_lapic_addr, "hpet">>]
    /\ UNCHANGED <<madt, valid, redtab, i, addr>>

(* Mutant of acpi_irq_to_gsi: the overrides are left out.                  *)
IrqIsGsi(irq) == irq

acpi_irq_to_gsi(irq) ==
    LET over == SelectSeq(Of(ENTRY_IOAPIC_INT_OVERRIDE), LAMBDA r : r.irq = irq)
    IN  IF over = <<>> THEN irq ELSE over[1].gsi

acpi_get_gsi_base(a) ==
    LET at == SelectSeq(dev.ioapics, LAMBDA r : r.address = a)
    IN  IF a = 0 \/ at = <<>> THEN -1 ELSE at[1].base

-----------------------------------------------------------------------------
(* ioapic.c.  The last pin is compared with the number of the interrupt,   *)
(* the base not added.                                                     *)
(* Mutant of GsiWithin: the last pin is left out.                          *)
GsiBelow(gsi, r) == gsi >= r.base /\ gsi < PinsOf[r.address]

GsiWithin(gsi, r) == gsi >= r.base /\ gsi <= PinsOf[r.address]

ioapic_get_addr(irq) ==
    LET gsi == acpi_irq_to_gsi(irq)
        at == SelectSeq(dev.ioapics, LAMBDA r : GsiWithin(gsi, r))
    IN  IF at = <<>> THEN 0 ELSE at[1].address

(* ioapic_map_irq, up to its assertion.                                    *)
ioapic_map_irq ==
    /\ pc = "map" /\ i <= Len(Irqs)
    /\ addr' = ioapic_get_addr(Irqs[i].irq)
    /\ pc' = IF addr' = 0 THEN "stopped" ELSE "high"
    /\ UNCHANGED <<madt, valid, dev, redtab, i>>

Pin == acpi_irq_to_gsi(Irqs[i].irq) - acpi_get_gsi_base(addr)

(* ioapic_write_redtab, register by register.                              *)
Write(fields) ==
    redtab' = IF Pin \in DOMAIN redtab[addr]
              THEN [redtab EXCEPT ![addr][Pin] = fields] ELSE redtab

redtab_high ==
    /\ pc = "high"
    /\ Write([redtab[addr][Pin] EXCEPT !.apic = dev.local_apic_ID[1]])
    /\ pc' = "low"
    /\ UNCHANGED <<madt, valid, dev, i, addr>>

(* The other half.                                                         *)
redtab_low ==
    /\ pc = "low"
    /\ Write([redtab[addr][Pin] EXCEPT !.vector = Irqs[i].vector, !.mask = FALSE])
    /\ pc' = "map" /\ i' = i + 1
    /\ UNCHANGED <<madt, valid, dev, addr>>

Routed == pc = "map" /\ i > Len(Irqs)

-----------------------------------------------------------------------------
(* What the platform says: the I/O APIC whose pins include interrupt gsi.  *)
Home(gsi) ==
    {r \in {madt[n] : n \in DOMAIN madt} :
        r.type = ENTRY_IO_APIC /\ gsi \in r.base .. r.base + PinsOf[r.address]}
Gsi(irq) ==
    LET over == {madt[n] : n \in {m \in DOMAIN madt : madt[m].type = ENTRY_IOAPIC_INT_OVERRIDE
                                                      /\ madt[m].irq = irq}}
    IN  IF over = {} THEN irq ELSE (CHOOSE r \in over : TRUE).gsi

(* An interrupt that has been mapped arrives at its vector on a core that  *)
(* is there: its pin, after overrides, is open with that vector and        *)
(* destination, and only the pins asked for are open.  (ioapic_map_irq     *)
(* over acpi_irq_to_gsi, acpi_get_gsi_base and init_apic_info)             *)
MappedIrqsArrive ==
    \A a \in DOMAIN redtab : \A n \in DOMAIN redtab[a] :
        LET mapped == {k \in 1 .. i - 1 : \E r \in Home(Gsi(Irqs[k].irq)) :
                                            r.address = a /\ Gsi(Irqs[k].irq) - r.base = n}
        IN  /\ redtab[a][n].mask <=> mapped = {}
            /\ \A k \in mapped : /\ redtab[a][n].vector = Irqs[k].vector
                                 /\ \E r \in {madt[m] : m \in DOMAIN madt} :
                                        /\ r.type = ENTRY_LAPIC /\ r.flags % 4 # 0
                                        /\ r.apic_id = redtab[a][n].apic

(* A kernel whose tables are in order finds the I/O APIC of every          *)
(* interrupt it maps.  (ioapic_get_addr)                                   *)
IoapicFound ==
    pc = "stopped" /\ dev.core_count > 0 => Home(Gsi(Irqs[i].irq)) = {}

(* The list of local APICs holds what is put into it.  (init_apic_info)    *)
LapicListHolds == Len(dev.local_apic_ID) <= LAPIC_NUM_DEVS
=============================================================================
