------------------------------- MODULE MCBoot -------------------------------
(***************************************************************************)
(* Instances of Boot for TLC: one to three cores, and tables put together  *)
(* from lists of local APICs (some disabled), of I/O APICs of four pins,   *)
(* and of overrides.                                                       *)
(***************************************************************************)
EXTENDS Boot

LapicRecord(id, flags) == [type |-> ENTRY_LAPIC, apic_id |-> id, flags |-> flags]
IoApic(a, base) == [type |-> ENTRY_IO_APIC, address |-> a, base |-> base]
Override(irq, gsi) == [type |-> ENTRY_IOAPIC_INT_OVERRIDE, irq |-> irq, gsi |-> gsi]
Address(a) == [type |-> LOCAL_APIC_ADDR_OVERRIDE, address |-> a]

LapicLists == {<<LapicRecord(0, 1)>>, <<LapicRecord(2, 0), LapicRecord(0, 1), LapicRecord(1, 2)>>,
               <<LapicRecord(0, 1), LapicRecord(1, 1), LapicRecord(2, 1), LapicRecord(3, 4)>>}
IoApicLists == {<<IoApic(1, 0)>>, <<IoApic(1, 0), IoApic(2, 4)>>, <<IoApic(2, 4), IoApic(1, 0)>>,
                <<IoApic(1, 0), IoApic(2, 4), IoApic(3, 8)>>}
OverrideLists == {<<>>, <<Override(1, 2)>>, <<Override(3, 0), Address(2000)>>,
                  <<Address(0)>>, <<Override(0, 2), Override(1, 3), Override(3, 1)>>}

MCMadts == UNION {{l \o io \o o, o \o io \o l} : l \in LapicLists, io \in IoApicLists, o \in OverrideLists}

(* An interrupt that an override moves to the second I/O APIC.             *)
MCMadtsSecond == {l \o <<IoApic(1, 0), IoApic(2, 4), Override(1, 5)>> : l \in LapicLists}

MCCpus == <<"bsp", "ap1", "ap2">>
MCPins == [a \in 1 .. 3 |-> 3]
MCIrqs == <<[irq |-> 1, vector |-> 32], [irq |-> 3, vector |-> 33]>>
=============================================================================
