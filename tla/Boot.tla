-------------------------------- MODULE Boot --------------------------------
(***************************************************************************)
(* The start of the cores (init_cpu and core_init in kernel/arch/cpu.c)    *)
(* with what they share on the way: the one TSS entry of the GDT, the IDT  *)
(* and its vectors, the HPET each core measures its timer with, and the    *)
(* count of cores that are ready.                                          *)
(*                                                                         *)
(* The bsp core reads the ACPI tables and routes the interrupts of the     *)
(* devices (IrqRouting), sets the other cores going, as many as ACPI       *)
(* counts, waits for as many as Limine counts, and then initialises        *)
(* itself.  It is where its number says in Limine's list.                  *)
(***************************************************************************)
EXTENDS IrqRouting, FiniteSets

CONSTANTS cpus, Bsp, \* Limine's list of the cores of the largest platform
          Vectors,   \* 256
          First,     \* the first vector that is handed out
          Samples    \* time a core's timer takes to count down (0xffffff)

VARIABLES core,         \* pc, the vectors and frequency of the core, its task register
          gdt,          \* whose TSS the TSS entry of the GDT names, and its busy bit
          idt,          \* handler and stack of each vector, and the next vector
          hpet,         \* the main counter: running, value
          lock,         \* who holds tss_lock and calibrate_lock
          cores_ready,
          kmain         \* whether the thread of kmain was made

bootVars == <<core, gdt, idt, hpet, lock, cores_ready, kmain>>
vars == <<irqVars, bootVars>>

None == "none"
Exceptions == 0 .. 20
AllCores == {cpus[n] : n \in DOMAIN cpus}

(* The cores Limine has found on a platform with table m: those that are   *)
(* enabled or can be.                                                      *)
CpuCount(m) == Cardinality({n \in DOMAIN m : m[n].type = ENTRY_LAPIC /\ m[n].flags % 4 # 0})
cpu_count == CpuCount(madt)
Cores == {cpus[n] : n \in 1 .. cpu_count}

(* Limine lists every core once, among them the one that boots; the        *)
(* devices' vectors are in the IDT.                                        *)
ASSUME BootAssumption ==
    /\ None \notin AllCores
    /\ cpus \in Seq(AllCores)
    /\ \A n, k \in DOMAIN cpus : cpus[n] = cpus[k] => n = k
    /\ \A m \in Madts : /\ CpuCount(m) \in 0 .. Len(cpus)
                        /\ Bsp \in {cpus[n] : n \in 1 .. CpuCount(m)}
    /\ \A k \in DOMAIN Irqs : Irqs[k].vector \in Vectors
    /\ Irqs \in Seq([irq : Nat, vector : Nat])
    /\ Vectors \subseteq Nat /\ First \in Nat
    /\ Samples \in Nat

(* init_idt has put the exceptions in place.                               *)
Init ==
    /\ IrqInit
    /\ core = [c \in Cores |-> [pc |-> IF c = Bsp THEN "wait" ELSE "off", timer |-> 0, ipi |-> 0,
                                freq |-> 0, tr |-> None, count |-> 0]]
    /\ gdt = [tss |-> None, busy |-> FALSE]
    /\ idt = [entry |-> [v \in Vectors |-> [gate |-> IF v \in Exceptions THEN "exception" ELSE None,
                                            ist |-> 0]],
              cur |-> First]
    /\ hpet = [on |-> FALSE, value |-> 0]
    /\ lock = [tss |-> None, calibrate |-> None]
    /\ cores_ready = 0
    /\ kmain = FALSE

(* init_ps2 hands out the vector before it calls ioapic_map_irq, which     *)
(* ends by writing its descriptor.                                         *)
device_vector ==
    /\ idt.cur = Irqs[i].vector
    /\ idt' = [idt EXCEPT !.cur = @ + 1]
    /\ UNCHANGED <<core, gdt, hpet, lock, cores_ready, kmain>>

device_descriptor ==
    /\ idt' = [idt EXCEPT !.entry[Irqs[i].vector] = [gate |-> "device", ist |-> 1]]
    /\ UNCHANGED <<core, gdt, hpet, lock, cores_ready, kmain>>

Goto(c, from, to) == core[c].pc = from /\ core' = [core EXCEPT ![c].pc = to]

(* init_cpu                                                                *)
Counted == {cpus[n] : n \in 1 .. dev.core_count} \ {Bsp}

start_cores ==
    /\ Routed
    /\ \E c \in Counted : core[c].pc = "off"
    /\ core' = [c \in Cores |-> IF c \in Counted /\ core[c].pc = "off"
                               THEN [core[c] EXCEPT !.pc = "tss"] ELSE core[c]]
    /\ UNCHANGED <<irqVars, gdt, idt, hpet, lock, cores_ready, kmain>>

(* Mutant of CoresReady: the bsp core does not wait for the last one.      *)
AllButOneReady == cores_ready >= cpu_count - 2

CoresReady == cores_ready = cpu_count - 1

pause == Routed /\ core[Bsp].pc = "wait" /\ ~CoresReady /\ UNCHANGED vars

cores_online ==
    /\ Routed
    /\ CoresReady
    /\ Goto(Bsp, "wait", "tss")
    /\ UNCHANGED <<irqVars, gdt, idt, hpet, lock, cores_ready, kmain>>

-----------------------------------------------------------------------------
(* core_init, from load_gdt to load_tss_entry.  The entry is written and   *)
(* then loaded; ltr faults on an entry another core has loaded since.      *)
(* Mutant of TssLocked: no lock.                                           *)
TssUnlocked(c) == TRUE

TssLocked(c) == lock.tss = None

load_tss_entry(c) ==
    /\ TssLocked(c)
    /\ Goto(c, "tss", "ltr")
    /\ gdt' = [tss |-> c, busy |-> FALSE]
    /\ lock' = [lock EXCEPT !.tss = c]
    /\ UNCHANGED <<irqVars, idt, hpet, cores_ready, kmain>>

ltr(c) ==
    /\ core[c].pc = "ltr"
    /\ core' = [core EXCEPT ![c].pc = IF gdt.busy THEN "fault" ELSE "timer", ![c].tr = gdt.tss]
    /\ gdt' = [gdt EXCEPT !.busy = TRUE]
    /\ lock' = [lock EXCEPT !.tss = None]
    /\ UNCHANGED <<irqVars, idt, hpet, cores_ready, kmain>>

-----------------------------------------------------------------------------
(* init_lapic.  A vector is handed out and its descriptor written, each    *)
(* under idt_lock.                                                         *)
(* Mutant of allocate_vector: all cores have the vectors of the first.     *)
SharedVector == 32

allocate_vector == idt.cur

timer_vector(c) ==
    /\ idt.cur \in Vectors
    /\ core[c].pc = "timer"
    /\ core' = [core EXCEPT ![c].pc = "timer_gate", ![c].timer = allocate_vector]
    /\ idt' = [idt EXCEPT !.cur = @ + 1]
    /\ UNCHANGED <<irqVars, gdt, hpet, lock, cores_ready, kmain>>

add_descriptor(v, gate) == idt' = [idt EXCEPT !.entry[v] = [gate |-> gate, ist |-> 0]]

timer_descriptor(c) ==
    /\ Goto(c, "timer_gate", "calibrate")
    /\ add_descriptor(core[c].timer, "ISR_Timer")
    /\ UNCHANGED <<irqVars, gdt, hpet, lock, cores_ready, kmain>>

(* Mutant of CalibrateLocked: no lock.                                     *)
CalibrateUnlocked(c) == TRUE

CalibrateLocked(c) == lock.calibrate = None

(* lapic_calibrate sets both timers going, and waits for its own.          *)
lapic_calibrate(c) ==
    /\ CalibrateLocked(c)
    /\ core[c].pc = "calibrate"
    /\ lock' = [lock EXCEPT !.calibrate = c]
    /\ hpet' = [on |-> TRUE, value |-> 0]
    /\ core' = [core EXCEPT ![c].pc = "measure", ![c].count = Samples]
    /\ UNCHANGED <<irqVars, gdt, idt, cores_ready, kmain>>

(* Time passes: the counters that run go on, while none has run out.       *)
tick ==
    /\ \E c \in Cores : core[c].count > 0
    /\ \A c \in Cores : core[c].pc = "measure" => core[c].count > 0
    /\ core' = [c \in Cores |-> IF core[c].count > 0 THEN [core[c] EXCEPT !.count = @ - 1] ELSE core[c]]
    /\ hpet' = IF hpet.on THEN [hpet EXCEPT !.value = @ + 1] ELSE hpet
    /\ UNCHANGED <<irqVars, gdt, idt, lock, cores_ready, kmain>>

(* The frequency is kept as the time measured.                             *)
calibrated(c) ==
    /\ core[c].pc = "measure" /\ core[c].count = 0
    /\ hpet' = [hpet EXCEPT !.on = FALSE]
    /\ core' = [core EXCEPT ![c].pc = "ipi", ![c].freq = hpet.value]
    /\ lock' = [lock EXCEPT !.calibrate = None]
    /\ UNCHANGED <<irqVars, gdt, idt, cores_ready, kmain>>

ipi_vector(c) ==
    /\ idt.cur \in Vectors
    /\ core[c].pc = "ipi"
    /\ core' = [core EXCEPT ![c].pc = "ipi_gate", ![c].ipi = allocate_vector]
    /\ idt' = [idt EXCEPT !.cur = @ + 1]
    /\ UNCHANGED <<irqVars, gdt, hpet, lock, cores_ready, kmain>>

ipi_descriptor(c) ==
    /\ Goto(c, "ipi_gate", "ist")
    /\ add_descriptor(core[c].ipi, "ISR_IPI")
    /\ UNCHANGED <<irqVars, gdt, hpet, lock, cores_ready, kmain>>

(* set_vector_ist for the core's two vectors and 20 exceptions.            *)
set_vector_ist(c) ==
    /\ Goto(c, "ist", "ready")
    /\ idt' = [idt EXCEPT !.entry = [v \in Vectors |->
                    IF v \in {core[c].timer, core[c].ipi} \cup 0 .. 19 THEN [@[v] EXCEPT !.ist = 1] ELSE @[v]]]
    /\ UNCHANGED <<irqVars, gdt, hpet, lock, cores_ready, kmain>>

(* The core counts itself (under init_lock) and goes to the scheduler; the *)
(* bsp core goes on to make the thread of kmain.                           *)
core_ready(c) ==
    /\ Goto(c, "ready", IF c = Bsp THEN "kmain" ELSE "schedule")
    /\ cores_ready' = cores_ready + 1
    /\ UNCHANGED <<irqVars, gdt, idt, hpet, lock, kmain>>

create_kmain ==
    /\ Goto(Bsp, "kmain", "schedule")
    /\ kmain' = TRUE
    /\ UNCHANGED <<irqVars, gdt, idt, hpet, lock, cores_ready>>

CoreStep(c) ==
    \/ load_tss_entry(c)
    \/ ltr(c)
    \/ timer_vector(c)
    \/ timer_descriptor(c)
    \/ lapic_calibrate(c)
    \/ calibrated(c)
    \/ ipi_vector(c)
    \/ ipi_descriptor(c)
    \/ set_vector_ist(c)
    \/ core_ready(c)

(* The kernel runs, or has stopped at an assertion or a fault.             *)
Done ==
    /\ pc = "stopped" \/ {core[c].pc : c \in Cores} = {"schedule"} \/ \E c \in Cores : core[c].pc = "fault"
    /\ UNCHANGED vars

Next ==
    \/ init_acpi /\ UNCHANGED bootVars
    \/ ioapic_map_irq /\ device_vector
    \/ redtab_high /\ UNCHANGED bootVars
    \/ redtab_low /\ device_descriptor
    \/ start_cores
    \/ pause
    \/ cores_online
    \/ \E c \in Cores : CoreStep(c)
    \/ tick
    \/ create_kmain
    \/ Done

(* Every core runs, and time passes.  Each core takes each lock once, so   *)
(* that a lock is free for good when the others have had it.               *)
MapIrqs ==
    \/ ioapic_map_irq /\ device_vector
    \/ redtab_high /\ UNCHANGED bootVars
    \/ redtab_low /\ device_descriptor

Fairness ==
    /\ WF_vars(MapIrqs)
    /\ WF_vars(start_cores) /\ WF_vars(cores_online) /\ WF_vars(tick) /\ WF_vars(create_kmain)
    /\ \A c \in AllCores : WF_vars(c \in Cores /\ CoreStep(c))

Spec == Init /\ [][Next]_vars /\ Fairness

-----------------------------------------------------------------------------
(* A core that takes part in scheduling has its own TSS in its task        *)
(* register, two vectors no other core or device has, and behind them its  *)
(* handlers on the interrupt stack.  (load_tss_entry, allocate_vector,     *)
(* add_descriptor, set_vector_ist, run by several cores at once.)          *)
ReadyCoreOwnsItsEntries ==
    \A c \in Cores : core[c].pc \in {"kmain", "schedule"} =>
        /\ core[c].tr = c
        /\ idt.entry[core[c].timer] = [gate |-> "ISR_Timer", ist |-> 1]
        /\ idt.entry[core[c].ipi] = [gate |-> "ISR_IPI", ist |-> 1]
        /\ \A d \in Cores \ {c} : {core[c].timer, core[c].ipi} \cap {core[d].timer, core[d].ipi} \subseteq {0}
        /\ \A k \in DOMAIN Irqs : idt.entry[Irqs[k].vector] = [gate |-> "device", ist |-> 1]

(* No core loads the TSS entry while it is another's.  (load_tss_entry)    *)
NoTssFault == \A c \in Cores : core[c].pc # "fault" /\ core[c].tr \in {None, c}

(* What a core measures is its own timer against a counter nobody else     *)
(* set or stopped meanwhile.  (lapic_calibrate)                            *)
MeasuredAlone == \A c \in Cores : core[c].freq \in {0, Samples}

(* The thread of kmain, which everything else starts from, is made when    *)
(* all cores have made themselves ready.  (init_cpu)                       *)
KmainLast == kmain => \A c \in Cores : core[c].pc = "schedule"

(* Once init_acpi has accepted the tables, and they give every interrupt   *)
(* an I/O APIC, the kernel comes up: it finds them, kmain starts and every *)
(* core of the platform schedules.  (ioapic_get_addr; init_cpu starts the  *)
(* cores init_apic_info has counted and waits for those Limine has.)       *)
Routable == dev.core_count > 0 /\ \A k \in DOMAIN Irqs : Home(Gsi(Irqs[k].irq)) # {}
ComesUp == Routable ~> (kmain /\ \A c \in Cores : core[c].pc = "schedule")
=============================================================================
