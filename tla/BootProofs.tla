----------------------------- MODULE BootProofs -----------------------------
(***************************************************************************)
(* The start of the cores, for every number of cores, every MADT, list of  *)
(* device interrupts and IDT: what the cores share while they initialise   *)
(* themselves at the same time ends up as if each had been alone.          *)
(***************************************************************************)
EXTENDS Boot, TLAPS

(* First-order steps are left to Zenon; a step that needs arithmetic or    *)
(* function updates cites SMT.                                             *)
USE Zenon

(* How far a core has come: its task register is loaded, it has the vector *)
(* of its timer, the descriptor behind it, the same for its IPI, and the   *)
(* stack for both.                                                         *)
HasTr == {"timer", "timer_gate", "calibrate", "measure", "ipi", "ipi_gate", "ist", "ready", "kmain", "schedule"}
HasTimer == HasTr \ {"timer"}
HasTimerGate == HasTimer \ {"timer_gate"}
HasIpi == {"ipi_gate", "ist", "ready", "kmain", "schedule"}
HasIpiGate == HasIpi \ {"ipi_gate"}
HasIst == {"ready", "kmain", "schedule"}
IsReady == {"kmain", "schedule"}

Stage == {"off", "wait", "tss", "ltr"} \cup HasTr
Gate == {"exception", "device", "ISR_Timer", "ISR_IPI", None}

(* A core never comes to the fault of ltr.                                 *)
BootTypes ==
    /\ madt \in Madts
    /\ i \in Nat
    /\ core \in [Cores -> [pc : Stage, timer : Nat, ipi : Nat, freq : Nat,
                           tr : Cores \cup {None}, count : Nat]]
    /\ gdt \in [tss : Cores \cup {None}, busy : BOOLEAN]
    /\ idt \in [entry : [Vectors -> [gate : Gate, ist : {0, 1}]], cur : Nat]
    /\ hpet \in [on : BOOLEAN, value : Nat]
    /\ lock \in [tss : Cores \cup {None}, calibrate : Cores \cup {None}]

(* While the devices' interrupts are routed no other core runs; each has   *)
(* its vector, and after redtab_low its descriptor.                        *)
RouteInv ==
    /\ ~ Routed => \A c \in Cores : core[c].pc \in {"off", "wait"}
    /\ \A k \in DOMAIN Irqs :
          /\ k < i => /\ Irqs[k].vector < idt.cur
                      /\ idt.entry[Irqs[k].vector] = [gate |-> "device", ist |-> 1]
          /\ k = i /\ pc \in {"high", "low"} => Irqs[k].vector < idt.cur

(* Between load_tss_entry and ltr the TSS entry of the GDT is the core's.  *)
TssInv ==
    \A c \in Cores :
        /\ core[c].pc = "ltr" => lock.tss = c /\ gdt.tss = c /\ ~ gdt.busy
        /\ core[c].tr = IF core[c].pc \in HasTr THEN c ELSE None

(* The core that measures its timer holds calibrate_lock, and the HPET has *)
(* run as long as the timer.                                               *)
CalibrateInv ==
    \A c \in Cores :
        /\ core[c].pc = "measure" =>
              lock.calibrate = c /\ hpet.on /\ hpet.value + core[c].count = Samples
        /\ core[c].pc # "measure" => core[c].count = 0
        /\ core[c].freq \in {0, Samples}

(* A vector that has been handed out is below the next one.                *)
Taken(v) == v \in Vectors /\ v < idt.cur /\ \A k \in DOMAIN Irqs : v # Irqs[k].vector

VectorInv ==
    /\ \A c \in Cores :
          /\ IF core[c].pc \in HasTimer THEN Taken(core[c].timer) ELSE core[c].timer = 0
          /\ IF core[c].pc \in HasIpi THEN Taken(core[c].ipi) ELSE core[c].ipi = 0
          /\ core[c].pc \in HasIpi => core[c].timer # core[c].ipi
    /\ \A c, d \in Cores : c # d =>
          /\ core[c].pc \in HasTimer /\ core[d].pc \in HasTimer => core[c].timer # core[d].timer
          /\ core[c].pc \in HasTimer /\ core[d].pc \in HasIpi => core[c].timer # core[d].ipi
          /\ core[c].pc \in HasIpi /\ core[d].pc \in HasIpi => core[c].ipi # core[d].ipi

(* The descriptors a core has written stay as it wrote them.               *)
GateInv ==
    \A c \in Cores :
        /\ core[c].pc \in HasTimerGate => idt.entry[core[c].timer].gate = "ISR_Timer"
        /\ core[c].pc \in HasIpiGate => idt.entry[core[c].ipi].gate = "ISR_IPI"
        /\ core[c].pc \in HasIst => /\ idt.entry[core[c].timer].ist = 1
                                    /\ idt.entry[core[c].ipi].ist = 1

BootInv == BootTypes /\ RouteInv /\ TssInv /\ CalibrateInv /\ VectorInv /\ GateInv
-----------------------------------------------------------------------------
(* The table, and with it the set of the cores, never changes.             *)
LEMMA SameCores == UNCHANGED madt => Cores' = Cores
<1> QED
    BY DEF Cores, cpu_count

(* The cores are in Limine's list, the bsp core among them; none is None.  *)
LEMMA NoneIsNoCore == madt \in Madts => Cores \subseteq AllCores /\ None \notin Cores /\ Bsp \in Cores
<1> SUFFICES ASSUME madt \in Madts
             PROVE  Cores \subseteq AllCores
    BY BootAssumption DEF Cores, cpu_count
<1>1. cpu_count \in 0 .. Len(cpus)
    BY BootAssumption DEF cpu_count
<1>2. DOMAIN cpus = 1 .. Len(cpus)
    BY BootAssumption, SMT
<1> QED
    BY <1>1, <1>2, SMT DEF Cores, AllCores

(* The devices' interrupts are numbered, and their vectors numbers.        *)
LEMMA IrqNumbers ==
    /\ Len(Irqs) \in Nat /\ DOMAIN Irqs = 1 .. Len(Irqs)
    /\ \A k \in DOMAIN Irqs : k \in Nat /\ k <= Len(Irqs)
    /\ \A k \in DOMAIN Irqs : Irqs[k].vector \in Nat /\ Irqs[k].vector \in Vectors
<1>1. Len(Irqs) \in Nat /\ DOMAIN Irqs = 1 .. Len(Irqs)
    BY BootAssumption, SMT
<1>2. \A k \in DOMAIN Irqs : Irqs[k].vector \in Nat /\ Irqs[k].vector \in Vectors
    BY BootAssumption
<1> QED
    BY <1>1, <1>2, SMT

(* The vectors that have been handed out stay below the next one.          *)
LEMMA Further == \A a, b, c \in Nat : a < b /\ c >= b => a < c
<1> QED
    BY SMT

(* The initial states.                                                     *)
LEMMA InitBoot == Init => BootInv
<1> SUFFICES ASSUME Init PROVE BootInv
    OBVIOUS
<1> USE BootAssumption DEF Init, IrqInit
<1>1. \A c \in Cores : /\ core[c].pc \in {"off", "wait"} /\ core[c].timer = 0 /\ core[c].ipi = 0
                       /\ core[c].freq = 0 /\ core[c].tr = None /\ core[c].count = 0
    OBVIOUS
<1>2. BootTypes
    <2>1. core \in [Cores -> [pc : Stage, timer : Nat, ipi : Nat, freq : Nat,
                              tr : Cores \cup {None}, count : Nat]]
        BY DEF Stage
    <2>2. idt \in [entry : [Vectors -> [gate : Gate, ist : {0, 1}]], cur : Nat]
        BY DEF Gate, None
    <2> QED
        BY <2>1, <2>2 DEF BootTypes
<1>3. RouteInv
    BY <1>1, SMT DEF RouteInv
<1>4. TssInv /\ CalibrateInv
    BY <1>1 DEF TssInv, CalibrateInv, HasTr
<1>5. VectorInv /\ GateInv
    BY <1>1 DEF VectorInv, GateInv, HasTr, HasTimer, HasTimerGate, HasIpi, HasIpiGate, HasIst
<1> QED
    BY <1>2, <1>3, <1>4, <1>5 DEF BootInv

-----------------------------------------------------------------------------
(* What a step leaves alone, for each part of the invariant.               *)
Started == Routed /\ Routed' /\ UNCHANGED <<madt, i, pc>>

DevicesKept ==
    /\ idt'.cur >= idt.cur
    /\ \A k \in DOMAIN Irqs : idt'.entry[Irqs[k].vector] = idt.entry[Irqs[k].vector]

TssKept ==
    /\ UNCHANGED <<gdt, lock.tss>>
    /\ \A d \in Cores : /\ core'[d].tr = core[d].tr
                        /\ core'[d].pc = "ltr" => core[d].pc = "ltr"
                        /\ core'[d].pc \in HasTr <=> core[d].pc \in HasTr

CalibrateKept ==
    /\ UNCHANGED <<hpet, lock.calibrate>>
    /\ \A d \in Cores : /\ core'[d].count = core[d].count
                        /\ core'[d].freq = core[d].freq
                        /\ core'[d].pc = "measure" <=> core[d].pc = "measure"

VectorsKept ==
    /\ idt'.cur >= idt.cur
    /\ \A d \in Cores : /\ core'[d].timer = core[d].timer
                        /\ core'[d].ipi = core[d].ipi
                        /\ core'[d].pc \in HasTimer <=> core[d].pc \in HasTimer
                        /\ core'[d].pc \in HasIpi <=> core[d].pc \in HasIpi

GatesKept ==
    /\ idt'.entry = idt.entry
    /\ \A d \in Cores : /\ core'[d].pc \in HasTimerGate => core[d].pc \in HasTimerGate /\ core'[d].timer = core[d].timer
                        /\ core'[d].pc \in HasIpiGate => core[d].pc \in HasIpiGate /\ core'[d].ipi = core[d].ipi
                        /\ core'[d].pc \in HasIst => core[d].pc \in HasIst

(* Each part of the invariant is preserved by a step that leaves what it   *)
(* speaks of alone, as most steps of core_init do.  The devices' entries:  *)
LEMMA KeepRoute == BootInv /\ Started /\ DevicesKept /\ idt'.cur \in Nat => RouteInv'
<1> SUFFICES ASSUME BootInv, Started, DevicesKept, idt'.cur \in Nat PROVE RouteInv'
    OBVIOUS
<1>1. \A k \in DOMAIN Irqs : /\ k < i /\ k \in Nat
                             /\ Irqs[k].vector \in Nat
    <2>1. i \in Nat /\ i > Len(Irqs)
        BY DEF Started, Routed, BootInv, BootTypes
    <2> QED
        BY <2>1, IrqNumbers, SMT
<1>2. \A k \in DOMAIN Irqs : Irqs[k].vector < idt'.cur
    <2>1. idt.cur \in Nat
        BY DEF BootInv, BootTypes
    <2>2. \A k \in DOMAIN Irqs : Irqs[k].vector < idt.cur
        BY <1>1 DEF BootInv, RouteInv
    <2> QED
        BY <1>1, <2>1, <2>2, Further DEF DevicesKept
<1> QED
    BY <1>1, <1>2 DEF BootInv, RouteInv, Started, DevicesKept

(* the TSS entry and the task registers (load_tss_entry);                  *)
LEMMA KeepTss == BootInv /\ UNCHANGED madt /\ TssKept => TssInv'
<1> QED
    BY SameCores DEF BootInv, TssInv, TssKept

(* the HPET and the frequencies (lapic_calibrate);                         *)
LEMMA KeepCalibrate == BootInv /\ UNCHANGED madt /\ CalibrateKept => CalibrateInv'
<1> QED
    BY SameCores, SMT DEF BootInv, CalibrateInv, CalibrateKept

(* the vectors of the cores (allocate_vector);                             *)
LEMMA KeepVectors == BootInv /\ UNCHANGED madt /\ VectorsKept /\ idt'.cur \in Nat => VectorInv'
<1> SUFFICES ASSUME BootInv, UNCHANGED madt, VectorsKept, idt'.cur \in Nat
             PROVE  VectorInv'
    OBVIOUS
<1>1. \A v : Taken(v) => Taken(v)'
    <2>1. idt.cur \in Nat /\ Vectors \subseteq Nat
        BY BootAssumption DEF BootInv, BootTypes
    <2> QED
        BY <2>1, Further DEF Taken, VectorsKept
<1> QED
    BY <1>1, SameCores, SMT DEF BootInv, VectorInv, VectorsKept

(* and what is behind them (add_descriptor, set_vector_ist).               *)
LEMMA KeepGates == BootInv /\ UNCHANGED madt /\ GatesKept => GateInv'
<1> SUFFICES ASSUME BootInv, UNCHANGED madt, GatesKept
             PROVE  GateInv'
    OBVIOUS
<1>1. HasIst \subseteq HasTimerGate /\ HasIst \subseteq HasIpiGate
    BY DEF HasIst, HasTimerGate, HasTimer, HasTr, HasIpiGate, HasIpi
<1> QED
    BY <1>1, SameCores, SMT DEF BootInv, GateInv, GatesKept

(* A core that runs does so after the devices are routed.                  *)
LEMMA Running ==
    ASSUME BootInv, NEW c \in Cores, core[c].pc \notin {"off", "wait"}, UNCHANGED irqVars
    PROVE  Started /\ Cores' = Cores
<1>1. Routed
    BY DEF BootInv, RouteInv
<1>2. UNCHANGED <<madt, i, pc>>
    BY DEF irqVars
<1> QED
    BY <1>1, <1>2, SameCores DEF Started, Routed

(* What core_init keeps of a core.                                         *)
CoreRecord == [pc : Stage, timer : Nat, ipi : Nat, freq : Nat, tr : Cores \cup {None}, count : Nat]

(* A step of core_init changes one core, and keeps the types of the cores. *)
LEMMA OneCore ==
    ASSUME BootInv, NEW c \in Cores, NEW r \in CoreRecord, UNCHANGED madt,
           core' = [core EXCEPT ![c] = r]
    PROVE  /\ core' \in [Cores' -> CoreRecord']
           /\ core'[c] = r
           /\ \A d \in Cores \ {c} : core'[d] = core[d]
<1>1. Cores' = Cores /\ CoreRecord' = CoreRecord
    BY SameCores DEF CoreRecord
<1>2. core \in [Cores -> CoreRecord]
    BY DEF BootInv, BootTypes, CoreRecord
<1> QED
    BY <1>1, <1>2

(* load_tss_entry: nobody else is between the write and ltr, as tss_lock   *)
(* was free.                                                               *)
LEMMA LoadTssB ==
    ASSUME BootInv, NEW c \in Cores, load_tss_entry(c)
    PROVE  BootInv'
<1> DEFINE r == [core[c] EXCEPT !.pc = "ltr"]
<1>1. /\ core[c].pc = "tss" /\ core' = [core EXCEPT ![c] = r] /\ UNCHANGED irqVars
      /\ UNCHANGED <<idt, hpet, lock.calibrate>>
      /\ lock.tss = None /\ lock' = [lock EXCEPT !.tss = c]
      /\ gdt' = [tss |-> c, busy |-> FALSE]
    BY DEF load_tss_entry, Goto, TssLocked, BootInv, BootTypes
<1>2. Started /\ Cores' = Cores /\ UNCHANGED madt
    BY <1>1, Running DEF irqVars
<1>3. core[c] \in CoreRecord /\ r \in CoreRecord
    BY SMT DEF BootInv, BootTypes, CoreRecord, Stage
<1>4. /\ core' \in [Cores' -> CoreRecord']
      /\ core'[c] = r
      /\ \A d \in Cores \ {c} : core'[d] = core[d]
    BY <1>1, <1>2, <1>3, OneCore
<1>5. /\ r.pc = "ltr" /\ r.tr = core[c].tr /\ r.timer = core[c].timer /\ r.ipi = core[c].ipi
      /\ r.freq = core[c].freq /\ r.count = core[c].count
    BY <1>3 DEF CoreRecord
<1> HIDE DEF r
<1>6. BootTypes'
    BY <1>1, <1>2, <1>4 DEF BootInv, BootTypes, CoreRecord, Started
<1>7. RouteInv'
    BY <1>1, <1>2, KeepRoute, SMT DEF DevicesKept, BootInv, BootTypes
<1>8. TssInv'
    <2>1. lock'.tss = c /\ gdt'.tss = c /\ ~ gdt'.busy
        BY <1>1 DEF BootInv, BootTypes
    <2>2. \A d \in Cores : core[d].pc # "ltr"
        BY <1>1, NoneIsNoCore DEF BootInv, BootTypes, TssInv
    <2> QED
        BY <1>1, <1>2, <1>4, <1>5, <2>1, <2>2, ZenonT(40) DEF BootInv, TssInv, HasTr
<1>9. CalibrateInv'
    BY <1>1, <1>2, <1>4, <1>5, KeepCalibrate DEF CalibrateKept
<1>10. VectorInv'
    BY <1>1, <1>2, <1>4, <1>5, KeepVectors, SMT DEF VectorsKept, BootInv, BootTypes, HasTimer, HasTr, HasIpi
<1>11. GateInv'
    BY <1>1, <1>2, <1>4, <1>5, KeepGates DEF GatesKept, HasTimerGate, HasTimer, HasTr, HasIpiGate, HasIpi, HasIst
<1> QED
    BY <1>6, <1>7, <1>8, <1>9, <1>10, <1>11 DEF BootInv

(* ltr loads the entry of the core, which is not busy.                     *)
LEMMA LtrB ==
    ASSUME BootInv, NEW c \in Cores, ltr(c)
    PROVE  BootInv'
<1> DEFINE r == [core[c] EXCEPT !.pc = "timer", !.tr = c]
<1>1. /\ core[c].pc = "ltr" /\ UNCHANGED irqVars
      /\ UNCHANGED <<idt, hpet, lock.calibrate>>
      /\ gdt' = [gdt EXCEPT !.busy = TRUE] /\ lock' = [lock EXCEPT !.tss = None]
    BY DEF ltr, BootInv, BootTypes
<1>a. lock.tss = c /\ gdt.tss = c /\ ~ gdt.busy
    BY <1>1 DEF BootInv, TssInv
<1>b. core' = [core EXCEPT ![c] = r]
    BY <1>a DEF ltr
<1>2. Started /\ Cores' = Cores /\ UNCHANGED madt
    BY <1>1, Running DEF irqVars
<1>3. core[c] \in CoreRecord /\ r \in CoreRecord
    <2>1. core[c] \in CoreRecord
        BY DEF BootInv, BootTypes, CoreRecord
    <2>2. "timer" \in Stage
        BY DEF Stage, HasTr
    <2> QED
        BY <2>1, <2>2 DEF CoreRecord
<1>4. /\ core' \in [Cores' -> CoreRecord']
      /\ core'[c] = r
      /\ \A d \in Cores \ {c} : core'[d] = core[d]
    BY <1>b, <1>2, <1>3, OneCore
<1>5. /\ r.pc = "timer" /\ r.tr = c /\ r.timer = core[c].timer /\ r.ipi = core[c].ipi
      /\ r.freq = core[c].freq /\ r.count = core[c].count
    BY <1>3 DEF CoreRecord
<1> HIDE DEF r
<1>6. BootTypes'
    BY <1>1, <1>2, <1>4 DEF BootInv, BootTypes, CoreRecord, Started
<1>7. RouteInv'
    BY <1>1, <1>2, KeepRoute, SMT DEF DevicesKept, BootInv, BootTypes
<1>8. TssInv'
    <2>1. \A d \in Cores \ {c} : core[d].pc # "ltr"
        BY <1>a DEF BootInv, TssInv
    <2> QED
        BY <1>1, <1>2, <1>4, <1>5, <2>1, SMT DEF BootInv, TssInv, HasTr
<1>9. CalibrateInv'
    BY <1>1, <1>2, <1>4, <1>5, KeepCalibrate DEF CalibrateKept
<1>10. VectorInv'
    BY <1>1, <1>2, <1>4, <1>5, KeepVectors, SMT DEF VectorsKept, BootInv, BootTypes, HasTimer, HasTr, HasIpi
<1>11. GateInv'
    BY <1>1, <1>2, <1>4, <1>5, KeepGates DEF GatesKept, HasTimerGate, HasTimer, HasTr, HasIpiGate, HasIpi, HasIst
<1> QED
    BY <1>6, <1>7, <1>8, <1>9, <1>10, <1>11 DEF BootInv

(* A vector is handed out: no core and no device has it.                   *)
LEMMA FreshVector ==
    ASSUME BootInv, Routed, idt.cur \in Vectors,
           idt' = [idt EXCEPT !.cur = @ + 1]
    PROVE  /\ idt'.cur = idt.cur + 1 /\ idt'.entry = idt.entry
           /\ idt.cur \in Nat /\ idt'.cur \in Nat /\ idt'.cur >= idt.cur
           /\ idt' \in [entry : [Vectors -> [gate : Gate, ist : {0, 1}]], cur : Nat]
           /\ (\A v : v = idt.cur => Taken(v)') /\ DevicesKept
           /\ \A v : Taken(v) => v # idt.cur /\ Taken(v)'
<1>1. /\ idt'.cur = idt.cur + 1 /\ idt'.entry = idt.entry
      /\ idt.cur \in Nat
      /\ idt' \in [entry : [Vectors -> [gate : Gate, ist : {0, 1}]], cur : Nat]
    BY SMT DEF BootInv, BootTypes
<1>2. idt'.cur \in Nat /\ idt'.cur >= idt.cur /\ idt.cur < idt'.cur
    BY <1>1, SMT
<1>3. \A k \in DOMAIN Irqs : Irqs[k].vector < idt.cur
    <2>1. i \in Nat /\ i > Len(Irqs)
        BY DEF BootInv, BootTypes, Routed
    <2>2. \A k \in DOMAIN Irqs : k < i
        BY <2>1, IrqNumbers, SMT
    <2> QED
        BY <2>2 DEF BootInv, RouteInv
<1>4. \A v \in Nat : v < idt.cur => v # idt.cur
    BY <1>1, SMT
<1>5. Vectors \subseteq Nat
    BY BootAssumption
<1>6. \A v : v = idt.cur => Taken(v)'
    BY <1>1, <1>2, <1>3, <1>4, IrqNumbers DEF Taken
<1>7. \A v : Taken(v) => v # idt.cur /\ Taken(v)'
    BY <1>1, <1>2, <1>4, <1>5, Further DEF Taken
<1> QED
    BY <1>1, <1>2, <1>6, <1>7 DEF DevicesKept
(* The vector of the timer is nobody else's.                               *)
LEMMA TimerVectorB ==
    ASSUME BootInv, NEW c \in Cores, timer_vector(c)
    PROVE  BootInv'
<1> DEFINE r == [core[c] EXCEPT !.pc = "timer_gate", !.timer = idt.cur]
<1>1. /\ core[c].pc = "timer" /\ core' = [core EXCEPT ![c] = r] /\ UNCHANGED irqVars
      /\ UNCHANGED <<gdt, hpet, lock>>
      /\ idt.cur \in Vectors /\ idt' = [idt EXCEPT !.cur = @ + 1]
    BY DEF timer_vector, allocate_vector
<1>2. Started /\ Cores' = Cores /\ UNCHANGED madt
    BY <1>1, Running DEF irqVars
<1>a. /\ idt'.cur = idt.cur + 1 /\ idt'.entry = idt.entry
      /\ idt.cur \in Nat /\ idt'.cur \in Nat /\ idt'.cur >= idt.cur
      /\ idt' \in [entry : [Vectors -> [gate : Gate, ist : {0, 1}]], cur : Nat]
      /\ (\A v : v = idt.cur => Taken(v)') /\ DevicesKept
      /\ \A v : Taken(v) => v # idt.cur /\ Taken(v)'
    BY <1>1, <1>2, FreshVector DEF Started
<1>3. core[c] \in CoreRecord /\ r \in CoreRecord
    <2>1. core[c] \in CoreRecord
        BY DEF BootInv, BootTypes, CoreRecord
    <2>2. "timer_gate" \in Stage
        BY DEF Stage, HasTr
    <2> QED
        BY <2>1, <2>2, <1>a DEF CoreRecord
<1>4. /\ core' \in [Cores' -> CoreRecord']
      /\ core'[c] = r
      /\ \A d \in Cores \ {c} : core'[d] = core[d]
    BY <1>1, <1>2, <1>3, OneCore
<1>5. /\ r.pc = "timer_gate" /\ r.tr = core[c].tr /\ r.timer = idt.cur /\ r.ipi = core[c].ipi
      /\ r.freq = core[c].freq /\ r.count = core[c].count
    BY <1>3 DEF CoreRecord
<1> HIDE DEF r
<1>6. BootTypes'
    BY <1>1, <1>2, <1>4, <1>a DEF BootInv, BootTypes, CoreRecord, Started
<1>7. RouteInv'
    BY <1>2, <1>a, KeepRoute
<1>8. TssInv'
    BY <1>1, <1>2, <1>4, <1>5, KeepTss DEF TssKept, HasTr
<1>9. CalibrateInv'
    BY <1>1, <1>2, <1>4, <1>5, KeepCalibrate DEF CalibrateKept
<1>10. VectorInv'
    <2> USE DEF HasTimer, HasTr, HasIpi
    <2>1. \A d \in Cores :
              /\ IF core[d].pc \in HasTimer THEN Taken(core[d].timer) ELSE core[d].timer = 0
              /\ IF core[d].pc \in HasIpi THEN Taken(core[d].ipi) ELSE core[d].ipi = 0
        BY DEF BootInv, VectorInv
    <2> QED
        BY <1>1, <1>2, <1>4, <1>5, <1>a, <2>1, SMT DEF BootInv, VectorInv
<1>11. GateInv'
    BY <1>1, <1>2, <1>4, <1>5, <1>a, KeepGates DEF GatesKept, HasTimerGate, HasTimer, HasTr, HasIpiGate, HasIpi, HasIst
<1> QED
    BY <1>6, <1>7, <1>8, <1>9, <1>10, <1>11 DEF BootInv

(* That of the IPI too, the core's own timer included.                     *)
LEMMA IpiVectorB ==
    ASSUME BootInv, NEW c \in Cores, ipi_vector(c)
    PROVE  BootInv'
<1> DEFINE r == [core[c] EXCEPT !.pc = "ipi_gate", !.ipi = idt.cur]
<1>1. /\ core[c].pc = "ipi" /\ core' = [core EXCEPT ![c] = r] /\ UNCHANGED irqVars
      /\ UNCHANGED <<gdt, hpet, lock>>
      /\ idt.cur \in Vectors /\ idt' = [idt EXCEPT !.cur = @ + 1]
    BY DEF ipi_vector, allocate_vector
<1>2. Started /\ Cores' = Cores /\ UNCHANGED madt
    BY <1>1, Running DEF irqVars
<1>a. /\ idt'.cur = idt.cur + 1 /\ idt'.entry = idt.entry
      /\ idt.cur \in Nat /\ idt'.cur \in Nat /\ idt'.cur >= idt.cur
      /\ idt' \in [entry : [Vectors -> [gate : Gate, ist : {0, 1}]], cur : Nat]
      /\ (\A v : v = idt.cur => Taken(v)') /\ DevicesKept
      /\ \A v : Taken(v) => v # idt.cur /\ Taken(v)'
    BY <1>1, <1>2, FreshVector DEF Started
<1>3. core[c] \in CoreRecord /\ r \in CoreRecord
    <2>1. core[c] \in CoreRecord
        BY DEF BootInv, BootTypes, CoreRecord
    <2>2. "ipi_gate" \in Stage
        BY DEF Stage, HasTr
    <2> QED
        BY <2>1, <2>2, <1>a DEF CoreRecord
<1>4. /\ core' \in [Cores' -> CoreRecord']
      /\ core'[c] = r
      /\ \A d \in Cores \ {c} : core'[d] = core[d]
    BY <1>1, <1>2, <1>3, OneCore
<1>5. /\ r.pc = "ipi_gate" /\ r.tr = core[c].tr /\ r.timer = core[c].timer /\ r.ipi = idt.cur
      /\ r.freq = core[c].freq /\ r.count = core[c].count
    BY <1>3 DEF CoreRecord
<1> HIDE DEF r
<1>6. BootTypes'
    BY <1>1, <1>2, <1>4, <1>a DEF BootInv, BootTypes, CoreRecord, Started
<1>7. RouteInv'
    BY <1>2, <1>a, KeepRoute
<1>8. TssInv'
    BY <1>1, <1>2, <1>4, <1>5, KeepTss DEF TssKept, HasTr
<1>9. CalibrateInv'
    BY <1>1, <1>2, <1>4, <1>5, KeepCalibrate DEF CalibrateKept
<1>10. VectorInv'
    <2> USE DEF HasTimer, HasTr, HasIpi
    <2>1. \A d \in Cores :
              /\ IF core[d].pc \in HasTimer THEN Taken(core[d].timer) ELSE core[d].timer = 0
              /\ IF core[d].pc \in HasIpi THEN Taken(core[d].ipi) ELSE core[d].ipi = 0
        BY DEF BootInv, VectorInv
    <2> QED
        BY <1>1, <1>2, <1>4, <1>5, <1>a, <2>1, SMT DEF BootInv, VectorInv
<1>11. GateInv'
    BY <1>1, <1>2, <1>4, <1>5, <1>a, KeepGates DEF GatesKept, HasTimerGate, HasTimer, HasTr, HasIpiGate, HasIpi, HasIst
<1> QED
    BY <1>6, <1>7, <1>8, <1>9, <1>10, <1>11 DEF BootInv
(* Writing the descriptor of the timer touches no other core's or device's *)
(* entry.                                                                  *)
LEMMA TimerDescriptorB ==
    ASSUME BootInv, NEW c \in Cores, timer_descriptor(c)
    PROVE  BootInv'
<1> DEFINE r == [core[c] EXCEPT !.pc = "calibrate"]
<1>1. /\ core[c].pc = "timer_gate" /\ core' = [core EXCEPT ![c] = r] /\ UNCHANGED irqVars
      /\ UNCHANGED <<gdt, hpet, lock>>
      /\ idt' = [idt EXCEPT !.entry = [idt.entry EXCEPT ![core[c].timer] = [gate |-> "ISR_Timer", ist |-> 0]]]
    BY DEF timer_descriptor, Goto, add_descriptor
<1>2. Started /\ Cores' = Cores /\ UNCHANGED madt
    BY <1>1, Running DEF irqVars
<1>3. core[c] \in CoreRecord /\ r \in CoreRecord
    <2>1. core[c] \in CoreRecord
        BY DEF BootInv, BootTypes, CoreRecord
    <2>2. "calibrate" \in Stage
        BY DEF Stage, HasTr
    <2> QED
        BY <2>1, <2>2 DEF CoreRecord
<1>4. /\ core' \in [Cores' -> CoreRecord']
      /\ core'[c] = r
      /\ \A d \in Cores \ {c} : core'[d] = core[d]
    BY <1>1, <1>2, <1>3, OneCore
<1>5. /\ r.pc = "calibrate" /\ r.tr = core[c].tr /\ r.timer = core[c].timer /\ r.ipi = core[c].ipi
      /\ r.freq = core[c].freq /\ r.count = core[c].count
    BY <1>3 DEF CoreRecord
<1> HIDE DEF r
<1>a. Taken(core[c].timer)
    BY <1>1 DEF BootInv, VectorInv, HasTimer, HasTr, HasIpi
<1>b. /\ core[c].timer \in Vectors
      /\ \A k \in DOMAIN Irqs : core[c].timer # Irqs[k].vector
    BY <1>a DEF Taken
<1>c. /\ idt'.cur = idt.cur /\ idt.cur \in Nat
      /\ idt' \in [entry : [Vectors -> [gate : Gate, ist : {0, 1}]], cur : Nat]
      /\ idt'.entry[core[c].timer].gate = "ISR_Timer"
      /\ \A v \in Vectors \ {core[c].timer} : idt'.entry[v] = idt.entry[v]
    BY <1>1, <1>b DEF BootInv, BootTypes, Gate
<1>6. BootTypes'
    BY <1>1, <1>2, <1>4, <1>c DEF BootInv, BootTypes, CoreRecord, Started
<1>7. RouteInv'
    <2>1. DevicesKept
        BY <1>b, <1>c, IrqNumbers, SMT DEF DevicesKept
    <2> QED
        BY <1>2, <1>c, <2>1, KeepRoute
<1>8. TssInv'
    BY <1>1, <1>2, <1>4, <1>5, KeepTss DEF TssKept, HasTr
<1>9. CalibrateInv'
    BY <1>1, <1>2, <1>4, <1>5, KeepCalibrate DEF CalibrateKept
<1>10. VectorInv'
    BY <1>1, <1>2, <1>4, <1>5, <1>c, KeepVectors, SMT DEF VectorsKept, HasTimer, HasTr, HasIpi
<1>11. GateInv'
    <2> USE DEF HasTimerGate, HasTimer, HasTr, HasIpiGate, HasIpi, HasIst
    <2>1. ASSUME NEW d \in Cores, d # c
          PROVE  /\ core[d].pc \in HasTimerGate => core[d].timer \in Vectors \ {core[c].timer}
                 /\ core[d].pc \in HasIpiGate => core[d].ipi \in Vectors \ {core[c].timer}
        BY <1>1, <2>1 DEF BootInv, VectorInv, Taken
    <2>2. ASSUME NEW d \in Cores, d # c
          PROVE  /\ core'[d].pc \in HasTimerGate => idt'.entry[core'[d].timer].gate = "ISR_Timer"
                 /\ core'[d].pc \in HasIpiGate => idt'.entry[core'[d].ipi].gate = "ISR_IPI"
                 /\ core'[d].pc \in HasIst => /\ idt'.entry[core'[d].timer].ist = 1
                                               /\ idt'.entry[core'[d].ipi].ist = 1
        BY <1>4, <1>c, <2>1, <2>2, SMTT(30) DEF BootInv, GateInv
    <2>3. /\ core'[c].pc \in HasTimerGate => idt'.entry[core'[c].timer].gate = "ISR_Timer"
          /\ core'[c].pc \in HasIpiGate => idt'.entry[core'[c].ipi].gate = "ISR_IPI"
          /\ core'[c].pc \notin HasIst
        BY <1>1, <1>4, <1>5, <1>c, SMTT(30) DEF BootInv, GateInv, VectorInv, Taken
    <2> QED
        BY <1>2, <2>2, <2>3 DEF GateInv
<1> QED
    BY <1>6, <1>7, <1>8, <1>9, <1>10, <1>11 DEF BootInv

(* Nor does writing that of the IPI.                                       *)
LEMMA IpiDescriptorB ==
    ASSUME BootInv, NEW c \in Cores, ipi_descriptor(c)
    PROVE  BootInv'
<1> DEFINE r == [core[c] EXCEPT !.pc = "ist"]
<1>1. /\ core[c].pc = "ipi_gate" /\ core' = [core EXCEPT ![c] = r] /\ UNCHANGED irqVars
      /\ UNCHANGED <<gdt, hpet, lock>>
      /\ idt' = [idt EXCEPT !.entry = [idt.entry EXCEPT ![core[c].ipi] = [gate |-> "ISR_IPI", ist |-> 0]]]
    BY DEF ipi_descriptor, Goto, add_descriptor
<1>2. Started /\ Cores' = Cores /\ UNCHANGED madt
    BY <1>1, Running DEF irqVars
<1>3. core[c] \in CoreRecord /\ r \in CoreRecord
    <2>1. core[c] \in CoreRecord
        BY DEF BootInv, BootTypes, CoreRecord
    <2>2. "ist" \in Stage
        BY DEF Stage, HasTr
    <2> QED
        BY <2>1, <2>2 DEF CoreRecord
<1>4. /\ core' \in [Cores' -> CoreRecord']
      /\ core'[c] = r
      /\ \A d \in Cores \ {c} : core'[d] = core[d]
    BY <1>1, <1>2, <1>3, OneCore
<1>5. /\ r.pc = "ist" /\ r.tr = core[c].tr /\ r.timer = core[c].timer /\ r.ipi = core[c].ipi
      /\ r.freq = core[c].freq /\ r.count = core[c].count
    BY <1>3 DEF CoreRecord
<1> HIDE DEF r
<1>a. Taken(core[c].ipi)
    BY <1>1 DEF BootInv, VectorInv, HasTimer, HasTr, HasIpi
<1>b. /\ core[c].ipi \in Vectors
      /\ \A k \in DOMAIN Irqs : core[c].ipi # Irqs[k].vector
    BY <1>a DEF Taken
<1>c. /\ idt'.cur = idt.cur /\ idt.cur \in Nat
      /\ idt' \in [entry : [Vectors -> [gate : Gate, ist : {0, 1}]], cur : Nat]
      /\ idt'.entry[core[c].ipi].gate = "ISR_IPI"
      /\ \A v \in Vectors \ {core[c].ipi} : idt'.entry[v] = idt.entry[v]
    BY <1>1, <1>b DEF BootInv, BootTypes, Gate
<1>6. BootTypes'
    BY <1>1, <1>2, <1>4, <1>c DEF BootInv, BootTypes, CoreRecord, Started
<1>7. RouteInv'
    <2>1. DevicesKept
        BY <1>b, <1>c, IrqNumbers, SMT DEF DevicesKept
    <2> QED
        BY <1>2, <1>c, <2>1, KeepRoute
<1>8. TssInv'
    BY <1>1, <1>2, <1>4, <1>5, KeepTss DEF TssKept, HasTr
<1>9. CalibrateInv'
    BY <1>1, <1>2, <1>4, <1>5, KeepCalibrate DEF CalibrateKept
<1>10. VectorInv'
    BY <1>1, <1>2, <1>4, <1>5, <1>c, KeepVectors, SMT DEF VectorsKept, HasTimer, HasTr, HasIpi
<1>11. GateInv'
    <2> USE DEF HasTimerGate, HasTimer, HasTr, HasIpiGate, HasIpi, HasIst
    <2>1. ASSUME NEW d \in Cores, d # c
          PROVE  /\ core[d].pc \in HasTimerGate => core[d].timer \in Vectors \ {core[c].ipi}
                 /\ core[d].pc \in HasIpiGate => core[d].ipi \in Vectors \ {core[c].ipi}
        BY <1>1, <2>1 DEF BootInv, VectorInv, Taken
    <2>2. ASSUME NEW d \in Cores, d # c
          PROVE  /\ core'[d].pc \in HasTimerGate => idt'.entry[core'[d].timer].gate = "ISR_Timer"
                 /\ core'[d].pc \in HasIpiGate => idt'.entry[core'[d].ipi].gate = "ISR_IPI"
                 /\ core'[d].pc \in HasIst => /\ idt'.entry[core'[d].timer].ist = 1
                                               /\ idt'.entry[core'[d].ipi].ist = 1
        BY <1>4, <1>c, <2>1, <2>2, SMTT(30) DEF BootInv, GateInv
    <2>3. /\ core'[c].pc \in HasTimerGate => idt'.entry[core'[c].timer].gate = "ISR_Timer"
          /\ core'[c].pc \in HasIpiGate => idt'.entry[core'[c].ipi].gate = "ISR_IPI"
          /\ core'[c].pc \notin HasIst
        BY <1>1, <1>4, <1>5, <1>c, SMT DEF BootInv, GateInv, VectorInv, Taken
    <2> QED
        BY <1>2, <2>2, <2>3 DEF GateInv
<1> QED
    BY <1>6, <1>7, <1>8, <1>9, <1>10, <1>11 DEF BootInv

(* set_vector_ist changes no handler, and the stack of no device.          *)
LEMMA SetVectorIstB ==
    ASSUME BootInv, NEW c \in Cores, set_vector_ist(c)
    PROVE  BootInv'
<1> DEFINE r == [core[c] EXCEPT !.pc = "ready"]
<1>1. /\ core[c].pc = "ist" /\ core' = [core EXCEPT ![c] = r] /\ UNCHANGED irqVars
      /\ UNCHANGED <<gdt, hpet, lock>>
      /\ idt' = [idt EXCEPT !.entry = [v \in Vectors |->
                    IF v \in {core[c].timer, core[c].ipi} \cup 0 .. 19
                    THEN [idt.entry[v] EXCEPT !.ist = 1] ELSE idt.entry[v]]]
    BY DEF set_vector_ist, Goto
<1>2. Started /\ Cores' = Cores /\ UNCHANGED madt
    BY <1>1, Running DEF irqVars
<1>3. core[c] \in CoreRecord /\ r \in CoreRecord
    <2>1. core[c] \in CoreRecord
        BY DEF BootInv, BootTypes, CoreRecord
    <2>2. "ready" \in Stage
        BY DEF Stage, HasTr
    <2> QED
        BY <2>1, <2>2 DEF CoreRecord
<1>4. /\ core' \in [Cores' -> CoreRecord']
      /\ core'[c] = r
      /\ \A d \in Cores \ {c} : core'[d] = core[d]
    BY <1>1, <1>2, <1>3, OneCore
<1>5. /\ r.pc = "ready" /\ r.tr = core[c].tr /\ r.timer = core[c].timer /\ r.ipi = core[c].ipi
      /\ r.freq = core[c].freq /\ r.count = core[c].count
    BY <1>3 DEF CoreRecord
<1> HIDE DEF r
<1>a. core[c].timer \in Vectors /\ core[c].ipi \in Vectors
    BY <1>1 DEF BootInv, VectorInv, Taken, HasTimer, HasTr, HasIpi
<1>b. \A v \in Vectors : idt.entry[v] \in [gate : Gate, ist : {0, 1}]
    BY DEF BootInv, BootTypes
<1>c. /\ idt'.cur = idt.cur /\ idt.cur \in Nat
      /\ idt'.entry = [v \in Vectors |->
                    IF v \in {core[c].timer, core[c].ipi} \cup 0 .. 19
                    THEN [idt.entry[v] EXCEPT !.ist = 1] ELSE idt.entry[v]]
      /\ idt' = [entry |-> idt'.entry, cur |-> idt'.cur]
    BY <1>1 DEF BootInv, BootTypes
<1>d. \A v \in Vectors : /\ idt'.entry[v] \in [gate : Gate, ist : {0, 1}]
                         /\ idt'.entry[v].gate = idt.entry[v].gate
                         /\ idt.entry[v].ist = 1 => idt'.entry[v] = idt.entry[v]
                         /\ v \in {core[c].timer, core[c].ipi} => idt'.entry[v].ist = 1
    BY <1>b, <1>c, SMT
<1>e. idt' \in [entry : [Vectors -> [gate : Gate, ist : {0, 1}]], cur : Nat]
    BY <1>c, <1>d
<1>6. BootTypes'
    BY <1>1, <1>2, <1>4, <1>e, ZenonT(40) DEF BootInv, BootTypes, CoreRecord, Started
<1>7. RouteInv'
    <2>1. \A k \in DOMAIN Irqs : k < i
        BY <1>2, IrqNumbers, SMT DEF Started, Routed, BootInv, BootTypes
    <2>2. \A k \in DOMAIN Irqs : idt.entry[Irqs[k].vector].ist = 1
        BY <2>1, SMT DEF BootInv, RouteInv
    <2>3. DevicesKept
        <3>1. \A k \in DOMAIN Irqs : idt'.entry[Irqs[k].vector] = idt.entry[Irqs[k].vector]
            BY <1>d, <2>2, IrqNumbers
        <3>2. idt'.cur >= idt.cur
            BY <1>c, SMT
        <3> QED
            BY <3>1, <3>2 DEF DevicesKept
    <2> QED
        BY <1>2, <1>c, <2>3, KeepRoute
<1>8. TssInv'
    BY <1>1, <1>2, <1>4, <1>5, KeepTss DEF TssKept, HasTr
<1>9. CalibrateInv'
    BY <1>1, <1>2, <1>4, <1>5, KeepCalibrate DEF CalibrateKept
<1>10. VectorInv'
    BY <1>1, <1>2, <1>4, <1>5, <1>c, KeepVectors, SMT DEF VectorsKept, HasTimer, HasTr, HasIpi
<1>11. GateInv'
    <2> USE DEF HasTimerGate, HasTimer, HasTr, HasIpiGate, HasIpi, HasIst
    <2>1. \A d \in Cores : /\ core[d].pc \in HasTimerGate => core[d].timer \in Vectors
                           /\ core[d].pc \in HasIpiGate => core[d].ipi \in Vectors
        BY DEF BootInv, VectorInv, Taken
    <2>2. ASSUME NEW d \in Cores, d # c
          PROVE  /\ core'[d].pc \in HasTimerGate => idt'.entry[core'[d].timer].gate = "ISR_Timer"
                 /\ core'[d].pc \in HasIpiGate => idt'.entry[core'[d].ipi].gate = "ISR_IPI"
                 /\ core'[d].pc \in HasIst => /\ idt'.entry[core'[d].timer].ist = 1
                                               /\ idt'.entry[core'[d].ipi].ist = 1
        BY <1>4, <1>d, <2>1, <2>2, SMTT(30) DEF BootInv, GateInv
    <2>3. /\ idt'.entry[core'[c].timer].gate = "ISR_Timer" /\ idt'.entry[core'[c].timer].ist = 1
          /\ idt'.entry[core'[c].ipi].gate = "ISR_IPI" /\ idt'.entry[core'[c].ipi].ist = 1
        BY <1>1, <1>4, <1>5, <1>a, <1>d, SMT DEF BootInv, GateInv
    <2> QED
        BY <1>2, <2>2, <2>3 DEF GateInv
<1> QED
    BY <1>6, <1>7, <1>8, <1>9, <1>10, <1>11 DEF BootInv
(* lapic_calibrate starts the HPET when no other core measures with it.    *)
LEMMA CalibrateB ==
    ASSUME BootInv, NEW c \in Cores, lapic_calibrate(c)
    PROVE  BootInv'
<1> DEFINE r == [core[c] EXCEPT !.pc = "measure", !.count = Samples]
<1>1. /\ core[c].pc = "calibrate" /\ core' = [core EXCEPT ![c] = r] /\ UNCHANGED irqVars
      /\ UNCHANGED <<gdt, idt>>
    BY DEF lapic_calibrate
<1>2. Started /\ Cores' = Cores /\ UNCHANGED madt
    BY <1>1, Running DEF irqVars
<1>3. core[c] \in CoreRecord /\ r \in CoreRecord
    <2>1. core[c] \in CoreRecord
        BY DEF BootInv, BootTypes, CoreRecord
    <2>2. "measure" \in Stage
        BY DEF Stage, HasTr
    <2> QED
        BY <2>1, <2>2, BootAssumption DEF CoreRecord
<1>4. /\ core' \in [Cores' -> CoreRecord']
      /\ core'[c] = r
      /\ \A d \in Cores \ {c} : core'[d] = core[d]
    BY <1>1, <1>2, <1>3, OneCore
<1>5. /\ r.pc = "measure" /\ r.tr = core[c].tr /\ r.timer = core[c].timer /\ r.ipi = core[c].ipi
      /\ r.freq = core[c].freq /\ r.count = Samples
    BY <1>3 DEF CoreRecord
<1> HIDE DEF r
<1>a. /\ lock.calibrate = None /\ lock' = [lock EXCEPT !.calibrate = c]
      /\ hpet' = [on |-> TRUE, value |-> 0]
    BY DEF lapic_calibrate, CalibrateLocked
<1>b. lock'.calibrate = c /\ lock'.tss = lock.tss /\ hpet'.on /\ hpet'.value = 0
    BY <1>a DEF BootInv, BootTypes
<1>6. BootTypes'
    BY <1>1, <1>2, <1>4, <1>a DEF BootInv, BootTypes, CoreRecord, Started
<1>7. RouteInv'
    BY <1>1, <1>2, KeepRoute, SMT DEF DevicesKept, BootInv, BootTypes
<1>8. TssInv'
    BY <1>1, <1>2, <1>4, <1>5, <1>b, KeepTss DEF TssKept, HasTr
<1>9. CalibrateInv'
    <2>1. \A d \in Cores : core[d].pc # "measure"
        BY <1>a, NoneIsNoCore DEF BootInv, BootTypes, CalibrateInv
    <2>2. hpet'.value + Samples = Samples
        BY <1>b, BootAssumption, SMT
    <2> QED
        BY <1>2, <1>4, <1>5, <1>b, <2>1, <2>2, SMT DEF BootInv, CalibrateInv
<1>10. VectorInv'
    BY <1>1, <1>2, <1>4, <1>5, KeepVectors, SMT DEF VectorsKept, BootInv, BootTypes, HasTimer, HasTr, HasIpi
<1>11. GateInv'
    BY <1>1, <1>2, <1>4, <1>5, KeepGates DEF GatesKept, HasTimerGate, HasTimer, HasTr, HasIpiGate, HasIpi, HasIst
<1> QED
    BY <1>6, <1>7, <1>8, <1>9, <1>10, <1>11 DEF BootInv

(* When its timer has run out the core reads what the HPET has counted     *)
(* since: the whole of it.                                                 *)
LEMMA CalibratedB ==
    ASSUME BootInv, NEW c \in Cores, calibrated(c)
    PROVE  BootInv'
<1> DEFINE r == [core[c] EXCEPT !.pc = "ipi", !.freq = hpet.value]
<1>1. /\ core[c].pc = "measure" /\ core' = [core EXCEPT ![c] = r] /\ UNCHANGED irqVars
      /\ UNCHANGED <<gdt, idt>>
    BY DEF calibrated
<1>2. Started /\ Cores' = Cores /\ UNCHANGED madt
    BY <1>1, Running DEF irqVars
<1>a. /\ core[c].count = 0 /\ lock' = [lock EXCEPT !.calibrate = None]
      /\ hpet' = [hpet EXCEPT !.on = FALSE]
    BY DEF calibrated
<1>b. lock'.calibrate = None /\ lock'.tss = lock.tss /\ lock.calibrate = c
    BY <1>1, <1>a DEF BootInv, BootTypes, CalibrateInv
<1>c. hpet.value \in Nat /\ hpet.value = Samples
    <2>1. hpet.value \in Nat /\ hpet.value + 0 = Samples
        BY <1>1, <1>a DEF BootInv, BootTypes, CalibrateInv
    <2> QED
        BY <2>1, SMT
<1>3. core[c] \in CoreRecord /\ r \in CoreRecord
    <2>1. core[c] \in CoreRecord
        BY DEF BootInv, BootTypes, CoreRecord
    <2>2. "ipi" \in Stage
        BY DEF Stage, HasTr
    <2> QED
        BY <2>1, <2>2, <1>c DEF CoreRecord
<1>4. /\ core' \in [Cores' -> CoreRecord']
      /\ core'[c] = r
      /\ \A d \in Cores \ {c} : core'[d] = core[d]
    BY <1>1, <1>2, <1>3, OneCore
<1>5. /\ r.pc = "ipi" /\ r.tr = core[c].tr /\ r.timer = core[c].timer /\ r.ipi = core[c].ipi
      /\ r.freq = hpet.value /\ r.count = core[c].count
    BY <1>3 DEF CoreRecord
<1> HIDE DEF r
<1>6. BootTypes'
    BY <1>1, <1>2, <1>4, <1>a DEF BootInv, BootTypes, CoreRecord, Started
<1>7. RouteInv'
    BY <1>1, <1>2, KeepRoute, SMT DEF DevicesKept, BootInv, BootTypes
<1>8. TssInv'
    BY <1>1, <1>2, <1>4, <1>5, <1>b, KeepTss DEF TssKept, HasTr
<1>9. CalibrateInv'
    <2>1. \A d \in Cores \ {c} : core[d].pc # "measure"
        BY <1>b DEF BootInv, CalibrateInv
    <2> QED
        BY <1>2, <1>4, <1>5, <1>a, <1>c, <2>1, SMT DEF BootInv, CalibrateInv
<1>10. VectorInv'
    BY <1>1, <1>2, <1>4, <1>5, KeepVectors, SMT DEF VectorsKept, BootInv, BootTypes, HasTimer, HasTr, HasIpi
<1>11. GateInv'
    BY <1>1, <1>2, <1>4, <1>5, KeepGates DEF GatesKept, HasTimerGate, HasTimer, HasTr, HasIpiGate, HasIpi, HasIst
<1> QED
    BY <1>6, <1>7, <1>8, <1>9, <1>10, <1>11 DEF BootInv

(* A core that counts itself ready has all its entries.                    *)
LEMMA CoreReadyB ==
    ASSUME BootInv, NEW c \in Cores, core_ready(c)
    PROVE  BootInv'
<1> DEFINE r == [core[c] EXCEPT !.pc = IF c = Bsp THEN "kmain" ELSE "schedule"]
<1>1. /\ core[c].pc = "ready" /\ core' = [core EXCEPT ![c] = r] /\ UNCHANGED irqVars
      /\ UNCHANGED <<gdt, idt, hpet, lock>>
    BY DEF core_ready, Goto
<1>2. Started /\ Cores' = Cores /\ UNCHANGED madt
    BY <1>1, Running DEF irqVars
<1>3. core[c] \in CoreRecord /\ r \in CoreRecord
    <2>1. core[c] \in CoreRecord
        BY DEF BootInv, BootTypes, CoreRecord
    <2>2. "kmain" \in Stage /\ "schedule" \in Stage
        BY DEF Stage, HasTr
    <2> QED
        BY <2>1, <2>2 DEF CoreRecord
<1>4. /\ core' \in [Cores' -> CoreRecord']
      /\ core'[c] = r
      /\ \A d \in Cores \ {c} : core'[d] = core[d]
    BY <1>1, <1>2, <1>3, OneCore
<1>5. /\ r.pc \in IsReady /\ r.tr = core[c].tr /\ r.timer = core[c].timer /\ r.ipi = core[c].ipi
      /\ r.freq = core[c].freq /\ r.count = core[c].count
    BY <1>3 DEF CoreRecord, IsReady
<1> HIDE DEF r
<1>6. BootTypes'
    BY <1>1, <1>2, <1>4 DEF BootInv, BootTypes, CoreRecord, Started
<1>7. RouteInv'
    BY <1>1, <1>2, KeepRoute, SMT DEF DevicesKept, BootInv, BootTypes
<1>8. TssInv'
    BY <1>1, <1>2, <1>4, <1>5, KeepTss DEF TssKept, HasTr, IsReady
<1>9. CalibrateInv'
    BY <1>1, <1>2, <1>4, <1>5, KeepCalibrate DEF CalibrateKept, IsReady
<1>10. VectorInv'
    BY <1>1, <1>2, <1>4, <1>5, KeepVectors, SMT DEF VectorsKept, BootInv, BootTypes, HasTimer, HasTr, HasIpi, IsReady
<1>11. GateInv'
    BY <1>1, <1>2, <1>4, <1>5, KeepGates DEF GatesKept, HasTimerGate, HasTimer, HasTr, HasIpiGate, HasIpi, HasIst, IsReady
<1> QED
    BY <1>6, <1>7, <1>8, <1>9, <1>10, <1>11 DEF BootInv
-----------------------------------------------------------------------------
(* Time passes: only the core that holds calibrate_lock counts, and the    *)
(* HPET with it.                                                           *)
LEMMA TickB ==
    ASSUME BootInv, tick
    PROVE  BootInv'
<1>1. /\ UNCHANGED irqVars /\ UNCHANGED <<gdt, idt, lock>>
      /\ core' = [d \in Cores |-> IF core[d].count > 0 THEN [core[d] EXCEPT !.count = @ - 1] ELSE core[d]]
      /\ hpet' = IF hpet.on THEN [hpet EXCEPT !.value = @ + 1] ELSE hpet
    BY DEF tick
<1>2. PICK c \in Cores : core[c].count > 0
    BY DEF tick
<1>3. /\ core[c].pc = "measure" /\ lock.calibrate = c /\ hpet.on
      /\ hpet.value + core[c].count = Samples
    BY <1>2, SMT DEF BootInv, CalibrateInv
<1>4. \A d \in Cores \ {c} : core[d].pc # "measure" /\ core[d].count = 0
    BY <1>3 DEF BootInv, CalibrateInv
<1>5. Started /\ Cores' = Cores /\ UNCHANGED madt
    BY <1>1, <1>3, Running DEF irqVars
<1> DEFINE r == [core[c] EXCEPT !.count = @ - 1]
<1>6. core[c] \in CoreRecord /\ r \in CoreRecord
    <2>1. core[c] \in CoreRecord
        BY DEF BootInv, BootTypes, CoreRecord
    <2>2. core[c].count - 1 \in Nat
        BY <1>2, <2>1, SMT DEF CoreRecord
    <2> QED
        BY <2>1, <2>2 DEF CoreRecord
<1>7. core' = [core EXCEPT ![c] = r]
    <2>1. core \in [Cores -> CoreRecord]
        BY DEF BootInv, BootTypes, CoreRecord
    <2>2. \A d \in Cores : core'[d] = IF d = c THEN r ELSE core[d]
        BY <1>1, <1>2, <1>4, SMT
    <2>3. core' = [d \in Cores |-> IF d = c THEN r ELSE core[d]]
        BY <1>1, <2>2
    <2> HIDE DEF r
    <2> QED
        BY <2>1, <2>3
<1>8. /\ core' \in [Cores' -> CoreRecord']
      /\ core'[c] = r
      /\ \A d \in Cores \ {c} : core'[d] = core[d]
    BY <1>5, <1>6, <1>7, OneCore
<1>9. /\ r.pc = core[c].pc /\ r.tr = core[c].tr /\ r.timer = core[c].timer /\ r.ipi = core[c].ipi
      /\ r.freq = core[c].freq /\ r.count = core[c].count - 1
    BY <1>6 DEF CoreRecord
<1> HIDE DEF r
<1>10. hpet' = [hpet EXCEPT !.value = @ + 1] /\ hpet'.on /\ hpet'.value = hpet.value + 1
    BY <1>1, <1>3 DEF BootInv, BootTypes
<1>11. BootTypes'
    BY <1>1, <1>5, <1>8, <1>10, SMT DEF BootInv, BootTypes, CoreRecord, Started
<1>12. RouteInv'
    BY <1>1, <1>5, KeepRoute, SMT DEF DevicesKept, BootInv, BootTypes
<1>13. TssInv'
    BY <1>1, <1>5, <1>8, <1>9, KeepTss DEF TssKept
<1>14. CalibrateInv'
    <2>1. hpet.value \in Nat /\ core[c].count \in Nat
        BY DEF BootInv, BootTypes
    <2>2. hpet'.value + core'[c].count = Samples
        BY <1>3, <1>8, <1>9, <1>10, <2>1, SMT
    <2> QED
        BY <1>1, <1>3, <1>4, <1>5, <1>8, <1>9, <1>10, <2>2, SMT DEF BootInv, CalibrateInv
<1>15. VectorInv'
    BY <1>1, <1>5, <1>8, <1>9, KeepVectors, SMT DEF VectorsKept, BootInv, BootTypes
<1>16. GateInv'
    BY <1>1, <1>5, <1>8, <1>9, KeepGates DEF GatesKept
<1> QED
    BY <1>11, <1>12, <1>13, <1>14, <1>15, <1>16 DEF BootInv

(* Cores that are set going, and the last step of the bsp core.            *)
Advance(d) ==
    /\ core'[d] = [core[d] EXCEPT !.pc = core'[d].pc]
    /\ \/ core'[d].pc = core[d].pc
       \/ core[d].pc \in {"off", "wait"} /\ core'[d].pc = "tss"
       \/ core[d].pc = "kmain" /\ core'[d].pc = "schedule"

(* Setting a core going, or sending it to its scheduler, changes no entry. *)
LEMMA AdvanceB ==
    ASSUME BootInv, Routed, UNCHANGED <<irqVars, gdt, idt, hpet, lock>>,
           core' \in [Cores -> CoreRecord], \A d \in Cores : Advance(d)
    PROVE  BootInv'
<1>1. Started /\ Cores' = Cores /\ UNCHANGED madt /\ CoreRecord' = CoreRecord
    BY SameCores DEF irqVars, Started, Routed, CoreRecord
<1>2. \A d \in Cores : /\ core'[d].tr = core[d].tr /\ core'[d].timer = core[d].timer
                       /\ core'[d].ipi = core[d].ipi /\ core'[d].freq = core[d].freq
                       /\ core'[d].count = core[d].count
    BY SMT DEF Advance, BootInv, BootTypes
<1>3. \A d \in Cores : \/ core'[d].pc = core[d].pc
                       \/ core[d].pc \in {"off", "wait"} /\ core'[d].pc = "tss"
                       \/ core[d].pc = "kmain" /\ core'[d].pc = "schedule"
    BY DEF Advance
<1>4. BootTypes'
    BY <1>1 DEF BootInv, BootTypes, CoreRecord, Started
<1>5. RouteInv'
    BY <1>1, KeepRoute, SMT DEF DevicesKept, BootInv, BootTypes
<1>6. TssInv'
    BY <1>1, <1>2, <1>3, KeepTss DEF TssKept, HasTr
<1>7. CalibrateInv'
    BY <1>1, <1>2, <1>3, KeepCalibrate DEF CalibrateKept
<1>8. VectorInv'
    BY <1>1, <1>2, <1>3, KeepVectors, SMT DEF VectorsKept, BootInv, BootTypes, HasTimer, HasTr, HasIpi
<1>9. GateInv'
    BY <1>1, <1>2, <1>3, KeepGates DEF GatesKept, HasTimerGate, HasTimer, HasTr, HasIpiGate, HasIpi, HasIst
<1> QED
    BY <1>4, <1>5, <1>6, <1>7, <1>8, <1>9 DEF BootInv

(* The loop of init_cpu that sets the cores going.                         *)
LEMMA StartCoresB ==
    ASSUME BootInv, start_cores
    PROVE  BootInv'
<1>1. core \in [Cores -> CoreRecord]
    BY DEF BootInv, BootTypes, CoreRecord
<1>2. "tss" \in Stage
    BY DEF Stage
<1>3. core' = [d \in Cores |-> IF d \in Counted /\ core[d].pc = "off"
                              THEN [core[d] EXCEPT !.pc = "tss"] ELSE core[d]]
    BY DEF start_cores
<1>4. ASSUME NEW d \in Cores PROVE core'[d] \in CoreRecord /\ Advance(d)
    <2>1. core[d] \in CoreRecord
        BY <1>1
    <2>2. core'[d] = IF d \in Counted /\ core[d].pc = "off"
                     THEN [core[d] EXCEPT !.pc = "tss"] ELSE core[d]
        BY <1>3
    <2> QED
        BY <1>2, <2>1, <2>2 DEF CoreRecord, Advance
<1>5. core' \in [Cores -> CoreRecord]
    BY <1>3, <1>4
<1> QED
    BY <1>4, <1>5, AdvanceB DEF start_cores

(* The bsp core goes on, from its loop or with the thread of kmain.        *)
LEMMA BspB ==
    ASSUME BootInv, Routed, UNCHANGED <<irqVars, gdt, idt, hpet, lock>>,
           Goto(Bsp, "wait", "tss") \/ Goto(Bsp, "kmain", "schedule")
    PROVE  BootInv'
<1>1. core \in [Cores -> CoreRecord]
    BY DEF BootInv, BootTypes, CoreRecord
<1>2. "tss" \in Stage /\ "schedule" \in Stage
    BY DEF Stage, HasTr
<1>3. PICK to \in {"tss", "schedule"} :
          /\ core' = [core EXCEPT ![Bsp].pc = to]
          /\ core[Bsp].pc = IF to = "tss" THEN "wait" ELSE "kmain"
    BY DEF Goto
<1>4. ASSUME NEW d \in Cores PROVE core'[d] \in CoreRecord /\ Advance(d)
    <2>1. core[d] \in CoreRecord
        BY <1>1
    <2>2. core'[d] = IF d = Bsp THEN [core[d] EXCEPT !.pc = to] ELSE core[d]
        BY <1>1, <1>3
    <2> QED
        BY <1>2, <1>3, <2>1, <2>2, SMT DEF CoreRecord, Advance
<1>5. core' \in [Cores -> CoreRecord]
    BY <1>1, <1>3, <1>4
<1> QED
    BY <1>4, <1>5, AdvanceB
-----------------------------------------------------------------------------
(* While the interrupts of the devices are routed the cores are off.       *)
LEMMA IrqStepB ==
    ASSUME BootInv, ~ Routed, UNCHANGED <<madt, core, gdt, hpet, lock>>,
           i' \in Nat, idt'.cur \in Nat,
           idt' \in [entry : [Vectors -> [gate : Gate, ist : {0, 1}]], cur : Nat], RouteInv'
    PROVE  BootInv'
<1>1. Cores' = Cores /\ \A c \in Cores : core[c].pc \in {"off", "wait"}
    BY SameCores DEF BootInv, RouteInv
<1>2. BootTypes'
    BY <1>1 DEF BootInv, BootTypes
<1>3. TssInv' /\ CalibrateInv'
    BY <1>1, ZenonT(40) DEF BootInv, TssInv, CalibrateInv
<1>4. VectorInv' /\ GateInv'
    BY <1>1, SMT DEF BootInv, VectorInv, GateInv, HasTr, HasTimer, HasTimerGate, HasIpi, HasIpiGate, HasIst
<1> QED
    BY <1>2, <1>3, <1>4 DEF BootInv

(* init_acpi and the write of the first half of an entry.                  *)
LEMMA QuietIrqB ==
    ASSUME BootInv, (init_acpi \/ redtab_high) /\ UNCHANGED bootVars
    PROVE  BootInv'
<1>1. /\ UNCHANGED <<madt, i>> /\ UNCHANGED <<core, gdt, idt, hpet, lock>>
      /\ pc \in {"acpi", "high"} /\ (pc' \in {"high", "low"} => pc = "high")
    BY DEF init_acpi, redtab_high, bootVars
<1>2. ~ Routed
    BY <1>1 DEF Routed
<1>3. Cores' = Cores /\ \A c \in Cores : core[c].pc \in {"off", "wait"}
    BY <1>1, <1>2, SameCores DEF BootInv, RouteInv
<1>4. RouteInv'
    BY <1>1, <1>3 DEF BootInv, RouteInv
<1>5. i' \in Nat /\ idt'.cur \in Nat
      /\ idt' \in [entry : [Vectors -> [gate : Gate, ist : {0, 1}]], cur : Nat]
    BY <1>1 DEF BootInv, BootTypes
<1> QED
    BY <1>1, <1>2, <1>4, <1>5, IrqStepB

(* A device's vector is handed out.                                        *)
LEMMA DeviceVectorB ==
    ASSUME BootInv, ioapic_map_irq /\ device_vector
    PROVE  BootInv'
<1>1. /\ UNCHANGED <<madt, i>> /\ UNCHANGED <<core, gdt, hpet, lock>>
      /\ pc = "map" /\ i <= Len(Irqs) /\ idt.cur = Irqs[i].vector
      /\ idt' = [idt EXCEPT !.cur = @ + 1]
    BY DEF ioapic_map_irq, device_vector
<1>2. i \in Nat /\ ~ Routed
    BY <1>1, IrqNumbers, SMT DEF Routed, BootInv, BootTypes
<1>3. /\ idt.cur \in Nat /\ idt'.cur = idt.cur + 1 /\ idt'.entry = idt.entry
      /\ idt' \in [entry : [Vectors -> [gate : Gate, ist : {0, 1}]], cur : Nat]
    <2>1. idt \in [entry : [Vectors -> [gate : Gate, ist : {0, 1}]], cur : Nat]
        BY DEF BootInv, BootTypes
    <2>2. idt' = [idt EXCEPT !.cur = idt.cur + 1]
        BY <1>1
    <2> QED
        BY <2>1, <2>2, SMT
<1>4. idt'.cur \in Nat /\ idt'.cur >= idt.cur /\ idt.cur < idt'.cur
    BY <1>3, SMT
<1>5. Cores' = Cores /\ \A c \in Cores : core[c].pc \in {"off", "wait"}
    BY <1>1, <1>2, SameCores DEF BootInv, RouteInv
<1>6. RouteInv'
    <2>1. \A k \in DOMAIN Irqs : k < i => Irqs[k].vector < idt'.cur
        BY <1>3, <1>4, IrqNumbers, Further DEF BootInv, RouteInv
    <2> QED
        BY <1>1, <1>3, <1>4, <1>5, <2>1 DEF BootInv, RouteInv
<1> QED
    BY <1>1, <1>2, <1>3, <1>4, <1>6, IrqStepB

(* Its descriptor is written.                                              *)
LEMMA DeviceDescriptorB ==
    ASSUME BootInv, redtab_low /\ device_descriptor
    PROVE  BootInv'
<1>1. /\ UNCHANGED madt /\ UNCHANGED <<core, gdt, hpet, lock>>
      /\ pc = "low" /\ pc' = "map" /\ i' = i + 1
      /\ idt' = [idt EXCEPT !.entry = [idt.entry EXCEPT ![Irqs[i].vector] = [gate |-> "device", ist |-> 1]]]
    BY DEF redtab_low, device_descriptor
<1>2. i \in Nat /\ i' \in Nat /\ ~ Routed
    BY <1>1, SMT DEF Routed, BootInv, BootTypes
<1>3. /\ idt'.cur = idt.cur /\ idt.cur \in Nat
      /\ idt'.entry = [idt.entry EXCEPT ![Irqs[i].vector] = [gate |-> "device", ist |-> 1]]
      /\ idt' = [entry |-> idt'.entry, cur |-> idt'.cur]
      /\ idt.entry \in [Vectors -> [gate : Gate, ist : {0, 1}]]
    BY <1>1 DEF BootInv, BootTypes
<1>4. idt'.entry \in [Vectors -> [gate : Gate, ist : {0, 1}]]
    <2>1. [gate |-> "device", ist |-> 1] \in [gate : Gate, ist : {0, 1}]
        BY DEF Gate
    <2> QED
        BY <1>3, <2>1
<1>5. \A v \in Vectors : idt'.entry[v] = IF v = Irqs[i].vector THEN [gate |-> "device", ist |-> 1]
                                                              ELSE idt.entry[v]
    BY <1>3
<1>6. Cores' = Cores /\ \A c \in Cores : core[c].pc \in {"off", "wait"}
    BY <1>1, <1>2, SameCores DEF BootInv, RouteInv
<1>7. RouteInv'
    <2>1. ASSUME NEW k \in DOMAIN Irqs, k < i'
          PROVE  /\ Irqs[k].vector < idt.cur
                 /\ idt'.entry[Irqs[k].vector] = [gate |-> "device", ist |-> 1]
        <3>1. k \in Nat /\ Irqs[k].vector \in Vectors
            BY IrqNumbers
        <3>2. k < i \/ k = i
            BY <1>1, <1>2, <2>1, <3>1, SMT
        <3> QED
            BY <1>1, <1>5, <3>1, <3>2 DEF BootInv, RouteInv
    <2> QED
        BY <1>1, <1>3, <1>6, <2>1 DEF RouteInv
<1>8. idt' \in [entry : [Vectors -> [gate : Gate, ist : {0, 1}]], cur : Nat]
    BY <1>3, <1>4
<1> QED
    BY <1>1, <1>2, <1>3, <1>7, <1>8, IrqStepB

(* A stuttering step, the pause of the bsp core, or the end.               *)
LEMMA StutterB == BootInv /\ UNCHANGED vars => BootInv'
<1> SUFFICES ASSUME BootInv, UNCHANGED vars PROVE BootInv'
    OBVIOUS
<1>1. UNCHANGED <<madt, i, pc>> /\ UNCHANGED <<core, gdt, idt, hpet, lock>>
    BY DEF vars, irqVars, bootVars
<1>2. Cores' = Cores /\ Routed' = Routed
    BY <1>1, SameCores DEF Routed
<1>3. BootTypes' /\ RouteInv' /\ TssInv' /\ CalibrateInv'
    BY <1>1, <1>2 DEF BootInv, BootTypes, RouteInv, TssInv, CalibrateInv
<1>4. VectorInv' /\ GateInv'
    BY <1>1, <1>2, SMT DEF BootInv, VectorInv, GateInv, Taken
<1> QED
    BY <1>3, <1>4 DEF BootInv

(* Every step preserves the invariant.                                     *)
LEMMA StepB == BootInv /\ [Next]_vars => BootInv'
<1> SUFFICES ASSUME BootInv, [Next]_vars PROVE BootInv'
    OBVIOUS
<1>1. CASE \E c \in Cores : CoreStep(c)
    BY <1>1, LoadTssB, LtrB, TimerVectorB, TimerDescriptorB, CalibrateB, CalibratedB,
        IpiVectorB, IpiDescriptorB, SetVectorIstB, CoreReadyB DEF CoreStep
<1>2. CASE cores_online
    BY <1>2, BspB DEF cores_online
<1>3. CASE create_kmain
    <2>1. core[Bsp].pc = "kmain" /\ Bsp \in Cores
        BY <1>3, NoneIsNoCore DEF create_kmain, Goto, BootInv, BootTypes
    <2>2. Routed
        BY <2>1 DEF BootInv, RouteInv
    <2> QED
        BY <1>3, <2>2, BspB DEF create_kmain
<1>4. CASE pause \/ Done \/ UNCHANGED vars
    BY <1>4, StutterB DEF pause, Done
<1> QED
    BY <1>1, <1>2, <1>3, <1>4, QuietIrqB, DeviceVectorB, DeviceDescriptorB, StartCoresB, TickB DEF Next

(* The inductive invariant holds of every behaviour of the start.          *)
LEMMA BootInductive == Spec => []BootInv
<1> QED
    BY InitBoot, StepB, PTL DEF Spec

-----------------------------------------------------------------------------
(* lapic_calibrate: on every machine, a core that has measured its timer   *)
(* has measured the whole time it takes, whatever the other cores did with *)
(* the HPET they share.                                                    *)
THEOREM CalibratedAlone == Spec => []MeasuredAlone
<1>1. BootInv => MeasuredAlone
    BY DEF BootInv, CalibrateInv, MeasuredAlone
<1> QED
    BY <1>1, BootInductive, PTL

(* load_tss_entry: no core faults at ltr or loads another's TSS.           *)
THEOREM TssOwn == Spec => []NoTssFault
<1>1. BootInv => NoTssFault
    BY DEF BootInv, BootTypes, TssInv, NoTssFault, Stage, HasTr
<1> QED
    BY <1>1, BootInductive, PTL

(* A core that schedules has its own TSS, two vectors nobody else has, and *)
(* its handlers behind them, for every number of cores and devices.        *)
(* (load_tss_entry, allocate_vector, add_descriptor, set_vector_ist)       *)
THEOREM EntriesOwn == Spec => []ReadyCoreOwnsItsEntries
<1>1. BootInv => ReadyCoreOwnsItsEntries
    <2> SUFFICES ASSUME BootInv, NEW c \in Cores, core[c].pc \in {"kmain", "schedule"}
                 PROVE  /\ core[c].tr = c
                        /\ idt.entry[core[c].timer] = [gate |-> "ISR_Timer", ist |-> 1]
                        /\ idt.entry[core[c].ipi] = [gate |-> "ISR_IPI", ist |-> 1]
                        /\ \A d \in Cores \ {c} : {core[c].timer, core[c].ipi} \cap {core[d].timer, core[d].ipi} \subseteq {0}
                        /\ \A k \in DOMAIN Irqs : idt.entry[Irqs[k].vector] = [gate |-> "device", ist |-> 1]
        BY DEF ReadyCoreOwnsItsEntries
    <2> USE DEF HasTr, HasTimer, HasTimerGate, HasIpi, HasIpiGate, HasIst
    <2>1. core[c].tr = c
        BY DEF BootInv, TssInv
    <2>2. core[c].timer \in Vectors /\ core[c].ipi \in Vectors
        BY DEF BootInv, VectorInv, Taken
    <2>3. \A v \in Vectors : idt.entry[v] = [gate |-> idt.entry[v].gate, ist |-> idt.entry[v].ist]
        BY DEF BootInv, BootTypes
    <2>4. /\ idt.entry[core[c].timer] = [gate |-> "ISR_Timer", ist |-> 1]
          /\ idt.entry[core[c].ipi] = [gate |-> "ISR_IPI", ist |-> 1]
        <3>1. /\ idt.entry[core[c].timer].gate = "ISR_Timer" /\ idt.entry[core[c].timer].ist = 1
              /\ idt.entry[core[c].ipi].gate = "ISR_IPI" /\ idt.entry[core[c].ipi].ist = 1
            BY DEF BootInv, GateInv
        <3> QED
            BY <2>2, <2>3, <3>1
    <2>5. ASSUME NEW d \in Cores \ {c}
          PROVE  {core[c].timer, core[c].ipi} \cap {core[d].timer, core[d].ipi} \subseteq {0}
        BY DEF BootInv, VectorInv
    <2>6. \A k \in DOMAIN Irqs : idt.entry[Irqs[k].vector] = [gate |-> "device", ist |-> 1]
        <3>1. Routed
            BY DEF BootInv, RouteInv
        <3>2. \A k \in DOMAIN Irqs : k < i
            BY <3>1, IrqNumbers, SMT DEF Routed, BootInv, BootTypes
        <3> QED
            BY <3>2 DEF BootInv, RouteInv
    <2> QED
        BY <2>1, <2>4, <2>5, <2>6
<1> QED
    BY <1>1, BootInductive, PTL

-----------------------------------------------------------------------------
(***************************************************************************)
(* Counting the cores that are ready.                                      *)
(***************************************************************************)
LOCAL INSTANCE FiniteSetTheorems

(* The bsp core leaves its loop when every other core has counted itself.  *)
ReadyCores == {c \in Cores : core[c].pc \in IsReady}
ReadyInv ==
    /\ cores_ready = Cardinality(ReadyCores)
    /\ \A c \in Cores : core[c].pc = "off" => c # Bsp
    /\ \A c \in Cores : core[c].pc = "kmain" => c = Bsp
    /\ core[Bsp].pc # "wait" => \A c \in Cores \ {Bsp} : core[c].pc = "schedule"
    /\ kmain => core[Bsp].pc = "schedule"

(* Limine's count is that of the cores.                                    *)
LEMMA CoresCounted == madt \in Madts => IsFiniteSet(Cores) /\ Cardinality(Cores) = cpu_count /\ cpu_count \in Nat
<1> SUFFICES ASSUME madt \in Madts
             PROVE  IsFiniteSet(Cores) /\ Cardinality(Cores) = cpu_count /\ cpu_count \in Nat
    OBVIOUS
<1>1. cpu_count \in 0 .. Len(cpus) /\ Len(cpus) \in Nat /\ DOMAIN cpus = 1 .. Len(cpus)
    BY BootAssumption, SMT DEF cpu_count
<1>2. cpu_count \in Nat /\ 1 .. cpu_count \subseteq DOMAIN cpus
    BY <1>1, SMT
<1> DEFINE f == [n \in 1 .. cpu_count |-> cpus[n]]
<1>3. f \in Bijection(1 .. cpu_count, Cores)
    <2>1. \A n, k \in 1 .. cpu_count : f[n] = f[k] => n = k
        BY <1>2, BootAssumption
    <2> QED
        BY <2>1 DEF Bijection, Injection, Surjection, IsInjective, Cores
<1>4. IsFiniteSet(1 .. cpu_count) /\ Cardinality(1 .. cpu_count) = cpu_count
    BY <1>2, FS_Interval, SMTT(30)
<1> HIDE DEF f
<1> QED
    BY <1>2, <1>3, <1>4, FS_Bijection DEF ExistsBijection

(* The initial states: the bsp core waits, and no core is ready.           *)
LEMMA InitReady == Init => ReadyInv
<1> SUFFICES ASSUME Init PROVE ReadyInv
    OBVIOUS
<1>1. Bsp \in Cores
    BY NoneIsNoCore DEF Init, IrqInit
<1>2. \A c \in Cores : core[c].pc = IF c = Bsp THEN "wait" ELSE "off"
    BY DEF Init
<1>3. ReadyCores = {}
    BY <1>2 DEF ReadyCores, IsReady
<1>4. cores_ready = Cardinality(ReadyCores) /\ ~ kmain
    BY <1>3, FS_EmptySet DEF Init
<1>5. \A c \in Cores : core[c].pc # "kmain" /\ (core[c].pc = "off" => c # Bsp)
    BY <1>2
<1> QED
    BY <1>1, <1>2, <1>4, <1>5 DEF ReadyInv

(* Steps that make no core ready, and move no core behind the loop of the  *)
(* bsp core but the bsp core itself.                                       *)
LEMMA KeepReady ==
    ASSUME ReadyInv, Bsp \in Cores, Cores' = Cores, UNCHANGED cores_ready,
           \A d \in Cores : core'[d].pc \in IsReady <=> core[d].pc \in IsReady,
           \A d \in Cores : core'[d].pc = "off" => core[d].pc = "off",
           \A d \in Cores : core'[d].pc = "kmain" => core[d].pc = "kmain",
           \A d \in Cores : core[d].pc = "schedule" => core'[d].pc = "schedule",
           core'[Bsp].pc # "wait" => core[Bsp].pc # "wait",
           kmain' => kmain \/ core'[Bsp].pc = "schedule"
    PROVE  ReadyInv'
<1>1. ReadyCores' = ReadyCores
    BY DEF ReadyCores
<1> QED
    BY <1>1 DEF ReadyInv

(* core_init up to the count.                                              *)
Inside == {"tss", "ltr", "timer", "timer_gate", "calibrate", "measure", "ipi", "ipi_gate", "ist", "ready", "fault"}

(* A step of core_init keeps the count of the cores that are ready.        *)
LEMMA CoreStepReady ==
    ASSUME BootInv, ReadyInv, NEW c \in Cores, CoreStep(c)
    PROVE  ReadyInv'
<1>1. core \in [Cores -> CoreRecord] /\ Bsp \in Cores
    BY NoneIsNoCore DEF BootInv, BootTypes, CoreRecord
<1>2. UNCHANGED madt /\ Cores' = Cores
    BY SameCores DEF CoreStep, load_tss_entry, ltr, timer_vector, timer_descriptor, lapic_calibrate,
        calibrated, ipi_vector, ipi_descriptor, set_vector_ist, core_ready, irqVars
<1>3. ASSUME ~ core_ready(c) PROVE ReadyInv'
    <2>1. UNCHANGED <<cores_ready, kmain>>
        BY <1>3 DEF CoreStep, load_tss_entry, ltr, timer_vector, timer_descriptor, lapic_calibrate,
            calibrated, ipi_vector, ipi_descriptor, set_vector_ist
    <2>2. core[c].pc \in Inside
        BY <1>3 DEF CoreStep, load_tss_entry, ltr, timer_vector, timer_descriptor, lapic_calibrate,
            calibrated, ipi_vector, ipi_descriptor, set_vector_ist, Goto, Inside
    <2>3. core'[c].pc \in Inside
        BY <1>1, <1>3, SMTT(30) DEF CoreStep, load_tss_entry, ltr, timer_vector, timer_descriptor, lapic_calibrate,
            calibrated, ipi_vector, ipi_descriptor, set_vector_ist, Goto, Inside, CoreRecord
    <2>4. \A d \in Cores \ {c} : core'[d] = core[d]
        BY <1>1, <1>3 DEF CoreStep, load_tss_entry, ltr, timer_vector, timer_descriptor, lapic_calibrate,
            calibrated, ipi_vector, ipi_descriptor, set_vector_ist, Goto
    <2> QED
        BY <1>1, <1>2, <2>1, <2>2, <2>3, <2>4, KeepReady DEF Inside, IsReady
<1>4. CASE core_ready(c)
    <2>1. /\ core[c].pc = "ready" /\ cores_ready' = cores_ready + 1 /\ UNCHANGED kmain
          /\ core'[c].pc = IF c = Bsp THEN "kmain" ELSE "schedule"
        BY <1>1, <1>4 DEF core_ready, Goto, CoreRecord
    <2>2. \A d \in Cores \ {c} : core'[d] = core[d]
        BY <1>1, <1>4 DEF core_ready, Goto
    <2>3. ReadyCores' = ReadyCores \cup {c} /\ c \notin ReadyCores
        BY <1>2, <2>1, <2>2 DEF ReadyCores, IsReady
    <2>4. IsFiniteSet(ReadyCores)
        BY CoresCounted, FS_Subset DEF ReadyCores, BootInv, BootTypes
    <2>5. cores_ready' = Cardinality(ReadyCores')
        <3>1. Cardinality(ReadyCores \cup {c}) = Cardinality(ReadyCores) + 1
            BY <2>3, <2>4, FS_AddElement
        <3> QED
            BY <2>1, <2>3, <3>1 DEF ReadyInv
    <2>6. \A d \in Cores : /\ core'[d].pc = "off" => d # Bsp
                           /\ core'[d].pc = "kmain" => d = Bsp
        BY <1>1, <2>1, <2>2 DEF ReadyInv
    <2>7. core'[Bsp].pc # "wait" => \A d \in Cores \ {Bsp} : core'[d].pc = "schedule"
        BY <1>1, <2>1, <2>2 DEF ReadyInv
    <2>8. kmain => core'[Bsp].pc = "schedule"
        BY <1>1, <2>1, <2>2 DEF ReadyInv
    <2> QED
        BY <1>2, <2>1, <2>5, <2>6, <2>7, <2>8 DEF ReadyInv
<1> QED
    BY <1>3, <1>4

(* The bsp core leaves its loop: as many cores are ready as there are      *)
(* others.                                                                 *)
LEMMA OnlineReady ==
    ASSUME BootInv, ReadyInv, cores_online
    PROVE  ReadyInv'
<1>1. core \in [Cores -> CoreRecord] /\ Bsp \in Cores
    BY NoneIsNoCore DEF BootInv, BootTypes, CoreRecord
<1>2. UNCHANGED madt /\ Cores' = Cores /\ UNCHANGED <<cores_ready, kmain>>
    BY SameCores DEF cores_online, irqVars
<1>3. core[Bsp].pc = "wait" /\ core'[Bsp].pc = "tss" /\ \A d \in Cores \ {Bsp} : core'[d] = core[d]
    BY <1>1 DEF cores_online, Goto, CoreRecord
<1>4. IsFiniteSet(Cores) /\ Cardinality(Cores) = cpu_count /\ cpu_count \in Nat
    BY CoresCounted DEF BootInv, BootTypes
<1>5. IsFiniteSet(Cores \ {Bsp}) /\ Cardinality(Cores \ {Bsp}) = cpu_count - 1
    BY <1>1, <1>4, FS_RemoveElement
<1>6. ReadyCores \subseteq Cores \ {Bsp} /\ Cardinality(ReadyCores) = cpu_count - 1
    <2>1. Bsp \notin ReadyCores /\ ReadyCores \subseteq Cores
        BY <1>3 DEF ReadyCores, IsReady
    <2> QED
        BY <2>1, <1>1 DEF ReadyInv, cores_online, CoresReady
<1>7. ReadyCores = Cores \ {Bsp}
    BY <1>5, <1>6, FS_Subset
<1>8. \A d \in Cores \ {Bsp} : core[d].pc = "schedule"
    BY <1>7 DEF ReadyCores, IsReady, ReadyInv
<1>9. ReadyCores' = ReadyCores
    BY <1>2, <1>3 DEF ReadyCores, IsReady
<1> QED
    BY <1>1, <1>2, <1>3, <1>8, <1>9 DEF ReadyInv

(* Every step preserves ReadyInv.                                          *)
LEMMA StepReady == BootInv /\ ReadyInv /\ [Next]_vars => ReadyInv'
<1> SUFFICES ASSUME BootInv, ReadyInv, [Next]_vars PROVE ReadyInv'
    OBVIOUS
<1>1. core \in [Cores -> CoreRecord] /\ Bsp \in Cores
    BY NoneIsNoCore DEF BootInv, BootTypes, CoreRecord
<1>2. CASE \E c \in Cores : CoreStep(c)
    BY <1>2, CoreStepReady
<1>3. CASE cores_online
    BY <1>3, OnlineReady
<1>4. CASE create_kmain
    <2>1. UNCHANGED madt /\ Cores' = Cores /\ UNCHANGED cores_ready
        BY <1>4, SameCores DEF create_kmain, irqVars
    <2>2. core[Bsp].pc = "kmain" /\ core'[Bsp].pc = "schedule" /\ \A d \in Cores \ {Bsp} : core'[d] = core[d]
        BY <1>1, <1>4 DEF create_kmain, Goto, CoreRecord
    <2> QED
        BY <1>1, <2>1, <2>2, KeepReady DEF IsReady
<1>5. CASE start_cores
    <2>1. UNCHANGED madt /\ Cores' = Cores /\ UNCHANGED <<cores_ready, kmain>>
        BY <1>5, SameCores DEF start_cores, irqVars
    <2>2. \A d \in Cores : \/ core'[d].pc = core[d].pc
                           \/ core[d].pc = "off" /\ core'[d].pc = "tss"
        BY <1>1, <1>5 DEF start_cores, CoreRecord
    <2>3. core[Bsp].pc # "off"
        BY <1>1 DEF ReadyInv
    <2> QED
        BY <1>1, <2>1, <2>2, <2>3, KeepReady DEF IsReady
<1>6. CASE tick
    <2>1. UNCHANGED madt /\ Cores' = Cores /\ UNCHANGED <<cores_ready, kmain>>
        BY <1>6, SameCores DEF tick, irqVars
    <2>2. \A d \in Cores : core'[d].pc = core[d].pc
        BY <1>1, <1>6 DEF tick, CoreRecord
    <2> QED
        BY <1>1, <2>1, <2>2, KeepReady
<1>7. CASE UNCHANGED <<madt, core, cores_ready, kmain>>
    BY <1>1, <1>7, SameCores, KeepReady
<1> QED
    BY <1>2, <1>3, <1>4, <1>5, <1>6, <1>7 DEF Next, init_acpi, ioapic_map_irq, device_vector, redtab_high,
        redtab_low, device_descriptor, pause, Done, vars, irqVars, bootVars

(* init_cpu: the thread of kmain is made when every core of the platform   *)
(* has initialised itself and goes to its scheduler.                       *)
THEOREM KmainIsLast == Spec => []KmainLast
<1>1. BootInv /\ ReadyInv => KmainLast
    BY DEF BootInv, ReadyInv, KmainLast
<1>2. Spec => []ReadyInv
    BY InitReady, StepReady, BootInductive, PTL DEF Spec
<1> QED
    BY <1>1, <1>2, BootInductive, PTL
=============================================================================
