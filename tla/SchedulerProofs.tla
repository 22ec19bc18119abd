-------------------------- MODULE SchedulerProofs --------------------------
(***************************************************************************)
(* Proofs about module Scheduler, for any number of cores, threads and     *)
(* join slots: every thread is in one place, none is lost, and a thread    *)
(* that yielded is resumed inside its yield.  First the inductive          *)
(* invariant IInv, then that the initial state satisfies it, that the      *)
(* interrupt handlers and the calls threads make preserve it, and the      *)
(* conclusions.                                                            *)
(*                                                                         *)
(* It is preserved when threads do not join, or when there is one core     *)
(* (SafeCalls); with two cores and joins it is not.                        *)
(***************************************************************************)
EXTENDS Scheduler, TLAPS

(* First-order steps are left to Zenon; a step that needs arithmetic or    *)
(* function updates cites SMT.                                             *)
USE Zenon

(* The workloads the theorems are about.                                   *)
SafeCalls == "join" \in Calls => \A c, d \in Core : c = d

(* A core that has a thread in hand: its current one, outside of           *)
(* schedule_next_thread and thread_entry.                                  *)
Executing(c) == at[c] \notin {"next", "entry", "idle"}

(***************************************************************************)
(* The inductive invariant.                                                *)
(***************************************************************************)

(* What the place a core has reached says about its local data.            *)
CoreInv ==
    \A c \in Core :
        /\ Executing(c) => current[c] \in Thread
        /\ at[c] = "idle" => current[c] = Idle
        /\ at[c] = "entry" => next[c] \in Thread \cup {Idle}
        /\ c \in ipi => at[c] \in {"spin", "halt"}
        /\ at[c] = "save" => frame[c] # "idle"
        /\ at[c] \in {"yield", "save"} \/ c \in ipi =>
                yield_cause[current[c]] # NoCause
        /\ at[c] = "save" =>
                state[current[c]] \notin {"CREATED", "RUNNABLE", "RUNNING"}
        /\ at[c] = "join" => "join" \in Calls

(* A thread whose control block has not been created is nowhere, and no    *)
(* saved context is the idle loop.                                         *)
ThreadInv ==
    \A t \in Thread :
        /\ context[t] # "idle"
        /\ state[t] = "UNUSED" =>
              /\ t \notin ReadyThreads
              /\ \A c \in Core : Held[c] # t

(* A thread in joined_threads is there once, is not queued, and if a core  *)
(* has it in hand then it is on its way out, from join to its IPI.         *)
JoinInv ==
    \A i \in Slot : joined[i] # NULL =>
        /\ "join" \in Calls
        /\ \A j \in Slot : joined[j] = joined[i] => i = j
        /\ joined[i] \notin ReadyThreads
        /\ state[joined[i]] # "UNUSED"
        /\ \A c \in Core : Held[c] = joined[i] =>
              at[c] \in {"yield", "save"} \/ c \in ipi

(* A taken yield_lock belongs to a thread between its yield and its        *)
(* re-entry, and once its handler is through its context is the spin.      *)
YieldInv ==
    \A t \in Thread : yield_lock[t] = 1 =>
        /\ \A c \in Core : Held[c] = t =>
              \/ at[c] = "spin" /\ c \in ipi
              \/ at[c] = "save" /\ frame[c] = "spin"
              \/ at[c] = "entry"
        /\ \/ context[t] = "spin"
           \/ \E c \in Core : Held[c] = t /\ at[c] \in {"spin", "save"}

IInv == /\ TypeOK /\ CoreInv /\ ThreadInv /\ ThreadInOnePlace
        /\ NoThreadLost /\ JoinInv /\ YieldInv

-----------------------------------------------------------------------------
(***************************************************************************)
(* The ready list.                                                         *)
(***************************************************************************)
Elems(q) == {q[i] : i \in 1 .. Len(q)}
Distinct(q) == \A i, j \in 1 .. Len(q) : q[i] = q[j] => i = j

(* schedule_add_thread of a thread that is not linked puts it at the tail  *)
(* and keeps the rest of the list.                                         *)
LEMMA AddFresh ==
    ASSUME NEW q \in Seq(Thread), NEW t \in Thread,
           Distinct(q), t \notin Elems(q)
    PROVE  /\ schedule_add_thread(q, t) \in Seq(Thread)
           /\ Distinct(schedule_add_thread(q, t))
           /\ Elems(schedule_add_thread(q, t)) = Elems(q) \cup {t}
<1>1. schedule_add_thread(q, t) = Append(q, t)
  BY DEF schedule_add_thread, Elems
<1>2. /\ Append(q, t) \in Seq(Thread)
      /\ Len(Append(q, t)) = Len(q) + 1
      /\ \A i \in 1 .. Len(q) : Append(q, t)[i] = q[i]
      /\ Append(q, t)[Len(q) + 1] = t
      /\ Len(q) \in Nat
  BY SMT
<1>3. Distinct(Append(q, t))
  BY <1>2, SMT DEF Distinct, Elems
<1>4. Elems(Append(q, t)) = Elems(q) \cup {t}
  BY <1>2, SMT DEF Elems
<1> QED
  BY <1>1, <1>2, <1>3, <1>4

(* pop_thread_from_queue takes one thread out of a list that links every   *)
(* thread once: the thread is then no longer linked.                       *)
LEMMA PopHead ==
    ASSUME NEW q \in Seq(Thread), q # <<>>, Distinct(q)
    PROVE  /\ Head(q) \in Thread
           /\ Tail(q) \in Seq(Thread)
           /\ Distinct(Tail(q))
           /\ Head(q) \in Elems(q)
           /\ Elems(Tail(q)) = Elems(q) \ {Head(q)}
<1>1. /\ Len(q) \in Nat \ {0}
      /\ Head(q) = q[1]
      /\ Tail(q) \in Seq(Thread)
      /\ Len(Tail(q)) = Len(q) - 1
      /\ \A i \in 1 .. Len(q) - 1 : Tail(q)[i] = q[i + 1]
  BY SMT
<1>2. Distinct(Tail(q))
  BY <1>1, SMT DEF Distinct
<1>3. Elems(Tail(q)) = Elems(q) \ {Head(q)}
  <2>1. ASSUME NEW x \in Elems(Tail(q))
        PROVE  x \in Elems(q) \ {Head(q)}
    <3>1. PICK i \in 1 .. Len(q) - 1 : x = q[i + 1]
      BY <1>1, <2>1 DEF Elems
    <3>2. i + 1 \in 1 .. Len(q) /\ i + 1 # 1 /\ 1 \in 1 .. Len(q)
      BY <1>1, SMT
    <3> QED
      BY <1>1, <3>1, <3>2 DEF Elems, Distinct
  <2>2. ASSUME NEW x \in Elems(q), x # Head(q)
        PROVE  x \in Elems(Tail(q))
    <3>1. PICK i \in 1 .. Len(q) : x = q[i]
      BY <2>2 DEF Elems
    <3>2. i # 1
      BY <1>1, <2>2, <3>1
    <3>3. i - 1 \in 1 .. Len(q) - 1 /\ Tail(q)[i - 1] = x
      BY <1>1, <3>1, <3>2, SMT
    <3> QED
      BY <1>1, <3>3 DEF Elems
  <2> QED
    BY <2>1, <2>2
<1>4. Head(q) \in Elems(q) /\ Head(q) \in Thread
  BY <1>1, SMT DEF Elems
<1> QED
  BY <1>1, <1>2, <1>3, <1>4

-----------------------------------------------------------------------------
(* At boot only kmain's thread is queued, and every core is in             *)
(* schedule_next_thread.                                                   *)
LEMMA InitIInv == Init => IInv
<1> SUFFICES ASSUME Init PROVE IInv
  OBVIOUS
<1> USE SchedulerAssumption DEF Init
<1>1. /\ Len(ready) = 1 /\ ready[1] = Main /\ ready \in Seq(Thread)
      /\ ReadyThreads = {Main}
  BY SMT DEF ReadyThreads
<1>2. TypeOK
  BY <1>1 DEF TypeOK, Place, InterruptsOn, HandlerPlace, ThreadState,
     YieldCause, NoCause
<1>3. CoreInv
  BY DEF CoreInv, Executing
<1>4. \A c \in Core : Held[c] = NULL
  BY DEF Held
<1>5. ThreadInv
  BY <1>1, <1>4 DEF ThreadInv
<1>6. ThreadInOnePlace
  BY <1>1, <1>4, SMT DEF ThreadInOnePlace
<1>7. NoThreadLost
  BY <1>1 DEF NoThreadLost
<1>8. JoinInv /\ YieldInv
  BY SMT DEF JoinInv, YieldInv
<1> QED
  BY <1>2, <1>3, <1>5, <1>6, <1>7, <1>8 DEF IInv
(***************************************************************************)
(* Preservation, one lemma per action.  A core changes only its own place  *)
(* and its own data; each lemma first says what the action does to the     *)
(* ready list and to what its core has in hand.                            *)
(***************************************************************************)
LocalStep(c) ==
    \A d \in Core \ {c} :
        /\ Held'[d] = Held[d]
        /\ at'[d] = at[d] /\ current'[d] = current[d]
        /\ next'[d] = next[d] /\ frame'[d] = frame[d]
        /\ d \in ipi' <=> d \in ipi

(* What a core that executes a thread has in hand is that thread, and no   *)
(* other core has it.                                                      *)
LEMMA HeldAlone ==
    ASSUME IInv
    PROVE  /\ ReadyThreads \subseteq Thread
           /\ \A c \in Core : Executing(c) => /\ Held[c] = current[c]
                                              /\ current[c] \in Thread
           /\ \A c, d \in Core : Held[c] \in Thread /\ c # d => Held[c] # Held[d]
<1>1. ReadyThreads \subseteq Thread
  BY SMT DEF IInv, TypeOK, ReadyThreads
<1>2. \A c \in Core : Executing(c) => /\ Held[c] = current[c]
                                     /\ current[c] \in Thread
  BY DEF IInv, CoreInv, Executing, Held
<1>3. \A c, d \in Core : Held[c] \in Thread /\ c # d => Held[c] # Held[d]
  BY DEF IInv, ThreadInOnePlace
<1> QED
  BY <1>1, <1>2, <1>3

(* A core has its thread's yield_lock taken only while it waits for the    *)
(* IPI of the yield or handles it.                                         *)
LEMMA YieldLockPlace ==
    ASSUME IInv, NEW c \in Core, Executing(c), at[c] # "save",
           at[c] = "spin" => c \notin ipi
    PROVE  /\ yield_lock[current[c]] = 0
           /\ \A t \in Thread : yield_lock[t] = 1 => t # current[c]
<1>1. Held[c] = current[c] /\ current[c] \in Thread
  BY HeldAlone
<1>2. yield_lock[current[c]] # 1
  BY <1>1, SMT DEF IInv, YieldInv, Executing
<1> QED
  BY <1>1, <1>2 DEF IInv, TypeOK

(* A step inside a call or a thread's own code that changes neither the    *)
(* list nor any thread's state, and leaves yield_lock and the table alone. *)
LEMMA QuietThreads ==
    ASSUME IInv, NEW c \in Core, Executing(c), Held' = Held,
           UNCHANGED <<ready, state, context>>
    PROVE  ThreadInv' /\ ThreadInOnePlace' /\ NoThreadLost'
<1>1. ReadyThreads' = ReadyThreads
  BY DEF ReadyThreads
<1> QED
  BY <1>1 DEF IInv, ThreadInv, ThreadInOnePlace, NoThreadLost

(* A step of a core in a thread or a call keeps the locks and contexts of  *)
(* the threads that yielded.                                               *)
LEMMA QuietYield ==
    ASSUME IInv, NEW c \in Core, Executing(c), LocalStep(c), Held' = Held,
           at[c] # "save", at[c] = "spin" => c \notin ipi,
           UNCHANGED <<context, yield_lock>>
    PROVE  YieldInv'
<1>1. \A t \in Thread : yield_lock[t] = 1 => t # Held[c]
  BY YieldLockPlace, HeldAlone
<1>2. ASSUME NEW t \in Thread, yield_lock[t] = 1
      PROVE  \/ context[t] = "spin"
             \/ \E d \in Core : Held[d] = t /\ at'[d] \in {"spin", "save"}
  BY <1>1, <1>2, SMT DEF IInv, YieldInv, LocalStep
<1>3. ASSUME NEW t \in Thread, yield_lock[t] = 1, NEW d \in Core, Held[d] = t
      PROVE  \/ at'[d] = "spin" /\ d \in ipi'
             \/ at'[d] = "save" /\ frame'[d] = "spin"
             \/ at'[d] = "entry"
  BY <1>1, <1>3, SMT DEF IInv, YieldInv, LocalStep
<1> QED
  BY <1>2, <1>3, SMT DEF YieldInv

(* Such a step keeps what the cores' places say.                           *)
LEMMA QuietCore ==
    ASSUME IInv, NEW c \in Core, Executing(c), LocalStep(c), c \notin ipi',
           at'[c] \notin {"idle", "entry", "yield", "save"},
           at'[c] = "join" => "join" \in Calls,
           UNCHANGED <<current, state, yield_cause>>
    PROVE  CoreInv'
<1>1. current[c] \in Thread
  BY HeldAlone
<1> QED
  BY <1>1, SMT DEF IInv, LocalStep, CoreInv, Executing

(* The same for the threads in joined_threads.                             *)
LEMMA QuietJoined ==
    ASSUME IInv, NEW c \in Core, Executing(c), LocalStep(c), Held' = Held,
           \/ at[c] \notin {"yield", "save"} /\ c \notin ipi
           \/ at'[c] \in {"yield", "save"} \/ c \in ipi',
           UNCHANGED <<ready, state, joined>>
    PROVE  JoinInv'
<1>1. ReadyThreads' = ReadyThreads
  BY DEF ReadyThreads
<1> QED
  BY <1>1, ZenonT(40) DEF IInv, JoinInv, LocalStep

(* lapic_time_handler: the thread goes to the tail of the list.            *)
LEMMA TimeHandler ==
    ASSUME IInv, SafeCalls, NEW c \in Core, lapic_time_handler(c)
    PROVE  IInv'
<1> USE SchedulerAssumption DEF IInv, Goto
<1>a. /\ ReadyThreads = Elems(ready) /\ ReadyThreads' = Elems(ready')
      /\ Distinct(ready) /\ ready \in Seq(Thread)
  BY DEF ReadyThreads, Elems, ThreadInOnePlace, Distinct, TypeOK
<1>b. /\ Held[c] = current[c] /\ current[c] \in Thread \cup {Idle}
      /\ current[c] \notin ReadyThreads
      /\ current[c] \in Thread => at[c] # "idle"
  BY DEF lapic_time_handler, Held, CoreInv, Executing, InterruptsOn,
     ThreadInOnePlace
<1>1. /\ ready' \in Seq(Thread) /\ Distinct(ready')
      /\ ReadyThreads' = ReadyThreads \cup ({current[c]} \ {Idle})
  <2>1. CASE current[c] = Idle
    BY <1>a, <2>1 DEF lapic_time_handler
  <2>2. CASE current[c] # Idle
    BY <1>a, <1>b, <2>2, AddFresh, SMT DEF lapic_time_handler
  <2> QED
    BY <2>1, <2>2
<1>2. /\ Held'[c] = NULL /\ at'[c] = "next" /\ c \notin ipi
      /\ LocalStep(c)
  BY DEF lapic_time_handler, LocalStep, Held, TypeOK
<1>c. \A t \in Thread : context'[t] = IF t = current[c] THEN at[c] ELSE context[t]
  BY <1>b DEF lapic_time_handler, TypeOK
<1>3. TypeOK'
  <2>1. context' \in [Thread -> InterruptsOn]
    BY <1>b DEF lapic_time_handler, TypeOK
  <2> QED
    BY <1>1, <2>1 DEF lapic_time_handler, TypeOK, Place, HandlerPlace
<1>4. CoreInv'
  BY <1>1, <1>2, SMT DEF lapic_time_handler, LocalStep, CoreInv, Executing, NoCause
<1>5. ThreadInv'
  <2>1. \A t \in Thread : context'[t] # "idle"
    BY <1>b, <1>c DEF ThreadInv
  <2> QED
    BY <1>1, <1>2, <1>b, <2>1, SMT DEF lapic_time_handler, LocalStep, ThreadInv
<1>6. ThreadInOnePlace'
  <2>1. \A d \in Core \ {c} : Held[d] # current[c] \/ current[c] = Idle
    BY <1>b DEF ThreadInOnePlace
  <2>2. NULL \notin ReadyThreads'
    BY <1>1, <1>b, HeldAlone
  <2> QED
    BY <1>1, <1>2, <2>1, <2>2, SMT DEF LocalStep, ThreadInOnePlace, Distinct
<1>7. NoThreadLost'
  <2> SUFFICES ASSUME NEW t \in Thread,
                      state[t] \in {"CREATED", "RUNNABLE", "RUNNING"}
               PROVE  t \in ReadyThreads' \/ \E d \in Core : Held'[d] = t
    BY DEF lapic_time_handler, NoThreadLost
  <2>1. t \in ReadyThreads \/ t = current[c] \/ \E d \in Core \ {c} : Held[d] = t
    BY <1>b DEF NoThreadLost
  <2> QED
    BY <1>1, <1>2, <2>1 DEF LocalStep
<1>8. JoinInv'
  <2>1. \A i \in Slot : joined[i] # NULL => joined[i] # current[c]
    BY <1>2, <1>b DEF JoinInv, lapic_time_handler, InterruptsOn
  <2>2. joined' = joined /\ ipi' = ipi /\ state' = state
    BY DEF lapic_time_handler
  <2> QED
    BY <1>1, <1>2, <2>1, <2>2, SMT DEF LocalStep, JoinInv
<1>9. YieldInv'
  <2>1. \A t \in Thread : yield_lock[t] = 1 => t # current[c]
    BY <1>2, <1>b, SMT DEF YieldInv, lapic_time_handler, InterruptsOn
  <2>2. yield_lock' = yield_lock /\ ipi' = ipi
    BY DEF lapic_time_handler
  <2> QED
    BY <1>2, <1>b, <1>c, <2>1, <2>2, SMT DEF LocalStep, YieldInv
<1> QED
  BY <1>3, <1>4, <1>5, <1>6, <1>7, <1>8, <1>9

(* lapic_ipi_handler: the thread gets the state of its yield.              *)
LEMMA IpiHandler ==
    ASSUME IInv, SafeCalls, NEW c \in Core, lapic_ipi_handler(c)
    PROVE  IInv'
<1> USE SchedulerAssumption DEF IInv, Goto
<1>1. ReadyThreads' = ReadyThreads /\ ready' = ready
  BY DEF lapic_ipi_handler, StateAfterYield, ReadyThreads
<1>2. /\ Held' = Held /\ Held[c] = current[c] /\ current[c] \in Thread
      /\ at'[c] = "save" /\ frame'[c] = at[c]
      /\ LocalStep(c)
  <2>1. at[c] \in {"spin", "halt"} /\ Executing(c)
    BY DEF lapic_ipi_handler, CoreInv, Executing
  <2>2. at'[c] = "save" /\ \A d \in Core \ {c} : at'[d] = at[d]
    BY DEF lapic_ipi_handler, TypeOK
  <2>3. frame'[c] = at[c] /\ \A d \in Core \ {c} : frame'[d] = frame[d]
    BY DEF lapic_ipi_handler, TypeOK
  <2>4. current' = current /\ next' = next /\ ipi' = ipi \ {c}
    BY DEF lapic_ipi_handler
  <2>5. Held' = Held
    BY <2>1, <2>2, <2>4 DEF Held
  <2> QED
    BY <2>1, <2>2, <2>3, <2>4, <2>5, HeldAlone DEF LocalStep
<1>3. TypeOK'
  <2>1. StateAfterYield(yield_cause[current[c]], state[current[c]]) \in ThreadState
    BY <1>2 DEF StateAfterYield, ThreadState, TypeOK
  <2>2. state' \in [Thread -> ThreadState]
    BY <1>2, <2>1 DEF lapic_ipi_handler, TypeOK
  <2>3. /\ at' \in [Core -> Place] /\ frame' \in [Core -> InterruptsOn]
        /\ ipi' \in SUBSET Core
    BY DEF lapic_ipi_handler, TypeOK, Place, HandlerPlace
  <2> QED
    BY <2>2, <2>3 DEF lapic_ipi_handler, TypeOK
<1>4. CoreInv'
  <2>1. /\ state' = [state EXCEPT ![current[c]] = state'[current[c]]]
        /\ state'[current[c]] \in {"ZOMBIE", "WAITING", "JOINED"}
    BY <1>2 DEF lapic_ipi_handler, StateAfterYield, CoreInv, TypeOK,
       YieldCause, NoCause
  <2>2. \A d \in Core : d # c /\ Executing(d) => current[d] # current[c]
    BY <1>2, HeldAlone
  <2> QED
    <3>1. /\ c \in ipi /\ at[c] \in {"spin", "halt"} /\ c \notin ipi'
          /\ current' = current /\ yield_cause' = yield_cause
      BY DEF lapic_ipi_handler, CoreInv
    <3>2. yield_cause[current[c]] # NoCause
      BY <3>1 DEF CoreInv
    <3>3. \A d \in Core \ {c} : Executing(d) => state'[current[d]] = state[current[d]]
      BY <2>1, <2>2, HeldAlone DEF TypeOK
    <3> QED
      BY <1>2, <2>1, <3>1, <3>2, <3>3, SMT DEF LocalStep, CoreInv, Executing
<1>5. ThreadInv'
  <2>1. \A t \in Thread : state'[t] = "UNUSED" => state[t] = "UNUSED"
    BY <1>2 DEF lapic_ipi_handler, StateAfterYield, TypeOK
  <2> QED
    BY <1>1, <1>2, <2>1 DEF lapic_ipi_handler, ThreadInv
<1>6. ThreadInOnePlace'
  BY <1>1, <1>2 DEF lapic_ipi_handler, StateAfterYield, ThreadInOnePlace
<1>7. NoThreadLost'
  BY <1>1, <1>2 DEF lapic_ipi_handler, NoThreadLost, TypeOK
<1>8. JoinInv'
  <2>1. \A t \in Thread : state'[t] = "UNUSED" => state[t] = "UNUSED"
    BY <1>2 DEF lapic_ipi_handler, StateAfterYield, TypeOK
  <2> QED
    BY <1>1, <1>2, <2>1, SMT DEF lapic_ipi_handler, LocalStep, JoinInv, TypeOK
<1>9. YieldInv'
  BY <1>1, <1>2, SMT DEF lapic_ipi_handler, LocalStep, YieldInv, CoreInv
<1> QED
  BY <1>3, <1>4, <1>5, <1>6, <1>7, <1>8, <1>9

(* The rest of lapic_ipi_handler: the yield becomes resumable.             *)
LEMMA SaveContext ==
    ASSUME IInv, SafeCalls, NEW c \in Core, save_context(c)
    PROVE  IInv'
<1> USE SchedulerAssumption DEF IInv, Goto
<1>1. ReadyThreads' = ReadyThreads /\ ready' = ready
  BY DEF save_context, ReadyThreads
<1>2. /\ Held[c] = current[c] /\ Held'[c] = NULL /\ current[c] \in Thread
      /\ at'[c] = "next" /\ LocalStep(c)
  BY DEF save_context, LocalStep, Held, CoreInv, Executing, TypeOK
<1>3. TypeOK'
  <2>1. /\ at' \in [Core -> Place] /\ frame' \in [Core -> InterruptsOn]
        /\ context' \in [Thread -> InterruptsOn]
    BY <1>2 DEF save_context, TypeOK, Place, InterruptsOn, HandlerPlace
  <2> QED
    BY <2>1 DEF save_context, TypeOK
<1>4. CoreInv'
  <2>1. UNCHANGED <<current, state, yield_cause>> /\ c \notin ipi /\ ipi' = ipi
    BY DEF save_context, CoreInv
  <2> QED
    BY <1>2, <2>1, SMT DEF LocalStep, CoreInv, Executing
<1>5. ThreadInv'
  BY <1>1, <1>2, SMTT(30) DEF save_context, ThreadInv, LocalStep, CoreInv, TypeOK
<1>6. ThreadInOnePlace'
  BY <1>1, <1>2, HeldAlone, SMT DEF save_context, ThreadInOnePlace, LocalStep
<1>7. NoThreadLost'
  BY <1>1, <1>2, SMT DEF save_context, NoThreadLost, LocalStep, CoreInv
<1>8. JoinInv'
  BY <1>1, <1>2, SMT DEF save_context, LocalStep, JoinInv
<1>9. YieldInv'
  <2>1. \A t \in Thread : t # current[c] => context'[t] = context[t]
    BY DEF save_context, TypeOK
  <2>2. context'[current[c]] = frame[c] /\ yield_lock' = yield_lock
    BY <1>2 DEF save_context, TypeOK
  <2>3. yield_lock[current[c]] = 1 => frame[c] = "spin"
    BY <1>2, SMT DEF save_context, YieldInv
  <2> QED
    BY <1>2, <2>1, <2>2, <2>3, HeldAlone, SMT DEF LocalStep, YieldInv
<1> QED
  BY <1>3, <1>4, <1>5, <1>6, <1>7, <1>8, <1>9

(* schedule_next_thread: the head of the list goes to the core.            *)
LEMMA NextThread ==
    ASSUME IInv, SafeCalls, NEW c \in Core, schedule_next_thread(c)
    PROVE  IInv'
<1> USE SchedulerAssumption DEF IInv, Goto
<1>a. /\ ReadyThreads = Elems(ready) /\ ReadyThreads' = Elems(ready')
      /\ Distinct(ready) /\ ready \in Seq(Thread)
  BY DEF ReadyThreads, Elems, ThreadInOnePlace, Distinct, TypeOK
<1>1. /\ ready' \in Seq(Thread) /\ Distinct(ready')
      /\ next'[c] \in Thread \cup {Idle}
      /\ next'[c] \in Thread => next'[c] \in ReadyThreads
      /\ next'[c] \notin ReadyThreads'
      /\ ReadyThreads' = ReadyThreads \ {next'[c]}
  <2>1. CASE ready = <<>>
    BY <1>a, <2>1, HeldAlone, SMT DEF schedule_next_thread, pop_thread_from_queue,
       TypeOK
  <2>2. CASE ready # <<>>
    <3>1. next'[c] = Head(ready) /\ ready' = Tail(ready)
      BY <2>2 DEF schedule_next_thread, pop_thread_from_queue, TypeOK
    <3>2. /\ Head(ready) \in Thread /\ Tail(ready) \in Seq(Thread)
          /\ Distinct(Tail(ready)) /\ Head(ready) \in Elems(ready)
          /\ Elems(Tail(ready)) = Elems(ready) \ {Head(ready)}
      BY <1>a, <2>2, PopHead
    <3> QED
      BY <1>a, <3>1, <3>2
  <2> QED
    BY <2>1, <2>2
<1>2. /\ Held[c] = NULL /\ Held'[c] = next'[c]
      /\ at'[c] = "entry" /\ LocalStep(c)
  <2>1. next' = [next EXCEPT ![c] = next'[c]]
    BY DEF schedule_next_thread, threadVars, TypeOK
  <2> QED
    BY <2>1 DEF schedule_next_thread, threadVars, LocalStep, Held, TypeOK
<1>3. TypeOK'
  <2>1. next' = [next EXCEPT ![c] = next'[c]]
    BY DEF schedule_next_thread, threadVars, TypeOK
  <2> QED
    BY <1>1, <2>1 DEF schedule_next_thread, threadVars, TypeOK, Place,
       HandlerPlace
<1>4. CoreInv'
  BY <1>1, <1>2, SMT DEF schedule_next_thread, threadVars, LocalStep, CoreInv,
     Executing
<1>5. ThreadInv'
  BY <1>1, <1>2, SMT DEF schedule_next_thread, threadVars, LocalStep, ThreadInv
<1>6. ThreadInOnePlace'
  <2>1. \A d \in Core \ {c} : Held'[d] # next'[c] \/ next'[c] \notin Thread
    BY <1>1, <1>2 DEF LocalStep, ThreadInOnePlace
  <2>2. \A d \in Core : Held'[d] \notin ReadyThreads'
    BY <1>1, <1>2 DEF LocalStep, ThreadInOnePlace
  <2> QED
    BY <1>1, <1>2, <2>1, <2>2, SMT DEF LocalStep, ThreadInOnePlace, Distinct
<1>7. NoThreadLost'
  <2> SUFFICES ASSUME NEW t \in Thread,
                      state[t] \in {"CREATED", "RUNNABLE", "RUNNING"}
               PROVE  t \in ReadyThreads' \/ \E d \in Core : Held'[d] = t
    BY DEF schedule_next_thread, threadVars, NoThreadLost
  <2>1. t \in ReadyThreads \/ \E d \in Core \ {c} : Held[d] = t
    BY <1>2 DEF NoThreadLost
  <2> QED
    BY <1>1, <1>2, <2>1, SMT DEF LocalStep
<1>8. JoinInv'
  <2>1. \A i \in Slot : joined[i] # NULL =>
           joined[i] \in Thread /\ joined[i] # next'[c]
    BY <1>1 DEF JoinInv, TypeOK
  <2>2. joined' = joined /\ ipi' = ipi /\ state' = state
    BY DEF schedule_next_thread, threadVars
  <2> QED
    BY <1>1, <1>2, <2>1, <2>2, SMT DEF LocalStep, JoinInv
<1>9. YieldInv'
  BY <1>1, <1>2, SMT DEF schedule_next_thread, threadVars, LocalStep, YieldInv
<1> QED
  BY <1>3, <1>4, <1>5, <1>6, <1>7, <1>8, <1>9

-----------------------------------------------------------------------------
(* thread_entry: the thread popped resumes its saved context.              *)
LEMMA ThreadEntry ==
    ASSUME IInv, SafeCalls, NEW c \in Core, thread_entry(c)
    PROVE  IInv'
<1> USE SchedulerAssumption DEF IInv, Goto
<1>1. ReadyThreads' = ReadyThreads /\ ready' = ready
  BY DEF thread_entry, ReadyThreads
<1>a. \/ /\ next[c] = Idle /\ at'[c] = "idle"
         /\ UNCHANGED <<state, yield_lock>>
      \/ /\ next[c] \in Thread /\ at'[c] = context[next[c]]
         /\ at'[c] \in {"run", "spin", "halt"}
         /\ state' = [state EXCEPT ![next[c]] = "RUNNING"]
         /\ yield_lock' = [yield_lock EXCEPT ![next[c]] = 0]
  BY SMT DEF thread_entry, CoreInv, ThreadInv, TypeOK, InterruptsOn
<1>2. /\ Held' = Held /\ Held[c] = next[c] /\ current'[c] = next[c]
      /\ c \notin ipi /\ LocalStep(c)
  BY <1>a, SMT DEF thread_entry, LocalStep, Held, CoreInv, Executing, TypeOK
<1>b. /\ next[c] \notin ReadyThreads
      /\ \A d \in Core \ {c} : Held[d] = next[c] => next[c] = Idle
  BY <1>a, <1>2 DEF ThreadInOnePlace
<1>3. TypeOK'
  <2>1. at' \in [Core -> Place] /\ current' \in [Core -> Thread \cup {Idle, NULL}]
    BY <1>a, SMTT(30) DEF thread_entry, TypeOK, Place, InterruptsOn
  <2> QED
    BY <1>1, <1>a, <2>1, ZenonT(20) DEF thread_entry, TypeOK, ThreadState
<1>4. CoreInv'
  <2>1. \A d \in Core \ {c} : Executing(d) => current[d] # next[c] \/ next[c] = Idle
    BY <1>2, <1>b, HeldAlone
  <2>2. \A d \in Core \ {c} : Executing(d) => state'[current[d]] = state[current[d]]
    BY <1>a, <2>1, HeldAlone, ZenonT(40) DEF TypeOK
  <2>3. yield_cause' = yield_cause /\ ipi' = ipi
    BY DEF thread_entry
  <2>4. \A d \in Core \ {c} : at[d] = "save" => Executing(d)
    BY DEF Executing
  <2> QED
    BY <1>a, <1>2, <2>2, <2>3, <2>4, SMTT(20) DEF LocalStep, CoreInv, Executing
<1>5. ThreadInv'
  BY <1>1, <1>2, <1>a DEF thread_entry, ThreadInv, TypeOK
<1>6. ThreadInOnePlace'
  BY <1>1, <1>2 DEF thread_entry, ThreadInOnePlace
<1>7. NoThreadLost'
  BY <1>1, <1>2, <1>a, ZenonT(40) DEF thread_entry, NoThreadLost, TypeOK
<1>8. JoinInv'
  <2>1. \A t \in Thread : state'[t] = "UNUSED" => state[t] = "UNUSED"
    BY <1>a DEF TypeOK
  <2>2. \A i \in Slot : joined[i] # NULL => joined[i] \in Thread /\ joined[i] # next[c]
    BY <1>2, <1>a DEF JoinInv, TypeOK, thread_entry
  <2>3. joined' = joined /\ ipi' = ipi
    BY DEF thread_entry
  <2> QED
    BY <1>1, <1>2, <2>1, <2>2, <2>3, SMT DEF LocalStep, JoinInv
<1>9. YieldInv'
  <2>1. \A t \in Thread : yield_lock'[t] = 1 => t # next[c] /\ yield_lock[t] = 1
    BY <1>a, SMT DEF TypeOK
  <2>2. context' = context /\ ipi' = ipi
    BY DEF thread_entry
  <2>3. ASSUME NEW t \in Thread, yield_lock'[t] = 1,
               NEW d \in Core, Held'[d] = t
        PROVE  \/ at'[d] = "spin" /\ d \in ipi'
               \/ at'[d] = "save" /\ frame'[d] = "spin"
               \/ at'[d] = "entry"
    BY <1>2, <2>1, <2>2, <2>3, SMT DEF LocalStep, YieldInv
  <2>4. ASSUME NEW t \in Thread, yield_lock'[t] = 1, context[t] # "spin"
        PROVE  \E d \in Core : Held'[d] = t /\ at'[d] \in {"spin", "save"}
    <3>1. PICK d \in Core : Held[d] = t /\ at[d] \in {"spin", "save"}
      BY <2>1, <2>4 DEF YieldInv
    <3> QED
      BY <1>2, <2>1, <2>4, <3>1, SMT DEF LocalStep
  <2> QED
    BY <2>2, <2>3, <2>4, ZenonT(40) DEF YieldInv
<1> QED
  BY <1>3, <1>4, <1>5, <1>6, <1>7, <1>8, <1>9

(* schedule_thread_yield: yield_lock taken, IPI pending.                   *)
LEMMA Yield ==
    ASSUME IInv, SafeCalls, NEW c \in Core, schedule_thread_yield(c)
    PROVE  IInv'
<1> USE SchedulerAssumption DEF IInv, Goto
<1>1. ReadyThreads' = ReadyThreads /\ ready' = ready
  BY SMT DEF schedule_thread_yield, ReadyThreads
<1>2. /\ Held' = Held /\ Held[c] = current[c] /\ current[c] \in Thread
      /\ c \in ipi' /\ at'[c] = IF yield_cause[current[c]] = "TERMINATE"
                          THEN "halt" ELSE "spin"
      /\ LocalStep(c)
  BY SMT DEF schedule_thread_yield, LocalStep, Held, CoreInv, Executing, TypeOK,
     InterruptsOn
<1>3. TypeOK'
  <2>1. yield_lock' \in [Thread -> {0, 1}]
    BY DEF schedule_thread_yield, TypeOK
  <2>2. at' \in [Core -> Place] /\ ipi' \in SUBSET Core
    BY DEF schedule_thread_yield, TypeOK, Place, InterruptsOn
  <2> QED
    BY <2>1, <2>2 DEF schedule_thread_yield, TypeOK
<1>4. CoreInv'
  BY <1>1, <1>2, SMT DEF schedule_thread_yield, LocalStep, CoreInv, Executing,
     NoCause
<1>5. ThreadInv' /\ ThreadInOnePlace' /\ NoThreadLost'
  BY <1>1, <1>2, QuietThreads DEF schedule_thread_yield, Executing
<1>8. JoinInv'
  BY <1>1, <1>2, SMT DEF schedule_thread_yield, LocalStep, JoinInv
<1>9. YieldInv'
  <2>1. \A t \in Thread : yield_lock[t] = 1 => t # current[c]
    BY <1>2, YieldLockPlace DEF schedule_thread_yield, CoreInv, Executing
  <2>2. \A t \in Thread : yield_lock'[t] = 1 =>
           \/ t # current[c] /\ yield_lock[t] = 1
           \/ t = current[c] /\ at'[c] = "spin"
    BY <2>1, <1>2 DEF schedule_thread_yield, TypeOK
  <2>3. context' = context
    BY DEF schedule_thread_yield
  <2>4. \A d \in Core \ {c} : Held[d] # current[c]
    BY <1>2, HeldAlone
  <2> QED
    BY <1>2, <2>2, <2>3, <2>4, SMT DEF LocalStep, YieldInv
<1> QED
  BY <1>3, <1>4, <1>5, <1>8, <1>9

(* The way back out of schedule_thread_yield.                              *)
LEMMA YieldReturn ==
    ASSUME IInv, NEW c \in Core, yield_return(c)
    PROVE  IInv'
<1> USE SchedulerAssumption DEF IInv, Goto
<1>1. /\ Executing(c) /\ LocalStep(c) /\ Held' = Held /\ at[c] # "save"
      /\ current[c] \in Thread /\ c \notin ipi /\ c \notin ipi'
      /\ at[c] # "yield" /\ at'[c] \in {"woken", "run"}
  BY DEF yield_return, threadVars, LocalStep, Held, CoreInv, Executing, TypeOK
<1>2. TypeOK'
  BY <1>1 DEF yield_return, threadVars, TypeOK, Place,
     InterruptsOn, CallPlace
<1>3. CoreInv'
  BY <1>1, SMT DEF yield_return, threadVars, LocalStep, CoreInv, Executing
<1>4. YieldInv' /\ JoinInv'
  BY <1>1, QuietYield, QuietJoined DEF yield_return, threadVars
<1> QED
  BY <1>1, <1>2, <1>3, <1>4, QuietThreads DEF yield_return, threadVars

(* spawn: a new control block enters the list.                             *)
LEMMA Spawn ==
    ASSUME IInv, SafeCalls, NEW c \in Core, NEW u \in Thread, spawn(c, u)
    PROVE  IInv'
<1> USE SchedulerAssumption DEF IInv, Goto
<1>a. /\ ReadyThreads = Elems(ready) /\ ReadyThreads' = Elems(ready')
      /\ Distinct(ready) /\ ready \in Seq(Thread)
  BY DEF ReadyThreads, Elems, ThreadInOnePlace, Distinct, TypeOK
<1>b. u \notin ReadyThreads /\ (\A d \in Core : Held[d] # u) /\ u # NULL
  BY DEF spawn, MayCall, coreVars, ThreadInv
<1>1. /\ ready' \in Seq(Thread) /\ Distinct(ready')
      /\ ReadyThreads' = ReadyThreads \cup {u}
  BY <1>a, <1>b, AddFresh DEF spawn, MayCall, coreVars
<1>2. /\ Held' = Held /\ LocalStep(c) /\ UNCHANGED coreVars
      /\ \A t \in Thread : state'[t] = IF t = u THEN "CREATED" ELSE state[t]
  BY DEF spawn, MayCall, coreVars, LocalStep, Held, TypeOK, coreVars
<1>3. TypeOK'
  BY <1>1 DEF spawn, MayCall, coreVars, CoreInv, Executing, TypeOK, Place,
     InterruptsOn, HandlerPlace, CallPlace, ThreadState, YieldCause, NoCause
<1>4. CoreInv'
  <2>1. \A d \in Core : Executing(d) => current[d] # u /\ current[d] \in Thread
    BY <1>b, HeldAlone
  <2> QED
    BY <1>2, <2>1, SMT DEF spawn, coreVars, CoreInv, Executing
<1>5. ThreadInv'
  BY <1>1, <1>2, SMT DEF spawn, MayCall, coreVars, ThreadInv
<1>6. ThreadInOnePlace'
  BY <1>1, <1>2, <1>b DEF ThreadInOnePlace, Distinct
<1>7. NoThreadLost'
  BY <1>1, <1>2 DEF spawn, MayCall, coreVars, NoThreadLost
<1>8. JoinInv'
  <2>1. \A i \in Slot : joined[i] # NULL => joined[i] # u /\ joined[i] \in Thread
    BY DEF JoinInv, spawn, TypeOK
  <2> QED
    BY <1>1, <1>2, <2>1 DEF spawn, coreVars, JoinInv
<1>9. YieldInv'
  BY <1>1, <1>2, SMT DEF spawn, MayCall, coreVars, LocalStep, YieldInv
<1> QED
  BY <1>3, <1>4, <1>5, <1>6, <1>7, <1>8, <1>9

(* schedule_thread_join up to the lock.                                    *)
LEMMA JoinCall ==
    ASSUME IInv, NEW c \in Core, NEW u \in Thread,
           schedule_thread_join(c, u)
    PROVE  IInv'
<1> USE SchedulerAssumption DEF IInv, Goto
<1>1. /\ Executing(c) /\ LocalStep(c) /\ Held' = Held /\ at[c] # "save"
      /\ current[c] \in Thread /\ c \notin ipi /\ c \notin ipi'
      /\ at[c] # "yield" /\ at'[c] = "join"
  BY DEF schedule_thread_join, MayCall, LocalStep, Held, CoreInv, Executing, TypeOK
<1>2. TypeOK'
  BY <1>1 DEF schedule_thread_join, MayCall, TypeOK, Place,
     InterruptsOn, CallPlace
<1>3. CoreInv'
  BY <1>1, QuietCore DEF schedule_thread_join, MayCall
<1>4. YieldInv' /\ JoinInv'
  BY <1>1, QuietYield, QuietJoined DEF schedule_thread_join, MayCall
<1> QED
  BY <1>1, <1>2, <1>3, <1>4, QuietThreads DEF schedule_thread_join, MayCall

(* schedule_thread_join under joined_queue_lock.                           *)
LEMMA JoinLocked ==
    ASSUME IInv, SafeCalls, NEW c \in Core, join_locked(c)
    PROVE  IInv'
<1> USE SchedulerAssumption DEF IInv, Goto
<1>1. ReadyThreads' = ReadyThreads /\ ready' = ready
  BY SMT DEF join_locked, ReadyThreads
<1>2. /\ Held' = Held /\ Held[c] = current[c] /\ current[c] \in Thread
      /\ at[c] = "join" /\ at'[c] \in {"run", "yield"}
      /\ LocalStep(c)
  BY SMT DEF join_locked, LocalStep, Held, CoreInv, Executing, TypeOK, InterruptsOn
<1>a. \/ joined' = joined
      \/ /\ at'[c] = "yield"
         /\ \E i \in Slot : /\ joined[i] = NULL
                           /\ joined' = [joined EXCEPT ![i] = current[c]]
  BY DEF join_locked, EnterJoined, TypeOK
<1>b. /\ yield_cause' \in [Thread -> YieldCause]
      /\ at'[c] = "yield" => yield_cause'[current[c]] # NoCause
      /\ \A t \in Thread : t # current[c] => yield_cause'[t] = yield_cause[t]
  BY <1>2 DEF join_locked, TypeOK, YieldCause, NoCause
<1>c. \A d \in Core \ {c} : Held[d] # current[c]
  BY <1>2, HeldAlone
<1>d. \A i \in Slot : joined[i] # current[c]
  BY <1>2 DEF JoinInv, CoreInv
<1>3. TypeOK'
  <2>1. joined' \in [Slot -> Thread \cup {NULL}]
    BY <1>a, <1>2 DEF TypeOK
  <2>2. at' \in [Core -> Place]
    <3>1. PICK p \in {"run", "yield"} : at' = [at EXCEPT ![c] = p]
      BY DEF join_locked
    <3>2. p \in Place
      BY DEF Place, CallPlace, InterruptsOn
    <3> QED
      BY <3>1, <3>2 DEF TypeOK
  <2> QED
    BY <1>1, <1>2, <1>b, <2>1, <2>2 DEF join_locked, TypeOK
<1>4. CoreInv'
  <2>1. \A d \in Core \ {c} : Executing(d) => current[d] # current[c]
    BY <1>2, <1>c, HeldAlone
  <2> QED
    BY <1>2, <1>b, <2>1, SMT DEF join_locked, LocalStep, CoreInv, Executing
<1>5. ThreadInv' /\ ThreadInOnePlace' /\ NoThreadLost'
  BY <1>1, <1>2, QuietThreads DEF join_locked, Executing
<1>8. JoinInv'
  <2>1. joined' = joined => JoinInv'
    BY <1>1, <1>2, <1>d, SMT DEF join_locked, LocalStep, JoinInv
  <2>2. ASSUME NEW i \in Slot, joined[i] = NULL, at'[c] = "yield",
               joined' = [joined EXCEPT ![i] = current[c]]
        PROVE  JoinInv'
    <3>1. /\ current[c] \notin ReadyThreads
          /\ state[current[c]] # "UNUSED"
          /\ "join" \in Calls
      BY <1>2, ZenonT(40) DEF ThreadInOnePlace, ThreadInv, CoreInv
    <3>2. /\ joined'[i] = current[c]
          /\ \A j \in Slot \ {i} : joined'[j] = joined[j] /\ joined[j] # current[c]
      BY <2>2, <1>d DEF TypeOK
    <3>3. state' = state /\ ReadyThreads' = ReadyThreads /\ ipi' = ipi
      BY <1>1 DEF join_locked
    <3> QED
      BY <1>2, <1>c, <1>d, <2>2, <3>1, <3>2, <3>3, SMT DEF LocalStep, JoinInv
  <2> QED
    BY <1>a, <2>1, <2>2
<1>9. YieldInv'
  <2>1. \A t \in Thread : yield_lock[t] = 1 => t # current[c]
    BY <1>2, YieldLockPlace DEF join_locked, CoreInv, Executing
  <2> QED
    BY <2>1, <1>2, SMTT(30) DEF join_locked, LocalStep, YieldInv, TypeOK
<1> QED
  BY <1>3, <1>4, <1>5, <1>8, <1>9

(* schedule_thread_terminate up to the lock.                               *)
LEMMA ExitCall ==
    ASSUME IInv, NEW c \in Core, schedule_thread_terminate(c)
    PROVE  IInv'
<1> USE SchedulerAssumption DEF IInv, Goto
<1>1. /\ Executing(c) /\ LocalStep(c) /\ Held' = Held /\ at[c] # "save"
      /\ current[c] \in Thread /\ c \notin ipi /\ c \notin ipi'
      /\ at[c] # "yield" /\ at'[c] = "exit"
  BY DEF schedule_thread_terminate, MayCall, threadVars, LocalStep, Held,
         CoreInv, Executing, TypeOK
<1>2. TypeOK'
  BY <1>1 DEF schedule_thread_terminate, MayCall, threadVars, TypeOK, Place,
     InterruptsOn, CallPlace
<1>3. CoreInv'
  BY <1>1, QuietCore DEF schedule_thread_terminate, threadVars
<1>4. YieldInv' /\ JoinInv'
  BY <1>1, QuietYield, QuietJoined DEF schedule_thread_terminate, MayCall, threadVars
<1> QED
  BY <1>1, <1>2, <1>3, <1>4, QuietThreads
     DEF schedule_thread_terminate, MayCall, threadVars

(* schedule_thread_terminate takes the lock.                               *)
LEMMA ExitLocked ==
    ASSUME IInv, NEW c \in Core, terminate_locked(c)
    PROVE  IInv'
<1> USE SchedulerAssumption DEF IInv, Goto
<1>1. /\ Executing(c) /\ LocalStep(c) /\ Held' = Held /\ at[c] # "save"
      /\ current[c] \in Thread /\ c \notin ipi /\ c \notin ipi'
      /\ at[c] # "yield" /\ at'[c] = "wake"
  BY ZenonT(40) DEF terminate_locked, threadVars, LocalStep, Held, CoreInv, Executing, TypeOK
<1>2. TypeOK'
  BY <1>1 DEF terminate_locked, threadVars, TypeOK, Place,
     InterruptsOn, CallPlace
<1>3. CoreInv'
  BY <1>1, QuietCore DEF terminate_locked, threadVars
<1>4. YieldInv' /\ JoinInv'
  BY <1>1, QuietYield, QuietJoined DEF terminate_locked, threadVars
<1> QED
  BY <1>1, <1>2, <1>3, <1>4, QuietThreads DEF terminate_locked, threadVars

(* wake_joined: a joiner leaves the table for the list.                    *)
LEMMA WakeJoined ==
    ASSUME IInv, SafeCalls, NEW c \in Core, wake_joined(c)
    PROVE  IInv'
<1> USE SchedulerAssumption DEF IInv, Goto
<1>a. /\ ReadyThreads = Elems(ready) /\ ReadyThreads' = Elems(ready')
      /\ Distinct(ready) /\ ready \in Seq(Thread)
  BY DEF ReadyThreads, Elems, ThreadInOnePlace, Distinct, TypeOK
<1>b. PICK i \in Slot :
         /\ joined[i] \in Thread
         /\ state' = [state EXCEPT ![joined[i]] = "RUNNABLE"]
         /\ ready' = schedule_add_thread(ready, joined[i])
         /\ joined' = [joined EXCEPT ![i] = NULL]
  BY ZenonT(20) DEF wake_joined, coreVars, JoinersOf, TypeOK
<1> DEFINE u == joined[i]
<1>c. /\ Held[c] = current[c] /\ at[c] = "wake" /\ c \notin ipi
      /\ "join" \in Calls /\ Core = {c} /\ u # current[c]
  BY <1>b, SMT DEF wake_joined, coreVars, JoinInv, CoreInv, Held, SafeCalls
<1>d. u \notin ReadyThreads /\ (\A d \in Core : Held[d] # u)
  BY <1>b, <1>c DEF JoinInv
<1> HIDE DEF u
<1>1. /\ ready' \in Seq(Thread) /\ Distinct(ready')
      /\ ReadyThreads' = ReadyThreads \cup {u}
  BY <1>a, <1>b, <1>d, AddFresh DEF u
<1>2. /\ Held' = Held /\ UNCHANGED coreVars
      /\ \A t \in Thread : state'[t] = IF t = u THEN "RUNNABLE" ELSE state[t]
  BY <1>b DEF wake_joined, coreVars, Held, TypeOK, coreVars, u
<1>3. TypeOK'
  BY <1>1, <1>b DEF wake_joined, coreVars, TypeOK, ThreadState
<1>4. CoreInv'
  <2>1. \A d \in Core : Executing(d) => current[d] # u /\ current[d] \in Thread
    BY <1>d, HeldAlone
  <2> QED
    BY <1>2, <2>1, SMT DEF wake_joined, coreVars, CoreInv, Executing
<1>5. ThreadInv'
  BY <1>1, <1>2, <1>b, SMT DEF wake_joined, coreVars, ThreadInv, u
<1>6. ThreadInOnePlace'
  BY <1>1, <1>2, <1>d DEF ThreadInOnePlace, Distinct
<1>7. NoThreadLost'
  BY <1>1, <1>2 DEF wake_joined, coreVars, NoThreadLost
<1>8. JoinInv'
  <2>1. \A j \in Slot : joined'[j] # NULL =>
           joined'[j] = joined[j] /\ j # i /\ joined[j] # u /\ joined[j] \in Thread
    BY <1>b DEF JoinInv, TypeOK, u
  <2> QED
    BY <1>1, <1>2, <2>1 DEF coreVars, JoinInv
<1>9. YieldInv'
  BY <1>2, SMT DEF wake_joined, coreVars, YieldInv
<1> QED
  BY <1>3, <1>4, <1>5, <1>6, <1>7, <1>8, <1>9

(* schedule_thread_terminate yields for good.                              *)
LEMMA ExitYield ==
    ASSUME IInv, NEW c \in Core, terminate_yield(c)
    PROVE  IInv'
<1> USE SchedulerAssumption DEF IInv, Goto
<1>1. /\ Executing(c) /\ LocalStep(c) /\ Held' = Held /\ at[c] # "save"
      /\ current[c] \in Thread /\ c \notin ipi /\ c \notin ipi'
      /\ at[c] # "yield" /\ at'[c] = "yield"
  BY DEF terminate_yield, LocalStep, Held, CoreInv, Executing, TypeOK
<1>2. TypeOK'
  BY <1>1 DEF terminate_yield, TypeOK, Place,
     InterruptsOn, CallPlace, YieldCause
<1>3. CoreInv'
  <2>1. \A d \in Core \ {c} : Executing(d) => current[d] # current[c]
    BY <1>1, HeldAlone
  <2>2. yield_cause' = [yield_cause EXCEPT ![current[c]] = "TERMINATE"]
    BY DEF terminate_yield
  <2> QED
    BY <1>1, <2>1, <2>2, SMT DEF terminate_yield, LocalStep, CoreInv, Executing,
       NoCause, TypeOK
<1>4. YieldInv' /\ JoinInv'
  BY <1>1, QuietYield, QuietJoined DEF terminate_yield
<1> QED
  BY <1>1, <1>2, <1>3, <1>4, QuietThreads DEF terminate_yield

-----------------------------------------------------------------------------
(* Every step of the scheduler keeps the inductive invariant.              *)
LEMMA NextIInv == IInv /\ SafeCalls /\ [Next]_vars => IInv'
<1> SUFFICES ASSUME IInv, SafeCalls, [Next]_vars
             PROVE  IInv'
  OBVIOUS
<1>1. ASSUME NEW c \in Core, Handler(c)
      PROVE  IInv'
  BY <1>1, IpiHandler, SaveContext, NextThread, ThreadEntry DEF Handler
<1>2. ASSUME NEW c \in Core, InCall(c)
      PROVE  IInv'
  BY <1>2, Yield, YieldReturn, JoinLocked, ExitLocked, WakeJoined, ExitYield
     DEF InCall
<1>3. ASSUME NEW c \in Core, Call(c)
      PROVE  IInv'
  BY <1>3, Spawn, JoinCall, ExitCall DEF Call
<1>4. ASSUME NEW c \in Core, lapic_time_handler(c)
      PROVE  IInv'
  BY <1>4, TimeHandler
<1>5. ASSUME UNCHANGED vars
      PROVE  IInv'
  <2>1. ReadyThreads' = ReadyThreads /\ Held' = Held
    BY <1>5 DEF vars, coreVars, ReadyThreads, Held
  <2>2. TypeOK' /\ CoreInv' /\ ThreadInv'
    BY <1>5, <2>1 DEF vars, coreVars, threadVars, IInv, TypeOK, CoreInv,
       Executing, ThreadInv
  <2>3. ThreadInOnePlace' /\ NoThreadLost' /\ JoinInv' /\ YieldInv'
    BY <1>5, <2>1, SMT DEF vars, coreVars, threadVars, IInv, ThreadInOnePlace,
       NoThreadLost, JoinInv, YieldInv
  <2> QED
    BY <2>2, <2>3 DEF IInv
<1> QED
  BY <1>1, <1>2, <1>3, <1>4, <1>5 DEF Next, Step

(* IInv holds of every behaviour of the scheduler.                         *)
LEMMA Inductive == SafeCalls => (Spec => []IInv)
<1> SUFFICES ASSUME SafeCalls PROVE Spec => []IInv
  OBVIOUS
<1>1. IInv /\ [Next]_vars => IInv'
  BY NextIInv
<1> QED
  BY <1>1, InitIInv, PTL DEF Spec

(* Every variable keeps its type, whatever the number of cores and threads *)
(* that spawn, yield, exit and are interrupted.                            *)
THEOREM TypeCorrect == SafeCalls => (Spec => []TypeOK)
<1>1. IInv => TypeOK
  BY DEF IInv
<1> QED
  BY <1>1, Inductive, PTL

(* No thread runs on two cores, is queued while it runs, or is linked      *)
(* twice in the ready list.                                                *)
THEOREM OnePlace == SafeCalls => (Spec => []ThreadInOnePlace)
<1>1. IInv => ThreadInOnePlace
  BY DEF IInv
<1> QED
  BY <1>1, Inductive, PTL

(* A thread that can run is queued or in the hands of a core.              *)
THEOREM NoneLost == SafeCalls => (Spec => []NoThreadLost)
<1>1. IInv => NoThreadLost
  BY DEF IInv
<1> QED
  BY <1>1, Inductive, PTL

(* A thread popped with its yield_lock taken was saved in its yield.       *)
LEMMA YieldedResumes == IInv => ResumesInsideYield
<1> SUFFICES ASSUME IInv, NEW c \in Core, at[c] = "entry",
                    next[c] \in Thread, yield_lock[next[c]] = 1
             PROVE  context[next[c]] = "spin"
  BY DEF ResumesInsideYield
<1>1. Held[c] = next[c]
  BY DEF Held
<1>2. \A d \in Core : Held[d] = next[c] => d = c
  BY <1>1, HeldAlone
<1> QED
  BY <1>2, SMT DEF IInv, YieldInv

(* A thread switched to with its yield_lock taken resumes at the spin of   *)
(* schedule_thread_yield.                                                  *)
THEOREM Resumes == SafeCalls => (Spec => []ResumesInsideYield)
BY YieldedResumes, Inductive, PTL

(* A thread never blocks on its own yield_lock with interrupts off.        *)
THEOREM YieldNeverWaits == SafeCalls => (Spec => []YieldLockFree)
<1>1. IInv => YieldLockFree
  <2> SUFFICES ASSUME IInv, NEW c \in Core, at[c] = "yield"
               PROVE  yield_lock[current[c]] = 0
    BY DEF YieldLockFree
  <2>1. Held[c] = current[c] /\ current[c] \in Thread
    BY HeldAlone DEF Executing
  <2>2. c \notin ipi
    BY DEF IInv, CoreInv
  <2> QED
    BY <2>1, <2>2, SMT DEF IInv, YieldInv, TypeOK
<1> QED
  BY <1>1, Inductive, PTL
=============================================================================
