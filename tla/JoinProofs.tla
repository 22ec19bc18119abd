----------------------------- MODULE JoinProofs -----------------------------
(***************************************************************************)
(* Proofs about schedule_thread_join and schedule_thread_terminate on one  *)
(* core: no joiner is left behind by the thread it waits for, and a join   *)
(* returns only when that thread has terminated.  The former needs a table *)
(* joined_threads in which all threads but one fit: with one more, a       *)
(* joiner that finds the table full can be left behind.  On two cores both *)
(* fail (SchedulerJoin2.cfg).                                              *)
(***************************************************************************)
EXTENDS SchedulerProofs

(* First-order steps are left to Zenon; a step that needs arithmetic or    *)
(* function updates cites SMT.                                             *)
USE Zenon

SingleCore == \A c, d \in Core : c = d

(* A full table of different threads has all threads but one.              *)
TableRoom ==
    \A t \in Thread : \A f \in [Slot -> Thread \ {t}] :
        (\A i, j \in Slot : f[i] = f[j] => i = j) =>
            \A u \in Thread \ {t} : \E i \in Slot : f[i] = u

(***************************************************************************)
(* The inductive invariant, with IInv.                                     *)
(***************************************************************************)
InTable(t) == \E i \in Slot : joined[i] = t

(* A core that is about to take the IPI of a yield.                        *)
Leaving(c) == at[c] = "yield" \/ c \in ipi

(* In the ready list, or popped from it and not yet entered.               *)
Queued(t) == t \in ReadyThreads \/ \E c \in Core : at[c] = "entry" /\ next[c] = t

(* A thread that is past the scan of joined_threads or scanning it, and    *)
(* not yet a ZOMBIE.                                                       *)
Ending(u) ==
    \E c \in Core : /\ current[c] = u
                    /\ \/ at[c] = "wake"
                       \/ yield_cause[u] = "TERMINATE" /\ Leaving(c)

(* The target of a thread in the table has not scanned the table yet.      *)
TableInv ==
    \A t \in Thread : InTable(t) =>
        /\ yield_cause[t] = "JOIN"
        /\ join_thread[t] \in Thread
        /\ state[join_thread[t]] # "ZOMBIE"
        /\ yield_cause[join_thread[t]] # "TERMINATE"

(* Every other thread sleeps in the table and t is asleep or on its way:   *)
(* nobody will run again.                                                  *)
Deadlocked(t) ==
    /\ \A u \in Thread \ {t} : InTable(u)
    /\ join_thread[t] \in Thread \ {t}
    /\ t \notin ReadyThreads
    /\ \A c \in Core : Held[c] = t => Leaving(c) \/ at[c] = "save"

(* A thread that sleeps for a join, or is about to, is in the table, or it *)
(* is the last one.                                                        *)
SleepInv ==
    /\ TableRoom => \A t \in Thread :
          state[t] = "JOINED" => InTable(t) \/ Deadlocked(t)
    /\ TableRoom => \A c \in Core, t \in Thread :
          current[c] = t /\ Leaving(c) /\ yield_cause[t] = "JOIN" =>
             InTable(t) \/ Deadlocked(t)
    /\ \A c \in Core, t \in Thread :
          at[c] = "join" /\ current[c] = t => join_thread[t] \in Thread \ {t}

(* A thread with the cause TERMINATE is a ZOMBIE or about to be one, and a *)
(* ZOMBIE never runs again.                                                *)
ExitInv ==
    /\ \A t \in Thread : yield_cause[t] = "TERMINATE" =>
          state[t] = "ZOMBIE" \/ \E c \in Core : current[c] = t /\ Leaving(c)
    /\ \A t \in Thread : state[t] = "ZOMBIE" =>
          /\ yield_cause[t] = "TERMINATE"
          /\ t \notin ReadyThreads
          /\ \A c \in Core : Held[c] = t => at[c] = "save"
    /\ \A t \in Thread : state[t] = "UNUSED" => yield_cause[t] = NoCause

(* A thread queued to return from its join was woken by its target.        *)
ReturnInv ==
    /\ \A t \in Thread : yield_cause[t] = "JOIN" /\ context[t] = "spin" /\ Queued(t) =>
          /\ join_thread[t] \in Thread
          /\ state[join_thread[t]] = "ZOMBIE" \/ Ending(join_thread[t])
    /\ \A c \in Core :
          at[c] = "spin" /\ c \notin ipi /\ yield_cause[current[c]] = "JOIN" =>
             /\ join_thread[current[c]] \in Thread
             /\ state[join_thread[current[c]]] = "ZOMBIE"

JInv == TableInv /\ SleepInv /\ ExitInv /\ ReturnInv

-----------------------------------------------------------------------------
(* A joiner that finds the table full is the only thread not in it.        *)
LEMMA FullTable ==
    ASSUME IInv, TableRoom, NEW t \in Thread, ~ InTable(t),
           \A i \in Slot : joined[i] # NULL
    PROVE  \A u \in Thread \ {t} : InTable(u)
<1>1. joined \in [Slot -> Thread \ {t}]
  BY DEF IInv, TypeOK, InTable
<1>2. \A i, j \in Slot : joined[i] = joined[j] => i = j
  BY <1>1 DEF IInv, JoinInv
<1> QED
  BY <1>1, <1>2 DEF TableRoom, InTable

(* Where the core is in a deadlock.                                        *)
LEMMA DeadlockedCore ==
    ASSUME IInv, SingleCore, NEW c \in Core, NEW t \in Thread, Deadlocked(t)
    PROVE  \/ Leaving(c) \/ at[c] \in {"save", "next", "idle"}
           \/ at[c] = "entry" /\ next[c] = Idle
<1>1. ASSUME NEW u \in Thread, Held[c] = u
      PROVE  Leaving(c) \/ at[c] = "save"
  <2>1. CASE u = t
    BY <1>1, <2>1 DEF Deadlocked
  <2>2. CASE InTable(u)
    <3>1. PICK i \in Slot : joined[i] = u
      BY <2>2 DEF InTable
    <3> QED
      BY <1>1, <3>1, SchedulerAssumption DEF IInv, JoinInv, Leaving
  <2> QED
    BY <2>1, <2>2 DEF Deadlocked
<1>2. at[c] \notin {"next", "idle", "entry"} => Held[c] \in Thread
  BY HeldAlone DEF Executing
<1>3. at[c] = "entry" => Held[c] = next[c] /\ next[c] \in Thread \cup {Idle}
  BY DEF IInv, CoreInv, Held
<1> QED
  BY <1>1, <1>2, <1>3 DEF Leaving, IInv, CoreInv

(* No thread joins or has terminated at boot.                              *)
LEMMA InitJInv == Init => JInv
<1> SUFFICES ASSUME Init PROVE JInv
  OBVIOUS
<1> USE SchedulerAssumption DEF Init
<1>1. TableInv
  BY DEF TableInv, InTable
<1>2. SleepInv
  BY DEF SleepInv, Leaving
<1>3. ExitInv
  BY DEF ExitInv, NoCause
<1>4. ReturnInv
  BY DEF ReturnInv, NoCause
<1> QED
  BY <1>1, <1>2, <1>3, <1>4 DEF JInv

(* A step of a thread's own code or of a call that moves the core only.    *)
LEMMA QuietJoins ==
    ASSUME IInv, JInv, SingleCore, NEW c \in Core,
           at[c] \notin {"wake", "yield", "save", "next", "entry", "idle"}, c \notin ipi,
           at'[c] \notin {"join", "yield", "spin", "save", "next", "entry", "idle"},
           c \notin ipi', current' = current,
           UNCHANGED <<ready, joined, threadVars>>
    PROVE  JInv'
<1>1. Core = {c}
  BY DEF SingleCore
<1>2. /\ ReadyThreads' = ReadyThreads /\ Held'[c] = Held[c]
      /\ \A t \in Thread : InTable(t)' <=> InTable(t)
      /\ Held[c] = current[c]
  BY DEF ReadyThreads, Held, InTable
<1>3. ~ Leaving(c) /\ ~ Leaving(c)'
  BY DEF Leaving
<1>4. TableInv'
  BY <1>2 DEF JInv, TableInv, threadVars
<1>5. SleepInv'
  <2>1. \A t \in Thread : ~ Deadlocked(t)
    BY <1>3, DeadlockedCore
  <2> QED
    BY <1>1, <1>2, <1>3, <2>1 DEF JInv, SleepInv, threadVars
<1>6. ExitInv'
  BY <1>1, <1>2, <1>3, SMT DEF JInv, ExitInv, threadVars
<1>7. ReturnInv'
  BY <1>1, <1>2, <1>3, SMT DEF JInv, ReturnInv, Queued, Ending, threadVars
<1> QED
  BY <1>4, <1>5, <1>6, <1>7 DEF JInv

(* schedule_add_thread of a thread that is not linked adds it.             *)
LEMMA ReadyAdd ==
    ASSUME IInv, NEW t \in Thread, t \notin ReadyThreads,
           ready' = schedule_add_thread(ready, t)
    PROVE  ReadyThreads' = ReadyThreads \cup {t}
<1>1. /\ ReadyThreads = Elems(ready) /\ ReadyThreads' = Elems(ready')
      /\ Distinct(ready) /\ ready \in Seq(Thread)
  BY DEF ReadyThreads, Elems, IInv, ThreadInOnePlace, Distinct, TypeOK
<1> QED
  BY <1>1, AddFresh

-----------------------------------------------------------------------------
(* The interrupt handlers.                                                 *)
LEMMA TimeHandlerJ ==
    ASSUME IInv, JInv, SingleCore, NEW c \in Core, lapic_time_handler(c)
    PROVE  JInv'
<1> USE SchedulerAssumption
<1>1. /\ Core = {c} /\ at[c] \in InterruptsOn /\ c \notin ipi /\ c \notin ipi'
      /\ at'[c] = "next" /\ Held[c] = current[c] /\ Held'[c] = NULL
  BY SMT DEF SingleCore, lapic_time_handler, Goto, Held, InterruptsOn, IInv, TypeOK
<1>2. /\ current' = current /\ state' = state /\ joined' = joined
      /\ join_thread' = join_thread /\ yield_cause' = yield_cause
      /\ \A t \in Thread : InTable(t)' <=> InTable(t)
  BY DEF lapic_time_handler, InTable
<1>3. ~ Leaving(c) /\ ~ Leaving(c)' /\ at[c] \notin {"wake", "save", "entry", "join"}
  BY <1>1 DEF Leaving, InterruptsOn
<1>4. \A t \in Thread : t \in ReadyThreads' => t \in ReadyThreads \/ t = current[c]
  <2>1. CASE current[c] = Idle
    BY <2>1 DEF lapic_time_handler, ReadyThreads
  <2>2. CASE current[c] # Idle
    <3>1. current[c] \in Thread /\ current[c] \notin ReadyThreads
      BY <1>1, <2>2 DEF IInv, CoreInv, Executing, ThreadInOnePlace, InterruptsOn
    <3> QED
      BY <2>2, <3>1, ReadyAdd DEF lapic_time_handler
  <2> QED
    BY <2>1, <2>2
<1>5. \A t \in Thread : context'[t] = IF t = current[c] THEN at[c] ELSE context[t]
  BY <1>1, SMT DEF lapic_time_handler, IInv, TypeOK, CoreInv, Executing, InterruptsOn
<1>6. TableInv'
  BY <1>2 DEF JInv, TableInv
<1>7. SleepInv'
  <2>1. ASSUME NEW t \in Thread, Deadlocked(t)
        PROVE  Deadlocked(t)'
    <3>1. current[c] = Idle
      BY <1>1, <1>3, <2>1, DeadlockedCore DEF InterruptsOn, IInv, CoreInv
    <3> QED
      BY <1>1, <1>2, <1>4, <2>1, <3>1 DEF Deadlocked
  <2> QED
    BY <1>1, <1>2, <1>3, <2>1 DEF JInv, SleepInv
<1>8. ExitInv'
  BY <1>1, <1>2, <1>3, <1>4, SMT DEF JInv, ExitInv
<1>9. ReturnInv'
  <2>1. ASSUME NEW t \in Thread, yield_cause[t] = "JOIN", context'[t] = "spin",
               t \in ReadyThreads'
        PROVE  join_thread[t] \in Thread /\ state[join_thread[t]] = "ZOMBIE"
    <3>1. CASE t = current[c]
      BY <1>1, <1>5, <2>1, <3>1 DEF JInv, ReturnInv
    <3>2. CASE t # current[c]
      BY <1>1, <1>3, <1>4, <1>5, <2>1, <3>2, SMTT(30) DEF JInv, ReturnInv, Queued, Ending
    <3> QED
      BY <3>1, <3>2
  <2> QED
    BY <1>1, <1>2, <2>1 DEF ReturnInv, Queued
<1> QED
  BY <1>6, <1>7, <1>8, <1>9 DEF JInv

(* lapic_ipi_handler: a joiner is put to sleep, a thread that terminates   *)
(* becomes a ZOMBIE.                                                       *)
LEMMA IpiHandlerJ ==
    ASSUME IInv, JInv, SingleCore, NEW c \in Core, lapic_ipi_handler(c)
    PROVE  JInv'
<1> USE SchedulerAssumption
<1> DEFINE t == current[c]
<1>1. /\ Core = {c} /\ c \in ipi /\ c \notin ipi' /\ at[c] \in {"spin", "halt"}
      /\ at'[c] = "save" /\ Held[c] = t /\ Held' = Held /\ t \in Thread
      /\ yield_cause[t] \in {"WAIT", "TERMINATE", "JOIN"}
  BY SMT DEF SingleCore, lapic_ipi_handler, Goto, Held, IInv, TypeOK, CoreInv, Executing,
     YieldCause, NoCause
<1>2. /\ current' = current /\ joined' = joined /\ context' = context
      /\ join_thread' = join_thread /\ yield_cause' = yield_cause
      /\ ReadyThreads' = ReadyThreads
      /\ \A u \in Thread : InTable(u)' <=> InTable(u)
  BY DEF lapic_ipi_handler, InTable, ReadyThreads
<1>3. /\ \A u \in Thread : u # t => state'[u] = state[u]
      /\ state'[t] = IF yield_cause[t] = "TERMINATE" THEN "ZOMBIE"
                     ELSE IF yield_cause[t] = "WAIT" THEN "WAITING" ELSE "JOINED"
  BY <1>1 DEF lapic_ipi_handler, StateAfterYield, IInv, TypeOK
<1>4. t \notin ReadyThreads /\ state[t] # "ZOMBIE" /\ Leaving(c) /\ ~ Leaving(c)'
  BY <1>1 DEF IInv, ThreadInOnePlace, JInv, ExitInv, Leaving
<1> HIDE DEF t
<1>5. TableInv'
  BY <1>1, <1>2, <1>3, SMT DEF JInv, TableInv
<1>6. SleepInv'
  <2>1. \A u \in Thread : Deadlocked(u) => Deadlocked(u)'
    BY <1>1, <1>2 DEF Deadlocked
  <2> QED
    BY <1>1, <1>2, <1>3, <1>4, <2>1 DEF JInv, SleepInv, t
<1>7. ExitInv'
  BY <1>1, <1>2, <1>3, <1>4, SMT DEF JInv, ExitInv, t
<1>8. ReturnInv'
  <2>1. ASSUME NEW u \in Thread, yield_cause[u] = "JOIN", context[u] = "spin",
               u \in ReadyThreads
        PROVE  join_thread[u] \in Thread /\ state'[join_thread[u]] = "ZOMBIE"
    BY <1>1, <1>2, <1>3, <2>1, SMTT(30) DEF JInv, ReturnInv, ExitInv, Queued, Ending, Leaving, t
  <2> QED
    BY <1>1, <1>2, <2>1 DEF ReturnInv, Queued
<1> QED
  BY <1>5, <1>6, <1>7, <1>8 DEF JInv

(* save_context changes the saved place of the thread only.                *)
LEMMA SaveContextJ ==
    ASSUME IInv, JInv, SingleCore, NEW c \in Core, save_context(c)
    PROVE  JInv'
<1> USE SchedulerAssumption
<1>1. /\ Core = {c} /\ at[c] = "save" /\ at'[c] = "next" /\ c \notin ipi /\ c \notin ipi'
      /\ Held[c] = current[c] /\ Held'[c] = NULL /\ current[c] \in Thread
      /\ current[c] \notin ReadyThreads
  BY SMTT(30) DEF SingleCore, save_context, Goto, Held, IInv, TypeOK, CoreInv, Executing,
     ThreadInOnePlace
<1>2. /\ current' = current /\ joined' = joined /\ state' = state
      /\ join_thread' = join_thread /\ yield_cause' = yield_cause
      /\ ReadyThreads' = ReadyThreads
      /\ \A t \in Thread : InTable(t)' <=> InTable(t)
      /\ \A t \in Thread : t # current[c] => context'[t] = context[t]
  BY <1>1, SMT DEF save_context, InTable, ReadyThreads, IInv, TypeOK
<1>3. ~ Leaving(c) /\ ~ Leaving(c)'
  BY <1>1 DEF Leaving
<1>4. TableInv'
  BY <1>2 DEF JInv, TableInv
<1>5. SleepInv'
  <2>1. \A u \in Thread : Deadlocked(u) => Deadlocked(u)'
    BY <1>1, <1>2, SMT DEF Deadlocked
  <2> QED
    BY <1>1, <1>2, <1>3, <2>1 DEF JInv, SleepInv
<1>6. ExitInv'
  BY <1>1, <1>2, <1>3, SMT DEF JInv, ExitInv
<1>7. ReturnInv'
  BY <1>1, <1>2, <1>3, SMT DEF JInv, ReturnInv, Queued, Ending
<1> QED
  BY <1>4, <1>5, <1>6, <1>7 DEF JInv

(* schedule_next_thread: the thread popped stays queued in the sense of    *)
(* ReturnInv.                                                              *)
LEMMA NextThreadJ ==
    ASSUME IInv, JInv, SingleCore, NEW c \in Core, schedule_next_thread(c)
    PROVE  JInv'
<1> USE SchedulerAssumption
<1>1. /\ Core = {c} /\ at[c] = "next" /\ at'[c] = "entry" /\ c \notin ipi /\ c \notin ipi'
      /\ Held'[c] = next'[c]
  BY SMT DEF SingleCore, schedule_next_thread, Goto, Held, IInv, TypeOK, CoreInv
<1>2. /\ current' = current /\ joined' = joined
      /\ state' = state /\ join_thread' = join_thread /\ yield_cause' = yield_cause
      /\ context' = context
      /\ \A t \in Thread : InTable(t)' <=> InTable(t)
  BY DEF schedule_next_thread, threadVars, InTable
<1>3. \A t \in Thread : t \in ReadyThreads' \/ next'[c] = t => t \in ReadyThreads
  <2>1. CASE ready = <<>>
    BY <2>1 DEF schedule_next_thread, pop_thread_from_queue, ReadyThreads, IInv, TypeOK
  <2>2. CASE ready # <<>>
    <3>1. next'[c] = Head(ready) /\ ready' = Tail(ready)
      BY <2>2 DEF schedule_next_thread, pop_thread_from_queue, IInv, TypeOK
    <3>2. /\ ReadyThreads = Elems(ready) /\ ReadyThreads' = Elems(ready')
          /\ Distinct(ready) /\ ready \in Seq(Thread)
      BY DEF ReadyThreads, Elems, IInv, ThreadInOnePlace, Distinct, TypeOK
    <3>3. Head(ready) \in Elems(ready) /\ Elems(Tail(ready)) = Elems(ready) \ {Head(ready)}
      BY <2>2, <3>2, PopHead
    <3> QED
      BY <3>1, <3>2, <3>3
  <2> QED
    BY <2>1, <2>2
<1>4. ~ Leaving(c) /\ ~ Leaving(c)'
  BY <1>1 DEF Leaving
<1>5. TableInv'
  BY <1>2 DEF JInv, TableInv
<1>6. SleepInv'
  <2>1. \A u \in Thread : Deadlocked(u) => Deadlocked(u)'
    BY <1>1, <1>2, <1>3 DEF Deadlocked
  <2> QED
    BY <1>1, <1>2, <1>4, <2>1 DEF JInv, SleepInv
<1>7. ExitInv'
  BY <1>1, <1>2, <1>3, <1>4, SMT DEF JInv, ExitInv
<1>8. ReturnInv'
  BY <1>1, <1>2, <1>3, <1>4, SMT DEF JInv, ReturnInv, Queued, Ending
<1> QED
  BY <1>5, <1>6, <1>7, <1>8 DEF JInv

(* thread_entry: a joiner that resumes finds its target a ZOMBIE, for      *)
(* nobody else runs.                                                       *)
LEMMA ThreadEntryJ ==
    ASSUME IInv, JInv, SingleCore, NEW c \in Core, thread_entry(c)
    PROVE  JInv'
<1> USE SchedulerAssumption
<1> DEFINE t == next[c]
<1>1. /\ Core = {c} /\ at[c] = "entry" /\ c \notin ipi /\ c \notin ipi'
      /\ Held[c] = t /\ current'[c] = t /\ t \in Thread \cup {Idle}
      /\ at'[c] = IF t = Idle THEN "idle" ELSE context[t]
      /\ t # Idle => context[t] \in {"run", "spin", "halt"}
  <2>1. Core = {c}
    BY DEF SingleCore
  <2>2. at[c] = "entry" /\ t \in Thread \cup {Idle} /\ c \notin ipi /\ Held[c] = t
    BY DEF thread_entry, Held, IInv, CoreInv
  <2>3. t # Idle => context[t] \in {"run", "spin", "halt"}
    BY <2>2 DEF IInv, TypeOK, ThreadInv, InterruptsOn
  <2> QED
    BY <2>1, <2>2, <2>3 DEF thread_entry, Goto, IInv, TypeOK
<1>2. /\ joined' = joined /\ context' = context /\ join_thread' = join_thread
      /\ yield_cause' = yield_cause /\ ReadyThreads' = ReadyThreads
      /\ \A u \in Thread : InTable(u)' <=> InTable(u)
      /\ \A u \in Thread : state'[u] = IF u = t THEN "RUNNING" ELSE state[u]
  BY <1>1, SMT DEF thread_entry, InTable, ReadyThreads, IInv, TypeOK
<1>3. /\ ~ Leaving(c) /\ ~ Leaving(c)' /\ at'[c] \notin {"join", "entry", "wake"}
      /\ Held'[c] = t
  BY <1>1 DEF Leaving, Held
<1>4. t \in Thread => state[t] # "ZOMBIE" /\ ~ InTable(t) /\ Queued(t)
                      /\ state[t] # "UNUSED"
  BY <1>1, SMT DEF JInv, ExitInv, IInv, JoinInv, ThreadInv, InTable, Queued
<1> HIDE DEF t
<1>5. TableInv'
  BY <1>2 DEF JInv, TableInv
<1>6. SleepInv'
  <2>1. \A u \in Thread : Deadlocked(u) => Deadlocked(u)'
    BY <1>1, <1>2, <1>3 DEF Deadlocked
  <2> QED
    BY <1>1, <1>2, <1>3, <2>1 DEF JInv, SleepInv
<1>7. ExitInv'
  BY <1>1, <1>2, <1>3, <1>4, SMTT(30) DEF JInv, ExitInv
<1>8. ReturnInv'
  <2>1. ASSUME NEW u \in Thread, yield_cause[u] = "JOIN", context[u] = "spin", Queued(u)
        PROVE  join_thread[u] \in Thread /\ state'[join_thread[u]] = "ZOMBIE"
    BY <1>1, <1>2, <1>3, <1>4, <2>1, SMT DEF JInv, ReturnInv, Ending
  <2>2. \A u \in Thread : Queued(u)' => Queued(u)
    BY <1>1, <1>2, <1>3 DEF Queued
  <2>3. ASSUME at'[c] = "spin", yield_cause[t] = "JOIN"
        PROVE  join_thread[t] \in Thread /\ state'[join_thread[t]] = "ZOMBIE"
    BY <1>1, <1>4, <2>1, <2>3
  <2> QED
    BY <1>1, <1>2, <2>1, <2>2, <2>3, SMT DEF ReturnInv
<1> QED
  BY <1>5, <1>6, <1>7, <1>8 DEF JInv

-----------------------------------------------------------------------------
(* The calls.                                                              *)
LEMMA YieldJ ==
    ASSUME IInv, JInv, SingleCore, NEW c \in Core, schedule_thread_yield(c)
    PROVE  JInv'
<1> USE SchedulerAssumption
<1>1. /\ Core = {c} /\ at[c] = "yield" /\ c \in ipi' /\ at'[c] \in {"halt", "spin"}
      /\ Held[c] = current[c] /\ Held' = Held /\ Leaving(c) /\ Leaving(c)'
  BY SMT DEF SingleCore, schedule_thread_yield, Goto, Held, IInv, TypeOK, Leaving
<1>2. /\ joined' = joined /\ context' = context /\ join_thread' = join_thread
      /\ yield_cause' = yield_cause /\ ReadyThreads' = ReadyThreads
      /\ state' = state /\ current' = current
      /\ \A u \in Thread : InTable(u)' <=> InTable(u)
  BY SMT DEF schedule_thread_yield, InTable, ReadyThreads
<1>3. TableInv'
  BY <1>2 DEF JInv, TableInv
<1>4. SleepInv'
  <2>1. \A u \in Thread : Deadlocked(u) => Deadlocked(u)'
    BY <1>1, <1>2 DEF Deadlocked
  <2> QED
    BY <1>1, <1>2, <2>1 DEF JInv, SleepInv
<1>5. ExitInv'
  BY <1>1, <1>2, SMT DEF JInv, ExitInv
<1>6. ReturnInv'
  <2>1. \A u \in Thread : Ending(u) => Ending(u)'
    BY <1>1, <1>2 DEF Ending
  <2> QED
    BY <1>1, <1>2, <2>1 DEF JInv, ReturnInv, Queued
<1> QED
  BY <1>3, <1>4, <1>5, <1>6 DEF JInv

(* A thread just created is in no join.                                    *)
LEMMA SpawnJ ==
    ASSUME IInv, JInv, SingleCore, NEW c \in Core, NEW u \in Thread, spawn(c, u)
    PROVE  JInv'
<1> USE SchedulerAssumption
<1>1. /\ Core = {c} /\ at[c] = "run" /\ c \notin ipi /\ Held' = Held
      /\ u \notin ReadyThreads /\ state[u] = "UNUSED" /\ yield_cause[u] = NoCause
      /\ ~ Leaving(c) /\ ~ Leaving(c)' /\ Held[c] # u
  BY SMT DEF SingleCore, spawn, MayCall, coreVars, Held, IInv, CoreInv, ThreadInv, JInv,
     ExitInv, Leaving
<1>2. /\ joined' = joined /\ context' = context /\ join_thread' = join_thread
      /\ yield_cause' = yield_cause /\ UNCHANGED coreVars
      /\ \A t \in Thread : InTable(t)' <=> InTable(t)
      /\ \A t \in Thread : state'[t] = IF t = u THEN "CREATED" ELSE state[t]
  BY DEF spawn, InTable, IInv, TypeOK
<1>3. ReadyThreads' = ReadyThreads \cup {u}
  BY <1>1, ReadyAdd DEF spawn
<1>4. TableInv'
  BY <1>2 DEF JInv, TableInv
<1>5. SleepInv'
  <2>1. \A t \in Thread : ~ Deadlocked(t)
    BY <1>1, DeadlockedCore
  <2> QED
    BY <1>1, <1>2, <2>1 DEF JInv, SleepInv, coreVars
<1>6. ExitInv'
  BY <1>1, <1>2, <1>3, SMT DEF JInv, ExitInv, coreVars
<1>7. ReturnInv'
  BY <1>1, <1>2, <1>3, SMT DEF JInv, ReturnInv, Queued, Ending, coreVars, NoCause
<1> QED
  BY <1>4, <1>5, <1>6, <1>7 DEF JInv

(* schedule_thread_join records a target other than the caller.            *)
LEMMA JoinCallJ ==
    ASSUME IInv, JInv, SingleCore, NEW c \in Core, NEW u \in Thread,
           schedule_thread_join(c, u)
    PROVE  JInv'
<1> USE SchedulerAssumption
<1> DEFINE t == current[c]
<1>1. /\ Core = {c} /\ at[c] = "run" /\ at'[c] = "join" /\ c \notin ipi /\ c \notin ipi'
      /\ Held[c] = t /\ Held' = Held /\ t \in Thread
      /\ ~ Leaving(c) /\ ~ Leaving(c)'
  <2>0. Core = {c}
    BY DEF SingleCore
  <2>1. at[c] = "run" /\ at'[c] = "join" /\ UNCHANGED <<current, next, ipi>>
    BY DEF schedule_thread_join, MayCall, Goto, IInv, TypeOK
  <2>2. c \notin ipi /\ t \in Thread
    BY <2>1 DEF IInv, CoreInv, Executing
  <2> QED
    BY <2>0, <2>1, <2>2 DEF Held, Leaving
<1>2. /\ joined' = joined /\ context' = context /\ state' = state
      /\ yield_cause' = yield_cause /\ current' = current /\ ReadyThreads' = ReadyThreads
      /\ \A v \in Thread : InTable(v)' <=> InTable(v)
      /\ \A v \in Thread : join_thread'[v] = IF v = t THEN u ELSE join_thread[v]
  BY SMT DEF schedule_thread_join, InTable, ReadyThreads, IInv, TypeOK
<1>3. ~ InTable(t) /\ t \notin ReadyThreads
  BY <1>1 DEF IInv, JoinInv, InTable, ThreadInOnePlace
<1> HIDE DEF t
<1>4. TableInv'
  BY <1>2, <1>3 DEF JInv, TableInv
<1>5. SleepInv'
  <2>1. \A v \in Thread : ~ Deadlocked(v)
    BY <1>1, DeadlockedCore
  <2>2. u # t
    BY DEF schedule_thread_join, t
  <2> QED
    BY <1>1, <1>2, <2>1, <2>2, SMT DEF JInv, SleepInv, t
<1>6. ExitInv'
  BY <1>1, <1>2, SMTT(30) DEF JInv, ExitInv
<1>7. ReturnInv'
  BY <1>1, <1>2, <1>3, SMT DEF JInv, ReturnInv, Queued, Ending
<1> QED
  BY <1>4, <1>5, <1>6, <1>7 DEF JInv

(* The joiner is in the table before it yields, or it is the last thread.  *)
LEMMA JoinLockedJ ==
    ASSUME IInv, JInv, SingleCore, NEW c \in Core, join_locked(c)
    PROVE  JInv'
<1> USE SchedulerAssumption
<1> DEFINE t == current[c]
           u == join_thread[t]
<1>1. /\ Core = {c} /\ at[c] = "join" /\ at'[c] \in {"run", "yield"}
      /\ c \notin ipi /\ c \notin ipi'
      /\ Held[c] = t /\ Held' = Held /\ t \in Thread
      /\ ~ Leaving(c)
  BY SMTT(30) DEF SingleCore, join_locked, Goto, Held, IInv, TypeOK, CoreInv, Executing, Leaving
<1>2. /\ context' = context /\ state' = state /\ join_thread' = join_thread
      /\ current' = current /\ ReadyThreads' = ReadyThreads
  BY SMTT(30) DEF join_locked, ReadyThreads
<1>3. /\ ~ InTable(t) /\ t \notin ReadyThreads /\ u \in Thread \ {t}
      /\ \A v \in Thread : ~ Deadlocked(v)
  BY <1>1, DeadlockedCore, SMTT(30) DEF IInv, JoinInv, InTable, ThreadInOnePlace, JInv, SleepInv
<1>4. /\ state[t] # "ZOMBIE" /\ state[t] # "UNUSED" /\ yield_cause[t] # "TERMINATE"
  BY <1>1, <1>3, SMT DEF JInv, ExitInv, SleepInv, IInv, ThreadInv
<1>5. CASE state[u] = "ZOMBIE"
  <2>1. /\ at'[c] = "run" /\ joined' = joined /\ yield_cause' = yield_cause
        /\ ~ Leaving(c)' /\ \A v \in Thread : InTable(v)' <=> InTable(v)
    BY <1>1, <1>5 DEF join_locked, Goto, InTable, Leaving, IInv, TypeOK
  <2> HIDE DEF t, u
  <2>2. TableInv'
    BY <1>2, <2>1 DEF JInv, TableInv
  <2>3. SleepInv'
    BY <1>1, <1>2, <1>3, <2>1 DEF JInv, SleepInv
  <2>4. ExitInv'
    BY <1>1, <1>2, <2>1, SMT DEF JInv, ExitInv
  <2>5. ReturnInv'
    BY <1>1, <1>2, <2>1, SMT DEF JInv, ReturnInv, Queued, Ending
  <2> QED
    BY <2>2, <2>3, <2>4, <2>5 DEF JInv
<1>6. CASE state[u] # "ZOMBIE"
  <2>1. \/ \E i \in Slot : joined[i] = NULL /\ joined' = [joined EXCEPT ![i] = t]
        \/ joined' = joined /\ \A i \in Slot : joined[i] # NULL
    BY <1>6 DEF join_locked, EnterJoined
  <2>2. /\ \A v \in Thread : InTable(v)' => InTable(v) \/ v = t
        /\ \A v \in Thread : InTable(v) => InTable(v)'
        /\ \/ InTable(t)'
           \/ TableRoom => \A v \in Thread \ {t} : InTable(v)
    <3>1. CASE \E i \in Slot : joined[i] = NULL /\ joined' = [joined EXCEPT ![i] = t]
      BY <1>1, <1>2, <3>1 DEF InTable, IInv, TypeOK
    <3>2. CASE joined' = joined /\ \A i \in Slot : joined[i] # NULL
      BY <1>1, <1>3, <3>2, FullTable DEF InTable
    <3> QED
      BY <2>1, <3>1, <3>2
  <2>3. /\ at'[c] = "yield" /\ Leaving(c)'
        /\ \A v \in Thread : yield_cause'[v] = IF v = t THEN "JOIN" ELSE yield_cause[v]
    BY <1>1, <1>6, ZenonT(40) DEF join_locked, Goto, Leaving, IInv, TypeOK
  <2>4. yield_cause[u] # "TERMINATE"
    BY <1>1, <1>3, <1>6, SMT DEF JInv, ExitInv
  <2> HIDE DEF t
  <2>5. TableInv'
    BY <1>1, <1>2, <1>3, <1>4, <1>6, <2>2, <2>3, <2>4, SMT DEF JInv, TableInv
  <2>6. SleepInv'
    <3>1. state[t] # "JOINED" \/ ~ TableRoom
      BY <1>1, <1>3 DEF JInv, SleepInv
    <3>2. TableRoom => InTable(t)' \/ Deadlocked(t)'
      BY <1>1, <1>2, <1>3, <2>2, <2>3 DEF Deadlocked, t
    <3> QED
      BY <1>1, <1>2, <1>3, <2>2, <2>3, <3>1, <3>2 DEF JInv, SleepInv, t
  <2>7. ExitInv'
    BY <1>1, <1>2, <1>4, <2>3, SMTT(30) DEF JInv, ExitInv
  <2>8. ReturnInv'
    BY <1>1, <1>2, <1>3, <2>3, SMT DEF JInv, ReturnInv, Queued, Ending
  <2> QED
    BY <2>5, <2>6, <2>7, <2>8 DEF JInv
<1> QED
  BY <1>5, <1>6

(* A joiner is queued by its target, which is on its way out.              *)
LEMMA WakeJoinedJ ==
    ASSUME IInv, JInv, SingleCore, NEW c \in Core, wake_joined(c)
    PROVE  JInv'
<1> USE SchedulerAssumption
<1>1. /\ Core = {c} /\ at[c] = "wake" /\ c \notin ipi /\ Held' = Held
      /\ Held[c] = current[c] /\ current[c] \in Thread /\ ~ Leaving(c) /\ ~ Leaving(c)'
  BY SMT DEF SingleCore, wake_joined, coreVars, Held, IInv, CoreInv, Executing, Leaving
<1>2. PICK i \in Slot :
         /\ joined[i] \in Thread /\ join_thread[joined[i]] = current[c]
         /\ state' = [state EXCEPT ![joined[i]] = "RUNNABLE"]
         /\ ready' = schedule_add_thread(ready, joined[i])
         /\ joined' = [joined EXCEPT ![i] = NULL]
  BY ZenonT(20) DEF wake_joined, JoinersOf, IInv, TypeOK
<1> DEFINE u == joined[i]
<1>3. /\ u \in Thread /\ join_thread[u] = current[c] /\ InTable(u)
      /\ u \notin ReadyThreads /\ Held[c] # u
      /\ \A j \in Slot : joined[j] = u => j = i
  BY <1>1, <1>2 DEF IInv, JoinInv, InTable
<1>4. ReadyThreads' = ReadyThreads \cup {u}
  BY <1>2, <1>3, ReadyAdd
<1>5. \A t \in Thread : InTable(t)' <=> InTable(t) /\ t # u
  BY <1>2, <1>3 DEF InTable, IInv, TypeOK
<1>6. /\ context' = context /\ join_thread' = join_thread /\ yield_cause' = yield_cause
      /\ UNCHANGED coreVars
      /\ \A t \in Thread : state'[t] = IF t = u THEN "RUNNABLE" ELSE state[t]
  BY <1>2 DEF wake_joined, IInv, TypeOK
<1>7. yield_cause[u] = "JOIN"
  BY <1>3 DEF JInv, TableInv
<1> HIDE DEF u
<1>8. TableInv'
  BY <1>5, <1>6 DEF JInv, TableInv
<1>9. SleepInv'
  <2>1. \A v \in Thread : ~ Deadlocked(v)
    BY <1>1, DeadlockedCore
  <2> QED
    BY <1>1, <1>5, <1>6, <2>1 DEF JInv, SleepInv, coreVars
<1>10. ExitInv'
  BY <1>1, <1>3, <1>4, <1>6, <1>7, SMT DEF JInv, ExitInv, coreVars
<1>11. ReturnInv'
  <2>1. /\ \A t \in Thread : Ending(t) => Ending(t)'
        /\ Ending(current[c])'
    BY <1>1, <1>6 DEF Ending, coreVars
  <2>2. \A t \in Thread : state[t] = "ZOMBIE" => state'[t] = "ZOMBIE"
    BY <1>6, <1>7 DEF JInv, ExitInv
  <2>3. ASSUME NEW t \in Thread, yield_cause[t] = "JOIN", context[t] = "spin", Queued(t)'
        PROVE  /\ join_thread[t] \in Thread
               /\ state'[join_thread[t]] = "ZOMBIE" \/ Ending(join_thread[t])'
    BY <1>1, <1>3, <1>4, <1>6, <2>1, <2>2, <2>3 DEF JInv, ReturnInv, Queued, coreVars
  <2> QED
    BY <1>1, <1>6, <2>3 DEF ReturnInv, coreVars
<1> QED
  BY <1>8, <1>9, <1>10, <1>11 DEF JInv

(* The target has woken every joiner in the table when it yields for good. *)
LEMMA ExitYieldJ ==
    ASSUME IInv, JInv, SingleCore, NEW c \in Core, terminate_yield(c)
    PROVE  JInv'
<1> USE SchedulerAssumption
<1> DEFINE t == current[c]
<1>1. /\ Core = {c} /\ at[c] = "wake" /\ at'[c] = "yield" /\ c \notin ipi /\ Held' = Held
      /\ Held[c] = t /\ t \in Thread /\ ~ Leaving(c) /\ Leaving(c)'
  <2>0. Core = {c}
    BY DEF SingleCore
  <2>1. at[c] = "wake" /\ at'[c] = "yield" /\ UNCHANGED <<current, next, ipi>>
    BY DEF terminate_yield, Goto, IInv, TypeOK
  <2>2. c \notin ipi /\ t \in Thread
    BY <2>1 DEF IInv, CoreInv, Executing
  <2> QED
    BY <2>0, <2>1, <2>2 DEF Held, Leaving
<1>2. /\ joined' = joined /\ context' = context /\ state' = state
      /\ join_thread' = join_thread /\ current' = current /\ ReadyThreads' = ReadyThreads
      /\ \A v \in Thread : InTable(v)' <=> InTable(v)
      /\ \A v \in Thread : yield_cause'[v] = IF v = t THEN "TERMINATE" ELSE yield_cause[v]
  BY SMT DEF terminate_yield, InTable, ReadyThreads, IInv, TypeOK
<1>3. /\ ~ InTable(t)
      /\ \A v \in Thread : InTable(v) => join_thread[v] # t
  BY <1>1 DEF terminate_yield, JoinersOf, IInv, JoinInv, InTable
<1>4. state[t] # "UNUSED"
  BY <1>1 DEF IInv, ThreadInv
<1> HIDE DEF t
<1>5. TableInv'
  BY <1>2, <1>3 DEF JInv, TableInv
<1>6. SleepInv'
  <2>1. \A v \in Thread : ~ Deadlocked(v)
    BY <1>1, DeadlockedCore
  <2> QED
    BY <1>1, <1>2, <2>1 DEF JInv, SleepInv, t
<1>7. ExitInv'
  BY <1>1, <1>2, <1>4, SMT DEF JInv, ExitInv, t
<1>8. ReturnInv'
  <2>1. \A v \in Thread : Ending(v) => Ending(v)'
    BY <1>1, <1>2 DEF Ending, t
  <2> QED
    BY <1>1, <1>2, <2>1 DEF JInv, ReturnInv, Queued, t
<1> QED
  BY <1>5, <1>6, <1>7, <1>8 DEF JInv

-----------------------------------------------------------------------------
(* Every step of the scheduler.                                            *)
LEMMA StepJInv ==
    ASSUME IInv, JInv, SingleCore, NEW c \in Core, Step(c)
    PROVE  JInv'
<1>1. CASE Handler(c)
  BY <1>1, IpiHandlerJ, SaveContextJ, NextThreadJ, ThreadEntryJ DEF Handler
<1>2. CASE yield_return(c)
  <2>1. /\ at[c] = "spin" /\ at'[c] \in {"woken", "run"} /\ c \notin ipi /\ c \notin ipi'
        /\ current' = current /\ UNCHANGED <<ready, joined, threadVars>>
    BY <1>2 DEF yield_return, Goto, IInv, TypeOK
  <2> QED
    BY <2>1, QuietJoins
<1>3. CASE terminate_locked(c) \/ schedule_thread_terminate(c)
  <2>1. /\ at[c] \in {"run", "exit"} /\ at'[c] \in {"exit", "wake"}
        /\ current' = current /\ ipi' = ipi /\ UNCHANGED <<ready, joined, threadVars>>
    BY <1>3 DEF terminate_locked, schedule_thread_terminate, MayCall, Goto, IInv, TypeOK
  <2>2. c \notin ipi
    BY <2>1 DEF IInv, CoreInv
  <2> QED
    BY <2>1, <2>2, QuietJoins
<1>4. CASE InCall(c)
  BY <1>2, <1>3, <1>4, YieldJ, JoinLockedJ, WakeJoinedJ, ExitYieldJ DEF InCall
<1>5. CASE Call(c)
  BY <1>3, <1>5, SpawnJ, JoinCallJ DEF Call
<1>6. CASE lapic_time_handler(c)
  BY <1>6, TimeHandlerJ
<1> QED
  BY <1>1, <1>4, <1>5, <1>6 DEF Step

(* JInv speaks of the variables of the scheduler only.                     *)
LEMMA StutterJInv == JInv /\ UNCHANGED vars => JInv'
<1> SUFFICES ASSUME JInv, UNCHANGED vars PROVE JInv'
  OBVIOUS
<1>1. UNCHANGED <<current, at, next, ipi, ready, joined, state, join_thread,
                  yield_cause, context>>
  BY DEF vars, coreVars, threadVars
<1>2. /\ ReadyThreads' = ReadyThreads /\ Held' = Held
      /\ \A c \in Core : Leaving(c)' <=> Leaving(c)
      /\ \A t \in Thread : (InTable(t)' <=> InTable(t)) /\ (Queued(t)' <=> Queued(t))
      /\ \A t \in Thread : Ending(t)' <=> Ending(t)
  BY <1>1 DEF ReadyThreads, Held, Leaving, InTable, Queued, Ending
<1>3. TableInv' /\ ExitInv' /\ ReturnInv'
  BY <1>1, <1>2 DEF JInv, TableInv, ExitInv, ReturnInv
<1>4. SleepInv'
  <2>1. \A t \in Thread : Deadlocked(t) => Deadlocked(t)'
    BY <1>1, <1>2 DEF Deadlocked
  <2> QED
    BY <1>1, <1>2, <2>1 DEF JInv, SleepInv
<1> QED
  BY <1>3, <1>4 DEF JInv

(* Both invariants hold of every behaviour on one core.                    *)
LEMMA JoinsInductive == SingleCore => (Spec => [](IInv /\ JInv))
<1> SUFFICES ASSUME SingleCore PROVE Spec => [](IInv /\ JInv)
  OBVIOUS
<1>1. SafeCalls
  BY DEF SingleCore, SafeCalls
<1>2. Init => IInv /\ JInv
  BY InitIInv, InitJInv
<1>3. IInv /\ JInv /\ [Next]_vars => (IInv /\ JInv)'
  BY <1>1, NextIInv, StepJInv, StutterJInv DEF Next
<1> QED
  BY <1>2, <1>3, PTL DEF Spec

(* schedule_thread_terminate leaves no thread asleep in a join of the      *)
(* thread that has terminated.  (EventProofs counts the slots: JoinersWoken*)
(* is this for a table in which all threads but one fit.)                  *)
LEMMA JoinersWokenWithRoom == SingleCore /\ TableRoom => (Spec => []NoJoinerLeftBehind)
<1> SUFFICES ASSUME SingleCore, TableRoom PROVE Spec => []NoJoinerLeftBehind
  OBVIOUS
<1>1. JInv => NoJoinerLeftBehind
  <2> SUFFICES ASSUME JInv, NEW t \in Thread, state[t] = "JOINED"
               PROVE  state[join_thread[t]] # "ZOMBIE"
    BY DEF NoJoinerLeftBehind
  <2>1. CASE InTable(t)
    BY <2>1 DEF JInv, TableInv
  <2>2. CASE Deadlocked(t)
    BY <2>2 DEF Deadlocked, JInv, TableInv, ExitInv
  <2> QED
    BY <2>1, <2>2 DEF JInv, SleepInv
<1> QED
  BY <1>1, JoinsInductive, PTL

(* On one core: a thread that comes back from the yield of                 *)
(* schedule_thread_join finds its target a ZOMBIE, also when the table was *)
(* full.                                                                   *)
THEOREM JoinReturns == SingleCore => (Spec => []JoinReturnsAfterExit)
<1>1. JInv => JoinReturnsAfterExit
  BY DEF JInv, ReturnInv, JoinReturnsAfterExit
<1> QED
  BY <1>1, JoinsInductive, PTL
=============================================================================
