---------------------------- MODULE EventProofs ----------------------------
(***************************************************************************)
(* Proofs about module Event on one core: a thread that waits for an event *)
(* is listed there, event_wait returns on its own event only, event_signal *)
(* passes no waiting listener over, and a thread that has left event_wait  *)
(* is listed nowhere.  The inductive invariant is the scheduler's with     *)
(* EInv below: where each thread stands between its call of event_wait and *)
(* its return.                                                             *)
(***************************************************************************)
EXTENDS Event, JoinProofs

(* First-order steps are left to Zenon; a step that needs arithmetic or    *)
(* function updates cites SMT.                                             *)
USE Zenon

(* A listener table that is full without a thread has another one twice.   *)
ListenRoom ==
    \A t \in Thread : \A f \in [ListenSlot -> Thread \ {t}] :
        \E i, j \in ListenSlot : i # j /\ f[i] = f[j]

(* A thread between attach_listener and remove_listener, and one that      *)
(* schedule_notify has woken there.                                        *)
InWait(t) == /\ wait_event[t] \in EventObject
             /\ ListenRoom => SlotsOf(wait_event[t], t) # {}
Woken(t) == InWait(t) /\ received_event[t] = wait_event[t]

(* A thread about to yield, and one that returns from its yield.           *)
Sleeper(t) == IF yield_cause[t] = "WAIT" THEN InWait(t) ELSE wait_event[t] = NULL
Returner(t) == IF yield_cause[t] = "WAIT" THEN Woken(t) ELSE wait_event[t] = NULL

(* A listener waits for the event it is listed in, and is listed once.     *)
ListInv ==
    \A e \in EventObject, i \in ListenSlot, t \in Thread : listeners[e][i] = t =>
        /\ wait_event[t] = e
        /\ \A j \in ListenSlot : listeners[e][j] = t => j = i

(* What the place a core has reached says about the wait of its thread.    *)
Outside == {"run", "join", "exit", "wake", "lock", "scan", "notify"}
WaitOf(c, t) ==
    /\ at[c] = "attach" => /\ wait_event[t] \in EventObject
                           /\ SlotsOf(wait_event[t], t) = {}
    /\ at[c] \in Outside => wait_event[t] = NULL
    /\ Leaving(c) => Sleeper(t)
    /\ at[c] = "spin" /\ c \notin ipi => Returner(t)
    /\ at[c] = "woken" => Woken(t)
CoreWaitInv == \A c \in Core : current[c] \in Thread => WaitOf(c, current[c])

(* A thread in its own code or in a call is RUNNING, one that halts has    *)
(* terminated, and nobody is BLOCKED.                                      *)
InHandler == {"next", "entry", "idle", "save"}
StopOf(c, t) ==
    /\ at[c] = "halt" => yield_cause[t] = "TERMINATE"
    /\ at[c] = "save" => /\ frame[c] \in {"spin", "halt"}
                         /\ frame[c] = "halt" => yield_cause[t] = "TERMINATE"
    /\ at[c] \notin InHandler => state[t] = "RUNNING"
StopInv ==
    /\ \A c \in Core : current[c] \in Thread => StopOf(c, current[c])
    /\ \A t \in Thread : /\ context[t] = "halt" => yield_cause[t] = "TERMINATE"
                         /\ state[t] # "BLOCKED"

(* A WAITING thread is in its event_wait, asleep or going to sleep.        *)
Asleep(c, t) == /\ InWait(t) /\ yield_cause[t] = "WAIT" /\ t \notin ReadyThreads
                /\ IF Held[c] = t THEN at[c] = "save" ELSE context[t] = "spin"
WaitingInv == \A c \in Core, t \in Thread : state[t] = "WAITING" => Asleep(c, t)

(* A thread queued to return to its event_wait was notified there; any     *)
(* other queued thread, a joiner and a thread not yet created wait for no  *)
(* event.                                                                  *)
GoesOn(t) == IF context[t] = "spin" THEN Returner(t) ELSE wait_event[t] = NULL
QueuedInv ==
    \A t \in Thread : /\ Queued(t) => GoesOn(t)
                      /\ InTable(t) \/ state[t] = "UNUSED" => wait_event[t] = NULL

(* The scan of event_signal: the listeners passed are not WAITING, the one *)
(* about to be notified is.                                                *)
Passed(c) == \A i \in ListenSlot, t \in Thread :
                 i < sig_slot[c] /\ listeners[sig_event[c]][i] = t => state[t] # "WAITING"
SignalOf(c) ==
    /\ at[c] \notin {"scan", "notify"} => sig_slot[c] = 1
    /\ at[c] \in {"lock", "scan", "notify"} => sig_event[c] \in EventObject
    /\ at[c] = "notify" => /\ sig_slot[c] \in ListenSlot
                           /\ Listener(c) \in Thread
                           /\ state[Listener(c)] = "WAITING"
    /\ at[c] \in {"scan", "notify"} => Passed(c)
SignalInv == \A c \in Core : SignalOf(c)

EventTypes ==
    /\ listeners \in [EventObject -> [ListenSlot -> Thread \cup {NULL}]]
    /\ event_lock \in [EventObject -> Core \cup {NULL}]
    /\ received_event \in [Thread -> EventObject \cup {NULL}]
    /\ wait_event \in [Thread -> EventObject \cup {NULL}]
    /\ sig_event \in [Core -> EventObject \cup {NULL}]
    /\ sig_slot \in [Core -> 1 .. ListenSlots + 1]

EInv == /\ EventTypes /\ ListInv /\ CoreWaitInv /\ StopInv
        /\ WaitingInv /\ QueuedInv /\ SignalInv

-----------------------------------------------------------------------------
(***************************************************************************)
(* The listener table.                                                     *)
(***************************************************************************)

(* A set of slots that is not empty has a first one.                       *)
FirstSlot == \A S \in SUBSET ListenSlot : S # {} => \E i \in S : \A j \in S : i <= j

(* The loops of attach_listener and remove_listener change one slot, or    *)
(* none when there is no slot to change.                                   *)
LEMMA ReplaceOne ==
    ASSUME FirstSlot, NEW e \in EventObject, NEW x, NEW y
    PROVE  \/ SlotsOf(e, x) = {} /\ ReplaceFirst(e, x, y) = listeners
           \/ \E i \in SlotsOf(e, x) :
                 ReplaceFirst(e, x, y) = [listeners EXCEPT ![e][i] = y]
<1>1. CASE SlotsOf(e, x) = {}
  BY <1>1 DEF ReplaceFirst
<1>2. CASE SlotsOf(e, x) # {}
  <2>1. \E i \in SlotsOf(e, x) : \A j \in SlotsOf(e, x) : i <= j
    BY <1>2 DEF FirstSlot, SlotsOf
  <2> DEFINE k == CHOOSE i \in SlotsOf(e, x) : \A j \in SlotsOf(e, x) : i <= j
  <2>2. k \in SlotsOf(e, x)
    BY <2>1
  <2> QED
    BY <1>2, <2>2 DEF ReplaceFirst
<1> QED
  BY <1>1, <1>2

(* A table in which all threads fit has a free slot for one not listed.    *)
LEMMA FreeListenSlot ==
    ASSUME EventTypes, ListInv, ListenRoom, NEW t \in Thread,
           NEW e \in EventObject, SlotsOf(e, t) = {}
    PROVE  SlotsOf(e, NULL) # {}
<1> SUFFICES ASSUME SlotsOf(e, NULL) = {} PROVE FALSE
  OBVIOUS
<1>1. listeners[e] \in [ListenSlot -> Thread \ {t}]
  BY SMT DEF EventTypes, SlotsOf
<1>2. \E i, j \in ListenSlot : i # j /\ listeners[e][i] = listeners[e][j]
  BY <1>1 DEF ListenRoom
<1> QED
  BY <1>1, <1>2, ZenonT(40) DEF ListInv

-----------------------------------------------------------------------------
(* Nobody waits and no table is in use at boot.                            *)
LEMMA InitEInv == EventInit => EInv
<1> SUFFICES ASSUME EventInit PROVE EInv
  OBVIOUS
<1> USE SchedulerAssumption, EventAssumption DEF EventInit, Init
<1>1. EventTypes
  BY SMT DEF EventTypes, ListenSlot
<1>2. ListInv
  BY DEF ListInv
<1>3. CoreWaitInv /\ StopInv
  BY DEF CoreWaitInv, StopInv, Leaving
<1>4. WaitingInv /\ QueuedInv
  BY DEF WaitingInv, QueuedInv, GoesOn
<1>5. SignalInv
  BY DEF SignalInv, SignalOf
<1> QED
  BY <1>1, <1>2, <1>3, <1>4, <1>5 DEF EInv

(* A step of the scheduler keeps the tables and what they say about a      *)
(* thread.                                                                 *)
LEMMA EventFrame ==
    ASSUME EInv, UNCHANGED eventVars
    PROVE  /\ EventTypes' /\ ListInv'
           /\ wait_event' = wait_event
           /\ \A t \in Thread : (InWait(t)' <=> InWait(t)) /\ (Woken(t)' <=> Woken(t))
           /\ \A t \in Thread : SlotsOf(wait_event[t], t)' = SlotsOf(wait_event[t], t)
<1>1. UNCHANGED <<listeners, event_lock, received_event, wait_event, sig_event, sig_slot>>
  BY DEF eventVars, signalVars
<1>2. EventTypes' /\ ListInv'
  BY <1>1, SMT DEF EInv, EventTypes, ListInv
<1>3. \A t \in Thread : SlotsOf(wait_event[t], t)' = SlotsOf(wait_event[t], t)
  BY <1>1 DEF SlotsOf
<1> QED
  BY <1>1, <1>2, <1>3 DEF InWait, Woken

(* The thread of the only core is the one CoreWaitInv speaks of.           *)
LEMMA OneCoreWait ==
    ASSUME NEW c \in Core, \A d \in Core : d = c,
           current'[c] \in Thread => WaitOf(c, current[c])'
    PROVE  CoreWaitInv'
BY DEF CoreWaitInv, WaitOf, Leaving, Sleeper, Returner, Woken, InWait, SlotsOf

(* The same for StopInv.                                                   *)
LEMMA OneCoreStop ==
    ASSUME NEW c \in Core, \A d \in Core : d = c,
           current'[c] \in Thread => StopOf(c, current[c])'
    PROVE  \A d \in Core : current'[d] \in Thread => StopOf(d, current[d])'
BY DEF StopOf, InHandler

(* What is to be shown of a step of the only core.                         *)
LEMMA OneCoreStep ==
    ASSUME SingleCore, NEW c \in Core, EventTypes', ListInv',
           current'[c] \in Thread => WaitOf(c, current[c])' /\ StopOf(c, current[c])',
           \A t \in Thread : /\ context'[t] = "halt" => yield_cause'[t] = "TERMINATE"
                             /\ state'[t] # "BLOCKED"
                             /\ state'[t] = "WAITING" => Asleep(c, t)',
           QueuedInv', SignalOf(c)'
    PROVE  EInv'
<1>1. \A d \in Core : d = c
  BY DEF SingleCore
<1>2. CoreWaitInv'
  <2>1. current'[c] \in Thread => WaitOf(c, current[c])'
    OBVIOUS
  <2> QED
    BY <1>1, <2>1, OneCoreWait
<1>3. StopInv'
  <2>1. current'[c] \in Thread => StopOf(c, current[c])'
    OBVIOUS
  <2>2. \A d \in Core : current'[d] \in Thread => StopOf(d, current[d])'
    BY <1>1, <2>1, OneCoreStop
  <2> QED
    BY <2>2 DEF StopInv
<1>4. WaitingInv'
  BY <1>1 DEF WaitingInv, Asleep
<1>5. SignalInv'
  BY <1>1, ZenonT(40) DEF SignalInv, SignalOf, Passed, Listener
<1> QED
  BY <1>2, <1>3, <1>4, <1>5 DEF EInv

(* The same for a step of the scheduler.                                   *)
LEMMA EventStep ==
    ASSUME EInv, SingleCore, NEW c \in Core, UNCHANGED eventVars,
           at[c] \notin {"scan", "notify"}, at'[c] \notin {"lock", "scan", "notify"},
           current'[c] \in Thread => WaitOf(c, current[c])' /\ StopOf(c, current[c])',
           \A t \in Thread : /\ context'[t] = "halt" => yield_cause'[t] = "TERMINATE"
                             /\ state'[t] # "BLOCKED"
                             /\ state'[t] = "WAITING" => Asleep(c, t)',
           QueuedInv'
    PROVE  EInv'
<1>1. EventTypes' /\ ListInv'
  BY EventFrame DEF EInv
<1>2. SignalOf(c)'
  BY DEF EInv, SignalInv, SignalOf, eventVars, signalVars
<1> QED
  BY <1>1, <1>2, OneCoreStep

-----------------------------------------------------------------------------
(***************************************************************************)
(* The steps of the scheduler.                                             *)
(***************************************************************************)

(* A thread between its own code and its calls of join and terminate.      *)
LEMMA QuietEvents ==
    ASSUME IInv, EInv, SingleCore, NEW c \in Core, UNCHANGED eventVars,
           at[c] \in {"run", "join", "exit", "wake"},
           at'[c] \in {"run", "join", "exit", "wake"}, ipi' = ipi,
           UNCHANGED <<current, ready, joined, state, yield_cause, context>>
    PROVE  EInv'
<1>1. /\ (\A d \in Core : d = c) /\ c \notin ipi /\ ~ Leaving(c)'
      /\ at[c] \in Outside /\ at[c] \notin InHandler
      /\ at'[c] \notin {"attach", "spin", "woken", "halt", "save", "entry"}
      /\ current[c] \in Thread /\ Held[c] = current[c] /\ Held'[c] = current[c]
  BY DEF SingleCore, IInv, CoreInv, Executing, Leaving, Held, Outside, InHandler
<1>2. /\ ReadyThreads' = ReadyThreads
      /\ \A t \in Thread : (InTable(t)' <=> InTable(t)) /\ (Queued(t)' => Queued(t))
  BY <1>1 DEF ReadyThreads, InTable, Queued
<1>3. WaitOf(c, current[c]) /\ StopOf(c, current[c])
  BY <1>1 DEF EInv, CoreWaitInv, StopInv
<1>4. WaitOf(c, current[c])' /\ StopOf(c, current[c])'
  BY <1>1, <1>3, EventFrame DEF WaitOf, StopOf
<1>5. \A t \in Thread : /\ context[t] = "halt" => yield_cause[t] = "TERMINATE"
                        /\ state[t] # "BLOCKED"
                        /\ state[t] = "WAITING" => Asleep(c, t)' 
  <2>1. \A t \in Thread : state[t] = "WAITING" => Asleep(c, t) /\ t # current[c]
    BY <1>1, <1>3 DEF EInv, WaitingInv, StopOf
  <2> QED
    BY <1>1, <1>2, <2>1, EventFrame DEF Asleep, EInv, StopInv
<1>6. QueuedInv'
  BY <1>2, EventFrame DEF EInv, QueuedInv, GoesOn, Returner
<1> QED
  BY <1>1, <1>4, <1>5, <1>6, EventStep

(* A thread that runs and does not leave has not terminated.               *)
LEMMA NotEnding ==
    ASSUME JInv, SingleCore, NEW c \in Core, ~ Leaving(c),
           NEW t \in Thread, state[t] = "RUNNING"
    PROVE  yield_cause[t] # "TERMINATE"
<1>1. \A d \in Core : d = c
  BY DEF SingleCore
<1> QED
  BY <1>1 DEF JInv, ExitInv

(* The timer queues a thread that is in its own code or back in its yield. *)
LEMMA TimeHandlerE ==
    ASSUME IInv, JInv, EInv, SingleCore, NEW c \in Core,
           lapic_time_handler(c), UNCHANGED eventVars
    PROVE  EInv'
<1>1. /\ (\A d \in Core : d = c) /\ c \notin ipi /\ ~ Leaving(c)'
      /\ at[c] \in InterruptsOn /\ at[c] \notin {"scan", "notify", "entry", "next", "save", "yield"}
      /\ at'[c] = "next" /\ Held[c] = current[c] /\ Held'[c] = NULL
  BY SchedulerAssumption DEF SingleCore, lapic_time_handler, Goto, Held, InterruptsOn, IInv, TypeOK, Leaving
<1>2. /\ current' = current /\ state' = state
      /\ yield_cause' = yield_cause
      /\ \A t \in Thread : InTable(t)' <=> InTable(t)
  BY DEF lapic_time_handler, InTable
<1>3. \A t \in Thread : t \in ReadyThreads' => t \in ReadyThreads \/ t = current[c]
  <2>1. CASE current[c] = Idle
    BY <2>1 DEF lapic_time_handler, ReadyThreads
  <2>2. CASE current[c] # Idle
    <3>1. current[c] \in Thread /\ current[c] \notin ReadyThreads
      BY <1>1, <2>2 DEF IInv, CoreInv, Executing, ThreadInOnePlace, InterruptsOn
    <3> QED
      BY <2>2, <3>1, ReadyAdd DEF lapic_time_handler
  <2> QED
    BY <2>1, <2>2
<1>4. \A t \in Thread : context'[t] = IF t = current[c] THEN at[c] ELSE context[t]
  BY SchedulerAssumption DEF lapic_time_handler, IInv, TypeOK
<1>5. current[c] \in Thread =>
         /\ WaitOf(c, current[c]) /\ state[current[c]] = "RUNNING" /\ at[c] \in {"run", "spin"}
  <2>1. ASSUME current[c] \in Thread
        PROVE  WaitOf(c, current[c]) /\ StopOf(c, current[c]) /\ at[c] # "idle"
    BY <2>1, SchedulerAssumption DEF EInv, CoreWaitInv, StopInv, IInv, CoreInv
  <2>2. ASSUME current[c] \in Thread
        PROVE  state[current[c]] = "RUNNING" /\ (at[c] = "halt" => yield_cause[current[c]] = "TERMINATE")
    BY <1>1, <2>1, <2>2 DEF StopOf, InHandler
  <2>3. ASSUME current[c] \in Thread
        PROVE  at[c] # "halt"
    BY <1>1, <2>2, <2>3, NotEnding DEF Leaving
  <2> QED
    BY <1>1, <2>1, <2>2, <2>3 DEF InterruptsOn
<1>6. WaitOf(c, current[c])' /\ StopOf(c, current[c])'
  BY <1>1 DEF WaitOf, StopOf, Outside, InHandler
<1>7. ASSUME NEW t \in Thread
      PROVE  /\ context'[t] = "halt" => yield_cause[t] = "TERMINATE"
             /\ state[t] # "BLOCKED"
             /\ state[t] = "WAITING" => Asleep(c, t)'
  <2>1. state[t] = "WAITING" => Asleep(c, t) /\ t # current[c]
    BY <1>5 DEF EInv, WaitingInv
  <2> QED
    BY <1>1, <1>2, <1>3, <1>4, <1>5, <2>1, SchedulerAssumption, EventFrame DEF Asleep, EInv, StopInv
<1>8. QueuedInv'
  <2>1. \A t \in Thread : Returner(t)' <=> Returner(t)
    BY <1>2, EventFrame DEF Returner
  <2>2. ASSUME NEW t \in Thread, t \in ReadyThreads'
        PROVE  GoesOn(t)'
    <3>1. CASE t = current[c]
      BY <1>1, <1>4, <1>5, <2>1, <2>2, <3>1, EventFrame DEF WaitOf, GoesOn, Outside
    <3>2. CASE t # current[c]
      BY <1>3, <1>4, <2>1, <2>2, <3>2, EventFrame DEF EInv, QueuedInv, Queued, GoesOn
    <3> QED
      BY <3>1, <3>2
  <2> QED
    BY <1>1, <1>2, <2>2, EventFrame DEF EInv, QueuedInv, Queued
<1> QED
  BY <1>1, <1>2, <1>6, <1>7, <1>8, EventStep

(* The IPI puts a thread that yields for an event to sleep.                *)
LEMMA IpiHandlerE ==
    ASSUME IInv, EInv, SingleCore, NEW c \in Core,
           lapic_ipi_handler(c), UNCHANGED eventVars
    PROVE  EInv'
<1>1. PICK t \in Thread : t = current[c]
  BY DEF lapic_ipi_handler, IInv, CoreInv, Executing
<1>2. /\ (\A d \in Core : d = c) /\ at[c] \in {"spin", "halt"} /\ c \in ipi /\ c \notin ipi'
      /\ at'[c] = "save" /\ frame'[c] = at[c] /\ Held[c] = t /\ Held'[c] = t
  BY <1>1 DEF SingleCore, lapic_ipi_handler, Goto, Held, IInv, TypeOK, CoreInv
<1>3. /\ current' = current /\ yield_cause' = yield_cause /\ context' = context
      /\ ReadyThreads' = ReadyThreads
      /\ \A u \in Thread : (InTable(u)' <=> InTable(u)) /\ (Queued(u)' => Queued(u))
  BY <1>2 DEF lapic_ipi_handler, InTable, ReadyThreads, Queued
<1>4. /\ \A u \in Thread \ {t} : state'[u] = state[u]
      /\ state'[t] = StateAfterYield(yield_cause[t], state[t])
  BY <1>1 DEF lapic_ipi_handler, IInv, TypeOK
<1>5. WaitOf(c, t) /\ StopOf(c, t) /\ yield_cause[t] # NoCause /\ t \notin ReadyThreads
  BY <1>1, <1>2 DEF EInv, CoreWaitInv, StopInv, IInv, CoreInv, ThreadInOnePlace
<1>6. /\ state[t] = "RUNNING" /\ Sleeper(t)
      /\ at[c] = "halt" => yield_cause[t] = "TERMINATE"
  BY <1>2, <1>5 DEF WaitOf, StopOf, Leaving, InHandler
<1>7. WaitOf(c, current[c])' /\ StopOf(c, current[c])'
  BY <1>1, <1>2, <1>3, <1>6 DEF WaitOf, StopOf, Leaving, Outside, InHandler
<1>8. state'[t] # "BLOCKED" /\ state'[t] # "UNUSED"
      /\ (state'[t] = "WAITING" => yield_cause[t] = "WAIT" /\ InWait(t))
  BY <1>4, <1>6 DEF StateAfterYield, Sleeper
<1>9. ASSUME NEW u \in Thread
      PROVE  /\ context'[u] = "halt" => yield_cause'[u] = "TERMINATE"
             /\ state'[u] # "BLOCKED"
             /\ state'[u] = "WAITING" => Asleep(c, u)'
  <2>1. CASE u = t
    BY <1>2, <1>3, <1>5, <1>8, <2>1, EventFrame DEF Asleep, EInv, StopInv
  <2>2. CASE u # t
    <3>1. state'[u] = "WAITING" => Asleep(c, u)
      BY <1>4, <2>2 DEF EInv, WaitingInv
    <3> QED
      BY <1>2, <1>3, <1>4, <2>2, <3>1, EventFrame DEF Asleep, EInv, StopInv
  <2> QED
    BY <2>1, <2>2
<1>10. QueuedInv'
  <2>1. \A u \in Thread : GoesOn(u)' <=> GoesOn(u)
    BY <1>3, EventFrame DEF GoesOn, Returner
  <2>2. \A u \in Thread : state'[u] = "UNUSED" => state[u] = "UNUSED"
    BY <1>4, <1>8
  <2> QED
    BY <1>3, <2>1, <2>2, EventFrame DEF EInv, QueuedInv
<1> QED
  BY <1>2, <1>7, <1>9, <1>10, EventStep

(* The thread that went to sleep is saved inside its yield.                *)
LEMMA SaveContextE ==
    ASSUME IInv, EInv, SingleCore, NEW c \in Core,
           save_context(c), UNCHANGED eventVars
    PROVE  EInv'
<1>1. PICK t \in Thread : t = current[c]
  BY DEF save_context, IInv, CoreInv, Executing
<1>2. /\ (\A d \in Core : d = c) /\ at[c] = "save" /\ ~ Leaving(c)' /\ at'[c] = "next"
      /\ Held[c] = t /\ Held'[c] = NULL /\ t \notin ReadyThreads
  BY <1>1 DEF SingleCore, save_context, Goto, Held, IInv, TypeOK, CoreInv, ThreadInOnePlace, Leaving
<1>3. /\ current' = current /\ yield_cause' = yield_cause /\ state' = state
      /\ ReadyThreads' = ReadyThreads
      /\ \A u \in Thread : (InTable(u)' <=> InTable(u)) /\ (Queued(u)' => u \in ReadyThreads)
  BY <1>2 DEF save_context, InTable, ReadyThreads, Queued
<1>4. \A u \in Thread : context'[u] = IF u = t THEN frame[c] ELSE context[u]
  BY <1>1 DEF save_context, IInv, TypeOK
<1>5. frame[c] \in {"spin", "halt"} /\ (frame[c] = "halt" => yield_cause[t] = "TERMINATE")
  BY <1>1, <1>2 DEF EInv, StopInv, StopOf
<1>6. WaitOf(c, current[c])' /\ StopOf(c, current[c])'
  BY <1>2 DEF WaitOf, StopOf, Outside, InHandler
<1>7. ASSUME NEW u \in Thread
      PROVE  /\ context'[u] = "halt" => yield_cause'[u] = "TERMINATE"
             /\ state'[u] # "BLOCKED"
             /\ state'[u] = "WAITING" => Asleep(c, u)'
  <2>1. state[u] = "WAITING" => Asleep(c, u)
    BY DEF EInv, WaitingInv
  <2>2. CASE u = t
    BY <1>2, <1>3, <1>4, <1>5, <2>1, <2>2, SchedulerAssumption, EventFrame DEF Asleep, EInv, StopInv
  <2>3. CASE u # t
    BY <1>2, <1>3, <1>4, <2>1, <2>3, SchedulerAssumption, EventFrame DEF Asleep, EInv, StopInv
  <2> QED
    BY <2>2, <2>3
<1>8. QueuedInv'
  <2>1. \A u \in Thread \ {t} : GoesOn(u)' <=> GoesOn(u)
    BY <1>3, <1>4, EventFrame DEF GoesOn, Returner
  <2> QED
    BY <1>2, <1>3, <2>1, EventFrame DEF EInv, QueuedInv, Queued
<1> QED
  BY <1>2, <1>6, <1>7, <1>8, EventStep

(* The thread popped stays queued in the sense of QueuedInv.               *)
LEMMA NextThreadE ==
    ASSUME IInv, EInv, SingleCore, NEW c \in Core,
           schedule_next_thread(c), UNCHANGED eventVars
    PROVE  EInv'
<1>1. /\ (\A d \in Core : d = c) /\ at[c] = "next" /\ ~ Leaving(c)'
      /\ at'[c] = "entry" /\ Held[c] = NULL /\ Held'[c] = next'[c]
  BY DEF SingleCore, schedule_next_thread, Goto, Held, IInv, TypeOK, CoreInv, Leaving
<1>2. /\ current' = current /\ state' = state
      /\ yield_cause' = yield_cause /\ context' = context
      /\ \A u \in Thread : InTable(u)' <=> InTable(u)
  BY DEF schedule_next_thread, threadVars, InTable
<1>3. /\ ReadyThreads' \subseteq ReadyThreads
      /\ next'[c] \in Thread => next'[c] \in ReadyThreads
  <2>1. /\ ReadyThreads = Elems(ready) /\ ReadyThreads' = Elems(ready')
        /\ Distinct(ready) /\ ready \in Seq(Thread)
    BY DEF ReadyThreads, Elems, IInv, ThreadInOnePlace, Distinct, TypeOK
  <2>2. CASE ready = <<>>
    BY <2>1, <2>2, SchedulerAssumption DEF schedule_next_thread, pop_thread_from_queue, IInv, TypeOK
  <2>3. CASE ready # <<>>
    BY <2>1, <2>3, PopHead DEF schedule_next_thread, pop_thread_from_queue, IInv, TypeOK
  <2> QED
    BY <2>2, <2>3
<1>4. WaitOf(c, current[c])' /\ StopOf(c, current[c])'
  BY <1>1 DEF WaitOf, StopOf, Outside, InHandler
<1>5. ASSUME NEW u \in Thread
      PROVE  /\ context'[u] = "halt" => yield_cause'[u] = "TERMINATE"
             /\ state'[u] # "BLOCKED"
             /\ state'[u] = "WAITING" => Asleep(c, u)'
  <2>1. state[u] = "WAITING" => Asleep(c, u)
    BY DEF EInv, WaitingInv
  <2> QED
    BY <1>1, <1>2, <1>3, <2>1, SchedulerAssumption, EventFrame DEF Asleep, EInv, StopInv
<1>6. QueuedInv'
  <2>1. \A u \in Thread : GoesOn(u)' <=> GoesOn(u)
    BY <1>2, EventFrame DEF GoesOn, Returner
  <2>2. \A u \in Thread : Queued(u)' => u \in ReadyThreads
    BY <1>1, <1>3 DEF Queued
  <2> QED
    BY <1>2, <2>1, <2>2, EventFrame DEF EInv, QueuedInv, Queued
<1> QED
  BY <1>1, <1>4, <1>5, <1>6, EventStep

(* The thread entered resumes its code, or its yield, notified if it waits *)
(* for an event.                                                           *)
LEMMA ThreadEntryE ==
    ASSUME IInv, EInv, SingleCore, NEW c \in Core,
           thread_entry(c), UNCHANGED eventVars
    PROVE  EInv'
<1>1. /\ (\A d \in Core : d = c) /\ at[c] = "entry" /\ c \notin ipi /\ ipi' = ipi
      /\ current'[c] = next[c] /\ Held[c] = next[c] /\ next[c] \in Thread \cup {Idle}
  BY DEF SingleCore, thread_entry, Held, IInv, TypeOK, CoreInv
<1>2. \/ next[c] = Idle /\ at'[c] = "idle" /\ state' = state
      \/ /\ next[c] \in Thread /\ at'[c] = context[next[c]]
         /\ at'[c] \in {"run", "spin", "halt"}
         /\ state' = [state EXCEPT ![next[c]] = "RUNNING"]
  <2>1. next[c] \in Thread => context[next[c]] \in {"run", "spin", "halt"}
    BY DEF IInv, TypeOK, ThreadInv, InterruptsOn
  <2>2. at \in [Core -> Place] /\ (next[c] = Idle => next[c] \notin Thread)
    BY SchedulerAssumption DEF IInv, TypeOK
  <2> QED
    BY <1>1, <2>1, <2>2 DEF thread_entry, Goto
<1>3. at'[c] \in {"idle", "run", "spin", "halt"} /\ ~ Leaving(c)' /\ Held'[c] = next[c]
  BY <1>1, <1>2 DEF Leaving, Held
<1>4. /\ yield_cause' = yield_cause /\ context' = context
      /\ ReadyThreads' = ReadyThreads
      /\ \A u \in Thread : (InTable(u)' <=> InTable(u)) /\ (Queued(u)' => Queued(u))
  BY <1>1, <1>3 DEF thread_entry, InTable, ReadyThreads, Queued
<1>5. /\ \A u \in Thread \ {next[c]} : state'[u] = state[u]
      /\ next[c] \in Thread => state'[next[c]] = "RUNNING" /\ Queued(next[c])
  BY <1>1, <1>2, SchedulerAssumption DEF IInv, TypeOK, Queued
<1>6. current'[c] \in Thread => WaitOf(c, current[c])' /\ StopOf(c, current[c])'
  <2> SUFFICES ASSUME next[c] \in Thread
               PROVE  WaitOf(c, current[c])' /\ StopOf(c, current[c])'
    BY <1>1
  <2>1. /\ at'[c] = context[next[c]] /\ GoesOn(next[c])
        /\ context[next[c]] = "halt" => yield_cause[next[c]] = "TERMINATE"
    BY <1>2, <1>5, SchedulerAssumption DEF EInv, QueuedInv, StopInv
  <2>2. StopOf(c, current[c])'
    BY <1>1, <1>3, <1>4, <1>5, <2>1 DEF StopOf
  <2>3. WaitOf(c, current[c])'
    BY <1>1, <1>3, <1>4, <2>1, EventFrame DEF WaitOf, GoesOn, Returner, Outside
  <2> QED
    BY <2>2, <2>3
<1>7. ASSUME NEW u \in Thread
      PROVE  /\ context'[u] = "halt" => yield_cause'[u] = "TERMINATE"
             /\ state'[u] # "BLOCKED"
             /\ state'[u] = "WAITING" => Asleep(c, u)'
  <2>1. state'[u] = "WAITING" => Asleep(c, u) /\ u # next[c]
    BY <1>5 DEF EInv, WaitingInv
  <2> QED
    BY <1>1, <1>3, <1>4, <1>5, <2>1, EventFrame DEF Asleep, EInv, StopInv
<1>8. QueuedInv'
  <2>1. \A u \in Thread : GoesOn(u)' <=> GoesOn(u)
    BY <1>4, EventFrame DEF GoesOn, Returner
  <2> QED
    BY <1>4, <1>5, <2>1, EventFrame DEF EInv, QueuedInv
<1> QED
  BY <1>1, <1>3, <1>6, <1>7, <1>8, EventStep

(* Into the yield, and out of it: a thread that yielded for an event goes  *)
(* on to remove_listener.                                                  *)
LEMMA YieldE ==
    ASSUME IInv, EInv, SingleCore, NEW c \in Core, UNCHANGED eventVars,
           schedule_thread_yield(c) \/ yield_return(c)
    PROVE  EInv'
<1>1. PICK t \in Thread : t = current[c]
  BY DEF schedule_thread_yield, yield_return, IInv, CoreInv, Executing
<1>2. /\ (\A d \in Core : d = c) /\ Held[c] = t /\ Held'[c] = t
      /\ at[c] \in {"yield", "spin"} /\ at'[c] \in {"spin", "halt", "woken", "run"}
  BY <1>1 DEF SingleCore, schedule_thread_yield, yield_return, Goto, Held, IInv, TypeOK
<1>3. /\ current' = current /\ state' = state
      /\ yield_cause' = yield_cause /\ context' = context
      /\ ReadyThreads' = ReadyThreads
      /\ \A u \in Thread : (InTable(u)' <=> InTable(u)) /\ (Queued(u)' => Queued(u))
  BY <1>2 DEF schedule_thread_yield, yield_return, threadVars, InTable, ReadyThreads, Queued
<1>4. \/ /\ Leaving(c) /\ c \in ipi' /\ at'[c] \in {"spin", "halt"}
         /\ at'[c] = "halt" => yield_cause[t] = "TERMINATE"
      \/ /\ at[c] = "spin" /\ c \notin ipi /\ ~ Leaving(c)'
         /\ at'[c] = IF yield_cause[t] = "WAIT" THEN "woken" ELSE "run"
  BY <1>1 DEF schedule_thread_yield, yield_return, Goto, Leaving, IInv, TypeOK
<1>5. WaitOf(c, t) /\ state[t] = "RUNNING"
  BY <1>1, <1>2 DEF EInv, CoreWaitInv, StopInv, StopOf, InHandler
<1>6. WaitOf(c, current[c])'
  <2>1. CASE Leaving(c) /\ c \in ipi' /\ at'[c] \in {"spin", "halt"}
    BY <1>1, <1>3, <1>5, <2>1, EventFrame DEF WaitOf, Outside, Sleeper
  <2>2. CASE /\ at[c] = "spin" /\ c \notin ipi /\ ~ Leaving(c)'
             /\ at'[c] = IF yield_cause[t] = "WAIT" THEN "woken" ELSE "run"
    <3>1. Returner(t)
      BY <1>5, <2>2 DEF WaitOf
    <3> QED
      BY <1>1, <1>3, <2>2, <3>1, EventFrame DEF WaitOf, Returner, Outside
  <2> QED
    BY <1>4, <2>1, <2>2
<1>7. StopOf(c, current[c])'
  BY <1>1, <1>2, <1>3, <1>4, <1>5 DEF StopOf
<1>8. ASSUME NEW u \in Thread
      PROVE  /\ context'[u] = "halt" => yield_cause'[u] = "TERMINATE"
             /\ state'[u] # "BLOCKED"
             /\ state'[u] = "WAITING" => Asleep(c, u)'
  <2>1. state[u] = "WAITING" => Asleep(c, u) /\ u # t
    BY <1>5 DEF EInv, WaitingInv
  <2> QED
    BY <1>2, <1>3, <2>1, EventFrame DEF Asleep, EInv, StopInv
<1>9. QueuedInv'
  <2>1. \A u \in Thread : GoesOn(u)' <=> GoesOn(u)
    BY <1>3, EventFrame DEF GoesOn, Returner
  <2> QED
    BY <1>3, <2>1, EventFrame DEF EInv, QueuedInv
<1> QED
  BY <1>2, <1>6, <1>7, <1>8, <1>9, EventStep

(* A thread is queued by the running one: a new one, or a joiner.          *)
LEMMA QueueE ==
    ASSUME IInv, EInv, SingleCore, NEW c \in Core, UNCHANGED eventVars,
           at[c] \in {"run", "wake"}, UNCHANGED coreVars,
           NEW u \in Thread, u \notin ReadyThreads, Held[c] # u,
           wait_event[u] = NULL, yield_cause[u] # "WAIT",
           ready' = schedule_add_thread(ready, u),
           state' \in [Thread -> ThreadState],
           \A v \in Thread \ {u} : state'[v] = state[v],
           state'[u] \in {"CREATED", "RUNNABLE"},
           \A v \in Thread : InTable(v)' => InTable(v),
           UNCHANGED <<yield_cause, context>>
    PROVE  EInv'
<1>1. /\ (\A d \in Core : d = c) /\ ~ Leaving(c)'
      /\ current' = current /\ at' = at /\ current[c] \in Thread
      /\ Held'[c] = current[c] /\ Held[c] = current[c] /\ current[c] # u
      /\ at[c] \in Outside /\ at[c] \notin InHandler
      /\ at[c] \notin {"attach", "spin", "woken", "halt", "save", "entry"}
  BY DEF SingleCore, IInv, CoreInv, Executing, Leaving, Held, coreVars, Outside, InHandler
<1>2. ReadyThreads' = ReadyThreads \cup {u}
  BY ReadyAdd
<1>3. WaitOf(c, current[c]) /\ StopOf(c, current[c])
  BY <1>1 DEF EInv, CoreWaitInv, StopInv
<1>4. WaitOf(c, current[c])' /\ StopOf(c, current[c])'
  BY <1>1, <1>3, EventFrame DEF WaitOf, StopOf
<1>5. ASSUME NEW v \in Thread
      PROVE  /\ context'[v] = "halt" => yield_cause'[v] = "TERMINATE"
             /\ state'[v] # "BLOCKED"
             /\ state'[v] = "WAITING" => Asleep(c, v)'
  <2>1. state'[v] = "WAITING" => Asleep(c, v) /\ v # u /\ v # current[c]
    BY <1>1, <1>3 DEF EInv, WaitingInv, StopOf
  <2> QED
    BY <1>1, <1>2, <2>1, EventFrame DEF Asleep, EInv, StopInv
<1>6. QueuedInv'
  <2>1. \A v \in Thread : Queued(v)' => Queued(v) \/ v = u
    BY <1>1, <1>2 DEF Queued
  <2>2. GoesOn(u) /\ \A v \in Thread : GoesOn(v)' <=> GoesOn(v)
    BY EventFrame DEF GoesOn, Returner
  <2>3. \A v \in Thread : state'[v] = "UNUSED" => state[v] = "UNUSED"
    OBVIOUS
  <2> QED
    BY <2>1, <2>2, <2>3, EventFrame DEF EInv, QueuedInv
<1> QED
  BY <1>1, <1>4, <1>5, <1>6, EventStep

(* A thread just created waits for nothing.                                *)
LEMMA SpawnE ==
    ASSUME IInv, JInv, EInv, SingleCore, NEW c \in Core, NEW u \in Thread,
           spawn(c, u), UNCHANGED eventVars
    PROVE  EInv'
<1>1. /\ at[c] = "run" /\ UNCHANGED coreVars /\ state[u] = "UNUSED"
      /\ ready' = schedule_add_thread(ready, u)
      /\ state' = [state EXCEPT ![u] = "CREATED"]
      /\ UNCHANGED <<joined, yield_cause, context>>
  BY DEF spawn, MayCall
<1>2. u \notin ReadyThreads /\ Held[c] # u
  BY <1>1 DEF IInv, ThreadInv
<1>3. wait_event[u] = NULL /\ yield_cause[u] # "WAIT"
  BY <1>1 DEF EInv, QueuedInv, JInv, ExitInv, NoCause
<1>4. /\ state' \in [Thread -> ThreadState]
      /\ \A v \in Thread \ {u} : state'[v] = state[v]
      /\ state'[u] \in {"CREATED", "RUNNABLE"}
  BY <1>1 DEF IInv, TypeOK, ThreadState
<1>5. \A v \in Thread : InTable(v)' => InTable(v)
  BY <1>1 DEF InTable
<1> QED
  BY <1>1, <1>2, <1>3, <1>4, <1>5, QueueE

(* A joiner waits for no event.                                            *)
LEMMA WakeJoinedE ==
    ASSUME IInv, JInv, EInv, SingleCore, NEW c \in Core,
           wake_joined(c), UNCHANGED eventVars
    PROVE  EInv'
<1> USE SchedulerAssumption
<1>1. PICK i \in JoinersOf(current[c]) :
         /\ state' = [state EXCEPT ![joined[i]] = "RUNNABLE"]
         /\ ready' = schedule_add_thread(ready, joined[i])
         /\ joined' = [joined EXCEPT ![i] = NULL]
  BY DEF wake_joined
<1>2. at[c] = "wake" /\ UNCHANGED coreVars /\ UNCHANGED <<yield_cause, context>>
  BY DEF wake_joined
<1>3. PICK u \in Thread : u = joined[i] /\ i \in Slot
  BY <1>1 DEF JoinersOf, IInv, TypeOK
<1>4. u \notin ReadyThreads /\ Held[c] # u
  BY <1>2, <1>3 DEF IInv, JoinInv, CoreInv
<1>5. InTable(u) /\ wait_event[u] = NULL /\ yield_cause[u] # "WAIT"
  BY <1>3 DEF InTable, EInv, QueuedInv, JInv, TableInv
<1>6. /\ state' \in [Thread -> ThreadState]
      /\ \A v \in Thread \ {u} : state'[v] = state[v]
      /\ state'[u] \in {"CREATED", "RUNNABLE"}
  BY <1>1, <1>3 DEF IInv, TypeOK, ThreadState
<1>7. \A v \in Thread : InTable(v)' => InTable(v)
  BY <1>1, <1>3 DEF InTable, IInv, TypeOK
<1>8. ready' = schedule_add_thread(ready, u)
  BY <1>1, <1>3
<1> QED
  BY <1>2, <1>4, <1>5, <1>6, <1>7, <1>8, QueueE

(* A call that ends in a yield for a join or for good.                     *)
LEMMA LeaveE ==
    ASSUME IInv, JInv, EInv, SingleCore, NEW c \in Core, UNCHANGED eventVars,
           at[c] \in {"join", "wake"}, at'[c] = "yield", ipi' = ipi,
           NEW cause \in {"JOIN", "TERMINATE"},
           yield_cause' = [yield_cause EXCEPT ![current[c]] = cause],
           \A v \in Thread : InTable(v)' => InTable(v) \/ v = current[c],
           UNCHANGED <<current, ready, state, context>>
    PROVE  EInv'
<1>1. PICK t \in Thread : t = current[c]
  BY DEF IInv, CoreInv, Executing
<1>2. /\ (\A d \in Core : d = c) /\ c \notin ipi /\ ~ Leaving(c)
      /\ Held[c] = t /\ Held'[c] = t /\ t \notin ReadyThreads
  BY <1>1 DEF SingleCore, IInv, CoreInv, Held, Leaving, ThreadInOnePlace
<1>3. /\ \A u \in Thread \ {t} : yield_cause'[u] = yield_cause[u]
      /\ yield_cause'[t] = cause
  BY <1>1 DEF IInv, TypeOK
<1>4. /\ ReadyThreads' = ReadyThreads
      /\ \A u \in Thread : Queued(u)' => u \in ReadyThreads
  BY <1>2 DEF ReadyThreads, Queued
<1>5. WaitOf(c, t) /\ state[t] = "RUNNING"
  BY <1>1 DEF EInv, CoreWaitInv, StopInv, StopOf, InHandler
<1>6. wait_event[t] = NULL /\ yield_cause[t] # "TERMINATE"
  BY <1>2, <1>5, NotEnding DEF WaitOf, Outside
<1>7. WaitOf(c, current[c])' /\ StopOf(c, current[c])'
  BY <1>1, <1>2, <1>3, <1>5, <1>6, EventFrame DEF WaitOf, Sleeper, StopOf, Outside
<1>8. ASSUME NEW u \in Thread
      PROVE  /\ context'[u] = "halt" => yield_cause'[u] = "TERMINATE"
             /\ state'[u] # "BLOCKED"
             /\ state'[u] = "WAITING" => Asleep(c, u)'
  <2>1. state[u] = "WAITING" => Asleep(c, u) /\ u # t
    BY <1>5 DEF EInv, WaitingInv
  <2> QED
    BY <1>2, <1>3, <1>4, <1>6, <2>1, EventFrame DEF Asleep, EInv, StopInv
<1>9. QueuedInv'
  <2>1. \A u \in Thread \ {t} : GoesOn(u)' <=> GoesOn(u)
    BY <1>3, EventFrame DEF GoesOn, Returner
  <2> QED
    BY <1>1, <1>2, <1>4, <1>6, <2>1, EventFrame DEF EInv, QueuedInv, Queued
<1> QED
  BY <1>2, <1>7, <1>8, <1>9, EventStep

(* Every step of the scheduler.                                            *)
LEMMA StepEInv ==
    ASSUME IInv, JInv, EInv, SingleCore, NEW c \in Core, Step(c), UNCHANGED eventVars
    PROVE  EInv'
<1>1. CASE Handler(c) \/ lapic_time_handler(c)
  BY <1>1, TimeHandlerE, IpiHandlerE, SaveContextE, NextThreadE, ThreadEntryE DEF Handler
<1>2. CASE join_locked(c)
  <2>1. /\ at[c] = "join" /\ ipi' = ipi /\ UNCHANGED <<current, ready, state, context>>
    BY <1>2 DEF join_locked
  <2>2. CASE state[join_thread[current[c]]] = "ZOMBIE"
    <3>1. at'[c] = "run" /\ UNCHANGED <<joined, yield_cause>>
      BY <1>2, <2>2 DEF join_locked, Goto, IInv, TypeOK
    <3> QED
      BY <2>1, <3>1, QuietEvents
  <2>3. CASE state[join_thread[current[c]]] # "ZOMBIE"
    <3>1. /\ at'[c] = "yield"
          /\ yield_cause' = [yield_cause EXCEPT ![current[c]] = "JOIN"]
          /\ EnterJoined(current[c])
      BY <1>2, <2>3 DEF join_locked, Goto, IInv, TypeOK
    <3>2. \A v \in Thread : InTable(v)' => InTable(v) \/ v = current[c]
      BY <3>1 DEF EnterJoined, InTable, IInv, TypeOK
    <3> QED
      BY <2>1, <3>1, <3>2, LeaveE
  <2> QED
    BY <2>2, <2>3
<1>3. CASE terminate_yield(c)
  <2>1. /\ at[c] = "wake" /\ ipi' = ipi /\ at'[c] = "yield"
        /\ yield_cause' = [yield_cause EXCEPT ![current[c]] = "TERMINATE"]
        /\ UNCHANGED <<current, ready, state, context, joined>>
    BY <1>3 DEF terminate_yield, Goto, IInv, TypeOK
  <2>2. \A v \in Thread : InTable(v)' => InTable(v)
    BY <2>1 DEF InTable
  <2> QED
    BY <2>1, <2>2, LeaveE
<1>4. CASE \/ terminate_locked(c) \/ schedule_thread_terminate(c)
           \/ \E u \in Thread : schedule_thread_join(c, u)
  <2>1. /\ at[c] \in {"run", "exit"} /\ at'[c] \in {"exit", "wake", "join"} /\ ipi' = ipi
        /\ UNCHANGED <<current, ready, joined, state, yield_cause, context>>
    BY <1>4 DEF terminate_locked, schedule_thread_terminate, schedule_thread_join,
       MayCall, Goto, IInv, TypeOK, threadVars
  <2> QED
    BY <2>1, QuietEvents
<1>5. CASE InCall(c)
  BY <1>2, <1>3, <1>4, <1>5, YieldE, WakeJoinedE DEF InCall
<1>6. CASE Call(c)
  BY <1>4, <1>6, SpawnE DEF Call
<1> QED
  BY <1>1, <1>5, <1>6 DEF Step

-----------------------------------------------------------------------------
(***************************************************************************)
(* The steps of event_wait and event_signal.                               *)
(***************************************************************************)

(* A step of event_wait or event_signal that changes neither the ready     *)
(* list nor a thread's control block, up to the event fields.              *)
EventPlace == {"run", "attach", "woken", "lock", "scan", "notify"}
Quiet(c) == /\ at[c] \in EventPlace
            /\ \E p \in EventPlace : Goto(c, p)
            /\ UNCHANGED <<current, next, frame, ipi, ready, joined, joined_lock, threadVars>>

(* Such a step keeps the scheduler's invariants.                           *)
LEMMA QuietSchedule ==
    ASSUME IInv, JInv, SingleCore, NEW c \in Core, Quiet(c)
    PROVE  /\ IInv' /\ JInv'
           /\ (\A d \in Core : d = c) /\ c \notin ipi /\ ~ Leaving(c) /\ ~ Leaving(c)'
           /\ current[c] \in Thread /\ Held[c] = current[c] /\ Held'[c] = current[c]
           /\ ReadyThreads' = ReadyThreads
           /\ \A t \in Thread : /\ InTable(t)' <=> InTable(t)
                                /\ Queued(t)' => t \in ReadyThreads
           /\ current[c] \notin ReadyThreads /\ ~ InTable(current[c])
           /\ at[c] \in EventPlace /\ at'[c] \in EventPlace
           /\ UNCHANGED <<current, state, yield_cause, context>>
<1>1. PICK p \in EventPlace : Goto(c, p)
  BY DEF Quiet
<1>2. /\ Executing(c) /\ LocalStep(c) /\ Held' = Held /\ at[c] # "save"
      /\ current[c] \in Thread /\ c \notin ipi /\ ipi' = ipi
      /\ at[c] # "yield" /\ at'[c] = p
  BY <1>1, ZenonT(40) DEF Quiet, EventPlace, Goto, LocalStep, Held, IInv, CoreInv, Executing, TypeOK
<1>3. TypeOK'
  BY <1>1, <1>2 DEF IInv, Quiet, threadVars, TypeOK, Goto, Place, EventPlace, InterruptsOn,
     CallPlace
<1>4. CoreInv'
  BY <1>1, <1>2, QuietCore DEF Quiet, threadVars, EventPlace
<1>5. YieldInv' /\ JoinInv'
  BY <1>1, <1>2, QuietYield, QuietJoined DEF Quiet, EventPlace, threadVars
<1>6. ThreadInv' /\ ThreadInOnePlace' /\ NoThreadLost'
  BY <1>2, QuietThreads DEF Quiet, threadVars
<1>7. IInv'
  BY <1>3, <1>4, <1>5, <1>6 DEF IInv
<1>8. JInv'
  BY <1>1, <1>2, QuietJoins DEF Quiet, EventPlace
<1>9. /\ (\A d \in Core : d = c) /\ ~ Leaving(c) /\ ~ Leaving(c)'
      /\ ReadyThreads' = ReadyThreads
      /\ \A t \in Thread : /\ InTable(t)' <=> InTable(t)
                           /\ Queued(t)' => t \in ReadyThreads
  BY <1>1, <1>2 DEF SingleCore, Leaving, Quiet, EventPlace, ReadyThreads, InTable, Queued
<1>10. Held[c] = current[c] /\ Held'[c] = current[c]
  BY <1>2 DEF Held, Executing
<1>11. current[c] \notin ReadyThreads /\ ~ InTable(current[c])
  BY <1>2, <1>10, SchedulerAssumption DEF IInv, ThreadInOnePlace, JoinInv, InTable
<1> QED
  BY <1>1, <1>2, <1>7, <1>8, <1>9, <1>10, <1>11 DEF Quiet, threadVars

(* What is to be shown of such a step, if it changes nothing in the wait   *)
(* of another thread.                                                      *)
LEMMA QuietStep ==
    ASSUME IInv, JInv, EInv, SingleCore, NEW c \in Core, Quiet(c),
           \A t \in Thread \ {current[c]} :
              /\ wait_event'[t] = wait_event[t]
              /\ (InWait(t)' <=> InWait(t)) /\ (Woken(t)' <=> Woken(t)),
           EventTypes', ListInv', WaitOf(c, current[c])', SignalOf(c)'
    PROVE  IInv' /\ JInv' /\ EInv'
<1>1. /\ IInv' /\ JInv' /\ (\A d \in Core : d = c)
      /\ current[c] \in Thread /\ Held[c] = current[c] /\ Held'[c] = current[c]
      /\ ReadyThreads' = ReadyThreads
      /\ \A t \in Thread : /\ InTable(t)' <=> InTable(t)
                           /\ Queued(t)' => t \in ReadyThreads
      /\ current[c] \notin ReadyThreads /\ ~ InTable(current[c])
      /\ UNCHANGED <<current, state, yield_cause, context>>
      /\ at[c] \in EventPlace /\ at'[c] \in EventPlace
  BY QuietSchedule
<1>2. state[current[c]] = "RUNNING"
  BY <1>1 DEF EInv, StopInv, StopOf, EventPlace, InHandler
<1>3. StopOf(c, current[c])'
  BY <1>1, <1>2 DEF StopOf, EventPlace
<1>4. \A t \in Thread : /\ context'[t] = "halt" => yield_cause'[t] = "TERMINATE"
                        /\ state'[t] # "BLOCKED"
                        /\ state'[t] = "WAITING" => Asleep(c, t)'
  <2>1. ASSUME NEW t \in Thread, state[t] = "WAITING"
        PROVE  Asleep(c, t)'
    <3>1. Asleep(c, t) /\ t # current[c]
      BY <1>2, <2>1 DEF EInv, WaitingInv
    <3>2. t \in Thread \ {current[c]}
      BY <3>1
    <3> QED
      BY <1>1, <3>1, <3>2 DEF Asleep
  <2> QED
    BY <1>1, <2>1 DEF EInv, StopInv
<1>5. QueuedInv'
  <2>1. \A t \in Thread \ {current[c]} : GoesOn(t)' <=> GoesOn(t)
    BY <1>1 DEF GoesOn, Returner
  <2> QED
    BY <1>1, <1>2, <2>1 DEF EInv, QueuedInv, Queued
<1>6. current' = current
  BY <1>1
<1> QED
  BY <1>1, <1>3, <1>4, <1>5, <1>6, OneCoreStep

(* A step of event_signal that changes no table and no wait.               *)
LEMMA QuietSignal ==
    ASSUME IInv, JInv, EInv, SingleCore, NEW c \in Core, Quiet(c),
           at[c] \in {"run", "lock", "scan", "notify"},
           at'[c] \in {"run", "lock", "scan", "notify"},
           UNCHANGED <<listeners, received_event, wait_event>>,
           EventTypes', SignalOf(c)'
    PROVE  IInv' /\ JInv' /\ EInv'
<1>1. ListInv'
  BY SMT DEF EInv, ListInv
<1>2. \A t \in Thread : (InWait(t)' <=> InWait(t)) /\ (Woken(t)' <=> Woken(t))
  BY DEF InWait, Woken, SlotsOf
<1>3. current' = current /\ current[c] \in Thread /\ ~ Leaving(c)'
  BY QuietSchedule
<1>4. wait_event[current[c]] = NULL
  BY <1>3 DEF EInv, CoreWaitInv, WaitOf, Outside
<1>5. WaitOf(c, current[c])'
  BY <1>3, <1>4 DEF WaitOf
<1> QED
  BY <1>1, <1>2, <1>5, QuietStep

(* event_signal: the call, its lock and its scan.                          *)
LEMMA SignalCallE ==
    ASSUME IInv, JInv, EInv, SingleCore, NEW c \in Core, NEW e \in EventObject,
           event_signal(c, e)
    PROVE  IInv' /\ JInv' /\ EInv'
<1>1. /\ at[c] = "run" /\ at'[c] = "lock" /\ Quiet(c)
      /\ UNCHANGED <<listeners, event_lock, received_event, wait_event, sig_slot>>
      /\ sig_event' = [sig_event EXCEPT ![c] = e]
  BY DEF event_signal, MayCall, Goto, Quiet, EventPlace, IInv, TypeOK
<1>2. EventTypes' /\ SignalOf(c)'
  BY <1>1 DEF EInv, EventTypes, SignalInv, SignalOf
<1> QED
  BY <1>1, <1>2, QuietSignal

(* event_signal with the lock starts its scan at the first slot.           *)
LEMMA SignalLockedE ==
    ASSUME IInv, JInv, EInv, SingleCore, NEW c \in Core, signal_locked(c)
    PROVE  IInv' /\ JInv' /\ EInv'
<1>1. /\ at[c] = "lock" /\ at'[c] \in {"run", "scan"} /\ Quiet(c)
      /\ UNCHANGED <<listeners, received_event, wait_event, sig_slot>>
      /\ at'[c] = "scan" => sig_event' = sig_event
  BY DEF signal_locked, Goto, Quiet, EventPlace, IInv, TypeOK
<1>2. sig_event[c] \in EventObject /\ sig_slot[c] = 1
  BY <1>1 DEF EInv, SignalInv, SignalOf
<1>3. EventTypes'
  BY <1>1, <1>2 DEF EInv, EventTypes, signal_locked
<1>4. SignalOf(c)'
  <2>1. \A i \in ListenSlot : ~ (i < 1)
    BY EventAssumption, SMT DEF ListenSlot
  <2> QED
    BY <1>1, <1>2, <2>1 DEF SignalOf, Passed
<1> QED
  BY <1>1, <1>3, <1>4, QuietSignal

(* The scan passes an empty slot, or has found a listener that is WAITING: *)
(* nobody is BLOCKED.                                                      *)
LEMMA SignalScanE ==
    ASSUME IInv, JInv, EInv, SingleCore, NEW c \in Core, signal_scan(c)
    PROVE  IInv' /\ JInv' /\ EInv'
<1>1. /\ at[c] = "scan" /\ sig_slot[c] <= ListenSlots /\ Quiet(c)
      /\ UNCHANGED <<listeners, event_lock, received_event, wait_event, sig_event>>
      /\ state' = state
  BY DEF signal_scan, Goto, Quiet, EventPlace, IInv, TypeOK, threadVars
<1>2. sig_event[c] \in EventObject /\ Passed(c) /\ sig_slot[c] \in 1 .. ListenSlots + 1
  BY <1>1 DEF EInv, SignalInv, SignalOf, EventTypes
<1>3. /\ sig_slot[c] \in ListenSlot /\ sig_slot[c] + 1 \in 1 .. ListenSlots + 1
      /\ \A i \in ListenSlot : i < sig_slot[c] + 1 => i < sig_slot[c] \/ i = sig_slot[c]
  BY <1>1, <1>2, EventAssumption, SMTT(30) DEF ListenSlot
<1>4. Listener(c) \in Thread \cup {NULL}
  <2>1. \A e \in EventObject, i \in ListenSlot : listeners[e][i] \in Thread \cup {NULL}
    BY ZenonT(40) DEF EInv, EventTypes
  <2> QED
    BY <1>2, <1>3, <2>1 DEF Listener
<1>5. CASE Listener(c) = NULL
  <2>1. /\ at'[c] = "scan" /\ sig_slot' = [sig_slot EXCEPT ![c] = sig_slot[c] + 1]
    BY <1>1, <1>5 DEF signal_scan
  <2>2. EventTypes' /\ sig_slot'[c] = sig_slot[c] + 1
    BY <1>1, <1>3, <2>1 DEF EInv, EventTypes
  <2>3. Passed(c)'
    <3>1. ASSUME NEW i \in ListenSlot, NEW t \in Thread, i < sig_slot[c] + 1,
                 listeners[sig_event[c]][i] = t
          PROVE  state[t] # "WAITING"
      BY <1>2, <1>3, <1>5, <3>1, SchedulerAssumption DEF Listener, Passed
    <3> QED
      BY <1>1, <2>2, <3>1 DEF Passed
  <2>4. SignalOf(c)'
    BY <1>1, <1>2, <2>1, <2>3 DEF SignalOf
  <2> QED
    BY <1>1, <2>1, <2>2, <2>4, QuietSignal
<1>6. CASE Listener(c) # NULL
  <2>1. at'[c] = "notify" /\ sig_slot' = sig_slot /\ state[Listener(c)] \in Notifiable
    BY <1>1, <1>6 DEF signal_scan, Goto, IInv, TypeOK
  <2>2. Listener(c) \in Thread /\ state[Listener(c)] = "WAITING"
    BY <1>4, <1>6, <2>1 DEF EInv, StopInv, Notifiable
  <2>3. EventTypes' /\ Listener(c)' = Listener(c) /\ (Passed(c)' <=> Passed(c))
    BY <1>1, <2>1 DEF EInv, EventTypes, Listener, Passed
  <2>4. SignalOf(c)'
    BY <1>1, <1>2, <1>3, <2>1, <2>2, <2>3 DEF SignalOf
  <2> QED
    BY <1>1, <2>1, <2>3, <2>4, QuietSignal
<1> QED
  BY <1>5, <1>6

(* event_signal returns.                                                   *)
LEMMA SignalReturnE ==
    ASSUME IInv, JInv, EInv, SingleCore, NEW c \in Core,
           signal_refused(c) \/ signal_done(c)
    PROVE  IInv' /\ JInv' /\ EInv'
<1>1. /\ at[c] = "scan" /\ at'[c] = "run" /\ Quiet(c)
      /\ UNCHANGED <<listeners, received_event, wait_event>>
      /\ event_lock' = [event_lock EXCEPT ![sig_event[c]] = NULL]
      /\ sig_event' = [sig_event EXCEPT ![c] = NULL]
      /\ sig_slot' = [sig_slot EXCEPT ![c] = 1]
  BY DEF signal_refused, signal_done, SignalReturn, Goto, Quiet, EventPlace, IInv, TypeOK
<1>2. EventTypes' /\ sig_slot'[c] = 1
  <2>1. 1 \in 1 .. ListenSlots + 1
    BY EventAssumption, SMT
  <2> QED
    BY <1>1, <2>1 DEF EInv, EventTypes
<1>3. SignalOf(c)'
  BY <1>1, <1>2 DEF SignalOf
<1> QED
  BY <1>1, <1>2, <1>3, QuietSignal

(* The running thread is listed nowhere outside of event_wait.             *)
LEMMA UnlistedOutside ==
    ASSUME EInv, NEW t \in Thread, wait_event[t] = NULL
    PROVE  \A e \in EventObject : SlotsOf(e, t) = {}
BY EventAssumption DEF EInv, ListInv, SlotsOf

(* event_wait: the call records the event.                                 *)
LEMMA WaitCallE ==
    ASSUME IInv, JInv, EInv, SingleCore, NEW c \in Core, NEW e \in EventObject,
           event_wait(c, e)
    PROVE  IInv' /\ JInv' /\ EInv'
<1>1. /\ at[c] = "run" /\ at'[c] = "attach" /\ Quiet(c)
      /\ UNCHANGED <<current, listeners, event_lock, received_event, sig_event, sig_slot>>
      /\ wait_event' = [wait_event EXCEPT ![current[c]] = e]
  BY DEF event_wait, MayCall, Goto, Quiet, EventPlace, IInv, TypeOK, signalVars
<1>2. PICK t \in Thread : t = current[c] /\ wait_event[t] = NULL
  BY <1>1, QuietSchedule DEF EInv, CoreWaitInv, WaitOf, Outside
<1>3. wait_event'[t] = e /\ \A u \in Thread \ {t} : wait_event'[u] = wait_event[u]
  BY <1>1, <1>2 DEF EInv, EventTypes
<1>4. \A f \in EventObject, i \in ListenSlot : listeners[f][i] # t
  BY <1>2, EventAssumption, ZenonT(40) DEF EInv, ListInv
<1>5. \A u \in Thread \ {t} : (InWait(u)' <=> InWait(u)) /\ (Woken(u)' <=> Woken(u))
  BY <1>1, <1>3 DEF InWait, Woken, SlotsOf
<1>6. EventTypes'
  BY <1>1 DEF EInv, EventTypes
<1>7. ListInv'
  BY <1>1, <1>3, <1>4, SMT DEF EInv, ListInv
<1>8. wait_event'[current'[c]] = e /\ SlotsOf(wait_event[current[c]], current[c])' = {}
  <2>1. wait_event'[current'[c]] = e /\ current'[c] = t /\ listeners' = listeners
    BY <1>1, <1>2, <1>3
  <2> QED
    BY <1>4, <2>1, SMT DEF SlotsOf
<1>9. WaitOf(c, current[c])'
  <2>1. ~ Leaving(c)' /\ at'[c] = "attach" /\ at'[c] \notin Outside
    BY <1>1, QuietSchedule DEF Outside
  <2> QED
    BY <1>8, <2>1 DEF WaitOf
<1>10. SignalOf(c)'
  BY <1>1 DEF EInv, SignalInv, SignalOf
<1> QED
  BY <1>1, <1>2, <1>3, <1>5, <1>6, <1>7, <1>9, <1>10, QuietStep

(* remove_listener takes a thread out of the one slot it is in.            *)
LEMMA RemoveTable ==
    ASSUME FirstSlot, EInv, NEW t \in Thread, NEW e \in EventObject,
           wait_event[t] = e, listeners' = ReplaceFirst(e, t, NULL)
    PROVE  /\ listeners' \in [EventObject -> [ListenSlot -> Thread \cup {NULL}]]
           /\ \A f \in EventObject, i \in ListenSlot :
                 listeners'[f][i] = IF listeners[f][i] = t THEN NULL ELSE listeners[f][i]
<1> DEFINE Goal == /\ listeners' \in [EventObject -> [ListenSlot -> Thread \cup {NULL}]]
                   /\ \A f \in EventObject, i \in ListenSlot :
                         listeners'[f][i] = IF listeners[f][i] = t THEN NULL
                                            ELSE listeners[f][i]
<1>1. CASE SlotsOf(e, t) = {} /\ listeners' = listeners
  <2>1. \A f \in EventObject, i \in ListenSlot : listeners[f][i] # t
    BY <1>1, SMT DEF EInv, ListInv, SlotsOf
  <2> QED
    BY <1>1, <2>1 DEF EInv, EventTypes
<1>2. ASSUME NEW i \in SlotsOf(e, t), listeners' = [listeners EXCEPT ![e][i] = NULL]
      PROVE  Goal
  <2>1. i \in ListenSlot /\ listeners[e][i] = t
    BY <1>2 DEF SlotsOf
  <2>2. \A f \in EventObject, j \in ListenSlot : listeners[f][j] = t => f = e /\ j = i
    BY <2>1, SMT DEF EInv, ListInv
  <2>3. listeners \in [EventObject -> [ListenSlot -> Thread \cup {NULL}]]
    BY DEF EInv, EventTypes
  <2> QED
    BY <1>2, <2>1, <2>2, <2>3, SMT
<1> QED
  BY <1>1, <1>2, ReplaceOne

(* The end of event_wait.                                                  *)
LEMMA RemoveListenerE ==
    ASSUME FirstSlot, IInv, JInv, EInv, SingleCore, NEW c \in Core, remove_listener(c)
    PROVE  IInv' /\ JInv' /\ EInv'
<1>1. /\ at[c] = "woken" /\ at'[c] = "run" /\ Quiet(c)
      /\ UNCHANGED <<current, event_lock, received_event, sig_event, sig_slot>>
      /\ wait_event' = [wait_event EXCEPT ![current[c]] = NULL]
      /\ listeners' = ReplaceFirst(wait_event[current[c]], current[c], NULL)
  BY DEF remove_listener, Goto, Quiet, EventPlace, IInv, TypeOK, signalVars
<1>2. PICK t \in Thread : t = current[c] /\ wait_event[t] \in EventObject
  BY <1>1, QuietSchedule DEF EInv, CoreWaitInv, WaitOf, Woken, InWait
<1>3. wait_event'[t] = NULL /\ \A u \in Thread \ {t} : wait_event'[u] = wait_event[u]
  BY <1>1, <1>2 DEF EInv, EventTypes
<1>4. PICK e \in EventObject : e = wait_event[t]
  BY <1>2
<1>5. /\ listeners' \in [EventObject -> [ListenSlot -> Thread \cup {NULL}]]
      /\ \A f \in EventObject, i \in ListenSlot :
            listeners'[f][i] = IF listeners[f][i] = t THEN NULL ELSE listeners[f][i]
  BY <1>1, <1>2, <1>4, RemoveTable
<1>6. \A u \in Thread, f \in EventObject, i \in ListenSlot :
         listeners'[f][i] = u <=> listeners[f][i] = u /\ u # t
  BY <1>5, SchedulerAssumption, ZenonT(40)
<1>7. ASSUME NEW u \in Thread \ {t}
      PROVE  (InWait(u)' <=> InWait(u)) /\ (Woken(u)' <=> Woken(u))
  <2>1. wait_event'[u] = wait_event[u] /\ u # t /\ u \in Thread
    BY <1>3
  <2>2. ASSUME wait_event[u] \in EventObject
        PROVE  SlotsOf(wait_event[u], u)' = SlotsOf(wait_event[u], u)
    BY <1>6, <2>1, <2>2, SMT DEF SlotsOf
  <2> QED
    BY <1>1, <2>1, <2>2 DEF InWait, Woken
<1>8. EventTypes'
  BY <1>1, <1>5 DEF EInv, EventTypes
<1>9. ListInv'
  BY <1>3, <1>6, SMTT(30) DEF EInv, ListInv
<1>10. WaitOf(c, current[c])'
  BY <1>1, <1>2, <1>3, QuietSchedule DEF WaitOf
<1>11. SignalOf(c)'
  BY <1>1 DEF EInv, SignalInv, SignalOf
<1> QED
  BY <1>1, <1>2, <1>3, <1>7, <1>8, <1>9, <1>10, <1>11, QuietStep, ZenonT(40)

(* attach_listener enters a thread in a free slot, if there is one.        *)
LEMMA AttachTable ==
    ASSUME FirstSlot, EInv, NEW t \in Thread, NEW e \in EventObject,
           SlotsOf(e, t) = {}, wait_event[t] = e, UNCHANGED wait_event,
           listeners' = ReplaceFirst(e, NULL, t)
    PROVE  /\ listeners' \in [EventObject -> [ListenSlot -> Thread \cup {NULL}]]
           /\ ListInv'
           /\ \A u \in Thread \ {t}, f \in EventObject : SlotsOf(f, u)' = SlotsOf(f, u)
           /\ ListenRoom => SlotsOf(e, t)' # {}
<1>1. \A f \in EventObject, j \in ListenSlot : listeners[f][j] # t
  BY SMT DEF EInv, ListInv, SlotsOf
<1>2. listeners \in [EventObject -> [ListenSlot -> Thread \cup {NULL}]]
  BY DEF EInv, EventTypes
<1>3. CASE SlotsOf(e, NULL) = {} /\ listeners' = listeners
  <2>1. ~ ListenRoom
    BY <1>3, FreeListenSlot DEF EInv
  <2>2. ListInv'
    BY <1>3, SMT DEF EInv, ListInv
  <2>3. \A u \in Thread, f \in EventObject : SlotsOf(f, u)' = SlotsOf(f, u)
    BY <1>3 DEF SlotsOf
  <2> QED
    BY <1>2, <1>3, <2>1, <2>2, <2>3
<1>4. ASSUME NEW i \in SlotsOf(e, NULL), listeners' = [listeners EXCEPT ![e][i] = t]
      PROVE  /\ listeners' \in [EventObject -> [ListenSlot -> Thread \cup {NULL}]]
             /\ ListInv'
             /\ \A u \in Thread \ {t}, f \in EventObject : SlotsOf(f, u)' = SlotsOf(f, u)
             /\ SlotsOf(e, t)' # {}
  <2>1. i \in ListenSlot /\ listeners[e][i] = NULL
    BY DEF SlotsOf
  <2>2. /\ listeners' \in [EventObject -> [ListenSlot -> Thread \cup {NULL}]]
        /\ \A f \in EventObject, j \in ListenSlot :
              listeners'[f][j] = IF f = e /\ j = i THEN t ELSE listeners[f][j]
    BY <1>2, <1>4, <2>1, SMTT(30)
  <2>3. /\ \A u \in Thread \ {t}, f \in EventObject, j \in ListenSlot :
              listeners'[f][j] = u <=> listeners[f][j] = u
        /\ \A f \in EventObject, j \in ListenSlot :
              listeners'[f][j] = t => f = e /\ j = i
        /\ listeners'[e][i] = t
    BY <1>1, <2>1, <2>2, SchedulerAssumption, SMT
  <2>4. ListInv'
    <3>1. ASSUME NEW f \in EventObject, NEW j \in ListenSlot, NEW u \in Thread,
                 listeners'[f][j] = u
          PROVE  wait_event[u] = f /\ \A k \in ListenSlot : listeners'[f][k] = u => k = j
      <4>1. CASE u = t
        BY <2>3, <3>1, <4>1, SMT
      <4>2. CASE u # t
        <5>1. u \in Thread \ {t}
          BY <4>2
        <5> QED
          BY <2>3, <3>1, <5>1, SMT DEF EInv, ListInv
      <4> QED
        BY <4>1, <4>2
    <3> QED
      BY <3>1, ZenonT(40) DEF ListInv
  <2>5. /\ \A u \in Thread \ {t}, f \in EventObject : SlotsOf(f, u)' = SlotsOf(f, u)
        /\ i \in SlotsOf(e, t)'
    BY <2>1, <2>3, SMT DEF SlotsOf
  <2> QED
    BY <2>2, <2>4, <2>5
<1> QED
  BY <1>3, <1>4, ReplaceOne

(* The joins, when the only core executes a thread and its step leaves     *)
(* them alone: it changes no cause but to WAIT, and no state but of        *)
(* threads that are WAITING.                                               *)
CausesKept(t) == \A v \in Thread : \/ yield_cause'[v] = yield_cause[v]
                                   \/ v = t /\ yield_cause'[v] = "WAIT"
StatesKept == \A v \in Thread : \/ state'[v] = state[v]
                                \/ state[v] = "WAITING" /\ state'[v] = "RUNNABLE"
ReadyKept == \A v \in Thread : v \in ReadyThreads' => v \in ReadyThreads \/ yield_cause[v] = "WAIT"
LEMMA EventJoins ==
    ASSUME IInv, JInv, SingleCore, NEW c \in Core, NEW t \in Thread, t = current[c],
           ~ Leaving(c), at[c] \notin {"next", "save", "idle", "entry", "wake"},
           at'[c] \notin {"join", "spin", "entry"}, Held'[c] = t,
           Leaving(c)' => yield_cause'[t] = "WAIT",
           state[t] = "RUNNING", ~ InTable(t),
           UNCHANGED <<current, joined, join_thread, context>>,
           CausesKept(t), StatesKept, ReadyKept
    PROVE  JInv'
<1>1. /\ (\A d \in Core : d = c)
      /\ \A v \in Thread : (InTable(v)' <=> InTable(v)) /\ ~ Deadlocked(v) /\ ~ Ending(v)
  BY DeadlockedCore DEF SingleCore, InTable, Ending
<1>2. \A v \in Thread : /\ yield_cause'[v] = "JOIN" => yield_cause[v] = "JOIN"
                        /\ yield_cause'[v] = "TERMINATE" <=> yield_cause[v] = "TERMINATE"
  <2>1. yield_cause[t] # "TERMINATE"
    BY NotEnding
  <2> QED
    BY <2>1 DEF CausesKept
<1>3. \A v \in Thread : /\ state'[v] = "ZOMBIE" <=> state[v] = "ZOMBIE"
                        /\ state'[v] = "JOINED" => state[v] = "JOINED"
                        /\ state'[v] = "UNUSED" => state[v] = "UNUSED" /\ v # t
  BY DEF StatesKept
<1>4. TableInv'
  <2>1. \A v \in Thread : InTable(v) => yield_cause'[v] = yield_cause[v]
    BY DEF CausesKept
  <2>2. ASSUME NEW v \in Thread, InTable(v)
        PROVE  /\ yield_cause'[v] = "JOIN" /\ join_thread[v] \in Thread
               /\ state'[join_thread[v]] # "ZOMBIE"
               /\ yield_cause'[join_thread[v]] # "TERMINATE"
    <3>1. /\ yield_cause[v] = "JOIN" /\ join_thread[v] \in Thread
          /\ state[join_thread[v]] # "ZOMBIE"
          /\ yield_cause[join_thread[v]] # "TERMINATE"
      BY <2>2 DEF JInv, TableInv
    <3> QED
      BY <1>2, <1>3, <2>1, <2>2, <3>1
  <2> QED
    BY <1>1, <2>2 DEF TableInv
<1>5. SleepInv'
  <2>1. \A v \in Thread : state'[v] = "JOINED" /\ TableRoom => InTable(v)
    BY <1>1, <1>3 DEF JInv, SleepInv
  <2> QED
    BY <1>1, <2>1 DEF SleepInv
<1>6. ExitInv'
  <2>1. \A v \in Thread : yield_cause[v] = "TERMINATE" => state[v] = "ZOMBIE"
    BY <1>1 DEF JInv, ExitInv
  <2>2. ASSUME NEW v \in Thread, state[v] = "ZOMBIE"
        PROVE  yield_cause'[v] = "TERMINATE" /\ v \notin ReadyThreads' /\ Held'[c] # v
    <3>1. yield_cause[v] = "TERMINATE" /\ v \notin ReadyThreads /\ v # t
      BY <2>2 DEF JInv, ExitInv
    <3> QED
      BY <1>2, <3>1 DEF ReadyKept
  <2>3. \A v \in Thread : state'[v] = "UNUSED" => yield_cause'[v] = NoCause
    <3>1. \A v \in Thread : state[v] = "UNUSED" => yield_cause[v] = NoCause
      BY DEF JInv, ExitInv
    <3> QED
      BY <1>3, <3>1 DEF CausesKept
  <2> QED
    BY <1>1, <1>2, <1>3, <2>1, <2>2, <2>3 DEF ExitInv
<1>7. ReturnInv'
  <2>1. ASSUME NEW v \in Thread, yield_cause'[v] = "JOIN", context[v] = "spin", Queued(v)'
        PROVE  join_thread[v] \in Thread /\ state'[join_thread[v]] = "ZOMBIE"
    <3>1. yield_cause[v] = "JOIN" /\ v \in ReadyThreads'
      BY <1>1, <1>2, <2>1 DEF Queued
    <3>2. Queued(v)
      BY <3>1 DEF Queued, ReadyKept
    <3>3. join_thread[v] \in Thread /\ state[join_thread[v]] = "ZOMBIE"
      BY <1>1, <2>1, <3>1, <3>2 DEF JInv, ReturnInv
    <3> QED
      BY <1>3, <3>3
  <2> QED
    BY <1>1, <2>1 DEF ReturnInv
<1> QED
  BY <1>4, <1>5, <1>6, <1>7 DEF JInv

(* event_wait: the thread is entered in the table and is on its way into   *)
(* the yield, with the cause WAIT.                                         *)
Attaches(c, t, e) ==
    /\ t = current[c] /\ state[t] = "RUNNING" /\ ~ InTable(t) /\ t \notin ReadyThreads
    /\ at[c] = "attach" /\ at'[c] = "yield" /\ c \notin ipi /\ ~ Leaving(c) /\ Leaving(c)'
    /\ Executing(c) /\ LocalStep(c) /\ Held[c] = t /\ Held' = Held
    /\ yield_cause' \in [Thread -> YieldCause] /\ yield_cause'[t] = "WAIT"
    /\ \A u \in Thread : u # t => yield_cause'[u] = yield_cause[u]
    /\ e = wait_event[t] /\ SlotsOf(e, t) = {}
    /\ listeners' = ReplaceFirst(e, NULL, t)
    /\ at' \in [Core -> Place]
    /\ UNCHANGED <<current, next, frame, ipi, ready, joined, joined_lock, state>>
    /\ UNCHANGED <<join_thread, yield_lock, context>>
    /\ UNCHANGED <<event_lock, received_event, wait_event, sig_event, sig_slot>>

(* That is what attach_listener does: the thread is RUNNING.               *)
LEMMA AttachStep ==
    ASSUME IInv, EInv, SingleCore, NEW c \in Core, attach_listener(c)
    PROVE  \E t \in Thread, e \in EventObject : Attaches(c, t, e)
<1>1. PICK t \in Thread : t = current[c]
  BY DEF attach_listener, IInv, CoreInv, Executing
<1>2. /\ at[c] = "attach" /\ c \notin ipi /\ ~ Leaving(c) /\ Executing(c)
      /\ Held[c] = t /\ state[t] = "RUNNING"
  BY <1>1 DEF attach_listener, IInv, CoreInv, Leaving, Executing, Held, EInv, StopInv, StopOf,
     InHandler
<1>3. PICK e \in EventObject : e = wait_event[t] /\ SlotsOf(e, t) = {}
  BY <1>1, <1>2 DEF EInv, CoreWaitInv, WaitOf
<1>4. /\ at' = [at EXCEPT ![c] = "yield"]
      /\ listeners' = ReplaceFirst(e, NULL, t)
      /\ yield_cause' = [yield_cause EXCEPT ![t] = "WAIT"]
      /\ UNCHANGED <<current, next, frame, ipi, ready, joined, joined_lock, state>>
      /\ UNCHANGED <<join_thread, yield_lock, context>>
      /\ UNCHANGED <<event_lock, received_event, wait_event, sig_event, sig_slot>>
  BY <1>1, <1>2, <1>3 DEF attach_listener, Goto, signalVars
<1>5. /\ yield_cause' \in [Thread -> YieldCause] /\ yield_cause'[t] = "WAIT"
      /\ \A u \in Thread : u # t => yield_cause'[u] = yield_cause[u]
  BY <1>4 DEF IInv, TypeOK, YieldCause
<1>6. /\ at' \in [Core -> Place] /\ at'[c] = "yield"
      /\ \A d \in Core : d # c => at'[d] = at[d]
  BY <1>4 DEF IInv, TypeOK, Place, CallPlace
<1>7. Held' = Held /\ LocalStep(c) /\ Leaving(c)'
  BY <1>2, <1>4, <1>6 DEF Held, LocalStep, Leaving, SingleCore
<1>8. t \notin ReadyThreads /\ ~ InTable(t)
  BY <1>2, SchedulerAssumption DEF IInv, ThreadInOnePlace, JoinInv, InTable
<1> QED
  BY <1>1, <1>2, <1>3, <1>4, <1>5, <1>6, <1>7, <1>8 DEF Attaches

(* It keeps the scheduler's invariants.                                    *)
LEMMA AttachSchedule ==
    ASSUME IInv, JInv, SingleCore, NEW c \in Core, NEW t \in Thread, NEW e \in EventObject,
           Attaches(c, t, e)
    PROVE  IInv' /\ JInv'
<1>1. TypeOK'
  BY DEF Attaches, IInv, TypeOK
<1>2. CoreInv'
  <2>1. (\A d \in Core : d = c) /\ c \notin ipi' /\ yield_cause'[current'[c]] # NoCause
    BY DEF SingleCore, Attaches, NoCause
  <2>2. at'[c] = "yield" /\ current'[c] \in Thread
    BY DEF Attaches
  <2> QED
    BY <2>1, <2>2 DEF CoreInv, Executing
<1>3. YieldInv' /\ JoinInv'
  BY QuietYield, QuietJoined DEF Attaches
<1>4. ThreadInv' /\ ThreadInOnePlace' /\ NoThreadLost'
  BY QuietThreads DEF Attaches
<1>5. JInv'
  <2>1. ReadyThreads' = ReadyThreads
    BY DEF Attaches, ReadyThreads
  <2> QED
    BY <2>1, EventJoins DEF Attaches, CausesKept, StatesKept, ReadyKept
<1> QED
  BY <1>1, <1>2, <1>3, <1>4, <1>5 DEF IInv

(* And those of the events.                                                *)
LEMMA AttachListenerE ==
    ASSUME FirstSlot, IInv, JInv, EInv, SingleCore, NEW c \in Core, attach_listener(c)
    PROVE  IInv' /\ JInv' /\ EInv'
<1>1. PICK t \in Thread, e \in EventObject : Attaches(c, t, e)
  BY AttachStep
<1>2. IInv' /\ JInv'
  BY <1>1, AttachSchedule
<1>3. /\ listeners' \in [EventObject -> [ListenSlot -> Thread \cup {NULL}]]
      /\ ListInv'
      /\ \A u \in Thread \ {t}, f \in EventObject : SlotsOf(f, u)' = SlotsOf(f, u)
      /\ ListenRoom => SlotsOf(e, t)' # {}
  <2>1. /\ SlotsOf(e, t) = {} /\ wait_event[t] = e /\ wait_event' = wait_event
        /\ listeners' = ReplaceFirst(e, NULL, t)
    BY <1>1 DEF Attaches
  <2> QED
    BY <2>1, AttachTable
<1>4. /\ t = current[c] /\ current' = current /\ state' = state /\ context' = context
      /\ state[t] = "RUNNING" /\ ~ InTable(t) /\ t \notin ReadyThreads
      /\ at[c] = "attach" /\ at'[c] = "yield" /\ ~ Leaving(c) /\ Held[c] = t /\ Held' = Held
      /\ yield_cause'[t] = "WAIT" /\ e = wait_event[t]
      /\ wait_event' = wait_event /\ received_event' = received_event
      /\ sig_slot' = sig_slot
  BY <1>1 DEF Attaches
<1>5. /\ \A u \in Thread : u # t => yield_cause'[u] = yield_cause[u]
      /\ ReadyThreads' = ReadyThreads
      /\ \A u \in Thread : InTable(u)' <=> InTable(u)
      /\ \A u \in Thread : Queued(u)' => u \in ReadyThreads
  <2>1. /\ \A u \in Thread : u # t => yield_cause'[u] = yield_cause[u]
        /\ ready' = ready /\ joined' = joined
    BY <1>1 DEF Attaches
  <2>2. ReadyThreads' = ReadyThreads
    BY <2>1 DEF ReadyThreads
  <2>3. \A u \in Thread : InTable(u)' <=> InTable(u)
    BY <2>1 DEF InTable
  <2>4. \A u \in Thread : Queued(u)' => u \in ReadyThreads
    BY <1>4, <2>2 DEF Queued, SingleCore
  <2> QED
    BY <2>1, <2>2, <2>3, <2>4
<1>6. ASSUME NEW u \in Thread, u # t
      PROVE  (InWait(u)' <=> InWait(u)) /\ (Woken(u)' <=> Woken(u))
  <2>1. ASSUME wait_event[u] \in EventObject
        PROVE  SlotsOf(wait_event[u], u)' = SlotsOf(wait_event[u], u)
    <3>1. \A f \in EventObject : SlotsOf(f, u)' = SlotsOf(f, u)
      BY <1>3, <1>6
    <3> QED
      BY <1>4, <2>1, <3>1 DEF SlotsOf
  <2> QED
    BY <1>4, <2>1 DEF InWait, Woken
<1>7. EventTypes'
  BY <1>1, <1>3 DEF EInv, EventTypes, Attaches
<1>8. WaitOf(c, current[c])'
  <2>1. Sleeper(current[c])'
    <3>1. wait_event'[current'[c]] = e /\ current'[c] = t
      BY <1>4
    <3> QED
      BY <1>3, <1>4, <3>1 DEF Sleeper, InWait, SlotsOf
  <2> QED
    BY <1>4, <2>1 DEF WaitOf, Outside
<1>9. StopOf(c, current[c])'
  BY <1>4 DEF StopOf
<1>10. \A u \in Thread : /\ context'[u] = "halt" => yield_cause'[u] = "TERMINATE"
                         /\ state'[u] # "BLOCKED"
                         /\ state'[u] = "WAITING" => Asleep(c, u)'
  <2>1. yield_cause[t] # "TERMINATE"
    BY <1>4, NotEnding
  <2>2. \A u \in Thread : /\ context[u] = "halt" => yield_cause[u] = "TERMINATE"
                          /\ state[u] # "BLOCKED"
    BY DEF EInv, StopInv
  <2>3. ASSUME NEW u \in Thread, state[u] = "WAITING"
        PROVE  Asleep(c, u)'
    <3>1. Asleep(c, u) /\ u # t
      BY <1>4, <2>3 DEF EInv, WaitingInv
    <3> QED
      BY <1>4, <1>5, <1>6, <3>1 DEF Asleep
  <2> QED
    BY <1>4, <1>5, <2>1, <2>2, <2>3
<1>11. QueuedInv'
  <2>1. ASSUME NEW u \in Thread, u \in ReadyThreads
        PROVE  GoesOn(u)'
    <3>1. GoesOn(u) /\ u # t
      BY <1>4, <2>1 DEF EInv, QueuedInv, Queued
    <3> QED
      BY <1>4, <1>5, <1>6, <3>1 DEF GoesOn, Returner
  <2> QED
    BY <1>4, <1>5, <2>1 DEF EInv, QueuedInv
<1>12. SignalOf(c)'
  BY <1>4 DEF EInv, SignalInv, SignalOf
<1> QED
  BY <1>2, <1>3, <1>7, <1>8, <1>9, <1>10, <1>11, <1>12, OneCoreStep

(* schedule_notify: the listener u in slot k is asleep in its event_wait.  *)
Notifies(c, t, u, e, k) ==
    /\ t = current[c] /\ state[t] = "RUNNING" /\ ~ InTable(t)
    /\ at[c] = "notify" /\ at'[c] = "scan" /\ c \notin ipi /\ ~ Leaving(c) /\ ~ Leaving(c)'
    /\ Executing(c) /\ LocalStep(c) /\ Held[c] = t /\ Held' = Held
    /\ u # t /\ state[u] = "WAITING" /\ u \notin ReadyThreads /\ ~ InTable(u)
    /\ InWait(u) /\ yield_cause[u] = "WAIT" /\ context[u] = "spin"
    /\ state' \in [Thread -> ThreadState] /\ state'[u] = "RUNNABLE"
    /\ \A v \in Thread : v # u => state'[v] = state[v]
    /\ ready' = schedule_add_thread(ready, u) /\ ReadyThreads' = ReadyThreads \cup {u}
    /\ e = sig_event[c] /\ k = sig_slot[c] /\ listeners[e][k] = u /\ wait_event[u] = e
    /\ received_event' = [received_event EXCEPT ![u] = e]
    /\ sig_slot' = [sig_slot EXCEPT ![c] = k + 1]
    /\ at' \in [Core -> Place]
    /\ UNCHANGED <<current, next, frame, ipi, joined, joined_lock>>
    /\ UNCHANGED <<join_thread, yield_cause, yield_lock, context>>
    /\ UNCHANGED <<listeners, event_lock, wait_event, sig_event>>

(* The listener waits for the event of its table.                          *)
LEMMA NotifyStep ==
    ASSUME IInv, JInv, EInv, SingleCore, NEW c \in Core, schedule_notify(c)
    PROVE  \E t, u \in Thread, e \in EventObject, k \in ListenSlot : Notifies(c, t, u, e, k)
<1>1. SignalOf(c) /\ at[c] = "notify"
  BY DEF schedule_notify, EInv, SignalInv
<1>2. PICK u \in Thread : u = Listener(c) /\ state[u] = "WAITING"
  BY <1>1 DEF SignalOf
<1>3. PICK e \in EventObject : e = sig_event[c]
  BY <1>1 DEF SignalOf
<1>4. PICK k \in ListenSlot : k = sig_slot[c]
  BY <1>1 DEF SignalOf
<1>5. /\ at' = [at EXCEPT ![c] = "scan"]
      /\ received_event' = [received_event EXCEPT ![u] = e]
      /\ state' = [state EXCEPT ![u] = "RUNNABLE"]
      /\ ready' = schedule_add_thread(ready, u)
      /\ sig_slot' = [sig_slot EXCEPT ![c] = k + 1]
      /\ UNCHANGED <<current, next, frame, ipi, joined, joined_lock>>
      /\ UNCHANGED <<join_thread, yield_cause, yield_lock, context>>
      /\ UNCHANGED <<listeners, event_lock, wait_event, sig_event>>
  BY <1>2, <1>3, <1>4 DEF schedule_notify, Goto
<1>6. PICK t \in Thread : t = current[c]
  BY <1>1 DEF IInv, CoreInv, Executing
<1>7. /\ at' \in [Core -> Place] /\ at'[c] = "scan" /\ \A d \in Core : d # c => at'[d] = at[d]
      /\ state' \in [Thread -> ThreadState] /\ state'[u] = "RUNNABLE"
      /\ \A v \in Thread : v # u => state'[v] = state[v]
  BY <1>5 DEF IInv, TypeOK, Place, CallPlace, ThreadState
<1>8. /\ c \notin ipi /\ ~ Leaving(c) /\ ~ Leaving(c)' /\ Executing(c)
      /\ Held[c] = t /\ Held' = Held /\ LocalStep(c)
  <2>1. c \notin ipi /\ ipi' = ipi /\ \A d \in Core : d = c
    BY <1>1, <1>5 DEF IInv, CoreInv, SingleCore
  <2>2. ~ Leaving(c) /\ ~ Leaving(c)' /\ Executing(c) /\ Held[c] = t
    BY <1>1, <1>6, <1>7, <2>1 DEF Leaving, Executing, Held
  <2>3. Held' = Held
    BY <1>1, <1>5, <1>7, <2>1 DEF Held
  <2> QED
    BY <2>1, <2>2, <2>3 DEF LocalStep
<1>9. state[t] = "RUNNING"
  BY <1>1, <1>6 DEF EInv, StopInv, StopOf, InHandler
<1>10. t \notin ReadyThreads /\ ~ InTable(t)
  BY <1>1, <1>8, SchedulerAssumption DEF IInv, ThreadInOnePlace, JoinInv, InTable
<1>11. Asleep(c, u) /\ u # t
  BY <1>2, <1>9 DEF EInv, WaitingInv
<1>12. /\ InWait(u) /\ yield_cause[u] = "WAIT" /\ u \notin ReadyThreads
       /\ context[u] = "spin" /\ ~ InTable(u)
  <2>1. InWait(u) /\ yield_cause[u] = "WAIT" /\ u \notin ReadyThreads /\ context[u] = "spin"
    BY <1>8, <1>11 DEF Asleep
  <2> QED
    BY <2>1 DEF JInv, TableInv
<1>13. listeners[e][k] = u /\ wait_event[u] = e
  <2>1. listeners[e][k] = u
    BY <1>2, <1>3, <1>4 DEF Listener
  <2> QED
    BY <2>1, SMT DEF EInv, ListInv
<1>14. ReadyThreads' = ReadyThreads \cup {u}
  BY <1>5, <1>12, ReadyAdd
<1>15. Notifies(c, t, u, e, k)
  BY <1>1, <1>2, <1>3, <1>4, <1>5, <1>6, <1>7, <1>8, <1>9, <1>10, <1>11, <1>12, <1>13, <1>14, ZenonT(40)
     DEF Notifies
<1> QED
  BY <1>15

(* It can be queued.                                                       *)
LEMMA NotifySchedule ==
    ASSUME IInv, JInv, SingleCore, NEW c \in Core, NEW t \in Thread, NEW u \in Thread,
           NEW e \in EventObject, NEW k \in ListenSlot, Notifies(c, t, u, e, k)
    PROVE  IInv' /\ JInv'
<1>1. /\ ready' \in Seq(Thread) /\ Distinct(ready')
      /\ ReadyThreads' = ReadyThreads \cup {u}
  <2>1. ready \in Seq(Thread) /\ Distinct(ready) /\ u \notin Elems(ready)
    BY DEF Notifies, ReadyThreads, Elems, IInv, ThreadInOnePlace, Distinct, TypeOK
  <2> QED
    BY <2>1, AddFresh DEF Notifies
<1>2. TypeOK'
  BY <1>1 DEF Notifies, IInv, TypeOK
<1>3. CoreInv'
  <2>1. (\A d \in Core : d = c) /\ c \notin ipi' /\ at'[c] = "scan" /\ current'[c] \in Thread
    BY DEF Notifies, SingleCore
  <2> QED
    BY <2>1 DEF CoreInv, Executing
<1>4. /\ Held' = Held /\ Held[c] = t /\ u # t /\ (\A d \in Core : d = c)
      /\ state'[u] = "RUNNABLE" /\ \A v \in Thread : v # u => state'[v] = state[v]
      /\ context' = context /\ joined' = joined /\ ~ InTable(u)
  BY DEF Notifies, SingleCore
<1>5. ThreadInv'
  <2>1. ASSUME NEW v \in Thread, state'[v] = "UNUSED"
        PROVE  v \notin ReadyThreads' /\ \A d \in Core : Held'[d] # v
    <3>1. v # u /\ state[v] = "UNUSED"
      BY <1>4, <2>1
    <3>2. v \notin ReadyThreads /\ \A d \in Core : Held[d] # v
      BY <3>1 DEF IInv, ThreadInv
    <3> QED
      BY <1>1, <1>4, <3>1, <3>2
  <2>2. \A v \in Thread : context[v] # "idle"
    BY DEF IInv, ThreadInv
  <2> QED
    BY <1>4, <2>1, <2>2 DEF ThreadInv
<1>6. ThreadInOnePlace'
  <2>1. \A i, j \in 1 .. Len(ready') : ready'[i] = ready'[j] => i = j
    BY <1>1 DEF Distinct
  <2>2. \A d \in Core : Held'[d] \notin ReadyThreads'
    BY <1>1, <1>4 DEF IInv, ThreadInOnePlace
  <2> QED
    BY <1>4, <2>1, <2>2 DEF ThreadInOnePlace
<1>7. NoThreadLost'
  <2>1. ASSUME NEW v \in Thread, v # u, state[v] \in {"CREATED", "RUNNABLE", "RUNNING"}
        PROVE  v \in ReadyThreads \/ \E d \in Core : Held[d] = v
    BY <2>1 DEF IInv, NoThreadLost
  <2>2. \A v \in Thread : v = u \/ state'[v] = state[v]
    BY <1>4
  <2> QED
    BY <1>1, <1>4, <2>1, <2>2 DEF NoThreadLost
<1>8. JoinInv'
  <2>1. \A i \in Slot : joined[i] # NULL => joined[i] \in Thread /\ joined[i] # u
    BY <1>4 DEF InTable, IInv, TypeOK
  <2>2. \A i \in Slot : joined[i] # NULL => joined[i] \notin ReadyThreads' /\ Held'[c] # joined[i]
    <3>1. \A i \in Slot : joined[i] # NULL => joined[i] \notin ReadyThreads
      BY DEF IInv, JoinInv
    <3>2. \A i \in Slot : joined[i] # t
      BY DEF Notifies, InTable
    <3> QED
      BY <1>1, <1>4, <2>1, <3>1, <3>2
  <2>3. \A i \in Slot : joined[i] # NULL =>
           /\ "join" \in Calls /\ \A j \in Slot : joined[j] = joined[i] => i = j
           /\ state[joined[i]] # "UNUSED"
    BY DEF IInv, JoinInv
  <2> QED
    BY <1>4, <2>1, <2>2, <2>3 DEF JoinInv
<1>9. YieldInv'
  BY QuietYield DEF Notifies
<1>10. JInv'
  <2>1. CausesKept(t) /\ StatesKept /\ ReadyKept
    BY <1>1, ZenonT(40) DEF Notifies, CausesKept, StatesKept, ReadyKept
  <2> QED
    BY <2>1, EventJoins DEF Notifies
<1> QED
  BY <1>2, <1>3, <1>5, <1>6, <1>7, <1>8, <1>9, <1>10, ZenonT(40) DEF IInv

(* And it resumes with its own event received.                             *)
LEMMA NotifyE ==
    ASSUME IInv, JInv, EInv, SingleCore, NEW c \in Core, schedule_notify(c)
    PROVE  IInv' /\ JInv' /\ EInv'
<1>1. PICK t, u \in Thread, e \in EventObject, k \in ListenSlot : Notifies(c, t, u, e, k)
  BY NotifyStep
<1>2. IInv' /\ JInv'
  BY <1>1, NotifySchedule
<1>3. /\ t = current[c] /\ current' = current /\ context' = context
      /\ state[t] = "RUNNING" /\ u # t /\ yield_cause' = yield_cause
      /\ at[c] = "notify" /\ at'[c] = "scan" /\ ~ Leaving(c)' /\ Held[c] = t /\ Held' = Held
      /\ listeners' = listeners /\ wait_event' = wait_event /\ sig_event' = sig_event
      /\ InWait(u) /\ yield_cause[u] = "WAIT" /\ context[u] = "spin" /\ ~ InTable(u)
      /\ ReadyThreads' = ReadyThreads \cup {u}
  BY <1>1 DEF Notifies
<1>4. state'[u] = "RUNNABLE" /\ \A v \in Thread : v # u => state'[v] = state[v]
  BY <1>1 DEF Notifies
<1>5. /\ received_event'[u] = e /\ wait_event[u] = e
      /\ \A v \in Thread : v # u => received_event'[v] = received_event[v]
  BY <1>1 DEF Notifies, EInv, EventTypes
<1>6. EventTypes' /\ ListInv'
  <2>1. k + 1 \in 1 .. ListenSlots + 1
    BY EventAssumption, SMT DEF ListenSlot
  <2>2. EventTypes'
    BY <1>1, <2>1 DEF Notifies, EInv, EventTypes
  <2> QED
    BY <1>3, <2>2, SMTT(30) DEF EInv, ListInv
<1>7. /\ \A v \in Thread : InWait(v)' <=> InWait(v)
      /\ \A v \in Thread : v # u => (Woken(v)' <=> Woken(v))
      /\ Woken(u)'
  <2>1. \A v \in Thread : InWait(v)' <=> InWait(v)
    BY <1>3 DEF InWait, SlotsOf
  <2> QED
    BY <1>3, <1>5, <2>1 DEF Woken
<1>8. WaitOf(c, current[c])' /\ StopOf(c, current[c])'
  <2>1. wait_event[t] = NULL
    BY <1>3 DEF EInv, CoreWaitInv, WaitOf, Outside
  <2> QED
    BY <1>3, <1>4, <2>1 DEF WaitOf, StopOf
<1>9. ASSUME NEW v \in Thread
      PROVE  /\ context[v] = "halt" => yield_cause[v] = "TERMINATE"
             /\ state'[v] # "BLOCKED"
             /\ state'[v] = "WAITING" => Asleep(c, v)'
  <2>1. context[v] = "halt" => yield_cause[v] = "TERMINATE"
    BY DEF EInv, StopInv
  <2>2. CASE v = u
    BY <1>4, <2>1, <2>2
  <2>3. CASE v # u
    <3>1. state'[v] = state[v] /\ state[v] # "BLOCKED"
      BY <1>4, <2>3 DEF EInv, StopInv
    <3>2. state[v] = "WAITING" => Asleep(c, v)
      BY DEF EInv, WaitingInv
    <3>3. state[v] = "WAITING" => v # t
      BY <1>3
    <3> QED
      BY <1>3, <1>7, <2>1, <2>3, <3>1, <3>2, <3>3 DEF Asleep
  <2> QED
    BY <2>2, <2>3
<1>10. QueuedInv'
  <2>1. /\ \A v \in Thread : v # u => (GoesOn(v)' <=> GoesOn(v))
        /\ GoesOn(u)'
    BY <1>3, <1>7 DEF GoesOn, Returner
  <2>2. \A v \in Thread : (InTable(v)' <=> InTable(v)) /\ (Queued(v)' => Queued(v) \/ v = u)
    BY <1>1, <1>3 DEF Notifies, InTable, Queued, SingleCore
  <2> QED
    BY <1>3, <1>4, <2>1, <2>2 DEF EInv, QueuedInv
<1>11. SignalOf(c)'
  <2>1. /\ sig_slot'[c] = k + 1 /\ sig_slot[c] = k /\ sig_event[c] = e /\ listeners[e][k] = u
    BY <1>1 DEF Notifies, EInv, EventTypes
  <2>2. \A i \in ListenSlot : i < k + 1 => i < k \/ i = k
    BY SMT DEF ListenSlot
  <2>3. Passed(c)
    BY <1>3 DEF EInv, SignalInv, SignalOf
  <2>4. ASSUME NEW i \in ListenSlot, NEW v \in Thread, i < k + 1, listeners[e][i] = v
        PROVE  state'[v] # "WAITING"
    <3>1. CASE v = u
      BY <1>4, <3>1
    <3>2. CASE v # u
      BY <1>4, <2>1, <2>2, <2>3, <2>4, <3>2 DEF Passed
    <3> QED
      BY <3>1, <3>2
  <2>5. Passed(c)'
    BY <1>3, <2>1, <2>4 DEF Passed
  <2> QED
    BY <1>3, <2>1, <2>5 DEF SignalOf
<1> QED
  BY <1>2, <1>3, <1>6, <1>8, <1>9, <1>10, <1>11, OneCoreStep

-----------------------------------------------------------------------------
(* EInv speaks of the variables of the specification only.                 *)
LEMMA StutterEInv ==
    ASSUME EInv, SingleCore, UNCHANGED allVars
    PROVE  EInv'
<1> PICK c \in Core : TRUE
  BY SchedulerAssumption
<1>1. /\ UNCHANGED <<current, at, next, frame, ipi, ready, joined, state>>
      /\ UNCHANGED <<yield_cause, context, listeners, sig_event, sig_slot>>
      /\ UNCHANGED eventVars
  BY DEF allVars, vars, coreVars, threadVars, eventVars, signalVars
<1>2. /\ ReadyThreads' = ReadyThreads /\ Held' = Held /\ (Leaving(c)' <=> Leaving(c))
      /\ \A t \in Thread : (InTable(t)' <=> InTable(t)) /\ (Queued(t)' <=> Queued(t))
  BY <1>1 DEF ReadyThreads, Held, Leaving, InTable, Queued
<1>3. \A t \in Thread : /\ wait_event'[t] = wait_event[t]
                        /\ (InWait(t)' <=> InWait(t)) /\ (Woken(t)' <=> Woken(t))
  BY <1>1, EventFrame
<1>4. \A t \in Thread : (Sleeper(t)' <=> Sleeper(t)) /\ (Returner(t)' <=> Returner(t))
  BY <1>1, <1>3 DEF Sleeper, Returner
<1>5. current'[c] \in Thread => WaitOf(c, current[c])' /\ StopOf(c, current[c])'
  <2>1. SUFFICES ASSUME NEW t \in Thread, t = current[c]
                 PROVE  WaitOf(c, current[c])' /\ StopOf(c, current[c])'
    BY <1>1
  <2>2. WaitOf(c, t) /\ StopOf(c, t) /\ current'[c] = t
    BY <1>1, <2>1 DEF EInv, CoreWaitInv, StopInv
  <2>3. SlotsOf(wait_event[current[c]], current[c])' = SlotsOf(wait_event[t], t)
    BY <1>1, <1>3, <2>2 DEF SlotsOf, eventVars
  <2>4. WaitOf(c, current[c])'
    BY <1>1, <1>2, <1>3, <1>4, <2>1, <2>2, <2>3 DEF WaitOf
  <2>5. StopOf(c, current[c])'
    BY <1>1, <2>2 DEF StopOf
  <2> QED
    BY <2>4, <2>5
<1>6. \A t \in Thread : /\ context'[t] = "halt" => yield_cause'[t] = "TERMINATE"
                        /\ state'[t] # "BLOCKED"
                        /\ state'[t] = "WAITING" => Asleep(c, t)'
  BY <1>1, <1>2, <1>3, ZenonT(40) DEF EInv, StopInv, WaitingInv, Asleep
<1>7. QueuedInv'
  BY <1>1, <1>2, <1>3, <1>4 DEF EInv, QueuedInv, GoesOn
<1>8. SignalOf(c)'
  BY <1>1 DEF EInv, SignalInv, SignalOf, Listener, Passed
<1>9. EventTypes' /\ ListInv'
  BY <1>1, EventFrame DEF EInv
<1> QED
  BY <1>5, <1>6, <1>7, <1>8, <1>9, OneCoreStep

(* The invariants of the scheduler and of the events hold together.        *)
LEMMA EventsFromSlots ==
    SingleCore /\ FirstSlot => (EventSpec => [](IInv /\ JInv /\ EInv))
<1> SUFFICES ASSUME SingleCore, FirstSlot PROVE EventSpec => [](IInv /\ JInv /\ EInv)
  OBVIOUS
<1> DEFINE I == IInv /\ JInv /\ EInv
<1>1. EventInit => I
  BY InitIInv, InitJInv, InitEInv DEF EventInit
<1>2. SafeCalls
  BY DEF SingleCore, SafeCalls
<1>3. ASSUME I, NEW c \in Core, Step(c), UNCHANGED eventVars
      PROVE  I'
  <2>1. [Next]_vars
    BY <1>3 DEF Next
  <2> QED
    BY <1>2, <1>3, <2>1, NextIInv, StepJInv, StepEInv
<1>4. ASSUME I, NEW c \in Core, InEventCall(c)
      PROVE  I'
  BY <1>4, AttachListenerE, RemoveListenerE, SignalLockedE, SignalScanE,
     SignalReturnE, NotifyE DEF InEventCall
<1>5. ASSUME I, NEW c \in Core, EventCall(c)
      PROVE  I'
  BY <1>5, WaitCallE, SignalCallE DEF EventCall
<1>6. ASSUME I, UNCHANGED allVars
      PROVE  I'
  <2>1. UNCHANGED vars
    BY <1>6 DEF allVars
  <2> QED
    BY <1>2, <1>6, <2>1, NextIInv, StutterJInv, StutterEInv
<1>7. I /\ [EventNext]_allVars => I'
  BY <1>3, <1>4, <1>5, <1>6 DEF EventNext
<1> QED
  BY <1>1, <1>7, PTL DEF EventSpec

(* The listeners passed by event_signal, in the words of its property.     *)
LEMMA PassedNobody == EInv => SignalSkipsNobody
<1> SUFFICES ASSUME EInv, NEW c \in Core, at[c] = "scan",
                    NEW i \in 1 .. sig_slot[c] - 1,
                    listeners[sig_event[c]][i] # NULL
             PROVE  state[listeners[sig_event[c]][i]] # "WAITING"
  BY DEF SignalSkipsNobody
<1>1. sig_event[c] \in EventObject /\ sig_slot[c] \in 1 .. ListenSlots + 1
  BY DEF EInv, SignalInv, SignalOf, EventTypes
<1>2. i \in ListenSlot /\ i < sig_slot[c]
  BY <1>1, EventAssumption, SMTT(30) DEF ListenSlot
<1>3. listeners[sig_event[c]][i] \in Thread
  BY <1>1, <1>2, SMTT(30) DEF EInv, EventTypes
<1> QED
  BY <1>2, <1>3 DEF EInv, SignalInv, SignalOf, Passed

(* Arithmetic on the sizes of the tables.                                  *)
LEMMA Sizes ==
    /\ \A n, k, o \in Nat : o = n - 1 /\ n <= k + 1 /\ k <= o => k = o
    /\ \A n, k, o \in Nat : o = n - 1 /\ n <= k => o < k
    /\ \A i, j \in Nat : ~ (j < i) => i <= j
BY SMTT(30)

-----------------------------------------------------------------------------
(***************************************************************************)
(* The conclusions: counting the slots of the two tables.                  *)
(***************************************************************************)
LOCAL INSTANCE FiniteSetTheorems
LOCAL INSTANCE WellFoundedInduction

(* Tables in which all threads but one, and all threads, fit.              *)
TableFits == IsFiniteSet(Thread) /\ Cardinality(Thread) <= JoinSlots + 1
ListenFits == IsFiniteSet(Thread) /\ Cardinality(Thread) <= ListenSlots

(* The threads but one.                                                    *)
LEMMA Others ==
    ASSUME IsFiniteSet(Thread), NEW t \in Thread
    PROVE  /\ IsFiniteSet(Thread \ {t})
           /\ Cardinality(Thread) \in Nat
           /\ Cardinality(Thread \ {t}) = Cardinality(Thread) - 1
<1> QED
  BY FS_RemoveElement, FS_CardinalityType

(* joined_threads, when it is full, has them all.                          *)
LEMMA TableHasRoom == TableFits => TableRoom
<1> SUFFICES ASSUME TableFits, NEW t \in Thread, NEW f \in [Slot -> Thread \ {t}],
                    \A i, j \in Slot : f[i] = f[j] => i = j
             PROVE  \A u \in Thread \ {t} : \E i \in Slot : f[i] = u
  BY DEF TableRoom
<1> DEFINE others == Thread \ {t}
<1>1. f \in Injection(Slot, others)
  BY DEF Injection, IsInjective
<1>2. /\ IsFiniteSet(others) /\ Cardinality(Thread) \in Nat
      /\ Cardinality(others) = Cardinality(Thread) - 1
  BY Others DEF TableFits
<1>3. Cardinality(Slot) = JoinSlots
  BY SchedulerAssumption, FS_Interval, SMTT(30) DEF Slot
<1>4. /\ Cardinality(Slot) <= Cardinality(others)
      /\ Cardinality(Slot) = Cardinality(others) => f \in Surjection(Slot, others)
  BY <1>1, <1>2, FS_Injection
<1>5. f \in Surjection(Slot, others)
  <2>1. Cardinality(others) \in Nat
    BY <1>2, FS_CardinalityType, ZenonT(40)
  <2>2. Cardinality(Slot) = Cardinality(others)
    BY <1>2, <1>3, <1>4, <2>1, SchedulerAssumption, Sizes, ZenonT(40) DEF TableFits
  <2> QED
    BY <1>4, <2>2
<1> QED
  BY <1>5 DEF Surjection

(* A table of listeners has no room for all threads but one only.          *)
LEMMA ListenHasRoom == ListenFits => ListenRoom
<1> SUFFICES ASSUME ListenFits, NEW t \in Thread, NEW f \in [ListenSlot -> Thread \ {t}]
             PROVE  \E i, j \in ListenSlot : i # j /\ f[i] = f[j]
  BY DEF ListenRoom
<1> DEFINE others == Thread \ {t}
<1>1. /\ IsFiniteSet(others) /\ Cardinality(Thread) \in Nat
      /\ Cardinality(others) = Cardinality(Thread) - 1
  BY Others DEF ListenFits
<1>2. IsFiniteSet(ListenSlot) /\ Cardinality(ListenSlot) = ListenSlots
  BY EventAssumption, FS_Interval, SMTT(30) DEF ListenSlot
<1>3. Cardinality(others) < Cardinality(ListenSlot)
  <2>1. Cardinality(others) \in Nat
    BY <1>1, FS_CardinalityType
  <2> QED
    BY <1>1, <1>2, <2>1, EventAssumption, Sizes, ZenonT(40) DEF ListenFits
<1> QED
  BY <1>1, <1>2, <1>3, FS_PigeonHole, ZenonT(40)

(* A set of slots has a first one.                                         *)
LEMMA SlotsHaveFirst == FirstSlot
<1> SUFFICES ASSUME NEW S \in SUBSET ListenSlot, S # {}
             PROVE  \E i \in S : \A j \in S : i <= j
  BY DEF FirstSlot
<1>1. S \subseteq Nat
  BY EventAssumption, SMTT(30) DEF ListenSlot
<1>2. \E i \in S : \A j \in S : ~ (<<j, i>> \in OpToRel(<, Nat))
  BY <1>1, NatLessThanWellFounded, WFMin, ZenonT(40)
<1>3. PICK i \in S : \A j \in S : ~ (<<j, i>> \in OpToRel(<, Nat))
  BY <1>2
<1>4. ASSUME NEW j \in S PROVE i <= j
  <2>1. i \in Nat /\ j \in Nat
    BY <1>1
  <2>2. ~ (<<j, i>> \in {ss \in Nat \X Nat : ss[1] < ss[2]})
    BY <1>3 DEF OpToRel
  <2>3. ~ (j < i)
    <3>1. <<j, i>> \in Nat \X Nat /\ <<j, i>>[1] = j /\ <<j, i>>[2] = i
      BY <2>1
    <3> QED
      BY <2>2, <3>1
  <2> QED
    BY <2>1, <2>3, Sizes, ZenonT(40)
<1> QED
  BY <1>3, <1>4

(* So the invariants hold on one core.                                     *)
LEMMA EventsInductive == SingleCore => (EventSpec => [](IInv /\ JInv /\ EInv))
BY SlotsHaveFirst, EventsFromSlots

(* On one core: a thread that comes back from the yield of event_wait has  *)
(* received the event it waits for, although received_event is never       *)
(* cleared.                                                                *)
THEOREM ReceivesItsEvent == SingleCore => (EventSpec => []WaitReceivesItsEvent)
<1>1. IInv /\ EInv => WaitReceivesItsEvent
  <2> SUFFICES ASSUME IInv, EInv, NEW c \in Core, at[c] = "woken"
               PROVE  received_event[current[c]] = wait_event[current[c]]
    BY DEF WaitReceivesItsEvent
  <2>1. current[c] \in Thread
    BY DEF IInv, CoreInv, Executing
  <2> QED
    BY <2>1 DEF EInv, CoreWaitInv, WaitOf, Woken
<1> QED
  BY <1>1, EventsInductive, PTL

(* On one core: event_signal leaves no listener it has passed WAITING.     *)
THEOREM SignalReachesAll == SingleCore => (EventSpec => []SignalSkipsNobody)
<1> QED
  BY PassedNobody, EventsInductive, PTL

(* On one core: a thread in its own code is in no listener table, so no    *)
(* signal queues it while it runs.                                         *)
THEOREM RunsUnlisted == SingleCore => (EventSpec => []RunningIsUnlisted)
<1>1. IInv /\ EInv => RunningIsUnlisted
  <2> SUFFICES ASSUME IInv, EInv, NEW c \in Core, at[c] = "run"
               PROVE  \A e \in EventObject : SlotsOf(e, current[c]) = {}
    BY DEF RunningIsUnlisted
  <2>1. PICK t \in Thread : t = current[c] /\ wait_event[t] = NULL
    BY DEF IInv, CoreInv, Executing, EInv, CoreWaitInv, WaitOf, Outside
  <2> QED
    BY <2>1, UnlistedOutside DEF SlotsOf
<1> QED
  BY <1>1, EventsInductive, PTL

(* On one core: the scheduler's guarantees also hold of threads that wait  *)
(* for events and signal them.                                             *)
THEOREM EventsKeepSchedule ==
    SingleCore =>
        (EventSpec => [](ThreadInOnePlace /\ NoThreadLost /\ ResumesInsideYield
                         /\ JoinReturnsAfterExit))
<1>1. IInv /\ JInv => /\ ThreadInOnePlace /\ NoThreadLost
                      /\ ResumesInsideYield /\ JoinReturnsAfterExit
  BY YieldedResumes DEF IInv, JInv, ReturnInv, JoinReturnsAfterExit
<1> QED
  BY <1>1, EventsInductive, PTL

(* On one core, with room in joined_threads for all threads but one:       *)
(* schedule_thread_terminate leaves no thread asleep in a join of the      *)
(* thread that has terminated.                                             *)
THEOREM JoinersWoken == SingleCore /\ TableFits => (Spec => []NoJoinerLeftBehind)
<1> QED
  BY TableHasRoom, JoinersWokenWithRoom

(* On one core, with a listener table for all threads: a thread put to     *)
(* sleep by event_wait is in the table of its event.                       *)
THEOREM WaiterListed == SingleCore /\ ListenFits => (EventSpec => []WaiterIsListed)
<1> SUFFICES ASSUME SingleCore, ListenFits PROVE EventSpec => []WaiterIsListed
  OBVIOUS
<1>1. EInv => WaiterIsListed
  BY ListenHasRoom, SchedulerAssumption DEF EInv, WaitingInv, Asleep, InWait, WaiterIsListed
<1> QED
  BY <1>1, EventsInductive, PTL
=============================================================================
