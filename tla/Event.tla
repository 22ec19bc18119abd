------------------------------- MODULE Event -------------------------------
(***************************************************************************)
(* Events (kernel/sys/event.c) on top of the scheduler: a thread that      *)
(* calls event_wait enters the event's listener table and yields, a thread *)
(* that calls event_signal makes the listeners runnable again through      *)
(* schedule_notify (kernel/arch/scheduler.c).                              *)
(***************************************************************************)
EXTENDS Scheduler, FiniteSets

CONSTANTS EventObject,  \* the event_t objects
          ListenSlots   \* LISTEN_CAPACITY, the length of event_t.listeners

ASSUME EventAssumption ==
    /\ NULL \notin EventObject
    /\ ListenSlots \in Nat \ {0}

VARIABLES
    listeners,       \* event_t.listeners
    event_lock,      \* the core holding event_t.lock, or NULL
    received_event,  \* thread_t.received_event
    wait_event,      \* the argument of the thread's event_wait, else NULL
    sig_event,       \* the argument of the core's event_signal, else NULL
    sig_slot         \* i, the index of its scan of the listeners

signalVars == <<sig_event, sig_slot>>
eventVars == <<listeners, event_lock, received_event, wait_event, signalVars>>
allVars == <<vars, eventVars>>

ListenSlot == 1 .. ListenSlots

EventTypeOK ==
    /\ TypeOK
    /\ listeners \in [EventObject -> [ListenSlot -> Thread \cup {NULL}]]
    /\ event_lock \in [EventObject -> Core \cup {NULL}]
    /\ received_event \in [Thread -> EventObject \cup {NULL}]
    /\ wait_event \in [Thread -> EventObject \cup {NULL}]
    /\ sig_event \in [Core -> EventObject \cup {NULL}]
    /\ sig_slot \in [Core -> 1 .. ListenSlots + 1]

EventInit ==
    /\ Init
    /\ listeners = [e \in EventObject |-> [i \in ListenSlot |-> NULL]]
    /\ event_lock = [e \in EventObject |-> NULL]
    /\ received_event = [t \in Thread |-> NULL]
    /\ wait_event = [t \in Thread |-> NULL]
    /\ sig_event = [c \in Core |-> NULL]
    /\ sig_slot = [c \in Core |-> 1]

(* The slots of e that hold x.  num_listeners counts the slots that do not *)
(* hold NULL and changes with them, under the lock.                        *)
SlotsOf(e, x) == {i \in ListenSlot : listeners[e][i] = x}
num_listeners(e) == ListenSlots - Cardinality(SlotsOf(e, NULL))

(* Mutants of ReplaceFirst: the slot is not tested, and nothing is taken   *)
(* out.                                                                    *)
ReplaceAny(e, x, y) == [listeners EXCEPT ![e][1] = y]
ReplaceNever(e, x, y) ==
    IF y = NULL \/ SlotsOf(e, x) = {}
    THEN listeners
    ELSE LET i == CHOOSE k \in SlotsOf(e, x) : \A j \in SlotsOf(e, x) : k <= j
         IN  [listeners EXCEPT ![e][i] = y]

(* The loops of attach_listener and remove_listener: the first slot that   *)
(* holds x gets y; without one nothing happens.                            *)
ReplaceFirst(e, x, y) ==
    IF SlotsOf(e, x) = {}
    THEN listeners
    ELSE LET i == CHOOSE k \in SlotsOf(e, x) : \A j \in SlotsOf(e, x) : k <= j
         IN  [listeners EXCEPT ![e][i] = y]

-----------------------------------------------------------------------------
(* event_wait(e), first part: interrupts off.                              *)
event_wait(c, e) ==
    /\ MayCall(c, "wait")
    /\ wait_event' = [wait_event EXCEPT ![current[c]] = e]
    /\ Goto(c, "attach")
    /\ UNCHANGED <<current, next, frame, ipi, ready, joined, joined_lock,
                   threadVars, listeners, event_lock, received_event, signalVars>>

(* attach_listener, whose result event_wait ignores, and                   *)
(* schedule_thread_wait: yield, unless the thread is not RUNNING.          *)
attach_listener(c) ==
    LET t == current[c]
        e == wait_event[t]
    IN  /\ at[c] = "attach"
        /\ event_lock[e] = NULL
        /\ listeners' = ReplaceFirst(e, NULL, t)
        /\ IF state[t] # "RUNNING"
           THEN /\ Goto(c, "woken")
                /\ UNCHANGED yield_cause
           ELSE /\ yield_cause' = [yield_cause EXCEPT ![t] = "WAIT"]
                /\ Goto(c, "yield")
        /\ UNCHANGED <<current, next, frame, ipi, ready, joined, joined_lock,
                       state, join_thread, yield_lock, context, event_lock,
                       received_event, wait_event, signalVars>>

(* The end of event_wait: remove_listener, interrupts on.                  *)
remove_listener(c) ==
    LET t == current[c]
    IN  /\ at[c] = "woken"
        /\ event_lock[wait_event[t]] = NULL
        /\ listeners' = ReplaceFirst(wait_event[t], t, NULL)
        /\ wait_event' = [wait_event EXCEPT ![t] = NULL]
        /\ Goto(c, "run")
        /\ UNCHANGED <<current, next, frame, ipi, ready, joined, joined_lock,
                       threadVars, event_lock, received_event, signalVars>>

(* event_signal(e), first part: interrupts off.                            *)
event_signal(c, e) ==
    /\ MayCall(c, "signal")
    /\ sig_event' = [sig_event EXCEPT ![c] = e]
    /\ Goto(c, "lock")
    /\ UNCHANGED <<current, next, frame, ipi, ready, joined, joined_lock,
                   threadVars, listeners, event_lock, received_event,
                   wait_event, sig_slot>>

(* Take the event's lock; return EVENT_NO_LISTENERS when nobody listens.   *)
signal_locked(c) ==
    /\ at[c] = "lock"
    /\ event_lock[sig_event[c]] = NULL
    /\ IF num_listeners(sig_event[c]) = 0
       THEN /\ Goto(c, "run")
            /\ sig_event' = [sig_event EXCEPT ![c] = NULL]
            /\ UNCHANGED event_lock
       ELSE /\ Goto(c, "scan")
            /\ event_lock' = [event_lock EXCEPT ![sig_event[c]] = c]
            /\ UNCHANGED sig_event
    /\ UNCHANGED <<current, next, frame, ipi, ready, joined, joined_lock,
                   threadVars, listeners, received_event, wait_event, sig_slot>>

(* The listener in slot sig_slot[c] of the event core c signals.           *)
Listener(c) == listeners[sig_event[c]][sig_slot[c]]

(* Mutant of Notifiable: the state is not tested.                          *)
AnyState == ThreadState

(* The states in which schedule_notify accepts a thread.  No code of the   *)
(* kernel assigns BLOCKED.                                                 *)
Notifiable == {"WAITING", "BLOCKED"}

(* One iteration of the scan: pass over an empty slot, go on to notify a   *)
(* thread schedule_notify accepts.                                         *)
signal_scan(c) ==
    /\ at[c] = "scan"
    /\ sig_slot[c] <= ListenSlots
    /\ \/ /\ Listener(c) = NULL
          /\ sig_slot' = [sig_slot EXCEPT ![c] = @ + 1]
          /\ UNCHANGED at
       \/ /\ Listener(c) # NULL
          /\ state[Listener(c)] \in Notifiable
          /\ Goto(c, "notify")
          /\ UNCHANGED sig_slot
    /\ UNCHANGED <<current, next, frame, ipi, ready, joined, joined_lock,
                   threadVars, listeners, event_lock, received_event,
                   wait_event, sig_event>>

(* The event's lock is released and event_signal returns.                  *)
SignalReturn(c) ==
    /\ event_lock' = [event_lock EXCEPT ![sig_event[c]] = NULL]
    /\ sig_event' = [sig_event EXCEPT ![c] = NULL]
    /\ sig_slot' = [sig_slot EXCEPT ![c] = 1]
    /\ Goto(c, "run")
    /\ UNCHANGED <<current, next, frame, ipi, ready, joined, joined_lock,
                   threadVars, listeners, received_event, wait_event>>

(* schedule_notify refuses the listener: event_signal returns              *)
(* EVENT_BAD_THREAD_STATE without looking at the slots behind.             *)
signal_refused(c) ==
    /\ at[c] = "scan"
    /\ sig_slot[c] <= ListenSlots
    /\ Listener(c) # NULL
    /\ state[Listener(c)] \notin Notifiable
    /\ SignalReturn(c)

(* All slots scanned: event_signal returns EVENT_OK.                       *)
signal_done(c) ==
    /\ at[c] = "scan"
    /\ sig_slot[c] > ListenSlots
    /\ SignalReturn(c)

(* Mutants of schedule_notify: the index is advanced twice, and the event  *)
(* is not recorded.                                                        *)
notify_skips(c) ==
    LET u == Listener(c)
    IN  /\ at[c] = "notify"
        /\ received_event' = [received_event EXCEPT ![u] = sig_event[c]]
        /\ state' = [state EXCEPT ![u] = "RUNNABLE"]
        /\ ready' = schedule_add_thread(ready, u)
        /\ sig_slot' = [sig_slot EXCEPT ![c] = @ + 2]
        /\ Goto(c, "scan")
        /\ UNCHANGED <<current, next, frame, ipi, joined, joined_lock,
                       join_thread, yield_cause, yield_lock, context,
                       listeners, event_lock, wait_event, sig_event>>
notify_unrecorded(c) ==
    LET u == Listener(c)
    IN  /\ at[c] = "notify"
        /\ state' = [state EXCEPT ![u] = "RUNNABLE"]
        /\ ready' = schedule_add_thread(ready, u)
        /\ sig_slot' = [sig_slot EXCEPT ![c] = @ + 1]
        /\ Goto(c, "scan")
        /\ UNCHANGED <<current, next, frame, ipi, joined, joined_lock,
                       join_thread, yield_cause, yield_lock, context, listeners,
                       event_lock, received_event, wait_event, sig_event>>

(* schedule_notify after its test of the state: record the event, make the *)
(* thread RUNNABLE and queue it.                                           *)
schedule_notify(c) ==
    LET u == Listener(c)
    IN  /\ at[c] = "notify"
        /\ received_event' = [received_event EXCEPT ![u] = sig_event[c]]
        /\ state' = [state EXCEPT ![u] = "RUNNABLE"]
        /\ ready' = schedule_add_thread(ready, u)
        /\ sig_slot' = [sig_slot EXCEPT ![c] = @ + 1]
        /\ Goto(c, "scan")
        /\ UNCHANGED <<current, next, frame, ipi, joined, joined_lock,
                       join_thread, yield_cause, yield_lock, context,
                       listeners, event_lock, wait_event, sig_event>>

-----------------------------------------------------------------------------
InEventCall(c) == \/ attach_listener(c)
                  \/ remove_listener(c)
                  \/ signal_locked(c)
                  \/ signal_scan(c)
                  \/ signal_refused(c)
                  \/ signal_done(c)
                  \/ schedule_notify(c)

EventCall(c) == \E e \in EventObject : event_wait(c, e) \/ event_signal(c, e)

EventNext == \E c \in Core : \/ Step(c) /\ UNCHANGED eventVars
                             \/ InEventCall(c)
                             \/ EventCall(c)

EventSpec == EventInit /\ [][EventNext]_allVars

EventFairness ==
    \A c \in Core : /\ WF_allVars(Handler(c) /\ UNCHANGED eventVars)
                    /\ WF_allVars(InCall(c) /\ UNCHANGED eventVars)
                    /\ WF_allVars(InEventCall(c))
                    /\ SF_allVars(lapic_time_handler(c) /\ UNCHANGED eventVars)

EventFairSpec == EventSpec /\ EventFairness

-----------------------------------------------------------------------------
(* A thread that waits for an event is in the table of that event, where   *)
(* event_signal will find it.                                              *)
WaiterIsListed ==
    \A t \in Thread : state[t] = "WAITING" => SlotsOf(wait_event[t], t) # {}

(* event_wait returns EVENT_OK: a thread resumed from schedule_thread_wait *)
(* was resumed by the event it waits for, not by the one of an earlier     *)
(* wait that received_event may still hold.                                *)
WaitReceivesItsEvent ==
    \A c \in Core : at[c] = "woken" =>
        received_event[current[c]] = wait_event[current[c]]

(* While event_signal scans, every listener it has passed was made         *)
(* runnable: none of them is still WAITING.                                *)
SignalSkipsNobody ==
    \A c \in Core : at[c] = "scan" =>
        \A i \in 1 .. sig_slot[c] - 1 :
            LET u == listeners[sig_event[c]][i]
            IN  u # NULL => state[u] # "WAITING"

(* Leaving event_wait a thread is in no listener table, so that no later   *)
(* signal can queue it while it runs.                                      *)
RunningIsUnlisted ==
    \A c \in Core : at[c] = "run" =>
        \A e \in EventObject : SlotsOf(e, current[c]) = {}

(* The comment in event_signal on the refusal of schedule_notify: the      *)
(* thread it tries to notify is not yet blocked, that is, it is a core's   *)
(* current thread on its way into the wait.                                *)
RefusedIsNotYetBlocked ==
    \A c \in Core :
        /\ at[c] = "scan" /\ sig_slot[c] <= ListenSlots
        /\ Listener(c) # NULL /\ state[Listener(c)] \notin Notifiable
        => \E d \in Core : current[d] = Listener(c) /\ at[d] \in {"yield", "spin"}

(* A signalled thread runs again: once schedule_notify has been reached    *)
(* for a listener, it is resumed.                                          *)
SignalledRuns ==
    \A t \in Thread :
        (\E c \in Core : at[c] = "notify" /\ Listener(c) = t)
        ~> (state[t] = "RUNNING")
=============================================================================
