----------------------------- MODULE Scheduler -----------------------------
(***************************************************************************)
(* The thread scheduler of the kernel: kernel/arch/scheduler.c together    *)
(* with the two local-APIC interrupt handlers that switch threads          *)
(* (kernel/devices/lapic.c) and the register image each thread keeps       *)
(* (kernel/arch/cpu.c, save_context).                                      *)
(*                                                                         *)
(* A core executes either a thread or one of the interrupt handlers; at[c] *)
(* is the place it has reached.  Interrupts are accepted only at the       *)
(* places in InterruptsOn, so a place stands for the IF flag as well.      *)
(* Code between two places runs with interrupts off and touches shared     *)
(* memory only once, or only under ready_queue_lock: it is one step.       *)
(***************************************************************************)
EXTENDS Naturals, Sequences

CONSTANTS Core,       \* the processor cores
          Thread,     \* the thread control blocks the kernel may create
          Main,       \* kmain's thread, the only one queued at boot
          Idle,       \* stands for the idle thread of whichever core runs it
          NULL,       \* the null pointer
          JoinSlots,  \* QUEUE_MAX, the length of joined_threads
          Calls       \* the calls into the scheduler and events threads make

ASSUME SchedulerAssumption ==
    /\ Core # {}
    /\ Main \in Thread
    /\ Idle \notin Thread /\ NULL \notin Thread /\ Idle # NULL
    /\ JoinSlots \in Nat
    /\ Calls \subseteq {"spawn", "join", "exit", "wait", "signal"}

VARIABLES
    current,      \* core_t.current_thread
    at,           \* the place in the code each core has reached
    next,         \* next_thread, local to schedule_next_thread
    frame,        \* the ctx argument of lapic_ipi_handler: where it struck
                  \* ("idle" outside the handler)
    ipi,          \* the cores whose self-IPI is pending in their local APIC
    ready,        \* the ready list from head to tail
    joined,       \* joined_threads
    joined_lock,  \* the core holding joined_queue_lock, or NULL
    state,        \* thread_t.state, "UNUSED" before the thread is created
    join_thread,  \* thread_t.join_thread
    yield_cause,  \* thread_t.yield_cause
    yield_lock,   \* thread_t.yield_lock, 1 when taken
    context       \* thread_t.context: the place the thread resumes at

threadVars == <<state, join_thread, yield_cause, yield_lock, context>>
coreVars == <<current, at, next, frame, ipi>>
vars == <<coreVars, ready, joined, joined_lock, threadVars>>

NoCause == "NONE"
YieldCause == {NoCause, "WAIT", "TERMINATE", "JOIN"}
ThreadState == {"UNUSED", "CREATED", "RUNNABLE", "BLOCKED", "WAITING",
                "JOINED", "DELAYED", "RUNNING", "ZOMBIE"}

(***************************************************************************)
(* Places.  run: a thread's own code.  yield: the critical section of      *)
(* schedule_thread_yield.  spin: its wait for the IPI and, once resumed,   *)
(* for its own yield_lock.  halt: the hlt of a thread that will not        *)
(* return.  join, exit, wake: inside schedule_thread_join and              *)
(* schedule_thread_terminate.  attach, woken, lock, scan, notify: inside   *)
(* event_wait and event_signal (module Event).  save, next, entry: inside  *)
(* the interrupt handlers, schedule_next_thread and thread_entry.          *)
(***************************************************************************)
InterruptsOn == {"run", "spin", "halt", "idle"}
HandlerPlace == {"save", "next", "entry"}
CallPlace == {"yield", "join", "exit", "wake", "attach", "woken",
              "lock", "scan", "notify"}
Place == InterruptsOn \cup HandlerPlace \cup CallPlace

Slot == 1 .. JoinSlots

TypeOK ==
    /\ current \in [Core -> Thread \cup {Idle, NULL}]
    /\ at \in [Core -> Place]
    /\ next \in [Core -> Thread \cup {Idle, NULL}]
    /\ frame \in [Core -> InterruptsOn]
    /\ ipi \in SUBSET Core
    /\ ready \in Seq(Thread)
    /\ joined \in [Slot -> Thread \cup {NULL}]
    /\ joined_lock \in Core \cup {NULL}
    /\ state \in [Thread -> ThreadState]
    /\ join_thread \in [Thread -> Thread \cup {NULL}]
    /\ yield_cause \in [Thread -> YieldCause]
    /\ yield_lock \in [Thread -> {0, 1}]
    /\ context \in [Thread -> InterruptsOn]

-----------------------------------------------------------------------------
(* Mutants of schedule_add_thread: it links in front, and it forgets the   *)
(* threads already linked.                                                 *)
add_in_front(q, t) == <<t>> \o q
add_to_empty(q, t) == <<t>>

(***************************************************************************)
(* schedule_add_thread links the thread behind tail and clears its next    *)
(* pointer without looking whether it is linked already.  A thread that    *)
(* is in the list therefore becomes its last element: what was queued      *)
(* behind it is cut off.                                                   *)
(***************************************************************************)
schedule_add_thread(q, t) ==
    IF \E i \in 1 .. Len(q) : q[i] = t
    THEN SubSeq(q, 1, CHOOSE i \in 1 .. Len(q) : q[i] = t)
    ELSE Append(q, t)

(* Mutant of pop_thread_from_queue: head is not advanced.                  *)
pop_without_unlink(q) == q

(* The list once its head is popped.                                       *)
pop_thread_from_queue(q) == IF q = <<>> THEN q ELSE Tail(q)

Goto(c, place) == at' = [at EXCEPT ![c] = place]

(***************************************************************************)
(* A call a thread can make: the core runs one of the workload's threads,  *)
(* in its own code.                                                        *)
(***************************************************************************)
MayCall(c, call) ==
    /\ call \in Calls
    /\ at[c] = "run"

(* core_init ends in schedule_next_thread on every core; init_cpu has      *)
(* queued kmain's thread, which create_kernel_thread left CREATED with     *)
(* thread_wrapper in its context.  It does not initialise yield_lock;      *)
(* thread_entry writes it before anything reads it.                        *)
Init ==
    /\ current = [c \in Core |-> NULL]
    /\ at = [c \in Core |-> "next"]
    /\ next = [c \in Core |-> NULL]
    /\ frame = [c \in Core |-> "idle"]
    /\ ipi = {}
    /\ ready = <<Main>>
    /\ joined = [i \in Slot |-> NULL]
    /\ joined_lock = NULL
    /\ state = [t \in Thread |-> IF t = Main THEN "CREATED" ELSE "UNUSED"]
    /\ join_thread = [t \in Thread |-> NULL]
    /\ yield_cause = [t \in Thread |-> NoCause]
    /\ yield_lock = [t \in Thread |-> 0]
    /\ context = [t \in Thread |-> "run"]

-----------------------------------------------------------------------------
(***************************************************************************)
(* Interrupt handlers and the switch to the next thread.                   *)
(***************************************************************************)

(* lapic_time_handler: save the registers, queue the thread unless it is   *)
(* the idle thread, and switch.  The state field stays RUNNING.  The PS/2  *)
(* handlers end in the same way.  A pending IPI has the higher vector and  *)
(* is taken first.                                                         *)
lapic_time_handler(c) ==
    /\ at[c] \in InterruptsOn
    /\ c \notin ipi
    /\ IF current[c] = Idle
       THEN UNCHANGED <<context, ready>>
       ELSE /\ context' = [context EXCEPT ![current[c]] = at[c]]
            /\ ready' = schedule_add_thread(ready, current[c])
    /\ Goto(c, "next")
    /\ UNCHANGED <<current, next, frame, ipi, joined, joined_lock, state,
                   join_thread, yield_cause, yield_lock>>

(* Mutant of StateAfterYield: the cause is stored for the state.           *)
StateIsCause(cause, old) == IF cause = NoCause THEN old ELSE cause

StateAfterYield(cause, old) ==
    IF cause = "TERMINATE" THEN "ZOMBIE"
    ELSE IF cause = "WAIT" THEN "WAITING"
    ELSE IF cause = "JOIN" THEN "JOINED"
    ELSE old

(* lapic_ipi_handler up to the state assignment.  thread_destroy, called   *)
(* for a terminated thread, frees nothing: its tests are for null          *)
(* pointers.  From here on another core can see the new state, although    *)
(* the registers are not saved yet.                                        *)
lapic_ipi_handler(c) ==
    /\ at[c] \in InterruptsOn
    /\ c \in ipi
    /\ ipi' = ipi \ {c}
    /\ frame' = [frame EXCEPT ![c] = at[c]]
    /\ state' = [state EXCEPT
                    ![current[c]] = StateAfterYield(yield_cause[current[c]], @)]
    /\ Goto(c, "save")
    /\ UNCHANGED <<current, next, ready, joined, joined_lock, join_thread,
                   yield_cause, yield_lock, context>>

(* Mutant of save_context: the registers of the yield are not saved.       *)
save_context_skipped(c) ==
    /\ at[c] = "save"
    /\ frame' = [frame EXCEPT ![c] = "idle"]
    /\ Goto(c, "next")
    /\ UNCHANGED <<current, next, ipi, ready, joined, joined_lock, threadVars>>

(* The rest of lapic_ipi_handler: save_context.                            *)
save_context(c) ==
    /\ at[c] = "save"
    /\ context' = [context EXCEPT ![current[c]] = frame[c]]
    /\ frame' = [frame EXCEPT ![c] = "idle"]
    /\ Goto(c, "next")
    /\ UNCHANGED <<current, next, ipi, ready, joined, joined_lock, state,
                   join_thread, yield_cause, yield_lock>>

(* The idle thread of the core stands in when the list is empty.           *)
schedule_next_thread(c) ==
    /\ at[c] = "next"
    /\ next' = [next EXCEPT ![c] = IF ready = <<>> THEN Idle ELSE Head(ready)]
    /\ ready' = pop_thread_from_queue(ready)
    /\ Goto(c, "entry")
    /\ UNCHANGED <<current, frame, ipi, joined, joined_lock, threadVars>>

(* thread_entry and thread_switch: the thread becomes current and RUNNING, *)
(* its yield_lock is released, and the iretq resumes its saved context.    *)
thread_entry(c) ==
    /\ at[c] = "entry"
    /\ current' = [current EXCEPT ![c] = next[c]]
    /\ next' = [next EXCEPT ![c] = NULL]
    /\ IF next[c] = Idle
       THEN /\ Goto(c, "idle")
            /\ UNCHANGED <<state, yield_lock>>
       ELSE /\ Goto(c, context[next[c]])
            /\ state' = [state EXCEPT ![next[c]] = "RUNNING"]
            /\ yield_lock' = [yield_lock EXCEPT ![next[c]] = 0]
    /\ UNCHANGED <<frame, ipi, ready, joined, joined_lock, join_thread,
                   yield_cause, context>>

-----------------------------------------------------------------------------
(***************************************************************************)
(* schedule_thread_yield.                                                  *)
(***************************************************************************)

(* The critical section: take yield_lock (a thread that terminates does    *)
(* not), send the self-IPI, enable interrupts.  The timer has been stopped *)
(* (its count is 0) and the IPI is latched by the local APIC before the    *)
(* write that sends it completes, so it is the next interrupt taken.       *)
schedule_thread_yield(c) ==
    LET t == current[c]
        no_return == yield_cause[t] = "TERMINATE"
    IN  /\ at[c] = "yield"
        /\ IF no_return
           THEN UNCHANGED yield_lock
           ELSE /\ yield_lock[t] = 0
                /\ yield_lock' = [yield_lock EXCEPT ![t] = 1]
        /\ ipi' = ipi \cup {c}
        /\ Goto(c, IF no_return THEN "halt" ELSE "spin")
        /\ UNCHANGED <<current, next, frame, ready, joined, joined_lock, state,
                       join_thread, yield_cause, context>>

(* Mutant of yield_return: yield_lock is acquired and not released.        *)
yield_return_locked(c) ==
    /\ at[c] = "spin"
    /\ c \notin ipi
    /\ yield_lock[current[c]] = 0
    /\ yield_lock' = [yield_lock EXCEPT ![current[c]] = 1]
    /\ Goto(c, IF yield_cause[current[c]] = "WAIT" THEN "woken" ELSE "run")
    /\ UNCHANGED <<current, next, frame, ipi, ready, joined, joined_lock,
                   state, join_thread, yield_cause, context>>

(* Back in schedule_thread_yield: acquire and release yield_lock, which    *)
(* thread_entry has released, and return to the caller.                    *)
yield_return(c) ==
    /\ at[c] = "spin"
    /\ c \notin ipi
    /\ yield_lock[current[c]] = 0
    /\ Goto(c, IF yield_cause[current[c]] = "WAIT" THEN "woken" ELSE "run")
    /\ UNCHANGED <<current, next, frame, ipi, ready, joined, joined_lock,
                   threadVars>>

-----------------------------------------------------------------------------
(***************************************************************************)
(* The calls threads make.                                                 *)
(***************************************************************************)

(* create_kernel_thread or create_user_thread, then schedule_add_thread,   *)
(* as in init_cpu, create_user_process and the socket test.                *)
spawn(c, u) ==
    /\ MayCall(c, "spawn")
    /\ state[u] = "UNUSED"
    /\ state' = [state EXCEPT ![u] = "CREATED"]
    /\ ready' = schedule_add_thread(ready, u)
    /\ UNCHANGED <<coreVars, joined, joined_lock, join_thread, yield_cause,
                   yield_lock, context>>

(* schedule_thread_join(u), first part: interrupts off, record the target. *)
schedule_thread_join(c, u) ==
    /\ MayCall(c, "join")
    /\ state[u] # "UNUSED"
    /\ u # current[c]
    /\ join_thread' = [join_thread EXCEPT ![current[c]] = u]
    /\ Goto(c, "join")
    /\ UNCHANGED <<current, next, frame, ipi, ready, joined, joined_lock, state,
                   yield_cause, yield_lock, context>>

(* The first free slot takes the thread; when there is none, nothing is    *)
(* recorded and the thread goes to sleep all the same.                     *)
EnterJoined(t) ==
    IF \E i \in Slot : joined[i] = NULL
    THEN \E i \in Slot : /\ joined[i] = NULL
                         /\ \A j \in Slot : joined[j] = NULL => i <= j
                         /\ joined' = [joined EXCEPT ![i] = t]
    ELSE UNCHANGED joined

(* The section under joined_queue_lock: return at once when the target is  *)
(* a ZOMBIE, otherwise enter the table and yield.                          *)
join_locked(c) ==
    LET t == current[c]
    IN  /\ at[c] = "join"
        /\ joined_lock = NULL
        /\ IF state[join_thread[t]] = "ZOMBIE"
           THEN /\ Goto(c, "run")
                /\ UNCHANGED <<joined, yield_cause>>
           ELSE /\ EnterJoined(t)
                /\ yield_cause' = [yield_cause EXCEPT ![t] = "JOIN"]
                /\ Goto(c, "yield")
        /\ UNCHANGED <<current, next, frame, ipi, ready, joined_lock, state,
                       join_thread, yield_lock, context>>

(* schedule_thread_terminate, called by the thread or by thread_wrapper    *)
(* when its function returns: interrupts off, then joined_queue_lock.      *)
schedule_thread_terminate(c) ==
    /\ MayCall(c, "exit")
    /\ Goto(c, "exit")
    /\ UNCHANGED <<current, next, frame, ipi, ready, joined, joined_lock,
                   threadVars>>

terminate_locked(c) ==
    /\ at[c] = "exit"
    /\ joined_lock = NULL
    /\ joined_lock' = c
    /\ Goto(c, "wake")
    /\ UNCHANGED <<current, next, frame, ipi, ready, joined, threadVars>>

(* Mutants of JoinersOf: the last slot is not scanned, and the target of   *)
(* the join is not compared.                                               *)
JoinersButLast(t) ==
    {i \in Slot : i < JoinSlots /\ joined[i] # NULL /\ join_thread[joined[i]] = t}
AllJoiners(t) == {i \in Slot : joined[i] # NULL}

JoinersOf(t) == {i \in Slot : joined[i] # NULL /\ join_thread[joined[i]] = t}

(* One joiner in slot order is made RUNNABLE, queued and taken out of the  *)
(* table.                                                                  *)
wake_joined(c) ==
    /\ at[c] = "wake"
    /\ \E i \in JoinersOf(current[c]) :
          /\ \A j \in JoinersOf(current[c]) : i <= j
          /\ state' = [state EXCEPT ![joined[i]] = "RUNNABLE"]
          /\ ready' = schedule_add_thread(ready, joined[i])
          /\ joined' = [joined EXCEPT ![i] = NULL]
    /\ UNCHANGED <<coreVars, joined_lock, join_thread, yield_cause,
                   yield_lock, context>>

(* The table is scanned: unlock and yield without return.                  *)
terminate_yield(c) ==
    /\ at[c] = "wake"
    /\ JoinersOf(current[c]) = {}
    /\ joined_lock' = NULL
    /\ yield_cause' = [yield_cause EXCEPT ![current[c]] = "TERMINATE"]
    /\ Goto(c, "yield")
    /\ UNCHANGED <<current, next, frame, ipi, ready, joined, state, join_thread,
                   yield_lock, context>>

-----------------------------------------------------------------------------
Handler(c) == \/ lapic_ipi_handler(c)
              \/ save_context(c)
              \/ schedule_next_thread(c)
              \/ thread_entry(c)

(* Code that runs with interrupts off, or that only waits for a lock.      *)
InCall(c) == \/ schedule_thread_yield(c)
             \/ yield_return(c)
             \/ join_locked(c)
             \/ terminate_locked(c)
             \/ wake_joined(c)
             \/ terminate_yield(c)

Call(c) == \/ \E u \in Thread : spawn(c, u)
           \/ \E u \in Thread : schedule_thread_join(c, u)
           \/ schedule_thread_terminate(c)

Step(c) == Handler(c) \/ InCall(c) \/ Call(c) \/ lapic_time_handler(c)

Next == \E c \in Core : Step(c)

Spec == Init /\ [][Next]_vars

(***************************************************************************)
(* A core never stops: handlers and calls run to their end, and since      *)
(* thread_switch arms the timer on every switch and the local APIC keeps   *)
(* an expired timer pending while interrupts are off, a core that is       *)
(* interruptible again and again is interrupted.  What a thread does in    *)
(* its own code is up to it.                                               *)
(***************************************************************************)
Fairness == \A c \in Core : /\ WF_vars(Handler(c))
                            /\ WF_vars(InCall(c))
                            /\ SF_vars(lapic_time_handler(c))

FairSpec == Spec /\ Fairness

-----------------------------------------------------------------------------
(***************************************************************************)
(* Properties.                                                             *)
(***************************************************************************)
ReadyThreads == {ready[i] : i \in 1 .. Len(ready)}

(* The thread a core has in hand: after thread_entry the current one, from *)
(* pop_thread_from_queue to thread_entry the one popped, and none between  *)
(* the end of the handler's bookkeeping and the pop.                       *)
Held == [c \in Core |-> IF at[c] = "next" THEN NULL
                        ELSE IF at[c] = "entry" THEN next[c]
                        ELSE current[c]]

(* A thread is in one place: the ready list never links a thread twice     *)
(* (schedule_add_thread would cut the list there), never links one that a  *)
(* core has in hand, and no two cores have the same thread in hand, which  *)
(* would run it twice on one stack.                                        *)
ThreadInOnePlace ==
    /\ \A i, j \in 1 .. Len(ready) : ready[i] = ready[j] => i = j
    /\ \A c \in Core : Held[c] \notin ReadyThreads
    /\ \A c, d \in Core : c # d /\ Held[c] = Held[d] => Held[c] \notin Thread

(* No thread is lost: one that is CREATED, RUNNABLE or RUNNING is in the   *)
(* ready list or in the hands of a core.                                   *)
NoThreadLost ==
    \A t \in Thread : state[t] \in {"CREATED", "RUNNABLE", "RUNNING"} =>
        t \in ReadyThreads \/ \E c \in Core : Held[c] = t

(* schedule_thread_terminate wakes the joined threads that wait for the    *)
(* thread: none is left JOINED once its target is a ZOMBIE.                *)
NoJoinerLeftBehind ==
    \A t \in Thread :
        state[t] = "JOINED" => state[join_thread[t]] # "ZOMBIE"

(* A thread that comes back from schedule_thread_join finds its target     *)
(* terminated.  On one core only: schedule_thread_terminate makes the      *)
(* joiner runnable (scheduler.c:224-228) before its own IPI makes it a     *)
(* ZOMBIE (lapic.c:58), and another core may run the joiner in between.    *)
JoinReturnsAfterExit ==
    \A c \in Core :
        /\ at[c] = "spin" /\ c \notin ipi
        /\ yield_cause[current[c]] = "JOIN"
        => state[join_thread[current[c]]] = "ZOMBIE"

(* A thread that yielded is switched back to inside schedule_thread_yield, *)
(* where it waits, never to a place it had left before: while its          *)
(* yield_lock is taken the saved context is the one of the yield.          *)
ResumesInsideYield ==
    \A c \in Core :
        at[c] = "entry" /\ next[c] \in Thread /\ yield_lock[next[c]] = 1
        => context[next[c]] = "spin"

(* The acquisition of yield_lock in the critical section of                *)
(* schedule_thread_yield, made with interrupts off, never has to wait.     *)
YieldLockFree ==
    \A c \in Core : at[c] = "yield" => yield_lock[current[c]] = 0

(* Round-robin scheduling: a queued thread gets a core.                    *)
RoundRobin ==
    \A t \in Thread :
        (t \in ReadyThreads) ~> (\E c \in Core : current[c] = t)

(* A joined thread runs again if the thread it waits for terminates.       *)
JoinerResumes ==
    \A t, u \in Thread :
        (state[t] = "JOINED" /\ join_thread[t] = u /\ <>(state[u] = "ZOMBIE"))
        ~> (state[t] = "RUNNING")
=============================================================================
