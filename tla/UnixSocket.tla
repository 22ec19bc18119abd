----------------------------- MODULE UnixSocket -----------------------------
(***************************************************************************)
(* Unix domain sockets (kernel/sockets/unix_socket.c, socket.c) over ring  *)
(* buffers and events.  The ring of a socket is the queue ByteQueue says   *)
(* it is.  An event is its listeners and how far they are into event_wait  *)
(* (module Event): listed, asleep, or woken and still listed.  A woken     *)
(* thread was woken by the event it waits for (WaitReceivesItsEvent there),*)
(* so event_wait returns EVENT_OK.  One path names a socket.  A call with  *)
(* O_NONBLOCK changes nothing where the blocking one would wait.           *)
(*                                                                         *)
(* What runs under the lock of one socket is one step (recv and send let   *)
(* the lock go once more between their test of the state and their loop),  *)
(* except where it writes to a socket whose lock it does not hold: accept. *)
(* Only getpeername takes a second lock while it holds the first.  A call  *)
(* through a NULL pointer stops the kernel.  socket_init does not          *)
(* initialise the events of a socket: they are taken to lie in zeroed      *)
(* memory, without listeners.                                              *)
(***************************************************************************)
EXTENDS Integers, Sequences, FiniteSets, Functions

CONSTANTS Thread,    \* the kernel threads that use sockets
          NULL,
          Calls,     \* Calls[t], the operations thread t performs
          Sockets,   \* bound: sockets that can be created
          Capacity,  \* UNIX_SOCK_BUFF_SIZE
          Backlog,   \* the argument of listen
          MaxBound,  \* bound: sockets that are bound or listen
          MaxSend    \* bound: MaxSend[t], bytes thread t sends

Socket == 1 .. Sockets
NoNode == 0

VARIABLES skt,   \* the fields of a socket; ring is its ring buffer, sent and
                 \* got the bytes it has sent and received
          owner, \* the thread that uses a socket, NULL before its creation
          bound, \* fs_data of the node the path names, NoNode without one
          lock,  \* the thread holding a socket's lock between two steps
          thr    \* a thread: pc, the call it is in, the socket it works on,
                 \* and the one it found or made, the length it sends, and the
                 \* event it waits for

vars == <<skt, owner, bound, lock, thr>>

(* socket_init, and a thread outside of any call.                          *)
Created == [state |-> "CREATED", peer |-> NULL, backlog |-> <<>>, capacity |-> 0,
            ring |-> <<>>, sent |-> 0, got |-> <<>>]
Idle == [pc |-> "idle", op |-> "none", this |-> NULL, new |-> NULL, len |-> 0,
         event |-> NULL]

Init ==
    /\ skt = [s \in Socket |-> Created]
    /\ owner = [s \in Socket |-> NULL]
    /\ bound = NoNode
    /\ lock = [s \in Socket |-> NULL]
    /\ thr = [t \in Thread |-> Idle]

-----------------------------------------------------------------------------
(* event_signal(e), given the threads: nobody listens or a listener is not *)
(* asleep gives an error, in the second case after some listeners were     *)
(* woken.  Signals(e, f) are the outcomes: the threads, and ok.            *)
Listeners(e) == {t \in Thread : thr[t].pc \in {"listed", "asleep", "woken"} /\ thr[t].event = e}
Asleep(e) == {t \in Listeners(e) : thr[t].pc = "asleep"}
Woken(f, W) == [t \in Thread |-> IF t \in W THEN [f[t] EXCEPT !.pc = "woken"] ELSE f[t]]
Signals(e, f) ==
    IF Listeners(e) # {} /\ Asleep(e) = Listeners(e)
    THEN {[thr |-> Woken(f, Asleep(e)), ok |-> TRUE]}
    ELSE {[thr |-> Woken(f, W), ok |-> FALSE] : W \in SUBSET Asleep(e)}

(* A call enters its loop, returns, or waits in the loop for event e.      *)
Call(t, op, s) == [thr EXCEPT ![t].pc = op, ![t].op = op, ![t].this = s]
Return(t) == [thr EXCEPT ![t] = Idle]
Stopped == [t \in Thread |-> [Idle EXCEPT !.pc = "stopped"]]
event_wait(t, s, e) == [thr EXCEPT ![t].pc = "wait", ![t].event = <<s, e>>]

attach_listener(t) ==
    /\ thr[t].pc = "wait"
    /\ thr' = [thr EXCEPT ![t].pc = "listed"]
    /\ UNCHANGED <<skt, owner, bound, lock>>

schedule_thread_wait(t) ==
    /\ thr[t].pc = "listed"
    /\ thr' = [thr EXCEPT ![t].pc = "asleep"]
    /\ UNCHANGED <<skt, owner, bound, lock>>

(* Back from event_wait: accept, recv and send test again, connect is      *)
(* done.                                                                   *)
remove_listener(t) ==
    /\ thr[t].pc = "woken"
    /\ thr' = IF thr[t].op = "connect" THEN Return(t)
              ELSE [thr EXCEPT ![t].pc = thr[t].op]
    /\ UNCHANGED <<skt, owner, bound, lock>>

-----------------------------------------------------------------------------
MayCall(t, op) == thr[t].pc = "idle" /\ op \in Calls[t]
Mine(t) == {s \in Socket : owner[s] = t}
Fresh == {s \in Socket : owner[s] = NULL /\ \A r \in Socket : r < s => owner[r] # NULL}

unix_socket_create(t) ==
    /\ MayCall(t, "create")
    /\ \E s \in Fresh : owner' = [owner EXCEPT ![s] = t]
    /\ UNCHANGED <<skt, bound, lock, thr>>

(* bind creates the node (a second one of that name is never found), then  *)
(* opens it and sets its fs_data, then the state of the socket.            *)
unix_socket_bind(t, s) ==
    /\ MayCall(t, "bind")
    /\ Cardinality({r \in Socket : skt[r].state \in {"BOUNDED", "LISTENING"}}) < MaxBound
    /\ bound' = IF bound = NoNode THEN NULL ELSE bound
    /\ thr' = Call(t, "bind", s)
    /\ UNCHANGED <<skt, owner, lock>>

bind_open(t) ==
    /\ thr[t].pc = "bind"
    /\ bound' = thr[t].this
    /\ thr' = [thr EXCEPT ![t].pc = "bind_state"]
    /\ UNCHANGED <<skt, owner, lock>>

bind_locked(t) ==
    /\ thr[t].pc = "bind_state"
    /\ lock[thr[t].this] = NULL
    /\ skt' = [skt EXCEPT ![thr[t].this].state = "BOUNDED"]
    /\ thr' = Return(t)
    /\ UNCHANGED <<owner, bound, lock>>

unix_socket_listen(t, s) ==
    /\ MayCall(t, "listen")
    /\ skt[s].state = "BOUNDED"
    /\ lock[s] = NULL
    /\ skt' = [skt EXCEPT ![s].state = "LISTENING", ![s].capacity = Backlog,
                          ![s].backlog = <<>>]
    /\ UNCHANGED <<owner, bound, lock, thr>>

(* backlog and backlog_size as a sequence of that length.  Taking out the  *)
(* entry at i moves the others down and leaves the length: the last entry  *)
(* is there twice.  socket_pop_from_backlog takes the first one.           *)
Moved(b, i) == [k \in 1 .. Len(b) |-> IF k < i \/ k = Len(b) THEN b[k] ELSE b[k + 1]]

socket_backlog_remove(b, s) ==
    Moved(b, CHOOSE i \in 1 .. Len(b) : b[i] = s /\ \A j \in 1 .. i - 1 : b[j] # s)

(* accept creates the socket to return, then takes a client off the        *)
(* backlog, waiting while there is none.                                   *)
unix_socket_accept(t, s) ==
    /\ MayCall(t, "accept")
    /\ skt[s].state = "LISTENING"
    /\ \E n \in Fresh : /\ owner' = [owner EXCEPT ![n] = t]
                        /\ thr' = [Call(t, "accept", s) EXCEPT ![t].new = n]
    /\ UNCHANGED <<skt, bound, lock>>

(* With a client, accept keeps the listener's lock and fills in the new    *)
(* socket, which nobody else knows of yet.                                 *)
accept_locked(t) ==
    LET s == thr[t].this
        n == thr[t].new
    IN  /\ thr[t].pc = "accept"
        /\ lock[s] = NULL
        /\ IF skt[s].backlog = <<>>
           THEN thr' = event_wait(t, s, "connection_request") /\ UNCHANGED <<skt, lock>>
           ELSE /\ skt' = [skt EXCEPT ![s].backlog = Moved(@, 1), ![n].state = "CONNECTED",
                                      ![n].peer = skt[s].backlog[1]]
                /\ lock' = [lock EXCEPT ![s] = t]
                /\ thr' = [thr EXCEPT ![t].pc = "accept_peer"]
        /\ UNCHANGED <<owner, bound>>

(* The client of the accept of t.                                          *)
Client(t) == skt[thr[t].new].peer

(* Mutant of PeerOrState: the state is written before the peer.            *)
StateThenPeer(k, n, first) ==
    IF first THEN [skt EXCEPT ![k].state = "CONNECTED"] ELSE [skt EXCEPT ![k].peer = n]

(* What the first and the second write to the client k change.             *)
PeerOrState(k, n, first) ==
    IF first THEN [skt EXCEPT ![k].peer = n] ELSE [skt EXCEPT ![k].state = "CONNECTED"]

(* The client's peer and then its state, without the client's lock.        *)
accept_peer(t) ==
    /\ thr[t].pc = "accept_peer"
    /\ skt' = PeerOrState(Client(t), thr[t].new, TRUE)
    /\ thr' = [thr EXCEPT ![t].pc = "accept_state"]
    /\ UNCHANGED <<owner, bound, lock>>

accept_state(t) ==
    /\ thr[t].pc = "accept_state"
    /\ skt' = PeerOrState(Client(t), thr[t].new, FALSE)
    /\ thr' = [thr EXCEPT ![t].pc = "accept_signal"]
    /\ UNCHANGED <<owner, bound, lock>>

accept_signal(t) ==
    /\ thr[t].pc = "accept_signal"
    /\ \E o \in Signals(<<Client(t), "connection_accepted">>, thr) :
          thr' = [o.thr EXCEPT ![t] = Idle]
    /\ lock' = [lock EXCEPT ![thr[t].this] = NULL]
    /\ UNCHANGED <<skt, owner, bound>>

(* connect tests the state and follows the fs_data of the node before it   *)
(* takes the lock of the listener; then it enters the backlog, signals,    *)
(* and waits to be accepted.                                               *)
unix_socket_connect(t, s) ==
    /\ MayCall(t, "connect")
    /\ thr' = CASE skt[s].state # "CREATED" -> Return(t)
                [] skt[s].state = "CREATED" /\ bound = NoNode -> Return(t)
                [] skt[s].state = "CREATED" /\ bound = NULL -> Stopped
                [] OTHER -> [Call(t, "connect", s) EXCEPT ![t].new = bound]
    /\ UNCHANGED <<skt, owner, bound, lock>>

socket_add_to_peer_backlog(s, p) == [skt EXCEPT ![p].backlog = Append(@, s)]

connect_locked(t) ==
    LET s == thr[t].this
        p == thr[t].new
        joined == socket_add_to_peer_backlog(s, p)
    IN  /\ thr[t].pc = "connect"
        /\ lock[p] = NULL
        /\ IF skt[p].state # "LISTENING"
           THEN thr' = Return(t) /\ UNCHANGED skt
           ELSE IF Len(skt[p].backlog) = skt[p].capacity
           THEN thr' = Return(t) /\ UNCHANGED skt
           ELSE \E o \in Signals(<<p, "connection_request">>, thr) :
                IF o.ok
                THEN /\ skt' = joined
                     /\ thr' = [o.thr EXCEPT ![t].pc = "wait",
                                             ![t].event = <<s, "connection_accepted">>]
                ELSE /\ skt' = [joined EXCEPT ![p].backlog = socket_backlog_remove(@, s)]
                     /\ thr' = [o.thr EXCEPT ![t] = Idle]
        /\ UNCHANGED <<owner, bound, lock>>

-----------------------------------------------------------------------------
Lesser(a, b) == IF a < b THEN a ELSE b

unix_socket_recv(t, s) ==
    /\ MayCall(t, "recv")
    /\ lock[s] = NULL
    /\ thr' = IF skt[s].state = "CONNECTED" THEN Call(t, "recv", s)
              ELSE Return(t)
    /\ UNCHANGED <<skt, owner, bound, lock>>

(* Mutant of Remaining: the last byte read is left in the ring.            *)
RemainingOneMore(ring, n) == SubSeq(ring, n, Len(ring))

Remaining(ring, n) == SubSeq(ring, n + 1, Len(ring))

(* recv, under the lock: wait for bytes, or read and signal the peer.      *)
recv_locked(t, len) ==
    LET s == thr[t].this
        ring == skt[s].ring
        n == Lesser(len, Len(ring))
    IN  /\ thr[t].pc = "recv"
        /\ lock[s] = NULL
        /\ IF ring = <<>>
           THEN thr' = event_wait(t, s, "data_received") /\ UNCHANGED skt
           ELSE /\ skt' = [skt EXCEPT ![s].ring = Remaining(ring, n),
                                     ![s].got = @ \o SubSeq(ring, 1, n)]
                /\ \E o \in Signals(<<skt[s].peer, "data_received">>, thr) :
                      thr' = [o.thr EXCEPT ![t] = Idle]
        /\ UNCHANGED <<owner, bound, lock>>

Sent(t) == SumFunctionOnSet([s \in Socket |-> skt[s].sent], Mine(t))

(* send takes the lock of the peer, which an unconnected socket does not   *)
(* have.                                                                   *)
unix_socket_send(t, s, len) ==
    LET p == skt[s].peer
    IN  /\ MayCall(t, "send")
        /\ Sent(t) + len <= MaxSend[t]
        /\ p # NULL => lock[p] = NULL
        /\ thr' = IF p = NULL THEN Stopped
                  ELSE IF skt[p].state = "CONNECTED"
                  THEN [Call(t, "send", s) EXCEPT ![t].new = p, ![t].len = len]
                  ELSE Return(t)
        /\ UNCHANGED <<skt, owner, bound, lock>>

(* Mutant of Room: the ring is taken to have one byte more.                *)
RoomOneMore(p) == Capacity + 1 - Len(skt[p].ring)

Room(p) == Capacity - Len(skt[p].ring)

(* send, under the peer's lock: wait for room in the ring of the peer it   *)
(* started with, or write what fits there and signal the peer.  The k-th   *)
(* byte a socket sends is <<socket, k>>.                                   *)
send_locked(t) ==
    LET s == thr[t].this
        p == thr[t].new
        n == Lesser(thr[t].len, Room(p))
    IN  /\ thr[t].pc = "send"
        /\ lock[skt[s].peer] = NULL
        /\ IF Room(p) = 0
           THEN thr' = event_wait(t, p, "data_received") /\ UNCHANGED skt
           ELSE /\ skt' = [skt EXCEPT
                     ![p].ring = @ \o [i \in 1 .. n |-> <<s, skt[s].sent + i>>],
                     ![s].sent = @ + n]
                /\ \E o \in Signals(<<skt[s].peer, "data_received">>, thr) :
                      thr' = [o.thr EXCEPT ![t] = Idle]
        /\ UNCHANGED <<owner, bound, lock>>

(* getpeername: the own lock, then the peer's, then both released.         *)
unix_socket_getpeername(t, s) ==
    /\ MayCall(t, "getpeername")
    /\ lock[s] = NULL
    /\ IF skt[s].state # "CONNECTED"
       THEN thr' = Return(t) /\ UNCHANGED lock
       ELSE thr' = Call(t, "getpeername", s) /\ lock' = [lock EXCEPT ![s] = t]
    /\ UNCHANGED <<skt, owner, bound>>

(* Mutant of Unlocked: only the peer's lock is released.                   *)
UnlockedPeer(s) == [lock EXCEPT ![skt[s].peer] = NULL]

Unlocked(s) == [lock EXCEPT ![s] = NULL, ![skt[s].peer] = NULL]

getpeername_locked(t) ==
    LET s == thr[t].this
    IN  /\ thr[t].pc = "getpeername"
        /\ lock[skt[s].peer] = NULL
        /\ lock' = Unlocked(s)
        /\ thr' = Return(t)
        /\ UNCHANGED <<skt, owner, bound>>

-----------------------------------------------------------------------------
InCall(t) == \/ attach_listener(t) \/ schedule_thread_wait(t) \/ remove_listener(t)
             \/ bind_open(t) \/ bind_locked(t) \/ connect_locked(t) \/ getpeername_locked(t)
             \/ accept_locked(t) \/ accept_peer(t) \/ accept_state(t) \/ accept_signal(t)
             \/ send_locked(t) \/ \E len \in 1 .. Capacity : recv_locked(t, len)

Next == \E t \in Thread :
    \/ InCall(t)
    \/ unix_socket_create(t)
    \/ \E s \in Mine(t) : \/ unix_socket_bind(t, s) \/ unix_socket_listen(t, s)
                          \/ unix_socket_accept(t, s) \/ unix_socket_connect(t, s)
                          \/ unix_socket_recv(t, s) \/ unix_socket_getpeername(t, s)
                          \/ \E len \in 1 .. MaxSend[t] : unix_socket_send(t, s, len)

Spec == Init /\ [][Next]_vars

-----------------------------------------------------------------------------
(* Types; no ring and no backlog outgrows its memory.                      *)
TypeOK ==
    /\ owner \in [Socket -> Thread \cup {NULL}]
    /\ bound = NoNode \/ bound \in Socket \cup {NULL}
    /\ {skt[s].peer : s \in Socket} \subseteq Socket \cup {NULL}
    /\ lock \in [Socket -> Thread \cup {NULL}]
    /\ \A s \in Socket : /\ skt[s].state \in {"CREATED", "BOUNDED", "LISTENING", "CONNECTED"}
                         /\ Len(skt[s].ring) <= Capacity
                         /\ Len(skt[s].backlog) <= skt[s].capacity

(* What accept writes to a client without its lock is in an order the      *)
(* client can live with: a socket that is connected has a peer for recv,   *)
(* send and getpeername to follow, also while the accept is not through;   *)
(* and a connect that was woken returns with its socket connected to one   *)
(* that has it as its peer.                                                *)
ConnectedHasPeer ==
    /\ \A s \in Socket : skt[s].state = "CONNECTED" => skt[s].peer # NULL
    /\ \A t \in Thread : thr[t].op = "connect" /\ thr[t].pc = "woken" =>
          LET s == thr[t].this
          IN  skt[s].state = "CONNECTED" /\ skt[skt[s].peer].peer = s

(* The streams: every byte a socket has sent was received by or is in the  *)
(* ring of exactly one socket, and those of one sender are there one after *)
(* the other, whatever the blocking and waking of the threads, and also    *)
(* when a client left in the backlog is accepted again.                    *)
Stream(s) == skt[s].got \o skt[s].ring
StreamInOrder ==
    \A r \in Socket :
        LET from(s) == SelectSeq(Stream(s), LAMBDA byte : byte[1] = r)
        IN  /\ \A s \in Socket : \A i \in 1 .. Len(from(s)) - 1 :
                  from(s)[i + 1][2] = from(s)[i][2] + 1
            /\ \A k \in 1 .. skt[r].sent :
                  Cardinality({s \in Socket : <<r, k>> \in Range(Stream(s))}) = 1

(* A thread outside of a call, or asleep in one, holds no socket's lock,   *)
(* unless the kernel has stopped.                                          *)
LocksReleased ==
    \A s \in Socket : lock[s] # NULL =>
        thr[lock[s]].pc \in {"getpeername", "accept_peer", "accept_state", "accept_signal", "stopped"}

(* The comment at unix_socket.c:36: accept gets the client off the         *)
(* backlog.  A connected client is in no backlog to be accepted again.     *)
AcceptedLeavesBacklog ==
    \A s, k \in Socket : skt[k].state = "CONNECTED" =>
        \A i \in DOMAIN skt[s].backlog : skt[s].backlog[i] # k

(* The comment at unix_socket.c:290: recv waits while nothing is on the    *)
(* buffer.                                                                 *)
ReceiverSleepsOnEmpty ==
    \A t \in Thread : thr[t].pc = "asleep" /\ thr[t].op = "recv" =>
        skt[thr[t].this].ring = <<>>

(* The comment at unix_socket.c:311: recv signals a peer that is blocked   *)
(* trying to write.  A recv that takes bytes off the ring a sender is       *)
(* already asleep on wakes that sender.                                    *)
RecvWakesSender ==
    [][\A t \in Thread :
          /\ thr[t].pc = "asleep" /\ thr[t].op = "send"
          /\ LET p == skt[thr[t].this].peer IN Len(skt'[p].ring) < Len(skt[p].ring)
          => thr'[t].pc = "woken"]_vars
=============================================================================
