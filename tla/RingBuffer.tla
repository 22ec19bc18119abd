---------------------------- MODULE RingBuffer ----------------------------
(***************************************************************************)
(* kernel/klib/ringbuffer.c: a ring of bytes between two heads that only   *)
(* grow, as unsigned integers of a fixed width.  The loops of read and     *)
(* write move one byte per step under the buffer's lock.                   *)
(***************************************************************************)
EXTENDS Integers, Sequences

CONSTANTS Thread,    \* the threads that use the buffer
          NULL,      \* no thread
          Byte,      \* the values of a byte
          Capacity,  \* ring->capacity
          HeadMod,   \* the number of values of a head: 2^64 in the code
          MaxLen     \* the longest read or write

(* The ring keeps its place when a head wraps around because the capacity  *)
(* (UNIX_SOCK_BUFF_SIZE is 2^13) divides the range of    *)
(* the heads.                                                              *)
ASSUME RingAssumption ==
    /\ NULL \notin Thread
    /\ Capacity \in Nat \ {0}
    /\ MaxLen \in Nat
    /\ HeadMod \in Nat
    /\ HeadMod > Capacity
    /\ HeadMod % Capacity = 0

VARIABLES
    read_head, write_head, buff, lock,
    op,       \* the function each thread is in: "read", "write" or "none"
    len,      \* its argument len
    data,     \* its argument buff: what is to be written, what was read
    done,     \* its read_bytes or sent_bytes
    result    \* what its last call returned, and what it had read

ring == <<read_head, write_head, buff>>
vars == <<read_head, write_head, buff, lock, op, len, data, done, result>>

Message == UNION {[1 .. n -> Byte] : n \in 1 .. MaxLen}

Returned(n, bytes) == [n |-> n, bytes |-> bytes]

(* ringbuffer_alloc; kmalloc does not clear the buffer.                    *)
Init ==
    /\ read_head = 0
    /\ write_head = 0
    /\ buff \in [0 .. Capacity - 1 -> Byte]
    /\ lock = NULL
    /\ op = [t \in Thread |-> "none"]
    /\ len = [t \in Thread |-> 0]
    /\ data = [t \in Thread |-> <<>>]
    /\ done = [t \in Thread |-> 0]
    /\ result = [t \in Thread |-> Returned(0, <<>>)]

-----------------------------------------------------------------------------
(* Take the lock and enter the loop.                                       *)
Enter(t, name, n, bytes) ==
    /\ op[t] = "none"
    /\ lock = NULL
    /\ lock' = t
    /\ op' = [op EXCEPT ![t] = name]
    /\ len' = [len EXCEPT ![t] = n]
    /\ data' = [data EXCEPT ![t] = bytes]
    /\ UNCHANGED <<ring, done, result>>

(* Release the lock and return the number of bytes moved.                  *)
Leave(t, bytes) ==
    /\ result' = [result EXCEPT ![t] = Returned(done[t], bytes)]
    /\ lock' = NULL
    /\ op' = [op EXCEPT ![t] = "none"]
    /\ len' = [len EXCEPT ![t] = 0]
    /\ data' = [data EXCEPT ![t] = <<>>]
    /\ done' = [done EXCEPT ![t] = 0]
    /\ UNCHANGED ring

Empty == read_head = write_head

(* Mutant of Full: the ring is full one byte early.                        *)
FullButOne == (read_head + Capacity - 1) % HeadMod = write_head

(* Mutant of Full: the sum is computed in a wider type than the heads.     *)
FullUnwrapped == read_head + Capacity = write_head

Full == (read_head + Capacity) % HeadMod = write_head

ringbuffer_read(t, n) == Enter(t, "read", n, <<>>)

read_byte(t) ==
    /\ op[t] = "read"
    /\ done[t] < len[t]
    /\ ~ Empty
    /\ data' = [data EXCEPT ![t] = Append(@, buff[read_head % Capacity])]
    /\ read_head' = (read_head + 1) % HeadMod
    /\ done' = [done EXCEPT ![t] = @ + 1]
    /\ UNCHANGED <<write_head, buff, lock, op, len, result>>

read_return(t) ==
    /\ op[t] = "read"
    /\ done[t] = len[t] \/ Empty
    /\ Leave(t, data[t])

ringbuffer_write(t, bytes) == Enter(t, "write", Len(bytes), bytes)

write_byte(t) ==
    /\ op[t] = "write"
    /\ done[t] < len[t]
    /\ ~ Full
    /\ buff' = [buff EXCEPT ![write_head % Capacity] = data[t][done[t] + 1]]
    /\ write_head' = (write_head + 1) % HeadMod
    /\ done' = [done EXCEPT ![t] = @ + 1]
    /\ UNCHANGED <<read_head, lock, op, len, data, result>>

write_return(t) ==
    /\ op[t] = "write"
    /\ done[t] = len[t] \/ Full
    /\ Leave(t, <<>>)

(* The bytes in the ring, as ringbuffer_size computes them.                *)
Used == (write_head - read_head) % HeadMod

(* ringbuffer_size and ringbuffer_capacity read under the lock and return. *)
Query(t, n) ==
    /\ op[t] = "none"
    /\ lock = NULL
    /\ result' = [result EXCEPT ![t] = Returned(n, <<>>)]
    /\ UNCHANGED <<ring, lock, op, len, data, done>>

ringbuffer_size(t) == Query(t, Used)

ringbuffer_capacity(t) == Query(t, Capacity)

-----------------------------------------------------------------------------
Step(t) == read_byte(t) \/ read_return(t) \/ write_byte(t) \/ write_return(t)

Next == \E t \in Thread : \/ \E n \in 1 .. MaxLen : ringbuffer_read(t, n)
                          \/ \E bytes \in Message : ringbuffer_write(t, bytes)
                          \/ Step(t)
                          \/ ringbuffer_size(t)
                          \/ ringbuffer_capacity(t)

Spec == Init /\ [][Next]_vars

-----------------------------------------------------------------------------
(* Types; a ring never holds more bytes than it has room for, also when    *)
(* write_head has wrapped around and read_head has not.                    *)
TypeOK ==
    /\ read_head \in 0 .. HeadMod - 1
    /\ write_head \in 0 .. HeadMod - 1
    /\ Used \in 0 .. Capacity
    /\ buff \in [0 .. Capacity - 1 -> Byte]
    /\ lock \in Thread \cup {NULL}
    /\ op \in [Thread -> {"none", "read", "write"}]
    /\ len \in [Thread -> 0 .. MaxLen]
    /\ data \in [Thread -> {<<>>} \cup Message]
    /\ done \in [Thread -> 0 .. MaxLen]

-----------------------------------------------------------------------------
(* The refinement: an operation takes effect when it releases the lock.    *)
(* Until then the queue lacks the bytes a writer has stored and still has  *)
(* those a reader has taken.                                               *)
Content == [i \in 1 .. Used |-> buff[(read_head + i - 1) % Capacity]]

Pending ==
    IF lock = NULL THEN Content
    ELSE IF op[lock] = "write" THEN SubSeq(Content, 1, Used - done[lock])
    ELSE data[lock] \o Content

Queue == INSTANCE ByteQueue WITH queue <- Pending, result <- result

(* Whatever the threads interleave, the ring buffer behaves as a bounded   *)
(* first-in first-out queue with atomic operations: bytes come out in the  *)
(* order they went in, once, and counts and sizes are exact.               *)
IsByteQueue == Queue!Spec
=============================================================================
