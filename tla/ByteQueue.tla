----------------------------- MODULE ByteQueue -----------------------------
(***************************************************************************)
(* What a ring buffer promises its users: a bounded first-in first-out     *)
(* queue of bytes whose operations happen at once.  A write takes the      *)
(* longest prefix that fits, a read as many bytes as there are.            *)
(***************************************************************************)
EXTENDS Integers, Sequences

CONSTANTS Thread,    \* the threads that use the buffer
          Byte,      \* the values of a byte
          Capacity,  \* the number of bytes the buffer holds
          MaxLen     \* the longest read or write

VARIABLES queue,     \* the bytes written and not yet read
          result     \* what the last operation of each thread returned

Lesser(a, b) == IF a < b THEN a ELSE b

Message == UNION {[1 .. n -> Byte] : n \in 1 .. MaxLen}

Returned(n, bytes) == [n |-> n, bytes |-> bytes]

Init ==
    /\ queue = <<>>
    /\ result = [t \in Thread |-> Returned(0, <<>>)]

Write(t, data) ==
    LET n == Lesser(Len(data), Capacity - Len(queue))
    IN  /\ queue' = queue \o SubSeq(data, 1, n)
        /\ result' = [result EXCEPT ![t] = Returned(n, <<>>)]

Read(t, len) ==
    LET n == Lesser(len, Len(queue))
    IN  /\ queue' = SubSeq(queue, n + 1, Len(queue))
        /\ result' = [result EXCEPT ![t] = Returned(n, SubSeq(queue, 1, n))]

Size(t) ==
    /\ result' = [result EXCEPT ![t] = Returned(Len(queue), <<>>)]
    /\ UNCHANGED queue

FullSize(t) ==
    /\ result' = [result EXCEPT ![t] = Returned(Capacity, <<>>)]
    /\ UNCHANGED queue

Next == \E t \in Thread : \/ \E data \in Message : Write(t, data)
                          \/ \E len \in 1 .. MaxLen : Read(t, len)
                          \/ Size(t)
                          \/ FullSize(t)

Spec == Init /\ [][Next]_<<queue, result>>
=============================================================================
