---------------------------- MODULE MCUnixSocket ----------------------------
(***************************************************************************)
(* Instances of UnixSocket for TLC: a server and a client.                 *)
(***************************************************************************)
EXTENDS UnixSocket

CONSTANTS server, client

Threads == {server, client}
Talk == [t \in Threads |->
    IF t = server THEN {"create", "bind", "listen", "accept", "recv", "send"}
    ELSE {"create", "connect", "recv", "send", "getpeername"}]
ClientSends == [t \in Threads |->
    IF t = server THEN {"create", "bind", "listen", "accept", "recv"}
    ELSE {"create", "connect", "send"}]
ServerOneClientThree == [t \in Threads |-> IF t = server THEN 1 ELSE 3]
TwoEach == [t \in Threads |-> 2]
=============================================================================
