--------------------------- MODULE ReliableStream ---------------------------
(***************************************************************************)
(* What one direction of the EtherCAT byte stream promises its user: the   *)
(* bytes come out exactly once, in the order in which they were put in.    *)
(* A byte is identified by its position in the stream, so the bytes put in *)
(* so far are 1..sent.  core/include/librmcs/ecat/pd_stream.hpp states the *)
(* promise; PdStream.tla shows that the go-back-N endpoint keeps it.       *)
(***************************************************************************)
EXTENDS Naturals, Sequences

VARIABLES sent,      \* number of bytes put into the stream
          received   \* the bytes taken out of it, oldest first

vars == <<sent, received>>

(* The bytes after position "from" up to position "to", in stream order.   *)
Bytes(from, to) == [i \in 1 .. (to - from) |-> from + i]

Init == sent = 0 /\ received = <<>>

Put == /\ sent' \in Nat /\ sent' > sent
       /\ UNCHANGED received

Deliver == /\ \E to \in (Len(received) + 1) .. sent :
                received' = received \o Bytes(Len(received), to)
           /\ UNCHANGED sent

Next == Put \/ Deliver

Spec == Init /\ [][Next]_vars
=============================================================================
