--------------------------- MODULE OrderedChannel ---------------------------
(***************************************************************************)
(* What a connection between two processes promises: the messages written  *)
(* come out whole, once, in the order in which they were written.          *)
(***************************************************************************)
EXTENDS Naturals, Sequences

CONSTANT Message

VARIABLES written, delivered

Init == written = <<>> /\ delivered = <<>>

Write == /\ \E m \in Message : written' = Append(written, m)
         /\ UNCHANGED delivered

Deliver == /\ Len(delivered) < Len(written)
           /\ delivered' = Append(delivered, written[Len(delivered) + 1])
           /\ UNCHANGED written

Next == Write \/ Deliver

Spec == Init /\ [][Next]_<<written, delivered>>
=============================================================================
