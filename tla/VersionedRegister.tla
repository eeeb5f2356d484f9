-------------------------- MODULE VersionedRegister --------------------------
(***************************************************************************)
(* What a versioned data promises its readers: a register.  A publication  *)
(* replaces its value at once; a reader gets the value of one instant,     *)
(* whole, and keeps it until it releases it.                               *)
(***************************************************************************)
CONSTANTS
  Reader,
  Version,    \* the values writers publish
  NoVersion   \* what the register holds before the first publication

VARIABLES
  value,
  seen        \* seen[x]: the value reader x has, NoVersion if none

vars == <<value, seen>>

Init ==
  /\ value = NoVersion
  /\ seen = [x \in Reader |-> NoVersion]

Publish ==
  /\ \E v \in Version : v # value /\ value' = v
  /\ UNCHANGED seen

Read(x) ==
  /\ seen[x] = NoVersion /\ value # NoVersion
  /\ seen' = [seen EXCEPT ![x] = value]
  /\ UNCHANGED value

Release(x) ==
  /\ seen' = [seen EXCEPT ![x] = NoVersion]
  /\ UNCHANGED value

Next == Publish \/ \E x \in Reader : Read(x) \/ Release(x)
Spec == Init /\ [][Next]_vars
=============================================================================
