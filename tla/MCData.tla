------------------------------- MODULE MCData -------------------------------
(***************************************************************************)
(* The shared data structures for TLC: a behaviour is one of the ring of   *)
(* LdpFifo, with interchangeable threads and elements, one of a list, or   *)
(* one of the repositories of LdpVD, with two writers, one of them in      *)
(* READ_WRITE mode, a reader of the source and one of the mirror.          *)
(***************************************************************************)
EXTENDS LdpFifo, LdpVD, LdpList, TLC

CONSTANTS w1, w2, reader, mirror_reader, s1, s2, s3, m1, m2, Parts

MCWriter == {w1, w2}
MCReadWrite == {w1}
NoWriter == {}
MCReader == {reader, mirror_reader}
MCReadsFrom == reader :> "source" @@ mirror_reader :> "mirror"
NoReader == {}
NoReadsFrom == [x \in NoReader |-> "source"]
MCCopy == {s1, s2, s3, m1, m2}
MCRepoOf == [c \in MCCopy |-> IF c \in {m1, m2} THEN "mirror" ELSE "source"]
Symmetry ==
  Permutations(Thread) \cup Permutations(Item)
    \cup Permutations({s1, s2, s3}) \cup Permutations({m1, m2})

VARIABLE part

dataVars == <<part, fifoVars, vars, listVars>>

DataInit == part \in Parts /\ FifoInit /\ Init /\ ListInit

RingNext == part = "ring" /\ FifoNext /\ UNCHANGED <<part, vars, listVars>>
RepositoryNext == part = "repository" /\ Next /\ UNCHANGED <<part, fifoVars, listVars>>
ListPart == part = "list" /\ ListNext /\ UNCHANGED <<part, fifoVars, vars>>

DataSpec == DataInit /\ [][RingNext \/ RepositoryNext \/ ListPart]_dataVars
=============================================================================
