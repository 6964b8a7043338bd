------------------------------- MODULE Slices -------------------------------
(***************************************************************************)
(* Cutting elements out of a sequence, for the slices of the in-memory     *)
(* service and the lists of Redis.  SelectSeq computes the same, but its   *)
(* definition is recursive and nothing can be proved from it.              *)
(***************************************************************************)
EXTENDS Integers, Sequences, FiniteSets

\* The subsequence of s at the indices in I, in order: what the code builds
\* when it cuts an element out of a slice or filters one in place.
KeepAt(s, I) ==
  [n \in 1..Cardinality(I) |->
     s[CHOOSE i \in I : Cardinality({j \in I : j <= i}) = n]]

RemoveIndex(s, k) == KeepAt(s, DOMAIN s \ {k})
RemoveNothing(s, e) == s
RemoveValue(s, e) == KeepAt(s, {i \in DOMAIN s : s[i] # e})
=============================================================================
