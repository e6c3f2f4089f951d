---------------------------- MODULE MCConfigFlow ----------------------------
(***************************************************************************)
(* A small instance of ConfigFlow.  Entries, flows and units are           *)
(* interchangeable: no definition tells one from another.                  *)
(***************************************************************************)
EXTENDS ConfigFlow, TLC

Symmetry == Permutations(EntryIds) \cup Permutations(Flows) \cup Permutations(Units)

\* Bound: one setup at a time awaits its first refresh; flows go on meanwhile.
OneSetup == \A e, x \in EntryIds : client[e] # None /\ client[x] # None => e = x
=============================================================================
