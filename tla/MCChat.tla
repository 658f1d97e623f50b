------------------------------- MODULE MCChat --------------------------------
(***************************************************************************)
(* Small instances of Chat for TLC.                                        *)
(***************************************************************************)
EXTENDS Chat

CONSTANTS alice, bob

\* Pages and names are alike.
Symmetry == Permutations(Page) \cup Permutations(Name)

Twice == [p \in Page |-> 2]
=============================================================================
