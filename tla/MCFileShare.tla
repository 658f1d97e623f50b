---------------------------- MODULE MCFileShare -----------------------------
(***************************************************************************)
(* Small instances of FileShare for TLC.                                   *)
(***************************************************************************)
EXTENDS FileShare

CONSTANTS alice, bob, carol

Once == [p \in Page |-> 1]

\* Bob may leave and come back, or lose his connection.
BobTwice == [p \in Page |-> IF p = bob THEN 2 ELSE 1]
=============================================================================
