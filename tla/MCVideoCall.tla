----------------------------- MODULE MCVideoCall ----------------------------
(***************************************************************************)
(* A small instance of VideoCall for TLC.                                  *)
(***************************************************************************)
EXTENDS VideoCall

CONSTANTS p1, p2, p3

\* The third page can only try to join a call that is full.
Connections == [p \in Page |-> IF p = p3 THEN 1 ELSE 2]
=============================================================================
