---------------------------- MODULE MCLiveStream -----------------------------
(***************************************************************************)
(* Small instances of LiveStream for TLC.                                  *)
(***************************************************************************)
EXTENDS LiveStream

CONSTANTS host, viewer

\* Connections and presses of Go live or Join.
Once == [p \in Page |-> 1]
Twice == [p \in Page |-> 2]
ViewerTwice == [p \in Page |-> IF p = host THEN 1 ELSE 2]
=============================================================================
