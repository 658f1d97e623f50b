--------------------------- MODULE MCFileTransfer ---------------------------
(***************************************************************************)
(* Small instances of FileTransfer for TLC.                                *)
(***************************************************************************)
EXTENDS FileTransfer

CONSTANTS f1, f2

OneFile  == {<<f1>>}
TwoFiles == {<<f1, f2>>}

\* Three chunks: enough to cross both watermarks and to resume inside the
\* file; in a queue of two the second file has one.
Sizes  == [f \in File |-> IF f = f1 THEN 3 ELSE 1]
=============================================================================
