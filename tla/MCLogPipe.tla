----------------------------- MODULE MCLogPipe -----------------------------
(***************************************************************************)
(* Small instances of LogPipe for TLC.                                     *)
(***************************************************************************)
EXTENDS LogPipe

\* Nothing, and two or three lines of zero to four bytes.
UpToThreeLines == {<<>>} \cup [1..2 -> 0..4] \cup [1..3 -> {0, 2, 3}]

\* Without limit, nothing fits, and sizes below, at and above those of the lines.
Sizes == {-1, 0, 1, 3, 4, 5}

=============================================================================
