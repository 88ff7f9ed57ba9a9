----------------------------- MODULE MCProperties -----------------------------
(* Small instances of QDMIProperties for TLC. *)
EXTENDS QDMIProperties

\* Every list of one or two sites, and one of three.
MCSiteLists == [1..1 -> ToSet(SITES)] \cup [1..2 -> ToSet(SITES)] \cup {<<0, 1, 2>>}
=============================================================================
