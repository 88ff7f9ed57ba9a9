------------------------------ MODULE MCResults ------------------------------
(* Small instances of QDMIResults for TLC. *)
EXTENDS QDMIResults

\* Zero, and two amplitudes of the same probability.
MCAmplitudes == {-1, 0, 1}
=============================================================================
