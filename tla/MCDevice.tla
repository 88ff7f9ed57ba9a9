------------------------------- MODULE MCDevice -------------------------------
(* Small instances of QDMIDevice for TLC. *)
EXTENDS QDMIDevice, TLC

\* A text program, one that only the binary format accepts and a null one.
\* As a binary list the first two show different outputs.
MCPayloads == {[empty |-> FALSE, terminated |-> TRUE,  byte |-> 1],
               [empty |-> FALSE, terminated |-> FALSE, byte |-> 3],
               [empty |-> TRUE,  terminated |-> FALSE, byte |-> 0]}

\* Two text programs with different outputs.
MCTextPayloads == {[empty |-> FALSE, terminated |-> TRUE, byte |-> 1],
                   [empty |-> FALSE, terminated |-> TRUE, byte |-> 2]}

\* One text program.
MCOneText == {[empty |-> FALSE, terminated |-> TRUE, byte |-> 1]}

\* A text and a binary format the device supports, and one it does not.
MCFormats == {"QASM2", "QIRBASEMODULE", "QASM3"}

\* A text format the device supports.
MCTextFormats == {"QIRBASESTRING"}

\* Jobs are interchangeable: nothing orders them.
JobSymmetry == Permutations(Jobs)
=============================================================================
