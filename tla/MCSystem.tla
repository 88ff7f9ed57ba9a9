------------------------------- MODULE MCSystem -------------------------------
(* Small instances of QDMISystem for TLC. *)
EXTENDS QDMISystem

MCCxx == [handle |-> "h1", prefix |-> "CXX"]
MCMy  == [handle |-> "h2", prefix |-> "MY"]

MCLine(library, id) == [kind |-> "device", library |-> library, id |-> id]

\* One device, two devices of the library, the template after the device.
MCConfigs == {<<MCLine(MCCxx, "a")>>,
              <<MCLine(MCCxx, "a"), MCLine(MCCxx, "b")>>,
              <<MCLine(MCCxx, "a"), MCLine(MCMy, "b")>>}

MCExports == [l \in Library |-> RequiredSymbols \cup {OptionalSymbol}]

\* One text program.
MCPayloads == {[empty |-> FALSE, terminated |-> TRUE, byte |-> 1]}
=============================================================================
