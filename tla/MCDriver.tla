------------------------------- MODULE MCDriver -------------------------------
(* Small instances of QDMIDriver for TLC. *)
EXTENDS QDMIDriver

MCLine(handle, prefix, id) ==
  [kind |-> "device", library |-> [handle |-> handle, prefix |-> prefix], id |-> id]

\* Two devices of one library, two libraries in one file, two files with a
\* comment, a duplicate ID, a malformed line after a good one, a library that
\* lacks a symbol after a good one, no device.
MCConfigs == {
  <<MCLine("h1", "CXX", "a"), MCLine("h1", "CXX", "b")>>,
  <<MCLine("h1", "CXX", "a"), MCLine("h1", "MY", "b")>>,
  <<[kind |-> "comment"], MCLine("h1", "CXX", "a"), MCLine("h2", "CXX", "b")>>,
  <<MCLine("h1", "CXX", "a"), MCLine("h2", "CXX", "a")>>,
  <<MCLine("h1", "CXX", "a"), [kind |-> "malformed"]>>,
  <<MCLine("h1", "CXX", "a"), MCLine("h2", "MY", "b")>>,
  <<>>}

\* One library lacks the optional function and one a required one.
MCExports ==
  [l \in Library |->
     CASE l = [handle |-> "h1", prefix |-> "MY"] -> RequiredSymbols
       [] l = [handle |-> "h2", prefix |-> "MY"] -> RequiredSymbols \ {"device_job_wait"}
       [] OTHER -> RequiredSymbols \cup {OptionalSymbol}]
=============================================================================
