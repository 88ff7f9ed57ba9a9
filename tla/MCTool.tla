-------------------------------- MODULE MCTool --------------------------------
(* Small instances of QDMITool and QDMIFoMaC for TLC. *)
EXTENDS QDMITool, TLC

\* A register q of up to three qubits, a gate on one or two references.
Qreg(name, n) == [kind |-> "qreg", args |-> <<[reg |-> name, index |-> n]>>]
Creg(name, n) == [kind |-> "creg", args |-> <<[reg |-> name, index |-> n]>>]
Gate(args) == [kind |-> "gate", args |-> args]
Ref(name, i) == [reg |-> name, index |-> i]

References == {Ref("q", 0), Ref("q", 1), Ref("cq", 1), Ref("c", 0)}
Gates == {Gate(<<r>>) : r \in References} \cup {Gate(<<r, s>>) : r, s \in References}
MCProgramsOfQ == {<<Qreg("q", n), g>> : n \in 1..2, g \in Gates}
                   \cup {<<Qreg("q", n), Gate(<<Ref("q", 0)>>)>> : n \in {0, 3}}

\* A second register that ends in q; the measurement of test_qdmi.cpp:1055; no
\* register the tool finds, two, and one of another name.
MCOtherPrograms ==
  {<<Qreg("q", 2), Creg("cq", 2), Gate(<<Ref("q", 1), Ref("cq", 1)>>)>>,
   <<Qreg("q", 2), Creg("c", 2), Gate(<<Ref("q", Whole), Ref("c", Whole)>>)>>,
   <<Creg("c", 1)>>,
   <<Qreg("q", 10)>>,
   <<Qreg("q", 1), Qreg("r", 1), Gate(<<Ref("q", 0), Ref("r", 0)>>)>>,
   <<Qreg("r", 2), Gate(<<Ref("r", 0), Ref("r", 1)>>)>>}

MCPrograms == MCProgramsOfQ \cup MCOtherPrograms

MCRegisters == {"q", "cq", "c", "r"}

\* A chain of three sites; times as 10^6.
MCChain ==
  [qubits_num |-> 3, sites |-> <<"s0", "s1", "s2">>, operations |-> <<"RX", "RY", "CX">>,
   coupling_map |-> <<"s0", "s1", "s1", "s0", "s1", "s2", "s2", "s1">>,
   formats |-> <<"QASM2", "QIRBASESTRING", "QIRBASEMODULE">>,
   name |-> "RX" :> "rx" @@ "RY" :> "ry" @@ "CX" :> "cx",
   operands |-> "RX" :> 1 @@ "RY" :> 1 @@ "CX" :> 2,
   params |-> "RX" :> 1 @@ "RY" :> 1 @@ "CX" :> 0,
   index |-> "s0" :> 0 @@ "s1" :> 1 @@ "s2" :> 2,
   t1 |-> "s0" :> 1 @@ "s1" :> 1 @@ "s2" :> 1,
   t2 |-> "s0" :> 100 @@ "s1" :> 100 @@ "s2" :> 100,
   unit |-> "us", scale_exponent |-> -3]

\* The chain in one direction, from any of its pairs, an odd list and one without pairs.
MCCouplings == {<<"s0", "s1", "s1", "s2">>, <<"s1", "s0", "s1", "s2">>,
                <<"s1", "s2", "s0", "s1">>, <<"s2", "s1", "s0", "s1">>,
                <<"s0", "s1", "s2">>, <<>>}

\* A name for two operations, indices that are no positions, a time for each
\* site.
MCSparse ==
  [MCChain EXCEPT !.operations = <<"CX", "RX", "RY">>,
                  !.name = "RX" :> "r" @@ "RY" :> "r" @@ "CX" :> "cx",
                  !.index = "s0" :> 7 @@ "s1" :> 1 @@ "s2" :> 4,
                  !.t1 = "s0" :> 1 @@ "s1" :> 2 @@ "s2" :> 3]

\* No operations and sites at all.
MCEmpty == [MCChain EXCEPT !.operations = <<>>, !.sites = <<>>, !.coupling_map = <<>>]

\* One qubit, coupled with itself; a chain of sites and a zone.
MCSelf ==
  [MCChain EXCEPT !.qubits_num = 1, !.sites = <<"s0">>, !.coupling_map = <<"s0", "s0">>]
MCZone == [MCChain EXCEPT !.qubits_num = 2, !.coupling_map = <<"s0", "s1">>]

MCDevices == {MCChain, MCSparse, MCEmpty, MCSelf, MCZone}
               \cup {[MCChain EXCEPT !.coupling_map = pairs] : pairs \in MCCouplings}
               \cup {[MCChain EXCEPT !.unit = u] : u \in {"ms", "ns", "s"}}
=============================================================================
