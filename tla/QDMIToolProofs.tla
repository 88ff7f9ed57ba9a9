---------------------------- MODULE QDMIToolProofs ----------------------------
(***************************************************************************)
(* Proofs about the FoMaC library and the tool, for any devices, programs  *)
(* and failures of device calls.                                           *)
(***************************************************************************)
EXTENDS QDMITool, SequenceTheorems, WellFoundedInduction, TLAPS

\* A device call that fails does not look like one that succeeded.
LEMMA CouplingMapEven ==
  ASSUME FoMaCAssumption, device \in Devices, coupling_map_error = NULL
  PROVE  Len(device.coupling_map) % 2 = 0
<1>1. "runtime_error" # NULL
  BY DEF FoMaCAssumption
<1>2. ~Fails(Size("COUPLINGMAP"))
  BY DEF coupling_map_error, Fails
<1> QED
  BY <1>1, <1>2 DEF coupling_map_error

\* The first pair of a coupling map that is not empty has two indices.
LEMMA EdgeHasIndices ==
  ASSUME FoMaCAssumption, device \in Devices, coupling_map_error = NULL,
         device.coupling_map # <<>>
  PROVE  device.index[edge[1]] \in Nat /\ device.index[edge[2]] \in Nat
<1> DEFINE map == device.coupling_map
<1>1. map \in Seq(DOMAIN device.index)
  BY DEF FoMaCAssumption, Device
<1>2. Len(map) \in Nat /\ Len(map) # 0
  BY <1>1
<1>3. Len(map) % 2 = 0
  BY CouplingMapEven
<1>4. Len(map) >= 2
  <2>1. \A n \in Nat : n # 0 /\ n % 2 = 0 => n >= 2
    OBVIOUS
  <2> QED
    BY <1>2, <1>3, <2>1
<1>5. map[1] \in DOMAIN device.index /\ map[2] \in DOMAIN device.index
  BY <1>1, <1>4
<1> QED
  BY <1>5 DEF FoMaCAssumption, Device, edge

\* The three renamings of one reference, by way of aux, are one renaming of
\* both labels.
LEMMA RenamedIsTarget ==
  ASSUME NEW r \in Reference, NEW id0 \in Nat, NEW id1 \in Nat
  PROVE  Renamed(Renamed(Renamed(r, 0, Aux), 1, id1), Aux, id0) = Target(r, id0, id1)
<1>1. r.index \in Int /\ r.index # Aux
  BY DEF Reference, Whole, Aux
<1>2. CASE r.reg \notin QNames
  BY <1>2 DEF Renamed, Target
<1>3. CASE r.reg \in QNames /\ r.index = 0
  <2> DEFINE a == [r EXCEPT !.index = Aux]
  <2>1. Renamed(r, 0, Aux) = a
    BY <1>3 DEF Renamed
  <2>2. a.reg = r.reg /\ a.index = Aux
    BY DEF Reference
  <2>3. Renamed(a, 1, id1) = a
    BY <2>2 DEF Renamed, Aux
  <2>4. Renamed(a, Aux, id0) = [a EXCEPT !.index = id0]
    BY <1>3, <2>2 DEF Renamed
  <2>5. [a EXCEPT !.index = id0] = [r EXCEPT !.index = id0]
    BY DEF Reference
  <2> QED
    BY <1>3, <2>1, <2>3, <2>4, <2>5 DEF Target
<1>4. CASE r.reg \in QNames /\ r.index = 1
  <2> DEFINE b == [r EXCEPT !.index = id1]
  <2>1. Renamed(r, 0, Aux) = r
    BY <1>4 DEF Renamed
  <2>2. Renamed(r, 1, id1) = b
    BY <1>4 DEF Renamed
  <2>3. b.index = id1 /\ id1 # Aux
    BY DEF Reference, Aux
  <2>4. Renamed(b, Aux, id0) = b
    BY <2>3 DEF Renamed
  <2> QED
    BY <1>4, <2>1, <2>2, <2>4 DEF Target
<1>5. CASE r.index \notin {0, 1}
  BY <1>1, <1>5 DEF Renamed, Target
<1> QED
  BY <1>2, <1>3, <1>4, <1>5

\* The compiled program has the statements of the program, and in each gate
\* the references that Target gives.
LEMMA GatesRelabelled ==
  ASSUME NEW p, NEW k \in DOMAIN p, p[k] \in [kind: {"gate"}, args: Seq(Reference)],
         NEW id0 \in Nat, NEW id1 \in Nat
  PROVE  LET q == Relabelled(p, id0, id1)
         IN  /\ DOMAIN q = DOMAIN p
             /\ q[k].kind = "gate"
             /\ q[k].args = [i \in DOMAIN p[k].args |-> Target(p[k].args[i], id0, id1)]
<1> DEFINE q1 == replace_all_occurrences(p, 0, Aux)
           q2 == replace_all_occurrences(q1, 1, id1)
           q3 == replace_all_occurrences(q2, Aux, id0)
           Replacing(q, f, t) == [q[k] EXCEPT !.args =
                                    [i \in DOMAIN q[k].args |-> Renamed(q[k].args[i], f, t)]]
           n == DOMAIN p[k].args
<1>1. DOMAIN q1 = DOMAIN p /\ q1[k] = Replacing(p, 0, Aux)
  BY DEF replace_all_occurrences
<1>2. DOMAIN q2 = DOMAIN p /\ q2[k] = Replacing(q1, 1, id1)
  BY <1>1 DEF replace_all_occurrences
<1>3. DOMAIN q3 = DOMAIN p /\ q3[k] = Replacing(q2, Aux, id0)
  BY <1>2 DEF replace_all_occurrences
<1> HIDE DEF q1, q2, q3
<1>4. q1[k] = [kind |-> "gate", args |-> [i \in n |-> Renamed(p[k].args[i], 0, Aux)]]
  BY <1>1
<1>5. q2[k] = [kind |-> "gate",
               args |-> [i \in n |-> Renamed(Renamed(p[k].args[i], 0, Aux), 1, id1)]]
  BY <1>2, <1>4
<1>6. q3[k] = [kind |-> "gate",
               args |-> [i \in n |-> Renamed(Renamed(Renamed(p[k].args[i], 0, Aux), 1, id1),
                                             Aux, id0)]]
  BY <1>3, <1>5
<1>7. \A i \in n : p[k].args[i] \in Reference
  OBVIOUS
<1>8. [i \in n |-> Renamed(Renamed(Renamed(p[k].args[i], 0, Aux), 1, id1), Aux, id0)]
        = [i \in n |-> Target(p[k].args[i], id0, id1)]
  BY <1>7, RenamedIsTarget
<1>9. Relabelled(p, id0, id1) = q3
  BY DEF Relabelled, q1, q2, q3
<1> QED
  BY <1>3, <1>6, <1>8, <1>9

\* Rewriting the declaration leaves the gates alone.
LEMMA GatesKept ==
  ASSUME NEW p, NEW k \in DOMAIN p, p[k].kind = "gate", NEW from, NEW to
  PROVE  DOMAIN Resized(p, from, to) = DOMAIN p /\ Resized(p, from, to)[k] = p[k]
BY DEF Resized

\* The program that compile returns.
LEMMA CompiledRelabels ==
  ASSUME FoMaCAssumption, ToolAssumption, device \in Devices, program \in Programs,
         device.index[edge[1]] \in Nat, device.index[edge[2]] \in Nat
  PROVE  /\ DOMAIN Compiled = DOMAIN program
         /\ \A k \in DOMAIN program :
              program[k].kind = "gate" =>
                /\ Compiled[k].kind = "gate"
                /\ Compiled[k].args =
                     [i \in DOMAIN program[k].args |->
                        Target(program[k].args[i], device.index[edge[1]],
                               device.index[edge[2]])]
<1> DEFINE p == Resized(program, num_qubits, device.qubits_num)
<1>1. DOMAIN Compiled = DOMAIN program
  BY DEF Compiled, Relabelled, replace_all_occurrences, Resized
<1>2. ASSUME NEW k \in DOMAIN program, program[k].kind = "gate"
      PROVE  /\ Compiled[k].kind = "gate"
             /\ Compiled[k].args =
                  [i \in DOMAIN program[k].args |->
                     Target(program[k].args[i], device.index[edge[1]],
                            device.index[edge[2]])]
  <2>1. program[k] \in [kind: {"gate"}, args: Seq(Reference)]
    <3>1. program \in Seq(Statement)
      BY DEF ToolAssumption
    <3>2. program[k] \in Statement
      BY <3>1, ElementOfSeq
    <3> QED
      BY <1>2, <3>2 DEF Statement
  <2>2. DOMAIN p = DOMAIN program /\ p[k] = program[k]
    BY <1>2, GatesKept
  <2> QED
    BY <1>2, <2>1, <2>2, GatesRelabelled DEF Compiled
<1> QED
  BY <1>1, <1>2

\* An exception is one of two.
LEMMA ThrowTypes ==
  ASSUME NEW c
  PROVE  throw_if_error(c) \in {NULL, "invalid_argument", "runtime_error"}
BY DEF throw_if_error

\* A getter throws one of the two exceptions or returns its value.
LEMMA GetterOutcome ==
  ASSUME NEW g, NEW calls, NEW v, Getter(g, calls, v)
  PROVE  /\ outcome'.getter = g
         /\ outcome'.threw \in {NULL, "invalid_argument", "runtime_error"}
         /\ outcome'.threw = NULL => outcome'.value = v
<1>1. CASE FirstFailure(g, calls)
  BY <1>1, ThrowTypes DEF FirstFailure, Fails
<1>2. CASE outcome' = [getter |-> g, threw |-> NULL, value |-> v]
  BY <1>2
<1> QED
  BY <1>1, <1>2 DEF Getter

\* So does the getter of a time.
LEMMA SiteTimeOutcome ==
  ASSUME NEW g, NEW prop, NEW raw, SiteTime(g, prop, raw), FoMaCAssumption
  PROVE  /\ outcome'.getter = g
         /\ outcome'.threw \in {NULL, "invalid_argument", "runtime_error"}
<1> DEFINE calls == <<Val(prop)>> \o ScaleCalls
           time == [raw |-> raw,
                    exponent |-> device.scale_exponent + UsExponent[device.unit]]
<1>1. CASE Getter(g, calls, time)
  BY <1>1, GetterOutcome
<1>2. CASE FirstFailure(g, calls)
  BY <1>2, ThrowTypes DEF FirstFailure, Fails
<1>3. CASE outcome' = [getter |-> g, threw |-> "runtime_error", value |-> NULL]
  BY <1>3 DEF FoMaCAssumption
<1> QED
  BY <1>1, <1>2, <1>3 DEF SiteTime

\* The names of the getters that are not compile or coupling_map.
Plainly == {"qubits_num", "sites", "formats", "operation_map", "site_id", "operands_num",
            "parameters_num", "site_t1", "site_t2"}

\* What a getter of the FoMaC library does.
LEMMA GettersOutcome ==
  ASSUME FoMaCAssumption, Next
  PROVE  /\ UNCHANGED <<device, failing>>
         /\ outcome'.threw \in {NULL, "invalid_argument", "runtime_error"}
         /\ \/ outcome'.getter \in Plainly
            \/ /\ outcome'.getter = "coupling_map"
               /\ outcome'.threw = NULL => outcome'.value = Pairs(device.coupling_map)
                                           /\ coupling_map_error = NULL
<1>1. UNCHANGED <<device, failing>>
  BY DEF Next
<1>2. CASE get_qubits_num
  BY <1>1, <1>2, GetterOutcome DEF get_qubits_num, Plainly
<1>3. CASE get_sites
  BY <1>1, <1>3, GetterOutcome DEF get_sites, Plainly
<1>4. CASE get_supported_program_formats
  BY <1>1, <1>4, GetterOutcome DEF get_supported_program_formats, Plainly
<1>5. CASE get_operation_map
  BY <1>1, <1>5, GetterOutcome DEF get_operation_map, Plainly
<1>6. CASE get_coupling_map
  <2>1. coupling_map_error \in {NULL, "invalid_argument", "runtime_error"}
    BY ThrowTypes DEF coupling_map_error
  <2> QED
    BY <1>1, <1>6, <2>1 DEF get_coupling_map
<1>7. ASSUME NEW site \in Range(device.sites), get_site_id(site)
      PROVE  outcome'.getter \in Plainly
             /\ outcome'.threw \in {NULL, "invalid_argument", "runtime_error"}
  BY <1>7, GetterOutcome DEF get_site_id, Plainly
<1>8. ASSUME NEW op, get_operands_num(op) \/ get_parameters_num(op)
      PROVE  outcome'.getter \in Plainly
             /\ outcome'.threw \in {NULL, "invalid_argument", "runtime_error"}
  BY <1>8, GetterOutcome DEF get_operands_num, get_parameters_num, Plainly
<1>9. ASSUME NEW site \in Range(device.sites), get_site_t1(site) \/ get_site_t2(site)
      PROVE  outcome'.getter \in Plainly
             /\ outcome'.threw \in {NULL, "invalid_argument", "runtime_error"}
  BY <1>9, SiteTimeOutcome DEF get_site_t1, get_site_t2, Plainly
<1> QED
  BY <1>1, <1>2, <1>3, <1>4, <1>5, <1>6, <1>7, <1>8, <1>9 DEF Next

\* The pairs of a list of even length make it up.
LEMMA PairsOfEvenList ==
  ASSUME FoMaCAssumption, device \in Devices, coupling_map_error = NULL
  PROVE  LET pairs == Pairs(device.coupling_map)
         IN  /\ Len(device.coupling_map) = 2 * Len(pairs)
             /\ \A i \in DOMAIN pairs :
                  pairs[i] = <<device.coupling_map[2 * i - 1], device.coupling_map[2 * i]>>
<1> DEFINE n == Len(device.coupling_map)
<1>1. n \in Nat
  BY DEF FoMaCAssumption, Device
<1>2. n = 2 * (n \div 2) /\ n \div 2 \in Nat
  <2>1. \A m \in Nat : m % 2 = 0 => m = 2 * (m \div 2) /\ m \div 2 \in Nat
    OBVIOUS
  <2> QED
    BY <1>1, <2>1, CouplingMapEven
<1>3. /\ Len(Pairs(device.coupling_map)) = n \div 2
      /\ DOMAIN Pairs(device.coupling_map) = 1..n \div 2
  BY <1>2 DEF Pairs
<1> QED
  BY <1>2, <1>3 DEF Pairs

\* Every call of a getter or of compile keeps all three.
ToolInv ==
  /\ TypeOK
  /\ PairsMakeUpTheList
  /\ SimultaneousRelabelling

\* A getter keeps the invariant.
LEMMA GettersKeepInv ==
  ASSUME FoMaCAssumption, ToolInv, Next, UNCHANGED program
  PROVE  ToolInv'
<1>1. /\ UNCHANGED <<device, failing, program>>
      /\ outcome'.threw \in {NULL, "invalid_argument", "runtime_error"}
      /\ outcome'.threw # "undefined"
  BY GettersOutcome DEF FoMaCAssumption
<1>2. TypeOK'
  BY <1>1 DEF ToolInv, TypeOK
<1>3. outcome'.getter # "compile"
  BY GettersOutcome DEF Plainly
<1>4. SimultaneousRelabelling'
  BY <1>3 DEF SimultaneousRelabelling, Returned
<1>5. PairsMakeUpTheList'
  <2> SUFFICES ASSUME outcome'.getter = "coupling_map", outcome'.threw = NULL
               PROVE  PairsMakeUpTheList'
    BY DEF PairsMakeUpTheList, Returned
  <2>1. outcome'.value = Pairs(device.coupling_map) /\ coupling_map_error = NULL
    BY GettersOutcome DEF Plainly
  <2> QED
    BY <1>1, <2>1, PairsOfEvenList DEF PairsMakeUpTheList, ToolInv, TypeOK
<1> QED
  BY <1>2, <1>4, <1>5 DEF ToolInv

\* So does compile, whatever it throws or returns.
LEMMA CompileKeepsInv ==
  ASSUME FoMaCAssumption, ToolAssumption, ToolInv, compile
  PROVE  ToolInv'
<1>1. UNCHANGED <<device, failing, program>> /\ outcome'.getter = "compile"
  BY DEF compile, Throws
<1>2. TypeOK'
  <2>1. outcome'.threw \in {NULL, "invalid_argument", "runtime_error", "undefined"}
    <3>1. coupling_map_error \in {NULL, "invalid_argument", "runtime_error"}
      BY ThrowTypes DEF coupling_map_error
    <3> QED
      BY <3>1, ThrowTypes DEF compile, Throws
  <2>2. outcome'.threw = "undefined" => device.coupling_map = <<>>
    <3>1. "undefined" # NULL /\ coupling_map_error # "undefined"
      BY ThrowTypes DEF coupling_map_error, FoMaCAssumption
    <3>2. \A c : throw_if_error(c) # "undefined"
      BY ThrowTypes DEF FoMaCAssumption
    <3> QED
      BY <3>1, <3>2 DEF compile, Throws
  <2> QED
    BY <1>1, <2>1, <2>2 DEF ToolInv, TypeOK
<1>3. PairsMakeUpTheList'
  BY <1>1 DEF PairsMakeUpTheList, Returned
<1>4. SimultaneousRelabelling'
  <2> SUFFICES ASSUME outcome'.threw = NULL
               PROVE  SimultaneousRelabelling'
    BY DEF SimultaneousRelabelling, Returned
  <2>1. \A call : Fails(call) => throw_if_error(call) # NULL
    BY DEF Fails
  <2>2. /\ coupling_map_error = NULL
        /\ device.coupling_map # <<>>
        /\ outcome'.value = Compiled
    BY <2>1 DEF compile, Throws, FoMaCAssumption
  <2>3. device.index[edge[1]] \in Nat /\ device.index[edge[2]] \in Nat
    BY <2>2, EdgeHasIndices DEF ToolInv, TypeOK
  <2>4. edge' = edge
    BY <1>1 DEF edge
  <2> QED
    BY <1>1, <2>2, <2>3, <2>4, CompiledRelabels
       DEF ToolInv, TypeOK, SimultaneousRelabelling, Returned, Target
<1> QED
  BY <1>2, <1>3, <1>4 DEF ToolInv

\* The invariant holds for any devices, programs and failing calls.
THEOREM ToolInvariant ==
  ASSUME FoMaCAssumption, ToolAssumption
  PROVE  ToolSpec => []ToolInv
<1>1. ToolInit => ToolInv
  <2> SUFFICES ASSUME ToolInit
               PROVE  ToolInv
    OBVIOUS
  <2>1. outcome.getter = NULL /\ outcome.threw = NULL
    BY DEF ToolInit, Init
  <2>2. NULL \notin {"compile", "coupling_map", "site_t1", "site_t2", "undefined"}
    BY DEF FoMaCAssumption
  <2> QED
    BY <2>1, <2>2 DEF ToolInit, Init, ToolInv, TypeOK, PairsMakeUpTheList,
                      SimultaneousRelabelling, Returned
<1>2. ToolInv /\ [ToolNext]_toolvars => ToolInv'
  <2> SUFFICES ASSUME ToolInv, [ToolNext]_toolvars
               PROVE  ToolInv'
    OBVIOUS
  <2>1. CASE UNCHANGED toolvars
    <3>1. TypeOK'
      BY <2>1 DEF ToolInv, TypeOK, toolvars, vars
    <3>2. PairsMakeUpTheList'
      BY <2>1 DEF ToolInv, PairsMakeUpTheList, Returned, toolvars, vars
    <3>3. SimultaneousRelabelling'
      BY <2>1 DEF ToolInv, SimultaneousRelabelling, Returned, Target, edge, toolvars, vars
    <3> QED
      BY <3>1, <3>2, <3>3 DEF ToolInv
  <2>2. CASE compile
    BY <2>2, CompileKeepsInv
  <2>3. CASE Next /\ UNCHANGED program
    BY <2>3, GettersKeepInv
  <2> QED
    BY <2>1, <2>2, <2>3 DEF ToolNext
<1> QED
  BY <1>1, <1>2, PTL DEF ToolSpec

\* A call throws one of two exceptions or returns; only compile, and only
\* without pairs, is undefined.
THEOREM ToolTypeCorrect ==
  ASSUME FoMaCAssumption, ToolAssumption
  PROVE  ToolSpec => []TypeOK
BY ToolInvariant, PTL DEF ToolInv

\* get_coupling_map returns the pairs of the device's flat list or throws.
THEOREM PairsCorrect ==
  ASSUME FoMaCAssumption, ToolAssumption
  PROVE  ToolSpec => []PairsMakeUpTheList
BY ToolInvariant, PTL DEF ToolInv

\* The tool's three substitutions relabel both qubits at once, for any target
\* indices.
THEOREM RelabellingCorrect ==
  ASSUME FoMaCAssumption, ToolAssumption
  PROVE  ToolSpec => []SimultaneousRelabelling
BY ToolInvariant, PTL DEF ToolInv

-----------------------------------------------------------------------------
(* Operation maps *)

\* A set of natural numbers that is not empty has a least element.
LEMMA LeastElement ==
  ASSUME NEW T \in SUBSET Nat, T # {}
  PROVE  \E x \in T : \A y \in T : x <= y
<1> DEFINE R == OpToRel(<, Nat)
<1>1. \E x \in T : \A y \in T : <<y, x>> \notin R
  <2> HIDE DEF R
  <2>1. IsWellFoundedOn(R, Nat)
    BY NatLessThanWellFounded DEF R
  <2> QED
    BY <2>1, WFMin
<1>2. \A x, y \in Nat : <<y, x>> \notin R => x <= y
  BY DEF OpToRel
<1> QED
  BY <1>1, <1>2

\* A name of the map is that of the first operation that has it.
LEMMA MapLeadsToName ==
  ASSUME FoMaCAssumption, device \in Devices
  PROVE  /\ \A op \in Range(device.operations) : device.name[op] \in DOMAIN OperationMap
         /\ \A n \in DOMAIN OperationMap : /\ OperationMap[n] \in Range(device.operations)
                                           /\ device.name[OperationMap[n]] = n
<1> DEFINE ops == device.operations
           Named(n) == {i \in DOMAIN ops : device.name[ops[i]] = n}
           First(n, i) == /\ device.name[ops[i]] = n
                          /\ \A k \in 1..i - 1 : device.name[ops[k]] # n
           names == {device.name[ops[i]] : i \in DOMAIN ops}
<1>1. ops \in Seq(DOMAIN device.name)
  BY DEF FoMaCAssumption, Device
<1>2. DOMAIN ops = 1..Len(ops) /\ Len(ops) \in Nat
  BY <1>1
<1> HIDE DEF ops
<1>3. ASSUME NEW n \in names
      PROVE  \E i \in DOMAIN ops : First(n, i)
  <2>1. Named(n) # {} /\ Named(n) \in SUBSET Nat
    BY <1>2
  <2>2. PICK i \in Named(n) : \A k \in Named(n) : i <= k
    BY <2>1, LeastElement
  <2>3. \A k \in 1..i - 1 : k \in DOMAIN ops /\ ~(i <= k)
    BY <1>2
  <2> QED
    BY <2>2, <2>3
<1>4. OperationMap = [n \in names |-> ops[CHOOSE i \in DOMAIN ops : First(n, i)]]
  BY DEF OperationMap, ops
<1>5. ASSUME NEW n \in names
      PROVE  \E i \in DOMAIN ops : First(n, i) /\ OperationMap[n] = ops[i]
  BY <1>3, <1>4
<1>6. DOMAIN OperationMap = names
  BY <1>4
<1>7. Range(ops) = {ops[i] : i \in DOMAIN ops}
  BY DEF Range
<1> HIDE DEF First
<1>8. \A op \in Range(ops) : device.name[op] \in names
  BY <1>7
<1>9. ASSUME NEW n \in names
      PROVE  OperationMap[n] \in Range(ops) /\ device.name[OperationMap[n]] = n
  BY <1>5, <1>7 DEF First
<1> QED
  BY <1>6, <1>8, <1>9 DEF ops

-----------------------------------------------------------------------------
(* What is returned is what the device and the program give *)

\* A map that is returned is OperationMap, a program that is returned is
\* Compiled, and every check of compile succeeded.
ReturnsInv ==
  /\ Returned("operation_map") => outcome.value = OperationMap
  /\ Returned("compile") => /\ OneSmallRegister
                            /\ coupling_map_error = NULL
                            /\ device.coupling_map # <<>>
                            /\ outcome.value = Compiled

\* They are functions of what no call changes.
LEMMA SameDeviceSameValues ==
  ASSUME UNCHANGED <<device, failing, program>>
  PROVE  /\ OperationMap' = OperationMap
         /\ OneSmallRegister' <=> OneSmallRegister
         /\ coupling_map_error' = coupling_map_error
         /\ Compiled' = Compiled
<1>1. OperationMap' = OperationMap
  BY DEF OperationMap
<1>2. Declarations' = Declarations /\ num_qubits' = num_qubits
  BY DEF Declarations, num_qubits
<1>3. OneSmallRegister' <=> OneSmallRegister
  BY <1>2 DEF OneSmallRegister
<1>4. ASSUME NEW c PROVE throw_if_error(c)' = throw_if_error(c)
  BY DEF throw_if_error, Code
<1>5. ASSUME NEW c PROVE Fails(c)' <=> Fails(c)
  BY <1>4 DEF Fails
<1>6. coupling_map_error' = coupling_map_error
  BY <1>4, <1>5 DEF coupling_map_error
<1>7. Compiled' = Compiled
  BY <1>2 DEF Compiled, edge, Resized, Relabelled, replace_all_occurrences, Renamed
<1> QED
  BY <1>1, <1>3, <1>6, <1>7

\* The getter of the map is the only one that returns a map.
LEMMA GettersReturn ==
  ASSUME FoMaCAssumption, Next
  PROVE  /\ outcome'.getter # "compile"
         /\ outcome'.getter = "operation_map" /\ outcome'.threw = NULL =>
              outcome'.value = OperationMap
<1>1. CASE get_operation_map
  BY <1>1, GetterOutcome DEF get_operation_map
<1>2. CASE \/ get_qubits_num
           \/ get_sites
           \/ get_supported_program_formats
           \/ \E site \in Range(device.sites) : get_site_id(site)
           \/ \E op \in Range(device.operations) : \/ get_operands_num(op)
                                                   \/ get_parameters_num(op)
  BY <1>2, GetterOutcome DEF get_qubits_num, get_sites, get_supported_program_formats,
     get_site_id, get_operands_num, get_parameters_num
<1>3. CASE get_coupling_map
  BY <1>3 DEF get_coupling_map
<1>4. CASE \E site \in Range(device.sites) : get_site_t1(site)
  <2>1. outcome'.getter = "site_t1"
    BY <1>4, SiteTimeOutcome DEF get_site_t1
  <2> QED
    BY <2>1
<1>5. CASE \E site \in Range(device.sites) : get_site_t2(site)
  <2>1. outcome'.getter = "site_t2"
    BY <1>5, SiteTimeOutcome DEF get_site_t2
  <2> QED
    BY <2>1
<1> QED
  BY <1>1, <1>2, <1>3, <1>4, <1>5 DEF Next

\* compile returns after all of its checks.
LEMMA CompileReturns ==
  ASSUME FoMaCAssumption, compile
  PROVE  /\ outcome'.getter = "compile"
         /\ outcome'.threw = NULL => /\ OneSmallRegister
                                     /\ coupling_map_error = NULL
                                     /\ device.coupling_map # <<>>
                                     /\ outcome'.value = Compiled
<1>1. \A c : Fails(c) => throw_if_error(c) # NULL
  BY DEF Fails
<1> QED
  BY <1>1 DEF compile, Throws, FoMaCAssumption

\* Every call keeps it.
THEOREM ReturnsInvariant ==
  ASSUME FoMaCAssumption, ToolAssumption
  PROVE  ToolSpec => []ReturnsInv
<1>1. ToolInit => ReturnsInv
  <2> SUFFICES ASSUME ToolInit
               PROVE  outcome.getter \notin {"operation_map", "compile"}
    BY DEF ReturnsInv, Returned
  <2> QED
    BY DEF ToolInit, Init, FoMaCAssumption
<1>2. ReturnsInv /\ [ToolNext]_toolvars => ReturnsInv'
  <2> SUFFICES ASSUME ReturnsInv, [ToolNext]_toolvars
               PROVE  ReturnsInv'
    OBVIOUS
  <2>1. UNCHANGED <<device, failing, program>>
    BY DEF ToolNext, compile, Next, toolvars, vars
  <2>2. CASE UNCHANGED outcome
    BY <2>1, <2>2, SameDeviceSameValues DEF ReturnsInv, Returned
  <2>3. CASE compile
    BY <2>1, <2>3, SameDeviceSameValues, CompileReturns DEF ReturnsInv, Returned
  <2>4. CASE Next
    BY <2>1, <2>4, SameDeviceSameValues, GettersReturn DEF ReturnsInv, Returned
  <2> QED
    BY <2>2, <2>3, <2>4 DEF ToolNext, toolvars, vars
<1> QED
  BY <1>1, <1>2, PTL DEF ToolSpec

\* get_operation_map leads from each name of an operation to an operation with
\* that name, or throws.
THEOREM MapCorrect ==
  ASSUME FoMaCAssumption, ToolAssumption
  PROVE  ToolSpec => []MapNamesOperations
<1>1. ToolInv /\ ReturnsInv => MapNamesOperations
  BY MapLeadsToName DEF ToolInv, TypeOK, ReturnsInv, MapNamesOperations
<1> QED
  BY <1>1, ToolInvariant, ReturnsInvariant, PTL

-----------------------------------------------------------------------------
(* Plain programs *)

\* The two ends of the edge are different sites of the device.
LEMMA EdgeOfSites ==
  ASSUME FoMaCAssumption, device \in Devices, coupling_map_error = NULL,
         device.coupling_map # <<>>, CouplesItsSites
  PROVE  /\ 1 \in DOMAIN Pairs(device.coupling_map)
         /\ Pairs(device.coupling_map)[1] = edge
         /\ edge[1] # edge[2]
         /\ edge[1] \in Range(device.sites) /\ edge[2] \in Range(device.sites)
<1> DEFINE map == device.coupling_map
<1>1. Len(map) \in Nat /\ Len(map) # 0
  BY DEF FoMaCAssumption, Device
<1>2. Len(map) % 2 = 0
  BY CouplingMapEven
<1>3. 1 \in 1..Len(map) \div 2
  <2>1. \A n \in Nat : n # 0 /\ n % 2 = 0 => 1 \in 1..n \div 2
    OBVIOUS
  <2> QED
    BY <1>1, <1>2, <2>1
<1>4. 1 \in DOMAIN Pairs(map)
  BY <1>3 DEF Pairs
<1>5. Pairs(map)[1] = edge
  BY <1>3 DEF Pairs, edge
<1> QED
  BY <1>4, <1>5 DEF CouplesItsSites

\* The program declares one register, of at most two qubits.
LEMMA OneDeclaration ==
  ASSUME ToolAssumption, program \in Programs, OneSmallRegister
  PROVE  \E k \in DOMAIN program :
           /\ Declarations = {k}
           /\ program[k].kind = "qreg"
           /\ \E r \in Reference : program[k].args = <<r>> /\ r.index = num_qubits
           /\ num_qubits \in 0..2
<1>1. PICK k \in Declarations : Declarations = {k}
  BY DEF OneSmallRegister
<1>2. num_qubits = program[k].args[1].index
  BY <1>1 DEF num_qubits
<1>3. /\ k \in DOMAIN program
      /\ program[k].kind = "qreg"
      /\ program[k].args[1].index \in 0..9
  BY DEF Declarations
<1>4. program[k] \in Statement
  BY <1>3, ElementOfSeq DEF ToolAssumption
<1>5. program[k].args \in [1..1 -> Reference]
  BY <1>3, <1>4 DEF Statement
<1>6. program[k].args = <<program[k].args[1]>> /\ program[k].args[1] \in Reference
  BY <1>5
<1> QED
  BY <1>1, <1>2, <1>3, <1>6 DEF OneSmallRegister

\* A declaration of more than one qubit is relabelled into itself.
LEMMA DeclarationKept ==
  ASSUME NEW p, NEW k \in DOMAIN p, NEW n \in Nat, n >= 2, NEW id0 \in Nat, NEW id1 \in Nat,
         p[k] = [kind |-> "qreg", args |-> <<[reg |-> "q", index |-> n]>>]
  PROVE  /\ k \in DOMAIN Relabelled(p, id0, id1)
         /\ Relabelled(p, id0, id1)[k] = p[k]
<1> DEFINE ref == [reg |-> "q", index |-> n]
<1>1. ASSUME NEW q, k \in DOMAIN q, q[k] = p[k], NEW from, from \in {0, 1, Aux}, NEW to
      PROVE  /\ k \in DOMAIN replace_all_occurrences(q, from, to)
             /\ replace_all_occurrences(q, from, to)[k] = p[k]
  <2>1. Renamed(ref, from, to) = ref
    BY <1>1 DEF Renamed, Aux
  <2> DEFINE args == [i \in DOMAIN q[k].args |-> Renamed(q[k].args[i], from, to)]
  <2>2. args = <<ref>>
    <3>1. q[k].args = <<ref>> /\ DOMAIN <<ref>> = 1..1 /\ <<ref>>[1] = ref
      BY <1>1
    <3>2. args = [i \in 1..1 |-> ref]
      BY <2>1, <3>1
    <3> QED
      BY <3>2
  <2>3. /\ k \in DOMAIN replace_all_occurrences(q, from, to)
        /\ replace_all_occurrences(q, from, to)[k] = [q[k] EXCEPT !.args = args]
    BY <1>1 DEF replace_all_occurrences
  <2> HIDE DEF args
  <2> QED
    BY <1>1, <2>2, <2>3
<1> DEFINE q1 == replace_all_occurrences(p, 0, Aux)
           q2 == replace_all_occurrences(q1, 1, id1)
<1>2. k \in DOMAIN q1 /\ q1[k] = p[k]
  BY <1>1
<1> HIDE DEF q1
<1>3. k \in DOMAIN q2 /\ q2[k] = p[k]
  BY <1>1, <1>2
<1> HIDE DEF q2
<1>4. /\ k \in DOMAIN replace_all_occurrences(q2, Aux, id0)
      /\ replace_all_occurrences(q2, Aux, id0)[k] = p[k]
  BY <1>1, <1>3
<1> QED
  BY <1>4 DEF Relabelled, q1, q2

\* A plain program is compiled to one whose register has a qubit for each site.
THEOREM RegisterCorrect ==
  ASSUME FoMaCAssumption, ToolAssumption
  PROVE  ToolSpec => []PlainRegisterResized
<1>1. ASSUME ToolInv, ReturnsInv, Returned("compile"), Plain, QubitsAreSites, CouplesItsSites
      PROVE  ForDevice(outcome.value)
  <2>1. /\ device \in Devices /\ program \in Programs
        /\ OneSmallRegister /\ coupling_map_error = NULL /\ device.coupling_map # <<>>
        /\ outcome.value = Compiled
    BY <1>1 DEF ToolInv, TypeOK, ReturnsInv
  <2>2. PICK k \in DOMAIN program :
          /\ Declarations = {k}
          /\ program[k].kind = "qreg"
          /\ \E r \in Reference : program[k].args = <<r>> /\ r.index = num_qubits
    BY <2>1, OneDeclaration
  <2>3. program[k] = [kind |-> "qreg", args |-> <<[reg |-> "q", index |-> num_qubits]>>]
    <3>1. PICK r \in Reference : program[k].args = <<r>> /\ r.index = num_qubits
      BY <2>2
    <3>2. r.reg = "q"
      <4>1. 1 \in DOMAIN program[k].args /\ program[k].args[1] = r
        BY <3>1
      <4> QED
        BY <1>1, <2>2, <4>1 DEF Plain
    <3>3. r = [reg |-> "q", index |-> num_qubits]
      BY <3>1, <3>2 DEF Reference
    <3>4. program[k] \in Statement
      BY <2>1, ElementOfSeq DEF ToolAssumption
    <3>5. program[k] \in [kind: {"qreg", "creg"}, args: [1..1 -> Reference]]
      BY <2>2, <3>4 DEF Statement
    <3> QED
      BY <2>2, <3>1, <3>3, <3>5
  <2> DEFINE n == device.qubits_num
             p == Resized(program, num_qubits, n)
  <2>4. k \in DOMAIN p /\ p[k] = [kind |-> "qreg", args |-> <<[reg |-> "q", index |-> n]>>]
    BY <2>2, <2>3 DEF Resized
  <2>5. n \in Nat /\ n >= 2 /\ n = Len(device.sites)
    <3>1. device.sites \in Seq(DOMAIN device.index)
      BY <2>1 DEF FoMaCAssumption, Device
    <3>2. PICK s \in 1..Len(device.sites), t \in 1..Len(device.sites) :
            device.sites[s] # device.sites[t]
      BY <1>1, <2>1, <3>1, EdgeOfSites DEF Range
    <3>3. s # t
      BY <3>2
    <3> QED
      BY <1>1, <3>1, <3>3 DEF QubitsAreSites
  <2>6. device.index[edge[1]] \in Nat /\ device.index[edge[2]] \in Nat
    BY <2>1, EdgeHasIndices
  <2>7. k \in DOMAIN Compiled /\ Compiled[k] = p[k]
    <3> HIDE DEF p, n
    <3>1. ASSUME NEW id0 \in Nat, NEW id1 \in Nat
          PROVE  /\ k \in DOMAIN Relabelled(p, id0, id1)
                 /\ Relabelled(p, id0, id1)[k] = p[k]
      <4>1. k \in DOMAIN p
        BY <2>4
      <4>2. n \in Nat /\ n >= 2
        BY <2>5
      <4>3. p[k] = [kind |-> "qreg", args |-> <<[reg |-> "q", index |-> n]>>]
        BY <2>4
      <4> QED
        BY ONLY <4>1, <4>2, <4>3, DeclarationKept
    <3> QED
      BY <2>6, <3>1 DEF Compiled, p, n
  <2> QED
    BY <2>1, <2>4, <2>5, <2>7 DEF ForDevice
<1> QED
  BY <1>1, ToolInvariant, ReturnsInvariant, PTL DEF PlainRegisterResized

\* The gates of a compiled plain program work on sites of the device, and those
\* on two on coupled ones.
THEOREM GatesCorrect ==
  ASSUME FoMaCAssumption, ToolAssumption
  PROVE  ToolSpec => []GatesOnCoupledSites
<1>1. ASSUME ToolInv, ReturnsInv, Returned("compile"), Plain, IndicesArePositions,
             CouplesItsSites,
             NEW k \in DOMAIN program, program[k].kind = "gate"
      PROVE  /\ \A q \in Qubits(k) : q + 1 \in DOMAIN device.sites
             /\ \A q, r \in Qubits(k) :
                  q # r => Coupled(device.sites[q + 1], device.sites[r + 1])
  <2> DEFINE id0 == device.index[edge[1]]
             id1 == device.index[edge[2]]
  <2>1. /\ device \in Devices /\ program \in Programs
        /\ OneSmallRegister /\ coupling_map_error = NULL /\ device.coupling_map # <<>>
    BY <1>1 DEF ToolInv, TypeOK, ReturnsInv
  <2>2. /\ id0 + 1 \in DOMAIN device.sites /\ device.sites[id0 + 1] = edge[1]
        /\ id1 + 1 \in DOMAIN device.sites /\ device.sites[id1 + 1] = edge[2]
    <3>1. device.sites \in Seq(DOMAIN device.index)
      BY <2>1 DEF FoMaCAssumption, Device
    <3>2. ASSUME NEW e \in Range(device.sites)
          PROVE  /\ device.index[e] + 1 \in DOMAIN device.sites
                 /\ device.sites[device.index[e] + 1] = e
      <4>1. PICK s \in DOMAIN device.sites : e = device.sites[s]
        BY DEF Range
      <4>2. s \in Nat
        BY <3>1
      <4>3. device.index[e] = s - 1
        BY <1>1, <4>1 DEF IndicesArePositions
      <4> QED
        BY <4>1, <4>2, <4>3
    <3> QED
      BY <1>1, <2>1, <3>2, EdgeOfSites
  <2>3. ASSUME NEW q \in Qubits(k)
        PROVE  q \in {id0, id1}
    <3> DEFINE args == outcome.value[k].args
    <3>1. args = [i \in DOMAIN program[k].args |-> Target(program[k].args[i], id0, id1)]
      BY <1>1 DEF ToolInv, SimultaneousRelabelling
    <3>2. PICK i \in DOMAIN program[k].args :
            /\ Target(program[k].args[i], id0, id1).reg = "q"
            /\ Target(program[k].args[i], id0, id1).index = q
      <4>1. PICK i \in DOMAIN args : args[i].reg = "q" /\ args[i].index = q
        BY DEF Qubits
      <4> HIDE DEF args
      <4>2. i \in DOMAIN program[k].args /\ args[i] = Target(program[k].args[i], id0, id1)
        BY <3>1, <4>1
      <4> QED
        BY <4>1, <4>2
    <3>3. program[k].args[i] \in Reference
      <4>1. program[k] \in Statement
        BY <2>1, ElementOfSeq DEF ToolAssumption
      <4>2. program[k].args \in Seq(Reference)
        BY <1>1, <4>1 DEF Statement
      <4> QED
        BY <4>2, ElementOfSeq
    <3>4. program[k].args[i].reg = "q"
      BY <3>2, <3>3 DEF Target, Reference
    <3>5. program[k].args[i].index \in {0, 1}
      <4>1. num_qubits \in 0..2
        BY <2>1, OneDeclaration
      <4>2. program[k].args[i].index \in 0..num_qubits - 1
        BY <1>1, <3>4 DEF Plain
      <4> QED
        BY <4>1, <4>2
    <3> QED
      BY <3>2, <3>3, <3>4, <3>5 DEF Target, Reference, ToolAssumption
  <2> HIDE DEF id0, id1
  <2>4. \A q \in Qubits(k) : q + 1 \in DOMAIN device.sites
    BY <2>2, <2>3
  <2>5. ASSUME NEW q \in Qubits(k), NEW r \in Qubits(k), q # r
        PROVE  Coupled(device.sites[q + 1], device.sites[r + 1])
    <3>1. \/ q = id0 /\ r = id1
          \/ q = id1 /\ r = id0
      BY <2>3, <2>5
    <3>2. 1 \in DOMAIN Pairs(device.coupling_map) /\ Pairs(device.coupling_map)[1] = <<edge[1], edge[2]>>
      BY <1>1, <2>1, EdgeOfSites DEF edge
    <3> QED
      BY <2>2, <3>1, <3>2 DEF Coupled
  <2> QED
    BY <2>4, <2>5
<1>2. ToolInv /\ ReturnsInv => GatesOnCoupledSites
  BY <1>1 DEF GatesOnCoupledSites
<1> QED
  BY <1>2, ToolInvariant, ReturnsInvariant, PTL
=============================================================================
