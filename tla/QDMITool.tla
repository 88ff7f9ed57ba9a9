------------------------------- MODULE QDMITool -------------------------------
(***************************************************************************)
(* The example tool, examples/tool/example_tool.cpp: it compiles an        *)
(* OpenQASM 2 program of up to two qubits for the device of its FoMaC by   *)
(* substitutions in the text.                                              *)
(*                                                                         *)
(* A program is a list of statements, a statement its references to        *)
(* registers: reg[index] as text, or the register as a whole.  The text    *)
(* q[0] is found at the end of any register's name that ends in q.         *)
(***************************************************************************)
EXTENDS QDMIFoMaC

CONSTANTS
  Programs,  \* programs a client may compile
  Registers, \* names of registers
  QNames     \* those that end in q

VARIABLE program  \* the program to compile

toolvars == <<vars, program>>

\* Not an index of the program: the whole register, and the name aux.
Whole == -1
Aux == -2

Reference == [reg: Registers, index: Nat \cup {Whole}]
Statement == [kind: {"qreg", "creg"}, args: [1..1 -> Reference]]
               \cup [kind: {"gate"}, args: Seq(Reference)]

ASSUME ToolAssumption ==
  /\ QNames \subseteq Registers
  /\ "q" \in QNames
  /\ Programs \subseteq Seq(Statement)

ToolInit == Init /\ program \in Programs

-----------------------------------------------------------------------------
(* What is compiled *)

\* The declarations the regular expression finds: of one digit, any name.
Declarations ==
  {k \in DOMAIN program : program[k].kind = "qreg" /\ program[k].args[1].index \in 0..9}

\* The size of the only register.
num_qubits == program[CHOOSE k \in Declarations : TRUE].args[1].index

OneSmallRegister == (\E k \in Declarations : Declarations = {k}) /\ num_qubits <= 2

-----------------------------------------------------------------------------
(* The substitutions *)

\* The text "q[from]" becomes "q[to]".
Renamed(r, from, to) ==
  IF r.reg \in QNames /\ r.index = from THEN [r EXCEPT !.index = to] ELSE r

replace_all_occurrences(p, from, to) ==
  [k \in DOMAIN p |->
     [p[k] EXCEPT !.args = [i \in DOMAIN p[k].args |-> Renamed(p[k].args[i], from, to)]]]

\* Mutant: only a register of two qubits is found.
Resized_two(p, from, to) ==
  [k \in DOMAIN p |->
     IF p[k].kind = "qreg" /\ p[k].args = <<[reg |-> "q", index |-> 2]>>
       THEN [p[k] EXCEPT !.args = <<[reg |-> "q", index |-> to]>>] ELSE p[k]]

\* The text "qreg q[from];" becomes "qreg q[to];".
Resized(p, from, to) ==
  [k \in DOMAIN p |->
     IF p[k].kind = "qreg" /\ p[k].args = <<[reg |-> "q", index |-> from]>>
       THEN [p[k] EXCEPT !.args = <<[reg |-> "q", index |-> to]>>] ELSE p[k]]

\* Mutant: without the detour over aux.
Relabelled_directly(p, id0, id1) ==
  replace_all_occurrences(replace_all_occurrences(p, 0, id0), 1, id1)

Relabelled(p, id0, id1) ==
  replace_all_occurrences(
    replace_all_occurrences(replace_all_occurrences(p, 0, Aux), 1, id1), Aux, id0)

\* Mutant: the sites of two different pairs.
edge_of_two_pairs == <<device.coupling_map[1], device.coupling_map[Len(device.coupling_map)]>>

\* The first pair of the coupling map.
edge == <<device.coupling_map[1], device.coupling_map[2]>>

Compiled ==
  Relabelled(Resized(program, num_qubits, device.qubits_num),
             device.index[edge[1]], device.index[edge[2]])

-----------------------------------------------------------------------------
Throws(exception) == outcome' = [getter |-> "compile", threw |-> exception, value |-> NULL]

\* The checks and device calls in their order; the first pair of an empty
\* coupling map is no object.
compile ==
  /\ UNCHANGED <<device, failing, program>>
  /\ \/ /\ ~OneSmallRegister
        /\ Throws("invalid_argument")
     \/ /\ OneSmallRegister
        /\ \/ /\ Fails(Val("QUBITSNUM"))
              /\ Throws(throw_if_error(Val("QUBITSNUM")))
           \/ /\ ~Fails(Val("QUBITSNUM"))
              /\ num_qubits > device.qubits_num
              /\ Throws("invalid_argument")
           \/ /\ ~Fails(Val("QUBITSNUM"))
              /\ num_qubits <= device.qubits_num
              /\ \/ /\ coupling_map_error # NULL
                    /\ Throws(coupling_map_error)
                 \/ /\ coupling_map_error = NULL
                    /\ device.coupling_map = <<>>
                    /\ Throws("undefined")
                 \/ /\ coupling_map_error = NULL
                    /\ device.coupling_map # <<>>
                    /\ Fails(Val("INDEX"))
                    /\ Throws(throw_if_error(Val("INDEX")))
                 \/ /\ coupling_map_error = NULL
                    /\ device.coupling_map # <<>>
                    /\ ~Fails(Val("INDEX"))
                    /\ outcome' = [getter |-> "compile", threw |-> NULL, value |-> Compiled]

\* A client of the FoMaC library calls the tool or a getter.
ToolNext == compile \/ (Next /\ UNCHANGED program)

ToolSpec == ToolInit /\ [][ToolNext]_toolvars

-----------------------------------------------------------------------------
(* Properties *)

\* The type invariant: a call throws one of two exceptions or returns a value;
\* only the first pair of an empty coupling map is undefined.
TypeOK ==
  /\ device \in Devices
  /\ failing \in [call: Call, code: Codes]
  /\ program \in Programs
  /\ outcome.threw \in {NULL, "invalid_argument", "runtime_error", "undefined"}
  /\ outcome.threw = "undefined" => outcome.getter = "compile" /\ device.coupling_map = <<>>

\* The reference: both labels at once, in a gate or in a declaration.
Target(r, id0, id1) ==
  CASE r.reg \in QNames /\ r.index = 0 -> [r EXCEPT !.index = id0]
    [] r.reg \in QNames /\ r.index = 1 -> [r EXCEPT !.index = id1]
    [] OTHER -> r

\* The substitutions one after the other do what one substitution of both
\* labels at once would do, for any two target labels, 0 and 1 included.
SimultaneousRelabelling ==
  Returned("compile") =>
    /\ DOMAIN outcome.value = DOMAIN program
    /\ \A k \in DOMAIN program :
         program[k].kind = "gate" =>
           /\ outcome.value[k].kind = "gate"
           /\ outcome.value[k].args =
                [i \in DOMAIN program[k].args |->
                   Target(program[k].args[i], device.index[edge[1]], device.index[edge[2]])]

\* A program of the rules of constants.h:959-963 but for its register's size:
\* its one register is q, its references to q are single qubits of it, and no
\* other name ends in q.
Plain ==
  /\ \A k \in DOMAIN program : \A i \in DOMAIN program[k].args :
       LET r == program[k].args[i]
       IN  /\ r.reg \in QNames => r.reg = "q"
           /\ program[k].kind = "qreg" => r.reg = "q"
           /\ program[k].kind # "qreg" /\ r.reg = "q" => r.index \in 0..num_qubits - 1
  /\ \E k \in Declarations : \A l \in DOMAIN program : program[l].kind = "qreg" => l = k

\* The qubits a gate of the compiled program works on.
Qubits(k) ==
  {outcome.value[k].args[i].index :
     i \in {j \in DOMAIN outcome.value[k].args : outcome.value[k].args[j].reg = "q"}}

Coupled(s, t) ==
  \E i \in DOMAIN Pairs(device.coupling_map) :
    Pairs(device.coupling_map)[i] \in {<<s, t>>, <<t, s>>}

\* The tool writes indices of sites where a program names positions, which is
\* the same for devices whose list of sites is sorted by indices from 0 without
\* gaps; constants.h:332-333 and 567 demand none of this.
IndicesArePositions ==
  \A k \in DOMAIN device.sites : device.index[device.sites[k]] = k - 1

\* The device lists the sites it couples, and couples none with itself
\* (constants.h:335, 350).
CouplesItsSites ==
  \A i \in DOMAIN Pairs(device.coupling_map) :
    LET pair == Pairs(device.coupling_map)[i]
    IN  pair[1] # pair[2] /\ {pair[1], pair[2]} \subseteq Range(device.sites)

\* Every gate on two qubits is one on two coupled sites, where q[i] is the i-th
\* site of the device (constants.h:969, counted from 0), as long as the indices
\* of its sites are positions.
GatesOnCoupledSites ==
  Returned("compile") /\ Plain /\ IndicesArePositions /\ CouplesItsSites =>
    \A k \in DOMAIN program :
      program[k].kind = "gate" =>
        /\ \A q \in Qubits(k) : q + 1 \in DOMAIN device.sites
        /\ \A q, r \in Qubits(k) :
             q # r => Coupled(device.sites[q + 1], device.sites[r + 1])

\* p declares the register q with a qubit for each site (constants.h:959-961).
ForDevice(p) ==
  \E k \in DOMAIN p :
    p[k].kind = "qreg" /\ p[k].args = <<[reg |-> "q", index |-> Len(device.sites)]>>

\* The device counts its sites as qubits; it may have zones besides them.
QubitsAreSites == device.qubits_num = Len(device.sites)

\* A plain program's register gets the size of the device.  A device of one
\* qubit that is coupled with itself is none to compile for: its declaration,
\* q[1], would be relabelled like a qubit.
PlainRegisterResized ==
  Returned("compile") /\ Plain /\ QubitsAreSites /\ CouplesItsSites =>
    ForDevice(outcome.value)
=============================================================================
