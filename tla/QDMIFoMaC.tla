------------------------------ MODULE QDMIFoMaC ------------------------------
(***************************************************************************)
(* The example FoMaC library, examples/fomac/example_fomac.cpp: getters    *)
(* over the query functions of one device.  A getter makes its device      *)
(* calls in order; the first that fails becomes an exception.  The device  *)
(* may be any device: what it reports is a value of the state, and any one *)
(* of its calls may fail.                                                  *)
(*                                                                         *)
(* A scale factor is a power of ten, given by its exponent; a time is a    *)
(* raw number with such an exponent.                                       *)
(***************************************************************************)
EXTENDS Integers, Sequences, Functions

CONSTANTS
  Devices,  \* what devices may report, see Device
  Codes,    \* codes a device call may return
  NULL      \* no exception, no value

VARIABLES
  device,   \* what the device of this FoMaC reports
  failing,  \* the device call that does not return SUCCESS, and its code
  outcome   \* what the last getter did

vars == <<device, failing, outcome>>

\* What a device reports.  name, qubits and params are functions of its
\* operations, index, t1 and t2 of its sites; unit is its duration unit.
Device(d) ==
  /\ d.operations \in Seq(DOMAIN d.name)
  /\ d.sites \in Seq(DOMAIN d.index)
  /\ d.coupling_map \in Seq(DOMAIN d.index)
  /\ \A site \in DOMAIN d.index : d.index[site] \in Nat
  /\ d.scale_exponent \in Int

ASSUME FoMaCAssumption ==
  /\ \A d \in Devices : Device(d)
  /\ NULL \notin {"invalid_argument", "runtime_error", "undefined",
                "coupling_map", "operation_map", "site_t1", "site_t2", "compile"}

\* A device call: the property, and whether its size or its value is asked for.
Size(prop) == [prop |-> prop, asks |-> "size"]
Val(prop) == [prop |-> prop, asks |-> "value"]

Lists == {"OPERATIONS", "NAME", "COUPLINGMAP", "SITES", "DURATIONUNIT",
          "SUPPORTEDPROGRAMFORMATS"}
Scalars == {"QUBITSNUM", "INDEX", "DURATIONSCALEFACTOR", "T1", "T2", "OPERANDS", "PARAMETERS"}
Call == {Size(prop) : prop \in Lists} \cup {Val(prop) : prop \in Lists \cup Scalars}

Code(call) == IF call = failing.call THEN failing.code ELSE "SUCCESS"

\* Mutant: other codes are thrown as they are.
throw_if_error_code(call) ==
  IF Code(call) \in {"SUCCESS", "WARN_GENERAL"} THEN NULL ELSE Code(call)

\* A warning is no error.  Every caller passes a message.
throw_if_error(call) ==
  CASE Code(call) \in {"SUCCESS", "WARN_GENERAL"} -> NULL
    [] Code(call) = "INVALIDARGUMENT" -> "invalid_argument"
    [] OTHER -> "runtime_error"

Fails(call) == throw_if_error(call) # NULL

AllSucceed(calls) == \A i \in DOMAIN calls : ~Fails(calls[i])

\* The first of these calls that fails is thrown.
FirstFailure(getter, calls) ==
  \E i \in DOMAIN calls :
    /\ Fails(calls[i])
    /\ \A k \in 1..i - 1 : ~Fails(calls[k])
    /\ outcome' = [getter |-> getter, threw |-> throw_if_error(calls[i]), value |-> NULL]

\* A getter that makes these calls, then returns value.
Getter(getter, calls, value) ==
  \/ FirstFailure(getter, calls)
  \/ /\ AllSucceed(calls)
     /\ outcome' = [getter |-> getter, threw |-> NULL, value |-> value]

Init ==
  /\ device \in Devices
  /\ failing \in [call: Call, code: Codes]
  /\ outcome = [getter |-> NULL, threw |-> NULL, value |-> NULL]

-----------------------------------------------------------------------------
(* The lists, and a number of the device, of a site or of an operation *)

get_qubits_num == Getter("qubits_num", <<Val("QUBITSNUM")>>, device.qubits_num)

get_sites == Getter("sites", <<Size("SITES"), Val("SITES")>>, device.sites)

get_supported_program_formats ==
  Getter("formats", <<Size("SUPPORTEDPROGRAMFORMATS"), Val("SUPPORTEDPROGRAMFORMATS")>>,
         device.formats)

get_site_id(site) == Getter("site_id", <<Val("INDEX")>>, device.index[site])

get_operands_num(op) == Getter("operands_num", <<Val("OPERANDS")>>, device.operands[op])

get_parameters_num(op) == Getter("parameters_num", <<Val("PARAMETERS")>>, device.params[op])

\* Of operations with the same name the first is kept.
OperationMap ==
  LET ops == device.operations
      first(n) == CHOOSE i \in DOMAIN ops :
                    /\ device.name[ops[i]] = n
                    /\ \A k \in 1..i - 1 : device.name[ops[k]] # n
  IN  [n \in {device.name[ops[i]] : i \in DOMAIN ops} |-> ops[first(n)]]

\* Mutant: the code of the name query is not looked at; the name is then empty.
get_operation_map_unchecked ==
  /\ device.operations # <<>>
  /\ Getter("operation_map", <<Size("OPERATIONS"), Val("OPERATIONS"), Size("NAME")>>,
            IF Fails(Val("NAME")) THEN [n \in {""} |-> Head(device.operations)]
                                  ELSE OperationMap)

\* A name is asked for once for each operation.
get_operation_map ==
  Getter("operation_map",
         <<Size("OPERATIONS"), Val("OPERATIONS")>>
           \o IF device.operations = <<>> THEN <<>> ELSE <<Size("NAME"), Val("NAME")>>,
         OperationMap)

\* The flat list of sites as pairs.
Pairs(sites) == [i \in 1..Len(sites) \div 2 |-> <<sites[2 * i - 1], sites[2 * i]>>]

\* Mutant: a list of odd length is not refused.
get_coupling_map_odd ==
  Getter("coupling_map", <<Size("COUPLINGMAP"), Val("COUPLINGMAP")>>, Pairs(device.coupling_map))

\* The exception of get_coupling_map, if any; the length is checked between
\* its two calls.
coupling_map_error ==
  CASE Fails(Size("COUPLINGMAP")) -> throw_if_error(Size("COUPLINGMAP"))
    [] ~Fails(Size("COUPLINGMAP")) /\ Len(device.coupling_map) % 2 # 0 -> "runtime_error"
    [] OTHER -> throw_if_error(Val("COUPLINGMAP"))

get_coupling_map ==
  outcome' = [getter |-> "coupling_map",
              threw  |-> coupling_map_error,
              value  |-> IF coupling_map_error = NULL THEN Pairs(device.coupling_map) ELSE NULL]

-----------------------------------------------------------------------------
(* Times *)

\* Dividing by 1000 takes 3 from the exponent.
UsExponent == [us |-> 0, ms |-> -3, ns |-> 3]

ScaleCalls == <<Size("DURATIONUNIT"), Val("DURATIONUNIT"), Val("DURATIONSCALEFACTOR")>>

\* A time of a site: its raw value and then the scale factor are asked for,
\* and any unit but three is refused.
SiteTime(getter, prop, raw) ==
  LET calls == <<Val(prop)>> \o ScaleCalls
  IN  \/ /\ device.unit \in DOMAIN UsExponent
         /\ Getter(getter, calls,
                   [raw |-> raw, exponent |-> device.scale_exponent + UsExponent[device.unit]])
      \/ /\ device.unit \notin DOMAIN UsExponent
         /\ \/ FirstFailure(getter, calls)
            \/ /\ AllSucceed(calls)
               /\ outcome' = [getter |-> getter, threw |-> "runtime_error", value |-> NULL]

get_site_t1(site) == SiteTime("site_t1", "T1", device.t1[site])
get_site_t2(site) == SiteTime("site_t2", "T2", device.t2[site])

-----------------------------------------------------------------------------
Next ==
  /\ UNCHANGED <<device, failing>>
  /\ \/ get_qubits_num
     \/ get_sites
     \/ get_supported_program_formats
     \/ get_operation_map
     \/ get_coupling_map
     \/ \E site \in Range(device.sites) : \/ get_site_id(site)
                                          \/ get_site_t1(site)
                                          \/ get_site_t2(site)
     \/ \E op \in Range(device.operations) : \/ get_operands_num(op)
                                             \/ get_parameters_num(op)

Spec == Init /\ [][Next]_vars

-----------------------------------------------------------------------------
(* Properties *)

\* The last getter returned a value.
Returned(getter) == outcome.getter = getter /\ outcome.threw = NULL

\* An operation map that is returned leads from every name of an operation to
\* an operation of the device with that name, whichever call failed and also
\* when several operations share a name.
MapNamesOperations ==
  Returned("operation_map") =>
    /\ \A op \in Range(device.operations) : device.name[op] \in DOMAIN outcome.value
    /\ \A n \in DOMAIN outcome.value : /\ outcome.value[n] \in Range(device.operations)
                                       /\ device.name[outcome.value[n]] = n

\* The pairs that are returned make up the device's flat list again
\* (constants.h:350-352).
PairsMakeUpTheList ==
  Returned("coupling_map") =>
    /\ Len(device.coupling_map) = 2 * Len(outcome.value)
    /\ \A i \in DOMAIN outcome.value :
         outcome.value[i] = <<device.coupling_map[2 * i - 1], device.coupling_map[2 * i]>>

-----------------------------------------------------------------------------
(* What the headers say and the code does not do *)

\* The time that raw stands for, in microseconds: the raw value times the scale
\* factor is in the reported unit, which is a power of ten of a microsecond.
PowerOfTen == [us |-> 0, ms |-> 3, ns |-> -3, s |-> 6, ps |-> -6]
PhysicalTime(raw) == [raw |-> raw, exponent |-> device.scale_exponent + PowerOfTen[device.unit]]

RightTime(raws) == \E site \in Range(device.sites) : outcome.value = PhysicalTime(raws[site])

\* "A client must multiply a raw duration value by" the scale factor, and "The
\* result is in the reported unit, including its prefix" (constants.h:409-412):
\* a time that is returned in microseconds is that of a site, in every unit.
SiteTimesInMicroseconds ==
  /\ Returned("site_t1") => RightTime(device.t1)
  /\ Returned("site_t2") => RightTime(device.t2)
=============================================================================
