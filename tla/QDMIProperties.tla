---------------------------- MODULE QDMIProperties ----------------------------
(***************************************************************************)
(* What the C++ example device tells of itself: its tables and its three   *)
(* query functions (cxx_device.cpp, lines 158-328 and 881-1020), read by a *)
(* client that asks for the size of a property and then fetches it into a  *)
(* buffer.                                                                 *)
(*                                                                         *)
(* A value is a list of items of one C type, a single value a list of one. *)
(* A site is its id, an operation its name; a double is written in         *)
(* thousandths.                                                            *)
(***************************************************************************)
EXTENDS Integers, Sequences, SequencesExt

CONSTANTS
  DEVICE_ID, DEVICE_VERSION, QDMI_VERSION,  \* strings set when building
  SiteLists,  \* lists of sites a client passes to an operation query
  NONE        \* the null pointer, and what was not returned

VARIABLES
  session,  \* is the session initialized?
  status,   \* CXX_QDMI_Device_State::status
  asked,    \* the arguments of the last query, with the size of its buffer
  reply,    \* what it returned and wrote
  announced \* the size a size query returned before the present fetch

vars == <<session, status, asked, reply, announced>>

-----------------------------------------------------------------------------
(* The properties of the interface *)

DeviceProperty ==
  {"ID", "NAME", "VERSION", "LIBRARYVERSION", "STATUS", "QUBITSNUM", "SITES", "OPERATIONS",
   "COUPLINGMAP", "LENGTHUNIT", "LENGTHSCALEFACTOR", "DURATIONUNIT", "DURATIONSCALEFACTOR",
   "MINATOMDISTANCE", "SUPPORTEDPROGRAMFORMATS", "CHILDDEVICES", "QUEUELENGTH"}

SiteProperty ==
  {"INDEX", "T1", "T2", "NAME", "XCOORDINATE", "YCOORDINATE", "ZCOORDINATE", "ISZONE",
   "XEXTENT", "YEXTENT", "ZEXTENT", "MODULEINDEX", "SUBMODULEINDEX"}

OperationProperty ==
  {"NAME", "QUBITSNUM", "PARAMETERSNUM", "DURATION", "FIDELITY", "INTERACTIONRADIUS",
   "BLOCKINGRADIUS", "IDLINGFIDELITY", "ISZONED", "SITES", "MEANSHUTTLINGSPEED"}

-----------------------------------------------------------------------------
(* The tables *)

OPERATIONS == <<"rx", "ry", "rz", "cx">>
SITES == <<0, 1, 2, 3, 4>>
SUPPORTED_PROGRAM_FORMATS == <<"QASM2", "QIRBASESTRING", "QIRBASEMODULE">>

\* Mutant: one direction of a pair is missing.
COUPLING_MAP_one_way == <<0,1, 1,0, 1,2, 2,1, 2,3, 3,2, 3,4, 4,3, 4,0>>

\* A ring, each pair in both directions, flattened.
DEVICE_COUPLING_MAP == <<0,1, 1,0, 1,2, 2,1, 2,3, 3,2, 3,4, 4,3, 4,0, 0,4>>

Duration == [rx |-> 10, ry |-> 10, rz |-> 10, cx |-> 100]

OPERATION_FIDELITIES ==
  [pair \in {<<0,1>>, <<1,0>>, <<1,2>>, <<2,1>>, <<2,3>>, <<3,2>>, <<3,4>>, <<4,3>>, <<4,0>>, <<0,4>>} |->
     CASE pair \in {<<0,1>>, <<1,0>>} -> 990
       [] pair \in {<<1,2>>, <<2,1>>} -> 980
       [] pair \in {<<2,3>>, <<3,2>>} -> 970
       [] pair \in {<<3,4>>, <<4,3>>} -> 960
       [] pair \in {<<4,0>>, <<0,4>>} -> 950]

-----------------------------------------------------------------------------
(* Values and answers *)

Value(type, items) == [type |-> type, items |-> items]
Single(type, item) == Value(type, <<item>>)

sizeof(type) ==
  IF type = "bool" THEN 1
  ELSE IF type \in {"QDMI_Device_Status", "QDMI_Program_Format"} THEN 4 ELSE 8

Bytes(value) ==
  IF value.type = "char" THEN Len(value.items[1]) + 1
                         ELSE sizeof(value.type) * Len(value.items)

\* Mutant: a list announces how many items it has.
Answer_counts_items(value, size) ==
  \/ /\ size # NONE /\ size < Len(value.items)
     /\ reply' = [code |-> "INVALIDARGUMENT", size_ret |-> NONE, value |-> NONE]
  \/ /\ size # NONE => size >= Len(value.items)
     /\ reply' = [code |-> "SUCCESS", size_ret |-> Len(value.items),
                  value |-> IF size = NONE THEN NONE ELSE value]

\* The three ADD_..._PROPERTY macros: a buffer that is too small is refused
\* before anything is written, the size is returned with or without a buffer.
Answer(value, size) ==
  \/ /\ size # NONE /\ size < Bytes(value)
     /\ reply' = [code |-> "INVALIDARGUMENT", size_ret |-> NONE, value |-> NONE]
  \/ /\ size # NONE => size >= Bytes(value)
     /\ reply' = [code |-> "SUCCESS", size_ret |-> Bytes(value),
                  value |-> IF size = NONE THEN NONE ELSE value]

Refuse(code) == reply' = [code |-> code, size_ret |-> NONE, value |-> NONE]

\* Mutant: no return after the last property.
Lookup_falls_through(table, prop, size) ==
  IF prop \in DOMAIN table THEN Answer(table[prop], size) ELSE Refuse("undefined")

\* A table of values: what it does not hold is not supported.
Lookup(table, prop, size) ==
  \/ prop \in DOMAIN table /\ Answer(table[prop], size)
  \/ prop \notin DOMAIN table /\ Refuse("NOTSUPPORTED")

-----------------------------------------------------------------------------
(* The queries *)

DeviceValues ==
  [ID                  |-> Single("char", DEVICE_ID),
   NAME                |-> Single("char", "C++ Device with 5 qubits"),
   VERSION             |-> Single("char", DEVICE_VERSION),
   LIBRARYVERSION      |-> Single("char", QDMI_VERSION),
   STATUS              |-> Single("QDMI_Device_Status", status),
   QUBITSNUM           |-> Single("size_t", 5),
   SITES               |-> Value("CXX_QDMI_Site", SITES),
   OPERATIONS          |-> Value("CXX_QDMI_Operation", OPERATIONS),
   COUPLINGMAP         |-> Value("CXX_QDMI_Site", DEVICE_COUPLING_MAP),
   LENGTHUNIT          |-> Single("char", "um"),
   LENGTHSCALEFACTOR   |-> Single("double", 1000),
   DURATIONUNIT        |-> Single("char", "us"),
   DURATIONSCALEFACTOR |-> Single("double", 1),
   SUPPORTEDPROGRAMFORMATS |-> Value("QDMI_Program_Format", SUPPORTED_PROGRAM_FORMATS)]

session_query_device_property(prop, size) ==
  \/ ~session /\ Refuse("BADSTATE")
  \/ session /\ Lookup(DeviceValues, prop, size)

SiteValues(site) ==
  [INDEX       |-> Single("uint64_t", site),
   MODULEINDEX |-> Single("uint64_t", 0),
   T1          |-> Single("uint64_t", 1000000),
   T2          |-> Single("uint64_t", 100000000)]

\* The session is not looked at.
session_query_site_property(site, prop, size) == Lookup(SiteValues(site), prop, size)

\* What any operation answers, whatever its sites and parameters.
GeneralValues(operation) ==
  [NAME    |-> Single("char", operation),
   ISZONED |-> Single("bool", FALSE)]

\* What cx answers, whatever the two sites.
CxValues ==
  [PARAMETERSNUM |-> Single("size_t", 0),
   DURATION      |-> Single("uint64_t", Duration["cx"]),
   SITES         |-> Value("CXX_QDMI_Site", DEVICE_COUPLING_MAP)]

\* What cx answers only when no sites are given.
CxSitelessValues == [QUBITSNUM |-> Single("size_t", 2)]

query_cx(sites, prop, size) ==
  \/ /\ sites # NONE /\ Len(sites) # 2
     /\ Refuse("INVALIDARGUMENT")
  \/ /\ sites # NONE => Len(sites) = 2
     /\ \/ prop \in DOMAIN CxValues /\ Answer(CxValues[prop], size)
        \/ /\ prop \notin DOMAIN CxValues
           /\ \/ /\ sites = NONE
                 /\ Lookup(CxSitelessValues, prop, size)
              \/ /\ sites # NONE /\ sites \notin DOMAIN OPERATION_FIDELITIES
                 /\ Refuse("INVALIDARGUMENT")
              \/ /\ sites \in DOMAIN OPERATION_FIDELITIES
                 /\ Lookup([FIDELITY |-> Single("double", OPERATION_FIDELITIES[sites])],
                           prop, size)

\* The duration is not the one of the table.
RotationValues ==
  [DURATION      |-> Single("double", 10),
   QUBITSNUM     |-> Single("size_t", 1),
   PARAMETERSNUM |-> Single("size_t", 1),
   FIDELITY      |-> Single("double", 999),
   SITES         |-> Value("CXX_QDMI_Site", SITES)]

query_rotation(sites, params, prop, size) ==
  \/ /\ (sites # NONE /\ Len(sites) # 1) \/ (params # NONE /\ params # 1)
     /\ Refuse("INVALIDARGUMENT")
  \/ /\ sites # NONE => Len(sites) = 1
     /\ params # NONE => params = 1
     /\ Lookup(RotationValues, prop, size)

\* params is how many parameters are passed.
session_query_operation_property(operation, sites, params, prop, size) ==
  \/ /\ prop \in DOMAIN GeneralValues(operation)
     /\ Answer(GeneralValues(operation)[prop], size)
  \/ /\ prop \notin DOMAIN GeneralValues(operation)
     /\ \/ operation = "cx" /\ query_cx(sites, prop, size)
        \/ operation # "cx" /\ query_rotation(sites, params, prop, size)

-----------------------------------------------------------------------------
(* The client *)

Arguments ==
  [of: {"device"}, prop: DeviceProperty]
    \cup [of: {"site"}, site: ToSet(SITES), prop: SiteProperty]
    \cup [of: {"operation"}, operation: ToSet(OPERATIONS), sites: SiteLists \cup {NONE},
          params: {NONE, 1, 2}, prop: OperationProperty]

\* Every text the device answers with.
Texts ==
  {DEVICE_ID, "C++ Device with 5 qubits", DEVICE_VERSION, QDMI_VERSION, "um", "us"}
    \cup ToSet(OPERATIONS)

\* Clients pass sites of the device; a text has a length; NONE is no value.
ASSUME PropertiesAssumption ==
  /\ SiteLists \subseteq Seq(ToSet(SITES))
  /\ \A text \in Texts : Len(text) \in Nat
  /\ NONE \notin Nat \cup SiteLists \cup Arguments \cup DOMAIN OPERATION_FIDELITIES

Query(args, size) ==
  \/ args.of = "device" /\ session_query_device_property(args.prop, size)
  \/ args.of = "site" /\ session_query_site_property(args.site, args.prop, size)
  \/ /\ args.of = "operation"
     /\ session_query_operation_property(args.operation, args.sites, args.params,
                                         args.prop, size)

NoQuery == [args |-> NONE, size |-> NONE]

Init ==
  /\ session = FALSE
  /\ status = "IDLE"
  /\ asked = NoQuery
  /\ reply = [code |-> "SUCCESS", size_ret |-> NONE, value |-> NONE]
  /\ announced = NONE

\* A query without a buffer: is the property supported, and how large is it?
AskSize ==
  /\ asked = NoQuery
  /\ \E args \in Arguments :
       /\ Query(args, NONE)
       /\ asked' = [args |-> args, size |-> NONE]
  /\ announced' = reply'.size_ret
  /\ UNCHANGED <<session, status>>

\* The same query with a buffer of about the announced size; one of size zero
\* is refused before anything else.
Fetch ==
  /\ asked # NoQuery /\ asked.size = NONE
  /\ announced # NONE
  /\ \E size \in {announced - 1, announced, announced + 1} :
       /\ IF size = 0 THEN Refuse("INVALIDARGUMENT") ELSE Query(asked.args, size)
       /\ asked' = [asked EXCEPT !.size = size]
  /\ UNCHANGED <<session, status, announced>>

\* The reply is read.
Read ==
  /\ asked # NoQuery
  /\ asked' = NoQuery
  /\ announced' = NONE
  /\ UNCHANGED <<session, status, reply>>

\* Meanwhile the session is initialized and jobs come and go.
Elsewhere ==
  /\ \/ session' = TRUE /\ status' = status
     \/ status' \in {"IDLE", "BUSY"} /\ session' = session
  /\ UNCHANGED <<asked, reply, announced>>

Next == AskSize \/ Fetch \/ Read \/ Elsewhere

Spec == Init /\ [][Next]_vars

-----------------------------------------------------------------------------
(* Properties *)

\* The type invariant: replies are a code with a size and a value of a C type.
TypeOK ==
  /\ session \in BOOLEAN
  /\ status \in {"IDLE", "BUSY"}
  /\ asked = NoQuery \/ asked.args \in Arguments
  /\ reply.code \in {"SUCCESS", "INVALIDARGUMENT", "BADSTATE", "NOTSUPPORTED"}
  /\ reply.size_ret \in Nat \cup {NONE}
  /\ reply.value # NONE => Bytes(reply.value) \in Nat \ {0}

Asks(of, prop) == asked # NoQuery /\ asked.args.of = of /\ asked.args.prop = prop

\* The two calls of device.h:266-280 fit together: a fetch succeeds exactly
\* with a buffer of at least the announced size, and writes that many bytes; the
\* macros of lines 275-325 compute the size they announce and the bytes they
\* write apart.
FetchAsAnnounced ==
  asked # NoQuery /\ asked.size # NONE =>
    /\ reply.code = "SUCCESS" <=> asked.size >= announced
    /\ reply.code = "SUCCESS" => Bytes(reply.value) = announced

\* The tuples of sites an operation is applicable to, as a client cuts them out
\* of its SITES with its QUBITSNUM (constants.h:864-868).
Operands(operation) ==
  LET n == IF operation = "cx" THEN CxSitelessValues.QUBITSNUM.items[1]
                               ELSE RotationValues.QUBITSNUM.items[1]
      sites == IF operation = "cx" THEN CxValues.SITES.items ELSE RotationValues.SITES.items
  IN  {SubSeq(sites, (i - 1) * n + 1, i * n) : i \in 1..Len(sites) \div n}

\* The three tables agree: exactly the operands an operation announces have a
\* fidelity; without sites only an operation of one qubit has one
\* (device.h:385-388).
FidelityOfOperands ==
  Asks("operation", "FIDELITY") /\ asked.size = NONE /\ asked.args.params # 2 =>
    (reply.code = "SUCCESS" <=>
       \/ asked.args.sites \in Operands(asked.args.operation)
       \/ asked.args.sites = NONE /\ asked.args.operation # "cx")
=============================================================================
