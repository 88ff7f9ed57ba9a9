-------------------------- MODULE QDMIPropertiesProofs --------------------------
(***************************************************************************)
(* What the example device tells of itself fits the sizes it announced,     *)
(* and its tables agree: proofs of the invariants of QDMIProperties, for    *)
(* any lists of sites a client passes and any strings set when building.   *)
(***************************************************************************)
EXTENDS QDMIProperties, SequenceTheorems, TLAPS

-----------------------------------------------------------------------------
(* The size of a value *)

\* A list of items that are not characters has the size of its items.
LEMMA ListBytes ==
  ASSUME NEW type, type # "char", NEW items, Len(items) \in Nat \ {0}
  PROVE  /\ Bytes(Value(type, items)) = sizeof(type) * Len(items)
         /\ Bytes(Value(type, items)) \in Nat \ {0}
PROOF
<1>1. Value(type, items).type = type /\ Value(type, items).items = items
  BY DEF Value
<1>2. Bytes(Value(type, items)) = sizeof(type) * Len(items)
  BY <1>1 DEF Bytes
<1>3. sizeof(type) \in {1, 4, 8}
  BY DEF sizeof
<1>4. \A n \in Nat \ {0} : {1 * n, 4 * n, 8 * n} \subseteq Nat \ {0}
  OBVIOUS
<1>5. sizeof(type) * Len(items) \in {1 * Len(items), 4 * Len(items), 8 * Len(items)}
  BY <1>3
<1> QED BY <1>2, <1>4, <1>5

\* A single value has the size of its type.
LEMMA SingleBytes ==
  ASSUME NEW type, type # "char", NEW item
  PROVE  /\ Bytes(Single(type, item)) = sizeof(type)
         /\ Bytes(Single(type, item)) \in Nat \ {0}
PROOF
<1>1. Len(<<item>>) = 1
  OBVIOUS
<1>2. /\ Bytes(Single(type, item)) = sizeof(type) * 1
      /\ Bytes(Single(type, item)) \in Nat \ {0}
  <2>1. Len(<<item>>) \in Nat \ {0}
    BY <1>1
  <2> QED BY <1>1, <2>1, ListBytes DEF Single
<1>3. sizeof(type) \in {1, 4, 8}
  BY DEF sizeof
<1> QED BY <1>2, <1>3

\* A text has one byte for each character and one that ends it.
LEMMA TextBytes ==
  ASSUME NEW text \in Texts
  PROVE  Bytes(Single("char", text)) \in Nat \ {0}
PROOF
<1>1. Single("char", text).type = "char" /\ Single("char", text).items[1] = text
  BY DEF Single, Value
<1>2. Bytes(Single("char", text)) = Len(text) + 1
  BY <1>1 DEF Bytes
<1> QED BY <1>2, PropertiesAssumption DEF PropertiesAssumption

\* Every value of the table has a size, and is not empty.
Sized(table) == \A prop \in DOMAIN table : Bytes(table[prop]) \in Nat \ {0}

-----------------------------------------------------------------------------
(* The tables *)

\* The lists among the tables are not empty.
LEMMA Lengths ==
  /\ Len(SITES) \in Nat \ {0}
  /\ Len(OPERATIONS) \in Nat \ {0}
  /\ Len(DEVICE_COUPLING_MAP) \in Nat \ {0}
  /\ Len(SUPPORTED_PROGRAM_FORMATS) \in Nat \ {0}
PROOF
<1>1. Len(SITES) = 5
  BY DEF SITES
<1>2. Len(OPERATIONS) = 4
  BY DEF OPERATIONS
<1>3. Len(DEVICE_COUPLING_MAP) = 20
  BY DEF DEVICE_COUPLING_MAP
<1>4. Len(SUPPORTED_PROGRAM_FORMATS) = 3
  BY DEF SUPPORTED_PROGRAM_FORMATS
<1> QED BY <1>1, <1>2, <1>3, <1>4

\* The device's texts are among Texts, and its lists have items.
LEMMA DeviceSized == Sized(DeviceValues)
PROOF
<1> SUFFICES ASSUME NEW prop \in DOMAIN DeviceValues
             PROVE  Bytes(DeviceValues[prop]) \in Nat \ {0}
  BY DEF Sized
<1>1. CASE prop \in {"ID", "NAME", "VERSION", "LIBRARYVERSION", "LENGTHUNIT", "DURATIONUNIT"}
  <2>1. /\ DeviceValues["ID"] = Single("char", DEVICE_ID)
        /\ DeviceValues["NAME"] = Single("char", "C++ Device with 5 qubits")
        /\ DeviceValues["VERSION"] = Single("char", DEVICE_VERSION)
        /\ DeviceValues["LIBRARYVERSION"] = Single("char", QDMI_VERSION)
        /\ DeviceValues["LENGTHUNIT"] = Single("char", "um")
        /\ DeviceValues["DURATIONUNIT"] = Single("char", "us")
    BY DEF DeviceValues
  <2>2. {DEVICE_ID, "C++ Device with 5 qubits", DEVICE_VERSION, QDMI_VERSION, "um", "us"} \subseteq Texts
    BY DEF Texts
  <2> QED BY <1>1, <2>1, <2>2, TextBytes
<1>2. CASE prop \in {"STATUS", "QUBITSNUM", "LENGTHSCALEFACTOR", "DURATIONSCALEFACTOR"}
  <2>1. /\ DeviceValues["STATUS"] = Single("QDMI_Device_Status", status)
        /\ DeviceValues["QUBITSNUM"] = Single("size_t", 5)
        /\ DeviceValues["LENGTHSCALEFACTOR"] = Single("double", 1000)
        /\ DeviceValues["DURATIONSCALEFACTOR"] = Single("double", 1)
    BY DEF DeviceValues
  <2> QED BY <1>2, <2>1, SingleBytes
<1>3. CASE prop = "SITES"
  <2>1. DeviceValues[prop] = Value("CXX_QDMI_Site", SITES)
    BY <1>3 DEF DeviceValues
  <2> QED BY <2>1, Lengths, ListBytes
<1>4. CASE prop = "OPERATIONS"
  <2>1. DeviceValues[prop] = Value("CXX_QDMI_Operation", OPERATIONS)
    BY <1>4 DEF DeviceValues
  <2> QED BY <2>1, Lengths, ListBytes
<1>5. CASE prop = "COUPLINGMAP"
  <2>1. DeviceValues[prop] = Value("CXX_QDMI_Site", DEVICE_COUPLING_MAP)
    BY <1>5 DEF DeviceValues
  <2> QED BY <2>1, Lengths, ListBytes
<1>6. CASE prop = "SUPPORTEDPROGRAMFORMATS"
  <2>1. DeviceValues[prop] = Value("QDMI_Program_Format", SUPPORTED_PROGRAM_FORMATS)
    BY <1>6 DEF DeviceValues
  <2> QED BY <2>1, Lengths, ListBytes
<1>7. DOMAIN DeviceValues =
        {"ID", "NAME", "VERSION", "LIBRARYVERSION", "LENGTHUNIT", "DURATIONUNIT"}
          \cup {"STATUS", "QUBITSNUM", "LENGTHSCALEFACTOR", "DURATIONSCALEFACTOR"}
          \cup {"SITES", "OPERATIONS", "COUPLINGMAP", "SUPPORTEDPROGRAMFORMATS"}
  BY DEF DeviceValues
<1> QED BY <1>1, <1>2, <1>3, <1>4, <1>5, <1>6, <1>7

\* A site answers with numbers.
LEMMA SiteSized == ASSUME NEW site PROVE Sized(SiteValues(site))
PROOF
<1>1. \A prop \in DOMAIN SiteValues(site) : \E item : SiteValues(site)[prop] = Single("uint64_t", item)
  BY DEF SiteValues
<1> QED BY <1>1, SingleBytes DEF Sized

\* An operation has a name, among Texts, and a flag.
LEMMA GeneralSized == ASSUME NEW operation \in ToSet(OPERATIONS) PROVE Sized(GeneralValues(operation))
PROOF
<1>1. GeneralValues(operation)["NAME"] = Single("char", operation) /\ operation \in Texts
  BY DEF GeneralValues, Texts
<1>2. GeneralValues(operation)["ISZONED"] = Single("bool", FALSE)
  BY DEF GeneralValues
<1>3. DOMAIN GeneralValues(operation) = {"NAME", "ISZONED"}
  BY DEF GeneralValues
<1>4. Bytes(GeneralValues(operation)["ISZONED"]) \in Nat \ {0}
  BY <1>2, SingleBytes
<1> QED BY <1>1, <1>3, <1>4, TextBytes DEF Sized

\* The tables of cx hold numbers and the coupled sites.
LEMMA CxSized ==
  /\ Sized(CxValues)
  /\ Sized(CxSitelessValues)
  /\ \A item : Sized([FIDELITY |-> Single("double", item)])
PROOF
<1>1. CxValues["SITES"] = Value("CXX_QDMI_Site", DEVICE_COUPLING_MAP)
  BY DEF CxValues
<1>3. Bytes(CxValues["SITES"]) \in Nat \ {0}
  BY <1>1, Lengths, ListBytes
<1>4. \A prop \in {"PARAMETERSNUM", "DURATION"} :
        \E type, item : type # "char" /\ CxValues[prop] = Single(type, item)
  BY DEF CxValues
<1>5. DOMAIN CxValues = {"SITES", "PARAMETERSNUM", "DURATION"}
  BY DEF CxValues
<1>6. Sized(CxValues)
  BY <1>3, <1>4, <1>5, SingleBytes DEF Sized
<1>7. CxSitelessValues["QUBITSNUM"] = Single("size_t", 2) /\ DOMAIN CxSitelessValues = {"QUBITSNUM"}
  BY DEF CxSitelessValues
<1>8. Sized(CxSitelessValues)
  BY <1>7, SingleBytes DEF Sized
<1>9. ASSUME NEW item PROVE Sized([FIDELITY |-> Single("double", item)])
  BY SingleBytes DEF Sized
<1> QED BY <1>6, <1>8, <1>9

\* The table of a rotation holds numbers and the sites.
LEMMA RotationSized == Sized(RotationValues)
PROOF
<1>1. RotationValues["SITES"] = Value("CXX_QDMI_Site", SITES)
  BY DEF RotationValues
<1>3. Bytes(RotationValues["SITES"]) \in Nat \ {0}
  BY <1>1, Lengths, ListBytes
<1>4. \A prop \in {"PARAMETERSNUM", "QUBITSNUM", "DURATION", "FIDELITY"} :
        \E type, item : type # "char" /\ RotationValues[prop] = Single(type, item)
  BY DEF RotationValues
<1>5. DOMAIN RotationValues = {"SITES", "PARAMETERSNUM", "QUBITSNUM", "DURATION", "FIDELITY"}
  BY DEF RotationValues
<1> QED BY <1>3, <1>4, <1>5, SingleBytes DEF Sized

-----------------------------------------------------------------------------
(* What a query answers *)

\* The value a table holds, if any.
In(table, prop) == {table[prop] : p \in {prop} \cap DOMAIN table}

CxHeld(sites, prop) ==
  IF sites # NONE /\ Len(sites) # 2 THEN {}
  ELSE In(CxValues, prop)
         \cup (IF sites = NONE THEN In(CxSitelessValues, prop) ELSE {})
         \cup (IF sites \in DOMAIN OPERATION_FIDELITIES
               THEN In([FIDELITY |-> Single("double", OPERATION_FIDELITIES[sites])], prop) ELSE {})

RotationHeld(sites, params, prop) ==
  IF (sites # NONE /\ Len(sites) # 1) \/ (params # NONE /\ params # 1) THEN {}
  ELSE In(RotationValues, prop)

OperationHeld(operation, sites, params, prop) ==
  In(GeneralValues(operation), prop)
    \cup (IF operation = "cx" THEN CxHeld(sites, prop) ELSE RotationHeld(sites, params, prop))

DeviceHeld(prop) == IF session THEN In(DeviceValues, prop) ELSE {}

\* The value a query is answered with, if it is: at most one.
Held(args) ==
  IF args.of = "device" THEN DeviceHeld(args.prop)
  ELSE IF args.of = "site" THEN In(SiteValues(args.site), args.prop)
  ELSE OperationHeld(args.operation, args.sites, args.params, args.prop)

Codes == {"INVALIDARGUMENT", "BADSTATE", "NOTSUPPORTED"}

\* A query of an argument that one of the values is held for is answered with
\* it, any other is refused.
Answers(values, size) ==
  \/ \E value \in values : Answer(value, size)
  \/ values = {} /\ \E code \in Codes : Refuse(code)

\* A table answers with what it holds.
LEMMA LookupAnswers ==
  ASSUME NEW table, NEW prop, NEW size, Lookup(table, prop, size)
  PROVE  Answers(In(table, prop), size)
PROOF
<1>1. CASE prop \in DOMAIN table /\ Answer(table[prop], size)
  <2>1. table[prop] \in In(table, prop)
    BY <1>1 DEF In
  <2> QED BY <1>1, <2>1 DEF Answers
<1>2. CASE prop \notin DOMAIN table /\ Refuse("NOTSUPPORTED")
  <2>1. In(table, prop) = {}
    BY <1>2 DEF In
  <2> QED BY <1>2, <2>1 DEF Answers, Codes
<1> QED BY <1>1, <1>2 DEF Lookup

\* The properties the tables of one operation hold are different ones.
LEMMA TablesDisjoint ==
  /\ \A operation : DOMAIN GeneralValues(operation) = {"NAME", "ISZONED"}
  /\ DOMAIN CxValues = {"PARAMETERSNUM", "DURATION", "SITES"}
  /\ DOMAIN CxSitelessValues = {"QUBITSNUM"}
  /\ \A value : DOMAIN [FIDELITY |-> value] = {"FIDELITY"}
  /\ DOMAIN RotationValues = {"DURATION", "QUBITSNUM", "PARAMETERSNUM", "FIDELITY", "SITES"}
BY DEF GeneralValues, CxValues, CxSitelessValues, RotationValues

\* A table holds nothing for a property it does not have, and one value for the
\* others.
LEMMA InTable ==
  ASSUME NEW table, NEW prop
  PROVE  /\ prop \in DOMAIN table => In(table, prop) = {table[prop]}
         /\ prop \notin DOMAIN table => In(table, prop) = {}
BY DEF In

\* query_cx answers with what the tables of cx hold.
LEMMA CxAnswers ==
  ASSUME NEW sites \in SiteLists \cup {NONE}, NEW prop, NEW size, query_cx(sites, prop, size)
  PROVE  Answers(CxHeld(sites, prop), size)
PROOF
<1>1. CASE sites # NONE /\ Len(sites) # 2 /\ Refuse("INVALIDARGUMENT")
  <2>1. CxHeld(sites, prop) = {}
    BY <1>1 DEF CxHeld
  <2> QED BY <1>1, <2>1 DEF Answers, Codes
<1>2. CASE /\ sites # NONE => Len(sites) = 2
           /\ prop \in DOMAIN CxValues /\ Answer(CxValues[prop], size)
  <2>1. CxValues[prop] \in CxHeld(sites, prop)
    BY <1>2, InTable DEF CxHeld
  <2> QED BY <1>2, <2>1 DEF Answers
<1>3. CASE prop \notin DOMAIN CxValues /\ sites = NONE /\ Lookup(CxSitelessValues, prop, size)
  <2>1. CxHeld(sites, prop) = In(CxSitelessValues, prop)
    BY <1>3, InTable, PropertiesAssumption DEF CxHeld, PropertiesAssumption
  <2> QED BY <1>3, <2>1, LookupAnswers
<1>4. CASE /\ prop \notin DOMAIN CxValues /\ sites # NONE
           /\ sites \notin DOMAIN OPERATION_FIDELITIES /\ Refuse("INVALIDARGUMENT")
  <2>1. CxHeld(sites, prop) = {}
    BY <1>4, InTable DEF CxHeld
  <2> QED BY <1>4, <2>1 DEF Answers, Codes
<1>5. CASE /\ sites # NONE => Len(sites) = 2
           /\ prop \notin DOMAIN CxValues /\ sites \in DOMAIN OPERATION_FIDELITIES
           /\ Lookup([FIDELITY |-> Single("double", OPERATION_FIDELITIES[sites])], prop, size)
  <2>1. sites # NONE
    BY <1>5, PropertiesAssumption DEF PropertiesAssumption
  <2>2. CxHeld(sites, prop) = In([FIDELITY |-> Single("double", OPERATION_FIDELITIES[sites])], prop)
    BY <1>5, <2>1, InTable DEF CxHeld
  <2> QED BY <1>5, <2>2, LookupAnswers
<1> QED BY <1>1, <1>2, <1>3, <1>4, <1>5 DEF query_cx

\* query_rotation answers with what the table of the rotations holds.
LEMMA RotationAnswers ==
  ASSUME NEW sites, NEW params, NEW prop, NEW size, query_rotation(sites, params, prop, size)
  PROVE  Answers(RotationHeld(sites, params, prop), size)
PROOF
<1>1. CASE /\ (sites # NONE /\ Len(sites) # 1) \/ (params # NONE /\ params # 1)
           /\ Refuse("INVALIDARGUMENT")
  <2>1. RotationHeld(sites, params, prop) = {}
    BY <1>1 DEF RotationHeld
  <2> QED BY <1>1, <2>1 DEF Answers, Codes
<1>2. CASE /\ ~((sites # NONE /\ Len(sites) # 1) \/ (params # NONE /\ params # 1))
           /\ Lookup(RotationValues, prop, size)
  <2>1. RotationHeld(sites, params, prop) = In(RotationValues, prop)
    BY <1>2 DEF RotationHeld
  <2> QED BY <1>2, <2>1, LookupAnswers
<1> QED BY <1>1, <1>2 DEF query_rotation

\* A query is answered with the value held for it, or refused if there is none.
LEMMA QueryAnswers ==
  ASSUME NEW args \in Arguments, NEW size, Query(args, size)
  PROVE  Answers(Held(args), size)
PROOF
<1>1. CASE args.of = "device" /\ session_query_device_property(args.prop, size)
  <2>1. CASE ~session /\ Refuse("BADSTATE")
    <3>1. Held(args) = {}
      BY <1>1, <2>1 DEF Held, DeviceHeld
    <3> QED BY <2>1, <3>1 DEF Answers, Codes
  <2>2. CASE session /\ Lookup(DeviceValues, args.prop, size)
    <3>1. Held(args) = In(DeviceValues, args.prop)
      BY <1>1, <2>2 DEF Held, DeviceHeld
    <3> QED BY <2>2, <3>1, LookupAnswers
  <2> QED BY <1>1, <2>1, <2>2 DEF session_query_device_property
<1>2. CASE args.of = "site" /\ session_query_site_property(args.site, args.prop, size)
  <2>1. Held(args) = In(SiteValues(args.site), args.prop)
    BY <1>2 DEF Held
  <2> QED BY <1>2, <2>1, LookupAnswers DEF session_query_site_property
<1>3. CASE /\ args.of = "operation"
           /\ session_query_operation_property(args.operation, args.sites, args.params,
                                               args.prop, size)
  <2> DEFINE general == GeneralValues(args.operation)
  <2>1. Held(args) = OperationHeld(args.operation, args.sites, args.params, args.prop)
    BY <1>3 DEF Held
  <2>2. args.sites \in SiteLists \cup {NONE}
    BY <1>3 DEF Arguments
  <2>3. CASE args.prop \in DOMAIN general /\ Answer(general[args.prop], size)
    <3>1. general[args.prop] \in Held(args)
      BY <2>1, <2>3, InTable DEF OperationHeld
    <3> QED BY <2>3, <3>1 DEF Answers
  <2>4. CASE args.prop \notin DOMAIN general /\ args.operation = "cx"
              /\ query_cx(args.sites, args.prop, size)
    <3>1. Held(args) = CxHeld(args.sites, args.prop)
      BY <2>1, <2>4, InTable DEF OperationHeld
    <3> QED BY <2>2, <2>4, <3>1, CxAnswers
  <2>5. CASE args.prop \notin DOMAIN general /\ args.operation # "cx"
              /\ query_rotation(args.sites, args.params, args.prop, size)
    <3>1. Held(args) = RotationHeld(args.sites, args.params, args.prop)
      BY <2>1, <2>5, InTable DEF OperationHeld
    <3> QED BY <2>5, <3>1, RotationAnswers
  <2> QED BY <1>3, <2>3, <2>4, <2>5 DEF session_query_operation_property
<1> QED BY <1>1, <1>2, <1>3 DEF Query

\* What a table holds has a size.
LEMMA InSized ==
  ASSUME NEW table, NEW prop, Sized(table), NEW value \in In(table, prop)
  PROVE  Bytes(value) \in Nat \ {0}
BY DEF In, Sized

\* Every value the device answers with has a size, and is not empty.
LEMMA HeldSized ==
  ASSUME NEW args \in Arguments, NEW value \in Held(args)
  PROVE  Bytes(value) \in Nat \ {0}
PROOF
<1>1. CASE args.of = "device"
  <2>1. value \in In(DeviceValues, args.prop)
    BY <1>1 DEF Held, DeviceHeld
  <2> QED BY <2>1, DeviceSized, InSized
<1>2. CASE args.of = "site"
  <2>1. value \in In(SiteValues(args.site), args.prop)
    BY <1>2 DEF Held
  <2> QED BY <2>1, SiteSized, InSized
<1>3. CASE args.of = "operation"
  <2>1. value \in OperationHeld(args.operation, args.sites, args.params, args.prop)
    BY <1>3 DEF Held
  <2>2. args.operation \in ToSet(OPERATIONS)
    BY <1>3 DEF Arguments
  <2>3. CASE value \in In(GeneralValues(args.operation), args.prop)
    BY <2>2, <2>3, GeneralSized, InSized
  <2>4. CASE value \in CxHeld(args.sites, args.prop)
    <3>1. CASE value \in In(CxValues, args.prop)
      BY <3>1, CxSized, InSized
    <3>2. CASE value \in In(CxSitelessValues, args.prop)
      BY <3>2, CxSized, InSized
    <3>3. CASE value \in In([FIDELITY |-> Single("double", OPERATION_FIDELITIES[args.sites])], args.prop)
      BY <3>3, CxSized, InSized
    <3> QED BY <2>4, <3>1, <3>2, <3>3 DEF CxHeld
  <2>5. CASE value \in RotationHeld(args.sites, args.params, args.prop)
    <3>1. value \in In(RotationValues, args.prop)
      BY <2>5 DEF RotationHeld
    <3> QED BY <3>1, RotationSized, InSized
  <2> QED BY <2>1, <2>3, <2>4, <2>5 DEF OperationHeld
<1> QED BY <1>1, <1>2, <1>3 DEF Arguments

\* There is one value at most.
LEMMA HeldOnce ==
  ASSUME NEW args \in Arguments, NEW v \in Held(args), NEW w \in Held(args)
  PROVE  v = w
PROOF
<1>1. \A table : \A x, y \in In(table, args.prop) : x = y
  BY DEF In
<1>2. CASE args.of = "device"
  BY <1>1, <1>2 DEF Held, DeviceHeld
<1>3. CASE args.of = "site"
  BY <1>1, <1>3 DEF Held
<1>4. CASE args.of = "operation"
  <2> DEFINE fidelity == [FIDELITY |-> Single("double", OPERATION_FIDELITIES[args.sites])]
             P == args.prop
  <2>1. Held(args) = OperationHeld(args.operation, args.sites, args.params, P)
    BY <1>4 DEF Held
  <2>2. CASE P \in DOMAIN GeneralValues(args.operation)
    <3>1. P \notin DOMAIN CxValues /\ P \notin DOMAIN CxSitelessValues /\ P \notin DOMAIN RotationValues
          /\ P \notin DOMAIN fidelity
      BY <2>2, TablesDisjoint
    <3>2. CxHeld(args.sites, P) = {} /\ RotationHeld(args.sites, args.params, P) = {}
      BY <3>1, InTable DEF CxHeld, RotationHeld
    <3>3. Held(args) = In(GeneralValues(args.operation), P)
      BY <2>1, <3>2 DEF OperationHeld
    <3> QED BY <1>1, <3>3
  <2>3. CASE P \notin DOMAIN GeneralValues(args.operation)
    <3>1. In(GeneralValues(args.operation), P) = {}
      BY <2>3, InTable
    <3>2. \A x, y \in RotationHeld(args.sites, args.params, P) : x = y
      BY <1>1 DEF RotationHeld
    <3>3. \A x, y \in CxHeld(args.sites, P) : x = y
      <4>1. \/ In(CxValues, P) = {}
            \/ In(CxSitelessValues, P) = {} /\ In(fidelity, P) = {}
        BY TablesDisjoint, InTable
      <4>2. In(CxSitelessValues, P) = {} \/ In(fidelity, P) = {}
        BY TablesDisjoint, InTable
      <4>3. CxHeld(args.sites, P) \subseteq In(CxValues, P) \cup In(CxSitelessValues, P) \cup In(fidelity, P)
        BY DEF CxHeld
      <4> QED BY <1>1, <4>1, <4>2, <4>3
    <3> QED BY <2>1, <3>1, <3>2, <3>3 DEF OperationHeld
  <2> QED BY <2>2, <2>3
<1> QED BY <1>2, <1>3, <1>4 DEF Arguments

\* Initializing the session and running jobs change no size: the status of the
\* device is the only value that changes.
LEMMA SizesLast ==
  ASSUME NEW args \in Arguments, session => session',
         NEW v \in Held(args), NEW w \in Held(args)'
  PROVE  Bytes(w) = Bytes(v)
PROOF
<1>1. CASE args.of # "device"
  <2>1. Held(args)' = Held(args)
    BY <1>1 DEF Held
  <2> QED BY <2>1, HeldOnce
<1>2. CASE args.of = "device"
  <2>1. v = DeviceValues[args.prop] /\ args.prop \in DOMAIN DeviceValues
    BY <1>2 DEF Held, DeviceHeld, In
  <2>2. w = DeviceValues'[args.prop]
    BY <1>2 DEF Held, DeviceHeld, In
  <2>3. CASE args.prop = "STATUS"
    <3>1. v = Single("QDMI_Device_Status", status) /\ w = Single("QDMI_Device_Status", status')
      BY <2>1, <2>2, <2>3 DEF DeviceValues
    <3> QED BY <3>1, SingleBytes
  <2>4. CASE args.prop # "STATUS"
    <3>1. DOMAIN DeviceValues =
            {"ID", "NAME", "VERSION", "LIBRARYVERSION", "LENGTHUNIT", "DURATIONUNIT", "STATUS",
             "QUBITSNUM", "LENGTHSCALEFACTOR", "DURATIONSCALEFACTOR", "SITES", "OPERATIONS",
             "COUPLINGMAP", "SUPPORTEDPROGRAMFORMATS"}
      BY DEF DeviceValues
    <3>2. /\ DeviceValues["ID"]' = DeviceValues["ID"]
          /\ DeviceValues["NAME"]' = DeviceValues["NAME"]
          /\ DeviceValues["VERSION"]' = DeviceValues["VERSION"]
          /\ DeviceValues["LIBRARYVERSION"]' = DeviceValues["LIBRARYVERSION"]
          /\ DeviceValues["LENGTHUNIT"]' = DeviceValues["LENGTHUNIT"]
          /\ DeviceValues["DURATIONUNIT"]' = DeviceValues["DURATIONUNIT"]
      BY DEF DeviceValues
    <3>3. /\ DeviceValues["QUBITSNUM"]' = DeviceValues["QUBITSNUM"]
          /\ DeviceValues["LENGTHSCALEFACTOR"]' = DeviceValues["LENGTHSCALEFACTOR"]
          /\ DeviceValues["DURATIONSCALEFACTOR"]' = DeviceValues["DURATIONSCALEFACTOR"]
      BY DEF DeviceValues
    <3>4. /\ DeviceValues["SITES"]' = DeviceValues["SITES"]
          /\ DeviceValues["OPERATIONS"]' = DeviceValues["OPERATIONS"]
          /\ DeviceValues["COUPLINGMAP"]' = DeviceValues["COUPLINGMAP"]
          /\ DeviceValues["SUPPORTEDPROGRAMFORMATS"]' = DeviceValues["SUPPORTEDPROGRAMFORMATS"]
      BY DEF DeviceValues
    <3> QED BY <2>1, <2>2, <2>4, <3>1, <3>2, <3>3, <3>4
  <2> QED BY <2>3, <2>4
<1> QED BY <1>1, <1>2

\* A value that is held stays held.
LEMMA HeldLasts ==
  ASSUME NEW args \in Arguments, session => session', Held(args) # {}
  PROVE  Held(args)' # {}
PROOF
<1>1. CASE args.of # "device"
  BY <1>1 DEF Held
<1>2. CASE args.of = "device"
  <2>1. session /\ args.prop \in DOMAIN DeviceValues
    BY <1>2 DEF Held, DeviceHeld, In
  <2>2. DOMAIN DeviceValues' = DOMAIN DeviceValues
    BY DEF DeviceValues
  <2> QED BY <1>2, <2>1, <2>2 DEF Held, DeviceHeld, In
<1> QED BY <1>1, <1>2

\* What is held depends on the session and the status only.
LEMMA HeldSame ==
  ASSUME NEW args, UNCHANGED <<session, status>>
  PROVE  Held(args)' = Held(args)
PROOF
<1>1. DeviceHeld(args.prop)' = DeviceHeld(args.prop)
  BY DEF DeviceHeld, DeviceValues, In
<1> QED BY <1>1 DEF Held

-----------------------------------------------------------------------------
(* The invariant *)

\* What a reply is, by the answer it comes from.
LEMMA RepliesOfQueries ==
  ASSUME NEW args \in Arguments, NEW size \in Nat \cup {NONE}, Query(args, size)
  PROVE  /\ reply'.code \in {"SUCCESS", "INVALIDARGUMENT", "BADSTATE", "NOTSUPPORTED"}
         /\ reply'.size_ret \in Nat \cup {NONE}
         /\ reply'.value # NONE => Bytes(reply'.value) \in Nat \ {0}
         /\ reply'.code # "SUCCESS" => reply'.size_ret = NONE
         /\ reply'.code = "SUCCESS" <=>
              (\E value \in Held(args) : size # NONE => size >= Bytes(value))
         /\ reply'.code = "SUCCESS" => \E value \in Held(args) :
              /\ reply'.size_ret = Bytes(value)
              /\ reply'.value = IF size = NONE THEN NONE ELSE value
PROOF
<1>1. Answers(Held(args), size)
  BY QueryAnswers
<1>2. CASE Held(args) = {} /\ \E code \in Codes : Refuse(code)
  BY <1>2 DEF Refuse, Codes
<1>3. ASSUME NEW value \in Held(args), Answer(value, size)
      PROVE  /\ reply'.code \in {"SUCCESS", "INVALIDARGUMENT", "BADSTATE", "NOTSUPPORTED"}
             /\ reply'.size_ret \in Nat \cup {NONE}
             /\ reply'.value # NONE => Bytes(reply'.value) \in Nat \ {0}
             /\ reply'.code # "SUCCESS" => reply'.size_ret = NONE
             /\ reply'.code = "SUCCESS" <=> (size # NONE => size >= Bytes(value))
             /\ reply'.code = "SUCCESS" => /\ reply'.size_ret = Bytes(value)
                                          /\ reply'.value = IF size = NONE THEN NONE ELSE value
  <2>1. Bytes(value) \in Nat \ {0}
    BY HeldSized
  <2>2. CASE /\ size # NONE /\ size < Bytes(value)
             /\ reply' = [code |-> "INVALIDARGUMENT", size_ret |-> NONE, value |-> NONE]
    BY <2>1, <2>2
  <2>3. CASE /\ size # NONE => size >= Bytes(value)
             /\ reply' = [code |-> "SUCCESS", size_ret |-> Bytes(value),
                          value |-> IF size = NONE THEN NONE ELSE value]
    BY <2>1, <2>3
  <2> QED BY <1>3, <2>2, <2>3 DEF Answer
<1>4. CASE \E value \in Held(args) : Answer(value, size)
  <2>1. PICK value \in Held(args) : Answer(value, size)
    BY <1>4
  <2>2. \A w \in Held(args) : w = value
    BY HeldOnce
  <2> QED BY <1>3, <2>1, <2>2
<1> QED BY <1>1, <1>2, <1>4 DEF Answers

\* What is asked is well-formed; an announced size is the size of the value that
\* is held for what was asked, now as when it was announced.
AskedWell ==
  /\ asked \in [args : Arguments \cup {NONE}, size : Nat \cup {NONE}]
  /\ asked.size # NONE => announced # NONE
  /\ announced \in Nat \cup {NONE}
  /\ announced # NONE =>
       /\ announced # 0
       /\ asked.args \in Arguments
       /\ Held(asked.args) # {}
       /\ \A value \in Held(asked.args) : Bytes(value) = announced

PropInv == TypeOK /\ AskedWell /\ FetchAsAnnounced

LEMMA InitEstablishesInv == Init => PropInv
PROOF
<1> SUFFICES ASSUME Init PROVE PropInv
  OBVIOUS
<1> QED BY DEF Init, PropInv, TypeOK, AskedWell, FetchAsAnnounced, NoQuery

LEMMA AskSizeKeepsInv == PropInv /\ AskSize => PropInv'
PROOF
<1> SUFFICES ASSUME PropInv, AskSize PROVE PropInv'
  OBVIOUS
<1>1. PICK args \in Arguments : Query(args, NONE) /\ asked' = [args |-> args, size |-> NONE]
  BY DEF AskSize
<1>2. announced' = reply'.size_ret /\ UNCHANGED <<session, status>>
  BY DEF AskSize
<1>3. NONE \in Nat \cup {NONE}
  OBVIOUS
<1>4. /\ reply'.code \in {"SUCCESS", "INVALIDARGUMENT", "BADSTATE", "NOTSUPPORTED"}
      /\ reply'.size_ret \in Nat \cup {NONE}
      /\ reply'.value # NONE => Bytes(reply'.value) \in Nat \ {0}
      /\ reply'.code # "SUCCESS" => reply'.size_ret = NONE
      /\ reply'.code = "SUCCESS" => \E value \in Held(args) : reply'.size_ret = Bytes(value)
  BY <1>1, <1>3, RepliesOfQueries
<1>5. asked'.args = args /\ asked'.size = NONE
  BY <1>1
<1>6. TypeOK'
  BY <1>2, <1>4, <1>5 DEF PropInv, TypeOK, Bytes, sizeof
<1>7. AskedWell'
  <2>1. asked' \in [args : Arguments \cup {NONE}, size : Nat \cup {NONE}]
    BY <1>1
  <2>2. Held(args)' = Held(args)
    BY <1>2, HeldSame
  <2>3. ASSUME announced' # NONE
        PROVE  /\ announced' # 0 /\ Held(args) # {}
               /\ \A value \in Held(args) : Bytes(value) = announced'
    <3>1. PICK value \in Held(args) : announced' = Bytes(value)
      BY <1>2, <1>4, <2>3
    <3>2. \A w \in Held(args) : w = value
      BY HeldOnce
    <3>3. Bytes(value) \in Nat \ {0}
      BY HeldSized
    <3> QED BY <3>1, <3>2, <3>3
  <2>4. asked.args' \in Arguments /\ Held(asked.args)' = Held(args)'
    BY <1>5
  <2> QED BY <1>2, <1>4, <1>5, <2>1, <2>2, <2>3, <2>4 DEF AskedWell, Bytes, sizeof
<1>8. FetchAsAnnounced'
  BY <1>5 DEF FetchAsAnnounced
<1> QED BY <1>6, <1>7, <1>8 DEF PropInv

LEMMA FetchKeepsInv == PropInv /\ Fetch => PropInv'
PROOF
<1> SUFFICES ASSUME PropInv, Fetch PROVE PropInv'
  OBVIOUS
<1> DEFINE args == asked.args
<1>1. PICK size \in {announced - 1, announced, announced + 1} :
        /\ IF size = 0 THEN Refuse("INVALIDARGUMENT") ELSE Query(args, size)
        /\ asked' = [asked EXCEPT !.size = size]
  BY DEF Fetch
<1>2. announced' = announced /\ UNCHANGED <<session, status>>
  BY DEF Fetch
<1>3. /\ announced \in Nat \ {0} /\ args \in Arguments /\ Held(args) # {}
      /\ \A value \in Held(args) : Bytes(value) = announced
  BY DEF Fetch, PropInv, AskedWell
<1>4. size \in Nat /\ size # NONE
  <2>1. size \in Nat
    BY <1>3
  <2> QED BY <2>1, PropertiesAssumption DEF PropertiesAssumption
<1>5. asked'.args = args /\ asked'.size = size
      /\ asked' \in [args : Arguments \cup {NONE}, size : Nat \cup {NONE}]
  BY <1>1, <1>4 DEF PropInv, AskedWell
<1>6. /\ reply'.code \in {"SUCCESS", "INVALIDARGUMENT", "BADSTATE", "NOTSUPPORTED"}
      /\ reply'.size_ret \in Nat \cup {NONE}
      /\ reply'.value # NONE => Bytes(reply'.value) \in Nat \ {0}
      /\ reply'.code = "SUCCESS" <=> size >= announced
      /\ reply'.code = "SUCCESS" => Bytes(reply'.value) = announced
  <2>1. CASE size = 0
    BY <1>1, <1>3, <2>1 DEF Refuse
  <2>2. CASE size # 0
    <3>1. Query(args, size)
      BY <1>1, <2>2
    <3>2. /\ reply'.code \in {"SUCCESS", "INVALIDARGUMENT", "BADSTATE", "NOTSUPPORTED"}
          /\ reply'.size_ret \in Nat \cup {NONE}
          /\ reply'.value # NONE => Bytes(reply'.value) \in Nat \ {0}
          /\ reply'.code = "SUCCESS" <=>
               \E value \in Held(args) : size # NONE => size >= Bytes(value)
          /\ reply'.code = "SUCCESS" => \E value \in Held(args) :
               reply'.value = IF size = NONE THEN NONE ELSE value
      BY <1>3, <1>4, <3>1, RepliesOfQueries
    <3> QED BY <1>3, <1>4, <3>2
  <2> QED BY <2>1, <2>2
<1>7. TypeOK'
  BY <1>2, <1>3, <1>5, <1>6 DEF PropInv, TypeOK, Bytes, sizeof
<1>8. AskedWell'
  <2>1. \A a : Held(a)' = Held(a)
    BY <1>2, HeldSame
  <2> QED BY <1>2, <1>3, <1>5, <2>1, PropertiesAssumption DEF AskedWell, Bytes, sizeof, PropertiesAssumption
<1>9. FetchAsAnnounced'
  BY <1>2, <1>5, <1>6 DEF FetchAsAnnounced, Bytes, sizeof
<1> QED BY <1>7, <1>8, <1>9 DEF PropInv

LEMMA ReadKeepsInv == PropInv /\ Read => PropInv'
PROOF
<1> SUFFICES ASSUME PropInv, Read PROVE PropInv'
  OBVIOUS
<1> QED BY DEF Read, PropInv, TypeOK, AskedWell, FetchAsAnnounced, NoQuery, Bytes, sizeof

LEMMA ElsewhereKeepsInv == PropInv /\ Elsewhere => PropInv'
PROOF
<1> SUFFICES ASSUME PropInv, Elsewhere PROVE PropInv'
  OBVIOUS
<1>1. UNCHANGED <<asked, reply, announced>> /\ (session => session')
  BY DEF Elsewhere, PropInv, TypeOK
<1>2. TypeOK'
  BY <1>1 DEF Elsewhere, PropInv, TypeOK, Bytes, sizeof, NoQuery
<1>3. FetchAsAnnounced'
  BY <1>1 DEF PropInv, FetchAsAnnounced, Bytes, sizeof, NoQuery
<1>4. AskedWell'
  <2> SUFFICES ASSUME announced # NONE
               PROVE  /\ Held(asked.args)' # {}
                      /\ \A value \in Held(asked.args)' : Bytes(value) = announced
    BY <1>1 DEF PropInv, AskedWell, Bytes, sizeof
  <2>1. /\ asked.args \in Arguments /\ Held(asked.args) # {}
        /\ \A value \in Held(asked.args) : Bytes(value) = announced
    BY DEF PropInv, AskedWell
  <2>2. \A args \in Arguments : asked.args = args => Held(asked.args)' = Held(args)'
    BY <1>1
  <2>3. Held(asked.args)' # {}
    BY <1>1, <2>1, <2>2, HeldLasts
  <2>4. ASSUME NEW value \in Held(asked.args)' PROVE Bytes(value) = announced
    <3>1. PICK v \in Held(asked.args) : Bytes(v) = announced
      BY <2>1
    <3> QED BY <1>1, <2>1, <2>2, <2>4, <3>1, SizesLast
  <2> QED BY <2>3, <2>4
<1> QED BY <1>2, <1>3, <1>4 DEF PropInv

\* The inductive invariant of the queries holds in every reachable state.
THEOREM PropertiesInvariant == Spec => []PropInv
PROOF
<1>1. PropInv /\ [Next]_vars => PropInv'
  <2> SUFFICES ASSUME PropInv, [Next]_vars PROVE PropInv'
    OBVIOUS
  <2>1. CASE UNCHANGED vars
    <3>1. \A args : Held(args)' = Held(args)
      BY <2>1, HeldSame DEF vars
    <3> QED BY <2>1, <3>1 DEF vars, PropInv, TypeOK, AskedWell, FetchAsAnnounced
  <2> QED BY <2>1, AskSizeKeepsInv, FetchKeepsInv, ReadKeepsInv, ElsewhereKeepsInv DEF Next
<1> QED BY <1>1, InitEstablishesInv, PTL DEF Spec

\* TypeOK: a reply is one of the codes with a size and a value of a C type.
THEOREM PropertiesTypeCorrect == Spec => []TypeOK
BY PropertiesInvariant, PTL DEF PropInv

\* FetchAsAnnounced: a fetch succeeds exactly with a buffer of at least the size
\* announced before, and writes that many bytes, for every property.
THEOREM FetchCorrect == Spec => []FetchAsAnnounced
BY PropertiesInvariant, PTL DEF PropInv

-----------------------------------------------------------------------------
(* The operands *)

\* Lists of one and two items.
LEMMA ShortLists ==
  ASSUME NEW S, NEW list \in Seq(S)
  PROVE  /\ Len(list) = 1 => list = <<list[1]>>
         /\ Len(list) = 2 => list = <<list[1], list[2]>>
OBVIOUS

\* Two items of a list.
LEMMA PairOfList ==
  ASSUME NEW S, NEW list \in Seq(S), NEW m \in 1..(Len(list) - 1)
  PROVE  SubSeq(list, m, m + 1) = <<list[m], list[m + 1]>>
PROOF
<1>1. m \in 1..(Len(list) + 1) /\ m + 1 \in m - 1..Len(list) /\ m <= m + 1 /\ (m + 1) - m + 1 = 2
  OBVIOUS
<1>2. /\ SubSeq(list, m, m + 1) \in Seq(S)
      /\ Len(SubSeq(list, m, m + 1)) = 2
      /\ \A i \in 1..2 : SubSeq(list, m, m + 1)[i] = list[m + i - 1]
  BY <1>1, SubSeqProperties
<1>3. SubSeq(list, m, m + 1)[1] = list[m] /\ SubSeq(list, m, m + 1)[2] = list[m + 1]
  BY <1>2
<1>4. SubSeq(list, m, m + 1) = <<SubSeq(list, m, m + 1)[1], SubSeq(list, m, m + 1)[2]>>
  BY <1>2, ShortLists
<1> QED BY ONLY <1>3, <1>4

\* One item of a list.
LEMMA ItemOfList ==
  ASSUME NEW S, NEW list \in Seq(S), NEW m \in 1..Len(list)
  PROVE  SubSeq(list, m, m) = <<list[m]>>
PROOF
<1>1. m \in 1..(Len(list) + 1) /\ m \in m - 1..Len(list) /\ m <= m /\ m - m + 1 = 1
  OBVIOUS
<1>2. /\ SubSeq(list, m, m) \in Seq(S)
      /\ Len(SubSeq(list, m, m)) = 1
      /\ \A i \in 1..1 : SubSeq(list, m, m)[i] = list[m + i - 1]
  BY <1>1, SubSeqProperties
<1>3. SubSeq(list, m, m)[1] = list[m]
  BY <1>2
<1>4. SubSeq(list, m, m) = <<SubSeq(list, m, m)[1]>>
  BY <1>2, ShortLists
<1> QED BY ONLY <1>3, <1>4

\* The sites that cx announces, cut into pairs, are those that have a fidelity.
LEMMA OperandsOfCx == Operands("cx") = DOMAIN OPERATION_FIDELITIES
PROOF
<1> DEFINE map == DEVICE_COUPLING_MAP
<1>1. CxSitelessValues.QUBITSNUM.items[1] = 2 /\ CxValues.SITES.items = map
  BY DEF CxSitelessValues, CxValues, Single, Value
<1>2. Len(map) = 20 /\ map \in Seq(0..4)
  BY DEF DEVICE_COUPLING_MAP
<1>3. Operands("cx") = {SubSeq(map, (i - 1) * 2 + 1, i * 2) : i \in 1..10}
  <2>1. Operands("cx") = {SubSeq(map, (i - 1) * 2 + 1, i * 2) : i \in 1..(20 \div 2)}
    BY <1>1, <1>2, Zenon DEF Operands
  <2>2. 20 \div 2 = 10
    OBVIOUS
  <2> QED BY <2>1, <2>2
<1>4. ASSUME NEW i \in 1..10
      PROVE  SubSeq(map, (i - 1) * 2 + 1, i * 2) = <<map[(i - 1) * 2 + 1], map[i * 2]>>
  <2>1. (i - 1) * 2 + 1 \in 1..(Len(map) - 1) /\ ((i - 1) * 2 + 1) + 1 = i * 2
    BY <1>2
  <2> HIDE DEF map
  <2> QED BY <1>2, <2>1, PairOfList
<1>5. Operands("cx") = {<<map[(i - 1) * 2 + 1], map[i * 2]>> : i \in 1..10}
  BY <1>3, <1>4
<1>6. /\ map[1] = 0 /\ map[2] = 1 /\ map[3] = 1 /\ map[4] = 0 /\ map[5] = 1 /\ map[6] = 2
      /\ map[7] = 2 /\ map[8] = 1 /\ map[9] = 2 /\ map[10] = 3 /\ map[11] = 3 /\ map[12] = 2
      /\ map[13] = 3 /\ map[14] = 4 /\ map[15] = 4 /\ map[16] = 3 /\ map[17] = 4 /\ map[18] = 0
      /\ map[19] = 0 /\ map[20] = 4
  BY DEF DEVICE_COUPLING_MAP
<1>7. {<<map[(i - 1) * 2 + 1], map[i * 2]>> : i \in 1..10} =
        {<<map[1], map[2]>>, <<map[3], map[4]>>, <<map[5], map[6]>>, <<map[7], map[8]>>,
         <<map[9], map[10]>>, <<map[11], map[12]>>, <<map[13], map[14]>>, <<map[15], map[16]>>,
         <<map[17], map[18]>>, <<map[19], map[20]>>}
  <2>1. 1..10 = {1, 2, 3, 4, 5, 6, 7, 8, 9, 10}
    OBVIOUS
  <2> HIDE DEF map
  <2> QED BY <2>1
<1> QED BY <1>5, <1>6, <1>7 DEF OPERATION_FIDELITIES

\* The operands of a rotation are the single sites.
LEMMA OperandsOfRotation ==
  ASSUME NEW operation, operation # "cx"
  PROVE  Operands(operation) = {<<0>>, <<1>>, <<2>>, <<3>>, <<4>>}
PROOF
<1>1. RotationValues.QUBITSNUM.items[1] = 1 /\ RotationValues.SITES.items = SITES
  BY DEF RotationValues, Single, Value
<1>2. Len(SITES) = 5 /\ SITES \in Seq(0..4)
  BY DEF SITES
<1>3. Operands(operation) = {SubSeq(SITES, (i - 1) * 1 + 1, i * 1) : i \in 1..5}
  <2>1. Operands(operation) = {SubSeq(SITES, (i - 1) * 1 + 1, i * 1) : i \in 1..(5 \div 1)}
    BY <1>1, <1>2, Zenon DEF Operands
  <2>2. 5 \div 1 = 5
    OBVIOUS
  <2> QED BY <2>1, <2>2
<1>4. ASSUME NEW i \in 1..5
      PROVE  SubSeq(SITES, (i - 1) * 1 + 1, i * 1) = <<SITES[i]>>
  <2>1. i \in 1..Len(SITES) /\ (i - 1) * 1 + 1 = i /\ i * 1 = i
    BY <1>2
  <2> QED BY <1>2, <2>1, ItemOfList
<1>5. Operands(operation) = {<<SITES[i]>> : i \in 1..5}
  BY <1>3, <1>4
<1>6. SITES[1] = 0 /\ SITES[2] = 1 /\ SITES[3] = 2 /\ SITES[4] = 3 /\ SITES[5] = 4
  BY DEF SITES
<1> QED BY <1>5, <1>6

\* The lists of one site a client may pass are the operands of a rotation.
LEMMA SingleSites ==
  ASSUME NEW operation, operation # "cx", NEW sites \in SiteLists
  PROVE  Len(sites) = 1 <=> sites \in Operands(operation)
PROOF
<1>1. sites \in Seq(0..4)
  <2>1. ToSet(SITES) = 0..4
    BY DEF ToSet, SITES
  <2> QED BY <2>1, PropertiesAssumption DEF PropertiesAssumption
<1>2. ASSUME Len(sites) = 1 PROVE sites \in Operands(operation)
  <2>1. sites = <<sites[1]>> /\ sites[1] \in {0, 1, 2, 3, 4}
    BY <1>1, <1>2, ShortLists
  <2> QED BY <2>1, OperandsOfRotation
<1>3. ASSUME sites \in Operands(operation) PROVE Len(sites) = 1
  <2>1. PICK site \in {0, 1, 2, 3, 4} : sites = <<site>>
    BY <1>3, OperandsOfRotation
  <2> QED BY <2>1
<1> QED BY <1>2, <1>3

\* A fidelity is held for the operands an operation announces, and without sites
\* for an operation of one qubit.
LEMMA FidelityHeld ==
  ASSUME NEW args \in Arguments, args.of = "operation", args.prop = "FIDELITY", args.params # 2
  PROVE  Held(args) # {} <=>
           \/ args.sites \in Operands(args.operation)
           \/ args.sites = NONE /\ args.operation # "cx"
PROOF
<1> DEFINE sites == args.sites
<1>1. sites \in SiteLists \cup {NONE} /\ args.params \in {NONE, 1}
  BY DEF Arguments
<1>2. In(GeneralValues(args.operation), "FIDELITY") = {}
  BY TablesDisjoint, InTable
<1>3. CASE args.operation = "cx"
  <2>1. Held(args) = CxHeld(sites, "FIDELITY")
    BY <1>2, <1>3 DEF Held, OperationHeld
  <2>2. In(CxValues, "FIDELITY") = {} /\ In(CxSitelessValues, "FIDELITY") = {}
    BY TablesDisjoint, InTable
  <2>3. \A value : In([FIDELITY |-> value], "FIDELITY") = {value}
    BY DEF In
  <2>4. ASSUME sites \in DOMAIN OPERATION_FIDELITIES PROVE sites # NONE /\ Len(sites) = 2
    <3>1. sites # NONE
      BY <2>4, PropertiesAssumption DEF PropertiesAssumption
    <3>2. \E a, b \in 0..4 : sites = <<a, b>>
      BY <2>4 DEF OPERATION_FIDELITIES
    <3> QED BY <3>1, <3>2
  <2>5. CxHeld(sites, "FIDELITY") # {} <=> sites \in DOMAIN OPERATION_FIDELITIES
    BY <2>2, <2>3, <2>4 DEF CxHeld
  <2> QED BY <1>3, <2>1, <2>5, OperandsOfCx
<1>4. CASE args.operation # "cx"
  <2>1. Held(args) = RotationHeld(sites, args.params, "FIDELITY")
    BY <1>2, <1>4 DEF Held, OperationHeld
  <2>2. In(RotationValues, "FIDELITY") # {}
    BY TablesDisjoint, InTable
  <2>3. RotationHeld(sites, args.params, "FIDELITY") # {} <=> sites = NONE \/ Len(sites) = 1
    BY <1>1, <2>2 DEF RotationHeld
  <2>4. sites # NONE => (Len(sites) = 1 <=> sites \in Operands(args.operation))
    BY <1>1, <1>4, SingleSites
  <2> QED BY <1>4, <2>1, <2>3, <2>4
<1> QED BY <1>3, <1>4

\* FidelityOfOperands: exactly the operands an operation announces have a
\* fidelity, for whatever lists of sites a client passes.
THEOREM FidelityCorrect == Spec => []FidelityOfOperands
PROOF
<1>1. Init => FidelityOfOperands
  BY DEF Init, FidelityOfOperands, Asks
<1>2. FidelityOfOperands /\ PropInv /\ [Next]_vars => FidelityOfOperands'
  <2> SUFFICES ASSUME FidelityOfOperands, PropInv, [Next]_vars PROVE FidelityOfOperands'
    OBVIOUS
  <2>1. CASE AskSize
    <3>1. PICK args \in Arguments : Query(args, NONE) /\ asked' = [args |-> args, size |-> NONE]
      BY <2>1 DEF AskSize
    <3>2. NONE \in Nat \cup {NONE}
      OBVIOUS
    <3>3. reply'.code = "SUCCESS" <=> Held(args) # {}
      <4>1. reply'.code = "SUCCESS" <=>
              (\E value \in Held(args) : NONE # NONE => NONE >= Bytes(value))
        BY <3>1, <3>2, RepliesOfQueries
      <4> QED BY <4>1
    <3>4. asked'.args = args
      BY <3>1
    <3>5. ASSUME args.of = "operation", args.prop = "FIDELITY", args.params # 2
          PROVE  reply'.code = "SUCCESS" <=>
                   \/ args.sites \in Operands(args.operation)
                   \/ args.sites = NONE /\ args.operation # "cx"
      BY <3>3, <3>5, FidelityHeld
    <3> QED BY <3>4, <3>5 DEF FidelityOfOperands, Asks
  <2>2. CASE Fetch
    <3>1. asked'.size # NONE
      <4>1. PICK size \in {announced - 1, announced, announced + 1} : asked' = [asked EXCEPT !.size = size]
        BY <2>2 DEF Fetch
      <4>2. announced \in Nat \ {0}
        BY <2>2 DEF Fetch, PropInv, AskedWell
      <4>3. size \in Nat
        BY <4>2
      <4>4. asked'.size = size
        BY <4>1 DEF PropInv, AskedWell
      <4> QED BY <4>3, <4>4, PropertiesAssumption DEF PropertiesAssumption
    <3> QED BY <3>1 DEF FidelityOfOperands
  <2>3. CASE Read
    BY <2>3 DEF Read, FidelityOfOperands, Asks
  <2>4. CASE Elsewhere \/ UNCHANGED vars
    <3>1. UNCHANGED <<asked, reply>>
      BY <2>4 DEF Elsewhere, vars
    <3> QED BY <3>1 DEF FidelityOfOperands, Asks
  <2> QED BY <2>1, <2>2, <2>3, <2>4 DEF Next
<1> QED BY <1>1, <1>2, PropertiesInvariant, PTL DEF Spec
=============================================================================
