------------------------ MODULE QDMIDriverPromiseProofs ------------------------
(***************************************************************************)
(* The proof that the driver implements DriverPromise: whatever device     *)
(* calls a client's call makes, and wherever one of them fails, the client *)
(* sees one step of the promise or none.                                   *)
(***************************************************************************)
EXTENDS QDMIDriverSessionProofs

-----------------------------------------------------------------------------
(* The inductive invariant: the configuration that is being read *)

\* list holds the devices that the first n lines of config name.
NamedBy(list, config, n) ==
  \E at \in [1..Len(list) -> DeviceLines(config) \cap 1..n] :
    /\ \A i, k \in 1..Len(list) : i < k => at[i] < at[k]
    /\ \A m \in DeviceLines(config) \cap 1..n : \E i \in 1..Len(list) : at[i] = m
    /\ \A i \in 1..Len(list) :
         list[i] = [library |-> config[at[i]].library, id |-> config[at[i]].id]

\* The first n lines of config are read, and none of them was malformed.
ReadSoFar(config, n) ==
  /\ Len(call.lines) = Len(config) - n
  /\ \A i \in 1..Len(call.lines) : call.lines[i] = config[n + i]
  /\ \A i \in 1..n : config[i].kind # "malformed"
  /\ NamedBy(call.configured, config, n)

LoadingConfig ==
  call.at = "load" => \E config \in Configs : \E n \in 0..Len(config) : ReadSoFar(config, n)

PromiseInv == SessionInv /\ LoadingConfig

-----------------------------------------------------------------------------
(* Reading the configuration *)

\* Nothing is named by no line.
LEMMA NothingNamed ==
  ASSUME NEW config
  PROVE  NamedBy(<<>>, config, 0)
<1>1. DeviceLines(config) \cap 1..0 = {}
  OBVIOUS
<1>2. 1..Len(<<>>) = {}
  BY EmptyList
<1>3. [i \in {} |-> i] \in [1..Len(<<>>) -> DeviceLines(config) \cap 1..0]
  BY <1>2
<1> QED
  BY <1>1, <1>2, <1>3 DEF NamedBy

\* A line that names no device leaves the list as it is.
LEMMA CommentNamed ==
  ASSUME NEW list, NEW config, NEW n \in Nat, NamedBy(list, config, n),
         n + 1 \notin DeviceLines(config)
  PROVE  NamedBy(list, config, n + 1)
<1>1. DeviceLines(config) \cap 1..(n + 1) = DeviceLines(config) \cap 1..n
  OBVIOUS
<1> QED
  BY <1>1 DEF NamedBy

\* A line that names a device adds it at the end.
LEMMA DeviceNamed ==
  ASSUME NEW list \in Seq(Configured_Device), NEW config, NEW n \in Nat, NamedBy(list, config, n),
         n + 1 \in DeviceLines(config), NEW e \in Configured_Device,
         e = [library |-> config[n + 1].library, id |-> config[n + 1].id]
  PROVE  NamedBy(Append(list, e), config, n + 1)
<1> DEFINE more == Append(list, e)
           lines(m) == DeviceLines(config) \cap 1..m
<1>1. /\ Len(more) = Len(list) + 1
      /\ \A i \in 1..Len(list) : more[i] = list[i]
      /\ more[Len(list) + 1] = e
      /\ Len(list) \in Nat
  BY AppendProperties, LenProperties
<1> HIDE DEF more
<1>2. PICK at \in [1..Len(list) -> lines(n)] :
        /\ \A i, k \in 1..Len(list) : i < k => at[i] < at[k]
        /\ \A m \in lines(n) : \E i \in 1..Len(list) : at[i] = m
        /\ \A i \in 1..Len(list) :
             list[i] = [library |-> config[at[i]].library, id |-> config[at[i]].id]
  BY DEF NamedBy
<1>3. /\ lines(n + 1) = lines(n) \cup {n + 1}
      /\ \A m \in lines(n) : m \in Nat /\ m < n + 1
  OBVIOUS
<1> HIDE DEF lines
<1> DEFINE at2 == [i \in 1..Len(more) |-> IF i = Len(more) THEN n + 1 ELSE at[i]]
<1>4. \A i \in 1..Len(more) : i # Len(more) => i \in 1..Len(list)
  BY <1>1
<1>5. at2 \in [1..Len(more) -> lines(n + 1)]
  BY <1>2, <1>3, <1>4
<1>6. /\ \A i \in 1..Len(list) : at2[i] = at[i]
      /\ at2[Len(more)] = n + 1
      /\ Len(more) \in 1..Len(more) /\ \A i \in 1..Len(list) : i \in 1..Len(more)
  BY <1>1
<1> HIDE DEF at2
<1>7. \A i, k \in 1..Len(more) : i < k => at2[i] < at2[k]
  <2> SUFFICES ASSUME NEW i \in 1..Len(more), NEW k \in 1..Len(more), i < k
               PROVE  at2[i] < at2[k]
    OBVIOUS
  <2>1. i \in 1..Len(list) /\ at2[i] = at[i] /\ at[i] \in lines(n)
    BY <1>1, <1>2, <1>6
  <2>2. CASE k = Len(more)
    BY <1>3, <1>6, <2>1, <2>2
  <2>3. CASE k # Len(more)
    BY <1>2, <1>4, <1>6, <2>1, <2>3
  <2> QED
    BY <2>2, <2>3
<1>8. \A m \in lines(n + 1) : \E i \in 1..Len(more) : at2[i] = m
  BY <1>2, <1>3, <1>6
<1>9. \A i \in 1..Len(more) :
        more[i] = [library |-> config[at2[i]].library, id |-> config[at2[i]].id]
  <2>1. \A i \in 1..Len(list) :
          more[i] = [library |-> config[at2[i]].library, id |-> config[at2[i]].id]
    BY <1>1, <1>2, <1>6
  <2>2. more[Len(more)] = [library |-> config[at2[Len(more)]].library,
                           id |-> config[at2[Len(more)]].id]
    BY <1>1, <1>6
  <2> QED
    BY <1>4, <2>1, <2>2
<1> QED
  BY <1>5, <1>7, <1>8, <1>9 DEF NamedBy, lines, more

\* What is read of a well-formed file is a listing.
LEMMA ReadIsListing ==
  ASSUME NEW config \in Configs, NEW list \in Seq(Configured_Device), Distinct(list),
         \A i \in 1..Len(config) : config[i].kind # "malformed",
         NamedBy(list, config, Len(config))
  PROVE  list \in Listings
<1>1. DeviceLines(config) \cap 1..Len(config) = DeviceLines(config)
  BY DEF DeviceLines
<1>2. PICK at \in [1..Len(list) -> DeviceLines(config)] :
        /\ \A i, k \in 1..Len(list) : i < k => at[i] < at[k]
        /\ \A m \in DeviceLines(config) : \E i \in 1..Len(list) : at[i] = m
        /\ \A i \in 1..Len(list) :
             list[i] = [library |-> config[at[i]].library, id |-> config[at[i]].id]
  BY <1>1 DEF NamedBy
<1>3. Lists(list, config)
  BY <1>2 DEF Lists
<1>4. ASSUME NEW n \in DeviceLines(config), NEW m \in DeviceLines(config),
             config[n].id = config[m].id
      PROVE  n = m
  <2>1. PICK i \in 1..Len(list) : at[i] = n
    BY <1>2
  <2>2. PICK k \in 1..Len(list) : at[k] = m
    BY <1>2
  <2>3. list[i].id = config[n].id /\ list[k].id = config[m].id
    <3>1. ASSUME NEW l \in 1..Len(list)
          PROVE  list[l].id = config[at[l]].id
      <4>1. list[l] = [library |-> config[at[l]].library, id |-> config[at[l]].id]
        BY <1>2
      <4> QED
        BY <4>1
    <3> QED
      BY <2>1, <2>2, <3>1
  <2> QED
    BY <1>4, <2>1, <2>2, <2>3 DEF Distinct
<1> QED
  BY <1>3, <1>4 DEF Listings, WellFormed

\* Reading keeps the invariant: the rest of the lines and the list read so far
\* belong to one configuration.
LEMMA StepKeepsLoading ==
  ASSUME PromiseInv, [Next]_vars
  PROVE  LoadingConfig'
<1> USE DEF PromiseInv
<1>1. ASSUME UNCHANGED call
      PROVE  LoadingConfig'
  BY <1>1 DEF LoadingConfig, ReadSoFar
<1>2. ASSUME call'.at # "load"
      PROVE  LoadingConfig'
  BY <1>2 DEF LoadingConfig
<1>3. ASSUME NEW code, Returns(code)
      PROVE  LoadingConfig'
  BY <1>1, <1>3 DEF Returns
<1>4. CASE session_alloc
  <2>1. ASSUME NEW s, NEW config \in Configs,
               call' = [Idle EXCEPT !.at = "load", !.session = s, !.lines = config]
        PROVE  LoadingConfig'
    <3>1. call'.lines = config /\ call'.configured = <<>>
      BY <2>1, IdleType
    <3>2. Len(config) \in Nat
      BY DriverAssumption, LenProperties
    <3>3. ReadSoFar(config, 0)'
      BY <3>1, <3>2, NothingNamed DEF ReadSoFar
    <3> QED
      BY <3>2, <3>3 DEF LoadingConfig
  <2> QED
    BY <1>1, <1>3, <1>4, <2>1 DEF session_alloc
<1>5. CASE load_line
  <2>0. PICK config \in Configs : \E n \in 0..Len(config) : ReadSoFar(config, n)
    BY <1>5 DEF load_line, LoadingConfig
  <2>1. PICK n \in 0..Len(config) : ReadSoFar(config, n)
    BY <2>0
  <2>2. /\ call.lines \in Seq(Line) /\ call.lines # <<>>
        /\ call.configured \in Seq(Configured_Device) /\ config \in Seq(Line)
    BY <1>5, DriverAssumption DEF load_line, SessionInv, DriverInv, TypeOK, Call
  <2>3. /\ n \in Nat /\ n + 1 \in 0..Len(config) /\ n + 1 \in 1..Len(config)
        /\ Head(call.lines) = config[n + 1]
        /\ Len(Tail(call.lines)) = Len(config) - (n + 1)
        /\ \A i \in 1..Len(Tail(call.lines)) : Tail(call.lines)[i] = config[(n + 1) + i]
    <3>1. Len(config) \in Nat /\ Len(call.lines) \in Nat /\ Len(call.lines) > 0
      BY <2>2, LenProperties, EmptySeq
    <3>2. /\ Len(call.lines) = Len(config) - n
          /\ \A i \in 1..Len(call.lines) : call.lines[i] = config[n + i]
      BY <2>1 DEF ReadSoFar
    <3>3. /\ Head(call.lines) = call.lines[1]
          /\ Len(Tail(call.lines)) = Len(call.lines) - 1
          /\ \A i \in 1..Len(Tail(call.lines)) : Tail(call.lines)[i] = call.lines[i + 1]
      BY <2>2, HeadTailProperties
    <3>4. ASSUME NEW i \in 1..Len(Tail(call.lines))
          PROVE  Tail(call.lines)[i] = config[(n + 1) + i]
      <4>1. i + 1 \in 1..Len(call.lines) /\ n + (i + 1) = (n + 1) + i
        BY <3>1, <3>3
      <4>2. call.lines[i + 1] = config[n + (i + 1)]
        BY <3>2, <4>1
      <4> QED
        BY <3>3, <4>1, <4>2
    <3> QED
      BY <3>1, <3>2, <3>3, <3>4
  <2>4. ASSUME call'.lines = Tail(call.lines), config[n + 1].kind # "malformed",
               NamedBy(call'.configured, config, n + 1)
        PROVE  LoadingConfig'
    <3>1. \A i \in 1..(n + 1) : config[i].kind # "malformed"
      BY <2>1, <2>3, <2>4 DEF ReadSoFar
    <3>2. ReadSoFar(config, n + 1)'
      BY <2>3, <2>4, <3>1 DEF ReadSoFar
    <3> QED
      BY <2>3, <3>2 DEF LoadingConfig
  <2>5. ASSUME NEW code, Fail_load(code)
        PROVE  LoadingConfig'
    BY <1>2, <2>5, IdleType DEF Fail_load
  <2>6. CASE config[n + 1].kind = "comment" /\ call' = [call EXCEPT !.lines = Tail(@)]
    <3>1. call'.lines = Tail(call.lines) /\ call'.configured = call.configured
      BY <2>6 DEF SessionInv, DriverInv, TypeOK, Call
    <3>2. n + 1 \notin DeviceLines(config)
      BY <2>6 DEF DeviceLines
    <3>3. NamedBy(call'.configured, config, n + 1)
      BY <2>1, <2>3, <3>1, <3>2, CommentNamed DEF ReadSoFar
    <3> QED
      BY <2>4, <2>6, <3>1, <3>3
  <2>7. ASSUME config[n + 1].kind = "device",
               library_load(config[n + 1].library, config[n + 1].id)
        PROVE  LoadingConfig'
    <3> DEFINE e == [library |-> config[n + 1].library, id |-> config[n + 1].id]
    <3>1. e \in Configured_Device
      <4>1. config[n + 1] \in Line
        BY <2>2, <2>3, ElementOfSeq
      <4> QED
        BY <2>7, <4>1 DEF Line, Configured_Device
    <3>2. CASE call'.lines = Tail(call.lines) /\ call'.configured = Append(call.configured, e)
      <4>1. n + 1 \in DeviceLines(config)
        BY <2>3, <2>7 DEF DeviceLines
      <4>2. NamedBy(call'.configured, config, n + 1)
        BY <2>1, <2>2, <2>3, <3>1, <3>2, <4>1, DeviceNamed DEF ReadSoFar
      <4> QED
        BY <2>4, <2>7, <3>2, <4>2
    <3>3. CASE call'.at = "unload"
      BY <1>2, <3>3
    <3>4. \/ call'.lines = Tail(call.lines) /\ call'.configured = Append(call.configured, e)
          \/ call'.at = "unload"
      BY <2>7, IdleType DEF library_load, Fail_load, SessionInv, DriverInv, TypeOK, Call
    <3> QED
      BY <3>2, <3>3, <3>4
  <2> QED
    BY <1>5, <2>3, <2>5, <2>6, <2>7 DEF load_line
<1>6. CASE unload_library \/ close_device \/ open_device \/ open_set_token \/ open_init
  <2>1. call.at # "load"
    BY <1>6 DEF unload_library, close_device, open_device, open_set_token, open_init
  <2>2. call'.at # "load"
    <3> USE <2>1 DEF SessionInv, DriverInv, TypeOK, Call
    <3>1. ASSUME NEW closing, NEW code, Fail_init(closing, code)
          PROVE  call'.at # "load"
      BY <3>1, IdleType DEF Fail_init
    <3>2. CASE unload_library
      BY <3>2 DEF unload_library
    <3>3. CASE close_device
      BY <3>3 DEF close_device
    <3>4. CASE open_device
      BY <3>1, <3>4 DEF open_device
    <3>5. CASE open_set_token
      BY <3>1, <3>5 DEF open_set_token
    <3>6. CASE open_init
      BY <3>1, <3>6 DEF open_init
    <3> QED
      BY <1>6, <3>2, <3>3, <3>4, <3>5, <3>6
  <2> QED
    BY <1>2, <2>2
<1>7. CASE load_end \/ unload_end \/ open_end \/ close_end
  <2>1. call' = Idle \/ call' = [Idle EXCEPT !.at = "unload", !.libraries = libraries]
    BY <1>7 DEF load_end, unload_end, open_end, close_end
  <2>2. CASE call' = Idle
    BY <1>2, <2>2, IdleType
  <2>3. CASE call' = [Idle EXCEPT !.at = "unload", !.libraries = libraries]
    <3>1. call'.at = "unload"
      BY <2>3, IdleType
    <3> QED
      BY <1>2, <3>1
  <2> QED
    BY <2>1, <2>2, <2>3
<1>8. ASSUME NEW s \in Clients, SessionCall(s)
      PROVE  LoadingConfig'
  <2>1. CASE session_init(s) \/ session_free(s)
    BY <1>1, <1>2, <2>1, IdleType DEF session_init, session_free, Returns
  <2> QED
    BY <1>1, <1>8, <2>1 DEF SessionCall, session_set_parameter, session_query_session_property,
       device_query_property, device_create_job, session_retrieve_job_by_id, Returns
<1>9. CASE UNCHANGED vars \/ InvalidArguments \/ \E j \in Jobs : job_free(j) \/ job_forward(j)
  BY <1>1, <1>9 DEF vars, InvalidArguments, job_free, job_forward, Returns
<1> QED
  BY <1>4, <1>5, <1>6, <1>7, <1>8, <1>9 DEF Next, Continue

-----------------------------------------------------------------------------
(* What clients see *)

\* The phases tell a session's status.
LEMMA Phases ==
  ASSUME TypeOK
  PROVE  \A s \in Clients :
           /\ ShownPhases[s] = "absent" <=> session[s].status = "FREE"
           /\ ShownPhases[s] = "allocated" <=> session[s].status = "ALLOCATED"
           /\ ShownPhases[s] = "open" <=> session[s].status = "INITIALIZED"
<1>1. \A s \in Clients : session[s].status \in {"FREE", "ALLOCATED", "INITIALIZED"}
  BY DEF TypeOK, Session_impl
<1>2. /\ PhaseOf("FREE") = "absent" /\ PhaseOf("ALLOCATED") = "allocated"
      /\ PhaseOf("INITIALIZED") = "open"
  BY DEF PhaseOf
<1> QED
  BY <1>1, <1>2 DEF ShownPhases

\* A session is alone when no other one is live.
LEMMA AloneIsLast ==
  ASSUME TypeOK, NEW s \in Clients
  PROVE  Promise!Alone(s) <=> LiveSessions \subseteq {s}
BY Phases DEF Promise!Alone, LiveSessions, LiveSession

\* A job belongs to the one session that holds its device.
LEMMA JobsHaveOwners ==
  ASSUME SessionInv, NEW j \in Jobs, job[j] # NULL
  PROVE  \E s \in Clients : /\ session[s].status = "INITIALIZED"
                            /\ job[j] \in DevicesOf(s)
                            /\ ShownOwners[j] = s
<1>1. PICK s \in Clients : session[s].status = "INITIALIZED" /\ job[j] \in DevicesOf(s)
  BY DEF SessionInv, JobsOnWritableSessions, DevicesOf
<1>2. \A t \in Clients : job[j] \in DevicesOf(t) => t = s
  BY <1>1 DEF SessionInv, OneOwner
<1>3. OwnerOf(job[j]) = s
  BY <1>1, <1>2 DEF OwnerOf, DevicesOf
<1> QED
  BY <1>1, <1>3 DEF ShownOwners

\* The same of the next state, when a job stays with the session s.
LEMMA OwnerAfter ==
  ASSUME SessionInv', NEW j \in Jobs, job'[j] # NULL,
         NEW s \in Clients, job'[j] \in DevicesOf(s)'
  PROVE  ShownOwners'[j] = s
<1>1. \A t \in Clients : job'[j] \in DevicesOf(t)' => t = s
  BY DEF SessionInv, OneOwner
<1>2. OwnerOf(job[j])' = s
  BY <1>1 DEF OwnerOf, DevicesOf
<1> QED
  BY <1>2 DEF ShownOwners

\* Jobs that stay keep their sessions.
LEMMA OwnersStay ==
  ASSUME SessionInv, SessionInv', UNCHANGED job,
         \A s \in Clients : \A j \in Jobs : job[j] \in DevicesOf(s) => job[j] \in DevicesOf(s)'
  PROVE  UNCHANGED ShownOwners
<1>1. ASSUME NEW j \in Jobs, job[j] # NULL
      PROVE  ShownOwners'[j] = ShownOwners[j]
  <2>1. PICK s \in Clients : job[j] \in DevicesOf(s) /\ ShownOwners[j] = s
    BY <1>1, JobsHaveOwners
  <2>2. job'[j] = job[j] /\ job'[j] \in DevicesOf(s)'
    BY <2>1
  <2> QED
    BY <1>1, <2>1, <2>2, OwnerAfter
<1>2. ASSUME NEW j \in Jobs, job[j] = NULL
      PROVE  ShownOwners'[j] = ShownOwners[j]
  BY <1>2 DEF ShownOwners
<1>3. \A j \in Jobs : ShownOwners'[j] = ShownOwners[j]
  BY <1>1, <1>2
<1> QED
  BY <1>3 DEF ShownOwners

\* A session that keeps its list of devices, and the devices, shows the same.
LEMMA ShownStays ==
  ASSUME NEW s \in Clients, session'[s].device_list = session[s].device_list,
         \A d \in DevicesOf(s) : device'[d] = device[d]
  PROVE  Shown(s)' = Shown(s) /\ DevicesOf(s)' = DevicesOf(s)
<1>1. \A i \in 1..Len(session[s].device_list) :
        device'[session[s].device_list[i]] = device[session[s].device_list[i]]
  BY DEF DevicesOf, DeviceSet
<1> QED
  BY <1>1 DEF Shown, DevicesOf

\* A step that leaves alone what clients see of the sessions, and the
\* configuration as long as one is live, is hidden from clients.
LEMMA HiddenStep ==
  ASSUME SessionInv, SessionInv', UNCHANGED job,
         \A s \in Clients :
           /\ session'[s].status = session[s].status
           /\ session'[s].device_list = session[s].device_list
           /\ session[s].status = "INITIALIZED" => session'[s].mode = session[s].mode
           /\ \A d \in DevicesOf(s) : device'[d] = device[d],
         LiveSessions # {} => UNCHANGED configured_devices
  PROVE  UNCHANGED Promise!promiseVars
<1>1. \A s \in Clients : Shown(s)' = Shown(s) /\ DevicesOf(s)' = DevicesOf(s)
  BY ShownStays
<1>2. UNCHANGED ShownOwners
  BY <1>1, OwnersStay
<1>3. UNCHANGED <<ShownPhases, ShownDevices, ShownWritable>>
  BY <1>1 DEF ShownPhases, ShownDevices, ShownWritable
<1>4. UNCHANGED ShownListing
  BY DEF ShownListing, LiveSessions, LiveSession
<1> QED
  BY <1>2, <1>3, <1>4 DEF Promise!promiseVars

-----------------------------------------------------------------------------
(* Each step is a step of the promise, or hidden *)

\* A call that changes no object.
LEMMA ReturnsHidden ==
  ASSUME SessionInv, SessionInv', UNCHANGED <<configured_devices, objects>>
  PROVE  UNCHANGED Promise!promiseVars
BY HiddenStep DEF objects

\* A session that is set up or about to open shows nothing yet.
LEMMA SetUpHidden ==
  ASSUME SessionInv, SessionInv', NEW s \in Clients,
         session_set_parameter(s) \/ session_init(s)
  PROVE  UNCHANGED Promise!promiseVars
<1>1. CASE UNCHANGED <<configured_devices, objects>>
  BY <1>1, ReturnsHidden
<1>2. ASSUME session[s].status = "ALLOCATED", UNCHANGED <<configured_devices, device, job>>,
             NEW b, session' = [session EXCEPT ![s] = b],
             b.status = session[s].status, b.device_list = session[s].device_list
      PROVE  UNCHANGED Promise!promiseVars
  <2>1. \A t \in Clients : session'[t] = IF t = s THEN b ELSE session[t]
    BY <1>2 DEF SessionInv, DriverInv, TypeOK
  <2>2. \A t \in Clients :
          /\ session'[t].status = session[t].status
          /\ session'[t].device_list = session[t].device_list
          /\ session[t].status = "INITIALIZED" => session'[t].mode = session[t].mode
    BY <1>2, <2>1
  <2> QED
    BY <1>2, <2>2, HiddenStep
<1>3. ASSUME NEW token, session[s].status = "ALLOCATED",
             session' = [session EXCEPT ![s].token = token],
             UNCHANGED <<configured_devices, device, job>>
      PROVE  UNCHANGED Promise!promiseVars
  <2> DEFINE b == [session[s] EXCEPT !.token = token]
  <2>1. /\ session' = [session EXCEPT ![s] = b]
        /\ b.status = session[s].status /\ b.device_list = session[s].device_list
    BY <1>3 DEF SessionInv, DriverInv, TypeOK, Session_impl
  <2> HIDE DEF b
  <2> QED
    BY <1>2, <1>3, <2>1
<1>4. ASSUME NEW mode, session[s].status = "ALLOCATED",
             session' = [session EXCEPT ![s].mode = mode],
             UNCHANGED <<configured_devices, device, job>>
      PROVE  UNCHANGED Promise!promiseVars
  <2> DEFINE b == [session[s] EXCEPT !.mode = mode]
  <2>1. /\ session' = [session EXCEPT ![s] = b]
        /\ b.status = session[s].status /\ b.device_list = session[s].device_list
    BY <1>4 DEF SessionInv, DriverInv, TypeOK, Session_impl
  <2> HIDE DEF b
  <2> QED
    BY <1>2, <1>4, <2>1
<1>5. CASE session_set_parameter(s)
  BY <1>1, <1>3, <1>5 DEF session_set_parameter, Returns, driverState
<1>6. CASE session_init(s)
  BY <1>1, <1>4, <1>6 DEF session_init, Returns, driverState
<1> QED
  BY <1>5, <1>6

\* The devices that a call opens and closes are in no session's list.
LEMMA DeviceStepsHidden ==
  ASSUME SessionInv, SessionInv',
         open_device \/ open_set_token \/ open_init \/ close_device
  PROVE  UNCHANGED Promise!promiseVars
<1> USE DEF SessionInv
<1>1. /\ UNCHANGED <<configured_devices, session, job>>
      /\ \/ UNCHANGED device
         \/ \E d \in Devices : /\ device[d].status = "FREE" \/ d \in Held
                               /\ \E b : device' = [device EXCEPT ![d] = b]
  <2>1. CASE open_device
    BY <2>1 DEF open_device, driverState
  <2>2. CASE open_set_token
    BY <2>2 DEF open_set_token, driverState, objects
  <2>3. CASE close_device
    <3>1. call.closing \subseteq Devices /\ call.closing \subseteq Held
      BY ListTypes DEF DriverInv, Held
    <3> QED
      BY <2>3, <3>1 DEF close_device, driverState
  <2>4. CASE open_init
    <3>1. call.closing \subseteq Devices /\ call.closing \subseteq Held
      BY ListTypes DEF DriverInv, Held
    <3>2. \A d \in Devices : [device EXCEPT ![d].status = "INITIALIZED"]
                               = [device EXCEPT ![d] = [device[d] EXCEPT !.status = "INITIALIZED"]]
      BY DEF DriverInv, TypeOK
    <3> QED
      BY <2>4, <3>1, <3>2 DEF open_init, driverState
  <2> QED
    BY <2>1, <2>2, <2>3, <2>4
<1>2. \A s \in Clients : \A d \in DevicesOf(s) : device'[d] = device[d]
  <2>1. \A s \in Clients : \A d \in DevicesOf(s) :
          d \in Devices /\ device[d].status # "FREE" /\ d \notin Held
    BY ListTypes DEF OneOwner, DriverInv
  <2> QED
    BY <1>1, <2>1 DEF DriverInv, TypeOK
<1> QED
  BY <1>1, <1>2, HiddenStep

\* The end of closing: without sessions the listing is already gone.
LEMMA CloseEndHidden ==
  ASSUME SessionInv, SessionInv', close_end
  PROVE  UNCHANGED Promise!promiseVars
<1>1. UNCHANGED objects /\ (LiveSessions # {} => UNCHANGED configured_devices)
  BY SessionsAreFinite DEF close_end, driverState, SessionInv, DriverInv, Counted
<1> QED
  BY <1>1, HiddenStep DEF objects

\* What clients see when one session changes.
LEMMA OneSession ==
  ASSUME SessionInv, NEW s \in Clients, NEW b, session' = [session EXCEPT ![s] = b],
         UNCHANGED device
  PROVE  /\ ShownPhases' = [ShownPhases EXCEPT ![s] = PhaseOf(b.status)]
         /\ ShownWritable' =
              [ShownWritable EXCEPT ![s] = b.status = "INITIALIZED" /\ b.mode = "READWRITE"]
         /\ ShownDevices' = [ShownDevices EXCEPT ![s] = Shown(s)']
         /\ session'[s] = b
         /\ \A t \in Clients \ {s} : session'[t] = session[t] /\ DevicesOf(t)' = DevicesOf(t)
<1>1. session'[s] = b /\ \A t \in Clients \ {s} : session'[t] = session[t]
  BY DEF SessionInv, DriverInv, TypeOK
<1>2. \A t \in Clients \ {s} : Shown(t)' = Shown(t) /\ DevicesOf(t)' = DevicesOf(t)
  BY <1>1 DEF Shown, DevicesOf
<1>3. ShownPhases' = [ShownPhases EXCEPT ![s] = PhaseOf(b.status)]
  <2>1. \A t \in Clients : PhaseOf(session[t].status)' = PhaseOf(session'[t].status)
    BY DEF PhaseOf
  <2>2. \A t \in Clients : PhaseOf(session[t].status)' =
                             IF t = s THEN PhaseOf(b.status) ELSE PhaseOf(session[t].status)
    BY <1>1, <2>1
  <2> QED
    BY <2>2 DEF ShownPhases
<1>4. ShownWritable' =
        [ShownWritable EXCEPT ![s] = b.status = "INITIALIZED" /\ b.mode = "READWRITE"]
  BY <1>1 DEF ShownWritable
<1>5. ShownDevices' = [ShownDevices EXCEPT ![s] = Shown(s)']
  BY <1>2 DEF ShownDevices
<1> QED
  BY <1>1, <1>2, <1>3, <1>4, <1>5

\* A function on no indices is the empty list.
LEMMA NoIndices ==
  ASSUME NEW f, f \in [1..0 -> {}]
  PROVE  f = <<>>
<1>1. f \in Seq({})
  BY SeqDef
<1>2. Len(f) \in Nat /\ DOMAIN f = 1..Len(f)
  BY <1>1, LenProperties
<1>3. Len(f) = 0
  <2>1. 1..Len(f) = {}
    BY <1>2
  <2>2. Len(f) # 0 => 1 \in 1..Len(f)
    BY <1>2
  <2> QED
    BY <2>1, <2>2
<1> QED
  BY <1>1, <1>3, EmptySeq

\* A session without devices shows the empty list.
LEMMA ShowsNothing ==
  ASSUME NEW list, list = <<>>, NEW shown,
         shown = [i \in 1..Len(list) |-> [library |-> device[list[i]].library,
                                          id      |-> device[list[i]].id]]
  PROVE  shown = <<>>
<1>1. 1..Len(list) = 1..0 /\ 1..0 = {}
  BY EmptyList
<1>2. shown \in [1..0 -> {}]
  BY <1>1
<1> QED
  BY <1>2, NoIndices

-----------------------------------------------------------------------------
(* Steps that clients see *)

\* A session that joins others.
LEMMA AllocateStep ==
  ASSUME PromiseInv, SessionInv', NEW s \in Clients \ LiveSessions, Entry, sessions > 0,
         session' = [session EXCEPT ![s] = NewSession],
         UNCHANGED <<configured_devices, device, job, call>>
  PROVE  Promise!Allocate(s)
<1> USE DEF PromiseInv
<1>1. session[s].status = "FREE" /\ session[s].device_list = <<>>
  BY DEF LiveSessions, LiveSession, SessionInv, SessionsComplete
<1>2. NewSession.status = "ALLOCATED" /\ NewSession.device_list = <<>>
  BY DEF NewSession, NoSession
<1>3. /\ ShownPhases' = [ShownPhases EXCEPT ![s] = PhaseOf(NewSession.status)]
      /\ session'[s] = NewSession
      /\ \A t \in Clients \ {s} : session'[t] = session[t] /\ DevicesOf(t)' = DevicesOf(t)
  BY <1>2, OneSession
<1>4. \A t \in Clients : /\ session'[t].device_list = session[t].device_list
                         /\ \A d \in DevicesOf(t) : device'[d] = device[d]
  BY <1>1, <1>2, <1>3
<1>5. \A t \in Clients : Shown(t)' = Shown(t) /\ DevicesOf(t)' = DevicesOf(t)
  BY <1>4, ShownStays
<1>6. UNCHANGED <<ShownDevices, ShownOwners, ShownWritable>>
  <2>1. UNCHANGED ShownDevices
    BY <1>5 DEF ShownDevices
  <2>2. UNCHANGED ShownOwners
    BY <1>5, OwnersStay
  <2>3. UNCHANGED ShownWritable
    <3>1. \A t \in Clients : \/ session'[t] = session[t]
                             \/ session'[t].status # "INITIALIZED" /\ session[t].status # "INITIALIZED"
      BY <1>1, <1>2, <1>3
    <3> QED
      BY <3>1 DEF ShownWritable
  <2> QED
    BY <2>1, <2>2, <2>3
<1>7. LiveSessions # {} /\ LiveSessions' # {}
  <2>1. ~call.freeing
    BY DEF Entry, SessionInv, DriverInv, CallLocals
  <2>2. LiveSessions # {}
    BY <2>1, FS_EmptySet DEF SessionInv, DriverInv, Counted
  <2>3. s \in LiveSessions'
    BY <1>2, <1>3 DEF LiveSessions, LiveSession
  <2> QED
    BY <2>2, <2>3
<1>8. ~Promise!Alone(s) /\ UNCHANGED ShownListing
  <2>1. Promise!Alone(s) <=> LiveSessions \subseteq {s}
    BY AloneIsLast DEF SessionInv, DriverInv
  <2>2. UNCHANGED ShownListing
    BY <1>7 DEF ShownListing
  <2> QED
    BY <1>7, <2>1, <2>2
<1>9. ShownPhases[s] = "absent" /\ PhaseOf(NewSession.status) = "allocated"
  BY <1>1, <1>2 DEF ShownPhases, PhaseOf
<1> QED
  BY <1>3, <1>6, <1>8, <1>9 DEF Promise!Allocate

\* The first session, when the configuration is read.
LEMMA LoadStep ==
  ASSUME PromiseInv, SessionInv', load_end
  PROVE  \E s \in Clients : Promise!Allocate(s)
<1> USE DEF PromiseInv
<1>1. PICK s \in Clients : s = call.session
  BY DEF load_end, SessionInv, DriverInv, CallLocals
<1>2. LiveSessions = {}
  BY SessionsAreFinite DEF load_end, SessionInv, DriverInv, Counted, CallLocals
<1>3. /\ session' = [session EXCEPT ![s] = NewSession]
      /\ configured_devices' = call.configured /\ UNCHANGED <<device, job>>
  BY <1>1 DEF load_end
<1>4. /\ session[s].status = "FREE" /\ session[s].device_list = <<>>
      /\ NewSession.status = "ALLOCATED" /\ NewSession.device_list = <<>>
  BY <1>2 DEF LiveSessions, LiveSession, SessionInv, SessionsComplete, NewSession, NoSession
<1>5. /\ ShownPhases' = [ShownPhases EXCEPT ![s] = PhaseOf(NewSession.status)]
      /\ session'[s] = NewSession
      /\ \A t \in Clients \ {s} : session'[t] = session[t] /\ DevicesOf(t)' = DevicesOf(t)
  BY <1>3, <1>4, OneSession
<1>6. UNCHANGED <<ShownDevices, ShownOwners, ShownWritable>>
  <2>1. \A t \in Clients : /\ session'[t].device_list = session[t].device_list
                           /\ \A d \in DevicesOf(t) : device'[d] = device[d]
    BY <1>3, <1>4, <1>5
  <2>2. \A t \in Clients : Shown(t)' = Shown(t) /\ DevicesOf(t)' = DevicesOf(t)
    BY <2>1, ShownStays
  <2>3. UNCHANGED ShownDevices
    BY <2>2 DEF ShownDevices
  <2>4. UNCHANGED ShownOwners
    BY <1>3, <2>2, OwnersStay
  <2>5. UNCHANGED ShownWritable
    <3>1. \A t \in Clients : \/ session'[t] = session[t]
                             \/ session'[t].status # "INITIALIZED" /\ session[t].status # "INITIALIZED"
      BY <1>4, <1>5
    <3> QED
      BY <3>1 DEF ShownWritable
  <2> QED
    BY <2>3, <2>4, <2>5
<1>7. ShownListing' = call.configured
  <2>1. s \in LiveSessions'
    BY <1>4, <1>5 DEF LiveSessions, LiveSession
  <2> QED
    BY <1>3, <2>1 DEF ShownListing
<1>8. call.configured \in Listings
  <2>1. PICK config \in Configs : \E n \in 0..Len(config) : ReadSoFar(config, n)
    BY DEF load_end, LoadingConfig
  <2>2. PICK n \in 0..Len(config) : ReadSoFar(config, n)
    BY <2>1
  <2>3. n = Len(config)
    <3>1. Len(config) \in Nat
      BY DriverAssumption, LenProperties
    <3> QED
      BY <2>2, <3>1, EmptyList DEF load_end, ReadSoFar
  <2>4. call.configured \in Seq(Configured_Device) /\ Distinct(call.configured)
    BY DEF load_end, SessionInv, DistinctConfigured, DriverInv, TypeOK, Call
  <2> QED
    BY <2>2, <2>3, <2>4, ReadIsListing DEF ReadSoFar
<1>9. /\ Promise!Alone(s) /\ ShownPhases[s] = "absent" /\ PhaseOf(NewSession.status) = "allocated"
  <2>1. Promise!Alone(s)
    BY <1>2, AloneIsLast DEF SessionInv, DriverInv
  <2> QED
    BY <1>4, <2>1 DEF ShownPhases, PhaseOf
<1>10. Promise!Allocate(s)
  BY <1>5, <1>6, <1>7, <1>8, <1>9 DEF Promise!Allocate
<1> QED
  BY <1>10

\* The devices are all open.
LEMMA OpenStep ==
  ASSUME PromiseInv, SessionInv', open_end
  PROVE  \E s \in Clients : Promise!Open(s)
<1> USE DEF PromiseInv
<1>1. PICK s \in Clients : s = call.session
  BY DEF open_end, SessionInv, DriverInv, CallLocals
<1> DEFINE b == [session[s] EXCEPT !.device_list = call.devices, !.status = "INITIALIZED"]
<1>2. /\ session[s].status = "ALLOCATED" /\ session[s].device_list = <<>>
      /\ UNCHANGED <<configured_devices, device, job>>
  BY <1>1 DEF open_end, driverState, SessionInv, DriverInv, CallLocals, SessionsComplete
<1>3. /\ session' = [session EXCEPT ![s] = b]
      /\ b.status = "INITIALIZED" /\ b.device_list = call.devices
  BY <1>1 DEF open_end, SessionInv, DriverInv, TypeOK, Session_impl
<1> HIDE DEF b
<1>4. /\ ShownPhases' = [ShownPhases EXCEPT ![s] = PhaseOf(b.status)]
      /\ ShownWritable' =
           [ShownWritable EXCEPT ![s] = b.status = "INITIALIZED" /\ b.mode = "READWRITE"]
      /\ ShownDevices' = [ShownDevices EXCEPT ![s] = Shown(s)']
      /\ session'[s] = b
      /\ \A t \in Clients \ {s} : session'[t] = session[t] /\ DevicesOf(t)' = DevicesOf(t)
  BY <1>2, <1>3, OneSession
<1>5. Shown(s)' = configured_devices
  <2>1. /\ configured_devices \in Seq(Configured_Device)
        /\ Len(call.devices) = Len(configured_devices)
        /\ \A i \in 1..Len(call.devices) : device[call.devices[i]] = Opened(i)
    <3>1. /\ Len(configured_devices) = Len(call.devices) + Len(call.configured)
          /\ \A i \in 1..Len(call.devices) : device[call.devices[i]] = Opened(i)
      BY DEF open_end, SessionInv, OpeningLocals, Opening
    <3>2. Len(call.devices) \in Nat /\ configured_devices \in Seq(Configured_Device)
      BY ListTypes, LenProperties DEF SessionInv, DriverInv
    <3>3. Len(call.configured) = 0
      BY EmptyList DEF open_end
    <3> QED
      BY <3>1, <3>2, <3>3
  <2>2. Shown(s)' = [i \in 1..Len(call.devices) |-> [library |-> device[call.devices[i]].library,
                                                     id |-> device[call.devices[i]].id]]
    BY <1>2, <1>3, <1>4 DEF Shown
  <2>3. ASSUME NEW i \in 1..Len(call.devices)
        PROVE  [library |-> device[call.devices[i]].library,
                id |-> device[call.devices[i]].id] = configured_devices[i]
    <3>1. configured_devices[i] \in Configured_Device
      BY <2>1, ElementOfSeq
    <3>2. device[call.devices[i]] = Opened(i)
      BY <2>1
    <3>3. /\ Opened(i).library = configured_devices[i].library
          /\ Opened(i).id = configured_devices[i].id
      BY DEF Opened
    <3> QED
      BY <3>1, <3>2, <3>3 DEF Configured_Device
  <2>4. Shown(s)' = [i \in 1..Len(configured_devices) |-> configured_devices[i]]
    BY <2>1, <2>2, <2>3
  <2> QED
    BY <2>1, <2>4, LenProperties
<1>6. UNCHANGED ShownOwners
  <2>1. DevicesOf(s) = {}
    BY <1>2, EmptyList DEF DevicesOf
  <2>2. \A t \in Clients : \A j \in Jobs : job[j] \in DevicesOf(t) => job[j] \in DevicesOf(t)'
    BY <1>4, <2>1
  <2> QED
    BY <1>2, <2>2, OwnersStay
<1>7. ShownListing = configured_devices /\ UNCHANGED ShownListing
  <2>1. s \in LiveSessions /\ s \in LiveSessions'
    BY <1>2, <1>3, <1>4 DEF LiveSessions, LiveSession
  <2> QED
    BY <1>2, <2>1 DEF ShownListing
<1>8. ShownPhases[s] = "allocated" /\ PhaseOf(b.status) = "open"
  BY <1>2, <1>3 DEF ShownPhases, PhaseOf
<1>9. Promise!Open(s)
  BY <1>4, <1>5, <1>6, <1>7, <1>8 DEF Promise!Open
<1> QED
  BY <1>9

\* A session is freed; the last one drops the listing.
LEMMA ReleaseStep ==
  ASSUME PromiseInv, SessionInv', NEW s \in Clients, session_free(s)
  PROVE  Promise!Release(s)
<1> USE DEF PromiseInv
<1>1. /\ session[s].status # "FREE"
      /\ \A j \in Jobs : job[j] \notin DevicesOf(s)
      /\ session' = [session EXCEPT ![s] = NoSession]
      /\ UNCHANGED <<configured_devices, device, job>>
      /\ NoSession.status = "FREE" /\ NoSession.device_list = <<>>
  BY DEF session_free, LiveSession, DevicesOf, driverState, NoSession
<1>2. /\ ShownPhases' = [ShownPhases EXCEPT ![s] = PhaseOf(NoSession.status)]
      /\ ShownWritable' = [ShownWritable EXCEPT ![s] =
                             NoSession.status = "INITIALIZED" /\ NoSession.mode = "READWRITE"]
      /\ ShownDevices' = [ShownDevices EXCEPT ![s] = Shown(s)']
      /\ session'[s] = NoSession
      /\ \A t \in Clients \ {s} : session'[t] = session[t] /\ DevicesOf(t)' = DevicesOf(t)
  BY <1>1, OneSession
<1>3. ShownWritable' = [ShownWritable EXCEPT ![s] = FALSE]
  <2>1. (NoSession.status = "INITIALIZED" /\ NoSession.mode = "READWRITE") = FALSE
    BY <1>1
  <2> QED
    BY <1>2, <2>1
<1>4. Shown(s)' = <<>>
  BY <1>1, <1>2, ShowsNothing DEF Shown
<1>5. UNCHANGED ShownOwners
  <2>1. \A t \in Clients : \A j \in Jobs : job[j] \in DevicesOf(t) => job[j] \in DevicesOf(t)'
    BY <1>1, <1>2
  <2> QED
    BY <1>1, <2>1, OwnersStay
<1>6. \A j \in Jobs : ShownOwners[j] # s
  <2>1. ASSUME NEW j \in Jobs, job[j] = NULL
        PROVE  ShownOwners[j] # s
    BY <2>1, DriverAssumption DEF ShownOwners
  <2>2. ASSUME NEW j \in Jobs, job[j] # NULL
        PROVE  ShownOwners[j] # s
    BY <1>1, <2>2, JobsHaveOwners
  <2> QED
    BY <2>1, <2>2
<1>7. ShownListing' = IF Promise!Alone(s) THEN <<>> ELSE ShownListing
  <2>1. s \in LiveSessions /\ LiveSessions' = LiveSessions \ {s}
    BY <1>1, <1>2 DEF LiveSessions, LiveSession
  <2>2. Promise!Alone(s) <=> LiveSessions' = {}
    BY <2>1, AloneIsLast DEF SessionInv, DriverInv
  <2>3. LiveSessions # {}
    BY <2>1
  <2> QED
    BY <1>1, <2>2, <2>3 DEF ShownListing
<1>8. ShownPhases[s] # "absent" /\ PhaseOf(NoSession.status) = "absent"
  <2>1. ShownPhases[s] # "absent"
    BY <1>1, Phases DEF SessionInv, DriverInv
  <2> QED
    BY <1>1, <2>1 DEF PhaseOf
<1> QED
  BY <1>2, <1>3, <1>4, <1>5, <1>6, <1>7, <1>8 DEF Promise!Release

\* Jobs that are created and freed.
LEMMA JobStep ==
  ASSUME PromiseInv, SessionInv',
         \/ \E s \in Clients : \E i \in 1..Len(session[s].device_list) :
              device_create_job(s, i) \/ session_retrieve_job_by_id(s, i)
         \/ \E j \in Jobs : job_free(j)
  PROVE  Promise!Next \/ UNCHANGED Promise!promiseVars
<1> USE DEF PromiseInv
<1>1. ASSUME NEW code, Returns(code)
      PROVE  UNCHANGED Promise!promiseVars
  BY <1>1, ReturnsHidden DEF Returns, driverState
<1>2. ASSUME NEW j \in Jobs, NEW d, job' = [job EXCEPT ![j] = d],
             UNCHANGED <<configured_devices, device, session>>
      PROVE  /\ UNCHANGED <<ShownListing, ShownPhases, ShownDevices, ShownWritable>>
             /\ \A s \in Clients : DevicesOf(s)' = DevicesOf(s)
             /\ job'[j] = d
             /\ \A k \in Jobs \ {j} : job'[k] = job[k] /\ ShownOwners'[k] = ShownOwners[k]
  <2>1. \A s \in Clients : DevicesOf(s)' = DevicesOf(s) /\ Shown(s)' = Shown(s)
    BY <1>2 DEF DevicesOf, Shown
  <2>2. UNCHANGED <<ShownListing, ShownPhases, ShownDevices, ShownWritable>>
    BY <1>2, <2>1 DEF ShownListing, LiveSessions, LiveSession, ShownPhases, ShownDevices,
       ShownWritable
  <2>3. job'[j] = d /\ \A k \in Jobs \ {j} : job'[k] = job[k]
    BY <1>2 DEF SessionInv, DriverInv, TypeOK
  <2>4. ASSUME NEW k \in Jobs \ {j}
        PROVE  ShownOwners'[k] = ShownOwners[k]
    <3>1. CASE job[k] = NULL
      BY <2>3, <3>1 DEF ShownOwners
    <3>2. CASE job[k] # NULL
      <4>1. PICK s \in Clients : job[k] \in DevicesOf(s) /\ ShownOwners[k] = s
        BY <3>2, JobsHaveOwners
      <4> QED
        BY <2>1, <2>3, <3>2, <4>1, OwnerAfter
    <3> QED
      BY <3>1, <3>2
  <2> QED
    BY <2>1, <2>2, <2>3, <2>4
<1>3. ASSUME NEW s \in Clients, NEW i \in 1..Len(session[s].device_list), NEW j \in Jobs,
             session[s].status = "INITIALIZED", session[s].mode = "READWRITE",
             job[j] = NULL, job' = [job EXCEPT ![j] = session[s].device_list[i]],
             UNCHANGED <<configured_devices, device, session>>
      PROVE  Promise!CreateJob(s, j)
  <2> DEFINE d == session[s].device_list[i]
  <2>1. d \in Devices /\ d \in DevicesOf(s) /\ d # NULL
    <3>1. d \in DevicesOf(s)
      BY DEF DevicesOf, DeviceSet
    <3> QED
      BY <3>1, ListTypes, DriverAssumption DEF SessionInv, DriverInv
  <2>2. /\ UNCHANGED <<ShownListing, ShownPhases, ShownDevices, ShownWritable>>
        /\ DevicesOf(s)' = DevicesOf(s)
        /\ job'[j] = d
        /\ \A k \in Jobs \ {j} : ShownOwners'[k] = ShownOwners[k]
    BY <1>2, <1>3
  <2> HIDE DEF d
  <2>3. ShownOwners'[j] = s
    BY <2>1, <2>2, OwnerAfter
  <2>4. ShownOwners' = [ShownOwners EXCEPT ![j] = s]
    BY <2>2, <2>3 DEF ShownOwners
  <2>5. ShownPhases[s] = "open" /\ ShownWritable[s] /\ ShownOwners[j] = NULL
    BY <1>3, Phases DEF ShownWritable, ShownOwners, SessionInv, DriverInv
  <2>6. ShownDevices[s] # <<>>
    <3>1. Len(session[s].device_list) \in Nat
      BY ListTypes, LenProperties DEF SessionInv, DriverInv
    <3>2. DOMAIN Shown(s) = 1..Len(session[s].device_list)
      BY DEF Shown
    <3>3. i \in DOMAIN Shown(s)
      BY <1>3, <3>2
    <3>4. DOMAIN <<>> = {}
      BY EmptySeq, LenProperties, EmptyList
    <3> QED
      BY <3>3, <3>4 DEF ShownDevices
  <2> QED
    BY <2>2, <2>4, <2>5, <2>6 DEF Promise!CreateJob
<1>4. ASSUME NEW j \in Jobs, job_free(j)
      PROVE  Promise!FreeJob(j)
  <2>1. /\ job[j] # NULL /\ job' = [job EXCEPT ![j] = NULL]
        /\ UNCHANGED <<configured_devices, device, session>>
    BY <1>4 DEF job_free, driverState
  <2>2. /\ UNCHANGED <<ShownListing, ShownPhases, ShownDevices, ShownWritable>>
        /\ job'[j] = NULL
        /\ \A k \in Jobs \ {j} : ShownOwners'[k] = ShownOwners[k]
    BY <1>2, <2>1
  <2>3. ShownOwners' = [ShownOwners EXCEPT ![j] = NULL]
    BY <2>2 DEF ShownOwners
  <2>4. ShownOwners[j] # NULL
    BY <2>1, JobsHaveOwners, DriverAssumption
  <2> QED
    BY <2>2, <2>3, <2>4 DEF Promise!FreeJob
<1>5. ASSUME NEW s \in Clients, NEW i \in 1..Len(session[s].device_list),
             device_create_job(s, i) \/ session_retrieve_job_by_id(s, i)
      PROVE  Promise!Next \/ UNCHANGED Promise!promiseVars
  <2>1. ASSUME NEW j \in Jobs, session[s].status = "INITIALIZED",
               session[s].mode = "READWRITE", job[j] = NULL,
               job' = [job EXCEPT ![j] = session[s].device_list[i]],
               UNCHANGED <<external, driverState, device, session, call>>
        PROVE  Promise!Next
    <3>1. Promise!CreateJob(s, j)
      BY <1>3, <2>1 DEF driverState
    <3> QED
      BY <3>1 DEF Promise!Next
  <2> QED
    BY <1>1, <1>5, <2>1 DEF device_create_job, session_retrieve_job_by_id
<1> QED
  BY <1>4, <1>5 DEF Promise!Next

-----------------------------------------------------------------------------
(* The theorem *)

\* Every step of the driver is a step of the promise, or hidden.
LEMMA StepKeepsPromise ==
  ASSUME PromiseInv, SessionInv', [Next]_vars
  PROVE  [Promise!Next]_(Promise!promiseVars)
<1> USE DEF PromiseInv
<1>1. ASSUME UNCHANGED <<configured_devices, objects>>
      PROVE  UNCHANGED Promise!promiseVars
  BY <1>1, ReturnsHidden
<1>2. ASSUME NEW code, Returns(code)
      PROVE  UNCHANGED Promise!promiseVars
  BY <1>1, <1>2 DEF Returns, driverState
<1>3. CASE session_alloc
  <2>1. CASE \E s \in Clients \ LiveSessions : /\ session' = [session EXCEPT ![s] = NewSession]
                                               /\ sessions > 0
                                               /\ UNCHANGED <<configured_devices, device, job, call>>
    <3>1. \E s \in Clients : Promise!Allocate(s)
      BY <1>3, <2>1, AllocateStep DEF session_alloc
    <3> QED
      BY <3>1 DEF Promise!Next
  <2> QED
    BY <1>1, <1>2, <1>3, <2>1 DEF session_alloc, driverState
<1>4. CASE load_line \/ unload_library \/ unload_end
  BY <1>1, <1>4 DEF load_line, unload_library, unload_end, driverState
<1>5. CASE load_end
  BY <1>5, LoadStep DEF Promise!Next
<1>6. CASE open_device \/ open_set_token \/ open_init \/ close_device
  BY <1>6, DeviceStepsHidden
<1>7. CASE open_end
  BY <1>7, OpenStep DEF Promise!Next
<1>8. CASE close_end
  BY <1>8, CloseEndHidden
<1>9. ASSUME NEW s \in Clients, SessionCall(s)
      PROVE  Promise!Next \/ UNCHANGED Promise!promiseVars
  <2>1. CASE session_free(s)
    BY <2>1, ReleaseStep DEF Promise!Next
  <2>2. CASE session_set_parameter(s) \/ session_init(s)
    BY <2>2, SetUpHidden
  <2>3. CASE session_query_session_property(s) \/ device_query_property(s)
    BY <1>2, <2>3 DEF session_query_session_property, device_query_property
  <2> QED
    BY <1>9, <2>1, <2>2, <2>3, JobStep DEF SessionCall
<1>10. ASSUME NEW j \in Jobs, job_free(j) \/ job_forward(j)
       PROVE  Promise!Next \/ UNCHANGED Promise!promiseVars
  BY <1>2, <1>10, JobStep DEF job_forward
<1>11. CASE UNCHANGED vars \/ InvalidArguments
  BY <1>1, <1>2, <1>11 DEF vars, driverState, InvalidArguments
<1> QED
  BY <1>3, <1>4, <1>5, <1>6, <1>7, <1>8, <1>9, <1>10, <1>11 DEF Next, Continue

\* What has been read of a configuration belongs to it, and the driver's
\* objects are as SessionInv says.
THEOREM PromiseInvariant == Spec => []PromiseInv
<1>1. Init => LoadingConfig
  BY IdleType DEF Init, LoadingConfig
<1>2. PromiseInv /\ [Next]_vars => PromiseInv'
  BY StepKeepsSessionInv, StepKeepsLoading DEF PromiseInv
<1>3. Init /\ SessionInv => PromiseInv
  BY <1>1 DEF PromiseInv
<1> QED
  BY <1>2, <1>3, SessionInvariant, PTL DEF Spec

\* The driver implements what the client interface promises (client.h), for any
\* clients, devices, libraries and configurations and whichever device calls
\* fail: a client's call shows it the whole effect or none.
THEOREM DriverKeepsPromise == Spec => KeepsPromise
<1>1. Init /\ PromiseInv => Promise!Init
  <2> SUFFICES ASSUME Init, PromiseInv PROVE Promise!Init
    OBVIOUS
  <2>1. \A s \in Clients : session[s].status = "FREE" /\ session[s].device_list = <<>>
    BY DEF Init, NoSession
  <2>2. ShownPhases = [s \in Clients |-> "absent"]
    <3>1. PhaseOf("FREE") = "absent"
      BY DEF PhaseOf
    <3> QED
      BY <2>1, <3>1 DEF ShownPhases
  <2>3. ShownDevices = [s \in Clients |-> <<>>]
    <3>1. \A s \in Clients : Shown(s) = <<>>
      BY <2>1, ShowsNothing DEF Shown
    <3> QED
      BY <3>1 DEF ShownDevices
  <2>4. ShownWritable = [s \in Clients |-> FALSE]
    BY <2>1 DEF ShownWritable
  <2>5. ShownOwners = [j \in Jobs |-> NULL]
    BY DEF Init, ShownOwners
  <2>6. ShownListing = <<>>
    BY <2>1 DEF ShownListing, LiveSessions, LiveSession
  <2> QED
    BY <2>2, <2>3, <2>4, <2>5, <2>6 DEF Promise!Init
<1>2. PromiseInv /\ PromiseInv' /\ [Next]_vars => [Promise!Next]_(Promise!promiseVars)
  BY StepKeepsPromise DEF PromiseInv
<1> QED
  BY <1>1, <1>2, PromiseInvariant, PTL DEF Spec, KeepsPromise, Promise!Spec
=============================================================================
