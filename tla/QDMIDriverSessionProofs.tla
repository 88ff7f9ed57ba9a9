------------------------ MODULE QDMIDriverSessionProofs ------------------------
(***************************************************************************)
(* Proofs about the device sessions the driver opens: who owns them, what  *)
(* a client session shows and which sessions have jobs.  They build on the *)
(* accounts of libraries in QDMIDriverProofs.                              *)
(***************************************************************************)
EXTENDS QDMIDriverProofs

-----------------------------------------------------------------------------
(* The inductive invariant: devices *)

Opening == {"open", "set_token", "init"}

\* The devices of a session, and those the locals of the call hold.
DevicesOf(s) == DeviceSet(session[s].device_list)
Held == DeviceSet(call.devices) \cup call.closing

\* No device is in two lists, and exactly the open devices are in one.
OneOwner ==
  /\ \A s, t \in Clients : \A d \in DevicesOf(s) : d \in DevicesOf(t) => s = t
  /\ \A s \in Clients : \A d \in DevicesOf(s) : d \notin Held
  /\ \A d \in DeviceSet(call.devices) : d \notin call.closing
  /\ \A d \in Devices :
       device[d].status # "FREE" <=> d \in Held \/ \E s \in Clients : d \in DevicesOf(s)

\* An open device is of a library of the driver state.
DevicesLoaded ==
  \A d \in Devices : device[d].status # "FREE" => device[d].library \in libraries

\* The i-th device of a list that is opened.
Opened(i) == [status  |-> "INITIALIZED",
              library |-> configured_devices[i].library,
              id      |-> configured_devices[i].id]

\* What the call that opens devices has done, has in its hands and has still to do.
OpeningLocals ==
  /\ call.at \notin Opening => call.devices = <<>>
  /\ call.at \notin {"set_token", "init", "close"} => call.closing = {}
  /\ call.at \in {"set_token", "init"} =>
       \E d \in Devices :
         /\ call.closing = {d}
         /\ device[d] = [status  |-> "ALLOCATED",
                         library |-> Head(call.configured).library,
                         id      |-> Head(call.configured).id]
  /\ call.at \in Opening =>
       /\ Len(configured_devices) = Len(call.devices) + Len(call.configured)
       /\ \A i \in 1..Len(call.configured) :
            call.configured[i] = configured_devices[Len(call.devices) + i]
       /\ \A i \in 1..Len(call.devices) : device[call.devices[i]] = Opened(i)

Distinct(list) == \A i, k \in 1..Len(list) : list[i].id = list[k].id => i = k

DistinctConfigured ==
  /\ Distinct(configured_devices)
  /\ call.at = "load" => Distinct(call.configured)

\* A session that writes has a token that is not empty.
TokenWrites(s) == session[s].mode = "READWRITE" => session[s].token = "set"

WritableSessions ==
  /\ \A s \in Clients : session[s].status = "INITIALIZED" => TokenWrites(s)
  /\ call.at \in Opening => TokenWrites(call.session)

SessionInv ==
  /\ DriverInv
  /\ OneOwner
  /\ DevicesLoaded
  /\ OpeningLocals
  /\ SessionsComplete
  /\ DistinctConfigured
  /\ WritableSessions
  /\ JobsOnWritableSessions

-----------------------------------------------------------------------------
(* Lemmas about the invariant *)

\* The lists of a session and of the call hold devices.
LEMMA ListTypes ==
  ASSUME TypeOK
  PROVE  /\ \A s \in Clients : /\ session[s].device_list \in Seq(Devices)
                               /\ DevicesOf(s) \subseteq Devices
         /\ call.devices \in Seq(Devices)
         /\ DeviceSet(call.devices) \subseteq Devices
         /\ call.closing \subseteq Devices
         /\ configured_devices \in Seq(Configured_Device)
         /\ call.configured \in Seq(Configured_Device)
BY ListsHoldDevices DEF TypeOK, Call, Session_impl, DevicesOf

\* The empty list holds nothing.
LEMMA EmptyList == DeviceSet(<<>>) = {} /\ Len(<<>>) = 0
BY DEF DeviceSet

\* Appending a device to a list adds it at the end.
LEMMA OneMoreDevice ==
  ASSUME NEW list \in Seq(Devices), NEW d \in Devices
  PROVE  LET more == Append(list, d)
         IN  /\ more \in Seq(Devices)
             /\ Len(more) = Len(list) + 1
             /\ \A i \in 1..Len(list) : more[i] = list[i]
             /\ more[Len(list) + 1] = d
             /\ DeviceSet(more) = DeviceSet(list) \cup {d}
<1> DEFINE more == Append(list, d)
<1>1. /\ more \in Seq(Devices)
      /\ Len(more) = Len(list) + 1
      /\ \A i \in 1..Len(list) : more[i] = list[i]
      /\ more[Len(list) + 1] = d
      /\ Len(list) \in Nat
  BY AppendProperties, LenProperties
<1> HIDE DEF more
<1>2. DeviceSet(more) \subseteq DeviceSet(list) \cup {d}
  BY <1>1 DEF DeviceSet
<1>3. DeviceSet(list) \cup {d} \subseteq DeviceSet(more)
  <2>1. ASSUME NEW i \in 1..Len(list)
        PROVE  list[i] \in DeviceSet(more)
    <3>1. i \in 1..Len(more) /\ more[i] = list[i]
      BY <1>1
    <3> QED
      BY <3>1 DEF DeviceSet
  <2>2. d \in DeviceSet(more)
    <3>1. Len(list) + 1 \in 1..Len(more)
      BY <1>1
    <3> QED
      BY <1>1, <3>1 DEF DeviceSet
  <2> QED
    BY <2>1, <2>2 DEF DeviceSet
<1> QED
  BY <1>1, <1>2, <1>3 DEF more

\* The head of what is left to open is the next configured device.
LEMMA NextConfigured ==
  ASSUME NEW all \in Seq(Configured_Device), NEW rest \in Seq(Configured_Device), NEW n \in Nat,
         rest # <<>>, Len(all) = n + Len(rest),
         \A i \in 1..Len(rest) : rest[i] = all[n + i]
  PROVE  /\ Head(rest) = all[n + 1]
         /\ n + 1 \in 1..Len(all)
         /\ Len(all) = (n + 1) + Len(Tail(rest))
         /\ \A i \in 1..Len(Tail(rest)) : Tail(rest)[i] = all[(n + 1) + i]
<1>1. Len(rest) \in Nat /\ Len(rest) > 0
  BY LenProperties, EmptySeq
<1>2. /\ Len(Tail(rest)) = Len(rest) - 1
      /\ \A i \in 1..Len(Tail(rest)) : Tail(rest)[i] = rest[i + 1]
  BY HeadTailProperties
<1>3. Head(rest) = rest[1]
  OBVIOUS
<1>4. ASSUME NEW i \in 1..Len(Tail(rest))
      PROVE  Tail(rest)[i] = all[(n + 1) + i]
  <2>1. i + 1 \in 1..Len(rest) /\ n + (i + 1) = (n + 1) + i
    BY <1>1, <1>2
  <2>2. rest[i + 1] = all[n + (i + 1)]
    BY <2>1
  <2> QED
    BY <1>2, <2>1, <2>2
<1> QED
  BY <1>1, <1>2, <1>3, <1>4

\* Without sessions, and with nothing in the locals, no device is open.
LEMMA NoSessionsNoDevices ==
  ASSUME SessionInv, LiveSessions = {}, Held = {}
  PROVE  \A d \in Devices : device[d].status = "FREE"
<1>1. \A s \in Clients : session[s].device_list = <<>>
  BY DEF SessionInv, SessionsComplete, LiveSessions, LiveSession
<1> QED
  BY <1>1, EmptyList DEF SessionInv, OneOwner, DevicesOf

\* A step that leaves the sessions, their devices and the configuration alone
\* leaves them complete.
LEMMA CompleteFrame ==
  ASSUME SessionsComplete, UNCHANGED <<session, configured_devices>>,
         \A s \in Clients : \A d \in DevicesOf(s) : device'[d] = device[d]
  PROVE  SessionsComplete'
<1>1. \A s \in Clients : \A i \in 1..Len(session[s].device_list) :
        device'[session[s].device_list[i]] = device[session[s].device_list[i]]
  BY DEF DevicesOf, DeviceSet
<1> QED
  BY <1>1 DEF SessionsComplete

\* So does a step that leaves the open devices alone and changes the session s,
\* which is not initialized, to one that is not and whose list is empty.
LEMMA SessionChange ==
  ASSUME SessionInv, UNCHANGED <<device, configured_devices>>,
         NEW s \in Clients, NEW b, session' = [session EXCEPT ![s] = b],
         session[s].status # "INITIALIZED", b.status # "INITIALIZED", b.device_list = <<>>
  PROVE  /\ SessionsComplete'
         /\ \A t \in Clients : DevicesOf(t)' = DevicesOf(t)
         /\ \A t \in Clients : session[t].status = "INITIALIZED" => session'[t] = session[t]
         /\ session'[s] = b
<1>1. session[s].device_list = <<>>
  BY DEF SessionInv, SessionsComplete
<1>2. \A t \in Clients : session'[t] = IF t = s THEN b ELSE session[t]
  BY DEF SessionInv, DriverInv, TypeOK
<1>3. SessionsComplete'
  BY <1>2 DEF SessionInv, SessionsComplete
<1> QED
  BY <1>1, <1>2, <1>3 DEF DevicesOf

\* Steps of calls that hold no devices, and that leave sessions, devices and
\* jobs alone.
LEMMA QuietStep ==
  ASSUME SessionInv, DriverInv', UNCHANGED <<libraries, configured_devices, objects>>,
         call.at \notin Opening \cup {"close"} \/ Held = {},
         call'.at \notin Opening, call'.devices = <<>>, call'.closing = {},
         call'.at = "load" => Distinct(call'.configured)
  PROVE  SessionInv'
<1> USE DEF SessionInv, objects
<1>1. Held = {} /\ Held' = {}
  BY EmptyList DEF Held, OpeningLocals, Opening
<1>2. OneOwner'
  <2>1. \A s \in Clients : DevicesOf(s)' = DevicesOf(s)
    BY DEF DevicesOf
  <2> QED
    BY <1>1, <2>1, EmptyList DEF OneOwner
<1>3. DevicesLoaded' /\ OpeningLocals'
  BY DEF DevicesLoaded, OpeningLocals, Opening
<1>4. SessionsComplete'
  BY CompleteFrame
<1>5. DistinctConfigured'
  BY DEF DistinctConfigured, Distinct
<1>6. WritableSessions' /\ JobsOnWritableSessions'
  BY DEF WritableSessions, TokenWrites, JobsOnWritableSessions
<1> QED
  BY <1>2, <1>3, <1>4, <1>5, <1>6

\* A step that changes none of the objects.
LEMMA UnchangedKeepsSessionInv ==
  ASSUME SessionInv, DriverInv', UNCHANGED <<driverState, objects, call>>
  PROVE  SessionInv'
<1> USE DEF SessionInv, objects, driverState
<1>1. OneOwner' /\ DevicesLoaded' /\ OpeningLocals'
  BY DEF OneOwner, DevicesOf, Held, DevicesLoaded, OpeningLocals, Opened
<1>2. SessionsComplete'
  BY CompleteFrame
<1>3. DistinctConfigured' /\ WritableSessions' /\ JobsOnWritableSessions'
  BY DEF DistinctConfigured, Distinct, WritableSessions, TokenWrites, JobsOnWritableSessions
<1> QED
  BY <1>1, <1>2, <1>3

\* A call that only returns a code.
LEMMA ReturnsKeepsSessionInv ==
  ASSUME SessionInv, NEW code, Returns(code)
  PROVE  SessionInv'
BY ReturnsKeepsInv, UnchangedKeepsSessionInv DEF SessionInv, Returns

-----------------------------------------------------------------------------
(* Loading and unloading *)

\* A session that is allocated holds no device.
LEMMA AllocKeepsSessionInv ==
  ASSUME SessionInv, DriverInv', session_alloc
  PROVE  SessionInv'
<1> USE DEF SessionInv
<1>1. ASSUME NEW code, Returns(code)
      PROVE  SessionInv'
  BY <1>1, ReturnsKeepsSessionInv
<1>2. call.at = "idle"
  BY DEF session_alloc, Entry
<1>3. ASSUME NEW s \in Clients, NEW config \in Configs,
             call' = [Idle EXCEPT !.at = "load", !.session = s, !.lines = config],
             UNCHANGED <<external, driverState, objects, ret>>
      PROVE  SessionInv'
  <2>1. /\ call'.at = "load" /\ call'.devices = <<>> /\ call'.closing = {}
        /\ call'.configured = <<>>
    BY <1>3, IdleType
  <2>2. Distinct(call'.configured)
    BY <2>1 DEF Distinct
  <2> QED
    BY <1>2, <1>3, <2>1, <2>2, QuietStep DEF driverState, Opening
<1>4. ASSUME NEW s \in Clients \ LiveSessions,
             session' = [session EXCEPT ![s] = NewSession],
             UNCHANGED <<external, libraries, configured_devices, device, job, call>>
      PROVE  SessionInv'
  <2>1. /\ session[s].status # "INITIALIZED"
        /\ NewSession.status # "INITIALIZED" /\ NewSession.device_list = <<>>
    BY DEF LiveSessions, LiveSession, NewSession, NoSession
  <2>2. /\ SessionsComplete'
        /\ \A t \in Clients : DevicesOf(t)' = DevicesOf(t)
        /\ \A t \in Clients : session[t].status = "INITIALIZED" => session'[t] = session[t]
        /\ session'[s] = NewSession
    BY <1>4, <2>1, SessionChange
  <2>3. OneOwner'
    BY <1>4, <2>2 DEF OneOwner, Held
  <2>4. DevicesLoaded' /\ OpeningLocals' /\ DistinctConfigured'
    BY <1>2, <1>4 DEF DevicesLoaded, OpeningLocals, Opening, DistinctConfigured, Distinct
  <2>5. WritableSessions'
    <3>1. \A t \in Clients : session'[t].status = "INITIALIZED" => session'[t] = session[t]
      BY <1>4, <2>1, <2>2 DEF DriverInv, TypeOK
    <3> QED
      BY <1>2, <1>4, <3>1 DEF WritableSessions, TokenWrites, Opening
  <2>6. JobsOnWritableSessions'
    BY <1>4, <2>2 DEF JobsOnWritableSessions
  <2> QED
    BY <2>2, <2>3, <2>4, <2>5, <2>6
<1> QED
  BY <1>1, <1>3, <1>4 DEF session_alloc

\* Reading a line opens no device and keeps the IDs distinct.
LEMMA LoadLineKeepsSessionInv ==
  ASSUME SessionInv, DriverInv', load_line
  PROVE  SessionInv'
<1> USE DEF SessionInv
<1>1. /\ call.at = "load" /\ UNCHANGED <<libraries, configured_devices, objects>>
      /\ call.devices = <<>> /\ call.closing = {} /\ Distinct(call.configured)
      /\ call.configured \in Seq(Configured_Device)
  BY ListTypes DEF load_line, driverState, OpeningLocals, Opening, DistinctConfigured, DriverInv
<1>2. ASSUME NEW lines, NEW loaded, NEW configured, Distinct(configured),
             call' = [call EXCEPT !.lines = lines, !.libraries = loaded,
                                  !.configured = configured]
      PROVE  SessionInv'
  <2>1. /\ call'.at = "load" /\ call'.devices = <<>> /\ call'.closing = {}
        /\ call'.configured = configured
    BY <1>1, <1>2 DEF DriverInv, TypeOK, Call
  <2> QED
    BY <1>1, <1>2, <2>1, QuietStep DEF Opening
<1>3. ASSUME NEW loaded, NEW code,
             call' = [Idle EXCEPT !.at = "unload", !.libraries = loaded, !.ret = code]
      PROVE  SessionInv'
  <2>1. call'.at = "unload" /\ call'.devices = <<>> /\ call'.closing = {}
    BY <1>3, IdleType
  <2> QED
    BY <1>1, <2>1, QuietStep DEF Opening
<1>4. ASSUME NEW library \in Library, NEW id \in Ids,
             id \notin {call.configured[i].id : i \in 1..Len(call.configured)}
      PROVE  Distinct(Append(call.configured, [library |-> library, id |-> id]))
  <2> DEFINE e == [library |-> library, id |-> id]
             more == Append(call.configured, e)
  <2>1. e \in Configured_Device /\ e.id = id
    BY DEF Configured_Device
  <2> HIDE DEF e
  <2>2. /\ Len(more) = Len(call.configured) + 1
        /\ \A i \in 1..Len(call.configured) : more[i] = call.configured[i]
        /\ more[Len(call.configured) + 1] = e
        /\ Len(call.configured) \in Nat
    BY <1>1, <2>1, AppendProperties, LenProperties
  <2> HIDE DEF more
  <2>3. \A i \in 1..Len(more) : i \in 1..Len(call.configured) \/ i = Len(call.configured) + 1
    BY <2>2
  <2>4. \A i \in 1..Len(call.configured) : more[i].id # id
    BY <1>4, <2>2
  <2>5. Distinct(more)
    BY <1>1, <2>1, <2>2, <2>3, <2>4 DEF Distinct
  <2> QED
    BY <2>5 DEF more, e
<1>5. CASE call' = [call EXCEPT !.lines = Tail(@)]
  <2>1. call' = [call EXCEPT !.lines = Tail(@), !.libraries = call.libraries,
                             !.configured = call.configured]
    BY <1>5 DEF DriverInv, TypeOK, Call
  <2> QED
    BY <1>1, <1>2, <2>1
<1>6. ASSUME NEW code, Fail_load(code)
      PROVE  SessionInv'
  BY <1>3, <1>6 DEF Fail_load
<1>7. ASSUME NEW library \in Library, NEW id \in Ids, library_load(library, id),
             id \notin {call.configured[i].id : i \in 1..Len(call.configured)}
      PROVE  SessionInv'
  <2> DEFINE more == Append(call.configured, [library |-> library, id |-> id])
  <2>1. Distinct(more)
    BY <1>4, <1>7
  <2> HIDE DEF more
  <2>2. CASE call' = [call EXCEPT !.lines = Tail(@), !.configured = more]
    <3>1. call' = [call EXCEPT !.lines = Tail(@), !.libraries = call.libraries,
                               !.configured = more]
      BY <2>2 DEF DriverInv, TypeOK, Call
    <3> QED
      BY <1>2, <2>1, <3>1
  <2>3. CASE call' = [call EXCEPT !.lines = Tail(@), !.libraries = @ \cup {library},
                                  !.configured = more]
    <3>1. call' = [call EXCEPT !.lines = Tail(@), !.libraries = call.libraries \cup {library},
                               !.configured = more]
      BY <2>3 DEF DriverInv, TypeOK, Call
    <3> QED
      BY <1>2, <2>1, <3>1
  <2> QED
    BY <1>3, <1>6, <1>7, <2>2, <2>3 DEF library_load, more
<1>8. \A line \in Line : line.kind = "device" => line.library \in Library /\ line.id \in Ids
  BY DEF Line
<1>9. Head(call.lines) \in Line
  BY HeadTailProperties DEF load_line, DriverInv, TypeOK, Call
<1> QED
  BY <1>5, <1>6, <1>7, <1>8, <1>9 DEF load_line

\* The first session begins with a new configuration and no device open.
LEMMA LoadEndKeepsSessionInv ==
  ASSUME SessionInv, DriverInv', load_end
  PROVE  SessionInv'
<1> USE DEF SessionInv
<1>1. /\ call.at = "load" /\ call.session \in Clients /\ sessions = 0
      /\ configured_devices = <<>> /\ Distinct(call.configured)
      /\ call.devices = <<>> /\ call.closing = {}
  BY DEF load_end, DriverInv, CallLocals, Configuration, DistinctConfigured, OpeningLocals,
     Opening
<1>2. LiveSessions = {}
  BY <1>1, SessionsAreFinite DEF DriverInv, Counted, CallLocals
<1>3. /\ Held = {}
      /\ \A d \in Devices : device[d].status = "FREE"
      /\ \A s \in Clients : session[s].status = "FREE" /\ session[s].device_list = <<>>
  BY <1>1, <1>2, EmptyList, NoSessionsNoDevices
     DEF Held, LiveSessions, LiveSession, SessionsComplete
<1>4. \A s \in Clients : session'[s].device_list = <<>> /\ session'[s].status # "INITIALIZED"
  BY <1>3 DEF load_end, DriverInv, TypeOK, NewSession, NoSession
<1>5. Held' = {} /\ call'.devices = <<>>
  BY IdleType, EmptyList DEF load_end, Held
<1>6. OneOwner'
  BY <1>3, <1>4, <1>5, EmptyList DEF OneOwner, DevicesOf, load_end
<1>7. DevicesLoaded'
  BY <1>3 DEF DevicesLoaded, load_end
<1>8. OpeningLocals' /\ WritableSessions'
  <2>1. call'.at = "idle" /\ call'.devices = <<>> /\ call'.closing = {}
    BY IdleType DEF load_end
  <2> QED
    BY <1>4, <2>1 DEF OpeningLocals, WritableSessions, Opening
<1>9. SessionsComplete'
  BY <1>4 DEF SessionsComplete
<1>10. DistinctConfigured'
  BY <1>1, IdleType DEF DistinctConfigured, Distinct, load_end
<1>11. JobsOnWritableSessions'
  BY <1>3 DEF JobsOnWritableSessions, load_end
<1> QED
  BY <1>6, <1>7, <1>8, <1>9, <1>10, <1>11

\* Libraries are unloaded when no device of theirs is open.
LEMMA UnloadKeepsSessionInv ==
  ASSUME SessionInv, DriverInv', unload_library \/ unload_end
  PROVE  SessionInv'
<1> USE DEF SessionInv
<1>1. /\ call.at = "unload" /\ call.devices = <<>> /\ call.closing = {}
      /\ UNCHANGED <<libraries, configured_devices, objects>>
  BY DEF unload_library, unload_end, OpeningLocals, Opening, driverState
<1>2. call'.at \in {"unload", "idle"} /\ call'.devices = <<>> /\ call'.closing = {}
  <2>1. CASE unload_end
    BY <2>1, IdleType DEF unload_end
  <2>2. CASE unload_library
    BY <1>1, <2>2 DEF unload_library, DriverInv, TypeOK, Call
  <2> QED
    BY <2>1, <2>2
<1> QED
  BY <1>1, <1>2, QuietStep DEF Opening

-----------------------------------------------------------------------------
(* Sessions *)

\* Only a session that is not initialized gets a token.
LEMMA SetParameterKeepsSessionInv ==
  ASSUME SessionInv, DriverInv', NEW s \in Clients, session_set_parameter(s)
  PROVE  SessionInv'
<1> USE DEF SessionInv
<1>1. ASSUME NEW code, Returns(code)
      PROVE  SessionInv'
  BY <1>1, ReturnsKeepsSessionInv
<1>2. ASSUME NEW token \in {"empty", "set"}, session[s].status = "ALLOCATED",
             session' = [session EXCEPT ![s].token = token],
             UNCHANGED <<external, driverState, device, job, call>>
      PROVE  SessionInv'
  <2> DEFINE b == [session[s] EXCEPT !.token = token]
  <2>1. /\ session' = [session EXCEPT ![s] = b]
        /\ b.status = "ALLOCATED" /\ b.device_list = <<>>
    BY <1>2 DEF DriverInv, TypeOK, Session_impl, SessionsComplete
  <2> HIDE DEF b
  <2>2. /\ SessionsComplete'
        /\ \A t \in Clients : DevicesOf(t)' = DevicesOf(t)
        /\ \A t \in Clients : session[t].status = "INITIALIZED" => session'[t] = session[t]
        /\ session'[s] = b
    BY <1>2, <2>1, SessionChange DEF driverState
  <2>3. call.at = "idle"
    BY DEF session_set_parameter, Entry
  <2>4. OneOwner'
    BY <1>2, <2>2 DEF OneOwner, Held
  <2>5. DevicesLoaded' /\ OpeningLocals' /\ DistinctConfigured'
    BY <1>2, <2>3 DEF DevicesLoaded, OpeningLocals, Opening, DistinctConfigured, Distinct,
       driverState
  <2>6. WritableSessions'
    <3>1. \A t \in Clients : session'[t].status = "INITIALIZED" => session'[t] = session[t]
      BY <2>1, <2>2 DEF DriverInv, TypeOK
    <3> QED
      BY <1>2, <2>3, <3>1 DEF WritableSessions, TokenWrites, Opening
  <2>7. JobsOnWritableSessions'
    BY <1>2, <2>2 DEF JobsOnWritableSessions
  <2> QED
    BY <2>2, <2>4, <2>5, <2>6, <2>7
<1> QED
  BY <1>1, <1>2 DEF session_set_parameter

\* QDMI_session_init sets the mode by the token, with all devices still to open.
LEMMA InitKeepsSessionInv ==
  ASSUME SessionInv, DriverInv', NEW s \in Clients, session_init(s)
  PROVE  SessionInv'
<1> USE DEF SessionInv
<1>1. ASSUME NEW code, Returns(code)
      PROVE  SessionInv'
  BY <1>1, ReturnsKeepsSessionInv
<1>2. ASSUME session[s].status = "ALLOCATED", session[s].token # "none",
             session' = [session EXCEPT ![s].mode =
                           IF session[s].token = "empty" THEN "READONLY" ELSE "READWRITE"],
             call' = [Idle EXCEPT !.at = "open", !.session = s,
                                  !.configured = configured_devices],
             UNCHANGED <<external, driverState, device, job, ret>>
      PROVE  SessionInv'
  <2> DEFINE b == [session[s] EXCEPT !.mode = IF session[s].token = "empty" THEN "READONLY"
                                                                            ELSE "READWRITE"]
  <2>1. /\ session' = [session EXCEPT ![s] = b]
        /\ b.status = "ALLOCATED" /\ b.device_list = <<>>
        /\ b.mode = "READWRITE" => b.token = "set"
    BY <1>2 DEF DriverInv, TypeOK, Session_impl, SessionsComplete
  <2> HIDE DEF b
  <2>2. /\ SessionsComplete'
        /\ \A t \in Clients : DevicesOf(t)' = DevicesOf(t)
        /\ \A t \in Clients : session[t].status = "INITIALIZED" => session'[t] = session[t]
        /\ session'[s] = b
    BY <1>2, <2>1, SessionChange DEF driverState
  <2>3. call.at = "idle" /\ call.devices = <<>> /\ call.closing = {}
    BY DEF session_init, Entry, OpeningLocals, Opening
  <2>4. /\ call'.at = "open" /\ call'.session = s /\ call'.devices = <<>>
        /\ call'.closing = {} /\ call'.configured = configured_devices
    BY <1>2, IdleType
  <2>5. OneOwner'
    BY <1>2, <2>2, <2>3, <2>4 DEF OneOwner, Held
  <2>6. DevicesLoaded' /\ DistinctConfigured'
    BY <1>2, <2>4 DEF DevicesLoaded, DistinctConfigured, Distinct, driverState
  <2>7. OpeningLocals'
    <3>1. configured_devices \in Seq(Configured_Device)
      BY ListTypes DEF DriverInv
    <3>2. Len(call'.devices) = 0
      BY <2>4, EmptyList
    <3>3. configured_devices' = configured_devices /\ call'.configured = configured_devices
      BY <1>2, <2>4 DEF driverState
    <3>4. /\ Len(configured_devices') = Len(call'.devices) + Len(call'.configured)
          /\ \A i \in 1..Len(call'.configured) :
               call'.configured[i] = configured_devices'[Len(call'.devices) + i]
          /\ \A i \in 1..Len(call'.devices) : FALSE
      BY <3>1, <3>2, <3>3
    <3> QED
      BY <2>4, <3>4 DEF OpeningLocals, Opening
  <2>8. WritableSessions'
    <3>1. \A t \in Clients : session'[t].status = "INITIALIZED" => session'[t] = session[t]
      BY <2>1, <2>2 DEF DriverInv, TypeOK
    <3> QED
      BY <2>1, <2>2, <2>4, <3>1 DEF WritableSessions, TokenWrites
  <2>9. JobsOnWritableSessions'
    BY <1>2, <2>2 DEF JobsOnWritableSessions
  <2> QED
    BY <2>2, <2>5, <2>6, <2>7, <2>8, <2>9
<1> QED
  BY <1>1, <1>2 DEF session_init

\* A step of a call that opens devices: the sessions keep their devices, what
\* the call holds is open and no other device changes its status.
LEMMA HeldStep ==
  ASSUME SessionInv, UNCHANGED <<libraries, configured_devices, session, job>>,
         Held' \subseteq Devices,
         \A s \in Clients : \A d \in DevicesOf(s) : d \notin Held' /\ device'[d] = device[d],
         \A d \in DeviceSet(call'.devices) : d \notin call'.closing,
         \A d \in Held' : device'[d].status # "FREE",
         \A d \in Devices \ Held' :
           device'[d].status # "FREE" => \E s \in Clients : d \in DevicesOf(s),
         \A d \in Devices : device'[d].status # "FREE" => device'[d].library \in libraries
  PROVE  OneOwner' /\ DevicesLoaded' /\ SessionsComplete' /\ JobsOnWritableSessions'
<1> USE DEF SessionInv
<1>1. \A s \in Clients : DevicesOf(s)' = DevicesOf(s)
  BY DEF DevicesOf
<1>2. \A s \in Clients : \A d \in DevicesOf(s) : device[d].status # "FREE"
  BY ListTypes DEF OneOwner, DriverInv
<1>3. OneOwner'
  <2>1. \A s, t \in Clients : \A d \in DevicesOf(s) : d \in DevicesOf(t) => s = t
    BY DEF OneOwner
  <2>2. ASSUME NEW d \in Devices
        PROVE  device'[d].status # "FREE" <=> d \in Held' \/ \E s \in Clients : d \in DevicesOf(s)
    BY <1>2
  <2> QED
    BY <1>1, <2>1, <2>2 DEF OneOwner
<1>4. DevicesLoaded'
  BY DEF DevicesLoaded
<1>5. SessionsComplete'
  BY CompleteFrame
<1>6. JobsOnWritableSessions'
  BY DEF JobsOnWritableSessions
<1> QED
  BY <1>3, <1>4, <1>5, <1>6

\* A QDMI_session_init that fails goes on to close all it has opened.
LEMMA FailInitKeepsSessionInv ==
  ASSUME SessionInv, DriverInv', call.at \in Opening,
         UNCHANGED <<libraries, configured_devices, session, job>>,
         NEW code, Fail_init(call.closing, code),
         \A d \in Devices : /\ device'[d].status # "FREE" <=> device[d].status # "FREE"
                            /\ device'[d].library = device[d].library
                            /\ d \notin call.closing => device'[d] = device[d]
  PROVE  SessionInv'
<1> USE DEF SessionInv
<1>1. /\ call'.at = "close" /\ call'.devices = <<>> /\ call'.closing = Held
  BY IdleType DEF Fail_init, Held
<1>2. Held' = Held /\ Held \subseteq Devices
  BY <1>1, EmptyList, ListTypes DEF Held, DriverInv
<1>3. OneOwner' /\ DevicesLoaded' /\ SessionsComplete' /\ JobsOnWritableSessions'
  <2>1. \A s \in Clients : \A d \in DevicesOf(s) : d \notin Held' /\ device'[d] = device[d]
    BY <1>2, ListTypes DEF OneOwner, Held, DriverInv
  <2>2. \A d \in Held' : device'[d].status # "FREE"
    BY <1>2 DEF OneOwner
  <2>3. \A d \in Devices \ Held' :
           device'[d].status # "FREE" => \E s \in Clients : d \in DevicesOf(s)
    BY <1>2 DEF OneOwner
  <2>4. \A d \in Devices : device'[d].status # "FREE" => device'[d].library \in libraries
    BY DEF DevicesLoaded
  <2>5. \A d \in DeviceSet(call'.devices) : d \notin call'.closing
    BY <1>1, EmptyList
  <2> QED
    BY <1>2, <2>1, <2>2, <2>3, <2>4, <2>5, HeldStep
<1>4. OpeningLocals'
  BY <1>1 DEF OpeningLocals, Opening
<1>5. DistinctConfigured' /\ WritableSessions'
  BY <1>1 DEF DistinctConfigured, Distinct, WritableSessions, TokenWrites, Opening
<1> QED
  BY <1>3, <1>4, <1>5

\* A device that opens was free, and is the call's until it joins the list.
LEMMA OpenDeviceKeepsSessionInv ==
  ASSUME SessionInv, DriverInv', open_device
  PROVE  SessionInv'
<1> USE DEF SessionInv
<1>1. /\ call.at = "open" /\ call.configured # <<>> /\ call.closing = {}
      /\ UNCHANGED <<libraries, configured_devices, session, job>>
  BY DEF open_device, OpeningLocals, driverState
<1>2. ASSUME NEW code, Fail_init({}, code), UNCHANGED device
      PROVE  SessionInv'
  BY <1>1, <1>2, FailInitKeepsSessionInv DEF Opening
<1>3. ASSUME NEW d \in Devices, device[d].status = "FREE",
             device' = [device EXCEPT ![d] = [status  |-> "ALLOCATED",
                                              library |-> Head(call.configured).library,
                                              id      |-> Head(call.configured).id]],
             call' = [call EXCEPT !.at = "set_token", !.closing = {d}]
      PROVE  SessionInv'
  <2>1. /\ call'.at = "set_token" /\ call'.closing = {d} /\ call'.devices = call.devices
        /\ call'.configured = call.configured /\ call'.session = call.session
    BY <1>3 DEF DriverInv, TypeOK, Call
  <2>2. /\ device'[d].status = "ALLOCATED"
        /\ device'[d] = [status |-> "ALLOCATED", library |-> Head(call'.configured).library,
                         id |-> Head(call'.configured).id]
        /\ \A e \in Devices \ {d} : device'[e] = device[e]
    BY <1>3, <2>1 DEF DriverInv, TypeOK
  <2>3. Held' = Held \cup {d} /\ Held \subseteq Devices /\ d \notin Held
    BY <1>1, <1>3, <2>1, ListTypes DEF Held, OneOwner, DriverInv
  <2>4. device'[d].library \in libraries
    <3>1. /\ Len(configured_devices) = Len(call.devices) + Len(call.configured)
          /\ \A i \in 1..Len(call.configured) :
               call.configured[i] = configured_devices[Len(call.devices) + i]
      BY <1>1 DEF OpeningLocals, Opening
    <3>2. /\ Len(call.devices) \in Nat /\ call.configured \in Seq(Configured_Device)
          /\ configured_devices \in Seq(Configured_Device)
      BY ListTypes, LenProperties DEF DriverInv
    <3>4. /\ Head(call.configured) = configured_devices[Len(call.devices) + 1]
          /\ Len(call.devices) + 1 \in 1..Len(configured_devices)
      BY <1>1, <3>1, <3>2, NextConfigured
    <3> QED
      BY <2>1, <2>2, <3>4 DEF DriverInv, Configuration, LibrariesOf
  <2>5. OneOwner' /\ DevicesLoaded' /\ SessionsComplete' /\ JobsOnWritableSessions'
    <3>1. \A s \in Clients : \A e \in DevicesOf(s) : e \notin Held' /\ device'[e] = device[e]
      BY <1>3, <2>2, <2>3, ListTypes DEF OneOwner, DriverInv
    <3>2. \A e \in Held' : device'[e].status # "FREE"
      BY <2>2, <2>3 DEF OneOwner
    <3>3. \A e \in Devices \ Held' :
             device'[e].status # "FREE" => \E s \in Clients : e \in DevicesOf(s)
      BY <2>2, <2>3 DEF OneOwner
    <3>4. \A e \in Devices : device'[e].status # "FREE" => device'[e].library \in libraries
      BY <2>2, <2>4 DEF DevicesLoaded
    <3>5. \A e \in DeviceSet(call'.devices) : e \notin call'.closing
      BY <2>1, <2>3 DEF Held
    <3> QED
      BY <1>1, <2>3, <3>1, <3>2, <3>3, <3>4, <3>5, HeldStep
  <2>6. OpeningLocals'
    <3>1. \A i \in 1..Len(call.devices) : call.devices[i] \in Devices \ {d}
      BY <2>3, ListTypes DEF Held, DeviceSet, DriverInv
    <3>2. \A i \in 1..Len(call.devices) : device'[call.devices[i]] = Opened(i)'
      BY <1>1, <2>2, <3>1 DEF OpeningLocals, Opening, Opened
    <3> QED
      BY <1>1, <2>1, <2>2, <3>2 DEF OpeningLocals, Opening
  <2>7. DistinctConfigured' /\ WritableSessions'
    BY <1>1, <2>1 DEF DistinctConfigured, Distinct, WritableSessions, TokenWrites, Opening
  <2> QED
    BY <2>5, <2>6, <2>7
<1> QED
  BY <1>2, <1>3 DEF open_device

\* Passing the token on leaves the device in the hands of the call.
LEMMA OpenSetTokenKeepsSessionInv ==
  ASSUME SessionInv, DriverInv', open_set_token
  PROVE  SessionInv'
<1> USE DEF SessionInv
<1>1. call.at = "set_token" /\ UNCHANGED <<libraries, configured_devices, objects>>
  BY DEF open_set_token, driverState
<1>2. ASSUME NEW code, Fail_init(call.closing, code)
      PROVE  SessionInv'
  BY <1>1, <1>2, FailInitKeepsSessionInv DEF Opening, objects
<1>3. CASE call' = [call EXCEPT !.at = "init"]
  <2>1. /\ call'.at = "init" /\ call'.closing = call.closing /\ call'.devices = call.devices
        /\ call'.configured = call.configured /\ call'.session = call.session
    BY <1>3 DEF DriverInv, TypeOK, Call
  <2>2. OneOwner' /\ DevicesLoaded' /\ OpeningLocals'
    BY <1>1, <2>1 DEF OneOwner, DevicesOf, Held, DevicesLoaded, OpeningLocals, Opened, Opening,
       objects
  <2>3. SessionsComplete'
    BY <1>1, CompleteFrame DEF objects
  <2>4. DistinctConfigured' /\ WritableSessions' /\ JobsOnWritableSessions'
    BY <1>1, <2>1 DEF DistinctConfigured, Distinct, WritableSessions, TokenWrites,
       JobsOnWritableSessions, Opening, objects
  <2> QED
    BY <2>2, <2>3, <2>4
<1> QED
  BY <1>2, <1>3 DEF open_set_token

\* An initialized device joins the list of the call, in the configuration's order.
LEMMA OpenInitKeepsSessionInv ==
  ASSUME SessionInv, DriverInv', open_init
  PROVE  SessionInv'
<1> USE DEF SessionInv
<1>1. /\ call.at = "init" /\ UNCHANGED <<libraries, configured_devices, session, job>>
      /\ call.configured # <<>>
  BY DEF open_init, driverState, DriverInv, CallLocals
<1>2. PICK d \in Devices :
        /\ call.closing = {d}
        /\ device[d] = [status  |-> "ALLOCATED",
                        library |-> Head(call.configured).library,
                        id      |-> Head(call.configured).id]
  BY <1>1 DEF OpeningLocals
<1>3. \/ /\ \E code \in Errors : Fail_init(call.closing, code)
         /\ UNCHANGED device
      \/ /\ device' = [device EXCEPT ![d].status = "INITIALIZED"]
         /\ \/ Fail_init(call.closing, "OUTOFMEM")
            \/ call' = [call EXCEPT !.at = "open", !.configured = Tail(@),
                                    !.devices = Append(@, d), !.closing = {}]
  BY <1>2 DEF open_init
<1>4. ASSUME NEW code, Fail_init(call.closing, code), UNCHANGED device
      PROVE  SessionInv'
  BY <1>1, <1>4, FailInitKeepsSessionInv DEF Opening
<1>5. ASSUME device' = [device EXCEPT ![d].status = "INITIALIZED"]
      PROVE  /\ device'[d] = [status  |-> "INITIALIZED",
                              library |-> Head(call.configured).library,
                              id      |-> Head(call.configured).id]
             /\ \A e \in Devices \ {d} : device'[e] = device[e]
  <2>1. /\ device'[d] = [device[d] EXCEPT !.status = "INITIALIZED"]
        /\ \A e \in Devices \ {d} : device'[e] = device[e]
    BY <1>5 DEF DriverInv, TypeOK
  <2> QED
    BY <1>2, <2>1
<1>6. ASSUME device' = [device EXCEPT ![d].status = "INITIALIZED"],
             NEW code, Fail_init(call.closing, code)
      PROVE  SessionInv'
  <2>1. \A e \in Devices : /\ device'[e].status # "FREE" <=> device[e].status # "FREE"
                           /\ device'[e].library = device[e].library
                           /\ e \notin call.closing => device'[e] = device[e]
    BY <1>2, <1>5, <1>6
  <2> QED
    BY <1>1, <1>6, <2>1, FailInitKeepsSessionInv DEF Opening
<1>7. ASSUME device' = [device EXCEPT ![d].status = "INITIALIZED"],
             call' = [call EXCEPT !.at = "open", !.configured = Tail(@),
                                  !.devices = Append(@, d), !.closing = {}]
      PROVE  SessionInv'
  <2> DEFINE more == Append(call.devices, d)
  <2>1. /\ call'.at = "open" /\ call'.closing = {} /\ call'.devices = more
        /\ call'.configured = Tail(call.configured) /\ call'.session = call.session
    BY <1>7 DEF DriverInv, TypeOK, Call
  <2>2. /\ Len(more) = Len(call.devices) + 1
        /\ \A i \in 1..Len(call.devices) : more[i] = call.devices[i]
        /\ more[Len(call.devices) + 1] = d
        /\ DeviceSet(more) = DeviceSet(call.devices) \cup {d}
    BY OneMoreDevice, ListTypes DEF DriverInv
  <2> HIDE DEF more
  <2>3. Held' = Held /\ Held \subseteq Devices /\ d \in Held /\ d \notin DeviceSet(call.devices)
    BY <1>2, <2>1, <2>2, ListTypes DEF Held, OneOwner, DriverInv
  <2>4. OneOwner' /\ DevicesLoaded' /\ SessionsComplete' /\ JobsOnWritableSessions'
    <3>1. \A s \in Clients : \A e \in DevicesOf(s) : e \notin Held' /\ device'[e] = device[e]
      BY <1>5, <1>7, <2>3, ListTypes DEF OneOwner, DriverInv
    <3>2. \A e \in Held' : device'[e].status # "FREE"
      BY <1>5, <1>7, <2>3 DEF OneOwner
    <3>3. \A e \in Devices \ Held' :
             device'[e].status # "FREE" => \E s \in Clients : e \in DevicesOf(s)
      BY <1>5, <1>7, <2>3 DEF OneOwner
    <3>4. \A e \in Devices : device'[e].status # "FREE" => device'[e].library \in libraries
      BY <1>2, <1>5, <1>7 DEF DevicesLoaded
    <3> QED
      BY <1>1, <2>1, <2>3, <3>1, <3>2, <3>3, <3>4, HeldStep
  <2>5. OpeningLocals'
    <3>1. /\ Len(configured_devices) = Len(call.devices) + Len(call.configured)
          /\ \A i \in 1..Len(call.configured) :
               call.configured[i] = configured_devices[Len(call.devices) + i]
          /\ \A i \in 1..Len(call.devices) : device[call.devices[i]] = Opened(i)
      BY <1>1 DEF OpeningLocals, Opening
    <3>2. /\ Len(call.devices) \in Nat /\ call.configured \in Seq(Configured_Device)
          /\ configured_devices \in Seq(Configured_Device)
      BY ListTypes, LenProperties DEF DriverInv
    <3>3. /\ Head(call.configured) = configured_devices[Len(call.devices) + 1]
          /\ Len(configured_devices) = Len(more) + Len(Tail(call.configured))
          /\ \A i \in 1..Len(Tail(call.configured)) :
               Tail(call.configured)[i] = configured_devices[Len(more) + i]
      <4>1. Len(more) = Len(call.devices) + 1
        BY <2>2
      <4>2. /\ Head(call.configured) = configured_devices[Len(call.devices) + 1]
            /\ Len(configured_devices) = (Len(call.devices) + 1) + Len(Tail(call.configured))
            /\ \A i \in 1..Len(Tail(call.configured)) :
                 Tail(call.configured)[i] = configured_devices[(Len(call.devices) + 1) + i]
        BY <1>1, <3>1, <3>2, NextConfigured
      <4> QED
        BY <4>1, <4>2
    <3>5. \A i \in 1..Len(more) : device'[more[i]] = Opened(i)
      <4>1. device'[d] = Opened(Len(call.devices) + 1)
        BY <1>5, <1>7, <3>3 DEF Opened
      <4>2. ASSUME NEW i \in 1..Len(call.devices)
            PROVE  device'[more[i]] = Opened(i)
        <5>1. call.devices[i] \in Devices \ {d}
          BY <2>3, ListTypes DEF DeviceSet, DriverInv
        <5> QED
          BY <1>5, <1>7, <2>2, <3>1, <5>1
      <4>3. \A i \in 1..Len(more) : i \in 1..Len(call.devices) \/ i = Len(call.devices) + 1
        BY <2>2, <3>2
      <4> QED
        BY <2>2, <4>1, <4>2, <4>3
    <3>6. \A i \in 1..Len(more) : Opened(i)' = Opened(i)
      BY <1>1 DEF Opened
    <3>7. /\ Len(configured_devices') = Len(call'.devices) + Len(call'.configured)
          /\ \A i \in 1..Len(call'.configured) :
               call'.configured[i] = configured_devices'[Len(call'.devices) + i]
      BY <1>1, <2>1, <3>3
    <3>8. \A i \in 1..Len(call'.devices) : device'[call'.devices[i]] = Opened(i)'
      BY <2>1, <3>5, <3>6
    <3> QED
      BY <2>1, <3>7, <3>8 DEF OpeningLocals, Opening
  <2>6. DistinctConfigured' /\ WritableSessions'
    BY <1>1, <2>1 DEF DistinctConfigured, Distinct, WritableSessions, TokenWrites, Opening
  <2> QED
    BY <2>4, <2>5, <2>6
<1> QED
  BY <1>3, <1>4, <1>6, <1>7

\* The session takes over the complete list of the call.
LEMMA OpenEndKeepsSessionInv ==
  ASSUME SessionInv, DriverInv', open_end
  PROVE  SessionInv'
<1> USE DEF SessionInv
<1>0. PICK c \in Clients : c = call.session
  BY DEF open_end, DriverInv, CallLocals
<1> DEFINE b == [session[c] EXCEPT !.device_list = call.devices, !.status = "INITIALIZED"]
<1>1. /\ call.at = "open" /\ call.configured = <<>> /\ call.closing = {} /\ call' = Idle
      /\ session[c].status = "ALLOCATED" /\ session[c].device_list = <<>>
      /\ UNCHANGED <<libraries, configured_devices, device, job>>
  BY <1>0 DEF open_end, driverState, OpeningLocals, DriverInv, CallLocals, SessionsComplete
<1>2. /\ call'.at = "idle" /\ call'.devices = <<>> /\ call'.closing = {}
  BY <1>1, IdleType
<1>3. /\ session' = [session EXCEPT ![c] = b]
      /\ b.status = "INITIALIZED" /\ b.device_list = call.devices
      /\ b.token = session[c].token /\ b.mode = session[c].mode
  BY <1>0, <1>1 DEF open_end, DriverInv, TypeOK, Session_impl
<1> HIDE DEF b
<1>4. session'[c] = b /\ \A t \in Clients \ {c} : session'[t] = session[t]
  BY <1>1, <1>3 DEF DriverInv, TypeOK
<1>5. /\ DevicesOf(c)' = Held /\ DevicesOf(c) = {}
      /\ \A t \in Clients \ {c} : DevicesOf(t)' = DevicesOf(t)
      /\ Held' = {}
  BY <1>1, <1>2, <1>3, <1>4, EmptyList DEF DevicesOf, Held
<1>6. OneOwner'
  <2>1. \A s, t \in Clients : \A d \in DevicesOf(s)' : d \in DevicesOf(t)' => s = t
    BY <1>1, <1>5 DEF OneOwner
  <2>2. \A d \in Devices :
          device'[d].status # "FREE" <=> d \in Held' \/ \E s \in Clients : d \in DevicesOf(s)'
    <3>1. \A d \in Devices : d \in Held \/ (\E s \in Clients : d \in DevicesOf(s))
            <=> \E s \in Clients : d \in DevicesOf(s)'
      BY <1>1, <1>5
    <3> QED
      BY <1>1, <1>5, <3>1 DEF OneOwner
  <2>3. DeviceSet(call'.devices) = {}
    BY <1>2, EmptyList
  <2> QED
    BY <1>5, <2>1, <2>2, <2>3 DEF OneOwner
<1>7. DevicesLoaded' /\ OpeningLocals' /\ DistinctConfigured'
  BY <1>1, <1>2 DEF DevicesLoaded, OpeningLocals, Opening, DistinctConfigured, Distinct
<1>8. SessionsComplete'
  <2>1. /\ Len(configured_devices) = Len(call.devices) + Len(call.configured)
        /\ \A i \in 1..Len(call.devices) : device[call.devices[i]] = Opened(i)
    BY <1>1 DEF OpeningLocals, Opening
  <2>2. Len(call.devices) = Len(configured_devices)
    BY <1>1, <2>1, EmptyList, ListTypes, LenProperties DEF DriverInv
  <2> QED
    BY <1>1, <1>3, <1>4, <2>1, <2>2 DEF SessionsComplete, Opened
<1>9. WritableSessions'
  <2>1. TokenWrites(c)
    BY <1>0, <1>1 DEF WritableSessions, Opening
  <2> QED
    BY <1>2, <1>3, <1>4, <2>1 DEF WritableSessions, TokenWrites, Opening
<1>10. JobsOnWritableSessions'
  <2>1. \A s \in Clients : session[s].status = "INITIALIZED" => session'[s] = session[s]
    BY <1>1, <1>4
  <2> QED
    BY <1>1, <2>1 DEF JobsOnWritableSessions
<1> QED
  BY <1>6, <1>7, <1>8, <1>9, <1>10

\* A device that is closed leaves its last list.
LEMMA CloseDeviceKeepsSessionInv ==
  ASSUME SessionInv, DriverInv', close_device
  PROVE  SessionInv'
<1> USE DEF SessionInv
<1>1. /\ call.at = "close" /\ call.devices = <<>>
      /\ UNCHANGED <<libraries, configured_devices, session, job>>
  BY DEF close_device, OpeningLocals, Opening, driverState
<1>2. PICK d \in call.closing : /\ device' = [device EXCEPT ![d] = NoDevice]
                                /\ call' = [call EXCEPT !.closing = @ \ {d}]
  BY DEF close_device
<1>3. call'.at = "close" /\ call'.devices = <<>> /\ call'.closing = call.closing \ {d}
  BY <1>1, <1>2 DEF DriverInv, TypeOK, Call
<1>4. Held = call.closing /\ Held' = Held \ {d} /\ Held \subseteq Devices /\ d \in Held
  BY <1>1, <1>2, <1>3, EmptyList, ListTypes DEF Held, DriverInv
<1>5. device'[d].status = "FREE" /\ \A e \in Devices \ {d} : device'[e] = device[e]
  BY <1>2, <1>4 DEF DriverInv, TypeOK, NoDevice
<1>6. OneOwner' /\ DevicesLoaded' /\ SessionsComplete' /\ JobsOnWritableSessions'
  <2>1. \A s \in Clients : \A e \in DevicesOf(s) : e \notin Held' /\ device'[e] = device[e]
    BY <1>4, <1>5, ListTypes DEF OneOwner, DriverInv
  <2>2. \A e \in Held' : device'[e].status # "FREE"
    BY <1>4, <1>5 DEF OneOwner
  <2>3. \A e \in Devices \ Held' :
           device'[e].status # "FREE" => \E s \in Clients : e \in DevicesOf(s)
    BY <1>4, <1>5 DEF OneOwner
  <2>4. \A e \in Devices : device'[e].status # "FREE" => device'[e].library \in libraries
    BY <1>5 DEF DevicesLoaded
  <2>5. \A e \in DeviceSet(call'.devices) : e \notin call'.closing
    BY <1>3, EmptyList
  <2> QED
    BY <1>1, <1>4, <2>1, <2>2, <2>3, <2>4, <2>5, HeldStep
<1>7. OpeningLocals' /\ DistinctConfigured' /\ WritableSessions'
  BY <1>1, <1>3 DEF OpeningLocals, Opening, DistinctConfigured, Distinct, WritableSessions,
     TokenWrites
<1> QED
  BY <1>6, <1>7

\* When everything is closed the call holds no device; after the last session no
\* device is open.
LEMMA CloseEndKeepsSessionInv ==
  ASSUME SessionInv, DriverInv', close_end
  PROVE  SessionInv'
<1> USE DEF SessionInv
<1>1. /\ call.at = "close" /\ call.devices = <<>> /\ call.closing = {}
      /\ UNCHANGED objects
  BY DEF close_end, OpeningLocals, Opening
<1>2. Held = {}
  BY <1>1, EmptyList DEF Held
<1>3. CASE call' = Idle /\ UNCHANGED <<libraries, configured_devices>>
  <2>1. call'.at = "idle" /\ call'.devices = <<>> /\ call'.closing = {}
    BY <1>3, IdleType
  <2> QED
    BY <1>1, <1>2, <1>3, <2>1, QuietStep DEF Opening
<1>4. CASE /\ call.freeing /\ sessions' = sessions - 1 /\ sessions' = 0
           /\ configured_devices' = <<>> /\ libraries' = {}
           /\ call' = [Idle EXCEPT !.at = "unload", !.libraries = libraries]
  <2>1. call'.at = "unload" /\ call'.devices = <<>> /\ call'.closing = {}
    BY <1>4, IdleType
  <2>2. LiveSessions = {}
    BY <1>4, SessionsAreFinite DEF DriverInv, Counted
  <2>3. /\ \A d \in Devices : device[d].status = "FREE"
        /\ \A s \in Clients : session[s].status = "FREE" /\ session[s].device_list = <<>>
    BY <1>2, <2>2, NoSessionsNoDevices DEF SessionsComplete, LiveSessions, LiveSession
  <2>4. OneOwner'
    <3>1. Held' = {} /\ \A s \in Clients : DevicesOf(s)' = {}
      BY <1>1, <2>1, <2>3, EmptyList DEF Held, DevicesOf, objects
    <3> QED
      BY <1>1, <2>1, <2>3, <3>1, EmptyList DEF OneOwner, objects
  <2>5. DevicesLoaded' /\ OpeningLocals'
    BY <1>1, <2>1, <2>3 DEF DevicesLoaded, OpeningLocals, Opening, objects
  <2>6. SessionsComplete' /\ JobsOnWritableSessions' /\ WritableSessions'
    BY <1>1, <2>1, <2>3 DEF SessionsComplete, JobsOnWritableSessions, WritableSessions,
       TokenWrites, Opening, objects
  <2>7. DistinctConfigured'
    BY <1>4, <2>1, EmptyList DEF DistinctConfigured, Distinct
  <2> QED
    BY <2>4, <2>5, <2>6, <2>7
<1> QED
  BY <1>3, <1>4 DEF close_end, driverState

\* The call takes over the devices of the session it frees.
LEMMA FreeKeepsSessionInv ==
  ASSUME SessionInv, DriverInv', NEW s \in Clients, session_free(s)
  PROVE  SessionInv'
<1> USE DEF SessionInv
<1>1. /\ call.at = "idle" /\ call.devices = <<>> /\ call.closing = {}
      /\ \A j \in Jobs : job[j] \notin DevicesOf(s)
      /\ session' = [session EXCEPT ![s] = NoSession]
      /\ call' = [Idle EXCEPT !.at = "close", !.closing = DevicesOf(s), !.freeing = TRUE]
      /\ UNCHANGED <<libraries, configured_devices, device, job>>
  BY DEF session_free, Entry, OpeningLocals, Opening, DevicesOf, driverState
<1>2. call'.at = "close" /\ call'.devices = <<>> /\ call'.closing = DevicesOf(s)
  BY <1>1, IdleType
<1>3. /\ session'[s] = NoSession /\ NoSession.status = "FREE" /\ NoSession.device_list = <<>>
      /\ \A t \in Clients \ {s} : session'[t] = session[t]
  BY <1>1 DEF DriverInv, TypeOK, NoSession
<1>4. /\ Held = {} /\ Held' = DevicesOf(s) /\ DevicesOf(s)' = {}
      /\ \A t \in Clients \ {s} : DevicesOf(t)' = DevicesOf(t)
  BY <1>1, <1>2, <1>3, EmptyList DEF Held, DevicesOf
<1>5. OneOwner'
  <2>1. \A r, t \in Clients : \A d \in DevicesOf(r)' : d \in DevicesOf(t)' => r = t
    BY <1>4 DEF OneOwner
  <2>2. \A t \in Clients : \A d \in DevicesOf(t)' : d \notin Held'
    BY <1>4 DEF OneOwner
  <2>3. \A d \in Devices :
          device'[d].status # "FREE" <=> d \in Held' \/ \E t \in Clients : d \in DevicesOf(t)'
    <3>1. \A d \in Devices : d \in Held \/ (\E t \in Clients : d \in DevicesOf(t))
            <=> d \in Held' \/ \E t \in Clients : d \in DevicesOf(t)'
      BY <1>4
    <3> QED
      BY <1>1, <3>1 DEF OneOwner
  <2>4. DeviceSet(call'.devices) = {}
    BY <1>2, EmptyList
  <2> QED
    BY <2>1, <2>2, <2>3, <2>4 DEF OneOwner
<1>6. DevicesLoaded' /\ OpeningLocals' /\ DistinctConfigured'
  BY <1>1, <1>2 DEF DevicesLoaded, OpeningLocals, Opening, DistinctConfigured, Distinct
<1>7. SessionsComplete'
  BY <1>1, <1>3 DEF SessionsComplete
<1>8. WritableSessions'
  BY <1>2, <1>3 DEF WritableSessions, TokenWrites, Opening
<1>9. JobsOnWritableSessions'
  <2> SUFFICES ASSUME NEW j \in Jobs, job[j] # NULL
               PROVE  \E t \in Clients : /\ session'[t].status = "INITIALIZED"
                                         /\ session'[t].token = "set"
                                         /\ job[j] \in DevicesOf(t)'
    BY <1>1 DEF JobsOnWritableSessions, DevicesOf
  <2>1. PICK t \in Clients : /\ session[t].status = "INITIALIZED"
                             /\ session[t].token = "set"
                             /\ job[j] \in DevicesOf(t)
    BY DEF JobsOnWritableSessions, DevicesOf
  <2> QED
    BY <1>1, <1>3, <1>4, <2>1
<1> QED
  BY <1>5, <1>6, <1>7, <1>8, <1>9

-----------------------------------------------------------------------------
(* Jobs, and the theorems *)

\* A job is created on a device of a session that writes.
LEMMA JobsKeepSessionInv ==
  ASSUME SessionInv, DriverInv',
         \/ \E s \in Clients : \E i \in 1..Len(session[s].device_list) :
              device_create_job(s, i) \/ session_retrieve_job_by_id(s, i)
         \/ \E j \in Jobs : job_free(j)
  PROVE  SessionInv'
<1> USE DEF SessionInv
<1>1. ASSUME NEW code, Returns(code)
      PROVE  SessionInv'
  BY <1>1, ReturnsKeepsSessionInv
<1>2. ASSUME NEW j \in Jobs, NEW d, job' = [job EXCEPT ![j] = d],
             UNCHANGED <<external, driverState, device, session, call>>,
             d # NULL => \E s \in Clients : /\ session[s].status = "INITIALIZED"
                                            /\ session[s].token = "set"
                                            /\ d \in DevicesOf(s)
      PROVE  SessionInv'
  <2> USE <1>2 DEF driverState
  <2>1. OneOwner' /\ DevicesLoaded' /\ OpeningLocals'
    BY DEF OneOwner, DevicesOf, Held, DevicesLoaded, OpeningLocals, Opened
  <2>2. SessionsComplete'
    BY CompleteFrame
  <2>3. DistinctConfigured' /\ WritableSessions'
    BY DEF DistinctConfigured, Distinct, WritableSessions, TokenWrites
  <2>4. JobsOnWritableSessions'
    <3>1. \A k \in Jobs : job'[k] = IF k = j THEN d ELSE job[k]
      BY DEF DriverInv, TypeOK
    <3> QED
      BY <3>1 DEF JobsOnWritableSessions, DevicesOf
  <2> QED
    BY <2>1, <2>2, <2>3, <2>4
<1>3. ASSUME NEW s \in Clients, NEW i \in 1..Len(session[s].device_list),
             session[s].status = "INITIALIZED", session[s].mode = "READWRITE"
      PROVE  /\ session[s].token = "set"
             /\ session[s].device_list[i] \in DevicesOf(s)
  BY <1>3 DEF WritableSessions, TokenWrites, DevicesOf, DeviceSet
<1>4. ASSUME NEW s \in Clients, NEW i \in 1..Len(session[s].device_list),
             device_create_job(s, i) \/ session_retrieve_job_by_id(s, i)
      PROVE  SessionInv'
  BY <1>1, <1>2, <1>3, <1>4 DEF device_create_job, session_retrieve_job_by_id
<1>5. ASSUME NEW j \in Jobs, job_free(j)
      PROVE  SessionInv'
  BY <1>2, <1>5 DEF job_free
<1> QED
  BY <1>4, <1>5

\* Every step keeps the invariant.
LEMMA StepKeepsSessionInv ==
  ASSUME SessionInv, [Next]_vars
  PROVE  SessionInv'
<1>1. DriverInv'
  BY StepKeepsInv DEF SessionInv
<1>2. ASSUME NEW code, Returns(code)
      PROVE  SessionInv'
  BY <1>2, ReturnsKeepsSessionInv
<1>3. CASE InvalidArguments
  BY <1>2, <1>3 DEF InvalidArguments
<1>4. CASE session_alloc
  BY <1>1, <1>4, AllocKeepsSessionInv
<1>5. CASE Continue
  BY <1>1, <1>5, LoadLineKeepsSessionInv, LoadEndKeepsSessionInv, UnloadKeepsSessionInv,
     OpenDeviceKeepsSessionInv, OpenSetTokenKeepsSessionInv, OpenInitKeepsSessionInv,
     OpenEndKeepsSessionInv, CloseDeviceKeepsSessionInv, CloseEndKeepsSessionInv DEF Continue
<1>6. ASSUME NEW s \in Clients, SessionCall(s)
      PROVE  SessionInv'
  BY <1>1, <1>2, <1>6, SetParameterKeepsSessionInv, InitKeepsSessionInv, FreeKeepsSessionInv,
     JobsKeepSessionInv DEF SessionCall, session_query_session_property, device_query_property
<1>7. ASSUME NEW j \in Jobs, job_free(j) \/ job_forward(j)
      PROVE  SessionInv'
  BY <1>1, <1>2, <1>7, JobsKeepSessionInv DEF job_forward
<1>8. CASE UNCHANGED vars
  BY <1>1, <1>8, UnchangedKeepsSessionInv DEF vars
<1> QED
  BY <1>3, <1>4, <1>5, <1>6, <1>7, <1>8 DEF Next

\* The invariant is inductive, whatever clients do and devices answer.
THEOREM SessionInvariant == Spec => []SessionInv
<1>1. Init /\ DriverInv => SessionInv
  <2> SUFFICES ASSUME Init, DriverInv PROVE SessionInv
    OBVIOUS
  <2> USE DEF Init
  <2>1. /\ call.at = "idle" /\ call.devices = <<>> /\ call.closing = {}
        /\ \A s \in Clients : session[s].status = "FREE" /\ session[s].device_list = <<>>
        /\ \A d \in Devices : device[d].status = "FREE"
    BY IdleType DEF NoSession, NoDevice
  <2>2. OneOwner
    <3>1. Held = {} /\ \A s \in Clients : DevicesOf(s) = {}
      BY <2>1, EmptyList DEF Held, DevicesOf
    <3> QED
      BY <2>1, <3>1, EmptyList DEF OneOwner
  <2>3. DevicesLoaded /\ OpeningLocals /\ SessionsComplete
    BY <2>1 DEF DevicesLoaded, OpeningLocals, Opening, SessionsComplete
  <2>4. DistinctConfigured /\ WritableSessions /\ JobsOnWritableSessions
    BY <2>1, EmptyList DEF DistinctConfigured, Distinct, WritableSessions, Opening,
       JobsOnWritableSessions
  <2> QED
    BY <2>2, <2>3, <2>4 DEF SessionInv
<1>2. SessionInv /\ [Next]_vars => SessionInv'
  BY StepKeepsSessionInv
<1> QED
  BY <1>1, <1>2, DriverInvariant, PTL DEF Spec

\* Every open device session has exactly one owner, which will free it, and its
\* library is initialized; what is not open has no owner (QDMI_session_init,
\* QDMI_session_free).
THEOREM DevicesOwnedOnce == Spec => []DevicesOwned
<1>1. SessionInv => DevicesOwned
  <2> SUFFICES ASSUME SessionInv, NEW d \in Devices
               PROVE  /\ Cardinality(Owners(d)) = IF device[d].status = "FREE" THEN 0 ELSE 1
                      /\ device[d].status # "FREE" => provider[device[d].library] = 1
    BY DEF DevicesOwned
  <2> USE DEF SessionInv
  <2> DEFINE sessionOwners == {s \in Clients : d \in DevicesOf(s)}
             callOwners == {where \in {"devices", "closing"} :
                              d \in IF where = "devices" THEN DeviceSet(call.devices)
                                                         ELSE call.closing}
  <2>1. Owners(d) = sessionOwners \cup callOwners
    BY DEF Owners, DevicesOf
  <2>2. \A s, t \in sessionOwners : s = t
    BY DEF OneOwner
  <2>3. \A s, t \in callOwners : s = t
    BY DEF OneOwner
  <2>4. sessionOwners = {} \/ callOwners = {}
    BY DEF OneOwner, Held
  <2>5. sessionOwners \cup callOwners # {} <=> device[d].status # "FREE"
    <3>1. callOwners # {} <=> d \in Held
      <4>1. d \in DeviceSet(call.devices) => "devices" \in callOwners
        OBVIOUS
      <4>2. d \in call.closing => "closing" \in callOwners
        OBVIOUS
      <4> QED
        BY <4>1, <4>2 DEF Held
    <3>2. sessionOwners # {} <=> \E s \in Clients : d \in DevicesOf(s)
      OBVIOUS
    <3> QED
      BY <3>1, <3>2 DEF OneOwner
  <2> HIDE DEF sessionOwners, callOwners
  <2>6. Cardinality(Owners(d)) = IF device[d].status = "FREE" THEN 0 ELSE 1
    <3>1. CASE device[d].status = "FREE"
      BY <2>1, <2>5, <3>1, FS_EmptySet
    <3>2. CASE device[d].status # "FREE"
      <4>1. PICK o : o \in Owners(d)
        BY <2>1, <2>5, <3>2
      <4>2. Owners(d) = {o}
        BY <2>1, <2>2, <2>3, <2>4, <4>1
      <4> QED
        BY <3>2, <4>2, FS_Singleton
    <3> QED
      BY <3>1, <3>2
  <2>7. device[d].status # "FREE" => provider[device[d].library] = 1
    <3>1. libraries \subseteq Library /\ libraries \subseteq Loaded
      BY DEF DriverInv, TypeOK, Loaded
    <3> QED
      BY <3>1 DEF DevicesLoaded, DriverInv, Accounted, AccountsFor
  <2> QED
    BY <2>6, <2>7
<1> QED
  BY <1>1, SessionInvariant, PTL

\* A client sees the whole list of configured devices, all initialized, or none.
THEOREM SessionsAllOrNothing == Spec => []SessionsComplete
<1>1. SessionInv => SessionsComplete
  BY DEF SessionInv
<1> QED
  BY <1>1, SessionInvariant, PTL

\* A device ID of a session names one device.
THEOREM SessionIdsDistinct == Spec => []DistinctIds
<1>1. SessionInv => DistinctIds
  <2> SUFFICES ASSUME SessionInv, NEW s \in Clients,
                      NEW i \in 1..Len(session[s].device_list),
                      NEW k \in 1..Len(session[s].device_list),
                      device[session[s].device_list[i]].id = device[session[s].device_list[k]].id
               PROVE  i = k
    BY DEF DistinctIds
  <2>1. CASE session[s].status = "INITIALIZED"
    <3>1. /\ Len(session[s].device_list) = Len(configured_devices)
          /\ \A n \in 1..Len(session[s].device_list) :
               device[session[s].device_list[n]].id = configured_devices[n].id
      <4>1. /\ Len(session[s].device_list) = Len(configured_devices)
            /\ \A n \in 1..Len(session[s].device_list) :
                 device[session[s].device_list[n]] = Opened(n)
        BY <2>1 DEF SessionInv, SessionsComplete, Opened
      <4>2. \A n : Opened(n).id = configured_devices[n].id
        BY DEF Opened
      <4> QED
        BY <4>1, <4>2
    <3>2. configured_devices[i].id = configured_devices[k].id
      BY <3>1
    <3> QED
      BY <3>1, <3>2 DEF SessionInv, DistinctConfigured, Distinct
  <2>2. CASE session[s].status # "INITIALIZED"
    <3>1. Len(session[s].device_list) = 0
      BY <2>2, EmptyList DEF SessionInv, SessionsComplete
    <3> QED
      BY <3>1
  <2> QED
    BY <2>1, <2>2
<1> QED
  BY <1>1, SessionInvariant, PTL

\* No job belongs to a session without a token.
THEOREM JobsWritable == Spec => []JobsOnWritableSessions
<1>1. SessionInv => JobsOnWritableSessions
  BY DEF SessionInv
<1> QED
  BY <1>1, SessionInvariant, PTL
=============================================================================
