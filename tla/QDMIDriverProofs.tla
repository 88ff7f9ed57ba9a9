--------------------------- MODULE QDMIDriverProofs ---------------------------
(***************************************************************************)
(* Proofs about the driver, for any clients, devices, libraries and        *)
(* configurations, and any codes device calls return.                      *)
(***************************************************************************)
EXTENDS QDMIDriver, FiniteSetTheorems, SequenceTheorems, TLAPS

-----------------------------------------------------------------------------
(* The inductive invariant: libraries *)

\* The libraries that are loaded: those of the driver state, and those a call
\* has loaded so far or has still to unload.
Loaded == libraries \cup call.libraries

\* The libraries of S that share the handle h.
OfHandle(S, h) == {l \in S : l.handle = h}

LibrariesOf(list) == {list[i].library : i \in 1..Len(list)}

\* The session that is being freed is counted until its devices are closed.
Counted == sessions = Cardinality(LiveSessions) + (IF call.freeing THEN 1 ELSE 0)

\* What the locals of a call are at each point of it.
CallLocals ==
  /\ call.freeing => call.at = "close"
  /\ call.at \in {"load", "unload"} => sessions = 0
  /\ call.at \notin {"load", "unload"} => call.libraries = {}
  /\ call.at = "load" => /\ call.session \in Clients
                         /\ call.libraries = LibrariesOf(call.configured)
  /\ call.at \in {"open", "set_token", "init"} => /\ call.session \in Clients
                                                  /\ session[call.session].status = "ALLOCATED"
  /\ call.at \in {"set_token", "init"} => call.configured # <<>>

\* Without sessions nothing is configured.
Configuration ==
  /\ libraries = LibrariesOf(configured_devices)
  /\ sessions = 0 => configured_devices = <<>>

\* A loaded library was initialized once and opened once, and has its functions.
AccountsFor(S, initialized, opened) ==
  /\ IsFiniteSet(S)
  /\ initialized = [l \in Library |-> IF l \in S THEN 1 ELSE 0]
  /\ opened = [h \in Handles |-> Cardinality(OfHandle(S, h))]
  /\ \A l \in S : RequiredSymbols \subseteq Exports[l]

Accounted == AccountsFor(Loaded, provider, opens)

DriverInv ==
  /\ TypeOK
  /\ Counted
  /\ CallLocals
  /\ Configuration
  /\ Accounted

-----------------------------------------------------------------------------
(* Lemmas about lists and sets *)

\* No configured device, no library.
LEMMA NoLibraries == LibrariesOf(<<>>) = {}
BY DEF LibrariesOf

\* A configured device adds its library to those of the list.
LEMMA OneMoreLibrary ==
  ASSUME NEW list \in Seq(Configured_Device), NEW library \in Library, NEW id \in Ids
  PROVE  LET more == Append(list, [library |-> library, id |-> id])
         IN  /\ more \in Seq(Configured_Device)
             /\ LibrariesOf(more) = LibrariesOf(list) \cup {library}
<1> DEFINE e == [library |-> library, id |-> id]
           more == Append(list, e)
<1>1. e \in Configured_Device /\ e.library = library
  BY DEF Configured_Device
<1>2. /\ more \in Seq(Configured_Device)
      /\ Len(more) = Len(list) + 1
      /\ \A i \in 1..Len(list) : more[i] = list[i]
      /\ more[Len(list) + 1] = e
  BY <1>1
<1>3. Len(list) \in Nat
  OBVIOUS
<1> HIDE DEF e, more
<1>4. LibrariesOf(more) \subseteq LibrariesOf(list) \cup {library}
  <2> SUFFICES ASSUME NEW i \in 1..Len(more)
               PROVE  more[i].library \in LibrariesOf(list) \cup {library}
    BY DEF LibrariesOf
  <2>1. CASE i \in 1..Len(list)
    BY <1>2, <2>1 DEF LibrariesOf
  <2>2. CASE i = Len(list) + 1
    BY <1>1, <1>2, <2>2
  <2> QED
    BY <1>2, <1>3, <2>1, <2>2
<1>5. LibrariesOf(list) \cup {library} \subseteq LibrariesOf(more)
  <2>1. ASSUME NEW i \in 1..Len(list)
        PROVE  list[i].library \in LibrariesOf(more)
    <3>1. i \in 1..Len(more) /\ more[i] = list[i]
      BY <1>2, <1>3
    <3> QED
      BY <3>1 DEF LibrariesOf
  <2>2. library \in LibrariesOf(more)
    <3>1. Len(list) + 1 \in 1..Len(more)
      BY <1>2, <1>3
    <3> QED
      BY <1>1, <1>2, <3>1 DEF LibrariesOf
  <2> QED
    BY <2>1, <2>2 DEF LibrariesOf
<1> QED
  BY <1>2, <1>4, <1>5 DEF e, more

\* What a list of configured devices names are libraries.
LEMMA ListsAreLibraries ==
  ASSUME NEW list \in Seq(Configured_Device)
  PROVE  LibrariesOf(list) \subseteq Library
<1> SUFFICES ASSUME NEW i \in 1..Len(list)
             PROVE  list[i].library \in Library
  BY DEF LibrariesOf
<1>1. list[i] \in Configured_Device
  BY ElementOfSeq
<1> QED
  BY <1>1 DEF Configured_Device

\* What a list of device handles holds are devices.
LEMMA ListsHoldDevices ==
  ASSUME NEW list \in Seq(Devices)
  PROVE  DeviceSet(list) \subseteq Devices
<1> SUFFICES ASSUME NEW i \in 1..Len(list)
             PROVE  list[i] \in Devices
  BY DEF DeviceSet
<1> QED
  BY ElementOfSeq

\* Opening a library raises the count of its handle by one.
LEMMA OneMoreOpen ==
  ASSUME NEW S, IsFiniteSet(S), NEW library, library \notin S, NEW h
  PROVE  Cardinality(OfHandle(S \cup {library}, h)) =
           IF library.handle = h THEN Cardinality(OfHandle(S, h)) + 1
                                 ELSE Cardinality(OfHandle(S, h))
<1>1. IsFiniteSet(OfHandle(S, h))
  BY FS_Subset DEF OfHandle
<1>2. library \notin OfHandle(S, h)
  BY DEF OfHandle
<1>3. OfHandle(S \cup {library}, h) =
        IF library.handle = h THEN OfHandle(S, h) \cup {library} ELSE OfHandle(S, h)
  BY DEF OfHandle
<1>4. Cardinality(OfHandle(S, h) \cup {library}) = Cardinality(OfHandle(S, h)) + 1
  BY <1>1, <1>2, FS_AddElement
<1> QED
  BY <1>3, <1>4

\* Closing a library lowers the count of its handle by one.
LEMMA OneLessOpen ==
  ASSUME NEW S, IsFiniteSet(S), NEW library \in S, NEW h
  PROVE  /\ Cardinality(OfHandle(S, h)) \in Nat
         /\ Cardinality(OfHandle(S \ {library}, h)) \in Nat
         /\ Cardinality(OfHandle(S \ {library}, h)) =
              IF library.handle = h THEN Cardinality(OfHandle(S, h)) - 1
                                    ELSE Cardinality(OfHandle(S, h))
<1>1. IsFiniteSet(OfHandle(S, h)) /\ IsFiniteSet(OfHandle(S \ {library}, h))
  <2>1. IsFiniteSet(S \ {library})
    BY FS_Subset
  <2> QED
    BY <2>1, FS_Subset DEF OfHandle
<1>2. OfHandle(S \ {library}, h) =
        IF library.handle = h THEN OfHandle(S, h) \ {library} ELSE OfHandle(S, h)
  BY DEF OfHandle
<1>3. library.handle = h => library \in OfHandle(S, h)
  BY DEF OfHandle
<1>4. library \in OfHandle(S, h) =>
        Cardinality(OfHandle(S, h) \ {library}) = Cardinality(OfHandle(S, h)) - 1
  BY <1>1, FS_RemoveElement
<1>5. /\ Cardinality(OfHandle(S, h)) \in Nat
      /\ Cardinality(OfHandle(S \ {library}, h)) \in Nat
  BY <1>1, FS_CardinalityType
<1> QED
  BY <1>2, <1>3, <1>4, <1>5

-----------------------------------------------------------------------------
(* Lemmas about the driver's state *)

\* Between calls nothing of a call is left, and the locals are typed.
LEMMA IdleType == /\ Idle \in Call
                  /\ Idle = [at |-> "idle", session |-> NULL, lines |-> <<>>,
                             libraries |-> {}, configured |-> <<>>, devices |-> <<>>,
                             closing |-> {}, freeing |-> FALSE, ret |-> "SUCCESS"]
BY EmptySeq DEF Idle, Call, Point

\* A session has its type when it is absent and when it is allocated.
LEMMA NewSessionType == NoSession \in Session_impl /\ NewSession \in Session_impl
BY EmptySeq DEF NewSession, NoSession, Session_impl

\* The number of sessions is a number; a session more or less counts.
LEMMA SessionsAreFinite ==
  /\ IsFiniteSet(LiveSessions)
  /\ Cardinality(LiveSessions) \in Nat
  /\ \A s : /\ s \notin LiveSessions => Cardinality(LiveSessions \cup {s}) = Cardinality(LiveSessions) + 1
            /\ s \in LiveSessions => Cardinality(LiveSessions \ {s}) = Cardinality(LiveSessions) - 1
            /\ s \in LiveSessions => Cardinality(LiveSessions) > 0
  /\ Cardinality(LiveSessions) = 0 => LiveSessions = {}
<1>1. IsFiniteSet(LiveSessions)
  BY FS_Subset, DriverAssumption DEF LiveSessions
<1>2. Cardinality(LiveSessions) \in Nat
  BY <1>1, FS_CardinalityType
<1>3. Cardinality(LiveSessions) = 0 => LiveSessions = {}
  BY <1>1, FS_EmptySet
<1>4. ASSUME NEW s
      PROVE  /\ s \notin LiveSessions => Cardinality(LiveSessions \cup {s}) = Cardinality(LiveSessions) + 1
             /\ s \in LiveSessions => Cardinality(LiveSessions \ {s}) = Cardinality(LiveSessions) - 1
  BY <1>1, FS_AddElement, FS_RemoveElement
<1> QED
  BY <1>1, <1>2, <1>3, <1>4

\* The accounts are numbers.
LEMMA AccountsType ==
  ASSUME NEW S, NEW initialized, NEW opened, AccountsFor(S, initialized, opened)
  PROVE  initialized \in [Library -> Nat] /\ opened \in [Handles -> Nat]
<1>1. ASSUME NEW h \in Handles
      PROVE  Cardinality(OfHandle(S, h)) \in Nat
  <2>1. IsFiniteSet(OfHandle(S, h))
    BY FS_Subset DEF AccountsFor, OfHandle
  <2> QED
    BY <2>1, FS_CardinalityType
<1> QED
  BY <1>1 DEF AccountsFor

\* The accounts follow when a library is loaded.
LEMMA OneMoreAccount ==
  ASSUME NEW S, NEW initialized, NEW opened, AccountsFor(S, initialized, opened),
         NEW library \in Library, library \notin S, RequiredSymbols \subseteq Exports[library]
  PROVE  AccountsFor(S \cup {library}, [initialized EXCEPT ![library] = @ + 1],
                     [opened EXCEPT ![library.handle] = @ + 1])
<1> DEFINE more == [initialized EXCEPT ![library] = @ + 1]
           moreOpened == [opened EXCEPT ![library.handle] = @ + 1]
<1>1. IsFiniteSet(S \cup {library})
  BY FS_AddElement DEF AccountsFor
<1>2. more = [l \in Library |-> IF l \in S \cup {library} THEN 1 ELSE 0]
  BY DEF AccountsFor
<1>3. moreOpened = [h \in Handles |-> Cardinality(OfHandle(S \cup {library}, h))]
  <2>1. \A h \in Handles : Cardinality(OfHandle(S \cup {library}, h)) =
          IF library.handle = h THEN opened[h] + 1 ELSE opened[h]
    BY OneMoreOpen DEF AccountsFor
  <2> QED
    BY <2>1 DEF AccountsFor
<1> QED
  BY <1>1, <1>2, <1>3 DEF AccountsFor

\* So they do when a library is unloaded.
LEMMA OneLessAccount ==
  ASSUME NEW S, NEW initialized, NEW opened, AccountsFor(S, initialized, opened),
         NEW library \in Library, library \in S
  PROVE  AccountsFor(S \ {library}, [initialized EXCEPT ![library] = @ - 1],
                     [opened EXCEPT ![library.handle] = @ - 1])
<1> DEFINE less == [initialized EXCEPT ![library] = @ - 1]
           lessOpened == [opened EXCEPT ![library.handle] = @ - 1]
<1>1. IsFiniteSet(S \ {library})
  BY FS_RemoveElement DEF AccountsFor
<1>2. less = [l \in Library |-> IF l \in S \ {library} THEN 1 ELSE 0]
  BY DEF AccountsFor
<1>3. lessOpened = [h \in Handles |-> Cardinality(OfHandle(S \ {library}, h))]
  <2>1. \A h \in Handles : Cardinality(OfHandle(S \ {library}, h)) =
          IF library.handle = h THEN opened[h] - 1 ELSE opened[h]
    BY OneLessOpen DEF AccountsFor
  <2> QED
    BY <2>1 DEF AccountsFor
<1> QED
  BY <1>1, <1>2, <1>3 DEF AccountsFor

\* A step that leaves the libraries and their counts alone keeps the accounts.
LEMMA AccountsFrame ==
  ASSUME Accounted, UNCHANGED <<opens, provider>>, Loaded' = Loaded
  PROVE  Accounted'
BY DEF Accounted

\* A call that changes no object keeps the invariant, whatever it returns.
LEMMA ReturnsKeepsInv ==
  ASSUME DriverInv, NEW code, Returns(code)
  PROVE  DriverInv'
<1> USE DEF DriverInv, Returns, external, driverState, objects
<1>1. TypeOK'
  BY DEF TypeOK
<1>2. Counted'
  BY DEF Counted, LiveSessions, LiveSession
<1>3. CallLocals' /\ Configuration'
  BY DEF CallLocals, Configuration, LibrariesOf
<1>4. Accounted'
  BY AccountsFrame DEF Loaded
<1> QED
  BY <1>1, <1>2, <1>3, <1>4

-----------------------------------------------------------------------------
(* Loading and unloading *)

\* QDMI_session_alloc counts a session, or starts to load with no accounts open.
LEMMA AllocKeepsInv ==
  ASSUME DriverInv, session_alloc
  PROVE  DriverInv'
<1> USE DEF DriverInv, external, driverState, objects
<1>1. call.at = "idle" /\ call.libraries = {} /\ ~call.freeing
  BY DEF session_alloc, Entry, CallLocals, TypeOK, Call
<1>2. ASSUME NEW code, Returns(code)
      PROVE  DriverInv'
  BY <1>2, ReturnsKeepsInv
<1>3. ASSUME NEW s \in Clients, NEW config \in Configs, sessions = 0,
             call' = [Idle EXCEPT !.at = "load", !.session = s, !.lines = config],
             UNCHANGED <<external, driverState, objects, ret>>
      PROVE  DriverInv'
  <2>1. /\ call'.at = "load" /\ call'.session = s /\ call'.libraries = {}
        /\ call'.configured = <<>> /\ ~call'.freeing
    BY <1>3, IdleType
  <2>2. TypeOK'
    <3>1. config \in Seq(Line)
      BY DriverAssumption
    <3>2. call' \in Call
      BY <1>3, <3>1, IdleType DEF Call, Point
    <3> QED
      BY <1>3, <3>2 DEF TypeOK
  <2>3. Counted'
    BY <1>1, <1>3, <2>1 DEF Counted, LiveSessions, LiveSession
  <2>4. CallLocals'
    BY <1>3, <2>1, NoLibraries DEF CallLocals
  <2>5. Configuration'
    BY <1>3 DEF Configuration, LibrariesOf
  <2>6. Accounted'
    BY <1>1, <1>3, <2>1, AccountsFrame DEF Loaded
  <2> QED
    BY <2>2, <2>3, <2>4, <2>5, <2>6
<1>4. ASSUME NEW s \in Clients \ LiveSessions, sessions > 0,
             session' = [session EXCEPT ![s] = NewSession], sessions' = sessions + 1,
             UNCHANGED <<external, libraries, configured_devices, device, job, call>>
      PROVE  DriverInv'
  <2>1. TypeOK'
    BY <1>4, NewSessionType DEF TypeOK
  <2>2. LiveSessions' = LiveSessions \cup {s}
    BY <1>4 DEF TypeOK, LiveSessions, LiveSession, NewSession, NoSession
  <2>3. Counted'
    BY <1>1, <1>4, <2>2, SessionsAreFinite DEF Counted
  <2>4. CallLocals'
    BY <1>1, <1>4 DEF CallLocals
  <2>5. Configuration'
    BY <1>4 DEF Configuration, LibrariesOf, TypeOK
  <2>6. Accounted'
    BY <1>4, AccountsFrame DEF Loaded
  <2> QED
    BY <2>1, <2>3, <2>4, <2>5, <2>6
<1> QED
  BY <1>2, <1>3, <1>4 DEF session_alloc

\* A call that fails while it loads goes on to release the libraries it has
\* loaded so far, together with the one at hand.
LEMMA FailLoadKeepsInv ==
  ASSUME DriverInv, call.at = "load", sessions = 0, UNCHANGED <<driverState, objects>>,
         NEW code \in Errors \cup {"SUCCESS", "FATAL", "OUTOFMEM"}, NEW loaded,
         loaded \subseteq Library,
         call' = [Idle EXCEPT !.at = "unload", !.libraries = loaded, !.ret = code],
         AccountsFor(libraries \cup loaded, provider', opens')
  PROVE  DriverInv'
<1> USE DEF DriverInv, driverState, objects
<1>1. /\ call'.at = "unload" /\ call'.libraries = loaded /\ ~call'.freeing
      /\ ~call.freeing
  BY IdleType DEF CallLocals
<1>2. Accounted'
  BY <1>1 DEF Accounted, Loaded
<1>3. TypeOK'
  <2>1. call' \in Call
    BY IdleType DEF Call, Point
  <2>2. opens' \in [Handles -> Nat] /\ provider' \in [Library -> Nat]
    BY AccountsType
  <2> QED
    BY <2>1, <2>2 DEF TypeOK
<1>4. Counted'
  BY <1>1 DEF Counted, LiveSessions, LiveSession
<1>5. CallLocals' /\ Configuration'
  BY <1>1 DEF CallLocals, Configuration, LibrariesOf
<1> QED
  BY <1>2, <1>3, <1>4, <1>5

\* A line loads at most one library, or destroys those loaded so far.
LEMMA LoadLineKeepsInv ==
  ASSUME DriverInv, load_line
  PROVE  DriverInv'
<1> USE DEF DriverInv, external, driverState, objects
<1>1. /\ call.at = "load" /\ sessions = 0 /\ call.lines # <<>>
      /\ call.libraries \subseteq Library /\ ~call.freeing
      /\ call.session \in Clients /\ call.libraries = LibrariesOf(call.configured)
      /\ UNCHANGED <<driverState, objects, ret>>
  BY DEF load_line, CallLocals, TypeOK, Call
<1>2. /\ call.lines \in Seq(Line) /\ Head(call.lines) \in Line
      /\ Tail(call.lines) \in Seq(Line)
  BY <1>1, HeadTailProperties DEF TypeOK, Call
<1>3. AccountsFor(libraries \cup call.libraries, provider, opens)
  BY DEF Accounted, Loaded
<1>4. ASSUME NEW code \in {"FATAL", "OUTOFMEM"}, Fail_load(code), UNCHANGED external
      PROVE  DriverInv'
  BY <1>1, <1>3, <1>4, FailLoadKeepsInv DEF Fail_load
<1>5. CASE call' = [call EXCEPT !.lines = Tail(@)] /\ UNCHANGED external
  <2>1. /\ call'.at = "load" /\ call'.libraries = call.libraries /\ ~call'.freeing
        /\ call'.session = call.session /\ call'.configured = call.configured
        /\ call' \in Call
    BY <1>1, <1>2, <1>5 DEF TypeOK, Call
  <2>2. TypeOK'
    BY <1>1, <1>5, <2>1 DEF TypeOK
  <2>3. Counted'
    BY <1>1, <2>1 DEF Counted, LiveSessions, LiveSession
  <2>4. CallLocals' /\ Configuration'
    BY <1>1, <2>1 DEF CallLocals, Configuration, LibrariesOf
  <2>5. Accounted'
    BY <1>1, <1>5, <2>1, AccountsFrame DEF Loaded
  <2> QED
    BY <2>2, <2>3, <2>4, <2>5
<1>6. ASSUME NEW library \in Library, NEW id \in Ids, library_load(library, id)
      PROVE  DriverInv'
  <2> DEFINE line == [library |-> library, id |-> id]
             more == Append(call.configured, line)
  <2>1. /\ more \in Seq(Configured_Device)
        /\ LibrariesOf(more) = call.libraries \cup {library}
    BY <1>1, OneMoreLibrary DEF TypeOK, Call
  <2> HIDE DEF more
  <2>2. ASSUME call' = [call EXCEPT !.lines = Tail(@),
                                    !.libraries = call.libraries \cup {library},
                                    !.configured = more],
               AccountsFor(libraries \cup call.libraries \cup {library}, provider', opens')
        PROVE  DriverInv'
    <3>1. /\ call'.at = "load" /\ call'.libraries = call.libraries \cup {library}
          /\ ~call'.freeing /\ call'.session = call.session /\ call'.configured = more
          /\ call' \in Call
      BY <1>1, <1>2, <2>1, <2>2 DEF TypeOK, Call
    <3>2. TypeOK'
      BY <1>1, <2>2, <3>1, AccountsType DEF TypeOK
    <3>3. Counted'
      BY <1>1, <3>1 DEF Counted, LiveSessions, LiveSession
    <3>4. CallLocals' /\ Configuration'
      BY <1>1, <2>1, <3>1 DEF CallLocals, Configuration, LibrariesOf
    <3>5. Loaded' = libraries \cup call.libraries \cup {library}
      BY <1>1, <3>1 DEF Loaded
    <3>6. Accounted'
      BY <2>2, <3>5 DEF Accounted
    <3> QED
      BY <3>2, <3>3, <3>4, <3>6
  <2>3. CASE /\ library \in call.libraries
             /\ call' = [call EXCEPT !.lines = Tail(@), !.configured = more]
             /\ UNCHANGED external
    <3>1. call' = [call EXCEPT !.lines = Tail(@), !.libraries = call.libraries \cup {library},
                               !.configured = more]
      BY <2>3 DEF TypeOK, Call
    <3>2. libraries \cup call.libraries \cup {library} = libraries \cup call.libraries
      BY <2>3
    <3> QED
      BY <1>3, <2>2, <2>3, <3>1, <3>2
  <2>4. CASE /\ library \notin call.libraries
             /\ SymbolsResolve(library)
             /\ opens' = [opens EXCEPT ![library.handle] = @ + 1]
             /\ provider' = [provider EXCEPT ![library] = @ + 1]
             /\ \/ call' = [call EXCEPT !.lines = Tail(@), !.libraries = @ \cup {library},
                                        !.configured = more]
                \/ call' = [Idle EXCEPT !.at = "unload",
                                        !.libraries = call.libraries \cup {library},
                                        !.ret = "OUTOFMEM"]
    <3>1. libraries = {}
      BY <1>1, NoLibraries DEF Configuration
    <3>2. AccountsFor(libraries \cup call.libraries \cup {library}, provider', opens')
      BY <1>3, <2>4, <3>1, OneMoreAccount DEF SymbolsResolve
    <3>3. CASE call' = [call EXCEPT !.lines = Tail(@), !.libraries = @ \cup {library},
                                    !.configured = more]
      <4>1. call' = [call EXCEPT !.lines = Tail(@),
                                 !.libraries = call.libraries \cup {library},
                                 !.configured = more]
        BY <3>3 DEF TypeOK, Call
      <4> QED
        BY <2>2, <3>2, <4>1
    <3>4. CASE call' = [Idle EXCEPT !.at = "unload", !.libraries = call.libraries \cup {library},
                                    !.ret = "OUTOFMEM"]
      <4>1. call.libraries \cup {library} \subseteq Library
        BY <1>1
      <4>2. AccountsFor(libraries \cup (call.libraries \cup {library}), provider', opens')
        <5>1. libraries \cup (call.libraries \cup {library}) =
                libraries \cup call.libraries \cup {library}
          OBVIOUS
        <5> QED
          BY <3>2, <5>1
      <4> QED
        BY <1>1, <3>4, <4>1, <4>2, FailLoadKeepsInv
    <3> QED
      BY <2>4, <3>3, <3>4
  <2> QED
    BY <1>4, <1>6, <2>3, <2>4 DEF library_load, more
<1>7. \A line \in Line : line.kind = "device" => line.library \in Library /\ line.id \in Ids
  BY DEF Line
<1> QED
  BY <1>1, <1>2, <1>4, <1>5, <1>6, <1>7 DEF load_line

\* The driver state takes over all that was loaded, with its first session.
LEMMA LoadEndKeepsInv ==
  ASSUME DriverInv, load_end
  PROVE  DriverInv'
<1> USE DEF DriverInv, load_end, external
<1>1. /\ call.session \in Clients /\ call.libraries = LibrariesOf(call.configured)
      /\ sessions = 0 /\ ~call.freeing /\ libraries = {}
  BY NoLibraries DEF CallLocals, Configuration
<1>2. LiveSessions = {}
  BY <1>1, SessionsAreFinite DEF Counted
<1>3. TypeOK'
  BY <1>1, IdleType, NewSessionType DEF TypeOK, Call
<1>4. Counted'
  <2>1. LiveSessions' = LiveSessions \cup {call.session} /\ call.session \notin LiveSessions
    BY <1>1, <1>2 DEF TypeOK, LiveSessions, LiveSession, NewSession, NoSession
  <2>2. Cardinality(LiveSessions') = 1
    BY <1>2, <2>1, FS_Singleton
  <2> QED
    BY <1>1, <2>2, IdleType DEF Counted
<1>5. CallLocals'
  BY IdleType DEF CallLocals
<1>6. Configuration'
  BY <1>1 DEF Configuration, LibrariesOf
<1>7. Accounted'
  BY <1>1, IdleType, AccountsFrame DEF Loaded
<1> QED
  BY <1>3, <1>4, <1>5, <1>6, <1>7

\* A library that is destroyed is finalized and closed.
LEMMA UnloadKeepsInv ==
  ASSUME DriverInv, unload_library \/ unload_end
  PROVE  DriverInv'
<1> USE DEF DriverInv, external, driverState, objects
<1>1. ASSUME NEW library \in call.libraries, call.at = "unload",
             provider' = [provider EXCEPT ![library] = @ - 1],
             opens' = [opens EXCEPT ![library.handle] = @ - 1],
             call' = [call EXCEPT !.libraries = @ \ {library}],
             UNCHANGED <<driverState, objects, ret>>
      PROVE  DriverInv'
  <2>1. /\ call'.at = "unload" /\ call'.libraries = call.libraries \ {library}
        /\ call'.freeing = call.freeing /\ call'.configured = call.configured
        /\ call' \in Call /\ library \in Library
    BY <1>1 DEF TypeOK, Call
  <2>2. libraries = {} /\ sessions = 0
    BY <1>1, NoLibraries DEF CallLocals, Configuration
  <2>3. Loaded' = Loaded \ {library} /\ library \in Loaded
    BY <1>1, <2>1, <2>2 DEF Loaded
  <2>4. Accounted'
    BY <1>1, <2>1, <2>3, OneLessAccount DEF Accounted
  <2>5. TypeOK'
    BY <1>1, <2>1, <2>4, AccountsType DEF TypeOK, Accounted
  <2>6. Counted'
    BY <1>1, <2>1 DEF Counted, LiveSessions, LiveSession
  <2>7. CallLocals' /\ Configuration'
    BY <1>1, <2>1 DEF CallLocals, Configuration, LibrariesOf
  <2> QED
    BY <2>4, <2>5, <2>6, <2>7
<1>2. CASE unload_end
  <2> USE <1>2 DEF unload_end
  <2>1. TypeOK'
    BY IdleType DEF TypeOK
  <2>2. Counted'
    BY IdleType DEF Counted, LiveSessions, LiveSession, CallLocals
  <2>3. CallLocals' /\ Configuration'
    BY IdleType DEF CallLocals, Configuration, LibrariesOf
  <2>4. Accounted'
    BY IdleType, AccountsFrame DEF Loaded
  <2> QED
    BY <2>1, <2>2, <2>3, <2>4
<1> QED
  BY <1>1, <1>2 DEF unload_library

-----------------------------------------------------------------------------
(* Sessions *)

\* A step that leaves the libraries, the counter and the set of sessions alone,
\* and in which no call loads, keeps the invariant when the locals and the types
\* are right.
LEMMA SessionStepKeepsInv ==
  ASSUME DriverInv, UNCHANGED <<external, driverState>>, LiveSessions' = LiveSessions,
         call.libraries = {}, call'.libraries = {}, (call'.freeing <=> call.freeing),
         device' \in [Devices -> Device_impl], session' \in [Clients -> Session_impl],
         job' \in [Jobs -> Devices \cup {NULL}], call' \in Call, CallLocals'
  PROVE  DriverInv'
<1> USE DEF DriverInv, external, driverState
<1>1. TypeOK'
  BY DEF TypeOK
<1>2. Counted' /\ Configuration'
  BY DEF Counted, Configuration, LibrariesOf
<1>3. Accounted'
  BY AccountsFrame DEF Loaded
<1> QED
  BY <1>1, <1>2, <1>3

\* The token of a session touches no library.
LEMMA SetParameterKeepsInv ==
  ASSUME DriverInv, NEW s \in Clients, session_set_parameter(s)
  PROVE  DriverInv'
<1> USE DEF DriverInv
<1>1. ASSUME NEW code, Returns(code)
      PROVE  DriverInv'
  BY <1>1, ReturnsKeepsInv
<1>2. ASSUME NEW token \in {"empty", "set"},
             session' = [session EXCEPT ![s].token = token],
             UNCHANGED <<external, driverState, device, job, call>>
      PROVE  DriverInv'
  <2>1. session' \in [Clients -> Session_impl] /\ LiveSessions' = LiveSessions
    BY <1>2 DEF TypeOK, Session_impl, LiveSessions, LiveSession
  <2>2. call.at = "idle"
    BY DEF session_set_parameter, Entry
  <2>3. CallLocals'
    BY <1>2, <2>2 DEF CallLocals
  <2> QED
    BY <1>2, <2>1, <2>2, <2>3, SessionStepKeepsInv DEF TypeOK, CallLocals, driverState
<1> QED
  BY <1>1, <1>2 DEF session_set_parameter

\* QDMI_session_init starts to open all configured devices.
LEMMA InitKeepsInv ==
  ASSUME DriverInv, NEW s \in Clients, session_init(s)
  PROVE  DriverInv'
<1> USE DEF DriverInv
<1>1. ASSUME NEW code, Returns(code)
      PROVE  DriverInv'
  BY <1>1, ReturnsKeepsInv
<1>2. ASSUME session[s].status = "ALLOCATED",
             session' = [session EXCEPT ![s].mode =
                           IF session[s].token = "empty" THEN "READONLY" ELSE "READWRITE"],
             call' = [Idle EXCEPT !.at = "open", !.session = s,
                                  !.configured = configured_devices],
             UNCHANGED <<external, driverState, device, job, ret>>
      PROVE  DriverInv'
  <2>1. /\ session' \in [Clients -> Session_impl] /\ LiveSessions' = LiveSessions
        /\ session'[s].status = "ALLOCATED"
    BY <1>2 DEF TypeOK, Session_impl, LiveSessions, LiveSession
  <2>2. call.at = "idle" /\ ~call.freeing /\ call.libraries = {}
    BY DEF session_init, Entry, CallLocals, TypeOK, Call
  <2>3. /\ call'.at = "open" /\ call'.session = s /\ call'.libraries = {} /\ ~call'.freeing
        /\ call' \in Call
    BY <1>2, IdleType DEF TypeOK, Call, Point, driverState
  <2>4. CallLocals'
    BY <2>1, <2>3 DEF CallLocals
  <2> QED
    BY <1>2, <2>1, <2>2, <2>3, <2>4, SessionStepKeepsInv DEF TypeOK, Call
<1> QED
  BY <1>1, <1>2 DEF session_init

\* A failing QDMI_session_init goes on to close the devices.
LEMMA FailInitKeepsInv ==
  ASSUME DriverInv, call.at \in {"open", "set_token", "init"},
         UNCHANGED <<external, driverState, session, job>>,
         device' \in [Devices -> Device_impl],
         NEW pending \in SUBSET Devices,
         NEW code \in Errors \cup {"SUCCESS", "FATAL", "OUTOFMEM"}, Fail_init(pending, code)
  PROVE  DriverInv'
<1> USE DEF DriverInv
<1>1. DeviceSet(call.devices) \subseteq Devices
  BY ListsHoldDevices DEF TypeOK, Call
<1>2. /\ call'.at = "close" /\ call'.libraries = {} /\ ~call'.freeing /\ call' \in Call
      /\ ~call.freeing /\ call.libraries = {}
  BY <1>1, IdleType DEF Fail_init, TypeOK, Call, Point, CallLocals
<1>3. CallLocals'
  BY <1>2 DEF CallLocals
<1>4. /\ LiveSessions' = LiveSessions
      /\ session' \in [Clients -> Session_impl] /\ job' \in [Jobs -> Devices \cup {NULL}]
  BY DEF TypeOK, LiveSessions, LiveSession
<1> QED
  BY <1>2, <1>3, <1>4, SessionStepKeepsInv

\* A call that goes on opening devices.
LEMMA OpenStepKeepsInv ==
  ASSUME DriverInv, call.at \in {"open", "set_token", "init"},
         UNCHANGED <<external, driverState, session, job>>,
         device' \in [Devices -> Device_impl], call' \in Call,
         call'.at \in {"open", "set_token", "init"}, call'.session = call.session,
         call'.at \in {"set_token", "init"} => call'.configured # <<>>,
         call'.libraries = call.libraries, (call'.freeing <=> call.freeing)
  PROVE  DriverInv'
<1> USE DEF DriverInv
<1>1. call.libraries = {}
  BY DEF CallLocals
<1>2. CallLocals'
  BY DEF CallLocals
<1> QED
  BY <1>1, <1>2, SessionStepKeepsInv DEF TypeOK, LiveSessions, LiveSession

\* The device calls that open a device touch no library.
LEMMA OpenDeviceKeepsInv ==
  ASSUME DriverInv, open_device \/ open_set_token \/ open_init
  PROVE  DriverInv'
<1> USE DEF DriverInv
<1>1. call.closing \subseteq Devices /\ call.devices \in Seq(Devices)
  BY DEF TypeOK, Call
<1>2. CASE open_device
  <2> USE <1>2 DEF open_device
  <2>1. ASSUME NEW code \in Errors \cup {"OUTOFMEM"}, Fail_init({}, code), UNCHANGED device
        PROVE  DriverInv'
    BY <2>1, FailInitKeepsInv DEF TypeOK
  <2>2. ASSUME NEW d \in Devices,
               device' = [device EXCEPT ![d] = [status  |-> "ALLOCATED",
                                                library |-> Head(call.configured).library,
                                                id      |-> Head(call.configured).id]],
               call' = [call EXCEPT !.at = "set_token", !.closing = {d}]
        PROVE  DriverInv'
    <3>1. Head(call.configured) \in Configured_Device
      BY HeadTailProperties DEF TypeOK, Call
    <3>2. device' \in [Devices -> Device_impl]
      BY <2>2, <3>1 DEF TypeOK, Device_impl, Configured_Device
    <3>3. /\ call' \in Call /\ call'.at = "set_token" /\ call'.session = call.session
          /\ call'.configured = call.configured
          /\ call'.libraries = call.libraries /\ call'.freeing = call.freeing
      BY <2>2 DEF TypeOK, Call, Point
    <3> QED
      BY <3>2, <3>3, OpenStepKeepsInv
  <2> QED
    BY <2>1, <2>2
<1>3. CASE open_set_token
  <2> USE <1>3 DEF open_set_token, objects
  <2>1. ASSUME NEW code \in Errors \cup {"OUTOFMEM"}, Fail_init(call.closing, code)
        PROVE  DriverInv'
    BY <1>1, <2>1, FailInitKeepsInv DEF TypeOK
  <2>2. CASE call' = [call EXCEPT !.at = "init"]
    <3>1. /\ call' \in Call /\ call'.at = "init" /\ call'.session = call.session
          /\ call'.libraries = call.libraries /\ call'.freeing = call.freeing
          /\ call'.configured # <<>>
      BY <2>2 DEF TypeOK, Call, Point, CallLocals
    <3> QED
      BY <3>1, OpenStepKeepsInv DEF TypeOK
  <2> QED
    BY <2>1, <2>2
<1>4. CASE open_init
  <2>1. /\ call.at = "init" /\ call.configured # <<>>
        /\ UNCHANGED <<external, driverState, session, job, ret>>
    BY <1>4 DEF open_init, CallLocals
  <2>2. PICK d \in call.closing :
          \/ /\ \E code \in Errors : Fail_init({d}, code)
             /\ UNCHANGED device
          \/ /\ device' = [device EXCEPT ![d].status = "INITIALIZED"]
             /\ \/ Fail_init({d}, "OUTOFMEM")
                \/ call' = [call EXCEPT !.at = "open", !.configured = Tail(@),
                                        !.devices = Append(@, d), !.closing = {}]
    BY <1>4 DEF open_init
  <2>3. device' \in [Devices -> Device_impl]
    <3>1. [device EXCEPT ![d].status = "INITIALIZED"] \in [Devices -> Device_impl]
      BY DEF TypeOK, Device_impl
    <3> QED
      BY <2>2, <3>1 DEF TypeOK
  <2>4. ASSUME NEW code \in Errors \cup {"OUTOFMEM"}, Fail_init({d}, code)
        PROVE  DriverInv'
    <3>1. {d} \in SUBSET Devices
      BY <1>1
    <3> QED
      BY <2>1, <2>3, <2>4, <3>1, FailInitKeepsInv
  <2>5. CASE call' = [call EXCEPT !.at = "open", !.configured = Tail(@),
                                  !.devices = Append(@, d), !.closing = {}]
    <3>1. Append(call.devices, d) \in Seq(Devices)
      BY <1>1
    <3>2. Tail(call.configured) \in Seq(Configured_Device)
      BY <2>1, HeadTailProperties DEF TypeOK, Call
    <3>3. /\ call' \in Call /\ call'.at = "open" /\ call'.session = call.session
          /\ call'.libraries = call.libraries /\ call'.freeing = call.freeing
      BY <2>5, <3>1, <3>2 DEF TypeOK, Call, Point
    <3> QED
      BY <2>1, <2>3, <3>3, OpenStepKeepsInv
  <2> QED
    BY <2>2, <2>4, <2>5
<1> QED
  BY <1>2, <1>3, <1>4

\* A session whose devices are open stays counted.
LEMMA OpenEndKeepsInv ==
  ASSUME DriverInv, open_end
  PROVE  DriverInv'
<1> USE DEF DriverInv, open_end
<1>1. /\ call.session \in Clients /\ session[call.session].status = "ALLOCATED"
      /\ ~call.freeing /\ call.libraries = {}
  BY DEF CallLocals
<1>2. session' \in [Clients -> Session_impl] /\ LiveSessions' = LiveSessions
  <2>1. call.devices \in Seq(Devices)
    BY DEF TypeOK, Call
  <2> DEFINE opened == [session[call.session] EXCEPT !.device_list = call.devices,
                                                     !.status = "INITIALIZED"]
  <2>2. session' = [session EXCEPT ![call.session] = opened]
    BY <1>1 DEF TypeOK, Session_impl
  <2>3. opened \in Session_impl /\ opened.status = "INITIALIZED"
    BY <1>1, <2>1 DEF TypeOK, Session_impl
  <2> HIDE DEF opened
  <2>4. session' \in [Clients -> Session_impl]
    BY <2>2, <2>3 DEF TypeOK
  <2>5. \A s \in Clients : LiveSession(s)' <=> LiveSession(s)
    BY <1>1, <2>2, <2>3 DEF TypeOK, LiveSession
  <2> QED
    BY <2>4, <2>5 DEF LiveSessions
<1>3. CallLocals'
  BY IdleType DEF CallLocals
<1>4. device' \in [Devices -> Device_impl] /\ job' \in [Jobs -> Devices \cup {NULL}]
  BY DEF TypeOK
<1> QED
  BY <1>1, <1>2, <1>3, <1>4, IdleType, SessionStepKeepsInv

\* A freed session is no longer counted; the last one hands the libraries to the
\* call that unloads them.
LEMMA CloseKeepsInv ==
  ASSUME DriverInv, close_device \/ close_end
  PROVE  DriverInv'
<1> USE DEF DriverInv
<1>1. CASE close_device
  <2> USE <1>1 DEF close_device
  <2>1. PICK d \in call.closing : /\ device' = [device EXCEPT ![d] = NoDevice]
                                  /\ call' = [call EXCEPT !.closing = @ \ {d}]
    OBVIOUS
  <2>2. device' \in [Devices -> Device_impl]
    BY <2>1 DEF TypeOK, NoDevice, Device_impl
  <2>3. /\ call' \in Call /\ call'.at = "close" /\ call'.libraries = {}
        /\ call.libraries = {} /\ call'.freeing = call.freeing
    BY <2>1 DEF TypeOK, Call, CallLocals
  <2>4. CallLocals'
    BY <2>3 DEF CallLocals
  <2> QED
    BY <2>2, <2>3, <2>4, SessionStepKeepsInv DEF TypeOK, LiveSessions, LiveSession
<1>2. CASE close_end /\ ~call.freeing
  <2> USE <1>2 DEF close_end, objects
  <2>1. call.libraries = {}
    BY DEF CallLocals
  <2>2. CallLocals'
    BY IdleType DEF CallLocals
  <2>3. /\ LiveSessions' = LiveSessions
        /\ device' \in [Devices -> Device_impl]
        /\ session' \in [Clients -> Session_impl] /\ job' \in [Jobs -> Devices \cup {NULL}]
    BY DEF TypeOK, LiveSessions, LiveSession
  <2>4. call' = Idle /\ UNCHANGED <<external, driverState>>
    OBVIOUS
  <2> QED
    BY <2>1, <2>2, <2>3, <2>4, IdleType, SessionStepKeepsInv
<1>3. CASE close_end /\ call.freeing
  <2> USE <1>3 DEF close_end, objects, external
  <2>1. /\ call.libraries = {} /\ sessions' = sessions - 1
        /\ sessions' = Cardinality(LiveSessions) /\ sessions' \in Nat
        /\ LiveSessions' = LiveSessions
    BY SessionsAreFinite DEF CallLocals, Counted, LiveSessions, LiveSession
  <2>2. CASE sessions' # 0 /\ call' = Idle /\ UNCHANGED <<libraries, configured_devices>>
    <3>1. TypeOK' /\ Counted' /\ CallLocals'
      BY <2>1, <2>2, IdleType DEF TypeOK, Counted, CallLocals
    <3>2. Configuration'
      BY <2>1, <2>2 DEF Configuration, LibrariesOf
    <3>3. Accounted'
      BY <2>1, <2>2, IdleType, AccountsFrame DEF Loaded
    <3> QED
      BY <3>1, <3>2, <3>3
  <2>3. CASE /\ sessions' = 0 /\ configured_devices' = <<>> /\ libraries' = {}
             /\ call' = [Idle EXCEPT !.at = "unload", !.libraries = libraries]
    <3>1. /\ call'.at = "unload" /\ call'.libraries = libraries /\ ~call'.freeing
          /\ call' \in Call
      BY <2>3, IdleType DEF TypeOK, Call, Point
    <3>2. TypeOK'
      BY <2>1, <2>3, <3>1, EmptySeq DEF TypeOK
    <3>3. Counted' /\ CallLocals'
      BY <2>1, <2>3, <3>1 DEF Counted, CallLocals
    <3>4. Configuration'
      BY <2>3, NoLibraries DEF Configuration, LibrariesOf
    <3>5. Accounted'
      BY <2>1, <2>3, <3>1, AccountsFrame DEF Loaded
    <3> QED
      BY <3>2, <3>3, <3>4, <3>5
  <2> QED
    BY <2>2, <2>3
<1> QED
  BY <1>1, <1>2, <1>3

\* A session that is being freed stays counted until its devices are closed.
LEMMA FreeKeepsInv ==
  ASSUME DriverInv, NEW s \in Clients, session_free(s)
  PROVE  DriverInv'
<1> USE DEF DriverInv, session_free, external, driverState
<1>1. call.at = "idle" /\ ~call.freeing /\ call.libraries = {}
  BY DEF Entry, CallLocals
<1>2. /\ call'.at = "close" /\ call'.libraries = {} /\ call'.freeing /\ call' \in Call
  <2>1. DeviceSet(session[s].device_list) \subseteq Devices
    BY ListsHoldDevices DEF TypeOK, Session_impl
  <2> QED
    BY <2>1, IdleType DEF Call, Point
<1>3. LiveSessions' = LiveSessions \ {s} /\ s \in LiveSessions
  BY DEF TypeOK, LiveSessions, LiveSession, NoSession
<1>4. TypeOK'
  BY <1>2, NewSessionType DEF TypeOK
<1>5. Counted'
  BY <1>1, <1>2, <1>3, SessionsAreFinite DEF Counted
<1>6. CallLocals' /\ Configuration'
  BY <1>2 DEF CallLocals, Configuration, LibrariesOf
<1>7. Accounted'
  BY <1>1, <1>2, AccountsFrame DEF Loaded
<1> QED
  BY <1>4, <1>5, <1>6, <1>7

-----------------------------------------------------------------------------
(* Jobs, and the theorems *)

\* Creating and freeing jobs touches neither sessions nor libraries.
LEMMA JobsKeepInv ==
  ASSUME DriverInv,
         \/ \E s \in Clients : \E i \in 1..Len(session[s].device_list) :
              device_create_job(s, i) \/ session_retrieve_job_by_id(s, i)
         \/ \E j \in Jobs : job_free(j)
  PROVE  DriverInv'
<1> USE DEF DriverInv
<1>1. ASSUME NEW code, Returns(code)
      PROVE  DriverInv'
  BY <1>1, ReturnsKeepsInv
<1>2. ASSUME NEW j \in Jobs, NEW d \in Devices \cup {NULL}, job' = [job EXCEPT ![j] = d],
             Entry, UNCHANGED <<external, driverState, device, session, call>>
      PROVE  DriverInv'
  <2>1. job' \in [Jobs -> Devices \cup {NULL}]
    BY <1>2 DEF TypeOK
  <2>2. CallLocals' /\ call.libraries = {}
    BY <1>2 DEF CallLocals, Entry
  <2> QED
    BY <1>2, <2>1, <2>2, SessionStepKeepsInv DEF TypeOK, LiveSessions, LiveSession
<1>3. ASSUME NEW s \in Clients, NEW i \in 1..Len(session[s].device_list)
      PROVE  session[s].device_list[i] \in Devices
  BY ElementOfSeq DEF TypeOK, Session_impl
<1>4. ASSUME NEW s \in Clients, NEW i \in 1..Len(session[s].device_list),
             device_create_job(s, i) \/ session_retrieve_job_by_id(s, i)
      PROVE  DriverInv'
  BY <1>1, <1>2, <1>3, <1>4 DEF device_create_job, session_retrieve_job_by_id
<1>5. ASSUME NEW j \in Jobs, job_free(j)
      PROVE  DriverInv'
  BY <1>2, <1>5 DEF job_free
<1> QED
  BY <1>4, <1>5

\* Every step keeps the invariant.
LEMMA StepKeepsInv ==
  ASSUME DriverInv, [Next]_vars
  PROVE  DriverInv'
<1>1. ASSUME NEW code, Returns(code)
      PROVE  DriverInv'
  BY <1>1, ReturnsKeepsInv
<1>2. CASE InvalidArguments
  BY <1>1, <1>2 DEF InvalidArguments
<1>3. CASE session_alloc
  BY <1>3, AllocKeepsInv
<1>4. CASE Continue
  BY <1>4, LoadLineKeepsInv, LoadEndKeepsInv, UnloadKeepsInv, OpenDeviceKeepsInv,
     OpenEndKeepsInv, CloseKeepsInv DEF Continue
<1>5. ASSUME NEW s \in Clients, SessionCall(s)
      PROVE  DriverInv'
  BY <1>1, <1>5, SetParameterKeepsInv, InitKeepsInv, FreeKeepsInv, JobsKeepInv
     DEF SessionCall, session_query_session_property, device_query_property
<1>6. ASSUME NEW j \in Jobs, job_free(j) \/ job_forward(j)
      PROVE  DriverInv'
  BY <1>1, <1>6, JobsKeepInv DEF job_forward
<1>7. CASE UNCHANGED vars
  <2> USE <1>7 DEF vars, external, driverState, objects, DriverInv
  <2>1. TypeOK'
    BY DEF TypeOK
  <2>2. Counted' /\ CallLocals' /\ Configuration'
    BY DEF Counted, CallLocals, Configuration, LiveSessions, LiveSession, LibrariesOf
  <2>3. Accounted'
    BY AccountsFrame DEF Loaded
  <2> QED
    BY <2>1, <2>2, <2>3
<1> QED
  BY <1>2, <1>3, <1>4, <1>5, <1>6, <1>7 DEF Next

\* The invariant is inductive, whatever clients do and devices answer.
THEOREM DriverInvariant == Spec => []DriverInv
<1>1. Init => DriverInv
  <2> SUFFICES ASSUME Init PROVE DriverInv
    OBVIOUS
  <2> USE DEF Init
  <2>1. TypeOK
    BY IdleType, NewSessionType, EmptySeq DEF TypeOK, NoDevice, Device_impl
  <2>2. LiveSessions = {}
    BY DEF LiveSessions, LiveSession, NoSession
  <2>3. Counted
    BY <2>2, IdleType, FS_EmptySet DEF Counted
  <2>4. CallLocals /\ Configuration
    BY IdleType, NoLibraries DEF CallLocals, Configuration
  <2>5. Accounted
    <3>1. Loaded = {} /\ \A h : OfHandle(Loaded, h) = {}
      BY IdleType DEF Loaded, OfHandle
    <3> QED
      BY <3>1, FS_EmptySet DEF Accounted, AccountsFor
  <2> QED
    BY <2>1, <2>3, <2>4, <2>5 DEF DriverInv
<1>2. DriverInv /\ [Next]_vars => DriverInv'
  BY StepKeepsInv
<1> QED
  BY <1>1, <1>2, PTL DEF Spec

\* The driver's objects and the locals of its calls have their types; the
\* session counter does not wrap around.
THEOREM DriverTypeCorrect == Spec => []TypeOK
<1>1. DriverInv => TypeOK
  BY DEF DriverInv
<1> QED
  BY <1>1, DriverInvariant, PTL

\* The libraries that are initialized between calls are the configured ones
\* while there is a session, and none otherwise.
THEOREM LoadedCorrect == Spec => []LoadedWhileUsed
<1>1. DriverInv => LoadedWhileUsed
  <2> SUFFICES ASSUME DriverInv, Entry PROVE LoadedWhileUsed
    BY DEF LoadedWhileUsed
  <2> USE DEF DriverInv, Entry
  <2>1. Loaded = libraries /\ ~call.freeing
    BY DEF Loaded, CallLocals
  <2>2. sessions = Cardinality(LiveSessions)
    BY <2>1, SessionsAreFinite DEF Counted
  <2>3. libraries = {l \in Library : provider[l] > 0}
    BY <2>1 DEF Accounted, AccountsFor, TypeOK
  <2>4. /\ libraries = LibrariesOf(configured_devices)
        /\ sessions = 0 => libraries = {}
    BY NoLibraries DEF Configuration
  <2> QED
    BY <2>2, <2>3, <2>4 DEF LoadedWhileUsed, LibrariesOf
<1> QED
  BY <1>1, DriverInvariant, PTL

\* No library is initialized twice, none that is initialized is unmapped, and
\* none stays mapped without a user.
THEOREM InitializedOnce == Spec => []OneInitialization
<1>1. DriverInv => OneInitialization
  <2> SUFFICES ASSUME DriverInv PROVE OneInitialization
    OBVIOUS
  <2> USE DEF DriverInv, Accounted, AccountsFor
  <2>1. Loaded \subseteq Library
    BY DEF TypeOK, Call, Loaded
  <2>2. \A l \in Library : provider[l] = IF l \in Loaded THEN 1 ELSE 0
    OBVIOUS
  <2>3. ASSUME NEW h \in Handles
        PROVE  opens[h] = Cardinality({l \in Library : l.handle = h /\ provider[l] = 1})
    <3>1. OfHandle(Loaded, h) = {l \in Library : l.handle = h /\ provider[l] = 1}
      BY <2>1, <2>2 DEF OfHandle
    <3> QED
      BY <3>1
  <2> QED
    BY <2>2, <2>3 DEF OneInitialization
<1> QED
  BY <1>1, DriverInvariant, PTL
=============================================================================
