------------------------------ MODULE QDMIDriver ------------------------------
(***************************************************************************)
(* The example driver, examples/driver/qdmi_example_driver.cpp: it loads   *)
(* the configured device libraries when a client allocates the first       *)
(* session, opens one device session per configured device when a session  *)
(* is initialized, and undoes both when sessions are freed or a step       *)
(* fails.                                                                  *)
(*                                                                         *)
(* The driver is single-threaded (no thread safety is promised), but a     *)
(* call is a sequence of calls into device libraries, each of which may    *)
(* fail.  A function without such calls is one action; the loops that load *)
(* libraries, open device sessions and release them take one step per      *)
(* device call, with the function's locals in the variable call.           *)
(*                                                                         *)
(* Clients pass live handles only, and free a session after its jobs       *)
(* (client.h:412).  Vectors of owning pointers are released in any order:  *)
(* C++ leaves the order of destruction open.                               *)
(***************************************************************************)
EXTENDS Integers, Sequences, FiniteSets

CONSTANTS
  Clients,       \* handles QDMI_session_alloc may return
  Devices,       \* handles of devices, and of the device sessions they hold
  Jobs,          \* handles of jobs
  NULL,          \* the null pointer
  Handles,       \* what dlopen may return for the library names in use
  Prefixes,      \* the prefixes of device symbols
  Ids,           \* the device IDs in configuration files
  Configs,       \* what the configuration file may hold: sequences of lines
  Exports,       \* the device symbols each library exports under its prefix
  Errors         \* the codes other than SUCCESS a device call may return

\* A QDMI_Library is found by its handle and its prefix.
Library == [handle: Handles, prefix: Prefixes]

\* A line names a device, or is skipped (a comment), or is malformed.
Line == [kind: {"device"}, library: Library, id: Ids] \cup [kind: {"comment", "malformed"}]

\* The device functions the driver calls through QDMI_Library: those it insists
\* on when it loads a library, and the one that older libraries lack.
RequiredSymbols ==
  {"device_initialize", "device_finalize",
   "device_session_alloc", "device_session_init", "device_session_free",
   "device_session_set_parameter", "device_session_create_device_job",
   "device_session_query_device_property", "device_session_query_site_property",
   "device_session_query_operation_property",
   "device_job_free", "device_job_set_parameter", "device_job_set_programs",
   "device_job_get_program", "device_job_get_program_status",
   "device_job_query_property", "device_job_submit", "device_job_cancel",
   "device_job_check", "device_job_wait", "device_job_get_results"}
OptionalSymbol == "device_session_retrieve_device_job_by_id"

ASSUME DriverAssumption ==
  /\ NULL \notin Clients \cup Devices
  /\ IsFiniteSet(Clients)
  /\ Configs \subseteq Seq(Line)
  /\ Exports \in [Library -> SUBSET (RequiredSymbols \cup {OptionalSymbol})]
  /\ "SUCCESS" \notin Errors

VARIABLES
  opens,              \* dlopen's reference count of each handle (external)
  provider,           \* device_initialize minus device_finalize calls that
                      \* succeeded, for each library (external)
  device,             \* QDMI_Device_impl_d and its device session, by handle
  libraries,          \* QDMI_Driver_State::libraries
  configured_devices, \* QDMI_Driver_State::configured_devices
  sessions,           \* QDMI_Driver_State::sessions
  session,            \* QDMI_Session_impl_d, by handle
  job,                \* the device of each job, or NULL
  call,               \* the call in progress and its locals
  ret                 \* what the last call returned

external == <<opens, provider>>
driverState == <<libraries, configured_devices, sessions>>
objects == <<device, session, job>>
vars == <<external, driverState, objects, call, ret>>

-----------------------------------------------------------------------------
(* Types *)

Configured_Device == [library: Library, id: Ids]
Device_impl == [status: {"FREE", "ALLOCATED", "INITIALIZED"},
                library: Library \cup {NULL}, id: Ids \cup {NULL}]
Session_impl == [status: {"FREE", "ALLOCATED", "INITIALIZED"}, device_list: Seq(Devices),
                 token: {"none", "empty", "set"}, mode: {"READONLY", "READWRITE"}]

NoDevice == [status |-> "FREE", library |-> NULL, id |-> NULL]
NoSession == [status |-> "FREE", device_list |-> <<>>, token |-> "none", mode |-> "READONLY"]
NewSession == [NoSession EXCEPT !.status = "ALLOCATED"]

\* Where the driver stands: between calls, at a line of the configuration, at
\* one of the three calls that open a device, or releasing what it holds.
Point == {"idle", "load", "open", "set_token", "init", "close", "unload"}

Call == [at: Point,
         session: Clients \cup {NULL},  \* the session argument or result
         lines: Seq(Line),              \* the rest of the configuration
         libraries: SUBSET Library,     \* loaded so far, or still to unload
         configured: Seq(Configured_Device),  \* read so far, or still to open
         devices: Seq(Devices),         \* opened so far
         closing: SUBSET Devices,       \* still to close
         freeing: BOOLEAN,              \* QDMI_session_free is running
         ret: Errors \cup {"SUCCESS", "FATAL", "OUTOFMEM"}]

Idle == [at |-> "idle", session |-> NULL, lines |-> <<>>, libraries |-> {},
         configured |-> <<>>, devices |-> <<>>, closing |-> {}, freeing |-> FALSE,
         ret |-> "SUCCESS"]

\* The type invariant; in particular the session counter does not wrap around.
TypeOK ==
  /\ opens \in [Handles -> Nat]
  /\ provider \in [Library -> Nat]
  /\ device \in [Devices -> Device_impl]
  /\ libraries \subseteq Library
  /\ configured_devices \in Seq(Configured_Device)
  /\ sessions \in Nat
  /\ session \in [Clients -> Session_impl]
  /\ job \in [Jobs -> Devices \cup {NULL}]
  /\ call \in Call

Init ==
  /\ opens = [h \in Handles |-> 0]
  /\ provider = [l \in Library |-> 0]
  /\ device = [d \in Devices |-> NoDevice]
  /\ libraries = {}
  /\ configured_devices = <<>>
  /\ sessions = 0
  /\ session = [s \in Clients |-> NoSession]
  /\ job = [j \in Jobs |-> NULL]
  /\ call = Idle
  /\ ret = "SUCCESS"

LiveSession(s) == session[s].status # "FREE"
LiveSessions == {s \in Clients : LiveSession(s)}
DeviceSet(list) == {list[i] : i \in 1..Len(list)}

\* A client makes its next call when the previous one has returned.
Entry == call.at = "idle"

\* The call returns (or throws) code without changing any object.
Returns(code) ==
  /\ ret' = code
  /\ UNCHANGED <<external, driverState, objects, call>>

InvalidArguments == Entry /\ Returns("INVALIDARGUMENT")

-----------------------------------------------------------------------------
(* Loading the driver *)

\* Mutant: the session is not counted.
session_alloc_uncounted ==
  /\ Entry
  /\ \/ /\ sessions = 0
        /\ \E s \in Clients \ LiveSessions, config \in Configs :
             call' = [Idle EXCEPT !.at = "load", !.session = s, !.lines = config]
        /\ UNCHANGED <<external, driverState, objects, ret>>
     \/ /\ sessions > 0
        /\ \E s \in Clients \ LiveSessions : session' = [session EXCEPT ![s] = NewSession]
        /\ ret' = "SUCCESS"
        /\ UNCHANGED <<external, driverState, device, job, call>>

\* The first session starts QDMI_initialize_driver; the file may be missing,
\* outside the allowed directories or unreadable.
session_alloc ==
  /\ Entry
  /\ \/ Returns("OUTOFMEM")
     \/ /\ sessions = 0
        /\ \/ Returns("FATAL")
           \/ /\ \E s \in Clients \ LiveSessions, config \in Configs :
                   call' = [Idle EXCEPT !.at = "load", !.session = s, !.lines = config]
              /\ UNCHANGED <<external, driverState, objects, ret>>
     \/ /\ sessions > 0
        /\ \E s \in Clients \ LiveSessions : session' = [session EXCEPT ![s] = NewSession]
        /\ sessions' = sessions + 1
        /\ ret' = "SUCCESS"
        /\ UNCHANGED <<external, libraries, configured_devices, device, job, call>>

\* The libraries loaded so far are destroyed and code is returned.
Fail_load(code) == call' = [Idle EXCEPT !.at = "unload", !.libraries = call.libraries,
                                        !.ret = code]

\* Mutant: a library that is already loaded is loaded again.
library_load_again(library, id) ==
  /\ opens' = [opens EXCEPT ![library.handle] = @ + 1]
  /\ provider' = [provider EXCEPT ![library] = @ + 1]
  /\ call' = [call EXCEPT !.lines = Tail(@), !.libraries = @ \cup {library},
                          !.configured = Append(@, [library |-> library, id |-> id])]

\* LOAD_SYMBOL finds every function.
SymbolsResolve(library) == RequiredSymbols \subseteq Exports[library]

\* dlopen, the lookup among the loaded libraries (which closes the second
\* reference), the symbols and device_initialize; then the configured device.
library_load(library, id) ==
  \/ /\ Fail_load("FATAL")               \* no library, a symbol is missing, or
     /\ UNCHANGED external               \* device_initialize fails
  \/ /\ Fail_load("OUTOFMEM")            \* before device_initialize
     /\ UNCHANGED external
  \/ /\ library \in call.libraries
     /\ call' = [call EXCEPT !.lines = Tail(@),
                             !.configured = Append(@, [library |-> library, id |-> id])]
     /\ UNCHANGED external
  \/ /\ library \notin call.libraries
     /\ SymbolsResolve(library)
     /\ opens' = [opens EXCEPT ![library.handle] = @ + 1]
     /\ provider' = [provider EXCEPT ![library] = @ + 1]
     /\ \/ call' = [call EXCEPT !.lines = Tail(@), !.libraries = @ \cup {library},
                                !.configured = Append(@, [library |-> library, id |-> id])]
        \/ \* no memory to store it: it is destroyed like the others
           call' = [Idle EXCEPT !.at = "unload", !.libraries = call.libraries \cup {library},
                                !.ret = "OUTOFMEM"]

\* Mutant: the device IDs are not remembered.
load_line_any_id ==
  /\ call.at = "load"
  /\ call.lines # <<>>
  /\ LET line == Head(call.lines)
     IN  IF line.kind = "device"
           THEN library_load(line.library, line.id)
           ELSE Fail_load("FATAL") /\ UNCHANGED external
  /\ UNCHANGED <<driverState, objects, ret>>

\* Mutant: a malformed line ends the file instead of failing the call.
load_line_partial ==
  /\ call.at = "load"
  /\ call.lines # <<>>
  /\ LET line == Head(call.lines)
     IN  \/ /\ line.kind # "device"
            /\ call' = [call EXCEPT !.lines = IF line.kind = "comment" THEN Tail(@) ELSE <<>>]
            /\ UNCHANGED external
         \/ /\ line.kind = "device"
            /\ library_load(line.library, line.id)
  /\ UNCHANGED <<driverState, objects, ret>>

\* One line of the configuration file.
load_line ==
  /\ call.at = "load"
  /\ call.lines # <<>>
  /\ LET line == Head(call.lines)
         known == {call.configured[i].id : i \in 1..Len(call.configured)}
     IN  \/ /\ line.kind = "comment"
            /\ call' = [call EXCEPT !.lines = Tail(@)]
            /\ UNCHANGED external
         \/ /\ line.kind = "malformed" \/ (line.kind = "device" /\ line.id \in known)
            /\ Fail_load("FATAL")
            /\ UNCHANGED external
         \/ /\ line.kind = "device" /\ line.id \notin known
            /\ library_load(line.library, line.id)
  /\ UNCHANGED <<driverState, objects, ret>>

\* The end of the file: the driver state takes over the libraries, and
\* QDMI_session_alloc counts and returns the session.
load_end ==
  /\ call.at = "load"
  /\ call.lines = <<>>
  /\ libraries' = call.libraries
  /\ configured_devices' = call.configured
  /\ sessions' = sessions + 1
  /\ session' = [session EXCEPT ![call.session] = NewSession]
  /\ ret' = call.ret
  /\ call' = Idle
  /\ UNCHANGED <<external, device, job>>

\* Mutant: a library is closed without being finalized.
unload_library_unfinalized ==
  /\ call.at = "unload"
  /\ \/ \E library \in call.libraries :
          /\ opens' = [opens EXCEPT ![library.handle] = @ - 1]
          /\ call' = [call EXCEPT !.libraries = @ \ {library}]
          /\ UNCHANGED <<provider, ret>>
     \/ call.libraries = {} /\ ret' = call.ret /\ call' = Idle /\ UNCHANGED external
  /\ UNCHANGED <<driverState, objects>>

\* ~QDMI_Library: device_finalize and dlclose.
unload_library ==
  /\ call.at = "unload"
  /\ \E library \in call.libraries :
       /\ provider' = [provider EXCEPT ![library] = @ - 1]
       /\ opens' = [opens EXCEPT ![library.handle] = @ - 1]
       /\ call' = [call EXCEPT !.libraries = @ \ {library}]
  /\ UNCHANGED <<driverState, objects, ret>>

\* Mutant: a load that fails is tried again.
unload_end_retries ==
  /\ call.at = "unload"
  /\ call.libraries = {}
  /\ \E s \in Clients \ LiveSessions, config \in Configs :
       call' = [Idle EXCEPT !.at = "load", !.session = s, !.lines = config]
  /\ UNCHANGED <<external, driverState, objects, ret>>

unload_end ==
  /\ call.at = "unload"
  /\ call.libraries = {}
  /\ ret' = call.ret
  /\ call' = Idle
  /\ UNCHANGED <<external, driverState, objects>>

-----------------------------------------------------------------------------
(* Client sessions *)

session_set_parameter(s) ==
  /\ Entry
  /\ LiveSession(s)
  /\ \/ /\ session[s].status # "ALLOCATED"
        /\ Returns("BADSTATE")
     \/ /\ session[s].status = "ALLOCATED"
        /\ \/ Returns("NOTSUPPORTED")    \* any parameter but TOKEN
           \/ Returns("SUCCESS")         \* TOKEN with a null value
           \/ Returns("bad_alloc")
           \/ /\ \E token \in {"empty", "set"} :
                   session' = [session EXCEPT ![s].token = token]
              /\ ret' = "SUCCESS"
              /\ UNCHANGED <<external, driverState, device, job, call>>

session_init(s) ==
  /\ Entry
  /\ LiveSession(s)
  /\ \/ /\ session[s].status # "ALLOCATED"
        /\ Returns("BADSTATE")
     \/ /\ session[s].status = "ALLOCATED"
        /\ session[s].token = "none"
        /\ Returns("PERMISSIONDENIED")
     \/ /\ session[s].status = "ALLOCATED"
        /\ session[s].token # "none"
        /\ session' = [session EXCEPT ![s].mode =
                         IF session[s].token = "empty" THEN "READONLY" ELSE "READWRITE"]
        /\ call' = [Idle EXCEPT !.at = "open", !.session = s,
                                !.configured = configured_devices]
        /\ UNCHANGED <<external, driverState, device, job, ret>>

\* The devices opened so far, and pending, are closed and code is returned.
Fail_init(pending, code) ==
  call' = [Idle EXCEPT !.at = "close", !.closing = DeviceSet(call.devices) \cup pending,
                       !.ret = code]

\* device_session_alloc of the next configured device; no device is left to
\* close when it fails.
open_device ==
  /\ call.at = "open"
  /\ call.configured # <<>>
  /\ \/ /\ \E code \in Errors \cup {"OUTOFMEM"} : Fail_init({}, code)
        /\ UNCHANGED device
     \/ \E d \in Devices :
          /\ device[d].status = "FREE"
          /\ device' = [device EXCEPT ![d] = [status  |-> "ALLOCATED",
                                              library |-> Head(call.configured).library,
                                              id      |-> Head(call.configured).id]]
          /\ call' = [call EXCEPT !.at = "set_token", !.closing = {d}]
  /\ UNCHANGED <<external, driverState, session, job, ret>>

\* device_session_set_parameter: a device without tokens is tolerated; an
\* exception out of the device ends in the handlers of session_init.
open_set_token ==
  /\ call.at = "set_token"
  /\ \/ \E code \in (Errors \cup {"OUTOFMEM"}) \ {"NOTSUPPORTED"} : Fail_init(call.closing, code)
     \/ call' = [call EXCEPT !.at = "init"]
  /\ UNCHANGED <<external, driverState, objects, ret>>

\* Mutant: the device whose initialization fails is not closed.
open_init_leaks ==
  /\ call.at = "init"
  /\ \E d \in call.closing :
       \/ /\ \E code \in Errors : Fail_init({}, code)
          /\ UNCHANGED device
       \/ /\ device' = [device EXCEPT ![d].status = "INITIALIZED"]
          /\ call' = [call EXCEPT !.at = "open", !.configured = Tail(@),
                                  !.devices = Append(@, d), !.closing = {}]
  /\ UNCHANGED <<external, driverState, session, job, ret>>

\* Mutant: a device whose initialization fails is skipped.
open_init_skips ==
  /\ call.at = "init"
  /\ \E d \in call.closing :
       \/ /\ device' = [device EXCEPT ![d] = NoDevice]
          /\ call' = [call EXCEPT !.at = "open", !.configured = Tail(@), !.closing = {}]
       \/ /\ device' = [device EXCEPT ![d].status = "INITIALIZED"]
          /\ call' = [call EXCEPT !.at = "open", !.configured = Tail(@),
                                  !.devices = Append(@, d), !.closing = {}]
  /\ UNCHANGED <<external, driverState, session, job, ret>>

\* device_session_init, and the device joins the list.
open_init ==
  /\ call.at = "init"
  /\ \E d \in call.closing :
       \/ /\ \E code \in Errors : Fail_init({d}, code)
          /\ UNCHANGED device
       \/ /\ device' = [device EXCEPT ![d].status = "INITIALIZED"]
          /\ \/ Fail_init({d}, "OUTOFMEM")
             \/ call' = [call EXCEPT !.at = "open", !.configured = Tail(@),
                                     !.devices = Append(@, d), !.closing = {}]
  /\ UNCHANGED <<external, driverState, session, job, ret>>

\* Every configured device is open: the session takes over the list.
open_end ==
  /\ call.at = "open"
  /\ call.configured = <<>>
  /\ session' = [session EXCEPT ![call.session].device_list = call.devices,
                                ![call.session].status = "INITIALIZED"]
  /\ ret' = call.ret
  /\ call' = Idle
  /\ UNCHANGED <<external, driverState, device, job>>

\* Mutant: the loop does not advance.
close_device_again ==
  /\ call.at = "close"
  /\ \E d \in call.closing : device' = [device EXCEPT ![d] = NoDevice]
  /\ UNCHANGED <<external, driverState, session, job, call, ret>>

\* ~QDMI_Device_impl_d: device_session_free.
close_device ==
  /\ call.at = "close"
  /\ \E d \in call.closing :
       /\ device' = [device EXCEPT ![d] = NoDevice]
       /\ call' = [call EXCEPT !.closing = @ \ {d}]
  /\ UNCHANGED <<external, driverState, session, job, ret>>

\* QDMI_session_init returns its error; QDMI_session_free goes on to the
\* counter, and with the last session to the libraries.
close_end ==
  /\ call.at = "close"
  /\ call.closing = {}
  /\ \/ /\ ~call.freeing
        /\ ret' = call.ret
        /\ call' = Idle
        /\ UNCHANGED driverState
     \/ /\ call.freeing
        /\ sessions' = sessions - 1
        /\ \/ /\ sessions' # 0
              /\ ret' = call.ret
              /\ call' = Idle
              /\ UNCHANGED <<libraries, configured_devices>>
           \/ /\ sessions' = 0
              /\ configured_devices' = <<>>
              /\ libraries' = {}
              /\ call' = [Idle EXCEPT !.at = "unload", !.libraries = libraries]
              /\ UNCHANGED ret
  /\ UNCHANGED <<external, objects>>

\* The client has freed the session's jobs (client.h:412).  Deleting the
\* session closes its devices first.
session_free(s) ==
  /\ Entry
  /\ LiveSession(s)
  /\ \A j \in Jobs : job[j] \notin DeviceSet(session[s].device_list)
  /\ session' = [session EXCEPT ![s] = NoSession]
  /\ call' = [Idle EXCEPT !.at = "close", !.closing = DeviceSet(session[s].device_list),
                          !.freeing = TRUE]
  /\ UNCHANGED <<external, driverState, device, job, ret>>

session_query_session_property(s) ==
  /\ Entry
  /\ LiveSession(s)
  /\ \/ /\ session[s].status # "INITIALIZED"
        /\ Returns("BADSTATE")
     \/ /\ session[s].status = "INITIALIZED"
        /\ \/ Returns("NOTSUPPORTED")    \* any property but DEVICES
           \/ Returns("INVALIDARGUMENT") \* the buffer is too small
           \/ Returns("SUCCESS")

-----------------------------------------------------------------------------
(* Devices and jobs: d is the i-th device of session s *)

\* Mutant: the mode of the session is not checked.
create_job_any_mode(s, i) ==
  /\ Entry
  /\ session[s].status = "INITIALIZED"
  /\ \E j \in Jobs : job[j] = NULL /\ job' = [job EXCEPT ![j] = session[s].device_list[i]]
  /\ ret' = "SUCCESS"
  /\ UNCHANGED <<external, driverState, device, session, call>>

\* The device creates the job, or its failure is passed on.
device_create_job(s, i) ==
  /\ Entry
  /\ session[s].status = "INITIALIZED"
  /\ \/ /\ session[s].mode # "READWRITE"
        /\ Returns("PERMISSIONDENIED")
     \/ /\ session[s].mode = "READWRITE"
        /\ \/ \E code \in Errors \cup {"OUTOFMEM", "bad_alloc"} : Returns(code)
           \/ /\ \E j \in Jobs :
                   job[j] = NULL /\ job' = [job EXCEPT ![j] = session[s].device_list[i]]
              /\ ret' = "SUCCESS"
              /\ UNCHANGED <<external, driverState, device, session, call>>

\* As creation, unless the device's function is missing.
session_retrieve_job_by_id(s, i) ==
  /\ Entry
  /\ session[s].status = "INITIALIZED"
  /\ \/ /\ session[s].mode # "READWRITE"
        /\ Returns("PERMISSIONDENIED")
     \/ /\ session[s].mode = "READWRITE"
        /\ OptionalSymbol \notin Exports[device[session[s].device_list[i]].library]
        /\ Returns("NOTSUPPORTED")
     \/ /\ session[s].mode = "READWRITE"
        /\ OptionalSymbol \in Exports[device[session[s].device_list[i]].library]
        /\ \/ \E code \in Errors \cup {"bad_alloc"} : Returns(code)
           \/ /\ \E j \in Jobs :
                   job[j] = NULL /\ job' = [job EXCEPT ![j] = session[s].device_list[i]]
              /\ ret' = "SUCCESS"
              /\ UNCHANGED <<external, driverState, device, session, call>>

job_free(j) ==
  /\ Entry
  /\ job[j] # NULL
  /\ job' = [job EXCEPT ![j] = NULL]
  /\ ret' = "SUCCESS"
  /\ UNCHANGED <<external, driverState, device, session, call>>

\* The other job functions pass the device's answer on.
job_forward(j) ==
  /\ Entry
  /\ job[j] # NULL
  /\ \E code \in Errors \cup {"SUCCESS", "bad_alloc"} : Returns(code)

\* The device's queries: ID is answered here, the others by the device.
device_query_property(s) ==
  /\ Entry
  /\ session[s].status = "INITIALIZED"
  /\ \E code \in Errors \cup {"SUCCESS", "INVALIDARGUMENT", "bad_alloc"} : Returns(code)

-----------------------------------------------------------------------------
\* The steps of a call in progress.
Continue ==
  \/ load_line
  \/ load_end
  \/ unload_library
  \/ unload_end
  \/ open_device
  \/ open_set_token
  \/ open_init
  \/ open_end
  \/ close_device
  \/ close_end

SessionCall(s) ==
  \/ session_set_parameter(s)
  \/ session_init(s)
  \/ session_free(s)
  \/ session_query_session_property(s)
  \/ device_query_property(s)
  \/ \E i \in 1..Len(session[s].device_list) : \/ device_create_job(s, i)
                                               \/ session_retrieve_job_by_id(s, i)

Next ==
  \/ InvalidArguments
  \/ session_alloc
  \/ Continue
  \/ \E s \in Clients : SessionCall(s)
  \/ \E j \in Jobs : job_free(j) \/ job_forward(j)

Spec == Init /\ [][Next]_vars

\* A call that was entered runs on: device functions return.
FairSpec == Spec /\ WF_vars(Continue)

-----------------------------------------------------------------------------
(* Properties *)

\* Between calls the counter is the number of sessions, and the libraries
\* that are initialized are those of the driver state: all configured ones
\* while there is a session, none otherwise, also after a failed load
\* (QDMI_session_alloc, QDMI_session_free).
LoadedWhileUsed ==
  Entry =>
    /\ sessions = Cardinality(LiveSessions)
    /\ libraries = {l \in Library : provider[l] > 0}
    /\ libraries = {configured_devices[i].library : i \in 1..Len(configured_devices)}
    /\ sessions = 0 => libraries = {}

\* device_initialize is never called on an initialized library, however many
\* lines name it (device.h:63), and dlopen's count is the number of
\* initialized libraries of the handle: no initialized library is unmapped,
\* and none stays mapped after its last user.  No initialized library lacks a
\* function that is called without looking (LOAD_SYMBOL).
OneInitialization ==
  /\ \A l \in Library : provider[l] <= 1
  /\ \A l \in Library : provider[l] = 1 => RequiredSymbols \subseteq Exports[l]
  /\ \A h \in Handles :
       opens[h] = Cardinality({l \in Library : l.handle = h /\ provider[l] = 1})

\* The lists that own a device: a session's list or the locals of a call.
Owners(d) ==
  {s \in Clients : d \in DeviceSet(session[s].device_list)}
    \cup {where \in {"devices", "closing"} :
            d \in IF where = "devices" THEN DeviceSet(call.devices) ELSE call.closing}

\* An open device session has one owner, which will free it, and a device that
\* is not open has none: none leaks from a failed QDMI_session_init and none
\* is freed twice.  Its library is initialized.
DevicesOwned ==
  \A d \in Devices :
    /\ Cardinality(Owners(d)) = IF device[d].status = "FREE" THEN 0 ELSE 1
    /\ device[d].status # "FREE" => provider[device[d].library] = 1

\* An initialized session holds one initialized device per configured device,
\* in the order of the configuration; a session that is not initialized holds
\* none (a partial list is never visible, QDMI_session_init).
SessionsComplete ==
  \A s \in Clients :
    LET list == session[s].device_list
    IN  IF session[s].status = "INITIALIZED"
          THEN /\ Len(list) = Len(configured_devices)
               /\ \A i \in 1..Len(list) :
                    device[list[i]] = [status  |-> "INITIALIZED",
                                       library |-> configured_devices[i].library,
                                       id      |-> configured_devices[i].id]
          ELSE list = <<>>

\* No two devices of a session have the same ID (the unordered set device_ids
\* of QDMI_initialize_driver).
DistinctIds ==
  \A s \in Clients :
    \A i, k \in 1..Len(session[s].device_list) :
      device[session[s].device_list[i]].id = device[session[s].device_list[k]].id => i = k

\* A job belongs to a device that is open in an initialized session whose
\* token is not empty: read-only sessions never own a job, also when the token
\* changed between a failed and a successful QDMI_session_init.
JobsOnWritableSessions ==
  \A j \in Jobs :
    job[j] # NULL =>
      \E s \in Clients :
        /\ session[s].status = "INITIALIZED"
        /\ session[s].token = "set"
        /\ job[j] \in DeviceSet(session[s].device_list)

DeviceLines(config) == {n \in 1..Len(config) : config[n].kind = "device"}

\* list holds the devices config names, in its order: its i-th device is the one
\* of line at[i].
Lists(list, config) ==
  \E at \in [1..Len(list) -> DeviceLines(config)] :
    /\ \A i, k \in 1..Len(list) : i < k => at[i] < at[k]
    /\ \A n \in DeviceLines(config) : \E i \in 1..Len(list) : at[i] = n
    /\ \A i \in 1..Len(list) :
         list[i] = [library |-> config[at[i]].library, id |-> config[at[i]].id]

WellFormed(config) ==
  /\ \A n \in 1..Len(config) : config[n].kind # "malformed"
  /\ \A n, m \in DeviceLines(config) : config[n].id = config[m].id => n = m

Listings ==
  {list \in Seq(Configured_Device) :
     \E config \in Configs : WellFormed(config) /\ Lists(list, config)}

PhaseOf(status) ==
  CASE status = "FREE"        -> "absent"
    [] status = "ALLOCATED"   -> "allocated"
    [] status = "INITIALIZED" -> "open"

\* The device list of a session, as its client can read it.
Shown(s) ==
  [i \in 1..Len(session[s].device_list) |->
     [library |-> device[session[s].device_list[i]].library,
      id      |-> device[session[s].device_list[i]].id]]

OwnerOf(d) == CHOOSE s \in Clients : d \in DeviceSet(session[s].device_list)

\* What clients can see of the driver's state.
ShownListing == IF LiveSessions = {} THEN <<>> ELSE configured_devices
ShownPhases == [s \in Clients |-> PhaseOf(session[s].status)]
ShownDevices == [s \in Clients |-> Shown(s)]
ShownWritable ==
  [s \in Clients |-> session[s].status = "INITIALIZED" /\ session[s].mode = "READWRITE"]
ShownOwners == [j \in Jobs |-> IF job[j] = NULL THEN NULL ELSE OwnerOf(job[j])]

Promise == INSTANCE DriverPromise WITH
  NoListing <- <<>>,
  listing <- ShownListing,
  phase <- ShownPhases,
  visible <- ShownDevices,
  writable <- ShownWritable,
  owner <- ShownOwners

\* The driver keeps the promise: with all its device calls, failures and
\* clean-up, a call is one step of DriverPromise or changes nothing a client
\* can see.
KeepsPromise == Promise!Spec

\* Every call returns to its client, whichever device calls fail on the way.
CallsReturn == call.at # "idle" ~> call.at = "idle"
=============================================================================
