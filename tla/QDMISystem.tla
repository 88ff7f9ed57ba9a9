------------------------------ MODULE QDMISystem ------------------------------
(***************************************************************************)
(* Clients, the example driver and the libraries it loads.  QDMIDriver     *)
(* lets any device call return any code; here the configured libraries are *)
(* the C++ example device, as QDMIDevice models it, and the device         *)
(* template, which implements nothing and never gets past                  *)
(* device_initialize.  Each step of the driver that calls a device is      *)
(* joined with that device function, and the driver goes on with the code  *)
(* the function returned.                                                  *)
(*                                                                         *)
(* A driver's device and its device session share a handle, and so do a    *)
(* driver's job and its device job.                                        *)
(***************************************************************************)
EXTENDS QDMIDriver

CONSTANTS
  CXX, MY,                                \* the two libraries
  Payloads, Formats,                      \* see QDMIDevice, as are the
  MaxPrograms, MaxShots, MaxVector,       \* bounds and SubmitsBeforeWait
  SubmitsBeforeWait

VARIABLES
  deviceStatus,  \* CXX_QDMI_Device_State::status
  devsession,    \* the device sessions, by the handle of their device
  devjob,        \* the device jobs, by the handle of their job
  devret         \* what the last device call returned

devvars == <<deviceStatus, devsession, devjob, devret>>
sysvars == <<vars, devvars>>

Cxx == INSTANCE QDMIDevice WITH
  Sessions <- Devices, session <- devsession, job <- devjob, ret <- devret

\* The template: every function but the query of its ID and of a program's
\* status says so.
TemplateReturns == "NOTIMPLEMENTED"

ASSUME SystemAssumption ==
  /\ {CXX, MY} \subseteq Library
  /\ CXX # MY
  /\ RequiredSymbols \subseteq Exports[CXX]
  /\ \A config \in Configs : \A i \in 1..Len(config) :
       config[i].kind = "device" => config[i].library \in {CXX, MY}
  /\ Payloads \subseteq Cxx!Program
  /\ {MaxPrograms, MaxShots, MaxVector} \subseteq Nat
  /\ SubmitsBeforeWait \in BOOLEAN

SysInit == Init /\ Cxx!Init

\* The step calls no device function.
NoDeviceCall == UNCHANGED devvars

-----------------------------------------------------------------------------
(* Loading and unloading *)

\* Mutant: the code of device_initialize is not looked at.
InitializeSucceeds_unchecked(library) ==
  IF library = MY THEN NoDeviceCall ELSE Cxx!device_initialize

\* A library counts as initialized when its device_initialize succeeds.
InitializeSucceeds(library) ==
  IF library = MY THEN TemplateReturns = "SUCCESS" ELSE Cxx!device_initialize

LoadLine ==
  /\ load_line
  /\ \/ provider' = provider /\ NoDeviceCall
     \/ \E library \in {CXX, MY} : /\ provider'[library] > provider[library]
                                   /\ InitializeSucceeds(library)

UnloadLibrary ==
  /\ unload_library
  /\ IF provider'[CXX] < provider[CXX] THEN Cxx!device_finalize ELSE NoDeviceCall

-----------------------------------------------------------------------------
(* Opening and closing device sessions *)

\* Without memory for its own object the driver does not call the device; an
\* exception out of the device becomes OUTOFMEM.
OpenDevice ==
  /\ open_device
  /\ \/ /\ device' = device
        /\ call'.ret = "OUTOFMEM"
        /\ NoDeviceCall \/ (Cxx!device_session_alloc /\ devret' = "bad_alloc")
     \/ \E d \in Devices :
          /\ device[d].status = "FREE"
          /\ device'[d].status = "ALLOCATED"
          /\ Cxx!device_session_alloc
          /\ devsession'[d].status = "ALLOCATED"

\* The token is passed with its terminating NUL, so to this device it is never
\* empty.
OpenSetToken ==
  /\ open_set_token
  /\ \E d \in call.closing :
       /\ Cxx!device_session_set_parameter(d)
       /\ \/ call'.at = "init" /\ devsession'[d].token
          \/ call'.at = "close" /\ call'.ret = "OUTOFMEM" /\ devret' = "bad_alloc"

OpenInit ==
  /\ open_init
  /\ \E d \in call.closing :
       /\ Cxx!device_session_init(d)
       /\ IF devret' = "SUCCESS" THEN device' # device
                                 ELSE device' = device /\ call'.ret = devret'

CloseDevice ==
  /\ close_device
  /\ \E d \in call.closing \ call'.closing : Cxx!device_session_free(d)

-----------------------------------------------------------------------------
(* Jobs and queries *)

\* The refusals of the driver itself come before the device is called.
CreateJob(s, i) ==
  /\ device_create_job(s, i)
  /\ \/ /\ ret' \in {"PERMISSIONDENIED", "OUTOFMEM"}
        /\ NoDeviceCall
     \/ /\ Cxx!device_session_create_device_job(session[s].device_list[i])
        /\ ret' = devret'
        /\ \A j \in Jobs : job'[j] # job[j] => devjob'[j] # devjob[j]

RetrieveJob(s, i) ==
  /\ session_retrieve_job_by_id(s, i)
  /\ \/ ret' \in {"PERMISSIONDENIED", "bad_alloc"} /\ NoDeviceCall
     \/ ret' = "NOTSUPPORTED" /\ OptionalSymbol \notin Exports[CXX] /\ NoDeviceCall
     \/ /\ OptionalSymbol \in Exports[CXX]
        /\ Cxx!device_session_retrieve_device_job_by_id
        /\ ret' = devret'

FreeJob(j) == job_free(j) /\ Cxx!device_job_free(j)

ForwardJobCall(j) ==
  /\ job_forward(j)
  /\ Cxx!JobCall(j)
  /\ devjob'[j].status # "FREE"
  /\ ret' = devret'

\* The poll that finds a running job finished.
PollCompletes(j) ==
  /\ job_forward(j)
  /\ Cxx!check_completes(j)
  /\ ret' = devret'

\* Only the ID is answered by the driver.
QueryDevice(s) ==
  /\ device_query_property(s)
  /\ \/ ret' \in {"SUCCESS", "INVALIDARGUMENT"} /\ NoDeviceCall
     \/ \E d \in DeviceSet(session[s].device_list) :
          /\ Cxx!device_session_query_device_property(d)
          /\ ret' = devret'

-----------------------------------------------------------------------------
SysContinue ==
  \/ LoadLine
  \/ UnloadLibrary
  \/ OpenDevice
  \/ OpenSetToken
  \/ OpenInit
  \/ CloseDevice
  \/ (load_end \/ unload_end \/ open_end \/ close_end) /\ NoDeviceCall

SysSessionCall(s) ==
  \/ /\ \/ session_set_parameter(s)
        \/ session_init(s)
        \/ session_free(s)
        \/ session_query_session_property(s)
     /\ NoDeviceCall
  \/ QueryDevice(s)
  \/ \E i \in 1..Len(session[s].device_list) : CreateJob(s, i) \/ RetrieveJob(s, i)

SysNext ==
  \/ (InvalidArguments \/ session_alloc) /\ NoDeviceCall
  \/ SysContinue
  \/ \E s \in Clients : SysSessionCall(s)
  \/ \E j \in Jobs : FreeJob(j) \/ ForwardJobCall(j)

SysSpec == SysInit /\ [][SysNext]_sysvars

\* Device functions return, so a call goes on.  A client that polls a running
\* job does so between the calls of others, hence strong fairness; the coin of
\* check is fair.
SysFairSpec ==
  SysSpec /\ WF_sysvars(SysContinue) /\ \A j \in Jobs : SF_sysvars(PollCompletes(j))

-----------------------------------------------------------------------------
(* Properties *)

\* Whenever the driver is about to call the device, the device's conditions
\* on its caller hold: initialized once before any other call and finalized
\* after the last session (device.h:63, 73), sessions freed once and after
\* their jobs (client.h:412).
DeviceCallsAllowed ==
  /\ call.at = "load" /\ call.lines # <<>> =>
       LET line == Head(call.lines)
       IN  line.kind = "device" /\ line.library = CXX /\ CXX \notin call.libraries
             => deviceStatus = "OFFLINE"
  /\ call.at = "unload" /\ CXX \in call.libraries =>
       /\ deviceStatus # "OFFLINE"
       /\ \A d \in Devices : devsession[d].status = "FREE"
  /\ call.at = "open" /\ call.configured # <<>> => deviceStatus # "OFFLINE"
  /\ call.at \in {"set_token", "init"} =>
       \A d \in call.closing : devsession[d].status = "ALLOCATED"
  /\ call.at = "close" =>
       \A d \in call.closing : /\ devsession[d].status # "FREE"
                               /\ \A j \in Jobs : devjob[j].session # d

\* The device holds exactly the sessions and jobs the driver has handles for,
\* in the state the driver thinks they are in: nothing leaks inside the
\* device when a call fails half-way or the device throws (the new behind
\* device_session_alloc and create_device_job).
HandlesAgree ==
  /\ \A d \in Devices : devsession[d].status = device[d].status
  /\ \A j \in Jobs : devjob[j].session = job[j]

\* A session that is open can be used: its devices are of a library that could
\* be initialized, their device sessions are initialized and the device is up,
\* whatever other clients opened, failed to open or freed.
OpenSessionsUsable ==
  \A s \in Clients :
    session[s].status = "INITIALIZED" =>
      \A d \in DeviceSet(session[s].device_list) :
        /\ device[d].library = CXX
        /\ devsession[d].status = "INITIALIZED"
        /\ deviceStatus \in {"IDLE", "BUSY"}

\* Every call returns, also with the device's own conditions in its way.
SysCallsReturn == call.at # "idle" ~> call.at = "idle"

\* A running job that its client polls ends, whatever the calls of other
\* clients do in between.
PolledJobEnds == \A j \in Jobs : devjob[j].status = "RUNNING" ~> devjob[j].status # "RUNNING"
=============================================================================
