--------------------------- MODULE QDMISystemProofs ---------------------------
(***************************************************************************)
(* Proofs about the driver joined with its device library.  A step of the  *)
(* system is a step of the driver and a step of the device or none, so     *)
(* what is proved of each alone holds of the system; what relates the two  *)
(* takes an invariant of its own.                                          *)
(***************************************************************************)
EXTENDS QDMISystem, QDMIDriverSessionProofs

CxxP == INSTANCE QDMIDeviceProofs WITH
  Sessions <- Devices, session <- devsession, job <- devjob, ret <- devret

-----------------------------------------------------------------------------
(* The parts of the system *)

\* A step of the system is a step of the driver.
LEMMA StepIsDriverStep == SysNext => Next
BY DEF SysNext, SysContinue, SysSessionCall, LoadLine, UnloadLibrary, OpenDevice, OpenSetToken,
       OpenInit, CloseDevice, CreateJob, RetrieveJob, FreeJob, ForwardJobCall, QueryDevice,
       Next, Continue, SessionCall

\* What a driver without assumptions about its devices keeps, it keeps here.
THEOREM DriverInSystem == SysSpec => Spec
<1>1. SysInit => Init
  BY DEF SysInit
<1>2. [SysNext]_sysvars => [Next]_vars
  BY StepIsDriverStep DEF sysvars
<1> QED
  BY <1>1, <1>2, PTL DEF SysSpec, Spec

\* The device sees calls its callers may make: every step calls one device
\* function, on a handle that is live, or none.
LEMMA StepIsDeviceStep ==
  ASSUME SessionInv, SysNext
  PROVE  Cxx!Next \/ UNCHANGED devvars
<1>1. /\ call.closing \subseteq Devices
      /\ \A s \in Clients : session[s].device_list \in Seq(Devices)
      /\ \A s \in Clients : DeviceSet(session[s].device_list) \subseteq Devices
  BY ListTypes DEF SessionInv, DriverInv, DevicesOf
<1>2. CASE SysContinue
  <2>1. CASE LoadLine
    BY <2>1 DEF LoadLine, NoDeviceCall, InitializeSucceeds, TemplateReturns, Cxx!Next
  <2>2. CASE UnloadLibrary
    BY <2>2 DEF UnloadLibrary, NoDeviceCall, Cxx!Next
  <2>3. CASE OpenDevice
    BY <2>3 DEF OpenDevice, NoDeviceCall, Cxx!Next
  <2>4. CASE OpenSetToken
    BY <1>1, <2>4 DEF OpenSetToken, Cxx!Next, Cxx!SessionCall
  <2>5. CASE OpenInit
    BY <1>1, <2>5 DEF OpenInit, Cxx!Next, Cxx!SessionCall
  <2>6. CASE CloseDevice
    BY <1>1, <2>6 DEF CloseDevice, Cxx!Next, Cxx!SessionCall
  <2> QED
    BY <1>2, <2>1, <2>2, <2>3, <2>4, <2>5, <2>6 DEF SysContinue, NoDeviceCall
<1>3. ASSUME NEW s \in Clients, SysSessionCall(s)
      PROVE  Cxx!Next \/ UNCHANGED devvars
  <2>1. CASE QueryDevice(s)
    BY <1>1, <2>1 DEF QueryDevice, NoDeviceCall, Cxx!Next, Cxx!SessionCall
  <2>2. ASSUME NEW i \in 1..Len(session[s].device_list), CreateJob(s, i)
        PROVE  Cxx!Next \/ UNCHANGED devvars
    <3>1. session[s].device_list[i] \in Devices
      BY <1>1, ElementOfSeq
    <3> QED
      BY <2>2, <3>1 DEF CreateJob, NoDeviceCall, Cxx!Next, Cxx!SessionCall
  <2>3. ASSUME NEW i \in 1..Len(session[s].device_list), RetrieveJob(s, i)
        PROVE  Cxx!Next \/ UNCHANGED devvars
    BY <2>3 DEF RetrieveJob, NoDeviceCall, Cxx!Next
  <2> QED
    BY <1>3, <2>1, <2>2, <2>3 DEF SysSessionCall, NoDeviceCall
<1>4. ASSUME NEW j \in Jobs, FreeJob(j) \/ ForwardJobCall(j)
      PROVE  Cxx!Next
  BY <1>4 DEF FreeJob, ForwardJobCall, Cxx!Next, Cxx!JobCall
<1> QED
  BY <1>2, <1>3, <1>4 DEF SysNext, NoDeviceCall

\* The driver's calls are calls of QDMIDevice's callers, so what is proved of
\* the device holds of the device in the system.
THEOREM DeviceInSystem == SysSpec => Cxx!Spec
<1>1. SysInit => Cxx!Init
  BY DEF SysInit
<1>2. SessionInv /\ [SysNext]_sysvars => [Cxx!Next]_devvars
  BY StepIsDeviceStep DEF sysvars
<1>3. SysSpec => []SessionInv
  BY DriverInSystem, SessionInvariant, PTL
<1>4. devvars = Cxx!vars
  BY DEF devvars, Cxx!vars
<1> QED
  BY <1>1, <1>2, <1>3, PTL DEF SysSpec, Cxx!Spec, devvars, Cxx!vars

\* Cxx and CxxP are instances of one module.
LEMMA SameDevice == Cxx!Spec => CxxP!Spec
<1>1. Cxx!Init => CxxP!Init
  BY DEF Cxx!Init, CxxP!Init, Cxx!NoSession, CxxP!NoSession, Cxx!NoJob, CxxP!NoJob, Cxx!NewJob, CxxP!NewJob
<1>2. Cxx!Next => CxxP!Next
  BY DEF Cxx!Program, CxxP!Program, Cxx!SUPPORTED_PROGRAM_FORMATS, CxxP!SUPPORTED_PROGRAM_FORMATS,
     Cxx!TextFormats, CxxP!TextFormats, Cxx!ProgramFormat, CxxP!ProgramFormat, Cxx!NoSession,
     CxxP!NoSession, Cxx!NewJob, CxxP!NewJob, Cxx!NoJob, CxxP!NoJob, Cxx!LiveSession,
     CxxP!LiveSession, Cxx!LiveJob, CxxP!LiveJob, Cxx!Returns, CxxP!Returns, Cxx!device_initialize,
     CxxP!device_initialize, Cxx!device_finalize, CxxP!device_finalize, Cxx!InvalidArguments,
     CxxP!InvalidArguments, Cxx!device_session_alloc, CxxP!device_session_alloc,
     Cxx!device_session_set_parameter, CxxP!device_session_set_parameter, Cxx!device_session_init,
     CxxP!device_session_init, Cxx!device_session_free, CxxP!device_session_free,
     Cxx!device_session_create_device_job, CxxP!device_session_create_device_job,
     Cxx!device_session_retrieve_device_job_by_id, CxxP!device_session_retrieve_device_job_by_id,
     Cxx!device_job_free, CxxP!device_job_free, Cxx!device_job_set_parameter,
     CxxP!device_job_set_parameter, Cxx!Supported_format, CxxP!Supported_format, Cxx!Valid_program,
     CxxP!Valid_program, Cxx!ProgramLists, CxxP!ProgramLists, Cxx!device_job_set_programs,
     CxxP!device_job_set_programs, Cxx!Marker, CxxP!Marker, Cxx!Results, CxxP!Results,
     Cxx!QubitsKnown, CxxP!QubitsKnown, Cxx!device_job_submit, CxxP!device_job_submit,
     Cxx!device_job_cancel, CxxP!device_job_cancel, Cxx!Finish, CxxP!Finish, Cxx!check_completes,
     CxxP!check_completes, Cxx!device_job_check, CxxP!device_job_check, Cxx!device_job_wait,
     CxxP!device_job_wait, Cxx!device_job_get_program, CxxP!device_job_get_program,
     Cxx!device_job_get_program_status, CxxP!device_job_get_program_status,
     Cxx!device_job_query_property, CxxP!device_job_query_property, Cxx!device_job_get_results,
     CxxP!device_job_get_results, Cxx!device_session_query_device_property,
     CxxP!device_session_query_device_property, Cxx!SessionCall, CxxP!SessionCall, Cxx!JobCall,
     CxxP!JobCall, Cxx!Next, CxxP!Next
<1> QED
  BY <1>1, <1>2, PTL DEF Cxx!Spec, CxxP!Spec, Cxx!vars, CxxP!vars

\* What the proofs below need of the device: objects of their types, and no job
\* while the device is offline.
DeviceFacts ==
  /\ devsession \in [Devices -> Cxx!Session_impl]
  /\ devjob \in [Jobs -> Cxx!Job_impl]
  /\ deviceStatus = "OFFLINE" => \A j \in Jobs : devjob[j].status = "FREE"

\* They follow from the device's own invariant.
LEMMA DeviceFactsHold == SysSpec => []DeviceFacts
<1>1. CxxP!DeviceAssumption
  BY DriverAssumption, SystemAssumption DEF CxxP!DeviceAssumption, Cxx!Program, CxxP!Program
<1>2. CxxP!Spec => []CxxP!DeviceInv
  BY <1>1, CxxP!DeviceInvariant DEF CxxP!DeviceAssumption
<1>3. CxxP!DeviceInv => DeviceFacts
  BY DEF CxxP!DeviceInv, CxxP!TypeOK, CxxP!OfflineIsQuiet, CxxP!LiveJob, DeviceFacts,
     Cxx!Session_impl, CxxP!Session_impl, Cxx!SessionStatus, CxxP!SessionStatus,
     Cxx!Job_impl, CxxP!Job_impl, Cxx!JobStatus, CxxP!JobStatus,
     Cxx!ProgramFormat, CxxP!ProgramFormat,
     Cxx!SUPPORTED_PROGRAM_FORMATS, CxxP!SUPPORTED_PROGRAM_FORMATS,
     Cxx!Program, CxxP!Program, Cxx!Result_data, CxxP!Result_data
<1> QED
  BY <1>2, <1>3, SameDevice, DeviceInSystem, PTL

\* Whatever clients call, and whatever fails on the way, the results behind a
\* client's job are those of its programs, format and shots, and once it is
\* submitted the job is frozen.
THEOREM ResultsThroughDriver ==
  SysSpec => []CxxP!ResultsMatchPrograms /\ CxxP!SubmittedJobFrozen
<1>1. CxxP!DeviceAssumption
  BY DriverAssumption, SystemAssumption DEF CxxP!DeviceAssumption, Cxx!Program, CxxP!Program
<1>2. CxxP!Spec => []CxxP!ResultsMatchPrograms
  BY <1>1, CxxP!ResultsCorrect DEF CxxP!DeviceAssumption
<1>3. CxxP!Spec => CxxP!SubmittedJobFrozen
  BY <1>1, CxxP!SubmittedJobsFrozen DEF CxxP!DeviceAssumption
<1> QED
  BY <1>2, <1>3, SameDevice, DeviceInSystem, PTL

\* For clients that submit their jobs before they wait for them, the jobs they
\* have through the driver go through the life cycle of the interface.
THEOREM LifecycleThroughDriver ==
  ASSUME SubmitsBeforeWait PROVE SysSpec => CxxP!ImplementsLifecycle
<1>1. CxxP!DeviceAssumption
  BY DriverAssumption, SystemAssumption DEF CxxP!DeviceAssumption, Cxx!Program, CxxP!Program
<1>2. CxxP!Spec => CxxP!ImplementsLifecycle
  BY <1>1, CxxP!DeviceImplementsLifecycle DEF CxxP!DeviceAssumption
<1> QED
  BY <1>2, SameDevice, DeviceInSystem, PTL

-----------------------------------------------------------------------------
(* The inductive invariant: driver and device *)

\* Only the C++ device is ever initialized, and the device is up exactly when
\* the driver counts it as initialized.
DeviceUp ==
  /\ \A l \in Library : provider[l] # 0 => l = CXX
  /\ deviceStatus = "OFFLINE" <=> provider[CXX] = 0
  /\ deviceStatus \in {"OFFLINE", "IDLE", "BUSY"}

SysInv == DeviceUp /\ HandlesAgree

\* The device's type facts, field by field.
LEMMA DeviceObjects ==
  ASSUME DeviceFacts
  PROVE  /\ DOMAIN devsession = Devices /\ DOMAIN devjob = Jobs
         /\ \A d \in Devices : devsession[d] = [status |-> devsession[d].status,
                                               token  |-> devsession[d].token]
         /\ \A j \in Jobs : {"status", "session"} \subseteq DOMAIN devjob[j]
BY DEF DeviceFacts, Cxx!Session_impl, Cxx!Job_impl

\* A step that leaves the driver's objects and the device alone.
LEMMA NoCallKeepsSysInv ==
  ASSUME SysInv, NoDeviceCall, UNCHANGED <<provider, device, job>>
  PROVE  SysInv'
BY DEF SysInv, DeviceUp, HandlesAgree, NoDeviceCall, devvars

\* A step that changes neither who is loaded nor the device's status.
LEMMA HandlesStepKeepsSysInv ==
  ASSUME SysInv, UNCHANGED <<provider, deviceStatus>>, HandlesAgree'
  PROVE  SysInv'
BY DEF SysInv, DeviceUp

\* The one library that a line of the file can initialize is the C++ device.
LEMMA LoadLineKeepsSysInv ==
  ASSUME SysInv, SessionInv, LoadLine
  PROVE  SysInv'
<1>1. UNCHANGED <<device, job>>
  BY DEF LoadLine, load_line, objects
<1>2. CASE UNCHANGED provider /\ NoDeviceCall
  BY <1>1, <1>2, NoCallKeepsSysInv
<1>3. CASE \E library \in {CXX, MY} : /\ provider'[library] > provider[library]
                                      /\ InitializeSucceeds(library)
  <2>1. Cxx!device_initialize /\ provider'[CXX] > provider[CXX]
    BY <1>3 DEF InitializeSucceeds, TemplateReturns
  <2>2. HandlesAgree'
    BY <1>1, <2>1 DEF SysInv, HandlesAgree, Cxx!device_initialize
  <2>3. provider \in [Library -> Nat] /\ CXX \in Library
    BY SystemAssumption DEF SessionInv, DriverInv, TypeOK
  <2>4. PICK library \in Library : provider' = [provider EXCEPT ![library] = @ + 1]
    <3>1. provider' # provider
      BY <2>1, <2>3
    <3>2. call.lines # <<>> /\ call.lines \in Seq(Line)
      BY DEF LoadLine, load_line, SessionInv, DriverInv, TypeOK, Call
    <3>3. Head(call.lines) \in Line
      BY <3>2
    <3>4. /\ Head(call.lines).kind = "device"
          /\ library_load(Head(call.lines).library, Head(call.lines).id)
      BY <3>1 DEF LoadLine, load_line, external
    <3>5. Head(call.lines).library \in Library
      BY <3>3, <3>4 DEF Line
    <3> QED
      BY <3>1, <3>4, <3>5 DEF library_load, external
  <2>5. library = CXX
    BY <2>1, <2>3, <2>4
  <2>6. DeviceUp'
    BY <2>1, <2>3, <2>4, <2>5 DEF SysInv, DeviceUp, Cxx!device_initialize
  <2> QED
    BY <2>2, <2>6 DEF SysInv
<1> QED
  BY <1>2, <1>3 DEF LoadLine

\* The device is finalized when its library is unloaded.
LEMMA UnloadKeepsSysInv ==
  ASSUME SysInv, SessionInv, UnloadLibrary
  PROVE  SysInv'
<1>1. provider \in [Library -> Nat] /\ CXX \in Library
  BY SystemAssumption DEF SessionInv, DriverInv, TypeOK
<1>2. PICK library \in call.libraries : provider' = [provider EXCEPT ![library] = @ - 1]
  BY DEF UnloadLibrary, unload_library
<1>3. library \in Library /\ provider[library] = 1
  BY DEF SessionInv, DriverInv, TypeOK, Call, Accounted, AccountsFor, Loaded
<1>4. library = CXX
  BY <1>3 DEF SysInv, DeviceUp
<1>5. Cxx!device_finalize
  BY <1>1, <1>2, <1>3, <1>4 DEF UnloadLibrary
<1>6. DeviceUp'
  BY <1>1, <1>2, <1>3, <1>4, <1>5 DEF SysInv, DeviceUp, Cxx!device_finalize
<1>7. HandlesAgree'
  BY <1>5 DEF SysInv, HandlesAgree, Cxx!device_finalize, UnloadLibrary, unload_library, objects
<1> QED
  BY <1>6, <1>7 DEF SysInv

\* The driver's new device is the device's new session, or there is neither.
LEMMA OpenDeviceKeepsSysInv ==
  ASSUME SysInv, SessionInv, DeviceFacts, OpenDevice
  PROVE  SysInv'
<1>1. UNCHANGED <<provider, job>>
  BY DEF OpenDevice, open_device, external
<1>2. CASE device' = device /\ (NoDeviceCall \/ (Cxx!device_session_alloc /\ devret' = "bad_alloc"))
  <2>1. UNCHANGED <<deviceStatus, devsession, devjob>>
    BY <1>2 DEF NoDeviceCall, devvars, Cxx!device_session_alloc, Cxx!Returns
  <2>2. HandlesAgree'
    BY <1>1, <1>2, <2>1 DEF SysInv, HandlesAgree
  <2> QED
    BY <1>1, <2>1, <2>2, HandlesStepKeepsSysInv
<1>3. ASSUME NEW d \in Devices, device[d].status = "FREE", device'[d].status = "ALLOCATED",
             Cxx!device_session_alloc, devsession'[d].status = "ALLOCATED"
      PROVE  SysInv'
  <2>1. device \in [Devices -> Device_impl]
    BY DEF SessionInv, DriverInv, TypeOK
  <2>2. \A e \in Devices : e # d => device'[e] = device[e]
    BY <1>3, <2>1 DEF OpenDevice, open_device
  <2>3. devsession[d].status = "FREE"
    BY <1>3 DEF SysInv, HandlesAgree
  <2>4. /\ UNCHANGED <<deviceStatus, devjob>>
        /\ \A e \in Devices : e # d => devsession'[e] = devsession[e]
    BY <1>3, <2>3, DeviceObjects DEF Cxx!device_session_alloc, Cxx!Returns
  <2>5. HandlesAgree'
    BY <1>1, <1>3, <2>2, <2>4 DEF SysInv, HandlesAgree
  <2> QED
    BY <1>1, <2>4, <2>5, HandlesStepKeepsSysInv
<1> QED
  BY <1>2, <1>3 DEF OpenDevice

\* A token changes no status.
LEMMA SetTokenKeepsSysInv ==
  ASSUME SysInv, SessionInv, DeviceFacts, OpenSetToken
  PROVE  SysInv'
<1>1. UNCHANGED <<provider, device, job>>
  BY DEF OpenSetToken, open_set_token, external, objects
<1>2. PICK d \in Devices : Cxx!device_session_set_parameter(d)
  BY DEF OpenSetToken, SessionInv, DriverInv, TypeOK, Call
<1>3. /\ UNCHANGED <<deviceStatus, devjob>>
      /\ \A e \in Devices : devsession'[e].status = devsession[e].status
  BY <1>2, DeviceObjects DEF Cxx!device_session_set_parameter, Cxx!Returns
<1>4. HandlesAgree'
  BY <1>1, <1>3 DEF SysInv, HandlesAgree
<1> QED
  BY <1>1, <1>3, <1>4, HandlesStepKeepsSysInv

\* The driver lists a device when its session was initialized.
LEMMA OpenInitKeepsSysInv ==
  ASSUME SysInv, SessionInv, DeviceFacts, OpenInit
  PROVE  SysInv'
<1>1. UNCHANGED <<provider, job>>
  BY DEF OpenInit, open_init, external
<1>2. PICK d \in Devices : call.closing = {d}
  BY DEF OpenInit, open_init, SessionInv, OpeningLocals
<1>3. /\ Cxx!device_session_init(d)
      /\ IF devret' = "SUCCESS" THEN device' # device ELSE device' = device
  BY <1>2 DEF OpenInit
<1>4. UNCHANGED <<deviceStatus, devjob>>
  BY <1>3 DEF Cxx!device_session_init, Cxx!Returns
<1>5. CASE devret' = "SUCCESS"
  <2>1. device \in [Devices -> Device_impl]
    BY DEF SessionInv, DriverInv, TypeOK
  <2>2. device' = [device EXCEPT ![d].status = "INITIALIZED"]
    BY <1>2, <1>3, <1>5 DEF OpenInit, open_init
  <2>3. devsession' = [devsession EXCEPT ![d].status = "INITIALIZED"]
    BY <1>3, <1>5 DEF Cxx!device_session_init, Cxx!Returns
  <2>4. \A e \in Devices : devsession'[e].status = device'[e].status
    BY <2>1, <2>2, <2>3, DeviceObjects DEF SysInv, HandlesAgree, Device_impl
  <2>5. HandlesAgree'
    BY <1>1, <1>4, <2>4 DEF SysInv, HandlesAgree
  <2> QED
    BY <1>1, <1>4, <2>5, HandlesStepKeepsSysInv
<1>6. CASE devret' # "SUCCESS"
  <2>1. HandlesAgree'
    BY <1>1, <1>3, <1>4, <1>6 DEF Cxx!device_session_init, Cxx!Returns, SysInv, HandlesAgree
  <2> QED
    BY <1>1, <1>4, <2>1, HandlesStepKeepsSysInv
<1> QED
  BY <1>5, <1>6

\* Closing a device frees its session.
LEMMA CloseDeviceKeepsSysInv ==
  ASSUME SysInv, SessionInv, DeviceFacts, CloseDevice
  PROVE  SysInv'
<1>1. UNCHANGED <<provider, job>>
  BY DEF CloseDevice, close_device, external
<1>2. PICK d \in call.closing \ call'.closing : Cxx!device_session_free(d)
  BY DEF CloseDevice
<1>3. call.closing \subseteq Devices /\ device \in [Devices -> Device_impl] /\ call \in Call
  BY DEF SessionInv, DriverInv, TypeOK, Call
<1>4. device' = [device EXCEPT ![d] = NoDevice]
  <2>1. PICK e \in call.closing : /\ device' = [device EXCEPT ![e] = NoDevice]
                                  /\ call' = [call EXCEPT !.closing = @ \ {e}]
    BY DEF CloseDevice, close_device
  <2>2. call'.closing = call.closing \ {e}
    BY <1>3, <2>1 DEF Call
  <2> QED
    BY <2>1, <2>2
<1>5. UNCHANGED <<deviceStatus, devjob>> /\ devsession' = [devsession EXCEPT ![d] = Cxx!NoSession]
  BY <1>2 DEF Cxx!device_session_free
<1>6. \A e \in Devices : devsession'[e].status = device'[e].status
  BY <1>3, <1>4, <1>5, DeviceObjects DEF SysInv, HandlesAgree, Cxx!NoSession, NoDevice
<1>7. HandlesAgree'
  BY <1>1, <1>5, <1>6 DEF SysInv, HandlesAgree
<1> QED
  BY <1>1, <1>5, <1>7, HandlesStepKeepsSysInv

\* The driver's new job is the device's new job, or there is neither.
LEMMA CreateJobKeepsSysInv ==
  ASSUME SysInv, SessionInv, DeviceFacts, NEW s \in Clients,
         NEW i \in 1..Len(session[s].device_list), CreateJob(s, i)
  PROVE  SysInv'
<1> DEFINE d == session[s].device_list[i]
<1>1. UNCHANGED <<provider, device>>
  BY DEF CreateJob, device_create_job, Returns, external, objects
<1>2. d \in Devices /\ NULL \notin Devices
  <2>1. session[s].device_list \in Seq(Devices)
    BY ListTypes DEF SessionInv, DriverInv
  <2> QED
    BY <2>1, ElementOfSeq, DriverAssumption
<1>3. job \in [Jobs -> Devices \cup {NULL}]
  BY DEF SessionInv, DriverInv, TypeOK
<1> HIDE DEF d
<1>4. CASE ret' # "SUCCESS"
  <2>1. job' = job
    BY <1>4 DEF CreateJob, device_create_job, Returns, objects
  <2>2. UNCHANGED <<deviceStatus, devsession, devjob>>
    BY <1>4 DEF CreateJob, NoDeviceCall, devvars, Cxx!device_session_create_device_job,
       Cxx!Returns
  <2>3. HandlesAgree'
    BY <1>1, <2>1, <2>2 DEF SysInv, HandlesAgree
  <2> QED
    BY <1>1, <2>2, <2>3, HandlesStepKeepsSysInv
<1>5. CASE ret' = "SUCCESS"
  <2>1. PICK j \in Jobs : job[j] = NULL /\ job' = [job EXCEPT ![j] = d]
    BY <1>5, DriverAssumption DEF CreateJob, device_create_job, Returns, d
  <2>2. /\ Cxx!device_session_create_device_job(d)
        /\ devret' = "SUCCESS"
        /\ devjob'[j] # devjob[j]
    <3>1. job'[j] # job[j]
      BY <1>2, <1>3, <2>1
    <3> QED
      BY <1>5, <3>1 DEF CreateJob, d
  <2>3. PICK k \in Jobs : /\ devjob' = [devjob EXCEPT ![k] = Cxx!NewJob(d, "CREATED")]
                          /\ UNCHANGED <<deviceStatus, devsession>>
    BY <2>2 DEF Cxx!device_session_create_device_job, Cxx!Returns
  <2>4. k = j
    BY <2>2, <2>3, DeviceObjects
  <2>5. \A l \in Jobs : devjob'[l].session = job'[l]
    BY <1>3, <2>1, <2>3, <2>4, DeviceObjects DEF SysInv, HandlesAgree, Cxx!NewJob
  <2>6. HandlesAgree'
    BY <1>1, <2>3, <2>5 DEF SysInv, HandlesAgree
  <2> QED
    BY <1>1, <2>3, <2>6, HandlesStepKeepsSysInv
<1> QED
  BY <1>4, <1>5

\* The device retrieves no jobs.
LEMMA RetrieveJobKeepsSysInv ==
  ASSUME SysInv, NEW s, NEW i, RetrieveJob(s, i)
  PROVE  SysInv'
<1>1. ret' # "SUCCESS" /\ UNCHANGED <<deviceStatus, devsession, devjob>>
  BY DEF RetrieveJob, NoDeviceCall, devvars, Cxx!device_session_retrieve_device_job_by_id,
     Cxx!Returns
<1>2. UNCHANGED <<provider, device, job>>
  BY <1>1 DEF RetrieveJob, session_retrieve_job_by_id, Returns, external, objects
<1>3. HandlesAgree'
  BY <1>1, <1>2 DEF SysInv, HandlesAgree
<1> QED
  BY <1>1, <1>2, <1>3, HandlesStepKeepsSysInv

\* A job is freed in both.
LEMMA FreeJobKeepsSysInv ==
  ASSUME SysInv, SessionInv, DeviceFacts, NEW j \in Jobs, FreeJob(j)
  PROVE  SysInv'
<1>1. UNCHANGED <<provider, device>> /\ job' = [job EXCEPT ![j] = NULL]
  BY DEF FreeJob, job_free, external
<1>2. /\ UNCHANGED <<deviceStatus, devsession>>
      /\ devjob' = [devjob EXCEPT ![j] = Cxx!NoJob]
  BY DEF FreeJob, Cxx!device_job_free
<1>3. job \in [Jobs -> Devices \cup {NULL}]
  BY DEF SessionInv, DriverInv, TypeOK
<1>4. \A k \in Jobs : devjob'[k].session = job'[k]
  BY <1>1, <1>2, <1>3, DeviceObjects DEF SysInv, HandlesAgree, Cxx!NoJob, Cxx!NewJob
<1>5. HandlesAgree'
  BY <1>1, <1>2, <1>4 DEF SysInv, HandlesAgree
<1> QED
  BY <1>1, <1>2, <1>5, HandlesStepKeepsSysInv

\* A call on a job that does not free it leaves it with its session, and it
\* cannot bring a device up that is offline.
LEMMA ForwardJobCallKeepsSysInv ==
  ASSUME SysInv, DeviceFacts, NEW j \in Jobs, ForwardJobCall(j)
  PROVE  SysInv'
<1>1. UNCHANGED <<provider, device, job>>
  BY DEF ForwardJobCall, job_forward, Returns, external, objects
<1>2. Cxx!JobCall(j) /\ devjob'[j].status # "FREE"
  BY DEF ForwardJobCall
<1>3. /\ devjob[j].status # "FREE"
      /\ devsession' = devsession
      /\ deviceStatus' \in {"IDLE", "BUSY", deviceStatus}
      /\ \A k \in Jobs : devjob'[k].session = devjob[k].session
  <2>1. CASE Cxx!device_job_free(j)
    BY <1>2, <2>1, DeviceObjects DEF Cxx!device_job_free, Cxx!NoJob, Cxx!NewJob
  <2>2. ASSUME NEW n, Cxx!device_job_set_parameter(j, n) PROVE <1>3
    BY <2>2, DeviceObjects DEF Cxx!device_job_set_parameter, Cxx!LiveJob, Cxx!Returns
  <2>3. ASSUME NEW format, NEW programs, Cxx!device_job_set_programs(j, format, programs)
        PROVE  <1>3
    BY <2>3, DeviceObjects DEF Cxx!device_job_set_programs, Cxx!LiveJob, Cxx!Returns
  <2>4. CASE Cxx!device_job_submit(j)
    BY <2>4, DeviceObjects DEF Cxx!device_job_submit, Cxx!LiveJob, Cxx!Returns
  <2>5. CASE Cxx!device_job_cancel(j)
    BY <2>5, DeviceObjects DEF Cxx!device_job_cancel, Cxx!LiveJob, Cxx!Returns
  <2>6. CASE Cxx!device_job_check(j) \/ Cxx!device_job_wait(j)
    BY <2>6, DeviceObjects DEF Cxx!device_job_check, Cxx!check_completes, Cxx!device_job_wait,
       Cxx!Finish, Cxx!LiveJob, Cxx!Returns
  <2>7. ASSUME NEW i, \/ Cxx!device_job_get_program(j, i)
                      \/ Cxx!device_job_get_program_status(j, i)
                      \/ Cxx!device_job_get_results(j, i)
        PROVE  <1>3
    BY <2>7 DEF Cxx!device_job_get_program, Cxx!device_job_get_program_status,
       Cxx!device_job_get_results, Cxx!LiveJob, Cxx!Returns
  <2>8. ASSUME NEW prop, Cxx!device_job_query_property(j, prop) PROVE <1>3
    BY <2>8 DEF Cxx!device_job_query_property, Cxx!LiveJob, Cxx!Returns
  <2> QED
    BY <1>2, <2>1, <2>2, <2>3, <2>4, <2>5, <2>6, <2>7, <2>8 DEF Cxx!JobCall
<1>4. deviceStatus # "OFFLINE"
  BY <1>3 DEF DeviceFacts
<1>5. HandlesAgree'
  BY <1>1, <1>3 DEF SysInv, HandlesAgree
<1>6. DeviceUp'
  BY <1>1, <1>3, <1>4 DEF SysInv, DeviceUp
<1> QED
  BY <1>5, <1>6 DEF SysInv

\* A query of a device changes nothing.
LEMMA QueryDeviceKeepsSysInv ==
  ASSUME SysInv, NEW s, QueryDevice(s)
  PROVE  SysInv'
<1>1. UNCHANGED <<provider, device, job>>
  BY DEF QueryDevice, device_query_property, Returns, external, objects
<1>2. UNCHANGED <<deviceStatus, devsession, devjob>>
  BY DEF QueryDevice, NoDeviceCall, devvars, Cxx!device_session_query_device_property,
     Cxx!Returns
<1>3. HandlesAgree'
  BY <1>1, <1>2 DEF SysInv, HandlesAgree
<1> QED
  BY <1>1, <1>2, <1>3, HandlesStepKeepsSysInv

\* The steps of a call in progress.
LEMMA ContinueKeepsSysInv ==
  ASSUME SysInv, SessionInv, DeviceFacts, SysContinue
  PROVE  SysInv'
<1>1. CASE (load_end \/ unload_end \/ open_end \/ close_end) /\ NoDeviceCall
  <2>1. UNCHANGED <<provider, device, job>>
    BY <1>1 DEF load_end, unload_end, open_end, close_end, external, objects
  <2> QED
    BY <1>1, <2>1, NoCallKeepsSysInv
<1> QED
  BY <1>1, LoadLineKeepsSysInv, UnloadKeepsSysInv, OpenDeviceKeepsSysInv, SetTokenKeepsSysInv,
     OpenInitKeepsSysInv, CloseDeviceKeepsSysInv DEF SysContinue

\* Every step of the system.
LEMMA StepKeepsSysInv ==
  ASSUME SysInv, SessionInv, DeviceFacts, [SysNext]_sysvars
  PROVE  SysInv'
<1>1. CASE UNCHANGED sysvars
  BY <1>1, NoCallKeepsSysInv DEF sysvars, vars, external, objects, NoDeviceCall
<1>2. CASE (InvalidArguments \/ session_alloc) /\ NoDeviceCall
  <2>1. UNCHANGED <<provider, device, job>>
    BY <1>2 DEF InvalidArguments, session_alloc, Returns, external, objects
  <2> QED
    BY <1>2, <2>1, NoCallKeepsSysInv
<1>3. ASSUME NEW s \in Clients, SysSessionCall(s) PROVE SysInv'
  <2>1. CASE /\ \/ session_set_parameter(s)
                \/ session_init(s)
                \/ session_free(s)
                \/ session_query_session_property(s)
             /\ NoDeviceCall
    <3>1. UNCHANGED <<provider, device, job>>
      BY <2>1 DEF session_set_parameter, session_init, session_free,
         session_query_session_property, Returns, external, objects
    <3> QED
      BY <2>1, <3>1, NoCallKeepsSysInv
  <2> QED
    BY <1>3, <2>1, QueryDeviceKeepsSysInv, CreateJobKeepsSysInv, RetrieveJobKeepsSysInv
    DEF SysSessionCall
<1>4. ASSUME NEW j \in Jobs, FreeJob(j) \/ ForwardJobCall(j) PROVE SysInv'
  BY <1>4, FreeJobKeepsSysInv, ForwardJobCallKeepsSysInv
<1> QED
  BY <1>1, <1>2, <1>3, <1>4, ContinueKeepsSysInv DEF SysNext

-----------------------------------------------------------------------------
(* Theorems *)

\* Whatever clients and device do, driver and device agree on the device's
\* being up, on its sessions and on its jobs.
THEOREM SystemInvariant == SysSpec => [](SessionInv /\ DeviceFacts /\ SysInv)
<1>1. SysInit => SysInv
  BY SystemAssumption DEF SysInit, Init, Cxx!Init, SysInv, DeviceUp, HandlesAgree,
     NoDevice, Cxx!NoSession, Cxx!NoJob, Cxx!NewJob
<1>2. SysInv /\ SessionInv /\ DeviceFacts /\ [SysNext]_sysvars => SysInv'
  BY StepKeepsSysInv
<1> QED
  BY <1>1, <1>2, DriverInSystem, SessionInvariant, DeviceFactsHold, PTL DEF SysSpec

\* The device holds exactly the sessions and jobs the driver has handles for.
THEOREM HandlesAlwaysAgree == SysSpec => []HandlesAgree
<1>1. SysInv => HandlesAgree
  BY DEF SysInv
<1> QED
  BY <1>1, SystemInvariant, PTL

\* What the driver's and the system's invariants say of a device that is open.
LEMMA OpenDevices ==
  ASSUME SessionInv, SysInv
  PROVE  /\ \A l \in libraries : l = CXX /\ deviceStatus # "OFFLINE"
         /\ \A d \in Devices : device[d].status # "FREE" => device[d].library \in libraries
<1>1. ASSUME NEW l \in libraries PROVE l = CXX /\ deviceStatus # "OFFLINE"
  <2>1. l \in Library /\ provider[l] = 1
    BY DEF SessionInv, DriverInv, TypeOK, Accounted, AccountsFor, Loaded
  <2> QED
    BY <2>1 DEF SysInv, DeviceUp
<1> QED
  BY <1>1 DEF SessionInv, DevicesLoaded

\* The driver never breaks a condition the device puts on its caller.
THEOREM CallsAllowed == SysSpec => []DeviceCallsAllowed
<1>1. SessionInv /\ SysInv => DeviceCallsAllowed
  <2> SUFFICES ASSUME SessionInv, SysInv PROVE DeviceCallsAllowed
    OBVIOUS
  <2>1. ASSUME call.at = "load", CXX \notin call.libraries
        PROVE  deviceStatus = "OFFLINE"
    <3>1. libraries = {}
      BY <2>1, NoLibraries DEF SessionInv, DriverInv, CallLocals, Configuration
    <3>2. provider[CXX] = 0
      BY <2>1, <3>1, SystemAssumption DEF SessionInv, DriverInv, Accounted, AccountsFor, Loaded
    <3> QED
      BY <3>2 DEF SysInv, DeviceUp
  <2>2. ASSUME call.at = "unload", CXX \in call.libraries
        PROVE  /\ deviceStatus # "OFFLINE"
               /\ \A d \in Devices : devsession[d].status = "FREE"
    <3>1. libraries = {}
      BY <2>2, NoLibraries DEF SessionInv, DriverInv, CallLocals, Configuration
    <3>2. provider[CXX] = 1
      BY <2>2, SystemAssumption DEF SessionInv, DriverInv, Accounted, AccountsFor, Loaded
    <3> QED
      BY <3>1, <3>2, OpenDevices DEF SysInv, DeviceUp, HandlesAgree
  <2>3. ASSUME call.at = "open", call.configured # <<>>
        PROVE  deviceStatus # "OFFLINE"
    <3>1. \E i \in 1..Len(configured_devices) : TRUE
      <4>1. /\ call.configured \in Seq(Configured_Device)
            /\ configured_devices \in Seq(Configured_Device)
            /\ call.devices \in Seq(Devices)
        BY ListTypes DEF SessionInv, DriverInv
      <4>2. /\ Len(configured_devices) = Len(call.devices) + Len(call.configured)
            /\ \A i \in 1..Len(call.configured) :
                 call.configured[i] = configured_devices[Len(call.devices) + i]
        BY <2>3 DEF SessionInv, OpeningLocals, Opening
      <4>3. Len(call.devices) + 1 \in 1..Len(configured_devices)
        BY <2>3, <4>1, <4>2, LenProperties, NextConfigured
      <4> QED
        BY <4>3
    <3>2. libraries # {}
      BY <3>1 DEF SessionInv, DriverInv, Configuration, LibrariesOf
    <3> QED
      BY <3>2, OpenDevices
  <2>4. ASSUME call.at \in {"set_token", "init"}, NEW d \in call.closing
        PROVE  devsession[d].status = "ALLOCATED"
    <3>1. d \in Devices /\ device[d].status = "ALLOCATED"
      BY <2>4 DEF SessionInv, OpeningLocals
    <3> QED
      BY <3>1 DEF SysInv, HandlesAgree
  <2>5. ASSUME call.at = "close", NEW d \in call.closing
        PROVE  /\ devsession[d].status # "FREE"
               /\ \A j \in Jobs : devjob[j].session # d
    <3>1. d \in Devices /\ d \in Held
      BY ListTypes DEF SessionInv, DriverInv, Held
    <3>2. device[d].status # "FREE"
      BY <3>1 DEF SessionInv, OneOwner
    <3>3. ASSUME NEW j \in Jobs, job[j] = d PROVE FALSE
      <4>1. d # NULL
        BY <3>1, DriverAssumption
      <4>2. PICK s \in Clients : d \in DevicesOf(s)
        BY <3>3, <4>1 DEF SessionInv, JobsOnWritableSessions, DevicesOf
      <4> QED
        BY <3>1, <4>2 DEF SessionInv, OneOwner
    <3> QED
      BY <3>1, <3>2, <3>3 DEF SysInv, HandlesAgree
  <2> QED
    BY <2>1, <2>2, <2>3, <2>4, <2>5 DEF DeviceCallsAllowed
<1> QED
  BY <1>1, SystemInvariant, PTL

\* An open session can be used, whatever happened to other sessions.
THEOREM OpenSessionsStayUsable == SysSpec => []OpenSessionsUsable
<1>1. SessionInv /\ SysInv => OpenSessionsUsable
  <2> SUFFICES ASSUME SessionInv, SysInv, NEW s \in Clients,
                      session[s].status = "INITIALIZED",
                      NEW d \in DeviceSet(session[s].device_list)
               PROVE  /\ device[d].library = CXX
                      /\ devsession[d].status = "INITIALIZED"
                      /\ deviceStatus \in {"IDLE", "BUSY"}
    BY DEF OpenSessionsUsable
  <2>1. d \in Devices
    BY ListTypes DEF SessionInv, DriverInv, DevicesOf
  <2>2. device[d].status = "INITIALIZED"
    <3>1. PICK i \in 1..Len(session[s].device_list) : d = session[s].device_list[i]
      BY DEF DeviceSet
    <3>2. device[d] = Opened(i)
      BY <3>1 DEF SessionInv, SessionsComplete, Opened
    <3> QED
      BY <3>2 DEF Opened
  <2>3. device[d].library = CXX /\ deviceStatus # "OFFLINE"
    BY <2>1, <2>2, OpenDevices
  <2> QED
    BY <2>1, <2>2, <2>3 DEF SysInv, HandlesAgree, DeviceUp
<1> QED
  BY <1>1, SystemInvariant, PTL
=============================================================================
