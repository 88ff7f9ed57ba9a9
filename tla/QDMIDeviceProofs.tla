--------------------------- MODULE QDMIDeviceProofs ---------------------------
(***************************************************************************)
(* Theorems about the device of QDMIDevice, for any number of sessions,    *)
(* jobs, programs and shots.                                               *)
(***************************************************************************)
EXTENDS QDMIDevice, SequenceTheorems, TLAPS

\* What a job object satisfies by itself: the statuses the device assigns,
\* results only after submission and only for the job's own input, a format
\* exactly with programs and, for callers that submit before they wait, no
\* DONE job without results.
WellFormed(b) ==
  /\ b.status \in {"FREE", "CREATED", "RUNNING", "DONE", "CANCELED"}
  /\ b.status \in {"FREE", "CREATED"} => b.results = <<>>
  /\ b.results # <<>> => b.results = Results(b)
  /\ b.status = "RUNNING" => b.programs # <<>> /\ b.results = Results(b)
  /\ b.format = "MAX" <=> b.programs = <<>>
  /\ SubmitsBeforeWait /\ b.status = "DONE" => b.programs # <<>> /\ b.results = Results(b)

\* The inductive invariant.
DeviceInv ==
  /\ TypeOK
  /\ \A j \in Jobs : WellFormed(job[j])
  /\ SubmitKnowsQubits
  /\ OfflineIsQuiet

-----------------------------------------------------------------------------
\* The results of a job that has programs are a sequence with an element for
\* each of them (submit, lines 566-598).
LEMMA ResultsType ==
  ASSUME NEW b \in Job_impl
  PROVE  /\ Results(b) \in Seq(Result_data)
         /\ Len(Results(b)) = Len(b.programs)
         /\ b.programs # <<>> => Results(b) # <<>>
<1> DEFINE R(i) == [shot  |-> IF Len(b.programs) > 1
                                THEN Marker(b.format, b.programs[i]) ELSE 0,
                    shots |-> b.num_shots]
<1>1. b.programs \in Seq(Program) /\ b.num_shots \in Nat /\ Len(b.programs) \in Nat
  BY DEF Job_impl
<1>2. \A i \in 1..Len(b.programs) : R(i) \in Result_data
  <2> TAKE i \in 1..Len(b.programs)
  <2>1. b.programs[i] \in Program
    BY <1>1, ElementOfSeq
  <2>2. Marker(b.format, b.programs[i]) \in 0..3
    BY <2>1 DEF Marker, Program
  <2> QED
    BY <1>1, <2>2 DEF Result_data
<1>3. Results(b) = [i \in 1..Len(b.programs) |-> R(i)]
  BY DEF Results
<1> HIDE DEF R
<1>4. Results(b) \in Seq(Result_data) /\ Len(Results(b)) = Len(b.programs)
  BY <1>1, <1>2, <1>3
<1>5. b.programs # <<>> => Len(b.programs) # 0
  BY <1>1
<1> QED
  BY <1>4, <1>5

\* The results depend on nothing but programs, format and shot count.
LEMMA SameInputSameResults ==
  ASSUME NEW b, NEW c,
         b.programs = c.programs, b.format = c.format, b.num_shots = c.num_shots
  PROVE  Results(b) = Results(c)
BY DEF Results

\* Lists of payloads are sequences of programs, and no list is empty.
LEMMA ListsType ==
  ASSUME NEW ps \in ProgramLists
  PROVE  ps \in Seq(Program) /\ ps # <<>>
<1>1. PICK n \in 1..MaxPrograms : ps \in [1..n -> Payloads]
  BY DEF ProgramLists
<1>2. n \in Nat /\ n > 0 /\ ps \in [1..n -> Program]
  BY <1>1, DeviceAssumption
<1>3. ps \in Seq(Program) /\ Len(ps) = n
  BY <1>2
<1> QED
  BY <1>2, <1>3

\* A call that stores a well-formed object at the handle of a live job keeps
\* the invariant, as long as the job keeps its session and the device does not
\* go offline.
LEMMA JobUpdate ==
  ASSUME DeviceInv,
         NEW j \in Jobs, LiveJob(j),
         NEW b \in Job_impl, WellFormed(b), b.session = job[j].session,
         job' = [job EXCEPT ![j] = b],
         deviceStatus' \in {"IDLE", "BUSY", deviceStatus},
         ret' \in ReturnCode, UNCHANGED session
  PROVE  DeviceInv'
<1> USE DEF DeviceInv
<1>1. TypeOK'
  BY DEF TypeOK, DeviceStatus
<1>2. \A k \in Jobs : WellFormed(job[k])'
  <2> TAKE k \in Jobs
  <2>1. job'[k] = IF k = j THEN b ELSE job[k]
    BY DEF TypeOK
  <2>2. WellFormed(job'[k])
    BY <2>1
  <2> QED
    BY <2>2 DEF WellFormed, Results
<1>3. SubmitKnowsQubits'
  BY DEF SubmitKnowsQubits, QubitsKnown, LiveJob, TypeOK
<1>4. deviceStatus # "OFFLINE" /\ deviceStatus' # "OFFLINE"
  BY DEF OfflineIsQuiet
<1>5. OfflineIsQuiet'
  BY <1>4 DEF OfflineIsQuiet
<1> QED
  BY <1>1, <1>2, <1>3, <1>5

-----------------------------------------------------------------------------
\* A call that changes no object keeps the invariant, whatever it returns.
LEMMA ReturnsKeepsInv ==
  ASSUME DeviceInv, NEW code \in ReturnCode, Returns(code)
  PROVE  DeviceInv'
<1>1. \A k \in Jobs : WellFormed(job[k])'
  BY DEF Returns, DeviceInv, WellFormed, Results
<1> QED
  BY <1>1 DEF Returns, DeviceInv, TypeOK, SubmitKnowsQubits, QubitsKnown, OfflineIsQuiet,
       LiveJob

\* Calls on the device and on its sessions keep the invariant.
LEMMA SessionCallsKeepInv ==
  ASSUME DeviceInv,
         \/ device_initialize
         \/ device_finalize
         \/ device_session_alloc
         \/ \E s \in Sessions : SessionCall(s)
  PROVE  DeviceInv'
<1> USE DEF DeviceInv
<1>J. ASSUME UNCHANGED job
      PROVE  \A k \in Jobs : WellFormed(job[k])'
  BY <1>J DEF WellFormed, Results
<1>1. CASE device_initialize
  BY <1>1, <1>J DEF device_initialize, TypeOK, DeviceStatus, ReturnCode, SubmitKnowsQubits,
     QubitsKnown, OfflineIsQuiet, LiveJob
<1>2. CASE device_finalize
  \* No session is live, so no job is: OfflineIsQuiet holds at once.
  <2>1. \A j \in Jobs : ~LiveJob(j)
    BY <1>2 DEF device_finalize, SubmitKnowsQubits, QubitsKnown, LiveSession
  <2> QED
    BY <1>2, <1>J, <2>1 DEF device_finalize, TypeOK, DeviceStatus, ReturnCode,
       SubmitKnowsQubits, QubitsKnown, OfflineIsQuiet, LiveJob, LiveSession
<1>3. CASE device_session_alloc
  <2>1. CASE Returns("bad_alloc")
    BY <2>1, ReturnsKeepsInv DEF ReturnCode
  <2>2. ASSUME NEW s \in Sessions, ~LiveSession(s),
               session' = [session EXCEPT ![s] = [status |-> "ALLOCATED", token |-> FALSE]],
               ret' = "SUCCESS", UNCHANGED <<deviceStatus, job>>
        PROVE  DeviceInv'
    BY <2>2, <1>J DEF TypeOK, Session_impl, SessionStatus, ReturnCode, SubmitKnowsQubits,
       QubitsKnown, OfflineIsQuiet, LiveJob, LiveSession
  <2> QED
    BY <1>3, <2>1, <2>2 DEF device_session_alloc
<1>4. ASSUME NEW s \in Sessions, SessionCall(s)
      PROVE  DeviceInv'
  <2>1. CASE device_session_set_parameter(s)
    <3>1. CASE \E code \in ReturnCode : Returns(code)
      BY <3>1, ReturnsKeepsInv
    <3>2. CASE /\ session[s].status = "ALLOCATED"
               /\ session' = [session EXCEPT ![s].token = TRUE]
               /\ ret' = "SUCCESS"
               /\ UNCHANGED <<deviceStatus, job>>
      BY <3>2, <1>J DEF TypeOK, Session_impl, ReturnCode, SubmitKnowsQubits, QubitsKnown,
         OfflineIsQuiet, LiveJob
    <3> QED
      BY <2>1, <3>1, <3>2 DEF device_session_set_parameter, ReturnCode
  <2>2. CASE device_session_init(s)
    <3>1. CASE \E code \in ReturnCode : Returns(code)
      BY <3>1, ReturnsKeepsInv
    <3>2. CASE /\ deviceStatus \notin {"ERROR", "OFFLINE", "MAINTENANCE"}
               /\ session' = [session EXCEPT ![s].status = "INITIALIZED"]
               /\ ret' = "SUCCESS"
               /\ UNCHANGED <<deviceStatus, job>>
      BY <3>2, <1>J DEF TypeOK, Session_impl, SessionStatus, ReturnCode, SubmitKnowsQubits,
         QubitsKnown, OfflineIsQuiet, LiveJob
    <3> QED
      BY <2>2, <3>1, <3>2 DEF device_session_init, ReturnCode
  <2>3. CASE device_session_free(s)
    BY <2>3, <1>J DEF device_session_free, NoSession, TypeOK, Session_impl, SessionStatus,
       ReturnCode, SubmitKnowsQubits, QubitsKnown, OfflineIsQuiet, LiveJob
  <2>4. CASE device_session_create_device_job(s)
    <3>1. CASE \E code \in ReturnCode : Returns(code)
      BY <3>1, ReturnsKeepsInv
    <3>2. ASSUME NEW j \in Jobs, ~LiveJob(j), session[s].status = "INITIALIZED",
                 job' = [job EXCEPT ![j] = NewJob(s, "CREATED")],
                 ret' = "SUCCESS", UNCHANGED <<deviceStatus, session>>
          PROVE  DeviceInv'
      <4> DEFINE b == NewJob(s, "CREATED")
      <4>1. b.session = s
        BY DEF NewJob
      <4>2. b \in Job_impl
        BY EmptySeq DEF NewJob, Job_impl, JobStatus, ProgramFormat
      <4>3. WellFormed(b)
        BY DEF NewJob, WellFormed
      <4> HIDE DEF b
      <4>4. \A k \in Jobs : job'[k] = IF k = j THEN b ELSE job[k]
        BY <3>2 DEF TypeOK, b
      <4>5. TypeOK'
        BY <3>2, <4>2 DEF TypeOK, ReturnCode, b
      <4>6. \A k \in Jobs : WellFormed(job[k])'
        BY <4>3, <4>4 DEF WellFormed, Results
      <4>7. SubmitKnowsQubits' /\ OfflineIsQuiet'
        BY <3>2, <4>1, <4>4 DEF SubmitKnowsQubits, QubitsKnown, OfflineIsQuiet, LiveJob
      <4> QED
        BY <4>5, <4>6, <4>7
    <3> QED
      BY <2>4, <3>1, <3>2 DEF device_session_create_device_job, ReturnCode
  <2>5. CASE device_session_query_device_property(s)
    BY <2>5, ReturnsKeepsInv DEF device_session_query_device_property, ReturnCode
  <2> QED
    BY <1>4, <2>1, <2>2, <2>3, <2>4, <2>5 DEF SessionCall
<1> QED
  BY <1>1, <1>2, <1>3, <1>4

\* Calls on a job keep the invariant.
LEMMA JobCallsKeepInv ==
  ASSUME DeviceInv, NEW j \in Jobs, JobCall(j)
  PROVE  DeviceInv'
<1> DEFINE b == job[j]
<1>1. b \in Job_impl /\ WellFormed(b)
  BY DEF DeviceInv, TypeOK
<1>R. ASSUME \E code \in ReturnCode : Returns(code)
      PROVE  DeviceInv'
  BY <1>R, ReturnsKeepsInv
<1>F. ASSUME LiveJob(j), Finish(j), b.status \in {"CREATED", "RUNNING"},
             SubmitsBeforeWait => b.status = "RUNNING"
      PROVE  DeviceInv'
  <2> DEFINE c == [b EXCEPT !.status = "DONE"]
  <2>1. c \in Job_impl /\ c.session = b.session /\ Results(c) = Results(b)
    BY <1>1, SameInputSameResults DEF Job_impl, JobStatus
  <2>2. WellFormed(c)
    BY <1>1, <1>F, <2>1 DEF WellFormed, Job_impl
  <2>3. job' = [job EXCEPT ![j] = c] /\ deviceStatus' = "IDLE" /\ UNCHANGED session
        /\ ret' \in ReturnCode
    BY <1>F DEF Finish, ReturnCode
  <2> HIDE DEF c, b
  <2> QED
    BY <1>F, <2>1, <2>2, <2>3, JobUpdate DEF b
<1>2. CASE device_job_free(j)
  <2>1. NoJob \in Job_impl /\ WellFormed(NoJob) /\ NoJob.status = "FREE"
    BY EmptySeq DEF NoJob, NewJob, Job_impl, JobStatus, ProgramFormat, WellFormed
  <2>2. \A k \in Jobs : job'[k] = IF k = j THEN NoJob ELSE job[k]
    BY <1>2 DEF device_job_free, DeviceInv, TypeOK
  <2>3. TypeOK'
    BY <1>2, <2>1 DEF device_job_free, DeviceInv, TypeOK, ReturnCode
  <2>4. \A k \in Jobs : WellFormed(job[k])'
    BY <2>1, <2>2 DEF DeviceInv, WellFormed, Results
  <2>5. SubmitKnowsQubits' /\ OfflineIsQuiet'
    BY <1>2, <2>1, <2>2 DEF device_job_free, DeviceInv, SubmitKnowsQubits, QubitsKnown,
       OfflineIsQuiet, LiveJob
  <2> QED
    BY <2>3, <2>4, <2>5 DEF DeviceInv
<1>3. ASSUME NEW n \in 0..MaxShots, device_job_set_parameter(j, n)
      PROVE  DeviceInv'
  <2>1. CASE /\ b.status = "CREATED"
             /\ job' = [job EXCEPT ![j].num_shots = n]
             /\ ret' = "SUCCESS"
             /\ UNCHANGED <<deviceStatus, session>>
    <3> DEFINE c == [b EXCEPT !.num_shots = n]
    <3>1. c \in Job_impl /\ c.session = b.session
      BY <1>1, DeviceAssumption DEF Job_impl
    <3>2. WellFormed(c)
      BY <1>1, <2>1 DEF WellFormed, Job_impl
    <3>3. job' = [job EXCEPT ![j] = c] /\ ret' \in ReturnCode /\ LiveJob(j)
      BY <2>1 DEF ReturnCode, LiveJob
    <3> HIDE DEF c, b
    <3> QED
      BY <2>1, <3>1, <3>2, <3>3, JobUpdate DEF b
  <2> QED
    BY <1>3, <2>1, <1>R DEF device_job_set_parameter, ReturnCode
<1>4. ASSUME NEW format \in Formats, NEW ps \in ProgramLists,
             device_job_set_programs(j, format, ps)
      PROVE  DeviceInv'
  <2>1. CASE /\ b.status = "CREATED"
             /\ Supported_format(format)
             /\ job' = [job EXCEPT ![j].format = format, ![j].programs = ps]
             /\ ret' = "SUCCESS"
             /\ UNCHANGED <<deviceStatus, session>>
    <3> DEFINE c == [b EXCEPT !.format = format, !.programs = ps]
    <3>1. c \in Job_impl /\ c.session = b.session
      BY <1>1, <2>1, ListsType DEF Job_impl, Supported_format, ProgramFormat
    <3>2. WellFormed(c)
      BY <1>1, <2>1, ListsType
      DEF WellFormed, Job_impl, Supported_format, SUPPORTED_PROGRAM_FORMATS
    <3>3. job' = [job EXCEPT ![j] = c] /\ ret' \in ReturnCode /\ LiveJob(j)
      BY <2>1 DEF ReturnCode, LiveJob
    <3> HIDE DEF c, b
    <3> QED
      BY <2>1, <3>1, <3>2, <3>3, JobUpdate DEF b
  <2> QED
    BY <1>4, <2>1, <1>R DEF device_job_set_programs, ReturnCode
<1>5. CASE device_job_submit(j)
  <2>1. CASE /\ b.status = "CREATED"
             /\ b.programs # <<>>
             /\ job' = [job EXCEPT ![j].results = Results(job[j]),
                                   ![j].status = "RUNNING"]
             /\ deviceStatus' = "BUSY"
             /\ ret' = "SUCCESS"
             /\ UNCHANGED session
    <3> DEFINE c == [b EXCEPT !.results = Results(b), !.status = "RUNNING"]
    <3>1. c \in Job_impl /\ c.session = b.session /\ c.status = "RUNNING"
          /\ c.results = Results(b) /\ c.programs = b.programs /\ c.format = b.format
          /\ c.num_shots = b.num_shots
      BY <1>1, ResultsType DEF Job_impl, JobStatus
    <3>2. Results(c) = Results(b)
      BY <3>1, SameInputSameResults
    <3>3. WellFormed(c)
      BY <1>1, <2>1, <3>1, <3>2 DEF WellFormed
    <3>4. job' = [job EXCEPT ![j] = c] /\ ret' \in ReturnCode /\ LiveJob(j)
      BY <2>1 DEF ReturnCode, LiveJob
    <3> HIDE DEF c, b
    <3> QED
      BY <2>1, <3>1, <3>3, <3>4, JobUpdate DEF b
  <2> QED
    BY <1>5, <2>1, <1>R DEF device_job_submit, ReturnCode
<1>6. CASE device_job_cancel(j)
  <2>1. CASE /\ LiveJob(j)
             /\ b.status # "DONE"
             /\ job' = [job EXCEPT ![j].status = "CANCELED"]
             /\ deviceStatus' = "IDLE"
             /\ ret' = "SUCCESS"
             /\ UNCHANGED session
    <3> DEFINE c == [b EXCEPT !.status = "CANCELED"]
    <3>1. c \in Job_impl /\ c.session = b.session /\ Results(c) = Results(b)
      BY <1>1, SameInputSameResults DEF Job_impl, JobStatus
    <3>2. WellFormed(c)
      BY <1>1, <2>1, <3>1 DEF WellFormed, Job_impl
    <3>3. job' = [job EXCEPT ![j] = c] /\ ret' \in ReturnCode
      BY <2>1 DEF ReturnCode
    <3> HIDE DEF c, b
    <3> QED
      BY <2>1, <3>1, <3>2, <3>3, JobUpdate DEF b
  <2> QED
    BY <1>6, <2>1, <1>R DEF device_job_cancel, ReturnCode
<1>7. CASE device_job_check(j)
  BY <1>7, <1>F, <1>R DEF device_job_check, check_completes, ReturnCode
<1>8. CASE device_job_wait(j)
  BY <1>1, <1>8, <1>F, <1>R DEF device_job_wait, WellFormed, LiveJob, ReturnCode
<1>9. ASSUME NEW i \in 0..MaxPrograms,
             \/ device_job_get_program(j, i)
             \/ device_job_get_program_status(j, i)
             \/ device_job_get_results(j, i)
      PROVE  DeviceInv'
  <2>1. i \in Nat
    BY DeviceAssumption
  <2> QED
    BY <1>9, <1>R, <2>1 DEF device_job_get_program, device_job_get_program_status,
       device_job_get_results, ReturnCode
<1>10. ASSUME NEW prop, device_job_query_property(j, prop)
       PROVE  DeviceInv'
  BY <1>10, <1>R DEF device_job_query_property, ReturnCode
<1> QED
  BY <1>2, <1>3, <1>4, <1>5, <1>6, <1>7, <1>8, <1>9, <1>10 DEF JobCall

-----------------------------------------------------------------------------
\* The invariant holds in every reachable state: Init establishes it and every
\* call keeps it.
THEOREM DeviceInvariant == Spec => []DeviceInv
<1>1. Init => DeviceInv
  <2> SUFFICES ASSUME Init PROVE DeviceInv
    OBVIOUS
  <2>1. NoJob \in Job_impl /\ WellFormed(NoJob) /\ NoJob.status = "FREE"
    BY EmptySeq DEF NoJob, NewJob, Job_impl, JobStatus, ProgramFormat, WellFormed
  <2>2. \A j \in Jobs : job[j] = NoJob
    BY DEF Init
  <2>3. TypeOK
    BY <2>1 DEF Init, TypeOK, DeviceStatus, NoSession, Session_impl, SessionStatus, ReturnCode
  <2>4. SubmitKnowsQubits /\ OfflineIsQuiet
    BY <2>1, <2>2 DEF Init, SubmitKnowsQubits, OfflineIsQuiet, LiveJob, NoSession
  <2> QED
    BY <2>1, <2>2, <2>3, <2>4 DEF DeviceInv
<1>2. DeviceInv /\ [Next]_vars => DeviceInv'
  <2> SUFFICES ASSUME DeviceInv, [Next]_vars PROVE DeviceInv'
    OBVIOUS
  <2>1. CASE UNCHANGED vars
    <3>1. Returns(ret) /\ ret \in ReturnCode
      BY <2>1 DEF vars, Returns, DeviceInv, TypeOK
    <3> QED
      BY <3>1, ReturnsKeepsInv
  <2>2. CASE InvalidArguments \/ device_session_retrieve_device_job_by_id
    BY <2>2, ReturnsKeepsInv
    DEF InvalidArguments, device_session_retrieve_device_job_by_id, ReturnCode
  <2> QED
    BY <2>1, <2>2, SessionCallsKeepInv, JobCallsKeepInv DEF Next
<1> QED
  BY <1>1, <1>2, PTL DEF Spec

\* Type correctness of the device.
THEOREM TypeCorrect == Spec => []TypeOK
BY DeviceInvariant, PTL DEF DeviceInv

\* Results always belong to the job's own programs, whatever callers do.
THEOREM ResultsCorrect == Spec => []ResultsMatchPrograms
<1>1. DeviceInv => ResultsMatchPrograms
  <2> SUFFICES ASSUME DeviceInv, NEW j \in Jobs
               PROVE  /\ job[j].results # <<>> =>
                           /\ job[j].results = Results(job[j])
                           /\ job[j].status \in {"RUNNING", "DONE", "CANCELED"}
                      /\ job[j].status = "RUNNING" => job[j].results # <<>>
    BY DEF ResultsMatchPrograms
  <2>1. job[j] \in Job_impl /\ WellFormed(job[j])
    BY DEF DeviceInv, TypeOK
  <2> QED
    BY <2>1, ResultsType DEF WellFormed
<1> QED
  BY <1>1, DeviceInvariant, PTL

\* The format is known exactly when programs are set.
THEOREM FormatCorrect == Spec => []FormatKnownWithPrograms
<1>1. DeviceInv => FormatKnownWithPrograms
  BY DEF DeviceInv, WellFormed, FormatKnownWithPrograms
<1> QED
  BY <1>1, DeviceInvariant, PTL

\* The session of a live job is initialized, so submit's query of the number of
\* qubits (line 560) succeeds.
THEOREM SessionsCorrect == Spec => []SubmitKnowsQubits
<1>1. DeviceInv => SubmitKnowsQubits
  BY DEF DeviceInv
<1> QED
  BY <1>1, DeviceInvariant, PTL

\* No session or job is left to bring a finalized device back (line 335).
THEOREM OfflineCorrect == Spec => []OfflineIsQuiet
<1>1. DeviceInv => OfflineIsQuiet
  BY DEF DeviceInv
<1> QED
  BY <1>1, DeviceInvariant, PTL

\* With callers that submit before they wait, DONE means results.
THEOREM DoneCorrect == ASSUME SubmitsBeforeWait PROVE Spec => []DoneHasResults
<1>1. DeviceInv => DoneHasResults
  BY DEF DeviceInv, WellFormed, DoneHasResults
<1> QED
  BY <1>1, DeviceInvariant, PTL

\* With such callers get_results never reads past the results (line 860).
THEOREM ReadsCorrect == ASSUME SubmitsBeforeWait PROVE Spec => []NoUndefinedRead
<1>1. Init => NoUndefinedRead
  BY DEF Init, NoUndefinedRead
<1>2. DeviceInv /\ NoUndefinedRead /\ [Next]_vars => NoUndefinedRead'
  <2> SUFFICES ASSUME DeviceInv, NoUndefinedRead, [Next]_vars PROVE ret' # "undefined"
    BY DEF NoUndefinedRead
  <2>1. ASSUME NEW j \in Jobs, NEW i \in 0..MaxPrograms, device_job_get_results(j, i)
        PROVE  ret' # "undefined"
    <3>1. job[j] \in Job_impl /\ WellFormed(job[j])
      BY DEF DeviceInv, TypeOK
    <3>2. job[j].status = "DONE" => Len(job[j].results) = Len(job[j].programs)
      BY <3>1, ResultsType DEF WellFormed
    <3> QED
      BY <2>1, <3>2, DeviceAssumption DEF device_job_get_results, Returns
  <2>2. ASSUME NEW s \in Sessions, SessionCall(s)
        PROVE  ret' # "undefined"
    BY <2>2 DEF SessionCall, device_session_set_parameter, device_session_init,
       device_session_free, device_session_create_device_job,
       device_session_query_device_property, Returns
  <2>3. ASSUME NEW j \in Jobs, JobCall(j),
               \A i \in 0..MaxPrograms : ~device_job_get_results(j, i)
        PROVE  ret' # "undefined"
    BY <2>3 DEF JobCall, device_job_free, device_job_set_parameter, device_job_set_programs,
       device_job_submit, device_job_cancel, device_job_check, check_completes,
       device_job_wait, Finish, device_job_get_program, device_job_get_program_status,
       device_job_query_property, Returns
  <2> QED
    BY <2>1, <2>2, <2>3 DEF Next, NoUndefinedRead, vars, device_initialize, device_finalize,
       InvalidArguments, device_session_alloc, device_session_retrieve_device_job_by_id,
       Returns
<1> QED
  BY <1>1, <1>2, DeviceInvariant, PTL DEF Spec

-----------------------------------------------------------------------------
\* A call that does not return SUCCESS changes nothing.
THEOREM FailedCallsHarmless == Spec => FailedCallChangesNothing
<1>1. [Next]_vars => [ret' # "SUCCESS" => UNCHANGED <<deviceStatus, session, job>>]_vars
  <2>1. ASSUME NEW s \in Sessions, SessionCall(s), ret' # "SUCCESS"
        PROVE  UNCHANGED <<deviceStatus, session, job>>
    BY <2>1 DEF SessionCall, device_session_set_parameter, device_session_init,
       device_session_free, device_session_create_device_job,
       device_session_query_device_property, Returns
  <2>2. ASSUME NEW j \in Jobs, JobCall(j), ret' # "SUCCESS"
        PROVE  UNCHANGED <<deviceStatus, session, job>>
    BY <2>2 DEF JobCall, device_job_free, device_job_set_parameter, device_job_set_programs,
       device_job_submit, device_job_cancel, device_job_check, check_completes,
       device_job_wait, Finish, device_job_get_program, device_job_get_program_status,
       device_job_get_results, device_job_query_property, Returns
  <2> QED
    BY <2>1, <2>2 DEF Next, device_initialize, device_finalize, InvalidArguments,
       device_session_alloc, device_session_retrieve_device_job_by_id, Returns
<1> QED
  BY <1>1, PTL DEF Spec, FailedCallChangesNothing

\* What one step does to one job: nothing, or it frees or creates it,
\* configures it while CREATED, starts it, finishes it or cancels it.
JobStep(b, c) ==
  \/ c = b
  \/ b.status # "FREE" /\ c = NoJob
  \/ b.status = "FREE" /\ \E s \in Sessions : c = NewJob(s, "CREATED")
  \/ b.status = "CREATED" /\ \E n \in 0..MaxShots : c = [b EXCEPT !.num_shots = n]
  \/ b.status = "CREATED" /\ \E format \in SUPPORTED_PROGRAM_FORMATS, ps \in ProgramLists :
                               c = [b EXCEPT !.format = format, !.programs = ps]
  \/ b.status = "CREATED" /\ b.programs # <<>>
     /\ c = [b EXCEPT !.results = Results(b), !.status = "RUNNING"]
  \/ /\ b.status = "RUNNING" \/ (~SubmitsBeforeWait /\ b.status = "CREATED")
     /\ c = [b EXCEPT !.status = "DONE"]
  \/ b.status \in {"CREATED", "RUNNING"} /\ c = [b EXCEPT !.status = "CANCELED"]

\* Every step changes at most one job, by a JobStep.
LEMMA StepsAreJobSteps ==
  ASSUME DeviceInv, [Next]_vars
  PROVE  \/ UNCHANGED job
         \/ \E j \in Jobs : \E c : JobStep(job[j], c) /\ job' = [job EXCEPT ![j] = c]
<1> DEFINE Goal == \/ UNCHANGED job
                   \/ \E j \in Jobs : \E c : JobStep(job[j], c) /\ job' = [job EXCEPT ![j] = c]
<1>0. \A j \in Jobs : job[j].status \in {"FREE", "CREATED", "RUNNING", "DONE", "CANCELED"}
  BY DEF DeviceInv, WellFormed
<1>R. ASSUME NEW code, Returns(code) PROVE Goal
  BY <1>R DEF Returns
<1>1. ASSUME NEW s \in Sessions, SessionCall(s) PROVE Goal
  <2>1. CASE device_session_create_device_job(s)
    <3>1. ASSUME NEW j \in Jobs, ~LiveJob(j),
                 job' = [job EXCEPT ![j] = NewJob(s, "CREATED")]
          PROVE  Goal
      <4>1. JobStep(job[j], NewJob(s, "CREATED"))
        BY <3>1 DEF JobStep, LiveJob
      <4> QED
        BY <3>1, <4>1
    <3> QED
      BY <2>1, <3>1, <1>R DEF device_session_create_device_job
  <2>2. CASE ~device_session_create_device_job(s)
    BY <1>1, <2>2 DEF SessionCall, device_session_set_parameter, device_session_init,
       device_session_free, device_session_query_device_property, Returns
  <2> QED
    BY <2>1, <2>2
<1>2. ASSUME NEW j \in Jobs, JobCall(j) PROVE Goal
  <2>F. ASSUME Finish(j), \/ job[j].status = "RUNNING"
                          \/ ~SubmitsBeforeWait /\ job[j].status = "CREATED"
        PROVE  Goal
    <3>1. JobStep(job[j], [job[j] EXCEPT !.status = "DONE"])
      BY <2>F DEF JobStep
    <3>2. job' = [job EXCEPT ![j] = [job[j] EXCEPT !.status = "DONE"]]
      BY <2>F DEF Finish
    <3> QED
      BY <3>1, <3>2
  <2>1. CASE device_job_free(j)
    <3>1. JobStep(job[j], NoJob)
      BY <2>1 DEF device_job_free, LiveJob, JobStep
    <3> QED
      BY <2>1, <3>1 DEF device_job_free
  <2>2. ASSUME NEW n \in 0..MaxShots, device_job_set_parameter(j, n) PROVE Goal
    <3>1. CASE job[j].status = "CREATED" /\ job' = [job EXCEPT ![j].num_shots = n]
      <4>1. JobStep(job[j], [job[j] EXCEPT !.num_shots = n])
        BY <3>1 DEF JobStep
      <4>2. job' = [job EXCEPT ![j] = [job[j] EXCEPT !.num_shots = n]]
        BY <3>1
      <4> QED
        BY <4>1, <4>2
    <3> QED
      BY <2>2, <3>1, <1>R DEF device_job_set_parameter
  <2>3. ASSUME NEW format \in Formats, NEW ps \in ProgramLists,
               device_job_set_programs(j, format, ps)
        PROVE  Goal
    <3>1. CASE /\ job[j].status = "CREATED"
               /\ Supported_format(format)
               /\ job' = [job EXCEPT ![j].format = format, ![j].programs = ps]
      <4>1. JobStep(job[j], [job[j] EXCEPT !.format = format, !.programs = ps])
        BY <3>1 DEF JobStep, Supported_format
      <4>2. job' = [job EXCEPT ![j] = [job[j] EXCEPT !.format = format, !.programs = ps]]
        BY <3>1
      <4> QED
        BY <4>1, <4>2
    <3> QED
      BY <2>3, <3>1, <1>R DEF device_job_set_programs
  <2>4. CASE device_job_submit(j)
    <3>1. CASE /\ job[j].status = "CREATED"
               /\ job[j].programs # <<>>
               /\ job' = [job EXCEPT ![j].results = Results(job[j]), ![j].status = "RUNNING"]
      <4>1. JobStep(job[j], [job[j] EXCEPT !.results = Results(job[j]), !.status = "RUNNING"])
        BY <3>1 DEF JobStep
      <4>2. job' = [job EXCEPT ![j] = [job[j] EXCEPT !.results = Results(job[j]),
                                                     !.status = "RUNNING"]]
        BY <3>1
      <4> QED
        BY <4>1, <4>2
    <3> QED
      BY <2>4, <3>1, <1>R DEF device_job_submit
  <2>5. CASE device_job_cancel(j)
    <3>1. CASE /\ job[j].status \in {"CREATED", "RUNNING", "CANCELED"}
               /\ job' = [job EXCEPT ![j].status = "CANCELED"]
      <4>1. job' = [job EXCEPT ![j] = [job[j] EXCEPT !.status = "CANCELED"]]
        BY <3>1
      <4>2. CASE job[j].status = "CANCELED"
        <5>1. job[j] \in Job_impl /\ job \in [Jobs -> Job_impl]
          BY DEF DeviceInv, TypeOK
        <5>2. [job[j] EXCEPT !.status = "CANCELED"] = job[j]
          BY <4>2, <5>1 DEF Job_impl
        <5> QED
          BY <4>1, <5>1, <5>2
      <4>3. CASE job[j].status \in {"CREATED", "RUNNING"}
        <5>1. JobStep(job[j], [job[j] EXCEPT !.status = "CANCELED"])
          BY <4>3 DEF JobStep
        <5> QED
          BY <4>1, <5>1
      <4> QED
        BY <3>1, <4>2, <4>3
    <3> QED
      BY <1>0, <2>5, <3>1, <1>R DEF device_job_cancel, LiveJob
  <2>6. CASE device_job_check(j)
    BY <2>6, <2>F, <1>R DEF device_job_check, check_completes
  <2>7. CASE device_job_wait(j)
    BY <1>0, <2>7, <2>F, <1>R, DeviceAssumption DEF device_job_wait, LiveJob
  <2>8. ASSUME NEW i, \/ device_job_get_program(j, i)
                      \/ device_job_get_program_status(j, i)
                      \/ device_job_get_results(j, i)
                      \/ device_job_query_property(j, i)
        PROVE  Goal
    BY <2>8 DEF device_job_get_program, device_job_get_program_status,
       device_job_get_results, device_job_query_property, Returns
  <2> QED
    BY <1>2, <2>1, <2>2, <2>3, <2>4, <2>5, <2>6, <2>7, <2>8 DEF JobCall
<1> QED
  BY <1>1, <1>2 DEF Next, vars, device_initialize, device_finalize, InvalidArguments,
     device_session_alloc, device_session_retrieve_device_job_by_id, Returns

\* Submitted jobs are frozen and terminal ones stay terminal.
THEOREM SubmittedJobsFrozen == Spec => SubmittedJobFrozen
<1> DEFINE Frozen(j) ==
      /\ job[j].status \notin {"FREE", "CREATED"}
      /\ job'[j].status # "FREE"
      => /\ job'[j].programs = job[j].programs
         /\ job'[j].format = job[j].format
         /\ job'[j].num_shots = job[j].num_shots
         /\ job'[j].results = job[j].results
         /\ job[j].status \in {"DONE", "CANCELED"} => job'[j].status = job[j].status
<1>1. DeviceInv /\ [Next]_vars => [\A j \in Jobs : Frozen(j)]_vars
  <2> SUFFICES ASSUME DeviceInv, [Next]_vars, NEW j \in Jobs PROVE Frozen(j)
    OBVIOUS
  <2>1. CASE job'[j] = job[j]
    BY <2>1
  <2>2. ASSUME NEW c, JobStep(job[j], c), job'[j] = c
        PROVE  Frozen(j)
    <3> DEFINE b == job[j]
    <3>1. b \in Job_impl
      BY DEF DeviceInv, TypeOK
    <3>2. SUFFICES ASSUME b.status \notin {"FREE", "CREATED"}, c.status # "FREE"
                   PROVE  /\ c.programs = b.programs /\ c.format = b.format
                          /\ c.num_shots = b.num_shots /\ c.results = b.results
                          /\ b.status \in {"DONE", "CANCELED"} => c.status = b.status
      BY <2>2
    <3>3. NoJob.status = "FREE"
      BY DEF NoJob, NewJob
    <3>4. \/ c = b
          \/ b.status = "RUNNING" /\ c = [b EXCEPT !.status = "DONE"]
          \/ b.status = "RUNNING" /\ c = [b EXCEPT !.status = "CANCELED"]
      BY <2>2, <3>2, <3>3 DEF JobStep
    <3> HIDE DEF b
    <3> QED
      BY <3>1, <3>4 DEF Job_impl
  <2>3. job \in [Jobs -> Job_impl]
    BY DEF DeviceInv, TypeOK
  <2> QED
    BY <2>1, <2>2, <2>3, StepsAreJobSteps
<1> QED
  BY <1>1, DeviceInvariant, PTL DEF Spec, SubmittedJobFrozen

-----------------------------------------------------------------------------
\* What a job can be configured with: nothing before it is created, and then
\* only what callers pass.
LegalInput(b) ==
  /\ b.programs \in ProgramLists \cup {<<>>}
  /\ b.num_shots \in 0..MaxShots
  /\ b.status = "FREE" => b.programs = <<>> /\ b.num_shots = 0

\* The two objects hold the same configuration.
SameInput(b, c) == c.format = b.format /\ c.programs = b.programs /\ c.num_shots = b.num_shots

\* JobStep, field by field.
JobMove(b, c) ==
  \/ c = b
  \/ b.status # "FREE" /\ c = NoJob
  \/ b.status = "FREE" /\ \E s \in Sessions : c = NewJob(s, "CREATED")
  \/ /\ b.status = "CREATED" /\ c.status = "CREATED" /\ c.results = b.results
     /\ c.format = b.format /\ c.programs = b.programs /\ c.num_shots \in 0..MaxShots
  \/ /\ b.status = "CREATED" /\ c.status = "CREATED" /\ c.results = b.results
     /\ c.format \in SUPPORTED_PROGRAM_FORMATS /\ c.programs \in ProgramLists
     /\ c.num_shots = b.num_shots
  \/ /\ b.status = "CREATED" /\ c.status = "RUNNING" /\ SameInput(b, c)
     /\ b.programs # <<>> /\ c.results = Results(b)
  \/ /\ b.status = "RUNNING" \/ (~SubmitsBeforeWait /\ b.status = "CREATED")
     /\ c.status = "DONE" /\ c.results = b.results /\ SameInput(b, c)
  \/ /\ b.status \in {"CREATED", "RUNNING"}
     /\ c.status = "CANCELED" /\ c.results = b.results /\ SameInput(b, c)

\* Every JobStep of a job object is a JobMove.
LEMMA JobStepMoves ==
  ASSUME NEW b \in Job_impl, NEW c, JobStep(b, c)
  PROVE  JobMove(b, c)
<1>1. ASSUME NEW n \in 0..MaxShots, b.status = "CREATED", c = [b EXCEPT !.num_shots = n]
      PROVE  JobMove(b, c)
  BY <1>1 DEF Job_impl, JobMove
<1>2. ASSUME b.status = "CREATED",
             NEW format \in SUPPORTED_PROGRAM_FORMATS, NEW ps \in ProgramLists,
             c = [b EXCEPT !.format = format, !.programs = ps]
      PROVE  JobMove(b, c)
  BY <1>2 DEF Job_impl, JobMove
<1>3. ASSUME b.status = "CREATED", b.programs # <<>>,
             c = [b EXCEPT !.results = Results(b), !.status = "RUNNING"]
      PROVE  JobMove(b, c)
  BY <1>3 DEF Job_impl, JobMove, SameInput
<1>4. ASSUME b.status = "RUNNING" \/ (~SubmitsBeforeWait /\ b.status = "CREATED"),
             c = [b EXCEPT !.status = "DONE"]
      PROVE  JobMove(b, c)
  BY <1>4 DEF Job_impl, JobMove, SameInput
<1>5. ASSUME b.status \in {"CREATED", "RUNNING"}, c = [b EXCEPT !.status = "CANCELED"]
      PROVE  JobMove(b, c)
  BY <1>5 DEF Job_impl, JobMove, SameInput
<1>6. ASSUME \/ c = b
             \/ b.status # "FREE" /\ c = NoJob
             \/ b.status = "FREE" /\ \E s \in Sessions : c = NewJob(s, "CREATED")
      PROVE  JobMove(b, c)
  BY <1>6 DEF JobMove
<1> QED
  BY <1>1, <1>2, <1>3, <1>4, <1>5, <1>6, Zenon DEF JobStep

\* Every job's configuration is legal.
LEMMA InputsLegal == Spec => [](\A j \in Jobs : LegalInput(job[j]))
<1> DEFINE Legal == \A j \in Jobs : LegalInput(job[j])
<1>0. NoJob.programs = <<>> /\ NoJob.num_shots = 0
  BY DEF NoJob, NewJob
<1>1. Init => Legal
  BY <1>0, DeviceAssumption DEF Init, LegalInput
<1>2. DeviceInv /\ Legal /\ [Next]_vars => Legal'
  <2> SUFFICES ASSUME DeviceInv, Legal, [Next]_vars, NEW j \in Jobs
               PROVE  LegalInput(job'[j])
    BY DEF LegalInput
  <2>1. CASE job'[j] = job[j]
    BY <2>1
  <2>2. ASSUME NEW c, JobStep(job[j], c), job'[j] = c
        PROVE  LegalInput(job'[j])
    <3>1. job[j] \in Job_impl /\ LegalInput(job[j])
      BY DEF DeviceInv, TypeOK
    <3>2. \A s \in Sessions : LET d == NewJob(s, "CREATED")
                              IN  d.programs = <<>> /\ d.num_shots = 0
      BY DEF NewJob
    <3>3. JobMove(job[j], c)
      BY <2>2, <3>1, JobStepMoves
    <3> QED
      BY <1>0, <2>2, <3>1, <3>2, <3>3, DeviceAssumption DEF LegalInput, JobMove, SameInput
  <2>3. job \in [Jobs -> Job_impl]
    BY DEF DeviceInv, TypeOK
  <2> QED
    BY <2>1, <2>2, <2>3, StepsAreJobSteps
<1> QED
  BY <1>1, <1>2, DeviceInvariant, PTL DEF Spec

\* The refinement mapping changes at the job that changes, and only there.
LEMMA FieldUpdates ==
  ASSUME job \in [Jobs -> Job_impl], NEW j \in Jobs, NEW c, job' = [job EXCEPT ![j] = c]
  PROVE  /\ [k \in Jobs |-> PhaseOf(job[k].status)]'
              = [[k \in Jobs |-> PhaseOf(job[k].status)] EXCEPT ![j] = PhaseOf(c.status)]
         /\ [k \in Jobs |-> InputOf(job[k])]'
              = [[k \in Jobs |-> InputOf(job[k])] EXCEPT ![j] = InputOf(c)]
         /\ [k \in Jobs |-> job[k].results]'
              = [[k \in Jobs |-> job[k].results] EXCEPT ![j] = c.results]
<1>1. \A k \in Jobs : job'[k] = IF k = j THEN c ELSE job[k]
  OBVIOUS
<1>O. [k \in Jobs |-> job[k].results]'
              = [[k \in Jobs |-> job[k].results] EXCEPT ![j] = c.results]
  BY <1>1
<1>I. [k \in Jobs |-> InputOf(job[k])]'
              = [[k \in Jobs |-> InputOf(job[k])] EXCEPT ![j] = InputOf(c)]
  BY <1>1 DEF InputOf
<1>P. [k \in Jobs |-> PhaseOf(job[k].status)]'
              = [[k \in Jobs |-> PhaseOf(job[k].status)] EXCEPT ![j] = PhaseOf(c.status)]
  BY <1>1 DEF PhaseOf
<1> QED
  BY <1>O, <1>I, <1>P

\* A move of one job is a step of the life cycle, or none.
LEMMA JobMoveIsLifecycleStep ==
  ASSUME SubmitsBeforeWait, DeviceInv, \A k \in Jobs : LegalInput(job[k]),
         NEW j \in Jobs, NEW c, JobMove(job[j], c), job' = [job EXCEPT ![j] = c]
  PROVE  [Lifecycle!Next]_(Lifecycle!lifecycleVars)
<1> DEFINE b == job[j]
           phase == [k \in Jobs |-> PhaseOf(job[k].status)]
           input == [k \in Jobs |-> InputOf(job[k])]
           output == [k \in Jobs |-> job[k].results]
           Inputs == [format: ProgramFormat, programs: ProgramLists \cup {<<>>},
                      num_shots: 0..MaxShots]
<1>0. b \in Job_impl /\ WellFormed(b) /\ LegalInput(b) /\ job \in [Jobs -> Job_impl]
  BY DEF DeviceInv, TypeOK
<1>1. /\ phase' = [phase EXCEPT ![j] = PhaseOf(c.status)]
      /\ input' = [input EXCEPT ![j] = InputOf(c)]
      /\ output' = [output EXCEPT ![j] = c.results]
  BY <1>0, FieldUpdates
<1>2. phase[j] = PhaseOf(b.status) /\ input[j] = InputOf(b) /\ output[j] = b.results
  OBVIOUS
<1>3. /\ PhaseOf("FREE") = "absent" /\ PhaseOf("CREATED") = "configuring"
      /\ PhaseOf("RUNNING") = "running" /\ PhaseOf("DONE") = "done"
      /\ PhaseOf("CANCELED") = "canceled"
  BY DEF PhaseOf
<1>C. ASSUME phase[j] = "absent", phase' = [phase EXCEPT ![j] = "configuring"],
             UNCHANGED <<input, output>>
      PROVE  Lifecycle!Next
  <2>1. Lifecycle!Create(j)
    BY <1>C DEF Lifecycle!Create, Lifecycle!Move
  <2> QED
    BY <2>1 DEF Lifecycle!Next
<1>G. ASSUME phase[j] = "configuring", phase' = [phase EXCEPT ![j] = "configuring"],
             NEW i \in Inputs, input' = [input EXCEPT ![j] = i], UNCHANGED output
      PROVE  Lifecycle!Next
  <2>1. Lifecycle!Configure(j)
    BY <1>G DEF Lifecycle!Configure, Lifecycle!Move
  <2> QED
    BY <2>1 DEF Lifecycle!Next
<1>S. ASSUME phase[j] = "configuring", phase' = [phase EXCEPT ![j] = "running"],
             input[j].programs # <<>>, UNCHANGED input,
             output' = [output EXCEPT ![j] = Results(input[j])]
      PROVE  Lifecycle!Next
  <2>1. Lifecycle!Start(j)
    BY <1>S DEF Lifecycle!Start, Lifecycle!Move
  <2> QED
    BY <2>1 DEF Lifecycle!Next
<1>F. ASSUME phase[j] = "running", phase' = [phase EXCEPT ![j] = "done"],
             UNCHANGED <<input, output>>
      PROVE  Lifecycle!Next
  <2>1. Lifecycle!Finish(j)
    BY <1>F DEF Lifecycle!Finish, Lifecycle!Move
  <2> QED
    BY <2>1 DEF Lifecycle!Next
<1>X. ASSUME phase[j] \in {"configuring", "running"},
             phase' = [phase EXCEPT ![j] = "canceled"], UNCHANGED <<input, output>>
      PROVE  Lifecycle!Next
  <2>1. Lifecycle!Cancel(j)
    BY <1>X DEF Lifecycle!Cancel, Lifecycle!Move
  <2> QED
    BY <2>1 DEF Lifecycle!Next
<1>R. ASSUME phase[j] \in {"configuring", "running", "done", "canceled"},
             phase' = [phase EXCEPT ![j] = "absent"],
             input' = [input EXCEPT ![j] = InputOf(NoJob)],
             output' = [output EXCEPT ![j] = <<>>]
      PROVE  Lifecycle!Next
  <2>1. Lifecycle!Release(j)
    BY <1>R DEF Lifecycle!Release, Lifecycle!Move, Lifecycle!Phase
  <2> QED
    BY <2>1 DEF Lifecycle!Next
<1>U. ASSUME UNCHANGED <<phase, input, output>>
      PROVE  UNCHANGED Lifecycle!lifecycleVars
  BY <1>U DEF Lifecycle!lifecycleVars
<1>4. /\ InputOf(c) = InputOf(b) => UNCHANGED input
      /\ c.results = b.results => UNCHANGED output
      /\ PhaseOf(c.status) = PhaseOf(b.status) => UNCHANGED phase
  <2>1. /\ [input EXCEPT ![j] = InputOf(b)] = input
        /\ [output EXCEPT ![j] = b.results] = output
        /\ [phase EXCEPT ![j] = PhaseOf(b.status)] = phase
    OBVIOUS
  <2> HIDE DEF phase, input, output
  <2> QED
    BY <1>1, <2>1
<1>5. SameInput(b, c) => InputOf(c) = InputOf(b)
  BY DEF SameInput, InputOf
<1> HIDE DEF phase, input, output
<1> DEFINE Goal == [Lifecycle!Next]_(Lifecycle!lifecycleVars)
<1>6. CASE c = b
  BY <1>4, <1>6, <1>U
<1>7. CASE b.status # "FREE" /\ c = NoJob
  <2>1. NoJob.status = "FREE" /\ NoJob.results = <<>>
    BY DEF NoJob, NewJob
  <2> QED
    BY <1>0, <1>1, <1>2, <1>3, <1>7, <1>R, <2>1 DEF WellFormed
<1>8. ASSUME b.status = "FREE", NEW s \in Sessions, c = NewJob(s, "CREATED")
      PROVE  Goal
  <2>1. c.status = "CREATED" /\ c.results = <<>>
    BY <1>8 DEF NewJob
  <2>2. b.format = "MAX" /\ b.programs = <<>> /\ b.num_shots = 0 /\ b.results = <<>>
    BY <1>0, <1>8 DEF LegalInput, WellFormed
  <2>3. SameInput(b, c)
    BY <1>8, <2>2 DEF SameInput, NewJob
  <2> QED
    BY <1>1, <1>2, <1>3, <1>4, <1>5, <1>8, <1>C, <2>1, <2>2, <2>3
<1>9. CASE /\ b.status = "CREATED" /\ c.status = "CREATED" /\ c.results = b.results
           /\ InputOf(c) \in Inputs
  BY <1>1, <1>2, <1>3, <1>4, <1>9, <1>G
<1>10. CASE /\ b.status = "CREATED" /\ c.status = "RUNNING" /\ SameInput(b, c)
            /\ b.programs # <<>> /\ c.results = Results(b)
  <2>1. input[j].programs # <<>> /\ Results(input[j]) = Results(b)
    BY <1>2, <1>10, SameInputSameResults DEF InputOf
  <2> QED
    BY <1>1, <1>2, <1>3, <1>4, <1>5, <1>10, <1>S, <2>1
<1>11. CASE /\ b.status = "RUNNING" /\ c.status = "DONE"
            /\ c.results = b.results /\ SameInput(b, c)
  BY <1>1, <1>2, <1>3, <1>4, <1>5, <1>11, <1>F
<1>12. CASE /\ b.status \in {"CREATED", "RUNNING"} /\ c.status = "CANCELED"
            /\ c.results = b.results /\ SameInput(b, c)
  BY <1>1, <1>2, <1>3, <1>4, <1>5, <1>12, <1>X
<1>13. ASSUME c.format \in ProgramFormat, c.programs \in ProgramLists \cup {<<>>},
              c.num_shots \in 0..MaxShots
       PROVE  InputOf(c) \in Inputs
  BY <1>13 DEF InputOf
<1>14. CASE /\ b.status = "CREATED" /\ c.status = "CREATED" /\ c.results = b.results
            /\ c.format = b.format /\ c.programs = b.programs /\ c.num_shots \in 0..MaxShots
  <2>1. c.format \in ProgramFormat /\ c.programs \in ProgramLists \cup {<<>>}
    BY <1>0, <1>14 DEF LegalInput, Job_impl
  <2> QED
    BY <1>9, <1>13, <1>14, <2>1
<1>15. CASE /\ b.status = "CREATED" /\ c.status = "CREATED" /\ c.results = b.results
            /\ c.format \in SUPPORTED_PROGRAM_FORMATS /\ c.programs \in ProgramLists
            /\ c.num_shots = b.num_shots
  <2>1. c.format \in ProgramFormat /\ c.num_shots \in 0..MaxShots
    BY <1>0, <1>15 DEF LegalInput, ProgramFormat
  <2> QED
    BY <1>9, <1>13, <1>15, <2>1
<1> QED
  BY <1>6, <1>7, <1>8, <1>10, <1>11, <1>12, <1>14, <1>15 DEF JobMove

\* The device implements the job life cycle, for callers that wait only on jobs
\* they have submitted (a CREATED job that is waited for is DONE unstarted).
THEOREM DeviceImplementsLifecycle ==
  ASSUME SubmitsBeforeWait PROVE Spec => ImplementsLifecycle
<1> DEFINE Legal == \A j \in Jobs : LegalInput(job[j])
<1>1. Init => Lifecycle!Init
  <2>1. PhaseOf(NoJob.status) = "absent" /\ NoJob.results = <<>>
    BY DEF NoJob, NewJob, PhaseOf
  <2> SUFFICES ASSUME Init PROVE Lifecycle!Init
    OBVIOUS
  <2>2. \A j \in Jobs : job[j] = NoJob
    BY DEF Init
  <2> QED
    BY <2>1, <2>2 DEF Lifecycle!Init
<1>2. DeviceInv /\ Legal /\ [Next]_vars => [Lifecycle!Next]_(Lifecycle!lifecycleVars)
  <2> SUFFICES ASSUME DeviceInv, Legal, [Next]_vars
               PROVE  [Lifecycle!Next]_(Lifecycle!lifecycleVars)
    OBVIOUS
  <2>1. CASE UNCHANGED job
    BY <2>1 DEF Lifecycle!lifecycleVars, PhaseOf, InputOf
  <2>2. ASSUME NEW j \in Jobs, NEW c, JobStep(job[j], c), job' = [job EXCEPT ![j] = c]
        PROVE  [Lifecycle!Next]_(Lifecycle!lifecycleVars)
    <3>1. job[j] \in Job_impl
      BY DEF DeviceInv, TypeOK
    <3> QED
      BY <2>2, <3>1, JobStepMoves, JobMoveIsLifecycleStep
  <2> QED
    BY <2>1, <2>2, StepsAreJobSteps
<1> QED
  BY <1>1, <1>2, DeviceInvariant, InputsLegal, PTL
  DEF Spec, ImplementsLifecycle, Lifecycle!Spec
=============================================================================
