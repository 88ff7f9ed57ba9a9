------------------------------ MODULE QDMIDevice ------------------------------
(***************************************************************************)
(* The C++ example device, examples/device/src/cxx_device.cpp: one loaded  *)
(* device library.  Every device function is one action, taken atomically: *)
(* the interface promises no thread safety, so what interleaves is whole   *)
(* calls on several sessions and jobs.                                     *)
(*                                                                         *)
(* A handle is live while its object exists.  Calls are made on live       *)
(* handles only (using a freed handle is undefined, device.h:215 and 876)  *)
(* and a session outlives its jobs (client.h:412).  Nothing else is asked  *)
(* of the caller except where a constant or a comment says so.             *)
(***************************************************************************)
EXTENDS Naturals, Sequences

CONSTANTS
  Sessions,      \* handles device_session_alloc may return
  Jobs,          \* handles device_session_create_device_job may return
  NULL,          \* the null pointer
  Payloads,      \* the programs a caller may pass
  Formats,       \* the program formats a caller may pass
  MaxPrograms,   \* bound on the length of a program list
  MaxShots,      \* bound on the shot counts a caller may ask for
  MaxVector,     \* std::vector::max_size, above which assign throws
  SubmitsBeforeWait \* TRUE: callers wait only on jobs they have submitted

(***************************************************************************)
(* What the device can tell about a program: whether its pointer is null   *)
(* or its size zero, whether its only NUL byte is its last byte, and the   *)
(* residue modulo 4 of the byte before that NUL (0 when the NUL stands     *)
(* alone), or of its last byte when it is not so terminated.               *)
(***************************************************************************)
Program == [empty: BOOLEAN, terminated: BOOLEAN, byte: 0..3]

ASSUME DeviceAssumption ==
  /\ NULL \notin Sessions
  /\ Payloads \subseteq Program
  /\ MaxPrograms \in Nat
  /\ MaxShots \in Nat
  /\ MaxVector \in Nat
  /\ SubmitsBeforeWait \in BOOLEAN

VARIABLES
  deviceStatus,  \* CXX_QDMI_Device_State::status
  session,       \* the session objects, by handle
  job,           \* the job objects, by handle
  ret            \* what the last call returned

vars == <<deviceStatus, session, job, ret>>

-----------------------------------------------------------------------------
(* Types *)

DeviceStatus == {"OFFLINE", "IDLE", "BUSY", "ERROR", "MAINTENANCE", "CALIBRATION"}
SessionStatus == {"FREE", "ALLOCATED", "INITIALIZED"}
JobStatus == {"FREE", "CREATED", "SUBMITTED", "QUEUED", "RUNNING", "DONE", "CANCELED", "FAILED"}
ReturnCode == {"SUCCESS", "INVALIDARGUMENT", "BADSTATE", "NOTSUPPORTED", "OUTOFRANGE",
               "OUTOFMEM", "FATAL", "PERMISSIONDENIED",
               "bad_alloc",   \* not a code: the call left by an exception
               "undefined"}   \* not a code: the call read past a vector

\* The format of a job whose programs were never set is QDMI_PROGRAM_FORMAT_MAX.
SUPPORTED_PROGRAM_FORMATS == {"QASM2", "QIRBASESTRING", "QIRBASEMODULE"}
TextFormats == {"QASM2", "QIRBASESTRING"}
ProgramFormat == SUPPORTED_PROGRAM_FORMATS \cup {"MAX"}

\* One program's result: which of the four outputs every shot shows, and how
\* often.  The state vector is random and has no further structure.
Result_data == [shot: 0..3, shots: Nat]

Session_impl == [status: SessionStatus, token: BOOLEAN]
Job_impl == [status: JobStatus, session: Sessions \cup {NULL}, format: ProgramFormat,
             programs: Seq(Program), num_shots: Nat, results: Seq(Result_data)]

NoSession == [status |-> "FREE", token |-> FALSE]

\* A job object as its constructor leaves it, but for status and session.
NewJob(s, status) == [status |-> status, session |-> s, format |-> "MAX",
                      programs |-> <<>>, num_shots |-> 0, results |-> <<>>]
NoJob == NewJob(NULL, "FREE")

\* The type invariant: the fields hold values of their C++ types.
TypeOK ==
  /\ deviceStatus \in DeviceStatus
  /\ session \in [Sessions -> Session_impl]
  /\ job \in [Jobs -> Job_impl]
  /\ ret \in ReturnCode

Init ==
  /\ deviceStatus = "OFFLINE"
  /\ session = [s \in Sessions |-> NoSession]
  /\ job = [j \in Jobs |-> NoJob]
  /\ ret = "SUCCESS"

LiveSession(s) == session[s].status # "FREE"
LiveJob(j) == job[j].status # "FREE"

\* The call returns (or throws) code and leaves every object as it was.
Returns(code) ==
  /\ ret' = code
  /\ UNCHANGED <<deviceStatus, session, job>>

-----------------------------------------------------------------------------
(* The device *)

\* Called exactly once before the device is used (device.h:63).
device_initialize ==
  /\ deviceStatus = "OFFLINE"
  /\ deviceStatus' = "IDLE"
  /\ ret' = "SUCCESS"
  /\ UNCHANGED <<session, job>>

\* Called at the end of using the device (device.h:73): no session is left.
device_finalize ==
  /\ deviceStatus # "OFFLINE"
  /\ \A s \in Sessions : ~LiveSession(s)
  /\ deviceStatus' = "OFFLINE"
  /\ ret' = "SUCCESS"
  /\ UNCHANGED <<session, job>>

\* The first check of every function: a null handle or output pointer, a
\* value of size zero or an enum value out of range.
InvalidArguments == Returns("INVALIDARGUMENT")

-----------------------------------------------------------------------------
(* Sessions *)

device_session_alloc ==
  \/ \E s \in Sessions :
       /\ ~LiveSession(s)
       /\ session' = [session EXCEPT ![s] = [status |-> "ALLOCATED", token |-> FALSE]]
       /\ ret' = "SUCCESS"
       /\ UNCHANGED <<deviceStatus, job>>
  \/ Returns("bad_alloc")

\* token is TRUE when the stored string is not empty.
device_session_set_parameter(s) ==
  /\ LiveSession(s)
  /\ \/ /\ session[s].status # "ALLOCATED"
        /\ Returns("BADSTATE")
     \/ /\ session[s].status = "ALLOCATED"
        /\ \/ Returns("NOTSUPPORTED")       \* any parameter but TOKEN
           \/ Returns("SUCCESS")            \* TOKEN with a null value
           \/ Returns("bad_alloc")
           \/ /\ session' = [session EXCEPT ![s].token = TRUE]
              /\ ret' = "SUCCESS"
              /\ UNCHANGED <<deviceStatus, job>>

\* Mutant: the switch on the device status is missing.
session_init_any_status(s) ==
  /\ LiveSession(s)
  /\ \/ ~session[s].token /\ Returns("PERMISSIONDENIED")
     \/ /\ session[s].token
        /\ session' = [session EXCEPT ![s].status = "INITIALIZED"]
        /\ ret' = "SUCCESS"
        /\ UNCHANGED <<deviceStatus, job>>

device_session_init(s) ==
  /\ LiveSession(s)
  /\ \/ /\ deviceStatus \in {"ERROR", "OFFLINE", "MAINTENANCE"}
        /\ Returns("FATAL")
     \/ /\ deviceStatus \notin {"ERROR", "OFFLINE", "MAINTENANCE"}
        /\ ~session[s].token
        /\ Returns("PERMISSIONDENIED")
     \/ /\ deviceStatus \notin {"ERROR", "OFFLINE", "MAINTENANCE"}
        /\ session[s].token
        /\ session' = [session EXCEPT ![s].status = "INITIALIZED"]
        /\ ret' = "SUCCESS"
        /\ UNCHANGED <<deviceStatus, job>>

\* The caller frees a session after its jobs (client.h:412).
device_session_free(s) ==
  /\ LiveSession(s)
  /\ \A j \in Jobs : job[j].session # s
  /\ session' = [session EXCEPT ![s] = NoSession]
  /\ ret' = "SUCCESS"
  /\ UNCHANGED <<deviceStatus, job>>

-----------------------------------------------------------------------------
(* Configuring a job *)

\* Mutant: the check for an initialized session is missing.
create_job_any_session(s) ==
  /\ LiveSession(s)
  /\ \E j \in Jobs :
       /\ ~LiveJob(j)
       /\ job' = [job EXCEPT ![j] = NewJob(s, "CREATED")]
       /\ ret' = "SUCCESS"
       /\ UNCHANGED <<deviceStatus, session>>

\* Mutant: the job is made and then its ID cannot be.
create_job_fails_late(s) ==
  /\ LiveSession(s)
  /\ session[s].status = "INITIALIZED"
  /\ \E j \in Jobs :
       /\ ~LiveJob(j)
       /\ job' = [job EXCEPT ![j] = NewJob(s, "CREATED")]
       /\ ret' = "OUTOFMEM"
       /\ UNCHANGED <<deviceStatus, session>>

device_session_create_device_job(s) ==
  /\ LiveSession(s)
  /\ \/ /\ session[s].status # "INITIALIZED"
        /\ Returns("BADSTATE")
     \/ /\ session[s].status = "INITIALIZED"
        /\ \/ Returns("bad_alloc")
           \/ \E j \in Jobs :
                /\ ~LiveJob(j)
                /\ job' = [job EXCEPT ![j] = NewJob(s, "CREATED")]
                /\ ret' = "SUCCESS"
                /\ UNCHANGED <<deviceStatus, session>>

device_session_retrieve_device_job_by_id == Returns("NOTSUPPORTED")

device_job_free(j) ==
  /\ LiveJob(j)
  /\ job' = [job EXCEPT ![j] = NoJob]
  /\ ret' = "SUCCESS"
  /\ UNCHANGED <<deviceStatus, session>>

\* n is the shot count passed; n > MaxShots is never asked for.
device_job_set_parameter(j, n) ==
  /\ LiveJob(j)
  /\ \/ /\ job[j].status # "CREATED"
        /\ Returns("BADSTATE")
     \/ /\ job[j].status = "CREATED"
        /\ \/ Returns("NOTSUPPORTED")       \* any parameter but SHOTSNUM
           \/ Returns("SUCCESS")            \* SHOTSNUM with a null value
           \/ Returns("INVALIDARGUMENT")    \* SHOTSNUM of another size
           \/ /\ job' = [job EXCEPT ![j].num_shots = n]
              /\ ret' = "SUCCESS"
              /\ UNCHANGED <<deviceStatus, session>>

Supported_format(format) == format \in SUPPORTED_PROGRAM_FORMATS

Valid_program(format, program) ==
  /\ ~program.empty
  /\ format \in TextFormats => program.terminated

ProgramLists == UNION {[1..n -> Payloads] : n \in 1..MaxPrograms}

\* Mutant: the programs of a submitted job can be replaced.
set_programs_any_status(j, format, programs) ==
  /\ LiveJob(j)
  /\ Supported_format(format)
  /\ \A i \in 1..Len(programs) : Valid_program(format, programs[i])
  /\ job' = [job EXCEPT ![j].format = format, ![j].programs = programs]
  /\ ret' = "SUCCESS"
  /\ UNCHANGED <<deviceStatus, session>>

\* Mutant: a support check already stores the format.
set_programs_stores_format(j, format, programs) ==
  /\ job[j].status = "CREATED"
  /\ Supported_format(format)
  /\ job' = [job EXCEPT ![j].format = format]
  /\ ret' = "SUCCESS"
  /\ UNCHANGED <<deviceStatus, session>>

\* programs is a list of at least one program (count 0 and an unknown format
\* are InvalidArguments); the last disjunct replaces the whole list at once.
device_job_set_programs(j, format, programs) ==
  /\ LiveJob(j)
  /\ \/ /\ job[j].status # "CREATED"
        /\ Returns("BADSTATE")
     \/ /\ job[j].status = "CREATED"
        /\ ~Supported_format(format)
        /\ Returns("NOTSUPPORTED")
     \/ /\ job[j].status = "CREATED"
        /\ Supported_format(format)
        /\ \/ Returns("SUCCESS")            \* a null list: a support check
           \/ Returns("INVALIDARGUMENT")    \* null sizes, or a count no vector holds
           \/ Returns("OUTOFMEM")
           \/ /\ \E i \in 1..Len(programs) : ~Valid_program(format, programs[i])
              /\ Returns("INVALIDARGUMENT")
           \/ /\ \A i \in 1..Len(programs) : Valid_program(format, programs[i])
              /\ job' = [job EXCEPT ![j].format = format, ![j].programs = programs]
              /\ ret' = "SUCCESS"
              /\ UNCHANGED <<deviceStatus, session>>

-----------------------------------------------------------------------------
(* Running a job *)

\* Mutant: the byte is not reduced modulo the number of outputs.
Marker_unreduced(format, program) == program.byte + 4

\* The byte that selects a program's output: for a text format the one before
\* the terminating NUL, otherwise the last one (NUL when so terminated).
Marker(format, program) ==
  IF format = "QIRBASEMODULE" /\ program.terminated THEN 0 ELSE program.byte

\* A single program always shows output 0 ("01"), a list one output each.
Results(b) ==
  [i \in 1..Len(b.programs) |->
     [shot  |-> IF Len(b.programs) > 1 THEN Marker(b.format, b.programs[i]) ELSE 0,
      shots |-> b.num_shots]]

\* The QUBITSNUM query of submit answers only on an initialized session;
\* without the answer, padding the shots throws std::length_error.
QubitsKnown(j) == session[job[j].session].status = "INITIALIZED"

\* Mutant: the device is marked busy before the results are allocated.
submit_busy_first(j) ==
  /\ job[j].status = "CREATED"
  /\ job[j].programs # <<>>
  /\ deviceStatus' = "BUSY"
  /\ \/ /\ ret' = "OUTOFMEM"
        /\ UNCHANGED <<session, job>>
     \/ /\ job' = [job EXCEPT ![j].results = Results(job[j]), ![j].status = "RUNNING"]
        /\ ret' = "SUCCESS"
        /\ UNCHANGED session

\* Mutant: the check for an empty program list is missing.
submit_without_programs(j) ==
  /\ job[j].status = "CREATED"
  /\ job' = [job EXCEPT ![j].results = Results(job[j]), ![j].status = "RUNNING"]
  /\ deviceStatus' = "BUSY"
  /\ ret' = "SUCCESS"
  /\ UNCHANGED session

device_job_submit(j) ==
  /\ LiveJob(j)
  /\ \/ /\ job[j].status # "CREATED"
        /\ Returns("INVALIDARGUMENT")
     \/ /\ job[j].status = "CREATED"
        /\ job[j].programs = <<>>
        /\ Returns("BADSTATE")
     \/ /\ job[j].status = "CREATED"
        /\ job[j].programs # <<>>
        /\ \/ Returns("OUTOFMEM")
           \/ /\ ~QubitsKnown(j) \/ job[j].num_shots > MaxVector
              /\ Returns("FATAL")
           \/ /\ QubitsKnown(j) /\ job[j].num_shots <= MaxVector
              /\ job' = [job EXCEPT ![j].results = Results(job[j]),
                                    ![j].status = "RUNNING"]
              /\ deviceStatus' = "BUSY"
              /\ ret' = "SUCCESS"
              /\ UNCHANGED session

\* Mutant: a DONE job can be canceled.
cancel_done(j) ==
  /\ LiveJob(j)
  /\ job' = [job EXCEPT ![j].status = "CANCELED"]
  /\ deviceStatus' = "IDLE"
  /\ ret' = "SUCCESS"
  /\ UNCHANGED session

device_job_cancel(j) ==
  /\ LiveJob(j)
  /\ \/ /\ job[j].status = "DONE"
        /\ Returns("INVALIDARGUMENT")
     \/ /\ job[j].status # "DONE"
        /\ job' = [job EXCEPT ![j].status = "CANCELED"]
        /\ deviceStatus' = "IDLE"
        /\ ret' = "SUCCESS"
        /\ UNCHANGED session

\* The job ends: its status becomes DONE and the device idle.
Finish(j) ==
  /\ job' = [job EXCEPT ![j].status = "DONE"]
  /\ deviceStatus' = "IDLE"
  /\ ret' = "SUCCESS"
  /\ UNCHANGED session

\* Mutant: the device becomes idle and the job stays RUNNING.
check_forgets_status(j) ==
  /\ job[j].status = "RUNNING"
  /\ deviceStatus' = "IDLE"
  /\ ret' = "SUCCESS"
  /\ UNCHANGED <<session, job>>

\* check draws a random bit when the job runs: this is check with a bit of 1.
check_completes(j) ==
  /\ job[j].status = "RUNNING"
  /\ Finish(j)

device_job_check(j) ==
  /\ LiveJob(j)
  /\ check_completes(j) \/ Returns("SUCCESS")

\* Mutant: CANCELED is not among the terminal states.
wait_ignores_canceled(j) ==
  /\ LiveJob(j)
  /\ \/ job[j].status = "DONE" /\ Returns("SUCCESS")
     \/ job[j].status # "DONE" /\ Finish(j)

\* The timeout is ignored.
device_job_wait(j) ==
  /\ LiveJob(j)
  /\ SubmitsBeforeWait => job[j].status # "CREATED"
  /\ \/ /\ job[j].status \in {"DONE", "CANCELED", "FAILED"}
        /\ Returns("SUCCESS")
     \/ /\ job[j].status \notin {"DONE", "CANCELED", "FAILED"}
        /\ Finish(j)

-----------------------------------------------------------------------------
(* Reading a job; program_index counts from 0 *)

device_job_get_program(j, program_index) ==
  /\ LiveJob(j)
  /\ \/ /\ job[j].programs = <<>>
        /\ Returns("BADSTATE")
     \/ /\ job[j].programs # <<>>
        /\ program_index >= Len(job[j].programs)
        /\ Returns("OUTOFRANGE")
     \/ /\ program_index < Len(job[j].programs)
        /\ \/ Returns("INVALIDARGUMENT")    \* the buffer is too small
           \/ Returns("SUCCESS")

device_job_get_program_status(j, program_index) ==
  /\ LiveJob(j)
  /\ \/ /\ job[j].programs = <<>>
        /\ Returns("BADSTATE")
     \/ /\ job[j].programs # <<>>
        /\ program_index >= Len(job[j].programs)
        /\ Returns("OUTOFRANGE")
     \/ /\ program_index < Len(job[j].programs)
        /\ Returns("NOTSUPPORTED")

\* PROGRAMFORMAT and PROGRAMSNUM are known once programs are set, ID and
\* SHOTSNUM always; the other properties are not supported.
device_job_query_property(j, prop) ==
  /\ LiveJob(j)
  /\ \/ /\ \/ prop = "PROGRAMFORMAT" /\ job[j].format = "MAX"
           \/ prop = "PROGRAMSNUM" /\ job[j].programs = <<>>
        /\ Returns("BADSTATE")
     \/ /\ \/ prop \in {"ID", "SHOTSNUM"}
           \/ prop = "PROGRAMFORMAT" /\ job[j].format # "MAX"
           \/ prop = "PROGRAMSNUM" /\ job[j].programs # <<>>
        /\ \/ Returns("INVALIDARGUMENT")    \* the buffer is too small
           \/ Returns("SUCCESS")
     \/ /\ prop \notin {"ID", "SHOTSNUM", "PROGRAMFORMAT", "PROGRAMSNUM"}
        /\ Returns("NOTSUPPORTED")

\* Mutant: the index is compared with > instead of >=.
get_results_off_by_one(j, program_index) ==
  /\ LiveJob(j)
  /\ program_index <= Len(job[j].programs)
  /\ job[j].status = "DONE"
  /\ Returns(IF program_index < Len(job[j].results) THEN "SUCCESS" ELSE "undefined")

\* The result is looked up without a check that it is there.
device_job_get_results(j, program_index) ==
  /\ LiveJob(j)
  /\ \/ /\ program_index >= Len(job[j].programs)
        /\ Returns("OUTOFRANGE")
     \/ /\ program_index < Len(job[j].programs)
        /\ job[j].status # "DONE"
        /\ Returns("BADSTATE")
     \/ /\ program_index < Len(job[j].programs)
        /\ job[j].status = "DONE"
        /\ \/ /\ program_index >= Len(job[j].results)
              /\ Returns("undefined")
           \/ /\ program_index < Len(job[j].results)
              /\ \/ Returns("INVALIDARGUMENT")  \* the buffer is too small
                 \/ Returns("NOTSUPPORTED")     \* a custom result
                 \/ Returns("bad_alloc")        \* building a histogram
                 \/ Returns("SUCCESS")

device_session_query_device_property(s) ==
  /\ LiveSession(s)
  /\ \/ /\ session[s].status # "INITIALIZED"
        /\ Returns("BADSTATE")
     \/ /\ session[s].status = "INITIALIZED"
        /\ \/ Returns("INVALIDARGUMENT")    \* the buffer is too small
           \/ Returns("NOTSUPPORTED")
           \/ Returns("SUCCESS")

-----------------------------------------------------------------------------
SessionCall(s) ==
  \/ device_session_set_parameter(s)
  \/ device_session_init(s)
  \/ device_session_free(s)
  \/ device_session_create_device_job(s)
  \/ device_session_query_device_property(s)

JobCall(j) ==
  \/ device_job_free(j)
  \/ \E n \in 0..MaxShots : device_job_set_parameter(j, n)
  \/ \E format \in Formats, programs \in ProgramLists :
       device_job_set_programs(j, format, programs)
  \/ device_job_submit(j)
  \/ device_job_cancel(j)
  \/ device_job_check(j)
  \/ device_job_wait(j)
  \/ \E i \in 0..MaxPrograms : \/ device_job_get_program(j, i)
                               \/ device_job_get_program_status(j, i)
                               \/ device_job_get_results(j, i)
  \/ \E prop \in {"ID", "SHOTSNUM", "PROGRAMFORMAT", "PROGRAMSNUM", "QUEUEPOSITION"} :
       device_job_query_property(j, prop)

Next ==
  \/ device_initialize
  \/ device_finalize
  \/ InvalidArguments
  \/ device_session_alloc
  \/ device_session_retrieve_device_job_by_id
  \/ \E s \in Sessions : SessionCall(s)
  \/ \E j \in Jobs : JobCall(j)

Spec == Init /\ [][Next]_vars

-----------------------------------------------------------------------------
(* What holds of any caller *)

\* A job that holds results holds one for each of its programs, at the same
\* index, for its present format and shot count, and was submitted; and a
\* running job holds them (device.h:592: a result's index equals its input
\* program's index).
ResultsMatchPrograms ==
  \A j \in Jobs :
    /\ job[j].results # <<>> => /\ job[j].results = Results(job[j])
                                /\ job[j].status \in {"RUNNING", "DONE", "CANCELED"}
    /\ job[j].status = "RUNNING" => job[j].results # <<>>

\* The format is known exactly when there are programs, so that the queries
\* for PROGRAMFORMAT and PROGRAMSNUM agree on whether programs were set.
FormatKnownWithPrograms ==
  \A j \in Jobs : job[j].format = "MAX" <=> job[j].programs = <<>>

\* A job's session is initialized for as long as the job lives, so the query
\* that submit makes without looking at its status succeeds (line 560).
SubmitKnowsQubits ==
  \A j \in Jobs : LiveJob(j) => job[j].session \in Sessions /\ QubitsKnown(j)

\* While the device is offline there is neither an initialized session nor a
\* job, so no call on a job can bring a finalized device back to IDLE or BUSY.
OfflineIsQuiet ==
  deviceStatus = "OFFLINE" =>
    /\ \A s \in Sessions : session[s].status # "INITIALIZED"
    /\ \A j \in Jobs : ~LiveJob(j)

\* A call that does not return SUCCESS changes nothing: a rejected program
\* list leaves the previous one, a submission that runs out of memory leaves
\* the job CREATED and the device as it was (device.h:589).
FailedCallChangesNothing ==
  [][ret' # "SUCCESS" => UNCHANGED <<deviceStatus, session, job>>]_vars

\* From submission to release a job keeps its programs, format, shot count and
\* results, and a job that is DONE or CANCELED stays so.
SubmittedJobFrozen ==
  [][\A j \in Jobs :
       /\ job[j].status \notin {"FREE", "CREATED"}
       /\ job'[j].status # "FREE"
       => /\ job'[j].programs = job[j].programs
          /\ job'[j].format = job[j].format
          /\ job'[j].num_shots = job[j].num_shots
          /\ job'[j].results = job[j].results
          /\ job[j].status \in {"DONE", "CANCELED"} =>
               job'[j].status = job[j].status]_vars

-----------------------------------------------------------------------------
(* What holds when jobs are submitted before they are waited for *)

\* "All programs succeeded, and their results can be retrieved"
\* (constants.h:938): a DONE job has programs and a result for each of them.
DoneHasResults ==
  \A j \in Jobs :
    job[j].status = "DONE" => /\ job[j].programs # <<>>
                              /\ job[j].results = Results(job[j])

\* get_results never reads past the results it holds (line 860).
NoUndefinedRead == ret # "undefined"

PhaseOf(status) ==
  CASE status = "FREE"     -> "absent"
    [] status = "CREATED"  -> "configuring"
    [] status = "DONE"     -> "done"
    [] status = "CANCELED" -> "canceled"
    [] OTHER               -> "running"

InputOf(b) == [format |-> b.format, programs |-> b.programs, num_shots |-> b.num_shots]

Lifecycle == INSTANCE JobLifecycle WITH
  Input <- [format: ProgramFormat, programs: ProgramLists \cup {<<>>}, num_shots: 0..MaxShots],
  Output <- Seq(Result_data),
  EmptyInput <- InputOf(NoJob),
  NoOutput <- <<>>,
  Runnable <- LAMBDA i : i.programs # <<>>,
  Execute <- Results,
  phase <- [j \in Jobs |-> PhaseOf(job[j].status)],
  input <- [j \in Jobs |-> InputOf(job[j])],
  output <- [j \in Jobs |-> job[j].results]

\* The device implements the job life cycle: every call is a step of
\* JobLifecycle or leaves all jobs alone.
ImplementsLifecycle == Lifecycle!Spec

-----------------------------------------------------------------------------
(* What the headers say and the code does not do *)

\* "A session may only be successfully initialized once" (device.h:192).
SessionInitializedOnce ==
  [][\A s \in Sessions :
       session[s].status = "INITIALIZED" /\ device_session_init(s) => ret' # "SUCCESS"]_vars

\* "The device is idle" (constants.h:539): it runs no job.
IdleRunsNothing ==
  deviceStatus = "IDLE" => \A j \in Jobs : job[j].status # "RUNNING"
=============================================================================
