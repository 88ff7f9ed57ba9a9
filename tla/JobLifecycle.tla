----------------------------- MODULE JobLifecycle -----------------------------
(***************************************************************************)
(* What the job interface promises of a job (the workflow of device.h:430, *)
(* the statuses of constants.h:926): it is configured, then started once   *)
(* with an input that is not empty, its output belongs to that input and   *)
(* to no other, it ends done or canceled, and it keeps input and output    *)
(* until it is released.                                                   *)
(***************************************************************************)
CONSTANTS
  Jobs,          \* job handles
  Input,         \* what a job can be configured with
  Output,        \* what a job can produce
  EmptyInput,    \* the inputs a new job starts with
  NoOutput,      \* the output of a job that has not run
  Runnable(_),   \* the inputs a job can be started with
  Execute(_)     \* the output of each runnable input

VARIABLES phase, input, output

lifecycleVars == <<phase, input, output>>

Phase == {"absent", "configuring", "running", "done", "canceled"}

Init ==
  /\ phase = [j \in Jobs |-> "absent"]
  /\ input = [j \in Jobs |-> EmptyInput]
  /\ output = [j \in Jobs |-> NoOutput]

Move(j, from, to) ==
  /\ phase[j] \in from
  /\ phase' = [phase EXCEPT ![j] = to]

Create(j) ==
  /\ Move(j, {"absent"}, "configuring")
  /\ UNCHANGED <<input, output>>

Configure(j) ==
  /\ Move(j, {"configuring"}, "configuring")
  /\ \E i \in Input : input' = [input EXCEPT ![j] = i]
  /\ UNCHANGED output

Start(j) ==
  /\ Move(j, {"configuring"}, "running")
  /\ Runnable(input[j])
  /\ output' = [output EXCEPT ![j] = Execute(input[j])]
  /\ UNCHANGED input

Finish(j) ==
  /\ Move(j, {"running"}, "done")
  /\ UNCHANGED <<input, output>>

Cancel(j) ==
  /\ Move(j, {"configuring", "running"}, "canceled")
  /\ UNCHANGED <<input, output>>

Release(j) ==
  /\ Move(j, Phase \ {"absent"}, "absent")
  /\ input' = [input EXCEPT ![j] = EmptyInput]
  /\ output' = [output EXCEPT ![j] = NoOutput]

Next ==
  \E j \in Jobs : \/ Create(j)
                  \/ Configure(j)
                  \/ Start(j)
                  \/ Finish(j)
                  \/ Cancel(j)
                  \/ Release(j)

Spec == Init /\ [][Next]_lifecycleVars
=============================================================================
