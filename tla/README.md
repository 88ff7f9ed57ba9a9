# A TLA+ development of QDMI

QDMI is a C interface between clients (compilers, tools) and quantum devices.
The repository defines the interface in headers and ships code that implements
it: an example device in C++, an example driver that loads device libraries
and offers them to clients, a small client library, a tool and a template for
new devices. This directory models the device, the driver, the two on top of each
other, the encoding of results and properties, the client library and the tool. It
checks the models with TLC on small instances and proves with TLAPS, for every size,
theorems about all of them.

Paths are relative to the repository's root.

## 1. The system

| Component | State | Operations | Modelled in |
|---|---|---|---|
| Example device, `examples/device/src/cxx_device.cpp` | device status (one per library), session objects, job objects (status, format, programs, shots, results) | initialize, finalize; session alloc/set_parameter/init/free/create job; job set_parameter/set_programs/submit/cancel/check/wait/free; queries | `QDMIDevice` |
| Example driver, `examples/driver/qdmi_example_driver.cpp` | loaded libraries, configured devices, session counter; client sessions with their devices; jobs | session alloc/set_parameter/init/free, create and retrieve job, job free, forwarding of job calls and queries | `QDMIDriver`, `QDMISystem`; `DriverPromise` (abstract specification) |
| Job life cycle of the interface, `include/qdmi/device.h`, `constants.h` | what a client may rely on about a job | create, configure, start, finish, cancel, release | `JobLifecycle` (abstract specification) |
| Result encoding, `cxx_device.cpp:654-879` | none (pure functions of a result) | shots, histogram, dense and sparse vectors, each by size query and fetch | `QDMIResults` |
| Property tables and queries, `cxx_device.cpp:173-328, 881-1020` | none | device, site and operation queries | `QDMIProperties` |
| FoMaC library, `examples/fomac` | none (asks the driver each time) | getters: query a size, then a value | `QDMIFoMaC` |
| Tool, `examples/tool` | none | relabels the qubits of a QASM text along the coupling map | `QDMITool` |
| Template device, `templates/device` | none: every function returns `QDMI_ERROR_NOTIMPLEMENTED` | | a library of `QDMISystem` that cannot be initialized |
| Job IDs and random numbers, `cxx_device.cpp:140-171` | one generator | draws of IDs, bits and amplitudes | free choices; see section 5 |
| Headers, CMake, packaging, docs, tests | none | | read for what they promise |

### How they interact

A client calls the driver through `client.h`. The driver keeps, for each client
session, one device session per configured device and calls the device library
through function pointers (`device.h` with a prefix); job calls are passed
on unchanged. The device calls nobody. All calls are synchronous; there are no
threads and no callbacks, and the interface promises no thread safety. What
interleaves is therefore whole calls: of several sessions and jobs at the device,
and of several clients at the driver. In the driver one call is a sequence of
device calls, each of which may fail.

### What is hard

* *Shared state*: all jobs of a device share one status; all client sessions
  share the loaded libraries through a counter.
* *Sequences of legal calls*: jobs can be waited on, cancelled, checked,
  reconfigured and freed in any order and at any time.
* *Partial failure*: loading the third of five libraries, opening the second of
  three devices, running out of memory in the middle of a list. Whatever was
  done before has to be undone, once.
* *Unchecked assumptions*: `submit` ignores the result of its own query
  (`cxx_device.cpp:560`); `get_results` indexes one list with the bound of another
  (line 860).
* *Life times*: jobs point to devices, devices to libraries and sessions.

There is no persistence, no message passing and no timeout that is looked at
(`wait` ignores its timeout), so crash recovery, lost messages and races of
timeouts do not occur. `PROJECT.json` lists the hazards line by line.

### What makes each component correct

* Device: results belong to the programs they are read for; a DONE job has
  them; a failed call changes nothing; a submitted job is frozen; terminal
  statuses are final. Under the driver: polling ends.
* Result encoding: each encoder writes exactly the bytes its size query announced;
  keys and values, fetched by separate calls, pair up.
* Driver: a library is initialized once while any session needs it and
  finalized after the last; a device session is owned exactly once and closed
  before its library; a session is opened completely or not at all; IDs are
  distinct; read-only sessions own no jobs; every call returns.
* Driver and device together: the driver calls the device only when the device's
  conditions on its caller hold; both agree on which sessions and jobs there are; an
  open session stays usable whatever other clients do.
* Property tables: a value fits the size announced for it; coupling map, operation
  sites and fidelities list the same pairs.
* FoMaC and tool: a getter returns what the device reports or throws, whichever call
  failed; the tool's textual substitutions are one simultaneous relabelling onto coupled
  sites.

## 2. The modules

### `QDMIDevice`: one device library

One action per exported function, named as in the source without its prefix
`CXX_QDMI_`; each is atomic, since calls do not overlap. The variables are
`deviceStatus` (`CXX_QDMI_Device_State::status`), `session` and `job`
(the heap objects by handle, `FREE` when there is none) and `ret`, the code
the last call returned. Two values of `ret` are not codes: `bad_alloc`, when an
exception leaves the function, and `undefined`, when it reads past a vector.

Abstractions:

* A program is what the device can tell about it: whether it is missing,
  whether it is properly NUL-terminated, and the residue modulo 4 of the byte
  that selects its output. A result is the selected output and the number of
  shots; state vectors are random and left out.
* Running out of memory is a disjunct wherever the code allocates, caught
  (`OUTOFMEM`) or not (`bad_alloc`).
* Checks for null arguments are the one action `InvalidArguments`; a null output
  buffer and the size returned are not distinguished.
* Callers use live handles, initialize the device first and free jobs before
  their session (`device.h:63`, `client.h:412`). `SubmitsBeforeWait` says whether
  they also submit every job they wait for: the headers do not ask for it,
  and the code does not check it.

### `JobLifecycle`: what the interface promises of a job

Five phases and six steps: create, configure, start with a runnable input,
finish, cancel, release. Output is computed once, from the input at the start.
`QDMIDevice` instantiates it with a refinement mapping (`Lifecycle`): the phase
is read off the status, the input is format, programs and shots. `Spec`, the
whole abstract specification, is checked as the property `ImplementsLifecycle`.

### `QDMIDriver`: loading, opening, releasing

Entry actions carry the driver's function names without `QDMI_`. A function that
calls device libraries in a loop is split at these calls. `call` holds where
it stands and its local variables, and no other call starts before it has returned
(`Entry`):

| `call.at` | code | next |
|---|---|---|
| `load` | a line of the configuration, `initialize_driver`, `library_load` | next line, `load_end`, or `unload` with an error |
| `open`, `set_token`, `init` | the three device calls per device in `session_init` | next device, `open_end`, or `close` with an error |
| `close` | `~QDMI_Device_impl_d` for each device | return the error, or (`freeing`) the counter and `unload` |
| `unload` | `~QDMI_Library`: finalize and dlclose | return |

The device libraries and `dlopen` are external and appear as the two counters
`provider` (initializations not finalized, per library) and `opens`
(references, per handle), and as codes in `Errors` that any device call may return.
A library is a pair of handle and prefix, as the code compares them. Vectors of
owning pointers are emptied in any order, since C++ leaves the order of
destruction open; the lists whose order clients see are sequences. The
configuration may change between two loads: each load picks one of `Configs`.
The missing or forbidden configuration file (`Is_path_allowed`) is one disjunct
of `session_alloc`.

### `QDMIResults`: reading a result

`QDMIDevice` says whether `get_results` succeeds; `QDMIResults` says what it
hands out. The state is the `Result_data` of one program of a DONE job, as
`submit` stores it (the same output in every shot, a vector that is not zero), and the
last reply for each kind of result being read. The encoders keep their names; each
has a required size and the list of items its loop writes, and `Answer` is the
frame they share: the check of the buffer's size and the order in which `size_ret`
and the data are written. The client is external: it asks for the size and then
fetches with that size, one byte less or one byte more (`device.h:858-866`).

A buffer is a sequence of items of `Width` bytes. An item of a text is a bitstring, as the
number it spells, together with the character the loop writes after it: `Joined` puts a
comma or a NUL behind each shot, `Terminated` commas, the last of which is then
overwritten. A client reads a text up to its first NUL (`Strings`), and all properties of
shots and keys are stated of what it reads. Amplitudes are integers and their
norms squares, since the encoders only distinguish zero from non-zero. The loops that
skip zeros are one recursive function over the elements of a vector (`Written`), of which
`Keys` and `Values` are the uses. The histogram, in the code an ordered map, is the vector of the counts of all
outputs, filled shot by shot: its keys in order are then the positions that are not zero.

### `DriverPromise`: what the client interface promises of a driver

Clients' sessions are absent, allocated or open; the first reads the list of devices,
the last drops it; opening shows the whole list or nothing; jobs belong to open sessions
that may write. Each call is one step. `QDMIDriver` instantiates it as `Promise`: the
list is `configured_devices` while there is a live session, so the driver's partly read
configurations, partly opened sessions and clean-up must all be invisible, and the
visible step of a call falls on the one assignment that publishes its result. The
property is `KeepsPromise`.

### `QDMISystem`: the driver on top of its devices

Extends `QDMIDriver` and instantiates `QDMIDevice` once (the device library has one
state per process). Every driver step that calls a device is conjoined with that
device function, and the driver goes on with the code the function returned; the other
steps leave the device alone. A driver's device and its device session share a handle, as
do a driver's job and its device job. The device's assumptions on its caller, guards in
`QDMIDevice`, become the invariant `DeviceCallsAllowed` here. The template is the second
library: `device_initialize` returns `NOTIMPLEMENTED`, so no later function of it is
ever reached through the driver.

### `QDMIProperties`: what the device tells of itself

The tables, the three query functions and the three macros that answer a property (one
`Answer`: buffer too small, value, size). The state is the last query and its reply, with the
session's and the device's status, which other calls may change between a size query and its
fetch (`Elsewhere`). A value is a list of items of one C type; a double is written in
thousandths. The site and operation queries look at no session, as in the code.

### `QDMIFoMaC` and `QDMITool`: the client side

`QDMIFoMaC` has one action per getter: it makes its device calls in order, and the first
that fails is thrown (`FirstFailure`). The device is a parameter, any of a set of
records of what a device may report; any one of its calls may fail with any code
(`failing`), which covers every place an exception can leave a getter. Powers of ten
stand for scale factors. `QDMITool` adds `compile`: a program is a list of statements with
their references to registers, and the text `q[0]` is also found at the end of a longer
name (`QNames`). The substitutions are the source's, one after the other, by way of `aux`.
Both keep no state but their outcome, so one run checks them together.

The `MC` modules hold the payloads, formats, configurations, devices and programs TLC uses.

## 3. What TLC checks

| Run | Question | Bounds |
|---|---|---|
| `device_any_caller` | Do results belong to programs, do failed calls leave no trace, are submitted jobs frozen, for any caller? | 1 session, 2 jobs, lists of 1 or 2 of 3 payloads, 3 formats, shots 0..2 with vectors of at most 1 |
| `device_lifecycle` | For callers that submit before they wait: does the device implement `JobLifecycle`, do sessions stay initialized under their jobs, is a finalized device left alone? | 2 sessions, 2 jobs, lists of 1 or 2 programs, shots 0..1 |
| `driver_resources` | Are libraries, device sessions and IDs accounted for whatever fails, does every call return, does the driver implement `DriverPromise`? | 2 clients, 4 devices, 1 job, 7 configurations, 2 error codes |
| `system_agreement` | Is the device called only when it may be, do driver and device agree, do sessions stay usable, do calls return, does a polled job end? | 2 clients, 2 devices, 1 job, 3 configurations with the template in one |
| `results_two_calls` | Is what a fetch writes what the size query announced, do texts end where they should, and do keys and values give back shots and vector? | 2 qubits, 2 outputs, shot counts 0, 1, 3, amplitudes -1, 0, 1 |
| `properties_queries` | Do size queries and fetches fit together for every property, do the tables agree? | all properties, the device's own 5 sites, every list of one or two sites and one of three |
| `fomac_and_tool` | Does a call throw or return what the device reports; are programs relabelled onto coupled sites? | 14 devices, 48 programs, one failing call out of 19 with 4 codes |

Why the bounds suffice. Jobs of the device share nothing but the device status, and
sessions nothing but the objects they own, so two of each show every
interaction. Programs enter one by one, and the code distinguishes lists of one
from longer ones: two elements cover both. `MaxVector` = 1 with shots up to 2 makes
the shot count no vector holds a reachable case. In the driver, two
lines per file show a failure after a success; the configurations cover two devices
of one library, two prefixes of one handle, two handles, a duplicate ID, a
malformed second line, comments, a library that lacks a required symbol, one that lacks
the optional one, and an empty file. Four devices let both clients open
two. Device errors are `FATAL` and `NOTSUPPORTED`, the only two the driver treats
differently. In the system two devices let each client open one, and make one client run
out of memory for its second device while the other has a session open. The encoders walk their
lists from end to end: four basis states with every placement of zeros, and no, one
and several shots, are all the shapes a loop can meet. The property tables are the
device's own, so nothing is cut there but lists of sites longer than three, which no
comparison in the code tells from three. FoMaC walks lists from end to end; the devices
cover a list of odd length, none at all, operations that share a name and units it knows
and does not, a device that couples a site with itself and one with a zone besides its
qubits. The tool looks at a size of one digit and at two labels: registers of 0 to 3
and 10 qubits, gates on every pair of references, and first pairs (0,1), (1,0), (1,2) and
(2,1) show every overlap of old and new names.

Symmetry is used in `device_any_caller` only, over jobs, which nothing orders.

### Disagreements between code and documentation

Five runs expect a violation, each of a sentence in the headers:

* `device_wait_unsubmitted`: `wait` makes a job that was never submitted DONE, with
  no result behind it (`constants.h:938`); `get_results` then reads past an empty vector.
* `device_init_twice`: a second `device_session_init` succeeds (`device.h:192`).
* `device_idle_while_running`: the end of any job sets the device to IDLE while
  another still runs (`constants.h:539`).
* `fomac_units`: the scale factor is divided by 1000 for `ms` and multiplied for `ns`
  (`example_fomac.cpp:185-188`), so the T1 and T2 the client library returns are off by a
  factor of a million for such a device; `constants.h:409-412` says that raw value times scale
  factor "is in the reported unit, including its prefix".
* `results_no_shots`: of a job without shots the announced size is 0, and a fetch into
  a buffer of that size is rejected (`device.h:831`, `cxx_device.cpp:850`). `SizeDecides`
  leaves out the announced size 0.

Further disagreements the modules show and no run is kept for:

* `cxx_device.cpp:813`: the sparse probabilities are written for every basis state, although
  the buffer is sized by the non-zero ones (line 807) and the keys list only these;
  `constants.h:1180` promises "an equal-length list of values". It takes an amplitude that is
  exactly zero, which the random vectors hardly ever have. `WrittenAsAnnounced` excludes this
  case: it is about sparse probabilities when no amplitude is zero.
* `fomac/example_fomac.cpp:184`: a missing scale factor is thrown, where `constants.h:422-423` says "a
  client should assume a default value of `1.0`".
* `cxx_device.cpp:1008`: DURATION of rx, ry and rz is answered with the double 0.01, not the
  table's 10; `constants.h:784` says "`uint64_t` The raw, unscaled duration of an operation."
* `cxx_device.cpp:931-1020`: the site and operation queries answer on a session that is not
  initialized; `device.h:312-314` and `378-380` promise BADSTATE.
* `cxx_device.cpp:413`: freeing a RUNNING job deletes all there is of it and leaves the
  device BUSY (`constants.h:540`, "The device is busy.").
* `cxx_device.cpp:84`: job IDs come from a generator with a constant seed and repeat in every
  process; `constants.h:236` says "The ID must uniquely identify a job for the specific
  device."
* `tool/example_tool.cpp:48`: a register that is not called `q` passes the checks and is left as it
  is; line 82: a statement on the whole register, as in `test/test_qdmi.cpp:1055`, grows
  with the register; line 74: indices of sites are written where `constants.h:969-970`
  reads positions, and neither need the list of sites be sorted (lines 332-333) nor the
  indices start at 0 (line 567). `Plain` and `IndicesArePositions` name these cases.
* `example_tool.cpp:73`: `front()` of a coupling map that is empty, as
  `test/test_qdmi.cpp:312-313` has it for one qubit (`"undefined"` in `TypeOK`).

### Fairness

`CallsReturn` assumes
`WF_vars(Continue)`: a driver call that has started runs on, that is, device
functions return. In the system the same holds of `SysContinue`, and `PolledJobEnds`
assumes strong fairness of `PollCompletes(j)`: a client that polls a job it submitted does
so again and again between the calls of the other, whose calls in progress disable the poll,
and the coin `check` throws is fair. `wait` and `cancel` get no fairness, and clients are
never forced to make any other call. `QDMIDevice` by itself has no fairness.

### What callers are assumed to do

Some hazards are the caller's to avoid, and a property that assumes they do says nothing of
them. `SubmitsBeforeWait` is one, and `device_wait_unsubmitted` shows the device
without it. A client frees its jobs before their session (`client.h:412`): the
guard of `session_free` assumes it, so a job that outlives its session, whose device is then
gone, is not modelled. `device_finalize` has the like guard in `QDMIDevice`, and
`OfflineIsQuiet` rests on it; there the caller is the driver, and that it keeps to the guard
is `DeviceCallsAllowed`, checked and proved of `QDMISystem`.

## 4. What is proved

`QDMIDeviceProofs` holds the theorems about the device, for every set of sessions and
jobs and every bound, from `DeviceAssumption` alone (the types of the constants).

The properties are not inductive by themselves. That a DONE job has results follows
from RUNNING jobs having them, and this from `submit` being the only way to RUNNING;
that results belong to the programs needs that a CREATED job, the only one that can
be reconfigured, has none; that the offline device is quiet needs that a live
job's session is initialized. `DeviceInv` collects this: the type invariant,
`WellFormed` for each job by itself, and the two facts that tie jobs, sessions
and the device together (`SubmitKnowsQubits`, `OfflineIsQuiet`).

* `ReturnsKeepsInv`, `SessionCallsKeepInv`, `JobCallsKeepInv`: each call keeps
  `DeviceInv`. `JobUpdate` is the common part of the job calls: storing a well-formed
  object of the same session is enough.
* `DeviceInvariant`: `Spec => []DeviceInv`. From it follow `TypeCorrect`,
  `ResultsCorrect`, `FormatCorrect`, `SessionsCorrect`, `OfflineCorrect` and, for callers that submit
  before they wait, `DoneCorrect` and `ReadsCorrect`.
* `FailedCallsHarmless` needs no invariant: it goes through the calls.
* `SubmittedJobsFrozen` rests on `StepsAreJobSteps`: a step changes at most one job,
  in one of the ways `JobStep` lists.

* `DeviceImplementsLifecycle`: for callers that submit before they wait, `Spec` implies
  the whole of `JobLifecycle!Spec` under the refinement mapping. It needs `DeviceInv` and
  `InputsLegal` (a handle without a job maps to the empty input, and callers pass only
  what the abstract `Input` holds). `JobStepMoves` reads `JobStep` field by field;
  `JobMoveIsLifecycleStep` matches each such move with one abstract action.

`QDMIToolProofs` proves the invariants of `ToolSpec`, from `FoMaCAssumption` (what a
device's record holds; `NULL` is neither an exception nor a getter) and `ToolAssumption`
(programs are lists of statements), for any devices, programs and failing calls.

* `GetterOutcome`, `SiteTimeOutcome`, `GettersOutcome`: what a getter leaves behind. Each
  getter is traced to its calls; that a call that throws is one that failed is `ThrowTypes`.
* `PairsOfEvenList`: the pairs of a list make it up when its length is even, which
  `CouplingMapEven` draws from the check between the two calls.
* `RenamedIsTarget`: the three renamings of one reference, by way of `aux`, are one
  renaming of both labels. The detour is needed for a first target of 1: the proof's case for
  label 0 rests on `aux` being no label. `GatesRelabelled` and `GatesKept` lift
  this to programs; `EdgeHasIndices` shows that the first pair exists, because the list is
  even and not empty.
* `ToolInvariant` puts them together: `ToolTypeCorrect`, `PairsCorrect` and
  `RelabellingCorrect` follow.
* `MapCorrect`: the code keeps the first operation of a name. `LeastElement` (every set of
  numbers has a least one) gives it, `MapLeadsToName` what the map then leads to.
* `GatesCorrect` and `RegisterCorrect` rest on `ReturnsInv`, which keeps what `compile`
  returned: the relabelled program and the pair it was relabelled for. `EdgeOfSites` places
  the pair among the sites, `OneDeclaration` and `DeclarationKept` follow the declaration
  through the substitutions. The proofs asked for two conditions on the device that earlier
  statements lacked: `CouplesItsSites` (pairs of different listed sites) and
  `QubitsAreSites`. Without them the properties are false: on a one-qubit device
  coupled with itself the declaration `q[1]` is relabelled like a qubit. The devices
  `MCSelf` and `MCZone` keep both conditions from being idle.

### The driver

Four modules, each building on the one before. Their assumptions are `DriverAssumption`
(finitely many clients; `NULL` is no client and no device; configurations are lists of lines; `SUCCESS` is no
error) and, for the system, `SystemAssumption`.

`QDMIDriverProofs`: *libraries*. None of the properties is inductive, since they speak
of the driver between calls, and a call passes through states in which what it has
loaded is not in the driver's state yet. `DriverInv` adds what is true in between:

* `Accounted`: the libraries of the driver's state together with those in the locals of the
  call are exactly the initialized ones, each once, and each handle is open as often as it
  has such libraries. `OneMoreAccount` and `OneLessAccount` are loading and unloading.
* `Counted`: the session that is being freed is still counted until its devices are closed.
* `Configuration` and `CallLocals`: what is configured, and what the locals hold at each point.

Each action has its lemma (`LoadLineKeepsInv`, ..., `FreeKeepsInv`). From `DriverInvariant`
follow `DriverTypeCorrect`, `LoadedCorrect` and `InitializedOnce`.

`QDMIDriverSessionProofs`: *devices*. `SessionInv` adds to `DriverInv` that no device is in
two lists and the open devices are those in one (`OneOwner`); that their libraries are loaded;
how far an opening call has come (`OpeningLocals`: the devices it holds and those it has still
to open make up the configured ones, in order); that configured IDs are distinct; and that
sessions which are open or being opened for writing have a token. `DevicesOwnedOnce`,
`SessionsAllOrNothing`, `SessionIdsDistinct` and `JobsWritable` follow. `CompleteFrame`,
`QuietStep` and `HeldStep` treat the steps that leave other sessions' devices alone.

`QDMIDriverPromiseProofs`: *refinement*. `DriverKeepsPromise` is `Spec => KeepsPromise`, the
whole of `DriverPromise!Spec`. `PromiseInv` adds to `SessionInv` what a loading call has read:
its list holds the devices of a prefix of some configuration (`ReadSoFar`), so at
the end it is one of the `Listings` of the promise (`ReadIsListing`). These are given by a
relation (`Lists`: an ascending choice of lines), where the driver builds one line by line. `SetUpHidden`, `DeviceStepsHidden` and `CloseEndHidden` are the steps the
client does not see; `AllocateStep`, `LoadStep`, `OpenStep`, `ReleaseStep` and `JobStep` are the
five kinds it does.

`QDMISystemProofs`: *composition*. A step of the system is a step of the driver
(`DriverInSystem`: `SysSpec => Spec`) and a step of the device or none (`DeviceInSystem`: `SysSpec`
implies `QDMIDevice`'s `Spec`, whose guards are the conditions on its caller). So all
safety theorems of both carry over: `DeviceFactsHold` takes types and `OfflineIsQuiet` from
`QDMIDeviceProofs`, instantiated with the driver's handles. What relates the two is
`SysInv`: the device is up exactly while the driver counts its library as initialized
(`DeviceUp`), and both agree on sessions and jobs. With `SessionInv` it is inductive; the
hard cases are the steps in which the device fails or throws after the driver
has allocated. `HandlesAlwaysAgree`, `CallsAllowed` and `OpenSessionsStayUsable` follow.
`ResultsThroughDriver` and `LifecycleThroughDriver` carry over what clients care for most:
results belong to programs, submitted jobs are frozen, and (for clients that submit before
they wait) jobs go through the life cycle of `JobLifecycle`.

### The property tables

`QDMIPropertiesProofs`, from `PropertiesAssumption`: clients pass lists of the device's sites,
texts have lengths, `NONE` is no value. `Held` is the value the tables have for a query, at most one
(`HeldOnce`), and `QueryAnswers` shows that the nested cases of the three query functions answer with
it or refuse. `FetchAsAnnounced` is not inductive: `PropInv` adds that an announced size
is that of the value held *now*; `SizesLast` shows that initializing the session
and running jobs change no size, the one value that changes being the status.
`PropertiesTypeCorrect` and `FetchCorrect` follow. `FidelityCorrect` computes the operands
from the tables (`OperandsOfCx`, `OperandsOfRotation`) and compares them with the fidelities.

### The encoding of results

`QDMIResultsProofs`, from `ResultsAssumption`: outputs are basis states, of which there is
at least one, amplitudes are integers (the prover knows nothing of powers, so that
2^`NumQubits` is a positive number is assumed, and TLC checks it).

* `AllRounds`: whatever the rounds of a loop do to a state, there is a function that gives the
  state after each. It rests on `UpTo`, induction up to a number with a *set* for the
  induction hypothesis, and makes the recursive functions `Written` and `hist`
  what their definitions say (`WrittenByLoop`, `HistLoopDefined`).
* `KeysAndValues`: after n elements keys and values hold each non-zero element so far
  once, in order and at its place, and as many as were counted (`Holds`, kept by
  each round: `HoldsMore`). `HistCounts`: the same for the counts of the histogram.
* `JoinedReads`: a list of bitstrings of which each is followed by a comma, the last by a NUL,
  is read back as it is. `TerminatedIsJoined`: writing commas only and overwriting
  the last one gives the same bytes, so what is proved of shots is proved of keys.
* `ItemsFit`: the items written fill the bytes required; those of the sparse probabilities
  when no amplitude is zero.
* `CallAnswers`: every call, whichever encoder it reaches, answers with `Required` and
  `Items` of its kind or refuses; that a client fetches with a size it was told makes this
  the invariant `ResultsInv`.

`ResultsTypeCorrect`, `WrittenCorrect`, `ShotsCorrect`, `HistogramCorrect` and `SparseCorrect`
follow, and `SizeCorrect` for steps.

### What only TLC checks

Liveness, out of the prover's reach: `CallsReturn`, `SysCallsReturn`, `PolledJobEnds`. Every other property of the passing runs is the statement of a theorem.

## 5. What is not modelled

Thread safety (not promised), the wording of messages, the values of physical properties
in FoMaC, use of handles after they were freed, `dlopen` and the file system, and
of the components:

* *Job IDs and random numbers* of the device: a free choice wherever they are drawn. No call of
  this device depends on an ID.
* *A device that changes while a getter reads it*: FoMaC asks for a size and fetches later.
  No device of the repository changes a list at run time.
* *Headers*: enumerations are sets of the modules; the declarations have no behaviour.
* *The template's stubs* beyond `device_initialize`: no caller gets there.
* *The Python package, CMake, packaging, docs and tests*: no program logic of their own.

## 6. Plan

Done: the device, its life cycle and their proofs; the driver, its abstract specification
and the refinement; driver and device together; the property tables; FoMaC and tool; results.
Every safety property of the passing runs is proved. Next:

1. *Device and results*: that the `Result_data` a DONE job of `QDMIDevice` holds is one that
   `QDMIResults` starts from, so that a client decodes the results of its own programs.
2. *Client library*: that the tool's calls are calls the driver's clients may make.
