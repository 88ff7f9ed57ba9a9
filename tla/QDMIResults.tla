----------------------------- MODULE QDMIResults -----------------------------
(***************************************************************************)
(* How the example device hands out the result of one program of a DONE    *)
(* job (cxx_device.cpp, lines 654-879): a client asks for the size of each *)
(* kind of result, then fetches it into a buffer.  The result itself is    *)
(* fixed when the job is submitted.                                        *)
(*                                                                         *)
(* A buffer is what the loops write into it: a sequence of items, each of  *)
(* Width(kind) bytes.  The item of a text is a bitstring, as the number it *)
(* spells, with the character written after it; any other item is a        *)
(* number.  An amplitude is an integer, zero for the amplitude 0, and its  *)
(* norm is its square.                                                     *)
(***************************************************************************)
EXTENDS Integers, Sequences, FiniteSets, Functions

CONSTANTS
  NumQubits,   \* qubits of the device
  Outputs,     \* outputs a shot may show
  Amplitudes,  \* amplitudes a state vector may hold
  ShotCounts,  \* shot counts a client may ask for
  NONE         \* a value that was not written

BasisStates == 2^NumQubits

ASSUME ResultsAssumption ==
  /\ NumQubits \in Nat \ {0}
  /\ BasisStates \in Nat \ {0}
  /\ Outputs \subseteq 0..BasisStates - 1
  /\ Amplitudes \subseteq Int
  /\ ShotCounts \subseteq Nat
  /\ NONE \notin Nat

VARIABLES
  result,  \* CXX_QDMI_Device_Job_impl_d::Result_data of the program
  reply    \* the last reply for each kind, or NONE

vars == <<result, reply>>

StringKinds == {"SHOTS", "HIST_KEYS", "STATEVECTOR_SPARSE_KEYS", "PROBABILITIES_SPARSE_KEYS"}
Kind == StringKinds \cup {"HIST_VALUES", "STATEVECTOR_DENSE", "STATEVECTOR_SPARSE_VALUES",
                          "PROBABILITIES_DENSE", "PROBABILITIES_SPARSE_VALUES"}

\* Bytes per item: a bitstring and a separator, two doubles, or one number.
Width(kind) ==
  IF kind \in StringKinds THEN NumQubits + 1
  ELSE IF kind \in {"STATEVECTOR_DENSE", "STATEVECTOR_SPARSE_VALUES"} THEN 16 ELSE 8

\* What submit stores: every shot shows the same output, and a normalized
\* vector is not zero.
Result_data ==
  [shots: {[i \in 1..n |-> output] : n \in ShotCounts, output \in Outputs},
   state_vec: {v \in [1..BasisStates -> Amplitudes] : \E i \in DOMAIN v : v[i] # 0}]

\* A client reads a list of keys with its list of values, or one kind alone.
Readings == {{"SHOTS"}, {"HIST_KEYS", "HIST_VALUES"}, {"STATEVECTOR_DENSE"},
             {"PROBABILITIES_DENSE"},
             {"STATEVECTOR_SPARSE_KEYS", "STATEVECTOR_SPARSE_VALUES"},
             {"PROBABILITIES_SPARSE_KEYS", "PROBABILITIES_SPARSE_VALUES"}}

\* What a buffer of this kind is made of.
Item(kind) == IF kind \in StringKinds THEN [bits: Int, end: {",", "NUL"}] ELSE Int

\* size is the buffer's size, NONE for a null buffer.
Reply(kind) == [code: {"SUCCESS", "INVALIDARGUMENT"}, size: Nat \cup {NONE},
                size_ret: Nat \cup {NONE}, data: Seq(Item(kind))]

\* The type invariant.
TypeOK ==
  /\ result \in Result_data
  /\ DOMAIN reply \in Readings
  /\ \A kind \in DOMAIN reply : reply[kind] \in Reply(kind) \cup {NONE}

Init ==
  /\ result \in Result_data
  /\ \E reading \in Readings : reply = [kind \in reading |-> NONE]

-----------------------------------------------------------------------------
(* The encoders: each has a required size and a list of items to write *)

\* The common frame: a buffer smaller than req_size is rejected, and size_ret
\* is then as the caller had it, or the required size (rejected).
Answer(kind, size, req_size, items, rejected) ==
  reply' = [reply EXCEPT ![kind] =
    IF size # NONE /\ size < req_size
      THEN [code |-> "INVALIDARGUMENT", size |-> size, size_ret |-> rejected, data |-> <<>>]
      ELSE [code |-> "SUCCESS", size |-> size, size_ret |-> req_size,
            data |-> IF size = NONE THEN <<>> ELSE items]]

\* Mutant: a buffer of exactly the required size is rejected.
Encode_strict(kind, size, req_size, items) ==
  Answer(kind, size, IF size = req_size THEN req_size + 1 ELSE req_size, items, NONE)

Encode(kind, size, req_size, items) == Answer(kind, size, req_size, items, NONE)

\* A bitstring and the character after it.
Ended(bits, end) == [bits |-> bits, end |-> end]

\* A comma after every shot, but a NUL after the last one.
Joined(list) ==
  [i \in 1..Len(list) |-> Ended(list[i], IF i # Len(list) THEN "," ELSE "NUL")]

\* Mutant: the last separator is not counted.
shots_without_terminator(kind, size) ==
  /\ kind = "SHOTS"
  /\ Encode(kind, size, Len(result.shots) * (NumQubits + 1) - 1, Joined(result.shots))

\* Mutant: the NUL is written one shot too early.
shots_terminated_early(kind, size) ==
  /\ kind = "SHOTS"
  /\ LET shots == result.shots
     IN  Encode(kind, size, Len(shots) * (NumQubits + 1),
                [i \in 1..Len(shots) |->
                   Ended(shots[i], IF i + 1 < Len(shots) THEN "," ELSE "NUL")])

Get_results_shots(kind, size) ==
  /\ kind = "SHOTS"
  /\ Encode(kind, size, Len(result.shots) * (NumQubits + 1), Joined(result.shots))

\* The loops over a vector that skip its zeros: the i-th element, if it is not
\* zero, appends items[i] to what the elements before it have written.
Written(items, vector) ==
  LET after[i \in 0..Len(vector)] ==
        IF i = 0 THEN <<>>
        ELSE IF vector[i] # 0 THEN Append(after[i - 1], items[i]) ELSE after[i - 1]
  IN  after[Len(vector)]

Keys(vector) == Written([i \in 1..Len(vector) |-> i - 1], vector)
Values(vector) == Written(vector, vector)
Entries(vector) == Cardinality({i \in 1..Len(vector) : vector[i] # 0})

\* A comma after every key, the last of which then becomes a NUL.
Terminated(list) ==
  [[i \in 1..Len(list) |-> Ended(list[i], ",")] EXCEPT ![Len(list)].end = "NUL"]

\* The histogram, an ordered map from outputs to counts, filled shot by shot; an
\* output it does not hold has the count 0.
hist ==
  LET after[i \in 0..Len(result.shots)] ==
        IF i = 0 THEN [n \in 1..BasisStates |-> 0]
        ELSE [after[i - 1] EXCEPT ![result.shots[i] + 1] = @ + 1]
  IN  after[Len(result.shots)]

\* Mutant: the values are sized by the number of shots.
hist_sized_by_shots(kind, size) ==
  /\ kind = "HIST_VALUES"
  /\ Encode(kind, size, Len(result.shots) * 8, Values(hist))

\* Mutant: every key has the value 1.
hist_counts_keys(kind, size) ==
  \/ /\ kind = "HIST_KEYS"
     /\ Encode(kind, size, Entries(hist) * (NumQubits + 1), Joined(Keys(hist)))
  \/ /\ kind = "HIST_VALUES"
     /\ Encode(kind, size, Entries(hist) * 8, [i \in 1..Entries(hist) |-> 1])

\* size_ret is written before the buffer is checked, and no key is written for a
\* histogram without any.
Get_results_hist(kind, size) ==
  LET Reply_hist(req_size, items) == Answer(kind, size, req_size, items, req_size)
  IN  \/ /\ kind = "HIST_KEYS"
         /\ Reply_hist(Entries(hist) * (NumQubits + 1),
                       IF Entries(hist) = 0 THEN <<>> ELSE Terminated(Keys(hist)))
      \/ /\ kind = "HIST_VALUES"
         /\ Reply_hist(Entries(hist) * 8, Values(hist))

Get_results_statevector(kind, size) ==
  /\ kind = "STATEVECTOR_DENSE"
  /\ Encode(kind, size, Len(result.state_vec) * 16, result.state_vec)

Norms(amplitudes) == [i \in DOMAIN amplitudes |-> amplitudes[i] * amplitudes[i]]
count == Entries(result.state_vec)

\* Mutant: the keys count the basis states from 1.
sparse_keys_from_one(kind, size) ==
  \/ /\ kind \in {"STATEVECTOR_SPARSE_KEYS", "PROBABILITIES_SPARSE_KEYS"}
     /\ Encode(kind, size, count * (NumQubits + 1),
               Terminated(Written([i \in 1..Len(result.state_vec) |-> i], result.state_vec)))
  \/ /\ kind = "STATEVECTOR_SPARSE_VALUES"
     /\ Encode(kind, size, count * 16, Values(result.state_vec))

\* Keys are the basis states with non-zero amplitudes.  The probabilities are
\* sized by these too, but the loop writes those of all basis states.
Get_results_sparse(kind, size) ==
  \/ /\ kind \in {"STATEVECTOR_SPARSE_KEYS", "PROBABILITIES_SPARSE_KEYS"}
     /\ Encode(kind, size, count * (NumQubits + 1), Terminated(Keys(result.state_vec)))
  \/ /\ kind = "STATEVECTOR_SPARSE_VALUES"
     /\ Encode(kind, size, count * 16, Values(result.state_vec))
  \/ /\ kind = "PROBABILITIES_SPARSE_VALUES"
     /\ Encode(kind, size, count * 8, Norms(result.state_vec))

Get_results_probabilities(kind, size) ==
  /\ kind = "PROBABILITIES_DENSE"
  /\ Encode(kind, size, Len(result.state_vec) * 8, Norms(result.state_vec))

\* The dispatch; a buffer of size zero is rejected before it.
get_results(kind, size) ==
  /\ UNCHANGED result
  /\ \/ /\ size = 0
        /\ reply' = [reply EXCEPT ![kind] = [code |-> "INVALIDARGUMENT", size |-> 0,
                                             size_ret |-> NONE, data |-> <<>>]]
     \/ /\ size # 0
        /\ \/ Get_results_shots(kind, size)
           \/ Get_results_hist(kind, size)
           \/ Get_results_statevector(kind, size)
           \/ Get_results_sparse(kind, size)
           \/ Get_results_probabilities(kind, size)

-----------------------------------------------------------------------------
\* The client (device.h:858-866): it asks for the size, then fetches with that
\* size, one byte less or one byte more.
AskSize(kind) == get_results(kind, NONE)

Fetch(kind) ==
  /\ reply[kind] # NONE
  /\ reply[kind].size = NONE
  /\ \E size \in {reply[kind].size_ret - 1, reply[kind].size_ret, reply[kind].size_ret + 1} :
       size >= 0 /\ get_results(kind, size)

Next == \E kind \in DOMAIN reply : AskSize(kind) \/ Fetch(kind)

Spec == Init /\ [][Next]_vars

-----------------------------------------------------------------------------
(* Properties *)

\* The client has a buffer of this kind that the device filled.
Fetched(kind) ==
  /\ kind \in DOMAIN reply
  /\ reply[kind] # NONE
  /\ reply[kind].size # NONE
  /\ reply[kind].code = "SUCCESS"

\* A filled buffer holds exactly the bytes the size query announced, which fit
\* (required sizes and loops of lines 654-842).  Sparse probabilities do when no
\* amplitude is zero: the size counts the non-zero ones, the loop writes all.
WrittenAsAnnounced ==
  \A kind \in DOMAIN reply :
    Fetched(kind) /\ (kind = "PROBABILITIES_SPARSE_VALUES" => 0 \notin Range(result.state_vec)) =>
      /\ Len(reply[kind].data) * Width(kind) = reply[kind].size_ret
      /\ reply[kind].size_ret <= reply[kind].size

\* This step fetches what the client has asked the size of.
Fetching(kind) ==
  reply[kind] # NONE /\ reply[kind].size = NONE /\ reply'[kind].size # NONE

\* A fetch succeeds exactly with a buffer of at least the size the query
\* returned, when that is not zero (each encoder's check of size).
SizeDecides ==
  [][\A kind \in DOMAIN reply :
       Fetching(kind) /\ reply[kind].size_ret # 0 =>
         (reply'[kind].code = "SUCCESS" <=> reply'[kind].size >= reply[kind].size_ret)]_reply

\* The bitstrings a client reads from a text, up to the first NUL; NONE if it
\* finds none and reads on behind the buffer.
Strings(text) ==
  LET nuls == {n \in DOMAIN text : text[n].end = "NUL"}
  IN  IF text = <<>> THEN <<>>
      ELSE IF nuls = {} THEN NONE
      ELSE LET last == CHOOSE n \in nuls : \A m \in nuls : n <= m
           IN  [n \in 1..last |-> text[n].bits]

\* Read as the one string it is, the list of shots is every shot of the job, in
\* the order they were taken (constants.h:1120-1122).
ShotsReadBack ==
  Fetched("SHOTS") => Strings(reply["SHOTS"].data) = result.shots

\* Histogram keys and values pair up: the keys are the outputs that were
\* measured, each with the number of shots that show it (constants.h:1127-1130).
HistogramCountsShots ==
  Fetched("HIST_KEYS") /\ Fetched("HIST_VALUES") =>
    LET keys == Strings(reply["HIST_KEYS"].data)
        values == reply["HIST_VALUES"].data
    IN  /\ Len(keys) = Len(values)
        /\ Range(keys) = Range(result.shots)
        /\ \A i \in DOMAIN keys :
             values[i] = Cardinality({k \in DOMAIN result.shots : result.shots[k] = keys[i]})

\* The vector with values[n] at the basis state keys[n] and 0 elsewhere.
Decode(keys, values) ==
  [i \in 1..BasisStates |->
     IF \E n \in DOMAIN keys : keys[n] = i - 1
       THEN values[CHOOSE n \in DOMAIN keys : keys[n] = i - 1] ELSE 0]

\* The sparse state vector, put together by a client from the two lists, is the
\* dense one (constants.h:1161-1164).
SparseVectorIsDense ==
  Fetched("STATEVECTOR_SPARSE_KEYS") /\ Fetched("STATEVECTOR_SPARSE_VALUES") =>
    Decode(Strings(reply["STATEVECTOR_SPARSE_KEYS"].data), reply["STATEVECTOR_SPARSE_VALUES"].data)
      = result.state_vec

-----------------------------------------------------------------------------
(* What the headers say and the code does not do *)

\* size "must be greater than or equal to the size of the requested result"
\* (device.h:831): a buffer of the size the query returned is large enough.
AnnouncedSizeSuffices ==
  [][\A kind \in DOMAIN reply :
       Fetching(kind) /\ reply'[kind].size = reply[kind].size_ret =>
         reply'[kind].code = "SUCCESS"]_reply
=============================================================================
