--------------------------- MODULE QDMIResultsProofs ---------------------------
(***************************************************************************)
(* Proofs about the encoders of results, for any number of qubits, shots   *)
(* and amplitudes: what their loops write, and how size queries, fetches,  *)
(* keys and values fit together.                                           *)
(***************************************************************************)
EXTENDS QDMIResults, FiniteSetTheorems, SequenceTheorems, WellFoundedInduction, TLAPS

-----------------------------------------------------------------------------
(* Loops *)

\* What holds of 0 and is handed on from each number below N holds up to N.
LEMMA UpTo ==
  ASSUME NEW N \in Nat, NEW S, 0 \in S, \A n \in 0..(N - 1) : n \in S => n + 1 \in S
  PROVE  \A n \in 0..N : n \in S
PROOF
<1> SUFFICES ASSUME NEW bad \in 0..N, bad \notin S PROVE FALSE
  OBVIOUS
<1> DEFINE Bad == {n \in Nat : n \in 0..N /\ n \notin S}
<1>1. Bad \subseteq Nat /\ Bad # {}
  OBVIOUS
<1>2. PICK least \in Bad : \A n \in Bad : ~(n < least)
  <2>1. IsWellFoundedOn(OpToRel(<, Nat), Nat)
    BY NatLessThanWellFounded
  <2>2. \E x \in Bad : \A y \in Bad : ~(<<y, x>> \in OpToRel(<, Nat))
    BY <1>1, <2>1, WFMin
  <2> QED BY <1>1, <2>2 DEF OpToRel
<1>3. least \in 1..N /\ least - 1 \in 0..(N - 1)
  BY <1>2
<1>4. least - 1 \in S
  BY <1>2, <1>3
<1> QED BY <1>2, <1>3, <1>4

\* A loop of N rounds: whatever its rounds do to a state, there is a function
\* that gives the state after each of them.
Rounds(after, N, S, start, round) ==
  /\ after \in [0..N -> S]
  /\ after[0] = start
  /\ \A i \in 1..N : after[i] = round[i][after[i - 1]]

\* One more round.
LEMMA OneRound ==
  ASSUME NEW n \in Nat, NEW S, NEW start, NEW round, NEW f, Rounds(f, n, S, start, round),
         round[n + 1] \in [S -> S]
  PROVE  \E g : Rounds(g, n + 1, S, start, round)
PROOF
<1> DEFINE last == round[n + 1][f[n]]
           g == [i \in 0..(n + 1) |-> IF i = n + 1 THEN last ELSE f[i]]
<1>1. f \in [0..n -> S] /\ f[0] = start
  BY DEF Rounds
<1>2. last \in S
  <2>1. n \in 0..n
    OBVIOUS
  <2>2. f[n] \in S
    BY <1>1, <2>1
  <2> QED BY <2>2
<1> HIDE DEF last
<1>3. \A i \in 0..(n + 1) : (IF i = n + 1 THEN last ELSE f[i]) \in S
  <2> TAKE i \in 0..(n + 1)
  <2>1. CASE i = n + 1
    BY <1>2, <2>1
  <2>2. CASE i # n + 1
    <3>1. i \in 0..n
      BY <2>2
    <3> QED BY <1>1, <2>2, <3>1
  <2> QED BY <2>1, <2>2
<1>4. g \in [0..(n + 1) -> S]
  BY <1>3
<1>5. g[n + 1] = last /\ \A i \in 0..n : g[i] = f[i]
  <2>1. n + 1 \in 0..(n + 1) /\ \A i \in 0..n : i \in 0..(n + 1) /\ i # n + 1
    OBVIOUS
  <2> QED BY <2>1
<1>6. g[0] = start
  BY <1>1, <1>5
<1> HIDE DEF g
<1>7. ASSUME NEW i \in 1..(n + 1) PROVE g[i] = round[i][g[i - 1]]
  <2>1. CASE i = n + 1
    <3>1. i - 1 = n /\ n \in 0..n
      BY <2>1
    <3>2. g[i - 1] = f[n] /\ g[i] = last
      BY <1>5, <2>1, <3>1
    <3> QED BY <2>1, <3>2 DEF last
  <2>2. CASE i # n + 1
    <3>1. i \in 1..n /\ i - 1 \in 0..n /\ i \in 0..n
      BY <2>2
    <3>2. g[i] = f[i] /\ g[i - 1] = f[i - 1]
      BY <1>5, <3>1
    <3>3. f[i] = round[i][f[i - 1]]
      BY <3>1 DEF Rounds
    <3> QED BY <3>2, <3>3
  <2> QED BY <2>1, <2>2
<1>8. Rounds(g, n + 1, S, start, round)
  BY <1>4, <1>6, <1>7 DEF Rounds
<1> QED BY <1>8

\* All N of them.
LEMMA AllRounds ==
  ASSUME NEW N \in Nat, NEW S, NEW start \in S, NEW round \in [1..N -> [S -> S]]
  PROVE  \E after : Rounds(after, N, S, start, round)
PROOF
<1> DEFINE Good == {n \in 0..N : \E f : Rounds(f, n, S, start, round)}
<1>1. 0 \in Good
  <2> DEFINE none == [i \in 0..0 |-> start]
  <2>1. none \in [0..0 -> S] /\ none[0] = start
    OBVIOUS
  <2> HIDE DEF none
  <2>2. Rounds(none, 0, S, start, round)
    BY <2>1 DEF Rounds
  <2> QED BY <2>2
<1>2. ASSUME NEW n \in 0..(N - 1), n \in Good PROVE n + 1 \in Good
  <2>1. PICK f : Rounds(f, n, S, start, round)
    BY <1>2
  <2>2. n \in Nat /\ n + 1 \in 0..N /\ n + 1 \in 1..N
    OBVIOUS
  <2>3. \E g : Rounds(g, n + 1, S, start, round)
    BY <2>1, <2>2, OneRound
  <2> QED BY <2>2, <2>3
<1>3. \A n \in 0..N : n \in Good
  <2> HIDE DEF Good
  <2> QED BY <1>1, <1>2, UpTo
<1> QED BY <1>3

-----------------------------------------------------------------------------
(* The loops over a vector that skip its zeros *)

\* after[i] is what such a loop has written after the i-th element.
Loop(after, items, vector) ==
  after = [i \in 0..Len(vector) |->
             IF i = 0 THEN <<>>
             ELSE IF vector[i] # 0 THEN Append(after[i - 1], items[i]) ELSE after[i - 1]]

\* The same, said of the rounds one at a time.
LoopOver(after, S, items, vector) ==
  /\ after \in [0..Len(vector) -> Seq(S)]
  /\ after[0] = <<>>
  /\ \A i \in 1..Len(vector) :
       after[i] = IF vector[i] # 0 THEN Append(after[i - 1], items[i]) ELSE after[i - 1]

\* The loop is defined, whatever it writes.
LEMMA LoopDefined ==
  ASSUME NEW S, NEW vector \in Seq(Int), NEW items \in [1..Len(vector) -> S]
  PROVE  \E after : Loop(after, items, vector)
PROOF
<1> DEFINE N == Len(vector)
           round == [i \in 1..N |-> [s \in Seq(S) |-> IF vector[i] # 0 THEN Append(s, items[i]) ELSE s]]
<1>1. N \in Nat
  OBVIOUS
<1>2. round \in [1..N -> [Seq(S) -> Seq(S)]]
  <2>1. ASSUME NEW i \in 1..N, NEW s \in Seq(S)
        PROVE  (IF vector[i] # 0 THEN Append(s, items[i]) ELSE s) \in Seq(S)
    <3>1. items[i] \in S
      OBVIOUS
    <3> QED BY <3>1
  <2> QED BY <2>1
<1>3. PICK f : Rounds(f, N, Seq(S), <<>>, round)
  <2>1. <<>> \in Seq(S)
    OBVIOUS
  <2> HIDE DEF N, round
  <2> QED BY <1>1, <1>2, <2>1, AllRounds
<1>4. f \in [0..N -> Seq(S)] /\ f[0] = <<>> /\ \A i \in 1..N : f[i] = round[i][f[i - 1]]
  BY <1>3 DEF Rounds
<1>5. ASSUME NEW i \in 0..N
      PROVE  f[i] = IF i = 0 THEN <<>>
                    ELSE IF vector[i] # 0 THEN Append(f[i - 1], items[i]) ELSE f[i - 1]
  <2>1. CASE i = 0
    BY <1>4, <2>1
  <2>2. CASE i # 0
    <3>1. i \in 1..N /\ i - 1 \in 0..N
      BY <1>1, <2>2
    <3>2. f[i] = round[i][f[i - 1]] /\ f[i - 1] \in Seq(S)
      BY <1>4, <3>1
    <3> QED BY <2>2, <3>1, <3>2
  <2> QED BY <2>1, <2>2
<1>6. f = [i \in 0..N |-> IF i = 0 THEN <<>>
                          ELSE IF vector[i] # 0 THEN Append(f[i - 1], items[i]) ELSE f[i - 1]]
  BY <1>4, <1>5
<1> QED BY <1>6 DEF Loop

\* Written is what such a loop has written in the end.
LEMMA WrittenByLoop ==
  ASSUME NEW S, NEW vector \in Seq(Int), NEW items \in [1..Len(vector) -> S]
  PROVE  \E after : /\ LoopOver(after, S, items, vector)
                    /\ Written(items, vector) = after[Len(vector)]
PROOF
<1> DEFINE N == Len(vector)
           loop == CHOOSE after : Loop(after, items, vector)
           Good == {n \in 0..N : loop[n] \in Seq(S)}
<1>1. Written(items, vector) = loop[N]
  BY DEF Written, Loop
<1>2. Loop(loop, items, vector)
  <2>1. \E after : Loop(after, items, vector)
    BY LoopDefined
  <2> QED BY <2>1
<1> HIDE DEF loop
<1>3. N \in Nat
  OBVIOUS
<1>4. \A i \in 0..N : loop[i] = IF i = 0 THEN <<>>
                                ELSE IF vector[i] # 0 THEN Append(loop[i - 1], items[i]) ELSE loop[i - 1]
  BY <1>2 DEF Loop
<1>5. 0 \in Good
  <2>1. 0 \in 0..N
    BY <1>3
  <2>2. loop[0] = <<>>
    BY <1>4, <2>1
  <2>3. loop[0] \in Seq(S)
    BY <2>2
  <2> QED BY <2>1, <2>3
<1>6. ASSUME NEW i \in 1..N
      PROVE  loop[i] = IF vector[i] # 0 THEN Append(loop[i - 1], items[i]) ELSE loop[i - 1]
  <2>1. i \in 0..N /\ i # 0
    BY <1>3
  <2> QED BY <1>4, <2>1
<1>7. ASSUME NEW n \in 0..(N - 1), n \in Good PROVE n + 1 \in Good
  <2>1. n + 1 \in 0..N /\ n + 1 \in 1..N /\ (n + 1) - 1 = n
    BY <1>3
  <2>2. items[n + 1] \in S /\ loop[n] \in Seq(S)
    BY <1>7, <2>1
  <2>3. loop[n + 1] = IF vector[n + 1] # 0 THEN Append(loop[n], items[n + 1]) ELSE loop[n]
    BY <1>6, <2>1
  <2>4. loop[n + 1] \in Seq(S)
    BY <2>2, <2>3
  <2> QED BY <2>1, <2>4
<1>8. \A n \in 0..N : loop[n] \in Seq(S)
  <2>1. \A n \in 0..N : n \in Good
    <3> HIDE DEF Good, N
    <3> QED BY <1>3, <1>5, <1>7, UpTo
  <2> QED BY <2>1
<1>9. loop = [i \in 0..N |-> loop[i]]
  BY <1>2 DEF Loop
<1>10. LoopOver(loop, S, items, vector)
  <2>1. loop[0] = <<>>
    BY <1>3, <1>4
  <2>2. loop \in [0..Len(vector) -> Seq(S)]
    BY <1>8, <1>9
  <2> QED BY <1>6, <2>1, <2>2 DEF LoopOver
<1> QED BY <1>1, <1>10

\* What keys and values hold after the first n elements: every element that is
\* not zero, at its place, in order, and no other.
Holds(keys, values, vector, n) ==
  /\ Len(keys) = Len(values)
  /\ Len(keys) = Cardinality({i \in 1..n : vector[i] # 0})
  /\ \A m \in 1..Len(keys) :
       keys[m] \in 0..(n - 1) /\ vector[keys[m] + 1] # 0 /\ values[m] = vector[keys[m] + 1]
  /\ \A i \in 1..n : vector[i] # 0 => \E m \in 1..Len(keys) : keys[m] = i - 1
  /\ \A m1, m2 \in 1..Len(keys) : m1 < m2 => keys[m1] < keys[m2]

LEMMA HoldsMore ==
  ASSUME NEW vector \in Seq(Int), NEW n \in 0..(Len(vector) - 1),
         NEW keys \in Seq(Int), NEW values \in Seq(Int), Holds(keys, values, vector, n)
  PROVE  Holds(IF vector[n + 1] # 0 THEN Append(keys, n) ELSE keys,
               IF vector[n + 1] # 0 THEN Append(values, vector[n + 1]) ELSE values, vector, n + 1)
PROOF
<1> DEFINE At(k) == {i \in 1..k : vector[i] # 0}
<1>0. n \in Nat /\ vector[n + 1] \in Int
  OBVIOUS
<1>1. IsFiniteSet(At(n))
  <2>1. IsFiniteSet(1..n) /\ At(n) \subseteq 1..n
    BY <1>0, FS_Interval
  <2> QED BY <2>1, FS_Subset
<1>2. CASE vector[n + 1] = 0
  <2>1. At(n + 1) = At(n)
    BY <1>0, <1>2
  <2>2. Holds(keys, values, vector, n + 1)
    <3>1. Len(keys) = Len(values) /\ Len(keys) = Cardinality(At(n + 1))
      BY <2>1 DEF Holds
    <3>2. \A m \in 1..Len(keys) :
            keys[m] \in 0..n /\ vector[keys[m] + 1] # 0 /\ values[m] = vector[keys[m] + 1]
      BY <1>0 DEF Holds
    <3>3. ASSUME NEW i \in 1..(n + 1), vector[i] # 0
          PROVE  \E m \in 1..Len(keys) : keys[m] = i - 1
      <4>1. i \in 1..n
        BY <1>0, <1>2, <3>3
      <4> QED BY <3>3, <4>1 DEF Holds
    <3>4. \A m1, m2 \in 1..Len(keys) : m1 < m2 => keys[m1] < keys[m2]
      BY DEF Holds
    <3>5. (n + 1) - 1 = n
      BY <1>0
    <3> QED BY <3>1, <3>2, <3>3, <3>4, <3>5 DEF Holds
  <2> QED BY <1>2, <2>2
<1>3. CASE vector[n + 1] # 0
  <2> DEFINE more == Append(keys, n)
             longer == Append(values, vector[n + 1])
             len == Len(keys)
  <2>1. /\ len \in Nat /\ Len(more) = len + 1 /\ Len(longer) = Len(values) + 1
        /\ \A m \in 1..len : more[m] = keys[m]
        /\ \A m \in 1..Len(values) : longer[m] = values[m]
        /\ more[len + 1] = n /\ longer[Len(values) + 1] = vector[n + 1]
    BY <1>0
  <2>2. Len(values) = len /\ len = Cardinality(At(n))
    BY DEF Holds
  <2>3. \A m \in 1..len :
          keys[m] \in 0..(n - 1) /\ vector[keys[m] + 1] # 0 /\ values[m] = vector[keys[m] + 1]
    BY DEF Holds
  <2>4. \A i \in 1..n : vector[i] # 0 => \E m \in 1..len : keys[m] = i - 1
    BY DEF Holds
  <2>5. \A m1, m2 \in 1..len : m1 < m2 => keys[m1] < keys[m2]
    BY DEF Holds
  <2> HIDE DEF more, longer, len
  <2>6. Len(more) = Cardinality(At(n + 1))
    <3>1. At(n + 1) = At(n) \cup {n + 1} /\ n + 1 \notin At(n)
      BY <1>0, <1>3
    <3>2. Cardinality(At(n) \cup {n + 1}) = Cardinality(At(n)) + 1
      <4> HIDE DEF At
      <4> QED BY <1>1, <3>1, FS_AddElement
    <3> QED BY <2>1, <2>2, <3>1, <3>2
  <2>7. ASSUME NEW m \in 1..(len + 1)
        PROVE  more[m] \in 0..n /\ vector[more[m] + 1] # 0 /\ longer[m] = vector[more[m] + 1]
    <3>1. CASE m = len + 1
      BY <1>0, <1>3, <2>1, <2>2, <3>1
    <3>2. CASE m # len + 1
      <4>1. m \in 1..len
        BY <2>1, <3>2
      <4>2. more[m] = keys[m] /\ longer[m] = values[m]
        BY <2>1, <2>2, <4>1
      <4> QED BY <1>0, <2>3, <4>1, <4>2
    <3> QED BY <3>1, <3>2
  <2>8. ASSUME NEW i \in 1..(n + 1), vector[i] # 0 PROVE \E m \in 1..(len + 1) : more[m] = i - 1
    <3>1. CASE i = n + 1
      <4>1. len + 1 \in 1..(len + 1) /\ more[len + 1] = i - 1
        BY <1>0, <2>1, <3>1
      <4> QED BY <4>1
    <3>2. CASE i # n + 1
      <4>1. i \in 1..n
        BY <1>0, <3>2
      <4>2. PICK m \in 1..len : keys[m] = i - 1
        BY <2>4, <2>8, <4>1
      <4>3. m \in 1..(len + 1) /\ more[m] = keys[m]
        BY <2>1, <4>2
      <4> QED BY <4>2, <4>3
    <3> QED BY <3>1, <3>2
  <2>9. ASSUME NEW m1 \in 1..(len + 1), NEW m2 \in 1..(len + 1), m1 < m2
        PROVE  more[m1] < more[m2]
    <3>1. m1 \in 1..len /\ more[m1] = keys[m1]
      BY <2>1, <2>9
    <3>2. CASE m2 = len + 1
      <4>1. more[m2] = n /\ keys[m1] \in 0..(n - 1)
        BY <2>1, <2>3, <3>1, <3>2
      <4> QED BY <1>0, <3>1, <4>1
    <3>3. CASE m2 # len + 1
      <4>1. m2 \in 1..len /\ more[m2] = keys[m2]
        BY <2>1, <3>3
      <4> QED BY <2>5, <2>9, <3>1, <4>1
    <3> QED BY <3>2, <3>3
  <2>10. Holds(more, longer, vector, n + 1)
    <3>1. (n + 1) - 1 = n /\ Len(more) = len + 1 /\ Len(longer) = Len(more)
      BY <1>0, <2>1, <2>2
    <3> QED BY <2>6, <2>7, <2>8, <2>9, <3>1 DEF Holds
  <2> QED BY <1>3, <2>10 DEF more, longer
<1> QED BY <1>2, <1>3

\* So the loops over a vector write its non-zero elements: Keys their positions,
\* Values themselves.
LEMMA KeysAndValues ==
  ASSUME NEW vector \in Seq(Int)
  PROVE  /\ Keys(vector) \in Seq(Int)
         /\ Values(vector) \in Seq(Int)
         /\ Holds(Keys(vector), Values(vector), vector, Len(vector))
PROOF
<1> DEFINE N == Len(vector)
           places == [i \in 1..N |-> i - 1]
<1>1. N \in Nat /\ places \in [1..N -> Int] /\ vector \in [1..N -> Int]
  OBVIOUS
<1>2. PICK keys : LoopOver(keys, Int, places, vector) /\ Keys(vector) = keys[N]
  BY <1>1, WrittenByLoop DEF Keys
<1>3. PICK values : LoopOver(values, Int, vector, vector) /\ Values(vector) = values[N]
  BY <1>1, WrittenByLoop DEF Values
<1> DEFINE Good == {n \in 0..N : Holds(keys[n], values[n], vector, n)}
<1>4. /\ keys \in [0..N -> Seq(Int)] /\ keys[0] = <<>>
      /\ \A i \in 1..N : keys[i] = IF vector[i] # 0 THEN Append(keys[i - 1], places[i]) ELSE keys[i - 1]
  BY <1>2 DEF LoopOver
<1>5. /\ values \in [0..N -> Seq(Int)] /\ values[0] = <<>>
      /\ \A i \in 1..N : values[i] = IF vector[i] # 0 THEN Append(values[i - 1], vector[i]) ELSE values[i - 1]
  BY <1>3 DEF LoopOver
<1>6. 0 \in Good
  <2>1. Cardinality({i \in 1..0 : vector[i] # 0}) = 0
    <3>1. {i \in 1..0 : vector[i] # 0} = {}
      OBVIOUS
    <3> QED BY <3>1, FS_EmptySet
  <2>2. Holds(<<>>, <<>>, vector, 0)
    BY <2>1 DEF Holds
  <2> QED BY <1>1, <1>4, <1>5, <2>2
<1>7. ASSUME NEW n \in 0..(N - 1), n \in Good PROVE n + 1 \in Good
  <2>1. n \in 0..N /\ n + 1 \in 0..N /\ n + 1 \in 1..N /\ (n + 1) - 1 = n
    BY <1>1
  <2>2. keys[n] \in Seq(Int) /\ values[n] \in Seq(Int) /\ Holds(keys[n], values[n], vector, n)
    BY <1>4, <1>5, <1>7, <2>1
  <2>3. places[n + 1] = n
    BY <2>1
  <2>4. /\ keys[n + 1] = IF vector[n + 1] # 0 THEN Append(keys[n], n) ELSE keys[n]
        /\ values[n + 1] = IF vector[n + 1] # 0 THEN Append(values[n], vector[n + 1]) ELSE values[n]
    BY <1>4, <1>5, <2>1, <2>3
  <2>5. Holds(keys[n + 1], values[n + 1], vector, n + 1)
    BY <2>2, <2>4, HoldsMore
  <2> QED BY <2>1, <2>5
<1>8. N \in Good
  <2>1. \A n \in 0..N : n \in Good
    <3> HIDE DEF Good, N
    <3> QED BY <1>1, <1>6, <1>7, UpTo
  <2> QED BY <1>1, <2>1
<1>9. keys[N] \in Seq(Int) /\ values[N] \in Seq(Int)
  BY <1>1, <1>4, <1>5
<1> QED BY <1>2, <1>3, <1>8, <1>9

-----------------------------------------------------------------------------
(* The histogram *)

Histogram == [1..BasisStates -> Nat]

\* after[i] is the histogram of the first i shots.
HistLoop(after, shots) ==
  after = [i \in 0..Len(shots) |->
             IF i = 0 THEN [n \in 1..BasisStates |-> 0]
             ELSE [after[i - 1] EXCEPT ![shots[i] + 1] = @ + 1]]

\* histogram counts each output among the first n shots.
Counts(histogram, shots, n) ==
  /\ histogram \in Histogram
  /\ \A o \in 0..(BasisStates - 1) :
       histogram[o + 1] = Cardinality({k \in 1..n : shots[k] = o})

\* A shot is counted once, in the count of its output.
LEMMA CountsMore ==
  ASSUME NEW shots \in Seq(0..(BasisStates - 1)), NEW n \in 0..(Len(shots) - 1),
         NEW h, Counts(h, shots, n)
  PROVE  Counts([h EXCEPT ![shots[n + 1] + 1] = @ + 1], shots, n + 1)
PROOF
<1> DEFINE At(o, k) == {i \in 1..k : shots[i] = o}
           shot == shots[n + 1]
           more == [h EXCEPT ![shot + 1] = @ + 1]
<1>0. n \in Nat /\ n + 1 \in 1..Len(shots) /\ BasisStates \in Nat \ {0}
  BY ResultsAssumption
<1>1. shot \in 0..(BasisStates - 1) /\ shot + 1 \in 1..BasisStates
  BY <1>0
<1>2. h \in [1..BasisStates -> Nat] /\ \A o \in 0..(BasisStates - 1) : h[o + 1] = Cardinality(At(o, n))
  BY DEF Counts, Histogram
<1> HIDE DEF shot
<1>3. /\ more \in [1..BasisStates -> Nat]
      /\ more[shot + 1] = h[shot + 1] + 1
      /\ \A j \in 1..BasisStates : j # shot + 1 => more[j] = h[j]
  BY <1>1, <1>2
<1> HIDE DEF more
<1>4. ASSUME NEW o \in 0..(BasisStates - 1) PROVE more[o + 1] = Cardinality(At(o, n + 1))
  <2>1. o + 1 \in 1..BasisStates
    BY <1>0
  <2>2. CASE o = shot
    <3>1. At(o, n + 1) = At(o, n) \cup {n + 1} /\ n + 1 \notin At(o, n)
      BY <1>0, <2>2 DEF shot
    <3>2. IsFiniteSet(At(o, n))
      <4>1. IsFiniteSet(1..n) /\ At(o, n) \subseteq 1..n
        BY <1>0, FS_Interval
      <4> QED BY <4>1, FS_Subset
    <3>3. Cardinality(At(o, n) \cup {n + 1}) = Cardinality(At(o, n)) + 1
      <4> HIDE DEF At
      <4> QED BY <3>1, <3>2, FS_AddElement
    <3>4. more[o + 1] = h[o + 1] + 1 /\ h[o + 1] = Cardinality(At(o, n))
      BY <1>2, <1>3, <2>2
    <3> QED BY <3>1, <3>3, <3>4
  <2>3. CASE o # shot
    <3>1. At(o, n + 1) = At(o, n)
      BY <1>0, <2>3 DEF shot
    <3>2. o + 1 # shot + 1
      BY <1>0, <1>1, <2>3
    <3>3. more[o + 1] = h[o + 1] /\ h[o + 1] = Cardinality(At(o, n))
      BY <1>2, <1>3, <2>1, <3>2
    <3> QED BY <3>1, <3>3
  <2> QED BY <2>2, <2>3
<1>5. Counts(more, shots, n + 1)
  BY <1>3, <1>4 DEF Counts, Histogram
<1> QED BY <1>5 DEF more, shot

\* The loop is defined.
LEMMA HistLoopDefined ==
  ASSUME NEW shots \in Seq(0..(BasisStates - 1))
  PROVE  \E after : HistLoop(after, shots)
PROOF
<1> DEFINE N == Len(shots)
           zero == [n \in 1..BasisStates |-> 0]
           round == [i \in 1..N |-> [h \in Histogram |-> [h EXCEPT ![shots[i] + 1] = @ + 1]]]
<1>1. N \in Nat /\ zero \in Histogram
  BY DEF Histogram
<1>2. round \in [1..N -> [Histogram -> Histogram]]
  <2>1. ASSUME NEW i \in 1..N, NEW h \in Histogram
        PROVE  [h EXCEPT ![shots[i] + 1] = @ + 1] \in Histogram
    <3>1. shots[i] + 1 \in 1..BasisStates
      BY ResultsAssumption
    <3> QED BY <3>1 DEF Histogram
  <2> QED BY <2>1
<1>3. PICK f : Rounds(f, N, Histogram, zero, round)
  <2> HIDE DEF N, round, zero
  <2> QED BY <1>1, <1>2, AllRounds
<1>4. f \in [0..N -> Histogram] /\ f[0] = zero /\ \A i \in 1..N : f[i] = round[i][f[i - 1]]
  BY <1>3 DEF Rounds
<1>5. ASSUME NEW i \in 0..N
      PROVE  f[i] = IF i = 0 THEN zero ELSE [f[i - 1] EXCEPT ![shots[i] + 1] = @ + 1]
  <2>1. CASE i = 0
    BY <1>4, <2>1
  <2>2. CASE i # 0
    <3>1. i \in 1..N /\ i - 1 \in 0..N
      BY <1>1, <2>2
    <3>2. f[i] = round[i][f[i - 1]] /\ f[i - 1] \in Histogram
      BY <1>4, <3>1
    <3> QED BY <2>2, <3>1, <3>2
  <2> QED BY <2>1, <2>2
<1>6. f = [i \in 0..N |-> IF i = 0 THEN zero ELSE [f[i - 1] EXCEPT ![shots[i] + 1] = @ + 1]]
  <2> HIDE DEF zero
  <2> QED BY <1>4, <1>5
<1> QED BY <1>6 DEF HistLoop

\* The histogram of the shots counts each output among them.
LEMMA HistCounts ==
  ASSUME result.shots \in Seq(0..(BasisStates - 1))
  PROVE  Counts(hist, result.shots, Len(result.shots))
PROOF
<1> DEFINE shots == result.shots
           N == Len(shots)
           loop == CHOOSE after : HistLoop(after, shots)
           Good == {n \in 0..N : Counts(loop[n], shots, n)}
<1>1. hist = loop[N]
  BY DEF hist, HistLoop
<1>2. HistLoop(loop, shots)
  <2>1. \E after : HistLoop(after, shots)
    BY HistLoopDefined
  <2> QED BY <2>1
<1> HIDE DEF loop
<1>3. N \in Nat
  OBVIOUS
<1>4. \A i \in 0..N : loop[i] = IF i = 0 THEN [n \in 1..BasisStates |-> 0]
                                ELSE [loop[i - 1] EXCEPT ![shots[i] + 1] = @ + 1]
  BY <1>2 DEF HistLoop
<1>5. 0 \in Good
  <2> DEFINE zero == [n \in 1..BasisStates |-> 0]
  <2>1. 0 \in 0..N
    BY <1>3
  <2>2. loop[0] = zero
    BY <1>4, <2>1
  <2>3. ASSUME NEW o \in 0..(BasisStates - 1)
        PROVE  zero[o + 1] = Cardinality({k \in 1..0 : shots[k] = o})
    <3>1. {k \in 1..0 : shots[k] = o} = {} /\ o + 1 \in 1..BasisStates
      BY ResultsAssumption
    <3> QED BY <3>1, FS_EmptySet
  <2>4. zero \in Histogram
    BY DEF Histogram
  <2>5. Counts(zero, shots, 0)
    <3> HIDE DEF zero, shots
    <3> QED BY <2>3, <2>4 DEF Counts
  <2> QED BY <2>1, <2>2, <2>5
<1>6. ASSUME NEW n \in 0..(N - 1), n \in Good PROVE n + 1 \in Good
  <2>1. n + 1 \in 0..N /\ n + 1 # 0 /\ (n + 1) - 1 = n
    BY <1>3
  <2>2. Counts(loop[n], shots, n)
    BY <1>6
  <2>3. loop[n + 1] = [loop[n] EXCEPT ![shots[n + 1] + 1] = @ + 1]
    BY <1>4, <2>1
  <2>4. Counts(loop[n + 1], shots, n + 1)
    BY <2>2, <2>3, CountsMore
  <2> QED BY <2>1, <2>4
<1>7. N \in Good
  <2>1. \A n \in 0..N : n \in Good
    <3> HIDE DEF Good, N
    <3> QED BY <1>3, <1>5, <1>6, UpTo
  <2> QED BY <1>3, <2>1
<1> QED BY <1>1, <1>7

-----------------------------------------------------------------------------
(* What each kind of result requires and writes *)

\* The bytes a kind requires.
Required(kind) ==
  IF kind = "SHOTS" THEN Len(result.shots) * (NumQubits + 1)
  ELSE IF kind = "HIST_KEYS" THEN Entries(hist) * (NumQubits + 1)
  ELSE IF kind = "HIST_VALUES" THEN Entries(hist) * 8
  ELSE IF kind = "STATEVECTOR_DENSE" THEN Len(result.state_vec) * 16
  ELSE IF kind = "PROBABILITIES_DENSE" THEN Len(result.state_vec) * 8
  ELSE IF kind = "STATEVECTOR_SPARSE_VALUES" THEN count * 16
  ELSE IF kind = "PROBABILITIES_SPARSE_VALUES" THEN count * 8
  ELSE count * (NumQubits + 1)

\* The items it writes.
Items(kind) ==
  IF kind = "SHOTS" THEN Joined(result.shots)
  ELSE IF kind = "HIST_KEYS" THEN Joined(Keys(hist))
  ELSE IF kind = "HIST_VALUES" THEN Values(hist)
  ELSE IF kind = "STATEVECTOR_DENSE" THEN result.state_vec
  ELSE IF kind \in {"PROBABILITIES_DENSE", "PROBABILITIES_SPARSE_VALUES"} THEN Norms(result.state_vec)
  ELSE IF kind = "STATEVECTOR_SPARSE_VALUES" THEN Values(result.state_vec)
  ELSE Joined(Keys(result.state_vec))

\* A function on 1..n is a sequence of length n.
LEMMA FunctionIsSeq ==
  ASSUME NEW S, NEW n \in Nat, NEW f \in [1..n -> S]
  PROVE  f \in Seq(S) /\ Len(f) = n
PROOF
OBVIOUS

\* An item of a text.
TextItem == [bits: Int, end: {",", "NUL"}]

\* What an item is made of.
LEMMA EndedFields == ASSUME NEW b, NEW c PROVE Ended(b, c).bits = b /\ Ended(b, c).end = c
PROOF
BY DEF Ended

LEMMA EndedType ==
  ASSUME NEW b \in Int, NEW c \in {",", "NUL"} PROVE Ended(b, c) \in TextItem
PROOF
BY DEF Ended, TextItem

\* Another character at its end.
LEMMA EndedAnew == ASSUME NEW b, NEW c, NEW d PROVE [Ended(b, c) EXCEPT !.end = d] = Ended(b, d)
PROOF
BY DEF Ended

\* A list that is joined is read back as it was, with one item per bitstring.
LEMMA JoinedReads ==
  ASSUME NEW list \in Seq(Int)
  PROVE  /\ Joined(list) \in Seq(TextItem)
         /\ Len(Joined(list)) = Len(list)
         /\ Strings(Joined(list)) = list
PROOF
<1> DEFINE n == Len(list)
           text == Joined(list)
           End(i) == IF i # n THEN "," ELSE "NUL"
           Bits(i) == text[i].bits
           Stop(i) == text[i].end
<1>1. n \in Nat /\ list \in [1..n -> Int] /\ list = [i \in 1..n |-> list[i]]
  OBVIOUS
<1>2. text = [i \in 1..n |-> Ended(list[i], End(i))]
  BY DEF Joined
<1>3. \A i \in 1..n : End(i) \in {",", "NUL"} /\ (End(i) = "NUL" <=> i = n)
  OBVIOUS
<1> HIDE DEF text, End
<1>4. ASSUME NEW i \in 1..n PROVE text[i] = Ended(list[i], End(i))
  BY <1>2
<1>5. ASSUME NEW i \in 1..n PROVE text[i] \in TextItem
  <2>1. list[i] \in Int /\ End(i) \in {",", "NUL"}
    BY <1>1, <1>3
  <2>2. Ended(list[i], End(i)) \in TextItem
    BY <2>1, EndedType
  <2> QED BY <1>4, <2>2
<1>6. ASSUME NEW i \in 1..n PROVE Bits(i) = list[i] /\ Stop(i) = End(i)
  <2>1. text[i] = Ended(list[i], End(i))
    BY <1>4
  <2>2. Ended(list[i], End(i)).bits = list[i] /\ Ended(list[i], End(i)).end = End(i)
    BY EndedFields, Zenon
  <2> QED BY <2>1, <2>2, Zenon
<1>7. text \in Seq(TextItem) /\ Len(text) = n /\ DOMAIN text = 1..n
  <2>1. text \in [1..n -> TextItem]
    BY <1>2, <1>5
  <2> QED BY <1>1, <2>1, FunctionIsSeq
<1>8. Strings(text) = list
  <2> DEFINE nuls == {i \in DOMAIN text : Stop(i) = "NUL"}
             last == CHOOSE i \in nuls : \A m \in nuls : i <= m
  <2>1. Strings(text) = IF text = <<>> THEN <<>>
                        ELSE IF nuls = {} THEN NONE ELSE [i \in 1..last |-> Bits(i)]
    BY Zenon DEF Strings
  <2> HIDE DEF Stop, Bits
  <2>2. CASE n = 0
    <3>1. text = <<>> /\ list = <<>>
      BY <1>7, <2>2
    <3> QED BY <2>1, <3>1
  <2>3. CASE n # 0
    <3>1. nuls = {n} /\ text # <<>>
      <4>1. ASSUME NEW i \in 1..n PROVE Stop(i) = "NUL" <=> i = n
        <5>1. Stop(i) = End(i) /\ (End(i) = "NUL" <=> i = n)
          BY <1>3, <1>6
        <5> QED BY <5>1
      <4>2. n \in 1..n
        BY <1>1, <2>3
      <4>3. nuls = {n}
        BY <1>7, <4>1, <4>2
      <4>4. text # <<>>
        BY <1>7, <2>3
      <4> QED BY <4>3, <4>4
    <3>2. last = n
      <4>1. \E i \in nuls : \A m \in nuls : i <= m
        BY <1>1, <3>1
      <4>2. last \in nuls
        BY <4>1
      <4> QED BY <3>1, <4>2
    <3>3. Strings(text) = [i \in 1..last |-> Bits(i)]
      <4> HIDE DEF nuls, last
      <4> QED BY <2>1, <3>1
    <3>4. [i \in 1..n |-> Bits(i)] = [i \in 1..n |-> list[i]]
      BY <1>6
    <3> QED BY <1>1, <3>2, <3>3, <3>4
  <2> QED BY <2>2, <2>3
<1> QED BY <1>7, <1>8 DEF text

\* The encoders of keys join them, too: they write commas only and replace the
\* last one.
LEMMA TerminatedIsJoined ==
  ASSUME NEW list \in Seq(Int)
  PROVE  Terminated(list) = Joined(list)
PROOF
<1> DEFINE n == Len(list)
           commas == [i \in 1..n |-> Ended(list[i], ",")]
<1>1. Terminated(list) = [i \in 1..n |-> IF i = n THEN [commas[i] EXCEPT !.end = "NUL"] ELSE commas[i]]
  BY DEF Terminated
<1>2. ASSUME NEW i \in 1..n
      PROVE  (IF i = n THEN [commas[i] EXCEPT !.end = "NUL"] ELSE commas[i])
               = Ended(list[i], IF i # n THEN "," ELSE "NUL")
  <2>1. commas[i] = Ended(list[i], ",")
    OBVIOUS
  <2>2. [commas[i] EXCEPT !.end = "NUL"] = Ended(list[i], "NUL")
    <3>1. [commas[i] EXCEPT !.end = "NUL"] = [Ended(list[i], ",") EXCEPT !.end = "NUL"]
      BY <2>1, Zenon
    <3>2. [Ended(list[i], ",") EXCEPT !.end = "NUL"] = Ended(list[i], "NUL")
      BY EndedAnew, Zenon
    <3> QED BY <3>1, <3>2, Zenon
  <2> HIDE DEF commas
  <2> QED BY <2>1, <2>2
<1> HIDE DEF commas
<1> QED BY <1>1, <1>2 DEF Joined

\* Norms keep the length.
LEMMA NormsType ==
  ASSUME NEW n \in Nat, NEW amplitudes \in [1..n -> Int]
  PROVE  Norms(amplitudes) \in Seq(Int) /\ Len(Norms(amplitudes)) = n
PROOF
<1>1. \A i \in 1..n : amplitudes[i] * amplitudes[i] \in Int
  <2> TAKE i \in 1..n
  <2>1. amplitudes[i] \in Int
    OBVIOUS
  <2> QED BY <2>1
<1>2. Norms(amplitudes) = [i \in 1..n |-> amplitudes[i] * amplitudes[i]]
  BY DEF Norms
<1>3. Norms(amplitudes) \in [1..n -> Int]
  BY <1>1, <1>2
<1> QED BY <1>3, FunctionIsSeq

\* The vectors the encoders read are sequences of numbers.
LEMMA Vectors ==
  ASSUME result \in Result_data
  PROVE  /\ result.shots \in Seq(0..(BasisStates - 1))
         /\ result.shots \in Seq(Int)
         /\ result.state_vec \in [1..BasisStates -> Int]
         /\ result.state_vec \in Seq(Int)
         /\ Len(result.state_vec) = BasisStates
         /\ hist \in Seq(Int)
         /\ hist \in [1..BasisStates -> Nat]
         /\ Len(hist) = BasisStates
         /\ Counts(hist, result.shots, Len(result.shots))
PROOF
<1>0. BasisStates \in Nat
  BY ResultsAssumption
<1>1. PICK n \in ShotCounts, output \in Outputs : result.shots = [i \in 1..n |-> output]
  BY DEF Result_data
<1>2. result.shots \in [1..n -> 0..(BasisStates - 1)] /\ n \in Nat
  BY <1>1, ResultsAssumption
<1>3. result.shots \in Seq(0..(BasisStates - 1)) /\ result.shots \in Seq(Int)
  <2>1. result.shots \in [1..n -> Int]
    BY <1>2
  <2> QED BY <1>2, <2>1, FunctionIsSeq
<1>4. result.state_vec \in [1..BasisStates -> Amplitudes]
  BY DEF Result_data
<1>5. result.state_vec \in [1..BasisStates -> Int]
  BY <1>4, ResultsAssumption
<1>6. result.state_vec \in Seq(Int) /\ Len(result.state_vec) = BasisStates
  BY <1>0, <1>5
<1>7. Counts(hist, result.shots, Len(result.shots))
  BY <1>3, HistCounts
<1>8. hist \in [1..BasisStates -> Nat]
  BY <1>7 DEF Counts, Histogram
<1>9. hist \in [1..BasisStates -> Int]
  BY <1>8
<1>10. hist \in Seq(Int) /\ Len(hist) = BasisStates
  BY <1>0, <1>9
<1> QED BY <1>3, <1>5, <1>6, <1>7, <1>8, <1>10

\* The entries of a vector are as many as the keys and the values.
LEMMA EntriesWritten ==
  ASSUME NEW vector \in Seq(Int)
  PROVE  /\ Entries(vector) \in Nat
         /\ Len(Keys(vector)) = Entries(vector)
         /\ Len(Values(vector)) = Entries(vector)
PROOF
<1>1. Keys(vector) \in Seq(Int) /\ Holds(Keys(vector), Values(vector), vector, Len(vector))
  BY KeysAndValues
<1>2. Len(Keys(vector)) = Entries(vector) /\ Len(Values(vector)) = Len(Keys(vector))
  BY <1>1 DEF Holds, Entries
<1> QED BY <1>1, <1>2

\* A product of sizes is a size.
LEMMA Product == ASSUME NEW a \in Nat, NEW b \in Nat PROVE a * b \in Nat
PROOF
OBVIOUS

\* Every kind requires a number of bytes, and writes the items of its kind.
LEMMA RequiredType ==
  ASSUME result \in Result_data, NEW kind \in Kind
  PROVE  Required(kind) \in Nat /\ Items(kind) \in Seq(Item(kind))
PROOF
<1>1. /\ result.shots \in Seq(Int)
      /\ result.state_vec \in [1..BasisStates -> Int] /\ result.state_vec \in Seq(Int)
      /\ hist \in Seq(Int)
  BY Vectors
<1>2. /\ Entries(hist) \in Nat /\ count \in Nat
      /\ Len(result.shots) \in Nat /\ Len(result.state_vec) \in Nat /\ NumQubits + 1 \in Nat
  BY <1>1, EntriesWritten, ResultsAssumption DEF count
<1>3. Required(kind) \in Nat
  <2>1. /\ Len(result.shots) * (NumQubits + 1) \in Nat
        /\ Entries(hist) * (NumQubits + 1) \in Nat
        /\ count * (NumQubits + 1) \in Nat
    BY <1>2, Product
  <2>2. /\ Entries(hist) * 8 \in Nat /\ count * 8 \in Nat /\ count * 16 \in Nat
        /\ Len(result.state_vec) * 8 \in Nat /\ Len(result.state_vec) * 16 \in Nat
    BY <1>2
  <2> QED BY <2>1, <2>2 DEF Required
<1>4. /\ Keys(hist) \in Seq(Int) /\ Values(hist) \in Seq(Int)
      /\ Keys(result.state_vec) \in Seq(Int) /\ Values(result.state_vec) \in Seq(Int)
  BY <1>1, KeysAndValues
<1>5. Norms(result.state_vec) \in Seq(Int)
  BY <1>1, NormsType, ResultsAssumption
<1>6. Items(kind) \in Seq(Item(kind))
  <2>1. CASE kind \in StringKinds
    <3>1. Item(kind) = TextItem
      BY <2>1 DEF Item, TextItem
    <3>2. /\ Joined(result.shots) \in Seq(TextItem)
          /\ Joined(Keys(hist)) \in Seq(TextItem)
          /\ Joined(Keys(result.state_vec)) \in Seq(TextItem)
      BY <1>1, <1>4, JoinedReads
    <3> QED BY <2>1, <3>1, <3>2 DEF Items, StringKinds
  <2>2. CASE kind \notin StringKinds
    <3>1. Item(kind) = Int
      BY <2>2 DEF Item
    <3> QED BY <1>1, <1>4, <1>5, <2>2, <3>1 DEF Items, Kind, StringKinds
  <2> QED BY <2>1, <2>2
<1> QED BY <1>3, <1>6

\* The items fill the bytes required; those of the sparse probabilities do when
\* no amplitude is zero.
LEMMA ItemsFit ==
  ASSUME result \in Result_data, NEW kind \in Kind,
         kind = "PROBABILITIES_SPARSE_VALUES" => 0 \notin Range(result.state_vec)
  PROVE  Len(Items(kind)) * Width(kind) = Required(kind)
PROOF
<1>1. /\ result.state_vec \in [1..BasisStates -> Int] /\ result.state_vec \in Seq(Int)
      /\ Len(result.state_vec) = BasisStates /\ hist \in Seq(Int) /\ BasisStates \in Nat
      /\ result.shots \in Seq(Int)
  BY Vectors, ResultsAssumption
<1>2. /\ Len(Keys(hist)) = Entries(hist) /\ Len(Values(hist)) = Entries(hist)
      /\ Len(Keys(result.state_vec)) = count /\ Len(Values(result.state_vec)) = count
  BY <1>1, EntriesWritten DEF count
<1>3. Len(Norms(result.state_vec)) = Len(result.state_vec)
  BY <1>1, NormsType
<1>4. CASE kind \in StringKinds
  <2>1. Width(kind) = NumQubits + 1
    BY <1>4 DEF Width
  <2>2. /\ Len(Joined(result.shots)) = Len(result.shots)
        /\ Len(Joined(Keys(hist))) = Entries(hist)
        /\ Len(Joined(Keys(result.state_vec))) = count
    BY <1>1, <1>2, JoinedReads, KeysAndValues
  <2>3. CASE kind = "SHOTS"
    BY <2>1, <2>2, <2>3 DEF Items, Required
  <2>4. CASE kind = "HIST_KEYS"
    BY <2>1, <2>2, <2>4 DEF Items, Required
  <2>5. CASE kind \in {"STATEVECTOR_SPARSE_KEYS", "PROBABILITIES_SPARSE_KEYS"}
    BY <2>1, <2>2, <2>5 DEF Items, Required
  <2> QED BY <1>4, <2>3, <2>4, <2>5 DEF StringKinds
<1>5. CASE kind \notin StringKinds
  <2>1. CASE kind = "HIST_VALUES"
    BY <1>2, <2>1 DEF Items, Required, Width, StringKinds
  <2>2. CASE kind = "STATEVECTOR_DENSE"
    BY <2>2 DEF Items, Required, Width, StringKinds
  <2>3. CASE kind = "STATEVECTOR_SPARSE_VALUES"
    BY <1>2, <2>3 DEF Items, Required, Width, StringKinds
  <2>4. CASE kind = "PROBABILITIES_DENSE"
    BY <1>3, <2>4 DEF Items, Required, Width, StringKinds
  <2>5. CASE kind = "PROBABILITIES_SPARSE_VALUES"
    <3>1. \A i \in 1..BasisStates : result.state_vec[i] # 0
      BY <1>1, <2>5 DEF Range
    <3>2. {i \in 1..BasisStates : result.state_vec[i] # 0} = 1..BasisStates
      BY <3>1
    <3>3. Cardinality(1..BasisStates) = BasisStates
      <4>1. Cardinality(1..BasisStates) = IF 1 > BasisStates THEN 0 ELSE BasisStates - 1 + 1
        BY <1>1, FS_Interval
      <4> QED BY <1>1, <4>1
    <3>4. count = BasisStates
      BY <1>1, <3>2, <3>3 DEF count, Entries
    <3> QED BY <1>1, <1>3, <2>5, <3>4 DEF Items, Required, Width, StringKinds
  <2> QED BY <1>5, <2>1, <2>2, <2>3, <2>4, <2>5 DEF Kind
<1> QED BY <1>4, <1>5

-----------------------------------------------------------------------------
(* The invariant *)

\* What a reply of this kind says: it succeeds exactly when the buffer, if there
\* is one, is not smaller than required.
Answered(kind, r) ==
  /\ r \in Reply(kind)
  /\ r.code = "SUCCESS" => /\ r.size_ret = Required(kind)
                           /\ r.data = IF r.size = NONE THEN <<>> ELSE Items(kind)
                           /\ r.size # NONE => Required(kind) <= r.size
  /\ r.size = NONE => r.code = "SUCCESS"

ResultsInv ==
  /\ TypeOK
  /\ \A kind \in DOMAIN reply : reply[kind] # NONE => Answered(kind, reply[kind])

\* The common frame answers so.
LEMMA AnswerAnswers ==
  ASSUME result \in Result_data, NEW kind \in Kind, NEW size \in Nat \cup {NONE},
         NEW rejected \in {NONE, Required(kind)},
         Answer(kind, size, Required(kind), Items(kind), rejected)
  PROVE  \E r : /\ reply' = [reply EXCEPT ![kind] = r]
                /\ Answered(kind, r)
                /\ r.size = size
                /\ r.code = "SUCCESS" <=> (size = NONE \/ Required(kind) <= size)
PROOF
<1> DEFINE refused == [code |-> "INVALIDARGUMENT", size |-> size, size_ret |-> rejected, data |-> <<>>]
           filled == [code |-> "SUCCESS", size |-> size, size_ret |-> Required(kind),
                      data |-> IF size = NONE THEN <<>> ELSE Items(kind)]
<1>1. Required(kind) \in Nat /\ Items(kind) \in Seq(Item(kind))
  BY RequiredType
<1>2. CASE size # NONE /\ size < Required(kind)
  <2>1. reply' = [reply EXCEPT ![kind] = refused]
    BY <1>2 DEF Answer
  <2>2. refused \in Reply(kind)
    BY <1>1 DEF Reply
  <2>3. Answered(kind, refused)
    BY <1>2, <2>2 DEF Answered
  <2>4. refused.size = size /\ (refused.code = "SUCCESS" <=> (size = NONE \/ Required(kind) <= size))
    BY <1>1, <1>2
  <2> HIDE DEF refused
  <2> QED BY <2>1, <2>3, <2>4
<1>3. CASE ~(size # NONE /\ size < Required(kind))
  <2>1. reply' = [reply EXCEPT ![kind] = filled]
    BY <1>3 DEF Answer
  <2>2. filled \in Reply(kind)
    BY <1>1 DEF Reply
  <2>3. size = NONE \/ Required(kind) <= size
    BY <1>1, <1>3
  <2>4. Answered(kind, filled)
    BY <2>2, <2>3 DEF Answered
  <2>5. filled.size = size /\ (filled.code = "SUCCESS" <=> (size = NONE \/ Required(kind) <= size))
    BY <2>3
  <2> HIDE DEF filled
  <2> QED BY <2>1, <2>4, <2>5
<1> QED BY <1>2, <1>3

\* Every encoder fills the frame with what its kind requires and writes.
LEMMA EncodersAnswer ==
  ASSUME result \in Result_data, NEW kind \in Kind, NEW size,
         \/ Get_results_shots(kind, size)
         \/ Get_results_hist(kind, size)
         \/ Get_results_statevector(kind, size)
         \/ Get_results_sparse(kind, size)
         \/ Get_results_probabilities(kind, size)
  PROVE  \E rejected \in {NONE, Required(kind)} :
           Answer(kind, size, Required(kind), Items(kind), rejected)
PROOF
<1>0. Keys(hist) \in Seq(Int) /\ Keys(result.state_vec) \in Seq(Int) /\ Len(Keys(hist)) = Entries(hist)
  BY Vectors, KeysAndValues, EntriesWritten
<1>1. CASE Get_results_shots(kind, size)
  BY <1>1 DEF Get_results_shots, Encode, Required, Items
<1>2. CASE Get_results_hist(kind, size)
  <2>1. CASE kind = "HIST_KEYS" /\ Answer(kind, size, Entries(hist) * (NumQubits + 1),
                                          IF Entries(hist) = 0 THEN <<>> ELSE Terminated(Keys(hist)),
                                          Entries(hist) * (NumQubits + 1))
    <3>1. Required(kind) = Entries(hist) * (NumQubits + 1) /\ Items(kind) = Joined(Keys(hist))
      BY <2>1 DEF Required, Items
    <3>2. (IF Entries(hist) = 0 THEN <<>> ELSE Terminated(Keys(hist))) = Joined(Keys(hist))
      <4>1. CASE Entries(hist) = 0
        <5>1. Len(Joined(Keys(hist))) = 0 /\ Joined(Keys(hist)) \in Seq(TextItem)
          BY <1>0, <4>1, JoinedReads
        <5>2. Joined(Keys(hist)) = <<>>
          BY <5>1
        <5> QED BY <4>1, <5>2
      <4>2. CASE Entries(hist) # 0
        BY <1>0, <4>2, TerminatedIsJoined
      <4> QED BY <4>1, <4>2
    <3> QED BY <2>1, <3>1, <3>2
  <2>2. CASE kind = "HIST_VALUES" /\ Answer(kind, size, Entries(hist) * 8, Values(hist), Entries(hist) * 8)
    <3>1. Required(kind) = Entries(hist) * 8 /\ Items(kind) = Values(hist)
      BY <2>2 DEF Required, Items
    <3> QED BY <2>2, <3>1
  <2> QED BY <1>2, <2>1, <2>2 DEF Get_results_hist
<1>3. CASE Get_results_statevector(kind, size)
  BY <1>3 DEF Get_results_statevector, Encode, Required, Items
<1>4. CASE Get_results_sparse(kind, size)
  <2>1. CASE kind \in {"STATEVECTOR_SPARSE_KEYS", "PROBABILITIES_SPARSE_KEYS"}
             /\ Encode(kind, size, count * (NumQubits + 1), Terminated(Keys(result.state_vec)))
    <3>1. Terminated(Keys(result.state_vec)) = Joined(Keys(result.state_vec))
      BY <1>0, TerminatedIsJoined
    <3> QED BY <2>1, <3>1 DEF Encode, Required, Items
  <2>2. CASE kind = "STATEVECTOR_SPARSE_VALUES" /\ Encode(kind, size, count * 16, Values(result.state_vec))
    BY <2>2 DEF Encode, Required, Items
  <2>3. CASE kind = "PROBABILITIES_SPARSE_VALUES" /\ Encode(kind, size, count * 8, Norms(result.state_vec))
    BY <2>3 DEF Encode, Required, Items
  <2> QED BY <1>4, <2>1, <2>2, <2>3 DEF Get_results_sparse
<1>5. CASE Get_results_probabilities(kind, size)
  BY <1>5 DEF Get_results_probabilities, Encode, Required, Items
<1> QED BY <1>1, <1>2, <1>3, <1>4, <1>5

\* A call of the interface leaves the result alone and answers so.
LEMMA CallAnswers ==
  ASSUME result \in Result_data, NEW kind \in Kind, NEW size \in Nat \cup {NONE},
         get_results(kind, size)
  PROVE  \E r : /\ reply' = [reply EXCEPT ![kind] = r]
                /\ Answered(kind, r)
                /\ r.size = size
                /\ r.code = "SUCCESS" <=> (size # 0 /\ (size = NONE \/ Required(kind) <= size))
PROOF
<1>1. CASE size = 0
  <2> DEFINE none == [code |-> "INVALIDARGUMENT", size |-> 0, size_ret |-> NONE, data |-> <<>>]
  <2>1. reply' = [reply EXCEPT ![kind] = none]
    BY <1>1 DEF get_results
  <2>2. none \in Reply(kind)
    BY DEF Reply
  <2>3. 0 # NONE
    BY ResultsAssumption
  <2>4. Answered(kind, none) /\ none.size = size /\ none.code # "SUCCESS"
    BY <1>1, <2>2, <2>3 DEF Answered
  <2> HIDE DEF none
  <2> QED BY <1>1, <2>1, <2>4
<1>2. CASE size # 0
  <2>1. PICK rejected \in {NONE, Required(kind)} :
          Answer(kind, size, Required(kind), Items(kind), rejected)
    BY <1>2, EncodersAnswer DEF get_results
  <2>2. PICK r : /\ reply' = [reply EXCEPT ![kind] = r]
                 /\ Answered(kind, r)
                 /\ r.size = size
                 /\ r.code = "SUCCESS" <=> (size = NONE \/ Required(kind) <= size)
    BY <2>1, AnswerAnswers
  <2> QED BY <1>2, <2>2
<1> QED BY <1>1, <1>2

\* The initial states satisfy the invariant: nothing has been asked.
LEMMA InitInv == Init => ResultsInv
PROOF
<1> SUFFICES ASSUME Init PROVE ResultsInv
  OBVIOUS
<1>1. PICK reading \in Readings : reply = [kind \in reading |-> NONE]
  BY DEF Init
<1>2. DOMAIN reply = reading /\ \A kind \in DOMAIN reply : reply[kind] = NONE
  BY <1>1
<1> QED BY <1>2 DEF Init, ResultsInv, TypeOK

\* A client asks about kinds of results only.
LEMMA DomainIsKinds == ASSUME ResultsInv, NEW kind \in DOMAIN reply PROVE kind \in Kind
PROOF
<1>1. DOMAIN reply \in Readings
  BY DEF ResultsInv, TypeOK
<1> QED BY <1>1 DEF Readings, Kind, StringKinds

\* Every step is a call of the interface with the size of some buffer; a client
\* that fetches has asked the size before.
LEMMA StepIsCall ==
  ASSUME ResultsInv, NEW kind \in DOMAIN reply, AskSize(kind) \/ Fetch(kind)
  PROVE  \E size \in Nat \cup {NONE} : get_results(kind, size)
PROOF
<1>1. CASE AskSize(kind)
  BY <1>1 DEF AskSize
<1>2. CASE Fetch(kind)
  <2>1. /\ reply[kind] # NONE /\ reply[kind].size = NONE
        /\ \E size \in {reply[kind].size_ret - 1, reply[kind].size_ret, reply[kind].size_ret + 1} :
             size >= 0 /\ get_results(kind, size)
    BY <1>2 DEF Fetch
  <2>2. Answered(kind, reply[kind])
    BY <2>1 DEF ResultsInv
  <2>3. reply[kind].size_ret = Required(kind) /\ Required(kind) \in Nat
    <3>1. kind \in Kind /\ result \in Result_data
      BY DomainIsKinds DEF ResultsInv, TypeOK
    <3> QED BY <2>1, <2>2, <3>1, RequiredType DEF Answered
  <2>4. PICK size \in {Required(kind) - 1, Required(kind), Required(kind) + 1} :
          size >= 0 /\ get_results(kind, size)
    BY <2>1, <2>3
  <2>5. size \in Nat
    BY <2>3, <2>4
  <2> QED BY <2>4, <2>5
<1> QED BY <1>1, <1>2

\* What a kind requires and writes depends on the result only, so what a reply
\* said before a step is what it says after it.
LEMMA AnsweredStays ==
  ASSUME NEW kind, NEW r, Answered(kind, r), result' = result, reply'[kind] = r
  PROVE  Answered(kind, reply[kind])'
PROOF
<1>1. hist' = hist /\ count' = count
  BY DEF hist, count
<1>2. Required(kind)' = Required(kind) /\ Items(kind)' = Items(kind)
  BY <1>1 DEF Required, Items
<1> QED BY <1>2 DEF Answered

\* Every step keeps the invariant.
LEMMA NextInv == ResultsInv /\ [Next]_vars => ResultsInv'
PROOF
<1> SUFFICES ASSUME ResultsInv, [Next]_vars PROVE ResultsInv'
  OBVIOUS
<1>0. result \in Result_data
  BY DEF ResultsInv, TypeOK
<1>1. CASE UNCHANGED vars
  <2>1. result' = result /\ reply' = reply
    BY <1>1 DEF vars
  <2>2. TypeOK'
    BY <2>1 DEF ResultsInv, TypeOK
  <2>3. ASSUME NEW kind \in DOMAIN reply', reply'[kind] # NONE PROVE Answered(kind, reply[kind])'
    <3>1. PICK r : r = reply[kind]
      OBVIOUS
    <3>2. Answered(kind, r) /\ reply'[kind] = r
      BY <2>1, <2>3, <3>1 DEF ResultsInv
    <3> QED BY <2>1, <3>2, AnsweredStays
  <2> QED BY <2>2, <2>3 DEF ResultsInv
<1>2. CASE Next
  <2>1. PICK kind \in DOMAIN reply : AskSize(kind) \/ Fetch(kind)
    BY <1>2 DEF Next
  <2>2. PICK size \in Nat \cup {NONE} : get_results(kind, size)
    BY <2>1, StepIsCall
  <2>3. result' = result /\ kind \in Kind
    BY <2>2, DomainIsKinds DEF get_results
  <2>4. PICK r : reply' = [reply EXCEPT ![kind] = r] /\ Answered(kind, r)
    BY <1>0, <2>2, <2>3, CallAnswers
  <2>5. TypeOK'
    <3>1. DOMAIN reply' = DOMAIN reply /\ DOMAIN reply \in Readings
      BY <2>4 DEF ResultsInv, TypeOK
    <3>2. r \in Reply(kind)
      BY <2>4 DEF Answered
    <3>3. ASSUME NEW k \in DOMAIN reply' PROVE reply'[k] \in Reply(k) \cup {NONE}
      <4>1. CASE k = kind
        BY <2>4, <3>1, <3>2, <4>1
      <4>2. CASE k # kind
        <5>1. reply'[k] = reply[k] /\ reply[k] \in Reply(k) \cup {NONE}
          BY <2>4, <3>1, <4>2 DEF ResultsInv, TypeOK
        <5> QED BY <5>1
      <4> QED BY <4>1, <4>2
    <3> QED BY <1>0, <2>3, <3>1, <3>3 DEF TypeOK, Reply, Item
  <2>6. ASSUME NEW k \in DOMAIN reply', reply'[k] # NONE PROVE Answered(k, reply[k])'
    <3>1. k \in DOMAIN reply
      BY <2>4
    <3>2. \E s : Answered(k, s) /\ reply'[k] = s
      <4>1. CASE k = kind
        BY <2>4, <3>1, <4>1
      <4>2. CASE k # kind
        <5>1. reply'[k] = reply[k]
          BY <2>4, <3>1, <4>2
        <5>2. Answered(k, reply[k])
          BY <2>6, <3>1, <5>1 DEF ResultsInv
        <5> QED BY <5>1, <5>2
      <4> QED BY <4>1, <4>2
    <3> QED BY <2>3, <3>2, AnsweredStays
  <2> QED BY <2>5, <2>6 DEF ResultsInv
<1> QED BY <1>1, <1>2

\* Every reply a client holds is TypeOK and says what Answered says of it.
THEOREM ResultsInvariant == Spec => []ResultsInv
PROOF
<1> QED BY InitInv, NextInv, PTL DEF Spec

\* The type invariant of the module.
THEOREM ResultsTypeCorrect == Spec => []TypeOK
PROOF
<1>1. ResultsInv => TypeOK
  BY DEF ResultsInv
<1> QED BY <1>1, ResultsInvariant, PTL

\* A buffer that was filled says so: it holds the items of its kind.
LEMMA FetchedItems ==
  ASSUME ResultsInv, NEW kind, Fetched(kind)
  PROVE  /\ kind \in Kind
         /\ result \in Result_data
         /\ reply[kind].data = Items(kind)
         /\ reply[kind].size_ret = Required(kind)
         /\ Required(kind) <= reply[kind].size
PROOF
<1>1. kind \in DOMAIN reply /\ reply[kind] # NONE /\ reply[kind].size # NONE /\ reply[kind].code = "SUCCESS"
  BY DEF Fetched
<1>2. Answered(kind, reply[kind])
  BY <1>1 DEF ResultsInv
<1>3. kind \in Kind /\ result \in Result_data
  BY <1>1, DomainIsKinds DEF ResultsInv, TypeOK
<1> QED BY <1>1, <1>2, <1>3 DEF Answered

\* A filled buffer holds exactly the bytes the size query announced, and has
\* room for them.
THEOREM WrittenCorrect == Spec => []WrittenAsAnnounced
PROOF
<1>1. ResultsInv => WrittenAsAnnounced
  <2> SUFFICES ASSUME ResultsInv, NEW kind \in DOMAIN reply, Fetched(kind),
                      kind = "PROBABILITIES_SPARSE_VALUES" => 0 \notin Range(result.state_vec)
               PROVE  /\ Len(reply[kind].data) * Width(kind) = reply[kind].size_ret
                      /\ reply[kind].size_ret <= reply[kind].size
    BY DEF WrittenAsAnnounced
  <2>1. /\ kind \in Kind /\ result \in Result_data
        /\ reply[kind].data = Items(kind) /\ reply[kind].size_ret = Required(kind)
        /\ Required(kind) <= reply[kind].size
    BY FetchedItems
  <2>2. Len(Items(kind)) * Width(kind) = Required(kind)
    BY <2>1, ItemsFit
  <2> QED BY <2>1, <2>2
<1> QED BY <1>1, ResultsInvariant, PTL

\* A client reads the shots of the job from the text they are joined to.
THEOREM ShotsCorrect == Spec => []ShotsReadBack
PROOF
<1>1. ResultsInv => ShotsReadBack
  <2> SUFFICES ASSUME ResultsInv, Fetched("SHOTS")
               PROVE  Strings(reply["SHOTS"].data) = result.shots
    BY DEF ShotsReadBack
  <2>1. result \in Result_data /\ reply["SHOTS"].data = Joined(result.shots)
    BY FetchedItems DEF Items
  <2>2. result.shots \in Seq(Int)
    BY <2>1, Vectors
  <2> QED BY <2>1, <2>2, JoinedReads
<1> QED BY <1>1, ResultsInvariant, PTL

\* The histogram a client puts together from keys and values: the outputs that
\* were measured, with their counts.
THEOREM HistogramCorrect == Spec => []HistogramCountsShots
PROOF
<1>1. ResultsInv => HistogramCountsShots
  <2> SUFFICES ASSUME ResultsInv, Fetched("HIST_KEYS"), Fetched("HIST_VALUES")
               PROVE  HistogramCountsShots
    BY DEF HistogramCountsShots
  <2> DEFINE keys == Strings(reply["HIST_KEYS"].data)
             values == reply["HIST_VALUES"].data
             shots == result.shots
             Showing(o) == {k \in 1..Len(shots) : shots[k] = o}
  <2>1. result \in Result_data /\ keys = Keys(hist) /\ values = Values(hist)
    <3>1. /\ result \in Result_data
          /\ reply["HIST_KEYS"].data = Joined(Keys(hist)) /\ values = Values(hist)
      BY FetchedItems DEF Items
    <3>2. Keys(hist) \in Seq(Int)
      BY <3>1, Vectors, KeysAndValues
    <3> QED BY <3>1, <3>2, JoinedReads
  <2>2. /\ shots \in Seq(0..(BasisStates - 1))
        /\ hist \in Seq(Int) /\ Len(hist) = BasisStates
        /\ Counts(hist, shots, Len(shots))
    BY <2>1, Vectors
  <2>3. keys \in Seq(Int) /\ values \in Seq(Int) /\ Holds(keys, values, hist, BasisStates)
    BY <2>1, <2>2, KeysAndValues
  <2> HIDE DEF keys, values, shots
  <2>4. Len(keys) = Len(values)
    BY <2>3 DEF Holds
  <2>5. ASSUME NEW m \in 1..Len(keys)
        PROVE  /\ keys[m] \in 0..(BasisStates - 1)
               /\ hist[keys[m] + 1] # 0
               /\ values[m] = hist[keys[m] + 1]
               /\ hist[keys[m] + 1] = Cardinality(Showing(keys[m]))
    <3>1. keys[m] \in 0..(BasisStates - 1) /\ hist[keys[m] + 1] # 0 /\ values[m] = hist[keys[m] + 1]
      BY <2>3 DEF Holds
    <3> QED BY <2>2, <3>1 DEF Counts
  <2>6. ASSUME NEW m \in 1..Len(keys) PROVE \E k \in 1..Len(shots) : shots[k] = keys[m]
    <3>1. Cardinality(Showing(keys[m])) # 0
      BY <2>5
    <3>2. Showing(keys[m]) # {}
      BY <3>1, FS_EmptySet
    <3> QED BY <3>2
  <2>7. ASSUME NEW k \in 1..Len(shots) PROVE \E m \in 1..Len(keys) : keys[m] = shots[k]
    <3>1. shots[k] \in 0..(BasisStates - 1)
      BY <2>2
    <3>2. k \in Showing(shots[k])
      OBVIOUS
    <3>3. IsFiniteSet(Showing(shots[k]))
      <4>1. IsFiniteSet(1..Len(shots)) /\ Showing(shots[k]) \subseteq 1..Len(shots)
        BY <2>2, FS_Interval
      <4> QED BY <4>1, FS_Subset
    <3>4. Cardinality(Showing(shots[k])) # 0
      BY <3>2, <3>3, FS_EmptySet
    <3>5. hist[shots[k] + 1] # 0
      BY <2>2, <3>1, <3>4 DEF Counts
    <3>6. shots[k] + 1 \in 1..BasisStates /\ (shots[k] + 1) - 1 = shots[k]
      BY <3>1, ResultsAssumption
    <3> QED BY <2>3, <3>5, <3>6 DEF Holds
  <2>8. {keys[i] : i \in 1..Len(keys)} = {shots[k] : k \in 1..Len(shots)}
    <3>1. ASSUME NEW o \in {keys[i] : i \in 1..Len(keys)} PROVE o \in {shots[k] : k \in 1..Len(shots)}
      <4>1. PICK m \in 1..Len(keys) : o = keys[m]
        OBVIOUS
      <4>2. PICK k \in 1..Len(shots) : shots[k] = keys[m]
        BY <2>6
      <4> QED BY <4>1, <4>2
    <3>2. ASSUME NEW o \in {shots[k] : k \in 1..Len(shots)} PROVE o \in {keys[i] : i \in 1..Len(keys)}
      <4>1. PICK k \in 1..Len(shots) : o = shots[k]
        OBVIOUS
      <4>2. PICK m \in 1..Len(keys) : keys[m] = shots[k]
        BY <2>7
      <4> QED BY <4>1, <4>2
    <3> QED BY <3>1, <3>2
  <2>9. DOMAIN keys = 1..Len(keys) /\ DOMAIN shots = 1..Len(shots)
    BY <2>2, <2>3
  <2> QED BY <2>4, <2>5, <2>8, <2>9 DEF HistogramCountsShots, Range, keys, values, shots
<1> QED BY <1>1, ResultsInvariant, PTL

\* A client that puts the sparse state vector together has the dense one.
THEOREM SparseCorrect == Spec => []SparseVectorIsDense
PROOF
<1>1. ResultsInv => SparseVectorIsDense
  <2> SUFFICES ASSUME ResultsInv, Fetched("STATEVECTOR_SPARSE_KEYS"), Fetched("STATEVECTOR_SPARSE_VALUES")
               PROVE  Decode(Strings(reply["STATEVECTOR_SPARSE_KEYS"].data),
                             reply["STATEVECTOR_SPARSE_VALUES"].data) = result.state_vec
    BY DEF SparseVectorIsDense
  <2> DEFINE keys == Strings(reply["STATEVECTOR_SPARSE_KEYS"].data)
             values == reply["STATEVECTOR_SPARSE_VALUES"].data
             vector == result.state_vec
  <2>1. result \in Result_data /\ keys = Keys(vector) /\ values = Values(vector)
    <3>1. /\ result \in Result_data
          /\ reply["STATEVECTOR_SPARSE_KEYS"].data = Joined(Keys(vector)) /\ values = Values(vector)
      BY FetchedItems DEF Items
    <3>2. Keys(vector) \in Seq(Int)
      BY <3>1, Vectors, KeysAndValues
    <3> QED BY <3>1, <3>2, JoinedReads
  <2>2. vector \in Seq(Int) /\ vector \in [1..BasisStates -> Int] /\ Len(vector) = BasisStates
    BY <2>1, Vectors
  <2>3. keys \in Seq(Int) /\ Holds(keys, values, vector, BasisStates)
    BY <2>1, <2>2, KeysAndValues
  <2> HIDE DEF keys, values, vector
  <2>4. DOMAIN keys = 1..Len(keys)
    BY <2>3
  <2>5. ASSUME NEW i \in 1..BasisStates
        PROVE  vector[i] = IF \E n \in DOMAIN keys : keys[n] = i - 1
                             THEN values[CHOOSE n \in DOMAIN keys : keys[n] = i - 1] ELSE 0
    <3>1. CASE \E n \in DOMAIN keys : keys[n] = i - 1
      <4>1. PICK m \in DOMAIN keys : m = CHOOSE n \in DOMAIN keys : keys[n] = i - 1
        BY <3>1
      <4>2. keys[m] = i - 1
        BY <3>1, <4>1
      <4>3. m \in 1..Len(keys) /\ keys[m] + 1 = i
        BY <2>4, <4>2, ResultsAssumption
      <4>4. values[m] = vector[i]
        BY <2>3, <4>3 DEF Holds
      <4> QED BY <3>1, <4>1, <4>4
    <3>2. CASE ~ \E n \in DOMAIN keys : keys[n] = i - 1
      <4>1. vector[i] = 0
        BY <2>3, <2>4, <3>2 DEF Holds
      <4> QED BY <3>2, <4>1
    <3> QED BY <3>1, <3>2
  <2>6. vector = [i \in 1..BasisStates |-> vector[i]]
    BY <2>2
  <2>7. Decode(keys, values) = vector
    BY <2>5, <2>6 DEF Decode
  <2> QED BY <2>7 DEF keys, values, vector
<1> QED BY <1>1, ResultsInvariant, PTL

\* A fetch succeeds exactly with a buffer that is large enough.
THEOREM SizeCorrect == Spec => SizeDecides
PROOF
<1>1. ASSUME ResultsInv, [Next]_vars, reply' # reply
      PROVE  \A kind \in DOMAIN reply :
               Fetching(kind) /\ reply[kind].size_ret # 0 =>
                 (reply'[kind].code = "SUCCESS" <=> reply'[kind].size >= reply[kind].size_ret)
  <2> SUFFICES ASSUME NEW k \in DOMAIN reply, Fetching(k), reply[k].size_ret # 0
               PROVE  reply'[k].code = "SUCCESS" <=> reply'[k].size >= reply[k].size_ret
    OBVIOUS
  <2>1. PICK kind \in DOMAIN reply : AskSize(kind) \/ Fetch(kind)
    BY <1>1 DEF Next, vars
  <2>2. PICK size \in Nat \cup {NONE} : get_results(kind, size)
    BY <1>1, <2>1, StepIsCall
  <2>3. result \in Result_data /\ kind \in Kind
    BY <1>1, DomainIsKinds DEF ResultsInv, TypeOK
  <2>4. PICK r : /\ reply' = [reply EXCEPT ![kind] = r]
                 /\ Answered(kind, r)
                 /\ r.size = size
                 /\ r.code = "SUCCESS" <=> (size # 0 /\ (size = NONE \/ Required(kind) <= size))
    BY <2>2, <2>3, CallAnswers
  <2>5. reply[k] # NONE /\ reply[k].size = NONE /\ reply'[k].size # NONE
    BY DEF Fetching
  <2>6. k = kind
    <3>1. CASE k # kind
      <4>1. reply'[k] = reply[k]
        BY <2>4, <3>1
      <4> QED BY <2>5, <4>1
    <3> QED BY <3>1
  <2>7. reply'[k] = r /\ size \in Nat
    BY <2>4, <2>5, <2>6
  <2>8. reply[k].size_ret = Required(kind) /\ Required(kind) \in Nat /\ Required(kind) # 0
    <3>1. Answered(k, reply[k])
      BY <1>1, <2>5 DEF ResultsInv
    <3>2. reply[k].size_ret = Required(kind)
      BY <2>5, <2>6, <3>1 DEF Answered
    <3> QED BY <2>3, <3>2, RequiredType
  <2>9. size # NONE
    BY <2>7, ResultsAssumption
  <2>10. r.code = "SUCCESS" <=> size >= Required(kind)
    BY <2>4, <2>7, <2>8, <2>9
  <2> QED BY <2>4, <2>7, <2>8, <2>10
<1>2. ResultsInv /\ [Next]_vars =>
        [\A kind \in DOMAIN reply :
           Fetching(kind) /\ reply[kind].size_ret # 0 =>
             (reply'[kind].code = "SUCCESS" <=> reply'[kind].size >= reply[kind].size_ret)]_reply
  BY <1>1
<1> QED BY <1>2, ResultsInvariant, PTL DEF Spec, SizeDecides
=============================================================================
