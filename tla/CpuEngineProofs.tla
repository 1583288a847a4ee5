-------------------------- MODULE CpuEngineProofs --------------------------
(***************************************************************************)
(* The CPU engine, for any number of cores, lanes, errors and starts: the  *)
(* three places in which errors are entered agree, and the metrics shown   *)
(* are those of the test that was started last.                            *)
(***************************************************************************)
EXTENDS CpuEngine, FiniteSetTheorems, TLAPS

\* The metrics thread holds a sample only while it makes one: between two rounds, and
\* once it has ended, nothing is left of an earlier test for it to publish.
SampleInv == metrics \in {"none", "head", "exited"} => sample = NoErrors

\* Nothing shown, or about to be, exceeds what the engine has recorded since the start.
ShownInv ==
  \A shown \in {sample, current_metrics} :
    /\ shown.error_count <= recorded
    /\ \A w \in Workers : shown.per_core_error_count[w] <= core_count[w]

\* The flags, the counts and the verifier; each batch that fails has its entries at
\* once, and is counted after them.
BooksInv ==
  /\ \A w \in Workers : core_error[w] <=> core_count[w] > 0
  /\ FailedBatches <= MaxErrors
  /\ recorded <= Lanes * FailedBatches
  /\ mode = "lanes" => FailedBatches <= recorded

CpuInv == TypeOK /\ SampleInv /\ ShownInv /\ BooksInv

-----------------------------------------------------------------------------
(* Counting: the batches counted, and those not counted yet, are finite    *)
(* sets, of which a step changes one element at most.                      *)

CountedIn(count) == {batch \in Workers \X (1..MaxErrors) : batch[2] <= count[batch[1]]}

MarkingIn(place) == {w \in Workers : place[w] = "mark"}

LEMMA WorkersFinite == IsFiniteSet(Workers)
<1>1. 0 \in Int /\ NumThreads - 1 \in Int
  BY CpuAssumption
<1>. QED
  BY <1>1, FS_Interval DEF Workers

LEMMA CountedFinite ==
  ASSUME NEW count
  PROVE  IsFiniteSet(CountedIn(count)) /\ Cardinality(CountedIn(count)) \in Nat
<1>1. IsFiniteSet(1..MaxErrors)
  BY CpuAssumption, FS_Interval
<1>2. IsFiniteSet(Workers \X (1..MaxErrors))
  BY <1>1, WorkersFinite, FS_Product
<1>3. CountedIn(count) \in SUBSET (Workers \X (1..MaxErrors))
  BY DEF CountedIn
<1>4. IsFiniteSet(CountedIn(count))
  BY <1>2, <1>3, FS_Subset
<1>. QED
  BY <1>4, FS_CardinalityType

LEMMA MarkingFinite ==
  ASSUME NEW place
  PROVE  IsFiniteSet(MarkingIn(place)) /\ Cardinality(MarkingIn(place)) \in Nat
<1>1. MarkingIn(place) \in SUBSET Workers
  BY DEF MarkingIn
<1>2. IsFiniteSet(MarkingIn(place))
  BY <1>1, WorkersFinite, FS_Subset
<1>. QED
  BY <1>2, FS_CardinalityType

\* The count of one core is no more than the total.
LEMMA CoreWithinTotal ==
  ASSUME NEW count \in [Workers -> 0..MaxErrors], NEW w \in Workers
  PROVE  count[w] <= Cardinality(CountedIn(count))
<1>. DEFINE own == {w} \X (1..count[w])
<1>1. count[w] \in Nat /\ count[w] <= MaxErrors /\ MaxErrors \in Nat
  BY CpuAssumption
<1>2. IsFiniteSet(1..count[w]) /\ Cardinality(1..count[w]) = count[w]
  <2>1. 1 \in Int /\ count[w] \in Int
    BY <1>1
  <2>2. Cardinality(1..count[w]) = IF 1 > count[w] THEN 0 ELSE count[w] - 1 + 1
    BY <2>1, FS_Interval
  <2>. QED
    BY <1>1, <2>1, <2>2, FS_Interval
<1>3. IsFiniteSet({w}) /\ Cardinality({w}) = 1
  BY FS_Singleton
<1>4. Cardinality(own) = 1 * count[w]
  BY <1>2, <1>3, FS_Product
<1>5. own \in SUBSET CountedIn(count)
  BY <1>1 DEF CountedIn
<1>6. Cardinality(own) <= Cardinality(CountedIn(count))
  BY <1>5, CountedFinite, FS_Subset
<1>. QED
  BY <1>1, <1>4, <1>6

\* One more batch counted on a core is one more in the total.
LEMMA CountsOneMore ==
  ASSUME NEW count \in [Workers -> 0..MaxErrors], NEW w \in Workers, count[w] < MaxErrors
  PROVE  Cardinality(CountedIn([count EXCEPT ![w] = @ + 1]))
           = Cardinality(CountedIn(count)) + 1
<1>. DEFINE new == <<w, count[w] + 1>>
            after == [count EXCEPT ![w] = @ + 1]
<1>1. count[w] + 1 \in 1..MaxErrors /\ ~(count[w] + 1 <= count[w])
  BY CpuAssumption
<1>2. after[w] = count[w] + 1 /\ \A v \in Workers : v # w => after[v] = count[v]
  OBVIOUS
<1>3. new \notin CountedIn(count)
  BY <1>1 DEF CountedIn
<1>4. CountedIn(after) = CountedIn(count) \cup {new}
  <2>1. new \in CountedIn(after)
    BY <1>1, <1>2 DEF CountedIn
  <2>2. ASSUME NEW v \in Workers, NEW n \in 1..MaxErrors
        PROVE  <<v, n>> \in CountedIn(after)
                 <=> <<v, n>> \in CountedIn(count) \/ <<v, n>> = new
    <3>1. CASE v = w
      <4>1. n <= count[w] + 1 <=> n <= count[w] \/ n = count[w] + 1
        BY CpuAssumption
      <4>. QED
        BY <3>1, <4>1, <1>2 DEF CountedIn
    <3>2. CASE v # w
      BY <3>2, <1>2 DEF CountedIn
    <3>. QED
      BY <3>1, <3>2
  <2>3. \A c : CountedIn(c) \subseteq Workers \X (1..MaxErrors)
    BY DEF CountedIn
  <2>4. new \in Workers \X (1..MaxErrors)
    BY <1>1
  <2>. HIDE DEF new, after
  <2>. QED
    BY <2>2, <2>3, <2>4
<1>. HIDE DEF new, after
<1>5. Cardinality(CountedIn(count) \cup {new}) = Cardinality(CountedIn(count)) + 1
  BY <1>3, CountedFinite, FS_AddElement
<1>6. Cardinality(CountedIn(after)) = Cardinality(CountedIn(count)) + 1
  BY <1>4, <1>5
<1>. QED
  BY <1>6 DEF after

LEMMA NothingCounted ==
  ASSUME NEW count, \A w \in Workers : count[w] = 0
  PROVE  Cardinality(CountedIn(count)) = 0
<1>1. CountedIn(count) = {}
  BY DEF CountedIn
<1>. QED
  BY <1>1, FS_EmptySet

LEMMA NobodyMarking ==
  ASSUME NEW place, \A w \in Workers : place[w] # "mark"
  PROVE  Cardinality(MarkingIn(place)) = 0
<1>1. MarkingIn(place) = {}
  BY DEF MarkingIn
<1>. QED
  BY <1>1, FS_EmptySet

\* A worker that moves changes the number of those that have a batch to count by what
\* it has itself.
LEMMA WorkerMoves ==
  ASSUME NEW place \in [Workers -> Places], NEW w \in Workers, NEW to \in Places
  PROVE  LET before == Cardinality(MarkingIn(place))
             after == Cardinality(MarkingIn([place EXCEPT ![w] = to]))
         IN  /\ place[w] # "mark" /\ to # "mark" => after = before
             /\ place[w] # "mark" /\ to = "mark" => after = before + 1
             /\ place[w] = "mark" /\ to # "mark" => after = before - 1
<1>. DEFINE moved == [place EXCEPT ![w] = to]
<1>1. moved[w] = to /\ \A v \in Workers : v # w => moved[v] = place[v]
  OBVIOUS
<1>. HIDE DEF moved
<1>2. CASE place[w] # "mark" /\ to # "mark"
  <2>1. MarkingIn(moved) = MarkingIn(place)
    BY <1>1, <1>2 DEF MarkingIn
  <2>. QED
    BY <2>1, <1>2 DEF moved
<1>3. CASE place[w] # "mark" /\ to = "mark"
  <2>1. MarkingIn(moved) = MarkingIn(place) \cup {w} /\ w \notin MarkingIn(place)
    BY <1>1, <1>3 DEF MarkingIn
  <2>2. Cardinality(MarkingIn(place) \cup {w}) = Cardinality(MarkingIn(place)) + 1
    BY <2>1, MarkingFinite, FS_AddElement
  <2>. QED
    BY <2>1, <2>2, <1>3 DEF moved
<1>4. CASE place[w] = "mark" /\ to # "mark"
  <2>1. MarkingIn(moved) = MarkingIn(place) \ {w} /\ w \in MarkingIn(place)
    BY <1>1, <1>4 DEF MarkingIn
  <2>2. Cardinality(MarkingIn(place) \ {w}) = Cardinality(MarkingIn(place)) - 1
    BY <2>1, MarkingFinite, FS_RemoveElement
  <2>. QED
    BY <2>1, <2>2, <1>4 DEF moved
<1>. QED
  BY <1>2, <1>3, <1>4

-----------------------------------------------------------------------------
(* The books of a step are those of the counts and places it leaves.       *)

LEMMA Books ==
  /\ TotalCounted = Cardinality(CountedIn(core_count))
  /\ TotalCounted' = Cardinality(CountedIn(core_count'))
  /\ FailedBatches = Cardinality(CountedIn(core_count)) + Cardinality(MarkingIn(worker))
  /\ FailedBatches' = Cardinality(CountedIn(core_count')) + Cardinality(MarkingIn(worker'))
BY DEF FailedBatches, TotalCounted, Counted, Marking, CountedIn, MarkingIn

LEMMA BooksType == TotalCounted \in Nat /\ FailedBatches \in Nat
BY Books, CountedFinite, MarkingFinite

LEMMA EntriesInRange ==
  ASSUME NEW n \in Entries
  PROVE  n \in 0..Lanes /\ (mode = "lanes" => n >= 1)
<1>1. Lanes \in Nat /\ Lanes >= 1
  BY CpuAssumption
<1>2. CASE mode = "lanes"
  BY <1>1, <1>2 DEF Entries
<1>3. CASE mode = "prime"
  BY <1>1, <1>3 DEF Entries
<1>4. CASE mode # "lanes" /\ mode # "prime"
  BY <1>1, <1>4 DEF Entries
<1>. QED
  BY <1>2, <1>3, <1>4

LEMMA TimesMonotonic ==
  ASSUME NEW a \in Nat, NEW b \in Nat, NEW c \in Nat, a <= b
  PROVE  c * a <= c * b /\ c * a \in Nat /\ c * b \in Nat
<1>1. PICK d \in Nat : b = a + d
  <2>1. b - a \in Nat /\ b = a + (b - a)
    OBVIOUS
  <2>. QED
    BY <2>1
<1>2. c * (a + d) = c * a + c * d
  OBVIOUS
<1>3. c * a \in Nat /\ c * d \in Nat
  OBVIOUS
<1>. QED
  BY <1>1, <1>2, <1>3

\* A step in which no batch fails and none is counted.
LEMMA BooksUnchanged ==
  ASSUME BooksInv, UNCHANGED <<errors, mode>>, FailedBatches' = FailedBatches
  PROVE  BooksInv'
BY DEF BooksInv, errors

\* A test begins with no batch that has failed.
LEMMA LaunchBooks ==
  ASSUME TypeOK, NEW d, NEW p, Launch(d, p), UNCHANGED mode
  PROVE  BooksInv'
<1>1. recorded' = 0 /\ core_error' = [w \in Workers |-> FALSE]
      /\ core_count' = [w \in Workers |-> 0] /\ worker' = [w \in Workers |-> "head"]
  BY DEF Launch, ClearErrors, NoErrors
<1>2. FailedBatches' = 0
  <2>1. Cardinality(CountedIn(core_count')) = 0
    BY <1>1, NothingCounted
  <2>2. Cardinality(MarkingIn(worker')) = 0
    BY <1>1, NobodyMarking
  <2>. QED
    BY <2>1, <2>2, Books
<1>3. \A w \in Workers : core_error'[w] <=> core_count'[w] > 0
  BY <1>1
<1>4. 0 <= MaxErrors /\ 0 <= Lanes * 0
  BY CpuAssumption
<1>. QED
  BY <1>1, <1>2, <1>3, <1>4 DEF BooksInv

\* A worker that moves between places where it has no batch to count.
LEMMA MovesBooks ==
  ASSUME TypeOK, BooksInv, NEW w \in Workers, NEW to \in Places, Moves(w, to),
         worker[w] # "mark", to # "mark", UNCHANGED <<errors, mode>>
  PROVE  BooksInv'
<1>1. worker \in [Workers -> Places] /\ worker' = [worker EXCEPT ![w] = to]
  BY DEF TypeOK, Moves
<1>2. Cardinality(MarkingIn(worker')) = Cardinality(MarkingIn(worker))
  BY <1>1, WorkerMoves
<1>3. FailedBatches' = FailedBatches
  BY <1>2, Books DEF errors
<1>. QED
  BY <1>3, BooksUnchanged

LEMMA FailsBooks ==
  ASSUME TypeOK, BooksInv, NEW w \in Workers, BatchFails(w)
  PROVE  BooksInv' /\ recorded' \in Nat
<1>1. worker \in [Workers -> Places] /\ worker' = [worker EXCEPT ![w] = "mark"]
      /\ worker[w] # "mark" /\ UNCHANGED <<core_error, core_count, mode>>
      /\ FailedBatches < MaxErrors
  BY DEF TypeOK, BatchFails, Moves, config
<1>2. "mark" \in Places
  BY DEF Places
<1>3. Cardinality(MarkingIn(worker')) = Cardinality(MarkingIn(worker)) + 1
  BY <1>1, <1>2, WorkerMoves
<1>4. FailedBatches' = FailedBatches + 1 /\ FailedBatches \in Nat
  BY <1>1, <1>3, Books, BooksType, CountedFinite, MarkingFinite
<1>5. PICK n \in Entries : recorded' = recorded + n
  BY DEF BatchFails
<1>6. n \in 0..Lanes /\ (mode = "lanes" => n >= 1)
  BY EntriesInRange
<1>7. recorded \in Nat /\ Lanes \in Nat /\ MaxErrors \in Nat
  BY CpuAssumption DEF TypeOK
<1>8. Lanes * (FailedBatches + 1) = Lanes * FailedBatches + Lanes
  BY <1>4, <1>7
<1>9. Lanes * FailedBatches \in Nat
  BY <1>4, <1>7
<1>10. recorded' \in Nat /\ recorded' <= Lanes * FailedBatches'
  <2>1. recorded <= Lanes * FailedBatches
    BY DEF BooksInv
  <2>2. FailedBatches' = FailedBatches + 1
    BY <1>4
  <2>3. Lanes * FailedBatches' = Lanes * FailedBatches + Lanes
    BY <2>2, <1>8
  <2>. QED
    BY <1>5, <1>6, <1>7, <1>9, <2>1, <2>3
<1>11. FailedBatches' <= MaxErrors
  BY <1>1, <1>4, <1>7
<1>12. mode' = "lanes" => FailedBatches' <= recorded'
  BY <1>1, <1>4, <1>5, <1>6, <1>7 DEF BooksInv
<1>13. \A v \in Workers : core_error'[v] <=> core_count'[v] > 0
  BY <1>1 DEF BooksInv
<1>. QED
  BY <1>10, <1>11, <1>12, <1>13 DEF BooksInv

LEMMA MarkBooks ==
  ASSUME TypeOK, BooksInv, NEW w \in Workers, Mark(w)
  PROVE  BooksInv' /\ core_count' \in [Workers -> 0..MaxErrors]
         /\ core_error' \in [Workers -> BOOLEAN]
         /\ \A v \in Workers : core_count[v] <= core_count'[v]
<1>1. worker \in [Workers -> Places] /\ worker' = [worker EXCEPT ![w] = "tell"]
      /\ worker[w] = "mark" /\ UNCHANGED <<recorded, mode>>
      /\ core_error' = [core_error EXCEPT ![w] = TRUE]
      /\ core_count' = [core_count EXCEPT ![w] = @ + 1]
      /\ core_error \in [Workers -> BOOLEAN]
      /\ core_count \in [Workers -> 0..MaxErrors]
  BY DEF TypeOK, Mark, Moves, config
<1>2. "tell" \in Places
  BY DEF Places
<1>3. Cardinality(MarkingIn(worker')) = Cardinality(MarkingIn(worker)) - 1
  BY <1>1, <1>2, WorkerMoves
<1>4. Cardinality(MarkingIn(worker')) \in Nat /\ Cardinality(MarkingIn(worker)) \in Nat
      /\ Cardinality(CountedIn(core_count)) \in Nat
  BY CountedFinite, MarkingFinite
<1>5. core_count[w] < MaxErrors
  <2>1. core_count[w] <= Cardinality(CountedIn(core_count))
    BY <1>1, CoreWithinTotal
  <2>2. FailedBatches <= MaxErrors
    BY DEF BooksInv
  <2>3. core_count[w] \in Nat /\ MaxErrors \in Nat
    BY <1>1, CpuAssumption
  <2>. QED
    BY <1>3, <1>4, <2>1, <2>2, <2>3, Books
<1>6. Cardinality(CountedIn(core_count')) = Cardinality(CountedIn(core_count)) + 1
  BY <1>1, <1>5, CountsOneMore
<1>7. FailedBatches' = FailedBatches
  BY <1>3, <1>4, <1>6, Books
<1>8. core_count' \in [Workers -> 0..MaxErrors]
  BY <1>1, <1>5, CpuAssumption
<1>9. core_count'[w] = core_count[w] + 1 /\ core_error'[w]
      /\ \A v \in Workers : v # w =>
           core_count'[v] = core_count[v] /\ core_error'[v] = core_error[v]
  BY <1>1
<1>10. \A v \in Workers : core_count[v] <= core_count'[v]
  BY <1>1, <1>9, CpuAssumption
<1>11. \A v \in Workers : core_error'[v] <=> core_count'[v] > 0
  <2>1. core_count[w] + 1 > 0
    BY <1>1, CpuAssumption
  <2>2. \A v \in Workers : core_error[v] <=> core_count[v] > 0
    BY DEF BooksInv
  <2>. QED
    BY <1>9, <2>1, <2>2
<1>12. core_error' \in [Workers -> BOOLEAN]
  BY <1>1
<1>13. BooksInv'
  BY <1>1, <1>7, <1>11 DEF BooksInv
<1>. QED
  BY <1>8, <1>10, <1>12, <1>13

\* The threads are joined once none of them has a batch to count.
LEMMA JoinBooks ==
  ASSUME BooksInv, JoinAll, UNCHANGED <<errors, mode>>
  PROVE  BooksInv'
<1>1. Cardinality(MarkingIn(worker)) = 0
  BY NobodyMarking DEF JoinAll, AllGone, Gone
<1>2. Cardinality(MarkingIn(worker')) = 0
  BY NobodyMarking DEF JoinAll
<1>3. FailedBatches' = FailedBatches
  BY <1>1, <1>2, Books DEF errors
<1>. QED
  BY <1>3, BooksUnchanged

-----------------------------------------------------------------------------
(* Each part of the invariant, over every step.                            *)

LEMMA BooksKept ==
  ASSUME TypeOK, BooksInv, [Next]_vars
  PROVE  BooksInv'
<1>1. ASSUME UNCHANGED <<errors, worker, mode>>
      PROVE  BooksInv'
  <2>1. FailedBatches' = FailedBatches
    BY <1>1, Books DEF errors
  <2>. QED
    BY <1>1, <2>1, BooksUnchanged
<1>2. ASSUME NEW d \in BOOLEAN, NEW p \in BOOLEAN, Start(d, p)
      PROVE  BooksInv'
  <2>1. CASE Joined
    BY <1>2, <2>1, LaunchBooks DEF Start
  <2>2. CASE ~Joined
    BY <1>2, <2>2, <1>1 DEF Start, threads
  <2>. QED
    BY <2>1, <2>2
<1>3. ASSUME NEW d \in BOOLEAN, NEW p \in BOOLEAN, EndRestart(d, p)
      PROVE  BooksInv'
  BY <1>3, LaunchBooks DEF EndRestart
<1>4. CASE Restart
  BY <1>4, <1>1 DEF Restart, config, threads
<1>5. CASE Stop
  BY <1>5, <1>1 DEF Stop, config, threads
<1>6. CASE EndStop
  BY <1>6, JoinBooks DEF EndStop, config
<1>7. ASSUME NEW w \in Workers, Worker(w)
      PROVE  BooksInv'
  <2>. USE DEF Places
  <2>1. CASE Head(w)
    <3>1. UNCHANGED <<errors, mode>> /\ worker[w] # "mark"
      BY <2>1 DEF Head, config
    <3>2. Moves(w, "exited") \/ Moves(w, "batch")
      BY <2>1 DEF Head
    <3>. QED
      BY <3>1, <3>2, MovesBooks
  <2>2. ASSUME NEW stops, EndBatch(w, stops), UNCHANGED <<errors, mode>>,
               worker[w] # "mark"
        PROVE  BooksInv'
    <3>1. Moves(w, "exited") \/ Moves(w, "head")
      BY <2>2 DEF EndBatch
    <3>. QED
      BY <2>2, <3>1, MovesBooks
  <2>3. CASE BatchPasses(w)
    BY <2>2, <2>3 DEF BatchPasses, config
  <2>4. CASE BatchFails(w)
    BY <2>4, FailsBooks
  <2>5. CASE Mark(w)
    BY <2>5, MarkBooks
  <2>6. CASE TellOthers(w)
    BY <2>2, <2>6 DEF TellOthers, config
  <2>. QED
    BY <1>7, <2>1, <2>3, <2>4, <2>5, <2>6 DEF Worker
<1>8. CASE Cycle
  BY <1>8, <1>1 DEF Cycle, config
<1>9. CASE MetricsThread
  BY <1>9, <1>1 DEF MetricsThread, MetricsHead, SampleErrors, SampleCores, Publish,
                    MetricsMoves, MetricsOnly, config
<1>10. CASE TimeUp
  BY <1>10, <1>1 DEF TimeUp, config, threads
<1>11. CASE UNCHANGED vars
  BY <1>11, <1>1 DEF vars, config, threads
<1>. QED
  BY <1>2, <1>3, <1>4, <1>5, <1>6, <1>7, <1>8, <1>9, <1>10, <1>11 DEF Next

LEMMA ZeroMetrics == NoErrors \in Metrics
BY CpuAssumption DEF NoErrors, Metrics

\* How a step changes what is recorded: it grows, or a test begins and all is reset.
LEMMA RecordingGrows ==
  ASSUME TypeOK, BooksInv, [Next]_vars
  PROVE  \/ /\ recorded' \in Nat /\ recorded <= recorded'
            /\ core_count' \in [Workers -> 0..MaxErrors]
            /\ core_error' \in [Workers -> BOOLEAN]
            /\ \A w \in Workers : core_count[w] <= core_count'[w]
         \/ /\ recorded' = 0 /\ core_count' = [w \in Workers |-> 0]
            /\ core_error' = [w \in Workers |-> FALSE]
            /\ metrics \in {"none", "exited"} /\ metrics' = "head"
            /\ current_metrics' = NoErrors /\ UNCHANGED sample
<1>. DEFINE Reset ==
       /\ recorded' = 0 /\ core_count' = [w \in Workers |-> 0]
       /\ core_error' = [w \in Workers |-> FALSE]
       /\ metrics \in {"none", "exited"} /\ metrics' = "head"
       /\ current_metrics' = NoErrors /\ UNCHANGED sample
     Grows ==
       /\ recorded' \in Nat /\ recorded <= recorded'
       /\ core_count' \in [Workers -> 0..MaxErrors]
       /\ core_error' \in [Workers -> BOOLEAN]
       /\ \A w \in Workers : core_count[w] <= core_count'[w]
<1>0. recorded \in Nat /\ core_count \in [Workers -> 0..MaxErrors]
      /\ core_error \in [Workers -> BOOLEAN]
  BY CpuAssumption DEF TypeOK
<1>1. ASSUME UNCHANGED errors
      PROVE  Grows
  <2>1. \A w \in Workers : core_count[w] \in Nat
    BY <1>0, CpuAssumption
  <2>. QED
    BY <1>0, <1>1, <2>1 DEF errors
<1>2. ASSUME NEW d, NEW p, Launch(d, p), UNCHANGED sample,
             metrics \in {"none", "exited"}
      PROVE  Reset
  BY <1>2 DEF Launch, ClearErrors, ResetMetrics, NoErrors
<1>3. ASSUME NEW d \in BOOLEAN, NEW p \in BOOLEAN, Start(d, p)
      PROVE  Grows \/ Reset
  <2>. HIDE DEF Grows, Reset
  <2>1. CASE Joined
    BY <1>2, <1>3, <2>1 DEF Start, Joined
  <2>2. CASE ~Joined
    BY <1>1, <1>3, <2>2 DEF Start
  <2>. QED
    BY <2>1, <2>2
<1>4. ASSUME NEW d \in BOOLEAN, NEW p \in BOOLEAN, EndRestart(d, p)
      PROVE  Reset
  <2>. HIDE DEF Reset
  <2>. QED
    BY <1>2, <1>4 DEF EndRestart, AllGone, Gone
<1>5. ASSUME NEW w \in Workers, Worker(w)
      PROVE  Grows
  <2>1. CASE BatchFails(w)
    <3>1. PICK n \in Entries : recorded' = recorded + n
      BY <2>1 DEF BatchFails
    <3>2. n \in Nat
      BY EntriesInRange, CpuAssumption
    <3>3. UNCHANGED <<core_error, core_count>>
      BY <2>1 DEF BatchFails
    <3>4. \A v \in Workers : core_count[v] \in Nat
      BY <1>0, CpuAssumption
    <3>5. recorded' \in Nat /\ recorded <= recorded'
      BY <1>0, <3>1, <3>2
    <3>. QED
      BY <1>0, <3>3, <3>4, <3>5
  <2>2. CASE Mark(w)
    <3>1. recorded' = recorded
      BY <2>2 DEF Mark
    <3>. QED
      BY <1>0, <2>2, <3>1, MarkBooks
  <2>3. CASE Head(w) \/ BatchPasses(w) \/ TellOthers(w)
    BY <1>1, <2>3 DEF Head, BatchPasses, TellOthers
  <2>. QED
    BY <1>5, <2>1, <2>2, <2>3 DEF Worker
<1>6. ASSUME \/ Restart \/ Stop \/ EndStop \/ Cycle \/ MetricsThread \/ TimeUp
             \/ UNCHANGED vars
      PROVE  Grows
  <2>. HIDE DEF Grows
  <2>1. UNCHANGED errors
    BY <1>6 DEF Restart, Stop, EndStop, Cycle, MetricsThread, MetricsHead, SampleErrors,
                SampleCores, Publish, MetricsOnly, TimeUp, vars
  <2>. QED
    BY <1>1, <2>1
<1>. HIDE DEF Grows, Reset
<1>7. Grows \/ Reset
  BY <1>3, <1>4, <1>5, <1>6 DEF Next
<1>. QED
  BY <1>7 DEF Grows, Reset

\* The metrics thread goes on from where it is, and no other touches the sample.
LEMMA SampleKept ==
  ASSUME SampleInv, [Next]_vars
  PROVE  SampleInv'
<1>1. ASSUME UNCHANGED sample, metrics' = metrics \/ metrics \in {"none", "head", "exited"}
      PROVE  SampleInv'
  BY <1>1 DEF SampleInv, NoErrors
<1>2. ASSUME NEW d \in BOOLEAN, NEW p \in BOOLEAN, Start(d, p) \/ EndRestart(d, p)
      PROVE  SampleInv'
  BY <1>1, <1>2 DEF Start, EndRestart, Launch, Joined, AllGone, Gone, threads
<1>3. CASE Restart \/ Stop \/ TimeUp \/ Cycle \/ UNCHANGED vars
  BY <1>1, <1>3 DEF Restart, Stop, TimeUp, Cycle, vars, threads
<1>4. CASE EndStop
  BY <1>1, <1>4 DEF EndStop, JoinAll, AllGone, Gone
<1>5. ASSUME NEW w \in Workers, Worker(w)
      PROVE  SampleInv'
  BY <1>1, <1>5 DEF Worker, Head, BatchPasses, BatchFails, Mark, TellOthers, EndBatch, Moves
<1>6. CASE MetricsHead
  BY <1>1, <1>6 DEF MetricsHead
<1>7. CASE SampleErrors
  BY <1>7 DEF SampleErrors, MetricsMoves, SampleInv
<1>8. CASE SampleCores
  BY <1>8 DEF SampleCores, MetricsMoves, SampleInv
<1>9. CASE Publish
  BY <1>9 DEF Publish, SampleInv, NoErrors
<1>. QED
  BY <1>2, <1>3, <1>4, <1>5, <1>6, <1>7, <1>8, <1>9 DEF Next, MetricsThread

\* What is published, and what the next round will publish, was read since the start;
\* what it was read from can only have grown.
LEMMA ShownKept ==
  ASSUME TypeOK, SampleInv, ShownInv, BooksInv, [Next]_vars
  PROVE  ShownInv'
<1>0. /\ sample \in Metrics /\ current_metrics \in Metrics
      /\ recorded \in Nat /\ core_count \in [Workers -> 0..MaxErrors]
      /\ MaxErrors \in Nat
  BY CpuAssumption DEF TypeOK
<1>. DEFINE Covers(shown, count, counts) ==
       /\ shown.error_count <= count
       /\ \A w \in Workers : shown.per_core_error_count[w] <= counts[w]
<1>1. CASE /\ recorded' = 0 /\ core_count' = [w \in Workers |-> 0]
           /\ metrics \in {"none", "exited"}
           /\ current_metrics' = NoErrors /\ UNCHANGED sample
  <2>1. sample' = NoErrors
    BY <1>1 DEF SampleInv
  <2>2. Covers(NoErrors, recorded', core_count')
    BY <1>1 DEF NoErrors
  <2>. QED
    BY <1>1, <2>1, <2>2 DEF ShownInv
<1>2. CASE /\ recorded' \in Nat /\ recorded <= recorded'
           /\ core_count' \in [Workers -> 0..MaxErrors]
           /\ \A w \in Workers : core_count[w] <= core_count'[w]
  <2>1. ASSUME NEW shown \in Metrics, Covers(shown, recorded, core_count)
        PROVE  Covers(shown, recorded', core_count')
    <3>1. shown.error_count \in Int
          /\ \A w \in Workers : shown.per_core_error_count[w] \in Int
      BY CpuAssumption DEF Metrics
    <3>2. shown.error_count <= recorded'
      BY <1>0, <1>2, <2>1, <3>1
    <3>3. ASSUME NEW w \in Workers
          PROVE  shown.per_core_error_count[w] <= core_count'[w]
      <4>1. core_count[w] \in Int /\ core_count'[w] \in Int
            /\ core_count[w] <= core_count'[w]
            /\ shown.per_core_error_count[w] <= core_count[w]
        BY <1>0, <1>2, <2>1
      <4>. QED
        BY <3>1, <4>1
    <3>. QED
      BY <3>2, <3>3
  <2>. HIDE DEF Covers
  <2>2. Covers(sample, recorded, core_count) /\ Covers(current_metrics, recorded, core_count)
    BY DEF ShownInv, Covers
  <2>3. ASSUME sample' \in Metrics, Covers(sample', recorded', core_count'),
               current_metrics' \in {current_metrics, sample}
        PROVE  ShownInv'
    <3>1. Covers(current_metrics', recorded', core_count')
      BY <1>0, <2>1, <2>2, <2>3
    <3>. QED
      BY <2>3, <3>1 DEF ShownInv, Covers
  <2>4. CASE UNCHANGED <<sample, current_metrics>>
    BY <1>0, <2>1, <2>2, <2>3, <2>4
  <2>5. CASE SampleErrors
    <3>1. sample' = [NoErrors EXCEPT !.error_count = recorded]
          /\ UNCHANGED <<recorded, core_count, current_metrics>>
          /\ recorded \in 0..(Lanes * MaxErrors)
      BY <2>5 DEF SampleErrors, MetricsOnly, errors, TypeOK
    <3>2. sample'.error_count = recorded
          /\ sample'.per_core_error_count = [w \in Workers |-> 0]
          /\ sample' \in Metrics
      BY <1>0, <3>1, ZeroMetrics DEF NoErrors, Metrics
    <3>3. Covers(sample', recorded', core_count')
      BY <1>0, <3>1, <3>2 DEF Covers
    <3>. QED
      BY <2>3, <3>1, <3>2, <3>3
  <2>6. CASE SampleCores
    <3>1. sample' = [sample EXCEPT !.core_has_error = core_error,
                                   !.per_core_error_count = core_count]
          /\ UNCHANGED <<recorded, core_count, current_metrics>>
          /\ core_error \in [Workers -> BOOLEAN]
      BY <2>6 DEF SampleCores, MetricsOnly, errors, TypeOK
    <3>2. sample'.error_count = sample.error_count
          /\ sample'.per_core_error_count = core_count
          /\ sample' \in Metrics
      BY <1>0, <3>1 DEF Metrics
    <3>3. Covers(sample', recorded', core_count')
      BY <1>0, <2>2, <3>1, <3>2 DEF Covers
    <3>. QED
      BY <2>3, <3>1, <3>2, <3>3
  <2>7. CASE Publish
    <3>1. sample' = NoErrors /\ current_metrics' = sample
          /\ UNCHANGED <<recorded, core_count>>
      BY <2>7 DEF Publish, Fresh, MetricsOnly, errors
    <3>2. Covers(NoErrors, recorded', core_count')
      BY <1>0, <3>1 DEF Covers, NoErrors
    <3>. QED
      BY <2>3, <3>1, <3>2, ZeroMetrics
  <2>8. ASSUME NEW d \in BOOLEAN, NEW p \in BOOLEAN, Start(d, p) \/ EndRestart(d, p)
        PROVE  ShownInv'
    <3>1. UNCHANGED sample /\ (current_metrics' = NoErrors \/ UNCHANGED current_metrics)
      BY <2>8 DEF Start, EndRestart, Launch, ResetMetrics
    <3>2. Covers(NoErrors, recorded', core_count')
      BY <1>2, CpuAssumption DEF Covers, NoErrors
    <3>3. Covers(sample', recorded', core_count')
          /\ Covers(current_metrics', recorded', core_count')
      BY <1>0, <2>1, <2>2, <3>1, <3>2
    <3>. QED
      BY <3>3 DEF ShownInv, Covers
  <2>9. ASSUME NEW w \in Workers, Worker(w)
        PROVE  ShownInv'
    BY <2>4, <2>9 DEF Worker, Head, BatchPasses, BatchFails, Mark, TellOthers
  <2>. QED
    BY <2>4, <2>5, <2>6, <2>7, <2>8, <2>9
       DEF Next, Restart, Stop, EndStop, Cycle, MetricsThread, MetricsHead, TimeUp, vars
<1>. QED
  BY <1>1, <1>2, RecordingGrows

\* Every variable stays in its range: what is counted is bounded by the batches that
\* failed, and what is shown by what is counted.
LEMMA TypeKept ==
  ASSUME TypeOK, BooksInv, [Next]_vars
  PROVE  TypeOK'
<1>1. recorded' \in 0..(Lanes * MaxErrors) /\ core_count' \in [Workers -> 0..MaxErrors]
      /\ core_error' \in [Workers -> BOOLEAN]
  <2>1. BooksInv'
    BY BooksKept
  <2>2. recorded' <= Lanes * FailedBatches' /\ FailedBatches' <= MaxErrors
    BY <2>1 DEF BooksInv
  <2>3. FailedBatches' \in Nat
    BY Books, CountedFinite, MarkingFinite
  <2>4. Lanes \in Nat /\ MaxErrors \in Nat
    BY CpuAssumption
  <2>5. Lanes * FailedBatches' <= Lanes * MaxErrors /\ Lanes * FailedBatches' \in Nat
        /\ Lanes * MaxErrors \in Nat
    BY <2>2, <2>3, <2>4, TimesMonotonic
  <2>6. recorded' \in Nat
    BY RecordingGrows
  <2>7. recorded' \in 0..(Lanes * MaxErrors)
    BY <2>2, <2>5, <2>6
  <2>8. [w \in Workers |-> 0] \in [Workers -> 0..MaxErrors]
        /\ [w \in Workers |-> FALSE] \in [Workers -> BOOLEAN]
    BY <2>4
  <2>. QED
    BY <2>7, <2>8, RecordingGrows
<1>2. active_core' \in Workers
  <2>1. 0 \in Workers /\ NextCore \in Workers /\ active_core \in Workers
    BY CpuAssumption DEF Workers, NextCore, TypeOK
  <2>. QED
    BY <2>1 DEF Next, Start, EndRestart, Launch, Restart, Stop, EndStop, Worker, Head,
                BatchPasses, BatchFails, Mark, TellOthers, Cycle, MetricsThread,
                MetricsHead, SampleErrors, SampleCores, Publish, MetricsOnly, TimeUp, vars
<1>3. (mode' \in Modes) /\ holder' \in {"nobody", "restart", "stop"}
  BY DEF TypeOK, Next, Start, EndRestart, Launch, Restart, Stop, EndStop, Worker, Head,
         BatchPasses, BatchFails, Mark, TellOthers, Cycle, MetricsThread, MetricsHead,
         SampleErrors, SampleCores, Publish, MetricsOnly, TimeUp, vars, config, clients
<1>4. sample' \in Metrics /\ current_metrics' \in Metrics
  <2>1. sample \in Metrics /\ current_metrics \in Metrics
    BY DEF TypeOK
  <2>2. [NoErrors EXCEPT !.error_count = recorded] \in Metrics
    BY ZeroMetrics DEF TypeOK, Metrics
  <2>3. [sample EXCEPT !.core_has_error = core_error, !.per_core_error_count = core_count]
          \in Metrics
    BY <2>1 DEF TypeOK, Metrics
  <2>. QED
    BY <2>1, <2>2, <2>3, ZeroMetrics
       DEF Next, Start, EndRestart, Launch, ResetMetrics, Restart, Stop, EndStop, Worker,
           Head, BatchPasses, BatchFails, Mark, TellOthers, Cycle, MetricsThread,
           MetricsHead, SampleErrors, SampleCores, Publish, Fresh, MetricsOnly, TimeUp, vars
<1>5. (running' \in BOOLEAN) /\ timed' \in BOOLEAN /\ cycling' \in BOOLEAN
      /\ stop_on_error' \in BOOLEAN /\ time_up' \in BOOLEAN /\ terminated' \in BOOLEAN
  <2>1. running \in BOOLEAN /\ timed \in BOOLEAN /\ cycling \in BOOLEAN
        /\ stop_on_error \in BOOLEAN /\ time_up \in BOOLEAN /\ terminated \in BOOLEAN
    BY DEF TypeOK
  <2>2. ASSUME NEW d \in BOOLEAN, NEW p \in BOOLEAN, Start(d, p) \/ EndRestart(d, p)
        PROVE  (running' \in BOOLEAN) /\ timed' \in BOOLEAN /\ cycling' \in BOOLEAN
               /\ stop_on_error' \in BOOLEAN /\ time_up' \in BOOLEAN
               /\ terminated' \in BOOLEAN
    BY <2>1, <2>2 DEF Start, EndRestart, Launch
  <2>3. ASSUME NEW w \in Workers, Worker(w)
        PROVE  /\ running' \in BOOLEAN
               /\ UNCHANGED <<timed, cycling, stop_on_error, time_up, terminated>>
    BY <2>1, <2>3 DEF Worker, Head, BatchPasses, BatchFails, Mark, TellOthers, EndBatch,
                      config, clients
  <2>4. CASE Restart \/ Stop
    BY <2>1, <2>4 DEF Restart, Stop, config
  <2>5. CASE EndStop \/ Cycle \/ MetricsThread \/ TimeUp \/ UNCHANGED vars
    BY <2>1, <2>5 DEF EndStop, Cycle, MetricsThread, MetricsHead, SampleErrors,
                      SampleCores, Publish, MetricsOnly, TimeUp, vars, config, clients
  <2>. QED
    BY <2>1, <2>2, <2>3, <2>4, <2>5 DEF Next
<1>6. worker' \in [Workers -> Places]
  <2>1. worker \in [Workers -> Places] /\ {"none", "head", "batch", "mark", "tell", "exited"} = Places
    BY DEF TypeOK, Places
  <2>2. \A w \in Workers, to \in Places : [worker EXCEPT ![w] = to] \in [Workers -> Places]
    BY <2>1
  <2>3. ASSUME NEW w \in Workers, Worker(w)
        PROVE  \E to \in Places : worker' = [worker EXCEPT ![w] = to]
    BY <2>1, <2>3 DEF Worker, Head, BatchPasses, BatchFails, Mark, TellOthers, EndBatch, Moves
  <2>4. [w \in Workers |-> "none"] \in [Workers -> Places]
        /\ [w \in Workers |-> "head"] \in [Workers -> Places]
    BY <2>1
  <2>5. CASE \E w \in Workers : Worker(w)
    BY <2>2, <2>3, <2>5
  <2>. QED
    BY <2>1, <2>4, <2>5
       DEF Next, Start, EndRestart, Launch, Restart, Stop, EndStop, JoinAll, Cycle,
           MetricsThread, MetricsHead, SampleErrors, SampleCores, Publish, MetricsMoves,
           TimeUp, vars, threads
<1>7. cycler' \in {"none", "sleep", "exited"}
      /\ metrics' \in {"none", "head", "sample", "cores", "publish", "exited"}
  BY DEF TypeOK, Next, Start, EndRestart, Launch, Restart, Stop, EndStop, JoinAll, Worker,
         Head, BatchPasses, BatchFails, Mark, TellOthers, EndBatch, Moves, Cycle,
         MetricsThread, MetricsHead, SampleErrors, SampleCores, Publish, MetricsMoves,
         TimeUp, vars, threads
<1>. QED
  BY <1>1, <1>2, <1>3, <1>4, <1>5, <1>6, <1>7 DEF TypeOK

LEMMA CpuInitially == Init => CpuInv
<1>. SUFFICES ASSUME Init PROVE CpuInv
  OBVIOUS
<1>1. TypeOK
  <2>1. 0 \in Workers /\ 0 \in 0..(Lanes * MaxErrors)
    BY CpuAssumption DEF Workers
  <2>2. NoErrors.core_has_error \in [Workers -> BOOLEAN]
        /\ NoErrors.per_core_error_count \in [Workers -> 0..MaxErrors]
    BY CpuAssumption DEF NoErrors
  <2>3. [w \in Workers |-> "none"] \in [Workers -> Places]
    BY DEF Places
  <2>. QED
    BY <2>1, <2>2, <2>3, ZeroMetrics DEF Init, TypeOK
<1>2. SampleInv
  BY DEF Init, SampleInv
<1>3. ShownInv
  BY DEF Init, ShownInv, NoErrors
<1>4. BooksInv
  <2>1. FailedBatches = 0
    <3>1. Cardinality(CountedIn(core_count)) = 0
      BY NothingCounted DEF Init, NoErrors
    <3>2. Cardinality(MarkingIn(worker)) = 0
      BY NobodyMarking DEF Init
    <3>. QED
      BY <3>1, <3>2, Books
  <2>. QED
    BY <2>1, CpuAssumption DEF Init, BooksInv, NoErrors
<1>. QED
  BY <1>1, <1>2, <1>3, <1>4 DEF CpuInv

\* The inductive invariant, over every behaviour.
LEMMA CpuInvariant == Spec => []CpuInv
<1>1. CpuInv /\ [Next]_vars => CpuInv'
  BY TypeKept, SampleKept, ShownKept, BooksKept DEF CpuInv
<1>. QED
  BY CpuInitially, <1>1, PTL DEF Spec

-----------------------------------------------------------------------------
\* Every variable of the CPU engine stays in its range, and so what is recorded within
\* the entries that the batches that failed can have made.
THEOREM TypeCorrect == Spec => []TypeOK
<1>1. CpuInv => TypeOK
  BY DEF CpuInv
<1>. QED
  BY CpuInvariant, <1>1, PTL

\* get_metrics() shows errors of the test that was started last and of no other: with
\* any number of cores, wherever the metrics thread was when the test before was ended.
THEOREM ShowsOnlyThisTestHolds == Spec => []ShowsOnlyThisTest
<1>1. CpuInv => ShowsOnlyThisTest
  BY DEF CpuInv, ShownInv, ShowsOnlyThisTest
<1>. QED
  BY CpuInvariant, <1>1, PTL

\* The flags and counts of the cores and the entries of the verifier agree, whichever
\* workers fail, in any order, and in whatever mode the test runs.
THEOREM ErrorBooksAgreeHolds == Spec => []ErrorBooksAgree
<1>1. CpuInv => ErrorBooksAgree
  <2>. SUFFICES ASSUME CpuInv PROVE ErrorBooksAgree
    OBVIOUS
  <2>1. TotalCounted <= FailedBatches /\ TotalCounted \in Nat /\ FailedBatches \in Nat
    BY Books, BooksType, CountedFinite, MarkingFinite
  <2>2. mode = "lanes" => TotalCounted <= recorded
    BY <2>1, CpuAssumption DEF CpuInv, BooksInv, TypeOK
  <2>. QED
    BY <2>2 DEF CpuInv, BooksInv, ErrorBooksAgree
<1>. QED
  BY CpuInvariant, <1>1, PTL
=============================================================================
