------------------------ MODULE StorageEngineProofs ------------------------
(***************************************************************************)
(* The storage engine, for files and pools of any size and any number of   *)
(* tests and faults: what its threads may rely on, what "completed" and an *)
(* error count mean, and what is left on the disk.                         *)
(***************************************************************************)
EXTENDS StorageEngine, FiniteSetTheorems, TLAPS

Places == {"none", "alloc", "create", "fill", "open", "seq", "pool", "join",
           "verify", "written", "reopen", "close", "exited"}
PoolPlaces == {"starting", "loop", "io", "gone"}
States == {"", "preparing", "testing", "completed", "error"}

FlagsInv ==
  /\ running \in BOOLEAN /\ stop_requested \in BOOLEAN /\ timed \in BOOLEAN
  /\ stop_on_error \in BOOLEAN /\ exists \in BOOLEAN /\ fd \in BOOLEAN
  /\ stopping \in BOOLEAN /\ expired \in BOOLEAN /\ raced \in BOOLEAN

TypeInv ==
  /\ mode \in StorageMode /\ state \in States /\ worker \in Places
  /\ errors \in Nat /\ progress \in 0..ProgressCap /\ pass \in 0..B
  /\ shared_ops \in Nat /\ issued \in Nat /\ pool \in [Workers -> PoolPlaces]
  /\ data \in SUBSET Blocks /\ deleters \in Nat /\ bench \in NotCalled..Returned
  /\ faults \in 0..MaxFaults /\ starts \in 0..MaxStarts

Idle == {"none", "exited"}
Opened == {"fill", "seq", "pool", "join", "written", "close"}
Pooled == {"pool", "join"}

\* The engine runs while its worker does, and is done when that is.
RunningInv ==
  /\ running <=> worker \notin Idle
  /\ state = "completed" => worker \in Idle

\* Each deletion was left behind by a test of its own; a benchmark has its own engine.
StartsInv ==
  /\ bench # NotCalled => starts = 0
  /\ starts = 0 => worker = "none" /\ deleters = 0 /\ state # "completed"
  /\ deleters <= starts /\ (worker # "none" => deleters < starts)

\* Where the worker is says which mode it serves, ...
ModeInv ==
  /\ worker \in {"create", "fill"} => mode \in needs_existing_file
  /\ worker \in {"verify", "written", "reopen"} => mode = "VERIFY"
  /\ worker = "open" => mode # "VERIFY"
  /\ worker = "seq" => mode \in {"SEQ_READ", "SEQ_WRITE"}
  /\ worker \in Pooled => mode \in Random

\* ... that the pool has no threads ...
GoneInv == worker \notin Pooled => \A w \in Workers : pool[w] = "gone"

\* ... and whether the file is open.
OpenInv == fd <=> worker \in Opened \/ bench = Filling

PlaceInv == RunningInv /\ StartsInv /\ ModeInv /\ GoneInv /\ OpenInv

\* The file is filled from the front.
FilledInv == worker = "fill" => \E n \in 0..B : data = 0..(n - 1)

\* Whoever reads the file, where nothing was refused and no stop cut the filling short,
\* finds it full; a thread of the pool still does when the stop comes during its I/O.
FullInv ==
  /\ mode \in Reading /\ worker \in {"open", "seq", "pool", "join"} /\ faults = 0
       /\ ~stop_requested => data = Blocks
  /\ mode = "RAND_READ" /\ faults = 0 /\ (\E w \in Workers : pool[w] = "io") => data = Blocks

\* A file to read is there, unless the deletion of an earlier test took it.
ThereInv ==
  /\ mode \in Reading /\ worker \in {"fill", "open"} /\ ~raced => exists
  /\ worker \in {"written", "reopen"} /\ ~raced => exists

\* A verify mode that nobody stopped reads back a whole file.
WrittenInv ==
  mode = "VERIFY" /\ worker \in {"reopen", "close"} /\ ~stop_requested => data = Blocks

FileInv == FilledInv /\ FullInv /\ ThereInv /\ WrittenInv

ThreadsAt(place, places) == {w \in Workers : places[w] = place}
Busy == Cardinality(ThreadsAt("io", pool))
Left == Cardinality(ThreadsAt("gone", pool))

\* How the pool shares its counter: an operation is fetched once, and unless there was
\* a stop or a fault, a thread leaves only when there is none left to fetch.
PoolInv ==
  /\ issued + Busy <= shared_ops /\ issued + Busy <= B
  /\ worker \in Pooled /\ faults = 0 /\ ~stop_requested =>
       /\ issued + Busy = shared_ops \/ issued + Busy = B
       /\ (\E w \in Workers : pool[w] = "gone") => shared_ops >= B
  /\ shared_ops <= B + Left

\* An error is a fault of the system, or an operation of the pool, but for the one that
\* ends a test.
ErrorInv ==
  /\ worker \in {"close", "exited", "none"} => errors <= faults + issued + 1
  /\ worker \in Pooled => errors <= faults + issued
  /\ worker \notin ({"close", "exited", "none"} \cup Pooled) => errors <= faults

Whole ==
  CASE mode \in Random -> issued = B
    [] mode = "VERIFY" -> data = Blocks
    [] OTHER -> pass = B

\* The test is whole by the time its file is closed.
DoneInv ==
  (worker = "close" \/ state = "completed")
    /\ errors + faults = 0 /\ ~stop_requested /\ ~expired => Whole

\* The pool is joined when it has done every operation.
DrainedInv ==
  worker = "close" /\ mode \in Random /\ faults = 0 /\ ~stop_requested => issued = B

-----------------------------------------------------------------------------
(* The steps of the program, those of the loops one by one.                *)

PoolAction(w) ==
  \/ Begin(w) \/ Fetch(w) \/ Refused(w)
  \/ \E b \in Blocks : mode \in {"RAND_WRITE", "MIXED"} /\ WriteAt(w, b)
  \/ \E b \in Blocks : mode \in {"RAND_READ", "MIXED"} /\ ReadAt(w, b)

LEMMA Steps ==
  ASSUME [Next]_vars
  PROVE  \/ BufferMissing \/ Prepare \/ CreateFails \/ CreateFile \/ Fill \/ EndFill
         \/ OpenFails \/ Open \/ CloseAndFinish
         \/ EndSeq
         \/ mode = "SEQ_WRITE" /\ SeqIO /\ data' = data \cup {next}
         \/ mode = "SEQ_READ" /\ SeqIO /\ BeforeEnd(next) /\ UNCHANGED data
         \/ SeqFails /\ Fault
         \/ mode = "SEQ_READ" /\ SeqFails /\ ~BeforeEnd(next) /\ UNCHANGED faults
         \/ VerifyCreate \/ VerifyGivesUp \/ VerifyWritten \/ VerifyReopen \/ VerifyStopped
         \/ LeaveMonitor \/ JoinPool \/ Monitor
         \/ \E w \in Workers : PoolAction(w)
         \/ Stop \/ EndStop \/ Delete \/ TimePasses
         \/ Benchmark \/ BenchFill \/ BenchTest
         \/ \E m \in Modes, t \in BOOLEAN : Start(m, t)
         \/ UNCHANGED vars
<1>1. run => \/ BufferMissing \/ Prepare \/ CreateFails \/ CreateFile \/ Fill \/ EndFill
             \/ OpenFails \/ Open \/ CloseAndFinish \/ seq_write \/ seq_read \/ Verify
  BY DEF run
<1>2. seq_write => \/ EndSeq
                   \/ mode = "SEQ_WRITE" /\ SeqIO /\ data' = data \cup {next}
                   \/ SeqFails /\ Fault
  BY DEF seq_write
<1>3. seq_read => \/ EndSeq
                  \/ mode = "SEQ_READ" /\ SeqIO /\ BeforeEnd(next) /\ UNCHANGED data
                  \/ SeqFails /\ Fault
                  \/ mode = "SEQ_READ" /\ SeqFails /\ ~BeforeEnd(next) /\ UNCHANGED faults
  BY DEF seq_read
<1>4. rand_write => \/ LeaveMonitor \/ JoinPool \/ Monitor
                    \/ \E w \in Workers : PoolAction(w)
  BY DEF rand_write, Owner, Thread, PoolAction
<1>5. rand_read => \/ LeaveMonitor \/ JoinPool \/ Monitor
                   \/ \E w \in Workers : PoolAction(w)
  BY DEF rand_read, Owner, Thread, PoolAction
<1>6. mixed_io => \/ LeaveMonitor \/ JoinPool \/ Monitor
                  \/ \E w \in Workers : PoolAction(w)
  BY DEF mixed_io, Owner, Thread, PoolAction
<1>7. Verify => \/ VerifyCreate \/ VerifyGivesUp \/ VerifyWritten \/ VerifyReopen
                \/ VerifyStopped
  BY DEF Verify
<1>. QED
  BY <1>1, <1>2, <1>3, <1>4, <1>5, <1>6, <1>7 DEF Next

-----------------------------------------------------------------------------
(* Every variable stays in its range.                                      *)

LEMMA FlagsKept ==
  ASSUME FlagsInv, [Next]_vars
  PROVE  FlagsInv'
<1>. USE DEF FlagsInv, config, metrics, threads, file, control, others, poolRest,
             verifyRest, benchRest, Step, Exit, Finish, Fault, report_error, Create,
             OpenToRead, Close
<1>1. CASE BufferMissing \/ Prepare \/ CreateFails \/ CreateFile \/ Fill \/ EndFill
  BY <1>1 DEF BufferMissing, Prepare, CreateFails, CreateFile, Fill, EndFill
<1>2. CASE OpenFails \/ Open \/ CloseAndFinish \/ EndSeq
  BY <1>2 DEF OpenFails, Open, CloseAndFinish, EndSeq
<1>3. CASE SeqIO \/ SeqFails
  BY <1>3 DEF SeqIO, SeqFails
<1>4. CASE VerifyCreate \/ VerifyGivesUp \/ VerifyWritten \/ VerifyReopen \/ VerifyStopped
  BY <1>4 DEF VerifyCreate, VerifyGivesUp, VerifyWritten, VerifyReopen, VerifyStopped
<1>5. CASE LeaveMonitor \/ JoinPool \/ Monitor
  BY <1>5 DEF LeaveMonitor, JoinPool, Monitor
<1>6. ASSUME NEW w \in Workers, PoolAction(w)
      PROVE  FlagsInv'
  <2>1. CASE Begin(w) \/ Refused(w)
    BY <2>1 DEF Begin, Refused, IO
  <2>2. CASE Fetch(w)
    BY <2>2 DEF Fetch
  <2>3. ASSUME NEW b \in Blocks, WriteAt(w, b) \/ ReadAt(w, b)
        PROVE  FlagsInv'
    BY <2>3 DEF WriteAt, ReadAt, IO
  <2>. QED
    BY <1>6, <2>1, <2>2, <2>3 DEF PoolAction
<1>7. CASE Stop \/ EndStop \/ TimePasses
  BY <1>7 DEF Stop, EndStop, TimePasses
<1>8. CASE Delete
  BY <1>8 DEF Delete
<1>9. CASE Benchmark \/ BenchFill \/ BenchTest
  BY <1>9 DEF Benchmark, BenchFill, BenchTest
<1>10. ASSUME NEW m \in Modes, NEW t \in BOOLEAN, Start(m, t)
       PROVE  FlagsInv'
  BY <1>10 DEF Start
<1>11. CASE UNCHANGED vars
  BY <1>11 DEF vars
<1>. HIDE DEF FlagsInv, config, metrics, threads, file, control, others, poolRest,
              verifyRest, benchRest, Step, Exit, Finish, Fault, report_error, Create,
              OpenToRead, Close
<1>. QED
  BY Steps, <1>1, <1>2, <1>3, <1>4, <1>5, <1>6, <1>7, <1>8, <1>9, <1>10, <1>11

LEMMA Bounds ==
  /\ B \in Nat /\ B >= 1 /\ Q \in Nat /\ Q >= 1 /\ MaxStarts \in Nat /\ MaxFaults \in Nat
  /\ Modes \subseteq StorageMode /\ Returned = 9 /\ ProgressCap = 2 * B
  /\ Blocks = 0..(B - 1) /\ Workers = 1..Q /\ NotCalled = -1 /\ Filling = 0
  /\ DOMAIN BenchTests = 1..8
BY StorageEngineAssumption
   DEF Returned, BenchTests, ProgressCap, Blocks, Workers, NotCalled, Filling

\* A file filled from the front up to n has n I/Os in it.
LEMMA FilledFront ==
  ASSUME NEW n \in 0..B
  PROVE  /\ Cardinality(0..(n - 1)) = n
         /\ 0..(n - 1) \cup {n} = 0..n
         /\ n = B => 0..(n - 1) = Blocks
         /\ n < B => n \in Blocks
<1>1. n \in Int /\ n >= 0 /\ 0 \in Int /\ n - 1 \in Int
  BY Bounds
<1>2. Cardinality(0..(n - 1)) = IF 0 > n - 1 THEN 0 ELSE n - 1 - 0 + 1
  BY <1>1, FS_Interval
<1>. QED
  BY <1>1, <1>2, Bounds

\* One I/O more at the front of the file.
LEMMA FillFacts ==
  ASSUME TypeInv, FileInv, Fill
  PROVE  \E n \in 0..(B - 1) :
           /\ data = 0..(n - 1) /\ data' = 0..n /\ progress' = n + 1
           /\ Cardinality(data) = n /\ data' \in SUBSET Blocks
<1>1. PICK n \in 0..B : data = 0..(n - 1)
  BY DEF FileInv, FilledInv, Fill
<1>2. Cardinality(data) = n /\ data' = data \cup {n} /\ n < B
  BY <1>1, FilledFront DEF Fill
<1>3. n \in 0..(B - 1) /\ n + 1 \in 0..B /\ n + 1 - 1 = n
  BY <1>2, Bounds
<1>4. data' = 0..n
  BY <1>1, <1>2, FilledFront
<1>5. Cardinality(data') = n + 1
  BY <1>3, <1>4, FilledFront
<1>6. progress' = n + 1
  BY <1>5 DEF Fill
<1>7. data' \in SUBSET Blocks
  BY <1>3, <1>4, Bounds
<1>. QED
  BY <1>1, <1>2, <1>3, <1>4, <1>6, <1>7

LEMMA PlacesKept ==
  ASSUME TypeInv, [Next]_vars
  PROVE  mode' \in StorageMode /\ state' \in States /\ worker' \in Places
<1>. USE DEF config, metrics, others, poolRest, verifyRest, benchRest, Step, Exit, Finish
<1>0. mode \in StorageMode /\ state \in States /\ worker \in Places /\ Modes \subseteq StorageMode
  BY Bounds DEF TypeInv
<1>. DEFINE Kept == mode' \in StorageMode /\ state' \in States /\ worker' \in Places
<1>1. BufferMissing \/ Prepare \/ CreateFails \/ CreateFile \/ Fill \/ EndFill => Kept
  BY <1>0 DEF BufferMissing, Prepare, CreateFails, CreateFile, Fill, EndFill, Places, States
<1>2. OpenFails \/ Open \/ CloseAndFinish \/ EndSeq \/ SeqIO \/ SeqFails => Kept
  BY <1>0 DEF OpenFails, Open, CloseAndFinish, EndSeq, SeqIO, SeqFails, Places, States
<1>3. VerifyCreate \/ VerifyGivesUp \/ VerifyWritten \/ VerifyReopen \/ VerifyStopped => Kept
  BY <1>0 DEF VerifyCreate, VerifyGivesUp, VerifyWritten, VerifyReopen, VerifyStopped,
              Places, States
<1>4. LeaveMonitor \/ JoinPool \/ Monitor => Kept
  BY <1>0 DEF LeaveMonitor, JoinPool, Monitor, Places
<1>5. \A w \in Workers : PoolAction(w) => Kept
  BY <1>0 DEF PoolAction, Begin, Fetch, Refused, WriteAt, ReadAt, IO
<1>6. Stop \/ EndStop \/ TimePasses \/ Delete \/ Benchmark \/ BenchFill \/ BenchTest => Kept
  BY <1>0 DEF Stop, EndStop, TimePasses, Delete, Benchmark, BenchFill, BenchTest, Places
<1>7. \A m \in Modes, t \in BOOLEAN : Start(m, t) => Kept
  BY <1>0 DEF Start, Places, States
<1>8. UNCHANGED vars => Kept
  BY <1>0 DEF vars
<1>. HIDE DEF Kept
<1>9. Kept
  BY Steps, <1>1, <1>2, <1>3, <1>4, <1>5, <1>6, <1>7, <1>8
<1>. QED
  BY <1>9 DEF Kept

LEMMA NumbersKept ==
  ASSUME TypeInv, FileInv, [Next]_vars
  PROVE  /\ errors' \in Nat /\ progress' \in 0..ProgressCap /\ pass' \in 0..B
         /\ shared_ops' \in Nat /\ issued' \in Nat
<1>. USE Bounds
<1>. USE DEF metrics, threads, others, poolRest, verifyRest, benchRest, Step, Exit, Finish,
             report_error
<1>0. /\ errors \in Nat /\ progress \in 0..ProgressCap /\ pass \in 0..B
      /\ shared_ops \in Nat /\ issued \in Nat
  BY DEF TypeInv
<1>. DEFINE Kept == /\ errors' \in Nat /\ progress' \in 0..ProgressCap /\ pass' \in 0..B
                    /\ shared_ops' \in Nat /\ issued' \in Nat
<1>1. BufferMissing \/ Prepare \/ CreateFails \/ CreateFile \/ EndFill \/ OpenFails => Kept
  BY <1>0 DEF BufferMissing, Prepare, CreateFails, CreateFile, EndFill, OpenFails
<1>2. Fill => Kept
  <2>. SUFFICES ASSUME Fill PROVE Kept
    OBVIOUS
  <2>1. PICK n \in 0..(B - 1) : progress' = n + 1
    BY FillFacts
  <2>2. n + 1 \in 0..ProgressCap
    OBVIOUS
  <2>. QED
    BY <1>0, <2>1, <2>2 DEF Fill
<1>3. Open \/ CloseAndFinish \/ EndSeq => Kept
  BY <1>0 DEF Open, CloseAndFinish, EndSeq
<1>4. SeqIO \/ SeqFails => Kept
  <2>1. next \in 0..B /\ next' \in {0, pass'} /\ (~(pass >= B) => next = pass)
        /\ (pass >= B => next = 0)
    BY <1>0 DEF next
  <2>2. SeqIO => Kept
    BY <1>0, <2>1 DEF SeqIO
  <2>3. SeqFails => Kept
    BY <1>0, <2>1 DEF SeqFails
  <2>. QED
    BY <2>2, <2>3
<1>5. VerifyCreate \/ VerifyGivesUp \/ VerifyWritten \/ VerifyReopen \/ VerifyStopped => Kept
  BY <1>0 DEF VerifyCreate, VerifyGivesUp, VerifyWritten, VerifyReopen, VerifyStopped
<1>6. LeaveMonitor \/ JoinPool \/ Monitor => Kept
  BY <1>0 DEF LeaveMonitor, JoinPool, Monitor
<1>7. \A w \in Workers : PoolAction(w) => Kept
  BY <1>0 DEF PoolAction, Begin, Fetch, Refused, WriteAt, ReadAt, IO
<1>8. Stop \/ EndStop \/ TimePasses \/ Delete \/ Benchmark \/ BenchFill \/ BenchTest => Kept
  BY <1>0 DEF Stop, EndStop, TimePasses, Delete, Benchmark, BenchFill, BenchTest
<1>9. \A m \in Modes, t \in BOOLEAN : Start(m, t) => Kept
  BY <1>0 DEF Start
<1>10. UNCHANGED vars => Kept
  BY <1>0 DEF vars
<1>. HIDE DEF Kept
<1>11. Kept
  BY Steps, <1>1, <1>2, <1>3, <1>4, <1>5, <1>6, <1>7, <1>8, <1>9, <1>10
<1>. QED
  BY <1>11 DEF Kept

LEMMA CountersKept ==
  ASSUME TypeInv, [Next]_vars
  PROVE  /\ deleters' \in Nat /\ bench' \in NotCalled..Returned
         /\ faults' \in 0..MaxFaults /\ starts' \in 0..MaxStarts
<1>. USE DEF others, poolRest, verifyRest, benchRest, Step, Exit, Finish
<1>0. /\ deleters \in Nat /\ bench \in NotCalled..Returned
      /\ faults \in 0..MaxFaults /\ starts \in 0..MaxStarts
  BY DEF TypeInv
<1>a. Fault \/ UNCHANGED faults => faults' \in 0..MaxFaults
  BY <1>0, Bounds DEF Fault
<1>b. UNCHANGED <<deleters, bench, starts>> /\ (Fault \/ UNCHANGED faults)
        => /\ deleters' \in Nat /\ bench' \in NotCalled..Returned
           /\ faults' \in 0..MaxFaults /\ starts' \in 0..MaxStarts
  BY <1>0, <1>a
<1>. DEFINE Kept == /\ deleters' \in Nat /\ bench' \in NotCalled..Returned
                    /\ faults' \in 0..MaxFaults /\ starts' \in 0..MaxStarts
<1>1. BufferMissing \/ Prepare \/ CreateFails \/ CreateFile \/ Fill \/ EndFill => Kept
  BY <1>b DEF BufferMissing, Prepare, CreateFails, CreateFile, Fill, EndFill
<1>2. OpenFails \/ Open \/ CloseAndFinish \/ EndSeq => Kept
  BY <1>b DEF OpenFails, Open, CloseAndFinish, EndSeq
<1>3. SeqIO \/ (SeqFails /\ (Fault \/ UNCHANGED faults)) => Kept
  BY <1>b DEF SeqIO, SeqFails
<1>4. VerifyCreate \/ VerifyGivesUp \/ VerifyWritten \/ VerifyReopen \/ VerifyStopped => Kept
  BY <1>b DEF VerifyCreate, VerifyGivesUp, VerifyWritten, VerifyReopen, VerifyStopped
<1>5. LeaveMonitor \/ JoinPool \/ Monitor => Kept
  BY <1>b DEF LeaveMonitor, JoinPool, Monitor
<1>6. \A w \in Workers : PoolAction(w) => Kept
  BY <1>b DEF PoolAction, Begin, Fetch, Refused, WriteAt, ReadAt, IO
<1>7. Stop \/ EndStop \/ TimePasses \/ Delete => Kept
  <2>1. Stop \/ TimePasses => Kept
    BY <1>b DEF Stop, TimePasses
  <2>2. EndStop => Kept
    BY <1>0 DEF EndStop
  <2>3. Delete => Kept
    BY <1>0 DEF Delete
  <2>. QED
    BY <2>1, <2>2, <2>3
<1>8. Benchmark \/ BenchFill \/ BenchTest => Kept
  <2>. USE Bounds
  <2>1. Benchmark => Kept
    BY <1>0, <1>a DEF Benchmark
  <2>2. BenchFill => Kept
    BY <1>0, <1>a DEF BenchFill
  <2>3. BenchTest => Kept
    <3>. SUFFICES ASSUME BenchTest PROVE Kept
      OBVIOUS
    <3>1. bench \in 1..8 /\ bench' = bench + 1 /\ UNCHANGED <<deleters, starts>>
      BY DEF BenchTest
    <3>2. Fault \/ UNCHANGED faults
      BY DEF BenchTest
    <3>. QED
      BY <1>0, <1>a, <3>1, <3>2
  <2>. QED
    BY <2>1, <2>2, <2>3
<1>9. \A m \in Modes, t \in BOOLEAN : Start(m, t) => Kept
  BY <1>0, Bounds DEF Start
<1>10. UNCHANGED vars => Kept
  BY <1>b DEF vars
<1>. HIDE DEF Kept, Fault
<1>11. Kept
  BY Steps, <1>1, <1>2, <1>3, <1>4, <1>5, <1>6, <1>7, <1>8, <1>9, <1>10
<1>. QED
  BY <1>11 DEF Kept

LEMMA PoolDataKept ==
  ASSUME TypeInv, FileInv, [Next]_vars
  PROVE  pool' \in [Workers -> PoolPlaces] /\ data' \in SUBSET Blocks
<1>. USE DEF threads, file, others, poolRest, verifyRest, benchRest, Step, Exit, Finish,
             Create, OpenToRead, Close
<1>0. pool \in [Workers -> PoolPlaces] /\ data \in SUBSET Blocks
      /\ PoolPlaces = {"starting", "loop", "io", "gone"}
  BY DEF TypeInv, PoolPlaces
<1>. DEFINE Kept == pool' \in [Workers -> PoolPlaces] /\ data' \in SUBSET Blocks
<1>1. BufferMissing \/ Prepare \/ CreateFails \/ CreateFile \/ EndFill => Kept
  BY <1>0 DEF BufferMissing, Prepare, CreateFails, CreateFile, EndFill
<1>2. Fill => Kept
  BY <1>0, FillFacts DEF Fill
<1>3. OpenFails \/ Open \/ CloseAndFinish \/ EndSeq \/ SeqFails => Kept
  BY <1>0 DEF OpenFails, Open, CloseAndFinish, EndSeq, SeqFails
<1>4. SeqIO /\ (data' = data \cup {next} \/ UNCHANGED data) => Kept
  <2>1. next \in Blocks
    BY Bounds DEF next, TypeInv
  <2>. QED
    BY <1>0, <2>1 DEF SeqIO
<1>5. VerifyCreate \/ VerifyGivesUp \/ VerifyWritten \/ VerifyReopen \/ VerifyStopped => Kept
  BY <1>0 DEF VerifyCreate, VerifyGivesUp, VerifyWritten, VerifyReopen, VerifyStopped
<1>6. LeaveMonitor \/ JoinPool \/ Monitor => Kept
  BY <1>0 DEF LeaveMonitor, JoinPool, Monitor
<1>7. \A w \in Workers : PoolAction(w) => Kept
  BY <1>0 DEF PoolAction, Begin, Fetch, Refused, WriteAt, ReadAt, IO
<1>8. Stop \/ EndStop \/ TimePasses \/ Delete \/ Benchmark \/ BenchFill \/ BenchTest => Kept
  BY <1>0 DEF Stop, EndStop, TimePasses, Delete, Benchmark, BenchFill, BenchTest
<1>9. \A m \in Modes, t \in BOOLEAN : Start(m, t) => Kept
  BY <1>0 DEF Start
<1>10. UNCHANGED vars => Kept
  BY <1>0 DEF vars
<1>. HIDE DEF Kept
<1>11. Kept
  BY Steps, <1>1, <1>2, <1>3, <1>4, <1>5, <1>6, <1>7, <1>8, <1>9, <1>10
<1>. QED
  BY <1>11 DEF Kept

LEMMA TypeKept ==
  ASSUME TypeInv, FileInv, [Next]_vars
  PROVE  TypeInv'
BY PlacesKept, NumbersKept, CountersKept, PoolDataKept DEF TypeInv

-----------------------------------------------------------------------------
(* Where the worker is.                                                    *)

LEMMA RunningKept ==
  ASSUME FlagsInv, RunningInv, [Next]_vars
  PROVE  RunningInv'
<1>. USE DEF RunningInv, metrics, control, others, poolRest, verifyRest, benchRest, Step,
             Exit, Finish, Idle
<1>1. (BufferMissing \/ Prepare \/ CreateFails \/ CreateFile \/ Fill \/ EndFill
      \/ OpenFails \/ Open \/ CloseAndFinish) => RunningInv'
  BY DEF BufferMissing, Prepare, CreateFails, CreateFile, Fill, EndFill, OpenFails, Open,
         CloseAndFinish
<1>2. EndSeq \/ SeqIO \/ SeqFails => RunningInv'
  BY DEF EndSeq, SeqIO, SeqFails
<1>3. VerifyCreate \/ VerifyGivesUp \/ VerifyWritten \/ VerifyReopen \/ VerifyStopped
        => RunningInv'
  BY DEF VerifyCreate, VerifyGivesUp, VerifyWritten, VerifyReopen, VerifyStopped
<1>4. LeaveMonitor \/ JoinPool \/ Monitor => RunningInv'
  BY DEF LeaveMonitor, JoinPool, Monitor
<1>5. \A w \in Workers : PoolAction(w) => RunningInv'
  BY DEF PoolAction, Begin, Fetch, Refused, WriteAt, ReadAt, IO
<1>6. Stop \/ EndStop \/ TimePasses \/ Delete \/ Benchmark \/ BenchFill \/ BenchTest
        => RunningInv'
  <2>1. EndStop => RunningInv'
    BY DEF EndStop
  <2>2. Stop \/ TimePasses \/ Delete => UNCHANGED <<running, worker, state>>
    BY DEF Stop, TimePasses, Delete
  <2>3. Benchmark \/ BenchFill \/ BenchTest => UNCHANGED <<running, worker, state>>
    BY DEF Benchmark, BenchFill, BenchTest
  <2>. QED
    BY <2>1, <2>2, <2>3
<1>7. \A m \in Modes, t \in BOOLEAN : Start(m, t) => RunningInv'
  BY DEF Start
<1>8. UNCHANGED vars => RunningInv'
  BY DEF vars
<1>. HIDE DEF RunningInv
<1>. QED
  BY Steps, <1>1, <1>2, <1>3, <1>4, <1>5, <1>6, <1>7, <1>8

LEMMA StartsKept ==
  ASSUME TypeInv, StartsInv, [Next]_vars
  PROVE  StartsInv'
<1>0. deleters \in Nat /\ starts \in Nat /\ bench \in NotCalled..Returned
  BY Bounds DEF TypeInv
<1>. USE DEF StartsInv, metrics, others, poolRest, verifyRest, benchRest, Step, Exit, Finish
<1>1. (BufferMissing \/ Prepare \/ CreateFails \/ CreateFile \/ Fill \/ EndFill
      \/ OpenFails \/ Open \/ CloseAndFinish) => StartsInv'
  BY <1>0 DEF BufferMissing, Prepare, CreateFails, CreateFile, Fill, EndFill, OpenFails,
              Open, CloseAndFinish
<1>2. EndSeq \/ SeqIO \/ SeqFails => StartsInv'
  BY <1>0 DEF EndSeq, SeqIO, SeqFails
<1>3. VerifyCreate \/ VerifyGivesUp \/ VerifyWritten \/ VerifyReopen \/ VerifyStopped
        => StartsInv'
  BY <1>0 DEF VerifyCreate, VerifyGivesUp, VerifyWritten, VerifyReopen, VerifyStopped
<1>4. LeaveMonitor \/ JoinPool \/ Monitor => StartsInv'
  BY <1>0 DEF LeaveMonitor, JoinPool, Monitor
<1>5. \A w \in Workers : PoolAction(w) => StartsInv'
  BY <1>0 DEF PoolAction, Begin, Fetch, Refused, WriteAt, ReadAt, IO
<1>6. Stop \/ TimePasses \/ Benchmark \/ UNCHANGED vars => StartsInv'
  BY <1>0 DEF Stop, TimePasses, Benchmark, vars
<1>7. BenchFill \/ BenchTest => StartsInv'
  <2>1. Filling # NotCalled /\ \A k \in DOMAIN BenchTests : k # NotCalled
    BY Bounds
  <2>2. BenchFill \/ BenchTest => bench # NotCalled
    BY <2>1 DEF BenchFill, BenchTest
  <2>. QED
    BY <1>0, <2>2 DEF BenchFill, BenchTest
<1>8. EndStop => StartsInv'
  <2>. SUFFICES ASSUME EndStop PROVE StartsInv'
    OBVIOUS
  <2>1. worker = "exited" /\ worker' = "none" /\ deleters' = deleters + 1
        /\ UNCHANGED <<starts, bench, state>>
    BY DEF EndStop
  <2>2. deleters' <= starts' /\ starts # 0
    BY <1>0, <2>1
  <2>. QED
    BY <1>0, <2>1, <2>2
<1>9. Delete => StartsInv'
  <2>. SUFFICES ASSUME Delete PROVE StartsInv'
    OBVIOUS
  <2>1. deleters > 0 /\ deleters' = deleters - 1 /\ UNCHANGED <<worker, starts, bench, state>>
    BY DEF Delete
  <2>2. starts # 0
    BY <1>0, <2>1
  <2>3. deleters' <= starts' /\ (worker' # "none" => deleters' < starts')
    BY <1>0, <2>1
  <2>. QED
    BY <2>1, <2>2, <2>3
<1>10. ASSUME NEW m \in Modes, NEW t \in BOOLEAN, Start(m, t)
       PROVE  StartsInv'
  <2>1. worker' = "alloc" /\ starts' = starts + 1 /\ UNCHANGED <<deleters, bench>>
        /\ bench = NotCalled /\ worker \in {"none", "exited"}
    BY <1>10 DEF Start
  <2>2. deleters <= starts /\ deleters' < starts' /\ starts' # 0
    BY <1>0, <2>1
  <2>. QED
    BY <1>0, <2>1, <2>2
<1>. HIDE DEF StartsInv
<1>. QED
  BY Steps, <1>1, <1>2, <1>3, <1>4, <1>5, <1>6, <1>7, <1>8, <1>9, <1>10

LEMMA ModeKept ==
  ASSUME TypeInv, ModeInv, [Next]_vars
  PROVE  ModeInv'
<1>0. mode \in StorageMode
  BY DEF TypeInv
<1>. USE DEF ModeInv, config, others, poolRest, verifyRest, benchRest, Step, Exit, Finish,
             Pooled
<1>1. BufferMissing \/ CreateFails \/ CreateFile \/ Fill \/ OpenFails \/ CloseAndFinish
        => ModeInv'
  BY DEF BufferMissing, CreateFails, CreateFile, Fill, OpenFails, CloseAndFinish
<1>2. Prepare \/ EndFill \/ Open => ModeInv'
  BY <1>0 DEF Prepare, EndFill, Open, needs_existing_file, Reading, Random, StorageMode
<1>3. EndSeq \/ SeqIO \/ SeqFails => ModeInv'
  BY DEF EndSeq, SeqIO, SeqFails
<1>4. VerifyCreate \/ VerifyGivesUp \/ VerifyWritten \/ VerifyReopen \/ VerifyStopped
        => ModeInv'
  BY DEF VerifyCreate, VerifyGivesUp, VerifyWritten, VerifyReopen, VerifyStopped
<1>5. LeaveMonitor \/ JoinPool \/ Monitor => ModeInv'
  BY DEF LeaveMonitor, JoinPool, Monitor
<1>6. \A w \in Workers : PoolAction(w) => ModeInv'
  BY DEF PoolAction, Begin, Fetch, Refused, WriteAt, ReadAt, IO
<1>7. Stop \/ EndStop \/ TimePasses \/ Delete \/ Benchmark \/ BenchFill \/ BenchTest
        => ModeInv'
  BY DEF Stop, EndStop, TimePasses, Delete, Benchmark, BenchFill, BenchTest
<1>8. \A m \in Modes, t \in BOOLEAN : Start(m, t) => ModeInv'
  BY DEF Start
<1>9. UNCHANGED vars => ModeInv'
  BY DEF vars
<1>. HIDE DEF ModeInv
<1>. QED
  BY Steps, <1>1, <1>2, <1>3, <1>4, <1>5, <1>6, <1>7, <1>8, <1>9

LEMMA GoneKept ==
  ASSUME TypeInv, ModeInv, GoneInv, [Next]_vars
  PROVE  GoneInv'
<1>0. pool \in [Workers -> PoolPlaces]
  BY DEF TypeInv
<1>. USE DEF GoneInv, threads, others, poolRest, verifyRest, benchRest, Step, Exit, Finish,
             Pooled
<1>1. (BufferMissing \/ Prepare \/ CreateFails \/ CreateFile \/ Fill \/ EndFill
      \/ OpenFails \/ CloseAndFinish) => GoneInv'
  BY DEF BufferMissing, Prepare, CreateFails, CreateFile, Fill, EndFill, OpenFails,
         CloseAndFinish
<1>2. Open => GoneInv'
  BY DEF Open
<1>3. EndSeq \/ SeqIO \/ SeqFails => GoneInv'
  BY DEF EndSeq, SeqIO, SeqFails
<1>4. VerifyCreate \/ VerifyGivesUp \/ VerifyWritten \/ VerifyReopen \/ VerifyStopped
        => GoneInv'
  BY DEF VerifyCreate, VerifyGivesUp, VerifyWritten, VerifyReopen, VerifyStopped
<1>5. LeaveMonitor \/ JoinPool \/ Monitor => GoneInv'
  BY DEF LeaveMonitor, JoinPool, Monitor
<1>6. \A w \in Workers : PoolAction(w) => GoneInv'
  BY DEF PoolAction, Begin, Fetch, Refused, WriteAt, ReadAt, IO
<1>7. Stop \/ EndStop \/ TimePasses \/ Delete \/ Benchmark \/ BenchFill \/ BenchTest
        => GoneInv'
  BY DEF Stop, EndStop, TimePasses, Delete, Benchmark, BenchFill, BenchTest
<1>8. \A m \in Modes, t \in BOOLEAN : Start(m, t) => GoneInv'
  BY DEF Start
<1>9. UNCHANGED vars => GoneInv'
  BY DEF vars
<1>. HIDE DEF GoneInv
<1>. QED
  BY Steps, <1>1, <1>2, <1>3, <1>4, <1>5, <1>6, <1>7, <1>8, <1>9

LEMMA OpenKept ==
  ASSUME FlagsInv, TypeInv, StartsInv, OpenInv, [Next]_vars
  PROVE  OpenInv'
<1>0. Filling # NotCalled /\ Filling # Returned /\ Filling # 1 /\ NotCalled # Returned
      /\ \A k \in DOMAIN BenchTests : k # Filling /\ k + 1 # Filling /\ k # NotCalled
  BY Bounds
<1>1. fd \in BOOLEAN
  BY DEF FlagsInv
<1>. USE DEF OpenInv, file, others, poolRest, verifyRest, benchRest, Step, Exit, Finish,
             Opened, Create, OpenToRead, Close
<1>2. BufferMissing \/ Prepare \/ CreateFails \/ Fill \/ OpenFails => OpenInv'
  BY <1>1 DEF BufferMissing, Prepare, CreateFails, Fill, OpenFails
<1>3. worker # "none" => bench # Filling
  BY <1>0 DEF StartsInv
<1>4. CreateFile \/ EndFill \/ Open \/ CloseAndFinish => OpenInv'
  BY <1>1, <1>3 DEF CreateFile, EndFill, Open, CloseAndFinish
<1>5. EndSeq \/ SeqIO \/ SeqFails => OpenInv'
  BY <1>1 DEF EndSeq, SeqIO, SeqFails
<1>6. VerifyCreate \/ VerifyGivesUp \/ VerifyWritten \/ VerifyReopen \/ VerifyStopped
        => OpenInv'
  BY <1>1, <1>3 DEF VerifyCreate, VerifyGivesUp, VerifyWritten, VerifyReopen, VerifyStopped
<1>7. LeaveMonitor \/ JoinPool \/ Monitor => OpenInv'
  BY <1>1 DEF LeaveMonitor, JoinPool, Monitor
<1>8. \A w \in Workers : PoolAction(w) => OpenInv'
  BY <1>1 DEF PoolAction, Begin, Fetch, Refused, WriteAt, ReadAt, IO
<1>9. Stop \/ EndStop \/ TimePasses \/ Delete => OpenInv'
  BY <1>1 DEF Stop, EndStop, TimePasses, Delete
<1>10. Benchmark \/ BenchFill \/ BenchTest => OpenInv'
  <2>1. bench # NotCalled \/ starts = 0 => worker = "none"
    BY DEF StartsInv
  <2>2. Benchmark => OpenInv'
    BY <1>0, <1>1, <2>1 DEF Benchmark
  <2>3. BenchFill => OpenInv'
    BY <1>0, <1>1, <2>1 DEF BenchFill
  <2>4. BenchTest => OpenInv'
    BY <1>0, <1>1, <2>1 DEF BenchTest
  <2>. QED
    BY <2>2, <2>3, <2>4
<1>11. \A m \in Modes, t \in BOOLEAN : Start(m, t) => OpenInv'
  BY <1>1 DEF Start
<1>12. UNCHANGED vars => OpenInv'
  BY DEF vars
<1>. HIDE DEF OpenInv
<1>. QED
  BY Steps, <1>2, <1>4, <1>5, <1>6, <1>7, <1>8, <1>9, <1>10, <1>11, <1>12

LEMMA PlaceKept ==
  ASSUME FlagsInv, TypeInv, PlaceInv, [Next]_vars
  PROVE  PlaceInv'
BY RunningKept, StartsKept, ModeKept, GoneKept, OpenKept DEF PlaceInv

-----------------------------------------------------------------------------
(* What is in the file.                                                    *)

\* A thread of the pool runs only while its owner waits for it.
LEMMA PoolRuns ==
  ASSUME GoneInv, NEW w \in Workers, PoolAction(w)
  PROVE  worker \in Pooled /\ UNCHANGED <<worker, mode, timed, expired, state, pass, exists>>
<1>1. pool[w] # "gone"
  BY DEF PoolAction, Begin, Fetch, Refused, WriteAt, ReadAt, IO
<1>2. UNCHANGED <<worker, mode, timed, expired, state, pass, exists>>
  BY DEF PoolAction, Begin, Fetch, Refused, WriteAt, ReadAt, IO, poolRest, config, file
<1>. QED
  BY <1>1, <1>2 DEF GoneInv

\* A benchmark has the file to itself.
LEMMA BenchAlone ==
  ASSUME StartsInv, Benchmark \/ BenchFill \/ BenchTest
  PROVE  /\ worker = "none" /\ state # "completed" /\ starts = 0 /\ deleters = 0
         /\ UNCHANGED <<worker, state, starts, deleters>>
<1>1. Filling # NotCalled /\ \A k \in DOMAIN BenchTests : k # NotCalled
  BY Bounds
<1>2. starts = 0
  BY <1>1 DEF StartsInv, Benchmark, BenchFill, BenchTest
<1>. QED
  BY <1>2 DEF StartsInv, Benchmark, BenchFill, BenchTest, benchRest, metrics

LEMMA FilledKept ==
  ASSUME TypeInv, PlaceInv, FileInv, [Next]_vars
  PROVE  FilledInv'
<1>. USE DEF FilledInv, file, others, poolRest, verifyRest, Step, Exit, Finish
<1>0. FilledInv /\ GoneInv /\ StartsInv
  BY DEF FileInv, PlaceInv
<1>1. BufferMissing \/ Prepare \/ CreateFails \/ EndFill \/ OpenFails \/ Open => FilledInv'
  BY DEF BufferMissing, Prepare, CreateFails, EndFill, OpenFails, Open
<1>2. CreateFile => FilledInv'
  <2>1. 0 \in 0..B /\ {} = 0..(0 - 1)
    BY Bounds
  <2>. QED
    BY <2>1 DEF CreateFile, Create
<1>3. Fill => FilledInv'
  <2>. SUFFICES ASSUME Fill PROVE FilledInv'
    OBVIOUS
  <2>1. PICK n \in 0..(B - 1) : data' = 0..n
    BY FillFacts
  <2>2. n + 1 \in 0..B /\ n + 1 - 1 = n
    BY Bounds
  <2>. QED
    BY <2>1, <2>2
<1>4. CloseAndFinish \/ EndSeq \/ SeqIO \/ SeqFails => FilledInv'
  BY DEF CloseAndFinish, EndSeq, SeqIO, SeqFails
<1>5. VerifyCreate \/ VerifyGivesUp \/ VerifyWritten \/ VerifyReopen \/ VerifyStopped
        => FilledInv'
  BY DEF VerifyCreate, VerifyGivesUp, VerifyWritten, VerifyReopen, VerifyStopped
<1>6. LeaveMonitor \/ JoinPool \/ Monitor => FilledInv'
  BY DEF LeaveMonitor, JoinPool, Monitor
<1>7. \A w \in Workers : PoolAction(w) => FilledInv'
  BY <1>0, PoolRuns DEF Pooled
<1>8. Stop \/ EndStop \/ TimePasses \/ Delete => FilledInv'
  BY <1>0 DEF Stop, EndStop, TimePasses, Delete
<1>9. Benchmark \/ BenchFill \/ BenchTest => FilledInv'
  BY <1>0, BenchAlone
<1>10. \A m \in Modes, t \in BOOLEAN : Start(m, t) => FilledInv'
  BY DEF Start
<1>11. UNCHANGED vars => FilledInv'
  BY <1>0 DEF vars
<1>. HIDE DEF FilledInv
<1>. QED
  BY Steps, <1>1, <1>2, <1>3, <1>4, <1>5, <1>6, <1>7, <1>8, <1>9, <1>10, <1>11

\* A refusal, and a request to stop, last until the next test.
LEMMA Lasting ==
  ASSUME FlagsInv, TypeInv, [Next]_vars, worker # "none", worker' # "alloc"
  PROVE  /\ faults' = 0 => faults = 0
         /\ ~stop_requested' => ~stop_requested
         /\ mode' = mode
<1>. DEFINE Kept == /\ faults' = 0 => faults = 0
                    /\ ~stop_requested' => ~stop_requested
                    /\ mode' = mode
<1>0. (stop_requested \in BOOLEAN) /\ stop_on_error \in BOOLEAN
  BY DEF FlagsInv
<1>1. Fault => (faults' = 0 => faults = 0)
  BY Bounds DEF Fault, TypeInv
<1>2. report_error => (~stop_requested' => ~stop_requested)
  BY <1>0 DEF report_error
<1>. USE DEF config, control, poolRest, verifyRest, benchRest, Step, Exit, Finish
<1>3. BufferMissing \/ Prepare \/ CreateFails \/ CreateFile \/ Fill \/ EndFill => Kept
  BY <1>1 DEF BufferMissing, Prepare, CreateFails, CreateFile, Fill, EndFill
<1>4. OpenFails \/ Open \/ CloseAndFinish \/ EndSeq \/ SeqIO => Kept
  BY <1>1 DEF OpenFails, Open, CloseAndFinish, EndSeq, SeqIO
<1>5. SeqFails /\ (Fault \/ UNCHANGED faults) => Kept
  BY <1>1, <1>2 DEF SeqFails
<1>6. VerifyCreate \/ VerifyGivesUp \/ VerifyWritten \/ VerifyReopen \/ VerifyStopped => Kept
  BY <1>1, <1>2 DEF VerifyCreate, VerifyGivesUp, VerifyWritten, VerifyReopen, VerifyStopped
<1>7. LeaveMonitor \/ JoinPool \/ Monitor => Kept
  BY <1>0 DEF LeaveMonitor, JoinPool, Monitor
<1>8. \A w \in Workers : PoolAction(w) => Kept
  BY <1>0, <1>1, <1>2 DEF PoolAction, Begin, Fetch, Refused, WriteAt, ReadAt, IO
<1>9. Stop \/ EndStop \/ TimePasses \/ Delete => Kept
  <2>1. Stop => Kept
    BY DEF Stop
  <2>2. EndStop \/ TimePasses \/ Delete => UNCHANGED <<faults, stop_requested, mode>>
    BY DEF EndStop, TimePasses, Delete
  <2>. QED
    BY <2>1, <2>2
<1>10. Benchmark \/ BenchFill \/ BenchTest => Kept
  BY <1>1 DEF Benchmark, BenchFill, BenchTest
<1>11. \A m \in Modes, t \in BOOLEAN : Start(m, t) => Kept
  BY DEF Start
<1>12. UNCHANGED vars => Kept
  BY DEF vars
<1>. HIDE DEF Kept
<1>13. Kept
  BY Steps, <1>3, <1>4, <1>5, <1>6, <1>7, <1>8, <1>9, <1>10, <1>11, <1>12
<1>. QED
  BY <1>13 DEF Kept

LEMMA FullKept ==
  ASSUME FlagsInv, TypeInv, PlaceInv, FileInv, [Next]_vars
  PROVE  FullInv'
<1>. DEFINE Full == data = Blocks
            Ready == worker \in {"open", "seq", "pool", "join"}
<1>0. FullInv /\ FilledInv /\ GoneInv /\ StartsInv /\ ModeInv
  BY DEF FileInv, PlaceInv
<1>1. pool \in [Workers -> PoolPlaces] /\ mode \in StorageMode
  BY DEF TypeInv
<1>2. ASSUME worker # "none", worker' # "alloc", UNCHANGED <<data, pool>>,
             worker' \in {"open", "seq", "pool", "join"} => worker \in {"open", "seq", "pool", "join"}
      PROVE  FullInv'
  BY <1>0, <1>2, Lasting DEF FullInv
<1>3. ASSUME worker' \notin {"open", "seq", "pool", "join"}, GoneInv'
      PROVE  FullInv'
  BY <1>3 DEF FullInv, GoneInv, Pooled
<1>4. GoneInv'
  BY GoneKept, <1>0
<1>. USE DEF file, threads, others, poolRest, verifyRest, Step, Exit, Finish
<1>5. BufferMissing \/ CreateFails \/ CreateFile \/ Fill \/ OpenFails \/ CloseAndFinish => FullInv'
  BY <1>3, <1>4 DEF BufferMissing, CreateFails, CreateFile, Fill, OpenFails, CloseAndFinish
<1>6. Prepare => FullInv'
  <2>1. Prepare => mode' \notin Reading \/ worker' # "open"
    BY DEF Prepare, config, needs_existing_file
  <2>2. Prepare => UNCHANGED pool /\ worker \notin Pooled /\ worker' \notin {"seq", "pool", "join"}
    BY DEF Prepare, Pooled
  <2>. QED
    BY <1>0, <1>4, <2>1, <2>2 DEF FullInv, GoneInv, Pooled
<1>7. EndFill => FullInv'
  <2>. SUFFICES ASSUME EndFill, faults' = 0, ~stop_requested' PROVE data' = Blocks
    <3>1. EndFill => worker' = "open"
      BY DEF EndFill
    <3>. QED
      BY <1>4, <3>1 DEF FullInv, GoneInv, Pooled
  <2>1. PICK n \in 0..B : data = 0..(n - 1)
    BY <1>0 DEF EndFill, FilledInv
  <2>2. ~Fault
    BY Bounds DEF Fault, TypeInv
  <2>3. Cardinality(data) = B
    BY <2>2 DEF EndFill, control
  <2>4. data = Blocks
    BY <2>1, <2>3, FilledFront
  <2>. QED
    BY <2>4 DEF EndFill, Close
<1>8. Open => FullInv'
  <2>. SUFFICES ASSUME Open PROVE FullInv'
    OBVIOUS
  <2>1. \A w \in Workers : pool'[w] # "io"
    BY DEF Open
  <2>2. mode \in Reading => UNCHANGED data
    BY DEF Open, OpenToRead
  <2>3. UNCHANGED <<mode, faults, stop_requested>> /\ worker = "open"
    BY DEF Open, config, control
  <2>. QED
    BY <1>0, <2>1, <2>2, <2>3 DEF FullInv
<1>9. EndSeq \/ SeqFails => FullInv'
  BY <1>3, <1>4 DEF EndSeq, SeqFails
<1>10. mode = "SEQ_READ" /\ SeqIO /\ UNCHANGED data => FullInv'
  BY <1>2 DEF SeqIO
<1>11. mode = "SEQ_WRITE" /\ SeqIO => FullInv'
  BY DEF FullInv, SeqIO, config, Reading
<1>12. VerifyCreate \/ VerifyGivesUp \/ VerifyWritten \/ VerifyReopen \/ VerifyStopped
         => FullInv'
  BY <1>3, <1>4 DEF VerifyCreate, VerifyGivesUp, VerifyWritten, VerifyReopen, VerifyStopped
<1>13. LeaveMonitor \/ JoinPool \/ Monitor => FullInv'
  <2>1. JoinPool => FullInv'
    BY <1>3, <1>4 DEF JoinPool
  <2>2. LeaveMonitor \/ Monitor => FullInv'
    BY <1>2 DEF LeaveMonitor, Monitor
  <2>. QED
    BY <2>1, <2>2
<1>14. ASSUME NEW w \in Workers, PoolAction(w)
       PROVE  FullInv'
  <2>1. worker \in Pooled /\ UNCHANGED <<worker, mode>>
    BY <1>0, <1>14, PoolRuns
  <2>2. faults' = 0 => faults = 0
    BY <1>14, <2>1, Lasting DEF Pooled
  <2>3. ~stop_requested' => ~stop_requested
    BY <1>14, <2>1, Lasting DEF Pooled
  <2>4. CASE Begin(w) \/ Refused(w) \/ \E b \in Blocks : ReadAt(w, b)
    <3>1. UNCHANGED data /\ \A v \in Workers : pool'[v] = "io" => pool[v] = "io"
      BY <1>1, <2>4 DEF Begin, Refused, ReadAt, IO
    <3>. QED
      BY <1>0, <2>1, <2>2, <2>3, <3>1 DEF FullInv
  <2>5. CASE Fetch(w)
    <3>1. UNCHANGED data
      BY <2>5 DEF Fetch
    <3>2. stop_requested => \A v \in Workers : pool'[v] = "io" => pool[v] = "io"
      BY <1>1, <2>5 DEF Fetch
    <3>3. mode = "RAND_READ" => mode \in Reading
      BY DEF Reading
    <3>. QED
      BY <1>0, <2>1, <2>2, <2>3, <3>1, <3>2, <3>3 DEF FullInv, Pooled
  <2>6. CASE mode \in {"RAND_WRITE", "MIXED"}
    BY <2>1, <2>6 DEF FullInv, Reading
  <2>. QED
    BY <1>14, <2>4, <2>5, <2>6 DEF PoolAction
<1>15. Stop \/ TimePasses \/ Delete => FullInv'
  <2>1. UNCHANGED worker /\ worker = "none" => worker' \notin {"open", "seq", "pool", "join"}
    OBVIOUS
  <2>2. CASE worker = "none"
    BY <1>3, <1>4, <2>1, <2>2 DEF Stop, TimePasses, Delete
  <2>3. CASE worker = "alloc"
    BY <1>3, <1>4, <2>3 DEF Stop, TimePasses, Delete
  <2>4. CASE worker # "none" /\ worker # "alloc"
    BY <1>2, <2>4 DEF Stop, TimePasses, Delete
  <2>. QED
    BY <2>2, <2>3, <2>4
<1>16. EndStop => FullInv'
  BY <1>3, <1>4 DEF EndStop
<1>17. Benchmark \/ BenchFill \/ BenchTest => FullInv'
  BY <1>0, <1>3, <1>4, BenchAlone
<1>18. \A m \in Modes, t \in BOOLEAN : Start(m, t) => FullInv'
  BY <1>3, <1>4 DEF Start
<1>19. UNCHANGED vars => FullInv'
  BY <1>0 DEF vars, FullInv, config, control
<1>. QED
  BY Steps, <1>5, <1>6, <1>7, <1>8, <1>9, <1>10, <1>11, <1>12, <1>13, <1>14, <1>15,
     <1>16, <1>17, <1>18, <1>19

LEMMA ThereKept ==
  ASSUME FlagsInv, TypeInv, PlaceInv, FileInv, [Next]_vars
  PROVE  ThereInv'
<1>0. ThereInv /\ GoneInv /\ StartsInv
  BY DEF FileInv, PlaceInv
<1>. USE DEF ThereInv, file, others, poolRest, verifyRest, Step, Exit, Finish
<1>1. BufferMissing \/ CreateFails \/ OpenFails \/ Open \/ CloseAndFinish => ThereInv'
  BY DEF BufferMissing, CreateFails, OpenFails, Open, CloseAndFinish
<1>2. Prepare => ThereInv'
  BY DEF Prepare, config, needs_existing_file
<1>3. CreateFile => ThereInv'
  BY DEF CreateFile, Create
<1>4. Fill \/ EndFill => ThereInv'
  BY <1>0 DEF Fill, EndFill, Close, config
<1>5. EndSeq \/ SeqIO \/ SeqFails => ThereInv'
  BY DEF EndSeq, SeqIO, SeqFails
<1>6. VerifyCreate \/ VerifyGivesUp \/ VerifyReopen \/ VerifyStopped => ThereInv'
  BY DEF VerifyCreate, VerifyGivesUp, VerifyReopen, VerifyStopped, Create
<1>7. VerifyWritten => ThereInv'
  BY <1>0 DEF VerifyWritten
<1>8. LeaveMonitor \/ JoinPool \/ Monitor => ThereInv'
  BY DEF LeaveMonitor, JoinPool, Monitor
<1>9. \A w \in Workers : PoolAction(w) => ThereInv'
  BY <1>0, PoolRuns DEF Pooled
<1>10. Stop \/ TimePasses => ThereInv'
  BY <1>0 DEF Stop, TimePasses, config
<1>11. EndStop => ThereInv'
  BY DEF EndStop
<1>12. Delete => ThereInv'
  <2>1. Delete => UNCHANGED worker /\ (worker # "none" => raced')
    BY DEF Delete
  <2>. QED
    BY <2>1
<1>13. Benchmark \/ BenchFill \/ BenchTest => ThereInv'
  BY <1>0, BenchAlone
<1>14. \A m \in Modes, t \in BOOLEAN : Start(m, t) => ThereInv'
  BY DEF Start
<1>15. UNCHANGED vars => ThereInv'
  BY <1>0 DEF vars, config
<1>. HIDE DEF ThereInv
<1>. QED
  BY Steps, <1>1, <1>2, <1>3, <1>4, <1>5, <1>6, <1>7, <1>8, <1>9, <1>10, <1>11, <1>12,
     <1>13, <1>14, <1>15

LEMMA WrittenKept ==
  ASSUME FlagsInv, TypeInv, PlaceInv, FileInv, [Next]_vars
  PROVE  WrittenInv'
<1>0. WrittenInv /\ GoneInv /\ StartsInv /\ ModeInv
  BY DEF FileInv, PlaceInv
<1>a. (stop_requested \in BOOLEAN) /\ stop_on_error \in BOOLEAN
  BY DEF FlagsInv
<1>b. mode \in Random => mode # "VERIFY"
  BY DEF Random
<1>. USE DEF WrittenInv, file, config, others, poolRest, verifyRest, Step, Exit, Finish
<1>1. BufferMissing \/ Prepare \/ CreateFails \/ CreateFile \/ Fill \/ EndFill => WrittenInv'
  BY DEF BufferMissing, Prepare, CreateFails, CreateFile, Fill, EndFill
<1>2. OpenFails \/ Open \/ CloseAndFinish \/ SeqIO => WrittenInv'
  BY DEF OpenFails, Open, CloseAndFinish, SeqIO
<1>3. EndSeq \/ SeqFails => WrittenInv'
  BY <1>0 DEF EndSeq, SeqFails, ModeInv
<1>4. VerifyCreate \/ VerifyGivesUp \/ VerifyStopped => WrittenInv'
  BY DEF VerifyCreate, VerifyGivesUp, VerifyStopped
<1>5. VerifyWritten => WrittenInv'
  <2>. SUFFICES ASSUME VerifyWritten, ~stop_requested' PROVE data' = Blocks
    OBVIOUS
  <2>1. ~stop_requested
    BY <1>a DEF VerifyWritten, report_error
  <2>. QED
    BY <2>1 DEF VerifyWritten
<1>6. VerifyReopen => WrittenInv'
  BY <1>0 DEF VerifyReopen, OpenToRead
<1>7. LeaveMonitor \/ JoinPool \/ Monitor => WrittenInv'
  BY <1>0, <1>b DEF LeaveMonitor, JoinPool, Monitor, ModeInv, Pooled
<1>8. \A w \in Workers : PoolAction(w) => WrittenInv'
  BY <1>0, PoolRuns DEF Pooled
<1>9. Stop \/ TimePasses \/ Delete => WrittenInv'
  <2>1. Stop => stop_requested'
    BY DEF Stop
  <2>2. TimePasses \/ Delete => UNCHANGED <<mode, worker, stop_requested, data>>
    BY DEF TimePasses, Delete, control
  <2>. QED
    BY <1>0, <2>1, <2>2
<1>10. EndStop => WrittenInv'
  BY DEF EndStop
<1>11. Benchmark \/ BenchFill \/ BenchTest => WrittenInv'
  BY <1>0, BenchAlone
<1>12. \A m \in Modes, t \in BOOLEAN : Start(m, t) => WrittenInv'
  BY DEF Start
<1>13. UNCHANGED vars => WrittenInv'
  BY <1>0 DEF vars, control
<1>. HIDE DEF WrittenInv
<1>. QED
  BY Steps, <1>1, <1>2, <1>3, <1>4, <1>5, <1>6, <1>7, <1>8, <1>9, <1>10, <1>11, <1>12,
     <1>13

LEMMA FileKept ==
  ASSUME FlagsInv, TypeInv, PlaceInv, FileInv, [Next]_vars
  PROVE  FileInv'
BY FilledKept, FullKept, ThereKept, WrittenKept DEF FileInv

-----------------------------------------------------------------------------
(* The pool and its counter.                                               *)

LEMMA WorkersFinite == IsFiniteSet(Workers) /\ Cardinality(Workers) = Q
<1>1. 1 \in Int /\ Q \in Int /\ Q >= 1
  BY Bounds
<1>2. Cardinality(1..Q) = IF 1 > Q THEN 0 ELSE Q - 1 + 1
  BY <1>1, FS_Interval
<1>. QED
  BY <1>1, <1>2, FS_Interval DEF Workers

LEMMA ThreadsFinite ==
  ASSUME NEW place, NEW places
  PROVE  /\ IsFiniteSet(ThreadsAt(place, places))
         /\ Cardinality(ThreadsAt(place, places)) \in Nat
         /\ Cardinality(ThreadsAt(place, places)) <= Q
<1>1. ThreadsAt(place, places) \in SUBSET Workers
  BY DEF ThreadsAt
<1>2. IsFiniteSet(ThreadsAt(place, places)) /\ Cardinality(ThreadsAt(place, places)) <= Q
  BY <1>1, WorkersFinite, FS_Subset
<1>. QED
  BY <1>2, FS_CardinalityType

\* A thread that goes on changes the number of threads in a place by itself.
LEMMA ThreadMoves ==
  ASSUME NEW places \in [Workers -> PoolPlaces], NEW w \in Workers, NEW to \in PoolPlaces,
         NEW place
  PROVE  LET before == Cardinality(ThreadsAt(place, places))
             after == Cardinality(ThreadsAt(place, [places EXCEPT ![w] = to]))
         IN  /\ places[w] # place /\ to # place => after = before
             /\ places[w] # place /\ to = place => after = before + 1
             /\ places[w] = place /\ to # place => after = before - 1
<1>. DEFINE moved == [places EXCEPT ![w] = to]
<1>1. moved[w] = to /\ \A v \in Workers : v # w => moved[v] = places[v]
  OBVIOUS
<1>. HIDE DEF moved
<1>2. places[w] # place /\ to # place => ThreadsAt(place, moved) = ThreadsAt(place, places)
  BY <1>1 DEF ThreadsAt
<1>3. places[w] # place /\ to = place =>
        /\ ThreadsAt(place, moved) = ThreadsAt(place, places) \cup {w}
        /\ w \notin ThreadsAt(place, places)
  BY <1>1 DEF ThreadsAt
<1>4. places[w] = place /\ to # place =>
        /\ ThreadsAt(place, moved) = ThreadsAt(place, places) \ {w}
        /\ w \in ThreadsAt(place, places)
  BY <1>1 DEF ThreadsAt
<1>5. /\ w \notin ThreadsAt(place, places) =>
           Cardinality(ThreadsAt(place, places) \cup {w})
             = Cardinality(ThreadsAt(place, places)) + 1
      /\ w \in ThreadsAt(place, places) =>
           Cardinality(ThreadsAt(place, places) \ {w})
             = Cardinality(ThreadsAt(place, places)) - 1
  BY ThreadsFinite, FS_AddElement, FS_RemoveElement
<1>6. /\ places[w] # place /\ to # place =>
           Cardinality(ThreadsAt(place, moved)) = Cardinality(ThreadsAt(place, places))
      /\ places[w] # place /\ to = place =>
           Cardinality(ThreadsAt(place, moved)) = Cardinality(ThreadsAt(place, places)) + 1
      /\ places[w] = place /\ to # place =>
           Cardinality(ThreadsAt(place, moved)) = Cardinality(ThreadsAt(place, places)) - 1
  BY <1>2, <1>3, <1>4, <1>5
<1>. QED
  BY <1>6 DEF moved

LEMMA CountsInRange ==
  /\ Busy \in Nat /\ Busy <= Q /\ Left \in Nat /\ Left <= Q
  /\ Busy' \in Nat /\ Left' \in Nat
<1>1. Busy \in Nat /\ Busy <= Q
  BY ThreadsFinite DEF Busy, Left
<1>2. Left \in Nat /\ Left <= Q
  BY ThreadsFinite DEF Busy, Left
<1>3. Busy' \in Nat
  BY ThreadsFinite DEF Busy, Left
<1>4. Left' \in Nat
  BY ThreadsFinite DEF Busy, Left
<1>. QED
  BY <1>1, <1>2, <1>3, <1>4

LEMMA PoolNumbers ==
  ASSUME TypeInv
  PROVE  /\ Busy \in Nat /\ Left \in Nat /\ Busy <= Q /\ Left <= Q
         /\ issued \in Nat /\ shared_ops \in Nat /\ B \in Nat
BY Bounds, CountsInRange DEF TypeInv

LEMMA CountsMove ==
  ASSUME TypeInv, NEW w \in Workers, NEW to \in PoolPlaces, pool' = [pool EXCEPT ![w] = to]
  PROVE  /\ pool[w] # "io" /\ to # "io" => Busy' = Busy
         /\ pool[w] # "io" /\ to = "io" => Busy' = Busy + 1
         /\ pool[w] = "io" /\ to # "io" => Busy' = Busy - 1
         /\ pool[w] # "gone" /\ to # "gone" =>
              Left' = Left /\ \A v \in Workers : pool'[v] = "gone" => pool[v] = "gone"
         /\ pool[w] # "gone" /\ to = "gone" => Left' = Left + 1
<1>1. pool \in [Workers -> PoolPlaces]
  BY DEF TypeInv
<1>2. /\ Busy' = Cardinality(ThreadsAt("io", [pool EXCEPT ![w] = to]))
      /\ Left' = Cardinality(ThreadsAt("gone", [pool EXCEPT ![w] = to]))
  BY DEF Busy, Left, ThreadsAt
<1>3. /\ pool[w] # "io" /\ to # "io" => Busy' = Busy
      /\ pool[w] # "io" /\ to = "io" => Busy' = Busy + 1
      /\ pool[w] = "io" /\ to # "io" => Busy' = Busy - 1
  BY <1>1, <1>2, ThreadMoves DEF Busy
<1>4. /\ pool[w] # "gone" /\ to # "gone" => Left' = Left
      /\ pool[w] # "gone" /\ to = "gone" => Left' = Left + 1
  BY <1>1, <1>2, ThreadMoves DEF Left
<1>5. pool[w] # "gone" /\ to # "gone" =>
        \A v \in Workers : pool'[v] = "gone" => pool[v] = "gone"
  BY <1>1
<1>. QED
  BY <1>3, <1>4, <1>5

\* A step in which no thread of the pool does anything.
LEMMA PoolResting ==
  ASSUME FlagsInv, TypeInv, PoolInv, [Next]_vars, UNCHANGED threads,
         worker' \in Pooled => worker \in Pooled
  PROVE  PoolInv'
<1>1. Busy' = Busy /\ Left' = Left /\ UNCHANGED <<issued, shared_ops, pool>>
  BY DEF Busy, Left, ThreadsAt, threads
<1>2. worker' \in Pooled => (faults' = 0 => faults = 0) /\ (~stop_requested' => ~stop_requested)
  BY Lasting DEF Pooled
<1>. QED
  BY <1>1, <1>2 DEF PoolInv

LEMMA OpenPool ==
  ASSUME Open
  PROVE  PoolInv'
<1>1. shared_ops' = 0 /\ issued' = 0 /\ \A w \in Workers : pool'[w] # "io"
  BY DEF Open
<1>2. ThreadsAt("io", pool') = {}
  BY <1>1 DEF ThreadsAt
<1>3. Busy' = 0
  BY <1>2, FS_EmptySet DEF Busy, ThreadsAt
<1>4. Left' \in Nat
  BY CountsInRange
<1>5. worker' \in Pooled => \A w \in Workers : pool'[w] # "gone"
  BY DEF Open, Step, Pooled
<1>6. B \in Nat
  BY Bounds
<1>7. \A m, n \in Nat : 0 + 0 <= 0 /\ 0 + 0 <= m /\ 0 <= m + n
  OBVIOUS
<1>8. issued' + Busy' <= shared_ops' /\ issued' + Busy' <= B
  BY <1>1, <1>3, <1>6, <1>7
<1>9. issued' + Busy' = shared_ops'
  BY <1>1, <1>3
<1>10. shared_ops' <= B + Left'
  BY <1>1, <1>4, <1>6, <1>7
<1>. QED
  BY <1>5, <1>8, <1>9, <1>10 DEF PoolInv

LEMMA FetchPool ==
  ASSUME TypeInv, GoneInv, PoolInv, NEW w \in Workers, Fetch(w)
  PROVE  PoolInv'
<1>0. /\ pool \in [Workers -> PoolPlaces] /\ pool[w] = "loop"
      /\ worker \in Pooled /\ UNCHANGED <<worker, faults, issued>>
      /\ {"gone", "io", "loop"} \subseteq PoolPlaces
  BY DEF TypeInv, Fetch, GoneInv, poolRest, PoolPlaces
<1>1. Busy' \in Nat /\ Left' \in Nat
  BY CountsInRange
<1>2. ASSUME pool' = [pool EXCEPT ![w] = "gone"]
      PROVE  Busy' = Busy /\ Left' = Left + 1
  BY <1>0, <1>2, CountsMove
<1>3. ASSUME pool' = [pool EXCEPT ![w] = "io"]
      PROVE  Busy' = Busy + 1 /\ Left' = Left
             /\ \A v \in Workers : pool'[v] = "gone" => pool[v] = "gone"
  BY <1>0, <1>3, CountsMove
<1>4. issued + Busy <= shared_ops /\ issued + Busy <= B /\ shared_ops <= B + Left
  BY DEF PoolInv
<1>5. CASE stop_requested
  <2>1. Busy' = Busy /\ Left' = Left + 1 /\ stop_requested' /\ shared_ops' = shared_ops
        /\ issued' = issued
    BY <1>0, <1>2, <1>5 DEF Fetch
  <2>. QED
    BY <1>4, <2>1, PoolNumbers DEF PoolInv
<1>6. CASE ~stop_requested /\ shared_ops >= B
  <2>1. Busy' = Busy /\ Left' = Left + 1 /\ shared_ops' = shared_ops + 1 /\ issued' = issued
    BY <1>0, <1>2, <1>6 DEF Fetch
  <2>2. issued + Busy = shared_ops \/ issued + Busy = B => issued' + Busy' = B
    BY <1>4, <1>6, <2>1, PoolNumbers
  <2>3. shared_ops' >= B
    BY <1>6, <2>1, PoolNumbers
  <2>4. issued' + Busy' <= shared_ops' /\ issued' + Busy' <= B /\ shared_ops' <= B + Left'
    BY <1>4, <2>1, PoolNumbers
  <2>. QED
    BY <1>0, <1>6, <2>2, <2>3, <2>4 DEF PoolInv
<1>7. CASE ~stop_requested /\ ~(shared_ops >= B) /\ timed /\ expired
  <2>1. Busy' = Busy /\ Left' = Left + 1 /\ shared_ops' = shared_ops + 1 /\ issued' = issued
    BY <1>0, <1>2, <1>7 DEF Fetch
  <2>2. shared_ops < B
    BY <1>7, PoolNumbers
  <2>3. stop_requested'
    BY <1>7, <2>2 DEF Fetch
  <2>4. issued' + Busy' <= shared_ops' /\ issued' + Busy' <= B /\ shared_ops' <= B + Left'
    BY <1>4, <2>1, PoolNumbers
  <2>. QED
    BY <2>3, <2>4 DEF PoolInv
<1>8. CASE ~stop_requested /\ ~(shared_ops >= B) /\ ~(timed /\ expired)
  <2>1. Busy' = Busy + 1 /\ Left' = Left /\ shared_ops' = shared_ops + 1 /\ issued' = issued
        /\ \A v \in Workers : pool'[v] = "gone" => pool[v] = "gone"
    BY <1>0, <1>3, <1>8 DEF Fetch
  <2>2. shared_ops < B
    BY <1>8, PoolNumbers
  <2>3. issued' + Busy' <= shared_ops' /\ issued' + Busy' <= B /\ shared_ops' <= B + Left'
    BY <1>4, <2>1, <2>2, PoolNumbers
  <2>4. issued + Busy = shared_ops \/ issued + Busy = B => issued' + Busy' = shared_ops'
    BY <1>4, <2>1, <2>2, PoolNumbers
  <2>5. faults = 0 => \A v \in Workers : pool[v] # "gone"
    BY <1>0, <1>8 DEF PoolInv
  <2>. QED
    BY <1>0, <1>8, <2>1, <2>3, <2>4, <2>5 DEF PoolInv
<1>. QED
  BY <1>5, <1>6, <1>7, <1>8

LEMMA BeginPool ==
  ASSUME TypeInv, GoneInv, PoolInv, NEW w \in Workers, Begin(w)
  PROVE  PoolInv'
<1>0. /\ pool \in [Workers -> PoolPlaces] /\ pool[w] = "starting"
      /\ UNCHANGED <<worker, issued, shared_ops, stop_requested>>
      /\ {"gone", "loop"} \subseteq PoolPlaces
  BY DEF TypeInv, Begin, poolRest, PoolPlaces
<1>1. issued + Busy <= shared_ops /\ issued + Busy <= B /\ shared_ops <= B + Left
  BY DEF PoolInv
<1>2. CASE pool' = [pool EXCEPT ![w] = "loop"] /\ UNCHANGED faults
  <2>1. Busy' = Busy /\ Left' = Left
        /\ \A v \in Workers : pool'[v] = "gone" => pool[v] = "gone"
    BY <1>0, <1>2, CountsMove
  <2>. QED
    BY <1>0, <1>2, <2>1 DEF PoolInv
<1>3. CASE pool' = [pool EXCEPT ![w] = "gone"] /\ Fault
  <2>1. Busy' = Busy /\ Left' = Left + 1
    BY <1>0, <1>3, CountsMove
  <2>2. faults' # 0
    BY <1>3, Bounds DEF Fault, TypeInv
  <2>3. shared_ops' <= B + Left'
    BY <1>0, <1>1, <2>1, PoolNumbers
  <2>. QED
    BY <1>0, <1>1, <2>1, <2>2, <2>3 DEF PoolInv
<1>. QED
  BY <1>2, <1>3 DEF Begin

LEMMA IOPool ==
  ASSUME FlagsInv, TypeInv, GoneInv, PoolInv, [Next]_vars, NEW w \in Workers, IO(w)
  PROVE  PoolInv'
<1>0. /\ pool \in [Workers -> PoolPlaces] /\ pool[w] = "io"
      /\ UNCHANGED <<worker, shared_ops>> /\ worker \in Pooled
      /\ pool' = [pool EXCEPT ![w] = "loop"] /\ issued' = issued + 1
      /\ {"gone", "loop"} \subseteq PoolPlaces
  BY DEF TypeInv, IO, GoneInv, PoolPlaces
<1>1. Busy' = Busy - 1 /\ Left' = Left
      /\ \A v \in Workers : pool'[v] = "gone" => pool[v] = "gone"
  BY <1>0, CountsMove
<1>2. issued' + Busy' = issued + Busy
  BY <1>0, <1>1, PoolNumbers
<1>3. (faults' = 0 => faults = 0) /\ (~stop_requested' => ~stop_requested)
  BY <1>0, Lasting DEF Pooled
<1>. QED
  BY <1>0, <1>1, <1>2, <1>3 DEF PoolInv

LEMMA PoolKept ==
  ASSUME FlagsInv, TypeInv, PlaceInv, PoolInv, [Next]_vars
  PROVE  PoolInv'
<1>0. GoneInv /\ StartsInv
  BY DEF PlaceInv
<1>1. Open => PoolInv'
  BY OpenPool
<1>2. ASSUME NEW w \in Workers, PoolAction(w)
      PROVE  PoolInv'
  <2>1. CASE Begin(w)
    BY <1>0, <2>1, BeginPool
  <2>2. CASE Fetch(w)
    BY <1>0, <2>2, FetchPool
  <2>3. CASE IO(w)
    BY <1>0, <2>3, IOPool
  <2>. QED
    BY <1>2, <2>1, <2>2, <2>3 DEF PoolAction, Refused, WriteAt, ReadAt
<1>3. ASSUME UNCHANGED threads, worker' \in Pooled => worker \in Pooled
      PROVE  PoolInv'
  BY <1>3, PoolResting
<1>. USE DEF threads, others, poolRest, verifyRest, benchRest, Step, Exit, Finish, Pooled
<1>4. BufferMissing \/ Prepare \/ CreateFails \/ CreateFile \/ Fill \/ EndFill => PoolInv'
  BY <1>3 DEF BufferMissing, Prepare, CreateFails, CreateFile, Fill, EndFill
<1>5. OpenFails \/ CloseAndFinish \/ EndSeq \/ SeqIO \/ SeqFails => PoolInv'
  BY <1>3 DEF OpenFails, CloseAndFinish, EndSeq, SeqIO, SeqFails
<1>6. VerifyCreate \/ VerifyGivesUp \/ VerifyWritten \/ VerifyReopen \/ VerifyStopped => PoolInv'
  BY <1>3 DEF VerifyCreate, VerifyGivesUp, VerifyWritten, VerifyReopen, VerifyStopped
<1>7. LeaveMonitor \/ JoinPool \/ Monitor => PoolInv'
  BY <1>3 DEF LeaveMonitor, JoinPool, Monitor
<1>8. Stop \/ EndStop \/ TimePasses \/ Delete \/ Benchmark \/ BenchFill \/ BenchTest => PoolInv'
  BY <1>3 DEF Stop, EndStop, TimePasses, Delete, Benchmark, BenchFill, BenchTest
<1>9. \A m \in Modes, t \in BOOLEAN : Start(m, t) => PoolInv'
  BY <1>3 DEF Start
<1>10. UNCHANGED vars => PoolInv'
  BY <1>3 DEF vars
<1>. QED
  BY Steps, <1>1, <1>2, <1>4, <1>5, <1>6, <1>7, <1>8, <1>9, <1>10

-----------------------------------------------------------------------------
(* What is counted as an error.                                            *)

LEMMA FaultCounts ==
  ASSUME TypeInv
  PROVE  /\ faults \in Nat /\ errors \in Nat /\ issued \in Nat
         /\ Fault => faults' = faults + 1 /\ faults' # 0
BY Bounds DEF TypeInv, Fault

LEMMA MoreFaults ==
  ASSUME NEW e \in Nat, NEW f \in Nat, NEW i \in Nat, NEW g \in Nat, f <= g
  PROVE  /\ e <= f + i + 1 => e <= g + i + 1
         /\ e <= f + i => e <= g + i
         /\ e <= f => e <= g /\ e <= g + i
         /\ e <= g + i => e <= g + i + 1
         /\ e <= f + 1 => e <= g + i + 1
OBVIOUS

LEMMA ErrorKept ==
  ASSUME TypeInv, PlaceInv, ErrorInv, [Next]_vars
  PROVE  ErrorInv'
<1>0. faults \in Nat /\ errors \in Nat /\ issued \in Nat /\ GoneInv /\ StartsInv
  BY FaultCounts DEF PlaceInv
<1>. DEFINE Ends(p) == p \in {"close", "exited", "none"}
            Before(p) == ~Ends(p) /\ p \notin Pooled
<1>1. /\ Ends(worker) => errors <= faults + issued + 1
      /\ worker \in Pooled => errors <= faults + issued
      /\ Before(worker) => errors <= faults
      /\ ~(Ends(worker) /\ worker \in Pooled)
  BY DEF ErrorInv, Pooled
<1>2. ASSUME /\ Ends(worker') => errors' <= faults' + issued' + 1
             /\ worker' \in Pooled => errors' <= faults' + issued'
             /\ Before(worker') => errors' <= faults'
      PROVE  ErrorInv'
  BY <1>2 DEF ErrorInv, Pooled
<1>3. ASSUME UNCHANGED <<errors, issued>>, Fault \/ UNCHANGED faults,
             Before(worker) \/ Ends(worker') \/ UNCHANGED worker
      PROVE  ErrorInv'
  <2>1. faults' \in Nat /\ faults <= faults' /\ errors' = errors /\ issued' = issued
    BY <1>0, <1>3, FaultCounts
  <2>2. /\ errors <= faults + issued + 1 => errors' <= faults' + issued' + 1
        /\ errors <= faults + issued => errors' <= faults' + issued'
        /\ errors <= faults => errors' <= faults' /\ errors' <= faults' + issued'
        /\ errors' <= faults' + issued' => errors' <= faults' + issued' + 1
    BY <1>0, <2>1, MoreFaults
  <2>3. errors <= faults \/ errors <= faults + issued \/ errors <= faults + issued + 1
    BY <1>1
  <2>4. ASSUME Ends(worker')
        PROVE  ~Before(worker') /\ worker' \notin Pooled
    BY <2>4 DEF Pooled
  <2>. HIDE DEF Ends, Before
  <2>5. CASE UNCHANGED worker
    BY <1>1, <1>2, <2>2, <2>5
  <2>6. CASE Before(worker)
    BY <1>1, <1>2, <2>2, <2>6
  <2>7. CASE Ends(worker')
    BY <1>2, <2>2, <2>3, <2>4, <2>7
  <2>. QED
    BY <1>3, <2>5, <2>6, <2>7
<1>4. ASSUME Before(worker), Ends(worker'), errors' \in {errors, errors + 1},
             UNCHANGED issued, Fault \/ UNCHANGED faults
      PROVE  ErrorInv'
  <2>1. faults' \in Nat /\ faults <= faults' /\ errors' <= errors + 1 /\ errors' \in Nat
        /\ issued' = issued
    BY <1>0, <1>4, FaultCounts
  <2>2. errors <= faults
    BY <1>1, <1>4
  <2>3. errors' \in Nat /\ errors' <= faults + 1
    BY <1>0, <2>1, <2>2
  <2>4. errors' <= faults' + issued' + 1
    BY <1>0, <2>1, <2>3, MoreFaults
  <2>5. ~Before(worker') /\ worker' \notin Pooled
    BY <1>4 DEF Pooled
  <2>. HIDE DEF Ends, Before
  <2>. QED
    BY <1>2, <2>4, <2>5
<1>. HIDE DEF ErrorInv
<1>. USE DEF metrics, threads, others, poolRest, verifyRest, benchRest, Step, Exit, Finish
<1>5. BufferMissing \/ Prepare \/ CreateFails \/ CreateFile \/ Fill \/ EndFill => ErrorInv'
  BY <1>3 DEF BufferMissing, Prepare, CreateFails, CreateFile, Fill, EndFill, Pooled
<1>6. OpenFails => ErrorInv'
  BY <1>4 DEF OpenFails, Pooled
<1>7. Open => ErrorInv'
  <2>. SUFFICES ASSUME Open PROVE ErrorInv'
    OBVIOUS
  <2>1. errors <= faults /\ UNCHANGED <<errors, faults>> /\ issued' = 0
    BY <1>1 DEF Open, Pooled
  <2>2. ~Ends(worker')
    BY DEF Open
  <2>. QED
    BY <1>0, <1>2, <2>1, <2>2
<1>8. CloseAndFinish \/ EndSeq \/ SeqIO => ErrorInv'
  BY <1>3 DEF CloseAndFinish, EndSeq, SeqIO
<1>9. SeqFails /\ (Fault \/ UNCHANGED faults) => ErrorInv'
  BY <1>4 DEF SeqFails, report_error, Pooled
<1>10. VerifyCreate => ErrorInv'
  BY <1>3 DEF VerifyCreate, Pooled
<1>11. VerifyGivesUp \/ VerifyReopen \/ VerifyStopped => ErrorInv'
  BY <1>4 DEF VerifyGivesUp, VerifyReopen, VerifyStopped, Pooled
<1>12. VerifyWritten => ErrorInv'
  <2>. SUFFICES ASSUME VerifyWritten PROVE ErrorInv'
    OBVIOUS
  <2>1. errors <= faults
    BY <1>1 DEF VerifyWritten, Pooled
  <2>2. UNCHANGED <<errors, faults>> \/ (Fault /\ errors' = errors + 1)
    BY DEF VerifyWritten, report_error
  <2>3. errors' <= faults'
    BY <1>0, <2>1, <2>2, FaultCounts
  <2>4. Before(worker') /\ ~Ends(worker') /\ worker' \notin Pooled
    BY DEF VerifyWritten, Pooled
  <2>. HIDE DEF Ends, Before
  <2>. QED
    BY <1>2, <2>3, <2>4
<1>13. LeaveMonitor => ErrorInv'
  BY <1>1, <1>2 DEF LeaveMonitor, Pooled
<1>14. JoinPool \/ Monitor => ErrorInv'
  BY <1>3 DEF JoinPool, Monitor
<1>15. ASSUME NEW w \in Workers, PoolAction(w)
       PROVE  ErrorInv'
  <2>1. worker \in Pooled /\ UNCHANGED worker
    BY <1>0, <1>15, PoolRuns
  <2>2. CASE Begin(w) \/ Fetch(w)
    BY <1>3, <2>1, <2>2 DEF Begin, Fetch
  <2>3. CASE IO(w)
    <3>1. issued' = issued + 1
      BY <2>3 DEF IO
    <3>2. \/ errors' \in {errors, errors + 1} /\ UNCHANGED faults
          \/ errors' = errors + 1 /\ faults' = faults + 1
      BY <1>15, <2>3
         DEF PoolAction, Begin, Fetch, Refused, WriteAt, ReadAt, IO, report_error, Fault
    <3>3. errors <= faults + issued
      BY <1>1, <2>1
    <3>4. errors' <= faults' + issued'
      BY <1>0, <3>1, <3>2, <3>3
    <3>5. worker' \in Pooled /\ ~Ends(worker') /\ ~Before(worker')
      BY <2>1 DEF Pooled
    <3>. HIDE DEF Ends, Before
    <3>. QED
      BY <1>2, <3>4, <3>5
  <2>. QED
    BY <1>15, <2>2, <2>3 DEF PoolAction, Refused, WriteAt, ReadAt
<1>16. Stop \/ EndStop \/ TimePasses \/ Delete => ErrorInv'
  BY <1>3 DEF Stop, EndStop, TimePasses, Delete
<1>17. Benchmark \/ BenchFill \/ BenchTest => ErrorInv'
  BY <1>3 DEF Benchmark, BenchFill, BenchTest
<1>18. ASSUME NEW m \in Modes, NEW t \in BOOLEAN, Start(m, t)
       PROVE  ErrorInv'
  <2>1. errors' = 0 /\ faults' = 0 /\ worker' = "alloc"
    BY <1>18 DEF Start
  <2>. QED
    BY <1>2, <2>1 DEF Pooled
<1>19. UNCHANGED vars => ErrorInv'
  BY <1>3 DEF vars
<1>. QED
  BY Steps, <1>5, <1>6, <1>7, <1>8, <1>9, <1>10, <1>11, <1>12, <1>13, <1>14, <1>15,
     <1>16, <1>17, <1>18, <1>19

\* An I/O inside a full file finds its block.
LEMMA FullFileIsRead ==
  ASSUME data = Blocks, NEW b \in Blocks
  PROVE  BeforeEnd(b)
BY Bounds DEF BeforeEnd

LEMMA CleanKept ==
  ASSUME FlagsInv, TypeInv, PlaceInv, FileInv, HealthyDiskIsClean, [Next]_vars
  PROVE  HealthyDiskIsClean'
<1>0. /\ GoneInv /\ StartsInv /\ ModeInv /\ FullInv /\ ThereInv /\ raced \in BOOLEAN
      /\ faults \in Nat
  BY FaultCounts DEF PlaceInv, FileInv, FlagsInv
<1>1. ASSUME UNCHANGED <<errors, mode, raced>>, Fault \/ UNCHANGED faults
      PROVE  HealthyDiskIsClean'
  BY <1>1, FaultCounts DEF HealthyDiskIsClean
<1>2. ASSUME Fault
      PROVE  HealthyDiskIsClean'
  BY <1>2, FaultCounts DEF HealthyDiskIsClean
<1>3. ASSUME UNCHANGED raced, raced
      PROVE  HealthyDiskIsClean'
  BY <1>3 DEF HealthyDiskIsClean
<1>. USE DEF config, metrics, others, poolRest, verifyRest, benchRest, Step, Exit, Finish
<1>4. BufferMissing \/ Prepare \/ CreateFails \/ CreateFile \/ Fill \/ EndFill
        => HealthyDiskIsClean'
  BY <1>1 DEF BufferMissing, Prepare, CreateFails, CreateFile, Fill, EndFill
<1>5. OpenFails => HealthyDiskIsClean'
  <2>. SUFFICES ASSUME OpenFails, ~Fault PROVE HealthyDiskIsClean'
    BY <1>2
  <2>1. mode \in Reading /\ ~exists /\ worker = "open" /\ UNCHANGED raced
    BY DEF OpenFails
  <2>. QED
    BY <1>0, <1>3, <2>1 DEF ThereInv
<1>6. Open \/ CloseAndFinish \/ EndSeq \/ SeqIO => HealthyDiskIsClean'
  BY <1>1 DEF Open, CloseAndFinish, EndSeq, SeqIO
<1>7. SeqFails /\ Fault => HealthyDiskIsClean'
  BY <1>2
<1>8. mode = "SEQ_READ" /\ SeqFails /\ ~BeforeEnd(next) /\ UNCHANGED faults
        => HealthyDiskIsClean'
  <2>. SUFFICES ASSUME mode = "SEQ_READ", SeqFails, ~BeforeEnd(next), UNCHANGED faults,
                       faults = 0
                PROVE  FALSE
    BY DEF HealthyDiskIsClean
  <2>1. ~stop_requested /\ worker = "seq"
    BY DEF SeqFails, SeqOver
  <2>2. data = Blocks
    BY <1>0, <2>1 DEF FullInv, Reading
  <2>3. next \in Blocks
    BY Bounds DEF next, TypeInv
  <2>. QED
    BY <2>2, <2>3, FullFileIsRead
<1>9. VerifyCreate \/ VerifyGivesUp \/ VerifyWritten \/ VerifyReopen => HealthyDiskIsClean'
  BY <1>1, <1>2 DEF VerifyCreate, VerifyGivesUp, VerifyWritten, VerifyReopen
<1>10. VerifyStopped => HealthyDiskIsClean'
  <2>. SUFFICES ASSUME VerifyStopped PROVE HealthyDiskIsClean'
    OBVIOUS
  <2>1. CASE UNCHANGED <<errors, faults>>
    BY <1>1, <2>1 DEF VerifyStopped
  <2>2. CASE Fault
    BY <1>2, <2>2
  <2>3. CASE ~exists
    BY <1>0, <1>3, <2>3 DEF VerifyStopped, ThereInv
  <2>. QED
    BY <2>1, <2>2, <2>3 DEF VerifyStopped
<1>11. LeaveMonitor \/ JoinPool \/ Monitor => HealthyDiskIsClean'
  BY <1>1 DEF LeaveMonitor, JoinPool, Monitor
<1>12. ASSUME NEW w \in Workers, PoolAction(w)
       PROVE  HealthyDiskIsClean'
  <2>1. CASE Begin(w) \/ Fetch(w)
    BY <1>1, <2>1 DEF Begin, Fetch
  <2>2. CASE Refused(w)
    BY <1>2, <2>2 DEF Refused
  <2>3. ASSUME NEW b \in Blocks, WriteAt(w, b)
        PROVE  HealthyDiskIsClean'
    BY <1>1, <2>3 DEF WriteAt, IO
  <2>4. ASSUME NEW b \in Blocks, ReadAt(w, b), mode \in {"RAND_READ", "MIXED"}
        PROVE  HealthyDiskIsClean'
    <3>1. UNCHANGED <<mode, raced, faults>> /\ pool[w] = "io"
      BY <2>4 DEF ReadAt, IO
    <3>2. CASE mode = "MIXED"
      BY <3>1, <3>2 DEF HealthyDiskIsClean
    <3>3. CASE faults # 0
      BY <3>1, <3>3 DEF HealthyDiskIsClean
    <3>4. CASE mode = "RAND_READ" /\ faults = 0
      <4>1. data = Blocks
        BY <1>0, <3>1, <3>4 DEF FullInv
      <4>2. BeforeEnd(b)
        BY <4>1, FullFileIsRead
      <4>. QED
        BY <1>1, <2>4, <3>1, <4>2 DEF ReadAt
    <3>. QED
      BY <2>4, <3>2, <3>3, <3>4
  <2>. QED
    BY <1>12, <2>1, <2>2, <2>3, <2>4 DEF PoolAction
<1>13. Stop \/ EndStop \/ TimePasses \/ Benchmark \/ BenchFill \/ BenchTest
         => HealthyDiskIsClean'
  BY <1>1 DEF Stop, EndStop, TimePasses, Benchmark, BenchFill, BenchTest
<1>14. Delete => HealthyDiskIsClean'
  BY <1>0 DEF Delete, HealthyDiskIsClean
<1>15. \A m \in Modes, t \in BOOLEAN : Start(m, t) => HealthyDiskIsClean'
  BY DEF Start, HealthyDiskIsClean
<1>16. UNCHANGED vars => HealthyDiskIsClean'
  BY <1>1 DEF vars
<1>. QED
  BY Steps, <1>4, <1>5, <1>6, <1>7, <1>8, <1>9, <1>10, <1>11, <1>12, <1>13, <1>14,
     <1>15, <1>16

-----------------------------------------------------------------------------
(* What "completed" means, and what is left.                               *)

\* The counter is exhausted by the time the last thread of the pool has left.
LEMMA PoolDrained ==
  ASSUME FlagsInv, TypeInv, PlaceInv, PoolInv, JoinPool, faults = 0, ~stop_requested
  PROVE  issued = B
<1>1. worker \in Pooled /\ \A w \in Workers : pool[w] = "gone"
  BY DEF JoinPool, Step, Pooled
<1>2. 1 \in Workers
  BY Bounds
<1>3. shared_ops >= B /\ (issued + Busy = shared_ops \/ issued + Busy = B)
  BY <1>1, <1>2 DEF PoolInv
<1>4. ThreadsAt("io", pool) = {}
  BY <1>1 DEF ThreadsAt
<1>5. Busy = 0
  BY <1>4, FS_EmptySet DEF Busy
<1>6. issued + Busy <= B /\ issued \in Nat /\ shared_ops \in Nat /\ B \in Nat
  BY PoolNumbers DEF PoolInv
<1>7. issued + 0 = issued
  BY <1>6
<1>. QED
  BY <1>3, <1>5, <1>6, <1>7

LEMMA DrainedKept ==
  ASSUME FlagsInv, TypeInv, PlaceInv, FileInv, PoolInv, DrainedInv, [Next]_vars
  PROVE  DrainedInv'
<1>0. RunningInv /\ GoneInv /\ StartsInv /\ ModeInv /\ faults \in Nat
  BY FaultCounts DEF PlaceInv
<1>1. ASSUME worker' # "close"
      PROVE  DrainedInv'
  BY <1>1 DEF DrainedInv
<1>2. ASSUME mode \notin Random, UNCHANGED mode
      PROVE  DrainedInv'
  BY <1>2 DEF DrainedInv
<1>3. ASSUME UNCHANGED <<worker, mode, faults, issued, stop_requested>>
      PROVE  DrainedInv'
  BY <1>3 DEF DrainedInv
<1>. USE DEF config, metrics, threads, control, others, poolRest, verifyRest, benchRest,
             Step, Exit, Finish
<1>4. BufferMissing \/ Prepare \/ CreateFails \/ CreateFile \/ Fill \/ EndFill => DrainedInv'
  BY <1>1 DEF BufferMissing, Prepare, CreateFails, CreateFile, Fill, EndFill
<1>5. OpenFails \/ Open \/ CloseAndFinish => DrainedInv'
  BY <1>1 DEF OpenFails, Open, CloseAndFinish
<1>6. EndSeq \/ SeqIO \/ SeqFails => DrainedInv'
  <2>. SUFFICES ASSUME EndSeq \/ SeqIO \/ SeqFails PROVE DrainedInv'
    OBVIOUS
  <2>1. worker = "seq" /\ UNCHANGED mode
    BY DEF EndSeq, SeqIO, SeqFails
  <2>2. mode \notin Random
    BY <1>0, <2>1 DEF ModeInv, Random
  <2>. QED
    BY <1>2, <2>1, <2>2
<1>7. VerifyCreate \/ VerifyGivesUp \/ VerifyWritten \/ VerifyStopped => DrainedInv'
  BY <1>1 DEF VerifyCreate, VerifyGivesUp, VerifyWritten, VerifyStopped
<1>8. VerifyReopen => DrainedInv'
  <2>. SUFFICES ASSUME VerifyReopen PROVE DrainedInv'
    OBVIOUS
  <2>1. mode \notin Random /\ UNCHANGED mode
    BY <1>0 DEF VerifyReopen, ModeInv, Random
  <2>. QED
    BY <1>2, <2>1
<1>9. LeaveMonitor \/ Monitor => DrainedInv'
  BY <1>1 DEF LeaveMonitor, Monitor
<1>10. JoinPool => DrainedInv'
  <2>. SUFFICES ASSUME JoinPool, faults' = 0, ~stop_requested' PROVE issued' = B'
    BY DEF DrainedInv
  <2>1. UNCHANGED <<faults, stop_requested, issued>>
    BY DEF JoinPool
  <2>2. issued = B
    BY <2>1, PoolDrained
  <2>. QED
    BY <2>1, <2>2
<1>11. ASSUME NEW w \in Workers, PoolAction(w)
       PROVE  DrainedInv'
  BY <1>0, <1>1, <1>11, PoolRuns DEF Pooled
<1>12. Stop => DrainedInv'
  BY DEF Stop, DrainedInv
<1>13. EndStop => DrainedInv'
  BY <1>1 DEF EndStop
<1>14. Delete \/ TimePasses \/ UNCHANGED vars => DrainedInv'
  BY <1>3 DEF Delete, TimePasses, vars
<1>15. Benchmark \/ BenchFill \/ BenchTest => DrainedInv'
  BY <1>0, <1>1, BenchAlone
<1>16. \A m \in Modes, t \in BOOLEAN : Start(m, t) => DrainedInv'
  BY <1>1 DEF Start
<1>. QED
  BY Steps, <1>4, <1>5, <1>6, <1>7, <1>8, <1>9, <1>10, <1>11, <1>12, <1>13, <1>14, <1>15,
     <1>16

LEMMA DoneKept ==
  ASSUME FlagsInv, TypeInv, PlaceInv, FileInv, PoolInv, DoneInv, [Next]_vars
  PROVE  DoneInv'
<1>0. /\ RunningInv /\ GoneInv /\ StartsInv /\ ModeInv /\ WrittenInv
      /\ faults \in Nat /\ errors \in Nat
  BY FaultCounts DEF PlaceInv, FileInv
<1>1. ASSUME UNCHANGED <<worker, state, mode, issued, data, pass, errors, faults,
                         stop_requested, expired>>
      PROVE  DoneInv'
  BY <1>1 DEF DoneInv, Whole
<1>2. ASSUME worker \notin Idle, UNCHANGED state, worker' # "close"
      PROVE  DoneInv'
  BY <1>0, <1>2 DEF DoneInv, RunningInv
<1>3. ASSUME worker' # "close", state' # "completed"
      PROVE  DoneInv'
  BY <1>3 DEF DoneInv
<1>4. ASSUME stop_requested' \/ expired' \/ Fault \/ (errors' = errors + 1 /\ faults' \in Nat)
      PROVE  DoneInv'
  <2>0. \A e, f \in Nat : (e + 1) + f # 0
    OBVIOUS
  <2>1. Fault => ~(errors' \in Nat /\ errors' + faults' = 0)
    BY FaultCounts
  <2>2. Fault /\ errors' \in Nat => errors' + faults' # 0
    BY <2>1
  <2>3. errors' = errors + 1 /\ faults' \in Nat => errors' + faults' # 0
    BY <1>0, <2>0
  <2>4. errors' \in Nat
    BY TypeKept DEF TypeInv
  <2>. QED
    BY <1>4, <2>2, <2>3, <2>4 DEF DoneInv
<1>5. faults' \in Nat
  <2>1. faults' \in 0..MaxFaults
    BY TypeKept DEF TypeInv
  <2>. QED
    BY <2>1, Bounds
<1>. USE DEF config, metrics, threads, file, control, others, poolRest, verifyRest,
             benchRest, Step, Exit, Finish, Close, Idle
<1>6. BufferMissing \/ Prepare \/ CreateFile \/ Fill \/ EndFill => DoneInv'
  BY <1>2 DEF BufferMissing, Prepare, CreateFile, Fill, EndFill
<1>7. CreateFails \/ OpenFails \/ Open => DoneInv'
  BY <1>3 DEF CreateFails, OpenFails, Open
<1>8. CloseAndFinish => DoneInv'
  <2>1. CloseAndFinish =>
          /\ worker = "close"
          /\ UNCHANGED <<mode, issued, data, pass, errors, faults, stop_requested, expired>>
    BY DEF CloseAndFinish
  <2>. QED
    BY <2>1 DEF DoneInv, Whole
<1>9. EndSeq => DoneInv'
  <2>. SUFFICES ASSUME EndSeq, ~stop_requested', ~expired' PROVE Whole'
    BY DEF DoneInv
  <2>1. worker = "seq" /\ SeqOver /\ ~stop_requested /\ ~expired /\ UNCHANGED <<mode, pass>>
    BY DEF EndSeq
  <2>2. pass >= B
    BY <2>1 DEF SeqOver
  <2>3. pass = B
    BY <2>2, Bounds DEF TypeInv
  <2>4. mode \in {"SEQ_READ", "SEQ_WRITE"}
    BY <1>0, <2>1 DEF ModeInv
  <2>. QED
    BY <2>1, <2>3, <2>4 DEF Whole, Random
<1>10. SeqIO => DoneInv'
  BY <1>2 DEF SeqIO
<1>11. SeqFails => DoneInv'
  BY <1>4, <1>5 DEF SeqFails, report_error
<1>12. VerifyCreate \/ VerifyWritten => DoneInv'
  BY <1>2, <1>3 DEF VerifyCreate, VerifyWritten
<1>13. VerifyGivesUp => DoneInv'
  BY <1>4 DEF VerifyGivesUp
<1>14. VerifyReopen => DoneInv'
  <2>. SUFFICES ASSUME VerifyReopen PROVE Whole'
    BY DEF DoneInv
  <2>1. mode = "VERIFY" /\ data = Blocks /\ UNCHANGED <<mode, data>>
    BY <1>0 DEF VerifyReopen, ModeInv, WrittenInv, OpenToRead
  <2>. QED
    BY <2>1 DEF Whole, Random
<1>15. VerifyStopped => DoneInv'
  BY <1>4, <1>5 DEF VerifyStopped
<1>16. LeaveMonitor \/ Monitor => DoneInv'
  BY <1>2 DEF LeaveMonitor, Monitor
<1>17. JoinPool => DoneInv'
  <2>. SUFFICES ASSUME JoinPool, errors' + faults' = 0, ~stop_requested' PROVE Whole'
    BY DEF DoneInv
  <2>1. UNCHANGED <<errors, faults, stop_requested, mode, issued>>
    BY DEF JoinPool
  <2>2. faults = 0
    BY <1>0, <2>1
  <2>3. issued = B
    BY <2>1, <2>2, PoolDrained
  <2>4. mode \in Random
    BY <1>0 DEF JoinPool, ModeInv, Pooled
  <2>. QED
    BY <2>1, <2>3, <2>4 DEF Whole, Random
<1>18. ASSUME NEW w \in Workers, PoolAction(w)
       PROVE  DoneInv'
  <2>1. worker \in Pooled /\ UNCHANGED <<worker, state>>
    BY <1>0, <1>18, PoolRuns
  <2>. QED
    BY <1>2, <2>1 DEF Pooled
<1>19. Stop \/ TimePasses => DoneInv'
  BY <1>4 DEF Stop, TimePasses
<1>20. EndStop => DoneInv'
  <2>1. EndStop =>
          /\ worker' # "close"
          /\ UNCHANGED <<state, mode, issued, data, pass, errors, faults, stop_requested, expired>>
    BY DEF EndStop
  <2>. QED
    BY <2>1 DEF DoneInv, Whole
<1>21. Delete => DoneInv'
  BY <1>1 DEF Delete
<1>22. Benchmark \/ BenchFill \/ BenchTest => DoneInv'
  BY <1>0, <1>3, BenchAlone
<1>23. \A m \in Modes, t \in BOOLEAN : Start(m, t) => DoneInv'
  BY <1>3 DEF Start
<1>24. UNCHANGED vars => DoneInv'
  BY <1>1 DEF vars
<1>. QED
  BY Steps, <1>6, <1>7, <1>8, <1>9, <1>10, <1>11, <1>12, <1>13, <1>14, <1>15, <1>16,
     <1>17, <1>18, <1>19, <1>20, <1>21, <1>22, <1>23, <1>24

LEMMA LeftKept ==
  ASSUME FlagsInv, TypeInv, PlaceInv, NoFileLeft, [Next]_vars
  PROVE  NoFileLeft'
<1>0. GoneInv /\ StartsInv /\ OpenInv /\ deleters \in Nat /\ starts \in Nat /\ faults \in Nat
      /\ NotCalled # Returned /\ Filling # Returned /\ Filling # NotCalled
      /\ exists \in BOOLEAN /\ 1 # Returned
      /\ \A k \in DOMAIN BenchTests : k # NotCalled /\ k # Returned
  BY Bounds, FaultCounts DEF PlaceInv, TypeInv, FlagsInv
<1>1. ASSUME worker # "none", worker' # "none", UNCHANGED bench
      PROVE  NoFileLeft'
  BY <1>0, <1>1 DEF NoFileLeft, StartsInv
<1>. USE DEF others, poolRest, verifyRest, benchRest, Step, Exit, Finish
<1>2. BufferMissing \/ Prepare \/ CreateFails \/ CreateFile \/ Fill \/ EndFill => NoFileLeft'
  BY <1>1 DEF BufferMissing, Prepare, CreateFails, CreateFile, Fill, EndFill
<1>3. OpenFails \/ Open \/ CloseAndFinish \/ EndSeq \/ SeqIO \/ SeqFails => NoFileLeft'
  <2>1. Open => worker' # "none"
    BY DEF Open
  <2>. QED
    BY <1>1, <2>1 DEF OpenFails, Open, CloseAndFinish, EndSeq, SeqIO, SeqFails
<1>4. VerifyCreate \/ VerifyGivesUp \/ VerifyWritten \/ VerifyReopen \/ VerifyStopped
        => NoFileLeft'
  BY <1>1 DEF VerifyCreate, VerifyGivesUp, VerifyWritten, VerifyReopen, VerifyStopped
<1>5. LeaveMonitor \/ JoinPool \/ Monitor => NoFileLeft'
  BY <1>1 DEF LeaveMonitor, JoinPool, Monitor
<1>6. ASSUME NEW w \in Workers, PoolAction(w)
      PROVE  NoFileLeft'
  <2>1. worker \in Pooled /\ UNCHANGED worker
    BY <1>0, <1>6, PoolRuns
  <2>2. UNCHANGED bench
    BY <1>6 DEF PoolAction, Begin, Fetch, Refused, WriteAt, ReadAt, IO
  <2>. QED
    BY <1>1, <2>1, <2>2 DEF Pooled
<1>7. Stop => NoFileLeft'
  BY <1>1 DEF Stop
<1>8. EndStop => NoFileLeft'
  <2>. SUFFICES ASSUME EndStop PROVE NoFileLeft'
    OBVIOUS
  <2>1. deleters' # 0
    BY <1>0 DEF EndStop
  <2>2. bench' # Returned
    BY <1>0 DEF EndStop, StartsInv
  <2>. QED
    BY <2>1, <2>2 DEF NoFileLeft
<1>9. Delete => NoFileLeft'
  <2>. SUFFICES ASSUME Delete PROVE NoFileLeft'
    OBVIOUS
  <2>1. starts # 0 /\ bench = NotCalled /\ UNCHANGED <<bench, worker>>
    BY <1>0 DEF Delete, StartsInv
  <2>2. worker = "none" => ~fd
    BY <1>0, <2>1 DEF OpenInv, Opened
  <2>3. worker = "none" => ~exists'
    BY <2>2 DEF Delete
  <2>. QED
    BY <1>0, <2>1, <2>3 DEF NoFileLeft
<1>10. TimePasses \/ UNCHANGED vars => NoFileLeft'
  BY DEF TimePasses, vars, NoFileLeft, file
<1>11. Benchmark \/ BenchFill \/ BenchTest => NoFileLeft'
  <2>. SUFFICES ASSUME Benchmark \/ BenchFill \/ BenchTest PROVE NoFileLeft'
    OBVIOUS
  <2>1. ~(starts' > 0)
    BY <1>0, BenchAlone
  <2>2. Fault => faults' # 0
    BY FaultCounts
  <2>3. bench' = Returned /\ faults' = 0 => ~exists'
    BY <1>0, <2>2 DEF Benchmark, BenchFill, BenchTest
  <2>. QED
    BY <2>1, <2>3 DEF NoFileLeft
<1>12. ASSUME NEW m \in Modes, NEW t \in BOOLEAN, Start(m, t)
       PROVE  NoFileLeft'
  BY <1>0, <1>12 DEF Start, NoFileLeft
<1>. QED
  BY Steps, <1>2, <1>3, <1>4, <1>5, <1>6, <1>7, <1>8, <1>9, <1>10, <1>11, <1>12

-----------------------------------------------------------------------------
(* The inductive invariant, over every behaviour.                          *)

StorageInv ==
  /\ FlagsInv /\ TypeInv /\ PlaceInv /\ FileInv /\ PoolInv /\ ErrorInv
  /\ HealthyDiskIsClean /\ DrainedInv /\ DoneInv /\ NoFileLeft

LEMMA StorageInitially == Init => StorageInv
<1>. SUFFICES ASSUME Init PROVE StorageInv
  OBVIOUS
<1>1. FlagsInv
  BY DEF Init, FlagsInv
<1>2. TypeInv
  <2>1. mode \in StorageMode /\ worker \in Places /\ data \in SUBSET Blocks
        /\ pool \in [Workers -> PoolPlaces]
    BY Bounds DEF Init, Places, PoolPlaces
  <2>2. state \in States
    BY DEF Init, States
  <2>3. 0 \in 0..B /\ 0 \in 0..ProgressCap /\ 0 \in 0..MaxFaults /\ 0 \in 0..MaxStarts
        /\ NotCalled \in NotCalled..Returned
    BY Bounds
  <2>. QED
    BY <2>1, <2>2, <2>3 DEF Init, TypeInv
<1>3. NotCalled # Returned /\ NotCalled # Filling
  BY Bounds
<1>4. state # "completed" /\ worker = "none"
  BY DEF Init
<1>5. PlaceInv
  <2>1. RunningInv /\ ModeInv /\ GoneInv
    BY <1>4 DEF Init, RunningInv, ModeInv, GoneInv, Idle, Pooled
  <2>2. StartsInv
    <3>1. bench = NotCalled /\ starts = 0 /\ deleters = 0
      BY DEF Init
    <3>2. 0 <= 0
      OBVIOUS
    <3>. QED
      BY <1>4, <3>1, <3>2 DEF StartsInv
  <2>3. OpenInv
    BY <1>3 DEF Init, OpenInv, Opened
  <2>. QED
    BY <2>1, <2>2, <2>3 DEF PlaceInv
<1>6. FileInv
  BY <1>4 DEF Init, FileInv, FilledInv, FullInv, ThereInv, WrittenInv
<1>7. PoolInv
  <2>1. ThreadsAt("io", pool) = {}
    BY DEF Init, ThreadsAt
  <2>2. Busy = 0 /\ Left \in Nat
    BY <2>1, FS_EmptySet, CountsInRange DEF Busy
  <2>3. 0 + 0 <= 0 /\ 0 + 0 <= B /\ 0 <= B + Left
    BY <2>2, Bounds
  <2>. QED
    BY <1>4, <2>2, <2>3 DEF Init, PoolInv, Pooled
<1>8. ErrorInv
  <2>1. errors = 0 /\ faults = 0 /\ issued = 0
    BY DEF Init
  <2>2. 0 <= 0 + 0 + 1
    OBVIOUS
  <2>. QED
    BY <1>4, <2>1, <2>2 DEF ErrorInv, Pooled
<1>9. HealthyDiskIsClean /\ NoFileLeft
  BY <1>3 DEF Init, HealthyDiskIsClean, NoFileLeft
<1>10. DrainedInv /\ DoneInv
  BY <1>4 DEF DrainedInv, DoneInv
<1>. QED
  BY <1>1, <1>2, <1>5, <1>6, <1>7, <1>8, <1>9, <1>10 DEF StorageInv

LEMMA StorageInvariant == Spec => []StorageInv
<1>1. StorageInv /\ [Next]_vars => StorageInv'
  BY FlagsKept, TypeKept, PlaceKept, FileKept, PoolKept, ErrorKept, CleanKept,
     DrainedKept, DoneKept, LeftKept DEF StorageInv
<1>. QED
  BY StorageInitially, <1>1, PTL DEF Spec

-----------------------------------------------------------------------------
\* Every variable of the storage engine stays in its range: the shared counter of the
\* pool, and the count of errors, exceed the size of the file by no more than the number
\* of threads, and each deletion belongs to a test that was started.
THEOREM TypeCorrect == Spec => []TypeOK
<1>1. StorageInv => TypeOK
  <2>. SUFFICES ASSUME StorageInv PROVE TypeOK
    OBVIOUS
  <2>1. FlagsInv /\ TypeInv /\ PoolInv /\ ErrorInv /\ StartsInv
    BY DEF StorageInv, PlaceInv
  <2>2. /\ issued \in Nat /\ shared_ops \in Nat /\ errors \in Nat /\ deleters \in Nat
        /\ faults \in Nat /\ faults <= MaxFaults /\ starts \in Nat /\ starts <= MaxStarts
        /\ Busy \in Nat /\ Left \in Nat /\ Left <= Q /\ B \in Nat /\ Q \in Nat /\ Q >= 1
        /\ MaxFaults \in Nat /\ MaxStarts \in Nat
    BY <2>1, Bounds, CountsInRange DEF TypeInv
  <2>3. issued \in 0..B
    BY <2>1, <2>2 DEF PoolInv
  <2>4. shared_ops \in 0..(B + Q)
    BY <2>1, <2>2 DEF PoolInv
  <2>5. errors <= faults + issued + 1
    <3>1. errors <= faults \/ errors <= faults + issued \/ errors <= faults + issued + 1
      BY <2>1 DEF ErrorInv, Pooled
    <3>. QED
      BY <2>2, <3>1
  <2>6. errors \in 0..(MaxFaults + B + Q)
    BY <2>2, <2>3, <2>5
  <2>7. deleters \in 0..MaxStarts
    BY <2>1, <2>2 DEF StartsInv
  <2>8. {running, stop_requested, timed, stop_on_error, exists, fd, stopping, expired,
         raced} \subseteq BOOLEAN
    BY <2>1 DEF FlagsInv
  <2>. QED
    BY <2>1, <2>3, <2>4, <2>6, <2>7, <2>8 DEF TypeInv, TypeOK, Places, PoolPlaces, States
<1>. QED
  BY StorageInvariant, <1>1, PTL

\* A disk that refuses nothing ends a test of any mode but MIXED with no error, whenever
\* it is stopped, unless the deletion of an earlier test took the file.
THEOREM HealthyDiskIsCleanHolds == Spec => []HealthyDiskIsClean
<1>1. StorageInv => HealthyDiskIsClean
  BY DEF StorageInv
<1>. QED
  BY StorageInvariant, <1>1, PTL

\* The threads of the pool work on an open file and under an owner that waits for them,
\* and together they do each operation once, for any number of threads and of I/Os.
THEOREM PoolWorksOnOpenFileHolds == Spec => []PoolWorksOnOpenFile
<1>1. StorageInv => PoolWorksOnOpenFile
  <2>. SUFFICES ASSUME StorageInv PROVE PoolWorksOnOpenFile
    OBVIOUS
  <2>1. TypeInv /\ GoneInv /\ OpenInv /\ PoolInv /\ DrainedInv
    BY DEF StorageInv, PlaceInv
  <2>2. (\E w \in Workers : pool[w] # "gone") => fd /\ worker \in {"pool", "join"}
    BY <2>1 DEF GoneInv, OpenInv, Pooled, Opened
  <2>3. issued <= B
    BY <2>1, PoolNumbers DEF PoolInv
  <2>. QED
    BY <2>1, <2>2, <2>3 DEF PoolWorksOnOpenFile, DrainedInv
<1>. QED
  BY StorageInvariant, <1>1, PTL

\* "completed" with no error counted means the whole test, in every mode.
THEOREM CompletedMeansDoneHolds == Spec => []CompletedMeansDone
<1>1. StorageInv => CompletedMeansDone
  BY DEF StorageInv, DoneInv, Whole, CompletedMeansDone
<1>. QED
  BY StorageInvariant, <1>1, PTL

\* Once stop() and the thread it leaves behind are done, or a benchmark has returned
\* without a fault, there is no test file.
THEOREM NoFileLeftHolds == Spec => []NoFileLeft
<1>1. StorageInv => NoFileLeft
  BY DEF StorageInv
<1>. QED
  BY StorageInvariant, <1>1, PTL
=============================================================================
