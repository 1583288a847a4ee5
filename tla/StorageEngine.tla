--------------------------- MODULE StorageEngine ---------------------------
(***************************************************************************)
(* StorageEngine apart from what the verify modes do with their blocks     *)
(* (StorageVerify): start() and stop(), the worker that prepares a test    *)
(* file, opens it again and reads or writes it, the pool of threads of the *)
(* random modes, the detached thread that deletes the file after a stop,   *)
(* and the synchronous benchmark.  The unit of a file is one I/O.          *)
(***************************************************************************)
EXTENDS Integers, FiniteSets, Sequences

CONSTANTS
  B,          \* I/Os that make up a test file
  Q,          \* queue_depth: threads of the pool
  Modes,      \* the modes a test may be started in
  MaxStarts,  \* bound: calls of start()
  MaxFaults   \* bound: I/Os, opens and allocations that the system refuses

StorageMode == {"SEQ_WRITE", "SEQ_READ", "RAND_WRITE", "RAND_READ", "MIXED", "VERIFY"}
Reading == {"SEQ_READ", "RAND_READ"}
needs_existing_file == Reading \cup {"MIXED"}
Random == {"RAND_WRITE", "RAND_READ", "MIXED"}

ASSUME StorageEngineAssumption ==
  /\ B \in Nat \ {0} /\ Q \in Nat \ {0}
  /\ Modes \subseteq StorageMode
  /\ {MaxStarts, MaxFaults} \subseteq Nat

VARIABLES
  running, stop_requested, mode, timed, stop_on_error,
  state, errors, progress,  \* of metrics_; progress in I/Os, B being 100 percent
  worker,                   \* where the worker thread is
  pass,                     \* seq_read, seq_write: I/Os of the current pass
  pool, shared_ops,         \* the threads of a random mode and their counter
  issued,                   \* history: I/Os that the pool has done
  exists, data, fd,         \* the test file: its name, what is in it, an open handle
  deleters,                 \* detached threads that have still to delete the file
  stopping,                 \* a stop() is waiting for the worker
  expired,                  \* the test has lasted as long as it should
  bench,                    \* run_benchmark: NotCalled, Filling, its test, Returned
  faults, raced,            \* history: refusals; a deletion met a later test
  starts

config == <<mode, timed, stop_on_error>>
metrics == <<state, errors, progress>>
threads == <<pool, shared_ops, issued>>
file == <<exists, data, fd>>
control == <<running, stop_requested>>
others == <<deleters, stopping, bench, raced, starts>>
vars == <<control, config, metrics, worker, pass, threads, file, expired, faults,
          others>>

Blocks == 0..(B - 1)
ProgressCap == 2 * B  \* bound: progress goes on past 100 percent in a timed test
Workers == 1..Q

\* A read finds a block before the end of the file, be it a hole.
BeforeEnd(b) == \E d \in data : b <= d

\* The system refuses something.
Fault == faults < MaxFaults /\ faults' = faults + 1

report_error ==
  /\ errors' = errors + 1
  /\ stop_requested' = (stop_requested \/ stop_on_error)

-----------------------------------------------------------------------------
(* open_direct(): for writing it creates the file, or empties it.          *)

Create == exists' = TRUE /\ data' = {} /\ fd' = TRUE
OpenToRead == exists /\ fd' = TRUE /\ UNCHANGED <<exists, data>>
Close == fd' = FALSE /\ UNCHANGED <<exists, data>>

-----------------------------------------------------------------------------
(* run()                                                                   *)

\* The worker goes from `at` to `to`, leaving alone what the action does not name.
Step(at, to) == worker = at /\ worker' = to /\ UNCHANGED <<config, expired, others>>

\* The ways out of run() before its end.
Exit(at) ==
  /\ Step(at, "exited") /\ running' = FALSE
  /\ UNCHANGED <<stop_requested, progress, pass, threads, file>>

BufferMissing ==
  Exit("alloc") /\ Fault /\ UNCHANGED <<state, errors>>

Prepare ==
  /\ Step("alloc", IF mode \in needs_existing_file THEN "create"
                   ELSE IF mode = "VERIFY" THEN "verify" ELSE "open")
  /\ UNCHANGED <<control, metrics, pass, threads, file, faults>>

CreateFails ==
  Exit("create") /\ Fault /\ state' = "error" /\ UNCHANGED errors

CreateFile ==
  /\ Step("create", "fill") /\ Create
  /\ UNCHANGED <<control, metrics, pass, threads, faults>>

Fill ==
  /\ worker = "fill" /\ Cardinality(data) < B /\ ~stop_requested
  /\ data' = data \cup {Cardinality(data)} /\ progress' = Cardinality(data')
  /\ UNCHANGED <<control, config, state, errors, worker, pass, threads, exists, fd,
                 expired, faults, others>>

\* Mutant: the last I/O of the file is not written.
EndFillEarly ==
  /\ Step("fill", "open") /\ Close
  /\ \/ (stop_requested \/ Cardinality(data) >= B - 1) /\ UNCHANGED faults
     \/ Fault
  /\ UNCHANGED <<control, metrics, pass, threads>>

\* The loop is over, or a write was refused; the test goes on with what there is.
EndFill ==
  /\ Step("fill", "open") /\ Close
  /\ \/ (stop_requested \/ Cardinality(data) = B) /\ UNCHANGED faults
     \/ Fault
  /\ UNCHANGED <<control, metrics, pass, threads>>

OpenFails ==
  /\ Exit("open")
  /\ Fault \/ (mode \in Reading /\ ~exists /\ UNCHANGED faults)
  /\ state' = "error" /\ errors' = errors + 1

Open ==
  /\ Step("open", IF mode \in Random THEN "pool" ELSE "seq")
  /\ IF mode \in Reading THEN OpenToRead ELSE Create
  /\ state' = "testing" /\ progress' = 0 /\ pass' = 0
  /\ pool' = [w \in Workers |-> IF mode \in Random THEN "starting" ELSE "gone"]
  /\ shared_ops' = 0 /\ issued' = 0
  /\ UNCHANGED <<control, errors, faults>>

\* What follows every mode function: the state is overwritten, whatever it was.
Finish(at) ==
  /\ Step(at, "exited") /\ state' = "completed" /\ running' = FALSE

\* Mutant: the file is left open.
FinishUnclosed ==
  Finish("close") /\ UNCHANGED <<stop_requested, errors, progress, pass, threads, file, faults>>

CloseAndFinish ==
  Finish("close") /\ Close
  /\ UNCHANGED <<stop_requested, errors, progress, pass, threads, faults>>

-----------------------------------------------------------------------------
(* seq_write() and seq_read()                                              *)

\* Mutant: the clock is not looked at.
SeqOverUntimed ==
  stop_requested \/ (pass >= B /\ ~timed)

\* Mutant: a pass is over one I/O early.
SeqOverEarly ==
  stop_requested \/ (timed /\ expired) \/ (pass >= B - 1 /\ ~timed)

\* A pass that is over is the last one, unless the test has a duration.
SeqOver ==
  stop_requested \/ (timed /\ expired) \/ (pass >= B /\ ~timed)

EndSeq ==
  /\ worker = "seq" /\ SeqOver /\ Step("seq", "close")
  /\ UNCHANGED <<control, metrics, pass, threads, file, faults>>

\* The next I/O of a pass; a test with a duration begins another pass after the last.
next == IF pass >= B THEN 0 ELSE pass

SeqIO ==
  /\ worker = "seq" /\ ~SeqOver
  /\ pass' = next + 1
  /\ progress' = IF progress < ProgressCap THEN progress + 1 ELSE progress
  /\ UNCHANGED <<control, config, state, errors, worker, threads, exists, fd, expired,
                 faults, others>>

SeqFails ==
  /\ ~SeqOver /\ Step("seq", "close") /\ report_error /\ pass' = next
  /\ UNCHANGED <<running, state, progress, threads, file>>

seq_write ==
  /\ mode = "SEQ_WRITE"
  /\ \/ EndSeq
     \/ SeqIO /\ data' = data \cup {next}
     \/ SeqFails /\ Fault

seq_read ==
  /\ mode = "SEQ_READ"
  /\ \/ EndSeq
     \/ SeqIO /\ BeforeEnd(next) /\ UNCHANGED data
     \/ SeqFails /\ Fault
     \/ SeqFails /\ ~BeforeEnd(next) /\ UNCHANGED faults

-----------------------------------------------------------------------------
(* rand_write(), rand_read() and mixed_io(): the threads and the monitor.  *)

poolRest == <<running, config, state, progress, worker, pass, file, expired, others>>

\* A thread has its buffer, or returns at once.
Begin(w) ==
  /\ pool[w] = "starting"
  /\ \/ pool' = [pool EXCEPT ![w] = "loop"] /\ UNCHANGED faults
     \/ pool' = [pool EXCEPT ![w] = "gone"] /\ Fault
  /\ UNCHANGED <<poolRest, stop_requested, errors, shared_ops, issued>>

\* The head of a thread's loop: take the next operation, if there is one and time.
Fetch(w) ==
  /\ pool[w] = "loop"
  /\ IF stop_requested
       THEN pool' = [pool EXCEPT ![w] = "gone"] /\ UNCHANGED <<stop_requested, shared_ops>>
       ELSE /\ shared_ops' = shared_ops + 1
            /\ stop_requested' = (shared_ops < B /\ timed /\ expired)
            /\ pool' = [pool EXCEPT ![w] =
                          IF shared_ops >= B \/ (timed /\ expired) THEN "gone" ELSE "io"]
  /\ UNCHANGED <<poolRest, errors, issued, faults>>

\* An I/O at some block; one that fails does not end the loop.
IO(w) ==
  /\ pool[w] = "io" /\ pool' = [pool EXCEPT ![w] = "loop"]
  /\ issued' = issued + 1
  /\ UNCHANGED <<running, config, state, progress, worker, pass, exists, fd, expired,
                 others, shared_ops>>

WriteAt(w, b) ==
  /\ IO(w) /\ data' = data \cup {b}
  /\ UNCHANGED <<errors, stop_requested, faults>>

ReadAt(w, b) ==
  /\ IO(w)
  /\ IF BeforeEnd(b) THEN UNCHANGED <<errors, stop_requested>> ELSE report_error
  /\ UNCHANGED <<data, faults>>

Refused(w) == IO(w) /\ report_error /\ Fault /\ UNCHANGED data

Monitor ==
  /\ worker = "pool" /\ ~stop_requested /\ shared_ops < B /\ ~(timed /\ expired)
  /\ progress' = shared_ops
  /\ UNCHANGED <<control, config, state, errors, worker, pass, threads, file, expired,
                 faults, others>>

LeaveMonitor ==
  /\ Step("pool", "join")
  /\ \/ (stop_requested \/ shared_ops >= B) /\ UNCHANGED stop_requested
     \/ shared_ops < B /\ timed /\ expired /\ stop_requested' = TRUE
  /\ UNCHANGED <<running, metrics, pass, threads, file, faults>>

\* Mutant: the threads are left running.
JoinNobody ==
  /\ Step("join", "close") /\ progress' = B
  /\ UNCHANGED <<control, state, errors, pass, threads, file, faults>>

JoinPool ==
  /\ \A w \in Workers : pool[w] = "gone"
  /\ Step("join", "close") /\ progress' = B
  /\ UNCHANGED <<control, state, errors, pass, threads, file, faults>>

Thread(w) == Begin(w) \/ Fetch(w) \/ Refused(w)
Owner == LeaveMonitor \/ JoinPool

rand_write ==
  /\ mode = "RAND_WRITE"
  /\ Owner \/ Monitor \/ \E w \in Workers : Thread(w) \/ \E b \in Blocks : WriteAt(w, b)

rand_read ==
  /\ mode = "RAND_READ"
  /\ Owner \/ Monitor \/ \E w \in Workers : Thread(w) \/ \E b \in Blocks : ReadAt(w, b)

\* do_read is drawn anew for each operation.
mixed_io ==
  /\ mode = "MIXED"
  /\ \/ Owner \/ Monitor
     \/ \E w \in Workers : Thread(w) \/ \E b \in Blocks : ReadAt(w, b) \/ WriteAt(w, b)

-----------------------------------------------------------------------------
(* A verify mode, as far as the file goes: write it, close it, open it to  *)
(* read it.  An error is the fault of the device (IntegrityContract).      *)

verifyRest == <<stop_requested, progress, pass, threads>>

VerifyCreate ==
  /\ Step("verify", "written") /\ Create /\ state' = "testing"
  /\ UNCHANGED <<verifyRest, running, errors, faults>>

\* The file cannot be created, or there is no memory for a block, which is no error and
\* leaves the file created.
VerifyGivesUp ==
  /\ Finish("verify") /\ Fault
  /\ \/ errors' = errors + 1 /\ UNCHANGED file
     \/ UNCHANGED <<errors, fd>> /\ exists' = TRUE /\ data' = {}
  /\ UNCHANGED verifyRest

VerifyWritten ==
  /\ Step("written", "reopen") /\ fd' = FALSE /\ UNCHANGED exists
  /\ IF stop_requested THEN data' \in SUBSET Blocks ELSE data' = Blocks
  /\ \/ UNCHANGED <<errors, faults, stop_requested>>
     \/ Fault /\ report_error
  /\ UNCHANGED <<running, state, progress, pass, threads>>

VerifyReopen ==
  /\ ~stop_requested /\ Step("reopen", "close") /\ OpenToRead
  /\ \/ UNCHANGED <<errors, faults>>
     \/ Fault /\ errors' = errors + 1
  /\ UNCHANGED <<verifyRest, running, state>>

VerifyStopped ==
  /\ Finish("reopen")
  /\ \/ stop_requested /\ UNCHANGED <<errors, faults>>
     \/ ~stop_requested /\ ~exists /\ errors' = errors + 1 /\ UNCHANGED faults
     \/ ~stop_requested /\ Fault /\ errors' = errors + 1
  /\ UNCHANGED <<verifyRest, file>>

Verify == VerifyCreate \/ VerifyGivesUp \/ VerifyWritten \/ VerifyReopen \/ VerifyStopped

\* The eight tests of run_benchmark(), in order: those that write empty the file first.
BenchTests == <<"read", "write", "read", "write", "read", "write", "read", "write">>

NotCalled == -1
Filling == 0
Returned == Len(BenchTests) + 1

-----------------------------------------------------------------------------
(* start(), stop(), the deletion and the clock.                            *)

\* A worker that has ended by itself is joined.
Start(m, t) ==
  /\ ~running /\ ~stopping /\ bench = NotCalled
  /\ starts < MaxStarts /\ starts' = starts + 1
  /\ mode' = m /\ timed' = t /\ expired' = FALSE
  /\ state' = "preparing" /\ errors' = 0 /\ progress' = 0
  /\ stop_requested' = FALSE /\ running' = TRUE
  /\ worker \in {"none", "exited"} /\ worker' = "alloc"
  /\ faults' = 0 /\ raced' = FALSE
  /\ UNCHANGED <<stop_on_error, pass, threads, file, deleters, stopping, bench>>

Stop ==
  /\ ~stopping /\ bench = NotCalled /\ starts > 0 /\ worker # "none"
  /\ stopping' = TRUE /\ stop_requested' = TRUE
  /\ UNCHANGED <<running, config, metrics, worker, pass, threads, file, expired, faults,
                 deleters, bench, raced, starts>>

EndStop ==
  /\ stopping /\ worker = "exited"
  /\ worker' = "none" /\ stopping' = FALSE /\ running' = FALSE
  /\ deleters' = deleters + 1
  /\ UNCHANGED <<stop_requested, config, metrics, pass, threads, file, expired, faults,
                 bench, raced, starts>>

\* The detached thread.  A file that is open is unlinked all the same, or on Windows
\* refused.  It may by now be the file of the next test.
Delete ==
  /\ deleters > 0 /\ deleters' = deleters - 1
  /\ exists' \in IF fd THEN {FALSE, exists} ELSE {FALSE}
  /\ raced' = (raced \/ worker # "none")
  /\ UNCHANGED <<control, config, metrics, worker, pass, threads, data, fd, expired,
                 faults, stopping, bench, starts>>

TimePasses ==
  /\ running /\ timed /\ ~expired /\ expired' = TRUE
  /\ UNCHANGED <<control, config, metrics, worker, pass, threads, file, faults, others>>

-----------------------------------------------------------------------------
(* run_benchmark(), called on an engine of its own, on the caller's thread. *)

benchRest == <<control, config, metrics, worker, pass, threads, expired, deleters,
               stopping, raced, starts>>

Benchmark ==
  /\ bench = NotCalled /\ starts = 0
  /\ \/ bench' = Filling /\ Create /\ UNCHANGED faults
     \/ bench' = Returned /\ Fault /\ UNCHANGED file
  /\ UNCHANGED benchRest

\* The buffer is missing: the file stays behind.  A short file is deleted.
BenchFill ==
  /\ bench = Filling /\ fd' = FALSE
  /\ \/ bench' = 1 /\ data' = Blocks /\ UNCHANGED <<exists, faults>>
     \/ bench' = Returned /\ Fault /\ UNCHANGED <<exists, data>>
     \/ bench' = Returned /\ Fault /\ exists' = FALSE /\ UNCHANGED data
  /\ UNCHANGED benchRest

\* A test that cannot open the file has an empty result.
BenchTest ==
  /\ bench \in DOMAIN BenchTests
  /\ bench' = bench + 1
  /\ exists' = (exists /\ bench' # Returned)
  /\ \/ BenchTests[bench] = "read" /\ UNCHANGED <<data, faults>>
     \/ BenchTests[bench] = "write" /\ data' \in SUBSET Blocks /\ UNCHANGED faults
     \/ Fault /\ UNCHANGED data
  /\ UNCHANGED <<benchRest, fd>>

-----------------------------------------------------------------------------
Init ==
  /\ running = FALSE /\ stop_requested = FALSE
  /\ mode \in Modes /\ timed = FALSE /\ stop_on_error \in BOOLEAN
  /\ state = "" /\ errors = 0 /\ progress = 0
  /\ worker = "none" /\ pass = 0
  /\ pool = [w \in Workers |-> "gone"] /\ shared_ops = 0 /\ issued = 0
  /\ exists = FALSE /\ data = {} /\ fd = FALSE
  /\ deleters = 0 /\ stopping = FALSE /\ expired = FALSE /\ bench = NotCalled
  /\ faults = 0 /\ raced = FALSE /\ starts = 0

run ==
  \/ BufferMissing \/ Prepare \/ CreateFails \/ CreateFile \/ Fill \/ EndFill
  \/ OpenFails \/ Open \/ seq_write \/ seq_read \/ CloseAndFinish \/ Verify

Next ==
  \/ run \/ rand_write \/ rand_read \/ mixed_io
  \/ Stop \/ EndStop \/ Delete \/ TimePasses
  \/ Benchmark \/ BenchFill \/ BenchTest
  \/ \E m \in Modes, t \in BOOLEAN : Start(m, t)

Spec == Init /\ [][Next]_vars

\* Threads run, each of the pool by itself, and time passes; nobody has to call start() or stop().
FairSpec ==
  /\ Spec /\ WF_vars(run \/ Owner)
  /\ WF_vars(EndStop) /\ WF_vars(Delete) /\ WF_vars(TimePasses)
  /\ \A w \in Workers :
       WF_vars((rand_write \/ rand_read \/ mixed_io) /\ pool'[w] # pool[w])

-----------------------------------------------------------------------------
(* Properties.                                                             *)

TypeOK ==
  /\ {running, stop_requested, timed, stop_on_error, exists, fd, stopping, expired,
      raced} \subseteq BOOLEAN
  /\ mode \in StorageMode /\ state \in {"", "preparing", "testing", "completed", "error"}
  /\ errors \in 0..(MaxFaults + B + Q) /\ progress \in 0..ProgressCap
  /\ worker \in {"none", "alloc", "create", "fill", "open", "seq", "pool", "join",
                 "verify", "written", "reopen", "close", "exited"}
  /\ pass \in 0..B /\ shared_ops \in 0..(B + Q) /\ issued \in 0..B
  /\ pool \in [Workers -> {"starting", "loop", "io", "gone"}]
  /\ data \subseteq Blocks /\ deleters \in 0..MaxStarts
  /\ bench \in NotCalled..Returned
  /\ faults \in 0..MaxFaults /\ starts \in 0..MaxStarts

\* A disk that refuses nothing, and whose file nobody deletes, ends a test with no
\* error counted, whenever the test is stopped: the loops that read stay inside what
\* was written.  MIXED is apart: see MixedFindsItsFile.
HealthyDiskIsClean ==
  faults = 0 /\ ~raced /\ mode # "MIXED" => errors = 0

\* A thread of the pool does its I/O on an open file and while its owner still
\* waits for it; and a random test that was neither stopped, nor ran out of time, nor
\* lost a thread to a fault has done as many operations as the file has blocks, no
\* operation twice, however the threads share the counter.
PoolWorksOnOpenFile ==
  /\ (\E w \in Workers : pool[w] # "gone") => fd /\ worker \in {"pool", "join"}
  /\ issued <= B
  /\ worker = "close" /\ mode \in Random /\ faults = 0 /\ ~stop_requested => issued = B

\* "completed" with no error counted is the end of the whole test, unless it was
\* stopped, ran out of time or met a fault.
CompletedMeansDone ==
  state = "completed" /\ errors + faults = 0 /\ ~stop_requested /\ ~expired =>
    CASE mode \in Random -> issued = B
      [] mode = "VERIFY" -> data = Blocks
      [] OTHER -> pass = B

\* Once stop() and the thread it leaves behind are done, and once a benchmark has
\* returned that met no fault, no test file is left on the disk.
NoFileLeft ==
  /\ starts > 0 /\ worker = "none" /\ deleters = 0 => ~exists
  /\ bench = Returned /\ faults = 0 => ~exists

\* stop() returns, and a test with a duration ends, with every thread of the pool.
TestsEnd ==
  /\ stopping ~> ~stopping
  /\ (running /\ timed) ~> ~running

\* Storage mode MIXED (storage_engine.cpp:347): it reads the file filled for it.
MixedFindsItsFile ==
  mode = "MIXED" /\ worker = "pool" /\ ~stop_requested /\ faults = 0 /\ issued = 0 =>
    data = Blocks
=============================================================================
