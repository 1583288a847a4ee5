----------------------------- MODULE CpuEngine -----------------------------
(***************************************************************************)
(* CpuEngine: worker threads that compute in batches and verify them, a    *)
(* thread that hands the load from core to core, a thread that publishes   *)
(* metrics every 500 ms, and the clients that call start() and stop(): the *)
(* user's panel (or the command line) and the SafetyGuardian.  Any worker  *)
(* may end the test by itself, at its duration or on the first error;      *)
(* nobody joins the threads then until somebody calls stop().              *)
(***************************************************************************)
EXTENDS Integers, FiniteSets

CONSTANTS
  NumThreads,  \* num_threads_; thread i is pinned to core i
  Lanes,       \* the most SIMD lanes of one batch that may be wrong
  MaxErrors,   \* bound: no batch fails once so many have failed
  MaxStarts,   \* bound: how many times start() may be called
  Modes        \* the modes a test may run in, see below

ASSUME CpuAssumption ==
  /\ NumThreads \in Nat \ {0} /\ Lanes \in Nat \ {0}
  /\ MaxErrors \in Nat /\ MaxStarts \in Nat
  /\ Modes \subseteq {"lanes", "prime", "linpack"}

Workers == 0..(NumThreads - 1)

(***************************************************************************)
(* How a batch is verified.  "lanes": the SIMD modes compare lane by lane  *)
(* and hand the lanes over (CACHE_ONLY and LARGE_DATA_SET one wrong value).*)
(* "prime": primality tests with known answers are repeated throughout the *)
(* batch, and the outcome of the last repetition is kept.  "linpack": the  *)
(* worst residual is kept, which stays 0 where infinity was divided by     *)
(* infinity.  ALL goes through these.  The tests of one behaviour all run  *)
(* in one mode: no mode reads what another has left behind.                *)
(***************************************************************************)
VARIABLES
  running,                   \* running_
  mode,                      \* mode_
  timed, cycling,            \* duration_secs_ > 0, load_pattern_ = CORE_CYCLING
  stop_on_error,
  time_up,                   \* elapsed >= duration_secs_
  active_core,
  worker,                    \* where each worker is
  cycler, metrics,           \* where the two other threads are
  recorded,                  \* error_verifier_.error_count()
  core_error, core_count,    \* core_error_flags_, core_error_counts_
  sample,                    \* the local variable `metrics` of the metrics thread
  current_metrics,           \* what get_metrics() returns, its error fields
  holder,                    \* the call that holds start_stop_mutex_ and waits to join
  terminated,                \* std::terminate was called
  starts

config == <<mode, timed, cycling, stop_on_error>>
threads == <<worker, cycler, metrics>>
errors == <<recorded, core_error, core_count>>
clients == <<holder, terminated, starts>>
vars == <<running, config, time_up, active_core, threads, errors, sample,
          current_metrics, clients>>

NoErrors == [error_count |-> 0, core_has_error |-> [w \in Workers |-> FALSE],
             per_core_error_count |-> [w \in Workers |-> 0]]

-----------------------------------------------------------------------------
(* start() and stop().                                                     *)

\* The threads of the last test have all been joined.
Joined == worker = [w \in Workers |-> "none"] /\ cycler = "none" /\ metrics = "none"

Gone(place) == place \in {"none", "exited"}
AllGone == (\A w \in Workers : Gone(worker[w])) /\ Gone(cycler) /\ Gone(metrics)

\* Mutant: the flags of the cores are left as the last test set them.
ClearErrorsButFlags ==
  recorded' = 0 /\ core_count' = NoErrors.per_core_error_count /\ UNCHANGED core_error

ClearErrors ==
  /\ recorded' = 0
  /\ core_error' = NoErrors.core_has_error
  /\ core_count' = NoErrors.per_core_error_count

\* Mutant: the metrics of the last test are left for the metrics thread to replace.
KeepMetrics == UNCHANGED current_metrics

ResetMetrics == current_metrics' = NoErrors

\* The rest of start(), once no test is running.  Assigning a new std::thread to
\* metrics_thread_ ends the program if the old one was never joined.
Launch(by_duration, by_core) ==
  /\ timed' = by_duration /\ cycling' = by_core
  /\ ClearErrors /\ ResetMetrics
  /\ running' = TRUE /\ time_up' = FALSE /\ active_core' = 0
  /\ worker' = [w \in Workers |-> "head"]
  /\ cycler' = IF by_core THEN "sleep" ELSE cycler
  /\ metrics' = "head"

Start(by_duration, by_core) ==
  /\ holder = "nobody" /\ ~terminated /\ ~running
  /\ starts < MaxStarts /\ starts' = starts + 1
  /\ IF Joined
       THEN Launch(by_duration, by_core) /\ UNCHANGED terminated
       ELSE /\ terminated' = TRUE
            /\ UNCHANGED <<running, timed, cycling, time_up, active_core,
                           threads, errors, current_metrics>>
  /\ UNCHANGED <<mode, stop_on_error, sample, holder>>

\* start() on a running test stops it first, under the lock it already holds.
Restart ==
  /\ holder = "nobody" /\ ~terminated /\ running
  /\ starts < MaxStarts /\ starts' = starts + 1
  /\ running' = FALSE /\ holder' = "restart"
  /\ UNCHANGED <<config, time_up, active_core, threads, errors, sample,
                 current_metrics, terminated>>

\* The user's stop() or the guardian's; where nothing is left to join it does nothing.
Stop ==
  /\ holder = "nobody" /\ ~terminated /\ (running \/ ~Joined)
  /\ running' = FALSE /\ holder' = "stop"
  /\ UNCHANGED <<config, time_up, active_core, threads, errors, sample,
                 current_metrics, terminated, starts>>

\* Every join() has returned.
JoinAll ==
  /\ AllGone
  /\ worker' = [w \in Workers |-> "none"] /\ cycler' = "none" /\ metrics' = "none"

EndStop ==
  /\ holder = "stop"
  /\ JoinAll
  /\ holder' = "nobody"
  /\ UNCHANGED <<running, config, time_up, active_core, errors, sample,
                 current_metrics, terminated, starts>>

EndRestart(by_duration, by_core) ==
  /\ holder = "restart" /\ AllGone
  /\ Launch(by_duration, by_core)
  /\ holder' = "nobody"
  /\ UNCHANGED <<mode, stop_on_error, sample, terminated, starts>>

-----------------------------------------------------------------------------
(* worker_thread().                                                        *)

Alive == ~terminated

Moves(w, to) ==
  worker' = [worker EXCEPT ![w] = to] /\ UNCHANGED <<cycler, metrics>>

\* The loop condition, and the core-cycling test: a core whose turn it is not
\* sleeps for 10 ms and looks again.
Head(w) ==
  /\ Alive /\ worker[w] = "head"
  /\ \/ ~running /\ Moves(w, "exited")
     \/ running /\ (cycling => active_core = w) /\ Moves(w, "batch")
  /\ UNCHANGED <<running, config, time_up, active_core, errors, sample,
                 current_metrics, clients>>

\* Mutant: the duration is looked at only once there is an error.
LimitReachedOnError == timed /\ time_up /\ recorded > 0

LimitReached == timed /\ time_up

\* The end of the loop body: the test of the duration.
EndBatch(w, stops) ==
  /\ running' = (running /\ ~stops /\ ~LimitReached)
  /\ Moves(w, IF LimitReached THEN "exited" ELSE "head")

\* The batch is verified and right, or is one of those that are not verified.
BatchPasses(w) ==
  /\ Alive /\ worker[w] = "batch"
  /\ EndBatch(w, FALSE)
  /\ UNCHANGED <<config, time_up, active_core, errors, sample, current_metrics,
                 clients>>

\* The outcomes of the tests repeated in a PRIME batch that has failed.
FailedRepetitions == {passed \in [1..3 -> BOOLEAN] : \E k \in 1..3 : ~passed[k]}

\* The entries a failed batch makes in the verifier.  verify_array() enters every wrong
\* lane; verify() enters what is handed to it if that differs from the expected value.
Entries ==
  IF mode = "lanes" THEN 1..Lanes
  ELSE IF mode = "prime" THEN {IF passed[3] THEN 0 ELSE 1 : passed \in FailedRepetitions}
  ELSE {0, 1}

\* The batches counted, <<w, n>> being the n-th that failed on core w.
Counted == {batch \in Workers \X (1..MaxErrors) : batch[2] <= core_count[batch[1]]}

TotalCounted == Cardinality(Counted)

Marking == {w \in Workers : worker[w] = "mark"}

\* The batches that failed in this test, those not yet counted too.
FailedBatches == TotalCounted + Cardinality(Marking)

BatchFails(w) ==
  /\ Alive /\ worker[w] = "batch" /\ FailedBatches < MaxErrors
  /\ \E n \in Entries : recorded' = recorded + n
  /\ Moves(w, "mark")
  /\ UNCHANGED <<running, config, time_up, active_core, core_error, core_count,
                 sample, current_metrics, clients>>

\* The flag of the core, and its count.
Mark(w) ==
  /\ Alive /\ worker[w] = "mark"
  /\ core_error' = [core_error EXCEPT ![w] = TRUE]
  /\ core_count' = [core_count EXCEPT ![w] = @ + 1]
  /\ Moves(w, "tell")
  /\ UNCHANGED <<running, config, time_up, active_core, recorded, sample,
                 current_metrics, clients>>

\* Mutant: stop_on_error is not looked at.
NeverTells == FALSE

Tells == stop_on_error

TellOthers(w) ==
  /\ Alive /\ worker[w] = "tell"
  /\ EndBatch(w, Tells)
  /\ UNCHANGED <<config, time_up, active_core, errors, sample, current_metrics,
                 clients>>

Worker(w) ==
  Head(w) \/ BatchPasses(w) \/ BatchFails(w) \/ Mark(w) \/ TellOthers(w)

-----------------------------------------------------------------------------
(* The cycling thread and the metrics thread.                              *)

NextCore == (active_core + 1) % NumThreads

Cycle ==
  /\ Alive /\ cycler = "sleep"
  /\ \/ ~running /\ cycler' = "exited" /\ UNCHANGED active_core
     \/ running /\ active_core' = NextCore /\ UNCHANGED cycler
  /\ UNCHANGED <<running, config, time_up, worker, metrics, errors, sample,
                 current_metrics, clients>>

MetricsMoves(to) == metrics' = to /\ UNCHANGED <<worker, cycler>>

MetricsOnly == UNCHANGED <<running, config, time_up, active_core, errors, clients>>

\* The loop condition, and the same test again after 500 ms of sleep.
MetricsHead ==
  /\ Alive /\ metrics = "head"
  /\ MetricsMoves(IF running THEN "sample" ELSE "exited")
  /\ UNCHANGED <<sample, current_metrics>> /\ MetricsOnly

\* error_count() and get_errors() first, ...
SampleErrors ==
  /\ Alive /\ metrics = "sample"
  /\ sample' = [NoErrors EXCEPT !.error_count = recorded]
  /\ MetricsMoves("cores")
  /\ UNCHANGED current_metrics /\ MetricsOnly

\* ... then the flags and the counts of the cores, which may have gone on since.
SampleCores ==
  /\ Alive /\ metrics = "cores"
  /\ sample' = [sample EXCEPT !.core_has_error = core_error,
                              !.per_core_error_count = core_count]
  /\ MetricsMoves("publish")
  /\ UNCHANGED current_metrics /\ MetricsOnly

\* Mutant: the errors published are those of the previous round.
Stale == [sample EXCEPT !.error_count = current_metrics.error_count]

Fresh == sample

\* current_metrics_ is replaced and the callback called.
Publish ==
  /\ Alive /\ metrics = "publish"
  /\ current_metrics' = Fresh
  /\ sample' = NoErrors
  /\ MetricsMoves("head")
  /\ MetricsOnly

MetricsThread == MetricsHead \/ SampleErrors \/ SampleCores \/ Publish

TimeUp ==
  /\ Alive /\ running /\ timed /\ ~time_up
  /\ time_up' = TRUE
  /\ UNCHANGED <<running, config, active_core, threads, errors, sample,
                 current_metrics, clients>>

-----------------------------------------------------------------------------
Init ==
  /\ running = FALSE /\ time_up = FALSE /\ active_core = 0
  /\ mode \in Modes /\ timed = FALSE /\ cycling = FALSE /\ stop_on_error \in BOOLEAN
  /\ worker = [w \in Workers |-> "none"] /\ cycler = "none" /\ metrics = "none"
  /\ recorded = 0 /\ core_error = NoErrors.core_has_error
  /\ core_count = NoErrors.per_core_error_count
  /\ sample = NoErrors /\ current_metrics = NoErrors
  /\ holder = "nobody" /\ terminated = FALSE /\ starts = 0

Next ==
  \/ \E d, p \in BOOLEAN : Start(d, p) \/ EndRestart(d, p)
  \/ Restart
  \/ Stop \/ EndStop
  \/ \E w \in Workers : Worker(w)
  \/ Cycle \/ MetricsThread \/ TimeUp

Spec == Init /\ [][Next]_vars

\* Threads run, time passes; nobody has to call start() or stop().  Strong fairness
\* for the workers: a waiting core looks every 10 ms and its turn lasts 150 ms, so it
\* cannot miss its turn for ever.
FairSpec ==
  /\ Spec
  /\ \A w \in Workers : SF_vars(Worker(w))
  /\ WF_vars(Cycle) /\ WF_vars(MetricsThread) /\ WF_vars(TimeUp)
  /\ WF_vars(EndStop)
  /\ WF_vars(\E d, p \in BOOLEAN : EndRestart(d, p))

-----------------------------------------------------------------------------
(* Properties.                                                             *)

Places == {"none", "head", "batch", "mark", "tell", "exited"}

Metrics == [error_count: 0..(Lanes * MaxErrors),
            core_has_error: [Workers -> BOOLEAN],
            per_core_error_count: [Workers -> 0..MaxErrors]]

\* Every variable stays in its range.
TypeOK ==
  /\ {running, timed, cycling, stop_on_error, time_up, terminated}
       \subseteq BOOLEAN
  /\ active_core \in Workers
  /\ mode \in Modes /\ worker \in [Workers -> Places]
  /\ cycler \in {"none", "sleep", "exited"}
  /\ metrics \in {"none", "head", "sample", "cores", "publish", "exited"}
  /\ recorded \in 0..(Lanes * MaxErrors)
  /\ core_error \in [Workers -> BOOLEAN]
  /\ core_count \in [Workers -> 0..MaxErrors]
  /\ sample \in Metrics /\ current_metrics \in Metrics
  /\ holder \in {"nobody", "restart", "stop"}

\* What get_metrics() returns belongs to the test that was started last: it never
\* shows an error that this test has not recorded, however the threads of an earlier
\* test were ended.
ShowsOnlyThisTest ==
  ~terminated =>
    /\ current_metrics.error_count <= recorded
    /\ \A w \in Workers : current_metrics.per_core_error_count[w] <= core_count[w]

\* The three places an error is entered in agree wherever a worker is between
\* batches: a core is flagged exactly when it has counted an error, and in the SIMD
\* modes every counted batch has at least one entry in the verifier.
ErrorBooksAgree ==
  /\ \A w \in Workers : worker[w] \in {"none", "head", "batch", "exited"} =>
       (core_error[w] <=> core_count[w] > 0)
  /\ mode = "lanes" => TotalCounted <= recorded
  /\ recorded <= Lanes * FailedBatches

\* "When enabled, the engine will automatically stop when an error is detected"
\* (base_engine.h): every core comes to rest.
StopsOnError ==
  (stop_on_error /\ recorded > 0)
    ~> ((\A w \in Workers : Gone(worker[w])) \/ recorded = 0 \/ terminated)

\* A test with a duration ends, whichever core it is handed to.
EndsAtDuration == (running /\ timed) ~> (~running \/ ~timed \/ terminated)

\* While the test goes on, what has been recorded comes to be shown.
ErrorsSurface ==
  \A n \in 1..MaxErrors :
    (running /\ recorded >= n)
      ~> (current_metrics.error_count >= n \/ ~running \/ recorded < n \/ terminated)

\* "Total errors detected" (cpu_engine.h): once the threads are joined, get_metrics()
\* accounts for every error they recorded.  No run checks it, as the model refutes it.
FinalMetricsComplete ==
  starts > 0 /\ Joined /\ holder = "nobody" => current_metrics.error_count = recorded

\* "Record via verify (will always fail since values differ)" (cpu_engine.cpp:408): a
\* batch that failed, and marked its core, has an entry in the verifier.  The model
\* refutes this one, too.
FailureIsRecorded == (\E w \in Workers : core_error[w]) => recorded > 0
=============================================================================
