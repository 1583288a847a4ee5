--------------------------- MODULE TestScheduler ---------------------------
(***************************************************************************)
(* TestScheduler and the four engines it owns.  A schedule is a sequence   *)
(* of steps; steps joined by parallel_with_next form a group that runs     *)
(* together.  The GUI thread starts a group, looks at it on a 500 ms tick, *)
(* and stops it when its time is up or no engine of it is running any more *)
(* (onTick); stopping reads the errors of each step, joins its engine and  *)
(* records a StepResult.  The engines run in threads of their own.         *)
(***************************************************************************)
EXTENDS Integers, Sequences, SequencesExt

CONSTANTS
  Schedules,   \* the schedules that may be loaded, sequences of steps
  MaxDuration, \* the longest step of any schedule
  MaxFound,    \* how many errors an engine may find in one run
  MaxStarts    \* how many times the schedule may be started

Engines == {"cpu", "gpu", "ram", "storage"}

\* A step may name an engine the scheduler does not know ("psu").
TestStep == [engine: STRING, duration: 0..MaxDuration, parallel_with_next: BOOLEAN]

ASSUME SchedulerAssumption ==
  /\ Schedules \subseteq Seq(TestStep)
  /\ {MaxDuration, MaxFound, MaxStarts} \subseteq Nat

VARIABLES
  steps, stop_on_error, gpu_available,
  pc,            \* "idle": in the event loop; "start": inside advanceToNextStep;
                 \* "look", "join": inside stopCurrentEngines; "terminated":
                 \* std::terminate was called
  caller,        \* who called stopCurrentEngines: "onTick" or "stop"
  todo,          \* steps it has still to stop
  errors,        \* its local variable: what the step's engine has reported
  current_step,  \* the step last started, 0 before the first
  running, active, results, total_errors,
  verdict,       \* what scheduleCompleted said of results, "none" before it
  step_elapsed,  \* time since step_elapsed_.start()
  engine,        \* the state of each engine
  detected,      \* history: errors each engine had found when it was asked for them
  starts

control == <<pc, caller, todo, errors, current_step>>
setup == <<steps, stop_on_error, gpu_available>>
vars == <<setup, control, running, active, results, total_errors, verdict,
          step_elapsed, engine, detected, starts>>

Idle == [running |-> FALSE, thread |-> "none", found |-> 0, shown |-> 0,
         limit |-> 0]

Known(k) == steps[k].engine \in Engines
EngineOf(k) == engine[steps[k].engine]

-----------------------------------------------------------------------------
(* Starting engines.                                                       *)

Fresh(old, limit) ==
  [Idle EXCEPT !.running = TRUE, !.thread = "live", !.limit = limit]

\* start() of an engine that is not running but was never stopped assigns to a
\* std::thread that is still joinable; only StorageEngine joins it first.
Terminates(e, s) == e # "storage" /\ ~s.running /\ s.thread # "none"

\* CpuEngine stops the test that is running and begins anew, the others refuse;
\* only the CPU and the GPU are told how long the step lasts.
StartEngine(e, s, duration) ==
  IF s.running /\ e # "cpu" THEN s
  ELSE IF e = "gpu" /\ ~gpu_available THEN s
  ELSE Fresh(s, IF e \in {"cpu", "gpu"} THEN duration ELSE 0)

\* advanceToNextStep(), up to its loop.
BeginGroup ==
  /\ pc' = "start" /\ active' = <<>>
  /\ UNCHANGED <<engine, step_elapsed>>

NextIndex == current_step + 1

\* The loop goes on with the step chained to the one just started.
Chained(k) == k < Len(steps) /\ steps[k].parallel_with_next

\* startStep(), for one step of a group: the engines of those before it run already.
StartStep ==
  /\ pc = "start"
  /\ current_step' = NextIndex /\ active' = Append(active, NextIndex)
  /\ step_elapsed' = 0
  /\ LET e == steps[NextIndex].engine
         dies == e \in Engines /\ Terminates(e, engine[e])
     IN  /\ pc' = IF dies THEN "terminated" ELSE IF Chained(NextIndex) THEN pc ELSE "idle"
         /\ engine' = IF dies \/ e \notin Engines THEN engine
                      ELSE [engine EXCEPT ![e] = StartEngine(e, @, steps[NextIndex].duration)]
  /\ UNCHANGED <<setup, caller, todo, errors, running, results, total_errors, verdict,
                 detected, starts>>

-----------------------------------------------------------------------------
(* The user's side: SchedulePanel, and CliRunner's wait loops.             *)

Load(schedule) ==
  /\ pc = "idle" /\ ~running
  /\ starts < MaxStarts
  /\ schedule # steps
  /\ steps' = schedule
  /\ results' = <<>> /\ detected' = <<>> /\ verdict' = "none"
  /\ UNCHANGED <<stop_on_error, gpu_available, control, running, active,
                 total_errors, step_elapsed, engine, starts>>

\* Mutant: the errors of the run before still count.
ResetAllButTotal == results' = <<>> /\ detected' = <<>> /\ UNCHANGED total_errors

Reset == results' = <<>> /\ detected' = <<>> /\ total_errors' = 0

Start ==
  /\ pc = "idle" /\ ~running /\ steps # <<>>
  /\ starts < MaxStarts /\ starts' = starts + 1
  /\ running' = TRUE
  /\ Reset
  /\ verdict' = "none" /\ current_step' = 0
  /\ BeginGroup
  /\ UNCHANGED <<setup, caller, todo, errors>>

\* Mutant: of a parallel group only the first step is stopped.
ToStopFirst == <<Head(active)>>

ToStop == active

\* Entering stopCurrentEngines().
Stopping(by) ==
  /\ pc' = "look" /\ caller' = by /\ todo' = ToStop
  /\ UNCHANGED <<setup, errors, current_step, running, active, results, total_errors, verdict,
                 step_elapsed, engine, detected, starts>>

Stop == pc = "idle" /\ running /\ Stopping("stop")

-----------------------------------------------------------------------------
(* The tick.                                                               *)

TimeIsUp ==
  \A j \in DOMAIN active : step_elapsed >= steps[active[j]].duration

AllDone ==
  \A j \in DOMAIN active :
    LET k == active[j]
    IN  ~(Known(k) /\ EngineOf(k).running /\ step_elapsed < steps[k].duration)

\* Mutant: a group ends only when its engines have ended by themselves.
GroupOverWhenStopped ==
  \A j \in DOMAIN active : Known(active[j]) => ~EngineOf(active[j]).running

GroupOver == TimeIsUp \/ AllDone

\* A tick that finds work to do; any other leaves everything as it is.
Tick ==
  /\ pc = "idle" /\ running /\ active # <<>>
  /\ GroupOver
  /\ Stopping("onTick")

Record(k, n) ==
  /\ results' = Append(results, [index |-> k, errors |-> n, passed |-> n = 0])
  /\ total_errors' = total_errors + n
  /\ todo' = Tail(todo)

Witness(k) ==
  detected' = Append(detected, IF Known(k) THEN EngineOf(k).found ELSE 0)

\* running_.store(false), or stop_requested_ and then running_, inside stop().
TellToStop(e) == [engine[e] EXCEPT !.running = FALSE]

\* An engine that is no longer running is neither asked for errors nor stopped.
SkipStopped ==
  /\ pc = "look" /\ todo # <<>>
  /\ LET k == Head(todo)
     IN  (Known(k) => ~EngineOf(k).running) /\ Record(k, 0) /\ Witness(k)
  /\ UNCHANGED <<setup, pc, caller, errors, current_step, running, active, verdict,
                 step_elapsed, engine, starts>>

\* get_metrics(), then stop(): what the engine finds from here on is not read.
ReadAndStop ==
  /\ pc = "look" /\ todo # <<>>
  /\ LET k == Head(todo)
     IN  /\ Known(k) /\ EngineOf(k).running
         /\ errors' = EngineOf(k).shown /\ Witness(k)
         /\ engine' = [engine EXCEPT ![steps[k].engine] = TellToStop(steps[k].engine)]
  /\ pc' = "join"
  /\ UNCHANGED <<setup, caller, todo, current_step, running, active, results, total_errors,
                 verdict, step_elapsed, starts>>

Join ==
  /\ pc = "join"
  /\ LET k == Head(todo)
     IN  /\ EngineOf(k).thread = "exited"
         /\ engine' = [engine EXCEPT ![steps[k].engine].thread = "none"]
         /\ Record(k, errors)
  /\ pc' = "look" /\ errors' = 0
  /\ UNCHANGED <<setup, caller, current_step, running, active, verdict, step_elapsed,
                 detected, starts>>

EndStop ==
  /\ pc = "look" /\ todo = <<>> /\ caller = "stop"
  /\ pc' = "idle" /\ running' = FALSE /\ active' = <<>> /\ step_elapsed' = 0
  /\ current_step' = 0
  /\ UNCHANGED <<setup, caller, todo, errors, results, total_errors, verdict,
                 engine, detected, starts>>

\* Mutant: only the last step is looked at.
FailsOnLast == stop_on_error /\ ~Last(results).passed

GivesUp == stop_on_error /\ total_errors > 0

Complete(passed) ==
  /\ running' = FALSE /\ active' = <<>> /\ pc' = "idle"
  /\ verdict' = IF passed THEN "passed" ELSE "failed"
  /\ step_elapsed' = 0 /\ UNCHANGED engine

\* The rest of onTick(), and advanceToNextStep().
EndTick ==
  /\ pc = "look" /\ todo = <<>> /\ caller = "onTick"
  /\ IF GivesUp THEN Complete(FALSE)
     ELSE IF NextIndex > Len(steps) THEN Complete(total_errors = 0)
     ELSE BeginGroup /\ UNCHANGED <<running, verdict>>
  /\ caller' = "stop"
  /\ UNCHANGED <<setup, todo, errors, current_step, results, total_errors, detected, starts>>

-----------------------------------------------------------------------------
(* The engines' own threads and the clock.                                 *)

\* The CPU publishes what it has found from its metrics thread, and only while it
\* is running; the others count errors in the metrics directly.  An engine told to
\* stop still finishes the comparison it is in.
Detect(e) ==
  /\ engine[e].thread = "live" /\ engine[e].found < MaxFound
  /\ engine' = [engine EXCEPT ![e].found = @ + 1,
                              ![e].shown = IF e = "cpu" THEN @ ELSE @ + 1]

Publish ==
  /\ engine["cpu"].running /\ engine["cpu"].shown # engine["cpu"].found
  /\ engine' = [engine EXCEPT !["cpu"].shown = engine["cpu"].found]

\* The time limit of the CPU and the GPU; a RAM or storage test that is through, or
\* cannot allocate its buffer or open its file.  The worker that finds the CPU's time
\* up leaves the others in their block; elsewhere it is the last act of the thread.
EndByItself(e) ==
  /\ engine[e].running
  /\ e \in {"cpu", "gpu"} =>
       engine[e].limit > 0 /\ step_elapsed >= engine[e].limit
  /\ engine' = [engine EXCEPT ![e].running = FALSE,
                              ![e].thread = IF e = "cpu" THEN "live" ELSE "exited"]

Exit(e) ==
  /\ ~engine[e].running /\ engine[e].thread = "live"
  /\ engine' = [engine EXCEPT ![e].thread = "exited"]

Only == UNCHANGED <<setup, control, running, active, results, total_errors,
                    verdict, detected, starts>>

EngineStep ==
  /\ pc # "terminated"
  /\ Publish \/ \E e \in Engines : Detect(e) \/ EndByItself(e) \/ Exit(e)
  /\ Only /\ UNCHANGED step_elapsed

\* One clock is enough: the engines of a group are started with it, in less than a unit
\* of it, and no engine outlives its group (OnlyActiveRun).
TimePasses ==
  /\ running /\ pc \notin {"start", "terminated"} /\ step_elapsed < MaxDuration
  /\ step_elapsed' = step_elapsed + 1
  /\ Only /\ UNCHANGED engine

-----------------------------------------------------------------------------
Init ==
  /\ steps \in Schedules
  /\ stop_on_error \in BOOLEAN /\ gpu_available \in BOOLEAN
  /\ pc = "idle" /\ caller = "stop" /\ todo = <<>> /\ errors = 0 /\ current_step = 0
  /\ running = FALSE /\ active = <<>>
  /\ results = <<>> /\ detected = <<>> /\ total_errors = 0 /\ verdict = "none"
  /\ step_elapsed = 0
  /\ engine = [e \in Engines |-> Idle]
  /\ starts = 0

Scheduler == StartStep \/ Tick \/ SkipStopped \/ ReadAndStop \/ Join \/ EndStop \/ EndTick
User == Start \/ Stop \/ \E s \in Schedules : Load(s)

Next == Scheduler \/ User \/ EngineStep \/ TimePasses

Spec == Init /\ [][Next]_vars

\* The tick timer and the clock go on, and a thread told to stop comes to its end.
FairSpec ==
  /\ Spec
  /\ WF_vars(Scheduler) /\ WF_vars(TimePasses)
  /\ \A e \in Engines :
       WF_vars(pc # "terminated" /\ Exit(e) /\ Only /\ UNCHANGED step_elapsed)

-----------------------------------------------------------------------------
(* Properties.                                                             *)

Counts == [Engines -> [running: BOOLEAN, thread: {"none", "live", "exited"},
                       found: 0..MaxFound, shown: 0..MaxFound,
                       limit: 0..MaxDuration]]

\* Every variable stays in its range; an engine never shows more errors than one
\* run can find.
TypeOK ==
  /\ steps \in Schedules
  /\ pc \in {"idle", "start", "look", "join", "terminated"}
  /\ caller \in {"onTick", "stop"}
  /\ \A j \in DOMAIN todo : todo[j] \in DOMAIN steps
  /\ \A j \in DOMAIN active : active[j] \in DOMAIN steps
  /\ \A j \in DOMAIN results : results[j].index \in DOMAIN steps
  /\ errors \in 0..MaxFound /\ current_step \in Nat
  /\ verdict \in {"none", "passed", "failed"}
  /\ engine \in Counts

\* Outside stopCurrentEngines an engine runs only for a step that is active: no
\* engine outlives its group, nor the schedule, however it was ended.
OnlyActiveRun ==
  pc = "idle" =>
    \A e \in Engines : engine[e].running =>
      \E j \in DOMAIN active : steps[active[j]].engine = e

\* Results come one per step and in order, across groups, repeated engines and runs, and
\* each is charged only with errors its own engine had found during that step, not during
\* an earlier step or run; what is announced is what they say, and a schedule passes only
\* if every one of its steps has reported.
ResultsSound ==
  /\ \A k \in DOMAIN results : results[k].index = k /\ results[k].errors <= detected[k]
  /\ verdict # "none" =>
       (verdict = "passed" <=> \A k \in DOMAIN results : results[k].passed)
  /\ verdict = "passed" => Len(results) = Len(steps)

\* With stop_on_error, once an error of this run is counted no further group starts.
StopOnErrorStops ==
  [][running /\ stop_on_error /\ total_errors > 0
       => ToSet(active') \subseteq ToSet(active)]_vars

\* A started schedule ends, even if its engines do not end by themselves.
Completes == running ~> (~running \/ pc = "terminated")

\* "all errors == 0" (certificate.h:48): a schedule that is announced as passed, and
\* with it a certificate, had no error in any of its engines when they were asked.
PassedMeansNoErrors ==
  verdict = "passed" => \A k \in DOMAIN detected : detected[k] = 0
=============================================================================
