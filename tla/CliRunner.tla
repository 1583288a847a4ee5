------------------------------ MODULE CliRunner ------------------------------
(***************************************************************************)
(* CliRunner: one program per command, from run() to its exit code.  The   *)
(* engines a command tests are seen through their interface: start() and   *)
(* stop(), is_running(), the metrics they give, and the callback through   *)
(* which they fill a local variable of the command; so is TestScheduler.   *)
(* How an engine does this is CpuEngine, RamEngine, StorageEngine,         *)
(* GpuEngine and PsuEngine.                                                *)
(*                                                                         *)
(* The guardian of a command never acts: the SensorManager it reads is     *)
(* initialized and never polled, so that every reading is 0.  The count of *)
(* the WHEA monitor is printed and has no part in the verdict.             *)
(***************************************************************************)
EXTENDS FileStore, Sequences

CONSTANTS
  Menus,         \* the sets of commands a behaviour draws from
  MaxSteps,      \* bound: steps of a schedule
  MaxPrograms    \* bound: commands given in a row

Kinds == {"cpu", "gpu", "ram", "storage", "psu"}
Names == {"test", "combined", "schedule", "certificate", "benchmark", "monitor", "compare",
          "unknown", "upload", "verify", "list", "submit", "show"}

ASSUME CliAssumption ==
  /\ MaxSteps \in Nat /\ MaxPrograms \in Nat
  /\ \A m \in Menus : \A c \in m : c.name \in Names /\ c.kinds \subseteq Kinds

VARIABLES
  menu, programs,        \* what may still be commanded
  command,               \* its name and the engines it names
  stop_on_error, expired, \* an option, and the duration of a combined test
  pc, exit_code,         \* where run() is; -1 while nothing has been returned
  guardian, whea,        \* their threads run
  engine, meter,         \* the worker of each engine, and its thread of metrics
  sample,                \* the metrics that thread is about to hand over show an error
  found,                 \* the engine has counted an error
  last,                  \* the command's copy of the metrics shows one
  shown,                 \* one was printed while the engine ran
  locals_alive, late_call,
  joining,               \* the engine stop() waits for
  results, test_passed,
  steps,                 \* steps of the schedule
  certificate            \* the certificate last made, on the disk

options == <<menu, programs, command, stop_on_error, expired, steps>>
monitors == <<guardian, whea>>
engines == <<engine, meter, sample, found>>
copies == <<last, shown, locals_alive, late_call>>
verdict == <<results, test_passed, exit_code>>
vars == <<storeVars, options, pc, monitors, engines, copies, joining, verdict, certificate>>

Goes(from, to) == pc = from /\ pc' = to
is_running(k) == engine[k] \in {"running", "hung"}

\* CPU and PSU metrics come from a thread of their own.
Metered == {"cpu", "psu"}

\* What a command makes of each engine: whether its result is read from the copy or from
\* get_metrics(), whether a start() that refuses is seen, and whether a result that is not
\* passed clears test_passed.
CpuBranch == [copied |-> TRUE, refusable |-> FALSE, counted |-> TRUE]

StorageBranch == [copied |-> FALSE, refusable |-> TRUE, counted |-> FALSE]

GpuBranch == [copied |-> TRUE, refusable |-> TRUE, counted |-> TRUE]

PsuBranch == [copied |-> TRUE, refusable |-> FALSE, counted |-> TRUE]

\* Mutant: a RAM test that failed does not clear it either.
RamUncounted == [copied |-> FALSE, refusable |-> FALSE, counted |-> FALSE]

RamBranch == [copied |-> FALSE, refusable |-> FALSE, counted |-> TRUE]

Branch == [cpu |-> CpuBranch, ram |-> RamBranch, storage |-> StorageBranch,
           gpu |-> GpuBranch, psu |-> PsuBranch]

-----------------------------------------------------------------------------
(* The engines.                                                            *)

EngineStep == UNCHANGED <<storeVars, options, pc, monitors, joining, verdict, certificate>>

FindError(k) ==
  /\ EngineStep /\ engine[k] \in {"running", "stopping"} /\ ~found[k]
  /\ found' = [found EXCEPT ![k] = TRUE]
  /\ UNCHANGED <<engine, meter, sample, copies>>

\* The callback: it writes a local variable of the command, which may be gone.
metrics_callback(k, errors) ==
  IF locals_alive
    THEN /\ last' = [last EXCEPT ![k] = errors]
         /\ shown' = [shown EXCEPT ![k] = @ \/ (errors /\ is_running(k))]
         /\ UNCHANGED <<locals_alive, late_call>>
    ELSE late_call' = late_call \cup {k} /\ UNCHANGED <<last, shown, locals_alive>>

\* A worker calls it between two pieces of work.
WorkerCalls(k) ==
  /\ EngineStep /\ k \notin Metered /\ engine[k] \in {"running", "stopping"}
  /\ last[k] # found[k]
  /\ metrics_callback(k, found[k])
  /\ UNCHANGED engines

\* The other threads look at running, take the metrics, and call.  A PSU test starts its
\* loads again and again, and each time their count begins at zero.
MeterSamples(k) ==
  /\ EngineStep /\ meter[k] = "live" /\ is_running(k)
  /\ meter' = [meter EXCEPT ![k] = "calling"]
  /\ \E s \in {found[k]} \cup (IF k = "psu" THEN {FALSE} ELSE {}) :
       sample' = [sample EXCEPT ![k] = s]
  /\ UNCHANGED <<engine, found, copies>>

MeterCalls(k) ==
  /\ EngineStep /\ meter[k] = "calling"
  /\ metrics_callback(k, sample[k])
  /\ meter' = [meter EXCEPT ![k] = "live"] /\ sample' = [sample EXCEPT ![k] = FALSE]
  /\ UNCHANGED <<engine, found>>

MeterEnds(k) ==
  /\ EngineStep /\ meter[k] = "live" /\ ~is_running(k)
  /\ meter' = [meter EXCEPT ![k] = "ended"]
  /\ UNCHANGED <<engine, sample, found, copies>>

\* The worker of a GPU hands over what it has counted before it clears running.
LastCall(k) ==
  IF k = "gpu" THEN metrics_callback(k, found[k]) ELSE UNCHANGED copies

\* Mutant: running is cleared while the worker is still at it.
EndsWhileWorking(k) ==
  /\ EngineStep /\ UNCHANGED <<meter, sample, found, copies>>
  /\ \/ engine[k] = "running" /\ engine' = [engine EXCEPT ![k] = "stopping"]
     \/ engine[k] = "stopping" /\ engine' = [engine EXCEPT ![k] = "over"]

EngineEnds(k) ==
  /\ EngineStep /\ engine[k] \in {"running", "stopping"}
  /\ engine' = [engine EXCEPT ![k] = "over"]
  /\ LastCall(k) /\ UNCHANGED <<meter, sample, found>>

\* The first worker of a CPU test to see the time over clears running for all.
CpuClears ==
  /\ EngineStep /\ engine["cpu"] = "running"
  /\ engine' = [engine EXCEPT !["cpu"] = "stopping"]
  /\ UNCHANGED <<meter, sample, found, copies>>

\* A buffer the driver refuses ends the worker, and running stays.
GpuHangs ==
  /\ EngineStep /\ engine["gpu"] = "running"
  /\ engine' = [engine EXCEPT !["gpu"] = "hung"]
  /\ LastCall("gpu") /\ UNCHANGED <<meter, sample, found>>

EngineWorks(k) ==
  \/ FindError(k) \/ WorkerCalls(k) \/ MeterSamples(k) \/ MeterCalls(k) \/ MeterEnds(k)
  \/ EngineEnds(k)

-----------------------------------------------------------------------------
(* run(): the dispatch.                                                    *)

FirstPlace(name) ==
  CASE name \in {"test", "combined"} -> "create"
    [] name \in {"schedule", "certificate"} -> "load"
    [] OTHER -> name

run(c) ==
  /\ pc = "shell" /\ saving = "idle" /\ programs < MaxPrograms /\ c \in menu
  /\ programs' = programs + 1 /\ command' = c /\ pc' = FirstPlace(c.name)
  /\ expired' = FALSE
  /\ stop_on_error' \in IF c.name = "certificate" THEN {TRUE} ELSE BOOLEAN
  /\ steps' \in 0..(IF FirstPlace(c.name) = "load" THEN MaxSteps ELSE 0)
  /\ engine' = [k \in Kinds |-> "none"] /\ meter' = [k \in Kinds |-> "none"]
  /\ sample' = [k \in Kinds |-> FALSE] /\ found' = [k \in Kinds |-> FALSE]
  /\ last' = [k \in Kinds |-> FALSE] /\ shown' = [k \in Kinds |-> FALSE]
  /\ locals_alive' = TRUE /\ late_call' = {}
  /\ results' = <<>> /\ test_passed' = TRUE /\ exit_code' = -1
  /\ UNCHANGED <<storeVars, menu, monitors, joining, certificate>>

\* A command that does one thing and returns.
Returns(codes) ==
  /\ pc' = "shell" /\ exit_code' \in codes
  /\ UNCHANGED <<options, monitors, engines, copies, joining, results, test_passed, certificate>>

\* No command, an unknown one, or an unknown preset or tier.
Refuses == pc = "unknown" /\ Returns({2}) /\ UNCHANGED storeVars
\* Reports without a metric in common cannot be compared.
run_compare == pc = "compare" /\ Returns({0, 2}) /\ UNCHANGED storeVars
\* A storage benchmark may fail; every other is passed.
RunBenchmark == pc = "benchmark" /\ Returns({0, 2}) /\ UNCHANGED storeVars
\* Without a source of readings there is nothing to monitor.
run_monitor == pc = "monitor" /\ Returns({0, 2}) /\ UNCHANGED storeVars

-----------------------------------------------------------------------------
(* run_test() and run_combined().                                          *)

single == command.name = "test"

CommandStep == UNCHANGED <<storeVars, options, meter, sample, joining, certificate>>

\* A GPU that cannot be initialized ends a test, and is left out of a combined one.
Create ==
  /\ pc = "create" /\ CommandStep
  /\ whea' \in BOOLEAN /\ guardian' \in (IF single THEN BOOLEAN ELSE {FALSE})
  /\ \E made \in {command.kinds, command.kinds \ {"gpu"}} :
       /\ engine' = [k \in Kinds |-> IF k \in made THEN "created" ELSE "none"]
       /\ IF single /\ made = {}
            THEN pc' = "scope" /\ exit_code' = 2
            ELSE pc' = "start" /\ UNCHANGED exit_code
  /\ UNCHANGED <<found, copies, results, test_passed>>

\* start() of a GPU or storage engine may refuse.  A combined test does not look.
StartEngines ==
  /\ pc = "start" /\ UNCHANGED <<storeVars, options, sample, joining, certificate>>
  /\ \E refused \in SUBSET {k \in Kinds : Branch[k].refusable} :
       LET started == {k \in Kinds : engine[k] = "created"} \ refused IN
       /\ engine' = [k \in Kinds |-> IF k \in started THEN "running" ELSE engine[k]]
       /\ meter' = [k \in Kinds |-> IF k \in started \cap Metered THEN "live" ELSE meter[k]]
       /\ IF single /\ started = {}
            THEN pc' = "scope" /\ exit_code' = 2
            ELSE pc' = "wait" /\ UNCHANGED exit_code
  /\ UNCHANGED <<monitors, found, copies, results, test_passed>>

SeesError == stop_on_error /\ \E k \in {"cpu", "gpu", "ram"} : last[k]

AllDone == \A k \in Kinds : ~is_running(k)

\* Mutant: a combined test waits for its engines.
DoneWaiting == AllDone \/ (~single /\ SeesError)

\* A test waits for its engine; a combined one for all engines, for its time, or for an
\* error it is told of.
WaitOver == AllDone \/ (~single /\ (expired \/ SeesError))

Wait ==
  /\ Goes("wait", IF single THEN "collect" ELSE "stop") /\ WaitOver
  /\ CommandStep /\ UNCHANGED <<monitors, engine, found, copies, verdict>>

StopOrder == <<"cpu", "gpu", "ram", "storage">>
IsNextToStop(i) ==
  is_running(StopOrder[i]) /\ \A j \in 1..(i - 1) : ~is_running(StopOrder[j])

StopEngine(i) ==
  LET k == StopOrder[i] IN
  /\ pc = "stop" /\ joining = "nobody" /\ IsNextToStop(i) /\ joining' = k
  /\ engine' = [engine EXCEPT ![k] = IF @ = "hung" THEN "over" ELSE "stopping"]
  /\ UNCHANGED <<storeVars, options, pc, monitors, meter, sample, found, copies, verdict,
                 certificate>>

HasEnded(k) == engine[k] = "over" /\ meter[k] \in {"none", "ended"}

JoinEngine ==
  /\ pc = "stop" /\ joining # "nobody" /\ HasEnded(joining)
  /\ engine' = [engine EXCEPT ![joining] = "joined"] /\ joining' = "nobody"
  /\ UNCHANGED <<storeVars, options, pc, monitors, meter, sample, found, copies, verdict,
                 certificate>>

StopsDone ==
  /\ Goes("stop", "guards") /\ joining = "nobody" /\ AllDone
  /\ CommandStep /\ UNCHANGED <<monitors, engine, found, copies, verdict>>

\* The errors a command reads for its result.
ErrorsOf(k) == IF Branch[k].copied THEN last[k] ELSE found[k]
Counted(k) == ~single \/ Branch[k].counted

\* One result for each engine that was made, in the order of the code.
Collect ==
  LET made == SelectSeq(StopOrder \o <<"psu">>, LAMBDA k : engine[k] # "none") IN
  /\ Goes("collect", IF single THEN "scope" ELSE "verdict") /\ CommandStep
  /\ results' = [i \in 1..Len(made) |-> ~ErrorsOf(made[i])]
  /\ test_passed' = \A k \in Kinds : engine[k] # "none" /\ Counted(k) => ~ErrorsOf(k)
  /\ UNCHANGED <<monitors, engine, found, copies, exit_code>>

\* last_metrics is declared after the engine: it dies first.
EndScope ==
  /\ Goes("scope", "destroy") /\ locals_alive' = FALSE /\ CommandStep
  /\ UNCHANGED <<monitors, engine, found, last, shown, late_call, verdict>>

\* An engine's destructor is its stop(): it waits for every thread.
DestroyEngine(k) ==
  /\ pc = "destroy" /\ CommandStep
  /\ engine[k] \in {"created", "joined"} \/ HasEnded(k)
  /\ engine' = [engine EXCEPT ![k] = "destroyed"]
  /\ UNCHANGED <<pc, monitors, found, copies, verdict>>

AllDestroyed == \A k \in Kinds : engine[k] \in {"none", "destroyed"}

\* run_test() has its guards still to stop, run_combined() has done.
Destroyed ==
  /\ Goes("destroy", IF single THEN "guards" ELSE "shell") /\ AllDestroyed /\ CommandStep
  /\ UNCHANGED <<monitors, engine, found, copies, verdict>>

StopGuards ==
  /\ Goes("guards", IF ~single THEN "collect"
                    ELSE IF exit_code = 2 THEN "shell" ELSE "verdict")
  /\ guardian' = FALSE /\ whea' = FALSE
  /\ CommandStep /\ UNCHANGED <<engine, found, copies, verdict>>

\* The report may fail to be written: it changes nothing.  What is left to destroy of a
\* combined test is destroyed behind its return.
Verdict ==
  /\ Goes("verdict", IF command.name = "combined" THEN "scope" ELSE "shell")
  /\ exit_code' = IF test_passed THEN 0 ELSE 1
  /\ CommandStep /\ UNCHANGED <<monitors, engine, found, copies, results, test_passed>>

run_test_or_combined ==
  \/ Create \/ StartEngines \/ Wait \/ JoinEngine \/ StopsDone \/ Collect
  \/ (\E i \in DOMAIN StopOrder : StopEngine(i))
  \/ EndScope \/ (\E k \in Kinds : DestroyEngine(k)) \/ Destroyed \/ StopGuards \/ Verdict

-----------------------------------------------------------------------------
(* Schedules, presets and certificates: TestScheduler's results.           *)

LoadSchedule ==
  /\ pc = "load" /\ CommandStep
  /\ IF steps = 0 THEN pc' = "shell" /\ exit_code' = 2
                  ELSE pc' = "schedule" /\ UNCHANGED exit_code
  /\ UNCHANGED <<monitors, engine, found, copies, results, test_passed>>

GivesUp == stop_on_error /\ \E i \in DOMAIN results : ~results[i]

AllPassed == \A i \in DOMAIN results : results[i]

ScheduleStep ==
  /\ pc = "schedule" /\ Len(results) < steps /\ ~GivesUp /\ CommandStep
  /\ \E passed \in BOOLEAN : results' = Append(results, passed)
  /\ UNCHANGED <<pc, monitors, engine, found, copies, test_passed, exit_code>>

EndSchedule ==
  /\ Goes("schedule", IF command.name = "certificate" THEN "certify" ELSE "verdict")
  /\ Len(results) = steps \/ GivesUp
  /\ test_passed' = AllPassed
  /\ CommandStep /\ UNCHANGED <<monitors, engine, found, copies, results, exit_code>>

NoCertificate == [passed |-> FALSE, hash |-> "none"]

generate_json(cert) == [passed |-> cert.passed, hash |-> cert.hash]

\* The document is made before compute_hash() is called: its field is empty.
IssueCertificate ==
  /\ Goes("certify", "verdict")
  /\ certificate' = generate_json([passed |-> test_passed, hash |-> "empty"])
  /\ UNCHANGED <<storeVars, options, monitors, engines, copies, joining, verdict>>

run_schedule == LoadSchedule \/ ScheduleStep \/ EndSchedule \/ IssueCertificate

-----------------------------------------------------------------------------
(* The stores.                                                             *)

StoreCommand ==
  UNCHANGED <<options, monitors, engines, copies, joining, results, test_passed, certificate>>

\* The file named may be missing, or hold the certificate made here or another one.
run_cert_upload ==
  /\ pc = "upload" /\ StoreCommand
  /\ \/ pc' = "shell" /\ exit_code' = 2 /\ UNCHANGED storeVars
     \/ /\ \E h \in Entries \cup ({certificate.hash} \ {"none"}) : HasHash(h) /\ Load(h)
        /\ pc' = "saving" /\ UNCHANGED exit_code

run_cert_verify ==
  /\ pc = "verify"
  /\ \/ \E h \in Entries : Returns({IF verify(h) THEN 0 ELSE 1}) /\ UNCHANGED storeVars
     \/ Returns({1}) /\ ReadRefused

\* An empty list is one, too, read or not.
run_cert_list == pc = "list" /\ Returns({0}) /\ UNCHANGED storeVars

\* results_ is that of this program, which has tested nothing: the scores are zero.
LeaderboardSubmit ==
  /\ pc = "submit" /\ StoreCommand
  /\ (\E e \in Entries : Load(e)) /\ pc' = "saving" /\ UNCHANGED exit_code

LeaderboardShow == pc = "show" /\ Returns({0}) /\ UNCHANGED storeVars

Saving ==
  /\ pc = "saving" /\ save_db /\ StoreCommand /\ UNCHANGED <<pc, exit_code>>

\* Leaderboard::submit returns nothing: the command says "Submitted" whatever happened.
Saved ==
  /\ pc = "saving" /\ pc' = "shell" /\ saving \in {"saved", "failed"} /\ saving' = "idle"
  /\ exit_code' = IF saving = "saved" \/ store = "leaderboard" THEN 0 ELSE 2
  /\ StoreCommand
  /\ UNCHANGED <<store, final, tmp, memory, entry, unread, acknowledged, gap, mishaps>>

Dies ==
  /\ pc = "saving" /\ Crash /\ pc' = "shell" /\ StoreCommand /\ UNCHANGED exit_code

StoreCommands ==
  \/ run_cert_upload \/ run_cert_verify \/ run_cert_list
  \/ LeaderboardSubmit \/ LeaderboardShow \/ Saving \/ Saved \/ Dies

-----------------------------------------------------------------------------
CliInit ==
  /\ menu \in Menus /\ programs = 0 /\ steps = 0
  /\ stop_on_error = FALSE /\ expired = FALSE
  /\ command = [name |-> "help", kinds |-> {}]
  /\ pc = "shell" /\ exit_code = -1 /\ guardian = FALSE /\ whea = FALSE
  /\ engine = [k \in Kinds |-> "none"] /\ meter = [k \in Kinds |-> "none"]
  /\ sample = [k \in Kinds |-> FALSE] /\ found = [k \in Kinds |-> FALSE]
  /\ last = [k \in Kinds |-> FALSE] /\ shown = [k \in Kinds |-> FALSE]
  /\ locals_alive = TRUE /\ late_call = {} /\ joining = "nobody"
  /\ results = <<>> /\ test_passed = TRUE /\ certificate = NoCertificate

\* A store is given the commands it has.
Fits(c) ==
  /\ c.name \in {"upload", "verify", "list"} => store = "certs"
  /\ c.name \in {"submit", "show"} => store = "leaderboard"

Init == StoreInit /\ CliInit

TimePasses ==
  /\ pc = "wait" /\ ~single /\ ~expired /\ expired' = TRUE
  /\ UNCHANGED <<storeVars, menu, programs, command, stop_on_error, steps, pc, monitors,
                 engines, copies, joining, verdict, certificate>>

Program ==
  \/ Refuses \/ run_compare \/ RunBenchmark \/ run_monitor
  \/ run_test_or_combined \/ run_schedule \/ StoreCommands

Next ==
  \/ \E c \in menu : Fits(c) /\ run(c)
  \/ Program
  \/ \E k \in Kinds : EngineWorks(k)
  \/ CpuClears \/ GpuHangs
  \/ TimePasses

Spec == Init /\ [][Next]_vars

\* The program runs, time passes, the threads of the engines run, and an engine ends by
\* itself, as each engine's own module shows, unless the GPU hangs.
FairSpec ==
  /\ Spec
  /\ WF_vars(Program) /\ WF_vars(TimePasses)
  /\ \A k \in Kinds : WF_vars(EngineEnds(k)) /\ WF_vars(MeterCalls(k)) /\ WF_vars(MeterEnds(k))

-----------------------------------------------------------------------------
(* Properties.                                                             *)

Finished == pc = "shell" /\ exit_code # -1

\* What the exit code of a test does not tell of: a storage test run alone, the errors of
\* a PSU test whose loads were started again, and those of a CPU test that were found
\* after the last metrics were printed.
Blind(k) ==
  \/ k = "storage" /\ single
  \/ k = "psu"
  \/ k = "cpu" /\ ~shown[k]

\* 0 means that no engine found an error, these blind spots apart, that every step of a
\* schedule was run and passed, and that its certificate says so; 1 that an engine did find
\* one, that a step failed, or that a certificate was not found in the store.
ExitCodeSound ==
  Finished =>
    /\ exit_code = 0 /\ command.name \in {"test", "combined"} =>
         \A k \in Kinds : found[k] => Blind(k)
    /\ exit_code = 0 /\ FirstPlace(command.name) = "load" => Len(results) = steps /\ AllPassed
    /\ exit_code \in {0, 1} /\ command.name = "certificate" =>
         certificate.passed = (exit_code = 0)
    /\ exit_code = 1 => (\E k \in Kinds : found[k]) \/ ~AllPassed \/ command.name = "verify"

\* Only a CPU or PSU test calls back into the local variables of a command that is over:
\* their thread of metrics looks at running, and calls later.
TouchesOnlyTheLiving == late_call \subseteq Metered

\* Every command returns, unless it waits for a GPU that was refused a buffer.
SessionEnds ==
  pc \notin {"shell"} ~> (pc = "shell" \/ (single /\ engine["gpu"] = "hung"))

\* A certificate this program made is one its store takes: no run checks it, as the model
\* refutes it (the hash of the document is empty).
OwnCertificateUploads == certificate # NoCertificate => HasHash(certificate.hash)

\* "0 = PASS": a command that returns it has no failed test in its report.
PassMeansPassed == Finished /\ exit_code = 0 => AllPassed
=============================================================================
