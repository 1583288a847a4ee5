--------------------------- MODULE CliRunnerProofs ---------------------------
(***************************************************************************)
(* The command line and its stores, for any commands, engines and numbers  *)
(* of steps, programs and mishaps: a store at rest is whole, no engine     *)
(* whose worker was joined calls into a command that is over, and the exit *)
(* code tells of every error outside its known blind spots.                *)
(***************************************************************************)
EXTENDS CliRunner, TLAPS

-----------------------------------------------------------------------------
(* The stores.                                                             *)

\* While a save is under way its memory has the entry to add, and all there was unless the
\* file was not read, and what it renames is that memory or bytes that were lost; the name of the store is
\* empty, with something to lose, between the removal and the rename only.
StoreInv ==
  /\ saving \in {"idle", "open", "write", "remove", "rename", "saved", "failed"}
  /\ {gap, unread} \subseteq BOOLEAN
  /\ saving \in {"remove", "rename"} => tmp \in {Torn, Whole(memory)}
  /\ ~gap =>
       /\ final # Torn
       /\ acknowledged \subseteq Parsed(final) \/ (saving = "rename" /\ final = Absent)
       /\ saving \in {"open", "write", "remove", "rename"} =>
            entry \in memory /\ (unread \/ acknowledged \subseteq memory)

LEMMA Documents ==
  /\ Absent # Torn /\ Parsed(Absent) = {} /\ Parsed(Torn) = {}
  /\ \A es : Whole(es) \notin {Absent, Torn} /\ Parsed(Whole(es)) = es
BY DEF Absent, Torn, Whole, Parsed

LEMMA InitStore == Init => StoreInv
BY Documents DEF Init, StoreInit, StoreInv

\* What a program loads it saves with what was there, if it could read that.
LEMMA LoadKeepsStore ==
  ASSUME StoreInv, NEW e, Load(e) PROVE StoreInv'
<1>1. /\ saving = "idle" /\ saving' = "open" /\ entry' = e
      /\ UNCHANGED <<final, tmp, acknowledged, gap>>
  BY DEF Load
<1>2. unread' \in BOOLEAN /\ e \in memory'
  BY DEF Load
<1>3. unread' \/ Parsed(final) \subseteq memory'
  BY DEF Load
<1>4. Parsed(final)' = Parsed(final)
  BY <1>1 DEF Parsed
<1>. QED
  BY <1>1, <1>2, <1>3, <1>4 DEF StoreInv, Torn

LEMMA SavingKeepsStore ==
  ASSUME StoreInv, save_db PROVE StoreInv'
<1>1. CASE OpenTmp
  BY <1>1 DEF OpenTmp, Saves, StoreInv, Parsed, Torn, Absent, Whole
<1>2. CASE WriteTmp
  BY <1>2 DEF WriteTmp, Saves, StoreInv, Parsed, Torn, Absent, Whole
<1>3. CASE RemoveFinal
  BY <1>3 DEF RemoveFinal, Saves, StoreInv, Parsed, Torn, Absent, Whole
<1>4. CASE RenameTmp
  <2>1. CASE saving' = "saved"
    <3>1. /\ saving = "rename" /\ unread' = unread /\ final' = tmp
          /\ acknowledged' = acknowledged \cup {entry}
          /\ gap' = (gap \/ tmp = Torn \/ unread)
      BY <1>4, <2>1 DEF RenameTmp, Saves
    <3>2. ~gap' => tmp = Whole(memory) /\ acknowledged \cup {entry} \subseteq memory
      BY <3>1 DEF StoreInv
    <3>3. Parsed(final)' = Parsed(tmp)
      BY <3>1 DEF Parsed
    <3>4. gap' \in BOOLEAN /\ unread' \in BOOLEAN
      BY <3>1 DEF StoreInv
    <3>5. ~gap' => final' # Torn /\ acknowledged' \subseteq Parsed(final)'
      BY <3>1, <3>2, <3>3, Documents
    <3>. QED
      BY <2>1, <3>4, <3>5 DEF StoreInv, Torn
  <2>2. CASE saving' = "failed"
    <3>1. /\ saving = "rename" /\ UNCHANGED <<unread, final, acknowledged>>
          /\ gap' = (gap \/ final = Absent)
      BY <1>4, <2>2 DEF RenameTmp, Saves
    <3>2. Parsed(final)' = Parsed(final)
      BY <3>1 DEF Parsed
    <3>. QED
      BY <2>2, <3>1, <3>2 DEF StoreInv, Torn
  <2>. QED
    BY <1>4, <2>1, <2>2 DEF RenameTmp, Saves
<1> QED BY <1>1, <1>2, <1>3, <1>4 DEF save_db

LEMMA CrashKeepsStore ==
  ASSUME StoreInv, Crash PROVE StoreInv'
BY DEF StoreInv, Crash, Parsed, Torn, Absent, Whole

LEMMA SavedKeepsStore ==
  ASSUME StoreInv, Saved PROVE StoreInv'
BY DEF StoreInv, Saved, Parsed, Torn, Absent, Whole

LEMMA StoreKept ==
  ASSUME StoreInv, UNCHANGED storeVars PROVE StoreInv'
BY DEF StoreInv, storeVars, Parsed, Torn, Absent, Whole

\* A query that could not read the file leaves it as it is.
LEMMA QueryKeepsStore ==
  ASSUME StoreInv, ReadRefused PROVE StoreInv'
BY DEF StoreInv, ReadRefused, Parsed, Torn, Absent, Whole

\* Whatever does not save leaves the store alone.
LEMMA StoreSteps ==
  ASSUME [Next]_vars
  PROVE  UNCHANGED storeVars \/ (\E e : Load(e)) \/ ReadRefused \/ save_db \/ Crash \/ Saved
<1>1. CASE UNCHANGED vars BY <1>1 DEF vars
<1>2. CASE \E c \in menu : Fits(c) /\ run(c) BY <1>2 DEF run
<1>3. CASE \E k \in Kinds : EngineWorks(k)
  BY <1>3 DEF EngineWorks, FindError, WorkerCalls, MeterSamples, MeterCalls, MeterEnds, EngineEnds,
              EngineStep
<1>4. CASE CpuClears \/ GpuHangs \/ TimePasses
  BY <1>4 DEF CpuClears, GpuHangs, TimePasses, EngineStep
<1>5. CASE Refuses \/ run_compare \/ RunBenchmark \/ run_monitor
  BY <1>5 DEF Refuses, run_compare, RunBenchmark, run_monitor
<1>6. CASE run_test_or_combined
  BY <1>6 DEF run_test_or_combined, Create, StartEngines, Wait, JoinEngine, StopsDone, Collect,
              StopEngine, EndScope, DestroyEngine, Destroyed, StopGuards, Verdict, CommandStep
<1>7. CASE run_schedule
  BY <1>7 DEF run_schedule, LoadSchedule, ScheduleStep, EndSchedule, IssueCertificate, CommandStep
<1>8. CASE StoreCommands
  BY <1>8 DEF StoreCommands, run_cert_upload, run_cert_verify, run_cert_list, LeaderboardSubmit,
              LeaderboardShow, Saving, Dies
<1> QED BY <1>1, <1>2, <1>3, <1>4, <1>5, <1>6, <1>7, <1>8 DEF Next, Program

\* certs.json and leaderboard.json: whatever submit() is refused, the reading of the file
\* included, and wherever a program dies in it, the file at rest is whole and has every
\* entry it was ever given, but for the three ways that gap names.
THEOREM StoreSurvivesHolds == Spec => []StoreSurvives
<1>1. Init => StoreInv BY InitStore
<1>2. StoreInv /\ [Next]_vars => StoreInv'
  BY StoreSteps, StoreKept, LoadKeepsStore, QueryKeepsStore, SavingKeepsStore, CrashKeepsStore, SavedKeepsStore
<1>3. StoreInv => StoreSurvives BY DEF StoreInv, StoreSurvives
<1> QED BY <1>1, <1>2, <1>3, PTL DEF Spec

-----------------------------------------------------------------------------
(* The engines of a command.                                               *)

EngineStates == {"none", "created", "running", "stopping", "hung", "over", "joined",
                 "destroyed"}
Places == {"shell", "create", "start", "wait", "stop", "guards", "collect", "verdict",
           "scope", "destroy", "load", "schedule", "certify", "saving"} \cup Names

TypeInv ==
  /\ pc \in Places
  /\ menu \in Menus
  /\ engine \in [Kinds -> EngineStates]
  /\ meter \in [Kinds -> {"none", "live", "calling", "ended"}]
  /\ sample \in [Kinds -> BOOLEAN] /\ found \in [Kinds -> BOOLEAN]
  /\ last \in [Kinds -> BOOLEAN] /\ shown \in [Kinds -> BOOLEAN]
  /\ locals_alive \in BOOLEAN /\ stop_on_error \in BOOLEAN /\ test_passed \in BOOLEAN
  /\ steps \in Nat
  /\ joining \in Kinds \cup {"nobody"}
  /\ exit_code \in {-1, 0, 1, 2}
  /\ command.name \in Names \cup {"help"} /\ command.kinds \subseteq Kinds

\* The worker may still find an error.
Working(k) == engine[k] \in {"running", "stopping"}

\* Outside of its waits a command has no engine that runs, and of the workers only
\* those of a CPU or PSU test may still be at it; in them, only the one it joins.
WorkerInv ==
  /\ pc \notin {"wait", "stop"} =>
       \A k \in Kinds : ~is_running(k) /\ (k \notin Metered => ~Working(k))
  /\ pc \in {"wait", "stop"} =>
       \A k \in Kinds \ Metered :
         engine[k] = "stopping" => pc = "stop" /\ joining = k
  /\ pc \in {"create", "start", "wait", "stop"} => locals_alive
  /\ \A k \in Kinds : meter[k] # "none" => k \in Metered

\* What is shown, handed over or copied was found.
CopyInv ==
  /\ \A k \in Kinds : (last[k] \/ sample[k]) => found[k]
  /\ \A k \in Kinds : engine[k] \in {"none", "created"} =>
       ~found[k] /\ ~shown[k] /\ meter[k] = "none"
  /\ meter["cpu"] = "calling" /\ last["cpu"] => sample["cpu"]
  /\ shown["cpu"] => last["cpu"]
  /\ engine["gpu"] \notin {"running", "stopping"} /\ found["gpu"] => last["gpu"]
  /\ pc \in {"create", "start"} => \A k \in Kinds : engine[k] \in {"none", "created"}

LEMMA InitType == Init => TypeInv
<1> SUFFICES ASSUME Init PROVE TypeInv OBVIOUS
<1> USE DEF Init, CliInit
<1>1. /\ pc \in Places /\ menu \in Menus /\ joining \in Kinds \cup {"nobody"}
      /\ exit_code \in {-1, 0, 1, 2} /\ steps \in Nat
      /\ command.name \in Names \cup {"help"} /\ command.kinds \subseteq Kinds
  BY DEF Places
<1>2. /\ engine \in [Kinds -> EngineStates]
      /\ meter \in [Kinds -> {"none", "live", "calling", "ended"}]
      /\ sample \in [Kinds -> BOOLEAN] /\ found \in [Kinds -> BOOLEAN]
      /\ last \in [Kinds -> BOOLEAN] /\ shown \in [Kinds -> BOOLEAN]
  BY DEF EngineStates
<1>3. /\ locals_alive \in BOOLEAN /\ stop_on_error \in BOOLEAN /\ test_passed \in BOOLEAN
  BY Zenon
<1> QED BY <1>1, <1>2, <1>3 DEF TypeInv

LEMMA CallbackType ==
  ASSUME TypeInv, NEW k \in Kinds, NEW b \in BOOLEAN, metrics_callback(k, b)
  PROVE  last' \in [Kinds -> BOOLEAN] /\ shown' \in [Kinds -> BOOLEAN] /\ locals_alive' \in BOOLEAN
<1>1. CASE locals_alive
  <2>1. last' = [last EXCEPT ![k] = b] /\ locals_alive' = locals_alive
    BY <1>1 DEF metrics_callback
  <2>2. shown' = [shown EXCEPT ![k] = @ \/ (b /\ is_running(k))]
    BY <1>1 DEF metrics_callback
  <2> QED BY <2>1, <2>2 DEF TypeInv
<1>2. CASE ~locals_alive
  BY <1>2 DEF metrics_callback, TypeInv
<1> QED BY <1>1, <1>2

LEMMA TypeKept ==
  ASSUME TypeInv, [Next]_vars PROVE TypeInv'
<1> USE DEF options, monitors, engines, copies, verdict
<1>1. ASSUME UNCHANGED vars PROVE TypeInv'
  BY <1>1 DEF TypeInv, vars
<1>2. ASSUME NEW c \in menu, run(c) PROVE TypeInv'
  <2>1. c.name \in Names /\ c.kinds \subseteq Kinds BY CliAssumption DEF TypeInv
  <2>2. FirstPlace(c.name) \in Places BY <2>1 DEF FirstPlace, Names, Places
  <2>3. steps' \in Nat BY <1>2, CliAssumption DEF run
  <2>4. stop_on_error' \in BOOLEAN BY <1>2 DEF run
  <2> QED BY <1>2, <2>1, <2>2, <2>3, <2>4 DEF run, TypeInv, EngineStates
<1>3. ASSUME NEW k \in Kinds, EngineWorks(k) PROVE TypeInv'
  <2>1. CASE FindError(k) BY <2>1 DEF FindError, EngineStep, TypeInv
  <2>2. CASE WorkerCalls(k)
    <3>1. found[k] \in BOOLEAN BY DEF TypeInv
    <3> QED BY <2>2, <3>1, CallbackType DEF WorkerCalls, EngineStep, TypeInv
  <2>3. CASE MeterSamples(k) BY <2>3 DEF MeterSamples, EngineStep, TypeInv
  <2>4. CASE MeterCalls(k)
    <3>1. sample[k] \in BOOLEAN BY DEF TypeInv
    <3> QED BY <2>4, <3>1, CallbackType DEF MeterCalls, EngineStep, TypeInv
  <2>5. CASE MeterEnds(k) BY <2>5 DEF MeterEnds, EngineStep, TypeInv
  <2>6. CASE EngineEnds(k)
    <3>1. found[k] \in BOOLEAN BY DEF TypeInv
    <3>2. last' \in [Kinds -> BOOLEAN] /\ shown' \in [Kinds -> BOOLEAN]
          /\ locals_alive' \in BOOLEAN
      BY <2>6, <3>1, CallbackType DEF EngineEnds, LastCall, TypeInv
    <3> QED BY <2>6, <3>2 DEF EngineEnds, EngineStep, TypeInv, EngineStates
  <2> QED BY <1>3, <2>1, <2>2, <2>3, <2>4, <2>5, <2>6 DEF EngineWorks
<1>4. ASSUME CpuClears PROVE TypeInv'
  BY <1>4 DEF CpuClears, EngineStep, TypeInv, EngineStates
<1>5. ASSUME GpuHangs PROVE TypeInv'
  <2>1. found["gpu"] \in BOOLEAN /\ "gpu" \in Kinds BY DEF TypeInv, Kinds
  <2>2. last' \in [Kinds -> BOOLEAN] /\ shown' \in [Kinds -> BOOLEAN] /\ locals_alive' \in BOOLEAN
    BY <1>5, <2>1, CallbackType DEF GpuHangs, LastCall
  <2> QED BY <1>5, <2>2 DEF GpuHangs, EngineStep, TypeInv, EngineStates
<1>6. ASSUME TimePasses PROVE TypeInv'
  BY <1>6 DEF TimePasses, TypeInv
<1>7. ASSUME Refuses \/ run_compare \/ RunBenchmark \/ run_monitor PROVE TypeInv'
  BY <1>7 DEF Refuses, run_compare, RunBenchmark, run_monitor, Returns, TypeInv, Places
<1>8. ASSUME run_test_or_combined PROVE TypeInv'
  <2> USE DEF CommandStep, Goes
  <2>1. CASE Create BY <2>1 DEF Create, TypeInv, Places, EngineStates
  <2>2. CASE StartEngines
    <3>1. engine' \in [Kinds -> EngineStates]
          /\ meter' \in [Kinds -> {"none", "live", "calling", "ended"}]
      BY <2>2 DEF StartEngines, TypeInv, EngineStates
    <3>2. pc' \in Places /\ exit_code' \in {-1, 0, 1, 2}
      BY <2>2 DEF StartEngines, TypeInv, Places
    <3> QED BY <2>2, <3>1, <3>2 DEF StartEngines, TypeInv
  <2>3. CASE Wait BY <2>3 DEF Wait, TypeInv, Places
  <2>4. CASE JoinEngine BY <2>4 DEF JoinEngine, TypeInv, EngineStates
  <2>5. CASE StopsDone BY <2>5 DEF StopsDone, TypeInv, Places
  <2>6. CASE Collect
    <3>1. test_passed' \in BOOLEAN BY <2>6 DEF Collect
    <3> QED BY <2>6, <3>1 DEF Collect, TypeInv, Places
  <2>7. ASSUME NEW i \in DOMAIN StopOrder, StopEngine(i) PROVE TypeInv'
    <3>1. StopOrder[i] \in Kinds BY DEF StopOrder, Kinds
    <3> QED BY <2>7, <3>1 DEF StopEngine, TypeInv, EngineStates
  <2>8. CASE EndScope BY <2>8 DEF EndScope, TypeInv, Places
  <2>9. ASSUME NEW k \in Kinds, DestroyEngine(k) PROVE TypeInv'
    BY <2>9 DEF DestroyEngine, TypeInv, EngineStates
  <2>10. CASE Destroyed BY <2>10 DEF Destroyed, TypeInv, Places
  <2>11. CASE StopGuards BY <2>11 DEF StopGuards, TypeInv, Places
  <2>12. CASE Verdict BY <2>12 DEF Verdict, TypeInv, Places
  <2> QED BY <1>8, <2>1, <2>2, <2>3, <2>4, <2>5, <2>6, <2>7, <2>8, <2>9, <2>10, <2>11, <2>12
          DEF run_test_or_combined
<1>9. ASSUME run_schedule PROVE TypeInv'
  <2> USE DEF CommandStep, Goes
  <2>1. CASE LoadSchedule BY <2>1 DEF LoadSchedule, TypeInv, Places
  <2>2. CASE ScheduleStep BY <2>2 DEF ScheduleStep, TypeInv
  <2>3. CASE EndSchedule BY <2>3 DEF EndSchedule, AllPassed, TypeInv, Places
  <2>4. CASE IssueCertificate BY <2>4 DEF IssueCertificate, TypeInv, Places
  <2> QED BY <1>9, <2>1, <2>2, <2>3, <2>4 DEF run_schedule
<1>10. ASSUME StoreCommands PROVE TypeInv'
  BY <1>10 DEF StoreCommands, run_cert_upload, run_cert_verify, run_cert_list, LeaderboardSubmit,
               LeaderboardShow, Saving, Saved, Dies, StoreCommand, Returns, TypeInv, Places
<1> HIDE DEF options, monitors, engines, copies, verdict
<1> QED BY <1>1, <1>2, <1>3, <1>4, <1>5, <1>6, <1>7, <1>8, <1>9, <1>10 DEF Next, Program

LEMMA CallbackLocals ==
  ASSUME NEW k, NEW b, metrics_callback(k, b)
  PROVE  /\ locals_alive' = locals_alive
         /\ locals_alive => late_call' = late_call
         /\ late_call' \subseteq late_call \cup {k}
BY DEF metrics_callback

\* What an engine does by itself moves no command, and starts nothing.
LEMMA EngineMoves ==
  ASSUME TypeInv,
         (\E k \in Kinds : EngineWorks(k)) \/ CpuClears \/ GpuHangs
  PROVE  /\ EngineStep /\ locals_alive' = locals_alive
         /\ \A k \in Kinds : meter'[k] # "none" => meter[k] # "none"
         /\ \A k \in Kinds : /\ is_running(k)' => is_running(k)
                             /\ Working(k)' => Working(k)
                             /\ engine'[k] = "stopping" => engine[k] = "stopping" \/ k = "cpu"
<1>1. ASSUME NEW k \in Kinds, EngineWorks(k)
      PROVE  /\ EngineStep /\ locals_alive' = locals_alive
             /\ \A j \in Kinds : meter'[j] # "none" => meter[j] # "none"
             /\ engine' = engine \/ (Working(k) /\ engine' = [engine EXCEPT ![k] = "over"])
  <2> USE DEF TypeInv, copies, engines, Working
  <2>1. CASE FindError(k) BY <2>1 DEF FindError
  <2>2. CASE WorkerCalls(k) BY <2>2, CallbackLocals DEF WorkerCalls
  <2>3. CASE MeterSamples(k) BY <2>3 DEF MeterSamples
  <2>4. CASE MeterCalls(k) BY <2>4, CallbackLocals DEF MeterCalls
  <2>5. CASE MeterEnds(k) BY <2>5 DEF MeterEnds
  <2>6. CASE EngineEnds(k) BY <2>6, CallbackLocals DEF EngineEnds, LastCall
  <2> QED BY <1>1, <2>1, <2>2, <2>3, <2>4, <2>5, <2>6 DEF EngineWorks
<1>2. ASSUME NEW k \in Kinds, EngineWorks(k)
      PROVE  \A j \in Kinds : /\ is_running(j)' => is_running(j)
                              /\ Working(j)' => Working(j)
                              /\ engine'[j] = "stopping" => engine[j] = "stopping"
  BY <1>2, <1>1 DEF TypeInv, is_running, Working
<1>3. ASSUME CpuClears \/ GpuHangs
      PROVE  /\ EngineStep /\ locals_alive' = locals_alive /\ meter' = meter
             /\ \/ engine["cpu"] = "running" /\ engine' = [engine EXCEPT !["cpu"] = "stopping"]
                \/ engine["gpu"] = "running" /\ engine' = [engine EXCEPT !["gpu"] = "hung"]
  BY <1>3, CallbackLocals DEF CpuClears, GpuHangs, LastCall, copies
<1>4. ASSUME CpuClears \/ GpuHangs
      PROVE  \A k \in Kinds : /\ is_running(k)' => is_running(k)
                              /\ Working(k)' => Working(k)
                              /\ engine'[k] = "stopping" => engine[k] = "stopping" \/ k = "cpu"
  BY <1>4, <1>3 DEF TypeInv, is_running, Working
<1> QED BY <1>1, <1>2, <1>3, <1>4

LEMMA WorkersOfEngines ==
  ASSUME TypeInv, WorkerInv,
         (\E k \in Kinds : EngineWorks(k)) \/ CpuClears \/ GpuHangs
  PROVE  WorkerInv'
<1>1. pc' = pc /\ joining' = joining BY EngineMoves DEF EngineStep
<1>2. locals_alive' = locals_alive /\ \A k \in Kinds : meter'[k] # "none" => meter[k] # "none"
  BY EngineMoves
<1>3. \A k \in Kinds : /\ is_running(k)' => is_running(k)
                       /\ Working(k)' => Working(k)
                       /\ engine'[k] = "stopping" => engine[k] = "stopping" \/ k = "cpu"
  BY EngineMoves
<1>4. ASSUME pc' \notin {"wait", "stop"}, NEW k \in Kinds
      PROVE  ~is_running(k)' /\ (k \notin Metered => ~Working(k)')
  <2>1. ~is_running(k) /\ (k \notin Metered => ~Working(k)) BY <1>1, <1>4 DEF WorkerInv
  <2> QED BY <1>3, <2>1
<1>5. ASSUME pc' \in {"wait", "stop"}, NEW k \in Kinds \ Metered, engine'[k] = "stopping"
      PROVE  pc' = "stop" /\ joining' = k
  <2>1. engine[k] = "stopping" BY <1>3, <1>5 DEF Metered
  <2> QED BY <1>1, <1>5, <2>1 DEF WorkerInv
<1>6. /\ pc' \in {"create", "start", "wait", "stop"} => locals_alive'
      /\ \A k \in Kinds : meter'[k] # "none" => k \in Metered
  BY <1>1, <1>2 DEF WorkerInv
<1> QED BY <1>4, <1>5, <1>6 DEF WorkerInv

\* A command that neither starts an engine nor waits leaves the workers as they are.
LEMMA WorkersElsewhere ==
  ASSUME WorkerInv, UNCHANGED <<engine, meter, locals_alive, joining>>,
         pc \notin {"wait", "stop"} \/ pc' = pc,
         pc' \in {"create", "start", "wait", "stop"} => pc' = pc
  PROVE  WorkerInv'
BY DEF WorkerInv, is_running, Working

LEMMA WorkersOfTests ==
  ASSUME TypeInv, WorkerInv, run_test_or_combined PROVE WorkerInv'
<1> USE DEF CommandStep, Goes, copies, verdict, monitors
<1>1. CASE Create
  BY <1>1 DEF Create, WorkerInv, is_running, Working
<1>2. CASE StartEngines
  <2>1. PICK started \in SUBSET Kinds :
          /\ engine' = [k \in Kinds |-> IF k \in started THEN "running" ELSE engine[k]]
          /\ meter' = [k \in Kinds |-> IF k \in started \cap Metered THEN "live" ELSE meter[k]]
          /\ IF single /\ started = {} THEN pc' = "scope" ELSE pc' = "wait"
    BY <1>2 DEF StartEngines
  <2>2. pc = "start" /\ locals_alive /\ locals_alive'
    BY <1>2 DEF StartEngines, WorkerInv
  <2>3. \A k \in Kinds : ~is_running(k) /\ (k \notin Metered => ~Working(k))
    BY <2>2 DEF WorkerInv
  <2>4. \A k \in Kinds : meter'[k] # "none" => k \in Metered
    BY <2>1 DEF WorkerInv
  <2>5. CASE pc' = "wait"
    BY <2>1, <2>2, <2>3, <2>4, <2>5 DEF WorkerInv, Working
  <2>6. CASE pc' = "scope"
    <3>1. started = {} BY <2>1, <2>6
    <3>2. engine' = [k \in Kinds |-> engine[k]] BY <2>1, <3>1
    <3>3. \A k \in Kinds : engine'[k] = engine[k] BY <3>2
    <3> QED BY <2>2, <2>3, <2>4, <2>6, <3>3 DEF WorkerInv, is_running, Working
  <2> QED BY <2>1, <2>5, <2>6
<1>3. CASE Wait
  BY <1>3 DEF Wait, WaitOver, AllDone, WorkerInv, is_running, Working
<1>4. CASE JoinEngine
  <2>1. joining \in Kinds BY <1>4 DEF JoinEngine, TypeInv
  <2> QED BY <1>4, <2>1 DEF JoinEngine, WorkerInv, TypeInv
<1>5. CASE StopsDone
  <2>1. \A k \in Kinds : k \notin Metered => ~Working(k)
    BY <1>5 DEF StopsDone, AllDone, WorkerInv, is_running, Working, Kinds
  <2> QED BY <1>5, <2>1 DEF StopsDone, AllDone, WorkerInv, is_running, Working
<1>6. CASE Collect BY <1>6, WorkersElsewhere DEF Collect
<1>7. ASSUME NEW i \in DOMAIN StopOrder, StopEngine(i) PROVE WorkerInv'
  <2>1. StopOrder[i] \in Kinds BY DEF StopOrder, Kinds
  <2>2. \A k \in Kinds \ Metered : engine[k] # "stopping"
    BY <1>7 DEF StopEngine, WorkerInv, Kinds
  <2> QED BY <1>7, <2>1, <2>2 DEF StopEngine, WorkerInv, TypeInv
<1>8. CASE EndScope
  BY <1>8 DEF EndScope, WorkerInv, is_running, Working
<1>9. ASSUME NEW k \in Kinds, DestroyEngine(k) PROVE WorkerInv'
  BY <1>9 DEF DestroyEngine, WorkerInv, is_running, Working, TypeInv
<1>10. CASE Destroyed BY <1>10, WorkersElsewhere DEF Destroyed
<1>11. CASE StopGuards BY <1>11, WorkersElsewhere DEF StopGuards
<1>12. CASE Verdict BY <1>12, WorkersElsewhere DEF Verdict
<1> QED BY <1>1, <1>2, <1>3, <1>4, <1>5, <1>6, <1>7, <1>8, <1>9, <1>10, <1>11, <1>12
        DEF run_test_or_combined

LEMMA WorkerKept ==
  ASSUME TypeInv, WorkerInv, [Next]_vars PROVE WorkerInv'
<1> USE DEF options, monitors, engines, copies, verdict
<1>1. ASSUME UNCHANGED vars PROVE WorkerInv'
  BY <1>1, WorkersElsewhere DEF vars
<1>2. ASSUME NEW c \in menu, run(c) PROVE WorkerInv'
  BY <1>2 DEF run, WorkerInv, is_running, Working
<1>3. ASSUME TimePasses PROVE WorkerInv'
  BY <1>3, WorkersElsewhere DEF TimePasses
<1>4. ASSUME Refuses \/ run_compare \/ RunBenchmark \/ run_monitor PROVE WorkerInv'
  BY <1>4, WorkersElsewhere DEF Refuses, run_compare, RunBenchmark, run_monitor, Returns
<1>5. ASSUME run_schedule PROVE WorkerInv'
  BY <1>5, WorkersElsewhere DEF run_schedule, LoadSchedule, ScheduleStep, EndSchedule,
               IssueCertificate, CommandStep, Goes
<1>6. ASSUME StoreCommands PROVE WorkerInv'
  BY <1>6, WorkersElsewhere DEF StoreCommands, run_cert_upload, run_cert_verify, run_cert_list,
               LeaderboardSubmit, LeaderboardShow, Saving, Saved, Dies, StoreCommand, Returns
<1> HIDE DEF options, monitors, engines, copies, verdict
<1> QED BY <1>1, <1>2, <1>3, <1>4, <1>5, <1>6, WorkersOfEngines, WorkersOfTests DEF Next, Program

LEMMA LateKept ==
  ASSUME TypeInv, WorkerInv, TouchesOnlyTheLiving, [Next]_vars PROVE TouchesOnlyTheLiving'
<1> USE DEF options, monitors, engines, copies, verdict, TouchesOnlyTheLiving
<1>1. \A k \in Kinds \ Metered : Working(k) => locals_alive
  BY DEF WorkerInv
<1>2. ASSUME NEW k \in Kinds, EngineWorks(k) PROVE late_call' \subseteq Metered
  <2>1. CASE WorkerCalls(k)
    BY <1>1, <2>1, CallbackLocals DEF WorkerCalls, Working
  <2>2. CASE MeterCalls(k)
    <3>1. k \in Metered BY <2>2 DEF MeterCalls, WorkerInv
    <3> QED BY <2>2, <3>1, CallbackLocals DEF MeterCalls
  <2>3. CASE EngineEnds(k)
    BY <1>1, <2>3, CallbackLocals DEF EngineEnds, LastCall, Working, Metered
  <2> QED BY <1>2, <2>1, <2>2, <2>3 DEF EngineWorks, FindError, MeterSamples, MeterEnds
<1>3. ASSUME CpuClears \/ GpuHangs PROVE late_call' \subseteq Metered
  BY <1>1, <1>3, CallbackLocals DEF CpuClears, GpuHangs, LastCall, Working, Metered, Kinds
<1>4. ASSUME run_test_or_combined PROVE late_call' = late_call
  BY <1>4 DEF run_test_or_combined, Create, StartEngines, Wait, JoinEngine, StopsDone, Collect,
              StopEngine, EndScope, DestroyEngine, Destroyed, StopGuards, Verdict
<1>5. ASSUME run_schedule PROVE late_call' = late_call
  BY <1>5 DEF run_schedule, LoadSchedule, ScheduleStep, EndSchedule, IssueCertificate
<1>6. ASSUME StoreCommands PROVE late_call' = late_call
  BY <1>6 DEF StoreCommands, run_cert_upload, run_cert_verify, run_cert_list,
               LeaderboardSubmit, LeaderboardShow, Saving, Saved, Dies, StoreCommand, Returns
<1>7. ASSUME Refuses \/ run_compare \/ RunBenchmark \/ run_monitor \/ TimePasses \/ UNCHANGED vars
      PROVE  late_call' = late_call
  BY <1>7 DEF Refuses, run_compare, RunBenchmark, run_monitor, Returns, TimePasses, vars
<1>8. ASSUME NEW c \in menu, run(c) PROVE late_call' = {}
  BY <1>8 DEF run
<1> HIDE DEF options, monitors, engines, copies, verdict
<1> QED BY <1>2, <1>3, <1>4, <1>5, <1>6, <1>7, <1>8 DEF Next, Program

LEMMA InitWorker == Init => WorkerInv /\ TouchesOnlyTheLiving
BY DEF Init, CliInit, WorkerInv, is_running, Working, TouchesOnlyTheLiving

\* run_test() and run_combined() destroy last_metrics before the engine whose callback
\* writes it: no worker that is joined, or that clears running last, calls back into a
\* command that is over, whatever it tests; the metrics threads of CPU and PSU are the exception.
THEOREM TouchesOnlyTheLivingHolds == Spec => []TouchesOnlyTheLiving
<1> DEFINE I == TypeInv /\ WorkerInv /\ TouchesOnlyTheLiving
<1>1. Init => I BY InitType, InitWorker
<1>2. I /\ [Next]_vars => I' BY TypeKept, WorkerKept, LateKept
<1>3. I => TouchesOnlyTheLiving OBVIOUS
<1> QED BY <1>1, <1>2, <1>3, PTL DEF Spec

-----------------------------------------------------------------------------
(* What was found, handed over, copied and shown.                          *)

LEMMA InitCopy == Init => CopyInv
BY DEF Init, CliInit, CopyInv, Kinds

\* A command that leaves the errors, and the threads of the engines, as they are.
LEMMA CopiesElsewhere ==
  ASSUME CopyInv, UNCHANGED <<meter, sample, found, last, shown>>,
         \A k \in Kinds : engine'[k] \in {"none", "created"} => engine[k] \in {"none", "created"},
         engine'["gpu"] \notin {"running", "stopping"} => engine["gpu"] \notin {"running", "stopping"},
         pc' \in {"create", "start"} => pc' = pc /\ engine' = engine
  PROVE  CopyInv'
BY DEF CopyInv

LEMMA CallbackCopies ==
  ASSUME TypeInv, NEW k \in Kinds, NEW b \in BOOLEAN, metrics_callback(k, b)
  PROVE  /\ \A j \in Kinds \ {k} : last'[j] = last[j] /\ shown'[j] = shown[j]
         /\ last'[k] = IF locals_alive THEN b ELSE last[k]
         /\ shown'[k] => shown[k] \/ (locals_alive /\ b /\ is_running(k))
         /\ shown[k] => shown'[k]
<1>1. CASE locals_alive
  <2>1. last' = [last EXCEPT ![k] = b] BY <1>1 DEF metrics_callback
  <2>2. shown' = [shown EXCEPT ![k] = @ \/ (b /\ is_running(k))]
    BY <1>1 DEF metrics_callback
  <2>3. last \in [Kinds -> BOOLEAN] /\ shown \in [Kinds -> BOOLEAN] BY DEF TypeInv
  <2>4. (\A j \in Kinds \ {k} : last'[j] = last[j]) /\ last'[k] = b BY <2>1, <2>3
  <2>5. /\ \A j \in Kinds \ {k} : shown'[j] = shown[j]
        /\ shown'[k] = (shown[k] \/ (b /\ is_running(k)))
    BY <2>2, <2>3
  <2> QED BY <1>1, <2>4, <2>5, Zenon
<1>2. CASE ~locals_alive
  BY <1>2, Zenon DEF metrics_callback
<1> QED BY <1>1, <1>2

LEMMA CopiesOfEngines ==
  ASSUME TypeInv, WorkerInv, CopyInv, NEW k \in Kinds, EngineWorks(k)
  PROVE  CopyInv'
<1> USE DEF copies, engines
<1>0. pc' = pc BY EngineMoves DEF EngineStep
<1>a. found[k] \in BOOLEAN /\ sample[k] \in BOOLEAN BY DEF TypeInv
<1>1. CASE FindError(k) BY <1>1, <1>0 DEF FindError, CopyInv, TypeInv
<1>2. CASE WorkerCalls(k)
  <2>1. UNCHANGED <<engine, meter, sample, found>> /\ k \notin Metered /\ engine[k] \in {"running", "stopping"}
    BY <1>2 DEF WorkerCalls
  <2>2. /\ \A j \in Kinds \ {k} : last'[j] = last[j] /\ shown'[j] = shown[j]
        /\ last'[k] = IF locals_alive THEN found[k] ELSE last[k]
    BY <1>2, <1>a, CallbackCopies DEF WorkerCalls
  <2> QED BY <1>0, <2>1, <2>2 DEF CopyInv, Metered, Kinds
<1>3. CASE MeterSamples(k)
  <2>1. PICK b \in {found[k], FALSE} : (k # "psu" => b = found[k]) /\ sample' = [sample EXCEPT ![k] = b]
    BY <1>3 DEF MeterSamples
  <2>2. /\ \A j \in Kinds \ {k} : sample'[j] = sample[j] /\ meter'[j] = meter[j]
        /\ sample'[k] = b /\ UNCHANGED <<engine, found, last, shown>>
    BY <1>3, <2>1 DEF MeterSamples, TypeInv
  <2>3. engine[k] \notin {"none", "created"} BY <1>3 DEF MeterSamples, is_running
  <2> QED BY <1>0, <2>1, <2>2, <2>3 DEF CopyInv, Kinds
<1>4. CASE MeterCalls(k)
  <2>1. /\ \A j \in Kinds \ {k} : last'[j] = last[j] /\ shown'[j] = shown[j]
        /\ last'[k] = IF locals_alive THEN sample[k] ELSE last[k]
        /\ shown'[k] => shown[k] \/ (locals_alive /\ sample[k] /\ is_running(k))
    BY <1>4, <1>a, CallbackCopies DEF MeterCalls
  <2>2. /\ \A j \in Kinds \ {k} : sample'[j] = sample[j] /\ meter'[j] = meter[j]
        /\ ~sample'[k] /\ meter'[k] = "live" /\ UNCHANGED <<engine, found>>
    BY <1>4 DEF MeterCalls, TypeInv
  <2>3. meter[k] = "calling" /\ k \in Metered BY <1>4 DEF MeterCalls, WorkerInv
  <2> QED BY <1>0, <2>1, <2>2, <2>3 DEF CopyInv, Kinds, Metered
<1>5. CASE MeterEnds(k)
  BY <1>5, <1>0 DEF MeterEnds, CopyInv, TypeInv
<1>6. CASE EngineEnds(k)
  <2>1. /\ UNCHANGED <<meter, sample, found>> /\ engine[k] \in {"running", "stopping"}
        /\ engine'[k] = "over" /\ \A j \in Kinds \ {k} : engine'[j] = engine[j]
    BY <1>6 DEF EngineEnds, TypeInv
  <2>2. CASE k = "gpu"
    <3>1. locals_alive BY <2>1, <2>2 DEF WorkerInv, Working, Metered
    <3>2. /\ \A j \in Kinds \ {k} : last'[j] = last[j] /\ shown'[j] = shown[j]
          /\ last'[k] = found[k]
      BY <1>6, <1>a, <2>2, <3>1, CallbackCopies DEF EngineEnds, LastCall
    <3> QED BY <1>0, <2>1, <2>2, <3>2 DEF CopyInv, Kinds
  <2>3. CASE k # "gpu"
    <3>1. UNCHANGED <<last, shown>> BY <1>6, <2>3 DEF EngineEnds, LastCall
    <3> QED BY <1>0, <2>1, <2>3, <3>1 DEF CopyInv, Kinds
  <2> QED BY <2>2, <2>3
<1> QED BY <1>1, <1>2, <1>3, <1>4, <1>5, <1>6 DEF EngineWorks

LEMMA CopiesOfCpuGpu ==
  ASSUME TypeInv, WorkerInv, CopyInv, CpuClears \/ GpuHangs
  PROVE  CopyInv'
<1> USE DEF copies, engines
<1>0. pc' = pc BY EngineMoves DEF EngineStep
<1>1. CASE CpuClears
  BY <1>0, <1>1 DEF CpuClears, CopyInv, TypeInv, Kinds
<1>2. CASE GpuHangs
  <2>1. /\ UNCHANGED <<meter, sample, found>> /\ engine["gpu"] = "running"
        /\ engine'["gpu"] = "hung" /\ \A j \in Kinds \ {"gpu"} : engine'[j] = engine[j]
    BY <1>2 DEF GpuHangs, TypeInv, Kinds
  <2>2. locals_alive BY <2>1 DEF WorkerInv, is_running, Kinds
  <2>3. "gpu" \in Kinds /\ found["gpu"] \in BOOLEAN BY DEF TypeInv, Kinds
  <2>4. /\ \A j \in Kinds \ {"gpu"} : last'[j] = last[j] /\ shown'[j] = shown[j]
        /\ last'["gpu"] = found["gpu"]
    BY <1>2, <2>2, <2>3, CallbackCopies DEF GpuHangs, LastCall
  <2> QED BY <1>0, <2>1, <2>4 DEF CopyInv, Kinds
<1> QED BY <1>1, <1>2

LEMMA CopiesOfTests ==
  ASSUME TypeInv, WorkerInv, CopyInv, run_test_or_combined PROVE CopyInv'
<1> USE DEF CommandStep, Goes, copies, verdict, monitors
<1>1. CASE Create
  BY <1>1 DEF Create, CopyInv, Kinds
<1>2. CASE StartEngines
  <2>1. PICK started \in SUBSET {k \in Kinds : engine[k] = "created"} :
          /\ engine' = [k \in Kinds |-> IF k \in started THEN "running" ELSE engine[k]]
          /\ meter' = [k \in Kinds |-> IF k \in started \cap Metered THEN "live" ELSE meter[k]]
    BY <1>2 DEF StartEngines
  <2>2. \A k \in Kinds : engine[k] \in {"none", "created"} /\ ~found[k]
    BY <1>2 DEF StartEngines, CopyInv
  <2> QED BY <1>2, <2>1, <2>2 DEF StartEngines, CopyInv, Kinds
<1>3. CASE Wait BY <1>3, CopiesElsewhere DEF Wait
<1>4. CASE JoinEngine
  <2>1. joining \in Kinds /\ engine[joining] = "over"
    BY <1>4 DEF JoinEngine, TypeInv, HasEnded
  <2> QED BY <1>4, <2>1, CopiesElsewhere DEF JoinEngine, TypeInv, Kinds
<1>5. CASE StopsDone BY <1>5, CopiesElsewhere DEF StopsDone
<1>6. CASE Collect BY <1>6, CopiesElsewhere DEF Collect
<1>7. ASSUME NEW i \in DOMAIN StopOrder, StopEngine(i) PROVE CopyInv'
  <2>1. StopOrder[i] \in Kinds BY DEF StopOrder, Kinds
  <2>2. is_running(StopOrder[i]) BY <1>7 DEF StopEngine, IsNextToStop
  <2> QED BY <1>7, <2>1, <2>2, CopiesElsewhere DEF StopEngine, TypeInv, Kinds, is_running
<1>8. CASE EndScope BY <1>8, CopiesElsewhere DEF EndScope
<1>9. ASSUME NEW k \in Kinds, DestroyEngine(k) PROVE CopyInv'
  <2>1. engine' = [engine EXCEPT ![k] = "destroyed"] /\ engine[k] \notin {"running", "stopping"}
    BY <1>9 DEF DestroyEngine, HasEnded
  <2> QED BY <1>9, <2>1, CopiesElsewhere DEF DestroyEngine, TypeInv, Kinds
<1>10. CASE Destroyed BY <1>10, CopiesElsewhere DEF Destroyed
<1>11. CASE StopGuards BY <1>11, CopiesElsewhere DEF StopGuards
<1>12. CASE Verdict BY <1>12, CopiesElsewhere DEF Verdict
<1> QED BY <1>1, <1>2, <1>3, <1>4, <1>5, <1>6, <1>7, <1>8, <1>9, <1>10, <1>11, <1>12
        DEF run_test_or_combined

LEMMA CopyKept ==
  ASSUME TypeInv, WorkerInv, CopyInv, [Next]_vars PROVE CopyInv'
<1> USE DEF options, monitors, engines, copies, verdict
<1>1. ASSUME UNCHANGED vars PROVE CopyInv'
  BY <1>1, CopiesElsewhere DEF vars
<1>2. ASSUME NEW c \in menu, run(c) PROVE CopyInv'
  BY <1>2 DEF run, CopyInv, Kinds
<1>3. ASSUME TimePasses PROVE CopyInv'
  BY <1>3, CopiesElsewhere DEF TimePasses
<1>4. ASSUME Refuses \/ run_compare \/ RunBenchmark \/ run_monitor PROVE CopyInv'
  BY <1>4, CopiesElsewhere DEF Refuses, run_compare, RunBenchmark, run_monitor, Returns
<1>5. ASSUME run_schedule PROVE CopyInv'
  BY <1>5, CopiesElsewhere DEF run_schedule, LoadSchedule, ScheduleStep, EndSchedule,
               IssueCertificate, CommandStep, Goes
<1>6. ASSUME StoreCommands PROVE CopyInv'
  BY <1>6, CopiesElsewhere DEF StoreCommands, run_cert_upload, run_cert_verify, run_cert_list,
               LeaderboardSubmit, LeaderboardShow, Saving, Saved, Dies, StoreCommand, Returns
<1> HIDE DEF options, monitors, engines, copies, verdict
<1> QED BY <1>1, <1>2, <1>3, <1>4, <1>5, <1>6, CopiesOfEngines, CopiesOfCpuGpu, CopiesOfTests
        DEF Next, Program

-----------------------------------------------------------------------------
(* The verdict.                                                            *)

Tests == {"test", "combined"}
Plans == {"schedule", "certificate"}

\* Each command keeps to places of its own.
PlaceInv ==
  /\ pc \in {"create", "start", "wait", "stop", "guards", "collect", "scope", "destroy"} =>
       command.name \in Tests
  /\ pc \in {"load", "schedule", "certify"} => command.name \in Plans
  /\ pc = "verdict" => command.name \in Tests \cup Plans
  /\ pc \in Names \ (Tests \cup Plans) => command.name = pc
  /\ pc = "saving" => command.name \in {"upload", "submit"}
  /\ pc = "certify" => command.name = "certificate"
  /\ pc = "stop" => command.name = "combined"

\* The results have been looked at, or there were none.
Judged == pc \in {"scope", "destroy", "verdict", "shell"} \/ (pc = "guards" /\ single)

\* After its verdict, a test that passed has only errors it cannot see.
TestInv ==
  command.name \in Tests =>
    /\ Judged /\ test_passed =>
         ~shown["cpu"] /\ \A k \in Kinds : found[k] => Blind(k)
    /\ ~test_passed => \E k \in Kinds : found[k]

PlanInv ==
  command.name \in Plans =>
    /\ results \in Seq(BOOLEAN)
    /\ pc \in {"load", "schedule"} => test_passed
    /\ pc = "load" => results = <<>>
    /\ pc \in {"certify", "verdict", "shell"} =>
         /\ test_passed = AllPassed
         /\ test_passed => Len(results) = steps

ExitInv ==
  /\ exit_code = 0 /\ command.name \in Tests \cup Plans => test_passed
  /\ exit_code = 1 => command.name = "verify" \/
                      (command.name \in Tests \cup Plans /\ ~test_passed)
  /\ command.name = "certificate" /\ (pc = "verdict" \/ exit_code \in {0, 1}) =>
       certificate.passed = test_passed
  /\ command.name \in Plans /\ pc # "shell" => exit_code = -1
  /\ command.name \in Tests /\ exit_code \in {0, 1} =>
       pc = "shell" \/ (~single /\ pc \in {"scope", "destroy"})

LEMMA InitVerdict == Init => PlaceInv /\ TestInv /\ PlanInv /\ ExitInv
<1> SUFFICES ASSUME Init PROVE PlaceInv /\ TestInv /\ PlanInv /\ ExitInv OBVIOUS
<1>1. pc = "shell" /\ command.name = "help" /\ exit_code = -1 BY DEF Init, CliInit
<1> QED BY <1>1 DEF PlaceInv, TestInv, PlanInv, ExitInv, Names, Tests, Plans

LEMMA PlaceKept ==
  ASSUME TypeInv, PlaceInv, [Next]_vars PROVE PlaceInv'
<1> USE DEF options, monitors, engines, copies, verdict
<1>0. ASSUME UNCHANGED <<pc, command>> PROVE PlaceInv'
  BY <1>0 DEF PlaceInv
<1>1. ASSUME UNCHANGED vars PROVE PlaceInv' BY <1>0, <1>1 DEF vars
<1>2. ASSUME NEW c \in menu, run(c) PROVE PlaceInv'
  <2>1. c.name \in Names BY CliAssumption DEF TypeInv
  <2>2. pc' = FirstPlace(c.name) /\ command' = c BY <1>2 DEF run
  <2> QED BY <2>1, <2>2 DEF FirstPlace, PlaceInv, Names, Tests, Plans
<1>3. ASSUME (\E k \in Kinds : EngineWorks(k)) \/ CpuClears \/ GpuHangs PROVE PlaceInv'
  BY <1>0, <1>3, EngineMoves DEF EngineStep
<1>4. ASSUME TimePasses PROVE PlaceInv' BY <1>0, <1>4 DEF TimePasses
<1>5. ASSUME Refuses \/ run_compare \/ RunBenchmark \/ run_monitor \/ StoreCommands PROVE PlaceInv'
  <2>1. command' = command /\ (pc' = "shell" \/ (pc' = "saving" /\ pc \in {"upload", "submit", "saving"}))
    BY <1>5 DEF Refuses, run_compare, RunBenchmark, run_monitor, Returns, StoreCommand,
               StoreCommands, run_cert_upload, run_cert_verify, run_cert_list, LeaderboardSubmit,
               LeaderboardShow, Saving, Saved, Dies
  <2> QED BY <2>1 DEF PlaceInv, Names, Tests, Plans
<1>6. ASSUME run_test_or_combined PROVE PlaceInv'
  <2>1. /\ command' = command
        /\ pc \in {"create", "start", "wait", "stop", "guards", "collect", "verdict", "scope", "destroy"}
        /\ pc' \in {"start", "wait", "stop", "guards", "collect", "verdict", "scope", "destroy", "shell"}
        /\ pc' = "stop" => pc = "stop" \/ (pc = "wait" /\ ~single)
        /\ pc = "verdict" => pc' \in {"scope", "shell"} /\ (pc' = "scope" => command.name = "combined")
    BY <1>6 DEF run_test_or_combined, Create, StartEngines, Wait, JoinEngine, StopsDone, Collect,
              StopEngine, EndScope, DestroyEngine, Destroyed, StopGuards, Verdict, CommandStep, Goes
  <2> QED BY <2>1 DEF PlaceInv, Names, Tests, Plans, single
<1>7. ASSUME run_schedule PROVE PlaceInv'
  <2>1. /\ command' = command
        /\ pc \in {"load", "schedule", "certify"}
        /\ pc' \in {"schedule", "certify", "verdict", "shell"}
        /\ pc' = "certify" => command.name = "certificate"
    BY <1>7 DEF run_schedule, LoadSchedule, ScheduleStep, EndSchedule, IssueCertificate,
               CommandStep, Goes
  <2> QED BY <2>1 DEF PlaceInv, Names, Tests, Plans
<1> HIDE DEF options, monitors, engines, copies, verdict
<1> QED BY <1>1, <1>2, <1>3, <1>4, <1>5, <1>6, <1>7 DEF Next, Program

\* An error that may still be found, or shown, is one no test looks at any more.
LEMMA TestOfEngines ==
  ASSUME TypeInv, WorkerInv, PlaceInv, TestInv,
         (\E k \in Kinds : EngineWorks(k)) \/ CpuClears \/ GpuHangs
  PROVE  TestInv'
<1> USE DEF engines, options, verdict
<1>1. EngineStep BY EngineMoves
<1>2. UNCHANGED <<pc, command, test_passed>> BY <1>1 DEF EngineStep
<1>3. /\ \A k \in Kinds : found[k] => found'[k]
      /\ \A k \in Kinds : found'[k] => found[k] \/ Working(k)
      /\ shown'["cpu"] => shown["cpu"] \/ \E k \in Kinds : is_running(k)
  <2>1. ASSUME NEW k \in Kinds, EngineWorks(k)
        PROVE  /\ \A j \in Kinds : found[j] => found'[j]
               /\ \A j \in Kinds : found'[j] => found[j] \/ Working(j)
               /\ shown'["cpu"] => shown["cpu"] \/ \E j \in Kinds : is_running(j)
    <3> USE DEF copies, Kinds
    <3>0. found[k] \in BOOLEAN /\ sample[k] \in BOOLEAN BY DEF TypeInv
    <3>1. CASE FindError(k) BY <3>1 DEF FindError, TypeInv, Working
    <3>2. CASE WorkerCalls(k) BY <3>0, <3>2, CallbackCopies DEF WorkerCalls
    <3>3. CASE MeterSamples(k) BY <3>3 DEF MeterSamples
    <3>4. CASE MeterCalls(k) BY <3>0, <3>4, CallbackCopies DEF MeterCalls
    <3>5. CASE MeterEnds(k) BY <3>5 DEF MeterEnds
    <3>6. CASE EngineEnds(k) BY <3>0, <3>6, CallbackCopies DEF EngineEnds, LastCall
    <3> QED BY <2>1, <3>1, <3>2, <3>3, <3>4, <3>5, <3>6 DEF EngineWorks
  <2>2. ASSUME CpuClears \/ GpuHangs
        PROVE  found' = found /\ (shown'["cpu"] => shown["cpu"] \/ \E j \in Kinds : is_running(j))
    <3>1. CASE CpuClears BY <3>1 DEF CpuClears, copies
    <3>2. CASE GpuHangs
      <4>1. "gpu" \in Kinds /\ found["gpu"] \in BOOLEAN BY DEF TypeInv, Kinds
      <4> QED BY <3>2, <4>1, CallbackCopies DEF GpuHangs, LastCall, Kinds
    <3> QED BY <2>2, <3>1, <3>2
  <2> QED BY <2>1, <2>2
<1>4. ASSUME command.name \in Tests, Judged, test_passed
      PROVE  ~shown'["cpu"] /\ \A k \in Kinds : found'[k] => Blind(k)'
  <2>1. pc \notin {"wait", "stop"} BY <1>4 DEF Judged
  <2>2. \A k \in Kinds : ~is_running(k) /\ (Working(k) => k \in Metered) BY <2>1 DEF WorkerInv
  <2>3. ~shown["cpu"] /\ \A k \in Kinds : found[k] => Blind(k) BY <1>4 DEF TestInv
  <2>4. ~shown'["cpu"] BY <1>3, <2>2, <2>3
  <2>5. ASSUME NEW k \in Kinds, found'[k] PROVE Blind(k)'
    <3>1. CASE found[k] BY <1>2, <2>3, <2>4, <3>1 DEF Blind, single
    <3>2. CASE Working(k) BY <2>2, <2>4, <3>2 DEF Blind, Metered
    <3> QED BY <1>3, <2>5, <3>1, <3>2
  <2> QED BY <2>4, <2>5
<1>5. Judged' = Judged BY <1>2 DEF Judged, single
<1>6. ASSUME command.name \in Tests, ~test_passed PROVE \E k \in Kinds : found'[k]
  BY <1>3, <1>6 DEF TestInv
<1> QED BY <1>2, <1>4, <1>5, <1>6 DEF TestInv

\* The results of a test tell of every error it can see.
LEMMA CollectSees ==
  ASSUME TypeInv, WorkerInv, CopyInv, Collect PROVE TestInv'
<1> USE DEF CommandStep, Goes, options, copies, verdict, monitors
<1>1. /\ pc = "collect" /\ UNCHANGED <<command, engine, found, last, shown>>
      /\ test_passed' = \A k \in Kinds : engine[k] # "none" /\ Counted(k) => ~ErrorsOf(k)
  BY DEF Collect
<1>2. \A k \in Kinds : found[k] => engine[k] # "none" BY DEF CopyInv
<1>3. ASSUME test_passed', NEW k \in Kinds, found[k], ~(k = "storage" /\ single), k # "psu"
      PROVE  k = "cpu" /\ ~shown["cpu"]
  <2>1. Counted(k)
    BY <1>3 DEF Counted, Branch, CpuBranch, RamBranch, StorageBranch, GpuBranch, PsuBranch, Kinds
  <2>2. ~ErrorsOf(k) BY <1>1, <1>2, <1>3, <2>1
  <2>3. k \in {"cpu", "gpu"}
    BY <1>3, <2>2 DEF ErrorsOf, Branch, CpuBranch, RamBranch, StorageBranch, GpuBranch, PsuBranch, Kinds
  <2>4. ~last[k]
    BY <2>2, <2>3 DEF ErrorsOf, Branch, CpuBranch, GpuBranch
  <2>5. engine["gpu"] \notin {"running", "stopping"}
    BY <1>1 DEF WorkerInv, Working, Metered, Kinds
  <2>6. k = "cpu" BY <1>3, <2>3, <2>4, <2>5 DEF CopyInv
  <2> QED BY <2>4, <2>6 DEF CopyInv
<1>4. ASSUME test_passed' PROVE ~shown["cpu"] /\ \A k \in Kinds : found[k] => Blind(k)
  <2>1. shown["cpu"] => found["cpu"] BY DEF CopyInv, Kinds
  <2> QED BY <1>3, <1>4, <2>1 DEF Blind, Kinds
<1>5. ASSUME ~test_passed' PROVE \E k \in Kinds : found[k]
  <2>1. PICK k \in Kinds : ErrorsOf(k) BY <1>1, <1>5
  <2> QED BY <2>1 DEF ErrorsOf, CopyInv
<1>6. \A k \in Kinds : Blind(k)' = Blind(k) BY <1>1 DEF Blind, single
<1> QED BY <1>1, <1>4, <1>5, <1>6 DEF TestInv

LEMMA TestKept ==
  ASSUME TypeInv, WorkerInv, CopyInv, PlaceInv, TestInv, [Next]_vars PROVE TestInv'
<1> USE DEF options, monitors, engines, copies, verdict
<1>0. ASSUME UNCHANGED <<command, test_passed, found, shown>>, Judged' => Judged PROVE TestInv'
  BY <1>0 DEF TestInv, Blind, single
<1>1. ASSUME UNCHANGED vars PROVE TestInv' BY <1>0, <1>1 DEF vars, Judged, single
<1>2. ASSUME NEW c \in menu, run(c) PROVE TestInv'
  <2>1. test_passed' /\ (c.name \in Tests => pc' = "create") /\ command' = c
    BY <1>2 DEF run, FirstPlace, Tests
  <2> QED BY <2>1 DEF TestInv, Judged
<1>3. ASSUME TimePasses PROVE TestInv' BY <1>0, <1>3 DEF TimePasses, Judged, single
<1>4. ASSUME Refuses \/ run_compare \/ RunBenchmark \/ run_monitor \/ StoreCommands PROVE TestInv'
  <2>1. command' = command /\ pc \in (Names \ (Tests \cup Plans)) \cup {"saving"}
    BY <1>4 DEF Refuses, run_compare, RunBenchmark, run_monitor, Returns, StoreCommand,
               StoreCommands, run_cert_upload, run_cert_verify, run_cert_list, LeaderboardSubmit,
               LeaderboardShow, Saving, Saved, Dies, Names, Tests, Plans
  <2> QED BY <2>1 DEF PlaceInv, TestInv, Tests, Plans
<1>5. ASSUME run_schedule PROVE TestInv'
  <2>1. command' = command /\ pc \in {"load", "schedule", "certify"}
    BY <1>5 DEF run_schedule, LoadSchedule, ScheduleStep, EndSchedule, IssueCertificate,
               CommandStep, Goes
  <2> QED BY <2>1 DEF PlaceInv, TestInv, Tests, Plans
<1>6. ASSUME run_test_or_combined PROVE TestInv'
  <2> USE DEF CommandStep, Goes
  <2>1. ASSUME Create \/ StartEngines PROVE TestInv'
    <3>1. /\ UNCHANGED <<command, test_passed, found, shown>> /\ pc \in {"create", "start"}
      BY <2>1 DEF Create, StartEngines
    <3>2. \A k \in Kinds : ~found[k] /\ ~shown[k] BY <3>1 DEF CopyInv
    <3> QED BY <3>1, <3>2 DEF TestInv, Kinds
  <2>2. ASSUME Wait \/ JoinEngine \/ StopsDone \/ \E i \in DOMAIN StopOrder : StopEngine(i)
        PROVE TestInv'
    <3>1. /\ UNCHANGED <<command, test_passed, found, shown>>
          /\ pc \in {"wait", "stop"} /\ pc' \in {"collect", "stop", "guards"}
          /\ pc' = "guards" => pc = "stop"
      BY <2>2 DEF Wait, JoinEngine, StopsDone, StopEngine
    <3>2. pc = "stop" => ~single BY DEF PlaceInv, single
    <3> QED BY <1>0, <3>1, <3>2 DEF Judged, single
  <2>3. ASSUME Collect PROVE TestInv' BY <2>3, CollectSees
  <2>4. ASSUME EndScope \/ (\E k \in Kinds : DestroyEngine(k)) \/ Destroyed \/ Verdict PROVE TestInv'
    <3>1. /\ UNCHANGED <<command, test_passed, found, shown>>
          /\ pc \in {"scope", "destroy", "verdict"}
      BY <2>4 DEF EndScope, DestroyEngine, Destroyed, Verdict
    <3> QED BY <1>0, <3>1 DEF Judged
  <2>5. ASSUME StopGuards PROVE TestInv'
    <3>1. /\ UNCHANGED <<command, test_passed, found, shown>>
          /\ pc = "guards" /\ (~single => pc' = "collect")
      BY <2>5 DEF StopGuards
    <3> QED BY <1>0, <3>1 DEF Judged, single
  <2> QED BY <1>6, <2>1, <2>2, <2>3, <2>4, <2>5 DEF run_test_or_combined
<1> HIDE DEF options, monitors, engines, copies, verdict
<1> QED BY <1>1, <1>2, <1>3, <1>4, <1>5, <1>6, TestOfEngines DEF Next, Program

\* What its plan comes to is decided where it ends.
LEMMA PlanKept ==
  ASSUME TypeInv, PlaceInv, PlanInv, [Next]_vars PROVE PlanInv'
<1> USE DEF options, monitors, engines, copies, verdict
<1>0. ASSUME UNCHANGED <<command, pc, steps, results, test_passed>> PROVE PlanInv'
  BY <1>0 DEF PlanInv, AllPassed
<1>1. ASSUME UNCHANGED vars PROVE PlanInv' BY <1>0, <1>1 DEF vars
<1>2. ASSUME NEW c \in menu, run(c) PROVE PlanInv'
  <2>1. results' = <<>> /\ test_passed' /\ (c.name \in Plans => pc' = "load") /\ command' = c
    BY <1>2 DEF run, FirstPlace, Plans
  <2>2. results' \in Seq(BOOLEAN) BY <2>1
  <2>3. c.name \in Plans => pc' \notin {"certify", "verdict", "shell"} BY <2>1
  <2> QED BY <2>1, <2>2, <2>3, Zenon DEF PlanInv
<1>3. ASSUME (\E k \in Kinds : EngineWorks(k)) \/ CpuClears \/ GpuHangs \/ TimePasses PROVE PlanInv'
  BY <1>0, <1>3, EngineMoves DEF EngineStep, TimePasses
<1>4. ASSUME Refuses \/ run_compare \/ RunBenchmark \/ run_monitor \/ StoreCommands PROVE PlanInv'
  <2>1. command' = command /\ pc \in (Names \ (Tests \cup Plans)) \cup {"saving"}
    BY <1>4 DEF Refuses, run_compare, RunBenchmark, run_monitor, Returns, StoreCommand,
               StoreCommands, run_cert_upload, run_cert_verify, run_cert_list, LeaderboardSubmit,
               LeaderboardShow, Saving, Saved, Dies, Names, Tests, Plans
  <2> QED BY <2>1 DEF PlaceInv, PlanInv, Tests, Plans
<1>5. ASSUME run_schedule PROVE PlanInv'
  <2> USE DEF CommandStep, Goes
  <2>0. command.name \in Plans /\ results \in Seq(BOOLEAN) /\ command' = command /\ steps' = steps
    <3>1. command' = command /\ pc \in {"load", "schedule", "certify"} /\ steps' = steps
      BY <1>5 DEF run_schedule, LoadSchedule, ScheduleStep, EndSchedule, IssueCertificate
    <3> QED BY <3>1 DEF PlaceInv, PlanInv
  <2>1. CASE LoadSchedule
    <3>1. results = <<>> /\ results' = <<>> /\ test_passed /\ test_passed'
      BY <2>0, <2>1 DEF LoadSchedule, PlanInv
    <3>2. CASE steps = 0
      <4>1. pc' = "shell" BY <2>1, <3>2 DEF LoadSchedule
      <4>2. AllPassed' /\ Len(results') = 0 BY <3>1 DEF AllPassed
      <4> QED BY <2>0, <3>1, <3>2, <4>1, <4>2 DEF PlanInv
    <3>3. CASE steps # 0
      <4>1. pc' = "schedule" BY <2>1, <3>3 DEF LoadSchedule
      <4> QED BY <2>0, <3>1, <4>1 DEF PlanInv
    <3> QED BY <3>2, <3>3
  <2>2. CASE ScheduleStep
    <3>1. pc = "schedule" /\ pc' = pc /\ test_passed' = test_passed /\ results' \in Seq(BOOLEAN)
      BY <2>0, <2>2 DEF ScheduleStep
    <3> QED BY <2>0, <3>1 DEF PlanInv
  <2>3. CASE EndSchedule
    <3>1. pc' \in {"certify", "verdict"} /\ results' = results /\ test_passed' = AllPassed
      BY <2>3 DEF EndSchedule
    <3>2. AllPassed' = AllPassed BY <3>1 DEF AllPassed
    <3>3. AllPassed => ~GivesUp BY DEF AllPassed, GivesUp
    <3>4. AllPassed => Len(results) = steps BY <2>3, <3>3 DEF EndSchedule
    <3> QED BY <2>0, <3>1, <3>2, <3>4 DEF PlanInv
  <2>4. CASE IssueCertificate
    <3>1. pc = "certify" /\ pc' = "verdict" /\ UNCHANGED <<results, test_passed>>
      BY <2>4 DEF IssueCertificate
    <3> QED BY <2>0, <3>1 DEF PlanInv, AllPassed
  <2> QED BY <1>5, <2>1, <2>2, <2>3, <2>4 DEF run_schedule
<1>6. ASSUME run_test_or_combined PROVE PlanInv'
  <2>1. CASE Verdict
    <3>1. /\ UNCHANGED <<command, steps, results, test_passed>> /\ pc = "verdict"
          /\ pc' \in {"scope", "shell"}
      BY <2>1 DEF Verdict, CommandStep, Goes
    <3> QED BY <3>1 DEF PlanInv, AllPassed
  <2>2. CASE ~Verdict
    <3>1. /\ command' = command
          /\ pc \in {"create", "start", "wait", "stop", "guards", "collect", "scope", "destroy"}
      BY <1>6, <2>2 DEF run_test_or_combined, Create, StartEngines, Wait, JoinEngine, StopsDone,
            Collect, StopEngine, EndScope, DestroyEngine, Destroyed, StopGuards, CommandStep, Goes
    <3> QED BY <3>1 DEF PlaceInv, PlanInv, Tests, Plans
  <2> QED BY <2>1, <2>2
<1> HIDE DEF options, monitors, engines, copies, verdict
<1> QED BY <1>1, <1>2, <1>3, <1>4, <1>5, <1>6 DEF Next, Program

LEMMA ExitKept ==
  ASSUME TypeInv, PlaceInv, PlanInv, ExitInv, [Next]_vars PROVE ExitInv'
<1> USE DEF options, monitors, engines, copies, verdict
<1>0. ASSUME UNCHANGED <<command, pc, test_passed, exit_code, certificate>> PROVE ExitInv'
  BY <1>0 DEF ExitInv, single
<1>1. ASSUME UNCHANGED vars PROVE ExitInv' BY <1>0, <1>1 DEF vars
<1>2. ASSUME NEW c \in menu, run(c) PROVE ExitInv'
  <2>1. c.name \in Names BY CliAssumption DEF TypeInv
  <2>2. exit_code' = -1 /\ (c.name = "certificate" => pc' = "load") /\ command' = c
    BY <1>2 DEF run, FirstPlace
  <2> QED BY <2>1, <2>2 DEF ExitInv
<1>3. ASSUME (\E k \in Kinds : EngineWorks(k)) \/ CpuClears \/ GpuHangs \/ TimePasses PROVE ExitInv'
  BY <1>0, <1>3, EngineMoves DEF EngineStep, TimePasses
<1>4. ASSUME Refuses \/ run_compare \/ RunBenchmark \/ run_monitor \/ StoreCommands PROVE ExitInv'
  <2>1. /\ command' = command
        /\ pc \in (Names \ (Tests \cup Plans)) \cup {"saving"}
        /\ exit_code' \in {0, 2, exit_code} \/ pc = "verify"
    BY <1>4 DEF Refuses, run_compare, RunBenchmark, run_monitor, Returns, StoreCommand,
               StoreCommands, run_cert_upload, run_cert_verify, run_cert_list, LeaderboardSubmit,
               LeaderboardShow, Saving, Saved, Dies, Names, Tests, Plans
  <2>2. command.name \notin Tests \cup Plans /\ (pc = "verify" => command.name = "verify")
    BY <2>1 DEF PlaceInv, Names, Tests, Plans
  <2> QED BY <2>1, <2>2 DEF ExitInv, Tests, Plans
<1>5. ASSUME run_schedule PROVE ExitInv'
  <2> USE DEF CommandStep, Goes
  <2>0. command.name \in Plans /\ exit_code = -1 /\ command' = command
    <3>1. command' = command /\ pc \in {"load", "schedule", "certify"}
      BY <1>5 DEF run_schedule, LoadSchedule, ScheduleStep, EndSchedule, IssueCertificate
    <3> QED BY <3>1 DEF PlaceInv, ExitInv
  <2>1. CASE LoadSchedule
    <3>1. (exit_code' = 2 /\ pc' = "shell") \/ (exit_code' = exit_code /\ pc' = "schedule")
      BY <2>1 DEF LoadSchedule
    <3> QED BY <2>0, <3>1 DEF ExitInv, Tests, Plans
  <2>2. CASE ScheduleStep
    <3>1. exit_code' = exit_code /\ pc' = "schedule" BY <2>2 DEF ScheduleStep
    <3> QED BY <2>0, <3>1 DEF ExitInv, Tests, Plans
  <2>3. CASE EndSchedule
    <3>1. exit_code' = exit_code /\ pc' # "shell" /\ (command.name = "certificate" => pc' # "verdict")
      BY <2>3 DEF EndSchedule
    <3> QED BY <2>0, <3>1 DEF ExitInv, Tests, Plans
  <2>4. CASE IssueCertificate
    <3>1. exit_code' = exit_code /\ pc' # "shell" /\ certificate'.passed = test_passed'
      BY <2>4 DEF IssueCertificate, generate_json
    <3> QED BY <2>0, <3>1 DEF ExitInv, Tests, Plans
  <2> QED BY <1>5, <2>1, <2>2, <2>3, <2>4 DEF run_schedule
<1>6. ASSUME run_test_or_combined PROVE ExitInv'
  <2> USE DEF CommandStep, Goes
  <2>1. CASE Verdict
    <3>1. /\ UNCHANGED <<command, test_passed, certificate>> /\ pc = "verdict"
          /\ pc' = IF command.name = "combined" THEN "scope" ELSE "shell"
          /\ exit_code' = IF test_passed THEN 0 ELSE 1
      BY <2>1 DEF Verdict
    <3>2. command.name \in Tests \cup Plans BY <3>1 DEF PlaceInv
    <3> QED BY <3>1, <3>2 DEF ExitInv, Tests, Plans, single
  <2>2. CASE ~Verdict
    <3>1. /\ command' = command /\ certificate' = certificate
          /\ pc \in {"create", "start", "wait", "stop", "guards", "collect", "scope", "destroy"}
      BY <1>6, <2>2 DEF run_test_or_combined, Create, StartEngines, Wait, JoinEngine, StopsDone,
            Collect, StopEngine, EndScope, DestroyEngine, Destroyed, StopGuards
    <3>2. command.name \in Tests BY <3>1 DEF PlaceInv
    <3>3. exit_code' \in {2, exit_code}
      BY <1>6, <2>2 DEF run_test_or_combined, Create, StartEngines, Wait, JoinEngine, StopsDone,
            Collect, StopEngine, EndScope, DestroyEngine, Destroyed, StopGuards
    <3>4. pc \notin {"scope", "destroy"} => exit_code \notin {0, 1} BY <3>1, <3>2 DEF ExitInv
    <3>5. pc \in {"scope", "destroy"} =>
            /\ test_passed' = test_passed
            /\ pc' \in {"scope", "destroy", IF single THEN "guards" ELSE "shell"}
      BY <1>6, <2>2 DEF run_test_or_combined, Create, StartEngines, Wait, JoinEngine, StopsDone,
            Collect, StopEngine, EndScope, DestroyEngine, Destroyed, StopGuards
    <3> QED BY <3>1, <3>2, <3>3, <3>4, <3>5 DEF ExitInv, Tests, Plans, single
  <2> QED BY <2>1, <2>2
<1> HIDE DEF options, monitors, engines, copies, verdict
<1> QED BY <1>1, <1>2, <1>3, <1>4, <1>5, <1>6 DEF Next, Program

-----------------------------------------------------------------------------
CliInv == TypeInv /\ WorkerInv /\ CopyInv /\ PlaceInv /\ TestInv /\ PlanInv /\ ExitInv

LEMMA VerdictSound ==
  ASSUME CliInv PROVE ExitCodeSound
<1> SUFFICES ASSUME Finished PROVE ExitCodeSound!2 BY DEF ExitCodeSound
<1> USE DEF CliInv
<1>1. pc = "shell" BY DEF Finished
<1>2. ASSUME exit_code = 0, command.name \in {"test", "combined"}
      PROVE  \A k \in Kinds : found[k] => Blind(k)
  BY <1>1, <1>2 DEF ExitInv, TestInv, Judged, Tests
<1>3. ASSUME exit_code = 0, FirstPlace(command.name) = "load"
      PROVE  Len(results) = steps /\ AllPassed
  <2>1. command.name \in Plans BY <1>3 DEF FirstPlace, Plans, TypeInv, Names
  <2> QED BY <1>1, <1>3, <2>1 DEF ExitInv, PlanInv
<1>4. ASSUME exit_code \in {0, 1}, command.name = "certificate"
      PROVE  certificate.passed = (exit_code = 0)
  <2>1. certificate.passed = test_passed /\ test_passed \in BOOLEAN
    BY <1>4 DEF ExitInv, TypeInv
  <2>2. (exit_code = 0 => test_passed) /\ (exit_code = 1 => ~test_passed)
    BY <1>4 DEF ExitInv, Plans
  <2> QED BY <1>4, <2>1, <2>2
<1>5. ASSUME exit_code = 1
      PROVE  (\E k \in Kinds : found[k]) \/ ~AllPassed \/ command.name = "verify"
  BY <1>1, <1>5 DEF ExitInv, TestInv, PlanInv
<1> QED BY <1>2, <1>3, <1>4, <1>5

\* The exit code of CliRunner::run(), whatever engines a command tests and however they end:
\* 0 hides no error outside the known blind spots and no failed or skipped step, a
\* certificate says what the exit code says, and 1 has a reason.
THEOREM ExitCodeSoundHolds == Spec => []ExitCodeSound
<1>1. Init => CliInv BY InitType, InitWorker, InitCopy, InitVerdict DEF CliInv
<1>2. CliInv /\ [Next]_vars => CliInv'
  BY TypeKept, WorkerKept, CopyKept, PlaceKept, TestKept, PlanKept, ExitKept DEF CliInv
<1>3. CliInv => ExitCodeSound BY VerdictSound
<1> QED BY <1>1, <1>2, <1>3, PTL DEF Spec
=============================================================================
