--------------------------- MODULE SafetyGuardian ---------------------------
(***************************************************************************)
(* SafetyGuardian beside the main window: a thread of its own asks the     *)
(* SensorManager every 200 ms and, once, stops every registered engine     *)
(* that is running; the GUI thread starts and stops the same engines       *)
(* through the panels' buttons, notices on a timer that an engine has      *)
(* stopped, and in the end closes the window, guardian first.  Each engine *)
(* guards start() and stop() with a mutex of its own; stop() holds it      *)
(* until the engine's threads are joined.                                  *)
(***************************************************************************)
EXTENDS SensorManager

CONSTANTS
  Registered,   \* engines_, in the order of registration
  ClearsFirst,  \* engines whose stop() clears running_ before it joins (CPU, GPU)
  JoinsOld,     \* engines whose start() joins a thread left unjoined (storage)
  cpu_temp_max, \* the limit, which the window leaves as it is
  MaxStarts     \* bound: how many times the user starts an engine

Engines == ToSet(Registered)

ASSUME GuardianAssumption ==
  /\ Registered \in Seq(Engines) /\ Registered # <<>>
  /\ \A i, j \in DOMAIN Registered : i # j => Registered[i] # Registered[j]
  /\ ClearsFirst \subseteq Engines /\ JoinsOld \subseteq Engines
  /\ cpu_temp_max \in 1..MaxLevel /\ MaxStarts \in Nat

VARIABLES
  guardian,             \* "loop", "sweep", "stop", "stopping", "exited"
  guardian_running, emergency_triggered,
  todo,                 \* engines the sweep has not come to yet
  engine, panel,        \* each engine, and isRunning_ of its panel
  gui,                  \* "idle", "stopping", "closing", "destroying", "closed"
  target,               \* the engine the GUI thread waits for
  terminated,           \* std::terminate was called
  victims,              \* history: engines that ran when the emergency was declared
                        \* and were not started again since
  starts

guard == <<guardian, guardian_running, emergency_triggered, todo, victims>>
window == <<panel, gui, target, starts, terminated>>
vars == <<sensors, guard, engine, window>>

Off == [running |-> FALSE, thread |-> "none", told |-> FALSE, mutex |-> "free"]

-----------------------------------------------------------------------------
(* An engine.                                                              *)

\* stop() up to its join: the thread is told, and some engines already say that they
\* are not running.
BeginStop(e, by) ==
  /\ engine[e].mutex = "free"
  /\ engine' = [engine EXCEPT ![e].mutex = by, ![e].told = TRUE,
                              ![e].running = @ /\ e \notin ClearsFirst]

\* The join has returned.
EndStop(e, by) ==
  /\ engine[e].mutex = by /\ engine[e].thread # "live"
  /\ engine' = [engine EXCEPT ![e] = Off]

\* The thread sees that it was told to stop.
Obey(e) ==
  /\ engine[e].thread = "live" /\ engine[e].told /\ ~terminated
  /\ engine' = [engine EXCEPT ![e].thread = "exited"]
  /\ UNCHANGED <<sensors, guard, window>>

\* Its passes, blocks or seconds are over.
EndByItself(e) ==
  /\ engine[e].thread = "live" /\ ~engine[e].told /\ ~terminated
  /\ engine' = [engine EXCEPT ![e].thread = "exited", ![e].running = FALSE]
  /\ UNCHANGED <<sensors, guard, window>>

-----------------------------------------------------------------------------
(* The GUI thread.                                                         *)

CanStart(e) == engine[e].thread = "none" \/ e \in JoinsOld

\* onStartStopClicked() of a panel that does not think its engine runs.
ClickStart(e) ==
  /\ gui = "idle" /\ ~panel[e] /\ ~terminated
  /\ engine[e].mutex = "free" /\ ~engine[e].running
  /\ starts < MaxStarts /\ starts' = starts + 1
  /\ panel' = [panel EXCEPT ![e] = TRUE]
  /\ IF CanStart(e)
       THEN /\ engine' = [engine EXCEPT ![e] = [Off EXCEPT !.running = TRUE,
                                                           !.thread = "live"]]
            /\ victims' = victims \ {e} /\ UNCHANGED terminated
       ELSE terminated' = TRUE /\ UNCHANGED <<engine, victims>>
  /\ UNCHANGED <<sensors, guardian, guardian_running, emergency_triggered,
                 todo, gui, target>>

\* The same button while the panel thinks it runs: the GUI thread waits in stop().
ClickStop(e) ==
  /\ gui = "idle" /\ panel[e] /\ ~terminated
  /\ panel' = [panel EXCEPT ![e] = FALSE]
  /\ BeginStop(e, "gui")
  /\ gui' = "stopping" /\ target' = e
  /\ UNCHANGED <<sensors, guard, starts, terminated>>

GuiStopped ==
  /\ gui = "stopping" /\ EndStop(target, "gui")
  /\ gui' = "idle"
  /\ UNCHANGED <<sensors, guard, panel, target, starts, terminated>>

SeesStopped(e) == ~engine[e].running

\* updateMonitoring(): the button goes back, nobody joins the engine's thread.
Tick(e) ==
  /\ gui = "idle" /\ panel[e] /\ SeesStopped(e) /\ ~terminated
  /\ panel' = [panel EXCEPT ![e] = FALSE]
  /\ UNCHANGED <<sensors, guard, engine, gui, target, starts, terminated>>

\* ~MainWindow(): the guardian is told to stop and joined, ...
Close ==
  /\ gui = "idle" /\ ~terminated
  /\ gui' = "closing" /\ guardian_running' = FALSE
  /\ UNCHANGED <<sensors, guardian, emergency_triggered, todo, victims,
                 engine, panel, target, starts, terminated>>

GuardianJoined ==
  /\ gui = "closing" /\ guardian = "exited"
  /\ gui' = "destroying"
  /\ UNCHANGED <<sensors, guard, engine, panel, target, starts, terminated>>

\* Mutant: an engine that says it does not run is destroyed as it is.
LeftRunning(e) == engine[e].running

\* ~CpuPanel() stops an engine that runs, ~CpuEngine() one that does not.
LeftToStop(e) == engine[e].running \/ engine[e].thread # "none"

\* ... then the panels and their engines are destroyed.
Destroy(e) ==
  /\ gui = "destroying" /\ LeftToStop(e)
  /\ IF engine[e].mutex = "gui" THEN EndStop(e, "gui") ELSE BeginStop(e, "gui")
  /\ UNCHANGED <<sensors, guard, window>>

Closed ==
  /\ gui = "destroying" /\ \A e \in Engines : ~LeftToStop(e)
  /\ gui' = "closed"
  /\ UNCHANGED <<sensors, guard, engine, panel, target, starts, terminated>>

-----------------------------------------------------------------------------
(* check_loop() and emergency_stop().                                      *)

Critical == get_cpu_temperature > 0 /\ get_cpu_temperature >= cpu_temp_max

\* Mutant: the loop looks at nothing but the sensors.
GoesOnForEver == TRUE

\* Mutant: a click on Stop is taken for the guardian's own.
GoesOnUntilAnyStop == guardian_running /\ gui # "stopping"

GoesOn == guardian_running

\* One round: the loop condition, the sensors, and the exchange that lets only the
\* first emergency through.
Round ==
  /\ guardian = "loop" /\ ~terminated
  /\ IF ~GoesOn
       THEN guardian' = "exited" /\ UNCHANGED <<emergency_triggered, todo, victims>>
       ELSE /\ Critical /\ ~emergency_triggered
            /\ emergency_triggered' = TRUE
            /\ guardian' = "sweep" /\ todo' = Registered
            /\ victims' = {e \in Engines : engine[e].running}
  /\ UNCHANGED <<sensors, guardian_running, engine, window>>

\* Mutant: the sweep ends at the first engine that does not run.
RestAfterIdle == <<>>

Rest == Tail(todo)

\* is_running() of the next engine.
Look ==
  /\ guardian = "sweep" /\ todo # <<>> /\ ~terminated
  /\ IF engine[Head(todo)].running
       THEN guardian' = "stop" /\ UNCHANGED todo
       ELSE todo' = Rest /\ UNCHANGED guardian
  /\ UNCHANGED <<sensors, guardian_running, emergency_triggered, victims,
                 engine, window>>

GuardianStops ==
  /\ guardian = "stop" /\ BeginStop(Head(todo), "guardian") /\ ~terminated
  /\ guardian' = "stopping"
  /\ UNCHANGED <<sensors, guardian_running, emergency_triggered, todo,
                 victims, window>>

GuardianStopped ==
  /\ guardian = "stopping" /\ EndStop(Head(todo), "guardian") /\ ~terminated
  /\ guardian' = "sweep" /\ todo' = Tail(todo)
  /\ UNCHANGED <<sensors, guardian_running, emergency_triggered, victims,
                 window>>

\* The callback, and the end of the guardian itself.
EndSweep ==
  /\ guardian = "sweep" /\ todo = <<>> /\ ~terminated
  /\ guardian' = "loop" /\ guardian_running' = FALSE
  /\ UNCHANGED <<sensors, emergency_triggered, todo, victims, engine, window>>

\* The sensors are polled by a thread of their own, until the window is destroyed; bound:
\* rounds after the last look of the guardian, the only reader here, are left out.
Watched == guardian_running /\ ~emergency_triggered /\ ~terminated

PollSensors == Watched /\ poll_wmi /\ UNCHANGED <<guard, engine, window>>

CpuHeats == Watched /\ HeatChanges /\ UNCHANGED <<guard, engine, window>>

-----------------------------------------------------------------------------
\* start() has been called once, when the window was built.
Init ==
  /\ SensorInit
  /\ guardian = "loop" /\ guardian_running = TRUE /\ emergency_triggered = FALSE
  /\ todo = <<>> /\ victims = {}
  /\ engine = [e \in Engines |-> Off] /\ panel = [e \in Engines |-> FALSE]
  /\ gui = "idle" /\ target = Head(Registered) /\ terminated = FALSE /\ starts = 0

Guardian == Round \/ Look \/ GuardianStops \/ GuardianStopped \/ EndSweep
GuiWaits == GuiStopped \/ GuardianJoined \/ Closed \/ \E e \in Engines : Destroy(e)
EngineThread(e) == Obey(e) \/ EndByItself(e)

Next ==
  \/ Guardian \/ GuiWaits \/ Close
  \/ \E e \in Engines : ClickStart(e) \/ ClickStop(e) \/ Tick(e) \/ EngineThread(e)
  \/ PollSensors \/ CpuHeats

Spec == Init /\ [][Next]_vars

\* The guardian's thread and the GUI's run, and an engine that is told to stop does;
\* neither the user nor the end of a test can be counted on.  Strong fairness for the
\* guardian stands for its mutex waits: stop() of the GUI releases what it holds.
FairSpec ==
  /\ Spec
  /\ SF_vars(Guardian) /\ WF_vars(GuiWaits) /\ WF_vars(PollSensors)
  /\ \A e \in Engines : WF_vars(Obey(e))

-----------------------------------------------------------------------------
(* Properties.                                                             *)

\* Every variable stays in its range, and each engine's mutex is held by the thread that
\* waits in its stop() and by no other.
TypeOK ==
  /\ guardian \in {"loop", "sweep", "stop", "stopping", "exited"}
  /\ {guardian_running, emergency_triggered, terminated} \subseteq BOOLEAN
  /\ ToSet(todo) \subseteq Engines /\ victims \subseteq Engines
  /\ engine \in [Engines -> [running: BOOLEAN, thread: {"none", "live", "exited"},
                             told: BOOLEAN, mutex: {"free", "gui", "guardian"}]]
  /\ panel \in [Engines -> BOOLEAN]
  /\ gui \in {"idle", "stopping", "closing", "destroying", "closed"}
  /\ target \in Engines /\ starts \in 0..MaxStarts
  /\ gui = "stopping" => engine[target].mutex = "gui"
  /\ \A e \in Engines : engine[e].mutex = "guardian" <=>
       guardian = "stopping" /\ todo # <<>> /\ Head(todo) = e

\* Every engine that ran when the emergency was declared has been stopped, or is just
\* being stopped by the GUI, when the guardian is through, unless the user started it
\* again meanwhile.
SweepStopsVictims ==
  emergency_triggered /\ guardian \in {"loop", "exited"} =>
    \A e \in victims : engine[e].thread # "live" \/ engine[e].told

\* When the window is closed no thread of an engine is left, running or unjoined.
ClosedLeavesNoThread ==
  gui = "closed" => \A e \in Engines : engine[e].thread = "none"

\* The window is being closed, or is.
Leaving == gui \in {"closing", "destroying", "closed"}

\* A CPU that stays too hot brings the guardian to act, before the window is closed and
\* whatever was started and stopped before, when the sensor that was the first to be read
\* goes on being read: one that was the first and has fallen silent hides all the others.
HeatIsNoticed ==
  <>[](heat >= cpu_temp_max) /\ []<>FirstAnswers
    => <>(emergency_triggered \/ Leaving \/ terminated)

\* Closing the window comes to its end: the GUI waiting for the guardian, the guardian
\* for an engine and the engine's mutex never wait for one another.
ClosingEnds == gui = "closing" ~> gui = "closed"

\* "Stop all registered engines" (guardian.cpp): none of them runs when the emergency
\* stop has come to its end.
EmergencyStopsAll ==
  guardian = "sweep" /\ todo = <<>> => \A e \in Engines : ~engine[e].running

\* Without that clause: no run checks it, as the model refutes it.
AllHeatIsNoticed ==
  <>[](heat >= cpu_temp_max) => <>(emergency_triggered \/ Leaving \/ terminated)
=============================================================================
