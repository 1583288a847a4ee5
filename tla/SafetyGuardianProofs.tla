------------------------ MODULE SafetyGuardianProofs ------------------------
(***************************************************************************)
(* The guardian and the window, for any engines in any order, and for any  *)
(* number of starts: the mutexes are held by those who wait, the emergency *)
(* stop reaches every engine that ran, and closing leaves no thread.       *)
(***************************************************************************)
EXTENDS SafetyGuardian, TLAPS, SequenceTheorems

-----------------------------------------------------------------------------
(* What the invariants rest on.                                            *)

\* The thread of the engine has ended, or knows that it has to.
Down(e) == engine[e].thread # "live" \/ engine[e].told

\* running_ is cleared by a stop or by the thread at its end, never before.
IdleInv == \A e \in Engines : ~engine[e].running => Down(e)

\* Whoever ran when the emergency was declared is down, or the sweep has yet to
\* come to it.
SweepInv ==
  /\ ~emergency_triggered => victims = {} /\ guardian \in {"loop", "exited"}
  /\ guardian \in {"stop", "stopping"} => todo # <<>>
  /\ \A e \in victims :
       Down(e) \/ (guardian \in {"sweep", "stop", "stopping"} /\ e \in ToSet(todo))

GInv == TypeOK /\ todo \in Seq(Engines) /\ IdleInv /\ SweepInv

-----------------------------------------------------------------------------
(* Sequences of engines.                                                   *)

LEMMA HeadAndRest ==
  ASSUME NEW S, NEW s \in Seq(S), s # <<>>
  PROVE  /\ Head(s) \in S /\ Head(s) \in ToSet(s)
         /\ Tail(s) \in Seq(S)
         /\ ToSet(Tail(s)) \subseteq ToSet(s)
         /\ \A x \in ToSet(s) : x = Head(s) \/ x \in ToSet(Tail(s))
<1>1. /\ Len(s) \in Nat /\ Len(s) >= 1 /\ DOMAIN s = 1..Len(s)
      /\ Head(s) = s[1] /\ Tail(s) \in Seq(S) /\ Len(Tail(s)) = Len(s) - 1
      /\ \A i \in 1..(Len(s) - 1) : Tail(s)[i] = s[i + 1]
      /\ DOMAIN Tail(s) = 1..(Len(s) - 1)
  BY EmptySeq, HeadTailProperties, LenProperties
<1>2. Head(s) \in S /\ Head(s) \in ToSet(s)
  BY <1>1 DEF ToSet
<1>3. ToSet(Tail(s)) \subseteq ToSet(s)
  BY <1>1 DEF ToSet
<1>4. ASSUME NEW x \in ToSet(s) PROVE x = Head(s) \/ x \in ToSet(Tail(s))
  <2>1. PICK i \in 1..Len(s) : x = s[i]
    BY <1>1 DEF ToSet
  <2>2. CASE i = 1
    BY <1>1, <2>1, <2>2
  <2>3. CASE i # 1
    <3>1. i - 1 \in 1..(Len(s) - 1) /\ (i - 1) + 1 = i
      BY <1>1, <2>1, <2>3
    <3>2. x = Tail(s)[i - 1] /\ i - 1 \in DOMAIN Tail(s)
      BY <1>1, <2>1, <3>1
    <3>3. QED
      BY <3>2 DEF ToSet
  <2>4. QED
    BY <2>2, <2>3
<1>5. QED
  BY <1>1, <1>2, <1>3, <1>4

LEMMA RegisteredFacts ==
  /\ Registered \in Seq(Engines) /\ Registered # <<>>
  /\ Head(Registered) \in Engines /\ ToSet(Registered) = Engines
  /\ MaxStarts \in Nat
  BY GuardianAssumption, HeadAndRest DEF GuardianAssumption, Engines

-----------------------------------------------------------------------------
(* The steps of an engine.                                                 *)

EngineState == [running: BOOLEAN, thread: {"none", "live", "exited"},
                told: BOOLEAN, mutex: {"free", "gui", "guardian"}]

\* Who holds which mutex.
MutexOK ==
  /\ gui = "stopping" => engine[target].mutex = "gui"
  /\ \A e \in Engines : engine[e].mutex = "guardian" <=>
       guardian = "stopping" /\ todo # <<>> /\ Head(todo) = e

\* TypeOK, without the mutexes and the engines.
PlainType ==
  /\ guardian \in {"loop", "sweep", "stop", "stopping", "exited"}
  /\ guardian_running \in BOOLEAN /\ emergency_triggered \in BOOLEAN
  /\ terminated \in BOOLEAN
  /\ ToSet(todo) \subseteq Engines /\ todo \in Seq(Engines)
  /\ victims \subseteq Engines
  /\ panel \in [Engines -> BOOLEAN]
  /\ gui \in {"idle", "stopping", "closing", "destroying", "closed"}
  /\ target \in Engines /\ starts \in 0..MaxStarts

LEMMA InvParts ==
  GInv <=> /\ PlainType /\ engine \in [Engines -> EngineState] /\ MutexOK
           /\ IdleInv /\ SweepInv
  BY DEF GInv, TypeOK, PlainType, EngineState, MutexOK

LEMMA InvPartsNext ==
  (GInv <=> /\ PlainType /\ engine \in [Engines -> EngineState] /\ MutexOK
            /\ IdleInv /\ SweepInv)'
  BY InvParts, PTL

\* A stop() that has got the mutex tells the thread, and no other engine.
LEMMA BeginStopFacts ==
  ASSUME engine \in [Engines -> EngineState], NEW e \in Engines,
         NEW by \in {"gui", "guardian"}, BeginStop(e, by)
  PROVE  /\ engine' \in [Engines -> EngineState]
         /\ engine[e].mutex = "free" /\ engine'[e].mutex = by
         /\ engine'[e].told = TRUE
         /\ \A x \in Engines \ {e} : engine'[x] = engine[x]
<1>1. engine[e] \in EngineState
  OBVIOUS
<1> DEFINE r == [engine[e] EXCEPT !.mutex = by, !.told = TRUE,
                                  !.running = @ /\ e \notin ClearsFirst]
<1>2. /\ r \in EngineState /\ r.mutex = by /\ r.told = TRUE
  BY <1>1 DEF EngineState
<1>3. engine' = [engine EXCEPT ![e] = r] /\ engine[e].mutex = "free"
  BY DEF BeginStop, EngineState
<1> HIDE DEF r
<1>4. QED
  BY <1>2, <1>3

\* A stop() that returns leaves its engine as if it had never run.
LEMMA EndStopFacts ==
  ASSUME engine \in [Engines -> EngineState], NEW e \in Engines, NEW by,
         EndStop(e, by)
  PROVE  /\ engine' \in [Engines -> EngineState]
         /\ engine[e].mutex = by /\ engine[e].thread # "live"
         /\ engine'[e].mutex = "free" /\ engine'[e].thread = "none"
         /\ \A x \in Engines \ {e} : engine'[x] = engine[x]
<1>1. Off \in EngineState /\ Off.mutex = "free" /\ Off.thread = "none"
  BY DEF Off, EngineState
<1>2. engine' = [engine EXCEPT ![e] = Off]
  BY DEF EndStop
<1>3. QED
  BY <1>1, <1>2 DEF EndStop

\* While the guardian's part and the mutexes of others stay, an engine that only
\* comes closer to its end keeps what the sweep relies on.
LEMMA StopKeeps ==
  ASSUME GInv, UNCHANGED guard, NEW e \in Engines,
         engine' \in [Engines -> EngineState],
         Down(e)',
         \A x \in Engines \ {e} : engine'[x] = engine[x]
  PROVE  IdleInv' /\ SweepInv'
<1>1. /\ IdleInv /\ SweepInv /\ victims \subseteq Engines
      /\ \A x \in Engines : Down(x) => Down(x)'
  BY InvParts DEF PlainType, Down
<1>2. IdleInv'
  BY <1>1 DEF IdleInv, Down
<1>3. SweepInv'
  BY <1>1 DEF SweepInv, guard
<1>4. QED
  BY <1>2, <1>3

\* The GUI's steps in stop() keep the mutexes and the types.
LEMMA GuiKeepsMutex ==
  ASSUME GInv, UNCHANGED guard, NEW e \in Engines,
         engine[e].mutex # "guardian", engine'[e].mutex # "guardian",
         \A x \in Engines \ {e} : engine'[x] = engine[x],
         gui' = "stopping" => engine'[target'].mutex = "gui"
  PROVE  MutexOK'
<1>1. MutexOK
  BY InvParts
<1>2. ASSUME NEW x \in Engines
      PROVE  engine'[x].mutex = "guardian" <=> engine[x].mutex = "guardian"
  BY <1>2
<1>3. QED
  BY <1>1, <1>2 DEF MutexOK, guard

-----------------------------------------------------------------------------
(* The invariant, action by action.                                        *)

LEMMA InitGInv == Init => GInv
<1> SUFFICES ASSUME Init PROVE GInv
  OBVIOUS
<1>1. Off \in EngineState /\ Off.mutex = "free" /\ Off.thread = "none"
  BY DEF Off, EngineState
<1>2. \A e \in Engines : engine[e] = Off
  BY DEF Init
<1>3. engine \in [Engines -> EngineState]
  BY <1>1 DEF Init
<1>4. ToSet(<<>>) = {} /\ <<>> \in Seq(Engines)
  BY DEF ToSet
<1>5. PlainType
  <2>1. /\ guardian_running \in BOOLEAN /\ emergency_triggered \in BOOLEAN
        /\ terminated \in BOOLEAN /\ panel \in [Engines -> BOOLEAN]
    BY DEF Init
  <2>2. target \in Engines /\ starts \in 0..MaxStarts
    BY RegisteredFacts DEF Init
  <2>3. /\ guardian = "loop" /\ gui = "idle" /\ todo = <<>> /\ victims = {}
    BY DEF Init
  <2>4. QED
    BY <1>4, <2>1, <2>2, <2>3 DEF PlainType
<1>6. MutexOK /\ IdleInv /\ SweepInv
  BY <1>1, <1>2 DEF Init, MutexOK, IdleInv, SweepInv, Down
<1>7. QED
  BY <1>3, <1>5, <1>6, InvParts

LEMMA EngineThreadStep ==
  ASSUME GInv, NEW e \in Engines, EngineThread(e) PROVE GInv'
<1>1. /\ PlainType /\ engine \in [Engines -> EngineState] /\ MutexOK
  BY InvParts
<1>2. /\ UNCHANGED <<guard, window>>
  BY DEF EngineThread, Obey, EndByItself
<1>3. /\ engine' \in [Engines -> EngineState]
      /\ engine'[e].thread = "exited" /\ engine'[e].mutex = engine[e].mutex
      /\ \A x \in Engines \ {e} : engine'[x] = engine[x]
  <2>1. engine[e] \in EngineState
    BY <1>1
  <2>2. CASE Obey(e)
    <3> DEFINE r == [engine[e] EXCEPT !.thread = "exited"]
    <3>1. engine' = [engine EXCEPT ![e] = r]
      BY <2>2 DEF Obey
    <3>2. r \in EngineState /\ r.thread = "exited" /\ r.mutex = engine[e].mutex
      BY <2>1 DEF EngineState
    <3> HIDE DEF r
    <3>3. QED
      BY <1>1, <3>1, <3>2
  <2>3. CASE EndByItself(e)
    <3> DEFINE r == [engine[e] EXCEPT !.thread = "exited", !.running = FALSE]
    <3>1. engine' = [engine EXCEPT ![e] = r]
      BY <2>3 DEF EndByItself
    <3>2. r \in EngineState /\ r.thread = "exited" /\ r.mutex = engine[e].mutex
      BY <2>1 DEF EngineState
    <3> HIDE DEF r
    <3>3. QED
      BY <1>1, <3>1, <3>2
  <2>4. QED
    BY <2>2, <2>3 DEF EngineThread
<1>4. IdleInv' /\ SweepInv'
  BY <1>2, <1>3, StopKeeps DEF Down
<1>5. \A x \in Engines : engine'[x].mutex = engine[x].mutex
  BY <1>3
<1>6. MutexOK' /\ PlainType'
  BY <1>1, <1>2, <1>5 DEF MutexOK, PlainType, guard, window
<1>7. QED
  BY <1>3, <1>4, <1>6, InvPartsNext

LEMMA ClickStopStep ==
  ASSUME GInv, NEW e \in Engines, ClickStop(e) PROVE GInv'
<1>1. /\ PlainType /\ engine \in [Engines -> EngineState]
  BY InvParts
<1>2. /\ UNCHANGED <<guard, starts, terminated>> /\ BeginStop(e, "gui")
      /\ gui' = "stopping" /\ target' = e
      /\ panel' = [panel EXCEPT ![e] = FALSE]
  BY DEF ClickStop
<1>3. /\ engine' \in [Engines -> EngineState]
      /\ engine[e].mutex = "free" /\ engine'[e].mutex = "gui"
      /\ engine'[e].told = TRUE
      /\ \A x \in Engines \ {e} : engine'[x] = engine[x]
  BY <1>1, <1>2, BeginStopFacts
<1>4. IdleInv' /\ SweepInv'
  BY <1>2, <1>3, StopKeeps DEF Down
<1>5. MutexOK'
  BY <1>2, <1>3, GuiKeepsMutex
<1>6. PlainType'
  BY <1>1, <1>2 DEF PlainType, guard
<1>7. QED
  BY <1>3, <1>4, <1>5, <1>6, InvPartsNext

LEMMA GuiStoppedStep ==
  ASSUME GInv, GuiStopped PROVE GInv'
<1>1. /\ PlainType /\ engine \in [Engines -> EngineState] /\ target \in Engines
  BY InvParts DEF PlainType
<1>2. /\ UNCHANGED <<guard, panel, target, starts, terminated>>
      /\ EndStop(target, "gui") /\ gui' = "idle"
  BY DEF GuiStopped
<1>3. /\ engine' \in [Engines -> EngineState]
      /\ engine[target].mutex = "gui"
      /\ engine'[target].mutex = "free" /\ engine'[target].thread = "none"
      /\ \A x \in Engines \ {target} : engine'[x] = engine[x]
  BY <1>1, <1>2, EndStopFacts
<1>4. IdleInv' /\ SweepInv'
  BY <1>1, <1>2, <1>3, StopKeeps DEF Down
<1>5. MutexOK'
  BY <1>1, <1>2, <1>3, GuiKeepsMutex
<1>6. PlainType'
  BY <1>1, <1>2 DEF PlainType, guard
<1>7. QED
  BY <1>3, <1>4, <1>5, <1>6, InvPartsNext

LEMMA DestroyStep ==
  ASSUME GInv, NEW e \in Engines, Destroy(e) PROVE GInv'
<1>1. /\ PlainType /\ engine \in [Engines -> EngineState]
  BY InvParts
<1>2. /\ UNCHANGED <<guard, window>> /\ gui = "destroying"
      /\ EndStop(e, "gui") \/ BeginStop(e, "gui")
  BY DEF Destroy
<1>3. /\ engine' \in [Engines -> EngineState] /\ Down(e)'
      /\ engine[e].mutex # "guardian" /\ engine'[e].mutex # "guardian"
      /\ \A x \in Engines \ {e} : engine'[x] = engine[x]
  BY <1>1, <1>2, EndStopFacts, BeginStopFacts DEF Down
<1>4. IdleInv' /\ SweepInv'
  BY <1>2, <1>3, StopKeeps
<1>5. MutexOK'
  BY <1>2, <1>3, GuiKeepsMutex DEF window
<1>6. PlainType'
  BY <1>1, <1>2 DEF PlainType, guard, window
<1>7. QED
  BY <1>3, <1>4, <1>5, <1>6, InvPartsNext

LEMMA ClickStartStep ==
  ASSUME GInv, NEW e \in Engines, ClickStart(e) PROVE GInv'
<1>1. /\ PlainType /\ engine \in [Engines -> EngineState] /\ MutexOK
      /\ IdleInv /\ SweepInv
  BY InvParts
<1>2. /\ UNCHANGED <<guardian, guardian_running, emergency_triggered, todo, gui,
                     target>>
      /\ gui = "idle" /\ engine[e].mutex = "free"
      /\ panel' = [panel EXCEPT ![e] = TRUE]
      /\ starts < MaxStarts /\ starts' = starts + 1
  BY DEF ClickStart
<1>3. starts' \in 0..MaxStarts /\ panel' \in [Engines -> BOOLEAN]
  BY <1>1, <1>2, RegisteredFacts DEF PlainType
<1>4. CASE terminated' = TRUE /\ UNCHANGED <<engine, victims>>
  BY <1>1, <1>2, <1>3, <1>4, InvPartsNext
     DEF PlainType, MutexOK, IdleInv, SweepInv, Down
<1>5. CASE /\ engine' = [engine EXCEPT ![e] = [Off EXCEPT !.running = TRUE,
                                                         !.thread = "live"]]
           /\ victims' = victims \ {e} /\ UNCHANGED terminated
  <2> DEFINE r == [Off EXCEPT !.running = TRUE, !.thread = "live"]
  <2>1. r \in EngineState /\ r.running = TRUE /\ r.mutex = "free"
    BY DEF Off, EngineState
  <2>2. engine' = [engine EXCEPT ![e] = r]
    BY <1>5
  <2> HIDE DEF r
  <2>3. /\ engine' \in [Engines -> EngineState] /\ engine'[e] = r
        /\ \A x \in Engines \ {e} : engine'[x] = engine[x]
    BY <1>1, <2>1, <2>2
  <2>4. PlainType'
    BY <1>1, <1>2, <1>3, <1>5 DEF PlainType
  <2>5. \A x \in Engines : engine'[x].mutex = engine[x].mutex
    BY <1>2, <2>1, <2>3
  <2>6. MutexOK'
    BY <1>1, <1>2, <2>5 DEF MutexOK
  <2>7. \A x \in Engines \ {e} : Down(x)' <=> Down(x)
    BY <2>3 DEF Down
  <2>8. IdleInv'
    BY <1>1, <2>1, <2>3, <2>7 DEF IdleInv
  <2>9. SweepInv'
    BY <1>1, <1>2, <1>5, <2>7 DEF SweepInv, PlainType
  <2>10. QED
    BY <2>3, <2>4, <2>6, <2>8, <2>9, InvPartsNext
<1>6. QED
  BY <1>4, <1>5 DEF ClickStart

\* Steps that leave the engines alone and the guardian's place.
LEMMA WindowStep ==
  ASSUME GInv,
         UNCHANGED <<engine, guardian, emergency_triggered, todo, victims,
                     target, starts, terminated>>,
         guardian_running' \in BOOLEAN, panel' \in [Engines -> BOOLEAN],
         gui' \in {"idle", "stopping", "closing", "destroying", "closed"},
         gui' = "stopping" => gui = "stopping"
  PROVE  GInv'
<1>1. /\ PlainType /\ engine \in [Engines -> EngineState] /\ MutexOK
      /\ IdleInv /\ SweepInv
  BY InvParts
<1>2. PlainType' /\ engine' \in [Engines -> EngineState]
  BY <1>1 DEF PlainType
<1>3. MutexOK' /\ IdleInv' /\ SweepInv'
  BY <1>1 DEF MutexOK, IdleInv, SweepInv, Down
<1>4. QED
  BY <1>2, <1>3, InvPartsNext

LEMMA WindowSteps ==
  ASSUME GInv, NEW e \in Engines,
         Tick(e) \/ Close \/ GuardianJoined \/ Closed \/ PollSensors \/ CpuHeats
  PROVE  GInv'
<1>1. PlainType
  BY InvParts
<1>2. /\ UNCHANGED <<engine, guardian, emergency_triggered, todo, victims,
                     target, starts, terminated>>
  BY DEF Tick, Close, GuardianJoined, Closed, PollSensors, CpuHeats, guard, window
<1>3. guardian_running' \in BOOLEAN
  <2>1. guardian_running' = guardian_running \/ guardian_running' = FALSE
    BY DEF Tick, Close, GuardianJoined, Closed, PollSensors, CpuHeats, guard
  <2>2. QED
    BY <1>1, <2>1 DEF PlainType
<1>4. panel' \in [Engines -> BOOLEAN]
  BY <1>1 DEF Tick, Close, GuardianJoined, Closed, PollSensors, CpuHeats, window,
     PlainType
<1>5. gui' = gui \/ gui' \in {"closing", "destroying", "closed"}
  BY DEF Tick, Close, GuardianJoined, Closed, PollSensors, CpuHeats, window
<1>6. QED
  BY <1>1, <1>2, <1>3, <1>4, <1>5, WindowStep DEF PlainType

LEMMA RoundStep ==
  ASSUME GInv, Round PROVE GInv'
<1>1. /\ PlainType /\ engine \in [Engines -> EngineState] /\ MutexOK
      /\ IdleInv /\ SweepInv
  BY InvParts
<1>2. UNCHANGED <<guardian_running, engine, window>> /\ guardian = "loop"
  BY DEF Round
<1>3. CASE guardian' = "exited" /\ UNCHANGED <<emergency_triggered, todo, victims>>
  BY <1>1, <1>2, <1>3, InvPartsNext
     DEF PlainType, MutexOK, IdleInv, SweepInv, Down, window
<1>4. CASE /\ ~emergency_triggered /\ emergency_triggered' = TRUE
           /\ guardian' = "sweep" /\ todo' = Registered
           /\ victims' = {e \in Engines : engine[e].running}
  <2>1. PlainType'
    BY <1>1, <1>2, <1>4, RegisteredFacts DEF PlainType, window
  <2>2. MutexOK' /\ IdleInv'
    BY <1>1, <1>2, <1>4 DEF MutexOK, IdleInv, Down, window
  <2>3. SweepInv'
    BY <1>4, RegisteredFacts DEF SweepInv
  <2>4. QED
    BY <1>1, <1>2, <2>1, <2>2, <2>3, InvPartsNext
<1>5. QED
  BY <1>3, <1>4 DEF Round

LEMMA LookStep ==
  ASSUME GInv, Look PROVE GInv'
<1>1. /\ PlainType /\ engine \in [Engines -> EngineState] /\ MutexOK
      /\ IdleInv /\ SweepInv
  BY InvParts
<1>2. /\ UNCHANGED <<guardian_running, emergency_triggered, victims, engine, window>>
      /\ guardian = "sweep" /\ todo # <<>> /\ emergency_triggered
      /\ \/ guardian' = "stop" /\ UNCHANGED todo
         \/ /\ ~engine[Head(todo)].running
            /\ todo' = Tail(todo) /\ UNCHANGED guardian
  BY <1>1 DEF Look, Rest, SweepInv
<1>3. CASE guardian' = "stop" /\ UNCHANGED todo
  BY <1>1, <1>2, <1>3, InvPartsNext
     DEF PlainType, MutexOK, IdleInv, SweepInv, Down, window
<1>4. CASE ~engine[Head(todo)].running /\ todo' = Tail(todo) /\ UNCHANGED guardian
  <2>1. /\ Head(todo) \in Engines /\ Tail(todo) \in Seq(Engines)
        /\ ToSet(Tail(todo)) \subseteq ToSet(todo)
        /\ \A x \in ToSet(todo) : x = Head(todo) \/ x \in ToSet(Tail(todo))
    BY <1>1, <1>2, HeadAndRest DEF PlainType
  <2>2. Down(Head(todo))
    BY <1>1, <1>4, <2>1 DEF IdleInv
  <2>3. PlainType'
    BY <1>1, <1>2, <1>4, <2>1 DEF PlainType, window
  <2>4. MutexOK' /\ IdleInv'
    BY <1>1, <1>2, <1>4 DEF MutexOK, IdleInv, Down, window
  <2>5. SweepInv'
    BY <1>1, <1>2, <1>4, <2>1, <2>2 DEF SweepInv, Down
  <2>6. QED
    BY <1>1, <1>2, <2>3, <2>4, <2>5, InvPartsNext
<1>5. QED
  BY <1>2, <1>3, <1>4

LEMMA GuardianStopsStep ==
  ASSUME GInv, GuardianStops PROVE GInv'
<1>1. /\ PlainType /\ engine \in [Engines -> EngineState] /\ MutexOK
      /\ IdleInv /\ SweepInv
  BY InvParts
<1>2. /\ UNCHANGED <<guardian_running, emergency_triggered, todo, victims, window>>
      /\ guardian = "stop" /\ guardian' = "stopping"
      /\ BeginStop(Head(todo), "guardian")
  BY DEF GuardianStops
<1>3. todo # <<>> /\ Head(todo) \in Engines
  BY <1>1, <1>2, HeadAndRest DEF SweepInv, PlainType
<1>4. /\ engine' \in [Engines -> EngineState]
      /\ engine[Head(todo)].mutex = "free"
      /\ engine'[Head(todo)].mutex = "guardian"
      /\ engine'[Head(todo)].told = TRUE
      /\ \A x \in Engines \ {Head(todo)} : engine'[x] = engine[x]
  BY <1>1, <1>2, <1>3, BeginStopFacts
<1>5. \A x \in Engines : Down(x) => Down(x)'
  BY <1>4 DEF Down
<1>6. PlainType'
  BY <1>1, <1>2 DEF PlainType, window
<1>7. MutexOK'
  BY <1>1, <1>2, <1>3, <1>4 DEF MutexOK, PlainType, window
<1>8. IdleInv' /\ SweepInv'
  BY <1>1, <1>2, <1>3, <1>4, <1>5 DEF IdleInv, SweepInv, PlainType, Down
<1>9. QED
  BY <1>4, <1>6, <1>7, <1>8, InvPartsNext

LEMMA GuardianStoppedStep ==
  ASSUME GInv, GuardianStopped PROVE GInv'
<1>1. /\ PlainType /\ engine \in [Engines -> EngineState] /\ MutexOK
      /\ IdleInv /\ SweepInv
  BY InvParts
<1>2. /\ UNCHANGED <<guardian_running, emergency_triggered, victims, window>>
      /\ guardian = "stopping" /\ guardian' = "sweep" /\ todo' = Tail(todo)
      /\ EndStop(Head(todo), "guardian")
  BY DEF GuardianStopped
<1>3. /\ todo # <<>> /\ Head(todo) \in Engines /\ Tail(todo) \in Seq(Engines)
      /\ ToSet(Tail(todo)) \subseteq ToSet(todo)
      /\ \A x \in ToSet(todo) : x = Head(todo) \/ x \in ToSet(Tail(todo))
  BY <1>1, <1>2, HeadAndRest DEF SweepInv, PlainType
<1>4. /\ engine' \in [Engines -> EngineState]
      /\ engine[Head(todo)].mutex = "guardian"
      /\ engine'[Head(todo)].mutex = "free" /\ engine'[Head(todo)].thread = "none"
      /\ \A x \in Engines \ {Head(todo)} : engine'[x] = engine[x]
  BY <1>1, <1>2, <1>3, EndStopFacts
<1>5. \A x \in Engines : Down(x) => Down(x)'
  BY <1>4 DEF Down
<1>6. PlainType'
  BY <1>1, <1>2, <1>3 DEF PlainType, window
<1>7. MutexOK'
  BY <1>1, <1>2, <1>3, <1>4 DEF MutexOK, PlainType, window
<1>8. IdleInv'
  BY <1>1, <1>5, <1>3, <1>4 DEF IdleInv, Down
<1>9. SweepInv'
  BY <1>1, <1>2, <1>3, <1>4, <1>5 DEF SweepInv, PlainType, Down
<1>10. QED
  BY <1>4, <1>6, <1>7, <1>8, <1>9, InvPartsNext

LEMMA EndSweepStep ==
  ASSUME GInv, EndSweep PROVE GInv'
<1>1. /\ PlainType /\ engine \in [Engines -> EngineState] /\ MutexOK
      /\ IdleInv /\ SweepInv
  BY InvParts
<1>2. /\ UNCHANGED <<emergency_triggered, todo, victims, engine, window>>
      /\ guardian = "sweep" /\ todo = <<>>
      /\ guardian' = "loop" /\ guardian_running' = FALSE
  BY DEF EndSweep
<1>3. ToSet(todo) = {}
  BY <1>2 DEF ToSet
<1>4. PlainType' /\ MutexOK' /\ IdleInv'
  BY <1>1, <1>2 DEF PlainType, MutexOK, IdleInv, Down, window
<1>5. SweepInv'
  BY <1>1, <1>2, <1>3 DEF SweepInv, Down
<1>6. QED
  BY <1>1, <1>2, <1>4, <1>5, InvPartsNext

LEMMA NextGInv == GInv /\ [Next]_vars => GInv'
<1> SUFFICES ASSUME GInv, [Next]_vars PROVE GInv'
  OBVIOUS
<1>1. CASE Guardian
  BY <1>1, RoundStep, LookStep, GuardianStopsStep, GuardianStoppedStep,
     EndSweepStep DEF Guardian
<1>2. CASE \E e \in Engines : ClickStart(e) \/ ClickStop(e) \/ Tick(e)
                              \/ EngineThread(e) \/ Destroy(e)
  BY <1>2, ClickStartStep, ClickStopStep, WindowSteps, EngineThreadStep, DestroyStep
<1>3. CASE GuiStopped
  BY <1>3, GuiStoppedStep
<1>4. CASE Close \/ GuardianJoined \/ Closed \/ PollSensors \/ CpuHeats
  BY <1>4, WindowSteps, RegisteredFacts
<1>5. CASE UNCHANGED vars
  <2>1. PlainType
    BY InvParts
  <2>2. QED
    BY <1>5, <2>1, WindowStep DEF vars, guard, window, PlainType
<1>6. QED
  BY <1>1, <1>2, <1>3, <1>4, <1>5 DEF Next, GuiWaits

-----------------------------------------------------------------------------
(* Theorems.                                                               *)

\* Each engine's mutex is held by the thread that waits in its stop() and by no other
\* (CpuEngine::stop(), StorageEngine::stop() and SafetyGuardian::emergency_stop()).
THEOREM TypeCorrect == Spec => []TypeOK
<1>1. GInv => TypeOK
  BY DEF GInv
<1>2. QED
  BY <1>1, InitGInv, NextGInv, PTL DEF Spec

\* The emergency stop leaves none of the engines it found running to run on, however the
\* user clicks meanwhile (emergency_stop() and the panels' onStartStopClicked()).
THEOREM SweepStopsVictimsHolds == Spec => []SweepStopsVictims
<1>1. GInv => SweepStopsVictims
  BY DEF GInv, SweepInv, SweepStopsVictims, Down
<1>2. QED
  BY <1>1, InitGInv, NextGInv, PTL DEF Spec

\* An engine comes to have a thread by a start, and only an idle window starts one.
LEMMA NoThreadComes ==
  ASSUME GInv, gui = "closed", [Next]_vars, NEW e \in Engines,
         engine[e].thread = "none"
  PROVE  engine'[e].thread = "none"
<1>1. engine \in [Engines -> EngineState] /\ PlainType
  BY InvParts
<1>2. CASE UNCHANGED engine
  BY <1>2
<1>3. ASSUME NEW x \in Engines, EngineThread(x) PROVE engine'[e].thread = "none"
  BY <1>1, <1>3 DEF EngineThread, Obey, EndByItself
<1>4. CASE GuardianStops \/ GuardianStopped
  BY <1>1, <1>4 DEF GuardianStops, GuardianStopped, BeginStop, EndStop, Off,
     EngineState
<1>5. QED
  BY <1>2, <1>3, <1>4 DEF Next, Guardian, GuiWaits, Round, Look, EndSweep,
     GuiStopped, GuardianJoined, Closed, Destroy, Close, ClickStart, ClickStop,
     Tick, PollSensors, CpuHeats, vars

\* A closed window leaves no thread of an engine behind, running or unjoined
\* (the destructors of the panels and of their engines).
THEOREM ClosedLeavesNoThreadHolds == Spec => []ClosedLeavesNoThread
<1>1. Init => ClosedLeavesNoThread
  BY DEF Init, ClosedLeavesNoThread
<1>2. GInv /\ ClosedLeavesNoThread /\ [Next]_vars => ClosedLeavesNoThread'
  <2> SUFFICES ASSUME GInv, ClosedLeavesNoThread, [Next]_vars, gui' = "closed",
                      NEW e \in Engines
               PROVE  engine'[e].thread = "none"
    BY DEF ClosedLeavesNoThread
  <2>1. CASE gui = "closed"
    BY <2>1, NoThreadComes DEF ClosedLeavesNoThread
  <2>2. CASE gui # "closed"
    <3>1. Closed
      BY <2>2 DEF Next, Guardian, GuiWaits, Round, Look, EndSweep, GuardianStops,
         GuardianStopped, GuiStopped, GuardianJoined, Destroy, Close, ClickStart,
         ClickStop, Tick, EngineThread, Obey, EndByItself, PollSensors, CpuHeats,
         window, vars
    <3>2. QED
      BY <3>1 DEF Closed, LeftToStop
  <2>3. QED
    BY <2>1, <2>2
<1>3. QED
  BY <1>1, <1>2, InitGInv, NextGInv, PTL DEF Spec
=============================================================================
