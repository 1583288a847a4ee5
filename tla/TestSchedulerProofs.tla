------------------------- MODULE TestSchedulerProofs -------------------------
(***************************************************************************)
(* The scheduler, for any schedules, durations and numbers of errors: no   *)
(* engine outlives its group, results are those of the steps in order, and *)
(* with stop_on_error no group starts once an error is counted.            *)
(***************************************************************************)
EXTENDS TestScheduler, TLAPS

Indices == 1..Len(steps)
Results == [index: Indices, errors: 0..MaxFound, passed: BOOLEAN]

TypeInv ==
  /\ steps \in Schedules
  /\ pc \in {"idle", "start", "look", "join", "terminated"} /\ caller \in {"onTick", "stop"}
  /\ verdict \in {"none", "passed", "failed"} /\ engine \in Counts
  /\ errors \in 0..MaxFound /\ current_step \in Nat
  /\ todo \in Seq(Indices) /\ active \in Seq(Indices)
  /\ results \in Seq(Results) /\ detected \in Seq(0..MaxFound)
  /\ total_errors \in Nat
  /\ running \in BOOLEAN /\ stop_on_error \in BOOLEAN

Stops == pc \in {"look", "join"}

\* Where the scheduler is in the schedule: the results of the steps before, the steps it
\* has started and those it has still to stop follow one another.
OrderInv ==
  /\ ~Stops => todo = <<>>
  /\ pc # "idle" => running
  /\ ~running => active = <<>>
  /\ running => current_step <= Len(steps)
  /\ running /\ pc = "idle" => active # <<>>
  /\ pc = "start" => current_step < Len(steps)
  /\ running /\ pc \in {"idle", "start"} =>
       /\ current_step = Len(results) + Len(active)
       /\ \A j \in DOMAIN active : active[j] = Len(results) + j
  /\ Stops =>
       /\ current_step = Len(results) + Len(todo)
       /\ \A i \in DOMAIN todo : todo[i] = Len(results) + i
  /\ pc = "join" => todo # <<>> /\ Known(Head(todo))

\* An engine that runs is one of a step that is active, or is still to be stopped.
OwnersInv ==
  /\ pc \in {"idle", "start"} =>
       \A e \in Engines : engine[e].running =>
         \E j \in DOMAIN active : steps[active[j]].engine = e
  /\ Stops =>
       \A e \in Engines : engine[e].running =>
         \E i \in DOMAIN todo : steps[todo[i]].engine = e
  /\ pc = "join" => ~EngineOf(Head(todo)).running

AllPassed == \A k \in DOMAIN results : results[k].passed

\* The results, what the engines had found when they were asked, and what is made of both.
BooksInv ==
  /\ \A e \in Engines : engine[e].shown <= engine[e].found
  /\ Len(detected) = Len(results) + (IF pc = "join" THEN 1 ELSE 0)
  /\ \A k \in DOMAIN results :
       /\ results[k].index = k /\ results[k].errors <= detected[k]
       /\ results[k].passed = (results[k].errors = 0)
  /\ pc = "join" => errors <= detected[Len(detected)]
  /\ running => verdict = "none" /\ (total_errors = 0 <=> AllPassed)
  /\ verdict # "none" => (verdict = "passed" <=> AllPassed)
  /\ verdict = "passed" => Len(results) = Len(steps)
  /\ pc = "start" /\ stop_on_error => total_errors = 0

-----------------------------------------------------------------------------
(* Types.                                                                  *)

LEMMA StepsTyped ==
  ASSUME TypeInv
  PROVE  /\ steps \in Seq(TestStep) /\ Len(steps) \in Nat /\ DOMAIN steps = Indices
         /\ \A k \in Indices : steps[k].duration \in 0..MaxDuration
         /\ MaxDuration \in Nat /\ MaxFound \in Nat
<1>1. steps \in Seq(TestStep) BY SchedulerAssumption DEF TypeInv
<1>2. MaxDuration \in Nat /\ MaxFound \in Nat BY SchedulerAssumption
<1>3. Len(steps) \in Nat /\ DOMAIN steps = Indices BY <1>1 DEF Indices
<1>4. \A k \in Indices : steps[k] \in TestStep BY <1>1, <1>3
<1> QED BY <1>1, <1>2, <1>3, <1>4 DEF TestStep

LEMMA InitType == Init => TypeInv
<1> SUFFICES ASSUME Init PROVE TypeInv OBVIOUS
<1>1. MaxDuration \in Nat /\ MaxFound \in Nat BY SchedulerAssumption
<1>2. engine \in Counts BY <1>1 DEF Init, Counts, Idle
<1>3. /\ todo = <<>> /\ active = <<>> /\ results = <<>> /\ detected = <<>>
      /\ total_errors = 0 /\ errors = 0 /\ current_step = 0 /\ verdict = "none" /\ pc = "idle"
      /\ caller = "stop" /\ steps \in Schedules
  BY DEF Init
<1>4. running \in BOOLEAN /\ stop_on_error \in BOOLEAN BY Zenon DEF Init
<1> QED BY <1>1, <1>2, <1>3, <1>4 DEF TypeInv

\* What an engine can be, and what its start makes of it.
Count == [running: BOOLEAN, thread: {"none", "live", "exited"}, found: 0..MaxFound,
          shown: 0..MaxFound, limit: 0..MaxDuration]

LEMMA StartTyped ==
  ASSUME TypeInv, NEW e \in Engines, NEW s \in Count, NEW duration \in 0..MaxDuration
  PROVE  StartEngine(e, s, duration) \in Count
<1>1. MaxDuration \in Nat /\ MaxFound \in Nat BY StepsTyped
<1> DEFINE limit == IF e \in {"cpu", "gpu"} THEN duration ELSE 0
<1>2. limit \in 0..MaxDuration BY <1>1
<1> HIDE DEF limit
<1>3. Idle \in Count BY <1>1 DEF Idle, Count
<1>4. Fresh(s, limit) \in Count BY <1>2, <1>3 DEF Fresh, Count
<1> QED BY <1>4 DEF StartEngine, limit

\* The engines of the steps that are active, or still to be stopped, are steps.
LEMMA Heads ==
  ASSUME TypeInv, OrderInv
  PROVE  /\ pc = "start" => NextIndex \in Indices
         /\ todo # <<>> => Head(todo) \in Indices
<1>1. pc = "start" => NextIndex \in Indices
  BY StepsTyped DEF TypeInv, OrderInv, NextIndex, Indices
<1>2. todo \in Seq(Indices) BY DEF TypeInv
<1> QED BY <1>1, <1>2

LEMMA EnginesTyped ==
  ASSUME TypeInv, OrderInv, BooksInv, [Next]_vars PROVE engine' \in Counts
<1>0. Counts = [Engines -> Count] /\ engine \in [Engines -> Count]
  BY DEF Counts, Count, TypeInv
<1>a. MaxDuration \in Nat /\ MaxFound \in Nat BY StepsTyped
<1>1. CASE StartStep
  <2> DEFINE k == NextIndex  e == steps[k].engine
             s == StartEngine(e, engine[e], steps[k].duration)
  <2>1. CASE engine' = engine BY <1>0, <2>1
  <2>2. CASE engine' # engine
    <3>1. engine' = [engine EXCEPT ![e] = s] /\ e \in Engines BY <1>1, <2>2 DEF StartStep
    <3>2. k \in Indices BY <1>1, Heads DEF StartStep
    <3>3. s \in Count BY <1>0, <3>1, <3>2, StartTyped, StepsTyped
    <3> HIDE DEF s, e
    <3> QED BY <1>0, <3>1, <3>3
  <2> QED BY <2>1, <2>2
<1>2. CASE ReadAndStop
  <2> DEFINE e == steps[Head(todo)].engine
  <2>1. e \in Engines /\ engine' = [engine EXCEPT ![e] = TellToStop(e)]
    BY <1>2 DEF ReadAndStop, Known
  <2> HIDE DEF e
  <2>2. TellToStop(e) \in Count BY <1>0, <2>1 DEF TellToStop, Count
  <2> QED BY <1>0, <2>1, <2>2
<1>3. CASE Join
  <2> DEFINE e == steps[Head(todo)].engine
             s == [engine[e] EXCEPT !.thread = "none"]
  <2>1. e \in Engines /\ engine' = [engine EXCEPT ![e] = s]
    BY <1>3 DEF Join, Known, OrderInv
  <2> HIDE DEF e
  <2>2. s \in Count BY <1>0, <2>1 DEF Count
  <2> HIDE DEF s
  <2> QED BY <1>0, <2>1, <2>2
<1>4. CASE EngineStep
  <2>1. CASE Publish
    <3> DEFINE s == [engine["cpu"] EXCEPT !.shown = engine["cpu"].found]
    <3>1. engine' = [engine EXCEPT !["cpu"] = s] /\ "cpu" \in Engines BY <2>1 DEF Publish, Engines
    <3>2. s \in Count BY <1>0, <3>1 DEF Count
    <3> HIDE DEF s
    <3> QED BY <1>0, <3>1, <3>2
  <2>2. ASSUME NEW e \in Engines, Detect(e) PROVE engine' \in Counts
    <3> DEFINE s == [engine[e] EXCEPT !.found = @ + 1, !.shown = IF e = "cpu" THEN @ ELSE @ + 1]
    <3>1. engine' = [engine EXCEPT ![e] = s] BY <2>2 DEF Detect
    <3>2. s \in Count
      <4>1. engine[e] \in Count /\ engine[e].found < MaxFound BY <1>0, <2>2 DEF Detect
      <4> DEFINE f == engine[e].found + 1
                 h == IF e = "cpu" THEN engine[e].shown ELSE engine[e].shown + 1
      <4>2. engine[e].found \in Nat /\ engine[e].shown \in 0..MaxFound BY <1>a, <4>1 DEF Count
      <4>3. engine[e].shown <= engine[e].found BY DEF BooksInv
      <4>4. f \in 0..MaxFound /\ h \in 0..MaxFound BY <1>a, <4>1, <4>2, <4>3
      <4>5. s = [engine[e] EXCEPT !.found = f, !.shown = h] OBVIOUS
      <4> HIDE DEF f, h, s
      <4> QED BY <4>1, <4>4, <4>5 DEF Count
    <3> HIDE DEF s
    <3> QED BY <1>0, <3>1, <3>2
  <2>3. ASSUME NEW e \in Engines, EndByItself(e) PROVE engine' \in Counts
    <3> DEFINE s == [engine[e] EXCEPT !.running = FALSE,
                                      !.thread = IF e = "cpu" THEN "live" ELSE "exited"]
    <3>1. engine' = [engine EXCEPT ![e] = s] BY <2>3 DEF EndByItself
    <3>2. s \in Count BY <1>0 DEF Count
    <3> HIDE DEF s
    <3> QED BY <1>0, <3>1, <3>2
  <2>4. ASSUME NEW e \in Engines, Exit(e) PROVE engine' \in Counts
    <3> DEFINE s == [engine[e] EXCEPT !.thread = "exited"]
    <3>1. engine' = [engine EXCEPT ![e] = s] BY <2>4 DEF Exit
    <3>2. s \in Count BY <1>0 DEF Count
    <3> HIDE DEF s
    <3> QED BY <1>0, <3>1, <3>2
  <2> QED BY <1>4, <2>1, <2>2, <2>3, <2>4 DEF EngineStep
<1>5. ASSUME ~StartStep, ~ReadAndStop, ~Join, ~EngineStep PROVE engine' = engine
  BY <1>5 DEF Next, Scheduler, User, Tick, SkipStopped, EndStop, EndTick, Start, Stop, Load,
          TimePasses, Stopping, BeginGroup, Complete, vars
<1> QED BY <1>0, <1>1, <1>2, <1>3, <1>4, <1>5

LEMMA RecordTyped ==
  ASSUME TypeInv, NEW k \in Indices, NEW n \in 0..MaxFound, Record(k, n), steps' = steps
  PROVE  /\ results' \in Seq(Results') /\ total_errors' \in Nat
         /\ todo # <<>> => todo' \in Seq(Indices')
<1>1. Results' = Results /\ Indices' = Indices BY DEF Results, Indices
<1>2. [index |-> k, errors |-> n, passed |-> n = 0] \in Results BY DEF Results
<1>3. total_errors' \in Nat BY StepsTyped DEF Record, TypeInv
<1> QED BY <1>1, <1>2, <1>3 DEF Record, TypeInv

LEMMA WitnessTyped ==
  ASSUME TypeInv, NEW k, Witness(k) PROVE detected' \in Seq(0..MaxFound)
<1> DEFINE n == IF Known(k) THEN EngineOf(k).found ELSE 0
<1>1. n \in 0..MaxFound BY StepsTyped DEF Known, EngineOf, TypeInv, Counts
<1>2. detected' = Append(detected, n) BY DEF Witness
<1> HIDE DEF n
<1> QED BY <1>1, <1>2 DEF TypeInv

LEMMA TypeKept ==
  ASSUME TypeInv, OrderInv, BooksInv, [Next]_vars PROVE TypeInv'
<1>0. engine' \in Counts BY EnginesTyped
<1>a. MaxDuration \in Nat /\ MaxFound \in Nat BY StepsTyped
<1>b. steps' = steps => Results' = Results /\ Indices' = Indices BY DEF Results, Indices
<1> USE DEF setup, control
<1>1. CASE UNCHANGED vars BY <1>0, <1>1, <1>b DEF vars, TypeInv
<1>2. CASE StartStep
  <2>1. NextIndex \in Indices /\ current_step' = NextIndex BY <1>2, Heads DEF StartStep
  <2>2. active' \in Seq(Indices) /\ current_step' \in Nat
    BY <1>2, <2>1 DEF StartStep, TypeInv, Indices
  <2>3. pc' \in {"idle", "start", "terminated"} BY <1>2 DEF StartStep
  <2> QED BY <1>0, <1>2, <1>b, <2>2, <2>3 DEF StartStep, TypeInv
<1>3. CASE Tick \/ Stop
  BY <1>0, <1>3, <1>b DEF Tick, Stop, Stopping, ToStop, TypeInv
<1>4. CASE SkipStopped
  <2> DEFINE k == Head(todo)
  <2>1. k \in Indices /\ Record(k, 0) /\ Witness(k) /\ todo # <<>> BY <1>4, Heads DEF SkipStopped
  <2>2. /\ results' \in Seq(Results') /\ total_errors' \in Nat /\ todo' \in Seq(Indices')
        /\ detected' \in Seq(0..MaxFound)
    BY <1>4, <1>a, <2>1, RecordTyped, WitnessTyped DEF SkipStopped
  <2> QED BY <1>0, <1>4, <1>b, <2>2 DEF SkipStopped, TypeInv
<1>5. CASE ReadAndStop
  <2> DEFINE k == Head(todo)
  <2>1. Witness(k) /\ Known(k) /\ errors' = EngineOf(k).shown BY <1>5 DEF ReadAndStop
  <2>2. errors' \in 0..MaxFound BY <2>1 DEF TypeInv, Counts, Known, EngineOf
  <2>3. detected' \in Seq(0..MaxFound) BY <2>1, WitnessTyped
  <2> QED BY <1>0, <1>5, <1>b, <2>2, <2>3 DEF ReadAndStop, TypeInv
<1>6. CASE Join
  <2> DEFINE k == Head(todo)
  <2>1. k \in Indices /\ Record(k, errors) /\ todo # <<>> BY <1>6, Heads DEF Join, OrderInv
  <2>2. errors \in 0..MaxFound BY DEF TypeInv
  <2>3. results' \in Seq(Results') /\ total_errors' \in Nat /\ todo' \in Seq(Indices')
    BY <1>6, <2>1, <2>2, RecordTyped DEF Join
  <2> QED BY <1>0, <1>6, <1>a, <1>b, <2>3 DEF Join, TypeInv
<1>7. CASE EndStop BY <1>0, <1>7, <1>b DEF EndStop, TypeInv
<1>8. CASE EndTick
  <2>1. /\ pc' \in {"idle", "start"} /\ active' = <<>> /\ verdict' \in {"passed", "failed", verdict}
        /\ running' \in {FALSE, running}
    BY <1>8 DEF EndTick, Complete, BeginGroup
  <2>2. running' \in BOOLEAN BY <2>1 DEF TypeInv
  <2> QED BY <1>0, <1>8, <1>b, <2>1, <2>2 DEF EndTick, TypeInv
<1>9. CASE Start
  BY <1>0, <1>9, <1>b DEF Start, Reset, BeginGroup, TypeInv
<1>10. ASSUME NEW s \in Schedules, Load(s) PROVE TypeInv'
  <2>1. todo = <<>> /\ active = <<>> BY <1>10 DEF Load, OrderInv, Stops
  <2> QED BY <1>0, <1>10, <2>1 DEF Load, TypeInv
<1>11. CASE EngineStep BY <1>0, <1>11, <1>b DEF EngineStep, Only, TypeInv
<1>12. CASE TimePasses BY <1>0, <1>12, <1>b DEF TimePasses, Only, TypeInv
<1> HIDE DEF setup, control
<1> QED BY <1>1, <1>2, <1>3, <1>4, <1>5, <1>6, <1>7, <1>8, <1>9, <1>10, <1>11, <1>12
        DEF Next, Scheduler, User

-----------------------------------------------------------------------------
(* Where the scheduler is.                                                 *)

\* One more result, and one step less to stop.
LEMMA Recorded ==
  ASSUME TypeInv, todo # <<>>, NEW k, NEW n \in 0..MaxFound, Record(k, n)
  PROVE  /\ Len(results) \in Nat /\ Len(todo) \in Nat \ {0}
         /\ Len(results') = Len(results) + 1 /\ Len(todo') = Len(todo) - 1
         /\ DOMAIN todo' = 1..(Len(todo) - 1) /\ DOMAIN todo = 1..Len(todo)
         /\ \A i \in DOMAIN todo' : todo'[i] = todo[i + 1]
         /\ DOMAIN results' = 1..(Len(results) + 1) /\ DOMAIN results = 1..Len(results)
         /\ \A j \in DOMAIN results : results'[j] = results[j]
         /\ results'[Len(results) + 1] = [index |-> k, errors |-> n, passed |-> n = 0]
<1>1. todo \in Seq(Indices) /\ results \in Seq(Results) BY DEF TypeInv
<1>2. todo' = Tail(todo) BY DEF Record
<1>3. /\ Len(todo) \in Nat \ {0} /\ Len(todo') = Len(todo) - 1
      /\ DOMAIN todo' = 1..(Len(todo) - 1) /\ DOMAIN todo = 1..Len(todo)
      /\ \A i \in DOMAIN todo' : todo'[i] = todo[i + 1]
  BY <1>1, <1>2
<1> DEFINE r == [index |-> k, errors |-> n, passed |-> n = 0]
<1>4. results' = Append(results, r) BY DEF Record
<1> HIDE DEF r
<1>5. /\ Len(results) \in Nat /\ Len(results') = Len(results) + 1
      /\ DOMAIN results' = 1..(Len(results) + 1) /\ DOMAIN results = 1..Len(results)
      /\ \A j \in DOMAIN results : results'[j] = results[j]
      /\ results'[Len(results) + 1] = r
  BY <1>1, <1>4
<1> QED BY <1>3, <1>5 DEF r

LEMMA InitOrder == Init => OrderInv
BY DEF Init, OrderInv, Stops

LEMMA OrderSame ==
  ASSUME OrderInv,
         UNCHANGED <<steps, pc, todo, current_step, running, active, results>>
  PROVE  OrderInv'
BY DEF OrderInv, Stops, Known

LEMMA OrderKept ==
  ASSUME TypeInv, OrderInv, [Next]_vars PROVE OrderInv'
<1> USE DEF setup, control
<1>a. /\ Len(steps) \in Nat /\ current_step \in Nat /\ running \in BOOLEAN
      /\ active \in Seq(Indices) /\ results \in Seq(Results) /\ Len(active) \in Nat
      /\ Len(results) \in Nat /\ DOMAIN active = 1..Len(active)
  <2>1. active \in Seq(Indices) /\ results \in Seq(Results) BY DEF TypeInv
  <2> QED BY <2>1, StepsTyped DEF TypeInv
<1>1. CASE UNCHANGED vars BY <1>1, OrderSame DEF vars
<1>2. CASE StartStep
  <2>1. /\ pc = "start" /\ running /\ todo = <<>> /\ current_step < Len(steps)
        /\ current_step = Len(results) + Len(active)
        /\ \A j \in DOMAIN active : active[j] = Len(results) + j
    BY <1>2 DEF StartStep, OrderInv, Stops
  <2>2. /\ UNCHANGED <<steps, todo, running, results>>
        /\ current_step' = current_step + 1 /\ active' = Append(active, current_step + 1)
        /\ pc' \in {"terminated", "idle", pc}
        /\ pc' = "start" => Chained(current_step + 1)
    BY <1>2 DEF StartStep, NextIndex
  <2>3. /\ active' # <<>> /\ Len(active') = Len(active) + 1 /\ DOMAIN active' = 1..(Len(active) + 1)
        /\ \A j \in DOMAIN active : active'[j] = active[j]
        /\ active'[Len(active) + 1] = current_step + 1
    BY <1>a, <2>2
  <2>4. \A j \in DOMAIN active' : active'[j] = Len(results) + j
    BY <1>a, <2>1, <2>3
  <2>5. pc' = "start" => current_step' < Len(steps) BY <2>2 DEF Chained
  <2> QED BY <1>a, <2>1, <2>2, <2>3, <2>4, <2>5 DEF OrderInv, Stops
<1>3. CASE Tick \/ Stop
  <2>1. /\ pc = "idle" /\ running /\ pc' = "look" /\ todo' = active
        /\ UNCHANGED <<steps, current_step, running, active, results>>
    BY <1>3 DEF Tick, Stop, Stopping, ToStop
  <2> QED BY <2>1 DEF OrderInv, Stops
<1>4. ASSUME SkipStopped \/ Join PROVE OrderInv'
  <2>0. 0 \in 0..MaxFound /\ errors \in 0..MaxFound BY StepsTyped DEF TypeInv
  <2>1. PICK n \in 0..MaxFound : Record(Head(todo), n)
    <3>1. Record(Head(todo), 0) \/ Record(Head(todo), errors) BY <1>4 DEF SkipStopped, Join
    <3> QED BY <2>0, <3>1
  <2>2. /\ pc \in {"look", "join"} /\ pc' = "look" /\ todo # <<>>
        /\ UNCHANGED <<steps, current_step, running, active>>
    BY <1>4 DEF SkipStopped, Join, OrderInv
  <2>3. /\ current_step = Len(results) + Len(todo)
        /\ \A i \in DOMAIN todo : todo[i] = Len(results) + i
        /\ running /\ current_step <= Len(steps)
    BY <2>2 DEF OrderInv, Stops
  <2>4. /\ Len(todo) \in Nat \ {0}
        /\ Len(results') = Len(results) + 1 /\ Len(todo') = Len(todo) - 1
        /\ DOMAIN todo' = 1..(Len(todo) - 1) /\ DOMAIN todo = 1..Len(todo)
        /\ \A i \in DOMAIN todo' : todo'[i] = todo[i + 1]
    BY <2>1, <2>2, Recorded
  <2>5. ASSUME NEW i \in DOMAIN todo' PROVE todo'[i] = Len(results') + i
    <3>1. i \in Int /\ i + 1 \in DOMAIN todo /\ todo'[i] = todo[i + 1] BY <2>4
    <3>2. todo[i + 1] = Len(results) + (i + 1) BY <2>3, <3>1
    <3> QED BY <1>a, <2>4, <3>1, <3>2
  <2>6. current_step' = Len(results') + Len(todo') BY <1>a, <2>2, <2>3, <2>4
  <2> QED BY <2>2, <2>3, <2>5, <2>6 DEF OrderInv, Stops
<1>5. CASE ReadAndStop
  <2>1. /\ pc = "look" /\ pc' = "join" /\ todo # <<>> /\ Known(Head(todo))
        /\ UNCHANGED <<steps, todo, current_step, running, active, results>>
    BY <1>5 DEF ReadAndStop
  <2> QED BY <2>1 DEF OrderInv, Stops, Known
<1>6. CASE EndStop
  <2>1. /\ todo = <<>> /\ todo' = <<>> /\ pc' = "idle" /\ ~running' /\ active' = <<>>
    BY <1>6 DEF EndStop
  <2> QED BY <2>1 DEF OrderInv, Stops
<1>7. CASE EndTick
  <2>1. /\ pc = "look" /\ todo = <<>> /\ todo' = <<>> /\ active' = <<>>
        /\ UNCHANGED <<steps, results, current_step>>
        /\ \/ pc' = "idle" /\ ~running'
           \/ pc' = "start" /\ running' = running /\ ~(current_step + 1 > Len(steps))
    BY <1>7 DEF EndTick, Complete, BeginGroup, NextIndex
  <2>2. running /\ current_step = Len(results) + Len(todo) /\ Len(todo) = 0
    BY <2>1 DEF OrderInv, Stops
  <2>3. CASE pc' = "idle" /\ ~running' BY <2>1, <2>3 DEF OrderInv, Stops
  <2>4. CASE pc' = "start" /\ running' = running /\ ~(current_step + 1 > Len(steps))
    <3>1. current_step < Len(steps) /\ current_step = Len(results) BY <1>a, <2>2, <2>4
    <3>2. Len(active') = 0 /\ DOMAIN active' = {} BY <2>1
    <3> QED BY <1>a, <2>1, <2>2, <2>4, <3>1, <3>2 DEF OrderInv, Stops
  <2> QED BY <2>1, <2>3, <2>4
<1>8. CASE Start
  <2>1. /\ pc = "idle" /\ steps # <<>> /\ running' /\ results' = <<>> /\ current_step' = 0
        /\ pc' = "start" /\ active' = <<>> /\ UNCHANGED <<steps, todo>>
    BY <1>8 DEF Start, Reset, BeginGroup
  <2>2. todo' = <<>> BY <2>1 DEF OrderInv, Stops
  <2>3. Len(steps) > 0 BY <2>1, StepsTyped
  <2>4. Len(active') = 0 /\ DOMAIN active' = {} /\ Len(results') = 0 BY <2>1
  <2> QED BY <2>1, <2>2, <2>3, <2>4 DEF OrderInv, Stops
<1>9. ASSUME NEW s \in Schedules, Load(s) PROVE OrderInv'
  BY <1>9 DEF Load, OrderInv, Stops
<1>10. CASE EngineStep BY <1>10, OrderSame DEF EngineStep, Only
<1>11. CASE TimePasses BY <1>11, OrderSame DEF TimePasses, Only
<1> HIDE DEF setup, control
<1> QED BY <1>1, <1>2, <1>3, <1>4, <1>5, <1>6, <1>7, <1>8, <1>9, <1>10, <1>11
        DEF Next, Scheduler, User

-----------------------------------------------------------------------------
(* Whose the engines are.                                                  *)

LEMMA InitOwners == Init => OwnersInv
BY DEF Init, OwnersInv, Stops, Idle

\* No engine begins to run by itself.
LEMMA EnginesOnlyEnd ==
  ASSUME TypeInv, EngineStep
  PROVE  \A e \in Engines : engine'[e].running => engine[e].running
<1>1. engine \in [Engines -> Count] BY DEF TypeInv, Counts, Count
<1>2. CASE Publish BY <1>1, <1>2 DEF Publish, Engines, Count
<1>3. ASSUME NEW e \in Engines, Detect(e) \/ EndByItself(e) \/ Exit(e)
      PROVE  \A f \in Engines : engine'[f].running => engine[f].running
  <2>1. CASE Detect(e) BY <1>1, <2>1 DEF Detect, Count
  <2>2. CASE EndByItself(e) BY <1>1, <2>2 DEF EndByItself, Count
  <2>3. CASE Exit(e) BY <1>1, <2>3 DEF Exit, Count
  <2> QED BY <1>3, <2>1, <2>2, <2>3
<1> QED BY <1>2, <1>3 DEF EngineStep

LEMMA OwnersKept ==
  ASSUME TypeInv, OrderInv, OwnersInv, [Next]_vars PROVE OwnersInv'
<1> USE DEF setup, control
<1>0. engine \in [Engines -> Count] BY DEF TypeInv, Counts, Count
<1>1. ASSUME UNCHANGED <<steps, pc, todo, active>>,
             \A e \in Engines : engine'[e].running => engine[e].running
      PROVE  OwnersInv'
  <2>1. pc' = "join" => ~EngineOf(Head(todo))'.running
    <3>1. pc = "join" => steps[Head(todo)].engine \in Engines BY DEF OrderInv, Known
    <3> QED BY <1>1, <3>1 DEF OwnersInv, EngineOf
  <2> QED BY <1>1, <2>1 DEF OwnersInv, Stops
<1>2. CASE UNCHANGED vars BY <1>1, <1>2 DEF vars
<1>3. CASE StartStep
  <2> DEFINE e == steps[NextIndex].engine
  <2>1. /\ active' = Append(active, NextIndex) /\ pc = "start" /\ pc' \notin {"look", "join"}
        /\ steps' = steps
    BY <1>3 DEF StartStep
  <2>2. \A f \in Engines : f = e \/ engine'[f] = engine[f]
    BY <1>0, <1>3 DEF StartStep
  <2>3. active \in Seq(Indices) BY DEF TypeInv
  <2>4. /\ DOMAIN active' = 1..(Len(active) + 1) /\ DOMAIN active = 1..Len(active) /\ Len(active) \in Nat
        /\ \A j \in DOMAIN active : active'[j] = active[j]
        /\ active'[Len(active) + 1] = NextIndex
    BY <2>1, <2>3
  <2>5. ASSUME NEW f \in Engines, engine'[f].running
        PROVE  \E j \in DOMAIN active' : steps[active'[j]].engine = f
    <3>1. CASE f = e
      <4>1. Len(active) + 1 \in DOMAIN active' BY <2>4
      <4> QED BY <2>4, <3>1, <4>1
    <3>2. CASE engine'[f] = engine[f]
      <4>1. PICK j \in DOMAIN active : steps[active[j]].engine = f
        BY <2>1, <2>5, <3>2 DEF OwnersInv
      <4>2. j \in DOMAIN active' BY <2>4
      <4> QED BY <2>4, <4>1, <4>2
    <3> QED BY <2>2, <3>1, <3>2
  <2> QED BY <2>1, <2>5 DEF OwnersInv, Stops
<1>4. CASE Tick \/ Stop
  <2>1. pc = "idle" /\ pc' = "look" /\ todo' = active /\ UNCHANGED <<steps, engine>>
    BY <1>4 DEF Tick, Stop, Stopping, ToStop
  <2> QED BY <2>1 DEF OwnersInv, Stops
<1>5. ASSUME SkipStopped \/ Join PROVE OwnersInv'
  <2> DEFINE h == steps[Head(todo)].engine
  <2>0. 0 \in 0..MaxFound /\ errors \in 0..MaxFound BY StepsTyped DEF TypeInv
  <2>1. PICK n \in 0..MaxFound : Record(Head(todo), n)
    <3>1. Record(Head(todo), 0) \/ Record(Head(todo), errors) BY <1>5 DEF SkipStopped, Join
    <3> QED BY <2>0, <3>1
  <2>2. pc \in {"look", "join"} /\ pc' = "look" /\ todo # <<>> /\ steps' = steps
    BY <1>5 DEF SkipStopped, Join, OrderInv
  <2>3. h \in Engines => ~engine[h].running
    BY <1>5 DEF SkipStopped, Join, OwnersInv, Known, EngineOf
  <2>4. \A f \in Engines : engine'[f].running => engine[f].running
    <3>1. CASE SkipStopped BY <3>1 DEF SkipStopped
    <3>2. CASE Join
      <4>1. h \in Engines BY <3>2 DEF Join, OrderInv, Known
      <4>2. engine' = [engine EXCEPT ![h].thread = "none"] BY <3>2 DEF Join
      <4> HIDE DEF h
      <4> QED BY <1>0, <4>1, <4>2 DEF Count
    <3> QED BY <1>5, <3>1, <3>2
  <2>5. /\ Len(todo) \in Nat \ {0}
        /\ DOMAIN todo' = 1..(Len(todo) - 1) /\ DOMAIN todo = 1..Len(todo)
        /\ \A i \in DOMAIN todo' : todo'[i] = todo[i + 1]
    BY <2>1, <2>2, Recorded
  <2>6. ASSUME NEW f \in Engines, engine'[f].running
        PROVE  \E i \in DOMAIN todo' : steps[todo'[i]].engine = f
    <3>1. engine[f].running /\ f # h BY <2>3, <2>4, <2>6
    <3>2. PICK i \in DOMAIN todo : steps[todo[i]].engine = f
      BY <2>2, <3>1 DEF OwnersInv, Stops
    <3>3. i # 1
      <4>1. todo \in Seq(Indices) BY DEF TypeInv
      <4>2. Head(todo) = todo[1] BY <2>2, <4>1
      <4> QED BY <3>1, <3>2, <4>2
    <3>4. i - 1 \in DOMAIN todo' /\ (i - 1) + 1 = i BY <2>5, <3>3
    <3> QED BY <2>5, <3>2, <3>4
  <2> QED BY <2>2, <2>6 DEF OwnersInv, Stops
<1>6. CASE ReadAndStop
  <2> DEFINE h == steps[Head(todo)].engine
  <2>1. /\ h \in Engines /\ engine' = [engine EXCEPT ![h] = TellToStop(h)]
        /\ pc = "look" /\ pc' = "join" /\ UNCHANGED <<steps, todo>>
    BY <1>6 DEF ReadAndStop, Known
  <2> HIDE DEF h
  <2>2. TellToStop(h).running = FALSE BY <1>0, <2>1 DEF TellToStop, Count
  <2>3. ~engine'[h].running /\ \A f \in Engines : engine'[f].running => engine[f].running
    BY <1>0, <2>1, <2>2
  <2>4. ~EngineOf(Head(todo))'.running BY <2>1, <2>3 DEF EngineOf, h
  <2> QED BY <2>1, <2>3, <2>4 DEF OwnersInv, Stops
<1>7. ASSUME EndStop \/ EndTick PROVE OwnersInv'
  <2>1. /\ pc = "look" /\ todo = <<>> /\ pc' \in {"idle", "start"} /\ engine' = engine
    BY <1>7 DEF EndStop, EndTick, Complete, BeginGroup
  <2>2. \A f \in Engines : ~engine[f].running BY <2>1 DEF OwnersInv, Stops
  <2> QED BY <2>1, <2>2 DEF OwnersInv, Stops
<1>8. ASSUME Start \/ \E s \in Schedules : Load(s) PROVE OwnersInv'
  <2>1. /\ pc = "idle" /\ ~running /\ pc' \in {"idle", "start"} /\ engine' = engine
    BY <1>8 DEF Start, Load, BeginGroup
  <2>2. \A f \in Engines : ~engine[f].running BY <2>1 DEF OwnersInv, OrderInv
  <2> QED BY <2>1, <2>2 DEF OwnersInv, Stops
<1>9. CASE EngineStep BY <1>1, <1>9, EnginesOnlyEnd DEF EngineStep, Only
<1>10. CASE TimePasses BY <1>1, <1>10 DEF TimePasses, Only
<1> HIDE DEF setup, control
<1> QED BY <1>2, <1>3, <1>4, <1>5, <1>6, <1>7, <1>8, <1>9, <1>10
        DEF Next, Scheduler, User

-----------------------------------------------------------------------------
(* The books.                                                              *)

LEMMA InitBooks == Init => BooksInv
<1> SUFFICES ASSUME Init PROVE BooksInv OBVIOUS
<1>1. \A e \in Engines : engine[e].shown <= engine[e].found BY DEF Init, Idle
<1>2. /\ Len(results) = 0 /\ Len(detected) = 0 /\ DOMAIN results = {} /\ pc = "idle"
      /\ ~running /\ verdict = "none" /\ total_errors = 0
  BY DEF Init
<1> QED BY <1>1, <1>2 DEF BooksInv

\* No engine shows what it has not found.
LEMMA ShownFound ==
  ASSUME TypeInv, OrderInv, BooksInv, [Next]_vars
  PROVE  \A f \in Engines : engine'[f].shown <= engine'[f].found
<1>0. engine \in [Engines -> Count] BY DEF TypeInv, Counts, Count
<1>a. \A f \in Engines : /\ engine[f].shown \in Nat /\ engine[f].found \in Nat
                         /\ engine[f].shown <= engine[f].found
  BY <1>0, StepsTyped DEF Count, BooksInv
<1>1. CASE StartStep
  <2> DEFINE e == steps[NextIndex].engine
             s == StartEngine(e, engine[e], steps[NextIndex].duration)
  <2>1. engine' = engine \/ (e \in Engines /\ engine' = [engine EXCEPT ![e] = s])
    BY <1>1 DEF StartStep
  <2>2. e \in Engines => s.shown <= s.found
    <3>1. \A limit : Fresh(engine[e], limit).shown = 0 /\ Fresh(engine[e], limit).found = 0
      BY DEF Fresh, Idle
    <3> HIDE DEF e
    <3>2. ASSUME e \in Engines PROVE s = engine[e] \/ \E limit : s = Fresh(engine[e], limit)
      BY DEF StartEngine
    <3> HIDE DEF s
    <3> QED BY <1>a, <3>1, <3>2
  <2> HIDE DEF e, s
  <2> QED BY <1>0, <1>a, <2>1, <2>2
<1>2. CASE ReadAndStop
  <2> DEFINE h == steps[Head(todo)].engine
  <2>1. h \in Engines /\ engine' = [engine EXCEPT ![h] = TellToStop(h)]
    BY <1>2 DEF ReadAndStop, Known
  <2> HIDE DEF h
  <2>2. TellToStop(h).shown = engine[h].shown /\ TellToStop(h).found = engine[h].found
    BY <1>0, <2>1 DEF TellToStop, Count
  <2> QED BY <1>0, <1>a, <2>1, <2>2
<1>3. CASE Join
  <2> DEFINE h == steps[Head(todo)].engine
  <2>1. h \in Engines /\ engine' = [engine EXCEPT ![h].thread = "none"]
    BY <1>3 DEF Join, OrderInv, Known
  <2> HIDE DEF h
  <2> QED BY <1>0, <1>a, <2>1 DEF Count
<1>4. CASE EngineStep
  <2>1. CASE Publish
    <3>1. engine' = [engine EXCEPT !["cpu"].shown = engine["cpu"].found] BY <2>1 DEF Publish
    <3> QED BY <1>0, <1>a, <3>1 DEF Count
  <2>2. ASSUME NEW e \in Engines, Detect(e)
        PROVE  \A f \in Engines : engine'[f].shown <= engine'[f].found
    <3> DEFINE s == [engine[e] EXCEPT !.found = @ + 1, !.shown = IF e = "cpu" THEN @ ELSE @ + 1]
    <3>1. engine' = [engine EXCEPT ![e] = s] BY <2>2 DEF Detect
    <3>2. /\ s.found = engine[e].found + 1
          /\ s.shown = IF e = "cpu" THEN engine[e].shown ELSE engine[e].shown + 1
      BY <1>0 DEF Count
    <3>3. s.shown <= s.found BY <1>a, <3>2
    <3> HIDE DEF s
    <3> QED BY <1>0, <1>a, <3>1, <3>3
  <2>3. ASSUME NEW e \in Engines, EndByItself(e) \/ Exit(e)
        PROVE  \A f \in Engines : engine'[f].shown <= engine'[f].found
    <3>1. CASE EndByItself(e)
      BY <1>0, <1>a, <3>1 DEF EndByItself, Count
    <3>2. CASE Exit(e)
      BY <1>0, <1>a, <3>2 DEF Exit, Count
    <3> QED BY <2>3, <3>1, <3>2
  <2> QED BY <1>4, <2>1, <2>2, <2>3 DEF EngineStep
<1>5. ASSUME ~StartStep, ~ReadAndStop, ~Join, ~EngineStep PROVE engine' = engine
  BY <1>5 DEF Next, Scheduler, User, Tick, SkipStopped, EndStop, EndTick, Start, Stop, Load,
          TimePasses, Stopping, BeginGroup, Complete, vars
<1> QED BY <1>a, <1>1, <1>2, <1>3, <1>4, <1>5

\* What a result adds to the books.
LEMMA RecordBooks ==
  ASSUME TypeInv, OrderInv, BooksInv, Stops, todo # <<>>,
         NEW n \in 0..MaxFound, Record(Head(todo), n),
         detected' \in Seq(0..MaxFound), Len(detected') = Len(results) + 1,
         \A j \in DOMAIN results : detected'[j] = detected[j],
         n <= detected'[Len(results) + 1]
  PROVE  /\ Len(detected') = Len(results')
         /\ \A k \in DOMAIN results' :
              /\ results'[k].index = k /\ results'[k].errors <= detected'[k]
              /\ results'[k].passed = (results'[k].errors = 0)
         /\ total_errors' = 0 <=> AllPassed'
<1> DEFINE N == Len(results)
           r == [index |-> Head(todo), errors |-> n, passed |-> n = 0]
<1>1. Head(todo) = N + 1
  <2>1. todo \in Seq(Indices) BY DEF TypeInv
  <2>2. Head(todo) = todo[1] /\ 1 \in DOMAIN todo BY <2>1
  <2> QED BY <2>2 DEF OrderInv
<1>2. /\ N \in Nat /\ Len(results') = N + 1 /\ DOMAIN results' = 1..(N + 1)
      /\ DOMAIN results = 1..N /\ \A j \in DOMAIN results : results'[j] = results[j]
      /\ results'[N + 1] = r
  BY Recorded
<1>3. r.index = N + 1 /\ r.errors = n /\ r.passed = (n = 0) BY <1>1
<1> HIDE DEF N, r
<1>4. ASSUME NEW k \in DOMAIN results'
      PROVE  /\ results'[k].index = k /\ results'[k].errors <= detected'[k]
             /\ results'[k].passed = (results'[k].errors = 0)
  <2>1. CASE k = N + 1 BY <1>2, <1>3, <2>1 DEF N
  <2>2. CASE k # N + 1
    <3>1. k \in DOMAIN results BY <1>2, <2>2
    <3> QED BY <1>2, <3>1 DEF BooksInv
  <2> QED BY <2>1, <2>2
<1>5. AllPassed' <=> AllPassed /\ n = 0
  <2>1. ASSUME AllPassed' PROVE AllPassed /\ n = 0
    <3>1. \A k \in DOMAIN results : k \in DOMAIN results' BY <1>2
    <3>2. N + 1 \in DOMAIN results' BY <1>2
    <3> QED BY <1>2, <1>3, <2>1, <3>1, <3>2 DEF AllPassed
  <2>2. ASSUME AllPassed, n = 0 PROVE AllPassed'
    <3>1. ASSUME NEW k \in DOMAIN results' PROVE results'[k].passed
      <4>1. CASE k = N + 1 BY <1>2, <1>3, <2>2, <4>1
      <4>2. CASE k # N + 1
        <5>1. k \in DOMAIN results BY <1>2, <4>2
        <5> QED BY <1>2, <2>2, <5>1 DEF AllPassed
      <4> QED BY <4>1, <4>2
    <3> QED BY <3>1 DEF AllPassed
  <2> QED BY <2>1, <2>2
<1>6. total_errors' = 0 <=> total_errors = 0 /\ n = 0
  <2>1. total_errors' = total_errors + n /\ total_errors \in Nat /\ n \in Nat
    BY StepsTyped DEF Record, TypeInv
  <2> QED BY <2>1
<1>7. total_errors = 0 <=> AllPassed BY DEF BooksInv, OrderInv, Stops
<1> QED BY <1>2, <1>4, <1>5, <1>6, <1>7 DEF N

LEMMA BooksKept ==
  ASSUME TypeInv, OrderInv, BooksInv, [Next]_vars PROVE BooksInv'
<1> USE DEF setup, control
<1>0. \A f \in Engines : engine'[f].shown <= engine'[f].found BY ShownFound
<1>a. /\ results \in Seq(Results) /\ detected \in Seq(0..MaxFound)
      /\ Len(results) \in Nat /\ Len(detected) \in Nat
  <2>1. results \in Seq(Results) /\ detected \in Seq(0..MaxFound) BY DEF TypeInv
  <2> QED BY <2>1
<1>1. ASSUME UNCHANGED <<steps, stop_on_error, results, detected, total_errors, verdict, running>>,
             pc' = "join" <=> pc = "join", pc = "join" => errors' = errors,
             pc' = "start" => pc = "start" \/ ~stop_on_error \/ total_errors = 0
      PROVE  BooksInv'
  BY <1>0, <1>1 DEF BooksInv, AllPassed
<1>2. CASE UNCHANGED vars BY <1>1, <1>2 DEF vars
<1>3. CASE StartStep BY <1>1, <1>3 DEF StartStep
<1>4. CASE Tick \/ Stop BY <1>1, <1>4 DEF Tick, Stop, Stopping
<1>5. CASE SkipStopped
  <2> DEFINE n == IF Known(Head(todo)) THEN EngineOf(Head(todo)).found ELSE 0
  <2>1. /\ pc = "look" /\ pc' = "look" /\ todo # <<>> /\ Record(Head(todo), 0)
        /\ detected' = Append(detected, n)
        /\ UNCHANGED <<steps, stop_on_error, running, verdict>>
    BY <1>5 DEF SkipStopped, Witness
  <2>2. n \in 0..MaxFound /\ 0 \in 0..MaxFound /\ n \in Nat
    BY StepsTyped DEF Known, EngineOf, TypeInv, Counts
  <2> HIDE DEF n
  <2>3. Len(detected) = Len(results) BY <2>1 DEF BooksInv
  <2>4. /\ detected' \in Seq(0..MaxFound) /\ Len(detected') = Len(results) + 1
        /\ \A j \in DOMAIN results : detected'[j] = detected[j]
        /\ detected'[Len(results) + 1] = n
    BY <1>a, <2>1, <2>2, <2>3
  <2>5. 0 <= n BY <2>2
  <2>6. Stops BY <2>1 DEF Stops
  <2>7. /\ Len(detected') = Len(results')
        /\ \A k \in DOMAIN results' :
             /\ results'[k].index = k /\ results'[k].errors <= detected'[k]
             /\ results'[k].passed = (results'[k].errors = 0)
        /\ total_errors' = 0 <=> AllPassed'
    BY <2>1, <2>2, <2>4, <2>5, <2>6, RecordBooks
  <2>8. verdict = "none" /\ running BY <2>1 DEF BooksInv, OrderInv
  <2>9. Len(results') \in Nat
    BY <2>1, <2>2, Recorded
  <2> QED BY <1>0, <2>1, <2>7, <2>8, <2>9 DEF BooksInv
<1>6. CASE ReadAndStop
  <2> DEFINE h == Head(todo)
             n == EngineOf(h).found
  <2>1. /\ pc = "look" /\ pc' = "join" /\ Known(h) /\ errors' = EngineOf(h).shown
        /\ detected' = Append(detected, n)
        /\ UNCHANGED <<steps, stop_on_error, running, verdict, results, total_errors>>
    BY <1>6 DEF ReadAndStop, Witness
  <2>2. EngineOf(h).shown <= n BY <2>1 DEF BooksInv, Known, EngineOf
  <2>3. Len(detected) = Len(results) /\ DOMAIN results = 1..Len(results)
    BY <1>a, <2>1 DEF BooksInv
  <2>4. n \in 0..MaxFound BY <2>1, StepsTyped DEF Known, EngineOf, TypeInv, Counts
  <2> HIDE DEF n
  <2>5. /\ Len(detected') = Len(results) + 1
        /\ \A j \in DOMAIN results : detected'[j] = detected[j]
        /\ detected'[Len(detected')] = n
    BY <1>a, <2>1, <2>3, <2>4
  <2>6. \A k \in DOMAIN results :
             /\ results[k].index = k /\ results[k].errors <= detected'[k]
             /\ results[k].passed = (results[k].errors = 0)
    BY <2>5 DEF BooksInv
  <2>7. errors' <= detected'[Len(detected')] BY <2>1, <2>2, <2>5
  <2>8. /\ running => verdict = "none" /\ (total_errors = 0 <=> AllPassed)
        /\ verdict # "none" => (verdict = "passed" <=> AllPassed)
        /\ verdict = "passed" => Len(results) = Len(steps)
    BY DEF BooksInv
  <2>9. AllPassed' = AllPassed BY <2>1 DEF AllPassed
  <2> QED BY <1>0, <1>a, <2>1, <2>5, <2>6, <2>7, <2>8, <2>9 DEF BooksInv
<1>7. CASE Join
  <2>1. /\ pc = "join" /\ pc' = "look" /\ todo # <<>> /\ Record(Head(todo), errors)
        /\ UNCHANGED <<steps, stop_on_error, running, verdict, detected>>
    BY <1>7 DEF Join, OrderInv
  <2>2. errors \in 0..MaxFound BY DEF TypeInv
  <2>3. Len(detected) = Len(results) + 1 /\ errors <= detected[Len(detected)]
    BY <2>1 DEF BooksInv
  <2>4. Stops BY <2>1 DEF Stops
  <2>5. /\ Len(detected') = Len(results')
        /\ \A k \in DOMAIN results' :
             /\ results'[k].index = k /\ results'[k].errors <= detected'[k]
             /\ results'[k].passed = (results'[k].errors = 0)
        /\ total_errors' = 0 <=> AllPassed'
    BY <1>a, <2>1, <2>2, <2>3, <2>4, RecordBooks
  <2>6. verdict = "none" /\ running BY <2>1 DEF BooksInv, OrderInv
  <2>7. Len(results') \in Nat BY <2>1, <2>2, Recorded
  <2> QED BY <1>0, <2>1, <2>5, <2>6, <2>7 DEF BooksInv
<1>8. CASE EndStop
  <2>1. /\ pc = "look" /\ pc' = "idle" /\ ~running'
        /\ UNCHANGED <<steps, results, detected, verdict>>
    BY <1>8 DEF EndStop
  <2> QED BY <1>0, <2>1 DEF BooksInv, AllPassed
<1>9. CASE EndTick
  <2>1. /\ pc = "look" /\ todo = <<>> /\ UNCHANGED <<steps, stop_on_error, results, detected, total_errors>>
    BY <1>9 DEF EndTick
  <2>2. /\ running /\ verdict = "none" /\ (total_errors = 0 <=> AllPassed)
        /\ current_step = Len(results) + Len(todo) /\ current_step <= Len(steps)
    BY <2>1 DEF BooksInv, OrderInv, Stops
  <2>3. current_step = Len(results) BY <1>a, <2>1, <2>2
  <2>4. \/ pc' = "idle" /\ ~running' /\ total_errors > 0 /\ verdict' = "failed"
        \/ /\ pc' = "idle" /\ ~running' /\ current_step + 1 > Len(steps)
           /\ verdict' = IF total_errors = 0 THEN "passed" ELSE "failed"
        \/ /\ pc' = "start" /\ UNCHANGED <<running, verdict>>
           /\ ~(stop_on_error /\ total_errors > 0)
    BY <1>9 DEF EndTick, Complete, BeginGroup, NextIndex, GivesUp
  <2>5. current_step + 1 > Len(steps) => Len(results) = Len(steps)
    BY <1>a, <2>2, <2>3, StepsTyped
  <2>6. total_errors \in Nat BY DEF TypeInv
  <2>7. total_errors > 0 <=> ~AllPassed BY <2>2, <2>6
  <2>8. AllPassed' = AllPassed BY <2>1 DEF AllPassed
  <2>9. CASE pc' = "start"
    <3>1. UNCHANGED <<running, verdict>> /\ (stop_on_error => total_errors = 0)
      BY <2>4, <2>6, <2>9
    <3> QED BY <1>0, <2>1, <2>2, <2>8, <2>9, <3>1 DEF BooksInv
  <2>10. CASE pc' = "idle"
    <3>1. /\ ~running' /\ verdict' \in {"passed", "failed"}
          /\ verdict' = "passed" <=> AllPassed
          /\ verdict' = "passed" => Len(results) = Len(steps)
      BY <2>2, <2>4, <2>5, <2>7, <2>10
    <3> QED BY <1>0, <2>1, <2>8, <2>10, <3>1 DEF BooksInv
  <2> QED BY <2>4, <2>9, <2>10
<1>10. CASE Start
  <2>1. /\ results' = <<>> /\ detected' = <<>> /\ total_errors' = 0 /\ verdict' = "none"
        /\ pc' = "start"
    BY <1>10 DEF Start, Reset, BeginGroup
  <2>2. Len(results') = 0 /\ Len(detected') = 0 /\ DOMAIN results' = {} BY <2>1
  <2>3. AllPassed' BY <2>2 DEF AllPassed
  <2> QED BY <1>0, <2>1, <2>2, <2>3 DEF BooksInv
<1>11. ASSUME NEW s \in Schedules, Load(s) PROVE BooksInv'
  <2>1. /\ results' = <<>> /\ detected' = <<>> /\ verdict' = "none"
        /\ pc' = "idle" /\ ~running'
    BY <1>11 DEF Load
  <2>2. Len(results') = 0 /\ Len(detected') = 0 /\ DOMAIN results' = {} BY <2>1
  <2> QED BY <1>0, <2>1, <2>2 DEF BooksInv
<1>12. CASE EngineStep BY <1>1, <1>12 DEF EngineStep, Only
<1>13. CASE TimePasses BY <1>1, <1>13 DEF TimePasses, Only
<1> HIDE DEF setup, control
<1> QED BY <1>2, <1>3, <1>4, <1>5, <1>6, <1>7, <1>8, <1>9, <1>10, <1>11, <1>12, <1>13
        DEF Next, Scheduler, User

-----------------------------------------------------------------------------
(* The theorems.                                                           *)

SchedulerInv == TypeInv /\ OrderInv /\ OwnersInv /\ BooksInv

LEMMA SchedulerInvariant == Spec => []SchedulerInv
<1>1. Init => SchedulerInv BY InitType, InitOrder, InitOwners, InitBooks DEF SchedulerInv
<1>2. SchedulerInv /\ [Next]_vars => SchedulerInv'
  BY TypeKept, OrderKept, OwnersKept, BooksKept DEF SchedulerInv
<1> QED BY <1>1, <1>2, PTL DEF Spec

\* Every variable of the scheduler stays in its range, and every index it keeps is one of a
\* step of the schedule that is loaded.
THEOREM TypeCorrect == Spec => []TypeOK
<1>1. SchedulerInv => TypeOK
  <2> SUFFICES ASSUME SchedulerInv PROVE TypeOK OBVIOUS
  <2>1. TypeInv BY DEF SchedulerInv
  <2>2. /\ todo \in Seq(Indices) /\ active \in Seq(Indices) /\ results \in Seq(Results)
        /\ DOMAIN steps = Indices
    BY <2>1, StepsTyped DEF TypeInv
  <2>3. \A j \in DOMAIN results : results[j].index \in DOMAIN steps
    <3>1. \A j \in DOMAIN results : results[j] \in Results BY <2>2
    <3> QED BY <2>2, <3>1 DEF Results
  <2>4. /\ \A j \in DOMAIN todo : todo[j] \in DOMAIN steps
        /\ \A j \in DOMAIN active : active[j] \in DOMAIN steps
    BY <2>2
  <2> QED BY <2>1, <2>3, <2>4 DEF TypeInv, TypeOK
<1> QED BY <1>1, SchedulerInvariant, PTL

\* stopCurrentEngines() stops all that advanceToNextStep() started: between two events of
\* the GUI thread an engine runs only for a step of the active group, whatever engines a
\* group names, twice or unknown, and however they end.
THEOREM OnlyActiveRunHolds == Spec => []OnlyActiveRun
<1>1. SchedulerInv => OnlyActiveRun BY DEF SchedulerInv, OwnersInv, OnlyActiveRun
<1> QED BY <1>1, SchedulerInvariant, PTL

\* One result per step, in the order of the schedule, with no error its engine had not found
\* in that step; scheduleCompleted() says what they say, and says passed only when every
\* step has its result.
THEOREM ResultsSoundHolds == Spec => []ResultsSound
<1>1. SchedulerInv => ResultsSound BY DEF SchedulerInv, BooksInv, AllPassed, ResultsSound
<1> QED BY <1>1, SchedulerInvariant, PTL

\* With stop_on_error, onTick() starts no further step once an error of the run is counted.
THEOREM StopOnErrorStopsHolds == Spec => StopOnErrorStops
<1>1. ASSUME SchedulerInv, [Next]_vars, running, stop_on_error, total_errors > 0
      PROVE  ToSet(active') \subseteq ToSet(active)
  <2> USE DEF setup, control
  <2>1. ~StartStep
    <3>1. total_errors \in Nat /\ (pc = "start" /\ stop_on_error => total_errors = 0)
      BY <1>1 DEF SchedulerInv, BooksInv, TypeInv
    <3>2. pc # "start" BY <1>1, <3>1
    <3> QED BY <3>2 DEF StartStep
  <2>2. active' = active \/ active' = <<>>
    BY <1>1, <2>1 DEF Next, Scheduler, User, Tick, SkipStopped, ReadAndStop, Join, EndStop, EndTick,
          Start, Stop, Load, EngineStep, Only, TimePasses, Stopping, BeginGroup, Complete, vars
  <2>3. ToSet(<<>>) = {} BY DEF ToSet
  <2> QED BY <2>2, <2>3
<1> QED BY <1>1, SchedulerInvariant, PTL DEF Spec, StopOnErrorStops
=============================================================================
