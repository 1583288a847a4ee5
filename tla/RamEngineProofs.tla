-------------------------- MODULE RamEngineProofs --------------------------
(***************************************************************************)
(* Proofs about RamEngine, whatever the size of the buffer and the width   *)
(* of a word: its types, that a sound memory is never blamed, that a       *)
(* complete pass finds the faults its pattern is there for, and that the   *)
(* first error is the last where it should be.                             *)
(***************************************************************************)
EXTENDS RamEngine, SequenceTheorems, TLAPS

(***************************************************************************)
(* What every pattern has in common, and all that the proof uses of it: a  *)
(* sweep writes at most one value to a word, and expects either nothing or *)
(* what the sweep before it has written.                                   *)
(***************************************************************************)
Word == [Words -> Values]

SweepOK(w) ==
  /\ w.up \in BOOLEAN
  /\ w.expect \subseteq Word /\ w.write \subseteq Word
  /\ \A f, g \in w.write : f = g

Chained(S) ==
  /\ Len(S) \in Nat \ {0}
  /\ \A s \in 1..Len(S) : SweepOK(S[s])
  /\ S[1].expect = {}
  /\ \A s \in 1..(Len(S) - 1) : S[s + 1].expect \in {{}, S[s].write}

LEMMA SweepsAreOK ==
  ASSUME NEW f \in Word
  PROVE  /\ SweepOK(Writing(f)) /\ SweepOK(Reading(f))
         /\ Writing(f).expect = {} /\ Writing(f).write = {f}
         /\ Reading(f).expect = {f} /\ Reading(f).write = {}
BY DEF SweepOK, Writing, Reading, Sweep

LEMMA PairIsChained ==
  ASSUME NEW f \in Word
  PROVE  Chained(<<Writing(f), Reading(f)>>)
BY SweepsAreOK DEF Chained

\* A walking pattern reads bit b in its sweep 2b + 2.
LEMMA WalkingFacts ==
  ASSUME NEW value \in [Bits -> Values]
  PROVE  /\ Len(Walking(value)) = 2 * Width
         /\ \A b \in Bits : /\ 2 * b + 2 \in 1..(2 * Width)
                            /\ Walking(value)[2 * b + 2] = Reading(All(value[b]))
<1>. DEFINE W == Walking(value)
<1>1. Width \in Nat \ {0}
  BY RamAssumption
<1>2. DOMAIN W = 1..(2 * Width)
  BY DEF Walking
<1>3. Len(W) = 2 * Width
  <2>1. W \in Seq({W[s] : s \in 1..(2 * Width)})
    <3> HIDE DEF W
    <3> DEFINE R == {W[s] : s \in 1..(2 * Width)}
    <3>1. W = [s \in 1..(2 * Width) |-> W[s]]
      BY <1>2 DEF W, Walking
    <3>2. 2 * Width \in Nat
      BY <1>1
    <3>3. \A s \in 1..(2 * Width) : W[s] \in R
      OBVIOUS
    <3> QED BY <3>1, <3>2, <3>3, SeqDef
  <2>2. Len(W) \in Nat /\ DOMAIN W = 1..Len(W)
    BY <2>1, LenProperties
  <2> HIDE DEF W
  <2>3. \A n \in Nat : 1..n = 1..(2 * Width) => n = 2 * Width
    <3> SUFFICES ASSUME NEW n \in Nat, 1..n = 1..(2 * Width) PROVE n = 2 * Width
      OBVIOUS
    <3>1. 2 * Width \in 1..n
      BY <1>1
    <3>2. n \in 1..(2 * Width)
      BY <1>1, <3>1
    <3> QED BY <1>1, <3>1, <3>2
  <2> QED BY <2>2, <2>3, <1>2
<1>4. ASSUME NEW b \in Bits
      PROVE  2 * b + 2 \in 1..(2 * Width) /\ W[2 * b + 2] = Reading(All(value[b]))
  <2>. DEFINE t == 2 * b + 2
  <2>1. t \in 1..(2 * Width) /\ t % 2 # 1 /\ (t - 2) \div 2 = b
    BY <1>1 DEF Bits
  <2>. HIDE DEF t
  <2>2. W[t] = Reading(All(value[(t - 2) \div 2]))
    BY <2>1 DEF Walking
  <2>. HIDE DEF W
  <2>3. W[t] = Reading(All(value[b]))
    BY <2>1, <2>2
  <2>. QED
    BY <2>1, <2>3 DEF t
<1>. QED
  BY <1>3, <1>4

LEMMA WalkingIsChained ==
  ASSUME NEW value \in [Bits -> Values]
  PROVE  Chained(Walking(value))
<1> DEFINE W == Walking(value)
<1>1. Width \in Nat \ {0}
  BY RamAssumption
<1>2. \A s \in 1..(2 * Width) :
        /\ s % 2 = 1 => (s - 1) \div 2 \in Bits /\ (s + 1) % 2 # 1
                        /\ (s + 1 - 2) \div 2 = (s - 1) \div 2
        /\ s % 2 # 1 => (s - 2) \div 2 \in Bits /\ (s + 1) % 2 = 1
  BY <1>1 DEF Bits
<1>3. \A b \in Bits : All(value[b]) \in Word
  BY DEF All, Word
<1>5. \A s \in 1..(2 * Width) :
        /\ s % 2 = 1 => W[s] = Writing(All(value[(s - 1) \div 2]))
        /\ s % 2 # 1 => W[s] = Reading(All(value[(s - 2) \div 2]))
  BY DEF Walking
<1>6. \A s \in 1..(2 * Width) : SweepOK(W[s])
  <2> SUFFICES ASSUME NEW s \in 1..(2 * Width) PROVE SweepOK(W[s])
    OBVIOUS
  <2> HIDE DEF W
  <2>1. CASE s % 2 = 1
    BY <2>1, <1>2, <1>3, <1>5, SweepsAreOK
  <2>2. CASE s % 2 # 1
    BY <2>2, <1>2, <1>3, <1>5, SweepsAreOK
  <2> QED BY <2>1, <2>2
<1>7. Len(W) = 2 * Width
  BY WalkingFacts
<1>8. W[1].expect = {}
  <2> HIDE DEF W
  <2>1. 1 \in 1..(2 * Width) /\ 1 % 2 = 1
    BY <1>1
  <2> QED BY <2>1, <1>2, <1>3, <1>5, SweepsAreOK
<1>9. \A s \in 1..(2 * Width - 1) : W[s + 1].expect \in {{}, W[s].write}
  <2> SUFFICES ASSUME NEW s \in 1..(2 * Width - 1)
               PROVE  W[s + 1].expect \in {{}, W[s].write}
    OBVIOUS
  <2> HIDE DEF W
  <2>0. s \in 1..(2 * Width) /\ s + 1 \in 1..(2 * Width)
    BY <1>1
  <2>1. CASE s % 2 = 1
    <3>1. W[s] = Writing(All(value[(s - 1) \div 2]))
      BY <2>0, <2>1, <1>5
    <3>2. W[s + 1] = Reading(All(value[(s - 1) \div 2]))
      BY <2>0, <2>1, <1>2, <1>5
    <3>3. All(value[(s - 1) \div 2]) \in Word
      BY <2>0, <2>1, <1>2, <1>3
    <3> QED BY <3>1, <3>2, <3>3, SweepsAreOK
  <2>2. CASE s % 2 # 1
    <3>1. (s + 1) % 2 = 1
      BY <2>0, <2>2, <1>2
    <3>2. W[s + 1] = Writing(All(value[(s + 1 - 1) \div 2]))
      BY <2>0, <3>1, <1>5
    <3>3. All(value[(s + 1 - 1) \div 2]) \in Word
      BY <2>0, <3>1, <1>2, <1>3
    <3> QED BY <3>2, <3>3, SweepsAreOK
  <2> QED BY <2>1, <2>2
<1> HIDE DEF W
<1>10. Chained(W)
  BY <1>1, <1>6, <1>7, <1>8, <1>9 DEF Chained
<1> QED BY <1>10 DEF W

LEMMA SweepsAreChained ==
  ASSUME NEW p \in RamPattern, NEW words \in Word
  PROVE  Chained(SweepsOf(p, words))
<1>1. Zeros \in Word /\ Ones \in Word
  BY DEF Zeros, Ones, All, Word, Values
<1>2. CASE p = "MARCH_C_MINUS"
  <2> DEFINE S == march_c_minus
  <2>1. Len(S) = 6
    BY DEF march_c_minus
  <2>2. /\ S[1] = Writing(Zeros) /\ S[6] = Reading(Zeros)
        /\ S[2] = Sweep(TRUE, {Zeros}, {Ones}) /\ S[3] = Sweep(TRUE, {Ones}, {Zeros})
        /\ S[4] = Sweep(FALSE, {Zeros}, {Ones}) /\ S[5] = Sweep(FALSE, {Ones}, {Zeros})
    BY DEF march_c_minus
  <2> HIDE DEF S
  <2>3. \A s \in 1..6 : SweepOK(S[s])
    <3>1. \A up \in BOOLEAN, f, g \in Word : SweepOK(Sweep(up, {f}, {g}))
      BY DEF Sweep, SweepOK
    <3>2. SweepOK(S[1]) /\ SweepOK(S[6])
      BY <1>1, <2>2, SweepsAreOK
    <3>3. SweepOK(S[2]) /\ SweepOK(S[3]) /\ SweepOK(S[4]) /\ SweepOK(S[5])
      BY <1>1, <2>2, <3>1
    <3>4. \A s \in 1..6 : s \in {1, 2, 3, 4, 5, 6}
      OBVIOUS
    <3> QED BY <3>2, <3>3, <3>4
  <2>4. \A s \in 1..5 : S[s + 1].expect = S[s].write
    <3>1. /\ S[1].write = {Zeros} /\ S[2].write = {Ones} /\ S[3].write = {Zeros}
          /\ S[4].write = {Ones} /\ S[5].write = {Zeros}
      BY <2>2 DEF Writing, Sweep
    <3>2. /\ S[2].expect = {Zeros} /\ S[3].expect = {Ones} /\ S[4].expect = {Zeros}
          /\ S[5].expect = {Ones} /\ S[6].expect = {Zeros}
      BY <2>2 DEF Reading, Sweep
    <3>3. \A s \in 1..5 : s \in {1, 2, 3, 4, 5}
      OBVIOUS
    <3>4. /\ 1 + 1 = 2 /\ 2 + 1 = 3 /\ 3 + 1 = 4 /\ 4 + 1 = 5 /\ 5 + 1 = 6
      OBVIOUS
    <3> QED BY <3>1, <3>2, <3>3, <3>4
  <2>5. S[1].expect = {}
    BY <2>2 DEF Writing, Sweep
  <2>6. Chained(S)
    BY <2>1, <2>3, <2>4, <2>5 DEF Chained
  <2> QED BY <1>2, <2>6 DEF SweepsOf, S
<1>3. CASE p = "WALKING_ONES"
  <2>1. [b \in Bits |-> {b}] \in [Bits -> Values]
    BY DEF Values
  <2> QED BY <1>3, <2>1, WalkingIsChained DEF SweepsOf, walking_ones
<1>4. CASE p = "WALKING_ZEROS"
  <2>1. [b \in Bits |-> Bits \ {b}] \in [Bits -> Values]
    BY DEF Values
  <2> QED BY <1>4, <2>1, WalkingIsChained DEF SweepsOf, walking_zeros
<1>5. CASE p = "CHECKERBOARD"
  <2>1. Board(pat_a, pat_b) \in Word /\ Board(pat_b, pat_a) \in Word
    BY DEF Board, pat_a, pat_b, Word, Values
  <2> DEFINE S == checkerboard
  <2>2. Len(S) = 4
    BY DEF checkerboard
  <2>3. /\ S[1] = Writing(Board(pat_a, pat_b)) /\ S[2] = Reading(Board(pat_a, pat_b))
        /\ S[3] = Writing(Board(pat_b, pat_a)) /\ S[4] = Reading(Board(pat_b, pat_a))
    BY DEF checkerboard
  <2> HIDE DEF S
  <2>4. \A s \in 1..4 : SweepOK(S[s])
    BY <2>1, <2>3, SweepsAreOK
  <2>5. S[1].expect = {} /\ S[3].expect = {}
    BY <2>1, <2>3, SweepsAreOK
  <2>6. S[2].expect = S[1].write /\ S[4].expect = S[3].write
    BY <2>1, <2>3, SweepsAreOK
  <2>7. Chained(S)
    BY <2>2, <2>4, <2>5, <2>6 DEF Chained
  <2> QED BY <1>5, <2>7 DEF SweepsOf, S
<1>6. CASE p = "RANDOM"
  BY <1>6, PairIsChained DEF SweepsOf, random_pattern
<1>7. CASE p = "BANDWIDTH"
  <2>1. All(bw_pattern) \in Word
    BY DEF All, bw_pattern, pat_a, Word, Values
  <2> QED BY <1>7, <2>1, PairIsChained DEF SweepsOf, bandwidth_test
<1> QED BY <1>2, <1>3, <1>4, <1>5, <1>6, <1>7 DEF RamPattern
-----------------------------------------------------------------------------
(* The memory keeps its type, whatever is wrong with it.                   *)

LEMMA PutType ==
  ASSUME NEW m \in Word, NEW c \in Cells, NEW v
  PROVE  Put(m, c, v) \in Word
BY DEF Put, Word, Values, Cells

LEMMA HeldType ==
  ASSUME fault \in Faults, NEW m \in Word
  PROVE  Held(m) \in Word
<1>1. fault.at \in Cells
  BY RamAssumption DEF FaultOK
<1> QED BY <1>1, PutType DEF Held

LEMMA StoreType ==
  ASSUME fault \in Faults, NEW m \in Word, NEW i \in Words, NEW v \in Values
  PROVE  Store(m, i, v) \in Word
<1> DEFINE plain == [m EXCEPT ![i] = v]
<1>1. fault.at \in Cells
  BY RamAssumption DEF FaultOK
<1>2. plain \in Word
  BY DEF Word
<1> HIDE DEF plain
<1>3. \A w \in Values : Put(plain, fault.at, w) \in Word
  BY <1>1, <1>2, PutType
<1>4. /\ Put(plain, fault.at, 1 - fault.to) \in Word
      /\ Put(plain, fault.at, fault.to) \in Word
      /\ Put(plain, fault.at, 1 - Bit(plain, fault.at)) \in Word
  BY <1>1, <1>2, PutType
<1> QED BY <1>2, <1>4, HeldType DEF Store, plain

LEMMA SoundStore ==
  ASSUME fault.kind = "none", NEW m, NEW i, NEW v
  PROVE  Store(m, i, v) = [m EXCEPT ![i] = v]
BY DEF Store, Held

-----------------------------------------------------------------------------
(***************************************************************************)
(* The inductive invariant.  Busy: a worker that may still write holds     *)
(* running_, so that no start() can clear stop_requested_ under it, which  *)
(* would set a test going that has skipped a part of a sweep.  Matches:    *)
(* until it is stopped, a sweep finds what it expects in the words that it *)
(* has not been to, and has left what it writes in the others.             *)
(***************************************************************************)
Busy == worker \in {"allocate", "pass", "sweep"} => running

Ahead(i) == IF Sweeps[sweep].up THEN i >= visited ELSE i <= N - 1 - visited

Matches ==
  \A i \in Words :
    /\ Ahead(i) => \A f \in Sweeps[sweep].expect : memory[i] = f[i]
    /\ ~Ahead(i) => \A f \in Sweeps[sweep].write : memory[i] = f[i]

Quiet ==
  fault.kind = "none" =>
    /\ errors_found = 0
    /\ worker = "sweep" /\ ~stop_requested => Matches

IInv == TypeOK /\ Busy /\ Quiet

\* What the sweeps of the test in progress have in common.
LEMMA SweepFacts ==
  ASSUME TypeOK
  PROVE  Chained(Sweeps)
<1>1. pattern \in RamPattern /\ noise \in Word
  BY RamAssumption DEF TypeOK, Word
<1> QED BY <1>1, SweepsAreChained DEF Sweeps

LEMMA NextWord ==
  ASSUME TypeOK, worker = "sweep", visited < N
  PROVE  Next_i \in Words
<1>1. SweepOK(Sweeps[sweep])
  BY SweepFacts DEF TypeOK, Chained
<1> QED BY <1>1, RamAssumption DEF Next_i, Words, TypeOK, SweepOK

LEMMA InitIInv == Init => IInv
<1> SUFFICES ASSUME Init PROVE IInv
  OBVIOUS
<1>1. memory \in Word
  <2>1. [i \in Words |-> {}] \in Word
    BY DEF Word, Values
  <2> QED BY <2>1, HeldType DEF Init, Mapped
<1>2. N \in Nat /\ MaxStarts \in Nat
  BY RamAssumption
<1>3. TypeOK
  <2>1. {running, stop_requested, stop_on_error, stopping, terminated} \subseteq BOOLEAN
    BY DEF Init
  <2>2. /\ worker = "none" /\ pattern \in Patterns /\ passes \in Nat \ {0}
        /\ noise \in Noises /\ fault \in Faults /\ errors_found \in Nat
    BY DEF Init
  <2>3. visited \in 0..N /\ starts \in 0..MaxStarts
    BY <1>2 DEF Init
  <2> QED BY <1>1, <2>1, <2>2, <2>3 DEF TypeOK, Word
<1> QED BY <1>3 DEF IInv, Busy, Quiet, Init

-----------------------------------------------------------------------------
(* The sweeps of a test do not change under it.                            *)

LEMMA SameSweeps ==
  ASSUME UNCHANGED <<pattern, noise>>
  PROVE  Sweeps' = Sweeps
BY DEF Sweeps, SweepsOf, march_c_minus, walking_ones, walking_zeros, checkerboard,
       random_pattern, bandwidth_test

LEMMA SameMatches ==
  ASSUME UNCHANGED <<pattern, noise, sweep, visited, memory>>
  PROVE  Matches' = Matches
BY SameSweeps DEF Matches, Ahead

LEMMA TypePreserved == IInv /\ [Next]_vars => TypeOK'
<1> SUFFICES ASSUME IInv, [Next]_vars PROVE TypeOK'
  OBVIOUS
<1> USE DEF IInv, TypeOK
<1>1. CASE AllocationFails
  BY <1>1, SameSweeps DEF AllocationFails, test, clients
<1>2. CASE Allocate
  <2>1. memory' \in Word
    <3>1. [i \in Words |-> {}] \in Word
      BY DEF Word, Values
    <3> QED BY <3>1, <1>2, HeldType DEF Allocate, Mapped
  <2> QED BY <1>2, <2>1, SameSweeps DEF Allocate, test, clients, Word
<1>3. CASE BeginPass
  <2>1. noise' \in Noises /\ pattern' \in RamPattern /\ noise' \in Word
    BY <1>3, RamAssumption DEF BeginPass, test, Word
  <2>2. Chained(Sweeps')
    BY <2>1, SweepsAreChained DEF Sweeps
  <2>3. 1 \in 1..Len(Sweeps')
    BY <2>2 DEF Chained
  <2> QED BY <1>3, <2>1, <2>3, RamAssumption DEF BeginPass, test, clients
<1>4. CASE Visit
  <2>1. Next_i \in Words
    BY <1>4, NextWord DEF Visit
  <2>2. memory' \in Word
    <3>1. CASE memory' = memory
      BY <3>1 DEF Word
    <3>2. ASSUME NEW f \in Sweeps[sweep].write, memory' = Store(memory, Next_i, f[Next_i])
          PROVE  memory' \in Word
      <4>1. f \in Word
        BY <1>4, SweepFacts DEF Visit, Chained, SweepOK
      <4> QED BY <2>1, <3>2, <4>1, StoreType DEF Word
    <3> QED BY <1>4, <3>1, <3>2 DEF Visit
  <2>3. errors_found' \in Nat /\ stop_requested' \in BOOLEAN
    BY <1>4 DEF Visit, report_error
  <2> QED BY <1>4, <2>2, <2>3, SameSweeps, RamAssumption DEF Visit, test, clients, Word
<1>5. CASE NextSweep
  BY <1>5, SameSweeps, SweepFacts, RamAssumption DEF NextSweep, test, clients, Chained
<1>6. CASE EndPass
  BY <1>6, SameSweeps DEF EndPass, test, clients
<1>7. CASE EndRun
  BY <1>7 DEF EndRun, ClearRunning, test, clients
<1>8. CASE Stop
  BY <1>8, SameSweeps DEF Stop, test
<1>9. CASE EndStop
  BY <1>9 DEF EndStop, test
<1>10. ASSUME NEW p \in Patterns, NEW n \in 1..MaxPasses, Start(p, n)
       PROVE  TypeOK'
  <2>1. n \in Nat \ {0} /\ starts + 1 \in 0..MaxStarts
    BY <1>10, RamAssumption DEF Start
  <2>2. worker' # "sweep" /\ worker' # "pass"
    BY <1>10 DEF Start, Busy
  <2> QED BY <1>10, <2>1, <2>2 DEF Start, ResetErrors
<1>11. CASE UNCHANGED vars
  BY <1>11, SameSweeps DEF vars, test, clients
<1> QED BY <1>1, <1>2, <1>3, <1>4, <1>5, <1>6, <1>7, <1>8, <1>9, <1>10, <1>11
        DEF Next, Worker
-----------------------------------------------------------------------------
LEMMA BusyPreserved == IInv /\ [Next]_vars => Busy'
<1> SUFFICES ASSUME IInv, [Next]_vars PROVE Busy'
  OBVIOUS
<1> USE DEF IInv, Busy
<1>1. CASE Worker
  BY <1>1 DEF Worker, AllocationFails, Allocate, BeginPass, Visit, NextSweep, EndPass,
              EndRun, ClearRunning
<1>2. CASE Stop \/ EndStop
  BY <1>2 DEF Stop, EndStop
<1>3. ASSUME NEW p \in Patterns, NEW n \in 1..MaxPasses, Start(p, n)
      PROVE  Busy'
  BY <1>3 DEF Start
<1>4. CASE UNCHANGED vars
  BY <1>4 DEF vars
<1> QED BY <1>1, <1>2, <1>3, <1>4 DEF Next

\* The word a sweep comes to is the first of those ahead of it.
LEMMA AheadOfVisit ==
  ASSUME IInv, Visit, NEW i \in Words
  PROVE  /\ Ahead(Next_i)
         /\ ~Ahead(i)' <=> ~Ahead(i) \/ i = Next_i
<1>1. Sweeps[sweep].up \in BOOLEAN
  BY SweepFacts DEF IInv, TypeOK, Visit, Chained, SweepOK
<1>2. Sweeps' = Sweeps /\ sweep' = sweep /\ visited' = visited + 1
  BY SameSweeps DEF Visit, test
<1>3. N \in Nat /\ visited \in Nat /\ i \in Nat
  BY RamAssumption DEF IInv, TypeOK, Words
<1>4. CASE Sweeps[sweep].up
  BY <1>2, <1>3, <1>4 DEF Ahead, Next_i
<1>5. CASE ~Sweeps[sweep].up
  BY <1>2, <1>3, <1>5 DEF Ahead, Next_i
<1> QED BY <1>4, <1>5

\* In a sound memory a visit finds what it expects, and leaves what it writes.
LEMMA QuietVisit ==
  ASSUME IInv, Visit, fault.kind = "none"
  PROVE  UNCHANGED <<errors_found, stop_requested>> /\ Matches'
<1>1. Next_i \in Words /\ Ahead(Next_i) /\ Matches
  BY NextWord, AheadOfVisit DEF IInv, Visit, Quiet
<1>2. UNCHANGED <<errors_found, stop_requested>>
  BY <1>1 DEF Visit, Mismatch, Matches
<1>3. Sweeps' = Sweeps /\ sweep' = sweep
  BY SameSweeps DEF Visit, test
<1>4. memory \in Word
  BY DEF IInv, TypeOK, Word
<1>5. SweepOK(Sweeps[sweep])
  BY SweepFacts DEF IInv, TypeOK, Visit, Chained
<1>6. ASSUME NEW i \in Words, NEW f \in Sweeps[sweep].expect, Ahead(i)'
      PROVE  memory'[i] = f[i]
  <2>1. Ahead(i) /\ i # Next_i
    BY <1>6, AheadOfVisit
  <2>2. memory'[i] = memory[i]
    <3>1. ASSUME NEW g, memory' = Store(memory, Next_i, g[Next_i])
          PROVE  memory'[i] = memory[i]
      BY <1>4, <2>1, <3>1, SoundStore DEF Word
    <3> QED BY <3>1 DEF Visit
  <2> QED BY <1>1, <2>1, <2>2 DEF Matches
<1>7. ASSUME NEW i \in Words, NEW f \in Sweeps[sweep].write, ~Ahead(i)'
      PROVE  memory'[i] = f[i]
  <2>1. PICK g \in Sweeps[sweep].write : memory' = Store(memory, Next_i, g[Next_i])
    BY <1>7 DEF Visit
  <2>2. g = f
    BY <1>5, <1>7 DEF SweepOK
  <2>3. memory' = [memory EXCEPT ![Next_i] = f[Next_i]]
    BY <2>1, <2>2, SoundStore
  <2>4. CASE i = Next_i
    BY <1>4, <2>3, <2>4 DEF Word
  <2>5. CASE i # Next_i
    <3>1. ~Ahead(i)
      BY <1>7, <2>5, AheadOfVisit
    <3>2. memory[i] = f[i]
      BY <1>1, <1>7, <3>1 DEF Matches
    <3> QED BY <1>4, <2>3, <2>5, <3>2 DEF Word
  <2> QED BY <2>4, <2>5
<1> QED BY <1>2, <1>3, <1>6, <1>7 DEF Matches

\* A sweep that is complete has left what the next one expects.
LEMMA QuietNextSweep ==
  ASSUME IInv, NextSweep, fault.kind = "none"
  PROVE  Matches'
<1>1. Sweeps' = Sweeps /\ sweep' = sweep + 1 /\ visited' = 0 /\ memory' = memory
  BY SameSweeps DEF NextSweep, test
<1>2. /\ sweep \in 1..(Len(Sweeps) - 1) /\ Len(Sweeps) \in Nat
      /\ SweepOK(Sweeps[sweep]) /\ SweepOK(Sweeps[sweep + 1])
      /\ Sweeps[sweep + 1].expect \in {{}, Sweeps[sweep].write}
  BY SweepFacts DEF IInv, TypeOK, NextSweep, Chained
<1>3. N \in Nat /\ \A i \in Words : i \in Nat /\ i < N /\ i >= 0
  BY RamAssumption DEF Words
<1>4. \A i \in Words : ~Ahead(i)
  BY <1>2, <1>3 DEF NextSweep, Ahead, SweepOK
<1>5. \A i \in Words : Ahead(i)'
  BY <1>1, <1>2, <1>3 DEF Ahead, SweepOK
<1>6. Matches
  BY DEF IInv, Quiet, NextSweep
<1> QED BY <1>1, <1>2, <1>4, <1>5, <1>6 DEF Matches

LEMMA QuietPreserved == IInv /\ [Next]_vars => Quiet'
<1> SUFFICES ASSUME IInv, [Next]_vars, fault'.kind = "none"
             PROVE  errors_found' = 0 /\ (worker' = "sweep" /\ ~stop_requested' => Matches')
  BY DEF Quiet
<1>1. TypeOK' /\ fault' = fault
  BY TypePreserved DEF Next, Worker, AllocationFails, Allocate, BeginPass, Visit,
       NextSweep, EndPass, EndRun, Stop, EndStop, Start, test, vars
<1>2. fault.kind = "none" /\ errors_found = 0
  BY <1>1 DEF IInv, Quiet
<1>3. CASE AllocationFails \/ Allocate \/ EndPass \/ EndRun \/ EndStop
  BY <1>2, <1>3 DEF AllocationFails, Allocate, EndPass, EndRun, EndStop
<1>4. CASE BeginPass
  <2>1. errors_found' = 0 /\ sweep' = 1 /\ visited' = 0
    BY <1>2, <1>4 DEF BeginPass
  <2>2. pattern' \in RamPattern /\ noise' \in Word
    BY <1>1, RamAssumption DEF TypeOK, Word
  <2>3. Chained(Sweeps')
    BY <2>2, SweepsAreChained DEF Sweeps
  <2>4. /\ Sweeps'[1].expect = {} /\ SweepOK(Sweeps'[1])
    BY <2>3 DEF Chained
  <2>5. \A i \in Words : Ahead(i)'
    BY <2>1, <2>4, RamAssumption DEF Ahead, SweepOK, Words
  <2> QED BY <2>1, <2>4, <2>5 DEF Matches
<1>5. CASE Visit
  BY <1>2, <1>5, QuietVisit
<1>6. CASE NextSweep
  BY <1>2, <1>6, QuietNextSweep DEF NextSweep
<1>7. CASE Stop
  BY <1>2, <1>7 DEF Stop
<1>8. ASSUME NEW p \in Patterns, NEW n \in 1..MaxPasses, Start(p, n)
      PROVE  errors_found' = 0 /\ worker' # "sweep"
  BY <1>8 DEF Start, ResetErrors, IInv, Busy
<1>9. CASE UNCHANGED vars
  BY <1>2, <1>9, SameMatches DEF vars, test, IInv, Quiet
<1> QED BY <1>3, <1>4, <1>5, <1>6, <1>7, <1>8, <1>9 DEF Next, Worker

LEMMA IInvAlways == Spec => []IInv
<1>1. IInv /\ [Next]_vars => IInv'
  BY TypePreserved, BusyPreserved, QuietPreserved DEF IInv
<1> QED BY InitIInv, <1>1, PTL DEF Spec

-----------------------------------------------------------------------------
(***************************************************************************)
(* Why a pattern finds a fault.  All cells but the faulty one hold what    *)
(* was written to them (OthersMatch), and a cell that is stuck or held is  *)
(* where its fault has it (HeldCell).  For the faults that need an event,  *)
(* March C- is followed from the event to the sweep that reads the cell    *)
(* (TransitionInv, CouplingInv, InversionInv).  So when the sweep that     *)
(* Tells comes to the cell, what it reads is wrong, and once it has been   *)
(* there an error is counted (FoundInv).                                   *)
(***************************************************************************)
Victim == fault.at[1]
Aggressor == fault.by[1]
VictimDone == ~Ahead(Victim)
AggressorDone == ~Ahead(Aggressor)

\* What a word holds: what this sweep has written to it, or expects of it.
Holds(i) ==
  IF Ahead(i) \/ Sweeps[sweep].write = {} THEN Sweeps[sweep].expect ELSE Sweeps[sweep].write

OthersMatch ==
  \A c \in Cells : c # fault.at =>
    \A f \in Holds(c[1]) : Bit(memory, c) = Bit(f, c)

HeldCell(m) ==
  /\ fault.kind = "stuck" => Bit(m, fault.at) = fault.to
  /\ fault.kind = "state" /\ Bit(m, fault.by) = fault.on => Bit(m, fault.at) = fault.to

\* March C-: the value that sweep s writes, 6 being the one that only reads; it expects
\* that of the sweep before it.
Puts(s) == IF s \in {2, 4} THEN 1 ELSE 0

\* Sweep s comes to the aggressor first.
AggressorFirst(s) ==
  IF Sweeps[s].up THEN Aggressor < Victim ELSE Aggressor > Victim

\* The sweep that first writes the value which a transition then never leaves.
Settled == 2 - fault.to

TransitionInv ==
  fault.kind = "transition" /\ (sweep > Settled \/ (sweep = Settled /\ VictimDone)) =>
    Bit(memory, fault.at) = 1 - fault.to

\* The aggressor has changed to `on` since the victim was written.
CouplingInv ==
  fault.kind = "coupling" =>
    /\ sweep \in 2..5 /\ Puts(sweep) = fault.on /\ AggressorDone
         /\ (AggressorFirst(sweep) => ~VictimDone) => Bit(memory, fault.at) = fault.to
    /\ sweep \in 3..6 /\ Puts(sweep - 1) = fault.on /\ ~AggressorFirst(sweep - 1)
         /\ ~VictimDone => Bit(memory, fault.at) = fault.to

\* The ascending sweep in which the aggressor changes to `on`.
Inverts == 3 - fault.on

InversionInv ==
  fault.kind = "inversion" =>
    /\ sweep = Inverts - 1 /\ Aggressor < Victim /\ VictimDone =>
         Bit(memory, fault.at) = 1 - fault.on
    /\ sweep = Inverts /\ Aggressor < Victim /\ ~VictimDone =>
         Bit(memory, fault.at) = IF AggressorDone THEN fault.on ELSE 1 - fault.on
    /\ sweep = Inverts /\ Aggressor > Victim /\ VictimDone =>
         Bit(memory, fault.at) = IF AggressorDone THEN 1 - fault.on ELSE fault.on
    /\ sweep = Inverts + 1 /\ Aggressor > Victim /\ ~VictimDone =>
         Bit(memory, fault.at) = 1 - fault.on

MarchInv ==
  pattern = "MARCH_C_MINUS" =>
    TransitionInv /\ (Aggressor # Victim => CouplingInv /\ InversionInv)

\* Sweep s expects of the faulty cell what it cannot find there.
TellsStuck(s) ==
  fault.kind = "stuck" /\ \E f \in Sweeps[s].expect : Bit(f, fault.at) # fault.to

TellsState(s) ==
  /\ fault.kind = "state" /\ Aggressor # Victim
  /\ \E f \in Sweeps[s].expect : Bit(f, fault.at) # fault.to
  /\ \E g \in IF AggressorFirst(s) /\ Sweeps[s].write # {} THEN Sweeps[s].write
              ELSE Sweeps[s].expect : Bit(g, fault.by) = fault.on

TellsTransition(s) ==
  fault.kind = "transition" /\ s \in 2..6 /\ s > Settled /\ Puts(s - 1) = fault.to

TellsCoupling(s) ==
  /\ fault.kind = "coupling" /\ Aggressor # Victim
  /\ \/ s \in 2..5 /\ Puts(s) = fault.on /\ AggressorFirst(s) /\ fault.to = fault.on
     \/ s \in 3..6 /\ Puts(s - 1) = fault.on /\ ~AggressorFirst(s - 1) /\ fault.to # fault.on

TellsInversion(s) ==
  /\ fault.kind = "inversion" /\ Aggressor # Victim
  /\ s = IF Aggressor < Victim THEN Inverts ELSE Inverts + 1

Tells(s) ==
  \/ TellsStuck(s) \/ TellsState(s)
  \/ /\ pattern = "MARCH_C_MINUS"
     /\ TellsTransition(s) \/ TellsCoupling(s) \/ TellsInversion(s)

Passed(s) == s < sweep \/ (s = sweep /\ VictimDone)

FoundInv == \A s \in 1..Len(Sweeps) : Passed(s) /\ Tells(s) => errors_found > 0

FaultInv ==
  /\ HeldCell(memory)
  /\ worker = "sweep" => OthersMatch /\ MarchInv /\ FoundInv

\* The two cells of the fault.
LEMMA FaultFacts ==
  ASSUME fault \in Faults
  PROVE  /\ fault.at \in Cells /\ fault.by \in Cells
         /\ fault.on \in {0, 1} /\ fault.to \in {0, 1}
         /\ Victim \in Words /\ Aggressor \in Words
<1>1. fault.at \in Cells /\ fault.by \in Cells /\ fault.on \in {0, 1} /\ fault.to \in {0, 1}
  BY RamAssumption DEF FaultOK
<1>. QED
  BY <1>1 DEF Victim, Aggressor, Cells

LEMMA BitRange ==
  ASSUME NEW m, NEW c
  PROVE  Bit(m, c) \in {0, 1}
BY DEF Bit

\* What is stored in a word is what all its cells hold.
LEMMA PlainBit ==
  ASSUME NEW m \in Word, NEW i \in Words, NEW f \in Word, NEW c \in Cells
  PROVE  Bit([m EXCEPT ![i] = f[i]], c) = IF c[1] = i THEN Bit(f, c) ELSE Bit(m, c)
<1>1. c[1] \in Words
  BY DEF Cells
<1>2. [m EXCEPT ![i] = f[i]][c[1]] = IF c[1] = i THEN f[i] ELSE m[c[1]]
  BY <1>1 DEF Word
<1>. QED
  BY <1>2 DEF Bit

LEMMA PutBit ==
  ASSUME NEW m \in Word, NEW c \in Cells, NEW d \in Cells, NEW v \in {0, 1}
  PROVE  Bit(Put(m, c, v), d) = IF d = c THEN v ELSE Bit(m, d)
<1>1. /\ c[1] \in Words /\ c[2] \in Bits /\ d[1] \in Words /\ d[2] \in Bits
      /\ c = <<c[1], c[2]>> /\ d = <<d[1], d[2]>>
  BY DEF Cells
<1>. DEFINE w == IF v = 1 THEN m[c[1]] \cup {c[2]} ELSE m[c[1]] \ {c[2]}
<1>2. Put(m, c, v) = [m EXCEPT ![c[1]] = w]
  BY DEF Put
<1>3. Put(m, c, v)[d[1]] = IF d[1] = c[1] THEN w ELSE m[d[1]]
  BY <1>1, <1>2 DEF Word
<1>4. CASE d[1] # c[1]
  BY <1>1, <1>3, <1>4 DEF Bit
<1>5. CASE d[1] = c[1]
  <2>1. d = c <=> d[2] = c[2]
    BY <1>1, <1>5
  <2>2. Put(m, c, v)[d[1]] = w
    BY <1>3, <1>5
  <2>3. d[2] \in w <=> IF d[2] = c[2] THEN v = 1 ELSE d[2] \in m[d[1]]
    BY <1>5
  <2>. QED
    BY <2>1, <2>2, <2>3 DEF Bit
<1>. QED
  BY <1>4, <1>5

\* A fault holds no other cell than its own, and that one where it should be.
LEMMA HeldBit ==
  ASSUME fault \in Faults, NEW m \in Word
  PROVE  /\ \A c \in Cells : c # fault.at => Bit(Held(m), c) = Bit(m, c)
         /\ HeldCell(Held(m))
         /\ fault.kind \notin {"stuck", "state"} => Held(m) = m
<1>1. Held(m) \in {m, Put(m, fault.at, fault.to)}
  BY DEF Held
<1>2. \A c \in Cells : Bit(Put(m, fault.at, fault.to), c)
                        = IF c = fault.at THEN fault.to ELSE Bit(m, c)
  BY FaultFacts, PutBit
<1>3. \A c \in Cells : c # fault.at => Bit(Held(m), c) = Bit(m, c)
  BY <1>1, <1>2
<1>4. fault.kind = "stuck" => Bit(Held(m), fault.at) = fault.to
  BY <1>2, FaultFacts DEF Held
<1>5. fault.kind = "state" /\ Bit(Held(m), fault.by) = fault.on
        => Bit(Held(m), fault.at) = fault.to
  <2>. SUFFICES ASSUME fault.kind = "state", Bit(Held(m), fault.by) = fault.on
                PROVE  Bit(Held(m), fault.at) = fault.to
    OBVIOUS
  <2>1. CASE Bit(m, fault.by) = fault.on
    BY <1>2, <2>1, FaultFacts DEF Held
  <2>2. CASE Bit(m, fault.by) # fault.on
    BY <2>2 DEF Held
  <2>. QED
    BY <2>1, <2>2
<1>. QED
  BY <1>3, <1>4, <1>5 DEF HeldCell, Held

\* Storing changes the cells of the word it stores to, and of the others the faulty cell
\* at most.
LEMMA StoreBit ==
  ASSUME fault \in Faults, NEW m \in Word, NEW i \in Words, NEW f \in Word
  PROVE  /\ \A c \in Cells : c # fault.at =>
              Bit(Store(m, i, f[i]), c) = IF c[1] = i THEN Bit(f, c) ELSE Bit(m, c)
         /\ HeldCell(Store(m, i, f[i]))
<1>. DEFINE plain == [m EXCEPT ![i] = f[i]]
            Upset(v) == Put(plain, fault.at, v)
<1>1. plain \in Word
  BY DEF Word
<1>2. \A v \in {0, 1} : Upset(v) \in Word
  BY <1>1, PutType, FaultFacts
<1>3. \A v \in {0, 1}, c \in Cells : c # fault.at => Bit(Upset(v), c) = Bit(plain, c)
  BY <1>1, PutBit, FaultFacts
<1>4. PICK n \in Word :
        /\ Store(m, i, f[i]) = Held(n)
        /\ \A c \in Cells : c # fault.at => Bit(n, c) = Bit(plain, c)
  <2>1. \E n \in {plain, Upset(1 - fault.to), Upset(fault.to), Upset(1 - Bit(plain, fault.at))} :
          Store(m, i, f[i]) = Held(n)
    BY DEF Store
  <2>2. 1 - fault.to \in {0, 1} /\ fault.to \in {0, 1} /\ 1 - Bit(plain, fault.at) \in {0, 1}
    BY FaultFacts, BitRange
  <2>. HIDE DEF plain, Upset
  <2>. QED
    BY <1>1, <1>2, <1>3, <2>1, <2>2
<1>5. \A c \in Cells : Bit(plain, c) = IF c[1] = i THEN Bit(f, c) ELSE Bit(m, c)
  BY PlainBit
<1>. HIDE DEF plain, Upset
<1>. QED
  BY <1>4, <1>5, HeldBit

\* A cell that cannot change to `to` keeps what it has.
LEMMA TransitionStore ==
  ASSUME fault \in Faults, fault.kind = "transition",
         NEW m \in Word, NEW i \in Words, NEW f \in Word
  PROVE  Bit(Store(m, i, f[i]), fault.at) =
           IF i # Victim THEN Bit(m, fault.at)
           ELSE IF Bit(m, fault.at) = 1 - fault.to THEN 1 - fault.to ELSE Bit(f, fault.at)
<1>. DEFINE plain == [m EXCEPT ![i] = f[i]]
<1>1. plain \in Word
  BY DEF Word
<1>2. Bit(plain, fault.at) = IF Victim = i THEN Bit(f, fault.at) ELSE Bit(m, fault.at)
  BY PlainBit, FaultFacts DEF Victim
<1>3. Put(plain, fault.at, 1 - fault.to) \in Word
  BY <1>1, PutType, FaultFacts
<1>4. Bit(Put(plain, fault.at, 1 - fault.to), fault.at) = 1 - fault.to
  <2>1. 1 - fault.to \in {0, 1}
    BY FaultFacts
  <2>. QED
    BY <1>1, <2>1, PutBit, FaultFacts
<1>5. Store(m, i, f[i]) = IF Bit(m, fault.at) # fault.to /\ Bit(plain, fault.at) = fault.to
                            THEN Put(plain, fault.at, 1 - fault.to) ELSE plain
  BY <1>1, <1>3, HeldBit DEF Store
<1>6. fault.to \in {0, 1} /\ Bit(m, fault.at) \in {0, 1} /\ Bit(f, fault.at) \in {0, 1}
  BY FaultFacts, BitRange
<1>. HIDE DEF plain
<1>. QED
  BY <1>2, <1>4, <1>5, <1>6

\* A cell is set when the other one changes to `on`.
LEMMA CouplingStore ==
  ASSUME fault \in Faults, fault.kind = "coupling", Aggressor # Victim,
         NEW m \in Word, NEW i \in Words, NEW f \in Word
  PROVE  Bit(Store(m, i, f[i]), fault.at) =
           IF i = Victim THEN Bit(f, fault.at)
           ELSE IF i = Aggressor /\ Bit(m, fault.by) # fault.on /\ Bit(f, fault.by) = fault.on
                  THEN fault.to ELSE Bit(m, fault.at)
<1>. DEFINE plain == [m EXCEPT ![i] = f[i]]
<1>1. plain \in Word
  BY DEF Word
<1>2. Bit(plain, fault.at) = IF Victim = i THEN Bit(f, fault.at) ELSE Bit(m, fault.at)
  BY PlainBit, FaultFacts DEF Victim
<1>3. Bit(plain, fault.by) = IF Aggressor = i THEN Bit(f, fault.by) ELSE Bit(m, fault.by)
  BY PlainBit, FaultFacts DEF Aggressor
<1>4. Put(plain, fault.at, fault.to) \in Word
  BY <1>1, PutType, FaultFacts
<1>5. Bit(Put(plain, fault.at, fault.to), fault.at) = fault.to
  BY <1>1, PutBit, FaultFacts
<1>6. Store(m, i, f[i]) = IF Bit(m, fault.by) # fault.on /\ Bit(plain, fault.by) = fault.on
                            THEN Put(plain, fault.at, fault.to) ELSE plain
  BY <1>1, <1>4, HeldBit DEF Store
<1>. HIDE DEF plain
<1>. QED
  BY <1>2, <1>3, <1>5, <1>6

\* A cell is inverted when the other one changes to `on`.
LEMMA InversionStore ==
  ASSUME fault \in Faults, fault.kind = "inversion", Aggressor # Victim,
         NEW m \in Word, NEW i \in Words, NEW f \in Word
  PROVE  Bit(Store(m, i, f[i]), fault.at) =
           IF i = Victim THEN Bit(f, fault.at)
           ELSE IF i = Aggressor /\ Bit(m, fault.by) # fault.on /\ Bit(f, fault.by) = fault.on
                  THEN 1 - Bit(m, fault.at) ELSE Bit(m, fault.at)
<1>. DEFINE plain == [m EXCEPT ![i] = f[i]]
            v == 1 - Bit(plain, fault.at)
<1>1. plain \in Word
  BY DEF Word
<1>2. Bit(plain, fault.at) = IF Victim = i THEN Bit(f, fault.at) ELSE Bit(m, fault.at)
  BY PlainBit, FaultFacts DEF Victim
<1>3. Bit(plain, fault.by) = IF Aggressor = i THEN Bit(f, fault.by) ELSE Bit(m, fault.by)
  BY PlainBit, FaultFacts DEF Aggressor
<1>4. v \in {0, 1}
  BY BitRange
<1>5. Put(plain, fault.at, v) \in Word
  BY <1>1, PutType, FaultFacts
<1>6. Bit(Put(plain, fault.at, v), fault.at) = v
  <2>. HIDE DEF v
  <2>. QED
    BY <1>1, <1>4, PutBit, FaultFacts
<1>7. Store(m, i, f[i]) = IF Bit(m, fault.by) # fault.on /\ Bit(plain, fault.by) = fault.on
                            THEN Put(plain, fault.at, v) ELSE plain
  BY <1>1, <1>5, HeldBit DEF Store
<1>. HIDE DEF plain
<1>. QED
  BY <1>2, <1>3, <1>6, <1>7

-----------------------------------------------------------------------------
(* The sweeps of March C-.                                                 *)

LEMMA ConstantBits ==
  /\ Zeros \in Word /\ Ones \in Word
  /\ \A c \in Cells : Bit(Zeros, c) = 0 /\ Bit(Ones, c) = 1
<1>1. Zeros \in Word /\ Ones \in Word
  BY DEF Zeros, Ones, All, Word, Values
<1>2. \A c \in Cells : c[1] \in Words /\ c[2] \in Bits
  BY DEF Cells
<1>3. \A i \in Words : Zeros[i] = {} /\ Ones[i] = Bits
  BY DEF Zeros, Ones, All
<1>. QED
  BY <1>1, <1>2, <1>3 DEF Bit

\* f is the same bit in every cell.
Constant(f, v) == f \in Word /\ \A c \in Cells : Bit(f, c) = v

LEMMA MarchSweeps ==
  ASSUME pattern = "MARCH_C_MINUS"
  PROVE  /\ Len(Sweeps) = 6
         /\ \A s \in 1..6 : Sweeps[s].up <=> s \notin {4, 5}
         /\ \A s \in 1..6 : s >= 2 =>
              \E f : Sweeps[s].expect = {f} /\ Constant(f, Puts(s - 1))
         /\ \A s \in 1..6 : s <= 5 => \E f : Sweeps[s].write = {f} /\ Constant(f, Puts(s))
         /\ Sweeps[6].write = {}
<1>. DEFINE S == Sweeps
<1>1. S = march_c_minus
  BY DEF Sweeps, SweepsOf
<1>2. /\ Len(S) = 6
      /\ S[1] = Writing(Zeros) /\ S[6] = Reading(Zeros)
      /\ S[2] = Sweep(TRUE, {Zeros}, {Ones}) /\ S[3] = Sweep(TRUE, {Ones}, {Zeros})
      /\ S[4] = Sweep(FALSE, {Zeros}, {Ones}) /\ S[5] = Sweep(FALSE, {Ones}, {Zeros})
  BY <1>1 DEF march_c_minus
<1>. HIDE DEF S
<1>3. /\ S[1].up /\ S[2].up /\ S[3].up /\ ~S[4].up /\ ~S[5].up /\ S[6].up
      /\ S[1].write = {Zeros} /\ S[2].write = {Ones} /\ S[3].write = {Zeros}
      /\ S[4].write = {Ones} /\ S[5].write = {Zeros} /\ S[6].write = {}
      /\ S[2].expect = {Zeros} /\ S[3].expect = {Ones} /\ S[4].expect = {Zeros}
      /\ S[5].expect = {Ones} /\ S[6].expect = {Zeros}
  BY <1>2 DEF Writing, Reading, Sweep
<1>4. Constant(Zeros, 0) /\ Constant(Ones, 1)
  BY ConstantBits DEF Constant
<1>5. Puts(1) = 0 /\ Puts(2) = 1 /\ Puts(3) = 0 /\ Puts(4) = 1 /\ Puts(5) = 0
  BY DEF Puts
<1>6. \A s \in 1..6 : s \in {1, 2, 3, 4, 5, 6}
  OBVIOUS
<1>7. \A s \in 1..6 : S[s].up <=> s \notin {4, 5}
  BY <1>3, <1>6
<1>8. \A s \in 1..6 : s >= 2 => \E f : S[s].expect = {f} /\ Constant(f, Puts(s - 1))
  <2>1. 2 - 1 = 1 /\ 3 - 1 = 2 /\ 4 - 1 = 3 /\ 5 - 1 = 4 /\ 6 - 1 = 5 /\ ~(1 >= 2)
    OBVIOUS
  <2>. QED
    BY <1>3, <1>4, <1>5, <1>6, <2>1
<1>9. \A s \in 1..6 : s <= 5 => \E f : S[s].write = {f} /\ Constant(f, Puts(s))
  <2>1. ~(6 <= 5)
    OBVIOUS
  <2>. QED
    BY <1>3, <1>4, <1>5, <1>6, <2>1
<1>. QED
  BY <1>2, <1>3, <1>7, <1>8, <1>9 DEF S

-----------------------------------------------------------------------------
(* What a turn of a loop does.                                             *)

LEMMA VisitFacts ==
  ASSUME IInv, Visit
  PROVE  /\ worker = "sweep" /\ worker' = "sweep" /\ Sweeps' = Sweeps
         /\ UNCHANGED <<pattern, noise, sweep, fault>>
         /\ fault \in Faults /\ memory \in Word /\ errors_found \in Nat
         /\ sweep \in 1..Len(Sweeps) /\ SweepOK(Sweeps[sweep])
         /\ Next_i \in Words /\ Ahead(Next_i)
         /\ \A j \in Words : Ahead(j)' <=> Ahead(j) /\ j # Next_i
         /\ Sweeps[sweep].write = {} => memory' = memory
         /\ \A f \in Sweeps[sweep].write : memory' = Store(memory, Next_i, f[Next_i])
         /\ errors_found' = IF Mismatch(Next_i) THEN errors_found + 1 ELSE errors_found
<1>1. /\ worker = "sweep" /\ worker' = "sweep" /\ UNCHANGED <<pattern, noise, sweep, fault>>
      /\ Sweeps' = Sweeps
  BY SameSweeps DEF Visit, test
<1>2. fault \in Faults /\ memory \in Word /\ errors_found \in Nat /\ sweep \in 1..Len(Sweeps)
  BY <1>1 DEF IInv, TypeOK, Word
<1>3. SweepOK(Sweeps[sweep])
  BY <1>2, SweepFacts DEF IInv, Chained
<1>4. Next_i \in Words
  BY NextWord DEF IInv, Visit
<1>5. Ahead(Next_i) /\ \A j \in Words : Ahead(j)' <=> Ahead(j) /\ j # Next_i
  BY <1>4, AheadOfVisit
<1>6. \/ Sweeps[sweep].write = {} /\ memory' = memory
      \/ \E f \in Sweeps[sweep].write : memory' = Store(memory, Next_i, f[Next_i])
  BY DEF Visit
<1>7. \A f \in Sweeps[sweep].write : memory' = Store(memory, Next_i, f[Next_i])
  BY <1>3, <1>6 DEF SweepOK
<1>8. errors_found' = IF Mismatch(Next_i) THEN errors_found + 1 ELSE errors_found
  BY DEF Visit, report_error
<1>. QED
  BY <1>1, <1>2, <1>3, <1>4, <1>5, <1>6, <1>7, <1>8

LEMMA NextSweepFacts ==
  ASSUME IInv, NextSweep
  PROVE  /\ worker = "sweep" /\ worker' = "sweep" /\ Sweeps' = Sweeps
         /\ UNCHANGED <<pattern, noise, fault, memory, errors_found>>
         /\ fault \in Faults /\ sweep \in 1..(Len(Sweeps) - 1) /\ Len(Sweeps) \in Nat
         /\ sweep' = sweep + 1
         /\ Sweeps[sweep + 1].expect \in {{}, Sweeps[sweep].write}
         /\ \A j \in Words : ~Ahead(j) /\ Ahead(j)'
<1>1. /\ worker = "sweep" /\ worker' = "sweep" /\ sweep' = sweep + 1 /\ visited' = 0
      /\ UNCHANGED <<pattern, noise, fault, memory, errors_found>> /\ Sweeps' = Sweeps
  BY SameSweeps DEF NextSweep, test
<1>2. /\ sweep \in 1..(Len(Sweeps) - 1) /\ Len(Sweeps) \in Nat
      /\ SweepOK(Sweeps[sweep]) /\ SweepOK(Sweeps[sweep + 1])
      /\ Sweeps[sweep + 1].expect \in {{}, Sweeps[sweep].write}
  BY SweepFacts DEF IInv, TypeOK, NextSweep, Chained
<1>3. N \in Nat /\ \A i \in Words : i \in Nat /\ i < N /\ i >= 0
  BY RamAssumption DEF Words
<1>4. \A j \in Words : ~Ahead(j)
  BY <1>2, <1>3 DEF NextSweep, Ahead, SweepOK
<1>5. \A j \in Words : Ahead(j)'
  BY <1>1, <1>2, <1>3 DEF Ahead, SweepOK
<1>6. fault \in Faults
  BY DEF IInv, TypeOK
<1>. QED
  BY <1>1, <1>2, <1>4, <1>5, <1>6

LEMMA BeginPassFacts ==
  ASSUME IInv, BeginPass
  PROVE  /\ worker' = "sweep" /\ sweep' = 1 /\ UNCHANGED <<pattern, fault, memory>>
         /\ fault \in Faults /\ Sweeps'[1].expect = {} /\ Len(Sweeps') \in Nat
         /\ \A j \in Words : Ahead(j)'
<1>1. worker' = "sweep" /\ sweep' = 1 /\ visited' = 0 /\ UNCHANGED <<pattern, fault, memory>>
  BY DEF BeginPass, test
<1>2. TypeOK'
  BY TypePreserved DEF Next, Worker
<1>3. Chained(Sweeps')
  BY <1>2, RamAssumption, SweepsAreChained DEF TypeOK, Word, Sweeps
<1>4. SweepOK(Sweeps'[1]) /\ Sweeps'[1].expect = {} /\ Len(Sweeps') \in Nat
  BY <1>3 DEF Chained
<1>5. \A j \in Words : Ahead(j)'
  BY <1>1, <1>4, RamAssumption DEF Ahead, SweepOK, Words
<1>6. fault \in Faults
  BY DEF IInv, TypeOK
<1>. QED
  BY <1>1, <1>4, <1>5, <1>6

-----------------------------------------------------------------------------
(* The other cells hold what was written to them.                          *)

LEMMA OthersVisit ==
  ASSUME IInv, Visit, OthersMatch
  PROVE  OthersMatch'
<1>. DEFINE W == Sweeps[sweep].write
<1>1. ASSUME W = {}
      PROVE  OthersMatch'
  <2>1. \A j \in Words : Holds(j)' = Holds(j)
    BY <1>1, VisitFacts DEF Holds
  <2>2. \A c \in Cells : c[1] \in Words
    BY DEF Cells
  <2>. QED
    BY <1>1, <2>1, <2>2, VisitFacts DEF OthersMatch
<1>2. ASSUME NEW g \in W
      PROVE  OthersMatch'
  <2>1. W = {g} /\ g \in Word
    BY <1>2, VisitFacts DEF SweepOK
  <2>2. memory' = Store(memory, Next_i, g[Next_i])
    BY <1>2, VisitFacts
  <2>. SUFFICES ASSUME NEW c \in Cells, c # fault.at, NEW f \in Holds(c[1])'
                PROVE  Bit(memory', c) = Bit(f, c)
    BY VisitFacts DEF OthersMatch
  <2>3. c[1] \in Words
    BY DEF Cells
  <2>4. Bit(memory', c) = IF c[1] = Next_i THEN Bit(g, c) ELSE Bit(memory, c)
    BY <2>1, <2>2, StoreBit, VisitFacts
  <2>5. CASE c[1] = Next_i
    <3>1. Holds(c[1])' = W
      BY <2>1, <2>3, <2>5, VisitFacts DEF Holds
    <3>. QED
      BY <2>1, <2>4, <2>5, <3>1
  <2>6. CASE c[1] # Next_i
    <3>1. Holds(c[1])' = Holds(c[1])
      BY <2>3, <2>6, VisitFacts DEF Holds
    <3>. QED
      BY <2>4, <2>6, <3>1 DEF OthersMatch
  <2>. QED
    BY <2>5, <2>6
<1>. QED
  BY <1>1, <1>2

LEMMA OthersNext ==
  ASSUME IInv, NextSweep, OthersMatch
  PROVE  OthersMatch'
<1>1. \A j \in Words : Holds(j)' \in {{}, Holds(j)}
  BY NextSweepFacts DEF Holds
<1>2. \A c \in Cells : c[1] \in Words
  BY DEF Cells
<1>. QED
  BY <1>1, <1>2, NextSweepFacts DEF OthersMatch

LEMMA OthersBegin ==
  ASSUME IInv, BeginPass
  PROVE  OthersMatch'
<1>1. \A j \in Words : Holds(j)' = {}
  BY BeginPassFacts DEF Holds
<1>2. \A c \in Cells : c[1] \in Words
  BY DEF Cells
<1>. QED
  BY <1>1, <1>2 DEF OthersMatch

-----------------------------------------------------------------------------
(* March C-, from the event to the sweep that reads the cell.              *)

\* Of two words a sweep has been to the second, it has been to the first.
LEMMA InOrder ==
  ASSUME TypeOK, worker = "sweep"
  PROVE  /\ AggressorFirst(sweep) /\ VictimDone => AggressorDone
         /\ Aggressor # Victim /\ ~AggressorFirst(sweep) /\ AggressorDone => VictimDone
<1>1. Sweeps[sweep].up \in BOOLEAN
  BY SweepFacts DEF TypeOK, Chained, SweepOK
<1>2. Victim \in Words /\ Aggressor \in Words
  BY FaultFacts DEF TypeOK
<1>3. N \in Nat /\ visited \in Nat /\ Victim \in Nat /\ Aggressor \in Nat
  BY <1>2, RamAssumption DEF TypeOK, Words
<1>. QED
  BY <1>1, <1>3 DEF AggressorFirst, VictimDone, AggressorDone, Ahead

LEMMA MarchVisitFacts ==
  ASSUME IInv, Visit, OthersMatch, pattern = "MARCH_C_MINUS"
  PROVE  /\ sweep \in 1..6 /\ sweep' = sweep /\ fault' = fault
         /\ AggressorFirst(sweep)' = AggressorFirst(sweep)
         /\ VictimDone' <=> VictimDone \/ Next_i = Victim
         /\ AggressorDone' <=> AggressorDone \/ Next_i = Aggressor
         /\ Next_i = Victim => ~VictimDone
         /\ Next_i = Aggressor => ~AggressorDone
         /\ sweep = 6 => memory' = memory
         /\ sweep # 6 => \E f : /\ Constant(f, Puts(sweep)) /\ memory \in Word
                                /\ memory' = Store(memory, Next_i, f[Next_i])
         /\ Aggressor # Victim /\ ~AggressorDone /\ sweep >= 2 =>
              Bit(memory, fault.by) = Puts(sweep - 1)
<1>1. /\ sweep \in 1..6 /\ sweep' = sweep /\ fault' = fault /\ Sweeps' = Sweeps
      /\ Next_i \in Words /\ Ahead(Next_i) /\ memory \in Word
      /\ \A j \in Words : Ahead(j)' <=> Ahead(j) /\ j # Next_i
      /\ Sweeps[sweep].write = {} => memory' = memory
      /\ \A f \in Sweeps[sweep].write : memory' = Store(memory, Next_i, f[Next_i])
  BY VisitFacts, MarchSweeps
<1>2. /\ Victim \in Words /\ Aggressor \in Words /\ fault.by \in Cells
      /\ Victim' = Victim /\ Aggressor' = Aggressor
  BY <1>1, FaultFacts, VisitFacts DEF Victim, Aggressor
<1>3. /\ VictimDone' <=> VictimDone \/ Next_i = Victim
      /\ AggressorDone' <=> AggressorDone \/ Next_i = Aggressor
      /\ Next_i = Victim => ~VictimDone
      /\ Next_i = Aggressor => ~AggressorDone
  BY <1>1, <1>2 DEF VictimDone, AggressorDone
<1>4. AggressorFirst(sweep)' = AggressorFirst(sweep)
  BY <1>1, <1>2 DEF AggressorFirst
<1>5. sweep # 6 => \E f : Constant(f, Puts(sweep)) /\ memory' = Store(memory, Next_i, f[Next_i])
  <2>. SUFFICES ASSUME sweep # 6
                PROVE  \E f : /\ Constant(f, Puts(sweep))
                              /\ memory' = Store(memory, Next_i, f[Next_i])
    OBVIOUS
  <2>1. PICK f : Sweeps[sweep].write = {f} /\ Constant(f, Puts(sweep))
    BY <1>1, MarchSweeps
  <2>. QED
    BY <1>1, <2>1
<1>6. ASSUME Aggressor # Victim, ~AggressorDone, sweep >= 2
      PROVE  Bit(memory, fault.by) = Puts(sweep - 1)
  <2>1. PICK f : Sweeps[sweep].expect = {f} /\ Constant(f, Puts(sweep - 1))
    BY <1>1, <1>6, MarchSweeps
  <2>2. Holds(fault.by[1]) = {f}
    BY <1>6, <2>1 DEF Holds, AggressorDone, Aggressor
  <2>3. fault.by # fault.at
    BY <1>6 DEF Aggressor, Victim
  <2>4. Bit(memory, fault.by) = Bit(f, fault.by)
    BY <1>2, <2>2, <2>3 DEF OthersMatch
  <2>. QED
    BY <1>2, <2>1, <2>4 DEF Constant
<1>7. sweep = 6 => memory' = memory
  BY <1>1, MarchSweeps
<1>. QED
  BY <1>1, <1>3, <1>4, <1>5, <1>6, <1>7

LEMMA TransitionVisit ==
  ASSUME IInv, Visit, OthersMatch, pattern = "MARCH_C_MINUS", TransitionInv
  PROVE  TransitionInv'
<1>. SUFFICES ASSUME fault.kind = "transition",
                     sweep > Settled \/ (sweep = Settled /\ VictimDone')
              PROVE  Bit(memory', fault.at) = 1 - fault.to
  BY MarchVisitFacts DEF TransitionInv, Settled
<1>1. fault \in Faults /\ fault.at \in Cells /\ fault.to \in {0, 1} /\ Next_i \in Words
  BY VisitFacts, FaultFacts
<1>2. Next_i # Victim => Bit(memory, fault.at) = 1 - fault.to
  BY MarchVisitFacts DEF TransitionInv
<1>3. sweep > Settled => Bit(memory, fault.at) = 1 - fault.to
  BY DEF TransitionInv
<1>4. sweep = Settled => Puts(sweep) = 1 - fault.to /\ sweep # 6
  BY <1>1 DEF Settled, Puts
<1>5. CASE sweep = 6
  <2>1. sweep > Settled
    BY <1>5, <1>1 DEF Settled
  <2>. QED
    BY <1>3, <1>5, <2>1, MarchVisitFacts
<1>6. CASE sweep # 6
  <2>1. PICK f : /\ Constant(f, Puts(sweep)) /\ memory \in Word
                 /\ memory' = Store(memory, Next_i, f[Next_i])
    BY <1>6, MarchVisitFacts
  <2>2. Bit(memory', fault.at) =
           IF Next_i # Victim THEN Bit(memory, fault.at)
           ELSE IF Bit(memory, fault.at) = 1 - fault.to THEN 1 - fault.to ELSE Puts(sweep)
    BY <1>1, <2>1, TransitionStore DEF Constant
  <2>. QED
    BY <1>2, <1>3, <1>4, <2>2
<1>. QED
  BY <1>5, <1>6

LEMMA CouplingVisit ==
  ASSUME IInv, Visit, OthersMatch, pattern = "MARCH_C_MINUS", Aggressor # Victim,
         CouplingInv
  PROVE  CouplingInv'
<1>. SUFFICES ASSUME fault.kind = "coupling"
              PROVE  CouplingInv'
  BY VisitFacts DEF CouplingInv
<1>1. fault \in Faults /\ fault.at \in Cells /\ fault.by \in Cells /\ Next_i \in Words
  BY VisitFacts, FaultFacts
<1>2. /\ sweep \in 1..6 /\ sweep' = sweep /\ fault' = fault
      /\ Sweeps' = Sweeps /\ Aggressor' = Aggressor /\ Victim' = Victim
      /\ \A s : AggressorFirst(s)' = AggressorFirst(s)
  BY VisitFacts, MarchVisitFacts DEF AggressorFirst, Aggressor, Victim
<1>3. /\ VictimDone' <=> VictimDone \/ Next_i = Victim
      /\ AggressorDone' <=> AggressorDone \/ Next_i = Aggressor
      /\ Next_i = Victim => ~VictimDone
      /\ Next_i = Aggressor => ~AggressorDone
  BY MarchVisitFacts
<1>4. ~AggressorFirst(sweep) /\ AggressorDone => VictimDone
  BY InOrder DEF IInv, Visit
<1>5. sweep # 6 =>
        Bit(memory', fault.at) =
          IF Next_i = Victim THEN Puts(sweep)
          ELSE IF Next_i = Aggressor /\ Bit(memory, fault.by) # fault.on
                  /\ Puts(sweep) = fault.on
                 THEN fault.to ELSE Bit(memory, fault.at)
  <2>. SUFFICES ASSUME sweep # 6
                PROVE  Bit(memory', fault.at) =
                         IF Next_i = Victim THEN Puts(sweep)
                         ELSE IF Next_i = Aggressor /\ Bit(memory, fault.by) # fault.on
                                 /\ Puts(sweep) = fault.on
                                THEN fault.to ELSE Bit(memory, fault.at)
    OBVIOUS
  <2>1. PICK f : /\ Constant(f, Puts(sweep)) /\ memory \in Word
                 /\ memory' = Store(memory, Next_i, f[Next_i])
    BY MarchVisitFacts
  <2>2. Bit(f, fault.at) = Puts(sweep) /\ Bit(f, fault.by) = Puts(sweep) /\ f \in Word
    BY <1>1, <2>1 DEF Constant
  <2>. QED
    BY <1>1, <2>1, <2>2, CouplingStore
<1>6. sweep = 6 => memory' = memory
  BY MarchVisitFacts
<1>7. ~AggressorDone /\ sweep \in 2..5 => Bit(memory, fault.by) # Puts(sweep)
  <2>1. ~AggressorDone /\ sweep \in 2..5 => Bit(memory, fault.by) = Puts(sweep - 1)
    BY MarchVisitFacts
  <2>2. \A s \in 2..5 : Puts(s - 1) # Puts(s)
    BY DEF Puts
  <2>. QED
    BY <2>1, <2>2
<1>8. ASSUME sweep \in 2..5, Puts(sweep) = fault.on, AggressorDone',
             AggressorFirst(sweep) => ~VictimDone'
      PROVE  Bit(memory', fault.at) = fault.to
  <2>0. sweep # 6
    BY <1>8
  <2>1. CASE Next_i = Victim
    BY <1>3, <1>4, <1>8, <2>1
  <2>2. CASE Next_i = Aggressor
    BY <1>3, <1>5, <1>7, <1>8, <2>0, <2>2
  <2>3. CASE Next_i # Victim /\ Next_i # Aggressor
    <3>1. Bit(memory, fault.at) = fault.to
      BY <1>3, <1>8, <2>3 DEF CouplingInv
    <3>. QED
      BY <1>5, <2>0, <2>3, <3>1
  <2>. QED
    BY <2>1, <2>2, <2>3
<1>9. ASSUME sweep \in 3..6, Puts(sweep - 1) = fault.on, ~AggressorFirst(sweep - 1),
             ~VictimDone'
      PROVE  Bit(memory', fault.at) = fault.to
  <2>1. Bit(memory, fault.at) = fault.to
    BY <1>3, <1>9 DEF CouplingInv
  <2>. QED
    BY <1>3, <1>5, <1>6, <1>9, <2>1
<1>. QED
  BY <1>2, <1>8, <1>9 DEF CouplingInv

LEMMA InversionVisit ==
  ASSUME IInv, Visit, OthersMatch, pattern = "MARCH_C_MINUS", Aggressor # Victim,
         InversionInv
  PROVE  InversionInv'
<1>. SUFFICES ASSUME fault.kind = "inversion"
              PROVE  InversionInv'
  BY VisitFacts DEF InversionInv
<1>1. /\ fault \in Faults /\ fault.at \in Cells /\ fault.by \in Cells /\ Next_i \in Words
      /\ fault.on \in {0, 1} /\ Aggressor \in Nat /\ Victim \in Nat
  BY VisitFacts, FaultFacts, RamAssumption DEF Words
<1>2. /\ sweep \in 1..6 /\ sweep' = sweep /\ fault' = fault
      /\ Aggressor' = Aggressor /\ Victim' = Victim /\ Inverts' = Inverts
  BY VisitFacts, MarchVisitFacts DEF Aggressor, Victim, Inverts
<1>3. /\ VictimDone' <=> VictimDone \/ Next_i = Victim
      /\ AggressorDone' <=> AggressorDone \/ Next_i = Aggressor
      /\ Next_i = Victim => ~VictimDone
      /\ Next_i = Aggressor => ~AggressorDone
  BY MarchVisitFacts
<1>4. /\ sweep \in {Inverts - 1, Inverts} /\ Aggressor < Victim /\ VictimDone => AggressorDone
      /\ sweep = Inverts /\ Aggressor > Victim /\ AggressorDone => VictimDone
  <2>1. sweep \in {Inverts - 1, Inverts} => Sweeps[sweep].up
    BY <1>1, <1>2, MarchSweeps DEF Inverts
  <2>2. sweep \in {Inverts - 1, Inverts} => (AggressorFirst(sweep) <=> Aggressor < Victim)
    BY <2>1 DEF AggressorFirst
  <2>3. Aggressor > Victim => ~(Aggressor < Victim)
    BY <1>1
  <2>. QED
    BY <2>2, <2>3, InOrder DEF IInv, Visit
<1>5. sweep # 6 =>
        Bit(memory', fault.at) =
          IF Next_i = Victim THEN Puts(sweep)
          ELSE IF Next_i = Aggressor /\ Bit(memory, fault.by) # fault.on
                  /\ Puts(sweep) = fault.on
                 THEN 1 - Bit(memory, fault.at) ELSE Bit(memory, fault.at)
  <2>. SUFFICES ASSUME sweep # 6
                PROVE  Bit(memory', fault.at) =
                         IF Next_i = Victim THEN Puts(sweep)
                         ELSE IF Next_i = Aggressor /\ Bit(memory, fault.by) # fault.on
                                 /\ Puts(sweep) = fault.on
                                THEN 1 - Bit(memory, fault.at) ELSE Bit(memory, fault.at)
    OBVIOUS
  <2>1. PICK f : /\ Constant(f, Puts(sweep)) /\ memory \in Word
                 /\ memory' = Store(memory, Next_i, f[Next_i])
    BY MarchVisitFacts
  <2>2. Bit(f, fault.at) = Puts(sweep) /\ Bit(f, fault.by) = Puts(sweep) /\ f \in Word
    BY <1>1, <2>1 DEF Constant
  <2>. QED
    BY <1>1, <2>1, <2>2, InversionStore
<1>6. /\ sweep = Inverts - 1 => sweep # 6 /\ Puts(sweep) = 1 - fault.on /\ Puts(sweep) # fault.on
      /\ sweep = Inverts => sweep # 6 /\ Puts(sweep) = fault.on
      /\ sweep = Inverts + 1 => sweep # 6 /\ Puts(sweep) # fault.on
  BY <1>1 DEF Inverts, Puts
<1>7. sweep = Inverts /\ ~AggressorDone => Bit(memory, fault.by) # fault.on
  <2>1. sweep = Inverts => sweep >= 2 /\ Puts(sweep - 1) # fault.on
    BY <1>1 DEF Inverts, Puts
  <2>. QED
    BY <2>1, MarchVisitFacts
<1>8. fault.on = 1 - (1 - fault.on)
  BY <1>1
<1>. DEFINE v == Bit(memory, fault.at)
            w == Bit(memory', fault.at)
<1>9. /\ sweep = Inverts - 1 /\ Aggressor < Victim /\ VictimDone => v = 1 - fault.on
      /\ sweep = Inverts /\ Aggressor < Victim /\ ~VictimDone =>
           v = IF AggressorDone THEN fault.on ELSE 1 - fault.on
      /\ sweep = Inverts /\ Aggressor > Victim /\ VictimDone =>
           v = IF AggressorDone THEN 1 - fault.on ELSE fault.on
      /\ sweep = Inverts + 1 /\ Aggressor > Victim /\ ~VictimDone => v = 1 - fault.on
  BY DEF InversionInv
<1>. HIDE DEF v
<1>10. ASSUME sweep = Inverts - 1, Aggressor < Victim, VictimDone'
       PROVE  w = 1 - fault.on
  <2>1. Next_i = Victim => Bit(memory', fault.at) = 1 - fault.on
    BY <1>5, <1>6, <1>10
  <2>2. Next_i # Victim => Bit(memory', fault.at) = v
    BY <1>5, <1>6, <1>10 DEF v
  <2>. QED
    BY <1>3, <1>9, <1>10, <2>1, <2>2
<1>11. ASSUME sweep = Inverts
       PROVE  w = IF Next_i = Victim THEN fault.on ELSE IF Next_i = Aggressor THEN 1 - v ELSE v
  BY <1>3, <1>5, <1>6, <1>7, <1>11 DEF v
<1>12. ASSUME sweep = Inverts + 1, Next_i # Victim
       PROVE  w = v
  BY <1>5, <1>6, <1>12 DEF v
<1>. HIDE DEF w
<1>13. sweep = Inverts /\ Aggressor < Victim /\ ~VictimDone' =>
         w = IF AggressorDone' THEN fault.on ELSE 1 - fault.on
  BY <1>3, <1>8, <1>9, <1>11
<1>14. sweep = Inverts /\ Aggressor > Victim /\ VictimDone' =>
         w = IF AggressorDone' THEN 1 - fault.on ELSE fault.on
  BY <1>3, <1>4, <1>9, <1>11
<1>15. sweep = Inverts + 1 /\ Aggressor > Victim /\ ~VictimDone' => w = 1 - fault.on
  BY <1>3, <1>9, <1>12
<1>. QED
  BY <1>2, <1>10, <1>13, <1>14, <1>15 DEF InversionInv, w

LEMMA MarchVisit ==
  ASSUME IInv, Visit, OthersMatch, MarchInv
  PROVE  MarchInv'
<1>. SUFFICES ASSUME pattern = "MARCH_C_MINUS"
              PROVE  TransitionInv' /\ (Aggressor # Victim => CouplingInv' /\ InversionInv')
  BY VisitFacts DEF MarchInv, Aggressor, Victim
<1>. QED
  BY TransitionVisit, CouplingVisit, InversionVisit DEF MarchInv

LEMMA MarchNext ==
  ASSUME IInv, NextSweep, MarchInv
  PROVE  MarchInv'
<1>. SUFFICES ASSUME pattern = "MARCH_C_MINUS"
              PROVE  MarchInv'
  BY NextSweepFacts DEF MarchInv
<1>1. /\ sweep \in 1..5 /\ sweep' = sweep + 1 /\ fault' = fault /\ Sweeps' = Sweeps
      /\ memory' = memory /\ fault.on \in {0, 1} /\ fault.to \in {0, 1}
      /\ Aggressor' = Aggressor /\ Victim' = Victim /\ Aggressor \in Nat /\ Victim \in Nat
      /\ Settled' = Settled /\ Inverts' = Inverts
      /\ \A s : AggressorFirst(s)' = AggressorFirst(s)
  <2>1. /\ sweep \in 1..(Len(Sweeps) - 1) /\ sweep' = sweep + 1 /\ fault' = fault
        /\ Sweeps' = Sweeps /\ memory' = memory /\ fault \in Faults
    BY NextSweepFacts
  <2>2. sweep \in 1..5
    <3>1. Len(Sweeps) = 6
      BY MarchSweeps
    <3>2. 6 - 1 = 5
      OBVIOUS
    <3>. QED
      BY <2>1, <3>1, <3>2
  <2>3. Aggressor \in Nat /\ Victim \in Nat /\ fault.on \in {0, 1} /\ fault.to \in {0, 1}
    BY <2>1, FaultFacts, RamAssumption DEF Words
  <2>4. /\ Aggressor' = Aggressor /\ Victim' = Victim /\ Settled' = Settled
        /\ Inverts' = Inverts
    BY <2>1 DEF Aggressor, Victim, Settled, Inverts
  <2>5. \A s : AggressorFirst(s)' = AggressorFirst(s)
    BY <2>1, <2>4 DEF AggressorFirst
  <2>. QED
    BY <2>1, <2>2, <2>3, <2>4, <2>5
<1>2. VictimDone /\ AggressorDone /\ ~VictimDone' /\ ~AggressorDone'
  BY NextSweepFacts, FaultFacts DEF VictimDone, AggressorDone, Victim, Aggressor
<1>3. TransitionInv'
  <2>1. sweep' > Settled => sweep > Settled \/ sweep = Settled
    BY <1>1 DEF Settled
  <2>. QED
    BY <1>1, <1>2, <2>1 DEF MarchInv, TransitionInv
<1>4. Aggressor # Victim => CouplingInv'
  <2>. SUFFICES ASSUME Aggressor # Victim, fault.kind = "coupling",
                       sweep + 1 \in 3..6, Puts(sweep + 1 - 1) = fault.on,
                       ~AggressorFirst(sweep + 1 - 1)
                PROVE  Bit(memory, fault.at) = fault.to
    BY <1>1, <1>2 DEF CouplingInv
  <2>1. sweep \in 2..5 /\ sweep + 1 - 1 = sweep
    BY <1>1
  <2>2. Puts(sweep) = fault.on /\ ~AggressorFirst(sweep)
    BY <2>1
  <2>. QED
    BY <1>2, <2>1, <2>2 DEF MarchInv, CouplingInv
<1>5. Aggressor # Victim => InversionInv'
  <2>. SUFFICES ASSUME Aggressor # Victim, fault.kind = "inversion"
                PROVE  /\ sweep + 1 = Inverts /\ Aggressor < Victim =>
                            Bit(memory, fault.at) = 1 - fault.on
                       /\ sweep + 1 = Inverts + 1 /\ Aggressor > Victim =>
                            Bit(memory, fault.at) = 1 - fault.on
    BY <1>1, <1>2 DEF InversionInv
  <2>1. /\ sweep + 1 = Inverts => sweep = Inverts - 1
        /\ sweep + 1 = Inverts + 1 => sweep = Inverts
    BY <1>1 DEF Inverts
  <2>. QED
    BY <1>2, <2>1 DEF MarchInv, InversionInv
<1>. QED
  BY <1>1, <1>3, <1>4, <1>5 DEF MarchInv

LEMMA MarchBegin ==
  ASSUME IInv, BeginPass
  PROVE  MarchInv'
<1>1. sweep' = 1 /\ fault' = fault /\ fault.on \in {0, 1} /\ fault.to \in {0, 1}
  BY BeginPassFacts, FaultFacts
<1>2. Victim' \in Words /\ Aggressor' \in Words
  BY BeginPassFacts, FaultFacts DEF Victim, Aggressor
<1>3. ~VictimDone' /\ ~AggressorDone'
  BY <1>2, BeginPassFacts DEF VictimDone, AggressorDone
<1>4. TransitionInv'
  BY <1>1, <1>3 DEF TransitionInv, Settled
<1>5. CouplingInv'
  BY <1>1 DEF CouplingInv
<1>6. InversionInv'
  BY <1>1, <1>3 DEF InversionInv, Inverts
<1>. QED
  BY <1>4, <1>5, <1>6 DEF MarchInv

-----------------------------------------------------------------------------
(* When the sweep that tells comes to the faulty cell, it reads it wrong.  *)

LEMMA AtVictim ==
  ASSUME IInv, Visit, Next_i = Victim, Aggressor # Victim
  PROVE  AggressorFirst(sweep) <=> AggressorDone
<1>1. Sweeps[sweep].up \in BOOLEAN
  BY VisitFacts DEF SweepOK
<1>2. /\ N \in Nat /\ visited \in Nat /\ Victim \in Nat /\ Aggressor \in Nat
      /\ Victim = IF Sweeps[sweep].up THEN visited ELSE N - 1 - visited
  BY VisitFacts, FaultFacts, RamAssumption DEF IInv, TypeOK, Words, Next_i
<1>. QED
  BY <1>1, <1>2 DEF AggressorFirst, AggressorDone, Ahead

LEMMA TellsMismatch ==
  ASSUME IInv, Visit, HeldCell(memory), OthersMatch, MarchInv,
         Next_i = Victim, Tells(sweep)
  PROVE  Mismatch(Next_i)
<1>1. /\ fault \in Faults /\ fault.at \in Cells /\ fault.by \in Cells
      /\ fault.on \in {0, 1} /\ fault.to \in {0, 1}
      /\ Victim \in Words /\ Aggressor \in Words /\ Ahead(Victim)
      /\ SweepOK(Sweeps[sweep]) /\ worker = "sweep"
  BY VisitFacts, FaultFacts
\* It is enough that the faulty cell is not what the sweep expects.
<1>2. ASSUME NEW f \in Sweeps[sweep].expect, Bit(memory, fault.at) # Bit(f, fault.at)
      PROVE  Mismatch(Next_i)
  <2>1. memory[Victim] # f[Victim]
    BY <1>2 DEF Bit, Victim
  <2>. QED
    BY <2>1 DEF Mismatch
<1>3. CASE TellsStuck(sweep)
  BY <1>2, <1>3 DEF TellsStuck, HeldCell
<1>4. CASE TellsState(sweep)
  <2>1. PICK f \in Sweeps[sweep].expect : Bit(f, fault.at) # fault.to
    BY <1>4 DEF TellsState
  <2>2. PICK g \in IF AggressorFirst(sweep) /\ Sweeps[sweep].write # {}
                     THEN Sweeps[sweep].write ELSE Sweeps[sweep].expect :
               Bit(g, fault.by) = fault.on
    BY <1>4 DEF TellsState
  <2>3. fault.by # fault.at /\ fault.kind = "state" /\ Aggressor # Victim
    BY <1>4 DEF TellsState, Aggressor, Victim
  <2>4. AggressorFirst(sweep) <=> AggressorDone
    BY <2>3, AtVictim
  <2>5. g \in Holds(fault.by[1])
    BY <2>2, <2>4 DEF Holds, AggressorDone, Aggressor
  <2>6. Bit(memory, fault.by) = fault.on
    BY <1>1, <2>2, <2>3, <2>5 DEF OthersMatch
  <2>7. Bit(memory, fault.at) = fault.to
    BY <2>3, <2>6 DEF HeldCell
  <2>. QED
    BY <1>2, <2>1, <2>7
<1>5. ASSUME pattern = "MARCH_C_MINUS", sweep >= 2, Bit(memory, fault.at) # Puts(sweep - 1)
      PROVE  Mismatch(Next_i)
  <2>1. sweep \in 1..6
    BY <1>5, MarchSweeps DEF IInv, TypeOK, Visit
  <2>2. PICK f : Sweeps[sweep].expect = {f} /\ Constant(f, Puts(sweep - 1))
    BY <1>5, <2>1, MarchSweeps
  <2>. QED
    BY <1>1, <1>2, <1>5, <2>2 DEF Constant
<1>6. ~VictimDone
  BY <1>1 DEF VictimDone
<1>7. CASE pattern = "MARCH_C_MINUS" /\ TellsTransition(sweep)
  BY <1>1, <1>5, <1>7 DEF TellsTransition, MarchInv, TransitionInv
<1>8. CASE pattern = "MARCH_C_MINUS" /\ TellsCoupling(sweep)
  <2>1. Aggressor # Victim /\ fault.kind = "coupling" /\ CouplingInv
    BY <1>8 DEF TellsCoupling, MarchInv
  <2>2. \A s \in 2..5 : Puts(s - 1) = 1 - Puts(s)
    BY DEF Puts
  <2>3. CASE sweep \in 2..5 /\ Puts(sweep) = fault.on /\ AggressorFirst(sweep)
               /\ fault.to = fault.on
    <3>1. AggressorDone
      BY <2>1, <2>3, AtVictim
    <3>2. Bit(memory, fault.at) = fault.to
      BY <1>6, <2>1, <2>3, <3>1 DEF CouplingInv
    <3>3. Puts(sweep - 1) # fault.to /\ sweep >= 2
      BY <1>1, <2>2, <2>3
    <3>. QED
      BY <1>5, <1>8, <3>2, <3>3
  <2>4. CASE sweep \in 3..6 /\ Puts(sweep - 1) = fault.on /\ ~AggressorFirst(sweep - 1)
               /\ fault.to # fault.on
    <3>1. Bit(memory, fault.at) = fault.to
      BY <1>6, <2>1, <2>4 DEF CouplingInv
    <3>. QED
      BY <1>5, <1>8, <2>4, <3>1
  <2>. QED
    BY <1>8, <2>3, <2>4 DEF TellsCoupling
<1>9. CASE pattern = "MARCH_C_MINUS" /\ TellsInversion(sweep)
  <2>1. /\ Aggressor # Victim /\ fault.kind = "inversion" /\ InversionInv
        /\ sweep = IF Aggressor < Victim THEN Inverts ELSE Inverts + 1
    BY <1>9 DEF TellsInversion, MarchInv
  <2>2. Victim \in Nat /\ Aggressor \in Nat /\ visited \in Nat /\ N \in Nat
    BY <1>1, RamAssumption DEF Words, IInv, TypeOK
  <2>3. CASE Aggressor < Victim
    <3>1. sweep = Inverts /\ sweep >= 2 /\ Puts(sweep - 1) = 1 - fault.on /\ sweep \in 1..6
      BY <1>1, <2>1, <2>3 DEF Inverts, Puts
    <3>2. Sweeps[sweep].up
      BY <1>1, <1>9, <3>1, MarchSweeps DEF Inverts
    <3>3. AggressorDone
      BY <2>2, <2>3, <3>2 DEF AggressorDone, Ahead, Next_i
    <3>4. Bit(memory, fault.at) = fault.on
      BY <1>6, <2>1, <2>3, <3>1, <3>3 DEF InversionInv
    <3>5. fault.on # 1 - fault.on
      BY <1>1
    <3>. QED
      BY <1>5, <1>9, <3>1, <3>4, <3>5
  <2>4. CASE Aggressor > Victim
    <3>1. sweep = Inverts + 1 /\ sweep >= 2 /\ Puts(sweep - 1) = fault.on
      BY <1>1, <2>1, <2>2, <2>4 DEF Inverts, Puts
    <3>2. Bit(memory, fault.at) = 1 - fault.on
      BY <1>6, <2>1, <2>4, <3>1 DEF InversionInv
    <3>3. fault.on # 1 - fault.on
      BY <1>1
    <3>. QED
      BY <1>5, <1>9, <3>1, <3>2, <3>3
  <2>. QED
    BY <2>1, <2>2, <2>3, <2>4
<1>. QED
  BY <1>3, <1>4, <1>7, <1>8, <1>9 DEF Tells

-----------------------------------------------------------------------------
(* The invariant of the faults is inductive.                               *)

LEMMA HeldPreserved ==
  ASSUME IInv, HeldCell(memory), [Next]_vars
  PROVE  HeldCell(memory)' /\ fault' = fault
<1>1. fault' = fault /\ fault \in Faults
  BY DEF Next, Worker, AllocationFails, Allocate, BeginPass, Visit,
         NextSweep, EndPass, EndRun, Stop, EndStop, Start, test, vars, IInv, TypeOK
<1>2. memory' = memory => HeldCell(memory)'
  BY <1>1 DEF HeldCell
<1>3. CASE AllocationFails \/ BeginPass \/ NextSweep \/ EndPass \/ EndRun \/ EndStop \/ Stop
  BY <1>1, <1>2, <1>3 DEF AllocationFails, BeginPass, NextSweep, EndPass, EndRun, EndStop, Stop
<1>4. ASSUME NEW p \in Patterns, NEW n \in 1..MaxPasses, Start(p, n)
      PROVE  HeldCell(memory)'
  BY <1>2, <1>4 DEF Start
<1>5. CASE UNCHANGED vars
  BY <1>1, <1>2, <1>5 DEF vars
<1>6. CASE Allocate
  <2>1. [i \in Words |-> {}] \in Word
    BY DEF Word, Values
  <2>2. HeldCell(Mapped)
    BY <1>1, <2>1, HeldBit DEF Mapped
  <2>. QED
    BY <1>1, <1>6, <2>2 DEF Allocate, HeldCell
<1>7. CASE Visit
  <2>1. Sweeps[sweep].write = {} => memory' = memory
    BY <1>7, VisitFacts
  <2>2. ASSUME NEW f \in Sweeps[sweep].write
        PROVE  HeldCell(memory')
    <3>1. f \in Word /\ memory \in Word /\ Next_i \in Words
      BY <1>7, VisitFacts DEF SweepOK
    <3>2. memory' = Store(memory, Next_i, f[Next_i])
      BY <1>7, VisitFacts
    <3>. QED
      BY <1>1, <3>1, <3>2, StoreBit
  <2>. QED
    BY <1>1, <1>2, <2>1, <2>2 DEF HeldCell
<1>. QED
  BY <1>1, <1>3, <1>4, <1>5, <1>6, <1>7 DEF Next, Worker

\* What Tells says of a sweep does not depend on how far the test is.
LEMMA SameTells ==
  ASSUME UNCHANGED <<pattern, fault>>, Sweeps' = Sweeps, NEW s
  PROVE  Tells(s)' <=> Tells(s)
<1>1. /\ Victim' = Victim /\ Aggressor' = Aggressor /\ Inverts' = Inverts
      /\ Settled' = Settled
  BY DEF Victim, Aggressor, Inverts, Settled
<1>2. /\ AggressorFirst(s)' = AggressorFirst(s)
      /\ AggressorFirst(s - 1)' = AggressorFirst(s - 1)
  BY <1>1 DEF AggressorFirst
<1>3. TellsStuck(s)' <=> TellsStuck(s)
  BY DEF TellsStuck, Bit
<1>4. TellsState(s)' <=> TellsState(s)
  BY <1>1, <1>2 DEF TellsState, Bit
<1>5. TellsTransition(s)' <=> TellsTransition(s)
  BY <1>1 DEF TellsTransition, Puts
<1>6. TellsCoupling(s)' <=> TellsCoupling(s)
  BY <1>1, <1>2 DEF TellsCoupling, Puts
<1>7. TellsInversion(s)' <=> TellsInversion(s)
  BY <1>1 DEF TellsInversion
<1>. QED
  BY <1>3, <1>4, <1>5, <1>6, <1>7 DEF Tells

LEMMA FoundVisit ==
  ASSUME IInv, Visit, HeldCell(memory), OthersMatch, MarchInv, FoundInv
  PROVE  FoundInv'
<1>1. /\ Sweeps' = Sweeps /\ UNCHANGED <<pattern, sweep, fault>>
      /\ sweep \in 1..Len(Sweeps) /\ errors_found \in Nat
      /\ errors_found' = IF Mismatch(Next_i) THEN errors_found + 1 ELSE errors_found
  BY VisitFacts
<1>2. VictimDone' <=> VictimDone \/ Next_i = Victim
  <2>1. Victim \in Words /\ Victim' = Victim
    BY <1>1, FaultFacts, VisitFacts DEF Victim
  <2>. QED
    BY <2>1, VisitFacts DEF VictimDone
<1>. SUFFICES ASSUME NEW s \in 1..Len(Sweeps), Passed(s)', Tells(s)
              PROVE  errors_found' > 0
  BY <1>1, SameTells DEF FoundInv
<1>3. CASE Passed(s)
  <2>1. errors_found > 0
    BY <1>3 DEF FoundInv
  <2>. QED
    BY <1>1, <2>1
<1>4. CASE ~Passed(s)
  <2>1. s = sweep /\ Next_i = Victim
    BY <1>1, <1>2, <1>4 DEF Passed
  <2>2. Mismatch(Next_i)
    BY <2>1, TellsMismatch
  <2>. QED
    BY <1>1, <2>2
<1>. QED
  BY <1>3, <1>4

LEMMA FoundNext ==
  ASSUME IInv, NextSweep, FoundInv
  PROVE  FoundInv'
<1>1. /\ Sweeps' = Sweeps /\ UNCHANGED <<pattern, fault, errors_found>>
      /\ sweep \in 1..(Len(Sweeps) - 1) /\ Len(Sweeps) \in Nat /\ sweep' = sweep + 1
  BY NextSweepFacts
<1>2. VictimDone /\ ~VictimDone'
  BY NextSweepFacts, FaultFacts DEF VictimDone, Victim
<1>3. \A s \in 1..Len(Sweeps) : Passed(s)' => Passed(s)
  <2>1. \A s \in 1..Len(Sweeps) : s < sweep + 1 => s < sweep \/ s = sweep
    BY <1>1
  <2>. QED
    BY <1>1, <1>2, <2>1 DEF Passed
<1>. QED
  BY <1>1, <1>3, SameTells DEF FoundInv

LEMMA FoundBegin ==
  ASSUME IInv, BeginPass
  PROVE  FoundInv'
<1>1. sweep' = 1 /\ Len(Sweeps') \in Nat
  BY BeginPassFacts
<1>2. ~VictimDone'
  BY BeginPassFacts, FaultFacts DEF VictimDone, Victim
<1>3. \A s \in 1..Len(Sweeps') : ~(s < 1)
  BY <1>1
<1>. QED
  BY <1>1, <1>2, <1>3 DEF FoundInv, Passed

LEMMA SameFaultInv ==
  ASSUME UNCHANGED <<pattern, noise, sweep, visited, memory, fault, errors_found>>
  PROVE  OthersMatch /\ MarchInv /\ FoundInv => (OthersMatch /\ MarchInv /\ FoundInv)'
<1>1. Sweeps' = Sweeps
  BY SameSweeps
<1>2. \A i : Ahead(i)' = Ahead(i) /\ Holds(i)' = Holds(i)
  BY <1>1 DEF Ahead, Holds
<1>3. /\ Victim' = Victim /\ Aggressor' = Aggressor
      /\ VictimDone' = VictimDone /\ AggressorDone' = AggressorDone
      /\ Inverts' = Inverts /\ Settled' = Settled
      /\ \A s : AggressorFirst(s)' = AggressorFirst(s)
  BY <1>1, <1>2 DEF Victim, Aggressor, VictimDone, AggressorDone, Inverts, Settled,
                    AggressorFirst
<1>4. OthersMatch => OthersMatch'
  BY <1>2 DEF OthersMatch, Bit
<1>5. TransitionInv => TransitionInv'
  BY <1>3 DEF TransitionInv, Bit
<1>6. CouplingInv => CouplingInv'
  BY <1>3 DEF CouplingInv, Bit, Puts
<1>7. InversionInv => InversionInv'
  BY <1>3 DEF InversionInv, Bit
<1>8. FoundInv => FoundInv'
  BY <1>1, <1>3, SameTells DEF FoundInv, Passed
<1>. QED
  BY <1>3, <1>4, <1>5, <1>6, <1>7, <1>8 DEF MarchInv

LEMMA FaultPreserved == IInv /\ FaultInv /\ [Next]_vars => FaultInv'
<1>. SUFFICES ASSUME IInv, FaultInv, [Next]_vars
              PROVE  FaultInv'
  OBVIOUS
<1>1. HeldCell(memory)' /\ fault' = fault
  BY HeldPreserved DEF FaultInv
<1>. DEFINE Following == OthersMatch /\ MarchInv /\ FoundInv
<1>2. CASE AllocationFails \/ Allocate \/ EndPass \/ EndRun \/ EndStop
  BY <1>2, <1>1 DEF AllocationFails, Allocate, EndPass, EndRun, EndStop, FaultInv
<1>3. ASSUME NEW p \in Patterns, NEW n \in 1..MaxPasses, Start(p, n)
      PROVE  worker' # "sweep"
  BY <1>3 DEF Start, IInv, Busy
<1>4. CASE BeginPass
  BY <1>4, <1>1, OthersBegin, MarchBegin, FoundBegin DEF FaultInv
<1>5. CASE Visit
  <2>1. worker = "sweep"
    BY <1>5 DEF Visit
  <2>. QED
    BY <1>5, <1>1, <2>1, OthersVisit, MarchVisit, FoundVisit DEF FaultInv
<1>6. CASE NextSweep
  <2>1. worker = "sweep"
    BY <1>6 DEF NextSweep
  <2>. QED
    BY <1>6, <1>1, <2>1, OthersNext, MarchNext, FoundNext DEF FaultInv
<1>7. CASE Stop \/ UNCHANGED vars
  <2>1. /\ UNCHANGED <<pattern, noise, sweep, visited, memory, fault, errors_found>>
        /\ worker' = worker
    BY <1>7 DEF Stop, vars, test
  <2>. QED
    BY <1>1, <2>1, SameFaultInv DEF FaultInv
<1>. QED
  BY <1>1, <1>2, <1>3, <1>4, <1>5, <1>6, <1>7 DEF Next, Worker, FaultInv

LEMMA InitFaultInv == Init => FaultInv
<1>. SUFFICES ASSUME Init
              PROVE  HeldCell(memory)
  BY DEF Init, FaultInv
<1>1. [i \in Words |-> {}] \in Word
  BY DEF Word, Values
<1>. QED
  BY <1>1, HeldBit DEF Init, Mapped

-----------------------------------------------------------------------------
(* Every pattern has a sweep that tells of the faults it must find.        *)

\* March C- writes each value going up and going down.
LEMMA MarchDirections ==
  ASSUME TypeOK, pattern = "MARCH_C_MINUS", Aggressor # Victim, NEW on \in {0, 1}
  PROVE  /\ \E s \in 2..5 : Puts(s) = on /\ Puts(s - 1) = 1 - on /\ AggressorFirst(s)
         /\ \E s \in 2..5 : Puts(s) = on /\ ~AggressorFirst(s)
         /\ \E s \in 2..5 : Puts(s - 1) = on /\ ~AggressorFirst(s)
<1>1. Aggressor \in Nat /\ Victim \in Nat
  BY FaultFacts, RamAssumption DEF TypeOK, Words
<1>2. /\ AggressorFirst(2) <=> Aggressor < Victim
      /\ AggressorFirst(3) <=> Aggressor < Victim
      /\ AggressorFirst(4) <=> ~(Aggressor < Victim)
      /\ AggressorFirst(5) <=> ~(Aggressor < Victim)
  <2>1. Sweeps[2].up /\ Sweeps[3].up /\ ~Sweeps[4].up /\ ~Sweeps[5].up
    BY MarchSweeps
  <2>2. Aggressor > Victim <=> ~(Aggressor < Victim)
    BY <1>1
  <2>. QED
    BY <2>1, <2>2 DEF AggressorFirst
<1>3. /\ Puts(1) = 0 /\ Puts(2) = 1 /\ Puts(3) = 0 /\ Puts(4) = 1 /\ Puts(5) = 0
      /\ 2 - 1 = 1 /\ 3 - 1 = 2 /\ 4 - 1 = 3 /\ 5 - 1 = 4
      /\ 2 \in 2..5 /\ 3 \in 2..5 /\ 4 \in 2..5 /\ 5 \in 2..5 /\ 1 - 1 = 0 /\ 1 - 0 = 1
  BY DEF Puts
<1>4. CASE on = 0
  BY <1>2, <1>3, <1>4
<1>5. CASE on = 1
  BY <1>2, <1>3, <1>5
<1>. QED
  BY <1>4, <1>5

LEMMA MarchTells ==
  ASSUME TypeOK, MustFind, pattern = "MARCH_C_MINUS"
  PROVE  \E s \in 1..Len(Sweeps) : Tells(s)
<1>1. /\ fault.at \in Cells /\ fault.by \in Cells
      /\ fault.on \in {0, 1} /\ fault.to \in {0, 1} /\ Len(Sweeps) = 6
  BY FaultFacts, MarchSweeps DEF TypeOK
<1>2. \A s \in 2..6 : \E f \in Sweeps[s].expect :
        \A c \in Cells : Bit(f, c) = Puts(s - 1)
  <2>. SUFFICES ASSUME NEW s \in 2..6
                PROVE  \E f \in Sweeps[s].expect : \A c \in Cells : Bit(f, c) = Puts(s - 1)
    OBVIOUS
  <2>1. PICK f : Sweeps[s].expect = {f} /\ Constant(f, Puts(s - 1))
    BY MarchSweeps
  <2>. QED
    BY <2>1 DEF Constant
<1>3. \A s \in 2..5 : \E f \in Sweeps[s].write : \A c \in Cells : Bit(f, c) = Puts(s)
  <2>. SUFFICES ASSUME NEW s \in 2..5
                PROVE  \E f \in Sweeps[s].write : \A c \in Cells : Bit(f, c) = Puts(s)
    OBVIOUS
  <2>1. PICK f : Sweeps[s].write = {f} /\ Constant(f, Puts(s))
    BY MarchSweeps
  <2>. QED
    BY <2>1 DEF Constant
<1>4. /\ Puts(1) = 0 /\ Puts(2) = 1 /\ Puts(3) = 0
      /\ 2 - 1 = 1 /\ 3 - 1 = 2 /\ 4 - 1 = 3 /\ 1 - 1 = 0 /\ 1 - 0 = 1
  BY DEF Puts
<1>5. CASE fault.kind = "stuck"
  <2>1. PICK s \in {2, 3} : Puts(s - 1) # fault.to
    BY <1>1, <1>4
  <2>2. \E f \in Sweeps[s].expect : Bit(f, fault.at) # fault.to
    BY <1>1, <1>2, <2>1
  <2>. QED
    BY <1>1, <1>5, <2>2 DEF Tells, TellsStuck
<1>6. CASE fault.kind = "transition"
  <2>1. PICK s \in {3, 4} : Puts(s - 1) = fault.to /\ s > Settled
    BY <1>1, <1>4 DEF Settled
  <2>. QED
    BY <1>1, <1>6, <2>1 DEF Tells, TellsTransition
<1>7. CASE Aggressor # Victim /\ fault.kind = "coupling"
  <2>1. CASE fault.to = fault.on
    <3>1. PICK s \in 2..5 : Puts(s) = fault.on /\ AggressorFirst(s)
      BY <1>1, <1>7, MarchDirections
    <3>. QED
      BY <1>1, <1>7, <2>1, <3>1 DEF Tells, TellsCoupling
  <2>2. CASE fault.to # fault.on
    <3>1. PICK s \in 2..5 : Puts(s) = fault.on /\ ~AggressorFirst(s)
      BY <1>1, <1>7, MarchDirections
    <3>2. s + 1 \in 3..6 /\ s + 1 \in 1..6 /\ s + 1 - 1 = s
      OBVIOUS
    <3>3. TellsCoupling(s + 1)
      BY <1>7, <2>2, <3>1, <3>2 DEF TellsCoupling
    <3>. QED
      BY <1>1, <3>2, <3>3 DEF Tells
  <2>. QED
    BY <2>1, <2>2
<1>8. CASE Aggressor # Victim /\ fault.kind = "inversion"
  <2>. DEFINE s == IF Aggressor < Victim THEN Inverts ELSE Inverts + 1
  <2>1. s \in 1..6
    BY <1>1 DEF Inverts
  <2>2. TellsInversion(s)
    BY <1>8 DEF TellsInversion
  <2>. QED
    BY <1>1, <2>1, <2>2 DEF Tells
<1>9. CASE Aggressor # Victim /\ fault.kind = "state"
  <2>1. CASE fault.to = fault.on
    <3>1. PICK s \in 2..5 : /\ Puts(s) = fault.on /\ Puts(s - 1) = 1 - fault.on
                            /\ AggressorFirst(s)
      BY <1>1, <1>9, MarchDirections
    <3>2. Puts(s - 1) # fault.to
      BY <1>1, <2>1, <3>1
    <3>3. \E f \in Sweeps[s].expect : Bit(f, fault.at) # fault.to
      BY <1>1, <1>2, <3>2
    <3>4. \E g \in Sweeps[s].write : Bit(g, fault.by) = fault.on
      BY <1>1, <1>3, <3>1
    <3>5. TellsState(s)
      BY <1>9, <3>1, <3>3, <3>4 DEF TellsState
    <3>. QED
      BY <1>1, <3>5 DEF Tells
  <2>2. CASE fault.to # fault.on
    <3>1. PICK s \in 2..5 : Puts(s - 1) = fault.on /\ ~AggressorFirst(s)
      BY <1>1, <1>9, MarchDirections
    <3>2. \E f \in Sweeps[s].expect : Bit(f, fault.at) # fault.to /\ Bit(f, fault.by) = fault.on
      BY <1>1, <1>2, <2>2, <3>1
    <3>3. TellsState(s)
      BY <1>9, <3>1, <3>2 DEF TellsState
    <3>. QED
      BY <1>1, <3>3 DEF Tells
  <2>. QED
    BY <2>1, <2>2
<1>. QED
  BY <1>5, <1>6, <1>7, <1>8, <1>9 DEF MustFind, Aggressor, Victim

LEMMA WalkingTells ==
  ASSUME TypeOK, fault.kind = "stuck", pattern \in {"WALKING_ONES", "WALKING_ZEROS"}
  PROVE  \E s \in 1..Len(Sweeps) : Tells(s)
<1>1. fault.at \in Cells /\ fault.to \in {0, 1}
  BY FaultFacts DEF TypeOK
<1>2. fault.at[1] \in Words /\ fault.at[2] \in Bits
  BY <1>1 DEF Cells
<1>3. PICK b \in Bits : b # fault.at[2]
  BY <1>2, RamAssumption DEF Bits
<1>4. \A m \in Values : Bit(All(m), fault.at) = IF fault.at[2] \in m THEN 1 ELSE 0
  BY <1>2 DEF Bit, All
\* The sweep that reads bit d after it was written.
<1>5. ASSUME NEW value \in [Bits -> Values], Sweeps = Walking(value), NEW d \in Bits,
             Bit(All(value[d]), fault.at) # fault.to
      PROVE  \E s \in 1..Len(Sweeps) : Tells(s)
  <2>1. 2 * d + 2 \in 1..Len(Sweeps) /\ Sweeps[2 * d + 2] = Reading(All(value[d]))
    BY <1>5, WalkingFacts
  <2>2. Sweeps[2 * d + 2].expect = {All(value[d])}
    BY <2>1 DEF Reading, Sweep
  <2>3. TellsStuck(2 * d + 2)
    BY <1>5, <2>2 DEF TellsStuck
  <2>. QED
    BY <2>1, <2>3 DEF Tells
<1>6. CASE pattern = "WALKING_ONES"
  <2>. DEFINE value == [e \in Bits |-> {e}]
  <2>1. value \in [Bits -> Values] /\ Sweeps = Walking(value)
    BY <1>6 DEF Values, Sweeps, SweepsOf, walking_ones
  <2>2. Bit(All(value[b]), fault.at) = 0 /\ Bit(All(value[fault.at[2]]), fault.at) = 1
    BY <1>2, <1>3, <1>4, <2>1
  <2>. HIDE DEF value
  <2>. QED
    BY <1>1, <1>2, <1>5, <2>1, <2>2
<1>7. CASE pattern = "WALKING_ZEROS"
  <2>. DEFINE value == [e \in Bits |-> Bits \ {e}]
  <2>1. value \in [Bits -> Values] /\ Sweeps = Walking(value)
    BY <1>7 DEF Values, Sweeps, SweepsOf, walking_zeros
  <2>2. Bit(All(value[b]), fault.at) = 1 /\ Bit(All(value[fault.at[2]]), fault.at) = 0
    BY <1>2, <1>3, <1>4, <2>1
  <2>. HIDE DEF value
  <2>. QED
    BY <1>1, <1>2, <1>5, <2>1, <2>2
<1>. QED
  BY <1>6, <1>7

\* The two boards are complements, and neighbours in a column differ.
LEMMA BoardBits ==
  ASSUME NEW c \in Cells
  PROVE  /\ Bit(Board(pat_b, pat_a), c) = 1 - Bit(Board(pat_a, pat_b), c)
         /\ \A d \in Cells : d[2] = c[2] /\ d[1] - c[1] \in {-1, 1} =>
              /\ Bit(Board(pat_a, pat_b), d) = 1 - Bit(Board(pat_a, pat_b), c)
              /\ Bit(Board(pat_b, pat_a), d) = 1 - Bit(Board(pat_b, pat_a), c)
<1>1. \A d \in Cells : d[1] \in Words /\ d[2] \in Bits /\ d[1] \in Nat
  BY RamAssumption DEF Cells, Words
<1>2. \A b \in Bits : b % 2 = 0 <=> ~(b % 2 = 1)
  BY RamAssumption DEF Bits
<1>3. \A d \in Cells :
        /\ Bit(Board(pat_a, pat_b), d) = IF (d[1] % 2 = 0) <=> (d[2] % 2 = 1) THEN 1 ELSE 0
        /\ Bit(Board(pat_b, pat_a), d) = IF (d[1] % 2 = 0) <=> (d[2] % 2 = 1) THEN 0 ELSE 1
  <2>. SUFFICES ASSUME NEW d \in Cells
                PROVE  /\ Bit(Board(pat_a, pat_b), d)
                            = IF (d[1] % 2 = 0) <=> (d[2] % 2 = 1) THEN 1 ELSE 0
                       /\ Bit(Board(pat_b, pat_a), d)
                            = IF (d[1] % 2 = 0) <=> (d[2] % 2 = 1) THEN 0 ELSE 1
    OBVIOUS
  <2>1. d[2] \in pat_a <=> d[2] % 2 = 1
    BY <1>1 DEF pat_a
  <2>2. d[2] \in pat_b <=> ~(d[2] % 2 = 1)
    BY <1>1, <1>2 DEF pat_b
  <2>3. /\ Board(pat_a, pat_b)[d[1]] = IF d[1] % 2 = 0 THEN pat_a ELSE pat_b
        /\ Board(pat_b, pat_a)[d[1]] = IF d[1] % 2 = 0 THEN pat_b ELSE pat_a
    BY <1>1 DEF Board
  <2>. QED
    BY <2>1, <2>2, <2>3 DEF Bit
<1>4. \A m, n \in Nat : m - n \in {-1, 1} => (m % 2 = 0 <=> ~(n % 2 = 0))
  OBVIOUS
<1>5. 1 - 0 = 1 /\ 1 - 1 = 0
  OBVIOUS
<1>. QED
  BY <1>1, <1>3, <1>4, <1>5

LEMMA CheckerboardTells ==
  ASSUME TypeOK, MustFind, pattern = "CHECKERBOARD"
  PROVE  \E s \in 1..Len(Sweeps) : Tells(s)
<1>1. /\ fault.at \in Cells /\ fault.by \in Cells
      /\ fault.on \in {0, 1} /\ fault.to \in {0, 1}
  BY FaultFacts DEF TypeOK
<1>2. /\ Len(Sweeps) = 4
      /\ Sweeps[2].expect = {Board(pat_a, pat_b)} /\ Sweeps[2].write = {}
      /\ Sweeps[4].expect = {Board(pat_b, pat_a)} /\ Sweeps[4].write = {}
  BY DEF Sweeps, SweepsOf, checkerboard, Reading, Sweep
<1>3. PICK s \in {2, 4}, f \in {Board(pat_a, pat_b), Board(pat_b, pat_a)} :
        /\ Sweeps[s].expect = {f} /\ Sweeps[s].write = {}
        /\ Bit(f, fault.at) = 1 - fault.to
  <2>1. /\ Bit(Board(pat_a, pat_b), fault.at) \in {0, 1}
        /\ Bit(Board(pat_b, pat_a), fault.at) = 1 - Bit(Board(pat_a, pat_b), fault.at)
    BY <1>1, BitRange, BoardBits
  <2>2. \/ Bit(Board(pat_a, pat_b), fault.at) = 1 - fault.to
        \/ Bit(Board(pat_b, pat_a), fault.at) = 1 - fault.to
    BY <1>1, <2>1
  <2>. QED
    BY <1>2, <2>2
<1>4. Bit(f, fault.at) # fault.to /\ s \in 1..4
  BY <1>1, <1>3
<1>5. CASE fault.kind = "stuck"
  BY <1>2, <1>3, <1>4, <1>5 DEF Tells, TellsStuck
<1>6. CASE fault.kind # "stuck"
  <2>1. /\ fault.kind = "state" /\ fault.on = fault.to
        /\ fault.by[2] = fault.at[2] /\ fault.by[1] - fault.at[1] \in {-1, 1}
    BY <1>6 DEF MustFind
  <2>2. Bit(f, fault.by) = 1 - Bit(f, fault.at)
    BY <1>1, <1>3, <2>1, BoardBits
  <2>3. Bit(f, fault.by) = fault.on
    BY <1>1, <1>3, <2>1, <2>2
  <2>4. Aggressor # Victim
    <3>1. fault.by[1] \in Nat /\ fault.at[1] \in Nat
      BY <1>1, RamAssumption DEF Cells, Words
    <3>. QED
      BY <2>1, <3>1 DEF Aggressor, Victim
  <2>5. TellsState(s)
    BY <1>3, <1>4, <2>1, <2>3, <2>4 DEF TellsState
  <2>. QED
    BY <1>2, <1>4, <2>5 DEF Tells
<1>. QED
  BY <1>5, <1>6

LEMMA MustFindTells ==
  ASSUME TypeOK, MustFind
  PROVE  \E s \in 1..Len(Sweeps) : Tells(s)
<1>1. pattern \in RamPattern
  BY RamAssumption DEF TypeOK
<1>2. CASE pattern = "MARCH_C_MINUS"
  BY <1>2, MarchTells
<1>3. CASE pattern = "CHECKERBOARD"
  BY <1>3, CheckerboardTells
<1>4. CASE pattern \in {"WALKING_ONES", "WALKING_ZEROS"}
  <2>1. fault.kind = "stuck"
    BY <1>4 DEF MustFind
  <2>. QED
    BY <1>4, <2>1, WalkingTells
<1>5. pattern \notin {"RANDOM", "BANDWIDTH"}
  BY DEF MustFind
<1>. QED
  BY <1>1, <1>2, <1>3, <1>4, <1>5 DEF RamPattern

-----------------------------------------------------------------------------
(* The theorems.                                                           *)

\* For a buffer of any length, words of any width, and any set of faults, every variable
\* keeps its type: a fault never makes the memory something other than words, and the
\* worker never runs past the last sweep of its pattern.
THEOREM TypeCorrect == Spec => []TypeOK
<1>1. IInv => TypeOK
  BY DEF IInv
<1> QED BY IInvAlways, <1>1, PTL

\* run() never reports an error in a memory that has no fault: not with any pattern, any
\* number of passes, or any stop() and start() between two words.
THEOREM NeverAFalseAlarm == Spec => []NoFalseAlarm
<1>1. IInv => NoFalseAlarm
  BY DEF IInv, Quiet, NoFalseAlarm
<1> QED BY IInvAlways, <1>1, PTL
\* With stop_on_error at most one wrong word is reported in a test: the error stops every
\* loop that is left, and only a start(), which clears the count, clears the request.
THEOREM OneErrorAtMost == Spec => []StopsAtFirstError
<1> DEFINE Once == stop_on_error => errors_found = 0 \/ (errors_found = 1 /\ stop_requested)
<1>1. Init => Once
  BY DEF Init
<1>2. Once /\ [Next]_vars => Once'
  <2> SUFFICES ASSUME Once, [Next]_vars PROVE Once'
    OBVIOUS
  <2>1. CASE Visit
    <3>1. ~stop_requested /\ stop_on_error' = stop_on_error
      BY <2>1 DEF Visit, test
    <3>2. CASE report_error
      <4>1. stop_on_error => stop_requested'
        BY <3>2, Zenon DEF report_error
      <4>2. errors_found = 0 => errors_found' = 1
        BY <3>2 DEF report_error
      <4> QED BY <3>1, <4>1, <4>2
    <3>3. CASE UNCHANGED <<errors_found, stop_requested>>
      BY <3>1, <3>3
    <3> QED BY <2>1, <3>2, <3>3 DEF Visit
  <2>2. CASE AllocationFails \/ Allocate \/ BeginPass \/ NextSweep \/ EndPass \/ EndRun
    BY <2>2 DEF AllocationFails, Allocate, BeginPass, NextSweep, EndPass, EndRun, test
  <2>3. CASE Stop \/ EndStop
    BY <2>3 DEF Stop, EndStop, test
  <2>4. ASSUME NEW p \in Patterns, NEW n \in 1..MaxPasses, Start(p, n)
        PROVE  Once'
    BY <2>4 DEF Start, ResetErrors
  <2>5. CASE UNCHANGED vars
    BY <2>5 DEF vars, test
  <2> QED BY <2>1, <2>2, <2>3, <2>4, <2>5 DEF Next, Worker
<1>3. Once => StopsAtFirstError
  BY DEF StopsAtFirstError
<1> QED BY <1>1, <1>2, <1>3, PTL DEF Spec

\* A complete pass of March C- finds every stuck-at and transition fault and every coupling
\* of two words, one of a walking pattern every cell that is stuck, one of the checkerboard
\* these and the neighbours that cannot differ: in a buffer of any length, with words of any
\* width, wherever in it the cells are, and whatever else was tested before.
THEOREM FindsItsFaultsHolds == Spec => []FindsItsFaults
<1>1. IInv /\ FaultInv => FindsItsFaults
  <2>. SUFFICES ASSUME IInv, FaultInv, PassComplete, MustFind
                PROVE  errors_found > 0
    BY DEF FindsItsFaults
  <2>1. TypeOK /\ FoundInv /\ sweep = Len(Sweeps) /\ visited = N
    BY DEF IInv, FaultInv, PassComplete
  <2>2. PICK s \in 1..Len(Sweeps) : Tells(s)
    BY <2>1, MustFindTells
  <2>3. VictimDone
    <3>1. Victim \in Words /\ Sweeps[sweep].up \in BOOLEAN
      BY <2>1, FaultFacts, SweepFacts DEF TypeOK, PassComplete, Chained, SweepOK
    <3>. QED
      BY <2>1, <3>1, RamAssumption DEF VictimDone, Ahead, Words
  <2>4. s < sweep \/ s = sweep
    <3>1. Len(Sweeps) \in Nat
      BY <2>1, SweepFacts DEF Chained
    <3>. QED
      BY <2>1, <3>1
  <2>. QED
    BY <2>1, <2>2, <2>3, <2>4 DEF FoundInv, Passed
<1>2. FaultInv /\ IInv /\ [Next]_vars => FaultInv'
  BY FaultPreserved
<1>. QED
  BY IInvAlways, InitFaultInv, <1>1, <1>2, PTL DEF Spec
=============================================================================
