----------------------------- MODULE RamEngine -----------------------------
(***************************************************************************)
(* RamEngine: a worker thread sweeps a buffer again and again, writing a   *)
(* pattern and reading it back, until its passes are over or somebody      *)
(* calls stop().  The memory under test may have a faulty cell.  Caches    *)
(* are left out: the code flushes them after every sweep that writes, so   *)
(* that a later sweep reads the memory itself.                             *)
(***************************************************************************)
EXTENDS Integers, Sequences

CONSTANTS
  N,          \* words in the buffer
  Width,      \* bits of a word (64)
  Faults,     \* the faults the memory may have, see FaultOK
  Noises,     \* what xoshiro256** may fill the buffer with
  Patterns,   \* the patterns a test may use
  MaxPasses,  \* bound: passes of one test
  MaxStarts   \* bound: how many times start() may be called

Words == 0..(N - 1)
Bits == 0..(Width - 1)
Values == SUBSET Bits        \* a word is the set of its bits that are 1
Cells == Words \X Bits

RamPattern == {"MARCH_C_MINUS", "WALKING_ONES", "WALKING_ZEROS", "CHECKERBOARD",
               "RANDOM", "BANDWIDTH"}

\* A fault of the cell `at`.  It is stuck at `to`; or it cannot change to `to`; or a
\* change of the cell `by` to `on` sets it to `to`, or inverts it; or it is held at `to`
\* for as long as `by` is `on`.
FaultOK(f) ==
  /\ f.kind \in {"none", "stuck", "transition", "coupling", "inversion", "state"}
  /\ {f.by, f.at} \subseteq Cells /\ {f.on, f.to} \subseteq {0, 1}

ASSUME RamAssumption ==
  /\ N \in Nat \ {0} /\ Width \in Nat \ {0, 1}
  /\ {MaxPasses, MaxStarts} \subseteq Nat
  /\ \A f \in Faults : FaultOK(f)
  /\ Noises \subseteq [Words -> Values] /\ Noises # {}
  /\ Patterns \subseteq RamPattern

VARIABLES
  running, stop_requested,
  worker,              \* "none", "allocate", "pass", "sweep", "exited"
  pattern, passes, stop_on_error,
  pass, sweep, visited,  \* the pass, the sweep in it, the words it has been to
  noise,               \* the random words of this pass
  memory, fault,
  errors_found,
  stopping,            \* a stop() holds start_stop_mutex_ and waits in its join
  terminated,          \* std::terminate was called
  starts

test == <<pattern, passes, stop_on_error, fault>>
clients == <<stopping, terminated, starts>>
vars == <<running, stop_requested, worker, test, pass, sweep, visited, noise,
          memory, errors_found, clients>>

-----------------------------------------------------------------------------
(* The memory.                                                             *)

Bit(m, c) == IF c[2] \in m[c[1]] THEN 1 ELSE 0
Put(m, c, v) ==
  [m EXCEPT ![c[1]] = IF v = 1 THEN @ \cup {c[2]} ELSE @ \ {c[2]}]

\* The cell that is stuck, or held, whatever was written.
Held(m) ==
  IF \/ fault.kind = "stuck"
     \/ fault.kind = "state" /\ Bit(m, fault.by) = fault.on
    THEN Put(m, fault.at, fault.to) ELSE m

\* Storing value v in word i of memory m.
Store(m, i, v) ==
  LET plain == [m EXCEPT ![i] = v]
      Changes(c, to) == Bit(m, c) # to /\ Bit(plain, c) = to
  IN  Held(IF fault.kind = "transition" /\ Changes(fault.at, fault.to)
             THEN Put(plain, fault.at, 1 - fault.to)
           ELSE IF fault.kind = "coupling" /\ Changes(fault.by, fault.on)
             THEN Put(plain, fault.at, fault.to)
           ELSE IF fault.kind = "inversion" /\ Changes(fault.by, fault.on)
             THEN Put(plain, fault.at, 1 - Bit(plain, fault.at))
           ELSE plain)

\* Fresh pages are full of zeros.
Mapped == Held([i \in Words |-> {}])

-----------------------------------------------------------------------------
(* The patterns.  A sweep goes up or down through the words; at each of    *)
(* them it expects what a function in `expect` says, and writes what one   *)
(* in `write` says; either set may be empty, and none has a second member. *)

Sweep(up, expect, write) == [up |-> up, expect |-> expect, write |-> write]
Writing(f) == Sweep(TRUE, {}, {f})
Reading(f) == Sweep(TRUE, {f}, {})
All(v) == [i \in Words |-> v]
Zeros == All({})
Ones == All(Bits)

\* Mutant: the descending half repeats the ascending one.
march_upwards ==
  <<Writing(Zeros),
    Sweep(TRUE, {Zeros}, {Ones}), Sweep(TRUE, {Ones}, {Zeros}),
    Sweep(TRUE, {Zeros}, {Ones}), Sweep(TRUE, {Ones}, {Zeros}),
    Reading(Zeros)>>

march_c_minus ==
  <<Writing(Zeros),
    Sweep(TRUE, {Zeros}, {Ones}), Sweep(TRUE, {Ones}, {Zeros}),
    Sweep(FALSE, {Zeros}, {Ones}), Sweep(FALSE, {Ones}, {Zeros}),
    Reading(Zeros)>>

\* One bit after the other: each pattern is written to all words and then read.
Walking(value) ==
  [s \in 1..(2 * Width) |->
     IF s % 2 = 1 THEN Writing(All(value[(s - 1) \div 2]))
                  ELSE Reading(All(value[(s - 2) \div 2]))]

walking_ones == Walking([b \in Bits |-> {b}])
walking_zeros == Walking([b \in Bits |-> Bits \ {b}])

pat_a == {b \in Bits : b % 2 = 1}    \* 0xAA..
pat_b == {b \in Bits : b % 2 = 0}    \* 0x55..
Board(even, odd) == [i \in Words |-> IF i % 2 = 0 THEN even ELSE odd]

\* Mutant: both verifying loops are the same.
same_board ==
  <<Writing(Board(pat_a, pat_b)), Reading(Board(pat_a, pat_b)),
    Writing(Board(pat_b, pat_a)), Reading(Board(pat_a, pat_b))>>

checkerboard ==
  <<Writing(Board(pat_a, pat_b)), Reading(Board(pat_a, pat_b)),
    Writing(Board(pat_b, pat_a)), Reading(Board(pat_b, pat_a))>>

\* Two generators with the same seed yield the same words.
random_pattern(words) == <<Writing(words), Reading(words)>>

bw_pattern == pat_a                  \* some value with bits of both kinds
bandwidth_test == <<Writing(All(bw_pattern)), Reading(All(bw_pattern))>>

SweepsOf(p, words) ==
  CASE p = "MARCH_C_MINUS" -> march_c_minus
    [] p = "WALKING_ONES"  -> walking_ones
    [] p = "WALKING_ZEROS" -> walking_zeros
    [] p = "CHECKERBOARD"  -> checkerboard
    [] p = "RANDOM"        -> random_pattern(words)
    [] p = "BANDWIDTH"     -> bandwidth_test

Sweeps == SweepsOf(pattern, noise)

-----------------------------------------------------------------------------
(* The worker, run().                                                      *)

Alive == ~terminated

AllocationFails ==
  /\ Alive /\ worker = "allocate"
  /\ worker' = "exited" /\ running' = FALSE
  /\ UNCHANGED <<stop_requested, test, pass, sweep, visited, noise, memory,
                 errors_found, clients>>

Allocate ==
  /\ Alive /\ worker = "allocate"
  /\ worker' = "pass" /\ pass' = 0 /\ memory' = Mapped
  /\ UNCHANGED <<running, stop_requested, test, sweep, visited, noise,
                 errors_found, clients>>

BeginPass ==
  /\ Alive /\ worker = "pass" /\ pass < passes /\ ~stop_requested
  /\ worker' = "sweep" /\ sweep' = 1 /\ visited' = 0
  /\ noise' \in IF pattern = "RANDOM" THEN Noises ELSE {noise}
  /\ UNCHANGED <<running, stop_requested, test, pass, memory, errors_found, clients>>

\* The word a sweep comes to next.
Next_i == IF Sweeps[sweep].up THEN visited ELSE N - 1 - visited

Mismatch(i) == \E f \in Sweeps[sweep].expect : memory[i] # f[i]

\* Mutant: the sweeps go on after an error.
report_only == errors_found' = errors_found + 1 /\ UNCHANGED stop_requested

report_error ==
  /\ errors_found' = errors_found + 1
  /\ stop_requested' = (stop_requested \/ stop_on_error)

\* One word: read it, report it if it is wrong, write it.
Visit ==
  LET i == Next_i
  IN  /\ Alive /\ worker = "sweep" /\ visited < N /\ ~stop_requested
      /\ IF Mismatch(i) THEN report_error
                        ELSE UNCHANGED <<errors_found, stop_requested>>
      /\ \/ Sweeps[sweep].write = {} /\ UNCHANGED memory
         \/ \E f \in Sweeps[sweep].write : memory' = Store(memory, i, f[i])
      /\ visited' = visited + 1
      /\ UNCHANGED <<running, worker, test, pass, sweep, noise, clients>>

\* Mutant: one sweep too many.
SweepPastEnd ==
  /\ Alive /\ worker = "sweep" /\ visited = N /\ ~stop_requested
  /\ sweep <= Len(Sweeps)
  /\ sweep' = sweep + 1 /\ visited' = 0
  /\ UNCHANGED <<running, stop_requested, worker, test, pass, noise, memory,
                 errors_found, clients>>

NextSweep ==
  /\ Alive /\ worker = "sweep" /\ visited = N /\ ~stop_requested
  /\ sweep < Len(Sweeps)
  /\ sweep' = sweep + 1 /\ visited' = 0
  /\ UNCHANGED <<running, stop_requested, worker, test, pass, noise, memory,
                 errors_found, clients>>

\* The last sweep is over, or every loop that is left ends at its first test.
EndPass ==
  /\ Alive /\ worker = "sweep"
  /\ stop_requested \/ (visited = N /\ sweep = Len(Sweeps))
  /\ worker' = "pass" /\ pass' = pass + 1
  /\ UNCHANGED <<running, stop_requested, test, sweep, visited, noise, memory,
                 errors_found, clients>>

\* Mutant: running_ is left for stop() to clear.
EndRunning == UNCHANGED running

ClearRunning == running' = FALSE

EndRun ==
  /\ Alive /\ worker = "pass" /\ (pass = passes \/ stop_requested)
  /\ worker' = "exited" /\ ClearRunning
  /\ UNCHANGED <<stop_requested, test, pass, sweep, visited, noise, memory,
                 errors_found, clients>>

-----------------------------------------------------------------------------
(* start() and stop().                                                     *)

\* metrics_ = RamMetrics{}
ResetErrors == errors_found' = 0

\* A test that ended by itself leaves a thread that nobody has joined; assigning a new
\* one to worker_ then ends the program.
Start(p, n) ==
  /\ Alive /\ ~stopping /\ ~running
  /\ starts < MaxStarts /\ starts' = starts + 1
  /\ pattern' = p /\ passes' = n
  /\ ResetErrors /\ stop_requested' = FALSE /\ running' = TRUE
  /\ IF worker = "none" THEN worker' = "allocate" /\ UNCHANGED terminated
                        ELSE terminated' = TRUE /\ UNCHANGED worker
  /\ UNCHANGED <<stop_on_error, fault, pass, sweep, visited, noise, memory, stopping>>

Stop ==
  /\ Alive /\ ~stopping
  /\ stopping' = TRUE /\ stop_requested' = TRUE
  /\ UNCHANGED <<running, worker, test, pass, sweep, visited, noise, memory,
                 errors_found, terminated, starts>>

EndStop ==
  /\ Alive /\ stopping /\ worker \in {"none", "exited"}
  /\ worker' = "none" /\ running' = FALSE /\ stopping' = FALSE
  /\ UNCHANGED <<stop_requested, test, pass, sweep, visited, noise, memory,
                 errors_found, terminated, starts>>

-----------------------------------------------------------------------------
Init ==
  /\ running = FALSE /\ stop_requested = FALSE /\ worker = "none"
  /\ pattern \in Patterns /\ passes = 1 /\ stop_on_error \in BOOLEAN
  /\ pass = 0 /\ sweep = 1 /\ visited = 0 /\ noise \in Noises
  /\ fault \in Faults /\ memory = Mapped
  /\ errors_found = 0
  /\ stopping = FALSE /\ terminated = FALSE /\ starts = 0

Worker ==
  AllocationFails \/ Allocate \/ BeginPass \/ Visit \/ NextSweep \/ EndPass \/ EndRun

Next ==
  \/ Worker \/ Stop \/ EndStop
  \/ \E p \in Patterns, n \in 1..MaxPasses : Start(p, n)

Spec == Init /\ [][Next]_vars

\* The worker runs; nobody has to call start() or stop().
FairSpec == Spec /\ WF_vars(Worker) /\ WF_vars(EndStop)

-----------------------------------------------------------------------------
(* Properties.                                                             *)

\* Every variable stays in its range; a sweep is one of the pattern's.
TypeOK ==
  /\ {running, stop_requested, stop_on_error, stopping, terminated} \subseteq BOOLEAN
  /\ worker \in {"none", "allocate", "pass", "sweep", "exited"}
  /\ pattern \in Patterns /\ passes \in Nat \ {0}
  /\ visited \in 0..N
  /\ worker = "pass" => pass \in 0..passes
  /\ worker = "sweep" => sweep \in 1..Len(Sweeps) /\ pass \in 0..(passes - 1)
  /\ noise \in Noises /\ fault \in Faults
  /\ memory \in [Words -> Values]
  /\ errors_found \in Nat /\ starts \in 0..MaxStarts

\* A memory without a fault is never blamed, by any pattern, however often and at
\* whatever word the test is stopped and started again.
NoFalseAlarm == fault.kind = "none" => errors_found = 0

\* The last word of a pass has been read, and nothing was skipped.
PassComplete == worker = "sweep" /\ sweep = Len(Sweeps) /\ visited = N

\* The faults a pattern is there to find: "stuck-at / coupling faults" for March C-
\* (ram_engine.h), between cells of different words; a cell stuck either way for the
\* patterns that put both values in every cell; for the checkerboard, too, two neighbours
\* that cannot differ ("to detect address-coupling faults between neighboring cells").
MustFind ==
  \/ fault.kind = "stuck" /\ pattern \notin {"RANDOM", "BANDWIDTH"}
  \/ /\ pattern = "MARCH_C_MINUS" /\ fault.kind = "transition"
  \/ /\ pattern = "MARCH_C_MINUS" /\ fault.by[1] # fault.at[1]
     /\ fault.kind \in {"coupling", "inversion", "state"}
  \/ /\ pattern = "CHECKERBOARD" /\ fault.kind = "state" /\ fault.on = fault.to
     /\ fault.by[2] = fault.at[2] /\ fault.by[1] - fault.at[1] \in {-1, 1}

\* One complete pass is enough to find them, wherever in the buffer they are.
FindsItsFaults == PassComplete /\ MustFind => errors_found > 0

\* With stop_on_error the first wrong word is the last one that is reported.
StopsAtFirstError == stop_on_error => errors_found <= 1

\* A test ends, be it that its memory cannot be allocated.
TestEnds == running ~> (~running \/ terminated)
=============================================================================
