--------------------------- MODULE StorageVerify ---------------------------
(***************************************************************************)
(* The data-integrity modes of StorageEngine (VERIFY_SEQ, VERIFY_RAND,     *)
(* FILL_VERIFY, BUTTERFLY): fill a test file with self-describing 4K       *)
(* blocks, flush, reopen it read-only, read every block back and judge it. *)
(*                                                                         *)
(* The worker thread runs one of the four mode functions; StorageEngine's  *)
(* stop() sets stop_requested_ from another thread at any moment; the      *)
(* device under test may refuse, lose, damage or misdirect blocks, and may *)
(* be a counterfeit that maps several block addresses to one cell.         *)
(***************************************************************************)
EXTENDS Integers, Sequences, FiniteSets

CONSTANTS
  Configs,     \* the configurations a run may have, records as in ConfigOK
  MaxFaults,   \* how many times the device may misbehave in a run
  LogCap,      \* capacity of error_log (1000 in the source)
  Word         \* 2^32: the block counters are uint32_t

Modes == {"VERIFY_SEQ", "VERIFY_RAND", "FILL_VERIFY", "BUTTERFLY"}
ErrorTypes == {"CRC_MISMATCH", "MAGIC_MISMATCH", "BLOCK_INDEX_MISMATCH",
               "PATTERN_MISMATCH", "IO_ERROR"}

(***************************************************************************)
(* A configuration: the mode, the number of 4K blocks in the file, the     *)
(* visiting order (VERIFY_RAND shuffles it, the other modes count up), the *)
(* device's address map, stop_on_error, and whether a duration was given.  *)
(***************************************************************************)
ConfigOK(c) ==
  /\ DOMAIN c = {"mode", "total", "order", "cell", "stop_on_error", "timed"}
  /\ c.mode \in Modes
  /\ c.total \in Nat /\ c.total < Word
  /\ c.order \in [0..(c.total - 1) -> 0..(c.total - 1)]
  /\ \A i \in 0..(c.total - 1) : \E k \in 0..(c.total - 1) : c.order[k] = i
  /\ \A j, k \in 0..(c.total - 1) : c.order[j] = c.order[k] => j = k
  /\ c.cell \in [0..(c.total - 1) -> 0..(c.total - 1)]
  /\ c.stop_on_error \in BOOLEAN
  /\ c.timed \in BOOLEAN

ASSUME StorageAssumption ==
  /\ \A c \in Configs : ConfigOK(c)
  /\ MaxFaults \in Nat
  /\ LogCap \in Nat
  /\ Word \in Nat \ {0}

VARIABLES
  cfg,         \* the parameters of this run; never changes
  pc,          \* where the worker is
  n,           \* loop counter of the counting loops
  low, high,   \* the two ends of the butterfly
  writes_done, \* butterfly's local count of writes
  disk,        \* what each cell of the device holds
  eof,         \* length of the test file, in blocks
  stop_requested,
  metrics,
  faults       \* device misbehaviours so far

vars == <<cfg, pc, n, low, high, writes_done, disk, eof, stop_requested,
          metrics, faults>>
device == <<disk, eof, faults>>
loop == <<n, low, high, writes_done>>

Blocks == 0..(cfg.total - 1)
Larger(a, b) == IF a >= b THEN a ELSE b

-----------------------------------------------------------------------------
(* Block format.  A payload is its pattern and the phase at which the      *)
(* pattern is laid down, which is all that tells two payloads apart; CRC32C *)
(* is taken to tell payloads apart, so a CRC is the payload it was         *)
(* computed over.                                                          *)

PATTERN_COUNT == 7
RANDOM == 4
Period(p) == IF p = 0 THEN 256 ELSE IF p = 1 THEN 2 ELSE IF p <= 3 THEN 8 ELSE 1

generate_pattern(pattern, i) ==
  <<pattern, IF pattern = RANDOM THEN i ELSE i % Period(pattern)>>

VERIFY_BLOCK_MAGIC == "OCVT"
Garbage == <<PATTERN_COUNT, 0>>      \* bytes no pattern produces
Payloads == (0..PATTERN_COUNT) \X Nat

pattern_for_block(i) == i % PATTERN_COUNT

fill_verify_block(i) ==
  LET payload == generate_pattern(pattern_for_block(i), i)
  IN  [magic |-> VERIFY_BLOCK_MAGIC, block_index |-> i,
       payload |-> payload, crc |-> payload]

\* A hole of the file reads as zeros: no magic.
Blank == [magic |-> "other", block_index |-> 0, payload |-> <<6, 0>>,
          crc |-> Garbage]

Content == [magic: {VERIFY_BLOCK_MAGIC, "other"}, block_index: Nat,
            payload: Payloads, crc: Payloads]

\* Mutant: a block that is consistent with itself is accepted anywhere.
verify_block_itself(c, i) ==
  IF c.magic # VERIFY_BLOCK_MAGIC THEN "MAGIC_MISMATCH"
  ELSE IF c.crc # c.payload THEN "CRC_MISMATCH" ELSE "OK"

\* The verdict on a block read where block i is expected, "OK" for nullopt.
verify_block(c, i) ==
  IF c.magic # VERIFY_BLOCK_MAGIC THEN "MAGIC_MISMATCH"
  ELSE IF c.block_index # i THEN "BLOCK_INDEX_MISMATCH"
  ELSE IF c.crc # c.payload THEN "CRC_MISMATCH"
  ELSE IF c.payload # generate_pattern(pattern_for_block(i), i)
         THEN "PATTERN_MISMATCH"
  ELSE "OK"

\* What the device holds where block i is looked up.
Stored(i) == disk[cfg.cell[i]]
Intact(i) == i < eof /\ Stored(i) = fill_verify_block(i)

-----------------------------------------------------------------------------
(* The device.  Every departure from storing and returning blocks as told  *)
(* counts as a fault; a counterfeit address map needs none.                *)

Misbehave == faults < MaxFaults /\ faults' = faults + 1

Damaged(c) == {[c EXCEPT !.magic = "other"],
               [c EXCEPT !.payload = Garbage],
               [c EXCEPT !.payload = Garbage, !.crc = Garbage]}

Put(i, at, c) ==
  /\ disk' = [disk EXCEPT ![cfg.cell[at]] = c]
  /\ eof' = Larger(eof, i + 1)

write_block_at(i) ==
  \/ Put(i, i, fill_verify_block(i)) /\ UNCHANGED faults
  \/ /\ Misbehave
     /\ \/ \E c \in Damaged(fill_verify_block(i)) : Put(i, i, c)
        \/ \E j \in Blocks \ {i} : Put(i, j, fill_verify_block(i))
        \/ Put(i, i, Stored(i))                           \* lost write

write_refused == Misbehave /\ UNCHANGED <<disk, eof>>

\* Reading block i yields c; reading past the end of the file is a short read.
read_block_at(i, c) ==
  /\ i < eof
  /\ UNCHANGED <<disk, eof>>
  /\ \/ c = Stored(i) /\ UNCHANGED faults
     \/ c \in Damaged(Stored(i)) /\ Misbehave

read_failed(i) ==
  /\ UNCHANGED <<disk, eof>>
  /\ \/ i >= eof /\ UNCHANGED faults
     \/ Misbehave

-----------------------------------------------------------------------------
(* Metrics.  progress_pct is kept in units of 50/total percent, so that     *)
(* the write phase fills 0..total and the verify phase total..2*total.      *)

NoErrors == [t \in ErrorTypes |-> 0]

\* Mutant: the first error reported is taken for the first block in error.
report_in_order(m, i, t) ==
  [m EXCEPT
     !.verify_errors = @ + 1,
     !.error_count = @ + 1,
     !.by_type[t] = @ + 1,
     !.first_error_block = IF m.verify_errors = 0 THEN i ELSE @,
     !.last_error_block = i,
     !.error_log = IF Len(@) < LogCap
                     THEN Append(@, [block_index |-> i, type |-> t]) ELSE @]

\* One lock-protected update: the totals, the counter of the error's type,
\* the range of blocks in error and the capped log.
report_storage_error(m, i, t) ==
  LET first == m.verify_errors = 0
  IN  [m EXCEPT
        !.verify_errors = @ + 1,
        !.error_count = @ + 1,
        !.by_type[t] = @ + 1,
        !.first_error_block = IF first \/ i < @ THEN i ELSE @,
        !.last_error_block = IF first \/ i > @ THEN i ELSE @,
        !.error_log = IF Len(@) < LogCap
                        THEN Append(@, [block_index |-> i, type |-> t]) ELSE @]

\* Mutant: stop_on_error leaves the loop without setting the flag.
ReportWithoutStopping(i, t, next, exit) ==
  /\ metrics' = report_storage_error(metrics, i, t)
  /\ UNCHANGED stop_requested
  /\ pc' = IF cfg.stop_on_error THEN exit ELSE next

\* The worker reports block i; stop_on_error turns the report into a stop and
\* leaves the loop for `exit`, otherwise the loop body goes on at `next`.
ReportAnd(i, t, next, exit) ==
  /\ metrics' = report_storage_error(metrics, i, t)
  /\ IF cfg.stop_on_error
       THEN stop_requested' = TRUE /\ pc' = exit
       ELSE UNCHANGED stop_requested /\ pc' = next

Goto(from, to) == pc = from /\ pc' = to

-----------------------------------------------------------------------------
Init ==
  /\ cfg \in Configs
  /\ pc = "enter"
  /\ n = 0 /\ low = 0 /\ high = 0 /\ writes_done = 0
  /\ disk = [k \in Blocks |-> Blank]
  /\ eof = 0
  /\ stop_requested = FALSE
  /\ metrics = [state |-> "testing", progress |-> 0, blocks_written |-> 0,
                blocks_verified |-> 0, verify_errors |-> 0, error_count |-> 0,
                by_type |-> NoErrors, first_error_block |-> 0,
                last_error_block |-> 0, error_log |-> <<>>]
  /\ faults = 0

\* An empty file has nothing to test.
EnterEmpty ==
  /\ cfg.total = 0
  /\ Goto("enter", "returned")
  /\ UNCHANGED <<cfg, device, loop, stop_requested, metrics>>

OpenFailed ==
  /\ pc' = "returned"
  /\ metrics' = [metrics EXCEPT !.state = "error", !.error_count = @ + 1]
  /\ Misbehave
  /\ UNCHANGED <<disk, eof, stop_requested>>

\* No memory for a block: the mode function returns, and says nothing of it.
BufferMissing == pc' = "returned" /\ UNCHANGED <<device, stop_requested, metrics>>

\* The write phase creates and truncates the file.
OpenForWrite ==
  /\ pc = "enter" /\ cfg.total > 0
  /\ UNCHANGED cfg
  /\ \/ (OpenFailed \/ BufferMissing) /\ UNCHANGED loop
     \/ /\ pc' = IF cfg.mode = "BUTTERFLY" THEN "write_low" ELSE "write"
        /\ n' = 0 /\ low' = 0 /\ high' = cfg.total - 1 /\ writes_done' = 0
        /\ UNCHANGED <<device, stop_requested, metrics>>

\* Mutant: running out of time leaves the loop without a stop request.
LoopEndsQuietly(here, more, exit) ==
  /\ pc = here
  /\ ~more \/ stop_requested \/ cfg.timed
  /\ pc' = exit
  /\ UNCHANGED <<cfg, device, loop, stop_requested, metrics>>

\* The tests at the head of a loop: the flag, then the clock, which is read
\* only when a duration was given and turns into a stop request.
LoopEnds(here, more, exit) ==
  /\ pc = here
  /\ \/ (~more \/ stop_requested) /\ UNCHANGED stop_requested
     \/ more /\ ~stop_requested /\ cfg.timed /\ stop_requested' = TRUE
  /\ pc' = exit
  /\ UNCHANGED <<cfg, device, loop, metrics>>

LoopRuns(here, more) == pc = here /\ more /\ ~stop_requested

-----------------------------------------------------------------------------
(* Write phase of the counting modes.                                      *)

WriteEnds == LoopEnds("write", n < cfg.total, "sync")

WriteBlock ==
  LET i == cfg.order[n]
  IN  /\ LoopRuns("write", n < cfg.total)
      /\ \/ /\ write_block_at(i)
            /\ pc' = "written"
            /\ UNCHANGED <<stop_requested, metrics>>
         \/ /\ write_refused
            /\ ReportAnd(i, "IO_ERROR", "written", "sync")
      /\ UNCHANGED <<cfg, loop>>

CountWrite ==
  /\ Goto("written", "write")
  /\ n' = n + 1
  /\ metrics' = [metrics EXCEPT !.blocks_written = @ + 1, !.progress = n + 1]
  /\ UNCHANGED <<cfg, device, low, high, writes_done, stop_requested>>

-----------------------------------------------------------------------------
(* Write phase of BUTTERFLY: both ends converge.                           *)

\* Mutant: the block in the middle is left out.
EndsApart == low < high

EndsNotCrossed == low <= high

ButterflyEnds == LoopEnds("write_low", EndsNotCrossed, "sync")

WriteLow ==
  /\ LoopRuns("write_low", EndsNotCrossed)
  /\ \/ /\ write_block_at(low)
        /\ pc' = "write_high"
        /\ UNCHANGED <<stop_requested, metrics>>
     \/ /\ write_refused
        /\ ReportAnd(low, "IO_ERROR", "write_high", "sync")
  /\ writes_done' = IF pc' = "sync" THEN writes_done ELSE writes_done + 1
  /\ UNCHANGED <<cfg, n, low, high>>

\* Mutant: the middle block is written from both ends.
WriteHighAlways ==
  /\ pc = "write_high"
  /\ \/ /\ write_block_at(high)
        /\ pc' = "count_pair"
        /\ UNCHANGED <<stop_requested, metrics>>
     \/ /\ write_refused
        /\ ReportAnd(high, "IO_ERROR", "count_pair", "sync")
  /\ writes_done' = IF pc' = "sync" THEN writes_done ELSE writes_done + 1
  /\ UNCHANGED <<cfg, n, low, high>>

WriteHigh ==
  /\ pc = "write_high"
  /\ \/ /\ low = high
        /\ pc' = "count_pair"
        /\ UNCHANGED <<device, writes_done, stop_requested, metrics>>
     \/ /\ low # high
        /\ \/ /\ write_block_at(high)
              /\ pc' = "count_pair"
              /\ UNCHANGED <<stop_requested, metrics>>
           \/ /\ write_refused
              /\ ReportAnd(high, "IO_ERROR", "count_pair", "sync")
        /\ writes_done' = IF pc' = "sync" THEN writes_done ELSE writes_done + 1
  /\ UNCHANGED <<cfg, n, low, high>>

\* Mutant: without the break.
CountPairNoBreak ==
  /\ Goto("count_pair", "write_low")
  /\ metrics' = [metrics EXCEPT !.blocks_written = writes_done,
                                !.progress = writes_done]
  /\ low' = (low + 1) % Word
  /\ high' = (high - 1) % Word
  /\ UNCHANGED <<cfg, n, writes_done, device, stop_requested>>

\* low++ and high-- on uint32_t; the break keeps high from wrapping below 0.
CountPair ==
  /\ pc = "count_pair"
  /\ metrics' = [metrics EXCEPT !.blocks_written = writes_done,
                                !.progress = writes_done]
  /\ low' = (low + 1) % Word
  /\ IF high = 0 THEN pc' = "sync" /\ high' = high
                 ELSE pc' = "write_low" /\ high' = (high - 1) % Word
  /\ UNCHANGED <<cfg, n, writes_done, device, stop_requested>>

-----------------------------------------------------------------------------
(* Flush, reopen read-only, and read every block back.                     *)

SyncAndReopen ==
  /\ pc = "sync"
  /\ n' = 0                                   \* the read loop's own counter
  /\ UNCHANGED <<cfg, low, high, writes_done>>
  /\ \/ /\ stop_requested
        /\ pc' = "returned"
        /\ UNCHANGED <<device, stop_requested, metrics>>
     \/ ~stop_requested /\ OpenFailed
     \/ /\ ~stop_requested
        /\ pc' = "read"
        /\ UNCHANGED <<device, stop_requested, metrics>>

ReadEnds == LoopEnds("read", n < cfg.total, "returned")

\* Mutant: a block that cannot be read is tried again.
ReadFailsRetries ==
  /\ LoopRuns("read", n < cfg.total)
  /\ read_failed(cfg.order[n])
  /\ UNCHANGED <<cfg, pc, loop, stop_requested, metrics>>

\* A block that cannot be read is reported and skipped, without being counted.
ReadFails ==
  LET i == cfg.order[n]
  IN  /\ LoopRuns("read", n < cfg.total)
      /\ read_failed(i)
      /\ ReportAnd(i, "IO_ERROR", "read", "returned")
      /\ n' = IF pc' = "read" THEN n + 1 ELSE n
      /\ UNCHANGED <<cfg, low, high, writes_done>>

ReadBlock ==
  LET i == cfg.order[n]
  IN  /\ LoopRuns("read", n < cfg.total)
      /\ \E c \in {Stored(i)} \cup Damaged(Stored(i)) :
           /\ read_block_at(i, c)
           /\ IF verify_block(c, i) = "OK"
                THEN pc' = "judged" /\ UNCHANGED <<stop_requested, metrics>>
                ELSE ReportAnd(i, verify_block(c, i), "judged", "returned")
      /\ UNCHANGED <<cfg, loop>>

CountVerified ==
  /\ Goto("judged", "read")
  /\ n' = n + 1
  /\ metrics' = [metrics EXCEPT !.blocks_verified = @ + 1,
                                !.progress = cfg.total + n + 1]
  /\ UNCHANGED <<cfg, device, low, high, writes_done, stop_requested>>

\* run() writes the final state whatever the mode function left there.
Complete ==
  /\ Goto("returned", "completed")
  /\ metrics' = [metrics EXCEPT !.state = "completed"]
  /\ UNCHANGED <<cfg, device, loop, stop_requested>>

-----------------------------------------------------------------------------
(* The rest of the world.                                                  *)

\* stop(), from the GUI, the CLI or the guardian.
RequestStop ==
  /\ pc # "completed" /\ ~stop_requested
  /\ stop_requested' = TRUE
  /\ UNCHANGED <<cfg, pc, device, loop, metrics>>

\* A cell loses its content while nobody looks.
Decay ==
  /\ pc \notin {"enter", "completed"}
  /\ Misbehave
  /\ \E k \in Blocks : \E c \in Damaged(disk[k]) : disk' = [disk EXCEPT ![k] = c]
  /\ UNCHANGED <<cfg, pc, loop, eof, stop_requested, metrics>>

Terminated == pc = "completed" /\ UNCHANGED vars

Worker ==
  \/ EnterEmpty \/ OpenForWrite
  \/ WriteEnds \/ WriteBlock \/ CountWrite
  \/ ButterflyEnds \/ WriteLow \/ WriteHigh \/ CountPair
  \/ SyncAndReopen \/ ReadEnds \/ ReadFails \/ ReadBlock \/ CountVerified
  \/ Complete

Next == Worker \/ RequestStop \/ Decay \/ Terminated

Spec == Init /\ [][Next]_vars

\* The worker is an OS thread that nothing blocks for ever; nobody need stop it.
FairSpec == Spec /\ WF_vars(Worker)

-----------------------------------------------------------------------------
(* Properties.                                                             *)

MetricsType ==
  [state: {"testing", "error", "completed"}, progress: 0..(2 * cfg.total),
   blocks_written: 0..cfg.total, blocks_verified: 0..cfg.total,
   verify_errors: Nat, error_count: Nat, by_type: [ErrorTypes -> Nat],
   first_error_block: Nat, last_error_block: Nat,
   error_log: Seq([block_index: Nat, type: ErrorTypes])]

\* Every variable stays in its range: the block counters within the file, the
\* progress within 0..100%, the uint32_t ends of the butterfly without wrapping.
TypeOK ==
  /\ cfg \in Configs
  /\ pc \in {"enter", "write", "written", "write_low", "write_high",
             "count_pair", "sync", "read", "judged", "returned", "completed"}
  /\ n \in 0..cfg.total
  /\ low \in 0..cfg.total /\ high \in 0..cfg.total
  /\ writes_done \in 0..cfg.total
  /\ disk \in [Blocks -> Content]
  /\ eof \in 0..cfg.total
  /\ stop_requested \in BOOLEAN
  /\ faults \in Nat
  /\ metrics \in MetricsType

\* A device with a cell of its own for every block.
GenuineDevice == \A i, j \in Blocks : cfg.cell[i] = cfg.cell[j] => i = j

\* A genuine device that did nothing wrong is never blamed, in any mode, at any
\* moment, however the test is stopped: no block is read before it was written,
\* and every block is read where, and with the pattern with which, it was written.
NoFalseAlarm == GenuineDevice /\ faults = 0 => metrics.error_count = 0

\* The verify loop ran to its end.
RanToEnd == pc \in {"returned", "completed"} /\ cfg.total > 0 /\ n = cfg.total

\* FILL_VERIFY's purpose ("fake USB/SSD detection"), and true of all four modes: a
\* device that folds several blocks onto one cell does not survive a test that
\* ran to its end without being reported.
CounterfeitReported == RanToEnd /\ ~GenuineDevice => metrics.verify_errors > 0

\* The counters that consumers read agree with each other and with the log in every
\* state a get_metrics() can observe: the per-type counters add up to
\* verify_errors, the log holds every error up to its capacity and lies
\* within the reported block range, which its ends attain.
ErrorAccounting ==
  LET m == metrics
      log == {m.error_log[k].block_index : k \in DOMAIN m.error_log}
      t == m.by_type
  IN  /\ m.verify_errors = t["CRC_MISMATCH"] + t["MAGIC_MISMATCH"]
           + t["BLOCK_INDEX_MISMATCH"] + t["PATTERN_MISMATCH"] + t["IO_ERROR"]
      /\ m.error_count - m.verify_errors \in {0, 1}
      /\ m.verify_errors <= LogCap => Len(m.error_log) = m.verify_errors
      /\ m.verify_errors > LogCap => Len(m.error_log) = LogCap
      /\ log \subseteq m.first_error_block..m.last_error_block
      /\ log # {} /\ m.verify_errors <= LogCap =>
           {m.first_error_block, m.last_error_block} \subseteq log

\* With stop_on_error the first error is the last: no later block, no second
\* phase and no other end of the butterfly adds one.
StopsAtFirstError == cfg.stop_on_error => metrics.verify_errors <= 1

\* Nothing is judged before everything was attempted: a partly written file is never
\* verified, even if the stop comes between the two phases.
VerifiedOnlyWhenFull ==
  /\ metrics.blocks_verified > 0 => metrics.blocks_written = cfg.total
  /\ metrics.blocks_verified <= metrics.blocks_written

\* Every mode ends, butterfly's uint32_t counters included.
EventuallyCompletes == <>(pc = "completed")

-----------------------------------------------------------------------------
(* What the properties rest on: how far each loop has got.                 *)

Butterfly == cfg.mode = "BUTTERFLY"

\* The butterfly's ends keep their distance, and close with every block written.
ButterflyInv ==
  /\ pc \in {"write_low", "write_high", "count_pair"} =>
       Butterfly /\ cfg.total > 0
  /\ pc = "write_low" =>
       /\ low + high = cfg.total - 1
       /\ writes_done = (IF low <= high THEN 2 * low ELSE cfg.total)
       /\ metrics.blocks_written = writes_done
  /\ pc = "write_high" =>
       low + high = cfg.total - 1 /\ low <= high /\ writes_done = 2 * low + 1
  /\ pc = "count_pair" =>
       /\ low + high = cfg.total - 1 /\ low <= high
       /\ writes_done = (IF low = high THEN 2 * low + 1 ELSE 2 * low + 2)

CountingInv ==
  /\ pc \in {"write", "written"} =>
       ~Butterfly /\ metrics.blocks_written = n
  /\ pc \in {"written", "judged"} => n < cfg.total

PhaseInv ==
  /\ pc = "enter" => n = 0 /\ metrics.blocks_written = 0
  /\ pc \notin {"read", "judged", "returned", "completed"} =>
       metrics.blocks_verified = 0 /\ metrics.progress <= cfg.total
  /\ pc = "sync" /\ ~stop_requested =>
       /\ IF Butterfly THEN low > high ELSE n = cfg.total
       /\ metrics.blocks_written = cfg.total
  /\ pc \in {"read", "judged"} =>
       /\ metrics.blocks_written = cfg.total
       /\ metrics.blocks_verified <= n
       /\ metrics.progress <= cfg.total + n
  /\ pc \notin {"enter", "returned", "completed"} => cfg.total > 0

LoopInv == ButterflyInv /\ CountingInv /\ PhaseInv

\* A block found in any cell lies within the file.
DiskInv ==
  \A k, i \in Blocks : disk[k] = fill_verify_block(i) => i < eof

-----------------------------------------------------------------------------
(* Refinement: every mode keeps the contract of an integrity test.         *)

Visited(from) == {cfg.order[k] : k \in from..(cfg.total - 1)}

\* The loops were left and the verify phase will not be entered or resumed.
GivenUp ==
  \/ pc \in {"returned", "completed"} /\ ~RanToEnd
  \/ pc = "sync" /\ stop_requested

PhaseBar ==
  IF pc \in {"read", "judged"} THEN "verify"
  ELSE IF RanToEnd THEN "concluded"
  ELSE IF GivenUp THEN "abandoned" ELSE "write"

\* Blocks the write phase has still to attempt ...
ToWrite ==
  IF pc = "enter" THEN Blocks
  ELSE IF pc = "write_high" THEN (low + 1)..high
  ELSE IF pc = "count_pair" THEN (low + 1)..(high - 1)
  ELSE IF Butterfly THEN low..high
  ELSE IF pc = "written" THEN Visited(n + 1) ELSE Visited(n)

\* ... and those the verify phase has still to judge.
ToJudge == IF pc = "judged" THEN Visited(n + 1) ELSE Visited(n)

TodoBar ==
  IF GivenUp \/ RanToEnd THEN {}
  ELSE IF pc \in {"read", "judged"} THEN ToJudge ELSE ToWrite

Contract == INSTANCE IntegrityContract
  WITH blocks <- Blocks, genuine <- GenuineDevice,
       phase <- PhaseBar, todo <- TodoBar,
       intact <- {i \in Blocks : Intact(i)},
       errors <- metrics.verify_errors

\* The four modes, with every interleaving of stop and device, implement the
\* contract: each block attempted once, then each judged once, blamed for cause.
ImplementsContract == Contract!Spec
=============================================================================
