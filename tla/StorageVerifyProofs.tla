------------------------- MODULE StorageVerifyProofs -------------------------
(***************************************************************************)
(* StorageVerify for every configuration: its type invariant, its safety    *)
(* invariants, and that the four modes implement IntegrityContract, whose  *)
(* promises they thereby keep.                                             *)
(***************************************************************************)
EXTENDS StorageVerify, TLAPS, SequenceTheorems

-----------------------------------------------------------------------------
(* The block format.                                                       *)

\* A block is filled with content that could be on a disk.
LEMMA FillType ==
  ASSUME NEW i \in Nat PROVE fill_verify_block(i) \in Content
<1>1. pattern_for_block(i) \in 0..(PATTERN_COUNT - 1)
  BY DEF pattern_for_block, PATTERN_COUNT
<1>2. ASSUME NEW p \in 0..(PATTERN_COUNT - 1)
      PROVE  generate_pattern(p, i) \in Payloads
  BY <1>2 DEF generate_pattern, Payloads, PATTERN_COUNT, Period, RANDOM
<1>3. QED
  BY <1>1, <1>2 DEF fill_verify_block, Content

LEMMA BlankType == Blank \in Content
  BY DEF Blank, Content, Payloads, Garbage, PATTERN_COUNT

LEMMA DamagedType ==
  ASSUME NEW c \in Content, NEW d \in Damaged(c) PROVE d \in Content
<1>1. Garbage \in Payloads
  BY DEF Garbage, Payloads, PATTERN_COUNT
<1>2. CASE d = [c EXCEPT !.magic = "other"]
  BY <1>2 DEF Content
<1>3. CASE d = [c EXCEPT !.payload = Garbage]
  BY <1>1, <1>3 DEF Content
<1>4. CASE d = [c EXCEPT !.payload = Garbage, !.crc = Garbage]
  BY <1>1, <1>4 DEF Content
<1>5. QED
  BY <1>2, <1>3, <1>4 DEF Damaged

\* Neither a hole nor damaged content can be taken for a filled block, and a block
\* cannot be taken for another.
LEMMA BlankIsNoFill ==
  ASSUME NEW i \in Nat PROVE Blank # fill_verify_block(i)
  BY DEF Blank, fill_verify_block, VERIFY_BLOCK_MAGIC

LEMMA DamagedIsNoFill ==
  ASSUME NEW c \in Content, NEW d \in Damaged(c), NEW i \in Nat
  PROVE  d # fill_verify_block(i)
<1>1. fill_verify_block(i).magic = VERIFY_BLOCK_MAGIC
  BY DEF fill_verify_block
<1>2. fill_verify_block(i).payload # Garbage
  BY DEF fill_verify_block, generate_pattern, pattern_for_block, Garbage,
         PATTERN_COUNT
<1>3. d.magic = "other" \/ d.payload = Garbage
  BY DEF Damaged, Content
<1>4. QED
  BY <1>1, <1>2, <1>3 DEF VERIFY_BLOCK_MAGIC

LEMMA FillInjective ==
  ASSUME NEW i \in Nat, NEW j \in Nat,
         fill_verify_block(i) = fill_verify_block(j)
  PROVE  i = j
<1>1. fill_verify_block(i).block_index = i /\ fill_verify_block(j).block_index = j
  BY DEF fill_verify_block
<1>2. QED
  BY <1>1

\* verify_block() accepts exactly what fill_verify_block() wrote for that index.
LEMMA VerdictExact ==
  ASSUME NEW c \in Content, NEW i \in Nat
  PROVE  /\ verify_block(c, i) = "OK" <=> c = fill_verify_block(i)
         /\ verify_block(c, i) # "OK" => verify_block(c, i) \in ErrorTypes
<1> DEFINE p == generate_pattern(pattern_for_block(i), i)
<1>1. c = fill_verify_block(i) <=>
        /\ c.magic = VERIFY_BLOCK_MAGIC
        /\ c.block_index = i /\ c.crc = c.payload /\ c.payload = p
  BY DEF Content, fill_verify_block
<1> HIDE DEF p
<1>2. QED
  BY <1>1 DEF verify_block, ErrorTypes, p

-----------------------------------------------------------------------------
(* The configuration and the device.                                       *)

\* What a configuration guarantees: the order visits every block once.
LEMMA ConfigFacts ==
  ASSUME cfg \in Configs
  PROVE  /\ cfg.total \in Nat /\ cfg.total < Word
         /\ cfg.order \in [Blocks -> Blocks]
         /\ \A i \in Blocks : \E k \in Blocks : cfg.order[k] = i
         /\ \A j, k \in Blocks : cfg.order[j] = cfg.order[k] => j = k
         /\ cfg.cell \in [Blocks -> Blocks]
         /\ cfg.stop_on_error \in BOOLEAN
         /\ Blocks \subseteq Nat
<1>1. ConfigOK(cfg)
  BY StorageAssumption DEF StorageAssumption
<1>2. cfg.total \in Nat /\ cfg.total < Word
  BY <1>1 DEF ConfigOK
<1>3. /\ cfg.order \in [Blocks -> Blocks]
      /\ \A i \in Blocks : \E k \in Blocks : cfg.order[k] = i
      /\ \A j, k \in Blocks : cfg.order[j] = cfg.order[k] => j = k
  BY <1>1 DEF ConfigOK, Blocks
<1>4. cfg.cell \in [Blocks -> Blocks]
  BY <1>1 DEF ConfigOK, Blocks
<1>5. cfg.stop_on_error \in BOOLEAN
  BY <1>1 DEF ConfigOK
<1>6. Blocks \subseteq Nat
  BY <1>2 DEF Blocks
<1>7. QED
  BY <1>2, <1>3, <1>4, <1>5, <1>6

DeviceOK ==
  /\ disk \in [Blocks -> Content]
  /\ eof \in 0..cfg.total
  /\ faults \in Nat

\* Whatever the device does with a block, it keeps holding blocks.
LEMMA PutType ==
  ASSUME cfg \in Configs, DeviceOK, NEW i \in Blocks, NEW j \in Blocks,
         NEW c \in Content, Put(i, j, c)
  PROVE  disk' \in [Blocks -> Content] /\ eof' \in 0..cfg.total
<1> cfg.total \in Nat /\ cfg.cell \in [Blocks -> Blocks]
  BY ConfigFacts
<1>1. disk' \in [Blocks -> Content]
  BY DEF Put, DeviceOK
<1>2. eof' \in 0..cfg.total
  BY DEF Put, DeviceOK, Larger, Blocks
<1>3. QED
  BY <1>1, <1>2

LEMMA WriteType ==
  ASSUME cfg \in Configs, DeviceOK, UNCHANGED cfg,
         NEW i \in Blocks, write_block_at(i)
  PROVE  DeviceOK'
<1>1. Blocks' = Blocks /\ i \in Nat
  BY ConfigFacts DEF Blocks
<1>2. fill_verify_block(i) \in Content
  BY <1>1, FillType
<1>3. Stored(i) \in Content
  BY ConfigFacts DEF Stored, DeviceOK
<1>4. faults' \in Nat
  BY DEF write_block_at, Misbehave, DeviceOK
<1>5. CASE Put(i, i, fill_verify_block(i))
  BY <1>1, <1>2, <1>4, <1>5, PutType DEF DeviceOK
<1>6. ASSUME NEW c \in Damaged(fill_verify_block(i)), Put(i, i, c)
      PROVE  DeviceOK'
  BY <1>1, <1>2, <1>4, <1>6, DamagedType, PutType DEF DeviceOK
<1>7. ASSUME NEW j \in Blocks \ {i}, Put(i, j, fill_verify_block(i))
      PROVE  DeviceOK'
  BY <1>1, <1>2, <1>4, <1>7, PutType DEF DeviceOK
<1>8. CASE Put(i, i, Stored(i))
  BY <1>1, <1>3, <1>4, <1>8, PutType DEF DeviceOK
<1>9. QED
  BY <1>5, <1>6, <1>7, <1>8 DEF write_block_at

-----------------------------------------------------------------------------
(* The metrics.                                                            *)

\* A report changes the error fields only, and counts one error.
LEMMA ReportFacts ==
  ASSUME NEW m \in MetricsType, NEW i \in Nat, NEW t \in ErrorTypes
  PROVE  LET r == report_storage_error(m, i, t)
         IN  /\ r \in MetricsType
             /\ r.verify_errors = m.verify_errors + 1
             /\ r.error_count = m.error_count + 1
             /\ r.progress = m.progress
             /\ r.blocks_written = m.blocks_written
             /\ r.blocks_verified = m.blocks_verified
<1> DEFINE S == [block_index: Nat, type: ErrorTypes]
           e == [block_index |-> i, type |-> t]
           r == report_storage_error(m, i, t)
<1>1. e \in S
  OBVIOUS
<1>2. Append(m.error_log, e) \in Seq(S)
  BY <1>1, AppendProperties DEF MetricsType
<1>3. [m.by_type EXCEPT ![t] = @ + 1] \in [ErrorTypes -> Nat]
  BY DEF MetricsType
<1> DEFINE first == IF m.verify_errors = 0 \/ i < m.first_error_block
                      THEN i ELSE m.first_error_block
           last == IF m.verify_errors = 0 \/ i > m.last_error_block
                     THEN i ELSE m.last_error_block
           log == IF Len(m.error_log) < LogCap
                    THEN Append(m.error_log, e) ELSE m.error_log
           types == [m.by_type EXCEPT ![t] = @ + 1]
<1>4. first \in Nat /\ last \in Nat /\ log \in Seq(S)
  BY <1>2 DEF MetricsType
<1>5. r = [m EXCEPT
            !.verify_errors = m.verify_errors + 1,
            !.error_count = m.error_count + 1,
            !.by_type = types, !.first_error_block = first,
            !.last_error_block = last, !.error_log = log]
  BY DEF report_storage_error, MetricsType
<1> HIDE DEF first, last, log, types, r, e
<1>6. /\ r.verify_errors = m.verify_errors + 1
      /\ r.error_count = m.error_count + 1
      /\ r.progress = m.progress
      /\ r.blocks_written = m.blocks_written
      /\ r.blocks_verified = m.blocks_verified
  BY <1>5 DEF MetricsType
<1>7. types \in [ErrorTypes -> Nat]
  BY <1>3 DEF types
<1>8. r \in MetricsType
  <2>1. /\ m.state \in {"testing", "error", "completed"}
        /\ m.progress \in 0..(2 * cfg.total)
        /\ m.blocks_written \in 0..cfg.total
        /\ m.blocks_verified \in 0..cfg.total
        /\ m.verify_errors + 1 \in Nat /\ m.error_count + 1 \in Nat
    BY DEF MetricsType
  <2>2. r = [state |-> m.state, progress |-> m.progress,
             blocks_written |-> m.blocks_written,
             blocks_verified |-> m.blocks_verified,
             verify_errors |-> m.verify_errors + 1,
             error_count |-> m.error_count + 1, by_type |-> types,
             first_error_block |-> first, last_error_block |-> last,
             error_log |-> log]
    BY <1>5 DEF MetricsType
  <2>3. QED
    BY <1>4, <1>7, <2>1, <2>2 DEF MetricsType
<1>9. QED
  BY <1>6, <1>8 DEF r

\* Metrics are the record of their fields.
LEMMA MetricsShape ==
  ASSUME NEW m \in MetricsType
  PROVE  m = [state |-> m.state, progress |-> m.progress,
              blocks_written |-> m.blocks_written,
              blocks_verified |-> m.blocks_verified,
              verify_errors |-> m.verify_errors, error_count |-> m.error_count,
              by_type |-> m.by_type, first_error_block |-> m.first_error_block,
              last_error_block |-> m.last_error_block,
              error_log |-> m.error_log]
  BY DEF MetricsType

\* The metrics with their state, counters and progress replaced.
Counted(s, e, w, v, p) ==
  [state |-> s, progress |-> p, blocks_written |-> w, blocks_verified |-> v,
   verify_errors |-> metrics.verify_errors, error_count |-> e,
   by_type |-> metrics.by_type,
   first_error_block |-> metrics.first_error_block,
   last_error_block |-> metrics.last_error_block,
   error_log |-> metrics.error_log]

LEMMA CountedType ==
  ASSUME metrics \in MetricsType, NEW s \in {"testing", "error", "completed"},
         NEW e \in Nat, NEW w \in 0..cfg.total, NEW v \in 0..cfg.total,
         NEW p \in 0..(2 * cfg.total), NEW r, r = Counted(s, e, w, v, p)
  PROVE  /\ r \in MetricsType
         /\ r.state = s /\ r.error_count = e /\ r.blocks_written = w
         /\ r.blocks_verified = v /\ r.progress = p
         /\ r.verify_errors = metrics.verify_errors
<1>1. r = [state |-> s, progress |-> p, blocks_written |-> w,
           blocks_verified |-> v, verify_errors |-> metrics.verify_errors,
           error_count |-> e, by_type |-> metrics.by_type,
           first_error_block |-> metrics.first_error_block,
           last_error_block |-> metrics.last_error_block,
           error_log |-> metrics.error_log]
  BY DEF Counted
<1>2. /\ metrics.verify_errors \in Nat /\ metrics.by_type \in [ErrorTypes -> Nat]
      /\ metrics.first_error_block \in Nat /\ metrics.last_error_block \in Nat
      /\ metrics.error_log \in Seq([block_index: Nat, type: ErrorTypes])
  BY DEF MetricsType
<1>3. r \in MetricsType
  BY <1>1, <1>2 DEF MetricsType
<1>4. /\ r.state = s /\ r.error_count = e /\ r.blocks_written = w
      /\ r.blocks_verified = v /\ r.progress = p
      /\ r.verify_errors = metrics.verify_errors
  BY <1>1
<1>5. QED
  BY <1>3, <1>4

-----------------------------------------------------------------------------
(* The inductive invariant, one lemma per action.                          *)

IInv == TypeOK /\ LoopInv

\* What every step lemma starts from.
LEMMA Setting ==
  ASSUME IInv, UNCHANGED cfg
  PROVE  /\ cfg.total \in Nat /\ cfg.total < Word
         /\ cfg.order \in [Blocks -> Blocks] /\ Blocks \subseteq Nat
         /\ Blocks' = Blocks /\ Butterfly' = Butterfly
         /\ MetricsType' = MetricsType
         /\ cfg' \in Configs
         /\ DeviceOK
         /\ metrics.blocks_written \in 0..cfg.total
         /\ metrics.blocks_verified \in 0..cfg.total
         /\ metrics.progress \in 0..(2 * cfg.total)
<1>1. cfg \in Configs /\ cfg' = cfg
  BY DEF IInv, TypeOK
<1>2. DeviceOK
  BY DEF IInv, TypeOK, DeviceOK
<1>3. metrics \in MetricsType
  BY DEF IInv, TypeOK
<1>4. /\ metrics.blocks_written \in 0..cfg.total
      /\ metrics.blocks_verified \in 0..cfg.total
      /\ metrics.progress \in 0..(2 * cfg.total)
  BY <1>3 DEF MetricsType
<1>5. Blocks' = Blocks /\ Butterfly' = Butterfly /\ MetricsType' = MetricsType
  BY <1>1 DEF Blocks, Butterfly, MetricsType
<1>6. QED
  BY <1>1, <1>2, <1>4, <1>5, ConfigFacts

LEMMA InitIInv == Init => IInv
<1> SUFFICES ASSUME Init PROVE IInv
  OBVIOUS
<1>1. cfg.total \in Nat /\ Blocks \subseteq Nat
  BY ConfigFacts DEF Init
<1>2. [t \in ErrorTypes |-> 0] \in [ErrorTypes -> Nat]
  OBVIOUS
<1>3. <<>> \in Seq([block_index: Nat, type: ErrorTypes])
  OBVIOUS
<1>4. metrics \in MetricsType
  BY <1>1, <1>2, <1>3 DEF Init, MetricsType, NoErrors
<1>5. disk \in [Blocks -> Content]
  BY BlankType DEF Init
<1>6. TypeOK
  <2>1. cfg \in Configs /\ pc = "enter" /\ n = 0 /\ low = 0 /\ high = 0
        /\ writes_done = 0 /\ eof = 0 /\ stop_requested = FALSE /\ faults = 0
    BY DEF Init
  <2>2. stop_requested \in BOOLEAN
    BY <2>1
  <2>3. pc \in {"enter", "write", "written", "write_low", "write_high",
             "count_pair", "sync", "read", "judged", "returned", "completed"}
    BY <2>1
  <2>4. /\ n \in 0..cfg.total /\ low \in 0..cfg.total /\ high \in 0..cfg.total
        /\ writes_done \in 0..cfg.total /\ eof \in 0..cfg.total
        /\ faults \in Nat
    BY <1>1, <2>1
  <2>5. QED
    BY <1>1, <1>4, <1>5, <2>1, <2>2, <2>3, <2>4 DEF TypeOK
<1>7. LoopInv
  BY <1>1 DEF Init, LoopInv, ButterflyInv, CountingInv, PhaseInv
<1>8. QED
  BY <1>6, <1>7 DEF IInv

LEMMA EnterEmptyStep ==
  ASSUME IInv, EnterEmpty PROVE IInv'
<1> USE DEF EnterEmpty, Goto, device, loop
<1>1. UNCHANGED <<Blocks, Butterfly, MetricsType>> /\ cfg' \in Configs
  BY Setting
<1>2. TypeOK'
  BY <1>1 DEF IInv, TypeOK
<1>3. LoopInv'
  BY <1>1 DEF LoopInv, ButterflyInv, CountingInv, PhaseInv
<1>4. QED
  BY <1>2, <1>3 DEF IInv

\* A failed open touches the state and the error count only.
LEMMA OpenFailedType ==
  ASSUME IInv, OpenFailed, UNCHANGED cfg
  PROVE  /\ DeviceOK' /\ metrics' \in MetricsType
         /\ metrics'.blocks_written = metrics.blocks_written
         /\ metrics'.verify_errors = metrics.verify_errors
<1>1. metrics \in MetricsType /\ metrics.error_count \in Nat
  BY DEF IInv, TypeOK, MetricsType
<1>2. metrics' = Counted("error", metrics.error_count + 1,
           metrics.blocks_written, metrics.blocks_verified, metrics.progress)
  BY <1>1 DEF OpenFailed, Counted, MetricsType
<1>3. /\ metrics' \in MetricsType
      /\ metrics'.blocks_written = metrics.blocks_written
      /\ metrics'.verify_errors = metrics.verify_errors
  <2>1. /\ metrics.blocks_written \in 0..cfg.total
        /\ metrics.blocks_verified \in 0..cfg.total
        /\ metrics.progress \in 0..(2 * cfg.total)
    BY Setting
  <2>2. "error" \in {"testing", "error", "completed"}
    OBVIOUS
  <2>3. metrics.error_count + 1 \in Nat
    BY <1>1
  <2>4. QED
    BY <1>1, <1>2, <2>1, <2>2, <2>3, CountedType
<1>4. DeviceOK'
  BY Setting DEF OpenFailed, Misbehave, DeviceOK
<1>5. QED
  BY <1>3, <1>4

LEMMA OpenForWriteStep ==
  ASSUME IInv, OpenForWrite PROVE IInv'
<1> USE DEF OpenForWrite
<1>1. /\ UNCHANGED <<Blocks, Butterfly, MetricsType>>
      /\ cfg.total \in Nat /\ cfg' \in Configs
  BY Setting
<1>2. CASE OpenFailed /\ UNCHANGED loop
  <2>1. TypeOK'
    BY <1>1, <1>2, OpenFailedType DEF IInv, TypeOK, DeviceOK, OpenFailed, loop
  <2>2. LoopInv'
    BY <1>1, <1>2 DEF OpenFailed, LoopInv, ButterflyInv, CountingInv, PhaseInv
  <2>3. QED
    BY <2>1, <2>2 DEF IInv
<1>3. CASE /\ pc' = IF Butterfly THEN "write_low" ELSE "write"
           /\ n' = 0 /\ low' = 0 /\ high' = cfg.total - 1 /\ writes_done' = 0
           /\ UNCHANGED <<device, stop_requested, metrics>>
  <2>1. TypeOK'
    BY <1>1, <1>3 DEF IInv, TypeOK, device
  <2>2. metrics'.blocks_written = 0 /\ metrics'.blocks_verified = 0
        /\ metrics'.progress <= cfg.total /\ n = 0
    BY <1>3 DEF IInv, LoopInv, PhaseInv
  <2>3. ButterflyInv'
    BY <1>1, <1>3, <2>2 DEF ButterflyInv
  <2>4. CountingInv' /\ PhaseInv'
    BY <1>1, <1>3, <2>2 DEF CountingInv, PhaseInv
  <2>5. QED
    BY <2>1, <2>3, <2>4 DEF IInv, LoopInv
<1>4. CASE BufferMissing /\ UNCHANGED loop
  <2>1. /\ pc = "enter" /\ pc' = "returned"
        /\ UNCHANGED <<loop, cfg, disk, eof, faults, stop_requested, metrics>>
    BY <1>4 DEF BufferMissing, device
  <2>2. TypeOK'
    BY <1>1, <2>1 DEF IInv, TypeOK, DeviceOK, loop
  <2>3. LoopInv'
    BY <1>1, <2>1 DEF IInv, LoopInv, ButterflyInv, CountingInv, PhaseInv, loop
  <2>4. QED
    BY <2>2, <2>3 DEF IInv
<1>5. QED
  BY <1>2, <1>3, <1>4 DEF Butterfly

\* The tests at the head of a loop change only the place and the flag, and the
\* loop is left early only when a stop is requested.
LEMMA LoopEndsFacts ==
  ASSUME IInv, NEW here, NEW more, NEW exit, LoopEnds(here, more, exit)
  PROVE  /\ UNCHANGED <<cfg, device, loop, metrics>>
         /\ pc = here /\ pc' = exit
         /\ stop_requested' \in BOOLEAN
         /\ more => stop_requested' = TRUE
<1>1. stop_requested = TRUE \/ stop_requested = FALSE
  BY DEF IInv, TypeOK
<1>2. /\ UNCHANGED <<cfg, device, loop, metrics>>
      /\ pc = here /\ pc' = exit
  BY DEF LoopEnds
<1>3. \/ ~more /\ stop_requested' = stop_requested
      \/ stop_requested /\ stop_requested' = stop_requested
      \/ stop_requested' = TRUE
  BY Zenon DEF LoopEnds
<1>4. QED
  BY <1>1, <1>2, <1>3

LEMMA WriteEndsStep ==
  ASSUME IInv, WriteEnds PROVE IInv'
<1>1. /\ UNCHANGED <<cfg, device, loop, metrics>>
      /\ pc = "write" /\ pc' = "sync"
      /\ stop_requested' \in BOOLEAN
      /\ n < cfg.total => stop_requested' = TRUE
  BY LoopEndsFacts DEF WriteEnds
<1>2. /\ UNCHANGED <<Blocks, Butterfly, MetricsType>>
      /\ cfg.total \in Nat /\ cfg' \in Configs
  BY <1>1, Setting
<1>3. TypeOK'
  BY <1>1, <1>2 DEF IInv, TypeOK, device, loop
<1>4. LoopInv'
  <2>1. ~Butterfly /\ metrics.blocks_written = n /\ cfg.total > 0
        /\ metrics.blocks_verified = 0 /\ metrics.progress <= cfg.total
    BY <1>1 DEF IInv, LoopInv, CountingInv, PhaseInv
  <2>2. n \in 0..cfg.total
    BY DEF IInv, TypeOK
  <2>3. ButterflyInv' /\ CountingInv'
    BY <1>1 DEF ButterflyInv, CountingInv
  <2>4. PhaseInv'
    BY <1>1, <1>2, <2>1, <2>2 DEF PhaseInv, loop
  <2>5. QED
    BY <2>3, <2>4 DEF LoopInv
<1>5. QED
  BY <1>3, <1>4 DEF IInv

\* Reporting an error keeps the counters of the loops, and where it does not
\* stop the worker the flag is as it was.
LEMMA ReportAndFacts ==
  ASSUME IInv, UNCHANGED cfg, NEW i \in Blocks, NEW t \in ErrorTypes, NEW next,
         NEW exit, ReportAnd(i, t, next, exit)
  PROVE  /\ metrics' \in MetricsType
         /\ metrics'.blocks_written = metrics.blocks_written
         /\ metrics'.blocks_verified = metrics.blocks_verified
         /\ metrics'.progress = metrics.progress
         /\ metrics'.verify_errors = metrics.verify_errors + 1
         /\ \/ pc' = exit /\ stop_requested' = TRUE
            \/ pc' = next /\ stop_requested' = stop_requested
         /\ cfg.stop_on_error => pc' = exit /\ stop_requested' = TRUE
<1>1. metrics \in MetricsType /\ i \in Nat
  BY Setting DEF IInv, TypeOK
<1>2. metrics' = report_storage_error(metrics, i, t)
  BY DEF ReportAnd
<1>3. /\ metrics' \in MetricsType
      /\ metrics'.blocks_written = metrics.blocks_written
      /\ metrics'.blocks_verified = metrics.blocks_verified
      /\ metrics'.progress = metrics.progress
      /\ metrics'.verify_errors = metrics.verify_errors + 1
  BY <1>1, <1>2, ReportFacts
<1>4. /\ \/ pc' = exit /\ stop_requested' = TRUE
         \/ pc' = next /\ stop_requested' = stop_requested
      /\ cfg.stop_on_error => pc' = exit /\ stop_requested' = TRUE
  BY Zenon DEF ReportAnd
<1>5. QED
  BY <1>3, <1>4

\* Attempting a block keeps the counters, and goes on or leaves with a stop.
Attempt(i, next) ==
  \/ /\ write_block_at(i)
     /\ pc' = next
     /\ UNCHANGED <<stop_requested, metrics>>
  \/ /\ write_refused
     /\ ReportAnd(i, "IO_ERROR", next, "sync")

LEMMA AttemptFacts ==
  ASSUME IInv, UNCHANGED cfg, NEW i \in Blocks, NEW next, Attempt(i, next)
  PROVE  /\ DeviceOK' /\ metrics' \in MetricsType
         /\ metrics'.blocks_written = metrics.blocks_written
         /\ metrics'.blocks_verified = metrics.blocks_verified
         /\ metrics'.progress = metrics.progress
         /\ \/ pc' = "sync" /\ stop_requested' = TRUE
            \/ pc' = next /\ stop_requested' = stop_requested
         /\ stop_requested' \in BOOLEAN
<1>1. cfg \in Configs /\ DeviceOK /\ Blocks' = Blocks
  BY Setting DEF IInv, TypeOK
<1>2. CASE /\ write_block_at(i)
           /\ pc' = next
           /\ UNCHANGED <<stop_requested, metrics>>
  <2>1. DeviceOK'
    BY <1>1, <1>2, WriteType
  <2>2. metrics \in MetricsType /\ stop_requested \in BOOLEAN
    BY DEF IInv, TypeOK
  <2>3. QED
    BY <1>2, <2>1, <2>2
<1>3. CASE write_refused /\ ReportAnd(i, "IO_ERROR", next, "sync")
  <2>1. DeviceOK'
    BY <1>1, <1>3 DEF write_refused, Misbehave, DeviceOK
  <2>2. "IO_ERROR" \in ErrorTypes
    BY DEF ErrorTypes
  <2>3. stop_requested \in BOOLEAN
    BY DEF IInv, TypeOK
  <2>4. QED
    BY <1>3, <2>1, <2>2, <2>3, ReportAndFacts
<1>4. QED
  BY <1>2, <1>3 DEF Attempt

LEMMA WriteBlockStep ==
  ASSUME IInv, WriteBlock PROVE IInv'
<1> DEFINE i == cfg.order[n]
<1>1. UNCHANGED <<cfg, loop>> /\ pc = "write" /\ n < cfg.total
  BY DEF WriteBlock, LoopRuns
<1>2. /\ UNCHANGED <<Blocks, Butterfly, MetricsType>>
      /\ cfg.total \in Nat /\ cfg' \in Configs
      /\ cfg.order \in [Blocks -> Blocks] /\ DeviceOK
  BY <1>1, Setting
<1>3. n \in Blocks /\ n \in 0..cfg.total
  BY <1>1, <1>2 DEF IInv, TypeOK, Blocks
<1>4. i \in Blocks
  BY <1>2, <1>3
<1> HIDE DEF i
<1>5. Attempt(i, "written")
  BY DEF WriteBlock, Attempt, i
<1>6. TypeOK'
  BY <1>1, <1>2, <1>4, <1>5, AttemptFacts DEF IInv, TypeOK, DeviceOK, loop
<1>7. LoopInv'
  <2>1. ~Butterfly /\ metrics.blocks_written = n /\ cfg.total > 0
        /\ metrics.blocks_verified = 0 /\ metrics.progress <= cfg.total
    BY <1>1 DEF IInv, LoopInv, CountingInv, PhaseInv
  <2>2. /\ metrics'.blocks_written = metrics.blocks_written
        /\ metrics'.blocks_verified = metrics.blocks_verified
        /\ metrics'.progress = metrics.progress
        /\ \/ pc' = "sync" /\ stop_requested' = TRUE
           \/ pc' = "written" /\ stop_requested' = stop_requested
    BY <1>1, <1>4, <1>5, AttemptFacts
  <2>3. ButterflyInv'
    BY <2>2 DEF ButterflyInv
  <2>4. CountingInv'
    BY <1>1, <1>2, <2>1, <2>2 DEF CountingInv, loop
  <2>5. PhaseInv'
    BY <1>1, <1>2, <2>1, <2>2 DEF PhaseInv, loop
  <2>6. QED
    BY <2>3, <2>4, <2>5 DEF LoopInv
<1>8. QED
  BY <1>6, <1>7 DEF IInv

LEMMA CountWriteStep ==
  ASSUME IInv, CountWrite PROVE IInv'
<1>1. /\ UNCHANGED <<cfg, device, low, high, writes_done, stop_requested>>
      /\ pc = "written" /\ pc' = "write" /\ n' = n + 1
      /\ metrics' = [metrics EXCEPT !.blocks_written = @ + 1, !.progress = n + 1]
  BY DEF CountWrite, Goto
<1>2. /\ UNCHANGED <<Blocks, Butterfly, MetricsType>>
      /\ cfg.total \in Nat /\ cfg' \in Configs
      /\ metrics.blocks_verified \in 0..cfg.total
  BY <1>1, Setting
<1>3. /\ n \in 0..cfg.total /\ n < cfg.total
      /\ metrics.blocks_written = n /\ metrics.blocks_verified = 0
      /\ ~Butterfly
  BY <1>1 DEF IInv, TypeOK, LoopInv, CountingInv, PhaseInv
<1>4. metrics \in MetricsType
  BY DEF IInv, TypeOK
<1>5. /\ metrics' \in MetricsType
      /\ metrics'.blocks_written = n + 1 /\ metrics'.blocks_verified = 0
      /\ metrics'.progress = n + 1
  <2>1. metrics.state \in {"testing", "error", "completed"}
        /\ metrics.error_count \in Nat
    BY <1>4 DEF MetricsType
  <2>2. metrics' = Counted(metrics.state, metrics.error_count, n + 1, 0, n + 1)
    BY <1>1, <1>3, <1>4 DEF Counted, MetricsType
  <2>3. n + 1 \in 0..cfg.total /\ n + 1 \in 0..(2 * cfg.total) /\ 0 \in 0..cfg.total
    BY <1>2, <1>3
  <2>4. QED
    BY <1>4, <2>1, <2>2, <2>3, CountedType
<1>6. TypeOK'
  BY <1>1, <1>2, <1>3, <1>5 DEF IInv, TypeOK, device
<1>7. ButterflyInv'
  BY <1>1 DEF ButterflyInv
<1>8. CountingInv' /\ PhaseInv'
  BY <1>1, <1>2, <1>3, <1>5 DEF CountingInv, PhaseInv
<1>9. QED
  BY <1>6, <1>7, <1>8 DEF IInv, LoopInv

LEMMA ButterflyEndsStep ==
  ASSUME IInv, ButterflyEnds PROVE IInv'
<1>1. /\ UNCHANGED <<cfg, device, loop, metrics>>
      /\ pc = "write_low" /\ pc' = "sync"
      /\ stop_requested' \in BOOLEAN
      /\ low <= high => stop_requested' = TRUE
  BY LoopEndsFacts DEF ButterflyEnds, EndsNotCrossed
<1>2. /\ UNCHANGED <<Blocks, Butterfly, MetricsType>>
      /\ cfg.total \in Nat /\ cfg' \in Configs
  BY <1>1, Setting
<1>3. TypeOK'
  BY <1>1, <1>2 DEF IInv, TypeOK, device, loop
<1>4. /\ Butterfly /\ cfg.total > 0
      /\ metrics.blocks_written = (IF low <= high THEN 2 * low ELSE cfg.total)
      /\ metrics.blocks_verified = 0 /\ metrics.progress <= cfg.total
      /\ low \in 0..cfg.total /\ high \in 0..cfg.total
  BY <1>1 DEF IInv, TypeOK, LoopInv, ButterflyInv, PhaseInv
<1>5. ButterflyInv' /\ CountingInv'
  BY <1>1 DEF ButterflyInv, CountingInv
<1>6. PhaseInv'
  BY <1>1, <1>2, <1>4 DEF PhaseInv, loop
<1>7. QED
  BY <1>3, <1>5, <1>6 DEF IInv, LoopInv

LEMMA WriteLowStep ==
  ASSUME IInv, WriteLow PROVE IInv'
<1>1. /\ UNCHANGED <<cfg, n, low, high>>
      /\ pc = "write_low" /\ low <= high
      /\ writes_done' = IF pc' = "sync" THEN writes_done ELSE writes_done + 1
      /\ Attempt(low, "write_high")
  BY DEF WriteLow, LoopRuns, Attempt, EndsNotCrossed
<1>2. /\ UNCHANGED <<Blocks, Butterfly, MetricsType>>
      /\ cfg.total \in Nat /\ cfg' \in Configs
  BY <1>1, Setting
<1>3. /\ Butterfly /\ cfg.total > 0
      /\ low + high = cfg.total - 1 /\ writes_done = 2 * low
      /\ metrics.blocks_verified = 0 /\ metrics.progress <= cfg.total
      /\ low \in 0..cfg.total /\ high \in 0..cfg.total
  BY <1>1 DEF IInv, TypeOK, LoopInv, ButterflyInv, PhaseInv
<1>4. low \in Blocks
  BY <1>1, <1>2, <1>3 DEF Blocks
<1>5. /\ DeviceOK' /\ metrics' \in MetricsType
      /\ metrics'.blocks_verified = 0 /\ metrics'.progress <= cfg.total
      /\ \/ pc' = "sync" /\ stop_requested' = TRUE
         \/ pc' = "write_high"
      /\ stop_requested' \in BOOLEAN
  BY <1>1, <1>3, <1>4, AttemptFacts
<1>6. writes_done' \in 0..cfg.total
  BY <1>1, <1>2, <1>3
<1>7. TypeOK'
  BY <1>1, <1>2, <1>3, <1>5, <1>6 DEF IInv, TypeOK, DeviceOK
<1>8. ButterflyInv'
  BY <1>1, <1>2, <1>3, <1>5 DEF ButterflyInv
<1>9. CountingInv' /\ PhaseInv'
  BY <1>1, <1>2, <1>3, <1>5 DEF CountingInv, PhaseInv
<1>10. QED
  BY <1>7, <1>8, <1>9 DEF IInv, LoopInv

LEMMA WriteHighStep ==
  ASSUME IInv, WriteHigh PROVE IInv'
<1>1. /\ UNCHANGED <<cfg, n, low, high>>
      /\ pc = "write_high"
      /\ \/ /\ low = high /\ pc' = "count_pair"
            /\ UNCHANGED <<device, writes_done, stop_requested, metrics>>
         \/ /\ low # high
            /\ Attempt(high, "count_pair")
            /\ writes_done' = IF pc' = "sync" THEN writes_done ELSE writes_done + 1
  BY DEF WriteHigh, Attempt
<1>2. /\ UNCHANGED <<Blocks, Butterfly, MetricsType>>
      /\ cfg.total \in Nat /\ cfg' \in Configs /\ DeviceOK
  BY <1>1, Setting
<1>3. /\ Butterfly /\ cfg.total > 0
      /\ low + high = cfg.total - 1 /\ low <= high /\ writes_done = 2 * low + 1
      /\ metrics.blocks_verified = 0 /\ metrics.progress <= cfg.total
      /\ low \in 0..cfg.total /\ high \in 0..cfg.total
  BY <1>1 DEF IInv, TypeOK, LoopInv, ButterflyInv, PhaseInv
<1>4. high \in Blocks
  BY <1>2, <1>3 DEF Blocks
<1>5. metrics \in MetricsType /\ stop_requested \in BOOLEAN
  BY DEF IInv, TypeOK
<1>6. /\ DeviceOK' /\ metrics' \in MetricsType
      /\ metrics'.blocks_verified = 0 /\ metrics'.progress <= cfg.total
      /\ \/ pc' = "sync" /\ stop_requested' = TRUE
         \/ pc' = "count_pair"
      /\ stop_requested' \in BOOLEAN
      /\ pc' = "count_pair" =>
           writes_done' = (IF low = high THEN 2 * low + 1 ELSE 2 * low + 2)
      /\ pc' = "sync" => writes_done' = writes_done
  <2>1. CASE /\ low = high /\ pc' = "count_pair"
             /\ UNCHANGED <<device, writes_done, stop_requested, metrics>>
    BY <1>1, <1>2, <1>3, <1>5, <2>1 DEF DeviceOK, device
  <2>2. CASE /\ low # high /\ Attempt(high, "count_pair")
             /\ writes_done' = IF pc' = "sync" THEN writes_done ELSE writes_done + 1
    <3>1. /\ DeviceOK' /\ metrics' \in MetricsType
          /\ metrics'.blocks_verified = 0 /\ metrics'.progress <= cfg.total
          /\ \/ pc' = "sync" /\ stop_requested' = TRUE
             \/ pc' = "count_pair"
          /\ stop_requested' \in BOOLEAN
      BY <1>1, <1>3, <1>4, <2>2, AttemptFacts
    <3>2. QED
      BY <1>3, <2>2, <3>1
  <2>3. QED
    BY <1>1, <2>1, <2>2
<1>7. writes_done' \in 0..cfg.total
  BY <1>2, <1>3, <1>6
<1>8. TypeOK'
  BY <1>1, <1>2, <1>3, <1>6, <1>7 DEF IInv, TypeOK, DeviceOK
<1>9. ButterflyInv'
  BY <1>1, <1>2, <1>3, <1>6 DEF ButterflyInv
<1>10. CountingInv' /\ PhaseInv'
  BY <1>1, <1>2, <1>3, <1>6 DEF CountingInv, PhaseInv
<1>11. QED
  BY <1>8, <1>9, <1>10 DEF IInv, LoopInv

\* A counter below 2^32 is what uint32_t makes of it.
LEMMA NoWrap ==
  ASSUME NEW w \in Nat \ {0}, NEW x \in 0..(w - 1) PROVE x % w = x
  OBVIOUS

LEMMA CountPairStep ==
  ASSUME IInv, CountPair PROVE IInv'
<1>1. /\ UNCHANGED <<cfg, n, writes_done, device, stop_requested>>
      /\ pc = "count_pair" /\ low' = (low + 1) % Word
      /\ IF high = 0 THEN pc' = "sync" /\ high' = high
                     ELSE pc' = "write_low" /\ high' = (high - 1) % Word
      /\ metrics' = [metrics EXCEPT !.blocks_written = writes_done,
                                    !.progress = writes_done]
  BY DEF CountPair
<1>2. /\ UNCHANGED <<Blocks, Butterfly, MetricsType>>
      /\ cfg.total \in Nat /\ cfg.total < Word /\ cfg' \in Configs
  BY <1>1, Setting
<1>3. /\ Butterfly /\ cfg.total > 0
      /\ low + high = cfg.total - 1 /\ low <= high
      /\ writes_done = (IF low = high THEN 2 * low + 1 ELSE 2 * low + 2)
      /\ metrics.blocks_verified = 0 /\ metrics.progress <= cfg.total
      /\ low \in 0..cfg.total /\ high \in 0..cfg.total
      /\ writes_done \in 0..cfg.total
  BY <1>1 DEF IInv, TypeOK, LoopInv, ButterflyInv, PhaseInv
<1>4. low + 1 \in 0..(Word - 1) /\ (high # 0 => high - 1 \in 0..(Word - 1))
      /\ Word \in Nat \ {0}
  BY <1>2, <1>3, StorageAssumption DEF StorageAssumption
<1>5. low' = low + 1 /\ high' = (IF high = 0 THEN 0 ELSE high - 1)
  BY <1>1, <1>4, NoWrap
<1>6. metrics \in MetricsType
  BY DEF IInv, TypeOK
<1>7. /\ metrics' \in MetricsType
      /\ metrics'.blocks_written = writes_done /\ metrics'.blocks_verified = 0
      /\ metrics'.progress = writes_done
  <2>1. metrics.state \in {"testing", "error", "completed"}
        /\ metrics.error_count \in Nat
    BY <1>6 DEF MetricsType
  <2>2. metrics' = Counted(metrics.state, metrics.error_count, writes_done, 0,
                           writes_done)
    BY <1>1, <1>3, <1>6 DEF Counted, MetricsType
  <2>3. /\ writes_done \in 0..(2 * cfg.total) /\ writes_done \in 0..cfg.total
        /\ 0 \in 0..cfg.total
    BY <1>2, <1>3
  <2>4. QED
    BY <1>6, <2>1, <2>2, <2>3, CountedType
<1>8. low' \in 0..cfg.total /\ high' \in 0..cfg.total
  BY <1>2, <1>3, <1>5
<1>9. TypeOK'
  BY <1>1, <1>2, <1>7, <1>8 DEF IInv, TypeOK, device
<1>10. ButterflyInv'
  <2>1. CASE high = 0
    BY <1>1, <2>1 DEF ButterflyInv
  <2>2. CASE high # 0
    <3>1. pc' = "write_low" /\ low' = low + 1 /\ high' = high - 1
      BY <1>1, <1>5, <2>2
    <3>2. /\ low' + high' = cfg'.total - 1
          /\ writes_done' = (IF low' <= high' THEN 2 * low' ELSE cfg'.total)
      BY <1>1, <1>2, <1>3, <3>1
    <3>3. QED
      BY <1>1, <1>2, <1>3, <1>7, <3>1, <3>2 DEF ButterflyInv
  <2>3. QED
    BY <2>1, <2>2
<1>11. CountingInv'
  BY <1>1 DEF CountingInv
<1>12. PhaseInv'
  <2>1. CASE high = 0
    <3>1. low = 0 /\ cfg.total = 1 /\ writes_done = 1
      BY <1>2, <1>3, <2>1
    <3>2. pc' = "sync" /\ low' = 1 /\ high' = 0
      BY <1>1, <1>5, <2>1, <3>1
    <3>3. /\ metrics'.blocks_written = cfg'.total /\ metrics'.blocks_verified = 0
          /\ metrics'.progress <= cfg'.total /\ low' > high' /\ cfg'.total > 0
          /\ Butterfly'
      BY <1>1, <1>2, <1>3, <1>7, <3>1, <3>2
    <3>4. QED
      BY <3>2, <3>3 DEF PhaseInv
  <2>2. CASE high # 0
    BY <1>1, <1>2, <1>3, <1>7, <2>2 DEF PhaseInv
  <2>3. QED
    BY <2>1, <2>2
<1>13. QED
  BY <1>9, <1>10, <1>11, <1>12 DEF IInv, LoopInv

LEMMA SyncAndReopenStep ==
  ASSUME IInv, SyncAndReopen PROVE IInv'
<1>1. /\ UNCHANGED <<cfg, low, high, writes_done>>
      /\ pc = "sync" /\ n' = 0
      /\ \/ /\ stop_requested /\ pc' = "returned"
            /\ UNCHANGED <<device, stop_requested, metrics>>
         \/ OpenFailed
         \/ /\ ~stop_requested /\ pc' = "read"
            /\ UNCHANGED <<device, stop_requested, metrics>>
  BY DEF SyncAndReopen
<1>2. /\ UNCHANGED <<Blocks, Butterfly, MetricsType>>
      /\ cfg.total \in Nat /\ cfg' \in Configs /\ DeviceOK
  BY <1>1, Setting
<1>3. metrics \in MetricsType /\ stop_requested \in BOOLEAN
  BY DEF IInv, TypeOK
<1>4. /\ metrics.blocks_verified = 0 /\ metrics.progress <= cfg.total
      /\ ~stop_requested => metrics.blocks_written = cfg.total
      /\ cfg.total > 0
  BY <1>1 DEF IInv, LoopInv, PhaseInv
<1>5. CASE OpenFailed
  <2>1. /\ DeviceOK' /\ metrics' \in MetricsType
        /\ pc' = "returned" /\ stop_requested' = stop_requested
    BY <1>1, <1>5, OpenFailedType DEF OpenFailed
  <2>2. TypeOK'
    BY <1>1, <1>2, <1>3, <2>1 DEF IInv, TypeOK, DeviceOK
  <2>3. LoopInv'
    BY <1>1, <1>2, <2>1 DEF LoopInv, ButterflyInv, CountingInv, PhaseInv
  <2>4. QED
    BY <2>2, <2>3 DEF IInv
<1>6. CASE /\ stop_requested /\ pc' = "returned"
           /\ UNCHANGED <<device, stop_requested, metrics>>
  <2>1. TypeOK'
    BY <1>1, <1>2, <1>6 DEF IInv, TypeOK, device
  <2>2. LoopInv'
    BY <1>1, <1>2, <1>6 DEF LoopInv, ButterflyInv, CountingInv, PhaseInv
  <2>3. QED
    BY <2>1, <2>2 DEF IInv
<1>7. CASE /\ ~stop_requested /\ pc' = "read"
           /\ UNCHANGED <<device, stop_requested, metrics>>
  <2>1. TypeOK'
    BY <1>1, <1>2, <1>7 DEF IInv, TypeOK, device
  <2>2. ButterflyInv' /\ CountingInv'
    BY <1>1, <1>2, <1>7 DEF ButterflyInv, CountingInv
  <2>3. PhaseInv'
    BY <1>1, <1>2, <1>4, <1>7 DEF PhaseInv
  <2>4. QED
    BY <2>1, <2>2, <2>3 DEF IInv, LoopInv
<1>8. QED
  BY <1>1, <1>5, <1>6, <1>7

LEMMA ReadEndsStep ==
  ASSUME IInv, ReadEnds PROVE IInv'
<1>1. /\ UNCHANGED <<cfg, device, loop, metrics>>
      /\ pc = "read" /\ pc' = "returned"
      /\ stop_requested' \in BOOLEAN
  BY LoopEndsFacts DEF ReadEnds
<1>2. /\ UNCHANGED <<Blocks, Butterfly, MetricsType>>
      /\ cfg.total \in Nat /\ cfg' \in Configs
  BY <1>1, Setting
<1>3. TypeOK'
  BY <1>1, <1>2 DEF IInv, TypeOK, device, loop
<1>4. LoopInv'
  BY <1>1, <1>2 DEF LoopInv, ButterflyInv, CountingInv, PhaseInv
<1>5. QED
  BY <1>3, <1>4 DEF IInv

\* What the read loop's body starts from.
LEMMA ReadSetting ==
  ASSUME IInv, LoopRuns("read", n < cfg.total), UNCHANGED cfg
  PROVE  /\ pc = "read" /\ n \in 0..cfg.total /\ n < cfg.total
         /\ cfg.order[n] \in Blocks
         /\ Stored(cfg.order[n]) \in Content
         /\ metrics.blocks_written = cfg.total
         /\ metrics.blocks_verified <= n
         /\ metrics.progress <= cfg.total + n
<1>1. pc = "read" /\ n < cfg.total /\ n \in 0..cfg.total
  BY DEF LoopRuns, IInv, TypeOK
<1>2. /\ cfg.total \in Nat /\ cfg.order \in [Blocks -> Blocks]
      /\ cfg.cell \in [Blocks -> Blocks] /\ disk \in [Blocks -> Content]
  BY Setting, ConfigFacts DEF IInv, TypeOK, DeviceOK
<1>3. n \in Blocks
  BY <1>1, <1>2 DEF Blocks
<1>4. cfg.order[n] \in Blocks /\ Stored(cfg.order[n]) \in Content
  BY <1>2, <1>3 DEF Stored
<1>5. QED
  BY <1>1, <1>4 DEF IInv, LoopInv, PhaseInv

LEMMA ReadFailsStep ==
  ASSUME IInv, ReadFails PROVE IInv'
<1> DEFINE i == cfg.order[n]
<1>1. /\ UNCHANGED <<cfg, low, high, writes_done>>
      /\ LoopRuns("read", n < cfg.total)
      /\ read_failed(i)
      /\ ReportAnd(i, "IO_ERROR", "read", "returned")
      /\ n' = IF pc' = "read" THEN n + 1 ELSE n
  BY DEF ReadFails
<1>2. /\ UNCHANGED <<Blocks, Butterfly, MetricsType>>
      /\ cfg.total \in Nat /\ cfg' \in Configs /\ DeviceOK
  BY <1>1, Setting
<1>3. /\ n \in 0..cfg.total /\ n < cfg.total /\ i \in Blocks
      /\ metrics.blocks_written = cfg.total
      /\ metrics.blocks_verified <= n
      /\ metrics.progress <= cfg.total + n
  BY <1>1, ReadSetting
<1>4. "IO_ERROR" \in ErrorTypes
  BY DEF ErrorTypes
<1> HIDE DEF i
<1>5. /\ metrics' \in MetricsType
      /\ metrics'.blocks_written = cfg.total
      /\ metrics'.blocks_verified = metrics.blocks_verified
      /\ metrics'.progress = metrics.progress
      /\ \/ pc' = "returned" /\ stop_requested' = TRUE
         \/ pc' = "read" /\ stop_requested' = stop_requested
  BY <1>1, <1>3, <1>4, ReportAndFacts
<1>6. stop_requested' \in BOOLEAN
  BY <1>5 DEF IInv, TypeOK
<1>7. DeviceOK'
  BY <1>1, <1>2 DEF read_failed, Misbehave, DeviceOK
<1>8. n' \in 0..cfg.total /\ (pc' = "read" => n' = n + 1)
  BY <1>1, <1>2, <1>3
<1>9. TypeOK'
  BY <1>1, <1>2, <1>5, <1>6, <1>7, <1>8 DEF IInv, TypeOK, DeviceOK
<1>10. ButterflyInv' /\ CountingInv'
  BY <1>5 DEF ButterflyInv, CountingInv
<1>11. metrics.blocks_verified \in Nat /\ metrics.progress \in Nat
  BY Setting, <1>1
<1>12. PhaseInv'
  BY <1>1, <1>2, <1>3, <1>5, <1>8, <1>11 DEF PhaseInv
<1>13. QED
  BY <1>9, <1>10, <1>12 DEF IInv, LoopInv

\* Judging a block keeps the counters; a verdict other than "OK" is a report.
LEMMA JudgeFacts ==
  ASSUME IInv, ReadBlock
  PROVE  /\ UNCHANGED <<cfg, loop>> /\ DeviceOK'
         /\ metrics' \in MetricsType
         /\ metrics'.blocks_written = metrics.blocks_written
         /\ metrics'.blocks_verified = metrics.blocks_verified
         /\ metrics'.progress = metrics.progress
         /\ pc' \in {"judged", "returned"} /\ stop_requested' \in BOOLEAN
         /\ \/ metrics'.verify_errors = metrics.verify_errors
            \/ /\ metrics'.verify_errors = metrics.verify_errors + 1
               /\ cfg.stop_on_error => pc' = "returned"
<1> DEFINE i == cfg.order[n]
<1>1. UNCHANGED <<cfg, loop>> /\ LoopRuns("read", n < cfg.total)
  BY DEF ReadBlock
<1>2. Blocks' = Blocks /\ DeviceOK /\ Blocks \subseteq Nat
  BY <1>1, Setting
<1>3. i \in Blocks /\ Stored(i) \in Content
  BY <1>1, ReadSetting
<1>4. PICK c \in {Stored(i)} \cup Damaged(Stored(i)) :
        /\ read_block_at(i, c)
        /\ IF verify_block(c, i) = "OK"
             THEN pc' = "judged" /\ UNCHANGED <<stop_requested, metrics>>
             ELSE ReportAnd(i, verify_block(c, i), "judged", "returned")
  BY DEF ReadBlock
<1> HIDE DEF i
<1>5. c \in Content
  BY <1>3, DamagedType
<1>6. metrics \in MetricsType /\ stop_requested \in BOOLEAN
  BY DEF IInv, TypeOK
<1>7. DeviceOK'
  BY <1>1, <1>2, <1>4 DEF read_block_at, Misbehave, DeviceOK
<1>8. CASE verify_block(c, i) = "OK"
  BY <1>1, <1>4, <1>6, <1>7, <1>8
<1>9. CASE verify_block(c, i) # "OK"
  <2>1. verify_block(c, i) \in ErrorTypes
    BY <1>2, <1>3, <1>5, <1>9, VerdictExact
  <2>2. ReportAnd(i, verify_block(c, i), "judged", "returned")
    BY <1>4, <1>9
  <2>3. QED
    BY <1>1, <1>3, <1>6, <1>7, <2>1, <2>2, ReportAndFacts
<1>10. QED
  BY <1>8, <1>9

LEMMA ReadBlockStep ==
  ASSUME IInv, ReadBlock PROVE IInv'
<1>1. LoopRuns("read", n < cfg.total)
  BY DEF ReadBlock
<1>2. /\ UNCHANGED <<cfg, loop>> /\ DeviceOK'
      /\ metrics' \in MetricsType
      /\ metrics'.blocks_written = metrics.blocks_written
      /\ metrics'.blocks_verified = metrics.blocks_verified
      /\ metrics'.progress = metrics.progress
      /\ pc' \in {"judged", "returned"} /\ stop_requested' \in BOOLEAN
  BY JudgeFacts
<1>3. /\ UNCHANGED <<Blocks, Butterfly, MetricsType>>
      /\ cfg.total \in Nat /\ cfg' \in Configs
  BY <1>2, Setting
<1>4. /\ n < cfg.total
      /\ metrics.blocks_written = cfg.total
      /\ metrics.blocks_verified <= n
      /\ metrics.progress <= cfg.total + n
  BY <1>1, <1>2, ReadSetting
<1>5. TypeOK'
  BY <1>2, <1>3 DEF IInv, TypeOK, DeviceOK, loop
<1>6. ButterflyInv' /\ CountingInv'
  BY <1>2, <1>4 DEF ButterflyInv, CountingInv, loop
<1>7. /\ cfg'.total > 0 /\ metrics'.blocks_written = cfg'.total
      /\ metrics'.blocks_verified <= n' /\ metrics'.progress <= cfg'.total + n'
  <2>1. n \in Nat /\ cfg' = cfg /\ n' = n
    BY <1>2 DEF IInv, TypeOK, loop
  <2>2. QED
    BY <1>2, <1>3, <1>4, <2>1
<1>8. PhaseInv'
  BY <1>2, <1>7 DEF PhaseInv
<1>9. QED
  BY <1>5, <1>6, <1>8 DEF IInv, LoopInv

LEMMA CountVerifiedStep ==
  ASSUME IInv, CountVerified PROVE IInv'
<1>1. /\ UNCHANGED <<cfg, device, low, high, writes_done, stop_requested>>
      /\ pc = "judged" /\ pc' = "read" /\ n' = n + 1
      /\ metrics' = [metrics EXCEPT !.blocks_verified = @ + 1,
                                    !.progress = cfg.total + n + 1]
  BY DEF CountVerified, Goto
<1>2. /\ UNCHANGED <<Blocks, Butterfly, MetricsType>>
      /\ cfg.total \in Nat /\ cfg' \in Configs
      /\ metrics.blocks_verified \in 0..cfg.total
  BY <1>1, Setting
<1>3. /\ n \in 0..cfg.total /\ n < cfg.total
      /\ metrics.blocks_written = cfg.total /\ metrics.blocks_verified <= n
  BY <1>1 DEF IInv, TypeOK, LoopInv, CountingInv, PhaseInv
<1>4. metrics \in MetricsType
  BY DEF IInv, TypeOK
<1>5. /\ metrics' \in MetricsType
      /\ metrics'.blocks_written = cfg.total
      /\ metrics'.blocks_verified = metrics.blocks_verified + 1
      /\ metrics'.progress = cfg.total + n + 1
  <2>1. metrics.state \in {"testing", "error", "completed"}
        /\ metrics.error_count \in Nat
    BY <1>4 DEF MetricsType
  <2>2. metrics' = Counted(metrics.state, metrics.error_count,
                           metrics.blocks_written, metrics.blocks_verified + 1,
                           cfg.total + n + 1)
    BY <1>1, <1>4 DEF Counted, MetricsType
  <2>3. /\ metrics.blocks_verified + 1 \in 0..cfg.total
        /\ cfg.total + n + 1 \in 0..(2 * cfg.total)
        /\ metrics.blocks_written \in 0..cfg.total
    BY <1>2, <1>3
  <2>4. QED
    <3>1. /\ metrics' \in MetricsType
          /\ metrics'.blocks_written = metrics.blocks_written
          /\ metrics'.blocks_verified = metrics.blocks_verified + 1
          /\ metrics'.progress = cfg.total + n + 1
      BY <1>4, <2>1, <2>2, <2>3, CountedType
    <3>2. QED
      BY <1>3, <3>1
<1>6. n' \in 0..cfg.total
  BY <1>1, <1>2, <1>3
<1>7. TypeOK'
  BY <1>1, <1>2, <1>5, <1>6 DEF IInv, TypeOK, device
<1>8. ButterflyInv' /\ CountingInv'
  BY <1>1 DEF ButterflyInv, CountingInv
<1>9. PhaseInv'
  BY <1>1, <1>2, <1>3, <1>5 DEF PhaseInv
<1>10. QED
  BY <1>7, <1>8, <1>9 DEF IInv, LoopInv

LEMMA CompleteStep ==
  ASSUME IInv, Complete PROVE IInv'
<1>1. /\ UNCHANGED <<cfg, device, loop, stop_requested>>
      /\ pc' = "completed"
      /\ metrics' = [metrics EXCEPT !.state = "completed"]
  BY DEF Complete, Goto
<1>2. /\ UNCHANGED <<Blocks, Butterfly, MetricsType>>
      /\ cfg.total \in Nat /\ cfg' \in Configs
      /\ metrics.blocks_written \in 0..cfg.total
      /\ metrics.blocks_verified \in 0..cfg.total
      /\ metrics.progress \in 0..(2 * cfg.total)
  BY <1>1, Setting
<1>3. metrics \in MetricsType /\ metrics.error_count \in Nat
  BY DEF IInv, TypeOK, MetricsType
<1>4. metrics' = Counted("completed", metrics.error_count, metrics.blocks_written,
                         metrics.blocks_verified, metrics.progress)
  BY <1>1, <1>3 DEF Counted, MetricsType
<1>5. "completed" \in {"testing", "error", "completed"}
  OBVIOUS
<1>6. metrics' \in MetricsType
  BY <1>2, <1>3, <1>4, <1>5, CountedType
<1>7. TypeOK'
  BY <1>1, <1>2, <1>6 DEF IInv, TypeOK, device, loop
<1>8. LoopInv'
  BY <1>1, <1>2 DEF LoopInv, ButterflyInv, CountingInv, PhaseInv
<1>9. QED
  BY <1>7, <1>8 DEF IInv

LEMMA RequestStopStep ==
  ASSUME IInv, RequestStop PROVE IInv'
<1>1. /\ UNCHANGED <<cfg, pc, device, loop, metrics>>
      /\ stop_requested' = TRUE
  BY DEF RequestStop
<1>2. UNCHANGED <<Blocks, Butterfly, MetricsType>> /\ cfg' \in Configs
  BY <1>1, Setting
<1>3. TypeOK'
  BY <1>1, <1>2 DEF IInv, TypeOK, device, loop
<1>4. ButterflyInv'
  BY <1>1, <1>2 DEF IInv, LoopInv, ButterflyInv, loop
<1>5. CountingInv' /\ PhaseInv'
  BY <1>1, <1>2 DEF IInv, LoopInv, CountingInv, PhaseInv, loop
<1>6. QED
  BY <1>3, <1>4, <1>5 DEF IInv, LoopInv

LEMMA DecayStep ==
  ASSUME IInv, Decay PROVE IInv'
<1>1. UNCHANGED <<cfg, pc, loop, eof, stop_requested, metrics>>
  BY DEF Decay
<1>2. /\ UNCHANGED <<Blocks, Butterfly, MetricsType>> /\ cfg' \in Configs
      /\ DeviceOK
  BY <1>1, Setting
<1>3. PICK k \in Blocks : \E c \in Damaged(disk[k]) :
        disk' = [disk EXCEPT ![k] = c]
  BY DEF Decay
<1>4. PICK c \in Damaged(disk[k]) : disk' = [disk EXCEPT ![k] = c]
  BY <1>3
<1>5. c \in Content
  BY <1>2, DamagedType DEF DeviceOK
<1>6. disk' \in [Blocks -> Content]
  BY <1>2, <1>4, <1>5 DEF DeviceOK
<1>7. faults' \in Nat
  BY <1>2 DEF Decay, Misbehave, DeviceOK
<1>8. TypeOK'
  BY <1>1, <1>2, <1>6, <1>7 DEF IInv, TypeOK, loop
<1>9. LoopInv'
  BY <1>1, <1>2 DEF IInv, LoopInv, ButterflyInv, CountingInv, PhaseInv, loop
<1>10. QED
  BY <1>8, <1>9 DEF IInv

\* Every step keeps the inductive invariant.
LEMMA NextIInv == IInv /\ [Next]_vars => IInv'
<1> SUFFICES ASSUME IInv, [Next]_vars PROVE IInv'
  OBVIOUS
<1>1. CASE Worker
  BY <1>1, EnterEmptyStep, OpenForWriteStep, WriteEndsStep, WriteBlockStep,
     CountWriteStep, ButterflyEndsStep, WriteLowStep, WriteHighStep,
     CountPairStep, SyncAndReopenStep, ReadEndsStep, ReadFailsStep,
     ReadBlockStep, CountVerifiedStep, CompleteStep DEF Worker
<1>2. CASE UNCHANGED vars
  <2>1. /\ UNCHANGED <<cfg, pc, device, loop, stop_requested, metrics>>
        /\ UNCHANGED <<Blocks, Butterfly, MetricsType>>
    BY <1>2, Setting DEF vars, device, loop
  <2>2. TypeOK'
    BY <2>1 DEF IInv, TypeOK, device, loop
  <2>3. LoopInv'
    BY <2>1 DEF IInv, LoopInv, ButterflyInv, CountingInv, PhaseInv, loop
  <2>4. QED
    BY <2>2, <2>3 DEF IInv
<1>3. QED
  BY <1>1, <1>2, RequestStopStep, DecayStep DEF Next, Terminated

-----------------------------------------------------------------------------
(* Theorems.                                                               *)

\* Every variable stays in its range, for files of any size below Word: the
\* counters within the file, the progress within 100%, the unsigned ends of the
\* butterfly without wrapping (storage_verify.cpp, all four modes).
THEOREM TypeCorrect == Spec => []TypeOK
<1>1. IInv => TypeOK
  BY DEF IInv
<1>2. QED
  BY <1>1, InitIInv, NextIInv, PTL DEF Spec

\* The steps that end the run leave the block counters alone.
LEMMA EndKeepsCounters ==
  ASSUME IInv, Next, pc' \in {"returned", "completed"}
  PROVE  /\ metrics'.blocks_written = metrics.blocks_written
         /\ metrics'.blocks_verified = metrics.blocks_verified
         /\ UNCHANGED cfg
<1>1. metrics \in MetricsType
  BY DEF IInv, TypeOK
<1>2. CASE EnterEmpty \/ RequestStop \/ Decay \/ Terminated
  BY <1>2 DEF EnterEmpty, RequestStop, Decay, Terminated, vars
<1>3. CASE OpenForWrite
  BY <1>1, <1>3 DEF OpenForWrite, OpenFailed, BufferMissing, MetricsType
<1>4. CASE SyncAndReopen
  BY <1>1, <1>4 DEF SyncAndReopen, OpenFailed, MetricsType
<1>5. CASE WriteEnds \/ ButterflyEnds \/ ReadEnds
  BY <1>5 DEF WriteEnds, ButterflyEnds, ReadEnds, LoopEnds
<1>6. CASE ReadFails
  <2>1. UNCHANGED cfg /\ cfg.order[n] \in Blocks /\ "IO_ERROR" \in ErrorTypes
    BY <1>6, ReadSetting DEF ReadFails, ErrorTypes
  <2>2. ReportAnd(cfg.order[n], "IO_ERROR", "read", "returned")
    BY <1>6 DEF ReadFails
  <2>3. QED
    BY <2>1, <2>2, ReportAndFacts
<1>7. CASE ReadBlock
  BY <1>7, JudgeFacts
<1>8. CASE Complete
  BY <1>1, <1>8 DEF Complete, MetricsType
<1>9. CASE WriteBlock \/ CountWrite \/ WriteLow \/ WriteHigh \/ CountPair
           \/ CountVerified
  BY <1>9 DEF WriteBlock, CountWrite, WriteLow, WriteHigh, CountPair,
     CountVerified, Goto, ReportAnd
<1>10. QED
  BY <1>2, <1>3, <1>4, <1>5, <1>6, <1>7, <1>8, <1>9 DEF Next, Worker

\* A partly written file is never verified (the stop_requested_ test between the
\* phases, and the counters of both).
THEOREM VerifiedOnlyWhenFullHolds == Spec => []VerifiedOnlyWhenFull
<1> DEFINE Inv == IInv /\ VerifiedOnlyWhenFull
<1>1. ASSUME IInv, pc \notin {"returned", "completed"}
      PROVE  VerifiedOnlyWhenFull
  <2>1. /\ cfg.total \in Nat
        /\ metrics.blocks_written \in 0..cfg.total
        /\ metrics.blocks_verified \in 0..cfg.total
    BY <1>1, ConfigFacts DEF IInv, TypeOK, MetricsType
  <2>2. CASE pc \in {"read", "judged"}
    BY <1>1, <2>1, <2>2 DEF IInv, LoopInv, PhaseInv, VerifiedOnlyWhenFull
  <2>3. CASE pc \notin {"read", "judged"}
    BY <1>1, <2>1, <2>3 DEF IInv, LoopInv, PhaseInv, VerifiedOnlyWhenFull
  <2>4. QED
    BY <2>2, <2>3
<1>2. Init => Inv
  BY <1>1, InitIInv DEF Init
<1>3. Inv /\ [Next]_vars => Inv'
  <2> SUFFICES ASSUME Inv, [Next]_vars PROVE Inv'
    OBVIOUS
  <2>1. IInv'
    BY NextIInv
  <2>2. CASE pc' \notin {"returned", "completed"}
    <3>1. (IInv /\ pc \notin {"returned", "completed"} => VerifiedOnlyWhenFull)'
      BY <1>1, PTL
    <3>2. QED
      BY <2>1, <2>2, <3>1
  <2>3. CASE Next /\ pc' \in {"returned", "completed"}
    BY <2>1, <2>3, EndKeepsCounters DEF VerifiedOnlyWhenFull
  <2>4. CASE UNCHANGED vars
    BY <2>1, <2>4 DEF VerifiedOnlyWhenFull, vars
  <2>5. QED
    BY <2>2, <2>3, <2>4
<1>4. Inv => VerifiedOnlyWhenFull
  OBVIOUS
<1>5. QED
  BY <1>2, <1>3, <1>4, PTL DEF Spec

\* With stop_on_error an error already reported has ended the loops.
StopInv ==
  cfg.stop_on_error =>
    /\ metrics.verify_errors <= 1
    /\ metrics.verify_errors = 1 =>
         \/ pc \in {"returned", "completed"}
         \/ pc = "sync" /\ stop_requested

\* A report starts from no error and is followed by none.
LEMMA ReportStops ==
  ASSUME IInv, StopInv, UNCHANGED cfg,
         pc \notin {"sync", "returned", "completed"},
         \/ metrics'.verify_errors = metrics.verify_errors
         \/ /\ metrics'.verify_errors = metrics.verify_errors + 1
            /\ cfg.stop_on_error =>
                 pc' = "returned" \/ (pc' = "sync" /\ stop_requested' = TRUE)
  PROVE  StopInv'
<1>1. metrics.verify_errors \in Nat
  BY DEF IInv, TypeOK, MetricsType
<1>2. cfg.stop_on_error => metrics.verify_errors = 0
  BY <1>1 DEF StopInv
<1>3. QED
  BY <1>1, <1>2 DEF StopInv

LEMMA AttemptErrors ==
  ASSUME IInv, UNCHANGED cfg, NEW i \in Blocks, NEW next, Attempt(i, next)
  PROVE  \/ metrics'.verify_errors = metrics.verify_errors
         \/ /\ metrics'.verify_errors = metrics.verify_errors + 1
            /\ cfg.stop_on_error => pc' = "sync" /\ stop_requested' = TRUE
<1>1. "IO_ERROR" \in ErrorTypes
  BY DEF ErrorTypes
<1>2. QED
  BY <1>1, ReportAndFacts DEF Attempt

LEMMA NextStopInv ==
  ASSUME IInv, StopInv, [Next]_vars PROVE StopInv'
<1>1. metrics \in MetricsType
  BY DEF IInv, TypeOK
<1>2. CASE EnterEmpty \/ RequestStop \/ Decay \/ Terminated \/ UNCHANGED vars
  BY <1>2 DEF EnterEmpty, RequestStop, Decay, Terminated, vars, StopInv, Goto
<1>3. CASE OpenForWrite
  <2>1. UNCHANGED cfg /\ metrics'.verify_errors = metrics.verify_errors
    BY <1>1, <1>3 DEF OpenForWrite, OpenFailed, BufferMissing, MetricsType
  <2>2. QED
    BY <1>3, <2>1, ReportStops DEF OpenForWrite
<1>4. CASE WriteEnds \/ ButterflyEnds \/ ReadEnds
  <2>1. UNCHANGED <<cfg, metrics>> /\ pc \in {"write", "write_low", "read"}
    BY <1>4, Zenon DEF WriteEnds, ButterflyEnds, ReadEnds, LoopEnds
  <2>2. QED
    BY <2>1, ReportStops
<1>5. CASE CountWrite \/ CountPair \/ CountVerified
  <2>1. /\ UNCHANGED cfg /\ pc \in {"written", "count_pair", "judged"}
        /\ metrics'.verify_errors = metrics.verify_errors
    BY <1>1, <1>5 DEF CountWrite, CountPair, CountVerified, Goto, MetricsType
  <2>2. QED
    BY <2>1, ReportStops
<1>6. CASE WriteBlock
  <2>1. /\ UNCHANGED cfg /\ pc = "write" /\ n < cfg.total
        /\ Attempt(cfg.order[n], "written")
    BY <1>6 DEF WriteBlock, LoopRuns, Attempt
  <2>2. cfg.total \in Nat /\ n \in Nat /\ cfg.order \in [Blocks -> Blocks]
    BY <2>1, Setting DEF IInv, TypeOK
  <2>3. cfg.order[n] \in Blocks
    BY <2>1, <2>2 DEF Blocks
  <2>4. QED
    BY <2>1, <2>3, AttemptErrors, ReportStops
<1>7. CASE WriteLow
  <2>1. /\ UNCHANGED cfg /\ pc = "write_low" /\ low <= high
        /\ Attempt(low, "write_high")
    BY <1>7 DEF WriteLow, LoopRuns, Attempt, EndsNotCrossed
  <2>2. low \in Blocks
    BY <2>1, ConfigFacts DEF IInv, TypeOK, LoopInv, ButterflyInv, Blocks
  <2>3. QED
    BY <2>1, <2>2, AttemptErrors, ReportStops
<1>8. CASE WriteHigh
  <2>1. /\ UNCHANGED cfg /\ pc = "write_high"
        /\ UNCHANGED metrics \/ Attempt(high, "count_pair")
    BY <1>8 DEF WriteHigh, Attempt
  <2>2. high \in Blocks
    BY <2>1, ConfigFacts DEF IInv, TypeOK, LoopInv, ButterflyInv, Blocks
  <2>3. QED
    BY <2>1, <2>2, AttemptErrors, ReportStops
<1>9. CASE SyncAndReopen
  <2>1. /\ UNCHANGED cfg /\ metrics'.verify_errors = metrics.verify_errors
        /\ pc = "sync"
        /\ pc' = "returned" \/ ~stop_requested
    BY <1>1, <1>9 DEF SyncAndReopen, OpenFailed, MetricsType
  <2>2. metrics.verify_errors \in Nat
    BY <1>1 DEF MetricsType
  <2>3. QED
    BY <2>1, <2>2 DEF StopInv
<1>10. CASE ReadFails
  <2>1. /\ UNCHANGED cfg /\ LoopRuns("read", n < cfg.total) /\ pc = "read"
        /\ ReportAnd(cfg.order[n], "IO_ERROR", "read", "returned")
    BY <1>10 DEF ReadFails, LoopRuns
  <2>2. cfg.order[n] \in Blocks /\ "IO_ERROR" \in ErrorTypes
    BY <2>1, ReadSetting DEF ErrorTypes
  <2>3. QED
    BY <2>1, <2>2, ReportAndFacts, ReportStops
<1>11. CASE ReadBlock
  BY <1>11, JudgeFacts, ReportStops DEF ReadBlock, LoopRuns
<1>12. CASE Complete
  <2>1. /\ UNCHANGED cfg /\ metrics'.verify_errors = metrics.verify_errors
        /\ pc' = "completed"
    BY <1>1, <1>12 DEF Complete, Goto, MetricsType
  <2>2. QED
    BY <2>1 DEF StopInv
<1>13. QED
  BY <1>2, <1>3, <1>4, <1>5, <1>6, <1>7, <1>8, <1>9, <1>10, <1>11, <1>12
     DEF Next, Worker

\* With stop_on_error the first error is the last (the return or break after every
\* report_storage_error(), in both phases of all four modes).
THEOREM StopsAtFirstErrorHolds == Spec => []StopsAtFirstError
<1>1. Init => IInv /\ StopInv
  <2>1. Init => StopInv
    BY DEF Init, StopInv
  <2>2. QED
    BY <2>1, InitIInv
<1>2. IInv /\ StopInv /\ [Next]_vars => IInv' /\ StopInv'
  BY NextIInv, NextStopInv
<1>3. StopInv => StopsAtFirstError
  BY DEF StopInv, StopsAtFirstError
<1>4. QED
  BY <1>1, <1>2, <1>3, PTL DEF Spec

-----------------------------------------------------------------------------
(* The refinement mapping, place by place.                                 *)

WritePlaces == {"enter", "write", "written", "write_low", "write_high",
                "count_pair"}

BarFacts ==
  /\ pc \in WritePlaces => PhaseBar = "write" /\ TodoBar = ToWrite
  /\ pc \in {"read", "judged"} => PhaseBar = "verify" /\ TodoBar = ToJudge
  /\ pc = "sync" /\ stop_requested => PhaseBar = "abandoned" /\ TodoBar = {}
  /\ pc = "sync" /\ ~stop_requested => PhaseBar = "write" /\ TodoBar = ToWrite
  /\ pc \in {"returned", "completed"} =>
       /\ TodoBar = {}
       /\ PhaseBar = IF cfg.total > 0 /\ n = cfg.total
                       THEN "concluded" ELSE "abandoned"

LEMMA BarFactsHold == BarFacts
  BY DEF BarFacts, WritePlaces, PhaseBar, TodoBar, GivenUp, RanToEnd

LEMMA BarFactsNext == BarFacts'
  BY BarFactsHold, PTL

\* The blocks the counting loops have yet to visit.
LEMMA VisitedFacts ==
  ASSUME cfg \in Configs
  PROVE  /\ Visited(0) = Blocks /\ Visited(cfg.total) = {}
         /\ \A k \in Blocks : /\ cfg.order[k] \in Visited(k)
                              /\ Visited(k + 1) = Visited(k) \ {cfg.order[k]}
<1>1. /\ cfg.total \in Nat /\ cfg.order \in [Blocks -> Blocks]
      /\ \A i \in Blocks : \E k \in Blocks : cfg.order[k] = i
      /\ \A j, k \in Blocks : cfg.order[j] = cfg.order[k] => j = k
  BY ConfigFacts
<1>2. Visited(0) = Blocks /\ Visited(cfg.total) = {}
  <2>1. Visited(cfg.total) = {}
    BY <1>1 DEF Visited
  <2>2. Visited(0) = {cfg.order[k] : k \in Blocks}
    BY DEF Visited, Blocks
  <2>3. Visited(0) = Blocks
    BY <1>1, <2>2
  <2>4. QED
    BY <2>1, <2>3
<1>3. ASSUME NEW k \in Blocks
      PROVE  /\ cfg.order[k] \in Visited(k)
             /\ Visited(k + 1) = Visited(k) \ {cfg.order[k]}
  <2>1. k \in k..(cfg.total - 1)
    BY <1>1 DEF Blocks
  <2>2. k..(cfg.total - 1) = {k} \cup ((k + 1)..(cfg.total - 1))
    BY <1>1 DEF Blocks
  <2>3. \A j \in (k + 1)..(cfg.total - 1) : cfg.order[j] # cfg.order[k]
    BY <1>1 DEF Blocks
  <2>4. QED
    BY <2>1, <2>2, <2>3 DEF Visited
<1>4. QED
  BY <1>2, <1>3

\* The mapping depends on the configuration and the loop counters only.
LEMMA VisitedNext ==
  ASSUME UNCHANGED cfg, NEW k PROVE Visited(k)' = Visited(k')
  BY DEF Visited

-----------------------------------------------------------------------------
(* What the device holds.                                                  *)

IntactBar == {i \in Blocks : Intact(i)}

\* One cell holds one block, so a counterfeit cannot hold all of them.
LEMMA CounterfeitLimit ==
  cfg \in Configs /\ ~GenuineDevice => IntactBar # Blocks
<1> SUFFICES ASSUME cfg \in Configs, ~GenuineDevice, IntactBar = Blocks
             PROVE  FALSE
  OBVIOUS
<1>1. PICK i \in Blocks, j \in Blocks : cfg.cell[i] = cfg.cell[j] /\ i # j
  BY DEF GenuineDevice
<1>2. Intact(i) /\ Intact(j)
  BY DEF IntactBar
<1>3. fill_verify_block(i) = fill_verify_block(j)
  BY <1>1, <1>2 DEF Intact, Stored
<1>4. QED
  BY <1>1, <1>3, FillInjective, ConfigFacts

LEMMA CounterfeitLimitNext ==
  (cfg \in Configs /\ ~GenuineDevice => IntactBar # Blocks)'
  BY CounterfeitLimit, PTL

LEMMA IntactStays ==
  ASSUME UNCHANGED <<cfg, disk, eof>> PROVE IntactBar' = IntactBar
  BY DEF IntactBar, Intact, Stored, Blocks

\* Whatever is put on the device, what lies beyond the file's end is no block of it.
LEMMA PutDiskInv ==
  ASSUME cfg \in Configs, DeviceOK, DiskInv, UNCHANGED cfg,
         NEW i \in Blocks, NEW at \in Blocks, NEW c, Put(i, at, c),
         \A b \in Blocks : c = fill_verify_block(b) => b < eof \/ b = i
  PROVE  DiskInv'
<1>1. /\ cfg.total \in Nat /\ Blocks' = Blocks /\ Blocks \subseteq Nat
      /\ cfg.cell[at] \in Blocks /\ disk \in [Blocks -> Content]
  BY ConfigFacts DEF Blocks, DeviceOK
<1>2. disk' = [disk EXCEPT ![cfg.cell[at]] = c]
  BY DEF Put
<1>3. eof' \in Nat /\ eof <= eof' /\ i < eof' /\ eof \in Nat
  BY <1>1 DEF Put, Larger, DeviceOK
<1>4. ASSUME NEW k \in Blocks, NEW b \in Blocks, disk'[k] = fill_verify_block(b)
      PROVE  b < eof'
  <2>1. b < eof \/ b = i
    BY <1>1, <1>2, <1>4 DEF DiskInv
  <2>2. QED
    BY <1>1, <1>3, <2>1
<1>5. QED
  BY <1>1, <1>4 DEF DiskInv

\* What a write does to the blocks the device would give back: a genuine device
\* that does as told gains the block and loses none.
LEMMA WriteIntact ==
  ASSUME cfg \in Configs, DeviceOK, DiskInv, UNCHANGED cfg,
         NEW i \in Blocks, write_block_at(i)
  PROVE  /\ DiskInv' /\ faults' \in {faults, faults + 1}
         /\ GenuineDevice /\ faults' = faults => IntactBar' = IntactBar \cup {i}
<1>1. /\ cfg.total \in Nat /\ Blocks' = Blocks /\ Blocks \subseteq Nat
      /\ cfg.cell \in [Blocks -> Blocks] /\ disk \in [Blocks -> Content]
      /\ eof \in Nat /\ faults \in Nat
  <2>1. /\ cfg.total \in Nat /\ cfg.cell \in [Blocks -> Blocks]
        /\ Blocks \subseteq Nat
    BY ConfigFacts
  <2>2. Blocks' = Blocks
    BY DEF Blocks
  <2>3. disk \in [Blocks -> Content] /\ eof \in Nat /\ faults \in Nat
    BY <2>1 DEF DeviceOK
  <2>4. QED
    BY <2>1, <2>2, <2>3
<1>2. faults' \in {faults, faults + 1}
  BY DEF write_block_at, Misbehave
<1>3. \A b \in Blocks : fill_verify_block(i) = fill_verify_block(b) => b = i
  BY <1>1, FillInjective
<1>4. CASE Put(i, i, fill_verify_block(i)) /\ UNCHANGED faults
  <2>1. DiskInv'
    BY <1>3, <1>4, PutDiskInv
  <2>2. ASSUME GenuineDevice PROVE IntactBar' = IntactBar \cup {i}
    <3>1. \A b \in Blocks \ {i} : Stored(b)' = Stored(b)
      BY <1>1, <1>4, <2>2 DEF GenuineDevice, Put, Stored
    <3>2. Stored(i)' = fill_verify_block(i) /\ i < eof'
      BY <1>1, <1>4 DEF Put, Stored, Larger
    <3>3. \A b \in Blocks : Stored(b) = fill_verify_block(b) => b < eof
      BY <1>1 DEF DiskInv, Stored
    <3>4. eof <= eof' /\ eof' \in Nat
      BY <1>1, <1>4 DEF Put, Larger
    <3>5. \A b \in Blocks \ {i} : Intact(b)' <=> Intact(b)
      BY <1>1, <3>1, <3>3, <3>4 DEF Intact
    <3>6. Intact(i)'
      BY <3>2 DEF Intact
    <3>7. QED
      BY <1>1, <3>5, <3>6 DEF IntactBar
  <2>3. QED
    BY <1>2, <2>1, <2>2
<1>5. CASE Misbehave /\ \E c \in Damaged(fill_verify_block(i)) : Put(i, i, c)
  <2>1. PICK c \in Damaged(fill_verify_block(i)) : Put(i, i, c)
    BY <1>5
  <2>2. \A b \in Blocks : c # fill_verify_block(b)
    BY <1>1, FillType, DamagedIsNoFill
  <2>3. DiskInv'
    BY <2>1, <2>2, PutDiskInv
  <2>4. QED
    BY <1>1, <1>2, <1>5, <2>3 DEF Misbehave
<1>6. CASE Misbehave /\ \E j \in Blocks \ {i} : Put(i, j, fill_verify_block(i))
  <2>1. DiskInv'
    BY <1>3, <1>6, PutDiskInv
  <2>2. QED
    BY <1>1, <1>2, <1>6, <2>1 DEF Misbehave
<1>7. CASE Misbehave /\ Put(i, i, Stored(i))
  <2>1. \A b \in Blocks : Stored(i) = fill_verify_block(b) => b < eof
    BY <1>1 DEF DiskInv, Stored
  <2>2. DiskInv'
    BY <1>7, <2>1, PutDiskInv
  <2>3. QED
    BY <1>1, <1>2, <1>7, <2>2 DEF Misbehave
<1>8. QED
  BY <1>4, <1>5, <1>6, <1>7 DEF write_block_at

-----------------------------------------------------------------------------
(* How a step of the worker is read as a step of the contract.             *)

LEMMA MapsToStutter ==
  ASSUME UNCHANGED <<cfg, disk, eof, faults>>,
         metrics'.verify_errors = metrics.verify_errors,
         PhaseBar' = PhaseBar, TodoBar' = TodoBar
  PROVE  UNCHANGED Contract!vars
<1>1. Blocks' = Blocks /\ GenuineDevice' = GenuineDevice
  BY DEF Blocks, GenuineDevice
<1>2. IntactBar' = IntactBar
  BY IntactStays
<1>3. QED
  BY <1>1, <1>2 DEF Contract!vars, IntactBar

LEMMA MapsToAbandon ==
  ASSUME UNCHANGED <<cfg, disk, eof>>, PhaseBar \in {"write", "verify"},
         PhaseBar' = "abandoned", TodoBar' = {}, faults' \in {faults, faults + 1},
         \/ metrics'.verify_errors = metrics.verify_errors
         \/ /\ metrics'.verify_errors = metrics.verify_errors + 1
            /\ faults' # faults
                 \/ (PhaseBar = "verify" /\ ~(TodoBar \subseteq IntactBar))
  PROVE  Contract!Next
<1>1. Blocks' = Blocks /\ GenuineDevice' = GenuineDevice
  BY DEF Blocks, GenuineDevice
<1>2. IntactBar' = IntactBar
  BY IntactStays
<1>3. Contract!Abandon
  BY <1>2 DEF Contract!Abandon, Contract!MayFault, IntactBar
<1>4. QED
  BY <1>1, <1>3 DEF Contract!Next, Contract!setup

LEMMA MapsToAttempt ==
  ASSUME cfg \in Configs, UNCHANGED cfg, NEW b \in Blocks,
         PhaseBar = "write", PhaseBar' = "write",
         b \in TodoBar, TodoBar' = TodoBar \ {b},
         faults' \in {faults, faults + 1},
         GenuineDevice /\ faults' = faults => IntactBar' = IntactBar \cup {b},
         \/ metrics'.verify_errors = metrics.verify_errors
         \/ /\ metrics'.verify_errors = metrics.verify_errors + 1
            /\ faults' = faults + 1
  PROVE  Contract!Next
<1>1. Blocks' = Blocks /\ GenuineDevice' = GenuineDevice
  BY DEF Blocks, GenuineDevice
<1>2. IntactBar' \subseteq Blocks /\ (~GenuineDevice => IntactBar' # Blocks)
  BY <1>1, CounterfeitLimitNext DEF IntactBar
<1>3. Contract!Attempt(b)
  BY <1>2 DEF Contract!Attempt, Contract!MayFault, Contract!Holdable, IntactBar
<1>4. QED
  BY <1>1, <1>3 DEF Contract!Next, Contract!setup

LEMMA MapsToCheck ==
  ASSUME UNCHANGED <<cfg, disk, eof>>, NEW b \in Blocks,
         PhaseBar = "verify", PhaseBar' = "verify",
         b \in TodoBar, TodoBar' = TodoBar \ {b},
         faults' \in {faults, faults + 1},
         metrics'.verify_errors =
           IF Intact(b) /\ faults' = faults THEN metrics.verify_errors
                                           ELSE metrics.verify_errors + 1
  PROVE  Contract!Next
<1>1. Blocks' = Blocks /\ GenuineDevice' = GenuineDevice
  BY DEF Blocks, GenuineDevice
<1>2. IntactBar' = IntactBar /\ (b \in IntactBar <=> Intact(b))
  BY IntactStays DEF IntactBar
<1>3. Contract!Check(b)
  BY <1>2 DEF Contract!Check, Contract!MayFault, IntactBar
<1>4. QED
  BY <1>1, <1>3 DEF Contract!Next, Contract!setup

\* What a step lemma shows: the contract makes a step or stands still.
Maps == [Contract!Next]_Contract!vars

\* The head of a loop: left with a stop request, the contract is abandoned.
LEMMA MapsLoopEnds ==
  ASSUME IInv, NEW here \in {"write", "write_low"}, NEW more,
         LoopEnds(here, more, "sync"),
         pc = here, ToWrite' = ToWrite
  PROVE  Maps
<1>1. /\ UNCHANGED <<cfg, disk, eof, faults, metrics>> /\ pc' = "sync"
      /\ stop_requested' \in BOOLEAN
  BY LoopEndsFacts DEF device
<1>2. PhaseBar = "write" /\ TodoBar = ToWrite
  BY BarFactsHold DEF BarFacts, WritePlaces
<1>3. CASE stop_requested'
  <2>1. PhaseBar' = "abandoned" /\ TodoBar' = {}
    BY <1>1, <1>3, BarFactsNext DEF BarFacts
  <2>2. QED
    BY <1>1, <1>2, <2>1, MapsToAbandon DEF Maps
<1>4. CASE ~stop_requested'
  <2>1. PhaseBar' = "write" /\ TodoBar' = ToWrite'
    BY <1>1, <1>4, BarFactsNext DEF BarFacts
  <2>2. QED
    BY <1>1, <1>2, <2>1, MapsToStutter DEF Maps
<1>5. QED
  BY <1>1, <1>3, <1>4

\* A block attempted: written, damaged, or refused and reported; with
\* stop_on_error the report abandons the contract.
LEMMA MapsWrite ==
  ASSUME IInv, DiskInv, UNCHANGED cfg, NEW i \in Blocks,
         NEW next \in WritePlaces, Attempt(i, next),
         pc \in WritePlaces, i \in ToWrite,
         pc' = next => ToWrite' = ToWrite \ {i}
  PROVE  Maps /\ DiskInv'
<1>1. cfg \in Configs /\ DeviceOK /\ metrics \in MetricsType
  BY DEF IInv, TypeOK, DeviceOK
<1>2. PhaseBar = "write" /\ TodoBar = ToWrite
  BY BarFactsHold DEF BarFacts
<1>3. CASE write_block_at(i) /\ pc' = next /\ UNCHANGED <<stop_requested, metrics>>
  <2>1. /\ DiskInv' /\ faults' \in {faults, faults + 1}
        /\ GenuineDevice /\ faults' = faults => IntactBar' = IntactBar \cup {i}
    BY <1>1, <1>3, WriteIntact
  <2>2. PhaseBar' = "write" /\ TodoBar' = TodoBar \ {i}
    BY <1>2, <1>3, BarFactsNext DEF BarFacts
  <2>3. Contract!Next
    BY <1>1, <1>2, <1>3, <2>1, <2>2, MapsToAttempt
  <2>4. QED
    BY <2>1, <2>3 DEF Maps
<1>4. CASE write_refused /\ ReportAnd(i, "IO_ERROR", next, "sync")
  <2>1. UNCHANGED <<cfg, disk, eof>> /\ faults' = faults + 1 /\ faults \in Nat
    BY <1>1, <1>4 DEF write_refused, Misbehave, DeviceOK
  <2>2. DiskInv'
    BY <2>1 DEF DiskInv, Blocks
  <2>3. /\ metrics'.verify_errors = metrics.verify_errors + 1
        /\ (pc' = "sync" /\ stop_requested' = TRUE) \/ pc' = next
    BY <1>4, ReportAndFacts DEF ErrorTypes
  <2>4. CASE pc' = next
    <3>1. PhaseBar' = "write" /\ TodoBar' = TodoBar \ {i}
      BY <1>2, <2>4, BarFactsNext DEF BarFacts
    <3>2. Contract!Next
      BY <1>1, <1>2, <2>1, <2>3, <3>1, MapsToAttempt
    <3>3. QED
      BY <2>2, <3>2 DEF Maps
  <2>5. CASE pc' = "sync" /\ stop_requested' = TRUE
    <3>1. PhaseBar' = "abandoned" /\ TodoBar' = {}
      BY <2>5, BarFactsNext DEF BarFacts
    <3>2. Contract!Next
      BY <1>2, <2>1, <2>3, <3>1, MapsToAbandon
    <3>3. QED
      BY <2>2, <3>2 DEF Maps
  <2>6. QED
    BY <2>3, <2>4, <2>5
<1>5. QED
  BY <1>3, <1>4 DEF Attempt

\* Steps that leave the device alone leave DiskInv alone.
LEMMA DiskInvStays ==
  ASSUME DiskInv, UNCHANGED <<cfg, disk, eof>> PROVE DiskInv'
  BY DEF DiskInv, Blocks

-----------------------------------------------------------------------------
(* The steps.                                                              *)

LEMMA EnterEmptyMaps ==
  ASSUME IInv, EnterEmpty PROVE Maps
<1>1. /\ UNCHANGED <<cfg, disk, eof, faults, metrics>>
      /\ pc = "enter" /\ pc' = "returned" /\ cfg.total = 0
  BY DEF EnterEmpty, Goto, device
<1>2. PhaseBar = "write"
  BY <1>1, BarFactsHold DEF BarFacts, WritePlaces
<1>3. PhaseBar' = "abandoned" /\ TodoBar' = {}
  BY <1>1, BarFactsNext DEF BarFacts
<1>4. QED
  BY <1>1, <1>2, <1>3, MapsToAbandon DEF Maps

LEMMA OpenForWriteMaps ==
  ASSUME IInv, OpenForWrite PROVE Maps
<1>1. pc = "enter" /\ cfg.total > 0 /\ UNCHANGED <<cfg, disk, eof>>
  BY DEF OpenForWrite, OpenFailed, BufferMissing, device
<1>2. PhaseBar = "write" /\ TodoBar = Blocks /\ n = 0
  BY <1>1, BarFactsHold DEF BarFacts, WritePlaces, ToWrite, IInv, LoopInv, PhaseInv
<1>3. CASE OpenFailed /\ UNCHANGED loop
  <2>1. pc' = "returned" /\ n' = 0 /\ faults' = faults + 1
    BY <1>2, <1>3 DEF OpenFailed, Misbehave, loop
  <2>2. PhaseBar' = "abandoned" /\ TodoBar' = {}
    BY <1>1, <2>1, BarFactsNext DEF BarFacts
  <2>3. metrics'.verify_errors = metrics.verify_errors
    BY <1>1, <1>3, OpenFailedType
  <2>4. QED
    BY <1>1, <1>2, <2>1, <2>2, <2>3, MapsToAbandon DEF Maps
<1>4. CASE /\ pc' = IF Butterfly THEN "write_low" ELSE "write"
           /\ n' = 0 /\ low' = 0 /\ high' = cfg.total - 1 /\ writes_done' = 0
           /\ UNCHANGED <<device, stop_requested, metrics>>
  <2>1. Visited(0) = Blocks
    BY VisitedFacts DEF IInv, TypeOK
  <2>2. Visited(n)' = Visited(0) /\ Butterfly' = Butterfly
    BY <1>1, <1>4 DEF Visited, Butterfly
  <2>3. ToWrite' = Blocks
    BY <1>1, <1>4, <2>1, <2>2 DEF ToWrite, Blocks
  <2>4. PhaseBar' = "write" /\ TodoBar' = Blocks
    BY <1>4, <2>3, BarFactsNext DEF BarFacts, WritePlaces
  <2>5. QED
    BY <1>1, <1>2, <1>4, <2>4, MapsToStutter DEF Maps, device
<1>5. CASE BufferMissing /\ UNCHANGED loop
  <2>1. pc' = "returned" /\ n' = 0 /\ UNCHANGED <<faults, metrics>>
    BY <1>2, <1>5 DEF BufferMissing, device, loop
  <2>2. PhaseBar' = "abandoned" /\ TodoBar' = {}
    BY <1>1, <2>1, BarFactsNext DEF BarFacts
  <2>3. QED
    BY <1>1, <1>2, <2>1, <2>2, MapsToAbandon DEF Maps
<1>6. QED
  BY <1>3, <1>4, <1>5 DEF OpenForWrite, Butterfly

LEMMA WriteEndsMaps ==
  ASSUME IInv, WriteEnds PROVE Maps
<1>1. /\ LoopEnds("write", n < cfg.total, "sync")
      /\ pc = "write" /\ pc' = "sync" /\ UNCHANGED <<cfg, n, low, high>>
  BY LoopEndsFacts DEF WriteEnds, loop
<1>2. ~Butterfly
  BY <1>1 DEF IInv, LoopInv, CountingInv
<1>3. ToWrite' = ToWrite
  BY <1>1, <1>2 DEF ToWrite, Butterfly, Visited
<1>4. QED
  BY <1>1, <1>3, MapsLoopEnds

LEMMA ButterflyEndsMaps ==
  ASSUME IInv, ButterflyEnds PROVE Maps
<1>1. /\ LoopEnds("write_low", low <= high, "sync")
      /\ pc = "write_low" /\ pc' = "sync" /\ UNCHANGED <<cfg, n, low, high>>
  BY LoopEndsFacts DEF ButterflyEnds, loop, EndsNotCrossed
<1>2. Butterfly
  BY <1>1 DEF IInv, LoopInv, ButterflyInv
<1>3. ToWrite' = ToWrite
  BY <1>1, <1>2 DEF ToWrite, Butterfly
<1>4. QED
  BY <1>1, <1>3, MapsLoopEnds

LEMMA WriteBlockMaps ==
  ASSUME IInv, DiskInv, WriteBlock PROVE Maps /\ DiskInv'
<1> DEFINE i == cfg.order[n]
<1>1. /\ UNCHANGED <<cfg, n>> /\ pc = "write" /\ n < cfg.total
      /\ Attempt(i, "written")
  BY DEF WriteBlock, LoopRuns, Attempt, loop
<1>2. /\ n \in Blocks /\ cfg \in Configs /\ ~Butterfly /\ Butterfly' = Butterfly
      /\ cfg.order \in [Blocks -> Blocks]
  BY <1>1, Setting DEF IInv, TypeOK, LoopInv, CountingInv, Blocks
<1>3. i \in Visited(n) /\ Visited(n + 1) = Visited(n) \ {i} /\ i \in Blocks
  BY <1>2, VisitedFacts
<1>4. ToWrite = Visited(n)
  BY <1>1, <1>2 DEF ToWrite
<1>5. pc' = "written" => ToWrite' = Visited(n + 1)
  BY <1>1, <1>2 DEF ToWrite, Visited
<1> HIDE DEF i
<1>6. QED
  BY <1>1, <1>3, <1>4, <1>5, MapsWrite DEF WritePlaces

LEMMA WriteLowMaps ==
  ASSUME IInv, DiskInv, WriteLow PROVE Maps /\ DiskInv'
<1>1. /\ UNCHANGED <<cfg, low, high>> /\ pc = "write_low" /\ low <= high
      /\ Attempt(low, "write_high")
  BY DEF WriteLow, LoopRuns, Attempt, EndsNotCrossed
<1>2. /\ Butterfly /\ low + high = cfg.total - 1
      /\ low \in 0..cfg.total /\ high \in 0..cfg.total /\ cfg.total \in Nat
  BY <1>1, Setting DEF IInv, TypeOK, LoopInv, ButterflyInv
<1>3. low \in Blocks
  BY <1>1, <1>2 DEF Blocks
<1>4. ToWrite = low..high
  BY <1>1, <1>2 DEF ToWrite
<1>5. pc' = "write_high" => ToWrite' = (low + 1)..high
  BY <1>1 DEF ToWrite
<1>6. low \in low..high /\ (low + 1)..high = (low..high) \ {low}
  BY <1>1, <1>2
<1>7. QED
  BY <1>1, <1>3, <1>4, <1>5, <1>6, MapsWrite DEF WritePlaces

LEMMA WriteHighMaps ==
  ASSUME IInv, DiskInv, WriteHigh PROVE Maps /\ DiskInv'
<1>1. UNCHANGED <<cfg, low, high>> /\ pc = "write_high"
  BY DEF WriteHigh
<1>2. /\ Butterfly /\ low + high = cfg.total - 1 /\ low <= high
      /\ low \in 0..cfg.total /\ high \in 0..cfg.total /\ cfg.total \in Nat
  BY <1>1, Setting DEF IInv, TypeOK, LoopInv, ButterflyInv
<1>3. ToWrite = (low + 1)..high
  BY <1>1 DEF ToWrite
<1>4. pc' = "count_pair" => ToWrite' = (low + 1)..(high - 1)
  BY <1>1 DEF ToWrite
<1>5. CASE low = high /\ pc' = "count_pair" /\ UNCHANGED <<device, metrics>>
  <2>1. ToWrite' = ToWrite
    BY <1>2, <1>3, <1>4, <1>5
  <2>2. TodoBar' = TodoBar /\ PhaseBar' = PhaseBar
    BY <1>1, <1>5, <2>1, BarFactsHold, BarFactsNext DEF BarFacts, WritePlaces
  <2>3. QED
    BY <1>1, <1>5, <2>2, MapsToStutter, DiskInvStays DEF Maps, device
<1>6. CASE low # high /\ Attempt(high, "count_pair")
  <2>1. high \in Blocks /\ high \in ToWrite
    BY <1>2, <1>3, <1>6 DEF Blocks
  <2>2. pc' = "count_pair" => ToWrite' = ToWrite \ {high}
    BY <1>2, <1>3, <1>4
  <2>3. QED
    BY <1>1, <1>6, <2>1, <2>2, MapsWrite DEF WritePlaces
<1>7. QED
  BY <1>5, <1>6 DEF WriteHigh, Attempt

LEMMA CountWriteMaps ==
  ASSUME IInv, CountWrite PROVE Maps
<1>1. /\ UNCHANGED <<cfg, disk, eof, faults>> /\ n' = n + 1
      /\ pc = "written" /\ pc' = "write"
      /\ metrics' = [metrics EXCEPT !.blocks_written = @ + 1, !.progress = n + 1]
  BY DEF CountWrite, Goto, device
<1>2. metrics'.verify_errors = metrics.verify_errors /\ ~Butterfly
  BY <1>1 DEF IInv, TypeOK, MetricsType, LoopInv, CountingInv
<1>3. ToWrite' = ToWrite
  BY <1>1, <1>2 DEF ToWrite, Visited, Butterfly
<1>4. TodoBar' = TodoBar /\ PhaseBar' = PhaseBar
  BY <1>1, <1>3, BarFactsHold, BarFactsNext DEF BarFacts, WritePlaces
<1>5. QED
  BY <1>1, <1>2, <1>4, MapsToStutter DEF Maps

LEMMA CountPairMaps ==
  ASSUME IInv, CountPair PROVE Maps
<1>1. /\ UNCHANGED <<cfg, disk, eof, faults, stop_requested>> /\ pc = "count_pair"
      /\ low' = (low + 1) % Word
      /\ IF high = 0 THEN pc' = "sync" /\ high' = high
                     ELSE pc' = "write_low" /\ high' = (high - 1) % Word
      /\ metrics' = [metrics EXCEPT !.blocks_written = writes_done,
                                    !.progress = writes_done]
  BY DEF CountPair, device
<1>2. /\ metrics'.verify_errors = metrics.verify_errors
      /\ Butterfly /\ Butterfly' = Butterfly
      /\ low + high = cfg.total - 1 /\ low <= high
      /\ low \in 0..cfg.total /\ high \in 0..cfg.total
  BY <1>1 DEF IInv, TypeOK, MetricsType, LoopInv, ButterflyInv, Butterfly
<1>3. cfg.total \in Nat /\ cfg.total < Word
  BY <1>1, Setting
<1>4. low + 1 \in 0..(Word - 1) /\ (high # 0 => high - 1 \in 0..(Word - 1))
      /\ Word \in Nat \ {0}
  BY <1>2, <1>3, StorageAssumption DEF StorageAssumption
<1>5. low' = low + 1 /\ high' = (IF high = 0 THEN 0 ELSE high - 1)
  BY <1>1, <1>4, NoWrap
<1>6. ToWrite = (low + 1)..(high - 1)
  BY <1>1 DEF ToWrite
<1>7. ToWrite' = low'..high'
  BY <1>1, <1>2 DEF ToWrite
<1>8. ToWrite' = ToWrite
  BY <1>2, <1>3, <1>5, <1>6, <1>7
<1>9. PhaseBar = "write" /\ TodoBar = ToWrite
  BY <1>1, BarFactsHold DEF BarFacts, WritePlaces
<1>10. CASE pc' = "sync" /\ stop_requested'
  <2>1. PhaseBar' = "abandoned" /\ TodoBar' = {}
    BY <1>10, BarFactsNext DEF BarFacts
  <2>2. QED
    BY <1>1, <1>2, <1>9, <2>1, MapsToAbandon DEF Maps
<1>11. CASE ~(pc' = "sync" /\ stop_requested')
  <2>1. PhaseBar' = "write" /\ TodoBar' = ToWrite'
    BY <1>1, <1>11, BarFactsNext DEF BarFacts, WritePlaces
  <2>2. QED
    BY <1>1, <1>2, <1>8, <1>9, <2>1, MapsToStutter DEF Maps
<1>12. QED
  BY <1>10, <1>11

LEMMA SyncAndReopenMaps ==
  ASSUME IInv, SyncAndReopen PROVE Maps
<1>1. UNCHANGED <<cfg, disk, eof>> /\ pc = "sync" /\ n' = 0
  BY DEF SyncAndReopen, OpenFailed, device
<1>2. cfg.total > 0 /\ cfg.total \in Nat
  BY <1>1, Setting DEF IInv, LoopInv, PhaseInv
<1>3. pc' = "returned" => PhaseBar' = "abandoned" /\ TodoBar' = {}
  BY <1>1, <1>2, BarFactsNext DEF BarFacts
<1>4. CASE /\ stop_requested /\ pc' = "returned"
           /\ UNCHANGED <<device, stop_requested, metrics>>
  <2>1. PhaseBar = "abandoned" /\ TodoBar = {}
    BY <1>1, <1>4, BarFactsHold DEF BarFacts
  <2>2. QED
    BY <1>1, <1>3, <1>4, <2>1, MapsToStutter DEF Maps, device
<1>5. CASE ~stop_requested /\ OpenFailed
  <2>1. PhaseBar = "write"
    BY <1>1, <1>5, BarFactsHold DEF BarFacts
  <2>2. metrics'.verify_errors = metrics.verify_errors
    BY <1>1, <1>5, OpenFailedType
  <2>3. QED
    BY <1>1, <1>3, <1>5, <2>1, <2>2, MapsToAbandon DEF Maps, OpenFailed, Misbehave
<1>6. CASE /\ ~stop_requested /\ pc' = "read"
           /\ UNCHANGED <<device, stop_requested, metrics>>
  <2>1. Visited(0) = Blocks /\ Visited(cfg.total) = {}
    BY VisitedFacts DEF IInv, TypeOK
  <2>2. IF Butterfly THEN low > high ELSE n = cfg.total
    BY <1>1, <1>6 DEF IInv, LoopInv, PhaseInv
  <2>3. PhaseBar = "write" /\ TodoBar = ToWrite
    BY <1>1, <1>6, BarFactsHold DEF BarFacts
  <2>4. ToWrite = {}
    <3>1. low \in Nat /\ high \in Nat
      BY <1>2 DEF IInv, TypeOK
    <3>2. QED
      BY <1>1, <2>1, <2>2, <3>1 DEF ToWrite
  <2>5. ToJudge' = Visited(n)'
    BY <1>6 DEF ToJudge
  <2>6. Visited(n)' = Visited(0)
    BY <1>1 DEF Visited
  <2>7. PhaseBar' = "verify" /\ TodoBar' = Blocks
    BY <1>6, <2>1, <2>5, <2>6, BarFactsNext DEF BarFacts
  <2>8. /\ Blocks' = Blocks /\ GenuineDevice' = GenuineDevice
        /\ IntactBar' = IntactBar
    BY <1>1, IntactStays DEF Blocks, GenuineDevice
  <2>9. Contract!BeginVerify
    BY <1>6, <2>3, <2>4, <2>7, <2>8 DEF Contract!BeginVerify, IntactBar, device
  <2>10. QED
    BY <2>8, <2>9 DEF Maps, Contract!Next, Contract!setup
<1>7. QED
  BY <1>4, <1>5, <1>6 DEF SyncAndReopen

LEMMA ReadEndsMaps ==
  ASSUME IInv, ReadEnds PROVE Maps
<1>1. /\ UNCHANGED <<cfg, disk, eof, faults, metrics, n>>
      /\ pc = "read" /\ pc' = "returned"
  BY LoopEndsFacts DEF ReadEnds, device, loop
<1>2. PhaseBar = "verify" /\ TodoBar = Visited(n)
  BY <1>1, BarFactsHold DEF BarFacts, ToJudge
<1>3. cfg.total > 0
  BY <1>1 DEF IInv, LoopInv, PhaseInv
<1>4. CASE n = cfg.total
  <2>1. TodoBar = {}
    BY <1>2, <1>4, VisitedFacts DEF IInv, TypeOK
  <2>2. PhaseBar' = "concluded" /\ TodoBar' = {}
    BY <1>1, <1>3, <1>4, BarFactsNext DEF BarFacts
  <2>3. /\ Blocks' = Blocks /\ GenuineDevice' = GenuineDevice
        /\ IntactBar' = IntactBar
    BY <1>1, IntactStays DEF Blocks, GenuineDevice
  <2>4. Contract!Conclude
    BY <1>1, <1>2, <2>1, <2>2, <2>3 DEF Contract!Conclude, IntactBar
  <2>5. QED
    BY <2>3, <2>4 DEF Maps, Contract!Next, Contract!setup
<1>5. CASE n # cfg.total
  <2>1. PhaseBar' = "abandoned" /\ TodoBar' = {}
    BY <1>1, <1>5, BarFactsNext DEF BarFacts
  <2>2. QED
    BY <1>1, <1>2, <2>1, MapsToAbandon DEF Maps
<1>6. QED
  BY <1>4, <1>5

\* A block judged: an error is one the device gave cause for.
LEMMA MapsJudge ==
  ASSUME IInv, LoopRuns("read", n < cfg.total), UNCHANGED <<cfg, disk, eof>>,
         faults' \in {faults, faults + 1},
         metrics'.verify_errors =
           (IF Intact(cfg.order[n]) /\ faults' = faults
              THEN metrics.verify_errors ELSE metrics.verify_errors + 1),
         \/ pc' = "judged" /\ n' = n
         \/ pc' = "read" /\ n' = n + 1
         \/ pc' = "returned" /\ n' = n
  PROVE  Maps
<1> DEFINE i == cfg.order[n]
<1>1. /\ pc = "read" /\ n \in Blocks /\ i \in Blocks /\ cfg \in Configs
  BY ReadSetting, ConfigFacts DEF IInv, TypeOK, Blocks
<1>2. i \in Visited(n) /\ Visited(n + 1) = Visited(n) \ {i}
  BY <1>1, VisitedFacts
<1>3. PhaseBar = "verify" /\ TodoBar = Visited(n)
  BY <1>1, BarFactsHold DEF BarFacts, ToJudge
<1>4. CASE pc' = "returned" /\ n' = n
  <2>1. n # cfg.total
    BY ReadSetting, ConfigFacts DEF IInv, TypeOK
  <2>2. PhaseBar' = "abandoned" /\ TodoBar' = {}
    BY <1>4, <2>1, BarFactsNext DEF BarFacts
  <2>3. ~Intact(i) => ~(TodoBar \subseteq IntactBar)
    BY <1>2, <1>3 DEF IntactBar
  <2>4. QED
    BY <1>3, <2>2, <2>3, MapsToAbandon DEF Maps
<1>5. CASE (pc' = "judged" /\ n' = n) \/ (pc' = "read" /\ n' = n + 1)
  <2>1. ToJudge' = Visited(n + 1)
    BY <1>5 DEF ToJudge, Visited
  <2>2. PhaseBar' = "verify" /\ TodoBar' = TodoBar \ {i}
    BY <1>2, <1>3, <1>5, <2>1, BarFactsNext DEF BarFacts
  <2> HIDE DEF i
  <2>3. metrics'.verify_errors =
          IF Intact(i) /\ faults' = faults THEN metrics.verify_errors
                                          ELSE metrics.verify_errors + 1
    BY DEF i
  <2>4. QED
    BY <1>1, <1>2, <1>3, <2>2, <2>3, MapsToCheck DEF Maps
<1>6. QED
  BY <1>4, <1>5

LEMMA ReadFailsMaps ==
  ASSUME IInv, ReadFails PROVE Maps
<1> DEFINE i == cfg.order[n]
<1>1. /\ UNCHANGED <<cfg, disk, eof>>
      /\ LoopRuns("read", n < cfg.total)
      /\ ReportAnd(i, "IO_ERROR", "read", "returned")
      /\ n' = IF pc' = "read" THEN n + 1 ELSE n
      /\ (i >= eof /\ faults' = faults) \/ faults' = faults + 1
  BY DEF ReadFails, read_failed, Misbehave
<1>2. i \in Blocks /\ faults \in Nat /\ eof \in Nat /\ Blocks \subseteq Nat
  BY <1>1, ReadSetting, Setting DEF IInv, TypeOK
<1>3. /\ metrics'.verify_errors = metrics.verify_errors + 1
      /\ pc' \in {"read", "returned"}
  BY <1>1, <1>2, ReportAndFacts DEF ErrorTypes
<1> HIDE DEF i
<1>4. ~(Intact(i) /\ faults' = faults)
  <2>1. i \in Nat /\ (i >= eof => ~(i < eof))
    BY <1>2
  <2>2. faults + 1 # faults
    BY <1>2
  <2>3. QED
    BY <1>1, <2>1, <2>2 DEF Intact
<1>5. QED
  BY <1>1, <1>3, <1>4, MapsJudge DEF i

LEMMA ReadBlockMaps ==
  ASSUME IInv, ReadBlock PROVE Maps
<1> DEFINE i == cfg.order[n]
<1>1. UNCHANGED <<cfg, n>> /\ LoopRuns("read", n < cfg.total)
  BY DEF ReadBlock, loop
<1>2. /\ i \in Blocks /\ i \in Nat /\ Stored(i) \in Content /\ faults \in Nat
  BY <1>1, ReadSetting, Setting DEF IInv, TypeOK
<1>3. PICK c \in {Stored(i)} \cup Damaged(Stored(i)) :
        /\ read_block_at(i, c)
        /\ IF verify_block(c, i) = "OK"
             THEN pc' = "judged" /\ UNCHANGED <<stop_requested, metrics>>
             ELSE ReportAnd(i, verify_block(c, i), "judged", "returned")
  BY DEF ReadBlock
<1> HIDE DEF i
<1>4. /\ UNCHANGED <<disk, eof>> /\ i < eof
      /\ \/ c = Stored(i) /\ faults' = faults
         \/ c \in Damaged(Stored(i)) /\ faults' = faults + 1
  BY <1>3 DEF read_block_at, Misbehave
<1>5. c \in Content
  BY <1>2, DamagedType
<1>6. verify_block(c, i) = "OK" <=> Intact(i) /\ faults' = faults
  <2>1. verify_block(c, i) = "OK" <=> c = fill_verify_block(i)
    BY <1>2, <1>5, VerdictExact
  <2>2. c \in Damaged(Stored(i)) => c # fill_verify_block(i)
    BY <1>2, DamagedIsNoFill
  <2>3. QED
    BY <1>2, <1>4, <2>1, <2>2 DEF Intact
<1>7. CASE verify_block(c, i) = "OK"
  BY <1>1, <1>3, <1>4, <1>6, <1>7, MapsJudge DEF i
<1>8. CASE verify_block(c, i) # "OK"
  <2>1. verify_block(c, i) \in ErrorTypes
    BY <1>2, <1>5, <1>8, VerdictExact
  <2>2. /\ metrics'.verify_errors = metrics.verify_errors + 1
        /\ pc' \in {"judged", "returned"}
    BY <1>1, <1>2, <1>3, <1>8, <2>1, ReportAndFacts
  <2>3. QED
    BY <1>1, <1>4, <1>6, <1>8, <2>2, MapsJudge DEF i
<1>9. QED
  BY <1>7, <1>8

LEMMA CountVerifiedMaps ==
  ASSUME IInv, CountVerified PROVE Maps
<1>1. /\ UNCHANGED <<cfg, disk, eof, faults>> /\ n' = n + 1
      /\ pc = "judged" /\ pc' = "read"
      /\ metrics' = [metrics EXCEPT !.blocks_verified = @ + 1,
                                    !.progress = cfg.total + n + 1]
  BY DEF CountVerified, Goto, device
<1>2. metrics'.verify_errors = metrics.verify_errors
  BY <1>1 DEF IInv, TypeOK, MetricsType
<1>3. ToJudge' = ToJudge
  BY <1>1 DEF ToJudge, Visited
<1>4. TodoBar' = TodoBar /\ PhaseBar' = PhaseBar
  BY <1>1, <1>3, BarFactsHold, BarFactsNext DEF BarFacts
<1>5. QED
  BY <1>1, <1>2, <1>4, MapsToStutter DEF Maps

LEMMA CompleteMaps ==
  ASSUME IInv, Complete PROVE Maps
<1>1. /\ UNCHANGED <<cfg, disk, eof, faults, n>>
      /\ pc = "returned" /\ pc' = "completed"
      /\ metrics' = [metrics EXCEPT !.state = "completed"]
  BY DEF Complete, Goto, device, loop
<1>2. metrics'.verify_errors = metrics.verify_errors
  BY <1>1 DEF IInv, TypeOK, MetricsType
<1>3. TodoBar' = TodoBar /\ PhaseBar' = PhaseBar
  BY <1>1, BarFactsHold, BarFactsNext DEF BarFacts
<1>4. QED
  BY <1>1, <1>2, <1>3, MapsToStutter DEF Maps

\* A stop abandons a test that is between its phases; elsewhere the loops see it.
LEMMA RequestStopMaps ==
  ASSUME IInv, RequestStop PROVE Maps
<1>1. /\ UNCHANGED <<cfg, pc, disk, eof, faults, n, low, high, metrics>>
      /\ ~stop_requested /\ stop_requested' = TRUE
  BY DEF RequestStop, device, loop
<1>2. ToWrite' = ToWrite /\ ToJudge' = ToJudge
  BY <1>1 DEF ToWrite, ToJudge, Visited, Blocks, Butterfly
<1>3. CASE pc = "sync"
  BY <1>1, <1>3, BarFactsHold, BarFactsNext, MapsToAbandon DEF BarFacts, Maps
<1>4. CASE pc # "sync"
  <2>1. pc \in WritePlaces \/ pc \in {"read", "judged"}
          \/ pc \in {"returned", "completed"}
    BY <1>4 DEF IInv, TypeOK, WritePlaces
  <2>2. TodoBar' = TodoBar /\ PhaseBar' = PhaseBar
    BY <1>1, <1>2, <2>1, BarFactsHold, BarFactsNext DEF BarFacts
  <2>3. QED
    BY <1>1, <2>2, MapsToStutter DEF Maps
<1>5. QED
  BY <1>3, <1>4

LEMMA DecayMaps ==
  ASSUME IInv, DiskInv, Decay PROVE Maps /\ DiskInv'
<1>1. /\ UNCHANGED <<cfg, pc, n, low, high, eof, stop_requested, metrics>>
      /\ faults' = faults + 1
  BY DEF Decay, Misbehave, loop
<1> PICK k \in Blocks : \E c \in Damaged(disk[k]) : disk' = [disk EXCEPT ![k] = c]
  BY DEF Decay
<1>2. PICK c \in Damaged(disk[k]) : disk' = [disk EXCEPT ![k] = c]
  OBVIOUS
<1>3. /\ cfg.cell \in [Blocks -> Blocks] /\ Blocks \subseteq Nat
      /\ disk \in [Blocks -> Content] /\ Blocks' = Blocks
      /\ GenuineDevice' = GenuineDevice
  BY <1>1, ConfigFacts, Setting DEF IInv, TypeOK, GenuineDevice, Blocks
<1>4. \A b \in Blocks : c # fill_verify_block(b)
  BY <1>2, <1>3, DamagedIsNoFill
<1>5. DiskInv'
  BY <1>1, <1>2, <1>3, <1>4 DEF DiskInv
<1>6. \A b \in Blocks : Intact(b)' => Intact(b)
  BY <1>1, <1>2, <1>3, <1>4 DEF Intact, Stored
<1>7. IntactBar' \subseteq IntactBar
  BY <1>3, <1>6 DEF IntactBar
<1>8. PhaseBar' = PhaseBar /\ TodoBar' = TodoBar
  BY <1>1 DEF PhaseBar, TodoBar, RanToEnd, GivenUp, ToWrite, ToJudge, Visited,
     Blocks, Butterfly
<1>9. Contract!Rot
  BY <1>1, <1>7, <1>8 DEF Contract!Rot, IntactBar
<1>10. QED
  BY <1>3, <1>5, <1>9 DEF Maps, Contract!Next, Contract!setup

-----------------------------------------------------------------------------
(* The refinement and what it gives.                                       *)

\* The inductive invariant of the refinement.
RInv == IInv /\ DiskInv

LEMMA InitMaps == Init => RInv /\ Contract!Init
<1> SUFFICES ASSUME Init PROVE RInv /\ Contract!Init
  OBVIOUS
<1>1. IInv /\ pc = "enter" /\ cfg \in Configs
  BY InitIInv DEF Init
<1>2. Blocks \subseteq Nat
  BY <1>1, ConfigFacts
<1>3. DiskInv
  BY <1>2, BlankIsNoFill DEF Init, DiskInv
<1>4. IntactBar = {}
  BY <1>2 DEF Init, IntactBar, Intact
<1>5. PhaseBar = "write" /\ TodoBar = Blocks
  BY <1>1, BarFactsHold DEF BarFacts, WritePlaces, ToWrite
<1>6. Contract!Init
  BY <1>4, <1>5 DEF Init, Contract!Init, IntactBar, GenuineDevice
<1>7. QED
  BY <1>1, <1>3, <1>6 DEF RInv

LEMMA NextMaps == RInv /\ [Next]_vars => RInv' /\ Maps
<1> SUFFICES ASSUME IInv, DiskInv, [Next]_vars PROVE RInv' /\ Maps
  BY DEF RInv
<1>1. IInv'
  BY NextIInv
<1>2. CASE WriteBlock \/ WriteLow \/ WriteHigh \/ Decay
  BY <1>1, <1>2, WriteBlockMaps, WriteLowMaps, WriteHighMaps, DecayMaps DEF RInv
<1>3. CASE EnterEmpty \/ OpenForWrite \/ WriteEnds \/ CountWrite \/ ButterflyEnds
           \/ CountPair \/ SyncAndReopen
  <2>1. UNCHANGED <<cfg, disk, eof>>
    BY <1>3 DEF EnterEmpty, OpenForWrite, OpenFailed, BufferMissing, WriteEnds, CountWrite,
       ButterflyEnds, LoopEnds, CountPair, SyncAndReopen, device
  <2>2. DiskInv'
    BY <2>1, DiskInvStays
  <2>3. QED
    BY <1>1, <1>3, <2>2, EnterEmptyMaps, OpenForWriteMaps, WriteEndsMaps,
       CountWriteMaps, ButterflyEndsMaps, CountPairMaps, SyncAndReopenMaps DEF RInv
<1>4. CASE ReadEnds \/ ReadFails \/ ReadBlock \/ CountVerified \/ Complete
           \/ RequestStop
  <2>1. UNCHANGED <<cfg, disk, eof>>
    BY <1>4 DEF ReadEnds, LoopEnds, ReadFails, read_failed, ReadBlock,
       read_block_at, CountVerified, Complete, RequestStop, device
  <2>2. DiskInv'
    BY <2>1, DiskInvStays
  <2>3. QED
    BY <1>1, <1>4, <2>2, ReadEndsMaps, ReadFailsMaps, ReadBlockMaps,
       CountVerifiedMaps, CompleteMaps, RequestStopMaps DEF RInv
<1>5. CASE UNCHANGED vars
  <2>1. UNCHANGED <<cfg, pc, n, low, high, disk, eof, stop_requested, metrics, faults>>
    BY <1>5 DEF vars
  <2>2. PhaseBar' = PhaseBar /\ TodoBar' = TodoBar
    BY <2>1 DEF PhaseBar, TodoBar, RanToEnd, GivenUp, ToWrite, ToJudge, Visited,
       Blocks, Butterfly
  <2>3. QED
    BY <1>1, <2>1, <2>2, DiskInvStays, MapsToStutter DEF RInv, Maps
<1>6. QED
  BY <1>2, <1>3, <1>4, <1>5 DEF Next, Worker, Terminated

\* The four mode functions, with every interleaving of stop and device, implement
\* the contract of an integrity test (storage_verify.cpp).
THEOREM ImplementsContractHolds == Spec => ImplementsContract
<1>1. Init => Contract!Init
  BY InitMaps
<1>2. RInv /\ [Next]_vars => [Contract!Next]_Contract!vars
  BY NextMaps DEF Maps
<1>3. Init => RInv
  BY InitMaps
<1>4. RInv /\ [Next]_vars => RInv'
  BY NextMaps
<1>5. QED
  BY <1>1, <1>2, <1>3, <1>4, PTL DEF Spec, ImplementsContract, Contract!Spec

-----------------------------------------------------------------------------
(* The books of the errors.                                                *)

LogEntry == [block_index: Nat, type: ErrorTypes]
Logged(m) == {m.error_log[k].block_index : k \in DOMAIN m.error_log}

\* What a report keeps about the counters by type, the log and the block range.
BooksOK(m) ==
  LET t == m.by_type
  IN  /\ m.verify_errors = t["CRC_MISMATCH"] + t["MAGIC_MISMATCH"]
           + t["BLOCK_INDEX_MISMATCH"] + t["PATTERN_MISMATCH"] + t["IO_ERROR"]
      /\ m.verify_errors <= LogCap => Len(m.error_log) = m.verify_errors
      /\ m.verify_errors > LogCap => Len(m.error_log) = LogCap
      /\ Logged(m) \subseteq m.first_error_block..m.last_error_block
      /\ Logged(m) # {} /\ m.verify_errors <= LogCap =>
           {m.first_error_block, m.last_error_block} \subseteq Logged(m)

\* A report keeps the books, at the log's capacity and beyond it.
LEMMA ReportKeepsBooks ==
  ASSUME NEW m \in MetricsType, BooksOK(m), NEW i \in Nat, NEW t \in ErrorTypes
  PROVE  BooksOK(report_storage_error(m, i, t))
<1> DEFINE r == report_storage_error(m, i, t)
           e == [block_index |-> i, type |-> t]
           L == m.error_log
           v == m.verify_errors
           first == m.first_error_block
           last == m.last_error_block
<1>1. /\ v \in Nat /\ first \in Nat /\ last \in Nat
      /\ m.by_type \in [ErrorTypes -> Nat] /\ L \in Seq(LogEntry)
      /\ Len(L) \in Nat /\ DOMAIN L = 1..Len(L)
  BY DEF MetricsType, LogEntry
<1>2. /\ r.verify_errors = v + 1
      /\ r.by_type = [m.by_type EXCEPT ![t] = @ + 1]
      /\ r.first_error_block = IF v = 0 \/ i < first THEN i ELSE first
      /\ r.last_error_block = IF v = 0 \/ i > last THEN i ELSE last
      /\ r.error_log = IF Len(L) < LogCap THEN Append(L, e) ELSE L
  BY DEF report_storage_error, MetricsType
<1>3. LogCap \in Nat
  BY StorageAssumption DEF StorageAssumption
<1>4. /\ v <= LogCap => Len(L) = v
      /\ v > LogCap => Len(L) = LogCap
      /\ Logged(m) \subseteq first..last
      /\ Logged(m) # {} /\ v <= LogCap => {first, last} \subseteq Logged(m)
  BY DEF BooksOK
<1>5. v = m.by_type["CRC_MISMATCH"] + m.by_type["MAGIC_MISMATCH"]
           + m.by_type["BLOCK_INDEX_MISMATCH"] + m.by_type["PATTERN_MISMATCH"]
           + m.by_type["IO_ERROR"]
  BY DEF BooksOK
<1> SUFFICES BooksOK(r)
  OBVIOUS
<1> HIDE DEF r
<1>6. r.verify_errors = r.by_type["CRC_MISMATCH"] + r.by_type["MAGIC_MISMATCH"]
        + r.by_type["BLOCK_INDEX_MISMATCH"] + r.by_type["PATTERN_MISMATCH"]
        + r.by_type["IO_ERROR"]
  <2>1. \A x \in ErrorTypes :
          r.by_type[x] = IF x = t THEN m.by_type[x] + 1 ELSE m.by_type[x]
    BY <1>1, <1>2
  <2>2. \A x \in ErrorTypes : m.by_type[x] \in Nat
    BY <1>1
  <2>3. t \in {"CRC_MISMATCH", "MAGIC_MISMATCH", "BLOCK_INDEX_MISMATCH",
              "PATTERN_MISMATCH", "IO_ERROR"}
    BY DEF ErrorTypes
  <2>4. r.verify_errors = v + 1
    BY <1>2
  <2> HIDE DEF v
  <2>5. QED
    BY <1>5, <2>1, <2>2, <2>3, <2>4 DEF ErrorTypes
<1>7. (Len(L) = 0 => Logged(m) = {}) /\ (Len(L) > 0 => Logged(m) # {})
  <2>1. CASE Len(L) = 0
    <3>1. 1..Len(L) = {}
      BY <2>1
    <3>2. QED
      BY <1>1, <2>1, <3>1 DEF Logged
  <2>2. CASE Len(L) > 0
    <3>1. 1 \in DOMAIN L
      BY <1>1, <2>2
    <3>2. L[1].block_index \in Logged(m)
      BY <3>1 DEF Logged
    <3>3. QED
      BY <1>1, <2>2, <3>2
  <2>3. QED
    BY <1>1, <2>1, <2>2
<1>8. CASE v < LogCap
  <2>1. e \in LogEntry
    BY DEF LogEntry
  <2>2. /\ r.error_log = Append(L, e) /\ Len(Append(L, e)) = Len(L) + 1
        /\ DOMAIN Append(L, e) = 1..(Len(L) + 1)
        /\ \A k \in 1..Len(L) : Append(L, e)[k] = L[k]
        /\ Append(L, e)[Len(L) + 1] = e
    BY <1>1, <1>2, <1>3, <1>4, <1>8, <2>1
  <2>3. Logged(r) = Logged(m) \cup {i}
    <3>1. 1..(Len(L) + 1) = (1..Len(L)) \cup {Len(L) + 1}
      BY <1>1
    <3>2. e.block_index = i
      OBVIOUS
    <3>3. Logged(r) = {Append(L, e)[k].block_index : k \in 1..(Len(L) + 1)}
      BY <2>2 DEF Logged
    <3>4. Logged(m) = {L[k].block_index : k \in 1..Len(L)}
      BY <1>1 DEF Logged
    <3> HIDE DEF e, L
    <3>5. QED
      BY <2>2, <3>1, <3>2, <3>3, <3>4
  <2>4. v = 0 => Logged(m) = {}
    BY <1>1, <1>3, <1>4, <1>8, <1>7
  <2>5. v # 0 => Logged(m) # {}
    BY <1>1, <1>3, <1>4, <1>8, <1>7
  <2>6. /\ Len(r.error_log) = r.verify_errors /\ r.verify_errors <= LogCap
        /\ ~(r.verify_errors > LogCap)
    BY <1>1, <1>2, <1>3, <1>4, <1>8, <2>2
  <2>7. CASE v = 0
    BY <1>2, <1>3, <1>6, <2>3, <2>4, <2>6, <2>7 DEF BooksOK
  <2>8. CASE v # 0
    <3>1. {first, last} \subseteq Logged(m) /\ Logged(m) \subseteq first..last
      BY <1>1, <1>3, <1>4, <1>8, <2>5, <2>8
    <3>2. first <= last
      BY <1>1, <3>1
    <3>3. /\ Logged(r) \subseteq r.first_error_block..r.last_error_block
          /\ {r.first_error_block, r.last_error_block} \subseteq Logged(r)
      BY <1>1, <1>2, <2>3, <2>8, <3>1, <3>2
    <3>4. QED
      BY <1>3, <1>6, <2>6, <3>3 DEF BooksOK
  <2>9. QED
    BY <2>7, <2>8
<1>9. CASE v >= LogCap
  <2>1. Len(L) = LogCap /\ r.error_log = L /\ Logged(r) = Logged(m)
    <3>1. Len(L) = LogCap /\ ~(Len(L) < LogCap)
      BY <1>1, <1>3, <1>4, <1>9
    <3>2. r.error_log = L
      BY <1>2, <3>1
    <3>3. QED
      BY <3>1, <3>2 DEF Logged
  <2>2. v = 0 => Logged(m) = {}
    BY <1>1, <1>3, <1>9, <1>7, <2>1
  <2>3. Logged(r) \subseteq r.first_error_block..r.last_error_block
    BY <1>1, <1>2, <1>4, <2>1, <2>2
  <2>4. r.verify_errors > LogCap /\ ~(r.verify_errors <= LogCap)
    BY <1>1, <1>2, <1>3, <1>9
  <2>5. QED
    BY <1>1, <1>2, <1>3, <1>6, <2>1, <2>3, <2>4 DEF BooksOK
<1>10. QED
  BY <1>1, <1>3, <1>8, <1>9

\* An error is counted twice only by the open that ends the run.
AccountInv ==
  /\ BooksOK(metrics)
  /\ metrics.error_count \in {metrics.verify_errors, metrics.verify_errors + 1}
  /\ pc \notin {"returned", "completed"} \/ faults = 0 =>
       metrics.error_count = metrics.verify_errors

\* The fields of the metrics an error touches.
ErrorFields(m) ==
  <<m.verify_errors, m.by_type, m.first_error_block, m.last_error_block, m.error_log>>

\* A step leaves the error fields alone, reports a block, or fails to open.
LEMMA StepReports ==
  ASSUME IInv, Next
  PROVE  \/ /\ ErrorFields(metrics') = ErrorFields(metrics)
            /\ metrics'.error_count = metrics.error_count
            /\ pc' \notin {"returned", "completed"} =>
                 pc \notin {"returned", "completed"}
            /\ faults' = 0 => faults = 0
         \/ /\ ErrorFields(metrics') = ErrorFields(metrics)
            /\ metrics'.error_count = metrics.error_count + 1
            /\ pc \notin {"returned", "completed"}
            /\ pc' = "returned" /\ faults' # 0
         \/ /\ \E i \in Nat, t \in ErrorTypes :
                 metrics' = report_storage_error(metrics, i, t)
            /\ pc \notin {"returned", "completed"}
<1>1. metrics \in MetricsType /\ faults \in Nat /\ faults + 1 # 0 /\ Blocks \subseteq Nat
  BY ConfigFacts DEF IInv, TypeOK
<1> USE DEF ErrorFields
<1>2. CASE EnterEmpty \/ RequestStop \/ Decay \/ Terminated
  BY <1>1, <1>2 DEF EnterEmpty, RequestStop, Decay, Terminated, vars, Goto, device,
     Misbehave
<1>3. CASE OpenForWrite \/ SyncAndReopen
  <2>1. CASE OpenFailed
    BY <1>1, <1>3, <2>1 DEF OpenForWrite, SyncAndReopen, OpenFailed, Misbehave,
       MetricsType
  <2>2. CASE ~OpenFailed
    BY <1>3, <2>2 DEF OpenForWrite, BufferMissing, SyncAndReopen, device
  <2>3. QED
    BY <2>1, <2>2
<1>4. CASE WriteEnds \/ ButterflyEnds \/ ReadEnds
  BY <1>4 DEF WriteEnds, ButterflyEnds, ReadEnds, LoopEnds, device
<1>5. CASE CountWrite \/ CountPair \/ CountVerified \/ Complete
  BY <1>1, <1>5 DEF CountWrite, CountPair, CountVerified, Complete, Goto, device,
     MetricsType
<1>6. CASE WriteBlock
  <2>1. pc = "write" /\ n \in Blocks /\ cfg.order[n] \in Nat
    BY <1>1, <1>6, ConfigFacts DEF WriteBlock, LoopRuns, IInv, TypeOK, Blocks
  <2>2. \/ UNCHANGED metrics /\ pc' = "written" /\ (faults' = 0 => faults = 0)
        \/ metrics' = report_storage_error(metrics, cfg.order[n], "IO_ERROR")
    BY <1>1, <1>6 DEF WriteBlock, ReportAnd, write_block_at, Misbehave
  <2>3. QED
    BY <2>1, <2>2 DEF ErrorTypes
<1>7. CASE WriteLow
  <2>1. pc = "write_low" /\ low \in Nat
    BY <1>7, ConfigFacts DEF WriteLow, LoopRuns, IInv, TypeOK
  <2>2. \/ UNCHANGED metrics /\ pc' = "write_high" /\ (faults' = 0 => faults = 0)
        \/ metrics' = report_storage_error(metrics, low, "IO_ERROR")
    BY <1>1, <1>7 DEF WriteLow, ReportAnd, write_block_at, Misbehave
  <2>3. QED
    BY <2>1, <2>2 DEF ErrorTypes
<1>8. CASE WriteHigh
  <2>1. pc = "write_high" /\ high \in Nat
    BY <1>8, ConfigFacts DEF WriteHigh, IInv, TypeOK
  <2>2. \/ UNCHANGED metrics /\ pc' = "count_pair" /\ (faults' = 0 => faults = 0)
        \/ metrics' = report_storage_error(metrics, high, "IO_ERROR")
    BY <1>1, <1>8 DEF WriteHigh, ReportAnd, write_block_at, Misbehave, device
  <2>3. QED
    BY <2>1, <2>2 DEF ErrorTypes
<1>9. CASE ReadFails
  <2>1. pc = "read" /\ cfg.order[n] \in Nat
    BY <1>1, <1>9, ReadSetting DEF ReadFails
  <2>2. metrics' = report_storage_error(metrics, cfg.order[n], "IO_ERROR")
    BY <1>9 DEF ReadFails, ReportAnd
  <2>3. QED
    BY <2>1, <2>2 DEF ErrorTypes
<1>10. CASE ReadBlock
  <2>1. /\ pc = "read" /\ cfg.order[n] \in Nat /\ Stored(cfg.order[n]) \in Content
    BY <1>1, <1>10, ReadSetting DEF ReadBlock, loop
  <2>2. PICK c \in {Stored(cfg.order[n])} \cup Damaged(Stored(cfg.order[n])) :
          /\ read_block_at(cfg.order[n], c)
          /\ IF verify_block(c, cfg.order[n]) = "OK"
               THEN pc' = "judged" /\ UNCHANGED <<stop_requested, metrics>>
               ELSE ReportAnd(cfg.order[n], verify_block(c, cfg.order[n]), "judged",
                              "returned")
    BY <1>10 DEF ReadBlock
  <2>3. faults' = 0 => faults = 0
    BY <1>1, <2>2 DEF read_block_at, Misbehave
  <2>4. CASE verify_block(c, cfg.order[n]) = "OK"
    BY <2>1, <2>2, <2>3, <2>4
  <2>5. CASE verify_block(c, cfg.order[n]) # "OK"
    <3>1. verify_block(c, cfg.order[n]) \in ErrorTypes
      BY <2>1, <2>5, DamagedType, VerdictExact
    <3>2. metrics' = report_storage_error(metrics, cfg.order[n],
                                          verify_block(c, cfg.order[n]))
      BY <2>2, <2>5 DEF ReportAnd
    <3>3. QED
      BY <2>1, <3>1, <3>2
  <2>6. QED
    BY <2>4, <2>5
<1>11. QED
  BY <1>2, <1>3, <1>4, <1>5, <1>6, <1>7, <1>8, <1>9, <1>10 DEF Next, Worker

LEMMA NextAccount ==
  ASSUME IInv, AccountInv, [Next]_vars PROVE AccountInv'
<1>1. metrics \in MetricsType /\ metrics.verify_errors \in Nat
  BY DEF IInv, TypeOK, MetricsType
<1>2. CASE ErrorFields(metrics') = ErrorFields(metrics)
  <2>1. /\ metrics'.verify_errors = metrics.verify_errors
        /\ metrics'.by_type = metrics.by_type
        /\ metrics'.first_error_block = metrics.first_error_block
        /\ metrics'.last_error_block = metrics.last_error_block
        /\ metrics'.error_log = metrics.error_log
    BY <1>2 DEF ErrorFields
  <2>2. BooksOK(metrics)'
    BY <2>1 DEF AccountInv, BooksOK, Logged
  <2>3. CASE Next
    <3>1. \/ /\ metrics'.error_count = metrics.error_count
             /\ pc' \notin {"returned", "completed"} =>
                 pc \notin {"returned", "completed"}
             /\ faults' = 0 => faults = 0
          \/ /\ metrics'.error_count = metrics.error_count + 1
             /\ pc \notin {"returned", "completed"}
             /\ pc' = "returned" /\ faults' # 0
          \/ metrics'.verify_errors = metrics.verify_errors + 1
      BY <1>1, <2>3, StepReports, ReportFacts
    <3>2. QED
      BY <1>1, <2>1, <2>2, <3>1 DEF AccountInv
  <2>4. CASE UNCHANGED vars
    BY <2>2, <2>4 DEF AccountInv, vars
  <2>5. QED
    BY <2>3, <2>4
<1>3. CASE /\ \E i \in Nat, t \in ErrorTypes :
                metrics' = report_storage_error(metrics, i, t)
           /\ pc \notin {"returned", "completed"}
  <2>1. PICK i \in Nat, t \in ErrorTypes :
          metrics' = report_storage_error(metrics, i, t)
    BY <1>3
  <2>2. BooksOK(metrics')
    BY <1>1, <2>1, ReportKeepsBooks DEF AccountInv
  <2>3. /\ metrics'.verify_errors = metrics.verify_errors + 1
        /\ metrics'.error_count = metrics.error_count + 1
    BY <1>1, <2>1, ReportFacts
  <2>4. metrics.error_count = metrics.verify_errors
    BY <1>3 DEF AccountInv
  <2>5. QED
    BY <2>2, <2>3, <2>4 DEF AccountInv
<1>4. CASE UNCHANGED vars
  BY <1>2, <1>4 DEF vars, ErrorFields
<1>5. QED
  BY <1>2, <1>3, <1>4, StepReports

LEMMA InitAccount == Init => AccountInv
<1> SUFFICES ASSUME Init PROVE AccountInv
  OBVIOUS
<1>1. /\ metrics.verify_errors = 0 /\ metrics.error_count = 0
      /\ metrics.by_type = NoErrors /\ metrics.error_log = <<>>
  BY DEF Init
<1>2. Logged(metrics) = {} /\ Len(metrics.error_log) = 0
  BY <1>1 DEF Logged
<1>3. LogCap \in Nat
  BY StorageAssumption DEF StorageAssumption
<1>4. BooksOK(metrics)
  BY <1>1, <1>2, <1>3 DEF BooksOK, NoErrors, ErrorTypes
<1>5. QED
  BY <1>1, <1>4 DEF AccountInv

LEMMA AccountHolds == Spec => []AccountInv
  BY InitIInv, NextIInv, InitAccount, NextAccount, PTL DEF Spec

\* The counters that consumers read agree with each other and with the capped log
\* in every state get_metrics() can observe (report_storage_error()).
THEOREM ErrorAccountingHolds == Spec => []ErrorAccounting
<1>1. IInv /\ AccountInv => ErrorAccounting
  <2> SUFFICES ASSUME IInv, AccountInv PROVE ErrorAccounting
    OBVIOUS
  <2>1. metrics.verify_errors \in Nat /\ BooksOK(metrics)
    BY DEF IInv, TypeOK, MetricsType, AccountInv
  <2>2. metrics.error_count - metrics.verify_errors \in {0, 1}
    BY <2>1 DEF AccountInv
  <2>3. QED
    BY <2>1, <2>2 DEF BooksOK, Logged, ErrorAccounting
<1>2. QED
  BY <1>1, InitIInv, NextIInv, AccountHolds, PTL DEF Spec

-----------------------------------------------------------------------------
(* The contract's promises, for any blocks and any device, and kept by the *)
(* four modes.                                                             *)

\* The contract keeps the ranges of its variables.
THEOREM ContractType == Contract!Spec => []Contract!TypeOK
<1>1. Contract!Init => Contract!TypeOK
  BY DEF Contract!Init, Contract!TypeOK
<1>2. Contract!TypeOK /\ [Contract!Next]_Contract!vars => Contract!TypeOK'
  <2> SUFFICES ASSUME Contract!TypeOK, [Contract!Next]_Contract!vars
               PROVE  Contract!TypeOK'
    OBVIOUS
  <2> USE DEF Contract!TypeOK
  <2>1. ASSUME NEW b \in Blocks, Contract!Attempt(b), UNCHANGED Contract!setup
        PROVE  Contract!TypeOK'
    BY <2>1 DEF Contract!Attempt, Contract!MayFault, Contract!setup
  <2>2. ASSUME NEW b \in Blocks, Contract!Check(b), UNCHANGED Contract!setup
        PROVE  Contract!TypeOK'
    BY <2>2 DEF Contract!Check, Contract!MayFault, Contract!setup
  <2>3. CASE Contract!BeginVerify /\ UNCHANGED Contract!setup
    BY <2>3 DEF Contract!BeginVerify, Contract!setup
  <2>4. CASE Contract!Conclude /\ UNCHANGED Contract!setup
    BY <2>4 DEF Contract!Conclude, Contract!setup
  <2>5. CASE Contract!Abandon /\ UNCHANGED Contract!setup
    BY <2>5 DEF Contract!Abandon, Contract!MayFault, Contract!setup
  <2>6. CASE Contract!Rot /\ UNCHANGED Contract!setup
    BY <2>6 DEF Contract!Rot, Contract!setup
  <2>7. CASE UNCHANGED Contract!vars
    BY <2>7 DEF Contract!vars, Contract!setup
  <2>8. QED
    BY <2>1, <2>2, <2>3, <2>4, <2>5, <2>6, <2>7 DEF Contract!Next
<1>3. QED
  BY <1>1, <1>2, PTL DEF Contract!Spec

\* Whatever a healthy device is put through, it is never blamed.
THEOREM HealthyNeverBlamedHolds == Contract!Spec => []Contract!HealthyNeverBlamed
<1>1. Contract!Init => Contract!HealthyInv
  BY DEF Contract!Init, Contract!HealthyInv
<1>2. Contract!TypeOK /\ Contract!HealthyInv /\ [Contract!Next]_Contract!vars =>
        Contract!HealthyInv'
  <2> SUFFICES ASSUME Contract!TypeOK, Contract!HealthyInv,
                      [Contract!Next]_Contract!vars, GenuineDevice', faults' = 0
               PROVE  Contract!HealthyInv'
    BY DEF Contract!HealthyInv
  <2> USE DEF Contract!TypeOK, Contract!HealthyInv
  <2>1. ASSUME NEW b \in Blocks, Contract!Attempt(b), UNCHANGED Contract!setup
        PROVE  Contract!HealthyInv'
    BY <2>1 DEF Contract!Attempt, Contract!MayFault, Contract!setup
  <2>2. ASSUME NEW b \in Blocks, Contract!Check(b), UNCHANGED Contract!setup
        PROVE  Contract!HealthyInv'
    BY <2>2 DEF Contract!Check, Contract!MayFault, Contract!setup
  <2>3. CASE Contract!BeginVerify /\ UNCHANGED Contract!setup
    BY <2>3 DEF Contract!BeginVerify, Contract!setup
  <2>4. CASE Contract!Conclude /\ UNCHANGED Contract!setup
    BY <2>4 DEF Contract!Conclude, Contract!setup
  <2>5. CASE Contract!Abandon /\ UNCHANGED Contract!setup
    BY <2>5 DEF Contract!Abandon, Contract!MayFault, Contract!setup
  <2>6. CASE Contract!Rot /\ UNCHANGED Contract!setup
    BY <2>6 DEF Contract!Rot, Contract!setup
  <2>7. CASE UNCHANGED Contract!vars
    BY <2>7 DEF Contract!vars, Contract!setup
  <2>8. QED
    BY <2>1, <2>2, <2>3, <2>4, <2>5, <2>6, <2>7 DEF Contract!Next
<1>3. Contract!HealthyInv => Contract!HealthyNeverBlamed
  BY DEF Contract!HealthyInv, Contract!HealthyNeverBlamed
<1>4. QED
  BY <1>1, <1>2, <1>3, ContractType, PTL DEF Contract!Spec

\* No counterfeit device gets through a test that was concluded.
THEOREM CounterfeitBlamedHolds ==
  Contract!NonEmpty /\ Contract!Spec => []Contract!CounterfeitBlamed
<1>1. Contract!NonEmpty /\ Contract!Init => Contract!CounterfeitInv
  BY DEF Contract!NonEmpty, Contract!Init, Contract!CounterfeitInv
<1>2. Contract!TypeOK /\ Contract!CounterfeitInv /\ [Contract!Next]_Contract!vars =>
        Contract!CounterfeitInv'
  <2> SUFFICES ASSUME Contract!TypeOK, Contract!CounterfeitInv,
                      [Contract!Next]_Contract!vars, ~GenuineDevice'
               PROVE  Contract!CounterfeitInv'
    BY DEF Contract!CounterfeitInv
  <2> USE DEF Contract!TypeOK, Contract!CounterfeitInv
  <2>1. ASSUME NEW b \in Blocks, Contract!Attempt(b), UNCHANGED Contract!setup
        PROVE  Contract!CounterfeitInv'
    BY <2>1 DEF Contract!Attempt, Contract!MayFault, Contract!Holdable, Contract!setup
  <2>2. ASSUME NEW b \in Blocks, Contract!Check(b), UNCHANGED Contract!setup
        PROVE  Contract!CounterfeitInv'
    BY <2>2 DEF Contract!Check, Contract!MayFault, Contract!setup
  <2>3. CASE Contract!BeginVerify /\ UNCHANGED Contract!setup
    BY <2>3 DEF Contract!BeginVerify, Contract!setup
  <2>4. CASE Contract!Conclude /\ UNCHANGED Contract!setup
    BY <2>4 DEF Contract!Conclude, Contract!setup
  <2>5. CASE Contract!Abandon /\ UNCHANGED Contract!setup
    BY <2>5 DEF Contract!Abandon, Contract!MayFault, Contract!setup
  <2>6. CASE Contract!Rot /\ UNCHANGED Contract!setup
    BY <2>6 DEF Contract!Rot, Contract!setup
  <2>7. CASE UNCHANGED Contract!vars
    BY <2>7 DEF Contract!vars, Contract!setup
  <2>8. QED
    BY <2>1, <2>2, <2>3, <2>4, <2>5, <2>6, <2>7 DEF Contract!Next
<1>3. Contract!CounterfeitInv => Contract!CounterfeitBlamed
  BY DEF Contract!CounterfeitInv, Contract!CounterfeitBlamed
<1>4. QED
  BY <1>1, <1>2, <1>3, ContractType, PTL DEF Contract!Spec

\* A genuine device that did nothing wrong is never blamed, by any of the modes, at
\* any moment (verify_block() and the read loops of storage_verify.cpp).
THEOREM NoFalseAlarmHolds == Spec => []NoFalseAlarm
<1>1. Init => Contract!Init
  BY InitMaps
<1>2. RInv /\ [Next]_vars => [Contract!Next]_Contract!vars
  BY NextMaps DEF Maps
<1>3. Contract!Spec => []Contract!HealthyNeverBlamed
  BY HealthyNeverBlamedHolds
<1>4. Contract!HealthyNeverBlamed /\ AccountInv => NoFalseAlarm
  BY DEF Contract!HealthyNeverBlamed, AccountInv, NoFalseAlarm
<1>5. Init => RInv
  BY InitMaps
<1>6. RInv /\ [Next]_vars => RInv'
  BY NextMaps
<1>7. QED
  BY <1>1, <1>2, <1>3, <1>4, <1>5, <1>6, AccountHolds, PTL DEF Spec, Contract!Spec

\* No device that folds several blocks onto one cell gets through a test that ran to
\* its end without being reported, whatever the order and the address map.
THEOREM CounterfeitReportedHolds == Spec => []CounterfeitReported
<1>1. Init => Contract!Init
  BY InitMaps
<1>2. RInv /\ [Next]_vars => [Contract!Next]_Contract!vars
  BY NextMaps DEF Maps
<1>3. Contract!NonEmpty /\ Contract!Spec => []Contract!CounterfeitBlamed
  BY CounterfeitBlamedHolds
<1>4. RInv /\ Contract!CounterfeitBlamed => CounterfeitReported
  BY BarFactsHold DEF Contract!CounterfeitBlamed, CounterfeitReported, BarFacts,
     RanToEnd
<1>5. Init => RInv
  BY InitMaps
<1>6. RInv /\ [Next]_vars => RInv'
  BY NextMaps
\* An empty file has nothing to read to the end.
<1>7. ~Contract!NonEmpty => CounterfeitReported
  BY DEF Contract!NonEmpty, Blocks, CounterfeitReported, RanToEnd, GenuineDevice
<1>8. Init /\ [][Next]_vars => (Contract!NonEmpty \/ []~Contract!NonEmpty)
  <2>1. RInv /\ ~Contract!NonEmpty /\ [Next]_vars => ~Contract!NonEmpty'
    <3>1. [Contract!Next]_Contract!vars => UNCHANGED Blocks
      BY DEF Contract!Next, Contract!vars, Contract!setup
    <3>2. QED
      BY <3>1, NextMaps DEF Maps, Contract!NonEmpty
  <2>2. QED
    BY <1>5, <1>6, <2>1, PTL
<1>9. QED
  BY <1>1, <1>2, <1>3, <1>4, <1>5, <1>6, <1>7, <1>8, PTL DEF Spec, Contract!Spec
=============================================================================
