----------------------------- MODULE GpuEngine -----------------------------
(***************************************************************************)
(* GpuEngine and its backends: the worker that opens a device, compiles    *)
(* kernels or builds a renderer, allocates what its mode needs, loops, and *)
(* releases what it made; the driver objects it holds; and what each mode  *)
(* can find wrong.  The driver may refuse to make any object.              *)
(***************************************************************************)
EXTENDS Integers, FiniteSets, Sequences, SequencesExt

CONSTANTS
  Modes,          \* the modes a test may be started in
  Machines,       \* what initialize() may find: opencl, fp64, vulkan
  Hardware,       \* the faults a GPU may have, see "VRAM" below
  VramWords,      \* num_elements of the VRAM buffer
  WordWidth,      \* bits of a word
  local_size,     \* work-items of a group
  Seeds,          \* seeds of the random pattern
  CheckInterval,  \* dispatches between two verifications in FMA mode
  MaxDispatches,  \* bound: dispatches and frames are counted so far
  MaxErrors,      \* bound: errors are counted so far
  MaxStarts,      \* bound: calls of start()
  MaxFaults       \* bound: refusals of the driver

Vulkan == {"VULKAN_3D", "VULKAN_ADAPTIVE"}
Computing == {"MATRIX_MUL", "MATRIX_MUL_FP64", "TRIG_STRESS"}
GpuStressMode == Vulkan \cup Computing \cup {"FMA_STRESS", "VRAM_TEST", "MIXED"}

Bits == 0..(WordWidth - 1)
Word(n) == {b \in Bits : (n \div 2^b) % 2 = 1}

\* A fault of the card: it computes wrong, a bit of a word is stuck, or two words, whose
\* addresses a word is wide enough to tell apart, are one cell.
HardwareOK(f) ==
  /\ f.kind \in {"none", "compute", "stuck", "alias"}
  /\ f.kind = "stuck" =>
       f.word \in 0..(VramWords - 1) /\ f.bit \in Bits /\ f.to \in {0, 1}
  /\ f.kind = "alias" =>
       {f.word, f.other} \subseteq 0..(VramWords - 1) /\ Word(f.word) # Word(f.other)

ASSUME GpuAssumption ==
  /\ Modes \subseteq GpuStressMode
  /\ {VramWords, WordWidth, local_size, Seeds, CheckInterval} \subseteq Nat \ {0}
  /\ {MaxDispatches, MaxErrors, MaxStarts, MaxFaults} \subseteq Nat
  /\ MaxDispatches >= 2 /\ MaxErrors >= 1
  /\ \A f \in Hardware : HardwareOK(f)

\* The objects made in a driver, in the order in which the code makes them.
Kernels == <<"k_stress", "k_vram">>  \* the first and last of many
ClContext == {"cl_context", "cl_queue"}
ClKernels == ToSet(Kernels) \cup {"k_matmul_fp64"}
ClBuffers == {"a", "b", "c", "data", "vram", "errors"}
VkContext == <<"instance", "device", "command_pool">>
OffscreenTarget == {"image", "image_memory", "view", "framebuffer"}
ReadbackBuffer == {"readback", "readback_memory"}
SphereGeometry == {"vertices", "vertex_memory", "indices", "index_memory"}
Pipeline == {"pipeline_layout"}
RendererParts == <<{"render_pass"}, OffscreenTarget, ReadbackBuffer, SphereGeometry, Pipeline>>
Renderer == UNION ToSet(RendererParts)
Objects == ClContext \cup ClKernels \cup ClBuffers \cup ToSet(VkContext) \cup Renderer

VARIABLES
  gpu_fault,             \* what is wrong with the GPU
  backends,              \* what initialize() finds: opencl, fp64, vulkan
  initialized, running, mode, timed, stop_on_error,
  expired,               \* the test has lasted as long as it should
  worker,                \* where the worker thread is
  total, vram_errors,    \* the worker's count, and the one in latest_metrics
                         \* (artifact_count in the Vulkan modes)
  step, cycles,          \* VRAM and MIXED: the current step; whole cycles, up to one
  dispatches, cpu_steps, \* kernel runs; how many of them cpu_expected has followed
  reference, readback,   \* Vulkan: the frame compared with, the frame in host memory
  held, lost,            \* driver objects with a handle; some whose handle was written over
  holder,                \* who holds start_stop_mutex and waits for the worker
  terminated, destroyed, starts,
  refused                \* history: refusals of the driver

setting == <<gpu_fault, backends, stop_on_error>>
test == <<mode, timed>>
counts == <<total, vram_errors>>
place == <<step, cycles, dispatches, cpu_steps, reference, readback>>
objects == <<held, lost>>
clients == <<holder, terminated, destroyed, starts, initialized>>
gpuVars == <<setting, test, running, expired, worker, counts, place, objects, clients,
             refused>>

Refuse == refused < MaxFaults /\ refused' = refused + 1

OneIf(p) == IF p THEN 1 ELSE 0
Capped(n, max) == IF n > max THEN max ELSE n

\* Handles `gone` are released, those of `made` written, over others if need be.
Renew(gone, made) ==
  /\ held' = (held \ gone) \cup made
  /\ lost' = lost \cup (made \cap (held \ gone))

\* Renderer parts are made by calls that undo their own work if they cannot end it.
PartsUpTo(n) == UNION {RendererParts[i] : i \in 1..n}

-----------------------------------------------------------------------------
(* VRAM: words of a buffer that may have a bit stuck, or two words of it   *)
(* in one cell.  A pattern is written to all words, then verified.         *)

Even == {b \in Bits : b % 2 = 0}
Xor(x, y) == (x \ y) \cup (y \ x)

Steps(kind, last) == [i \in 1..(last + 1) |-> [kind |-> kind, arg |-> i - 1]]
WalkingSteps == Steps("walking_ones", WordWidth - 1) \o Steps("walking_zeros", WordWidth - 1)
FixedSteps == Steps("address", 0) \o Steps("alternating", 1)
MarchStep == Steps("march", 0)
ButterflyStep == Steps("butterfly", 0)
RandomSteps == Steps("random", Seeds - 1)
VramSteps == WalkingSteps \o FixedSteps \o MarchStep \o ButterflyStep \o RandomSteps

\* seed * 1103515245 + 12345, with seed = (0xDEADBEEF + 0x01010101 * index) ^ gid.
Lcg(index, i) ==
  LET size == 2^WordWidth
      seed == Xor(Word(239 + index), Word(i))
      n == CHOOSE k \in 0..(size - 1) : Word(k) = seed
  IN  Word((n * (1103515245 % size) + 12345) % size)

\* What a step writes into word i.
Pattern(s, i) ==
  CASE s.kind = "walking_ones" -> {s.arg}
    [] s.kind = "walking_zeros" -> Bits \ {s.arg}
    [] s.kind = "address" -> Word(i)
    [] s.kind = "alternating" -> IF s.arg = 0 THEN Bits \ Even ELSE Even
    [] s.kind = "butterfly" ->
         Xor(Word(i), IF i < VramWords \div 2 THEN Even ELSE Bits \ Even)
    [] s.kind = "random" -> Lcg(s.arg, i)

\* Work-items come in whole groups: the words they reach.
Rounded(n) == (n \div local_size) * local_size
Reached(s) ==
  IF s.kind = "butterfly"
    THEN {i \in 0..(VramWords - 1) :
            i < Rounded(VramWords \div 2) \/ VramWords - 1 - i < Rounded(VramWords \div 2)}
    ELSE 0..(Rounded(VramWords) - 1)

MarchReads == [ones |-> 2, zeros |-> 3]

CountsOfStuck(s) ==
  IF s.kind = "march"
    THEN {IF gpu_fault.to = 1 THEN MarchReads.zeros ELSE MarchReads.ones}
    ELSE {OneIf((gpu_fault.bit \in Pattern(s, gpu_fault.word)) # (gpu_fault.to = 1))}

\* Two words in one cell: whichever is written last is read from both.  In a march
\* the work-items of a pass read and write in any order.
CountsOfAlias(s) ==
  IF s.kind = "march" THEN 0..4
  ELSE {OneIf(Pattern(s, gpu_fault.word) # Pattern(s, gpu_fault.other))}

\* The error counts a step may read back.
ErrorCounts(s) ==
  CASE gpu_fault.kind = "stuck" /\ gpu_fault.word \in Reached(s) -> CountsOfStuck(s)
    [] gpu_fault.kind = "alias" /\ {gpu_fault.word, gpu_fault.other} \subseteq Reached(s) ->
         CountsOfAlias(s)
    [] OTHER -> {0}

-----------------------------------------------------------------------------
(* The worker: opening the device.                                         *)

Goes(from, to) == worker = from /\ worker' = to

\* What the worker leaves alone while it prepares.
preparing == <<setting, test, expired, counts, place, clients>>

EndsAt(from) == Goes(from, "exited") /\ running' = FALSE /\ Refuse /\ UNCHANGED preparing

Prepares(from, to) == Goes(from, to) /\ UNCHANGED <<preparing, running, refused>>

\* OpenCLContext::init writes over the handles of the test before.
OpenCl ==
  /\ mode \notin Vulkan
  /\ \/ Prepares("init", "kernels") /\ Renew({}, ClContext)
     \/ /\ EndsAt("init")
        /\ \E over \in {{"cl_context"}, ClContext} :
             held' = held \ over /\ lost' = lost \cup (held \cap over)

\* compile_all_kernels(): kernels compiled before the one that is refused are kept.
compile_all_kernels ==
  /\ mode \notin Vulkan
  /\ \E n \in 0..Len(Kernels) :
       /\ Renew({}, ToSet(SubSeq(Kernels, 1, n))
                    \cup IF n = Len(Kernels) /\ "fp64" \in backends
                           THEN {"k_matmul_fp64"} ELSE {})
       /\ IF n = Len(Kernels)
            THEN Prepares("kernels", IF mode = "MIXED" THEN "mixed" ELSE "buffers")
            ELSE EndsAt("kernels")

Needed(m) ==
  CASE m \in {"MATRIX_MUL", "MATRIX_MUL_FP64"} -> {"a", "b", "c"}
    [] m \in {"FMA_STRESS", "TRIG_STRESS"} -> {"data"}
    [] m = "VRAM_TEST" -> {"vram", "errors"}

\* A buffer that is refused ends the workload, and `running` stays as it is.
AllocateBuffers ==
  /\ worker = "buffers"
  /\ \/ Prepares("buffers", "loop") /\ Renew({}, Needed(mode))
     \/ \E made \in SUBSET Needed(mode) \ {Needed(mode)} :
          /\ Goes("buffers", "release") /\ Refuse /\ Renew({}, made)
          /\ UNCHANGED <<preparing, running>>

\* VulkanContext::init; what it made before a refusal is left to the next init.
OpenVk ==
  /\ mode \in Vulkan
  /\ \E n \in 0..3 :
       /\ Renew(ToSet(VkContext), ToSet(SubSeq(VkContext, 1, n)))
       /\ IF n = 3 THEN Prepares("init", "renderer") ELSE EndsAt("init")

\* VulkanRenderer::init; each part undoes its own work if it cannot end it, and on a
\* refusal the renderer's destructor cleans up what the parts before left.
BuildRenderer ==
  \/ Prepares("renderer", "complexity") /\ Renew({}, Renderer)
  \/ \E n \in 0..(Len(RendererParts) - 1) :
       /\ Goes("renderer", "release") /\ running' = FALSE /\ Refuse
       /\ Renew({}, PartsUpTo(n)) /\ UNCHANGED preparing

\* set_shader_complexity() makes the layout anew; nobody looks at a refusal.
SetComplexity ==
  /\ Goes("complexity", "loop") /\ UNCHANGED <<preparing, running>>
  /\ \/ Renew(Pipeline, Pipeline) /\ UNCHANGED refused
     \/ Renew(Pipeline, {}) /\ Refuse

-----------------------------------------------------------------------------
(* The worker: its loop.                                                   *)

looping == <<setting, test, expired, objects, clients, worker>>

TimeUp == timed /\ expired
check_timeout == running' = (running /\ ~TimeUp)

\* A dispatch whose result nobody looks at.
Compute(m) ==
  /\ worker = "loop" /\ running /\ mode = m
  /\ check_timeout
  /\ UNCHANGED <<looping, counts, place, refused>>

run_matrix_mul_fp32 == Compute("MATRIX_MUL")
run_matrix_mul_fp64 == Compute("MATRIX_MUL_FP64")
run_trig_stress == Compute("TRIG_STRESS")

\* Every so often the kernel's result is compared with the CPU's, which follows the
\* kernel by one run from check to check.
run_fma_stress ==
  /\ worker = "loop" /\ running /\ mode = "FMA_STRESS"
  /\ dispatches' = Capped(dispatches + 1, MaxDispatches)
  /\ IF dispatches < MaxDispatches /\ dispatches' % CheckInterval = 1 % CheckInterval
       THEN /\ cpu_steps' = cpu_steps + 1
            /\ \E flip \in {FALSE, gpu_fault.kind = "compute"} :
                 total' = Capped(total + OneIf(flip \/ dispatches' # cpu_steps'), MaxErrors)
            /\ vram_errors' = IF total' > 0 THEN total' ELSE vram_errors
       ELSE UNCHANGED <<cpu_steps, counts>>
  /\ check_timeout
  /\ UNCHANGED <<looping, step, cycles, reference, readback, refused>>

\* Mutant: the count of a step takes the place of the total.
CountOfStep(n) == Capped(n, MaxErrors)

Added(n) == Capped(total + n, MaxErrors)

\* The head of each loop of patterns looks at `running`: a stop ends them all.
run_vram_test ==
  /\ worker = "loop" /\ running /\ mode = "VRAM_TEST"
  /\ \E n \in ErrorCounts(VramSteps[step]) : total' = Added(n)
  /\ vram_errors' = total'
  /\ step' = IF step = Len(VramSteps) THEN 1 ELSE step + 1
  /\ cycles' = IF step = Len(VramSteps) THEN 1 ELSE cycles
  /\ running' = (running /\ ~(stop_on_error /\ total' > 0) /\ ~TimeUp)
  /\ UNCHANGED <<looping, dispatches, cpu_steps, reference, readback, refused>>

\* Frames show the clear colour: no shader is linked in, so nothing is drawn on it.
\* A command buffer may be refused, which gives no frame; a submission that is
\* refused leaves in the host's memory what was there.
Rendered ==
  {[pixels |-> TRUE, in |-> c, refusal |-> FALSE] :
     c \in {"clear"} \cup (IF gpu_fault.kind = "compute" THEN {"corrupt"} ELSE {})}
NoCommandBuffer == [pixels |-> FALSE, in |-> readback, refusal |-> TRUE]
NotSubmitted == [pixels |-> TRUE, in |-> readback, refusal |-> TRUE]
render_frame == Rendered \cup {NoCommandBuffer, NotSubmitted}

compare_frame(f, wanted) == OneIf(f.in # wanted)

\* The first frame is the one the others are compared with, every third of them.
Render ==
  /\ worker = "loop" /\ running
  /\ dispatches' = (dispatches + 1) % 3
  /\ \E f \in render_frame :
       /\ IF f.refusal THEN Refuse ELSE UNCHANGED refused
       /\ readback' = f.in
       /\ reference' = IF reference = "unset" /\ f.pixels THEN f.in ELSE reference
       /\ total' = IF dispatches' = 0 /\ f.pixels
                     THEN Capped(total + compare_frame(f, reference'), MaxErrors) ELSE total
  /\ vram_errors' = total'
  /\ check_timeout
  /\ UNCHANGED <<looping, step, cycles, cpu_steps>>

\* The load they draw with differs, and nothing depends on it.
run_vulkan_3d == mode = "VULKAN_3D" /\ Render
run_vulkan_adaptive == mode = "VULKAN_ADAPTIVE" /\ Render

MixedModes == <<"MATRIX_MUL", "FMA_STRESS", "TRIG_STRESS">>

\* run_mixed(): a mode whose buffers are refused is skipped.
BeginPhase ==
  /\ worker = "mixed" /\ running
  /\ \/ Goes("mixed", "dispatch") /\ Renew({}, Needed(MixedModes[step]))
        /\ UNCHANGED <<step, refused>>
     \/ Refuse /\ step' = (step % 3) + 1 /\ UNCHANGED <<objects, worker>>
  /\ UNCHANGED <<setting, test, expired, running, counts, clients, cycles, dispatches,
                 cpu_steps, reference, readback>>

MixedDispatch ==
  /\ worker \in {"dispatch", "phase"} /\ running
  /\ worker' = "phase" /\ check_timeout
  /\ UNCHANGED <<preparing, objects, refused>>

EndPhase ==
  /\ worker \in {"dispatch", "phase"} /\ (worker = "phase" \/ ~running)
  /\ worker' = "mixed" /\ step' = (step % 3) + 1 /\ Renew(ClBuffers, {})
  /\ UNCHANGED <<setting, test, expired, running, counts, clients, cycles, dispatches,
                 cpu_steps, reference, readback, refused>>

run_mixed == BeginPhase \/ MixedDispatch \/ EndPhase

LoopOver ==
  /\ worker \in {"loop", "mixed"} /\ ~running /\ Prepares(worker, "release")
  /\ UNCHANGED objects

\* Mutant: the buffers of a test are not released.
ReleaseKernelsOnly == mode \notin Vulkan /\ Renew(ClKernels, {})

ReleaseOpenCl == mode \notin Vulkan /\ Renew(ClBuffers \cup ClKernels, {})

\* VulkanRenderer::cleanup, called or by the destructor.
cleanup == mode \in Vulkan /\ Renew(Renderer, {})

Release == Prepares("release", "exited") /\ (ReleaseOpenCl \/ cleanup)

worker_main ==
  \/ OpenCl \/ compile_all_kernels \/ AllocateBuffers
  \/ OpenVk \/ BuildRenderer \/ SetComplexity
  \/ run_matrix_mul_fp32 \/ run_matrix_mul_fp64 \/ run_trig_stress
  \/ run_fma_stress \/ run_vram_test \/ run_mixed
  \/ run_vulkan_3d \/ run_vulkan_adaptive
  \/ LoopOver \/ Release

-----------------------------------------------------------------------------
(* The clients.                                                            *)

Initialize ==
  /\ ~initialized /\ initialized' = TRUE
  /\ UNCHANGED <<setting, test, running, expired, worker, counts, place, objects, refused,
                 holder, terminated, destroyed, starts>>

\* Whether start() goes ahead, not what becomes of it.
Accepts(m) ==
  /\ ~running /\ initialized
  /\ (IF m \in Vulkan THEN "vulkan" ELSE "opencl") \in backends

\* Mutant: the metrics of the last test are kept.
KeepMetrics == total' = 0 /\ UNCHANGED vram_errors

ResetMetrics == total' = 0 /\ vram_errors' = 0

\* A worker that has ended by itself was not joined: the new one is assigned over it.
Launch(m, t) ==
  /\ holder = "nobody" /\ Accepts(m)
  /\ IF worker = "none"
       THEN /\ running' = TRUE /\ mode' = m /\ timed' = t /\ expired' = FALSE
            /\ worker' = "init" /\ ResetMetrics
            /\ step' = 1 /\ cycles' = 0 /\ dispatches' = 0 /\ cpu_steps' = 0
            /\ reference' = "unset" /\ readback' = "unwritten"
            /\ UNCHANGED terminated
       ELSE terminated' = TRUE /\ UNCHANGED <<running, test, expired, worker, counts, place>>
  /\ UNCHANGED <<setting, objects, refused, holder, destroyed, initialized>>

Start(m, t) == starts < MaxStarts /\ starts' = starts + 1 /\ Launch(m, t)

BeginStop(who) ==
  /\ holder = "nobody" /\ holder' = who
  /\ running' = FALSE
  /\ UNCHANGED <<setting, test, expired, worker, counts, place, objects, refused,
                 terminated, destroyed, starts, initialized>>

EndStop(who) ==
  /\ holder = who /\ holder' = "nobody"
  /\ worker \in {"none", "exited"} /\ worker' = "none"
  /\ UNCHANGED <<setting, test, running, expired, counts, place, objects, refused,
                 terminated, destroyed, starts, initialized>>

Stop == worker # "none" /\ BeginStop("user")

\* ~GpuEngine, with the contexts it holds.
Destroy ==
  /\ starts > 0 /\ worker = "none" /\ holder = "nobody" /\ destroyed' = TRUE
  /\ Renew(ClContext \cup ToSet(VkContext), {})
  /\ UNCHANGED <<setting, test, running, expired, worker, counts, place, refused,
                 holder, terminated, starts, initialized>>

TimePasses ==
  /\ running /\ timed /\ ~expired /\ expired' = TRUE
  /\ UNCHANGED <<setting, test, running, worker, counts, place, objects, clients, refused>>

GpuInit ==
  /\ gpu_fault \in Hardware
  /\ backends \in Machines
  /\ stop_on_error \in BOOLEAN /\ initialized = FALSE
  /\ running = FALSE /\ mode = "MATRIX_MUL" /\ timed = FALSE /\ expired = FALSE
  /\ worker = "none" /\ total = 0 /\ vram_errors = 0
  /\ step = 1 /\ cycles = 0 /\ dispatches = 0 /\ cpu_steps = 0
  /\ reference = "unset" /\ readback = "unwritten"
  /\ held = {} /\ lost = {}
  /\ holder = "nobody" /\ terminated = FALSE /\ destroyed = FALSE
  /\ starts = 0 /\ refused = 0

Goes_on == ~terminated /\ ~destroyed

GpuNext ==
  /\ Goes_on
  /\ \/ worker_main \/ Initialize \/ Stop \/ EndStop("user") \/ Destroy \/ TimePasses
     \/ \E m \in Modes, t \in BOOLEAN : Start(m, t)

GpuSpec == GpuInit /\ [][GpuNext]_gpuVars

-----------------------------------------------------------------------------
(* Properties.                                                             *)

TypeOK ==
  /\ mode \in GpuStressMode /\ worker \in
       {"none", "init", "kernels", "buffers", "renderer", "complexity", "loop", "mixed",
        "dispatch", "phase", "release", "exited"}
  /\ {total, vram_errors} \subseteq 0..MaxErrors /\ vram_errors <= total
  /\ step \in 1..Len(VramSteps) /\ dispatches \in 0..MaxDispatches
  /\ cpu_steps \in 0..MaxDispatches
  /\ held \subseteq Objects /\ lost \subseteq Objects

\* On a GPU without a fault and a driver that refuses nothing no mode counts an error:
\* what is verified is what was written or drawn.  FMA_STRESS is apart: see FmaIsClean.
HealthyGpuIsClean ==
  gpu_fault.kind = "none" /\ refused = 0 /\ mode # "FMA_STRESS" => vram_errors = 0

\* Once every pattern has been through the VRAM, a bit that is stuck in a word the
\* work-items reach, and two such words in one cell, have been counted.
VramFindsItsFaults ==
  mode = "VRAM_TEST" /\ cycles = 1 =>
    /\ gpu_fault.kind = "stuck" /\ gpu_fault.word < Rounded(VramWords) => vram_errors > 0
    /\ gpu_fault.kind = "alias" /\ {gpu_fault.word, gpu_fault.other} \subseteq
         0..(Rounded(VramWords) - 1) => vram_errors > 0

\* A worker that is gone has left no buffer and no part of a renderer behind, whichever
\* call the driver refused, and no kernel unless one could not be compiled; no part of a
\* renderer outlives its device, nor a device its instance; and of the objects that
\* outlive the engine all are OpenCL's: contexts of earlier tests, or kernels of one that failed.
HandlesReleased ==
  LET alive == held \cup lost
  IN  /\ worker \in {"none", "exited"} =>
           /\ alive \cap (ClBuffers \cup Renderer) = {}
           /\ refused = 0 => alive \cap ClKernels = {}
      /\ lost \cap (Renderer \cup ToSet(VkContext)) = {}
      /\ alive \cap Renderer # {} => "device" \in held
      /\ "device" \in held => "instance" \in held
      /\ destroyed => alive \subseteq ClContext \cup ClKernels

\* A comparison that fails in FMA_STRESS is a compute error (gpu_engine.cpp:702).
FmaIsClean ==
  gpu_fault.kind = "none" /\ refused = 0 /\ mode = "FMA_STRESS" => vram_errors = 0
=============================================================================
