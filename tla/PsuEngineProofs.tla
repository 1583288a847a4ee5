-------------------------- MODULE PsuEngineProofs --------------------------
(***************************************************************************)
(* Proofs about GpuEngine and PsuEngine, a GPU engine of its own or one    *)
(* inside a PSU engine: what becomes of the driver's objects, what a test  *)
(* of a sound card and of a faulty one counts, and that no load outlives   *)
(* its test.  Whatever the driver refuses, and for any size of the VRAM.   *)
(***************************************************************************)
EXTENDS PsuEngine, SequenceTheorems, TLAPS

(***************************************************************************)
(* The loads.  The GPU load is started by the controller only, and by      *)
(* nobody while a stop() waits for its worker; so what the controller has  *)
(* stopped in its last lines stays so.                                     *)
(***************************************************************************)
LoadInv ==
  /\ ~psu_used => controller = "none" /\ ~cpu_running /\ psu_holder = "no"
  /\ controller \in {"shut_gpu", "end", "exited", "none"} => ~cpu_running
  /\ psu_used /\ controller \in {"end", "exited", "none"} => ~running
  /\ holder # "nobody" => ~running

LEMMA LoadInit == Init => LoadInv
BY DEF Init, GpuInit, PsuInit, LoadInv

\* The worker never starts a test, nor touches what its clients hold.
LEMMA WorkerLeaves ==
  ASSUME worker_main
  PROVE  /\ running' => running
         /\ UNCHANGED clients
<1>. USE DEF preparing, looping
<1>1. CASE OpenCl
  BY <1>1 DEF OpenCl, Prepares, EndsAt
<1>2. CASE compile_all_kernels
  BY <1>2 DEF compile_all_kernels, Prepares, EndsAt
<1>3. CASE AllocateBuffers
  BY <1>3 DEF AllocateBuffers, Prepares, EndsAt
<1>4. CASE OpenVk
  BY <1>4 DEF OpenVk, Prepares, EndsAt
<1>5. CASE BuildRenderer
  BY <1>5 DEF BuildRenderer, Prepares, EndsAt
<1>6. CASE SetComplexity
  BY <1>6 DEF SetComplexity
<1>7. CASE run_matrix_mul_fp32 \/ run_matrix_mul_fp64 \/ run_trig_stress
  BY <1>7 DEF run_matrix_mul_fp32, run_matrix_mul_fp64, run_trig_stress, Compute,
              check_timeout
<1>8. CASE run_fma_stress \/ run_vram_test
  BY <1>8 DEF run_fma_stress, run_vram_test, check_timeout
<1>9. CASE run_vulkan_3d \/ run_vulkan_adaptive
  BY <1>9 DEF run_vulkan_3d, run_vulkan_adaptive, Render, check_timeout
<1>10. CASE run_mixed
  BY <1>10 DEF run_mixed, BeginPhase, MixedDispatch, EndPhase, check_timeout
<1>11. CASE LoopOver \/ Release
  BY <1>11 DEF LoopOver, Release, Prepares
<1>. QED
  BY <1>1, <1>2, <1>3, <1>4, <1>5, <1>6, <1>7, <1>8, <1>9, <1>10, <1>11 DEF worker_main

LEMMA LoadWorker ==
  ASSUME LoadInv, worker_main /\ UNCHANGED psuVars
  PROVE  LoadInv'
BY WorkerLeaves DEF LoadInv, psuVars, psuTest, psuThreads, clients

LEMMA LoadGpu ==
  ASSUME LoadInv, ~psu_used, GpuNext, UNCHANGED psuVars
  PROVE  LoadInv'
<1>. USE DEF psuVars, psuTest, psuThreads, clients
<1>1. CASE worker_main
  BY <1>1, LoadWorker
<1>2. CASE Initialize \/ Stop \/ EndStop("user") \/ Destroy \/ TimePasses
  BY <1>2 DEF LoadInv, Initialize, Stop, BeginStop, EndStop, Destroy, TimePasses
<1>3. ASSUME NEW m \in Modes, NEW t \in BOOLEAN, Start(m, t)
      PROVE  LoadInv'
  BY <1>3 DEF LoadInv, Start, Launch
<1>. QED
  BY <1>1, <1>2, <1>3 DEF GpuNext

\* One step of the controller, from one place to another.
LEMMA LoadController ==
  ASSUME LoadInv, psu_used, controller_thread_func
  PROVE  LoadInv'
<1>. USE DEF psuTest, gpuVars, clients
<1>1. ASSUME NEW from, NEW to, Look(from, to) \/ StartCpu(from, to),
             to \notin {"shut_gpu", "end", "exited", "none"}
      PROVE  LoadInv'
  <2>1. /\ controller' = to /\ UNCHANGED <<psu_used, psu_holder, holder, running>>
        /\ cpu_running' \in {cpu_running, TRUE}
    BY <1>1 DEF Look, StartCpu, Controls, start_cpu_load
  <2>. QED
    BY <1>1, <2>1 DEF LoadInv
<1>11. ASSUME NEW from, NEW to, StopCpu(from, to), to \notin {"end", "exited", "none"}
      PROVE  LoadInv'
  BY <1>11 DEF LoadInv, StopCpu, Controls, stop_cpu_load
<1>2. ASSUME NEW from, NEW to, StartGpu(from, to),
             to \notin {"shut_gpu", "end", "exited", "none"}
      PROVE  LoadInv'
  <2>1. Controls(from, to) /\ UNCHANGED <<cpu_running, psu_running, level>>
    BY <1>2 DEF StartGpu
  <2>2. holder' = holder /\ (holder # "nobody" => running' = running)
    BY <1>2 DEF StartGpu, Launch
  <2>. QED
    BY <1>2, <2>1, <2>2 DEF LoadInv, Controls
<1>3. ASSUME NEW from, NEW to, StopGpu(from, to), from \in {"idle_gpu", "shut_gpu"},
             from = "idle_gpu" => to \notin {"shut_gpu", "end", "exited", "none"},
             from = "shut_gpu" => to = "end"
      PROVE  LoadInv'
  <2>1. UNCHANGED <<psu_used, psu_holder, cpu_running>> /\ controller = from
    BY <1>3 DEF StopGpu, Controls
  <2>2. \/ ~running /\ controller' = to /\ UNCHANGED <<running, holder>>
        \/ ~running' /\ controller' = from
        \/ holder # "nobody" /\ controller' = to /\ holder' = "nobody" /\ running' = running
    BY <1>3 DEF StopGpu, Controls, BeginStop, EndStop
  <2>. QED
    BY <1>3, <2>1, <2>2 DEF LoadInv
<1>4. CASE Steady
  <2>1. CASE StartCpu("begin", "steady_gpu") \/ Look("hold", "shut_cpu")
    BY <1>1, <2>1
  <2>2. CASE StartGpu("steady_gpu", "hold")
    BY <1>2, <2>2
  <2>. QED
    BY <1>4, <2>1, <2>2 DEF Steady
<1>5. CASE Spike
  <2>1. ASSUME NEW to \in {"idle_cpu", "shut_cpu", "load_cpu", "begin"},
               \E from : Look(from, to)
        PROVE  LoadInv'
    BY <1>1, <2>1
  <2>2. CASE StopCpu("idle_cpu", "idle_gpu")
    BY <1>11, <2>2
  <2>3. CASE StopGpu("idle_gpu", "idle")
    BY <1>3, <2>3
  <2>4. CASE StartCpu("load_cpu", "load_gpu")
    BY <1>1, <2>4
  <2>5. CASE StartGpu("load_gpu", "load")
    BY <1>2, <2>5
  <2>. QED
    BY <1>5, <2>1, <2>2, <2>3, <2>4, <2>5 DEF Spike
<1>6. CASE Ramp
  <2>1. ASSUME NEW to \in {"ramp_stop", "ramp_gpu", "shut_cpu"},
               \E from : Look(from, to)
        PROVE  LoadInv'
    BY <1>1, <2>1
  <2>2. CASE StopCpu("ramp_stop", "ramp_start")
    BY <1>11, <2>2
  <2>3. CASE /\ Controls("ramp_start", "begin") /\ start_cpu_load
             /\ level' = level + 1 /\ UNCHANGED <<gpuVars, psu_running>>
    BY <2>3 DEF LoadInv, Controls
  <2>4. CASE StartGpu("ramp_gpu", "hold")
    BY <1>2, <2>4
  <2>. QED
    BY <1>6, <2>1, <2>2, <2>3, <2>4 DEF Ramp
<1>7. CASE CleanShutdown
  <2>1. CASE StopCpu("shut_cpu", "shut_gpu")
    BY <1>11, <2>1
  <2>2. CASE StopGpu("shut_gpu", "end")
    BY <1>3, <2>2
  <2>3. CASE /\ Controls("end", "exited") /\ psu_running' = FALSE
             /\ UNCHANGED <<gpuVars, cpu_running, level>>
    BY <2>3 DEF LoadInv, Controls
  <2>. QED
    BY <1>7, <2>1, <2>2, <2>3 DEF CleanShutdown
<1>. QED
  BY <1>4, <1>5, <1>6, <1>7 DEF controller_thread_func

LEMMA LoadPsu ==
  ASSUME LoadInv, psu_used, PsuNext
  PROVE  LoadInv'
<1>. USE DEF psuTest, psuThreads, gpuVars, clients, stopRest, control
<1>1. CASE worker_main /\ UNCHANGED psuVars
  BY <1>1, LoadWorker
<1>2. CASE controller_thread_func
  BY <1>2, LoadController
<1>3. CASE metrics_poller_func \/ PsuTimePasses
  <2>1. UNCHANGED <<psu_used, psu_holder, cpu_running, running, holder, controller>>
    BY <1>3 DEF metrics_poller_func, Poll, EndPolling, PsuTimePasses
  <2>. QED
    BY <2>1 DEF LoadInv
<1>4. CASE PsuStop
  BY <1>4 DEF LoadInv, PsuStop
<1>5. CASE stop
  <2>1. psu_used' = psu_used
    BY <1>5 DEF stop, StopsCpuLoad, StopsGpuLoad, JoinBoth
  <2>2. CASE StopsCpuLoad
    <3>1. ~cpu_running' /\ psu_used /\ UNCHANGED <<controller, running, holder>>
      BY <2>2 DEF StopsCpuLoad, stop_cpu_load
    <3>. QED
      BY <2>1, <3>1 DEF LoadInv
  <2>3. CASE StopsGpuLoad
    <3>1. UNCHANGED <<controller, cpu_running>>
      BY <2>3 DEF StopsGpuLoad
    <3>2. ~running' \/ (running' = running /\ holder' = holder)
      BY <2>3 DEF LoadInv, StopsGpuLoad, BeginStop, EndStop
    <3>. QED
      BY <2>1, <3>1, <3>2 DEF LoadInv
  <2>4. CASE JoinBoth
    BY <2>1, <2>4 DEF LoadInv, JoinBoth
  <2>. QED
    BY <1>5, <2>2, <2>3, <2>4 DEF stop
<1>6. ASSUME NEW p \in Patterns, NEW t \in BOOLEAN, PsuStart(p, t)
      PROVE  LoadInv'
  <2>1. UNCHANGED <<psu_used, psu_holder, cpu_running, running, holder>>
    BY <1>6 DEF PsuStart, test
  <2>2. controller' = controller \/ (controller = "none" /\ controller' = "begin")
    BY <1>6 DEF PsuStart
  <2>. QED
    BY <2>1, <2>2 DEF LoadInv
<1>. QED
  BY <1>1, <1>2, <1>3, <1>4, <1>5, <1>6 DEF PsuNext

LEMMA LoadStep ==
  ASSUME LoadInv, [Next]_vars
  PROVE  LoadInv'
<1>1. CASE ~psu_used /\ GpuNext /\ UNCHANGED psuVars
  BY <1>1, LoadGpu
<1>2. CASE psu_used /\ PsuNext
  BY <1>2, LoadPsu
<1>3. CASE UNCHANGED vars
  BY <1>3 DEF LoadInv, vars, gpuVars, psuVars, psuTest, psuThreads, clients
<1>. QED
  BY <1>1, <1>2, <1>3 DEF Next

\* No load outlives its test, whichever of the controller and stop() comes last.
THEOREM LoadsEndWithTestHolds == Spec => []LoadsEndWithTest
<1>1. LoadInv => LoadsEndWithTest
  BY DEF LoadInv, LoadsEndWithTest
<1>. QED
  BY <1>1, LoadInit, LoadStep, PTL DEF Spec

-----------------------------------------------------------------------------
(* The steps, as the objects and the counts see them: those of the worker, *)
(* the two calls of a client that change either, and all others.           *)

Begins == \E m \in GpuStressMode, t \in BOOLEAN : Launch(m, t)

Joins == worker \in {"none", "exited"} /\ worker' = "none"

Aside ==
  /\ UNCHANGED <<setting, test, counts, place, objects, refused, destroyed>>
  /\ worker' = worker \/ Joins

LEMMA GpuSteps ==
  ASSUME GpuNext
  PROVE  ~destroyed /\ (worker_main \/ Begins \/ Destroy \/ Aside)
<1>1. ASSUME Initialize \/ Stop \/ TimePasses PROVE Aside
  BY <1>1 DEF Aside, Initialize, Stop, BeginStop, TimePasses, clients
<1>2. ASSUME EndStop("user") PROVE Aside
  BY <1>2 DEF Aside, Joins, EndStop
<1>3. ASSUME NEW m \in Modes, NEW t \in BOOLEAN, Start(m, t) PROVE Begins
  BY <1>3, GpuAssumption DEF Start, Begins
<1>. QED
  BY <1>1, <1>2, <1>3 DEF GpuNext, Goes_on

LEMMA ControllerSteps ==
  ASSUME controller_thread_func
  PROVE  Begins \/ Aside
<1>. USE DEF gpuVars, clients
<1>1. CASE UNCHANGED gpuVars
  BY <1>1 DEF Aside
<1>2. ASSUME NEW from, NEW to, StartGpu(from, to) PROVE Begins \/ Aside
  BY <1>1, <1>2 DEF StartGpu, Begins, GpuStressMode, Computing
<1>3. ASSUME NEW from, NEW to, StopGpu(from, to) PROVE Aside
  BY <1>1, <1>3 DEF StopGpu, BeginStop, EndStop, Aside, Joins
<1>4. CASE Steady
  BY <1>1, <1>2, <1>4 DEF Steady, StartCpu, Look
<1>5. CASE Spike
  BY <1>1, <1>2, <1>3, <1>5 DEF Spike, StartCpu, StopCpu, Look
<1>6. CASE Ramp
  BY <1>1, <1>2, <1>6 DEF Ramp, StopCpu, Look
<1>7. CASE CleanShutdown
  BY <1>1, <1>3, <1>7 DEF CleanShutdown, StopCpu
<1>. QED
  BY <1>4, <1>5, <1>6, <1>7 DEF controller_thread_func

LEMMA PsuSteps ==
  ASSUME PsuNext
  PROVE  worker_main \/ Begins \/ Aside
<1>. USE DEF gpuVars, clients
<1>1. CASE UNCHANGED gpuVars
  BY <1>1 DEF Aside
<1>2. CASE metrics_poller_func \/ PsuStop \/ PsuTimePasses
  BY <1>1, <1>2 DEF metrics_poller_func, Poll, EndPolling, PsuStop, PsuTimePasses
<1>3. CASE stop
  BY <1>1, <1>3 DEF stop, StopsCpuLoad, StopsGpuLoad, JoinBoth, BeginStop, EndStop, Aside, Joins
<1>4. ASSUME NEW p \in Patterns, NEW t \in BOOLEAN, PsuStart(p, t) PROVE Aside
  BY <1>4 DEF PsuStart, Aside
<1>. QED
  BY <1>2, <1>3, <1>4, ControllerSteps DEF PsuNext

LEMMA StepsOfAll ==
  ASSUME [Next]_vars
  PROVE  Aside \/ (~destroyed /\ (worker_main \/ Begins \/ Destroy))
<1>1. CASE UNCHANGED vars
  BY <1>1 DEF vars, gpuVars, clients, Aside
<1>. QED
  BY <1>1, GpuSteps, PsuSteps DEF Next, Goes_on

-----------------------------------------------------------------------------
(* Where the worker is says which mode it serves.                          *)

PlaceInv ==
  /\ mode \in GpuStressMode /\ refused \in Nat
  /\ worker = "kernels" => mode \notin Vulkan
  /\ worker = "buffers" => mode \notin Vulkan /\ mode # "MIXED"
  /\ worker \in {"renderer", "complexity"} => mode \in Vulkan
  /\ worker = "loop" => mode # "MIXED"
  /\ worker \in {"mixed", "dispatch", "phase"} => mode = "MIXED"
  /\ mode = "MIXED" => step \in 1..3

LEMMA PlaceInit == Init => PlaceInv
BY DEF Init, GpuInit, PlaceInv, GpuStressMode, Computing, Vulkan

\* A refusal is counted.
LEMMA Refusals ==
  ASSUME PlaceInv, Refuse
  PROVE  refused' \in Nat /\ refused' > 0
<1>1. \A n \in Nat : n + 1 \in Nat /\ n + 1 > 0
  OBVIOUS
<1>. QED
  BY <1>1 DEF PlaceInv, Refuse

\* The steps of a loop stay in it.
LoopStep ==
  \/ run_matrix_mul_fp32 \/ run_matrix_mul_fp64 \/ run_trig_stress
  \/ run_fma_stress \/ run_vram_test
  \/ run_vulkan_3d \/ run_vulkan_adaptive

LEMMA LoopSteps ==
  ASSUME LoopStep
  PROVE  /\ worker = "loop" /\ UNCHANGED looping
         /\ UNCHANGED refused \/ Refuse
<1>1. CASE run_matrix_mul_fp32 \/ run_matrix_mul_fp64 \/ run_trig_stress
  BY <1>1 DEF run_matrix_mul_fp32, run_matrix_mul_fp64, run_trig_stress, Compute
<1>2. CASE run_fma_stress
  BY <1>2 DEF run_fma_stress
<1>3. CASE run_vram_test
  BY <1>3 DEF run_vram_test
<1>4. CASE run_vulkan_3d \/ run_vulkan_adaptive
  BY <1>4 DEF run_vulkan_3d, run_vulkan_adaptive, Render
<1>. QED
  BY <1>1, <1>2, <1>3, <1>4 DEF LoopStep

LEMMA PlaceWorker ==
  ASSUME PlaceInv, worker_main
  PROVE  PlaceInv'
<1>. USE DEF preparing, place, test
<1>1. CASE OpenCl
  <2>1. UNCHANGED <<mode, step>> /\ (worker' = "kernels" \/ worker' = "exited")
    BY <1>1 DEF OpenCl, Prepares, EndsAt, Goes
  <2>2. mode \notin Vulkan /\ (UNCHANGED refused \/ Refuse)
    BY <1>1 DEF OpenCl, Prepares, EndsAt
  <2>. QED
    BY <2>1, <2>2, Refusals DEF PlaceInv
<1>2. CASE compile_all_kernels
  <2>1. /\ UNCHANGED <<mode, step>>
        /\ \/ worker' = "mixed" /\ mode = "MIXED"
           \/ worker' = "buffers" /\ mode # "MIXED"
           \/ worker' = "exited"
    BY <1>2 DEF compile_all_kernels, Prepares, EndsAt, Goes
  <2>2. mode \notin Vulkan /\ (UNCHANGED refused \/ Refuse)
    BY <1>2 DEF compile_all_kernels, Prepares, EndsAt
  <2>. QED
    BY <2>1, <2>2, Refusals DEF PlaceInv
<1>3. CASE AllocateBuffers
  <2>1. /\ UNCHANGED <<mode, step>> /\ worker = "buffers"
        /\ worker' = "loop" \/ worker' = "release"
    BY <1>3 DEF AllocateBuffers, Prepares, Goes
  <2>2. UNCHANGED refused \/ Refuse
    BY <1>3 DEF AllocateBuffers, Prepares
  <2>. QED
    BY <2>1, <2>2, Refusals DEF PlaceInv
<1>4. CASE OpenVk
  <2>1. /\ UNCHANGED <<mode, step>> /\ mode \in Vulkan
        /\ worker' = "renderer" \/ worker' = "exited"
    BY <1>4 DEF OpenVk, Prepares, EndsAt, Goes
  <2>2. UNCHANGED refused \/ Refuse
    BY <1>4 DEF OpenVk, Prepares, EndsAt
  <2>. QED
    BY <2>1, <2>2, Refusals DEF PlaceInv
<1>5. CASE BuildRenderer
  <2>1. /\ UNCHANGED <<mode, step>> /\ worker = "renderer"
        /\ worker' = "complexity" \/ worker' = "release"
    BY <1>5 DEF BuildRenderer, Prepares, Goes
  <2>2. UNCHANGED refused \/ Refuse
    BY <1>5 DEF BuildRenderer, Prepares
  <2>. QED
    BY <2>1, <2>2, Refusals DEF PlaceInv
<1>6. CASE SetComplexity
  <2>1. UNCHANGED <<mode, step>> /\ worker = "complexity" /\ worker' = "loop"
    BY <1>6 DEF SetComplexity, Goes
  <2>2. UNCHANGED refused \/ Refuse
    BY <1>6 DEF SetComplexity
  <2>3. mode # "MIXED"
    BY <2>1 DEF PlaceInv, Vulkan
  <2>. QED
    BY <2>1, <2>2, <2>3, Refusals DEF PlaceInv
<1>7. CASE LoopStep
  <2>1. UNCHANGED <<mode, worker>> /\ mode # "MIXED" /\ worker = "loop"
    BY <1>7, LoopSteps DEF looping, PlaceInv
  <2>. QED
    BY <1>7, <2>1, LoopSteps, Refusals DEF PlaceInv
<1>8. CASE run_mixed
  <2>1. UNCHANGED mode /\ mode = "MIXED" /\ worker' \in {"mixed", "dispatch", "phase"}
    BY <1>8 DEF run_mixed, BeginPhase, MixedDispatch, EndPhase, Goes, PlaceInv
  <2>2. UNCHANGED refused \/ Refuse
    BY <1>8 DEF run_mixed, BeginPhase, MixedDispatch, EndPhase
  <2>3. UNCHANGED step \/ step' = (step % 3) + 1
    BY <1>8 DEF run_mixed, BeginPhase, MixedDispatch, EndPhase
  <2>4. \A n \in 1..3 : (n % 3) + 1 \in 1..3
    OBVIOUS
  <2>5. step' \in 1..3
    BY <2>1, <2>3, <2>4 DEF PlaceInv
  <2>. QED
    BY <2>1, <2>2, <2>5, Refusals DEF PlaceInv
<1>9. CASE LoopOver \/ Release
  <2>1. /\ UNCHANGED <<mode, step, refused>>
        /\ worker' = "release" \/ worker' = "exited"
    BY <1>9 DEF LoopOver, Release, Prepares, Goes
  <2>. QED
    BY <2>1 DEF PlaceInv
<1>. QED
  BY <1>1, <1>2, <1>3, <1>4, <1>5, <1>6, <1>7, <1>8, <1>9 DEF worker_main, LoopStep

LEMMA PlaceStep ==
  ASSUME PlaceInv, [Next]_vars
  PROVE  PlaceInv'
<1>1. CASE Aside
  <2>1. UNCHANGED <<mode, step, refused>> /\ (worker' = worker \/ worker' = "none")
    BY <1>1 DEF Aside, Joins, test, place
  <2>. QED
    BY <2>1 DEF PlaceInv
<1>2. ASSUME NEW m \in GpuStressMode, NEW t \in BOOLEAN, Launch(m, t)
      PROVE  PlaceInv'
  <2>1. CASE worker = "none"
    <3>1. mode' = m /\ worker' = "init" /\ step' = 1 /\ refused' = refused
      BY <1>2, <2>1 DEF Launch
    <3>. QED
      BY <3>1 DEF PlaceInv
  <2>2. CASE worker # "none"
    <3>1. UNCHANGED <<mode, worker, step, refused>>
      BY <1>2, <2>2 DEF Launch, test, place
    <3>. QED
      BY <3>1 DEF PlaceInv
  <2>. QED
    BY <2>1, <2>2
<1>3. CASE Destroy
  <2>1. UNCHANGED <<mode, worker, step, refused>>
    BY <1>3 DEF Destroy, test, place
  <2>. QED
    BY <2>1 DEF PlaceInv
<1>. QED
  BY <1>1, <1>2, <1>3, PlaceWorker, StepsOfAll DEF Begins

-----------------------------------------------------------------------------
(* A sound card.  What is counted comes from what the card gave back, and  *)
(* from frames: the first one drawn is what the others are compared with,  *)
(* and none is missing unless the driver refused it.                       *)

CleanInv ==
  gpu_fault.kind = "none" /\ refused = 0 /\ mode # "FMA_STRESS" =>
    /\ total = 0 /\ vram_errors = 0
    /\ readback \in {"unwritten", "clear"} /\ reference \in {"unset", "clear"}

seen == <<gpu_fault, mode, total, vram_errors, reference, readback>>

LEMMA CleanInit == Init => CleanInv
BY DEF Init, GpuInit, CleanInv

\* A refusal is not taken back.
LEMMA RefusedStays ==
  ASSUME PlaceInv, worker_main, refused' = 0
  PROVE  refused = 0 /\ UNCHANGED refused
<1>. USE DEF preparing
<1>1. UNCHANGED refused \/ Refuse
  <2>1. CASE OpenCl \/ compile_all_kernels \/ AllocateBuffers
    BY <2>1 DEF OpenCl, compile_all_kernels, AllocateBuffers, Prepares, EndsAt
  <2>2. CASE OpenVk \/ BuildRenderer \/ SetComplexity
    BY <2>2 DEF OpenVk, BuildRenderer, SetComplexity, Prepares, EndsAt
  <2>3. CASE LoopStep
    BY <2>3, LoopSteps
  <2>4. CASE run_mixed \/ LoopOver \/ Release
    BY <2>4 DEF run_mixed, BeginPhase, MixedDispatch, EndPhase, LoopOver, Release, Prepares
  <2>. QED
    BY <2>1, <2>2, <2>3, <2>4 DEF worker_main, LoopStep
<1>. QED
  BY <1>1, Refusals

\* Who may count an error.
LEMMA SeenByOthers ==
  ASSUME worker_main
  PROVE  UNCHANGED seen \/ run_fma_stress \/ run_vram_test \/ Render
<1>. USE DEF preparing, looping, counts, place, setting, test, seen
<1>1. CASE OpenCl \/ compile_all_kernels \/ AllocateBuffers
  BY <1>1 DEF OpenCl, compile_all_kernels, AllocateBuffers, Prepares, EndsAt
<1>2. CASE OpenVk \/ BuildRenderer \/ SetComplexity
  BY <1>2 DEF OpenVk, BuildRenderer, SetComplexity, Prepares, EndsAt
<1>3. CASE run_matrix_mul_fp32 \/ run_matrix_mul_fp64 \/ run_trig_stress
  BY <1>3 DEF run_matrix_mul_fp32, run_matrix_mul_fp64, run_trig_stress, Compute
<1>4. CASE run_mixed
  BY <1>4 DEF run_mixed, BeginPhase, MixedDispatch, EndPhase
<1>5. CASE LoopOver \/ Release
  BY <1>5 DEF LoopOver, Release, Prepares
<1>. QED
  BY <1>1, <1>2, <1>3, <1>4, <1>5 DEF worker_main, run_vulkan_3d, run_vulkan_adaptive

LEMMA NothingAdded ==
  /\ Capped(0, MaxErrors) = 0 /\ Added(0) = Capped(total + 0, MaxErrors)
  /\ total = 0 => Capped(total + 0, MaxErrors) = 0
<1>1. MaxErrors \in Nat /\ ~(0 > MaxErrors) /\ 0 + 0 = 0
  BY GpuAssumption
<1>. QED
  BY <1>1 DEF Capped, Added

LEMMA CleanRender ==
  ASSUME CleanInv, Render, gpu_fault.kind = "none", refused = 0, refused' = 0,
         mode # "FMA_STRESS"
  PROVE  /\ total' = 0 /\ vram_errors' = 0
         /\ readback' \in {"unwritten", "clear"} /\ reference' \in {"unset", "clear"}
<1>1. total = 0 /\ reference \in {"unset", "clear"}
  BY DEF CleanInv
<1>2. PICK f \in render_frame :
        /\ IF f.refusal THEN Refuse ELSE UNCHANGED refused
        /\ readback' = f.in
        /\ reference' = IF reference = "unset" /\ f.pixels THEN f.in ELSE reference
        /\ total' = IF dispatches' = 0 /\ f.pixels
                      THEN Capped(total + compare_frame(f, reference'), MaxErrors) ELSE total
  BY DEF Render
<1>3. ~f.refusal
  BY <1>2 DEF Refuse
<1>4. f = [pixels |-> TRUE, in |-> "clear", refusal |-> FALSE]
  BY <1>2, <1>3 DEF render_frame, Rendered, NoCommandBuffer, NotSubmitted
<1>5. f.in = "clear" /\ f.pixels
  BY <1>4
<1>6. readback' = "clear" /\ reference' = "clear"
  BY <1>1, <1>2, <1>5
<1>7. compare_frame(f, reference') = 0
  BY <1>5, <1>6 DEF compare_frame, OneIf
<1>8. total' = 0
  BY <1>1, <1>2, <1>7, NothingAdded
<1>9. vram_errors' = total'
  BY DEF Render
<1>. QED
  BY <1>6, <1>8, <1>9

LEMMA CleanWorker ==
  ASSUME PlaceInv, CleanInv, worker_main
  PROVE  CleanInv'
<1>. SUFFICES ASSUME gpu_fault'.kind = "none", refused' = 0, mode' # "FMA_STRESS"
              PROVE  /\ total' = 0 /\ vram_errors' = 0
                     /\ readback' \in {"unwritten", "clear"}
                     /\ reference' \in {"unset", "clear"}
  BY DEF CleanInv
<1>1. refused = 0
  BY RefusedStays
<1>2. CASE UNCHANGED seen
  BY <1>1, <1>2 DEF CleanInv, seen
<1>3. CASE run_fma_stress
  BY <1>3 DEF run_fma_stress, looping, test
<1>4. CASE run_vram_test
  <2>1. UNCHANGED <<gpu_fault, mode, readback, reference>> /\ vram_errors' = total'
    BY <1>4 DEF run_vram_test, looping, setting, test
  <2>2. ErrorCounts(VramSteps[step]) = {0}
    BY <2>1 DEF ErrorCounts
  <2>3. total' = Added(0)
    BY <1>4, <2>2 DEF run_vram_test
  <2>. QED
    BY <1>1, <2>1, <2>3, NothingAdded DEF CleanInv
<1>5. CASE Render
  <2>1. UNCHANGED <<gpu_fault, mode>>
    BY <1>5 DEF Render, looping, setting, test
  <2>. QED
    BY <1>1, <1>5, <2>1, CleanRender
<1>. QED
  BY <1>2, <1>3, <1>4, <1>5, SeenByOthers

LEMMA CleanStep ==
  ASSUME PlaceInv, CleanInv, [Next]_vars
  PROVE  CleanInv'
<1>. USE DEF setting, test, counts, place
<1>1. CASE Aside \/ Destroy
  <2>1. UNCHANGED <<seen, refused>>
    BY <1>1 DEF Aside, Destroy, seen
  <2>. QED
    BY <2>1 DEF CleanInv, seen
<1>2. ASSUME NEW m \in GpuStressMode, NEW t \in BOOLEAN, Launch(m, t)
      PROVE  CleanInv'
  <2>1. CASE worker = "none"
    BY <1>2, <2>1 DEF Launch, ResetMetrics, CleanInv
  <2>2. CASE worker # "none"
    <3>1. UNCHANGED <<seen, refused>>
      BY <1>2, <2>2 DEF Launch, seen
    <3>. QED
      BY <3>1 DEF CleanInv, seen
  <2>. QED
    BY <2>1, <2>2
<1>. QED
  BY <1>1, <1>2, CleanWorker, StepsOfAll DEF Begins

\* A sound card and a driver that refuses nothing are never blamed.
THEOREM HealthyGpuIsCleanHolds == Spec => []HealthyGpuIsClean
<1>1. CleanInv => HealthyGpuIsClean
  BY DEF CleanInv, HealthyGpuIsClean
<1>. QED
  BY <1>1, PlaceInit, PlaceStep, CleanInit, CleanStep, PTL DEF Spec

-----------------------------------------------------------------------------
(* The steps of the VRAM test: every bit is walked through the memory both *)
(* ways, and every word is written its address once.                       *)

Kinds == {"walking_ones", "walking_zeros", "address", "alternating", "march", "butterfly",
          "random"}
AStep == [kind: Kinds, arg: Nat]

LEMMA StepsFacts ==
  ASSUME NEW k \in Kinds, NEW last \in Nat
  PROVE  /\ Steps(k, last) \in Seq(AStep) /\ Len(Steps(k, last)) = last + 1
         /\ \A b \in 0..last : Contains(Steps(k, last), [kind |-> k, arg |-> b])
<1>. DEFINE f == Steps(k, last)
<1>1. \A i \in 1..(last + 1) : f[i] = [kind |-> k, arg |-> i - 1] /\ f[i] \in AStep
  BY DEF Steps, AStep
<1>2. f = [i \in 1..(last + 1) |-> f[i]]
  BY DEF Steps
<1>. HIDE DEF f
<1>3. f \in [1..(last + 1) -> AStep]
  BY <1>1, <1>2
<1>4. f \in Seq(AStep) /\ Len(f) = last + 1
  BY <1>3, LenProperties, SeqDef
<1>5. ASSUME NEW b \in 0..last PROVE Contains(f, [kind |-> k, arg |-> b])
  <2>1. b + 1 \in 1..(last + 1) /\ b + 1 - 1 = b
    OBVIOUS
  <2>2. f[b + 1] = [kind |-> k, arg |-> b]
    BY <1>1, <2>1
  <2>. QED
    BY <1>4, <2>1, <2>2 DEF Contains
<1>. QED
  BY <1>4, <1>5 DEF f

\* Two sequences, one after the other.
LEMMA Appended ==
  ASSUME NEW s \in Seq(AStep), NEW t \in Seq(AStep)
  PROVE  /\ s \o t \in Seq(AStep)
         /\ Len(s) \in Nat /\ Len(t) \in Nat /\ Len(s \o t) = Len(s) + Len(t)
         /\ \A e : Contains(s, e) \/ Contains(t, e) => Contains(s \o t, e)
<1>1. /\ s \o t \in Seq(AStep) /\ Len(s \o t) = Len(s) + Len(t)
      /\ \A i \in 1..Len(s) : (s \o t)[i] = s[i]
      /\ \A i \in 1..Len(t) : (s \o t)[Len(s) + i] = t[i]
  BY ConcatProperties
<1>2. Len(s) \in Nat /\ Len(t) \in Nat
  BY LenProperties
<1>3. \A m, n \in Nat : /\ \A i \in 1..m : i \in 1..(m + n)
                        /\ \A i \in 1..n : m + i \in 1..(m + n)
  OBVIOUS
<1>. DEFINE u == s \o t
<1>. HIDE DEF u
<1>4. ASSUME NEW e, Contains(s, e) PROVE Contains(u, e)
  <2>1. PICK i \in 1..Len(s) : s[i] = e
    BY <1>4 DEF Contains
  <2>2. u[i] = e /\ i \in 1..Len(u)
    BY <1>1, <1>2, <1>3, <2>1 DEF u
  <2>. QED
    BY <2>2 DEF Contains
<1>5. ASSUME NEW e, Contains(t, e) PROVE Contains(u, e)
  <2>1. PICK i \in 1..Len(t) : t[i] = e
    BY <1>5 DEF Contains
  <2>2. u[Len(s) + i] = e /\ Len(s) + i \in 1..Len(u)
    BY <1>1, <1>2, <1>3, <2>1 DEF u
  <2>. QED
    BY <2>2 DEF Contains
<1>. QED
  BY <1>1, <1>2, <1>4, <1>5 DEF u

LEMMA WalkingFacts ==
  /\ WalkingSteps \in Seq(AStep)
  /\ \A b \in Bits : /\ Contains(WalkingSteps, [kind |-> "walking_ones", arg |-> b])
                     /\ Contains(WalkingSteps, [kind |-> "walking_zeros", arg |-> b])
<1>. DEFINE ones == Steps("walking_ones", WordWidth - 1)
            zeros == Steps("walking_zeros", WordWidth - 1)
<1>1. WordWidth - 1 \in Nat
  BY GpuAssumption
<1>2. /\ ones \in Seq(AStep)
      /\ \A b \in Bits : Contains(ones, [kind |-> "walking_ones", arg |-> b])
  BY <1>1, StepsFacts DEF Bits, Kinds
<1>3. /\ zeros \in Seq(AStep)
      /\ \A b \in Bits : Contains(zeros, [kind |-> "walking_zeros", arg |-> b])
  BY <1>1, StepsFacts DEF Bits, Kinds
<1>4. WalkingSteps = ones \o zeros
  BY DEF WalkingSteps
<1>. HIDE DEF ones, zeros
<1>5. /\ ones \o zeros \in Seq(AStep)
      /\ \A e : Contains(ones, e) \/ Contains(zeros, e) => Contains(ones \o zeros, e)
  BY <1>2, <1>3, Appended
<1>. QED
  BY <1>2, <1>3, <1>4, <1>5

LEMMA FixedFacts ==
  /\ FixedSteps \in Seq(AStep) /\ Len(FixedSteps) = 3
  /\ Contains(FixedSteps, [kind |-> "address", arg |-> 0])
<1>. DEFINE address == Steps("address", 0)
            alternating == Steps("alternating", 1)
<1>1. address \in Seq(AStep) /\ Len(address) = 0 + 1
  BY StepsFacts DEF Kinds
<1>2. \A b \in 0..0 : Contains(address, [kind |-> "address", arg |-> b])
  BY StepsFacts DEF Kinds
<1>3. Contains(address, [kind |-> "address", arg |-> 0])
  BY <1>2
<1>4. alternating \in Seq(AStep) /\ Len(alternating) = 1 + 1
  BY StepsFacts DEF Kinds
<1>5. FixedSteps = address \o alternating
  BY DEF FixedSteps
<1>. HIDE DEF address, alternating
<1>6. /\ address \o alternating \in Seq(AStep)
      /\ Len(address \o alternating) = Len(address) + Len(alternating)
      /\ \A e : Contains(address, e) => Contains(address \o alternating, e)
  BY <1>1, <1>4, Appended
<1>7. 0 + 1 + 1 + 1 = 3
  OBVIOUS
<1>. QED
  BY <1>1, <1>3, <1>4, <1>5, <1>6, <1>7

LEMMA VramStepsFacts ==
  /\ VramSteps \in Seq(AStep) /\ Len(VramSteps) \in Nat /\ Len(VramSteps) >= 3
  /\ \A b \in Bits : /\ Contains(VramSteps, [kind |-> "walking_ones", arg |-> b])
                     /\ Contains(VramSteps, [kind |-> "walking_zeros", arg |-> b])
  /\ Contains(VramSteps, [kind |-> "address", arg |-> 0])
<1>1. MarchStep \in Seq(AStep) /\ ButterflyStep \in Seq(AStep)
  BY StepsFacts DEF Kinds, MarchStep, ButterflyStep
<1>2. RandomSteps \in Seq(AStep)
  <2>1. Seeds - 1 \in Nat
    BY GpuAssumption
  <2>. QED
    BY <2>1, StepsFacts DEF Kinds, RandomSteps
<1>. DEFINE WF == WalkingSteps \o FixedSteps
            WFM == WF \o MarchStep
            WFMB == WFM \o ButterflyStep
            V == WFMB \o RandomSteps
<1>3. VramSteps = V
  BY DEF VramSteps
<1>4. \A m, n \in Nat : m + n \in Nat /\ (m >= 3 \/ n >= 3 => m + n >= 3)
  OBVIOUS
<1>5. /\ WF \in Seq(AStep) /\ Len(WF) \in Nat /\ Len(WF) >= 3
      /\ \A e : Contains(WalkingSteps, e) \/ Contains(FixedSteps, e) => Contains(WF, e)
  <2>1. /\ WF \in Seq(AStep) /\ Len(WalkingSteps) \in Nat
        /\ Len(WF) = Len(WalkingSteps) + Len(FixedSteps)
        /\ \A e : Contains(WalkingSteps, e) \/ Contains(FixedSteps, e) => Contains(WF, e)
    BY WalkingFacts, FixedFacts, Appended
  <2>. QED
    BY <2>1, <1>4, FixedFacts
<1>. HIDE DEF WF
<1>6. /\ WFM \in Seq(AStep) /\ Len(WFM) \in Nat /\ Len(WFM) >= 3
      /\ \A e : Contains(WF, e) => Contains(WFM, e)
  <2>1. /\ WFM \in Seq(AStep) /\ Len(MarchStep) \in Nat
        /\ Len(WFM) = Len(WF) + Len(MarchStep)
        /\ \A e : Contains(WF, e) => Contains(WFM, e)
    BY <1>1, <1>5, Appended
  <2>. QED
    BY <2>1, <1>4, <1>5
<1>. HIDE DEF WFM
<1>7. /\ WFMB \in Seq(AStep) /\ Len(WFMB) \in Nat /\ Len(WFMB) >= 3
      /\ \A e : Contains(WFM, e) => Contains(WFMB, e)
  <2>1. /\ WFMB \in Seq(AStep) /\ Len(ButterflyStep) \in Nat
        /\ Len(WFMB) = Len(WFM) + Len(ButterflyStep)
        /\ \A e : Contains(WFM, e) => Contains(WFMB, e)
    BY <1>1, <1>6, Appended
  <2>. QED
    BY <2>1, <1>4, <1>6
<1>. HIDE DEF WFMB
<1>8. /\ V \in Seq(AStep) /\ Len(V) \in Nat /\ Len(V) >= 3
      /\ \A e : Contains(WFMB, e) => Contains(V, e)
  <2>1. /\ V \in Seq(AStep) /\ Len(RandomSteps) \in Nat
        /\ Len(V) = Len(WFMB) + Len(RandomSteps)
        /\ \A e : Contains(WFMB, e) => Contains(V, e)
    BY <1>2, <1>7, Appended
  <2>. QED
    BY <2>1, <1>4, <1>7
<1>. HIDE DEF V
<1>9. \A e : Contains(WalkingSteps, e) \/ Contains(FixedSteps, e) => Contains(V, e)
  BY <1>5, <1>6, <1>7, <1>8
<1>. QED
  BY <1>3, <1>8, <1>9, WalkingFacts, FixedFacts

-----------------------------------------------------------------------------
(* A faulty VRAM.  A step tells the fault when whatever it reads back is   *)
(* an error; one that has been through the memory has then been counted.   *)

Tells(s) == \A n \in ErrorCounts(s) : n > 0

VramInv ==
  /\ gpu_fault \in Hardware
  /\ mode = "VRAM_TEST" =>
       /\ total \in Nat /\ vram_errors = total
       /\ step \in 1..Len(VramSteps) /\ cycles \in {0, 1}
       /\ \A j \in 1..Len(VramSteps) :
            (j < step \/ cycles = 1) /\ Tells(VramSteps[j]) => total > 0

counted == <<gpu_fault, mode, total, vram_errors, step, cycles>>

LEMMA VramInit == Init => VramInv
BY DEF Init, GpuInit, VramInv

LEMMA CountsAreNumbers == \A s : ErrorCounts(s) \subseteq Nat
<1>. TAKE s
<1>1. CountsOfStuck(s) \subseteq Nat
  BY DEF CountsOfStuck, MarchReads, OneIf
<1>2. CountsOfAlias(s) \subseteq Nat
  BY DEF CountsOfAlias, OneIf
<1>. QED
  BY <1>1, <1>2 DEF ErrorCounts

LEMMA VramWorker ==
  ASSUME PlaceInv, VramInv, worker_main
  PROVE  VramInv'
<1>. USE DEF preparing, looping, setting, test, counts, place
<1>1. UNCHANGED <<gpu_fault, mode>>
  <2>1. CASE UNCHANGED seen
    BY <2>1 DEF seen
  <2>2. CASE run_fma_stress
    BY <2>2 DEF run_fma_stress
  <2>3. CASE run_vram_test
    BY <2>3 DEF run_vram_test
  <2>4. CASE Render
    BY <2>4 DEF Render
  <2>. QED
    BY <2>1, <2>2, <2>3, <2>4, SeenByOthers
<1>. SUFFICES ASSUME mode = "VRAM_TEST" PROVE VramInv'
  BY <1>1 DEF VramInv
<1>2. CASE run_vram_test
  <2>1. PICK n \in ErrorCounts(VramSteps[step]) : total' = Added(n)
    BY <1>2 DEF run_vram_test
  <2>2. total \in Nat /\ step \in 1..Len(VramSteps) /\ n \in Nat
    BY <2>1, CountsAreNumbers DEF VramInv
  <2>3. \A m, k, max \in Nat : max >= 1 =>
          Capped(m + k, max) \in Nat /\ (m > 0 \/ k > 0 => Capped(m + k, max) > 0)
    BY DEF Capped
  <2>4. total' \in Nat /\ (total > 0 \/ n > 0 => total' > 0)
    BY <2>1, <2>2, <2>3, GpuAssumption DEF Added
  <2>5. /\ vram_errors' = total'
        /\ step' = IF step = Len(VramSteps) THEN 1 ELSE step + 1
        /\ cycles' = IF step = Len(VramSteps) THEN 1 ELSE cycles
    BY <1>2 DEF run_vram_test
  <2>6. step' \in 1..Len(VramSteps) /\ cycles' \in {0, 1}
    <3>1. \A l \in Nat : \A i \in 1..l : 1 \in 1..l /\ (i = l \/ i + 1 \in 1..l)
      OBVIOUS
    <3>. QED
      BY <2>2, <2>5, <3>1, VramStepsFacts DEF VramInv
  <2>7. ASSUME NEW j \in 1..Len(VramSteps), j < step' \/ cycles' = 1, Tells(VramSteps[j])
        PROVE  total' > 0
    <3>1. j < step \/ cycles = 1 \/ j = step
      <4>1. \A l \in Nat : \A i, k \in 1..l : /\ k < i + 1 => k < i \/ k = i
                                              /\ i = l => k < i \/ k = i
        OBVIOUS
      <4>2. CASE step = Len(VramSteps)
        BY <2>2, <4>1, <4>2, VramStepsFacts
      <4>3. CASE step # Len(VramSteps)
        BY <2>2, <2>5, <2>7, <4>1, <4>3, VramStepsFacts
      <4>. QED
        BY <4>2, <4>3
    <3>2. CASE j < step \/ cycles = 1
      BY <2>4, <2>7, <3>2 DEF VramInv
    <3>3. CASE j = step
      BY <2>1, <2>4, <2>7, <3>3 DEF Tells
    <3>. QED
      BY <3>1, <3>2, <3>3
  <2>8. \A s : Tells(s)' = Tells(s)
    BY <1>1 DEF Tells, ErrorCounts, CountsOfStuck, CountsOfAlias
  <2>. QED
    BY <1>1, <2>4, <2>5, <2>6, <2>7, <2>8 DEF VramInv
<1>3. CASE UNCHANGED counted
  <2>1. \A s : Tells(s)' = Tells(s)
    BY <1>3 DEF counted, Tells, ErrorCounts, CountsOfStuck, CountsOfAlias
  <2>. QED
    BY <1>3, <2>1 DEF VramInv, counted
<1>4. UNCHANGED counted \/ run_vram_test
  <2>. USE DEF counted
  <2>1. CASE OpenCl \/ compile_all_kernels \/ AllocateBuffers
    BY <2>1 DEF OpenCl, compile_all_kernels, AllocateBuffers, Prepares, EndsAt
  <2>2. CASE OpenVk \/ BuildRenderer \/ SetComplexity
    BY <2>2 DEF OpenVk, BuildRenderer, SetComplexity, Prepares, EndsAt
  <2>3. CASE run_matrix_mul_fp32 \/ run_matrix_mul_fp64 \/ run_trig_stress
    BY <2>3 DEF run_matrix_mul_fp32, run_matrix_mul_fp64, run_trig_stress, Compute
  <2>4. ~run_fma_stress /\ ~run_vulkan_3d /\ ~run_vulkan_adaptive
    BY DEF run_fma_stress, run_vulkan_3d, run_vulkan_adaptive
  <2>5. ~run_mixed
    BY DEF PlaceInv, run_mixed, BeginPhase, MixedDispatch, EndPhase
  <2>6. CASE LoopOver \/ Release
    BY <2>6 DEF LoopOver, Release, Prepares
  <2>. QED
    BY <2>1, <2>2, <2>3, <2>4, <2>5, <2>6 DEF worker_main
<1>. QED
  BY <1>2, <1>3, <1>4

LEMMA VramStep ==
  ASSUME PlaceInv, VramInv, [Next]_vars
  PROVE  VramInv'
<1>. USE DEF setting, test, counts, place
<1>1. ASSUME UNCHANGED counted PROVE VramInv'
  <2>1. \A s : Tells(s)' = Tells(s)
    BY <1>1 DEF counted, Tells, ErrorCounts, CountsOfStuck, CountsOfAlias
  <2>. QED
    BY <1>1, <2>1 DEF VramInv, counted
<1>2. CASE Aside \/ Destroy
  <2>1. UNCHANGED counted
    BY <1>2 DEF Aside, Destroy, counted
  <2>. QED
    BY <1>1, <2>1
<1>3. ASSUME NEW m \in GpuStressMode, NEW t \in BOOLEAN, Launch(m, t)
      PROVE  VramInv'
  <2>1. CASE worker = "none"
    <3>1. /\ total' = 0 /\ vram_errors' = 0 /\ step' = 1 /\ cycles' = 0
          /\ gpu_fault' = gpu_fault
      BY <1>3, <2>1 DEF Launch, ResetMetrics
    <3>2. 1 \in 1..Len(VramSteps) /\ \A j \in 1..Len(VramSteps) : ~(j < 1)
      BY VramStepsFacts
    <3>. QED
      BY <3>1, <3>2 DEF VramInv
  <2>2. CASE worker # "none"
    <3>1. UNCHANGED counted
      BY <1>3, <2>2 DEF Launch, counted
    <3>. QED
      BY <1>1, <3>1
  <2>. QED
    BY <2>1, <2>2
<1>. QED
  BY <1>2, <1>3, VramWorker, StepsOfAll DEF Begins

\* A stuck bit is told by the step that walks its opposite through it, and an alias by
\* the step that writes addresses.
LEMMA SomeStepTells ==
  ASSUME gpu_fault \in Hardware,
         \/ gpu_fault.kind = "stuck" /\ gpu_fault.word < Rounded(VramWords)
         \/ gpu_fault.kind = "alias" /\
              {gpu_fault.word, gpu_fault.other} \subseteq 0..(Rounded(VramWords) - 1)
  PROVE  \E j \in 1..Len(VramSteps) : Tells(VramSteps[j])
<1>1. HardwareOK(gpu_fault)
  BY GpuAssumption
<1>2. Rounded(VramWords) \in Int
  BY GpuAssumption DEF Rounded
<1>3. CASE gpu_fault.kind = "stuck"
  <2>1. gpu_fault.bit \in Bits /\ gpu_fault.to \in {0, 1}
    BY <1>1, <1>3 DEF HardwareOK
  <2>2. gpu_fault.word \in 0..(Rounded(VramWords) - 1)
    <3>1. gpu_fault.word \in 0..(VramWords - 1) /\ gpu_fault.word < Rounded(VramWords)
      BY <1>1, <1>3 DEF HardwareOK
    <3>. QED
      BY <1>2, <3>1
  <2>3. CASE gpu_fault.to = 0
    <3>. DEFINE s == [kind |-> "walking_ones", arg |-> gpu_fault.bit]
    <3>1. s.kind = "walking_ones" /\ s.arg = gpu_fault.bit
      OBVIOUS
    <3>2. PICK j \in 1..Len(VramSteps) : VramSteps[j] = s
      BY <2>1, VramStepsFacts DEF Contains
    <3>. HIDE DEF s
    <3>3. Pattern(s, gpu_fault.word) = {gpu_fault.bit}
      BY <3>1 DEF Pattern
    <3>4. CountsOfStuck(s) = {1}
      BY <2>3, <3>1, <3>3 DEF CountsOfStuck, OneIf
    <3>5. ErrorCounts(s) = {1}
      BY <1>3, <2>2, <3>1, <3>4 DEF ErrorCounts, Reached
    <3>. QED
      BY <3>2, <3>5 DEF Tells
  <2>4. CASE gpu_fault.to = 1
    <3>. DEFINE s == [kind |-> "walking_zeros", arg |-> gpu_fault.bit]
    <3>1. s.kind = "walking_zeros" /\ s.arg = gpu_fault.bit
      OBVIOUS
    <3>2. PICK j \in 1..Len(VramSteps) : VramSteps[j] = s
      BY <2>1, VramStepsFacts DEF Contains
    <3>. HIDE DEF s
    <3>3. Pattern(s, gpu_fault.word) = Bits \ {gpu_fault.bit}
      BY <3>1 DEF Pattern
    <3>4. CountsOfStuck(s) = {1}
      BY <2>4, <3>1, <3>3 DEF CountsOfStuck, OneIf
    <3>5. ErrorCounts(s) = {1}
      BY <1>3, <2>2, <3>1, <3>4 DEF ErrorCounts, Reached
    <3>. QED
      BY <3>2, <3>5 DEF Tells
  <2>. QED
    BY <2>1, <2>3, <2>4
<1>4. CASE gpu_fault.kind = "alias"
  <2>. DEFINE s == [kind |-> "address", arg |-> 0]
  <2>1. s.kind = "address"
    OBVIOUS
  <2>2. PICK j \in 1..Len(VramSteps) : VramSteps[j] = s
    BY VramStepsFacts DEF Contains
  <2>. HIDE DEF s
  <2>3. Word(gpu_fault.word) # Word(gpu_fault.other)
    BY <1>1, <1>4 DEF HardwareOK
  <2>4. /\ Pattern(s, gpu_fault.word) = Word(gpu_fault.word)
        /\ Pattern(s, gpu_fault.other) = Word(gpu_fault.other)
    BY <2>1 DEF Pattern
  <2>5. CountsOfAlias(s) = {1}
    BY <2>1, <2>3, <2>4 DEF CountsOfAlias, OneIf
  <2>6. ErrorCounts(s) = {1}
    BY <1>4, <2>1, <2>5 DEF ErrorCounts, Reached
  <2>. QED
    BY <2>2, <2>6 DEF Tells
<1>. QED
  BY <1>3, <1>4

\* A whole cycle of patterns counts every stuck bit, and every two words in one cell,
\* within the reach of the work-items, in a memory of any size.
THEOREM VramFindsItsFaultsHolds == Spec => []VramFindsItsFaults
<1>1. VramInv => VramFindsItsFaults
  BY SomeStepTells DEF VramInv, VramFindsItsFaults
<1>. QED
  BY <1>1, PlaceInit, PlaceStep, VramInit, VramStep, PTL DEF Spec

-----------------------------------------------------------------------------
(* The driver's objects.                                                   *)

VkObjects == {"instance", "device", "command_pool"}

LEMMA ObjectsOfVk == ToSet(VkContext) = VkObjects
BY DEF VkContext, ToSet, VkObjects

LEMMA ObjectsOfKernels == ToSet(Kernels) = {"k_stress", "k_vram"}
BY DEF Kernels, ToSet

LEMMA PartsAreRenderers == \A n \in 0..(Len(RendererParts) - 1) : PartsUpTo(n) \subseteq Renderer
<1>1. Len(RendererParts) = 5
  BY DEF RendererParts
<1>2. \A i \in 1..5 : RendererParts[i] \in ToSet(RendererParts)
  BY DEF RendererParts, ToSet
<1>3. ASSUME NEW n \in 0..(Len(RendererParts) - 1), NEW x \in PartsUpTo(n)
      PROVE  x \in Renderer
  <2>1. PICK i \in 1..n : x \in RendererParts[i]
    BY <1>3 DEF PartsUpTo
  <2>2. i \in 1..5
    BY <1>1, <1>3, <2>1
  <2>. QED
    BY <1>2, <2>1, <2>2 DEF Renderer
<1>. QED
  BY <1>3

LEMMA RendererObjects ==
  Renderer = {"render_pass", "image", "image_memory", "view", "framebuffer", "readback",
              "readback_memory", "vertices", "vertex_memory", "indices", "index_memory",
              "pipeline_layout"}
<1>1. ToSet(RendererParts) =
        {{"render_pass"}, OffscreenTarget, ReadbackBuffer, SphereGeometry, Pipeline}
  BY DEF RendererParts, ToSet
<1>. QED
  BY <1>1 DEF Renderer, OffscreenTarget, ReadbackBuffer, SphereGeometry, Pipeline

LEMMA ObjectsApart ==
  /\ Objects = ClContext \cup ClKernels \cup ClBuffers \cup VkObjects \cup Renderer
  /\ ClContext \cap (ClKernels \cup ClBuffers \cup VkObjects \cup Renderer) = {}
  /\ ClKernels \cap (ClBuffers \cup VkObjects \cup Renderer) = {}
  /\ ClBuffers \cap (VkObjects \cup Renderer) = {}
  /\ VkObjects \cap Renderer = {}
  /\ {"device", "instance"} \subseteq VkObjects /\ Pipeline \subseteq Renderer
<1>1. ClKernels = {"k_stress", "k_vram", "k_matmul_fp64"}
  BY ObjectsOfKernels DEF ClKernels
<1>2. ToSet(VkContext) = VkObjects
  BY ObjectsOfVk
<1>. QED
  BY <1>1, <1>2, RendererObjects DEF Objects, ClContext, ClBuffers, VkObjects, Pipeline

\* What is lost are contexts of OpenCL, and kernels where one could not be compiled.
LostInv ==
  /\ held \subseteq Objects /\ lost \subseteq ClContext \cup ClKernels
  /\ refused = 0 => lost \cap ClKernels = {}

\* Buffers are held while a workload has them.
BuffersInv ==
  mode \in Vulkan \/ worker \notin {"loop", "release", "dispatch", "phase"} =>
    held \cap ClBuffers = {}

\* A renderer is held by a worker that draws, and has its device.
RendererInv ==
  /\ held \cap Renderer # {} => mode \in Vulkan /\ worker \in {"complexity", "loop", "release"}
  /\ mode \in Vulkan /\ worker \in {"renderer", "complexity", "loop", "release"} =>
       "device" \in held
  /\ "device" \in held => "instance" \in held

\* Kernels are held by a worker that computes.
KernelsInv ==
  refused = 0 /\ (mode \in Vulkan \/ worker \in {"none", "exited", "init", "kernels"}) =>
    held \cap ClKernels = {}

HandlesInv ==
  /\ LostInv /\ BuffersInv /\ RendererInv /\ KernelsInv
  /\ destroyed => held \subseteq ClContext \cup ClKernels

LEMMA HandlesInit == Init => HandlesInv
BY DEF Init, GpuInit, HandlesInv, LostInv, BuffersInv, RendererInv, KernelsInv

LEMMA HandlesCl ==
  ASSUME PlaceInv, HandlesInv, ~destroyed, OpenCl \/ compile_all_kernels
  PROVE  HandlesInv'
<1>. USE DEF preparing, test, clients
<1>1. mode \notin Vulkan /\ UNCHANGED <<mode, destroyed>>
  BY DEF OpenCl, compile_all_kernels, Prepares, EndsAt
<1>2. CASE OpenCl
  <2>1. /\ worker = "init" /\ worker' \in {"kernels", "exited"}
        /\ (worker' = "kernels" /\ UNCHANGED refused) \/ Refuse
    BY <1>2 DEF OpenCl, Prepares, EndsAt, Goes
  <2>2. /\ held' \subseteq held \cup ClContext /\ held \subseteq held' \cup ClContext
        /\ lost \subseteq lost' /\ lost' \subseteq lost \cup ClContext
    BY <1>2 DEF OpenCl, Renew, ClContext
  <2>3. held' \cap (ClKernels \cup ClBuffers \cup VkObjects \cup Renderer)
          = held \cap (ClKernels \cup ClBuffers \cup VkObjects \cup Renderer)
    BY <2>2, ObjectsApart
  <2>4. LostInv'
    BY <2>1, <2>2, Refusals, ObjectsApart DEF HandlesInv, LostInv
  <2>5. BuffersInv' /\ RendererInv' /\ KernelsInv'
    <3>1. held \cap ClBuffers = {} /\ held \cap Renderer = {}
      BY <1>1, <2>1 DEF HandlesInv, BuffersInv, RendererInv
    <3>2. held' \cap ClBuffers = {} /\ held' \cap Renderer = {}
      BY <2>3, <3>1
    <3>3. "device" \in held' => "instance" \in held'
      BY <2>3, ObjectsApart DEF HandlesInv, RendererInv
    <3>4. refused' = 0 => held' \cap ClKernels = {}
      BY <2>1, <2>3, Refusals DEF HandlesInv, KernelsInv
    <3>. QED
      BY <1>1, <3>2, <3>3, <3>4 DEF BuffersInv, RendererInv, KernelsInv
  <2>. QED
    BY <1>1, <2>4, <2>5 DEF HandlesInv
<1>3. CASE compile_all_kernels
  <2>1. /\ worker = "kernels" /\ worker' \in {"mixed", "buffers", "exited"}
        /\ (worker' # "exited" /\ UNCHANGED refused) \/ Refuse
    BY <1>3 DEF compile_all_kernels, Prepares, EndsAt, Goes
  <2>2. PICK made \in SUBSET ClKernels : Renew({}, made)
    <3>1. PICK n \in 0..2 :
            Renew({}, ToSet(SubSeq(Kernels, 1, n))
                        \cup IF n = 2 /\ "fp64" \in backends
                               THEN {"k_matmul_fp64"} ELSE {})
      BY <1>3 DEF compile_all_kernels, Kernels
    <3>2. ToSet(SubSeq(Kernels, 1, n)) \subseteq ClKernels
      BY <3>1, ObjectsOfKernels DEF Kernels, ToSet, ClKernels
    <3>. QED
      BY <3>1, <3>2 DEF ClKernels
  <2>3. /\ held' = held \cup made /\ lost' = lost \cup (made \cap held)
    BY <2>2 DEF Renew
  <2>4. refused' = 0 => refused = 0
    BY <2>1, Refusals
  <2>5. LostInv'
    <3>1. refused' = 0 => held \cap ClKernels = {}
      BY <2>1, <2>4 DEF HandlesInv, KernelsInv
    <3>. QED
      BY <2>2, <2>3, <2>4, <3>1, ObjectsApart DEF HandlesInv, LostInv
  <2>6. held \cap ClBuffers = {} /\ held \cap Renderer = {}
    BY <1>1, <2>1 DEF HandlesInv, BuffersInv, RendererInv
  <2>7. held' \cap ClBuffers = {} /\ held' \cap Renderer = {}
    BY <2>2, <2>3, <2>6, ObjectsApart
  <2>8. "device" \in held' => "instance" \in held'
    BY <2>2, <2>3, ObjectsApart DEF HandlesInv, RendererInv
  <2>9. KernelsInv'
    BY <1>1, <2>1, Refusals DEF KernelsInv
  <2>. QED
    BY <1>1, <2>5, <2>7, <2>8, <2>9 DEF HandlesInv, BuffersInv, RendererInv
<1>. QED
  BY <1>2, <1>3

LEMMA NeededBuffers ==
  \A m \in GpuStressMode : m \notin Vulkan /\ m # "MIXED" => Needed(m) \subseteq ClBuffers
BY DEF GpuStressMode, Computing, Needed, ClBuffers

LEMMA HandlesBuffers ==
  ASSUME PlaceInv, HandlesInv, ~destroyed, AllocateBuffers
  PROVE  HandlesInv'
<1>. USE DEF preparing, test, clients
<1>1. /\ UNCHANGED <<mode, destroyed>> /\ worker = "buffers"
      /\ worker' \in {"loop", "release"} /\ (UNCHANGED refused \/ Refuse)
  BY DEF AllocateBuffers, Prepares, Goes
<1>2. mode \notin Vulkan /\ Needed(mode) \subseteq ClBuffers
  BY <1>1, NeededBuffers DEF PlaceInv
<1>3. PICK made \in SUBSET ClBuffers : Renew({}, made)
  BY <1>2 DEF AllocateBuffers
<1>4. held' = held \cup made /\ lost' = lost \cup (made \cap held)
  BY <1>3 DEF Renew
<1>5. held \cap ClBuffers = {} /\ held \cap Renderer = {}
  BY <1>1, <1>2 DEF HandlesInv, BuffersInv, RendererInv
<1>6. lost' = lost
  BY <1>3, <1>4, <1>5
<1>7. refused' = 0 => refused = 0
  BY <1>1, Refusals
<1>8. LostInv'
  BY <1>3, <1>4, <1>6, <1>7, ObjectsApart DEF HandlesInv, LostInv
<1>9. held' \cap Renderer = {} /\ ("device" \in held' => "instance" \in held')
  BY <1>3, <1>4, <1>5, ObjectsApart DEF HandlesInv, RendererInv
<1>10. BuffersInv' /\ RendererInv' /\ KernelsInv'
  BY <1>1, <1>2, <1>9 DEF BuffersInv, RendererInv, KernelsInv
<1>. QED
  BY <1>1, <1>8, <1>10 DEF HandlesInv

LEMMA HandlesOpenVk ==
  ASSUME PlaceInv, HandlesInv, ~destroyed, OpenVk
  PROVE  HandlesInv'
<1>. USE DEF preparing, test, clients
<1>1. /\ UNCHANGED <<mode, destroyed>> /\ worker = "init" /\ mode \in Vulkan
      /\ (worker' = "renderer" /\ UNCHANGED refused) \/ (worker' = "exited" /\ Refuse)
  BY DEF OpenVk, Prepares, EndsAt, Goes
<1>2. PICK made \in SUBSET VkObjects :
        /\ Renew(VkObjects, made) /\ ("device" \in made => "instance" \in made)
        /\ worker' = "renderer" => "device" \in made
  <2>1. PICK n \in 0..3 :
          /\ Renew(ToSet(VkContext), ToSet(SubSeq(VkContext, 1, n)))
          /\ IF n = 3 THEN Prepares("init", "renderer") ELSE EndsAt("init")
    BY DEF OpenVk
  <2>. DEFINE made == ToSet(SubSeq(VkContext, 1, n))
  <2>2. /\ n = 0 => made = {}
        /\ n = 1 => made = {"instance"}
        /\ n = 2 => made = {"instance", "device"}
        /\ n = 3 => made = {"instance", "device", "command_pool"}
    <3>1. CASE n = 0
      BY <3>1 DEF VkContext, ToSet
    <3>2. CASE n = 1
      BY <3>2 DEF VkContext, ToSet
    <3>3. CASE n = 2
      BY <3>3 DEF VkContext, ToSet
    <3>4. CASE n = 3
      BY <3>4 DEF VkContext, ToSet
    <3>. QED
      BY <2>1, <3>1, <3>2, <3>3, <3>4
  <2>3. worker' = "renderer" => n = 3
    BY <2>1 DEF EndsAt, Goes
  <2>4. Renew(VkObjects, made)
    BY <2>1, ObjectsOfVk
  <2>. HIDE DEF made
  <2>. QED
    BY <2>1, <2>2, <2>3, <2>4 DEF VkObjects
<1>3. held' = (held \ VkObjects) \cup made /\ lost' = lost
  BY <1>2 DEF Renew
<1>4. refused' = 0 => refused = 0
  BY <1>1, Refusals
<1>5. LostInv'
  BY <1>2, <1>3, <1>4, ObjectsApart DEF HandlesInv, LostInv
<1>6. held \cap ClBuffers = {} /\ held \cap Renderer = {}
  BY <1>1 DEF HandlesInv, BuffersInv, RendererInv
<1>7. held' \cap ClBuffers = {} /\ held' \cap Renderer = {}
  BY <1>2, <1>3, <1>6, ObjectsApart
<1>8. ("device" \in held' <=> "device" \in made) /\ ("instance" \in held' <=> "instance" \in made)
  BY <1>3, ObjectsApart
<1>9. KernelsInv'
  <2>1. refused' = 0 => held \cap ClKernels = {}
    BY <1>1, <1>4 DEF HandlesInv, KernelsInv
  <2>. QED
    BY <1>2, <1>3, <2>1, ObjectsApart DEF KernelsInv
<1>. QED
  BY <1>1, <1>2, <1>5, <1>7, <1>8, <1>9 DEF HandlesInv, BuffersInv, RendererInv

\* Both make parts of the renderer alone.
LEMMA HandlesRenderer ==
  ASSUME PlaceInv, HandlesInv, ~destroyed, BuildRenderer \/ SetComplexity
  PROVE  HandlesInv'
<1>. USE DEF preparing, test, clients
<1>1. /\ UNCHANGED <<mode, destroyed>> /\ worker \in {"renderer", "complexity"}
      /\ worker' \in {"complexity", "loop", "release"} /\ (UNCHANGED refused \/ Refuse)
  BY DEF BuildRenderer, SetComplexity, Prepares, Goes
<1>2. mode \in Vulkan
  BY <1>1 DEF PlaceInv
<1>3. PICK gone \in SUBSET Renderer, made \in SUBSET Renderer :
        Renew(gone, made) /\ made \cap (held \ gone) = {}
  <2>1. CASE BuildRenderer
    <3>1. held \cap Renderer = {}
      BY <2>1 DEF BuildRenderer, Prepares, Goes, HandlesInv, RendererInv
    <3>2. PICK made \in SUBSET Renderer : Renew({}, made)
      BY <2>1, PartsAreRenderers DEF BuildRenderer
    <3>. QED
      BY <3>1, <3>2
  <2>2. CASE SetComplexity
    <3>1. PICK made \in {Pipeline, {}} : Renew(Pipeline, made)
      BY <2>2 DEF SetComplexity
    <3>. QED
      BY <3>1, ObjectsApart
  <2>. QED
    BY <2>1, <2>2
<1>4. held' = (held \ gone) \cup made /\ lost' = lost
  BY <1>3 DEF Renew
<1>5. held' \cap (Objects \ Renderer) = held \cap (Objects \ Renderer) /\ held' \subseteq Objects
  BY <1>3, <1>4, ObjectsApart DEF HandlesInv, LostInv
<1>6. refused' = 0 => refused = 0
  BY <1>1, Refusals
<1>7. LostInv'
  BY <1>4, <1>5, <1>6 DEF HandlesInv, LostInv
<1>8. held' \cap ClBuffers = {}
  <2>1. held \cap ClBuffers = {}
    BY <1>2 DEF HandlesInv, BuffersInv
  <2>. QED
    BY <1>5, <2>1, ObjectsApart
<1>9. {"device", "instance"} \subseteq held'
  <2>1. {"device", "instance"} \subseteq held
    BY <1>1, <1>2 DEF HandlesInv, RendererInv
  <2>. QED
    BY <1>5, <2>1, ObjectsApart
<1>10. KernelsInv'
  <2>1. refused' = 0 => held \cap ClKernels = {}
    BY <1>2, <1>6 DEF HandlesInv, KernelsInv
  <2>. QED
    BY <1>5, <2>1, ObjectsApart DEF KernelsInv
<1>. QED
  BY <1>1, <1>2, <1>7, <1>8, <1>9, <1>10 DEF HandlesInv, BuffersInv, RendererInv

LEMMA HandlesMixed ==
  ASSUME PlaceInv, HandlesInv, ~destroyed, run_mixed
  PROVE  HandlesInv'
<1>. USE DEF preparing, test, clients, objects
<1>1. /\ mode = "MIXED" /\ mode \notin Vulkan /\ worker \in {"mixed", "dispatch", "phase"}
      /\ UNCHANGED <<mode, destroyed>> /\ worker' \in {"mixed", "dispatch", "phase"}
      /\ UNCHANGED refused \/ Refuse
  BY DEF run_mixed, BeginPhase, MixedDispatch, EndPhase, PlaceInv, Goes, Vulkan
<1>2. held \cap Renderer = {} /\ ("device" \in held => "instance" \in held)
  BY <1>1 DEF HandlesInv, RendererInv
<1>3. refused' = 0 => refused = 0
  BY <1>1, Refusals
<1>4. KernelsInv'
  BY <1>1 DEF KernelsInv
<1>5. /\ \/ held' \subseteq held \cup ClBuffers /\ worker' # "mixed"
         \/ held' = held /\ worker' = worker /\ worker = "mixed"
         \/ held' = held \ ClBuffers
      /\ held \subseteq held' \cup ClBuffers /\ lost' = lost
  <2>1. CASE BeginPhase
    <3>1. MixedModes[step] \in {"MATRIX_MUL", "FMA_STRESS", "TRIG_STRESS"}
      BY <1>1 DEF PlaceInv, MixedModes
    <3>2. Needed(MixedModes[step]) \subseteq ClBuffers
      BY <3>1, NeededBuffers DEF GpuStressMode, Computing, Vulkan
    <3>3. held \cap ClBuffers = {}
      BY <1>1, <2>1 DEF BeginPhase, HandlesInv, BuffersInv
    <3>4. CASE Goes("mixed", "dispatch") /\ Renew({}, Needed(MixedModes[step]))
      BY <3>2, <3>3, <3>4 DEF Goes, Renew
    <3>5. CASE UNCHANGED <<objects, worker>>
      BY <2>1, <3>5 DEF BeginPhase
    <3>. QED
      BY <2>1, <3>4, <3>5 DEF BeginPhase
  <2>2. CASE MixedDispatch
    BY <2>2 DEF MixedDispatch
  <2>3. CASE EndPhase
    BY <2>3 DEF EndPhase, Renew
  <2>. QED
    BY <2>1, <2>2, <2>3 DEF run_mixed
<1>6. held' \cap (Objects \ ClBuffers) = held \cap (Objects \ ClBuffers) /\ held' \subseteq Objects
  BY <1>5, ObjectsApart DEF HandlesInv, LostInv
<1>7. LostInv'
  BY <1>3, <1>5, <1>6 DEF HandlesInv, LostInv
<1>8. BuffersInv'
  <2>1. worker = "mixed" => held \cap ClBuffers = {}
    BY <1>1 DEF HandlesInv, BuffersInv
  <2>. QED
    BY <1>1, <1>5, <2>1 DEF BuffersInv
<1>9. held' \cap Renderer = {} /\ ("device" \in held' => "instance" \in held')
  BY <1>2, <1>6, ObjectsApart
<1>. QED
  BY <1>1, <1>4, <1>7, <1>8, <1>9 DEF HandlesInv, RendererInv

LEMMA HandlesRelease ==
  ASSUME PlaceInv, HandlesInv, ~destroyed, Release
  PROVE  HandlesInv'
<1>. USE DEF preparing, test, clients
<1>1. /\ UNCHANGED <<mode, destroyed, refused>> /\ worker = "release" /\ worker' = "exited"
  BY DEF Release, Prepares, Goes
<1>2. CASE ReleaseOpenCl
  <2>1. mode \notin Vulkan /\ held' = held \ (ClBuffers \cup ClKernels) /\ lost' = lost
    BY <1>2 DEF ReleaseOpenCl, Renew
  <2>2. held \cap Renderer = {} /\ ("device" \in held => "instance" \in held)
    BY <2>1 DEF HandlesInv, RendererInv
  <2>3. held' \cap Renderer = {} /\ ("device" \in held' => "instance" \in held')
    BY <2>1, <2>2, ObjectsApart
  <2>4. held' \cap ClBuffers = {} /\ held' \cap ClKernels = {} /\ held' \subseteq held
    BY <2>1
  <2>. QED
    BY <1>1, <2>1, <2>3, <2>4 DEF HandlesInv, LostInv, BuffersInv, RendererInv, KernelsInv
<1>3. CASE cleanup
  <2>1. mode \in Vulkan /\ held' = held \ Renderer /\ lost' = lost
    BY <1>3 DEF cleanup, Renew
  <2>2. held \cap ClBuffers = {} /\ (refused = 0 => held \cap ClKernels = {})
    BY <2>1 DEF HandlesInv, BuffersInv, KernelsInv
  <2>3. "device" \in held' => "instance" \in held'
    BY <2>1, ObjectsApart DEF HandlesInv, RendererInv
  <2>4. /\ held' \cap Renderer = {} /\ held' \cap ClBuffers = {}
        /\ refused = 0 => held' \cap ClKernels = {}
        /\ held' \subseteq held
    BY <2>1, <2>2
  <2>. QED
    BY <1>1, <2>1, <2>3, <2>4 DEF HandlesInv, LostInv, BuffersInv, RendererInv, KernelsInv
<1>. QED
  BY <1>2, <1>3 DEF Release

LEMMA HandlesWorker ==
  ASSUME PlaceInv, HandlesInv, ~destroyed, worker_main
  PROVE  HandlesInv'
<1>. USE DEF preparing, looping, test, clients, objects
<1>1. CASE LoopStep
  <2>1. UNCHANGED <<mode, destroyed, worker, held, lost>> /\ (UNCHANGED refused \/ Refuse)
    BY <1>1, LoopSteps
  <2>2. refused' = 0 => refused = 0
    BY <2>1, Refusals
  <2>. QED
    BY <2>1, <2>2 DEF HandlesInv, LostInv, BuffersInv, RendererInv, KernelsInv
<1>2. CASE LoopOver
  <2>1. /\ UNCHANGED <<mode, destroyed, held, lost, refused>>
        /\ worker \in {"loop", "mixed"} /\ worker' = "release"
    BY <1>2 DEF LoopOver, Prepares, Goes
  <2>2. worker = "mixed" => mode \notin Vulkan
    BY DEF PlaceInv, Vulkan
  <2>. QED
    BY <2>1, <2>2 DEF HandlesInv, LostInv, BuffersInv, RendererInv, KernelsInv
<1>. QED
  BY <1>1, <1>2, HandlesCl, HandlesBuffers, HandlesOpenVk, HandlesRenderer, HandlesMixed,
     HandlesRelease DEF worker_main, LoopStep

LEMMA HandlesStep ==
  ASSUME PlaceInv, HandlesInv, [Next]_vars
  PROVE  HandlesInv'
<1>. USE DEF test, objects
<1>1. CASE Aside
  <2>1. /\ UNCHANGED <<mode, destroyed, held, lost, refused>>
        /\ worker' = worker \/ (worker \in {"none", "exited"} /\ worker' = "none")
    BY <1>1 DEF Aside, Joins
  <2>. QED
    BY <2>1 DEF HandlesInv, LostInv, BuffersInv, RendererInv, KernelsInv
<1>2. ASSUME NEW m \in GpuStressMode, NEW t \in BOOLEAN, Launch(m, t)
      PROVE  HandlesInv'
  <2>1. /\ UNCHANGED <<destroyed, held, lost, refused>>
        /\ \/ worker = "none" /\ worker' = "init"
           \/ UNCHANGED <<mode, worker>>
    BY <1>2 DEF Launch
  <2>2. CASE worker = "none" /\ worker' = "init"
    <3>1. /\ held \cap ClBuffers = {} /\ held \cap Renderer = {}
          /\ refused = 0 => held \cap ClKernels = {}
      BY <2>2 DEF HandlesInv, BuffersInv, RendererInv, KernelsInv
    <3>. QED
      BY <2>1, <2>2, <3>1 DEF HandlesInv, LostInv, BuffersInv, RendererInv, KernelsInv
  <2>3. CASE UNCHANGED <<mode, worker>>
    BY <2>1, <2>3 DEF HandlesInv, LostInv, BuffersInv, RendererInv, KernelsInv
  <2>. QED
    BY <2>1, <2>2, <2>3
<1>3. CASE Destroy
  <2>1. /\ worker = "none" /\ UNCHANGED <<mode, worker, refused>>
        /\ held' = held \ (ClContext \cup VkObjects) /\ lost' = lost
    BY <1>3, ObjectsOfVk DEF Destroy, Renew
  <2>2. /\ held \cap ClBuffers = {} /\ held \cap Renderer = {}
        /\ refused = 0 => held \cap ClKernels = {}
    BY <2>1 DEF HandlesInv, BuffersInv, RendererInv, KernelsInv
  <2>3. held' \subseteq ClKernels /\ held' \subseteq held
    BY <2>1, <2>2, ObjectsApart DEF HandlesInv, LostInv
  <2>4. "device" \notin held'
    BY <2>3, ObjectsApart
  <2>5. LostInv'
    BY <2>1, <2>3 DEF HandlesInv, LostInv
  <2>6. BuffersInv' /\ RendererInv' /\ KernelsInv'
    BY <2>1, <2>2, <2>3, <2>4 DEF BuffersInv, RendererInv, KernelsInv
  <2>. QED
    BY <2>3, <2>5, <2>6 DEF HandlesInv
<1>. QED
  BY <1>1, <1>2, <1>3, HandlesWorker, StepsOfAll DEF Begins

\* Whatever the driver refuses, and wherever a test is stopped, each of its objects is
\* given back, but for those named.
THEOREM HandlesReleasedHolds == Spec => []HandlesReleased
<1>1. HandlesInv => HandlesReleased
  <2>. SUFFICES ASSUME HandlesInv PROVE HandlesReleased
    OBVIOUS
  <2>1. lost \cap (ClBuffers \cup Renderer \cup VkObjects) = {}
    BY ObjectsApart DEF HandlesInv, LostInv
  <2>2. ASSUME worker \in {"none", "exited"}
        PROVE  /\ (held \cup lost) \cap (ClBuffers \cup Renderer) = {}
               /\ refused = 0 => (held \cup lost) \cap ClKernels = {}
    <3>1. held \cap ClBuffers = {} /\ held \cap Renderer = {}
      BY <2>2 DEF HandlesInv, BuffersInv, RendererInv
    <3>2. refused = 0 => held \cap ClKernels = {} /\ lost \cap ClKernels = {}
      BY <2>2 DEF HandlesInv, LostInv, KernelsInv
    <3>. QED
      BY <2>1, <3>1, <3>2
  <2>3. /\ (held \cup lost) \cap Renderer # {} => "device" \in held
        /\ "device" \in held => "instance" \in held
    BY <2>1 DEF HandlesInv, RendererInv
  <2>4. destroyed => held \cup lost \subseteq ClContext \cup ClKernels
    BY DEF HandlesInv, LostInv
  <2>. QED
    BY <2>1, <2>2, <2>3, <2>4, ObjectsOfVk DEF HandlesReleased
<1>. QED
  BY <1>1, PlaceInit, PlaceStep, HandlesInit, HandlesStep, PTL DEF Spec

-----------------------------------------------------------------------------
(* Types.  The reference of FMA_STRESS never runs ahead of the kernel, and *)
(* the ramp does not start a level above the last.                         *)

Places == {"none", "init", "kernels", "buffers", "renderer", "complexity", "loop", "mixed",
           "dispatch", "phase", "release", "exited"}

NumbersInv ==
  /\ worker \in Places
  /\ total \in 0..MaxErrors /\ vram_errors \in 0..MaxErrors /\ vram_errors <= total
  /\ step \in 1..Len(VramSteps)
  /\ dispatches \in 0..MaxDispatches /\ cpu_steps \in 0..MaxDispatches
  /\ mode = "FMA_STRESS" => cpu_steps <= dispatches

ClientInv ==
  /\ pattern \in PsuLoadPattern /\ level \in 0..Cores
  /\ controller \in {"ramp_stop", "ramp_start"} => level < Cores
  /\ poller \in {"none", "loop", "exited"}
  /\ psu_holder \in {"no", "stop_cpu", "stop_gpu", "join"}
  /\ holder \in {"nobody", "user", "controller", "psu"}

numbers == <<mode, total, vram_errors, step, dispatches, cpu_steps>>

LEMMA NumbersInit == Init => NumbersInv
<1>1. 1 \in 1..Len(VramSteps)
  BY VramStepsFacts
<1>2. 0 \in 0..MaxErrors /\ 0 \in 0..MaxDispatches
  BY GpuAssumption
<1>. QED
  BY <1>1, <1>2 DEF Init, GpuInit, NumbersInv, Places

LEMMA NumbersOfOthers ==
  ASSUME worker_main
  PROVE  \/ UNCHANGED numbers \/ run_fma_stress \/ run_vram_test
         \/ run_vulkan_3d \/ run_vulkan_adaptive \/ run_mixed
<1>. USE DEF preparing, looping, counts, place, test, numbers
<1>1. CASE OpenCl \/ compile_all_kernels \/ AllocateBuffers
  BY <1>1 DEF OpenCl, compile_all_kernels, AllocateBuffers, Prepares, EndsAt
<1>2. CASE OpenVk \/ BuildRenderer \/ SetComplexity
  BY <1>2 DEF OpenVk, BuildRenderer, SetComplexity, Prepares, EndsAt
<1>3. CASE run_matrix_mul_fp32 \/ run_matrix_mul_fp64 \/ run_trig_stress
  BY <1>3 DEF run_matrix_mul_fp32, run_matrix_mul_fp64, run_trig_stress, Compute
<1>4. CASE LoopOver \/ Release
  BY <1>4 DEF LoopOver, Release, Prepares
<1>. QED
  BY <1>1, <1>2, <1>3, <1>4 DEF worker_main

LEMMA WorkerPlaces ==
  ASSUME worker \in Places, worker_main
  PROVE  worker' \in Places
<1>. USE DEF Places
<1>1. CASE OpenCl \/ compile_all_kernels \/ AllocateBuffers
  BY <1>1 DEF OpenCl, compile_all_kernels, AllocateBuffers, Prepares, EndsAt, Goes
<1>2. CASE OpenVk \/ BuildRenderer \/ SetComplexity
  BY <1>2 DEF OpenVk, BuildRenderer, SetComplexity, Prepares, EndsAt, Goes
<1>3. CASE LoopStep
  BY <1>3, LoopSteps DEF looping
<1>4. CASE run_mixed
  BY <1>4 DEF run_mixed, BeginPhase, MixedDispatch, EndPhase, Goes
<1>5. CASE LoopOver \/ Release
  BY <1>5 DEF LoopOver, Release, Prepares, Goes
<1>. QED
  BY <1>1, <1>2, <1>3, <1>4, <1>5 DEF worker_main, LoopStep

LEMMA CappedBounds ==
  \A max \in Nat : \A m \in 0..max : \A k \in Nat :
    Capped(m + k, max) \in 0..max /\ m <= Capped(m + k, max)
BY DEF Capped

LEMMA NumbersWorker ==
  ASSUME PlaceInv, VramInv, VramInv', NumbersInv, worker_main
  PROVE  NumbersInv'
<1>. USE DEF looping, test, counts, place
<1>1. worker' \in Places
  BY WorkerPlaces DEF NumbersInv
<1>2. CASE UNCHANGED numbers
  BY <1>1, <1>2 DEF NumbersInv, numbers
<1>3. CASE run_fma_stress
  <2>1. UNCHANGED <<mode, step>>
    BY <1>3 DEF run_fma_stress
  <2>2. mode = "FMA_STRESS"
    BY <1>3 DEF run_fma_stress
  <2>3. dispatches' = Capped(dispatches + 1, MaxDispatches)
    BY <1>3 DEF run_fma_stress
  <2>4. dispatches' \in 0..MaxDispatches /\ dispatches <= dispatches'
    BY <2>3, CappedBounds, GpuAssumption DEF NumbersInv
  <2>5. CASE UNCHANGED <<cpu_steps, counts>>
    <3>1. \A a, b, c \in Nat : a <= b /\ b <= c => a <= c
      OBVIOUS
    <3>2. {cpu_steps, dispatches, dispatches'} \subseteq Nat
      BY <2>4, GpuAssumption DEF NumbersInv
    <3>3. cpu_steps' <= dispatches'
      BY <2>2, <2>4, <2>5, <3>1, <3>2 DEF NumbersInv
    <3>. QED
      BY <1>1, <2>1, <2>4, <2>5, <3>3 DEF NumbersInv
  <2>6. CASE dispatches < MaxDispatches /\ cpu_steps' = cpu_steps + 1
    <3>1. PICK flip \in {FALSE, gpu_fault.kind = "compute"} :
            total' = Capped(total + OneIf(flip \/ dispatches' # cpu_steps'), MaxErrors)
      <4>1. CASE dispatches' % CheckInterval = 1 % CheckInterval
        BY <1>3, <2>6, <4>1 DEF run_fma_stress
      <4>2. CASE dispatches' % CheckInterval # 1 % CheckInterval
        <5>1. cpu_steps' = cpu_steps
          BY <1>3, <4>2 DEF run_fma_stress
        <5>2. \A n \in Nat : n # n + 1
          OBVIOUS
        <5>. QED
          BY <2>6, <5>1, <5>2 DEF NumbersInv
      <4>. QED
        BY <4>1, <4>2
    <3>2. OneIf(flip \/ dispatches' # cpu_steps') \in Nat
      BY DEF OneIf
    <3>3. total' \in 0..MaxErrors /\ total <= total'
      BY <3>1, <3>2, CappedBounds, GpuAssumption DEF NumbersInv
    <3>4. vram_errors' = total' \/ vram_errors' = vram_errors
      BY <1>3 DEF run_fma_stress
    <3>5. vram_errors' \in 0..MaxErrors /\ vram_errors' <= total'
      BY <3>3, <3>4, GpuAssumption DEF NumbersInv
    <3>6. \A m, n, max \in Nat : m <= n /\ n < max =>
            m + 1 \in 0..max /\ m + 1 <= Capped(n + 1, max)
      BY DEF Capped
    <3>7. cpu_steps' \in 0..MaxDispatches /\ cpu_steps' <= dispatches'
      <4>1. /\ cpu_steps \in Nat /\ dispatches \in Nat /\ cpu_steps <= dispatches
            /\ dispatches < MaxDispatches /\ MaxDispatches \in Nat
        BY <2>2, <2>6, GpuAssumption DEF NumbersInv
      <4>2. /\ cpu_steps + 1 \in 0..MaxDispatches
            /\ cpu_steps + 1 <= Capped(dispatches + 1, MaxDispatches)
        BY <3>6, <4>1
      <4>. QED
        BY <2>3, <2>6, <4>2
    <3>. QED
      BY <1>1, <2>1, <2>4, <3>3, <3>5, <3>7 DEF NumbersInv
  <2>. QED
    BY <1>3, <2>5, <2>6 DEF run_fma_stress
<1>4. CASE run_vram_test
  <2>1. UNCHANGED <<mode, dispatches, cpu_steps>> /\ mode = "VRAM_TEST"
    BY <1>4 DEF run_vram_test
  <2>2. PICK n \in ErrorCounts(VramSteps[step]) : total' = Capped(total + n, MaxErrors)
    BY <1>4 DEF run_vram_test, Added
  <2>3. total' \in 0..MaxErrors
    BY <2>2, CountsAreNumbers, CappedBounds, GpuAssumption DEF NumbersInv
  <2>4. vram_errors' = total' /\ step' \in 1..Len(VramSteps)
    BY <2>1 DEF VramInv
  <2>. QED
    BY <1>1, <2>1, <2>3, <2>4 DEF NumbersInv
<1>5. CASE run_vulkan_3d \/ run_vulkan_adaptive
  <2>. USE DEF run_vulkan_3d, run_vulkan_adaptive
  <2>1. UNCHANGED <<mode, step, cpu_steps>>
    BY <1>5 DEF Render
  <2>2. dispatches' = (dispatches + 1) % 3
    BY <1>5 DEF Render
  <2>3. \A n \in Nat : (n + 1) % 3 \in 0..2
    OBVIOUS
  <2>4. dispatches' \in 0..MaxDispatches
    BY <2>2, <2>3, GpuAssumption DEF NumbersInv
  <2>5. PICK f : total' = IF dispatches' = 0 /\ f.pixels
                            THEN Capped(total + compare_frame(f, reference'), MaxErrors)
                            ELSE total
    BY <1>5 DEF Render
  <2>6. compare_frame(f, reference') \in Nat
    BY DEF compare_frame, OneIf
  <2>7. total' \in 0..MaxErrors
    BY <2>5, <2>6, CappedBounds, GpuAssumption DEF NumbersInv
  <2>8. vram_errors' = total'
    BY <1>5 DEF Render
  <2>9. mode # "FMA_STRESS"
    BY <1>5
  <2>. QED
    BY <1>1, <2>1, <2>4, <2>7, <2>8, <2>9 DEF NumbersInv
<1>6. CASE run_mixed
  <2>1. UNCHANGED <<mode, total, vram_errors, dispatches, cpu_steps>> /\ mode = "MIXED"
    BY <1>6 DEF run_mixed, BeginPhase, MixedDispatch, EndPhase, preparing, PlaceInv
  <2>2. step' \in 1..3
    BY <2>1, PlaceWorker DEF PlaceInv
  <2>3. step' \in 1..Len(VramSteps)
    BY <2>2, VramStepsFacts
  <2>. QED
    BY <1>1, <2>1, <2>3 DEF NumbersInv
<1>. QED
  BY <1>2, <1>3, <1>4, <1>5, <1>6, NumbersOfOthers

LEMMA NumbersStep ==
  ASSUME PlaceInv, VramInv, NumbersInv, [Next]_vars
  PROVE  NumbersInv'
<1>. USE DEF test, counts, place
<1>1. VramInv'
  BY VramStep
<1>2. CASE Aside
  <2>1. UNCHANGED numbers /\ (worker' = worker \/ worker' = "none")
    BY <1>2 DEF Aside, Joins, numbers
  <2>. QED
    BY <2>1 DEF NumbersInv, numbers, Places
<1>3. CASE Destroy
  <2>1. UNCHANGED <<numbers, worker>>
    BY <1>3 DEF Destroy, numbers
  <2>. QED
    BY <2>1 DEF NumbersInv, numbers
<1>4. ASSUME NEW m \in GpuStressMode, NEW t \in BOOLEAN, Launch(m, t)
      PROVE  NumbersInv'
  <2>1. CASE worker = "none"
    <3>1. /\ total' = 0 /\ vram_errors' = 0 /\ step' = 1 /\ dispatches' = 0
          /\ cpu_steps' = 0 /\ worker' = "init"
      BY <1>4, <2>1 DEF Launch, ResetMetrics
    <3>2. 1 \in 1..Len(VramSteps) /\ 0 \in 0..MaxErrors /\ 0 \in 0..MaxDispatches
      BY VramStepsFacts, GpuAssumption
    <3>. QED
      BY <3>1, <3>2 DEF NumbersInv, Places
  <2>2. CASE worker # "none"
    <3>1. UNCHANGED <<numbers, worker>>
      BY <1>4, <2>2 DEF Launch, numbers
    <3>. QED
      BY <3>1 DEF NumbersInv, numbers
  <2>. QED
    BY <2>1, <2>2
<1>. QED
  BY <1>1, <1>2, <1>3, <1>4, NumbersWorker, StepsOfAll DEF Begins

LEMMA ClientInit == Init => ClientInv
BY PsuAssumption DEF Init, GpuInit, PsuInit, ClientInv, PsuLoadPattern

LEMMA ClientController ==
  ASSUME ClientInv, controller_thread_func
  PROVE  ClientInv'
<1>. USE DEF psuTest, gpuVars, clients
<1>1. /\ UNCHANGED <<pattern, poller, psu_holder>>
      /\ holder' \in {holder, "controller", "nobody"}
  <2>1. CASE Steady
    BY <2>1 DEF Steady, StartCpu, StartGpu, Look, Controls, Launch
  <2>2. CASE Spike
    BY <2>2 DEF Spike, StartCpu, StopCpu, StartGpu, StopGpu, Look, Controls, Launch,
                BeginStop, EndStop
  <2>3. CASE Ramp
    BY <2>3 DEF Ramp, StopCpu, StartGpu, Look, Controls, Launch
  <2>4. CASE CleanShutdown
    BY <2>4 DEF CleanShutdown, StopCpu, StopGpu, Controls, BeginStop, EndStop
  <2>. QED
    BY <2>1, <2>2, <2>3, <2>4 DEF controller_thread_func
<1>2. \/ level' = level /\ (controller' \in {"ramp_stop", "ramp_start"} =>
                              level < Cores \/ controller \in {"ramp_stop", "ramp_start"})
      \/ level' = level + 1 /\ controller = "ramp_start" /\ controller' = "begin"
  <2>1. CASE Steady
    BY <2>1 DEF Steady, StartCpu, StartGpu, Look, Controls
  <2>2. CASE Spike
    BY <2>2 DEF Spike, StartCpu, StopCpu, StartGpu, StopGpu, Look, Controls
  <2>3. CASE Ramp
    BY <2>3 DEF Ramp, StopCpu, StartGpu, Look, Controls
  <2>4. CASE CleanShutdown
    BY <2>4 DEF CleanShutdown, StopCpu, StopGpu, Controls
  <2>. QED
    BY <2>1, <2>2, <2>3, <2>4 DEF controller_thread_func
<1>3. \A n \in 0..Cores : n < Cores => n + 1 \in 0..Cores
  BY PsuAssumption
<1>. QED
  BY <1>1, <1>2, <1>3 DEF ClientInv

LEMMA ClientStep ==
  ASSUME ClientInv, [Next]_vars
  PROVE  ClientInv'
<1>. USE DEF psuVars, psuTest, psuThreads, gpuVars, clients, stopRest
<1>1. CASE GpuNext /\ UNCHANGED psuVars
  <2>1. holder' \in {holder, "user", "nobody"}
    <3>1. CASE worker_main
      BY <3>1, WorkerLeaves
    <3>2. CASE Initialize \/ Stop \/ EndStop("user") \/ Destroy \/ TimePasses
      BY <3>2 DEF Initialize, Stop, BeginStop, EndStop, Destroy, TimePasses
    <3>3. ASSUME NEW m \in Modes, NEW t \in BOOLEAN, Start(m, t) PROVE holder' = holder
      BY <3>3 DEF Start, Launch
    <3>. QED
      BY <1>1, <3>1, <3>2, <3>3 DEF GpuNext
  <2>. QED
    BY <1>1, <2>1 DEF ClientInv
<1>2. CASE worker_main /\ UNCHANGED psuVars
  BY <1>2, WorkerLeaves DEF ClientInv
<1>3. CASE metrics_poller_func \/ PsuStop \/ PsuTimePasses
  <2>1. /\ UNCHANGED <<pattern, level, controller, holder>>
        /\ poller' \in {poller, "exited"} /\ psu_holder' \in {psu_holder, "stop_cpu"}
    BY <1>3 DEF metrics_poller_func, Poll, EndPolling, PsuStop, PsuTimePasses
  <2>. QED
    BY <2>1 DEF ClientInv
<1>4. CASE stop
  <2>1. /\ UNCHANGED <<pattern, level>> /\ poller' \in {poller, "none"}
        /\ controller' \in {controller, "none"}
        /\ psu_holder' \in {psu_holder, "stop_gpu", "join", "no"}
        /\ holder' \in {holder, "psu", "nobody"}
    BY <1>4 DEF stop, StopsCpuLoad, StopsGpuLoad, JoinBoth, BeginStop, EndStop
  <2>. QED
    BY <2>1 DEF ClientInv
<1>5. ASSUME NEW p \in Patterns, NEW t \in BOOLEAN, PsuStart(p, t) PROVE ClientInv'
  <2>1. UNCHANGED <<holder, psu_holder>> /\ p \in PsuLoadPattern /\ 0 \in 0..Cores
    BY <1>5, PsuAssumption DEF PsuStart
  <2>2. CASE controller = "none"
    BY <1>5, <2>1, <2>2 DEF PsuStart, ClientInv
  <2>3. CASE controller # "none"
    BY <1>5, <2>1, <2>3 DEF PsuStart, ClientInv
  <2>. QED
    BY <2>2, <2>3
<1>6. CASE UNCHANGED vars
  BY <1>6 DEF vars, ClientInv
<1>. QED
  BY <1>1, <1>2, <1>3, <1>4, <1>5, <1>6, ClientController DEF Next, PsuNext

\* Every variable of both engines stays in its range.
THEOREM TypeCorrect == Spec => []PsuTypeOK
<1>1. PlaceInv /\ HandlesInv /\ NumbersInv /\ ClientInv => PsuTypeOK
  <2>1. ClContext \cup ClKernels \subseteq Objects
    BY ObjectsApart
  <2>. QED
    BY <2>1 DEF PlaceInv, HandlesInv, LostInv, NumbersInv, ClientInv, Places, TypeOK, PsuTypeOK
<1>2. Init => PlaceInv /\ VramInv /\ HandlesInv /\ NumbersInv /\ ClientInv
  BY PlaceInit, VramInit, HandlesInit, NumbersInit, ClientInit
<1>3. PlaceInv /\ VramInv /\ HandlesInv /\ NumbersInv /\ ClientInv /\ [Next]_vars =>
        (PlaceInv /\ VramInv /\ HandlesInv /\ NumbersInv /\ ClientInv)'
  BY PlaceStep, VramStep, HandlesStep, NumbersStep, ClientStep
<1>. QED
  BY <1>1, <1>2, <1>3, PTL DEF Spec
=============================================================================
