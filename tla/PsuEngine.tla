----------------------------- MODULE PsuEngine -----------------------------
(***************************************************************************)
(* PsuEngine: a controller thread that starts and stops a CPU load and a   *)
(* GPU load in a pattern, a thread that polls the metrics of both every    *)
(* 500 ms, and stop(), which stops both loads and joins both threads.  The *)
(* GPU load is GpuEngine's, with every way its worker can fail.  The CPU   *)
(* load is CpuEngine seen from its interface, which is_running() is.       *)
(***************************************************************************)
EXTENDS GpuEngine

CONSTANTS
  Patterns,   \* the patterns a test may be started in
  Cores       \* hardware_concurrency(): levels of the ramp

PsuLoadPattern == {"STEADY", "SPIKE", "RAMP"}

ASSUME PsuAssumption ==
  Patterns \subseteq PsuLoadPattern /\ Cores \in Nat \ {0}

VARIABLES
  psu_used,                 \* the GpuEngine is the one inside a PsuEngine
  psu_running, stop_requested, pattern, psu_timed, psu_expired,
  controller, poller,       \* where the two threads are
  level,                    \* threads of the CPU load in a ramp
  cpu_running,              \* cpu_.is_running()
  psu_holder                \* where stop() is: "no", stopping the loads, joining

psuTest == <<psu_used, pattern, psu_timed>>
control == <<psu_running, stop_requested, psu_expired>>
psuThreads == <<controller, poller, level>>
psuVars == <<psuTest, control, psuThreads, cpu_running, psu_holder>>
vars == <<gpuVars, psuVars>>

-----------------------------------------------------------------------------
(* The controller.                                                         *)

\* It goes on from one place to the next.
Controls(from, to) ==
  /\ controller = from /\ controller' = to
  /\ UNCHANGED <<psuTest, stop_requested, psu_expired, poller, psu_holder>>

\* Mutant: only the clock is looked at.
HasTimeByClock == ~(psu_timed /\ psu_expired)

has_time == ~stop_requested /\ ~(psu_timed /\ psu_expired)

\* A load that runs is left running, one that does not is left alone.
start_cpu_load == cpu_running' = TRUE
stop_cpu_load == cpu_running' = FALSE

StartCpu(from, to) ==
  Controls(from, to) /\ start_cpu_load /\ UNCHANGED <<gpuVars, psu_running, level>>
StopCpu(from, to) ==
  Controls(from, to) /\ stop_cpu_load /\ UNCHANGED <<gpuVars, psu_running, level>>

\* gpu_.start() refuses, and the CPU load goes on alone, or it starts a worker.
StartGpu(from, to) ==
  /\ Controls(from, to) /\ UNCHANGED <<cpu_running, psu_running, level>>
  /\ IF Accepts("MATRIX_MUL") THEN Launch("MATRIX_MUL", FALSE) /\ UNCHANGED starts
     ELSE UNCHANGED gpuVars

\* gpu_.stop() waits for the worker; an engine that is not running is left alone.
StopGpu(from, to) ==
  /\ UNCHANGED <<cpu_running, psu_running, level>>
  /\ \/ ~running /\ holder # "controller" /\ Controls(from, to) /\ UNCHANGED gpuVars
     \/ running /\ BeginStop("controller") /\ Controls(from, from)
     \/ EndStop("controller") /\ Controls(from, to)

\* The controller looks at the clock and the flag, and waits or goes on.
Look(from, to) == Controls(from, to) /\ UNCHANGED <<gpuVars, cpu_running, psu_running, level>>

Steady ==
  /\ pattern = "STEADY"
  /\ \/ StartCpu("begin", "steady_gpu")
     \/ StartGpu("steady_gpu", "hold")
     \/ Look("hold", "shut_cpu") /\ (~has_time \/ (~cpu_running /\ ~running))

\* Both phases last five seconds; an untimed step of the model is any part of one.
Spike ==
  /\ pattern = "SPIKE"
  /\ \/ Look("begin", IF has_time THEN "idle_cpu" ELSE "shut_cpu")
     \/ StopCpu("idle_cpu", "idle_gpu")
     \/ StopGpu("idle_gpu", "idle")
     \/ Look("idle", IF has_time THEN "load_cpu" ELSE "shut_cpu")
     \/ StartCpu("load_cpu", "load_gpu")
     \/ StartGpu("load_gpu", "load")
     \/ Look("load", "begin")

\* One thread more at each level, the load being started anew; then the GPU.
Ramp ==
  /\ pattern = "RAMP"
  /\ \/ Look("begin", IF level < Cores /\ has_time THEN "ramp_stop"
                      ELSE IF has_time THEN "ramp_gpu" ELSE "shut_cpu")
     \/ StopCpu("ramp_stop", "ramp_start")
     \/ /\ Controls("ramp_start", "begin") /\ start_cpu_load
        /\ level' = level + 1 /\ UNCHANGED <<gpuVars, psu_running>>
     \/ StartGpu("ramp_gpu", "hold")
     \/ Look("hold", "shut_cpu") /\ ~has_time

\* Mutant: the controller ends without a clean shutdown.
EndLoaded ==
  /\ Controls("shut_cpu", "exited") /\ psu_running' = FALSE
  /\ UNCHANGED <<gpuVars, cpu_running, level>>

CleanShutdown ==
  \/ StopCpu("shut_cpu", "shut_gpu")
  \/ StopGpu("shut_gpu", "end")
  \/ /\ Controls("end", "exited") /\ psu_running' = FALSE
     /\ UNCHANGED <<gpuVars, cpu_running, level>>

controller_thread_func == Steady \/ Spike \/ Ramp \/ CleanShutdown

-----------------------------------------------------------------------------
(* The poller.                                                             *)

\* One round.  What it makes of the metrics is left out, but for this: an error of either
\* load raises the flag, if the test stops on errors.
Poll ==
  /\ poller = "loop" /\ psu_running /\ ~stop_requested /\ stop_requested' = TRUE
  /\ UNCHANGED <<gpuVars, psuTest, psu_running, psu_expired, psuThreads, cpu_running,
                 psu_holder>>

EndPolling ==
  /\ poller = "loop" /\ (~psu_running \/ stop_requested) /\ poller' = "exited"
  /\ UNCHANGED <<gpuVars, psuTest, control, controller, level, cpu_running, psu_holder>>

metrics_poller_func == Poll \/ EndPolling

-----------------------------------------------------------------------------
(* start() and stop().                                                     *)

\* Threads of a test that ended by itself were not joined: they are assigned over.
PsuStart(p, t) ==
  /\ psu_used /\ psu_holder = "no" /\ ~psu_running
  /\ starts < MaxStarts /\ starts' = starts + 1
  /\ initialized' = TRUE
  /\ IF controller = "none"
       THEN /\ pattern' = p /\ psu_timed' = t
            /\ psu_running' = TRUE /\ stop_requested' = FALSE /\ psu_expired' = FALSE
            /\ controller' = "begin" /\ poller' = "loop" /\ level' = 0
            /\ UNCHANGED terminated
       ELSE /\ terminated' = TRUE
            /\ UNCHANGED <<pattern, psu_timed, control, psuThreads>>
  /\ UNCHANGED <<setting, test, running, expired, worker, counts, place, objects, refused,
                 holder, destroyed, psu_used, cpu_running, psu_holder>>

stopRest == <<psuTest, psu_expired, level>>

PsuStop ==
  /\ psu_used /\ psu_holder = "no" /\ controller # "none"
  /\ stop_requested' = TRUE /\ psu_holder' = "stop_cpu"
  /\ UNCHANGED <<gpuVars, stopRest, psu_running, controller, poller, cpu_running>>

StopsCpuLoad ==
  /\ psu_holder = "stop_cpu" /\ psu_holder' = "stop_gpu" /\ stop_cpu_load
  /\ UNCHANGED <<gpuVars, stopRest, psu_running, stop_requested, controller, poller>>

StopsGpuLoad ==
  /\ psu_holder = "stop_gpu"
  /\ \/ ~running /\ holder # "psu" /\ psu_holder' = "join" /\ UNCHANGED gpuVars
     \/ running /\ BeginStop("psu") /\ UNCHANGED psu_holder
     \/ EndStop("psu") /\ psu_holder' = "join"
  /\ UNCHANGED <<stopRest, psu_running, stop_requested, controller, poller, cpu_running>>

JoinBoth ==
  /\ psu_holder = "join" /\ controller = "exited" /\ poller = "exited"
  /\ psu_holder' = "no" /\ controller' = "none" /\ poller' = "none"
  /\ psu_running' = FALSE
  /\ UNCHANGED <<gpuVars, stopRest, stop_requested, cpu_running>>

stop == StopsCpuLoad \/ StopsGpuLoad \/ JoinBoth

-----------------------------------------------------------------------------
(* The environment and the whole.                                          *)

PsuTimePasses ==
  /\ psu_running /\ psu_timed /\ ~psu_expired /\ psu_expired' = TRUE
  /\ UNCHANGED <<gpuVars, psuTest, psu_running, stop_requested, psuThreads, cpu_running,
                 psu_holder>>

PsuInit ==
  /\ psu_used \in BOOLEAN
  /\ psu_running = FALSE /\ stop_requested = FALSE /\ psu_expired = FALSE
  /\ pattern = "STEADY" /\ psu_timed = FALSE
  /\ controller = "none" /\ poller = "none" /\ level = 0
  /\ cpu_running = FALSE /\ psu_holder = "no"

Init ==
  /\ GpuInit /\ PsuInit
  /\ psu_used => ~stop_on_error /\ gpu_fault.kind = "none"

PsuNext ==
  \/ worker_main /\ UNCHANGED psuVars
  \/ controller_thread_func \/ metrics_poller_func \/ PsuStop \/ stop
  \/ PsuTimePasses
  \/ \E p \in Patterns, t \in BOOLEAN : PsuStart(p, t)

\* A GpuEngine of its own, or one inside a PsuEngine.
Next ==
  \/ ~psu_used /\ GpuNext /\ UNCHANGED psuVars
  \/ Goes_on /\ psu_used /\ PsuNext

Spec == Init /\ [][Next]_vars

\* Every thread runs, a stop() that was called goes on, and time passes.  Nothing makes
\* a user call anything.
FairSpec ==
  /\ Spec
  /\ WF_vars(Goes_on /\ worker # "exited" /\ worker_main /\ UNCHANGED psuVars)
  /\ WF_vars(Goes_on /\ ~psu_used /\ (EndStop("user") \/ TimePasses) /\ UNCHANGED psuVars)
  /\ WF_vars(Goes_on /\ psu_used /\ controller_thread_func)
  /\ WF_vars(Goes_on /\ psu_used /\ (EndPolling \/ PsuTimePasses))
  /\ WF_vars(Goes_on /\ psu_used /\ stop)

-----------------------------------------------------------------------------
(* Properties.                                                             *)

PsuTypeOK ==
  /\ TypeOK
  /\ pattern \in PsuLoadPattern
  /\ level \in 0..Cores
  /\ poller \in {"none", "loop", "exited"}
  /\ psu_holder \in {"no", "stop_cpu", "stop_gpu", "join"}
  /\ holder \in {"nobody", "user", "controller", "psu"}

\* Once the controller has ended, whether by stop(), by the clock or by itself, neither
\* load runs, although the controller may have started one after stop() stopped both.
LoadsEndWithTest ==
  controller \in {"none", "exited"} => ~cpu_running /\ (psu_used => ~running)

\* stop() returns from a GPU test and from a PSU test, and a test with a duration ends,
\* unless the program is terminated or a GPU buffer was refused.
Pending ==
  \/ holder # "nobody" \/ psu_holder # "no"
  \/ psu_running /\ psu_timed
  \/ ~psu_used /\ running /\ timed /\ refused = 0

TestsEnd == Pending ~> (~Pending \/ terminated)
=============================================================================
