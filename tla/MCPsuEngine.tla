----------------------------- MODULE MCPsuEngine -----------------------------
(***************************************************************************)
(* PsuEngine and GpuEngine on a VRAM of five words of two bits, in groups  *)
(* of two work-items: the last word is reached by no pattern.              *)
(***************************************************************************)
EXTENDS PsuEngine

GpuFaults ==
  {[kind |-> "none"], [kind |-> "compute"],
   [kind |-> "alias", word |-> 1, other |-> 3],
   [kind |-> "stuck", word |-> 2, bit |-> 1, to |-> 0],
   [kind |-> "stuck", word |-> 4, bit |-> 1, to |-> 1]}

\* A machine without OpenCL, and one with nothing but it.
TwoMachines == {{"vulkan"}, {"opencl", "fp64"}}
=============================================================================
