---------------------------- MODULE MCCpuEngine ----------------------------
(***************************************************************************)
(* CpuEngine on two cores, with two tests in a row.                        *)
(***************************************************************************)
EXTENDS CpuEngine
=============================================================================
