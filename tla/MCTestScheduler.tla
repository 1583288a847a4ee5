-------------------------- MODULE MCTestScheduler --------------------------
(***************************************************************************)
(* TestScheduler on schedules of one to three steps: sequential, parallel, *)
(* the same engine twice in a row and twice in one group, unequal times, a *)
(* step without a time and a step whose engine is not known.               *)
(***************************************************************************)
EXTENDS TestScheduler

S(e, d, p) == [engine |-> e, duration |-> d, parallel_with_next |-> p]

TestSchedules ==
  {<<S("cpu", 1, TRUE), S("ram", 2, FALSE), S("storage", 1, FALSE)>>,
   <<S("ram", 1, TRUE), S("ram", 0, FALSE)>>,
   <<S("gpu", 1, TRUE), S("psu", 1, FALSE), S("cpu", 0, FALSE)>>}

\* The CPU and then the memory, as the built-in presets do.
PresetPairs == {<<S("cpu", 1, FALSE), S("ram", 1, FALSE)>>}
=============================================================================
