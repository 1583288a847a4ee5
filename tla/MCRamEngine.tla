---------------------------- MODULE MCRamEngine ----------------------------
(***************************************************************************)
(* RamEngine on three words of two bits.                                   *)
(***************************************************************************)
EXTENDS RamEngine

OneFault(kinds, bys, ats, ons) ==
  [kind: kinds, by: bys, at: ats, on: ons, to: {0, 1}]

SomeCell == <<0, 0>>

\* Every fault of one cell, and every fault between two.
AllFaults ==
  OneFault({"stuck", "transition"}, {SomeCell}, Cells, {0})
  \cup {f \in OneFault({"coupling", "inversion", "state"}, Cells, Cells, {0, 1}) :
          f.by # f.at /\ (f.kind = "inversion" => f.to = 0)}

\* None, and one cell that gives errors with every pattern.
FewFaults ==
  {f \in OneFault({"none", "stuck"}, {SomeCell}, {<<1, 0>>}, {0}) :
     f.kind = "none" => f.to = 0}

EveryFault == AllFaults \cup FewFaults

\* Bound: a second pass or test only with the few.
OnePassForMost == fault \in FewFaults \/ (starts <= 1 /\ passes = 1)

TestNoises == {[i \in Words |-> IF i = 1 THEN {0} ELSE {1}],
               [i \in Words |-> IF i = 1 THEN {} ELSE Bits]}
=============================================================================
