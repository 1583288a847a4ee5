--------------------------- MODULE MCStorageVerify ---------------------------
(***************************************************************************)
(* Small instances of StorageVerify: files of 0 to 4 blocks, so that        *)
(* butterfly meets an empty, an odd, an even and a single-block file; the   *)
(* shuffled order of VERIFY_RAND is each permutation of 3 blocks and one of *)
(* 4; the device is genuine or wraps around after 2 cells.                  *)
(***************************************************************************)
EXTENDS StorageVerify

CONSTANT Sizes

Identity(s) == [i \in 0..(s - 1) |-> i]
Wrapped(s) == [i \in 0..(s - 1) |-> i % 2]
Shuffles(s) ==
  IF s <= 3
    THEN {f \in [0..(s - 1) -> 0..(s - 1)] :
            \A i \in 0..(s - 1) : \E k \in 0..(s - 1) : f[k] = i}
    ELSE {[k \in 0..(s - 1) |-> (k * 3 + 2) % s]}


Orders(m, s) == IF m = "VERIFY_RAND" THEN Shuffles(s) ELSE {Identity(s)}

TestConfigs ==
  UNION {{[mode |-> m, total |-> s, order |-> o, cell |-> c,
           stop_on_error |-> e, timed |-> t] :
            o \in Orders(m, s), c \in {Identity(s), Wrapped(s)},
            e \in BOOLEAN, t \in BOOLEAN} : m \in Modes, s \in Sizes}
=============================================================================
