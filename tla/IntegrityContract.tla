-------------------------- MODULE IntegrityContract --------------------------
(***************************************************************************)
(* What a data-integrity test promises, whichever way it walks the file:   *)
(* it attempts every block once, only then judges every block once, and    *)
(* blames the device for a block exactly when the device, at that moment,  *)
(* gives back something other than what was written.  It may be abandoned  *)
(* at any point; it is concluded only when every block has been judged.    *)
(***************************************************************************)
EXTENDS Integers

VARIABLES
  blocks,     \* the blocks of the test file, fixed when the test starts
  genuine,    \* whether the device has a cell of its own for every block
  phase,      \* "write", "verify", "concluded" or "abandoned"
  todo,       \* blocks the current phase has not reached yet
  intact,     \* blocks the device would give back as written
  faults,     \* device misbehaviours so far
  errors      \* blocks blamed so far

setup == <<blocks, genuine>>
vars == <<blocks, genuine, phase, todo, intact, faults, errors>>

TypeOK ==
  /\ phase \in {"write", "verify", "concluded", "abandoned"}
  /\ genuine \in BOOLEAN
  /\ todo \subseteq blocks
  /\ intact \subseteq blocks
  /\ faults \in Nat
  /\ errors \in Nat

\* A counterfeit cannot hold all blocks at once.
Holdable(S) == ~genuine => S # blocks

Init ==
  /\ genuine \in BOOLEAN
  /\ phase = "write"
  /\ todo = blocks
  /\ intact = {}
  /\ faults = 0
  /\ errors = 0

MayFault == faults' \in {faults, faults + 1}

Attempt(b) ==
  /\ phase = "write" /\ b \in todo
  /\ todo' = todo \ {b}
  /\ MayFault
  /\ intact' \subseteq blocks /\ Holdable(intact')
  /\ genuine /\ faults' = faults => intact' = intact \cup {b}
  /\ \/ errors' = errors
     \/ errors' = errors + 1 /\ faults' = faults + 1
  /\ UNCHANGED phase

BeginVerify ==
  /\ phase = "write" /\ todo = {}
  /\ phase' = "verify"
  /\ todo' = blocks
  /\ UNCHANGED <<intact, faults, errors>>

Check(b) ==
  /\ phase = "verify" /\ b \in todo
  /\ todo' = todo \ {b}
  /\ MayFault
  /\ errors' = IF b \in intact /\ faults' = faults THEN errors ELSE errors + 1
  /\ UNCHANGED <<phase, intact>>

Conclude ==
  /\ phase = "verify" /\ todo = {}
  /\ phase' = "concluded"
  /\ UNCHANGED <<todo, intact, faults, errors>>

\* A stop, a time-out, an error nobody wants to go past, or a file that does
\* not open.  A last block may still be blamed, for cause.
Abandon ==
  /\ phase \in {"write", "verify"}
  /\ phase' = "abandoned"
  /\ todo' = {}
  /\ MayFault
  /\ \/ errors' = errors
     \/ /\ errors' = errors + 1
        /\ faults' # faults \/ (phase = "verify" /\ ~(todo \subseteq intact))
  /\ UNCHANGED intact

\* blocks rot, and do not heal.
Rot ==
  /\ faults' = faults + 1
  /\ intact' \subseteq intact
  /\ UNCHANGED <<phase, todo, errors>>

Next ==
  /\ UNCHANGED setup
  /\ \/ \E b \in blocks : Attempt(b) \/ Check(b)
     \/ BeginVerify \/ Conclude \/ Abandon \/ Rot

Spec == Init /\ [][Next]_vars

-----------------------------------------------------------------------------
\* A genuine device that did nothing wrong is never blamed.
HealthyNeverBlamed == genuine /\ faults = 0 => errors = 0

\* A test that was concluded has blamed a counterfeit device.
CounterfeitBlamed == phase = "concluded" /\ ~genuine => errors > 0

\* Why a healthy device is not blamed: while writing, everything already attempted is
\* intact; while verifying, everything is.
HealthyInv ==
  genuine /\ faults = 0 =>
    /\ errors = 0
    /\ phase = "write" => blocks \ todo \subseteq intact
    /\ phase = "verify" => blocks \subseteq intact

\* Why a counterfeit is: some block is not intact when verification starts, blocks do not
\* heal, and an unblamed check means an intact block, so as long as nothing was blamed a
\* bad block is still to come.
CounterfeitInv ==
  ~genuine =>
    /\ ~(blocks \subseteq intact)
    /\ phase = "verify" /\ errors = 0 => ~(todo \subseteq intact)
    /\ phase = "concluded" => errors > 0

\* There is a block to test: an empty file proves nothing about a device.
NonEmpty == blocks # {}
=============================================================================
