------------------------------ MODULE FileStore ------------------------------
(***************************************************************************)
(* The two stores of the command line, certs.json (CertStore) and          *)
(* leaderboard.json (Leaderboard).  Either is one file that is read whole, *)
(* changed in memory, written to a second name, and put in place by        *)
(* removing the file and renaming the other.  A program may die between    *)
(* any two of these steps, and the system may refuse each of them.         *)
(* One store is looked at in a behaviour; one program saves at a time.     *)
(***************************************************************************)
EXTENDS Integers

CONSTANTS
  Entries,      \* certificates, or results of benchmarks
  MaxMishaps    \* bound: refusals and crashes of a behaviour

ASSUME StoreAssumption == MaxMishaps \in Nat

VARIABLES
  store,          \* "certs" or "leaderboard"
  final, tmp,     \* what the two names hold
  saving, memory, \* where the saving program is, and the entries it holds
  entry,          \* the entry it was asked to add
  unread,         \* history: the file was there and this program could not read it
  acknowledged,   \* entries a save has put into the store
  gap,            \* history: a save ended with the store's name empty, its bytes lost, or
                  \* in place of a file that was not read
  mishaps

storeVars == <<store, final, tmp, saving, memory, entry, unread, acknowledged, gap, mishaps>>

Absent == [is |-> "absent", holds |-> {}]
Torn == [is |-> "torn", holds |-> {}]
Whole(es) == [is |-> "whole", holds |-> es]

\* What opening and parsing the file gives: nothing, unless it is a complete document.
Parsed(file) == file.holds

Saves(from, to) ==
  /\ saving = from /\ saving' = to /\ UNCHANGED <<store, entry>>

Mishap == mishaps < MaxMishaps /\ mishaps' = mishaps + 1
NoMishap == UNCHANGED mishaps

-----------------------------------------------------------------------------
(* The queries: every one reads the file anew.  A file that cannot be     *)
(* opened, or not to its end, is taken for an empty store.                 *)

list_hashes == Parsed(final)
\* The key is the hash, and the field of a certificate, where it has one, is its key.
verify(hash) == hash \in Parsed(final)
get_rankings == Parsed(final)

ReadRefused ==
  /\ final # Absent /\ Mishap
  /\ UNCHANGED <<store, final, tmp, saving, memory, entry, unread, acknowledged, gap>>

-----------------------------------------------------------------------------
(* submit(): load, change, save.                                           *)

\* Where a certificate's hash_sha256 is empty, nothing is stored; where it has none, the
\* hash is computed.
HasHash(field) == field # "empty"

Load(e) ==
  /\ saving = "idle" /\ saving' = "open"
  /\ entry' = e
  /\ \/ memory' = Parsed(final) \cup {e} /\ unread' = FALSE /\ NoMishap
     \/ memory' = {e} /\ unread' = TRUE /\ final # Absent /\ Mishap
  /\ UNCHANGED <<store, final, tmp, acknowledged, gap>>

\* Mutant: the old file goes before the new one is written.
RemoveFirst ==
  /\ UNCHANGED <<memory, unread, acknowledged, gap>>
  /\ \/ Saves("open", "write") /\ tmp' = Torn /\ final' = Absent /\ NoMishap
     \/ Saves("open", "failed") /\ final' = Absent /\ UNCHANGED tmp /\ Mishap

\* Opening for writing empties a file left there by an earlier save.
OpenTmp ==
  /\ UNCHANGED <<final, memory, unread, acknowledged, gap>>
  /\ \/ Saves("open", "write") /\ tmp' = Torn /\ NoMishap
     \/ Saves("open", "failed") /\ UNCHANGED tmp /\ Mishap

\* A short write is noticed.  What write() only buffered is written by close(), and a
\* close() that fails is not.
WriteTmp ==
  /\ UNCHANGED <<final, memory, unread, acknowledged, gap>>
  /\ \/ Saves("write", "remove") /\ tmp' = Whole(memory) /\ NoMishap
     \/ Saves("write", "failed") /\ tmp' = Absent /\ Mishap
     \/ Saves("write", "remove") /\ tmp' = Torn /\ Mishap

RemoveFinal ==
  /\ Saves("remove", "rename") /\ UNCHANGED <<tmp, memory, unread, acknowledged, gap>>
  /\ \/ final' = Absent /\ NoMishap
     \/ UNCHANGED final /\ Mishap

\* A rename does not replace a file that is there: QFile::rename refuses it.
RenameTmp ==
  /\ UNCHANGED <<memory, unread>>
  /\ \/ /\ Saves("rename", "saved") /\ final = Absent /\ NoMishap
        /\ final' = tmp /\ tmp' = Absent
        /\ acknowledged' = acknowledged \cup {entry}
        /\ gap' = (gap \/ tmp = Torn \/ unread)
     \/ /\ Saves("rename", "failed") /\ UNCHANGED <<final, acknowledged>>
        /\ IF final = Absent THEN Mishap ELSE NoMishap
        /\ tmp' = IF store = "certs" THEN Absent ELSE tmp
        /\ gap' = (gap \/ final = Absent)

save_db == OpenTmp \/ WriteTmp \/ RemoveFinal \/ RenameTmp

\* The program dies; what its files hold stays.
Crash ==
  /\ saving \notin {"idle", "saved", "failed"} /\ saving' = "idle" /\ Mishap
  /\ gap' = (gap \/ (saving = "rename" /\ final = Absent))
  /\ UNCHANGED <<store, final, tmp, memory, entry, unread, acknowledged>>

StoreInit ==
  /\ store \in {"certs", "leaderboard"}
  /\ final = Absent /\ tmp = Absent
  /\ saving = "idle" /\ memory = {} /\ entry = "none"
  /\ unread = FALSE /\ acknowledged = {} /\ gap = FALSE /\ mishaps = 0

-----------------------------------------------------------------------------
(* Properties.                                                             *)

\* Whatever is refused and wherever a program dies, a store at rest is a complete document
\* with every entry ever put into it, but for the three ways submit() has to lose it: an end
\* between removing the file and renaming the other, a close() that fails unnoticed, and a
\* file that could not be read, taken for an empty store and replaced.  A file that was not
\* read survives a save that comes to nothing.
StoreSurvives ==
  saving = "idle" /\ ~gap =>
    /\ final # Torn
    /\ acknowledged \subseteq Parsed(final)
=============================================================================
