---------------------------- MODULE SensorManager ----------------------------
(***************************************************************************)
(* SensorManager on Windows, for the temperature of the CPU: a thread asks *)
(* the LHM helper, a program of its own, and where it gives nothing the    *)
(* thermal zones that WMI knows of.  What was ever read stays in readings_ *)
(* under the name of the sensor, and the accessor gives the first of them. *)
(*                                                                         *)
(* The power of the CPU (LHM, or an estimate) and the temperature of the   *)
(* GPU (LHM, NVML, ADL) get into readings_ and out of it in the same way.  *)
(* A poll is one step: it enters one temperature at most, under a lock.    *)
(***************************************************************************)
EXTENDS Integers, Sequences, SequencesExt

CONSTANTS
  Zones,        \* what WMI has for this machine: "acpi", "perf"
  MaxFailures,  \* failed polls after which the helper is given up (5)
  MaxLevel      \* temperatures are 1..MaxLevel

ASSUME SensorAssumption ==
  /\ Zones \subseteq {"acpi", "perf"} /\ MaxFailures \in Nat \ {0} /\ MaxLevel \in Nat \ {0}

VARIABLES
  heat,                  \* the temperature of the CPU
  has_wmi, connected,    \* has_wmi_, and wmi_locator_ is not null
  available, fail_count, \* of the LHM bridge
  readings,              \* readings_: what each sensor gave last, in the order of their first
  answered               \* history: the sensor that gave a temperature in the last poll

lhm == <<available, fail_count>>
sensors == <<heat, has_wmi, connected, lhm, readings, answered>>

-----------------------------------------------------------------------------
(* readings_.                                                              *)

EntryOf(name) == {i \in DOMAIN readings : readings[i].name = name}

update_reading(name, value) ==
  /\ answered' = name
  /\ readings' = IF EntryOf(name) = {}
                   THEN Append(readings, [name |-> name, value |-> value])
                   ELSE [i \in DOMAIN readings |->
                           IF i \in EntryOf(name) THEN [name |-> name, value |-> value]
                           ELSE readings[i]]

NothingRead == answered' = "nobody" /\ UNCHANGED readings

get_cpu_temperature == IF readings = <<>> THEN 0 ELSE Head(readings).value

-----------------------------------------------------------------------------
(* LhmBridge::poll.                                                        *)

HelperGivesDocument == available /\ fail_count' = 0 /\ UNCHANGED available

\* No answer within 30 s, an exit code, no output, no JSON, or no hardware in it.
HelperFails ==
  /\ available /\ fail_count' = fail_count + 1
  /\ available' = (fail_count + 1 < MaxFailures)

HelperGivenUp == ~available /\ UNCHANGED lhm

-----------------------------------------------------------------------------
(* poll_wmi: one round of the thread.                                      *)

Polls == has_wmi /\ UNCHANGED <<heat, has_wmi>>

\* Without a connection the helper is not asked either.  A locator that was made stays,
\* even where it connects to nothing: the next poll asks the helper again.
ReconnectFails ==
  /\ Polls /\ ~connected /\ NothingRead /\ connected' \in BOOLEAN /\ UNCHANGED lhm

\* Connected, or connected again.
PollHelper ==
  /\ Polls /\ connected' = TRUE
  /\ HelperGivesDocument /\ update_reading("lhm", heat)

\* A document may be without a sensor.
HelperIsSilent == HelperGivesDocument \/ HelperFails \/ HelperGivenUp

\* The query for the fans, which follows, may find the connection lost.
PollZones ==
  /\ Polls /\ HelperIsSilent
  /\ \E z \in Zones : update_reading(z, heat)
  /\ connected' \in BOOLEAN

\* So may the query for the zones; or it is denied, or there are none.
ZonesAreSilent ==
  /\ Polls /\ HelperIsSilent /\ NothingRead /\ connected' \in BOOLEAN

poll_wmi == ReconnectFails \/ PollHelper \/ PollZones \/ ZonesAreSilent

HeatChanges ==
  /\ \E h \in (1..MaxLevel) \ {heat} : heat' = h
  /\ UNCHANGED <<has_wmi, connected, lhm, readings, answered>>

\* initialize(): the helper's program is there or not, COM and WMI answer or not.
SensorInit ==
  /\ heat = 1 /\ has_wmi \in BOOLEAN /\ connected = has_wmi
  /\ available \in BOOLEAN /\ fail_count = 0
  /\ readings = <<>> /\ answered = "nobody"

-----------------------------------------------------------------------------
(* Properties.                                                             *)

\* "Convenience accessors (return 0 if sensor not available)": the temperature is not
\* that of a helper that was given up.
ZeroIfNotAvailable ==
  get_cpu_temperature # 0 => (Head(readings).name = "lhm" => available)

\* The first of the readings is the one that is being read.
FirstAnswers == readings # <<>> /\ Head(readings).name = answered
=============================================================================
