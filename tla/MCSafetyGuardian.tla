-------------------------- MODULE MCSafetyGuardian --------------------------
(***************************************************************************)
(* The guardian with two engines: the CPU, whose stop() clears running_    *)
(* first, and the storage engine, whose start() joins a leftover thread.   *)
(***************************************************************************)
EXTENDS SafetyGuardian

TwoEngines == <<"cpu", "storage">>
CpuOnly == {"cpu"}
StorageOnly == {"storage"}
AcpiOnly == {"acpi"}
=============================================================================
