-------------------------- MODULE MCStorageEngine --------------------------
(* Every mode, each in two tests in a row, on a file of two I/Os and with two *)
(* threads of the pool.                                                       *)
EXTENDS StorageEngine

AllModes == StorageMode
=============================================================================
