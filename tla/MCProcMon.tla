------------------------------ MODULE MCProcMon ------------------------------
(***************************************************************************)
(* Instances of ProcMon for TLC. Process ids are numbers: 1 .. NumPids.    *)
(***************************************************************************)
EXTENDS ProcMon

CONSTANT NumPids

PidTable == 1 .. NumPids
==============================================================================
