----------------------------- MODULE MCPidFile -----------------------------
(***************************************************************************)
(* Instances of PidFile for TLC: three process ids, interchangeable as far *)
(* as the safety properties go.                                            *)
(***************************************************************************)
EXTENDS PidFile, TLC

PidSymmetry == Permutations(Pids)

\* Every point where a signal may end an instance.
AllPoints == Checking \cup Working

NoPids == {}
NoPoints == {}
=============================================================================
