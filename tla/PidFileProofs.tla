--------------------------- MODULE PidFileProofs ---------------------------
(***************************************************************************)
(* Proofs about PidFile, for any set of process ids, any kill points and   *)
(* any unrelated programs, when the checks of two instances never overlap. *)
(*                                                                         *)
(* MutualExclusion is not inductive.  It rests on WorkerRecorded, and that *)
(* on what an instance in the middle of its check already knows:           *)
(*   - only one instance is checking;                                      *)
(*   - about to probe, it has read the id of whoever works;                *)
(*   - about to truncate or to write, it has seen that nobody works;       *)
(*   - about to write, its descriptor is of the file at the path.          *)
(***************************************************************************)
EXTENDS PidFile, TLAPS

OneChecker ==
  \A p, q \in Pids : pc[p] \in Checking /\ pc[q] \in Checking => p = q

ProbesWorker ==
  \A p, q \in Pids : pc[p] = "kill" /\ pc[q] \in Working => pid_long[p] = q

NobodyWorks ==
  \A p, q \in Pids : pc[p] \in {"truncate", "write"} => pc[q] \notin Working

WritesLinkedFile ==
  \A p \in Pids : pc[p] = "write" => p \notin orphans

GuardInv ==
  /\ TypeOK
  /\ OneChecker
  /\ ProbesWorker
  /\ NobodyWorks
  /\ WritesLinkedFile
  /\ WorkerRecorded

----------------------------------------------------------------------------
\* Every variable keeps its type.
THEOREM TypeCorrect == Spec => []TypeOK
<1> USE ConstantsAssumption
<1>1. Init => TypeOK
  BY DEF Init, TypeOK
<1>2. TypeOK /\ [Next]_vars => TypeOK'
  <2> SUFFICES ASSUME TypeOK, [Next]_vars
               PROVE  TypeOK'
    OBVIOUS
  <2> USE DEF TypeOK, Goto, Exit, Checking, Working
  <2>1. ASSUME NEW p \in Pids, Environment(p) PROVE TypeOK'
    BY <2>1 DEF Environment, Launch, ForeignStart, ForeignEnd, KillInstance
  <2>2. ASSUME NEW p \in Pids, Check(p) PROVE TypeOK'
    BY <2>2 DEF Check, StatPidFile, ReadPidFile, ProbeOwner, TruncatePidFile,
                WritePidFile
  <2>3. ASSUME NEW p \in Pids, Work(p) PROVE TypeOK'
    BY <2>3 DEF Work, EndWithoutRemove, EndCollection, StatRemove,
                RemovePidFile
  <2>4. CASE UNCHANGED vars
    BY <2>4 DEF vars
  <2>5. QED
    BY <2>1, <2>2, <2>3, <2>4 DEF Next
<1>3. QED
  BY <1>1, <1>2, PTL DEF Spec

\* A worker's id in the file makes it the only worker.
LEMMA RecordedIsExclusive == ASSUME TypeOK, WorkerRecorded PROVE MutualExclusion
BY DEF WorkerRecorded, MutualExclusion

\* One step keeps the inductive invariant, when starts do not overlap.
LEMMA GuardStep ==
  ASSUME ~OverlappingStarts, GuardInv, [Next]_vars
  PROVE  GuardInv'
<1> USE ConstantsAssumption
    DEF GuardInv, TypeOK, OneChecker, ProbesWorker, NobodyWorks,
        WritesLinkedFile, WorkerRecorded, Goto, Exit, Checking, Working
<1>1. ASSUME NEW p \in Pids, Launch(p) PROVE GuardInv'
  BY <1>1 DEF Launch
<1>2. ASSUME NEW p \in Pids, ForeignStart(p) PROVE GuardInv'
  BY <1>2 DEF ForeignStart
<1>3. ASSUME NEW p \in Pids, ForeignEnd(p) PROVE GuardInv'
  BY <1>3 DEF ForeignEnd
<1>4. ASSUME NEW p \in Pids, KillInstance(p) PROVE GuardInv'
  BY <1>4 DEF KillInstance
<1>5. ASSUME NEW p \in Pids, StatPidFile(p) PROVE GuardInv'
  BY <1>5 DEF StatPidFile
<1>6. ASSUME NEW p \in Pids, ReadPidFile(p) PROVE GuardInv'
  BY <1>6 DEF ReadPidFile
<1>7. ASSUME NEW p \in Pids, ProbeOwner(p) PROVE GuardInv'
  \* Whoever works is the process that was probed, and it did not answer.
  <2>1. CASE Alive(pid_long[p])
    BY <1>7, <2>1 DEF ProbeOwner
  <2>2. CASE ~Alive(pid_long[p])
    <3>1. \A q \in Pids : pc[q] \notin Working
      BY <1>7, <2>2 DEF ProbeOwner, Alive
    <3>2. QED
      BY <1>7, <2>2, <3>1 DEF ProbeOwner
  <2>3. QED
    BY <2>1, <2>2
<1>8. ASSUME NEW p \in Pids, TruncatePidFile(p) PROVE GuardInv'
  BY <1>8 DEF TruncatePidFile
<1>9. ASSUME NEW p \in Pids, WritePidFile(p) PROVE GuardInv'
  BY <1>9 DEF WritePidFile
<1>10. ASSUME NEW p \in Pids, EndWithoutRemove(p) PROVE GuardInv'
  BY <1>10 DEF EndWithoutRemove
<1>11. ASSUME NEW p \in Pids, EndCollection(p) PROVE GuardInv'
  BY <1>11 DEF EndCollection
<1>12. ASSUME NEW p \in Pids, StatRemove(p) PROVE GuardInv'
  BY <1>12 DEF StatRemove
<1>13. ASSUME NEW p \in Pids, RemovePidFile(p) PROVE GuardInv'
  BY <1>13 DEF RemovePidFile
<1>14. CASE UNCHANGED vars
  BY <1>14 DEF vars
<1>15. QED
  BY <1>1, <1>2, <1>3, <1>4, <1>5, <1>6, <1>7, <1>8, <1>9, <1>10, <1>11,
     <1>12, <1>13, <1>14 DEF Next, Environment, Check, Work

\* The inductive invariant holds throughout.
LEMMA GuardInvariance ==
  ASSUME ~OverlappingStarts
  PROVE  Spec => []GuardInv
<1>1. Init => GuardInv
  BY ConstantsAssumption
  DEF Init, GuardInv, TypeOK, OneChecker, ProbesWorker, NobodyWorks,
      WritesLinkedFile, WorkerRecorded, Checking, Working
<1>2. GuardInv /\ [Next]_vars => GuardInv'
  BY GuardStep
<1>3. QED
  BY <1>1, <1>2, PTL DEF Spec

\* While an instance works, the PID file names it, whatever is killed and
\* whichever process ids are recycled, as long as checks do not overlap.
THEOREM WorkerStaysRecorded ==
  ASSUME ~OverlappingStarts
  PROVE  Spec => []WorkerRecorded
<1>1. GuardInv => WorkerRecorded
  BY DEF GuardInv
<1>2. QED
  BY <1>1, GuardInvariance, PTL

\* Under the same condition the guard is a lock: one instance at most works.
THEOREM SerialStartsExclude ==
  ASSUME ~OverlappingStarts
  PROVE  Spec => []MutualExclusion
<1>1. GuardInv => MutualExclusion
  BY RecordedIsExclusive DEF GuardInv
<1>2. QED
  BY <1>1, GuardInvariance, PTL

=============================================================================
