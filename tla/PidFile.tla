------------------------------ MODULE PidFile ------------------------------
(***************************************************************************)
(* The single-instance guard of the collector: check_pid_file and          *)
(* remove_pid_file of utils.cpp, as main uses them.  Several instances of  *)
(* the program are started by an external scheduler; each is identified by *)
(* its process id.  One action is one system call, because nothing makes   *)
(* the guard's stat / read / kill / truncate / write atomic.               *)
(***************************************************************************)
EXTENDS Naturals

CONSTANTS
  Pids,              \* process ids the kernel hands out
  Absent,            \* "no PID file", a value that is not a process id
  Blank,             \* "the PID file is empty": truncated, pid not yet written
  OverlappingStarts, \* may one instance start while another is in its check?
  ForeignPids,       \* process ids that unrelated programs may occupy
  KillablePoints,    \* the program points where an instance may be killed
  MaxKills           \* bound on the instances that are killed

\* The points of check_pid_file, in order.
Checking == {"stat", "read", "kill", "truncate", "write"}

\* The points of main once check_pid_file has returned true.
Working == {"work", "statRemove", "remove"}

ASSUME ConstantsAssumption ==
  /\ Absent \notin Pids /\ Blank \notin Pids /\ Absent # Blank
  /\ OverlappingStarts \in BOOLEAN
  /\ ForeignPids \subseteq Pids
  /\ KillablePoints \subseteq Checking \cup Working
  /\ MaxKills \in Nat

VARIABLES
  pidFile,   \* contents of PID_FILE
  pc,        \* where the process with each id is; "none": no such process
  pid_long,  \* the id each instance read from the file
  orphans,   \* instances whose open descriptor is of a removed file
  kills      \* instances killed so far

vars == <<pidFile, pc, pid_long, orphans, kills>>

TypeOK ==
  /\ pidFile \in Pids \cup {Absent, Blank}
  /\ pc \in [Pids -> {"none", "foreign"} \cup Checking \cup Working]
  /\ pid_long \in [Pids -> Pids]
  /\ orphans \subseteq Pids
  /\ kills \in Nat

Init ==
  /\ pidFile = Absent
  /\ pc = [p \in Pids |-> "none"]
  /\ pid_long = [p \in Pids |-> p]
  /\ orphans = {}
  /\ kills = 0

Alive(p) == pc[p] # "none"

Goto(p, point) == pc' = [pc EXCEPT ![p] = point]

\* The process ends, whatever main returns; its id is free again.
Exit(p) == Goto(p, "none")

----------------------------------------------------------------------------
(* The world around the program.                                           *)

\* The scheduler starts an instance.
Launch(p) ==
  /\ pc[p] = "none"
  /\ OverlappingStarts \/ \A q \in Pids : pc[q] \notin Checking
  /\ Goto(p, "stat")
  /\ UNCHANGED <<pidFile, pid_long, orphans, kills>>

\* An unrelated program takes, or gives back, a process id.
ForeignStart(p) ==
  /\ p \in ForeignPids
  /\ pc[p] = "none"
  /\ Goto(p, "foreign")
  /\ UNCHANGED <<pidFile, pid_long, orphans, kills>>

ForeignEnd(p) ==
  /\ pc[p] = "foreign"
  /\ Exit(p)
  /\ UNCHANGED <<pidFile, pid_long, orphans, kills>>

\* The instance is killed by a signal; nothing of it runs any more.
KillInstance(p) ==
  /\ pc[p] \in KillablePoints
  /\ kills < MaxKills
  /\ kills' = kills + 1
  /\ Exit(p)
  /\ UNCHANGED <<pidFile, pid_long, orphans>>

----------------------------------------------------------------------------
(* check_pid_file                                                          *)

\* A bug: an existing file is taken to be stale without a look at its owner.
StatPidFileSkipsOwner(p) ==
  /\ pc[p] = "stat"
  /\ Goto(p, "truncate")
  /\ UNCHANGED <<pidFile, pid_long, orphans, kills>>

\* stat: without a file the routine goes straight to writing its own.
StatPidFile(p) ==
  /\ pc[p] = "stat"
  /\ Goto(p, IF pidFile = Absent THEN "truncate" ELSE "read")
  /\ UNCHANGED <<pidFile, pid_long, orphans, kills>>

\* A bug: what was read is used without the verdict of convert_long.
ReadPidFileUnchecked(p) ==
  /\ pc[p] = "read"
  /\ pid_long' = [pid_long EXCEPT ![p] = pidFile]
  /\ Goto(p, "kill")
  /\ UNCHANGED <<pidFile, orphans, kills>>

\* The file is opened and read.  A file that is blank, or gone since the
\* stat, yields the empty string, which convert_long rejects: main returns 2.
ReadPidFile(p) ==
  /\ pc[p] = "read"
  /\ \/ /\ pidFile \in Pids
        /\ pid_long' = [pid_long EXCEPT ![p] = pidFile]
        /\ Goto(p, "kill")
     \/ /\ pidFile \notin Pids
        /\ Exit(p)
        /\ UNCHANGED pid_long
  /\ UNCHANGED <<pidFile, orphans, kills>>

\* A bug: the answer of kill is read the wrong way round.
ProbeOwnerInverted(p) ==
  /\ pc[p] = "kill"
  /\ Goto(p, IF Alive(pid_long[p]) THEN "truncate" ELSE "none")
  /\ UNCHANGED <<pidFile, pid_long, orphans, kills>>

\* A bug: any pid in the file counts as a live owner.
ProbeOwnerAlwaysAlive(p) ==
  /\ pc[p] = "kill"
  /\ Exit(p)
  /\ UNCHANGED <<pidFile, pid_long, orphans, kills>>

\* kill(pid, 0): any live process with the id answers, this one included;
\* then main returns 2.
ProbeOwner(p) ==
  /\ pc[p] = "kill"
  /\ Goto(p, IF Alive(pid_long[p]) THEN "none" ELSE "truncate")
  /\ UNCHANGED <<pidFile, pid_long, orphans, kills>>

\* Opening with ios::trunc creates the file or empties it.
TruncatePidFile(p) ==
  /\ pc[p] = "truncate"
  /\ pidFile' = Blank
  /\ orphans' = orphans \ {p}
  /\ Goto(p, "write")
  /\ UNCHANGED <<pid_long, kills>>

\* endl flushes the pid.  Through the descriptor of a removed file it reaches
\* nobody; of two writers the later one is read back first.
WritePidFile(p) ==
  /\ pc[p] = "write"
  /\ pidFile' = IF p \in orphans THEN pidFile ELSE p
  /\ Goto(p, "work")
  /\ UNCHANGED <<pid_long, orphans, kills>>

----------------------------------------------------------------------------
(* main, after the check.                                                  *)

\* The ends of main that leave the PID file behind: wrong arguments, a version
\* or discovery run, no data from the inverter, no value read.
EndWithoutRemove(p) ==
  /\ pc[p] = "work"
  /\ Exit(p)
  /\ UNCHANGED <<pidFile, pid_long, orphans, kills>>

\* A complete collection calls remove_pid_file.
EndCollection(p) ==
  /\ pc[p] = "work"
  /\ Goto(p, "statRemove")
  /\ UNCHANGED <<pidFile, pid_long, orphans, kills>>

StatRemove(p) ==
  /\ pc[p] = "statRemove"
  /\ Goto(p, IF pidFile = Absent THEN "none" ELSE "remove")
  /\ UNCHANGED <<pidFile, pid_long, orphans, kills>>

RemovePidFile(p) ==
  /\ pc[p] = "remove"
  /\ pidFile' = Absent
  /\ orphans' = orphans \cup {q \in Pids : pc[q] = "write"}
  /\ Exit(p)
  /\ UNCHANGED <<pid_long, kills>>

----------------------------------------------------------------------------
Check(p) ==
  \/ StatPidFile(p)
  \/ ReadPidFile(p)
  \/ ProbeOwner(p)
  \/ TruncatePidFile(p)
  \/ WritePidFile(p)

Work(p) ==
  \/ EndWithoutRemove(p)
  \/ EndCollection(p)
  \/ StatRemove(p)
  \/ RemovePidFile(p)

Environment(p) ==
  \/ Launch(p)
  \/ ForeignStart(p)
  \/ ForeignEnd(p)
  \/ KillInstance(p)

Next == \E p \in Pids : Environment(p) \/ Check(p) \/ Work(p)

Spec == Init /\ [][Next]_vars

\* The kernel runs every live instance, and the scheduler keeps starting the
\* program, in the long run with every process id that is free.
Fairness ==
  \A p \in Pids : WF_vars(Check(p)) /\ WF_vars(Work(p)) /\ SF_vars(Launch(p))

FairSpec == Spec /\ Fairness

----------------------------------------------------------------------------
\* At most one instance is past the guard: "If one is found, it checks if the
\* process is alive and exits if so" (the comment of check_pid_file).
MutualExclusion ==
  \A p, q \in Pids : pc[p] \in Working /\ pc[q] \in Working => p = q

\* The PID file names the instance that works, from the moment check_pid_file
\* let it pass until it removes the file, so that a later start finds it.
WorkerRecorded ==
  \A p \in Pids : pc[p] \in Working => pidFile = p

\* Stale PID files never lock the program out for good, unless one was left
\* blank or unrelated programs keep taking the process ids in them.
KeepsCollectingOtherwise ==
  \/ []<>(\E p \in Pids : pc[p] = "work")
  \/ <>[](pidFile = Blank)
  \/ []<>(\E p \in Pids : pc[p] = "foreign")

\* A PID file that an earlier instance left behind never locks the program
\* out for good: "Otherwise, it will (re)write the PID file".
KeepsCollecting == []<>(\E p \in Pids : pc[p] = "work")

=============================================================================
