----------------------------- MODULE Collector -----------------------------
(***************************************************************************)
(* Whole runs of the program, one after the other: main, from the command  *)
(* line to the row in the log directory of the inverter.  The PID-file     *)
(* guard (PidFile), the conversation (Session) and the files of one        *)
(* directory (LogFiles) are taken for what those modules show of them: a   *)
(* run that starts while another lives is turned away, a poll brings the   *)
(* values of some of the queries, and a row is appended.                   *)
(***************************************************************************)
EXTENDS Arguments, Readings

CONSTANTS
  CommandLines,  \* what the scheduler may start the program with
  PathOf(_),     \* a directory as named by a word: absolute or not, its parts
  Inverters,     \* addresses at which there is an inverter
  NameOf,        \* the Bluetooth name of each inverter, "SN" a part of its own
  Polls,         \* what polls of each inverter may bring, <<>> among it
  Foreign,       \* directories that other programs may make
  MaxRuns        \* bound on the runs

SN == "SN"

\* A bug: the serial number is looked for behind the first "SN", as far as the next.
SerialOfFirst(name) ==
  LET marks == {i \in DOMAIN name : name[i] = SN}
      first == CHOOSE i \in marks : \A j \in marks : i <= j
      ends == {i \in first + 1 .. Len(name) + 1 : i = Len(name) + 1 \/ name[i] = SN}
  IN  IF marks = {} THEN <<>>
      ELSE SubSeq(name, first + 1, (CHOOSE i \in ends : \A j \in ends : i <= j) - 1)

\* get_serial: what follows the last "SN"; nothing, if there is none.
SerialOf(name) ==
  LET marks == {i \in DOMAIN name : name[i] = SN}
  IN  IF marks = {} THEN <<>>
      ELSE SubSeq(name, (CHOOSE i \in marks : \A j \in marks : j <= i) + 1, Len(name))

\* The words that may name a log directory.
Words == {DefaultDirectory} \cup UNION {{a[i] : i \in DOMAIN a} : a \in CommandLines}

ASSUME ConstantsAssumption ==
  /\ \A a \in CommandLines : a \in Seq(STRING)
  /\ \A word \in Words : PathOf(word) \in [absolute : BOOLEAN, parts : Seq(STRING)]
  /\ NoAddress \notin Inverters
  /\ Foreign \subseteq Seq(STRING) \ {<<>>}
  /\ \A i \in Inverters : <<>> \in Polls[i]
  /\ MaxRuns \in Nat

\* The name of an inverter ends with "SN" and a serial number of its own.
ASSUME NamesAssumption ==
  /\ NameOf \in [Inverters -> Seq(STRING)]
  /\ \A i \in Inverters :
       LET n == Len(NameOf[i]) IN n > 1 /\ NameOf[i][n - 1] = SN /\ NameOf[i][n] # SN
  /\ \A i, j \in Inverters :
       NameOf[i][Len(NameOf[i])] = NameOf[j][Len(NameOf[j])] => i = j

\* A poll works off every query once and keeps each of its values at most once
\* (ImplementsPoll of Session), and the table names every value once.
ASSUME PollsAssumption ==
  \A i \in Inverters : \A poll \in Polls[i] :
    /\ poll \in Seq([name : STRING, scale : 1 .. 1000, raw : Nat])
    /\ \A j, k \in DOMAIN poll : poll[j].name = poll[k].name => j = k

VARIABLES
  pc,            \* where the run is; "idle" between runs
  argv,          \* its command line
  optind,        \* the word that getopt looks at next
  options,       \* the members of class arguments
  device_name,   \* what get_bt_name found
  target,        \* the directory that create_directory is to make
  walked,        \* how many parts of it are there
  failed,        \* create_directory has returned false in this run
  data_vector,   \* what the poll brought
  dirs,          \* directories on the disk
  rows,          \* rows in the log files
  runs           \* runs so far

run == <<argv, optind, options, device_name, data_vector>>
walk == <<target, walked, failed>>
disk == <<dirs, rows>>
vars == <<pc, run, walk, disk, runs>>

Initializing == {"check", "mkdir"}
Logging == {"checkLog", "mkdirLog"}
Going == Logging \cup {"name", "poll", "hung", "process", "log"}
Working == {"arguments"} \cup Initializing \cup Going

Path(word) == PathOf(word).parts
SerialNumber == SerialOf(device_name)

TypeOK ==
  /\ pc \in Working \cup {"idle"}
  /\ argv \in CommandLines \cup {<<>>}
  /\ optind \in 1 .. Len(argv) + 1
  /\ options.state \in {"scanning", "over", "version", "usage"}
  /\ target \in Seq(STRING)
  /\ walked \in 0 .. Len(target)
  /\ failed \in BOOLEAN
  /\ \A d \in dirs : d \in Seq(STRING)
  /\ runs \in 0 .. MaxRuns

Init ==
  /\ pc = "idle"
  /\ argv = <<>>
  /\ optind = 1
  /\ options = Defaults
  /\ device_name = <<>>
  /\ target = <<>> /\ walked = 0 /\ failed = FALSE
  /\ data_vector = <<>>
  /\ dirs = {<<>>}
  /\ rows = {}
  /\ runs = 0

----------------------------------------------------------------------------
(* The start of a run, and arguments::initialize.                          *)

Launch ==
  /\ pc = "idle" /\ runs < MaxRuns
  /\ argv' \in CommandLines
  /\ runs' = runs + 1
  /\ pc' = "arguments"
  /\ UNCHANGED <<optind, options, device_name, data_vector, walk, disk>>

\* What a run knows ends with it.
End ==
  /\ pc' = "idle"
  /\ argv' = <<>> /\ optind' = 1 /\ options' = Defaults
  /\ device_name' = <<>> /\ data_vector' = <<>>
  /\ target' = <<>> /\ walked' = 0 /\ failed' = FALSE
  /\ UNCHANGED runs

\* While a run lives, hung or not, check_pid_file turns every other away.
TurnedAway ==
  /\ pc # "idle" /\ runs < MaxRuns
  /\ runs' = runs + 1
  /\ UNCHANGED <<pc, run, walk, disk>>

\* One word is scanned.
ScanWord ==
  /\ pc = "arguments" /\ options.state = "scanning"
  /\ optind <= Len(argv)
  /\ options' = Scanned(options, argv[optind])
  /\ optind' = optind + 1
  /\ UNCHANGED <<pc, argv, device_name, data_vector, walk, disk, runs>>

ScanOver ==
  options.state = "over" \/ (options.state = "scanning" /\ optind > Len(argv))

\* -v, an unknown option or an option without its argument: the program ends
\* at once.
EndAtOptions ==
  /\ pc = "arguments"
  /\ options.state \in {"version", "usage"} \/ (ScanOver /\ options.pending # "")
  /\ End /\ UNCHANGED disk

\* A bug: the parents of the directory are not looked after.
StartWalkAtEnd(path) ==
  /\ target' = path
  /\ walked' = IF path = <<>> THEN 0 ELSE Len(path) - 1

\* create_directory takes the path apart from its root on.
StartWalk(path) ==
  /\ target' = path
  /\ walked' = 0

\* The log directory is made even if the arguments have errors.  A path that
\* does not start with "/" is refused.
MakeLogDirectory ==
  /\ pc = "arguments" /\ ScanOver /\ options.pending = ""
  /\ LET path == PathOf(options.log_directory)
     IN  /\ IF path.absolute THEN StartWalk(path.parts) ELSE StartWalk(<<>>)
         /\ failed' = ~path.absolute
  /\ pc' = "check"
  /\ UNCHANGED <<run, disk, runs>>

----------------------------------------------------------------------------
(* create_directory.                                                       *)

Prefix(n) == SubSeq(target, 1, n)

\* A bug: the walk counts a part that is there twice.
CheckDirectoryTwice ==
  /\ pc \in {"check", "checkLog"}
  /\ walked < Len(target) /\ ~failed
  /\ IF Prefix(walked + 1) \in dirs
       THEN walked' = walked + 2 /\ UNCHANGED pc
       ELSE pc' = (IF pc = "check" THEN "mkdir" ELSE "mkdirLog") /\ UNCHANGED walked
  /\ UNCHANGED <<run, target, failed, disk, runs>>

\* check_directory, for the next part of the path.
CheckDirectory ==
  /\ pc \in {"check", "checkLog"}
  /\ walked < Len(target) /\ ~failed
  /\ IF Prefix(walked + 1) \in dirs
       THEN walked' = walked + 1 /\ UNCHANGED pc
       ELSE pc' = (IF pc = "check" THEN "mkdir" ELSE "mkdirLog") /\ UNCHANGED walked
  /\ UNCHANGED <<run, target, failed, disk, runs>>

\* mkdir makes a directory that is not there and whose parent is.  It fails
\* otherwise, and may fail then too: no permission, no space, a file of that name.
MakeDirectory ==
  /\ pc \in {"mkdir", "mkdirLog"}
  /\ \/ /\ Prefix(walked + 1) \notin dirs /\ Prefix(walked) \in dirs
        /\ dirs' = dirs \cup {Prefix(walked + 1)}
        /\ walked' = walked + 1
        /\ UNCHANGED failed
     \/ failed' = TRUE /\ UNCHANGED <<dirs, walked>>
  /\ pc' = IF pc = "mkdir" THEN "check" ELSE "checkLog"
  /\ UNCHANGED <<run, target, rows, runs>>

WalkOver == walked = Len(target) \/ failed

\* initialize returns 1, and main 3.
EndWithUsage ==
  /\ pc = "check" /\ WalkOver
  /\ failed \/ ArgumentError(options)
  /\ End /\ UNCHANGED disk

----------------------------------------------------------------------------
(* main.                                                                   *)

Ready == pc = "check" /\ WalkOver /\ ~failed /\ ~ArgumentError(options)

\* get_bt_name prints what devices there are.
EndDiscovery ==
  /\ Ready /\ options.discovery
  /\ End /\ UNCHANGED disk

Proceed ==
  /\ Ready /\ ~options.discovery
  /\ pc' = "name"
  /\ UNCHANGED <<run, walk, disk, runs>>

\* The name may not be found: the inverter is out of reach, or there is no
\* adapter.  Either way the run goes on, with a name that has no "SN" in it.
GetName ==
  /\ pc = "name"
  /\ device_name' \in {<<>>} \cup
       {NameOf[i] : i \in Inverters \cap {options.address}}
  /\ pc' = "poll"
  /\ UNCHANGED <<argv, optind, options, data_vector, walk, disk, runs>>

\* The four calls from in_bluetooth_connect to in_smadata2plus_get_values.
Poll ==
  /\ pc = "poll"
  /\ options.address \in Inverters
  /\ data_vector' \in Polls[options.address]
  /\ pc' = "process"
  /\ UNCHANGED <<argv, optind, options, device_name, walk, disk, runs>>

\* "No data within 2 seconds".
PollTimeout ==
  /\ pc = "poll"
  /\ End /\ UNCHANGED disk

\* The connection fails or breaks, and get_byte reads from it over and over; or
\* the inverter repeats its hello, and every one of them restarts the wait.
PollLinkLost ==
  /\ pc = "poll"
  /\ pc' = "hung"
  /\ UNCHANGED <<run, walk, disk, runs>>

\* A bug: without a value the inverter is asked again.
EndWithoutLineRetries ==
  /\ pc = "process" /\ Line(data_vector) = <<>>
  /\ pc' = "poll"
  /\ UNCHANGED <<run, walk, disk, runs>>

\* "ERROR: invalid read".
EndWithoutLine ==
  /\ pc = "process" /\ Line(data_vector) = <<>>
  /\ End /\ UNCHANGED disk

\* The directory of the inverter: the log directory itself without a serial
\* number.
FullDir == Path(options.log_directory) \o SerialNumber

\* A bug: the directory that is looked for is the one all rows go below.
StartLogInRoot ==
  /\ pc = "process" /\ Line(data_vector) # <<>>
  /\ IF Path(options.log_directory) \in dirs
       THEN pc' = "log" /\ UNCHANGED walk
       ELSE pc' = "checkLog" /\ StartWalk(FullDir) /\ UNCHANGED failed
  /\ UNCHANGED <<run, disk, runs>>

\* log_line looks for the directory with stat and makes it if it is not there.
StartLog ==
  /\ pc = "process" /\ Line(data_vector) # <<>>
  /\ IF FullDir \in dirs
       THEN pc' = "log" /\ UNCHANGED walk
       ELSE pc' = "checkLog" /\ StartWalk(FullDir) /\ UNCHANGED failed
  /\ UNCHANGED <<run, disk, runs>>

\* log_line returns 2, which main ignores.
EndWithoutLog ==
  /\ pc = "checkLog" /\ failed
  /\ End /\ UNCHANGED disk

EndWalk ==
  /\ pc = "checkLog" /\ walked = Len(target) /\ ~failed
  /\ pc' = "log"
  /\ UNCHANGED <<run, walk, disk, runs>>

\* The row, and with it where it comes from and how it came to be.
Row ==
  [dir |-> FullDir, header |-> Header(data_vector), line |-> Line(data_vector),
   inverter |-> options.address, argv |-> argv, named |-> device_name # <<>>]

\* The rest of log_line, and remove_pid_file.
Log ==
  /\ pc = "log"
  /\ rows' = rows \cup {Row}
  /\ End /\ UNCHANGED dirs

Main ==
  \/ ScanWord \/ EndAtOptions \/ MakeLogDirectory \/ CheckDirectory \/ MakeDirectory
  \/ EndWithUsage \/ EndDiscovery \/ Proceed \/ GetName
  \/ Poll \/ PollTimeout \/ PollLinkLost
  \/ EndWithoutLine \/ StartLog \/ EndWithoutLog \/ EndWalk \/ Log

----------------------------------------------------------------------------
(* The world around the program.                                           *)

\* Another program makes a directory; its parent has to be there.
OtherMakesDirectory ==
  /\ \E d \in Foreign \ dirs :
       /\ SubSeq(d, 1, Len(d) - 1) \in dirs
       /\ dirs' = dirs \cup {d}
  /\ UNCHANGED <<pc, run, walk, rows, runs>>

\* The run is killed, a hung one for example.
Kill ==
  /\ pc # "idle"
  /\ End /\ UNCHANGED disk

Ended == pc \in {"idle", "hung"} /\ runs = MaxRuns /\ UNCHANGED vars

Next == Launch \/ TurnedAway \/ Main \/ OtherMakesDirectory \/ Kill \/ Ended

Spec == Init /\ [][Next]_vars

\* The program runs on, except where it hangs.
FairSpec == Spec /\ WF_vars(Main)

----------------------------------------------------------------------------
\* "Log the line based on the inverter serial number" (main.cpp): of rows that
\* stand in the same directory, those whose inverter could be asked for its
\* name come from one inverter.
RowsInPlace ==
  \A r, s \in rows :
    r.dir = s.dir /\ r.named /\ s.named => r.inverter = s.inverter

\* The places of a command line where getopt looks for an option: all but those
\* behind an option that takes the next word for its argument.
Places(words) ==
  LET upTo[n \in 0 .. Len(words)] ==
        IF n = 0 THEN {}
        ELSE LET before == upTo[n - 1]
             IN  IF n - 1 \in before /\ words[n - 1] \in WithArgument THEN before
                 ELSE before \cup {n}
  IN  upTo[Len(words)]

\* Those of them that it gets to: nothing behind "--" is an option.
Looked(words) ==
  {i \in Places(words) : \A j \in Places(words) : words[j] = Terminator => i <= j}

\* The word behind the last of several options of the same letter.
LastBehind(words, places, option, default) ==
  LET marks == {i \in places : words[i] = option}
  IN  IF marks = {} THEN default
      ELSE words[(CHOOSE i \in marks : \A j \in marks : j <= i) + 1]

\* A row is logged only by a run that was told to (the getopt loop of
\* arguments::initialize and the checks behind it): its inverter is the one
\* behind the last -b, its directory lies in the one behind the last -l, which
\* is absolute, the number behind the last -d is a level, and no option asked
\* for something else or is unknown.
AsTold(r) ==
  LET places == Looked(r.argv)
      root == PathOf(LastBehind(r.argv, places, "-l", DefaultDirectory))
  IN  /\ r.inverter = LastBehind(r.argv, places, "-b", NoAddress)
      /\ root.absolute /\ SubSeq(r.dir, 1, Len(root.parts)) = root.parts
      /\ DebugOf(LastBehind(r.argv, places, "-d", "0")) \in 0 .. 4
      /\ \A i \in places : r.argv[i] \in Dashed => r.argv[i] \in WithArgument \cup {Terminator}

RowsAsTold == \A r \in rows : AsTold(r)

\* "-p (optional) sets the inverter password", "-d (optional) if specified, debug
\* will be turned on" (the comment over the getopt loop, and the readme, which has
\* -c too): no option that they list is refused as unknown, nor -d for want of an
\* argument.
DocumentedOptions == WithArgument \cup Flags \cup {"-p", "-c"}
DocumentedOptionsTaken ==
  /\ options.state = "usage" =>
       \E i \in Looked(argv) : i < optind /\ argv[i] \in Dashed \ DocumentedOptions
  /\ ScanOver => options.pending # "-d"

\* Header and row agree: under a heading stands one value and no more, and no
\* value stands under a blank heading.
RowsAligned ==
  \A r \in rows :
    /\ DOMAIN r.header = DOMAIN Columns /\ DOMAIN r.line = DOMAIN Columns
    /\ \A c \in DOMAIN Columns :
         Len(r.line[c]) = IF r.header[c] = "" THEN 0 ELSE 1

\* "it means it is max as FFFF. Set to 0 But only for voltage or current": a
\* value of three bytes 0xFF, which stands for none, is logged as 0 there.
NONE == 16777215
NoneReadsZero ==
  \A r \in rows : \A c \in DOMAIN Columns :
    Columns[c].limited => \A i \in DOMAIN r.line[c] : r.line[c][i] # NONE

\* "Create a directory, including all parent paths if they don't exist": when
\* create_directory gives up on an absolute path, it is never for want of a
\* parent, and a run that gets past the arguments has its log directory,
\* whatever mkdir fails for and whatever other programs make meanwhile.
DirectoriesInOrder ==
  /\ failed => ~PathOf(options.log_directory).absolute \/ Prefix(walked) \in dirs
  /\ pc \in Going => Path(options.log_directory) \in dirs

\* log_line: whatever options and names lead to it, and whatever directories
\* are there already, the directory of a row has been made with its parents.
RowsHaveDirectories ==
  \A r \in rows : \A n \in 0 .. Len(r.dir) : SubSeq(r.dir, 1, n) \in dirs

\* Every run ends by itself, unless it hangs at a broken link; then it keeps
\* all others away until it is killed.
EndsOrHangs == pc # "idle" ~> pc \in {"idle", "hung"}

=============================================================================
