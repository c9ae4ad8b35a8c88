------------------------------ MODULE LogFiles ------------------------------
(***************************************************************************)
(* The CSV files of one inverter: log_line of utils.cpp, with the time     *)
(* stamp and the file name that main and process_data give it.  One run of *)
(* the collector logs one row; one action is one system call, so that a    *)
(* kill or midnight may fall between any two.                              *)
(***************************************************************************)
EXTENDS Integers, Sequences

CONSTANTS
  MaxDay,      \* bound on the days that pass
  MaxRuns,     \* bound on the runs that log a row
  Columns,     \* the columns a row may have values for
  Readings,    \* sets of columns that a poll may have brought values for
  Absent,      \* "no such file"
  MaxFaults    \* bound on runs killed or failing to open a file, and on clocks set back

\* Files: one for each day, latest.csv and latest.csv.OLD.
Days == 1 .. MaxDay
Latest == 0
Old == -1
Names == Days \cup {Latest, Old}

ASSUME ConstantsAssumption ==
  /\ MaxDay \in Nat \ {0} /\ MaxRuns \in Nat /\ MaxFaults \in Nat
  /\ Readings \subseteq SUBSET Columns
  /\ {} \notin Readings

VARIABLES
  day,           \* today
  pc,            \* where the run is; "idle" between runs
  run,           \* number of the run
  reading,       \* the columns its row has values for
  stamp,         \* the time stamp of its row: when each half was taken
  filename,      \* the day its file is named after, 0 before the first run
  rotate, write_header,
  directory,     \* the log directory exists
  files,         \* contents of every file
  faults         \* runs killed or failed to open a file, and clocks set back

locals == <<run, reading, stamp, filename>>
flags == <<rotate, write_header>>
vars == <<day, pc, locals, flags, directory, files, faults>>

\* The lines of a file: both carry the columns they have, a header of run 0.
Header(cols) == [columns |-> cols, run |-> 0, date |-> 0, time |-> 0]
Row == [columns |-> reading, run |-> run, date |-> stamp.date, time |-> stamp.time]
IsHeader(entry) == entry.run = 0

Entries == [columns : SUBSET Columns, run : 0 .. MaxRuns,
            date : 0 .. MaxDay, time : 0 .. MaxDay]

ASSUME AbsentAssumption == Absent \notin Seq(Entries)

Steps == {"time", "date", "name", "directory", "stat", "open", "header", "line",
          "rename", "openLatest", "headerLatest", "lineLatest"}

TypeOK ==
  /\ day \in Days
  /\ pc \in Steps \cup {"idle"}
  /\ run \in 0 .. MaxRuns
  /\ reading \in SUBSET Columns
  /\ stamp \in [date : 0 .. MaxDay, time : 0 .. MaxDay]
  /\ filename \in 0 .. MaxDay
  /\ rotate \in BOOLEAN /\ write_header \in BOOLEAN
  /\ directory \in BOOLEAN
  /\ files \in [Names -> Seq(Entries) \cup {Absent}]
  /\ faults \in 0 .. MaxFaults

Init ==
  /\ day = 1
  /\ pc = "idle"
  /\ run = 0
  /\ reading = {}
  /\ stamp = [date |-> 0, time |-> 0]
  /\ filename = 0
  /\ rotate = FALSE /\ write_header = FALSE
  /\ directory = FALSE
  /\ files = [n \in Names |-> Absent]
  /\ faults = 0

Goto(from, to) == pc = from /\ pc' = to

----------------------------------------------------------------------------
(* process_data and main.                                                  *)

\* A poll has brought values; without any, main exits before it logs.
StartRun ==
  /\ Goto("idle", "time")
  /\ run < MaxRuns
  /\ run' = run + 1
  /\ reading' \in Readings
  /\ UNCHANGED <<day, stamp, filename, flags, directory, files, faults>>

\* get_current_datetime takes the time of day first and the date after it.
SampleTime ==
  /\ Goto("time", "date")
  /\ stamp' = [stamp EXCEPT !.time = day]
  /\ UNCHANGED <<day, run, reading, filename, flags, directory, files, faults>>

\* A bug: the number of the day counts from the wrong end of the interval.
SampleDateOffByOne ==
  /\ Goto("date", "name")
  /\ stamp' = [stamp EXCEPT !.date = day + 1]
  /\ UNCHANGED <<day, run, reading, filename, flags, directory, files, faults>>

SampleDate ==
  /\ Goto("date", "name")
  /\ stamp' = [stamp EXCEPT !.date = day]
  /\ UNCHANGED <<day, run, reading, filename, flags, directory, files, faults>>

\* main names the file after the date at yet another moment.
NameFile ==
  /\ Goto("name", "directory")
  /\ filename' = day
  /\ UNCHANGED <<day, run, reading, stamp, flags, directory, files, faults>>

----------------------------------------------------------------------------
(* log_line.                                                               *)

\* A return with an error, which main ignores.
FailsToOpen(from) ==
  /\ Goto(from, "idle")
  /\ from = "directory" => ~directory
  /\ faults < MaxFaults
  /\ faults' = faults + 1
  /\ UNCHANGED <<day, locals, flags, directory, files>>

StatDirectory ==
  /\ Goto("directory", "stat")
  /\ rotate' = ~directory
  /\ directory' = TRUE
  /\ UNCHANGED <<day, locals, write_header, files, faults>>

\* A bug: a missing file of the day does not call for a rotation.
StatFileNoRotate ==
  /\ Goto("stat", "open")
  /\ write_header' = (files[filename] = Absent)
  /\ UNCHANGED <<day, locals, rotate, directory, files, faults>>

StatFile ==
  /\ Goto("stat", "open")
  /\ write_header' = (files[filename] = Absent)
  /\ rotate' = (rotate \/ files[filename] = Absent)
  /\ UNCHANGED <<day, locals, directory, files, faults>>

\* A bug: the file is opened without ios::app, which empties it.
OpenedTruncated(name) == files' = [files EXCEPT ![name] = <<>>]

\* ofstream with ios::app creates a file that is not there.
Opened(name) ==
  files' = [files EXCEPT ![name] = IF @ = Absent THEN <<>> ELSE @]

Write(name, entry) == files' = [files EXCEPT ![name] = Append(@, entry)]

OpenDated ==
  /\ Goto("open", IF write_header THEN "header" ELSE "line")
  /\ Opened(filename)
  /\ UNCHANGED <<day, locals, flags, directory, faults>>

WriteHeader ==
  /\ Goto("header", "line")
  /\ Write(filename, Header(reading))
  /\ UNCHANGED <<day, locals, flags, directory, faults>>

\* A bug: a row that needs a rotation is left for latest.csv to log.
WriteLineUnlessRotating ==
  /\ Goto("line", IF rotate THEN "rename" ELSE "openLatest")
  /\ IF rotate THEN UNCHANGED files ELSE Write(filename, Row)
  /\ write_header' = FALSE
  /\ UNCHANGED <<day, locals, rotate, directory, faults>>

\* A bug: latest.csv is rotated with every row.
WriteLineAlwaysRotates ==
  /\ Goto("line", "rename")
  /\ Write(filename, Row)
  /\ write_header' = FALSE
  /\ UNCHANGED <<day, locals, rotate, directory, faults>>

WriteLine ==
  /\ Goto("line", IF rotate THEN "rename" ELSE "openLatest")
  /\ Write(filename, Row)
  /\ write_header' = FALSE
  /\ UNCHANGED <<day, locals, rotate, directory, faults>>

\* A bug: latest.csv is renamed, but the header is not asked for.
RenameLatestNoHeader ==
  /\ Goto("rename", "openLatest")
  /\ files' = IF files[Latest] = Absent THEN files
              ELSE [files EXCEPT ![Old] = files[Latest], ![Latest] = Absent]
  /\ UNCHANGED <<day, locals, flags, directory, faults>>

\* rename fails without a latest.csv, which nobody looks at.
RenameLatest ==
  /\ Goto("rename", "openLatest")
  /\ files' = IF files[Latest] = Absent THEN files
              ELSE [files EXCEPT ![Old] = files[Latest], ![Latest] = Absent]
  /\ write_header' = TRUE
  /\ UNCHANGED <<day, locals, rotate, directory, faults>>

OpenLatest ==
  /\ Goto("openLatest", IF write_header THEN "headerLatest" ELSE "lineLatest")
  /\ Opened(Latest)
  /\ UNCHANGED <<day, locals, flags, directory, faults>>

WriteLatestHeader ==
  /\ Goto("headerLatest", "lineLatest")
  /\ Write(Latest, Header(reading))
  /\ UNCHANGED <<day, locals, flags, directory, faults>>

WriteLatestLine ==
  /\ Goto("lineLatest", "idle")
  /\ Write(Latest, Row)
  /\ UNCHANGED <<day, locals, flags, directory, faults>>

----------------------------------------------------------------------------
(* The world around the program.                                           *)

Midnight ==
  /\ day < MaxDay
  /\ day' = day + 1
  /\ UNCHANGED <<pc, locals, flags, directory, files, faults>>

\* The clock is set back to the day before, perhaps one that has a file.
ClockSetBack ==
  /\ day > 1 /\ faults < MaxFaults
  /\ day' = day - 1
  /\ faults' = faults + 1
  /\ UNCHANGED <<pc, locals, flags, directory, files>>

\* The run is killed; what it has written stays.
Crash ==
  /\ pc # "idle" /\ faults < MaxFaults
  /\ pc' = "idle"
  /\ faults' = faults + 1
  /\ UNCHANGED <<day, locals, flags, directory, files>>

Ended == pc = "idle" /\ run = MaxRuns /\ UNCHANGED vars

Next ==
  \/ StartRun \/ SampleTime \/ SampleDate \/ NameFile
  \/ StatDirectory \/ StatFile \/ OpenDated \/ WriteHeader \/ WriteLine
  \/ RenameLatest \/ OpenLatest \/ WriteLatestHeader \/ WriteLatestLine
  \/ \E from \in {"directory", "open", "openLatest"} : FailsToOpen(from)
  \/ Midnight \/ ClockSetBack \/ Crash \/ Ended

Spec == Init /\ [][Next]_vars

----------------------------------------------------------------------------
\* Between undisturbed runs latest.csv is a copy of the file of the day last
\* logged: log_line writes the same lines to both.
LatestMirrorsDated ==
  faults = 0 /\ pc = "idle" /\ filename # 0 => files[Latest] = files[filename]

\* ... and latest.csv.OLD is the whole file of the last day before that one on which
\* anything was logged.
OldIsPreviousDay ==
  faults = 0 /\ pc = "idle" /\ files[Old] # Absent =>
    \E d \in 1 .. filename - 1 :
      /\ files[d] = files[Old]
      /\ \A e \in d + 1 .. filename - 1 : files[e] = Absent

\* "a header entry (as the first line)": undisturbed runs leave every
\* file with a header in front and no other.
HeaderFirstIn(name) ==
  files[name] # Absent =>
    \A i \in DOMAIN files[name] : IsHeader(files[name][i]) <=> i = 1

HeaderFirst == faults = 0 => \A n \in Names : HeaderFirstIn(n)

\* Every row to be captured from latest.csv, or left in latest.csv.OLD, is
\* also in the file of a day, which nothing ever renames or replaces.
RowsIn(contents) ==
  IF contents = Absent THEN {}
  ELSE {contents[i] : i \in {j \in DOMAIN contents : ~IsHeader(contents[j])}}

Rows(name) == RowsIn(files[name])

LatestWithinDated ==
  Rows(Latest) \cup Rows(Old) \subseteq UNION {Rows(d) : d \in Days}

\* A row that has been written to the file of a day stays there, in its place.
DatedOnlyGrow ==
  [][\A d \in Days :
       files[d] # Absent =>
         /\ files'[d] # Absent
         /\ Len(files'[d]) >= Len(files[d])
         /\ SubSeq(files'[d], 1, Len(files[d])) = files[d]]_vars

\* "a header entry (as the first line) that describes the CSV elements of the
\* file" (the readme, of latest.csv): it is there, whatever happens, and no row
\* has a value in a column that it leaves blank.
LatestDescribed ==
  /\ HeaderFirstIn(Latest)
  /\ files[Latest] # Absent =>
       \A i \in DOMAIN files[Latest] :
         files[Latest][i].columns \subseteq files[Latest][1].columns

=============================================================================
