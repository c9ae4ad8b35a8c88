-------------------------- MODULE LogFilesProofs --------------------------
(***************************************************************************)
(* Proofs about LogFiles, for any number of days, runs and faults and any  *)
(* columns: type correctness, that a logged row is never lost from the     *)
(* file of its day, that latest.csv and its predecessor hold no other, and *)
(* what the files of undisturbed runs look like.                           *)
(***************************************************************************)
EXTENDS LogFiles, TLAPS, SequenceTheorems

\* From NameFile on the run has a file of a day.
Named == {"directory", "stat", "open", "header", "line",
          "rename", "openLatest", "headerLatest", "lineLatest"}

\* The file a run is about to write to has been opened, so it is there.
OpenedFirst ==
  /\ pc # "idle" => run # 0
  /\ pc \in Named => filename \in Days
  /\ pc \in {"header", "line"} => files[filename] # Absent
  /\ pc \in {"headerLatest", "lineLatest"} => files[Latest] # Absent

\* A run that has reached latest.csv has written its row to the file of the
\* day already.  Without this the line of latest.csv might be the only copy.
DatedFirst ==
  pc \in {"rename", "openLatest", "headerLatest", "lineLatest"} =>
    Row \in Rows(filename)

IInv == TypeOK /\ OpenedFirst

----------------------------------------------------------------------------
(* Lines and contents of files.                                            *)

\* The lines a run writes are lines of a file.
LEMMA LineTypes ==
  ASSUME TypeOK
  PROVE  Header(reading) \in Entries /\ Row \in Entries
BY ConstantsAssumption DEF TypeOK, Header, Row, Entries

\* A sequence of lines is not the mark of a missing file.
LEMMA ContentsPresent == \A contents \in Seq(Entries) : contents # Absent
BY AbsentAssumption

----------------------------------------------------------------------------
(* The inductive invariant.                                                *)

\* The initial state satisfies it.
LEMMA InitInv == Init => IInv
<1> SUFFICES ASSUME Init PROVE IInv
  OBVIOUS
<1>1. [n \in Names |-> Absent] \in [Names -> Seq(Entries) \cup {Absent}]
  OBVIOUS
<1>2. 1 \in Days /\ 0 \in 0 .. MaxDay /\ 0 \in 0 .. MaxRuns /\ 0 \in 0 .. MaxFaults
  BY ConstantsAssumption DEF Days
<1>3. TypeOK
  BY <1>1, <1>2 DEF Init, TypeOK
<1>4. OpenedFirst
  BY DEF Init, OpenedFirst, Named
<1> QED BY <1>3, <1>4 DEF IInv

\* Opening a file, and writing a line to an open one, keep the types and the
\* presence of every file.
LEMMA OpenedTypes ==
  ASSUME TypeOK, NEW name \in Names, Opened(name)
  PROVE  /\ files' \in [Names -> Seq(Entries) \cup {Absent}]
         /\ files'[name] # Absent
         /\ \A n \in Names : files[n] # Absent => files'[n] = files[n]
<1>1. files[name] \in Seq(Entries) \cup {Absent}
  BY DEF TypeOK
<1>2. (IF files[name] = Absent THEN <<>> ELSE files[name]) \in Seq(Entries)
  BY <1>1, EmptySeq
<1> QED BY <1>2, ContentsPresent DEF Opened, TypeOK

LEMMA WriteTypes ==
  ASSUME TypeOK, NEW name \in Names, NEW entry \in Entries,
         files[name] # Absent, Write(name, entry)
  PROVE  /\ files' \in [Names -> Seq(Entries) \cup {Absent}]
         /\ files[name] \in Seq(Entries)
         /\ files'[name] = Append(files[name], entry) /\ files'[name] # Absent
         /\ \A n \in Names : n # name => files'[n] = files[n]
<1>1. files[name] \in Seq(Entries)
  BY DEF TypeOK
<1>2. Append(files[name], entry) \in Seq(Entries)
  BY <1>1, AppendProperties
<1> QED BY <1>1, <1>2, ContentsPresent DEF Write, TypeOK

\* Every step preserves it.
LEMMA StepInv == IInv /\ [Next]_vars => IInv'
<1> SUFFICES ASSUME IInv, [Next]_vars PROVE IInv'
  OBVIOUS
<1> USE ConstantsAssumption DEF Goto
<1>0. TypeOK /\ OpenedFirst /\ Latest \in Names /\ Old \in Names /\ Days \subseteq Names
  BY DEF IInv, Names
<1>1. CASE StartRun
  BY <1>1 DEF StartRun, IInv, TypeOK, OpenedFirst, Named, Steps, flags
<1>2. CASE SampleTime \/ SampleDate
  <2>1. day \in 0 .. MaxDay
    BY <1>0 DEF TypeOK, Days
  <2> QED BY <1>2, <2>1
        DEF SampleTime, SampleDate, IInv, TypeOK, OpenedFirst, Named, Steps, flags
<1>3. CASE NameFile
  BY <1>3 DEF NameFile, IInv, TypeOK, OpenedFirst, Named, Steps, flags, Days
<1>4. CASE StatDirectory \/ StatFile
  BY <1>4 DEF StatDirectory, StatFile, IInv, TypeOK, OpenedFirst, Named, Steps, locals
<1>5. CASE OpenDated
  <2>1. filename \in Names /\ filename \in Days /\ pc = "open" /\ Opened(filename)
    BY <1>0, <1>5 DEF OpenDated, OpenedFirst, Named
  <2>2. /\ files' \in [Names -> Seq(Entries) \cup {Absent}]
        /\ files'[filename] # Absent
    BY <1>0, <2>1, OpenedTypes
  <2> QED BY <1>5, <2>1, <2>2
        DEF OpenDated, IInv, TypeOK, OpenedFirst, Named, Steps, locals, flags
<1>6. CASE WriteHeader
  <2>1. /\ filename \in Names /\ filename \in Days /\ pc = "header"
        /\ files[filename] # Absent /\ Write(filename, Header(reading))
    BY <1>0, <1>6 DEF WriteHeader, OpenedFirst, Named
  <2>2. /\ files' \in [Names -> Seq(Entries) \cup {Absent}]
        /\ files'[filename] # Absent
    BY <1>0, <2>1, LineTypes, WriteTypes
  <2> QED BY <1>6, <2>1, <2>2
        DEF WriteHeader, IInv, TypeOK, OpenedFirst, Named, Steps, locals, flags
<1>7. CASE WriteLine
  <2>1. /\ filename \in Names /\ filename \in Days /\ pc = "line"
        /\ files[filename] # Absent /\ Write(filename, Row)
    BY <1>0, <1>7 DEF WriteLine, OpenedFirst, Named
  <2>2. files' \in [Names -> Seq(Entries) \cup {Absent}]
    BY <1>0, <2>1, LineTypes, WriteTypes
  <2> QED BY <1>7, <2>1, <2>2
        DEF WriteLine, IInv, TypeOK, OpenedFirst, Named, Steps, locals
<1>8. CASE RenameLatest
  <2>1. files' \in [Names -> Seq(Entries) \cup {Absent}]
    BY <1>0, <1>8 DEF RenameLatest, TypeOK
  <2> QED BY <1>8, <2>1
        DEF RenameLatest, IInv, TypeOK, OpenedFirst, Named, Steps, locals
<1>9. CASE OpenLatest
  <2>1. /\ files' \in [Names -> Seq(Entries) \cup {Absent}]
        /\ files'[Latest] # Absent
    BY <1>0, <1>9, OpenedTypes DEF OpenLatest
  <2> QED BY <1>9, <2>1
        DEF OpenLatest, IInv, TypeOK, OpenedFirst, Named, Steps, locals, flags
<1>10. CASE WriteLatestHeader
  <2>1. pc = "headerLatest" /\ files[Latest] # Absent /\ Write(Latest, Header(reading))
    BY <1>0, <1>10 DEF WriteLatestHeader, OpenedFirst
  <2>2. /\ files' \in [Names -> Seq(Entries) \cup {Absent}]
        /\ files'[Latest] # Absent
    BY <1>0, <2>1, LineTypes, WriteTypes
  <2> QED BY <1>10, <2>1, <2>2
        DEF WriteLatestHeader, IInv, TypeOK, OpenedFirst, Named, Steps, locals, flags
<1>11. CASE WriteLatestLine
  <2>1. pc = "lineLatest" /\ files[Latest] # Absent /\ Write(Latest, Row)
    BY <1>0, <1>11 DEF WriteLatestLine, OpenedFirst
  <2>2. files' \in [Names -> Seq(Entries) \cup {Absent}]
    BY <1>0, <2>1, LineTypes, WriteTypes
  <2> QED BY <1>11, <2>1, <2>2
        DEF WriteLatestLine, IInv, TypeOK, OpenedFirst, Named, Steps, locals, flags
<1>12. CASE \E from \in {"directory", "open", "openLatest"} : FailsToOpen(from)
  BY <1>12 DEF FailsToOpen, IInv, TypeOK, OpenedFirst, Named, Steps, locals, flags
<1>13. CASE Midnight \/ ClockSetBack
  BY <1>13 DEF Midnight, ClockSetBack, IInv, TypeOK, OpenedFirst, Named, Steps,
               locals, flags, Days
<1>14. CASE Crash
  BY <1>14 DEF Crash, IInv, TypeOK, OpenedFirst, Named, Steps, locals, flags
<1>15. CASE Ended \/ UNCHANGED vars
  BY <1>15 DEF Ended, vars, IInv, TypeOK, OpenedFirst, locals, flags
<1> QED
  BY <1>1, <1>2, <1>3, <1>4, <1>5, <1>6, <1>7, <1>8, <1>9, <1>10, <1>11,
     <1>12, <1>13, <1>14, <1>15 DEF Next

\* Every run has its file open when it writes to it, whatever is killed or
\* fails, and the files hold nothing but lines.
THEOREM TypeCorrect == Spec => []TypeOK
<1>1. Spec => []IInv
  BY InitInv, StepInv, PTL DEF Spec
<1>2. IInv => TypeOK
  BY DEF IInv
<1> QED BY <1>1, <1>2, PTL

----------------------------------------------------------------------------
(* The files of the days only grow.                                        *)

\* What a file holds is where it was when the file has been added to.
Extends(after, before) ==
  /\ after # Absent
  /\ Len(after) >= Len(before)
  /\ SubSeq(after, 1, Len(before)) = before

LEMMA ExtendsItself ==
  ASSUME NEW contents \in Seq(Entries)
  PROVE  Extends(contents, contents)
<1>1. Len(contents) \in Nat
  BY LenProperties
<1> QED BY <1>1, SubSeqFull, ContentsPresent DEF Extends

LEMMA AppendExtends ==
  ASSUME NEW contents \in Seq(Entries), NEW entry \in Entries
  PROVE  Extends(Append(contents, entry), contents)
<1>1. /\ Append(contents, entry) \in Seq(Entries)
      /\ Len(Append(contents, entry)) = Len(contents) + 1
      /\ Len(contents) \in Nat
  BY AppendProperties, LenProperties
<1>2. SubSeq(Append(contents, entry), 1, Len(contents)) = contents
  <2>1. CASE contents = <<>>
    BY <2>1, SubSeqEmpty, EmptySeq
  <2>2. CASE contents # <<>>
    <3>1. 1 \in 1 .. Len(contents) /\ Len(contents) \in 1 .. Len(contents)
      BY <2>2, EmptySeq
    <3>2. /\ Append(contents, entry) = contents \o <<entry>>
          /\ <<entry>> \in Seq(Entries)
      BY AppendIsConcat
    <3>3. SubSeq(contents \o <<entry>>, 1, Len(contents))
            = SubSeq(contents, 1, Len(contents))
      BY <3>1, <3>2, SubSeqOfConcat1
    <3> QED BY <3>2, <3>3, SubSeqFull
  <2> QED BY <2>1, <2>2
<1> QED BY <1>1, <1>2, ContentsPresent DEF Extends

\* No step takes anything from the file of a day.
LEMMA StepExtends ==
  ASSUME IInv, [Next]_vars, NEW d \in Days, files[d] # Absent
  PROVE  Extends(files'[d], files[d])
<1> USE DEF Goto
<1>0. /\ TypeOK /\ OpenedFirst /\ d \in Names /\ d # Latest /\ d # Old
      /\ Latest \in Names /\ files[d] \in Seq(Entries)
  BY ConstantsAssumption DEF IInv, TypeOK, Names, Days, Latest, Old
<1>1. CASE files'[d] = files[d]
  BY <1>0, <1>1, ExtendsItself
<1>2. CASE \E entry \in Entries : Write(d, entry)
  <2>1. PICK entry \in Entries : files'[d] = Append(files[d], entry)
    BY <1>0, <1>2, WriteTypes
  <2> QED BY <1>0, <2>1, AppendExtends
<1>3. CASE OpenDated
  <2>1. filename \in Names /\ Opened(filename)
    BY <1>0, <1>3 DEF OpenDated, OpenedFirst, Named, Names
  <2> QED BY <1>0, <1>1, <2>1, OpenedTypes
<1>4. CASE WriteHeader \/ WriteLine
  <2>1. PICK entry \in Entries :
          filename \in Names /\ files[filename] # Absent /\ Write(filename, entry)
    BY <1>0, <1>4, LineTypes DEF WriteHeader, WriteLine, OpenedFirst, Named, Names
  <2>2. filename # d => files'[d] = files[d]
    BY <1>0, <2>1, WriteTypes
  <2> QED BY <1>1, <1>2, <2>1, <2>2
<1>5. CASE RenameLatest
  BY <1>0, <1>1, <1>5 DEF RenameLatest, TypeOK
<1>6. CASE OpenLatest
  BY <1>0, <1>1, <1>6, OpenedTypes DEF OpenLatest
<1>7. CASE WriteLatestHeader \/ WriteLatestLine
  <2>1. PICK entry \in Entries : files[Latest] # Absent /\ Write(Latest, entry)
    BY <1>0, <1>7, LineTypes DEF WriteLatestHeader, WriteLatestLine, OpenedFirst
  <2> QED BY <1>0, <1>1, <2>1, WriteTypes
<1>8. CASE UNCHANGED files
  BY <1>1, <1>8
<1> QED
  BY <1>3, <1>4, <1>5, <1>6, <1>7, <1>8
  DEF Next, StartRun, SampleTime, SampleDate, NameFile, StatDirectory, StatFile,
      FailsToOpen, Midnight, ClockSetBack, Crash, Ended, vars

\* A row in the file of a day is never renamed away, replaced, moved or
\* truncated, whatever log_line is disturbed by.
THEOREM RowsOfADayStay == Spec => DatedOnlyGrow
<1>1. Spec => []IInv
  BY InitInv, StepInv, PTL DEF Spec
<1>2. IInv /\ [Next]_vars =>
        [\A d \in Days :
           files[d] # Absent =>
             /\ files'[d] # Absent
             /\ Len(files'[d]) >= Len(files[d])
             /\ SubSeq(files'[d], 1, Len(files[d])) = files[d]]_vars
  BY StepExtends DEF Extends
<1> QED BY <1>1, <1>2, PTL DEF Spec, DatedOnlyGrow

----------------------------------------------------------------------------
(* Nothing is in latest.csv alone.                                         *)

\* The rows of a file after it has been opened, and after a line more.
LEMMA RowsOfMember ==
  ASSUME NEW contents \in Seq(Entries), NEW row
  PROVE  row \in RowsIn(contents) <=>
           \E i \in 1 .. Len(contents) : contents[i] = row /\ ~IsHeader(row)
<1>1. contents # Absent /\ DOMAIN contents = 1 .. Len(contents)
  BY ContentsPresent, LenProperties
<1> QED BY <1>1 DEF RowsIn

LEMMA RowsOfOpened ==
  ASSUME TypeOK, NEW name \in Names, Opened(name)
  PROVE  \A n \in Names : RowsIn(files'[n]) = RowsIn(files[n])
<1>1. RowsIn(<<>>) = {}
  <2>1. <<>> \in Seq(Entries) /\ Len(<<>>) = 0
    BY EmptySeq
  <2>2. ASSUME NEW row PROVE row \notin RowsIn(<<>>)
    <3>1. ~ \E i \in 1 .. 0 : <<>>[i] = row /\ ~IsHeader(row)
      OBVIOUS
    <3> QED BY <2>1, <3>1, RowsOfMember
  <2> QED BY <2>2
<1>2. RowsIn(Absent) = {}
  BY DEF RowsIn
<1> QED BY <1>1, <1>2 DEF Opened, TypeOK

LEMMA RowsOfAppend ==
  ASSUME NEW contents \in Seq(Entries), NEW entry \in Entries
  PROVE  RowsIn(Append(contents, entry)) =
           RowsIn(contents) \cup (IF IsHeader(entry) THEN {} ELSE {entry})
<1> DEFINE longer == Append(contents, entry)
<1>1. /\ longer \in Seq(Entries) /\ Len(longer) = Len(contents) + 1
      /\ \A i \in 1 .. Len(contents) : longer[i] = contents[i]
      /\ longer[Len(contents) + 1] = entry
      /\ Len(contents) \in Nat
  BY AppendProperties, LenProperties
<1> HIDE DEF longer
<1>2. ASSUME NEW row
      PROVE  row \in RowsIn(longer) <=>
               row \in RowsIn(contents) \/ (row = entry /\ ~IsHeader(entry))
  <2>1. row \in RowsIn(longer) <=>
          \E i \in 1 .. Len(contents) + 1 : longer[i] = row /\ ~IsHeader(row)
    BY <1>1, RowsOfMember
  <2>2. row \in RowsIn(contents) <=>
          \E i \in 1 .. Len(contents) : contents[i] = row /\ ~IsHeader(row)
    BY RowsOfMember
  <2>3. \A i : i \in 1 .. Len(contents) + 1 <=>
                 i \in 1 .. Len(contents) \/ i = Len(contents) + 1
    BY <1>1
  <2> QED BY <1>1, <2>1, <2>2, <2>3
<1> QED BY <1>2 DEF longer

\* The inductive invariant of the rows.
RInv == IInv /\ DatedFirst /\ LatestWithinDated

\* A step that adds no row to latest.csv or its predecessor, and takes none
\* from the file of a day, keeps them within the files of the days.
LEMMA WithinKept ==
  ASSUME LatestWithinDated,
         Rows(Latest)' \cup Rows(Old)' \subseteq
           Rows(Latest) \cup Rows(Old) \cup UNION {Rows(d)' : d \in Days},
         \A d \in Days : Rows(d) \subseteq Rows(d)'
  PROVE  LatestWithinDated'
<1> SUFFICES ASSUME NEW row \in Rows(Latest)' \cup Rows(Old)'
             PROVE  \E d \in Days : row \in Rows(d)'
  BY DEF LatestWithinDated
<1>1. CASE \E d \in Days : row \in Rows(d)'
  BY <1>1
<1>2. CASE row \in Rows(Latest) \cup Rows(Old)
  BY <1>2 DEF LatestWithinDated
<1> QED BY <1>1, <1>2

\* The initial state has no rows.
LEMMA InitRows == Init => RInv
<1> SUFFICES ASSUME Init PROVE RInv
  OBVIOUS
<1>1. Rows(Latest) = {} /\ Rows(Old) = {}
  BY DEF Init, Rows, RowsIn, Names
<1> QED BY <1>1, InitInv DEF RInv, DatedFirst, LatestWithinDated, Init

\* Every step preserves it.
LEMMA StepRows == RInv /\ [Next]_vars => RInv'
<1> SUFFICES ASSUME RInv, [Next]_vars PROVE DatedFirst' /\ LatestWithinDated'
  BY StepInv DEF RInv
<1> USE DEF Goto
<1>0. /\ IInv /\ TypeOK /\ OpenedFirst /\ DatedFirst /\ LatestWithinDated
      /\ Latest \in Names /\ Old \in Names /\ Days \subseteq Names
      /\ Latest \notin Days /\ Old \notin Days /\ Latest # Old
  BY ConstantsAssumption DEF RInv, IInv, Names, Days, Latest, Old
<1>1. CASE \/ StartRun \/ SampleTime \/ SampleDate \/ NameFile
           \/ StatDirectory \/ StatFile \/ Crash
           \/ \E from \in {"directory", "open", "openLatest"} : FailsToOpen(from)
  <2>1. UNCHANGED files
        /\ pc' \notin {"rename", "openLatest", "headerLatest", "lineLatest"}
    BY <1>1 DEF StartRun, SampleTime, SampleDate, NameFile, StatDirectory, StatFile,
                FailsToOpen, Crash
  <2>2. LatestWithinDated'
    BY <1>0, <2>1 DEF LatestWithinDated, Rows
  <2> QED BY <2>1, <2>2 DEF DatedFirst
<1>7. CASE Midnight \/ ClockSetBack \/ Ended \/ UNCHANGED vars
  <2>1. UNCHANGED <<pc, locals, files>>
    BY <1>7 DEF Midnight, ClockSetBack, Ended, vars
  <2>2. LatestWithinDated'
    BY <1>0, <2>1 DEF LatestWithinDated, Rows
  <2>3. Row' = Row /\ filename' = filename
    BY <2>1 DEF locals, Row
  <2> QED BY <1>0, <2>1, <2>2, <2>3 DEF DatedFirst, Rows
<1>2. CASE OpenDated
  <2>1. filename \in Names /\ Opened(filename) /\ pc' \in {"header", "line"}
    BY <1>0, <1>2 DEF OpenDated, OpenedFirst, Named
  <2>2. \A n \in Names : Rows(n)' = Rows(n)
    BY <1>0, <2>1, RowsOfOpened DEF Rows
  <2>3. LatestWithinDated'
    BY <1>0, <2>2, WithinKept
  <2> QED BY <2>1, <2>3 DEF DatedFirst
<1>3. CASE WriteHeader \/ WriteLine
  <2> DEFINE entry == IF pc = "header" THEN Header(reading) ELSE Row
  <2>1. /\ filename \in Days /\ files[filename] # Absent
        /\ entry \in Entries /\ Write(filename, entry) /\ filename' = filename
    BY <1>0, <1>3, LineTypes DEF WriteHeader, WriteLine, OpenedFirst, Named, locals
  <2>2. /\ files[filename] \in Seq(Entries)
        /\ files'[filename] = Append(files[filename], entry)
        /\ \A n \in Names : n # filename => files'[n] = files[n]
    BY <1>0, <2>1, WriteTypes
  <2>3. Rows(filename)' = Rows(filename) \cup (IF IsHeader(entry) THEN {} ELSE {entry})
    BY <1>3, <2>1, <2>2, RowsOfAppend DEF Rows, WriteHeader, WriteLine, locals
  <2>4. \A n \in Names : n # filename => Rows(n)' = Rows(n)
    BY <2>2 DEF Rows
  <2>5. LatestWithinDated'
    <3>1. ASSUME NEW d \in Days PROVE Rows(d) \subseteq Rows(d)'
      <4>1. CASE d = filename
        BY <2>1, <2>3, <4>1 DEF Rows
      <4> QED BY <1>0, <2>4, <4>1
    <3>2. Rows(Latest)' = Rows(Latest) /\ Rows(Old)' = Rows(Old)
      BY <1>0, <2>1, <2>4
    <3> QED BY <1>0, <3>1, <3>2, WithinKept
  <2>6. CASE WriteHeader
    BY <2>5, <2>6 DEF WriteHeader, DatedFirst
  <2>7. CASE WriteLine
    <3>1. entry = Row /\ ~IsHeader(Row)
      BY <1>0, <2>7 DEF WriteLine, Row, IsHeader, OpenedFirst
    <3>2. Row \in Rows(filename)'
      BY <2>3, <3>1
    <3>3. Row' = Row /\ filename' = filename
      BY <2>7 DEF WriteLine, locals, Row
    <3> QED BY <2>5, <3>2, <3>3 DEF DatedFirst, Rows
  <2> QED BY <1>3, <2>6, <2>7
<1>4. CASE RenameLatest
  <2>1. RowsIn(Absent) = {}
    BY DEF RowsIn
  <2>2. /\ files' = IF files[Latest] = Absent THEN files
                    ELSE [files EXCEPT ![Old] = files[Latest], ![Latest] = Absent]
        /\ filename \in Days /\ UNCHANGED locals /\ pc = "rename"
    BY <1>0, <1>4 DEF RenameLatest, OpenedFirst, Named
  <2>3. \A d \in Days : Rows(d)' = Rows(d)
    BY <1>0, <2>2 DEF Rows, TypeOK
  <2>4. Rows(Latest)' \cup Rows(Old)' \subseteq Rows(Latest) \cup Rows(Old)
    <3>1. CASE files[Latest] = Absent
      BY <2>2, <3>1 DEF Rows
    <3>2. CASE files[Latest] # Absent
      <4>1. files'[Old] = files[Latest] /\ files'[Latest] = Absent
        BY <1>0, <2>2, <3>2 DEF TypeOK
      <4> QED BY <2>1, <4>1 DEF Rows
    <3> QED BY <3>1, <3>2
  <2>5. LatestWithinDated'
    BY <1>0, <2>3, <2>4, WithinKept
  <2>6. Row \in Rows(filename)
    BY <1>0, <2>2 DEF DatedFirst
  <2>7. Row' = Row /\ filename' = filename
    BY <2>2 DEF locals, Row
  <2> QED BY <2>2, <2>3, <2>5, <2>6, <2>7 DEF DatedFirst, Rows
<1>5. CASE OpenLatest
  <2>1. Opened(Latest) /\ UNCHANGED locals /\ pc = "openLatest" /\ filename \in Days
    BY <1>0, <1>5 DEF OpenLatest, OpenedFirst, Named
  <2>2. \A n \in Names : Rows(n)' = Rows(n)
    BY <1>0, <2>1, RowsOfOpened DEF Rows
  <2>3. LatestWithinDated'
    BY <1>0, <2>2, WithinKept
  <2>4. Row' = Row /\ filename' = filename /\ Row \in Rows(filename)
    BY <1>0, <2>1 DEF locals, Row, DatedFirst
  <2> QED BY <1>0, <2>1, <2>2, <2>3, <2>4 DEF DatedFirst, Rows
<1>6. CASE WriteLatestHeader \/ WriteLatestLine
  <2> DEFINE entry == IF pc = "headerLatest" THEN Header(reading) ELSE Row
  <2>1. /\ filename \in Days /\ files[Latest] # Absent
        /\ entry \in Entries /\ Write(Latest, entry) /\ UNCHANGED locals
        /\ Row \in Rows(filename)
    BY <1>0, <1>6, LineTypes
    DEF WriteLatestHeader, WriteLatestLine, OpenedFirst, Named, DatedFirst
  <2>2. /\ files[Latest] \in Seq(Entries)
        /\ files'[Latest] = Append(files[Latest], entry)
        /\ \A n \in Names : n # Latest => files'[n] = files[n]
    BY <1>0, <2>1, WriteTypes
  <2>3. Rows(Latest)' = Rows(Latest) \cup (IF IsHeader(entry) THEN {} ELSE {entry})
    BY <2>1, <2>2, RowsOfAppend DEF Rows
  <2>4. \A n \in Names : n # Latest => Rows(n)' = Rows(n)
    BY <2>2 DEF Rows
  <2>5. IsHeader(entry) \/ entry = Row
    BY <1>6 DEF WriteLatestHeader, WriteLatestLine, Header, IsHeader
  <2>6. Row' = Row /\ filename' = filename /\ Row \in Rows(filename)'
    BY <1>0, <2>1, <2>4 DEF locals, Row, Rows
  <2>7. LatestWithinDated'
    <3>1. \A d \in Days : Rows(d)' = Rows(d)
      BY <1>0, <2>4
    <3>2. Rows(Latest)' \subseteq Rows(Latest) \cup Rows(filename)
      BY <2>1, <2>3, <2>5
    <3>3. Rows(Old)' = Rows(Old)
      BY <1>0, <2>4
    <3> QED BY <1>0, <2>1, <3>1, <3>2, <3>3, WithinKept
  <2> QED BY <2>6, <2>7 DEF DatedFirst, Rows
<1> QED BY <1>1, <1>2, <1>3, <1>4, <1>5, <1>6, <1>7 DEF Next

\* Whatever is captured from latest.csv, or found in latest.csv.OLD, is also
\* in the file of a day, even after kills, errors and clocks set back: the
\* rotation that replaces latest.csv.OLD cannot lose the only copy of a row.
THEOREM LatestHoldsCopies == Spec => []LatestWithinDated
<1>1. Spec => []RInv
  BY InitRows, StepRows, PTL DEF Spec
<1>2. RInv => LatestWithinDated
  BY DEF RInv
<1> QED BY <1>1, <1>2, PTL

----------------------------------------------------------------------------
(* Undisturbed runs keep latest.csv a copy of the file of the day.         *)

\* Where the two files stand at each step of a run that nothing has disturbed:
\* equal before it writes, one row apart after it has written to the first;
\* and no file is of a day to come.
Mirrored ==
  /\ filename <= day
  /\ \A d \in Days : d > filename => files[d] = Absent
  /\ ~directory => \A n \in Names : files[n] = Absent
  /\ pc \in Named \ {"directory"} => directory
  /\ pc \in {"idle", "time", "date", "name"} /\ filename # 0 =>
       files[Latest] = files[filename]
  /\ pc \in {"directory", "stat"} =>
       files[filename] = Absent \/ files[Latest] = files[filename]
  /\ pc = "stat" /\ rotate => files[filename] = Absent
  /\ pc = "open" =>
       IF rotate THEN write_header /\ files[filename] = Absent
       ELSE /\ ~write_header
            /\ files[filename] # Absent /\ files[Latest] = files[filename]
  /\ pc = "header" => rotate /\ files[filename] = <<>>
  /\ pc = "line" =>
       IF rotate THEN files[filename] = <<Header(reading)>>
       ELSE files[filename] # Absent /\ files[Latest] = files[filename]
  /\ pc = "rename" => rotate /\ files[filename] = <<Header(reading), Row>>
  /\ pc = "openLatest" =>
       IF rotate
       THEN /\ write_header /\ files[Latest] = Absent
            /\ files[filename] = <<Header(reading), Row>>
       ELSE /\ ~write_header /\ files[Latest] # Absent
            /\ files[filename] = Append(files[Latest], Row)
  /\ pc = "headerLatest" =>
       files[Latest] = <<>> /\ files[filename] = <<Header(reading), Row>>
  /\ pc = "lineLatest" => files[filename] = Append(files[Latest], Row)

MInv == IInv /\ (faults = 0 => Mirrored)

\* Lines written to an empty file.
LEMMA FirstLines ==
  ASSUME NEW a \in Entries, NEW b \in Entries
  PROVE  Append(<<>>, a) = <<a>> /\ Append(<<a>>, b) = <<a, b>>
<1>1. <<>> \in Seq(Entries) /\ <<a>> \in Seq(Entries) /\ <<a, b>> \in Seq(Entries)
  OBVIOUS
<1>2. Append(<<>>, a) = <<a>>
  BY <1>1, AppendIsConcat, ConcatEmptySeq
<1>3. Append(<<a>>, b) = <<a, b>>
  <2> DEFINE s == Append(<<a>>, b)
             t == <<a, b>>
  <2>1. /\ s \in Seq(Entries) /\ Len(s) = Len(<<a>>) + 1
        /\ \A i \in 1 .. Len(<<a>>) : s[i] = <<a>>[i]
        /\ s[Len(<<a>>) + 1] = b
    BY <1>1, AppendProperties
  <2>2. Len(<<a>>) = 1 /\ <<a>>[1] = a
    OBVIOUS
  <2>3. t \in Seq(Entries) /\ Len(t) = 2 /\ t[1] = a /\ t[2] = b
    OBVIOUS
  <2> HIDE DEF s, t
  <2>4. Len(s) = Len(t)
    BY <2>1, <2>2, <2>3
  <2>5. \A i \in 1 .. Len(s) : s[i] = t[i]
    BY <2>1, <2>2, <2>3
  <2>6. s = t
    BY <2>1, <2>3, <2>4, <2>5, SeqEqual
  <2> QED BY <2>6 DEF s, t
<1> QED BY <1>2, <1>3

\* The initial state satisfies it.
LEMMA InitMirrored == Init => MInv
<1> SUFFICES ASSUME Init PROVE Mirrored
  BY InitInv DEF MInv
<1>1. pc = "idle" /\ filename = 0 /\ day = 1 /\ \A n \in Names : files[n] = Absent
  BY DEF Init
<1>2. \A d \in Days : files[d] = Absent
  BY <1>1 DEF Names
<1> QED BY <1>1, <1>2 DEF Mirrored, Named

\* A fault ends the account: the number of faults never falls.
LEMMA FaultsGrow ==
  ASSUME IInv, [Next]_vars, faults' = 0
  PROVE  /\ faults = 0
         /\ \/ StartRun \/ SampleTime \/ SampleDate \/ NameFile
            \/ StatDirectory \/ StatFile \/ OpenDated \/ WriteHeader \/ WriteLine
            \/ RenameLatest \/ OpenLatest \/ WriteLatestHeader \/ WriteLatestLine
            \/ Midnight \/ Ended \/ UNCHANGED vars
<1>1. faults \in Nat
  BY ConstantsAssumption DEF IInv, TypeOK
<1> QED
  BY <1>1
  DEF Next, StartRun, SampleTime, SampleDate, NameFile, StatDirectory, StatFile,
      FailsToOpen, Midnight, ClockSetBack, Crash, Ended, vars, OpenDated,
      WriteHeader, WriteLine, RenameLatest, OpenLatest, WriteLatestHeader,
      WriteLatestLine

\* Every step preserves it.
LEMMA StepMirrored == MInv /\ [Next]_vars => MInv'
<1> SUFFICES ASSUME MInv, [Next]_vars, faults' = 0 PROVE Mirrored'
  BY StepInv DEF MInv
<1> USE ConstantsAssumption DEF Goto
<1>0. /\ IInv /\ TypeOK /\ OpenedFirst /\ Mirrored /\ faults = 0
      /\ Latest \in Names /\ Old \in Names /\ Days \subseteq Names
      /\ Latest \notin Days /\ Old \notin Days /\ Latest # Old
      /\ day \in Days /\ day \in Nat \ {0} /\ filename \in Nat
      /\ Header(reading) \in Entries /\ Row \in Entries
      /\ files \in [Names -> Seq(Entries) \cup {Absent}]
      /\ rotate \in BOOLEAN /\ write_header \in BOOLEAN
  BY FaultsGrow, LineTypes DEF MInv, IInv, TypeOK, Names, Days, Latest, Old
<1>1. CASE StartRun
  BY <1>0, <1>1 DEF StartRun, Mirrored, Named, flags
<1>2. CASE SampleTime \/ SampleDate
  BY <1>0, <1>2 DEF SampleTime, SampleDate, Mirrored, Named, flags
<1>3. CASE NameFile
  <2>1. filename' = day /\ pc = "name" /\ pc' = "directory"
        /\ UNCHANGED <<day, files, flags, directory>>
    BY <1>3 DEF NameFile
  <2>2. files[day] = Absent \/ files[Latest] = files[day]
    <3>1. CASE day > filename
      BY <1>0, <3>1 DEF Mirrored
    <3>2. CASE day = filename
      BY <1>0, <2>1, <3>2 DEF Mirrored
    <3> QED BY <1>0, <3>1, <3>2 DEF Mirrored
  <2>3. \A d \in Days : d > day => files[d] = Absent
    BY <1>0 DEF Mirrored, Days
  <2> QED BY <1>0, <2>1, <2>2, <2>3 DEF Mirrored, Named, flags
<1>4. CASE StatDirectory
  <2>1. filename \in Names
    BY <1>0, <1>4 DEF StatDirectory, OpenedFirst, Named
  <2> QED BY <1>0, <1>4, <2>1 DEF StatDirectory, Mirrored, Named, locals
<1>5. CASE StatFile
  BY <1>0, <1>5 DEF StatFile, Mirrored, Named, locals
<1>6. CASE OpenDated
  <2>1. filename \in Days /\ Opened(filename)
    BY <1>0, <1>6 DEF OpenDated, OpenedFirst, Named
  <2>2. /\ files'[filename] = IF files[filename] = Absent THEN <<>> ELSE files[filename]
        /\ \A n \in Names : n # filename => files'[n] = files[n]
    BY <1>0, <2>1 DEF Opened
  <2>3. files'[filename] # Absent
    BY <1>0, <2>1, OpenedTypes
  <2>4. /\ filename' = filename /\ day' = day /\ UNCHANGED <<flags, directory>>
        /\ pc = "open" /\ pc' = IF write_header THEN "header" ELSE "line"
        /\ directory /\ files'[Latest] = files[Latest]
    BY <1>0, <1>6, <2>1, <2>2 DEF OpenDated, locals, Mirrored, Named
  <2>5. \A d \in Days : d > filename => files'[d] = Absent
    BY <1>0, <2>1, <2>2 DEF Mirrored, Days
  <2> QED BY <1>0, <2>1, <2>2, <2>3, <2>4, <2>5 DEF Mirrored, Named, flags
<1>7. CASE WriteHeader
  <2>1. filename \in Days /\ files[filename] = <<>> /\ rotate
        /\ Write(filename, Header(reading))
    BY <1>0, <1>7 DEF WriteHeader, OpenedFirst, Named, Mirrored
  <2>2. /\ files'[filename] = <<Header(reading)>>
        /\ \A n \in Names : n # filename => files'[n] = files[n]
    BY <1>0, <2>1, FirstLines DEF Write
  <2>3. /\ filename' = filename /\ day' = day /\ reading' = reading
        /\ UNCHANGED <<flags, directory>> /\ directory /\ pc' = "line"
    BY <1>0, <1>7 DEF WriteHeader, locals, Mirrored, Named
  <2>4. \A d \in Days : d > filename => files'[d] = Absent
    BY <1>0, <2>1, <2>2 DEF Mirrored, Days
  <2> QED BY <1>0, <2>1, <2>2, <2>3, <2>4 DEF Mirrored, Named, flags, Header
<1>8. CASE WriteLine
  <2>1. filename \in Days /\ Write(filename, Row) /\ pc = "line"
        /\ UNCHANGED <<day, locals, rotate, directory>> /\ write_header' = FALSE
        /\ pc' = IF rotate THEN "rename" ELSE "openLatest"
    BY <1>0, <1>8 DEF WriteLine, OpenedFirst, Named
  <2>2. /\ files'[filename] = Append(files[filename], Row)
        /\ \A n \in Names : n # filename => files'[n] = files[n]
    BY <1>0, <2>1 DEF Write
  <2>3. Row' = Row /\ reading' = reading /\ filename' = filename
    BY <2>1 DEF Row, locals
  <2>6. directory /\ \A d \in Days : d > filename => files'[d] = Absent
    BY <1>0, <2>1, <2>2 DEF Mirrored, Days, Named
  <2>4. CASE rotate
    <3>1. files'[filename] = <<Header(reading), Row>>
      BY <1>0, <2>1, <2>2, <2>4, FirstLines DEF Mirrored
    <3> QED BY <1>0, <2>1, <2>3, <2>4, <2>6, <3>1 DEF Mirrored, Named, Header
  <2>5. CASE ~rotate
    <3>1. files'[filename] = Append(files'[Latest], Row) /\ files'[Latest] # Absent
      BY <1>0, <2>1, <2>2, <2>5 DEF Mirrored
    <3> QED BY <1>0, <2>1, <2>3, <2>5, <2>6, <3>1 DEF Mirrored, Named
  <2> QED BY <2>4, <2>5
<1>9. CASE RenameLatest
  <2>1. filename \in Days /\ pc = "rename" /\ pc' = "openLatest" /\ rotate
        /\ UNCHANGED <<day, locals, rotate, directory>> /\ write_header' = TRUE
        /\ files[filename] = <<Header(reading), Row>>
    BY <1>0, <1>9 DEF RenameLatest, OpenedFirst, Named, Mirrored
  <2>2. files'[Latest] = Absent /\ \A d \in Days : files'[d] = files[d]
    BY <1>0, <1>9 DEF RenameLatest
  <2>3. Row' = Row /\ reading' = reading /\ filename' = filename
    BY <2>1 DEF Row, locals
  <2>4. directory
    BY <1>0, <2>1 DEF Mirrored, Named
  <2> QED BY <1>0, <2>1, <2>2, <2>3, <2>4 DEF Mirrored, Named, Header
<1>10. CASE OpenLatest
  <2>1. filename \in Days /\ Opened(Latest) /\ UNCHANGED <<day, locals, flags, directory>>
        /\ pc = "openLatest"
        /\ pc' = IF write_header THEN "headerLatest" ELSE "lineLatest"
    BY <1>0, <1>10 DEF OpenLatest, OpenedFirst, Named
  <2>2. /\ files'[Latest] = IF files[Latest] = Absent THEN <<>> ELSE files[Latest]
        /\ \A n \in Names : n # Latest => files'[n] = files[n]
    BY <1>0, <2>1 DEF Opened
  <2>3. Row' = Row /\ reading' = reading /\ filename' = filename
    BY <2>1 DEF Row, locals
  <2>4. directory
    BY <1>0, <2>1 DEF Mirrored, Named
  <2> QED BY <1>0, <2>1, <2>2, <2>3, <2>4 DEF Mirrored, Named, Header
<1>11. CASE WriteLatestHeader
  <2>1. filename \in Days /\ Write(Latest, Header(reading))
        /\ UNCHANGED <<day, locals, flags, directory>>
        /\ pc = "headerLatest" /\ pc' = "lineLatest"
    BY <1>0, <1>11 DEF WriteLatestHeader, OpenedFirst, Named
  <2>2. /\ files'[Latest] = <<Header(reading)>>
        /\ \A n \in Names : n # Latest => files'[n] = files[n]
    BY <1>0, <2>1, FirstLines DEF Write, Mirrored
  <2>3. Row' = Row /\ filename' = filename
    BY <2>1 DEF Row, locals
  <2>4. files'[filename] = Append(files'[Latest], Row)
    BY <1>0, <2>1, <2>2, FirstLines DEF Mirrored
  <2>5. directory
    BY <1>0, <2>1 DEF Mirrored, Named
  <2> QED BY <1>0, <2>1, <2>2, <2>3, <2>4, <2>5 DEF Mirrored, Named
<1>12. CASE WriteLatestLine
  <2>1. filename \in Days /\ Write(Latest, Row)
        /\ UNCHANGED <<day, locals, flags, directory>>
        /\ pc = "lineLatest" /\ pc' = "idle" /\ files[Latest] # Absent
    BY <1>0, <1>12 DEF WriteLatestLine, OpenedFirst, Named
  <2>2. /\ files'[Latest] = Append(files[Latest], Row)
        /\ \A n \in Names : n # Latest => files'[n] = files[n]
    BY <1>0, <2>1 DEF Write
  <2>3. files'[Latest] = files'[filename] /\ filename' = filename
    BY <1>0, <2>1, <2>2 DEF Mirrored, locals
  <2>4. directory
    BY <1>0, <2>1 DEF Mirrored, Named
  <2> QED BY <1>0, <2>1, <2>2, <2>3, <2>4 DEF Mirrored, Named
<1>13. CASE Midnight
  <2>1. Row' = Row /\ reading' = reading /\ filename' = filename /\ day' = day + 1
        /\ UNCHANGED <<pc, flags, directory, files>>
    BY <1>13 DEF Midnight, locals, Row
  <2> QED BY <1>0, <2>1 DEF Mirrored, flags, Header
<1>14. CASE Ended \/ UNCHANGED vars
  BY <1>0, <1>14 DEF Ended, vars, locals, flags, Mirrored, Row, Header
<1> QED
  BY <1>0, <1>1, <1>2, <1>3, <1>4, <1>5, <1>6, <1>7, <1>8, <1>9, <1>10,
     <1>11, <1>12, <1>13, <1>14, FaultsGrow

\* Between runs of which none was killed or failed, latest.csv is the file of
\* the day last logged, however the days and the runs fall.
THEOREM LatestIsACopy == Spec => []LatestMirrorsDated
<1>1. Spec => []MInv
  BY InitMirrored, StepMirrored, PTL DEF Spec
<1>2. MInv => LatestMirrorsDated
  BY DEF MInv, Mirrored, LatestMirrorsDated
<1> QED BY <1>1, <1>2, PTL

----------------------------------------------------------------------------
(* Undisturbed runs leave one header in every file, in front.              *)

HasHeader(contents) ==
  /\ contents # <<>>
  /\ \A i \in 1 .. Len(contents) : IsHeader(contents[i]) <=> i = 1

\* Only a file that is about to get its header is without one.
Headed ==
  \A n \in Names :
    files[n] # Absent =>
      \/ HasHeader(files[n])
      \/ /\ files[n] = <<>>
         /\ (pc = "header" /\ n = filename) \/ (pc = "headerLatest" /\ n = Latest)

HInv == MInv /\ (faults = 0 => Headed)

\* A header in an empty file, and a row behind a header.
LEMMA HeaderInFront ==
  ASSUME NEW entry \in Entries, IsHeader(entry)
  PROVE  HasHeader(Append(<<>>, entry))
<1>1. /\ Append(<<>>, entry) # <<>> /\ Len(Append(<<>>, entry)) = Len(<<>>) + 1
      /\ Append(<<>>, entry)[Len(<<>>) + 1] = entry /\ Len(<<>>) = 0
  BY EmptySeq, AppendProperties
<1> HIDE DEF IsHeader
<1>2. Len(Append(<<>>, entry)) = 1 /\ Append(<<>>, entry)[1] = entry
  BY <1>1
<1>3. ASSUME NEW i \in 1 .. Len(Append(<<>>, entry)) PROVE i = 1
  BY <1>2
<1> QED BY <1>1, <1>2, <1>3 DEF HasHeader

LEMMA RowBehindHeader ==
  ASSUME NEW contents \in Seq(Entries), NEW entry \in Entries,
         HasHeader(contents), ~IsHeader(entry)
  PROVE  HasHeader(Append(contents, entry))
<1> DEFINE longer == Append(contents, entry)
<1>1. /\ longer \in Seq(Entries) /\ longer # <<>> /\ Len(longer) = Len(contents) + 1
      /\ \A i \in 1 .. Len(contents) : longer[i] = contents[i]
      /\ longer[Len(contents) + 1] = entry
      /\ Len(contents) \in Nat \ {0}
  BY AppendProperties, EmptySeq DEF HasHeader
<1> HIDE DEF longer
<1>2. ASSUME NEW i \in 1 .. Len(longer) PROVE IsHeader(longer[i]) <=> i = 1
  <2>1. CASE i \in 1 .. Len(contents)
    BY <1>1, <2>1 DEF HasHeader
  <2>2. CASE i = Len(contents) + 1
    BY <1>1, <2>2
  <2> QED BY <1>1, <2>1, <2>2
<1>3. HasHeader(longer)
  BY <1>1, <1>2 DEF HasHeader
<1> QED BY <1>3 DEF longer

\* Every step preserves it.
LEMMA StepHeaded == HInv /\ [Next]_vars => HInv'
<1> SUFFICES ASSUME HInv, [Next]_vars, faults' = 0 PROVE Headed'
  BY StepMirrored DEF HInv
<1> USE ConstantsAssumption DEF Goto
<1>0. /\ IInv /\ TypeOK /\ OpenedFirst /\ Mirrored /\ Headed /\ faults = 0
      /\ Latest \in Names /\ Days \subseteq Names
      /\ Latest \notin Days
      /\ Header(reading) \in Entries /\ Row \in Entries
      /\ files \in [Names -> Seq(Entries) \cup {Absent}]
      /\ IsHeader(Header(reading)) /\ (pc # "idle" => ~IsHeader(Row))
  BY FaultsGrow, LineTypes
  DEF HInv, MInv, IInv, TypeOK, OpenedFirst, Names, Days, Latest, IsHeader, Header, Row
<1>1. CASE UNCHANGED files /\ pc \notin {"header", "headerLatest"}
  BY <1>0, <1>1 DEF Headed
<1>2. CASE OpenDated
  <2>1. filename \in Days /\ Opened(filename) /\ filename' = filename
        /\ (write_header => files[filename] = Absent /\ pc' = "header")
        /\ (~write_header => files[filename] # Absent)
        /\ pc = "open"
    BY <1>0, <1>2 DEF OpenDated, OpenedFirst, Named, Mirrored, locals
  <2>2. /\ files'[filename] = IF files[filename] = Absent THEN <<>> ELSE files[filename]
        /\ \A n \in Names : n # filename => files'[n] = files[n]
    BY <1>0, <2>1 DEF Opened
  <2> QED BY <1>0, <2>1, <2>2 DEF Headed
<1>3. CASE OpenLatest
  <2>1. Opened(Latest) /\ pc = "openLatest"
        /\ (write_header => files[Latest] = Absent /\ pc' = "headerLatest")
        /\ (~write_header => files[Latest] # Absent)
    BY <1>0, <1>3 DEF OpenLatest, Mirrored
  <2>2. /\ files'[Latest] = IF files[Latest] = Absent THEN <<>> ELSE files[Latest]
        /\ \A n \in Names : n # Latest => files'[n] = files[n]
    BY <1>0, <2>1 DEF Opened
  <2> QED BY <1>0, <2>1, <2>2 DEF Headed
<1>4. CASE WriteHeader \/ WriteLatestHeader
  <2> DEFINE name == IF pc = "header" THEN filename ELSE Latest
  <2>1. name \in Names /\ Write(name, Header(reading)) /\ files[name] = <<>>
        /\ pc \in {"header", "headerLatest"}
    BY <1>0, <1>4 DEF WriteHeader, WriteLatestHeader, OpenedFirst, Named, Mirrored
  <2>2. HasHeader(Append(<<>>, Header(reading)))
    BY <1>0, HeaderInFront
  <2>3. /\ files'[name] = Append(<<>>, Header(reading))
        /\ \A n \in Names : n # name => files'[n] = files[n]
    BY <1>0, <2>1 DEF Write
  <2>4. \A n \in Names : n # name /\ files[n] # Absent => HasHeader(files[n])
    BY <1>0, <2>1 DEF Headed
  <2> HIDE DEF name
  <2> QED BY <1>0, <2>2, <2>3, <2>4 DEF Headed
<1>5. CASE WriteLine \/ WriteLatestLine
  <2> DEFINE name == IF pc = "line" THEN filename ELSE Latest
  <2>1. name \in Names /\ Write(name, Row) /\ files[name] # Absent
        /\ pc \in {"line", "lineLatest"}
    BY <1>0, <1>5 DEF WriteLine, WriteLatestLine, OpenedFirst, Named
  <2> HIDE DEF name
  <2>2. \A n \in Names : files[n] # Absent => HasHeader(files[n])
    BY <1>0, <2>1 DEF Headed
  <2>3. /\ files'[name] = Append(files[name], Row) /\ files[name] \in Seq(Entries)
        /\ \A n \in Names : n # name => files'[n] = files[n]
    BY <1>0, <2>1, WriteTypes
  <2>4. HasHeader(Append(files[name], Row))
    BY <1>0, <2>1, <2>2, <2>3, RowBehindHeader
  <2> QED BY <1>0, <2>2, <2>3, <2>4 DEF Headed
<1>6. CASE RenameLatest
  <2>1. pc = "rename" /\ \A n \in Names : files'[n] \in {Absent, files[n], files[Latest]}
    BY <1>0, <1>6 DEF RenameLatest
  <2> QED BY <1>0, <2>1 DEF Headed
<1>7. CASE UNCHANGED <<pc, filename, files>>
  BY <1>0, <1>7 DEF Headed
<1>8. CASE \/ StartRun \/ SampleTime \/ SampleDate \/ NameFile
           \/ StatDirectory \/ StatFile
  BY <1>1, <1>8 DEF StartRun, SampleTime, SampleDate, NameFile, StatDirectory, StatFile
<1>9. CASE Midnight \/ Ended \/ UNCHANGED vars
  BY <1>7, <1>9 DEF Midnight, Ended, vars, locals
<1> QED
  BY <1>2, <1>3, <1>4, <1>5, <1>6, <1>8, <1>9, <1>0, FaultsGrow

\* Every file a capture program may find has its header as the first line,
\* and no second one, as long as no run was killed or failed.
THEOREM HeaderComesFirst == Spec => []HeaderFirst
<1>1. Init => HInv
  <2> SUFFICES ASSUME Init PROVE Headed
    BY InitMirrored DEF HInv
  <2> QED BY DEF Init, Headed
<1>2. Spec => []HInv
  BY <1>1, StepHeaded, PTL DEF Spec
<1>3. HInv => HeaderFirst
  <2> SUFFICES ASSUME HInv, faults = 0, NEW n \in Names, files[n] # Absent
               PROVE  \A i \in DOMAIN files[n] : IsHeader(files[n][i]) <=> i = 1
    BY DEF HeaderFirst, HeaderFirstIn
  <2>1. files[n] \in Seq(Entries) /\ (HasHeader(files[n]) \/ files[n] = <<>>)
    BY DEF HInv, MInv, IInv, TypeOK, Headed
  <2>2. DOMAIN files[n] = 1 .. Len(files[n])
    BY <2>1, LenProperties
  <2>3. CASE HasHeader(files[n])
    BY <2>2, <2>3 DEF HasHeader
  <2>4. CASE files[n] = <<>>
    <3>1. DOMAIN files[n] = 1 .. 0
      BY <2>2, <2>4, EmptySeq
    <3> QED BY <3>1
  <2> QED BY <2>1, <2>3, <2>4
<1> QED BY <1>2, <1>3, PTL

----------------------------------------------------------------------------
(* Undisturbed runs keep the last file but one in latest.csv.OLD.          *)

\* The contents are those of the last file before that of day f.
LastBefore(f, contents) ==
  \E d \in 1 .. f - 1 :
    /\ files[d] = contents
    /\ \A e \in d + 1 .. f - 1 : files[e] = Absent

\* Before a rotation it is latest.csv that holds them, or there is neither
\* latest.csv nor latest.csv.OLD; at all other times latest.csv.OLD.
Pending ==
  IF files[Latest] = Absent THEN files[Old] = Absent
  ELSE LastBefore(filename, files[Latest])

Settled == files[Old] # Absent => LastBefore(filename, files[Old])

Rotated ==
  /\ pc \in {"idle", "time", "date", "name"} =>
       /\ Settled
       /\ filename = 0 => files[Latest] = Absent /\ files[Old] = Absent
       /\ filename # 0 => files[Latest] # Absent
  /\ pc \in {"directory", "stat"} =>
       IF files[filename] = Absent THEN Pending ELSE Settled
  /\ pc \in {"open", "header", "line", "rename"} =>
       IF rotate THEN Pending ELSE Settled
  /\ pc \in {"openLatest", "headerLatest", "lineLatest"} => Settled

OInv == MInv /\ (faults = 0 => Rotated)

\* What is said of the days before f stays true while their files, and the
\* contents, stay.
LEMMA LastBeforeKept ==
  ASSUME NEW f \in Nat, NEW contents, LastBefore(f, contents),
         \A d \in 1 .. f - 1 : files'[d] = files[d]
  PROVE  \E d \in 1 .. f - 1 :
           /\ files'[d] = contents
           /\ \A e \in d + 1 .. f - 1 : files'[e] = Absent
<1>1. PICK d \in 1 .. f - 1 :
        files[d] = contents /\ \A e \in d + 1 .. f - 1 : files[e] = Absent
  BY DEF LastBefore
<1>2. \A e \in d + 1 .. f - 1 : e \in 1 .. f - 1
  OBVIOUS
<1> QED BY <1>1, <1>2

LEMMA StaysSettled ==
  ASSUME filename \in Nat, filename' = filename, Settled,
         files'[Old] = files[Old],
         \A d \in 1 .. filename - 1 : files'[d] = files[d]
  PROVE  Settled'
BY LastBeforeKept DEF Settled, LastBefore

LEMMA StaysPending ==
  ASSUME filename \in Nat, filename' = filename, Pending,
         files'[Old] = files[Old], files'[Latest] = files[Latest],
         \A d \in 1 .. filename - 1 : files'[d] = files[d]
  PROVE  Pending'
BY LastBeforeKept DEF Pending, LastBefore

\* Every step preserves it.
LEMMA StepRotated == OInv /\ [Next]_vars => OInv'
<1> SUFFICES ASSUME OInv, [Next]_vars, faults' = 0 PROVE Rotated'
  BY StepMirrored DEF OInv
<1> USE DEF Goto
<1>0. /\ IInv /\ TypeOK /\ OpenedFirst /\ Mirrored /\ Rotated /\ faults = 0
      /\ Latest \in Names /\ Old \in Names /\ Days \subseteq Names
      /\ Latest \notin Days /\ Old \notin Days /\ Latest # Old
      /\ day \in Nat \ {0} /\ filename \in Nat /\ filename <= day
      /\ \A d \in 1 .. filename - 1 : d \in Days /\ d # filename
      /\ \A d \in 1 .. day - 1 : d \in Days
      /\ Row \in Entries /\ Header(reading) \in Entries
      /\ files \in [Names -> Seq(Entries) \cup {Absent}]
  BY ConstantsAssumption, FaultsGrow, LineTypes
  DEF OInv, MInv, Mirrored, IInv, TypeOK, Names, Days, Latest, Old
<1>1. CASE UNCHANGED <<filename, files>>
  <2>1. (Settled => Settled') /\ (Pending => Pending')
    BY <1>1 DEF Settled, Pending, LastBefore
  <2>2. CASE StartRun \/ SampleTime \/ SampleDate
    BY <1>0, <1>1, <2>1, <2>2 DEF StartRun, SampleTime, SampleDate, Rotated
  <2>3. CASE StatDirectory
    BY <1>0, <1>1, <2>1, <2>3 DEF StatDirectory, Rotated
  <2>4. CASE StatFile
    BY <1>0, <1>1, <2>1, <2>4 DEF StatFile, Rotated, Mirrored
  <2>5. CASE Midnight \/ Ended \/ UNCHANGED vars
    BY <1>0, <1>1, <2>1, <2>5 DEF Midnight, Ended, vars, flags, Rotated
  <2>6. CASE WriteHeader \/ WriteLine \/ OpenDated
    BY <1>0, <1>1, <2>1, <2>6 DEF WriteHeader, WriteLine, OpenDated, flags, Rotated
  <2>7. CASE OpenLatest \/ WriteLatestHeader
    BY <1>0, <1>1, <2>1, <2>7 DEF OpenLatest, WriteLatestHeader, Rotated
  <2>8. CASE RenameLatest
    <3>1. Pending /\ pc' = "openLatest"
      BY <1>0, <2>8 DEF RenameLatest, Rotated, Mirrored
    <3>2. files[Latest] = Absent
      BY <1>0, <1>1, <2>8 DEF RenameLatest
    <3> QED BY <1>1, <3>1, <3>2 DEF Pending, Settled, Rotated
  <2>9. CASE WriteLatestLine
    <3>1. filename \in Days /\ pc' = "idle" /\ files[Latest] # Absent /\ Settled
      BY <1>0, <2>9 DEF WriteLatestLine, OpenedFirst, Named, Rotated
    <3> QED BY <1>0, <1>1, <2>1, <3>1 DEF Rotated, Days
  <2>10. CASE NameFile
    BY <1>0, <1>1, <2>1, <2>10 DEF NameFile, Rotated, Mirrored
  <2> QED
    BY <2>2, <2>3, <2>4, <2>5, <2>6, <2>7, <2>8, <2>9, <2>10, <1>0, FaultsGrow
<1>2. CASE NameFile
  <2>1. /\ pc = "name" /\ pc' = "directory" /\ filename' = day
        /\ UNCHANGED files
    BY <1>2 DEF NameFile
  <2>2. CASE filename = day
    BY <1>1, <2>1, <2>2
  <2>3. CASE filename = 0
    <3>1. files[Latest] = Absent /\ files[Old] = Absent
      BY <1>0, <2>1, <2>3 DEF Rotated
    <3> QED BY <2>1, <3>1 DEF Rotated, Pending, Settled
  <2>4. CASE filename # 0 /\ filename < day
    <3>1. /\ files[Latest] # Absent /\ files[Latest] = files[filename]
          /\ filename \in 1 .. day - 1
          /\ \A d \in filename + 1 .. day - 1 : files[d] = Absent
      BY <1>0, <2>1, <2>4 DEF Rotated, Mirrored
    <3>2. LastBefore(day, files[Latest])
      BY <3>1 DEF LastBefore
    <3>3. files[day] = Absent
      BY <1>0, <2>4 DEF Mirrored, TypeOK
    <3> QED BY <2>1, <3>1, <3>2, <3>3 DEF Rotated, Pending, LastBefore
  <2> QED BY <1>0, <2>2, <2>3, <2>4
<1>3. CASE OpenDated \/ WriteHeader \/ WriteLine
  <2>1. /\ filename \in Days /\ filename' = filename /\ rotate' = rotate
        /\ pc \in {"open", "header", "line"}
        /\ pc' \in {"header", "line", "rename", "openLatest"}
        /\ (pc' = "rename" => rotate) /\ (pc' = "openLatest" => ~rotate)
    BY <1>0, <1>3 DEF OpenDated, WriteHeader, WriteLine, OpenedFirst, Named, locals, flags
  <2>2. \A n \in Names : n # filename => files'[n] = files[n]
    BY <1>0, <1>3 DEF OpenDated, WriteHeader, WriteLine, Opened, Write
  <2>3. /\ files'[Old] = files[Old] /\ files'[Latest] = files[Latest]
        /\ \A d \in 1 .. filename - 1 : files'[d] = files[d]
    BY <1>0, <2>1, <2>2
  <2>4. IF rotate THEN Pending ELSE Settled
    BY <1>0, <2>1 DEF Rotated
  <2>5. IF rotate THEN Pending' ELSE Settled'
    BY <1>0, <2>1, <2>3, <2>4, StaysSettled, StaysPending
  <2> QED BY <2>1, <2>5 DEF Rotated
<1>4. CASE RenameLatest /\ files[Latest] # Absent
  <2>1. /\ filename' = filename /\ pc' = "openLatest" /\ Pending
        /\ files' = [files EXCEPT ![Old] = files[Latest], ![Latest] = Absent]
    BY <1>0, <1>4 DEF RenameLatest, Rotated, Mirrored, locals
  <2>2. /\ files'[Old] = files[Latest]
        /\ \A d \in 1 .. filename - 1 : files'[d] = files[d]
    BY <1>0, <2>1
  <2>3. LastBefore(filename, files[Latest])
    BY <1>4, <2>1 DEF Pending
  <2>4. Settled'
    BY <1>0, <2>1, <2>2, <2>3, LastBeforeKept DEF Settled, LastBefore
  <2> QED BY <2>1, <2>4 DEF Rotated
<1>5. CASE OpenLatest \/ WriteLatestHeader \/ WriteLatestLine
  <2>1. /\ filename \in Days /\ filename' = filename
        /\ pc \in {"openLatest", "headerLatest", "lineLatest"}
        /\ pc' \in {"headerLatest", "lineLatest", "idle"}
        /\ Settled
    BY <1>0, <1>5
    DEF OpenLatest, WriteLatestHeader, WriteLatestLine, OpenedFirst, Named, Rotated, locals
  <2>2. \A n \in Names : n # Latest => files'[n] = files[n]
    BY <1>0, <1>5 DEF OpenLatest, WriteLatestHeader, WriteLatestLine, Opened, Write
  <2>3. Settled'
    BY <1>0, <2>1, <2>2, StaysSettled
  <2>4. WriteLatestLine => files'[Latest] # Absent
    BY <1>0, WriteTypes DEF WriteLatestLine, OpenedFirst
  <2>5. pc' = "idle" => WriteLatestLine
    BY <1>5 DEF OpenLatest, WriteLatestHeader
  <2> QED BY <1>0, <2>1, <2>3, <2>4, <2>5 DEF Rotated, Days
<1>6. CASE RenameLatest /\ files[Latest] = Absent
  BY <1>1, <1>6 DEF RenameLatest, locals
<1> QED
  BY <1>1, <1>2, <1>3, <1>4, <1>5, <1>6, <1>0, FaultsGrow
  DEF StartRun, SampleTime, SampleDate, StatDirectory, StatFile, Midnight, Ended,
      vars, locals

\* Between runs of which none was killed or failed, latest.csv.OLD is the
\* whole file of the last day before that of latest.csv on which anything was
\* logged: a rotation neither skips a day nor rotates one twice.
THEOREM OldIsTheLastButOne == Spec => []OldIsPreviousDay
<1>1. Init => OInv
  <2> SUFFICES ASSUME Init PROVE Rotated
    BY InitMirrored DEF OInv
  <2>1. Latest \in Names /\ Old \in Names
    BY DEF Names
  <2> QED BY <2>1 DEF Init, Rotated, Settled
<1>2. Spec => []OInv
  BY <1>1, StepRotated, PTL DEF Spec
<1>3. OInv => OldIsPreviousDay
  BY DEF OInv, Rotated, Settled, LastBefore, OldIsPreviousDay
<1> QED BY <1>2, <1>3, PTL

=============================================================================
