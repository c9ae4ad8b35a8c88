-------------------------- MODULE CollectorProofs --------------------------
(***************************************************************************)
(* Proofs about Collector, for any command lines, inverters, names, polls  *)
(* and number of runs: type correctness, that directories are made from    *)
(* the root on, whatever mkdir fails for, that rows of two inverters never *)
(* share a directory if their names were found, that rows are where the    *)
(* command line says, and what their cells read.                           *)
(***************************************************************************)
EXTENDS Collector, Recursion, TLAPS, SequenceTheorems

OptionsType ==
  [state : {"scanning", "over", "version", "usage"}, pending : {""} \cup WithArgument,
   address : {NoAddress} \cup Words, log_directory : Words,
   debug_raw : {"0"} \cup Words, discovery : BOOLEAN]

Types ==
  /\ TypeOK
  /\ options \in OptionsType
  /\ device_name \in {<<>>} \cup {NameOf[i] : i \in Inverters}
  /\ dirs \in SUBSET Seq(STRING)
  /\ pc = "idle" => optind = 1
  /\ pc \in {"mkdir", "mkdirLog"} => walked < Len(target)

\* Directories with all their parents.
Closed(D) == \A d \in D : \A n \in 0 .. Len(d) : SubSeq(d, 1, n) \in D

\* create_directory has made the path as far as it has walked; the first one it
\* walks is the log directory.
WalkInv ==
  /\ <<>> \in dirs
  /\ pc \in Initializing \cup Logging => Prefix(walked) \in dirs
  /\ failed => pc \in {"check", "checkLog"}
  /\ pc \in Initializing /\ ~failed => target = Path(options.log_directory)
  /\ DirectoriesInOrder

\* The directory of a row is there when the row is written.
LogInv ==
  /\ pc \in Logging => target = FullDir
  /\ pc = "log" => FullDir \in dirs
  /\ \A r \in rows : r.dir \in dirs

DInv == Types /\ Closed(dirs) /\ WalkInv /\ LogInv

----------------------------------------------------------------------------
(* Options, paths and names.                                               *)

\* A word of a command line may name a directory.
LEMMA WordsOf ==
  ASSUME NEW a \in CommandLines, NEW i \in DOMAIN a
  PROVE  a[i] \in Words
BY DEF Words

\* The path that a word names is a sequence of parts.
LEMMA PathType == \A word \in Words : Path(word) \in Seq(STRING)
BY ConstantsAssumption DEF Path

\* One round of the getopt loop keeps the types of the options.
LEMMA ScannedType ==
  ASSUME NEW o \in OptionsType, NEW word \in Words
  PROVE  Scanned(o, word) \in OptionsType
<1>1. Taken(o, word) \in OptionsType
  BY DEF Taken, OptionsType
<1> QED BY <1>1 DEF Scanned, OptionsType, WithArgument

\* So are the options before the loop.
LEMMA DefaultsType == Defaults \in OptionsType
BY DEF Defaults, OptionsType, Words

\* The last part of a name that ends as NamesAssumption says.
LastPart(i) == NameOf[i][Len(NameOf[i])]

\* It is what get_serial finds; without a name it finds nothing.
LEMMA SerialOfName ==
  ASSUME NEW i \in Inverters
  PROVE  LastPart(i) \in STRING /\ SerialOf(NameOf[i]) = <<LastPart(i)>>
<1> DEFINE name == NameOf[i]
           n == Len(name)
           marks == {k \in DOMAIN name : name[k] = SN}
<1>1. /\ name \in Seq(STRING) /\ n \in Nat /\ n > 1
      /\ name[n - 1] = SN /\ name[n] # SN /\ DOMAIN name = 1 .. n
  BY NamesAssumption
<1> HIDE DEF n, name
<1>2. n - 1 \in marks /\ \A j \in marks : j <= n - 1
  BY <1>1
<1>3. \A k \in marks : (\A j \in marks : j <= k) => k = n - 1
  <2> SUFFICES ASSUME NEW k \in marks, \A j \in marks : j <= k PROVE k = n - 1
    OBVIOUS
  <2>1. k \in 1 .. n /\ k <= n - 1 /\ n - 1 <= k
    BY <1>1, <1>2
  <2> QED BY <1>1, <2>1
<1>4. (CHOOSE k \in marks : \A j \in marks : j <= k) = n - 1
  BY <1>2, <1>3
<1>5. SerialOf(name) = SubSeq(name, n, n)
  <2>1. marks # {} /\ (n - 1) + 1 = n
    BY <1>1, <1>2
  <2> QED BY <1>4, <2>1 DEF SerialOf, n
<1>6. SubSeq(name, n, n) = <<name[n]>> /\ name[n] \in STRING
  <2>1. n \in DOMAIN name /\ name[n] \in STRING
    BY <1>1
  <2>2. \A k \in n .. n : name[k] \in STRING
    BY <1>1, <2>1
  <2> DEFINE one == SubSeq(name, n, n)
  <2>3. /\ one \in Seq(STRING) /\ Len(one) = 1
        /\ \A k \in 1 .. n - n + 1 : one[k] = name[n + k - 1]
    BY <1>1, <2>2, SubSeqProperties
  <2>4. one[1] = name[n]
    BY <1>1, <2>3
  <2> HIDE DEF one
  <2>5. one = <<name[n]>>
    BY <2>3, <2>4
  <2> QED BY <2>1, <2>5 DEF one
<1> QED BY <1>5, <1>6 DEF LastPart, name, n

LEMMA SerialOfNone == SerialOf(<<>>) = <<>>
<1>1. {k \in DOMAIN <<>> : <<>>[k] = SN} = {}
  OBVIOUS
<1> QED BY <1>1 DEF SerialOf

\* The directory of a row is a path.
LEMMA FullDirType ==
  ASSUME Types
  PROVE  /\ FullDir \in Seq(STRING) /\ Path(options.log_directory) \in Seq(STRING)
         /\ SerialNumber \in Seq(STRING)
<1>1. Path(options.log_directory) \in Seq(STRING)
  BY PathType DEF Types, OptionsType
<1>2. SerialOf(device_name) \in Seq(STRING)
  <2>1. CASE device_name = <<>>
    <3>1. <<>> \in Seq(STRING)
      OBVIOUS
    <3> QED BY <2>1, <3>1, SerialOfNone
  <2>2. ASSUME NEW i \in Inverters, device_name = NameOf[i]
        PROVE  SerialOf(device_name) \in Seq(STRING)
    BY <2>2, SerialOfName
  <2> QED BY <2>1, <2>2 DEF Types
<1> QED BY <1>1, <1>2 DEF FullDir, SerialNumber

----------------------------------------------------------------------------
(* Types.                                                                  *)

\* Before the first run.
LEMMA InitTypes == Init => Types
<1> SUFFICES ASSUME Init PROVE Types
  OBVIOUS
<1>1. /\ pc = "idle" /\ argv = <<>> /\ optind = 1 /\ options = Defaults /\ device_name = <<>>
      /\ target = <<>> /\ walked = 0 /\ failed = FALSE /\ dirs = {<<>>}
      /\ runs = 0
  BY Zenon DEF Init
<1>2. Len(argv) = 0 /\ <<>> \in Seq(STRING) /\ Len(target) = 0
  BY <1>1
<1>3. Defaults.state = "scanning"
  BY DEF Defaults
<1>4. TypeOK
  <2>1. failed \in BOOLEAN
    BY <1>1, Zenon
  <2>2. \A d \in dirs : d \in Seq(STRING)
    BY <1>1, <1>2
  <2>3. 0 \in 0 .. MaxRuns
    BY ConstantsAssumption
  <2> QED BY <1>1, <1>2, <1>3, <2>1, <2>2, <2>3 DEF TypeOK
<1> QED BY <1>1, <1>2, <1>4, DefaultsType DEF Types

\* The end of a run keeps the types.
LEMMA EndTypes == Types /\ End /\ dirs' = dirs => Types'
<1> SUFFICES ASSUME Types, End, dirs' = dirs PROVE Types'
  OBVIOUS
<1>1. /\ pc' = "idle" /\ argv' = <<>> /\ optind' = 1 /\ options' = Defaults
      /\ device_name' = <<>> /\ target' = <<>> /\ walked' = 0 /\ failed' = FALSE
      /\ runs' = runs
  BY Zenon DEF End
<1>2. Len(argv') = 0 /\ <<>> \in Seq(STRING) /\ Len(target') = 0
  BY <1>1
<1>3. Defaults.state = "scanning"
  BY DEF Defaults
<1>4. TypeOK'
  <2>1. failed' \in BOOLEAN
    BY <1>1, Zenon
  <2>2. (\A d \in dirs : d \in Seq(STRING))' /\ (runs \in 0 .. MaxRuns)'
    BY <1>1 DEF Types, TypeOK
  <2> QED BY <1>1, <1>2, <1>3, <2>1, <2>2 DEF TypeOK
<1> QED BY <1>1, <1>2, <1>4, DefaultsType DEF Types

\* Every step keeps the types.
LEMMA StepTypes == Types /\ [Next]_vars => Types'
<1> SUFFICES ASSUME Types, [Next]_vars PROVE Types'
  OBVIOUS
<1> USE DEF run, walk, disk
<1>0. /\ TypeOK /\ options \in OptionsType /\ dirs \in SUBSET Seq(STRING)
      /\ device_name \in {<<>>} \cup {NameOf[i] : i \in Inverters}
      /\ target \in Seq(STRING) /\ Len(target) \in Nat /\ walked \in 0 .. Len(target)
  BY DEF Types, TypeOK
<1>1. CASE Launch
  <2>1. argv' \in CommandLines /\ Len(argv') \in Nat /\ runs' \in 0 .. MaxRuns
    BY <1>0, <1>1, ConstantsAssumption DEF Launch, TypeOK
  <2>2. optind' = 1 /\ 1 \in 1 .. Len(argv') + 1
    BY <1>0, <1>1, <2>1 DEF Launch, Types
  <2> QED BY <1>0, <1>1, <2>1, <2>2 DEF Launch, Types, TypeOK, Working
<1>2. CASE TurnedAway
  BY <1>0, <1>2, ConstantsAssumption DEF TurnedAway, Types, TypeOK
<1>3. CASE ScanWord
  <2>1. argv \in CommandLines /\ optind \in DOMAIN argv /\ argv \in Seq(STRING)
    BY <1>0, <1>3, ConstantsAssumption DEF ScanWord, TypeOK
  <2>2. options' \in OptionsType
    BY <1>0, <1>3, <2>1, ScannedType, WordsOf DEF ScanWord
  <2>3. optind' \in 1 .. Len(argv) + 1
    BY <1>0, <1>3, <2>1 DEF ScanWord, TypeOK
  <2>4. options'.state \in {"scanning", "over", "version", "usage"}
    BY <2>2 DEF OptionsType
  <2> QED BY <1>0, <1>3, <2>2, <2>3, <2>4 DEF ScanWord, Types, TypeOK
<1>4. ASSUME /\ pc' \in Working \ {"idle"}
             /\ pc' \in {"mkdir", "mkdirLog"} => walked' < Len(target')
             /\ UNCHANGED <<argv, optind, options, runs>>
             /\ dirs' \in SUBSET Seq(STRING) /\ target' \in Seq(STRING)
             /\ walked' \in 0 .. Len(target') /\ failed' \in BOOLEAN
             /\ device_name' \in {<<>>} \cup {NameOf[i] : i \in Inverters}
      PROVE  Types'
  BY <1>0, <1>4 DEF Types, TypeOK, Working
<1>5. CASE MakeLogDirectory
  <2>1. target' \in Seq(STRING) /\ walked' = 0 /\ failed' \in BOOLEAN
    <3>1. options.log_directory \in Words
      BY <1>0 DEF OptionsType
    <3>2. PathOf(options.log_directory) \in [absolute : BOOLEAN, parts : Seq(STRING)]
      BY <3>1, ConstantsAssumption
    <3>3. <<>> \in Seq(STRING)
      OBVIOUS
    <3> QED BY <1>5, <3>2, <3>3 DEF MakeLogDirectory, StartWalk
  <2>2. walked' \in 0 .. Len(target')
    BY <2>1
  <2> QED BY <1>0, <1>4, <1>5, <2>1, <2>2 DEF MakeLogDirectory, Working, Initializing
<1>6. CASE CheckDirectory
  <2>1. /\ walked' \in 0 .. Len(target) /\ target' = target /\ failed' = failed
        /\ pc' \in Working \ {"idle"}
        /\ pc' \in {"mkdir", "mkdirLog"} => walked' < Len(target)
    BY <1>0, <1>6 DEF CheckDirectory, Working, Going, Initializing, Logging
  <2>2. failed' \in BOOLEAN
    <3>1. failed \in BOOLEAN
      BY <1>0 DEF TypeOK
    <3>2. failed' = failed
      BY <2>1
    <3> QED BY <3>1, <3>2, Zenon
  <2>3. /\ UNCHANGED <<argv, optind, options, runs>>
        /\ dirs' = dirs /\ device_name' = device_name
    BY <1>6 DEF CheckDirectory
  <2>4. /\ dirs' \in SUBSET Seq(STRING) /\ target' \in Seq(STRING)
        /\ walked' \in 0 .. Len(target')
        /\ pc' \in {"mkdir", "mkdirLog"} => walked' < Len(target')
        /\ device_name' \in {<<>>} \cup {NameOf[i] : i \in Inverters}
    BY <1>0, <2>1, <2>3
  <2> QED BY <1>4, <2>1, <2>2, <2>3, <2>4
<1>7. CASE MakeDirectory
  <2>1. walked < Len(target) /\ walked + 1 \in 1 .. Len(target)
    BY <1>0, <1>7 DEF MakeDirectory, Types
  <2>2. Prefix(walked + 1) \in Seq(STRING)
    BY <1>0, <2>1 DEF Prefix
  <2>3. /\ pc' \in Working \ {"idle"} /\ pc' \notin {"mkdir", "mkdirLog"}
        /\ walked' \in 0 .. Len(target) /\ target' = target
        /\ dirs' \in SUBSET Seq(STRING)
    BY <1>0, <1>7, <2>1, <2>2 DEF MakeDirectory, Working, Going, Initializing, Logging
  <2>4. failed' \in BOOLEAN
    <3>1. failed \in BOOLEAN
      BY <1>0 DEF TypeOK
    <3>2. failed' = failed \/ failed' = TRUE
      BY <1>7 DEF MakeDirectory
    <3> QED BY <3>1, <3>2, Zenon
  <2> QED BY <1>0, <1>4, <1>7, <2>3, <2>4 DEF MakeDirectory
<1>8. CASE Proceed \/ GetName \/ Poll \/ PollLinkLost \/ EndWalk
  <2>1. device_name' \in {<<>>} \cup {NameOf[i] : i \in Inverters}
    BY <1>0, <1>8 DEF Proceed, GetName, Poll, PollLinkLost, EndWalk
  <2> QED
    BY <1>0, <1>4, <1>8, <2>1 
       DEF TypeOK, Working, Going, Proceed, GetName, Poll, PollLinkLost, EndWalk
<1>9. CASE StartLog
  <2>1. FullDir \in Seq(STRING)
    BY FullDirType
  <2>2. 0 \in 0 .. Len(FullDir)
    BY <2>1
  <2> QED
    BY <1>0, <1>4, <1>9, <2>1, <2>2 
       DEF StartLog, StartWalk, TypeOK, Working, Going, Logging
<1>10. CASE \/ EndAtOptions \/ EndWithUsage \/ EndDiscovery \/ PollTimeout
            \/ EndWithoutLine \/ EndWithoutLog \/ Log \/ Kill
  <2>1. End /\ dirs' = dirs
    BY <1>10 DEF EndAtOptions, EndWithUsage, EndDiscovery, PollTimeout,
                 EndWithoutLine, EndWithoutLog, Log, Kill
  <2> QED BY <2>1, EndTypes
<1>11. CASE OtherMakesDirectory
  <2>1. dirs' \in SUBSET Seq(STRING)
    BY <1>0, <1>11, ConstantsAssumption DEF OtherMakesDirectory
  <2> QED BY <1>0, <1>11, <2>1 DEF OtherMakesDirectory, Types, TypeOK
<1>12. CASE UNCHANGED vars
  BY <1>0, <1>12 DEF vars, Types, TypeOK
<1> QED
  BY <1>1, <1>2, <1>3, <1>5, <1>6, <1>7, <1>8, <1>9, <1>10, <1>11, <1>12 DEF Next, Main, Ended

\* What a run knows keeps its types, whatever the command line.
THEOREM TypeCorrect == Spec => []TypeOK
<1>1. Types => TypeOK
  BY DEF Types
<1> QED BY InitTypes, StepTypes, <1>1, PTL DEF Spec

----------------------------------------------------------------------------
(* Directories.                                                            *)

\* A part of a path as far as one of its parts.
LEMMA PrefixOfPrefix ==
  ASSUME NEW t \in Seq(STRING), NEW w \in 0 .. Len(t), NEW n \in 0 .. w
  PROVE  SubSeq(SubSeq(t, 1, w), 1, n) = SubSeq(t, 1, n)
<1>1. CASE n = 0
  BY <1>1, SubSeqEmpty
<1>2. CASE n # 0
  <2>1. /\ Len(t) \in Nat /\ 1 \in 1 .. Len(t) /\ w \in 1 .. Len(t)
        /\ 1 \in 1 .. w - 1 + 1 /\ n \in 1 .. w - 1 + 1
        /\ 1 + 1 - 1 = 1 /\ 1 + n - 1 = n
    BY <1>2
  <2> QED BY <2>1, SubSeqOfSubSeq
<1> QED BY <1>1, <1>2

\* A directory made in another one leaves no directory without its parents.
LEMMA OneMoreDirectory ==
  ASSUME NEW D \in SUBSET Seq(STRING), Closed(D),
         NEW t \in Seq(STRING), NEW w \in 0 .. Len(t) - 1, SubSeq(t, 1, w) \in D
  PROVE  Closed(D \cup {SubSeq(t, 1, w + 1)})
<1> DEFINE new == SubSeq(t, 1, w + 1)
<1>1. new \in Seq(STRING) /\ Len(new) = w + 1 /\ w + 1 \in 1 .. Len(t)
  BY SubSeqProperties
<1>2. ASSUME NEW n \in 0 .. Len(new) PROVE SubSeq(new, 1, n) \in D \cup {new}
  <2>1. CASE n = w + 1
    BY <1>1, <2>1, SubSeqFull
  <2>2. CASE n # w + 1
    <3>1. n \in 0 .. w /\ n \in 0 .. w + 1 /\ w \in 0 .. Len(t) /\ w + 1 \in 0 .. Len(t)
      BY <1>1, <2>2
    <3>2. SubSeq(new, 1, n) = SubSeq(t, 1, n)
      BY <3>1, PrefixOfPrefix
    <3>3. SubSeq(SubSeq(t, 1, w), 1, n) = SubSeq(t, 1, n)
      BY <3>1, PrefixOfPrefix
    <3>4. Len(SubSeq(t, 1, w)) = w
      BY <3>1
    <3> QED BY <3>1, <3>2, <3>3, <3>4 DEF Closed
  <2> QED BY <2>1, <2>2
<1> QED BY <1>2 DEF Closed

\* Before the first run there is the root.
LEMMA InitDirectories == Init => DInv
<1> SUFFICES ASSUME Init PROVE DInv
  OBVIOUS
<1>1. pc = "idle" /\ failed = FALSE /\ dirs = {<<>>} /\ rows = {}
  BY Zenon DEF Init
<1>2. Closed(dirs)
  <2>1. \A n \in 0 .. Len(<<>>) : SubSeq(<<>>, 1, n) = <<>>
    <3>1. Len(<<>>) = 0 /\ SubSeq(<<>>, 1, 0) = <<>>
      BY SubSeqEmpty
    <3> QED BY <3>1
  <2> QED BY <1>1, <2>1 DEF Closed
<1>3. WalkInv
  BY <1>1 DEF WalkInv, DirectoriesInOrder, Initializing, Logging, Going
<1>4. LogInv
  BY <1>1 DEF LogInv, Logging
<1> QED BY <1>2, <1>3, <1>4, InitTypes DEF DInv

\* Every step makes directories in order.
LEMMA StepDirectories == DInv /\ [Next]_vars => DInv'
<1> SUFFICES ASSUME DInv, [Next]_vars PROVE Closed(dirs)' /\ WalkInv' /\ LogInv'
  BY StepTypes DEF DInv
<1> USE DEF run, walk, disk
<1>0. /\ Types /\ Closed(dirs) /\ WalkInv /\ LogInv
      /\ dirs \in SUBSET Seq(STRING)
      /\ target \in Seq(STRING) /\ Len(target) \in Nat /\ walked \in 0 .. Len(target)
  BY DEF DInv, Types, TypeOK
<1>z. \A t : SubSeq(t, 1, 0) = <<>>
  BY SubSeqEmpty
<1>a. ASSUME dirs' = dirs, rows' = rows, options' = options, device_name' = device_name,
             pc' \in Going \ Logging, ~failed', Path(options.log_directory) \in dirs,
             pc' = "log" => FullDir \in dirs
      PROVE  Closed(dirs)' /\ WalkInv' /\ LogInv'
  <2>1. Closed(dirs)'
    BY <1>0, <1>a
  <2>2. DirectoriesInOrder'
    BY <1>0, <1>a DEF DirectoriesInOrder
  <2>3. WalkInv'
    BY <1>0, <1>a, <2>2 DEF WalkInv, Going, Initializing, Logging
  <2>4. LogInv'
    BY <1>0, <1>a DEF LogInv, Going, Logging, FullDir, SerialNumber
  <2> QED BY <2>1, <2>3, <2>4
<1>1. CASE Launch \/ ScanWord
  <2>1. pc \in {"idle", "arguments"} /\ pc' = "arguments" /\ UNCHANGED <<walk, disk>>
    BY <1>1 DEF Launch, ScanWord
  <2>2. ~failed'
    BY <1>0, <2>1 DEF WalkInv
  <2>3. Closed(dirs)'
    BY <1>0, <2>1
  <2>4. DirectoriesInOrder'
    BY <2>1, <2>2 DEF DirectoriesInOrder, Going, Logging
  <2>5. WalkInv' /\ LogInv'
    BY <1>0, <2>1, <2>2, <2>4 DEF WalkInv, LogInv, Initializing, Logging
  <2> QED BY <2>3, <2>5
<1>2. CASE TurnedAway \/ UNCHANGED vars
  <2>1. UNCHANGED <<pc, dirs, rows, target, walked, failed, options, device_name>>
    BY <1>2 DEF TurnedAway, vars
  <2>2. Closed(dirs)'
    BY <1>0, <2>1
  <2>3. Prefix(walked)' = Prefix(walked)
    BY <2>1 DEF Prefix
  <2>4. DirectoriesInOrder'
    BY <1>0, <2>1, <2>3 DEF WalkInv, DirectoriesInOrder
  <2>5. WalkInv'
    BY <1>0, <2>1, <2>3, <2>4 DEF WalkInv
  <2>6. LogInv'
    BY <1>0, <2>1 DEF LogInv, FullDir, SerialNumber
  <2> QED BY <2>2, <2>5, <2>6
<1>3. CASE MakeLogDirectory
  <2>1. /\ pc' = "check" /\ walked' = 0 /\ dirs' = dirs /\ rows' = rows
        /\ options' = options /\ failed' = ~PathOf(options.log_directory).absolute
        /\ PathOf(options.log_directory).absolute => target' = Path(options.log_directory)
    BY <1>3 DEF MakeLogDirectory, StartWalk, Path
  <2>2. Closed(dirs)'
    BY <1>0, <2>1
  <2>3. DirectoriesInOrder'
    BY <2>1 DEF DirectoriesInOrder, Going, Logging
  <2>4. WalkInv'
    BY <1>0, <1>z, <2>1, <2>3 DEF WalkInv, Prefix, Initializing, Logging
  <2>5. LogInv'
    BY <1>0, <2>1 DEF LogInv, Logging
  <2> QED BY <2>2, <2>4, <2>5
<1>4. CASE CheckDirectory
  <2>1. /\ target' = target /\ failed' = failed /\ dirs' = dirs /\ rows' = rows /\ ~failed
        /\ options' = options /\ device_name' = device_name
        /\ \/ pc \in Initializing /\ pc' \in Initializing
           \/ pc \in Logging /\ pc' \in Logging
    BY <1>4 DEF CheckDirectory, Initializing, Logging
  <2>2. Closed(dirs)'
    BY <1>0, <2>1
  <2>3. DirectoriesInOrder'
    BY <1>0, <2>1 DEF WalkInv, DirectoriesInOrder, Initializing, Logging, Going
  <2>4. Prefix(walked)' \in dirs
    <3>1. CASE Prefix(walked + 1) \in dirs
      BY <1>0, <1>4, <2>1, <3>1 DEF CheckDirectory, Prefix
    <3>2. CASE Prefix(walked + 1) \notin dirs
      BY <1>0, <1>4, <2>1, <3>2 DEF CheckDirectory, Prefix, WalkInv
    <3> QED BY <3>1, <3>2
  <2>5. WalkInv'
    BY <1>0, <2>1, <2>3, <2>4 DEF WalkInv, Initializing, Logging
  <2>6. LogInv'
    BY <1>0, <2>1 DEF LogInv, Initializing, Logging, FullDir, SerialNumber
  <2> QED BY <2>2, <2>5, <2>6
<1>5. CASE MakeDirectory
  <2>1. /\ target' = target /\ rows' = rows /\ options' = options
        /\ device_name' = device_name
        /\ \/ pc = "mkdir" /\ pc' = "check"
           \/ pc = "mkdirLog" /\ pc' = "checkLog"
        /\ \/ /\ Prefix(walked + 1) \notin dirs /\ dirs' = dirs \cup {Prefix(walked + 1)}
              /\ walked' = walked + 1 /\ failed' = failed
           \/ failed' = TRUE /\ dirs' = dirs /\ walked' = walked
    BY <1>5 DEF MakeDirectory
  <2>2. walked \in 0 .. Len(target) - 1 /\ Prefix(walked) \in dirs /\ ~failed
    BY <1>0, <2>1 DEF Types, WalkInv, Initializing, Logging
  <2>3. Closed(dirs)'
    BY <1>0, <2>1, <2>2, OneMoreDirectory DEF Prefix
  <2>4. Prefix(walked)' \in dirs'
    BY <2>1, <2>2 DEF Prefix
  <2>5. DirectoriesInOrder'
    BY <1>0, <2>1, <2>4 DEF WalkInv, DirectoriesInOrder, Going, Logging
  <2>6. WalkInv'
    BY <1>0, <2>1, <2>2, <2>4, <2>5 DEF WalkInv, Initializing, Logging
  <2>7. LogInv'
    BY <1>0, <2>1 DEF LogInv, Logging, FullDir, SerialNumber
  <2> QED BY <2>3, <2>6, <2>7
<1>6. CASE Proceed
  <2>1. /\ dirs' = dirs /\ rows' = rows /\ options' = options /\ device_name' = device_name
        /\ pc = "check" /\ walked = Len(target) /\ ~failed /\ failed' = failed /\ pc' = "name"
    BY <1>6 DEF Proceed, Ready, WalkOver
  <2>2. Path(options.log_directory) \in dirs
    BY <1>0, <2>1, SubSeqFull DEF WalkInv, Prefix, Initializing
  <2> QED BY <1>a, <2>1, <2>2 DEF Going, Logging
<1>7. CASE Poll \/ PollLinkLost
  <2>1. /\ dirs' = dirs /\ rows' = rows /\ options' = options /\ device_name' = device_name
        /\ pc = "poll" /\ failed' = failed /\ pc' \in {"process", "hung"}
    BY <1>7 DEF Poll, PollLinkLost
  <2>2. ~failed' /\ Path(options.log_directory) \in dirs
    BY <1>0, <2>1 DEF WalkInv, DirectoriesInOrder, Going
  <2> QED BY <1>a, <2>1, <2>2 DEF Going, Logging
<1>8. CASE GetName
  <2>1. /\ dirs' = dirs /\ rows' = rows /\ options' = options
        /\ pc = "name" /\ failed' = failed /\ pc' = "poll"
    BY <1>8 DEF GetName
  <2>2. ~failed' /\ Path(options.log_directory) \in dirs
    BY <1>0, <2>1 DEF WalkInv, DirectoriesInOrder, Going
  <2>3. DirectoriesInOrder'
    BY <2>1, <2>2 DEF DirectoriesInOrder
  <2>4. WalkInv'
    BY <1>0, <2>1, <2>2, <2>3 DEF WalkInv, Initializing, Logging
  <2> QED BY <1>0, <2>1, <2>4 DEF LogInv, Logging
<1>9. CASE StartLog
  <2>1. /\ dirs' = dirs /\ rows' = rows /\ options' = options /\ device_name' = device_name
        /\ pc = "process" /\ failed' = failed
    BY <1>9 DEF StartLog, StartWalk
  <2>2. ~failed' /\ Path(options.log_directory) \in dirs
    BY <1>0, <2>1 DEF WalkInv, DirectoriesInOrder, Going
  <2>3. CASE FullDir \in dirs
    <3>1. pc' = "log"
      BY <1>9, <2>3 DEF StartLog
    <3> QED BY <1>a, <2>1, <2>2, <2>3, <3>1 DEF Going, Logging
  <2>4. CASE FullDir \notin dirs
    <3>1. pc' = "checkLog" /\ target' = FullDir /\ walked' = 0
      BY <1>9, <2>4 DEF StartLog, StartWalk
    <3>2. DirectoriesInOrder'
      BY <2>1, <2>2 DEF DirectoriesInOrder
    <3>3. WalkInv'
      BY <1>0, <1>z, <2>1, <2>2, <3>1, <3>2 DEF WalkInv, Prefix, Initializing
    <3>4. LogInv'
      BY <1>0, <2>1, <3>1 DEF LogInv, Logging, FullDir, SerialNumber
    <3> QED BY <1>0, <2>1, <3>3, <3>4
  <2> QED BY <2>3, <2>4
<1>10. CASE EndWalk
  <2>1. /\ dirs' = dirs /\ rows' = rows /\ options' = options /\ device_name' = device_name
        /\ pc = "checkLog" /\ failed' = failed /\ ~failed /\ pc' = "log" /\ walked = Len(target)
    BY <1>10 DEF EndWalk
  <2>2. Prefix(walked) = target /\ Prefix(walked) \in dirs /\ target = FullDir
    BY <1>0, <2>1, SubSeqFull DEF Prefix, WalkInv, LogInv, Logging
  <2>3. Path(options.log_directory) \in dirs
    BY <1>0, <2>1 DEF WalkInv, DirectoriesInOrder, Going, Logging
  <2> QED BY <1>a, <2>1, <2>2, <2>3 DEF Going, Logging
<1>11. CASE \/ EndAtOptions \/ EndWithUsage \/ EndDiscovery \/ PollTimeout
            \/ EndWithoutLine \/ EndWithoutLog \/ Log \/ Kill
  <2>1. End /\ dirs' = dirs
    BY <1>11 DEF EndAtOptions, EndWithUsage, EndDiscovery, PollTimeout,
                 EndWithoutLine, EndWithoutLog, Log, Kill
  <2>2. pc' = "idle" /\ ~failed'
    BY <2>1 DEF End
  <2>3. DirectoriesInOrder'
    BY <2>2 DEF DirectoriesInOrder, Going, Logging
  <2>4. WalkInv'
    BY <1>0, <2>1, <2>2, <2>3 DEF WalkInv, Initializing, Logging
  <2>5. \A r \in rows' : r.dir \in dirs
    <3>1. CASE Log
      <4>1. rows' = rows \cup {Row} /\ Row.dir = FullDir /\ FullDir \in dirs
        BY <1>0, <3>1 DEF Log, Row, LogInv
      <4> QED BY <1>0, <4>1 DEF LogInv
    <3>2. CASE ~Log
      <4>1. rows' = rows
        BY <1>11, <3>2 DEF EndAtOptions, EndWithUsage, EndDiscovery, PollTimeout,
                           EndWithoutLine, EndWithoutLog, Kill
      <4> QED BY <1>0, <4>1 DEF LogInv
    <3> QED BY <3>1, <3>2
  <2> QED BY <1>0, <2>1, <2>2, <2>4, <2>5 DEF LogInv, Logging
<1>12. CASE OtherMakesDirectory
  <2>1. PICK d \in Foreign \ dirs :
          SubSeq(d, 1, Len(d) - 1) \in dirs /\ dirs' = dirs \cup {d}
    BY <1>12 DEF OtherMakesDirectory
  <2>2. d \in Seq(STRING) /\ d # <<>>
    BY <2>1, ConstantsAssumption
  <2>3. UNCHANGED <<pc, options, device_name, target, walked, failed, rows>>
    BY <1>12 DEF OtherMakesDirectory
  <2>4. Closed(dirs)'
    <3>1. Len(d) - 1 \in 0 .. Len(d) - 1 /\ (Len(d) - 1) + 1 = Len(d)
      BY <2>2, EmptySeq
    <3>2. SubSeq(d, 1, (Len(d) - 1) + 1) = d
      BY <2>2, <3>1, SubSeqFull
    <3> QED BY <1>0, <2>1, <2>2, <3>1, <3>2, OneMoreDirectory
  <2>5. Prefix(walked)' = Prefix(walked)
    BY <2>3 DEF Prefix
  <2>6. DirectoriesInOrder'
    BY <1>0, <2>1, <2>3, <2>5 DEF WalkInv, DirectoriesInOrder
  <2>7. WalkInv'
    BY <1>0, <2>1, <2>3, <2>5, <2>6 DEF WalkInv
  <2>8. LogInv'
    BY <1>0, <2>1, <2>3 DEF LogInv, FullDir, SerialNumber
  <2> QED BY <2>4, <2>7, <2>8
<1> QED
  BY <1>1, <1>2, <1>3, <1>4, <1>5, <1>6, <1>7, <1>8, <1>9, <1>10, <1>11, <1>12
     DEF Next, Main, Ended

\* Whatever mkdir fails for, whatever is on the disk already and whatever other
\* programs make, create_directory never lacks a parent, and a run that gets past
\* the arguments has its log directory.
THEOREM DirectoriesAreMade == Spec => []DirectoriesInOrder
<1>1. DInv => DirectoriesInOrder
  BY DEF DInv, WalkInv
<1> QED BY InitDirectories, StepDirectories, <1>1, PTL DEF Spec

\* A row is only ever written into a directory that is there, and so are all
\* the directories above it.
THEOREM RowsStandInDirectories == Spec => []RowsHaveDirectories
<1>1. DInv => RowsHaveDirectories
  BY DEF DInv, LogInv, Closed, RowsHaveDirectories
<1> QED BY InitDirectories, StepDirectories, <1>1, PTL DEF Spec

----------------------------------------------------------------------------
(* The inverter of a row.                                                  *)

\* A name is that of the inverter that was asked for it, and a row whose
\* inverter has a name stands in the directory of its serial number.
RInv ==
  /\ pc \in {"idle", "arguments"} => device_name = <<>>
  /\ device_name # <<>> =>
       options.address \in Inverters /\ device_name = NameOf[options.address]
  /\ \A r \in rows :
       r.named =>
         /\ r.inverter \in Inverters
         /\ \E root \in Seq(STRING) : r.dir = root \o <<LastPart(r.inverter)>>

\* The last part of a path.
LEMMA LastOf ==
  ASSUME NEW r \in Seq(STRING), NEW x \in STRING
  PROVE  Len(r \o <<x>>) = Len(r) + 1 /\ (r \o <<x>>)[Len(r) + 1] = x
<1>1. Append(r, x) = r \o <<x>>
  BY AppendIsConcat
<1>2. Len(Append(r, x)) = Len(r) + 1 /\ Append(r, x)[Len(r) + 1] = x
  BY AppendProperties
<1> QED BY <1>1, <1>2

\* Paths that are equal end alike.
LEMMA SameLast ==
  ASSUME NEW r \in Seq(STRING), NEW s \in Seq(STRING), NEW x \in STRING, NEW y \in STRING,
         r \o <<x>> = s \o <<y>>
  PROVE  x = y
<1> DEFINE a == r \o <<x>>
           b == s \o <<y>>
<1>1. Len(a) = Len(r) + 1 /\ a[Len(r) + 1] = x /\ Len(b) = Len(s) + 1 /\ b[Len(s) + 1] = y
  BY LastOf
<1>2. a = b
  OBVIOUS
<1> HIDE DEF a, b
<1>3. Len(r) \in Nat /\ Len(s) \in Nat
  OBVIOUS
<1> QED BY <1>1, <1>2, <1>3

\* Before the first run there are no rows.
LEMMA InitRows == Init => Types /\ RInv
<1>1. Init => device_name = <<>> /\ rows = {}
  BY Zenon DEF Init
<1> QED BY <1>1, InitTypes DEF RInv

\* Every step keeps rows and names together.
LEMMA StepRows == Types /\ RInv /\ [Next]_vars => (Types /\ RInv)'
<1> SUFFICES ASSUME Types, RInv, [Next]_vars PROVE RInv'
  BY StepTypes
<1> USE DEF run, walk, disk
<1>1. CASE Launch \/ ScanWord
  <2>1. pc \in {"idle", "arguments"} /\ UNCHANGED <<device_name, rows>>
    BY <1>1 DEF Launch, ScanWord
  <2> QED BY <2>1 DEF RInv
<1>2. CASE \/ TurnedAway \/ MakeLogDirectory \/ CheckDirectory \/ MakeDirectory \/ Proceed
           \/ Poll \/ PollLinkLost \/ StartLog \/ EndWalk \/ OtherMakesDirectory
           \/ UNCHANGED vars
  <2>1. /\ UNCHANGED <<device_name, options, rows>>
        /\ pc' = pc \/ pc' \notin {"idle", "arguments"}
    BY <1>2 DEF TurnedAway, MakeLogDirectory, CheckDirectory, MakeDirectory, Proceed,
                Poll, PollLinkLost, StartLog, EndWalk, OtherMakesDirectory, vars
  <2> QED BY <2>1 DEF RInv
<1>3. CASE GetName
  <2>1. pc' = "poll" /\ UNCHANGED <<options, rows>>
    BY <1>3 DEF GetName
  <2>2. device_name' \in {<<>>} \cup {NameOf[i] : i \in Inverters \cap {options.address}}
    BY <1>3 DEF GetName
  <2> QED BY <2>1, <2>2 DEF RInv
<1>4. CASE Log
  <2>1. rows' = rows \cup {Row} /\ device_name' = <<>>
    BY <1>4 DEF Log, End
  <2>2. Row.named = (device_name # <<>>) /\ Row.inverter = options.address /\ Row.dir = FullDir
    BY DEF Row
  <2>3. ASSUME device_name # <<>>
        PROVE  /\ options.address \in Inverters
               /\ \E root \in Seq(STRING) : FullDir = root \o <<LastPart(options.address)>>
    <3>1. options.address \in Inverters /\ device_name = NameOf[options.address]
      BY <2>3 DEF RInv
    <3>2. SerialNumber = <<LastPart(options.address)>>
      BY <3>1, SerialOfName DEF SerialNumber
    <3>3. Path(options.log_directory) \in Seq(STRING)
      BY FullDirType
    <3> QED BY <3>1, <3>2, <3>3 DEF FullDir
  <2> QED BY <2>1, <2>2, <2>3 DEF RInv
<1>5. CASE \/ EndAtOptions \/ EndWithUsage \/ EndDiscovery \/ PollTimeout
           \/ EndWithoutLine \/ EndWithoutLog \/ Kill
  <2>1. rows' = rows /\ device_name' = <<>>
    BY <1>5 DEF EndAtOptions, EndWithUsage, EndDiscovery, PollTimeout,
                EndWithoutLine, EndWithoutLog, Kill, End
  <2> QED BY <2>1 DEF RInv
<1> QED
  BY <1>1, <1>2, <1>3, <1>4, <1>5 DEF Next, Main, Ended

\* However many names there are, and wherever the log directories lie in each
\* other, rows of two inverters that told their names stand apart.
THEOREM RowsOfAnInverter == Spec => []RowsInPlace
<1>1. Types /\ RInv => RowsInPlace
  <2> SUFFICES ASSUME RInv, NEW r \in rows, NEW s \in rows, r.dir = s.dir, r.named, s.named
               PROVE  r.inverter = s.inverter
    BY DEF RowsInPlace
  <2>1. /\ r.inverter \in Inverters /\ s.inverter \in Inverters
        /\ LastPart(r.inverter) \in STRING /\ LastPart(s.inverter) \in STRING
    BY SerialOfName DEF RInv
  <2>2. PICK p \in Seq(STRING) : r.dir = p \o <<LastPart(r.inverter)>>
    BY DEF RInv
  <2>3. PICK q \in Seq(STRING) : s.dir = q \o <<LastPart(s.inverter)>>
    BY DEF RInv
  <2>4. LastPart(r.inverter) = LastPart(s.inverter)
    BY <2>1, <2>2, <2>3, SameLast
  <2> QED BY <2>1, <2>4, NamesAssumption DEF LastPart
<1> QED BY InitRows, StepRows, <1>1, PTL DEF Spec

----------------------------------------------------------------------------
(* Command lines.                                                          *)

\* The rounds of Places.
PlacesUpTo(words) ==
  CHOOSE upTo : upTo = [n \in 0 .. Len(words) |->
        IF n = 0 THEN {}
        ELSE LET before == upTo[n - 1]
             IN  IF n - 1 \in before /\ words[n - 1] \in WithArgument THEN before
                 ELSE before \cup {n}]

\* Places is what they are behind the last round.
LEMMA PlacesLast ==
  ASSUME NEW words PROVE Places(words) = PlacesUpTo(words)[Len(words)]
BY DEF Places, PlacesUpTo

\* One round of it.
LEMMA PlacesRounds ==
  ASSUME NEW words \in Seq(STRING)
  PROVE  LET upTo == PlacesUpTo(words)
         IN  /\ upTo[0] = {}
             /\ \A n \in 1 .. Len(words) :
                  upTo[n] = IF n - 1 \in upTo[n - 1] /\ words[n - 1] \in WithArgument
                              THEN upTo[n - 1] ELSE upTo[n - 1] \cup {n}
<1> DEFINE b == Len(words)
           X == SUBSET Nat
           Body(g) == [n \in 0 .. b |->
                         IF n = 0 THEN {}
                         ELSE LET before == g[n - 1]
                              IN  IF n - 1 \in before /\ words[n - 1] \in WithArgument THEN before
                                  ELSE before \cup {n}]
           round == [n \in 1 .. b |-> [before \in X |->
                       IF n - 1 \in before /\ words[n - 1] \in WithArgument THEN before
                       ELSE before \cup {n}]]
<1>1. b \in Nat /\ {} \in X /\ round \in [1 .. b -> [X -> X]]
  <2>1. b \in Nat /\ {} \in X
    OBVIOUS
  <2>2. ASSUME NEW n \in 1 .. b, NEW before \in X PROVE before \cup {n} \in X
    BY <2>1
  <2> HIDE DEF b, X
  <2> QED BY <2>1, <2>2
<1>2. PICK f \in [0 .. b -> X] :
        f[0] = {} /\ \A n \in 1 .. b : f[n] = round[n][f[n - 1]]
  <2> DEFINE none == {}
  <2> HIDE DEF b, X, round, none
  <2>1. none \in X
    BY <1>1 DEF none
  <2>2. Loops(b, X, none, round)
    <3>1. b \in Nat /\ round \in Bodies(b, X)
      BY <1>1 DEF Bodies
    <3> QED BY <3>1, <2>1, Rounds
  <2> QED BY <2>2 DEF none, Loops
<1>3. f = Body(f)
  <2>1. ASSUME NEW n \in 1 .. b
        PROVE  round[n][f[n - 1]] =
                 IF n - 1 \in f[n - 1] /\ words[n - 1] \in WithArgument THEN f[n - 1]
                 ELSE f[n - 1] \cup {n}
    <3>1. n - 1 \in 0 .. b
      BY <1>1
    <3>2. f[n - 1] \in X
      BY <3>1
    <3> HIDE DEF b, X
    <3> QED BY <3>2
  <2>2. f = [n \in 0 .. b |->
              IF n = 0 THEN {}
              ELSE IF n - 1 \in f[n - 1] /\ words[n - 1] \in WithArgument THEN f[n - 1]
              ELSE f[n - 1] \cup {n}]
    <3> HIDE DEF round, b, X
    <3>1. \A n \in 0 .. b : n # 0 => n \in 1 .. b
      BY <1>1
    <3> QED BY <1>2, <2>1, <3>1
  <2> QED BY <2>2, Zenon
<1>4. PlacesUpTo(words) = Body(PlacesUpTo(words))
  BY <1>3, Zenon DEF PlacesUpTo
<1> DEFINE up == PlacesUpTo(words)
<1> HIDE DEF up
<1>5. up = Body(up)
  BY <1>4 DEF up
<1>6. up[0] = {}
  <2>1. 0 \in 0 .. b
    BY <1>1
  <2> QED BY <1>5, <2>1
<1>7. ASSUME NEW n \in 1 .. b
      PROVE  up[n] = IF n - 1 \in up[n - 1] /\ words[n - 1] \in WithArgument
                              THEN up[n - 1] ELSE up[n - 1] \cup {n}
  <2>1. n \in 0 .. b /\ n # 0
    BY <1>1
  <2> HIDE DEF b
  <2> QED BY <1>5, <2>1
<1> QED BY <1>6, <1>7 DEF up

\* What getopt looks at, from one word to the next.
LEMMA PlacesOf ==
  ASSUME NEW words \in Seq(STRING)
  PROVE  /\ Places(words) \subseteq DOMAIN words
         /\ \A i \in DOMAIN words :
              i \in Places(words) <=> ~(i - 1 \in Places(words) /\ words[i - 1] \in WithArgument)
<1> DEFINE b == Len(words)
           up == PlacesUpTo(words)
           T == {n \in 0 .. b : up[n] \subseteq 1 .. n}
           S == {n \in 0 .. b : \A m \in 0 .. n : up[m] = up[n] \cap (1 .. m)}
<1> HIDE DEF up
<1>0. b \in Nat /\ 0 \in 0 .. b /\ b \in 0 .. b /\ DOMAIN words = 1 .. b
  OBVIOUS
<1> HIDE DEF b
<1>1. /\ up[0] = {}
      /\ \A n \in 1 .. b :
           up[n] = IF n - 1 \in up[n - 1] /\ words[n - 1] \in WithArgument
                     THEN up[n - 1] ELSE up[n - 1] \cup {n}
  BY PlacesRounds DEF up, b
<1>2. 0 .. b \subseteq T
  <2>1. 0 \in T
    BY <1>0, <1>1
  <2>2. ASSUME NEW n \in 1 .. b, n - 1 \in T PROVE n \in T
    <3>1. up[n - 1] \subseteq 1 .. n /\ n \in 1 .. n /\ n \in 0 .. b
      BY <1>0, <2>2
    <3>2. up[n] \subseteq 1 .. n
      BY <1>1, <3>1, ZenonT(30)
    <3> QED BY <3>1, <3>2
  <2> HIDE DEF T
  <2> QED BY <1>0, <2>1, <2>2, InductionUpTo
<1>3. 0 .. b \subseteq S
  <2>1. 0 \in S
    <3>1. \A m \in 0 .. 0 : m = 0
      OBVIOUS
    <3>2. up[0] = up[0] \cap (1 .. 0)
      BY <1>1
    <3> QED BY <1>0, <3>1, <3>2
  <2>2. ASSUME NEW n \in 1 .. b, n - 1 \in S PROVE n \in S
    <3> SUFFICES ASSUME NEW m \in 0 .. n PROVE up[m] = up[n] \cap (1 .. m)
      BY <1>0
    <3>1. CASE m = n
      <4>1. n \in T
        BY <1>0, <1>2
      <4> QED BY <3>1, <4>1
    <3>2. CASE m # n
      <4>1. m \in 0 .. n - 1 /\ n \notin 1 .. m
        BY <1>0, <3>2
      <4>2. up[m] = up[n - 1] \cap (1 .. m)
        BY <2>2, <4>1
      <4>3. up[n] = up[n - 1] \/ up[n] = up[n - 1] \cup {n}
        BY <1>1
      <4> QED BY <4>1, <4>2, <4>3
    <3> QED BY <3>1, <3>2
  <2> HIDE DEF S
  <2> QED BY <1>0, <2>1, <2>2, InductionUpTo
<1>4. Places(words) = up[b]
  BY PlacesLast DEF up, b
<1>5. up[b] \subseteq 1 .. b
  BY <1>0, <1>2
<1>6. ASSUME NEW i \in 1 .. b
      PROVE  i \in up[b] <=> ~(i - 1 \in up[b] /\ words[i - 1] \in WithArgument)
  <2>1. i \in 0 .. b /\ i - 1 \in 0 .. b /\ i \in 1 .. i /\ i \notin 1 .. i - 1
    BY <1>0
  <2>2. up[i] = up[b] \cap (1 .. i) /\ up[i - 1] = up[b] \cap (1 .. i - 1)
    BY <1>0, <1>3, <2>1
  <2>3. i \in up[i] <=> ~(i - 1 \in up[i - 1] /\ words[i - 1] \in WithArgument)
    <3>1. i \notin up[i - 1]
      BY <2>1, <2>2
    <3> QED BY <1>1, <3>1
  <2>4. i - 1 \in up[i - 1] <=> i - 1 \in up[b]
    <3>1. CASE i - 1 = 0
      BY <1>0, <1>5, <2>2, <3>1
    <3>2. CASE i - 1 # 0
      <4>1. i - 1 \in 1 .. i - 1
        BY <1>0, <3>2
      <4> QED BY <2>2, <4>1
    <3> QED BY <3>1, <3>2
  <2> QED BY <2>1, <2>2, <2>3, <2>4
<1> QED BY <1>0, <1>4, <1>5, <1>6

\* The value of an option when getopt has looked at the first n words: the word
\* behind the last such option that has got its argument, or the default.
Behind(words, n, option, default, value) ==
  LET marks == {i \in Places(words) : i < n /\ words[i] = option}
  IN  \/ marks = {} /\ value = default
      \/ \E i \in marks : (\A j \in marks : j <= i) /\ value = words[i + 1]

\* The next word is the argument of the option.
LEMMA BehindTaken ==
  ASSUME NEW words \in Seq(STRING), NEW n \in Nat, n \in Places(words),
         NEW option, words[n] = option, NEW default
  PROVE  Behind(words, n + 1, option, default, words[n + 1])
<1> DEFINE marks == {i \in Places(words) : i < n + 1 /\ words[i] = option}
<1>1. \A i \in Places(words) : i \in Nat
  BY PlacesOf
<1>2. n \in marks /\ \A j \in marks : j <= n
  BY <1>1
<1> QED BY <1>2 DEF Behind

\* The next word is not.
LEMMA BehindPassed ==
  ASSUME NEW words \in Seq(STRING), NEW n \in Nat,
         NEW option, ~(n \in Places(words) /\ words[n] = option),
         NEW default, NEW value, Behind(words, n, option, default, value)
  PROVE  Behind(words, n + 1, option, default, value)
<1>1. \A i \in Places(words) : i \in Nat
  BY PlacesOf
<1>2. {i \in Places(words) : i < n + 1 /\ words[i] = option}
        = {i \in Places(words) : i < n /\ words[i] = option}
  BY <1>1
<1> QED BY <1>2 DEF Behind

\* When all options have been looked at and no argument is missing, it is the
\* value behind the last option of all.
LEMMA BehindLast ==
  ASSUME NEW words \in Seq(STRING), NEW n \in Nat,
         Looked(words) = {i \in Places(words) : i <= n},
         NEW option, NEW default, NEW value,
         ~(n \in Places(words) /\ words[n] = option),
         Behind(words, n, option, default, value)
  PROVE  value = LastBehind(words, Looked(words), option, default)
<1> DEFINE marks == {i \in Looked(words) : words[i] = option}
<1>1. \A i \in Places(words) : i \in Nat
  BY PlacesOf
<1>2. {i \in Places(words) : i < n /\ words[i] = option} = marks
  BY <1>1
<1>3. CASE marks = {}
  BY <1>2, <1>3 DEF Behind, LastBehind
<1>4. CASE marks # {}
  <2>1. PICK i \in marks : (\A j \in marks : j <= i) /\ value = words[i + 1]
    BY <1>2, <1>4 DEF Behind
  <2>2. \A k \in marks : (\A j \in marks : j <= k) => k = i
    BY <1>1, <2>1
  <2>3. (CHOOSE k \in marks : \A j \in marks : j <= k) = i
    BY <2>1, <2>2
  <2>4. LastBehind(words, Looked(words), option, default)
          = words[(CHOOSE k \in marks : \A j \in marks : j <= k) + 1]
    BY <1>4, Zenon DEF LastBehind
  <2> HIDE DEF marks
  <2> QED BY <2>1, <2>3, <2>4
<1> QED BY <1>3, <1>4

\* The options are those of the words that getopt has looked at, and a run goes
\* on only if they ask for a poll.
Scan ==
  LET n == optind - 1
  IN  /\ options.pending =
           IF n \in Places(argv) /\ argv[n] \in WithArgument THEN argv[n] ELSE ""
      /\ Behind(argv, n, "-b", NoAddress, options.address)
      /\ Behind(argv, n, "-l", DefaultDirectory, options.log_directory)
      /\ Behind(argv, n, "-d", "0", options.debug_raw)
      /\ options.state \in {"scanning", "over"} =>
           \A i \in Places(argv) :
             i <= n /\ argv[i] \in Dashed =>
               argv[i] \in WithArgument \cup {Terminator} \/ options.discovery
      /\ options.state = "over" => n \in Places(argv) /\ argv[n] = Terminator
      /\ \A i \in Places(argv) :
           i <= n /\ argv[i] = Terminator => i = n /\ options.state = "over"

SInv ==
  /\ pc = "idle" => options = Defaults
  /\ pc # "idle" => Scan
  /\ pc \in Initializing \cup Going => ScanOver /\ options.pending = ""
  /\ pc \in Initializing => failed \/ PathOf(options.log_directory).absolute
  /\ pc \in Going =>
       /\ PathOf(options.log_directory).absolute
       /\ ~ArgumentError(options) /\ ~options.discovery
  /\ RowsAsTold

\* Before the first word.
LEMMA ScanDefaults ==
  ASSUME NEW words \in Seq(STRING), NEW option, NEW default
  PROVE  Behind(words, 0, option, default, default)
<1>1. \A i \in Places(words) : i \in Nat /\ ~(i < 0)
  BY PlacesOf
<1> QED BY <1>1 DEF Behind

\* One word more.
LEMMA ScanStep == Types /\ SInv /\ ScanWord => Scan'
<1> SUFFICES ASSUME Types, SInv, ScanWord PROVE Scan'
  OBVIOUS
<1> DEFINE n == optind - 1
<1>1. /\ pc = "arguments" /\ options.state = "scanning" /\ Scan
      /\ optind \in 1 .. Len(argv) /\ options' = Scanned(options, argv[optind])
      /\ optind' = optind + 1 /\ argv' = argv /\ argv \in Seq(STRING)
  <2>1. /\ pc = "arguments" /\ options.state = "scanning"
        /\ optind <= Len(argv) /\ options' = Scanned(options, argv[optind])
        /\ optind' = optind + 1 /\ argv' = argv
    BY DEF ScanWord
  <2>2. Scan
    BY <2>1 DEF SInv
  <2>3. argv \in Seq(STRING)
    <3>1. <<>> \in Seq(STRING)
      OBVIOUS
    <3> QED BY <3>1, ConstantsAssumption DEF Types, TypeOK
  <2>4. optind \in 1 .. Len(argv)
    BY <2>1, <2>3 DEF Types, TypeOK
  <2> QED BY <2>1, <2>2, <2>3, <2>4
<1>2. /\ n \in Nat /\ n + 1 = optind /\ optind' - 1 = n + 1 /\ optind \in DOMAIN argv
      /\ optind - 1 = n
  BY <1>1
<1> HIDE DEF n
<1>3. optind \in Places(argv) <=> ~(n \in Places(argv) /\ argv[n] \in WithArgument)
  BY <1>1, <1>2, PlacesOf
<1>p. options.pending = IF n \in Places(argv) /\ argv[n] \in WithArgument THEN argv[n] ELSE ""
  BY <1>1, <1>2 DEF Scan
<1>4. options.pending = "" <=> ~(n \in Places(argv) /\ argv[n] \in WithArgument)
  BY <1>p DEF WithArgument
<1>5. /\ options \in OptionsType /\ \A i \in Places(argv) : i \in Nat
  BY <1>1, PlacesOf DEF Types
<1>6. CASE options.pending # ""
  <2>1. /\ options' = Taken(options, argv[n + 1]) /\ n \in Places(argv)
        /\ options.pending = argv[n] /\ optind \notin Places(argv)
    <3>1. options' = Taken(options, argv[n + 1])
      BY <1>1, <1>2, <1>6 DEF Scanned
    <3>2. n \in Places(argv) /\ argv[n] \in WithArgument /\ optind \notin Places(argv)
      BY <1>3, <1>4, <1>6
    <3>3. options.pending = argv[n]
      BY <1>p, <3>2
    <3> QED BY <3>1, <3>2, <3>3
  <2>2. /\ options'.pending = "" /\ options'.state = options.state
        /\ options'.discovery = options.discovery
        /\ options'.address = IF argv[n] = "-b" THEN argv[n + 1] ELSE options.address
        /\ options'.log_directory = IF argv[n] = "-l" THEN argv[n + 1] ELSE options.log_directory
        /\ options'.debug_raw = IF argv[n] = "-d" THEN argv[n + 1] ELSE options.debug_raw
    BY <1>5, <2>1 DEF Taken, OptionsType
  <2>3. /\ Behind(argv, n + 1, "-b", NoAddress, options'.address)
        /\ Behind(argv, n + 1, "-l", DefaultDirectory, options'.log_directory)
        /\ Behind(argv, n + 1, "-d", "0", options'.debug_raw)
    <3>1. /\ Behind(argv, n, "-b", NoAddress, options.address)
          /\ Behind(argv, n, "-l", DefaultDirectory, options.log_directory)
          /\ Behind(argv, n, "-d", "0", options.debug_raw)
      BY <1>1, <1>2 DEF Scan
    <3> QED BY <1>1, <1>2, <2>1, <2>2, <3>1, BehindTaken, BehindPassed
  <2>4. \A i \in Places(argv) :
          i <= n + 1 =>
            /\ argv[i] \in Dashed => argv[i] \in WithArgument \cup {Terminator} \/ options'.discovery
            /\ argv[i] # Terminator
    <3>1. \A i \in Places(argv) : i <= n + 1 => i <= n
      BY <1>2, <1>5, <2>1
    <3> QED BY <1>1, <1>2, <2>2, <3>1 DEF Scan
  <2> QED BY <1>1, <1>2, <2>1, <2>2, <2>3, <2>4 DEF Scan
<1>7. CASE options.pending = ""
  <2>1. ~(n \in Places(argv) /\ argv[n] \in WithArgument) /\ optind \in Places(argv)
    BY <1>3, <1>4, <1>7
  <2> DEFINE word == argv[optind]
  <2>2. /\ options'.pending = IF word \in WithArgument THEN word ELSE ""
        /\ options'.address = options.address
        /\ options'.log_directory = options.log_directory
        /\ options'.debug_raw = options.debug_raw
        /\ options.discovery => options'.discovery
        /\ options'.state \in {"scanning", "over"} /\ word \in Dashed =>
             word \in WithArgument \cup {Terminator} \/ options'.discovery
        /\ options'.state = "over" <=> word = Terminator
    <3>1. options' = Scanned(options, word)
      BY <1>1
    <3> HIDE DEF word
    <3>2. options \in OptionsType /\ options.state = "scanning"
      BY <1>1, <1>5
    <3>3. CASE word \in WithArgument
      <4>1. options' = [options EXCEPT !.pending = word]
        <5>1. word # "-i" /\ word # "-v" /\ word # Terminator
          BY <3>3 DEF WithArgument, Terminator
        <5> QED BY <1>7, <3>1, <3>3, <5>1 DEF Scanned
      <4>2. word # Terminator
        BY <3>3 DEF WithArgument, Terminator
      <4> QED BY <3>2, <3>3, <4>1, <4>2 DEF OptionsType
    <3>4. CASE word = "-i"
      <4>1. options' = [options EXCEPT !.discovery = TRUE] /\ word \notin WithArgument
        <5>1. /\ word \notin WithArgument /\ word \in Flags
              /\ word # Terminator /\ word # "-v"
          BY <3>4 DEF WithArgument, Flags, Terminator
        <5> QED BY <1>7, <3>1, <3>4, <5>1 DEF Scanned
      <4>2. word # Terminator
        BY <3>4 DEF Terminator
      <4> QED BY <1>7, <3>2, <4>1, <4>2 DEF OptionsType
    <3>5. CASE word = "-v"
      <4>1. options' = [options EXCEPT !.state = "version"] /\ word \notin WithArgument
        <5>1. /\ word \notin WithArgument /\ word \in Flags
              /\ word # Terminator /\ word # "-i"
          BY <3>5 DEF WithArgument, Flags, Terminator
        <5> QED BY <1>7, <3>1, <3>5, <5>1 DEF Scanned
      <4>2. word # Terminator
        BY <3>5 DEF Terminator
      <4> QED BY <1>7, <3>2, <4>1, <4>2 DEF OptionsType
    <3>6. CASE word = Terminator
      <4>1. options' = [options EXCEPT !.state = "over"] /\ word \notin WithArgument
        <5>1. word \notin WithArgument /\ word # "-i" /\ word # "-v"
          BY <3>6 DEF WithArgument, Terminator
        <5> QED BY <1>7, <3>1, <3>6, <5>1 DEF Scanned
      <4> QED BY <1>7, <3>2, <3>6, <4>1 DEF OptionsType
    <3>7. CASE word \in Dashed \ (WithArgument \cup Flags \cup {Terminator})
      <4>1. options' = [options EXCEPT !.state = "usage"]
        BY <1>7, <3>1, <3>7 DEF Scanned, Flags
      <4> QED BY <1>7, <3>2, <3>7, <4>1 DEF OptionsType
    <3>8. CASE word \notin Dashed
      <4>1. options' = options /\ word \notin WithArgument /\ word # Terminator
        BY <1>7, <3>1, <3>8, DashedAssumption DEF Scanned, Flags
      <4> QED BY <1>7, <3>2, <3>8, <4>1
    <3> QED BY <3>3, <3>4, <3>5, <3>6, <3>7, <3>8 DEF Flags
  <2>3. /\ Behind(argv, n + 1, "-b", NoAddress, options'.address)
        /\ Behind(argv, n + 1, "-l", DefaultDirectory, options'.log_directory)
        /\ Behind(argv, n + 1, "-d", "0", options'.debug_raw)
    <3>1. /\ Behind(argv, n, "-b", NoAddress, options.address)
          /\ Behind(argv, n, "-l", DefaultDirectory, options.log_directory)
          /\ Behind(argv, n, "-d", "0", options.debug_raw)
      BY <1>1, <1>2 DEF Scan
    <3>2. "-b" \in WithArgument /\ "-l" \in WithArgument /\ "-d" \in WithArgument
      BY DEF WithArgument
    <3> QED BY <1>1, <1>2, <2>1, <2>2, <3>1, <3>2, BehindPassed
  <2>4. ASSUME NEW i \in Places(argv), i <= n + 1
        PROVE  /\ options'.state \in {"scanning", "over"} /\ argv[i] \in Dashed =>
                    argv[i] \in WithArgument \cup {Terminator} \/ options'.discovery
               /\ argv[i] = Terminator => i = n + 1 /\ options'.state = "over"
    <3>1. CASE i <= n
      BY <1>1, <1>2, <2>2, <2>4, <3>1 DEF Scan
    <3>2. CASE i = optind
      BY <1>2, <2>2, <2>4, <3>2
    <3> QED BY <1>2, <1>5, <2>4, <3>1, <3>2
  <2> QED BY <1>1, <1>2, <2>1, <2>2, <2>3, <2>4 DEF Scan
<1> QED BY <1>6, <1>7

\* What a path goes on with leaves its first parts alone.
LEMMA ConcatPrefix ==
  ASSUME NEW a \in Seq(STRING), NEW b \in Seq(STRING)
  PROVE  SubSeq(a \o b, 1, Len(a)) = a
<1> DEFINE ab == a \o b
           s == SubSeq(ab, 1, Len(a))
<1>1. /\ ab \in Seq(STRING) /\ Len(ab) = Len(a) + Len(b)
      /\ Len(a) \in Nat /\ Len(b) \in Nat
      /\ \A i \in 1 .. Len(a) : ab[i] = a[i]
  BY ConcatProperties
<1> HIDE DEF ab
<1>2. CASE Len(a) = 0
  <2>1. a = <<>>
    BY <1>2, EmptySeq
  <2> QED BY <1>2, <2>1, SubSeqEmpty DEF ab
<1>3. CASE Len(a) # 0
  <2>1. 1 \in 1 .. Len(ab) /\ Len(a) \in 1 .. Len(ab)
    BY <1>1, <1>3
  <2>2. s \in Seq(STRING) /\ Len(s) = Len(a) /\ \A i \in 1 .. Len(a) : s[i] = ab[i]
    BY <1>1, <2>1
  <2> HIDE DEF s
  <2>3. s = a
    BY <1>1, <2>2, SeqEqual
  <2> QED BY <2>3 DEF s, ab
<1> QED BY <1>1, <1>2, <1>3

\* Before the first run.
LEMMA InitScan == Init => SInv
<1> SUFFICES ASSUME Init PROVE SInv
  OBVIOUS
<1>1. pc = "idle" /\ options = Defaults /\ rows = {}
  BY Zenon DEF Init
<1>2. RowsAsTold
  BY <1>1 DEF RowsAsTold
<1>3. pc \notin Initializing \cup Going
  BY <1>1 DEF Initializing, Logging, Going
<1> QED BY <1>1, <1>2, <1>3 DEF SInv

\* The row that is written is one the run was told to write.
LEMMA RowIsAsTold ==
  ASSUME Types, SInv, pc = "log"
  PROVE  AsTold(Row)
<1>1. /\ Scan /\ ScanOver /\ options.pending = ""
      /\ PathOf(options.log_directory).absolute
      /\ ~ArgumentError(options) /\ ~options.discovery
  BY DEF SInv, Going
<1>2. argv \in Seq(STRING)
  <2>1. <<>> \in Seq(STRING)
    OBVIOUS
  <2> QED BY <2>1, ConstantsAssumption DEF Types, TypeOK
<1> DEFINE n == optind - 1
           places == Looked(argv)
<1>3. n \in Nat /\ places = {i \in Places(argv) : i <= n}
  <2>1. optind \in 1 .. Len(argv) + 1 /\ Len(argv) \in Nat
    BY <1>2 DEF Types, TypeOK
  <2>2. /\ options.state = "over" => n \in Places(argv) /\ argv[n] = Terminator
        /\ \A i \in Places(argv) :
             i <= n /\ argv[i] = Terminator => i = n /\ options.state = "over"
    BY <1>1 DEF Scan
  <2>3. \A i \in Places(argv) : i \in 1 .. Len(argv)
    BY <1>2, PlacesOf
  <2>4. n \in Nat
    BY <2>1
  <2>5. CASE options.state = "over"
    <3>1. \A j \in Places(argv) : argv[j] = Terminator => n <= j
      BY <2>1, <2>2, <2>3
    <3> HIDE DEF n
    <3>2. \A i \in Places(argv) : i <= n <=> \A j \in Places(argv) : argv[j] = Terminator => i <= j
      BY <2>2, <2>3, <2>4, <2>5, <3>1
    <3> QED BY <2>4, <3>2 DEF Looked
  <2>6. CASE options.state # "over"
    <3>1. n = Len(argv)
      <4>1. optind > Len(argv)
        BY <1>1, <2>6 DEF ScanOver
      <4> QED BY <2>1, <4>1
    <3>2. \A i \in Places(argv) : i <= n /\ argv[i] # Terminator
      BY <2>2, <2>3, <2>6, <3>1
    <3> QED BY <2>4, <3>2 DEF Looked
  <2> QED BY <2>5, <2>6
<1>4. ~(n \in Places(argv) /\ argv[n] \in WithArgument)
  BY <1>1 DEF Scan, WithArgument
<1>5. /\ Behind(argv, n, "-b", NoAddress, options.address)
      /\ Behind(argv, n, "-l", DefaultDirectory, options.log_directory)
      /\ Behind(argv, n, "-d", "0", options.debug_raw)
  BY <1>1 DEF Scan
<1> HIDE DEF n
<1>6. /\ options.address = LastBehind(argv, places, "-b", NoAddress)
      /\ options.log_directory = LastBehind(argv, places, "-l", DefaultDirectory)
      /\ options.debug_raw = LastBehind(argv, places, "-d", "0")
  <2>1. "-b" \in WithArgument /\ "-l" \in WithArgument /\ "-d" \in WithArgument
    BY DEF WithArgument
  <2> QED BY <1>2, <1>3, <1>4, <1>5, <2>1, BehindLast
<1>7. DebugOf(options.debug_raw) \in 0 .. 4
  BY <1>1 DEF ArgumentError
<1>8. \A i \in places : argv[i] \in Dashed => argv[i] \in WithArgument \cup {Terminator}
  BY <1>1, <1>3 DEF Scan, ScanOver, n
<1> DEFINE root == PathOf(options.log_directory)
<1>9. SubSeq(FullDir, 1, Len(root.parts)) = root.parts
  <2>1. root.parts \in Seq(STRING) /\ SerialNumber \in Seq(STRING)
    BY FullDirType DEF Path
  <2>2. FullDir = root.parts \o SerialNumber
    BY DEF FullDir, Path
  <2> QED BY <2>1, <2>2, ConcatPrefix
<1>10. Row.argv = argv /\ Row.inverter = options.address /\ Row.dir = FullDir
  BY DEF Row
<1> HIDE DEF places
<1>11. /\ Row.inverter = LastBehind(Row.argv, Looked(Row.argv), "-b", NoAddress)
       /\ PathOf(LastBehind(Row.argv, Looked(Row.argv), "-l", DefaultDirectory)) = root
       /\ DebugOf(LastBehind(Row.argv, Looked(Row.argv), "-d", "0")) \in 0 .. 4
       /\ \A i \in Looked(Row.argv) :
            Row.argv[i] \in Dashed => Row.argv[i] \in WithArgument \cup {Terminator}
       /\ root.absolute /\ SubSeq(Row.dir, 1, Len(root.parts)) = root.parts
  BY <1>1, <1>6, <1>7, <1>8, <1>9, <1>10 DEF places
<1> HIDE DEF root
<1> QED BY <1>11, Zenon DEF AsTold

\* Every step keeps options and rows as told.
LEMMA StepScan == Types /\ SInv /\ [Next]_vars => (Types /\ SInv)'
<1> SUFFICES ASSUME Types, SInv, [Next]_vars PROVE SInv'
  BY StepTypes
<1> USE DEF run, walk, disk
<1>a. rows' = rows => RowsAsTold'
  BY DEF SInv, RowsAsTold
<1>b. UNCHANGED <<argv, optind, options>> => (Scan' <=> Scan) /\ (ScanOver' <=> ScanOver)
  BY DEF Scan, ScanOver
<1>1. CASE Launch
  <2>1. /\ pc = "idle" /\ pc' = "arguments" /\ argv' \in CommandLines
        /\ optind' = 1 /\ options' = Defaults /\ rows' = rows
    BY <1>1 DEF Launch, SInv, Types
  <2>2. argv' \in Seq(STRING) /\ \A i \in Places(argv') : i \in Nat /\ i > 0
    BY <2>1, ConstantsAssumption, PlacesOf
  <2>3. /\ options'.pending = "" /\ options'.address = NoAddress /\ options'.debug_raw = "0"
        /\ options'.log_directory = DefaultDirectory /\ options'.state = "scanning"
    BY <2>1 DEF Defaults
  <2>4. Scan'
    <3>1. optind' - 1 = 0 /\ 0 \notin Places(argv') /\ \A i \in Places(argv') : ~(i <= 0)
      BY <2>1, <2>2
    <3>2. /\ Behind(argv', 0, "-b", NoAddress, NoAddress)
          /\ Behind(argv', 0, "-l", DefaultDirectory, DefaultDirectory)
          /\ Behind(argv', 0, "-d", "0", "0")
      BY <2>2, ScanDefaults
    <3> QED BY <2>3, <3>1, <3>2 DEF Scan
  <2> QED BY <1>a, <2>1, <2>4 DEF SInv, Initializing, Logging, Going
<1>2. CASE TurnedAway \/ OtherMakesDirectory \/ UNCHANGED vars
  <2>1. UNCHANGED <<pc, argv, optind, options, failed, rows>>
    BY <1>2 DEF TurnedAway, OtherMakesDirectory, vars
  <2> QED BY <1>a, <1>b, <2>1 DEF SInv
<1>3. CASE ScanWord
  <2>1. pc' = "arguments" /\ rows' = rows /\ Scan'
    BY <1>3, ScanStep DEF ScanWord
  <2> QED BY <1>a, <2>1 DEF SInv, Initializing, Logging, Going
<1>4. CASE MakeLogDirectory
  <2>1. /\ pc = "arguments" /\ pc' = "check" /\ rows' = rows
        /\ ScanOver /\ options.pending = "" /\ UNCHANGED <<argv, optind, options>>
        /\ failed' = ~PathOf(options.log_directory).absolute
    BY <1>4 DEF MakeLogDirectory
  <2> QED BY <1>a, <1>b, <2>1 DEF SInv, Initializing, Logging, Going
<1>5. CASE CheckDirectory \/ MakeDirectory
  <2>1. /\ rows' = rows /\ UNCHANGED <<argv, optind, options>>
        /\ failed => failed'
        /\ \/ pc \in Initializing /\ pc' \in Initializing
           \/ pc \in Logging /\ pc' \in Logging
    BY <1>5 DEF CheckDirectory, MakeDirectory, Initializing, Logging
  <2> QED BY <1>a, <1>b, <2>1 DEF SInv, Initializing, Logging, Going
<1>6. CASE Proceed
  <2>1. /\ pc = "check" /\ pc' = "name" /\ rows' = rows /\ UNCHANGED <<argv, optind, options>>
        /\ ~failed /\ ~ArgumentError(options) /\ ~options.discovery
    BY <1>6 DEF Proceed, Ready
  <2> QED BY <1>a, <1>b, <2>1 DEF SInv, Initializing, Logging, Going
<1>7. CASE GetName \/ Poll \/ PollLinkLost \/ StartLog \/ EndWalk
  <2>1. /\ pc \in Going /\ pc' \in Going /\ rows' = rows
        /\ UNCHANGED <<argv, optind, options>>
    BY <1>7 DEF GetName, Poll, PollLinkLost, StartLog, EndWalk, Initializing, Logging, Going
  <2>2. "idle" \notin Going /\ Going \cap Initializing = {}
    BY DEF Initializing, Logging, Going
  <2> QED BY <1>a, <1>b, <2>1, <2>2 DEF SInv
<1>8. CASE \/ EndAtOptions \/ EndWithUsage \/ EndDiscovery \/ PollTimeout
           \/ EndWithoutLine \/ EndWithoutLog \/ Log \/ Kill
  <2>1. pc' = "idle" /\ options' = Defaults
    BY <1>8 DEF EndAtOptions, EndWithUsage, EndDiscovery, PollTimeout,
                EndWithoutLine, EndWithoutLog, Log, Kill, End
  <2>2. RowsAsTold'
    <3>1. CASE Log
      <4>1. pc = "log" /\ rows' = rows \cup {Row}
        BY <3>1 DEF Log
      <4>2. AsTold(Row)
        BY <4>1, RowIsAsTold
      <4> QED BY <4>1, <4>2 DEF SInv, RowsAsTold
    <3>2. CASE ~Log
      <4>1. rows' = rows
        BY <1>8, <3>2 DEF EndAtOptions, EndWithUsage, EndDiscovery, PollTimeout,
                          EndWithoutLine, EndWithoutLog, Kill
      <4> QED BY <1>a, <4>1
    <3> QED BY <3>1, <3>2
  <2> QED BY <2>1, <2>2 DEF SInv, Initializing, Logging, Going
<1> QED
  BY <1>1, <1>2, <1>3, <1>4, <1>5, <1>6, <1>7, <1>8 DEF Next, Main, Ended

\* Whatever the command line, a row is logged only by a run that was told to, for
\* the inverter and into the directory that getopt finds behind the last options.
THEOREM RowsAreAsTold == Spec => []RowsAsTold
<1>1. Init => Types /\ SInv
  BY InitTypes, InitScan
<1>2. SInv => RowsAsTold
  BY DEF SInv
<1> QED BY <1>1, StepScan, <1>2, PTL DEF Spec

----------------------------------------------------------------------------
(* The values of a row.                                                    *)

\* The values of a poll.
Values == [name : STRING, scale : 1 .. 1000, raw : Nat]

\* The rounds of the loop of process_data for one column.
OfUpTo(column, dv) ==
  CHOOSE found : found = [n \in 0 .. Len(dv) |->
    IF n = 0 THEN <<>>
    ELSE IF dv[n].name = column.name THEN Append(found[n - 1], dv[n])
    ELSE found[n - 1]]

\* Of is what is found behind the last round.
LEMMA OfLast ==
  ASSUME NEW column, NEW dv PROVE Of(column, dv) = OfUpTo(column, dv)[Len(dv)]
BY DEF Of, OfUpTo

\* One round of it.
LEMMA OfRounds ==
  ASSUME NEW column, NEW dv \in Seq(Values)
  PROVE  LET found == OfUpTo(column, dv)
         IN  /\ found[0] = <<>>
             /\ \A n \in 1 .. Len(dv) :
                  found[n] = IF dv[n].name = column.name THEN Append(found[n - 1], dv[n])
                             ELSE found[n - 1]
<1> DEFINE b == Len(dv)
           X == Seq(Values)
           none == <<>>
           Body(g) == [n \in 0 .. b |->
                         IF n = 0 THEN <<>>
                         ELSE IF dv[n].name = column.name THEN Append(g[n - 1], dv[n])
                         ELSE g[n - 1]]
           round == [n \in 1 .. b |-> [before \in X |->
                       IF dv[n].name = column.name THEN Append(before, dv[n]) ELSE before]]
<1>1. b \in Nat /\ none \in X /\ round \in Bodies(b, X)
  <2>1. b \in Nat /\ none \in X
    OBVIOUS
  <2>2. ASSUME NEW n \in 1 .. b, NEW before \in X PROVE Append(before, dv[n]) \in X
    OBVIOUS
  <2> HIDE DEF b, X
  <2> QED BY <2>1, <2>2 DEF Bodies
<1>2. PICK f \in [0 .. b -> X] :
        f[0] = <<>> /\ \A n \in 1 .. b : f[n] = round[n][f[n - 1]]
  <2> HIDE DEF b, X, round, none
  <2>1. Loops(b, X, none, round)
    BY <1>1, Rounds
  <2> QED BY <2>1 DEF none, Loops
<1>3. f = Body(f)
  <2>1. ASSUME NEW n \in 1 .. b
        PROVE  round[n][f[n - 1]] =
                 IF dv[n].name = column.name THEN Append(f[n - 1], dv[n]) ELSE f[n - 1]
    <3>1. n - 1 \in 0 .. b
      BY <1>1
    <3>2. f[n - 1] \in X
      BY <3>1
    <3> HIDE DEF b, X
    <3> QED BY <3>2
  <2>2. f = [n \in 0 .. b |->
              IF n = 0 THEN <<>>
              ELSE IF dv[n].name = column.name THEN Append(f[n - 1], dv[n])
              ELSE f[n - 1]]
    <3> HIDE DEF round, b, X
    <3>1. \A n \in 0 .. b : n # 0 => n \in 1 .. b
      BY <1>1
    <3> QED BY <1>2, <2>1, <3>1
  <2> QED BY <2>2, Zenon
<1>4. OfUpTo(column, dv) = Body(OfUpTo(column, dv))
  BY <1>3, Zenon DEF OfUpTo
<1> DEFINE up == OfUpTo(column, dv)
<1> HIDE DEF up
<1>5. up = Body(up)
  BY <1>4 DEF up
<1>6. up[0] = <<>>
  <2>1. 0 \in 0 .. b
    BY <1>1
  <2> QED BY <1>5, <2>1
<1>7. ASSUME NEW n \in 1 .. b
      PROVE  up[n] = IF dv[n].name = column.name THEN Append(up[n - 1], dv[n]) ELSE up[n - 1]
  <2>1. n \in 0 .. b /\ n # 0
    BY <1>1
  <2> HIDE DEF b
  <2> QED BY <1>5, <2>1
<1> QED BY <1>6, <1>7 DEF up

\* Of a poll that names every value once, a column gets one value or none.
LEMMA OfOne ==
  ASSUME NEW column, NEW dv \in Seq(Values),
         \A j, k \in DOMAIN dv : dv[j].name = dv[k].name => j = k
  PROVE  Of(column, dv) \in Seq(Values) /\ Len(Of(column, dv)) \in {0, 1}
<1> DEFINE b == Len(dv)
           up == OfUpTo(column, dv)
           T == {n \in 0 .. b :
                   /\ up[n] \in Seq(Values)
                   /\ \/ up[n] = <<>>
                      \/ Len(up[n]) = 1 /\ \E j \in 1 .. n : dv[j].name = column.name}
<1> HIDE DEF up
<1>0. b \in Nat /\ 0 \in 0 .. b /\ b \in 0 .. b /\ DOMAIN dv = 1 .. b
  OBVIOUS
<1>1. /\ up[0] = <<>>
      /\ \A n \in 1 .. b :
           up[n] = IF dv[n].name = column.name THEN Append(up[n - 1], dv[n]) ELSE up[n - 1]
  BY OfRounds DEF up
<1>2. 0 \in T
  <2>1. <<>> \in Seq(Values)
    OBVIOUS
  <2> QED BY <1>0, <1>1, <2>1
<1>3. ASSUME NEW n \in 1 .. b, n - 1 \in T PROVE n \in T
  <2>1. /\ up[n - 1] \in Seq(Values) /\ n \in 0 .. b /\ n \in 1 .. n /\ dv[n] \in Values
        /\ \A j \in 1 .. n - 1 : j \in 1 .. n /\ j # n /\ j \in DOMAIN dv /\ n \in DOMAIN dv
    BY <1>0, <1>3
  <2>2. CASE dv[n].name = column.name
    <3>1. up[n - 1] = <<>>
      BY <1>3, <2>1, <2>2
    <3>2. up[n] = Append(up[n - 1], dv[n])
      BY <1>1, <2>2
    <3>3. up[n] \in Seq(Values) /\ Len(up[n]) = Len(up[n - 1]) + 1
      BY <2>1, <3>2, AppendProperties
    <3>4. Len(up[n]) = 1
      BY <3>1, <3>3
    <3> QED BY <2>1, <2>2, <3>3, <3>4
  <2>3. CASE dv[n].name # column.name
    <3>1. up[n] = up[n - 1]
      BY <1>1, <2>3
    <3> QED BY <1>3, <2>1, <3>1
  <2> QED BY <2>2, <2>3
<1>4. b \in T
  <2> HIDE DEF T, b
  <2>1. 0 .. b \subseteq T
    BY <1>0, <1>2, <1>3, InductionUpTo
  <2> QED BY <1>0, <2>1
<1>5. Of(column, dv) = up[b]
  BY OfLast DEF up
<1>6. up[b] \in Seq(Values) /\ (up[b] = <<>> \/ Len(up[b]) = 1)
  BY <1>4
<1> QED BY <1>5, <1>6

\* Every column has a heading.
LEMMA ColumnsHaveHeadings == \A c \in DOMAIN Columns : Columns[c].heading # ""
<1>1. DOMAIN Columns = 1 .. 12
  BY DEF Columns
<1>2. /\ Columns[1].heading = "AC Power"
      /\ Columns[2].heading = "Yield"
      /\ Columns[3].heading = "DC Power 1"
      /\ Columns[4].heading = "DC Power 2"
      /\ Columns[5].heading = "DC Voltage 1"
      /\ Columns[6].heading = "DC Voltage 2"
      /\ Columns[7].heading = "AC Voltage 1"
      /\ Columns[8].heading = "AC Voltage 2"
      /\ Columns[9].heading = "AC Voltage 3"
      /\ Columns[10].heading = "AC Current 1"
      /\ Columns[11].heading = "AC Current 2"
      /\ Columns[12].heading = "AC Current 3"
  BY DEF Columns, Column
<1>3. \A c \in 1 .. 12 : c \in {1, 2, 3, 4, 5, 6, 7, 8, 9, 10, 11, 12}
  OBVIOUS
<1> QED BY <1>1, <1>2, <1>3

\* The limit tells NONE from the values of a voltage or a current.
LEMMA LimitBelowNone ==
  ASSUME NEW scale \in 1 .. 1000, NEW raw \in Nat, ~(raw > Limit * scale)
  PROVE  raw # NONE
BY SMT DEF Limit, NONE

\* A poll that brought something.
Brought(poll) == poll # <<>> /\ \E i \in Inverters : poll \in Polls[i]

\* What is logged of it: one value under every heading, none of them NONE in a
\* column of voltages or currents.
LEMMA BroughtAligned ==
  ASSUME NEW poll, Brought(poll)
  PROVE  /\ DOMAIN Header(poll) = DOMAIN Columns /\ DOMAIN Line(poll) = DOMAIN Columns
         /\ \A c \in DOMAIN Columns :
              /\ Len(Line(poll)[c]) = IF Header(poll)[c] = "" THEN 0 ELSE 1
              /\ Columns[c].limited =>
                   \A i \in DOMAIN Line(poll)[c] : Line(poll)[c][i] # NONE
<1>1. /\ poll # <<>> /\ poll \in Seq(Values)
      /\ \A j, k \in DOMAIN poll : poll[j].name = poll[k].name => j = k
  BY PollsAssumption DEF Brought, Values
<1>2. /\ Header(poll) = [c \in DOMAIN Columns |-> Heading(Columns[c], poll)]
      /\ Line(poll) = [c \in DOMAIN Columns |-> Cell(Columns[c], poll)]
  BY <1>1 DEF Header, Line
<1>3. ASSUME NEW c \in DOMAIN Columns
      PROVE  /\ Len(Cell(Columns[c], poll)) = IF Heading(Columns[c], poll) = "" THEN 0 ELSE 1
             /\ Columns[c].limited =>
                  \A i \in DOMAIN Cell(Columns[c], poll) : Cell(Columns[c], poll)[i] # NONE
  <2> DEFINE column == Columns[c]
             values == Of(column, poll)
             cell == Cell(column, poll)
  <2>1. values \in Seq(Values) /\ Len(values) \in {0, 1}
    BY <1>1, OfOne
  <2>2. cell = [i \in DOMAIN values |-> Shown(column, values[i])]
    BY DEF Cell
  <2>3. column.heading # ""
    BY ColumnsHaveHeadings
  <2> HIDE DEF column, values, cell
  <2>4. /\ DOMAIN values = 1 .. Len(values) /\ Len(values) \in Nat
        /\ values = <<>> <=> Len(values) = 0
    BY <2>1, EmptySeq
  <2>5. Len(cell) = Len(values) /\ DOMAIN cell = DOMAIN values
    BY <2>2, <2>4
  <2>6. Len(cell) = IF Heading(column, poll) = "" THEN 0 ELSE 1
    BY <2>1, <2>3, <2>4, <2>5 DEF Heading, values
  <2>7. ASSUME column.limited, NEW i \in DOMAIN cell PROVE cell[i] # NONE
    <3>1. i \in DOMAIN values /\ values[i] \in Values
      BY <2>1, <2>4, <2>5
    <3>2. cell[i] = IF values[i].raw > Limit * values[i].scale THEN 0 ELSE values[i].raw
      BY <2>2, <2>7, <3>1 DEF Shown
    <3>3. values[i].raw \in Nat /\ values[i].scale \in 1 .. 1000
      BY <3>1 DEF Values
    <3>4. values[i].raw # 0 /\ ~(values[i].raw > Limit * values[i].scale) => values[i].raw # NONE
      BY <3>3, LimitBelowNone, ZenonT(30)
    <3>5. 0 # NONE
      BY SMT DEF NONE
    <3> QED BY <3>2, <3>4, <3>5
  <2> QED BY <2>6, <2>7 DEF column, cell
<1>4. ASSUME NEW c \in DOMAIN Columns
      PROVE  Header(poll)[c] = Heading(Columns[c], poll) /\ Line(poll)[c] = Cell(Columns[c], poll)
  BY <1>2
<1>5. DOMAIN Header(poll) = DOMAIN Columns /\ DOMAIN Line(poll) = DOMAIN Columns
  BY <1>2
<1>6. ASSUME NEW c \in DOMAIN Columns
      PROVE  /\ Len(Line(poll)[c]) = IF Header(poll)[c] = "" THEN 0 ELSE 1
             /\ Columns[c].limited =>
                  \A i \in DOMAIN Line(poll)[c] : Line(poll)[c][i] # NONE
  <2>1. Header(poll)[c] = Heading(Columns[c], poll) /\ Line(poll)[c] = Cell(Columns[c], poll)
    BY <1>4
  <2> QED BY <1>3, <2>1
<1> QED BY <1>5, <1>6, Zenon

\* What is processed is a poll, what is logged is one that brought something, and
\* every row comes from such a poll.
VInv ==
  /\ pc \in Logging \cup {"process", "log"} => \E i \in Inverters : data_vector \in Polls[i]
  /\ pc \in Logging \cup {"log"} => data_vector # <<>>
  /\ \A r \in rows : \E poll : Brought(poll) /\ r.header = Header(poll) /\ r.line = Line(poll)

\* Before the first run there are no rows.
LEMMA InitValues == Init => VInv
<1> SUFFICES ASSUME Init PROVE VInv
  OBVIOUS
<1>1. pc = "idle" /\ rows = {}
  BY Zenon DEF Init
<1> QED BY <1>1 DEF VInv, Logging

\* Every step keeps rows and polls together.
LEMMA StepValues == VInv /\ [Next]_vars => VInv'
<1> SUFFICES ASSUME VInv, [Next]_vars PROVE VInv'
  OBVIOUS
<1> USE DEF run, walk, disk
<1>1. CASE Launch \/ ScanWord \/ MakeLogDirectory \/ Proceed \/ GetName \/ PollLinkLost
  <2>1. rows' = rows /\ pc' \in {"arguments", "check", "name", "poll", "hung"}
    BY <1>1 DEF Launch, ScanWord, MakeLogDirectory, Proceed, GetName, PollLinkLost
  <2> QED BY <2>1 DEF VInv, Logging
<1>2. CASE TurnedAway \/ OtherMakesDirectory \/ UNCHANGED vars
  <2>1. UNCHANGED <<pc, data_vector, rows>>
    BY <1>2 DEF TurnedAway, OtherMakesDirectory, vars
  <2> QED BY <2>1 DEF VInv
<1>3. CASE CheckDirectory \/ MakeDirectory \/ EndWalk
  <2>1. /\ UNCHANGED <<data_vector, rows>>
        /\ pc' \in Logging \cup {"log"} => pc \in Logging
        /\ pc' # "process"
    BY <1>3 DEF CheckDirectory, MakeDirectory, EndWalk, Logging
  <2> QED BY <2>1 DEF VInv
<1>4. CASE Poll
  <2>1. /\ pc' = "process" /\ rows' = rows /\ options.address \in Inverters
        /\ data_vector' \in Polls[options.address]
    BY <1>4 DEF Poll
  <2> QED BY <2>1 DEF VInv, Logging
<1>5. CASE StartLog
  <2>1. /\ pc = "process" /\ UNCHANGED <<data_vector, rows>> /\ Line(data_vector) # <<>>
        /\ pc' # "process"
    BY <1>5 DEF StartLog
  <2>2. data_vector # <<>>
    BY <2>1 DEF Line
  <2> QED BY <2>1, <2>2 DEF VInv, Logging
<1>6. CASE Log
  <2>1. pc = "log" /\ pc' = "idle" /\ rows' = rows \cup {Row}
    BY <1>6 DEF Log, End
  <2>2. Brought(data_vector)
    BY <2>1 DEF VInv, Brought
  <2>3. Row.header = Header(data_vector) /\ Row.line = Line(data_vector)
    BY DEF Row
  <2> QED BY <2>1, <2>2, <2>3 DEF VInv, Logging
<1>7. CASE \/ EndAtOptions \/ EndWithUsage \/ EndDiscovery \/ PollTimeout
           \/ EndWithoutLine \/ EndWithoutLog \/ Kill
  <2>1. pc' = "idle" /\ rows' = rows
    BY <1>7 DEF EndAtOptions, EndWithUsage, EndDiscovery, PollTimeout,
                EndWithoutLine, EndWithoutLog, Kill, End
  <2> QED BY <2>1 DEF VInv, Logging
<1> QED
  BY <1>1, <1>2, <1>3, <1>4, <1>5, <1>6, <1>7 DEF Next, Main, Ended

\* Whatever values a poll brings, header and row of a file agree: one value under
\* every heading, and none under a blank one.
THEOREM RowsAreAligned == Spec => []RowsAligned
<1>1. VInv => RowsAligned
  <2> SUFFICES ASSUME VInv, NEW r \in rows
               PROVE  /\ DOMAIN r.header = DOMAIN Columns /\ DOMAIN r.line = DOMAIN Columns
                      /\ \A c \in DOMAIN Columns :
                           Len(r.line[c]) = IF r.header[c] = "" THEN 0 ELSE 1
    BY DEF RowsAligned
  <2>1. PICK poll : Brought(poll) /\ r.header = Header(poll) /\ r.line = Line(poll)
    BY DEF VInv
  <2> QED BY <2>1, BroughtAligned
<1> QED BY InitValues, StepValues, <1>1, PTL DEF Spec

\* For any raw values and any factor of the table's size, the value that stands
\* for none is never logged as a voltage or a current.
THEOREM NoneIsZero == Spec => []NoneReadsZero
<1>1. VInv => NoneReadsZero
  <2> SUFFICES ASSUME VInv, NEW r \in rows, NEW c \in DOMAIN Columns, Columns[c].limited
               PROVE  \A i \in DOMAIN r.line[c] : r.line[c][i] # NONE
    BY DEF NoneReadsZero
  <2>1. PICK poll : Brought(poll) /\ r.header = Header(poll) /\ r.line = Line(poll)
    BY DEF VInv
  <2> QED BY <2>1, BroughtAligned
<1> QED BY InitValues, StepValues, <1>1, PTL DEF Spec

=============================================================================
