----------------------------- MODULE Arguments -----------------------------
(***************************************************************************)
(* The command line: what one round of the getopt loop of                  *)
(* arguments::initialize does, and the checks behind the loop.  A command  *)
(* line is a sequence of words.  A word that joins several options, or an  *)
(* option and its argument, stands for them one by one: -iv is -i, -v, and *)
(* -d1 is -d, 1.                                                           *)
(***************************************************************************)
EXTENDS Integers, Sequences

CONSTANTS
  DefaultDirectory, \* DEFAULT_LOG_DIRECTORY
  NoAddress,        \* the empty address
  Dashed,           \* the words that begin with "-" and do not end there
  DebugOf(_)        \* what stoi makes of a word, or NotANumber

NotANumber == -1000000

\* The option string "l:b:d:iv".
WithArgument == {"-l", "-b", "-d"}
Flags == {"-i", "-v"}

\* What getopt takes for the end of the options.
Terminator == "--"

ASSUME DashedAssumption == WithArgument \cup Flags \cup {"-p", Terminator} \subseteq Dashed

\* The members before the loop; pending is an option that lacks its argument.
Defaults ==
  [state |-> "scanning", pending |-> "", address |-> NoAddress,
   log_directory |-> DefaultDirectory, debug_raw |-> "0", discovery |-> FALSE]

\* A word that an option takes for its argument, whatever it looks like.
Taken(o, word) ==
  [o EXCEPT !.pending = "",
            !.address = IF o.pending = "-b" THEN word ELSE @,
            !.log_directory = IF o.pending = "-l" THEN word ELSE @,
            !.debug_raw = IF o.pending = "-d" THEN word ELSE @]

\* A bug: an unknown option prints the usage text and the loop goes on.
ScannedLenient(o, word) ==
  IF o.pending # "" THEN Taken(o, word)
  ELSE CASE word \in WithArgument -> [o EXCEPT !.pending = word]
         [] word = "-i" -> [o EXCEPT !.discovery = TRUE]
         [] word = "-v" -> [o EXCEPT !.state = "version"]
         [] word = Terminator -> [o EXCEPT !.state = "over"]
         [] OTHER -> o

\* One word: -v ends the program at once, "--" the loop, an unknown option ends
\* it with an error, and other words, not being options, are passed over.
Scanned(o, word) ==
  IF o.pending # "" THEN Taken(o, word)
  ELSE CASE word \in WithArgument -> [o EXCEPT !.pending = word]
         [] word = "-i" -> [o EXCEPT !.discovery = TRUE]
         [] word = "-v" -> [o EXCEPT !.state = "version"]
         [] word = Terminator -> [o EXCEPT !.state = "over"]
         [] word \in Dashed \ (WithArgument \cup Flags \cup {Terminator}) ->
              [o EXCEPT !.state = "usage"]
         [] OTHER -> o

\* The errors that the checks behind the loop can find, apart from a log
\* directory that cannot be made.
ArgumentError(o) ==
  \/ DebugOf(o.debug_raw) \notin 0 .. 4
  \/ o.address = NoAddress

=============================================================================
