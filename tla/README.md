# A TLA+ verification of the SMA Bluetooth collector

`ardexa-sma-bt` (`src/src`) is started every few minutes by an external
scheduler. One run connects to one SMA inverter over Bluetooth, asks it four
questions, and appends one row to CSV files. This directory holds TLA+ models of
that program, the TLC configurations that check them on small instances, and
proofs of the main results for every value of the constants.

## Inventory

| Component | State it keeps | Operations | What makes it correct |
|---|---|---|---|
| PID-file guard (`utils.cpp` 238-294, `main.cpp` 46-48, 118) | the PID file, the descriptor of each writer | `check_pid_file`, `remove_pid_file` | one instance at a time; a stale file does not stop the program for good |
| Conversation (`in_smadata2plus.c` 832-1132) | `recv_pl2` of each function, `data_vector`, `l2_packet_send_count`, `inv->model` | `connect`, `login`, `get_values`, `cmdcode_wait`, `get_model`, `parse_values` | values kept come from the answer to their own query; every poll ends; a sound inverter is polled completely |
| Level-2 encoding (`in_smadata2plus.c` 561-830) | a buffer that is edited in place | `packet_gen`, `packet_read`, `add_escapes`, `strip_escapes`, the checksum | what one end makes the other end reads; nothing that was damaged is read; packets fit their length byte |
| Level-1 framing (`in_smadata2plus.c` 389-559) | the packet under assembly and its last command code | `level1_packet_read`, `_send`, the loop of `cmdcode_wait` | fragments join up to the message they were cut from; damage stays where it is |
| Byte stream (`in_bluetooth.c`) | `buffer`, `buffer_len`, `buffer_position`, the socket | `get_byte`, `connect_read`, `write` | a FIFO of bytes; a wait for a byte ends |
| Readings (`main.cpp` 125-234) | none | `process_data` | columns of header and line agree; "no value" becomes 0 |
| CSV log files (`utils.cpp` 10-130, `main.cpp` 108-112, 219) | the file of each day, `latest.csv`, `latest.csv.OLD` | `log_line`, `get_current_datetime` | `latest.csv` mirrors the day's file, headers come first and describe the rows, no row is lost |
| Command line (`arguments.cpp`) | options | `initialize` | a row is logged as the command line says, or not at all |
| Discovery and names (`utils.cpp` 335-406) | none | `get_bt_name`, `get_serial` | rows go to the directory of their inverter |
| Directories (`utils.cpp` 132-197) | the file system | `check_directory`, `create_directory` | all parents exist afterwards |
| `main` (`main.cpp` 41-121) | none | the calls in order | every run ends, as composed from the above |

How they interact: `main` passes the guard, holds the conversation, turns
`data_vector` into a header and a line, logs them and removes the PID file. The
conversation reads Level-1 packets, which read bytes, which read the socket; a
silence of two seconds inside the byte stream ends the whole program with
`exit(1)`, so the layers above have no error path for it and the PID file stays.
Instances share nothing but the file system.

What is hard here: the guard's system calls interleave with those of other
instances and a kill may fall between any two; answers from the inverter carry no
number the program compares, so a lost, doubled or unexpected packet can shift
answers against questions; the wait for an answer begins anew with every byte that
comes, whatever it belongs to; a damaged packet leaves the previous one in
`recv_pl2`; whether a packet continues another is decided by what the packet
before left behind; the two escape loops move the end of the buffer they walk
along; an end of the link looks like readable data; the clock is read at three
moments for one row; and the two log files are written one after the other with
no record of how far the last run got. `PROJECT.json` lists each hazard at its
line with the properties that cover it.

## Modules

| Module | What it models |
|---|---|
| `PidFile`, `MCPidFile` | the guard, one action per system call, for any set of process ids |
| `PidFileProofs` | type correctness, `WorkerRecorded`, mutual exclusion |
| `QueryTable` | `SMADATA2PLUS_QUERIES` (what is expected of each answer) and `SMADATA2MODELS` |
| `Poll` | the abstract specification of a poll |
| `Session`, `MCSession` | the conversation, packet by packet, with an inverter that repeats its hello and a link, both of which may misbehave |
| `SessionProofs` | type correctness, that `Session` implements `Poll`, `Complete`, and that only unasked packets keep a poll going |
| `L2Codec`, `MCL2Codec` | `packet_gen` and `packet_read` joined end to end, one loop round per action |
| `Requests`, `Fcs16` | the seven packets the program sends; the checksum |
| `L2CodecProofs` | type correctness, the length bound, delimiting, that packets are read back, that the loops advance, and that the checksum tells a damaged byte |
| `L1Delivery` | the abstract specification of message delivery: messages end in order, each is accepted when it ends |
| `L1Framing`, `MCL1Framing` | `level1_packet_read` inside `cmdcode_wait`, on a stream of bytes |
| `ByteFifo` | the abstract specification of the byte stream |
| `BtStream`, `MCBtStream` | `get_byte` and `connect_read` over a socket |
| `BtStreamProofs` | type correctness, and that `BtStream` implements `ByteFifo` |
| `LogFiles`, `MCLogFiles` | `log_line` with its clock readings |
| `LogFilesProofs` | type correctness and the properties of `log_days` |
| `Arguments`, `Readings` | one round of the getopt loop and the checks behind it; `process_data` |
| `Collector`, `MCCollector` | `main` from the command line to the row, for several runs and inverters |
| `L1FramingProofs` | type correctness, `DamageIsLocal`, `AnswerIsFresh` and the refinement of `L1Delivery` |
| `Recursion` | induction over numbers, and functions defined round by round of a loop |
| `CollectorProofs` | type correctness, the directories, where rows go and what they read |

The layers meet at their abstractions. `Collector` takes from `PidFile` that a
run is turned away while another lives, from `Session` that a poll brings values
of some of the queries (`Polls`), and from `LogFiles` that a row is appended.
`Session` takes whole packets, as `L1Framing` delivers them and `L2Codec` accepts
them: a damaged packet of `Session` is a rejected one of `L2Codec`, a lost one is
a message that `DamageIsLocal` excuses. `L1Framing` takes bytes as `BtStream`
hands them out: in order, or the end of the program.

**PidFile.** `pc[p]` is the next system call of process `p`; `pidFile` is
`Absent`, `Blank` or a pid. `StatPidFile`, `ReadPidFile`, `ProbeOwner`,
`TruncatePidFile` and `WritePidFile` are `check_pid_file` line by line;
`EndWithoutRemove` gathers the returns and exits of `main` that skip
`remove_pid_file`. `orphans` remembers writers whose open file was unlinked under
them. Launches, kills and unrelated programs that hold a process id are the
environment. `OverlappingStarts` says whether a start may fall into another
instance's check.

**Session.** `pc` is the wait or call the program is at. A packet is its command
code, whether it holds a Level-2 packet with a right checksum, and of that packet
the request it answers, `ctrl1`, the content length and the model code. The
number of the request is in the packet but skipped by the program; it is there so
that `Poll` can say which request a value answers. `ctrl2` is 0x90 in all answers
a query accepts and is left out. `Skip` and the `Got...` actions are one
`level1_packet_read` inside `cmdcode_wait`, each with everything the caller does
up to its next wait. `recv_pl2` is kept from packet to packet and cleared where
a function starts with a new one. A null model is not dereferenced: `name` is the
first member, so `printf` is given a null pointer, which the C library prints as
`(null)`; the conversation goes on.

The inverter says hello about once per second until the program's hello reaches it
(`Greet`, `acquainted`), as `docs/protocol.txt:72` has it; a hello is always there
before the two seconds are over. `GotHello` answers one and no more. The inverter
answers requests in order. `Misrespond` lists what may go wrong: the request is lost,
the program's hello with it, the answer is lost, damaged, doubled, cut short, there is
one to the logoff, or the password is refused, after which the answers hold no
values (`admitted`). A late answer is a `Timeout` while the inverter still has
something to say. All of these count as `faults`. `Chatter` is a packet the program
did not ask for, a further hello included; there may be any number of them, of which
`MaxUnderWay` bounds those under way at a moment.

**L2Codec.** `buffer` holds the bytes in use and `pos` the index of the loop.
`EscapeByte` is one round of `add_escapes` in either of its two calls, the second
of which is for the checksum and starts behind its first byte; `StripByte` is one
round of `strip_escapes`. An escape at the very end of a buffer makes the code
read one byte past it; that byte is dropped with the end of the buffer and is
left out. `Fields` is what `packet_read` takes out: it counts two bytes for the
packet count where `packet_gen` put one, so the content it returns lacks the
first byte of what was sent, in the models as in the code. `Fcs` is a parameter,
and the real one is `tryfcs16` of `Fcs16`, whose table is computed from the
polynomial. `Damage` changes one byte behind the header that Level 1 looks at.

**L1Framing.** One `ReadPacket` is one packet from the hunt for a start byte to
its last byte, including the recursive call after a fragment and the next turn of
the loop in `cmdcode_wait`; in between the code does nothing but fetch bytes, and
a silence there is `Timeout`. `Taken` is the decision between a new packet and a
continuation by the command code left in `p`. The check byte is 0 in the model,
because the comparison the code makes with it has no consequence. The two calls
of `get_byte` in one expression are taken in the order the compilers in use take
them, left to right. The length is put together from unsigned bytes, the command
code from bytes as `get_byte` returns them, which is as `char`: from 128 on they are
negative (`Char`). The waits for other command codes, which pass no Level-2
packet (`p2 == NULL`), are in `Session`. The inverter is external; it lays its
packets out as `level1_packet_send` does, in packets below 256 bytes (`MaxContent`);
a message may have any length. `Noise`, `LosePart`, `DamagePart`, `DamageHeader` and
`StrayStart` are the disturbances. A damaged header is accepted by the code, which
does nothing about a wrong check byte: a wrong command code makes a part of a message
another kind of packet, a wrong length another number of bytes. `stray` tells a start
byte that begins no packet, and a length that is wrong, from the other disturbances,
because they shift the boundaries of all packets behind. A length below that of the
header takes the difference (`Shortfall`) from a message that is being put together;
if there is less of it than that, the message is shorter than nothing, and the code
declares an array of that size or writes in front of its buffer. What happens then is
undefined, and `Overrun` ends the model there.

**BtStream.** `link` is open, closed in order, or broken; a connection that
failed in `in_bluetooth_connect` is a link broken from the start, because the
failure is not reported. `ReadNothing` is a `read` that returns 0 or -1, stored
as `buffer_len` like any other. An error of `select` itself changes nothing and
is a stuttering step.

**LogFiles.** `files` maps the days, `latest.csv` and `latest.csv.OLD` to their
lines; a line keeps which columns it has values for, and of its stamp the days on
which the time and the date were read. `Midnight` moves the day on, and
`ClockSetBack`, a fault, moves it back.

**Collector.** `ScanWord` is one word of the command line, taken as `getopt` takes
it with the option string of the code (`Scanned` in `Arguments`); `pending` is an
option whose argument is the next word, whatever that word is: an option behind
`-d` is its argument. A word that joins several options, or an option with its
argument, stands for them one by one. `Dashed` are the words that `getopt` takes for
options: an unknown one ends the run with the usage text, `--` ends the options, and
other words are passed over. `CheckDirectory` and `MakeDirectory` are
one part of a path each, in both uses of `create_directory`; `mkdir` may fail for
whatever reason. `OtherMakesDirectory` may fall between them. `PollLinkLost` is a poll
that never ends, over a lost link or with an inverter that repeats its hello. All that a run knows ends with it
(`End`): only the directories and the rows outlive it. A name is a sequence in which `SN`
is a part of its own. A row keeps where it came from, the command line it was
logged under and whether the inverter's name was found.

## Runs

States are the distinct states TLC found.

| Run | Question and result |
|---|---|
| `pid_guard` | Starts one after the other, up to 2 kills anywhere, 3 pids of which one may belong to an unrelated program: `MutualExclusion` and `WorkerRecorded` hold; `KeepsCollectingOtherwise`: a stale file with a whole pid in it stops no start for good. |
| `pid_race` | Starts that overlap: both instances work (violation, finding). |
| `pid_lockout` | One kill between truncation and write: the blank file is taken for a running instance for ever (violation, finding). |
| `session_poll` | The four queries of the table, 2 faults, a hello repeated until it is answered, any number of unasked packets with 1 under way, a link that may break at any moment, a known and an unknown model code: `ImplementsPoll`, `Complete`, `PollAdvances`, `Finishes`, `Delivers` hold (15,577 states). |
| `codec` | The seven requests, packets full of special bytes, the longest login with every password byte escaped, checksums with a special byte, and one damaged byte anywhere behind the header: `ReadsBack`, `Delimited`, `FitsLengthByte`, `DamageDetected`, `LoopsAdvance` and `Terminates` hold (125,238 states). |
| `framing` | Three messages in one packet or in fragments of 5 bytes and the rest, packets with contents of up to 6, so that two of them have to be cut, addresses with start bytes in them, two packets under way at a time, 2 disturbances, damaged headers among them, and 1 packet of another kind: `ImplementsDelivery`, `DamageIsLocal`, `AnswerIsFresh`, `ReadOrExit` hold (673,484 states). |
| `stream_fifo` | A buffer of 3 bytes, a queue of 4, reads of any length, a link that may end: `ImplementsFifo` and `ByteOrExitWhileUp` hold. |
| `stream_lost` | Once the link has ended, `get_byte` spins for ever (violation, finding). |
| `log_days` | 3 days, 4 runs with full or partial readings, one kill, failing open or clock set back: `LatestMirrorsDated`, `OldIsPreviousDay`, `HeaderFirst` for undisturbed runs; `LatestWithinDated` and `DatedOnlyGrow` always (755,884 states). |
| `log_header` | A kill between the day's file and `latest.csv` leaves `latest.csv` without a header; a partial first reading of the day, one with blank columns: `LatestDescribed` (violation, finding). |
| `collector` | Three runs of two inverters under 16 command lines, full, partial and empty polls, names found or not, another program making directories, `mkdir` failing anywhere, kills: `RowsInPlace`, `RowsAsTold`, `RowsAligned`, `NoneReadsZero`, `DirectoriesInOrder`, `RowsHaveDirectories`, `EndsOrHangs` hold (172,402 states). |
| `collector_options` | The documented options `-p` and `-c` end the run as unknown ones, and the documented flag `-d`, at the end of a command line, for want of an argument (violation, finding). |

Why the bounds are enough. *Guard:* three pids give an owner, a rival and a pid
that is reused; two kills allow a stale file on top of a stale file.
*Conversation:* two faults shift the answers by two queries, or shift them and
shift them back, over all four queries; one unasked packet under way falls between
any two others, and there is no bound on how many come; the truncated lengths lie just below and
at the first value and just below the last. *Codec:* the requests are the only
packets the program sends; the others hold every special byte alone, doubled,
and next to what escapes turn into, so that a loop that looks at the wrong byte
is caught, and the three values a damaged byte takes make an escape, a start byte
and the second half of an escape. Undamaged packets are covered for all contents
by the proofs. *Framing:* state is carried from one packet to the next only, so
that three messages show damage, its neighbour and one that must not be touched;
a fragment ends just behind the start byte and the header of four bytes that Level 2
looks for, so that a first fragment alone already looks like a message. The second
packet under way lets a message be read while the next one is disturbed, and a packet
that says it is longer than it is take a part of the next. A damaged header gets the
command code the program waits for, that of a fragment, which as a length is shorter
than a header, or a length that reaches behind the packet. For any cuts and any number
of messages, packets under way and disturbances there are the proofs. *Byte stream:* a
buffer of three and a queue of four make reads that are short, full and repeated,
and two byte values tell any byte from its neighbour. *Log:* three days give a
rotation onto an existing `latest.csv.OLD`, four runs give two rows in one of
them. *Collector:* three runs give each of two inverters a row and leave a run to
be turned away or to find directories there; the command lines have every option,
absent, with and without its argument, repeated, in either order, as the
argument of another and behind `--`, and options that `getopt` does not know, of which
the usage text lists one.

Fairness. `PidFile`: every live instance keeps running, and the scheduler keeps
starting the program with any process id that is free again and again (strong
fairness: the id is free only from time to time); the readme asks for a start
every three minutes. `Session`: the program runs, an inverter that has a request
before it answers or commits one of its faults, and it says hello while it has not
been greeted. `Finishes` sets apart the two conversations that nothing
in the code ends, because every byte gives the inverter two more seconds: unasked
packets that come for ever, and an inverter that repeats its hello because that of the
program was lost (`Unheard`). TLC refutes `Finishes` without either of them. `L2Codec`: the rounds of
the two loops (`Going`), which wait for nothing. `L1Framing`: the program, which
reads what is there or runs into the two seconds of `select`. `BtStream`: only
the program; the two-second limit is the action `Timeout`, enabled while nothing
is there to be read. `Collector`: the program (`Main`); a hung run has no step of
its own, as `stream_lost` shows, and nobody is obliged to kill it. `Finishes` and
`Delivers` speak of a link that holds, because `get_byte` does not end otherwise.

Five runs end in a violation and are the findings of `PROJECT.json`: the race and
the lockout of the PID file, the wait on a lost link, the header of `latest.csv` that
is missing after a kill or has blank columns, and the documented options that the
option string does not have, or has otherwise.

Behaviours worth knowing, which violate nothing the code promises:

- The program answers one hello. If that answer is lost, the inverter goes on saying
  hello, as `docs/protocol.txt:72` has it; `cmdcode_wait`, which waits for command
  code 10, passes over each of them, each restarts the two seconds, and the run hangs
  until it is killed; every start before that is turned away by its PID file
  (`Finishes` names this case).
- One answer too many, to the logoff or doubled, makes every later query read the
  answer to the one before it. No wrong value is kept, because the response codes
  differ, but the rest of the row is empty (`ImplementsPoll` holds, `Complete` is
  stated for `faults = 0`).
- `add_escapes` is called for the checksum as if it were a packet, so that its
  first byte is never escaped. A checksum that begins with 0x7d is then stripped
  wrongly and the packet rejected, one that begins with 0x7e puts a start byte
  inside the packet. None of the seven packets the program sends has such a
  checksum with the counts it sends them at (they begin with 28, 66, 36, 03, 21,
  af and 52, in hexadecimal), which is why `ReadsBack` and `Delimited` exclude
  them; the first query, sent as the seventh packet and not as the fourth, would
  have one that begins with 7d.
- A damaged or lost fragment costs its message and at most the next one, which is
  then taken for its continuation. With enough losses the parts of two messages can
  even make a third one, which is accepted at the end of another message
  (`LatelyDisturbed` excuses it): the fragments carry no number. A stray start byte or
  a damaged length can cost more.
- `-i` without `-b` prints the usage text, as does any option the option string does
  not have. All of them end the run without a row (`RowsAsTold`).
- A missing value of three bytes 0xFF is recognised by one limit for voltages and
  currents. The number in the code, 16700, works for both factors; the one in the
  comment above it, 167772, would miss the currents.
- `main` ignores the result of `log_line`: a row that could not be logged is lost
  without a message, and the run ends as a success.
- A row logged around midnight may have the time of one day with the date of the
  next, because the clock is read twice.

## Proofs

Assumptions are the `ConstantsAssumption` of each module, `FcsAssumption` of
`L2Codec` (a checksum is two bytes), `TableAssumption` of `Fcs16` (the entries of
its table differ in their high bytes), `AbsentAssumption` of `LogFiles` (a missing
file is no sequence of lines), `AnswersAssumption` of `Session` (every query has
values and a complete answer reaches all of them, as in the table), and two of
`Collector`: `NamesAssumption` (an inverter's name ends with `SN` and a serial
number that no other has) and `PollsAssumption` (a poll keeps a value at most
once, which is `ImplementsPoll` of `Session` and the table). TLC evaluates all of
them in the runs.

`Recursion` gives the other modules induction over numbers. The theorem of the
library takes an operator as a parameter, which no prover here instantiates; the
same is proved for sets, from the well-foundedness of `<`, and from it that a
function defined from each argument to the next exists and has the values of its
equation (`Rounds`). That is how the loops that are recursive functions in the
models are reasoned about.

`PidFileProofs` proves `TypeOK` for all constants and, under
`~OverlappingStarts`, `WorkerRecorded` and `MutualExclusion` for any number of
process ids and kills. The two invariants are not inductive: the argument needs
that while one instance works or checks nobody else is past a point from which it
could truncate or remove the file, and that no writer holds an unlinked file
(`RecordedIsExclusive` and the guard lemmas).

`SessionProofs` proves `TypeOK`, and `Spec => ImplementsPoll`, for any number of
queries with distinct non-zero response codes, any lengths, any number of faults,
of hellos and of other unasked packets, and with a link that may break. The inductive invariant
`IInv` says that every packet under way whose `ctrl1` is that of a query answers
the request for that query, that the same is true of the packet kept in
`recv_pl2`, and that the packet number keeps step with the place in the
conversation; without the first two, a stale packet could supply a value.
`Spec => []Complete` needs more: that while nothing has gone wrong the program and
the inverter stay in step. `InTurn` says that of the requests that are answered
with a Level-2 packet at most one is unanswered or its answer unread, that there
is none where the program waits for none, that the answer it waits for at a query
is the complete one to that query, and that every query before it was answered in
full. A first fault ends that, so the invariant is `faults = 0 => InTurn`, on top
of `IInv`. `Spec => PollAdvances` is what can be proved here of `Finishes`: what a
poll has ahead of it (`Ahead`: the steps left to take, three for every request
under way, one for every packet, and the end of the link) is a number that every step
makes smaller but those that bring a packet nobody asked for (`Unasked`). A request
costs what its answers may bring, so that no inverter, however faulty its answers,
makes a poll of the code go round in circles; only hellos and other unasked packets
can keep it going. That the program is not left waiting either is for `Finishes` and
its fairness.

`BtStreamProofs` proves `TypeOK` and `Spec => ImplementsFifo` for any size of the
buffer and of the queue. A return of a byte is a `Get` of the FIFO, and a refill
is a stuttering step, because what is unread in the buffer followed by what is in
the socket does not change; that needs the position and the length of the buffer
to bound what is unread after short, full and failed reads.

`LogFilesProofs` proves all six properties of `log_days`, for any number of days,
runs, columns and faults. `DatedOnlyGrow` and `LatestWithinDated` hold with every
fault; the invariant behind the second says that a run that has reached
`latest.csv` has its row in the day's file. The three properties of undisturbed
runs need, for each point of a run, how far `latest.csv` is behind the day's file
(`LatestIsACopy`), that a header is in front as soon as a file exists
(`HeaderComesFirst`), and whether the rotation of the day has happened
(`OldIsTheLastButOne`).

`L2CodecProofs` is about any set of packets with contents of up to 33 bytes. `LengthFits` rests on a sum: each round of the
loop adds at most one byte and leaves at most one byte less to be looked at, so
that the length stays below twice that of the unescaped packet. `FramesAreDelimited`
needs `CleanTo`: what the loop has passed holds special bytes only as the first
half of an escape. `PacketsAreReadBack` shows that stripping undoes escaping,
for any checksum function whose value does not begin with the escape byte. Its
invariant names a place in the buffer for every byte of the packet (`Placed`);
while escaping, the bytes up to `pos` are at their places escaped and the rest
follows unchanged, and while stripping the other way round, so that each round
moves the border by one. `TypeCorrect` holds for damaged packets as well, and
says that `packet_read`, which looks for its fields at fixed places, never looks
behind the end of what `strip_escapes` left. Its invariant `LongEnough` counts:
each byte that is stripped is an escape that `add_escapes` put in, or the one
unescaped byte of the checksum, or the damaged one; so the escapes ahead never
outnumber the bytes that are there beyond the 30 the fields take. `RoundsAreFinite`
is what can be proved here of `Terminates`: each round of the two loops has less
ahead of it than the round before. Escaping moves the end of the buffer away by
one, so the bytes ahead count twice, less one where the next byte is left alone,
as the second half of an escape is.

`DamageIsDetected` says that a packet with a damaged byte is rejected or read as
what it was. It holds for every checksum that is computed like `tryfcs16`, in
rounds that take the bytes one after the other into a word of two bytes
(`ComputedBy`), if a round loses nothing: from two words that differ it makes two
words that differ, and from two bytes as well (`Lossless`). One wrong byte then
makes a wrong word, which every round behind it keeps wrong up to the comparison
(`ChecksumTells`). The code's rounds are so because the high bytes of the table
are 256 different ones, which `TableAssumption` of `Fcs16` states for the table
computed from the polynomial and TLC evaluates; the low eight bits of a word pick
the entry, whose high byte tells them, and the rest of the word is then told by
the rest of the result. The rest of the argument is about the buffer: while
stripping, it is the sent packet escaped, but for the one byte (`OneByteWrong`),
and at the end the fields but for that byte (`WrongByteFound`). The theorem is about
damage that makes no escape and unmakes none (`EscapesStay`), and about checksums
that do not begin with the escape byte, as in `ReadsBack`. Damage that moves
escapes shifts all bytes behind it, and whether the checksum tells that depends on
the bytes; for the packets of the run TLC finds that it does.

`L1FramingProofs` is about messages of any length, cut in any way into packets below
256 bytes, for any addresses and any number of packets under way, disturbances and
packets in between. `TypeOK` holds with every disturbance, wrong lengths included; it
says that the content of `p` is as long as its length has it. `DamageIsLocal` and
`AnswerIsFresh` say nothing once a start byte has strayed or a length was damaged, so
the invariant `LInv` speaks of lines on which none has.
It is a statement about the packets of which the bytes under way are made, which
the model has no variable for: there is a sequence of parts, laid out on the wire
one behind the other, with start bytes inside them only (`Layout`), so that the
hunt for a start byte finds the first part even if an address, a content or a
length has a start byte in it; each part of an undisturbed message continues the
part before (`Chain`); what the program has in `p` after a fragment is the
beginning of a message, which the first part under way continues (`Held`); and what
the sender has left continues the last one (`Ahead`). `ReadFlow` is the step in
which a part leaves the wire and the sequence, and `PutFlow` the one in which a
part joins both; a part whose command code is damaged joins them as what it says it
is.

That `L1Framing` implements `L1Delivery` (`EachDelivered`) has two parts. That
messages end in the order they were sent in holds with every disturbance and follows
from the types: message numbers grow along the wire, and those that have been read
are smaller still (`Ordered`). That a message is accepted when it ends, and at no
other time, is `ReadFlow`: what is found in `p` behind a packet is the message that
ends with it, and nothing if none does, unless the message or the one before it was
disturbed, or a newer one, or something strayed. Those steps are excused, as damage
may make one message of another for all that framing knows; that it does not is the
checksum's business. On a quiet line nothing is excused, and messages are delivered
one by one as they end.

`CollectorProofs` proves all safety properties of `collector` for any command
lines, paths, polls, inverters and number of runs. The invariant of the directories (`DInv`) says that
the set of directories is closed under parents, that what `create_directory` has
walked over is there, so that `mkdir` may fail for whatever else but never for want
of a parent (`DirectoriesInOrder`), and that who has walked to the end of the log
directory has it; a row needs in addition that the path
walked for it is that of its own inverter. The invariant of the rows (`RInv`) says
that a name that was found is that of the address of the run, and that the
directory of a row ends with the serial number; from there on it is
`NamesAssumption` that keeps two inverters apart.

`RowsAsTold` says what a command line asks for without the loop of `getopt`: which
words are options is told from the words alone (`Places`), and what counts is the
word behind the last place of an option. `SInv` relates that to the loop:
at every word the options are those behind the last place so far (`Behind`), an
argument is pending exactly if the last word is such a place, and a run that has
passed the checks has an absolute log directory, a debug level and no other
option. `RowsAligned` and `NoneReadsZero` rest on `VInv`, that a row is the header
and the line of one and the same poll, and on what the loop of `process_data`
finds in it for a column: at most one value, because a poll has every value at
most once, and the value that is in it.

Proving `RowsAsTold` and `RowsAligned` changed the models in two places: the
alternatives of `Scanned` overlapped where a word after an option looks like an
option, and are now told apart by `pending` as in the code; and `Of` is the loop of
`process_data`, round by round.

Only model-checked: the liveness properties (`KeepsCollectingOtherwise`, `Finishes`,
`Delivers`, `Terminates`, `ReadOrExit`, `ByteOrExitWhileUp`, `EndsOrHangs`), which
are out of reach of the provers used here, though the measures behind `Finishes`
and `Terminates` are proved; `DamageDetected` for damage that makes or unmakes an
escape, and that the real checksum is `Lossless`, because it is made of bitwise
operators and a fold the provers do not know. The violations are TLC's by nature.
Neither checked nor proved is what `L1Framing` accepts after a stray start byte or a
damaged length, apart from the types, the order in which messages end and
`ReadOrExit`.

## Not modelled

- The text helpers (`convert_double`, `replace_spaces`, `trim_whitespace`,
  `str_mac_validate`, `strcasestr`), the debug output and the build files: they
  change no state, and several are not called.
- What the inverter makes of a password, beyond accepting or refusing it: no part of
  the login answer is looked at. The bytes of the Level-1 greeting are not compared
  with anything.
- `in_bluetooth_get_my_address` fills in a field that nothing reads back; the
  inquiry of a discovery run only prints.
- What the program does once a damaged length has made a message shorter than
  nothing: that is undefined behaviour (`Overrun`).
- Names and power classes of the models, digits of the values, and the layout of
  the printed lines.
- A Bluetooth socket that could not be created: its descriptor is used all the
  same, and what a system call on it does is no matter of this program.
- Writes to a full disk: the code checks none of them.

## What is left

Every safety property that a run checks is proved, as far as it can hold for
every value of the constants. Two things could still be added: how far a stray start
byte or a damaged length reaches, which `DamageIsLocal` leaves open; and the measures
of the other loops, as `PollAdvances` and `LoopsAdvance` are for theirs.
