----------------------------- MODULE SerialStream -----------------------------
(***************************************************************************)
(* Commands typed on the serial port: SerialStreamParser.cpp and the parts *)
(* of cdc.cpp which echo, print and read.  Core 0 reads characters, echoes *)
(* them and adds them to the buffer of the parser; core 1 takes commands   *)
(* out of that buffer and hands them to a handler, which prints.  Whoever  *)
(* prints holds the mutex of the output and serves the USB device in       *)
(* between.                                                                *)
(*                                                                         *)
(* environment.alphabet  the characters the user types                     *)
(* environment.typing    how many of them at most (a bound)                *)
(* environment.echo      whether the echo is on (command XH)               *)
(* environment.resets    how many control requests ask for a reset         *)
(* environment.nested    whether they may arrive while somebody prints     *)
(***************************************************************************)
EXTENDS HostCores, Integers, SequencesExt

CONSTANTS
  MaxQueue,    \* MAX_QUEUE_SIZE, 2048 in the code
  ChunkSize    \* the size of the buffer in cdc_task(), 64 in the code

VARIABLES
  rx,           \* the members of SerialStreamParser
  parserMutex,  \* mParserMutex
  stdioMutex,   \* stdioMutex of cdc.cpp
  chunk,        \* the characters core 0 has read and not added yet
  corrupt,      \* the containers were used outside their bounds: anything may follow
  typed,        \* history: what was added since the last reset
  submitted,    \* history: the commands which were handled since then
  resets        \* the number of resets so far (a bound)

serialVars == <<rx, parserMutex, stdioMutex, chunk, corrupt, typed, submitted, resets>>

NUL == 0
BINARY_START_CHAR == 5
BS == 8
DEL == 127
EOL == 10

(* strchr() finds the end of its string as well, so NUL is in each of them *)
BACKSPACE_CHARS == {NUL, BS, DEL}
INPUT_EOL_CHARS == {NUL, 10, 13}
WHITESPACE_CHARS == {NUL, 9, 10, 13, 32}

ASSUME SerialAssumption == MaxQueue \in Nat \ {0} /\ ChunkSize \in Nat \ {0}

Chars == 0 .. 255
Words == {n \in Nat : n < 65536}

ASSUME AlphabetAssumption == \A e \in Environments : e.alphabet \subseteq Chars

-----------------------------------------------------------------------------
(* addChars(), one character at a time *)

EmptyRx ==
  [buffer |-> <<>>,      \* mParserRx
   ends |-> <<>>,        \* mEndMarkers, counted from 1
   lastIsEol |-> FALSE,  \* mLastIsEol
   overflow |-> FALSE,   \* mOverflowDetected
   parsed |-> -1,        \* mNumBinaryParsed
   stored |-> 0,         \* mStoredBinarySize
   left |-> 0,           \* mNumBinaryLeft
   reports |-> 0,        \* history: overflows reported to the user
   slipped |-> FALSE,    \* history: a key acted on something else than the line being typed
   astray |-> FALSE]     \* history: a marker outside of the buffer was used

(* A character other than 0x08 which finds the buffer full *)
Flagged(r, c) == [r EXCEPT !.overflow = @ \/ (Len(r.buffer) >= MaxQueue /\ c # BS)]

Pushed(r, c) == IF r.overflow THEN r ELSE [r EXCEPT !.buffer = Append(@, c)]

(* One byte of binary data, the first two of which are its length *)
BinaryByte(r, c) ==
  LET n == r.parsed + 1
      size == IF n = 1 THEN 256 * c ELSE IF n = 2 THEN r.stored + c ELSE r.stored
      left == IF n = 2 THEN size ELSE (r.left + 65535) % 65536
  IN Pushed([r EXCEPT !.parsed = IF left = 0 THEN -1 ELSE n,
                      !.stored = size, !.left = left], c)

BinaryStart(r) ==
  [Pushed([r EXCEPT !.parsed = 0, !.stored = 0, !.left = 2], BINARY_START_CHAR)
     EXCEPT !.lastIsEol = FALSE]

(* The end of a command that did not fit: those before it are kept.  NUL,  *)
(* in a line that fits a backspace, is such an end too.                    *)
OverflowEnds(r, c) ==
  LET inside == r.ends # <<>> /\ Last(r.ends) \in DOMAIN r.buffer IN
  [r EXCEPT !.buffer = IF inside THEN SubSeq(@, 1, Last(r.ends)) ELSE <<>>,
            !.overflow = FALSE, !.lastIsEol = TRUE, !.reports = @ + 1,
            !.slipped = @ \/ c = NUL,
            !.astray = @ \/ (r.ends # <<>> /\ ~inside)]

(* The line being typed is empty, and a command waits in front of it *)
AtLineStart(r) == r.ends # <<>> /\ Last(r.ends) = Len(r.buffer)

(* A backspace at the start of the line is refused only as long as nothing *)
(* was typed since the last one ended (mLastIsEol): after a character and  *)
(* a backspace, the next backspace takes the end of the waiting command.   *)
Backspaced(r) ==
  IF r.lastIsEol \/ r.buffer = <<>> THEN r
  ELSE [r EXCEPT !.buffer = Front(@), !.slipped = @ \/ AtLineStart(r)]

Ended(r) ==
  IF r.lastIsEol THEN r
  ELSE [r EXCEPT !.ends = Append(@, Len(r.buffer) + 1),
                 !.buffer = Append(@, NUL), !.lastIsEol = TRUE]

AddChar(unflagged, c) ==
  LET r == Flagged(unflagged, c) IN
  CASE r.parsed >= 0 -> BinaryByte(r, c)
    [] r.parsed < 0 /\ c = BINARY_START_CHAR -> BinaryStart(r)
    [] r.parsed < 0 /\ c # BINARY_START_CHAR /\ r.overflow ->
         IF c \in INPUT_EOL_CHARS THEN OverflowEnds(r, c) ELSE [r EXCEPT !.lastIsEol = FALSE]
    [] r.parsed < 0 /\ c \in BACKSPACE_CHARS /\ ~r.overflow -> Backspaced(r)
    [] r.parsed < 0 /\ c \in INPUT_EOL_CHARS \ BACKSPACE_CHARS /\ ~r.overflow -> Ended(r)
    [] OTHER -> [Pushed(r, c) EXCEPT !.lastIsEol = FALSE]

addChars(r, chars) == FoldLeft(AddChar, r, chars)

-----------------------------------------------------------------------------
(* process() *)

(* A command without the blanks in front of it; handlers see nothing else *)
Stripped(command) ==
  LET blanks == {n \in 0 .. Len(command) : \A i \in 1 .. n : command[i] \in WHITESPACE_CHARS}
      most == CHOOSE n \in blanks : \A k \in blanks : k <= n
  IN SubSeq(command, most + 1, Len(command))

FirstCommand(r) == Stripped(SubSeq(r.buffer, 1, Head(r.ends) - 1))

Erased_OffByOne(r) ==
  LET pos == Head(r.ends) IN
  [r EXCEPT !.buffer = SubSeq(@, pos + 1, Len(@)),
            !.ends = [i \in 1 .. Len(@) - 1 |-> @[i + 1] - pos + 1]]

Erased(r) ==
  LET pos == Head(r.ends) IN
  [r EXCEPT !.buffer = SubSeq(@, pos + 1, Len(@)),
            !.ends = [i \in 1 .. Len(@) - 1 |-> @[i + 1] - pos]]

WithCommand(commands, command) == IF command = <<>> THEN commands ELSE Append(commands, command)

(* The command is taken if its marker is inside the buffer, and left alone *)
(* if the marker is the end of the buffer (eol == mParserRx.end()).  Any   *)
(* other marker is outside, and so is the one of an empty list, unless the *)
(* buffer is empty as well.                                                *)
Sound(r) == r.ends # <<>> /\ Head(r.ends) \in DOMAIN r.buffer
Outside(r) ==
  IF r.ends = <<>> THEN r.buffer # <<>> ELSE Head(r.ends) \notin 1 .. Len(r.buffer) + 1

-----------------------------------------------------------------------------
(* What the user can expect: the lines of what was typed, with no limit    *)

Typist == [lines |-> <<>>, line |-> <<>>, ended |-> FALSE, phase |-> "text", left |-> 0]

TypeText(t, c) ==
  CASE c = BINARY_START_CHAR ->
         [t EXCEPT !.line = Append(@, c), !.phase = "high", !.ended = FALSE]
    [] c \in BACKSPACE_CHARS ->
         IF t.ended \/ t.line = <<>> THEN t ELSE [t EXCEPT !.line = Front(@)]
    [] c \in INPUT_EOL_CHARS \ BACKSPACE_CHARS ->
         IF t.ended THEN t
         ELSE [t EXCEPT !.lines = Append(@, t.line), !.line = <<>>, !.ended = TRUE]
    [] OTHER -> [t EXCEPT !.line = Append(@, c), !.ended = FALSE]

TypeBinary(t, c) ==
  LET left == IF t.phase = "high" THEN 256 * c
              ELSE IF t.phase = "low" THEN t.left + c ELSE t.left - 1
      after == IF t.phase = "high" THEN "low" ELSE IF left = 0 THEN "text" ELSE "data"
  IN [t EXCEPT !.line = Append(@, c), !.left = left, !.phase = after]

Type(t, c) == IF t.phase = "text" THEN TypeText(t, c) ELSE TypeBinary(t, c)

Typed(chars) == FoldLeft(Type, Typist, chars)

Commands(lines) == FoldLeft(LAMBDA seen, line : WithCommand(seen, Stripped(line)), <<>>, lines)

-----------------------------------------------------------------------------
SerialInit ==
  /\ rx = EmptyRx
  /\ parserMutex = Unowned /\ stdioMutex = Unowned
  /\ chunk = <<>> /\ corrupt = FALSE
  /\ typed = <<>> /\ submitted = <<>> /\ resets = 0

(* reset(), with what was typed and done before forgotten by the history   *)
Reset ==
  /\ rx' = EmptyRx
  /\ typed' = <<>> /\ submitted' = <<>>
  /\ resets' = resets + 1

(* --- core 0: cdc_task() --- *)

(* The characters that came in are read; the echo is printed first *)
Read ==
  /\ Idle(Core0)
  /\ \E n \in 1 .. ChunkSize : \E chars \in [1 .. n -> environment.alphabet] :
       /\ Len(typed) + n <= environment.typing
       /\ chunk' = chars
  /\ Goes(Core0, IF environment.echo THEN "echo" ELSE "add")
  /\ UNCHANGED <<rx, parserMutex, stdioMutex, corrupt, typed, submitted, resets>>

(* stdio_usb_out_chars2() takes the mutex of the output *)
EchoBegins ==
  /\ MayEnter(stdioMutex, Core0) /\ Step(Core0, "echo", "echoing")
  /\ stdioMutex' = Core0
  /\ UNCHANGED <<rx, parserMutex, chunk, corrupt, typed, submitted, resets>>

EchoEnds ==
  /\ Step(Core0, "echoing", "add")
  /\ stdioMutex' = Unowned
  /\ UNCHANGED <<rx, parserMutex, chunk, corrupt, typed, submitted, resets>>

(* addChars() under the mutex of the parser; an overflow is reported with  *)
(* that mutex held                                                         *)
Add ==
  /\ At(Core0, "add") /\ MayEnter(parserMutex, Core0)
  /\ rx' = addChars(rx, chunk)
  /\ typed' = typed \o chunk /\ chunk' = <<>> /\ corrupt' = rx'.astray
  /\ IF rx'.reports > rx.reports
       THEN parserMutex' = Core0 /\ Goes(Core0, "report")
       ELSE UNCHANGED parserMutex /\ Goes(Core0, "idle")
  /\ UNCHANGED <<stdioMutex, submitted, resets>>

ReportBegins ==
  /\ MayEnter(stdioMutex, Core0) /\ Step(Core0, "report", "reporting")
  /\ stdioMutex' = Core0
  /\ UNCHANGED <<rx, parserMutex, chunk, corrupt, typed, submitted, resets>>

ReportEnds_KeepsMutex ==
  /\ Step(Core0, "reporting", "idle")
  /\ stdioMutex' = Unowned
  /\ UNCHANGED <<rx, parserMutex, chunk, corrupt, typed, submitted, resets>>

ReportEnds ==
  /\ Step(Core0, "reporting", "idle")
  /\ stdioMutex' = Unowned /\ parserMutex' = Unowned
  /\ UNCHANGED <<rx, chunk, corrupt, typed, submitted, resets>>

(* --- core 1: process() --- *)

(* Whether there is a command is asked without the mutex *)
SeesCommand ==
  /\ rx.ends # <<>>
  /\ Step(Core1, "idle", "take")
  /\ UNCHANGED serialVars

(* With the mutex, the command is looked at.  It is gone if a reset came   *)
(* first, and then the buffer decides what front() of the empty list does. *)
(* A command whose end was backspaced stays until more is typed.           *)
Take ==
  /\ At(Core1, "take") /\ MayEnter(parserMutex, Core1)
  /\ corrupt' = Outside(rx)
  /\ IF Sound(rx) THEN parserMutex' = Core1 /\ Goes(Core1, "handle")
                  ELSE UNCHANGED parserMutex /\ Goes(Core1, "idle")
  /\ UNCHANGED <<rx, stdioMutex, chunk, typed, submitted, resets>>

HandlerPrints ==
  /\ MayEnter(stdioMutex, Core1) /\ Step(Core1, "handle", "printing")
  /\ stdioMutex' = Core1
  /\ UNCHANGED <<rx, parserMutex, chunk, corrupt, typed, submitted, resets>>

(* The command has been handled and is erased; what it does is left to     *)
(* CommandHandlers                                                         *)
Handled ==
  /\ ~corrupt /\ Step(Core1, "printing", "idle")
  /\ stdioMutex' = Unowned /\ parserMutex' = Unowned
  /\ rx' = Erased(rx) /\ submitted' = WithCommand(submitted, FirstCommand(rx))
  /\ UNCHANGED <<chunk, corrupt, typed, resets>>

(* --- control request 0xA5A5 of the USB host --- *)

MayReset == resets < environment.resets

(* From the USB task of core 0, in its loop or while it writes to the WebUSB *)
(* host, which waits for the mutex                                           *)
ResetRequest ==
  /\ MayReset /\ (Idle(Core0) \/ At(Core0, "writing")) /\ MayEnter(parserMutex, Core0)
  /\ Reset
  /\ UNCHANGED <<pc, parserMutex, stdioMutex, chunk, corrupt>>

(* From the USB task that core 0 runs while it echoes.  It waits with the  *)
(* mutex of the output held.  What is being echoed is then read as the     *)
(* first of what is typed.                                                 *)
NestedRequest ==
  /\ environment.nested /\ MayReset
  /\ Step(Core0, "echoing", "resetting")
  /\ UNCHANGED serialVars

NestedReset ==
  /\ MayEnter(parserMutex, Core0) /\ Step(Core0, "resetting", "echoing")
  /\ Reset
  /\ UNCHANGED <<parserMutex, stdioMutex, chunk, corrupt>>

(* From the one core 1 runs while a handler prints: the mutex is its own,  *)
(* so the reset does not wait, and the iterators process() goes on with    *)
(* are no longer good.                                                     *)
ResetUnderHandler ==
  /\ environment.nested /\ MayReset /\ At(Core1, "printing")
  /\ Reset
  /\ corrupt' = TRUE
  /\ UNCHANGED <<pc, parserMutex, stdioMutex, chunk>>

SerialCore0 ==
  EchoBegins \/ EchoEnds \/ Add \/ ReportBegins \/ ReportEnds \/ NestedReset

SerialCore1 == SeesCommand \/ Take \/ HandlerPrints

(* All but Handled; nothing is said of what follows corruption *)
SerialStep ==
  /\ ~corrupt
  /\ SerialCore0 \/ SerialCore1 \/ Read \/ ResetRequest \/ NestedRequest \/ ResetUnderHandler

-----------------------------------------------------------------------------
SerialTypeOK ==
  /\ rx.parsed >= -1 /\ rx.left \in Words /\ rx.stored \in Words
  /\ ~rx.slipped => \A i \in DOMAIN rx.ends : rx.ends[i] \in DOMAIN rx.buffer
  /\ parserMutex \in Owners /\ stdioMutex \in Owners
  /\ Len(chunk) <= ChunkSize
  /\ \A i \in DOMAIN rx.buffer : i > MaxQueue => rx.buffer[i] = BS
  /\ corrupt \in BOOLEAN

(* "Max of 2 KB of memory to use for tty RX queue"                         *)
(* (SerialStreamParser.hpp:58).                                            *)
WithinLimit == Len(rx.buffer) <= MaxQueue

(* "Can't backspace before EOL character" (SerialStreamParser.cpp:141): the *)
(* end of a command that waits stays in the buffer.                        *)
EndsStay == ~corrupt => \A i \in DOMAIN rx.ends : rx.ends[i] \in DOMAIN rx.buffer

Waiting(r) == [i \in DOMAIN r.ends |->
                 SubSeq(r.buffer, IF i = 1 THEN 1 ELSE r.ends[i - 1] + 1, r.ends[i] - 1)]

InOrderOf(part, whole) ==
  \E at \in [DOMAIN part -> DOMAIN whole] :
    /\ \A i \in DOMAIN part : whole[at[i]] = part[i]
    /\ \A i, j \in DOMAIN part : i < j => at[i] < at[j]

(* What core 1 handled and is going to handle are lines the user typed,    *)
(* each as it was typed, in order and once; and as many are missing at most *)
(* as the user was told of by an overflow.  This is what addChars() and     *)
(* process() keep between the two cores through full buffers, backspaces    *)
(* and binary data, as long as the containers are used inside their bounds  *)
(* (~corrupt) and no key acted on another line than the one being typed     *)
(* (~slipped): a backspace that took the end of a waiting command, or NUL,  *)
(* which is a backspace but ends a line that did not fit.                   *)
CommandsIntact ==
  ~corrupt /\ ~rx.slipped =>
    LET lines == Commands(Typed(typed).lines)
        seen == submitted \o Commands(Waiting(rx))
    IN InOrderOf(seen, lines) /\ Len(lines) - Len(seen) <= rx.reports

(* Every command in the buffer is handled in the end, or a reset throws it *)
(* away: the cores do not keep the mutexes of the parser and of the output *)
(* from each other (SerialStreamParser, stdio_usb_out_chars2()).  Only a    *)
(* command whose end was backspaced may wait for ever.                     *)
CommandsHandled ==
  rx.ends # <<>> ~> (rx.ends = <<>> \/ corrupt \/ Head(rx.ends) \notin DOMAIN rx.buffer)

(* The mutex a core waits for where it stands *)
Wants(c) ==
  CASE pc[c] \in {"echo", "report", "handle"} -> stdioMutex
    [] pc[c] \in {"add", "take", "resetting"} -> parserMutex
    [] OTHER -> Unowned

(* The guard "locks mutex as long as it wouldn't cause a deadlock"         *)
(* (LockGuard.hpp): the cores never wait for each other.                   *)
NoCircularWait == \E c \in Cores : Wants(c) # Other(c)

-----------------------------------------------------------------------------
(* The inductive invariant *)

RxType ==
  [buffer: Seq(Chars), ends: Seq(Int), lastIsEol: BOOLEAN, overflow: BOOLEAN,
   parsed: Int, stored: Words, left: Words, reports: Nat, slipped: BOOLEAN, astray: BOOLEAN]

\* The end markers rise and lie in the buffer.
MarkersFit(r) ==
  /\ \A i \in DOMAIN r.ends : r.ends[i] \in DOMAIN r.buffer
  /\ \A i, j \in DOMAIN r.ends : i < j => r.ends[i] < r.ends[j]

RxFits(r) ==
  /\ r \in RxType /\ r.parsed >= -1
  /\ ~r.slipped => MarkersFit(r) /\ ~r.astray
  /\ \A i \in DOMAIN r.buffer : i > MaxQueue => r.buffer[i] = BS

TypistType ==
  [lines: Seq(Seq(Chars)), line: Seq(Chars), ended: BOOLEAN,
   phase: {"text", "high", "low", "data"}, left: Nat]

\* The line being typed is what follows the last marker, unless some of it was lost; and
\* the parser is where the typist is in binary data.
LastEnd(r) == IF r.ends = <<>> THEN 0 ELSE r.ends[Len(r.ends)]
Unended(r) == SubSeq(r.buffer, LastEnd(r) + 1, Len(r.buffer))

Agrees(r, t) ==
  /\ ~r.overflow /\ ~r.slipped => Unended(r) = t.line /\ r.lastIsEol = t.ended
  /\ t.ended => t.line = <<>> /\ t.phase = "text"
  /\ CASE t.phase = "text" -> r.parsed = -1
       [] t.phase = "high" -> r.parsed = 0 /\ r.left = 2
       [] t.phase = "low" -> r.parsed = 1 /\ r.left = 1 /\ r.stored = t.left /\ t.left <= 65280
       [] t.phase = "data" -> r.parsed >= 2 /\ r.left = t.left /\ t.left > 0

\* What was handled and waits are the lines that were typed, but for those reported lost.
Told(done, r, t) ==
  ~r.slipped =>
  LET lines == Commands(t.lines)
      seen == done \o Commands(Waiting(r))
  IN InOrderOf(seen, lines) /\ Len(lines) - Len(seen) <= r.reports

\* Each mutex is held where the code holds it, and what is echoed will be added.
Holding ==
  /\ pc[Core1] \in {"handle", "printing"} => parserMutex = Core1 /\ Sound(rx)
  /\ pc[Core0] \in {"report", "reporting"} => parserMutex = Core0
  /\ pc[Core0] \in {"echo", "echoing", "resetting", "add"} \/ chunk = <<>>
  /\ ~rx.astray

StrippedOf(lines) == {Stripped(line) : line \in lines}

SerialData ==
  /\ RxFits(rx)
  /\ typed \in Seq(Chars) /\ submitted \in Seq(StrippedOf(Seq(Chars)))
  /\ Typed(typed) \in TypistType
  /\ Agrees(rx, Typed(typed)) /\ Told(submitted, rx, Typed(typed))

SerialInv ==
  /\ SerialData
  /\ parserMutex \in Owners /\ stdioMutex \in Owners /\ corrupt \in BOOLEAN
  /\ chunk \in Seq(Chars) /\ Len(chunk) <= ChunkSize
  /\ ~corrupt => Holding

=============================================================================
