---------------------------- MODULE CommandHandlers ----------------------------
(***************************************************************************)
(* What a command does: the handlers under tty_parsers/ and                *)
(* webusb_parsers/, as functions of the command and of the nodes there are. *)
(* A command is a record:                                                  *)
(*   family  "flycast", "maple", "system" or "settings"                    *)
(*   kind    the letter that selects it, "maple" for a packet to pass on   *)
(*   player  the index it names, -1 if it names none                       *)
(*   value, second  further numbers                                        *)
(*   whole   whether as much payload came as the command needs             *)
(* nodes are the players with a main node, available those of them whose   *)
(* node is not for detection only.                                         *)
(***************************************************************************)
EXTENDS Integers, FiniteSets, FiniteSetsExt, Functions

CONSTANTS
  Players,  \* indices of players, 0 .. kNumPlayers - 1
  Pins      \* 0 .. NUM_BANK0_GPIOS - 1

NoPlayer == -1
NUM_DEFAULT_SCREENS == 4
kNumPlayerDetectionModes == 5
kNumDpadTypes == 3

Answers == {"success", "failure", "attention", "invalid", "later"}

ASSUME PlayersAssumption == IsFiniteSet(Players) /\ Players \subseteq Nat /\ Pins \subseteq Nat

-----------------------------------------------------------------------------
(* Nodes a command is for, as sets with one member at most *)

Node(i, nodes) == {i} \cap nodes

(* An older Flycast says 0 and means the only available node *)
getNode(i, nodes, available) ==
  IF i = 0 /\ Cardinality(available) = 1 THEN available ELSE Node(i, nodes)

(* A Maple packet goes to the only available node, or to that of its sender *)
ByAddress(sender, available) ==
  IF Cardinality(available) = 1 THEN available ELSE {sender} \cap available

(* Two handlers are left with the last available node of their count when  *)
(* no node has the address                                                 *)
ByAddressOrLast(sender, nodes, available) ==
  IF Cardinality(available) > 1 /\ sender \notin nodes
  THEN {Max(available)} ELSE ByAddress(sender, available)

Nothing == [answer |-> "success", screens |-> <<>>, sends |-> {}, shows |-> FALSE, refreshes |-> {}]

Answer(a) == [Nothing EXCEPT !.answer = a]

AnswerIf(b) == Answer(IF b THEN "success" ELSE "failure")

(* whole says that the words are complete and the length in the frame is   *)
(* right.  The answer comes when the bus has answered.                     *)
PassOn(command, to) ==
  IF command.whole /\ to # {} THEN [Answer("later") EXCEPT !.sends = to] ELSE Answer("failure")

-----------------------------------------------------------------------------
(* Flycast.  Screens in the domain of "screens" get one of the default     *)
(* pictures; a packet that is a picture (value = 1) is kept as well.       *)

DefaultPictures(command, one, nodes) ==
  IF command.player = NoPlayer
  THEN [Nothing EXCEPT !.screens = [i \in nodes |-> i]]
  ELSE [AnswerIf(one # {}) EXCEPT !.screens = [i \in one |-> i]]

OtherPicture(command, one) ==
  IF one # {} /\ command.value \in 0 .. NUM_DEFAULT_SCREENS - 1
  THEN [Nothing EXCEPT !.screens = [i \in one |-> command.value]]
  ELSE Answer("failure")

SendsPacket(command, to) ==
  LET done == PassOn(command, to)
  IN [done EXCEPT !.shows = (done.sends # {} /\ command.value = 1)]

FlycastTtyQuery(command, one) ==
  CASE command.kind \in {"S", "V", "O"} -> Nothing
    [] command.kind = "?" -> AnswerIf(one # {})
    [] command.kind = "H" -> AnswerIf(command.value \in {0, 1})
    [] command.kind = "R" -> AnswerIf(command.whole /\ one # {})

FlycastTtyRefresh(command, one) ==
  LET named == IF command.whole THEN one ELSE {}
  IN [AnswerIf(named # {}) EXCEPT !.refreshes = named]

FlycastTty(command, nodes, available) ==
  LET one == getNode(command.player, nodes, available) IN
  CASE command.kind = "-" -> DefaultPictures(command, one, nodes)
    [] command.kind = "P" -> OtherPicture(command, one)
    [] command.kind \in {"S", "V", "O", "?", "H", "R"} -> FlycastTtyQuery(command, one)
    [] command.kind = "G" -> FlycastTtyRefresh(command, one)
    [] command.kind = "maple" -> SendsPacket(command, ByAddress(command.player, available))
    [] OTHER -> Answer("failure")   \* taken for hexadecimal words

FlycastWebQuery(command, one) ==
  CASE command.kind \in {"S", "V", "O"} -> Nothing
    [] command.kind = "?" -> AnswerIf(one # {})
    [] command.kind = "R" -> IF command.whole THEN AnswerIf(command.player \in Players)
                             ELSE Answer("invalid")

FlycastWebRefresh(command, one) ==
  IF command.whole THEN [AnswerIf(one # {}) EXCEPT !.refreshes = one] ELSE Answer("invalid")

FlycastWeb(command, nodes, available) ==
  LET one == Node(command.player, nodes) IN
  CASE command.kind = "-" -> DefaultPictures(command, one, nodes)
    [] command.kind = "P" -> OtherPicture(command, one)
    [] command.kind \in {"S", "V", "O", "?", "R"} -> FlycastWebQuery(command, one)
    [] command.kind = "G" -> FlycastWebRefresh(command, one)
    [] command.kind = "maple" ->
         SendsPacket(command, ByAddressOrLast(command.player, nodes, available))
    [] OTHER -> Answer("invalid")

-----------------------------------------------------------------------------
(* Maple packets to pass on, and the system commands *)

MapleTty(command, nodes, available) ==
  PassOn(command, ByAddressOrLast(command.player, nodes, available))

MapleWeb(command, nodes, available) ==
  PassOn(command, ByAddressOrLast(command.player, nodes, available))

SystemTty(command, nodes) ==
  CASE command.kind \in {"e", "S", "m", "empty"} -> Nothing
    [] command.kind = "$" -> AnswerIf(command.player \in nodes)
    [] OTHER -> Answer("invalid")

SystemWeb(command, nodes) ==
  CASE command.kind \in {"e", "S"} -> Nothing
    [] command.kind = "$" -> AnswerIf(command.player \in nodes)
    [] OTHER -> Answer("invalid")

-----------------------------------------------------------------------------
(* Settings by WebUSB.  A change is checked and kept in the handler's copy; *)
(* "S" asks core 0 to save that copy, "X" to erase what is saved.           *)

NoPin == -1
isGpioValid(pin) == pin < 0 \/ pin \in Pins

Flags == {"C", "M", "W"}

InRange(command) ==
  CASE command.kind \in Flags -> TRUE
    [] command.kind = "P" ->
         command.player \in Players /\ command.value \in 0 .. kNumPlayerDetectionModes - 1
    [] command.kind = "I" ->
         /\ command.player \in Players
         /\ isGpioValid(command.value) /\ isGpioValid(command.second)
    [] command.kind \in {"L", "l"} -> isGpioValid(command.value)
    [] command.kind = "d" -> command.value \in 0 .. kNumDpadTypes - 1

Settings(command, valid) ==
  CASE command.kind \in {"G", "g", "x", "X", "S"} -> Nothing
    [] command.kind \in Flags \cup {"P", "I", "L", "l", "d"} ->
         AnswerIf(command.whole /\ InRange(command))
    [] command.kind = "s" -> Answer(IF valid THEN "success" ELSE "attention")
    [] OTHER -> Answer("invalid")

-----------------------------------------------------------------------------
(* Everything a command does *)

OutcomeTty(command, nodes, available) ==
  CASE command.family = "flycast" -> FlycastTty(command, nodes, available)
    [] command.family = "maple" -> MapleTty(command, nodes, available)
    [] command.family = "system" -> SystemTty(command, nodes)

OutcomeWeb(command, nodes, available, valid) ==
  CASE command.kind = "empty" -> Answer("invalid")
    [] command.family = "settings" /\ command.kind # "empty" -> Settings(command, valid)
    [] command.family = "system" /\ command.kind # "empty" -> SystemWeb(command, nodes)
    [] command.family = "maple" -> MapleWeb(command, nodes, available)
    [] command.family = "flycast" -> FlycastWeb(command, nodes, available)
=============================================================================
