------------------------------ MODULE MCHostLoops ------------------------------
(* A host with two players.  Environments which type, which send packets,   *)
(* and one that does both.                                                  *)
EXTENDS HostLoops

Cmd(family, kind, player, value) ==
  [family |-> family, kind |-> kind, player |-> player, value |-> value, second |-> 0, whole |-> TRUE]

Maple(player) == Cmd("maple", "maple", player, 0)

Packet(units, command) == [units |-> units, command |-> command]

Silence ==
  [alphabet |-> {}, typing |-> 0, echo |-> TRUE, resets |-> 0, nested |-> FALSE,
   meaning |-> <<>>, packets |-> <<>>, connections |-> 0, nodes |-> {0, 1}, available |-> {0, 1}]

a == 97
NL == 10

Editing == [Silence EXCEPT !.alphabet = {a, NL, BS, DEL}, !.typing = 5]
Slipping == [Silence EXCEPT !.alphabet = {a, NL, BS}, !.typing = 6, !.echo = FALSE]
Binary == [Silence EXCEPT !.alphabet = {BINARY_START_CHAR, 0, 1, BS, NL}, !.typing = 5]
Resetting == [Silence EXCEPT !.alphabet = {a, NL}, !.typing = 3, !.resets = 1]
NestedNoCommand == [Silence EXCEPT !.alphabet = {a}, !.typing = 2, !.resets = 1, !.nested = TRUE]
NestedNoEcho == [Silence EXCEPT !.alphabet = {a, NL}, !.typing = 2, !.resets = 1,
                                !.nested = TRUE, !.echo = FALSE]

Streaming ==
  [Silence EXCEPT !.packets = <<Packet(1, Cmd("flycast", "-", 0, 0)), Packet(2, Maple(1)),
                                Packet(1, Cmd("settings", "C", 0, 0)),
                                Packet(1, Cmd("flycast", "P", 1, 0))>>,
                  !.connections = 1]

Both ==
  [Silence EXCEPT !.alphabet = {a, NL}, !.typing = 2, !.meaning = (<<a>> :> Maple(0)),
                  !.packets = <<Packet(1, Cmd("flycast", "maple", 0, 1))>>]

(* One command of each kind, on each port that has it, with one player for  *)
(* detection only or none                                                   *)
Repertoire ==
  {Cmd("flycast", kind, player, value) :
     kind \in {"-", "P", "?", "H", "R", "G", "S", "maple"}, player \in {NoPlayer, 0, 1}, value \in {0, 1}}
  \cup {Maple(player) : player \in {0, 1}}
  \cup {[Maple(0) EXCEPT !.whole = FALSE], [Cmd("flycast", "G", 0, 0) EXCEPT !.whole = FALSE]}
  \cup {Cmd("system", kind, 1, 0) : kind \in {"$", "S", "m", "other", "empty"}}
  \cup {Cmd("settings", kind, 1, 1) : kind \in {"G", "P", "I", "L", "d", "s", "other"}}

Handling ==
  {[Silence EXCEPT !.packets = <<Packet(1, c)>>, !.available = players]
     : c \in Repertoire, players \in {{0, 1}, {1}}}
  \cup {[Silence EXCEPT !.alphabet = {a, NL}, !.typing = 2, !.available = players,
                        !.meaning = (<<a>> :> c)]
          : c \in {r \in Repertoire : r.family # "settings"}, players \in {{0, 1}, {1}}}

MCEnvironments ==
  {Editing, Slipping, Binary, Resetting, NestedNoCommand, NestedNoEcho, Streaming, Both} \cup Handling

(* The commands that deadlock: a reset while a command is handled and the   *)
(* next character is echoed                                                 *)
MCNested == {[Silence EXCEPT !.alphabet = {a, NL}, !.typing = 3, !.resets = 1, !.nested = TRUE]}

(* Binary data with bytes 0x08, which the check of the limit does not count *)
MCLimit == {[Binary EXCEPT !.typing = 6, !.echo = FALSE]}

(* A character and two backspaces while a command waits                     *)
MCSlipping == {Slipping}
=============================================================================
