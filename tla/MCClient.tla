------------------------------ MODULE MCClient ------------------------------
(* Instances of ClientPeripheral for TLC. *)
EXTENDS ClientPeripheral, TLC

Request(cmd, to, fn, form) ==
  [cmd |-> cmd, to |-> to, fn |-> fn, form |-> form, block |-> 1, phase |-> 0, data |-> 0]

Found == {Request("info", "main", "none", "good"), Request("info", "memory", "none", "good")}

ResetMemory == Request("reset", "memory", "none", "good")

\* A wire that garbles more than one packet of an exchange, with two ports and with
\* a block to write; both with a little noise; two blocks of one sector and blocks of
\* two, with a loss of power; one of all kinds of request.
MCEnvironments ==
  { [requests |-> Found, blocks |-> {}, ports |-> {0, 1}, noise |-> 2, powerLosses |-> 0],
    [requests |-> Found, blocks |-> {1}, ports |-> {0}, noise |-> 2, powerLosses |-> 0],
    [requests |-> Found \cup {ResetMemory}, blocks |-> {1}, ports |-> {0, 1}, noise |-> 1,
     powerLosses |-> 0],
    [requests |-> Found,
     blocks |-> {1, 2}, ports |-> {0}, noise |-> 0, powerLosses |-> 1],
    [requests |-> Found,
     blocks |-> {1, 3}, ports |-> {0}, noise |-> 0, powerLosses |-> 1],
    [requests |-> Found \cup
       { Request("reset", "main", "none", "good"),
         Request("shutdown", "main", "none", "good"),
         Request("other", "main", "none", "good"),
         Request("getCondition", "main", "controller", "good"),
         Request("getCondition", "main", "storage", "good"),
         Request("blockRead", "memory", "storage", "range"),
         Request("blockWrite", "memory", "screen", "good"),
         Request("setCondition", "memory", "timer", "good"),
         Request("setCondition", "memory", "timer", "range"),
         Request("setCondition", "pack", "vibration", "good"),
         Request("info", "pack", "none", "good") },
     blocks |-> {}, ports |-> {0, 1}, noise |-> 0, powerLosses |-> 0] }

MCContents == [0 .. 1 -> {0, 1, 2, 255}]
MCWithSaveArea == 1 :> 2
MCBlank == [p \in 0 .. 1 |-> 255]
MCSectorOf == <<1, 1, 2>>
=============================================================================
