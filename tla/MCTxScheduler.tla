---------------------------- MODULE MCTxScheduler ----------------------------
(* Instances of TxScheduler for TLC. *)
EXTENDS TxScheduler

\* The recipients: a main peripheral and two sub-peripherals.
MainAddr == 1
SubAAddr == 2
SubBAddr == 3

Request(priority, addr, duration, period, repeatFor) ==
  [priority |-> priority, recipientAddr |-> addr, txDurationUs |-> duration,
   autoRepeatUs |-> period, repeatFor |-> repeatFor]

\* A parser's one-shot, the poll of a controller, a screen update, a block
\* write which is slow and one which is fast, and a vibration of limited length.
MCRequests ==
  { Request(0, MainAddr, 1, 0, 0),
    Request(1, MainAddr, 1, 2, 0),
    Request(2, SubAAddr, 3, 0, 0),
    Request(2, SubAAddr, 1, 0, 0),
    Request(2, SubBAddr, 1, 2, 2) }
=============================================================================
