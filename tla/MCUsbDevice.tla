------------------------------ MODULE MCUsbDevice ------------------------------
(* Two memory units on a drive with two slots, accesses to one of them, a   *)
(* gamepad, and a screen with two pictures.                                 *)
EXTENDS UsbDevice

\* The first and the last block of the first file, the block before it, and the
\* first block of the second file
MCLbas == {266, 267, 522, 523}
=============================================================================
