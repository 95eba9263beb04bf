----------------------------- MODULE MCUsbStorage -----------------------------
(* Instances of UsbStorage for TLC. *)
EXTENDS UsbStorage
=============================================================================
