----------------------------- MODULE MCModqRing ------------------------------
(* A small instance of the MODQ ring for TLC. *)
EXTENDS ModqRing

AllModes == [transport : {"Loopback", "PciBar"}, checked : BOOLEAN]
=============================================================================
