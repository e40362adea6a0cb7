----------------------------- MODULE MCFirmware -----------------------------
(* An instance of Firmware for TLC. *)
EXTENDS Firmware
=============================================================================
