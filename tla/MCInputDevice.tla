---------------------------- MODULE MCInputDevice ----------------------------
(* Small instances of InputDevice for TLC.                                 *)
EXTENDS InputDevice

\* --multiple-tap-threshold below zero: multi-tap detection is disabled.
Disabled == -1
=============================================================================
