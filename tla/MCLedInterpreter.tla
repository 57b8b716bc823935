-------------------------- MODULE MCLedInterpreter --------------------------
(* Small instances of LedInterpreter for TLC.                              *)
EXTENDS LedInterpreter

\* On, off, a blink of unequal halves and the dark period before the submode
\* is shown (daemon.go 303-308, 616, 623).
DaemonModes ==
    {MODE_PRESET_ON, MODE_PRESET_OFF,
     <<On, Wait(1), Off, Wait(2)>>,
     <<Off, Wait(2)>>}
=============================================================================
