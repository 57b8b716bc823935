---------------------------- MODULE MCModeSwitch ----------------------------
(* Small instances of ModeSwitch for TLC.                                  *)
EXTENDS ModeSwitch, TLC

\* The default sequence `rndis`, `adb` (daemon.go:679).
KindRndisAdb == 0 :> "rndis" @@ 1 :> "adb"
MaxRndisAdb == 0 :> 1 @@ 1 :> 0
InitGateway == 0 :> 0 @@ 1 :> 0
InitClient == 0 :> 1 @@ 1 :> 0

WorkerSymmetry == Permutations(Workers)
=============================================================================
