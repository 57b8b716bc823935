-------------------------- MODULE ModeSwitchProofs --------------------------
(* Proofs about ModeSwitch, for every number of modes, LEDs and goroutines. *)
EXTENDS ModeSwitch, TLAPS

\* There is a mode 0, where the daemon starts.
LEMMA ZeroIsMode == 0 \in Modes
BY ModesAssumption DEF Modes

\* A free goroutine slot is well typed.
LEMMA IdleWorkerType == IdleWorker \in WorkerRecords
BY ZeroIsMode DEF IdleWorker, WorkerRecords, PcLabels, Snapshotting, Targets

\* The state in which Mainloop starts its goroutines is well typed.
LEMMA TypeInit == Init => TypeOK
<1> SUFFICES ASSUME Init PROVE TypeOK
    OBVIOUS
<1>1. SelectionType
    BY ZeroIsMode, ModesAssumption DEF Init, SelectionType
<1>2. BootTarget \in Targets
    BY ZeroIsMode, ModesAssumption DEF BootTarget, Targets
<1>3. PICK boot \in Workers :
          workers = [w \in Workers |->
               IF w = boot THEN [IdleWorker EXCEPT !.pc = "apply"] ELSE IdleWorker]
    BY DEF Init
<1>4. [IdleWorker EXCEPT !.pc = "apply"] \in WorkerRecords
    BY IdleWorkerType DEF WorkerRecords, PcLabels, Snapshotting
<1>5. workers \in [Workers -> WorkerRecords]
    BY <1>3, <1>4, IdleWorkerType
<1>6. ApplyType
  <2>1. pending_apply \in Targets /\ last_good \in Targets
    BY <1>2, ZeroIsMode DEF Init, Targets
  <2>2. ctl \in [built : Modes \cup {None}, bound : BOOLEAN, net : {None, 0, 1}]
    BY DEF Init
  <2>3. QED BY <1>5, <2>1, <2>2 DEF Init, ApplyType
<1>7. DisplayType
  <2>1. led \in [Leds -> LedModes]
    BY DEF Init, LedModes
  <2>2. led_init_i \in 0 .. NLeds
    BY LedsAssumption DEF Init
  <2>3. QED BY <2>1, <2>2 DEF Init, DisplayType
<1>8. LoopType
  <2>1. batch \in Seq(ButtonEvents)
    BY DEF Init
  <2>2. QED BY <2>1 DEF Init, LoopType
<1>9. ChannelsType
  <2>1. event_queue \in Seq(ButtonEvents) /\ gadget_req_chan \in Seq(Requests)
    BY DEF Init
  <2>2. QED BY <2>1 DEF Init, ChannelsType
<1> QED
    BY <1>1, <1>6, <1>7, <1>8, <1>9 DEF TypeOK

\* The LEDs stay LED modes whatever SetLed is given.
LEMMA SetLedType ==
    ASSUME DisplayType, NEW i, NEW m \in LedModes
    PROVE  SetLed(i, m) \in [Leds -> LedModes]
BY DEF DisplayType, SetLed

\* What display_mode_state shows is a LED mode on every LED.
LEMMA DisplayModeType ==
    ASSUME DisplayType, NEW error
    PROVE  display_mode_state(error) \in [Leds -> LedModes]
<1>1. turn_off_all_leds \in [Leds -> LedModes]
    BY DEF turn_off_all_leds, LedModes
<1>2. (IF turn_off_leds THEN "off" ELSE submode_led_mode) \in LedModes
    BY DEF submode_led_mode, LedModes
<1> QED
    BY <1>1, <1>2, SetLedType DEF display_mode_state

\* The three ways in which workers changes keep it well typed.
LEMMA GotoType ==
    ASSUME workers \in [Workers -> WorkerRecords], NEW w \in Workers,
           NEW pc \in PcLabels, Goto(w, pc)
    PROVE  workers' \in [Workers -> WorkerRecords]
BY DEF Goto, WorkerRecords

\* (`go f()`)
LEMMA SpawnType ==
    ASSUME workers \in [Workers -> WorkerRecords], NEW pc \in PcLabels, Spawn(pc)
    PROVE  workers' \in [Workers -> WorkerRecords]
<1>1. [IdleWorker EXCEPT !.pc = pc] \in WorkerRecords
    BY IdleWorkerType DEF WorkerRecords
<1> QED
    BY <1>1 DEF Spawn

\* (the goroutine returns)
LEMMA ReleaseType ==
    ASSUME workers \in [Workers -> WorkerRecords], NEW w \in Workers,
           workers' = [workers EXCEPT ![w] = IdleWorker]
    PROVE  workers' \in [Workers -> WorkerRecords]
BY IdleWorkerType

\* A step of an apply goroutine.
LEMMA ApplyStepType ==
    ASSUME TypeOK, NEW w \in Workers, ApplyStep(w)
    PROVE  TypeOK'
<1> USE DEF TypeOK, selected, flags, lock, rebind, outcome, startup, loop, channels
<1>0. workers \in [Workers -> WorkerRecords] /\ workers[w] \in WorkerRecords
    BY DEF ApplyType
<1>1. CASE apply_function(w)
  <2>0. /\ current_mode \in Modes /\ submode[current_mode] \in Nat
        /\ workers[w].target \in Targets /\ workers[w].fn \in Modes
        /\ workers[w].target.mode \in Modes /\ workers[w].target.submode \in Nat
        /\ torn \in BOOLEAN
    BY <1>0 DEF SelectionType, ApplyType, WorkerRecords, Targets
  <2>1. CASE SnapshotMode(w)
    <3>1. workers' \in [Workers -> WorkerRecords]
      BY <2>1, <1>0, <2>0 DEF SnapshotMode, WorkerRecords, PcLabels, Snapshotting,
         Targets
    <3>2. ApplyType'
      BY <2>1, <3>1 DEF SnapshotMode, ApplyType
    <3>3. SelectionType' /\ DisplayType' /\ LoopType' /\ ChannelsType'
      BY <2>1 DEF SnapshotMode, SelectionType, DisplayType, LoopType, ChannelsType
    <3> QED BY <3>2, <3>3 DEF TypeOK
  <2>2. CASE SnapshotSubmode(w)
    <3>1. workers' \in [Workers -> WorkerRecords]
      BY <2>2, <1>0, <2>0 DEF SnapshotSubmode, WorkerRecords, PcLabels,
         Snapshotting, Targets
    <3>2. ApplyType'
      BY <2>2, <3>1 DEF SnapshotSubmode, ApplyType
    <3>3. SelectionType' /\ DisplayType' /\ LoopType' /\ ChannelsType'
      BY <2>2 DEF SnapshotSubmode, SelectionType, DisplayType, LoopType,
         ChannelsType
    <3> QED BY <3>2, <3>3 DEF TypeOK
  <2>3. CASE SnapshotFlag(w)
    <3>1. workers' \in [Workers -> WorkerRecords]
      BY <2>3, <1>0 DEF SnapshotFlag, WorkerRecords, PcLabels, Snapshotting
    <3>2. ApplyType'
      BY <2>3, <3>1 DEF SnapshotFlag, ApplyType
    <3>3. SelectionType' /\ DisplayType' /\ LoopType' /\ ChannelsType'
      BY <2>3 DEF SnapshotFlag, SelectionType, DisplayType, LoopType, ChannelsType
    <3> QED BY <3>2, <3>3 DEF TypeOK
  <2>4. CASE ClearFlag(w)
    <3>1. workers' \in [Workers -> WorkerRecords]
      BY <2>4, <1>0, GotoType DEF ClearFlag, PcLabels
    <3>2. ApplyType'
      BY <2>4, <3>1 DEF ClearFlag, ApplyType
    <3>3. SelectionType'
      BY <2>4 DEF ClearFlag, SelectionType
    <3>4. DisplayType' /\ LoopType' /\ ChannelsType'
      BY <2>4 DEF ClearFlag, DisplayType, LoopType, ChannelsType
    <3> QED BY <3>2, <3>3, <3>4 DEF TypeOK
  <2> QED BY <1>1, <2>1, <2>2, <2>3, <2>4 DEF apply_function
<1>2. CASE EffectLedSubmode(w)
  <2>1. workers' \in [Workers -> WorkerRecords]
    BY <1>2, <1>0, GotoType DEF EffectLedSubmode, PcLabels
  <2>2. led' \in [Leds -> LedModes]
    BY <1>2, SetLedType DEF EffectLedSubmode, LedModes
  <2>3. ApplyType'
    BY <1>2, <2>1, <2>2 DEF EffectLedSubmode, ApplyType
  <2>4. DisplayType'
    BY <1>2, <2>1, <2>2 DEF EffectLedSubmode, DisplayType
  <2>5. SelectionType' /\ LoopType' /\ ChannelsType'
    BY <1>2 DEF EffectLedSubmode, SelectionType, LoopType, ChannelsType
  <2> QED BY <2>3, <2>4, <2>5 DEF TypeOK
<1>3. CASE EffectLedMode(w)
  <2>1. workers' \in [Workers -> WorkerRecords]
    BY <1>3, <1>0, GotoType DEF EffectLedMode, PcLabels
  <2>2. led' \in [Leds -> LedModes]
    BY <1>3, SetLedType DEF EffectLedMode, LedModes, DisplayType
  <2>3. SelectionType'
    BY <1>3, <2>1, <2>2 DEF EffectLedMode, SelectionType
  <2>4. ApplyType'
    BY <1>3, <2>1, <2>2 DEF EffectLedMode, ApplyType
  <2>5. DisplayType'
    BY <1>3, <2>1, <2>2 DEF EffectLedMode, DisplayType
  <2>6. LoopType' /\ ChannelsType'
    BY <1>3 DEF EffectLedMode, LoopType, ChannelsType
  <2> QED BY <2>3, <2>4, <2>5, <2>6 DEF TypeOK
<1>4. CASE RebuildOk(w)
  <2>1. workers' \in [Workers -> WorkerRecords]
    BY <1>4, <1>0, GotoType DEF RebuildOk, PcLabels
  <2>2. pending_apply' \in Targets
    BY <1>4, <1>0 DEF RebuildOk, ApplyType, WorkerRecords
  <2>3. ctl' \in [built : Modes \cup {None}, bound : BOOLEAN, net : {None, 0, 1}]
    BY <1>4, <1>0 DEF RebuildOk, WorkerRecords
  <2>4. ApplyType'
    BY <1>4, <2>1, <2>2, <2>3 DEF RebuildOk, ApplyType
  <2>5. SelectionType' /\ DisplayType' /\ LoopType' /\ ChannelsType'
    BY <1>4 DEF RebuildOk, SelectionType, DisplayType, LoopType, ChannelsType
  <2> QED BY <2>4, <2>5 DEF TypeOK
<1>5. CASE RebuildFail(w)
  <2>1. workers' \in [Workers -> WorkerRecords]
    BY <1>5, <1>0, GotoType DEF RebuildFail, Failed, PcLabels
  <2>2. ctl' \in [built : Modes \cup {None}, bound : BOOLEAN, net : {None, 0, 1}]
    BY <1>5, <1>0 DEF RebuildFail, ApplyType
  <2>3. ApplyType'
    BY <1>5, <2>1, <2>2 DEF RebuildFail, ApplyType
  <2>4. SelectionType' /\ DisplayType' /\ LoopType' /\ ChannelsType'
    BY <1>5 DEF RebuildFail, SelectionType, DisplayType, LoopType, ChannelsType
  <2> QED BY <2>3, <2>4 DEF TypeOK
<1>6. CASE Handoff(w)
  <2>1. workers' \in [Workers -> WorkerRecords]
    BY <1>6, <1>0, ReleaseType DEF Handoff
  <2>2. ApplyType'
    BY <1>6, <2>1 DEF Handoff, ApplyType
  <2>3. SelectionType' /\ DisplayType' /\ LoopType' /\ ChannelsType'
    BY <1>6 DEF Handoff, SelectionType, DisplayType, LoopType, ChannelsType
  <2> QED BY <2>2, <2>3 DEF TypeOK
<1>7. CASE HandoffStopped(w)
  <2>1. workers' \in [Workers -> WorkerRecords]
    BY <1>7, <1>0, ReleaseType DEF HandoffStopped
  <2>2. ApplyType'
    BY <1>7, <2>1 DEF HandoffStopped, ApplyType
  <2>3. SelectionType' /\ DisplayType' /\ LoopType' /\ ChannelsType'
    BY <1>7 DEF HandoffStopped, SelectionType, DisplayType, LoopType,
       ChannelsType
  <2> QED BY <2>2, <2>3 DEF TypeOK
<1>8. CASE Enable(w)
  <2>1. workers' \in [Workers -> WorkerRecords]
    BY <1>8, <1>0 DEF Enable, ApplyType, WorkerRecords, Failed, PcLabels, None
  <2>2. ctl' \in [built : Modes \cup {None}, bound : BOOLEAN, net : {None, 0, 1}]
    BY <1>8 DEF Enable, ApplyType
  <2>3. ApplyType'
    BY <1>8, <2>1, <2>2 DEF Enable, ApplyType
  <2>4. SelectionType' /\ DisplayType' /\ LoopType' /\ ChannelsType'
    BY <1>8 DEF Enable, SelectionType, DisplayType, LoopType, ChannelsType
  <2> QED BY <2>3, <2>4 DEF TypeOK
<1>9. CASE ConfigureAdb(w)
  <2>1. workers' \in [Workers -> WorkerRecords]
    BY <1>9, <1>0, GotoType DEF ConfigureAdb, Configured, PcLabels
  <2>2. ApplyType'
    BY <1>9, <2>1 DEF ConfigureAdb, ApplyType
  <2>3. SelectionType' /\ DisplayType' /\ LoopType' /\ ChannelsType'
    BY <1>9 DEF ConfigureAdb, SelectionType, DisplayType, LoopType,
       ChannelsType
  <2> QED BY <2>2, <2>3 DEF TypeOK
<1>10. CASE ConfigureRndis(w)
  <2>1. workers' \in [Workers -> WorkerRecords]
    BY <1>10, <1>0, GotoType DEF ConfigureRndis, Configured, PcLabels
  <2>2. ctl' \in [built : Modes \cup {None}, bound : BOOLEAN, net : {None, 0, 1}]
    BY <1>10 DEF ConfigureRndis, ApplyType
  <2>3. ApplyType'
    BY <1>10, <2>1, <2>2 DEF ConfigureRndis, ApplyType
  <2>4. SelectionType' /\ DisplayType' /\ LoopType' /\ ChannelsType'
    BY <1>10 DEF ConfigureRndis, SelectionType, DisplayType, LoopType,
       ChannelsType
  <2> QED BY <2>3, <2>4 DEF TypeOK
<1>11. CASE ConfigureFail(w)
  <2>1. workers' \in [Workers -> WorkerRecords]
    BY <1>11, <1>0, GotoType DEF ConfigureFail, Failed, PcLabels
  <2>2. ApplyType'
    BY <1>11, <2>1 DEF ConfigureFail, ApplyType
  <2>3. SelectionType' /\ DisplayType' /\ LoopType' /\ ChannelsType'
    BY <1>11 DEF ConfigureFail, SelectionType, DisplayType, LoopType,
       ChannelsType
  <2> QED BY <2>2, <2>3 DEF TypeOK
<1>12. CASE ProbeOk(w)
  <2>1. workers' \in [Workers -> WorkerRecords]
    BY <1>12, <1>0, GotoType DEF ProbeOk, Configured, PcLabels
  <2>2. ctl' \in [built : Modes \cup {None}, bound : BOOLEAN, net : {None, 0, 1}]
    BY <1>12 DEF ProbeOk, ApplyType
  <2>3. ApplyType'
    BY <1>12, <2>1, <2>2 DEF ProbeOk, ApplyType
  <2>4. SelectionType' /\ DisplayType' /\ LoopType' /\ ChannelsType'
    BY <1>12 DEF ProbeOk, SelectionType, DisplayType, LoopType, ChannelsType
  <2> QED BY <2>3, <2>4 DEF TypeOK
<1>13. CASE fallback_to_gateway_mode(w)
  <2>1. workers' \in [Workers -> WorkerRecords]
    BY <1>13, <1>0, GotoType DEF fallback_to_gateway_mode, Configured, PcLabels
  <2>2. ctl' \in [built : Modes \cup {None}, bound : BOOLEAN, net : {None, 0, 1}]
    BY <1>13 DEF fallback_to_gateway_mode, ApplyType
  <2>3. submode' \in [Modes -> Nat]
    BY <1>13, <1>0 DEF fallback_to_gateway_mode, SelectionType
  <2>4. SelectionType'
    BY <1>13, <2>1, <2>2, <2>3 DEF fallback_to_gateway_mode, SelectionType
  <2>5. ApplyType'
    BY <1>13, <2>1, <2>2, <2>3 DEF fallback_to_gateway_mode, ApplyType
  <2>6. DisplayType' /\ LoopType' /\ ChannelsType'
    BY <1>13 DEF fallback_to_gateway_mode, DisplayType, LoopType, ChannelsType
  <2> QED BY <2>4, <2>5, <2>6 DEF TypeOK
<1>14. CASE commit_mode(w)
  <2>1. workers' \in [Workers -> WorkerRecords]
    BY <1>14, <1>0, GotoType DEF commit_mode, PcLabels
  <2>2. last_good' \in Targets
    BY <1>14, <1>0 DEF commit_mode, CommitTarget, WorkerRecords
  <2>3. ApplyType'
    BY <1>14, <2>1, <2>2 DEF commit_mode, ApplyType
  <2>4. DisplayType'
    BY <1>14, <2>1, <2>2 DEF commit_mode, DisplayType
  <2>5. SelectionType' /\ LoopType' /\ ChannelsType'
    BY <1>14 DEF commit_mode, SelectionType, LoopType, ChannelsType
  <2> QED BY <2>3, <2>4, <2>5 DEF TypeOK
<1>15. CASE FinishApply(w)
  <2>1. workers' \in [Workers -> WorkerRecords]
    BY <1>15, <1>0, ReleaseType DEF FinishApply
  <2>2. led' \in [Leds -> LedModes]
    BY <1>15, DisplayModeType DEF FinishApply, DisplayType
  <2>3. ApplyType'
    BY <1>15, <2>1, <2>2 DEF FinishApply, ApplyType
  <2>4. DisplayType'
    BY <1>15, <2>1, <2>2 DEF FinishApply, DisplayType
  <2>5. SelectionType' /\ LoopType' /\ ChannelsType'
    BY <1>15 DEF FinishApply, SelectionType, LoopType, ChannelsType
  <2> QED BY <2>3, <2>4, <2>5 DEF TypeOK
<1>16. CASE handle_apply_failure(w)
  <2>1. last_good \in Targets
    BY <1>16 DEF handle_apply_failure, ApplyType
  <2>2. workers' \in [Workers -> WorkerRecords]
    BY <1>16, <1>0, <2>1, GotoType DEF handle_apply_failure, WorkerRecords,
       PcLabels, Targets
  <2>3. current_mode' \in Modes /\ submode' \in [Modes -> Nat]
    BY <1>16, <2>1 DEF handle_apply_failure, SelectionType, RollbackMode,
       Targets
  <2>4. led' \in [Leds -> LedModes]
    BY <1>16 DEF handle_apply_failure, turn_off_all_leds, LedModes
  <2>5. SelectionType'
    BY <1>16, <2>1, <2>2, <2>3, <2>4 DEF handle_apply_failure, SelectionType
  <2>6. ApplyType'
    BY <1>16, <2>1, <2>2, <2>3, <2>4 DEF handle_apply_failure, ApplyType
  <2>7. DisplayType'
    BY <1>16, <2>1, <2>2, <2>3, <2>4 DEF handle_apply_failure, DisplayType
  <2>8. LoopType' /\ ChannelsType'
    BY <1>16 DEF handle_apply_failure, LoopType, ChannelsType
  <2> QED BY <2>5, <2>6, <2>7, <2>8 DEF TypeOK
<1>17. CASE EndFailure(w)
  <2>1. workers' \in [Workers -> WorkerRecords]
    BY <1>17, <1>0, ReleaseType DEF EndFailure
  <2>2. submode' \in [Modes -> Nat]
    BY <1>17 DEF EndFailure, SelectionType, ApplyType, Targets
  <2>3. led' \in [Leds -> LedModes]
    BY <1>17, DisplayModeType DEF EndFailure, DisplayType
  <2>4. SelectionType'
    BY <1>17, <2>1, <2>2, <2>3 DEF EndFailure, SelectionType
  <2>5. ApplyType'
    BY <1>17, <2>1, <2>2, <2>3 DEF EndFailure, ApplyType
  <2>6. DisplayType'
    BY <1>17, <2>1, <2>2, <2>3 DEF EndFailure, DisplayType
  <2>7. LoopType' /\ ChannelsType'
    BY <1>17 DEF EndFailure, LoopType, ChannelsType
  <2> QED BY <2>4, <2>5, <2>6, <2>7 DEF TypeOK
<1> QED
    BY <1>1, <1>2, <1>3, <1>4, <1>5, <1>6, <1>7, <1>8, <1>9, <1>10, <1>11,
       <1>12, <1>13, <1>14, <1>15, <1>16, <1>17 DEF ApplyStep

\* A step of the power-on indication.
LEMMA LedInitType ==
    ASSUME TypeOK, led_init_indication
    PROVE  TypeOK'
<1> USE LedsAssumption DEF TypeOK, selected, flags, lock, rebind, outcome,
        startup, loop, channels
<1>1. CASE InitBegin
  <2>1. led' \in [Leds -> LedModes]
    BY <1>1 DEF InitBegin, turn_off_all_leds, LedModes
  <2>2. DisplayType'
    BY <1>1, <2>1 DEF InitBegin, DisplayType
  <2>3. SelectionType' /\ ApplyType' /\ LoopType' /\ ChannelsType'
    BY <1>1 DEF InitBegin, SelectionType, ApplyType, LoopType, ChannelsType
  <2> QED BY <2>2, <2>3 DEF TypeOK
<1>2. CASE InitLight
  <2>1. led' \in [Leds -> LedModes]
    BY <1>2, SetLedType DEF InitLight, LedModes, DisplayType
  <2>2. DisplayType'
    BY <1>2, <2>1 DEF InitLight, DisplayType
  <2>3. SelectionType' /\ ApplyType' /\ LoopType' /\ ChannelsType'
    BY <1>2 DEF InitLight, SelectionType, ApplyType, LoopType, ChannelsType
  <2> QED BY <2>2, <2>3 DEF TypeOK
<1>3. CASE InitDim
  <2>1. led' \in [Leds -> LedModes]
    BY <1>3, SetLedType DEF InitDim, LedModes
  <2>2. DisplayType'
    BY <1>3, <2>1 DEF InitDim, DisplayType
  <2>3. SelectionType' /\ ApplyType' /\ LoopType' /\ ChannelsType'
    BY <1>3 DEF InitDim, SelectionType, ApplyType, LoopType, ChannelsType
  <2> QED BY <2>2, <2>3 DEF TypeOK
<1>4. CASE InitDone
  <2>1. DisplayType'
    BY <1>4 DEF InitDone, DisplayType
  <2>2. SelectionType' /\ ApplyType' /\ LoopType' /\ ChannelsType'
    BY <1>4 DEF InitDone, SelectionType, ApplyType, LoopType, ChannelsType
  <2> QED BY <2>1, <2>2 DEF TypeOK
<1>5. CASE InitDisplay
  <2>1. led' \in [Leds -> LedModes]
    BY <1>5, DisplayModeType DEF InitDisplay, DisplayType
  <2>2. DisplayType'
    BY <1>5, <2>1 DEF InitDisplay, DisplayType
  <2>3. SelectionType' /\ ApplyType' /\ LoopType' /\ ChannelsType'
    BY <1>5 DEF InitDisplay, SelectionType, ApplyType, LoopType, ChannelsType
  <2> QED BY <2>2, <2>3 DEF TypeOK
<1> QED
    BY <1>1, <1>2, <1>3, <1>4, <1>5 DEF led_init_indication

\* An empty queue is a queue of button events.
LEMMA EmptyType == <<>> \in Seq(ButtonEvents)
OBVIOUS

\* What a tap in submode selection selects is a submode the mode has.
LEMMA NextSubmodeType ==
    ASSUME SelectionType
    PROVE  NextSubmode \in Nat /\ NextSubmode <= MaxSubmode[current_mode]
<1>1. submode[current_mode] \in Nat /\ MaxSubmode[current_mode] \in Nat
    BY ModesAssumption DEF SelectionType
<1>2. ASSUME NEW a \in Nat, NEW b \in Nat
      PROVE  (a + 1) % (b + 1) \in 0 .. b
    OBVIOUS
<1> QED
    BY <1>1, <1>2 DEF NextSubmode

\* A step of the mainloop.
LEMMA MainloopStepType ==
    ASSUME TypeOK, MainloopStep
    PROVE  TypeOK'
<1> USE DEF TypeOK, selected, flags, lock, rebind, outcome, startup, loop, channels
<1>1. CASE WakeInput
  <2>1. workers' \in [Workers -> WorkerRecords]
    BY <1>1, SpawnType DEF WakeInput, handle_events, ApplyType, PcLabels
  <2>2. batch' \in Seq(ButtonEvents) /\ event_queue' \in Seq(ButtonEvents)
    BY <1>1, EmptyType DEF WakeInput, handle_events, LoopType, ChannelsType
  <2>3. ApplyType'
    BY <1>1, <2>1, <2>2 DEF WakeInput, handle_events, ApplyType
  <2>4. LoopType'
    BY <1>1, <2>1, <2>2 DEF WakeInput, handle_events, LoopType
  <2>5. ChannelsType'
    BY <1>1, <2>1, <2>2 DEF WakeInput, handle_events, ChannelsType
  <2>6. SelectionType' /\ DisplayType'
    BY <1>1 DEF WakeInput, handle_events, SelectionType, DisplayType
  <2> QED BY <2>3, <2>4, <2>5, <2>6 DEF TypeOK
<1>2. CASE WakeIpc
  <2>1. workers' \in [Workers -> WorkerRecords]
    BY <1>2, SpawnType DEF WakeIpc, handle_events, ApplyType, PcLabels
  <2>2. batch' \in Seq(ButtonEvents) /\ event_queue' \in Seq(ButtonEvents)
    BY <1>2, EmptyType DEF WakeIpc, handle_events, LoopType, ChannelsType
  <2>3. ApplyType'
    BY <1>2, <2>1, <2>2 DEF WakeIpc, handle_events, ApplyType
  <2>4. LoopType'
    BY <1>2, <2>1, <2>2 DEF WakeIpc, handle_events, LoopType
  <2>5. ChannelsType'
    BY <1>2, <2>1, <2>2 DEF WakeIpc, handle_events, ChannelsType
  <2>6. SelectionType' /\ DisplayType'
    BY <1>2 DEF WakeIpc, handle_events, SelectionType, DisplayType
  <2> QED BY <2>3, <2>4, <2>5, <2>6 DEF TypeOK
<1>3. CASE WakeRebind
  <2>1. workers' \in [Workers -> WorkerRecords]
    BY <1>3, SpawnType DEF WakeRebind, handle_events, ApplyType, PcLabels
  <2>2. batch' \in Seq(ButtonEvents) /\ event_queue' \in Seq(ButtonEvents)
    BY <1>3, EmptyType DEF WakeRebind, handle_events, LoopType, ChannelsType
  <2>3. ApplyType'
    BY <1>3, <2>1, <2>2 DEF WakeRebind, handle_events, ApplyType
  <2>4. LoopType'
    BY <1>3, <2>1, <2>2 DEF WakeRebind, handle_events, LoopType
  <2>5. ChannelsType'
    BY <1>3, <2>1, <2>2 DEF WakeRebind, handle_events, ChannelsType
  <2>6. SelectionType' /\ DisplayType'
    BY <1>3 DEF WakeRebind, handle_events, SelectionType, DisplayType
  <2> QED BY <2>3, <2>4, <2>5, <2>6 DEF TypeOK
<1>4. CASE WakeTimer
  <2>1. workers' \in [Workers -> WorkerRecords]
    BY <1>4, SpawnType DEF WakeTimer, handle_events, ApplyType, PcLabels
  <2>2. batch' \in Seq(ButtonEvents) /\ event_queue' \in Seq(ButtonEvents)
    BY <1>4, EmptyType DEF WakeTimer, handle_events, LoopType, ChannelsType
  <2>3. ApplyType'
    BY <1>4, <2>1, <2>2 DEF WakeTimer, handle_events, ApplyType
  <2>4. LoopType'
    BY <1>4, <2>1, <2>2 DEF WakeTimer, handle_events, LoopType
  <2>5. ChannelsType'
    BY <1>4, <2>1, <2>2 DEF WakeTimer, handle_events, ChannelsType
  <2>6. SelectionType' /\ DisplayType'
    BY <1>4 DEF WakeTimer, handle_events, SelectionType, DisplayType
  <2> QED BY <2>3, <2>4, <2>5, <2>6 DEF TypeOK
<1>5. CASE WakeStop
  <2>1. LoopType'
    BY <1>5 DEF WakeStop, LoopType
  <2>2. SelectionType' /\ ApplyType' /\ DisplayType' /\ ChannelsType'
    BY <1>5 DEF WakeStop, SelectionType, ApplyType, DisplayType, ChannelsType
  <2> QED BY <2>1, <2>2 DEF TypeOK
<1>6. CASE TapSubmode
  <2>1. batch' \in Seq(ButtonEvents)
    BY <1>6 DEF TapSubmode, NextEvent, LoopType
  <2>2. submode' \in [Modes -> Nat]
    BY <1>6, NextSubmodeType DEF TapSubmode, NextEvent, SelectionType
  <2>3. SelectionType'
    BY <1>6, <2>1, <2>2 DEF TapSubmode, NextEvent, SelectionType
  <2>4. LoopType'
    BY <1>6, <2>1, <2>2 DEF TapSubmode, NextEvent, LoopType
  <2>5. ApplyType' /\ DisplayType' /\ ChannelsType'
    BY <1>6 DEF TapSubmode, NextEvent, ApplyType, DisplayType, ChannelsType
  <2> QED BY <2>3, <2>4, <2>5 DEF TypeOK
<1>7. CASE TapMode
  <2>1. batch' \in Seq(ButtonEvents)
    BY <1>7 DEF TapMode, NextEvent, LoopType
  <2>2. current_mode' \in Modes
    BY <1>7, ModesAssumption DEF TapMode, NextEvent, SelectionType, NextMode,
       Modes
  <2>3. SelectionType'
    BY <1>7, <2>1, <2>2 DEF TapMode, NextEvent, SelectionType
  <2>4. LoopType'
    BY <1>7, <2>1, <2>2 DEF TapMode, NextEvent, LoopType
  <2>5. ApplyType' /\ DisplayType' /\ ChannelsType'
    BY <1>7 DEF TapMode, NextEvent, ApplyType, DisplayType, ChannelsType
  <2> QED BY <2>3, <2>4, <2>5 DEF TypeOK
<1>8. CASE LongTap
  <2>1. batch' \in Seq(ButtonEvents)
    BY <1>8 DEF LongTap, NextEvent, LoopType
  <2>2. led' \in [Leds -> LedModes]
    BY <1>8, SetLedType DEF LongTap, NextEvent, LedModes
  <2>3. SelectionType'
    BY <1>8, <2>1, <2>2 DEF LongTap, NextEvent, SelectionType
  <2>4. DisplayType'
    BY <1>8, <2>1, <2>2 DEF LongTap, NextEvent, DisplayType
  <2>5. LoopType'
    BY <1>8, <2>1, <2>2 DEF LongTap, NextEvent, LoopType
  <2>6. ApplyType' /\ ChannelsType'
    BY <1>8 DEF LongTap, NextEvent, ApplyType, ChannelsType
  <2> QED BY <2>3, <2>4, <2>5, <2>6 DEF TypeOK
<1>9. CASE MultipleTap
  <2>1. batch' \in Seq(ButtonEvents)
    BY <1>9 DEF MultipleTap, NextEvent, LoopType
  <2>2. SelectionType'
    BY <1>9, <2>1 DEF MultipleTap, NextEvent, SelectionType
  <2>3. LoopType'
    BY <1>9, <2>1 DEF MultipleTap, NextEvent, LoopType
  <2>4. ApplyType' /\ DisplayType' /\ ChannelsType'
    BY <1>9 DEF MultipleTap, NextEvent, ApplyType, DisplayType, ChannelsType
  <2> QED BY <2>2, <2>3, <2>4 DEF TypeOK
<1>10. CASE RequestMode
  <2>1. gadget_req_chan' \in Seq(Requests)
    BY <1>10 DEF RequestMode, NextRequest, ChannelsType
  <2>2. current_mode' \in Modes /\ submode' \in [Modes -> Nat]
    BY <1>10, BoundsAssumption DEF RequestMode, NextRequest, SelectionType,
       Named, Requests
  <2>3. SelectionType'
    BY <1>10, <2>1, <2>2 DEF RequestMode, NextRequest, SelectionType
  <2>4. ChannelsType'
    BY <1>10, <2>1, <2>2 DEF RequestMode, NextRequest, ChannelsType
  <2>5. ApplyType' /\ DisplayType' /\ LoopType'
    BY <1>10 DEF RequestMode, NextRequest, ApplyType, DisplayType, LoopType
  <2> QED BY <2>3, <2>4, <2>5 DEF TypeOK
<1>11. CASE RequestSubmode
  <2>1. gadget_req_chan' \in Seq(Requests)
    BY <1>11 DEF RequestSubmode, NextRequest, ChannelsType
  <2>2. submode' \in [Modes -> Nat]
    BY <1>11, BoundsAssumption DEF RequestSubmode, NextRequest, SelectionType,
       Named, Requests
  <2>3. SelectionType'
    BY <1>11, <2>1, <2>2 DEF RequestSubmode, NextRequest, SelectionType
  <2>4. ChannelsType'
    BY <1>11, <2>1, <2>2 DEF RequestSubmode, NextRequest, ChannelsType
  <2>5. ApplyType' /\ DisplayType' /\ LoopType'
    BY <1>11 DEF RequestSubmode, NextRequest, ApplyType, DisplayType, LoopType
  <2> QED BY <2>3, <2>4, <2>5 DEF TypeOK
<1>12. CASE RequestNothing
  <2>1. gadget_req_chan' \in Seq(Requests)
    BY <1>12 DEF RequestNothing, NextRequest, ChannelsType
  <2>2. SelectionType'
    BY <1>12, <2>1 DEF RequestNothing, NextRequest, SelectionType
  <2>3. ChannelsType'
    BY <1>12, <2>1 DEF RequestNothing, NextRequest, ChannelsType
  <2>4. ApplyType' /\ DisplayType' /\ LoopType'
    BY <1>12 DEF RequestNothing, NextRequest, ApplyType, DisplayType, LoopType
  <2> QED BY <2>2, <2>3, <2>4 DEF TypeOK
<1>13. CASE StartApply
  <2>1. workers' \in [Workers -> WorkerRecords]
    BY <1>13, SpawnType DEF StartApply, ApplyType, PcLabels, Snapshotting
  <2>2. led' \in [Leds -> LedModes]
    BY <1>13 DEF StartApply, turn_off_all_leds, LedModes
  <2>3. SelectionType'
    BY <1>13, <2>1, <2>2 DEF StartApply, SelectionType, EntryOver
  <2>4. ApplyType'
    BY <1>13, <2>1, <2>2 DEF StartApply, ApplyType
  <2>5. DisplayType'
    BY <1>13, <2>1, <2>2 DEF StartApply, DisplayType
  <2>6. LoopType'
    BY <1>13, <2>1, <2>2 DEF StartApply, LoopType
  <2>7. ChannelsType'
    BY <1>13 DEF StartApply, ChannelsType
  <2> QED BY <2>3, <2>4, <2>5, <2>6, <2>7 DEF TypeOK
<1>14. CASE ReturnToSelect
  <2>1. submode_led_mode \in LedModes
    BY <1>14 DEF ReturnToSelect, submode_led_mode, LedModes
  <2>2. led' \in [Leds -> LedModes]
    BY <1>14, <2>1, SetLedType DEF ReturnToSelect, DisplayType
  <2>3. SelectionType'
    BY <1>14, <2>1, <2>2 DEF ReturnToSelect, SelectionType, EntryOver
  <2>4. DisplayType'
    BY <1>14, <2>1, <2>2 DEF ReturnToSelect, DisplayType
  <2>5. LoopType'
    BY <1>14, <2>1, <2>2 DEF ReturnToSelect, LoopType
  <2>6. ApplyType' /\ ChannelsType'
    BY <1>14 DEF ReturnToSelect, ApplyType, ChannelsType
  <2> QED BY <2>3, <2>4, <2>5, <2>6 DEF TypeOK
<1>15. CASE do_shutdown
  <2>1. led' \in [Leds -> LedModes]
    BY <1>15 DEF do_shutdown, LedModes
  <2>2. DisplayType'
    BY <1>15, <2>1 DEF do_shutdown, DisplayType
  <2>3. LoopType'
    BY <1>15, <2>1 DEF do_shutdown, LoopType
  <2>4. SelectionType' /\ ApplyType' /\ ChannelsType'
    BY <1>15 DEF do_shutdown, SelectionType, ApplyType, ChannelsType
  <2> QED BY <2>2, <2>3, <2>4 DEF TypeOK
<1>16. CASE Exit
  <2>1. LoopType'
    BY <1>16 DEF Exit, LoopType
  <2>2. SelectionType' /\ ApplyType' /\ DisplayType' /\ ChannelsType'
    BY <1>16 DEF Exit, SelectionType, ApplyType, DisplayType, ChannelsType
  <2> QED BY <2>1, <2>2 DEF TypeOK
<1> QED
    BY <1>1, <1>2, <1>3, <1>4, <1>5, <1>6, <1>7, <1>8, <1>9, <1>10, <1>11,
       <1>12, <1>13, <1>14, <1>15, <1>16 DEF MainloopStep

\* A step of the environment.
LEMMA EnvironmentType ==
    ASSUME TypeOK, Environment
    PROVE  TypeOK'
<1> USE DEF TypeOK, selected, flags, lock, rebind, outcome, startup, loop, channels
<1>1. CASE \E e \in Buttons : Button(e)
  <2>1. event_queue' \in Seq(ButtonEvents)
    BY <1>1, BoundsAssumption DEF Button, ChannelsType
  <2>2. ChannelsType'
    BY <1>1, <2>1 DEF Button, ChannelsType
  <2>3. SelectionType' /\ ApplyType' /\ DisplayType' /\ LoopType'
    BY <1>1 DEF Button, SelectionType, ApplyType, DisplayType, LoopType
  <2> QED BY <2>2, <2>3 DEF TypeOK
<1>2. CASE \E r \in Requests : RequestGadget(r)
  <2>1. gadget_req_chan' \in Seq(Requests)
    BY <1>2 DEF RequestGadget, ChannelsType
  <2>2. ChannelsType'
    BY <1>2, <2>1 DEF RequestGadget, ChannelsType
  <2>3. SelectionType' /\ ApplyType' /\ DisplayType' /\ LoopType'
    BY <1>2 DEF RequestGadget, SelectionType, ApplyType, DisplayType, LoopType
  <2> QED BY <2>2, <2>3 DEF TypeOK
<1>3. CASE \E off \in LedCommands : SetTurnOffLeds(off)
  <2>1. turn_off_leds' \in BOOLEAN
    BY <1>3, BoundsAssumption DEF SetTurnOffLeds
  <2>2. led' \in [Leds -> LedModes]
    BY <1>3, SetLedType DEF SetTurnOffLeds, turn_off_all_leds,
       submode_led_mode, LedModes
  <2>3. DisplayType'
    BY <1>3, <2>1, <2>2 DEF SetTurnOffLeds, DisplayType
  <2>4. ChannelsType'
    BY <1>3, <2>1, <2>2 DEF SetTurnOffLeds, ChannelsType
  <2>5. SelectionType' /\ ApplyType' /\ LoopType'
    BY <1>3 DEF SetTurnOffLeds, SelectionType, ApplyType, LoopType
  <2> QED BY <2>3, <2>4, <2>5 DEF TypeOK
<1>4. CASE \E j \in Leds : EntryElapse(j)
  <2>1. led' \in [Leds -> LedModes]
    BY <1>4, SetLedType DEF EntryElapse, LedModes
  <2>2. DisplayType'
    BY <1>4, <2>1 DEF EntryElapse, DisplayType
  <2>3. SelectionType' /\ ApplyType' /\ LoopType' /\ ChannelsType'
    BY <1>4 DEF EntryElapse, SelectionType, ApplyType, LoopType, ChannelsType
  <2> QED BY <2>2, <2>3 DEF TypeOK
<1>5. CASE Hold
  <2>1. ChannelsType'
    BY <1>5 DEF Hold, ChannelsType
  <2>2. SelectionType' /\ ApplyType' /\ DisplayType' /\ LoopType'
    BY <1>5 DEF Hold, SelectionType, ApplyType, DisplayType, LoopType
  <2> QED BY <2>1, <2>2 DEF TypeOK
<1>6. CASE LetGo
  <2>1. ChannelsType'
    BY <1>6 DEF LetGo, ChannelsType
  <2>2. SelectionType' /\ ApplyType' /\ DisplayType' /\ LoopType'
    BY <1>6 DEF LetGo, SelectionType, ApplyType, DisplayType, LoopType
  <2> QED BY <2>1, <2>2 DEF TypeOK
<1>7. CASE Stop
  <2>1. ChannelsType'
    BY <1>7 DEF Stop, ChannelsType
  <2>2. SelectionType' /\ ApplyType' /\ DisplayType' /\ LoopType'
    BY <1>7 DEF Stop, SelectionType, ApplyType, DisplayType, LoopType
  <2> QED BY <2>1, <2>2 DEF TypeOK
<1>8. CASE Elapse
  <2>1. ApplyType'
    BY <1>8 DEF Elapse, ApplyType
  <2>2. SelectionType' /\ DisplayType' /\ LoopType' /\ ChannelsType'
    BY <1>8 DEF Elapse, SelectionType, DisplayType, LoopType, ChannelsType
  <2> QED BY <2>1, <2>2 DEF TypeOK
<1> QED
    BY <1>1, <1>2, <1>3, <1>4, <1>5, <1>6, <1>7, <1>8 DEF Environment

\* Type correctness of the daemon's fields under every interleaving; with
\* EarlyInput or without, for every number of modes, LEDs and goroutines.
THEOREM TypeCorrect == Spec => []TypeOK
<1>1. TypeOK /\ [Next]_vars => TypeOK'
  <2> SUFFICES ASSUME TypeOK, [Next]_vars PROVE TypeOK'
    OBVIOUS
  <2>1. CASE UNCHANGED vars
    BY <2>1 DEF vars, selected, flags, lock, rebind, outcome, startup, loop,
       channels, TypeOK, SelectionType, ApplyType, DisplayType, LoopType,
       ChannelsType
  <2>2. CASE Terminated
    BY <2>1, <2>2 DEF Terminated
  <2> QED
    BY <2>1, <2>2, MainloopStepType, ApplyStepType, LedInitType,
       EnvironmentType DEF Next
<1> QED
    BY TypeInit, <1>1, PTL DEF Spec

-----------------------------------------------------------------------------
(* The mode-change lock.  SerialApply is not inductive: that a new apply     *)
(* finds no other depends on mode_changing being set while anything is in    *)
(* flight, and, for the boot apply, which runs before it is set, on nothing  *)
(* having woken the mainloop yet.                                            *)

LockInv ==
    /\ \A v, w \in Workers : workers[v].pc # "idle" /\ workers[w].pc # "idle" => v = w
    /\ \A w \in Workers : workers[w].pc # "idle" => ~rebind_chan /\ ~pending_enable
    /\ ~(rebind_chan /\ pending_enable)
    /\ \A w \in Workers : workers[w].pc \notin {"idle"} \cup Snapshotting => mode_changing
    /\ rebind_chan \/ pending_enable => mode_changing
    /\ mode_changing => \/ \E w \in Workers : workers[w].pc # "idle"
                        \/ rebind_chan \/ pending_enable \/ stopped
    /\ BootPending => /\ mainloop \in {"select", "leaving", "exited"}
                      /\ ~input_wake /\ ~wake_chan /\ ~held

\* At boot one goroutine is busy, and it is the boot apply.
LEMMA LockInit == Init => LockInv
<1> SUFFICES ASSUME Init PROVE LockInv
    OBVIOUS
<1>1. PICK boot \in Workers :
          workers = [w \in Workers |->
               IF w = boot THEN [IdleWorker EXCEPT !.pc = "apply"] ELSE IdleWorker]
    BY DEF Init
<1>2. \A w \in Workers : workers[w].pc = IF w = boot THEN "apply" ELSE "idle"
    BY <1>1 DEF IdleWorker
<1> QED
    BY <1>2 DEF Init, LockInv, BootPending, Snapshotting

\* An apply goroutine keeps the lock until it ends or hands over.
LEMMA LockApply ==
    ASSUME TypeOK, LockInv, NEW w \in Workers, ApplyStep(w)
    PROVE  LockInv'
<1> USE DEF LockInv, BootPending, Snapshotting, Goto, IdleWorker, selected, flags, lock, rebind,
        outcome, startup, loop, channels
<1>0. workers \in [Workers -> WorkerRecords] /\ mode_changing \in BOOLEAN
    BY DEF TypeOK, ApplyType
<1>1. CASE apply_function(w)
  <2>1. CASE SnapshotMode(w)
    BY <1>0, <2>1 DEF SnapshotMode, WorkerRecords
  <2>2. CASE SnapshotSubmode(w)
    BY <1>0, <2>2 DEF SnapshotSubmode, WorkerRecords
  <2>3. CASE SnapshotFlag(w)
    BY <1>0, <2>3 DEF SnapshotFlag, WorkerRecords
  <2>4. CASE ClearFlag(w)
    BY <1>0, <2>4 DEF ClearFlag, WorkerRecords
  <2> QED BY <1>1, <2>1, <2>2, <2>3, <2>4 DEF apply_function
<1>2. CASE EffectLedSubmode(w)
    BY <1>0, <1>2 DEF EffectLedSubmode, WorkerRecords
<1>3. CASE EffectLedMode(w)
    BY <1>0, <1>3 DEF EffectLedMode, WorkerRecords
<1>4. CASE RebuildOk(w)
    BY <1>0, <1>4 DEF RebuildOk, WorkerRecords
<1>5. CASE RebuildFail(w)
    BY <1>0, <1>5 DEF RebuildFail, WorkerRecords, Failed
<1>6. CASE Handoff(w)
    BY <1>0, <1>6 DEF Handoff, WorkerRecords
<1>7. CASE HandoffStopped(w)
    BY <1>0, <1>7 DEF HandoffStopped, WorkerRecords
<1>8. CASE Enable(w)
    BY <1>0, <1>8 DEF Enable, WorkerRecords, Failed
<1>9. CASE ConfigureAdb(w)
    BY <1>0, <1>9 DEF ConfigureAdb, WorkerRecords, Configured
<1>10. CASE ConfigureRndis(w)
    BY <1>0, <1>10 DEF ConfigureRndis, WorkerRecords, Configured
<1>11. CASE ConfigureFail(w)
    BY <1>0, <1>11 DEF ConfigureFail, WorkerRecords, Failed
<1>12. CASE ProbeOk(w)
    BY <1>0, <1>12 DEF ProbeOk, WorkerRecords, Configured
<1>13. CASE fallback_to_gateway_mode(w)
    BY <1>0, <1>13 DEF fallback_to_gateway_mode, WorkerRecords, Configured
<1>14. CASE commit_mode(w)
    BY <1>0, <1>14 DEF commit_mode, CommitTarget, WorkerRecords
<1>15. CASE FinishApply(w)
    BY <1>0, <1>15 DEF FinishApply, WorkerRecords
<1>16. CASE handle_apply_failure(w)
    BY <1>0, <1>16 DEF handle_apply_failure, WorkerRecords
<1>17. CASE EndFailure(w)
    BY <1>0, <1>17 DEF EndFailure, WorkerRecords
<1> QED
    BY <1>1, <1>2, <1>3, <1>4, <1>5, <1>6, <1>7, <1>8, <1>9, <1>10, <1>11,
       <1>12, <1>13, <1>14, <1>15, <1>16, <1>17 DEF ApplyStep

\* The mainloop spawns phase two only for a rebind nobody else owns, and an
\* apply only while the lock is free.
LEMMA LockMainloop ==
    ASSUME TypeOK, LockInv, MainloopStep
    PROVE  LockInv'
<1> USE DEF LockInv, BootPending, Snapshotting, Spawn, IdleWorker, selected, flags, lock, rebind,
        outcome, startup, loop, channels
<1>0. /\ workers \in [Workers -> WorkerRecords] /\ mode_changing \in BOOLEAN
      /\ pending_enable \in BOOLEAN /\ rebind_chan \in BOOLEAN
    BY DEF TypeOK, ApplyType
<1>1. CASE WakeInput
    BY <1>0, <1>1 DEF WakeInput, WorkerRecords, handle_events, RebindDue,
       ShutdownDue
<1>2. CASE WakeIpc
    BY <1>0, <1>2 DEF WakeIpc, WorkerRecords, handle_events, RebindDue,
       ShutdownDue
<1>3. CASE WakeRebind
    BY <1>0, <1>3 DEF WakeRebind, WorkerRecords, handle_events, RebindDue,
       ShutdownDue
<1>4. CASE WakeTimer
    BY <1>0, <1>4 DEF WakeTimer, WorkerRecords, handle_events, RebindDue,
       ShutdownDue
<1>5. CASE WakeStop
    BY <1>0, <1>5 DEF WakeStop, WorkerRecords
<1>6. CASE TapSubmode
    BY <1>0, <1>6 DEF TapSubmode, WorkerRecords, NextEvent
<1>7. CASE TapMode
    BY <1>0, <1>7 DEF TapMode, WorkerRecords, NextEvent
<1>8. CASE LongTap
    BY <1>0, <1>8 DEF LongTap, WorkerRecords, NextEvent
<1>9. CASE MultipleTap
    BY <1>0, <1>9 DEF MultipleTap, WorkerRecords, NextEvent
<1>10. CASE RequestMode
    BY <1>0, <1>10 DEF RequestMode, WorkerRecords, NextRequest
<1>11. CASE RequestSubmode
    BY <1>0, <1>11 DEF RequestSubmode, WorkerRecords, NextRequest
<1>12. CASE RequestNothing
    BY <1>0, <1>12 DEF RequestNothing, WorkerRecords, NextRequest
<1>13. CASE StartApply
    BY <1>0, <1>13 DEF StartApply, WorkerRecords, EventsHandled, ApplyDue
<1>14. CASE ReturnToSelect
    BY <1>0, <1>14 DEF ReturnToSelect, WorkerRecords, EventsHandled
<1>15. CASE do_shutdown
    BY <1>0, <1>15 DEF do_shutdown, WorkerRecords
<1>16. CASE Exit
    BY <1>0, <1>16 DEF Exit, WorkerRecords
<1> QED
    BY <1>1, <1>2, <1>3, <1>4, <1>5, <1>6, <1>7, <1>8, <1>9, <1>10, <1>11,
       <1>12, <1>13, <1>14, <1>15, <1>16 DEF MainloopStep

\* The power-on indication has no part in the lock.
LEMMA LockLedInit ==
    ASSUME TypeOK, LockInv, led_init_indication
    PROVE  LockInv'
BY DEF LockInv, BootPending, Snapshotting, led_init_indication, InitBegin, InitLight, InitDim,
   InitDone, InitDisplay, selected, flags, lock, rebind, outcome, startup, loop,
   channels

\* Input is what could wake the mainloop before the boot apply has taken the
\* lock: this is where EarlyInput = FALSE is needed.
LEMMA LockEnvironment ==
    ASSUME ~EarlyInput, TypeOK, LockInv, Environment
    PROVE  LockInv'
<1> USE DEF LockInv, BootPending, Snapshotting, MayArrive, selected, flags, lock, rebind,
        outcome, startup, loop, channels
<1>1. CASE \E e \in Buttons : Button(e)
    BY <1>1 DEF Button
<1>2. CASE \E r \in Requests : RequestGadget(r)
    BY <1>2 DEF RequestGadget
<1>3. CASE \E off \in LedCommands : SetTurnOffLeds(off)
    BY <1>3 DEF SetTurnOffLeds
<1>4. CASE \E j \in Leds : EntryElapse(j)
    BY <1>4 DEF EntryElapse
<1>5. CASE Hold
    BY <1>5 DEF Hold
<1>6. CASE LetGo
    BY <1>6 DEF LetGo
<1>7. CASE Stop
    BY <1>7 DEF Stop
<1>8. CASE Elapse
    BY <1>8 DEF Elapse
<1> QED
    BY <1>1, <1>2, <1>3, <1>4, <1>5, <1>6, <1>7, <1>8 DEF Environment

\* The lock invariant holds throughout, if nothing wakes the mainloop before
\* the boot apply is scheduled.
THEOREM LockInvariant == ~EarlyInput => (Spec => []LockInv)
<1> SUFFICES ASSUME ~EarlyInput PROVE Spec => []LockInv
    OBVIOUS
<1>1. TypeOK /\ LockInv /\ [Next]_vars => LockInv'
  <2> SUFFICES ASSUME TypeOK, LockInv, [Next]_vars PROVE LockInv'
    OBVIOUS
  <2>1. CASE UNCHANGED vars
    BY <2>1 DEF vars, LockInv, BootPending, Snapshotting, selected, flags, lock, rebind,
       outcome, startup, loop, channels
  <2>2. CASE Terminated
    BY <2>1, <2>2 DEF Terminated
  <2> QED
    BY <2>1, <2>2, LockMainloop, LockApply, LockLedInit, LockEnvironment DEF Next
<1> QED
    BY LockInit, TypeCorrect, <1>1, PTL DEF Spec

\* At most one goroutine ever drives the controller, so that libusbgx is used
\* by one goroutine at a time (gadget/c.go:22), if input is not early.
THEOREM Serial == ~EarlyInput => (Spec => []SerialApply)
<1>1. LockInv => SerialApply
    BY DEF LockInv, SerialApply, Busy
<1> QED
    BY LockInvariant, <1>1, PTL

\* mode_changing is never left set with nobody to release it (daemon.go:760),
\* unless the daemon is stopping.
THEOREM LockOwned == ~EarlyInput => (Spec => []LockHasOwner)
<1>1. LockInv => LockHasOwner
    BY DEF LockInv, LockHasOwner, Busy
<1> QED
    BY LockInvariant, <1>1, PTL

-----------------------------------------------------------------------------
(* The submodes on their way to being applied or recorded are in range.     *)
InRange(t) == t.submode <= MaxSubmode[t.mode]

\* The target of a goroutine, and what it has read of it so far.
TargetInRange(r) ==
    /\ r.pc = "apply_mode" => r.target.submode <= MaxSubmode[r.fn]
    /\ r.pc = "apply_submode" => r.fn = r.target.mode
    /\ r.pc \notin {"apply", "apply_mode", "apply_submode"} => InRange(r.target)

RangeParts ==
    /\ \A m \in Modes : submode[m] <= MaxSubmode[m]
    /\ InRange(last_good) /\ InRange(pending_apply)
    /\ \A w \in Workers : TargetInRange(workers[w])

RangeInv == ~torn => RangeParts

\* init() refuses a submode above MaxSubmode (daemon.go:700).
LEMMA RangeInit == Init => RangeInv
<1> SUFFICES ASSUME Init PROVE RangeInv
    OBVIOUS
<1>1. \A w \in Workers : /\ workers[w].target = [mode |-> 0, submode |-> 0]
                         /\ workers[w].pc \in {"apply", "idle"}
    BY DEF Init, IdleWorker
<1>2. 0 <= MaxSubmode[0] /\ InitSubmode[0] <= MaxSubmode[0]
    BY ZeroIsMode, ModesAssumption
<1> QED
    BY <1>1, <1>2, ModesAssumption DEF Init, RangeInv, RangeParts,
       TargetInRange, InRange, BootTarget

\* An apply goroutine selects and records only what was selected before.
LEMMA RangeApply ==
    ASSUME TypeOK, RangeParts, NEW w \in Workers, ApplyStep(w), ~torn'
    PROVE  RangeParts'
<1> USE DEF RangeParts, TargetInRange, InRange, Goto, IdleWorker, selected, flags, lock, rebind,
        outcome, startup, loop, channels
<1>0. /\ workers \in [Workers -> WorkerRecords] /\ submode \in [Modes -> Nat]
      /\ current_mode \in Modes /\ last_good \in Targets /\ pending_apply \in Targets
    BY DEF TypeOK, ApplyType, SelectionType
<1>1. CASE apply_function(w)
  <2>1. CASE SnapshotMode(w)
    BY <1>0, <2>1 DEF SnapshotMode, WorkerRecords, Targets
  <2>2. CASE SnapshotSubmode(w)
    BY <1>0, <2>2 DEF SnapshotSubmode, WorkerRecords, Targets
  <2>3. CASE SnapshotFlag(w)
    BY <1>0, <2>3 DEF SnapshotFlag, WorkerRecords, Targets
  <2>4. CASE ClearFlag(w)
    BY <1>0, <2>4 DEF ClearFlag, WorkerRecords, Targets
  <2> QED BY <1>1, <2>1, <2>2, <2>3, <2>4 DEF apply_function
<1>2. CASE EffectLedSubmode(w)
    BY <1>0, <1>2, ZeroIsMode, ModesAssumption DEF EffectLedSubmode,
       WorkerRecords, Targets
<1>3. CASE EffectLedMode(w)
    BY <1>0, <1>3, ZeroIsMode, ModesAssumption DEF EffectLedMode,
       WorkerRecords, Targets
<1>4. CASE RebuildOk(w)
  <2>1. \A v \in Workers : TargetInRange(workers'[v])
    BY <1>0, <1>4 DEF RebuildOk, WorkerRecords
  <2>2. InRange(pending_apply)'
    BY <1>0, <1>4 DEF RebuildOk
  <2>3. \A m \in Modes : submode'[m] <= MaxSubmode[m]
    BY <1>0, <1>4, ModesAssumption DEF RebuildOk
  <2> QED
    BY <1>4, <2>1, <2>2, <2>3 DEF RebuildOk
<1>5. CASE RebuildFail(w)
    BY <1>0, <1>5, ZeroIsMode, ModesAssumption DEF RebuildFail, Failed,
       WorkerRecords, Targets
<1>6. CASE Handoff(w)
    BY <1>0, <1>6, ZeroIsMode, ModesAssumption DEF Handoff, WorkerRecords,
       Targets
<1>7. CASE HandoffStopped(w)
    BY <1>0, <1>7, ZeroIsMode, ModesAssumption DEF HandoffStopped,
       WorkerRecords, Targets
<1>8. CASE Enable(w)
    BY <1>0, <1>8, ZeroIsMode, ModesAssumption DEF Enable, Failed, None,
       WorkerRecords, Targets
<1>9. CASE ConfigureAdb(w)
    BY <1>0, <1>9, ZeroIsMode, ModesAssumption DEF ConfigureAdb, Configured,
       WorkerRecords, Targets
<1>10. CASE ConfigureRndis(w)
  <2>0. PICK pc \in {"commit", "rolled_back", "probe"} :
            workers' = [workers EXCEPT ![w].pc = pc]
    BY <1>10 DEF ConfigureRndis, Configured
  <2>1. \A v \in Workers : TargetInRange(workers'[v])
    BY <1>0, <1>10, <2>0 DEF ConfigureRndis, WorkerRecords
  <2>2. InRange(pending_apply)'
    BY <1>0, <1>10 DEF ConfigureRndis
  <2>3. \A m \in Modes : submode'[m] <= MaxSubmode[m]
    BY <1>0, <1>10, ModesAssumption DEF ConfigureRndis
  <2> QED
    BY <1>10, <2>1, <2>2, <2>3 DEF ConfigureRndis
<1>11. CASE ConfigureFail(w)
    BY <1>0, <1>11, ZeroIsMode, ModesAssumption DEF ConfigureFail, Failed,
       WorkerRecords, Targets
<1>12. CASE ProbeOk(w)
    BY <1>0, <1>12, ZeroIsMode, ModesAssumption DEF ProbeOk, Configured,
       WorkerRecords, Targets
<1>13. CASE fallback_to_gateway_mode(w)
  <2>1. \A v \in Workers : TargetInRange(workers'[v])
    BY <1>0, <1>13 DEF fallback_to_gateway_mode, Configured, WorkerRecords
  <2>2. InRange(pending_apply)'
    BY <1>0, <1>13 DEF fallback_to_gateway_mode
  <2>0. submode' = [submode EXCEPT ![workers[w].fn] = 0]
    BY <1>13 DEF fallback_to_gateway_mode
  <2>3. \A m \in Modes : submode'[m] <= MaxSubmode[m]
    <3> TAKE m \in Modes
    <3>1. submode'[m] = submode[m] \/ submode'[m] = 0
      BY <1>0, <2>0
    <3>2. MaxSubmode[m] \in Nat /\ submode[m] <= MaxSubmode[m]
      BY ModesAssumption
    <3> QED
      BY <3>1, <3>2
  <2> QED
    BY <1>13, <2>1, <2>2, <2>3 DEF fallback_to_gateway_mode
<1>14. CASE commit_mode(w)
    BY <1>0, <1>14, ZeroIsMode, ModesAssumption DEF commit_mode, CommitTarget, WorkerRecords,
       Targets
<1>15. CASE FinishApply(w)
    BY <1>0, <1>15, ZeroIsMode, ModesAssumption DEF FinishApply, WorkerRecords,
       Targets
<1>16. CASE handle_apply_failure(w)
    BY <1>0, <1>16, ZeroIsMode, ModesAssumption DEF handle_apply_failure,
       RollbackMode, WorkerRecords, Targets
<1>17. CASE EndFailure(w)
    BY <1>0, <1>17, ZeroIsMode, ModesAssumption DEF EndFailure, WorkerRecords,
       Targets
<1> QED
    BY <1>1, <1>2, <1>3, <1>4, <1>5, <1>6, <1>7, <1>8, <1>9, <1>10, <1>11,
       <1>12, <1>13, <1>14, <1>15, <1>16, <1>17 DEF ApplyStep

\* Taps step modulo the number of submodes; requests are checked.
LEMMA RangeMainloop ==
    ASSUME TypeOK, RangeParts, MainloopStep
    PROVE  RangeParts'
<1> USE DEF RangeParts, TargetInRange, InRange, selected, flags, lock, rebind, outcome, startup,
        loop, channels
<1>0. /\ workers \in [Workers -> WorkerRecords] /\ submode \in [Modes -> Nat]
      /\ current_mode \in Modes /\ last_good \in Targets /\ pending_apply \in Targets
    BY DEF TypeOK, ApplyType, SelectionType
<1>1. CASE WakeInput
  <2>1. \A v \in Workers :
            \/ workers'[v] = workers[v]
            \/ /\ workers'[v].target = [mode |-> 0, submode |-> 0]
               /\ workers'[v].pc = "enable"
    BY <1>0, <1>1 DEF WakeInput, handle_events, Spawn, IdleWorker
  <2>2. \A v \in Workers : TargetInRange(workers'[v])
    BY <2>1, ZeroIsMode, ModesAssumption
  <2> QED
    BY <1>1, <2>2 DEF WakeInput, handle_events
<1>2. CASE WakeIpc
  <2>1. \A v \in Workers :
            \/ workers'[v] = workers[v]
            \/ /\ workers'[v].target = [mode |-> 0, submode |-> 0]
               /\ workers'[v].pc = "enable"
    BY <1>0, <1>2 DEF WakeIpc, handle_events, Spawn, IdleWorker
  <2>2. \A v \in Workers : TargetInRange(workers'[v])
    BY <2>1, ZeroIsMode, ModesAssumption
  <2> QED
    BY <1>2, <2>2 DEF WakeIpc, handle_events
<1>3. CASE WakeRebind
  <2>1. \A v \in Workers :
            \/ workers'[v] = workers[v]
            \/ /\ workers'[v].target = [mode |-> 0, submode |-> 0]
               /\ workers'[v].pc = "enable"
    BY <1>0, <1>3 DEF WakeRebind, handle_events, Spawn, IdleWorker
  <2>2. \A v \in Workers : TargetInRange(workers'[v])
    BY <2>1, ZeroIsMode, ModesAssumption
  <2> QED
    BY <1>3, <2>2 DEF WakeRebind, handle_events
<1>4. CASE WakeTimer
  <2>1. \A v \in Workers :
            \/ workers'[v] = workers[v]
            \/ /\ workers'[v].target = [mode |-> 0, submode |-> 0]
               /\ workers'[v].pc = "enable"
    BY <1>0, <1>4 DEF WakeTimer, handle_events, Spawn, IdleWorker
  <2>2. \A v \in Workers : TargetInRange(workers'[v])
    BY <2>1, ZeroIsMode, ModesAssumption
  <2> QED
    BY <1>4, <2>2 DEF WakeTimer, handle_events
<1>5. CASE WakeStop
    BY <1>0, <1>5, ZeroIsMode, ModesAssumption DEF WakeStop
<1>6. CASE TapSubmode
    BY <1>0, <1>6, ZeroIsMode, ModesAssumption, NextSubmodeType DEF TapSubmode,
       NextEvent, TypeOK, SelectionType
<1>7. CASE TapMode
    BY <1>0, <1>7, ZeroIsMode, ModesAssumption DEF TapMode, NextEvent
<1>8. CASE LongTap
    BY <1>0, <1>8, ZeroIsMode, ModesAssumption DEF LongTap, NextEvent
<1>9. CASE MultipleTap
    BY <1>0, <1>9, ZeroIsMode, ModesAssumption DEF MultipleTap, NextEvent
<1>10. CASE RequestMode
    BY <1>0, <1>10, ZeroIsMode, ModesAssumption, BoundsAssumption DEF
       RequestMode, NextRequest, Named, Requests
<1>11. CASE RequestSubmode
    BY <1>0, <1>11, ZeroIsMode, ModesAssumption, BoundsAssumption DEF
       RequestSubmode, NextRequest, Named, Requests
<1>12. CASE RequestNothing
    BY <1>0, <1>12, ZeroIsMode, ModesAssumption, BoundsAssumption DEF
       RequestNothing, NextRequest
<1>13. CASE StartApply
    BY <1>0, <1>13, ZeroIsMode, ModesAssumption DEF StartApply, EventsHandled,
       ApplyDue, Spawn, IdleWorker
<1>14. CASE ReturnToSelect
    BY <1>0, <1>14, ZeroIsMode, ModesAssumption DEF ReturnToSelect,
       EventsHandled
<1>15. CASE do_shutdown
    BY <1>0, <1>15, ZeroIsMode, ModesAssumption DEF do_shutdown
<1>16. CASE Exit
    BY <1>0, <1>16, ZeroIsMode, ModesAssumption DEF Exit
<1> QED
    BY <1>1, <1>2, <1>3, <1>4, <1>5, <1>6, <1>7, <1>8, <1>9, <1>10, <1>11,
       <1>12, <1>13, <1>14, <1>15, <1>16 DEF MainloopStep

\* Nothing else touches a submode.
LEMMA RangeOther ==
    ASSUME RangeParts, led_init_indication \/ Environment \/ UNCHANGED vars
    PROVE  RangeParts'
BY DEF RangeParts, TargetInRange, InRange, led_init_indication, InitBegin, InitLight, InitDim,
   InitDone, InitDisplay, Environment, Button, RequestGadget, SetTurnOffLeds,
   EntryElapse, Hold, LetGo, Stop, Elapse, vars, selected, flags, lock, rebind,
   outcome, startup, loop, channels

\* A torn snapshot is not forgotten.
LEMMA TornStays ==
    ASSUME TypeOK, [Next]_vars, torn
    PROVE  torn'
<1>1. CASE \E w \in Workers : ApplyStep(w)
    BY <1>1 DEF ApplyStep, apply_function, SnapshotMode, SnapshotSubmode,
       SnapshotFlag, ClearFlag, EffectLedSubmode, EffectLedMode, RebuildOk,
       RebuildFail, Handoff, HandoffStopped, Enable, ConfigureAdb,
       ConfigureRndis, ConfigureFail, ProbeOk, fallback_to_gateway_mode,
       commit_mode, FinishApply, handle_apply_failure, EndFailure, outcome
<1>2. CASE MainloopStep
    BY <1>2 DEF MainloopStep, WakeInput, WakeIpc, WakeRebind, WakeTimer,
       WakeStop, handle_events, TapSubmode, TapMode, LongTap, MultipleTap,
       NextEvent, RequestMode, RequestSubmode, RequestNothing, NextRequest,
       StartApply, ReturnToSelect, do_shutdown, Exit, outcome
<1>3. CASE led_init_indication \/ Environment \/ Terminated \/ UNCHANGED vars
    BY <1>3 DEF led_init_indication, InitBegin, InitLight, InitDim, InitDone,
       InitDisplay, Environment, Button, RequestGadget, SetTurnOffLeds,
       EntryElapse, Hold, LetGo, Stop, Elapse, Terminated, vars, outcome
<1> QED
    BY <1>1, <1>2, <1>3 DEF Next

\* Everything selected, recorded or on its way to be applied is in range.
THEOREM RangeKept == Spec => []RangeInv
<1>1. TypeOK /\ RangeInv /\ [Next]_vars => RangeInv'
  <2> SUFFICES ASSUME TypeOK, RangeInv, [Next]_vars, ~torn' PROVE RangeParts'
    BY DEF RangeInv
  <2>1. RangeParts
    BY TornStays DEF RangeInv
  <2> QED
    BY <2>1, RangeMainloop, RangeApply, RangeOther DEF Next, Terminated
<1> QED
    BY RangeInit, TypeCorrect, <1>1, PTL DEF Spec

\* No sequence of taps, requests, failures and rollbacks selects or records a
\* submode that enable() and the LED table do not know, as long as no input
\* came between the two reads of a snapshot (daemon.go:749-750).
THEOREM SubmodesInRange == Spec => []SubmodeInRange
<1>1. RangeInv => SubmodeInRange
    BY DEF RangeInv, RangeParts, InRange, SubmodeInRange
<1> QED
    BY RangeKept, <1>1, PTL

-----------------------------------------------------------------------------
(* What an apply in flight will commit is what is selected, unless a change *)
(* waits in mode_changed.                                                   *)
Follows(mode) == ~mode_changed => current_mode = mode

RollbackPcs == {"rebuild", "enable", "configure", "probe", "rolled_back"}

\* A rollback never commits and never hands over; only a rollback ends in
\* rolled_back.
JobInv ==
    \A w \in Workers :
        /\ workers[w].job = "rollback" => workers[w].pc \in RollbackPcs \cup {"give_up"}
        /\ workers[w].pc = "rolled_back" => workers[w].job = "rollback"

\* The goroutine is applying a target, not rolling back.
Applying(w) ==
    /\ workers[w].pc \in {"apply_submode", "apply_flag", "apply_clear",
                          "effect_led", "rebuild", "configure", "probe"}
    /\ workers[w].job # "rollback"

SelectionInv ==
    /\ SelectedIsCommitted
    /\ rebind_chan \/ pending_enable => Follows(pending_apply.mode)
    /\ \A w \in Workers :
        /\ workers[w].pc \in RollbackPcs /\ workers[w].job = "rollback"
               => Follows(last_good.mode)
        /\ workers[w].pc = "display" => Follows(last_good.mode)
        /\ Applying(w) \/ workers[w].pc = "commit" => Follows(workers[w].target.mode)
        /\ workers[w].pc = "handoff" => /\ Follows(pending_apply.mode)
                                        /\ pending_apply = workers[w].target
        /\ workers[w].pc = "enable" /\ workers[w].job # "rollback"
               => Follows(pending_apply.mode)

(* What the controller holds at each point of an apply.                     *)
RndisBound == ctl.bound /\ ctl.built \in Modes /\ Kind[ctl.built] = "rndis"

RndisUp == RndisBound /\ ctl.net # None

ControllerInv ==
    /\ CommittedRndisIsUp
    /\ rebind_chan \/ pending_enable => ctl.built = pending_apply.mode
    /\ \A w \in Workers :
        /\ workers[w].pc \in RollbackPcs /\ workers[w].job = "rollback"
               => workers[w].fn = last_good.mode
        /\ Applying(w) => workers[w].fn = workers[w].target.mode
        /\ workers[w].pc = "handoff" => /\ ctl.built = workers[w].target.mode
                                        /\ pending_apply = workers[w].target
        /\ workers[w].pc = "enable"
               => ctl.built = IF workers[w].job = "rollback" THEN last_good.mode
                              ELSE pending_apply.mode
        /\ workers[w].pc = "probe" => RndisBound /\ Kind[workers[w].fn] = "rndis"
        /\ workers[w].pc = "commit" /\ Kind[workers[w].target.mode] = "rndis" => RndisUp
        /\ workers[w].pc \in {"display", "rolled_back"}
               => (Kind[last_good.mode] = "rndis" => RndisUp)

\* No goroutine is past its first step at boot.
LEMMA JobInit == Init => JobInv
BY DEF Init, JobInv, IdleWorker

\* The steps of an apply goroutine keep its job and its place consistent.
LEMMA JobApply ==
    ASSUME TypeOK, JobInv, NEW w \in Workers, ApplyStep(w)
    PROVE  JobInv'
<1> USE DEF JobInv, RollbackPcs, Goto, IdleWorker, selected, flags, lock,
        rebind, outcome, startup, loop, channels
<1>0. workers \in [Workers -> WorkerRecords]
    BY DEF TypeOK, ApplyType
<1>1. CASE apply_function(w)
  <2>1. CASE SnapshotMode(w)
    BY <1>0, <2>1 DEF SnapshotMode, WorkerRecords
  <2>2. CASE SnapshotSubmode(w)
    BY <1>0, <2>2 DEF SnapshotSubmode, WorkerRecords
  <2>3. CASE SnapshotFlag(w)
    BY <1>0, <2>3 DEF SnapshotFlag, WorkerRecords
  <2>4. CASE ClearFlag(w)
    BY <1>0, <2>4 DEF ClearFlag, WorkerRecords
  <2> QED BY <1>1, <2>1, <2>2, <2>3, <2>4 DEF apply_function
<1>2. CASE EffectLedSubmode(w)
    BY <1>0, <1>2 DEF EffectLedSubmode, WorkerRecords
<1>3. CASE EffectLedMode(w)
    BY <1>0, <1>3 DEF EffectLedMode, WorkerRecords
<1>4. CASE RebuildOk(w)
    BY <1>0, <1>4 DEF RebuildOk, WorkerRecords
<1>5. CASE RebuildFail(w)
    BY <1>0, <1>5 DEF RebuildFail, Failed, WorkerRecords
<1>6. CASE Handoff(w)
    BY <1>0, <1>6 DEF Handoff, WorkerRecords
<1>7. CASE HandoffStopped(w)
    BY <1>0, <1>7 DEF HandoffStopped, WorkerRecords
<1>8. CASE Enable(w)
    BY <1>0, <1>8 DEF Enable, Failed, None, WorkerRecords
<1>9. CASE ConfigureAdb(w)
    BY <1>0, <1>9 DEF ConfigureAdb, Configured, WorkerRecords
<1>10. CASE ConfigureRndis(w)
    BY <1>0, <1>10 DEF ConfigureRndis, Configured, WorkerRecords
<1>11. CASE ConfigureFail(w)
    BY <1>0, <1>11 DEF ConfigureFail, Failed, WorkerRecords
<1>12. CASE ProbeOk(w)
    BY <1>0, <1>12 DEF ProbeOk, Configured, WorkerRecords
<1>13. CASE fallback_to_gateway_mode(w)
    BY <1>0, <1>13 DEF fallback_to_gateway_mode, Configured, WorkerRecords
<1>14. CASE commit_mode(w)
    BY <1>0, <1>14 DEF commit_mode, CommitTarget, WorkerRecords
<1>15. CASE FinishApply(w)
    BY <1>0, <1>15 DEF FinishApply, WorkerRecords
<1>16. CASE handle_apply_failure(w)
    BY <1>0, <1>16 DEF handle_apply_failure, RollbackMode, WorkerRecords
<1>17. CASE EndFailure(w)
    BY <1>0, <1>17 DEF EndFailure, WorkerRecords
<1> QED
    BY <1>1, <1>2, <1>3, <1>4, <1>5, <1>6, <1>7, <1>8, <1>9, <1>10, <1>11,
       <1>12, <1>13, <1>14, <1>15, <1>16, <1>17 DEF ApplyStep

\* The mainloop starts goroutines at their first step only.
LEMMA JobMainloop ==
    ASSUME TypeOK, JobInv, MainloopStep
    PROVE  JobInv'
<1> USE DEF JobInv, RollbackPcs, selected, flags, lock, rebind, outcome,
        startup, loop, channels
<1>0. workers \in [Workers -> WorkerRecords]
    BY DEF TypeOK, ApplyType
<1>1. CASE WakeInput
    BY <1>0, <1>1 DEF WakeInput, handle_events, RebindDue, Spawn, IdleWorker,
       WorkerRecords
<1>2. CASE WakeIpc
    BY <1>0, <1>2 DEF WakeIpc, handle_events, RebindDue, Spawn, IdleWorker,
       WorkerRecords
<1>3. CASE WakeRebind
    BY <1>0, <1>3 DEF WakeRebind, handle_events, RebindDue, Spawn, IdleWorker,
       WorkerRecords
<1>4. CASE WakeTimer
    BY <1>0, <1>4 DEF WakeTimer, handle_events, RebindDue, Spawn, IdleWorker,
       WorkerRecords
<1>5. CASE WakeStop
    BY <1>0, <1>5 DEF WakeStop
<1>6. CASE TapSubmode
    BY <1>0, <1>6 DEF TapSubmode, NextEvent
<1>7. CASE TapMode
    BY <1>0, <1>7 DEF TapMode, NextEvent
<1>8. CASE LongTap
    BY <1>0, <1>8 DEF LongTap, NextEvent
<1>9. CASE MultipleTap
    BY <1>0, <1>9 DEF MultipleTap, NextEvent
<1>10. CASE RequestMode
    BY <1>0, <1>10 DEF RequestMode, NextRequest
<1>11. CASE RequestSubmode
    BY <1>0, <1>11 DEF RequestSubmode, NextRequest
<1>12. CASE RequestNothing
    BY <1>0, <1>12 DEF RequestNothing, NextRequest
<1>13. CASE StartApply
    BY <1>0, <1>13 DEF StartApply, EventsHandled, ApplyDue, Spawn, IdleWorker,
       WorkerRecords
<1>14. CASE ReturnToSelect
    BY <1>0, <1>14 DEF ReturnToSelect, EventsHandled
<1>15. CASE do_shutdown
    BY <1>0, <1>15 DEF do_shutdown
<1>16. CASE Exit
    BY <1>0, <1>16 DEF Exit
<1> QED
    BY <1>1, <1>2, <1>3, <1>4, <1>5, <1>6, <1>7, <1>8, <1>9, <1>10, <1>11,
       <1>12, <1>13, <1>14, <1>15, <1>16 DEF MainloopStep

\* Nothing else moves an apply goroutine.
LEMMA JobOther ==
    ASSUME JobInv, led_init_indication \/ Environment \/ UNCHANGED vars
    PROVE  JobInv'
BY DEF JobInv, RollbackPcs, led_init_indication, InitBegin, InitLight, InitDim,
   InitDone, InitDisplay, Environment, Button, RequestGadget, SetTurnOffLeds,
   EntryElapse, Hold, LetGo, Stop, Elapse, vars, selected, flags, lock, rebind,
   outcome, startup, loop, channels

\* Rollbacks stay rollbacks.
THEOREM JobsKept == Spec => []JobInv
<1>1. TypeOK /\ JobInv /\ [Next]_vars => JobInv'
    BY JobMainloop, JobApply, JobOther DEF Next, Terminated
<1> QED
    BY JobInit, TypeCorrect, <1>1, PTL DEF Spec

\* At boot the selected mode is the recorded one.
LEMMA SelectionInit == Init => SelectionInv
BY DEF Init, SelectionInv, SelectedIsCommitted, Quiet, Follows, RollbackPcs,
   Applying, BootPending, Snapshotting, BootTarget, IdleWorker

\* A commit records what was selected, a rollback selects what is recorded.
LEMMA SelectionApply ==
    ASSUME TypeOK, LockInv, JobInv, SelectionInv,
           NEW w \in Workers, ApplyStep(w)
    PROVE  SelectionInv'
<1> USE DEF SelectionInv, SelectedIsCommitted, Quiet, Follows, RollbackPcs,
        Applying, JobInv, LockInv, BootPending, Snapshotting, Goto, IdleWorker, selected,
        flags, lock, rebind, outcome, startup, loop, channels
<1>0. /\ workers \in [Workers -> WorkerRecords] /\ mode_changing \in BOOLEAN
      /\ mode_changed \in BOOLEAN /\ apply_error \in BOOLEAN
      /\ last_good \in Targets /\ pending_apply \in Targets
    BY DEF TypeOK, ApplyType, SelectionType
<1>1. CASE apply_function(w)
  <2>1. CASE SnapshotMode(w)
    BY <1>0, <2>1 DEF SnapshotMode, WorkerRecords, Targets
  <2>2. CASE SnapshotSubmode(w)
    BY <1>0, <2>2 DEF SnapshotSubmode, WorkerRecords, Targets
  <2>3. CASE SnapshotFlag(w)
    BY <1>0, <2>3 DEF SnapshotFlag, WorkerRecords, Targets
  <2>4. CASE ClearFlag(w)
    BY <1>0, <2>4 DEF ClearFlag, WorkerRecords, Targets
  <2> QED BY <1>1, <2>1, <2>2, <2>3, <2>4 DEF apply_function
<1>2. CASE EffectLedSubmode(w)
    BY <1>0, <1>2 DEF EffectLedSubmode, WorkerRecords, Targets
<1>3. CASE EffectLedMode(w)
    BY <1>0, <1>3 DEF EffectLedMode, WorkerRecords, Targets
<1>4. CASE RebuildOk(w)
    BY <1>0, <1>4 DEF RebuildOk, WorkerRecords, Targets
<1>5. CASE RebuildFail(w)
    BY <1>0, <1>5 DEF RebuildFail, Failed, WorkerRecords, Targets
<1>6. CASE Handoff(w)
    BY <1>0, <1>6 DEF Handoff, WorkerRecords, Targets
<1>7. CASE HandoffStopped(w)
    BY <1>0, <1>7 DEF HandoffStopped, WorkerRecords, Targets
<1>8. CASE Enable(w)
    BY <1>0, <1>8 DEF Enable, Failed, None, WorkerRecords, Targets
<1>9. CASE ConfigureAdb(w)
    BY <1>0, <1>9 DEF ConfigureAdb, Configured, WorkerRecords, Targets
<1>10. CASE ConfigureRndis(w)
  <2>1. /\ workers[w].pc = "configure"
        /\ UNCHANGED <<selected, flags, lock, rebind, outcome>>
        /\ UNCHANGED <<startup, loop, channels>>
    BY <1>10 DEF ConfigureRndis
  <2>2. CASE Configured(w)
    BY <1>0, <2>1, <2>2 DEF Configured, WorkerRecords, Targets
  <2>3. CASE Goto(w, "probe")
    BY <1>0, <2>1, <2>3 DEF WorkerRecords, Targets
  <2> QED BY <1>10, <2>2, <2>3 DEF ConfigureRndis
<1>11. CASE ConfigureFail(w)
    BY <1>0, <1>11 DEF ConfigureFail, Failed, WorkerRecords, Targets
<1>12. CASE ProbeOk(w)
    BY <1>0, <1>12 DEF ProbeOk, Configured, WorkerRecords, Targets
<1>13. CASE fallback_to_gateway_mode(w)
    BY <1>0, <1>13 DEF fallback_to_gateway_mode, Configured, WorkerRecords,
       Targets
<1>14. CASE commit_mode(w)
    BY <1>0, <1>14 DEF commit_mode, CommitTarget, WorkerRecords, Targets
<1>15. CASE FinishApply(w)
    BY <1>0, <1>15 DEF FinishApply, WorkerRecords, Targets
<1>16. CASE handle_apply_failure(w)
  <2> USE <1>0, <1>16 DEF handle_apply_failure, RollbackMode
  <2>1. CASE should_rollback(workers[w].target)
    <3>1. /\ workers'[w].pc \in {"configure", "rebuild"}
          /\ workers'[w].job = "rollback" /\ workers'[w].target = last_good
          /\ \A v \in Workers : v # w => workers'[v] = workers[v]
      BY <2>1
    <3>2. current_mode' = last_good'.mode /\ mode_changing' /\ last_good' = last_good
      BY <2>1
    <3> QED
      BY <2>1, <3>1, <3>2
  <2>2. CASE ~should_rollback(workers[w].target)
    <3>1. workers' = [workers EXCEPT ![w].pc = "give_up"] /\ mode_changing'
      BY <2>2
    <3> QED
      BY <2>2, <3>1 DEF WorkerRecords
  <2> QED BY <2>1, <2>2
<1>17. CASE EndFailure(w)
    BY <1>0, <1>17 DEF EndFailure, WorkerRecords, Targets
<1> QED
    BY <1>1, <1>2, <1>3, <1>4, <1>5, <1>6, <1>7, <1>8, <1>9, <1>10, <1>11,
       <1>12, <1>13, <1>14, <1>15, <1>16, <1>17 DEF ApplyStep

\* The mainloop changes the selection only together with mode_changed.
LEMMA SelectionMainloop ==
    ASSUME TypeOK, LockInv, JobInv, SelectionInv, MainloopStep
    PROVE  SelectionInv'
<1> USE DEF SelectionInv, SelectedIsCommitted, Quiet, Follows, RollbackPcs,
        Applying, JobInv, LockInv, BootPending, Snapshotting, selected, flags, lock, rebind,
        outcome, startup, loop, channels
<1>0. /\ workers \in [Workers -> WorkerRecords] /\ mode_changing \in BOOLEAN
      /\ mode_changed \in BOOLEAN /\ apply_error \in BOOLEAN
      /\ last_good \in Targets /\ pending_apply \in Targets
    BY DEF TypeOK, ApplyType, SelectionType
<1>1. CASE WakeInput
    BY <1>0, <1>1 DEF WakeInput, handle_events, RebindDue, Spawn, IdleWorker,
       WorkerRecords
<1>2. CASE WakeIpc
    BY <1>0, <1>2 DEF WakeIpc, handle_events, RebindDue, Spawn, IdleWorker,
       WorkerRecords
<1>3. CASE WakeRebind
    BY <1>0, <1>3 DEF WakeRebind, handle_events, RebindDue, Spawn, IdleWorker,
       WorkerRecords
<1>4. CASE WakeTimer
    BY <1>0, <1>4 DEF WakeTimer, handle_events, RebindDue, Spawn, IdleWorker,
       WorkerRecords
<1>5. CASE WakeStop
    BY <1>0, <1>5 DEF WakeStop
<1>6. CASE TapSubmode
    BY <1>0, <1>6 DEF TapSubmode, NextEvent
<1>7. CASE TapMode
    BY <1>0, <1>7 DEF TapMode, NextEvent
<1>8. CASE LongTap
    BY <1>0, <1>8 DEF LongTap, NextEvent
<1>9. CASE MultipleTap
    BY <1>0, <1>9 DEF MultipleTap, NextEvent
<1>10. CASE RequestMode
    BY <1>0, <1>10 DEF RequestMode, NextRequest
<1>11. CASE RequestSubmode
    BY <1>0, <1>11 DEF RequestSubmode, NextRequest
<1>12. CASE RequestNothing
    BY <1>0, <1>12 DEF RequestNothing, NextRequest
<1>13. CASE StartApply
    BY <1>0, <1>13 DEF StartApply, EventsHandled, ApplyDue, Spawn, IdleWorker,
       WorkerRecords
<1>14. CASE ReturnToSelect
    BY <1>0, <1>14 DEF ReturnToSelect, EventsHandled
<1>15. CASE do_shutdown
    BY <1>0, <1>15 DEF do_shutdown
<1>16. CASE Exit
    BY <1>0, <1>16 DEF Exit
<1> QED
    BY <1>1, <1>2, <1>3, <1>4, <1>5, <1>6, <1>7, <1>8, <1>9, <1>10, <1>11,
       <1>12, <1>13, <1>14, <1>15, <1>16 DEF MainloopStep

\* Nothing else touches the selection.
LEMMA SelectionOther ==
    ASSUME SelectionInv, led_init_indication \/ Environment \/ UNCHANGED vars
    PROVE  SelectionInv'
BY DEF SelectionInv, SelectedIsCommitted, Quiet, Follows, RollbackPcs,
   Applying, BootPending, Snapshotting, led_init_indication, InitBegin, InitLight, InitDim,
   InitDone, InitDisplay, Environment, Button, RequestGadget, SetTurnOffLeds,
   EntryElapse, Hold, LetGo, Stop, Elapse, vars, selected, flags, lock, rebind,
   outcome, startup, loop, channels

\* The target of an apply in flight is the selected mode unless a change waits.
THEOREM SelectionKept == ~EarlyInput => (Spec => []SelectionInv)
<1> SUFFICES ASSUME ~EarlyInput PROVE Spec => []SelectionInv
    OBVIOUS
<1>1. TypeOK /\ LockInv /\ JobInv /\ SelectionInv /\ [Next]_vars => SelectionInv'
    BY SelectionMainloop, SelectionApply, SelectionOther DEF Next, Terminated
<1> QED
    BY SelectionInit, TypeCorrect, LockInvariant, JobsKept, <1>1, PTL DEF Spec

\* When nothing is being applied, nothing waits and no error is shown, the
\* selected mode is the one last applied: no interleaving of taps, requests,
\* applies, failures and rollbacks lets the two part, if input is not early.
THEOREM SelectionCommitted == ~EarlyInput => (Spec => []SelectedIsCommitted)
<1>1. SelectionInv => SelectedIsCommitted
    BY DEF SelectionInv
<1> QED
    BY SelectionKept, <1>1, PTL

-----------------------------------------------------------------------------
\* Nothing is recorded as up before the boot apply ends.
LEMMA ControllerInit == Init => ControllerInv
BY DEF Init, ControllerInv, CommittedRndisIsUp, RollbackPcs, Applying,
   BootPending, Snapshotting, IdleWorker

\* A commit follows a successful Enable and enable() of the same gadget.
LEMMA ControllerApply ==
    ASSUME TypeOK, LockInv, JobInv, ControllerInv,
           NEW w \in Workers, ApplyStep(w)
    PROVE  ControllerInv'
<1> USE DEF ControllerInv, CommittedRndisIsUp, RndisBound, RndisUp,
        RollbackPcs, Applying, JobInv, LockInv, BootPending, Snapshotting, Goto, IdleWorker,
        selected, flags, lock, rebind, outcome, startup, loop, channels
<1>0. /\ workers \in [Workers -> WorkerRecords] /\ mode_changing \in BOOLEAN
      /\ last_good \in Targets /\ pending_apply \in Targets /\ apply_error \in BOOLEAN
      /\ ctl \in [built : Modes \cup {None}, bound : BOOLEAN, net : {None, 0, 1}]
    BY DEF TypeOK, ApplyType
<1>1. CASE apply_function(w)
  <2>1. CASE SnapshotMode(w)
    BY <1>0, <2>1 DEF SnapshotMode, None, WorkerRecords, Targets
  <2>2. CASE SnapshotSubmode(w)
    BY <1>0, <2>2 DEF SnapshotSubmode, None, WorkerRecords, Targets
  <2>3. CASE SnapshotFlag(w)
    BY <1>0, <2>3 DEF SnapshotFlag, None, WorkerRecords, Targets
  <2>4. CASE ClearFlag(w)
    BY <1>0, <2>4 DEF ClearFlag, None, WorkerRecords, Targets
  <2> QED BY <1>1, <2>1, <2>2, <2>3, <2>4 DEF apply_function
<1>2. CASE EffectLedSubmode(w)
    BY <1>0, <1>2 DEF EffectLedSubmode, None, Targets, WorkerRecords
<1>3. CASE EffectLedMode(w)
    BY <1>0, <1>3 DEF EffectLedMode, None, Targets, WorkerRecords
<1>4. CASE RebuildOk(w)
    BY <1>0, <1>4 DEF RebuildOk, None, Targets, WorkerRecords, Modes
<1>5. CASE RebuildFail(w)
    BY <1>0, <1>5 DEF RebuildFail, Failed, None, Targets, WorkerRecords
<1>6. CASE Handoff(w)
    BY <1>0, <1>6 DEF Handoff, None, Targets, WorkerRecords
<1>7. CASE HandoffStopped(w)
    BY <1>0, <1>7 DEF HandoffStopped, None, Targets, WorkerRecords
<1>8. CASE Enable(w)
  <2> USE <1>0, <1>8
  <2>1. PICK ok \in BOOLEAN :
          /\ ok => ctl.built # None
          /\ ctl' = [ctl EXCEPT !.bound = ok]
          /\ workers' = [workers EXCEPT ![w] =
                [pc |-> IF ok THEN "configure" ELSE Failed(w),
                 job |-> workers[w].job,
                 target |-> IF workers[w].job = "rollback" THEN workers[w].target
                            ELSE pending_apply,
                 fn |-> IF ok THEN ctl.built ELSE workers[w].fn]]
    BY DEF Enable
  <2>2. /\ mode_changing' /\ mode_changing
        /\ UNCHANGED <<lock, rebind, outcome>>
        /\ workers[w].pc = "enable"
    BY DEF Enable
  <2>3. \A v \in Workers : v # w => workers'[v] = workers[v] /\ workers[v].pc = "idle"
    BY <2>1, <2>2
  <2>4. /\ workers'[w].job = workers[w].job
        /\ workers'[w].pc = IF ok THEN "configure" ELSE Failed(w)
        /\ workers'[w].fn = IF ok THEN ctl.built ELSE workers[w].fn
        /\ workers'[w].target = IF workers[w].job = "rollback" THEN workers[w].target
                                ELSE pending_apply
    BY <2>1
  <2>5. ctl'.built = ctl.built
    BY <2>1
  <2>6. Failed(w) \in {"fail", "give_up"}
    BY DEF Failed
  <2>7. CASE ok
    BY <2>2, <2>3, <2>4, <2>5, <2>7
  <2>8. CASE ~ok
    BY <2>2, <2>3, <2>4, <2>5, <2>6, <2>8
  <2> QED BY <2>7, <2>8
<1>9. CASE ConfigureAdb(w)
    BY <1>0, <1>9, ModesAssumption DEF ConfigureAdb, Configured, None, Targets,
       WorkerRecords, InterfaceUp, Kinds
<1>10. CASE ConfigureRndis(w)
  <2> USE <1>0, <1>10 DEF ConfigureRndis
  <2>1. mode_changing /\ mode_changing' /\ UNCHANGED <<rebind, outcome>>
    OBVIOUS
  <2>2. \A v \in Workers : v # w => workers'[v] = workers[v] /\ workers[v].pc = "idle"
    BY DEF Configured
  <2>3. RndisBound'
    BY DEF InterfaceUp
  <2>4. CASE submode[workers[w].fn] = 0
    <3>1. ctl'.net # None
      BY <2>4, SMT DEF None
    <3>2. workers' = [workers EXCEPT ![w].pc =
              IF workers[w].job = "rollback" THEN "rolled_back" ELSE "commit"]
      BY <2>4 DEF Configured
    <3> QED
      BY <2>1, <2>2, <2>3, <3>1, <3>2 DEF WorkerRecords
  <2>5. CASE submode[workers[w].fn] # 0
    <3>1. workers' = [workers EXCEPT ![w].pc = "probe"]
      BY <2>5
    <3> QED
      BY <2>1, <2>2, <2>3, <3>1 DEF WorkerRecords
  <2> QED BY <2>4, <2>5
<1>11. CASE ConfigureFail(w)
    BY <1>0, <1>11, ModesAssumption DEF ConfigureFail, Failed, None, Targets,
       WorkerRecords, InterfaceUp, Kinds
<1>12. CASE ProbeOk(w)
    BY <1>0, <1>12 DEF ProbeOk, Configured, None, Targets, WorkerRecords
<1>13. CASE fallback_to_gateway_mode(w)
    BY <1>0, <1>13 DEF fallback_to_gateway_mode, Configured, None, Targets,
       WorkerRecords
<1>14. CASE commit_mode(w)
    BY <1>0, <1>14 DEF commit_mode, CommitTarget, None, Targets, WorkerRecords
<1>15. CASE FinishApply(w)
    BY <1>0, <1>15 DEF FinishApply, None, Targets, WorkerRecords
<1>16. CASE handle_apply_failure(w)
    BY <1>0, <1>16 DEF handle_apply_failure, None, Targets, WorkerRecords
<1>17. CASE EndFailure(w)
    BY <1>0, <1>17 DEF EndFailure, None, Targets, WorkerRecords
<1> QED
    BY <1>1, <1>2, <1>3, <1>4, <1>5, <1>6, <1>7, <1>8, <1>9, <1>10, <1>11,
       <1>12, <1>13, <1>14, <1>15, <1>16, <1>17 DEF ApplyStep

\* The mainloop does not call the controller.
LEMMA ControllerMainloop ==
    ASSUME TypeOK, LockInv, JobInv, ControllerInv, MainloopStep
    PROVE  ControllerInv'
<1> USE DEF ControllerInv, CommittedRndisIsUp, RndisBound, RndisUp,
        RollbackPcs, Applying, JobInv, LockInv, BootPending, Snapshotting, selected, flags,
        lock, rebind, outcome, startup, loop, channels
<1>0. /\ workers \in [Workers -> WorkerRecords] /\ mode_changing \in BOOLEAN
      /\ last_good \in Targets /\ pending_apply \in Targets /\ apply_error \in BOOLEAN
      /\ ctl \in [built : Modes \cup {None}, bound : BOOLEAN, net : {None, 0, 1}]
    BY DEF TypeOK, ApplyType
<1>1. CASE WakeInput
    BY <1>0, <1>1 DEF WakeInput, handle_events, RebindDue, Spawn, IdleWorker,
       WorkerRecords
<1>2. CASE WakeIpc
    BY <1>0, <1>2 DEF WakeIpc, handle_events, RebindDue, Spawn, IdleWorker,
       WorkerRecords
<1>3. CASE WakeRebind
    BY <1>0, <1>3 DEF WakeRebind, handle_events, RebindDue, Spawn, IdleWorker,
       WorkerRecords
<1>4. CASE WakeTimer
    BY <1>0, <1>4 DEF WakeTimer, handle_events, RebindDue, Spawn, IdleWorker,
       WorkerRecords
<1>5. CASE WakeStop
    BY <1>0, <1>5 DEF WakeStop
<1>6. CASE TapSubmode
    BY <1>0, <1>6 DEF TapSubmode, NextEvent
<1>7. CASE TapMode
    BY <1>0, <1>7 DEF TapMode, NextEvent
<1>8. CASE LongTap
    BY <1>0, <1>8 DEF LongTap, NextEvent
<1>9. CASE MultipleTap
    BY <1>0, <1>9 DEF MultipleTap, NextEvent
<1>10. CASE RequestMode
    BY <1>0, <1>10 DEF RequestMode, NextRequest
<1>11. CASE RequestSubmode
    BY <1>0, <1>11 DEF RequestSubmode, NextRequest
<1>12. CASE RequestNothing
    BY <1>0, <1>12 DEF RequestNothing, NextRequest
<1>13. CASE StartApply
    BY <1>0, <1>13 DEF StartApply, EventsHandled, ApplyDue, Spawn, IdleWorker,
       WorkerRecords
<1>14. CASE ReturnToSelect
    BY <1>0, <1>14 DEF ReturnToSelect, EventsHandled
<1>15. CASE do_shutdown
    BY <1>0, <1>15 DEF do_shutdown
<1>16. CASE Exit
    BY <1>0, <1>16 DEF Exit
<1> QED
    BY <1>1, <1>2, <1>3, <1>4, <1>5, <1>6, <1>7, <1>8, <1>9, <1>10, <1>11,
       <1>12, <1>13, <1>14, <1>15, <1>16 DEF MainloopStep

\* Nothing else calls the controller.
LEMMA ControllerOther ==
    ASSUME ControllerInv, led_init_indication \/ Environment \/ UNCHANGED vars
    PROVE  ControllerInv'
BY DEF ControllerInv, CommittedRndisIsUp, RndisBound, RndisUp, RollbackPcs,
   Applying, BootPending, Snapshotting, led_init_indication, InitBegin, InitLight, InitDim,
   InitDone, InitDisplay, Environment, Button, RequestGadget, SetTurnOffLeds,
   EntryElapse, Hold, LetGo, Stop, Elapse, vars, selected, flags, lock, rebind,
   outcome, startup, loop, channels

\* What the controller holds matches the point each apply has reached.
THEOREM ControllerKept == ~EarlyInput => (Spec => []ControllerInv)
<1> SUFFICES ASSUME ~EarlyInput PROVE Spec => []ControllerInv
    OBVIOUS
<1>1. TypeOK /\ LockInv /\ JobInv /\ ControllerInv /\ [Next]_vars => ControllerInv'
    BY ControllerMainloop, ControllerApply, ControllerOther DEF Next, Terminated
<1> QED
    BY ControllerInit, TypeCorrect, LockInvariant, JobsKept, <1>1, PTL DEF Spec

\* Whenever an RNDIS configuration is the recorded one, no apply runs and no
\* error is shown, an RNDIS gadget is bound and its network is configured.
THEOREM CommittedRndisUp == ~EarlyInput => (Spec => []CommittedRndisIsUp)
<1>1. ControllerInv => CommittedRndisIsUp
    BY DEF ControllerInv
<1> QED
    BY ControllerKept, <1>1, PTL

-----------------------------------------------------------------------------
(* The refinement.  PhaseView reads the abstract phase and target off the    *)
(* one goroutine that is busy, or off the lock when none is.                 *)

PhaseOf(w) ==
    IF workers[w].pc \in {"apply", "apply_mode"} THEN "starting"
    ELSE IF workers[w].job = "rollback" THEN "undoing"
    ELSE IF workers[w].pc = "display" THEN "committed"
    ELSE "trying"

TargetsOf(w) ==
    IF PhaseOf(w) # "trying" THEN {}
    ELSE {IF workers[w].pc = "enable" THEN pending_apply.mode
          ELSE workers[w].target.mode}

PhaseView ==
    /\ \A w \in Workers : workers[w].pc # "idle" =>
           SwitchPhase = PhaseOf(w) /\ SwitchTargets = TargetsOf(w)
    /\ (\A w \in Workers : workers[w].pc = "idle") =>
           /\ SwitchPhase = IF mode_changing THEN "trying" ELSE "idle"
           /\ SwitchTargets = IF mode_changing THEN {pending_apply.mode} ELSE {}

\* The mapping is well defined because at most one goroutine is busy.
LEMMA PhaseViewed == TypeOK /\ LockInv /\ JobInv => PhaseView
<1> SUFFICES ASSUME TypeOK, LockInv, JobInv PROVE PhaseView
    OBVIOUS
<1> DEFINE carriers == {w \in Workers : workers[w].pc \notin {"idle", "enable"}}
<1>1. ASSUME NEW w \in Workers, workers[w].pc # "idle"
      PROVE  SwitchPhase = PhaseOf(w) /\ SwitchTargets = TargetsOf(w)
  <2>1. \A v \in Workers : v # w => workers[v].pc = "idle" /\ workers[v].job # "rollback"
    BY <1>1 DEF LockInv, JobInv, RollbackPcs
  <2>2. mode_changing \/ BootPending
    BY <1>1 DEF LockInv, BootPending
  <2>3. workers[w].job = "rollback"
            => workers[w].pc \notin {"apply", "apply_mode", "display"}
    BY DEF JobInv, RollbackPcs
  <2>4. SwitchPhase = PhaseOf(w)
    BY <2>1, <2>2, <2>3, <1>1 DEF SwitchPhase, PhaseOf
  <2>5. carriers = IF workers[w].pc = "enable" THEN {} ELSE {w}
    BY <2>1, <1>1
  <2>6. workers[w].pc = "enable" /\ PhaseOf(w) = "trying"
            => SwitchTargets = {pending_apply.mode}
    BY <2>4, <2>5 DEF SwitchTargets
  <2>7. workers[w].pc # "enable" /\ PhaseOf(w) = "trying"
            => SwitchTargets = {workers[w].target.mode}
    BY <2>4, <2>5 DEF SwitchTargets
  <2> QED
    BY <2>4, <2>6, <2>7 DEF SwitchTargets, TargetsOf
<1>2. ASSUME \A w \in Workers : workers[w].pc = "idle"
      PROVE  /\ SwitchPhase = IF mode_changing THEN "trying" ELSE "idle"
             /\ SwitchTargets = IF mode_changing THEN {pending_apply.mode} ELSE {}
  <2>1. \A w \in Workers : workers[w].job # "rollback"
    BY <1>2 DEF JobInv, RollbackPcs
  <2>2. SwitchPhase = IF mode_changing THEN "trying" ELSE "idle"
    BY <1>2, <2>1 DEF SwitchPhase, BootPending, Snapshotting
  <2>3. carriers = {}
    BY <1>2
  <2> QED
    BY <2>2, <2>3 DEF SwitchTargets
<1> QED
    BY <1>1, <1>2 DEF PhaseView

\* The boot state is an initial state of Switcher.
LEMMA RefinesInit == Init => Abstract!Init
<1> SUFFICES ASSUME Init PROVE Abstract!Init
    OBVIOUS
<1>1. PICK boot \in Workers :
          workers = [w \in Workers |->
               IF w = boot THEN [IdleWorker EXCEPT !.pc = "apply"] ELSE IdleWorker]
    BY DEF Init
<1>2. /\ workers[boot].pc = "apply"
      /\ \A w \in Workers : workers[w].job # "rollback" /\ workers[w].pc # "display"
    BY <1>1 DEF IdleWorker
<1>3. SwitchPhase = "starting"
    BY <1>2 DEF SwitchPhase
<1>4. SwitchTargets = {}
    BY <1>3 DEF SwitchTargets
<1> QED
    BY <1>3, <1>4 DEF Init, Abstract!Init, BootTarget

\* Every step of an apply goroutine is one of an attempt, or invisible.
LEMMA RefinesApply ==
    ASSUME TypeOK, TypeOK', LockInv, JobInv, SelectionInv,
           PhaseView, PhaseView', NEW w \in Workers, ApplyStep(w)
    PROVE  [Abstract!Next]_(Abstract!svars)
<1> USE DEF Abstract!Next, Abstract!svars, Goto, selected, flags, lock, rebind,
        outcome
<1>0. /\ workers \in [Workers -> WorkerRecords] /\ workers[w] \in WorkerRecords
      /\ workers' \in [Workers -> WorkerRecords]
    BY DEF TypeOK, ApplyType
<1>a. /\ workers[w].pc # "idle" => SwitchPhase = PhaseOf(w) /\ SwitchTargets = TargetsOf(w)
      /\ workers'[w].pc # "idle" => SwitchPhase' = PhaseOf(w)' /\ SwitchTargets' = TargetsOf(w)'
    BY DEF PhaseView
<1>b. (workers[w].pc # "idle" /\ workers' = [workers EXCEPT ![w] = IdleWorker])
          => \A v \in Workers : workers'[v].pc = "idle"
    BY <1>0 DEF LockInv, IdleWorker
<1>c. (\A v \in Workers : workers'[v].pc = "idle") =>
           /\ SwitchPhase' = IF mode_changing' THEN "trying" ELSE "idle"
           /\ SwitchTargets' = IF mode_changing' THEN {pending_apply'.mode} ELSE {}
    BY DEF PhaseView
<1> USE DEF PhaseOf, TargetsOf
<1> DEFINE tries == PcLabels \ {"idle", "apply", "apply_mode", "display", "enable"}
<1>d. /\ workers[w].pc \in tries /\ workers'[w].pc \in tries
      /\ workers'[w].job = workers[w].job /\ workers'[w].target = workers[w].target
      => SwitchPhase' = SwitchPhase /\ SwitchTargets' = SwitchTargets
    BY <1>a
<1>1. CASE apply_function(w)
  <2>1. CASE SnapshotMode(w)
    <3>1. Abstract!Snapshot
      BY <1>0, <2>1, <1>a DEF SnapshotMode, Abstract!Snapshot
    <3> QED BY <3>1
  <2>2. CASE SnapshotSubmode(w)
    BY <1>0, <2>2, <1>a DEF SnapshotSubmode, JobInv, RollbackPcs
  <2>3. CASE SnapshotFlag(w)
    BY <1>0, <2>3, <1>a DEF SnapshotFlag, JobInv, RollbackPcs, WorkerRecords
  <2>4. CASE ClearFlag(w)
    BY SMTT(30), <1>0, <2>4, <1>a DEF ClearFlag, WorkerRecords
  <2> QED BY <1>1, <2>1, <2>2, <2>3, <2>4 DEF apply_function
<1>2. CASE EffectLedSubmode(w)
    BY <1>0, <1>2, <1>a DEF EffectLedSubmode, WorkerRecords
<1>3. CASE EffectLedMode(w)
    BY <1>0, <1>3, <1>a DEF EffectLedMode, WorkerRecords
<1>4. CASE RebuildOk(w)
  <2>1. /\ workers'[w].job = workers[w].job /\ workers'[w].target = workers[w].target
        /\ workers'[w].pc = IF workers[w].job = "rollback" THEN "enable" ELSE "handoff"
    BY <1>0, <1>4 DEF RebuildOk, WorkerRecords
  <2>2. SwitchPhase' = SwitchPhase /\ SwitchTargets' = SwitchTargets
    BY <1>4, <1>a, <2>1 DEF RebuildOk
  <2> QED BY <1>4, <2>2 DEF RebuildOk
<1>5. CASE RebuildFail(w)
  <2>1. /\ workers[w].pc \in tries /\ workers'[w].pc \in tries
        /\ workers'[w].job = workers[w].job /\ workers'[w].target = workers[w].target
    BY <1>0, <1>5 DEF RebuildFail, Failed, WorkerRecords, PcLabels
  <2> QED BY <1>5, <1>d, <2>1 DEF RebuildFail
<1>6. CASE Handoff(w)
  <2>1. workers[w].job # "rollback" /\ mode_changing /\ pending_apply = workers[w].target
    BY <1>6 DEF Handoff, JobInv, LockInv, Snapshotting, SelectionInv, RollbackPcs
  <2> QED
    BY <1>0, <1>6, <1>a, <1>b, <1>c, <2>1 DEF Handoff
<1>7. CASE HandoffStopped(w)
  <2>1. workers[w].job # "rollback" /\ mode_changing /\ pending_apply = workers[w].target
    BY <1>7 DEF HandoffStopped, JobInv, LockInv, Snapshotting, SelectionInv,
       RollbackPcs
  <2> QED
    BY <1>0, <1>7, <1>a, <1>b, <1>c, <2>1 DEF HandoffStopped
<1>8. CASE Enable(w)
  <2>1. PICK ok \in BOOLEAN :
            workers' = [workers EXCEPT ![w] =
                [pc |-> IF ok THEN "configure" ELSE Failed(w),
                 job |-> workers[w].job,
                 target |-> IF workers[w].job = "rollback" THEN workers[w].target
                            ELSE pending_apply,
                 fn |-> IF ok THEN ctl.built ELSE workers[w].fn]]
    BY <1>8 DEF Enable
  <2>2. /\ workers'[w].pc \in tries /\ workers'[w].job = workers[w].job
        /\ workers[w].job # "rollback" => workers'[w].target = pending_apply
    BY <1>0, <2>1 DEF Failed, PcLabels
  <2>3. SwitchPhase' = SwitchPhase /\ SwitchTargets' = SwitchTargets
    BY <1>8, <1>a, <2>2 DEF Enable
  <2> QED BY <1>8, <2>3 DEF Enable
<1>9. CASE ConfigureAdb(w)
  <2>1. /\ workers[w].pc \in tries /\ workers'[w].pc \in tries
        /\ workers'[w].job = workers[w].job /\ workers'[w].target = workers[w].target
    BY <1>0, <1>9 DEF ConfigureAdb, Configured, WorkerRecords, PcLabels
  <2> QED BY <1>9, <1>d, <2>1 DEF ConfigureAdb
<1>10. CASE ConfigureRndis(w)
  <2>1. /\ workers[w].pc \in tries /\ workers'[w].pc \in tries
        /\ workers'[w].job = workers[w].job /\ workers'[w].target = workers[w].target
    BY <1>0, <1>10 DEF ConfigureRndis, Configured, WorkerRecords, PcLabels
  <2> QED BY <1>10, <1>d, <2>1 DEF ConfigureRndis
<1>11. CASE ConfigureFail(w)
  <2>1. /\ workers[w].pc \in tries /\ workers'[w].pc \in tries
        /\ workers'[w].job = workers[w].job /\ workers'[w].target = workers[w].target
    BY <1>0, <1>11 DEF ConfigureFail, Failed, WorkerRecords, PcLabels
  <2> QED BY <1>11, <1>d, <2>1 DEF ConfigureFail
<1>12. CASE ProbeOk(w)
  <2>1. /\ workers[w].pc \in tries /\ workers'[w].pc \in tries
        /\ workers'[w].job = workers[w].job /\ workers'[w].target = workers[w].target
    BY <1>0, <1>12 DEF ProbeOk, Configured, WorkerRecords, PcLabels
  <2> QED BY <1>12, <1>d, <2>1 DEF ProbeOk
<1>13. CASE fallback_to_gateway_mode(w)
  <2>1. /\ workers[w].pc \in tries /\ workers'[w].pc \in tries
        /\ workers'[w].job = workers[w].job /\ workers'[w].target = workers[w].target
    BY <1>0, <1>13 DEF fallback_to_gateway_mode, Configured, WorkerRecords, PcLabels
  <2> QED BY <1>13, <1>d, <2>1 DEF fallback_to_gateway_mode
<1>14. CASE commit_mode(w)
  <2>1. workers[w].job # "rollback"
    BY <1>14 DEF commit_mode, JobInv, RollbackPcs
  <2>2. Abstract!Commit
    BY <1>0, <1>14, <1>a, <2>1 DEF commit_mode, CommitTarget, Abstract!Commit,
       WorkerRecords
  <2> QED BY <2>2
<1>15. CASE FinishApply(w)
  <2>1. workers[w].job # "rollback"
    BY <1>15 DEF FinishApply, JobInv, RollbackPcs
  <2>2. Abstract!Finish
    BY <1>0, <1>15, <1>a, <1>b, <1>c, <2>1 DEF FinishApply, Abstract!Finish
  <2> QED BY <2>2
<1>16. CASE handle_apply_failure(w)
  <2>0. workers[w].job # "rollback"
    BY <1>16 DEF handle_apply_failure, JobInv, RollbackPcs
  <2>1. CASE should_rollback(workers[w].target)
    <3>1. Abstract!Undo
      BY <1>0, <1>16, <1>a, <2>0, <2>1 DEF handle_apply_failure, RollbackMode,
         Abstract!Undo
    <3> QED BY <3>1
  <2>2. CASE ~should_rollback(workers[w].target)
    <3>1. /\ workers[w].pc \in tries /\ workers'[w].pc \in tries
          /\ workers'[w].job = workers[w].job /\ workers'[w].target = workers[w].target
      BY <1>0, <1>16, <2>2 DEF handle_apply_failure, WorkerRecords, PcLabels
    <3> QED BY <1>16, <1>d, <2>2, <3>1 DEF handle_apply_failure
  <2> QED BY <2>1, <2>2
<1>17. CASE EndFailure(w)
  <2>1. CASE workers[w].pc = "rolled_back"
    <3>1. workers[w].job = "rollback"
      BY <2>1 DEF JobInv
    <3>2. Abstract!Finish
      BY <1>0, <1>17, <1>a, <1>b, <1>c, <2>1, <3>1 DEF EndFailure, Abstract!Finish
    <3> QED BY <3>2
  <2>2. CASE workers[w].pc = "give_up"
    <3>1. Abstract!GiveUp
      BY <1>0, <1>17, <1>a, <1>b, <1>c, <2>2 DEF EndFailure, Abstract!GiveUp
    <3> QED BY <3>1
  <2> QED BY <1>17, <2>1, <2>2 DEF EndFailure
<1> QED
    BY <1>1, <1>2, <1>3, <1>4, <1>5, <1>6, <1>7, <1>8, <1>9, <1>10, <1>11,
       <1>12, <1>13, <1>14, <1>15, <1>16, <1>17 DEF ApplyStep

\* The mainloop selects and starts attempts; all else it does is invisible.
LEMMA RefinesMainloop ==
    ASSUME TypeOK, TypeOK', LockInv, JobInv, PhaseView, PhaseView', MainloopStep
    PROVE  [Abstract!Next]_(Abstract!svars)
<1> USE DEF Abstract!Next, Abstract!svars, selected, flags, lock, rebind, outcome
<1>0. /\ workers \in [Workers -> WorkerRecords]
      /\ current_mode' \in Modes
    BY DEF TypeOK, ApplyType, SelectionType
<1>a. ASSUME UNCHANGED <<workers, mode_changing, pending_apply>>
      PROVE  SwitchPhase' = SwitchPhase /\ SwitchTargets' = SwitchTargets
    BY <1>a DEF SwitchPhase, SwitchTargets, BootPending
<1>b. ASSUME NEW pending \in BOOLEAN, handle_events(pending),
             pending => pending_enable \/ rebind_chan
      PROVE  /\ SwitchPhase' = SwitchPhase /\ SwitchTargets' = SwitchTargets
             /\ UNCHANGED <<current_mode, mode_changed, last_good, apply_error>>
  <2>1. CASE ~RebindDue(pending)
    BY <1>a, <1>b, <2>1 DEF handle_events
  <2>2. CASE RebindDue(pending)
    <3>1. /\ mode_changing /\ \A w \in Workers : workers[w].pc = "idle"
          /\ UNCHANGED <<mode_changing, pending_apply>>
      BY <1>b, <2>2 DEF RebindDue, LockInv, handle_events
    <3>2. PICK w \in Workers :
              workers' = [workers EXCEPT ![w] = [IdleWorker EXCEPT !.pc = "enable"]]
      BY <1>b, <2>2 DEF handle_events, Spawn
    <3>3. workers'[w].pc = "enable" /\ workers'[w].job = "mode"
      BY <1>0, <3>2 DEF IdleWorker
    <3>4. SwitchPhase' = "trying" /\ SwitchTargets' = {pending_apply.mode}
      BY <3>1, <3>3 DEF PhaseView, PhaseOf, TargetsOf
    <3>5. SwitchPhase = "trying" /\ SwitchTargets = {pending_apply.mode}
      BY <3>1 DEF PhaseView
    <3> QED
      BY <1>b, <3>4, <3>5 DEF handle_events
  <2> QED BY <2>1, <2>2
<1>1. CASE WakeInput \/ WakeIpc \/ WakeTimer
  <2>1. pending_enable \in BOOLEAN
    BY DEF TypeOK, ApplyType
  <2> QED
    BY <1>1, <1>b, <2>1 DEF WakeInput, WakeIpc, WakeTimer
<1>2. CASE WakeRebind
    BY <1>2, <1>b DEF WakeRebind
<1>3. CASE WakeStop \/ ReturnToSelect \/ do_shutdown \/ Exit
    BY <1>3, <1>a DEF WakeStop, ReturnToSelect, do_shutdown, Exit
<1>4. CASE LongTap \/ RequestNothing
    BY <1>4, <1>a DEF LongTap, NextEvent, RequestNothing, NextRequest
<1>5. CASE TapSubmode \/ TapMode \/ MultipleTap \/ RequestMode \/ RequestSubmode
  <2>1. /\ UNCHANGED <<workers, mode_changing, pending_apply, last_good, apply_error>>
        /\ mode_changed' = TRUE
    BY <1>5 DEF TapSubmode, TapMode, MultipleTap, RequestMode, RequestSubmode,
       NextEvent, NextRequest
  <2>2. Abstract!Select
    BY <1>0, <1>a, <2>1 DEF Abstract!Select
  <2> QED BY <2>2
<1>6. CASE StartApply
  <2>1. ~mode_changing /\ mode_changed /\ mode_changing' /\ mode_changed' = FALSE
    BY <1>6 DEF StartApply, ApplyDue
  <2>2. \A w \in Workers : workers[w].pc = "idle"
    BY <1>6, <2>1 DEF StartApply, EventsHandled, LockInv, BootPending, Snapshotting
  <2>3. PICK w \in Workers :
            workers' = [workers EXCEPT ![w] = [IdleWorker EXCEPT !.pc = "apply"]]
    BY <1>6 DEF StartApply, Spawn
  <2>4. workers'[w].pc = "apply"
    BY <1>0, <2>3 DEF IdleWorker
  <2>5. SwitchPhase' = "starting" /\ SwitchTargets' = {}
    BY <2>4 DEF PhaseView, PhaseOf, TargetsOf
  <2>6. SwitchPhase = "idle" /\ SwitchTargets = {}
    BY <2>1, <2>2 DEF PhaseView
  <2>7. Abstract!Start
    BY <1>6, <2>1, <2>5, <2>6 DEF StartApply, Abstract!Start
  <2> QED BY <2>7
<1> QED
    BY <1>1, <1>2, <1>3, <1>4, <1>5, <1>6 DEF MainloopStep

\* LEDs, clocks and what only queues input are invisible.
LEMMA RefinesOther ==
    ASSUME led_init_indication \/ Environment \/ UNCHANGED vars
    PROVE  UNCHANGED Abstract!svars
<1>1. UNCHANGED <<current_mode, mode_changed, workers, mode_changing,
                  pending_apply, last_good, apply_error>>
    BY DEF led_init_indication, InitBegin, InitLight, InitDim, InitDone,
       InitDisplay, Environment, Button, RequestGadget, SetTurnOffLeds,
       EntryElapse, Hold, LetGo, Stop, Elapse, vars, selected, flags, lock,
       rebind, outcome
<1> QED
    BY <1>1 DEF Abstract!svars, SwitchPhase, SwitchTargets, BootPending

\* The daemon implements Switcher, for every configuration of modes and any
\* number of goroutines, if input is not early: an apply records exactly the
\* mode that was selected when it began, or selects the recorded one again, or
\* leaves an error, and no change that waits is dropped.
THEOREM Implementation == ~EarlyInput => (Spec => ImplementsSwitcher)
<1> SUFFICES ASSUME ~EarlyInput PROVE Spec => ImplementsSwitcher
    OBVIOUS
<1> DEFINE Inv == TypeOK /\ LockInv /\ JobInv /\ SelectionInv
<1>1. Inv /\ Inv' /\ PhaseView /\ PhaseView' /\ [Next]_vars
          => [Abstract!Next]_(Abstract!svars)
    BY RefinesApply, RefinesMainloop, RefinesOther DEF Next, Terminated
<1>2. Spec => []Inv
    BY TypeCorrect, LockInvariant, JobsKept, SelectionKept, PTL
<1>3. Inv => PhaseView
    BY PhaseViewed
<1>4. Spec => Abstract!Spec
    BY RefinesInit, <1>1, <1>2, <1>3, PTL DEF Spec, Abstract!Spec
<1> QED
    BY <1>4 DEF ImplementsSwitcher

-----------------------------------------------------------------------------
(* What the LEDs show.                                                     *)

\* Who ends last of the boot apply and led_init_indication shows the mode:
\* apply_done is set by the time the first apply releases the lock, and
\* led_init_done before the indication looks at it.
AnnouncedInv ==
    /\ ~mode_changing => apply_done \/ BootPending
    /\ BootPending => ~submode_changed
    /\ led_init_done <=> led_init \in {"display", "done"}
    /\ \A w \in Workers :
        /\ workers[w].pc \in Snapshotting /\ mode_changing => apply_done
        /\ workers[w].job # "mode" => apply_done
        /\ workers[w].pc \in {"display", "rolled_back", "give_up"} => apply_done

\* At boot the indication has not begun and the boot apply has not run.
LEMMA AnnouncedInit == Init => AnnouncedInv
<1> SUFFICES ASSUME Init PROVE AnnouncedInv
    OBVIOUS
<1>1. PICK boot \in Workers :
          workers = [w \in Workers |->
               IF w = boot THEN [IdleWorker EXCEPT !.pc = "apply"] ELSE IdleWorker]
    BY DEF Init
<1>2. \A w \in Workers : /\ workers[w].pc = IF w = boot THEN "apply" ELSE "idle"
                         /\ workers[w].job = "mode"
    BY <1>1 DEF IdleWorker
<1> QED
    BY <1>2 DEF Init, AnnouncedInv, BootPending, Snapshotting

\* An apply goroutine announces apply_done before it releases the lock.
LEMMA AnnouncedApply ==
    ASSUME TypeOK, LockInv, AnnouncedInv, NEW w \in Workers, ApplyStep(w)
    PROVE  AnnouncedInv'
<1> USE DEF AnnouncedInv, LockInv, BootPending, Snapshotting, Goto, IdleWorker, selected,
        flags, lock, rebind, outcome, startup, loop, channels, WorkerRecords
<1>0. /\ workers \in [Workers -> WorkerRecords] /\ mode_changing \in BOOLEAN
      /\ submode_changed \in BOOLEAN /\ apply_done \in BOOLEAN
    BY DEF TypeOK, ApplyType, SelectionType, DisplayType
<1>1. CASE apply_function(w)
  <2>1. CASE SnapshotMode(w)
    BY <1>0, <2>1 DEF SnapshotMode
  <2>2. CASE SnapshotSubmode(w)
    BY <1>0, <2>2 DEF SnapshotSubmode
  <2>3. CASE SnapshotFlag(w)
    BY <1>0, <2>3 DEF SnapshotFlag
  <2>4. CASE ClearFlag(w)
    BY <1>0, <2>4 DEF ClearFlag
  <2> QED BY <1>1, <2>1, <2>2, <2>3, <2>4 DEF apply_function
<1>2. CASE EffectLedSubmode(w)
    BY <1>0, <1>2 DEF EffectLedSubmode
<1>3. CASE EffectLedMode(w)
    BY <1>0, <1>3 DEF EffectLedMode
<1>4. CASE RebuildOk(w)
    BY <1>0, <1>4 DEF RebuildOk
<1>5. CASE RebuildFail(w)
    BY <1>0, <1>5 DEF RebuildFail, Failed
<1>6. CASE Handoff(w)
    BY <1>0, <1>6 DEF Handoff
<1>7. CASE HandoffStopped(w)
    BY <1>0, <1>7 DEF HandoffStopped
<1>8. CASE Enable(w)
    BY <1>0, <1>8 DEF Enable, Failed
<1>9. CASE ConfigureAdb(w)
    BY <1>0, <1>9 DEF ConfigureAdb, Configured
<1>10. CASE ConfigureRndis(w)
    BY <1>0, <1>10 DEF ConfigureRndis, Configured
<1>11. CASE ConfigureFail(w)
    BY <1>0, <1>11 DEF ConfigureFail, Failed
<1>12. CASE ProbeOk(w)
    BY <1>0, <1>12 DEF ProbeOk, Configured
<1>13. CASE fallback_to_gateway_mode(w)
    BY <1>0, <1>13 DEF fallback_to_gateway_mode, Configured
<1>14. CASE commit_mode(w)
    BY <1>0, <1>14 DEF commit_mode, CommitTarget
<1>15. CASE FinishApply(w)
    BY <1>0, <1>15 DEF FinishApply
<1>16. CASE handle_apply_failure(w)
    BY <1>0, <1>16 DEF handle_apply_failure
<1>17. CASE EndFailure(w)
    BY <1>0, <1>17 DEF EndFailure
<1> QED
    BY <1>1, <1>2, <1>3, <1>4, <1>5, <1>6, <1>7, <1>8, <1>9, <1>10, <1>11,
       <1>12, <1>13, <1>14, <1>15, <1>16, <1>17 DEF ApplyStep

\* The mainloop starts an apply only after the boot apply has ended.
LEMMA AnnouncedMainloop ==
    ASSUME TypeOK, LockInv, AnnouncedInv, MainloopStep
    PROVE  AnnouncedInv'
<1> USE DEF AnnouncedInv, LockInv, BootPending, Snapshotting, IdleWorker, selected,
        flags, lock, rebind, outcome, startup, loop, channels, WorkerRecords
<1>0. /\ workers \in [Workers -> WorkerRecords] /\ mode_changing \in BOOLEAN
      /\ submode_changed \in BOOLEAN /\ apply_done \in BOOLEAN
    BY DEF TypeOK, ApplyType, SelectionType, DisplayType
<1>1. CASE WakeInput
    BY <1>0, <1>1 DEF WakeInput, handle_events, RebindDue, Spawn
<1>2. CASE WakeIpc
    BY <1>0, <1>2 DEF WakeIpc, handle_events, RebindDue, Spawn
<1>3. CASE WakeRebind
    BY <1>0, <1>3 DEF WakeRebind, handle_events, RebindDue, Spawn
<1>4. CASE WakeTimer
    BY <1>0, <1>4 DEF WakeTimer, handle_events, RebindDue, Spawn
<1>5. CASE WakeStop
    BY <1>0, <1>5 DEF WakeStop
<1>6. CASE TapSubmode
    BY <1>0, <1>6 DEF TapSubmode, NextEvent
<1>7. CASE TapMode
    BY <1>0, <1>7 DEF TapMode, NextEvent
<1>8. CASE LongTap
    BY <1>0, <1>8 DEF LongTap, NextEvent
<1>9. CASE MultipleTap
    BY <1>0, <1>9 DEF MultipleTap, NextEvent
<1>10. CASE RequestMode
    BY <1>0, <1>10 DEF RequestMode, NextRequest
<1>11. CASE RequestSubmode
    BY <1>0, <1>11 DEF RequestSubmode, NextRequest
<1>12. CASE RequestNothing
    BY <1>0, <1>12 DEF RequestNothing, NextRequest
<1>13. CASE StartApply
    BY <1>0, <1>13 DEF StartApply, EventsHandled, ApplyDue, Spawn
<1>14. CASE ReturnToSelect
    BY <1>0, <1>14 DEF ReturnToSelect, EventsHandled
<1>15. CASE do_shutdown
    BY <1>0, <1>15 DEF do_shutdown
<1>16. CASE Exit
    BY <1>0, <1>16 DEF Exit
<1> QED
    BY <1>1, <1>2, <1>3, <1>4, <1>5, <1>6, <1>7, <1>8, <1>9, <1>10, <1>11,
       <1>12, <1>13, <1>14, <1>15, <1>16 DEF MainloopStep

\* The indication sets led_init_done and then looks at apply_done.
LEMMA AnnouncedOther ==
    ASSUME AnnouncedInv, led_init_indication \/ Environment \/ UNCHANGED vars
    PROVE  AnnouncedInv'
BY DEF AnnouncedInv, BootPending, Snapshotting, led_init_indication, InitBegin, InitLight,
   InitDim, InitDone, InitDisplay, Environment, Button, RequestGadget,
   SetTurnOffLeds, EntryElapse, Hold, LetGo, Stop, Elapse, vars, selected,
   flags, lock, rebind, outcome, startup, loop, channels

\* The first apply is announced before it ends.
THEOREM AnnouncedKept == ~EarlyInput => (Spec => []AnnouncedInv)
<1> SUFFICES ASSUME ~EarlyInput PROVE Spec => []AnnouncedInv
    OBVIOUS
<1>1. TypeOK /\ LockInv /\ AnnouncedInv /\ [Next]_vars => AnnouncedInv'
    BY AnnouncedMainloop, AnnouncedApply, AnnouncedOther DEF Next, Terminated
<1> QED
    BY AnnouncedInit, TypeCorrect, LockInvariant, <1>1, PTL DEF Spec

\* While the mainloop runs, the LEDs of other modes are off unless a change
\* waits (StartApply will turn them off) or the indication lights one.
OthersOff ==
    mainloop \in {"select", "handle"} /\ ~mode_changed =>
        \A j \in Leds : j # current_mode =>
            led[j] = "off" \/ (led_init = "lit" /\ j = led_init_i)

\* When all is quiet the LED of the current mode shows its submode.
CurrentShown ==
    (/\ Quiet /\ mainloop \in {"select", "handle"}
     /\ led_init = "done" /\ submode_entry_done
     /\ ~apply_error /\ ~turn_off_leds)
        => (current_mode \in Leds => led[current_mode] = submode_led_mode)

DisplayInv == OthersOff /\ CurrentShown

\* At boot all LEDs are off.
LEMMA DisplayInit == Init => DisplayInv
BY DEF Init, DisplayInv, OthersOff, CurrentShown

\* What display_mode_state leaves on the LEDs, with and without an error.
LEMMA Displayed ==
    ASSUME DisplayType, NEW error \in BOOLEAN, NEW j \in Leds
    PROVE  display_mode_state(error)[j] =
               IF error THEN "off"
               ELSE IF j # current_mode THEN led[j]
               ELSE IF turn_off_leds THEN "off" ELSE submode_led_mode
BY DEF DisplayType, display_mode_state, turn_off_all_leds, SetLed

\* What SetLed and turn_off_all_leds leave on the LEDs.
LEMMA LedsSet ==
    ASSUME NEW j \in Leds
    PROVE  /\ \A i, m : SetLed(i, m)[j] = IF j = i THEN m ELSE led[j]
           /\ turn_off_all_leds[j] = "off"
BY DEF SetLed, turn_off_all_leds

\* An apply goroutine writes no LED but the current mode's, except to turn all
\* off, and shows the state when it releases the lock.
LEMMA DisplayApply ==
    ASSUME TypeOK, LockInv, AnnouncedInv, DisplayInv,
           NEW w \in Workers, ApplyStep(w)
    PROVE  DisplayInv'
<1> USE DEF DisplayInv, OthersOff, CurrentShown, Quiet, LockInv, BootPending, Snapshotting,
        Goto, selected, flags, lock, rebind, outcome, startup, loop, channels
<1>0. /\ workers \in [Workers -> WorkerRecords] /\ mode_changing \in BOOLEAN
      /\ led \in [Leds -> LedModes] /\ apply_error \in BOOLEAN
      /\ DisplayType
    BY DEF TypeOK, ApplyType, DisplayType
<1>1. CASE apply_function(w)
  <2>1. CASE SnapshotMode(w)
    BY <1>0, <2>1 DEF SnapshotMode
  <2>2. CASE SnapshotSubmode(w)
    BY <1>0, <2>2 DEF SnapshotSubmode
  <2>3. CASE SnapshotFlag(w)
    BY <1>0, <2>3 DEF SnapshotFlag
  <2>4. CASE ClearFlag(w)
    BY <1>0, <2>4 DEF ClearFlag
  <2> QED BY <1>1, <2>1, <2>2, <2>3, <2>4 DEF apply_function
<1>2. CASE EffectLedSubmode(w)
  <2>1. mode_changing' /\ \A j \in Leds : j # current_mode => led'[j] = led[j]
    BY <1>0, <1>2, LedsSet DEF EffectLedSubmode
  <2> QED BY <1>2, <2>1 DEF EffectLedSubmode
<1>3. CASE EffectLedMode(w)
  <2>1. mode_changing' /\ \A j \in Leds : j # current_mode => led'[j] = led[j]
    BY <1>0, <1>3, LedsSet DEF EffectLedMode
  <2> QED BY <1>3, <2>1 DEF EffectLedMode
<1>4. CASE RebuildOk(w)
    BY <1>0, <1>4 DEF RebuildOk
<1>5. CASE RebuildFail(w)
    BY <1>0, <1>5 DEF RebuildFail, Failed
<1>6. CASE Handoff(w)
    BY <1>0, <1>6 DEF Handoff
<1>7. CASE HandoffStopped(w)
    BY <1>0, <1>7 DEF HandoffStopped
<1>8. CASE Enable(w)
    BY <1>0, <1>8 DEF Enable, Failed
<1>9. CASE ConfigureAdb(w)
    BY <1>0, <1>9 DEF ConfigureAdb, Configured
<1>10. CASE ConfigureRndis(w)
    BY <1>0, <1>10 DEF ConfigureRndis, Configured
<1>11. CASE ConfigureFail(w)
    BY <1>0, <1>11 DEF ConfigureFail, Failed
<1>12. CASE ProbeOk(w)
    BY <1>0, <1>12 DEF ProbeOk, Configured
<1>13. CASE fallback_to_gateway_mode(w)
    BY <1>0, <1>13 DEF fallback_to_gateway_mode, Configured
<1>14. CASE commit_mode(w)
    BY <1>0, <1>14 DEF commit_mode, CommitTarget
<1>15. CASE FinishApply(w)
  <2>1. UNCHANGED <<current_mode, mode_changed, submode_entry_done, mainloop,
                    led_init, led_init_i, led_init_done, turn_off_leds>>
    BY <1>15 DEF FinishApply
  <2>2. UNCHANGED <<submode, apply_error>> /\ submode_led_mode' = submode_led_mode
    BY <1>15 DEF FinishApply, submode_led_mode
  <2>3. CASE ~led_init_done /\ workers[w].job # "submode"
    BY <2>1, <2>3, <1>0, <1>15 DEF FinishApply, AnnouncedInv
  <2>4. CASE led_init_done \/ workers[w].job = "submode"
    <3>1. PICK error \in BOOLEAN : /\ led' = display_mode_state(error)
                                   /\ ~apply_error => ~error
      BY <1>0, <1>15, <2>4 DEF FinishApply
    <3>2. \A j \in Leds : j # current_mode => led'[j] \in {led[j], "off"}
      BY <1>0, <3>1, Displayed
    <3>3. ~apply_error /\ ~turn_off_leds /\ current_mode \in Leds
              => led'[current_mode] = submode_led_mode
      BY <1>0, <3>1, Displayed
    <3> QED BY <2>1, <2>2, <3>2, <3>3
  <2> QED BY <2>3, <2>4
<1>16. CASE handle_apply_failure(w)
  <2>1. mode_changing' /\ \A j \in Leds : led'[j] = "off"
    BY <1>0, <1>16, LedsSet DEF handle_apply_failure
  <2> QED BY <2>1
<1>17. CASE EndFailure(w)
  <2>1. UNCHANGED <<current_mode, mode_changed, submode_entry_done, mainloop,
                    led_init, led_init_i, led_init_done, turn_off_leds>>
    BY <1>17 DEF EndFailure
  <2>2. /\ apply_error' \in BOOLEAN
        /\ ~apply_error' => submode_led_mode' = submode_led_mode
    BY <1>17 DEF EndFailure, submode_led_mode
  <2>3. CASE ~led_init_done
    BY <2>1, <2>3, <1>0, <1>17 DEF EndFailure, AnnouncedInv
  <2>4. CASE led_init_done
    <3>1. led' = display_mode_state(apply_error')
      BY <1>17, <2>4 DEF EndFailure
    <3>2. \A j \in Leds : j # current_mode => led'[j] \in {led[j], "off"}
      BY <1>0, <2>2, <3>1, Displayed
    <3>3. ~apply_error' /\ ~turn_off_leds /\ current_mode \in Leds
              => led'[current_mode] = submode_led_mode
      BY <1>0, <2>2, <3>1, Displayed
    <3> QED BY <2>1, <2>2, <3>2, <3>3
  <2> QED BY <2>3, <2>4
<1> QED
    BY <1>1, <1>2, <1>3, <1>4, <1>5, <1>6, <1>7, <1>8, <1>9, <1>10, <1>11,
       <1>12, <1>13, <1>14, <1>15, <1>16, <1>17 DEF ApplyStep

\* The mainloop darkens all LEDs before an apply, darkens the current one after
\* a long tap, and shows the submode when the dark period is over.
LEMMA DisplayMainloop ==
    ASSUME TypeOK, LockInv, AnnouncedInv, DisplayInv, MainloopStep
    PROVE  DisplayInv'
<1> USE DEF DisplayInv, OthersOff, CurrentShown, Quiet, LockInv, BootPending, Snapshotting,
        submode_led_mode, selected, flags, lock, rebind, outcome, startup, loop,
        channels
<1>0. /\ workers \in [Workers -> WorkerRecords] /\ mode_changing \in BOOLEAN
      /\ led \in [Leds -> LedModes] /\ apply_error \in BOOLEAN
      /\ DisplayType
    BY DEF TypeOK, ApplyType, DisplayType
<1>1. CASE WakeInput
    BY <1>0, <1>1 DEF WakeInput, handle_events, RebindDue, Spawn
<1>2. CASE WakeIpc
    BY <1>0, <1>2 DEF WakeIpc, handle_events, RebindDue, Spawn
<1>3. CASE WakeRebind
    BY <1>0, <1>3 DEF WakeRebind, handle_events, RebindDue, Spawn
<1>4. CASE WakeTimer
    BY <1>0, <1>4 DEF WakeTimer, handle_events, RebindDue, Spawn
<1>5. CASE WakeStop
    BY <1>0, <1>5 DEF WakeStop
<1>6. CASE TapSubmode
    BY <1>0, <1>6 DEF TapSubmode, NextEvent
<1>7. CASE TapMode
    BY <1>0, <1>7 DEF TapMode, NextEvent
<1>8. CASE LongTap
  <2>1. ~submode_entry_done' /\ \A j \in Leds : j # current_mode => led'[j] = led[j]
    BY <1>0, <1>8, LedsSet DEF LongTap
  <2> QED BY <1>8, <2>1 DEF LongTap, NextEvent
<1>9. CASE MultipleTap
    BY <1>0, <1>9 DEF MultipleTap, NextEvent
<1>10. CASE RequestMode
    BY <1>0, <1>10 DEF RequestMode, NextRequest
<1>11. CASE RequestSubmode
    BY <1>0, <1>11 DEF RequestSubmode, NextRequest
<1>12. CASE RequestNothing
    BY <1>0, <1>12 DEF RequestNothing, NextRequest
<1>13. CASE StartApply
  <2>1. mode_changing' /\ \A j \in Leds : led'[j] = "off"
    BY <1>0, <1>13, LedsSet DEF StartApply
  <2> QED BY <2>1
<1>14. CASE ReturnToSelect
  <2>1. UNCHANGED <<current_mode, submode, mode_changed, mode_changing, workers,
                    apply_error, led_init, led_init_i, led_init_done,
                    turn_off_leds>>
    BY <1>14 DEF ReturnToSelect
  <2>2. mainloop = "handle"
    BY <1>14 DEF ReturnToSelect, EventsHandled
  <2>3. PICK over \in BOOLEAN :
            /\ submode_entry_done' = (submode_entry_done \/ over)
            /\ led' = IF over THEN SetLed(current_mode, submode_led_mode) ELSE led
    BY <1>14 DEF ReturnToSelect, EntryOver
  <2>4. \A j \in Leds : j # current_mode => led'[j] = led[j]
    BY <2>3, LedsSet
  <2>5. over /\ current_mode \in Leds => led'[current_mode] = submode_led_mode
    BY <2>3, LedsSet
  <2>6. ~over => led' = led /\ submode_entry_done' = submode_entry_done
    BY <2>3, <1>0 DEF TypeOK, SelectionType
  <2> QED BY <2>1, <2>2, <2>4, <2>5, <2>6
<1>15. CASE do_shutdown
    BY <1>0, <1>15 DEF do_shutdown
<1>16. CASE Exit
    BY <1>0, <1>16 DEF Exit
<1> QED
    BY <1>1, <1>2, <1>3, <1>4, <1>5, <1>6, <1>7, <1>8, <1>9, <1>10, <1>11,
       <1>12, <1>13, <1>14, <1>15, <1>16 DEF MainloopStep

\* The indication lights one LED at a time, which it darkens again, and then
\* shows the mode unless the first apply is still to do so; `ipc led` shows or
\* darkens the current LED; no dark period runs on a LED that shows a submode.
LEMMA DisplayOther ==
    ASSUME TypeOK, AnnouncedInv, DisplayInv,
           led_init_indication \/ Environment \/ UNCHANGED vars
    PROVE  DisplayInv'
<1> USE DEF DisplayInv, OthersOff, CurrentShown, Quiet, BootPending, Snapshotting,
        submode_led_mode, selected, flags, lock, rebind, outcome, startup, loop,
        channels
<1>0. /\ led \in [Leds -> LedModes] /\ apply_error \in BOOLEAN
      /\ DisplayType /\ led_init_i \in Nat
    BY LedsAssumption DEF TypeOK, ApplyType, DisplayType
<1>1. CASE InitBegin
  <2>1. led_init' # "done" /\ \A j \in Leds : led'[j] = "off"
    BY <1>1, LedsSet DEF InitBegin
  <2> QED BY <2>1
<1>2. CASE InitLight
  <2>1. led_init' # "done"
    BY <1>2 DEF InitLight
  <2>2. \A j \in Leds : j # led_init_i => led'[j] = led[j]
    BY <1>2, LedsSet DEF InitLight
  <2>3. led_init_i \in Leds => led_init' = "lit" /\ led_init_i' = led_init_i
    BY <1>2 DEF InitLight
  <2>4. led_init = "next" /\ UNCHANGED <<mainloop, mode_changed, current_mode>>
    BY <1>2 DEF InitLight
  <2> QED BY <2>1, <2>2, <2>3, <2>4
<1>3. CASE InitDim
  <2>1. led_init' # "done"
    BY <1>3 DEF InitDim
  <2>2. \A j \in Leds : led'[j] = IF j = led_init_i THEN "off" ELSE led[j]
    BY <1>3, LedsSet DEF InitDim
  <2>3. UNCHANGED <<mainloop, mode_changed, current_mode>>
    BY <1>3 DEF InitDim
  <2> QED BY <2>1, <2>2, <2>3
<1>4. CASE InitDone
    BY <1>4 DEF InitDone
<1>5. CASE InitDisplay
  <2>1. UNCHANGED <<mainloop, mode_changed, current_mode, submode, workers,
                    mode_changing, apply_error, turn_off_leds>>
    BY <1>5 DEF InitDisplay
  <2>2. led_init = "display"
    BY <1>5 DEF InitDisplay
  <2>3. CASE apply_done
    <3>1. led' = display_mode_state(apply_error)
      BY <1>5, <2>3 DEF InitDisplay
    <3>2. \A j \in Leds : j # current_mode => led'[j] \in {led[j], "off"}
      BY <1>0, <3>1, Displayed
    <3>3. ~apply_error /\ ~turn_off_leds /\ current_mode \in Leds
              => led'[current_mode] = submode_led_mode
      BY <1>0, <3>1, Displayed
    <3> QED BY <2>1, <2>2, <3>2, <3>3
  <2>4. CASE ~apply_done
    <3>1. led' = led
      BY <1>5, <2>4 DEF InitDisplay
    <3>2. mode_changing \/ BootPending
      BY <2>4 DEF AnnouncedInv
    <3> QED BY <2>1, <2>2, <3>1, <3>2
  <2> QED BY <2>3, <2>4
<1>6. ASSUME NEW off \in LedCommands, SetTurnOffLeds(off) PROVE DisplayInv'
  <2>1. UNCHANGED <<mainloop, mode_changed, current_mode, submode, workers,
                    mode_changing, apply_error, led_init, led_init_i>>
        /\ turn_off_leds' = off /\ off \in BOOLEAN
    BY <1>6, BoundsAssumption DEF SetTurnOffLeds
  <2>2. \A j \in Leds : j # current_mode => led'[j] \in {led[j], "off"}
    BY <1>6, LedsSet DEF SetTurnOffLeds
  <2>3. ~apply_error /\ ~off /\ current_mode \in Leds
            => led'[current_mode] = submode_led_mode
    BY <1>6, LedsSet DEF SetTurnOffLeds
  <2> QED BY <2>1, <2>2, <2>3
<1>7. ASSUME NEW i \in Leds, EntryElapse(i) PROVE DisplayInv'
  <2>1. UNCHANGED <<mainloop, mode_changed, current_mode, submode, workers,
                    mode_changing, apply_error, led_init, led_init_i,
                    submode_entry_done, turn_off_leds>>
    BY <1>7 DEF EntryElapse
  <2>2. led[i] = "entry" /\ \A j \in Leds : j # i => led'[j] = led[j]
    BY <1>7, LedsSet DEF EntryElapse
  <2>3. submode_led_mode \in {"on", "slow"}
    OBVIOUS
  <2> QED BY <2>1, <2>2, <2>3
<1>8. CASE \/ \E e \in Buttons : Button(e)
           \/ \E r \in Requests : RequestGadget(r)
           \/ Hold \/ LetGo \/ Stop \/ Elapse \/ UNCHANGED vars
    BY <1>8 DEF Button, RequestGadget, Hold, LetGo, Stop, Elapse, vars
<1> QED
    BY <1>1, <1>2, <1>3, <1>4, <1>5, <1>6, <1>7, <1>8
       DEF led_init_indication, Environment

\* The LEDs of other modes stay dark and the current one shows its submode.
THEOREM DisplayKept == ~EarlyInput => (Spec => []DisplayInv)
<1> SUFFICES ASSUME ~EarlyInput PROVE Spec => []DisplayInv
    OBVIOUS
<1>1. TypeOK /\ LockInv /\ AnnouncedInv /\ DisplayInv /\ [Next]_vars => DisplayInv'
    BY DisplayMainloop, DisplayApply, DisplayOther DEF Next, Terminated
<1> QED
    BY DisplayInit, TypeCorrect, LockInvariant, AnnouncedKept, <1>1, PTL DEF Spec

\* When all is quiet and the LEDs are not switched off, the LED of the current
\* mode shows its submode and every other LED is off, whatever the mainloop,
\* the applies, the indication and `ipc led` wrote in between.
THEOREM LedShows == ~EarlyInput => (Spec => []LedShowsMode)
<1> SUFFICES ASSUME ~EarlyInput PROVE Spec => []LedShowsMode
    OBVIOUS
<1>1. TypeOK /\ DisplayInv => LedShowsMode
  <2> SUFFICES ASSUME TypeOK, DisplayInv, Quiet, Running,
                      mainloop \in {"select", "handle"}, led_init = "done",
                      submode_entry_done, ~apply_error, ~turn_off_leds
               PROVE  led = [j \in Leds |-> IF j = current_mode
                                            THEN submode_led_mode ELSE "off"]
    BY DEF LedShowsMode
  <2>1. led \in [Leds -> LedModes]
    BY DEF TypeOK, DisplayType
  <2>2. \A j \in Leds : led[j] = IF j = current_mode THEN submode_led_mode ELSE "off"
    BY DEF DisplayInv, OthersOff, CurrentShown, Quiet
  <2> QED BY <2>1, <2>2
<1> QED
    BY TypeCorrect, DisplayKept, <1>1, PTL

=============================================================================
