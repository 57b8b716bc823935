--------------------------- MODULE SwitcherProofs ---------------------------
(* Why the promise of Switcher is worth implementing: at rest, what is      *)
(* selected and what works are the same.                                    *)
EXTENDS Switcher, TLAPS

\* What an attempt may still record, and what is selected while it is undone,
\* is the selected mode, unless a change waits.
AgreementInv ==
    /\ phase \in {"idle", "starting", "trying", "committed", "undoing"}
    /\ Agreement
    /\ phase = "trying" /\ ~waiting => inflight = {selected}
    /\ phase \in {"committed", "undoing"} /\ ~waiting => selected = good

\* At rest, with nothing waiting and no error, the selected mode is the one
\* that last worked: the argument behind ModeSwitch's SelectedIsCommitted
\* (commit_mode, rollback_mode), without goroutines and channels.
THEOREM SelectedAndGoodAgree == Spec => []Agreement
<1>1. Init => AgreementInv
    BY DEF Init, AgreementInv, Agreement
<1>2. AgreementInv /\ [Next]_svars => AgreementInv'
  <2> SUFFICES ASSUME AgreementInv, [Next]_svars PROVE AgreementInv'
    OBVIOUS
  <2> USE DEF AgreementInv, Agreement
  <2>1. CASE Select
    BY <2>1 DEF Select
  <2>2. CASE Start
    BY <2>2 DEF Start
  <2>3. CASE Snapshot
    BY <2>3 DEF Snapshot
  <2>4. CASE Commit
    BY <2>4 DEF Commit
  <2>5. CASE Undo
    BY <2>5 DEF Undo
  <2>6. CASE Finish
    BY <2>6 DEF Finish
  <2>7. CASE GiveUp
    BY <2>7 DEF GiveUp
  <2>8. CASE UNCHANGED svars
    BY <2>8 DEF svars
  <2> QED
    BY <2>1, <2>2, <2>3, <2>4, <2>5, <2>6, <2>7, <2>8 DEF Next
<1>3. AgreementInv => Agreement
    BY DEF AgreementInv
<1> QED
    BY <1>1, <1>2, <1>3, PTL DEF Spec

=============================================================================
