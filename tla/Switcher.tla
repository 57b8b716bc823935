------------------------------ MODULE Switcher ------------------------------
(***************************************************************************)
(* What the mode switch of the daemon promises, without goroutines,        *)
(* channels, LEDs and the controller: one attempt at a time, which tries   *)
(* the mode that was selected when it began and ends in one of three ways. *)
(* It is recorded as good, it is undone by selecting the last good mode    *)
(* again, or an error stays.  ModeSwitch implements this specification.    *)
(***************************************************************************)
CONSTANTS
    Modes,   \* the configured modes
    Boot     \* the mode that the daemon starts with

VARIABLES
    selected,   \* the mode the user asked for last, or the one restored
    waiting,    \* a change has been asked for and no attempt has taken it
    phase,      \* where the attempt in flight is
    inflight,   \* the mode it tries, if it is trying one
    good,       \* the mode that last worked
    error       \* the last attempt failed and could not be undone

svars == <<selected, waiting, phase, inflight, good, error>>

Init ==
    /\ selected = Boot /\ good = Boot
    /\ waiting = FALSE /\ error = FALSE
    /\ phase = "starting" /\ inflight = {}

\* The user selects a mode, at any time; the same mode again is a reapply or
\* another submode of it.
Select ==
    /\ selected' \in Modes
    /\ waiting' = TRUE
    /\ UNCHANGED <<phase, inflight, good, error>>

\* An attempt begins when a change waits and no attempt is in flight.
Start ==
    /\ phase = "idle" /\ waiting
    /\ phase' = "starting"
    /\ waiting' = FALSE
    /\ UNCHANGED <<selected, inflight, good, error>>

\* It tries what is selected now.
Snapshot ==
    /\ phase = "starting"
    /\ phase' = "trying"
    /\ inflight' = {selected}
    /\ UNCHANGED <<selected, waiting, good, error>>

\* It worked: what was tried is good, whatever is selected by now.
Commit ==
    /\ phase = "trying"
    /\ phase' = "committed"
    /\ inflight = {good'} /\ inflight' = {}
    /\ error' = FALSE
    /\ UNCHANGED <<selected, waiting>>

\* It failed: the last good mode is selected and tried again.
Undo ==
    /\ phase = "trying"
    /\ phase' = "undoing"
    /\ selected' = good
    /\ inflight' = {}
    /\ UNCHANGED <<waiting, good, error>>

\* The attempt is over, with the good mode in place.
Finish ==
    /\ phase \in {"committed", "undoing"}
    /\ phase' = "idle"
    /\ error' = IF phase = "undoing" THEN FALSE ELSE error
    /\ UNCHANGED <<selected, waiting, inflight, good>>

\* The attempt is over, and nothing works.
GiveUp ==
    /\ phase \in {"trying", "undoing"}
    /\ phase' = "idle"
    /\ inflight' = {}
    /\ error' = TRUE
    /\ UNCHANGED <<selected, waiting, good>>

Next == Select \/ Start \/ Snapshot \/ Commit \/ Undo \/ Finish \/ GiveUp

Spec == Init /\ [][Next]_svars

-----------------------------------------------------------------------------
\* At rest, with nothing waiting and no error, the selected mode is the good one.
Agreement == phase = "idle" /\ ~waiting /\ ~error => selected = good

=============================================================================
