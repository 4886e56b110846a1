------------------------ MODULE CorrectionsTracker ------------------------
(***************************************************************************)
(* The corrections_tracker of common/, which the clients of all three      *)
(* versions of the game drive: one line of its file per tick.              *)
(***************************************************************************)
EXTENDS Integers

\* tick, totalCorrections and totalTicksNoUpdates count; the two loop
\* variables are booleans.  perTick is the sum of the column of the file the
\* second of them is written to.
Tracker == [tick : Nat, total : Nat, noUpdates : Nat,
            updates : BOOLEAN, corrections : BOOLEAN, perTick : Nat]
NewTracker == [tick |-> 0, total |-> 0, noUpdates |-> 0,
               updates |-> FALSE, corrections |-> FALSE, perTick |-> 0]

UpdatesReceivedInTick(t) == [t EXCEPT !.updates = TRUE]

\* One added to a boolean is TRUE, however often.
CorrectionMade(t) == [t EXCEPT !.corrections = TRUE, !.total = @ + 1]

WriteLine(t) ==
    [t EXCEPT !.tick = @ + 1,
              !.noUpdates = @ + (IF t.updates THEN 0 ELSE 1),
              !.perTick = @ + (IF t.corrections THEN 1 ELSE 0),
              !.updates = FALSE, !.corrections = FALSE]
=============================================================================
