-------------------------------- MODULE Feed ---------------------------------
(***************************************************************************)
(* What the display of diald-top relies on: the messages of diald arrive   *)
(* one after the other, and each is shown once before the next one is      *)
(* begun.  On an undamaged line all of them are shown as they were sent    *)
(* but those of Misprinted, shown with something else in the place of a    *)
(* field.  A message of Unreadable is as good as damage on the line.       *)
(***************************************************************************)
CONSTANTS
    Kind,
    Misprinted,     \* messages the program shows, but not as they were sent
    Unreadable      \* messages its grammar has no rule for

VARIABLES
    msg,        \* the message being received
    shown,      \* what has become of it
    damaged

feedvars == <<msg, shown, damaged>>

(* What is shown of a whole message.                                       *)
Outcome(m) == IF m \in Misprinted THEN "garbled" ELSE "done"

FeedInit == msg \in Kind /\ shown = Outcome(msg) /\ damaged = FALSE

(* The next message; damage is repaired at the start of one, and none      *)
(* begins here but that of a message the program cannot read.              *)
Begin(m) ==
    /\ shown = Outcome(msg) \/ damaged
    /\ msg' = m
    /\ shown' = "coming"
    /\ damaged' \in BOOLEAN
    /\ m \in Unreadable => damaged'
    /\ damaged' => damaged \/ m \in Unreadable

Show ==
    /\ shown = "coming"
    /\ shown' = Outcome(msg)
    /\ UNCHANGED <<msg, damaged>>

Damage == damaged' = TRUE /\ UNCHANGED <<msg, shown>>

Garble ==
    /\ damaged
    /\ shown' = "garbled"
    /\ UNCHANGED <<msg, damaged>>

FeedNext == (\E m \in Kind : Begin(m)) \/ Show \/ Damage \/ Garble

FeedSpec == FeedInit /\ [][FeedNext]_feedvars
===============================================================================
