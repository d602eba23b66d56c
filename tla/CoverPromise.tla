---------------------------- MODULE CoverPromise ----------------------------
(***************************************************************************)
(* What Home Assistant may rely on about the position of a cover, whatever *)
(* loops, frames and timers stand behind it: a move counts one interval at *)
(* a time in its own direction and never past its target, and ends exactly *)
(* at the target, exactly at the end stop, or where it was stopped.        *)
(* CoverTracking implements it when nobody overrules a set-position.       *)
(***************************************************************************)
EXTENDS Integers

CONSTANTS Top, None

VARIABLES reports,  \* the motor says when it starts and stops
          here,     \* the entity is added to Home Assistant
          dir,      \* "no", "opening" or "closing"
          pos,      \* the position
          target,   \* of a set-position under way, or None
          steady    \* FALSE once a calibration has set the position in mid-move

vars == <<reports, here, dir, pos, target, steady>>

Pos == 0..Top

Init ==
    /\ reports \in BOOLEAN /\ here = TRUE /\ dir = "no"
    /\ pos \in Pos /\ target = None /\ steady = TRUE

Ahead(d, p, t) == IF d = "opening" THEN p < t ELSE t < p
EndOf(d) == IF d = "opening" THEN Top ELSE 0

(* At most one interval further. *)
Within(p) == steady => p = pos \/ p = (IF dir = "opening" THEN pos + 1 ELSE pos - 1)

-----------------------------------------------------------------------------
(* A move begins, or turns round; a target lies in its direction. *)
Begin(d, t) ==
    /\ here /\ (t # None => Ahead(d, pos, t))
    /\ dir' = d /\ target' = t /\ steady' = TRUE
    /\ UNCHANGED <<reports, here, pos>>

Counts ==
    /\ dir # "no" /\ pos' \in Pos /\ Within(pos')
    /\ target # None => Ahead(dir, pos', target)
    /\ steady' = TRUE /\ UNCHANGED <<reports, here, dir, target>>

Ends == dir # "no" /\ dir' = "no" /\ target' = None /\ steady' = TRUE /\ UNCHANGED reports

(* A motor that reports its stop is taken to be at the target. *)
Arrives ==
    /\ target # None /\ pos' = target /\ (reports \/ Within(target))
    /\ Ends /\ UNCHANGED here

AtEndStop ==
    /\ target = None /\ pos' = EndOf(dir) /\ Within(pos')
    /\ Ends /\ UNCHANGED here

Stopped ==
    /\ pos' \in Pos /\ Within(pos')
    /\ target # None => pos' = target \/ Ahead(dir, pos', target)
    /\ Ends /\ UNCHANGED here

-----------------------------------------------------------------------------
(* A calibration ends at the motor's last end stop. *)
Recalibrated ==
    /\ here /\ pos' = (IF reports THEN 0 ELSE Top)
    /\ steady' \in BOOLEAN /\ (dir = "no" => steady')
    /\ UNCHANGED <<reports, here, dir, target>>

(* The count has caught up with it. *)
Settles == ~steady /\ steady' = TRUE /\ UNCHANGED <<reports, here, dir, pos, target>>

Gone ==
    /\ here /\ here' = FALSE
    /\ dir' = "no" /\ target' = None /\ steady' = TRUE /\ UNCHANGED <<reports, pos>>

Back ==
    /\ ~here /\ here' = TRUE /\ pos' \in Pos
    /\ UNCHANGED <<reports, dir, target, steady>>

Next ==
    \/ \E d \in {"opening", "closing"}, t \in Pos \cup {None} : Begin(d, t)
    \/ Counts \/ Arrives \/ AtEndStop \/ Stopped
    \/ Recalibrated \/ Settles \/ Gone \/ Back

Spec == Init /\ [][Next]_vars
=============================================================================
