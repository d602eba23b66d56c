----------------------------- MODULE StickLink -----------------------------
(***************************************************************************)
(* What the entities of the integration may rely on about the USB stick,   *)
(* seen from SIGNAL_STICK_STATUS_UPDATED: `is_connected` goes up only at   *)
(* the end of an attempt, an attempt begins only while nothing else is up  *)
(* or under way, and never after teardown.  StickConnection implements it. *)
(***************************************************************************)
VARIABLES phase,   \* "idle", "trying" (an attempt under way) or "up"
          torn     \* disconnect() has been called

vars == <<phase, torn>>

TypeOK == phase \in {"idle", "trying", "up"} /\ torn \in BOOLEAN

Init == phase = "idle" /\ torn = FALSE

(* An attempt begins: only from rest, and never after teardown. *)
Try == phase = "idle" /\ ~torn /\ phase' = "trying" /\ UNCHANGED torn

(* The stick answered the verification of the attempt under way. *)
Verified == phase = "trying" /\ phase' = "up" /\ UNCHANGED torn

(* The attempt ends without a link. *)
GiveUp == phase = "trying" /\ phase' = "idle" /\ UNCHANGED torn

(* The link drops; the attempt that raised it may still be finishing. *)
Drop == phase = "up" /\ phase' \in {"idle", "trying"} /\ UNCHANGED torn

(* Teardown: the link drops with it, an attempt under way is not recalled. *)
Teardown ==
    /\ ~torn /\ torn' = TRUE
    /\ IF phase = "up" THEN phase' \in {"idle", "trying"} ELSE UNCHANGED phase

Next == Try \/ Verified \/ GiveUp \/ Drop \/ Teardown

Spec == Init /\ [][Next]_vars
=============================================================================
