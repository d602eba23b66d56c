--------------------------- MODULE CommandDelivery --------------------------
(***************************************************************************)
(* What CommandQueue amounts to when the stick answers one frame before    *)
(* the next is written: an air that holds one frame, and a backlog of      *)
(* those the stick was too busy for, resent oldest first.  There is no     *)
(* slot to guess from and no worker: "busy" names its frame, a command is  *)
(* in one place at a time, is resent only after a "busy" of its own, and   *)
(* never once its fate is known.                                           *)
(***************************************************************************)
EXTENDS Naturals, Sequences

CONSTANTS Cmd, Probe, Cap

VARIABLES link,     \* "down", "connecting" or "up"
          air,      \* the frame the stick has not answered, or none
          backlog,  \* frames to be resent, the oldest first
          fate      \* what became of each command

vars == <<link, air, backlog, fate>>

Frame == Cmd \cup {Probe}

Init == /\ link = "down" /\ air = <<>> /\ backlog = <<>>
        /\ fate = [c \in Cmd |-> "unasked"]

Becomes(f, what) == fate' = [c \in Cmd |-> IF c = f THEN what ELSE fate[c]]

-----------------------------------------------------------------------------
Refuse(c) ==
    /\ fate[c] = "unasked" /\ link = "down"
    /\ Becomes(c, "refused") /\ UNCHANGED <<link, air, backlog>>

Send(c) ==
    /\ fate[c] = "unasked" /\ link # "down" /\ air = <<>>
    /\ air' = <<c>> /\ Becomes(c, "owed") /\ UNCHANGED <<link, backlog>>

SendProbe ==
    /\ link # "down" /\ air = <<>> /\ air' = <<Probe>>
    /\ UNCHANGED <<link, backlog, fate>>

(* The stick answers the frame f on the air. *)
Done(f) ==
    /\ air = <<f>> /\ air' = <<>> /\ UNCHANGED <<link, backlog>>
    /\ Becomes(f, "accepted")

Busy(f) ==
    /\ air = <<f>> /\ air' = <<>> /\ UNCHANGED link
    /\ \/ Len(backlog) <= Cap /\ backlog' = Append(backlog, f) /\ UNCHANGED fate
       \/ Len(backlog) >= Cap /\ UNCHANGED backlog /\ Becomes(f, "overflowed")

(* A "busy" that answers nothing can only bring back a probe. *)
Stray ==
    /\ link # "down" /\ air = <<>> /\ Len(backlog) <= Cap
    /\ backlog' = Append(backlog, Probe) /\ UNCHANGED <<link, air, fate>>

Resend ==
    /\ link = "up" /\ air = <<>> /\ backlog # <<>>
    /\ air' = <<Head(backlog)>> /\ backlog' = Tail(backlog)
    /\ UNCHANGED <<link, fate>>

(* A loss cuts off whatever was owed, on the air or waiting. *)
Loss ==
    /\ link # "down" /\ link' = "down" /\ air' = <<>> /\ backlog' = <<>>
    /\ fate' = [c \in Cmd |-> IF fate[c] = "owed" THEN "cut" ELSE fate[c]]

Reopen ==
    /\ link = "down" /\ link' = "connecting" /\ air' = <<Probe>>
    /\ UNCHANGED <<backlog, fate>>

Up == link = "connecting" /\ link' = "up" /\ UNCHANGED <<air, backlog, fate>>

-----------------------------------------------------------------------------
Next ==
    \/ \E c \in Cmd : Refuse(c) \/ Send(c)
    \/ \E f \in Frame : Done(f) \/ Busy(f)
    \/ SendProbe \/ Stray \/ Resend \/ Loss \/ Reopen \/ Up

Spec == Init /\ [][Next]_vars
=============================================================================
