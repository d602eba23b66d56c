------------------------------ MODULE PortLink ------------------------------
(***************************************************************************)
(* Where StickConnection and CommandQueue meet: the port opens only while  *)
(* none is open, connect() finishes over it, and it may go at any moment.  *)
(* StickConnection implements this, and nothing else of the connection is  *)
(* assumed by CommandQueue.                                                *)
(***************************************************************************)
VARIABLE link  \* "down", "connecting" (port open, connect() running) or "up"

Init == link = "down"

Opens == link = "down" /\ link' = "connecting"

Ready == link = "connecting" /\ link' = "up"

Lost == link # "down" /\ link' = "down"

Next == Opens \/ Ready \/ Lost

Spec == Init /\ [][Next]_link
=============================================================================
