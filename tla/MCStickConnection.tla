------------------------- MODULE MCStickConnection -------------------------
(***************************************************************************)
(* StickConnection for TLC.  Two connect() coroutines, so that a second    *)
(* one could overlap the first if the code let it; a backoff that          *)
(* saturates after two attempts; one command sent by an entity, enough to  *)
(* fall between two heartbeats.                                            *)
(***************************************************************************)
EXTENDS StickConnection

-----------------------------------------------------------------------------
(* What the documentation says and the code does not do *)

(* ARCHITECTURE.md: on SerialException/OSError _schedule_reconnect() is    *)
(* called, "which applies exponential backoff": a failed open leaves a     *)
(* reconnect armed.                                                        *)
OpenFailureRetried ==
    [][\A t \in Task : pc[t] = "opening" /\ pc'[t] = "free" /\ ~closed => handle']_vars

(* ARCHITECTURE.md: connection_lost funnels through _schedule_reconnect(): *)
(* a lost transport is followed by a new attempt.                          *)
EveryLossRetried == losses > 0 ~> closed \/ Opening \/ timers > 0
=============================================================================
