-------------------------- MODULE MCRemoteRouting --------------------------
(* RemoteRouting for TLC. *)
EXTENDS RemoteRouting

CONSTANTS m1, m2, r, c1, c2

(* A remote of two channels, and the second motor's own status frames.     *)
Senders == {<<c1, r>>, <<c2, r>>, <<c1, m2>>}
RemoteSenders == {<<c1, r>>, <<c2, r>>}

(* The second motor is bound without an enum (before v1.4): it hears the   *)
(* other channel, and the first motor's when that motor is gone.           *)
Bindings == {[m \in {m1, m2} |-> IF m = m1 THEN <<c1, r>> ELSE <<None, r>>]}

(* config_flow.py, async_step_listen_second: "The new future instance      *)
(* cannot be resolved by any leftover frames of the first press".  Checked *)
(* with Hold, a button held for longer than REMOTE_DEDUP_WINDOW.           *)
LeftoversIgnored ==
    [][dialog = "second" /\ dialog' = "matched" => taken # first]_vars
=============================================================================
