-------------------------- MODULE MCRemoteRegistry -------------------------
(***************************************************************************)
(* RemoteRegistry for TLC.  Every way to bind three motors, one of them    *)
(* bidirectional, to the channels of one remote and its enum-agnostic key; *)
(* two dialogs at once may have bound one channel twice.                   *)
(***************************************************************************)
EXTENDS RemoteRegistry

Bindings == [Motor -> Key \cup {None}]
=============================================================================
