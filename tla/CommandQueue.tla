---------------------------- MODULE CommandQueue ----------------------------
(***************************************************************************)
(* How api.py gets a command to the stick: send_command() and the single   *)
(* slot _in_flight_command, the answers t0/t1 and tE, the bounded retry    *)
(* queue with its worker, and what a lost connection does to all of them.  *)
(*                                                                         *)
(* A command of an entity is a value asked for once, so that its fate can  *)
(* be told; Probe stands for the frames the api writes for itself ("!?",   *)
(* "hello", "sr", "sp").  `wire` is the stick's side: the frames it has    *)
(* not answered yet.                                                       *)
(***************************************************************************)
EXTENDS Naturals, Sequences, SequencesExt

CONSTANTS Cmd,          \* commands entities ask for
          Probe,        \* a frame of the api's own
          None,         \* Python's None
          Cap,          \* RETRY_QUEUE_CAP
          HalfDuplex,   \* TRUE: the stick answers a frame before the next one
                        \* is written, as the comment on t0/t1 takes for granted
          MaxWire       \* bound on unanswered frames when it does not

ASSUME CommandAssumption ==
    /\ Probe \notin Cmd /\ None \notin Cmd /\ Probe # None
    /\ Cap \in Nat \ {0} /\ MaxWire \in Nat \ {0} /\ HalfDuplex \in BOOLEAN

VARIABLES
    link,      \* "down", "connecting" (port open, connect() running) or "up"
    inflight,  \* _in_flight_command
    queue,     \* _retry_queue
    worker,    \* _retry_worker_task: "none", "waiting" in get(), "delaying"
    held,      \* the command the worker holds while it sleeps RETRY_DELAY
    wire,      \* frames the stick has not answered
    fate       \* history: what became of each command of an entity

vars == <<link, inflight, queue, worker, held, wire, fate>>

Frame == Cmd \cup {Probe}

TypeOK ==
    /\ link \in {"down", "connecting", "up"}
    /\ inflight \in Frame \cup {None}
    /\ queue \in Seq(Frame) /\ Len(queue) <= Cap
    /\ worker \in {"none", "waiting", "delaying"}
    /\ held \in Frame \cup {None}
    /\ wire \in Seq(Frame)
    /\ fate \in [Cmd -> {"unasked", "refused", "owed", "accepted",
                         "overflowed", "cut"}]

Init ==
    /\ link = "down" /\ inflight = None /\ queue = <<>>
    /\ worker = "none" /\ held = None /\ wire = <<>>
    /\ fate = [c \in Cmd |-> "unasked"]

-----------------------------------------------------------------------------
(* The stick is ready for one more frame; no code checks this. *)
WireFree == IF HalfDuplex THEN wire = <<>> ELSE Len(wire) < MaxWire

(* send_command() on an open port: remember, then write, in one step. *)
Write(f) == inflight' = f /\ wire' = Append(wire, f)

(* The same with track_retry=False. *)
WriteUntracked(f) == wire' = Append(wire, f) /\ UNCHANGED inflight

(* An entity calls send_command(); without a port the command is dropped. *)
Ask(c) ==
    /\ fate[c] = "unasked"
    /\ IF link = "down"
       THEN fate' = [fate EXCEPT ![c] = "refused"] /\ UNCHANGED <<inflight, wire>>
       ELSE WireFree /\ Write(c) /\ fate' = [fate EXCEPT ![c] = "owed"]
    /\ UNCHANGED <<link, queue, worker, held>>

(* connect() after verification, or the heartbeat. *)
SendProbe ==
    /\ link # "down" /\ WireFree /\ Write(Probe)
    /\ UNCHANGED <<link, queue, worker, held, fate>>

-----------------------------------------------------------------------------
(* Answers *)

(* t0 or t1. *)
ClearSlot_Forgotten == UNCHANGED inflight
ClearSlot == inflight' = None

Accept ==
    /\ wire # <<>> /\ Head(wire) \in Cmd
    /\ wire' = Tail(wire)
    /\ fate' = [fate EXCEPT ![Head(wire)] = "accepted"]
    /\ ClearSlot
    /\ UNCHANGED <<link, queue, worker, held>>

(* An answer of another kind (RFTU_, sr): the slot stays as it is. *)
ProbeAnswered ==
    /\ wire # <<>> /\ Head(wire) = Probe
    /\ wire' = Tail(wire)
    /\ UNCHANGED <<link, inflight, queue, worker, held, fate>>

(* tE: the command in the slot goes to the retry queue, or is dropped when *)
(* the queue is full.                                                      *)
Requeue_Unbounded ==
    /\ inflight' = None
    /\ queue' = IF inflight = None THEN queue ELSE Append(queue, inflight)
    /\ UNCHANGED fate

Requeue_KeepsNewest ==
    /\ inflight' = None /\ UNCHANGED fate
    /\ queue' = IF inflight = None THEN queue
                ELSE IF Len(queue) < Cap THEN Append(queue, inflight)
                ELSE Append(Tail(queue), inflight)

Requeue ==
    /\ inflight' = None
    /\ IF inflight = None
       THEN UNCHANGED <<queue, fate>>
       ELSE IF Len(queue) < Cap
       THEN queue' = Append(queue, inflight) /\ UNCHANGED fate
       ELSE /\ UNCHANGED queue
            /\ fate' = IF inflight \in Cmd
                       THEN [fate EXCEPT ![inflight] = "overflowed"] ELSE fate

Busy ==
    /\ wire # <<>>
    /\ wire' = Tail(wire)
    /\ Requeue
    /\ UNCHANGED <<link, worker, held>>

(* A tE that answers nothing. *)
LateBusy ==
    /\ link # "down" /\ wire = <<>>
    /\ Requeue
    /\ UNCHANGED <<link, worker, held, wire>>

-----------------------------------------------------------------------------
(* _retry_worker() *)

WorkerGet ==
    /\ worker = "waiting" /\ queue # <<>>
    /\ worker' = "delaying" /\ held' = Head(queue) /\ queue' = Tail(queue)
    /\ UNCHANGED <<link, inflight, wire, fate>>

WorkerSend ==
    /\ worker = "delaying" /\ WireFree
    /\ Write(held)
    /\ worker' = "waiting" /\ held' = None
    /\ UNCHANGED <<link, queue, fate>>

-----------------------------------------------------------------------------
(* The connection *)

(* update_connection_status(False) and the transport going away: the       *)
(* worker is cancelled and the queue drained, the slot is left alone.      *)
Drain_Skipped == UNCHANGED queue
Drain == queue' = <<>>

Loss ==
    /\ link # "down" /\ link' = "down"
    /\ worker' = "none" /\ held' = None /\ wire' = <<>>
    /\ Drain
    /\ fate' = [c \in Cmd |-> IF fate[c] = "owed" THEN "cut" ELSE fate[c]]
    /\ UNCHANGED inflight

(* connect() opens the port and verify_device() writes "!?" at once. *)
FirstWrite_Untracked == WriteUntracked(Probe)
FirstWrite == Write(Probe)

Reopen ==
    /\ link = "down" /\ link' = "connecting"
    /\ FirstWrite
    /\ UNCHANGED <<queue, worker, held, fate>>

StartWorker_Never == UNCHANGED worker
StartWorker == worker' = "waiting"

ConnectDone ==
    /\ link = "connecting" /\ link' = "up"
    /\ StartWorker
    /\ UNCHANGED <<inflight, queue, held, wire, fate>>

-----------------------------------------------------------------------------
Answer == Accept \/ ProbeAnswered \/ Busy

Next ==
    \/ \E c \in Cmd : Ask(c)
    \/ SendProbe \/ Answer \/ LateBusy
    \/ WorkerGet \/ WorkerSend
    \/ Loss \/ Reopen \/ ConnectDone

Spec == Init /\ [][Next]_vars

(* The loop runs the worker and lets connect() finish, and the stick       *)
(* answers.  Under HalfDuplex the stick answers within RETRY_DELAY, so the *)
(* end of the worker's sleep finds the wire free: hence strong fairness.   *)
Fairness ==
    /\ WF_vars(Answer) /\ WF_vars(WorkerGet) /\ SF_vars(WorkerSend)
    /\ WF_vars(ConnectDone)

FairSpec == Spec /\ Fairness

-----------------------------------------------------------------------------
Waiting == ToSet(queue) \cup {held}

(* No command asked for before a loss is transmitted after it (SC#2).  The *)
(* slot survives the loss; what protects it is that "!?" overwrites it     *)
(* before the new port can deliver a tE.                                   *)
NoReplayAcrossLoss ==
    \A c \in Cmd : fate[c] = "cut" => c \notin Waiting \cup ToSet(wire)

(* A late tE never sends a command again that the stick has accepted.      *)
AcceptedStaysDone == \A c \in Cmd : fate[c] = "accepted" => c \notin Waiting

(* A command the port took is on the wire, waiting for its retry, or known *)
(* to be accepted, overflowed or cut off by a loss: none just disappears.  *)
NothingLost == \A c \in Cmd : fate[c] = "owed" => c \in Waiting \cup ToSet(wire)

(* The commands that overflow are the newest: a command that has a place   *)
(* in the queue keeps it until the worker takes it or the link is lost.    *)
PlaceKept ==
    [][\A i \in 1..Len(queue) :
          \/ link' = "down"
          \/ i <= Len(queue') /\ queue'[i] = queue[i]
          \/ worker = "waiting" /\ worker' = "delaying"]_vars

(* The single slot and the worker that sleeps with a command in its hand   *)
(* come to a plain backlog: a tE brings back the very frame it answers, no *)
(* command is in two places, and the oldest is resent first.               *)
Backlog == IF held = None THEN queue ELSE <<held>> \o queue

Delivery == INSTANCE CommandDelivery WITH air <- wire, backlog <- Backlog

DeliverySpec == Delivery!Spec

(* The connection as StickConnection provides it. *)
Serial == INSTANCE PortLink

(* A command waiting for its retry is transmitted again, or the link is    *)
(* lost.                                                                   *)
RetryHappens ==
    \A c \in Cmd : c \in Waiting ~> c \in ToSet(wire) \/ fate[c] # "owed"
=============================================================================
