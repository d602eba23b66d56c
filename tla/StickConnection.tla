-------------------------- MODULE StickConnection --------------------------
(***************************************************************************)
(* The life of the serial link in api.py: the coroutine connect() with its *)
(* four suspension points, the transport and its connection_lost callback, *)
(* the reconnect timer, the heartbeat worker and disconnect().             *)
(*                                                                         *)
(* Everything runs on one asyncio loop, so an action is the code between   *)
(* two suspension points.  The loop itself is external and enters through  *)
(* two facts: ready callbacks run in FIFO order, and a callback queued     *)
(* with call_soon runs before a timer that has seconds left to run.        *)
(***************************************************************************)
EXTENDS Naturals

CONSTANTS Task,           \* connect() coroutine objects that may exist
          First,          \* the one async_setup_entry creates
          MissThreshold,  \* HEARTBEAT_MISS_THRESHOLD
          AttemptCap,     \* saturation of _reconnect_attempts: the delay is
                          \* min(5 * 2^n, 300), constant from some n on
          MaxSends        \* bound on the commands entities send

ASSUME TaskAssumption == First \in Task
ASSUME BoundAssumption ==
    /\ MissThreshold \in Nat \ {0}
    /\ AttemptCap \in Nat \ {0}
    /\ MaxSends \in Nat

VARIABLES
    transport,   \* _transport: "none", "open", or "closing" (is_closing())
    losses,      \* connection_lost callbacks queued by a closed transport
    closed,      \* _closed
    connecting,  \* _is_connecting
    connected,   \* _is_connected
    handle,      \* _reconnect_handle is not None
    timers,      \* reconnect timers alive in the loop
    attempts,    \* _reconnect_attempts, saturated
    pc,          \* where each connect() is suspended
    vfut,        \* _verify_future
    dfut,        \* _device_id_future
    listening,   \* _device_mode = "listening"
    heart,       \* _heartbeat_task (and _retry_worker_task, started with it)
    orphans,     \* worker tasks alive that the api no longer refers to
    miss,        \* miss_count of the heartbeat worker
    heard,       \* an inbound frame within HEARTBEAT_TRAFFIC_WINDOW
    said,        \* a stamp by a tracked send or by connect() within it
    frozen,      \* the stick keeps its port open but answers nothing
    sends        \* commands sent by entities, at most MaxSends

linkVars  == <<transport, losses, closed, connecting, connected>>
timerVars == <<handle, timers, attempts>>
taskVars  == <<pc, vfut, dfut, listening>>
heartVars == <<heart, orphans, miss>>
envVars   == <<heard, said, frozen, sends>>
vars == <<linkVars, timerVars, taskVars, heartVars, envVars>>

InFlight == {"opening", "verifying", "settling", "asking"}
Future   == {"none", "pending", "result", "failed"}

TypeOK ==
    /\ transport \in {"none", "open", "closing"}
    /\ losses \in Nat
    /\ closed \in BOOLEAN /\ connecting \in BOOLEAN /\ connected \in BOOLEAN
    /\ handle \in BOOLEAN /\ listening \in BOOLEAN
    /\ timers \in Nat
    /\ attempts \in 0..AttemptCap
    /\ pc \in [Task -> InFlight \cup {"free", "created"}]
    /\ vfut \in Future /\ dfut \in Future
    /\ heart \in {"none", "asleep", "probing"}
    /\ orphans \in Nat
    /\ miss \in 0..MissThreshold
    /\ heard \in BOOLEAN /\ said \in BOOLEAN /\ frozen \in BOOLEAN
    /\ sends \in 0..MaxSends

Init ==
    /\ transport = "none" /\ losses = 0
    /\ closed = FALSE /\ connecting = FALSE /\ connected = FALSE
    /\ handle = FALSE /\ timers = 0 /\ attempts = 0
    /\ pc = [t \in Task |-> IF t = First THEN "created" ELSE "free"]
    /\ vfut = "none" /\ dfut = "none" /\ listening = FALSE
    /\ heart = "none" /\ orphans = 0 /\ miss = 0
    /\ heard = FALSE /\ said = FALSE /\ frozen = FALSE /\ sends = 0

-----------------------------------------------------------------------------
(* Pieces shared by the handlers.  An operator named X_Y is X with a       *)
(* plausible slip, kept to show which property notices it.                 *)

(* _schedule_reconnect(), called when the api sees `armed` as its handle   *)
(* and `live` timers run in the loop.                                      *)
ScheduleReconnect_GivesUp(armed, live) ==
    IF closed \/ connecting \/ armed \/ attempts = AttemptCap
    THEN handle' = armed /\ timers' = live /\ UNCHANGED attempts
    ELSE handle' = TRUE /\ timers' = live + 1 /\ attempts' = attempts + 1

ScheduleReconnect(armed, live) ==
    IF closed \/ connecting \/ armed
    THEN handle' = armed /\ timers' = live /\ UNCHANGED attempts
    ELSE /\ handle' = TRUE /\ timers' = live + 1
         /\ attempts' = IF attempts < AttemptCap THEN attempts + 1 ELSE attempts

(* Timers left after update_connection_status(False) cancelled its handle. *)
TimersAfterCancel_NoCheck == timers - 1
TimersAfterCancel_NoCancel == timers
TimersAfterCancel == IF handle THEN timers - 1 ELSE timers

(* _safe_resolve_future(f, exception=...) *)
Fail_AsSuccess(future) == IF future = "pending" THEN "result" ELSE future
Fail(future) == IF future = "pending" THEN "failed" ELSE future

(* update_connection_status(False), but for the reconnect handle: the      *)
(* caller goes on to decide that.  Cancelling a worker inside its probe    *)
(* runs the `finally` of verify_device.                                    *)
LinkDown_KeepsWorkers ==
    /\ connected' = FALSE
    /\ vfut' = Fail(vfut) /\ dfut' = Fail(dfut)
    /\ UNCHANGED heartVars

LinkDown ==
    /\ connected' = FALSE
    /\ heart' = "none" /\ miss' = 0
    /\ vfut' = IF heart = "probing" THEN "none" ELSE Fail(vfut)
    /\ dfut' = Fail(dfut)
    /\ UNCHANGED orphans

(* connect() returns, through its `finally`. *)
Return_KeepsFlag(t) == UNCHANGED connecting /\ pc' = [pc EXCEPT ![t] = "free"]
Return(t) == connecting' = FALSE /\ pc' = [pc EXCEPT ![t] = "free"]

(* transport.close() and `_transport = None`: closing an open transport    *)
(* queues its connection_lost, closing one already closing does nothing.   *)
CloseTransport ==
    /\ transport' = "none"
    /\ losses' = IF transport = "open" THEN losses + 1 ELSE losses

-----------------------------------------------------------------------------
(* connect() *)

ConnectGuard_NoLatch == ~connecting /\ transport # "open"
ConnectGuard == ~closed /\ ~connecting /\ transport # "open"

ConnectBegin(t) ==
    /\ pc[t] = "created"
    /\ IF ConnectGuard
       THEN connecting' = TRUE /\ pc' = [pc EXCEPT ![t] = "opening"]
       ELSE UNCHANGED connecting /\ pc' = [pc EXCEPT ![t] = "free"]
    /\ UNCHANGED <<transport, losses, closed, connected, timerVars, vfut, dfut,
                   listening, heartVars, envVars>>

(* create_serial_connection raised: the handler calls _schedule_reconnect  *)
(* and only then does `finally` clear _is_connecting.                      *)
OpenFails(t) ==
    /\ pc[t] = "opening"
    /\ ScheduleReconnect(handle, timers)
    /\ Return(t)
    /\ UNCHANGED <<transport, losses, closed, connected, vfut, dfut, listening,
                   heartVars, envVars>>

(* The port is open; verify_device() sends "!?" and suspends. *)
OpenSucceeds(t) ==
    /\ pc[t] = "opening"
    /\ transport' = "open"
    /\ vfut' = "pending" /\ said' = TRUE
    /\ pc' = [pc EXCEPT ![t] = "verifying"]
    /\ UNCHANGED <<losses, closed, connecting, connected, timerVars, dfut,
                   listening, heartVars, heard, frozen, sends>>

(* Timeout of VERIFY_TIMEOUT, or the future failed on a loss. *)
VerifyFails(t) ==
    /\ pc[t] = "verifying" /\ vfut \in {"pending", "failed"}
    /\ vfut' = "none"
    /\ CloseTransport
    /\ connected' = FALSE
    /\ Return(t)
    /\ UNCHANGED <<closed, timerVars, dfut, listening, heartVars, envVars>>

(* send_command(): the stamp is made only if the port took the command. *)
StampSend == said' = (said \/ transport = "open")

(* get_device_id() up to its suspension. *)
AskDeviceId(t) == dfut' = "pending" /\ pc' = [pc EXCEPT ![t] = "asking"]

VerifyPasses(t) ==
    /\ pc[t] = "verifying" /\ vfut = "result"
    /\ vfut' = "none"
    /\ connected' = TRUE
    /\ StampSend
    /\ IF listening
       THEN AskDeviceId(t)
       ELSE pc' = [pc EXCEPT ![t] = "settling"] /\ UNCHANGED dfut
    /\ UNCHANGED <<transport, losses, closed, connecting, timerVars, listening,
                   heartVars, heard, frozen, sends>>

(* The 0.5 s sleep after "hello" is over. *)
Settled(t) ==
    /\ pc[t] = "settling"
    /\ listening' = TRUE
    /\ StampSend
    /\ AskDeviceId(t)
    /\ UNCHANGED <<linkVars, timerVars, vfut, heartVars, heard, frozen, sends>>

(* get_device_id() returned, with an id, by timeout or by a loss: connect  *)
(* resets the backoff and starts the workers whatever the link became.     *)
ConnectDone(t) ==
    /\ pc[t] = "asking" /\ dfut # "none"
    /\ dfut' = "none"
    /\ attempts' = 0 /\ handle' = FALSE /\ UNCHANGED timers
    /\ said' = TRUE
    /\ orphans' = IF heart = "none" THEN orphans ELSE orphans + 1
    /\ heart' = "asleep" /\ miss' = 0
    /\ Return(t)
    /\ UNCHANGED <<transport, losses, closed, connected, vfut, listening,
                   heard, frozen, sends>>

-----------------------------------------------------------------------------
(* The transport, the reconnect timer and teardown *)

(* Unplug, I/O error or driver drop: the transport closes itself. *)
Unplug ==
    /\ transport = "open"
    /\ transport' = "closing" /\ losses' = losses + 1
    /\ UNCHANGED <<closed, connecting, connected, timerVars, taskVars,
                   heartVars, envVars>>

(* connection_lost().  A frame read before the transport closed has woken  *)
(* its coroutine first.                                                    *)
ConnectionLost ==
    /\ losses > 0 /\ vfut # "result" /\ dfut # "result"
    /\ losses' = losses - 1
    /\ LinkDown
    /\ transport' = "none"
    /\ ScheduleReconnect(FALSE, TimersAfterCancel)
    /\ UNCHANGED <<closed, connecting, pc, listening, envVars>>

(* The delay of _compute_reconnect_delay() is at least 2.5 s, so when it   *)
(* is over no connection_lost is still queued.                             *)
ReconnectDue_AtOnce == timers > 0
ReconnectDue == timers > 0 /\ losses = 0

(* _reconnect_fire() *)
ReconnectFire ==
    /\ ReconnectDue
    /\ timers' = timers - 1 /\ handle' = FALSE
    /\ \E t \in Task : pc[t] = "free" /\ pc' = [pc EXCEPT ![t] = "created"]
    /\ UNCHANGED <<linkVars, attempts, vfut, dfut, listening, heartVars, envVars>>

Disconnect ==
    /\ ~closed
    /\ closed' = TRUE
    /\ LinkDown
    /\ handle' = FALSE /\ timers' = TimersAfterCancel
    /\ CloseTransport
    /\ UNCHANGED <<connecting, attempts, pc, listening, envVars>>

-----------------------------------------------------------------------------
(* Inbound frames (_handle_message) *)

Inbound == transport = "open" /\ ~frozen /\ heard' = TRUE

(* An RFTU_ line: the reported boot mode is never "listening". *)
VerifyFrame ==
    /\ Inbound
    /\ vfut' = IF vfut = "pending" THEN "result" ELSE vfut
    /\ listening' = FALSE
    /\ UNCHANGED <<linkVars, timerVars, pc, dfut, heartVars, said, frozen, sends>>

(* An sr line. *)
DeviceIdFrame ==
    /\ Inbound
    /\ dfut' = IF dfut = "pending" THEN "result" ELSE dfut
    /\ UNCHANGED <<linkVars, timerVars, pc, vfut, listening, heartVars, said,
                   frozen, sends>>

(* Any other line. *)
OtherFrame ==
    /\ Inbound
    /\ UNCHANGED <<linkVars, timerVars, taskVars, heartVars, said, frozen, sends>>

(* A command of an entity reaches send_command(). *)
EntitySend ==
    /\ sends < MaxSends /\ sends' = sends + 1
    /\ StampSend
    /\ UNCHANGED <<linkVars, timerVars, taskVars, heartVars, heard, frozen>>

-----------------------------------------------------------------------------
(* The heartbeat worker wakes after HEARTBEAT_INTERVAL *)

HeartAwake == heart = "asleep" /\ connected /\ ~connecting

HeartSkips ==
    /\ HeartAwake /\ (heard \/ said)
    /\ miss' = 0
    /\ UNCHANGED <<linkVars, timerVars, taskVars, heart, orphans, envVars>>

(* The probe is exempt from the stamp of outbound traffic. *)
HeartProbes_Stamped ==
    /\ HeartAwake /\ ~heard /\ ~said
    /\ heart' = "probing" /\ vfut' = "pending" /\ said' = TRUE
    /\ UNCHANGED <<linkVars, timerVars, pc, dfut, listening, orphans, miss,
                   heard, frozen, sends>>

HeartProbes ==
    /\ HeartAwake /\ ~heard /\ ~said
    /\ heart' = "probing" /\ vfut' = "pending"
    /\ UNCHANGED <<linkVars, timerVars, pc, dfut, listening, orphans, miss, envVars>>

HeartAnswered ==
    /\ heart = "probing" /\ vfut = "result"
    /\ heart' = "asleep" /\ miss' = 0 /\ vfut' = "none"
    /\ UNCHANGED <<linkVars, timerVars, pc, dfut, listening, orphans, envVars>>

HeartMisses ==
    /\ heart = "probing" /\ vfut \in {"pending", "failed"}
    /\ miss + 1 < MissThreshold
    /\ heart' = "asleep" /\ miss' = miss + 1 /\ vfut' = "none"
    /\ UNCHANGED <<linkVars, timerVars, pc, dfut, listening, orphans, envVars>>

(* The last tolerated miss: tear the link down and close the port. *)
HeartFrozen ==
    /\ heart = "probing" /\ vfut \in {"pending", "failed"}
    /\ miss + 1 >= MissThreshold
    /\ LinkDown
    /\ CloseTransport
    /\ ScheduleReconnect(FALSE, TimersAfterCancel)
    /\ UNCHANGED <<closed, connecting, pc, listening, envVars>>

-----------------------------------------------------------------------------
(* The environment *)

Freeze == ~frozen /\ frozen' = TRUE
          /\ UNCHANGED <<linkVars, timerVars, taskVars, heartVars, heard, said, sends>>

Thaw == frozen /\ frozen' = FALSE
        /\ UNCHANGED <<linkVars, timerVars, taskVars, heartVars, heard, said, sends>>

(* HEARTBEAT_TRAFFIC_WINDOW passes without a frame in that direction. *)
WindowPasses ==
    /\ \/ heard /\ heard' = FALSE /\ UNCHANGED said
       \/ said /\ said' = FALSE /\ UNCHANGED heard
    /\ UNCHANGED <<linkVars, timerVars, taskVars, heartVars, frozen, sends>>

-----------------------------------------------------------------------------
OpenReturns(t) == OpenFails(t) \/ OpenSucceeds(t)
VerifyReturns(t) == VerifyFails(t) \/ VerifyPasses(t)

Connect(t) == \/ ConnectBegin(t) \/ OpenReturns(t) \/ VerifyReturns(t)
              \/ Settled(t) \/ ConnectDone(t)

Heartbeat == \/ HeartSkips \/ HeartProbes \/ HeartAnswered
             \/ HeartMisses \/ HeartFrozen

Next == \/ \E t \in Task : Connect(t)
        \/ Unplug \/ ConnectionLost \/ ReconnectFire \/ Disconnect
        \/ VerifyFrame \/ DeviceIdFrame \/ OtherFrame \/ EntitySend
        \/ Heartbeat
        \/ Freeze \/ Thaw \/ WindowPasses

Spec == Init /\ [][Next]_vars

(* The loop runs every ready coroutine, callback and due timer, and time   *)
(* passes.  Nothing is assumed of the stick, the user or Home Assistant.   *)
Fairness ==
    /\ \A t \in Task : WF_vars(Connect(t))
    /\ WF_vars(ConnectionLost)
    /\ WF_vars(ReconnectFire)
    /\ WF_vars(Heartbeat)
    /\ WF_vars(WindowPasses)

FairSpec == Spec /\ Fairness

-----------------------------------------------------------------------------
(* Safety *)

(* A connection_lost still queued never belongs to a transport older than  *)
(* the one the api holds, so it cannot tear down a newer link (the claim   *)
(* api.py makes where connect() clears _local_close_reason).               *)
NoStaleLoss == losses <= 1 /\ (losses = 1 => transport # "open")

(* The reconnect timers alive in the loop are exactly the one the api can  *)
(* still cancel, and none is armed beside a link or a running connect().   *)
OneTimer ==
    /\ timers = IF handle THEN 1 ELSE 0
    /\ timers > 0 => /\ transport = "none" /\ ~connected /\ heart = "none"
                     /\ \A t \in Task : pc[t] = "free"

(* At most one connect() is past its guard, at most one worker pair lives, *)
(* and the two never overlap: a reconnect always finds the old workers     *)
(* cancelled.                                                              *)
NoOverlap ==
    /\ orphans = 0
    /\ \A t \in Task : pc[t] \in InFlight =>
           heart = "none" /\ \A u \in Task \ {t} : pc[u] = "free"

(* Until teardown, "connected" is only ever shown over a transport.        *)
ConnectedHasPort == connected /\ ~closed => transport # "none"

(* The refusals "already in progress" of verify_device and get_device_id   *)
(* are never taken: whoever is about to wait finds no pending future, so   *)
(* no probe is counted as missed for another's sake.                       *)
NoRefusedWait ==
    /\ (\E t \in Task : pc[t] = "opening") \/ heart = "asleep" => vfut = "none"
    /\ (\E t \in Task : pc[t] \in {"verifying", "settling"}) => dfut = "none"

(* Teardown is final for everything that has not started: after            *)
(* disconnect() no attempt begins and no timer is armed.                   *)
ClosedStaysQuiet ==
    [][closed => /\ timers' = 0 /\ ~handle'
                 /\ \A t \in Task : pc'[t] = "opening" => pc[t] = "opening"]_vars

(* Entities see the link of StickLink. *)
Link == INSTANCE StickLink WITH
    phase <- IF connected THEN "up" ELSE IF connecting THEN "trying" ELSE "idle",
    torn  <- closed

(* The retry queue sees the port of PortLink: none is opened over another, *)
(* and a link that rests is one whose connect() has returned.              *)
Serial == INSTANCE PortLink WITH
    link <- IF transport # "open" THEN "down" ELSE IF connecting THEN "connecting" ELSE "up"

LinkSpec == Link!Spec /\ Serial!Spec

-----------------------------------------------------------------------------
(* Liveness, under FairSpec *)

Opening == \E t \in Task : pc[t] = "opening"

(* A transport lost while no connect() is running (an established link, a  *)
(* failed verification, a frozen stick) leads to a new attempt.            *)
LossRetried == losses > 0 /\ ~connecting ~> closed \/ Opening

(* A stick that stays frozen under an established link is found out once   *)
(* entities stop sending.                                                  *)
FrozenDetected == frozen /\ connected /\ ~connecting ~> ~frozen \/ ~connected

(* connect() always returns and clears _is_connecting, whatever is lost    *)
(* meanwhile.                                                              *)
ConnectReturns == connecting ~> ~connecting

=============================================================================
