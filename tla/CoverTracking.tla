---------------------------- MODULE CoverTracking ----------------------------
(***************************************************************************)
(* One cover entity and its motor: cover_entity.py with the position math  *)
(* of cover_position.py, against the shutter it cannot see.                *)
(*                                                                         *)
(* Time advances by one interval of the tracking loop, in which a motor    *)
(* with the calibrated travel time moves by one unit of position.  What    *)
(* happens between two intervals happens in any order.                     *)
(***************************************************************************)
EXTENDS Integers, Sequences

CONSTANTS Top,       \* position 100
          LoopId,    \* tracking loops that may be alive at once
          None,      \* Python's None
          Lost,      \* no bound on the error of the position is known
          MaxSteps,  \* bound on what users, radio and Home Assistant do
          Overlap    \* TRUE: a wall switch or a remote may be used during a
                     \* set-position move, and set-position during a start or stop

ASSUME CoverAssumption ==
    /\ Top \in Nat \ {0, 1} /\ None \notin 0..Top /\ None \notin LoopId /\ LoopId # {}
    /\ None \notin [from : 0..Top, since : 0..Top, by : {"ha", "press"}]
    /\ Lost \notin Nat /\ MaxSteps \in Nat /\ Overlap \in BOOLEAN

VARIABLES
    bidir,       \* _is_bidirectional
    calibrated,  \* _is_calibrated
    added,       \* the entity is added to Home Assistant
    pos,         \* _attr_current_cover_position, a number once added
    moving,      \* _attr_is_opening, _attr_is_closing: at most one is set
    move,        \* _move_start_position, the time since _move_start_time
                 \* and who started the move
    target,      \* _target_position
    loop,        \* the tasks of _async_position_update_loop
    handle,      \* _position_update_task
    shown,       \* the state last written to Home Assistant
    up,          \* api.is_connected
    mpos, mdir,  \* the shutter: its position and what its motor does
    events,      \* frames of a bidirectional motor under way
    slack,       \* history: bound on |pos - mpos|
    goal,        \* history: where the last command leads, if nothing interferes
    steps        \* at most MaxSteps

entityVars == <<added, pos, moving, move, target>>
loopVars   == <<loop, handle>>
motorVars  == <<mpos, mdir, events>>
ghostVars  == <<slack, goal>>
vars == <<bidir, calibrated, entityVars, loopVars, shown, up, motorVars, ghostVars, steps>>

Pos == 0..Top

TypeOK ==
    /\ bidir \in BOOLEAN /\ calibrated \in BOOLEAN /\ added \in BOOLEAN /\ up \in BOOLEAN
    /\ pos \in Pos /\ mpos \in Pos
    /\ moving \in {"no", "opening", "closing"}
    /\ move \in [from : Pos, since : Pos, by : {"ha", "press"}] \cup {None}
    /\ target \in Pos \cup {None}
    /\ loop \in [LoopId -> {"none", "asleep", "due", "dying"}]
    /\ handle \in LoopId \cup {None}
    /\ shown \in [state : {"opening", "closing", "rest", "unavailable"}, pos : Pos]
    /\ mdir \in {"rest", "up", "down"}
    /\ events \in Seq({"up", "down", "stop"})
    /\ slack \in Nat \cup {Lost} /\ goal \in Pos \cup {None}
    /\ steps \in 0..MaxSteps

Init ==
    /\ bidir \in BOOLEAN /\ calibrated \in BOOLEAN
    /\ added = TRUE /\ up = TRUE
    /\ pos \in Pos /\ mpos = pos /\ mdir = "rest" /\ events = <<>>
    /\ moving = "no" /\ move = None /\ target = None
    /\ loop = [t \in LoopId |-> "none"] /\ handle = None
    /\ shown = [state |-> "rest", pos |-> pos]
    /\ slack = 0 /\ goal = None /\ steps = 0

Step == steps < MaxSteps /\ steps' = steps + 1

-----------------------------------------------------------------------------
(* Pieces of the entity.  X_Y is X with a plausible slip.                  *)

Clamp(p) == IF p < 0 THEN 0 ELSE IF p > Top THEN Top ELSE p

(* PositionTracker.calculate(), called by _update_position(). *)
UpdatedPos_Unclamped ==
    IF move = None \/ moving = "no" THEN pos
    ELSE move.from + (IF moving = "opening" THEN move.since ELSE -move.since)

UpdatedPos ==
    IF move = None \/ moving = "no" THEN pos
    ELSE Clamp(move.from + (IF moving = "opening" THEN move.since ELSE -move.since))

(* async_write_ha_state(): an entity without its stick is unavailable.     *)
WriteState ==
    shown' = [state |-> IF ~up' THEN "unavailable" ELSE IF moving' = "no" THEN "rest" ELSE moving',
              pos |-> pos']

(* _stop_position_tracking(): a loop that is cancelled still has its       *)
(* `finally` to run.                                                       *)
Cancelled == [t \in LoopId |-> IF t = handle /\ loop[t] \in {"asleep", "due"}
                               THEN "dying" ELSE loop[t]]

StopTracking == loop' = Cancelled /\ handle' = None

(* _start_position_tracking() *)
StartTracking_Beside ==
    \E t \in LoopId : /\ loop[t] = "none" /\ handle' = t
                      /\ loop' = [loop EXCEPT ![t] = "asleep"]

StartTracking ==
    \E t \in LoopId : /\ loop[t] = "none" /\ handle' = t
                      /\ loop' = [Cancelled EXCEPT ![t] = "asleep"]

(* A loop ends through its `finally`, here with loops ls before it.        *)
LoopEnds_ClearsHandle(t) == loop' = [loop EXCEPT ![t] = "none"] /\ handle' = None
LoopEnds(t) ==
    /\ loop' = [loop EXCEPT ![t] = "none"]
    /\ handle' = IF handle = t THEN None ELSE handle

(* The move begins at the position the loop computed last. *)
BeginMove_KeepsStart(dir, who) ==
    /\ moving' = dir
    /\ move' = [from |-> IF move = None THEN pos ELSE move.from, since |-> 0, by |-> who]
    /\ StartTracking

BeginMove(dir, who) ==
    /\ moving' = dir
    /\ move' = [from |-> pos, since |-> 0, by |-> who]
    /\ StartTracking

EndMove == moving' = "no" /\ move' = None /\ target' = None

(* A move that begins before the loop has counted the last interval. *)
Slip == IF slack = Lost \/ UpdatedPos = pos THEN slack ELSE slack + 1

-----------------------------------------------------------------------------
(* The motor (external): it obeys at once, stops at its end stops and, if  *)
(* bidirectional, reports what it does.                                    *)

Obeys(cmd) ==
    LET dir == IF cmd = "up" /\ mpos < Top THEN "up"
               ELSE IF cmd = "down" /\ mpos > 0 THEN "down" ELSE "rest"
    IN /\ mdir' = dir
       /\ events' = IF ~bidir \/ (mdir = "rest" /\ dir = "rest") THEN events
                    ELSE Append(events, IF dir = "rest" THEN "stop" ELSE dir)
       /\ UNCHANGED mpos

(* control_blind(): a command without a port is dropped. *)
Send(cmd) == IF up THEN Obeys(cmd) ELSE UNCHANGED motorVars

-----------------------------------------------------------------------------
(* Services of Home Assistant, which calls available entities only *)

Service == added /\ up /\ Step /\ UNCHANGED <<bidir, calibrated, added, up>>

EndOf(dir) == IF dir = "opening" THEN Top ELSE 0
CmdOf(dir) == IF dir = "opening" THEN "up" ELSE "down"

(* async_open_cover(target), async_close_cover(target) *)
Drive(dir, where) ==
    /\ target' = where
    /\ BeginMove(dir, "ha") /\ UNCHANGED pos
    /\ WriteState
    /\ Send(CmdOf(dir))
    /\ slack' = Slip
    /\ goal' = IF slack' = 0 \/ (where = None /\ ~bidir)
               THEN IF where = None THEN EndOf(dir) ELSE where ELSE None

OpenOrClose == Service /\ \E dir \in {"opening", "closing"} : Drive(dir, None)

(* async_set_cover_position(); a loop that is due has not yet counted the  *)
(* last interval, so the target may lie behind the shutter.                *)
SetPosition ==
    /\ Service
    /\ bidir \/ calibrated
    /\ Overlap \/ (events = <<>> /\ UpdatedPos = pos)
    /\ \E where \in Pos \ {pos} :
           Drive(IF where > pos THEN "opening" ELSE "closing", where)

(* async_stop_cover() *)
StoppedPos_Stale == pos
StoppedPos == UpdatedPos

StopCover ==
    /\ Service
    /\ StopTracking
    /\ pos' = StoppedPos
    /\ EndMove
    /\ WriteState
    /\ Send("stop")
    /\ goal' = None /\ UNCHANGED slack

-----------------------------------------------------------------------------
(* A wall switch, or the remote of a motor, used by hand *)

(* _handle_remote_event() *)
HandleRemote(cmd) ==
    /\ IF cmd = "stop"
       THEN StopTracking /\ pos' = StoppedPos /\ EndMove
       ELSE /\ BeginMove(IF cmd = "up" THEN "opening" ELSE "closing", "press")
            /\ UNCHANGED <<pos, target>>
    /\ WriteState

(* A press moves the motor.  A timed motor's entity hears the remote only  *)
(* over a connected stick.                                                 *)
Press(cmd) ==
    /\ Step /\ UNCHANGED <<bidir, calibrated, up>>
    /\ Overlap \/ target = None
    /\ Obeys(cmd)
    /\ goal' = None
    /\ IF bidir THEN UNCHANGED <<entityVars, loopVars, shown, slack>>
       ELSE IF added /\ up
       THEN /\ HandleRemote(cmd) /\ UNCHANGED added
            /\ slack' = IF cmd = "stop" THEN slack ELSE Slip
       ELSE UNCHANGED <<entityVars, loopVars, shown>> /\ slack' = Lost

(* _handle_event(): a frame of a bidirectional motor. *)
HandleEvent(event) ==
    /\ IF event = "stop"
       THEN /\ StopTracking
            /\ pos' = IF target # None THEN target ELSE StoppedPos
            /\ EndMove
       ELSE /\ BeginMove(IF event = "up" THEN "opening" ELSE "closing", "press")
            /\ UNCHANGED <<pos, target>>
    /\ WriteState

EventArrives ==
    /\ events # <<>> /\ events' = Tail(events)
    /\ UNCHANGED <<bidir, calibrated, up, mpos, mdir, steps>>
    /\ IF added /\ up
       THEN /\ HandleEvent(Head(events))
            /\ slack' = IF Head(events) = "stop" THEN slack ELSE Slip
            /\ UNCHANGED <<added, goal>>
       ELSE UNCHANGED <<entityVars, loopVars, shown>> /\ slack' = Lost /\ goal' = None

-----------------------------------------------------------------------------
(* The tracking loop *)

Reached(p) ==
    /\ target # None
    /\ \/ moving = "opening" /\ p >= target
       \/ moving = "closing" /\ p <= target

AtEnd_Beyond(p) ==
    \/ moving = "opening" /\ p > Top
    \/ moving = "closing" /\ p < 0
AtEnd(p) ==
    \/ moving = "opening" /\ p >= Top
    \/ moving = "closing" /\ p <= 0

(* The target is reached: a partial one needs a stop command. *)
LoopReaches(t) ==
    /\ Reached(UpdatedPos)
    /\ pos' = target
    /\ IF target \in {0, Top} THEN UNCHANGED motorVars ELSE Send("stop")
    /\ EndMove /\ LoopEnds(t)
    /\ WriteState
    /\ IF ~up /\ target \notin {0, Top}
       THEN slack' = Lost /\ goal' = None ELSE UNCHANGED ghostVars

LoopFinishes(t) ==
    /\ target = None /\ AtEnd(UpdatedPos)
    /\ pos' = UpdatedPos
    /\ EndMove /\ LoopEnds(t)
    /\ WriteState
    /\ UNCHANGED <<motorVars, ghostVars>>

(* Every fifth time the state is written. *)
LoopGoesOn(t) ==
    /\ ~Reached(UpdatedPos) /\ (target # None \/ ~AtEnd(UpdatedPos))
    /\ pos' = UpdatedPos
    /\ loop' = [loop EXCEPT ![t] = "asleep"]
    /\ UNCHANGED <<handle, moving, move, target, motorVars, ghostVars>>
    /\ (WriteState \/ UNCHANGED shown)

LoopWakes(t) ==
    /\ loop[t] = "due"
    /\ UNCHANGED <<bidir, calibrated, added, up, steps>>
    /\ LoopReaches(t) \/ LoopFinishes(t) \/ LoopGoesOn(t)

(* The CancelledError reaches a cancelled loop. *)
LoopDies(t) ==
    /\ loop[t] = "dying" /\ LoopEnds(t)
    /\ UNCHANGED <<bidir, calibrated, entityVars, shown, up, motorVars, ghostVars, steps>>

-----------------------------------------------------------------------------
(* The stick, the entity's life and time *)

(* SIGNAL_STICK_STATUS_UPDATED *)
LinkChanges ==
    /\ Step /\ up' = ~up
    /\ UNCHANGED <<bidir, calibrated, entityVars, loopVars, motorVars, ghostVars>>
    /\ IF added THEN WriteState ELSE UNCHANGED shown

(* _handle_calibration_completed(): the flow ends with the shutter at its  *)
(* last end stop, open for a timed motor and closed for the other.         *)
CalibrationCompleted ==
    LET final == IF bidir THEN 0 ELSE Top IN
    /\ Step /\ added
    /\ mdir = "rest" /\ mpos = final /\ events = <<>>
    /\ calibrated' = TRUE /\ pos' = final
    /\ UNCHANGED <<bidir, added, moving, move, target, loopVars, up, motorVars>>
    /\ WriteState
    /\ IF moving = "no" THEN slack' = 0 /\ goal' = final
       ELSE UNCHANGED slack /\ goal' = None

(* The entity is removed: unload, reload or restart. *)
Removed ==
    /\ Step /\ added /\ added' = FALSE
    /\ StopTracking /\ EndMove
    /\ IF moving = "no" /\ shown.state # "unavailable" THEN UNCHANGED ghostVars
       ELSE /\ slack' = Lost
            /\ goal' = IF ~bidir /\ shown.state # "unavailable" /\ slack = 0 /\ CmdOf(moving) = mdir
                       THEN EndOf(moving) ELSE None
    /\ UNCHANGED <<bidir, calibrated, pos, shown, up, motorVars>>

(* async_added_to_hass(): what was recorded last or, without a record of a *)
(* position, closed, or what a timed motor was added with.                 *)
Defaults == IF bidir THEN {0} ELSE Pos

RestoredPos_Recorded == IF shown.state = "unavailable" THEN Defaults ELSE {shown.pos}

RestoredPos ==
    IF shown.state = "unavailable" THEN Defaults
    ELSE IF bidir \/ shown.state = "rest" THEN {shown.pos}
    ELSE {EndOf(shown.state)}

Readded ==
    /\ ~added /\ added' = TRUE
    /\ pos' \in RestoredPos
    /\ UNCHANGED <<bidir, calibrated, moving, move, target, loopVars, up, motorVars, ghostVars, steps>>
    /\ WriteState

(* One interval of the loop passes.  Without calibration the travel time   *)
(* is a default, so the shutter may be slower or faster.                   *)
Tick ==
    /\ events = <<>> /\ \A t \in LoopId : loop[t] \in {"none", "asleep"}
    /\ loop' = [t \in LoopId |-> IF loop[t] = "asleep" THEN "due" ELSE "none"]
    /\ move' = IF move = None THEN None
               ELSE [move EXCEPT !.since = IF @ < Top THEN @ + 1 ELSE @]
    /\ \E by \in (IF calibrated THEN {1} ELSE 0..2) :
           mpos' = Clamp(mpos + (IF mdir = "up" THEN by ELSE IF mdir = "down" THEN -by ELSE 0))
    /\ mdir' = IF mpos' = (IF mdir = "up" THEN Top ELSE 0) THEN "rest" ELSE mdir
    /\ events' = IF bidir /\ mdir' # mdir THEN <<"stop">> ELSE <<>>
    /\ slack' = IF ~calibrated /\ (mdir # "rest" \/ moving # "no") THEN Lost ELSE slack
    /\ goal' = IF slack' = Lost /\ (bidir \/ goal \notin {0, Top}) THEN None ELSE goal
    /\ UNCHANGED <<bidir, calibrated, added, pos, moving, target, handle, shown, up, steps>>

-----------------------------------------------------------------------------
Next ==
    \/ OpenOrClose \/ SetPosition \/ StopCover
    \/ \E cmd \in {"up", "down", "stop"} : Press(cmd)
    \/ EventArrives
    \/ \E t \in LoopId : LoopWakes(t) \/ LoopDies(t)
    \/ LinkChanges \/ CalibrationCompleted \/ Removed \/ Readded \/ Tick

Spec == Init /\ [][Next]_vars

(* The event loop runs every task and frame, and time passes. *)
Fairness ==
    /\ \A t \in LoopId : WF_vars(LoopWakes(t)) /\ WF_vars(LoopDies(t))
    /\ WF_vars(EventArrives) /\ WF_vars(Tick)

FairSpec == Spec /\ Fairness

-----------------------------------------------------------------------------
Alive == {t \in LoopId : loop[t] \in {"asleep", "due"}}
Quiet == added /\ moving = "no" /\ mdir = "rest" /\ events = <<>>
Distance(a, b) == IF a > b THEN a - b ELSE b - a

(* A cover shown as moving is followed by one loop, the one the entity can *)
(* still cancel, and a cover at rest by none (WR-02): no loop of an older  *)
(* move can stop a newer one.                                              *)
OneLoop ==
    /\ Alive = IF moving = "no" THEN {} ELSE {handle}
    /\ moving = "no" <=> move = None
    /\ moving = "no" => target = None

(* When everything is at rest and no frame was lost, Home Assistant shows  *)
(* where the shutter is, but for one interval per reversal or restart of a *)
(* move that the loop had not counted.  The drives of a timed calibration, *)
(* which are sent past the entity (control_blind()), are not in this model.*)
AtRestExact ==
    Quiet /\ up /\ slack # Lost =>
        shown.state = "rest" /\ Distance(shown.pos, mpos) <= slack

(* A command that nothing interferes with ends where it leads, for Home    *)
(* Assistant and for the shutter: a set-position at its target, a full     *)
(* move of a timed motor at the end stop even if its position was wrong    *)
(* before (README: it self-corrects), and one cut by a restart at its end  *)
(* stop (D-08).                                                            *)
GoalReached == Quiet /\ goal # None => pos = goal /\ mpos = goal

(* What CoverPromise says of the position, but for a calibration that ends *)
(* in mid-move: it is the one counted so far, or one interval behind while *)
(* the loop is due.  The move advances one interval at a time towards its  *)
(* target and never past it, and ends there or at the end stop exactly.    *)
Steady ==
    \/ moving = "no" \/ pos = UpdatedPos
    \/ /\ \E t \in LoopId : loop[t] = "due"
       /\ UpdatedPos = (IF moving = "opening" THEN pos + 1 ELSE pos - 1)

Promise == INSTANCE CoverPromise WITH
    reports <- bidir, here <- added, dir <- moving, steady <- Steady

PromiseSpec == Promise!Spec

(* A cover does not stay opening or closing for ever. *)
MoveEnds == moving # "no" ~> moving = "no"
=============================================================================
