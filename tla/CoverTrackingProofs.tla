------------------------ MODULE CoverTrackingProofs -------------------------
(***************************************************************************)
(* For every number of positions, loop tasks and outside steps: with or    *)
(* without the uses that Overlap allows the entity keeps its types, and a  *)
(* cover that moves is followed by exactly the loop it can cancel; without *)
(* them what it shows of a shutter at rest is where the shutter is, and    *)
(* every step is one that CoverPromise allows.                             *)
(***************************************************************************)
EXTENDS CoverTracking, TLAPS, SequenceTheorems

IInv == TypeOK /\ OneLoop

Moves == [from : Pos, since : Pos, by : {"ha", "press"}]
Loops == [LoopId -> {"none", "asleep", "due", "dying"}]

LEMMA ClampInPos == ASSUME NEW p \in Int PROVE Clamp(p) \in Pos
  BY CoverAssumption DEF Clamp, Pos

LEMMA EndsInPos == 0 \in Pos /\ Top \in Pos /\ Pos \subseteq Int /\ None \notin Pos
  BY CoverAssumption DEF Pos

LEMMA UpdatedInPos == ASSUME TypeOK PROVE UpdatedPos \in Pos
<1>1. CASE move = None \/ moving = "no"
  BY <1>1 DEF UpdatedPos, TypeOK
<1>2. CASE ~(move = None \/ moving = "no")
  <2>1. move.from \in Int /\ move.since \in Int
    BY <1>2 DEF TypeOK, Pos
  <2>2. move.from + (IF moving = "opening" THEN move.since ELSE -move.since) \in Int
    BY <2>1
  <2> QED
    BY <1>2, <2>2, ClampInPos DEF UpdatedPos
<1> QED
  BY <1>1, <1>2

LEMMA SlipType == ASSUME TypeOK PROVE Slip \in Nat \cup {Lost}
  BY DEF Slip, TypeOK

LEMMA WriteType ==
  ASSUME WriteState, up' \in BOOLEAN, moving' \in {"no", "opening", "closing"}, pos' \in Pos
  PROVE  shown' \in [state : {"opening", "closing", "rest", "unavailable"}, pos : Pos]
  BY DEF WriteState

LEMMA SendType ==
  ASSUME TypeOK, NEW cmd \in {"up", "down", "stop"}, Send(cmd) \/ Obeys(cmd)
  PROVE  /\ mpos' = mpos /\ mdir' \in {"rest", "up", "down"}
         /\ events' \in Seq({"up", "down", "stop"})
  BY DEF Send, Obeys, motorVars, TypeOK

-----------------------------------------------------------------------------
(* What starts, stops and ends a loop. *)

LEMMA StopLoop ==
  ASSUME IInv, StopTracking, EndMove
  PROVE  /\ loop' \in Loops /\ handle' \in LoopId \cup {None} /\ OneLoop'
         /\ moving' \in {"no", "opening", "closing"} /\ move' \in Moves \cup {None}
         /\ target' \in Pos \cup {None}
<1>1. loop' \in Loops /\ handle' = None
  BY DEF StopTracking, Cancelled, IInv, TypeOK, Loops
<1>2. Alive' = {}
  <2>1. \A t \in LoopId : loop'[t] = (IF t = handle /\ loop[t] \in {"asleep", "due"}
                                       THEN "dying" ELSE loop[t])
    BY DEF StopTracking, Cancelled
  <2>2. \A t \in LoopId : loop[t] \in {"asleep", "due"} => t = handle
    BY DEF IInv, OneLoop, Alive
  <2> QED
    BY <2>1, <2>2 DEF Alive
<1> QED
  BY <1>1, <1>2 DEF EndMove, OneLoop

LEMMA StartLoop ==
  ASSUME IInv, NEW dir \in {"opening", "closing"}, NEW who \in {"ha", "press"},
         BeginMove(dir, who)
  PROVE  /\ loop' \in Loops /\ handle' \in LoopId \cup {None} /\ OneLoop'
         /\ moving' \in {"no", "opening", "closing"} /\ move' \in Moves \cup {None}
<1>1. moving' = dir /\ move' = [from |-> pos, since |-> 0, by |-> who] /\ StartTracking
  BY DEF BeginMove
<1>2. PICK t \in LoopId : /\ loop[t] = "none" /\ handle' = t
                          /\ loop' = [Cancelled EXCEPT ![t] = "asleep"]
  BY <1>1 DEF StartTracking
<1>3. Cancelled \in Loops
  BY DEF Cancelled, IInv, TypeOK, Loops
<1>4. move' \in Moves
  BY <1>1, EndsInPos DEF IInv, TypeOK, Moves
<1>5. move' # None
  BY <1>4, CoverAssumption DEF Moves, Pos
<1>6. Alive' = {t}
  <2>1. \A s \in LoopId : Cancelled[s] = (IF s = handle /\ loop[s] \in {"asleep", "due"}
                                           THEN "dying" ELSE loop[s])
    BY DEF Cancelled
  <2>2. \A s \in LoopId : loop[s] \in {"asleep", "due"} => s = handle
    BY DEF IInv, OneLoop, Alive
  <2>3. \A s \in LoopId : loop'[s] = IF s = t THEN "asleep" ELSE Cancelled[s]
    BY <1>2, <1>3 DEF Loops
  <2> QED
    BY <2>1, <2>2, <2>3 DEF Alive
<1> QED
  BY <1>1, <1>2, <1>3, <1>4, <1>5, <1>6 DEF OneLoop, Loops

(* A loop that is due follows the move and is the one handle names.        *)
LEMMA DueLoop ==
  ASSUME IInv, NEW t \in LoopId, loop[t] = "due"
  PROVE  handle = t /\ moving # "no" /\ move # None /\ Alive = {t}
  BY DEF IInv, OneLoop, Alive

LEMMA EndLoop ==
  ASSUME IInv, NEW t \in LoopId, loop[t] \in {"due", "dying"}, LoopEnds(t)
  PROVE  /\ loop' \in Loops /\ handle' \in LoopId \cup {None}
         /\ Alive' = Alive \ {t} /\ (handle # t => handle' = handle)
  BY DEF LoopEnds, IInv, TypeOK, Loops, Alive

-----------------------------------------------------------------------------
(* Steps that leave the loops and the move as they are.                    *)
LEMMA MoveUntouched ==
  ASSUME IInv, UNCHANGED <<moving, move, target, loop, handle>>
  PROVE  OneLoop'
  BY DEF IInv, OneLoop, Alive

LEMMA InitInv == Init => IInv
<1> SUFFICES ASSUME Init PROVE IInv
  OBVIOUS
<1>1. TypeOK
  BY CoverAssumption, EndsInPos DEF Init, TypeOK
<1>2. OneLoop
  BY DEF Init, OneLoop, Alive
<1> QED
  BY <1>1, <1>2 DEF IInv

LEMMA DriveStep ==
  ASSUME IInv, Service, NEW dir \in {"opening", "closing"}, NEW where \in Pos \cup {None},
         Drive(dir, where)
  PROVE  IInv'
<1>1. /\ target' = where /\ BeginMove(dir, "ha") /\ UNCHANGED pos /\ WriteState
      /\ Send(CmdOf(dir)) /\ slack' = Slip
      /\ UNCHANGED <<bidir, calibrated, added, up>> /\ steps' \in 0..MaxSteps
  BY CoverAssumption DEF Drive, Service, Step, IInv, TypeOK
<1>2. /\ loop' \in Loops /\ handle' \in LoopId \cup {None} /\ OneLoop'
      /\ moving' \in {"no", "opening", "closing"} /\ move' \in Moves \cup {None}
  BY <1>1, StartLoop
<1>3. shown' \in [state : {"opening", "closing", "rest", "unavailable"}, pos : Pos]
  BY <1>1, <1>2, WriteType DEF IInv, TypeOK
<1>4. CmdOf(dir) \in {"up", "down", "stop"}
  BY DEF CmdOf
<1>5. /\ mpos' = mpos /\ mdir' \in {"rest", "up", "down"}
      /\ events' \in Seq({"up", "down", "stop"})
  BY <1>1, <1>4, SendType DEF IInv
<1>6. slack' \in Nat \cup {Lost}
  BY <1>1, SlipType DEF IInv
<1>7. goal' \in Pos \cup {None}
  BY EndsInPos DEF Drive, EndOf
<1> QED
  BY <1>1, <1>2, <1>3, <1>5, <1>6, <1>7 DEF IInv, TypeOK, Loops, Moves

LEMMA StopCoverStep ==
  ASSUME IInv, StopCover
  PROVE  IInv'
<1>1. /\ StopTracking /\ pos' = UpdatedPos /\ EndMove /\ WriteState /\ Send("stop")
      /\ goal' = None /\ UNCHANGED <<slack, bidir, calibrated, added, up>>
      /\ steps' \in 0..MaxSteps
  BY CoverAssumption DEF StopCover, StoppedPos, Service, Step, IInv, TypeOK
<1>2. /\ loop' \in Loops /\ handle' \in LoopId \cup {None} /\ OneLoop'
      /\ moving' \in {"no", "opening", "closing"} /\ move' \in Moves \cup {None}
      /\ target' \in Pos \cup {None}
  BY <1>1, StopLoop
<1>3. pos' \in Pos
  BY <1>1, UpdatedInPos DEF IInv
<1>4. shown' \in [state : {"opening", "closing", "rest", "unavailable"}, pos : Pos]
  BY <1>1, <1>2, <1>3, WriteType DEF IInv, TypeOK
<1>5. /\ mpos' = mpos /\ mdir' \in {"rest", "up", "down"}
      /\ events' \in Seq({"up", "down", "stop"})
  BY <1>1, SendType DEF IInv
<1> QED
  BY <1>1, <1>2, <1>3, <1>4, <1>5 DEF IInv, TypeOK, Loops, Moves

(* A press or a frame of the motor, once the entity hears it.              *)
LEMMA HandleStep ==
  ASSUME IInv, UNCHANGED up, NEW cmd \in {"up", "down", "stop"},
         HandleRemote(cmd) \/ HandleEvent(cmd)
  PROVE  /\ loop' \in Loops /\ handle' \in LoopId \cup {None} /\ OneLoop'
         /\ moving' \in {"no", "opening", "closing"} /\ move' \in Moves \cup {None}
         /\ target' \in Pos \cup {None} /\ pos' \in Pos
         /\ shown' \in [state : {"opening", "closing", "rest", "unavailable"}, pos : Pos]
<1>1. WriteState /\ UpdatedPos \in Pos
  BY UpdatedInPos DEF HandleRemote, HandleEvent, IInv
<1>2. CASE cmd = "stop"
  <2>1. StopTracking /\ EndMove
    BY <1>2 DEF HandleRemote, HandleEvent
  <2>2. pos' \in Pos
    BY <1>1, <1>2 DEF HandleRemote, HandleEvent, StoppedPos, IInv, TypeOK
  <2> QED
    BY <1>1, <2>1, <2>2, StopLoop, WriteType DEF IInv, TypeOK
<1>3. CASE cmd # "stop"
  <2>1. \E dir \in {"opening", "closing"} : BeginMove(dir, "press")
    BY <1>3 DEF HandleRemote, HandleEvent
  <2>2. UNCHANGED <<pos, target>>
    BY <1>3 DEF HandleRemote, HandleEvent
  <2> QED
    BY <1>1, <2>1, <2>2, StartLoop, WriteType DEF IInv, TypeOK
<1> QED
  BY <1>2, <1>3

LEMMA PressStep ==
  ASSUME IInv, NEW cmd \in {"up", "down", "stop"}, Press(cmd)
  PROVE  IInv'
<1>1. /\ UNCHANGED <<bidir, calibrated, up, added>> /\ Obeys(cmd) /\ goal' = None
      /\ steps' \in 0..MaxSteps
  BY CoverAssumption DEF Press, Step, entityVars, IInv, TypeOK
<1>2. /\ mpos' = mpos /\ mdir' \in {"rest", "up", "down"}
      /\ events' \in Seq({"up", "down", "stop"})
  BY <1>1, SendType DEF IInv
<1>3. slack' \in Nat \cup {Lost}
  BY SlipType DEF Press, IInv, TypeOK
<1>4. CASE UNCHANGED <<entityVars, loopVars, shown>>
  <2>1. OneLoop'
    BY <1>4, MoveUntouched DEF entityVars, loopVars
  <2> QED
    BY <1>1, <1>2, <1>3, <1>4, <2>1 DEF IInv, TypeOK, entityVars, loopVars
<1>5. CASE HandleRemote(cmd)
  <2>1. /\ loop' \in Loops /\ handle' \in LoopId \cup {None} /\ OneLoop'
        /\ moving' \in {"no", "opening", "closing"} /\ move' \in Moves \cup {None}
        /\ target' \in Pos \cup {None} /\ pos' \in Pos
        /\ shown' \in [state : {"opening", "closing", "rest", "unavailable"}, pos : Pos]
    BY <1>1, <1>5, HandleStep
  <2> QED
    BY <1>1, <1>2, <1>3, <2>1 DEF IInv, TypeOK, Loops, Moves
<1> QED
  BY <1>4, <1>5 DEF Press

LEMMA EventStep ==
  ASSUME IInv, EventArrives
  PROVE  IInv'
<1>1. /\ UNCHANGED <<bidir, calibrated, up, mpos, mdir, steps, added>>
      /\ events # <<>> /\ events' = Tail(events)
  BY DEF EventArrives, entityVars
<1>2. events' \in Seq({"up", "down", "stop"}) /\ Head(events) \in {"up", "down", "stop"}
  BY <1>1 DEF IInv, TypeOK
<1>3. slack' \in Nat \cup {Lost} /\ goal' \in Pos \cup {None}
  BY SlipType DEF EventArrives, IInv, TypeOK
<1>4. CASE UNCHANGED <<entityVars, loopVars, shown>>
  <2>1. OneLoop'
    BY <1>4, MoveUntouched DEF entityVars, loopVars
  <2> QED
    BY <1>1, <1>2, <1>3, <1>4, <2>1 DEF IInv, TypeOK, entityVars, loopVars
<1>5. CASE HandleEvent(Head(events))
  <2>1. /\ loop' \in Loops /\ handle' \in LoopId \cup {None} /\ OneLoop'
        /\ moving' \in {"no", "opening", "closing"} /\ move' \in Moves \cup {None}
        /\ target' \in Pos \cup {None} /\ pos' \in Pos
        /\ shown' \in [state : {"opening", "closing", "rest", "unavailable"}, pos : Pos]
    BY <1>1, <1>2, <1>5, HandleStep
  <2> QED
    BY <1>1, <1>2, <1>3, <2>1 DEF IInv, TypeOK, Loops, Moves
<1> QED
  BY <1>4, <1>5 DEF EventArrives

-----------------------------------------------------------------------------
(* The tracking loop *)

(* It ends and takes the move with it: no other loop is left alive.        *)
LEMMA LastLoopEnds ==
  ASSUME IInv, NEW t \in LoopId, loop[t] = "due", LoopEnds(t), EndMove
  PROVE  OneLoop'
<1>1. Alive' = {}
  BY DueLoop, EndLoop
<1> QED
  BY <1>1 DEF OneLoop, EndMove

LEMMA WakesStep ==
  ASSUME IInv, NEW t \in LoopId, LoopWakes(t)
  PROVE  IInv'
<1>1. /\ loop[t] = "due" /\ UNCHANGED <<bidir, calibrated, added, up, steps>>
      /\ UpdatedPos \in Pos
  BY UpdatedInPos DEF LoopWakes, IInv
<1>2. CASE LoopReaches(t) \/ LoopFinishes(t)
  <2>1. EndMove /\ LoopEnds(t) /\ WriteState
    BY <1>2 DEF LoopReaches, LoopFinishes
  <2>2. loop' \in Loops /\ handle' \in LoopId \cup {None} /\ OneLoop'
    BY <1>1, <2>1, EndLoop, LastLoopEnds
  <2>3. pos' \in Pos
    BY <1>1, <1>2, CoverAssumption DEF LoopReaches, LoopFinishes, Reached, IInv, TypeOK
  <2>4. moving' = "no" /\ move' = None /\ target' = None
    BY <2>1 DEF EndMove
  <2>5. shown' \in [state : {"opening", "closing", "rest", "unavailable"}, pos : Pos]
    BY <1>1, <2>1, <2>3, <2>4, WriteType DEF IInv, TypeOK
  <2>6. /\ mpos' = mpos /\ mdir' \in {"rest", "up", "down"}
        /\ events' \in Seq({"up", "down", "stop"})
    <3>1. UNCHANGED motorVars \/ Send("stop")
      BY <1>2 DEF LoopReaches, LoopFinishes
    <3> QED
      BY <3>1, SendType DEF motorVars, IInv, TypeOK
  <2>7. slack' \in Nat \cup {Lost} /\ goal' \in Pos \cup {None}
    BY <1>2 DEF LoopReaches, LoopFinishes, ghostVars, IInv, TypeOK
  <2> QED
    BY <1>1, <2>2, <2>3, <2>4, <2>5, <2>6, <2>7 DEF IInv, TypeOK, Loops
<1>3. CASE LoopGoesOn(t)
  <2>1. /\ pos' \in Pos /\ loop' = [loop EXCEPT ![t] = "asleep"]
        /\ UNCHANGED <<handle, moving, move, target, motorVars, ghostVars>>
        /\ WriteState \/ UNCHANGED shown
    BY <1>1, <1>3 DEF LoopGoesOn
  <2>2. loop' \in Loops /\ Alive' = Alive
    BY <1>1, <2>1 DEF IInv, TypeOK, Loops, Alive
  <2>3. shown' \in [state : {"opening", "closing", "rest", "unavailable"}, pos : Pos]
    BY <1>1, <2>1, WriteType DEF IInv, TypeOK
  <2>4. OneLoop'
    BY <2>1, <2>2 DEF IInv, OneLoop
  <2> QED
    BY <1>1, <2>1, <2>2, <2>3, <2>4 DEF IInv, TypeOK, Loops, motorVars, ghostVars
<1> QED
  BY <1>2, <1>3 DEF LoopWakes

LEMMA DiesStep ==
  ASSUME IInv, NEW t \in LoopId, LoopDies(t)
  PROVE  IInv'
<1>1. /\ loop[t] = "dying" /\ LoopEnds(t)
      /\ UNCHANGED <<bidir, calibrated, entityVars, shown, up, motorVars, ghostVars, steps>>
  BY DEF LoopDies
<1>2. /\ loop' \in Loops /\ handle' \in LoopId \cup {None}
      /\ Alive' = Alive \ {t} /\ (handle # t => handle' = handle)
  BY <1>1, EndLoop
<1>3. t \notin Alive
  BY <1>1 DEF Alive
<1>4. OneLoop'
  BY <1>1, <1>2, <1>3 DEF IInv, OneLoop, entityVars
<1> QED
  BY <1>1, <1>2, <1>4 DEF IInv, TypeOK, Loops, entityVars, motorVars, ghostVars

-----------------------------------------------------------------------------
(* The stick, the life of the entity and time *)

LEMMA AroundStep ==
  ASSUME IInv, LinkChanges \/ CalibrationCompleted \/ Readded
  PROVE  IInv'
<1>1. /\ UNCHANGED <<bidir, moving, move, target, loopVars, motorVars>>
      /\ added' \in BOOLEAN /\ calibrated' \in BOOLEAN /\ up' \in BOOLEAN
      /\ steps' \in 0..MaxSteps
  <2>1. steps' = steps \/ Step
    BY DEF LinkChanges, CalibrationCompleted, Readded
  <2>2. steps' \in 0..MaxSteps
    BY <2>1, CoverAssumption DEF Step, IInv, TypeOK
  <2>3. UNCHANGED <<bidir, moving, move, target, loopVars, motorVars>>
    BY DEF LinkChanges, CalibrationCompleted, Readded, entityVars
  <2>4. added' \in BOOLEAN /\ calibrated' \in BOOLEAN /\ up' \in BOOLEAN
    <3>1. added' \in {added, TRUE} /\ calibrated' \in {calibrated, TRUE} /\ up' \in {up, ~up}
      BY DEF LinkChanges, CalibrationCompleted, Readded, entityVars
    <3> QED
      BY <3>1 DEF IInv, TypeOK
  <2> QED
    BY <2>2, <2>3, <2>4
<1>2. pos' \in Pos
  BY EndsInPos
  DEF LinkChanges, CalibrationCompleted, Readded, RestoredPos, Defaults, EndOf, entityVars, IInv, TypeOK
<1>3. WriteState \/ UNCHANGED shown
  BY DEF LinkChanges, CalibrationCompleted, Readded
<1>4. shown' \in [state : {"opening", "closing", "rest", "unavailable"}, pos : Pos]
  BY <1>1, <1>2, <1>3, WriteType DEF IInv, TypeOK
<1>5. slack' \in Nat \cup {Lost} /\ goal' \in Pos \cup {None}
  BY EndsInPos DEF LinkChanges, CalibrationCompleted, Readded, ghostVars, IInv, TypeOK
<1>6. OneLoop'
  BY <1>1, MoveUntouched DEF loopVars
<1> QED
  BY <1>1, <1>2, <1>4, <1>5, <1>6 DEF IInv, TypeOK, loopVars, motorVars

LEMMA RemovedStep ==
  ASSUME IInv, Removed
  PROVE  IInv'
<1>1. /\ StopTracking /\ EndMove /\ added' = FALSE /\ steps' \in 0..MaxSteps
      /\ UNCHANGED <<bidir, calibrated, pos, shown, up, motorVars>>
  BY CoverAssumption DEF Removed, Step, IInv, TypeOK
<1>2. /\ loop' \in Loops /\ handle' \in LoopId \cup {None} /\ OneLoop'
      /\ moving' \in {"no", "opening", "closing"} /\ move' \in Moves \cup {None}
      /\ target' \in Pos \cup {None}
  BY <1>1, StopLoop
<1>3. slack' \in Nat \cup {Lost} /\ goal' \in Pos \cup {None}
  BY EndsInPos DEF Removed, EndOf, ghostVars, IInv, TypeOK
<1> QED
  BY <1>1, <1>2, <1>3 DEF IInv, TypeOK, Loops, Moves, motorVars

LEMMA TickStep ==
  ASSUME IInv, Tick
  PROVE  IInv'
<1>1. /\ UNCHANGED <<bidir, calibrated, added, pos, moving, target, handle, shown, up, steps>>
      /\ loop' = [t \in LoopId |-> IF loop[t] = "asleep" THEN "due" ELSE "none"]
      /\ \A t \in LoopId : loop[t] \in {"none", "asleep"}
      /\ move' = IF move = None THEN None
                 ELSE [move EXCEPT !.since = IF @ < Top THEN @ + 1 ELSE @]
  BY DEF Tick
<1>2. loop' \in Loops /\ Alive' = Alive
  BY <1>1 DEF Loops, Alive
<1>3. move' \in Moves \cup {None} /\ (move' = None <=> move = None)
  <2>1. CASE move = None
    BY <1>1, <2>1
  <2>2. CASE move # None
    <3>1. move \in Moves /\ move.since \in 0..Top /\ Top \in Nat
      BY <2>2, CoverAssumption DEF IInv, TypeOK, Moves, Pos
    <3>2. (IF move.since < Top THEN move.since + 1 ELSE move.since) \in 0..Top
      BY <3>1
    <3>3. move' \in Moves
      BY <1>1, <2>2, <3>1, <3>2 DEF Moves, Pos
    <3> QED
      BY <2>2, <3>3, CoverAssumption DEF Moves, Pos
  <2> QED
    BY <2>1, <2>2
<1>4. mpos' \in Pos
  <2>1. PICK by \in (IF calibrated THEN {1} ELSE 0..2) :
          mpos' = Clamp(mpos + (IF mdir = "up" THEN by ELSE IF mdir = "down" THEN -by ELSE 0))
    BY DEF Tick
  <2>2. mpos + (IF mdir = "up" THEN by ELSE IF mdir = "down" THEN -by ELSE 0) \in Int
    BY <2>1 DEF IInv, TypeOK, Pos
  <2> QED
    BY <2>1, <2>2, ClampInPos
<1>5. mdir' \in {"rest", "up", "down"} /\ events' \in Seq({"up", "down", "stop"})
  <2>1. mdir' = (IF mpos' = (IF mdir = "up" THEN Top ELSE 0) THEN "rest" ELSE mdir)
    BY DEF Tick
  <2>2. events' = <<"stop">> \/ events' = <<>>
    BY DEF Tick
  <2>3. <<"stop">> \in Seq({"up", "down", "stop"}) /\ <<>> \in Seq({"up", "down", "stop"})
    OBVIOUS
  <2> QED
    BY <2>1, <2>2, <2>3 DEF IInv, TypeOK
<1>6. slack' \in Nat \cup {Lost} /\ goal' \in Pos \cup {None}
  BY DEF Tick, IInv, TypeOK
<1>7. OneLoop'
  BY <1>1, <1>2, <1>3 DEF IInv, OneLoop
<1> QED
  BY <1>1, <1>2, <1>3, <1>4, <1>5, <1>6, <1>7 DEF IInv, TypeOK, Loops, Moves

-----------------------------------------------------------------------------
LEMMA IInvStep == IInv /\ [Next]_vars => IInv'
<1> SUFFICES ASSUME IInv, [Next]_vars PROVE IInv'
  OBVIOUS
<1>1. CASE OpenOrClose
  BY <1>1, DriveStep DEF OpenOrClose
<1>2. CASE SetPosition
  BY <1>2, DriveStep DEF SetPosition
<1>3. CASE StopCover
  BY <1>3, StopCoverStep
<1>4. ASSUME NEW cmd \in {"up", "down", "stop"}, Press(cmd) PROVE IInv'
  BY <1>4, PressStep
<1>5. CASE EventArrives
  BY <1>5, EventStep
<1>6. ASSUME NEW t \in LoopId, LoopWakes(t) \/ LoopDies(t) PROVE IInv'
  BY <1>6, WakesStep, DiesStep
<1>7. CASE LinkChanges \/ CalibrationCompleted \/ Readded
  BY <1>7, AroundStep
<1>8. CASE Removed
  BY <1>8, RemovedStep
<1>9. CASE Tick
  BY <1>9, TickStep
<1>10. CASE UNCHANGED vars
  <2>1. OneLoop'
    BY <1>10, MoveUntouched DEF vars, entityVars, loopVars
  <2> QED
    BY <1>10, <2>1 DEF IInv, TypeOK, vars, entityVars, loopVars, motorVars, ghostVars
<1> QED
  BY <1>1, <1>2, <1>3, <1>4, <1>5, <1>6, <1>7, <1>8, <1>9, <1>10 DEF Next

THEOREM CoverInductive == Spec => []IInv
<1> QED
  BY InitInv, IInvStep, PTL DEF Spec

(* Type correctness: no position leaves the shutter's range.               *)
THEOREM CoverTypes == Spec => []TypeOK
<1>1. IInv => TypeOK
  BY DEF IInv
<1> QED
  BY <1>1, CoverInductive, PTL

(* A cover that moves has one loop, the one it can cancel, and a cover at  *)
(* rest has none, whoever moves it and whenever a cancelled loop ends.     *)
THEOREM OneLoopPerMove == Spec => []OneLoop
<1>1. IInv => OneLoop
  BY DEF IInv
<1> QED
  BY <1>1, CoverInductive, PTL

(* What one interval does to a move, and a wake of its loop.               *)
IntervalCounts ==
    /\ loop'[handle] = "due" /\ handle' = handle
    /\ move'.since = IF move.since < Top THEN move.since + 1 ELSE Top

MoveClock ==
    /\ Tick /\ moving # "no" => IntervalCounts
    /\ \A t \in LoopId : LoopWakes(t) /\ move.since >= Top => moving' = "no"

(* The clock behind MoveEnds, with or without Overlap: every interval of a *)
(* move is counted and wakes the loop that follows it, and a loop that     *)
(* wakes when Top intervals have passed ends the move, wherever it began   *)
(* and whatever its target (cover_entity.py:680-744).                      *)
THEOREM MoveEndsInTime == Spec => [][MoveClock]_vars
<1>1. ASSUME IInv, Tick, moving # "no" PROVE IntervalCounts
  <2>1. move \in Moves /\ handle \in LoopId /\ loop[handle] \in {"asleep", "due"}
    BY <1>1 DEF IInv, TypeOK, OneLoop, Alive, Moves
  <2>2. loop[handle] = "asleep"
    BY <1>1, <2>1 DEF Tick
  <2>3. loop'[handle] = "due" /\ handle' = handle
    BY <1>1, <2>1, <2>2 DEF Tick
  <2>4. move' = [move EXCEPT !.since = IF @ < Top THEN @ + 1 ELSE @]
    BY <1>1 DEF Tick, IInv, OneLoop
  <2>5. move.since \in 0..Top /\ move'.since = IF move.since < Top THEN move.since + 1 ELSE move.since
    BY <2>1, <2>4 DEF Moves, Pos
  <2>6. move.since < Top \/ move.since = Top
    BY <2>5, CoverAssumption
  <2> QED
    BY <2>3, <2>5, <2>6 DEF IntervalCounts
<1>2. ASSUME IInv, NEW t \in LoopId, LoopWakes(t), move.since >= Top PROVE moving' = "no"
  <2>1. moving \in {"opening", "closing"} /\ move \in Moves /\ move # None
    BY <1>2, DueLoop DEF LoopWakes, IInv, TypeOK, Moves
  <2>2. move.from \in 0..Top /\ move.since = Top /\ Top \in Nat
    BY <1>2, <2>1, CoverAssumption DEF Moves, Pos
  <2>3. UpdatedPos = EndOf(moving)
    <3>1. CASE moving = "opening"
      <4>1. UpdatedPos = Clamp(move.from + Top)
        BY <2>1, <2>2, <3>1 DEF UpdatedPos
      <4> QED
        BY <2>2, <3>1, <4>1 DEF Clamp, EndOf
    <3>2. CASE moving = "closing"
      <4>1. UpdatedPos = Clamp(move.from + (-Top))
        BY <2>1, <2>2, <3>2 DEF UpdatedPos
      <4> QED
        BY <2>2, <3>2, <4>1 DEF Clamp, EndOf
    <3> QED
      BY <2>1, <3>1, <3>2
  <2>4. target # None => Reached(UpdatedPos)
    BY <1>2, <2>1, <2>2, <2>3 DEF Reached, EndOf, IInv, TypeOK, Pos
  <2>5. AtEnd(UpdatedPos)
    BY <2>1, <2>2, <2>3 DEF AtEnd, EndOf
  <2>6. ~LoopGoesOn(t)
    BY <2>4, <2>5 DEF LoopGoesOn
  <2> QED
    BY <1>2, <2>6 DEF LoopWakes, LoopReaches, LoopFinishes, EndMove
<1>3. IInv => MoveClock
  BY <1>1, <1>2 DEF MoveClock
<1> QED
  BY <1>3, CoverInductive, PTL

-----------------------------------------------------------------------------
(* What the entity believes about the shutter.  AtRestExact says nothing   *)
(* of a move, so it is not inductive: Follows adds how far the entity is   *)
(* off while the shutter travels, that the motor does what was asked or    *)
(* that a frame saying otherwise is under way, that a set-position has its *)
(* target ahead, and that what was written last is what is restored.       *)

Within(a, b, n) == a - b <= n /\ b - a <= n
Slept == \E t \in LoopId : loop[t] = "asleep"

(* A loop that is due has not yet counted the last interval. *)
Near ==
    /\ Within(UpdatedPos, mpos, slack)
    /\ Within(pos, mpos, slack + 1)
    /\ Slept => Within(pos, mpos, slack)

(* The entity and the motor agree on the direction, or the shutter has     *)
(* reached the end stop first, or the entity has and the shutter follows.  *)
Aligned ==
    /\ moving = "opening" => mdir = "up" \/ (mdir = "rest" /\ mpos = Top)
    /\ moving = "closing" => mdir = "down" \/ (mdir = "rest" /\ mpos = 0)
    /\ moving = "no" => mdir = "rest" \/ (mdir = "up" /\ pos = Top) \/ (mdir = "down" /\ pos = 0)

(* The last frame under way says what the motor does. *)
Motor ==
    /\ (mdir = "up" => mpos < Top) /\ (mdir = "down" => mpos > 0)
    /\ events # <<>> => bidir /\ events[Len(events)] = (IF mdir = "rest" THEN "stop" ELSE mdir)
    /\ events = <<>> => Aligned

Before(p, q) == IF moving = "opening" THEN p < q ELSE p > q

(* A set-position has its target ahead until the loop has counted to it,   *)
(* and hears the start of the motor or its end stop.                       *)
Path == target # None =>
    /\ Before(IF moving = "opening" THEN 0 ELSE Top, target)
    /\ UpdatedPos = target \/ Before(UpdatedPos, target)
    /\ Slept => Before(UpdatedPos, target)
    /\ events # <<>> =>
          /\ Len(events) = 1
          /\ \/ Head(events) = "stop" /\ mpos = EndOf(moving)
             \/ Head(events) = CmdOf(moving) /\ Before(pos, target)

Record ==
    /\ moving = "no" /\ shown.state # "unavailable" => shown = [state |-> "rest", pos |-> pos]
    /\ ~added => moving = "no" /\ shown.state # "unavailable"

Follows == slack # Lost => Near /\ Motor /\ Path /\ Record
Status == added => (shown.state = "unavailable" <=> ~up)
FInv == IInv /\ Status /\ Follows

-----------------------------------------------------------------------------
Frame == {"up", "down", "stop"}

LEMMA Widen == \A a, b, n \in Int : Within(a, b, n) => Within(a, b, n + 1)
  BY DEF Within

LEMMA AppendLast ==
  ASSUME NEW s \in Seq(Frame), NEW e \in Frame
  PROVE  /\ Append(s, e) # <<>> /\ Append(s, e)[Len(Append(s, e))] = e
         /\ Len(Append(s, e)) = Len(s) + 1 /\ (s = <<>> => Head(Append(s, e)) = e)
  OBVIOUS

LEMMA TailLast ==
  ASSUME NEW s \in Seq(Frame), s # <<>>
  PROVE  /\ Tail(s) = <<>> <=> Len(s) = 1
         /\ Tail(s) = <<>> => Head(s) = s[Len(s)]
         /\ Tail(s) # <<>> => Tail(s)[Len(Tail(s))] = s[Len(s)]
<1>1. Tail(s) \in Seq(Frame) /\ Len(s) \in Nat /\ Len(s) # 0
  BY EmptySeq
<1>2. Len(Tail(s)) = Len(s) - 1
  OBVIOUS
<1>3. Tail(s) = <<>> <=> Len(Tail(s)) = 0
  BY <1>1, EmptySeq
<1>4. Tail(s) # <<>> => Tail(s)[Len(Tail(s))] = s[Len(s)]
  BY <1>1, <1>2, <1>3
<1> QED
  BY <1>1, <1>2, <1>3, <1>4

LEMMA ClampPos == \A p \in Pos : Clamp(p) = p
  BY CoverAssumption DEF Clamp, Pos

(* Where the entity computes itself to be once a move began or ended. *)
LEMMA BeginHere ==
  ASSUME TypeOK, NEW dir \in {"opening", "closing"}, NEW who, BeginMove(dir, who), UNCHANGED pos
  PROVE  UpdatedPos' = pos /\ moving' = dir
<1>1. move' = [from |-> pos, since |-> 0, by |-> who] /\ moving' = dir
  BY DEF BeginMove
<1>2. pos \in Pos /\ pos + 0 = pos /\ pos + (-0) = pos
  BY EndsInPos DEF TypeOK
<1>3. UpdatedPos' = IF move' = None \/ moving' = "no" THEN pos'
                    ELSE Clamp(move'.from + (IF moving' = "opening" THEN move'.since ELSE -move'.since))
  BY DEF UpdatedPos, Clamp
<1> QED
  BY <1>1, <1>2, <1>3, ClampPos

LEMMA EndHere == ASSUME EndMove PROVE UpdatedPos' = pos'
  BY DEF EndMove, UpdatedPos

LEMMA NearHere ==
  ASSUME pos' \in Pos, mpos' \in Pos, slack' \in Nat, UpdatedPos' = pos',
         Within(pos', mpos', slack')
  PROVE  Near'
<1>1. pos' \in Int /\ mpos' \in Int /\ slack' \in Int
  BY EndsInPos
<1>2. Within(pos', mpos', slack' + 1)
  BY <1>1, Widen
<1> QED
  BY <1>2 DEF Near

(* A move that begins adds at most the interval its loop had not counted. *)
LEMMA BeginNear ==
  ASSUME TypeOK, Follows, NEW dir \in {"opening", "closing"}, NEW who, BeginMove(dir, who),
         UNCHANGED <<pos, mpos>>, slack' = Slip, slack' # Lost, slack' \in Nat
  PROVE  slack # Lost /\ Near'
<1>1. slack # Lost /\ Near /\ slack \in Nat
  BY DEF Slip, Follows, TypeOK
<1>2. Within(pos, mpos, slack')
  BY <1>1, EndsInPos DEF Slip, Near, Within, TypeOK
<1> QED
  BY <1>1, <1>2, BeginHere, NearHere DEF TypeOK

Leads(cmd) == IF cmd = "up" THEN "opening" ELSE IF cmd = "down" THEN "closing" ELSE "no"

(* The motor obeys, and the entity moves with it or will hear of it. *)
LEMMA ObeysMotor ==
  ASSUME TypeOK, Motor, NEW cmd \in Frame, Obeys(cmd), bidir' = bidir,
         moving' = Leads(cmd) \/ (bidir /\ UNCHANGED <<moving, pos>>)
  PROVE  Motor'
<1>1. mpos' = mpos /\ mpos \in Int /\ 0 <= mpos /\ mpos <= Top
  BY CoverAssumption DEF Obeys, TypeOK, Pos
<1>2. /\ mdir' = "up" => mpos < Top
      /\ mdir' = "down" => mpos > 0
      /\ mdir' \in {"up", "down", "rest"}
      /\ mdir' = "up" => cmd = "up"
      /\ mdir' = "down" => cmd = "down"
      /\ mdir' = "rest" /\ cmd = "up" => mpos = Top
      /\ mdir' = "rest" /\ cmd = "down" => mpos = 0
  BY <1>1, CoverAssumption DEF Obeys, Frame
<1>3. CASE bidir /\ ~(mdir = "rest" /\ mdir' = "rest")
  <2>1. events' = Append(events, IF mdir' = "rest" THEN "stop" ELSE mdir')
    BY <1>3 DEF Obeys
  <2>2. (IF mdir' = "rest" THEN "stop" ELSE mdir') \in Frame
    BY <1>2 DEF Frame
  <2>3. events' # <<>> /\ events'[Len(events')] = IF mdir' = "rest" THEN "stop" ELSE mdir'
    BY <2>1, <2>2, AppendLast DEF TypeOK, Frame
  <2> QED
    BY <1>1, <1>2, <1>3, <2>3 DEF Motor
<1>4. CASE ~(bidir /\ ~(mdir = "rest" /\ mdir' = "rest"))
  <2>1. events' = events /\ (events # <<>> => mdir' = mdir)
    BY <1>4 DEF Obeys, Motor
  <2>2. events = <<>> => Aligned'
    <3>1. CASE moving' = Leads(cmd)
      BY <1>1, <1>2, <3>1 DEF Aligned, Leads, Frame
    <3>2. CASE bidir /\ UNCHANGED <<moving, pos>>
      BY <1>1, <1>4, <3>2 DEF Aligned, Motor
    <3> QED
      BY <3>1, <3>2
  <2> QED
    BY <1>1, <1>2, <2>1, <2>2 DEF Motor
<1> QED
  BY <1>3, <1>4

(* What is written is what the entity holds. *)
LEMMA WriteRecord ==
  ASSUME WriteState, added' = TRUE, up' \in BOOLEAN, moving' \in {"no", "opening", "closing"}
  PROVE  Record' /\ Status'
  BY DEF WriteState, Record, Status

LEMMA NearSame ==
  ASSUME Near, UNCHANGED <<pos, moving, move, mpos, slack>>, Slept' => Slept
  PROVE  Near' /\ UpdatedPos' = UpdatedPos
<1>1. UpdatedPos' = UpdatedPos
  BY DEF UpdatedPos, Clamp
<1> QED
  BY <1>1 DEF Near

LEMMA PathSame ==
  ASSUME Path, UNCHANGED <<pos, moving, move, mpos, target, events>>, Slept' => Slept
  PROVE  Path'
<1>1. UpdatedPos' = UpdatedPos
  BY DEF UpdatedPos, Clamp
<1> QED
  BY <1>1 DEF Path, Before, EndOf, CmdOf

LEMMA InitFollows == Init => Status /\ Follows
<1> SUFFICES ASSUME Init PROVE Status /\ Follows
  OBVIOUS
<1>1. UpdatedPos = pos /\ pos \in Int /\ mpos = pos /\ slack = 0
  BY EndsInPos DEF Init, UpdatedPos
<1>2. Near
  BY <1>1 DEF Near, Within
<1> QED
  BY <1>2 DEF Init, Status, Follows, Motor, Aligned, Path, Record

LEMMA DriveFollows ==
  ASSUME FInv, IInv', Service, NEW dir \in {"opening", "closing"}, NEW where \in Pos \cup {None},
         Drive(dir, where),
         where # None => events = <<>> /\ where # pos /\ (dir = "opening" <=> where > pos)
  PROVE  Status' /\ Follows'
<1>1. /\ target' = where /\ BeginMove(dir, "ha") /\ UNCHANGED <<pos, bidir, added, up>>
      /\ WriteState /\ added /\ Obeys(CmdOf(dir)) /\ slack' = Slip
  BY DEF Drive, Service, Send
<1>2. Status' /\ Record'
  BY <1>1, WriteRecord DEF IInv, TypeOK
<1> SUFFICES ASSUME slack' # Lost PROVE Near' /\ Motor' /\ Path'
  BY <1>2 DEF Follows
<1>3. mpos' = mpos /\ slack' \in Nat /\ TypeOK /\ Follows
  BY <1>1 DEF Obeys, FInv, IInv, TypeOK
<1>4. slack # Lost /\ Near'
  BY <1>1, <1>3, BeginNear
<1>5. UpdatedPos' = pos /\ moving' = dir
  BY <1>1, <1>3, BeginHere
<1>6. Motor'
  <2>1. CmdOf(dir) \in Frame /\ Leads(CmdOf(dir)) = dir
    BY DEF CmdOf, Leads, Frame
  <2> QED
    BY <1>1, <1>3, <1>4, <1>5, <2>1, ObeysMotor DEF Follows
<1>7. ASSUME where # None PROVE Path'
  <2>1. IF dir = "opening" THEN pos < where /\ 0 < where ELSE pos > where /\ Top > where
    <3>1. pos \in 0..Top /\ where \in 0..Top
      BY <1>3, <1>7 DEF TypeOK, Pos
    <3> QED
      BY <1>7, <3>1, CoverAssumption
  <2>2. events' = <<>> \/ events' = Append(<<>>, IF mdir' = "rest" THEN "stop" ELSE mdir')
    BY <1>1, <1>7 DEF Obeys
  <2>3. /\ mdir' \in {"rest", CmdOf(dir)} /\ (mdir' = "rest" => mpos = EndOf(dir))
        /\ CmdOf(dir) \in Frame /\ CmdOf(dir) # "rest"
    BY <1>1, <1>3, CoverAssumption DEF Obeys, CmdOf, EndOf, Frame, TypeOK, Pos
  <2>4. events' # <<>> =>
          /\ Len(events') = 1
          /\ Head(events') = IF mdir' = "rest" THEN "stop" ELSE CmdOf(dir)
    BY <2>2, <2>3
  <2> QED
    BY <1>1, <1>3, <1>5, <2>1, <2>3, <2>4 DEF Path, EndOf, CmdOf, Before
<1> QED
  BY <1>1, <1>4, <1>6, <1>7 DEF Path

LEMMA StopFollows ==
  ASSUME FInv, IInv', StopCover
  PROVE  Status' /\ Follows'
<1>1. /\ pos' = UpdatedPos /\ EndMove /\ WriteState /\ Obeys("stop") /\ added
      /\ UNCHANGED <<slack, bidir, added, up>>
  BY DEF StopCover, StoppedPos, Service, Send
<1>2. Status' /\ Record'
  BY <1>1, WriteRecord DEF IInv, TypeOK
<1> SUFFICES ASSUME slack' # Lost PROVE Near' /\ Motor' /\ Path'
  BY <1>2 DEF Follows
<1>3. /\ mpos' = mpos /\ slack' = slack /\ slack \in Nat /\ Near /\ Motor /\ TypeOK
      /\ moving' = "no" /\ target' = None
  BY <1>1 DEF Obeys, EndMove, FInv, IInv, TypeOK, Follows
<1>4. Near'
  <2>1. Within(pos', mpos', slack')
    BY <1>1, <1>3 DEF Near
  <2> QED
    BY <1>1, <1>3, <2>1, EndHere, NearHere DEF IInv, TypeOK
<1>5. Motor'
  BY <1>1, <1>3, ObeysMotor DEF Leads, Frame
<1> QED
  BY <1>3, <1>4, <1>5 DEF Path

(* A heard press or frame: what it makes of the entity's position.         *)
LEMMA BeginHeard ==
  ASSUME TypeOK, Follows, slack' = Slip, slack' # Lost, slack' \in Nat, mpos' = mpos,
         NEW cmd \in {"up", "down"}, HandleRemote(cmd) \/ HandleEvent(cmd)
  PROVE  slack # Lost /\ Near' /\ moving' = Leads(cmd) /\ UpdatedPos' = pos /\ UNCHANGED <<pos, target>>
<1>1. BeginMove(Leads(cmd), "press") /\ UNCHANGED <<pos, target>> /\ Leads(cmd) \in {"opening", "closing"}
  BY DEF HandleRemote, HandleEvent, Leads
<1> QED
  BY <1>1, BeginNear, BeginHere

LEMMA PressFollows ==
  ASSUME FInv, IInv', ~Overlap, NEW cmd \in Frame, Press(cmd)
  PROVE  Status' /\ Follows'
<1>1. Obeys(cmd) /\ mpos' = mpos /\ UNCHANGED <<bidir, up, added>> /\ target = None
  BY DEF Press, Obeys, entityVars
<1>2. CASE bidir
  <2>1. UNCHANGED <<pos, moving, move, target, loop, shown, slack>>
    BY <1>2 DEF Press, entityVars, loopVars
  <2>2. Status' /\ (Record => Record')
    BY <1>1, <2>1 DEF FInv, Status, Record
  <2> SUFFICES ASSUME slack' # Lost PROVE Follows'
    BY <2>2 DEF Follows
  <2>3. Near /\ Motor /\ Record /\ TypeOK
    BY <2>1 DEF FInv, IInv, Follows
  <2> QED
    BY <1>1, <1>2, <2>1, <2>2, <2>3, NearSame, ObeysMotor DEF Follows, Path, Slept
<1>3. CASE ~bidir /\ ~(added /\ up)
  BY <1>1, <1>3 DEF Press, entityVars, Follows, Status, FInv
<1>4. CASE ~bidir /\ added /\ up
  <2>1. HandleRemote(cmd) /\ slack' = (IF cmd = "stop" THEN slack ELSE Slip)
    BY <1>4 DEF Press
  <2>2. Status' /\ Record'
    BY <1>1, <1>4, <2>1, WriteRecord DEF HandleRemote, IInv, TypeOK
  <2> SUFFICES ASSUME slack' # Lost PROVE Near' /\ Motor' /\ Path'
    BY <2>2 DEF Follows
  <2>3. TypeOK /\ Follows /\ slack' \in Nat
    BY DEF FInv, IInv, TypeOK
  <2>4. slack # Lost /\ Near' /\ moving' = Leads(cmd) /\ target' = None
    <3>1. CASE cmd = "stop"
      <4>1. pos' = UpdatedPos /\ EndMove /\ slack' = slack /\ moving' = "no" /\ target' = None
        BY <2>1, <3>1 DEF HandleRemote, StoppedPos, EndMove
      <4>2. Within(pos', mpos', slack')
        BY <1>1, <2>3, <4>1 DEF Follows, Near
      <4> QED
        BY <2>3, <3>1, <4>1, <4>2, EndHere, NearHere DEF IInv, TypeOK, Leads
    <3>2. CASE cmd # "stop"
      <4>1. cmd \in {"up", "down"} /\ slack' = Slip
        BY <2>1, <3>2 DEF Frame
      <4> QED
        BY <1>1, <2>1, <2>3, <4>1, BeginHeard
    <3> QED
      BY <3>1, <3>2
  <2>5. Motor'
    BY <1>1, <2>3, <2>4, ObeysMotor DEF Follows
  <2> QED
    BY <2>4, <2>5 DEF Path
<1> QED
  BY <1>2, <1>3, <1>4

(* A frame of the motor.  The stop that ends a set-position is that of the *)
(* end stop, so the target, between the two, is near.                      *)
LEMMA Between ==
  \A u, q \in Pos : \A n \in Int :
     /\ u <= q /\ Within(u, Top, n) => Within(q, Top, n)
     /\ u >= q /\ Within(u, 0, n) => Within(q, 0, n)
  BY CoverAssumption DEF Within, Pos

LEMMA EventFollows ==
  ASSUME FInv, IInv', EventArrives
  PROVE  Status' /\ Follows'
<1>1. /\ events # <<>> /\ events' = Tail(events) /\ UNCHANGED <<bidir, up, mpos, mdir, added>>
  BY DEF EventArrives, entityVars
<1>2. CASE ~(added /\ up)
  BY <1>1, <1>2 DEF EventArrives, entityVars, Follows, Status, FInv
<1>3. CASE added /\ up
  <2> DEFINE cmd == Head(events)
  <2>1. HandleEvent(cmd) /\ slack' = (IF cmd = "stop" THEN slack ELSE Slip)
    BY <1>3 DEF EventArrives
  <2>2. Status' /\ Record'
    BY <1>1, <1>3, <2>1, WriteRecord DEF HandleEvent, IInv, TypeOK
  <2> SUFFICES ASSUME slack' # Lost PROVE Near' /\ Motor' /\ Path'
    BY <2>2 DEF Follows
  <2>3. /\ TypeOK /\ OneLoop /\ Follows /\ slack' \in Nat /\ slack # Lost
        /\ cmd \in Frame /\ events \in Seq(Frame)
    BY <1>1, <2>1 DEF Slip, FInv, IInv, TypeOK, Frame
  <2>4. Near /\ Motor /\ Path
    BY <2>3 DEF Follows
  <2> HIDE DEF cmd
  <2>5. CASE cmd = "stop"
    <3>1. /\ pos' = (IF target # None THEN target ELSE UpdatedPos) /\ EndMove /\ slack' = slack
          /\ moving' = "no" /\ target' = None
      BY <2>1, <2>5 DEF HandleEvent, StoppedPos, EndMove
    <3>2. Within(pos', mpos', slack')
      <4>1. CASE target = None
        BY <1>1, <2>4, <3>1, <4>1 DEF Near
      <4>2. CASE target # None
        <5>1. moving \in {"opening", "closing"} /\ target \in Pos
          BY <2>3, <4>2 DEF OneLoop, TypeOK
        <5>2. mpos = EndOf(moving)
          BY <1>1, <2>4, <2>5, <4>2, <5>1 DEF Path, CmdOf, cmd
        <5>3. UpdatedPos = target \/ Before(UpdatedPos, target)
          BY <2>4, <4>2 DEF Path
        <5>4. Within(UpdatedPos, mpos, slack) /\ UpdatedPos \in Pos /\ slack \in Int
          BY <2>3, <2>4, <3>1, UpdatedInPos DEF Near
        <5>5. Within(target, mpos, slack)
          <6>1. IF moving = "opening" THEN UpdatedPos <= target ELSE UpdatedPos >= target
            BY <5>1, <5>3, <5>4, EndsInPos DEF Before
          <6> QED
            BY <5>1, <5>2, <5>4, <6>1, Between DEF EndOf
        <5> QED
          BY <1>1, <3>1, <4>2, <5>5
      <4> QED
        BY <4>1, <4>2
    <3>3. Near'
      BY <2>3, <3>1, <3>2, EndHere, NearHere DEF IInv, TypeOK
    <3>4. events' = <<>> => mdir = "rest"
      BY <1>1, <2>3, <2>4, <2>5, TailLast DEF Motor, TypeOK, cmd
    <3>5. Motor'
      BY <1>1, <2>3, <2>4, <3>1, <3>4, TailLast DEF Motor, Aligned
    <3> QED
      BY <3>1, <3>3, <3>5 DEF Path
  <2>6. CASE cmd # "stop"
    <3>1. cmd \in {"up", "down"}
      BY <2>3, <2>6 DEF Frame
    <3>2. Near' /\ moving' = Leads(cmd) /\ UpdatedPos' = pos /\ UNCHANGED <<pos, target>>
      BY <1>1, <2>1, <2>3, <2>6, <3>1, BeginHeard
    <3>3. events' = <<>> => mdir = cmd
      BY <1>1, <2>3, <2>4, <3>1, TailLast DEF Motor, cmd
    <3>4. Motor'
      BY <1>1, <2>3, <2>4, <3>1, <3>2, <3>3, TailLast DEF Motor, Aligned, Leads
    <3>5. ASSUME target # None PROVE Path'
      <4>1. moving \in {"opening", "closing"}
        BY <2>3, <3>5 DEF OneLoop, TypeOK
      <4>2. Len(events) = 1 /\ cmd = CmdOf(moving) /\ Before(pos, target)
        BY <1>1, <2>4, <2>6, <3>5 DEF Path, cmd
      <4>3. events' = <<>> /\ moving' = moving
        BY <1>1, <2>3, <3>2, <4>1, <4>2, TailLast DEF CmdOf, Leads
      <4> QED
        BY <2>4, <3>2, <3>5, <4>2, <4>3 DEF Path, Before
    <3> QED
      BY <3>2, <3>4, <3>5 DEF Path
  <2> QED
    BY <2>5, <2>6
<1> QED
  BY <1>2, <1>3

LEMMA WakesFollows ==
  ASSUME FInv, IInv', NEW t \in LoopId, LoopWakes(t)
  PROVE  Status' /\ Follows'
<1>1. /\ loop[t] = "due" /\ UNCHANGED <<bidir, calibrated, added, up>>
      /\ UpdatedPos \in Pos /\ moving \in {"opening", "closing"} /\ move # None
  <2>1. loop[t] = "due" /\ UNCHANGED <<bidir, calibrated, added, up>>
    BY DEF LoopWakes
  <2>2. moving # "no" /\ move # None
    BY <2>1, DueLoop DEF FInv
  <2> QED
    BY <2>1, <2>2, UpdatedInPos DEF FInv, IInv, TypeOK
<1>2. Status'
  <2>1. CASE WriteState
    BY <1>1, <2>1 DEF WriteState, Status, FInv, IInv, TypeOK
  <2>2. CASE UNCHANGED shown
    BY <1>1, <2>2 DEF FInv, Status
  <2> QED
    BY <2>1, <2>2 DEF LoopWakes, LoopReaches, LoopFinishes, LoopGoesOn
<1> SUFFICES ASSUME slack' # Lost PROVE Follows'
  BY <1>2 DEF Follows
<1>3. slack' = slack /\ slack # Lost /\ slack \in Nat /\ TypeOK /\ OneLoop
  BY DEF LoopWakes, LoopReaches, LoopFinishes, LoopGoesOn, ghostVars, FInv, IInv, TypeOK
<1>4. Near /\ Motor /\ Path /\ Record
  BY <1>3 DEF FInv, Follows
<1>5. added
  BY <1>1, <1>4 DEF Record
<1>6. CASE LoopReaches(t) \/ LoopFinishes(t)
  <2>1. EndMove /\ moving' = "no" /\ target' = None /\ WriteState
    BY <1>6 DEF LoopReaches, LoopFinishes, EndMove
  <2>2. pos' = UpdatedPos /\ mpos' = mpos
    <3>1. CASE LoopReaches(t)
      <4>1. target \in Pos /\ target # None
        BY <3>1 DEF LoopReaches, Reached, FInv, IInv, TypeOK
      <4>2. ~Before(UpdatedPos, target)
        BY <1>1, <3>1, <4>1, EndsInPos DEF LoopReaches, Reached, Before
      <4>3. UpdatedPos = target
        BY <1>4, <4>1, <4>2 DEF Path
      <4> QED
        BY <3>1, <4>3 DEF LoopReaches, Send, Obeys, motorVars
    <3>2. CASE LoopFinishes(t)
      BY <3>2 DEF LoopFinishes, motorVars
    <3> QED
      BY <1>6, <3>1, <3>2
  <2>3. Near'
    <3>1. Within(pos', mpos', slack')
      BY <1>3, <1>4, <2>2 DEF Near
    <3> QED
      BY <1>3, <2>1, <3>1, EndHere, NearHere DEF IInv, TypeOK
  <2>4. Motor'
    <3>1. CASE Obeys("stop")
      BY <1>1, <1>3, <1>4, <2>1, <3>1, ObeysMotor DEF Leads, Frame
    <3>2. CASE UNCHANGED motorVars /\ UpdatedPos = EndOf(moving)
      BY <1>1, <1>4, <2>1, <2>2, <3>2 DEF Motor, Aligned, EndOf, motorVars
    <3>3. Obeys("stop") \/ (UNCHANGED motorVars /\ UpdatedPos = EndOf(moving))
      <4>1. CASE LoopReaches(t)
        <5>1. target # None /\ target = UpdatedPos /\ (target \notin {0, Top} => up)
          BY <1>3, <2>2, <4>1 DEF LoopReaches, Reached
        <5>2. target \in {0, Top} => target = EndOf(moving)
          BY <1>1, <1>4, <5>1, CoverAssumption DEF Path, Before, EndOf
        <5> QED
          BY <4>1, <5>1, <5>2 DEF LoopReaches, Send
      <4>2. CASE LoopFinishes(t)
        <5>1. UpdatedPos = EndOf(moving)
          BY <1>1, <4>2, CoverAssumption DEF LoopFinishes, AtEnd, EndOf, Pos
        <5> QED
          BY <4>2, <5>1 DEF LoopFinishes
      <4> QED
        BY <1>6, <4>1, <4>2
    <3> QED
      BY <3>1, <3>2, <3>3
  <2>5. Record'
    BY <1>1, <1>5, <2>1, WriteRecord DEF IInv, TypeOK
  <2> QED
    BY <2>1, <2>3, <2>4, <2>5 DEF Follows, Path
<1>7. CASE LoopGoesOn(t)
  <2>1. /\ pos' = UpdatedPos /\ UNCHANGED <<moving, move, target, mpos, mdir, events, slack>>
        /\ ~Reached(UpdatedPos)
    BY <1>7 DEF LoopGoesOn, motorVars, ghostVars
  <2>2. UpdatedPos' = UpdatedPos
    BY <1>1, <2>1 DEF UpdatedPos, Clamp
  <2>3. Near'
    <3>1. Within(pos', mpos', slack')
      BY <1>4, <2>1 DEF Near
    <3> QED
      BY <1>3, <2>1, <2>2, <3>1, NearHere DEF IInv, TypeOK
  <2>4. Motor'
    BY <1>1, <1>4, <2>1 DEF Motor, Aligned
  <2>5. ASSUME target # None PROVE Path'
    <3>1. Before(UpdatedPos, target)
      <4>1. target \in Int /\ UpdatedPos \in Int
        BY <1>1, <1>3, <2>5, EndsInPos DEF TypeOK
      <4>2. UpdatedPos # target
        BY <1>1, <2>1, <2>5, <4>1 DEF Reached
      <4> QED
        BY <1>4, <2>5, <4>2 DEF Path
    <3> QED
      BY <1>4, <2>1, <2>2, <2>5, <3>1 DEF Path, Before, EndOf, CmdOf
  <2>6. Record'
    BY <1>1, <1>5, <2>1 DEF Record
  <2> QED
    BY <2>1, <2>3, <2>4, <2>5, <2>6 DEF Follows, Path
<1> QED
  BY <1>6, <1>7 DEF LoopWakes

LEMMA DiesFollows ==
  ASSUME FInv, NEW t \in LoopId, LoopDies(t)
  PROVE  Status' /\ Follows'
<1>1. /\ UNCHANGED <<bidir, calibrated, entityVars, shown, up, motorVars, ghostVars>>
      /\ loop' = [loop EXCEPT ![t] = "none"]
  BY DEF LoopDies, LoopEnds
<1>2. Slept' => Slept
  BY <1>1 DEF Slept, FInv, IInv, TypeOK
<1> QED
  BY <1>1, <1>2, NearSame, PathSame
  DEF FInv, Status, Follows, Motor, Aligned, Record, entityVars, motorVars, ghostVars

LEMMA LinkFollows ==
  ASSUME FInv, IInv', LinkChanges
  PROVE  Status' /\ Follows'
<1>1. /\ UNCHANGED <<bidir, calibrated, entityVars, loopVars, motorVars, ghostVars>>
      /\ IF added THEN WriteState ELSE UNCHANGED shown
  BY DEF LinkChanges
<1>2. Status' /\ (slack # Lost /\ Record => Record')
  <2>1. CASE added
    BY <1>1, <2>1, WriteRecord DEF entityVars, IInv, TypeOK
  <2>2. CASE ~added
    BY <1>1, <2>2 DEF Status, Record, entityVars
  <2> QED
    BY <2>1, <2>2
<1>3. Slept' => Slept
  BY <1>1 DEF Slept, loopVars
<1> QED
  BY <1>1, <1>2, <1>3, NearSame, PathSame
  DEF FInv, Follows, Motor, Aligned, entityVars, motorVars, ghostVars

LEMMA CalibrationFollows ==
  ASSUME FInv, IInv', CalibrationCompleted
  PROVE  Status' /\ Follows'
<1>1. /\ mdir = "rest" /\ events = <<>> /\ pos' = mpos /\ added
      /\ UNCHANGED <<bidir, added, moving, move, target, loopVars, up, motorVars>> /\ WriteState
      /\ slack' = IF moving = "no" THEN 0 ELSE slack
  BY DEF CalibrationCompleted
<1>2. Status' /\ Record'
  BY <1>1, WriteRecord DEF IInv, TypeOK
<1> SUFFICES ASSUME slack' # Lost PROVE Near' /\ Motor' /\ Path'
  BY <1>2 DEF Follows
<1>3. slack' \in Nat /\ pos' \in Pos /\ mpos' = mpos /\ mpos \in Int /\ TypeOK /\ OneLoop
  BY <1>1, EndsInPos DEF FInv, IInv, TypeOK, motorVars
<1>4. \A m \in Int : \A n \in Nat : Within(m, m, n) /\ Within(m, m, n + 1)
  BY DEF Within
<1>5. CASE moving = "no"
  <2>1. UpdatedPos' = pos' /\ target = None
    BY <1>1, <1>3, <1>5 DEF UpdatedPos, OneLoop
  <2>2. Near'
    BY <1>1, <1>3, <1>4, <2>1, NearHere DEF IInv, TypeOK
  <2> QED
    BY <1>1, <1>5, <2>1, <2>2 DEF Motor, Aligned, Path, motorVars
<1>6. CASE moving # "no"
  <2>1. slack' = slack /\ Near /\ Motor /\ Path
    BY <1>1, <1>6 DEF FInv, Follows
  <2>2. moving \in {"opening", "closing"} /\ move # None
    BY <1>3, <1>6 DEF OneLoop, TypeOK
  <2>3. UpdatedPos' = UpdatedPos
    BY <1>1, <2>2 DEF UpdatedPos, Clamp
  <2>4. Slept' => Slept
    BY <1>1 DEF Slept, loopVars
  <2>5. Near'
    BY <1>1, <1>3, <1>4, <2>1, <2>3 DEF Near
  <2>6. Path'
    BY <1>1, <2>1, <2>3, <2>4 DEF Path, Before, EndOf, CmdOf, motorVars
  <2>7. Motor'
    BY <1>1, <2>1, <2>2 DEF Motor, Aligned, motorVars
  <2> QED
    BY <2>5, <2>6, <2>7
<1> QED
  BY <1>5, <1>6

(* Only an entity at rest with a recorded position leaves a bound behind,  *)
(* and that position is what it comes back with.                           *)
LEMMA RemovedFollows ==
  ASSUME FInv, IInv', Removed
  PROVE  Status' /\ Follows'
<1>1. /\ added' = FALSE /\ EndMove /\ UNCHANGED <<bidir, pos, shown, motorVars>>
  BY DEF Removed
<1>2. Status'
  BY <1>1 DEF Status
<1> SUFFICES ASSUME slack' # Lost PROVE Follows'
  BY <1>2 DEF Follows
<1>3. moving = "no" /\ shown.state # "unavailable" /\ slack' = slack
  BY DEF Removed, ghostVars
<1>4. /\ Near /\ Motor /\ Record /\ UpdatedPos = pos /\ slack' \in Nat /\ mpos' = mpos
      /\ moving' = "no" /\ target' = None
  BY <1>1, <1>3 DEF FInv, IInv, TypeOK, Follows, UpdatedPos, motorVars, EndMove
<1>5. Near'
  <2>1. Within(pos', mpos', slack')
    BY <1>1, <1>3, <1>4 DEF Near
  <2> QED
    BY <1>1, <1>4, <2>1, EndHere, NearHere DEF IInv, TypeOK
<1> QED
  BY <1>1, <1>3, <1>4, <1>5 DEF Follows, Motor, Aligned, Path, Record, motorVars

LEMMA ReaddedFollows ==
  ASSUME FInv, IInv', Readded
  PROVE  Status' /\ Follows'
<1>1. /\ ~added /\ added' = TRUE /\ pos' \in RestoredPos /\ WriteState
      /\ UNCHANGED <<bidir, moving, move, target, loopVars, up, motorVars, ghostVars>>
  BY DEF Readded
<1>2. Status' /\ Record'
  BY <1>1, WriteRecord DEF IInv, TypeOK
<1> SUFFICES ASSUME slack' # Lost PROVE Near' /\ Motor' /\ Path'
  BY <1>2 DEF Follows
<1>3. Near /\ Motor /\ Path /\ Record
  BY <1>1 DEF FInv, Follows, ghostVars
<1>4. shown.state = "rest" /\ shown.pos = pos
  BY <1>1, <1>3 DEF Record
<1>5. pos' = pos
  BY <1>1, <1>4 DEF RestoredPos
<1>6. Slept' => Slept
  BY <1>1 DEF Slept, loopVars
<1> QED
  BY <1>1, <1>3, <1>5, <1>6, NearSame, PathSame DEF Motor, Aligned, motorVars, ghostVars

-----------------------------------------------------------------------------
(* One interval: the entity's clock and the shutter advance together. *)
OneUp(p) == Clamp(p + 1)
OneDown(p) == Clamp(p - 1)
Later(s) == IF s < Top THEN s + 1 ELSE s

LEMMA ClockAdvances ==
  \A f, s \in Pos : /\ Later(s) \in Int
                    /\ Clamp(f + Later(s)) = OneUp(Clamp(f + s))
                    /\ Clamp(f + (-Later(s))) = OneDown(Clamp(f + (-s)))
  BY CoverAssumption DEF Later, OneUp, OneDown, Clamp, Pos

LEMMA StaysNear ==
  \A u, m \in Pos : \A n \in Nat : Within(u, m, n) =>
     /\ Within(OneUp(u), OneUp(m), n) /\ Within(OneDown(u), OneDown(m), n)
     /\ Within(u, OneUp(m), n + 1) /\ Within(u, OneDown(m), n + 1) /\ Within(u, m, n + 1)
     /\ u = Top => Within(u, OneUp(m), n)
     /\ u = 0 => Within(u, OneDown(m), n)
  BY CoverAssumption DEF Within, OneUp, OneDown, Clamp, Pos

LEMMA StaysBefore ==
  \A u, q \in Pos : /\ u < q => OneUp(u) = q \/ OneUp(u) < q
                    /\ u > q => OneDown(u) = q \/ OneDown(u) > q
  BY CoverAssumption DEF OneUp, OneDown, Clamp, Pos

LEMMA OneAtEnds == OneUp(Top) = Top /\ OneDown(0) = 0
  BY CoverAssumption DEF OneUp, OneDown, Clamp

(* The clock of a move. *)
LEMMA TickUpdated ==
  ASSUME IInv, Tick
  PROVE  UpdatedPos' = IF moving = "opening" THEN OneUp(UpdatedPos)
                       ELSE IF moving = "closing" THEN OneDown(UpdatedPos) ELSE pos
<1>1. UNCHANGED <<pos, moving>>
  BY DEF Tick
<1>2. CASE moving = "no"
  BY <1>1, <1>2 DEF UpdatedPos
<1>3. CASE moving # "no"
  <2>1. moving \in {"opening", "closing"} /\ move # None /\ move \in Moves /\ move.from \in Pos /\ move.since \in Pos
    BY <1>3 DEF IInv, TypeOK, OneLoop, Moves
  <2>2. move' = [move EXCEPT !.since = Later(move.since)]
    BY <2>1 DEF Tick, Later
  <2>3. move'.from = move.from /\ move'.since = Later(move.since)
    BY <2>1, <2>2 DEF Moves
  <2>4. move' # None
    <3>1. Later(move.since) \in Pos
      BY <2>1, CoverAssumption DEF Later, Pos
    <3>2. move' \in Moves
      BY <2>1, <2>2, <3>1 DEF Moves
    <3> QED
      BY <3>2, CoverAssumption DEF Moves, Pos
  <2>5. UpdatedPos' = IF move' = None \/ moving' = "no" THEN pos'
                      ELSE Clamp(move'.from + (IF moving' = "opening" THEN move'.since ELSE -move'.since))
    BY DEF UpdatedPos, Clamp
  <2>6. UpdatedPos = Clamp(move.from + (IF moving = "opening" THEN move.since ELSE -move.since))
    BY <2>1 DEF UpdatedPos
  <2>7. UpdatedPos' = Clamp(move.from + (IF moving = "opening" THEN Later(move.since) ELSE -Later(move.since)))
    BY <1>1, <2>1, <2>3, <2>4, <2>5
  <2> QED
    BY <2>1, <2>6, <2>7, ClockAdvances
<1> QED
  BY <1>2, <1>3

(* The shutter of a calibrated motor, or of one at rest. *)
LEMMA TickMotor ==
  ASSUME IInv, Tick, calibrated \/ mdir = "rest"
  PROVE  /\ mpos' = IF mdir = "up" THEN OneUp(mpos) ELSE IF mdir = "down" THEN OneDown(mpos) ELSE mpos
         /\ mdir' = IF (mdir = "up" /\ mpos' = Top) \/ (mdir = "down" /\ mpos' = 0) THEN "rest" ELSE mdir
<1>1. PICK by \in (IF calibrated THEN {1} ELSE 0..2) :
        mpos' = Clamp(mpos + (IF mdir = "up" THEN by ELSE IF mdir = "down" THEN -by ELSE 0))
  BY DEF Tick
<1>2. mpos \in Pos /\ mpos \in Int /\ mdir \in {"rest", "up", "down"}
  BY EndsInPos DEF IInv, TypeOK
<1>3. mpos + (-1) = mpos - 1 /\ mpos + 0 = mpos
  BY <1>2
<1>4. mpos' = IF mdir = "up" THEN OneUp(mpos) ELSE IF mdir = "down" THEN OneDown(mpos) ELSE mpos
  BY <1>1, <1>2, <1>3, ClampPos DEF OneUp, OneDown
<1>5. mdir' = IF mpos' = (IF mdir = "up" THEN Top ELSE 0) THEN "rest" ELSE mdir
  BY DEF Tick
<1>6. mdir' = IF (mdir = "up" /\ mpos' = Top) \/ (mdir = "down" /\ mpos' = 0) THEN "rest" ELSE mdir
  <2>1. CASE mdir = "up"
    <3>1. mdir' = IF mpos' = Top THEN "rest" ELSE "up"
      BY <1>5, <2>1
    <3> QED
      BY <2>1, <3>1
  <2>2. CASE mdir = "down"
    BY <1>5, <2>2
  <2>3. CASE mdir = "rest"
    BY <1>5, <2>3
  <2> QED
    BY <1>2, <2>1, <2>2, <2>3
<1> QED
  BY <1>4, <1>6

LEMMA TickFollows ==
  ASSUME FInv, IInv', Tick
  PROVE  Status' /\ Follows'
<1>1. /\ UNCHANGED <<bidir, added, pos, moving, target, shown, up>> /\ events = <<>>
      /\ \A t \in LoopId : loop[t] \in {"none", "asleep"}
      /\ \A t \in LoopId : loop'[t] # "asleep"
      /\ events' = IF bidir /\ mdir' # mdir THEN <<"stop">> ELSE <<>>
  BY DEF Tick
<1>2. Status'
  BY <1>1 DEF FInv, Status
<1> SUFFICES ASSUME slack' # Lost PROVE Follows'
  BY <1>2 DEF Follows
<1>3. /\ slack' = slack /\ slack \in Nat /\ (calibrated \/ (mdir = "rest" /\ moving = "no"))
      /\ IInv /\ TypeOK /\ OneLoop /\ Near /\ Motor /\ Path /\ Record
  BY DEF Tick, FInv, IInv, TypeOK, Follows
<1>4. /\ Aligned /\ moving \in {"no", "opening", "closing"} /\ mdir \in {"rest", "up", "down"}
      /\ pos \in Pos /\ mpos \in Pos /\ UpdatedPos \in Pos
      /\ moving = "no" => UpdatedPos = pos
  BY <1>1, <1>3, UpdatedInPos DEF Motor, TypeOK, UpdatedPos
<1>5. ~Slept'
  BY <1>1 DEF Slept
<1>6. moving # "no" => Slept
  BY <1>1, <1>3 DEF OneLoop, Alive, Slept
<1>7. /\ mpos' = IF mdir = "up" THEN OneUp(mpos) ELSE IF mdir = "down" THEN OneDown(mpos) ELSE mpos
      /\ mdir' = IF (mdir = "up" /\ mpos' = Top) \/ (mdir = "down" /\ mpos' = 0) THEN "rest" ELSE mdir
  BY <1>3, TickMotor
<1>8. UpdatedPos' = IF moving = "opening" THEN OneUp(UpdatedPos)
                    ELSE IF moving = "closing" THEN OneDown(UpdatedPos) ELSE pos
  BY <1>3, TickUpdated
<1>9. /\ moving = "opening" => mpos' = OneUp(mpos)
      /\ moving = "closing" => mpos' = OneDown(mpos)
  BY <1>4, <1>7, OneAtEnds DEF Aligned
<1>10. Near'
  <2>1. Within(UpdatedPos, mpos, slack) /\ Within(pos, mpos, slack)
    BY <1>3, <1>4, <1>6 DEF Near
  <2>2. Within(UpdatedPos', mpos', slack)
    <3>1. CASE moving = "no"
      <4>1. mpos' = mpos \/ (pos = Top /\ mpos' = OneUp(mpos)) \/ (pos = 0 /\ mpos' = OneDown(mpos))
        BY <1>4, <1>7, <3>1 DEF Aligned
      <4> QED
        BY <1>3, <1>4, <1>8, <2>1, <3>1, <4>1, StaysNear
    <3>2. CASE moving # "no"
      BY <1>3, <1>4, <1>8, <1>9, <2>1, <3>2, StaysNear
    <3> QED
      BY <3>1, <3>2
  <2>3. Within(pos, mpos', slack + 1)
    BY <1>3, <1>4, <1>7, <2>1, StaysNear
  <2> QED
    BY <1>1, <1>3, <1>5, <2>2, <2>3 DEF Near
<1>11. Motor'
  <2>1. mpos' \in Pos /\ 0 \in Pos /\ Top \in Pos /\ (\A p \in Pos : (p # Top => p < Top) /\ (p # 0 => p > 0))
    BY EndsInPos, CoverAssumption DEF IInv, TypeOK, Pos
  <2>2. (mdir' = "up" => mpos' < Top) /\ (mdir' = "down" => mpos' > 0)
    <3>1. (mdir' = "up" => mpos' # Top) /\ (mdir' = "down" => mpos' # 0)
      BY <1>4, <1>7
    <3> QED
      BY <2>1, <3>1
  <2>3. events' # <<>> => bidir' /\ events'[Len(events')] = "stop" /\ mdir' = "rest"
    <3>1. mdir' # mdir => mdir' = "rest"
      BY <1>7
    <3>2. Len(<<"stop">>) = 1 /\ <<"stop">>[1] = "stop"
      OBVIOUS
    <3> QED
      BY <1>1, <3>1, <3>2
  <2>4. events' = <<>> => Aligned'
    <3>1. mdir' \in {"rest", mdir}
      BY <1>7
    <3>2. mdir' = "rest" /\ mdir = "up" => mpos' = Top
      BY <1>7
    <3>3. mdir' = "rest" /\ mdir = "down" => mpos' = 0
      BY <1>7
    <3>4. mdir = "rest" => mpos' = mpos
      BY <1>7
    <3> QED
      BY <1>1, <1>4, <3>1, <3>2, <3>3, <3>4 DEF Aligned
  <2> QED
    BY <2>2, <2>3, <2>4 DEF Motor
<1>12. ASSUME target # None PROVE Path'
  <2>1. moving \in {"opening", "closing"} /\ target \in Pos
    BY <1>3, <1>4, <1>12 DEF OneLoop, TypeOK
  <2>2. Before(UpdatedPos, target)
    BY <1>3, <1>6, <1>12, <2>1 DEF Path
  <2>3. UpdatedPos' = target \/ Before(UpdatedPos', target)
    BY <1>4, <1>8, <2>1, <2>2, StaysBefore DEF Before
  <2>4. events' # <<>> => events' = <<"stop">> /\ mpos' = EndOf(moving)
    <3>1. mdir' # mdir => mpos' = EndOf(moving)
      BY <1>4, <1>7, <2>1 DEF Aligned, EndOf
    <3> QED
      BY <1>1, <3>1
  <2>5. Len(<<"stop">>) = 1 /\ Head(<<"stop">>) = "stop"
    OBVIOUS
  <2> QED
    BY <1>1, <1>3, <1>5, <1>12, <2>3, <2>4, <2>5 DEF Path, Before, EndOf
<1>13. Record'
  BY <1>1, <1>3 DEF Record
<1> QED
  BY <1>1, <1>10, <1>11, <1>12, <1>13 DEF Follows, Path

-----------------------------------------------------------------------------
LEMMA FInvStep == ASSUME ~Overlap PROVE FInv /\ [Next]_vars => FInv'
<1> SUFFICES ASSUME FInv, [Next]_vars PROVE FInv'
  OBVIOUS
<1>1. IInv'
  BY IInvStep DEF FInv
<1> SUFFICES Status' /\ Follows'
  BY <1>1 DEF FInv
<1>2. CASE OpenOrClose
  BY <1>1, <1>2, DriveFollows DEF OpenOrClose
<1>3. CASE SetPosition
  <2>1. PICK where \in Pos \ {pos} : Drive(IF where > pos THEN "opening" ELSE "closing", where)
    BY <1>3 DEF SetPosition
  <2>2. events = <<>> /\ Service
    BY <1>3 DEF SetPosition
  <2> QED
    BY <1>1, <2>1, <2>2, DriveFollows
<1>4. CASE StopCover
  BY <1>1, <1>4, StopFollows
<1>5. ASSUME NEW cmd \in {"up", "down", "stop"}, Press(cmd) PROVE Status' /\ Follows'
  BY <1>1, <1>5, PressFollows DEF Frame
<1>6. CASE EventArrives
  BY <1>1, <1>6, EventFollows
<1>7. ASSUME NEW t \in LoopId, LoopWakes(t) \/ LoopDies(t) PROVE Status' /\ Follows'
  BY <1>1, <1>7, WakesFollows, DiesFollows
<1>8. CASE LinkChanges
  BY <1>1, <1>8, LinkFollows
<1>9. CASE CalibrationCompleted
  BY <1>1, <1>9, CalibrationFollows
<1>10. CASE Removed
  BY <1>1, <1>10, RemovedFollows
<1>11. CASE Readded
  BY <1>1, <1>11, ReaddedFollows
<1>12. CASE Tick
  BY <1>1, <1>12, TickFollows
<1>13. CASE UNCHANGED vars
  <2>1. UNCHANGED <<bidir, added, pos, moving, move, target, loop, shown, up, mpos, mdir, events, slack>>
    BY <1>13 DEF vars, entityVars, loopVars, motorVars, ghostVars
  <2>2. Slept' => Slept
    BY <2>1 DEF Slept
  <2> QED
    BY <2>1, <2>2, NearSame, PathSame DEF FInv, Status, Follows, Motor, Aligned, Record
<1> QED
  BY <1>2, <1>3, <1>4, <1>5, <1>6, <1>7, <1>8, <1>9, <1>10, <1>11, <1>12, <1>13 DEF Next

LEMMA FInvAtRest == FInv => AtRestExact
<1> SUFFICES ASSUME FInv, Quiet, up, slack # Lost
             PROVE  shown.state = "rest" /\ Distance(shown.pos, mpos) <= slack
  BY DEF AtRestExact
<1>1. shown = [state |-> "rest", pos |-> pos]
  BY DEF FInv, Status, Follows, Record, Quiet
<1>2. Within(pos, mpos, slack) /\ pos \in Int /\ mpos \in Int /\ slack \in Int
  BY EndsInPos DEF FInv, IInv, TypeOK, Follows, Near, UpdatedPos, Quiet
<1> QED
  BY <1>1, <1>2 DEF Within, Distance

(* Without a wall switch or remote used during a set-position, what Home   *)
(* Assistant shows of a shutter at rest is off by no more than the         *)
(* restarts and reversals the loop had not counted, however long and in    *)
(* whatever order it was driven, stopped, unplugged, calibrated and        *)
(* restarted.                                                              *)
THEOREM ShownIsWhereItIs == ASSUME ~Overlap PROVE Spec => []AtRestExact
<1>1. Init => FInv
  BY InitInv, InitFollows DEF FInv
<1>2. FInv /\ [Next]_vars => FInv'
  BY FInvStep
<1>3. FInv => AtRestExact
  BY FInvAtRest
<1> QED
  BY <1>1, <1>2, <1>3, PTL DEF Spec

-----------------------------------------------------------------------------
(* Where a command leads.  GoalReached says nothing of the way there: Led  *)
(* adds that the motor, the entity and, between a removal and a restart,   *)
(* the recorded state lead to the goal.                                    *)

(* An entity that Home Assistant knows has written what it holds. *)
Told == added /\ shown.state # "unavailable" =>
    IF moving = "no" THEN shown = [state |-> "rest", pos |-> pos] ELSE shown.state = moving

Plain ==
    /\ target # None => bidir \/ calibrated
    /\ ~bidir => events = <<>>
    /\ ~added => moving = "no"
    /\ Told

(* Where the motor ends, where the entity ends, and where an entity that    *)
(* comes back begins, if nothing interferes.                               *)
EndOfCmd(cmd) == IF cmd = "up" THEN Top ELSE 0
Final == IF mdir = "rest" THEN mpos ELSE IF target # None THEN target ELSE EndOfCmd(mdir)
Heading == IF moving = "no" THEN pos ELSE IF target = None THEN EndOf(moving) ELSE target
Restored == IF shown.state = "rest" THEN shown.pos ELSE EndOf(shown.state)

(* A command that nothing interfered with leads both to its goal.  Only a  *)
(* timed motor may have lost the bound on its position, and only on the    *)
(* way to an end stop; no frame of its own restarts a bidirectional one.   *)
Led == goal # None =>
    /\ goal = Final
    /\ target # None => slack = 0
    /\ bidir => slack = 0 /\ (UpdatedPos = pos \/ events \in {<<>>, <<"stop">>})
    /\ ~bidir /\ added => goal = Heading
    /\ ~bidir /\ ~added => shown.state # "unavailable" /\ goal = Restored

GInv == FInv /\ Plain /\ Led

-----------------------------------------------------------------------------
LEMMA WriteTold == ASSUME WriteState, moving' \in {"no", "opening", "closing"} PROVE Told'
  BY DEF WriteState, Told

LEMMA SendPlain ==
  ASSUME Plain, bidir' = bidir, NEW cmd, Send(cmd) \/ Obeys(cmd) \/ UNCHANGED motorVars
  PROVE  ~bidir' => events' = <<>>
  BY DEF Send, Obeys, Plain, motorVars

LEMMA PlainStep ==
  ASSUME IInv, IInv', Plain, [Next]_vars
  PROVE  Plain'
<1>1. ASSUME NEW dir \in {"opening", "closing"}, NEW where \in Pos \cup {None}, Service,
             where # None => bidir \/ calibrated, Drive(dir, where)
      PROVE  Plain'
  BY <1>1, SendPlain, WriteTold DEF Drive, Service, Plain, IInv, TypeOK
<1>2. CASE OpenOrClose
  BY <1>1, <1>2 DEF OpenOrClose
<1>3. CASE SetPosition
  BY <1>1, <1>3 DEF SetPosition
<1>4. CASE StopCover
  BY <1>4, SendPlain, WriteTold DEF StopCover, Service, EndMove, Plain, IInv, TypeOK
<1>5. ASSUME NEW cmd \in Frame, Press(cmd) PROVE Plain'
  <2>1. UNCHANGED <<bidir, calibrated, added>> /\ (~bidir' => events' = <<>>)
    BY <1>5, SendPlain DEF Press, entityVars
  <2>2. CASE UNCHANGED <<entityVars, loopVars, shown>>
    BY <2>1, <2>2 DEF Plain, Told, entityVars
  <2>3. CASE HandleRemote(cmd) /\ added
    BY <2>1, <2>3, WriteTold DEF HandleRemote, EndMove, Plain, IInv, TypeOK
  <2> QED
    BY <1>5, <2>2, <2>3 DEF Press
<1>6. CASE EventArrives
  <2>1. UNCHANGED <<bidir, calibrated, added>> /\ bidir
    BY <1>6 DEF EventArrives, Plain, entityVars
  <2>2. CASE UNCHANGED <<entityVars, loopVars, shown>>
    BY <2>1, <2>2 DEF Plain, Told, entityVars
  <2>3. CASE HandleEvent(Head(events)) /\ added
    BY <2>1, <2>3, WriteTold DEF HandleEvent, EndMove, Plain, IInv, TypeOK
  <2> QED
    BY <1>6, <2>2, <2>3 DEF EventArrives
<1>7. ASSUME NEW t \in LoopId, LoopWakes(t) PROVE Plain'
  <2>1. UNCHANGED <<bidir, calibrated, added>> /\ loop[t] = "due" /\ moving # "no"
    BY <1>7, DueLoop DEF LoopWakes
  <2>2. added
    BY <2>1 DEF Plain
  <2>3. ~bidir' => events' = <<>>
    BY <1>7, <2>1, SendPlain DEF LoopWakes, LoopReaches, LoopFinishes, LoopGoesOn
  <2>4. CASE WriteState
    BY <1>7, <2>1, <2>2, <2>3, <2>4, WriteTold
    DEF LoopWakes, LoopReaches, LoopFinishes, LoopGoesOn, EndMove, Plain, IInv, TypeOK
  <2>5. CASE LoopGoesOn(t) /\ UNCHANGED shown
    BY <2>1, <2>2, <2>3, <2>5 DEF LoopGoesOn, Plain, Told
  <2> QED
    BY <1>7, <2>4, <2>5 DEF LoopWakes, LoopReaches, LoopFinishes, LoopGoesOn
<1>8. ASSUME NEW t \in LoopId, LoopDies(t) PROVE Plain'
  BY <1>8 DEF LoopDies, Plain, Told, entityVars, motorVars
<1>9. CASE LinkChanges
  BY <1>9, WriteTold DEF LinkChanges, Plain, Told, entityVars, motorVars, IInv, TypeOK
<1>10. CASE CalibrationCompleted
  BY <1>10, WriteTold DEF CalibrationCompleted, Plain, motorVars, IInv, TypeOK
<1>11. CASE Removed
  BY <1>11 DEF Removed, EndMove, Plain, Told, motorVars
<1>12. CASE Readded
  BY <1>12, WriteTold DEF Readded, Plain, motorVars, IInv, TypeOK
<1>13. CASE Tick
  BY <1>13 DEF Tick, Plain, Told
<1>14. CASE UNCHANGED vars
  BY <1>14 DEF Plain, Told, vars, entityVars, motorVars
<1> QED
  BY <1>2, <1>3, <1>4, <1>5, <1>6, <1>7, <1>8, <1>9, <1>10, <1>11, <1>12, <1>13, <1>14
  DEF Next, Frame

-----------------------------------------------------------------------------
(* A slack of nothing: the entity and the shutter are in one place.        *)
LEMMA Exact ==
  ASSUME FInv, slack = 0
  PROVE  /\ UpdatedPos = mpos /\ Near /\ Motor /\ Path /\ Record
         /\ Slept => pos = mpos
<1>1. slack # Lost /\ Near /\ Motor /\ Path /\ Record
  BY CoverAssumption DEF FInv, Follows
<1>2. UpdatedPos \in Int /\ mpos \in Int /\ pos \in Int
  BY UpdatedInPos, EndsInPos DEF FInv, IInv, TypeOK
<1> QED
  BY <1>1, <1>2 DEF Near, Within

LEMMA DriveLed ==
  ASSUME GInv, Service, NEW dir \in {"opening", "closing"}, NEW where \in Pos \cup {None},
         Drive(dir, where), slack' \in Nat \cup {Lost},
         where # None => where # pos /\ (dir = "opening" <=> where > pos)
  PROVE  Led'
<1>1. /\ target' = where /\ BeginMove(dir, "ha") /\ UNCHANGED <<pos, bidir, added>>
      /\ Obeys(CmdOf(dir)) /\ slack' = Slip /\ mpos' = mpos /\ added /\ TypeOK
  BY DEF Drive, Service, Send, Obeys, GInv, FInv, IInv
<1> SUFFICES ASSUME goal' # None PROVE Led'
  BY DEF Led
<1>2. /\ goal' = (IF where = None THEN EndOf(dir) ELSE where)
      /\ slack' = 0 \/ (where = None /\ ~bidir)
  BY DEF Drive
<1>3. UpdatedPos' = pos /\ moving' = dir
  BY <1>1, BeginHere
<1>4. goal' = Heading'
  BY <1>1, <1>2, <1>3 DEF Heading, EndOf
<1>5. /\ mdir' \in {"rest", CmdOf(dir)} /\ (mdir' = "rest" => mpos = EndOf(dir))
      /\ CmdOf(dir) # "rest" /\ EndOfCmd(CmdOf(dir)) = EndOf(dir)
  BY <1>1, CoverAssumption DEF Obeys, CmdOf, EndOf, EndOfCmd, TypeOK, Pos
<1>6. ASSUME where # None, mdir' = "rest" PROVE FALSE
  <2>1. slack' = 0 /\ slack' # Lost
    BY <1>2, <1>6, CoverAssumption
  <2>2. slack = 0 /\ UpdatedPos = pos
    BY <1>1, <2>1 DEF Slip, TypeOK
  <2>3. pos = EndOf(dir)
    BY <1>5, <1>6, <2>2, Exact DEF GInv
  <2>4. pos \in 0..Top /\ where \in 0..Top
    BY <1>1, <1>6 DEF TypeOK, Pos
  <2> QED
    BY <1>6, <2>3, <2>4, CoverAssumption DEF EndOf
<1>7. goal' = Final'
  BY <1>1, <1>2, <1>5, <1>6 DEF Final
<1> QED
  BY <1>1, <1>2, <1>3, <1>4, <1>7 DEF Led

LEMMA EventLed ==
  ASSUME GInv, EventArrives
  PROVE  Led'
<1>1. /\ events # <<>> /\ events' = Tail(events) /\ UNCHANGED <<bidir, up, mpos, mdir, added>>
      /\ bidir /\ TypeOK
  BY DEF EventArrives, entityVars, GInv, Plain, FInv, IInv
<1> SUFFICES ASSUME goal' # None PROVE Led'
  BY DEF Led
<1> DEFINE cmd == Head(events)
<1>2. /\ HandleEvent(cmd) /\ slack' = (IF cmd = "stop" THEN slack ELSE Slip) /\ goal' = goal /\ added
  BY DEF EventArrives
<1>3. /\ goal = Final /\ slack = 0 /\ (UpdatedPos = pos \/ events = <<"stop">>)
      /\ Motor /\ Path /\ cmd \in Frame /\ events \in Seq(Frame)
  BY <1>1, <1>2, Exact DEF GInv, Led, TypeOK, Frame
<1>4. CASE cmd = "stop"
  <2>1. EndMove /\ target' = None /\ slack' = 0
    BY <1>2, <1>3, <1>4 DEF HandleEvent, EndMove
  <2>2. target # None => mdir = "rest"
    <3>1. target # None => Len(events) = 1
      BY <1>1, <1>3 DEF Path
    <3>2. Len(events) = 1 => Head(events) = events[Len(events)]
      BY <1>1, <1>3, TailLast
    <3> QED
      BY <1>1, <1>3, <1>4, <3>1, <3>2 DEF Motor, TypeOK
  <2>3. Final' = Final
    BY <1>1, <2>1, <2>2 DEF Final, EndOfCmd
  <2> QED
    BY <1>1, <1>2, <1>3, <2>1, <2>3, EndHere DEF Led
<1>5. CASE cmd # "stop"
  <2>1. BeginMove(Leads(cmd), "press") /\ UNCHANGED <<pos, target>> /\ Leads(cmd) \in {"opening", "closing"}
    BY <1>2, <1>3, <1>5 DEF HandleEvent, Leads, Frame
  <2>2. UpdatedPos' = pos'
    BY <1>1, <2>1, BeginHere
  <2>3. events # <<"stop">>
    BY <1>5
  <2>4. slack' = 0
    BY <1>2, <1>3, <1>5, <2>3 DEF Slip
  <2>5. Final' = Final
    BY <1>1, <2>1 DEF Final, EndOfCmd
  <2> QED
    BY <1>1, <1>2, <1>3, <2>2, <2>4, <2>5 DEF Led
<1> QED
  BY <1>4, <1>5

LEMMA WakesLed ==
  ASSUME GInv, NEW t \in LoopId, LoopWakes(t)
  PROVE  Led'
<1>1. /\ loop[t] = "due" /\ UNCHANGED <<bidir, added>> /\ TypeOK /\ UpdatedPos \in Pos
      /\ moving \in {"opening", "closing"} /\ move # None /\ added
  <2>1. loop[t] = "due" /\ UNCHANGED <<bidir, added>> /\ TypeOK /\ IInv
    BY DEF LoopWakes, GInv, FInv, IInv
  <2>2. moving # "no" /\ move # None
    BY <2>1, DueLoop
  <2> QED
    BY <2>1, <2>2, UpdatedInPos DEF GInv, Plain, TypeOK
<1> SUFFICES ASSUME goal' # None PROVE Led'
  BY DEF Led
<1>2. goal' = goal /\ slack' = slack /\ mpos' = mpos
  BY DEF LoopWakes, LoopReaches, LoopFinishes, LoopGoesOn, ghostVars, motorVars, Send, Obeys
<1>3. /\ goal = Final /\ (target # None => slack = 0) /\ (bidir => slack = 0)
      /\ (~bidir => goal = Heading)
  BY <1>1, <1>2 DEF GInv, Led
<1>4. CASE LoopReaches(t)
  <2>1. /\ EndMove /\ pos' = target /\ target # None /\ target \in Pos
        /\ moving' = "no" /\ target' = None
    BY <1>1, <1>4 DEF LoopReaches, Reached, EndMove, TypeOK
  <2>2. slack = 0 /\ UpdatedPos = mpos /\ Motor /\ Path
    BY <1>3, <2>1, Exact DEF GInv
  <2>3. UpdatedPos = target
    <3>1. ~Before(UpdatedPos, target)
      BY <1>1, <1>4, <2>1, EndsInPos DEF LoopReaches, Reached, Before
    <3> QED
      BY <2>1, <2>2, <3>1 DEF Path
  <2>4. goal' = target
    BY <1>2, <1>3, <2>1, <2>2, <2>3 DEF Final
  <2>5. mdir' = "rest"
    <3>1. CASE target \notin {0, Top}
      <4>1. Send("stop") /\ up
        BY <1>2, <1>4, <3>1 DEF LoopReaches
      <4> QED
        BY <4>1 DEF Send, Obeys
    <3>2. CASE target \in {0, Top}
      <4>1. target = EndOf(moving) /\ mdir' = mdir
        BY <1>1, <1>4, <2>1, <2>2, <3>2, CoverAssumption
        DEF LoopReaches, motorVars, Path, Before, EndOf
      <4>2. mdir # "rest" => mdir = CmdOf(moving)
        <5>1. CASE events = <<>>
          BY <1>1, <2>2, <5>1 DEF Motor, Aligned, CmdOf
        <5>2. CASE events # <<>>
          <6>1. Len(events) = 1 /\ Head(events) \in {"stop", CmdOf(moving)}
            BY <2>1, <2>2, <5>2 DEF Path
          <6>2. Head(events) = events[Len(events)]
            BY <1>1, <5>2, <6>1, TailLast DEF TypeOK, Frame
          <6> QED
            BY <1>1, <2>2, <5>2, <6>1, <6>2 DEF Motor, TypeOK
        <5> QED
          BY <5>1, <5>2
      <4>3. mpos = EndOf(moving)
        BY <2>2, <2>3, <4>1
      <4>4. mdir = "up" => mpos # Top
        BY <2>2, CoverAssumption DEF Motor
      <4>5. mdir = "down" => mpos # 0
        BY <2>2 DEF Motor
      <4> QED
        BY <1>1, <4>1, <4>2, <4>3, <4>4, <4>5 DEF EndOf, CmdOf
    <3> QED
      BY <3>1, <3>2
  <2>6. Final' = goal' /\ Heading' = goal'
    BY <1>2, <2>1, <2>2, <2>3, <2>4, <2>5 DEF Final, Heading
  <2> QED
    BY <1>1, <1>2, <1>3, <2>1, <2>6, EndHere DEF Led
<1>5. CASE LoopFinishes(t)
  <2>1. /\ EndMove /\ pos' = UpdatedPos /\ target = None /\ UNCHANGED motorVars
        /\ moving' = "no" /\ target' = None
    BY <1>5 DEF LoopFinishes, EndMove
  <2>2. UpdatedPos = EndOf(moving)
    BY <1>1, <1>5, CoverAssumption DEF LoopFinishes, AtEnd, EndOf, Pos
  <2>3. Final' = Final /\ (~bidir => Heading' = Heading)
    BY <1>1, <2>1, <2>2 DEF Final, Heading, EndOfCmd, motorVars
  <2> QED
    BY <1>1, <1>2, <1>3, <2>1, <2>3, EndHere DEF Led
<1>6. CASE LoopGoesOn(t)
  <2>1. pos' = UpdatedPos /\ UNCHANGED <<moving, move, target, mpos, mdir, events>>
    BY <1>6 DEF LoopGoesOn, motorVars
  <2>2. UpdatedPos' = UpdatedPos
    BY <1>1, <2>1 DEF UpdatedPos, Clamp
  <2>3. Final' = Final /\ Heading' = Heading
    BY <1>1, <2>1 DEF Final, Heading, EndOfCmd, EndOf
  <2> QED
    BY <1>1, <1>2, <1>3, <2>1, <2>2, <2>3 DEF Led
<1> QED
  BY <1>4, <1>5, <1>6 DEF LoopWakes

(* Where a command leads does not depend on the loops and the link.        *)
LEMMA LedSame ==
  ASSUME GInv, UNCHANGED <<bidir, added, pos, moving, move, target, mpos, mdir, events, slack, goal>>,
         ~added => UNCHANGED shown
  PROVE  Led'
<1>1. UpdatedPos' = UpdatedPos /\ Final' = Final /\ Heading' = Heading
  BY DEF UpdatedPos, Clamp, Final, EndOfCmd, Heading, EndOf
<1>2. ~added => Restored' = Restored
  BY DEF Restored, EndOf
<1> QED
  BY <1>1, <1>2 DEF GInv, Led

LEMMA CalibrationLed ==
  ASSUME GInv, CalibrationCompleted
  PROVE  Led'
<1> SUFFICES ASSUME goal' # None PROVE Led'
  BY DEF Led
<1>1. /\ moving = "no" /\ slack' = 0 /\ goal' = pos' /\ pos' = mpos /\ mdir = "rest" /\ events = <<>>
      /\ added /\ UNCHANGED <<bidir, added, moving, move, target, motorVars>>
  BY DEF CalibrationCompleted
<1>2. target' = None
  BY <1>1 DEF GInv, FInv, IInv, OneLoop
<1> QED
  BY <1>1, <1>2 DEF Led, Final, Heading, motorVars

LEMMA RemovedLed ==
  ASSUME GInv, Removed
  PROVE  Led'
<1> SUFFICES ASSUME goal' # None PROVE Led'
  BY DEF Led
<1>1. /\ added /\ added' = FALSE /\ EndMove /\ moving' = "no" /\ target' = None
      /\ UNCHANGED <<bidir, pos, shown, motorVars>> /\ UpdatedPos' = pos'
  BY EndHere DEF Removed, EndMove, UpdatedPos
<1>2. shown.state # "unavailable" /\ Told
  BY DEF Removed, GInv, Plain
<1>3. CASE moving = "no"
  <2>1. goal' = goal /\ slack' = slack /\ target = None
    BY <1>2, <1>3 DEF Removed, ghostVars, GInv, FInv, IInv, OneLoop
  <2>2. goal = Final /\ (bidir => slack = 0) /\ (~bidir => goal = pos)
    BY <1>1, <1>3, <2>1 DEF GInv, Led, Heading
  <2>3. shown.state = "rest" /\ shown.pos = pos
    BY <1>1, <1>2, <1>3 DEF Told
  <2>4. Final' = Final
    BY <1>1, <2>1 DEF Final, EndOfCmd, motorVars
  <2> QED
    BY <1>1, <2>1, <2>2, <2>3, <2>4 DEF Led, Restored
<1>4. CASE moving # "no"
  <2>1. ~bidir /\ CmdOf(moving) = mdir /\ goal' = EndOf(moving)
    BY <1>4 DEF Removed
  <2>2. shown.state = moving /\ moving \in {"opening", "closing"}
    BY <1>1, <1>2, <1>4 DEF Told, GInv, FInv, IInv, TypeOK
  <2>3. goal' = Restored'
    BY <1>1, <2>1, <2>2 DEF Restored, EndOf
  <2>4. goal' = Final'
    BY <1>1, <2>1, <2>2 DEF Final, EndOfCmd, EndOf, CmdOf, motorVars
  <2> QED
    BY <1>1, <1>2, <2>1, <2>3, <2>4 DEF Led
<1> QED
  BY <1>3, <1>4

LEMMA ReaddedLed ==
  ASSUME GInv, Readded
  PROVE  Led'
<1> SUFFICES ASSUME goal' # None PROVE Led'
  BY DEF Led
<1>1. /\ ~added /\ added' = TRUE /\ pos' \in RestoredPos /\ moving = "no" /\ target = None
      /\ UNCHANGED <<bidir, moving, move, target, motorVars, slack, goal>>
  BY DEF Readded, ghostVars, GInv, Plain, FInv, IInv, OneLoop
<1>2. UpdatedPos' = pos' /\ Final' = Final /\ Heading' = pos'
  BY <1>1 DEF UpdatedPos, Final, EndOfCmd, Heading, motorVars
<1>3. goal = Final /\ (bidir => slack = 0) /\ (~bidir => shown.state # "unavailable" /\ goal = Restored)
  BY <1>1 DEF GInv, Led
<1>4. ~bidir => pos' = goal
  BY <1>1, <1>3 DEF RestoredPos, Restored
<1> QED
  BY <1>1, <1>2, <1>3, <1>4 DEF Led

LEMMA TickLed ==
  ASSUME GInv, Tick
  PROVE  Led'
<1> SUFFICES ASSUME goal' # None PROVE Led'
  BY DEF Led
<1>1. /\ UNCHANGED <<bidir, calibrated, added, pos, moving, target, shown>> /\ events = <<>>
      /\ events' = (IF bidir /\ mdir' # mdir THEN <<"stop">> ELSE <<>>)
      /\ goal' = goal /\ (slack' = Lost => ~bidir /\ goal \in {0, Top})
      /\ slack' = IF ~calibrated /\ (mdir # "rest" \/ moving # "no") THEN Lost ELSE slack
      /\ IInv /\ TypeOK /\ OneLoop
  BY DEF Tick, GInv, FInv, IInv
<1>2. /\ goal = Final /\ (target # None => slack = 0) /\ (bidir => slack = 0)
      /\ (~bidir /\ added => goal = Heading)
      /\ (~bidir /\ ~added => shown.state # "unavailable" /\ goal = Restored)
  BY <1>1 DEF GInv, Led
<1>3. (bidir => slack' = 0) /\ (target # None => slack' = 0)
  BY <1>1, <1>2 DEF GInv, Plain
<1>4. Heading' = Heading /\ Restored' = Restored
  BY <1>1 DEF Heading, Restored, EndOf
<1>5. goal = Final'
  <2>1. PICK by \in (IF calibrated THEN {1} ELSE 0..2) :
          mpos' = Clamp(mpos + (IF mdir = "up" THEN by ELSE IF mdir = "down" THEN -by ELSE 0))
    BY DEF Tick
  <2>2. mdir' = IF mpos' = (IF mdir = "up" THEN Top ELSE 0) THEN "rest" ELSE mdir
    BY DEF Tick
  <2>3. CASE mdir = "rest"
    <3>1. mpos' = mpos /\ mdir' = "rest"
      <4>1. mpos \in Pos /\ mpos + 0 = mpos
        BY <1>1, EndsInPos DEF TypeOK
      <4>2. mpos' = Clamp(mpos + 0)
        BY <2>1, <2>3
      <4> QED
        BY <2>2, <2>3, <4>1, <4>2, ClampPos
    <3> QED
      BY <1>2, <2>3, <3>1 DEF Final
  <2>4. CASE mdir # "rest" /\ target = None
    <3>1. mdir' = mdir \/ (mdir' = "rest" /\ mpos' = EndOfCmd(mdir))
      BY <2>2 DEF EndOfCmd
    <3> QED
      BY <1>1, <1>2, <2>4, <3>1 DEF Final, EndOfCmd
  <2>5. CASE mdir # "rest" /\ target # None
    <3>1. goal = target /\ slack = 0 /\ UpdatedPos = mpos /\ Motor /\ Path
      BY <1>2, <2>5, Exact DEF GInv, Final
    <3>2. moving \in {"opening", "closing"} /\ target \in Pos /\ mpos \in Pos
      BY <1>1, <2>5 DEF OneLoop, TypeOK
    <3>3. mdir = CmdOf(moving)
      BY <1>1, <2>5, <3>1, <3>2 DEF Motor, Aligned, CmdOf
    <3>4. Slept
      BY <1>1, <3>2 DEF Tick, OneLoop, Alive, Slept
    <3>5. Before(mpos, target)
      BY <2>5, <3>1, <3>4 DEF Path
    <3>6. calibrated
      BY <1>1, <1>3, <2>5, CoverAssumption
    <3>7. /\ mpos' = IF mdir = "up" THEN OneUp(mpos) ELSE IF mdir = "down" THEN OneDown(mpos) ELSE mpos
          /\ mdir' = IF (mdir = "up" /\ mpos' = Top) \/ (mdir = "down" /\ mpos' = 0) THEN "rest" ELSE mdir
      BY <1>1, <3>6, TickMotor
    <3>8. CASE mdir' = "rest"
      <4>1. mpos' = EndOf(moving)
        BY <2>5, <3>2, <3>7, <3>8, <3>3 DEF CmdOf, EndOf
      <4>2. EndOf(moving) = target \/ Before(EndOf(moving), target)
        <5>1. CASE moving = "opening"
          <6>1. mpos < target /\ mpos' = OneUp(mpos)
            BY <3>3, <3>5, <3>7, <5>1 DEF Before, CmdOf
          <6> QED
            BY <3>2, <4>1, <5>1, <6>1, StaysBefore DEF Before
        <5>2. CASE moving = "closing"
          <6>1. mpos > target /\ mpos' = OneDown(mpos)
            BY <3>3, <3>5, <3>7, <5>2 DEF Before, CmdOf
          <6> QED
            BY <3>2, <4>1, <5>2, <6>1, StaysBefore DEF Before
        <5> QED
          BY <3>2, <5>1, <5>2
      <4>3. EndOf(moving) = target
        BY <3>2, <4>2, CoverAssumption DEF Before, EndOf, Pos
      <4> QED
        BY <3>1, <3>8, <4>1, <4>3 DEF Final
    <3>9. CASE mdir' # "rest"
      BY <1>1, <2>5, <3>1, <3>9 DEF Final
    <3> QED
      BY <3>8, <3>9
  <2> QED
    BY <2>3, <2>4, <2>5
<1>6. events' \in {<<>>, <<"stop">>}
  BY <1>1
<1> QED
  BY <1>1, <1>2, <1>3, <1>4, <1>5, <1>6 DEF Led

-----------------------------------------------------------------------------
LEMMA GInvStep == ASSUME ~Overlap PROVE GInv /\ [Next]_vars => GInv'
<1> SUFFICES ASSUME GInv, [Next]_vars PROVE GInv'
  OBVIOUS
<1>1. FInv' /\ IInv'
  BY FInvStep DEF GInv, FInv
<1>2. Plain'
  BY <1>1, PlainStep DEF GInv, FInv
<1> SUFFICES Led'
  BY <1>1, <1>2 DEF GInv
<1>3. slack' \in Nat \cup {Lost}
  BY <1>1 DEF IInv, TypeOK
<1>4. CASE OpenOrClose
  BY <1>3, <1>4, DriveLed DEF OpenOrClose
<1>5. CASE SetPosition
  <2>1. PICK where \in Pos \ {pos} : Drive(IF where > pos THEN "opening" ELSE "closing", where)
    BY <1>5 DEF SetPosition
  <2>2. Service
    BY <1>5 DEF SetPosition
  <2> QED
    BY <1>3, <2>1, <2>2, DriveLed
<1>6. CASE StopCover \/ \E cmd \in Frame : Press(cmd)
  BY <1>6 DEF StopCover, Press, Led
<1>7. CASE EventArrives
  BY <1>7, EventLed
<1>8. ASSUME NEW t \in LoopId, LoopWakes(t) PROVE Led'
  BY <1>8, WakesLed
<1>9. CASE LinkChanges \/ (\E t \in LoopId : LoopDies(t)) \/ UNCHANGED vars
  BY <1>9, LedSame DEF LinkChanges, LoopDies, vars, entityVars, motorVars, ghostVars
<1>10. CASE CalibrationCompleted
  BY <1>10, CalibrationLed
<1>11. CASE Removed
  BY <1>11, RemovedLed
<1>12. CASE Readded
  BY <1>12, ReaddedLed
<1>13. CASE Tick
  BY <1>13, TickLed
<1> QED
  BY <1>4, <1>5, <1>6, <1>7, <1>8, <1>9, <1>10, <1>11, <1>12, <1>13 DEF Next, Frame

LEMMA GInvGoal == GInv => GoalReached
<1> SUFFICES ASSUME GInv, Quiet, goal # None PROVE pos = goal /\ mpos = goal
  BY DEF GoalReached
<1>1. goal = mpos
  BY DEF GInv, Led, Final, Quiet
<1>2. CASE bidir
  <2>1. slack = 0 /\ UpdatedPos = pos
    BY <1>2 DEF GInv, Led, UpdatedPos, Quiet
  <2> QED
    BY <1>1, <2>1, Exact DEF GInv
<1>3. CASE ~bidir
  BY <1>1, <1>3 DEF GInv, Led, Heading, Quiet
<1> QED
  BY <1>2, <1>3

(* Under the same condition a command that nothing interferes with ends    *)
(* where it leads: a set-position at its target, a full move of a timed    *)
(* motor at the end stop though its position was wrong, or though a        *)
(* restart cut the move.                                                   *)
THEOREM CommandsArrive == ASSUME ~Overlap PROVE Spec => []GoalReached
<1>1. Init => GInv
  BY InitInv, InitFollows DEF Init, GInv, FInv, Plain, Told, Led
<1>2. GInv /\ [Next]_vars => GInv'
  BY GInvStep
<1>3. GInv => GoalReached
  BY GInvGoal
<1> QED
  BY <1>1, <1>2, <1>3, PTL DEF Spec

-----------------------------------------------------------------------------
(***************************************************************************)
(* That the entity implements CoverPromise.  Path holds only while the     *)
(* error of the position has a bound, and the promise is made without one: *)
(* Course is the part of it that needs none.                               *)
(***************************************************************************)
Away == ~added => moving = "no"
Reports == events # <<>> => bidir

(* A set-position has its target ahead until the loop has counted to it,   *)
(* and no frame turns the move round: one that says it began comes before  *)
(* the loop has counted.                                                   *)
Course == target # None =>
    /\ UpdatedPos = target \/ Before(UpdatedPos, target)
    /\ Slept => Before(UpdatedPos, target)
    /\ events # <<>> =>
          /\ Len(events) = 1
          /\ \/ Head(events) = "stop"
             \/ Head(events) = CmdOf(moving) /\ pos = UpdatedPos /\ Before(pos, target)

PInv == IInv /\ Away /\ Reports /\ Course

LEMMA ObeysReports ==
  ASSUME Reports, NEW cmd, Send(cmd) \/ Obeys(cmd) \/ UNCHANGED motorVars, bidir' = bidir
  PROVE  Reports'
  BY DEF Reports, Send, Obeys, motorVars

LEMMA AwayStep == PInv /\ [Next]_vars => Away'
<1> SUFFICES ASSUME PInv, [Next]_vars PROVE Away'
  OBVIOUS
<1>1. CASE OpenOrClose \/ SetPosition \/ StopCover
  BY <1>1 DEF OpenOrClose, SetPosition, StopCover, Service, PInv, Away
<1>2. ASSUME NEW cmd \in Frame, Press(cmd) PROVE Away'
  BY <1>2 DEF Press, entityVars, PInv, Away
<1>3. CASE EventArrives
  BY <1>3 DEF EventArrives, entityVars, PInv, Away
<1>4. ASSUME NEW t \in LoopId, LoopWakes(t) \/ LoopDies(t) PROVE Away'
  BY <1>4 DEF LoopWakes, LoopReaches, LoopFinishes, LoopGoesOn, LoopDies, EndMove, entityVars, PInv, Away
<1>5. CASE LinkChanges \/ CalibrationCompleted \/ Removed \/ Readded \/ Tick \/ UNCHANGED vars
  BY <1>5 DEF LinkChanges, CalibrationCompleted, Removed, Readded, Tick, EndMove, entityVars, vars, PInv, Away
<1> QED
  BY <1>1, <1>2, <1>3, <1>4, <1>5 DEF Next, Frame

LEMMA ReportsStep == PInv /\ [Next]_vars => Reports'
<1> SUFFICES ASSUME PInv, [Next]_vars PROVE Reports'
  OBVIOUS
<1> USE DEF PInv
<1>1. CASE OpenOrClose \/ SetPosition \/ StopCover
  <2>1. bidir' = bidir /\ \E cmd \in Frame : Send(cmd)
    BY <1>1 DEF OpenOrClose, SetPosition, StopCover, Service, Drive, CmdOf, Frame
  <2> QED
    BY <2>1, ObeysReports
<1>2. ASSUME NEW cmd \in Frame, Press(cmd) PROVE Reports'
  BY <1>2, ObeysReports DEF Press
<1>3. CASE EventArrives
  BY <1>3 DEF EventArrives, Reports
<1>4. ASSUME NEW t \in LoopId, LoopWakes(t) \/ LoopDies(t) PROVE Reports'
  <2>1. bidir' = bidir /\ (Send("stop") \/ UNCHANGED motorVars)
    BY <1>4 DEF LoopWakes, LoopReaches, LoopFinishes, LoopGoesOn, LoopDies
  <2> QED
    BY <2>1, ObeysReports
<1>5. CASE LinkChanges \/ CalibrationCompleted \/ Removed \/ Readded \/ Tick \/ UNCHANGED vars
  BY <1>5 DEF LinkChanges, CalibrationCompleted, Removed, Readded, Tick, motorVars, vars, Reports
<1> QED
  BY <1>1, <1>2, <1>3, <1>4, <1>5 DEF Next, Frame

(* Steps that leave the move alone and wake no loop. *)
LEMMA CourseSame ==
  ASSUME Course, UNCHANGED <<pos, moving, move, target, events>>, Slept' => Slept
  PROVE  Course'
<1>1. UpdatedPos' = UpdatedPos
  BY DEF UpdatedPos, Clamp
<1> QED
  BY <1>1 DEF Course, Before, CmdOf

(* A set-position leads to its target, and the frame that answers it says  *)
(* so or says that the shutter is at that end already.                     *)
LEMMA SetPositionCourse ==
  ASSUME PInv, SetPosition, ~Overlap
  PROVE  Course'
<1>1. events = <<>> /\ UpdatedPos = pos /\ Service
  BY DEF SetPosition
<1>2. PICK where \in Pos \ {pos} : Drive(IF where > pos THEN "opening" ELSE "closing", where)
  BY DEF SetPosition
<1> DEFINE dir == IF where > pos THEN "opening" ELSE "closing"
<1>3. /\ target' = where /\ BeginMove(dir, "ha") /\ UNCHANGED pos /\ Obeys(CmdOf(dir))
      /\ TypeOK /\ dir \in {"opening", "closing"}
  BY <1>1, <1>2 DEF Drive, Service, Send, PInv, IInv
<1>4. UpdatedPos' = pos /\ moving' = dir
  BY <1>3, BeginHere
<1>5. IF dir = "opening" THEN pos < where ELSE pos > where
  BY <1>3, EndsInPos DEF TypeOK
<1>6. events' = <<>> \/ events' = Append(<<>>, IF mdir' = "rest" THEN "stop" ELSE mdir')
  BY <1>1, <1>3 DEF Obeys
<1>7. mdir' \in {"rest", CmdOf(dir)} /\ CmdOf(dir) # "rest" /\ CmdOf(dir) \in {"up", "down"}
  BY <1>3 DEF Obeys, CmdOf
<1>8. events' # <<>> =>
        Len(events') = 1 /\ (Head(events') = "stop" \/ Head(events') = CmdOf(dir))
  BY <1>6, <1>7
<1> QED
  BY <1>3, <1>4, <1>5, <1>8 DEF Course, Before, CmdOf

LEMMA EventCourse ==
  ASSUME PInv, EventArrives
  PROVE  Course'
<1>1. events # <<>> /\ events' = Tail(events) /\ TypeOK /\ Course /\ OneLoop
  BY DEF EventArrives, PInv, IInv
<1>2. CASE ~(added /\ up)
  <2>1. UNCHANGED <<pos, moving, move, target, loop>>
    BY <1>2 DEF EventArrives, entityVars, loopVars
  <2>2. UpdatedPos' = UpdatedPos /\ (Slept' <=> Slept)
    BY <2>1 DEF UpdatedPos, Clamp, Slept
  <2>3. target # None => events' = <<>>
    BY <1>1, TailLast DEF Course, TypeOK, Frame
  <2> QED
    BY <1>1, <2>1, <2>2, <2>3 DEF Course, Before
<1>3. CASE (added /\ up) /\ Head(events) = "stop"
  BY <1>3 DEF EventArrives, HandleEvent, EndMove, Course
<1>4. CASE (added /\ up) /\ Head(events) # "stop" /\ target # None
  <2>1. /\ Head(events) = CmdOf(moving) /\ pos = UpdatedPos /\ Before(pos, target) /\ events' = <<>>
    BY <1>1, <1>4, TailLast DEF Course, TypeOK, Frame
  <2>2. moving \in {"opening", "closing"}
    BY <1>1, <1>4 DEF OneLoop, TypeOK
  <2>3. BeginMove(moving, "press") /\ UNCHANGED <<pos, target>>
    BY <1>4, <2>1, <2>2 DEF EventArrives, HandleEvent, CmdOf
  <2>4. UpdatedPos' = pos /\ moving' = moving
    BY <1>1, <2>2, <2>3, BeginHere
  <2> QED
    BY <2>1, <2>3, <2>4 DEF Course, Before
<1>5. CASE (added /\ up) /\ Head(events) # "stop" /\ target = None
  BY <1>5 DEF EventArrives, HandleEvent, Course
<1> QED
  BY <1>2, <1>3, <1>4, <1>5

LEMMA WakesCourse ==
  ASSUME PInv, NEW t \in LoopId, LoopWakes(t)
  PROVE  Course'
<1>1. CASE LoopReaches(t) \/ LoopFinishes(t)
  BY <1>1 DEF LoopReaches, LoopFinishes, EndMove, Course
<1>2. CASE LoopGoesOn(t)
  <2>1. /\ pos' = UpdatedPos /\ UNCHANGED <<moving, move, target, events>>
        /\ ~Reached(UpdatedPos) /\ UpdatedPos \in Pos /\ TypeOK /\ OneLoop /\ Course
    BY <1>2, UpdatedInPos DEF LoopGoesOn, motorVars, PInv, IInv
  <2>2. UpdatedPos' = UpdatedPos
    BY <2>1 DEF UpdatedPos, Clamp
  <2>3. target # None => moving \in {"opening", "closing"} /\ target \in Pos
    BY <2>1 DEF OneLoop, TypeOK
  <2>4. ASSUME target # None PROVE Before(UpdatedPos, target)
    <3>1. moving \in {"opening", "closing"} /\ target \in Int /\ UpdatedPos \in Int
      BY <2>1, <2>3, <2>4, EndsInPos
    <3> QED
      BY <2>1, <2>4, <3>1 DEF Reached, Before
  <2> QED
    BY <2>1, <2>2, <2>4 DEF Course, Before, CmdOf
<1> QED
  BY <1>1, <1>2 DEF LoopWakes

LEMMA TickCourse ==
  ASSUME PInv, Tick
  PROVE  Course'
<1> SUFFICES ASSUME target' # None PROVE Course'
  BY DEF Course
<1>1. /\ UNCHANGED <<pos, moving, target>> /\ events = <<>>
      /\ loop' = [t \in LoopId |-> IF loop[t] = "asleep" THEN "due" ELSE "none"]
      /\ events' = <<"stop">> \/ events' = <<>>
      /\ TypeOK /\ OneLoop /\ Course /\ IInv
  BY DEF Tick, PInv, IInv
<1>2. moving \in {"opening", "closing"} /\ target \in Pos /\ UpdatedPos \in Pos
  BY <1>1, UpdatedInPos DEF OneLoop, TypeOK
<1>3. Slept
  BY <1>1, <1>2 DEF Tick, OneLoop, Alive, Slept
<1>4. Before(UpdatedPos, target)
  BY <1>1, <1>3 DEF Course
<1>5. UpdatedPos' = IF moving = "opening" THEN OneUp(UpdatedPos) ELSE OneDown(UpdatedPos)
  BY <1>1, <1>2, TickUpdated
<1>6. UpdatedPos' = target' \/ Before(UpdatedPos, target)'
  <2>1. CASE moving = "opening"
    BY <1>1, <1>2, <1>4, <1>5, <2>1, StaysBefore DEF Before
  <2>2. CASE moving = "closing"
    BY <1>1, <1>2, <1>4, <1>5, <2>2, StaysBefore DEF Before
  <2> QED
    BY <1>2, <2>1, <2>2
<1>7. ~Slept'
  BY <1>1 DEF Slept
<1>8. events' # <<>> => Len(events') = 1 /\ Head(events') = "stop"
  BY <1>1
<1> QED
  BY <1>6, <1>7, <1>8 DEF Course

LEMMA PInvStep == ASSUME ~Overlap PROVE PInv /\ [Next]_vars => PInv'
<1> SUFFICES ASSUME PInv, [Next]_vars PROVE PInv'
  OBVIOUS
<1>1. IInv' /\ Away' /\ Reports'
  BY IInvStep, AwayStep, ReportsStep DEF PInv
<1> SUFFICES Course'
  BY <1>1 DEF PInv
<1>2. CASE OpenOrClose \/ StopCover
  BY <1>2 DEF OpenOrClose, StopCover, Drive, EndMove, Course
<1>3. CASE SetPosition
  BY <1>3, SetPositionCourse
<1>4. ASSUME NEW cmd \in Frame, Press(cmd) PROVE Course'
  BY <1>4 DEF Press, HandleRemote, EndMove, entityVars, Course
<1>5. CASE EventArrives
  BY <1>5, EventCourse
<1>6. ASSUME NEW t \in LoopId, LoopWakes(t) PROVE Course'
  BY <1>6, WakesCourse
<1>7. CASE LinkChanges \/ (\E t \in LoopId : LoopDies(t)) \/ UNCHANGED vars
  <2>1. UNCHANGED <<pos, moving, move, target, events>>
    BY <1>7 DEF LinkChanges, LoopDies, vars, entityVars, motorVars
  <2>2. Slept' => Slept
    BY <1>7 DEF LinkChanges, LoopDies, LoopEnds, vars, loopVars, Slept, PInv, IInv, TypeOK
  <2> QED
    BY <2>1, <2>2, CourseSame DEF PInv
<1>8. CASE CalibrationCompleted
  <2>1. UNCHANGED <<moving, move, target, events, loop>> /\ events = <<>>
    BY <1>8 DEF CalibrationCompleted, motorVars, loopVars
  <2>2. target # None => UpdatedPos' = UpdatedPos
    BY <2>1 DEF UpdatedPos, Clamp, PInv, IInv, OneLoop
  <2> QED
    BY <2>1, <2>2 DEF PInv, Course, Before, Slept
<1>9. CASE Removed
  BY <1>9 DEF Removed, EndMove, Course
<1>10. CASE Readded
  BY <1>10 DEF Readded, PInv, Away, IInv, OneLoop, Course
<1>11. CASE Tick
  BY <1>11, TickCourse
<1> QED
  BY <1>2, <1>3, <1>4, <1>5, <1>6, <1>7, <1>8, <1>9, <1>10, <1>11 DEF Next, Frame

-----------------------------------------------------------------------------
(* Each step of the entity is a step of CoverPromise or a stutter.         *)

LEMMA SteadyHere == UpdatedPos = pos \/ moving = "no" => Steady = TRUE
  BY DEF Steady

(* The position counted so far is at most one interval away. *)
LEMMA CountWithin == ASSUME moving # "no" PROVE Promise!Within(UpdatedPos)
  BY DEF Promise!Within, Steady

LEMMA PromiseInit == Init => Promise!Init
  BY SteadyHere DEF Init, Promise!Init, Pos, Promise!Pos

LEMMA Begins ==
  ASSUME TypeOK, NEW dir \in {"opening", "closing"}, NEW who, BeginMove(dir, who),
         UNCHANGED <<bidir, added, pos>>, added, target' \in Pos \cup {None},
         target' # None => Promise!Ahead(dir, pos, target')
  PROVE  Promise!Next
<1>1. UpdatedPos' = pos' /\ moving' = dir
  BY BeginHere
<1>2. Steady' = TRUE
  BY <1>1 DEF Steady
<1>3. Promise!Begin(dir, target')
  BY <1>1, <1>2 DEF Promise!Begin
<1> QED
  BY <1>3 DEF Promise!Next, Pos, Promise!Pos

LEMMA Halts ==
  ASSUME PInv, EndMove, UNCHANGED <<bidir, added>>, pos' = UpdatedPos
  PROVE  [Promise!Next]_(Promise!vars)
<1>1. moving' = "no" /\ target' = None /\ Steady' = TRUE /\ UpdatedPos \in Pos
  BY UpdatedInPos DEF EndMove, Steady, PInv, IInv
<1>2. CASE moving = "no"
  BY <1>1, <1>2, SteadyHere DEF PInv, IInv, OneLoop, UpdatedPos, Promise!vars
<1>3. CASE moving # "no"
  <2>1. target # None => UpdatedPos = target \/ Promise!Ahead(moving, UpdatedPos, target)
    BY <1>3 DEF PInv, IInv, TypeOK, Course, Before, Promise!Ahead
  <2>2. Promise!Stopped
    BY <1>1, <1>3, <2>1, CountWithin
    DEF Promise!Stopped, Promise!Ends, Promise!Within, Pos, Promise!Pos
  <2> QED
    BY <2>2 DEF Promise!Next
<1> QED
  BY <1>2, <1>3

LEMMA PromiseService ==
  ASSUME PInv, ~Overlap, OpenOrClose \/ SetPosition \/ StopCover
  PROVE  [Promise!Next]_(Promise!vars)
<1>1. TypeOK /\ added /\ UNCHANGED <<bidir, added>>
  BY DEF OpenOrClose, SetPosition, StopCover, Service, PInv, IInv
<1>2. CASE OpenOrClose
  <2>1. PICK dir \in {"opening", "closing"} : Drive(dir, None)
    BY <1>2 DEF OpenOrClose
  <2> QED
    BY <1>1, <2>1, Begins DEF Drive
<1>3. CASE SetPosition
  <2>1. PICK where \in Pos \ {pos} : Drive(IF where > pos THEN "opening" ELSE "closing", where)
    BY <1>3 DEF SetPosition
  <2>2. Promise!Ahead(IF where > pos THEN "opening" ELSE "closing", pos, where)
    BY <1>1, EndsInPos DEF TypeOK, Promise!Ahead
  <2> QED
    BY <1>1, <2>1, <2>2, Begins DEF Drive
<1>4. CASE StopCover
  BY <1>1, <1>4, Halts DEF StopCover, StoppedPos
<1> QED
  BY <1>2, <1>3, <1>4

LEMMA PromisePress ==
  ASSUME PInv, ~Overlap, NEW cmd \in Frame, Press(cmd)
  PROVE  [Promise!Next]_(Promise!vars)
<1>1. TypeOK /\ target = None /\ UNCHANGED <<bidir, added>>
  BY DEF Press, entityVars, PInv, IInv
<1>2. CASE UNCHANGED <<entityVars, loopVars>>
  <2>1. Steady' = Steady
    BY <1>2 DEF Steady, UpdatedPos, Clamp, entityVars, loopVars
  <2> QED
    BY <1>1, <1>2, <2>1 DEF Promise!vars, entityVars
<1>3. CASE HandleRemote(cmd) /\ added
  <2>1. CASE cmd = "stop"
    BY <1>1, <1>3, <2>1, Halts DEF HandleRemote, StoppedPos
  <2>2. CASE cmd # "stop"
    BY <1>1, <1>3, <2>2, Begins DEF HandleRemote
  <2> QED
    BY <2>1, <2>2
<1> QED
  BY <1>2, <1>3 DEF Press

LEMMA PromiseEvent ==
  ASSUME PInv, EventArrives
  PROVE  [Promise!Next]_(Promise!vars)
<1>1. /\ TypeOK /\ OneLoop /\ UNCHANGED <<bidir, added>> /\ events # <<>> /\ bidir
  BY DEF EventArrives, entityVars, Reports, PInv, IInv
<1>2. CASE ~(added /\ up)
  <2>1. UNCHANGED <<entityVars, loopVars>>
    BY <1>2 DEF EventArrives
  <2>2. Steady' = Steady
    BY <2>1 DEF Steady, UpdatedPos, Clamp, entityVars, loopVars
  <2> QED
    BY <1>1, <2>1, <2>2 DEF Promise!vars, entityVars
<1>3. CASE (added /\ up) /\ Head(events) = "stop" /\ target = None
  BY <1>1, <1>3, Halts DEF EventArrives, HandleEvent, StoppedPos
<1>4. CASE (added /\ up) /\ Head(events) = "stop" /\ target # None
  <2>1. pos' = target /\ EndMove /\ moving # "no"
    BY <1>1, <1>4 DEF EventArrives, HandleEvent, OneLoop
  <2>2. moving' = "no" /\ target' = None /\ Steady' = TRUE
    BY <2>1 DEF EndMove, Steady
  <2>3. Promise!Arrives
    BY <1>1, <1>4, <2>1, <2>2 DEF Promise!Arrives, Promise!Ends
  <2> QED
    BY <2>3 DEF Promise!Next
<1>5. CASE (added /\ up) /\ Head(events) # "stop"
  <2>1. Head(events) \in Frame
    BY <1>1 DEF TypeOK, Frame
  <2>2. PICK dir \in {"opening", "closing"} :
          BeginMove(dir, "press") /\ UNCHANGED <<pos, target>> /\ Head(events) = CmdOf(dir)
    BY <1>5, <2>1 DEF EventArrives, HandleEvent, CmdOf, Frame
  <2>3. ASSUME target # None PROVE Promise!Ahead(dir, pos, target)
    <3>1. Head(events) = CmdOf(moving) /\ Before(pos, target)
      BY <1>1, <1>5, <2>3 DEF PInv, Course
    <3>2. moving \in {"opening", "closing"}
      BY <1>1, <2>3 DEF OneLoop, TypeOK
    <3>3. dir = moving
      BY <2>2, <3>1, <3>2 DEF CmdOf
    <3> QED
      BY <3>1, <3>2, <3>3 DEF Before, Promise!Ahead
  <2> QED
    BY <1>1, <1>5, <2>2, <2>3, Begins DEF TypeOK
<1> QED
  BY <1>2, <1>3, <1>4, <1>5

LEMMA PromiseWakes ==
  ASSUME PInv, NEW t \in LoopId, LoopWakes(t)
  PROVE  Promise!Next
<1>1. /\ TypeOK /\ OneLoop /\ UNCHANGED <<bidir, added>> /\ moving \in {"opening", "closing"}
      /\ UpdatedPos \in Pos /\ Promise!Within(UpdatedPos)
  <2>1. moving # "no" /\ TypeOK /\ OneLoop /\ UNCHANGED <<bidir, added>>
    BY DueLoop DEF LoopWakes, PInv, IInv
  <2> QED
    BY <2>1, UpdatedInPos, CountWithin DEF TypeOK
<1>2. CASE LoopReaches(t)
  <2>1. /\ pos' = target /\ target # None /\ EndMove /\ Reached(UpdatedPos)
        /\ UpdatedPos = target \/ Before(UpdatedPos, target)
    BY <1>2 DEF LoopReaches, Reached, PInv, Course
  <2>2. UpdatedPos = target
    <3>1. target \in Int /\ UpdatedPos \in Int
      BY <1>1, <2>1, EndsInPos DEF TypeOK
    <3> QED
      BY <1>1, <2>1, <3>1 DEF Reached, Before
  <2>3. moving' = "no" /\ target' = None /\ Steady' = TRUE
    BY <2>1 DEF EndMove, Steady
  <2>4. Promise!Arrives
    BY <1>1, <2>1, <2>2, <2>3 DEF Promise!Arrives, Promise!Ends
  <2> QED
    BY <2>4 DEF Promise!Next
<1>3. CASE LoopFinishes(t)
  <2>1. pos' = UpdatedPos /\ target = None /\ EndMove
    BY <1>3 DEF LoopFinishes
  <2>2. UpdatedPos = Promise!EndOf(moving)
    BY <1>1, <1>3, CoverAssumption DEF LoopFinishes, AtEnd, Promise!EndOf, Pos
  <2>3. moving' = "no" /\ target' = None /\ Steady' = TRUE
    BY <2>1 DEF EndMove, Steady
  <2>4. Promise!AtEndStop
    BY <1>1, <2>1, <2>2, <2>3 DEF Promise!AtEndStop, Promise!Ends, Promise!Within
  <2> QED
    BY <2>4 DEF Promise!Next
<1>4. CASE LoopGoesOn(t)
  <2>1. /\ pos' = UpdatedPos /\ UNCHANGED <<moving, move, target>> /\ Course'
        /\ loop' = [loop EXCEPT ![t] = "asleep"]
    BY <1>4, WakesCourse DEF LoopGoesOn
  <2>2. UpdatedPos' = pos'
    BY <2>1 DEF UpdatedPos, Clamp
  <2>3. Slept'
    BY <2>1 DEF Slept, PInv, IInv, TypeOK
  <2>4. target # None => Promise!Ahead(moving, pos', target)
    BY <1>1, <2>1, <2>2, <2>3 DEF Course, Before, Promise!Ahead
  <2>5. Steady' = TRUE
    BY <2>2 DEF Steady
  <2>6. Promise!Counts
    BY <1>1, <2>1, <2>4, <2>5 DEF Promise!Counts, Promise!Within, Pos, Promise!Pos
  <2> QED
    BY <2>6 DEF Promise!Next
<1> QED
  BY <1>2, <1>3, <1>4 DEF LoopWakes

(* Steps the promise does not see. *)
LEMMA PromiseUnseen ==
  ASSUME PInv, LinkChanges \/ (\E t \in LoopId : LoopDies(t)) \/ UNCHANGED vars
  PROVE  UNCHANGED Promise!vars
<1>1. UNCHANGED <<bidir, added, pos, moving, move, target>>
  BY DEF LinkChanges, LoopDies, vars, entityVars
<1>2. (\E t \in LoopId : loop'[t] = "due") <=> (\E t \in LoopId : loop[t] = "due")
  BY DEF LinkChanges, LoopDies, LoopEnds, vars, loopVars, PInv, IInv, TypeOK
<1>3. Steady' = Steady
  BY <1>1, <1>2 DEF Steady, UpdatedPos, Clamp
<1> QED
  BY <1>1, <1>3 DEF Promise!vars

LEMMA PromiseAround ==
  ASSUME PInv, CalibrationCompleted \/ Removed \/ Readded
  PROVE  Promise!Next
<1>1. Steady \in BOOLEAN /\ Steady' \in BOOLEAN /\ bidir' = bidir
  BY DEF Steady, CalibrationCompleted, Removed, Readded
<1>2. CASE CalibrationCompleted
  <2>1. /\ added /\ pos' = (IF bidir THEN 0 ELSE Top) /\ UNCHANGED <<added, moving, target>>
    BY <1>2 DEF CalibrationCompleted
  <2>2. moving = "no" => Steady'
    BY <2>1 DEF Steady
  <2>3. Promise!Recalibrated
    BY <1>1, <2>1, <2>2 DEF Promise!Recalibrated
  <2> QED
    BY <2>3 DEF Promise!Next
<1>3. CASE Removed
  <2>1. /\ added /\ added' = FALSE /\ pos' = pos
        /\ moving' = "no" /\ target' = None /\ Steady' = TRUE
    BY <1>3 DEF Removed, EndMove, Steady
  <2>2. Promise!Gone
    BY <1>1, <2>1 DEF Promise!Gone
  <2> QED
    BY <2>2 DEF Promise!Next
<1>4. CASE Readded
  <2>1. /\ ~added /\ added' = TRUE /\ pos' \in Pos /\ UNCHANGED <<moving, target>> /\ moving = "no"
    BY <1>4, EndsInPos
    DEF Readded, RestoredPos, Defaults, EndOf, PInv, Away, IInv, TypeOK
  <2>2. Steady' = Steady
    BY <2>1 DEF Steady
  <2>3. Promise!Back
    BY <1>1, <2>1, <2>2 DEF Promise!Back, Pos, Promise!Pos
  <2> QED
    BY <2>3 DEF Promise!Next
<1> QED
  BY <1>2, <1>3, <1>4

(* While time passes the loop falls one interval behind, no more. *)
LEMMA PromiseTick ==
  ASSUME PInv, Tick
  PROVE  [Promise!Next]_(Promise!vars)
<1>1. /\ UNCHANGED <<bidir, added, pos, moving, target>> /\ IInv /\ TypeOK /\ OneLoop
      /\ loop' = [t \in LoopId |-> IF loop[t] = "asleep" THEN "due" ELSE "none"]
      /\ \A t \in LoopId : loop[t] \in {"none", "asleep"}
  BY DEF Tick, PInv, IInv
<1>2. Steady \in BOOLEAN /\ Steady' \in BOOLEAN
  BY DEF Steady
<1>3. Steady => Steady'
  <2> SUFFICES ASSUME Steady, moving # "no" PROVE Steady'
    BY <1>1 DEF Steady
  <2>1. moving \in {"opening", "closing"} /\ pos \in Pos
    BY <1>1 DEF TypeOK
  <2>2. UpdatedPos = pos
    BY <1>1 DEF Steady
  <2>3. UpdatedPos' = IF moving = "opening" THEN OneUp(pos) ELSE OneDown(pos)
    BY <1>1, <2>1, <2>2, TickUpdated
  <2>4. \E t \in LoopId : loop'[t] = "due"
    BY <1>1, <2>1 DEF OneLoop, Alive
  <2>5. OneUp(pos) \in {pos, pos + 1} /\ OneDown(pos) \in {pos, pos - 1}
    BY <2>1, CoverAssumption DEF OneUp, OneDown, Clamp, Pos
  <2> QED
    BY <1>1, <2>1, <2>3, <2>4, <2>5 DEF Steady
<1>4. CASE Steady' = Steady
  BY <1>1, <1>4 DEF Promise!vars
<1>5. CASE Steady' # Steady
  <2>1. ~Steady /\ Steady' = TRUE
    BY <1>2, <1>3, <1>5
  <2>2. Promise!Settles
    BY <1>1, <2>1 DEF Promise!Settles
  <2> QED
    BY <2>2 DEF Promise!Next
<1> QED
  BY <1>4, <1>5

(* Refinement: a cover implements CoverPromise.  A move counts one         *)
(* interval at a time towards its target, never past it, and ends at the   *)
(* target, at the end stop or where it was stopped, whatever loops are     *)
(* dying, frames are under way or calls come, unless somebody overrules a  *)
(* set-position.                                                           *)
THEOREM ImplementsPromise == ASSUME ~Overlap PROVE Spec => PromiseSpec
<1>1. Init => PInv /\ Promise!Init
  BY InitInv, PromiseInit DEF Init, PInv, Away, Reports, Course
<1>2. PInv /\ [Next]_vars => PInv'
  BY PInvStep
<1>3. PInv /\ [Next]_vars => [Promise!Next]_(Promise!vars)
  BY PromiseService, PromisePress, PromiseEvent, PromiseWakes, PromiseUnseen, PromiseAround, PromiseTick
  DEF Next, Frame
<1> QED
  BY <1>1, <1>2, <1>3, PTL DEF Spec, PromiseSpec, Promise!Spec
=============================================================================
