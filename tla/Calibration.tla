----------------------------- MODULE Calibration -----------------------------
(***************************************************************************)
(* The calibration dialogs: the timed one, which drives a silent motor     *)
(* itself and takes the time between two clicks                            *)
(* (TimedCalibrationFlowHandler), and the event-driven one, which takes    *)
(* the time between two frames of a motor its user moves                   *)
(* (CalibrationFlowHandler).  Both end by saving to the store and then     *)
(* signalling the cover.  They run while motors are added, other dialogs   *)
(* pair, the stick comes and goes and the entry reloads.                   *)
(***************************************************************************)
EXTENDS EntryLifecycle

CONSTANTS Dialog,
          Uptime  \* what an elapsed time measured from 0.0 is: "short", "ok", "long"

ASSUME UptimeAssumption == Uptime \in {"short", "ok", "long"}

VARIABLES
    dialog,      \* the step each dialog is at, and the device it calibrates
    cal,         \* the handler's attributes in each dialog
    pairing,     \* MotorEnrolment's PairingOpen, of some other dialog
    mot,         \* what each motor does
    obstructed,  \* history: dialogs whose run met a closed port, a pairing or
                 \* a frame between their two waits
    done,        \* history: the times of the last calibration of a device
    runs         \* calibrations saved, at most MaxCal

vars == <<entryVars, dialog, cal, pairing, mot, obstructed, done, runs>>
entryRest == <<dataVars, setupVars, disk, times, slipped, steps>>

DialogSteps ==
    {"menu", "timed_precondition", "timed_close", "timed_open", "timed_confirm",
     "open_form", "open_start", "open_heard", "open_stop",
     "close_form", "close_start", "close_heard", "close_stop",
     "complete", "saving"}
Starts == {"none", "drive", "drop"}

(* enum: that of a motor paired just now, whose subentry is yet to be      *)
(* created.  start: _close_start_time or _open_start_time, none, or set    *)
(* beside a drive that was written or dropped; close, open: what the       *)
(* recorded time measures, junk if there was no start; nr: the times being *)
(* saved.                                                                  *)
TypeOK ==
    /\ EntryTypeOK
    /\ dialog \in [Dialog -> [step : DialogSteps, id : Device \cup {None}, enum : Enum \cup {None}]]
    /\ cal \in [Dialog -> [start : Starts, close : Starts \cup {"junk"},
                           open : Starts \cup {"junk"}, nr : Times \cup {None}]]
    /\ pairing \in BOOLEAN
    /\ mot \in [Motor -> {"rest", "up", "down"}]
    /\ obstructed \subseteq Dialog
    /\ done \in [Device -> Times \cup {None}]
    /\ runs \in 0..MaxCal

Menu  == [step |-> "menu", id |-> None, enum |-> None]
NoCal == [start |-> "none", close |-> "none", open |-> "none", nr |-> None]

Init ==
    /\ EntryInit
    /\ dialog = [d \in Dialog |-> Menu] /\ cal = [d \in Dialog |-> NoCal]
    /\ pairing = FALSE
    /\ mot = [m \in Motor |-> "rest"]
    /\ obstructed = {} /\ done = Nothing /\ runs = 0

At(d, s) == dialog[d].step = s
Goto(d, s) == dialog' = [dialog EXCEPT ![d].step = s]
Leave(d) == dialog' = [dialog EXCEPT ![d] = Menu] /\ cal' = [cal EXCEPT ![d] = NoCal]

Others == <<pairing, mot, done, runs>>
Measured(d) == IF cal[d].start = "none" THEN "junk" ELSE cal[d].start

-----------------------------------------------------------------------------
(* async_step_calibrate() of a device's subentry, routed by its kind.  Two *)
(* dialogs do not calibrate one device at a time.                          *)
Calibrate(d, i) ==
    /\ Step /\ At(d, "menu") /\ i \in devices /\ \A c \in Dialog : dialog[c].id # i
    /\ dialog' = [dialog EXCEPT ![d].step = IF i \in timed THEN "timed_precondition" ELSE "open_form",
                                ![d].id = i]
    /\ UNCHANGED <<dataVars, setupVars, storeVars, slipped, cal, Others>>

(* async_step_name_device() of a motor that was paired: it is calibrated   *)
(* before it has a subentry, unless it answered with an "sl" frame, which  *)
(* any motor may (api.py:439).                                             *)
NameDevice(d, m, e) ==
    /\ Step /\ At(d, "menu") /\ \A c \in Dialog : dialog[c].id # m
    /\ dialog' = [dialog EXCEPT ![d] = [step |-> "open_form", id |-> m, enum |-> e]]
    /\ UNCHANGED <<dataVars, setupVars, storeVars, slipped, cal, Others>>

(* The clock is started, then control_blind() called: send_command() drops *)
(* the drive when the port is closed, and no one asks.  A link that is     *)
(* down may have its port open already, while connect() verifies the       *)
(* stick.                                                                  *)
DriveFate == IF link THEN {"drive"} ELSE {"drive", "drop"}

(* The precondition is confirmed: the close run begins. *)
TimedClose(d) ==
    /\ At(d, "timed_precondition") /\ phase # "unloaded"
    /\ Goto(d, "timed_close")
    /\ \E f \in DriveFate : cal' = [cal EXCEPT ![d].start = f]
    /\ UNCHANGED <<entryVars, Others>>

(* A drive is submitted.  Of a start that was reset the elapsed time is    *)
(* that since the machine booted.                                          *)
Elapsed(d) == IF cal[d].start = "none" THEN {Uptime} ELSE {"short", "ok", "long"}

Accepted_NoLimit(t) == t # "short"
Accepted(t) == t = "ok"

Rejected(d) ==
    /\ cal' = [cal EXCEPT ![d].start = "none"]
    /\ UNCHANGED <<entryVars, dialog, Others>>

(* After the close run the open one begins at once. *)
TimedCloseSubmitted(d, t) ==
    /\ At(d, "timed_close") /\ t \in Elapsed(d)
    /\ IF Accepted(t)
       THEN /\ phase # "unloaded" /\ Goto(d, "timed_open")
            /\ \E f \in DriveFate : cal' = [cal EXCEPT ![d].close = Measured(d), ![d].start = f]
            /\ UNCHANGED <<entryVars, Others>>
       ELSE Rejected(d)

TimedOpenSubmitted(d, t) ==
    /\ At(d, "timed_open") /\ t \in Elapsed(d)
    /\ IF Accepted(t)
       THEN /\ Goto(d, "timed_confirm")
            /\ cal' = [cal EXCEPT ![d].open = Measured(d), ![d].start = "none"]
            /\ UNCHANGED <<entryVars, Others>>
       ELSE Rejected(d)

TimedRedo(d) ==
    /\ At(d, "timed_confirm") /\ Goto(d, "timed_precondition")
    /\ cal' = [cal EXCEPT ![d] = NoCal]
    /\ UNCHANGED <<entryVars, Others>>

-----------------------------------------------------------------------------
(* The event-driven dialog: a form, then a wait for the first frame of the *)
(* move, then one for its stop; each wait ends after CALIBRATION_TIMEOUT.  *)
(* Between the two the dialog is resumed and listens to nothing.           *)
Submit(d) ==
    /\ \/ At(d, "open_form") /\ Goto(d, "open_start")
       \/ At(d, "close_form") /\ Goto(d, "close_start")
    /\ UNCHANGED <<entryVars, cal, Others>>

SubscribeStop(d) ==
    /\ \/ At(d, "open_heard") /\ Goto(d, "open_stop")
       \/ At(d, "close_heard") /\ Goto(d, "close_stop")
    /\ UNCHANGED <<entryVars, cal, Others>>

CalTimeout(d) ==
    /\ \/ dialog[d].step \in {"open_start", "open_heard", "open_stop"} /\ Goto(d, "open_form")
       \/ dialog[d].step \in {"close_start", "close_heard", "close_stop"} /\ Goto(d, "close_form")
    /\ UNCHANGED <<entryVars, cal, Others>>

(* Where a frame that says `what` takes a dialog that listens. *)
Heard_AnyStart(s, what) ==
    CASE s = "open_start"  /\ what # "rest" -> "open_heard"
      [] s = "open_stop"   /\ what = "rest" -> "close_form"
      [] s = "close_start" /\ what # "rest" -> "close_heard"
      [] s = "close_stop"  /\ what = "rest" -> "complete"
      [] OTHER -> s

Heard(s, what) ==
    CASE s = "open_start"  /\ what = "up"   -> "open_heard"
      [] s = "open_stop"   /\ what = "rest" -> "close_form"
      [] s = "close_start" /\ what = "down" -> "close_heard"
      [] s = "close_stop"  /\ what = "rest" -> "complete"
      [] OTHER -> s

(* A motor starts or stops and says so.  No one hears it while the link is *)
(* down, and Gate 1 takes the frame of a motor without an entity to answer *)
(* a pairing that is open.                                                 *)
MotorMoves(m, what) ==
    /\ mot[m] # what /\ (mot[m] = "rest" \/ what = "rest")
    /\ mot' = [mot EXCEPT ![m] = what]
    /\ LET answers == link /\ pairing /\ registered[m] = None IN
       /\ pairing' = (pairing /\ ~answers)
       /\ dialog' = [d \in Dialog |->
            IF dialog[d].id = m /\ link /\ ~answers
            THEN [dialog[d] EXCEPT !.step = Heard(@, what)] ELSE dialog[d]]
    /\ UNCHANGED <<entryVars, cal, done, runs>>

-----------------------------------------------------------------------------
(* _save_calibration(): the cache at once, the file when the write is      *)
(* done.  Writes are done in the order they were asked for.                *)
Save(d) ==
    /\ At(d, "timed_confirm") \/ At(d, "complete")
    /\ runs < MaxCal /\ runs' = runs + 1
    /\ Goto(d, "saving") /\ cal' = [cal EXCEPT ![d].nr = runs']
    /\ cache' = [cache EXCEPT ![dialog[d].id] = runs']
    /\ UNCHANGED <<entryRest, pairing, mot, done>>

IsFirst(d) == At(d, "saving") /\ \A c \in Dialog : At(c, "saving") => cal[d].nr <= cal[c].nr

(* _handle_calibration_completed(): a cover that was added takes the times *)
(* and saves them once more; one that waits to be added does not listen    *)
(* yet.                                                                    *)
Signalled_Silent(i, v) == UNCHANGED <<times, cache>>
Signalled(i, v) ==
    IF i \in covers
    THEN times' = [times EXCEPT ![i] = v] /\ cache' = [cache EXCEPT ![i] = v]
    ELSE UNCHANGED <<times, cache>>

(* A motor that was paired gets its subentry now; Home Assistant refuses a *)
(* second one of a unique id.                                              *)
Saved(d) ==
    LET i == dialog[d].id
        v == cal[d].nr
    IN
    /\ IsFirst(d) /\ Leave(d)
    /\ Signalled(i, v) /\ disk' = cache' /\ done' = [done EXCEPT ![i] = v]
    /\ IF dialog[d].enum # None /\ i \notin devices
       THEN AddSubentry(i, dialog[d].enum, FALSE)
       ELSE /\ slipped' = IF i \in planned THEN slipped \cup {i} ELSE slipped
            /\ UNCHANGED <<dataVars, setupVars>>
    /\ UNCHANGED <<steps, pairing, mot, runs>>

Abandon(d) ==
    /\ dialog[d].step \in {"timed_precondition", "timed_close", "timed_open", "timed_confirm",
                           "open_form", "close_form", "complete"}
    /\ Leave(d)
    /\ UNCHANGED <<entryVars, Others>>

CalStep(d) ==
    \/ \E i \in Device : Calibrate(d, i)
    \/ \E m \in Motor, e \in Enum : NameDevice(d, m, e)
    \/ TimedClose(d) \/ TimedRedo(d)
    \/ \E t \in {"short", "ok", "long"} : TimedCloseSubmitted(d, t) \/ TimedOpenSubmitted(d, t)
    \/ Submit(d) \/ SubscribeStop(d) \/ CalTimeout(d) \/ Save(d) \/ Saved(d) \/ Abandon(d)

-----------------------------------------------------------------------------
(* What else happens: other dialogs pair, or add a device without          *)
(* calibrating it.                                                         *)
OpenPairing ==
    /\ Step /\ ~pairing /\ phase # "unloaded" /\ pairing' = TRUE
    /\ UNCHANGED <<dataVars, setupVars, storeVars, slipped, dialog, cal, mot, done, runs>>

(* The pairing times out, or an "sl" frame answers it. *)
ClosePairing ==
    /\ pairing /\ pairing' = FALSE
    /\ UNCHANGED <<entryVars, dialog, cal, mot, done, runs>>

Disconnects ==
    /\ LinkLost \/ UnloadApi
    /\ pairing' = FALSE /\ UNCHANGED <<dialog, cal, mot, done, runs>>

AddDevice(e, isTimed) ==
    /\ Step /\ e \notin devices /\ AddSubentry(e, e, isTimed)
    /\ UNCHANGED <<storeVars, dialog, cal, Others>>

RemoveDevice(i) ==
    /\ RemoveSubentry(i) /\ done' = [done EXCEPT ![i] = None]
    /\ UNCHANGED <<dialog, cal, pairing, mot, runs>>

RestartAll ==
    /\ Restart /\ dialog' = [d \in Dialog |-> Menu] /\ cal' = [d \in Dialog |-> NoCal]
    /\ pairing' = FALSE /\ UNCHANGED <<mot, done, runs>>

EntryStep ==
    /\ \/ UnloadPlatforms \/ SetupApi \/ SetupCovers \/ SetupDone \/ LinkUp \/ ReloadRequested
       \/ \E i \in Device : AddCover(i) \/ DisableCover(i) \/ EnableCover(i)
    /\ UNCHANGED <<dialog, cal, Others>>

(* History.  A dialog that is between the start of a run and its stop may  *)
(* miss the stop if the link is lost, if a pairing is opened, or if the    *)
(* motor moves on before it has subscribed.  A timed dialog drives nothing *)
(* through a closed port.                                                  *)
Opening(d) == dialog[d].step \in {"open_heard", "open_stop"}
Closing(d) == dialog[d].step \in {"close_heard", "close_stop"}
AwaitsStop(d) == Opening(d) \/ Closing(d)
InTimedRun(d) == dialog[d].step \in {"timed_close", "timed_open", "timed_confirm", "saving"}

MayMissStop(d) ==
    /\ AwaitsStop(d) /\ AwaitsStop(d)'
    /\ \/ d \in obstructed
       \/ link /\ ~link'
       \/ pairing' /\ ~pairing
       \/ dialog[d].step \in {"open_heard", "close_heard"} /\ mot'[dialog[d].id] # mot[dialog[d].id]

MissesDrive(d) ==
    /\ InTimedRun(d)'
    /\ \/ InTimedRun(d) /\ d \in obstructed
       \/ ~link /\ dialog'[d].step \in {"timed_close", "timed_open"} /\ ~At(d, dialog'[d].step)

Obstructs == obstructed' = {d \in Dialog : MayMissStop(d) \/ MissesDrive(d)}

Act ==
    \/ \E d \in Dialog : CalStep(d)
    \/ \E m \in Motor, what \in {"rest", "up", "down"} : MotorMoves(m, what)
    \/ EntryStep \/ OpenPairing \/ ClosePairing \/ Disconnects \/ RestartAll
    \/ \E e \in Enum, isTimed \in BOOLEAN : AddDevice(e, isTimed)
    \/ \E i \in Device : RemoveDevice(i)

Next == Act /\ Obstructs

Spec == Init /\ [][Next]_vars

-----------------------------------------------------------------------------
(* The run that a dialog times is the run of the motor.  While the         *)
(* event-driven one waits for the stop the motor goes the way the form     *)
(* asked for, unless the stop may have been lost: the link was, or Gate 1  *)
(* could take the frame for a pairing (api.py:511), or it came between the *)
(* waits for the start and for the stop (options_flow_calibration.py:416,  *)
(* :462).  And a time of the timed dialog runs from a drive that was       *)
(* written to the port, unless the link was down when the run began        *)
(* (api.py:718): though a rejected run is shown again with no start        *)
(* (options_flow_timed_calibration.py:143), on a machine that has been up  *)
(* for longer than a run may take it never becomes a time.                 *)
OwnRuns ==
    \A d \in Dialog \ obstructed :
      /\ Opening(d) => mot[dialog[d].id] = "up"
      /\ Closing(d) => mot[dialog[d].id] = "down"
      /\ Uptime = "long" => {cal[d].close, cal[d].open} \subseteq {"none", "drive"}

Rank(v) == IF v = None THEN 0 ELSE v

(* No cover works with times older than those of the last calibration that *)
(* its device completed, through reloads, restarts in the middle of a save *)
(* and dialogs at other devices (options_flow_timed_calibration.py:319);   *)
(* except a cover that a setup was about to add when its signal was sent.  *)
CalibrationKept ==
    \A i \in covers \ slipped : Rank(times[i]) >= Rank(done[i])
=============================================================================
