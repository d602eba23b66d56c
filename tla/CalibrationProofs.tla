------------------------- MODULE CalibrationProofs -------------------------
(***************************************************************************)
(* For every set of motors, enums and dialogs and every number of          *)
(* calibrations: the dialogs keep their types, measure the runs they asked *)
(* for, and leave no cover with times older than the last calibration.     *)
(***************************************************************************)
EXTENDS Calibration, EntryLifecycleProofs

Dialogs == [Dialog -> [step : DialogSteps, id : Device \cup {None}, enum : Enum \cup {None}]]
Cals    == [Dialog -> [start : Starts, close : Starts \cup {"junk"},
                       open : Starts \cup {"junk"}, nr : Times \cup {None}]]

USE EntryAssumption DEF Device

(* A dialog that left the menu has a device.                               *)
IdOK == \A d \in Dialog : ~At(d, "menu") => dialog[d].id \in Device

Base == EntryInv /\ TypeOK /\ IdOK

LEMMA InitBase == Init => Base
<1> SUFFICES ASSUME Init PROVE Base
  OBVIOUS
<1>1. EntryInv
  BY EntryInitInv DEF Init
<1>2. dialog \in Dialogs /\ cal \in Cals
  BY DEF Init, Menu, NoCal, Starts, DialogSteps, Dialogs, Cals
<1>3. done \in [Device -> Times \cup {None}] /\ mot \in [Motor -> {"rest", "up", "down"}]
  BY DEF Init, Nothing
<1>4. runs \in 0..MaxCal
  BY DEF Init
<1>5. TypeOK
  BY <1>1, <1>2, <1>3, <1>4 DEF EntryInv, Init, TypeOK, Dialogs, Cals
<1> QED
  BY <1>1, <1>5 DEF Base, IdOK, Init, At, Menu

LEMMA GotoDialogs ==
  ASSUME dialog \in Dialogs, NEW d \in Dialog, NEW s \in DialogSteps, Goto(d, s)
  PROVE  /\ dialog' \in Dialogs
         /\ dialog'[d].step = s /\ dialog'[d].id = dialog[d].id /\ dialog'[d].enum = dialog[d].enum
         /\ \A c \in Dialog \ {d} : dialog'[c] = dialog[c]
  BY DEF Dialogs, Goto

LEMMA LeaveDialogs ==
  ASSUME dialog \in Dialogs, cal \in Cals, NEW d \in Dialog, Leave(d)
  PROVE  /\ dialog' \in Dialogs /\ cal' \in Cals
         /\ dialog'[d] = Menu /\ cal'[d] = NoCal
         /\ \A c \in Dialog \ {d} : dialog'[c] = dialog[c] /\ cal'[c] = cal[c]
<1>1. Menu \in [step : DialogSteps, id : Device \cup {None}, enum : Enum \cup {None}]
  BY DEF Menu, DialogSteps
<1>2. NoCal \in [start : Starts, close : Starts \cup {"junk"},
                 open : Starts \cup {"junk"}, nr : Times \cup {None}]
  BY DEF NoCal, Starts
<1> HIDE DEF Menu, NoCal
<1> QED
  BY <1>1, <1>2 DEF Leave, Dialogs, Cals

(* The forms of the timed dialog and of the event-driven one.              *)
LEMMA FormTypes ==
  ASSUME Base, NEW d \in Dialog, NEW t \in {"short", "ok", "long"},
         \/ TimedClose(d) \/ TimedRedo(d) \/ TimedCloseSubmitted(d, t) \/ TimedOpenSubmitted(d, t)
         \/ Submit(d) \/ SubscribeStop(d) \/ CalTimeout(d)
  PROVE  /\ dialog' \in Dialogs /\ cal' \in Cals /\ UNCHANGED <<entryVars, Others>>
         /\ \A c \in Dialog : dialog'[c].id = dialog[c].id /\ dialog'[c].enum = dialog[c].enum
         /\ ~At(d, "menu") /\ \A c \in Dialog \ {d} : dialog'[c] = dialog[c]
<1>1. dialog \in Dialogs /\ cal \in Cals
  BY DEF Base, TypeOK, Dialogs, Cals
<1>2. UNCHANGED <<entryVars, Others>> /\ ~At(d, "menu")
  BY DEF TimedClose, TimedRedo, TimedCloseSubmitted, TimedOpenSubmitted, Submit, SubscribeStop, CalTimeout, Rejected, At
<1>3. (\E s \in DialogSteps : Goto(d, s)) \/ dialog' = dialog
  BY DEF TimedClose, TimedRedo, TimedCloseSubmitted, TimedOpenSubmitted, Submit, SubscribeStop, CalTimeout, Rejected,
         DialogSteps
<1>4. Measured(d) \in Starts \cup {"junk"}
  BY <1>1 DEF Measured, Cals
<1>5. cal' \in Cals
  <2>1. CASE TimedClose(d)
    BY <1>1, <2>1 DEF TimedClose, DriveFate, Starts, Cals
  <2>2. CASE TimedRedo(d)
    BY <1>1, <2>2 DEF TimedRedo, Cals, Starts, NoCal
  <2>3. CASE TimedCloseSubmitted(d, t)
    BY <1>1, <1>4, <2>3 DEF TimedCloseSubmitted, DriveFate, Starts, Rejected, Cals
  <2>4. CASE TimedOpenSubmitted(d, t)
    BY <1>1, <1>4, <2>4 DEF TimedOpenSubmitted, Starts, Rejected, Cals
  <2>5. CASE Submit(d) \/ SubscribeStop(d) \/ CalTimeout(d)
    BY <1>1, <2>5 DEF Submit, SubscribeStop, CalTimeout
  <2> QED
    BY <2>1, <2>2, <2>3, <2>4, <2>5
<1>6. dialog' \in Dialogs /\ \A c \in Dialog \ {d} : dialog'[c] = dialog[c]
  BY <1>1, <1>3, GotoDialogs
<1>7. \A c \in Dialog : dialog'[c].id = dialog[c].id /\ dialog'[c].enum = dialog[c].enum
  BY <1>1, <1>3, GotoDialogs
<1> QED
  BY <1>1, <1>2, <1>5, <1>6, <1>7

(* A step that leaves the entry to itself keeps Base.                      *)
LEMMA BaseFrom ==
  ASSUME Base, EntryInv', dialog' \in Dialogs, cal' \in Cals, pairing' \in BOOLEAN,
         mot' \in [Motor -> {"rest", "up", "down"}], done' \in [Device -> Times \cup {None}],
         runs' \in 0..MaxCal, Obstructs,
         \A d \in Dialog : dialog'[d].step # "menu" => dialog'[d].id \in Device
  PROVE  Base'
<1>1. obstructed' \subseteq Dialog
  BY DEF Obstructs
<1> QED
  BY <1>1 DEF Base, EntryInv, TypeOK, IdOK, At, Dialogs, Cals

LEMMA Rest ==
  ASSUME Base
  PROVE  /\ EntryInv /\ dialog \in Dialogs /\ cal \in Cals /\ pairing \in BOOLEAN
         /\ mot \in [Motor -> {"rest", "up", "down"}] /\ done \in [Device -> Times \cup {None}]
         /\ runs \in 0..MaxCal /\ \A d \in Dialog : dialog[d].step # "menu" => dialog[d].id \in Device
         /\ disk \in [Device -> Times \cup {None}] /\ cache \in [Device -> Times \cup {None}]
         /\ times \in [Device -> Times \cup {None}] /\ slipped \subseteq Device /\ steps \in 0..MaxSteps
  BY DEF Base, TypeOK, IdOK, At, Dialogs, Cals, EntryInv, EntryTypeOK

LEMMA FormBase ==
  ASSUME Base, NEW d \in Dialog, NEW t \in {"short", "ok", "long"}, Obstructs,
         \/ TimedClose(d) \/ TimedRedo(d) \/ TimedCloseSubmitted(d, t) \/ TimedOpenSubmitted(d, t)
         \/ Submit(d) \/ SubscribeStop(d) \/ CalTimeout(d)
  PROVE  Base'
<1>1. /\ dialog' \in Dialogs /\ cal' \in Cals /\ UNCHANGED <<entryVars, Others>>
      /\ \A c \in Dialog : dialog'[c].id = dialog[c].id
      /\ ~At(d, "menu") /\ \A c \in Dialog \ {d} : dialog'[c] = dialog[c]
  BY FormTypes
<1>2. EntryInv'
  BY <1>1, EntryUntouched DEF Base, entryVars
<1>3. \A c \in Dialog : dialog'[c].step # "menu" => dialog'[c].id \in Device
  BY <1>1 DEF Base, IdOK, At
<1> QED
  BY <1>1, <1>2, <1>3, Rest, BaseFrom DEF Others

(* A dialog takes a device to calibrate.                                   *)
LEMMA BeginBase ==
  ASSUME Base, NEW d \in Dialog, NEW i \in Device, NEW e, Obstructs,
         Calibrate(d, i) \/ (i \in Motor /\ e \in Enum /\ NameDevice(d, i, e))
  PROVE  /\ Base' /\ dialog'[d].id = i /\ dialog'[d].step \in {"timed_precondition", "open_form"}
         /\ \A c \in Dialog \ {d} : dialog'[c] = dialog[c]
<1>1. /\ UNCHANGED <<dataVars, setupVars, storeVars, slipped, cal, Others>> /\ Step
  BY DEF Calibrate, NameDevice
<1>2. EntryInv'
  BY <1>1, EntryUntouched DEF Base
<1>3. /\ dialog' \in Dialogs /\ dialog'[d].id = i
      /\ dialog'[d].step \in {"timed_precondition", "open_form"}
      /\ \A c \in Dialog \ {d} : dialog'[c] = dialog[c]
  <2>1. CASE Calibrate(d, i)
    BY <2>1, Rest DEF Calibrate, Dialogs, DialogSteps
  <2>2. CASE i \in Motor /\ e \in Enum /\ NameDevice(d, i, e)
    BY <2>2, Rest DEF NameDevice, Dialogs, DialogSteps
  <2> QED
    BY <2>1, <2>2
<1>4. \A c \in Dialog : dialog'[c].step # "menu" => dialog'[c].id \in Device
  BY <1>3, Rest
<1> QED
  BY <1>1, <1>2, <1>3, <1>4, Rest, BaseFrom DEF Others

LEMMA HeardSteps ==
  ASSUME NEW s \in DialogSteps, NEW what \in {"rest", "up", "down"}
  PROVE  Heard(s, what) \in DialogSteps /\ (Heard(s, what) # "menu" => s # "menu")
  BY DEF Heard, DialogSteps

LEMMA MovesBase ==
  ASSUME Base, NEW m \in Motor, NEW what \in {"rest", "up", "down"}, Obstructs, MotorMoves(m, what)
  PROVE  /\ Base' /\ UNCHANGED <<entryVars, cal, done, runs>>
         /\ \A d \in Dialog : dialog'[d].id = dialog[d].id
<1> DEFINE answers == link /\ pairing /\ registered[m] = None
<1>1. UNCHANGED <<entryVars, cal, done, runs>>
  BY DEF MotorMoves
<1>2. EntryInv'
  BY <1>1, EntryUntouched DEF Base, entryVars
<1>3. dialog' = [d \in Dialog |->
        IF dialog[d].id = m /\ link /\ ~answers
        THEN [dialog[d] EXCEPT !.step = Heard(dialog[d].step, what)] ELSE dialog[d]]
  BY DEF MotorMoves
<1>4. \A d \in Dialog : dialog[d].step \in DialogSteps
  BY Rest DEF Dialogs
<1> HIDE DEF answers
<1>5. dialog' \in Dialogs /\ \A d \in Dialog : dialog'[d].id = dialog[d].id
  BY <1>3, <1>4, HeardSteps, Rest DEF Dialogs
<1>6. \A d \in Dialog : dialog'[d].step # "menu" => dialog'[d].id \in Device
  BY <1>3, <1>4, <1>5, HeardSteps, Rest DEF Dialogs
<1>7. pairing' \in BOOLEAN /\ mot' \in [Motor -> {"rest", "up", "down"}]
  BY Rest DEF MotorMoves
<1> QED
  BY <1>1, <1>2, <1>5, <1>6, <1>7, Rest, BaseFrom

LEMMA AbandonBase ==
  ASSUME Base, NEW d \in Dialog, Obstructs, Abandon(d)
  PROVE  Base'
<1>1. EntryInv'
  BY EntryUntouched DEF Base, entryVars, Abandon
<1>2. dialog' \in Dialogs /\ cal' \in Cals /\ dialog'[d] = Menu
      /\ \A c \in Dialog \ {d} : dialog'[c] = dialog[c]
  BY Rest, LeaveDialogs DEF Abandon
<1>3. \A c \in Dialog : dialog'[c].step # "menu" => dialog'[c].id \in Device
  BY <1>2, Rest DEF Menu
<1> QED
  BY <1>1, <1>2, <1>3, Rest, BaseFrom DEF Abandon, Others

LEMMA SaveBase ==
  ASSUME Base, NEW d \in Dialog, Obstructs, Save(d)
  PROVE  /\ Base' /\ runs' = runs + 1 /\ runs' \in Times /\ cal'[d].nr = runs'
         /\ cache' = [cache EXCEPT ![dialog[d].id] = runs'] /\ dialog[d].id \in Device
         /\ dialog'[d].step = "saving" /\ \A c \in Dialog : dialog'[c].id = dialog[c].id
         /\ \A c \in Dialog \ {d} : dialog'[c] = dialog[c] /\ cal'[c] = cal[c]
<1>1. runs' = runs + 1 /\ runs' \in Times /\ runs' \in 0..MaxCal
  BY Rest DEF Save, Times
<1>2. dialog[d].id \in Device
  BY DEF Save, At, Base, IdOK
<1>3. cache' = [cache EXCEPT ![dialog[d].id] = runs'] /\ cache' \in [Device -> Times \cup {None}]
  BY <1>1, <1>2, Rest DEF Save
<1>4. EntryInv'
  BY <1>3, Rest, EntryInvStutter DEF Save, entryRest
<1>5. "saving" \in DialogSteps
  BY DEF DialogSteps
<1>6. /\ dialog' \in Dialogs /\ dialog'[d].step = "saving"
      /\ \A c \in Dialog : dialog'[c].id = dialog[c].id
      /\ \A c \in Dialog \ {d} : dialog'[c] = dialog[c]
  BY <1>5, Rest, GotoDialogs DEF Save
<1>7. cal' \in Cals /\ cal'[d].nr = runs' /\ \A c \in Dialog \ {d} : cal'[c] = cal[c]
  BY <1>1, Rest DEF Save, Cals
<1>8. \A c \in Dialog : dialog'[c].step # "menu" => dialog'[c].id \in Device
  BY <1>2, <1>6, Rest
<1>9. Base'
  BY <1>1, <1>4, <1>6, <1>7, <1>8, Rest, BaseFrom DEF Save
<1> QED
  BY <1>1, <1>2, <1>3, <1>6, <1>7, <1>9

(* The end of a calibration; v are its times, i its device.                *)
LEMMA SavedBase ==
  ASSUME Base, NEW d \in Dialog, Obstructs, Saved(d)
  PROVE  /\ Base' /\ dialog[d].id \in Device /\ dialog'[d] = Menu
         /\ \A c \in Dialog \ {d} : dialog'[c] = dialog[c] /\ cal'[c] = cal[c]
<1> DEFINE i == dialog[d].id
           v == cal[d].nr
<1>1. At(d, "saving") /\ i \in Device /\ v \in Times \cup {None}
  BY Rest DEF Saved, IsFirst, At, Cals
<1>2. dialog' \in Dialogs /\ cal' \in Cals /\ dialog'[d] = Menu
      /\ \A c \in Dialog \ {d} : dialog'[c] = dialog[c] /\ cal'[c] = cal[c]
  BY Rest, LeaveDialogs DEF Saved
<1>3. /\ Signalled(i, v) /\ disk' = cache' /\ done' = [done EXCEPT ![i] = v]
      /\ UNCHANGED <<steps, pairing, mot, runs>>
      /\ IF dialog[d].enum # None /\ i \notin devices
         THEN AddSubentry(i, dialog[d].enum, FALSE)
         ELSE /\ slipped' = IF i \in planned THEN slipped \cup {i} ELSE slipped
              /\ UNCHANGED <<dataVars, setupVars>>
  BY DEF Saved
<1>4. dialog[d].enum \in Enum \cup {None}
  BY Rest DEF Dialogs
<1> HIDE DEF i, v
<1>5. times' \in [Device -> Times \cup {None}] /\ cache' \in [Device -> Times \cup {None}]
      /\ disk' \in [Device -> Times \cup {None}] /\ done' \in [Device -> Times \cup {None}]
      /\ steps' \in 0..MaxSteps
  BY <1>1, <1>3, Rest DEF Signalled
<1>6. EntryInv'
  <2>1. CASE dialog[d].enum # None /\ i \notin devices
    BY <1>1, <1>3, <1>4, <1>5, <2>1, Rest, AddSubentryInv
  <2>2. CASE ~(dialog[d].enum # None /\ i \notin devices)
    <3>1. slipped' \in SUBSET Device /\ slipped \subseteq slipped' /\ UNCHANGED <<dataVars, setupVars>>
      BY <1>1, <1>3, <2>2, Rest
    <3> QED
      BY <1>5, <3>1, Rest, EntryInvStutter
  <2> QED
    BY <2>1, <2>2
<1>7. \A c \in Dialog : dialog'[c].step # "menu" => dialog'[c].id \in Device
  BY <1>2, Rest DEF Menu
<1>8. Base'
  BY <1>2, <1>3, <1>5, <1>6, <1>7, Rest, BaseFrom
<1> QED
  BY <1>1, <1>2, <1>8 DEF i

(* What else happens to the entry.                                         *)
LEMMA SurroundingBase ==
  ASSUME Base, Obstructs,
         \/ EntryStep \/ OpenPairing \/ ClosePairing \/ Disconnects \/ RestartAll
         \/ \E e \in Enum, isTimed \in BOOLEAN : AddDevice(e, isTimed)
         \/ \E i \in Device : RemoveDevice(i)
  PROVE  /\ Base'
         /\ (dialog' = dialog /\ cal' = cal) \/ \A d \in Dialog : dialog'[d] = Menu
<1>1. EntryInv'
  <2>1. CASE OpenPairing \/ ClosePairing
    BY <2>1, EntryUntouched, Rest DEF OpenPairing, ClosePairing, entryVars
  <2>2. ASSUME NEW e \in Enum, NEW isTimed \in BOOLEAN, AddDevice(e, isTimed) PROVE EntryInv'
    <3>1. steps' \in 0..MaxSteps
      BY <2>2, StepsType, Rest DEF AddDevice, EntryInv
    <3>2. AddSubentry(e, e, isTimed) /\ UNCHANGED <<disk, cache, times>> /\ e \in Device \ devices
      BY <2>2 DEF AddDevice, storeVars
    <3> QED
      BY <3>1, <3>2, Rest, AddSubentryInv
  <2>3. CASE EntryStep \/ Disconnects \/ RestartAll \/ \E i \in Device : RemoveDevice(i)
    BY <2>3, EntryStepInv, Rest DEF EntryAction, EntryStep, Disconnects, RestartAll, RemoveDevice
  <2> QED
    BY <2>1, <2>2, <2>3
<1>2. \/ dialog' = dialog /\ cal' = cal
      \/ dialog' = [d \in Dialog |-> Menu] /\ cal' = [d \in Dialog |-> NoCal]
  BY DEF EntryStep, OpenPairing, ClosePairing, Disconnects, RestartAll, AddDevice, RemoveDevice, Others
<1>3. dialog' \in Dialogs /\ cal' \in Cals
  BY <1>2, Rest DEF Dialogs, Cals, Menu, NoCal, Starts, DialogSteps
<1>4. pairing' \in BOOLEAN /\ mot' = mot /\ runs' = runs
  BY Rest DEF EntryStep, OpenPairing, ClosePairing, Disconnects, RestartAll, AddDevice, RemoveDevice, Others
<1>5. done' \in [Device -> Times \cup {None}]
  BY Rest DEF EntryStep, OpenPairing, ClosePairing, Disconnects, RestartAll, AddDevice, RemoveDevice, Others
<1>6. \A c \in Dialog : dialog'[c].step # "menu" => dialog'[c].id \in Device
  BY <1>2, Rest DEF Menu
<1> QED
  BY <1>1, <1>2, <1>3, <1>4, <1>5, <1>6, Rest, BaseFrom

LEMMA ActBase == ASSUME Base, Act, Obstructs PROVE Base'
<1>1. ASSUME NEW d \in Dialog, CalStep(d) PROVE Base'
  <2>1. ASSUME NEW t \in {"short", "ok", "long"}, TimedCloseSubmitted(d, t) \/ TimedOpenSubmitted(d, t)
        PROVE  Base'
    BY <2>1, FormBase
  <2>2. CASE TimedClose(d) \/ TimedRedo(d) \/ Submit(d) \/ SubscribeStop(d) \/ CalTimeout(d)
    <3>1. "ok" \in {"short", "ok", "long"}
      OBVIOUS
    <3> QED
      BY <2>2, <3>1, FormBase
  <2>3. ASSUME NEW i \in Device, Calibrate(d, i) PROVE Base'
    BY <2>3, BeginBase
  <2>4. ASSUME NEW m \in Motor, NEW e \in Enum, NameDevice(d, m, e) PROVE Base'
    BY <2>4, BeginBase
  <2>5. CASE Save(d) \/ Saved(d) \/ Abandon(d)
    BY <2>5, SaveBase, SavedBase, AbandonBase
  <2> QED
    BY <1>1, <2>1, <2>2, <2>3, <2>4, <2>5 DEF CalStep
<1>2. ASSUME NEW m \in Motor, NEW what \in {"rest", "up", "down"}, MotorMoves(m, what) PROVE Base'
  BY <1>2, MovesBase
<1>3. CASE \/ EntryStep \/ OpenPairing \/ ClosePairing \/ Disconnects \/ RestartAll
           \/ \E e \in Enum, isTimed \in BOOLEAN : AddDevice(e, isTimed)
           \/ \E i \in Device : RemoveDevice(i)
  BY <1>3, SurroundingBase
<1> QED
  BY <1>1, <1>2, <1>3 DEF Act

-----------------------------------------------------------------------------
(* The runs that are measured.  A dialog that waits for a stop and was not *)
(* obstructed hears its motor: the link is up and no pairing takes the     *)
(* frame.  An added cover registers an enum, since each device has one.    *)
EnumOK == \A i \in devices : Slot(i) \in Enum
RunOK  == \A d \in Dialog : AwaitsStop(d) /\ d \notin obstructed =>
            /\ dialog[d].id \in Motor /\ link /\ (pairing => registered[dialog[d].id] # None)
            /\ Opening(d) => mot[dialog[d].id] = "up"
            /\ Closing(d) => mot[dialog[d].id] = "down"

(* What is timed: nothing outside a run; in a run that met an open link a  *)
(* drive that was written; and after a long uptime never a run without a   *)
(* start.                                                                  *)
Clean(c) == c.start # "drop" /\ c.close # "drop" /\ c.open # "drop"
Driven(d) ==
    /\ ~InTimedRun(d) => cal[d].start = "none" /\ cal[d].close = "none" /\ cal[d].open = "none"
    /\ InTimedRun(d) /\ d \notin obstructed => Clean(cal[d])
    /\ Uptime = "long" => "junk" \notin {cal[d].close, cal[d].open}
DriveOK == \A d \in Dialog : Driven(d)

(* A wait that goes on, or is no wait for a stop.                          *)
WaitGoesOn(d) ==
    \/ ~AwaitsStop(d)'
    \/ /\ AwaitsStop(d) /\ dialog'[d].id = dialog[d].id
       /\ Opening(d)' = Opening(d) /\ Closing(d)' = Closing(d)

LEMMA RunQuiet ==
  ASSUME Base, RunOK, Obstructs, mot' = mot, \A d \in Dialog : WaitGoesOn(d),
         \A m \in Motor : link /\ registered[m] # None => registered'[m] # None
  PROVE  RunOK'
<1> SUFFICES ASSUME NEW d \in Dialog, AwaitsStop(d)', d \notin obstructed'
             PROVE  /\ (dialog[d].id)' \in Motor /\ link' /\ (pairing => registered[dialog[d].id] # None)'
                    /\ (Opening(d) => mot[dialog[d].id] = "up")'
                    /\ (Closing(d) => mot[dialog[d].id] = "down")'
  BY DEF RunOK
<1>1. /\ AwaitsStop(d) /\ dialog'[d].id = dialog[d].id
      /\ Opening(d)' = Opening(d) /\ Closing(d)' = Closing(d)
  BY DEF WaitGoesOn
<1>2. d \notin obstructed /\ ~(link /\ ~link') /\ ~(pairing' /\ ~pairing)
  BY <1>1 DEF Obstructs, MayMissStop
<1>3. /\ dialog[d].id \in Motor /\ link /\ (pairing => registered[dialog[d].id] # None)
      /\ Opening(d) => mot[dialog[d].id] = "up"
      /\ Closing(d) => mot[dialog[d].id] = "down"
  BY <1>1, <1>2 DEF RunOK
<1> QED
  BY <1>1, <1>2, <1>3

(* A frame starts the wait of a dialog, or ends it.                        *)
LEMMA RunMoves ==
  ASSUME Base, RunOK, Obstructs, NEW m \in Motor, NEW what \in {"rest", "up", "down"}, MotorMoves(m, what)
  PROVE  RunOK'
<1> DEFINE answers == link /\ pairing /\ registered[m] = None
<1> SUFFICES ASSUME NEW d \in Dialog, AwaitsStop(d)', d \notin obstructed'
             PROVE  /\ (dialog[d].id)' \in Motor /\ link' /\ (pairing => registered[dialog[d].id] # None)'
                    /\ (Opening(d) => mot[dialog[d].id] = "up")'
                    /\ (Closing(d) => mot[dialog[d].id] = "down")'
  BY DEF RunOK
<1>1. /\ mot[m] # what /\ (mot[m] = "rest" \/ what = "rest")
      /\ mot' = [mot EXCEPT ![m] = what] /\ pairing' = (pairing /\ ~answers)
      /\ link' = link /\ registered' = registered
  BY DEF MotorMoves, entryVars, setupVars
<1>2. dialog'[d] = IF dialog[d].id = m /\ link /\ ~answers
                   THEN [dialog[d] EXCEPT !.step = Heard(dialog[d].step, what)] ELSE dialog[d]
  BY DEF MotorMoves
<1>3. mot \in [Motor -> {"rest", "up", "down"}] /\ dialog \in Dialogs
  BY Rest
<1>4. ASSUME AwaitsStop(d) PROVE d \notin obstructed
  BY <1>4 DEF Obstructs, MayMissStop
<1>5. CASE dialog[d].id = m /\ link /\ ~answers
  <2>1. dialog'[d].id = m /\ dialog'[d].step = Heard(dialog[d].step, what)
    BY <1>2, <1>3, <1>5 DEF Dialogs
  <2>2. ~AwaitsStop(d)
    <3> SUFFICES ASSUME AwaitsStop(d) PROVE FALSE
      OBVIOUS
    <3>1. mot[m] # "rest" /\ what = "rest"
      BY <1>1, <1>4, <1>5 DEF RunOK, AwaitsStop
    <3>2. dialog[d].step \in {"open_heard", "close_heard"}
      BY <2>1, <3>1 DEF Heard, AwaitsStop, Opening, Closing
    <3>3. mot'[dialog[d].id] # mot[dialog[d].id]
      BY <1>1, <1>3, <1>5, <3>1
    <3> QED
      BY <3>2, <3>3 DEF Obstructs, MayMissStop
  <2>3. \/ what = "up" /\ dialog'[d].step = "open_heard"
        \/ what = "down" /\ dialog'[d].step = "close_heard"
    BY <2>1, <2>2 DEF Heard, AwaitsStop, Opening, Closing
  <2> QED
    BY <1>1, <1>3, <1>5, <2>1, <2>3 DEF Opening, Closing
<1>6. CASE ~(dialog[d].id = m /\ link /\ ~answers)
  <2>1. dialog'[d] = dialog[d] /\ AwaitsStop(d)
    BY <1>2, <1>6 DEF AwaitsStop, Opening, Closing
  <2>2. /\ dialog[d].id \in Motor /\ link /\ (pairing => registered[dialog[d].id] # None)
        /\ Opening(d) => mot[dialog[d].id] = "up"
        /\ Closing(d) => mot[dialog[d].id] = "down"
    BY <1>4, <2>1 DEF RunOK
  <2>3. dialog[d].id # m
    BY <1>6, <2>2
  <2> QED
    BY <1>1, <1>3, <2>1, <2>2, <2>3 DEF Opening, Closing
<1> QED
  BY <1>5, <1>6

(* The enums of the devices.                                               *)
LEMMA EnumStep == ASSUME Base, EnumOK, Act PROVE EnumOK'
<1>1. ASSUME NEW i \in Device \ devices, NEW e \in Enum, NEW t, AddSubentry(i, e, t)
      PROVE  EnumOK'
  BY <1>1 DEF AddSubentry, EnumOK, Slot, Base, EntryInv, EntryTypeOK
<1>2. ASSUME NEW i \in Device, RemoveSubentry(i) PROVE EnumOK'
  BY <1>2 DEF RemoveSubentry, EnumOK, Slot, Base, EntryInv, EntryTypeOK
<1>3. CASE UNCHANGED <<devices, slot>>
  BY <1>3 DEF EnumOK, Slot
<1> QED
  <2>1. ASSUME NEW d \in Dialog, CalStep(d) PROVE EnumOK'
    <3>1. CASE Saved(d)
      <4>1. dialog[d].id \in Device /\ dialog[d].enum \in Enum \cup {None}
        BY <3>1, Rest DEF Saved, IsFirst, At, Dialogs
      <4>2. CASE dialog[d].enum # None /\ dialog[d].id \notin devices
        <5>1. AddSubentry(dialog[d].id, dialog[d].enum, FALSE)
          BY <3>1, <4>2 DEF Saved
        <5> QED
          BY <1>1, <4>1, <4>2, <5>1
      <4>3. CASE ~(dialog[d].enum # None /\ dialog[d].id \notin devices)
        BY <1>3, <3>1, <4>3 DEF Saved, dataVars
      <4> QED
        BY <4>2, <4>3
    <3>2. CASE ~Saved(d)
      BY <1>3, <2>1, <3>2 DEF CalStep, Calibrate, NameDevice, TimedClose, TimedRedo, TimedCloseSubmitted,
         TimedOpenSubmitted, Rejected, Submit, SubscribeStop, CalTimeout, Save, Abandon, entryVars, entryRest, dataVars
    <3> QED
      BY <3>1, <3>2
  <2>2. ASSUME NEW e \in Enum, NEW isTimed \in BOOLEAN, AddDevice(e, isTimed) PROVE EnumOK'
    BY <1>1, <2>2 DEF AddDevice
  <2>3. ASSUME NEW i \in Device, RemoveDevice(i) PROVE EnumOK'
    BY <1>2, <2>3 DEF RemoveDevice
  <2>4. CASE \/ EntryStep \/ OpenPairing \/ ClosePairing \/ Disconnects \/ RestartAll
             \/ \E m \in Motor, what \in {"rest", "up", "down"} : MotorMoves(m, what)
    BY <1>3, <2>4 DEF EntryStep, OpenPairing, ClosePairing, Disconnects, RestartAll, MotorMoves, UnloadPlatforms,
       SetupApi, SetupCovers, SetupDone, LinkUp, ReloadRequested, AddCover, DisableCover, EnableCover,
       LinkLost, UnloadApi, Restart, entryVars, dataVars
  <2> QED
    BY <2>1, <2>2, <2>3, <2>4 DEF Act

(* Which motors are registered: a closed api has no link, and an added     *)
(* cover registers the enum of its device.                                 *)
LEMMA RegisteredKept ==
  ASSUME Base, EnumOK, Act,
         ~ RestartAll
  PROVE  \A m \in Motor : link /\ registered[m] # None => registered'[m] # None
<1>1. CASE SetupApi
  BY <1>1 DEF SetupApi, Base, EntryInv, ClosedOK
<1>2. ASSUME NEW i \in Device, AddCover(i)
      PROVE  \A m \in Motor : link /\ registered[m] # None => registered'[m] # None
  <2>1. Slot(i) # None
    BY <1>2, NoneNotEnum DEF AddCover, CanAdd, EnumOK, Base, EntryInv, CoversOK
  <2> QED
    BY <1>2, <2>1 DEF AddCover, Base, EntryInv, EntryTypeOK
<1>3. ASSUME ~SetupApi, ~\E i \in Device : AddCover(i) PROVE UNCHANGED registered
  <2>1. ASSUME NEW d \in Dialog, CalStep(d) PROVE UNCHANGED registered
    BY <2>1 DEF CalStep, Calibrate, NameDevice, TimedClose, TimedRedo, TimedCloseSubmitted, TimedOpenSubmitted,
       Rejected, Submit, SubscribeStop, CalTimeout, Save, Saved, AddSubentry, Abandon, entryVars, entryRest, setupVars
  <2>2. CASE \E m \in Motor, what \in {"rest", "up", "down"} : MotorMoves(m, what)
    BY <2>2 DEF MotorMoves, entryVars, setupVars
  <2>3. CASE OpenPairing \/ ClosePairing \/ Disconnects \/ \E i \in Device : RemoveDevice(i)
    BY <2>3 DEF OpenPairing, ClosePairing, Disconnects, RemoveDevice, RemoveSubentry, LinkLost,
       UnloadApi, setupVars, entryVars
  <2>4. CASE \E e \in Enum, isTimed \in BOOLEAN : AddDevice(e, isTimed)
    BY <2>4 DEF AddDevice, AddSubentry
  <2>5. CASE EntryStep
    BY <1>3, <2>5 DEF EntryStep, UnloadPlatforms, SetupCovers, SetupDone, LinkUp, ReloadRequested,
       DisableCover, EnableCover
  <2> QED
    BY <2>1, <2>2, <2>3, <2>4, <2>5 DEF Act
<1> QED
  BY <1>1, <1>2, <1>3

(* Only a frame starts a wait for a stop.                                  *)
Awaiting == {"open_heard", "open_stop", "close_heard", "close_stop"}

LEMMA WaitsKept ==
  ASSUME Base, Act, ~\E m \in Motor, what \in {"rest", "up", "down"} : MotorMoves(m, what)
  PROVE  /\ mot' = mot
         /\ \A d \in Dialog : WaitGoesOn(d)
<1>0. ASSUME NEW d \in Dialog, dialog'[d] = dialog[d] \/ dialog'[d].step \in DialogSteps \ Awaiting
      PROVE  WaitGoesOn(d)
  BY <1>0 DEF WaitGoesOn, AwaitsStop, Opening, Closing, Awaiting
<1>1. ASSUME NEW d \in Dialog, CalStep(d)
      PROVE  /\ mot' = mot
             /\ WaitGoesOn(d)
             /\ \A c \in Dialog \ {d} : dialog'[c] = dialog[c]
  <2>1. mot' = mot
    BY <1>1 DEF CalStep, Calibrate, NameDevice, TimedClose, TimedRedo, TimedCloseSubmitted, TimedOpenSubmitted,
       Rejected, Submit, SubscribeStop, CalTimeout, Save, Saved, Abandon, Others
  <2>2. dialog \in Dialogs
    BY Rest
  <2>3. CASE (\E i \in Device : Calibrate(d, i)) \/ \E m \in Motor, e \in Enum : NameDevice(d, m, e)
    <3>1. ASSUME NEW i \in Device, Calibrate(d, i)
          PROVE  dialog'[d].step \in {"timed_precondition", "open_form"} /\ \A c \in Dialog \ {d} : dialog'[c] = dialog[c]
      BY <2>2, <3>1 DEF Calibrate, Dialogs
    <3>2. ASSUME NEW m \in Motor, NEW e \in Enum, NameDevice(d, m, e)
          PROVE  dialog'[d].step = "open_form" /\ \A c \in Dialog \ {d} : dialog'[c] = dialog[c]
      BY <2>2, <3>2 DEF NameDevice, Dialogs
    <3> QED
      BY <1>0, <2>1, <2>3, <3>1, <3>2 DEF DialogSteps, Awaiting
  <2>4. CASE Saved(d) \/ Abandon(d)
    <3>1. dialog'[d] = Menu /\ \A c \in Dialog \ {d} : dialog'[c] = dialog[c]
      BY <2>4, Rest, LeaveDialogs DEF Saved, Abandon
    <3> QED
      BY <1>0, <2>1, <3>1 DEF Menu, DialogSteps, Awaiting
  <2>5. CASE \/ TimedClose(d) \/ TimedRedo(d) \/ Submit(d) \/ CalTimeout(d) \/ Save(d)
             \/ \E t \in {"short", "ok", "long"} : TimedCloseSubmitted(d, t) \/ TimedOpenSubmitted(d, t)
    <3>1. dialog' = dialog \/ \E s \in DialogSteps \ Awaiting : Goto(d, s)
      BY <2>5 DEF TimedClose, TimedRedo, TimedCloseSubmitted, TimedOpenSubmitted, Rejected, Submit, SubscribeStop,
         CalTimeout, Save, DialogSteps, Awaiting
    <3> QED
      BY <1>0, <2>1, <2>2, <3>1, GotoDialogs DEF DialogSteps
  <2>6. CASE SubscribeStop(d)
    <3>1. \/ At(d, "open_heard") /\ Goto(d, "open_stop")
          \/ At(d, "close_heard") /\ Goto(d, "close_stop")
      BY <2>6 DEF SubscribeStop
    <3>2. WaitGoesOn(d) /\ \A c \in Dialog \ {d} : dialog'[c] = dialog[c]
      BY <2>2, <3>1 DEF Goto, Dialogs, WaitGoesOn, AwaitsStop, Opening, Closing, At
    <3> QED
      BY <2>1, <3>2
  <2> QED
    BY <1>1, <2>1, <2>3, <2>4, <2>5, <2>6 DEF CalStep
<1>2. CASE \/ EntryStep \/ OpenPairing \/ ClosePairing \/ Disconnects
           \/ \E e \in Enum, isTimed \in BOOLEAN : AddDevice(e, isTimed)
           \/ \E i \in Device : RemoveDevice(i)
  BY <1>0, <1>2 DEF EntryStep, OpenPairing, ClosePairing, Disconnects, AddDevice, RemoveDevice, Others
<1>3. CASE RestartAll
  BY <1>0, <1>3 DEF RestartAll, Others, Menu, DialogSteps, Awaiting
<1> QED
  BY <1>0, <1>1, <1>2, <1>3 DEF Act

LEMMA RunStep == ASSUME Base, EnumOK, RunOK, Act, Obstructs PROVE RunOK'
<1>1. ASSUME NEW m \in Motor, NEW what \in {"rest", "up", "down"}, MotorMoves(m, what) PROVE RunOK'
  BY <1>1, RunMoves
<1>2. CASE RestartAll
  BY <1>2 DEF RestartAll, RunOK, AwaitsStop, Opening, Closing, Menu
<1>3. ASSUME ~RestartAll, ~\E m \in Motor, what \in {"rest", "up", "down"} : MotorMoves(m, what)
      PROVE  RunOK'
  BY <1>3, RegisteredKept, WaitsKept, RunQuiet
<1> QED
  BY <1>1, <1>2, <1>3

(* A step that begins, times and ends no run of a dialog.                  *)
LEMMA DriveQuiet ==
  ASSUME DriveOK, Obstructs, NEW d \in Dialog,
         cal'[d] = NoCal \/ (cal'[d] = cal[d] /\ InTimedRun(d)' = InTimedRun(d))
  PROVE  Driven(d)'
<1>1. CASE cal'[d] = NoCal
  BY <1>1 DEF Driven, NoCal, Clean
<1>2. CASE cal'[d] = cal[d] /\ InTimedRun(d)' = InTimedRun(d)
  BY <1>2 DEF DriveOK, Driven, Obstructs, MissesDrive
<1> QED
  BY <1>1, <1>2

(* The timed dialog's steps.  A drive is dropped only where the dialog is  *)
(* marked, and the mark lasts as long as the times it tells of.            *)
LEMMA DriveTimed ==
  ASSUME Base, DriveOK, Obstructs, NEW d \in Dialog, NEW t \in {"short", "ok", "long"},
         TimedClose(d) \/ TimedRedo(d) \/ TimedCloseSubmitted(d, t) \/ TimedOpenSubmitted(d, t)
  PROVE  Driven(d)'
<1>1. dialog \in Dialogs /\ cal \in Cals /\ Driven(d)
  BY Rest DEF DriveOK
<1>2. CASE TimedClose(d)
  <2>1. PICK f \in DriveFate : cal' = [cal EXCEPT ![d].start = f]
    BY <1>2 DEF TimedClose
  <2>2. ~InTimedRun(d) /\ dialog'[d].step = "timed_close" /\ ~At(d, "timed_close")
    BY <1>1, <1>2 DEF TimedClose, At, Goto, Dialogs, InTimedRun
  <2>3. /\ cal'[d].start = f /\ cal'[d].close = "none" /\ cal'[d].open = "none"
    BY <1>1, <2>1, <2>2 DEF Driven, Cals
  <2>4. link \/ d \in obstructed'
    BY <2>2 DEF Obstructs, MissesDrive, InTimedRun
  <2> QED
    BY <2>2, <2>3, <2>4 DEF Driven, Clean, InTimedRun, DriveFate
<1>3. CASE TimedRedo(d)
  BY <1>1, <1>3, DriveQuiet DEF TimedRedo, Cals
<1>4. CASE (TimedCloseSubmitted(d, t) \/ TimedOpenSubmitted(d, t)) /\ Rejected(d)
  <2>1. InTimedRun(d) /\ InTimedRun(d)'
    BY <1>4 DEF TimedCloseSubmitted, TimedOpenSubmitted, Rejected, At, InTimedRun
  <2>2. cal'[d].start = "none" /\ cal'[d].close = cal[d].close /\ cal'[d].open = cal[d].open
    BY <1>1, <1>4 DEF Rejected, Cals
  <2>3. d \notin obstructed' => d \notin obstructed
    BY <2>1 DEF Obstructs, MissesDrive
  <2> QED
    BY <1>1, <2>1, <2>2, <2>3 DEF Driven, Clean
<1>5. CASE TimedCloseSubmitted(d, t) /\ Accepted(t)
  <2>1. PICK f \in DriveFate : cal' = [cal EXCEPT ![d].close = Measured(d), ![d].start = f]
    BY <1>5 DEF TimedCloseSubmitted
  <2>2. /\ InTimedRun(d) /\ dialog'[d].step = "timed_open" /\ ~At(d, "timed_open")
    BY <1>1, <1>5 DEF TimedCloseSubmitted, At, Goto, Dialogs, InTimedRun
  <2>3. cal'[d].start = f /\ cal'[d].close = Measured(d) /\ cal'[d].open = cal[d].open
    BY <1>1, <2>1 DEF Cals
  <2>4. d \notin obstructed' => link /\ d \notin obstructed
    BY <2>2 DEF Obstructs, MissesDrive, InTimedRun
  <2>5. Uptime = "long" => cal[d].start # "none"
    BY <1>5 DEF TimedCloseSubmitted, Elapsed, Accepted
  <2> QED
    BY <1>1, <2>2, <2>3, <2>4, <2>5 DEF Driven, Clean, InTimedRun, DriveFate, Measured, Cals, Starts
<1>6. CASE TimedOpenSubmitted(d, t) /\ Accepted(t)
  <2>1. cal' = [cal EXCEPT ![d].open = Measured(d), ![d].start = "none"]
    BY <1>6 DEF TimedOpenSubmitted
  <2>2. InTimedRun(d) /\ dialog'[d].step = "timed_confirm"
    BY <1>1, <1>6 DEF TimedOpenSubmitted, At, Goto, Dialogs, InTimedRun
  <2>3. cal'[d].start = "none" /\ cal'[d].close = cal[d].close /\ cal'[d].open = Measured(d)
    BY <1>1, <2>1 DEF Cals
  <2>4. d \notin obstructed' => d \notin obstructed
    BY <2>2 DEF Obstructs, MissesDrive, InTimedRun
  <2>5. Uptime = "long" => cal[d].start # "none"
    BY <1>6 DEF TimedOpenSubmitted, Elapsed, Accepted
  <2> QED
    BY <1>1, <2>2, <2>3, <2>4, <2>5 DEF Driven, Clean, InTimedRun, Measured, Cals, Starts
<1> QED
  BY <1>2, <1>3, <1>4, <1>5, <1>6 DEF TimedCloseSubmitted, TimedOpenSubmitted

LEMMA DriveSave ==
  ASSUME Base, DriveOK, Obstructs, NEW d \in Dialog, Save(d)
  PROVE  Driven(d)'
<1>1. dialog \in Dialogs /\ cal \in Cals /\ Driven(d)
  BY Rest DEF DriveOK
<1>2. cal'[d].start = cal[d].start /\ cal'[d].close = cal[d].close /\ cal'[d].open = cal[d].open
  BY <1>1 DEF Save, Cals
<1>3. InTimedRun(d)'
  BY <1>1 DEF Save, Goto, Dialogs, InTimedRun
<1>4. InTimedRun(d) /\ d \notin obstructed' => d \notin obstructed
  BY <1>3 DEF Obstructs, MissesDrive
<1> QED
  BY <1>1, <1>2, <1>3, <1>4 DEF Driven, Clean

LEMMA DriveStep == ASSUME Base, DriveOK, Act, Obstructs PROVE DriveOK'
<1> SUFFICES ASSUME NEW b \in Dialog PROVE Driven(b)'
  BY DEF DriveOK
<1>0. dialog \in Dialogs /\ cal \in Cals
  BY Rest
<1>1. ASSUME NEW c \in Dialog, CalStep(c) PROVE Driven(b)'
  <2>1. CASE c # b
    <3>1. dialog'[b] = dialog[b] /\ cal'[b] = cal[b]
      <4>1. CASE Saved(c) \/ Abandon(c)
        BY <2>1, <4>1, Rest, LeaveDialogs DEF Saved, Abandon
      <4>2. CASE ~(Saved(c) \/ Abandon(c))
        BY <1>0, <1>1, <2>1, <4>2 DEF CalStep, Calibrate, NameDevice, TimedClose, TimedRedo, TimedCloseSubmitted,
           TimedOpenSubmitted, Rejected, Submit, SubscribeStop, CalTimeout, Save, Goto, Dialogs, Cals
      <4> QED
        BY <4>1, <4>2
    <3> QED
      BY <3>1, DriveQuiet DEF InTimedRun
  <2>2. ASSUME c = b, NEW t \in {"short", "ok", "long"}, TimedCloseSubmitted(c, t) \/ TimedOpenSubmitted(c, t)
        PROVE  Driven(b)'
    BY <2>2, DriveTimed
  <2>3. CASE c = b /\ (TimedClose(c) \/ TimedRedo(c))
    <3>1. "ok" \in {"short", "ok", "long"}
      OBVIOUS
    <3> QED
      BY <2>3, <3>1, DriveTimed
  <2>4. CASE c = b /\ (Saved(c) \/ Abandon(c))
    BY <2>4, Rest, LeaveDialogs, DriveQuiet DEF Saved, Abandon
  <2>5. CASE c = b /\ Save(c)
    BY <2>5, DriveSave
  <2>6. CASE c = b /\ (Submit(c) \/ SubscribeStop(c) \/ CalTimeout(c))
    <3>1. cal' = cal /\ ~InTimedRun(b) /\ ~InTimedRun(b)'
      BY <1>0, <2>6 DEF Submit, SubscribeStop, CalTimeout, At, Goto, Dialogs, InTimedRun
    <3>2. InTimedRun(b)' = InTimedRun(b)
      BY <3>1 DEF InTimedRun
    <3> QED
      BY <3>1, <3>2, DriveQuiet
  <2>7. CASE c = b /\ ((\E i \in Device : Calibrate(c, i)) \/ \E m \in Motor, e \in Enum : NameDevice(c, m, e))
    <3>1. cal' = cal /\ At(b, "menu")
      BY <2>7 DEF Calibrate, NameDevice, Others
    <3>2. dialog'[b].step \in {"timed_precondition", "open_form"}
      <4>1. ASSUME NEW i \in Device, Calibrate(b, i) PROVE dialog'[b].step \in {"timed_precondition", "open_form"}
        BY <1>0, <4>1 DEF Calibrate, Dialogs
      <4>2. ASSUME NEW m \in Motor, NEW e \in Enum, NameDevice(b, m, e) PROVE dialog'[b].step = "open_form"
        BY <1>0, <4>2 DEF NameDevice, Dialogs
      <4> QED
        BY <2>7, <4>1, <4>2
    <3>3. InTimedRun(b)' = InTimedRun(b)
      BY <3>1, <3>2 DEF InTimedRun, At
    <3> QED
      BY <3>1, <3>3, DriveQuiet
  <2> QED
    BY <1>1, <2>1, <2>2, <2>3, <2>4, <2>5, <2>6, <2>7 DEF CalStep
<1>2. ASSUME NEW m \in Motor, NEW what \in {"rest", "up", "down"}, MotorMoves(m, what) PROVE Driven(b)'
  <2>1. dialog'[b] = dialog[b] \/ dialog'[b].step = Heard(dialog[b].step, what)
    BY <1>0, <1>2 DEF MotorMoves, Dialogs
  <2>2. cal' = cal /\ InTimedRun(b)' = InTimedRun(b)
    BY <1>2, <2>1 DEF MotorMoves, InTimedRun, Heard
  <2> QED
    BY <2>2, DriveQuiet
<1>3. CASE \/ EntryStep \/ OpenPairing \/ ClosePairing \/ Disconnects
           \/ \E e \in Enum, isTimed \in BOOLEAN : AddDevice(e, isTimed)
           \/ \E i \in Device : RemoveDevice(i)
  <2>1. UNCHANGED <<dialog, cal>>
    BY <1>3 DEF EntryStep, OpenPairing, ClosePairing, Disconnects, AddDevice, RemoveDevice
  <2> QED
    BY <2>1, DriveQuiet DEF InTimedRun
<1>4. CASE RestartAll
  BY <1>4, DriveQuiet DEF RestartAll
<1> QED
  BY <1>1, <1>2, <1>3, <1>4 DEF Act

-----------------------------------------------------------------------------
(* The times that are kept.  No two dialogs calibrate one device; what is  *)
(* being saved is in the cache already; the file is never behind a         *)
(* calibration that completed; and covers are built from the cache after   *)
(* the old ones are gone.                                                  *)
DistinctOK == \A c, d \in Dialog : c # d /\ dialog[c].id # None => dialog[c].id # dialog[d].id
SavingOK == \A d \in Dialog : At(d, "saving") =>
              cal[d].nr \in Times /\ cal[d].nr <= runs /\ cache[dialog[d].id] = cal[d].nr
StoreOK == \A i \in Device : /\ Rank(done[i]) <= runs
                             /\ Rank(done[i]) <= Rank(cache[i]) /\ Rank(done[i]) <= Rank(disk[i])
EmptyOK == /\ phase \in {"unloading", "unloaded", "starting"} => covers = {}
           /\ covers \cap planned = {}
TimesOK == \A i \in (covers \cup planned) \ slipped : Rank(done[i]) <= Rank(times[i])

LEMMA RankType == \A v \in Times \cup {None} : Rank(v) \in 0..MaxCal
  BY DEF Rank, Times

(* A step that neither begins nor ends a save.                             *)
LEMMA StoreQuiet ==
  ASSUME Base, Base', DistinctOK, SavingOK, StoreOK, UNCHANGED <<cache, disk, done, runs>>,
         \A d \in Dialog : dialog'[d].id \in {dialog[d].id, None},
         \A d \in Dialog : dialog'[d].step = "saving" =>
             At(d, "saving") /\ dialog'[d].id = dialog[d].id /\ cal'[d].nr = cal[d].nr
  PROVE  DistinctOK' /\ SavingOK' /\ StoreOK'
<1>1. DistinctOK'
  BY DEF DistinctOK
<1>2. SavingOK'
  BY DEF SavingOK, At
<1>3. StoreOK'
  BY DEF StoreOK
<1> QED
  BY <1>1, <1>2, <1>3

LEMMA SaveKept ==
  ASSUME Base, DistinctOK, SavingOK, StoreOK, NEW d \in Dialog, Obstructs, Save(d)
  PROVE  DistinctOK' /\ SavingOK' /\ StoreOK' /\ UNCHANGED <<phase, covers, planned, slipped, times, done>>
<1>1. /\ runs' = runs + 1 /\ runs' \in Times /\ cal'[d].nr = runs'
      /\ cache' = [cache EXCEPT ![dialog[d].id] = runs'] /\ dialog[d].id \in Device
      /\ dialog'[d].step = "saving" /\ \A c \in Dialog : dialog'[c].id = dialog[c].id
      /\ \A c \in Dialog \ {d} : dialog'[c] = dialog[c] /\ cal'[c] = cal[c]
  BY SaveBase
<1>2. runs \in Nat /\ cache \in [Device -> Times \cup {None}]
  BY Rest
<1>3. UNCHANGED <<phase, covers, planned, slipped, times, done, disk>>
  BY DEF Save, entryRest, setupVars
<1>4. DistinctOK'
  BY <1>1 DEF DistinctOK
<1>5. SavingOK'
  <2> SUFFICES ASSUME NEW c \in Dialog, dialog'[c].step = "saving"
               PROVE  cal'[c].nr \in Times /\ cal'[c].nr <= runs' /\ cache'[dialog'[c].id] = cal'[c].nr
    BY DEF SavingOK, At
  <2>1. CASE c = d
    BY <1>1, <1>2, <2>1 DEF Times
  <2>2. CASE c # d
    <3>1. dialog[c].id \in Device /\ At(c, "saving")
      BY <1>1, <2>2, Rest DEF At
    <3>2. dialog[c].id # dialog[d].id
      BY <1>1, <2>2, NoneNotTimes DEF DistinctOK
    <3>3. cache'[dialog[c].id] = cache[dialog[c].id]
      BY <1>1, <1>2, <3>1, <3>2
    <3>4. cal[c].nr \in Times /\ cal[c].nr <= runs /\ cache[dialog[c].id] = cal[c].nr
      BY <3>1 DEF SavingOK
    <3> QED
      BY <1>1, <1>2, <2>2, <3>3, <3>4 DEF Times
  <2> QED
    BY <2>1, <2>2
<1>6. StoreOK'
  <2> SUFFICES ASSUME NEW i \in Device
               PROVE  /\ Rank(done[i]) <= runs' /\ Rank(done[i]) <= Rank(cache'[i])
                      /\ Rank(done[i]) <= Rank(disk[i])
    BY <1>3 DEF StoreOK
  <2>1. Rank(done[i]) \in Nat /\ Rank(done[i]) <= runs /\ Rank(done[i]) <= Rank(cache[i])
        /\ Rank(done[i]) <= Rank(disk[i])
    BY RankType, Rest DEF StoreOK
  <2>2. cache'[i] = runs' \/ cache'[i] = cache[i]
    BY <1>1, <1>2
  <2>3. Rank(runs') = runs + 1
    BY <1>1, NoneNotTimes DEF Rank
  <2> QED
    BY <1>1, <1>2, <2>1, <2>2, <2>3
<1> QED
  BY <1>3, <1>4, <1>5, <1>6

(* The save is done: the file has what the cache has, and the cover, if    *)
(* there is one, works with it.                                            *)
LEMMA SavedKept ==
  ASSUME Base, DistinctOK, SavingOK, StoreOK, EmptyOK, TimesOK, NEW d \in Dialog, Obstructs, Saved(d)
  PROVE  DistinctOK' /\ SavingOK' /\ StoreOK' /\ EmptyOK' /\ TimesOK'
<1> DEFINE i == dialog[d].id
           v == cal[d].nr
<1>1. /\ i \in Device /\ dialog'[d] = Menu
      /\ \A c \in Dialog \ {d} : dialog'[c] = dialog[c] /\ cal'[c] = cal[c]
  BY SavedBase
<1>2. /\ Signalled(i, v) /\ disk' = cache' /\ done' = [done EXCEPT ![i] = v]
      /\ UNCHANGED <<phase, covers, planned, runs>> /\ slipped \subseteq slipped'
      /\ i \in planned => i \in slipped'
  <2>1. CASE dialog[d].enum # None /\ i \notin devices
    <3>1. i \notin planned
      BY <2>1 DEF Base, EntryInv, CoversOK
    <3> QED
      BY <2>1, <3>1 DEF Saved, AddSubentry
  <2>2. CASE ~(dialog[d].enum # None /\ i \notin devices)
    BY <2>2 DEF Saved, setupVars
  <2> QED
    BY <2>1, <2>2
<1>3. v \in Times /\ v <= runs /\ cache[i] = v
  BY DEF Saved, IsFirst, SavingOK
<1>4. Rank(v) = v /\ v \in Nat /\ runs \in Nat
  BY <1>3, NoneNotTimes, Rest DEF Rank, Times
<1>5. /\ done \in [Device -> Times \cup {None}] /\ cache \in [Device -> Times \cup {None}]
      /\ times \in [Device -> Times \cup {None}]
  BY Rest
<1> HIDE DEF i, v
<1>6. cache' = cache /\ (i \in covers => times' = [times EXCEPT ![i] = v]) /\ (i \notin covers => times' = times)
  BY <1>1, <1>2, <1>3, <1>5 DEF Signalled
<1>7. StoreOK'
  <2> SUFFICES ASSUME NEW j \in Device
               PROVE  Rank(done'[j]) <= runs /\ Rank(done'[j]) <= Rank(cache[j])
    BY <1>2, <1>6 DEF StoreOK
  <2>1. CASE j = i
    BY <1>2, <1>3, <1>4, <1>5, <2>1
  <2>2. CASE j # i
    BY <1>2, <1>5, <2>2 DEF StoreOK
  <2> QED
    BY <2>1, <2>2
<1>8. DistinctOK' /\ SavingOK'
  <2>1. DistinctOK'
    BY <1>1 DEF DistinctOK, Menu
  <2>2. SavingOK'
    BY <1>1, <1>2, <1>6 DEF SavingOK, At, Menu
  <2> QED
    BY <2>1, <2>2
<1>9. EmptyOK'
  BY <1>2 DEF EmptyOK
<1>10. TimesOK'
  <2> SUFFICES ASSUME NEW j \in (covers \cup planned) \ slipped' PROVE Rank(done'[j]) <= Rank(times'[j])
    BY <1>2 DEF TimesOK
  <2>1. j \in Device
    BY Rest DEF EntryInv, EntryTypeOK
  <2>2. CASE j = i
    <3>1. i \in covers
      BY <1>2, <2>2
    <3>2. done'[j] = v /\ times'[j] = v
      BY <1>2, <1>5, <1>6, <2>1, <2>2, <3>1
    <3> QED
      BY <1>4, <3>2
  <2>3. CASE j # i
    BY <1>2, <1>5, <1>6, <2>1, <2>3 DEF TimesOK
  <2> QED
    BY <2>2, <2>3
<1> QED
  BY <1>7, <1>8, <1>9, <1>10

(* Setups build covers from the cache, and everything else only takes      *)
(* covers away.                                                            *)
LEMMA EntryKept ==
  ASSUME Base, StoreOK, EmptyOK, TimesOK, EntryStep \/ Disconnects, done' = done
  PROVE  EmptyOK' /\ TimesOK' /\ UNCHANGED <<cache, disk>>
<1> USE DEF EmptyOK, TimesOK
<1>0. CoversOK /\ PlannedOK /\ covers \cup planned \subseteq Device /\ times \in [Device -> Times \cup {None}]
  BY Rest DEF EntryInv, EntryTypeOK
<1>1. CASE UnloadPlatforms
  BY <1>0, <1>1 DEF UnloadPlatforms, PlannedOK
<1>2. CASE SetupCovers
  <2>1. \A i \in planned' : i \in Device /\ times'[i] = cache[i]
    BY <1>0, <1>2, Rest DEF SetupCovers, MergedTimes, EntryInv, EntryTypeOK
  <2> QED
    BY <1>2, <2>1 DEF SetupCovers, StoreOK
<1>3. CASE UnloadApi \/ SetupApi \/ SetupDone \/ LinkUp \/ LinkLost \/ ReloadRequested
  BY <1>3 DEF UnloadApi, SetupApi, SetupDone, LinkUp, LinkLost, ReloadRequested, storeVars
<1>4. ASSUME NEW i \in Device, AddCover(i) PROVE EmptyOK' /\ TimesOK' /\ UNCHANGED <<cache, disk>>
  BY <1>0, <1>4 DEF AddCover, CanAdd, PlannedOK, storeVars
<1>5. ASSUME NEW i \in Device, DisableCover(i) \/ EnableCover(i)
      PROVE  EmptyOK' /\ TimesOK' /\ UNCHANGED <<cache, disk>>
  <2>1. CASE EnableCover(i)
    BY <2>1 DEF EnableCover, storeVars
  <2>2. CASE DisableCover(i)
    <3>1. i \in covers /\ i \notin planned
      BY <2>2 DEF DisableCover
    <3>2. covers' = covers \ {i} /\ times' = [times EXCEPT ![i] = None]
          /\ UNCHANGED <<phase, planned, slipped, cache, disk>>
      BY <2>2 DEF DisableCover
    <3> QED
      BY <1>0, <3>1, <3>2
  <2> QED
    BY <1>5, <2>1, <2>2
<1> QED
  BY <1>1, <1>2, <1>3, <1>4, <1>5 DEF EntryStep, Disconnects

Kept == DistinctOK /\ SavingOK /\ StoreOK /\ EmptyOK /\ TimesOK

LEMMA BeginKept ==
  ASSUME Base, Kept, Obstructs, NEW d \in Dialog, NEW i \in Device, NEW e,
         Calibrate(d, i) \/ (i \in Motor /\ e \in Enum /\ NameDevice(d, i, e))
  PROVE  Kept'
<1>1. /\ dialog'[d].id = i /\ dialog'[d].step \in {"timed_precondition", "open_form"}
      /\ \A c \in Dialog \ {d} : dialog'[c] = dialog[c]
  BY BeginBase
<1>2. /\ UNCHANGED <<cache, disk, times, done, runs, cal, phase, covers, planned, slipped>>
      /\ \A c \in Dialog : dialog[c].id # i
  BY DEF Calibrate, NameDevice, storeVars, setupVars, Others
<1>3. DistinctOK'
  BY <1>1, <1>2 DEF Kept, DistinctOK
<1>4. SavingOK'
  BY <1>1, <1>2 DEF Kept, SavingOK, At
<1> QED
  BY <1>2, <1>3, <1>4 DEF Kept, StoreOK, EmptyOK, TimesOK

(* Every other step of a dialog, and a motor's.                            *)
LEMMA OtherKept ==
  ASSUME Base, Base', Kept, UNCHANGED <<entryVars, done, runs>>,
         \A d \in Dialog : dialog'[d].id \in {dialog[d].id, None},
         \A d \in Dialog : dialog'[d].step = "saving" =>
             At(d, "saving") /\ dialog'[d].id = dialog[d].id /\ cal'[d].nr = cal[d].nr
  PROVE  Kept'
<1>1. UNCHANGED <<cache, disk, times, phase, covers, planned, slipped>>
  BY DEF entryVars, setupVars, storeVars
<1>2. DistinctOK' /\ SavingOK' /\ StoreOK'
  BY <1>1, StoreQuiet DEF Kept
<1> QED
  BY <1>1, <1>2 DEF Kept, EmptyOK, TimesOK

LEMMA FormKept ==
  ASSUME Base, Base', Kept, NEW d \in Dialog, NEW t \in {"short", "ok", "long"},
         \/ TimedClose(d) \/ TimedRedo(d) \/ TimedCloseSubmitted(d, t) \/ TimedOpenSubmitted(d, t)
         \/ Submit(d) \/ SubscribeStop(d) \/ CalTimeout(d)
  PROVE  Kept'
<1>1. /\ UNCHANGED <<entryVars, Others>> /\ \A c \in Dialog : dialog'[c].id = dialog[c].id
      /\ \A c \in Dialog \ {d} : dialog'[c] = dialog[c]
  BY FormTypes
<1>2. dialog \in Dialogs /\ cal \in Cals
  BY Rest
<1>3. \A c \in Dialog : cal'[c].nr = cal[c].nr \/ (c = d /\ TimedRedo(d))
  BY <1>2 DEF TimedClose, TimedCloseSubmitted, TimedOpenSubmitted, Rejected, Submit, SubscribeStop, CalTimeout, TimedRedo, Cals
<1>4. dialog'[d].step = "saving" => At(d, "saving") /\ ~TimedRedo(d)
  BY <1>2 DEF TimedClose, TimedCloseSubmitted, TimedOpenSubmitted, Rejected, Submit, SubscribeStop, CalTimeout, TimedRedo,
     Goto, At, Dialogs
<1>5. \A c \in Dialog : dialog'[c].step = "saving" =>
             At(c, "saving") /\ dialog'[c].id = dialog[c].id /\ cal'[c].nr = cal[c].nr
  BY <1>1, <1>3, <1>4 DEF At
<1> QED
  BY <1>1, <1>5, OtherKept DEF Others

LEMMA MovesKept ==
  ASSUME Base, Base', Kept, Obstructs, NEW m \in Motor, NEW what \in {"rest", "up", "down"}, MotorMoves(m, what)
  PROVE  Kept'
<1>1. UNCHANGED <<entryVars, cal, done, runs>> /\ \A d \in Dialog : dialog'[d].id = dialog[d].id
  BY MovesBase
<1>2. ASSUME NEW d \in Dialog, dialog'[d].step = "saving" PROVE dialog[d].step = "saving"
  <2>1. dialog'[d] = dialog[d] \/ dialog'[d] = [dialog[d] EXCEPT !.step = Heard(dialog[d].step, what)]
    BY DEF MotorMoves
  <2>2. Heard(dialog[d].step, what) = "saving" => dialog[d].step = "saving"
    BY DEF Heard
  <2>3. dialog[d] \in [step : DialogSteps, id : Device \cup {None}, enum : Enum \cup {None}]
    BY Rest DEF Dialogs
  <2> QED
    BY <1>2, <2>1, <2>2, <2>3
<1> QED
  BY <1>1, <1>2, OtherKept DEF At

LEMMA AbandonKept ==
  ASSUME Base, Base', Kept, NEW d \in Dialog, Abandon(d)
  PROVE  Kept'
<1>1. dialog'[d] = Menu /\ \A c \in Dialog \ {d} : dialog'[c] = dialog[c] /\ cal'[c] = cal[c]
  BY Rest, LeaveDialogs DEF Abandon
<1> QED
  BY <1>1, OtherKept DEF Abandon, Others, Menu, At

LEMMA SurroundingKept ==
  ASSUME Base, Base', Kept,
         \/ EntryStep \/ OpenPairing \/ ClosePairing \/ Disconnects
         \/ \E e \in Enum, isTimed \in BOOLEAN : AddDevice(e, isTimed)
  PROVE  Kept'
<1>1. UNCHANGED <<dialog, cal, done, runs>>
  BY DEF EntryStep, OpenPairing, ClosePairing, Disconnects, AddDevice, Others
<1>2. EmptyOK' /\ TimesOK' /\ UNCHANGED <<cache, disk>>
  <2>1. CASE EntryStep \/ Disconnects
    BY <1>1, <2>1, EntryKept DEF Kept
  <2>2. CASE OpenPairing \/ ClosePairing \/ \E e \in Enum, isTimed \in BOOLEAN : AddDevice(e, isTimed)
    <3>1. UNCHANGED <<phase, covers, planned, times, cache, disk>> /\ slipped \subseteq slipped'
      BY <2>2 DEF OpenPairing, ClosePairing, AddDevice, AddSubentry, setupVars, storeVars, entryVars
    <3> QED
      BY <1>1, <3>1 DEF Kept, EmptyOK, TimesOK
  <2> QED
    BY <2>1, <2>2
<1>3. DistinctOK' /\ SavingOK' /\ StoreOK'
  BY <1>1, <1>2, StoreQuiet DEF Kept, At
<1> QED
  BY <1>2, <1>3 DEF Kept

LEMMA RestartKept ==
  ASSUME Base, Base', Kept, RestartAll
  PROVE  Kept'
<1>1. /\ \A d \in Dialog : dialog'[d] = Menu
      /\ covers' = {} /\ planned' = {} /\ cache' = disk /\ UNCHANGED <<disk, done, runs>>
  BY DEF RestartAll, Restart
<1> QED
  BY <1>1 DEF Kept, DistinctOK, SavingOK, StoreOK, EmptyOK, TimesOK, Menu, At

(* A device is deleted, and its calibrations are forgotten.                *)
LEMMA RemoveKept ==
  ASSUME Base, Base', Kept, NEW i \in Device, RemoveDevice(i)
  PROVE  Kept'
<1>1. /\ covers' = covers \ {i} /\ planned' = planned \ {i} /\ slipped' = slipped \ {i}
      /\ times' = [times EXCEPT ![i] = None] /\ done' = [done EXCEPT ![i] = None]
      /\ UNCHANGED <<phase, cache, disk, dialog, cal, runs>>
  BY DEF RemoveDevice, RemoveSubentry
<1>2. done \in [Device -> Times \cup {None}] /\ covers \cup planned \subseteq Device /\ runs \in Nat
      /\ times \in [Device -> Times \cup {None}]
      /\ disk \in [Device -> Times \cup {None}] /\ cache \in [Device -> Times \cup {None}]
  BY Rest DEF EntryInv, EntryTypeOK
<1>3. DistinctOK' /\ SavingOK' /\ EmptyOK'
  BY <1>1 DEF Kept, DistinctOK, SavingOK, EmptyOK, At
<1>4. StoreOK'
  <2> SUFFICES ASSUME NEW j \in Device
               PROVE  /\ Rank(done'[j]) <= runs
                      /\ Rank(done'[j]) <= Rank(cache[j]) /\ Rank(done'[j]) <= Rank(disk[j])
    BY <1>1 DEF StoreOK
  <2>1. CASE j = i
    <3>1. Rank(done'[j]) = 0
      BY <1>1, <1>2, <2>1 DEF Rank
    <3>2. Rank(cache[j]) \in Nat /\ Rank(disk[j]) \in Nat
      BY <1>2, RankType
    <3> QED
      BY <1>2, <3>1, <3>2
  <2>2. CASE j # i
    BY <1>1, <1>2, <2>2 DEF Kept, StoreOK
  <2> QED
    BY <2>1, <2>2
<1>5. TimesOK'
  BY <1>1, <1>2 DEF Kept, TimesOK
<1> QED
  BY <1>3, <1>4, <1>5 DEF Kept

-----------------------------------------------------------------------------
IInv == Base /\ EnumOK /\ RunOK /\ DriveOK /\ Kept

LEMMA InitInv == Init => IInv
<1> SUFFICES ASSUME Init PROVE IInv
  OBVIOUS
<1>1. Base
  BY InitBase
<1>2. EnumOK /\ EmptyOK /\ TimesOK
  BY DEF Init, EntryInit, EnumOK, EmptyOK, TimesOK
<1>3. RunOK /\ DriveOK /\ DistinctOK /\ SavingOK
  BY DEF Init, RunOK, AwaitsStop, Opening, Closing, DriveOK, Driven, Clean, InTimedRun, DistinctOK,
         SavingOK, At, Menu, NoCal
<1>4. StoreOK
  BY DEF Init, EntryInit, StoreOK, Nothing, Rank
<1> QED
  BY <1>1, <1>2, <1>3, <1>4 DEF IInv, Kept

LEMMA KeptStep == ASSUME Base, Base', Kept, Act, Obstructs PROVE Kept'
<1>1. ASSUME NEW d \in Dialog, CalStep(d) PROVE Kept'
  <2>1. ASSUME NEW t \in {"short", "ok", "long"}, TimedCloseSubmitted(d, t) \/ TimedOpenSubmitted(d, t)
        PROVE  Kept'
    BY <2>1, FormKept
  <2>2. CASE TimedClose(d) \/ TimedRedo(d) \/ Submit(d) \/ SubscribeStop(d) \/ CalTimeout(d)
    <3>1. "ok" \in {"short", "ok", "long"}
      OBVIOUS
    <3> QED
      BY <2>2, <3>1, FormKept
  <2>3. ASSUME NEW i \in Device, Calibrate(d, i) PROVE Kept'
    BY <2>3, BeginKept
  <2>4. ASSUME NEW m \in Motor, NEW e \in Enum, NameDevice(d, m, e) PROVE Kept'
    BY <2>4, BeginKept
  <2>5. CASE Save(d)
    BY <2>5, SaveKept DEF Kept, EmptyOK, TimesOK
  <2>6. CASE Saved(d)
    BY <2>6, SavedKept DEF Kept
  <2>7. CASE Abandon(d)
    BY <2>7, AbandonKept
  <2> QED
    BY <1>1, <2>1, <2>2, <2>3, <2>4, <2>5, <2>6, <2>7 DEF CalStep
<1>2. ASSUME NEW m \in Motor, NEW what \in {"rest", "up", "down"}, MotorMoves(m, what) PROVE Kept'
  BY <1>2, MovesKept
<1>3. CASE \/ EntryStep \/ OpenPairing \/ ClosePairing \/ Disconnects
           \/ \E e \in Enum, isTimed \in BOOLEAN : AddDevice(e, isTimed)
  BY <1>3, SurroundingKept
<1>4. CASE RestartAll
  BY <1>4, RestartKept
<1>5. ASSUME NEW i \in Device, RemoveDevice(i) PROVE Kept'
  BY <1>5, RemoveKept
<1> QED
  BY <1>1, <1>2, <1>3, <1>4, <1>5 DEF Act

LEMMA Inductive == IInv /\ [Next]_vars => IInv'
<1> SUFFICES ASSUME IInv, [Next]_vars PROVE IInv'
  OBVIOUS
<1>1. CASE Next
  <2>1. Base'
    BY <1>1, ActBase DEF IInv, Next
  <2>2. EnumOK' /\ RunOK' /\ DriveOK'
    BY <1>1, EnumStep, RunStep, DriveStep DEF IInv, Next
  <2>3. Kept'
    BY <1>1, <2>1, KeptStep DEF IInv, Next
  <2> QED
    BY <2>1, <2>2, <2>3 DEF IInv
<1>2. CASE UNCHANGED vars
  <2>1. UNCHANGED <<dialog, cal, pairing, mot, obstructed, done, runs, entryVars>>
    BY <1>2 DEF vars
  <2>2. UNCHANGED <<dataVars, setupVars, storeVars, slipped, steps>>
    BY <2>1 DEF entryVars
  <2>3. EntryInv'
    BY <2>2, EntryUntouched DEF IInv, Base
  <2>4. Base'
    BY <2>1, <2>3 DEF IInv, Base, TypeOK, EntryInv, IdOK, At
  <2>5. EnumOK' /\ RunOK' /\ DriveOK'
    BY <2>1, <2>2 DEF IInv, EnumOK, Slot, dataVars, setupVars, RunOK, AwaitsStop, Opening, Closing,
       DriveOK, Driven, Clean, InTimedRun
  <2>6. Kept'
    <3>1. \A d \in Dialog : dialog[d].step = "saving" => At(d, "saving")
      BY DEF At
    <3> QED
      BY <2>1, <2>4, <3>1, OtherKept DEF IInv
  <2> QED
    BY <2>4, <2>5, <2>6 DEF IInv
<1> QED
  BY <1>1, <1>2

LEMMA Safety == Spec => []IInv
  BY InitInv, Inductive, PTL DEF Spec

-----------------------------------------------------------------------------
(* The variables keep their types, through every interleaving of dialogs,  *)
(* frames, timeouts and reloads (options_flow_calibration.py:171-532,      *)
(* options_flow_timed_calibration.py:78-341).                              *)
THEOREM CalibrationTypes == Spec => []TypeOK
<1>1. IInv => TypeOK
  BY DEF IInv, Base
<1> QED
  BY <1>1, Safety, PTL

(* A wait for a stop runs beside the move the form asked for, unless the   *)
(* stop may have been lost (options_flow_calibration.py:395-480); and a    *)
(* time of the timed dialog runs from a drive that was written to the      *)
(* port, unless the link was down when the run began                       *)
(* (options_flow_timed_calibration.py:102-243, api.py:718).                *)
THEOREM RunsStayOwn == Spec => []OwnRuns
<1>1. IInv => OwnRuns
  <2> SUFFICES ASSUME IInv, NEW d \in Dialog \ obstructed
               PROVE  /\ Opening(d) => mot[dialog[d].id] = "up"
                      /\ Closing(d) => mot[dialog[d].id] = "down"
                      /\ Uptime = "long" => {cal[d].close, cal[d].open} \subseteq {"none", "drive"}
    BY DEF OwnRuns
  <2>1. cal \in Cals /\ Driven(d)
    BY Rest DEF IInv, DriveOK
  <2>2. Uptime = "long" => {cal[d].close, cal[d].open} \subseteq {"none", "drive"}
    BY <2>1 DEF Driven, Clean, Cals, Starts
  <2> QED
    BY <2>2 DEF IInv, RunOK, AwaitsStop
<1> QED
  BY <1>1, Safety, PTL

(* No cover falls behind the last calibration its device completed         *)
(* (cover_calibration.py:49-66, cover.py:97-102,                           *)
(* cover_entity.py:404-465).                                               *)
THEOREM CalibrationStaysKept == Spec => []CalibrationKept
<1>1. IInv => CalibrationKept
  <2> SUFFICES ASSUME IInv, NEW i \in covers \ slipped PROVE Rank(times[i]) >= Rank(done[i])
    BY DEF CalibrationKept
  <2>1. i \in Device /\ Rank(done[i]) <= Rank(times[i])
    BY Rest DEF IInv, Kept, TimesOK, EntryInv, EntryTypeOK
  <2>2. Rank(done[i]) \in Nat /\ Rank(times[i]) \in Nat
    BY <2>1, RankType, Rest DEF IInv
  <2> QED
    BY <2>1, <2>2
<1> QED
  BY <1>1, Safety, PTL

-----------------------------------------------------------------------------
LEMMA SaveIsEntry == ASSUME Base, NEW d \in Dialog, Save(d) PROVE EntryNext
<1>1. runs' \in Times /\ dialog[d].id \in Device
  BY Rest DEF Save, Times, At, Base, IdOK
<1>2. StoreWritten
  BY <1>1, Rest DEF Save, entryRest, StoreWritten
<1> QED
  BY <1>2 DEF EntryNext, DialogAction, Save, entryRest

LEMMA SavedIsEntry == ASSUME Base, NEW d \in Dialog, Saved(d) PROVE EntryNext
<1> DEFINE i == dialog[d].id
           v == cal[d].nr
           e == dialog[d].enum
<1>1. i \in Device /\ v \in Times \cup {None} /\ e \in Enum \cup {None}
  BY Rest DEF Saved, IsFirst, At, Cals, Dialogs
<1>2. /\ Signalled(i, v) /\ disk' = cache' /\ UNCHANGED steps
      /\ IF e # None /\ i \notin devices
         THEN AddSubentry(i, e, FALSE)
         ELSE /\ slipped' = IF i \in planned THEN slipped \cup {i} ELSE slipped
              /\ UNCHANGED <<dataVars, setupVars>>
  BY DEF Saved
<1> HIDE DEF i, v, e
<1>3. StoreWritten
  BY <1>1, <1>2, Rest DEF Signalled, StoreWritten
<1>4. CASE e # None /\ i \notin devices
  BY <1>1, <1>2, <1>3, <1>4 DEF EntryNext, DialogAction
<1>5. CASE ~(e # None /\ i \notin devices)
  <2>1. slipped \subseteq slipped' /\ slipped' \subseteq slipped \cup planned
    BY <1>2, <1>5
  <2> QED
    BY <1>2, <1>3, <1>5, <2>1 DEF EntryNext, DialogAction
<1> QED
  BY <1>4, <1>5

(* The calibration dialogs do nothing to the entry but what EntrySpec      *)
(* allows: they write times for covers that were added and create the      *)
(* subentry of a motor paired just now                                     *)
(* (options_flow_timed_calibration.py:280-341).                            *)
THEOREM CalibrationIsEntry == Spec => EntrySpec
<1>1. Init => EntryInit
  BY DEF Init
<1>2. ASSUME IInv, [Next]_vars PROVE [EntryNext]_entryVars
  <2>0. Base /\ EntryTypeOK
    BY <1>2, Rest DEF IInv, EntryInv
  <2>1. ASSUME NEW d \in Dialog, Save(d) \/ Saved(d) PROVE EntryNext
    BY <2>0, <2>1, SaveIsEntry, SavedIsEntry
  <2>2. ASSUME UNCHANGED <<dataVars, setupVars, storeVars, slipped>>, Step \/ UNCHANGED steps
        PROVE  EntryNext
    BY <2>0, <2>2, EntryIdle
  <2>3. ASSUME UNCHANGED entryVars PROVE EntryNext
    BY <2>2, <2>3 DEF entryVars
  <2>4. ASSUME NEW e \in Enum, NEW isTimed \in BOOLEAN, AddDevice(e, isTimed) PROVE EntryNext
    BY <2>0, <2>4, StoreIdle DEF AddDevice, EntryNext, DialogAction
  <2>5. ASSUME EntryStep \/ Disconnects \/ RestartAll \/ \E i \in Device : RemoveDevice(i)
        PROVE  EntryNext
    BY <2>5 DEF EntryNext, EntryAction, EntryStep, Disconnects, RestartAll, RemoveDevice
  <2>6. ASSUME Act PROVE EntryNext
    <3>1. ASSUME NEW d \in Dialog, CalStep(d) PROVE EntryNext
      <4>1. CASE Save(d) \/ Saved(d)
        BY <2>1, <4>1
      <4>2. ASSUME NEW i \in Device, Calibrate(d, i) PROVE EntryNext
        BY <2>2, <4>2 DEF Calibrate
      <4>3. ASSUME NEW m \in Motor, NEW e \in Enum, NameDevice(d, m, e) PROVE EntryNext
        BY <2>2, <4>3 DEF NameDevice
      <4>4. ASSUME NEW t \in {"short", "ok", "long"}, TimedCloseSubmitted(d, t) \/ TimedOpenSubmitted(d, t)
            PROVE  EntryNext
        BY <2>3, <4>4 DEF TimedCloseSubmitted, TimedOpenSubmitted, Rejected
      <4>5. CASE TimedClose(d) \/ TimedRedo(d) \/ Submit(d) \/ SubscribeStop(d) \/ CalTimeout(d) \/ Abandon(d)
        BY <2>3, <4>5 DEF TimedClose, TimedRedo, Submit, SubscribeStop, CalTimeout, Abandon
      <4> QED
        BY <3>1, <4>1, <4>2, <4>3, <4>4, <4>5 DEF CalStep
    <3>2. ASSUME NEW m \in Motor, NEW what \in {"rest", "up", "down"}, MotorMoves(m, what)
          PROVE  EntryNext
      BY <2>3, <3>2 DEF MotorMoves
    <3>3. CASE OpenPairing \/ ClosePairing
      BY <2>2, <2>3, <3>3 DEF OpenPairing, ClosePairing
    <3> QED
      BY <2>4, <2>5, <2>6, <3>1, <3>2, <3>3 DEF Act
  <2> QED
    BY <1>2, <2>6 DEF Next, vars
<1> QED
  BY <1>1, <1>2, InitInv, Inductive, PTL DEF Spec, EntrySpec

(* So the entities stay complete beside every calibration dialog too.      *)
THEOREM CalibrationStaysComplete == Spec => []EntitiesComplete
<1>1. EntryTypeOK /\ EntitiesComplete => EntitiesComplete
  OBVIOUS
<1> QED
  BY <1>1, CalibrationIsEntry, EntryStaysComplete, PTL
=============================================================================
