--------------------------- MODULE MotorEnrolment ---------------------------
(***************************************************************************)
(* The dialogs that add a motor: by hand, by delegation, and by pairing    *)
(* (SchellenbergPairingSubentryFlow, pair_device_and_wait(),               *)
(* delegation_pair()).  Each chooses a device enum that must be nobody     *)
(* else's, and holds it until its subentry is created; nothing reserves    *)
(* it in between.  Dialogs are opened by several users at once.            *)
(***************************************************************************)
EXTENDS EntryLifecycle

CONSTANT Dialog

VARIABLES
    dialog,   \* the step each dialog is at, with its _pending_ attributes
    pairing,  \* the dialog that waits for api._pairing_future, None for none
    raced     \* history: devices whose enum was chosen while in use unseen

vars == <<entryVars, dialog, pairing, raced>>

DialogSteps == {"menu", "position", "waiting", "answered", "failed", "name_device"}

(* `here`: the future of its pairing is of the current api.  `raced`: its  *)
(* enum was in use when it was chosen.                                     *)
TypeOK ==
    /\ EntryTypeOK
    /\ dialog \in [Dialog -> [step : DialogSteps, id : Device \cup {None},
                              enum : Enum \cup {None}, here : BOOLEAN, raced : BOOLEAN]]
    /\ pairing \in Dialog \cup {None}
    /\ raced \subseteq Device

(* async_step_menu() forgets what another branch left. *)
Menu == [step |-> "menu", id |-> None, enum |-> None, here |-> FALSE, raced |-> FALSE]

Init ==
    /\ EntryInit
    /\ dialog = [d \in Dialog |-> Menu] /\ pairing = None /\ raced = {}

At(d, s) == dialog[d].step = s

-----------------------------------------------------------------------------
(* The choice of an enum.  Only covers that were added are registered, so  *)
(* the scan misses the enum another dialog holds, of a cover that is       *)
(* disabled, and of one that a setup has yet to add.                       *)
Used == {registered[i] : i \in Device} \ {None}

(* initialize_next_device_enum() *)
IsNextEnum_Off(e) == e \in Enum /\ \A f \in Enum \ Used : e <= f
IsNextEnum(e) == e \in Enum \ Used /\ \A f \in Enum \ Used : e <= f

(* The duplicate check of async_step_manual_add() *)
NotDuplicate_ById(e) == e \notin devices
NotDuplicate(e) == \A i \in devices : Slot(i) # e

Races(d, e) ==
    \/ \E c \in Dialog \ {d} : dialog[c].enum = e
    \/ \E i \in devices : Slot(i) = e /\ registered[i] # e

(* Home Assistant refuses a second subentry of a unique id. *)
Create(i, e, isTimed, r) ==
    IF i \in devices
    THEN UNCHANGED <<dataVars, setupVars, slipped, raced>>
    ELSE AddSubentry(i, e, isTimed) /\ raced' = IF r THEN raced \cup {i} ELSE raced

Leave(d) == dialog' = [dialog EXCEPT ![d] = Menu]

-----------------------------------------------------------------------------
ManualAdd(d, e) ==
    /\ Step /\ At(d, "menu") /\ NotDuplicate(e)
    /\ \/ /\ Leave(d) /\ Create(e, e, FALSE, Races(d, e))
          /\ UNCHANGED <<storeVars, pairing>>
       \/ /\ dialog' = [dialog EXCEPT ![d].step = "position", ![d].id = e,
                                      ![d].enum = e, ![d].raced = Races(d, e)]
          /\ UNCHANGED <<dataVars, setupVars, storeVars, slipped, pairing, raced>>

(* delegation_pair() writes its frames without being suspended. *)
DelegationPairs(e) == phase # "unloaded" /\ link /\ IsNextEnum(e)

Delegate(d, e) ==
    /\ Step /\ At(d, "menu") /\ DelegationPairs(e)
    /\ dialog' = [dialog EXCEPT ![d].step = "position", ![d].id = e,
                                ![d].enum = e, ![d].raced = Races(d, e)]
    /\ UNCHANGED <<dataVars, setupVars, storeVars, slipped, pairing, raced>>

Position(d) ==
    /\ At(d, "position")
    /\ Leave(d) /\ Create(dialog[d].id, dialog[d].enum, TRUE, dialog[d].raced)
    /\ UNCHANGED <<storeVars, steps, pairing>>

(* pair_device_and_wait() up to its await: the enum is chosen first.  One  *)
(* pairing at a time: a second caller gets None while the future is not    *)
(* done.                                                                   *)
PairingOpen == pairing # None /\ At(pairing, "waiting")

Pair(d, e) ==
    /\ Step /\ At(d, "menu") /\ phase # "unloaded" /\ ~PairingOpen /\ IsNextEnum(e)
    /\ dialog' = [dialog EXCEPT ![d].step = "waiting", ![d].enum = e, ![d].here = TRUE,
                                ![d].raced = Races(d, e)]
    /\ pairing' = d
    /\ UNCHANGED <<dataVars, setupVars, storeVars, slipped, raced>>

(* An "sl" frame of any motor answers; for an "ss" frame Gate 1 wants the  *)
(* motor to have no entity.                                                *)
Answers(m, frame) ==
    /\ link /\ PairingOpen
    /\ frame = "ss" => registered[m] = None

Answered(m) == dialog' = [dialog EXCEPT ![pairing].step = "answered", ![pairing].id = m]

Answer(m, frame) == Answers(m, frame) /\ Answered(m) /\ UNCHANGED <<entryVars, pairing, raced>>

(* The finally clause, whichever future is there by now. *)
ForgetPairing(d) == pairing' = IF dialog[d].here THEN None ELSE pairing

(* asyncio.wait_for() times the wait of each dialog. *)
PairTimeout_Current(d) ==
    /\ At(d, "waiting") /\ pairing = d
    /\ Leave(d) /\ ForgetPairing(d)
    /\ UNCHANGED <<entryVars, raced>>

PairTimeout(d) ==
    /\ At(d, "waiting")
    /\ Leave(d) /\ ForgetPairing(d)
    /\ UNCHANGED <<entryVars, raced>>

(* The flow goes on after its future was resolved. *)
Resume(d) ==
    /\ ForgetPairing(d)
    /\ \/ At(d, "answered") /\ dialog' = [dialog EXCEPT ![d].step = "name_device", ![d].here = FALSE]
       \/ At(d, "failed") /\ Leave(d)
    /\ UNCHANGED <<entryVars, raced>>

(* update_connection_status(False) fails the future that is pending. *)
PairingFails ==
    dialog' = IF PairingOpen THEN [dialog EXCEPT ![pairing].step = "failed"] ELSE dialog

(* async_step_name_device() and the calibration it leads to, which ends by *)
(* creating the subentry; the times are Calibration's part.                *)
NameDevice(d) ==
    /\ At(d, "name_device")
    /\ Leave(d) /\ Create(dialog[d].id, dialog[d].enum, FALSE, dialog[d].raced)
    /\ UNCHANGED <<storeVars, steps, pairing>>

Abandon(d) ==
    /\ dialog[d].step \in {"position", "name_device"}
    /\ Leave(d)
    /\ UNCHANGED <<entryVars, pairing, raced>>

-----------------------------------------------------------------------------
(* What happens to the entry, and what that does to the dialogs. *)
SetupApiD ==
    /\ SetupApi /\ pairing' = None
    /\ dialog' = [d \in Dialog |-> [dialog[d] EXCEPT !.here = FALSE]]
    /\ UNCHANGED raced

Disconnects == (LinkLost \/ UnloadApi) /\ PairingFails /\ UNCHANGED <<pairing, raced>>

RestartD == Restart /\ dialog' = [d \in Dialog |-> Menu] /\ pairing' = None /\ UNCHANGED raced

RemoveD(i) == RemoveSubentry(i) /\ raced' = raced \ {i} /\ UNCHANGED <<dialog, pairing>>

EntryStep ==
    /\ \/ UnloadPlatforms \/ SetupCovers \/ SetupDone \/ LinkUp \/ ReloadRequested
       \/ \E i \in Device : AddCover(i) \/ DisableCover(i) \/ EnableCover(i)
    /\ UNCHANGED <<dialog, pairing, raced>>

Next ==
    \/ \E d \in Dialog, e \in Enum : ManualAdd(d, e) \/ Delegate(d, e) \/ Pair(d, e)
    \/ \E d \in Dialog : \/ Position(d) \/ NameDevice(d) \/ Abandon(d)
                         \/ PairTimeout(d) \/ Resume(d)
    \/ \E m \in Motor, frame \in {"sl", "ss"} : Answer(m, frame)
    \/ \E i \in Device : RemoveD(i)
    \/ EntryStep \/ SetupApiD \/ Disconnects \/ RestartD

(* Timeouts and resumptions are asyncio's; setup and unload are awaited by *)
(* Home Assistant.  Nothing makes a user, a motor or the radio act.        *)
Fairness ==
    /\ \A d \in Dialog : WF_dialog(PairTimeout(d) \/ Resume(d))
    /\ WF_<<phase, planned>>(UnloadPlatforms \/ UnloadApi \/ SetupApi \/ SetupCovers \/ SetupDone
                             \/ \E i \in Device : AddCover(i))

Spec == Init /\ [][Next]_vars
FairSpec == Spec /\ Fairness

-----------------------------------------------------------------------------
(* Two devices answer to one enum only if one of them chose it in a window *)
(* in which the other was not to be seen: it was held by a dialog, or its  *)
(* cover was not registered (api.py:818, api.py:1064).  Whatever dialogs,  *)
(* reloads and removals interleave, the scan and the duplicate check are   *)
(* enough otherwise.                                                       *)
EnumsApart ==
    \A i, j \in devices : i # j /\ Slot(i) = Slot(j) => i \in raced \/ j \in raced

(* A pairing ends, though the finally clause of one dialog may clear the   *)
(* future of another, so that neither an answer nor a lost link can end it *)
(* any more (api.py:818, :872).                                            *)
PairingEnds == \A d \in Dialog : At(d, "waiting") ~> ~At(d, "waiting")

(* However many changes ask for reloads while one runs, the entry is set   *)
(* up again with none due, whether or not the stick is there; by           *)
(* EntitiesComplete each subentry then has its cover (__init__.py:216).    *)
EntrySettles == []<>(phase = "loaded" /\ ~again)
=============================================================================
