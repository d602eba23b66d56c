--------------------------- MODULE EntryLifecycle ---------------------------
(***************************************************************************)
(* The config entry of a stick: its subentries (the motors), the api and   *)
(* the covers that each setup builds anew, the calibration store the       *)
(* covers are built from, and the update listener that asks for a reload   *)
(* (__init__.py, cover.py, cover_calibration.py).                          *)
(*                                                                         *)
(* Setup and unload are coroutines: `phase` is where the one that runs is  *)
(* suspended.  Dialogs and users act in between.                           *)
(***************************************************************************)
EXTENDS Naturals

CONSTANTS Motor,     \* motors that send frames, by their hardware ids
          Enum,      \* device enums, PAIRING_DEVICE_ENUM_START..MAX_DEVICE_ENUM
          None,      \* Python's None
          MaxSteps,  \* bound on losses, restarts, reloads, removals, disablings
          MaxCal     \* bound on the calibrations saved

(* CONF_DEVICE_ID, the subentry's unique id: the hardware id of a motor    *)
(* that was paired, the enum of any other.                                 *)
Device == Motor \cup Enum
Times  == 1..MaxCal      \* a saved pair of travel times, by its number

ASSUME EntryAssumption ==
    /\ Enum \subseteq Nat /\ Motor \cap Enum = {}
    /\ None \notin Device /\ None \notin Nat /\ \A S \in SUBSET Device : S # None
    /\ MaxSteps \in Nat /\ MaxCal \in Nat

VARIABLES
    devices,     \* the devices that have a subentry
    slot,        \* device_enum of each paired motor with a subentry
    timed,       \* devices whose CONF_BIDIRECTIONAL is false
    disabled,    \* covers disabled in the entity registry
    disk,        \* the calibration store's file
    phase,       \* of the setup: "loaded", "unloading", "unloaded",
                 \* "starting" or "adding"
    link,        \* api.is_connected
    registered,  \* _registered_devices of the current api
    planned,     \* covers the platform has created and not yet added
    covers,      \* covers added
    times,       \* the travel times each cover has, None for none
    known,       \* _SETUP_CALLBACKS[...]["subentry_ids"], None if popped
    listening,   \* an update listener is registered
    again,       \* async_reload was called and waits for its turn
    cache,       \* the store's data in memory
    slipped,     \* history: devices the last setup overlooked
    steps        \* at most MaxSteps

dataVars  == <<devices, slot, timed, disabled>>
setupVars == <<phase, link, registered, planned, covers, known, listening, again>>
storeVars == <<disk, cache, times>>
entryVars == <<dataVars, setupVars, storeVars, slipped, steps>>

EntryTypeOK ==
    /\ devices \subseteq Device /\ disabled \subseteq Device /\ timed \subseteq Enum
    /\ slot \in [Motor -> Enum \cup {None}]
    /\ phase \in {"loaded", "unloading", "unloaded", "starting", "adding"}
    /\ link \in BOOLEAN /\ listening \in BOOLEAN /\ again \in BOOLEAN
    /\ registered \in [Device -> Enum \cup {None}]
    /\ planned \subseteq Device /\ covers \subseteq Device /\ slipped \subseteq Device
    /\ known \in (SUBSET Device) \cup {None}
    /\ disk \in [Device -> Times \cup {None}]
    /\ cache \in [Device -> Times \cup {None}]
    /\ times \in [Device -> Times \cup {None}]
    /\ steps \in 0..MaxSteps

Nothing == [i \in Device |-> None]

(* Home Assistant starts: nothing was added yet. *)
EntryInit ==
    /\ devices = {} /\ disabled = {} /\ timed = {}
    /\ slot = [m \in Motor |-> None]
    /\ disk = Nothing /\ cache = Nothing /\ times = Nothing
    /\ phase = "starting" /\ link = FALSE /\ registered = Nothing
    /\ planned = {} /\ covers = {}
    /\ known = None /\ listening = FALSE /\ again = FALSE
    /\ slipped = {} /\ steps = 0

Step == steps < MaxSteps /\ steps' = steps + 1

(* X_Y is X with a plausible slip, here and below. *)
Slot_DeviceId(i) == i
Slot(i) == IF i \in Enum THEN i ELSE slot[i]

-----------------------------------------------------------------------------
(* _on_entry_updated() for the subentries `new`.  While an unload has      *)
(* popped the dict of known subentries it raises KeyError, and no one      *)
(* reloads.                                                                *)
OnEntryUpdated_ToggleOnly(new) == UNCHANGED <<known, listening, again>>

OnEntryUpdated(new) ==
    IF listening /\ known # None /\ known # new
    THEN known' = new /\ again' = TRUE /\ UNCHANGED listening
    ELSE UNCHANGED <<known, listening, again>>

(* async_create_entry() of a dialog.  A device that is added after the     *)
(* platforms have read the subentries is not among them.                   *)
AddSubentry(i, e, isTimed) ==
    /\ devices' = devices \cup {i}
    /\ slot' = [m \in Motor |-> IF m = i THEN e ELSE slot[m]]
    /\ timed' = IF isTimed THEN timed \cup {i} ELSE timed
    /\ OnEntryUpdated(devices')
    /\ slipped' = IF phase = "adding" THEN slipped \cup {i} ELSE slipped
    /\ UNCHANGED <<disabled, phase, link, registered, planned, covers>>

(* A device is deleted: its entities go with its subentry, its times stay. *)
RemoveSubentry(i) ==
    /\ Step /\ i \in devices
    /\ devices' = devices \ {i} /\ timed' = timed \ {i} /\ disabled' = disabled \ {i}
    /\ slot' = [m \in Motor |-> IF m = i THEN None ELSE slot[m]]
    /\ covers' = covers \ {i} /\ planned' = planned \ {i}
    /\ times' = [times EXCEPT ![i] = None]
    /\ OnEntryUpdated(devices')
    /\ slipped' = slipped \ {i}
    /\ UNCHANGED <<phase, link, registered, disk, cache>>

-----------------------------------------------------------------------------
(* async_unload_entry() *)

UnloadPlatforms ==
    /\ phase = "loaded" /\ again
    /\ phase' = "unloading" /\ again' = FALSE /\ covers' = {} /\ times' = Nothing
    /\ UNCHANGED <<dataVars, link, registered, planned, known, listening, disk, cache, slipped, steps>>

(* api.disconnect(), then the known subentries are popped. *)
UnloadApi ==
    /\ phase = "unloading"
    /\ phase' = "unloaded" /\ link' = FALSE /\ known' = None
    /\ UNCHANGED <<dataVars, registered, planned, covers, listening, again, storeVars, slipped, steps>>

(* async_setup_entry(): a new api, whose connect() is a task of its own.   *)
SetupApi ==
    /\ phase = "unloaded"
    /\ phase' = "starting" /\ registered' = Nothing
    /\ UNCHANGED <<dataVars, link, planned, covers, known, listening, again, storeVars, slipped, steps>>

(* cover.async_setup_entry(): a cover for each subentry, with its times    *)
(* from the store.                                                         *)
MergedTimes_NotMerged(i) == None
MergedTimes(i) == cache[i]

SetupCovers ==
    /\ phase = "starting" /\ phase' = "adding"
    /\ planned' = devices \ disabled
    /\ times' = [i \in Device |-> IF i \in planned' THEN MergedTimes(i) ELSE None]
    /\ slipped' = {}
    /\ UNCHANGED <<dataVars, link, registered, covers, known, listening, again, disk, cache, steps>>

(* async_added_to_hass(), with or without a link. *)
CanAdd_Connected(i) == i \in planned /\ link
CanAdd(i) == i \in planned

AddCover(i) ==
    /\ CanAdd(i) /\ planned' = planned \ {i}
    /\ covers' = covers \cup {i} /\ registered' = [registered EXCEPT ![i] = Slot(i)]
    /\ UNCHANGED <<dataVars, phase, link, known, listening, again, storeVars, slipped, steps>>

(* The platforms are up: the listener, then the known subentries. *)
SetupDone ==
    /\ phase = "adding" /\ planned = {}
    /\ phase' = "loaded" /\ known' = devices /\ listening' = TRUE
    /\ UNCHANGED <<dataVars, link, registered, planned, covers, again, storeVars, slipped, steps>>

-----------------------------------------------------------------------------
(* The stick comes and goes. *)
LinkUp ==
    /\ ~link /\ phase \notin {"unloading", "unloaded"} /\ link' = TRUE
    /\ UNCHANGED <<dataVars, phase, registered, planned, covers, known, listening, again, storeVars, slipped, steps>>

LinkLost ==
    /\ Step /\ link /\ link' = FALSE
    /\ UNCHANGED <<dataVars, phase, registered, planned, covers, known, listening, again, storeVars, slipped>>

(* A reload by hand, or async_schedule_reload() of a bind dialog. *)
ReloadRequested ==
    /\ Step /\ ~again /\ again' = TRUE
    /\ UNCHANGED <<dataVars, phase, link, registered, planned, covers, known, listening, storeVars, slipped>>

(* A cover is disabled; enabling it makes Home Assistant reload the entry. *)
DisableCover(i) ==
    /\ Step /\ i \in covers
    /\ covers' = covers \ {i} /\ disabled' = disabled \cup {i}
    /\ times' = [times EXCEPT ![i] = None]
    /\ UNCHANGED <<devices, slot, timed, phase, link, registered, planned, known, listening, again, disk, cache, slipped>>

EnableCover(i) ==
    /\ i \in disabled /\ disabled' = disabled \ {i} /\ again' = TRUE
    /\ UNCHANGED <<devices, slot, timed, phase, link, registered, planned, covers, known, listening, storeVars, slipped, steps>>

(* Home Assistant stops at any moment and starts again. *)
Restart ==
    /\ Step
    /\ phase' = "starting" /\ link' = FALSE /\ registered' = Nothing
    /\ planned' = {} /\ covers' = {} /\ known' = None
    /\ listening' = FALSE /\ again' = FALSE /\ slipped' = {}
    /\ cache' = disk /\ times' = Nothing
    /\ UNCHANGED <<dataVars, disk>>

-----------------------------------------------------------------------------
(* Once the entry is set up and no reload is due, there is a cover for     *)
(* each subentry and for nothing else, but for those that are disabled and *)
(* those added while the platforms were being set up (__init__.py:216,     *)
(* :239).                                                                  *)
EntitiesComplete ==
    phase = "loaded" /\ ~again =>
        covers \subseteq devices /\ devices \subseteq covers \cup disabled \cup slipped

-----------------------------------------------------------------------------
(* The entry, whatever dialogs there are beside it: its own actions, a     *)
(* subentry that some dialog creates, and what dialogs write to the store  *)
(* and to covers that were added.  MotorEnrolment and Calibration          *)
(* implement it.                                                           *)
EntryAction ==
    \/ UnloadPlatforms \/ UnloadApi \/ SetupApi \/ SetupCovers \/ SetupDone
    \/ LinkUp \/ LinkLost \/ ReloadRequested \/ Restart
    \/ \E i \in Device : AddCover(i) \/ DisableCover(i) \/ EnableCover(i) \/ RemoveSubentry(i)

StoreWritten ==
    /\ cache' \in [Device -> Times \cup {None}] /\ disk' \in {disk, cache'}
    /\ times' \in [Device -> Times \cup {None}]
    /\ \A i \in Device \ covers : times'[i] = times[i]

DialogAction ==
    /\ \/ \E i \in Device \ devices, e \in Enum, isTimed \in BOOLEAN :
               (isTimed => i \in Enum) /\ AddSubentry(i, e, isTimed)
       \/ /\ UNCHANGED <<dataVars, setupVars>>
          /\ slipped \subseteq slipped' /\ slipped' \subseteq slipped \cup planned
    /\ StoreWritten
    /\ Step \/ UNCHANGED steps

EntryNext == EntryAction \/ DialogAction

EntrySpec == EntryInit /\ [][EntryNext]_entryVars
=============================================================================
