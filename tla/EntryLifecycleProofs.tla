------------------------ MODULE EntryLifecycleProofs ------------------------
(***************************************************************************)
(* What every action of EntryLifecycle preserves, whatever dialogs run     *)
(* beside it.  MotorEnrolmentProofs and CalibrationProofs build on it.     *)
(***************************************************************************)
EXTENDS EntryLifecycle, TLAPS

(* Covers are built from subentries, only while the platforms are set up;  *)
(* a closed api has no link; a loaded entry knows its subentries; and what *)
(* a setup has overlooked is accounted for.                                *)
CoversOK   == covers \cup planned \subseteq devices
PlannedOK  == planned # {} => phase = "adding"
ClosedOK   == phase = "unloaded" => ~link
KnownOK    == phase = "loaded" => listening /\ known = devices
AddingOK   == phase = "adding" /\ ~again => devices \subseteq planned \cup covers \cup disabled \cup slipped

EntryInv ==
    /\ EntryTypeOK
    /\ CoversOK /\ PlannedOK /\ ClosedOK /\ KnownOK /\ AddingOK
    /\ EntitiesComplete

USE EntryAssumption DEF Device

LEMMA NoneNotEnum == None \notin Enum
  OBVIOUS

LEMMA NoneNotTimes == None \notin Times
  BY DEF Times

LEMMA EntryInitInv == ASSUME EntryInit PROVE EntryInv
<1>1. Nothing \in [Device -> Times \cup {None}] /\ Nothing \in [Device -> Enum \cup {None}]
  BY DEF Nothing
<1>2. slot \in [Motor -> Enum \cup {None}]
  BY DEF EntryInit
<1>3. steps \in 0..MaxSteps
  BY DEF EntryInit
<1>4. EntryTypeOK
  BY <1>1, <1>2, <1>3 DEF EntryInit, EntryTypeOK
<1> QED
  BY <1>4 DEF EntryInit, EntryInv, CoversOK, PlannedOK, ClosedOK, KnownOK, AddingOK, EntitiesComplete

LEMMA StepsType == ASSUME EntryTypeOK, Step PROVE steps' \in 0..MaxSteps
  BY DEF EntryTypeOK, Step

LEMMA SlotType == ASSUME EntryTypeOK, NEW i \in Device PROVE Slot(i) \in Enum \cup {None}
  BY DEF EntryTypeOK, Slot

LEMMA EntryType ==
  ASSUME EntryTypeOK, EntryAction
  PROVE  EntryTypeOK'
<1>0. Step => steps' \in 0..MaxSteps
  BY StepsType
<1> USE <1>0 DEF EntryTypeOK, dataVars, storeVars
<1>1. CASE UnloadPlatforms
  BY <1>1 DEF UnloadPlatforms, Nothing
<1>2. CASE UnloadApi
  BY <1>2 DEF UnloadApi
<1>3. CASE SetupApi
  BY <1>3 DEF SetupApi, Nothing
<1>4. CASE SetupCovers
  BY <1>4 DEF SetupCovers, MergedTimes
<1>5. CASE SetupDone
  BY <1>5 DEF SetupDone
<1>6. CASE LinkUp
  BY <1>6 DEF LinkUp
<1>7. CASE LinkLost
  BY <1>7 DEF LinkLost
<1>8. CASE ReloadRequested
  BY <1>8 DEF ReloadRequested
<1>9. CASE Restart
  BY <1>9 DEF Restart, Nothing
<1>10. ASSUME NEW i \in Device, AddCover(i) PROVE EntryTypeOK'
  BY <1>10, SlotType DEF AddCover, CanAdd
<1>11. ASSUME NEW i \in Device, DisableCover(i) PROVE EntryTypeOK'
  BY <1>11 DEF DisableCover
<1>12. ASSUME NEW i \in Device, EnableCover(i) PROVE EntryTypeOK'
  BY <1>12 DEF EnableCover
<1>13. ASSUME NEW i \in Device, RemoveSubentry(i) PROVE EntryTypeOK'
  BY <1>13 DEF RemoveSubentry, OnEntryUpdated
<1> QED
  BY <1>1, <1>2, <1>3, <1>4, <1>5, <1>6, <1>7, <1>8, <1>9, <1>10, <1>11, <1>12, <1>13 DEF EntryAction

LEMMA EntryStepInv ==
  ASSUME EntryInv, EntryAction
  PROVE  EntryInv'
<1>1. EntryTypeOK /\ EntryTypeOK'
  BY EntryType DEF EntryInv
<1> DEFINE Rest == CoversOK /\ PlannedOK /\ ClosedOK /\ KnownOK /\ AddingOK /\ EntitiesComplete
<1>2. Rest'
  <2> USE <1>1 DEF EntryInv, CoversOK, PlannedOK, ClosedOK, KnownOK, AddingOK, EntitiesComplete,
                   EntryTypeOK, dataVars
  <2>1. CASE UnloadPlatforms
    BY <2>1 DEF UnloadPlatforms
  <2>2. CASE UnloadApi
    BY <2>2 DEF UnloadApi
  <2>3. CASE SetupApi
    BY <2>3 DEF SetupApi
  <2>4. CASE SetupCovers
    BY <2>4 DEF SetupCovers
  <2>5. CASE SetupDone
    BY <2>5 DEF SetupDone
  <2>6. CASE LinkUp
    BY <2>6 DEF LinkUp
  <2>7. CASE LinkLost
    BY <2>7 DEF LinkLost
  <2>8. CASE ReloadRequested
    BY <2>8 DEF ReloadRequested
  <2>9. CASE Restart
    BY <2>9 DEF Restart
  <2>10. ASSUME NEW i \in Device, AddCover(i) PROVE Rest'
    BY <2>10 DEF AddCover, CanAdd
  <2>11. ASSUME NEW i \in Device, DisableCover(i) PROVE Rest'
    BY <2>11 DEF DisableCover
  <2>12. ASSUME NEW i \in Device, EnableCover(i) PROVE Rest'
    BY <2>12 DEF EnableCover
  <2>13. ASSUME NEW i \in Device, RemoveSubentry(i) PROVE Rest'
    BY <2>13 DEF RemoveSubentry, OnEntryUpdated
  <2> QED
    BY <2>1, <2>2, <2>3, <2>4, <2>5, <2>6, <2>7, <2>8, <2>9, <2>10, <2>11, <2>12, <2>13 DEF EntryAction
<1> QED
  BY <1>1, <1>2 DEF EntryInv

(* A dialog creates a subentry: the entry reloads, or the setup that is    *)
(* under way reads it, or it is recorded as overlooked.                    *)
LEMMA AddSubentryInv ==
  ASSUME EntryInv, NEW i \in Device \ devices, NEW e \in Enum, NEW t, t => i \in Enum,
         AddSubentry(i, e, t), steps' \in 0..MaxSteps, disk' \in [Device -> Times \cup {None}],
         cache' \in [Device -> Times \cup {None}], times' \in [Device -> Times \cup {None}]
  PROVE  EntryInv'
<1>1. EntryTypeOK'
  BY DEF AddSubentry, OnEntryUpdated, EntryInv, EntryTypeOK
<1>2. CoversOK' /\ PlannedOK' /\ ClosedOK'
  BY DEF AddSubentry, EntryInv, CoversOK, PlannedOK, ClosedOK
<1>3. KnownOK'
  BY DEF AddSubentry, OnEntryUpdated, EntryInv, EntryTypeOK, KnownOK
<1>4. AddingOK'
  BY DEF AddSubentry, OnEntryUpdated, EntryInv, AddingOK
<1>5. EntitiesComplete'
  BY DEF AddSubentry, OnEntryUpdated, EntryInv, EntryTypeOK, KnownOK, EntitiesComplete, CoversOK
<1> QED
  BY <1>1, <1>2, <1>3, <1>4, <1>5 DEF EntryInv

(* What the invariant is about does not include the store's contents.      *)
LEMMA EntryInvStutter ==
  ASSUME EntryInv, UNCHANGED <<dataVars, setupVars>>, slipped' \in SUBSET Device, slipped \subseteq slipped',
         steps' \in 0..MaxSteps, disk' \in [Device -> Times \cup {None}],
         cache' \in [Device -> Times \cup {None}], times' \in [Device -> Times \cup {None}]
  PROVE  EntryInv'
<1>1. EntryTypeOK'
  BY DEF EntryInv, EntryTypeOK, dataVars, setupVars
<1> QED
  BY <1>1 DEF EntryInv, EntryTypeOK, CoversOK, PlannedOK, ClosedOK, KnownOK, AddingOK, EntitiesComplete,
     dataVars, setupVars

(* A step of the dialogs alone, or one that is counted.                    *)
LEMMA EntryUntouched ==
  ASSUME EntryInv, UNCHANGED <<dataVars, setupVars, storeVars, slipped>>, Step \/ UNCHANGED steps
  PROVE  EntryInv'
<1>1. disk \in [Device -> Times \cup {None}] /\ cache \in [Device -> Times \cup {None}]
      /\ times \in [Device -> Times \cup {None}] /\ slipped \subseteq Device /\ steps \in 0..MaxSteps
  BY DEF EntryInv, EntryTypeOK
<1>2. steps' \in 0..MaxSteps
  BY <1>1, StepsType DEF EntryInv
<1> QED
  BY <1>1, <1>2, EntryInvStutter DEF storeVars

LEMMA StoreIdle ==
  ASSUME EntryTypeOK, UNCHANGED storeVars
  PROVE  StoreWritten
  BY DEF EntryTypeOK, StoreWritten, storeVars

(* A step that leaves the entry alone, or only counts.                     *)
LEMMA EntryIdle ==
  ASSUME EntryTypeOK, UNCHANGED <<dataVars, setupVars, storeVars, slipped>>, Step \/ UNCHANGED steps
  PROVE  EntryNext
<1>1. StoreWritten
  BY StoreIdle
<1> QED
  BY <1>1 DEF EntryNext, DialogAction

LEMMA DialogActionInv == ASSUME EntryInv, DialogAction PROVE EntryInv'
<1>1. steps' \in 0..MaxSteps
  BY StepsType DEF DialogAction, EntryInv, EntryTypeOK
<1>2. /\ disk' \in [Device -> Times \cup {None}] /\ cache' \in [Device -> Times \cup {None}]
      /\ times' \in [Device -> Times \cup {None}]
  BY DEF DialogAction, StoreWritten, EntryInv, EntryTypeOK
<1>3. ASSUME NEW i \in Device \ devices, NEW e \in Enum, NEW isTimed \in BOOLEAN,
             isTimed => i \in Enum, AddSubentry(i, e, isTimed)
      PROVE  EntryInv'
  BY <1>1, <1>2, <1>3, AddSubentryInv
<1>4. CASE /\ UNCHANGED <<dataVars, setupVars>>
           /\ slipped \subseteq slipped' /\ slipped' \subseteq slipped \cup planned
  <2>1. slipped' \in SUBSET Device
    BY <1>4 DEF EntryInv, EntryTypeOK
  <2> QED
    BY <1>1, <1>2, <1>4, <2>1, EntryInvStutter
<1> QED
  BY <1>3, <1>4 DEF DialogAction

(* Whatever dialogs do to a config entry, by creating subentries in mid-   *)
(* setup or by writing times, once it is set up and owes no reload it has  *)
(* a cover for each subentry and for nothing else (__init__.py:194-239).   *)
THEOREM EntryStaysComplete == EntrySpec => [](EntryTypeOK /\ EntitiesComplete)
<1>1. EntryInit => EntryInv
  BY EntryInitInv
<1>2. EntryInv /\ [EntryNext]_entryVars => EntryInv'
  <2>1. ASSUME EntryInv, UNCHANGED entryVars PROVE EntryInv'
    BY <2>1, EntryUntouched DEF entryVars
  <2> QED
    BY <2>1, EntryStepInv, DialogActionInv DEF EntryNext
<1>3. EntryInv => EntryTypeOK /\ EntitiesComplete
  BY DEF EntryInv
<1> QED
  BY <1>1, <1>2, <1>3, PTL DEF EntrySpec
=============================================================================
