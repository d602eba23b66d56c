------------------------ MODULE MotorEnrolmentProofs ------------------------
(***************************************************************************)
(* For every set of motors, enums and dialogs: the dialogs that add motors *)
(* keep their types, give no enum to two devices outside the known         *)
(* windows, and leave each subentry with its cover.                        *)
(***************************************************************************)
EXTENDS MotorEnrolment, EntryLifecycleProofs

(* What a dialog holds at each step. *)
ShapeOK ==
    \A d \in Dialog :
      /\ At(d, "menu") => dialog[d].enum = None
      /\ At(d, "position") => dialog[d].id \in Enum /\ dialog[d].enum = dialog[d].id
      /\ dialog[d].step \in {"waiting", "failed", "answered", "name_device"} => dialog[d].enum \in Enum
      /\ dialog[d].step \in {"answered", "name_device"} => dialog[d].id \in Motor

(* Each device has an enum.  An enum a dialog holds is no device's and no  *)
(* other dialog's, or one of the two is recorded.                          *)
SlotOK == \A i \in devices : Slot(i) \in Enum
HeldOK == \A d \in Dialog, i \in devices :
             dialog[d].enum = Slot(i) => dialog[d].raced \/ i \in raced
HeldApart == \A c, d \in Dialog :
             c # d /\ dialog[c].enum = dialog[d].enum /\ dialog[c].enum # None
             => dialog[c].raced \/ dialog[d].raced

Apart == SlotOK /\ HeldOK /\ HeldApart /\ EnumsApart
IInv  == EntryInv /\ TypeOK /\ ShapeOK /\ Apart

-----------------------------------------------------------------------------
USE EntryAssumption DEF Device

LEMMA InitInv == Init => IInv
<1> SUFFICES ASSUME Init PROVE IInv
  OBVIOUS
<1>1. EntryInv
  BY EntryInitInv DEF Init
<1>2. TypeOK
  BY <1>1 DEF EntryInv, Init, TypeOK, Menu, DialogSteps
<1>3. ShapeOK
  BY DEF Init, ShapeOK, Menu, At
<1>4. Apart
  BY DEF Init, EntryInit, Apart, SlotOK, HeldOK, HeldApart, EnumsApart, Menu
<1> QED
  BY <1>1, <1>2, <1>3, <1>4 DEF IInv

(* The records that dialogs are.                                           *)
Dialogs == [Dialog -> [step : DialogSteps, id : Device \cup {None},
                       enum : Enum \cup {None}, here : BOOLEAN, raced : BOOLEAN]]

LEMMA HeldType ==
  ASSUME dialog \in Dialogs, NEW d \in Dialog, NEW e \in Enum, NEW r \in BOOLEAN
  PROVE  /\ [dialog EXCEPT ![d].step = "position", ![d].id = e, ![d].enum = e, ![d].raced = r] \in Dialogs
         /\ [dialog EXCEPT ![d].step = "waiting", ![d].enum = e, ![d].here = TRUE, ![d].raced = r] \in Dialogs
<1> DEFINE Record == [step : DialogSteps, id : Device \cup {None},
                      enum : Enum \cup {None}, here : BOOLEAN, raced : BOOLEAN]
           D1 == [dialog EXCEPT ![d].step = "position", ![d].id = e, ![d].enum = e, ![d].raced = r]
           D2 == [dialog EXCEPT ![d].step = "waiting", ![d].enum = e, ![d].here = TRUE, ![d].raced = r]
<1>0. "position" \in DialogSteps /\ "waiting" \in DialogSteps
  BY DEF DialogSteps
<1>1. dialog[d] \in Record
  BY DEF Dialogs
<1>2. [step |-> "position", id |-> e, enum |-> e, here |-> dialog[d].here, raced |-> r] \in Record
  BY <1>0, <1>1
<1>3. [step |-> "waiting", id |-> dialog[d].id, enum |-> e, here |-> TRUE, raced |-> r] \in Record
  BY <1>0, <1>1
<1>4. D1[d] = [step |-> "position", id |-> e, enum |-> e, here |-> dialog[d].here, raced |-> r]
  BY DEF Dialogs
<1>5. D2[d] = [step |-> "waiting", id |-> dialog[d].id, enum |-> e, here |-> TRUE, raced |-> r]
  BY DEF Dialogs
<1>6. D1 = [c \in Dialog |-> IF c = d THEN D1[d] ELSE dialog[c]]
  BY DEF Dialogs
<1>7. D2 = [c \in Dialog |-> IF c = d THEN D2[d] ELSE dialog[c]]
  BY DEF Dialogs
<1> HIDE DEF D1, D2
<1>8. D1 \in Dialogs /\ D2 \in Dialogs
  BY <1>2, <1>3, <1>4, <1>5, <1>6, <1>7 DEF Dialogs
<1> QED
  BY <1>8 DEF D1, D2

(* A step of the dialogs that chooses no enum and creates no subentry.     *)
LEMMA NothingChosen ==
  ASSUME IInv, UNCHANGED <<devices, slot, raced>>,
         \A d \in Dialog : \/ dialog'[d].enum = dialog[d].enum /\ dialog'[d].raced = dialog[d].raced
                           \/ dialog'[d].enum = None
  PROVE  Apart'
<1>1. SlotOK' /\ EnumsApart'
  BY DEF IInv, Apart, SlotOK, EnumsApart, Slot
<1>2. ASSUME NEW d \in Dialog, NEW i \in devices, dialog'[d].enum = Slot(i)
      PROVE  dialog'[d].raced \/ i \in raced
  BY <1>2, NoneNotEnum DEF IInv, Apart, SlotOK, HeldOK
<1>3. HeldOK'
  BY <1>2 DEF HeldOK, Slot
<1>4. HeldApart'
  BY DEF IInv, Apart, HeldApart
<1> QED
  BY <1>1, <1>3, <1>4 DEF Apart

(* A dialog chooses an enum, and records whether it was in use.            *)
LEMMA Chosen ==
  ASSUME IInv, UNCHANGED <<devices, slot, raced>>, NEW d \in Dialog, NEW e \in Enum,
         dialog'[d].enum = e, dialog'[d].raced = Races(d, e),
         \A c \in Dialog \ {d} : dialog'[c] = dialog[c],
         e \notin Used \/ NotDuplicate(e)
  PROVE  Apart'
<1>1. SlotOK' /\ EnumsApart'
  BY DEF IInv, Apart, SlotOK, EnumsApart, Slot
<1>2. ASSUME NEW i \in devices, Slot(i) = e PROVE Races(d, e)
  <2>1. registered[i] # e
    <3>1. i \in Device /\ e # None
      BY NoneNotEnum DEF IInv, TypeOK, EntryTypeOK
    <3> QED
      BY <1>2, <3>1 DEF Used, NotDuplicate
  <2> QED
    BY <1>2, <2>1 DEF Races
<1>3. HeldOK'
  BY <1>2 DEF HeldOK, IInv, Apart, Slot
<1>4. HeldApart'
  BY DEF IInv, Apart, HeldApart, Races
<1> QED
  BY <1>1, <1>3, <1>4 DEF Apart

(* A dialog that holds e creates the subentry of i with it.                *)
LEMMA CreatedApart ==
  ASSUME IInv, NEW d \in Dialog, NEW i \in Device, NEW e \in Enum, NEW t, NEW r,
         Leave(d), i \in Enum => i = e,
         Create(i, e, t, r),
         \A j \in devices : Slot(j) = e => r \/ j \in raced,
         \A c \in Dialog \ {d} : dialog[c].enum = e => r \/ dialog[c].raced
  PROVE  Apart'
<1>1. dialog'[d].enum = None /\ \A c \in Dialog \ {d} : dialog'[c] = dialog[c]
  BY DEF Leave, Menu, IInv, TypeOK
<1>2. CASE i \in devices
  BY <1>1, <1>2, NothingChosen DEF Create, dataVars
<1>3. CASE i \notin devices
  <2>1. devices' = devices \cup {i} /\ raced' = IF r THEN raced \cup {i} ELSE raced
    BY <1>3 DEF Create, AddSubentry
  <2>2. Slot(i)' = e
    BY <1>3 DEF Create, AddSubentry, Slot, Device
  <2>3. \A j \in devices : Slot(j)' = Slot(j)
    BY <1>3, SlotType DEF Create, AddSubentry, Slot, Device, IInv, TypeOK, EntryTypeOK
  <2>4. SlotOK'
    BY <2>1, <2>2, <2>3 DEF SlotOK, IInv, Apart
  <2>5. EnumsApart'
    BY <2>1, <2>2, <2>3 DEF EnumsApart, IInv, Apart
  <2>6. HeldOK'
    <3> SUFFICES ASSUME NEW c \in Dialog, NEW j \in devices', (dialog[c].enum = Slot(j))'
                 PROVE  (dialog[c].raced \/ j \in raced)'
      BY DEF HeldOK
    <3>1. Slot(j)' \in Enum
      BY <2>4 DEF SlotOK
    <3>2. c # d /\ dialog'[c] = dialog[c]
      BY <1>1, <3>1, NoneNotEnum
    <3> QED
      BY <2>1, <2>2, <2>3, <3>2 DEF IInv, Apart, HeldOK
  <2>7. HeldApart'
    BY <1>1 DEF HeldApart, IInv, Apart
  <2> QED
    BY <2>4, <2>5, <2>6, <2>7 DEF Apart
<1> QED
  BY <1>2, <1>3

(* The entry's part of the same step.                                      *)
LEMMA CreatedEntry ==
  ASSUME IInv, NEW i \in Device, NEW e \in Enum, NEW t, NEW r, t => i \in Enum,
         Create(i, e, t, r), UNCHANGED storeVars, steps' \in 0..MaxSteps
  PROVE  EntryInv' /\ raced' \subseteq Device
<1>0. EntryInv /\ raced \subseteq Device
  BY DEF IInv, TypeOK
<1>1. UNCHANGED storeVars /\ disk \in [Device -> Times \cup {None}]
      /\ cache \in [Device -> Times \cup {None}] /\ times \in [Device -> Times \cup {None}]
  BY <1>0 DEF EntryInv, EntryTypeOK
<1>2. CASE i \in devices
  BY <1>0, <1>1, <1>2, EntryInvStutter DEF Create, storeVars, EntryInv, EntryTypeOK
<1>3. CASE i \notin devices
  BY <1>0, <1>1, <1>3, AddSubentryInv DEF Create, storeVars
<1> QED
  BY <1>2, <1>3

-----------------------------------------------------------------------------
LEMMA ChooseStep ==
  ASSUME IInv, NEW d \in Dialog, NEW e \in Enum, ManualAdd(d, e) \/ Delegate(d, e) \/ Pair(d, e)
  PROVE  IInv'
<1>1. Races(d, e) \in BOOLEAN
  BY DEF Races
<1>2. CASE UNCHANGED <<dataVars, setupVars, storeVars, slipped, raced>>
  <2>1. EntryInv'
    BY <1>2, EntryUntouched DEF IInv, ManualAdd, Delegate, Pair
  <2>2. \/ dialog' = [dialog EXCEPT ![d].step = "position", ![d].id = e,
                                    ![d].enum = e, ![d].raced = Races(d, e)]
        \/ dialog' = [dialog EXCEPT ![d].step = "waiting", ![d].enum = e, ![d].here = TRUE,
                                    ![d].raced = Races(d, e)]
        \/ Leave(d)
    BY DEF ManualAdd, Delegate, Pair
  <2>3. TypeOK'
    <3>1. dialog' \in Dialogs
      <4>1. dialog \in Dialogs
        BY DEF IInv, TypeOK, Dialogs
      <4>2. CASE dialog' = [dialog EXCEPT ![d].step = "position", ![d].id = e,
                                          ![d].enum = e, ![d].raced = Races(d, e)]
        BY <1>1, <4>1, <4>2, HeldType
      <4>3. CASE dialog' = [dialog EXCEPT ![d].step = "waiting", ![d].enum = e, ![d].here = TRUE,
                                          ![d].raced = Races(d, e)]
        BY <1>1, <4>1, <4>3, HeldType
      <4>4. CASE Leave(d)
        BY <4>1, <4>4 DEF Dialogs, DialogSteps, Leave, Menu
      <4> QED
        BY <2>2, <4>2, <4>3, <4>4
    <3>2. pairing' \in Dialog \cup {None}
      BY DEF IInv, TypeOK, ManualAdd, Delegate, Pair
    <3> QED
      BY <1>2, <2>1, <3>1, <3>2 DEF IInv, TypeOK, EntryInv, Dialogs
  <2>4. ShapeOK'
    BY <2>2 DEF IInv, TypeOK, ShapeOK, At, Leave, Menu
  <2>5. Apart'
    <3>1. CASE Leave(d)
      BY <1>2, <3>1, NothingChosen DEF Leave, Menu, IInv, TypeOK, dataVars
    <3>2. CASE ~Leave(d)
      <4>1. dialog'[d].enum = e /\ dialog'[d].raced = Races(d, e)
        BY <2>2, <3>2 DEF IInv, TypeOK
      <4>2. \A c \in Dialog \ {d} : dialog'[c] = dialog[c]
        BY <2>2, <3>2 DEF IInv, TypeOK
      <4>3. e \notin Used \/ NotDuplicate(e)
        BY DEF ManualAdd, Delegate, DelegationPairs, Pair, IsNextEnum
      <4> QED
        BY <1>2, <4>1, <4>2, <4>3, Chosen DEF dataVars
    <3> QED
      BY <3>1, <3>2
  <2> QED
    BY <2>1, <2>3, <2>4, <2>5 DEF IInv
<1>3. CASE /\ Leave(d) /\ Create(e, e, FALSE, Races(d, e)) /\ UNCHANGED <<storeVars, pairing>>
           /\ Step /\ NotDuplicate(e)
  <2>1. EntryInv' /\ raced' \subseteq Device
    <3>1. steps' \in 0..MaxSteps
      BY <1>3, StepsType DEF IInv, EntryInv
    <3> QED
      BY <1>1, <1>3, <3>1, CreatedEntry
  <2>2. TypeOK' /\ ShapeOK'
    BY <1>3, <2>1 DEF IInv, TypeOK, ShapeOK, At, Leave, Menu, DialogSteps, EntryInv
  <2>3. Apart'
    <3>1. \A j \in devices : Slot(j) = e => Races(d, e) \/ j \in raced
      BY <1>3 DEF NotDuplicate
    <3>2. \A c \in Dialog \ {d} : dialog[c].enum = e => Races(d, e) \/ dialog[c].raced
      BY DEF Races
    <3> QED
      BY <1>3, <3>1, <3>2, CreatedApart
  <2> QED
    BY <2>1, <2>2, <2>3 DEF IInv
<1> QED
  BY <1>2, <1>3 DEF ManualAdd, Delegate, Pair

LEMMA CreateStep ==
  ASSUME IInv, NEW d \in Dialog, Position(d) \/ NameDevice(d)
  PROVE  IInv'
<1> DEFINE i == dialog[d].id
           e == dialog[d].enum
           t == At(d, "position")
           r == dialog[d].raced
<1>1. i \in Device /\ e \in Enum /\ (t => i \in Enum) /\ (i \in Enum => i = e)
  BY NoneNotEnum DEF IInv, ShapeOK, At, Position, NameDevice
<1>2. Leave(d) /\ Create(i, e, t, r) /\ UNCHANGED <<storeVars, steps, pairing>>
  <2>1. CASE Position(d)
    BY <2>1 DEF Position, Create, AddSubentry
  <2>2. CASE NameDevice(d)
    BY <2>2 DEF NameDevice, Create, AddSubentry, At
  <2> QED
    BY <2>1, <2>2
<1>3. steps \in 0..MaxSteps
  BY DEF IInv, EntryInv, EntryTypeOK
<1> HIDE DEF i, e, t
<1>4. EntryInv' /\ raced' \subseteq Device
  BY <1>1, <1>2, <1>3, CreatedEntry
<1>5. TypeOK' /\ ShapeOK'
  BY <1>2, <1>4 DEF IInv, TypeOK, ShapeOK, At, Leave, Menu, DialogSteps, EntryInv
<1>6. Apart'
  <2>1. \A j \in devices : Slot(j) = e => r \/ j \in raced
    BY DEF IInv, Apart, HeldOK, e
  <2>2. \A c \in Dialog \ {d} : dialog[c].enum = e => r \/ dialog[c].raced
    BY <1>1, NoneNotEnum DEF IInv, Apart, HeldApart, e
  <2> QED
    BY <1>1, <1>2, <2>1, <2>2, CreatedApart
<1> QED
  BY <1>4, <1>5, <1>6 DEF IInv

(* What leaves the entry alone and creates nothing.                        *)
LEMMA DialogStep ==
  ASSUME IInv, NEW d \in Dialog,
         PairTimeout(d) \/ Resume(d) \/ Abandon(d) \/ \E m \in Motor, frame \in {"sl", "ss"} : Answer(m, frame)
  PROVE  IInv'
<1>1. UNCHANGED <<entryVars, raced>>
  BY DEF PairTimeout, Resume, Abandon, Answer
<1>2. EntryInv'
  BY <1>1, EntryUntouched DEF IInv, entryVars
<1>3. dialog \in Dialogs /\ pairing \in Dialog \cup {None}
  BY DEF IInv, TypeOK, Dialogs
<1>4. \/ Leave(d)
      \/ /\ pairing \in Dialog /\ At(pairing, "waiting")
         /\ \E m \in Motor : dialog' = [dialog EXCEPT ![pairing].step = "answered", ![pairing].id = m]
      \/ At(d, "answered") /\ dialog' = [dialog EXCEPT ![d].step = "name_device", ![d].here = FALSE]
  BY <1>3 DEF PairTimeout, Resume, Abandon, Answer, Answers, PairingOpen, Answered
<1>5. dialog' \in Dialogs
  <2>1. "menu" \in DialogSteps /\ "answered" \in DialogSteps /\ "name_device" \in DialogSteps
    BY DEF DialogSteps
  <2>2. CASE Leave(d)
    BY <1>3, <2>1, <2>2 DEF Dialogs, Leave, Menu
  <2>3. ASSUME pairing \in Dialog, NEW m \in Motor,
               dialog' = [dialog EXCEPT ![pairing].step = "answered", ![pairing].id = m]
        PROVE  dialog' \in Dialogs
    BY <1>3, <2>1, <2>3 DEF Dialogs
  <2>4. CASE dialog' = [dialog EXCEPT ![d].step = "name_device", ![d].here = FALSE]
    BY <1>3, <2>1, <2>4 DEF Dialogs
  <2> QED
    BY <1>4, <2>2, <2>3, <2>4
<1>6. pairing' \in Dialog \cup {None}
  BY <1>3 DEF PairTimeout, Resume, Abandon, Answer, ForgetPairing
<1>7. TypeOK'
  BY <1>1, <1>2, <1>5, <1>6 DEF IInv, TypeOK, EntryInv, Dialogs
<1>8. ShapeOK'
  BY <1>3, <1>4 DEF IInv, ShapeOK, At, Leave, Menu, Dialogs
<1>9. Apart'
  BY <1>1, <1>3, <1>4, NothingChosen DEF entryVars, dataVars, Leave, Menu, Dialogs
<1> QED
  BY <1>2, <1>7, <1>8, <1>9 DEF IInv

(* What the entry does, and what that does to the dialogs.                 *)
LEMMA SurroundingStep ==
  ASSUME IInv, EntryStep \/ SetupApiD \/ Disconnects \/ RestartD
  PROVE  IInv'
<1>1. UNCHANGED <<devices, slot, raced>>
  BY DEF EntryStep, SetupApiD, Disconnects, RestartD, UnloadPlatforms, SetupCovers, SetupDone,
         LinkUp, ReloadRequested, AddCover, DisableCover, EnableCover, SetupApi, LinkLost,
         UnloadApi, Restart, dataVars
<1>2. EntryInv'
  BY EntryStepInv DEF IInv, EntryAction, EntryStep, SetupApiD, Disconnects, RestartD
<1>3. dialog \in Dialogs /\ pairing \in Dialog \cup {None}
  BY DEF IInv, TypeOK, Dialogs
<1>4. \/ dialog' = dialog
      \/ dialog' = [d \in Dialog |-> [dialog[d] EXCEPT !.here = FALSE]]
      \/ dialog' = [d \in Dialog |-> Menu]
      \/ pairing \in Dialog /\ At(pairing, "waiting")
         /\ dialog' = [dialog EXCEPT ![pairing].step = "failed"]
  BY <1>3 DEF EntryStep, SetupApiD, Disconnects, RestartD, PairingFails, PairingOpen
<1>5. dialog' \in Dialogs
  <2>1. "menu" \in DialogSteps /\ "failed" \in DialogSteps
    BY DEF DialogSteps
  <2>2. CASE dialog' = [d \in Dialog |-> [dialog[d] EXCEPT !.here = FALSE]]
    BY <1>3, <2>2 DEF Dialogs
  <2>3. CASE dialog' = [d \in Dialog |-> Menu]
    BY <1>3, <2>1, <2>3 DEF Dialogs, Menu
  <2>4. CASE pairing \in Dialog /\ dialog' = [dialog EXCEPT ![pairing].step = "failed"]
    BY <1>3, <2>1, <2>4 DEF Dialogs
  <2> QED
    BY <1>3, <1>4, <2>2, <2>3, <2>4
<1>6. pairing' \in Dialog \cup {None}
  BY <1>3 DEF EntryStep, SetupApiD, Disconnects, RestartD
<1>7. TypeOK'
  BY <1>1, <1>2, <1>5, <1>6 DEF IInv, TypeOK, EntryInv, Dialogs
<1>8. ShapeOK'
  BY <1>3, <1>4 DEF IInv, ShapeOK, At, Menu, Dialogs
<1>9. Apart'
  BY <1>1, <1>3, <1>4, NothingChosen DEF Menu, Dialogs
<1> QED
  BY <1>2, <1>7, <1>8, <1>9 DEF IInv

(* A device is deleted, and with it what was recorded of it.               *)
LEMMA RemoveStep ==
  ASSUME IInv, NEW i \in Device, RemoveD(i)
  PROVE  IInv'
<1>1. devices' = devices \ {i} /\ raced' = raced \ {i} /\ UNCHANGED <<dialog, pairing>>
  BY DEF RemoveD, RemoveSubentry
<1>2. EntryInv'
  BY EntryStepInv DEF IInv, EntryAction, RemoveD
<1>3. TypeOK' /\ ShapeOK'
  BY <1>1, <1>2 DEF IInv, TypeOK, EntryInv, ShapeOK, At
<1>4. \A j \in devices' : Slot(j)' = Slot(j)
  BY <1>1 DEF IInv, TypeOK, EntryTypeOK, RemoveD, RemoveSubentry, Slot
<1>5. SlotOK' /\ HeldOK' /\ EnumsApart'
  BY <1>1, <1>4 DEF IInv, Apart, SlotOK, HeldOK, EnumsApart
<1>6. HeldApart'
  BY <1>1 DEF IInv, Apart, HeldApart
<1> QED
  BY <1>2, <1>3, <1>5, <1>6 DEF IInv, Apart

LEMMA Inductive == IInv /\ [Next]_vars => IInv'
<1> SUFFICES ASSUME IInv, [Next]_vars PROVE IInv'
  OBVIOUS
<1>1. ASSUME NEW d \in Dialog, NEW e \in Enum, ManualAdd(d, e) \/ Delegate(d, e) \/ Pair(d, e)
      PROVE  IInv'
  BY <1>1, ChooseStep
<1>2. ASSUME NEW d \in Dialog, Position(d) \/ NameDevice(d) PROVE IInv'
  BY <1>2, CreateStep
<1>3. ASSUME NEW d \in Dialog, Abandon(d) \/ PairTimeout(d) \/ Resume(d) PROVE IInv'
  BY <1>3, DialogStep
<1>4. ASSUME NEW m \in Motor, NEW frame \in {"sl", "ss"}, Answer(m, frame) PROVE IInv'
  <2>1. pairing \in Dialog
    BY <1>4 DEF Answer, Answers, PairingOpen, IInv, TypeOK
  <2> QED
    BY <1>4, <2>1, DialogStep
<1>5. ASSUME NEW i \in Device, RemoveD(i) PROVE IInv'
  BY <1>5, RemoveStep
<1>6. CASE EntryStep \/ SetupApiD \/ Disconnects \/ RestartD
  BY <1>6, SurroundingStep
<1>7. CASE UNCHANGED vars
  <2>1. UNCHANGED <<dialog, pairing, raced, dataVars, setupVars, storeVars, slipped, steps>>
    BY <1>7 DEF vars, entryVars
  <2>2. EntryInv'
    BY <2>1, EntryUntouched DEF IInv
  <2>3. TypeOK' /\ ShapeOK'
    BY <2>1, <2>2 DEF IInv, TypeOK, ShapeOK, At, EntryInv
  <2>4. Apart'
    BY <2>1, NothingChosen DEF dataVars
  <2> QED
    BY <2>2, <2>3, <2>4 DEF IInv
<1> QED
  BY <1>1, <1>2, <1>3, <1>4, <1>5, <1>6, <1>7 DEF Next

LEMMA Safety == Spec => []IInv
  BY InitInv, Inductive, PTL DEF Spec

-----------------------------------------------------------------------------
(* The variables keep their types, whatever dialogs and reloads interleave *)
(* (__init__.py:114-255, config_flow.py:285-693).                          *)
THEOREM EnrolmentTypes == Spec => []TypeOK
<1>1. IInv => TypeOK
  BY DEF IInv
<1> QED
  BY <1>1, Safety, PTL

(* Two devices answer to one enum only through a window in which the scan  *)
(* could not see the other (api.py:1053-1094, config_flow.py:340-345).     *)
THEOREM EnumsStayApart == Spec => []EnumsApart
<1>1. IInv => EnumsApart
  BY DEF IInv, Apart
<1> QED
  BY <1>1, Safety, PTL

(* A loaded entry that owes no reload has a cover for each subentry        *)
(* (__init__.py:194-239).                                                  *)
THEOREM EntitiesStayComplete == Spec => []EntitiesComplete
<1>1. IInv => EntitiesComplete
  BY DEF IInv, EntryInv
<1> QED
  BY <1>1, Safety, PTL

-----------------------------------------------------------------------------
LEMMA EntryCreates ==
  ASSUME EntryTypeOK, NEW i \in Device, NEW e \in Enum, NEW t \in BOOLEAN, NEW r, t => i \in Enum,
         Create(i, e, t, r), UNCHANGED storeVars, Step \/ UNCHANGED steps
  PROVE  EntryNext
<1>1. CASE i \in devices
  BY <1>1, EntryIdle DEF Create
<1>2. CASE i \notin devices
  BY <1>2, StoreIdle DEF Create, EntryNext, DialogAction
<1> QED
  BY <1>1, <1>2

(* The dialogs that add motors do nothing to the entry but what EntrySpec  *)
(* allows (config_flow.py:285-693): a subentry is created once, and no     *)
(* step of pairing, timeout or answer touches the setup.                   *)
THEOREM EnrolmentIsEntry == Spec => EntrySpec
<1>1. Init => EntryInit
  BY DEF Init
<1>2. ASSUME IInv, [Next]_vars PROVE [EntryNext]_entryVars
  <2>0. EntryTypeOK
    BY <1>2 DEF IInv, EntryInv
  <2>1. ASSUME NEW d \in Dialog, NEW e \in Enum, ManualAdd(d, e) \/ Delegate(d, e) \/ Pair(d, e)
        PROVE  EntryNext
    <3>1. CASE UNCHANGED <<dataVars, setupVars, storeVars, slipped>>
      BY <2>0, <2>1, <3>1, EntryIdle DEF ManualAdd, Delegate, Pair
    <3>2. CASE Create(e, e, FALSE, Races(d, e)) /\ UNCHANGED storeVars /\ Step
      BY <2>0, <3>2, EntryCreates
    <3> QED
      BY <2>1, <3>1, <3>2 DEF ManualAdd, Delegate, Pair
  <2>2. ASSUME NEW d \in Dialog, Position(d) \/ NameDevice(d) PROVE EntryNext
    <3> DEFINE i == dialog[d].id
               e == dialog[d].enum
               t == At(d, "position")
    <3>1. i \in Device /\ e \in Enum /\ (t => i \in Enum) /\ t \in BOOLEAN
      BY <1>2, <2>2, NoneNotEnum DEF IInv, ShapeOK, At, Position, NameDevice
    <3>2. Create(i, e, t, dialog[d].raced) /\ UNCHANGED <<storeVars, steps>>
      <4>1. CASE Position(d)
        BY <4>1 DEF Position, Create, AddSubentry
      <4>2. CASE NameDevice(d)
        BY <4>2 DEF NameDevice, Create, AddSubentry, At
      <4> QED
        BY <2>2, <4>1, <4>2
    <3> HIDE DEF i, e, t
    <3> QED
      BY <2>0, <3>1, <3>2, EntryCreates
  <2>3. CASE UNCHANGED entryVars
    BY <2>3
  <2>4. CASE EntryStep \/ SetupApiD \/ Disconnects \/ RestartD \/ \E i \in Device : RemoveD(i)
    BY <2>4 DEF EntryNext, EntryAction, EntryStep, SetupApiD, Disconnects, RestartD, RemoveD
  <2> QED
    BY <1>2, <2>1, <2>2, <2>3, <2>4 DEF Next, vars, PairTimeout, Resume, Abandon, Answer
<1> QED
  BY <1>1, <1>2, InitInv, Inductive, PTL DEF Spec, EntrySpec
=============================================================================
