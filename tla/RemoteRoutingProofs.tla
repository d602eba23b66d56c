------------------------ MODULE RemoteRoutingProofs -------------------------
(***************************************************************************)
(* For all motors, remotes, channels, bindings and senders and any number  *)
(* of presses and frames: a press is heard once and never swallowed, no    *)
(* bound remote is paired as a motor, and one press does not confirm       *)
(* itself.                                                                 *)
(***************************************************************************)
EXTENDS RemoteRouting, RemoteRegistryProofs

(* A move has a counter of its own; a stop that of an earlier press or its *)
(* own.  What is off the air is not counted.                               *)
AirOK ==
    /\ \A p \in 1..Len(presses) :
          /\ presses[p].counter <= p
          /\ presses[p].cmd = "move" => presses[p].counter = p
    /\ \A p \in Press : heard[p] <= frames[p]
    /\ \A p \in Press \ air : frames[p] = 0

(* The key of a move is in the cache only after a frame of it, and, while  *)
(* it is on the air, if it was heard.                                      *)
DedupOK ==
    /\ \A key \in dedup : key[2] <= Len(presses)
    /\ \A p \in air : presses[p].cmd = "move" =>
          /\ KeyOf(p) \in dedup => frames[p] > 0
          /\ ~Hold /\ heard[p] > 0 => heard[p] = 1 /\ KeyOf(p) \in dedup

(* The press a capture was resolved by, and then the first press of a bind *)
(* dialog, is kept out of the next capture for as long as it lasts.        *)
Remembered(p) == p \in 1..Len(presses) /\ (~Hold /\ p \in air => lastKey = KeyOf(p))

CaptureOK ==
    /\ capture # "none" => dialog \in {"first", "second"}
    /\ dialog = "first" /\ capture = "done" => Remembered(taken)
    /\ dialog = "between" => Remembered(first)
    /\ dialog = "second" /\ capture # "done" => Remembered(first)
    /\ dialog = "second" /\ capture = "done" =>
          taken \in 1..Len(presses) /\ (~Hold => taken # first)

IInv == RInv /\ TypeOK /\ AirOK /\ DedupOK /\ CaptureOK

-----------------------------------------------------------------------------
(* What the other proofs use of the types. *)
LEMMA Types ==
  ASSUME TypeOK
  PROVE  /\ Len(presses) \in 0..MaxPress /\ air \subseteq 1..Len(presses)
         /\ \A p \in 1..Len(presses) :
               /\ p \in Press /\ presses[p] \in Burst
               /\ presses[p].sender \in Sender /\ presses[p].counter \in Press
               /\ presses[p].cmd \in {"move", "stop"}
               /\ KeyOf(p) \in FrameKey /\ Id(p) \in Device /\ Chan(p) \in Channel
         /\ frames \in [Press -> 0..MaxFrame] /\ heard \in [Press -> 0..MaxFrame]
         /\ MaxPress \in Nat /\ MaxFrame \in Nat
<1>1. \A p \in 1..Len(presses) : presses[p] \in Burst
  BY DEF TypeOK
<1>2. Len(presses) \in 0..MaxPress /\ MaxPress \in Nat /\ MaxFrame \in Nat
  BY RoutingAssumption DEF TypeOK
<1>3. \A p \in 1..Len(presses) :
         /\ presses[p].sender \in Sender /\ presses[p].counter \in Press
         /\ presses[p].cmd \in {"move", "stop"}
  BY <1>1 DEF Burst
<1>4. \A p \in 1..Len(presses) : presses[p].sender \in Channel \X Device
  BY <1>3, RoutingAssumption
<1>5. \A p \in 1..Len(presses) : KeyOf(p) \in FrameKey /\ Id(p) \in Device /\ Chan(p) \in Channel
  BY <1>3, <1>4 DEF KeyOf, FrameKey, Id, Chan
<1> QED
  BY <1>1, <1>2, <1>3, <1>5 DEF TypeOK, Press

LEMMA InitInv == Init => IInv
<1> SUFFICES ASSUME Init PROVE IInv
  OBVIOUS
<1>1. RInv
  BY RInvInit DEF Init
<1>2. TypeOK
  <2>1. presses \in Seq(Burst) /\ Len(presses) = 0
    BY DEF Init
  <2>2. 0 \in 0..MaxPress /\ 0 \in 0..MaxFrame /\ 0 <= MaxPress
    BY RoutingAssumption
  <2>3. frames \in [Press -> 0..MaxFrame] /\ heard \in [Press -> 0..MaxFrame]
    BY <2>2 DEF Init
  <2> QED
    BY <1>1, <2>1, <2>2, <2>3 DEF RInv, Init, TypeOK
<1>3. AirOK /\ DedupOK /\ CaptureOK
  BY RoutingAssumption DEF Init, AirOK, DedupOK, CaptureOK
<1> QED
  BY <1>1, <1>2, <1>3 DEF IInv

-----------------------------------------------------------------------------
(* Steps that leave the air and the caches to themselves. *)
LEMMA Aside ==
  ASSUME IInv, UNCHANGED <<airVars, dedup, lastKey>>, RInv', pairing' \in BOOLEAN,
         capture' \in {"none", "pending", "done"}, taken' \in 0..MaxPress,
         dialog' \in {"idle", "first", "between", "second", "matched"}, first' \in 0..MaxPress,
         CaptureOK'
  PROVE  IInv'
<1>1. TypeOK'
  BY DEF IInv, TypeOK, airVars, RInv
<1>2. AirOK' /\ DedupOK'
  BY DEF IInv, AirOK, DedupOK, airVars, KeyOf
<1> QED
  BY <1>1, <1>2 DEF IInv

LEMMA RegistryKept ==
  ASSUME IInv, [RegistryNext]_regVars
  PROVE  RInv'
  BY RInvStep DEF IInv

LEMMA CaptureKept ==
  ASSUME IInv, UNCHANGED <<airVars, rawVars, dialogVars>>
  PROVE  CaptureOK'
  BY DEF IInv, CaptureOK, Remembered, airVars, rawVars, dialogVars, KeyOf

LEMMA EntitiesStep ==
  ASSUME IInv, Entities
  PROVE  IInv'
<1>1. RInv' /\ CaptureOK'
  BY RegistryKept, CaptureKept DEF Entities
<1> QED
  BY <1>1, Aside DEF Entities, IInv, TypeOK, rawVars, dialogVars

LEMMA PairingStep ==
  ASSUME IInv, OpenPairing \/ ClosePairing
  PROVE  IInv'
<1>1. UNCHANGED <<regVars, airVars, dedup, rawVars, dialogVars>> /\ pairing' \in BOOLEAN
  BY DEF OpenPairing, ClosePairing
<1>2. RInv' /\ CaptureOK'
  BY <1>1, RegistryKept, CaptureKept
<1> QED
  BY <1>1, <1>2, Aside DEF IInv, TypeOK, rawVars, dialogVars

LEMMA DialogStep ==
  ASSUME IInv, OpenFirst \/ CaptureFails \/ FirstTaken \/ OpenSecond \/ SecondTaken
  PROVE  IInv'
<1>1. Elsewhere
  BY DEF OpenFirst, CaptureFails, FirstTaken, OpenSecond, SecondTaken
<1>2. RInv'
  BY <1>1, RegistryKept DEF Elsewhere
<1>3. /\ capture' \in {"none", "pending", "done"} /\ taken' \in 0..MaxPress
      /\ dialog' \in {"idle", "first", "between", "second", "matched"} /\ first' \in 0..MaxPress
  BY RoutingAssumption
  DEF IInv, TypeOK, OpenFirst, CaptureFails, FirstTaken, OpenSecond, SecondTaken
<1>4. CaptureOK'
  <2>1. \A p : Remembered(p) => Remembered(p)'
    BY <1>1 DEF Elsewhere, Remembered, airVars, KeyOf
  <2>2. CASE OpenFirst \/ CaptureFails \/ OpenSecond
    BY <2>1, <2>2 DEF OpenFirst, CaptureFails, OpenSecond, IInv, CaptureOK
  <2>3. CASE FirstTaken
    BY <2>1, <2>3 DEF FirstTaken, IInv, CaptureOK
  <2>4. CASE SecondTaken
    BY <2>4 DEF SecondTaken, CaptureOK
  <2> QED
    BY <2>2, <2>3, <2>4
<1> QED
  BY <1>1, <1>2, <1>3, <1>4, Aside DEF Elsewhere, IInv, TypeOK

-----------------------------------------------------------------------------
(* The air *)

LEMMA PressBeginsStep ==
  ASSUME IInv, NEW sender \in Sender, NEW cmd \in {"move", "stop"}, PressBegins(sender, cmd)
  PROVE  IInv'
<1> DEFINE n == Len(presses) + 1
<1>1. PICK counter \in {n} \cup {presses[p].counter : p \in {q \in 1..Len(presses) :
                                     cmd = "stop" /\ presses[q].sender = sender}} :
         presses' = Append(presses, [sender |-> sender, cmd |-> cmd, counter |-> counter])
  BY DEF PressBegins
<1>2. /\ Len(presses) < MaxPress /\ air' = air \cup {n}
      /\ UNCHANGED <<frames, heard, regVars, dedup, pairing, rawVars, dialogVars>>
  BY DEF PressBegins
<1>3. TypeOK /\ AirOK /\ DedupOK
  BY DEF IInv
<1>4. Len(presses) \in Nat /\ n \in Press /\ n \notin air
  BY <1>2, <1>3, Types DEF Press
<1>5. counter \in Press /\ counter <= n /\ (cmd = "move" => counter = n)
  <2>1. \A q \in 1..Len(presses) : presses[q].counter \in Press /\ presses[q].counter <= q
    BY <1>3, Types DEF AirOK
  <2> QED
    BY <1>4, <2>1 DEF Press
<1>6. [sender |-> sender, cmd |-> cmd, counter |-> counter] \in Burst
  BY <1>5 DEF Burst
<1>7. /\ presses' \in Seq(Burst) /\ Len(presses') = n
      /\ \A p \in 1..Len(presses) : presses'[p] = presses[p]
      /\ presses'[n] = [sender |-> sender, cmd |-> cmd, counter |-> counter]
  BY <1>1, <1>3, <1>6 DEF TypeOK
<1>8. TypeOK'
  <2>1. air' \subseteq 1..n /\ n <= MaxPress
    BY <1>2, <1>3, <1>4, Types DEF Press
  <2> QED
    BY <1>2, <1>3, <1>7, <2>1
    DEF TypeOK, RegistryTypeOK, regVars, rawVars, dialogVars
<1>9. RInv'
  BY <1>2, RegistryKept
<1>10. AirOK'
  <2>1. \A p \in 1..n : p \in 1..Len(presses) \/ p = n
    BY <1>4
  <2>2. Len(presses') = n
    BY <1>7
  <2>3. \A p \in 1..n :
          /\ presses'[p].counter <= p
          /\ presses'[p].cmd = "move" => presses'[p].counter = p
    BY <1>3, <1>5, <1>7, <2>1 DEF AirOK
  <2> QED
    BY <1>2, <1>3, <2>2, <2>3 DEF AirOK
<1>11. \A p \in 1..Len(presses) : KeyOf(p)' = KeyOf(p)
  BY <1>7 DEF KeyOf
<1>12. DedupOK'
  <2>1. \A key \in dedup : key[2] \in Press /\ key[2] <= Len(presses)
    BY <1>3 DEF DedupOK, TypeOK, FrameKey
  <2>2. \A key \in dedup' : key[2] <= Len(presses')
    BY <1>2, <1>4, <1>7, <2>1 DEF Press
  <2>3. ASSUME NEW p \in air', presses'[p].cmd = "move"
        PROVE  /\ KeyOf(p)' \in dedup' => frames'[p] > 0
               /\ ~Hold /\ heard'[p] > 0 => heard'[p] = 1 /\ KeyOf(p)' \in dedup'
    <3>1. CASE p \in air
      <4>1. p \in 1..Len(presses)
        BY <1>3, <3>1, Types
      <4> QED
        BY <1>2, <1>3, <1>7, <1>11, <2>3, <3>1, <4>1 DEF DedupOK
    <3>2. CASE p = n
      <4>1. KeyOf(p)' = <<sender, n>>
        BY <1>5, <1>7, <2>3, <3>2 DEF KeyOf
      <4>2. <<sender, n>> \notin dedup
        BY <1>4, <2>1
      <4>3. heard[n] = 0
        <5>1. frames[n] = 0 /\ heard[n] <= frames[n] /\ heard[n] \in Nat
          BY <1>3, <1>4, Types DEF AirOK
        <5> QED
          BY <5>1
      <4> QED
        BY <1>2, <3>2, <4>1, <4>2, <4>3
    <3> QED
      BY <1>2, <3>1, <3>2
  <2> QED
    BY <2>2, <2>3 DEF DedupOK
<1>13. CaptureOK'
  <2>1. \A p : Remembered(p) => Remembered(p)'
    BY <1>2, <1>4, <1>7, <1>11 DEF Remembered, rawVars
  <2>2. taken \in 1..Len(presses) => taken \in 1..Len(presses')
    BY <1>4, <1>7
  <2> QED
    BY <1>2, <2>1, <2>2 DEF IInv, CaptureOK, rawVars, dialogVars
<1> QED
  BY <1>8, <1>9, <1>10, <1>12, <1>13 DEF IInv

LEMMA BurstEndsStep ==
  ASSUME IInv, NEW p \in Press, BurstEnds(p)
  PROVE  IInv'
<1>1. /\ air' = air \ {p} /\ p \in air
      /\ frames' = [frames EXCEPT ![p] = 0] /\ heard' = [heard EXCEPT ![p] = 0]
      /\ UNCHANGED <<presses, regVars, dedup, pairing, rawVars, dialogVars>>
  BY DEF BurstEnds
<1>2. TypeOK /\ AirOK /\ DedupOK
  BY DEF IInv
<1>3. 0 \in 0..MaxFrame
  BY RoutingAssumption
<1>4. TypeOK'
  BY <1>1, <1>2, <1>3 DEF TypeOK, RegistryTypeOK, regVars, rawVars, dialogVars
<1>5. RInv'
  BY <1>1, RegistryKept
<1>6. /\ \A q \in Press : frames'[q] = (IF q = p THEN 0 ELSE frames[q])
      /\ \A q \in Press : heard'[q] = (IF q = p THEN 0 ELSE heard[q])
  BY <1>1, <1>2, Types
<1>7. AirOK'
  BY <1>1, <1>2, <1>6 DEF AirOK
<1>8. DedupOK'
  <2>1. \A q \in air' : q \in air /\ q # p /\ q \in Press
    BY <1>1, <1>2, Types
  <2> QED
    BY <1>1, <1>2, <1>6, <2>1 DEF DedupOK, KeyOf
<1>9. CaptureOK'
  BY <1>1 DEF IInv, CaptureOK, Remembered, rawVars, dialogVars, KeyOf
<1> QED
  BY <1>4, <1>5, <1>7, <1>8, <1>9 DEF IInv

LEMMA WindowStep ==
  ASSUME IInv, (\E key \in dedup : DedupReset(key)) \/ LastKeyAges
  PROVE  IInv'
<1>1. /\ UNCHANGED <<regVars, airVars, pairing, capture, taken, dialogVars>>
      /\ dedup' \subseteq dedup
      /\ lastKey' \in FrameKey \cup {None}
  BY DEF DedupReset, LastKeyAges, rawVars, IInv, TypeOK
<1>2. RInv'
  BY <1>1, RegistryKept
<1>3. TypeOK'
  BY <1>1, <1>2 DEF IInv, TypeOK, airVars, dialogVars, RInv
<1>4. AirOK'
  BY <1>1 DEF IInv, AirOK, airVars
<1>5. \A p \in air : ~Hold /\ KeyOf(p) \in dedup => KeyOf(p) \in dedup'
  BY DEF DedupReset, LastKeyAges, WindowOver
<1>6. DedupOK'
  BY <1>1, <1>5 DEF IInv, DedupOK, airVars, KeyOf
<1>7. \A p \in air : ~Hold /\ lastKey = KeyOf(p) => lastKey' = lastKey
  BY DEF DedupReset, LastKeyAges, WindowOver, rawVars
<1>8. CaptureOK'
  BY <1>1, <1>7 DEF IInv, CaptureOK, Remembered, airVars, dialogVars, KeyOf
<1> QED
  BY <1>2, <1>3, <1>4, <1>6, <1>8 DEF IInv

-----------------------------------------------------------------------------
(* A frame *)

LEMMA FrameFacts ==
  ASSUME IInv, NEW p \in Press, Frame(p)
  PROVE  /\ p \in air /\ p \in 1..Len(presses)
         /\ frames' = [frames EXCEPT ![p] = @ + 1] /\ frames[p] < MaxFrame
         /\ UNCHANGED <<regVars, presses, air, dialogVars>> /\ pairing' \in BOOLEAN
         /\ UNCHANGED rawVars \/ (capture = "pending" /\ lastKey # KeyOf(p) /\ capture' = "done"
                                  /\ taken' = p /\ lastKey' = KeyOf(p))
         /\ UNCHANGED <<heard, dedup>> \/ FrameRouted(p)
<1>1. Received(p) /\ pairing' \in BOOLEAN
  BY DEF Frame, FramePairs, FrameSuppressed, FrameRouted, FrameForwarded, IInv, TypeOK
<1>2. UNCHANGED rawVars \/ Gate15(p)
  BY DEF Frame, FramePairs, FrameSuppressed, FrameRouted, FrameForwarded
<1>3. UNCHANGED <<heard, dedup>> \/ FrameRouted(p)
  BY DEF Frame, FramePairs, FrameSuppressed, FrameForwarded
<1> QED
  BY <1>1, <1>2, <1>3, Types DEF Received, Gate15, IInv

LEMMA FrameStep ==
  ASSUME IInv, NEW p \in Press, Frame(p)
  PROVE  IInv'
<1>1. TypeOK /\ AirOK /\ DedupOK /\ CaptureOK
  BY DEF IInv
<1>2. /\ p \in air /\ p \in 1..Len(presses)
      /\ frames' = [frames EXCEPT ![p] = @ + 1] /\ frames[p] < MaxFrame
      /\ UNCHANGED <<regVars, presses, air, dialogVars>> /\ pairing' \in BOOLEAN
  BY FrameFacts
<1>3. RInv'
  BY <1>2, RegistryKept
<1>4. \A q : KeyOf(q)' = KeyOf(q)
  BY <1>2 DEF KeyOf
<1>5. \A q \in Press : frames'[q] = (IF q = p THEN frames[p] + 1 ELSE frames[q])
  BY <1>1, <1>2, Types
<1>6. \/ UNCHANGED <<heard, dedup>>
      \/ /\ \A q \in Press : heard'[q] = (IF q = p THEN heard[p] + 1 ELSE heard[q])
         /\ heard' = [heard EXCEPT ![p] = @ + 1]
         /\ dedup' = IF presses[p].cmd = "stop" THEN dedup ELSE dedup \cup {KeyOf(p)}
         /\ ~Gate2(p)
  <2>1. CASE FrameRouted(p)
    BY <1>1, <2>1, Types DEF FrameRouted, Remember
  <2> QED
    BY <2>1, FrameFacts
<1>7. AirOK'
  <2>1. \A q \in Press : heard[q] \in Nat /\ frames[q] \in Nat
    BY <1>1, Types
  <2>2. \A q \in Press : heard'[q] <= frames'[q]
    BY <1>1, <1>5, <1>6, <2>1 DEF AirOK
  <2>3. \A q \in Press \ air' : frames'[q] = 0
    BY <1>1, <1>2, <1>5 DEF AirOK
  <2> QED
    BY <1>1, <1>2, <2>2, <2>3 DEF AirOK
<1>8. TypeOK'
  <2>1. frames' \in [Press -> 0..MaxFrame]
    <3>1. frames[p] + 1 \in 0..MaxFrame
      BY <1>1, <1>2, Types
    <3> QED
      BY <1>1, <1>2, <3>1, Types
  <2>2. heard' \in [Press -> 0..MaxFrame]
    <3>1. heard[p] + 1 \in 0..MaxFrame
      <4>1. heard[p] <= frames[p] /\ heard[p] \in Nat /\ frames[p] \in Nat
        BY <1>1, Types DEF AirOK
      <4> QED
        BY <1>1, <1>2, <4>1, Types
    <3> QED
      BY <1>1, <1>6, <3>1, Types
  <2>3. dedup' \subseteq FrameKey
    BY <1>1, <1>2, <1>6, Types DEF TypeOK
  <2>4. capture' \in {"none", "pending", "done"} /\ taken' \in 0..MaxPress
        /\ lastKey' \in FrameKey \cup {None}
    <3>1. p \in 0..MaxPress /\ KeyOf(p) \in FrameKey
      BY <1>1, <1>2, Types DEF Press
    <3> QED
      BY <1>1, <3>1, FrameFacts DEF TypeOK, rawVars
  <2>5. RegistryTypeOK'
    BY <1>3 DEF RInv
  <2> QED
    BY <1>1, <1>2, <2>1, <2>2, <2>3, <2>4, <2>5 DEF TypeOK, dialogVars
<1>9. DedupOK'
  <2>1. \A key \in dedup' : key[2] <= Len(presses')
    <3>1. KeyOf(p)[2] <= Len(presses)
      <4>1. presses[p].counter <= p /\ p <= Len(presses) /\ presses[p].counter \in Nat
        BY <1>1, <1>2, Types DEF AirOK, Press
      <4>2. Len(presses) \in Nat /\ p \in Nat
        BY <1>1, Types DEF Press
      <4> QED
        BY <4>1, <4>2 DEF KeyOf
    <3> QED
      BY <1>1, <1>2, <1>6, <3>1 DEF DedupOK
  <2>2. ASSUME NEW q \in air, presses[q].cmd = "move"
        PROVE  /\ KeyOf(q) \in dedup' => frames'[q] > 0
               /\ ~Hold /\ heard'[q] > 0 => heard'[q] = 1 /\ KeyOf(q) \in dedup'
    <3>1. q \in Press /\ q \in 1..Len(presses)
      BY <1>1, <2>2, Types
    <3>2. /\ frames[p] \in Nat /\ heard[p] \in Nat /\ frames[q] \in Nat
      BY <1>1, <3>1, Types
    <3>3. /\ KeyOf(q) \in dedup => frames[q] > 0
          /\ ~Hold /\ heard[q] > 0 => heard[q] = 1 /\ KeyOf(q) \in dedup
      BY <1>1, <2>2 DEF DedupOK
    <3>4. CASE q = p
      <4>1. frames'[q] > 0
        BY <1>5, <3>1, <3>2, <3>4
      <4>2. CASE UNCHANGED <<heard, dedup>>
        BY <3>3, <4>1, <4>2
      <4>3. CASE ~UNCHANGED <<heard, dedup>>
        <5>1. KeyOf(p) \notin dedup /\ KeyOf(p) \in dedup' /\ heard'[p] = heard[p] + 1
          BY <1>6, <2>2, <3>4, <4>3 DEF Gate2
        <5> QED
          BY <3>2, <3>3, <3>4, <4>1, <5>1
      <4> QED
        BY <4>2, <4>3
    <3>5. CASE q # p
      <4>1. frames'[q] = frames[q] /\ heard'[q] = heard[q]
        BY <1>5, <1>6, <3>1, <3>5
      <4>2. KeyOf(q) \in dedup' <=> KeyOf(q) \in dedup
        <5>1. presses[p].cmd = "move" => KeyOf(p) # KeyOf(q)
          BY <1>1, <1>2, <2>2, <3>1, <3>5 DEF AirOK, KeyOf
        <5>2. presses[p].cmd \in {"move", "stop"}
          BY <1>1, <1>2, Types
        <5> QED
          BY <1>6, <5>1, <5>2
      <4> QED
        BY <3>3, <4>1, <4>2
    <3> QED
      BY <3>4, <3>5
  <2> QED
    BY <1>2, <1>4, <2>1, <2>2 DEF DedupOK
<1>10. CaptureOK'
  <2>1. CASE UNCHANGED rawVars
    BY <1>1, <1>2, <1>4, <2>1 DEF CaptureOK, Remembered, rawVars, dialogVars
  <2>2. CASE /\ capture = "pending" /\ lastKey # KeyOf(p) /\ capture' = "done"
             /\ taken' = p /\ lastKey' = KeyOf(p)
    <3>1. dialog \in {"first", "second"}
      BY <1>1, <2>2 DEF CaptureOK
    <3>2. Remembered(p)'
      BY <1>2, <1>4, <2>2 DEF Remembered
    <3>3. CASE dialog = "first"
      BY <1>2, <2>2, <3>2, <3>3 DEF CaptureOK, dialogVars
    <3>4. CASE dialog = "second"
      <4>1. ~Hold => p # first
        BY <1>1, <1>2, <2>2, <3>4 DEF CaptureOK, Remembered
      <4> QED
        BY <1>2, <2>2, <3>4, <4>1 DEF CaptureOK, dialogVars
    <3> QED
      BY <3>1, <3>3, <3>4
  <2> QED
    BY <2>1, <2>2, FrameFacts
<1> QED
  BY <1>3, <1>7, <1>8, <1>9, <1>10 DEF IInv

-----------------------------------------------------------------------------
LEMMA IInvStep == IInv /\ [Next]_vars => IInv'
<1> SUFFICES ASSUME IInv, [Next]_vars PROVE IInv'
  OBVIOUS
<1>1. CASE Entities
  BY <1>1, EntitiesStep
<1>2. ASSUME NEW sender \in Sender, NEW cmd \in {"move", "stop"}, PressBegins(sender, cmd)
      PROVE  IInv'
  BY <1>2, PressBeginsStep
<1>3. ASSUME NEW p \in Press, Frame(p) PROVE IInv'
  BY <1>3, FrameStep
<1>4. ASSUME NEW p \in Press, BurstEnds(p) PROVE IInv'
  BY <1>4, BurstEndsStep
<1>5. CASE (\E key \in dedup : DedupReset(key)) \/ LastKeyAges
  BY <1>5, WindowStep
<1>6. CASE OpenPairing \/ ClosePairing
  BY <1>6, PairingStep
<1>7. CASE OpenFirst \/ CaptureFails \/ FirstTaken \/ OpenSecond \/ SecondTaken
  BY <1>7, DialogStep
<1>8. CASE UNCHANGED vars
  <2>1. UNCHANGED <<regVars, airVars, dedup, pairing, rawVars, dialogVars>>
    BY <1>8 DEF vars
  <2>2. RInv' /\ CaptureOK'
    BY <2>1, RegistryKept, CaptureKept
  <2> QED
    BY <2>1, <2>2, Aside DEF IInv, TypeOK, rawVars, dialogVars
<1> QED
  BY <1>1, <1>2, <1>3, <1>4, <1>5, <1>6, <1>7, <1>8 DEF Next

THEOREM RoutingInductive == Spec => []IInv
<1> QED
  BY InitInv, IInvStep, PTL DEF Spec

(* Type correctness of the gates, their caches and the bind dialog.        *)
THEOREM RoutingTypes == Spec => []TypeOK
<1>1. IInv => TypeOK
  BY DEF IInv
<1> QED
  BY <1>1, RoutingInductive, PTL

(* A press moves its cover once, however long its burst and whatever comes *)
(* and goes meanwhile, if the window is not over before the burst.         *)
THEOREM PressHeardOnce == Spec => []HeardOnce
<1>1. IInv => HeardOnce
  <2> SUFFICES ASSUME IInv, NEW p \in 1..Len(presses), ~Hold, presses[p].cmd = "move"
               PROVE  heard[p] <= 1
    BY DEF HeardOnce
  <2>1. p \in Press /\ heard[p] \in Nat /\ frames[p] \in Nat
    BY Types DEF IInv
  <2>2. CASE p \in air
    BY <2>1, <2>2 DEF IInv, DedupOK
  <2>3. CASE p \notin air
    BY <2>1, <2>3 DEF IInv, AirOK
  <2> QED
    BY <2>2, <2>3
<1> QED
  BY <1>1, RoutingInductive, PTL

(* Only a frame of a press counts a frame of it. *)
LEMMA CountedByFrame ==
  ASSUME IInv, [Next]_vars, NEW p \in air, Counted(p)
  PROVE  p \in Press /\ Frame(p)
<1>1. p \in Press /\ frames \in [Press -> 0..MaxFrame] /\ frames[p] \in Nat
  BY Types DEF IInv
<1>2. frames'[p] # frames[p] /\ frames'[p] # 0
  BY <1>1 DEF Counted
<1>3. UNCHANGED frames \/ \E q \in Press : Frame(q) \/ BurstEnds(q)
  BY DEF Next, Entities, PressBegins, DedupReset, LastKeyAges, OpenPairing, ClosePairing,
         OpenFirst, CaptureFails, FirstTaken, OpenSecond, SecondTaken, Elsewhere, airVars, vars
<1>4. PICK q \in Press : Frame(q) \/ BurstEnds(q)
  BY <1>2, <1>3
<1>5. q = p /\ Frame(q)
  <2>1. CASE Frame(q)
    <3>1. frames' = [frames EXCEPT ![q] = @ + 1]
      BY <2>1, FrameFacts
    <3> QED
      BY <1>1, <1>2, <2>1, <3>1
  <2>2. CASE BurstEnds(q)
    <3>1. frames' = [frames EXCEPT ![q] = 0]
      BY <2>2 DEF BurstEnds
    <3> QED
      BY <1>1, <1>2, <3>1
  <2> QED
    BY <1>4, <2>1, <2>2
<1> QED
  BY <1>1, <1>5

(* The dedup swallows no press and no stop. *)
THEOREM PressAlwaysHeard == Spec => PressHeard
<1>1. ASSUME IInv, [Next]_vars, NEW p \in air, Counted(p), MotorOf(p) # None,
             frames[p] = 0 \/ presses[p].cmd = "stop"
      PROVE  heard'[p] = heard[p] + 1
  <2>1. Frame(p) /\ p \in Press /\ p \in 1..Len(presses)
    BY <1>1, CountedByFrame, Types DEF IInv
  <2>2. heard \in [Press -> 0..MaxFrame] /\ presses[p].cmd \in {"move", "stop"}
        /\ Chan(p) \in Channel
    BY <1>1, <2>1, Types DEF IInv
  <2>3. registered[Id(p)] # None
    <3>1. Id(p) \in Remote /\ BoundMotorFor(Chan(p), Id(p)) # None
      BY <1>1 DEF MotorOf
    <3>2. <<Chan(p), Id(p)>> \in Key /\ <<None, Id(p)>> \in Key
      BY <2>2, <3>1 DEF Key
    <3>3. IsBoundRemoteId(route, Id(p))
      BY <3>1, <3>2 DEF BoundMotorFor, IsBoundRemoteId
    <3> QED
      BY <1>1, <3>1, <3>3 DEF IInv, RInv, KnownWhileRouted
  <2>4. ~Gate2(p)
    BY <1>1, <2>2 DEF Gate2, IInv, DedupOK
  <2>5. FrameRouted(p)
    BY <1>1, <2>1, <2>3, <2>4 DEF Frame, FramePairs, Gate1, FrameSuppressed, FrameForwarded
  <2> QED
    BY <2>1, <2>2, <2>5 DEF FrameRouted
<1>2. IInv /\ [Next]_vars =>
        [\A p \in air :
           Counted(p) /\ MotorOf(p) # None /\ (frames[p] = 0 \/ presses[p].cmd = "stop")
             => heard'[p] = heard[p] + 1]_vars
  BY <1>1
<1> QED
  BY <1>2, RoutingInductive, PTL DEF Spec, PressHeard

(* No remote that an entity holds is paired as a motor by an "ss" frame    *)
(* (Gate 1, api.py:504-524); "sl" frames are outside this model.           *)
THEOREM PairingSparesRemotes == Spec => PairingTakesStranger
<1>1. ASSUME IInv, [Next]_vars, pairing, ~pairing', NEW p \in air, NEW k \in Key,
             Counted(p), k[2] = Id(p)
      PROVE  Holders(k) = {}
  <2>1. Frame(p)
    BY <1>1, CountedByFrame
  <2>2. FramePairs(p)
    BY <1>1, <2>1 DEF Frame, FrameSuppressed, FrameRouted, FrameForwarded
  <2>3. registered[k[2]] = None /\ k[2] \in Remote
    BY <1>1, <2>2 DEF FramePairs, Gate1, Key
  <2>4. route[k] = None
    BY <1>1, <2>3 DEF IInv, RInv, KnownWhileRouted, IsBoundRemoteId
  <2> QED
    BY <1>1, <2>4 DEF IInv, RInv, RouteWhileHeld
<1>2. IInv /\ [Next]_vars =>
        [pairing /\ ~pairing'
           => \A p \in air, k \in Key : Counted(p) /\ k[2] = Id(p) => Holders(k) = {}]_vars
  BY <1>1
<1> QED
  BY <1>2, RoutingInductive, PTL DEF Spec, PairingTakesStranger

(* One press does not confirm itself. *)
THEOREM SecondPressIsAnother == Spec => SecondPress
<1>1. ASSUME IInv, [Next]_vars, ~Hold, dialog = "second", dialog' = "matched"
      PROVE  taken # first
  <2>1. SecondTaken
    <3>1. \A p \in Press : Frame(p) => dialog' = dialog
      BY <1>1, FrameFacts DEF dialogVars
    <3> QED
      BY <1>1, <3>1 DEF Next, vars, Entities, PressBegins, BurstEnds, DedupReset, LastKeyAges,
         OpenPairing, ClosePairing, OpenFirst, CaptureFails, FirstTaken, OpenSecond, dialogVars
  <2> QED
    BY <1>1, <2>1 DEF SecondTaken, IInv, CaptureOK
<1>2. IInv /\ [Next]_vars =>
        [~Hold /\ dialog = "second" /\ dialog' = "matched" => taken # first]_vars
  BY <1>1
<1> QED
  BY <1>2, RoutingInductive, PTL DEF Spec, SecondPress

-----------------------------------------------------------------------------
(* Composition: the gates, the captures and the dialogs only read the      *)
(* registry, so what is proved of it alone holds beside them, in           *)
(* particular that every frame is routed by a dict that matches the        *)
(* entities alive (api.py:571-661).                                        *)
THEOREM RoutingKeepsRegistry == Spec => RegistrySpec
<1>1. Init => RegistryInit
  BY DEF Init
<1>2. IInv /\ [Next]_vars => [RegistryNext]_regVars
  <2> SUFFICES ASSUME IInv, [Next]_vars PROVE [RegistryNext]_regVars
    OBVIOUS
  <2>1. CASE Entities
    BY <2>1 DEF Entities
  <2>2. ASSUME NEW p \in Press, Frame(p) PROVE UNCHANGED regVars
    BY <2>2, FrameFacts DEF regVars
  <2>3. CASE UNCHANGED vars
    BY <2>3 DEF vars
  <2> QED
    BY <2>1, <2>2, <2>3
    DEF Next, PressBegins, BurstEnds, DedupReset, LastKeyAges, OpenPairing, ClosePairing,
        OpenFirst, CaptureFails, FirstTaken, OpenSecond, SecondTaken, Elsewhere
<1> QED
  BY <1>1, <1>2, RoutingInductive, PTL DEF Spec, RegistrySpec

(* While frames arrive, the gates read counts, routes and known ids that   *)
(* match the entities alive, and no frame of a channel with a motor of its *)
(* own goes to another (api.py:571-580).                                   *)
THEOREM RoutedByExactRegistry == Spec => [](RefCountExact /\ RegistryExact /\ ChannelWins)
<1> QED
  BY RoutingKeepsRegistry, CountsHolders, RegistryStaysExact, ChannelBeatsWildcard, PTL
=============================================================================
