------------------------- MODULE CommandQueueProofs -------------------------
(***************************************************************************)
(* Proofs about CommandQueue, for every set of commands, every queue cap   *)
(* and, for replay, whatever the stick's timing.                           *)
(***************************************************************************)
EXTENDS CommandQueue, TLAPS

(* What the sequence operators do to the set of elements. *)
LEMMA EmptyToSet == ToSet(<<>>) = {}
  BY DEF ToSet

LEMMA AppendToSet ==
  ASSUME NEW S, NEW s \in Seq(S), NEW x \in S
  PROVE  /\ Append(s, x) \in Seq(S)
         /\ Len(Append(s, x)) = Len(s) + 1
         /\ ToSet(Append(s, x)) = ToSet(s) \cup {x}
<1>1. /\ DOMAIN Append(s, x) = 1..Len(s) + 1
      /\ \A i \in 1..Len(s) : Append(s, x)[i] = s[i]
      /\ Append(s, x)[Len(s) + 1] = x
  OBVIOUS
<1>2. DOMAIN s = 1..Len(s) /\ Len(s) \in Nat
  OBVIOUS
<1>3. Append(s, x) \in Seq(S) /\ Len(Append(s, x)) = Len(s) + 1
  OBVIOUS
<1>4. ASSUME NEW y \in ToSet(Append(s, x)) PROVE y \in ToSet(s) \cup {x}
  BY <1>1, <1>2 DEF ToSet
<1>5. ASSUME NEW y \in ToSet(s) \cup {x} PROVE y \in ToSet(Append(s, x))
  BY <1>1, <1>2 DEF ToSet
<1> QED
  BY <1>3, <1>4, <1>5

LEMMA HeadTailToSet ==
  ASSUME NEW S, NEW s \in Seq(S), s # <<>>
  PROVE  /\ Tail(s) \in Seq(S) /\ Head(s) \in S
         /\ Len(Tail(s)) = Len(s) - 1 /\ Len(s) > 0
         /\ ToSet(s) = {Head(s)} \cup ToSet(Tail(s))
<1>1. /\ Len(s) \in Nat /\ Len(s) > 0 /\ DOMAIN s = 1..Len(s)
      /\ Head(s) = s[1] /\ DOMAIN Tail(s) = 1..(Len(s) - 1)
      /\ \A i \in 1..(Len(s) - 1) : Tail(s)[i] = s[i + 1]
  OBVIOUS
<1>2. Tail(s) \in Seq(S) /\ Head(s) \in S /\ Len(Tail(s)) = Len(s) - 1
  OBVIOUS
<1>3. ASSUME NEW i \in DOMAIN s PROVE s[i] \in {Head(s)} \cup ToSet(Tail(s))
  <2>1. CASE i = 1
    BY <1>1, <2>1
  <2>2. CASE i # 1
    <3>1. i - 1 \in 1..(Len(s) - 1) /\ Tail(s)[i - 1] = s[i]
      BY <1>1, <1>3, <2>2
    <3> QED
      BY <1>1, <3>1 DEF ToSet
  <2> QED
    BY <2>1, <2>2
<1>4. ASSUME NEW i \in DOMAIN Tail(s) PROVE Tail(s)[i] \in ToSet(s)
  <2>1. i + 1 \in DOMAIN s /\ Tail(s)[i] = s[i + 1]
    BY <1>1, <1>4
  <2> QED
    BY <2>1 DEF ToSet
<1>5. Head(s) \in ToSet(s)
  BY <1>1 DEF ToSet
<1> QED
  BY <1>1, <1>2, <1>3, <1>4, <1>5 DEF ToSet

-----------------------------------------------------------------------------
(* Replay.  Without a port nothing is left to transmit but the slot, and   *)
(* over a port the slot holds nothing that was cut off.                    *)
Silent ==
    /\ link = "down" => queue = <<>> /\ wire = <<>>
    /\ link # "up" => worker = "none"

Held == worker = "delaying" <=> held # None

SlotCurrent == \A c \in Cmd : link # "down" /\ fate[c] = "cut" => inflight # c

QInv == TypeOK /\ Silent /\ Held /\ SlotCurrent /\ NoReplayAcrossLoss

LEMMA QInvInit == Init => QInv
  BY CommandAssumption, EmptyToSet
  DEF Init, QInv, TypeOK, Silent, Held, SlotCurrent, NoReplayAcrossLoss, Frame

LEMMA QInvStep == QInv /\ [Next]_vars => QInv'
<1> SUFFICES ASSUME QInv, [Next]_vars PROVE QInv'
  OBVIOUS
<1> USE CommandAssumption
    DEF QInv, TypeOK, Silent, Held, SlotCurrent, NoReplayAcrossLoss, Frame, Waiting
<1>a. \A f \in Frame : /\ Append(wire, f) \in Seq(Frame)
                       /\ ToSet(Append(wire, f)) = ToSet(wire) \cup {f}
  BY AppendToSet
<1>b. wire # <<>> => /\ Tail(wire) \in Seq(Frame) /\ Head(wire) \in Frame
                     /\ ToSet(Tail(wire)) \subseteq ToSet(wire)
                     /\ Head(wire) \in ToSet(wire)
  BY HeadTailToSet
<1>c. queue # <<>> => /\ Tail(queue) \in Seq(Frame) /\ Head(queue) \in Frame
                      /\ Len(Tail(queue)) <= Cap
                      /\ ToSet(queue) = {Head(queue)} \cup ToSet(Tail(queue))
  BY HeadTailToSet
<1>1. ASSUME NEW c \in Cmd, Ask(c) PROVE QInv'
  <2>1. CASE link = "down"
    BY <1>1, <2>1 DEF Ask
  <2>2. CASE link # "down"
    <3>1. wire' \in Seq(Frame) /\ ToSet(wire') = ToSet(wire) \cup {c}
      BY <1>1, <1>a, <2>2 DEF Ask, Write
    <3>2. \A d \in Cmd : fate'[d] = "cut" => d # c /\ fate[d] = "cut"
      BY <1>1, <2>2 DEF Ask
    <3>3. TypeOK'
      BY <1>1, <2>2, <3>1 DEF Ask, Write
    <3> QED
      BY <1>1, <2>2, <3>1, <3>2, <3>3 DEF Ask, Write
  <2> QED
    BY <2>1, <2>2
<1>2. CASE SendProbe
  BY <1>2, <1>a DEF SendProbe, Write
<1>3. CASE Accept
  BY <1>3, <1>b DEF Accept, ClearSlot
<1>4. CASE ProbeAnswered
  BY <1>4, <1>b DEF ProbeAnswered
<1>5. ASSUME Requeue, UNCHANGED <<link, worker, held>>, wire' \in Seq(Frame),
             ToSet(wire') \subseteq ToSet(wire), link # "down"
      PROVE  QInv'
  <2>1. CASE inflight = None
    BY <1>5, <2>1 DEF Requeue
  <2>2. CASE inflight # None /\ Len(queue) < Cap
    <3>a. queue' = Append(queue, inflight) /\ inflight \in Frame
      BY <1>5, <2>2 DEF Requeue
    <3>b. /\ queue' \in Seq(Frame) /\ Len(queue') = Len(queue) + 1
          /\ ToSet(queue') = ToSet(queue) \cup {inflight}
      BY <3>a, AppendToSet
    <3>1. /\ queue' \in Seq(Frame) /\ Len(queue') <= Cap
          /\ ToSet(queue') = ToSet(queue) \cup {inflight}
      BY <2>2, <3>b
    <3> QED
      BY <1>5, <2>2, <3>1 DEF Requeue
  <2>3. CASE inflight # None /\ ~(Len(queue) < Cap)
    BY <1>5, <2>3 DEF Requeue
  <2> QED
    BY <2>1, <2>2, <2>3
<1>6. CASE Busy
  BY <1>5, <1>6, <1>b DEF Busy
<1>7. CASE LateBusy
  BY <1>5, <1>7 DEF LateBusy
<1>8. CASE WorkerGet
  BY <1>8, <1>c DEF WorkerGet
<1>9. CASE WorkerSend
  BY <1>9, <1>a DEF WorkerSend, Write
<1>10. CASE Loss
  BY <1>10, EmptyToSet DEF Loss, Drain
<1>11. CASE Reopen
  BY <1>11, <1>a DEF Reopen, FirstWrite, Write
<1>12. CASE ConnectDone
  BY <1>12 DEF ConnectDone, StartWorker
<1>13. CASE UNCHANGED vars
  BY <1>13 DEF vars
<1> QED
  BY <1>1, <1>2, <1>3, <1>4, <1>6, <1>7, <1>8, <1>9, <1>10, <1>11, <1>12, <1>13
  DEF Next, Answer

THEOREM QueueInductive == Spec => []QInv
<1> QED
  BY QInvInit, QInvStep, PTL DEF Spec

(* Type correctness; in particular the retry queue never outgrows its cap. *)
THEOREM QueueTypeCorrect == Spec => []TypeOK
<1>1. QInv => TypeOK
  BY DEF QInv
<1> QED
  BY <1>1, QueueInductive, PTL

(* No command asked for before a loss is transmitted after it, whatever    *)
(* the stick answers and however late.                                     *)
THEOREM NoReplay == Spec => []NoReplayAcrossLoss
<1>1. QInv => NoReplayAcrossLoss
  BY DEF QInv
<1> QED
  BY <1>1, QueueInductive, PTL

(* A step of the link, of the stick or of an entity leaves every command   *)
(* its place: a busy answer appends or overflows, and only the worker,     *)
(* which takes the head, and a loss move what is queued.                   *)
PlaceStep ==
    \A i \in 1..Len(queue) :
       \/ link' = "down"
       \/ i <= Len(queue') /\ queue'[i] = queue[i]
       \/ worker = "waiting" /\ worker' = "delaying"

LEMMA PlaceKeptStep == QInv /\ [Next]_vars => [PlaceStep]_vars
<1> SUFFICES ASSUME QInv, [Next]_vars PROVE PlaceStep
  OBVIOUS
<1>1. queue \in Seq(Frame) /\ inflight \in Frame \cup {None}
  BY DEF QInv, TypeOK
<1>2. CASE queue' = queue
  BY <1>1, <1>2 DEF PlaceStep
<1>3. CASE Requeue
  <2>1. CASE queue' = Append(queue, inflight) /\ inflight # None
    BY <1>1, <2>1 DEF PlaceStep
  <2> QED
    BY <1>2, <1>3, <2>1 DEF Requeue
<1>4. CASE WorkerGet
  BY <1>4 DEF WorkerGet, PlaceStep
<1>5. CASE Loss
  BY <1>5 DEF Loss, PlaceStep
<1> QED
  BY <1>2, <1>3, <1>4, <1>5
  DEF Next, vars, Ask, SendProbe, Answer, Accept, ProbeAnswered, Busy, LateBusy, WorkerSend, Reopen,
      ConnectDone

(* The commands that overflow are the newest: what is queued keeps its     *)
(* place until the worker takes it or the link is lost.                    *)
THEOREM QueuedKeepPlace == Spec => PlaceKept
<1>1. QInv /\ [Next]_vars => [\A i \in 1..Len(queue) :
          \/ link' = "down"
          \/ i <= Len(queue') /\ queue'[i] = queue[i]
          \/ worker = "waiting" /\ worker' = "delaying"]_vars
  BY PlaceKeptStep DEF PlaceStep
<1> QED
  BY <1>1, QueueInductive, PTL DEF Spec, PlaceKept


-----------------------------------------------------------------------------
(* Half duplex.  The slot is the one frame on the wire, or nothing of an   *)
(* entity; a command is in exactly one place as long as it is owed.        *)
OneFrame ==
    /\ Len(wire) <= 1
    /\ wire # <<>> => inflight = Head(wire)
    /\ wire = <<>> /\ link # "down" => inflight \notin Cmd

LocatedIffOwed ==
    \A c \in Cmd : fate[c] = "owed" <=> c \in Waiting \cup ToSet(wire)

OnePlace ==
    \A c \in Cmd :
        /\ c \in ToSet(wire) => c \notin Waiting
        /\ c = held => c \notin ToSet(queue)

NoRepeat ==
    \A i, j \in 1..Len(queue) : queue[i] = queue[j] /\ queue[i] \in Cmd => i = j

HInv == QInv /\ OneFrame /\ LocatedIffOwed /\ OnePlace /\ NoRepeat

LEMMA OneFrameToSet ==
  ASSUME NEW S, NEW s \in Seq(S), Len(s) <= 1, s # <<>>
  PROVE  ToSet(s) = {Head(s)} /\ Tail(s) = <<>>
<1>1. /\ Len(s) > 0 /\ Len(s) \in Nat /\ Len(Tail(s)) = Len(s) - 1
      /\ Tail(s) \in Seq(S) /\ ToSet(s) = {Head(s)} \cup ToSet(Tail(s))
  BY HeadTailToSet
<1>2. Len(Tail(s)) = 0
  BY <1>1
<1>3. Tail(s) = <<>>
  BY <1>1, <1>2
<1> QED
  BY <1>1, <1>3, EmptyToSet

LEMMA SingletonToSet ==
  ASSUME NEW S, NEW x \in S
  PROVE  /\ Append(<<>>, x) \in Seq(S) /\ Len(Append(<<>>, x)) = 1
         /\ Head(Append(<<>>, x)) = x /\ Append(<<>>, x) # <<>>
         /\ ToSet(Append(<<>>, x)) = {x}
<1>1. /\ Append(<<>>, x) \in Seq(S) /\ Len(Append(<<>>, x)) = 1
      /\ Head(Append(<<>>, x)) = x /\ Append(<<>>, x) # <<>>
  OBVIOUS
<1>2. DOMAIN Append(<<>>, x) = {1} /\ Append(<<>>, x)[1] = x
  BY <1>1
<1>3. ToSet(Append(<<>>, x)) = {x}
  BY <1>2 DEF ToSet
<1> QED
  BY <1>1, <1>3

LEMMA HInvInit == Init => HInv
  BY QInvInit, EmptyToSet, CommandAssumption
  DEF Init, HInv, OneFrame, LocatedIffOwed, OnePlace, NoRepeat, Waiting

LEMMA HInvStep == HalfDuplex /\ HInv /\ [Next]_vars => HInv'
<1> SUFFICES ASSUME HalfDuplex, HInv, [Next]_vars PROVE HInv'
  OBVIOUS
<1>q. QInv'
  BY QInvStep DEF HInv
<1> SUFFICES OneFrame' /\ LocatedIffOwed' /\ OnePlace' /\ NoRepeat'
  BY <1>q DEF HInv
<1> USE CommandAssumption
    DEF HInv, QInv, TypeOK, Silent, Held, OneFrame, LocatedIffOwed, OnePlace,
        NoRepeat, Frame, Waiting
<1>w. ASSUME NEW f \in Frame, wire = <<>>, Write(f)
      PROVE  /\ wire' # <<>> /\ Len(wire') = 1 /\ ToSet(wire') = {f}
             /\ inflight' = Head(wire') /\ ToSet(wire) = {}
  BY <1>w, SingletonToSet, EmptyToSet DEF Write
<1>h. wire # <<>> => ToSet(wire) = {Head(wire)} /\ Tail(wire) = <<>> /\ Head(wire) \in Frame
  BY OneFrameToSet
<1>1. ASSUME NEW c \in Cmd, Ask(c)
      PROVE OneFrame' /\ LocatedIffOwed' /\ OnePlace' /\ NoRepeat'
  <2>1. CASE link = "down"
    BY <1>1, <2>1 DEF Ask
  <2>2. CASE link # "down"
    <3>1. /\ wire' # <<>> /\ Len(wire') = 1 /\ ToSet(wire') = {c}
          /\ inflight' = Head(wire') /\ ToSet(wire) = {}
      BY <1>1, <1>w, <2>2 DEF Ask, WireFree
    <3>2. fate[c] = "unasked" /\ c \notin Waiting
      BY <1>1 DEF Ask
    <3> QED
      BY <1>1, <2>2, <3>1, <3>2 DEF Ask
  <2> QED
    BY <2>1, <2>2
<1>2. CASE SendProbe
  <2>1. /\ wire' # <<>> /\ Len(wire') = 1 /\ ToSet(wire') = {Probe}
        /\ inflight' = Head(wire') /\ ToSet(wire) = {}
    BY <1>2, <1>w DEF SendProbe, WireFree
  <2> QED
    BY <1>2, <2>1 DEF SendProbe
<1>3. CASE Accept
  <2>1. ToSet(wire) = {Head(wire)} /\ wire' = <<>> /\ ToSet(wire') = {}
    BY <1>3, <1>h, EmptyToSet DEF Accept
  <2> QED
    BY <1>3, <2>1 DEF Accept, ClearSlot
<1>4. CASE ProbeAnswered
  <2>1. ToSet(wire) = {Probe} /\ wire' = <<>> /\ ToSet(wire') = {}
    BY <1>4, <1>h, EmptyToSet DEF ProbeAnswered
  <2> QED
    BY <1>4, <2>1 DEF ProbeAnswered
<1>5. ASSUME Requeue, UNCHANGED <<link, worker, held>>, wire' = <<>>,
             inflight \in Cmd => ToSet(wire) = {inflight},
             inflight \notin Cmd => ToSet(wire) \cap Cmd = {}
      PROVE OneFrame' /\ LocatedIffOwed' /\ OnePlace' /\ NoRepeat'
  <2>0. OneFrame' /\ ToSet(wire') = {}
    BY <1>5, EmptyToSet DEF Requeue
  <2>1. CASE inflight = None
    BY <1>5, <2>0, <2>1 DEF Requeue
  <2>2. CASE inflight # None /\ Len(queue) < Cap
    <3>1. queue' = Append(queue, inflight) /\ inflight \in Frame /\ fate' = fate
      BY <1>5, <2>2 DEF Requeue
    <3>2. ToSet(queue') = ToSet(queue) \cup {inflight}
      BY <3>1, AppendToSet
    <3>3. inflight \in Cmd => inflight \notin ToSet(queue) /\ inflight # held
      BY <1>5
    <3>4. LocatedIffOwed' /\ OnePlace'
      BY <1>5, <2>0, <3>1, <3>2, <3>3
    <3>5. /\ Len(queue') = Len(queue) + 1 /\ queue'[Len(queue) + 1] = inflight
          /\ \A i \in 1..Len(queue) : queue'[i] = queue[i] /\ queue[i] \in ToSet(queue)
      BY <3>1 DEF ToSet
    <3>6. NoRepeat'
      BY <3>3, <3>5
    <3> QED
      BY <2>0, <3>4, <3>6
  <2>3. CASE inflight # None /\ ~(Len(queue) < Cap)
    BY <1>5, <2>0, <2>3 DEF Requeue
  <2> QED
    BY <2>1, <2>2, <2>3
<1>6. CASE Busy
  BY <1>5, <1>6, <1>h DEF Busy
<1>7. CASE LateBusy
  BY <1>5, <1>7, EmptyToSet DEF LateBusy
<1>8. CASE WorkerGet
  <2>1. /\ ToSet(queue) = {Head(queue)} \cup ToSet(Tail(queue))
        /\ held' = Head(queue) /\ queue' = Tail(queue) /\ held = None
    BY <1>8, HeadTailToSet DEF WorkerGet
  <2>2. /\ Len(queue') = Len(queue) - 1 /\ Len(queue) \in Nat /\ Len(queue) > 0
        /\ queue[1] = Head(queue)
        /\ \A i \in 1..Len(queue') : queue'[i] = queue[i + 1]
        /\ DOMAIN queue' = 1..Len(queue')
    BY <1>8 DEF WorkerGet
  <2>3. Head(queue) \in Cmd => Head(queue) \notin ToSet(queue')
    BY <2>2 DEF ToSet
  <2>4. NoRepeat'
    BY <2>2
  <2>5. OneFrame' /\ LocatedIffOwed' /\ OnePlace'
    BY <1>8, <2>1, <2>3 DEF WorkerGet
  <2> QED
    BY <2>4, <2>5
<1>9. CASE WorkerSend
  <2>1. held \in Frame
    BY <1>9 DEF WorkerSend
  <2>2. /\ wire' # <<>> /\ Len(wire') = 1 /\ ToSet(wire') = {held}
        /\ inflight' = Head(wire') /\ ToSet(wire) = {}
    BY <1>9, <1>w, <2>1 DEF WorkerSend, WireFree
  <2> QED
    BY <1>9, <2>1, <2>2 DEF WorkerSend
<1>10. CASE Loss
  BY <1>10, EmptyToSet DEF Loss, Drain
<1>11. CASE Reopen
  <2>1. /\ wire' # <<>> /\ Len(wire') = 1 /\ ToSet(wire') = {Probe}
        /\ inflight' = Head(wire') /\ ToSet(wire) = {}
    BY <1>11, <1>w DEF Reopen, FirstWrite
  <2> QED
    BY <1>11, <2>1 DEF Reopen
<1>12. CASE ConnectDone
  BY <1>12 DEF ConnectDone, StartWorker
<1>13. CASE UNCHANGED vars
  BY <1>13 DEF vars
<1> QED
  BY <1>1, <1>2, <1>3, <1>4, <1>6, <1>7, <1>8, <1>9, <1>10, <1>11, <1>12, <1>13
  DEF Next, Answer

THEOREM HalfDuplexInductive ==
  ASSUME HalfDuplex PROVE Spec => []HInv
<1>1. HInv /\ [Next]_vars => HInv'
  BY HInvStep, HalfDuplex
<1> QED
  BY HInvInit, <1>1, PTL DEF Spec

(* While the stick answers each frame before the next one is written, a    *)
(* command the port took never just disappears ...                         *)
THEOREM NothingLostHalfDuplex ==
  ASSUME HalfDuplex PROVE Spec => []NothingLost
<1>1. HInv => NothingLost
  BY DEF HInv, LocatedIffOwed, NothingLost
<1> QED
  BY <1>1, HalfDuplexInductive, HalfDuplex, PTL

(* ... and one the stick has accepted is never sent again.                 *)
THEOREM AcceptedOnce ==
  ASSUME HalfDuplex PROVE Spec => []AcceptedStaysDone
<1>1. HInv => AcceptedStaysDone
  BY DEF HInv, LocatedIffOwed, AcceptedStaysDone
<1> QED
  BY <1>1, HalfDuplexInductive, HalfDuplex, PTL

-----------------------------------------------------------------------------
(* The refinement of CommandDelivery.  Each step of the queue is a step of *)
(* the delivery or, for the worker that takes a command into its hand and  *)
(* a "busy" with nothing to answer for, no step at all.                    *)

LEMMA ConsAppend ==
  ASSUME NEW S, NEW h \in S, NEW s \in Seq(S), NEW x \in S
  PROVE  <<h>> \o Append(s, x) = Append(<<h>> \o s, x)
<1>1. /\ <<h>> \o s \in Seq(S) /\ <<h>> \o Append(s, x) \in Seq(S)
      /\ Append(<<h>> \o s, x) \in Seq(S)
  OBVIOUS
<1>2. /\ Len(<<h>> \o Append(s, x)) = Len(s) + 2
      /\ Len(Append(<<h>> \o s, x)) = Len(s) + 2
  OBVIOUS
<1>3. ASSUME NEW i \in 1..(Len(s) + 2)
      PROVE  (<<h>> \o Append(s, x))[i] = Append(<<h>> \o s, x)[i]
  <2>1. CASE i = 1
    BY <2>1
  <2>2. CASE i > 1 /\ i < Len(s) + 2
    BY <2>2
  <2>3. CASE i = Len(s) + 2
    BY <2>3
  <2> QED
    BY <2>1, <2>2, <2>3
<1> QED
  BY <1>1, <1>2, <1>3

LEMMA ConsHeadTail ==
  ASSUME NEW S, NEW s \in Seq(S)
  PROVE  /\ \A h \in S : /\ <<h>> \o s # <<>> /\ Head(<<h>> \o s) = h
                         /\ Tail(<<h>> \o s) = s /\ Len(<<h>> \o s) = Len(s) + 1
         /\ s # <<>> => <<Head(s)>> \o Tail(s) = s
<1>1. ASSUME NEW h \in S
      PROVE  /\ <<h>> \o s # <<>> /\ Head(<<h>> \o s) = h
             /\ Tail(<<h>> \o s) = s /\ Len(<<h>> \o s) = Len(s) + 1
  OBVIOUS
<1>2. ASSUME s # <<>> PROVE <<Head(s)>> \o Tail(s) = s
  BY <1>2
<1> QED
  BY <1>1, <1>2

LEMMA OneOnAir ==
  ASSUME HInv
  PROVE  /\ \A f \in Frame : Append(<<>>, f) = <<f>>
         /\ wire # <<>> => wire = <<inflight>> /\ Tail(wire) = <<>> /\ inflight \in Frame
<1>1. \A f \in Frame : Append(<<>>, f) = <<f>>
  OBVIOUS
<1>2. ASSUME wire # <<>> PROVE wire = <<inflight>> /\ Tail(wire) = <<>> /\ inflight \in Frame
  <2>1. wire \in Seq(Frame) /\ Len(wire) <= 1 /\ inflight = Head(wire)
    BY <1>2 DEF HInv, QInv, TypeOK, OneFrame
  <2>2. /\ Len(wire) \in Nat /\ Len(wire) > 0 /\ Head(wire) \in Frame
        /\ Len(Tail(wire)) = Len(wire) - 1 /\ Tail(wire) \in Seq(Frame)
    BY <1>2, <2>1, HeadTailToSet
  <2>3. Len(wire) = 1 /\ Tail(wire) = <<>>
    BY <1>2, <2>1, <2>2, OneFrameToSet
  <2>4. wire[1] = Head(wire)
    BY <2>1, <2>3
  <2>5. wire = <<Head(wire)>>
    BY <2>1, <2>3, <2>4
  <2> QED
    BY <2>1, <2>2, <2>3, <2>5
<1> QED
  BY <1>1, <1>2

LEMMA BecomesExcept ==
  ASSUME TypeOK, NEW c \in Cmd, NEW what
  PROVE  [fate EXCEPT ![c] = what] = [d \in Cmd |-> IF d = c THEN what ELSE fate[d]]
  BY DEF TypeOK

LEMMA BecomesProbe ==
  ASSUME TypeOK, NEW what, UNCHANGED fate
  PROVE  Delivery!Becomes(Probe, what)
  BY CommandAssumption DEF TypeOK, Delivery!Becomes

(* What a tE does to the backlog when the slot holds f. *)
LEMMA RequeueBacklog ==
  ASSUME HInv, Requeue, UNCHANGED held, inflight # None
  PROVE  \/ Len(Backlog) <= Cap /\ Backlog' = Append(Backlog, inflight) /\ UNCHANGED fate
         \/ Len(Backlog) >= Cap /\ UNCHANGED Backlog /\ Delivery!Becomes(inflight, "overflowed")
<1>1. /\ inflight \in Frame /\ queue \in Seq(Frame) /\ held \in Frame \cup {None} /\ TypeOK
      /\ Len(queue) \in Nat /\ Cap \in Nat
  BY CommandAssumption DEF HInv, QInv, TypeOK
<1>2. Len(Backlog) = IF held = None THEN Len(queue) ELSE Len(queue) + 1
  BY <1>1, ConsHeadTail DEF Backlog
<1>3. CASE Len(queue) < Cap
  <2>1. queue' = Append(queue, inflight) /\ UNCHANGED fate
    BY <1>3 DEF Requeue
  <2>2. Backlog' = Append(Backlog, inflight)
    BY <1>1, <2>1, ConsAppend DEF Backlog
  <2> QED
    BY <1>1, <1>2, <1>3, <2>1, <2>2
<1>4. CASE ~(Len(queue) < Cap)
  <2>1. UNCHANGED queue /\ fate' = IF inflight \in Cmd THEN [fate EXCEPT ![inflight] = "overflowed"] ELSE fate
    BY <1>4 DEF Requeue
  <2>2. UNCHANGED Backlog
    BY <2>1 DEF Backlog
  <2>3. Delivery!Becomes(inflight, "overflowed")
    <3>1. CASE inflight \in Cmd
      BY <1>1, <2>1, <3>1, BecomesExcept DEF Delivery!Becomes
    <3>2. CASE inflight \notin Cmd
      BY <1>1, <2>1, <3>2, BecomesProbe DEF Frame
    <3> QED
      BY <3>1, <3>2
  <2> QED
    BY <1>1, <1>2, <1>4, <2>2, <2>3
<1> QED
  BY <1>3, <1>4

LEMMA DeliveryInit == Init => Delivery!Init
  BY DEF Init, Delivery!Init, Backlog

LEMMA DeliveryStep == HalfDuplex /\ HInv /\ [Next]_vars => [Delivery!Next]_(Delivery!vars)
<1> SUFFICES ASSUME HalfDuplex, HInv, [Next]_vars
             PROVE  Delivery!Next \/ UNCHANGED <<link, wire, Backlog, fate>>
  BY DEF Delivery!vars
<1>0. /\ TypeOK /\ held \in Frame \cup {None} /\ queue \in Seq(Frame) /\ Probe \in Frame
      /\ Delivery!Frame = Frame /\ Cmd \subseteq Frame
      /\ link = "down" => queue = <<>> /\ wire = <<>> /\ held = None
      /\ link # "up" => worker = "none"
      /\ worker = "delaying" <=> held # None
  BY DEF HInv, QInv, TypeOK, Silent, Held, Frame, Delivery!Frame
<1>a. /\ \A f \in Frame : Append(<<>>, f) = <<f>>
      /\ wire # <<>> => wire = <<inflight>> /\ Tail(wire) = <<>> /\ inflight \in Frame
  BY OneOnAir
<1>1. ASSUME NEW c \in Cmd, Ask(c) PROVE Delivery!Next
  <2>0. UNCHANGED Backlog
    BY <1>1 DEF Ask, Backlog
  <2>1. CASE link = "down"
    <3>1. Delivery!Refuse(c)
      BY <1>0, <1>1, <2>0, <2>1, BecomesExcept DEF Ask, Delivery!Refuse, Delivery!Becomes
    <3> QED
      BY <3>1 DEF Delivery!Next
  <2>2. CASE link # "down"
    <3>1. Delivery!Send(c)
      BY <1>0, <1>a, <1>1, <2>0, <2>2, BecomesExcept
      DEF Ask, WireFree, Write, Delivery!Send, Delivery!Becomes
    <3> QED
      BY <3>1 DEF Delivery!Next
  <2> QED
    BY <2>1, <2>2
<1>2. CASE SendProbe
  <2>1. Delivery!SendProbe
    BY <1>0, <1>a, <1>2 DEF SendProbe, WireFree, Write, Delivery!SendProbe, Backlog
  <2> QED
    BY <2>1 DEF Delivery!Next
<1>3. CASE Accept
  <2>1. wire = <<inflight>> /\ wire' = <<>> /\ inflight \in Cmd /\ UNCHANGED <<link, queue, held>>
        /\ fate' = [fate EXCEPT ![inflight] = "accepted"]
    <3>1. wire # <<>> /\ Head(wire) \in Cmd
      BY <1>3 DEF Accept
    <3>2. inflight = Head(wire)
      BY <3>1 DEF HInv, OneFrame
    <3> QED
      BY <1>a, <1>3, <3>1, <3>2 DEF Accept, ClearSlot
  <2>2. Delivery!Done(inflight)
    BY <1>0, <2>1, BecomesExcept DEF Delivery!Done, Delivery!Becomes, Backlog
  <2> QED
    BY <1>0, <2>1, <2>2 DEF Delivery!Next
<1>4. CASE ProbeAnswered
  <2>1. wire = <<Probe>> /\ wire' = <<>> /\ UNCHANGED <<link, queue, held, fate>>
    <3>1. wire # <<>> /\ Head(wire) = Probe
      BY <1>4 DEF ProbeAnswered
    <3>2. inflight = Head(wire)
      BY <3>1 DEF HInv, OneFrame
    <3> QED
      BY <1>a, <1>4, <3>1, <3>2 DEF ProbeAnswered
  <2>2. Delivery!Done(Probe)
    BY <1>0, <2>1, BecomesProbe DEF Delivery!Done, Backlog
  <2> QED
    BY <1>0, <2>2 DEF Delivery!Next
<1>5. CASE Busy
  <2>1. wire = <<inflight>> /\ wire' = <<>> /\ inflight \in Frame /\ UNCHANGED <<link, held>> /\ Requeue
    BY <1>a, <1>5 DEF Busy
  <2>2. inflight # None
    BY <2>1, CommandAssumption DEF Frame
  <2>3. Delivery!Busy(inflight)
    BY <2>1, <2>2, RequeueBacklog DEF Delivery!Busy
  <2> QED
    BY <1>0, <2>1, <2>3 DEF Delivery!Next
<1>6. CASE LateBusy
  <2>1. link # "down" /\ wire = <<>> /\ Requeue /\ UNCHANGED <<link, held, wire>>
    BY <1>6 DEF LateBusy
  <2>2. CASE inflight = None
    BY <2>1, <2>2 DEF Requeue, Backlog
  <2>3. CASE inflight # None
    <3>1. inflight = Probe
      BY <2>1, <2>3 DEF HInv, QInv, TypeOK, OneFrame, Frame
    <3>2. \/ Len(Backlog) <= Cap /\ Backlog' = Append(Backlog, Probe) /\ UNCHANGED fate
          \/ UNCHANGED Backlog /\ UNCHANGED fate
      <4>1. Len(queue) < Cap \/ UNCHANGED <<queue, fate>>
        BY <2>1, <3>1, CommandAssumption DEF Requeue
      <4>2. CASE UNCHANGED <<queue, fate>>
        BY <2>1, <4>2 DEF Backlog
      <4>3. CASE Len(queue) < Cap
        <5>1. Len(queue) < Cap => UNCHANGED fate
          BY <2>1, <2>3 DEF Requeue
        <5>2. \/ Len(Backlog) <= Cap /\ Backlog' = Append(Backlog, Probe)
              \/ UNCHANGED Backlog
          BY <2>1, <2>3, <3>1, RequeueBacklog
        <5> QED
          BY <4>3, <5>1, <5>2
      <4> QED
        BY <4>1, <4>2, <4>3
    <3>3. CASE Len(Backlog) <= Cap /\ Backlog' = Append(Backlog, Probe) /\ UNCHANGED fate
      <4>1. Delivery!Stray
        BY <2>1, <3>3 DEF Delivery!Stray
      <4> QED
        BY <4>1 DEF Delivery!Next
    <3> QED
      BY <2>1, <3>2, <3>3
  <2> QED
    BY <2>2, <2>3
<1>7. CASE WorkerGet
  <2>1. /\ held = None /\ queue # <<>> /\ held' = Head(queue) /\ queue' = Tail(queue)
        /\ UNCHANGED <<link, wire, fate>>
    BY <1>0, <1>7 DEF WorkerGet
  <2>2. Head(queue) \in Frame /\ <<Head(queue)>> \o Tail(queue) = queue
    BY <1>0, <2>1, ConsHeadTail, HeadTailToSet
  <2>3. held' # None
    BY <2>1, <2>2, CommandAssumption DEF Frame
  <2> QED
    BY <2>1, <2>2, <2>3 DEF Backlog
<1>8. CASE WorkerSend
  <2>1. /\ held \in Frame /\ held # None /\ link = "up" /\ wire = <<>>
        /\ wire' = <<held>> /\ held' = None /\ UNCHANGED <<link, queue, fate>>
    BY <1>0, <1>a, <1>8 DEF WorkerSend, WireFree, Write
  <2>2. /\ Backlog # <<>> /\ Head(Backlog) = held /\ Tail(Backlog) = queue /\ Backlog' = queue
    BY <1>0, <2>1, ConsHeadTail DEF Backlog
  <2>3. Delivery!Resend
    BY <2>1, <2>2 DEF Delivery!Resend
  <2> QED
    BY <2>3 DEF Delivery!Next
<1>9. CASE Loss
  <2>1. Delivery!Loss
    BY <1>9 DEF Loss, Drain, Delivery!Loss, Backlog
  <2> QED
    BY <2>1 DEF Delivery!Next
<1>10. CASE Reopen
  <2>1. Delivery!Reopen
    BY <1>0, <1>a, <1>10 DEF Reopen, FirstWrite, Write, Delivery!Reopen, Backlog
  <2> QED
    BY <2>1 DEF Delivery!Next
<1>11. CASE ConnectDone
  <2>1. Delivery!Up
    BY <1>11 DEF ConnectDone, Delivery!Up, Backlog
  <2> QED
    BY <2>1 DEF Delivery!Next
<1>12. CASE UNCHANGED vars
  BY <1>12 DEF vars, Backlog
<1> QED
  BY <1>1, <1>2, <1>3, <1>4, <1>5, <1>6, <1>7, <1>8, <1>9, <1>10, <1>11, <1>12 DEF Next, Answer

(* With a half-duplex stick the slot, the queue and its worker implement   *)
(* the plain backlog of CommandDelivery, whatever the cap and however many *)
(* commands: the frame a tE brings back is the one it answers.             *)
THEOREM ImplementsDelivery ==
  ASSUME HalfDuplex PROVE Spec => DeliverySpec
<1>1. HInv /\ [Next]_vars => [Delivery!Next]_(Delivery!vars)
  BY DeliveryStep, HalfDuplex
<1> QED
  BY DeliveryInit, <1>1, HalfDuplexInductive, HalfDuplex, PTL DEF Spec, DeliverySpec, Delivery!Spec

-----------------------------------------------------------------------------
(* Composition: of the connection the queue assumes only PortLink, which   *)
(* StickConnection provides (api.py:258-344, :1395).                       *)
THEOREM QueueAssumesPort == Spec => Serial!Spec
<1>1. Init => Serial!Init
  BY DEF Init, Serial!Init
<1>2. [Next]_vars => [Serial!Next]_link
  BY DEF Next, vars, Ask, SendProbe, Answer, Accept, ProbeAnswered, Busy, LateBusy,
     WorkerGet, WorkerSend, Loss, Reopen, ConnectDone,
     Serial!Next, Serial!Opens, Serial!Ready, Serial!Lost
<1> QED
  BY <1>1, <1>2, PTL DEF Spec, Serial!Spec
=============================================================================
