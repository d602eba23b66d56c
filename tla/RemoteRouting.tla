--------------------------- MODULE RemoteRouting ----------------------------
(***************************************************************************)
(* What _handle_message() does with the device frames ("ss...") of remotes *)
(* and motors: the gates in their order, the dedup of a burst by its       *)
(* rolling counter, the raw capture of a press and the two captures of the *)
(* bind dialog, while entities come and go (RemoteRegistry).               *)
(*                                                                         *)
(* A press is a burst of equal frames.  REMOTE_DEDUP_WINDOW is an action   *)
(* that ends it; without Hold a burst is over before its window is.        *)
(***************************************************************************)
EXTENDS RemoteRegistry, Sequences

CONSTANTS Sender,       \* what transmits: a channel selector and a device id
          DialogMotor,  \* the motor whose bind dialog is open
          MaxPress,     \* bound on the presses of a behaviour
          MaxFrame,     \* bound on the frames of one burst
          Hold          \* TRUE: a button may be held longer than the window

ASSUME RoutingAssumption ==
    /\ Sender \subseteq Channel \X Device
    /\ DialogMotor \in Timed
    /\ MaxPress \in Nat \ {0}
    /\ MaxFrame \in Nat \ {0} /\ Hold \in BOOLEAN

VARIABLES
    presses,    \* bursts so far: channel, id, command and counter of each
    air,        \* those still being received
    frames,     \* history: frames received of each on the air
    heard,      \* history: SIGNAL_REMOTE_EVENT dispatched for each of those
    dedup,      \* _dedup_cache
    pairing,    \* _pairing_future is pending
    capture,    \* _learn_remote_raw_future: "none", "pending" or "done"
    taken,      \* the press that resolved it, 0 for none
    lastKey,    \* _learn_remote_raw_last_key, None once out of its window
    dialog,     \* bind dialog: "idle", "first", "between",
                \* "second" or "matched"
    first       \* the press _first_capture was taken from, 0 for none

airVars    == <<presses, air, frames, heard>>
rawVars    == <<capture, taken, lastKey>>
dialogVars == <<dialog, first>>
vars == <<regVars, airVars, dedup, pairing, rawVars, dialogVars>>

Press == 1..MaxPress
Burst == [sender : Sender, cmd : {"move", "stop"}, counter : Press]
FrameKey == Sender \X Press

TypeOK ==
    /\ RegistryTypeOK
    /\ presses \in Seq(Burst) /\ Len(presses) <= MaxPress
    /\ air \subseteq 1..Len(presses)
    /\ frames \in [Press -> 0..MaxFrame] /\ heard \in [Press -> 0..MaxFrame]
    /\ dedup \subseteq FrameKey
    /\ pairing \in BOOLEAN
    /\ capture \in {"none", "pending", "done"}
    /\ lastKey \in FrameKey \cup {None}
    /\ dialog \in {"idle", "first", "between", "second", "matched"}
    /\ taken \in 0..MaxPress /\ first \in 0..MaxPress

Init ==
    /\ RegistryInit
    /\ presses = <<>> /\ air = {}
    /\ frames = [p \in Press |-> 0] /\ heard = [p \in Press |-> 0]
    /\ dedup = {} /\ pairing = FALSE
    /\ capture = "none" /\ taken = 0 /\ lastKey = None
    /\ dialog = "idle" /\ first = 0

-----------------------------------------------------------------------------
(* On the air *)

Chan(p) == presses[p].sender[1]
Id(p) == presses[p].sender[2]
KeyOf(p) == <<presses[p].sender, presses[p].counter>>

(* A button is pressed.  The counter is new, but for a stop that ends a    *)
(* move of the same remote (WR-12-02).  A device sends one burst at a time.*)
PressBegins(sender, cmd) ==
    /\ Len(presses) < MaxPress
    /\ \A p \in air : Id(p) # sender[2]
    /\ \E counter \in {Len(presses) + 1} \cup
           {presses[p].counter : p \in {q \in 1..Len(presses) :
                                           cmd = "stop" /\ presses[q].sender = sender}} :
           presses' = Append(presses, [sender |-> sender, cmd |-> cmd, counter |-> counter])
    /\ air' = air \cup {Len(presses) + 1}
    /\ UNCHANGED <<frames, heard, regVars, dedup, pairing, rawVars, dialogVars>>

BurstEnds(p) ==
    /\ p \in air /\ air' = air \ {p}
    /\ frames' = [frames EXCEPT ![p] = 0] /\ heard' = [heard EXCEPT ![p] = 0]
    /\ UNCHANGED <<presses, regVars, dedup, pairing, rawVars, dialogVars>>

(* REMOTE_DEDUP_WINDOW has passed since the first frame with this key. *)
WindowOver(key) == Hold \/ \A p \in air : KeyOf(p) # key

DedupReset(key) ==
    /\ key \in dedup /\ WindowOver(key) /\ dedup' = dedup \ {key}
    /\ UNCHANGED <<regVars, airVars, pairing, rawVars, dialogVars>>

LastKeyAges ==
    /\ lastKey # None /\ WindowOver(lastKey) /\ lastKey' = None
    /\ UNCHANGED <<regVars, airVars, dedup, pairing, capture, taken, dialogVars>>

-----------------------------------------------------------------------------
(* One frame through the gates *)

Received(p) ==
    /\ p \in air /\ frames[p] < MaxFrame
    /\ frames' = [frames EXCEPT ![p] = @ + 1]
    /\ UNCHANGED <<regVars, presses, air, dialogVars>>

(* Gate 1: an open pairing takes the first device it does not know. *)
Gate1(p) == pairing /\ registered[Id(p)] = None

(* Gate 1.5: a raw capture takes any press but the tail of its last one. *)
Gate15_TailCounts(p) ==
    IF capture = "pending"
    THEN capture' = "done" /\ taken' = p /\ lastKey' = KeyOf(p)
    ELSE UNCHANGED rawVars

Gate15(p) ==
    IF capture = "pending" /\ lastKey # KeyOf(p)
    THEN capture' = "done" /\ taken' = p /\ lastKey' = KeyOf(p)
    ELSE UNCHANGED rawVars

(* Gate 2: a repeat of a bound remote's burst, but never a stop. *)
Gate2_StopsToo(p) == KeyOf(p) \in dedup
Gate2(p) == presses[p].cmd # "stop" /\ KeyOf(p) \in dedup

Remember_Never(p) == UNCHANGED dedup
Remember_IdOnly(p) ==
    dedup' = IF presses[p].cmd = "stop" THEN dedup
             ELSE dedup \cup {<<Id(p), presses[p].counter>>}
Remember(p) ==
    dedup' = IF presses[p].cmd = "stop" THEN dedup ELSE dedup \cup {KeyOf(p)}

MotorOf(p) == IF Id(p) \in Remote THEN BoundMotorFor(Chan(p), Id(p)) ELSE None

FramePairs(p) ==
    /\ Received(p) /\ Gate1(p)
    /\ pairing' = FALSE
    /\ UNCHANGED <<heard, dedup, rawVars>>

FrameSuppressed(p) ==
    /\ Received(p) /\ ~Gate1(p) /\ Gate15(p)
    /\ MotorOf(p) # None /\ Gate2(p)
    /\ UNCHANGED <<heard, dedup, pairing>>

(* Gate 3: dispatched to the motor's entities. *)
FrameRouted(p) ==
    /\ Received(p) /\ ~Gate1(p) /\ Gate15(p)
    /\ MotorOf(p) # None /\ ~Gate2(p)
    /\ Remember(p)
    /\ heard' = [heard EXCEPT ![p] = @ + 1]
    /\ UNCHANGED pairing

(* The final dispatch: an event of the sender itself. *)
FrameForwarded(p) ==
    /\ Received(p) /\ ~Gate1(p) /\ Gate15(p)
    /\ MotorOf(p) = None
    /\ UNCHANGED <<heard, dedup, pairing>>

Frame(p) == \/ FramePairs(p) \/ FrameSuppressed(p)
            \/ FrameRouted(p) \/ FrameForwarded(p)

-----------------------------------------------------------------------------
(* The pairing dialog opens its window; it may end without a result. *)
OpenPairing ==
    /\ ~pairing /\ pairing' = TRUE
    /\ UNCHANGED <<regVars, airVars, dedup, rawVars, dialogVars>>

ClosePairing ==
    /\ pairing /\ pairing' = FALSE
    /\ UNCHANGED <<regVars, airVars, dedup, rawVars, dialogVars>>

(* The bind dialog: listen_first, listen_second.  learn_remote_raw_and_    *)
(* wait() opens a new future and clears it when it returns.                *)
Elsewhere == UNCHANGED <<regVars, airVars, dedup, pairing, lastKey>>

OpenFirst ==
    /\ dialog \in {"idle", "matched"}
    /\ dialog' = "first" /\ capture' = "pending" /\ first' = 0
    /\ UNCHANGED taken /\ Elsewhere

CaptureFails ==
    /\ capture = "pending"
    /\ capture' = "none" /\ dialog' = "idle"
    /\ UNCHANGED <<taken, first>> /\ Elsewhere

(* Not an enrolled motor (Case A), not another motor's channel (Case B).   *)
Acceptable(sender) ==
    /\ ~IsRegisteredMotor(sender[2])
    /\ sender \in Key => route[sender] \in {None, DialogMotor}

FirstTaken ==
    /\ dialog = "first" /\ capture = "done"
    /\ capture' = "none" /\ taken' = 0
    /\ IF Acceptable(presses[taken].sender)
       THEN dialog' = "between" /\ first' = taken
       ELSE dialog' = "idle" /\ UNCHANGED first
    /\ Elsewhere

OpenSecond ==
    /\ dialog = "between" /\ dialog' = "second"
    /\ capture' = "pending"
    /\ UNCHANGED <<taken, first>> /\ Elsewhere

SecondTaken ==
    /\ dialog = "second" /\ capture = "done"
    /\ capture' = "none" /\ taken' = 0
    /\ IF presses[taken].sender = presses[first].sender
       THEN dialog' = "matched" /\ UNCHANGED first
       ELSE dialog' = "idle" /\ first' = 0
    /\ Elsewhere

-----------------------------------------------------------------------------
Entities ==
    RegistryNext /\ UNCHANGED <<airVars, dedup, pairing, rawVars, dialogVars>>

Next ==
    \/ Entities
    \/ \E sender \in Sender, cmd \in {"move", "stop"} : PressBegins(sender, cmd)
    \/ \E p \in Press : Frame(p) \/ BurstEnds(p)
    \/ \E key \in dedup : DedupReset(key)
    \/ LastKeyAges
    \/ OpenPairing \/ ClosePairing
    \/ OpenFirst \/ CaptureFails \/ FirstTaken \/ OpenSecond \/ SecondTaken

Spec == Init /\ [][Next]_vars

-----------------------------------------------------------------------------
Counted(p) == frames'[p] = frames[p] + 1

(* RMT-06: one press of a bound remote moves its cover and fires its event *)
(* once, however many frames of the burst arrive and whatever entities     *)
(* come and go meanwhile.                                                  *)
HeardOnce ==
    \A p \in 1..Len(presses) : ~Hold /\ presses[p].cmd = "move" => heard[p] <= 1

(* The dedup never swallows a press: its first frame is dispatched, and a  *)
(* stop is at every frame, even in the wake of a move with its counter.    *)
PressHeard ==
    [][\A p \in air :
         Counted(p) /\ MotorOf(p) # None /\ (frames[p] = 0 \/ presses[p].cmd = "stop")
           => heard'[p] = heard[p] + 1]_vars

(* Gate 1 never takes a remote in use for the motor an open pairing waits  *)
(* for (api.py:511).  This is the "ss" branch alone: an "sl" frame answers *)
(* a pairing whatever device it names (api.py:439-466).                    *)
PairingTakesStranger ==
    [][pairing /\ ~pairing'
         => \A p \in air, k \in Key : Counted(p) /\ k[2] = Id(p) => Holders(k) = {}]_vars

(* D-06: the press that confirms a capture is another press than the first.*)
SecondPress ==
    [][~Hold /\ dialog = "second" /\ dialog' = "matched" => taken # first]_vars
=============================================================================
