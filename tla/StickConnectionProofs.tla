----------------------- MODULE StickConnectionProofs -----------------------
(***************************************************************************)
(* Proofs about StickConnection for every number of connect() coroutines,  *)
(* every miss threshold and every cap.                                     *)
(***************************************************************************)
EXTENDS StickConnection, TLAPS

(* The coroutine that may act, and the rest of the state at each point.    *)
(*   - a connect() that is created or in flight is the only one, and no    *)
(*     timer and no worker lives beside it;                                *)
(*   - before it opens the port there is no transport, no queued           *)
(*     connection_lost and no future: this is what keeps an older          *)
(*     connection_lost away from the new transport;                        *)
(*   - a future exists only while its waiter does;                         *)
(*   - a "result" is only ever found over a transport, until teardown.     *)
Alone ==
    \A t \in Task : pc[t] # "free" =>
        /\ timers = 0 /\ heart = "none"
        /\ \A u \in Task \ {t} : pc[u] = "free"

Fresh ==
    \A t \in Task : pc[t] \in {"created", "opening"} =>
        transport = "none" /\ losses = 0

Flag == connecting <=> \E t \in Task : pc[t] \in InFlight

Waiters ==
    /\ vfut # "none" => heart = "probing" \/ \E t \in Task : pc[t] = "verifying"
    /\ dfut # "none" => \E t \in Task : pc[t] = "asking"

Losses ==
    /\ losses <= 1
    /\ losses = 1 => transport # "open"
    /\ transport = "closing" => losses = 1

Timer ==
    /\ timers = IF handle THEN 1 ELSE 0
    /\ timers > 0 => transport = "none" /\ ~connected /\ heart = "none"
    /\ closed => timers = 0

Port == ~closed /\ (connected \/ vfut = "result") => transport # "none"

(* The Boolean half of TypeOK and the other, which the provers want apart. *)
Flags ==
    /\ closed \in BOOLEAN /\ connecting \in BOOLEAN /\ connected \in BOOLEAN
    /\ handle \in BOOLEAN /\ listening \in BOOLEAN
    /\ heard \in BOOLEAN /\ said \in BOOLEAN /\ frozen \in BOOLEAN

Values ==
    /\ transport \in {"none", "open", "closing"}
    /\ losses \in Nat /\ timers \in Nat /\ orphans \in Nat
    /\ attempts \in 0..AttemptCap
    /\ pc \in [Task -> InFlight \cup {"free", "created"}]
    /\ vfut \in Future /\ dfut \in Future
    /\ heart \in {"none", "asleep", "probing"}
    /\ miss \in 0..MissThreshold
    /\ sends \in 0..MaxSends

LEMMA TypeOKParts == TypeOK <=> Flags /\ Values
  BY DEF TypeOK, Flags, Values

IInv ==
    /\ Flags /\ Values
    /\ Alone /\ Fresh /\ Flag /\ Waiters /\ Losses /\ Timer /\ Port
    /\ orphans = 0

-----------------------------------------------------------------------------
LEMMA IInvInit == Init => IInv
<1> SUFFICES ASSUME Init PROVE IInv
  OBVIOUS
<1> USE TaskAssumption, BoundAssumption DEF Init
<1>1. Flags
  BY DEF Flags
<1>2. Values
  BY DEF Values, InFlight, Future
<1>3. Alone /\ Fresh
  BY DEF Alone, Fresh
<1>4. Flag
  BY DEF Flag, InFlight
<1>5. Waiters /\ Losses /\ Timer /\ Port
  BY DEF Waiters, Losses, Timer, Port
<1> QED
  BY <1>1, <1>2, <1>3, <1>4, <1>5 DEF IInv

LEMMA IInvStep == IInv /\ [Next]_vars => IInv'
<1> SUFFICES ASSUME IInv, [Next]_vars PROVE IInv'
  OBVIOUS
<1> USE BoundAssumption
    DEF IInv, Flags, Values, Alone, Fresh, Flag, Waiters, Losses, Timer, Port,
        InFlight, Future, linkVars, timerVars, taskVars, heartVars, envVars
<1>1. ASSUME NEW t \in Task, ConnectBegin(t) PROVE IInv'
  <2>0. Flags'
    BY <1>1 DEF ConnectBegin, ConnectGuard
  <2>1. Values'
    BY <1>1 DEF ConnectBegin, ConnectGuard
  <2>2. Alone'
    BY <1>1 DEF ConnectBegin, ConnectGuard
  <2>3. Fresh'
    BY <1>1 DEF ConnectBegin, ConnectGuard
  <2>4. Flag'
    BY <1>1 DEF ConnectBegin, ConnectGuard
  <2>5. Waiters'
    BY <1>1 DEF ConnectBegin, ConnectGuard
  <2>6. Losses'
    BY <1>1 DEF ConnectBegin, ConnectGuard
  <2>7. Timer'
    BY <1>1 DEF ConnectBegin, ConnectGuard
  <2>8. Port'
    BY <1>1 DEF ConnectBegin, ConnectGuard
  <2>9. orphans' = 0
    BY <1>1 DEF ConnectBegin, ConnectGuard
  <2> QED
    BY <2>0, <2>1, <2>2, <2>3, <2>4, <2>5, <2>6, <2>7, <2>8, <2>9
<1>2. ASSUME NEW t \in Task, OpenFails(t) PROVE IInv'
  <2>0. Flags'
    BY <1>2 DEF OpenFails, ScheduleReconnect, Return
  <2>1. Values'
    BY <1>2 DEF OpenFails, ScheduleReconnect, Return
  <2>2. Alone'
    BY <1>2 DEF OpenFails, ScheduleReconnect, Return
  <2>3. Fresh'
    BY <1>2 DEF OpenFails, ScheduleReconnect, Return
  <2>4. Flag'
    BY <1>2 DEF OpenFails, ScheduleReconnect, Return
  <2>5. Waiters'
    BY <1>2 DEF OpenFails, ScheduleReconnect, Return
  <2>6. Losses'
    BY <1>2 DEF OpenFails, ScheduleReconnect, Return
  <2>7. Timer'
    BY <1>2 DEF OpenFails, ScheduleReconnect, Return
  <2>8. Port'
    BY <1>2 DEF OpenFails, ScheduleReconnect, Return
  <2>9. orphans' = 0
    BY <1>2 DEF OpenFails, ScheduleReconnect, Return
  <2> QED
    BY <2>0, <2>1, <2>2, <2>3, <2>4, <2>5, <2>6, <2>7, <2>8, <2>9
<1>3. ASSUME NEW t \in Task, OpenSucceeds(t) PROVE IInv'
  <2>0. Flags'
    BY <1>3 DEF OpenSucceeds
  <2>1. Values'
    BY <1>3 DEF OpenSucceeds
  <2>2. Alone'
    BY <1>3 DEF OpenSucceeds
  <2>3. Fresh'
    BY <1>3 DEF OpenSucceeds
  <2>4. Flag'
    BY <1>3 DEF OpenSucceeds
  <2>5. Waiters'
    BY <1>3 DEF OpenSucceeds
  <2>6. Losses'
    BY <1>3 DEF OpenSucceeds
  <2>7. Timer'
    BY <1>3 DEF OpenSucceeds
  <2>8. Port'
    BY <1>3 DEF OpenSucceeds
  <2>9. orphans' = 0
    BY <1>3 DEF OpenSucceeds
  <2> QED
    BY <2>0, <2>1, <2>2, <2>3, <2>4, <2>5, <2>6, <2>7, <2>8, <2>9
<1>4. ASSUME NEW t \in Task, VerifyFails(t) PROVE IInv'
  <2>0. Flags'
    BY <1>4 DEF VerifyFails, CloseTransport, Return
  <2>1. Values'
    BY <1>4 DEF VerifyFails, CloseTransport, Return
  <2>2. Alone'
    BY <1>4 DEF VerifyFails, CloseTransport, Return
  <2>3. Fresh'
    BY <1>4 DEF VerifyFails, CloseTransport, Return
  <2>4. Flag'
    BY <1>4 DEF VerifyFails, CloseTransport, Return
  <2>5. Waiters'
    BY <1>4 DEF VerifyFails, CloseTransport, Return
  <2>6. Losses'
    BY <1>4 DEF VerifyFails, CloseTransport, Return
  <2>7. Timer'
    BY <1>4 DEF VerifyFails, CloseTransport, Return
  <2>8. Port'
    BY <1>4 DEF VerifyFails, CloseTransport, Return
  <2>9. orphans' = 0
    BY <1>4 DEF VerifyFails, CloseTransport, Return
  <2> QED
    BY <2>0, <2>1, <2>2, <2>3, <2>4, <2>5, <2>6, <2>7, <2>8, <2>9
<1>5. ASSUME NEW t \in Task, VerifyPasses(t) PROVE IInv'
  <2>0. Flags'
    BY <1>5 DEF VerifyPasses, StampSend, AskDeviceId
  <2>1. Values'
    BY <1>5 DEF VerifyPasses, StampSend, AskDeviceId
  <2>2. Alone'
    BY <1>5 DEF VerifyPasses, StampSend, AskDeviceId
  <2>3. Fresh'
    BY <1>5 DEF VerifyPasses, StampSend, AskDeviceId
  <2>4. Flag'
    BY <1>5 DEF VerifyPasses, StampSend, AskDeviceId
  <2>5. Waiters'
    BY <1>5 DEF VerifyPasses, StampSend, AskDeviceId
  <2>6. Losses'
    BY <1>5 DEF VerifyPasses, StampSend, AskDeviceId
  <2>7. Timer'
    BY <1>5 DEF VerifyPasses, StampSend, AskDeviceId
  <2>8. Port'
    BY <1>5 DEF VerifyPasses, StampSend, AskDeviceId
  <2>9. orphans' = 0
    BY <1>5 DEF VerifyPasses, StampSend, AskDeviceId
  <2> QED
    BY <2>0, <2>1, <2>2, <2>3, <2>4, <2>5, <2>6, <2>7, <2>8, <2>9
<1>6. ASSUME NEW t \in Task, Settled(t) PROVE IInv'
  <2>0. Flags'
    BY <1>6 DEF Settled, StampSend, AskDeviceId
  <2>1. Values'
    BY <1>6 DEF Settled, StampSend, AskDeviceId
  <2>2. Alone'
    BY <1>6 DEF Settled, StampSend, AskDeviceId
  <2>3. Fresh'
    BY <1>6 DEF Settled, StampSend, AskDeviceId
  <2>4. Flag'
    BY <1>6 DEF Settled, StampSend, AskDeviceId
  <2>5. Waiters'
    BY <1>6 DEF Settled, StampSend, AskDeviceId
  <2>6. Losses'
    BY <1>6 DEF Settled, StampSend, AskDeviceId
  <2>7. Timer'
    BY <1>6 DEF Settled, StampSend, AskDeviceId
  <2>8. Port'
    BY <1>6 DEF Settled, StampSend, AskDeviceId
  <2>9. orphans' = 0
    BY <1>6 DEF Settled, StampSend, AskDeviceId
  <2> QED
    BY <2>0, <2>1, <2>2, <2>3, <2>4, <2>5, <2>6, <2>7, <2>8, <2>9
<1>7. ASSUME NEW t \in Task, ConnectDone(t) PROVE IInv'
  <2>0. Flags'
    BY <1>7 DEF ConnectDone, Return
  <2>1. Values'
    BY <1>7 DEF ConnectDone, Return
  <2>2. Alone'
    BY <1>7 DEF ConnectDone, Return
  <2>3. Fresh'
    BY <1>7 DEF ConnectDone, Return
  <2>4. Flag'
    BY <1>7 DEF ConnectDone, Return
  <2>5. Waiters'
    BY <1>7 DEF ConnectDone, Return
  <2>6. Losses'
    BY <1>7 DEF ConnectDone, Return
  <2>7. Timer'
    BY <1>7 DEF ConnectDone, Return
  <2>8. Port'
    BY <1>7 DEF ConnectDone, Return
  <2>9. orphans' = 0
    BY <1>7 DEF ConnectDone, Return
  <2> QED
    BY <2>0, <2>1, <2>2, <2>3, <2>4, <2>5, <2>6, <2>7, <2>8, <2>9
<1>8. CASE Unplug
  BY <1>8 DEF Unplug
<1>9. CASE ConnectionLost
  <2>0. Flags'
    BY <1>9 DEF ConnectionLost, LinkDown, Fail, ScheduleReconnect, TimersAfterCancel
  <2>1. Values'
    BY <1>9 DEF ConnectionLost, LinkDown, Fail, ScheduleReconnect, TimersAfterCancel
  <2>2. Alone'
    BY <1>9 DEF ConnectionLost, LinkDown, Fail, ScheduleReconnect, TimersAfterCancel
  <2>3. Fresh'
    BY <1>9 DEF ConnectionLost, LinkDown, Fail, ScheduleReconnect, TimersAfterCancel
  <2>4. Flag'
    BY <1>9 DEF ConnectionLost, LinkDown, Fail, ScheduleReconnect, TimersAfterCancel
  <2>5. Waiters'
    BY <1>9 DEF ConnectionLost, LinkDown, Fail, ScheduleReconnect, TimersAfterCancel
  <2>6. Losses'
    BY <1>9 DEF ConnectionLost, LinkDown, Fail, ScheduleReconnect, TimersAfterCancel
  <2>7. Timer'
    BY <1>9 DEF ConnectionLost, LinkDown, Fail, ScheduleReconnect, TimersAfterCancel
  <2>8. Port'
    BY <1>9 DEF ConnectionLost, LinkDown, Fail, ScheduleReconnect, TimersAfterCancel
  <2>9. orphans' = 0
    BY <1>9 DEF ConnectionLost, LinkDown, Fail, ScheduleReconnect, TimersAfterCancel
  <2> QED
    BY <2>0, <2>1, <2>2, <2>3, <2>4, <2>5, <2>6, <2>7, <2>8, <2>9
<1>10. CASE ReconnectFire
  <2>0. Flags'
    BY <1>10 DEF ReconnectFire, ReconnectDue
  <2>1. Values'
    BY <1>10 DEF ReconnectFire, ReconnectDue
  <2>2. Alone'
    BY <1>10 DEF ReconnectFire, ReconnectDue
  <2>3. Fresh'
    BY <1>10 DEF ReconnectFire, ReconnectDue
  <2>4. Flag'
    BY <1>10 DEF ReconnectFire, ReconnectDue
  <2>5. Waiters'
    BY <1>10 DEF ReconnectFire, ReconnectDue
  <2>6. Losses'
    BY <1>10 DEF ReconnectFire, ReconnectDue
  <2>7. Timer'
    BY <1>10 DEF ReconnectFire, ReconnectDue
  <2>8. Port'
    BY <1>10 DEF ReconnectFire, ReconnectDue
  <2>9. orphans' = 0
    BY <1>10 DEF ReconnectFire, ReconnectDue
  <2> QED
    BY <2>0, <2>1, <2>2, <2>3, <2>4, <2>5, <2>6, <2>7, <2>8, <2>9
<1>11. CASE Disconnect
  <2>0. Flags'
    BY <1>11 DEF Disconnect, LinkDown, Fail, CloseTransport, TimersAfterCancel
  <2>1. Values'
    BY <1>11 DEF Disconnect, LinkDown, Fail, CloseTransport, TimersAfterCancel
  <2>2. Alone'
    BY <1>11 DEF Disconnect, LinkDown, Fail, CloseTransport, TimersAfterCancel
  <2>3. Fresh'
    BY <1>11 DEF Disconnect, LinkDown, Fail, CloseTransport, TimersAfterCancel
  <2>4. Flag'
    BY <1>11 DEF Disconnect, LinkDown, Fail, CloseTransport, TimersAfterCancel
  <2>5. Waiters'
    BY <1>11 DEF Disconnect, LinkDown, Fail, CloseTransport, TimersAfterCancel
  <2>6. Losses'
    BY <1>11 DEF Disconnect, LinkDown, Fail, CloseTransport, TimersAfterCancel
  <2>7. Timer'
    BY <1>11 DEF Disconnect, LinkDown, Fail, CloseTransport, TimersAfterCancel
  <2>8. Port'
    BY <1>11 DEF Disconnect, LinkDown, Fail, CloseTransport, TimersAfterCancel
  <2>9. orphans' = 0
    BY <1>11 DEF Disconnect, LinkDown, Fail, CloseTransport, TimersAfterCancel
  <2> QED
    BY <2>0, <2>1, <2>2, <2>3, <2>4, <2>5, <2>6, <2>7, <2>8, <2>9
<1>12. CASE VerifyFrame
  <2>0. Flags'
    BY <1>12 DEF VerifyFrame, Inbound
  <2>1. Values'
    BY <1>12 DEF VerifyFrame, Inbound
  <2>2. Alone'
    BY <1>12 DEF VerifyFrame, Inbound
  <2>3. Fresh'
    BY <1>12 DEF VerifyFrame, Inbound
  <2>4. Flag'
    BY <1>12 DEF VerifyFrame, Inbound
  <2>5. Waiters'
    BY <1>12 DEF VerifyFrame, Inbound
  <2>6. Losses'
    BY <1>12 DEF VerifyFrame, Inbound
  <2>7. Timer'
    BY <1>12 DEF VerifyFrame, Inbound
  <2>8. Port'
    BY <1>12 DEF VerifyFrame, Inbound
  <2>9. orphans' = 0
    BY <1>12 DEF VerifyFrame, Inbound
  <2> QED
    BY <2>0, <2>1, <2>2, <2>3, <2>4, <2>5, <2>6, <2>7, <2>8, <2>9
<1>13. CASE DeviceIdFrame
  <2>0. Flags'
    BY <1>13 DEF DeviceIdFrame, Inbound
  <2>1. Values'
    BY <1>13 DEF DeviceIdFrame, Inbound
  <2>2. Alone'
    BY <1>13 DEF DeviceIdFrame, Inbound
  <2>3. Fresh'
    BY <1>13 DEF DeviceIdFrame, Inbound
  <2>4. Flag'
    BY <1>13 DEF DeviceIdFrame, Inbound
  <2>5. Waiters'
    BY <1>13 DEF DeviceIdFrame, Inbound
  <2>6. Losses'
    BY <1>13 DEF DeviceIdFrame, Inbound
  <2>7. Timer'
    BY <1>13 DEF DeviceIdFrame, Inbound
  <2>8. Port'
    BY <1>13 DEF DeviceIdFrame, Inbound
  <2>9. orphans' = 0
    BY <1>13 DEF DeviceIdFrame, Inbound
  <2> QED
    BY <2>0, <2>1, <2>2, <2>3, <2>4, <2>5, <2>6, <2>7, <2>8, <2>9
<1>14. CASE OtherFrame
  <2>0. Flags'
    BY <1>14 DEF OtherFrame, Inbound
  <2>1. Values'
    BY <1>14 DEF OtherFrame, Inbound
  <2>2. Alone'
    BY <1>14 DEF OtherFrame, Inbound
  <2>3. Fresh'
    BY <1>14 DEF OtherFrame, Inbound
  <2>4. Flag'
    BY <1>14 DEF OtherFrame, Inbound
  <2>5. Waiters'
    BY <1>14 DEF OtherFrame, Inbound
  <2>6. Losses'
    BY <1>14 DEF OtherFrame, Inbound
  <2>7. Timer'
    BY <1>14 DEF OtherFrame, Inbound
  <2>8. Port'
    BY <1>14 DEF OtherFrame, Inbound
  <2>9. orphans' = 0
    BY <1>14 DEF OtherFrame, Inbound
  <2> QED
    BY <2>0, <2>1, <2>2, <2>3, <2>4, <2>5, <2>6, <2>7, <2>8, <2>9
<1>15. CASE EntitySend
  <2>0. Flags'
    BY <1>15 DEF EntitySend, StampSend
  <2>1. Values'
    BY <1>15 DEF EntitySend, StampSend
  <2>2. Alone'
    BY <1>15 DEF EntitySend, StampSend
  <2>3. Fresh'
    BY <1>15 DEF EntitySend, StampSend
  <2>4. Flag'
    BY <1>15 DEF EntitySend, StampSend
  <2>5. Waiters'
    BY <1>15 DEF EntitySend, StampSend
  <2>6. Losses'
    BY <1>15 DEF EntitySend, StampSend
  <2>7. Timer'
    BY <1>15 DEF EntitySend, StampSend
  <2>8. Port'
    BY <1>15 DEF EntitySend, StampSend
  <2>9. orphans' = 0
    BY <1>15 DEF EntitySend, StampSend
  <2> QED
    BY <2>0, <2>1, <2>2, <2>3, <2>4, <2>5, <2>6, <2>7, <2>8, <2>9
<1>16. CASE HeartSkips
  <2>0. Flags'
    BY <1>16 DEF HeartSkips, HeartAwake
  <2>1. Values'
    BY <1>16 DEF HeartSkips, HeartAwake
  <2>2. Alone'
    BY <1>16 DEF HeartSkips, HeartAwake
  <2>3. Fresh'
    BY <1>16 DEF HeartSkips, HeartAwake
  <2>4. Flag'
    BY <1>16 DEF HeartSkips, HeartAwake
  <2>5. Waiters'
    BY <1>16 DEF HeartSkips, HeartAwake
  <2>6. Losses'
    BY <1>16 DEF HeartSkips, HeartAwake
  <2>7. Timer'
    BY <1>16 DEF HeartSkips, HeartAwake
  <2>8. Port'
    BY <1>16 DEF HeartSkips, HeartAwake
  <2>9. orphans' = 0
    BY <1>16 DEF HeartSkips, HeartAwake
  <2> QED
    BY <2>0, <2>1, <2>2, <2>3, <2>4, <2>5, <2>6, <2>7, <2>8, <2>9
<1>17. CASE HeartProbes
  <2>0. Flags'
    BY <1>17 DEF HeartProbes, HeartAwake
  <2>1. Values'
    BY <1>17 DEF HeartProbes, HeartAwake
  <2>2. Alone'
    BY <1>17 DEF HeartProbes, HeartAwake
  <2>3. Fresh'
    BY <1>17 DEF HeartProbes, HeartAwake
  <2>4. Flag'
    BY <1>17 DEF HeartProbes, HeartAwake
  <2>5. Waiters'
    BY <1>17 DEF HeartProbes, HeartAwake
  <2>6. Losses'
    BY <1>17 DEF HeartProbes, HeartAwake
  <2>7. Timer'
    BY <1>17 DEF HeartProbes, HeartAwake
  <2>8. Port'
    BY <1>17 DEF HeartProbes, HeartAwake
  <2>9. orphans' = 0
    BY <1>17 DEF HeartProbes, HeartAwake
  <2> QED
    BY <2>0, <2>1, <2>2, <2>3, <2>4, <2>5, <2>6, <2>7, <2>8, <2>9
<1>18. CASE HeartAnswered
  <2>0. Flags'
    BY <1>18 DEF HeartAnswered
  <2>1. Values'
    BY <1>18 DEF HeartAnswered
  <2>2. Alone'
    BY <1>18 DEF HeartAnswered
  <2>3. Fresh'
    BY <1>18 DEF HeartAnswered
  <2>4. Flag'
    BY <1>18 DEF HeartAnswered
  <2>5. Waiters'
    BY <1>18 DEF HeartAnswered
  <2>6. Losses'
    BY <1>18 DEF HeartAnswered
  <2>7. Timer'
    BY <1>18 DEF HeartAnswered
  <2>8. Port'
    BY <1>18 DEF HeartAnswered
  <2>9. orphans' = 0
    BY <1>18 DEF HeartAnswered
  <2> QED
    BY <2>0, <2>1, <2>2, <2>3, <2>4, <2>5, <2>6, <2>7, <2>8, <2>9
<1>19. CASE HeartMisses
  <2>0. Flags'
    BY <1>19 DEF HeartMisses
  <2>1. Values'
    BY <1>19 DEF HeartMisses
  <2>2. Alone'
    BY <1>19 DEF HeartMisses
  <2>3. Fresh'
    BY <1>19 DEF HeartMisses
  <2>4. Flag'
    BY <1>19 DEF HeartMisses
  <2>5. Waiters'
    BY <1>19 DEF HeartMisses
  <2>6. Losses'
    BY <1>19 DEF HeartMisses
  <2>7. Timer'
    BY <1>19 DEF HeartMisses
  <2>8. Port'
    BY <1>19 DEF HeartMisses
  <2>9. orphans' = 0
    BY <1>19 DEF HeartMisses
  <2> QED
    BY <2>0, <2>1, <2>2, <2>3, <2>4, <2>5, <2>6, <2>7, <2>8, <2>9
<1>20. CASE HeartFrozen
  <2>0. Flags'
    BY <1>20 DEF HeartFrozen, LinkDown, Fail, CloseTransport, ScheduleReconnect, TimersAfterCancel
  <2>1. Values'
    BY <1>20 DEF HeartFrozen, LinkDown, Fail, CloseTransport, ScheduleReconnect, TimersAfterCancel
  <2>2. Alone'
    BY <1>20 DEF HeartFrozen, LinkDown, Fail, CloseTransport, ScheduleReconnect, TimersAfterCancel
  <2>3. Fresh'
    BY <1>20 DEF HeartFrozen, LinkDown, Fail, CloseTransport, ScheduleReconnect, TimersAfterCancel
  <2>4. Flag'
    BY <1>20 DEF HeartFrozen, LinkDown, Fail, CloseTransport, ScheduleReconnect, TimersAfterCancel
  <2>5. Waiters'
    BY <1>20 DEF HeartFrozen, LinkDown, Fail, CloseTransport, ScheduleReconnect, TimersAfterCancel
  <2>6. Losses'
    BY <1>20 DEF HeartFrozen, LinkDown, Fail, CloseTransport, ScheduleReconnect, TimersAfterCancel
  <2>7. Timer'
    BY <1>20 DEF HeartFrozen, LinkDown, Fail, CloseTransport, ScheduleReconnect, TimersAfterCancel
  <2>8. Port'
    BY <1>20 DEF HeartFrozen, LinkDown, Fail, CloseTransport, ScheduleReconnect, TimersAfterCancel
  <2>9. orphans' = 0
    BY <1>20 DEF HeartFrozen, LinkDown, Fail, CloseTransport, ScheduleReconnect, TimersAfterCancel
  <2> QED
    BY <2>0, <2>1, <2>2, <2>3, <2>4, <2>5, <2>6, <2>7, <2>8, <2>9
<1>21. CASE Freeze
  <2>1. Flags'
    BY <1>21 DEF Freeze
  <2>2. UNCHANGED <<linkVars, timerVars, taskVars, heartVars, sends>>
    BY <1>21 DEF Freeze
  <2> QED
    BY <2>1, <2>2
<1>22. CASE Thaw
  <2>1. Flags'
    BY <1>22 DEF Thaw
  <2>2. UNCHANGED <<linkVars, timerVars, taskVars, heartVars, sends>>
    BY <1>22 DEF Thaw
  <2> QED
    BY <2>1, <2>2
<1>23. CASE WindowPasses
  <2>1. Flags'
    BY <1>23 DEF WindowPasses
  <2>2. UNCHANGED <<linkVars, timerVars, taskVars, heartVars, sends>>
    BY <1>23 DEF WindowPasses
  <2> QED
    BY <2>1, <2>2
<1>24. CASE UNCHANGED vars
  BY <1>24 DEF vars
<1> QED
  BY <1>1, <1>2, <1>3, <1>4, <1>5, <1>6, <1>7, <1>8, <1>9, <1>10, <1>11, <1>12, <1>13, <1>14, <1>15, <1>16, <1>17, <1>18, <1>19, <1>20, <1>21, <1>22, <1>23, <1>24
  DEF Next, Connect, OpenReturns, VerifyReturns, Heartbeat

(* Every reachable state satisfies the inductive invariant. *)
THEOREM Inductive == Spec => []IInv
<1> QED
  BY IInvInit, IInvStep, PTL DEF Spec

-----------------------------------------------------------------------------
(* Type correctness. *)
THEOREM TypeCorrect == Spec => []TypeOK
<1>1. IInv => TypeOK
  BY TypeOKParts DEF IInv
<1> QED
  BY <1>1, Inductive, PTL

(* At most one connection_lost is queued, and never for an older transport *)
(* than the one the api holds.                                             *)
THEOREM StaleLossExcluded == Spec => []NoStaleLoss
<1>1. IInv => NoStaleLoss
  BY DEF IInv, Losses, NoStaleLoss
<1> QED
  BY <1>1, Inductive, PTL

(* The one live reconnect timer is the one the api can cancel, armed only  *)
(* over a dead link with no connect() about.                               *)
THEOREM SingleTimer == Spec => []OneTimer
<1>1. IInv => OneTimer
  BY DEF IInv, Values, Alone, Timer, OneTimer
<1> QED
  BY <1>1, Inductive, PTL

(* One connect() past its guard, one worker pair, never both. *)
THEOREM Exclusion == Spec => []NoOverlap
<1>1. IInv => NoOverlap
  BY DEF IInv, Alone, NoOverlap, InFlight
<1> QED
  BY <1>1, Inductive, PTL

(* "connected" is never shown without a transport before teardown. *)
THEOREM ConnectedOverPort == Spec => []ConnectedHasPort
<1>1. IInv => ConnectedHasPort
  BY DEF IInv, Port, ConnectedHasPort
<1> QED
  BY <1>1, Inductive, PTL

(* verify_device and get_device_id are never refused for being in          *)
(* progress already.                                                       *)
THEOREM WaitsNeverRefused == Spec => []NoRefusedWait
<1>1. IInv => NoRefusedWait
  BY DEF IInv, Alone, Waiters, NoRefusedWait
<1> QED
  BY <1>1, Inductive, PTL

(* After disconnect() no attempt begins and no timer is armed. *)
THEOREM TeardownFinal == Spec => ClosedStaysQuiet
<1>1. ASSUME IInv, IInv', [Next]_vars, closed
      PROVE  /\ timers' = 0 /\ ~handle'
             /\ \A t \in Task : pc'[t] = "opening" => pc[t] = "opening"
  <2>1. closed'
    BY <1>1 DEF Next, vars, linkVars, Connect, OpenReturns, VerifyReturns, Heartbeat,
       ConnectBegin, OpenFails, OpenSucceeds, VerifyFails, VerifyPasses, Settled,
       ConnectDone, Unplug, ConnectionLost, ReconnectFire, Disconnect, VerifyFrame,
       DeviceIdFrame, OtherFrame, EntitySend, HeartSkips, HeartProbes,
       HeartAnswered, HeartMisses, HeartFrozen, Freeze, Thaw, WindowPasses
  <2>2. timers' = 0 /\ ~handle'
    BY <1>1, <2>1 DEF IInv, Flags, Timer
  <2>3. ASSUME NEW t \in Task, pc[t] # "opening" PROVE pc'[t] # "opening"
    <3>1. CASE \E u \in Task : Connect(u)
      BY <1>1, <2>3, <3>1 DEF IInv, Values, Connect, OpenReturns, VerifyReturns,
         ConnectBegin, ConnectGuard, OpenFails, OpenSucceeds, VerifyFails,
         VerifyPasses, Settled, ConnectDone, AskDeviceId, Return
    <3>2. CASE ReconnectFire
      BY <1>1, <2>3, <3>2 DEF IInv, Values, ReconnectFire
    <3>3. CASE UNCHANGED pc
      BY <2>3, <3>3
    <3> QED
      BY <1>1, <3>1, <3>2, <3>3 DEF Next, vars, taskVars, Heartbeat, Unplug,
         ConnectionLost, Disconnect, VerifyFrame, DeviceIdFrame, OtherFrame,
         EntitySend, HeartSkips, HeartProbes, HeartAnswered, HeartMisses,
         HeartFrozen, Freeze, Thaw, WindowPasses
  <2> QED
    BY <2>2, <2>3
<1> QED
  BY <1>1, Inductive, PTL DEF Spec, ClosedStaysQuiet

-----------------------------------------------------------------------------
(* Before teardown, without a link, and with nothing left that would bring *)
(* one: no attempt, no timer, no connection_lost on its way.               *)
Stranded ==
    /\ ~closed /\ ~connecting /\ transport = "none" /\ losses = 0 /\ timers = 0
    /\ \A t \in Task : pc[t] = "free"

(* connect() ends over a port that was lost while it was suspended.        *)
EndsWithoutPort(t) ==
    /\ pc[t] \in {"verifying", "asking"} /\ pc'[t] = "free"
    /\ transport = "none" /\ losses = 0

Strands == \E t \in Task : OpenFails(t) \/ EndsWithoutPort(t)

(* Where the api becomes stranded, and what leads out. *)
DeadEnd ==
    /\ Stranded' => Stranded \/ Strands
    /\ Stranded => Stranded' \/ closed'

LEMMA ConnectStrands ==
  ASSUME IInv, NEW t \in Task, Connect(t), Stranded'
  PROVE  OpenFails(t) \/ EndsWithoutPort(t)
<1> USE DEF IInv, Flags, Values, Stranded
<1>1. CASE ConnectBegin(t)
  <2>1. ~connecting /\ transport = "none" /\ ~closed
    BY <1>1 DEF ConnectBegin, Alone, Fresh, Flag, InFlight
  <2>2. connecting'
    BY <1>1, <2>1 DEF ConnectBegin, ConnectGuard
  <2> QED
    BY <2>2
<1>2. CASE OpenSucceeds(t)
  BY <1>2 DEF OpenSucceeds
<1>3. CASE VerifyFails(t)
  <2>1. losses' = 0 /\ transport # "open" /\ losses = 0
    BY <1>3 DEF VerifyFails, CloseTransport
  <2>2. transport = "none"
    BY <2>1 DEF Losses
  <2> QED
    BY <1>3, <2>1, <2>2 DEF VerifyFails, Return, EndsWithoutPort
<1>4. CASE VerifyPasses(t)
  BY <1>4 DEF VerifyPasses, AskDeviceId
<1>5. CASE Settled(t)
  BY <1>5 DEF Settled, AskDeviceId
<1>6. CASE ConnectDone(t)
  BY <1>6 DEF ConnectDone, Return, EndsWithoutPort
<1> QED
  BY <1>1, <1>2, <1>3, <1>4, <1>5, <1>6 DEF Connect, OpenReturns, VerifyReturns

LEMMA LossRearms ==
  ASSUME IInv, IInv', ConnectionLost \/ HeartFrozen
  PROVE  ~Stranded'
<1> USE DEF IInv, Flags, Values, Stranded
<1>1. ~closed /\ ~connecting => handle'
  BY DEF ConnectionLost, HeartFrozen, ScheduleReconnect
<1>2. closed' = closed /\ connecting' = connecting
  BY DEF ConnectionLost, HeartFrozen
<1>3. handle' => timers' = 1
  BY DEF Timer
<1> QED
  BY <1>1, <1>2, <1>3

(* A probe runs over an established link only. *)
Probing == heart = "probing" => connected

LEMMA ProbingStep == ASSUME IInv, Probing, [Next]_vars PROVE Probing'
<1> USE DEF Probing
<1>1. ASSUME NEW t \in Task, Connect(t) PROVE Probing'
  <2>1. pc[t] # "free"
    BY <1>1 DEF Connect, OpenReturns, VerifyReturns, ConnectBegin, OpenFails, OpenSucceeds,
       VerifyFails, VerifyPasses, Settled, ConnectDone
  <2>2. heart = "none"
    BY <2>1 DEF IInv, Alone
  <2>3. heart' = heart \/ heart' = "asleep"
    BY <1>1 DEF Connect, OpenReturns, VerifyReturns, ConnectBegin, OpenFails, OpenSucceeds,
       VerifyFails, VerifyPasses, Settled, ConnectDone, heartVars
  <2> QED
    BY <2>2, <2>3
<1>2. CASE ConnectionLost \/ Disconnect \/ HeartFrozen
  BY <1>2 DEF ConnectionLost, Disconnect, HeartFrozen, LinkDown
<1>3. CASE HeartProbes \/ HeartAnswered \/ HeartMisses
  BY <1>3 DEF HeartProbes, HeartAnswered, HeartMisses, HeartAwake, linkVars
<1>4. CASE UNCHANGED <<heart, connected>>
  BY <1>4
<1> QED
  BY <1>1, <1>2, <1>3, <1>4 DEF Next, vars, linkVars, heartVars, Heartbeat, Unplug,
     ReconnectFire, VerifyFrame, DeviceIdFrame, OtherFrame, EntitySend, HeartSkips,
     Freeze, Thaw, WindowPasses

LEMMA StrandedStays ==
  ASSUME IInv, Probing, Stranded, [Next]_vars
  PROVE  Stranded' \/ closed'
<1> USE DEF Stranded
<1>1. ASSUME NEW t \in Task, Connect(t) PROVE FALSE
  BY <1>1 DEF Connect, OpenReturns, VerifyReturns, ConnectBegin, OpenFails, OpenSucceeds,
     VerifyFails, VerifyPasses, Settled, ConnectDone
<1>2. ~connected /\ heart # "probing"
  BY DEF IInv, Port, Probing
<1>3. ~HeartFrozen
  BY <1>2 DEF HeartFrozen
<1>4. ~(Unplug \/ ConnectionLost \/ ReconnectFire)
  BY DEF Unplug, ConnectionLost, ReconnectFire, ReconnectDue, IInv, Values
<1>5. CASE Disconnect
  BY <1>5 DEF Disconnect
<1>6. CASE UNCHANGED <<closed, connecting, transport, losses, timers, pc>>
  BY <1>6
<1> QED
  BY <1>1, <1>3, <1>4, <1>5, <1>6 DEF Next, vars, linkVars, timerVars, taskVars, Heartbeat,
     VerifyFrame, DeviceIdFrame, OtherFrame, EntitySend, HeartSkips, HeartProbes,
     HeartAnswered, HeartMisses, Freeze, Thaw, WindowPasses

LEMMA WhatStrands ==
  ASSUME IInv, IInv', [Next]_vars, Stranded'
  PROVE  Stranded \/ Strands
<1>1. ASSUME NEW t \in Task, Connect(t) PROVE Strands
  BY <1>1, ConnectStrands DEF Strands
<1>2. ~(ConnectionLost \/ HeartFrozen)
  BY LossRearms
<1>3. ~Disconnect /\ ~ReconnectFire /\ ~Unplug
  BY DEF Stranded, Disconnect, ReconnectFire, Unplug, IInv, Values
<1>4. CASE UNCHANGED <<closed, connecting, transport, losses, timers, pc>>
  BY <1>4 DEF Stranded
<1> QED
  BY <1>1, <1>2, <1>3, <1>4 DEF Next, vars, linkVars, timerVars, taskVars, Heartbeat,
     VerifyFrame, DeviceIdFrame, OtherFrame, EntitySend, HeartSkips, HeartProbes,
     HeartAnswered, HeartMisses, Freeze, Thaw, WindowPasses

(* The two ways to be stranded that runs stick_open_failure and            *)
(* stick_loss_in_connect show are the only ones, whatever stick, heartbeat *)
(* and entities do, and nothing but teardown leads out (api.py:353,        *)
(* api.py:1698).                                                           *)
THEOREM StrandedOnlyThere == Spec => [][DeadEnd]_vars
<1>1. Init => Probing
  BY DEF Init, Probing
<1>2. IInv /\ Probing /\ [Next]_vars => Probing'
  BY ProbingStep
<1>3. IInv /\ IInv' /\ Probing /\ [Next]_vars => DeadEnd
  BY WhatStrands, StrandedStays DEF DeadEnd
<1> QED
  BY <1>1, <1>2, <1>3, Inductive, PTL DEF Spec

-----------------------------------------------------------------------------
(* StickConnection implements StickLink: entities see "connected" appear   *)
(* only at the end of an attempt, and no attempt begin after teardown.     *)
THEOREM ImplementsStickLink == Spec => Link!Spec
<1> USE DEF IInv, Flags, Values
<1>1. Init => Link!Init
  BY DEF Init, Link!Init
<1>2. ASSUME IInv, [Next]_vars PROVE [Link!Next]_(Link!vars)
  <2> USE <1>2 DEF Link!Next, Link!vars, Link!Try, Link!Verified, Link!GiveUp,
                   Link!Drop, Link!Teardown
  <2>1. ASSUME NEW t \in Task, Connect(t) PROVE [Link!Next]_(Link!vars)
    <3>1. CASE ConnectBegin(t)
      BY <3>1 DEF ConnectBegin, ConnectGuard, Port
    <3>2. CASE OpenFails(t)
      BY <3>2 DEF OpenFails, Return, Flag, InFlight
    <3>3. CASE OpenSucceeds(t)
      BY <3>3 DEF OpenSucceeds
    <3>4. CASE VerifyFails(t)
      BY <3>4 DEF VerifyFails, Return, Flag, InFlight
    <3>5. CASE VerifyPasses(t)
      BY <3>5 DEF VerifyPasses, Flag, InFlight
    <3>6. CASE Settled(t)
      BY <3>6 DEF Settled, linkVars
    <3>7. CASE ConnectDone(t)
      BY <3>7 DEF ConnectDone, Return, Flag, InFlight
    <3> QED
      BY <2>1, <3>1, <3>2, <3>3, <3>4, <3>5, <3>6, <3>7
      DEF Connect, OpenReturns, VerifyReturns
  <2>2. CASE ConnectionLost
    BY <2>2 DEF ConnectionLost, LinkDown
  <2>3. CASE Disconnect
    BY <2>3 DEF Disconnect, LinkDown
  <2>4. CASE HeartFrozen
    BY <2>4 DEF HeartFrozen, LinkDown
  <2>5. CASE UNCHANGED <<closed, connecting, connected>>
    BY <2>5
  <2> QED
    BY <2>1, <2>2, <2>3, <2>4, <2>5 DEF Next, vars, linkVars, Heartbeat, Unplug,
       ReconnectFire, VerifyFrame, DeviceIdFrame, OtherFrame, EntitySend,
       HeartSkips, HeartProbes, HeartAnswered, HeartMisses, Freeze, Thaw,
       WindowPasses
<1> QED
  BY <1>1, <1>2, Inductive, PTL DEF Spec, Link!Spec

(* StickConnection implements PortLink: a port is opened only while none   *)
(* is open, whatever attempts, losses and teardowns interleave.            *)
THEOREM ImplementsPortLink == Spec => Serial!Spec
<1> DEFINE Stays == transport' = transport /\ connecting' = connecting
           Shut == transport # "open" /\ transport' # "open"
           Opened == transport # "open" /\ transport' = "open" /\ connecting'
           Readied == /\ transport = "open" /\ transport' = "open"
                      /\ connecting /\ ~connecting'
           Gone == transport = "open" /\ transport' # "open"
<1>1. Init => Serial!Init
  BY DEF Init, Serial!Init
<1>2. ASSUME IInv, [Next]_vars PROVE Stays \/ Shut \/ Opened \/ Readied \/ Gone
  <2>1. ASSUME NEW t \in Task, Connect(t)
        PROVE  Stays \/ Shut \/ Opened \/ Readied \/ Gone
    <3> USE <1>2 DEF IInv, Flags, Values
    <3>1. CASE ConnectBegin(t)
      BY <3>1 DEF ConnectBegin, ConnectGuard
    <3>2. CASE OpenFails(t)
      BY <3>2 DEF OpenFails, Fresh
    <3>3. CASE OpenSucceeds(t)
      <4>1. connecting /\ transport = "none"
        BY <3>3 DEF OpenSucceeds, Fresh, Flag, InFlight
      <4> QED
        BY <3>3, <4>1 DEF OpenSucceeds
    <3>4. CASE VerifyFails(t)
      BY <3>4 DEF VerifyFails, CloseTransport
    <3>5. CASE VerifyPasses(t)
      BY <3>5 DEF VerifyPasses
    <3>6. CASE Settled(t)
      BY <3>6 DEF Settled, linkVars
    <3>7. CASE ConnectDone(t)
      <4>1. connecting
        BY <3>7 DEF ConnectDone, Flag, InFlight
      <4> QED
        BY <3>7, <4>1 DEF ConnectDone, Return
    <3> QED
      BY <2>1, <3>1, <3>2, <3>3, <3>4, <3>5, <3>6, <3>7
      DEF Connect, OpenReturns, VerifyReturns
  <2>2. CASE Unplug \/ ConnectionLost \/ Disconnect \/ HeartFrozen
    BY <2>2 DEF Unplug, ConnectionLost, Disconnect, HeartFrozen, CloseTransport
  <2>3. CASE UNCHANGED <<transport, connecting>>
    BY <2>3
  <2> QED
    BY <1>2, <2>1, <2>2, <2>3 DEF Next, vars, linkVars, Heartbeat,
       ReconnectFire, VerifyFrame, DeviceIdFrame, OtherFrame, EntitySend,
       HeartSkips, HeartProbes, HeartAnswered, HeartMisses, Freeze, Thaw,
       WindowPasses
<1>3. ASSUME IInv, [Next]_vars
      PROVE  [Serial!Next]_(IF transport # "open" THEN "down"
                            ELSE IF connecting THEN "connecting" ELSE "up")
  <2>1. connecting \in BOOLEAN /\ connecting' \in BOOLEAN
    BY <1>3, IInvStep DEF IInv, Flags
  <2> QED
    BY <1>2, <1>3, <2>1 DEF Serial!Next, Serial!Opens, Serial!Ready, Serial!Lost
<1> QED
  BY <1>1, <1>3, Inductive, PTL DEF Spec, Serial!Spec

(* Together: the two views others have of the connection.                  *)
THEOREM ImplementsLink == Spec => LinkSpec
<1> QED
  BY ImplementsStickLink, ImplementsPortLink DEF LinkSpec
=============================================================================
