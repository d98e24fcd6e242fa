-------------------------- MODULE TionCloudProofs --------------------------
(***************************************************************************)
(* What TLAPS proves of TionCloud for every set of locations and of        *)
(* connection objects: the type invariant, the four safety invariants of   *)
(* the channel and the step property that a connection is never replaced;  *)
(* and of one of its connections, for every bound on the wire.             *)
(***************************************************************************)
EXTENDS TionCloud, Sequences, TLAPS

\* Each task is only ever suspended at awaits of its own code.
OwnAwaits ==
    /\ pc[Start] \in {"profiles", "stopping", "closing", "done", "lock", "discard"}
                     \cup Locked \cup Asking
    /\ pc[Reconnect] \in {"idle", "backoff", "renew_wait", "lock", "discard"}
                         \cup Locked \cup Asking
    /\ \A t \in Refreshers :
         pc[t] \in {"idle", "delay", "lock", "token", "renew", "read", "sync"} \cup Asking
    /\ pc[Unload] \in {"idle", "closing", "done"}

\* The lock's holder is the task inside the locked section.
LockHeld == \A t \in Tasks : pc[t] \in Locked <=> lock = t

\* The entry's setup comes before the reconnect task, the stop after both.
Phases ==
    /\ started => pc[Start] = "done" /\ ~stopped
    /\ stopped => pc[Start] \in {"closing", "done"}
    /\ pc[Start] = "closing" => stopped
    /\ pc[Unload] # "idle" => stopped
    /\ pc[Start] # "done" => pc[Reconnect] = "idle"
    /\ cancelled \subseteq {Start, Reconnect, Structure}
    /\ Start \in cancelled => pc[Start] \notin {"stopping", "closing", "done"}
    /\ cancelled \cap {Reconnect, Structure} # {} => stopped
    /\ stopped => \/ pc[Reconnect] \in {"idle", "undo", "discard"}
                  \/ Reconnect \in cancelled
    /\ stopped => connection = None
    /\ \A t \in Connectors :
         /\ pc[t] \in {"undo", "discard"} => raised[t] # "none"
         /\ raised[t] = "cancel" /\ t = Reconnect => stopped

\* A connector is at work: the setup until it is over, or the reconnect task.
Busy(t) == pc[t] \notin {"idle", "closing", "done"}

\* A connector works on the current connection, or has none yet.
Connecting ==
    /\ \A t \in Connectors : Busy(t) =>
         /\ ~connected
         /\ IF pc[t] \in Holding THEN connection \in {conn[t], None} /\ conn[t] # None
                                 ELSE connection = None
    /\ \A t \in Refreshers : pc[t] = "sync" =>
         connection \in {conn[t], None} /\ conn[t] # None
    /\ connection # None => status[connection] # "unused"
    /\ connection # None /\ status[connection] = "closed" =>
         \E t \in Connectors : pc[t] \in Holding

\* Subscriptions only differ from the structure while a task syncs them.
Synced ==
    \/ connection = None
    \/ status[connection] # "open"
    \/ subs[connection] = locations
    \/ \E t \in Tasks : pc[t] = "sync"

\* A started cloud that is shown down has its reconnect task at work.
Watched == started /\ ~connected => pc[Reconnect] # "idle"

\* What the tasks are doing, and what holds of the channel they work on.
TaskInv == OwnAwaits /\ LockHeld /\ Phases /\ Watched /\ NoLostWakeup
ChannelInv == Connecting /\ Synced /\ ConnectedIsLive /\ NoLeakedConnection

IInv == TypeOK /\ TaskInv /\ ChannelInv

-----------------------------------------------------------------------------
(* The inductive invariant *)

LEMMA InitIInv == Init => IInv
<1> SUFFICES ASSUME Init PROVE IInv
  OBVIOUS
<1> USE NoneAssumption
    DEF Init, Tasks, Connectors, Refreshers, Start, Reconnect, Poll, Structure,
        Unload, Locked, Asking, Holding, Awaits
<1>1. TypeOK
  BY DEF TypeOK, TaskTypes, ChannelTypes, ReplyTypes, FlagTypes
<1>2. OwnAwaits /\ LockHeld /\ Synced /\ Watched
  BY DEF OwnAwaits, LockHeld, Synced, Watched
<1>3. Phases /\ Connecting
  BY DEF Phases, Connecting, Busy
<1>4. ConnectedIsLive /\ NoLeakedConnection /\ NoLostWakeup
  BY DEF ConnectedIsLive, NoLeakedConnection, NoLostWakeup, Alive
<1> QED
  BY <1>1, <1>2, <1>3, <1>4 DEF IInv, TaskInv, ChannelInv

\* One step per action.  A leaf that closes a whole action is one that disturbs
\* little; the others are split by the conjuncts of the invariant.
LEMMA StepIInv == IInv /\ [Next]_vars => IInv'
<1> SUFFICES ASSUME IInv, [Next]_vars PROVE IInv'
  OBVIOUS
<1> USE NoneAssumption
    DEF IInv, TaskInv, ChannelInv, TypeOK, TaskTypes, ChannelTypes, ReplyTypes, FlagTypes,
        Tasks, Connectors, Refreshers, Start, Reconnect, Poll, Structure, Unload, Locked,
        Asking, Holding, Awaits, tasks, channel, session, phase
<1>1. ASSUME NEW t \in Tasks, Wake(t) PROVE IInv'
  BY <1>1 DEF Wake, At, Goto, OwnAwaits, LockHeld, Phases, Busy, Connecting, Synced, Watched,
      ConnectedIsLive, NoLeakedConnection, NoLostWakeup, Alive, Live
<1>2. ASSUME NEW t \in Tasks, Acquire(t) PROVE IInv'
  BY <1>2 DEF Acquire, At, Goto, OwnAwaits, LockHeld, Phases, Busy, Connecting, Synced, Watched,
      ConnectedIsLive, NoLeakedConnection, NoLostWakeup, Alive, Live
<1>3. ASSUME NEW t \in Tasks, TokenOk(t) PROVE IInv'
  <2>1. TypeOK'
    BY <1>3 DEF TokenOk, At, Goto
  <2>2. (TaskInv /\ ChannelInv)'
    BY <1>3 DEF TokenOk, At, Goto, OwnAwaits, LockHeld, Phases, Connecting, Busy, Watched,
        NoLostWakeup, NoLeakedConnection, Alive, Synced, ConnectedIsLive, Live
  <2> QED
    BY <2>1, <2>2
<1>4. ASSUME NEW t \in Tasks, TokenRefused(t) PROVE IInv'
  <2>1. CASE t \in Connectors
    <3>1. TypeOK'
      BY <1>4, <2>1 DEF TokenRefused, At, Goto
    <3>2. (TaskInv /\ ChannelInv)'
      BY <1>4, <2>1 DEF TokenRefused, At, Goto, OwnAwaits, LockHeld, Phases, Connecting, Busy,
          Watched, NoLostWakeup, NoLeakedConnection, Alive, Synced, ConnectedIsLive, Live
    <3> QED
      BY <3>1, <3>2
  <2>2. CASE t \notin Connectors
    <3>1. TypeOK'
      BY <1>4, <2>2 DEF TokenRefused, At, Goto, Raise, RaiseLocked
    <3>2. (TaskInv /\ ChannelInv)'
      BY <1>4, <2>2 DEF TokenRefused, At, Goto, Raise, RaiseLocked, OwnAwaits, LockHeld, Phases,
          Connecting, Busy, Watched, NoLostWakeup, NoLeakedConnection, Alive, Synced,
          ConnectedIsLive, Live
    <3> QED
      BY <3>1, <3>2
  <2> QED
    BY <2>1, <2>2
<1>5. ASSUME NEW t \in Tasks, CallFails(t) PROVE IInv'
  <2>1. TypeOK'
    BY <1>5 DEF CallFails, At, Goto, Raise, RaiseLocked
  <2>2. (TaskInv /\ ChannelInv)'
    BY <1>5 DEF CallFails, At, Goto, Raise, RaiseLocked, OwnAwaits, LockHeld, Phases,
        Connecting, Busy, Watched, NoLostWakeup, NoLeakedConnection, Alive, Synced,
        ConnectedIsLive, Live
  <2> QED
    BY <2>1, <2>2
<1>6. ASSUME NEW t \in Tasks, RenewOk(t) PROVE IInv'
  <2>1. TypeOK'
    BY <1>6 DEF RenewOk, At, Goto
  <2>2. (TaskInv /\ ChannelInv)'
    BY <1>6 DEF RenewOk, At, Goto, OwnAwaits, LockHeld, Phases, Connecting, Busy, Watched,
        NoLostWakeup, NoLeakedConnection, Alive, Synced, ConnectedIsLive, Live
  <2> QED
    BY <2>1, <2>2
<1>7. ASSUME NEW t \in Tasks, RenewRefused(t) PROVE IInv'
  <2>1. TypeOK'
    BY <1>7 DEF RenewRefused, At, Goto, Raise, RaiseLocked
  <2>2. (TaskInv /\ ChannelInv)'
    BY <1>7 DEF RenewRefused, At, Goto, Raise, RaiseLocked, OwnAwaits, LockHeld, Phases,
        Connecting, Busy, Watched, NoLostWakeup, NoLeakedConnection, Alive, Synced,
        ConnectedIsLive, Live
  <2> QED
    BY <2>1, <2>2
<1>8. ASSUME NEW t \in Tasks, CallRefused(t) PROVE IInv'
  <2>1. TypeOK'
    <3>1. TaskTypes'
      BY <1>8 DEF CallRefused, At, Goto, Raise, RaiseLocked
    <3>2. ChannelTypes'
      BY <1>8 DEF CallRefused, At, Goto, Raise, RaiseLocked
    <3>3. ReplyTypes'
      BY <1>8 DEF CallRefused, At, Goto, Raise, RaiseLocked
    <3>4. FlagTypes'
      BY <1>8 DEF CallRefused, At, Goto, Raise, RaiseLocked
    <3> QED
      BY <3>1, <3>2, <3>3, <3>4
  <2>2. TaskInv'
    BY <1>8 DEF CallRefused, At, Goto, Raise, RaiseLocked, OwnAwaits, LockHeld, Phases,
        Connecting, Busy, Watched, NoLostWakeup
  <2>3. ChannelInv'
    BY <1>8 DEF CallRefused, At, Goto, Raise, RaiseLocked, OwnAwaits, LockHeld, Phases,
        Connecting, Busy, NoLeakedConnection, Alive, Synced, ConnectedIsLive, Live
  <2> QED
    BY <2>1, <2>2, <2>3
<1>9. ASSUME NEW t \in Tasks, ReadOk(t) PROVE IInv'
  <2>1. TypeOK'
    <3>1. TaskTypes'
      BY <1>9 DEF ReadOk, At, Goto
    <3>2. ChannelTypes'
      BY <1>9 DEF ReadOk, At, Goto
    <3>3. ReplyTypes'
      BY <1>9 DEF ReadOk, At, Goto
    <3>4. FlagTypes'
      BY <1>9 DEF ReadOk, At, Goto
    <3> QED
      BY <3>1, <3>2, <3>3, <3>4
  <2>2. (OwnAwaits /\ LockHeld)'
    BY <1>9 DEF ReadOk, At, Goto, OwnAwaits, LockHeld
  <2>3. (Phases /\ Watched /\ NoLostWakeup)'
    BY <1>9 DEF ReadOk, At, Goto, OwnAwaits, Phases, Connecting, Busy, Watched, NoLostWakeup
  <2>4. (Connecting /\ Synced)'
    BY <1>9 DEF ReadOk, At, Goto, OwnAwaits, LockHeld, Phases, Connecting, Busy,
        NoLeakedConnection, Alive, Synced
  <2>5. (ConnectedIsLive /\ NoLeakedConnection)'
    BY <1>9 DEF ReadOk, At, Goto, OwnAwaits, Phases, Connecting, Busy, ConnectedIsLive,
        NoLeakedConnection, Alive, Live
  <2> QED
    BY <2>1, <2>2, <2>3, <2>4, <2>5
<1>10. ASSUME NEW t \in Tasks, OpenOk(t) PROVE IInv'
  <2>1. TypeOK'
    <3>1. TaskTypes'
      BY <1>10 DEF OpenOk, At, Goto
    <3>2. ChannelTypes'
      BY <1>10 DEF OpenOk, At, Goto
    <3>3. ReplyTypes'
      BY <1>10 DEF OpenOk, At, Goto
    <3>4. FlagTypes'
      BY <1>10 DEF OpenOk, At, Goto
    <3> QED
      BY <3>1, <3>2, <3>3, <3>4
  <2>2. (OwnAwaits /\ LockHeld)'
    BY <1>10 DEF OpenOk, At, Goto, OwnAwaits, LockHeld
  <2>3. (Phases /\ Watched /\ NoLostWakeup)'
    BY <1>10 DEF OpenOk, At, Goto, OwnAwaits, Phases, Connecting, Busy, Watched, NoLostWakeup
  <2>4. (Connecting /\ Synced)'
    BY <1>10 DEF OpenOk, At, Goto, OwnAwaits, LockHeld, Phases, Connecting, Busy,
        NoLeakedConnection, Alive, Synced
  <2>5. (ConnectedIsLive /\ NoLeakedConnection)'
    BY <1>10 DEF OpenOk, At, Goto, OwnAwaits, Phases, Connecting, Busy, ConnectedIsLive,
        NoLeakedConnection, Alive, Live
  <2> QED
    BY <2>1, <2>2, <2>3, <2>4, <2>5
<1>11. ASSUME NEW t \in Tasks, Unsubscribe(t) PROVE IInv'
  BY <1>11 DEF Unsubscribe, At, CanSend, OwnAwaits, LockHeld, Phases, Busy, Connecting, Synced,
      Watched, ConnectedIsLive, NoLeakedConnection, NoLostWakeup, Alive, Live
<1>12. ASSUME NEW t \in Tasks, Subscribe(t) PROVE IInv'
  BY <1>12 DEF Subscribe, At, CanSend, OwnAwaits, LockHeld, Phases, Busy, Connecting, Synced,
      Watched, ConnectedIsLive, NoLeakedConnection, NoLostWakeup, Alive, Live
<1>13. ASSUME NEW t \in Tasks, SyncFails(t) PROVE IInv'
  <2>1. TypeOK'
    <3>1. TaskTypes'
      BY <1>13 DEF SyncFails, At, Goto, CanSend, Raise, RaiseLocked, Abandon, Failed, Discarded
    <3>2. ChannelTypes'
      BY <1>13 DEF SyncFails, At, Goto, CanSend, Raise, RaiseLocked, Abandon, Failed, Discarded
    <3>3. ReplyTypes'
      BY <1>13 DEF SyncFails, At, Goto, CanSend, Raise, RaiseLocked, Abandon, Failed, Discarded
    <3>4. FlagTypes'
      BY <1>13 DEF SyncFails, At, Goto, CanSend, Raise, RaiseLocked, Abandon, Failed, Discarded
    <3> QED
      BY <3>1, <3>2, <3>3, <3>4
  <2>2. (OwnAwaits /\ LockHeld)'
    BY <1>13 DEF SyncFails, At, Goto, CanSend, Raise, RaiseLocked, Abandon, Failed, Discarded,
        OwnAwaits, LockHeld
  <2>3. (Phases /\ Watched /\ NoLostWakeup)'
    BY <1>13 DEF SyncFails, At, Goto, CanSend, Raise, RaiseLocked, Abandon, Failed, Discarded,
        OwnAwaits, Phases, Connecting, Busy, Watched, NoLostWakeup
  <2>4. (Connecting /\ Synced)'
    BY <1>13 DEF SyncFails, At, Goto, CanSend, Raise, RaiseLocked, Abandon, Failed, Discarded,
        OwnAwaits, LockHeld, Phases, Connecting, Busy, NoLeakedConnection, Alive, Synced
  <2>5. (ConnectedIsLive /\ NoLeakedConnection)'
    BY <1>13 DEF SyncFails, At, Goto, CanSend, Raise, RaiseLocked, Abandon, Failed, Discarded,
        OwnAwaits, Phases, Connecting, Busy, ConnectedIsLive, NoLeakedConnection, Alive, Live
  <2> QED
    BY <2>1, <2>2, <2>3, <2>4, <2>5
<1>14. ASSUME NEW t \in Tasks, SyncDone(t) PROVE IInv'
  BY <1>14 DEF SyncDone, At, Goto, OwnAwaits, LockHeld, Phases, Busy, Connecting, Synced,
      Watched, ConnectedIsLive, NoLeakedConnection, NoLostWakeup, Alive, Live
<1>15. ASSUME NEW t \in Tasks, QueryNothing(t) PROVE IInv'
  <2>1. TypeOK'
    <3>1. TaskTypes'
      BY <1>15 DEF QueryNothing, At, Goto, PollOver, Kept, Abandon, Failed, Discarded
    <3>2. ChannelTypes'
      BY <1>15 DEF QueryNothing, At, Goto, PollOver, Kept, Abandon, Failed, Discarded
    <3>3. ReplyTypes'
      BY <1>15 DEF QueryNothing, At, Goto, PollOver, Kept, Abandon, Failed, Discarded
    <3>4. FlagTypes'
      BY <1>15 DEF QueryNothing, At, Goto, PollOver, Kept, Abandon, Failed, Discarded
    <3> QED
      BY <3>1, <3>2, <3>3, <3>4
  <2>2. (OwnAwaits /\ LockHeld)'
    BY <1>15 DEF QueryNothing, At, Goto, PollOver, Kept, Abandon, Failed, Discarded, OwnAwaits,
        LockHeld
  <2>3. (Phases /\ Watched /\ NoLostWakeup)'
    BY <1>15 DEF QueryNothing, At, Goto, PollOver, Kept, Abandon, Failed, Discarded, OwnAwaits,
        Phases, Connecting, Busy, Watched, NoLostWakeup
  <2>4. (Connecting /\ Synced)'
    BY <1>15 DEF QueryNothing, At, Goto, PollOver, Kept, Abandon, Failed, Discarded, OwnAwaits,
        LockHeld, Phases, Connecting, Busy, NoLeakedConnection, Alive, Synced
  <2>5. (ConnectedIsLive /\ NoLeakedConnection)'
    BY <1>15 DEF QueryNothing, At, Goto, PollOver, Kept, Abandon, Failed, Discarded, OwnAwaits,
        Phases, Connecting, Busy, ConnectedIsLive, NoLeakedConnection, Alive, Live
  <2> QED
    BY <2>1, <2>2, <2>3, <2>4, <2>5
<1>16. ASSUME NEW t \in Tasks, Query(t) PROVE IInv'
  BY <1>16 DEF Query, At, Goto, CanSend, Raise, Abandon, Failed, Discarded, OwnAwaits, LockHeld,
      Phases, Busy, Connecting, Synced, Watched, ConnectedIsLive, NoLeakedConnection,
      NoLostWakeup, Alive, Live
<1>17. ASSUME NEW t \in Tasks, QueryAnswered(t) PROVE IInv'
  BY <1>17 DEF QueryAnswered, OwnAwaits, LockHeld, Phases, Busy, Connecting, Synced, Watched,
      ConnectedIsLive, NoLeakedConnection, NoLostWakeup, Alive, Live
<1>18. ASSUME NEW t \in Tasks, QueryResume(t) PROVE IInv'
  <2>1. TypeOK'
    <3>1. TaskTypes'
      BY <1>18 DEF QueryResume, At, Goto, PollOver, Kept, Abandon, Failed, Discarded
    <3>2. ChannelTypes'
      BY <1>18 DEF QueryResume, At, Goto, PollOver, Kept, Abandon, Failed, Discarded
    <3>3. ReplyTypes'
      BY <1>18 DEF QueryResume, At, Goto, PollOver, Kept, Abandon, Failed, Discarded
    <3>4. FlagTypes'
      BY <1>18 DEF QueryResume, At, Goto, PollOver, Kept, Abandon, Failed, Discarded
    <3> QED
      BY <3>1, <3>2, <3>3, <3>4
  <2>2. (OwnAwaits /\ LockHeld)'
    BY <1>18 DEF QueryResume, At, Goto, PollOver, Kept, Abandon, Failed, Discarded, OwnAwaits,
        LockHeld
  <2>3. (Phases /\ Watched /\ NoLostWakeup)'
    BY <1>18 DEF QueryResume, At, Goto, PollOver, Kept, Abandon, Failed, Discarded, OwnAwaits,
        Phases, Connecting, Busy, Watched, NoLostWakeup
  <2>4. (Connecting /\ Synced)'
    BY <1>18 DEF QueryResume, At, Goto, PollOver, Kept, Abandon, Failed, Discarded, OwnAwaits,
        LockHeld, Phases, Connecting, Busy, NoLeakedConnection, Alive, Synced
  <2>5. (ConnectedIsLive /\ NoLeakedConnection)'
    BY <1>18 DEF QueryResume, At, Goto, PollOver, Kept, Abandon, Failed, Discarded, OwnAwaits,
        Phases, Connecting, Busy, ConnectedIsLive, NoLeakedConnection, Alive, Live
  <2> QED
    BY <2>1, <2>2, <2>3, <2>4, <2>5
<1>19. ASSUME NEW t \in Tasks, QueryRaises(t) PROVE IInv'
  BY <1>19 DEF QueryRaises, At, Goto, Raise, Abandon, Failed, Discarded, OwnAwaits, LockHeld,
      Phases, Busy, Connecting, Synced, Watched, ConnectedIsLive, NoLeakedConnection,
      NoLostWakeup, Alive, Live
<1>20. ASSUME NEW t \in Tasks, AbandonOver(t) PROVE IInv'
  <2>1. TypeOK'
    BY <1>20 DEF AbandonOver, At, Goto, Raise
  <2>2. (TaskInv /\ ChannelInv)'
    BY <1>20 DEF AbandonOver, At, Goto, Raise, OwnAwaits, LockHeld, Phases, Connecting, Busy,
        Watched, NoLostWakeup, NoLeakedConnection, Alive, Synced, ConnectedIsLive, Live
  <2> QED
    BY <2>1, <2>2
<1>21. ASSUME NEW t \in Tasks, StartFails(t) PROVE IInv'
  <2>1. TypeOK'
    BY <1>21 DEF StartFails, At, Goto, Stop, Failed
  <2>2. TaskInv'
    BY <1>21 DEF StartFails, At, Goto, Stop, Failed, OwnAwaits, LockHeld, Phases, Connecting,
        Busy, Watched, NoLostWakeup
  <2>3. ChannelInv'
    BY <1>21 DEF StartFails, At, Goto, Stop, Failed, OwnAwaits, LockHeld, Phases, Connecting,
        Busy, NoLeakedConnection, Alive, Synced, ConnectedIsLive, Live
  <2> QED
    BY <2>1, <2>2, <2>3
<1>22. ASSUME NEW t \in Tasks, StopOver(t) PROVE IInv'
  <2>1. TypeOK'
    BY <1>22 DEF StopOver, Goto
  <2>2. (TaskInv /\ ChannelInv)'
    BY <1>22 DEF StopOver, Goto, OwnAwaits, LockHeld, Phases, Connecting, Busy, Watched,
        NoLostWakeup, NoLeakedConnection, Alive, Synced, ConnectedIsLive, Live
  <2> QED
    BY <2>1, <2>2
<1>23. ASSUME NEW t \in Tasks, CancelDelivered(t) PROVE IInv'
  <2>1. TypeOK'
    <3>1. TaskTypes'
      BY <1>23 DEF CancelDelivered, Goto, Raise, RaiseLocked, Abandon, Failed, Discarded
    <3>2. ChannelTypes'
      BY <1>23 DEF CancelDelivered, Goto, Raise, RaiseLocked, Abandon, Failed, Discarded
    <3>3. ReplyTypes'
      BY <1>23 DEF CancelDelivered, Goto, Raise, RaiseLocked, Abandon, Failed, Discarded
    <3>4. FlagTypes'
      BY <1>23 DEF CancelDelivered, Goto, Raise, RaiseLocked, Abandon, Failed, Discarded
    <3> QED
      BY <3>1, <3>2, <3>3, <3>4
  <2>2. (OwnAwaits /\ LockHeld)'
    BY <1>23 DEF CancelDelivered, Goto, Raise, RaiseLocked, Abandon, Failed, Discarded,
        OwnAwaits, LockHeld
  <2>3. (Phases /\ Watched /\ NoLostWakeup)'
    BY <1>23 DEF CancelDelivered, Goto, Raise, RaiseLocked, Abandon, Failed, Discarded,
        OwnAwaits, Phases, Connecting, Busy, Watched, NoLostWakeup
  <2>4. (Connecting /\ Synced)'
    BY <1>23 DEF CancelDelivered, Goto, Raise, RaiseLocked, Abandon, Failed, Discarded,
        OwnAwaits, LockHeld, Phases, Connecting, Busy, NoLeakedConnection, Alive, Synced
  <2>5. (ConnectedIsLive /\ NoLeakedConnection)'
    BY <1>23 DEF CancelDelivered, Goto, Raise, RaiseLocked, Abandon, Failed, Discarded,
        OwnAwaits, Phases, Connecting, Busy, ConnectedIsLive, NoLeakedConnection, Alive, Live
  <2> QED
    BY <2>1, <2>2, <2>3, <2>4, <2>5
<1>24. CASE LoadProfiles
  BY <1>24 DEF LoadProfiles, At, Goto, Raise, OwnAwaits, LockHeld, Phases, Busy, Connecting,
      Synced, Watched, ConnectedIsLive, NoLeakedConnection, NoLostWakeup, Alive, Live
<1>25. CASE PollBegin
  BY <1>25 DEF PollBegin, Goto, OwnAwaits, LockHeld, Phases, Busy, Connecting, Synced, Watched,
      ConnectedIsLive, NoLeakedConnection, NoLostWakeup, Alive, Live
<1>26. CASE LocationEvent
  BY <1>26 DEF LocationEvent, Goto, OwnAwaits, LockHeld, Phases, Busy, Connecting, Synced,
      Watched, ConnectedIsLive, NoLeakedConnection, NoLostWakeup, Alive, Live
<1>27. CASE RenewWaitOver
  BY <1>27 DEF RenewWaitOver, At, Goto, OwnAwaits, LockHeld, Phases, Busy, Connecting, Synced,
      Watched, ConnectedIsLive, NoLeakedConnection, NoLostWakeup, Alive, Live
<1>28. CASE RenewElsewhere
  <2>1. TypeOK'
    BY <1>28 DEF RenewElsewhere
  <2>2. (TaskInv /\ ChannelInv)'
    BY <1>28 DEF RenewElsewhere, OwnAwaits, LockHeld, Phases, Connecting, Busy, Watched,
        NoLostWakeup, NoLeakedConnection, Alive, Synced, ConnectedIsLive, Live
  <2> QED
    BY <2>1, <2>2
<1>29. CASE CancelSetup
  BY <1>29 DEF CancelSetup, OwnAwaits, LockHeld, Phases, Busy, Connecting, Synced, Watched,
      ConnectedIsLive, NoLeakedConnection, NoLostWakeup, Alive, Live
<1>30. CASE UnloadBegin
  <2>1. TypeOK'
    BY <1>30 DEF UnloadBegin, Goto, Stop, Failed
  <2>2. TaskInv'
    BY <1>30 DEF UnloadBegin, Goto, Stop, Failed, OwnAwaits, LockHeld, Phases, Connecting, Busy,
        Watched, NoLostWakeup
  <2>3. ChannelInv'
    BY <1>30 DEF UnloadBegin, Goto, Stop, Failed, OwnAwaits, LockHeld, Phases, Connecting, Busy,
        NoLeakedConnection, Alive, Synced, ConnectedIsLive, Live
  <2> QED
    BY <2>1, <2>2, <2>3
<1>31. CASE Stabilise
  BY <1>31 DEF Stabilise, OwnAwaits, LockHeld, Phases, Busy, Connecting, Synced, Watched,
      ConnectedIsLive, NoLeakedConnection, NoLostWakeup, Alive, Live
<1>32. ASSUME NEW c \in Conns, Break(c) PROVE IInv'
  BY <1>32 DEF Break, OwnAwaits, LockHeld, Phases, Busy, Connecting, Synced, Watched,
      ConnectedIsLive, NoLeakedConnection, NoLostWakeup, Alive, Live
<1>33. ASSUME NEW c \in Conns, Disconnect(c) PROVE IInv'
  <2>1. TypeOK'
    <3>1. TaskTypes'
      BY <1>33 DEF Disconnect, Goto, Failed
    <3>2. ChannelTypes'
      BY <1>33 DEF Disconnect, Goto, Failed
    <3>3. ReplyTypes'
      BY <1>33 DEF Disconnect, Goto, Failed
    <3>4. FlagTypes'
      BY <1>33 DEF Disconnect, Goto, Failed
    <3> QED
      BY <3>1, <3>2, <3>3, <3>4
  <2>2. (OwnAwaits /\ LockHeld)'
    BY <1>33 DEF Disconnect, Goto, Failed, OwnAwaits, LockHeld
  <2>3. (Phases /\ Watched /\ NoLostWakeup)'
    BY <1>33 DEF Disconnect, Goto, Failed, OwnAwaits, Phases, Connecting, Busy, Watched,
        NoLostWakeup
  <2>4. (Connecting /\ Synced)'
    BY <1>33 DEF Disconnect, Goto, Failed, OwnAwaits, LockHeld, Phases, Connecting, Busy,
        NoLeakedConnection, Alive, Synced
  <2>5. (ConnectedIsLive /\ NoLeakedConnection)'
    BY <1>33 DEF Disconnect, Goto, Failed, OwnAwaits, Phases, Connecting, Busy, ConnectedIsLive,
        NoLeakedConnection, Alive, Live
  <2> QED
    BY <2>1, <2>2, <2>3, <2>4, <2>5
<1>34. CASE UNCHANGED vars
  <2>1. TypeOK'
    BY <1>34 DEF vars
  <2>2. TaskInv'
    BY <1>34 DEF vars, OwnAwaits, LockHeld, Phases, Connecting, Busy, Watched, NoLostWakeup
  <2>3. ChannelInv'
    BY <1>34 DEF vars, OwnAwaits, LockHeld, Phases, Connecting, Busy, NoLeakedConnection, Alive,
        Synced, ConnectedIsLive, Live
  <2> QED
    BY <2>1, <2>2, <2>3
<1> QED
  BY <1>1, <1>2, <1>3, <1>4, <1>5, <1>6, <1>7, <1>8, <1>9, <1>10, <1>11, <1>12, <1>13, <1>14,
      <1>15, <1>16, <1>17, <1>18, <1>19, <1>20, <1>21, <1>22, <1>23, <1>24, <1>25, <1>26, <1>27,
      <1>28, <1>29, <1>30, <1>31, <1>32, <1>33, <1>34 DEF Next, Step

-----------------------------------------------------------------------------
(* The theorems *)

LEMMA Invariant == Spec => []IInv
<1> QED
  BY InitIInv, StepIInv, PTL DEF Spec

\* Every variable keeps its type.
THEOREM TypeCorrect == Spec => []TypeOK
<1>1. IInv => TypeOK
  BY DEF IInv, TaskInv, ChannelInv
<1> QED
  BY <1>1, Invariant, PTL

\* The account is shown as connected only over a live channel.
THEOREM ConnectedOnlyLive == Spec => []ConnectedIsLive
<1>1. IInv => ConnectedIsLive
  BY DEF IInv, TaskInv, ChannelInv
<1> QED
  BY <1>1, Invariant, PTL

\* A started cloud without a live channel has its reconnect task at work: a
\* started cloud is not stopped, so without the channel it is not shown as
\* connected either.
THEOREM DownReconnects == Spec => []DownIsReconnecting
<1>1. IInv => DownIsReconnecting
  BY DEF IInv, TaskInv, ChannelInv, Phases, Watched, ConnectedIsLive, DownIsReconnecting
<1> QED
  BY <1>1, Invariant, PTL

\* At most the current connection is alive.
THEOREM NothingLeaks == Spec => []NoLeakedConnection
<1>1. IInv => NoLeakedConnection
  BY DEF IInv, TaskInv, ChannelInv
<1> QED
  BY <1>1, Invariant, PTL

\* With the lock free nobody is inside the sync, so a working channel has the
\* subscriptions of the structure.
THEOREM SubscriptionsFollow == Spec => []SubscriptionsMatch
<1>1. IInv => SubscriptionsMatch
  <2> SUFFICES ASSUME IInv, lock = None, connection # None, status[connection] = "open"
               PROVE  subs[connection] = locations
    BY DEF SubscriptionsMatch
  <2>1. \A t \in Tasks : pc[t] # "sync"
    BY NoneAssumption DEF IInv, TaskInv, ChannelInv, LockHeld, Locked
  <2> QED
    BY <2>1 DEF IInv, TaskInv, ChannelInv, Synced
<1> QED
  BY <1>1, Invariant, PTL

\* The reconnect task never waits for a renewal that has already happened.
THEOREM WakeupsKept == Spec => []NoLostWakeup
<1>1. IInv => NoLostWakeup
  BY DEF IInv, TaskInv, ChannelInv
<1> QED
  BY <1>1, Invariant, PTL

\* Only OpenOk makes a connection current, and a connector has none before it.
THEOREM ConnectionsNeverReplaced == Spec => NeverReplaced
<1>1. IInv /\ [Next]_vars => [connection # None => connection' \in {connection, None}]_vars
  <2> SUFFICES ASSUME IInv, Next, connection # None
               PROVE  connection' \in {connection, None}
    BY DEF vars
  <2>1. ASSUME NEW t \in Tasks, Step(t)
        PROVE  connection' \in {connection, None}
    <3>1. ~OpenOk(t)
      BY <2>1 DEF OpenOk, At, IInv, TaskInv, ChannelInv, OwnAwaits, Connecting, Busy, Tasks, Connectors, Refreshers,
         Start, Reconnect, Poll, Structure, Unload, Holding, Asking
    <3> QED
      BY <2>1, <3>1
      DEF Step, Wake, Acquire, TokenOk, TokenRefused, CallFails, RenewOk, RenewRefused,
          CallRefused, ReadOk, Unsubscribe, Subscribe, SyncFails, SyncDone, QueryNothing,
          Query, QueryAnswered, QueryResume, QueryRaises, AbandonOver, StartFails, StopOver,
          CancelDelivered, PollOver, Abandon, Stop, channel
  <2> QED
    BY <2>1 DEF Next, LoadProfiles, PollBegin, LocationEvent, RenewWaitOver, RenewElsewhere,
       CancelSetup, UnloadBegin, Stop, Stabilise, Break, Disconnect, channel
<1> QED
  BY <1>1, Invariant, PTL DEF Spec, NeverReplaced

\* TionCloud implements the safety part of the live channel: its phase starts at
\* "starting" and moves as LiveChannel allows.
THEOREM ImplementsSafety == Spec => Channel!Safety
<1>1. Init => Channel!Init
  BY DEF Init, Channel!Init, Phase
<1>2. IInv /\ [Next]_vars => [Channel!Next]_Phase
  <2> SUFFICES ASSUME IInv, [Next]_vars, Phase' # Phase
               PROVE  Channel!Next
    OBVIOUS
  <2> USE DEF IInv, TaskInv, ChannelInv, TypeOK, TaskTypes, FlagTypes, Phases, Connecting, Busy, Phase, Channel!Next, Channel!Started,
          Channel!Lost, Channel!Regained, Channel!Stopped
  <2>1. ASSUME NEW t \in Tasks, Step(t)
        PROVE  Channel!Next
    <3>1. CASE StartFails(t) \/ StopOver(t)
      BY <2>1, <3>1 DEF StartFails, StopOver, Stop, phase
    <3>2. CASE QueryNothing(t) \/ QueryResume(t)
      BY <2>1, <3>2 DEF QueryNothing, QueryResume, PollOver, Abandon, channel, phase
    <3>3. CASE ~(StartFails(t) \/ StopOver(t) \/ QueryNothing(t) \/ QueryResume(t))
      <4>1. UNCHANGED <<started, stopped, connected>>
        BY <2>1, <3>3
        DEF Step, Wake, Acquire, TokenOk, TokenRefused, CallFails, RenewOk, RenewRefused,
            CallRefused, ReadOk, OpenOk, Unsubscribe, Subscribe, SyncFails, SyncDone,
            Query, QueryAnswered, QueryRaises, AbandonOver, CancelDelivered, Abandon,
            channel, phase
      <4> QED
        BY <4>1
    <3> QED
      BY <3>1, <3>2, <3>3
  <2>2. CASE UnloadBegin
    BY <2>2 DEF UnloadBegin, Stop
  <2>3. ASSUME NEW c \in Conns, Break(c) \/ Disconnect(c)
        PROVE  Channel!Next
    BY <2>3 DEF Break, Disconnect, phase
  <2>4. CASE \/ LoadProfiles \/ PollBegin \/ LocationEvent \/ RenewWaitOver
             \/ RenewElsewhere \/ CancelSetup \/ Stabilise \/ UNCHANGED vars
    BY <2>4 DEF LoadProfiles, PollBegin, LocationEvent, RenewWaitOver, RenewElsewhere,
       CancelSetup, Stabilise, vars, channel, phase
  <2> QED
    BY <2>1, <2>2, <2>3, <2>4 DEF Next
<1> QED
  BY <1>1, <1>2, Invariant, PTL DEF Spec, Channel!Safety

-----------------------------------------------------------------------------
(* One connection: its inductive invariant is what each of its stages rules out *)

CONSTANT MaxWire
VARIABLES opener, ws, link, wire, owed, closed, reader, pinger, pong, shutdown, closer, reported

Nats == INSTANCE NatsConnection

\* The tasks exist from _start on, the reader first.
NatsStages ==
    /\ opener \in {"ws", "info", "pong", "failed"} => reader = "none"
    /\ reader = "none" => pinger = "none"
    /\ opener = "returned" => pinger # "none"
    /\ reader # "none" /\ pinger = "none" => pong = "none"

\* Nothing is lost or closed before it runs, and either is an end.
NatsEnds ==
    /\ reported = 1 => closed
    /\ closer # "none" => closed
    /\ closed => reader # "none"

NatsIInv == Nats!TypeOK /\ Nats!EndIsKnown /\ Nats!PingsMatched /\ NatsStages /\ NatsEnds

-----------------------------------------------------------------------------
(* Invariance *)

LEMMA InitNats == Nats!Init => NatsIInv
<1> SUFFICES ASSUME Nats!Init PROVE NatsIInv
    OBVIOUS
<1> USE DEF Nats!Init
<1>1. wire \in Seq(Nats!Messages)
  OBVIOUS
<1>2. Nats!TypeOK
  BY <1>1 DEF Nats!TypeOK
<1> QED BY <1>2 DEF NatsIInv, Nats!EndIsKnown, Nats!PingsMatched, NatsStages, NatsEnds

\* What is left on the wire is still messages.
LEMMA WireTail ==
  ASSUME Nats!TypeOK, wire # <<>>
  PROVE  Head(wire) \in Nats!Messages /\ Tail(wire) \in Seq(Nats!Messages)
  BY DEF Nats!TypeOK

\* Whoever notices a loss, it is reported by then, and only once.
LEMMA LostReports ==
  ASSUME NatsIInv, Nats!Lost, UNCHANGED closer
  PROVE  /\ closed' = TRUE
         /\ reported' \in {0, 1}
         /\ shutdown' \in {"none", "begin", "done"}
         /\ reported' = 1 \/ closer' # "none"
  BY DEF NatsIInv, Nats!TypeOK, Nats!EndIsKnown, NatsEnds, Nats!Lost

LEMMA NextNats == NatsIInv /\ [Nats!Next]_(Nats!vars) => NatsIInv'
<1> SUFFICES ASSUME NatsIInv, [Nats!Next]_(Nats!vars) PROVE NatsIInv'
    OBVIOUS
<1> USE DEF NatsIInv, Nats!TypeOK, Nats!EndIsKnown, Nats!PingsMatched, NatsStages, NatsEnds, Nats!network, Nats!tasks
<1>1. CASE Nats!WsOpen
  BY <1>1 DEF Nats!WsOpen
<1>2. CASE Nats!Info
  BY <1>2, WireTail DEF Nats!Info, Nats!Fail
<1>3. CASE Nats!Welcome
  BY <1>3, WireTail DEF Nats!Welcome, Nats!Fail, Nats!Settled
<1>4. CASE Nats!ConnectFails
  BY <1>4 DEF Nats!ConnectFails, Nats!Fail
<1>5. CASE Nats!StartReader
  BY <1>5 DEF Nats!StartReader
<1>6. CASE Nats!StartKeepalive
  BY <1>6 DEF Nats!StartKeepalive
<1>7. CASE Nats!Return
  BY <1>7 DEF Nats!Return
<1>8. CASE Nats!Read
  <2>1. wire' \in Seq(Nats!Messages)
    BY <1>8, WireTail DEF Nats!Read
  <2>2. PICK m : pong' = Nats!Settled(m)
    BY <1>8 DEF Nats!Read
  <2>3. CASE Nats!Lost
    <3>1. UNCHANGED closer
      BY <1>8 DEF Nats!Read
    <3> QED BY <1>8, <2>1, <2>2, <2>3, <3>1, LostReports DEF Nats!Read, Nats!Settled
  <2>4. CASE UNCHANGED <<closed, reported, shutdown>>
    BY <1>8, <2>1, <2>2, <2>4 DEF Nats!Read, Nats!Settled
  <2> QED BY <1>8, <2>3, <2>4 DEF Nats!Read
<1>9. CASE Nats!Ping
  BY <1>9 DEF Nats!Ping
<1>10. CASE Nats!PingFails
  BY <1>10, LostReports DEF Nats!PingFails
<1>11. CASE Nats!Ponged
  BY <1>11 DEF Nats!Ponged
<1>12. CASE Nats!PongTimeout
  BY <1>12, LostReports DEF Nats!PongTimeout
<1>13. CASE Nats!ShutdownTask
  BY <1>13 DEF Nats!ShutdownTask, Nats!Shutdown
<1>14. CASE Nats!CloseBegin
  BY <1>14 DEF Nats!CloseBegin, Nats!Shutdown
<1>15. CASE Nats!CloseDone
  BY <1>15 DEF Nats!CloseDone
<1>16. CASE Nats!ServerSends
  <2>1. PICK m \in Nats!Messages :
          /\ "pong" \in m => owed > 0
          /\ wire' = Append(wire, m)
          /\ owed' = IF "pong" \in m THEN owed - 1 ELSE owed
    BY <1>16 DEF Nats!ServerSends
  <2>2. wire' \in Seq(Nats!Messages)
    BY <2>1
  <2>3. owed' \in Nat
    BY <2>1
  <2> QED BY <1>16, <2>2, <2>3 DEF Nats!ServerSends
<1>17. CASE Nats!LinkDies
  BY <1>17 DEF Nats!LinkDies
<1>18. CASE UNCHANGED Nats!vars
  BY <1>18 DEF Nats!vars
<1> QED BY <1>1, <1>2, <1>3, <1>4, <1>5, <1>6, <1>7, <1>8, <1>9, <1>10, <1>11, <1>12,
           <1>13, <1>14, <1>15, <1>16, <1>17, <1>18 DEF Nats!Next

LEMMA NatsInvariance == Nats!Spec => []NatsIInv
  BY InitNats, NextNats, PTL DEF Nats!Spec

\* Every variable keeps its type; in particular a loss is reported once at most.
THEOREM NatsTypeCorrect == Nats!Spec => []Nats!TypeOK
<1>1. NatsIInv => Nats!TypeOK
  BY DEF NatsIInv
<1> QED BY <1>1, NatsInvariance, PTL

\* A connection never ends without its owner knowing.
THEOREM EndsAreKnown == Nats!Spec => []Nats!EndIsKnown
<1>1. NatsIInv => Nats!EndIsKnown
  BY DEF NatsIInv
<1> QED BY <1>1, NatsInvariance, PTL

\* While the keepalive sleeps no PING of it is outstanding.
THEOREM PingsMatch == Nats!Spec => []Nats!PingsMatched
<1>1. NatsIInv => Nats!PingsMatched
  BY DEF NatsIInv
<1> QED BY <1>1, NatsInvariance, PTL

-----------------------------------------------------------------------------
(* Refinement *)

LEMMA InitLink == Nats!Init => Nats!Link!Init
  BY DEF Nats!Init, Nats!Link!Init, Nats!LinkState

LEMMA NextLink == NatsIInv /\ [Nats!Next]_(Nats!vars) => [Nats!Link!Next]_(Nats!LinkState)
<1> SUFFICES ASSUME NatsIInv, [Nats!Next]_(Nats!vars) PROVE [Nats!Link!Next]_(Nats!LinkState)
    OBVIOUS
<1> USE DEF NatsIInv, Nats!TypeOK, NatsStages, NatsEnds, Nats!EndIsKnown, Nats!network, Nats!tasks, Nats!LinkState,
            Nats!Link!Next, Nats!Link!Opened, Nats!Link!Failed, Nats!Link!Lost, Nats!Link!Closed
<1>1. CASE Nats!WsOpen
  BY <1>1 DEF Nats!WsOpen
<1>2. CASE Nats!Info
  BY <1>2 DEF Nats!Info, Nats!Fail
<1>3. CASE Nats!Welcome
  BY <1>3 DEF Nats!Welcome, Nats!Fail
<1>4. CASE Nats!ConnectFails
  BY <1>4 DEF Nats!ConnectFails, Nats!Fail
<1>5. CASE Nats!StartReader
  BY <1>5 DEF Nats!StartReader
<1>6. CASE Nats!StartKeepalive
  BY <1>6 DEF Nats!StartKeepalive
<1>7. CASE Nats!Return
  BY <1>7 DEF Nats!Return
<1>8. CASE Nats!Read
  <2>1. reader' # "none" /\ reader # "none" /\ UNCHANGED <<opener, closer>>
    BY <1>8 DEF Nats!Read
  <2>2. Nats!Lost \/ UNCHANGED <<closed, reported, shutdown>>
    BY <1>8 DEF Nats!Read
  <2> QED BY <2>1, <2>2 DEF Nats!Lost
<1>9. CASE Nats!Ping
  BY <1>9 DEF Nats!Ping
<1>10. CASE Nats!PingFails
  BY <1>10 DEF Nats!PingFails, Nats!Lost
<1>11. CASE Nats!Ponged
  BY <1>11 DEF Nats!Ponged
<1>12. CASE Nats!PongTimeout
  BY <1>12 DEF Nats!PongTimeout, Nats!Lost
<1>13. CASE Nats!ShutdownTask
  BY <1>13 DEF Nats!ShutdownTask, Nats!Shutdown
<1>14. CASE Nats!CloseBegin
  BY <1>14 DEF Nats!CloseBegin, Nats!Shutdown
<1>15. CASE Nats!CloseDone
  BY <1>15 DEF Nats!CloseDone
<1>16. CASE Nats!ServerSends
  BY <1>16 DEF Nats!ServerSends
<1>17. CASE Nats!LinkDies
  BY <1>17 DEF Nats!LinkDies
<1>18. CASE UNCHANGED Nats!vars
  BY <1>18 DEF Nats!vars
<1> QED BY <1>1, <1>2, <1>3, <1>4, <1>5, <1>6, <1>7, <1>8, <1>9, <1>10, <1>11, <1>12,
           <1>13, <1>14, <1>15, <1>16, <1>17, <1>18 DEF Nats!Next

\* A connection opens or fails, and an open one is closed or reported lost, once:
\* the safety part of what it promises.
THEOREM NatsImplementsSafety == Nats!Spec => Nats!Link!Safety
<1>1. Nats!Link!Safety <=> Nats!Link!Init /\ [][Nats!Link!Next]_(Nats!LinkState)
  BY DEF Nats!Link!Safety
<1> QED BY <1>1, InitLink, NextLink, NatsInvariance, PTL DEF Nats!Spec

=============================================================================
