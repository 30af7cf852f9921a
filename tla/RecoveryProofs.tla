--------------------------- MODULE RecoveryProofs ---------------------------
(***************************************************************************)
(* The two layers of recovery together, for any number of connections and  *)
(* of channels: each manager is still the one its own module describes, so *)
(* that what is proved of it alone holds of it in the composed system.     *)
(***************************************************************************)
EXTENDS Recovery, TLAPS

CP == INSTANCE ConnectionManagerProofs

HP == INSTANCE ChannelManagerProofs WITH
        closed <- chClosed, reconnectionCount <- chReconnectionCount,
        closing <- chClosing, borrowed <- chBorrowed, obj <- chObj, pc <- chPc,
        watched <- chWatched, held <- chHeld,
        conn <- obj[connection], connClosed <- closed /\ ~closing

----------------------------------------------------------------------------
(* The connection manager *)

USE DEF C!Conns, C!Watchers, C!None, C!Live, C!managerVars, C!blockVars, C!loopVars

\* Every step is one of the connection manager, or none of its own.
LEMMA ConnectionSteps == ASSUME connection \in C!Conns, [Next]_vars PROVE [C!Next]_(C!vars)
<1>1. UNCHANGED connVars => UNCHANGED C!vars
  BY DEF connVars, C!vars
<1>2. CASE ConnectionDies \/ ConnectionOnly \/ ConnectionCloses
  BY <1>2 DEF ConnectionDies, ConnectionOnly, ConnectionCloses, C!Next, C!LibraryStep, C!UserStep
<1>3. ASSUME NEW w \in C!Watchers, ConnectionLoop(w) \/ Broadcast(w) PROVE C!Next
  BY <1>3 DEF ConnectionLoop, Broadcast, C!Next, C!WatcherStep
<1>4. ASSUME NEW w \in H!Watchers, TakeConnection(w) \/ UseConnection(w) PROVE C!Next
  <2>1. w \in Borrowers
    BY BorrowersAssumption DEF H!Watchers
  <2> QED BY <1>4, <2>1 DEF TakeConnection, UseConnection, C!Next, C!UserStep
<1>5. CASE ChannelOnly \/ UNCHANGED vars
  BY <1>1, <1>5 DEF ChannelOnly, vars
<1>6. ASSUME NEW w \in H!Watchers, ChannelLocal(w) \/ AskIsClosed(w) \/ Drain(w) PROVE UNCHANGED C!vars
  BY <1>1, <1>6 DEF ChannelLocal, AskIsClosed, Drain
<1> QED BY <1>2, <1>3, <1>4, <1>5, <1>6 DEF Next, ConnectionStep, ChannelWatcherStep

\* The two instances of ConnectionManager are one specification.
LEMMA SameConnection == [C!Next]_(C!vars) => [CP!Next]_(CP!vars)
<1> USE DEF CP!Conns, CP!Watchers, CP!None, CP!Live, CP!managerVars, CP!blockVars, CP!loopVars
<1>1. C!LibraryStep => CP!LibraryStep
  BY DEF C!LibraryStep, CP!LibraryStep, C!Lose, CP!Lose, C!Restore, CP!Restore, C!Exhaust,
         CP!Exhaust
<1>2. C!UserStep => CP!UserStep
  BY DEF C!UserStep, CP!UserStep, C!Borrow, CP!Borrow, C!GiveBack, CP!GiveBack,
         C!NotifyBlockedSafe, CP!NotifyBlockedSafe, C!CloseBegin, CP!CloseBegin, C!CloseEnd,
         CP!CloseEnd, C!ClosedObj, CP!ClosedObj, C!WriteLockFree, CP!WriteLockFree
<1>3. ASSUME NEW n PROVE C!Delays(Interval, n) = CP!Delays(Interval, n)
  BY DEF C!Delays, CP!Delays, C!Shifted, CP!Shifted, C!Wrap, CP!Wrap, C!Quarter, CP!Quarter,
         C!Capped, CP!Capped, C!Pow2, CP!Pow2, C!maxAttempt, CP!maxAttempt
<1>4. ASSUME NEW w \in C!Watchers, C!SeeDead(w) \/ C!DialFails(w) PROVE CP!WatcherStep(w)
  <2> HIDE DEF C!Delays
  <2> QED BY <1>3, <1>4 DEF CP!WatcherStep, CP!LoopStep, C!SeeDead, CP!SeeDead, C!DialFails,
                                                         CP!DialFails, C!BackOff, CP!BackOff
<1>5. ASSUME NEW w \in C!Watchers, C!WatcherStep(w), ~C!SeeDead(w), ~C!DialFails(w) PROVE CP!WatcherStep(w)
  BY <1>5 DEF C!WatcherStep, CP!WatcherStep, C!LoopStep, CP!LoopStep, C!Register, CP!Register,
              C!SeeGraceful, CP!SeeGraceful, C!LeaveLoop, CP!LeaveLoop, C!StopWaiting,
              CP!StopWaiting, C!TimerFires, CP!TimerFires, C!DialSucceeds, CP!DialSucceeds,
              C!Install, CP!Install, C!Refuse, CP!Refuse, C!Discard, CP!Discard, C!CloseOld,
              CP!CloseOld, C!Count, CP!Count, C!DispatchDone, CP!DispatchDone, C!ClosedObj,
              CP!ClosedObj, C!WriteLockFree, CP!WriteLockFree
<1> QED BY <1>1, <1>2, <1>4, <1>5 DEF C!Next, CP!Next, C!vars, CP!vars

\* So its invariant holds in the composed system.
LEMMA ConnectionInvariant == Spec => []CP!IInv
<1>1. Init => CP!Init
  BY DEF Init, C!Init, CP!Init, CP!Conns, CP!Watchers, CP!None
<1>2. CP!IInv => connection \in C!Conns
  BY DEF CP!IInv, CP!TypeOK, CP!Conns
<1> USE BoundsAssumption, IntervalAssumption, LateAssumption DEF CP!Durations
<1>3. CP!Init => CP!IInv
  BY CP!InitIInv
<1>4. CP!IInv /\ [CP!Next]_(CP!vars) => CP!IInv'
  BY CP!NextIInv
<1>5. CP!IInv /\ [Next]_vars => CP!IInv'
  BY <1>2, <1>4, ConnectionSteps, SameConnection
<1> QED BY <1>1, <1>3, <1>5, PTL DEF Spec

\* The connection manager does not notice that a channel manager borrows from it.
THEOREM ImplementsConnectionManager == Spec => C!Spec
<1>1. Init => C!Init
  BY DEF Init
<1>2. CP!IInv => connection \in C!Conns
  BY DEF CP!IInv, CP!TypeOK, CP!Conns
<1>3. CP!IInv /\ [Next]_vars => [C!Next]_(C!vars)
  BY <1>2, ConnectionSteps
<1> QED BY <1>1, <1>3, ConnectionInvariant, PTL DEF Spec, C!Spec

----------------------------------------------------------------------------
(* The channel manager *)

\* What it sees of the connection manager, and why it may.
ConnectionFacts ==
    /\ connection \in C!Conns /\ obj \in [C!Conns -> C!ObjectStates]
    /\ closed \in BOOLEAN /\ closing \in BOOLEAN
    /\ closing => closed
    /\ obj[connection] # "undialed"
    /\ obj[connection] = "closed" => closed /\ ~closing
    /\ \A w \in C!Watchers : pc[w] = "install" =>
         /\ obj[connection] = "dead"
         /\ held[w] \in C!Conns /\ held[w] # connection
         /\ obj[held[w]] \in {"open", "reconnecting", "dead"}
    /\ \A w \in C!Watchers : pc[w] = "discard" => held[w] # connection
    /\ \A w \in C!Watchers : pc[w] = "closeOld" => obj[held[w]] = "dead"

LEMMA FactsFromInvariant == CP!IInv => ConnectionFacts
  BY DEF ConnectionFacts, CP!IInv, CP!TypeOK, CP!Conns, CP!Watchers, CP!ObjectStates, C!ObjectStates,
         CP!ClosingIsClosed, CP!ClosedByCloseOnly, CP!ReplacesTheDead

Seen == <<obj[connection], closed /\ ~closing>>

\* In its loop the connection manager touches the current object only to replace it.
LEMMA LoopSteps ==
    ASSUME ConnectionFacts, NEW w \in C!Watchers, C!LoopStep(w)
    PROVE  \/ Seen' = Seen
           \/ /\ obj[connection] = "dead" /\ obj'[connection'] \in {"open", "reconnecting"}
              /\ ~closed /\ UNCHANGED <<closed, closing>>
<1> USE DEF ConnectionFacts, Seen
<1>1. CASE \/ C!Register(w) \/ C!SeeGraceful(w) \/ C!SeeDead(w) \/ C!StopWaiting(w) \/ C!TimerFires(w)
           \/ C!DialFails(w) \/ C!Refuse(w) \/ C!Count(w)
  BY <1>1 DEF C!Register, C!SeeGraceful, C!SeeDead, C!StopWaiting, C!TimerFires, C!DialFails,
              C!Refuse, C!Count
<1>2. ASSUME NEW c \in C!Conns, C!DialSucceeds(w, c) PROVE Seen' = Seen
  BY <1>2 DEF C!DialSucceeds
<1>3. CASE C!Install(w)
  BY <1>3 DEF C!Install
<1>4. CASE C!Discard(w)
  BY <1>4 DEF C!Discard, C!ClosedObj
<1>5. CASE C!CloseOld(w)
  BY <1>5 DEF C!CloseOld, C!ClosedObj
<1> QED BY <1>1, <1>2, <1>3, <1>4, <1>5 DEF C!LoopStep

LEMMA ChannelSteps == ASSUME ConnectionFacts, [Next]_vars PROVE [H!Next]_(H!vars)
<1> USE DEF H!vars, H!connVars, chanVars, restOfChanVars, connVars, H!lockVars, H!chanVars, H!objVars,
            H!listenVars
<1>1. UNCHANGED chanVars /\ Seen' = Seen => UNCHANGED H!vars
  BY DEF Seen
<1>2. UNCHANGED connVars => Seen' = Seen
  BY DEF Seen
<1>3. CASE ConnectionDies
  BY <1>3 DEF ConnectionDies, C!Exhaust, ConnectionFacts, H!Next, H!ConnStep, H!ConnDies
<1>4. CASE ConnectionCloses
  BY <1>4 DEF ConnectionCloses, C!CloseEnd, C!ClosedObj, ConnectionFacts, C!ObjectStates, H!Next,
              H!ConnStep, H!ConnCloses
<1>5. ASSUME NEW c \in C!Conns, C!Lose(c) \/ C!Restore(c), UNCHANGED chanVars
      PROVE  H!Next \/ UNCHANGED H!vars
  <2>1. CASE c = connection
    BY <1>5, <2>1 DEF C!Lose, C!Restore, ConnectionFacts, H!Next, H!ConnStep, H!ConnWavers
  <2>2. CASE c # connection
    <3>1. Seen' = Seen
      BY <1>5, <2>2 DEF C!Lose, C!Restore, ConnectionFacts, Seen
    <3> QED BY <1>1, <1>5, <3>1
  <2> QED BY <2>1, <2>2
<1>6. ASSUME NEW c \in C!Conns, c # connection, C!Exhaust(c) PROVE Seen' = Seen
  BY <1>6 DEF C!Exhaust, ConnectionFacts, Seen
<1>7. C!CloseBegin => Seen' = Seen
  BY DEF C!CloseBegin, Seen
<1>8. CASE ConnectionOnly
  BY <1>1, <1>5, <1>6, <1>7, <1>8 DEF ConnectionOnly
<1>9. ASSUME NEW w \in C!Watchers, ConnectionLoop(w) PROVE H!Next \/ UNCHANGED H!vars
  <2>1. CASE Seen' = Seen
    BY <1>1, <1>9, <2>1 DEF ConnectionLoop
  <2>2. CASE Seen' # Seen
    BY <1>9, <2>2, LoopSteps DEF ConnectionLoop, H!Next, H!ConnStep, H!ConnReplaced
  <2> QED BY <2>1, <2>2
<1>10. ASSUME NEW w \in C!Watchers, Broadcast(w) PROVE H!Next
  BY <1>10 DEF Broadcast, H!Next, H!ConnStep
<1>11. CASE ChannelOnly
  BY <1>11 DEF ChannelOnly, H!Next, H!ConnStep
<1>12. ASSUME NEW w \in H!Watchers, ChannelLocal(w) \/ UseConnection(w) \/ AskIsClosed(w) \/ Drain(w)
       PROVE  H!Next
  BY <1>12 DEF ChannelLocal, UseConnection, AskIsClosed, Drain, H!Next, H!WatcherStep
<1>13. ASSUME NEW w \in H!Watchers, TakeConnection(w) PROVE UNCHANGED H!vars
  <2>1. Seen' = Seen
    BY <1>13 DEF TakeConnection, C!Borrow, Seen
  <2> QED BY <1>1, <1>13, <2>1 DEF TakeConnection
<1>14. CASE UNCHANGED vars
  BY <1>1, <1>2, <1>14 DEF vars
<1> QED BY <1>3, <1>4, <1>8, <1>9, <1>10, <1>11, <1>12, <1>13, <1>14
        DEF Next, ConnectionStep, ChannelWatcherStep

\* The connection manager behaves towards the channel manager as ChannelManager
\* lets its environment behave, whatever connections it replaces meanwhile
\* (channel.go:218-252).
THEOREM Implementation == Spec => ImplementsChannelManager
<1>1. Init => H!Init
  BY DEF Init
<1>2. CP!IInv /\ [Next]_vars => [H!Next]_(H!vars)
  BY FactsFromInvariant, ChannelSteps
<1> QED BY <1>1, <1>2, ConnectionInvariant, PTL DEF Spec, ImplementsChannelManager, H!Spec

\* The two instances of ChannelManager are one specification.
LEMMA SameChannel == H!Spec => HP!Spec
<1> USE DEF H!Chans, HP!Chans, H!Watchers, HP!Watchers, H!None, HP!None, H!lockVars, HP!lockVars,
            H!chanVars, HP!chanVars, H!objVars, HP!objVars, H!listenVars, HP!listenVars,
            H!connVars, HP!connVars, H!connSideVars, HP!connSideVars
<1>1. H!Init => HP!Init
  BY DEF H!Init, HP!Init
<1>2. H!BrokerStep => HP!BrokerStep
  BY DEF H!BrokerStep, HP!BrokerStep, H!ChannelDies, HP!ChannelDies, H!BrokerCancels,
         HP!BrokerCancels, H!Spare, HP!Spare
<1>3. H!ConnStep => HP!ConnStep
  BY DEF H!ConnStep, HP!ConnStep, H!ConnWavers, HP!ConnWavers, H!ConnDies, HP!ConnDies,
         H!ConnReplaced, HP!ConnReplaced, H!ConnCloses, HP!ConnCloses, H!ConnOffers,
         HP!ConnOffers, H!OfferExpires, HP!OfferExpires, H!AllEnd, HP!AllEnd, H!Spare, HP!Spare
<1>4. H!UserStep => HP!UserStep
  BY DEF H!UserStep, HP!UserStep, H!Borrow, HP!Borrow, H!GiveBack, HP!GiveBack, H!ConfirmBegin,
         HP!ConfirmBegin, H!ConfirmEnd, HP!ConfirmEnd, H!CloseBegin, HP!CloseBegin, H!CloseEnd,
         HP!CloseEnd, H!NoReader, HP!NoReader, H!NoWriter, HP!NoWriter, H!WriteLockFree,
         HP!WriteLockFree, H!RpcSucceeds, HP!RpcSucceeds, H!RpcFails, HP!RpcFails, H!Spare,
         HP!Spare, H!ClosedObj, HP!ClosedObj
<1>5. ASSUME NEW w \in H!Watchers, H!LocalStep(w) PROVE HP!LocalStep(w)
  <2>1. CASE \/ H!Register(w) \/ H!SeeGraceful(w) \/ H!SeeDead(w) \/ H!SeeCancel(w)
             \/ H!StopWaiting(w) \/ H!ConnReconnected(w) \/ H!TimerFires(w) \/ H!Spawn(w)
             \/ H!DispatchDone(w)
    BY <2>1 DEF HP!LocalStep, H!Register, HP!Register, H!SeeGraceful, HP!SeeGraceful, H!SeeDead,
                HP!SeeDead, H!SeeCancel, HP!SeeCancel, H!StopWaiting, HP!StopWaiting,
                H!ConnReconnected, HP!ConnReconnected, H!TimerFires, HP!TimerFires, H!Spawn,
                HP!Spawn, H!DispatchDone, HP!DispatchDone, H!Goto, HP!Goto
  <2>2. CASE \/ H!Install(w) \/ H!BeginRearm(w) \/ H!Rearmed(w) \/ H!RearmFails(w)
             \/ H!Refuse(w)
    BY <2>2 DEF HP!LocalStep, H!Install, HP!Install, H!BeginRearm, HP!BeginRearm, H!Rearmed,
                HP!Rearmed, H!RearmFails, HP!RearmFails, H!Refuse, HP!Refuse, H!Goto, HP!Goto,
                H!Swap, HP!Swap, H!NoReader, HP!NoReader, H!NoWriter, HP!NoWriter,
                H!WriteLockFree, HP!WriteLockFree, H!RpcSucceeds, HP!RpcSucceeds, H!RpcFails,
                HP!RpcFails, H!Spare, HP!Spare
  <2>3. CASE H!CloseRejected(w) \/ H!Discard(w) \/ H!CloseOld(w)
    BY <2>3 DEF HP!LocalStep, H!CloseRejected, HP!CloseRejected, H!Discard, HP!Discard,
                H!CloseOld, HP!CloseOld, H!CloseHeld, HP!CloseHeld, H!ClosedObj, HP!ClosedObj
  <2> QED BY <1>5, <2>1, <2>2, <2>3 DEF H!LocalStep
<1>6. ASSUME NEW w \in H!Watchers,
             H!OpenStep(w) \/ H!CheckStep(w) \/ H!SubscriptionStep(w) \/ H!DrainStateChanges(w)
      PROVE  HP!WatcherStep(w) \/ HP!DrainStateChanges(w)
  BY <1>6 DEF HP!WatcherStep, H!OpenStep, HP!OpenStep, H!OpenFails, HP!OpenFails,
              H!OpenSucceeds, HP!OpenSucceeds, H!CheckStep, HP!CheckStep, H!GiveUp, HP!GiveUp,
              H!Retry, HP!Retry, H!ConnIsClosed, HP!ConnIsClosed, H!SubscriptionStep,
              HP!SubscriptionStep, H!Subscribe, HP!Subscribe, H!Unsubscribe, HP!Unsubscribe,
              H!DrainStateChanges, HP!DrainStateChanges, H!Goto, HP!Goto, H!Ended, HP!Ended
<1>7. [H!Next]_(H!vars) => [HP!Next]_(HP!vars)
  BY <1>2, <1>3, <1>4, <1>5, <1>6
     DEF H!Next, HP!Next, H!WatcherStep, HP!WatcherStep, H!vars, HP!vars
<1> QED BY <1>1, <1>7, PTL DEF H!Spec, HP!Spec

\* So its invariant holds in the composed system too.
LEMMA ChannelInvariant == Spec => []HP!IInv
<1> USE BoundsAssumption
<1>1. HP!Spec => []HP!IInv
  BY HP!ManagerInvariant
<1> QED BY <1>1, Implementation, SameChannel, PTL DEF ImplementsChannelManager

----------------------------------------------------------------------------
(* What the two layers keep together *)

\* However the two Closes, the two loops and their rebuilds meet, no connection
\* and no channel is left alive that nobody will close (connection.go:254-270,
\* channel.go:258-264).
THEOREM NoOrphans == Spec => [](C!NoOrphanConnection /\ H!NoOrphanChannel)
<1>1. CP!IInv => C!NoOrphanConnection
  BY DEF CP!IInv, CP!NoOrphanConnection, C!NoOrphanConnection, CP!Conns, CP!Watchers, CP!Live
<1>2. HP!IInv => H!NoOrphanChannel
  BY DEF HP!IInv, HP!NoOrphanChannel, H!NoOrphanChannel, HP!Chans, H!Chans, HP!Watchers,
         H!Watchers
<1> QED BY <1>1, <1>2, ConnectionInvariant, ChannelInvariant, PTL

\* No channel is open without a connection that is alive; in particular none once
\* the connection manager's Close has returned, although nobody closed the channel
\* manager and its loop may have been about to open one (connection.go:144-155,
\* channel.go:218-252).
THEOREM ChannelsEndWithConnection ==
    Spec => [](\A c \in H!Chans : chObj[c] = "open" =>
                  C!Live(connection) /\ (closed => closing))
<1> DEFINE P == \A c \in H!Chans : chObj[c] = "open" => C!Live(connection) /\ (closed => closing)
<1>1. CP!IInv /\ HP!IInv => P
  <2> SUFFICES ASSUME CP!IInv, HP!IInv, NEW c \in H!Chans, chObj[c] = "open"
               PROVE  C!Live(connection) /\ (closed => closing)
    OBVIOUS
  <2>1. C!Live(connection)
    BY DEF HP!IInv, HP!OnLiveConnection, HP!Chans, H!Chans
  <2>2. CP!TypeOK /\ CP!NoOrphanConnection /\ CP!ReplacesTheDead
    BY DEF CP!IInv
  <2> QED BY <2>1, <2>2 DEF CP!TypeOK, CP!NoOrphanConnection, CP!ReplacesTheDead, CP!Conns,
                            CP!Watchers, CP!Live
<1> HIDE DEF P
<1>2. Spec => []P
  BY <1>1, ConnectionInvariant, ChannelInvariant, PTL
<1> QED BY <1>2 DEF P

\* Consumers and publishers are built on ManagedChannel, and that is what they get
\* from a channel manager on a real connection manager: the promise survives both
\* layers.
THEOREM OwnersPromise == Spec => HP!ImplementsManagedChannel
<1> USE BoundsAssumption
<1>1. HP!Spec => HP!ImplementsManagedChannel
  BY HP!Implementation
<1> QED BY <1>1, Implementation, SameChannel, PTL DEF ImplementsChannelManager

=============================================================================
