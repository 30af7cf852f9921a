------------------------------ MODULE Recovery ------------------------------
(***************************************************************************)
(* A channel manager on the connection manager it borrows from: the two    *)
(* layers of fallback recovery together.                                   *)
(*                                                                         *)
(* They meet in four places.  The channels of a connection object end with *)
(* it; getNewChannel opens under the connection's read lock; reconnectLoop *)
(* of the channel subscribes to the connection's reconnect events; and     *)
(* when a rebuild fails it asks connManager.IsClosed() whether to go on.   *)
(***************************************************************************)
EXTENDS Integers

CONSTANTS MaxConns, Borrowers, Interval, MaxFailures, LateTerminal, Limit,
          MaxChans, Users

\* Who borrows a connection is the goroutine of a channel watcher.
ASSUME BorrowersAssumption == Borrowers = 1..MaxChans
ASSUME BoundsAssumption == {MaxConns, MaxChans, Limit} \subseteq Nat \ {0} /\ MaxFailures \in Nat
ASSUME IntervalAssumption == Interval \in -Limit .. Limit - 1
ASSUME LateAssumption == LateTerminal \subseteq {"told", "dropped"}

VARIABLES
    \* the connection manager
    connection, closed, closeSignal, reconnectionCount,
    universalNotifyBlockingReceiverUsed, closing, borrowed, obj, listening, pc,
    watched, held, attempt, delay,
    \* the channel manager
    channel, chClosed, confirmMode, chReconnectionCount, chClosing, confirming,
    chBorrowed, observed, chObj, confirmed, chPc, chWatched, chHeld, cancelled,
    draining, drained, subs, offered

C == INSTANCE ConnectionManager

\* The read lock keeps IsClosed() waiting while Close is under way, so nobody
\* sees the closed flag without the closed object.
H == INSTANCE ChannelManager WITH
       closed <- chClosed, reconnectionCount <- chReconnectionCount,
       closing <- chClosing, borrowed <- chBorrowed, obj <- chObj, pc <- chPc,
       watched <- chWatched, held <- chHeld,
       conn <- obj[connection], connClosed <- closed /\ ~closing

connVars == <<connection, closed, closeSignal, reconnectionCount,
              universalNotifyBlockingReceiverUsed, closing, borrowed, obj, listening, pc,
              watched, held, attempt, delay>>
chanVars == <<channel, chClosed, confirmMode, chReconnectionCount, chClosing, confirming,
              chBorrowed, observed, chObj, confirmed, chPc, chWatched, chHeld, cancelled,
              draining, drained, subs, offered>>
restOfChanVars == <<channel, chClosed, confirmMode, chReconnectionCount, chClosing,
                    confirming, chBorrowed, observed, confirmed, chPc, chWatched, chHeld,
                    cancelled, draining, drained, subs, offered>>
vars == <<connVars, chanVars>>

Init == C!Init /\ H!Init

----------------------------------------------------------------------------

\* The current connection object ends with an error, and every channel on it.
\* Other objects have no channels.
ConnectionDies ==
    /\ H!Spare
    /\ C!Exhaust(connection)
    /\ chObj' = H!AllEnd("dead")
    /\ UNCHANGED restOfChanVars

\* The connection manager's Close: an object that is alive ends with its channels.
ConnectionCloses ==
    /\ C!CloseEnd
    /\ chObj' = IF C!Live(connection) THEN H!AllEnd("closed") ELSE chObj
    /\ UNCHANGED restOfChanVars

\* What the connection manager does without any effect on the channel.
ConnectionOnly ==
    /\ \/ \E c \in C!Conns : C!Lose(c) \/ C!Restore(c) \/ (c # connection /\ C!Exhaust(c))
       \/ C!CloseBegin
    /\ UNCHANGED chanVars

ConnectionLoop(w) == C!LoopStep(w) /\ UNCHANGED chanVars

\* A reconnect event of the connection, offered to the loop that subscribed.
Broadcast(w) == C!DispatchDone(w) /\ H!ConnOffers

\* What the channel manager does without asking the connection manager anything.
ChannelOnly ==
    /\ UNCHANGED connVars
    /\ \/ H!BrokerStep \/ H!UserStep
       \/ \E w \in H!Watchers : H!OfferExpires(w)

Drain(w) == UNCHANGED connVars /\ H!DrainStateChanges(w)

\* A step of a channel watcher on its own, Subscribe and Unsubscribe included:
\* they only take the lock of the dispatcher's map.
ChannelLocal(w) ==
    /\ UNCHANGED connVars
    /\ H!LocalStep(w) \/ H!SubscriptionStep(w)

\* getNewChannel: WithConnection lends the connection ...
TakeConnection(w) == chPc[w] = "open" /\ C!Borrow(w) /\ UNCHANGED chanVars

\* ... for conn.Channel(), and takes it back.
UseConnection(w) == C!GiveBack(w) /\ H!OpenStep(w)

\* After a failure, IsClosed() under the connection's read lock.
AskIsClosed(w) == ~closing /\ UNCHANGED connVars /\ H!CheckStep(w)

ChannelWatcherStep(w) ==
    ChannelLocal(w) \/ TakeConnection(w) \/ UseConnection(w) \/ AskIsClosed(w)

\* What the connection manager's goroutines, and a Close under way, can do.
ConnectionStep ==
    ConnectionCloses \/ \E w \in C!Watchers : ConnectionLoop(w) \/ Broadcast(w)

Next == \/ ConnectionDies \/ ConnectionOnly \/ ConnectionStep \/ ChannelOnly
        \/ \E w \in H!Watchers : ChannelWatcherStep(w) \/ Drain(w)

Spec == Init /\ [][Next]_vars

\* As much of that of the two managers as recovery and Close need. The connection
\* manager takes finitely many steps of its own, and the two calls exclude each
\* other, so that fairness to all of them together is enough.
Fairness ==
    /\ WF_vars(ConnectionStep)
    /\ \A w \in H!Watchers :
         /\ WF_vars(ChannelWatcherStep(w))
         /\ SF_vars(UNCHANGED connVars /\ (H!Install(w) \/ H!BeginRearm(w) \/ H!Refuse(w)))
    /\ WF_vars(UNCHANGED connVars /\ (H!ConfirmEnd \/ H!CloseEnd))

FairSpec == Spec /\ Fairness

----------------------------------------------------------------------------

\* The connection manager behaves towards the channel manager as ChannelManager
\* lets its environment behave: the composed system implements that module, and
\* what is checked and proved there of the channel holds here.
ImplementsChannelManager == H!Spec

\* Closing the connection ends both layers, whatever rebuilds it meets in them and
\* though nobody closes the channel: no goroutine of the two managers stays behind,
\* no object, no subscription (channel.go:240-247).
ConnectionCloseEndsAll ==
    closed ~> /\ \A w \in C!Watchers : pc[w] \in {"unborn", "done"}
              /\ \A w \in H!Watchers : chPc[w] \in {"unborn", "done"}
              /\ \A c \in C!Conns : ~C!Live(c)
              /\ \A c \in H!Chans : chObj[c] # "open"
              /\ subs = {}

\* No loop looks at the connection while that is being replaced.
NeverMisled == \A w \in H!Watchers : chPc[w] = "check" => ~C!IsClosed

\* When a connection is lost with its channel, the channel is rebuilt on the next
\* connection, or the one after it: no order of the two recoveries, no lost event
\* and no rebuild on a connection that is lost in turn keeps it from that, unless
\* its loop is misled by IsClosed (NeverAbandoned), a manager is closed, or the
\* connection does not come back (channel.go:218-252).
RecoversOnNewConnection ==
    []NeverMisled /\ <>[](obj[connection] = "open")
        => (chObj[channel] = "dead" ~> (chObj[channel] # "dead" \/ closed \/ chClosed))

\* What the README says of the two loops, that they go on for ever until Close:
\* while the channel is dead and neither manager was closed, some watcher is
\* there to replace it (README.md, channel.go:240-247). The code does not keep it:
\* IsClosed() is also true of a connection that is merely being replaced.
NeverAbandoned ==
    chObj[channel] = "dead" /\ ~closed /\ ~chClosed =>
        \E w \in H!Watchers :
            chPc[w] \notin {"unborn", "unsubscribe", "dispatch", "done"}

============================================================================
