--------------------------- MODULE ChannelManager ---------------------------
(***************************************************************************)
(* internal/manager/channel: one AMQP channel on a managed connection, the *)
(* goroutine that watches it for cancellation and for its end, and the     *)
(* loop that opens a replacement.                                          *)
(*                                                                         *)
(* Channel objects and watchers are numbered as in ConnectionManager.tla.  *)
(* Of the connection manager this module sees what the code asks it: the   *)
(* state of its current connection object (conn), whether it was closed    *)
(* (connClosed), and the reconnect events it offers.  Here these move      *)
(* freely; Recovery.tla puts the real connection manager in their place.   *)
(*                                                                         *)
(* Every live channel is on the current connection object: a new one is    *)
(* opened there, and those of an object that ended have ended with it.     *)
(* Timers and the attempt counter only pace the loop (Backoff.tla).        *)
(***************************************************************************)
EXTENDS Integers

CONSTANTS MaxChans,  \* bound on the channel objects ever opened
          Users      \* goroutines that use the channel through *Safe methods

ASSUME MaxChansAssumption == MaxChans \in Nat \ {0}

Chans    == 1..MaxChans
Watchers == 1..MaxChans
None     == 0

VARIABLES channel,           \* m.channel
          closed,            \* m.closed; m.closeSignal is closed with it
          confirmMode,       \* m.confirmMode
          reconnectionCount, \* m.reconnectionCount
          closing,           \* Close holds the write lock and closes the channel
          confirming,        \* ConfirmSafe holds the write lock and confirms
          borrowed,          \* the channel a user is using under the read lock
          observed,          \* history: the <<generation, channel>> pairs users saw
          obj,               \* the library's channel objects
          confirmed,         \* the objects in confirm mode
          pc,                \* where each watcher goroutine is
          watched,           \* the object a watcher listens to
          held,              \* the new, later the old, channel in reconnect()
          cancelled,         \* the watchers with a basic.cancel to read
          draining,          \* the watchers that left a drainStateChanges behind
          drained,           \* the watchers whose state events were read to the end
          subs,              \* the watchers subscribed to the connection's events
          offered,           \* those to which such an event is being offered
          conn, connClosed   \* the connection manager, see above

lockVars   == <<closed, closing, confirming, borrowed, observed>>
chanVars   == <<channel, reconnectionCount, confirmMode>>
objVars    == <<obj, confirmed>>
listenVars == <<watched, cancelled, draining, drained>>
connVars   == <<conn, connClosed>>
vars == <<lockVars, chanVars, objVars, listenVars, pc, held, subs, offered, connVars>>

ObjectStates == {"unopened", "open", "dead", "closed"}
WatcherStates == {"unborn", "register", "watch", "subscribe", "wait", "open",
                  "install", "confirm", "reject", "check", "discard", "closeOld",
                  "spawn", "unsubscribe", "dispatch", "done"}
ConnStates == {"open", "reconnecting", "dead", "closed"}

Ended(c) == obj[c] \in {"dead", "closed"}
ClosedObj(c) == IF obj[c] = "open" THEN [obj EXCEPT ![c] = "closed"] ELSE obj

\* The channels of a connection object that ends, end in the same way.
AllEnd(how) == [c \in Chans |-> IF obj[c] = "open" THEN how ELSE obj[c]]

NoReader       == \A u \in Users : borrowed[u] = None
NoWriter       == ~closing /\ ~confirming /\ \A w \in Watchers : pc[w] # "confirm"
WriteLockFree  == NoReader /\ NoWriter

\* connManager.IsClosed(), as the channel manager sees it.
ConnIsClosed == connClosed \/ conn \in {"dead", "closed"}

Init == /\ channel = 1
        /\ closed = FALSE
        /\ confirmMode = FALSE
        /\ reconnectionCount = 0
        /\ closing = FALSE /\ confirming = FALSE
        /\ borrowed = [u \in Users |-> None]
        /\ observed = {}
        /\ obj = [c \in Chans |-> IF c = 1 THEN "open" ELSE "unopened"]
        /\ confirmed = {}
        /\ pc = [w \in Watchers |-> IF w = 1 THEN "register" ELSE "unborn"]
        /\ watched = [w \in Watchers |-> None]
        /\ held = [w \in Watchers |-> None]
        /\ cancelled = {} /\ draining = {} /\ drained = {}
        /\ subs = {} /\ offered = {}
        /\ conn = "open" /\ connClosed = FALSE

----------------------------------------------------------------------------
(* The library and the broker *)

Spare == \E c \in Chans : obj[c] = "unopened"

\* The end of one channel: a channel exception. Bound: while a spare is left.
ChannelDies ==
    /\ Spare
    /\ \E c \in Chans : obj[c] = "open" /\ obj' = [obj EXCEPT ![c] = "dead"]
    /\ UNCHANGED <<lockVars, chanVars, confirmed, listenVars, pc, held, subs, offered,
                   connVars>>

\* basic.cancel, for instance because the queue was deleted. Only a watcher that
\* has registered hears of it.
BrokerCancels(w) ==
    /\ Spare
    /\ pc[w] = "watch"
    /\ obj[watched[w]] = "open"
    /\ cancelled' = cancelled \cup {w}
    /\ UNCHANGED <<lockVars, chanVars, objVars, watched, draining, drained, pc, held,
                   subs, offered, connVars>>

----------------------------------------------------------------------------
(* The connection manager, as the channel manager sees it *)

\* Its object enters or leaves native recovery.
ConnWavers ==
    /\ \/ conn = "open" /\ conn' = "reconnecting"
       \/ conn = "reconnecting" /\ conn' = "open"
    /\ UNCHANGED <<lockVars, chanVars, objVars, listenVars, pc, held, subs, offered,
                   connClosed>>

\* Its object ends with an error, and all the channels on it.
ConnDies ==
    /\ conn \in {"open", "reconnecting"}
    /\ Spare
    /\ conn' = "dead"
    /\ obj' = AllEnd("dead")
    /\ UNCHANGED <<lockVars, chanVars, confirmed, listenVars, pc, held, subs, offered,
                   connClosed>>

\* Another object takes its place; it may have lost its connection already.
ConnReplaced ==
    /\ conn = "dead"
    /\ ~connClosed
    /\ conn' \in {"open", "reconnecting"}
    /\ UNCHANGED <<lockVars, chanVars, objVars, listenVars, pc, held, subs, offered,
                   connClosed>>

\* Its Close: an object that is alive ends without an error, with its channels.
ConnCloses ==
    /\ ~connClosed
    /\ connClosed' = TRUE
    /\ IF conn = "dead" THEN UNCHANGED <<conn, obj>>
                        ELSE conn' = "closed" /\ obj' = AllEnd("closed")
    /\ UNCHANGED <<lockVars, chanVars, confirmed, listenVars, pc, held, subs, offered>>

\* Its Dispatch of a reconnect event visits the subscribers.
ConnOffers ==
    /\ offered' = offered \cup subs
    /\ UNCHANGED <<lockVars, chanVars, objVars, listenVars, pc, held, subs, connVars>>

\* The five seconds of that Dispatch pass while the loop is not at its select.
OfferExpires(w) ==
    /\ w \in offered
    /\ pc[w] # "wait"
    /\ offered' = offered \ {w}
    /\ UNCHANGED <<lockVars, chanVars, objVars, listenVars, pc, held, subs, connVars>>

----------------------------------------------------------------------------
(* Calls by the users of the manager *)

\* Any *Safe method, and lockChannelRead when it does not give up: the read lock
\* is held across the call. WithChannelForNewGeneration reads the generation
\* under it. A writer that waits keeps new readers out.
Borrow(u) ==
    /\ NoWriter
    /\ \A w \in Watchers : pc[w] # "install"
    /\ borrowed[u] = None
    /\ borrowed' = [borrowed EXCEPT ![u] = channel]
    /\ observed' = observed \cup {<<reconnectionCount, channel>>}
    /\ UNCHANGED <<closed, closing, confirming, chanVars, objVars, listenVars, pc, held,
                   subs, offered, connVars>>

GiveBack(u) ==
    /\ borrowed[u] # None
    /\ borrowed' = [borrowed EXCEPT ![u] = None]
    /\ UNCHANGED <<closed, closing, confirming, observed, chanVars, objVars, listenVars,
                   pc, held, subs, offered, connVars>>

\* ConfirmSafe takes the write lock for the RPC, unless the mode is on already.
ConfirmBegin ==
    /\ WriteLockFree
    /\ ~confirmMode
    /\ confirming' = TRUE
    /\ UNCHANGED <<closed, closing, borrowed, observed, chanVars, objVars, listenVars,
                   pc, held, subs, offered, connVars>>

\* An RPC on a channel may succeed while the channel is open, and may fail once
\* it has ended or (bound: while a spare is left) while its connection is not up.
RpcSucceeds(c) == obj[c] = "open"
RpcFails(c)    == obj[c] # "open" \/ (conn # "open" /\ Spare)

\* The answer to the RPC and the deferred unlock.
ConfirmEnd ==
    /\ confirming
    /\ confirming' = FALSE
    /\ \/ /\ RpcSucceeds(channel)
          /\ confirmed' = confirmed \cup {channel}
          /\ confirmMode' = TRUE
       \/ RpcFails(channel) /\ UNCHANGED <<confirmed, confirmMode>>
    /\ UNCHANGED <<closed, closing, borrowed, observed, channel, reconnectionCount, obj,
                   listenVars, pc, held, subs, offered, connVars>>

CloseBegin ==
    /\ WriteLockFree
    /\ ~closed
    /\ closed' = TRUE
    /\ closing' = TRUE
    /\ UNCHANGED <<confirming, borrowed, observed, chanVars, objVars, listenVars, pc,
                   held, subs, offered, connVars>>

CloseEnd ==
    /\ closing
    /\ obj' = ClosedObj(channel)
    /\ closing' = FALSE
    /\ UNCHANGED <<closed, confirming, borrowed, observed, chanVars, confirmed,
                   listenVars, pc, held, subs, offered, connVars>>

----------------------------------------------------------------------------
(* A watcher: startNotifyCancelOrClosed, handleCancelOrStateChange,        *)
(* reconnectLoop and reconnect                                             *)

connSideVars == <<subs, offered>>

\* Watcher w goes on, and nothing else changes.
Goto(w, next) ==
    /\ pc' = [pc EXCEPT ![w] = next]
    /\ UNCHANGED <<lockVars, chanVars, objVars, listenVars, held, connSideVars, connVars>>

\* startNotifyCancelOrClosed reads m.channel, without the lock. A listener that
\* comes after the end of its object is told of it.
Register(w) ==
    /\ pc[w] = "register"
    /\ watched' = [watched EXCEPT ![w] = channel]
    /\ pc' = [pc EXCEPT ![w] = "watch"]
    /\ UNCHANGED <<lockVars, chanVars, objVars, cancelled, draining, drained, held,
                   connSideVars, connVars>>

\* StateClosed without an error: the channel or its connection was closed.
SeeGraceful(w) ==
    /\ pc[w] = "watch"
    /\ obj[watched[w]] = "closed"
    /\ drained' = drained \cup {w}
    /\ pc' = [pc EXCEPT ![w] = "done"]
    /\ UNCHANGED <<lockVars, chanVars, objVars, watched, cancelled, draining, held,
                   connSideVars, connVars>>

\* StateClosed with an error.
SeeDead(w) ==
    /\ pc[w] = "watch"
    /\ obj[watched[w]] = "dead"
    /\ drained' = drained \cup {w}
    /\ pc' = [pc EXCEPT ![w] = "subscribe"]
    /\ UNCHANGED <<lockVars, chanVars, objVars, watched, cancelled, draining, held,
                   connSideVars, connVars>>

\* A plausible slip: the state events are abandoned with their channel.
SeeCancelUndrained(w) ==
    /\ pc[w] = "watch"
    /\ w \in cancelled
    /\ cancelled' = cancelled \ {w}
    /\ pc' = [pc EXCEPT ![w] = "subscribe"]
    /\ UNCHANGED <<lockVars, chanVars, objVars, watched, draining, drained, held,
                   connSideVars, connVars>>

\* basic.cancel: the state events of the old channel, still to come, are left to
\* a goroutine of their own.
SeeCancel(w) ==
    /\ pc[w] = "watch"
    /\ w \in cancelled
    /\ cancelled' = cancelled \ {w}
    /\ draining' = draining \cup {w}
    /\ pc' = [pc EXCEPT ![w] = "subscribe"]
    /\ UNCHANGED <<lockVars, chanVars, objVars, watched, drained, held,
                   connSideVars, connVars>>

\* drainStateChanges reads to the end of the events, and returns.
DrainStateChanges(w) ==
    /\ w \in draining
    /\ Ended(watched[w])
    /\ draining' = draining \ {w}
    /\ drained' = drained \cup {w}
    /\ UNCHANGED <<lockVars, chanVars, objVars, watched, cancelled, pc, held,
                   connSideVars, connVars>>

\* reconnectLoop starts by subscribing to the connection's reconnect events.
Subscribe(w) ==
    /\ pc[w] = "subscribe"
    /\ subs' = subs \cup {w}
    /\ pc' = [pc EXCEPT ![w] = "wait"]
    /\ UNCHANGED <<lockVars, chanVars, objVars, listenVars, held, offered, connVars>>

\* The closeSignal case of the select.
StopWaiting(w) ==
    /\ pc[w] = "wait"
    /\ closed
    /\ Goto(w, "unsubscribe")

\* The connReconnected case: retry at once.
ConnReconnected(w) ==
    /\ pc[w] = "wait"
    /\ w \in offered
    /\ offered' = offered \ {w}
    /\ pc' = [pc EXCEPT ![w] = "open"]
    /\ UNCHANGED <<lockVars, chanVars, objVars, listenVars, held, subs, connVars>>

TimerFires(w) ==
    /\ pc[w] = "wait"
    /\ Goto(w, "open")

\* getNewChannel, outside the lock: it needs the connection to be up.
OpenSucceeds(w, c) ==
    /\ pc[w] = "open"
    /\ conn = "open"
    /\ obj[c] = "unopened"
    /\ \A other \in Chans : obj[other] = "unopened" => c <= other
    /\ obj' = [obj EXCEPT ![c] = "open"]
    /\ held' = [held EXCEPT ![w] = c]
    /\ pc' = [pc EXCEPT ![w] = "install"]
    /\ UNCHANGED <<lockVars, chanVars, confirmed, listenVars, connSideVars, connVars>>

OpenFails(w) ==
    /\ pc[w] = "open"
    /\ conn # "open"
    /\ Goto(w, "check")

\* A plausible slip: the count is left to the loop, outside the critical section.
SwapUncounted(w) ==
    /\ channel' = held[w]
    /\ held' = [held EXCEPT ![w] = channel]
    /\ pc' = [pc EXCEPT ![w] = "closeOld"]
    /\ UNCHANGED <<reconnectionCount, confirmMode>>

\* The pointer and the count change together, under the write lock.
Swap(w) ==
    /\ channel' = held[w]
    /\ held' = [held EXCEPT ![w] = channel]
    /\ reconnectionCount' = reconnectionCount + 1
    /\ pc' = [pc EXCEPT ![w] = "closeOld"]
    /\ UNCHANGED confirmMode

\* A plausible slip: closed is not looked at under the lock.
InstallEvenClosed(w) ==
    /\ pc[w] = "install"
    /\ WriteLockFree
    /\ ~confirmMode
    /\ Swap(w)
    /\ UNCHANGED <<lockVars, objVars, listenVars, connSideVars, connVars>>

\* A plausible slip: the confirm mode of the old channel is forgotten.
InstallUnconfirmed(w) ==
    /\ pc[w] = "install"
    /\ WriteLockFree
    /\ ~closed
    /\ Swap(w)
    /\ UNCHANGED <<lockVars, objVars, listenVars, connSideVars, connVars>>

Install(w) ==
    /\ pc[w] = "install"
    /\ WriteLockFree
    /\ ~closed
    /\ ~confirmMode
    /\ Swap(w)
    /\ UNCHANGED <<lockVars, objVars, listenVars, connSideVars, connVars>>

\* With confirm mode on, the write lock is held across newChannel.Confirm.
BeginRearm(w) ==
    /\ pc[w] = "install"
    /\ WriteLockFree
    /\ ~closed
    /\ confirmMode
    /\ Goto(w, "confirm")

Rearmed(w) ==
    /\ pc[w] = "confirm"
    /\ RpcSucceeds(held[w])
    /\ confirmed' = confirmed \cup {held[w]}
    /\ Swap(w)
    /\ UNCHANGED <<lockVars, obj, listenVars, connSideVars, connVars>>

\* The lock is released and the new channel closed; the loop goes on.
RearmFails(w) ==
    /\ pc[w] = "confirm"
    /\ RpcFails(held[w])
    /\ Goto(w, "reject")

CloseHeld(w, next) ==
    /\ obj' = ClosedObj(held[w])
    /\ held' = [held EXCEPT ![w] = None]
    /\ pc' = [pc EXCEPT ![w] = next]
    /\ UNCHANGED <<lockVars, chanVars, confirmed, listenVars, connSideVars, connVars>>

\* newChannel.Close() after a failed re-arm.
CloseRejected(w) == pc[w] = "reject" /\ CloseHeld(w, "check")

\* The critical section when Close came first: errClosed.
Refuse(w) ==
    /\ pc[w] = "install"
    /\ WriteLockFree
    /\ closed
    /\ Goto(w, "discard")

\* A plausible slip: errClosed is returned and the new channel forgotten.
DiscardForgetting(w) ==
    /\ pc[w] = "discard"
    /\ Goto(w, "unsubscribe")

\* newChannel.Close(); errClosed ends the loop.
Discard(w) == pc[w] = "discard" /\ CloseHeld(w, "unsubscribe")

\* A plausible slip: the old channel is taken for dead.
CloseOldForgotten(w) ==
    /\ pc[w] = "closeOld"
    /\ Goto(w, "spawn")

\* oldChannel.Close(), after the unlock: after a cancel it is still open.
CloseOld(w) == pc[w] = "closeOld" /\ CloseHeld(w, "spawn")

\* A plausible slip: only the channel manager's own Close ends the loop.
RetryDespiteClose(w) ==
    /\ pc[w] = "check"
    /\ ConnIsClosed
    /\ Goto(w, "wait")

\* reconnect() failed, and connManager.IsClosed() says so: the loop returns.
GiveUp(w) ==
    /\ pc[w] = "check"
    /\ ConnIsClosed
    /\ Goto(w, "unsubscribe")

\* A plausible slip: any failure ends the loop.
RetryNever(w) ==
    /\ pc[w] = "check"
    /\ ~ConnIsClosed
    /\ Goto(w, "unsubscribe")

Retry(w) ==
    /\ pc[w] = "check"
    /\ ~ConnIsClosed
    /\ Goto(w, "wait")

\* `go m.startNotifyCancelOrClosed()` at the end of a successful loop.
Spawn(w) ==
    /\ pc[w] = "spawn"
    /\ w < MaxChans
    /\ pc' = [pc EXCEPT ![w] = "unsubscribe", ![w + 1] = "register"]
    /\ UNCHANGED <<lockVars, chanVars, objVars, listenVars, held, connSideVars, connVars>>

\* The deferred send on the close channel of the subscription.
Unsubscribe(w) ==
    /\ pc[w] = "unsubscribe"
    /\ subs' = subs \ {w}
    /\ offered' = offered \ {w}
    /\ pc' = [pc EXCEPT ![w] = "dispatch"]
    /\ UNCHANGED <<lockVars, chanVars, objVars, listenVars, held, connVars>>

\* The event is broadcast, whatever ended the loop.
DispatchDone(w) ==
    /\ pc[w] = "dispatch"
    /\ pc' = [pc EXCEPT ![w] = "done"]
    /\ UNCHANGED <<lockVars, chanVars, objVars, listenVars, held, connSideVars, connVars>>

----------------------------------------------------------------------------

BrokerStep == ChannelDies \/ \E w \in Watchers : BrokerCancels(w)

ConnStep == \/ ConnWavers \/ ConnDies \/ ConnReplaced \/ ConnCloses \/ ConnOffers
            \/ \E w \in Watchers : OfferExpires(w)

UserStep == \/ \E u \in Users : Borrow(u) \/ GiveBack(u)
            \/ ConfirmBegin \/ ConfirmEnd \/ CloseBegin \/ CloseEnd

\* What a watcher does without asking the connection manager anything.
LocalStep(w) ==
    \/ Register(w) \/ SeeGraceful(w) \/ SeeDead(w) \/ SeeCancel(w)
    \/ StopWaiting(w) \/ ConnReconnected(w) \/ TimerFires(w)
    \/ Install(w) \/ BeginRearm(w) \/ Rearmed(w) \/ RearmFails(w) \/ CloseRejected(w)
    \/ Refuse(w) \/ Discard(w) \/ CloseOld(w) \/ Spawn(w) \/ DispatchDone(w)

OpenStep(w) == OpenFails(w) \/ \E c \in Chans : OpenSucceeds(w, c)

CheckStep(w) == GiveUp(w) \/ Retry(w)

SubscriptionStep(w) == Subscribe(w) \/ Unsubscribe(w)

WatcherStep(w) ==
    LocalStep(w) \/ OpenStep(w) \/ CheckStep(w) \/ SubscriptionStep(w)

Next == \/ BrokerStep \/ ConnStep \/ UserStep
        \/ \E w \in Watchers : WatcherStep(w) \/ DrainStateChanges(w)

Spec == Init /\ [][Next]_vars

\* As for the connection manager: goroutines run, timers expire, RPCs return, a
\* waiting writer is not overtaken, select does not ignore closeSignal for ever.
Fairness ==
    /\ \A w \in Watchers : /\ WF_vars(WatcherStep(w))
                           /\ WF_vars(DrainStateChanges(w))
                           /\ SF_vars(Install(w) \/ BeginRearm(w) \/ Refuse(w))
                           /\ SF_vars(StopWaiting(w))
    /\ \A u \in Users : WF_vars(GiveBack(u))
    /\ WF_vars(ConfirmEnd) /\ WF_vars(CloseEnd)

FairSpec == Spec /\ Fairness

----------------------------------------------------------------------------

TypeOK ==
    /\ channel \in Chans
    /\ reconnectionCount \in 0..MaxChans
    /\ closed \in BOOLEAN /\ confirmMode \in BOOLEAN
    /\ closing \in BOOLEAN /\ confirming \in BOOLEAN /\ connClosed \in BOOLEAN
    /\ borrowed \in [Users -> Chans \cup {None}]
    /\ observed \subseteq (0..MaxChans) \X Chans
    /\ obj \in [Chans -> ObjectStates]
    /\ confirmed \subseteq Chans
    /\ pc \in [Watchers -> WatcherStates]
    /\ watched \in [Watchers -> Chans \cup {None}]
    /\ held \in [Watchers -> Chans \cup {None}]
    /\ cancelled \subseteq Watchers /\ draining \subseteq Watchers
    /\ drained \subseteq Watchers
    /\ subs \subseteq Watchers /\ offered \subseteq subs
    /\ conn \in ConnStates

InLoop(w) == pc[w] \in {"subscribe", "wait", "open", "install", "confirm", "reject",
                        "check", "discard"}

\* One loop at a time: the newest watcher is the one the reconnect count points
\* at, and until it has spawned a successor there is none.
OneLoop ==
    \A w \in Watchers :
        /\ w < reconnectionCount => pc[w] \in {"unsubscribe", "dispatch", "done"}
        /\ w = reconnectionCount =>
             pc[w] \in {"closeOld", "spawn", "unsubscribe", "dispatch", "done"}
        /\ w = reconnectionCount + 1 =>
             /\ pc[w] \notin {"closeOld", "spawn"}
             /\ pc[w] = "unborn" <=>
                  w - 1 \in Watchers /\ pc[w - 1] \in {"closeOld", "spawn"}
        /\ w > reconnectionCount + 1 => pc[w] = "unborn"

\* While a loop runs, the channel it replaces is the current one.
ReplacesTheCurrent ==
    \A w \in Watchers :
        /\ pc[w] = "watch" \/ InLoop(w) => watched[w] = channel
        /\ pc[w] \in {"install", "confirm", "reject", "discard", "closeOld"} =>
             held[w] \in Chans /\ held[w] # channel /\ obj[held[w]] # "unopened"
        /\ obj[channel] # "unopened"

\* A channel that is open is one the manager still answers for: the current one
\* of a manager that is open or still closing it, or one in the hands of a loop
\* that is about to install it or to close it (channel.go:258-264).
NoOrphanChannel ==
    \A c \in Chans : obj[c] = "open" =>
        \/ c = channel /\ (closed => closing)
        \/ \E w \in Watchers :
             /\ pc[w] \in {"install", "confirm", "reject", "discard", "closeOld"}
             /\ held[w] = c

\* Confirm mode survives reconnects without a gap: as soon as it has been turned
\* on, every channel that publishers can get at is in it (channel.go:266-272).
ConfirmModeKept == confirmMode => channel \in confirmed

\* What a user is using stays the current channel until the user is done.
BorrowedIsCurrent ==
    \A u \in Users : borrowed[u] # None =>
        borrowed[u] = channel /\ NoWriter

ClosingIsClosed == closing => closed

\* Nobody shares the lock that reconnect() keeps while it turns confirm mode on
\* again, so Close cannot come between its look at closed and the swap.
RearmIsExclusive ==
    \A w \in Watchers : pc[w] = "confirm" =>
        NoReader /\ ~closing /\ ~confirming /\ ~closed

\* No channel survives its connection object: one that is open is on the current
\* object, and that is alive.
OnLiveConnection == \A c \in Chans : obj[c] = "open" => conn \in {"open", "reconnecting"}

\* The inductive invariant.
IInv == /\ TypeOK
        /\ ClosingIsClosed
        /\ OneLoop
        /\ ReplacesTheCurrent
        /\ NoOrphanChannel
        /\ ConfirmModeKept
        /\ BorrowedIsCurrent
        /\ RearmIsExclusive
        /\ OnLiveConnection

\* The reconnect count names a channel: whoever reads the two under one read lock
\* never sees one count with two channels or one channel with two counts, which
\* is what the listener deduplication relies on (safe_wraps.go:270-292).
GenerationNamesChannel ==
    \A p, q \in observed : p[1] = q[1] <=> p[2] = q[2]

\* No goroutine of the library is left stuck in the delivery of state events: once
\* the object a watcher registered on has ended, its events are read to the end,
\* also when the watcher left for a basic.cancel (channel.go:128-138).
StateEventsRead ==
    \A w \in Watchers :
        (watched[w] # None /\ Ended(watched[w])) ~> w \in drained

\* While the connection object lives on, and comes to rest, a channel that ended
\* is replaced or the manager is closed. What becomes of it when the connection
\* ends too is in Recovery.tla.
RecoversOnLiveConnection ==
    [](conn \notin {"dead", "closed"}) /\ <>[](conn = "open")
        => (obj[channel] = "dead" ~> (obj[channel] # "dead" \/ closed))

\* After Close everything ends: no goroutine of the manager, no open channel.
CloseLeavesNothing ==
    closed ~> /\ \A w \in Watchers : pc[w] \in {"unborn", "done"}
              /\ \A c \in Chans : obj[c] # "open"

============================================================================
