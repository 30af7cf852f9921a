----------------------------- MODULE Publisher -----------------------------
(***************************************************************************)
(* publish.go: a Publisher, built by NewPublisher, with its recovery       *)
(* goroutine, the listeners for flow signals, returns and confirmations    *)
(* that it registers on every channel, and Close.                          *)
(*                                                                         *)
(* It is built on the promise of its channel manager (ManagedChannel.tla). *)
(* basic.cancel does not concern it: it consumes nothing.  handlerMu is    *)
(* held for single steps only: a goroutine that keeps it while it waits    *)
(* for the channel's read lock delays others, and does nothing.            *)
(*                                                                         *)
(* Outside the model: the blocked flag (BlockedBroadcast.tla), the value   *)
(* of the flow flag, and with them whether a Publish is refused.           *)
(***************************************************************************)
EXTENDS Integers, FiniteSets

CONSTANTS MaxChans,     \* bound on the generations of the channel
          MaxTags,      \* bound on the messages published on each
          MaxHandlers,  \* maxConcurrentHandlers
          MaxCalls,     \* bound on the calls of NotifyReturn, NotifyPublish and Publish
          Callers,      \* goroutines that make the first two
          MayGiveUp     \* see ManagedChannel.tla

ASSUME BoundsAssumption == /\ MaxChans \in Nat \ {0} /\ MaxTags \in Nat
                           /\ MaxCalls \in Nat /\ MaxHandlers \in Nat \ {0}

\* NewPublisher, and then the goroutine it starts.
Owner == "owner"
ASSUME OwnerAssumption == Owner \notin Callers

Chans == 1..MaxChans
Procs == Callers \cup {Owner}
Never == 0

VARIABLES generation, chan, watcher, confirmMode, confirmed, mgrClosed,
          offers,            \* reconnect events offered on reconnectErrCh
          errChClosed,       \* reconnectErrCh is closed
          missed,            \* history: listeners that missed a lost event, see OfferExpires
          returnSet,         \* notifyReturnHandler # nil
          publishSet,        \* notifyPublishHandler # nil
          returnGeneration,  \* returnHandlerGeneration
          publishGeneration, \* publishHandlerGeneration
          returnListeners,   \* the listeners registered on each channel
          publishListeners,
          flowHeard,         \* the last channel with a listener for flow signals
          flowStarting,      \* startNotifyFlowHandler goroutines about to register
          calls,             \* calls made so far
          tags,              \* delivery tags used and confirmed on each channel
          arrived,           \* confirmations a listener has still to read
          handling,          \* those in a goroutine of their own
          pc,                \* where the owner and each caller is
          built,             \* NewPublisher has returned the publisher
          cpc                \* where Close is

chanVars    == <<generation, chan, watcher, confirmMode, confirmed, mgrClosed>>
eventVars   == <<offers, errChClosed, missed>>
handlerVars == <<returnSet, publishSet, returnGeneration, publishGeneration>>
notifyVars  == <<returnListeners, publishListeners>>
flowVars    == <<flowHeard, flowStarting>>
confirmVars == <<tags, arrived, handling>>
userVars    == <<calls, confirmVars>>
closeVars   == <<built, cpc>>
vars == <<chanVars, eventVars, handlerVars, notifyVars, flowVars, userVars, pc,
          closeVars>>

S == INSTANCE ManagedChannel WITH cancelled <- {}

Live(g) == S!Live(g)
isClosed == cpc # "open"

\* A listener of a channel that has ended is closed by the library at once.
Registered(listeners) ==
    IF Live(generation) THEN [listeners EXCEPT ![generation] = @ + 1] ELSE listeners

Init ==
    /\ S!Init
    /\ offers = 0 /\ errChClosed = FALSE /\ missed = {}
    /\ returnSet = FALSE /\ publishSet = FALSE
    /\ returnGeneration = Never /\ publishGeneration = Never
    /\ returnListeners = [g \in Chans |-> 0]
    /\ publishListeners = [g \in Chans |-> 0]
    /\ flowHeard = Never /\ flowStarting = 0
    /\ calls = 0
    /\ tags = [g \in Chans |-> 0]
    /\ arrived = {} /\ handling = {}
    /\ pc = [p \in Procs |-> IF p = Owner THEN "construct" ELSE "idle"]
    /\ built = FALSE
    /\ cpc = "open"

----------------------------------------------------------------------------
(* The channel manager and the broker *)

\* Bound: the last channel stays, until Close.
ChannelEnds ==
    /\ generation < MaxChans
    /\ S!End({generation})
    /\ UNCHANGED <<eventVars, handlerVars, notifyVars, flowVars, userVars, pc, closeVars>>

\* Bound: MaxChans.
Replace ==
    /\ generation < MaxChans
    /\ \E state \in {"open", "ended"} :
         /\ state = "ended" => generation + 1 < MaxChans
         /\ S!Replace(state)
    /\ UNCHANGED <<eventVars, handlerVars, notifyVars, flowVars, userVars, pc, closeVars>>

Retire(g) ==
    /\ S!Retire(g)
    /\ UNCHANGED <<eventVars, handlerVars, notifyVars, flowVars, userVars, pc, closeVars>>

WatcherLeaves ==
    /\ S!GiveUp \/ S!Finish
    /\ UNCHANGED <<eventVars, handlerVars, notifyVars, flowVars, userVars, pc, closeVars>>

Announce(g) ==
    /\ S!Announce(g)
    /\ offers' = IF errChClosed THEN offers ELSE offers + 1
    /\ UNCHANGED <<errChClosed, missed, handlerVars, notifyVars, flowVars, userVars, pc,
                   closeVars>>

\* The listeners that lack the current channel, and that the owner will not come
\* to again before it takes another event.
Passed ==
    (IF /\ pc[Owner] \in {"mode", "return", "publish", "confirm", "register"}
        /\ flowHeard # generation
     THEN {"flow"} ELSE {})
    \cup
    (IF /\ pc[Owner] \in {"publish", "confirm", "register"}
        /\ returnSet /\ returnGeneration # generation
     THEN {"return"} ELSE {})

\* Dispatch gives up after five seconds. The owner may be away from reconnectErrCh
\* for so long where it talks to the broker or sleeps, and where it waits for
\* handlerMu or channelMu: a new channel is put into confirm mode under channelMu,
\* and once there are users they hold either over calls without a timeout.
OfferExpires ==
    /\ offers > 0
    /\ \/ pc[Owner] \in {"construct", "startup", "sleep", "gone", "failed"}
       \/ pc[Owner] \in {"mode", "confirm"} /\ ~confirmMode
       \/ /\ pc[Owner] \in {"mode", "return", "publish", "confirm", "register"}
          /\ built \/ ~Live(generation)
    /\ offers' = offers - 1
    /\ missed' = missed \cup Passed
    /\ UNCHANGED <<chanVars, errChClosed, handlerVars, notifyVars, flowVars, userVars, pc,
                   closeVars>>

----------------------------------------------------------------------------
(* NewPublisher *)

Goto(p, next) == pc' = [pc EXCEPT ![p] = next]

\* A plausible slip: only the first channel is listened to for flow signals.
StartupOnce ==
    /\ Live(generation)
    /\ flowStarting' = IF built THEN flowStarting ELSE flowStarting + 1

\* startup() declares the exchange and starts a goroutine for the flow signals.
Startup ==
    /\ Live(generation)
    /\ flowStarting' = flowStarting + 1

\* startNotifyFlowHandler registers on whatever channel is current by then.
RegisterFlow ==
    /\ flowStarting > 0
    /\ flowStarting' = flowStarting - 1
    /\ flowHeard' = IF Live(generation) THEN generation ELSE flowHeard
    /\ UNCHANGED <<chanVars, eventVars, handlerVars, notifyVars, userVars, pc, closeVars>>

\* options.ConfirmMode decides whether there is more to do.
Construct ==
    /\ pc[Owner] = "construct"
    /\ Startup
    /\ \/ Goto(Owner, "mode") /\ UNCHANGED built
       \/ Goto(Owner, "range") /\ built' = TRUE
    /\ UNCHANGED <<chanVars, eventVars, handlerVars, notifyVars, flowHeard, userVars,
                   cpc>>

\* A plausible slip: only the channel manager is closed.
ConstructFailsHalfway ==
    /\ pc[Owner] \in {"construct", "mode"}
    /\ pc[Owner] = "mode" => ~confirmMode
    /\ Goto(Owner, "failed")
    /\ S!Close
    /\ cpc' = "done"
    /\ UNCHANGED <<eventVars, handlerVars, notifyVars, flowVars, userVars, built>>

\* startup or ConfirmSafe returns an error: Close, and no publisher.
ConstructFails ==
    /\ pc[Owner] \in {"construct", "mode"}
    /\ pc[Owner] = "mode" => ~confirmMode
    /\ Goto(Owner, "failed")
    /\ cpc' = "marked"
    /\ UNCHANGED <<chanVars, eventVars, handlerVars, notifyVars, flowVars, userVars, built>>

\* ConfirmSafe. It has no effect once the mode is on, whatever the channel.
ConfirmSafe == IF confirmMode THEN UNCHANGED chanVars ELSE S!Confirm

\* ConfirmMode: the mode first, then NotifyPublish with a handler that does nothing.
EnterConfirmMode ==
    /\ pc[Owner] = "mode"
    /\ ConfirmSafe
    /\ publishSet' = TRUE
    /\ Goto(Owner, "publish")
    /\ UNCHANGED <<eventVars, returnSet, returnGeneration, publishGeneration, notifyVars,
                   flowVars, userVars, closeVars>>

----------------------------------------------------------------------------
(* The recovery goroutine *)

\* It goes on in the same place when NewPublisher is done with NotifyPublish.
AfterHandlers(p) == IF p = Owner THEN "range" ELSE "idle"

TakeEvent ==
    /\ pc[Owner] = "range"
    /\ offers > 0
    /\ offers' = offers - 1
    /\ missed' = {}
    /\ Goto(Owner, "check")
    /\ UNCHANGED <<chanVars, errChClosed, handlerVars, notifyVars, flowVars, userVars,
                   closeVars>>

EventsEnd ==
    /\ pc[Owner] = "range"
    /\ offers = 0 /\ errChClosed
    /\ Goto(Owner, "gone")
    /\ UNCHANGED <<chanVars, eventVars, handlerVars, notifyVars, flowVars, userVars,
                   closeVars>>

CheckClosed ==
    /\ pc[Owner] = "check"
    /\ Goto(Owner, IF isClosed THEN "gone" ELSE "startup")
    /\ UNCHANGED <<chanVars, eventVars, handlerVars, notifyVars, flowVars, userVars,
                   closeVars>>

StartupSucceeds ==
    /\ pc[Owner] = "startup"
    /\ Startup
    /\ Goto(Owner, "return")
    /\ UNCHANGED <<chanVars, eventVars, handlerVars, notifyVars, flowHeard, userVars,
                   closeVars>>

\* On a channel that ended, or on a live one that does not answer as it should.
StartupFails ==
    /\ pc[Owner] = "startup"
    /\ Goto(Owner, "sleep")
    /\ UNCHANGED <<chanVars, eventVars, handlerVars, notifyVars, flowVars, userVars,
                   closeVars>>

WakeUp ==
    /\ pc[Owner] = "sleep"
    /\ Goto(Owner, "check")
    /\ UNCHANGED <<chanVars, eventVars, handlerVars, notifyVars, flowVars, userVars,
                   closeVars>>

----------------------------------------------------------------------------
(* NotifyReturn, NotifyPublish and the two start functions, which the owner *)
(* calls too                                                                *)

\* Bound: MaxCalls.
Call == calls < MaxCalls /\ calls' = calls + 1

NotifyReturn(p) ==
    /\ built
    /\ pc[p] = "idle"
    /\ Call
    /\ returnSet' = TRUE
    /\ Goto(p, "return")
    /\ UNCHANGED <<chanVars, eventVars, publishSet, returnGeneration, publishGeneration,
                   notifyVars, flowVars, confirmVars, closeVars>>

NotifyPublish(p, set) ==
    /\ built
    /\ pc[p] = "idle"
    /\ Call
    /\ publishSet' = set
    /\ Goto(p, "publish")
    /\ UNCHANGED <<chanVars, eventVars, returnSet, returnGeneration, publishGeneration,
                   notifyVars, flowVars, confirmVars, closeVars>>

\* A plausible slip: a flag instead of a generation.
StartReturnHandlerOnce(p) ==
    /\ pc[p] = "return"
    /\ IF returnSet /\ returnGeneration = Never
       THEN /\ returnGeneration' = generation
            /\ returnListeners' = Registered(returnListeners)
       ELSE UNCHANGED <<returnGeneration, returnListeners>>
    /\ Goto(p, IF p = Owner THEN "publish" ELSE "idle")
    /\ UNCHANGED <<chanVars, eventVars, returnSet, publishSet, publishGeneration,
                   publishListeners, flowVars, userVars, closeVars>>

\* Under handlerMu and the read lock: one generation, one listener.
StartReturnHandler(p) ==
    /\ pc[p] = "return"
    /\ IF returnSet /\ returnGeneration # generation
       THEN /\ returnGeneration' = generation
            /\ returnListeners' = Registered(returnListeners)
       ELSE UNCHANGED <<returnGeneration, returnListeners>>
    /\ Goto(p, IF p = Owner THEN "publish" ELSE "idle")
    /\ UNCHANGED <<chanVars, eventVars, returnSet, publishSet, publishGeneration,
                   publishListeners, flowVars, userVars, closeVars>>

\* A plausible slip: the generation is spent before ConfirmSafe.
HasPublishHandlerMarking(p) ==
    /\ pc[p] = "publish"
    /\ Goto(p, IF publishSet THEN "confirm" ELSE AfterHandlers(p))
    /\ publishGeneration' = IF publishSet THEN generation ELSE publishGeneration
    /\ UNCHANGED <<chanVars, eventVars, returnSet, publishSet, returnGeneration, notifyVars,
                   flowVars, userVars, closeVars>>

\* startPublishHandler asks under handlerMu, and releases it for ConfirmSafe.
HasPublishHandler(p) ==
    /\ pc[p] = "publish"
    /\ Goto(p, IF publishSet THEN "confirm" ELSE AfterHandlers(p))
    /\ UNCHANGED <<chanVars, eventVars, handlerVars, notifyVars, flowVars, userVars,
                   built, cpc>>

ConfirmSucceeds(p) ==
    /\ pc[p] = "confirm"
    /\ ConfirmSafe
    /\ Goto(p, "register")
    /\ UNCHANGED <<eventVars, handlerVars, notifyVars, flowVars, userVars, closeVars>>

\* The error is logged, and startPublishHandler returns.
ConfirmFails(p) ==
    /\ pc[p] = "confirm"
    /\ ~confirmMode
    /\ Goto(p, AfterHandlers(p))
    /\ UNCHANGED <<chanVars, eventVars, handlerVars, notifyVars, flowVars, userVars,
                   closeVars>>

\* A plausible slip: the generation is not remembered.
StartPublishHandlerUnmarked(p) ==
    /\ pc[p] = "register"
    /\ publishListeners' = IF publishSet /\ publishGeneration # generation
                             THEN Registered(publishListeners) ELSE publishListeners
    /\ Goto(p, AfterHandlers(p))
    /\ built' = (built \/ p = Owner)
    /\ UNCHANGED <<chanVars, eventVars, handlerVars, returnListeners, flowVars, userVars,
                   cpc>>

\* The second half, under handlerMu again and the read lock.
StartPublishHandler(p) ==
    /\ pc[p] = "register"
    /\ IF publishSet /\ publishGeneration # generation
       THEN /\ publishGeneration' = generation
            /\ publishListeners' = Registered(publishListeners)
       ELSE UNCHANGED <<publishGeneration, publishListeners>>
    /\ Goto(p, AfterHandlers(p))
    /\ built' = (built \/ p = Owner)
    /\ UNCHANGED <<chanVars, eventVars, returnSet, publishSet, returnGeneration,
                   returnListeners, flowVars, userVars, cpc>>

----------------------------------------------------------------------------
(* Publishing, and the goroutine that reads the confirmations of a channel *)

\* Some routing keys of a Publish, all on one channel in confirm mode, and their
\* confirmations, which are lost if nobody listens.
PublishConfirmed ==
    /\ built
    /\ Call
    /\ Live(generation)
    /\ generation \in confirmed
    /\ \E last \in (tags[generation] + 1)..MaxTags :
         /\ tags' = [tags EXCEPT ![generation] = last]
         /\ arrived' = IF publishListeners[generation] > 0
                         THEN arrived \cup ({generation} \X ((tags[generation] + 1)..last))
                         ELSE arrived
    /\ UNCHANGED <<chanVars, eventVars, handlerVars, notifyVars, flowVars, handling, pc,
                   closeVars>>


\* The reader of a channel takes a slot of its semaphore and starts a goroutine.
Spawn(g) ==
    /\ \E tag \in 1..MaxTags :
         /\ <<g, tag>> \in arrived
         /\ \A other \in 1..MaxTags : <<g, other>> \in arrived => tag <= other
         /\ arrived' = arrived \ {<<g, tag>>}
         /\ handling' = handling \cup {<<g, tag>>}
    /\ Cardinality({c \in handling : c[1] = g}) < MaxHandlers
    /\ UNCHANGED <<chanVars, eventVars, handlerVars, notifyVars, flowVars, calls, tags, pc,
                   closeVars>>

\* invokePublishHandler reads the reconnect count and calls the handler, if there
\* is one; in any case the slot is released.
Invoke(g, tag) ==
    /\ <<g, tag>> \in handling
    /\ handling' = handling \ {<<g, tag>>}
    /\ UNCHANGED <<chanVars, eventVars, handlerVars, notifyVars, flowVars, calls, tags, arrived, pc,
                   closeVars>>

----------------------------------------------------------------------------
(* Close, once *)

MarkClosed ==
    /\ built
    /\ cpc = "open"
    /\ cpc' = "marked"
    /\ UNCHANGED <<chanVars, eventVars, handlerVars, notifyVars, flowVars, userVars, pc,
                   built>>

\* chanManager.Close(), then a goroutine that cancels the subscription.
CloseChannel ==
    /\ cpc = "marked"
    /\ S!Close
    /\ cpc' = "unsubscribe"
    /\ UNCHANGED <<eventVars, handlerVars, notifyVars, flowVars, userVars, pc, built>>

\* The dispatcher closes reconnectErrCh once no broadcast holds the subscription.
CloseErrCh ==
    /\ cpc = "unsubscribe"
    /\ offers = 0
    /\ errChClosed' = TRUE
    /\ cpc' = "done"
    /\ UNCHANGED <<chanVars, offers, missed, handlerVars, notifyVars, flowVars, userVars, pc,
                   built>>

----------------------------------------------------------------------------

ManagerStep ==
    \/ Replace \/ WatcherLeaves \/ OfferExpires \/ CloseErrCh
    \/ \E g \in S!Generations : Retire(g) \/ Announce(g)

OwnerStep ==
    \/ Construct \/ ConstructFails \/ EnterConfirmMode
    \/ TakeEvent \/ EventsEnd \/ CheckClosed \/ StartupSucceeds \/ StartupFails \/ WakeUp

StartStep(p) ==
    \/ StartReturnHandler(p) \/ HasPublishHandler(p)
    \/ ConfirmSucceeds(p) \/ ConfirmFails(p) \/ StartPublishHandler(p)

\* What goes on by itself.
Background ==
    \/ ManagerStep \/ RegisterFlow \/ CloseChannel
    \/ \E g \in Chans : Spawn(g) \/ \E tag \in 1..MaxTags : Invoke(g, tag)

Next ==
    \/ ChannelEnds \/ Background \/ OwnerStep \/ PublishConfirmed \/ MarkClosed
    \/ \E p \in Procs : StartStep(p)
    \/ \E p \in Callers : NotifyReturn(p) \/ \E set \in BOOLEAN : NotifyPublish(p, set)

Spec == Init /\ [][Next]_vars

----------------------------------------------------------------------------

TypeOK ==
    /\ generation \in Chans
    /\ S!TypeOK
    /\ offers \in Nat /\ errChClosed \in BOOLEAN /\ missed \subseteq {"flow", "return"}
    /\ returnSet \in BOOLEAN /\ publishSet \in BOOLEAN
    /\ returnGeneration \in 0..generation /\ publishGeneration \in 0..generation
    /\ returnListeners \in [Chans -> Nat] /\ publishListeners \in [Chans -> Nat]
    /\ flowHeard \in 0..generation /\ flowStarting \in Nat
    /\ calls \in 0..MaxCalls
    /\ tags \in [Chans -> 0..MaxTags]
    /\ arrived \subseteq Chans \X (1..MaxTags) /\ handling \subseteq Chans \X (1..MaxTags)
    /\ pc \in [Procs -> {"idle", "construct", "mode", "range", "check", "startup", "sleep",
                         "return", "publish", "confirm", "register", "gone", "failed"}]
    /\ built \in BOOLEAN
    /\ cpc \in {"open", "marked", "unsubscribe", "done"}

\* Each channel gets at most one listener of a kind, however the owner and the
\* callers interleave with each other and with replacements (publish.go:444-463),
\* and confirmations are listened for only where there are any.
OneListener ==
    \A g \in Chans :
        /\ returnListeners[g] > 0 => returnListeners[g] = 1 /\ g <= returnGeneration
        /\ publishListeners[g] > 0 =>
             publishListeners[g] = 1 /\ g <= publishGeneration /\ g \in confirmed

\* A goroutine that is past ConfirmSafe finds every later channel in confirm mode.
PastConfirm == \A p \in Procs : pc[p] = "register" => confirmMode

\* The handlers are set by what comes after NewPublisher or at its end, and only
\* Close ends the events and the owner.
Lifecycle ==
    /\ ~built => ~returnSet
    /\ pc[Owner] \in {"construct", "mode"} => ~built /\ ~publishSet /\ ~isClosed
    /\ errChClosed => cpc = "done"
    /\ pc[Owner] \in {"gone", "failed"} => isClosed

\* A generation that was marked is listened to while its channel lives.
MarkedIsListened ==
    Live(generation) =>
        /\ returnGeneration = generation => returnListeners[generation] > 0
        /\ publishGeneration = generation => publishListeners[generation] > 0

\* A reconnect event is on its way to the owner.
EventUnderWay ==
    \/ offers > 0
    \/ \E g \in S!Generations : watcher[g] \in {"retiring", "announcing"}

\* Of each kind of listener: the current channel has it, it missed the event, or
\* somebody has still to come to the code that registers it.
ListenersKept ==
    Live(generation) /\ ~isClosed =>
        /\ \/ flowHeard = generation \/ "flow" \in missed
           \/ EventUnderWay \/ flowStarting > 0
           \/ pc[Owner] \in {"construct", "check", "startup", "sleep"}
        /\ returnSet =>
             \/ returnListeners[generation] > 0 \/ "return" \in missed
             \/ EventUnderWay
             \/ pc[Owner] \in {"check", "startup", "sleep"}
             \/ \E p \in Procs : pc[p] = "return"
        /\ publishSet /\ confirmMode =>
             \/ publishListeners[generation] > 0
             \/ EventUnderWay
             \/ pc[Owner] \in {"check", "startup", "sleep", "return"}
             \/ \E p \in Procs : pc[p] \in {"publish", "confirm", "register"}

IInv == /\ TypeOK /\ S!NoConfirmGap /\ PastConfirm /\ OneListener
        /\ Lifecycle /\ MarkedIsListened /\ ListenersKept

\* The current channel is live, and the publisher in use.
InUse == built /\ ~isClosed /\ Live(generation)

\* An event is under way, or the owner at work on one.
Recovering == EventUnderWay \/ pc[Owner] \notin {"range", "gone", "failed"}

\* Whatever reconnect events were lost on the way, the channel that stays in use is
\* listened to when nobody is at work on it any more: for returns, unless the last
\* event was lost when the owner had already been through startReturnHandler ...
ReturnHeard ==
    InUse /\ returnSet /\ ~Recovering /\ (\A p \in Callers : pc[p] # "return")
        => returnListeners[generation] > 0 \/ "return" \in missed

\* ... for flow signals, unless it was lost after startup ...
FlowListened ==
    InUse /\ ~Recovering /\ flowStarting = 0
        => flowHeard = generation \/ "flow" \in missed

\* ... and for confirmations in any case, once the confirm mode is on: nothing that
\* blocks comes between startPublishHandler's look at the generation and the range.
PublishHeard ==
    InUse /\ publishSet /\ confirmMode /\ ~Recovering
          /\ (\A p \in Callers : pc[p] \notin {"publish", "confirm", "register"})
        => publishListeners[generation] > 0

\* What publish.go:169-172 says of flow signals: the listener is set up anew after
\* every reconnect, and never given up. An event that is lost while ConfirmSafe or
\* a lock keeps the owner away leaves the channel without one.
FlowHeard == InUse /\ ~Recovering /\ flowStarting = 0 => flowHeard = generation

\* No goroutine of the publisher or of its manager has anything left to do.
AtRest == ~ENABLED (Background \/ OwnerStep \/ \E p \in Procs : StartStep(p))


\* Close, and a NewPublisher that fails, end everything that was started: the
\* channel, the subscription and the goroutines (publish.go:138-145, 157-160).
CloseLeavesNothing ==
    AtRest /\ isClosed => /\ pc[Owner] \in {"gone", "failed"}
                          /\ errChClosed /\ offers = 0 /\ flowStarting = 0
                          /\ \A g \in S!Generations : ~Live(g)

\* What publish.go:49-54 says of a Confirmation: ReconnectionCount and DeliveryTag
\* together identify the message. The code reads the count when it handles the
\* confirmation: by then another channel may be current, which uses the same tags,
\* and the handler gets the name of another message.
LabelsUnique ==
    [][\A g \in Chans, tag \in 1..MaxTags :
         Invoke(g, tag) /\ publishSet => g = generation \/ tags[generation] < tag]_vars

============================================================================
