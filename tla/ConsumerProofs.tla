---------------------------- MODULE ConsumerProofs ----------------------------
(***************************************************************************)
(* Safety of a consumer, for any number of replacements of its channel, of *)
(* messages, of handler goroutines and of calls of CloseWithContext.       *)
(*                                                                         *)
(* The consumer is first shown to use its channel manager as               *)
(* ManagedChannel allows; then come the ownership of messages and Close.   *)
(***************************************************************************)
EXTENDS Consumer, TLAPS

SP == INSTANCE ManagedChannelProofs WITH
        cancelled <- CancelledChans, confirmed <- {}, confirmMode <- generation \in {}

----------------------------------------------------------------------------
(* The channel manager of a consumer *)

\* The two instances of ManagedChannel are one specification.
LEMMA SameSteps == [S!Next]_(S!vars) => [SP!Next]_(SP!vars)
<1>1. S!Next => SP!Next
  BY DEF S!Next, SP!Next, S!End, SP!End, S!Cancel, SP!Cancel, S!GiveUp, SP!GiveUp,
         S!Finish, SP!Finish, S!Confirm, SP!Confirm, S!Close, SP!Close, S!Replace, SP!Replace,
         S!Retire, SP!Retire, S!Announce, SP!Announce, S!Generations, SP!Generations,
         S!Live, SP!Live, S!Lost, SP!Lost
<1> QED BY <1>1 DEF S!vars, SP!vars

\* Steps that concern no channel.
QuietStep ==
    \/ CloseErrCh \/ OfferExpires \/ RunCalled
    \/ TakeEvent \/ EventsEnd \/ CheckClosed \/ LockIsClosedMu
    \/ QosSafe \/ Declare \/ RpcFails \/ WakeUp
    \/ \E s \in Streams : DropBuffered(s) \/ \E m \in Messages : Deliver(s, m)
    \/ \E w \in Workers : WorkerStep(w)
    \/ \E c \in Closers :
         \/ CloseWithContext(c) \/ BeginWait(c) \/ SkipWait(c) \/ EndWait(c) \/ ContextExpires(c)
         \/ Cleanup(c) \/ WaiterStep(c)
    \/ UNCHANGED vars

ChannelAction ==
    \/ Replace \/ WatcherLeaves
    \/ \E g \in S!Generations : ChannelEnds(g) \/ Retire(g) \/ Announce(g)
    \/ \E c \in Closers : CloseChannel(c)

StreamAction == \E s \in Streams : BrokerCancels(s) \/ Consume(s)

LEMMA NextCases == [Next]_vars <=> QuietStep \/ ChannelAction \/ StreamAction
  BY DEF Next, RecoveryStep, ManagerStep, CloserStep, QuietStep, ChannelAction, StreamAction

LEMMA QuietFrame == QuietStep => UNCHANGED <<mgrVars, streamVars>>
<1> SUFFICES ASSUME QuietStep PROVE UNCHANGED <<mgrVars, streamVars>>
  OBVIOUS
<1> USE DEF chanVars
<1>1. CASE \E w \in Workers : WorkerStep(w)
  BY <1>1 DEF WorkerStep, Take, DeliveriesEnd, CheckBeforeHandling, StartHandler,
              RejectWhileClosing, HandlerRemoves, HandlerRequeues, Settle
<1>2. CASE \E c \in Closers :
             \/ CloseWithContext(c) \/ BeginWait(c) \/ SkipWait(c) \/ EndWait(c) \/ ContextExpires(c)
             \/ Cleanup(c) \/ WaiterStep(c)
  BY <1>2 DEF CloseWithContext, BeginWait, SkipWait, EndWait, ContextExpires, Cleanup, WaiterStep,
              AnnounceWriter, HandlersDone, UnlockHandlers
<1>3. CASE \/ CloseErrCh \/ OfferExpires \/ RunCalled
           \/ TakeEvent \/ EventsEnd \/ CheckClosed \/ LockIsClosedMu
           \/ QosSafe \/ Declare \/ RpcFails \/ WakeUp \/ UNCHANGED vars
  BY <1>3 DEF CloseErrCh, OfferExpires, RunCalled, TakeEvent, EventsEnd, CheckClosed,
              LockIsClosedMu, QosSafe, Declare, RpcFails, WakeUp, vars
<1>4. CASE \E s \in Streams : DropBuffered(s) \/ \E m \in Messages : Deliver(s, m)
  BY <1>4 DEF DropBuffered, Deliver
<1> QED BY <1>1, <1>2, <1>3, <1>4 DEF QuietStep

\* Every step of the consumer is one its channel manager knows, or none of its own:
\* a new stream is not a cancelled one.
LEMMA ChannelStep ==
    ASSUME StreamsOfChannels, [Next]_vars PROVE [S!Next]_(S!vars)
<1> USE DEF mgrVars
<1>1. UNCHANGED <<mgrVars, streamVars>> => UNCHANGED S!vars
  BY DEF S!vars, streamVars, CancelledChans
<1>2. CASE ChannelAction
  <2>1. \A g \in S!Generations : {g} \in SUBSET S!Generations
    OBVIOUS
  <2> QED BY <1>2, <2>1 DEF ChannelAction, Replace, WatcherLeaves, ChannelEnds, Retire, Announce,
                            CloseChannel, S!Next
<1>3. ASSUME NEW s \in Streams, Consume(s) PROVE UNCHANGED S!vars
  <2>1. s \notin cancelled
    BY <1>3 DEF Consume, StreamsOfChannels
  <2>2. \A t \in cancelled : streamChan'[t] = streamChan[t]
    BY <1>3, <2>1 DEF Consume
  <2>3. CancelledChans' = CancelledChans
    BY <1>3, <2>2 DEF Consume, chanVars, CancelledChans
  <2> QED BY <1>3, <2>3 DEF Consume, chanVars, S!vars
<1>4. ASSUME NEW s \in Streams, BrokerCancels(s) PROVE S!Next \/ UNCHANGED S!vars
  <2>1. CASE generation \in CancelledChans
    <3>1. CancelledChans' = CancelledChans
      BY <1>4, <2>1 DEF BrokerCancels, chanVars, CancelledChans
    <3> QED BY <1>4, <3>1 DEF BrokerCancels, chanVars, S!vars
  <2> QED BY <1>4, <2>1 DEF BrokerCancels, S!Next
<1> QED BY <1>1, <1>2, <1>3, <1>4, QuietFrame, NextCases DEF StreamAction

\* No channel comes back, and there is always a current one within the bound.
LEMMA ChannelFrame ==
    ASSUME StreamsOfChannels, S!TypeOK, generation \in Chans, [Next]_vars
    PROVE  /\ generation' \in Chans /\ generation' >= generation
           /\ \A g \in S!Generations : Live(g)' => Live(g)
<1> USE DEF S!Generations, Chans, S!TypeOK
<1>1. [S!Next]_(S!vars)
  BY ChannelStep
<1>2. generation' \in Int /\ generation' >= generation
  BY <1>1, MaxChansAssumption DEF S!Next, S!vars, S!End, S!Cancel, S!GiveUp, S!Finish, S!Confirm, S!Close,
              S!Replace, S!Retire, S!Announce
<1>3. \A g \in S!Generations : Live(g)' => Live(g)
  BY <1>1 DEF S!Next, S!vars, S!End, S!Cancel, S!GiveUp, S!Finish, S!Confirm, S!Close,
              S!Replace, S!Retire, S!Announce, Live, S!Live
<1>4. Replace \/ generation' = generation
  <2>1. CASE QuietStep
    BY <2>1, QuietFrame DEF mgrVars
  <2>2. CASE ChannelAction
    BY <2>2 DEF ChannelAction, WatcherLeaves, ChannelEnds, Retire, Announce, CloseChannel,
                S!GiveUp, S!Finish, S!End, S!Retire, S!Announce, S!Close
  <2>3. CASE StreamAction
    BY <2>3 DEF StreamAction, BrokerCancels, Consume, chanVars, mgrVars
  <2> QED BY <2>1, <2>2, <2>3, NextCases
<1>5. generation' \in Chans
  BY <1>4, MaxChansAssumption DEF Replace, S!Replace
<1> QED BY <1>2, <1>3, <1>5

\* Streams start on the channel that is current, and only those are cancelled.
LEMMA NextStreamsOfChannels ==
    ASSUME StreamsOfChannels, S!TypeOK, generation \in Chans,
           streamChan \in [Streams -> Chans \cup {None}], cancelled \subseteq Streams, [Next]_vars
    PROVE  StreamsOfChannels'
<1>1. generation' \in Chans /\ generation' >= generation /\ Chans \subseteq Nat /\ 0 \notin Chans
  BY ChannelFrame, MaxChansAssumption DEF Chans
<1>2. \A s \in Streams : streamChan[s] \in Nat /\ streamChan[s] <= generation
  <2> SUFFICES ASSUME NEW s \in Streams PROVE streamChan[s] \in Nat /\ streamChan[s] <= generation
    OBVIOUS
  <2>1. streamChan[s] \in Chans \/ streamChan[s] = 0
    BY Zenon DEF None
  <2>2. streamChan[s] \in Nat
    BY <2>1, MaxChansAssumption DEF Chans
  <2> QED BY <2>2 DEF StreamsOfChannels
<1>3. CASE UNCHANGED streamVars
  BY <1>1, <1>2, <1>3 DEF StreamsOfChannels, streamVars
<1>4. CASE ChannelAction
  <2>1. UNCHANGED streamVars
    BY <1>4 DEF ChannelAction, Replace, WatcherLeaves, ChannelEnds, Retire, Announce,
                CloseChannel, streamVars
  <2> QED BY <1>3, <2>1
<1>5. ASSUME NEW s \in Streams, BrokerCancels(s) PROVE StreamsOfChannels'
  BY <1>1, <1>2, <1>5 DEF BrokerCancels, StreamsOfChannels, None
<1>6. ASSUME NEW s \in Streams, Consume(s) PROVE StreamsOfChannels'
  BY <1>1, <1>2, <1>6 DEF Consume, StreamsOfChannels, None, chanVars, mgrVars
<1> QED BY <1>3, <1>4, <1>5, <1>6, QuietFrame, NextCases DEF StreamAction

----------------------------------------------------------------------------
(* The types of the consumer's own variables *)

OwnTypes ==
    /\ qos \subseteq Chans
    /\ offers \in Nat
    /\ streamChan \in [Streams -> Chans \cup {None}]
    /\ limited \subseteq Streams /\ cancelled \subseteq Streams
    /\ owner \in [Messages -> Streams \cup {Ready}]
    /\ settled \subseteq Messages
    /\ inbox \in [Streams -> SUBSET Messages]
    /\ msg \in [Workers -> Messages \cup {NoMessage}]
    /\ handled \subseteq Messages /\ requeued \subseteq Messages

Flags == /\ errChClosed \in BOOLEAN /\ started \in BOOLEAN
         /\ isClosed \in BOOLEAN /\ cleaned \in BOOLEAN

Places == /\ wpc \in [Workers -> WorkerStates]
          /\ rec \in RecoveryStates
          /\ cpc \in [Closers -> CloserStates]
          /\ waiter \in [Closers -> WaiterStates]

LEMMA TypesSplit == TypeOK <=> generation \in Chans /\ S!TypeOK /\ OwnTypes /\ Flags /\ Places
  BY Zenon DEF TypeOK, OwnTypes, Flags, Places

LEMMA WorkerStream == \A w \in Workers : w[1] \in Streams
  BY DEF Workers

\* A flag that is set stays set.
LEMMA FlagsStay ==
    ASSUME [Next]_vars
    PROVE  /\ errChClosed' = errChClosed \/ errChClosed' = TRUE
           /\ started' = started \/ started' = TRUE
           /\ isClosed' = isClosed \/ isClosed' = TRUE
           /\ cleaned' = cleaned \/ cleaned' = TRUE
<1> USE DEF eventVars, startVars, closeVars
<1>1. CASE \E w \in Workers : WorkerStep(w)
  BY <1>1 DEF WorkerStep, Take, DeliveriesEnd, CheckBeforeHandling, StartHandler,
              RejectWhileClosing, HandlerRemoves, HandlerRequeues, Settle
<1>2. CASE \E c \in Closers :
             \/ CloseWithContext(c) \/ BeginWait(c) \/ SkipWait(c) \/ EndWait(c) \/ ContextExpires(c)
             \/ Cleanup(c) \/ WaiterStep(c)
  BY <1>2 DEF CloseWithContext, BeginWait, SkipWait, EndWait, ContextExpires, Cleanup, WaiterStep,
              AnnounceWriter, HandlersDone, UnlockHandlers
<1>3. CASE \/ CloseErrCh \/ OfferExpires \/ RunCalled
           \/ TakeEvent \/ EventsEnd \/ CheckClosed \/ LockIsClosedMu
           \/ QosSafe \/ Declare \/ RpcFails \/ WakeUp \/ UNCHANGED vars
  BY <1>3 DEF CloseErrCh, OfferExpires, RunCalled, TakeEvent, EventsEnd, CheckClosed,
              LockIsClosedMu, QosSafe, Declare, RpcFails, WakeUp, vars
<1>4. CASE \E s \in Streams : DropBuffered(s) \/ \E m \in Messages : Deliver(s, m)
  BY <1>4 DEF DropBuffered, Deliver
<1>5. CASE ChannelAction
  BY <1>5 DEF ChannelAction, Replace, WatcherLeaves, ChannelEnds, Retire, Announce, CloseChannel
<1>6. CASE StreamAction
  BY <1>6 DEF StreamAction, BrokerCancels, Consume
<1> QED BY <1>1, <1>2, <1>3, <1>4, <1>5, <1>6, NextCases DEF QuietStep

LEMMA NextFlags == ASSUME Flags, [Next]_vars PROVE Flags'
  BY FlagsStay, Zenon DEF Flags

LEMMA NextPlaces == ASSUME Places, [Next]_vars PROVE Places'
<1> USE DEF Places, WorkerStates, RecoveryStates, CloserStates, WaiterStates, workerVars,
            startVars, closeVars
<1>1. CASE \E w \in Workers : WorkerStep(w)
  BY <1>1 DEF WorkerStep, Take, DeliveriesEnd, CheckBeforeHandling, StartHandler,
              RejectWhileClosing, HandlerRemoves, HandlerRequeues, Settle
<1>2. CASE \E c \in Closers :
             \/ CloseWithContext(c) \/ BeginWait(c) \/ SkipWait(c) \/ EndWait(c) \/ ContextExpires(c)
             \/ Cleanup(c) \/ WaiterStep(c)
  BY <1>2 DEF CloseWithContext, BeginWait, SkipWait, EndWait, ContextExpires, Cleanup, WaiterStep,
              AnnounceWriter, HandlersDone, UnlockHandlers
<1>3. CASE \/ CloseErrCh \/ OfferExpires \/ RunCalled
           \/ TakeEvent \/ EventsEnd \/ CheckClosed \/ LockIsClosedMu
           \/ QosSafe \/ Declare \/ RpcFails \/ WakeUp \/ UNCHANGED vars
  BY <1>3 DEF CloseErrCh, OfferExpires, RunCalled, TakeEvent, EventsEnd, CheckClosed,
              LockIsClosedMu, QosSafe, Declare, RpcFails, WakeUp, vars
<1>4. CASE \E s \in Streams : DropBuffered(s) \/ \E m \in Messages : Deliver(s, m)
  BY <1>4 DEF DropBuffered, Deliver
<1>5. CASE ChannelAction
  BY <1>5 DEF ChannelAction, Replace, WatcherLeaves, ChannelEnds, Retire, Announce, CloseChannel
<1>6. CASE StreamAction
  BY <1>6 DEF StreamAction, BrokerCancels, Consume
<1> QED BY <1>1, <1>2, <1>3, <1>4, <1>5, <1>6, NextCases DEF QuietStep

\* What a handler goroutine holds is a message of the queue.
Held == \A w \in Workers : Holding(w) => msg[w] \in Messages

LEMMA NextOwnTypes ==
    ASSUME generation \in Chans, OwnTypes, Held, [Next]_vars PROVE OwnTypes'
<1> USE DEF OwnTypes, chanVars, eventVars, streamVars, queueVars, workerVars
<1>1. ASSUME NEW w \in Workers, WorkerStep(w) PROVE OwnTypes'
  <2>1. w[1] \in Streams
    BY WorkerStream
  <2>2. CASE \E m \in Messages : Take(w, m)
    BY <2>1, <2>2 DEF Take
  <2>3. CASE DeliveriesEnd(w) \/ CheckBeforeHandling(w) \/ RejectWhileClosing(w) \/ HandlerRemoves(w)
    BY <2>3 DEF DeliveriesEnd, CheckBeforeHandling, RejectWhileClosing, HandlerRemoves
  <2>4. CASE StartHandler(w) \/ HandlerRequeues(w) \/ Settle(w)
    <3>1. msg[w] \in Messages
      BY <2>4 DEF Held, Holding, StartHandler, HandlerRequeues, Settle
    <3> QED BY <2>4, <3>1 DEF StartHandler, HandlerRequeues, Settle
  <2> QED BY <1>1, <2>2, <2>3, <2>4 DEF WorkerStep
<1>2. CASE \E c \in Closers :
             \/ CloseWithContext(c) \/ BeginWait(c) \/ SkipWait(c) \/ EndWait(c) \/ ContextExpires(c)
             \/ Cleanup(c) \/ WaiterStep(c)
  BY <1>2 DEF CloseWithContext, BeginWait, SkipWait, EndWait, ContextExpires, Cleanup, WaiterStep,
              AnnounceWriter, HandlersDone, UnlockHandlers
<1>3. CASE \/ CloseErrCh \/ OfferExpires \/ RunCalled
           \/ TakeEvent \/ EventsEnd \/ CheckClosed \/ LockIsClosedMu
           \/ QosSafe \/ Declare \/ RpcFails \/ WakeUp \/ UNCHANGED vars
  BY <1>3 DEF CloseErrCh, OfferExpires, RunCalled, TakeEvent, EventsEnd, CheckClosed,
              LockIsClosedMu, QosSafe, Declare, RpcFails, WakeUp, vars
<1>4. ASSUME NEW s \in Streams, NEW m \in Messages, Deliver(s, m) PROVE OwnTypes'
  BY <1>4 DEF Deliver
<1>5. ASSUME NEW s \in Streams, DropBuffered(s) PROVE OwnTypes'
  BY <1>5 DEF DropBuffered
<1>6. CASE ChannelAction
  <2>1. /\ UNCHANGED <<qos, streamVars, settled, inbox, msg, handled, requeued>>
        /\ offers' \in {offers, offers + 1}
        /\ owner' = owner \/ \E g : TakeBack(g)
    BY <1>6 DEF ChannelAction, Replace, WatcherLeaves, ChannelEnds, Retire, Announce, CloseChannel
  <2>2. owner' \in [Messages -> Streams \cup {Ready}]
    BY <2>1 DEF TakeBack
  <2> QED BY <2>1, <2>2
<1>7. ASSUME NEW s \in Streams, BrokerCancels(s) PROVE OwnTypes'
  BY <1>7 DEF BrokerCancels
<1>8. ASSUME NEW s \in Streams, Consume(s) PROVE OwnTypes'
  BY <1>8 DEF Consume
<1> HIDE DEF OwnTypes
<1> QED BY <1>1, <1>2, <1>3, <1>4, <1>5, <1>6, <1>7, <1>8, NextCases DEF QuietStep, StreamAction

----------------------------------------------------------------------------
(* Who has a message *)

\* The steps that leave the handler goroutines and what is buffered alone. They
\* take messages from nobody but the streams of a channel that ends.
Elsewhere ==
    /\ UNCHANGED <<streamChan, inbox, wpc, msg, handled, settled>>
    /\ \/ UNCHANGED owner
       \/ \E g \in S!Generations : TakeBack(g) /\ chan'[g] = "ended"

LEMMA QueueCases ==
    ASSUME S!TypeOK, generation \in Chans, [Next]_vars
    PROVE  \/ Elsewhere
           \/ \E s \in Streams :
                Consume(s) \/ DropBuffered(s) \/ \E m \in Messages : Deliver(s, m)
           \/ \E w \in Workers : WorkerStep(w)
<1> USE DEF Elsewhere, streamVars, queueVars, workerVars
<1>1. CASE \/ CloseErrCh \/ OfferExpires \/ RunCalled
           \/ TakeEvent \/ EventsEnd \/ CheckClosed \/ LockIsClosedMu
           \/ QosSafe \/ Declare \/ RpcFails \/ WakeUp \/ UNCHANGED vars
  BY <1>1 DEF CloseErrCh, OfferExpires, RunCalled, TakeEvent, EventsEnd, CheckClosed,
              LockIsClosedMu, QosSafe, Declare, RpcFails, WakeUp, vars
<1>2. CASE \E c \in Closers :
             \/ CloseWithContext(c) \/ BeginWait(c) \/ SkipWait(c) \/ EndWait(c) \/ ContextExpires(c)
             \/ Cleanup(c) \/ WaiterStep(c)
  BY <1>2 DEF CloseWithContext, BeginWait, SkipWait, EndWait, ContextExpires, Cleanup, WaiterStep,
              AnnounceWriter, HandlersDone, UnlockHandlers
<1>3. CASE \/ Replace \/ WatcherLeaves
           \/ \E g \in S!Generations : Announce(g)
           \/ \E s \in Streams : BrokerCancels(s)
  BY <1>3 DEF Replace, WatcherLeaves, Announce, BrokerCancels
<1>4. ASSUME NEW g \in S!Generations, ChannelEnds(g) PROVE Elsewhere
  <2>1. chan'[g] = "ended"
    BY <1>4 DEF ChannelEnds, S!End
  <2> QED BY <1>4, <2>1 DEF ChannelEnds
<1>5. ASSUME NEW g \in S!Generations, Retire(g) PROVE Elsewhere
  <2>1. chan'[g] = "ended"
    BY <1>5 DEF Retire, S!Retire, S!TypeOK
  <2> QED BY <1>5, <2>1 DEF Retire
<1>6. ASSUME NEW c \in Closers, CloseChannel(c) PROVE Elsewhere
  <2>1. generation \in S!Generations
    BY MaxChansAssumption DEF S!Generations, Chans
  <2>2. chan'[generation] = "ended"
    BY <1>6, <2>1 DEF CloseChannel, S!Close, S!TypeOK
  <2> QED BY <1>6, <2>1, <2>2 DEF CloseChannel
<1> HIDE DEF Elsewhere
<1> QED BY <1>1, <1>2, <1>3, <1>4, <1>5, <1>6, NextCases DEF QuietStep, ChannelAction, StreamAction

Alive(s) == streamChan[s] # None /\ Live(streamChan[s])

\* A stream does not come back, nor does it move to another channel.
LEMMA StreamsEnd ==
    ASSUME S!TypeOK, generation \in Chans, OwnTypes, StreamsOfChannels, [Next]_vars,
           NEW s \in Streams, streamChan[s] # None, streamChan'[s] = streamChan[s], Alive(s)'
    PROVE  Alive(s)
<1>1. streamChan[s] \in Chans /\ streamChan[s] <= generation
  BY DEF OwnTypes, StreamsOfChannels
<1>2. streamChan[s] \in S!Generations
  BY <1>1, MaxChansAssumption DEF Chans, S!Generations
<1>3. chan'[streamChan[s]] = "open"
  BY DEF Alive, Live, S!Live
<1>4. \A g \in S!Generations : chan'[g] = "open" => chan[g] = "open"
  BY ChannelFrame DEF Live, S!Live
<1> QED BY <1>2, <1>3, <1>4 DEF Alive, Live, S!Live

\* What a step may do to streams, buffers and handler goroutines without anybody
\* losing or doubling a message.
LEMMA OwnershipFrame ==
    ASSUME BufferedIsOwned, HeldIsOwned,
           \A s \in Streams : inbox'[s] \subseteq inbox[s],
           \A w \in Workers : Holding(w)' => Holding(w) /\ msg'[w] = msg[w],
           \A s \in Streams : streamChan[s] # None =>
               /\ streamChan'[s] = streamChan[s]
               /\ Alive(s)' => Alive(s)
               /\ Alive(s)' => \A m \in Messages : owner[m] = s => owner'[m] = s,
           inbox \in [Streams -> SUBSET Messages]
    PROVE  BufferedIsOwned' /\ HeldIsOwned'
<1> USE DEF Alive
<1>1. BufferedIsOwned'
  BY DEF BufferedIsOwned
<1>2. ASSUME NEW w \in Workers, Holding(w)'
      PROVE  /\ msg'[w] \in Messages /\ streamChan'[w[1]] # None
             /\ Live(streamChan[w[1]])' => owner'[msg'[w]] = w[1] /\ msg'[w] \notin inbox'[w[1]]
  <2>1. w[1] \in Streams /\ Holding(w) /\ msg'[w] = msg[w]
    BY <1>2, WorkerStream
  <2> QED BY <2>1 DEF HeldIsOwned
<1>3. ASSUME NEW v \in Workers, NEW w \in Workers, v # w, Holding(v)', Holding(w)', msg'[v] = msg'[w],
             Live(streamChan[v[1]])', Live(streamChan[w[1]])'
      PROVE  FALSE
  <2>1. /\ v[1] \in Streams /\ Holding(v) /\ msg'[v] = msg[v]
        /\ w[1] \in Streams /\ Holding(w) /\ msg'[w] = msg[w]
    BY <1>3, WorkerStream
  <2>2. streamChan[v[1]] # None /\ streamChan[w[1]] # None
    BY <2>1 DEF HeldIsOwned
  <2>3. Alive(v[1]) /\ Alive(w[1])
    BY <1>3, <2>1, <2>2
  <2> QED BY <1>3, <2>1, <2>3 DEF HeldIsOwned
<1> QED BY <1>1, <1>2, <1>3 DEF HeldIsOwned

LEMMA ElsewhereKeeps ==
    ASSUME TypeOK, StreamsOfChannels, BufferedIsOwned, HeldIsOwned, [Next]_vars, Elsewhere
    PROVE  BufferedIsOwned' /\ HeldIsOwned'
<1> USE DEF Elsewhere
<1>1. S!TypeOK /\ generation \in Chans /\ OwnTypes
  BY TypesSplit
<1>2. \A s \in Streams : streamChan[s] # None => (Alive(s)' => Alive(s))
  BY <1>1, StreamsEnd
<1>3. ASSUME NEW s \in Streams, Alive(s)', NEW m \in Messages, owner[m] = s PROVE owner'[m] = s
  <2>1. ASSUME NEW g \in S!Generations, TakeBack(g), chan'[g] = "ended" PROVE owner'[m] = s
    <3>1. streamChan[s] # g
      BY <2>1, <1>3 DEF Alive, Live, S!Live
    <3> QED BY <1>3, <2>1, <3>1 DEF TakeBack
  <2> QED BY <1>3, <2>1
<1>4. \A w \in Workers : Holding(w)' => Holding(w) /\ msg'[w] = msg[w]
  BY DEF Holding
<1>5. inbox \in [Streams -> SUBSET Messages]
  BY <1>1 DEF OwnTypes
<1> QED BY <1>2, <1>3, <1>4, <1>5, OwnershipFrame

\* The broker gives a message that is ready to one stream.
LEMMA DeliverKeeps ==
    ASSUME OwnTypes, BufferedIsOwned, HeldIsOwned, NEW s \in Streams, NEW m \in Messages, Deliver(s, m)
    PROVE  BufferedIsOwned' /\ HeldIsOwned'
<1> USE DEF Deliver, OwnTypes, chanVars, mgrVars, streamVars, workerVars
<1>1. \A t \in Streams : t # Ready
  BY DEF Streams, Ready
<1>2. \A x : Live(x)' = Live(x)
  BY DEF Live, S!Live
<1>3. BufferedIsOwned'
  BY <1>1, <1>2 DEF BufferedIsOwned
<1>4. ASSUME NEW w \in Workers, Holding(w)
      PROVE  /\ msg[w] \in Messages /\ streamChan[w[1]] # None
             /\ Live(streamChan[w[1]]) => owner'[msg[w]] = w[1] /\ msg[w] \notin inbox'[w[1]]
  <2>1. w[1] \in Streams /\ w[1] # Ready
    BY <1>1, WorkerStream
  <2>2. Live(streamChan[w[1]]) => msg[w] # m
    BY <1>4, <2>1 DEF HeldIsOwned
  <2> QED BY <1>4, <2>1, <2>2 DEF HeldIsOwned
<1>5. HeldIsOwned'
  BY <1>2, <1>4 DEF HeldIsOwned, Holding
<1> QED BY <1>3, <1>5

\* A handler goroutine takes a message that no other of its stream holds.
LEMMA TakeKeeps ==
    ASSUME OwnTypes, BufferedIsOwned, HeldIsOwned, NEW w \in Workers, NEW m \in Messages, Take(w, m)
    PROVE  BufferedIsOwned' /\ HeldIsOwned'
<1> USE DEF Take, OwnTypes, chanVars, mgrVars, streamVars
<1>1. w[1] \in Streams
  BY WorkerStream
<1>2. \A x : Live(x)' = Live(x)
  BY DEF Live, S!Live
<1>3. BufferedIsOwned'
  BY <1>1, <1>2 DEF BufferedIsOwned
<1>4. /\ msg'[w] = m /\ streamChan[w[1]] # None
      /\ Live(streamChan[w[1]]) => owner[m] = w[1] /\ m \notin inbox'[w[1]]
  BY <1>1 DEF BufferedIsOwned
<1>5. ASSUME NEW v \in Workers, v # w PROVE (Holding(v)' <=> Holding(v)) /\ msg'[v] = msg[v]
  BY <1>5 DEF Holding
<1>6. ASSUME NEW v \in Workers, Holding(v)'
      PROVE  /\ msg'[v] \in Messages /\ streamChan[v[1]] # None
             /\ Live(streamChan[v[1]]) => owner[msg'[v]] = v[1] /\ msg'[v] \notin inbox'[v[1]]
  <2>1. CASE v = w
    BY <1>4, <2>1
  <2>2. CASE v # w
    <3>1. v[1] \in Streams /\ inbox'[v[1]] \subseteq inbox[v[1]]
      BY <1>1, WorkerStream
    <3> QED BY <1>5, <1>6, <2>2, <3>1 DEF HeldIsOwned
  <2> QED BY <2>1, <2>2
<1>7. ASSUME NEW v \in Workers, v # w, Holding(v), msg[v] = m,
             Live(streamChan[v[1]]), Live(streamChan[w[1]])
      PROVE  FALSE
  BY <1>4, <1>7 DEF HeldIsOwned
<1>8. ASSUME NEW u \in Workers, NEW v \in Workers, u # v, Holding(u)', Holding(v)', msg'[u] = msg'[v]
      PROVE  ~Live(streamChan[u[1]]) \/ ~Live(streamChan[v[1]])
  BY <1>4, <1>5, <1>7, <1>8 DEF HeldIsOwned
<1>9. HeldIsOwned'
  BY <1>2, <1>6, <1>8 DEF HeldIsOwned
<1> QED BY <1>3, <1>9

\* Only the goroutine that holds a message settles it.
LEMMA SettleKeeps ==
    ASSUME OwnTypes, Places, BufferedIsOwned, HeldIsOwned, NEW w \in Workers, Settle(w)
    PROVE  BufferedIsOwned' /\ HeldIsOwned'
<1> USE DEF Settle, OwnTypes, Places, chanVars, mgrVars, streamVars
<1>1. w[1] \in Streams /\ Holding(w) /\ ~Holding(w)'
  BY WorkerStream DEF Holding
<1>2. \A x : Live(x)' = Live(x)
  BY DEF Live, S!Live
<1>3. /\ msg[w] \in Messages
      /\ Live(streamChan[w[1]]) => owner[msg[w]] = w[1] /\ msg[w] \notin inbox[w[1]]
  BY <1>1 DEF HeldIsOwned
<1>4. \A m \in Messages : owner'[m] = owner[m] \/ (m = msg[w] /\ Live(streamChan[w[1]]))
  BY <1>3
<1>5. BufferedIsOwned'
  <2> SUFFICES ASSUME NEW s \in Streams, NEW m \in inbox[s], Live(streamChan[s]) PROVE owner'[m] = s
    BY <1>2 DEF BufferedIsOwned
  <2>1. owner[m] = s /\ m \in Messages
    BY DEF BufferedIsOwned
  <2> QED BY <1>3, <1>4, <2>1
<1>6. ASSUME NEW v \in Workers, Holding(v)' PROVE v # w /\ Holding(v) /\ msg'[v] = msg[v]
  BY <1>1, <1>6 DEF Holding
<1>7. ASSUME NEW v \in Workers, v # w, Holding(v), Live(streamChan[v[1]]) PROVE owner'[msg[v]] = v[1]
  BY <1>1, <1>3, <1>4, <1>7 DEF HeldIsOwned
<1>8. HeldIsOwned'
  BY <1>2, <1>6, <1>7 DEF HeldIsOwned
<1> QED BY <1>5, <1>8


\* The other steps of a handler goroutine give up messages, or keep them.
LEMMA WorkerKeeps ==
    ASSUME TypeOK, BufferedIsOwned, HeldIsOwned, NEW w \in Workers, WorkerStep(w)
    PROVE  BufferedIsOwned' /\ HeldIsOwned'
<1>1. OwnTypes /\ Places
  BY TypesSplit
<1>2. CASE Settle(w) \/ \E m \in Messages : Take(w, m)
  BY <1>1, <1>2, SettleKeeps, TakeKeeps
<1>3. CASE \/ DeliveriesEnd(w) \/ CheckBeforeHandling(w) \/ StartHandler(w) \/ RejectWhileClosing(w)
           \/ HandlerRemoves(w) \/ HandlerRequeues(w)
  <2> USE DEF DeliveriesEnd, CheckBeforeHandling, StartHandler, RejectWhileClosing, HandlerRemoves,
              HandlerRequeues, OwnTypes, Places
  <2>1. UNCHANGED <<mgrVars, streamChan, owner, inbox>>
    BY <1>3 DEF chanVars, streamVars, queueVars
  <2>2. \A s \in Streams : Alive(s)' <=> Alive(s)
    BY <2>1 DEF Alive, Live, S!Live, mgrVars
  <2>3. \A v \in Workers : Holding(v)' => Holding(v) /\ msg'[v] = msg[v]
    BY <1>1, <1>3 DEF Holding
  <2>4. inbox \in [Streams -> SUBSET Messages]
    BY <1>1
  <2> QED BY <2>1, <2>2, <2>3, <2>4, OwnershipFrame
<1> QED BY <1>2, <1>3 DEF WorkerStep

\* A new stream has nothing yet, and a stream that is over may lose what is buffered.
LEMMA StreamKeeps ==
    ASSUME TypeOK, BufferedIsOwned, HeldIsOwned, NEW s \in Streams, Consume(s) \/ DropBuffered(s)
    PROVE  BufferedIsOwned' /\ HeldIsOwned'
<1>1. OwnTypes /\ Places
  BY TypesSplit
<1> USE DEF Consume, DropBuffered, OwnTypes, Places
<1>2. UNCHANGED <<mgrVars, owner, msg>>
  BY DEF chanVars, queueVars, workerVars
<1>3. \A t \in Streams : inbox'[t] \subseteq inbox[t]
  BY <1>1 DEF queueVars
<1>4. \A t \in Streams : streamChan[t] # None => streamChan'[t] = streamChan[t]
  BY <1>1 DEF streamVars
<1>5. \A t \in Streams : streamChan[t] # None => (Alive(t)' <=> Alive(t))
  BY <1>2, <1>4 DEF Alive, Live, S!Live, mgrVars
<1>6. \A v \in Workers : Holding(v)' => Holding(v)
  BY <1>1 DEF Holding, workerVars
<1>7. inbox \in [Streams -> SUBSET Messages]
  BY <1>1
<1> QED BY <1>2, <1>3, <1>4, <1>5, <1>6, <1>7, OwnershipFrame

LEMMA NextOwnership ==
    ASSUME TypeOK, StreamsOfChannels, BufferedIsOwned, HeldIsOwned, [Next]_vars
    PROVE  BufferedIsOwned' /\ HeldIsOwned'
  BY TypesSplit, QueueCases, ElsewhereKeeps, DeliverKeeps, WorkerKeeps, StreamKeeps

----------------------------------------------------------------------------
(* What leaves the queue *)

\* Only a goroutine that has called the handler removes its message.
LEMMA NextHandled ==
    ASSUME TypeOK, RemovesHandled, SettledByHandler, [Next]_vars
    PROVE  RemovesHandled' /\ SettledByHandler'
<1>1. S!TypeOK /\ generation \in Chans /\ OwnTypes /\ Places
  BY TypesSplit
<1> USE DEF RemovesHandled, SettledByHandler
<1>2. CASE Elsewhere
  BY <1>2 DEF Elsewhere
<1>3. ASSUME NEW s \in Streams, Consume(s) \/ DropBuffered(s) \/ \E m \in Messages : Deliver(s, m)
      PROVE  RemovesHandled' /\ SettledByHandler'
  <2>1. UNCHANGED <<msg, handled, settled>>
    BY <1>3 DEF Consume, DropBuffered, Deliver, queueVars, workerVars
  <2>2. \A w \in Workers : wpc'[w] \in {"running", "remove"} => wpc'[w] = wpc[w]
    BY <1>3 DEF Consume, DropBuffered, Deliver, workerVars
  <2> QED BY <2>1, <2>2
<1>4. ASSUME NEW w \in Workers, WorkerStep(w) PROVE RemovesHandled' /\ SettledByHandler'
  <2> USE <1>1 DEF OwnTypes, Places
  <2>1. CASE StartHandler(w)
    BY <2>1 DEF StartHandler, queueVars
  <2>2. CASE Settle(w)
    BY <2>2 DEF Settle
  <2>3. CASE \/ DeliveriesEnd(w) \/ CheckBeforeHandling(w) \/ RejectWhileClosing(w)
             \/ HandlerRemoves(w) \/ HandlerRequeues(w) \/ \E m \in Messages : Take(w, m)
    BY <2>3 DEF DeliveriesEnd, CheckBeforeHandling, RejectWhileClosing, HandlerRemoves,
                HandlerRequeues, Take, queueVars
  <2> QED BY <1>4, <2>1, <2>2, <2>3 DEF WorkerStep
<1> QED BY <1>1, <1>2, <1>3, <1>4, QueueCases

----------------------------------------------------------------------------
(* The theorems *)

LEMMA InitIInv == Init => IInv
<1> SUFFICES ASSUME Init PROVE IInv
  OBVIOUS
<1>1. Chans = 1..MaxChans /\ 1 \in Chans /\ Streams = 1..MaxChans
  BY MaxChansAssumption DEF Chans, Streams
<1>2. Flags
  BY Zenon DEF Init, Flags
<1>3. Places
  BY DEF Init, Places, WorkerStates, RecoveryStates, CloserStates, WaiterStates
<1>4. OwnTypes /\ generation \in Chans
  BY <1>1 DEF Init, S!Init, OwnTypes
<1>5. S!TypeOK
  <2>1. mgrClosed \in BOOLEAN
    BY Zenon DEF Init, S!Init
  <2>2. (generation \in {}) = FALSE
    OBVIOUS
  <2>3. CancelledChans = {}
    BY DEF Init, CancelledChans
  <2> QED BY <2>1, <2>2, <2>3 DEF Init, S!Init, S!TypeOK, S!Generations
<1>6. StreamsOfChannels
  BY <1>1 DEF Init, S!Init, StreamsOfChannels, None
<1>7. BufferedIsOwned
  BY DEF Init, BufferedIsOwned
<1>8. HeldIsOwned
  BY DEF Init, HeldIsOwned, Holding
<1>9. RemovesHandled /\ SettledByHandler
  BY DEF Init, RemovesHandled, SettledByHandler
<1> QED BY <1>2, <1>3, <1>4, <1>5, <1>6, <1>7, <1>8, <1>9, TypesSplit DEF IInv

LEMMA NextManager == ASSUME S!TypeOK, StreamsOfChannels, [Next]_vars PROVE S!TypeOK'
<1>1. SP!TypeOK
  BY DEF S!TypeOK, SP!TypeOK, S!Generations, SP!Generations
<1>2. [SP!Next]_(SP!vars)
  BY ChannelStep, SameSteps
<1>3. SP!TypeOK'
  BY <1>1, <1>2, SP!NextTypeOK
<1> QED BY <1>3 DEF S!TypeOK, SP!TypeOK, S!Generations, SP!Generations

LEMMA NextIInv == ASSUME IInv, [Next]_vars PROVE IInv'
<1>1. S!TypeOK /\ generation \in Chans /\ OwnTypes /\ Flags /\ Places
  BY TypesSplit DEF IInv
<1>2. StreamsOfChannels'
  BY <1>1, NextStreamsOfChannels DEF IInv, OwnTypes
<1>3. S!TypeOK' /\ generation' \in Chans
  BY <1>1, NextManager, ChannelFrame DEF IInv
<1>4. Held
  BY DEF IInv, HeldIsOwned, Held
<1>5. OwnTypes' /\ Flags' /\ Places'
  BY <1>1, <1>4, NextOwnTypes, NextFlags, NextPlaces
<1>6. TypeOK'
  BY <1>3, <1>5, Zenon DEF TypeOK, OwnTypes, Flags, Places
<1>7. BufferedIsOwned' /\ HeldIsOwned'
  BY NextOwnership DEF IInv
<1>8. RemovesHandled' /\ SettledByHandler'
  BY NextHandled DEF IInv
<1> QED BY <1>2, <1>6, <1>7, <1>8 DEF IInv

\* Whatever a handler goroutine or the buffer of a live channel has, the broker
\* has given to that stream and to nobody else, over any replacements, cancels
\* and closes (consume.go:315-371).
THEOREM ConsumerInvariant == Spec => []IInv
<1>1. IInv /\ [Next]_vars => IInv'
  BY NextIInv
<1> QED BY InitIInv, <1>1, PTL DEF Spec

\* No message leaves the queue that no handler was called with.
THEOREM SettledOnlyHandled == Spec => []SettledByHandler
<1>1. IInv => SettledByHandler
  BY DEF IInv
<1> QED BY <1>1, ConsumerInvariant, PTL

\* A consumer deals with its channel manager as ManagedChannel lets its user do,
\* and so it has what is promised to it: at most two open channels.
THEOREM UsesItsChannel == Spec => S!Spec
<1>1. Init => S!Init
  BY DEF Init
<1>2. IInv /\ [Next]_vars => [S!Next]_(S!vars)
  BY ChannelStep DEF IInv
<1> QED BY <1>1, <1>2, ConsumerInvariant, PTL DEF Spec, S!Spec

THEOREM ChannelPromise == Spec => []S!Inv
<1>1. S!Init => SP!Init
  BY DEF S!Init, SP!Init
<1>2. S!Spec => SP!Spec
  BY <1>1, SameSteps, PTL DEF S!Spec, SP!Spec
<1>3. SP!Inv => S!Inv
  BY DEF S!Inv, SP!Inv, S!TypeOK, SP!TypeOK, S!Generations, SP!Generations, S!NoConfirmGap,
         SP!NoConfirmGap, S!OneOpenChannel, SP!OneOpenChannel, S!Live, SP!Live
<1> QED BY <1>2, <1>3, UsesItsChannel, SP!PromiseKept, PTL

\* A goroutine that comes back for a message after the consumer was marked closed
\* may take it, but has no way left to the handler.
Stopped(w) == isClosed /\ wpc[w] \in {"unborn", "range", "taken", "done"}

LEMMA StoppedStays ==
    ASSUME TypeOK, NEW w \in Workers, Stopped(w), [Next]_vars PROVE Stopped(w)'
<1>1. S!TypeOK /\ generation \in Chans /\ OwnTypes /\ Places
  BY TypesSplit
<1>2. isClosed'
  BY FlagsStay DEF Stopped
<1>3. wpc'[w] \in {"unborn", "range", "taken", "done"}
  <2> USE <1>1 DEF Stopped, Places
  <2>1. CASE Elsewhere
    BY <2>1 DEF Elsewhere
  <2>2. CASE \E s \in Streams : Consume(s) \/ DropBuffered(s) \/ \E m \in Messages : Deliver(s, m)
    BY <2>2 DEF Consume, DropBuffered, Deliver, workerVars
  <2>3. CASE \E v \in Workers : WorkerStep(v)
    BY <2>3 DEF WorkerStep, Take, DeliveriesEnd, CheckBeforeHandling, StartHandler,
                RejectWhileClosing, HandlerRemoves, HandlerRequeues, Settle
  <2> QED BY <2>1, <2>2, <2>3, QueueCases
<1> QED BY <1>2, <1>3 DEF Stopped

\* A closed consumer calls no handler for a message it had not taken before, on
\* whatever channel (consume.go:315-325).
THEOREM ClosedNeverHandles == Spec => ClosedStopsWorkers
<1>1. ASSUME NEW w \in Workers
      PROVE  Spec => [](isClosed /\ wpc[w] = "range" => [](wpc[w] # "running"))
  <2>1. isClosed /\ wpc[w] = "range" => Stopped(w)
    BY DEF Stopped
  <2>2. IInv /\ Stopped(w) /\ [Next]_vars => Stopped(w)'
    BY StoppedStays DEF IInv
  <2>3. Stopped(w) => wpc[w] # "running"
    BY DEF Stopped
  <2> QED BY <2>1, <2>2, <2>3, ConsumerInvariant, PTL DEF Spec
<1> QED BY <1>1 DEF ClosedStopsWorkers


============================================================================
