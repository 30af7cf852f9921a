------------------------------ MODULE Consumer ------------------------------
(***************************************************************************)
(* consume.go: a Consumer with its recovery goroutine, the handler         *)
(* goroutines of every consumption it started, and CloseWithContext.       *)
(*                                                                         *)
(* It is built on the promise of its channel manager (ManagedChannel.tla). *)
(* Every *Safe call is one step under the read lock, on the channel that   *)
(* is current at that moment.  The deliveries of one basic.consume are a   *)
(* stream; each has its own handler goroutines.                            *)
(*                                                                         *)
(* Outside the model: AutoAck (nothing is acknowledged), Manual (the user  *)
(* acknowledges) and the library's native recovery, which the consumer     *)
(* does not see.                                                           *)
(***************************************************************************)
EXTENDS Integers, FiniteSets

CONSTANTS MaxChans,        \* bound on the generations of the channel
          Messages,        \* the messages of the queue
          NoMessage,       \* what a handler goroutine holds between two of them
          Concurrency,     \* options.Concurrency
          QOSPrefetch,     \* options.QOSPrefetch
          CloseGracefully, \* options.CloseGracefully
          MayGiveUp,       \* see ManagedChannel.tla
          Closers,         \* goroutines that call CloseWithContext
          Impatient        \* those whose context may expire

ASSUME MaxChansAssumption == MaxChans \in Nat \ {0}
ASSUME MessagesAssumption == NoMessage \notin Messages
ASSUME ClosersAssumption == Impatient \subseteq Closers

Chans   == 1..MaxChans
\* Run and every reconnect event start at most one stream each.
Streams == 1..MaxChans
Workers == Streams \X (1..Concurrency)
Ready   == 0

VARIABLES generation, chan, watcher, mgrClosed,
          qos,         \* the channels on which basic.qos was applied
          offers,      \* reconnect events offered on reconnectErrCh
          errChClosed, \* reconnectErrCh is closed
          streamChan,  \* the channel of every stream, None before it starts
          limited,     \* streams started on a channel with basic.qos
          cancelled,   \* streams the broker cancelled
          owner,       \* the stream a message is delivered to, or Ready
          settled,     \* messages the broker removed from the queue
          inbox,       \* deliveries of a stream that no worker has taken
          wpc, msg,    \* where each handler goroutine is and what it took
          handled,     \* messages some handler was called with
          requeued,    \* messages a handler asked to requeue
          rec,         \* where Run, later its recovery goroutine, is
          started,     \* Run has returned nil
          isClosed,    \* consumer.isClosed
          cleaned,     \* consumer.cleanupOnce is spent
          cpc,         \* where each CloseWithContext call is
          waiter       \* its goroutine that locks handlerMu for writing

None       == 0
mgrVars    == <<generation, chan, watcher, mgrClosed>>
chanVars   == <<mgrVars, qos>>
eventVars  == <<offers, errChClosed>>
streamVars == <<streamChan, limited, cancelled>>
queueVars  == <<owner, settled, inbox>>
workerVars == <<wpc, msg, handled, requeued>>
startVars  == <<rec, started>>
closeVars  == <<isClosed, cleaned, cpc, waiter>>
vars == <<chanVars, eventVars, streamVars, queueVars, workerVars, startVars, closeVars>>

\* The generations whose stream the broker cancelled.
CancelledChans ==
    {g \in DOMAIN chan : chan[g] = "open" /\ \E s \in cancelled : streamChan[s] = g}

\* A consumer has no use for the confirm mode: no channel is ever in it.
S == INSTANCE ManagedChannel WITH
       cancelled <- CancelledChans, confirmed <- {}, confirmMode <- generation \in {}

Live(g) == S!Live(g)
\* No delivery reaches the stream any more.
Over(s) == s \in cancelled \/ ~Live(streamChan[s])

\* startGoroutines holds isClosedMu for writing across its RPCs.
IsClosedMuFree == rec \notin {"qos", "declare", "consume"}

\* handlerMu: the handlers hold it for reading; from Lock() on, a writer keeps
\* TryRLock from succeeding.
Readers   == {w \in Workers : wpc[w] = "running"}
Announced == {c \in Closers : waiter[c] \in {"pending", "signalled"}}

Init ==
    /\ qos = {}
    /\ offers = 0 /\ errChClosed = FALSE
    /\ streamChan = [s \in Streams |-> None]
    /\ limited = {} /\ cancelled = {}
    /\ S!Init
    /\ owner = [m \in Messages |-> Ready]
    /\ settled = {}
    /\ inbox = [s \in Streams |-> {}]
    /\ wpc = [w \in Workers |-> "unborn"]
    /\ msg = [w \in Workers |-> NoMessage]
    /\ handled = {} /\ requeued = {}
    /\ rec = "idle" /\ started = FALSE
    /\ isClosed = FALSE /\ cleaned = FALSE
    /\ cpc = [c \in Closers |-> "idle"]
    /\ waiter = [c \in Closers |-> "none"]

----------------------------------------------------------------------------
(* The broker, the library and the channel manager *)

\* The broker takes back what it had delivered on a channel that ended.
TakeBack(g) ==
    owner' = [m \in Messages |->
                IF owner[m] # Ready /\ streamChan[owner[m]] = g THEN Ready ELSE owner[m]]

\* Bound: while there is another generation to replace it with.
ChannelEnds(g) ==
    /\ g < MaxChans
    /\ UNCHANGED <<qos, eventVars, streamVars, settled, inbox, workerVars, startVars,
                   closeVars>>
    /\ S!End({g})
    /\ TakeBack(g)

BrokerCancels(s) ==
    /\ streamChan[s] = generation
    /\ generation < MaxChans
    /\ s \notin cancelled
    /\ cancelled' = cancelled \cup {s}
    /\ UNCHANGED <<chanVars, eventVars, streamChan, limited, queueVars, workerVars,
                   startVars, closeVars>>
    /\ S!Cancel \/ generation \in CancelledChans

\* Bound: MaxChans. The last channel does not end.
Replace ==
    /\ generation < MaxChans
    /\ UNCHANGED <<qos, eventVars, streamVars, queueVars, workerVars, startVars, closeVars>>
    /\ \E state \in {"open", "ended"} :
         /\ state = "ended" => generation + 1 < MaxChans
         /\ S!Replace(state)

Retire(g) ==
    /\ UNCHANGED <<qos, eventVars, streamVars, settled, inbox, workerVars, startVars,
                   closeVars>>
    /\ S!Retire(g)
    /\ TakeBack(g)

WatcherLeaves ==
    /\ UNCHANGED <<chan, qos, eventVars, streamVars, queueVars, workerVars, startVars,
                   closeVars>>
    /\ S!GiveUp \/ S!Finish

Announce(g) ==
    /\ UNCHANGED <<chan, qos, errChClosed, streamVars, queueVars, workerVars, startVars,
                   closeVars>>
    /\ S!Announce(g)
    /\ offers' = IF errChClosed THEN offers ELSE offers + 1

\* Dispatch gives up after five seconds. The recovery goroutine is away from its
\* channel for so long only while it sleeps or waits for the broker; before Run
\* has succeeded nobody is there at all.
OfferExpires ==
    /\ offers > 0
    /\ rec # "range"
    /\ offers' = offers - 1
    /\ UNCHANGED <<chanVars, errChClosed, streamVars, queueVars, workerVars, startVars,
                   closeVars>>

\* basic.deliver, within the prefetch limit if the stream has one.
Deliver(s, m) ==
    /\ streamChan[s] # None
    /\ ~Over(s)
    /\ owner[m] = Ready
    /\ m \notin settled
    /\ s \in limited => Cardinality({n \in Messages : owner[n] = s}) < QOSPrefetch
    /\ owner' = [owner EXCEPT ![m] = s]
    /\ inbox' = [inbox EXCEPT ![s] = @ \cup {m}]
    /\ UNCHANGED <<chanVars, eventVars, streamVars, settled, workerVars, startVars,
                   closeVars>>

\* The library may drop what it had buffered for a channel that ended.
DropBuffered(s) ==
    /\ streamChan[s] # None
    /\ ~Live(streamChan[s])
    /\ inbox[s] # {}
    /\ inbox' = [inbox EXCEPT ![s] = {}]
    /\ UNCHANGED <<chanVars, eventVars, streamVars, owner, settled, workerVars, startVars,
                   closeVars>>

\* The dispatcher closes reconnectErrCh once it was told to unsubscribe and no
\* broadcast holds the subscription.
CloseErrCh ==
    /\ \E c \in Closers : cpc[c] = "unsubscribe"
    /\ offers = 0
    /\ errChClosed' = TRUE
    /\ cpc' = [c \in Closers |-> IF cpc[c] = "unsubscribe" THEN "returned" ELSE cpc[c]]
    /\ UNCHANGED <<chanVars, offers, streamVars, queueVars, workerVars, startVars, isClosed,
                   cleaned, waiter>>

----------------------------------------------------------------------------
(* Run, its recovery goroutine, startConsumerWithRetry and startGoroutines *)

\* startGoroutines takes isClosedMu before its RPCs.
RunCalled ==
    /\ ~started
    /\ rec = "idle"
    /\ rec' = "qos"
    /\ UNCHANGED <<chanVars, eventVars, streamVars, queueVars, workerVars, started,
                   closeVars>>

TakeEvent ==
    /\ rec = "range"
    /\ offers > 0
    /\ offers' = offers - 1
    /\ rec' = "check"
    /\ UNCHANGED <<chanVars, errChClosed, streamVars, queueVars, workerVars, started,
                   closeVars>>

EventsEnd ==
    /\ rec = "range"
    /\ errChClosed /\ offers = 0
    /\ rec' = "done"
    /\ UNCHANGED <<chanVars, eventVars, streamVars, queueVars, workerVars, started,
                   closeVars>>

\* The head of the retry loop.
CheckClosed ==
    /\ rec = "check"
    /\ rec' = IF isClosed THEN "range" ELSE "lock"
    /\ UNCHANGED <<chanVars, eventVars, streamVars, queueVars, workerVars, started,
                   closeVars>>

\* startGoroutines takes isClosedMu, whatever isClosed says by now.
LockIsClosedMu ==
    /\ rec = "lock"
    /\ rec' = "qos"
    /\ UNCHANGED <<chanVars, eventVars, streamVars, queueVars, workerVars, started,
                   closeVars>>

QosSafe ==
    /\ rec = "qos"
    /\ Live(generation)
    /\ qos' = qos \cup {generation}
    /\ rec' = "declare"
    /\ UNCHANGED <<mgrVars, eventVars, streamVars, queueVars, workerVars, started,
                   closeVars>>

\* declareExchange, declareQueue, declareBindings.
Declare ==
    /\ rec = "declare"
    /\ Live(generation)
    /\ rec' = "consume"
    /\ UNCHANGED <<chanVars, eventVars, streamVars, queueVars, workerVars, started,
                   closeVars>>

\* ConsumeSafe succeeds and the handler goroutines of the stream start.
Consume(s) ==
    /\ rec = "consume"
    /\ Live(generation)
    /\ streamChan[s] = None
    /\ \A t \in Streams : streamChan[t] = None => s <= t
    /\ streamChan' = [streamChan EXCEPT ![s] = generation]
    /\ limited' = IF generation \in qos THEN limited \cup {s} ELSE limited
    /\ wpc' = [w \in Workers |-> IF w[1] = s THEN "range" ELSE wpc[w]]
    /\ rec' = "range"
    /\ started' = TRUE
    /\ UNCHANGED <<chanVars, eventVars, cancelled, queueVars, msg, handled, requeued,
                   closeVars>>

\* A plausible slip: the recovery goroutine gives up after a failure.
RpcFailsGivingUp ==
    /\ rec \in {"qos", "declare", "consume"}
    /\ rec' = IF started THEN "range" ELSE "idle"
    /\ UNCHANGED <<chanVars, eventVars, streamVars, queueVars, workerVars, started,
                   closeVars>>

\* An RPC on an ended channel, or on a live one that the library is recovering
\* or that does not answer. Run returns the error; the recovery goroutine sleeps
\* and tries again.
RpcFails ==
    /\ rec \in {"qos", "declare", "consume"}
    /\ rec' = IF started THEN "sleep" ELSE "idle"
    /\ UNCHANGED <<chanVars, eventVars, streamVars, queueVars, workerVars, started,
                   closeVars>>

WakeUp ==
    /\ rec = "sleep"
    /\ rec' = "check"
    /\ UNCHANGED <<chanVars, eventVars, streamVars, queueVars, workerVars, started,
                   closeVars>>

----------------------------------------------------------------------------
(* handlerGoroutine and handlerWrapper *)

Take(w, m) ==
    /\ wpc[w] = "range"
    /\ m \in inbox[w[1]]
    /\ inbox' = [inbox EXCEPT ![w[1]] = @ \ {m}]
    /\ msg' = [msg EXCEPT ![w] = m]
    /\ wpc' = [wpc EXCEPT ![w] = "taken"]
    /\ UNCHANGED <<chanVars, eventVars, streamVars, owner, settled, handled, requeued,
                   startVars, closeVars>>

\* The library closed msgs behind the last delivery.
DeliveriesEnd(w) ==
    /\ wpc[w] = "range"
    /\ Over(w[1])
    /\ inbox[w[1]] = {}
    /\ wpc' = [wpc EXCEPT ![w] = "done"]
    /\ UNCHANGED <<chanVars, eventVars, streamVars, queueVars, msg, handled, requeued,
                   startVars, closeVars>>

\* A plausible slip: the loop goes on without asking.
CheckBeforeHandlingSkipped(w) ==
    /\ wpc[w] = "taken"
    /\ wpc' = [wpc EXCEPT ![w] = "checked"]
    /\ UNCHANGED <<chanVars, eventVars, streamVars, queueVars, msg, handled, requeued,
                   startVars, closeVars>>

\* getIsClosed before each message: a closed consumer drops out of the loop and
\* leaves the message to be redelivered.
CheckBeforeHandling(w) ==
    /\ wpc[w] = "taken"
    /\ IsClosedMuFree
    /\ wpc' = [wpc EXCEPT ![w] = IF isClosed THEN "done" ELSE "checked"]
    /\ msg' = IF isClosed THEN [msg EXCEPT ![w] = NoMessage] ELSE msg
    /\ UNCHANGED <<chanVars, eventVars, streamVars, queueVars, handled, requeued,
                   startVars, closeVars>>

\* TryRLock succeeds and the user's handler is called.
StartHandler(w) ==
    /\ wpc[w] = "checked"
    /\ Announced = {}
    /\ wpc' = [wpc EXCEPT ![w] = "running"]
    /\ handled' = handled \cup {msg[w]}
    /\ UNCHANGED <<chanVars, eventVars, streamVars, queueVars, msg, requeued, startVars,
                   closeVars>>

\* A plausible slip: the refused message is discarded.
RejectDiscarding(w) ==
    /\ wpc[w] = "checked"
    /\ Announced # {}
    /\ wpc' = [wpc EXCEPT ![w] = "remove"]
    /\ UNCHANGED <<chanVars, eventVars, streamVars, queueVars, msg, handled, requeued,
                   startVars, closeVars>>

\* TryRLock fails: the message goes back with a NackRequeue.
RejectWhileClosing(w) ==
    /\ wpc[w] = "checked"
    /\ Announced # {}
    /\ wpc' = [wpc EXCEPT ![w] = "requeue"]
    /\ UNCHANGED <<chanVars, eventVars, streamVars, queueVars, msg, handled, requeued,
                   startVars, closeVars>>

\* The handler returns Ack or NackDiscard, or panics, and the read lock is
\* released before the message is acknowledged.
HandlerRemoves(w) ==
    /\ wpc[w] = "running"
    /\ wpc' = [wpc EXCEPT ![w] = "remove"]
    /\ UNCHANGED <<chanVars, eventVars, streamVars, queueVars, msg, handled, requeued,
                   startVars, closeVars>>

\* The handler returns NackRequeue. Bound: once per message.
HandlerRequeues(w) ==
    /\ wpc[w] = "running"
    /\ msg[w] \notin requeued
    /\ requeued' = requeued \cup {msg[w]}
    /\ wpc' = [wpc EXCEPT ![w] = "requeue"]
    /\ UNCHANGED <<chanVars, eventVars, streamVars, queueVars, msg, handled, startVars,
                   closeVars>>

\* msg.Ack or msg.Nack. On a channel that ended it fails and is only logged.
Settle(w) ==
    /\ wpc[w] \in {"remove", "requeue"}
    /\ LET arrives == Live(streamChan[w[1]])
       IN /\ owner' = IF arrives THEN [owner EXCEPT ![msg[w]] = Ready] ELSE owner
          /\ settled' = IF arrives /\ wpc[w] = "remove" THEN settled \cup {msg[w]}
                                                        ELSE settled
    /\ wpc' = [wpc EXCEPT ![w] = "range"]
    /\ msg' = [msg EXCEPT ![w] = NoMessage]
    /\ UNCHANGED <<chanVars, eventVars, streamVars, inbox, handled, requeued, startVars,
                   closeVars>>

----------------------------------------------------------------------------
(* CloseWithContext, waitForHandlerCompletion and cleanupResources *)

\* markClosed.
CloseWithContext(c) ==
    /\ cpc[c] = "idle"
    /\ IsClosedMuFree
    /\ isClosed' = TRUE
    /\ cpc' = [cpc EXCEPT ![c] = "marked"]
    /\ UNCHANGED <<chanVars, eventVars, streamVars, queueVars, workerVars, startVars,
                   cleaned, waiter>>

\* waitForHandlerCompletion starts the goroutine that takes the write lock.
BeginWait(c) ==
    /\ cpc[c] = "marked"
    /\ CloseGracefully
    /\ cpc' = [cpc EXCEPT ![c] = "wait"]
    /\ waiter' = [waiter EXCEPT ![c] = "locking"]
    /\ UNCHANGED <<chanVars, eventVars, streamVars, queueVars, workerVars, startVars,
                   isClosed, cleaned>>

\* ForceShutdown, or a context that has already expired.
SkipWait(c) ==
    /\ cpc[c] = "marked"
    /\ ~CloseGracefully \/ c \in Impatient
    /\ cpc' = [cpc EXCEPT ![c] = "cleanup"]
    /\ UNCHANGED <<chanVars, eventVars, streamVars, queueVars, workerVars, startVars,
                   isClosed, cleaned, waiter>>

\* handlerMu.Lock(): one writer at a time is announced to the readers ...
AnnounceWriter(c) ==
    /\ waiter[c] = "locking"
    /\ Announced = {}
    /\ waiter' = [waiter EXCEPT ![c] = "pending"]
    /\ UNCHANGED <<chanVars, eventVars, streamVars, queueVars, workerVars, startVars,
                   isClosed, cleaned, cpc>>

\* ... holds the lock once they are gone, and closes the channel of the waiter.
HandlersDone(c) ==
    /\ waiter[c] = "pending"
    /\ Readers = {}
    /\ waiter' = [waiter EXCEPT ![c] = "signalled"]
    /\ UNCHANGED <<chanVars, eventVars, streamVars, queueVars, workerVars, startVars,
                   isClosed, cleaned, cpc>>

UnlockHandlers(c) ==
    /\ waiter[c] = "signalled"
    /\ waiter' = [waiter EXCEPT ![c] = "done"]
    /\ UNCHANGED <<chanVars, eventVars, streamVars, queueVars, workerVars, startVars,
                   isClosed, cleaned, cpc>>

\* A plausible slip: a signal that is given once, and lost if nobody listens.
EndWaitIfListening(c) ==
    /\ cpc[c] = "wait"
    /\ waiter[c] = "signalled"
    /\ cpc' = [cpc EXCEPT ![c] = "cleanup"]
    /\ UNCHANGED <<chanVars, eventVars, streamVars, queueVars, workerVars, startVars,
                   isClosed, cleaned, waiter>>

\* The select: the handlers are done ...
EndWait(c) ==
    /\ cpc[c] = "wait"
    /\ waiter[c] \in {"signalled", "done"}
    /\ cpc' = [cpc EXCEPT ![c] = "cleanup"]
    /\ UNCHANGED <<chanVars, eventVars, streamVars, queueVars, workerVars, startVars,
                   isClosed, cleaned, waiter>>

\* ... or the context expired. The goroutine that waits for the lock stays behind.
ContextExpires(c) ==
    /\ cpc[c] = "wait"
    /\ c \in Impatient
    /\ cpc' = [cpc EXCEPT ![c] = "cleanup"]
    /\ UNCHANGED <<chanVars, eventVars, streamVars, queueVars, workerVars, startVars,
                   isClosed, cleaned, waiter>>

\* cleanupResources: markClosed once more, then cleanupOnce.
Cleanup(c) ==
    /\ cpc[c] = "cleanup"
    /\ IsClosedMuFree
    /\ isClosed' = TRUE
    /\ cleaned' = TRUE
    /\ cpc' = [cpc EXCEPT ![c] = IF cleaned THEN "returned" ELSE "closeChannel"]
    /\ UNCHANGED <<chanVars, eventVars, streamVars, queueVars, workerVars, startVars,
                   waiter>>

\* A plausible slip: the channel is left open.
CloseChannelForgotten(c) ==
    /\ cpc[c] = "closeChannel"
    /\ ~mgrClosed
    /\ mgrClosed' = TRUE
    /\ cpc' = [cpc EXCEPT ![c] = "unsubscribe"]
    /\ UNCHANGED <<generation, chan, watcher, qos, eventVars, streamVars, queueVars,
                   workerVars, startVars, isClosed, cleaned, waiter>>

\* chanManager.Close(). The call returns and leaves the unsubscribing to a
\* goroutine ("unsubscribe").
CloseChannel(c) ==
    /\ cpc[c] = "closeChannel"
    /\ cpc' = [cpc EXCEPT ![c] = "unsubscribe"]
    /\ UNCHANGED <<qos, eventVars, streamVars, settled, inbox, workerVars, startVars,
                   isClosed, cleaned, waiter>>
    /\ S!Close
    /\ TakeBack(generation)

----------------------------------------------------------------------------

WorkerStep(w) ==
    \/ \E m \in Messages : Take(w, m)
    \/ DeliveriesEnd(w) \/ CheckBeforeHandling(w)
    \/ StartHandler(w) \/ RejectWhileClosing(w)
    \/ HandlerRemoves(w) \/ HandlerRequeues(w) \/ Settle(w)

RecoveryStep ==
    \/ TakeEvent \/ EventsEnd \/ CheckClosed \/ LockIsClosedMu
    \/ QosSafe \/ Declare \/ RpcFails \/ WakeUp
    \/ \E s \in Streams : Consume(s)

CloserStep(c) ==
    \/ BeginWait(c) \/ SkipWait(c) \/ EndWait(c) \/ Cleanup(c) \/ CloseChannel(c)

WaiterStep(c) == AnnounceWriter(c) \/ HandlersDone(c) \/ UnlockHandlers(c)

ManagerStep ==
    \/ Replace \/ WatcherLeaves \/ CloseErrCh \/ OfferExpires
    \/ \E g \in S!Generations : Retire(g) \/ Announce(g)

Next ==
    \/ RunCalled \/ RecoveryStep \/ ManagerStep
    \/ \E g \in S!Generations : ChannelEnds(g)
    \/ \E s \in Streams :
         \/ BrokerCancels(s) \/ DropBuffered(s)
         \/ \E m \in Messages : Deliver(s, m)
    \/ \E w \in Workers : WorkerStep(w)
    \/ \E c \in Closers : CloseWithContext(c) \/ CloserStep(c) \/ ContextExpires(c) \/ WaiterStep(c)

Spec == Init /\ [][Next]_vars

\* Every goroutine runs, and every handler returns. The broker delivers what a
\* stream has room for; the channel manager replaces a lost channel and offers
\* its events (ChannelManager.tla: RecoversOnLiveConnection). An RPC that is tried
\* again and again on live channels succeeds in the end. A manager takes finitely
\* many steps, so that fairness of ManagerStep is fairness of each. isClosedMu and
\* handlerMu are contended only finitely often here: weak fairness of the steps
\* that need them is enough. Nothing obliges anybody to call Run or
\* CloseWithContext, nor a context to expire.
Fairness ==
    /\ WF_vars(RecoveryStep) /\ SF_vars(QosSafe) /\ SF_vars(Declare)
    /\ SF_vars(\E s \in Streams : Consume(s))
    /\ WF_vars(ManagerStep)
    /\ \A m \in Messages : WF_vars(\E s \in Streams : Deliver(s, m))
    /\ \A w \in Workers : WF_vars(WorkerStep(w))
    /\ \A c \in Closers : WF_vars(CloserStep(c)) /\ WF_vars(WaiterStep(c))

FairSpec == Spec /\ Fairness

----------------------------------------------------------------------------

RecoveryStates == {"idle", "range", "check", "lock", "qos", "declare", "consume",
                   "sleep", "done"}
WorkerStates == {"unborn", "range", "taken", "checked", "running", "remove", "requeue",
                 "done"}
CloserStates == {"idle", "marked", "wait", "cleanup", "closeChannel", "unsubscribe",
                 "returned"}
WaiterStates == {"none", "locking", "pending", "signalled", "done"}

TypeOK ==
    /\ generation \in Chans
    /\ S!TypeOK
    /\ qos \subseteq Chans
    /\ offers \in Nat /\ errChClosed \in BOOLEAN
    /\ streamChan \in [Streams -> Chans \cup {None}]
    /\ limited \subseteq Streams /\ cancelled \subseteq Streams
    /\ owner \in [Messages -> Streams \cup {Ready}]
    /\ settled \subseteq Messages
    /\ inbox \in [Streams -> SUBSET Messages]
    /\ wpc \in [Workers -> WorkerStates]
    /\ msg \in [Workers -> Messages \cup {NoMessage}]
    /\ handled \subseteq Messages /\ requeued \subseteq Messages
    /\ rec \in RecoveryStates /\ started \in BOOLEAN
    /\ isClosed \in BOOLEAN /\ cleaned \in BOOLEAN
    /\ cpc \in [Closers -> CloserStates]
    /\ waiter \in [Closers -> WaiterStates]

\* A stream is of a channel there is, and only one that has started is cancelled.
StreamsOfChannels ==
    /\ \A s \in Streams : streamChan[s] <= generation
    /\ \A s \in cancelled : streamChan[s] # None

\* What is buffered for a stream is the stream's, as long as the channel lives.
BufferedIsOwned ==
    \A s \in Streams : \A m \in inbox[s] :
        streamChan[s] # None /\ (Live(streamChan[s]) => owner[m] = s)

\* What a handler goroutine holds is still its stream's, as long as the channel
\* lives: nobody else has it, and the Ack will name a message the broker knows.
Holding(w) == wpc[w] \in {"taken", "checked", "running", "remove", "requeue"}
HeldIsOwned ==
    /\ \A w \in Workers :
         /\ Holding(w) => msg[w] \in Messages /\ streamChan[w[1]] # None
         /\ Holding(w) /\ Live(streamChan[w[1]]) =>
              owner[msg[w]] = w[1] /\ msg[w] \notin inbox[w[1]]
    /\ \A v, w \in Workers :
         v # w /\ Holding(v) /\ Holding(w) /\ msg[v] = msg[w] =>
           ~Live(streamChan[v[1]]) \/ ~Live(streamChan[w[1]])

\* No message leaves the queue that no handler was called with, however Close,
\* the end of a channel and redeliveries interleave (consume.go:118-121).
SettledByHandler == settled \subseteq handled

\* A message is removed only by the goroutine whose handler was called with it.
RemovesHandled ==
    \A w \in Workers : wpc[w] \in {"running", "remove"} => msg[w] \in handled

\* The at-least-once promise of the consumer and what it rests on.
IInv == /\ TypeOK
        /\ StreamsOfChannels /\ BufferedIsOwned /\ HeldIsOwned
        /\ RemovesHandled /\ SettledByHandler

\* A handler goroutine that comes back for another message after the consumer was
\* marked closed never calls the handler again, on whatever channel and with
\* whatever is buffered (consume.go:315-325).
ClosedStopsWorkers ==
    \A w \in Workers :
        [](isClosed /\ wpc[w] = "range" => [](wpc[w] # "running"))

\* While the consumer is open every message of the queue reaches a handler, over
\* any ends and cancels of the channel and any lost reconnect event.
MessageReachesHandler == []<>(started => isClosed \/ Messages \subseteq handled)

\* Every CloseWithContext returns (consume.go:222-241).
CloseReturns == []<>(\A c \in Closers : cpc[c] \in {"idle", "unsubscribe", "returned"})

\* A closed consumer ends with its goroutines gone, the waiters of expired closes
\* included, and with no message withheld from the queue.
CloseLeavesNothing ==
    []<>(isClosed => /\ \A w \in Workers : wpc[w] \in {"unborn", "done"}
                     /\ rec \in {"idle", "qos", "done"}
                     /\ \A c \in Closers : waiter[c] \in {"none", "done"}
                     /\ \A m \in Messages : owner[m] = Ready)

\* What consume.go:207-215 says of a graceful close that was not cut short: when
\* it returns every message is processed, its Ack included. The code does not keep
\* it: between the check of isClosed and TryRLock the whole of Close may pass, and
\* the read lock is released before the message is acknowledged.
GracefulCloseWaits ==
    \A c \in Closers \ Impatient :
        cpc[c] \in {"unsubscribe", "returned"} =>
            \A w \in Workers : wpc[w] \notin {"running", "remove"}

============================================================================
