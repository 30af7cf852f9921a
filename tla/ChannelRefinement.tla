------------------------- MODULE ChannelRefinement -------------------------
(* The channel manager implements what its users are promised: the mapping *)
(* from its objects, pointers and program counters to ManagedChannel.      *)
EXTENDS ChannelManager

Generation == reconnectionCount + 1
Generations == 1..Generation

\* Watcher g listens to the channel of generation g; before it does, that channel
\* is the current one.
ChannelOf(g) == IF g = Generation THEN channel ELSE watched[g]

State(g) == IF obj[ChannelOf(g)] = "open" THEN "open" ELSE "ended"

\* What a program counter means to the users of the manager.
Stage(p) ==
    IF p = "closeOld" THEN "retiring"
    ELSE IF p \in {"spawn", "unsubscribe", "dispatch"} THEN "announcing"
    ELSE IF p = "done" THEN "over" ELSE "watching"

StateMap     == [g \in Generations |-> State(g)]
WatcherMap   == [g \in Generations |-> Stage(pc[g])]
ConfirmedMap == {g \in Generations : ChannelOf(g) \in confirmed}

\* A watcher that has read the cancellation leaves a drain behind.
CancelledMap == {g \in Generations : State(g) = "open" /\ g \in cancelled \cup draining}

ClosedMap == closed /\ ~closing

Managed == INSTANCE ManagedChannel WITH
    MayGiveUp <- TRUE, generation <- Generation, chan <- StateMap,
    watcher <- WatcherMap, cancelled <- CancelledMap, confirmed <- ConfirmedMap,
    mgrClosed <- ClosedMap

\* To consumers and publishers the channel manager is a sequence of channels, each
\* installed only when its predecessor was lost, before a closing manager could
\* have closed it, in the confirm mode of its predecessor, and announced only once
\* the predecessor is closed (channel.go:117-143, 262-347).
ImplementsManagedChannel == Managed!Spec

\* The invariant of ManagedChannel, of the channels the manager really has.
ManagedInv == Managed!Inv

\* Channels become current in the order in which they are opened.
OpenedInOrder ==
    /\ \A c, d \in Chans : obj[d] # "unopened" /\ c < d => obj[c] # "unopened"
    /\ Generation <= channel
    /\ \A w \in Watchers :
         pc[w] \in {"install", "confirm", "reject", "discard"} => held[w] > channel
    /\ \A c \in confirmed : c <= channel

\* So what the watchers listened to before, and still drain, are other channels.
WatchedInOrder ==
    /\ \A w \in Watchers :
         /\ w < Generation => watched[w] # None /\ watched[w] < channel
         /\ w = Generation => watched[w] \in {None, channel}
         /\ w > Generation => watched[w] = None
         /\ w \in cancelled \cup draining => watched[w] # None
         /\ pc[w] = "closeOld" => held[w] = watched[w]
    /\ \A v, w \in Watchers : v < w /\ w < Generation => watched[v] < watched[w]

\* A loop runs for a reason that lasts as long as the loop.
LoopHasReason ==
    \A w \in Watchers : InLoop(w) => obj[channel] # "open" \/ w \in draining

\* The RPC turns the mode on, or turns it on again for a new channel.
ConfirmsForAReason ==
    /\ confirming => ~confirmMode
    /\ \A w \in Watchers : pc[w] = "confirm" => confirmMode

\* What keeps the mapping in place.
MappingInv ==
    /\ OpenedInOrder
    /\ WatchedInOrder
    /\ LoopHasReason
    /\ ConfirmsForAReason

============================================================================
