--------------------------- MODULE ManagedChannel ---------------------------
(***************************************************************************)
(* What a channel manager (internal/manager/channel) is to the consumer or *)
(* publisher that owns it: a sequence of channels, numbered by the         *)
(* reconnect count plus one, of which the last is current.                 *)
(*                                                                         *)
(* ChannelRefinement.tla shows that the channel manager implements it;     *)
(* Consumer.tla and Publisher.tla are built on it.  A *Safe call is one    *)
(* step on the current generation, because it holds the read lock.         *)
(***************************************************************************)
EXTENDS Integers

CONSTANT MayGiveUp \* the loop may end though the manager was not closed: the
                   \* connection was closed, or seemed to be

VARIABLES generation,  \* ReconnectionCount() + 1
          chan,        \* the channel of each generation
          watcher,     \* its watcher, until the event that ends it was broadcast
          cancelled,   \* generations whose consumer was cancelled, and still open
          confirmMode, \* m.confirmMode
          confirmed,   \* the generations in confirm mode
          mgrClosed    \* Close has returned

vars == <<generation, chan, watcher, cancelled, confirmMode, confirmed, mgrClosed>>

Generations == 1..generation
Live(g) == chan[g] = "open"

\* The reasons there are to replace the current channel.
Lost == ~Live(generation) \/ generation \in cancelled

Init == /\ generation = 1
        /\ chan = [g \in 1..1 |-> "open"]
        /\ watcher = [g \in 1..1 |-> "watching"]
        /\ cancelled = {} /\ confirmed = {}
        /\ confirmMode = FALSE /\ mgrClosed = FALSE

\* Channels end, some or all at once.
End(G) ==
    /\ G # {}
    /\ G \subseteq {g \in Generations : Live(g)}
    /\ chan' = [g \in Generations |-> IF g \in G THEN "ended" ELSE chan[g]]
    /\ cancelled' = cancelled \ G
    /\ UNCHANGED <<generation, watcher, confirmMode, confirmed, mgrClosed>>

\* basic.cancel reaches the watcher of the current channel.
Cancel ==
    /\ Live(generation)
    /\ watcher[generation] = "watching"
    /\ cancelled' = cancelled \cup {generation}
    /\ UNCHANGED <<generation, chan, watcher, confirmMode, confirmed, mgrClosed>>

\* reconnect() swaps in a channel that is in confirm mode if the manager is. It
\* may have ended already.
Replace(state) ==
    /\ ~mgrClosed
    /\ Lost
    /\ watcher[generation] = "watching"
    /\ \A g \in Generations : watcher[g] # "retiring"
    /\ generation' = generation + 1
    /\ chan' = [g \in 1..generation + 1 |-> IF g \in Generations THEN chan[g] ELSE state]
    /\ watcher' = [g \in 1..generation + 1 |->
                     IF g = generation THEN "retiring"
                     ELSE IF g \in Generations THEN watcher[g] ELSE "watching"]
    /\ confirmed' = IF confirmMode THEN confirmed \cup {generation + 1} ELSE confirmed
    /\ UNCHANGED <<cancelled, confirmMode, mgrClosed>>

\* ... and then closes the old one.
Retire(g) ==
    /\ g \in Generations
    /\ watcher[g] = "retiring"
    /\ chan' = [chan EXCEPT ![g] = "ended"]
    /\ cancelled' = cancelled \ {g}
    /\ watcher' = [watcher EXCEPT ![g] = "announcing"]
    /\ UNCHANGED <<generation, confirmMode, confirmed, mgrClosed>>

\* The loop ends without a new channel. Its event is broadcast all the same.
GiveUp ==
    /\ mgrClosed \/ MayGiveUp
    /\ Lost
    /\ watcher[generation] = "watching"
    /\ watcher' = [watcher EXCEPT ![generation] = "announcing"]
    /\ UNCHANGED <<generation, chan, cancelled, confirmMode, confirmed, mgrClosed>>

\* The channel was closed without an error: there is no loop and no event.
Finish ==
    /\ mgrClosed \/ MayGiveUp
    /\ ~Live(generation)
    /\ watcher[generation] = "watching"
    /\ watcher' = [watcher EXCEPT ![generation] = "over"]
    /\ UNCHANGED <<generation, chan, cancelled, confirmMode, confirmed, mgrClosed>>

\* The reconnect event is broadcast.
Announce(g) ==
    /\ g \in Generations
    /\ watcher[g] = "announcing"
    /\ watcher' = [watcher EXCEPT ![g] = "over"]
    /\ UNCHANGED <<generation, chan, cancelled, confirmMode, confirmed, mgrClosed>>

\* ConfirmSafe turns the mode on.
Confirm ==
    /\ ~confirmMode
    /\ Live(generation)
    /\ confirmMode' = TRUE
    /\ confirmed' = confirmed \cup {generation}
    /\ UNCHANGED <<generation, chan, watcher, cancelled, mgrClosed>>

Close ==
    /\ ~mgrClosed
    /\ mgrClosed' = TRUE
    /\ chan' = [chan EXCEPT ![generation] = "ended"]
    /\ cancelled' = cancelled \ {generation}
    /\ UNCHANGED <<generation, watcher, confirmMode, confirmed>>

Next == \/ \E G \in SUBSET Generations : End(G)
        \/ Cancel \/ GiveUp \/ Finish \/ Confirm \/ Close
        \/ \E state \in {"open", "ended"} : Replace(state)
        \/ \E g \in Generations : Retire(g) \/ Announce(g)

Spec == Init /\ [][Next]_vars

----------------------------------------------------------------------------

TypeOK ==
    /\ generation \in Nat \ {0}
    /\ chan \in [Generations -> {"open", "ended"}]
    /\ watcher \in [Generations -> {"watching", "retiring", "announcing", "over"}]
    /\ cancelled \subseteq Generations /\ confirmed \subseteq Generations
    /\ confirmMode \in BOOLEAN /\ mgrClosed \in BOOLEAN

\* Whoever publishes on the current channel publishes in confirm mode once the
\* mode was turned on, over any number of replacements (channel.go:266-272).
NoConfirmGap == confirmMode => generation \in confirmed

\* Besides the current channel only the one it has just replaced is open, until
\* its watcher has closed it; a closed manager has none (channel.go:315-320).
OneOpenChannel ==
    \A g \in Generations : Live(g) =>
        \/ g = generation /\ ~mgrClosed
        \/ watcher[g] = "retiring" /\ g = generation - 1

Inv == TypeOK /\ NoConfirmGap /\ OneOpenChannel

============================================================================
