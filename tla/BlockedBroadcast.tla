-------------------------- MODULE BlockedBroadcast --------------------------
(***************************************************************************)
(* Backpressure of the connection: the broker tells a connection that it   *)
(* is blocked or unblocked, one goroutine per connection hands the news to *)
(* every publisher (internal/manager/connection/safe_wraps.go), and a      *)
(* reader per publisher turns it into the flag that makes Publish refuse   *)
(* (publish_flow_block.go).                                                *)
(*                                                                         *)
(* The connections of a manager are numbered in the order reconnect()      *)
(* installs them, the notifications in the order the broker issues them.   *)
(* connectionMu and the mutex of the list guard critical sections that     *)
(* never wait, so each is one action; the private mutex of a receiver is a *)
(* variable (mu), because the three selects of a send under it interleave  *)
(* with the reader.  The list keeps no order here: a broadcast goes        *)
(* through its clone in any order.                                         *)
(***************************************************************************)
EXTENDS Integers

CONSTANTS Publishers,
          MaxConns,     \* bound on the connections the manager installs
          MaxNotes,     \* bound on the notifications the broker issues

          NoOne         \* target[c] = NoOne: no receiver is being sent to

ASSUME BoundsAssumption == MaxConns \in Nat \ {0} /\ MaxNotes \in Nat
ASSUME NoOneAssumption == NoOne \notin Publishers

Conns == 1..MaxConns
Unlocked == 0                 \* mu[p]: nobody, or the goroutine of a connection

\* amqp.Blocking; NoNote stands for none, and for the cleared flag.
Notes == [n : 0..MaxNotes, active : BOOLEAN]
NoNote == [n |-> 0, active |-> FALSE]

VARIABLES conn,      \* the connection the manager holds
          open,      \* whether it is still up
          blocked,   \* whether the broker blocks it
          issued,    \* the number of notifications so far
          pending,   \* the notification the library is handing over
          list,      \* publisherNotifyBlockingReceivers
          caster,    \* where readUniversalBlockReceiver of each connection is
          got,       \* its loop variable b
          receivers, \* its clone of the list
          todo,      \* the part of the clone it has not gone through
          target,    \* the publisher whose receiver it is sending to
          phase,     \* how far each publisher is in its life
          box,       \* the receiver's buffer of one
          mu,        \* the receiver's private mutex
          removed,   \* receivers marked removed, and closed in the same section
          reader,    \* readBlockedNotifications
          hand,      \* the notification it has received and not yet applied
          heard      \* the one disablePublishDueToBlocked was last set from

connVars   == <<conn, open>>
brokerVars == <<blocked, issued, pending>>
casterVars == <<caster, got, receivers, todo, target>>
boxVars    == <<box, mu, removed>>
readerVars == <<reader, hand, heard>>
vars == <<connVars, brokerVars, list, casterVars, phase, boxVars, readerVars>>

CasterStates == {"none", "wait", "clone", "visit", "put", "drop", "again", "ended"}
PhaseStates  == {"new", "listed", "ready", "delisted", "closed"}
ReaderStates == {"none", "wait", "apply", "ended"}

\* disablePublishDueToBlocked
Paused(p) == heard[p].active

\* universalNotifyBlockingReceiverUsed: a goroutine was started for some connection
Used == \E c \in Conns : caster[c] # "none"

Sending(c) == caster[c] \in {"put", "drop", "again"}

Init == /\ conn = 1
        /\ open = TRUE
        /\ blocked = FALSE
        /\ issued = 0
        /\ pending = NoNote
        /\ list = {}
        /\ caster = [c \in Conns |-> "none"]
        /\ got = [c \in Conns |-> NoNote]
        /\ receivers = [c \in Conns |-> {}]
        /\ todo = [c \in Conns |-> {}]
        /\ target = [c \in Conns |-> NoOne]
        /\ phase = [p \in Publishers |-> "new"]
        /\ box = [p \in Publishers |-> NoNote]
        /\ mu = [p \in Publishers |-> Unlocked]
        /\ removed = [p \in Publishers |-> FALSE]
        /\ reader = [p \in Publishers |-> "none"]
        /\ hand = [p \in Publishers |-> NoNote]
        /\ heard = [p \in Publishers |-> NoNote]

----------------------------------------------------------------------------
(* The broker, the library and the connection manager *)

\* The broker blocks or unblocks the connection.  The library hands the news to the
\* registered channel and reads nothing else from the broker until it is taken.
Notify ==
    /\ open /\ pending = NoNote /\ issued < MaxNotes
    /\ blocked' = ~blocked
    /\ issued' = issued + 1
    /\ pending' = IF caster[conn] = "none" THEN NoNote
                  ELSE [n |-> issued', active |-> blocked']
    /\ UNCHANGED <<connVars, list, casterVars, phase, boxVars, readerVars>>

\* The connection ends for good; the library closes the registered channel.
ConnectionEnds ==
    /\ open /\ pending = NoNote
    /\ open' = FALSE
    /\ UNCHANGED <<conn, brokerVars, list, casterVars, phase, boxVars, readerVars>>

\* reconnect() installs the next connection, which the broker does not block.  If some
\* publisher has asked for notifications before, it also registers a new channel on it
\* and starts its goroutine.
Reconnect ==
    /\ ~open /\ conn < MaxConns
    /\ conn' = conn + 1
    /\ open' = TRUE
    /\ blocked' = FALSE
    /\ caster' = [caster EXCEPT ![conn + 1] = IF Used THEN "wait" ELSE "none"]
    /\ UNCHANGED <<issued, pending, list, got, receivers, todo, target, phase, boxVars,
                   readerVars>>

----------------------------------------------------------------------------
(* A publisher registers (NotifyBlockedSafe, registerBlockedReceiver) *)

\* NotifyBlockedSafe, under connectionMu: list the receiver; the first caller ever
\* also registers the universal channel and starts the goroutine.
NotifyBlockedSafe(p) ==
    /\ phase[p] = "new"
    /\ phase' = [phase EXCEPT ![p] = "listed"]
    /\ list' = list \cup {p}
    /\ caster' = IF Used THEN caster ELSE [caster EXCEPT ![conn] = "wait"]
    /\ UNCHANGED <<connVars, brokerVars, got, receivers, todo, target, boxVars, readerVars>>

\* registerBlockedReceiver stores the channel and clears the flag, then the reader
\* is started.
StartReader(p) ==
    /\ phase[p] = "listed"
    /\ phase' = [phase EXCEPT ![p] = "ready"]
    /\ heard' = [heard EXCEPT ![p] = NoNote]
    /\ reader' = [reader EXCEPT ![p] = "wait"]
    /\ UNCHANGED <<connVars, brokerVars, list, casterVars, boxVars, hand>>

----------------------------------------------------------------------------
(* readUniversalBlockReceiver of connection c *)

Receive(c) ==
    /\ caster[c] = "wait" /\ c = conn /\ pending # NoNote
    /\ got' = [got EXCEPT ![c] = pending]
    /\ pending' = NoNote
    /\ caster' = [caster EXCEPT ![c] = "clone"]
    /\ UNCHANGED <<connVars, blocked, issued, list, receivers, todo, target, phase, boxVars,
                   readerVars>>

\* Where a broadcast is when the receivers in rest remain to be visited.
Visiting(rest) == IF rest = {} THEN "wait" ELSE "visit"

\* slices.Clone under the read lock of the list.
Clone(c) ==
    /\ caster[c] = "clone"
    /\ receivers' = [receivers EXCEPT ![c] = list]
    /\ todo' = [todo EXCEPT ![c] = list]
    /\ caster' = [caster EXCEPT ![c] = Visiting(list)]
    /\ UNCHANGED <<connVars, brokerVars, list, got, target, phase, boxVars, readerVars>>

\* br.mu.Lock, removed: unlock and go on.
SkipRemoved(c, p) ==
    /\ caster[c] = "visit" /\ p \in todo[c] /\ mu[p] = Unlocked
    /\ removed[p]
    /\ todo' = [todo EXCEPT ![c] = @ \ {p}]
    /\ caster' = [caster EXCEPT ![c] = Visiting(todo[c] \ {p})]
    /\ UNCHANGED <<connVars, brokerVars, list, got, receivers, target, phase, boxVars,
                   readerVars>>

\* A plausible slip: the removed mark is not looked at.
LockUnchecked(c, p) ==
    /\ caster[c] = "visit" /\ p \in todo[c] /\ mu[p] = Unlocked
    /\ mu' = [mu EXCEPT ![p] = c]
    /\ todo' = [todo EXCEPT ![c] = @ \ {p}]
    /\ target' = [target EXCEPT ![c] = p]
    /\ caster' = [caster EXCEPT ![c] = "put"]
    /\ UNCHANGED <<connVars, brokerVars, list, got, receivers, phase, box, removed, readerVars>>

\* br.mu.Lock, not removed: sendLatestNonBlocking.
LockReceiver(c, p) ==
    /\ caster[c] = "visit" /\ p \in todo[c] /\ mu[p] = Unlocked
    /\ ~removed[p]
    /\ mu' = [mu EXCEPT ![p] = c]
    /\ todo' = [todo EXCEPT ![c] = @ \ {p}]
    /\ target' = [target EXCEPT ![c] = p]
    /\ caster' = [caster EXCEPT ![c] = "put"]
    /\ UNCHANGED <<connVars, brokerVars, list, got, receivers, phase, box, removed, readerVars>>

\* A plausible slip: the mutex stays locked.
KeepLocked(c) ==
    /\ target' = [target EXCEPT ![c] = NoOne]
    /\ caster' = [caster EXCEPT ![c] = Visiting(todo[c])]
    /\ UNCHANGED mu

\* sendLatestNonBlocking returns; br.mu.Unlock.
UnlockReceiver(c) ==
    /\ mu' = [mu EXCEPT ![target[c]] = Unlocked]
    /\ target' = [target EXCEPT ![c] = NoOne]
    /\ caster' = [caster EXCEPT ![c] = Visiting(todo[c])]

\* The first select.
Put(c) ==
    /\ caster[c] = "put"
    /\ \/ /\ box[target[c]] = NoNote
          /\ box' = [box EXCEPT ![target[c]] = got[c]]
          /\ UnlockReceiver(c)
       \/ /\ box[target[c]] # NoNote
          /\ caster' = [caster EXCEPT ![c] = "drop"]
          /\ UNCHANGED <<box, mu, target>>
    /\ UNCHANGED <<connVars, brokerVars, list, got, receivers, todo, phase, removed, readerVars>>

\* A plausible slip: the old notification stays and the new one is given up.
DropNothing(c) ==
    /\ caster[c] = "drop"
    /\ caster' = [caster EXCEPT ![c] = "again"]
    /\ UNCHANGED <<connVars, brokerVars, list, got, receivers, todo, target, phase, boxVars,
                   readerVars>>

\* The second select: take the old notification out, unless the reader just did.
DropOld(c) ==
    /\ caster[c] = "drop"
    /\ box' = [box EXCEPT ![target[c]] = NoNote]
    /\ caster' = [caster EXCEPT ![c] = "again"]
    /\ UNCHANGED <<connVars, brokerVars, list, got, receivers, todo, target, phase, mu, removed,
                   readerVars>>

\* The third select: put, or give this delivery up if the buffer is full again.
PutAgain(c) ==
    /\ caster[c] = "again"
    /\ box' = [box EXCEPT ![target[c]] = IF @ = NoNote THEN got[c] ELSE @]
    /\ UnlockReceiver(c)
    /\ UNCHANGED <<connVars, brokerVars, list, got, receivers, todo, phase, removed, readerVars>>

Dead(c) == c < conn \/ (c = conn /\ ~open)

\* The range over the universal channel ends with its connection.
CasterEnds(c) ==
    /\ caster[c] = "wait" /\ Dead(c)
    /\ caster' = [caster EXCEPT ![c] = "ended"]
    /\ UNCHANGED <<connVars, brokerVars, list, got, receivers, todo, target, phase, boxVars,
                   readerVars>>

CasterStep(c) ==
    \/ Receive(c) \/ Clone(c) \/ Put(c) \/ DropOld(c) \/ PutAgain(c)
    \/ \E p \in Publishers : SkipRemoved(c, p) \/ LockReceiver(c, p)
    \/ CasterEnds(c)

----------------------------------------------------------------------------
(* readBlockedNotifications of publisher p *)

Take(p) ==
    /\ reader[p] = "wait" /\ box[p] # NoNote
    /\ hand' = [hand EXCEPT ![p] = box[p]]
    /\ box' = [box EXCEPT ![p] = NoNote]
    /\ reader' = [reader EXCEPT ![p] = "apply"]
    /\ UNCHANGED <<connVars, brokerVars, list, casterVars, phase, mu, removed, heard>>

\* disablePublishDueToBlocked = b.Active, under its mutex.
Apply(p) ==
    /\ reader[p] = "apply"
    /\ heard' = [heard EXCEPT ![p] = hand[p]]
    /\ hand' = [hand EXCEPT ![p] = NoNote]
    /\ reader' = [reader EXCEPT ![p] = "wait"]
    /\ UNCHANGED <<connVars, brokerVars, list, casterVars, phase, boxVars>>

\* The range over the receiver ends: it is closed and drained.
ReaderEnds(p) ==
    /\ reader[p] = "wait" /\ removed[p] /\ box[p] = NoNote
    /\ reader' = [reader EXCEPT ![p] = "ended"]
    /\ UNCHANGED <<connVars, brokerVars, list, casterVars, phase, boxVars, hand, heard>>

ReaderStep(p) == Take(p) \/ Apply(p) \/ ReaderEnds(p)

----------------------------------------------------------------------------
(* Publisher.Close: RemovePublisherBlockingReceiver *)

\* Rebuild the list without the receiver, under its mutex.
Delist(p) ==
    /\ phase[p] = "ready"
    /\ phase' = [phase EXCEPT ![p] = "delisted"]
    /\ list' = list \ {p}
    /\ UNCHANGED <<connVars, brokerVars, casterVars, boxVars, readerVars>>

\* A plausible slip: it does not wait for the private mutex.
CloseUnlocked(p) ==
    /\ phase[p] = "delisted"
    /\ phase' = [phase EXCEPT ![p] = "closed"]
    /\ removed' = [removed EXCEPT ![p] = TRUE]
    /\ UNCHANGED <<connVars, brokerVars, list, casterVars, box, mu, readerVars>>

\* Mark and close the receiver under its private mutex.  The receiver was in the list:
\* Close runs once, and only after StartReader.
CloseReceiver(p) ==
    /\ phase[p] = "delisted" /\ mu[p] = Unlocked
    /\ phase' = [phase EXCEPT ![p] = "closed"]
    /\ removed' = [removed EXCEPT ![p] = TRUE]
    /\ UNCHANGED <<connVars, brokerVars, list, casterVars, box, mu, readerVars>>

----------------------------------------------------------------------------

PublisherStep(p) ==
    NotifyBlockedSafe(p) \/ StartReader(p) \/ ReaderStep(p) \/ Delist(p) \/ CloseReceiver(p)

Next == \/ Notify \/ ConnectionEnds \/ Reconnect
        \/ \E c \in Conns : CasterStep(c)
        \/ \E p \in Publishers : PublisherStep(p)

Spec == Init /\ [][Next]_vars

(***************************************************************************)
(* The goroutines the package starts run, and a Close that has begun goes  *)
(* on.  Nothing makes the broker speak, the connection end or come back,   *)
(* or a program create or close a publisher.                               *)
(***************************************************************************)
FairSpec ==
    /\ Spec
    /\ \A c \in Conns : WF_vars(CasterStep(c))
    /\ \A p \in Publishers :
         WF_vars(StartReader(p)) /\ WF_vars(ReaderStep(p)) /\ WF_vars(CloseReceiver(p))

----------------------------------------------------------------------------
(* Safety *)

TypeOK == /\ conn \in Conns /\ open \in BOOLEAN
          /\ blocked \in BOOLEAN /\ issued \in 0..MaxNotes /\ pending \in Notes
          /\ list \subseteq Publishers
          /\ caster \in [Conns -> CasterStates]
          /\ got \in [Conns -> Notes]
          /\ receivers \in [Conns -> SUBSET Publishers]
          /\ todo \in [Conns -> SUBSET Publishers]
          /\ target \in [Conns -> Publishers \cup {NoOne}]
          /\ phase \in [Publishers -> PhaseStates]
          /\ box \in [Publishers -> Notes]
          /\ mu \in [Publishers -> Conns \cup {Unlocked}]
          /\ removed \in [Publishers -> BOOLEAN]
          /\ reader \in [Publishers -> ReaderStates]
          /\ hand \in [Publishers -> Notes] /\ heard \in [Publishers -> Notes]

\* A goroutine is sending to a receiver exactly while it holds the receiver's mutex.
MutexOwnership ==
    \A c \in Conns :
      /\ Sending(c) <=> target[c] # NoOne
      /\ \A p \in Publishers : target[c] = p <=> mu[p] = c

\* No broadcast is about to send into a receiver that Close has closed (a send on a
\* closed channel panics), although it works on a clone of the list taken before Close.
NoSendOnClosed ==
    \A c \in Conns : Sending(c) => target[c] \in Publishers /\ ~removed[target[c]]

\* A connection has no goroutine before it is installed.
NotInstalledYet == \A c \in Conns : c > conn => caster[c] = "none"

\* The protocol of the private mutexes, inductive.
Protocol == TypeOK /\ NotInstalledYet /\ MutexOwnership /\ NoSendOnClosed

\* Nothing that concerns publisher p is on its way.
Settled(p) ==
    /\ pending = NoNote
    /\ \A c \in Conns : caster[c] \in {"none", "wait", "ended"}
    /\ box[p] = NoNote /\ hand[p] = NoNote

\* The connections whose latest broadcast went to p.
Told(p) == {c \in Conns : p \in receivers[c]}

\* However slow its reader, when a publisher has caught up the flag is set from the
\* latest notification of a connection that broadcast to it: a notification may replace
\* an older one in the buffer, but the newest is never the one that is lost.
LatestRead ==
    \A p \in Publishers :
      phase[p] = "ready" /\ Settled(p) /\ Told(p) # {} => heard[p] \in {got[c] : c \in Told(p)}

\* A publisher is in the list from its registration until Close, has no reader before
\* and is told nothing before; its receiver is closed by Close alone.
Listed(p) == phase[p] \in {"listed", "ready"}
PublisherLife ==
    \A p \in Publishers :
      /\ p \in list <=> Listed(p)
      /\ removed[p] => phase[p] = "closed"
      /\ phase[p] \in {"new", "listed"} =>
           reader[p] = "none" /\ hand[p] = NoNote /\ heard[p] = NoNote
      /\ phase[p] = "new" => Told(p) = {}
      /\ reader[p] = "apply" => hand[p] # NoNote

\* A broadcast works on one notification and on its clone of the list; what it has
\* dropped from a buffer leaves room for what it puts there.
BroadcastOfOne ==
    \A c \in Conns :
      /\ caster[c] \notin {"none", "wait", "ended"} => got[c] # NoNote
      /\ todo[c] \subseteq receivers[c]
      /\ caster[c] \in {"none", "wait", "clone", "ended"} => todo[c] = {}
      /\ Sending(c) => target[c] \in receivers[c]
      /\ caster[c] = "again" => box[target[c]] = NoNote

\* The broadcast of connection c has still to deal with p, or to find out.
Owes(c, p) == caster[c] = "clone" \/ p \in todo[c] \/ target[c] = p

\* The last notification that p has got, as far as it has come.
Latest(p) == IF box[p] # NoNote THEN box[p] ELSE IF hand[p] # NoNote THEN hand[p] ELSE heard[p]

\* It is the latest of a connection, unless some broadcast is not done with p.
NewestUnderway ==
    \A p \in Publishers :
      Listed(p) => \/ \E c \in Conns : Owes(c, p)
                   \/ Told(p) = {}
                   \/ Latest(p) \in {got[c] : c \in Told(p)}

\* What LatestRead rests on, inductive.
IInv == Protocol /\ PublisherLife /\ BroadcastOfOne /\ NewestUnderway

----------------------------------------------------------------------------
(* Liveness *)

\* Close lets the goroutine that reads the notifications of the publisher go.
CloseEndsReader == \A p \in Publishers : phase[p] = "delisted" ~> reader[p] = "ended"

\* No goroutine outlives its connection: the broadcast of a dead one comes to its end,
\* whatever the receivers and the publishers that close do meanwhile.
DeadConnectionReleased ==
    \A c \in Conns : Dead(c) ~> caster[c] \in {"none", "ended"}

----------------------------------------------------------------------------
(* What the documentation says of the flag *)

\* A publisher that has caught up refuses to publish only while the broker blocks the
\* connection it publishes on: no flip of the state is missed for good (README.md:77).
PauseEnds ==
    \A p \in Publishers :
      phase[p] = "ready" /\ Settled(p) /\ open /\ Paused(p) => blocked
=============================================================================
