----------------------------- MODULE Dispatcher -----------------------------
(***************************************************************************)
(* The event broadcaster of internal/dispatcher/dispatcher.go: a map of    *)
(* subscribers, any number of goroutines broadcasting over snapshots of    *)
(* it, one cleanup goroutine per subscriber, and the goroutines that       *)
(* receive.                                                                *)
(*                                                                         *)
(* subscribersMu guards critical sections that never block, so each of     *)
(* them is one action.  The private mutex of a subscriber is held across a *)
(* send that may take five seconds, so it is a variable (mu).  All event   *)
(* channels are unbuffered: a send is a rendezvous.                        *)
(***************************************************************************)
EXTENDS Integers

CONSTANTS MaxSubs,      \* bound on subscriptions: their ids are 1..MaxSubs
          Dispatchers,  \* goroutines that may be inside Dispatch
          Free,         \* mu[s] = Free: the mutex is not held
          Cleaner       \* mu[s] = Cleaner: held by the cleanup goroutine of s

ASSUME MaxSubsAssumption == MaxSubs \in Nat
ASSUME HolderAssumption ==
    Free # Cleaner /\ Free \notin Dispatchers /\ Cleaner \notin Dispatchers

Subs == 1..MaxSubs

VARIABLES subscriberIDCounter, \* the last id handed out
          subscribers,         \* the ids in the map
          cleanup,             \* where AddSubscriber and its goroutine are, per id
          mu,                  \* the holder of each subscriber's private mutex
          removed,             \* the subscribers whose removed flag is set
          chanClosed,          \* the subscribers whose event channel is closed
          receiver,            \* what the goroutine that owns the channel does
          pc,                  \* where each dispatching goroutine is
          todo,                \* the part of its snapshot it has not visited
          cur                  \* the subscriber it is visiting

tableVars   == <<subscriberIDCounter, subscribers>>
cleanupVars == <<cleanup, removed, chanClosed>>
dispatchVars == <<pc, todo, cur>>
vars == <<tableVars, cleanupVars, mu, receiver, dispatchVars>>

CleanupStates  == {"unused", "allocated", "listening", "signalled",
                   "deleted", "locked", "marked", "exited"}
ReceiverStates == {"absent", "busy", "waiting", "ended"}
DispatchStates == {"idle", "next", "lock", "check", "send"}

Init == /\ subscriberIDCounter = 0
        /\ subscribers = {}
        /\ cleanup = [s \in Subs |-> "unused"]
        /\ mu = [s \in Subs |-> Free]
        /\ removed = {}
        /\ chanClosed = {}
        /\ receiver = [s \in Subs |-> "absent"]
        /\ pc = [d \in Dispatchers |-> "idle"]
        /\ todo = [d \in Dispatchers |-> {}]
        /\ cur \in [Dispatchers -> Subs]

----------------------------------------------------------------------------
(* AddSubscriber *)

\* The atomic increment: two concurrent calls never share an id.
AllocateId ==
    /\ subscriberIDCounter < MaxSubs
    /\ subscriberIDCounter' = subscriberIDCounter + 1
    /\ cleanup' = [cleanup EXCEPT ![subscriberIDCounter + 1] = "allocated"]
    /\ UNCHANGED <<subscribers, removed, chanClosed, mu, receiver, dispatchVars>>

\* The insertion under subscribersMu; the cleanup goroutine starts and the
\* caller returns with the two channels.
Insert(s) ==
    /\ cleanup[s] = "allocated"
    /\ subscribers' = subscribers \cup {s}
    /\ cleanup' = [cleanup EXCEPT ![s] = "listening"]
    /\ receiver' = [receiver EXCEPT ![s] = "busy"]
    /\ UNCHANGED <<subscriberIDCounter, removed, chanClosed, mu, dispatchVars>>

\* Whoever owns the subscription sends on closeCh, once; the cleanup goroutine
\* is always ready for it.
Unsubscribe(s) ==
    /\ cleanup[s] = "listening"
    /\ cleanup' = [cleanup EXCEPT ![s] = "signalled"]
    /\ UNCHANGED <<tableVars, removed, chanClosed, mu, receiver, dispatchVars>>

\* delete(d.subscribers, id) under subscribersMu, and the early return of a
\* goroutine that does not find its id.
Delete(s) ==
    /\ cleanup[s] = "signalled"
    /\ subscribers' = subscribers \ {s}
    /\ cleanup' = [cleanup EXCEPT
                     ![s] = IF s \in subscribers THEN "deleted" ELSE "exited"]
    /\ UNCHANGED <<subscriberIDCounter, removed, chanClosed, mu, receiver, dispatchVars>>

\* A plausible slip: closing without the subscriber's private mutex.
LockForCloseUnguarded(s) ==
    /\ cleanup[s] = "deleted"
    /\ mu' = [mu EXCEPT ![s] = Cleaner]
    /\ cleanup' = [cleanup EXCEPT ![s] = "locked"]
    /\ UNCHANGED <<tableVars, removed, chanClosed, receiver, dispatchVars>>

LockForClose(s) ==
    /\ cleanup[s] = "deleted"
    /\ mu[s] = Free
    /\ mu' = [mu EXCEPT ![s] = Cleaner]
    /\ cleanup' = [cleanup EXCEPT ![s] = "locked"]
    /\ UNCHANGED <<tableVars, removed, chanClosed, receiver, dispatchVars>>

MarkRemoved(s) ==
    /\ cleanup[s] = "locked"
    /\ removed' = removed \cup {s}
    /\ cleanup' = [cleanup EXCEPT ![s] = "marked"]
    /\ UNCHANGED <<tableVars, chanClosed, mu, receiver, dispatchVars>>

\* close(notifyCancelOrCloseChan) and the unlock; the goroutine ends.
CloseChannel(s) ==
    /\ cleanup[s] = "marked"
    /\ chanClosed' = chanClosed \cup {s}
    /\ mu' = [mu EXCEPT ![s] = Free]
    /\ cleanup' = [cleanup EXCEPT ![s] = "exited"]
    /\ UNCHANGED <<tableVars, removed, receiver, dispatchVars>>

----------------------------------------------------------------------------
(* Dispatch *)

\* The clone of the map under subscribersMu.
Snapshot(d) ==
    /\ pc[d] = "idle"
    /\ todo' = [todo EXCEPT ![d] = subscribers]
    /\ pc' = [pc EXCEPT ![d] = "next"]
    /\ UNCHANGED <<tableVars, cleanupVars, mu, receiver, cur>>

\* The head of the loop: a map iterates in any order.
Visit(d, s) ==
    /\ pc[d] = "next"
    /\ s \in todo[d]
    /\ todo' = [todo EXCEPT ![d] = @ \ {s}]
    /\ cur' = [cur EXCEPT ![d] = s]
    /\ pc' = [pc EXCEPT ![d] = "lock"]
    /\ UNCHANGED <<tableVars, cleanupVars, mu, receiver>>

Return(d) ==
    /\ pc[d] = "next"
    /\ todo[d] = {}
    /\ pc' = [pc EXCEPT ![d] = "idle"]
    /\ UNCHANGED <<tableVars, cleanupVars, mu, receiver, todo, cur>>

LockSubscriber(d) ==
    /\ pc[d] = "lock"
    /\ mu[cur[d]] = Free
    /\ mu' = [mu EXCEPT ![cur[d]] = d]
    /\ pc' = [pc EXCEPT ![d] = "check"]
    /\ UNCHANGED <<tableVars, cleanupVars, receiver, todo, cur>>

\* A plausible slip: `continue` without the unlock.
SkipRemovedKeepingLock(d) ==
    /\ pc[d] = "check"
    /\ cur[d] \in removed
    /\ pc' = [pc EXCEPT ![d] = "next"]
    /\ UNCHANGED <<tableVars, cleanupVars, mu, receiver, todo, cur>>

SkipRemoved(d) ==
    /\ pc[d] = "check"
    /\ cur[d] \in removed
    /\ mu' = [mu EXCEPT ![cur[d]] = Free]
    /\ pc' = [pc EXCEPT ![d] = "next"]
    /\ UNCHANGED <<tableVars, cleanupVars, receiver, todo, cur>>

\* A plausible slip: the removed flag is not consulted.
EnterSelectUnchecked(d) ==
    /\ pc[d] = "check"
    /\ pc' = [pc EXCEPT ![d] = "send"]
    /\ UNCHANGED <<tableVars, cleanupVars, mu, receiver, todo, cur>>

EnterSelect(d) ==
    /\ pc[d] = "check"
    /\ cur[d] \notin removed
    /\ pc' = [pc EXCEPT ![d] = "send"]
    /\ UNCHANGED <<tableVars, cleanupVars, mu, receiver, todo, cur>>

\* The send case of the select, then the unlock. It needs the receiver at its
\* receive; on a closed channel it would panic (NoSendOnClosed).
Send(d) ==
    /\ pc[d] = "send"
    /\ receiver[cur[d]] = "waiting"
    /\ receiver' = [receiver EXCEPT ![cur[d]] = "busy"]
    /\ mu' = [mu EXCEPT ![cur[d]] = Free]
    /\ pc' = [pc EXCEPT ![d] = "next"]
    /\ UNCHANGED <<tableVars, cleanupVars, todo, cur>>

\* A plausible slip: the select has no time.After case.
TimeoutNever(d) == pc[d] = "gone" /\ UNCHANGED vars

\* The five seconds pass. A receiver that is waiting takes the event at once, so
\* the timeout case is only ever taken while it is not.
Timeout(d) ==
    /\ pc[d] = "send"
    /\ receiver[cur[d]] # "waiting"
    /\ mu' = [mu EXCEPT ![cur[d]] = Free]
    /\ pc' = [pc EXCEPT ![d] = "next"]
    /\ UNCHANGED <<tableVars, cleanupVars, receiver, todo, cur>>

----------------------------------------------------------------------------
(* The goroutines that range over, or select on, the event channel *)

Await(s) ==
    /\ receiver[s] = "busy"
    /\ receiver' = [receiver EXCEPT ![s] = "waiting"]
    /\ UNCHANGED <<tableVars, cleanupVars, mu, dispatchVars>>

\* The closed channel ends the range loop.
ObserveClose(s) ==
    /\ receiver[s] = "waiting"
    /\ s \in chanClosed
    /\ receiver' = [receiver EXCEPT ![s] = "ended"]
    /\ UNCHANGED <<tableVars, cleanupVars, mu, dispatchVars>>

----------------------------------------------------------------------------

CleanupStep(s) == \/ Delete(s) \/ LockForClose(s) \/ MarkRemoved(s) \/ CloseChannel(s)

DispatchStep(d) ==
    \/ \E s \in Subs : Visit(d, s)
    \/ Return(d) \/ LockSubscriber(d) \/ SkipRemoved(d)
    \/ EnterSelect(d) \/ Send(d) \/ Timeout(d)

Next == \/ AllocateId
        \/ \E s \in Subs : Insert(s) \/ Unsubscribe(s) \/ CleanupStep(s)
        \/ \E d \in Dispatchers : Snapshot(d) \/ DispatchStep(d)
        \/ \E s \in Subs : Await(s) \/ ObserveClose(s)

Spec == Init /\ [][Next]_vars

\* The Go scheduler runs every runnable goroutine; a contended sync.Mutex goes
\* to each waiter in turn (its starvation mode), hence strong fairness of the two
\* lock steps. Nothing obliges callers to subscribe, unsubscribe or dispatch, and
\* nothing obliges a receiver to come back to its channel.
Fairness ==
    /\ \A d \in Dispatchers :
         /\ WF_vars(DispatchStep(d))
         /\ SF_vars(LockSubscriber(d))
    /\ \A s \in Subs :
         /\ WF_vars(CleanupStep(s))
         /\ SF_vars(LockForClose(s))

FairSpec == Spec /\ Fairness

----------------------------------------------------------------------------

TypeOK ==
    /\ subscriberIDCounter \in 0..MaxSubs
    /\ subscribers \subseteq Subs
    /\ cleanup \in [Subs -> CleanupStates]
    /\ mu \in [Subs -> Dispatchers \cup {Free, Cleaner}]
    /\ removed \subseteq Subs
    /\ chanClosed \subseteq Subs
    /\ receiver \in [Subs -> ReceiverStates]
    /\ pc \in [Dispatchers -> DispatchStates]
    /\ todo \in [Dispatchers -> SUBSET Subs]
    /\ cur \in [Dispatchers -> Subs]

\* An id that was not handed out yet has no cleanup goroutine.
FreshIds ==
    \A s \in Subs : cleanup[s] = "unused" <=> s > subscriberIDCounter

\* The private mutex is held exactly by the goroutine inside its critical
\* section: a dispatcher at cur[d], or the cleanup goroutine of s.
MutexOwnership ==
    /\ \A s \in Subs : mu[s] = Cleaner <=> cleanup[s] \in {"locked", "marked"}
    /\ \A d \in Dispatchers, s \in Subs :
         mu[s] = d <=> pc[d] \in {"check", "send"} /\ cur[d] = s

\* The removed flag is up before the channel closes, and a dispatcher that is
\* about to send has read it down.
RemovedFirst ==
    /\ chanClosed \subseteq removed
    /\ \A s \in Subs : cleanup[s] = "marked" => s \in removed
    /\ \A d \in Dispatchers : pc[d] = "send" => cur[d] \notin removed

\* The protocol between Dispatch and the cleanup goroutine, as the comment at
\* dispatcher.go:31-35 argues it; an inductive invariant.
IInv == TypeOK /\ FreshIds /\ MutexOwnership /\ RemovedFirst

\* No goroutine sits in the select of Dispatch, ready to send, on a channel that
\* the cleanup goroutine has closed: that send would panic (dispatcher.go:31-35),
\* although the snapshot may hold subscribers that left long ago.
NoSendOnClosed ==
    \A d \in Dispatchers : pc[d] = "send" => cur[d] \notin chanClosed

\* Every Dispatch returns, however its receivers behave and whoever subscribes,
\* leaves or broadcasts meanwhile: a stuck receiver costs it one timeout.
DispatchReturns ==
    \A d \in Dispatchers : pc[d] # "idle" ~> pc[d] = "idle"

\* A subscription that was cancelled ends with its event channel closed, which
\* is what ends the range loop of its owner, even while broadcasts to it and to
\* stuck subscribers are under way.
UnsubscribeCloses ==
    \A s \in Subs : cleanup[s] = "signalled" ~> s \in chanClosed

============================================================================
