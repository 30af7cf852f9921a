------------------------- MODULE ConnectionManager -------------------------
(***************************************************************************)
(* internal/manager/connection: one connection, the goroutine that watches *)
(* it, and the fallback loop that dials a replacement once the AMQP        *)
(* library has given up on it.                                             *)
(*                                                                         *)
(* A connection object of the library is a number; 1 is the one New dials. *)
(* Watcher goroutines are numbered in the order they start: watcher w + 1  *)
(* is the `go startNotifyClose()` at the end of the loop of watcher w,     *)
(* which goes on to broadcast the event while its successor already runs.  *)
(*                                                                         *)
(* connectionMu is a variable only where it is held across something slow: *)
(* a reader inside WithConnection (borrowed) and Close while it closes the *)
(* connection (closing).  The other critical sections are one action each. *)
(***************************************************************************)
EXTENDS Backoff

CONSTANTS MaxConns,      \* bound on the connection objects ever dialled
          Borrowers,     \* goroutines that call WithConnection
          Interval,      \* ReconnectInterval
          MaxFailures,   \* bound: the broker answers a dial after that many
          LateTerminal   \* what NotifyStateChange does on an object that has
                         \* already ended: a subset of {"told", "dropped"}

ASSUME MaxConnsAssumption == MaxConns \in Nat \ {0}
ASSUME IntervalAssumption == Interval \in Durations
ASSUME MaxFailuresAssumption == MaxFailures \in Nat
ASSUME LateAssumption == LateTerminal \subseteq {"told", "dropped"}

Conns    == 1..MaxConns
Watchers == 1..MaxConns
None     == 0

VARIABLES connection,        \* m.connection
          closed,            \* m.closed
          closeSignal,       \* m.closeSignal has been closed
          reconnectionCount, \* m.reconnectionCount
          universalNotifyBlockingReceiverUsed,
          closing,           \* Close holds the write lock and is closing
          borrowed,          \* the connection lent to a borrower, or None
          obj,               \* the library's connection objects
          listening,         \* the objects that feed a blocked-broadcaster
          pc,                \* where each watcher goroutine is
          watched,           \* the object a watcher listens to
          held,              \* the new, later the old, connection in reconnect()
          attempt,           \* the attempt counter of the loop of a watcher
          delay              \* the delay that loop waits for

managerVars == <<connection, closed, closeSignal, closing>>
blockVars   == <<universalNotifyBlockingReceiverUsed, listening>>
loopVars    == <<watched, held, attempt, delay>>
vars == <<managerVars, reconnectionCount, blockVars, borrowed, obj, pc, loopVars>>

ObjectStates == {"undialed", "open", "reconnecting", "dead", "closed"}
WatcherStates == {"unborn", "register", "watch", "wait", "dial", "install",
                  "discard", "closeOld", "count", "dispatch", "done"}

Live(c) == obj[c] \in {"open", "reconnecting"}

\* amqp's Connection.Close: an object that already ended stays as it is.
ClosedObj(c) == IF Live(c) THEN [obj EXCEPT ![c] = "closed"] ELSE obj

WriteLockFree == ~closing /\ \A b \in Borrowers : borrowed[b] = None

\* IsClosed(): it does not tell a closed manager from a manager whose current
\* object has ended and is being replaced.
IsClosed == closed \/ obj[connection] \in {"dead", "closed"}

\* New dials the first connection and starts the first watcher.
Init == /\ connection = 1
        /\ closed = FALSE
        /\ closeSignal = FALSE
        /\ reconnectionCount = 0
        /\ universalNotifyBlockingReceiverUsed = FALSE
        /\ closing = FALSE
        /\ borrowed = [b \in Borrowers |-> None]
        /\ obj = [c \in Conns |-> IF c = 1 THEN "open" ELSE "undialed"]
        /\ listening = {}
        /\ pc = [w \in Watchers |-> IF w = 1 THEN "register" ELSE "unborn"]
        /\ watched = [w \in Watchers |-> None]
        /\ held = [w \in Watchers |-> None]
        /\ attempt = [w \in Watchers |-> 0]
        /\ delay = [w \in Watchers |-> 0]

----------------------------------------------------------------------------
(* The library: native recovery in place, and its end *)

Lose(c) ==
    /\ obj[c] = "open"
    /\ obj' = [obj EXCEPT ![c] = "reconnecting"]
    /\ UNCHANGED <<managerVars, reconnectionCount, blockVars, borrowed, pc, loopVars>>

Restore(c) ==
    /\ obj[c] = "reconnecting"
    /\ obj' = [obj EXCEPT ![c] = "open"]
    /\ UNCHANGED <<managerVars, reconnectionCount, blockVars, borrowed, pc, loopVars>>

\* Native recovery is exhausted, or the error is not recoverable: StateClosed
\* with an error. Bound: only while another object is left to dial.
Exhaust(c) ==
    /\ Live(c)
    /\ \E spare \in Conns : obj[spare] = "undialed"
    /\ obj' = [obj EXCEPT ![c] = "dead"]
    /\ UNCHANGED <<managerVars, reconnectionCount, blockVars, borrowed, pc, loopVars>>

----------------------------------------------------------------------------
(* Calls by the users of the manager *)

\* WithConnection takes the read lock for the whole of fn, an RPC. A writer that
\* waits (reconnect() at its Lock) keeps new readers out.
Borrow(b) ==
    /\ ~closing
    /\ \A w \in Watchers : pc[w] # "install"
    /\ borrowed[b] = None
    /\ borrowed' = [borrowed EXCEPT ![b] = connection]
    /\ UNCHANGED <<managerVars, reconnectionCount, blockVars, obj, pc, loopVars>>

\* fn is over and the read lock released.
GiveBack(b) ==
    /\ borrowed[b] # None
    /\ borrowed' = [borrowed EXCEPT ![b] = None]
    /\ UNCHANGED <<managerVars, reconnectionCount, blockVars, obj, pc, loopVars>>

\* NotifyBlockedSafe, as far as the connection is concerned: the first caller
\* registers the universal receiver and starts the broadcaster.
NotifyBlockedSafe ==
    /\ WriteLockFree
    /\ ~universalNotifyBlockingReceiverUsed
    /\ universalNotifyBlockingReceiverUsed' = TRUE
    /\ listening' = listening \cup {connection}
    /\ UNCHANGED <<managerVars, reconnectionCount, borrowed, obj, pc, loopVars>>

\* Close up to connection.Close(): later calls return at once.
CloseBegin ==
    /\ WriteLockFree
    /\ ~closed
    /\ closed' = TRUE
    /\ closeSignal' = TRUE
    /\ closing' = TRUE
    /\ UNCHANGED <<connection, reconnectionCount, blockVars, borrowed, obj, pc, loopVars>>

\* connection.Close() and the deferred unlock.
CloseEnd ==
    /\ closing
    /\ obj' = ClosedObj(connection)
    /\ closing' = FALSE
    /\ UNCHANGED <<connection, closed, closeSignal, reconnectionCount, blockVars, borrowed,
                   pc, loopVars>>

----------------------------------------------------------------------------
(* A watcher: startNotifyClose, handleStateChanges, reconnectLoop, reconnect *)

\* startNotifyClose reads m.connection, without the lock, and registers. What
\* the library does for an object that has already ended is an assumption.
Register(w) ==
    /\ pc[w] = "register"
    /\ watched' = [watched EXCEPT ![w] = connection]
    /\ \/ Live(connection) /\ pc' = [pc EXCEPT ![w] = "watch"]
       \/ ~Live(connection) /\ "told" \in LateTerminal /\ pc' = [pc EXCEPT ![w] = "watch"]
       \/ ~Live(connection) /\ "dropped" \in LateTerminal /\ pc' = [pc EXCEPT ![w] = "done"]
    /\ UNCHANGED <<managerVars, reconnectionCount, blockVars, borrowed, obj, held, attempt, delay>>

\* StateClosed without an error: Close was called.
SeeGraceful(w) ==
    /\ pc[w] = "watch"
    /\ obj[watched[w]] = "closed"
    /\ pc' = [pc EXCEPT ![w] = "done"]
    /\ UNCHANGED <<managerVars, reconnectionCount, blockVars, borrowed, obj, loopVars>>

\* The head of reconnectLoop: draw the delay for attempt n and wait.
BackOff(w, n) ==
    /\ pc' = [pc EXCEPT ![w] = "wait"]
    /\ attempt' = [attempt EXCEPT ![w] = n]
    /\ \E t \in Delays(Interval, n) : delay' = [delay EXCEPT ![w] = t]

\* The counter and the delay are locals of the loop: gone when it returns.
LeaveLoop(w) == /\ attempt' = [attempt EXCEPT ![w] = 0]
                /\ delay' = [delay EXCEPT ![w] = 0]

\* StateClosed with an error.
SeeDead(w) ==
    /\ pc[w] = "watch"
    /\ obj[watched[w]] = "dead"
    /\ BackOff(w, 0)
    /\ UNCHANGED <<managerVars, reconnectionCount, blockVars, borrowed, obj, watched, held>>

\* The closeSignal case of the select: the loop returns, and
\* handleStateChanges broadcasts all the same.
StopWaiting(w) ==
    /\ pc[w] = "wait"
    /\ closeSignal
    /\ pc' = [pc EXCEPT ![w] = "dispatch"]
    /\ LeaveLoop(w)
    /\ UNCHANGED <<managerVars, reconnectionCount, blockVars, borrowed, obj, watched, held>>

TimerFires(w) ==
    /\ pc[w] = "wait"
    /\ pc' = [pc EXCEPT ![w] = "dial"]
    /\ UNCHANGED <<managerVars, reconnectionCount, blockVars, borrowed, obj, loopVars>>

\* A plausible slip: any error ends the loop.
DialFailsGivingUp(w) ==
    /\ pc[w] = "dial"
    /\ pc' = [pc EXCEPT ![w] = "dispatch"]
    /\ LeaveLoop(w)
    /\ UNCHANGED <<managerVars, reconnectionCount, blockVars, borrowed, obj, watched, held>>

\* dial() outside the lock, unsuccessful: attempt++ and round the loop.
DialFails(w) ==
    /\ pc[w] = "dial"
    /\ attempt[w] < MaxFailures
    /\ BackOff(w, attempt[w] + 1)
    /\ UNCHANGED <<managerVars, reconnectionCount, blockVars, borrowed, obj, watched, held>>

\* dial() succeeded: no further wait, the loop ends with reconnect().
DialSucceeds(w, c) ==
    /\ pc[w] = "dial"
    /\ obj[c] = "undialed"
    /\ \A other \in Conns : obj[other] = "undialed" => c <= other
    /\ obj' = [obj EXCEPT ![c] = "open"]
    /\ held' = [held EXCEPT ![w] = c]
    /\ pc' = [pc EXCEPT ![w] = "install"]
    /\ LeaveLoop(w)
    /\ UNCHANGED <<managerVars, reconnectionCount, blockVars, borrowed, watched>>

\* A plausible slip: closed is not looked at under the lock.
InstallEvenClosed(w) ==
    /\ pc[w] = "install"
    /\ WriteLockFree
    /\ connection' = held[w]
    /\ held' = [held EXCEPT ![w] = connection]
    /\ listening' = IF universalNotifyBlockingReceiverUsed
                      THEN listening \cup {held[w]} ELSE listening
    /\ pc' = [pc EXCEPT ![w] = "closeOld"]
    /\ UNCHANGED <<closed, closeSignal, closing, reconnectionCount, borrowed, obj,
                   universalNotifyBlockingReceiverUsed, watched, attempt, delay>>

\* A plausible slip: the pointer is swapped without the write lock.
InstallUnlocked(w) ==
    /\ pc[w] = "install"
    /\ ~closed
    /\ connection' = held[w]
    /\ held' = [held EXCEPT ![w] = connection]
    /\ listening' = IF universalNotifyBlockingReceiverUsed
                      THEN listening \cup {held[w]} ELSE listening
    /\ pc' = [pc EXCEPT ![w] = "closeOld"]
    /\ UNCHANGED <<closed, closeSignal, closing, reconnectionCount, borrowed, obj,
                   universalNotifyBlockingReceiverUsed, watched, attempt, delay>>

\* A plausible slip: the universal receiver stays registered on the old object.
InstallDeaf(w) ==
    /\ pc[w] = "install"
    /\ WriteLockFree
    /\ ~closed
    /\ connection' = held[w]
    /\ held' = [held EXCEPT ![w] = connection]
    /\ pc' = [pc EXCEPT ![w] = "closeOld"]
    /\ UNCHANGED <<closed, closeSignal, closing, reconnectionCount, borrowed, obj,
                   blockVars, watched, attempt, delay>>

\* The critical section of reconnect(): swap the pointer, and move the universal
\* receiver if anybody ever asked for blocked notifications.
Install(w) ==
    /\ pc[w] = "install"
    /\ WriteLockFree
    /\ ~closed
    /\ connection' = held[w]
    /\ held' = [held EXCEPT ![w] = connection]
    /\ listening' = IF universalNotifyBlockingReceiverUsed
                      THEN listening \cup {held[w]} ELSE listening
    /\ pc' = [pc EXCEPT ![w] = "closeOld"]
    /\ UNCHANGED <<closed, closeSignal, closing, reconnectionCount, borrowed, obj,
                   universalNotifyBlockingReceiverUsed, watched, attempt, delay>>

\* The same critical section when Close came first.
Refuse(w) ==
    /\ pc[w] = "install"
    /\ WriteLockFree
    /\ closed
    /\ pc' = [pc EXCEPT ![w] = "discard"]
    /\ UNCHANGED <<managerVars, reconnectionCount, blockVars, borrowed, obj, loopVars>>

\* A plausible slip: the redundant connection is dropped, not closed.
DiscardForgetting(w) ==
    /\ pc[w] = "discard"
    /\ held' = [held EXCEPT ![w] = None]
    /\ pc' = [pc EXCEPT ![w] = "dispatch"]
    /\ UNCHANGED <<managerVars, reconnectionCount, blockVars, borrowed, obj, watched, attempt, delay>>

\* conn.Close() on the redundant connection; errClosed ends the loop.
Discard(w) ==
    /\ pc[w] = "discard"
    /\ obj' = ClosedObj(held[w])
    /\ held' = [held EXCEPT ![w] = None]
    /\ pc' = [pc EXCEPT ![w] = "dispatch"]
    /\ UNCHANGED <<managerVars, reconnectionCount, blockVars, borrowed, watched, attempt, delay>>

\* oldConnection.Close(), after the unlock.
CloseOld(w) ==
    /\ pc[w] = "closeOld"
    /\ obj' = ClosedObj(held[w])
    /\ held' = [held EXCEPT ![w] = None]
    /\ pc' = [pc EXCEPT ![w] = "count"]
    /\ UNCHANGED <<managerVars, reconnectionCount, blockVars, borrowed, watched, attempt, delay>>

\* incrementReconnectionCount, then `go m.startNotifyClose()`.
Count(w) ==
    /\ pc[w] = "count"
    /\ w < MaxConns
    /\ reconnectionCount' = reconnectionCount + 1
    /\ pc' = [pc EXCEPT ![w] = "dispatch", ![w + 1] = "register"]
    /\ UNCHANGED <<managerVars, blockVars, borrowed, obj, loopVars>>

\* dispatcher.Dispatch returns (Dispatcher.tla says that it does).
DispatchDone(w) ==
    /\ pc[w] = "dispatch"
    /\ pc' = [pc EXCEPT ![w] = "done"]
    /\ UNCHANGED <<managerVars, reconnectionCount, blockVars, borrowed, obj, loopVars>>

----------------------------------------------------------------------------

LibraryStep == \E c \in Conns : Lose(c) \/ Restore(c) \/ Exhaust(c)

UserStep == \/ \E b \in Borrowers : Borrow(b) \/ GiveBack(b)
            \/ NotifyBlockedSafe \/ CloseBegin \/ CloseEnd

LoopStep(w) ==
    \/ Register(w) \/ SeeGraceful(w) \/ SeeDead(w)
    \/ StopWaiting(w) \/ TimerFires(w)
    \/ DialFails(w) \/ (\E c \in Conns : DialSucceeds(w, c))
    \/ Install(w) \/ Refuse(w) \/ Discard(w) \/ CloseOld(w) \/ Count(w)

WatcherStep(w) == LoopStep(w) \/ DispatchDone(w)

Next == LibraryStep \/ UserStep \/ \E w \in Watchers : WatcherStep(w)

Spec == Init /\ [][Next]_vars

\* Goroutines run, timers expire, and an RPC on a connection returns (heartbeats
\* see to that). A writer of an RWMutex is not overtaken by new readers, hence
\* strong fairness of the two steps that take the write lock in reconnect(); the
\* runtime picks among ready select cases at random, hence that of StopWaiting.
\* The library, and the users' calls, owe nothing.
Fairness ==
    /\ \A w \in Watchers : /\ WF_vars(WatcherStep(w))
                           /\ SF_vars(Install(w) \/ Refuse(w))
                           /\ SF_vars(StopWaiting(w))
    /\ \A b \in Borrowers : WF_vars(GiveBack(b))
    /\ WF_vars(CloseEnd)

FairSpec == Spec /\ Fairness

----------------------------------------------------------------------------

TypeOK ==
    /\ connection \in Conns
    /\ closed \in BOOLEAN /\ closeSignal \in BOOLEAN /\ closing \in BOOLEAN
    /\ universalNotifyBlockingReceiverUsed \in BOOLEAN
    /\ reconnectionCount \in 0..(MaxConns - 1)
    /\ borrowed \in [Borrowers -> Conns \cup {None}]
    /\ obj \in [Conns -> ObjectStates]
    /\ listening \subseteq Conns
    /\ pc \in [Watchers -> WatcherStates]
    /\ watched \in [Watchers -> Conns \cup {None}]
    /\ held \in [Watchers -> Conns \cup {None}]
    /\ attempt \in [Watchers -> 0..MaxFailures]
    /\ delay \in [Watchers -> Durations]

\* One loop at a time: the watchers before the newest have at most their
\* broadcast left to do, and none after it exists.
OneLoop ==
    \A w \in Watchers :
        /\ w <= reconnectionCount => pc[w] \in {"dispatch", "done"}
        /\ w > reconnectionCount + 1 => pc[w] = "unborn"
        /\ w = reconnectionCount + 1 => pc[w] # "unborn"

\* While a loop runs, the object it replaces is the current one, and has ended.
ReplacesTheDead ==
    \A w \in Watchers :
        /\ pc[w] \in {"watch", "wait", "dial", "install", "discard"} =>
             watched[w] = connection
        /\ pc[w] \in {"wait", "dial", "install", "discard"} =>
             obj[connection] = "dead"
        /\ pc[w] \in {"install", "discard"} =>
             held[w] \in Conns /\ held[w] # connection
        /\ pc[w] = "closeOld" => held[w] \in Conns /\ obj[held[w]] = "dead"

\* A connection object that is alive is one the manager still answers for: the
\* current one of a manager that is open or still closing it, or the new one of
\* a reconnect that has yet to learn whether Close overtook it. Whatever the
\* interleaving of Close and reconnect, none is left that nobody can close
\* (connection.go:264-269).
NoOrphanConnection ==
    \A c \in Conns : Live(c) =>
        \/ c = connection /\ (closed => closing)
        \/ \E w \in Watchers : pc[w] \in {"install", "discard"} /\ held[w] = c

\* What WithConnection lends stays the current connection until it is returned.
BorrowedIsCurrent ==
    \A b \in Borrowers : borrowed[b] # None => borrowed[b] = connection /\ ~closing

ClosingIsClosed == closing => closed

\* The current object ends gracefully by Close alone: no loop, however late, closes
\* the object it has installed, nor installs one that was closed before.
ClosedByCloseOnly ==
    /\ obj[connection] # "undialed"
    /\ obj[connection] = "closed" => closed /\ ~closing
    /\ \A w \in Watchers :
         pc[w] = "install" => obj[held[w]] \in {"open", "reconnecting", "dead"}

\* The inductive invariant: what the lock, the single loop and the order of the
\* assignments in reconnect() and Close guarantee together.
IInv == /\ TypeOK
        /\ ClosingIsClosed
        /\ OneLoop
        /\ ReplacesTheDead
        /\ NoOrphanConnection
        /\ BorrowedIsCurrent
        /\ ClosedByCloseOnly

\* Once a publisher asked for blocked notifications, the current connection, and
\* not merely an earlier one, feeds a broadcaster (connection.go:288-297).
BlockedHeardOnCurrent ==
    universalNotifyBlockingReceiverUsed => connection \in listening

\* The delay a loop waits for, or last waited for, is one Delay returned for its
\* attempt counter.
DelayDrawn ==
    \A w \in Watchers :
        pc[w] \in {"wait", "dial"} => delay[w] \in Delays(Interval, attempt[w])

\* A positive interval is waited out at least to three quarters and never beyond
\* sixteen times itself, however many dials have failed (backoff.go:12-17).
BackoffInBand ==
    \A w \in Watchers : pc[w] = "wait" /\ Interval > 0 /\ 16 * Interval < Limit =>
        /\ 4 * delay[w] >= 3 * Interval * Pow2[Capped(attempt[w])]
        /\ delay[w] <= Interval * Pow2[Capped(attempt[w])]

\* Every failed dial makes the next wait strictly longer until the cap, for every
\* interval that leaves room for the shift.
FailureWaitsLonger ==
    [][\A w \in Watchers :
         attempt'[w] = attempt[w] + 1 /\ attempt[w] < maxAttempt
           /\ Interval > 0 /\ 16 * Interval < Limit
            => delay'[w] > delay[w]]_vars

\* An outage ends: a connection that the library has given up on is replaced by
\* one that is not dead, or the manager is closed (connection.go:39-44). Assumes
\* that a late listener is told of the end of its object.
RecoversUnlessClosed ==
    obj[connection] = "dead" ~> (obj[connection] # "dead" \/ closed)

\* After Close everything ends: no goroutine of the manager is left and no
\* connection object alive, even if Close met a dial in flight.
CloseLeavesNothing ==
    closed ~> /\ \A w \in Watchers : pc[w] \in {"unborn", "done"}
              /\ \A c \in Conns : ~Live(c)

============================================================================
