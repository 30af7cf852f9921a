---------------------- MODULE ConnectionManagerProofs ----------------------
(***************************************************************************)
(* The connection manager for any number of connection objects, borrowers  *)
(* and dial failures: one reconnect loop at a time, no connection object   *)
(* left alive that nobody can close, whatever Close overtakes.             *)
(***************************************************************************)
EXTENDS ConnectionManager, TLAPS

----------------------------------------------------------------------------
(* The delay, for every interval and every attempt (Backoff.tla) *)

\* A multiplier of the delay is one of the five powers of two.
LEMMA MultiplierRange ==
    ASSUME NEW n \in Nat
    PROVE  Pow2[Capped(n)] \in {1, 2, 4, 8, 16}
  BY DEF Pow2, Capped, maxAttempt

\* As long as sixteen intervals fit in a duration, no shift wraps.
LEMMA NoWrap ==
    ASSUME NEW base \in Nat, 16 * base < Limit, NEW n \in Nat
    PROVE  Shifted(base, n) = base * Pow2[Capped(n)]
<1> DEFINE p == Pow2[Capped(n)]
<1>1. p \in {1, 2, 4, 8, 16}
  BY MultiplierRange
<1>2. base * p \in Nat /\ base * p <= 16 * base
  BY <1>1
<1>3. 0 <= base * p + Limit /\ base * p + Limit < 2 * Limit
  BY <1>2, LimitAssumption
<1>4. \A x \in Nat : x < 2 * Limit => x % (2 * Limit) = x
  BY LimitAssumption
<1>5. Wrap(base * p) = base * p
  BY <1>2, <1>3, <1>4, LimitAssumption DEF Wrap
<1> QED BY <1>5 DEF Shifted

\* The delay is never more than the capped power of two of the interval, hence
\* never more than sixteen times it, and the jitter never takes more than a
\* quarter of it away.
THEOREM DelayBand ==
    ASSUME NEW base \in Nat, base > 0, 16 * base < Limit, NEW n \in Nat,
           NEW t \in Delays(base, n)
    PROVE  /\ t <= base * Pow2[Capped(n)]
           /\ t <= 16 * base
           /\ 4 * t >= 3 * base * Pow2[Capped(n)]
<1> DEFINE p == Pow2[Capped(n)]
           d == base * p
<1>1. p \in {1, 2, 4, 8, 16} /\ d \in Nat /\ d <= 16 * base
  BY MultiplierRange
<1>2. Shifted(base, n) = d
  BY NoWrap
<1>3. PICK jitter \in 0..(d \div 4) : t = d - jitter
  BY <1>1, <1>2 DEF Delays, Quarter
<1>4. 4 * jitter <= d
  BY <1>1, <1>3
<1>5. 4 * t >= 3 * d
  BY <1>1, <1>3, <1>4
<1>6. 3 * d = 3 * base * p
  BY <1>1
<1> QED BY <1>1, <1>3, <1>5, <1>6

\* Until the cap is reached, whatever is drawn: the wait after one more failure
\* is strictly longer than the wait before.
THEOREM DelayGrows ==
    ASSUME NEW base \in Nat, base > 0, 16 * base < Limit,
           NEW n \in Nat, n < maxAttempt,
           NEW t \in Delays(base, n), NEW u \in Delays(base, n + 1)
    PROVE  t < u
<1> DEFINE p == Pow2[Capped(n)]
           q == Pow2[Capped(n + 1)]
<1>1. p \in {1, 2, 4, 8, 16} /\ q = 2 * p
  BY MultiplierRange DEF Pow2, Capped, maxAttempt
<1>2. base * p \in Nat /\ base * p > 0
  BY <1>1
<1>3. t <= base * p /\ t \in Int
  BY DelayBand, NoWrap, <1>2 DEF Delays, Quarter
<1>4. 4 * u >= 3 * base * q /\ u \in Int
  BY DelayBand, NoWrap, <1>1, <1>2 DEF Delays, Quarter
<1>5. 3 * base * q = 6 * (base * p)
  BY <1>1
<1> QED BY <1>2, <1>3, <1>4, <1>5

\* A delay is a duration, even when the shift wraps.
LEMMA DelayType ==
    ASSUME NEW base \in Int, NEW n \in Nat
    PROVE  Delays(base, n) \subseteq Durations
<1>1. Pow2[Capped(n)] \in Int
  BY MultiplierRange
<1> DEFINE x == base * Pow2[Capped(n)]
<1>2. x \in Int
  BY <1>1
<1>3. (x + Limit) % (2 * Limit) \in 0..(2 * Limit - 1)
  BY <1>2, LimitAssumption
<1>4. Shifted(base, n) \in Durations
  BY <1>3, LimitAssumption DEF Shifted, Wrap, Durations
<1> DEFINE d == Shifted(base, n)
<1>5. CASE d >= 0
  BY <1>4, <1>5, LimitAssumption DEF Delays, Quarter, Durations
<1>6. CASE d < 0
  <2>1. Quarter(d) \in Int /\ Quarter(d) <= 0
    BY <1>4, <1>6, LimitAssumption DEF Quarter, Durations
  <2> QED BY <1>4, <2>1, <1>6, LimitAssumption DEF Delays, Durations
<1> QED BY <1>4, <1>5, <1>6, LimitAssumption DEF Durations

----------------------------------------------------------------------------
(* The manager *)

\* The delays a loop may draw are durations, and so is the zero it starts from.
LEMMA DelayRange ==
    ASSUME NEW n \in Nat
    PROVE  Delays(Interval, n) \subseteq Durations
<1>1. Interval \in Int
  BY IntervalAssumption, LimitAssumption DEF Durations
<1> QED BY <1>1, DelayType

LEMMA ZeroDuration == 0 \in Durations
  BY LimitAssumption DEF Durations

\* The state New leaves behind satisfies the invariant.
LEMMA InitIInv == Init => IInv
<1> SUFFICES ASSUME Init PROVE IInv
  OBVIOUS
<1> USE MaxConnsAssumption DEF Init, Conns, Watchers, None, Live
<1>1. TypeOK
  <2>0. connection \in Conns
    OBVIOUS
  <2>1. /\ closed \in BOOLEAN /\ closeSignal \in BOOLEAN /\ closing \in BOOLEAN
        /\ universalNotifyBlockingReceiverUsed \in BOOLEAN
    BY Zenon
  <2>2. /\ reconnectionCount \in 0..(MaxConns - 1)
        /\ borrowed \in [Borrowers -> Conns \cup {None}]
        /\ listening \subseteq Conns
        /\ watched \in [Watchers -> Conns \cup {None}]
        /\ held \in [Watchers -> Conns \cup {None}]
    OBVIOUS
  <2>3. /\ attempt \in [Watchers -> 0..MaxFailures]
        /\ delay \in [Watchers -> Durations]
    BY MaxFailuresAssumption, ZeroDuration
  <2>4. obj \in [Conns -> ObjectStates] /\ pc \in [Watchers -> WatcherStates]
    BY DEF ObjectStates, WatcherStates
  <2> QED BY <2>0, <2>1, <2>2, <2>3, <2>4 DEF TypeOK
<1>2. ClosingIsClosed /\ BorrowedIsCurrent /\ NoOrphanConnection
  BY DEF ClosingIsClosed, BorrowedIsCurrent, NoOrphanConnection
<1>3. OneLoop
  BY DEF OneLoop
<1>4. ReplacesTheDead
  BY DEF ReplacesTheDead
<1>5. ClosedByCloseOnly
  BY DEF ClosedByCloseOnly
<1> QED BY <1>1, <1>2, <1>3, <1>4, <1>5 DEF IInv

\* Only the newest watcher can be at the end of its loop.
LEMMA CountFacts ==
    ASSUME TypeOK, OneLoop, NEW w \in Watchers, Count(w)
    PROVE  w + 1 \in Watchers /\ w = reconnectionCount + 1
<1>1. w + 1 \in Watchers
  BY MaxConnsAssumption DEF Count, Watchers
<1>2. reconnectionCount \in Nat /\ w \in Nat
  BY MaxConnsAssumption DEF TypeOK, Watchers
<1>3. pc[w] = "count"
  BY DEF Count
<1>4. ~(w <= reconnectionCount) /\ ~(w > reconnectionCount + 1)
  BY <1>3 DEF OneLoop
<1> QED BY <1>1, <1>2, <1>4

\* Every step keeps the variables in their types.
LEMMA NextTypeOK ==
    TypeOK /\ OneLoop /\ ReplacesTheDead /\ [Next]_vars => TypeOK'
<1> SUFFICES ASSUME TypeOK, OneLoop, ReplacesTheDead, [Next]_vars
             PROVE TypeOK'
  OBVIOUS
<1> USE MaxConnsAssumption, MaxFailuresAssumption, ZeroDuration
    DEF managerVars, blockVars, loopVars, Conns, Watchers, None, Live,
        ObjectStates, WatcherStates, WriteLockFree, TypeOK, OneLoop
<1>1. ASSUME NEW c \in Conns, Lose(c) PROVE TypeOK'
  BY <1>1 DEF Lose
<1>2. ASSUME NEW c \in Conns, Restore(c) PROVE TypeOK'
  BY <1>2 DEF Restore
<1>3. ASSUME NEW c \in Conns, Exhaust(c) PROVE TypeOK'
  BY <1>3 DEF Exhaust
<1>4. ASSUME NEW b \in Borrowers, Borrow(b) PROVE TypeOK'
  BY <1>4 DEF Borrow
<1>5. ASSUME NEW b \in Borrowers, GiveBack(b) PROVE TypeOK'
  BY <1>5 DEF GiveBack
<1>6. CASE NotifyBlockedSafe
  BY <1>6 DEF NotifyBlockedSafe
<1>7. CASE CloseBegin
  BY <1>7 DEF CloseBegin
<1>8. CASE CloseEnd
  BY <1>8 DEF CloseEnd, ClosedObj
<1>9. ASSUME NEW w \in Watchers, Register(w) PROVE TypeOK'
  BY <1>9 DEF Register
<1>10. ASSUME NEW w \in Watchers, SeeGraceful(w) PROVE TypeOK'
  BY <1>10 DEF SeeGraceful
<1>11. ASSUME NEW w \in Watchers, SeeDead(w) PROVE TypeOK'
  BY <1>11, DelayRange DEF SeeDead, BackOff
<1>12. ASSUME NEW w \in Watchers, StopWaiting(w) PROVE TypeOK'
  BY <1>12 DEF StopWaiting, LeaveLoop
<1>13. ASSUME NEW w \in Watchers, TimerFires(w) PROVE TypeOK'
  BY <1>13 DEF TimerFires
<1>14. ASSUME NEW w \in Watchers, DialFails(w) PROVE TypeOK'
  BY <1>14, DelayRange DEF DialFails, BackOff
<1>15. ASSUME NEW w \in Watchers, NEW c \in Conns, DialSucceeds(w, c) PROVE TypeOK'
  BY <1>15 DEF DialSucceeds, LeaveLoop
<1>16. ASSUME NEW w \in Watchers, Install(w) PROVE TypeOK'
  <2>1. held[w] \in Conns
    BY <1>16 DEF Install, ReplacesTheDead
  <2>2. connection' \in Conns /\ held' \in [Watchers -> Conns \cup {None}]
    BY <1>16, <2>1 DEF Install
  <2>3. listening' \subseteq Conns
    BY <1>16, <2>1 DEF Install
  <2>4. pc' \in [Watchers -> WatcherStates]
    BY <1>16 DEF Install
  <2> QED BY <1>16, <2>2, <2>3, <2>4 DEF Install
<1>17. ASSUME NEW w \in Watchers, Refuse(w) PROVE TypeOK'
  BY <1>17 DEF Refuse
<1>18. ASSUME NEW w \in Watchers, Discard(w) PROVE TypeOK'
  BY <1>18 DEF Discard, ClosedObj
<1>19. ASSUME NEW w \in Watchers, CloseOld(w) PROVE TypeOK'
  BY <1>19 DEF CloseOld, ClosedObj
<1>20. ASSUME NEW w \in Watchers, Count(w) PROVE TypeOK'
  <2>1. w + 1 \in Watchers /\ w = reconnectionCount + 1
    BY <1>20, CountFacts
  <2>2. /\ pc' = [pc EXCEPT ![w] = "dispatch", ![w + 1] = "register"]
        /\ UNCHANGED <<obj, held, watched, connection, closed, closing>>
    BY <1>20 DEF Count
  <2>3. pc' \in [Watchers -> WatcherStates]
    BY <2>1, <2>2
  <2> QED BY <1>20, <2>1, <2>3 DEF Count
<1>21. ASSUME NEW w \in Watchers, DispatchDone(w) PROVE TypeOK'
  BY <1>21 DEF DispatchDone
<1>22. CASE UNCHANGED vars
  BY <1>22 DEF vars
<1> HIDE DEF TypeOK, ClosingIsClosed, OneLoop, ReplacesTheDead,
             NoOrphanConnection, BorrowedIsCurrent, BlockedHeardOnCurrent,
             DelayDrawn
<1> QED
  BY <1>1, <1>2, <1>3, <1>4, <1>5, <1>6, <1>7, <1>8, <1>9, <1>10, <1>11,
     <1>12, <1>13, <1>14, <1>15, <1>16, <1>17, <1>18, <1>19, <1>20,
     <1>21, <1>22
  DEF Next, LibraryStep, UserStep, WatcherStep, LoopStep

\* Only a closed manager is being closed.
LEMMA NextClosing ==
    ClosingIsClosed /\ [Next]_vars => ClosingIsClosed'
<1> SUFFICES ASSUME ClosingIsClosed, [Next]_vars
             PROVE ClosingIsClosed'
  OBVIOUS
<1> USE DEF managerVars, blockVars, loopVars, Conns, Watchers, None, Live,
        ObjectStates, WatcherStates, WriteLockFree, ClosingIsClosed
<1>1. ASSUME NEW c \in Conns, Lose(c) PROVE ClosingIsClosed'
  BY <1>1 DEF Lose
<1>2. ASSUME NEW c \in Conns, Restore(c) PROVE ClosingIsClosed'
  BY <1>2 DEF Restore
<1>3. ASSUME NEW c \in Conns, Exhaust(c) PROVE ClosingIsClosed'
  BY <1>3 DEF Exhaust
<1>4. ASSUME NEW b \in Borrowers, Borrow(b) PROVE ClosingIsClosed'
  BY <1>4 DEF Borrow
<1>5. ASSUME NEW b \in Borrowers, GiveBack(b) PROVE ClosingIsClosed'
  BY <1>5 DEF GiveBack
<1>6. CASE NotifyBlockedSafe
  BY <1>6 DEF NotifyBlockedSafe
<1>7. CASE CloseBegin
  BY <1>7 DEF CloseBegin
<1>8. CASE CloseEnd
  BY <1>8 DEF CloseEnd, ClosedObj
<1>9. ASSUME NEW w \in Watchers, Register(w) PROVE ClosingIsClosed'
  BY <1>9 DEF Register
<1>10. ASSUME NEW w \in Watchers, SeeGraceful(w) PROVE ClosingIsClosed'
  BY <1>10 DEF SeeGraceful
<1>11. ASSUME NEW w \in Watchers, SeeDead(w) PROVE ClosingIsClosed'
  BY <1>11 DEF SeeDead, BackOff
<1>12. ASSUME NEW w \in Watchers, StopWaiting(w) PROVE ClosingIsClosed'
  BY <1>12 DEF StopWaiting, LeaveLoop
<1>13. ASSUME NEW w \in Watchers, TimerFires(w) PROVE ClosingIsClosed'
  BY <1>13 DEF TimerFires
<1>14. ASSUME NEW w \in Watchers, DialFails(w) PROVE ClosingIsClosed'
  BY <1>14 DEF DialFails, BackOff
<1>15. ASSUME NEW w \in Watchers, NEW c \in Conns, DialSucceeds(w, c) PROVE ClosingIsClosed'
  BY <1>15 DEF DialSucceeds, LeaveLoop
<1>16. ASSUME NEW w \in Watchers, Install(w) PROVE ClosingIsClosed'
  BY <1>16 DEF Install
<1>17. ASSUME NEW w \in Watchers, Refuse(w) PROVE ClosingIsClosed'
  BY <1>17 DEF Refuse
<1>18. ASSUME NEW w \in Watchers, Discard(w) PROVE ClosingIsClosed'
  BY <1>18 DEF Discard, ClosedObj
<1>19. ASSUME NEW w \in Watchers, CloseOld(w) PROVE ClosingIsClosed'
  BY <1>19 DEF CloseOld, ClosedObj
<1>20. ASSUME NEW w \in Watchers, Count(w) PROVE ClosingIsClosed'
  BY <1>20 DEF Count
<1>21. ASSUME NEW w \in Watchers, DispatchDone(w) PROVE ClosingIsClosed'
  BY <1>21 DEF DispatchDone
<1>22. CASE UNCHANGED vars
  BY <1>22 DEF vars
<1> HIDE DEF TypeOK, ClosingIsClosed, OneLoop, ReplacesTheDead,
             NoOrphanConnection, BorrowedIsCurrent, BlockedHeardOnCurrent,
             DelayDrawn
<1> QED
  BY <1>1, <1>2, <1>3, <1>4, <1>5, <1>6, <1>7, <1>8, <1>9, <1>10, <1>11,
     <1>12, <1>13, <1>14, <1>15, <1>16, <1>17, <1>18, <1>19, <1>20,
     <1>21, <1>22
  DEF Next, LibraryStep, UserStep, WatcherStep, LoopStep

\* A watcher starts its successor only when its own loop is over.
LEMMA NextOneLoop ==
    TypeOK /\ OneLoop /\ [Next]_vars => OneLoop'
<1> SUFFICES ASSUME TypeOK, OneLoop, [Next]_vars
             PROVE OneLoop'
  OBVIOUS
<1> USE DEF managerVars, blockVars, loopVars, Conns, Watchers, None, Live,
        ObjectStates, WatcherStates, WriteLockFree, TypeOK, OneLoop
<1>1. ASSUME NEW c \in Conns, Lose(c) PROVE OneLoop'
  BY <1>1 DEF Lose
<1>2. ASSUME NEW c \in Conns, Restore(c) PROVE OneLoop'
  BY <1>2 DEF Restore
<1>3. ASSUME NEW c \in Conns, Exhaust(c) PROVE OneLoop'
  BY <1>3 DEF Exhaust
<1>4. ASSUME NEW b \in Borrowers, Borrow(b) PROVE OneLoop'
  BY <1>4 DEF Borrow
<1>5. ASSUME NEW b \in Borrowers, GiveBack(b) PROVE OneLoop'
  BY <1>5 DEF GiveBack
<1>6. CASE NotifyBlockedSafe
  BY <1>6 DEF NotifyBlockedSafe
<1>7. CASE CloseBegin
  BY <1>7 DEF CloseBegin
<1>8. CASE CloseEnd
  BY <1>8 DEF CloseEnd, ClosedObj
<1>9. ASSUME NEW w \in Watchers, Register(w) PROVE OneLoop'
  BY <1>9 DEF Register
<1>10. ASSUME NEW w \in Watchers, SeeGraceful(w) PROVE OneLoop'
  BY <1>10 DEF SeeGraceful
<1>11. ASSUME NEW w \in Watchers, SeeDead(w) PROVE OneLoop'
  BY <1>11 DEF SeeDead, BackOff
<1>12. ASSUME NEW w \in Watchers, StopWaiting(w) PROVE OneLoop'
  BY <1>12 DEF StopWaiting, LeaveLoop
<1>13. ASSUME NEW w \in Watchers, TimerFires(w) PROVE OneLoop'
  BY <1>13 DEF TimerFires
<1>14. ASSUME NEW w \in Watchers, DialFails(w) PROVE OneLoop'
  BY <1>14 DEF DialFails, BackOff
<1>15. ASSUME NEW w \in Watchers, NEW c \in Conns, DialSucceeds(w, c) PROVE OneLoop'
  BY <1>15 DEF DialSucceeds, LeaveLoop
<1>16. ASSUME NEW w \in Watchers, Install(w) PROVE OneLoop'
  BY <1>16 DEF Install
<1>17. ASSUME NEW w \in Watchers, Refuse(w) PROVE OneLoop'
  BY <1>17 DEF Refuse
<1>18. ASSUME NEW w \in Watchers, Discard(w) PROVE OneLoop'
  BY <1>18 DEF Discard, ClosedObj
<1>19. ASSUME NEW w \in Watchers, CloseOld(w) PROVE OneLoop'
  BY <1>19 DEF CloseOld, ClosedObj
<1>20. ASSUME NEW w \in Watchers, Count(w) PROVE OneLoop'
  BY <1>20 DEF Count
<1>21. ASSUME NEW w \in Watchers, DispatchDone(w) PROVE OneLoop'
  BY <1>21 DEF DispatchDone
<1>22. CASE UNCHANGED vars
  BY <1>22 DEF vars
<1> HIDE DEF TypeOK, ClosingIsClosed, OneLoop, ReplacesTheDead,
             NoOrphanConnection, BorrowedIsCurrent, BlockedHeardOnCurrent,
             DelayDrawn
<1> QED
  BY <1>1, <1>2, <1>3, <1>4, <1>5, <1>6, <1>7, <1>8, <1>9, <1>10, <1>11,
     <1>12, <1>13, <1>14, <1>15, <1>16, <1>17, <1>18, <1>19, <1>20,
     <1>21, <1>22
  DEF Next, LibraryStep, UserStep, WatcherStep, LoopStep

\* Nobody else swaps the connection a loop is about to replace.
LEMMA NextReplacesTheDead ==
    TypeOK /\ OneLoop /\ ReplacesTheDead /\ [Next]_vars => ReplacesTheDead'
<1> SUFFICES ASSUME TypeOK, OneLoop, ReplacesTheDead, [Next]_vars
             PROVE ReplacesTheDead'
  OBVIOUS
<1> USE DEF managerVars, blockVars, loopVars, Conns, Watchers, None, Live,
        ObjectStates, WatcherStates, WriteLockFree, TypeOK, OneLoop, ReplacesTheDead
<1>1. ASSUME NEW c \in Conns, Lose(c) PROVE ReplacesTheDead'
  BY <1>1 DEF Lose
<1>2. ASSUME NEW c \in Conns, Restore(c) PROVE ReplacesTheDead'
  BY <1>2 DEF Restore
<1>3. ASSUME NEW c \in Conns, Exhaust(c) PROVE ReplacesTheDead'
  BY <1>3 DEF Exhaust
<1>4. ASSUME NEW b \in Borrowers, Borrow(b) PROVE ReplacesTheDead'
  BY <1>4 DEF Borrow
<1>5. ASSUME NEW b \in Borrowers, GiveBack(b) PROVE ReplacesTheDead'
  BY <1>5 DEF GiveBack
<1>6. CASE NotifyBlockedSafe
  BY <1>6 DEF NotifyBlockedSafe
<1>7. CASE CloseBegin
  BY <1>7 DEF CloseBegin
<1>8. CASE CloseEnd
  BY <1>8 DEF CloseEnd, ClosedObj
<1>9. ASSUME NEW w \in Watchers, Register(w) PROVE ReplacesTheDead'
  BY <1>9 DEF Register
<1>10. ASSUME NEW w \in Watchers, SeeGraceful(w) PROVE ReplacesTheDead'
  BY <1>10 DEF SeeGraceful
<1>11. ASSUME NEW w \in Watchers, SeeDead(w) PROVE ReplacesTheDead'
  BY <1>11 DEF SeeDead, BackOff
<1>12. ASSUME NEW w \in Watchers, StopWaiting(w) PROVE ReplacesTheDead'
  BY <1>12 DEF StopWaiting, LeaveLoop
<1>13. ASSUME NEW w \in Watchers, TimerFires(w) PROVE ReplacesTheDead'
  BY <1>13 DEF TimerFires
<1>14. ASSUME NEW w \in Watchers, DialFails(w) PROVE ReplacesTheDead'
  BY <1>14 DEF DialFails, BackOff
<1>15. ASSUME NEW w \in Watchers, NEW c \in Conns, DialSucceeds(w, c) PROVE ReplacesTheDead'
  BY <1>15 DEF DialSucceeds, LeaveLoop
<1>16. ASSUME NEW w \in Watchers, Install(w) PROVE ReplacesTheDead'
  BY <1>16 DEF Install
<1>17. ASSUME NEW w \in Watchers, Refuse(w) PROVE ReplacesTheDead'
  BY <1>17 DEF Refuse
<1>18. ASSUME NEW w \in Watchers, Discard(w) PROVE ReplacesTheDead'
  BY <1>18 DEF Discard, ClosedObj
<1>19. ASSUME NEW w \in Watchers, CloseOld(w) PROVE ReplacesTheDead'
  BY <1>19 DEF CloseOld, ClosedObj
<1>20. ASSUME NEW w \in Watchers, Count(w) PROVE ReplacesTheDead'
  <2>1. w + 1 \in Watchers /\ w = reconnectionCount + 1
    BY <1>20, CountFacts
  <2>2. /\ pc' = [pc EXCEPT ![w] = "dispatch", ![w + 1] = "register"]
        /\ UNCHANGED <<obj, held, watched, connection, closed, closing>>
    BY <1>20 DEF Count
  <2>3. \A v \in Watchers : pc'[v] # pc[v] => v = w \/ v = w + 1
    BY <2>1, <2>2
  <2>4. pc'[w] = "dispatch" /\ pc'[w + 1] = "register"
    BY <2>1, <2>2
  <2> QED BY <1>20, <2>1, <2>2, <2>3, <2>4
<1>21. ASSUME NEW w \in Watchers, DispatchDone(w) PROVE ReplacesTheDead'
  BY <1>21 DEF DispatchDone
<1>22. CASE UNCHANGED vars
  BY <1>22 DEF vars
<1> HIDE DEF TypeOK, ClosingIsClosed, OneLoop, ReplacesTheDead,
             NoOrphanConnection, BorrowedIsCurrent, BlockedHeardOnCurrent,
             DelayDrawn
<1> QED
  BY <1>1, <1>2, <1>3, <1>4, <1>5, <1>6, <1>7, <1>8, <1>9, <1>10, <1>11,
     <1>12, <1>13, <1>14, <1>15, <1>16, <1>17, <1>18, <1>19, <1>20,
     <1>21, <1>22
  DEF Next, LibraryStep, UserStep, WatcherStep, LoopStep

\* Close and reconnect never lose sight of a live connection.
LEMMA NextNoOrphan ==
    TypeOK /\ ClosingIsClosed /\ OneLoop /\ ReplacesTheDead /\ NoOrphanConnection /\ [Next]_vars => NoOrphanConnection'
<1> SUFFICES ASSUME TypeOK, ClosingIsClosed, OneLoop, ReplacesTheDead, NoOrphanConnection, [Next]_vars
             PROVE NoOrphanConnection'
  OBVIOUS
<1> USE DEF managerVars, blockVars, loopVars, Conns, Watchers, None, Live,
        ObjectStates, WatcherStates, WriteLockFree, TypeOK, ClosingIsClosed, OneLoop, ReplacesTheDead,
        NoOrphanConnection
<1>1. ASSUME NEW c \in Conns, Lose(c) PROVE NoOrphanConnection'
  BY <1>1 DEF Lose
<1>2. ASSUME NEW c \in Conns, Restore(c) PROVE NoOrphanConnection'
  BY <1>2 DEF Restore
<1>3. ASSUME NEW c \in Conns, Exhaust(c) PROVE NoOrphanConnection'
  BY <1>3 DEF Exhaust
<1>4. ASSUME NEW b \in Borrowers, Borrow(b) PROVE NoOrphanConnection'
  BY <1>4 DEF Borrow
<1>5. ASSUME NEW b \in Borrowers, GiveBack(b) PROVE NoOrphanConnection'
  BY <1>5 DEF GiveBack
<1>6. CASE NotifyBlockedSafe
  BY <1>6 DEF NotifyBlockedSafe
<1>7. CASE CloseBegin
  BY <1>7 DEF CloseBegin
<1>8. CASE CloseEnd
  BY <1>8 DEF CloseEnd, ClosedObj
<1>9. ASSUME NEW w \in Watchers, Register(w) PROVE NoOrphanConnection'
  BY <1>9 DEF Register
<1>10. ASSUME NEW w \in Watchers, SeeGraceful(w) PROVE NoOrphanConnection'
  BY <1>10 DEF SeeGraceful
<1>11. ASSUME NEW w \in Watchers, SeeDead(w) PROVE NoOrphanConnection'
  BY <1>11 DEF SeeDead, BackOff
<1>12. ASSUME NEW w \in Watchers, StopWaiting(w) PROVE NoOrphanConnection'
  BY <1>12 DEF StopWaiting, LeaveLoop
<1>13. ASSUME NEW w \in Watchers, TimerFires(w) PROVE NoOrphanConnection'
  BY <1>13 DEF TimerFires
<1>14. ASSUME NEW w \in Watchers, DialFails(w) PROVE NoOrphanConnection'
  BY <1>14 DEF DialFails, BackOff
<1>15. ASSUME NEW w \in Watchers, NEW c \in Conns, DialSucceeds(w, c) PROVE NoOrphanConnection'
  BY <1>15 DEF DialSucceeds, LeaveLoop
<1>16. ASSUME NEW w \in Watchers, Install(w) PROVE NoOrphanConnection'
  BY <1>16 DEF Install
<1>17. ASSUME NEW w \in Watchers, Refuse(w) PROVE NoOrphanConnection'
  BY <1>17 DEF Refuse
<1>18. ASSUME NEW w \in Watchers, Discard(w) PROVE NoOrphanConnection'
  BY <1>18 DEF Discard, ClosedObj
<1>19. ASSUME NEW w \in Watchers, CloseOld(w) PROVE NoOrphanConnection'
  BY <1>19 DEF CloseOld, ClosedObj
<1>20. ASSUME NEW w \in Watchers, Count(w) PROVE NoOrphanConnection'
  <2>1. w + 1 \in Watchers /\ w = reconnectionCount + 1
    BY <1>20, CountFacts
  <2>2. /\ pc' = [pc EXCEPT ![w] = "dispatch", ![w + 1] = "register"]
        /\ UNCHANGED <<obj, held, watched, connection, closed, closing>>
    BY <1>20 DEF Count
  <2>3. \A v \in Watchers : pc'[v] # pc[v] => v = w \/ v = w + 1
    BY <2>1, <2>2
  <2>4. pc'[w] = "dispatch" /\ pc'[w + 1] = "register"
    BY <2>1, <2>2
  <2>5. pc[w] = "count" /\ pc[w + 1] = "unborn"
    BY <1>20, <2>1 DEF Count
  <2>6. \A v \in Watchers : pc[v] \in {"install", "discard"} => pc'[v] = pc[v]
    BY <2>3, <2>5
  <2> QED BY <2>2, <2>6
<1>21. ASSUME NEW w \in Watchers, DispatchDone(w) PROVE NoOrphanConnection'
  BY <1>21 DEF DispatchDone
<1>22. CASE UNCHANGED vars
  BY <1>22 DEF vars
<1> HIDE DEF TypeOK, ClosingIsClosed, OneLoop, ReplacesTheDead,
             NoOrphanConnection, BorrowedIsCurrent, BlockedHeardOnCurrent,
             DelayDrawn
<1> QED
  BY <1>1, <1>2, <1>3, <1>4, <1>5, <1>6, <1>7, <1>8, <1>9, <1>10, <1>11,
     <1>12, <1>13, <1>14, <1>15, <1>16, <1>17, <1>18, <1>19, <1>20,
     <1>21, <1>22
  DEF Next, LibraryStep, UserStep, WatcherStep, LoopStep

\* The read lock keeps the connection in place.
LEMMA NextBorrowed ==
    TypeOK /\ BorrowedIsCurrent /\ [Next]_vars => BorrowedIsCurrent'
<1> SUFFICES ASSUME TypeOK, BorrowedIsCurrent, [Next]_vars
             PROVE BorrowedIsCurrent'
  OBVIOUS
<1> USE DEF managerVars, blockVars, loopVars, Conns, Watchers, None, Live,
        ObjectStates, WatcherStates, WriteLockFree, TypeOK, BorrowedIsCurrent
<1>1. ASSUME NEW c \in Conns, Lose(c) PROVE BorrowedIsCurrent'
  BY <1>1 DEF Lose
<1>2. ASSUME NEW c \in Conns, Restore(c) PROVE BorrowedIsCurrent'
  BY <1>2 DEF Restore
<1>3. ASSUME NEW c \in Conns, Exhaust(c) PROVE BorrowedIsCurrent'
  BY <1>3 DEF Exhaust
<1>4. ASSUME NEW b \in Borrowers, Borrow(b) PROVE BorrowedIsCurrent'
  BY <1>4 DEF Borrow
<1>5. ASSUME NEW b \in Borrowers, GiveBack(b) PROVE BorrowedIsCurrent'
  BY <1>5 DEF GiveBack
<1>6. CASE NotifyBlockedSafe
  BY <1>6 DEF NotifyBlockedSafe
<1>7. CASE CloseBegin
  BY <1>7 DEF CloseBegin
<1>8. CASE CloseEnd
  BY <1>8 DEF CloseEnd, ClosedObj
<1>9. ASSUME NEW w \in Watchers, Register(w) PROVE BorrowedIsCurrent'
  BY <1>9 DEF Register
<1>10. ASSUME NEW w \in Watchers, SeeGraceful(w) PROVE BorrowedIsCurrent'
  BY <1>10 DEF SeeGraceful
<1>11. ASSUME NEW w \in Watchers, SeeDead(w) PROVE BorrowedIsCurrent'
  BY <1>11 DEF SeeDead, BackOff
<1>12. ASSUME NEW w \in Watchers, StopWaiting(w) PROVE BorrowedIsCurrent'
  BY <1>12 DEF StopWaiting, LeaveLoop
<1>13. ASSUME NEW w \in Watchers, TimerFires(w) PROVE BorrowedIsCurrent'
  BY <1>13 DEF TimerFires
<1>14. ASSUME NEW w \in Watchers, DialFails(w) PROVE BorrowedIsCurrent'
  BY <1>14 DEF DialFails, BackOff
<1>15. ASSUME NEW w \in Watchers, NEW c \in Conns, DialSucceeds(w, c) PROVE BorrowedIsCurrent'
  BY <1>15 DEF DialSucceeds, LeaveLoop
<1>16. ASSUME NEW w \in Watchers, Install(w) PROVE BorrowedIsCurrent'
  BY <1>16 DEF Install
<1>17. ASSUME NEW w \in Watchers, Refuse(w) PROVE BorrowedIsCurrent'
  BY <1>17 DEF Refuse
<1>18. ASSUME NEW w \in Watchers, Discard(w) PROVE BorrowedIsCurrent'
  BY <1>18 DEF Discard, ClosedObj
<1>19. ASSUME NEW w \in Watchers, CloseOld(w) PROVE BorrowedIsCurrent'
  BY <1>19 DEF CloseOld, ClosedObj
<1>20. ASSUME NEW w \in Watchers, Count(w) PROVE BorrowedIsCurrent'
  BY <1>20 DEF Count
<1>21. ASSUME NEW w \in Watchers, DispatchDone(w) PROVE BorrowedIsCurrent'
  BY <1>21 DEF DispatchDone
<1>22. CASE UNCHANGED vars
  BY <1>22 DEF vars
<1> HIDE DEF TypeOK, ClosingIsClosed, OneLoop, ReplacesTheDead,
             NoOrphanConnection, BorrowedIsCurrent, BlockedHeardOnCurrent,
             DelayDrawn
<1> QED
  BY <1>1, <1>2, <1>3, <1>4, <1>5, <1>6, <1>7, <1>8, <1>9, <1>10, <1>11,
     <1>12, <1>13, <1>14, <1>15, <1>16, <1>17, <1>18, <1>19, <1>20,
     <1>21, <1>22
  DEF Next, LibraryStep, UserStep, WatcherStep, LoopStep

\* What a loop closes is not the current object, or has ended with an error before.
LEMMA NextClosedByCloseOnly ==
    ASSUME IInv, [Next]_vars PROVE ClosedByCloseOnly'
<1>1. ClosingIsClosed /\ OneLoop /\ ReplacesTheDead /\ ClosedByCloseOnly
  BY DEF IInv
<1>t. /\ connection \in Conns /\ obj \in [Conns -> ObjectStates]
      /\ pc \in [Watchers -> WatcherStates] /\ held \in [Watchers -> Conns \cup {None}]
  BY DEF IInv, TypeOK
<1>h. \A w \in Watchers : pc[w] = "install" => held[w] \in Conns /\ held[w] # connection
  BY <1>1 DEF ReplacesTheDead
<1> USE <1>1, <1>t, <1>h DEF managerVars, loopVars
<1>f. ASSUME UNCHANGED <<connection, closed, closing, obj, held>>,
             \A w \in Watchers : pc'[w] = "install" => pc[w] = "install"
      PROVE  ClosedByCloseOnly'
  BY <1>f DEF ClosedByCloseOnly
<1>2. ASSUME NEW c \in Conns, Lose(c) \/ Restore(c) \/ Exhaust(c) PROVE ClosedByCloseOnly'
  <2>1. /\ UNCHANGED <<connection, closed, closing, pc, held>>
        /\ obj' \in {[obj EXCEPT ![c] = "open"], [obj EXCEPT ![c] = "reconnecting"],
                     [obj EXCEPT ![c] = "dead"]}
    BY <1>2 DEF Lose, Restore, Exhaust
  <2> QED BY <2>1 DEF ClosedByCloseOnly
<1>3. ASSUME NEW b \in Borrowers, Borrow(b) \/ GiveBack(b) PROVE ClosedByCloseOnly'
  BY <1>f, <1>3 DEF Borrow, GiveBack
<1>4. CASE NotifyBlockedSafe \/ UNCHANGED vars
  BY <1>f, <1>4 DEF NotifyBlockedSafe, vars
<1>5. CASE CloseBegin \/ CloseEnd
  BY <1>5 DEF CloseBegin, CloseEnd, ClosingIsClosed, ClosedObj, ClosedByCloseOnly
<1>6. ASSUME NEW w \in Watchers,
             \/ Register(w) \/ SeeGraceful(w) \/ SeeDead(w) \/ StopWaiting(w) \/ TimerFires(w)
             \/ DialFails(w) \/ Refuse(w) \/ DispatchDone(w)
      PROVE  ClosedByCloseOnly'
  <2>1. UNCHANGED <<connection, closed, closing, obj, held>>
    BY <1>6 DEF Register, SeeGraceful, SeeDead, StopWaiting, TimerFires, DialFails, Refuse,
                DispatchDone
  <2>2. \E place \in WatcherStates \ {"install"} : pc' = [pc EXCEPT ![w] = place]
    BY <1>6 DEF Register, SeeGraceful, SeeDead, StopWaiting, TimerFires, DialFails, Refuse,
                DispatchDone, BackOff, WatcherStates
  <2>3. \A v \in Watchers : pc'[v] = "install" => pc[v] = "install"
    BY <2>2
  <2> QED BY <1>f, <2>1, <2>3
<1>7. ASSUME NEW w \in Watchers, NEW c \in Conns, DialSucceeds(w, c) PROVE ClosedByCloseOnly'
  BY <1>7 DEF DialSucceeds, ClosedByCloseOnly
<1>8. ASSUME NEW w \in Watchers, Install(w) PROVE ClosedByCloseOnly'
  BY <1>8 DEF Install, ClosedByCloseOnly
<1>9. ASSUME NEW w \in Watchers, Discard(w) PROVE ClosedByCloseOnly'
  <2>1. \A v \in Watchers : v # w => pc[v] # "install"
    <3>1. reconnectionCount \in Nat /\ Watchers \subseteq Nat
      BY MaxConnsAssumption DEF IInv, TypeOK, Watchers
    <3> QED BY <1>9, <3>1 DEF Discard, OneLoop
  <2>2. held[w] # connection
    BY <1>9 DEF Discard, ReplacesTheDead
  <2> QED BY <1>9, <2>1, <2>2 DEF Discard, ClosedObj, ClosedByCloseOnly
<1>10. ASSUME NEW w \in Watchers, CloseOld(w) PROVE ClosedByCloseOnly'
  <2>1. obj' = obj
    BY <1>10 DEF CloseOld, ClosedObj, Live, ReplacesTheDead
  <2> QED BY <1>10, <2>1 DEF CloseOld, ClosedByCloseOnly
<1>11. ASSUME NEW w \in Watchers, Count(w) PROVE ClosedByCloseOnly'
  <2>1. \A v \in Watchers : pc'[v] = "install" => pc[v] = "install"
    BY <1>11 DEF Count
  <2> QED BY <1>f, <1>11, <2>1 DEF Count
<1> QED
  BY <1>2, <1>3, <1>4, <1>5, <1>6, <1>7, <1>8, <1>9, <1>10, <1>11
  DEF Next, LibraryStep, UserStep, WatcherStep, LoopStep

\* The pointer and the universal receiver move in one critical section.
LEMMA NextBlockedHeard ==
    BlockedHeardOnCurrent /\ [Next]_vars => BlockedHeardOnCurrent'
<1> SUFFICES ASSUME BlockedHeardOnCurrent, [Next]_vars
             PROVE BlockedHeardOnCurrent'
  OBVIOUS
<1> USE DEF managerVars, blockVars, loopVars, WriteLockFree, BlockedHeardOnCurrent
<1>1. ASSUME NEW c \in Conns, Lose(c) PROVE BlockedHeardOnCurrent'
  BY <1>1 DEF Lose
<1>2. ASSUME NEW c \in Conns, Restore(c) PROVE BlockedHeardOnCurrent'
  BY <1>2 DEF Restore
<1>3. ASSUME NEW c \in Conns, Exhaust(c) PROVE BlockedHeardOnCurrent'
  BY <1>3 DEF Exhaust
<1>4. ASSUME NEW b \in Borrowers, Borrow(b) PROVE BlockedHeardOnCurrent'
  BY <1>4 DEF Borrow
<1>5. ASSUME NEW b \in Borrowers, GiveBack(b) PROVE BlockedHeardOnCurrent'
  BY <1>5 DEF GiveBack
<1>6. CASE NotifyBlockedSafe
  BY <1>6 DEF NotifyBlockedSafe
<1>7. CASE CloseBegin
  BY <1>7 DEF CloseBegin
<1>8. CASE CloseEnd
  BY <1>8 DEF CloseEnd, ClosedObj
<1>9. ASSUME NEW w \in Watchers, Register(w) PROVE BlockedHeardOnCurrent'
  BY <1>9 DEF Register
<1>10. ASSUME NEW w \in Watchers, SeeGraceful(w) PROVE BlockedHeardOnCurrent'
  BY <1>10 DEF SeeGraceful
<1>11. ASSUME NEW w \in Watchers, SeeDead(w) PROVE BlockedHeardOnCurrent'
  BY <1>11 DEF SeeDead, BackOff
<1>12. ASSUME NEW w \in Watchers, StopWaiting(w) PROVE BlockedHeardOnCurrent'
  BY <1>12 DEF StopWaiting, LeaveLoop
<1>13. ASSUME NEW w \in Watchers, TimerFires(w) PROVE BlockedHeardOnCurrent'
  BY <1>13 DEF TimerFires
<1>14. ASSUME NEW w \in Watchers, DialFails(w) PROVE BlockedHeardOnCurrent'
  BY <1>14 DEF DialFails, BackOff
<1>15. ASSUME NEW w \in Watchers, NEW c \in Conns, DialSucceeds(w, c) PROVE BlockedHeardOnCurrent'
  BY <1>15 DEF DialSucceeds, LeaveLoop
<1>16. ASSUME NEW w \in Watchers, Install(w) PROVE BlockedHeardOnCurrent'
  BY <1>16 DEF Install
<1>17. ASSUME NEW w \in Watchers, Refuse(w) PROVE BlockedHeardOnCurrent'
  BY <1>17 DEF Refuse
<1>18. ASSUME NEW w \in Watchers, Discard(w) PROVE BlockedHeardOnCurrent'
  BY <1>18 DEF Discard, ClosedObj
<1>19. ASSUME NEW w \in Watchers, CloseOld(w) PROVE BlockedHeardOnCurrent'
  BY <1>19 DEF CloseOld, ClosedObj
<1>20. ASSUME NEW w \in Watchers, Count(w) PROVE BlockedHeardOnCurrent'
  BY <1>20 DEF Count
<1>21. ASSUME NEW w \in Watchers, DispatchDone(w) PROVE BlockedHeardOnCurrent'
  BY <1>21 DEF DispatchDone
<1>22. CASE UNCHANGED vars
  BY <1>22 DEF vars
<1> HIDE DEF TypeOK, ClosingIsClosed, OneLoop, ReplacesTheDead,
             NoOrphanConnection, BorrowedIsCurrent, BlockedHeardOnCurrent,
             DelayDrawn
<1> QED
  BY <1>1, <1>2, <1>3, <1>4, <1>5, <1>6, <1>7, <1>8, <1>9, <1>10, <1>11,
     <1>12, <1>13, <1>14, <1>15, <1>16, <1>17, <1>18, <1>19, <1>20,
     <1>21, <1>22
  DEF Next, LibraryStep, UserStep, WatcherStep, LoopStep

\* Only the head of the loop sets the delay, and it draws it from Delay.
LEMMA NextDelayDrawn ==
    TypeOK /\ DelayDrawn /\ [Next]_vars => DelayDrawn'
<1> SUFFICES ASSUME TypeOK, DelayDrawn, [Next]_vars
             PROVE DelayDrawn'
  OBVIOUS
<1> USE DEF managerVars, blockVars, loopVars, WriteLockFree, DelayDrawn,
        TypeOK, WatcherStates
<1>1. ASSUME NEW c \in Conns, Lose(c) PROVE DelayDrawn'
  BY <1>1 DEF Lose
<1>2. ASSUME NEW c \in Conns, Restore(c) PROVE DelayDrawn'
  BY <1>2 DEF Restore
<1>3. ASSUME NEW c \in Conns, Exhaust(c) PROVE DelayDrawn'
  BY <1>3 DEF Exhaust
<1>4. ASSUME NEW b \in Borrowers, Borrow(b) PROVE DelayDrawn'
  BY <1>4 DEF Borrow
<1>5. ASSUME NEW b \in Borrowers, GiveBack(b) PROVE DelayDrawn'
  BY <1>5 DEF GiveBack
<1>6. CASE NotifyBlockedSafe
  BY <1>6 DEF NotifyBlockedSafe
<1>7. CASE CloseBegin
  BY <1>7 DEF CloseBegin
<1>8. CASE CloseEnd
  BY <1>8 DEF CloseEnd, ClosedObj
<1>9. ASSUME NEW w \in Watchers, Register(w) PROVE DelayDrawn'
  BY <1>9 DEF Register
<1>10. ASSUME NEW w \in Watchers, SeeGraceful(w) PROVE DelayDrawn'
  BY <1>10 DEF SeeGraceful
<1>11. ASSUME NEW w \in Watchers, SeeDead(w) PROVE DelayDrawn'
  BY <1>11 DEF SeeDead, BackOff
<1>12. ASSUME NEW w \in Watchers, StopWaiting(w) PROVE DelayDrawn'
  BY <1>12 DEF StopWaiting, LeaveLoop
<1>13. ASSUME NEW w \in Watchers, TimerFires(w) PROVE DelayDrawn'
  BY <1>13 DEF TimerFires
<1>14. ASSUME NEW w \in Watchers, DialFails(w) PROVE DelayDrawn'
  BY <1>14 DEF DialFails, BackOff
<1>15. ASSUME NEW w \in Watchers, NEW c \in Conns, DialSucceeds(w, c) PROVE DelayDrawn'
  BY <1>15 DEF DialSucceeds, LeaveLoop
<1>16. ASSUME NEW w \in Watchers, Install(w) PROVE DelayDrawn'
  BY <1>16 DEF Install
<1>17. ASSUME NEW w \in Watchers, Refuse(w) PROVE DelayDrawn'
  BY <1>17 DEF Refuse
<1>18. ASSUME NEW w \in Watchers, Discard(w) PROVE DelayDrawn'
  BY <1>18 DEF Discard, ClosedObj
<1>19. ASSUME NEW w \in Watchers, CloseOld(w) PROVE DelayDrawn'
  BY <1>19 DEF CloseOld, ClosedObj
<1>20. ASSUME NEW w \in Watchers, Count(w) PROVE DelayDrawn'
  BY <1>20 DEF Count
<1>21. ASSUME NEW w \in Watchers, DispatchDone(w) PROVE DelayDrawn'
  BY <1>21 DEF DispatchDone
<1>22. CASE UNCHANGED vars
  BY <1>22 DEF vars
<1> HIDE DEF TypeOK, ClosingIsClosed, OneLoop, ReplacesTheDead,
             NoOrphanConnection, BorrowedIsCurrent, BlockedHeardOnCurrent,
             DelayDrawn
<1> QED
  BY <1>1, <1>2, <1>3, <1>4, <1>5, <1>6, <1>7, <1>8, <1>9, <1>10, <1>11,
     <1>12, <1>13, <1>14, <1>15, <1>16, <1>17, <1>18, <1>19, <1>20,
     <1>21, <1>22
  DEF Next, LibraryStep, UserStep, WatcherStep, LoopStep


LEMMA NextIInv == ASSUME IInv, [Next]_vars PROVE IInv'
  BY NextTypeOK, NextClosing, NextOneLoop, NextReplacesTheDead, NextNoOrphan,
     NextBorrowed, NextClosedByCloseOnly DEF IInv

\* The invariant holds in every reachable state.
THEOREM ManagerInvariant == Spec => []IInv
<1>1. IInv /\ [Next]_vars => IInv'
  BY NextIInv
<1> QED
  BY InitIInv, <1>1, PTL DEF Spec

\* However Close and reconnect interleave, no live connection object is left
\* without an owner that will close it.
THEOREM OrphanSafety == Spec => []NoOrphanConnection
<1>1. IInv => NoOrphanConnection
  BY DEF IInv
<1> QED
  BY ManagerInvariant, <1>1, PTL

\* The universal receiver of blocked notifications is registered on the current
\* connection from the first publisher on, through every reconnect.
THEOREM BlockedHeard == Spec => []BlockedHeardOnCurrent
<1>1. Init => BlockedHeardOnCurrent
  BY DEF Init, BlockedHeardOnCurrent
<1> QED
  BY <1>1, NextBlockedHeard, PTL DEF Spec

\* Every wait of every reconnect loop lies in the promised band, for every
\* interval that leaves room for the shift.
THEOREM BackoffBand == Spec => []BackoffInBand
<1>1. Init => DelayDrawn
  BY DEF Init, DelayDrawn
<1>2. TypeOK /\ DelayDrawn => BackoffInBand
  <2> SUFFICES ASSUME TypeOK, DelayDrawn, NEW w \in Watchers,
                      pc[w] = "wait", Interval > 0, 16 * Interval < Limit
               PROVE  /\ 4 * delay[w] >= 3 * Interval * Pow2[Capped(attempt[w])]
                      /\ delay[w] <= Interval * Pow2[Capped(attempt[w])]
    BY DEF BackoffInBand
  <2>1. Interval \in Nat
    BY IntervalAssumption, LimitAssumption DEF Durations
  <2>2. attempt[w] \in Nat
    BY MaxFailuresAssumption DEF TypeOK
  <2>3. delay[w] \in Delays(Interval, attempt[w])
    BY DEF DelayDrawn
  <2> QED BY <2>1, <2>2, <2>3, DelayBand
<1>3. IInv => TypeOK
  BY DEF IInv
<1> QED
  BY <1>1, <1>2, <1>3, ManagerInvariant, NextDelayDrawn, PTL DEF Spec

\* A failure of the loop of a watcher is one of its dials, after a wait of a length
\* that Delay returned.
LEMMA FailureIsOfDial ==
    ASSUME TypeOK, [Next]_vars, NEW w \in Watchers, attempt'[w] = attempt[w] + 1
    PROVE  DialFails(w)
<1>1. attempt[w] \in Nat /\ attempt[w] # attempt[w] + 1 /\ attempt[w] + 1 # 0
  BY MaxFailuresAssumption DEF TypeOK
<1>2. attempt' # attempt /\ attempt'[w] # 0
  BY <1>1
<1> USE DEF TypeOK, managerVars, blockVars, loopVars
<1>3. ~UNCHANGED vars /\ ~LibraryStep /\ ~UserStep
  BY <1>2 DEF vars, LibraryStep, UserStep, Lose, Restore, Exhaust, Borrow, GiveBack,
              NotifyBlockedSafe, CloseBegin, CloseEnd
<1>4. PICK v \in Watchers : WatcherStep(v)
  BY <1>3 DEF Next
<1>5. DialFails(v) \/ SeeDead(v) \/ StopWaiting(v) \/ \E c \in Conns : DialSucceeds(v, c)
  BY <1>2, <1>4 DEF WatcherStep, LoopStep, Register, SeeGraceful, TimerFires, Install, Refuse,
                    Discard, CloseOld, Count, DispatchDone
<1>6. attempt'[v] # attempt[v] => v = w
  BY <1>2, <1>5 DEF DialFails, SeeDead, StopWaiting, DialSucceeds, BackOff, LeaveLoop
<1>7. v = w
  BY <1>2, <1>5 DEF DialFails, SeeDead, StopWaiting, DialSucceeds, BackOff, LeaveLoop
<1>8. ~SeeDead(w) /\ ~StopWaiting(w) /\ ~\E c \in Conns : DialSucceeds(w, c)
  BY <1>2 DEF SeeDead, StopWaiting, DialSucceeds, BackOff, LeaveLoop
<1> QED BY <1>5, <1>7, <1>8

\* Every failed dial makes the next wait strictly longer until the cap, whatever the
\* jitter drawn for either.
THEOREM FailuresWaitLonger == Spec => FailureWaitsLonger
<1>1. Init => DelayDrawn
  BY DEF Init, DelayDrawn
<1>2. ASSUME TypeOK, DelayDrawn, [Next]_vars, NEW w \in Watchers,
             attempt'[w] = attempt[w] + 1, attempt[w] < maxAttempt,
             Interval > 0, 16 * Interval < Limit
      PROVE  delay'[w] > delay[w]
  <2>1. DialFails(w)
    BY <1>2, FailureIsOfDial
  <2>2. Interval \in Nat
    BY <1>2, IntervalAssumption, LimitAssumption DEF Durations
  <2>3. attempt[w] \in Nat
    BY <1>2, MaxFailuresAssumption DEF TypeOK
  <2>4. delay[w] \in Delays(Interval, attempt[w])
    BY <1>2, <2>1 DEF DialFails, DelayDrawn
  <2>5. delay'[w] \in Delays(Interval, attempt[w] + 1)
    BY <1>2, <2>1 DEF DialFails, BackOff, TypeOK
  <2>6. delay[w] < delay'[w]
    BY <1>2, <2>2, <2>3, <2>4, <2>5, DelayGrows
  <2>7. delay[w] \in Int /\ delay'[w] \in Int
    BY <2>2, <2>3, <2>4, <2>5, DelayType, LimitAssumption DEF Durations
  <2> QED BY <2>6, <2>7
<1>3. IInv => TypeOK
  BY DEF IInv
<1>4. TypeOK /\ DelayDrawn /\ [Next]_vars =>
        [\A w \in Watchers :
           attempt'[w] = attempt[w] + 1 /\ attempt[w] < maxAttempt
             /\ Interval > 0 /\ 16 * Interval < Limit
              => delay'[w] > delay[w]]_vars
  BY <1>2
<1> QED
  BY <1>1, <1>3, <1>4, ManagerInvariant, NextDelayDrawn, PTL DEF Spec, FailureWaitsLonger

============================================================================
