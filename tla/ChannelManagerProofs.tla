------------------------ MODULE ChannelManagerProofs ------------------------
(***************************************************************************)
(* The channel manager for any number of channel objects and users, on any *)
(* connection: no channel left open that nobody can close, no gap in the   *)
(* confirm mode, and a reconnect count that names the channel.             *)
(*                                                                         *)
(* Then, that it implements what its users are promised: every step is a   *)
(* step of ManagedChannel or none at all.  Channels become current in the  *)
(* order in which they were opened, so that the channels of two            *)
(* generations are never the same object.                                  *)
(*                                                                         *)
(* Each part of the invariant depends on a few of the variables.  A frame  *)
(* lemma says which actions can disturb it; the rest of Next then need not *)
(* be looked at again.                                                     *)
(***************************************************************************)
EXTENDS ChannelRefinement, TLAPS

\* The watchers that have a channel of their own in hand.
Holding == {"install", "confirm", "reject", "discard", "closeOld"}

\* What is known of the pairs that were observed, enough to be inductive: a channel
\* that waits to be installed was never seen, because it was opened since.
ObservedPast ==
    /\ GenerationNamesChannel
    /\ \A p \in observed :
         /\ p[1] <= reconnectionCount
         /\ p[1] = reconnectionCount <=> p[2] = channel
         /\ obj[p[2]] # "unopened"
         /\ \A w \in Watchers : pc[w] \in {"install", "confirm"} => held[w] # p[2]

----------------------------------------------------------------------------
(* The frames *)

USE DEF Next, vars, BrokerStep, ConnStep, UserStep, WatcherStep, LocalStep, OpenStep,
        CheckStep, SubscriptionStep, ChannelDies, BrokerCancels, ConnWavers, ConnDies,
        ConnReplaced, ConnCloses, ConnOffers, OfferExpires, Borrow, GiveBack,
        ConfirmBegin, ConfirmEnd, CloseBegin, CloseEnd, Register, SeeGraceful, SeeDead,
        SeeCancel, DrainStateChanges, Subscribe, StopWaiting, ConnReconnected,
        TimerFires, OpenSucceeds, OpenFails, Swap, Install, BeginRearm, Rearmed,
        RearmFails, CloseHeld, CloseRejected, Refuse, Discard, CloseOld, GiveUp, Retry,
        Spawn, Unsubscribe, DispatchDone, Goto, lockVars, chanVars, objVars, listenVars,
        connSideVars, connVars

LEMMA ClosingFrame ==
    [Next]_vars => \/ UNCHANGED <<closing, closed>>
                   \/ CloseBegin \/ CloseEnd
OBVIOUS

LEMMA ConfirmFrame ==
    [Next]_vars => \/ UNCHANGED <<confirmMode, channel, confirmed>>
                   \/ ConfirmEnd
                   \/ \E w \in Watchers : Install(w) \/ Rearmed(w)
OBVIOUS

LEMMA LockFrame ==
    ASSUME TypeOK, [Next]_vars
    PROVE  \/ /\ UNCHANGED <<channel, borrowed, closing, confirming, closed>>
              /\ \A w \in Watchers : pc'[w] = "confirm" => pc[w] = "confirm"
           \/ ConfirmBegin \/ ConfirmEnd \/ CloseBegin \/ CloseEnd
           \/ \E u \in Users : Borrow(u) \/ GiveBack(u)
           \/ \E w \in Watchers : Install(w) \/ BeginRearm(w) \/ Rearmed(w)
BY DEF TypeOK

\* The successor of a watcher is not born before the watcher spawns it.
LEMMA SpawnFresh ==
    ASSUME TypeOK, OneLoop, NEW w \in Watchers, Spawn(w)
    PROVE  w + 1 \in Watchers /\ pc[w + 1] = "unborn" /\ w = reconnectionCount
<1>1. w \in Nat /\ w + 1 \in Watchers /\ reconnectionCount \in Nat
  BY MaxChansAssumption DEF TypeOK, Watchers
<1>2. w = reconnectionCount
  BY <1>1 DEF OneLoop
<1> QED BY <1>1, <1>2 DEF OneLoop

LEMMA HoldingFrame ==
    ASSUME TypeOK, OneLoop, [Next]_vars
    PROVE  \/ /\ UNCHANGED <<obj, channel, held, closed, closing>>
              /\ \A w \in Watchers : pc'[w] \in Holding <=> pc[w] \in Holding
           \/ ChannelDies \/ ConnDies \/ ConnCloses \/ CloseBegin \/ CloseEnd
           \/ \E w \in Watchers, c \in Chans : OpenSucceeds(w, c)
           \/ \E w \in Watchers : \/ Install(w) \/ Rearmed(w)
                                  \/ CloseRejected(w) \/ Discard(w) \/ CloseOld(w)
<1>1. ASSUME NEW w \in Watchers, Spawn(w)
      PROVE  /\ UNCHANGED <<obj, channel, held, closed, closing>>
             /\ \A v \in Watchers : pc'[v] \in Holding <=> pc[v] \in Holding
  <2>1. w + 1 \in Watchers /\ pc[w + 1] = "unborn" /\ pc[w] = "spawn"
    BY <1>1, SpawnFresh
  <2>2. pc' = [pc EXCEPT ![w] = "unsubscribe", ![w + 1] = "register"]
    BY <1>1
  <2>3. \A v \in Watchers : \/ pc'[v] = pc[v]
                            \/ pc[v] \notin Holding /\ pc'[v] \notin Holding
    BY <2>1, <2>2 DEF TypeOK, Holding
  <2> QED BY <1>1, <2>3
<1>2. CASE ~ \E w \in Watchers : Spawn(w)
  BY <1>2 DEF TypeOK, Holding
<1> QED BY <1>1, <1>2

\* The count is read off the newest watcher when it is about to swap.
LEMMA SwapCounts ==
    ASSUME TypeOK, OneLoop, NEW w \in Watchers, pc[w] \in {"install", "confirm"}
    PROVE  w = reconnectionCount + 1 /\ reconnectionCount + 1 \in 0..MaxChans
<1>1. w \in 1..MaxChans /\ MaxChans \in Nat /\ reconnectionCount \in Nat
  BY MaxChansAssumption DEF TypeOK, Watchers
<1>2. ~(w < reconnectionCount) /\ w # reconnectionCount /\ ~(w > reconnectionCount + 1)
  BY DEF OneLoop
<1> QED BY <1>1, <1>2

\* Every step keeps the variables in their types.
LEMMA NextTypeOK ==
    ASSUME TypeOK, OneLoop, ReplacesTheCurrent, [Next]_vars
    PROVE  TypeOK'
<1>1. /\ closed' \in BOOLEAN /\ closing' \in BOOLEAN /\ confirming' \in BOOLEAN
      /\ confirmMode' \in BOOLEAN /\ connClosed' \in BOOLEAN
  <2>1. closed' = closed \/ closed' = TRUE
    OBVIOUS
  <2>2. closing' = closing \/ closing' = TRUE \/ closing' = FALSE
    OBVIOUS
  <2>3. confirming' = confirming \/ confirming' = TRUE \/ confirming' = FALSE
    OBVIOUS
  <2>4. confirmMode' = confirmMode \/ confirmMode' = TRUE
    OBVIOUS
  <2>5. connClosed' = connClosed \/ connClosed' = TRUE
    OBVIOUS
  <2>6. /\ closed \in BOOLEAN /\ closing \in BOOLEAN /\ confirming \in BOOLEAN
        /\ confirmMode \in BOOLEAN /\ connClosed \in BOOLEAN
    BY ONLY TypeOK, Zenon DEF TypeOK
  <2> QED BY ONLY <2>1, <2>2, <2>3, <2>4, <2>5, <2>6, Zenon
<1>2. channel' \in Chans
  BY DEF TypeOK, ReplacesTheCurrent
<1>3. reconnectionCount' \in 0..MaxChans
  BY SwapCounts DEF TypeOK
<1>5. borrowed' \in [Users -> Chans \cup {None}]
  BY DEF TypeOK
<1>6. observed' \subseteq (0..MaxChans) \X Chans
  BY DEF TypeOK
<1>7. obj' \in [Chans -> ObjectStates]
  BY DEF TypeOK, ObjectStates, ClosedObj, AllEnd
<1>8. confirmed' \subseteq Chans
  BY DEF TypeOK, ReplacesTheCurrent
<1>9. pc' \in [Watchers -> WatcherStates]
  BY DEF TypeOK, WatcherStates
<1>10. watched' \in [Watchers -> Chans \cup {None}]
  BY DEF TypeOK
<1>11. held' \in [Watchers -> Chans \cup {None}]
  BY DEF TypeOK
<1>12. /\ cancelled' \subseteq Watchers /\ draining' \subseteq Watchers
       /\ drained' \subseteq Watchers
  BY DEF TypeOK
<1>13. subs' \subseteq Watchers /\ offered' \subseteq subs'
  BY DEF TypeOK
<1>14. conn' \in ConnStates
  BY DEF TypeOK, ConnStates
<1> QED BY <1>1, <1>2, <1>3, <1>5, <1>6, <1>7, <1>8, <1>9, <1>10, <1>11, <1>12,
           <1>13, <1>14 DEF TypeOK

\* What a step that neither swaps nor spawns does to the stages of the watchers.
LEMMA QuietStages ==
    ASSUME TypeOK, [Next]_vars,
           ~ \E w \in Watchers : Install(w) \/ Rearmed(w) \/ Spawn(w)
    PROVE  /\ reconnectionCount' = reconnectionCount
           /\ \A v \in Watchers :
                /\ pc[v] \in {"unsubscribe", "dispatch", "done"} =>
                     pc'[v] \in {"unsubscribe", "dispatch", "done"}
                /\ pc'[v] \in {"closeOld", "spawn"} <=> pc[v] \in {"closeOld", "spawn"}
                /\ pc'[v] = "unborn" <=> pc[v] = "unborn"
BY DEF TypeOK

\* What a step that neither registers nor opens nor swaps leaves in place.
LEMMA QuietLoop ==
    ASSUME TypeOK, [Next]_vars,
           ~ \E w \in Watchers : \/ Register(w) \/ Install(w) \/ Rearmed(w)
                                \/ \E c \in Chans : OpenSucceeds(w, c)
    PROVE  /\ channel' = channel
           /\ \A c \in Chans : obj'[c] = "unopened" <=> obj[c] = "unopened"
           /\ \A v \in Watchers :
                /\ (pc'[v] = "watch" \/ InLoop(v)') =>
                     (pc[v] = "watch" \/ InLoop(v)) /\ watched'[v] = watched[v]
                /\ pc'[v] \in Holding => pc[v] \in Holding /\ held'[v] = held[v]
<1>1. channel' = channel
  OBVIOUS
<1>2. \A c \in Chans : obj'[c] = "unopened" <=> obj[c] = "unopened"
  BY DEF TypeOK, ClosedObj, AllEnd
<1>3. ASSUME NEW v \in Watchers
      PROVE  (pc'[v] = "watch" \/ InLoop(v)') =>
                 (pc[v] = "watch" \/ InLoop(v)) /\ watched'[v] = watched[v]
  BY DEF TypeOK, InLoop
<1>4. ASSUME NEW v \in Watchers
      PROVE  pc'[v] \in Holding => pc[v] \in Holding /\ held'[v] = held[v]
  BY DEF TypeOK, Holding
<1> QED BY <1>1, <1>2, <1>3, <1>4

\* What a step that neither observes nor opens nor swaps leaves in place.
LEMMA QuietPast ==
    ASSUME TypeOK, [Next]_vars,
           ~ \E u \in Users : Borrow(u),
           ~ \E w \in Watchers : \/ Install(w) \/ Rearmed(w)
                                \/ \E c \in Chans : OpenSucceeds(w, c)
    PROVE  /\ UNCHANGED <<observed, reconnectionCount, channel>>
           /\ \A c \in Chans : obj'[c] = "unopened" <=> obj[c] = "unopened"
           /\ \A w \in Watchers : pc'[w] \in {"install", "confirm"} =>
                pc[w] \in {"install", "confirm"} /\ held'[w] = held[w]
<1>1. UNCHANGED <<observed, reconnectionCount, channel>>
  OBVIOUS
<1>2. \A c \in Chans : obj'[c] = "unopened" <=> obj[c] = "unopened"
  BY DEF TypeOK, ClosedObj, AllEnd
<1>3. ASSUME NEW w \in Watchers, pc'[w] \in {"install", "confirm"}
      PROVE  pc[w] \in {"install", "confirm"} /\ held'[w] = held[w]
  BY <1>3 DEF TypeOK
<1> QED BY <1>1, <1>2, <1>3

HIDE DEF Next, vars, BrokerStep, ConnStep, UserStep, WatcherStep, LocalStep, OpenStep,
        CheckStep, SubscriptionStep, ChannelDies, BrokerCancels, ConnWavers, ConnDies,
        ConnReplaced, ConnCloses, ConnOffers, OfferExpires, Borrow, GiveBack,
        ConfirmBegin, ConfirmEnd, CloseBegin, CloseEnd, Register, SeeGraceful, SeeDead,
        SeeCancel, DrainStateChanges, Subscribe, StopWaiting, ConnReconnected,
        TimerFires, OpenSucceeds, OpenFails, Swap, Install, BeginRearm, Rearmed,
        RearmFails, CloseHeld, CloseRejected, Refuse, Discard, CloseOld, GiveUp, Retry,
        Spawn, Unsubscribe, DispatchDone, Goto, lockVars, chanVars, objVars, listenVars,
        connSideVars, connVars


\* A watcher swaps, then spawns its successor, then leaves: one loop at a time.
LEMMA NextOneLoop ==
    ASSUME TypeOK, OneLoop, [Next]_vars
    PROVE  OneLoop'
<1>0. reconnectionCount \in Nat /\ \A w \in Watchers : w \in Nat
  BY DEF TypeOK, Watchers
<1>1. ASSUME NEW w \in Watchers, Install(w) \/ Rearmed(w) PROVE OneLoop'
  <2>1. w = reconnectionCount + 1 /\ reconnectionCount' = reconnectionCount + 1
    BY <1>1, SwapCounts DEF Install, Rearmed, Swap
  <2>2. pc' = [pc EXCEPT ![w] = "closeOld"]
    BY <1>1 DEF Install, Rearmed, Swap
  <2>3. pc[w] \in {"install", "confirm"}
    BY <1>1 DEF Install, Rearmed
  <2> QED BY <1>0, <2>1, <2>2, <2>3 DEF OneLoop, TypeOK, Watchers
<1>2. ASSUME NEW w \in Watchers, Spawn(w) PROVE OneLoop'
  <2>1. w + 1 \in Watchers /\ pc[w + 1] = "unborn" /\ w = reconnectionCount
    BY <1>2, SpawnFresh
  <2>2. /\ pc' = [pc EXCEPT ![w] = "unsubscribe", ![w + 1] = "register"]
        /\ reconnectionCount' = reconnectionCount
    BY <1>2 DEF Spawn, chanVars
  <2> QED BY <1>0, <2>1, <2>2 DEF OneLoop, TypeOK, Watchers
<1>3. CASE ~ \E w \in Watchers : Install(w) \/ Rearmed(w) \/ Spawn(w)
  BY <1>0, <1>3, QuietStages DEF OneLoop, Watchers
<1> QED BY <1>1, <1>2, <1>3

\* Around the newest watcher there is nobody with a channel in hand.
LEMMA AloneAtSwap ==
    ASSUME TypeOK, OneLoop, NEW w \in Watchers, pc[w] \in {"install", "confirm"},
           NEW v \in Watchers, v # w
    PROVE  pc[v] # "watch" /\ ~InLoop(v) /\ pc[v] \notin Holding
<1>1. w = reconnectionCount + 1 /\ reconnectionCount \in Nat /\ v \in Nat
  BY SwapCounts DEF TypeOK, Watchers
<1>2. CASE v < reconnectionCount
  BY <1>2 DEF OneLoop, InLoop, Holding
<1>3. CASE v = reconnectionCount
  <2>1. pc[v] \notin {"closeOld", "spawn"}
    BY <1>1, <1>3 DEF OneLoop
  <2> QED BY <1>3, <2>1 DEF OneLoop, InLoop, Holding
<1>4. CASE v > reconnectionCount + 1
  BY <1>4 DEF OneLoop, InLoop, Holding
<1> QED BY <1>1, <1>2, <1>3, <1>4

\* Nobody else swaps the channel a loop is about to replace.
LEMMA NextReplacesTheCurrent ==
    ASSUME TypeOK, OneLoop, ReplacesTheCurrent, [Next]_vars
    PROVE  ReplacesTheCurrent'
<1>1. ASSUME NEW w \in Watchers, Register(w) PROVE ReplacesTheCurrent'
  BY <1>1 DEF Register, ReplacesTheCurrent, InLoop, TypeOK, chanVars, objVars
<1>2. ASSUME NEW w \in Watchers, NEW c \in Chans, OpenSucceeds(w, c)
      PROVE  ReplacesTheCurrent'
  BY <1>2 DEF OpenSucceeds, ReplacesTheCurrent, InLoop, TypeOK, chanVars, listenVars
<1>3. ASSUME NEW w \in Watchers, Install(w) \/ Rearmed(w) PROVE ReplacesTheCurrent'
  <2>1. /\ pc[w] \in {"install", "confirm"} /\ pc' = [pc EXCEPT ![w] = "closeOld"]
        /\ channel' = held[w] /\ held' = [held EXCEPT ![w] = channel] /\ obj' = obj
    BY <1>3 DEF Install, Rearmed, Swap, objVars
  <2>2. \A v \in Watchers : v # w =>
          pc[v] # "watch" /\ ~InLoop(v) /\ pc[v] \notin Holding
    BY <2>1, AloneAtSwap
  <2> QED BY <2>1, <2>2 DEF ReplacesTheCurrent, InLoop, Holding, TypeOK
<1>4. CASE ~ \E w \in Watchers : \/ Register(w) \/ Install(w) \/ Rearmed(w)
                                \/ \E c \in Chans : OpenSucceeds(w, c)
  BY <1>4, QuietLoop DEF ReplacesTheCurrent, Holding, InLoop, TypeOK
<1> QED BY <1>1, <1>2, <1>3, <1>4

\* Only a closed manager is being closed.
LEMMA NextClosing ==
    ASSUME ClosingIsClosed, [Next]_vars PROVE ClosingIsClosed'
BY ClosingFrame DEF ClosingIsClosed, CloseBegin, CloseEnd

\* Close and reconnect never lose sight of an open channel.
LEMMA NextNoOrphan ==
    ASSUME TypeOK, ClosingIsClosed, OneLoop, ReplacesTheCurrent, RearmIsExclusive,
           NoOrphanChannel, [Next]_vars
    PROVE  NoOrphanChannel'
<1> USE DEF NoOrphanChannel
<1>1. CASE /\ UNCHANGED <<obj, channel, held, closed, closing>>
           /\ \A w \in Watchers : pc'[w] \in Holding <=> pc[w] \in Holding
  BY <1>1 DEF Holding
<1>2. CASE ChannelDies \/ ConnDies \/ ConnCloses
  <2>1. /\ UNCHANGED <<channel, held, closed, closing, pc>>
        /\ \A c \in Chans : obj'[c] = "open" => obj[c] = "open"
    BY <1>2 DEF ChannelDies, ConnDies, ConnCloses, AllEnd, TypeOK, lockVars, chanVars
  <2> QED BY <2>1
<1>3. CASE CloseBegin
  BY <1>3 DEF CloseBegin, chanVars, objVars
<1>4. CASE CloseEnd
  BY <1>4 DEF CloseEnd, ClosedObj, TypeOK, chanVars
<1>5. ASSUME NEW w \in Watchers, NEW c \in Chans, OpenSucceeds(w, c)
      PROVE  NoOrphanChannel'
  <2>1. /\ UNCHANGED <<channel, closed, closing>>
        /\ obj' = [obj EXCEPT ![c] = "open"] /\ held' = [held EXCEPT ![w] = c]
        /\ pc[w] = "open" /\ pc' = [pc EXCEPT ![w] = "install"]
    BY <1>5 DEF OpenSucceeds, lockVars, chanVars
  <2> QED BY <2>1 DEF TypeOK
<1>6. ASSUME NEW w \in Watchers, Install(w) \/ Rearmed(w) PROVE NoOrphanChannel'
  <2>1. /\ UNCHANGED <<obj, closed, closing>> /\ ~closed
        /\ pc[w] \in {"install", "confirm"} /\ pc' = [pc EXCEPT ![w] = "closeOld"]
        /\ channel' = held[w] /\ held' = [held EXCEPT ![w] = channel]
    BY <1>6 DEF Install, Rearmed, Swap, RearmIsExclusive, lockVars, objVars
  <2> QED BY <2>1 DEF TypeOK
<1>7. ASSUME NEW w \in Watchers, CloseRejected(w) \/ Discard(w) \/ CloseOld(w)
      PROVE  NoOrphanChannel'
  <2>1. /\ UNCHANGED <<channel, closed, closing>> /\ obj' = ClosedObj(held[w])
        /\ held' = [held EXCEPT ![w] = None]
        /\ \A v \in Watchers : v # w => pc'[v] = pc[v]
    BY <1>7 DEF CloseRejected, Discard, CloseOld, CloseHeld, TypeOK, lockVars, chanVars
  <2>2. held[w] \in Chans
    BY <1>7 DEF CloseRejected, Discard, CloseOld, ReplacesTheCurrent
  <2>3. \A c \in Chans : obj'[c] = "open" => obj[c] = "open" /\ c # held[w]
    BY <2>1, <2>2 DEF ClosedObj, TypeOK
  <2> QED BY <2>1, <2>3 DEF TypeOK
<1> QED BY <1>1, <1>2, <1>3, <1>4, <1>5, <1>6, <1>7, HoldingFrame

\* The mode is turned on, and kept, under the write lock.
LEMMA NextConfirmMode ==
    ASSUME ConfirmModeKept, [Next]_vars PROVE ConfirmModeKept'
<1>1. CASE ConfirmEnd
  BY <1>1 DEF ConfirmEnd, ConfirmModeKept
<1>2. ASSUME NEW w \in Watchers, Install(w) \/ Rearmed(w) PROVE ConfirmModeKept'
  BY <1>2 DEF Install, Rearmed, Swap, ConfirmModeKept, objVars
<1>3. CASE UNCHANGED <<confirmMode, channel, confirmed>>
  BY <1>3 DEF ConfirmModeKept
<1> QED BY <1>1, <1>2, <1>3, ConfirmFrame

\* The read lock keeps the channel in place, and the write lock keeps readers out.
LEMMA NextLocks ==
    ASSUME TypeOK, BorrowedIsCurrent, RearmIsExclusive, [Next]_vars
    PROVE  BorrowedIsCurrent' /\ RearmIsExclusive'
<1> USE DEF BorrowedIsCurrent, RearmIsExclusive, NoReader, NoWriter, WriteLockFree, TypeOK
<1>1. CASE ConfirmBegin
  BY <1>1 DEF ConfirmBegin, chanVars
<1>2. CASE ConfirmEnd
  BY <1>2 DEF ConfirmEnd
<1>3. CASE CloseBegin
  BY <1>3 DEF CloseBegin, chanVars
<1>4. CASE CloseEnd
  BY <1>4 DEF CloseEnd, chanVars
<1>5. ASSUME NEW u \in Users, Borrow(u) \/ GiveBack(u)
      PROVE  BorrowedIsCurrent' /\ RearmIsExclusive'
  BY <1>5 DEF Borrow, GiveBack, chanVars, None, Chans
<1>6. ASSUME NEW w \in Watchers, Install(w) \/ BeginRearm(w) \/ Rearmed(w)
      PROVE  BorrowedIsCurrent' /\ RearmIsExclusive'
  BY <1>6 DEF Install, BeginRearm, Rearmed, Swap, Goto, lockVars, chanVars
<1> HIDE DEF BorrowedIsCurrent, RearmIsExclusive, TypeOK
<1>7. CASE /\ UNCHANGED <<channel, borrowed, closing, confirming, closed>>
           /\ \A w \in Watchers : pc'[w] = "confirm" => pc[w] = "confirm"
  BY <1>7 DEF BorrowedIsCurrent, RearmIsExclusive
<1> QED BY <1>1, <1>2, <1>3, <1>4, <1>5, <1>6, <1>7, LockFrame

\* A channel is opened on a connection that is up, and ends with it.
LEMMA NextOnLiveConnection ==
    ASSUME TypeOK, OnLiveConnection, [Next]_vars PROVE OnLiveConnection'
<1> USE DEF OnLiveConnection, TypeOK
<1>1. CASE ChannelDies \/ ConnWavers \/ ConnDies \/ ConnReplaced \/ ConnCloses
  BY <1>1 DEF ChannelDies, ConnWavers, ConnDies, ConnReplaced, ConnCloses, AllEnd, connVars
<1>2. ASSUME NEW w \in Watchers, NEW c \in Chans, OpenSucceeds(w, c) PROVE OnLiveConnection'
  BY <1>2 DEF OpenSucceeds, connVars
<1>3. ASSUME NEW w \in Watchers, CloseRejected(w) \/ Discard(w) \/ CloseOld(w)
      PROVE  OnLiveConnection'
  BY <1>3 DEF CloseRejected, Discard, CloseOld, CloseHeld, ClosedObj, connVars
<1>4. CASE CloseEnd
  BY <1>4 DEF CloseEnd, ClosedObj, connVars
<1>5. CASE UNCHANGED <<obj, conn>>
  BY <1>5
<1>6. CASE \/ ConnOffers \/ ConfirmBegin \/ ConfirmEnd \/ CloseBegin
           \/ \E u \in Users : Borrow(u) \/ GiveBack(u)
  BY <1>5, <1>6 DEF ConnOffers, ConfirmBegin, ConfirmEnd, CloseBegin, Borrow, GiveBack,
                    objVars, connVars
<1>7. ASSUME NEW w \in Watchers,
             \/ BrokerCancels(w) \/ OfferExpires(w) \/ SubscriptionStep(w)
             \/ DrainStateChanges(w) \/ CheckStep(w) \/ OpenFails(w)
      PROVE  UNCHANGED <<obj, conn>>
  BY <1>7 DEF BrokerCancels, OfferExpires, SubscriptionStep, Subscribe, Unsubscribe,
              DrainStateChanges, CheckStep, GiveUp, Retry, OpenFails, Goto, objVars, connVars
<1>8. ASSUME NEW w \in Watchers, LocalStep(w),
             ~CloseRejected(w), ~Discard(w), ~CloseOld(w)
      PROVE  UNCHANGED <<obj, conn>>
  BY <1>8 DEF LocalStep, Register, SeeGraceful, SeeDead, SeeCancel, StopWaiting,
              ConnReconnected, TimerFires, Install, BeginRearm, Rearmed, RearmFails, Refuse,
              Spawn, DispatchDone, Goto, objVars, connVars
<1>9. CASE UNCHANGED vars
  BY <1>5, <1>9 DEF vars, objVars, connVars
<1> QED BY <1>1, <1>2, <1>3, <1>4, <1>5, <1>6, <1>7, <1>8, <1>9
        DEF Next, BrokerStep, ConnStep, UserStep, WatcherStep, OpenStep

\* New leaves the invariant established.
LEMMA InitIInv == Init => IInv
<1> SUFFICES ASSUME Init PROVE IInv
  OBVIOUS
<1> USE MaxChansAssumption DEF Init, Chans, Watchers, None
<1>1. TypeOK
  <2>1. /\ closed \in BOOLEAN /\ confirmMode \in BOOLEAN /\ closing \in BOOLEAN
        /\ confirming \in BOOLEAN /\ connClosed \in BOOLEAN
    BY Zenon
  <2> QED BY <2>1 DEF TypeOK, ObjectStates, WatcherStates, ConnStates
<1>2. /\ ClosingIsClosed /\ NoOrphanChannel /\ ConfirmModeKept
      /\ BorrowedIsCurrent /\ RearmIsExclusive /\ OnLiveConnection
  BY DEF ClosingIsClosed, NoOrphanChannel, ConfirmModeKept, BorrowedIsCurrent,
         RearmIsExclusive, OnLiveConnection
<1>3. OneLoop
  BY DEF OneLoop
<1>4. ReplacesTheCurrent
  BY DEF ReplacesTheCurrent, InLoop
<1> QED BY <1>1, <1>2, <1>3, <1>4 DEF IInv

\* The whole invariant is inductive.
LEMMA NextIInv == IInv /\ [Next]_vars => IInv'
<1> SUFFICES ASSUME IInv, [Next]_vars PROVE IInv'
  OBVIOUS
<1> QED BY NextTypeOK, NextClosing, NextOneLoop, NextReplacesTheCurrent, NextNoOrphan,
           NextConfirmMode, NextLocks, NextOnLiveConnection DEF IInv

\* The invariant holds in every reachable state, for any number of channel objects
\* and users and whatever the connection does: one loop at a time, on the current
\* channel; no open channel that nobody can close; no gap in the confirm mode; and
\* the write lock exclusive across its RPCs.
THEOREM ManagerInvariant == Spec => []IInv
  BY InitIInv, NextIInv, PTL DEF Spec

\* No channel is ever left open that neither the manager nor one of its loops will
\* close, however Close and reconnect interleave (channel.go:258-264).
THEOREM OrphanSafety == Spec => []NoOrphanChannel
<1>1. IInv => NoOrphanChannel
  BY DEF IInv
<1> QED BY <1>1, ManagerInvariant, PTL

\* The count and the channel change in one critical section, and to a channel that
\* nobody has seen before.
LEMMA NextObserved ==
    ASSUME TypeOK, OneLoop, ReplacesTheCurrent, ObservedPast, [Next]_vars
    PROVE  ObservedPast'
<1>0. \A p \in observed : p[1] \in Nat /\ p[2] \in Chans
  BY MaxChansAssumption DEF TypeOK
<1>1. ASSUME NEW u \in Users, Borrow(u) PROVE ObservedPast'
  <2>1. /\ observed' = observed \cup {<<reconnectionCount, channel>>}
        /\ UNCHANGED <<reconnectionCount, channel, obj, pc, held>>
    BY <1>1 DEF Borrow, chanVars, objVars
  <2>2. ASSUME NEW w \in Watchers, pc[w] \in {"install", "confirm"}
        PROVE  held[w] # channel
    BY <2>2 DEF ReplacesTheCurrent
  <2>3. reconnectionCount \in Nat
    BY DEF TypeOK
  <2>4. 1 \in Watchers
    BY MaxChansAssumption DEF Watchers, Chans
  <2>5. obj[channel] # "unopened"
    BY <2>4 DEF ReplacesTheCurrent
  <2> QED BY <2>1, <2>2, <2>3, <2>5 DEF ObservedPast, GenerationNamesChannel
<1>2. ASSUME NEW w \in Watchers, NEW c \in Chans, OpenSucceeds(w, c)
      PROVE  ObservedPast'
  <2>1. /\ UNCHANGED <<observed, reconnectionCount, channel>>
        /\ obj[c] = "unopened" /\ obj' = [obj EXCEPT ![c] = "open"]
        /\ held' = [held EXCEPT ![w] = c] /\ pc' = [pc EXCEPT ![w] = "install"]
    BY <1>2 DEF OpenSucceeds, lockVars, chanVars
  <2> QED BY <1>0, <2>1 DEF ObservedPast, GenerationNamesChannel, TypeOK
<1>3. ASSUME NEW w \in Watchers, Install(w) \/ Rearmed(w) PROVE ObservedPast'
  <2>1. /\ UNCHANGED <<observed, obj>> /\ pc[w] \in {"install", "confirm"}
        /\ reconnectionCount' = reconnectionCount + 1 /\ channel' = held[w]
        /\ pc' = [pc EXCEPT ![w] = "closeOld"]
    BY <1>3 DEF Install, Rearmed, Swap, lockVars, objVars
  <2>2. \A v \in Watchers : pc'[v] \notin {"install", "confirm"}
    BY <2>1, AloneAtSwap DEF Holding, TypeOK
  <2>3. \A p \in observed : p[1] <= reconnectionCount /\ p[2] # held[w]
    BY <2>1 DEF ObservedPast
  <2>4. reconnectionCount \in Nat
    BY DEF TypeOK
  <2> QED BY <1>0, <2>1, <2>2, <2>3, <2>4 DEF ObservedPast, GenerationNamesChannel
<1>4. CASE /\ ~ \E u \in Users : Borrow(u)
           /\ ~ \E w \in Watchers : \/ Install(w) \/ Rearmed(w)
                                   \/ \E c \in Chans : OpenSucceeds(w, c)
  BY <1>0, <1>4, QuietPast DEF ObservedPast, GenerationNamesChannel
<1> QED BY <1>1, <1>2, <1>3, <1>4

\* Whoever reads the reconnect count and the channel under one read lock never sees
\* one count with two channels or one channel with two counts, in any number of
\* reconnects (safe_wraps.go:270-292).
THEOREM GenerationSafety == Spec => []GenerationNamesChannel
<1>1. Init => ObservedPast
  BY DEF Init, ObservedPast, GenerationNamesChannel
<1>2. IInv /\ ObservedPast /\ [Next]_vars => ObservedPast'
  BY NextObserved DEF IInv
<1>3. ObservedPast => GenerationNamesChannel
  BY DEF ObservedPast
<1> QED BY <1>1, <1>2, <1>3, ManagerInvariant, PTL DEF Spec

----------------------------------------------------------------------------
(* The implementation of ManagedChannel *)

\* The watchers that have a channel in hand which never was the current one.
Fresh == {"install", "confirm", "reject", "discard"}

RefInv == IInv /\ MappingInv

----------------------------------------------------------------------------
(* The mapping stays in place *)

LEMMA InitMapping == Init => MappingInv
<1> SUFFICES ASSUME Init PROVE MappingInv
  OBVIOUS
<1> USE MaxChansAssumption DEF Init, Chans, Watchers, None, Generation
<1>1. OpenedInOrder
  BY DEF OpenedInOrder
<1>2. WatchedInOrder
  BY DEF WatchedInOrder
<1>3. LoopHasReason
  BY DEF LoopHasReason, InLoop
<1>4. ~confirming
  BY Zenon
<1>5. \A w \in Watchers : pc[w] # "confirm"
  OBVIOUS
<1>6. ConfirmsForAReason
  BY ONLY <1>4, <1>5, Zenon DEF ConfirmsForAReason
<1> QED BY ONLY <1>1, <1>2, <1>3, <1>6, Zenon DEF MappingInv

\* Where the newest watcher is, and where the others cannot be.
LEMMA Newest ==
    ASSUME TypeOK, OneLoop, NEW w \in Watchers
    PROVE  /\ reconnectionCount \in Nat /\ Generation \in Nat /\ w \in Nat
           /\ pc[w] \in {"register", "watch"} \/ InLoop(w) => w = Generation
           /\ pc[w] \in {"closeOld", "spawn"} => w + 1 = Generation
           /\ pc[w] \in {"unsubscribe", "dispatch", "done"} => w <= Generation
           /\ w > Generation => pc[w] = "unborn"
<1>1. reconnectionCount \in Nat /\ Generation \in Nat /\ w \in Nat
  BY DEF TypeOK, Generation, Watchers
<1>2. CASE w < reconnectionCount
  BY <1>1, <1>2 DEF OneLoop, InLoop, Generation
<1>3. CASE w = reconnectionCount
  BY <1>1, <1>3 DEF OneLoop, InLoop, Generation
<1>4. CASE w = reconnectionCount + 1
  BY <1>1, <1>4 DEF OneLoop, InLoop, Generation
<1>5. CASE w > reconnectionCount + 1
  BY <1>1, <1>5 DEF OneLoop, InLoop, Generation
<1> QED BY <1>1, <1>2, <1>3, <1>4, <1>5

LEMMA SwapFacts ==
    ASSUME IInv, NEW w \in Watchers, Install(w) \/ Rearmed(w)
    PROVE  /\ pc[w] \in {"install", "confirm"} /\ ~closed
           /\ w = Generation /\ Generation' = Generation + 1
           /\ watched[w] = channel
           /\ channel' = held[w] /\ held[w] \in Chans
           /\ held' = [held EXCEPT ![w] = channel]
           /\ pc' = [pc EXCEPT ![w] = "closeOld"]
           /\ UNCHANGED <<obj, watched, cancelled, draining, confirmMode, confirming,
                          closed, closing>>
           /\ \/ ~confirmMode /\ confirmed' = confirmed
              \/ obj[held[w]] = "open" /\ confirmed' = confirmed \cup {held[w]}
<1>1. /\ pc[w] \in {"install", "confirm"} /\ ~closed
      /\ channel' = held[w] /\ reconnectionCount' = reconnectionCount + 1
      /\ held' = [held EXCEPT ![w] = channel]
      /\ pc' = [pc EXCEPT ![w] = "closeOld"]
  BY DEF Install, Rearmed, Swap, IInv, RearmIsExclusive
<1>2. UNCHANGED <<obj, watched, cancelled, draining, confirmMode, confirming, closed,
                  closing>>
  BY Zenon DEF Install, Rearmed, Swap, lockVars, objVars, listenVars
<1>3. \/ ~confirmMode /\ confirmed' = confirmed
      \/ obj[held[w]] = "open" /\ confirmed' = confirmed \cup {held[w]}
  BY Zenon DEF Install, Rearmed, RpcSucceeds, objVars
<1>4. w = Generation /\ Generation' = Generation + 1
  BY <1>1, Newest DEF IInv, Generation, InLoop
<1>5. watched[w] = channel /\ held[w] \in Chans
  BY <1>1 DEF IInv, ReplacesTheCurrent, InLoop
<1> QED BY ONLY <1>1, <1>2, <1>3, <1>4, <1>5, Zenon

LEMMA OpenFacts ==
    ASSUME NEW w \in Watchers, NEW c \in Chans, OpenSucceeds(w, c)
    PROVE  /\ pc[w] = "open" /\ pc' = [pc EXCEPT ![w] = "install"]
           /\ obj[c] = "unopened" /\ obj' = [obj EXCEPT ![c] = "open"]
           /\ \A other \in Chans : obj[other] = "unopened" => c <= other
           /\ held' = [held EXCEPT ![w] = c]
           /\ UNCHANGED <<channel, reconnectionCount, confirmMode, confirmed, watched,
                          cancelled, draining, closed, closing, confirming>>
BY Zenon DEF OpenSucceeds, lockVars, chanVars, listenVars

USE DEF Next, vars, BrokerStep, ConnStep, UserStep, WatcherStep, LocalStep, OpenStep,
        CheckStep, SubscriptionStep, ChannelDies, BrokerCancels, ConnWavers, ConnDies,
        ConnReplaced, ConnCloses, ConnOffers, OfferExpires, Borrow, GiveBack,
        ConfirmBegin, ConfirmEnd, CloseBegin, CloseEnd, Register, SeeGraceful, SeeDead,
        SeeCancel, DrainStateChanges, Subscribe, StopWaiting, ConnReconnected,
        TimerFires, OpenSucceeds, OpenFails, Swap, Install, BeginRearm, Rearmed,
        RearmFails, CloseHeld, CloseRejected, Refuse, Discard, CloseOld, GiveUp, Retry,
        Spawn, Unsubscribe, DispatchDone, Goto, lockVars, chanVars, objVars, listenVars,
        connSideVars, connVars

LEMMA ConfirmedFrame ==
    [Next]_vars => \/ confirmed' = confirmed
                   \/ channel' = channel /\ confirmed' = confirmed \cup {channel}
                   \/ \E w \in Watchers : Rearmed(w)
OBVIOUS

LEMMA ListenFrame ==
    [Next]_vars => /\ \/ watched' = watched
                      \/ \E w \in Watchers : Register(w)
                   /\ \A w \in Watchers : w \in cancelled' \cup draining' =>
                        w \in cancelled \cup draining \/ pc[w] = "watch"
OBVIOUS

LEMMA ConfirmingFrame ==
    [Next]_vars => \/ UNCHANGED <<confirming, confirmMode>>
                   \/ confirming' = FALSE
                   \/ confirming' = TRUE /\ confirmMode' = confirmMode /\ ~confirmMode
                   \/ \E w \in Watchers : Install(w) \/ Rearmed(w)
OBVIOUS

\* Nothing turns the mode off, and only a loop that finds it on confirms.
LEMMA ModeFrame == [Next]_vars => confirmMode' = confirmMode \/ confirmMode' = TRUE
OBVIOUS

LEMMA RearmEntry ==
    ASSUME TypeOK, [Next]_vars, NEW w \in Watchers, pc'[w] = "confirm"
    PROVE  pc[w] = "confirm" \/ BeginRearm(w)
BY DEF TypeOK

\* What a step that does not swap leaves in place.
LEMMA SwapFrame ==
    ASSUME TypeOK, [Next]_vars, ~ \E w \in Watchers : Install(w) \/ Rearmed(w)
    PROVE  /\ UNCHANGED <<channel, reconnectionCount>>
           /\ \A w \in Watchers :
                pc'[w] = "closeOld" => pc[w] = "closeOld" /\ held'[w] = held[w]
<1>1. UNCHANGED <<channel, reconnectionCount>>
  OBVIOUS
<1>2. ASSUME NEW w \in Watchers, pc'[w] = "closeOld"
      PROVE  pc[w] = "closeOld" /\ held'[w] = held[w]
  BY <1>2 DEF TypeOK
<1> QED BY <1>1, <1>2

LEMMA StaysEnded ==
    ASSUME TypeOK, [Next]_vars, NEW c \in Chans, obj[c] # "unopened", obj'[c] = "open"
    PROVE  obj[c] = "open"
BY DEF TypeOK, ClosedObj, AllEnd

\* A watcher enters its loop for the end or the cancellation of what it watches.
LEMMA LoopEntry ==
    ASSUME TypeOK, [Next]_vars, NEW w \in Watchers, InLoop(w)'
    PROVE  \/ InLoop(w)
           \/ pc[w] = "watch" /\ (obj[watched[w]] = "dead" \/ w \in draining')
BY DEF TypeOK, InLoop

LEMMA DrainFrame ==
    ASSUME [Next]_vars, NEW w \in Watchers, w \in draining, w \notin draining'
    PROVE  Ended(watched[w])
OBVIOUS

\* What a step that neither opens nor swaps leaves in place.
LEMMA SameChannel ==
    ASSUME TypeOK, [Next]_vars,
           ~ \E w \in Watchers : \/ Install(w) \/ Rearmed(w)
                                \/ \E c \in Chans : OpenSucceeds(w, c)
    PROVE  /\ UNCHANGED <<channel, reconnectionCount>>
           /\ \A c \in Chans : obj'[c] = "unopened" <=> obj[c] = "unopened"
           /\ \A w \in Watchers :
                /\ pc'[w] \in Fresh => pc[w] \in Fresh /\ held'[w] = held[w]
                /\ pc'[w] = "closeOld" => pc[w] = "closeOld" /\ held'[w] = held[w]
<1>1. UNCHANGED <<channel, reconnectionCount>>
  OBVIOUS
<1>2. \A c \in Chans : obj'[c] = "unopened" <=> obj[c] = "unopened"
  BY DEF TypeOK, ClosedObj, AllEnd
<1>3. ASSUME NEW w \in Watchers, pc'[w] \in Fresh
      PROVE  pc[w] \in Fresh /\ held'[w] = held[w]
  BY <1>3 DEF TypeOK, Fresh
<1>4. ASSUME NEW w \in Watchers, pc'[w] = "closeOld"
      PROVE  pc[w] = "closeOld" /\ held'[w] = held[w]
  BY <1>4 DEF TypeOK
<1> QED BY <1>1, <1>2, <1>3, <1>4

HIDE DEF Next, vars, BrokerStep, ConnStep, UserStep, WatcherStep, LocalStep, OpenStep,
        CheckStep, SubscriptionStep, ChannelDies, BrokerCancels, ConnWavers, ConnDies,
        ConnReplaced, ConnCloses, ConnOffers, OfferExpires, Borrow, GiveBack,
        ConfirmBegin, ConfirmEnd, CloseBegin, CloseEnd, Register, SeeGraceful, SeeDead,
        SeeCancel, DrainStateChanges, Subscribe, StopWaiting, ConnReconnected,
        TimerFires, OpenSucceeds, OpenFails, Swap, Install, BeginRearm, Rearmed,
        RearmFails, CloseHeld, CloseRejected, Refuse, Discard, CloseOld, GiveUp, Retry,
        Spawn, Unsubscribe, DispatchDone, Goto, lockVars, chanVars, objVars, listenVars,
        connSideVars, connVars

LEMMA NextOpenedInOrder ==
    ASSUME IInv, OpenedInOrder, [Next]_vars PROVE OpenedInOrder'
<1>0. /\ Generation \in Nat /\ channel \in Nat /\ channel \in Chans /\ 1 \in Watchers
      /\ \A c \in Chans : c \in Nat
      /\ obj[channel] # "unopened" /\ confirmed \subseteq Chans
  BY MaxChansAssumption
     DEF IInv, TypeOK, ReplacesTheCurrent, Generation, Chans, Watchers
<1>1. ASSUME NEW w \in Watchers, NEW c \in Chans, OpenSucceeds(w, c)
      PROVE  OpenedInOrder'
  <2>1. /\ obj[c] = "unopened" /\ obj' = [obj EXCEPT ![c] = "open"]
        /\ \A other \in Chans : obj[other] = "unopened" => c <= other
        /\ held' = [held EXCEPT ![w] = c] /\ pc' = [pc EXCEPT ![w] = "install"]
        /\ UNCHANGED <<channel, confirmed, Generation>>
    BY <1>1, OpenFacts DEF Generation
  <2>2. c > channel
    BY <1>0, <2>1 DEF OpenedInOrder
  <2> QED BY <1>0, <2>1, <2>2 DEF OpenedInOrder, IInv, TypeOK
<1>2. ASSUME NEW w \in Watchers, Install(w) \/ Rearmed(w) PROVE OpenedInOrder'
  <2>1. /\ pc[w] \in {"install", "confirm"} /\ pc' = [pc EXCEPT ![w] = "closeOld"]
        /\ Generation' = Generation + 1 /\ channel' = held[w] /\ held[w] \in Chans
        /\ obj' = obj
        /\ confirmed' = confirmed \/ confirmed' = confirmed \cup {held[w]}
    BY <1>2, SwapFacts
  <2>2. \A v \in Watchers : v # w => pc[v] \notin Holding
    BY <2>1, AloneAtSwap DEF IInv
  <2>3. held[w] > channel /\ held[w] \in Nat
    BY <1>0, <2>1 DEF OpenedInOrder
  <2>4. \A v \in Watchers : pc'[v] \notin {"install", "confirm", "reject", "discard"}
    BY <2>1, <2>2 DEF Holding, IInv, TypeOK
  <2>5. \A c \in confirmed : c \in Nat /\ c <= channel
    BY <1>0 DEF OpenedInOrder
  <2>6. Generation' <= channel'
    <3>1. Generation <= channel
      BY DEF OpenedInOrder
    <3> QED BY <1>0, <2>1, <2>3, <3>1
  <2>7. \A c \in confirmed' : c <= channel'
    <3>1. \A c \in confirmed' : c \in confirmed \/ c = held[w]
      BY ONLY <2>1
    <3>2. \A c \in confirmed \cup {held[w]} : c <= held[w]
      BY ONLY <1>0, <2>3, <2>5
    <3>3. channel' = held[w]
      BY <2>1
    <3> QED BY ONLY <3>1, <3>2, <3>3
  <2> QED BY <2>1, <2>4, <2>6, <2>7 DEF OpenedInOrder
<1>3. CASE ~ \E w \in Watchers : \/ Install(w) \/ Rearmed(w)
                                \/ \E c \in Chans : OpenSucceeds(w, c)
  <2>1. /\ UNCHANGED <<channel, Generation>>
        /\ \A c \in Chans : obj'[c] = "unopened" <=> obj[c] = "unopened"
        /\ \A w \in Watchers :
             pc'[w] \in Fresh => pc[w] \in Fresh /\ held'[w] = held[w]
    BY <1>3, SameChannel DEF IInv, Generation
  <2>2. confirmed' = confirmed \/ confirmed' = confirmed \cup {channel}
    BY <1>3, ConfirmedFrame
  <2>3. \A c \in confirmed' : c <= channel'
    <3>1. \A c \in confirmed' : c \in confirmed \/ c = channel
      BY ONLY <2>2
    <3>2. \A c \in confirmed : c <= channel
      BY DEF OpenedInOrder
    <3>3. \A c \in confirmed \cup {channel} : c <= channel
      BY ONLY <1>0, <3>2
    <3>4. channel' = channel
      BY <2>1
    <3> QED BY ONLY <3>1, <3>3, <3>4
  <2> QED BY <1>0, <2>1, <2>3 DEF OpenedInOrder, Fresh
<1> QED BY <1>1, <1>2, <1>3

LEMMA NextWatchedInOrder ==
    ASSUME IInv, OpenedInOrder, WatchedInOrder, [Next]_vars PROVE WatchedInOrder'
<1>0. /\ Generation \in Nat /\ channel \in Nat \ {0} /\ channel # None
      /\ \A w \in Watchers : w \in Nat
      /\ \A w \in Watchers : watched[w] \in Nat
  BY DEF IInv, TypeOK, Generation, Chans, Watchers, None
<1>1. ASSUME NEW w \in Watchers, w \in cancelled' \cup draining', ~Register(w)
      PROVE  watched[w] # None
  <2>1. pc[w] = "watch" => watched[w] = channel
    BY DEF IInv, ReplacesTheCurrent
  <2> QED BY <1>0, <1>1, <2>1, ListenFrame DEF WatchedInOrder
<1>2. ASSUME NEW w \in Watchers, Register(w) PROVE WatchedInOrder'
  <2>1. /\ pc[w] = "register" /\ pc' = [pc EXCEPT ![w] = "watch"]
        /\ watched' = [watched EXCEPT ![w] = channel]
        /\ UNCHANGED <<channel, Generation, held, cancelled, draining>>
    BY <1>2 DEF Register, chanVars, Generation
  <2>2. w = Generation
    BY <2>1, Newest DEF IInv
  <2> QED BY <1>0, <2>1, <2>2 DEF WatchedInOrder, IInv, TypeOK
<1>3. ASSUME NEW w \in Watchers, Install(w) \/ Rearmed(w) PROVE WatchedInOrder'
  <2>1. /\ pc[w] \in {"install", "confirm"} /\ w = Generation
        /\ Generation' = Generation + 1
        /\ watched[w] = channel /\ channel' = held[w] /\ held[w] \in Chans
        /\ held' = [held EXCEPT ![w] = channel]
        /\ pc' = [pc EXCEPT ![w] = "closeOld"]
        /\ UNCHANGED <<watched, cancelled, draining>>
    BY <1>3, SwapFacts
  <2>2. \A v \in Watchers : v # w => pc[v] # "closeOld"
    BY <2>1, AloneAtSwap DEF IInv, Holding
  <2>3. channel < channel' /\ channel' \in Nat
    BY <1>0, <2>1 DEF OpenedInOrder, Chans
  <2>4. \A v \in Watchers : /\ v < Generation' => watched[v] # None /\ watched[v] < channel'
                            /\ v >= Generation' => watched[v] = None
    BY <1>0, <2>1, <2>3 DEF WatchedInOrder
  <2>5. \A v \in Watchers : pc'[v] = "closeOld" => held'[v] = watched[v]
    BY <2>1, <2>2 DEF IInv, TypeOK
  <2>6. \A u, v \in Watchers : u < v /\ v < Generation' => watched[u] < watched[v]
    BY <1>0, <2>1 DEF WatchedInOrder
  <2> QED BY <1>0, <2>1, <2>4, <2>5, <2>6 DEF WatchedInOrder
<1>4. CASE ~ \E w \in Watchers : Register(w) \/ Install(w) \/ Rearmed(w)
  <2>1. UNCHANGED <<channel, Generation>>
    BY <1>4, SwapFrame DEF IInv, Generation
  <2>2. \A w \in Watchers :
          pc'[w] = "closeOld" => pc[w] = "closeOld" /\ held'[w] = held[w]
    BY <1>4, SwapFrame DEF IInv
  <2>3. watched' = watched
    BY <1>4, ListenFrame
  <2> QED BY <1>0, <1>1, <1>4, <2>1, <2>2, <2>3 DEF WatchedInOrder
<1> QED BY <1>2, <1>3, <1>4

LEMMA NextLoopHasReason ==
    ASSUME IInv, LoopHasReason, [Next]_vars PROVE LoopHasReason'
<1>1. ASSUME NEW w \in Watchers, Install(w) \/ Rearmed(w) PROVE LoopHasReason'
  <2>1. pc[w] \in {"install", "confirm"} /\ pc' = [pc EXCEPT ![w] = "closeOld"]
    BY <1>1, SwapFacts
  <2>2. \A v \in Watchers : v # w => ~InLoop(v)
    BY <2>1, AloneAtSwap DEF IInv
  <2> QED BY <2>1, <2>2 DEF LoopHasReason, InLoop, IInv, TypeOK
<1>2. CASE ~ \E w \in Watchers : Install(w) \/ Rearmed(w)
  <2>1. channel' = channel
    BY <1>2, SwapFrame DEF IInv
  <2>2. obj'[channel] = "open" => obj[channel] = "open"
    BY StaysEnded, MaxChansAssumption
       DEF IInv, ReplacesTheCurrent, TypeOK, Watchers, Chans
  <2>3. ASSUME NEW w \in Watchers, InLoop(w)', obj'[channel'] = "open"
        PROVE  w \in draining'
    <3>1. \/ InLoop(w) /\ watched[w] = channel
          \/ ~InLoop(w) /\ pc[w] = "watch" /\ watched[w] = channel
             /\ (obj[watched[w]] = "dead" \/ w \in draining')
      BY <2>3, LoopEntry DEF IInv, ReplacesTheCurrent
    <3>2. w \in draining /\ watched[w] = channel => w \in draining' \/ obj[channel] # "open"
      BY DrainFrame DEF Ended
    <3> QED BY <2>1, <2>2, <2>3, <3>1, <3>2 DEF LoopHasReason
  <2> QED BY <2>3 DEF LoopHasReason
<1> QED BY <1>1, <1>2

\* Whatever a step does, the mapping stays in place.
LEMMA NextMapping ==
    ASSUME IInv, MappingInv, [Next]_vars PROVE MappingInv'
<1>1. OpenedInOrder' /\ WatchedInOrder' /\ LoopHasReason'
  BY NextOpenedInOrder, NextWatchedInOrder, NextLoopHasReason DEF MappingInv
<1>2. confirming => ~confirmMode
  BY Zenon DEF MappingInv, ConfirmsForAReason
<1>3. confirming' => ~confirmMode'
  <2>1. \/ UNCHANGED <<confirming, confirmMode>>
        \/ confirming' = FALSE
        \/ confirming' = TRUE /\ confirmMode' = confirmMode /\ ~confirmMode
        \/ \E w \in Watchers : Install(w) \/ Rearmed(w)
    BY ConfirmingFrame, Zenon
  <2>2. ASSUME NEW w \in Watchers, Install(w) \/ Rearmed(w)
        PROVE  UNCHANGED <<confirming, confirmMode>>
    BY <2>2, SwapFacts
  <2> QED BY ONLY <1>2, <2>1, <2>2, Zenon
<1>4. ASSUME NEW w \in Watchers, pc'[w] = "confirm" PROVE confirmMode'
  <2>1. pc[w] = "confirm" \/ BeginRearm(w)
    BY <1>4, RearmEntry DEF IInv
  <2>2. confirmMode
    BY <2>1, Zenon DEF MappingInv, ConfirmsForAReason, BeginRearm
  <2>3. confirmMode' = confirmMode \/ confirmMode' = TRUE
    BY ModeFrame, Zenon
  <2> QED BY ONLY <2>2, <2>3, Zenon
<1> QED BY <1>1, <1>3, <1>4, Zenon DEF MappingInv, ConfirmsForAReason

\* Channels become current in the order in which they were opened, and the watcher
\* of a generation listens to that generation's channel and no other: none is
\* watched twice, not even when its predecessor is still being drained after a
\* basic.cancel (channel.go:109-143, 250-322).
THEOREM MappingSafety == Spec => []MappingInv
<1>1. IInv /\ MappingInv /\ [Next]_vars => MappingInv'
  BY NextMapping
<1> QED BY InitMapping, <1>1, ManagerInvariant, PTL DEF Spec

----------------------------------------------------------------------------
(* The maps *)

\* Every generation has a watcher and a channel of its own.
LEMMA ChannelsDistinct ==
    ASSUME RefInv
    PROVE  /\ Generation \in Nat \ {0} /\ Generation \in Generations
           /\ Generations \subseteq Watchers
           /\ ChannelOf(Generation) = channel
           /\ \A g \in Generations :
                /\ ChannelOf(g) \in Chans /\ obj[ChannelOf(g)] # "unopened"
                /\ ChannelOf(g) <= channel
           /\ \A g, h \in Generations : ChannelOf(g) = ChannelOf(h) => g = h
<1>0. /\ reconnectionCount \in Nat /\ channel \in 1..MaxChans /\ MaxChans \in Nat
      /\ Generation <= channel /\ 1 \in Watchers
      /\ \A w \in Watchers : watched[w] \in Chans \cup {None}
  BY MaxChansAssumption
     DEF RefInv, IInv, TypeOK, MappingInv, OpenedInOrder, Chans, Watchers
<1>1. Generation \in Nat \ {0} /\ Generation \in Generations
  BY <1>0 DEF Generation, Generations
<1>2. Generations \subseteq Watchers
  BY <1>0, <1>1 DEF Generations, Watchers
<1>3. ChannelOf(Generation) = channel
  BY DEF ChannelOf
<1>4. obj[channel] # "unopened"
  BY <1>0 DEF RefInv, IInv, ReplacesTheCurrent
<1>5. ASSUME NEW g \in Generations
      PROVE  /\ ChannelOf(g) \in Chans /\ ChannelOf(g) <= channel
             /\ g # Generation => ChannelOf(g) < channel
  <2>1. g # Generation => g < Generation /\ watched[g] # None /\ watched[g] < channel
    BY <1>1, <1>2, <1>5 DEF RefInv, MappingInv, WatchedInOrder, Generations
  <2> QED BY <1>0, <1>2, <1>5, <2>1 DEF ChannelOf, Chans
<1>6. ASSUME NEW g \in Generations PROVE obj[ChannelOf(g)] # "unopened"
  <2>1. channel \in Chans
    BY <1>0 DEF Chans
  <2>2. ChannelOf(g) = channel \/ ChannelOf(g) < channel
    BY <1>5 DEF ChannelOf
  <2> QED BY <1>4, <1>5, <2>1, <2>2 DEF RefInv, MappingInv, OpenedInOrder
<1>7. ASSUME NEW g \in Generations, NEW h \in Generations, g < h
      PROVE  ChannelOf(g) # ChannelOf(h)
  <2>1. CASE h = Generation
    BY <1>0, <1>1, <1>3, <1>5, <1>7, <2>1 DEF Generations, Chans
  <2>2. CASE h # Generation
    <3>1. g < Generation /\ h < Generation
      BY <1>1, <1>7, <2>2 DEF Generations
    <3>2. watched[g] < watched[h]
      BY <1>2, <1>7, <3>1 DEF RefInv, MappingInv, WatchedInOrder
    <3>3. ChannelOf(g) = watched[g] /\ ChannelOf(h) = watched[h]
      BY <1>1, <3>1 DEF ChannelOf, Generations
    <3>4. watched[g] \in Nat /\ watched[h] \in Nat
      BY <1>5, <3>3 DEF Chans
    <3> QED BY <3>2, <3>3, <3>4
  <2> QED BY <2>1, <2>2
<1>8. \A g, h \in Generations : g = h \/ g < h \/ h < g
  BY DEF Generations
<1> QED BY <1>1, <1>2, <1>3, <1>5, <1>6, <1>7, <1>8

\* The generations keep their channels, unless one is added.
LEMMA SameChannels ==
    ASSUME RefInv, [Next]_vars, ~ \E w \in Watchers : Install(w) \/ Rearmed(w)
    PROVE  /\ Generation' = Generation /\ Generations' = Generations
           /\ \A g \in Generations : ChannelOf(g)' = ChannelOf(g)
<1>1. channel' = channel /\ Generation' = Generation
  BY SwapFrame DEF RefInv, IInv, Generation
<1>2. ASSUME NEW g \in Generations, g # Generation PROVE watched'[g] = watched[g]
  <2>1. g \in Watchers
    BY ChannelsDistinct
  <2>2. ASSUME NEW w \in Watchers, Register(w) PROVE watched'[g] = watched[g]
    <3>1. pc[w] = "register" /\ watched' = [watched EXCEPT ![w] = channel]
      BY <2>2 DEF Register
    <3>2. w = Generation
      BY <3>1, Newest DEF RefInv, IInv
    <3> QED BY <1>2, <2>1, <3>1, <3>2 DEF RefInv, IInv, TypeOK
  <2> QED BY <2>2, ListenFrame
<1>3. Generations' = Generations
  BY <1>1 DEF Generations
<1>4. \A g \in Generations : ChannelOf(g)' = ChannelOf(g)
  BY <1>1, <1>2 DEF ChannelOf
<1> QED BY <1>1, <1>3, <1>4

\* The maps after a step that adds no generation.
LEMMA SameMaps ==
    ASSUME RefInv, [Next]_vars, ~ \E w \in Watchers : Install(w) \/ Rearmed(w)
    PROVE  /\ Generation' = Generation
           /\ StateMap' = [g \in Generations |->
                             IF obj'[ChannelOf(g)] = "open" THEN "open" ELSE "ended"]
           /\ WatcherMap' = [g \in Generations |-> Stage(pc'[g])]
           /\ ConfirmedMap' = {g \in Generations : ChannelOf(g) \in confirmed'}
           /\ CancelledMap' = {g \in Generations :
                  obj'[ChannelOf(g)] = "open" /\ g \in cancelled' \cup draining'}
<1>1. /\ Generation' = Generation /\ Generations' = Generations
      /\ \A g \in Generations : ChannelOf(g)' = ChannelOf(g)
  BY SameChannels
<1>2. \A g \in Generations :
        State(g)' = IF obj'[ChannelOf(g)] = "open" THEN "open" ELSE "ended"
  BY <1>1 DEF State
<1>3. StateMap' = [g \in Generations |->
                    IF obj'[ChannelOf(g)] = "open" THEN "open" ELSE "ended"]
  BY <1>1, <1>2 DEF StateMap
<1>4. WatcherMap' = [g \in Generations |-> Stage(pc'[g])]
  BY <1>1 DEF WatcherMap
<1>5. ConfirmedMap' = {g \in Generations : ChannelOf(g) \in confirmed'}
  BY <1>1 DEF ConfirmedMap
<1>6. CancelledMap' = {g \in Generations :
         obj'[ChannelOf(g)] = "open" /\ g \in cancelled' \cup draining'}
  BY <1>1, <1>2 DEF CancelledMap
<1> QED BY <1>1, <1>3, <1>4, <1>5, <1>6

\* A step that none of the maps shows.
LEMMA Stutter ==
    ASSUME RefInv, [Next]_vars, ~ \E w \in Watchers : Install(w) \/ Rearmed(w),
           \A g \in Generations :
             /\ obj'[ChannelOf(g)] = "open" <=> obj[ChannelOf(g)] = "open"
             /\ Stage(pc'[g]) = Stage(pc[g])
             /\ obj[ChannelOf(g)] = "open" =>
                  (g \in cancelled' \cup draining' <=> g \in cancelled \cup draining),
           UNCHANGED <<confirmed, confirmMode, ClosedMap>>
    PROVE  UNCHANGED Managed!vars
<1>1. StateMap' = StateMap
  BY SameMaps DEF StateMap, State
<1>2. WatcherMap' = WatcherMap
  BY SameMaps DEF WatcherMap
<1>3. ConfirmedMap' = ConfirmedMap
  BY SameMaps DEF ConfirmedMap
<1>4. CancelledMap' = CancelledMap
  BY SameMaps DEF CancelledMap, State
<1>5. UNCHANGED <<Generation, confirmMode, ClosedMap>>
  BY SameMaps, Zenon
<1> QED BY ONLY <1>1, <1>2, <1>3, <1>4, <1>5, Zenon DEF Managed!vars

\* The connection and the users, as long as no channel ends.
QuietEnvironment ==
    \/ ConnWavers \/ ConnReplaced \/ ConnOffers
    \/ \E w \in Watchers : OfferExpires(w)
    \/ \E u \in Users : Borrow(u) \/ GiveBack(u)
    \/ ConfirmBegin \/ CloseBegin

LEMMA QuietEnvironmentStutters ==
    ASSUME RefInv, Next, QuietEnvironment PROVE UNCHANGED Managed!vars
<1>1. /\ UNCHANGED <<channel, obj, pc, cancelled, draining, confirmed, confirmMode>>
      /\ closing' = closing \/ (closing' = TRUE /\ closed' = TRUE /\ ~closed)
      /\ closed' = closed \/ (closing' = TRUE /\ closed' = TRUE)
  BY Zenon DEF QuietEnvironment, ConnWavers, ConnReplaced, ConnOffers, OfferExpires, Borrow,
     GiveBack, ConfirmBegin, CloseBegin, lockVars, chanVars, objVars, listenVars, connVars
<1>2. ClosedMap' = ClosedMap
  BY <1>1 DEF ClosedMap
<1>3. ~ \E w \in Watchers : Install(w) \/ Rearmed(w)
  BY <1>1 DEF Install, Rearmed, Swap, RefInv, IInv, TypeOK
<1> QED BY <1>1, <1>2, <1>3, Stutter

\* What a watcher does between two events that its users can tell apart.
QuietMove(w) ==
    \/ Register(w) \/ SeeDead(w) \/ SeeCancel(w) \/ ConnReconnected(w) \/ TimerFires(w)
    \/ BeginRearm(w) \/ RearmFails(w) \/ Refuse(w) \/ OpenFails(w) \/ Retry(w)
    \/ Subscribe(w) \/ Unsubscribe(w)

LEMMA QuietMoveStutters ==
    ASSUME RefInv, Next, NEW w \in Watchers, QuietMove(w) PROVE UNCHANGED Managed!vars
<1>1. /\ UNCHANGED <<channel, obj, confirmed, confirmMode, closed, closing>>
      /\ \/ pc[w] \in {"register", "watch", "subscribe", "wait", "open", "install",
                        "confirm", "check"}
            /\ \E next \in {"watch", "subscribe", "wait", "open", "confirm", "reject",
                              "discard", "check"} : pc' = [pc EXCEPT ![w] = next]
         \/ pc[w] = "unsubscribe" /\ pc' = [pc EXCEPT ![w] = "dispatch"]
  BY DEF QuietMove, Register, SeeDead, SeeCancel, ConnReconnected, TimerFires, BeginRearm,
     RearmFails, Refuse, OpenFails, Retry, Subscribe, Unsubscribe, Goto, lockVars, chanVars,
     objVars
<1>2. \A v \in Watchers : v \in cancelled' \cup draining' <=> v \in cancelled \cup draining
  BY Zenon DEF QuietMove, Register, SeeDead, SeeCancel, ConnReconnected, TimerFires, BeginRearm,
     RearmFails, Refuse, OpenFails, Retry, Subscribe, Unsubscribe, Goto, listenVars
<1>3. \A v \in Watchers : Stage(pc'[v]) = Stage(pc[v])
  BY <1>1 DEF Stage, RefInv, IInv, TypeOK
<1>4. ~ \E v \in Watchers : Install(v) \/ Rearmed(v)
  <2>1. ASSUME NEW v \in Watchers, Install(v) \/ Rearmed(v) PROVE FALSE
    <3>1. pc[v] \in {"install", "confirm"} /\ pc'[v] = "closeOld"
      BY <2>1 DEF Install, Rearmed, Swap, RefInv, IInv, TypeOK
    <3> QED BY <1>1, <3>1 DEF RefInv, IInv, TypeOK
  <2> QED BY <2>1
<1>5. UNCHANGED ClosedMap
  BY <1>1 DEF ClosedMap
<1> QED BY <1>1, <1>2, <1>3, <1>4, <1>5, Stutter, ChannelsDistinct

LEMMA SpawnStutters ==
    ASSUME RefInv, Next, NEW w \in Watchers, Spawn(w) PROVE UNCHANGED Managed!vars
<1>1. /\ UNCHANGED <<obj, confirmed, confirmMode, closed, closing, cancelled, draining>>
      /\ pc[w] = "spawn"
      /\ pc' = [pc EXCEPT ![w] = "unsubscribe", ![w + 1] = "register"]
  BY DEF Spawn, lockVars, chanVars, objVars, listenVars
<1>2. w + 1 \in Watchers /\ pc[w + 1] = "unborn"
  BY SpawnFresh DEF RefInv, IInv
<1>3. \A v \in Watchers : Stage(pc'[v]) = Stage(pc[v])
  BY <1>1, <1>2 DEF Stage, RefInv, IInv, TypeOK
<1>4. ~ \E v \in Watchers : Install(v) \/ Rearmed(v)
  BY <1>1 DEF Install, Rearmed, Swap, RefInv, IInv, TypeOK
<1>5. UNCHANGED ClosedMap
  BY <1>1 DEF ClosedMap
<1> QED BY <1>1, <1>3, <1>4, <1>5, Stutter, ChannelsDistinct

\* A drain ends with its channel, which is not open then.
LEMMA DrainStutters ==
    ASSUME RefInv, Next, NEW w \in Watchers, DrainStateChanges(w)
    PROVE  UNCHANGED Managed!vars
<1>1. /\ UNCHANGED <<obj, confirmed, confirmMode, closed, closing, cancelled, pc>>
      /\ w \in draining /\ draining' = draining \ {w} /\ obj[watched[w]] # "open"
  BY DEF DrainStateChanges, Ended, lockVars, chanVars, objVars
<1>2. w \in Generations => ChannelOf(w) = watched[w]
  BY <1>1 DEF RefInv, MappingInv, WatchedInOrder, ChannelOf, Generations
<1>3. \A g \in Generations : obj[ChannelOf(g)] = "open" =>
        (g \in cancelled' \cup draining' <=> g \in cancelled \cup draining)
  BY <1>1, <1>2
<1>4. ~ \E v \in Watchers : Install(v) \/ Rearmed(v)
  BY <1>1 DEF Install, Rearmed, Swap, RefInv, IInv, TypeOK
<1>5. UNCHANGED ClosedMap
  BY <1>1 DEF ClosedMap
<1> QED BY <1>1, <1>3, <1>4, <1>5, Stutter

\* A channel that is opened, or closed without having been current, is no
\* generation's channel.
LEMMA OpenStutters ==
    ASSUME RefInv, Next, NEW w \in Watchers, NEW c \in Chans, OpenSucceeds(w, c)
    PROVE  UNCHANGED Managed!vars
<1>1. /\ pc[w] = "open" /\ pc' = [pc EXCEPT ![w] = "install"]
      /\ obj[c] = "unopened" /\ obj' = [obj EXCEPT ![c] = "open"]
      /\ UNCHANGED <<confirmed, confirmMode, closed, closing, cancelled, draining>>
  BY OpenFacts
<1>2. \A g \in Generations : obj'[ChannelOf(g)] = obj[ChannelOf(g)]
  BY <1>1, ChannelsDistinct DEF RefInv, IInv, TypeOK
<1>3. \A v \in Watchers : Stage(pc'[v]) = Stage(pc[v])
  BY <1>1 DEF Stage, RefInv, IInv, TypeOK
<1>4. ~ \E v \in Watchers : Install(v) \/ Rearmed(v)
  BY <1>1 DEF Install, Rearmed, Swap, RefInv, IInv, TypeOK
<1>5. UNCHANGED ClosedMap
  BY <1>1 DEF ClosedMap
<1> QED BY <1>1, <1>2, <1>3, <1>4, <1>5, Stutter, ChannelsDistinct

LEMMA HeldFacts ==
    ASSUME RefInv, NEW w \in Watchers, pc[w] \in Fresh
    PROVE  \A g \in Generations : held[w] # ChannelOf(g)
<1>1. held[w] \in Chans /\ held[w] > channel
  BY DEF RefInv, IInv, ReplacesTheCurrent, MappingInv, OpenedInOrder, Fresh
<1> QED BY <1>1, ChannelsDistinct DEF Chans, RefInv, IInv, TypeOK

LEMMA CloseRejectedStutters ==
    ASSUME RefInv, Next, NEW w \in Watchers, CloseRejected(w)
    PROVE  UNCHANGED Managed!vars
<1>1. /\ pc[w] = "reject" /\ pc' = [pc EXCEPT ![w] = "check"]
      /\ obj' = ClosedObj(held[w])
      /\ UNCHANGED <<confirmed, confirmMode, closed, closing, cancelled, draining>>
  BY DEF CloseRejected, CloseHeld, lockVars, chanVars, listenVars
<1>2. \A g \in Generations : obj'[ChannelOf(g)] = obj[ChannelOf(g)]
  BY <1>1, HeldFacts, ChannelsDistinct DEF ClosedObj, Fresh, RefInv, IInv, TypeOK
<1>3. \A v \in Watchers : Stage(pc'[v]) = Stage(pc[v])
  BY <1>1 DEF Stage, RefInv, IInv, TypeOK
<1>4. ~ \E v \in Watchers : Install(v) \/ Rearmed(v)
  BY <1>1 DEF Install, Rearmed, Swap, RefInv, IInv, TypeOK
<1>5. UNCHANGED ClosedMap
  BY <1>1 DEF ClosedMap
<1> QED BY <1>1, <1>2, <1>3, <1>4, <1>5, Stutter, ChannelsDistinct

----------------------------------------------------------------------------
(* The steps that the maps show *)

LEMMA CancelMapped ==
    ASSUME RefInv, Next, NEW w \in Watchers, BrokerCancels(w) PROVE Managed!Cancel
<1>1. /\ UNCHANGED <<obj, pc, confirmed, confirmMode, closed, closing, draining>>
      /\ pc[w] = "watch" /\ obj[watched[w]] = "open"
      /\ cancelled' = cancelled \cup {w}
  BY DEF BrokerCancels, lockVars, chanVars, objVars
<1>2. w = Generation /\ watched[w] = channel
  BY <1>1, Newest DEF RefInv, IInv, ReplacesTheCurrent
<1>3. ~ \E v \in Watchers : Install(v) \/ Rearmed(v)
  BY <1>1 DEF Install, Rearmed, Swap, RefInv, IInv, TypeOK
<1>4. StateMap[Generation] = "open" /\ WatcherMap[Generation] = "watching"
  BY <1>1, <1>2, ChannelsDistinct DEF StateMap, State, WatcherMap, Stage
<1>5. /\ Generation' = Generation /\ StateMap' = StateMap /\ WatcherMap' = WatcherMap
      /\ ConfirmedMap' = ConfirmedMap
  BY <1>1, <1>3, SameMaps DEF StateMap, State, WatcherMap, ConfirmedMap
<1>6. CancelledMap' = CancelledMap \cup {Generation}
  BY <1>1, <1>2, <1>3, SameMaps, ChannelsDistinct DEF CancelledMap, State
<1>7. UNCHANGED <<confirmMode, ClosedMap>>
  BY <1>1 DEF ClosedMap
<1> QED BY ONLY <1>4, <1>5, <1>6, <1>7, Zenon DEF Managed!Cancel, Managed!Live

\* Channels end: those of some generations, or none of a generation's.
LEMMA EndMapped ==
    ASSUME RefInv, Next, ChannelDies \/ ConnDies \/ ConnCloses
    PROVE  \/ UNCHANGED Managed!vars
           \/ \E G \in SUBSET Managed!Generations : Managed!End(G)
<1> DEFINE Ends == {g \in Generations : obj[ChannelOf(g)] = "open" /\ obj'[ChannelOf(g)] # "open"}
<1>1. /\ UNCHANGED <<pc, confirmed, confirmMode, closed, closing, cancelled, draining>>
      /\ \A c \in Chans : obj'[c] = "open" => obj[c] = "open"
  BY DEF ChannelDies, ConnDies, ConnCloses, AllEnd, lockVars, chanVars, listenVars, RefInv,
         IInv, TypeOK
<1>2. ~ \E v \in Watchers : Install(v) \/ Rearmed(v)
  BY <1>1 DEF Install, Rearmed, Swap, RefInv, IInv, TypeOK
<1>3. \A g \in Generations : obj'[ChannelOf(g)] = "open" => obj[ChannelOf(g)] = "open"
  BY <1>1, ChannelsDistinct
<1>4. UNCHANGED ClosedMap
  BY <1>1 DEF ClosedMap
<1>5. CASE Ends = {}
  BY <1>1, <1>2, <1>3, <1>4, <1>5, Stutter
<1>6. CASE Ends # {}
  <2>1. Ends \subseteq {g \in Generations : StateMap[g] = "open"}
    BY DEF StateMap, State
  <2>2. StateMap' = [g \in Generations |-> IF g \in Ends THEN "ended" ELSE StateMap[g]]
    BY <1>2, <1>3, SameMaps DEF StateMap, State
  <2>3. CancelledMap' = CancelledMap \ Ends
    BY <1>1, <1>2, <1>3, SameMaps DEF CancelledMap, State
  <2>4. UNCHANGED <<Generation, WatcherMap, ConfirmedMap>>
    BY <1>1, <1>2, SameMaps DEF WatcherMap, ConfirmedMap
  <2>5. UNCHANGED <<confirmMode, ClosedMap>>
    BY <1>1, <1>4
  <2> HIDE DEF Ends
  <2>6. Generations = Managed!Generations
    BY DEF Generations, Managed!Generations
  <2>7. Managed!End(Ends)
    BY ONLY <1>6, <2>1, <2>2, <2>3, <2>4, <2>5, <2>6, Zenon DEF Managed!End, Managed!Live
  <2> QED BY <2>1, <2>6, <2>7
<1> QED BY <1>5, <1>6

LEMMA ConfirmMapped ==
    ASSUME RefInv, Next, ConfirmEnd PROVE UNCHANGED Managed!vars \/ Managed!Confirm
<1>1. UNCHANGED <<obj, pc, closed, closing, cancelled, draining>> /\ confirming
  BY DEF ConfirmEnd, listenVars
<1>2. ~ \E v \in Watchers : Install(v) \/ Rearmed(v)
  BY <1>1 DEF Install, Rearmed, Swap, RefInv, IInv, TypeOK
<1>3. UNCHANGED ClosedMap
  BY <1>1 DEF ClosedMap
<1>4. CASE UNCHANGED <<confirmed, confirmMode>>
  BY <1>1, <1>2, <1>3, <1>4, Stutter
<1>5. CASE obj[channel] = "open" /\ confirmed' = confirmed \cup {channel} /\ confirmMode' = TRUE
  <2>1. ~confirmMode
    BY <1>1, Zenon DEF RefInv, MappingInv, ConfirmsForAReason
  <2>2. StateMap[Generation] = "open"
    BY <1>5, ChannelsDistinct DEF StateMap, State
  <2>3. UNCHANGED <<Generation, StateMap, WatcherMap, CancelledMap>>
    BY <1>1, <1>2, SameMaps DEF StateMap, State, WatcherMap, CancelledMap
  <2>4. ConfirmedMap' = ConfirmedMap \cup {Generation}
    BY <1>2, <1>5, SameMaps, ChannelsDistinct DEF ConfirmedMap
  <2> QED BY ONLY <1>3, <1>5, <2>1, <2>2, <2>3, <2>4, Zenon
          DEF Managed!Confirm, Managed!Live
<1> QED BY <1>4, <1>5, Zenon DEF ConfirmEnd, RpcSucceeds

LEMMA CloseMapped ==
    ASSUME RefInv, Next, CloseEnd PROVE Managed!Close
<1>1. /\ UNCHANGED <<pc, closed, confirmed, confirmMode, cancelled, draining>>
      /\ closing /\ ~closing' /\ obj' = ClosedObj(channel)
  BY DEF CloseEnd, chanVars, listenVars
<1>2. ~ \E v \in Watchers : Install(v) \/ Rearmed(v)
  BY <1>1 DEF Install, Rearmed, Swap, RefInv, IInv, TypeOK
<1>3. \A g \in Generations : obj'[ChannelOf(g)] = "open" <=>
                               obj[ChannelOf(g)] = "open" /\ g # Generation
  BY <1>1, ChannelsDistinct DEF ClosedObj, RefInv, IInv, TypeOK
<1>4. StateMap' = [StateMap EXCEPT ![Generation] = "ended"]
  BY <1>2, <1>3, SameMaps, ChannelsDistinct DEF StateMap, State
<1>5. CancelledMap' = CancelledMap \ {Generation}
  BY <1>1, <1>2, <1>3, SameMaps DEF CancelledMap, State
<1>6. UNCHANGED <<Generation, WatcherMap, ConfirmedMap>>
  BY <1>1, <1>2, SameMaps DEF WatcherMap, ConfirmedMap
<1>7. ~ClosedMap /\ ClosedMap' = TRUE
  BY <1>1 DEF ClosedMap, RefInv, IInv, ClosingIsClosed
<1>8. confirmMode' = confirmMode
  BY <1>1
<1> QED BY ONLY <1>4, <1>5, <1>6, <1>7, <1>8, Zenon DEF Managed!Close

\* One watcher moves, as its users can tell.
LEMMA WatcherMoves ==
    ASSUME RefInv, [Next]_vars, ~ \E v \in Watchers : Install(v) \/ Rearmed(v),
           NEW w \in Watchers, NEW next, pc' = [pc EXCEPT ![w] = next]
    PROVE  WatcherMap' = [WatcherMap EXCEPT ![w] = Stage(next)]
<1>1. \A g \in Generations : pc'[g] = IF g = w THEN next ELSE pc[g]
  BY ChannelsDistinct DEF RefInv, IInv, TypeOK
<1>2. \A g \in Generations :
        Stage(pc'[g]) = IF g = w THEN Stage(next) ELSE Stage(pc[g])
  BY <1>1
<1>3. WatcherMap' = [g \in Generations |-> Stage(pc'[g])]
  BY SameMaps
<1> QED BY ONLY <1>2, <1>3 DEF WatcherMap

\* The loop ends without a new channel: told to by Close, or because it believes
\* that the connection was closed, or because it finds the manager closed.
LEMMA GiveUpMapped ==
    ASSUME RefInv, Next, NEW w \in Watchers, StopWaiting(w) \/ GiveUp(w) \/ Discard(w)
    PROVE  Managed!GiveUp
<1>1. /\ UNCHANGED <<confirmed, confirmMode, closed, closing, cancelled, draining>>
      /\ pc[w] \in {"wait", "check", "discard"}
      /\ pc' = [pc EXCEPT ![w] = "unsubscribe"]
      /\ \/ obj' = obj
         \/ pc[w] = "discard" /\ obj' = ClosedObj(held[w])
  BY DEF StopWaiting, GiveUp, Discard, CloseHeld, Goto, lockVars, chanVars, objVars,
         listenVars
<1>2. w = Generation
  BY <1>1, Newest DEF RefInv, IInv, InLoop
<1>3. \A g \in Generations : obj'[ChannelOf(g)] = obj[ChannelOf(g)]
  BY <1>1, HeldFacts, ChannelsDistinct DEF ClosedObj, Fresh, RefInv, IInv, TypeOK
<1>4. ~ \E v \in Watchers : Install(v) \/ Rearmed(v)
  BY <1>1 DEF Install, Rearmed, Swap, RefInv, IInv, TypeOK
<1>5. StateMap[Generation] # "open" \/ Generation \in CancelledMap
  BY <1>1, <1>2, ChannelsDistinct
     DEF RefInv, MappingInv, LoopHasReason, InLoop, StateMap, State, CancelledMap
<1>6. WatcherMap[Generation] = "watching"
  BY <1>1, <1>2, ChannelsDistinct DEF WatcherMap, Stage
<1>7. WatcherMap' = [WatcherMap EXCEPT ![Generation] = "announcing"]
  BY <1>1, <1>2, <1>4, WatcherMoves DEF Stage
<1>8. UNCHANGED <<Generation, StateMap, CancelledMap, ConfirmedMap>>
  BY <1>1, <1>3, <1>4, SameMaps DEF StateMap, State, CancelledMap, ConfirmedMap
<1>9. UNCHANGED <<confirmMode, ClosedMap>>
  BY <1>1 DEF ClosedMap
<1> QED BY ONLY <1>5, <1>6, <1>7, <1>8, <1>9, Zenon
        DEF Managed!GiveUp, Managed!Lost, Managed!Live

LEMMA FinishMapped ==
    ASSUME RefInv, Next, NEW w \in Watchers, SeeGraceful(w) PROVE Managed!Finish
<1>1. /\ UNCHANGED <<obj, confirmed, confirmMode, closed, closing, cancelled, draining>>
      /\ pc[w] = "watch" /\ obj[watched[w]] # "open" /\ pc' = [pc EXCEPT ![w] = "done"]
  BY DEF SeeGraceful, lockVars, chanVars, objVars
<1>2. w = Generation /\ watched[w] = channel
  BY <1>1, Newest DEF RefInv, IInv, ReplacesTheCurrent
<1>3. ~ \E v \in Watchers : Install(v) \/ Rearmed(v)
  BY <1>1 DEF Install, Rearmed, Swap, RefInv, IInv, TypeOK
<1>4. StateMap[Generation] # "open" /\ WatcherMap[Generation] = "watching"
  BY <1>1, <1>2, ChannelsDistinct DEF StateMap, State, WatcherMap, Stage
<1>5. WatcherMap' = [WatcherMap EXCEPT ![Generation] = "over"]
  BY <1>1, <1>2, <1>3, WatcherMoves DEF Stage
<1>6. UNCHANGED <<Generation, StateMap, CancelledMap, ConfirmedMap>>
  BY <1>1, <1>3, SameMaps DEF StateMap, State, CancelledMap, ConfirmedMap
<1>7. UNCHANGED <<confirmMode, ClosedMap>>
  BY <1>1 DEF ClosedMap
<1> QED BY ONLY <1>4, <1>5, <1>6, <1>7, Zenon DEF Managed!Finish, Managed!Live

LEMMA AnnounceMapped ==
    ASSUME RefInv, Next, NEW w \in Watchers, DispatchDone(w)
    PROVE  w \in Managed!Generations /\ Managed!Announce(w)
<1>1. /\ UNCHANGED <<obj, confirmed, confirmMode, closed, closing, cancelled, draining>>
      /\ pc[w] = "dispatch" /\ pc' = [pc EXCEPT ![w] = "done"]
  BY DEF DispatchDone, lockVars, chanVars, objVars, listenVars
<1>2. w \in Generations
  BY <1>1, Newest DEF RefInv, IInv, Generations, Watchers
<1>3. ~ \E v \in Watchers : Install(v) \/ Rearmed(v)
  BY <1>1 DEF Install, Rearmed, Swap, RefInv, IInv, TypeOK
<1>4. WatcherMap[w] = "announcing"
  BY <1>1, <1>2 DEF WatcherMap, Stage
<1>5. WatcherMap' = [WatcherMap EXCEPT ![w] = "over"]
  BY <1>1, <1>3, WatcherMoves DEF Stage
<1>6. UNCHANGED <<Generation, StateMap, CancelledMap, ConfirmedMap>>
  BY <1>1, <1>3, SameMaps DEF StateMap, State, CancelledMap, ConfirmedMap
<1>7. UNCHANGED <<confirmMode, ClosedMap>>
  BY <1>1 DEF ClosedMap
<1>8. Generations = Managed!Generations
  BY DEF Generations, Managed!Generations
<1> QED BY ONLY <1>2, <1>4, <1>5, <1>6, <1>7, <1>8, Zenon DEF Managed!Announce

LEMMA RetireMapped ==
    ASSUME RefInv, Next, NEW w \in Watchers, CloseOld(w)
    PROVE  w \in Managed!Generations /\ Managed!Retire(w)
<1>1. /\ UNCHANGED <<confirmed, confirmMode, closed, closing, cancelled, draining>>
      /\ pc[w] = "closeOld" /\ pc' = [pc EXCEPT ![w] = "spawn"]
      /\ obj' = ClosedObj(held[w])
  BY DEF CloseOld, CloseHeld, lockVars, chanVars, listenVars
<1>2. w \in Generations /\ w # Generation
  BY <1>1, Newest DEF RefInv, IInv, Generations, Watchers
<1>3. held[w] = ChannelOf(w)
  BY <1>1, <1>2 DEF ChannelOf, RefInv, MappingInv, WatchedInOrder
<1>4. ~ \E v \in Watchers : Install(v) \/ Rearmed(v)
  BY <1>1 DEF Install, Rearmed, Swap, RefInv, IInv, TypeOK
<1>5. \A g \in Generations : obj'[ChannelOf(g)] = "open" <=>
                               obj[ChannelOf(g)] = "open" /\ g # w
  BY <1>1, <1>2, <1>3, ChannelsDistinct DEF ClosedObj, RefInv, IInv, TypeOK
<1>6. WatcherMap[w] = "retiring"
  BY <1>1, <1>2 DEF WatcherMap, Stage
<1>7. StateMap' = [StateMap EXCEPT ![w] = "ended"]
  BY <1>2, <1>4, <1>5, SameMaps DEF StateMap, State
<1>8. CancelledMap' = CancelledMap \ {w}
  BY <1>1, <1>4, <1>5, SameMaps DEF CancelledMap, State
<1>9. WatcherMap' = [WatcherMap EXCEPT ![w] = "announcing"]
  BY <1>1, <1>4, WatcherMoves DEF Stage
<1>10. UNCHANGED <<Generation, ConfirmedMap>>
  BY <1>1, <1>4, SameMaps DEF ConfirmedMap
<1>11. UNCHANGED <<confirmMode, ClosedMap>>
  BY <1>1 DEF ClosedMap
<1>12. Generations = Managed!Generations
  BY DEF Generations, Managed!Generations
<1> QED BY ONLY <1>2, <1>6, <1>7, <1>8, <1>9, <1>10, <1>11, <1>12, Zenon
        DEF Managed!Retire

\* The swap: the new channel was never a generation's, and is confirmed if need be.
LEMMA ReplaceMapped ==
    ASSUME RefInv, RefInv', Next, NEW w \in Watchers, Install(w) \/ Rearmed(w)
    PROVE  \E state \in {"open", "ended"} : Managed!Replace(state)
<1>1. /\ pc[w] \in {"install", "confirm"} /\ ~closed
      /\ w = Generation /\ Generation' = Generation + 1
      /\ watched[w] = channel /\ channel' = held[w]
      /\ pc' = [pc EXCEPT ![w] = "closeOld"]
      /\ UNCHANGED <<obj, watched, cancelled, draining, confirmMode, closed, closing>>
      /\ \/ ~confirmMode /\ confirmed' = confirmed
         \/ obj[held[w]] = "open" /\ confirmed' = confirmed \cup {held[w]}
  BY SwapFacts DEF RefInv
<1>2. /\ Generation \in Nat \ {0} /\ Generation' \in Watchers
      /\ Generations' = Generations \cup {Generation + 1}
      /\ Generation + 1 \notin Generations
      /\ Generation' # Generation
  <2>1. Generation' <= channel' /\ channel' \in Chans /\ Generation \in Nat \ {0}
    BY ChannelsDistinct DEF RefInv, IInv, TypeOK, MappingInv, OpenedInOrder
  <2>2. MaxChans \in Nat
    BY MaxChansAssumption
  <2> QED BY <1>1, <2>1, <2>2 DEF Generations, Chans, Watchers
<1>3. \A g \in Generations : ChannelOf(g)' = ChannelOf(g)
  BY <1>1, <1>2 DEF ChannelOf, Generations
<1>4. ASSUME NEW g, g = Generation + 1 PROVE ChannelOf(g)' = held[w]
  BY <1>1, <1>4 DEF ChannelOf
<1>5. \A g \in Generations : held[w] # ChannelOf(g)
  BY <1>1, HeldFacts DEF Fresh
<1> DEFINE new == IF obj[held[w]] = "open" THEN "open" ELSE "ended"
<1>6. StateMap' = [g \in 1..Generation + 1 |->
                    IF g \in Generations THEN StateMap[g] ELSE new]
  <2>1. \A g \in Generations' :
          State(g)' = IF g \in Generations THEN State(g) ELSE new
    <3>1. ASSUME NEW g \in Generations PROVE State(g)' = State(g)
      BY <1>1, <1>3 DEF State
    <3>2. ASSUME NEW g, g = Generation + 1 PROVE State(g)' = new
      BY <1>1, <1>4, <3>2 DEF State
    <3> QED BY <1>2, <3>1, <3>2
  <2>2. StateMap' = [g \in Generations' |-> IF g \in Generations THEN State(g) ELSE new]
    BY <2>1 DEF StateMap
  <2>3. Generations' = 1..Generation + 1
    BY <1>1 DEF Generations
  <2> QED BY <2>2, <2>3 DEF StateMap
<1>7. WatcherMap' = [g \in 1..Generation + 1 |->
                      IF g = Generation THEN "retiring"
                      ELSE IF g \in Generations THEN WatcherMap[g] ELSE "watching"]
  <2>1. pc[Generation'] = "unborn"
    BY <1>1, <1>2, Newest DEF RefInv, IInv
  <2>2. \A g \in Generations' :
          Stage(pc'[g]) = IF g = Generation THEN "retiring"
                          ELSE IF g \in Generations THEN Stage(pc[g]) ELSE "watching"
    BY <1>1, <1>2, <2>1, ChannelsDistinct DEF Stage, RefInv, IInv, TypeOK
  <2>3. Generations' = 1..Generation + 1
    BY <1>1 DEF Generations
  <2> QED BY <2>2, <2>3 DEF WatcherMap
<1>8. CancelledMap' = CancelledMap
  <2>1. Generation' \notin cancelled \cup draining
    BY <1>1, <1>2 DEF RefInv, MappingInv, WatchedInOrder
  <2>2. \A g \in Generations : State(g)' = State(g)
    BY <1>1, <1>3 DEF State
  <2> QED BY <1>1, <1>2, <2>1, <2>2 DEF CancelledMap
<1>9. ConfirmedMap' = IF confirmMode THEN ConfirmedMap \cup {Generation + 1} ELSE ConfirmedMap
  <2>1. held[w] \notin confirmed
    BY <1>1, ChannelsDistinct
       DEF RefInv, IInv, TypeOK, MappingInv, OpenedInOrder, Chans
  <2>2. CASE ~confirmMode /\ confirmed' = confirmed
    <3>1. \A g \in Generations' : ChannelOf(g)' \in confirmed' <=>
                                    g \in Generations /\ ChannelOf(g) \in confirmed
      BY <1>2, <1>3, <1>4, <2>1, <2>2
    <3>2. ConfirmedMap' = ConfirmedMap
      BY <1>2, <3>1 DEF ConfirmedMap
    <3> QED BY ONLY <2>2, <3>2, Zenon
  <2>3. CASE confirmMode /\ confirmed' = confirmed \cup {held[w]}
    <3>1. \A g \in Generations' : ChannelOf(g)' \in confirmed' <=>
            g = Generation + 1 \/ (g \in Generations /\ ChannelOf(g) \in confirmed)
      BY <1>2, <1>3, <1>4, <1>5, <2>3
    <3>2. ConfirmedMap' = ConfirmedMap \cup {Generation + 1}
      BY <1>2, <3>1 DEF ConfirmedMap
    <3> QED BY ONLY <2>3, <3>2, Zenon
  <2>4. CASE Install(w)
    <3>1. ~confirmMode /\ confirmed' = confirmed
      BY <2>4, Zenon DEF Install, objVars
    <3> QED BY <2>2, <3>1
  <2>5. CASE Rearmed(w)
    <3>1. confirmMode /\ confirmed' = confirmed \cup {held[w]}
      BY <2>5, Zenon DEF Rearmed, RefInv, MappingInv, ConfirmsForAReason
    <3> QED BY <2>3, <3>1
  <2> QED BY <2>4, <2>5
<1>10. /\ ~ClosedMap /\ UNCHANGED <<confirmMode, ClosedMap>>
       /\ Generation' = Generation + 1
  BY <1>1 DEF ClosedMap
<1>11. WatcherMap[Generation] = "watching"
  BY <1>1, ChannelsDistinct DEF WatcherMap, Stage
<1>12. \A g \in Generations : WatcherMap[g] # "retiring"
  <2>1. \A g \in Generations : pc[g] # "closeOld"
    BY <1>1, AloneAtSwap, ChannelsDistinct DEF RefInv, IInv, Holding
  <2> QED BY <2>1 DEF WatcherMap, Stage
<1>13. StateMap[Generation] # "open" \/ Generation \in CancelledMap
  BY <1>1, ChannelsDistinct
     DEF RefInv, MappingInv, LoopHasReason, InLoop, StateMap, State, CancelledMap
<1>14. Generations = Managed!Generations
  BY DEF Generations, Managed!Generations
<1>15. new \in {"open", "ended"}
  OBVIOUS
<1> HIDE DEF new
<1>16. Managed!Replace(new)
  BY ONLY <1>6, <1>7, <1>8, <1>9, <1>10, <1>11, <1>12, <1>13, <1>14, Zenon
     DEF Managed!Replace, Managed!Lost, Managed!Live
<1> QED BY <1>15, <1>16

\* Every step of the channel manager, as its users see it.
LEMMA StepMapped ==
    ASSUME RefInv, RefInv', [Next]_vars PROVE [Managed!Next]_(Managed!vars)
<1>1. CASE UNCHANGED vars
  <2>1. /\ UNCHANGED <<obj, pc, cancelled, draining, confirmed, confirmMode, closed, closing>>
    BY <1>1, Zenon DEF vars, lockVars, chanVars, objVars, listenVars
  <2>2. ~ \E w \in Watchers : Install(w) \/ Rearmed(w)
    BY <2>1 DEF Install, Rearmed, Swap, RefInv, IInv, TypeOK
  <2>3. UNCHANGED ClosedMap
    BY <2>1 DEF ClosedMap
  <2> QED BY <2>1, <2>2, <2>3, Stutter
<1>2. ASSUME Next, ChannelDies \/ ConnDies \/ ConnCloses
      PROVE  Managed!Next \/ UNCHANGED Managed!vars
  BY <1>2, EndMapped, Zenon DEF Managed!Next
<1>3. ASSUME Next, NEW w \in Watchers, BrokerCancels(w) PROVE Managed!Next
  BY <1>3, CancelMapped, Zenon DEF Managed!Next
<1>4. ASSUME Next, QuietEnvironment PROVE UNCHANGED Managed!vars
  BY <1>4, QuietEnvironmentStutters, Zenon
<1>5. ASSUME Next, ConfirmEnd PROVE Managed!Next \/ UNCHANGED Managed!vars
  BY <1>5, ConfirmMapped, Zenon DEF Managed!Next
<1>6. ASSUME Next, CloseEnd PROVE Managed!Next
  BY <1>6, CloseMapped, Zenon DEF Managed!Next
<1>7. ASSUME Next, NEW w \in Watchers, WatcherStep(w)
      PROVE  Managed!Next \/ UNCHANGED Managed!vars
  <2>1. CASE QuietMove(w) \/ Spawn(w) \/ CloseRejected(w)
    BY <1>7, <2>1, QuietMoveStutters, SpawnStutters, CloseRejectedStutters, Zenon
  <2>2. CASE \E c \in Chans : OpenSucceeds(w, c)
    BY <1>7, <2>2, OpenStutters, Zenon
  <2>3. CASE StopWaiting(w) \/ GiveUp(w) \/ Discard(w)
    BY <1>7, <2>3, GiveUpMapped, Zenon DEF Managed!Next
  <2>4. CASE SeeGraceful(w)
    BY <1>7, <2>4, FinishMapped, Zenon DEF Managed!Next
  <2>5. CASE DispatchDone(w)
    BY <1>7, <2>5, AnnounceMapped, Zenon DEF Managed!Next
  <2>6. CASE CloseOld(w)
    BY <1>7, <2>6, RetireMapped, Zenon DEF Managed!Next
  <2>7. CASE Install(w) \/ Rearmed(w)
    BY <1>7, <2>7, ReplaceMapped, Zenon DEF Managed!Next
  <2> QED BY <1>7, <2>1, <2>2, <2>3, <2>4, <2>5, <2>6, <2>7, Zenon
          DEF WatcherStep, LocalStep, OpenStep, CheckStep, SubscriptionStep, QuietMove
<1>8. ASSUME Next, NEW w \in Watchers, DrainStateChanges(w) PROVE UNCHANGED Managed!vars
  BY <1>8, DrainStutters, Zenon
<1> QED BY <1>1, <1>2, <1>3, <1>4, <1>5, <1>6, <1>7, <1>8, Zenon
        DEF Next, BrokerStep, ConnStep, UserStep, QuietEnvironment

LEMMA InitMapped == Init => Managed!Init
<1> SUFFICES ASSUME Init PROVE Managed!Init
  OBVIOUS
<1> USE MaxChansAssumption DEF Init, Chans, Watchers
<1>1. Generation = 1 /\ Generations = 1..1
  BY DEF Generation, Generations
<1>2. \A g \in 1..1 : g = 1 /\ ChannelOf(g) = 1
  BY <1>1 DEF ChannelOf
<1>3. obj[1] = "open" /\ pc[1] = "register"
  OBVIOUS
<1>4. StateMap = [g \in 1..1 |-> "open"]
  BY <1>1, <1>2, <1>3 DEF StateMap, State
<1>5. WatcherMap = [g \in 1..1 |-> "watching"]
  BY <1>1, <1>2, <1>3 DEF WatcherMap, Stage
<1>6. CancelledMap = {} /\ ConfirmedMap = {}
  BY DEF CancelledMap, ConfirmedMap
<1>7. confirmMode = FALSE /\ ClosedMap = FALSE
  BY Zenon DEF ClosedMap
<1> QED BY ONLY <1>1, <1>4, <1>5, <1>6, <1>7, Zenon DEF Managed!Init

\* To consumers and publishers the channel manager is a sequence of channels, each
\* installed only when its predecessor was lost and the manager not closed, in the
\* confirm mode of its predecessor, and announced only once the predecessor is
\* closed (channel.go:117-143, 262-347).
THEOREM Implementation == Spec => ImplementsManagedChannel
<1>1. RefInv /\ RefInv' /\ [Next]_vars => [Managed!Next]_(Managed!vars)
  BY StepMapped
<1>2. Spec => []IInv
  BY ManagerInvariant
<1>3. Spec => []MappingInv
  BY MappingSafety
<1>4. IInv /\ MappingInv => RefInv
  BY DEF RefInv
<1> QED BY InitMapped, <1>1, <1>2, <1>3, <1>4, PTL
        DEF Spec, ImplementsManagedChannel, Managed!Spec

LEMMA PromiseFromMapping == RefInv => ManagedInv
<1> SUFFICES ASSUME RefInv PROVE ManagedInv
  OBVIOUS
<1>1. Generations = Managed!Generations
  BY DEF Generations, Managed!Generations
<1>2. Managed!TypeOK
  <2>1. Generation \in Nat \ {0}
    BY ChannelsDistinct
  <2>2. StateMap \in [Generations -> {"open", "ended"}]
    BY DEF StateMap, State
  <2>3. WatcherMap \in [Generations -> {"watching", "retiring", "announcing", "over"}]
    BY DEF WatcherMap, Stage
  <2>4. CancelledMap \subseteq Generations /\ ConfirmedMap \subseteq Generations
    BY DEF CancelledMap, ConfirmedMap
  <2>5. confirmMode \in BOOLEAN /\ ClosedMap \in BOOLEAN
    BY Zenon DEF RefInv, IInv, TypeOK, ClosedMap
  <2> QED BY ONLY <1>1, <2>1, <2>2, <2>3, <2>4, <2>5, Zenon DEF Managed!TypeOK
<1>3. Managed!NoConfirmGap
  <2>1. confirmMode => channel \in confirmed
    BY Zenon DEF RefInv, IInv, ConfirmModeKept
  <2>2. channel \in confirmed => Generation \in ConfirmedMap
    BY ChannelsDistinct DEF ConfirmedMap
  <2> QED BY ONLY <2>1, <2>2, Zenon DEF Managed!NoConfirmGap
<1>4. Managed!OneOpenChannel
  <2>1. ASSUME NEW g \in Generations, StateMap[g] = "open"
        PROVE  \/ g = Generation /\ ~ClosedMap
               \/ WatcherMap[g] = "retiring" /\ g = Generation - 1
    <3>1. obj[ChannelOf(g)] = "open" /\ ChannelOf(g) \in Chans
      BY <2>1, ChannelsDistinct DEF StateMap, State
    <3>2. CASE ChannelOf(g) = channel /\ (closed => closing)
      BY <3>2, ChannelsDistinct DEF ClosedMap
    <3>3. ASSUME NEW w \in Watchers, held[w] = ChannelOf(g),
                 pc[w] \in {"install", "confirm", "reject", "discard", "closeOld"}
          PROVE  WatcherMap[g] = "retiring" /\ g = Generation - 1
      <4>1. pc[w] = "closeOld"
        BY <3>3, HeldFacts DEF Fresh
      <4>2. w \in Generations /\ w # Generation /\ w = Generation - 1
        BY <4>1, Newest DEF RefInv, IInv, Generations, Watchers
      <4>3. ChannelOf(w) = held[w]
        BY <4>1, <4>2 DEF ChannelOf, RefInv, MappingInv, WatchedInOrder
      <4>4. w = g
        BY <3>3, <4>2, <4>3, ChannelsDistinct
      <4> QED BY <4>1, <4>2, <4>4 DEF WatcherMap, Stage
    <3> QED BY <3>1, <3>2, <3>3, Zenon DEF RefInv, IInv, NoOrphanChannel
  <2> QED BY ONLY <1>1, <2>1, Zenon DEF Managed!OneOpenChannel, Managed!Live
<1> QED BY ONLY <1>2, <1>3, <1>4, Zenon DEF ManagedInv, Managed!Inv

\* What the promise says of its channels holds of the objects the manager has: at
\* most the current one and the one just replaced are open (channel.go:262-322).
THEOREM PromiseSafety == Spec => []ManagedInv
<1>1. IInv /\ MappingInv => ManagedInv
  BY PromiseFromMapping DEF RefInv
<1> QED BY <1>1, ManagerInvariant, MappingSafety, PTL

=============================================================================
