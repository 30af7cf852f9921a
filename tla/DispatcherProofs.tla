-------------------------- MODULE DispatcherProofs --------------------------
(***************************************************************************)
(* Safety of the event broadcaster, for any number of subscribers and of   *)
(* overlapping broadcasts.                                                 *)
(***************************************************************************)
EXTENDS Dispatcher, TLAPS

\* The initial state satisfies the protocol invariant.
LEMMA InitIInv == Init => IInv
  BY MaxSubsAssumption, HolderAssumption
     DEF Init, IInv, TypeOK, FreshIds, MutexOwnership, RemovedFirst, Subs, CleanupStates,
         ReceiverStates, DispatchStates

\* Every step keeps the variables in their types.
LEMMA NextTypeOK == TypeOK /\ [Next]_vars => TypeOK'
<1> SUFFICES ASSUME TypeOK, [Next]_vars PROVE TypeOK'
  OBVIOUS
<1> USE MaxSubsAssumption, HolderAssumption
    DEF TypeOK, tableVars, cleanupVars, dispatchVars, Subs, CleanupStates,
        ReceiverStates, DispatchStates
<1>1. CASE AllocateId
  BY <1>1 DEF AllocateId
<1>2. ASSUME NEW s \in Subs, Insert(s) PROVE TypeOK'
  BY <1>2 DEF Insert
<1>3. ASSUME NEW s \in Subs, Unsubscribe(s) PROVE TypeOK'
  BY <1>3 DEF Unsubscribe
<1>4. ASSUME NEW s \in Subs, CleanupStep(s) PROVE TypeOK'
  <2>1. CASE Delete(s)
    BY <2>1 DEF Delete
  <2>2. CASE LockForClose(s)
    BY <2>2 DEF LockForClose
  <2>3. CASE MarkRemoved(s)
    BY <2>3 DEF MarkRemoved
  <2>4. CASE CloseChannel(s)
    BY <2>4 DEF CloseChannel
  <2> QED BY <1>4, <2>1, <2>2, <2>3, <2>4 DEF CleanupStep
<1>5. ASSUME NEW d \in Dispatchers, Snapshot(d) PROVE TypeOK'
  BY <1>5 DEF Snapshot
<1>6. ASSUME NEW d \in Dispatchers, DispatchStep(d) PROVE TypeOK'
  <2>1. ASSUME NEW s \in Subs, Visit(d, s) PROVE TypeOK'
    BY <2>1 DEF Visit
  <2>2. CASE Return(d)
    BY <2>2 DEF Return
  <2>3. CASE LockSubscriber(d)
    BY <2>3 DEF LockSubscriber
  <2>4. CASE SkipRemoved(d)
    BY <2>4 DEF SkipRemoved
  <2>5. CASE EnterSelect(d)
    BY <2>5 DEF EnterSelect
  <2>6. CASE Send(d)
    BY <2>6 DEF Send
  <2>7. CASE Timeout(d)
    BY <2>7 DEF Timeout
  <2> HIDE DEF TypeOK, FreshIds, MutexOwnership, RemovedFirst
  <2> QED BY <1>6, <2>1, <2>2, <2>3, <2>4, <2>5, <2>6, <2>7 DEF DispatchStep
<1>7. ASSUME NEW s \in Subs, Await(s) PROVE TypeOK'
  BY <1>7 DEF Await
<1>8. ASSUME NEW s \in Subs, ObserveClose(s) PROVE TypeOK'
  BY <1>8 DEF ObserveClose
<1>9. CASE UNCHANGED vars
  BY <1>9 DEF vars
<1> QED
  BY <1>1, <1>2, <1>3, <1>4, <1>5, <1>6, <1>7, <1>8, <1>9 DEF Next
\* Ids are handed out once, in order.
LEMMA NextFreshIds == TypeOK /\ FreshIds /\ [Next]_vars => FreshIds'
<1> SUFFICES ASSUME TypeOK, FreshIds, [Next]_vars PROVE FreshIds'
  OBVIOUS
<1> USE MaxSubsAssumption, HolderAssumption
    DEF TypeOK, FreshIds, tableVars, cleanupVars, dispatchVars, Subs, CleanupStates,
        ReceiverStates, DispatchStates
<1>1. CASE AllocateId
  BY <1>1 DEF AllocateId
<1>2. ASSUME NEW s \in Subs, Insert(s) PROVE FreshIds'
  BY <1>2 DEF Insert
<1>3. ASSUME NEW s \in Subs, Unsubscribe(s) PROVE FreshIds'
  BY <1>3 DEF Unsubscribe
<1>4. ASSUME NEW s \in Subs, CleanupStep(s) PROVE FreshIds'
  <2>1. CASE Delete(s)
    BY <2>1 DEF Delete
  <2>2. CASE LockForClose(s)
    BY <2>2 DEF LockForClose
  <2>3. CASE MarkRemoved(s)
    BY <2>3 DEF MarkRemoved
  <2>4. CASE CloseChannel(s)
    BY <2>4 DEF CloseChannel
  <2> QED BY <1>4, <2>1, <2>2, <2>3, <2>4 DEF CleanupStep
<1>5. ASSUME NEW d \in Dispatchers, Snapshot(d) PROVE FreshIds'
  BY <1>5 DEF Snapshot
<1>6. ASSUME NEW d \in Dispatchers, DispatchStep(d) PROVE FreshIds'
  <2>1. ASSUME NEW s \in Subs, Visit(d, s) PROVE FreshIds'
    BY <2>1 DEF Visit
  <2>2. CASE Return(d)
    BY <2>2 DEF Return
  <2>3. CASE LockSubscriber(d)
    BY <2>3 DEF LockSubscriber
  <2>4. CASE SkipRemoved(d)
    BY <2>4 DEF SkipRemoved
  <2>5. CASE EnterSelect(d)
    BY <2>5 DEF EnterSelect
  <2>6. CASE Send(d)
    BY <2>6 DEF Send
  <2>7. CASE Timeout(d)
    BY <2>7 DEF Timeout
  <2> HIDE DEF TypeOK, FreshIds, MutexOwnership, RemovedFirst
  <2> QED BY <1>6, <2>1, <2>2, <2>3, <2>4, <2>5, <2>6, <2>7 DEF DispatchStep
<1>7. ASSUME NEW s \in Subs, Await(s) PROVE FreshIds'
  BY <1>7 DEF Await
<1>8. ASSUME NEW s \in Subs, ObserveClose(s) PROVE FreshIds'
  BY <1>8 DEF ObserveClose
<1>9. CASE UNCHANGED vars
  BY <1>9 DEF vars
<1> QED
  BY <1>1, <1>2, <1>3, <1>4, <1>5, <1>6, <1>7, <1>8, <1>9 DEF Next
\* The private mutex keeps matching the program locations of its users.
LEMMA NextMutexOwnership ==
    TypeOK /\ FreshIds /\ MutexOwnership /\ [Next]_vars => MutexOwnership'
<1> SUFFICES ASSUME TypeOK, FreshIds, MutexOwnership, [Next]_vars
             PROVE MutexOwnership'
  OBVIOUS
<1> USE HolderAssumption
    DEF TypeOK, MutexOwnership, tableVars, cleanupVars, dispatchVars, Subs,
        CleanupStates, DispatchStates
<1>1. CASE AllocateId
  BY <1>1, MaxSubsAssumption DEF AllocateId, FreshIds
<1>2. ASSUME NEW s \in Subs, Insert(s) PROVE MutexOwnership'
  BY <1>2 DEF Insert
<1>3. ASSUME NEW s \in Subs, Unsubscribe(s) PROVE MutexOwnership'
  BY <1>3 DEF Unsubscribe
<1>4. ASSUME NEW s \in Subs, CleanupStep(s) PROVE MutexOwnership'
  <2>1. CASE Delete(s)
    BY <2>1 DEF Delete
  <2>2. CASE LockForClose(s)
    BY <2>2 DEF LockForClose
  <2>3. CASE MarkRemoved(s)
    BY <2>3 DEF MarkRemoved
  <2>4. CASE CloseChannel(s)
    BY <2>4 DEF CloseChannel
  <2> QED BY <1>4, <2>1, <2>2, <2>3, <2>4 DEF CleanupStep
<1>5. ASSUME NEW d \in Dispatchers, Snapshot(d) PROVE MutexOwnership'
  BY <1>5 DEF Snapshot
<1>6. ASSUME NEW d \in Dispatchers, DispatchStep(d) PROVE MutexOwnership'
  <2>1. ASSUME NEW s \in Subs, Visit(d, s) PROVE MutexOwnership'
    BY <2>1 DEF Visit
  <2>2. CASE Return(d)
    BY <2>2 DEF Return
  <2>3. CASE LockSubscriber(d)
    BY <2>3 DEF LockSubscriber
  <2>4. CASE SkipRemoved(d)
    BY <2>4 DEF SkipRemoved
  <2>5. CASE EnterSelect(d)
    BY <2>5 DEF EnterSelect
  <2>6. CASE Send(d)
    BY <2>6 DEF Send
  <2>7. CASE Timeout(d)
    BY <2>7 DEF Timeout
  <2> HIDE DEF TypeOK, FreshIds, MutexOwnership, RemovedFirst
  <2> QED BY <1>6, <2>1, <2>2, <2>3, <2>4, <2>5, <2>6, <2>7 DEF DispatchStep
<1>7. ASSUME NEW s \in Subs, Await(s) PROVE MutexOwnership'
  BY <1>7 DEF Await
<1>8. ASSUME NEW s \in Subs, ObserveClose(s) PROVE MutexOwnership'
  BY <1>8 DEF ObserveClose
<1>9. CASE UNCHANGED vars
  BY <1>9 DEF vars
<1> QED
  BY <1>1, <1>2, <1>3, <1>4, <1>5, <1>6, <1>7, <1>8, <1>9 DEF Next

\* Only the cleanup goroutine raises the removed flag, and it holds the mutex
\* while it does: no dispatcher can be between its check and its send.
LEMMA NextRemovedFirst ==
    TypeOK /\ MutexOwnership /\ RemovedFirst /\ [Next]_vars => RemovedFirst'
<1> SUFFICES ASSUME TypeOK, MutexOwnership, RemovedFirst, [Next]_vars
             PROVE RemovedFirst'
  OBVIOUS
<1> USE HolderAssumption
    DEF TypeOK, RemovedFirst, tableVars, cleanupVars, dispatchVars, Subs,
        CleanupStates, DispatchStates
<1>1. CASE AllocateId
  BY <1>1, MaxSubsAssumption DEF AllocateId
<1>2. ASSUME NEW s \in Subs, Insert(s) PROVE RemovedFirst'
  BY <1>2 DEF Insert
<1>3. ASSUME NEW s \in Subs, Unsubscribe(s) PROVE RemovedFirst'
  BY <1>3 DEF Unsubscribe
<1>4. ASSUME NEW s \in Subs, CleanupStep(s) PROVE RemovedFirst'
  <2>1. CASE Delete(s)
    BY <2>1 DEF Delete
  <2>2. CASE LockForClose(s)
    BY <2>2 DEF LockForClose
  <2>3. CASE MarkRemoved(s)
    <3>1. mu[s] = Cleaner
      BY <2>3 DEF MarkRemoved, MutexOwnership
    <3>2. \A d \in Dispatchers : pc[d] = "send" => cur[d] # s
      BY <3>1 DEF MutexOwnership
    <3> QED BY <2>3, <3>2 DEF MarkRemoved
  <2>4. CASE CloseChannel(s)
    BY <2>4 DEF CloseChannel
  <2> QED BY <1>4, <2>1, <2>2, <2>3, <2>4 DEF CleanupStep
<1>5. ASSUME NEW d \in Dispatchers, Snapshot(d) PROVE RemovedFirst'
  BY <1>5 DEF Snapshot
<1>6. ASSUME NEW d \in Dispatchers, DispatchStep(d) PROVE RemovedFirst'
  <2>1. ASSUME NEW s \in Subs, Visit(d, s) PROVE RemovedFirst'
    BY <2>1 DEF Visit
  <2>2. CASE Return(d)
    BY <2>2 DEF Return
  <2>3. CASE LockSubscriber(d)
    BY <2>3 DEF LockSubscriber
  <2>4. CASE SkipRemoved(d)
    BY <2>4 DEF SkipRemoved
  <2>5. CASE EnterSelect(d)
    BY <2>5 DEF EnterSelect
  <2>6. CASE Send(d)
    BY <2>6 DEF Send
  <2>7. CASE Timeout(d)
    BY <2>7 DEF Timeout
  <2> HIDE DEF TypeOK, FreshIds, MutexOwnership, RemovedFirst
  <2> QED BY <1>6, <2>1, <2>2, <2>3, <2>4, <2>5, <2>6, <2>7 DEF DispatchStep
<1>7. ASSUME NEW s \in Subs, Await(s) PROVE RemovedFirst'
  BY <1>7 DEF Await
<1>8. ASSUME NEW s \in Subs, ObserveClose(s) PROVE RemovedFirst'
  BY <1>8 DEF ObserveClose
<1>9. CASE UNCHANGED vars
  BY <1>9 DEF vars
<1> QED
  BY <1>1, <1>2, <1>3, <1>4, <1>5, <1>6, <1>7, <1>8, <1>9 DEF Next

\* The locking protocol between Dispatch and the cleanup goroutines is an
\* invariant of the broadcaster.
THEOREM LockProtocol == Spec => []IInv
<1>1. IInv /\ [Next]_vars => IInv'
  BY NextTypeOK, NextFreshIds, NextMutexOwnership, NextRemovedFirst DEF IInv
<1> QED
  BY InitIInv, <1>1, PTL DEF Spec

\* However many subscribers come and go and however many broadcasts overlap,
\* Dispatch never sends on an event channel that was closed.
THEOREM SendSafety == Spec => []NoSendOnClosed
<1>1. IInv => NoSendOnClosed
  BY DEF IInv, RemovedFirst, NoSendOnClosed
<1> QED
  BY LockProtocol, <1>1, PTL

============================================================================
