----------------------- MODULE BlockedBroadcastProofs -----------------------
(***************************************************************************)
(* Safety of the blocked broadcast, for any publishers, any number of      *)
(* connections and of notifications.                                       *)
(***************************************************************************)
EXTENDS BlockedBroadcast, TLAPS

\* What the proofs need of the connections' numbers: none is Unlocked.
LEMMA ConnFacts == /\ 1 \in Conns /\ Unlocked \notin Conns
                   /\ \A c \in Conns : c < MaxConns => c + 1 \in Conns
  BY BoundsAssumption DEF Conns, Unlocked

\* The notifications, and what stands for none of them.
LEMMA NoteFacts ==
  /\ NoNote \in Notes /\ 0 \in 0..MaxNotes
  /\ \A n \in 0..MaxNotes : n < MaxNotes => n + 1 \in 0..MaxNotes
  /\ \A n \in 0..MaxNotes, b \in BOOLEAN : [n |-> n, active |-> b] \in Notes
  BY BoundsAssumption DEF NoNote, Notes

\* The initial state satisfies the protocol.
LEMMA InitProtocol == Init => Protocol
<1> SUFFICES ASSUME Init PROVE Protocol
  OBVIOUS
<1>1. TypeOK
  BY ConnFacts, NoteFacts DEF Init, TypeOK, CasterStates, PhaseStates, ReaderStates
<1>2. MutexOwnership /\ NoSendOnClosed
  BY ConnFacts, NoOneAssumption DEF Init, MutexOwnership, NoSendOnClosed, Sending
<1>3. NotInstalledYet
  BY DEF Init, NotInstalledYet
<1> QED BY <1>1, <1>2, <1>3 DEF Protocol

\* A step of a broadcasting goroutine keeps the variables in their types.
LEMMA CasterTypeOK == ASSUME TypeOK, MutexOwnership, NEW c \in Conns, CasterStep(c)
                      PROVE  TypeOK'
<1> USE NoteFacts, NoOneAssumption
    DEF TypeOK, MutexOwnership, Sending, CasterStates, connVars, brokerVars, casterVars, boxVars,
        readerVars
<1>1. CASE Receive(c)
  BY <1>1 DEF Receive
<1>2. CASE Clone(c)
  BY <1>2 DEF Clone, Visiting
<1>3. CASE Put(c)
  BY <1>3 DEF Put, UnlockReceiver, Visiting
<1>4. CASE DropOld(c)
  BY <1>4 DEF DropOld
<1>5. CASE PutAgain(c)
  BY <1>5 DEF PutAgain, UnlockReceiver, Visiting
<1>6. ASSUME NEW p \in Publishers, SkipRemoved(c, p) PROVE TypeOK'
  BY <1>6 DEF SkipRemoved, Visiting
<1>7. ASSUME NEW p \in Publishers, LockReceiver(c, p) PROVE TypeOK'
  BY <1>7 DEF LockReceiver
<1>8. CASE CasterEnds(c)
  BY <1>8 DEF CasterEnds
<1> HIDE DEF TypeOK
<1> QED BY <1>1, <1>2, <1>3, <1>4, <1>5, <1>6, <1>7, <1>8 DEF CasterStep

\* A step of a broadcasting goroutine leaves each mutex with the goroutine that sends
\* under it, and no closed receiver is being sent to.
LEMMA CasterProtocol == ASSUME Protocol, NEW c \in Conns, CasterStep(c)
                        PROVE  MutexOwnership' /\ NoSendOnClosed'
<1> USE ConnFacts, NoOneAssumption
    DEF Protocol, TypeOK, MutexOwnership, NoSendOnClosed, Sending, connVars, brokerVars, casterVars,
        boxVars, readerVars
<1> DEFINE Goal == MutexOwnership' /\ NoSendOnClosed'
<1>1. CASE Receive(c)
  BY <1>1 DEF Receive
<1>2. CASE Clone(c)
  BY <1>2 DEF Clone, Visiting
<1>3. CASE Put(c)
  BY <1>3 DEF Put, UnlockReceiver, Visiting
<1>4. CASE DropOld(c)
  BY <1>4 DEF DropOld
<1>5. CASE PutAgain(c)
  BY <1>5 DEF PutAgain, UnlockReceiver, Visiting
<1>6. ASSUME NEW p \in Publishers, SkipRemoved(c, p) PROVE Goal
  BY <1>6 DEF SkipRemoved, Visiting
<1>7. ASSUME NEW p \in Publishers, LockReceiver(c, p) PROVE Goal
  BY <1>7 DEF LockReceiver
<1>8. CASE CasterEnds(c)
  BY <1>8 DEF CasterEnds
<1> HIDE DEF Protocol
<1> QED BY <1>1, <1>2, <1>3, <1>4, <1>5, <1>6, <1>7, <1>8 DEF CasterStep

\* A step of a publisher keeps the variables in their types.
LEMMA PublisherTypeOK == ASSUME TypeOK, NEW p \in Publishers, PublisherStep(p) PROVE TypeOK'
<1> USE NoteFacts
    DEF TypeOK, connVars, brokerVars, casterVars, boxVars, readerVars, CasterStates, PhaseStates,
        ReaderStates
<1>1. CASE NotifyBlockedSafe(p)
  BY <1>1 DEF NotifyBlockedSafe
<1>2. CASE StartReader(p)
  BY <1>2 DEF StartReader
<1>3. CASE Take(p)
  BY <1>3 DEF Take
<1>4. CASE Apply(p)
  BY <1>4 DEF Apply
<1>5. CASE ReaderEnds(p)
  BY <1>5 DEF ReaderEnds
<1>6. CASE Delist(p)
  BY <1>6 DEF Delist
<1>7. CASE CloseReceiver(p)
  BY <1>7 DEF CloseReceiver
<1> HIDE DEF TypeOK
<1> QED BY <1>1, <1>2, <1>3, <1>4, <1>5, <1>6, <1>7 DEF PublisherStep, ReaderStep

\* A step of a publisher closes no receiver that is being sent to, because Close takes
\* its mutex first.
LEMMA PublisherProtocol == ASSUME Protocol, NEW p \in Publishers, PublisherStep(p)
                           PROVE  MutexOwnership' /\ NoSendOnClosed'
<1> USE ConnFacts
    DEF Protocol, TypeOK, MutexOwnership, NoSendOnClosed, Sending, connVars, brokerVars, casterVars,
        boxVars, readerVars
<1>1. CASE NotifyBlockedSafe(p)
  <2>1. ~Sending(conn) \/ caster' = caster
    BY <1>1 DEF NotifyBlockedSafe, Used
  <2> QED BY <1>1, <2>1 DEF NotifyBlockedSafe, Used
<1>2. CASE StartReader(p)
  BY <1>2 DEF StartReader
<1>3. CASE ReaderStep(p)
  BY <1>3 DEF ReaderStep, Take, Apply, ReaderEnds
<1>4. CASE Delist(p)
  BY <1>4 DEF Delist
<1>5. CASE CloseReceiver(p)
  BY <1>5 DEF CloseReceiver
<1> HIDE DEF Protocol
<1> QED BY <1>1, <1>2, <1>3, <1>4, <1>5 DEF PublisherStep

\* What the broker and the connection do keeps the protocol invariant: the goroutine
\* that a new connection gets is a first one.
LEMMA ConnectionProtocol == ASSUME Protocol, Notify \/ ConnectionEnds \/ Reconnect PROVE Protocol'
<1>1. CASE Notify \/ ConnectionEnds
  <2> USE DEF Notify, ConnectionEnds, connVars, casterVars, boxVars, readerVars
  <2>1. TypeOK'
    <3>1. issued' \in 0..MaxNotes /\ blocked' \in BOOLEAN /\ pending' \in Notes
      BY <1>1, NoteFacts DEF Protocol, TypeOK, brokerVars
    <3>2. conn' \in Conns /\ open' \in BOOLEAN
      BY <1>1 DEF Protocol, TypeOK
    <3> QED BY <1>1, <3>1, <3>2 DEF Protocol, TypeOK
  <2>2. NotInstalledYet'
    BY <1>1 DEF Protocol, NotInstalledYet
  <2>3. MutexOwnership' /\ NoSendOnClosed'
    BY <1>1 DEF Protocol, MutexOwnership, NoSendOnClosed, Sending
  <2> QED BY <2>1, <2>2, <2>3 DEF Protocol
<1>2. CASE Reconnect
  <2> USE DEF Protocol, Reconnect, boxVars, readerVars
  <2>1. conn + 1 \in Conns /\ conn + 1 > conn
    BY <1>2, BoundsAssumption DEF TypeOK, Conns
  <2>2. TypeOK'
    BY <1>2, <2>1 DEF TypeOK, CasterStates
  <2>3. NotInstalledYet'
    BY <1>2, <2>1, BoundsAssumption DEF TypeOK, NotInstalledYet, Conns
  <2>4. \A c \in Conns : Sending(c)' <=> Sending(c)
    BY <1>2, <2>1 DEF TypeOK, NotInstalledYet, Sending
  <2>5. MutexOwnership' /\ NoSendOnClosed'
    BY <1>2, <2>4 DEF MutexOwnership, NoSendOnClosed
  <2> QED BY <2>2, <2>3, <2>5
<1> QED BY <1>1, <1>2

\* A broadcasting goroutine starts no other.
LEMMA CasterKeeps == ASSUME Protocol, NEW c \in Conns, CasterStep(c) PROVE NotInstalledYet'
<1> USE DEF Protocol, TypeOK, NotInstalledYet, connVars, casterVars
<1>1. conn' = conn
  BY DEF CasterStep, Receive, Clone, Put, DropOld, PutAgain, SkipRemoved, LockReceiver, CasterEnds
<1>2. caster[c] # "none" /\ \A d \in Conns : d # c => caster'[d] = caster[d]
  BY DEF CasterStep, Receive, Clone, Put, DropOld, PutAgain, SkipRemoved, LockReceiver, CasterEnds,
         UnlockReceiver
<1> QED BY <1>1, <1>2

\* NotifyBlockedSafe starts a goroutine for the connection in use alone.
LEMMA PublisherKeeps == ASSUME Protocol, NEW p \in Publishers, PublisherStep(p)
                        PROVE  NotInstalledYet'
<1> USE DEF Protocol, TypeOK, NotInstalledYet, connVars, casterVars, PublisherStep, NotifyBlockedSafe,
            StartReader, ReaderStep, Take, Apply, ReaderEnds, Delist, CloseReceiver
<1>1. conn' = conn
  OBVIOUS
<1>2. \A d \in Conns : d # conn => caster'[d] = caster[d]
  OBVIOUS
<1>3. \A d \in Conns : d > conn => d # conn
  BY DEF Conns
<1> QED BY <1>1, <1>2, <1>3

\* Every step keeps the protocol invariant.
LEMMA NextProtocol == Protocol /\ [Next]_vars => Protocol'
<1> SUFFICES ASSUME Protocol, [Next]_vars PROVE Protocol'
  OBVIOUS
<1>1. CASE UNCHANGED vars
  BY <1>1 DEF vars, connVars, brokerVars, casterVars, boxVars, readerVars, Protocol, TypeOK,
              NotInstalledYet, MutexOwnership, NoSendOnClosed, Sending
<1>2. CASE Notify \/ ConnectionEnds \/ Reconnect
  BY <1>2, ConnectionProtocol
<1>3. ASSUME NEW c \in Conns, CasterStep(c) PROVE Protocol'
  <2>1. TypeOK'
    BY <1>3, CasterTypeOK DEF Protocol
  <2>2. NotInstalledYet'
    BY <1>3, CasterKeeps
  <2> QED BY <1>3, <2>1, <2>2, CasterProtocol DEF Protocol
<1>4. ASSUME NEW p \in Publishers, PublisherStep(p) PROVE Protocol'
  <2>1. TypeOK'
    BY <1>4, PublisherTypeOK DEF Protocol
  <2>2. NotInstalledYet'
    BY <1>4, PublisherKeeps
  <2> QED BY <1>4, <2>1, <2>2, PublisherProtocol DEF Protocol
<1> QED BY <1>1, <1>2, <1>3, <1>4 DEF Next

\* The private mutexes, and every variable's type, are as intended in every state.
THEOREM ProtocolInvariant == Spec => []Protocol
  BY InitProtocol, NextProtocol, PTL DEF Spec

\* sendLatestNonBlocking never sends into a receiver that Close has closed.
THEOREM NeverSendsOnClosed == Spec => []NoSendOnClosed
<1>1. Protocol => NoSendOnClosed
  BY DEF Protocol
<1> QED BY ProtocolInvariant, <1>1, PTL

----------------------------------------------------------------------------
(* The newest notification is never the one that is lost *)

\* The variables a publisher's life is about change in few steps.
LEMMA NextPublisherLife == ASSUME Protocol, PublisherLife, [Next]_vars PROVE PublisherLife'
<1> USE DEF Protocol, TypeOK, PublisherLife, Listed, Told, connVars, brokerVars, casterVars,
            boxVars, readerVars
<1>1. CASE UNCHANGED <<list, receivers, phase, removed, readerVars>>
  BY <1>1
<1>2. ASSUME NEW c \in Conns, Clone(c) PROVE PublisherLife'
  BY <1>2 DEF Clone
<1>3. ASSUME NEW p \in Publishers, NotifyBlockedSafe(p) PROVE PublisherLife'
  BY <1>3 DEF NotifyBlockedSafe
<1>4. ASSUME NEW p \in Publishers, StartReader(p) PROVE PublisherLife'
  BY <1>4 DEF StartReader
<1>5. ASSUME NEW p \in Publishers, Take(p) PROVE PublisherLife'
  BY <1>5 DEF Take
<1>6. ASSUME NEW p \in Publishers, Apply(p) PROVE PublisherLife'
  BY <1>6 DEF Apply
<1>7. ASSUME NEW p \in Publishers, ReaderEnds(p) PROVE PublisherLife'
  BY <1>7 DEF ReaderEnds
<1>8. ASSUME NEW p \in Publishers, Delist(p) PROVE PublisherLife'
  BY <1>8 DEF Delist
<1>9. ASSUME NEW p \in Publishers, CloseReceiver(p) PROVE PublisherLife'
  BY <1>9 DEF CloseReceiver
<1>10. ASSUME NEW c \in Conns, CasterStep(c), ~Clone(c)
       PROVE  UNCHANGED <<list, receivers, phase, removed, readerVars>>
  BY <1>10 DEF CasterStep, Receive, Put, DropOld, PutAgain, SkipRemoved, LockReceiver,
               CasterEnds
<1>11. CASE Notify \/ ConnectionEnds \/ Reconnect \/ UNCHANGED vars
  <2>1. UNCHANGED <<list, receivers, phase, removed, readerVars>>
    BY <1>11 DEF Notify, ConnectionEnds, Reconnect, vars
  <2> QED BY <1>1, <2>1
<1> HIDE DEF PublisherLife
<1> QED BY <1>1, <1>2, <1>3, <1>4, <1>5, <1>6, <1>7, <1>8, <1>9, <1>10, <1>11
        DEF Next, PublisherStep, ReaderStep

\* No two goroutines send to one receiver.
LEMMA OneSender == ASSUME Protocol, NEW c \in Conns, NEW d \in Conns, Sending(c),
                          target[d] = target[c]
                   PROVE  d = c
  BY DEF Protocol, TypeOK, MutexOwnership, NoSendOnClosed

\* Only the goroutine that sends to a receiver fills its buffer.
LEMMA NextBroadcastOfOne == ASSUME Protocol, BroadcastOfOne, [Next]_vars
                            PROVE  BroadcastOfOne'
<1> USE NoOneAssumption
    DEF Protocol, TypeOK, MutexOwnership, NoSendOnClosed, NotInstalledYet, BroadcastOfOne,
        Sending, connVars, brokerVars, casterVars, boxVars, readerVars
<1>1. ASSUME NEW c \in Conns, Receive(c) PROVE BroadcastOfOne'
  BY <1>1 DEF Receive
<1>2. ASSUME NEW c \in Conns, Clone(c) PROVE BroadcastOfOne'
  BY <1>2 DEF Clone, Visiting
<1>3. ASSUME NEW c \in Conns, NEW p \in Publishers, SkipRemoved(c, p) PROVE BroadcastOfOne'
  BY <1>3 DEF SkipRemoved, Visiting
<1>4. ASSUME NEW c \in Conns, NEW p \in Publishers, LockReceiver(c, p) PROVE BroadcastOfOne'
  BY <1>4 DEF LockReceiver
<1>5. ASSUME NEW c \in Conns, Put(c) PROVE BroadcastOfOne'
  <2>1. \A d \in Conns : d # c /\ Sending(d) => target[d] # target[c]
    BY <1>5, OneSender DEF Put
  <2> QED BY <1>5, <2>1 DEF Put, UnlockReceiver, Visiting
<1>6. ASSUME NEW c \in Conns, DropOld(c) PROVE BroadcastOfOne'
  BY <1>6 DEF DropOld
<1>7. ASSUME NEW c \in Conns, PutAgain(c) PROVE BroadcastOfOne'
  <2>1. \A d \in Conns : d # c /\ Sending(d) => target[d] # target[c]
    BY <1>7, OneSender DEF PutAgain
  <2> QED BY <1>7, <2>1 DEF PutAgain, UnlockReceiver, Visiting
<1>8. ASSUME NEW c \in Conns, CasterEnds(c) PROVE BroadcastOfOne'
  BY <1>8 DEF CasterEnds
<1>9. CASE Reconnect
  <2>1. conn + 1 \in Conns => caster[conn + 1] = "none"
    BY DEF Conns
  <2> QED BY <1>9, <2>1 DEF Reconnect
<1>10. ASSUME NEW p \in Publishers, NotifyBlockedSafe(p) PROVE BroadcastOfOne'
  <2>1. caster' = caster \/ (~Used /\ caster' = [caster EXCEPT ![conn] = "wait"])
    BY <1>10 DEF NotifyBlockedSafe
  <2> QED BY <1>10, <2>1 DEF NotifyBlockedSafe, Used
<1>11. ASSUME NEW p \in Publishers, Take(p) PROVE BroadcastOfOne'
  BY <1>11 DEF Take
<1>12. CASE UNCHANGED <<casterVars, box>>
  BY <1>12
<1>13. ASSUME NEW p \in Publishers, PublisherStep(p), ~NotifyBlockedSafe(p), ~Take(p)
       PROVE  UNCHANGED <<casterVars, box>>
  BY <1>13 DEF PublisherStep, ReaderStep, StartReader, Apply, ReaderEnds, Delist,
               CloseReceiver
<1>14. CASE Notify \/ ConnectionEnds \/ UNCHANGED vars
  <2>1. UNCHANGED <<casterVars, box>>
    BY <1>14 DEF Notify, ConnectionEnds, vars
  <2> QED BY <1>12, <2>1
<1> HIDE DEF BroadcastOfOne
<1> QED BY <1>1, <1>2, <1>3, <1>4, <1>5, <1>6, <1>7, <1>8, <1>9, <1>10, <1>11, <1>12,
           <1>13, <1>14
        DEF Next, CasterStep

\* What a step has to show of one publisher.
Underway(p) ==
    Listed(p) => \/ \E c \in Conns : Owes(c, p)
                 \/ Told(p) = {}
                 \/ Latest(p) \in {got[c] : c \in Told(p)}

\* A broadcast that puts its notification into the buffer has told p the latest.
LEMMA PutIsLatest ==
    ASSUME Protocol, BroadcastOfOne, NEW c \in Conns, Put(c) \/ PutAgain(c), target'[c] # target[c]
    PROVE  \A p \in Publishers : target[c] = p => Latest(p)' = got[c] /\ c \in Told(p)'
<1> SUFFICES ASSUME NEW p \in Publishers, target[c] = p
             PROVE  Latest(p)' = got[c] /\ c \in Told(p)'
  OBVIOUS
<1> USE DEF Protocol, TypeOK, BroadcastOfOne, casterVars, boxVars, readerVars
<1>1. Sending(c) /\ got[c] # NoNote /\ p \in receivers[c] /\ receivers' = receivers
  BY DEF Put, PutAgain, Sending
<1>2. box'[p] = got[c]
  BY DEF Put, PutAgain
<1> QED BY <1>1, <1>2 DEF Latest, Told

\* What p was told last, and what is still to come, in every step.
LEMMA NextNewest == ASSUME Protocol, PublisherLife, BroadcastOfOne, NewestUnderway, [Next]_vars
                    PROVE  NewestUnderway'
<1> SUFFICES ASSUME NEW p \in Publishers PROVE Underway(p)'
  BY DEF NewestUnderway, Underway
<1>0. Underway(p)
  BY DEF NewestUnderway, Underway
<1> USE DEF Protocol, TypeOK, PublisherLife, connVars, brokerVars, casterVars, boxVars, readerVars
<1>1. ASSUME NEW c \in Conns, Receive(c) PROVE Underway(p)'
  <2>1. caster'[c] = "clone"
    BY <1>1 DEF Receive
  <2> QED BY <2>1 DEF Underway, Owes
<1>2. ASSUME NEW c \in Conns, Clone(c) PROVE Underway(p)'
  <2>1. todo'[c] = list /\ (Listed(p)' => p \in list)
    BY <1>2 DEF Clone, Listed
  <2> QED BY <2>1 DEF Underway, Owes
<1>3. ASSUME NEW c \in Conns, NEW q \in Publishers, SkipRemoved(c, q) PROVE Underway(p)'
  <2>1. UNCHANGED <<phase, target, receivers, got, box, hand, heard>>
    BY <1>3 DEF SkipRemoved
  <2>2. Listed(p) => p # q
    BY <1>3 DEF SkipRemoved, Listed
  <2>3. \A d \in Conns : p # q /\ Owes(d, p) => Owes(d, p)'
    BY <1>3, <2>1 DEF SkipRemoved, Owes, Visiting
  <2> QED BY <1>0, <2>1, <2>2, <2>3 DEF Underway, Listed, Told, Latest
<1>4. ASSUME NEW c \in Conns, NEW q \in Publishers, LockReceiver(c, q) PROVE Underway(p)'
  <2>1. UNCHANGED <<phase, receivers, got, box, hand, heard>>
    BY <1>4 DEF LockReceiver
  <2>2. \A d \in Conns : Owes(d, p) => Owes(d, p)'
    BY <1>4, NoOneAssumption DEF LockReceiver, Owes, MutexOwnership, Sending
  <2> QED BY <1>0, <2>1, <2>2 DEF Underway, Listed, Told, Latest
<1>5. ASSUME NEW c \in Conns, Put(c) \/ PutAgain(c) PROVE Underway(p)'
  <2>1. UNCHANGED <<phase, receivers, got, todo, hand, heard>>
    BY <1>5 DEF Put, PutAgain
  <2>2. target[c] \in Publishers
    BY <1>5 DEF Put, PutAgain, NoSendOnClosed, Sending
  <2>3. CASE target[c] = p
    <3>1. CASE target'[c] = target[c]
      BY <2>3, <3>1 DEF Underway, Owes
    <3>2. CASE target'[c] # target[c]
      <4>1. Latest(p)' = got[c] /\ c \in Told(p)'
        BY <1>5, <2>3, <3>2, PutIsLatest
      <4> QED BY <2>1, <4>1 DEF Underway
    <3> QED BY <3>1, <3>2
  <2>4. CASE target[c] # p
    <3>1. box'[p] = box[p]
      BY <1>5, <2>4 DEF Put, PutAgain
    <3>2. \A d \in Conns : Owes(d, p) => Owes(d, p)'
      BY <1>5, <2>1, <2>4 DEF Put, PutAgain, UnlockReceiver, Owes, Visiting
    <3> QED BY <1>0, <2>1, <3>1, <3>2 DEF Underway, Listed, Told, Latest
  <2> QED BY <2>3, <2>4
<1>6. ASSUME NEW c \in Conns, DropOld(c) PROVE Underway(p)'
  <2>1. UNCHANGED <<phase, receivers, got, todo, target, hand, heard>>
    BY <1>6 DEF DropOld
  <2>2. CASE target[c] = p
    BY <2>1, <2>2 DEF Underway, Owes
  <2>3. CASE target[c] # p
    <3>1. box'[p] = box[p]
      BY <1>6, <2>3 DEF DropOld
    <3>2. \A d \in Conns : Owes(d, p) => Owes(d, p)'
      BY <1>6, <2>1 DEF DropOld, Owes
    <3> QED BY <1>0, <2>1, <3>1, <3>2 DEF Underway, Listed, Told, Latest
  <2> QED BY <2>2, <2>3
<1>7. CASE /\ UNCHANGED <<receivers, got, todo, target, box, hand, heard>>
           /\ \A d \in Conns : caster[d] = "clone" => caster'[d] = "clone"
           /\ Listed(p)' => Listed(p)
  <2>1. \A d \in Conns : Owes(d, p) => Owes(d, p)'
    BY <1>7 DEF Owes
  <2> QED BY <1>0, <1>7, <2>1 DEF Underway, Told, Latest
<1>8. ASSUME NEW q \in Publishers, NotifyBlockedSafe(q) PROVE Underway(p)'
  <2>1. UNCHANGED <<receivers, got, todo, target, box, hand, heard>>
    BY <1>8 DEF NotifyBlockedSafe
  <2>2. \A d \in Conns : caster[d] = "clone" => caster'[d] = "clone"
    BY <1>8 DEF NotifyBlockedSafe, Used
  <2>3. CASE p = q
    <3>1. Told(p)' = {}
      BY <1>8, <2>1, <2>3 DEF NotifyBlockedSafe, Told
    <3> QED BY <3>1 DEF Underway
  <2>4. CASE p # q
    <3>1. Listed(p)' => Listed(p)
      BY <1>8, <2>4 DEF NotifyBlockedSafe, Listed
    <3> QED BY <1>7, <2>1, <2>2, <3>1
  <2> QED BY <2>3, <2>4
<1>9. ASSUME NEW q \in Publishers, StartReader(q) PROVE Underway(p)'
  <2>1. heard' = heard
    BY <1>9 DEF StartReader
  <2>2. Listed(p)' => Listed(p)
    BY <1>9 DEF StartReader, Listed
  <2> QED BY <1>7, <1>9, <2>1, <2>2 DEF StartReader
<1>10. ASSUME NEW q \in Publishers, Take(q) \/ Apply(q) PROVE Underway(p)'
  <2>1. UNCHANGED <<receivers, got, todo, target, phase, caster>>
    BY <1>10 DEF Take, Apply
  <2>2. Latest(p)' = Latest(p)
    BY <1>10 DEF Take, Apply, Latest
  <2> QED BY <1>0, <2>1, <2>2 DEF Underway, Owes, Told, Listed
<1>11. ASSUME NEW q \in Publishers, ReaderEnds(q) \/ Delist(q) \/ CloseReceiver(q)
       PROVE  Underway(p)'
  <2>1. UNCHANGED <<receivers, got, todo, target, caster, box, hand, heard>>
    BY <1>11 DEF ReaderEnds, Delist, CloseReceiver
  <2>2. Listed(p)' => Listed(p)
    BY <1>11 DEF ReaderEnds, Delist, CloseReceiver, Listed
  <2> QED BY <1>7, <2>1, <2>2
<1>12. ASSUME NEW c \in Conns, CasterEnds(c) PROVE Underway(p)'
  BY <1>7, <1>12 DEF CasterEnds, Listed
<1>13. CASE Notify \/ ConnectionEnds \/ UNCHANGED vars
  BY <1>7, <1>13 DEF Notify, ConnectionEnds, vars, Listed
<1>14. CASE Reconnect
  <2>1. conn + 1 \in Conns => caster[conn + 1] = "none"
    BY DEF Conns, NotInstalledYet
  <2> QED BY <1>7, <1>14, <2>1 DEF Reconnect, Listed
<1> QED BY <1>1, <1>2, <1>3, <1>4, <1>5, <1>6, <1>8, <1>9, <1>10, <1>11, <1>12, <1>13, <1>14
        DEF Next, CasterStep, PublisherStep, ReaderStep

\* The whole inductive invariant.
THEOREM DeliveryInvariant == Spec => []IInv
<1>1. Init => PublisherLife /\ BroadcastOfOne /\ NewestUnderway
  BY NoOneAssumption DEF Init, PublisherLife, BroadcastOfOne, NewestUnderway, Listed, Told, Sending
<1>2. IInv /\ [Next]_vars => IInv'
  BY NextProtocol, NextPublisherLife, NextBroadcastOfOne, NextNewest DEF IInv
<1> QED BY InitProtocol, <1>1, <1>2, PTL DEF Spec, IInv

\* Whatever notifications overtake each other in the buffers and however slow the
\* readers are, a publisher that has caught up has applied the latest it was sent.
THEOREM LatestIsRead == Spec => []LatestRead
<1>1. IInv => LatestRead
  <2> SUFFICES ASSUME IInv, NEW p \in Publishers, phase[p] = "ready", Settled(p), Told(p) # {}
               PROVE  heard[p] \in {got[c] : c \in Told(p)}
    BY DEF LatestRead
  <2>1. \A c \in Conns : ~Owes(c, p)
    BY NoOneAssumption DEF IInv, Protocol, MutexOwnership, BroadcastOfOne, Settled, Owes, Sending
  <2>2. Latest(p) = heard[p]
    BY DEF Settled, Latest
  <2> QED BY <2>1, <2>2 DEF IInv, NewestUnderway, Listed
<1> QED BY DeliveryInvariant, <1>1, PTL
=============================================================================
