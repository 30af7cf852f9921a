--------------------------- MODULE PublisherProofs ---------------------------
(***************************************************************************)
(* Safety of a publisher, for any number of replacements of its channel,   *)
(* of callers and of messages.                                             *)
(*                                                                         *)
(* The publisher is first shown to use its channel manager as              *)
(* ManagedChannel allows, so that what is proved there holds here; the     *)
(* rest of the invariant is about the publisher's own variables.           *)
(***************************************************************************)
EXTENDS Publisher, TLAPS

SP == INSTANCE ManagedChannelProofs WITH cancelled <- {}

----------------------------------------------------------------------------
(* The channel manager of a publisher *)

\* The two instances of ManagedChannel are one specification.
LEMMA SameSteps == [S!Next]_(S!vars) => [SP!Next]_(SP!vars)
<1>1. S!Next => SP!Next
  BY DEF S!Next, SP!Next, S!End, SP!End, S!Cancel, SP!Cancel, S!GiveUp, SP!GiveUp,
         S!Finish, SP!Finish, S!Confirm, SP!Confirm, S!Close, SP!Close, S!Replace, SP!Replace,
         S!Retire, SP!Retire, S!Announce, SP!Announce, S!Generations, SP!Generations,
         S!Live, SP!Live, S!Lost, SP!Lost
<1> QED BY <1>1 DEF S!vars, SP!vars

\* Every step of the publisher is one its channel manager knows, or none of its own.
LEMMA ChannelStep == [Next]_vars => [S!Next]_(S!vars)
<1> SUFFICES ASSUME [Next]_vars PROVE [S!Next]_(S!vars)
  OBVIOUS
<1> USE DEF chanVars
<1>1. UNCHANGED chanVars => UNCHANGED S!vars
  BY DEF S!vars
<1>2. CASE ChannelEnds \/ Replace \/ CloseChannel
  <2>1. S!End({generation}) => {generation} \in SUBSET S!Generations
    BY DEF S!End
  <2> QED BY <1>2, <2>1 DEF ChannelEnds, Replace, CloseChannel, S!Next
<1>3. CASE WatcherLeaves
  BY <1>3 DEF WatcherLeaves, S!Next
<1>4. ASSUME NEW g \in S!Generations, Retire(g) \/ Announce(g) PROVE S!Next
  BY <1>4 DEF Retire, Announce, S!Next
<1>5. ASSUME NEW p \in Procs, StartStep(p) PROVE S!Next \/ UNCHANGED chanVars
  BY <1>5 DEF StartStep, StartReturnHandler, HasPublishHandler, ConfirmSucceeds, ConfirmFails,
              StartPublishHandler, ConfirmSafe, S!Next
<1>6. CASE OwnerStep
  <2>1. S!Next \/ UNCHANGED chanVars
    BY <1>6 DEF OwnerStep, Construct, ConstructFails, EnterConfirmMode, ConfirmSafe, TakeEvent,
                EventsEnd, CheckClosed, StartupSucceeds, StartupFails, WakeUp, S!Next
  <2> QED BY <1>1, <2>1
<1>7. CASE \/ OfferExpires \/ CloseErrCh \/ RegisterFlow \/ PublishConfirmed \/ MarkClosed
           \/ \E g \in Chans : Spawn(g) \/ \E tag \in 1..MaxTags : Invoke(g, tag)
           \/ \E p \in Callers : NotifyReturn(p) \/ \E set \in BOOLEAN : NotifyPublish(p, set)
  <2>1. UNCHANGED chanVars
    BY <1>7 DEF OfferExpires, CloseErrCh, RegisterFlow, PublishConfirmed, MarkClosed, Spawn,
                Invoke, NotifyReturn, NotifyPublish
  <2> QED BY <1>1, <2>1
<1>8. CASE UNCHANGED vars
  BY <1>1, <1>8 DEF vars
<1> QED BY <1>1, <1>2, <1>3, <1>4, <1>5, <1>6, <1>7, <1>8 DEF Next, Background, ManagerStep

\* A publisher deals with its channel manager as ManagedChannel lets its user do.
THEOREM UsesItsChannel == Spec => S!Spec
<1>1. Init => S!Init
  BY DEF Init
<1> QED BY <1>1, ChannelStep, PTL DEF Spec, S!Spec

\* So it has what is promised to it: at most two open channels, and confirm mode
\* without a gap.
THEOREM ChannelPromise == Spec => []S!Inv
<1>1. S!Init => SP!Init
  BY DEF S!Init, SP!Init
<1>2. S!Spec => SP!Spec
  BY <1>1, SameSteps, PTL DEF S!Spec, SP!Spec
<1>3. SP!Inv => S!Inv
  BY DEF S!Inv, SP!Inv, S!TypeOK, SP!TypeOK, S!Generations, SP!Generations, S!NoConfirmGap,
         SP!NoConfirmGap, S!OneOpenChannel, SP!OneOpenChannel, S!Live, SP!Live
<1> QED BY <1>2, <1>3, UsesItsChannel, SP!PromiseKept, PTL

\* Only one action makes a channel current.
LEMMA ReplaceOrSame == [Next]_vars => Replace \/ generation' = generation
<1> SUFFICES ASSUME [Next]_vars PROVE Replace \/ generation' = generation
  OBVIOUS
<1> USE DEF chanVars, S!End, S!GiveUp, S!Finish, S!Confirm, S!Close, S!Retire, S!Announce
<1>1. CASE OwnerStep
  BY <1>1 DEF OwnerStep, Construct, ConstructFails, EnterConfirmMode, ConfirmSafe, TakeEvent,
              EventsEnd, CheckClosed, StartupSucceeds, StartupFails, WakeUp
<1>2. CASE Background
  BY <1>2 DEF Background, ManagerStep, WatcherLeaves, OfferExpires, CloseErrCh, RegisterFlow,
              CloseChannel, Spawn, Invoke, Retire, Announce
<1>3. CASE \E p \in Procs : StartStep(p)
  BY <1>3 DEF StartStep, StartReturnHandler, HasPublishHandler, ConfirmSucceeds, ConfirmFails,
              StartPublishHandler, ConfirmSafe
<1>4. CASE \/ ChannelEnds \/ PublishConfirmed \/ MarkClosed \/ UNCHANGED vars
           \/ \E p \in Callers : NotifyReturn(p) \/ \E set \in BOOLEAN : NotifyPublish(p, set)
  BY <1>4 DEF ChannelEnds, PublishConfirmed, MarkClosed, vars, NotifyReturn, NotifyPublish
<1> QED BY <1>1, <1>2, <1>3, <1>4 DEF Next

\* What a step may do to the channels: replace the current one within the bound,
\* and turn confirm mode on for good.
LEMMA ChannelFrame ==
    ASSUME S!TypeOK, generation \in Chans, [Next]_vars
    PROVE  /\ generation' \in Chans /\ generation' >= generation
           /\ confirmed \subseteq confirmed'
           /\ confirmMode => confirmMode'
<1>1. [S!Next]_(S!vars)
  BY ChannelStep
<1>2. confirmed \subseteq confirmed' /\ (confirmMode => confirmMode')
  BY <1>1 DEF S!Next, S!vars, S!End, S!Cancel, S!GiveUp, S!Finish, S!Confirm, S!Close, S!Replace,
              S!Retire, S!Announce
<1>3. Replace \/ generation' = generation
  BY ReplaceOrSame
<1>4. generation' \in Chans /\ generation' >= generation
  BY <1>3, BoundsAssumption DEF Replace, S!Replace, Chans
<1> QED BY ONLY <1>2, <1>4, Zenon

----------------------------------------------------------------------------
(* The publisher's own variables *)

\* Their types, the flags apart.
OwnTypes ==
    /\ offers \in Nat
    /\ returnGeneration \in 0..generation /\ publishGeneration \in 0..generation
    /\ returnListeners \in [Chans -> Nat] /\ publishListeners \in [Chans -> Nat]
    /\ flowHeard \in 0..generation /\ flowStarting \in Nat
    /\ calls \in 0..MaxCalls
    /\ tags \in [Chans -> 0..MaxTags]
    /\ arrived \subseteq Chans \X (1..MaxTags) /\ handling \subseteq Chans \X (1..MaxTags)

Flags == /\ errChClosed \in BOOLEAN /\ built \in BOOLEAN
         /\ returnSet \in BOOLEAN /\ publishSet \in BOOLEAN

Places ==
    /\ pc \in [Procs -> {"idle", "construct", "mode", "range", "check", "startup", "sleep",
                         "return", "publish", "confirm", "register", "gone", "failed"}]
    /\ cpc \in {"open", "marked", "unsubscribe", "done"}

Missed == missed \subseteq {"flow", "return"}

LEMMA TypesSplit ==
    TypeOK <=> generation \in Chans /\ S!TypeOK /\ OwnTypes /\ Flags /\ Missed /\ Places
  BY Zenon DEF TypeOK, OwnTypes, Flags, Missed, Places

\* Only events that are taken or lost concern the history.
LEMMA MissedFrame == [Next]_vars => UNCHANGED missed \/ TakeEvent \/ OfferExpires
<1> SUFFICES ASSUME [Next]_vars, ~TakeEvent, ~OfferExpires PROVE UNCHANGED missed
  OBVIOUS
<1> USE DEF eventVars
<1>1. CASE OwnerStep
  BY <1>1 DEF OwnerStep, Construct, ConstructFails, EnterConfirmMode, EventsEnd, CheckClosed,
              StartupSucceeds, StartupFails, WakeUp
<1>2. CASE Background
  BY <1>2 DEF Background, ManagerStep, Replace, WatcherLeaves, CloseErrCh, RegisterFlow,
              CloseChannel, Spawn, Invoke, Retire, Announce
<1>3. CASE \E p \in Procs : StartStep(p)
  BY <1>3 DEF StartStep, StartReturnHandler, HasPublishHandler, ConfirmSucceeds, ConfirmFails,
              StartPublishHandler
<1>4. CASE \/ ChannelEnds \/ PublishConfirmed \/ MarkClosed \/ UNCHANGED vars
           \/ \E p \in Callers : NotifyReturn(p) \/ \E set \in BOOLEAN : NotifyPublish(p, set)
  BY <1>4 DEF ChannelEnds, PublishConfirmed, MarkClosed, vars, NotifyReturn, NotifyPublish
<1> QED BY <1>1, <1>2, <1>3, <1>4 DEF Next

LEMMA NextMissed == ASSUME Missed, [Next]_vars PROVE Missed'
  BY MissedFrame DEF Missed, TakeEvent, OfferExpires, Passed

\* A flag is set once, or set to what the caller of NotifyPublish says.
LEMMA NextFlags == ASSUME Flags, [Next]_vars PROVE Flags'
<1>1. /\ errChClosed' = errChClosed \/ errChClosed' = TRUE
      /\ built' = built \/ built' = TRUE
      /\ returnSet' = returnSet \/ returnSet' = TRUE
      /\ publishSet' = publishSet \/ \E set \in BOOLEAN : publishSet' = set
  <2> USE DEF eventVars, handlerVars, closeVars
  <2>1. CASE OwnerStep
    BY <2>1 DEF OwnerStep, Construct, ConstructFails, EnterConfirmMode, TakeEvent,
                EventsEnd, CheckClosed, StartupSucceeds, StartupFails, WakeUp
  <2>2. CASE Background
    BY <2>2 DEF Background, ManagerStep, Replace, WatcherLeaves, OfferExpires, CloseErrCh,
                RegisterFlow, CloseChannel, Spawn, Invoke, Retire, Announce
  <2>3. CASE \E p \in Procs : StartStep(p)
    <3>1. PICK p \in Procs : StartStep(p)
      BY <2>3
    <3>2. built' = built \/ built' = TRUE \/ built' = (built \/ p = Owner)
      BY <3>1 DEF StartStep, StartReturnHandler, HasPublishHandler, ConfirmSucceeds,
                  ConfirmFails, StartPublishHandler
    <3>3. (built \/ p = Owner) = built \/ (built \/ p = Owner) = TRUE
      BY Zenon DEF Flags
    <3>4. UNCHANGED <<errChClosed, returnSet, publishSet>>
      BY <3>1 DEF StartStep, StartReturnHandler, HasPublishHandler, ConfirmSucceeds,
                  ConfirmFails, StartPublishHandler
    <3> QED BY <3>2, <3>3, <3>4
  <2>4. CASE \/ ChannelEnds \/ PublishConfirmed \/ MarkClosed \/ UNCHANGED vars
             \/ \E p \in Callers : NotifyReturn(p) \/ \E set \in BOOLEAN : NotifyPublish(p, set)
    BY <2>4 DEF ChannelEnds, PublishConfirmed, MarkClosed, vars, NotifyReturn, NotifyPublish
  <2> QED BY <2>1, <2>2, <2>3, <2>4 DEF Next
<1> QED BY <1>1, Zenon DEF Flags

\* Nobody leaves the places there are.
LEMMA NextPlaces == ASSUME Places, [Next]_vars PROVE Places'
<1> USE DEF Places, Goto, closeVars
<1>1. CASE OwnerStep
  <2>1. Owner \in Procs
    BY DEF Procs
  <2> QED
    BY <1>1, <2>1 DEF OwnerStep, Construct, ConstructFails, EnterConfirmMode, TakeEvent,
                EventsEnd, CheckClosed, StartupSucceeds, StartupFails, WakeUp
<1>2. CASE Background
  BY <1>2 DEF Background, ManagerStep, Replace, WatcherLeaves, OfferExpires, CloseErrCh,
              RegisterFlow, CloseChannel, Spawn, Invoke, Retire, Announce
<1>3. ASSUME NEW p \in Procs, StartStep(p) PROVE Places'
  BY <1>3 DEF StartStep, StartReturnHandler, HasPublishHandler, ConfirmSucceeds,
              ConfirmFails, StartPublishHandler, AfterHandlers
<1>4. CASE \/ ChannelEnds \/ PublishConfirmed \/ MarkClosed \/ UNCHANGED vars
           \/ \E p \in Callers : NotifyReturn(p) \/ \E set \in BOOLEAN : NotifyPublish(p, set)
  <2>1. Callers \subseteq Procs
    BY DEF Procs
  <2> QED BY <1>4, <2>1 DEF ChannelEnds, PublishConfirmed, MarkClosed, vars, NotifyReturn, NotifyPublish
<1> QED BY <1>1, <1>2, <1>3, <1>4 DEF Next

\* The counters, sets and maps, step by step where they change.
LEMMA NextOwnTypes ==
    ASSUME generation \in Chans, S!TypeOK, OwnTypes, [Next]_vars PROVE OwnTypes'
<1>0. generation' \in Chans /\ generation' >= generation /\ generation \in Nat
  BY ChannelFrame, BoundsAssumption DEF Chans
<1>1. 0..generation \subseteq 0..generation' /\ generation \in 0..generation'
  BY <1>0, BoundsAssumption DEF Chans
<1> USE DEF OwnTypes, handlerVars, notifyVars, flowVars, confirmVars, eventVars, userVars
<1>2. CASE UNCHANGED <<offers, returnGeneration, publishGeneration, notifyVars, flowVars, userVars>>
  BY <1>1, <1>2
<1>3. CASE OwnerStep
  <2>1. /\ UNCHANGED <<returnGeneration, publishGeneration, notifyVars, flowHeard, userVars>>
        /\ flowStarting' \in {flowStarting, flowStarting + 1}
        /\ offers' = offers \/ (offers > 0 /\ offers' = offers - 1)
    BY <1>3 DEF OwnerStep, Construct, ConstructFails, EnterConfirmMode, TakeEvent,
                EventsEnd, CheckClosed, StartupSucceeds, StartupFails, WakeUp, Startup
  <2> QED BY <1>1, <2>1
<1>4. CASE ManagerStep
  <2>1. /\ UNCHANGED <<returnGeneration, publishGeneration, notifyVars, flowVars, userVars>>
        /\ offers' \in {offers, offers + 1} \/ (offers > 0 /\ offers' = offers - 1)
    BY <1>4 DEF ManagerStep, Replace, WatcherLeaves, OfferExpires, CloseErrCh, Retire, Announce
  <2> QED BY <1>1, <2>1
<1>5. CASE RegisterFlow
  BY <1>1, <1>5 DEF RegisterFlow
<1>6. ASSUME NEW g \in Chans, Spawn(g) PROVE OwnTypes'
  BY <1>1, <1>6 DEF Spawn
<1>7. ASSUME NEW g \in Chans, NEW tag \in 1..MaxTags, Invoke(g, tag) PROVE OwnTypes'
  BY <1>1, <1>7 DEF Invoke
<1>8. ASSUME NEW p \in Procs, StartStep(p) PROVE OwnTypes'
  <2>1. /\ UNCHANGED <<offers, flowVars, userVars>>
        /\ returnGeneration' \in {returnGeneration, generation}
        /\ publishGeneration' \in {publishGeneration, generation}
        /\ returnListeners' \in {returnListeners, Registered(returnListeners)}
        /\ publishListeners' \in {publishListeners, Registered(publishListeners)}
    BY <1>8 DEF StartStep, StartReturnHandler, HasPublishHandler, ConfirmSucceeds,
                ConfirmFails, StartPublishHandler
  <2>2. \A listeners \in [Chans -> Nat] : Registered(listeners) \in [Chans -> Nat]
    BY DEF Registered
  <2> QED BY <1>1, <2>1, <2>2
<1>9. CASE PublishConfirmed
  <2>1. calls' \in 0..MaxCalls
    BY <1>9, BoundsAssumption DEF PublishConfirmed, Call
  <2>2. PICK last \in (tags[generation] + 1)..MaxTags :
           /\ tags' = [tags EXCEPT ![generation] = last]
           /\ arrived' = IF publishListeners[generation] > 0
                           THEN arrived \cup ({generation} \X ((tags[generation] + 1)..last))
                           ELSE arrived
    BY <1>9 DEF PublishConfirmed
  <2>3. last \in 0..MaxTags /\ (tags[generation] + 1)..last \subseteq 1..MaxTags
    BY <2>2, BoundsAssumption
  <2>4. tags' \in [Chans -> 0..MaxTags]
    BY <2>2, <2>3
  <2>5. {generation} \X ((tags[generation] + 1)..last) \subseteq Chans \X (1..MaxTags)
    BY <2>3
  <2>6. arrived' \subseteq Chans \X (1..MaxTags)
    BY <2>2, <2>5
  <2> QED BY <1>1, <1>9, <2>1, <2>4, <2>6 DEF PublishConfirmed
<1>10. ASSUME NEW p \in Callers, NotifyReturn(p) \/ \E set \in BOOLEAN : NotifyPublish(p, set)
       PROVE  OwnTypes'
  <2>1. calls' \in 0..MaxCalls
    BY <1>10, BoundsAssumption DEF NotifyReturn, NotifyPublish, Call
  <2> QED BY <1>1, <1>10, <2>1 DEF NotifyReturn, NotifyPublish
<1>11. CASE ChannelEnds \/ MarkClosed \/ CloseChannel \/ UNCHANGED vars
  BY <1>2, <1>11 DEF ChannelEnds, MarkClosed, CloseChannel, vars
<1> HIDE DEF OwnTypes
<1> QED BY <1>3, <1>4, <1>5, <1>6, <1>7, <1>8, <1>9, <1>10, <1>11 DEF Next, Background

\* A goroutine is past ConfirmSafe only when confirm mode is on, and it stays on.
LEMMA NextPastConfirm ==
    ASSUME S!TypeOK, generation \in Chans, Places, PastConfirm, [Next]_vars PROVE PastConfirm'
<1> SUFFICES ASSUME NEW p \in Procs, pc'[p] = "register" PROVE confirmMode'
  BY Zenon DEF PastConfirm
<1>1. confirmMode => confirmMode'
  BY ChannelFrame
<1>2. CASE pc[p] = "register"
  BY <1>1, <1>2 DEF PastConfirm
<1>3. ASSUME pc[p] # "register" PROVE ConfirmSucceeds(p)
  <2> USE <1>3 DEF Goto, Places, closeVars
  <2>1. pc' # pc
    BY <1>3
  <2>2. ~OwnerStep
    BY DEF OwnerStep, Construct, ConstructFails, EnterConfirmMode, TakeEvent,
           EventsEnd, CheckClosed, StartupSucceeds, StartupFails, WakeUp
  <2>3. ~Background
    BY <2>1 DEF Background, ManagerStep, Replace, WatcherLeaves, OfferExpires, CloseErrCh,
              RegisterFlow, CloseChannel, Spawn, Invoke, Retire, Announce
  <2>4. ~(\/ ChannelEnds \/ PublishConfirmed \/ MarkClosed \/ UNCHANGED vars
          \/ \E q \in Callers : NotifyReturn(q) \/ \E set \in BOOLEAN : NotifyPublish(q, set))
    BY <2>1 DEF ChannelEnds, PublishConfirmed, MarkClosed, vars, NotifyReturn, NotifyPublish
  <2>5. PICK q \in Procs : StartStep(q)
    BY <2>2, <2>3, <2>4 DEF Next
  <2>6. ConfirmSucceeds(q)
    BY <2>5 DEF StartStep, StartReturnHandler, HasPublishHandler, ConfirmFails,
                StartPublishHandler, AfterHandlers
  <2> QED BY <2>6 DEF ConfirmSucceeds
<1>4. ConfirmSucceeds(p) => confirmMode'
  BY DEF ConfirmSucceeds, ConfirmSafe, S!Confirm, chanVars
<1> QED BY <1>2, <1>3, <1>4

\* Only a goroutine that finds its generation new registers, and it leaves it old.
LEMMA NextOneListener ==
    ASSUME TypeOK, S!NoConfirmGap, PastConfirm, OneListener, [Next]_vars PROVE OneListener'
<1>1. confirmed \subseteq confirmed' /\ generation \in Chans /\ OwnTypes
  BY ChannelFrame, TypesSplit
<1> USE DEF handlerVars, notifyVars
<1>2. CASE UNCHANGED <<returnGeneration, publishGeneration, notifyVars>>
  BY <1>1, <1>2 DEF OneListener
<1>3. ASSUME NEW p \in Procs, StartReturnHandler(p) PROVE OneListener'
  <2>1. CASE returnGeneration = generation \/ ~returnSet
    BY <1>2, <1>3, <2>1 DEF StartReturnHandler
  <2>2. CASE returnGeneration # generation /\ returnSet
    <3>1. /\ UNCHANGED <<publishGeneration, publishListeners>>
          /\ returnGeneration' = generation
          /\ returnListeners' = Registered(returnListeners)
      BY <1>3, <2>2 DEF StartReturnHandler
    <3>2. \A g \in Chans : returnListeners[g] > 0 => returnListeners[g] = 1 /\ g < generation
      BY <1>1, <2>2, BoundsAssumption DEF OneListener, OwnTypes, Chans
    <3>3. \A g \in Chans : returnListeners'[g] > 0 => returnListeners'[g] = 1 /\ g <= generation
      BY <1>1, <3>1, <3>2, BoundsAssumption DEF Registered, OwnTypes, Chans
    <3> QED BY <1>1, <3>1, <3>3 DEF OneListener
  <2> QED BY <2>1, <2>2
<1>4. ASSUME NEW p \in Procs, StartPublishHandler(p) PROVE OneListener'
  <2>1. CASE publishGeneration = generation \/ ~publishSet
    BY <1>2, <1>4, <2>1 DEF StartPublishHandler
  <2>2. CASE publishGeneration # generation /\ publishSet
    <3>1. /\ UNCHANGED <<returnGeneration, returnListeners>>
          /\ publishGeneration' = generation
          /\ publishListeners' = Registered(publishListeners)
      BY <1>4, <2>2 DEF StartPublishHandler
    <3>2. \A g \in Chans : publishListeners[g] > 0 =>
             publishListeners[g] = 1 /\ g < generation /\ g \in confirmed
      BY <1>1, <2>2, BoundsAssumption DEF OneListener, OwnTypes, Chans
    <3>3. generation \in confirmed
      BY <1>4 DEF StartPublishHandler, PastConfirm, S!NoConfirmGap
    <3>4. \A g \in Chans : publishListeners'[g] > 0 =>
             publishListeners'[g] = 1 /\ g <= generation /\ g \in confirmed
      BY <1>1, <3>1, <3>2, <3>3, BoundsAssumption DEF Registered, OwnTypes, Chans
    <3> QED BY <1>1, <3>1, <3>4 DEF OneListener
  <2> QED BY <2>1, <2>2
<1>5. ASSUME NEW p \in Procs, StartStep(p), ~StartReturnHandler(p), ~StartPublishHandler(p)
      PROVE  UNCHANGED <<returnGeneration, publishGeneration, notifyVars>>
  BY <1>5 DEF StartStep, HasPublishHandler, ConfirmSucceeds, ConfirmFails
<1>6. CASE OwnerStep
  BY <1>2, <1>6 DEF OwnerStep, Construct, ConstructFails, EnterConfirmMode, TakeEvent,
                    EventsEnd, CheckClosed, StartupSucceeds, StartupFails, WakeUp
<1>7. CASE Background
  BY <1>2, <1>7 DEF Background, ManagerStep, Replace, WatcherLeaves, OfferExpires, CloseErrCh,
              RegisterFlow, CloseChannel, Spawn, Invoke, Retire, Announce
<1>8. CASE \/ ChannelEnds \/ PublishConfirmed \/ MarkClosed \/ UNCHANGED vars
           \/ \E p \in Callers : NotifyReturn(p) \/ \E set \in BOOLEAN : NotifyPublish(p, set)
  BY <1>2, <1>8 DEF ChannelEnds, PublishConfirmed, MarkClosed, vars, NotifyReturn, NotifyPublish
<1> QED BY <1>2, <1>3, <1>4, <1>5, <1>6, <1>7, <1>8 DEF Next

\* The publisher's life goes one way.
LEMMA NextLifecycle == ASSUME Flags, Places, Lifecycle, [Next]_vars PROVE Lifecycle'
<1> USE DEF Lifecycle, Flags, Places, Goto, eventVars, handlerVars, closeVars, isClosed, Procs
<1>1. CASE OwnerStep
  BY <1>1 DEF OwnerStep, Construct, ConstructFails, EnterConfirmMode, TakeEvent,
              EventsEnd, CheckClosed, StartupSucceeds, StartupFails, WakeUp
<1>2. CASE Background
  <2>1. /\ UNCHANGED <<handlerVars, built, pc>>
        /\ \/ UNCHANGED <<errChClosed, cpc>>
           \/ cpc = "marked" /\ cpc' = "unsubscribe" /\ UNCHANGED errChClosed
           \/ cpc = "unsubscribe" /\ cpc' = "done"
    BY <1>2 DEF Background, ManagerStep, Replace, WatcherLeaves, OfferExpires, CloseErrCh,
                RegisterFlow, CloseChannel, Spawn, Invoke, Retire, Announce
  <2> QED BY <2>1
<1>3. ASSUME NEW p \in Procs, StartStep(p) PROVE Lifecycle'
  BY <1>3 DEF StartStep, StartReturnHandler, HasPublishHandler, ConfirmSucceeds,
              ConfirmFails, StartPublishHandler, AfterHandlers
<1>4. CASE \/ ChannelEnds \/ PublishConfirmed \/ MarkClosed \/ UNCHANGED vars
           \/ \E p \in Callers : NotifyReturn(p) \/ \E set \in BOOLEAN : NotifyPublish(p, set)
  BY <1>4, OwnerAssumption DEF ChannelEnds, PublishConfirmed, MarkClosed, vars, NotifyReturn,
                               NotifyPublish
<1> QED BY <1>1, <1>2, <1>3, <1>4 DEF Next

\* A current channel that is not replaced does not come to life again.
LEMMA CurrentStays ==
    ASSUME S!TypeOK, generation \in Chans, [Next]_vars, ~Replace
    PROVE  generation' = generation /\ (Live(generation)' => Live(generation))
<1>1. [S!Next]_(S!vars)
  BY ChannelStep
<1>2. generation' = generation
  BY ReplaceOrSame
<1>3. generation \in S!Generations
  BY DEF S!TypeOK, S!Generations
<1> USE BoundsAssumption DEF Chans, Live, S!Live, S!TypeOK
<1>4. CASE \E G \in SUBSET S!Generations : S!End(G)
  BY <1>2, <1>3, <1>4 DEF S!End
<1>5. ASSUME NEW g \in S!Generations, S!Retire(g) \/ S!Announce(g)
      PROVE  Live(generation)' => Live(generation)
  BY <1>2, <1>3, <1>5 DEF S!Retire, S!Announce
<1>6. CASE S!Cancel \/ S!GiveUp \/ S!Finish \/ S!Confirm \/ UNCHANGED S!vars
  BY <1>6 DEF S!Cancel, S!GiveUp, S!Finish, S!Confirm, S!vars
<1>7. CASE S!Close
  BY <1>3, <1>7 DEF S!Close
<1>8. ~\E state \in {"open", "ended"} : S!Replace(state)
  BY <1>2 DEF S!Replace
<1> QED BY <1>1, <1>2, <1>4, <1>5, <1>6, <1>7, <1>8 DEF S!Next

\* Listeners and the generations they are marked with change in two actions.
LEMMA ListenerFrame ==
    [Next]_vars => \/ UNCHANGED <<returnGeneration, publishGeneration, notifyVars>>
                   \/ \E p \in Procs : StartReturnHandler(p) \/ StartPublishHandler(p)
<1> SUFFICES ASSUME [Next]_vars,
                    \A p \in Procs : ~StartReturnHandler(p) /\ ~StartPublishHandler(p)
             PROVE  UNCHANGED <<returnGeneration, publishGeneration, notifyVars>>
  OBVIOUS
<1> USE DEF handlerVars, notifyVars
<1>1. ASSUME NEW p \in Procs, StartStep(p)
      PROVE  UNCHANGED <<returnGeneration, publishGeneration, notifyVars>>
  BY <1>1 DEF StartStep, HasPublishHandler, ConfirmSucceeds, ConfirmFails
<1>2. CASE OwnerStep
  BY <1>2 DEF OwnerStep, Construct, ConstructFails, EnterConfirmMode, TakeEvent,
              EventsEnd, CheckClosed, StartupSucceeds, StartupFails, WakeUp
<1>3. CASE Background
  BY <1>3 DEF Background, ManagerStep, Replace, WatcherLeaves, OfferExpires, CloseErrCh,
              RegisterFlow, CloseChannel, Spawn, Invoke, Retire, Announce
<1>4. CASE \/ ChannelEnds \/ PublishConfirmed \/ MarkClosed \/ UNCHANGED vars
           \/ \E p \in Callers : NotifyReturn(p) \/ \E set \in BOOLEAN : NotifyPublish(p, set)
  BY <1>4 DEF ChannelEnds, PublishConfirmed, MarkClosed, vars, NotifyReturn, NotifyPublish
<1> QED BY <1>1, <1>2, <1>3, <1>4 DEF Next

\* A generation is marked together with its registration, a new one by nobody yet.
LEMMA NextMarkedIsListened ==
    ASSUME S!TypeOK, generation \in Chans, OwnTypes, MarkedIsListened, [Next]_vars
    PROVE  MarkedIsListened'
<1> USE BoundsAssumption DEF Chans, OwnTypes
<1>1. CASE Replace
  <2>1. /\ UNCHANGED <<returnGeneration, publishGeneration>>
        /\ generation' = generation + 1
    BY <1>1 DEF Replace, S!Replace, handlerVars
  <2>2. returnGeneration # generation + 1 /\ publishGeneration # generation + 1
    OBVIOUS
  <2> QED BY <2>1, <2>2 DEF MarkedIsListened
<1>2. ASSUME ~Replace, UNCHANGED <<returnGeneration, publishGeneration, notifyVars>>
      PROVE  MarkedIsListened'
  BY <1>2, CurrentStays DEF MarkedIsListened, notifyVars
<1>3. ASSUME NEW p \in Procs, StartReturnHandler(p) \/ StartPublishHandler(p)
      PROVE  MarkedIsListened'
  <2>1. UNCHANGED chanVars
    BY <1>3 DEF StartReturnHandler, StartPublishHandler
  <2>2. Live(generation) =>
          /\ Registered(returnListeners)[generation] > 0
          /\ Registered(publishListeners)[generation] > 0
    BY DEF Registered
  <2> QED BY <1>3, <2>1, <2>2 DEF StartReturnHandler, StartPublishHandler, MarkedIsListened,
                                  Live, S!Live, chanVars
<1> QED BY <1>1, <1>2, <1>3, ListenerFrame

\* An event on its way arrives, is lost, or finds a closed publisher.
LEMMA EventKept ==
    ASSUME S!TypeOK, generation \in Chans, OwnTypes, Lifecycle, [Next]_vars,
           EventUnderWay, ~TakeEvent, ~OfferExpires
    PROVE  EventUnderWay' \/ isClosed
<1> USE DEF eventVars, S!Generations
<1>1. CASE Replace
  BY <1>1, BoundsAssumption DEF EventUnderWay, Replace, S!Replace, Chans
<1>2. ASSUME NEW g \in S!Generations, Announce(g) PROVE EventUnderWay' \/ isClosed
  BY <1>2 DEF Announce, EventUnderWay, OwnTypes, Lifecycle, isClosed
<1>3. ASSUME NEW g \in S!Generations, Retire(g) PROVE EventUnderWay'
  BY <1>3 DEF Retire, S!Retire, EventUnderWay, S!TypeOK
<1>4. CASE WatcherLeaves
  BY <1>4 DEF WatcherLeaves, S!GiveUp, S!Finish, EventUnderWay, S!TypeOK
<1>5. ASSUME UNCHANGED <<generation, watcher, offers>> PROVE EventUnderWay'
  BY <1>5 DEF EventUnderWay
<1> USE DEF chanVars, S!End, S!Confirm, S!Close
<1>6. CASE OwnerStep
  BY <1>5, <1>6 DEF OwnerStep, Construct, ConstructFails, EnterConfirmMode, ConfirmSafe, EventsEnd,
              CheckClosed, StartupSucceeds, StartupFails, WakeUp
<1>7. CASE \/ CloseErrCh \/ RegisterFlow \/ CloseChannel
           \/ \E g \in Chans : Spawn(g) \/ \E tag \in 1..MaxTags : Invoke(g, tag)
  BY <1>5, <1>7 DEF CloseErrCh, RegisterFlow, CloseChannel, Spawn, Invoke
<1>8. CASE \E p \in Procs : StartStep(p)
  BY <1>5, <1>8 DEF StartStep, StartReturnHandler, HasPublishHandler, ConfirmSucceeds, ConfirmFails,
              StartPublishHandler, ConfirmSafe
<1>9. CASE \/ ChannelEnds \/ PublishConfirmed \/ MarkClosed \/ UNCHANGED vars
           \/ \E p \in Callers : NotifyReturn(p) \/ \E set \in BOOLEAN : NotifyPublish(p, set)
  BY <1>5, <1>9 DEF ChannelEnds, PublishConfirmed, MarkClosed, vars, NotifyReturn, NotifyPublish
<1> QED BY <1>1, <1>2, <1>3, <1>4, <1>6, <1>7, <1>8, <1>9 DEF Next, Background, ManagerStep

\* Close is for good.
LEMMA ClosedStays == ASSUME Places, isClosed, [Next]_vars PROVE isClosed'
<1> USE DEF isClosed, Places, closeVars
<1>1. CASE OwnerStep
  BY <1>1 DEF OwnerStep, Construct, ConstructFails, EnterConfirmMode, TakeEvent,
              EventsEnd, CheckClosed, StartupSucceeds, StartupFails, WakeUp
<1>2. CASE Background
  BY <1>2 DEF Background, ManagerStep, Replace, WatcherLeaves, OfferExpires, CloseErrCh,
              RegisterFlow, CloseChannel, Spawn, Invoke, Retire, Announce
<1>3. CASE \E p \in Procs : StartStep(p)
  BY <1>3 DEF StartStep, StartReturnHandler, HasPublishHandler, ConfirmSucceeds,
              ConfirmFails, StartPublishHandler
<1>4. CASE \/ ChannelEnds \/ PublishConfirmed \/ MarkClosed \/ UNCHANGED vars
           \/ \E p \in Callers : NotifyReturn(p) \/ \E set \in BOOLEAN : NotifyPublish(p, set)
  BY <1>4 DEF ChannelEnds, PublishConfirmed, MarkClosed, vars, NotifyReturn, NotifyPublish
<1> QED BY <1>1, <1>2, <1>3, <1>4 DEF Next

\* The three parts of ListenersKept.
FlowKept ==
    \/ flowHeard = generation \/ "flow" \in missed
    \/ EventUnderWay \/ flowStarting > 0
    \/ pc[Owner] \in {"construct", "check", "startup", "sleep"}
ReturnKept ==
    \/ returnListeners[generation] > 0 \/ "return" \in missed
    \/ EventUnderWay
    \/ pc[Owner] \in {"check", "startup", "sleep"}
    \/ \E p \in Procs : pc[p] = "return"
PublishKept ==
    \/ publishListeners[generation] > 0
    \/ EventUnderWay
    \/ pc[Owner] \in {"check", "startup", "sleep", "return"}
    \/ \E p \in Procs : pc[p] \in {"publish", "confirm", "register"}

LEMMA KeptParts ==
    ListenersKept <=> (Live(generation) /\ ~isClosed =>
                         /\ FlowKept
                         /\ returnSet => ReturnKept
                         /\ publishSet /\ confirmMode => PublishKept)
  BY DEF ListenersKept, FlowKept, ReturnKept, PublishKept

\* A step that leaves the channel and the events alone, in a publisher that is
\* neither closed nor closes.
QuietStep ==
    /\ UNCHANGED <<generation, missed>> /\ Live(generation)
    /\ ~isClosed /\ ~isClosed'
    /\ ~EventUnderWay
    /\ ~Replace /\ ~TakeEvent /\ ~OfferExpires

\* startup starts the goroutine that registers the flow listener.
LEMMA FlowQuiet ==
    ASSUME OwnTypes, Places, [Next]_vars, QuietStep, FlowKept PROVE FlowKept'
<1> USE DEF QuietStep, FlowKept, OwnTypes, Places, Goto, flowVars, closeVars, isClosed
<1>1. Owner \in Procs /\ Owner \notin Callers
  BY OwnerAssumption DEF Procs
<1>2. CASE OwnerStep
  BY <1>1, <1>2 DEF OwnerStep, Construct, ConstructFails, EnterConfirmMode, EventsEnd, CheckClosed,
              StartupSucceeds, StartupFails, WakeUp, Startup
<1>3. CASE RegisterFlow
  BY <1>3 DEF RegisterFlow
<1>4. ASSUME UNCHANGED <<flowVars, pc>> PROVE FlowKept'
  BY <1>4
<1>5. CASE Background /\ ~RegisterFlow
  BY <1>4, <1>5 DEF Background, ManagerStep, WatcherLeaves, CloseErrCh, CloseChannel, Spawn, Invoke,
              Retire, Announce
<1>6. ASSUME NEW p \in Procs, StartStep(p) PROVE FlowKept'
  <2>1. UNCHANGED flowVars /\ (pc[Owner] \in {"construct", "check", "startup", "sleep"} => pc'[Owner] = pc[Owner])
    BY <1>1, <1>6 DEF StartStep, StartReturnHandler, HasPublishHandler, ConfirmSucceeds,
                      ConfirmFails, StartPublishHandler
  <2> QED BY <2>1
<1>7. ASSUME NEW p \in Callers, NotifyReturn(p) \/ \E set \in BOOLEAN : NotifyPublish(p, set)
      PROVE  FlowKept'
  <2>1. UNCHANGED flowVars /\ pc'[Owner] = pc[Owner]
    BY <1>1, <1>7 DEF NotifyReturn, NotifyPublish
  <2> QED BY <2>1
<1>8. CASE ChannelEnds \/ PublishConfirmed \/ MarkClosed \/ UNCHANGED vars
  BY <1>4, <1>8 DEF ChannelEnds, PublishConfirmed, MarkClosed, vars
<1> QED BY <1>2, <1>3, <1>5, <1>6, <1>7, <1>8 DEF Next

\* A handler for returns is set before its caller, or the owner on his way there,
\* comes to startReturnHandler.
LEMMA ReturnQuiet ==
    ASSUME OwnTypes, Places, MarkedIsListened, [Next]_vars, QuietStep,
           generation \in Chans, returnSet => ReturnKept, returnSet'
    PROVE  ReturnKept'
<1> USE DEF QuietStep, ReturnKept, Places, Goto, handlerVars, notifyVars, closeVars, isClosed
<1>1. Owner \in Procs /\ Owner \notin Callers /\ Callers \subseteq Procs
  BY OwnerAssumption DEF Procs
<1>2. CASE OwnerStep
  BY <1>1, <1>2 DEF OwnerStep, Construct, ConstructFails, EnterConfirmMode, EventsEnd, CheckClosed,
              StartupSucceeds, StartupFails, WakeUp
<1>3. ASSUME UNCHANGED <<handlerVars, notifyVars, pc>> PROVE ReturnKept'
  BY <1>3
<1>4. CASE Background
  BY <1>3, <1>4 DEF Background, ManagerStep, WatcherLeaves, CloseErrCh, CloseChannel, Spawn, Invoke,
              Retire, Announce, RegisterFlow
<1>5. ASSUME NEW p \in Procs, StartReturnHandler(p) PROVE ReturnKept'
  <2>1. returnSet /\ UNCHANGED chanVars
    BY <1>5 DEF StartReturnHandler
  <2>2. returnListeners'[generation] > 0
    BY <1>5, <2>1 DEF StartReturnHandler, Registered, OwnTypes, MarkedIsListened
  <2> QED BY <2>2
<1>6. ASSUME NEW p \in Procs, StartStep(p), ~StartReturnHandler(p) PROVE ReturnKept'
  <2>1. /\ UNCHANGED <<returnSet, returnListeners>>
        /\ \A q \in Procs : pc[q] \in {"check", "startup", "sleep", "return"} => pc'[q] = pc[q]
    BY <1>6 DEF StartStep, HasPublishHandler, ConfirmSucceeds, ConfirmFails, StartPublishHandler
  <2> QED BY <1>1, <2>1
<1>7. ASSUME NEW p \in Callers, NotifyReturn(p) PROVE ReturnKept'
  BY <1>1, <1>7 DEF NotifyReturn
<1>8. ASSUME NEW p \in Callers, NEW set \in BOOLEAN, NotifyPublish(p, set) PROVE ReturnKept'
  <2>1. /\ UNCHANGED <<returnSet, returnListeners>>
        /\ \A q \in Procs : pc[q] \in {"check", "startup", "sleep", "return"} => pc'[q] = pc[q]
    BY <1>1, <1>8 DEF NotifyPublish
  <2> QED BY <1>1, <2>1
<1>9. CASE ChannelEnds \/ PublishConfirmed \/ MarkClosed \/ UNCHANGED vars
  BY <1>3, <1>9 DEF ChannelEnds, PublishConfirmed, MarkClosed, vars
<1> QED BY <1>2, <1>4, <1>5, <1>6, <1>7, <1>8, <1>9 DEF Next

\* The same of confirmations; whoever turns the mode on registers next.
LEMMA PublishQuiet ==
    ASSUME OwnTypes, Places, MarkedIsListened, [Next]_vars, QuietStep,
           generation \in Chans, publishSet /\ confirmMode => PublishKept,
           publishSet', confirmMode'
    PROVE  PublishKept'
<1> USE DEF QuietStep, PublishKept, Places, Goto, handlerVars, notifyVars, chanVars, closeVars,
            isClosed
<1>1. Owner \in Procs /\ Owner \notin Callers /\ Callers \subseteq Procs
  BY OwnerAssumption DEF Procs
<1>2. ASSUME UNCHANGED <<publishSet, publishListeners, confirmMode, pc>> PROVE PublishKept'
  BY <1>2
<1>3. CASE EnterConfirmMode
  BY <1>1, <1>3 DEF EnterConfirmMode
<1>4. CASE OwnerStep /\ ~EnterConfirmMode
  <2>1. /\ UNCHANGED <<publishSet, publishListeners, confirmMode>>
        /\ \A q \in Procs : pc[q] \in {"publish", "confirm", "register"} => pc'[q] = pc[q]
        /\ pc[Owner] \in {"check", "startup", "sleep", "return"} =>
             pc'[Owner] \in {"check", "startup", "sleep", "return"}
    BY <1>1, <1>4 DEF OwnerStep, Construct, ConstructFails, EventsEnd, CheckClosed,
                      StartupSucceeds, StartupFails, WakeUp
  <2> QED BY <2>1
<1>5. CASE Background
  BY <1>2, <1>5 DEF Background, ManagerStep, WatcherLeaves, CloseErrCh, CloseChannel, Spawn, Invoke,
              Retire, Announce, RegisterFlow, S!GiveUp, S!Finish, S!Close, S!Retire, S!Announce
<1>6. ASSUME NEW p \in Procs, StartReturnHandler(p) \/ HasPublishHandler(p) PROVE PublishKept'
  <2>1. UNCHANGED <<publishSet, publishListeners, confirmMode>>
    BY <1>6 DEF StartReturnHandler, HasPublishHandler
  <2>2. \A q \in Procs : pc[q] \in {"publish", "confirm", "register"} =>
          pc'[q] \in {"publish", "confirm", "register"}
    BY <1>6, <2>1 DEF StartReturnHandler, HasPublishHandler
  <2>3. pc[Owner] \in {"check", "startup", "sleep", "return"} =>
          pc'[Owner] \in {"check", "startup", "sleep", "return", "publish"}
    BY <1>1, <1>6 DEF StartReturnHandler, HasPublishHandler
  <2> QED BY <1>1, <2>1, <2>2, <2>3
<1>7. ASSUME NEW p \in Procs, ConfirmSucceeds(p) PROVE PublishKept'
  BY <1>7 DEF ConfirmSucceeds
<1>8. ASSUME NEW p \in Procs, ConfirmFails(p) PROVE FALSE
  BY <1>8 DEF ConfirmFails
<1>9. ASSUME NEW p \in Procs, StartPublishHandler(p) PROVE PublishKept'
  <2>1. publishSet /\ UNCHANGED chanVars
    BY <1>9 DEF StartPublishHandler
  <2>2. publishListeners'[generation] > 0
    BY <1>9, <2>1 DEF StartPublishHandler, Registered, OwnTypes, MarkedIsListened
  <2> QED BY <2>2
<1>10. ASSUME NEW p \in Callers, NotifyReturn(p) PROVE PublishKept'
  <2>1. /\ UNCHANGED <<publishSet, publishListeners, confirmMode>>
        /\ pc'[Owner] = pc[Owner]
        /\ \A q \in Procs : pc[q] \in {"publish", "confirm", "register"} => pc'[q] = pc[q]
    BY <1>1, <1>10 DEF NotifyReturn
  <2> QED BY <2>1
<1>11. ASSUME NEW p \in Callers, NEW set \in BOOLEAN, NotifyPublish(p, set) PROVE PublishKept'
  BY <1>1, <1>11 DEF NotifyPublish
<1>12. CASE ChannelEnds \/ PublishConfirmed \/ MarkClosed \/ UNCHANGED vars
  BY <1>2, <1>12 DEF ChannelEnds, PublishConfirmed, MarkClosed, vars, S!End
<1> QED BY <1>3, <1>4, <1>5, <1>6, <1>7, <1>8, <1>9, <1>10, <1>11, <1>12 DEF Next, StartStep

\* A lost event is written down where nobody will make up for it.
LEMMA KeptWhenExpired ==
    ASSUME Places, Lifecycle, MarkedIsListened, ListenersKept, OfferExpires PROVE ListenersKept'
<1> USE DEF OfferExpires, Passed, chanVars, handlerVars, notifyVars, flowVars, closeVars
<1> SUFFICES ASSUME Live(generation), ~isClosed
             PROVE  /\ FlowKept'
                    /\ returnSet => ReturnKept'
                    /\ publishSet /\ confirmMode => PublishKept'
  BY KeptParts DEF Live, S!Live, isClosed, ListenersKept, FlowKept, ReturnKept, PublishKept
<1>1. Owner \in Procs
  BY DEF Procs
<1>2. FlowKept'
  BY <1>1 DEF FlowKept, Lifecycle, Places
<1>3. returnSet => ReturnKept'
  BY <1>1 DEF ReturnKept, Lifecycle, MarkedIsListened, Places
<1>4. publishSet => PublishKept'
  BY <1>1 DEF PublishKept, Lifecycle, Places
<1> QED BY <1>2, <1>3, <1>4

\* Nobody is forgotten: whatever a step does, somebody has the listener, or will
\* come to register it, or the event was lost behind the owner's back.
LEMMA NextListenersKept ==
    ASSUME TypeOK, Lifecycle, MarkedIsListened, ListenersKept, [Next]_vars
    PROVE  ListenersKept'
<1>1. S!TypeOK /\ generation \in Chans /\ OwnTypes /\ Places
  BY TypesSplit
<1>2. CASE Replace
  <2>1. EventUnderWay'
    BY <1>1, <1>2, BoundsAssumption DEF EventUnderWay, Replace, S!Replace, S!Generations, Chans
  <2> QED BY <2>1 DEF ListenersKept
<1>3. CASE TakeEvent
  <2>1. pc'[Owner] = "check"
    BY <1>1, <1>3 DEF TakeEvent, Goto, Places, Procs
  <2> QED BY <2>1 DEF ListenersKept
<1>4. CASE OfferExpires
  BY <1>1, <1>4, KeptWhenExpired
<1>5. ASSUME ~Replace, ~TakeEvent, ~OfferExpires, Live(generation)', ~isClosed',
             EventUnderWay
      PROVE  ListenersKept'
  <2>1. CASE EventUnderWay'
    BY <2>1 DEF ListenersKept
  <2>2. isClosed => isClosed'
    BY <1>1, ClosedStays
  <2> QED BY <1>1, <1>5, <2>1, <2>2, EventKept
<1>6. ASSUME ~Replace, ~TakeEvent, ~OfferExpires, Live(generation)', ~isClosed',
             ~EventUnderWay
      PROVE  ListenersKept'
  <2>1. QuietStep
    BY <1>1, <1>6, CurrentStays, ClosedStays, MissedFrame DEF QuietStep
  <2>2. FlowKept /\ (returnSet => ReturnKept) /\ (publishSet /\ confirmMode => PublishKept)
    BY <2>1, KeptParts DEF QuietStep
  <2>3. FlowKept'
    BY <1>1, <2>1, <2>2, FlowQuiet
  <2>4. returnSet' => ReturnKept'
    BY <1>1, <2>1, <2>2, ReturnQuiet
  <2>5. publishSet' /\ confirmMode' => PublishKept'
    BY <1>1, <2>1, <2>2, PublishQuiet
  <2> QED BY <2>3, <2>4, <2>5 DEF ListenersKept, FlowKept, ReturnKept, PublishKept
<1>7. CASE ~Live(generation)' \/ isClosed'
  BY <1>7 DEF ListenersKept
<1> QED BY <1>2, <1>3, <1>4, <1>5, <1>6, <1>7

\* NewPublisher starts with no listener.
LEMMA InitIInv == Init => IInv
<1> SUFFICES ASSUME Init PROVE IInv
  OBVIOUS
<1> USE BoundsAssumption DEF Chans
<1>1. Flags
  BY Zenon DEF Init, Flags
<1>2. Places
  BY DEF Init, Places
<1>3. OwnTypes /\ generation \in Chans
  BY DEF Init, S!Init, OwnTypes, Never
<1>4. S!TypeOK
  <2>1. confirmMode \in BOOLEAN /\ mgrClosed \in BOOLEAN
    BY Zenon DEF Init, S!Init
  <2> QED BY <2>1 DEF Init, S!Init, S!TypeOK, S!Generations
<1>5. S!NoConfirmGap
  BY DEF Init, S!Init, S!NoConfirmGap
<1>6. PastConfirm /\ OneListener /\ Missed
  BY DEF Init, PastConfirm, OneListener, Missed
<1>7. Owner \in Procs /\ pc[Owner] = "construct"
  BY DEF Init, Procs
<1>8. Lifecycle
  BY <1>7 DEF Init, Lifecycle, isClosed
<1>9. MarkedIsListened
  BY DEF Init, S!Init, MarkedIsListened, Never
<1>10. ListenersKept
  BY <1>7 DEF Init, ListenersKept
<1> QED BY <1>1, <1>2, <1>3, <1>4, <1>5, <1>6, <1>8, <1>9, <1>10, TypesSplit DEF IInv

\* Each channel has at most one listener for returns and one for confirmations,
\* which is on a channel in confirm mode, however the owner, the callers and the
\* replacements interleave (publish.go:444-463, 465-497).
THEOREM PublisherInvariant == Spec => []IInv
<1>1. IInv /\ S!Inv' /\ [Next]_vars => IInv'
  <2> SUFFICES ASSUME IInv, S!Inv', [Next]_vars PROVE IInv'
    OBVIOUS
  <2>1. S!TypeOK /\ generation \in Chans /\ OwnTypes /\ Flags /\ Missed /\ Places
    BY TypesSplit DEF IInv
  <2>2. S!TypeOK' /\ S!NoConfirmGap'
    BY DEF S!Inv
  <2>3. generation' \in Chans
    BY <2>1, ChannelFrame
  <2>4. TypeOK'
    BY <2>1, <2>2, <2>3, NextOwnTypes, NextFlags, NextMissed, NextPlaces, Zenon
       DEF TypeOK, OwnTypes, Flags, Missed, Places
  <2>5. PastConfirm'
    BY <2>1, NextPastConfirm DEF IInv
  <2>6. OneListener'
    BY NextOneListener DEF IInv
  <2>7. Lifecycle'
    BY <2>1, NextLifecycle DEF IInv
  <2>8. MarkedIsListened'
    BY <2>1, NextMarkedIsListened DEF IInv
  <2>9. ListenersKept'
    BY <2>8, NextListenersKept DEF IInv
  <2> QED BY <2>2, <2>4, <2>5, <2>6, <2>7, <2>8, <2>9 DEF IInv
<1> QED BY InitIInv, <1>1, ChannelPromise, PTL DEF Spec

\* The promise of publish.go:169-172, as far as the code keeps it: a publisher that
\* nobody is recovering any more has its listener for returns and its listener for
\* flow signals on the current channel, or lost the reconnect event behind the code
\* that registers it.
THEOREM ListenersFollow == Spec => [](ReturnHeard /\ FlowListened)
<1>1. IInv => ReturnHeard /\ FlowListened
  <2> SUFFICES ASSUME ListenersKept, InUse, ~Recovering
               PROVE  /\ returnSet /\ (\A p \in Callers : pc[p] # "return") =>
                           returnListeners[generation] > 0 \/ "return" \in missed
                      /\ flowStarting = 0 => flowHeard = generation \/ "flow" \in missed
    BY DEF IInv, ReturnHeard, FlowListened
  <2>1. ~EventUnderWay /\ pc[Owner] \in {"range", "gone", "failed"}
    BY DEF Recovering
  <2> QED BY <2>1 DEF ListenersKept, InUse, Procs
<1> QED BY <1>1, PublisherInvariant, PTL

\* Confirmations are listened for whatever was lost: the look at the generation is
\* the last thing the owner does.
THEOREM ConfirmationsFollow == Spec => []PublishHeard
<1>1. IInv => PublishHeard
  <2> SUFFICES ASSUME ListenersKept, InUse, publishSet, confirmMode, ~Recovering,
                      \A p \in Callers : pc[p] \notin {"publish", "confirm", "register"}
               PROVE  publishListeners[generation] > 0
    BY DEF IInv, PublishHeard
  <2>1. ~EventUnderWay /\ pc[Owner] \in {"range", "gone", "failed"}
    BY DEF Recovering
  <2> QED BY <2>1 DEF ListenersKept, InUse, Procs
<1> QED BY <1>1, PublisherInvariant, PTL

============================================================================
