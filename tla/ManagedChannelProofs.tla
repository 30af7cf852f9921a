------------------------ MODULE ManagedChannelProofs ------------------------
(***************************************************************************)
(* What a consumer or publisher may rely on, for any number of channels    *)
(* lost, cancelled and replaced.                                           *)
(***************************************************************************)
EXTENDS ManagedChannel, TLAPS

\* A replaced channel is closed before its successor can be replaced, and before
\* anybody hears of the replacement.
Retired ==
    \A g \in Generations : g < generation =>
        \/ watcher[g] = "retiring" /\ g = generation - 1
        \/ watcher[g] \in {"announcing", "over"}

IInv == Inv /\ Retired /\ watcher[generation] # "retiring"

LEMMA InitIInv == Init => IInv
<1> SUFFICES ASSUME Init PROVE IInv
  OBVIOUS
<1>1. confirmMode \in BOOLEAN /\ mgrClosed \in BOOLEAN
  BY Zenon DEF Init
<1>2. ~confirmMode /\ ~mgrClosed
  BY DEF Init
<1> QED BY <1>1, <1>2 DEF Init, IInv, Inv, TypeOK, NoConfirmGap, OneOpenChannel, Retired,
                          Generations, Live

LEMMA NextBooleans ==
    ASSUME TypeOK, [Next]_vars PROVE confirmMode' \in BOOLEAN /\ mgrClosed' \in BOOLEAN
<1>1. \/ confirmMode' = confirmMode
      \/ confirmMode' = TRUE
  BY DEF Next, vars, End, Cancel, GiveUp, Finish, Confirm, Close, Replace, Retire, Announce
<1>2. \/ mgrClosed' = mgrClosed
      \/ mgrClosed' = TRUE
  BY DEF Next, vars, End, Cancel, GiveUp, Finish, Confirm, Close, Replace, Retire, Announce
<1>3. confirmMode \in BOOLEAN /\ mgrClosed \in BOOLEAN
  BY Zenon DEF TypeOK
<1> QED BY ONLY <1>1, <1>2, <1>3, Zenon

\* The rest of the types.
DataTypes ==
    /\ generation \in Nat \ {0}
    /\ chan \in [Generations -> {"open", "ended"}]
    /\ watcher \in [Generations -> {"watching", "retiring", "announcing", "over"}]
    /\ cancelled \subseteq Generations /\ confirmed \subseteq Generations

LEMMA NextTypeOK == ASSUME TypeOK, [Next]_vars PROVE TypeOK'
<1>0. DataTypes
  BY DEF TypeOK, DataTypes
<1>1. ASSUME NEW G \in SUBSET Generations, End(G) PROVE DataTypes'
  BY <1>0, <1>1 DEF End, DataTypes, Generations
<1>2. ASSUME NEW state \in {"open", "ended"}, Replace(state) PROVE DataTypes'
  BY <1>0, <1>2 DEF Replace, DataTypes, Generations
<1>3. ASSUME NEW g \in Generations, Retire(g) \/ Announce(g) PROVE DataTypes'
  BY <1>0, <1>3 DEF Retire, Announce, DataTypes, Generations
<1>4. ASSUME Confirm PROVE DataTypes'
  <2>1. /\ UNCHANGED <<generation, chan, watcher, cancelled>>
        /\ confirmed' = confirmed \cup {generation}
    BY <1>4, Zenon DEF Confirm
  <2> QED BY <1>0, <2>1 DEF DataTypes, Generations
<1>5. ASSUME Close PROVE DataTypes'
  <2>1. /\ UNCHANGED <<generation, watcher, confirmed>>
        /\ chan' = [chan EXCEPT ![generation] = "ended"]
        /\ cancelled' = cancelled \ {generation}
    BY <1>5, Zenon DEF Close
  <2> QED BY <1>0, <2>1 DEF DataTypes, Generations
<1>6. ASSUME Cancel \/ GiveUp \/ Finish PROVE DataTypes'
  <2>1. /\ UNCHANGED <<generation, chan, confirmed>>
        /\ cancelled' = cancelled \/ cancelled' = cancelled \cup {generation}
        /\ \/ watcher' = watcher
           \/ watcher' = [watcher EXCEPT ![generation] = "announcing"]
           \/ watcher' = [watcher EXCEPT ![generation] = "over"]
    BY <1>6, Zenon DEF Cancel, GiveUp, Finish
  <2>2. generation \in Generations
    BY <1>0 DEF DataTypes, Generations
  <2>3. watcher' \in [Generations -> {"watching", "retiring", "announcing", "over"}]
    BY <1>0, <2>1, <2>2 DEF DataTypes
  <2>4. cancelled' \subseteq Generations
    BY <1>0, <2>1, <2>2 DEF DataTypes
  <2> QED BY <1>0, <2>1, <2>3, <2>4 DEF DataTypes, Generations
<1>8. ASSUME UNCHANGED vars PROVE DataTypes'
  <2>1. UNCHANGED <<generation, chan, watcher, cancelled, confirmed>>
    BY <1>8, Zenon DEF vars
  <2> QED BY <1>0, <2>1 DEF DataTypes, Generations
<1>7. DataTypes'
  BY <1>0, <1>1, <1>2, <1>3, <1>4, <1>5, <1>6, <1>8 DEF Next
<1> QED BY <1>7, NextBooleans DEF TypeOK, DataTypes

LEMMA NextIInv == ASSUME IInv, [Next]_vars PROVE IInv'
<1>1. TypeOK'
  BY NextTypeOK DEF IInv, Inv
<1> USE DEF IInv, Inv, TypeOK, Generations, NoConfirmGap, OneOpenChannel, Retired, Live
<1>2. ASSUME NEW G \in SUBSET Generations, End(G) PROVE IInv'
  BY <1>1, <1>2 DEF End
<1>3. ASSUME NEW state \in {"open", "ended"}, Replace(state) PROVE IInv'
  <2>1. NoConfirmGap'
    BY <1>3 DEF Replace
  <2>2. OneOpenChannel'
    BY <1>3 DEF Replace
  <2>3. Retired' /\ watcher'[generation'] # "retiring"
    BY <1>3 DEF Replace
  <2> QED BY <1>1, <2>1, <2>2, <2>3
<1>4. ASSUME NEW g \in Generations, Retire(g) PROVE IInv'
  BY <1>1, <1>4 DEF Retire
<1>5. ASSUME NEW g \in Generations, Announce(g) PROVE IInv'
  BY <1>1, <1>5 DEF Announce
<1>6. CASE Confirm
  BY <1>1, <1>6 DEF Confirm
<1>7. CASE Close
  BY <1>1, <1>7 DEF Close
<1>8. CASE Cancel
  BY <1>1, <1>8 DEF Cancel
<1>9. CASE GiveUp \/ Finish
  <2>1. /\ UNCHANGED <<generation, chan, confirmed, confirmMode, mgrClosed>>
        /\ watcher[generation] = "watching"
        /\ \/ watcher' = [watcher EXCEPT ![generation] = "announcing"]
           \/ watcher' = [watcher EXCEPT ![generation] = "over"]
    BY <1>9 DEF GiveUp, Finish
  <2> QED BY <1>1, <2>1
<1>10. CASE UNCHANGED vars
  BY <1>10 DEF vars
<1> QED BY <1>2, <1>3, <1>4, <1>5, <1>6, <1>7, <1>8, <1>9, <1>10 DEF Next

\* At most one channel besides the one just replaced is open, none of a closed
\* manager but that one, and the confirm mode has no gap, over any number of
\* replacements (channel.go:262-347).
THEOREM PromiseKept == Spec => []Inv
<1>1. IInv /\ [Next]_vars => IInv'
  BY NextIInv
<1>2. IInv => Inv
  BY DEF IInv
<1> QED BY InitIInv, <1>1, <1>2, PTL DEF Spec

=============================================================================
