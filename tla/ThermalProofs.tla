---------------------------- MODULE ThermalProofs ----------------------------
(***************************************************************************)
(* Proofs about thermal protection (module Thermal), for any number of GPUs,*)
(* any temperatures, limit and ShutDown time.  What the two theorems need   *)
(* is how far the milliseconds of m_thermalRunaway can be from the counted  *)
(* updates: at least those above the limit in a row, at most the hot ones.  *)
(***************************************************************************)
EXTENDS Thermal, TLAPS

\* The code's count is no less than the last updates above the limit ...
AtLeast == \A g \in GPUs : runaway[g] >= above[g] * c_updateRate - 1

\* ... no more than the hot ones ...
AtMost == \A g \in GPUs : /\ warm[g] <= MaxWarm
                          /\ runaway[g] <= warm[g] * c_updateRate \/ warm[g] = MaxWarm

\* ... and past the limit exactly when the rig has been shut down.
Shut == shutDown <=> \E g \in GPUs : runaway[g] > Limit

IInv == TypeOK /\ AtLeast /\ AtMost /\ Shut
-----------------------------------------------------------------------------
\* Where an update of GPU g leads, and that it concerns no other GPU.
LEMMA UpdateEffect ==
    ASSUME TypeOK, NEW g \in GPUs, Update(g)
    PROVE /\ runaway' = [runaway EXCEPT ![g] = Counted(g)]
          /\ above' = [above EXCEPT ![g] = IF temp[g] > setPoint THEN above[g] + 1 ELSE 0]
          /\ warm' = [warm EXCEPT ![g] =
                        IF Hot(g) THEN IF warm[g] < MaxWarm THEN warm[g] + 1 ELSE warm[g]
                        ELSE IF Counted(g) = 0 THEN 0 ELSE warm[g]]
          /\ shutDown' = (Hot(g) /\ Counted(g) > Limit)
          /\ UNCHANGED <<enabled, temp, armed>>
  BY DEF Update, Seen

\* What the new count can be.
LEMMA CountedFacts ==
    ASSUME TypeOK, NEW g \in GPUs
    PROVE /\ Counted(g) \in Nat
          /\ Hot(g) \in BOOLEAN
          /\ Hot(g) => Counted(g) = runaway[g] + 2000
          /\ ~Hot(g) => Counted(g) <= runaway[g] \/ Counted(g) = 0
          /\ temp[g] > setPoint => Hot(g)
  <1>1. runaway[g] \in Nat \cup {-1}
    BY DEF TypeOK
  <1>2. temp[g] \in Int
    <2>1. temp[g] \in Temps
      BY DEF TypeOK
    <2> QED
      BY <2>1, TempsAssumption, Zenon
  <1>3. setPoint \in Int
    BY TempsAssumption
  <1> QED
    BY <1>1, <1>2, <1>3 DEF Counted, Hot, c_updateRate

LEMMA LimitNat == Limit \in Nat
  BY LimitAssumption DEF Limit

LEMMA InitInv == Init => IInv
  <1> SUFFICES ASSUME Init PROVE IInv
    OBVIOUS
  <1>1. TypeOK
    BY DEF Init, TypeOK
  <1>2. AtLeast
    <2> SUFFICES ASSUME NEW g \in GPUs PROVE runaway[g] >= above[g] * 2000 - 1
      BY DEF AtLeast, c_updateRate
    <2>1. runaway[g] = -1 /\ above[g] = 0
      BY DEF Init
    <2> QED
      BY <2>1
  <1>3. AtMost
    <2> SUFFICES ASSUME NEW g \in GPUs
                 PROVE /\ warm[g] <= MaxWarm
                       /\ runaway[g] <= warm[g] * 2000 \/ warm[g] = MaxWarm
      BY DEF AtMost, c_updateRate
    <2>1. runaway[g] = -1 /\ warm[g] = 0 /\ MaxWarm \in Nat
      BY LimitAssumption DEF Init
    <2> QED
      BY <2>1
  <1>4. Shut
    BY LimitNat DEF Init, Shut
  <1> QED
    BY <1>1, <1>2, <1>3, <1>4 DEF IInv

\* An update of one GPU preserves the invariant.
LEMMA UpdateInv ==
    ASSUME IInv, NEW g \in GPUs, Update(g)
    PROVE IInv'
  <1> USE DEF IInv
  <1>0. /\ runaway \in [GPUs -> Nat \cup {-1}]
        /\ above \in [GPUs -> Nat] /\ warm \in [GPUs -> Nat]
        /\ MaxWarm \in Nat
        /\ ~shutDown
    BY LimitAssumption DEF TypeOK, Update
  <1>1. /\ runaway'[g] = Counted(g)
        /\ above'[g] = IF temp[g] > setPoint THEN above[g] + 1 ELSE 0
        /\ warm'[g] = IF Hot(g) THEN IF warm[g] < MaxWarm THEN warm[g] + 1 ELSE warm[g]
                      ELSE IF Counted(g) = 0 THEN 0 ELSE warm[g]
    BY <1>0, UpdateEffect
  <1>2. \A h \in GPUs \ {g} : /\ runaway'[h] = runaway[h]
                              /\ above'[h] = above[h] /\ warm'[h] = warm[h]
    BY <1>0, UpdateEffect
  <1>3. above'[g] \in Nat /\ warm'[g] \in Nat /\ runaway'[g] \in Nat
    BY <1>0, <1>1, CountedFacts
  <1>4. TypeOK'
    <2>1. /\ runaway' \in [GPUs -> Nat \cup {-1}]
          /\ above' \in [GPUs -> Nat] /\ warm' \in [GPUs -> Nat]
      BY <1>0, <1>1, <1>3, UpdateEffect
    <2>2. shutDown' \in BOOLEAN
      BY UpdateEffect
    <2>3. enabled' \in BOOLEAN /\ temp' \in [GPUs -> Temps] /\ armed' \in [GPUs -> BOOLEAN]
      BY UpdateEffect DEF TypeOK
    <2> QED
      BY <2>1, <2>2, <2>3 DEF TypeOK
  <1>5. AtLeast'
    <2> SUFFICES ASSUME NEW h \in GPUs
                 PROVE runaway'[h] >= above'[h] * 2000 - 1
      BY DEF AtLeast, c_updateRate
    <2>1. runaway[h] >= above[h] * 2000 - 1
      BY DEF AtLeast, c_updateRate
    <2>2. CASE h = g
      BY <2>1, <2>2, <1>0, <1>1, <1>3, CountedFacts
    <2>3. CASE h # g
      BY <2>1, <2>3, <1>2
    <2> QED
      BY <2>2, <2>3
  <1>6. AtMost'
    <2> SUFFICES ASSUME NEW h \in GPUs
                 PROVE /\ warm'[h] <= MaxWarm
                       /\ runaway'[h] <= warm'[h] * 2000 \/ warm'[h] = MaxWarm
      BY DEF AtMost, c_updateRate
    <2>1. /\ warm[h] <= MaxWarm
          /\ runaway[h] <= warm[h] * 2000 \/ warm[h] = MaxWarm
      BY DEF AtMost, c_updateRate
    <2>2. CASE h = g /\ Hot(g)
      BY <2>1, <2>2, <1>0, <1>1, <1>3, CountedFacts
    <2>3. CASE h = g /\ ~Hot(g)
      BY <2>1, <2>3, <1>0, <1>1, <1>3, CountedFacts
    <2>4. CASE h # g
      BY <2>1, <2>4, <1>2
    <2> QED
      BY <2>2, <2>3, <2>4
  <1>7. Shut'
    <2>1. \A h \in GPUs : ~(runaway[h] > Limit)
      BY <1>0 DEF Shut
    <2>2. \A h \in GPUs \ {g} : ~(runaway'[h] > Limit)
      BY <2>1, <1>2
    <2>3. shutDown' <=> Hot(g) /\ Counted(g) > Limit
      BY UpdateEffect
    <2>4. Counted(g) > Limit => Hot(g)
      <3>1. ~(runaway[g] > Limit)
        BY <2>1
      <3> QED
        BY <3>1, <1>0, CountedFacts, LimitNat
    <2>5. shutDown' <=> runaway'[g] > Limit
      BY <2>3, <2>4, <1>1
    <2>6. Limit' = Limit
      BY DEF Limit
    <2> QED
      BY <2>2, <2>5, <2>6 DEF Shut
  <1> QED
    BY <1>4, <1>5, <1>6, <1>7

\* Every step preserves the invariant.
LEMMA NextInv == IInv /\ [Next]_vars => IInv'
  <1> SUFFICES ASSUME IInv, [Next]_vars PROVE IInv'
    OBVIOUS
  <1>1. ASSUME NEW g \in GPUs, NEW t \in Temps, Change(g, t) PROVE IInv'
    <2>1. TypeOK'
      BY <1>1 DEF IInv, TypeOK, Change
    <2>2. AtLeast' /\ AtMost' /\ Shut'
      BY <1>1 DEF IInv, Change, AtLeast, AtMost, Shut, Limit, c_updateRate
    <2> QED
      BY <2>1, <2>2 DEF IInv
  <1>2. ASSUME NEW g \in GPUs, Update(g) PROVE IInv'
    BY <1>2, UpdateInv
  <1>3. ASSUME NEW g \in GPUs, UpdateThrows(g) PROVE IInv'
    <2>1. TypeOK'
      BY <1>3 DEF IInv, TypeOK, UpdateThrows
    <2>2. AtLeast' /\ AtMost' /\ Shut'
      BY <1>3 DEF IInv, UpdateThrows, AtLeast, AtMost, Shut, Limit, c_updateRate
    <2> QED
      BY <2>1, <2>2 DEF IInv
  <1>4. CASE UNCHANGED vars
    <2>1. TypeOK'
      BY <1>4 DEF IInv, TypeOK, vars
    <2>2. AtLeast' /\ AtMost' /\ Shut'
      BY <1>4 DEF IInv, vars, AtLeast, AtMost, Shut, Limit, c_updateRate
    <2> QED
      BY <2>1, <2>2 DEF IInv
  <1> QED
    BY <1>1, <1>2, <1>3, <1>4 DEF Next

\* The invariant holds in every reachable state.
THEOREM Invariance == Spec => []IInv
  <1> QED
    BY InitInv, NextInv, PTL DEF Spec

(* The count of a controller never becomes negative again after its first   *)
(* update, whatever the sensors show: type correctness.                     *)
THEOREM TypeCorrect == Spec => []TypeOK
  <1>1. IInv => TypeOK
    BY DEF IInv
  <1> QED
    BY <1>1, Invariance, PTL

(* Enough updates above the limit in a row shut the rig down, whatever came *)
(* before them and whatever the other GPUs do (Miner.h:181-197).            *)
THEOREM ShutsDownSoonEnough == Spec => []SoonEnough
  <1>1. IInv => SoonEnough
    <2> SUFFICES ASSUME IInv, NEW g \in GPUs, above[g] * 2000 - 1 > Limit
                 PROVE shutDown
      BY DEF SoonEnough, c_updateRate
    <2>1. runaway[g] \in Int /\ above[g] \in Int /\ runaway[g] >= above[g] * 2000 - 1
      BY DEF IInv, TypeOK, AtLeast, c_updateRate
    <2>2. runaway[g] > Limit
      BY <2>1, LimitNat
    <2> QED
      BY <2>2 DEF IInv, Shut
  <1> QED
    BY <1>1, Invariance, PTL

(* A rig that was shut down had a GPU that was hot for more than ShutDown   *)
(* seconds since its count was last at zero (Miner.h:181-200).              *)
THEOREM ShutsDownNotTooSoon == Spec => []NotTooSoon
  <1>1. IInv => NotTooSoon
    <2> SUFFICES ASSUME IInv, shutDown
                 PROVE \E g \in GPUs : warm[g] * 2000 > Limit
      BY DEF NotTooSoon, c_updateRate
    <2>1. PICK g \in GPUs : runaway[g] > Limit
      BY DEF IInv, Shut
    <2>2. /\ runaway[g] \in Int /\ warm[g] \in Nat
          /\ runaway[g] <= warm[g] * 2000 \/ warm[g] = MaxWarm
      BY DEF IInv, TypeOK, AtMost, c_updateRate
    <2>3. MaxWarm * 2000 > Limit
      BY LimitAssumption DEF c_updateRate
    <2>4. warm[g] * 2000 > Limit
      BY <2>1, <2>2, <2>3, LimitNat
    <2> QED
      BY <2>4
  <1> QED
    BY <1>1, Invariance, PTL
=============================================================================
