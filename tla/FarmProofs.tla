----------------------------- MODULE FarmProofs -----------------------------
(***************************************************************************)
(* Proofs about module Farm, for any number of miners and any challenges    *)
(* and targets.  Base holds in both modes; Clean adds what is needed for    *)
(* NoOldWork; PoolInv what is needed for WorkDelivered, in Pool mode.       *)
(***************************************************************************)
EXTENDS Farm, Integers, TLAPS

InLoop == {"store", "stop", "await", "kick"}
InWork == InLoop \cup {"compare", "clearFarm", "unlockWork"}
InSolo == {"lockWork", "clearFarm", "store", "stop", "await", "unlockWork", "clearOwn"}
InSolution == {"checkSlot", "storeSlot", "lockWork", "clearFarm", "store", "stop", "await",
               "unlockWork", "unlockSol"}

\* Each mutex is owned by exactly the thread that is inside it.
Exclusive == /\ \A p \in Procs : pc[p] \in InWork <=> xwork = p
             /\ \A m \in Miners : pc[m] \in InSolution <=> xsol = m

\* A loop over the miners is at a miner, and never at the thread's own.
LoopInv == /\ \A p \in Procs : pc[p] \in InLoop => at[p] \in Miners /\ at[p] # p
           /\ \A m \in Miners : pc[m] \in {"store", "stop", "await", "unlockWork"}
                                   => work.challenge = Empty

\* The Worker state and the place of the worker thread agree.
RunInv == /\ \A m \in Miners : ws[m] = "Stopped" <=> pc[m] = "off"
          /\ pc[Main] = "kick" => ws[at[Main]] = "Stopped" /\ work.challenge # Empty

ProofInv ==
    \A m \in Miners :
        /\ pc[m] = "storeSlot" => slot = None
        /\ pc[m] \in InSolo \cup {"storeSlot", "unlockSol"} => (ret[m] <=> Mode = "Solo")
        /\ pc[m] \in InSolo => Mode = "Solo"

Base == TypeOK /\ Exclusive /\ LoopInv /\ RunInv /\ ProofInv

-----------------------------------------------------------------------------
\* The next miner of a loop is never the thread's own.
LEMMA SkipNext ==
    ASSUME NEW p \in Procs, NEW i \in 0 .. N
    PROVE  /\ Skip(p, i) \in 0 .. N
           /\ Skip(p, i) # p
           /\ LoopAt(p, Skip(p, i)) = "store" => Skip(p, i) \in Miners
           /\ LoopAt(p, Skip(p, i)) = "unlockWork" => \A j \in Miners : j < Skip(p, i)
           /\ LoopAt(p, Skip(p, i)) \in {"store", "unlockWork"}
           /\ \A j \in Miners : j < Skip(p, i) => j < i \/ j = p
BY CountAssumption, NameAssumption DEF Skip, LoopAt, Procs, Miners

LEMMA Names == /\ Main \notin Miners /\ None \notin Miners /\ None # Main
               /\ Miners \subseteq Procs /\ Main \in Procs
               /\ 0 \in 0 .. N /\ \A m \in Miners : m \in 0 .. N /\ m + 1 \in 0 .. N
BY CountAssumption, NameAssumption DEF Procs, Miners

MovesTo(p, i, place) == /\ at' = [at EXCEPT ![p] = i]
                        /\ Goto(p, place)
                        /\ i # p
                        /\ place = "store" => i \in Miners
                        /\ place = "unlockWork" => \A j \in Miners : j < i

\* What the loop header does: the thread moves to another miner, or leaves.
LEMMA NextMinerEffect ==
    ASSUME NEW p \in Procs, at[p] \in Miners, NextMiner(p)
    PROVE  \E i \in 0 .. N, place \in {"store", "unlockWork"} :
             MovesTo(p, i, place) /\ \A j \in Miners : j < i => j <= at[p] \/ j = p
<1>1. PICK k \in 0 .. N : k = at[p] + 1
  BY Names
<1>2. \A j \in Miners : j < k => j <= at[p]
  BY <1>1, CountAssumption DEF Miners
<1>3. Skip(p, k) \in 0 .. N /\ LoopAt(p, Skip(p, k)) \in {"store", "unlockWork"}
  BY SkipNext
<1>4. MovesTo(p, Skip(p, k), LoopAt(p, Skip(p, k)))
  BY <1>1, SkipNext DEF NextMiner, MovesTo
<1>5. \A j \in Miners : j < Skip(p, k) => j <= at[p] \/ j = p
  BY <1>2, SkipNext
<1> QED
  BY <1>3, <1>4, <1>5

LEMMA BeginLoopEffect ==
    ASSUME NEW p \in Procs, BeginLoop(p)
    PROVE  \E i \in 0 .. N, place \in {"store", "unlockWork"} :
             MovesTo(p, i, place) /\ \A j \in Miners : j < i => j = p
<1>1. \A j \in Miners : ~(j < 0)
  BY CountAssumption DEF Miners
<1>2. Skip(p, 0) \in 0 .. N /\ LoopAt(p, Skip(p, 0)) \in {"store", "unlockWork"}
  BY SkipNext, Names
<1>3. MovesTo(p, Skip(p, 0), LoopAt(p, Skip(p, 0)))
  BY SkipNext, Names DEF BeginLoop, MovesTo
<1>4. \A j \in Miners : j < Skip(p, 0) => j = p
  BY <1>1, SkipNext, Names
<1> QED
  BY <1>2, <1>3, <1>4

LEMMA InitBase == Init => Base
BY NameAssumption, Names, CountAssumption DEF Init, Base, TypeOK, Exclusive, LoopInv, RunInv, ProofInv,
   Works, MainPlaces, MinerPlaces, InLoop, InWork, InSolution, InSolo

\* The steps that the main thread and a solo proof share.
LEMMA SharedBase ==
    ASSUME Base, NEW p \in Procs, SetMinersWork(p) \/ LockWork(p)
    PROVE  Base'
<1> USE Names, NameAssumption, ModeAssumption DEF Base, TypeOK, Exclusive, LoopInv, RunInv, ProofInv, Works,
        MainPlaces, MinerPlaces, InLoop, InWork, InSolution, InSolo, Goto, slotVars, runVars
<1>1. CASE StoreWork(p)
  <2>1. at[p] \in Miners /\ at[p] # p
    BY <1>1 DEF StoreWork
  <2>2. CASE Goto(p, "stop") /\ UNCHANGED at
    <3> USE <1>1, <2>1, <2>2 DEF StoreWork
    <3>1. TypeOK'
      OBVIOUS
    <3>2. Exclusive'
      OBVIOUS
    <3>3. LoopInv'
      OBVIOUS
    <3>4. RunInv'
      OBVIOUS
    <3>5. ProofInv'
      OBVIOUS
    <3> QED
      BY <3>1, <3>2, <3>3, <3>4, <3>5
  <2>3. CASE NextMiner(p) /\ work.challenge = Empty
    <3>0. PICK i \in 0 .. N, place \in {"store", "unlockWork"} : MovesTo(p, i, place)
      BY <2>1, <2>3, NextMinerEffect
    <3> USE <1>1, <2>1, <2>3, <3>0 DEF StoreWork, MovesTo
    <3>1. TypeOK'
      OBVIOUS
    <3>2. Exclusive'
      OBVIOUS
    <3>3. LoopInv'
      OBVIOUS
    <3>4. RunInv'
      OBVIOUS
    <3>5. ProofInv'
      OBVIOUS
    <3> QED
      BY <3>1, <3>2, <3>3, <3>4, <3>5
  <2> QED
    BY <1>1, <2>2, <2>3 DEF StoreWork
<1>2. CASE AskToStop(p)
  <2>0. /\ pc[p] = "stop" /\ pc'[p] = "await"
        /\ \A q \in Procs : q # p => pc'[q] = pc[q]
        /\ UNCHANGED <<work, xwork, xsol, slot, solution, mwork, mix, at, ret>>
    BY <1>2 DEF AskToStop
  <2>1. TypeOK'
    BY <1>2, <2>0 DEF AskToStop
  <2>2. Exclusive'
    BY <2>0
  <2>3. LoopInv'
    BY <2>0
  <2>4. RunInv'
    BY <1>2, <2>0 DEF AskToStop
  <2>5. ProofInv'
    <3>1. \A m \in Miners : pc'[m] \in InSolo <=> pc[m] \in InSolo
      BY <2>0
    <3>2. \A m \in Miners : pc'[m] \in {"storeSlot", "unlockSol"} =>
                               pc'[m] = pc[m]
      BY <2>0
    <3> HIDE DEF InSolo
    <3> QED
      BY <2>0, <3>1, <3>2
  <2> QED
    BY <2>1, <2>2, <2>3, <2>4, <2>5
<1>3. CASE AwaitStopped(p)
  <2>1. at[p] \in Miners /\ at[p] # p
    BY <1>3 DEF AwaitStopped
  <2>2. CASE Goto(p, "kick") /\ UNCHANGED at /\ work.challenge # Empty
    <3> USE <1>3, <2>1, <2>2 DEF AwaitStopped
    <3>1. TypeOK'
      OBVIOUS
    <3>2. Exclusive'
      OBVIOUS
    <3>3. LoopInv'
      OBVIOUS
    <3>4. RunInv'
      OBVIOUS
    <3>5. ProofInv'
      OBVIOUS
    <3> QED
      BY <3>1, <3>2, <3>3, <3>4, <3>5
  <2>3. CASE NextMiner(p) /\ work.challenge = Empty
    <3>0. PICK i \in 0 .. N, place \in {"store", "unlockWork"} : MovesTo(p, i, place)
      BY <2>1, <2>3, NextMinerEffect
    <3> USE <1>3, <2>1, <2>3, <3>0 DEF AwaitStopped, MovesTo
    <3>1. TypeOK'
      OBVIOUS
    <3>2. Exclusive'
      OBVIOUS
    <3>3. LoopInv'
      OBVIOUS
    <3>4. RunInv'
      OBVIOUS
    <3>5. ProofInv'
      OBVIOUS
    <3> QED
      BY <3>1, <3>2, <3>3, <3>4, <3>5
  <2> QED
    BY <1>3, <2>2, <2>3 DEF AwaitStopped
<1>4. CASE KickOff(p)
  <2>1. p = Main /\ at[p] \in Miners /\ at[p] # p /\ pc[at[p]] = "off"
    <3>1. p = Main
      BY <1>4 DEF KickOff, Procs
    <3> QED
      BY <1>4, <3>1 DEF KickOff
  <2>2. PICK i \in 0 .. N, place \in {"store", "unlockWork"} :
          /\ at' = [at EXCEPT ![p] = i]
          /\ pc' = [pc EXCEPT ![at[p]] = "begin", ![p] = place]
          /\ i # p
          /\ place = "store" => i \in Miners
    <3>1. PICK k \in 0 .. N : k = at[p] + 1
      BY <2>1
    <3>2. /\ Skip(p, k) \in 0 .. N
          /\ Skip(p, k) # p
          /\ LoopAt(p, Skip(p, k)) \in {"store", "unlockWork"}
          /\ LoopAt(p, Skip(p, k)) = "store" => Skip(p, k) \in Miners
      BY SkipNext
    <3>3. at' = [at EXCEPT ![p] = Skip(p, k)]
      BY <1>4, <3>1 DEF KickOff
    <3>4. pc' = [pc EXCEPT ![at[p]] = "begin", ![p] = LoopAt(p, Skip(p, k))]
      BY <1>4, <3>1 DEF KickOff
    <3> QED
      BY <3>2, <3>3, <3>4
  <2>3. /\ pc[p] = "kick"
        /\ ws' = [ws EXCEPT ![at[p]] = "Started"]
        /\ UNCHANGED <<work, xwork, xsol, slotVars, mwork, mix, ret>>
    BY <1>4 DEF KickOff
  <2> USE <1>4, <2>1, <2>2, <2>3 
  <2>4. TypeOK'
    <3>1. pc' \in [Procs -> MainPlaces \cup MinerPlaces]
      OBVIOUS
    <3>2. pc'[Main] \in MainPlaces /\ \A m \in Miners : pc'[m] \in MinerPlaces
      OBVIOUS
    <3>3. at' \in [Procs -> 0 .. N] /\ ws' \in [Miners -> {"Stopped", "Started", "Stopping"}]
      OBVIOUS
    <3> QED
      BY <3>1, <3>2, <3>3 DEF slotVars
  <2>5. Exclusive'
    <3>1. pc'[Main] = place /\ pc'[at[p]] = "begin"
      OBVIOUS
    <3>2. \A q \in Procs : q # Main /\ q # at[p] => pc'[q] = pc[q]
      OBVIOUS
    <3>3. \A q \in Procs : pc'[q] \in InWork <=> pc[q] \in InWork
      BY <3>1, <3>2
    <3>4. \A m \in Miners : pc'[m] \in InSolution <=> pc[m] \in InSolution
      BY <3>1, <3>2
    <3> QED
      BY <3>3, <3>4
  <2>6. LoopInv'
    OBVIOUS
  <2>7. RunInv'
    OBVIOUS
  <2>8. ProofInv'
    OBVIOUS
  <2> QED
    BY <2>4, <2>5, <2>6, <2>7, <2>8
<1>5. CASE LockWork(p)
  <2> USE <1>5 DEF LockWork
  <2>1. TypeOK'
    OBVIOUS
  <2>2. Exclusive'
    OBVIOUS
  <2>3. LoopInv'
    OBVIOUS
  <2>4. RunInv' /\ ProofInv'
    OBVIOUS
  <2> QED
    BY <2>1, <2>2, <2>3, <2>4
<1>6. CASE UnlockWork(p)
  <2> USE <1>6 DEF UnlockWork
  <2>1. TypeOK'
    OBVIOUS
  <2>2. Exclusive'
    OBVIOUS
  <2>3. LoopInv'
    OBVIOUS
  <2>4. RunInv' /\ ProofInv'
    OBVIOUS
  <2> QED
    BY <2>1, <2>2, <2>3, <2>4
<1> QED
  BY <1>1, <1>2, <1>3, <1>4, <1>5, <1>6 DEF SetMinersWork

LEMMA MainBase ==
    ASSUME Base, CallSetWork \/ SolutionFound \/ \E w \in Works : SetWork(w)
    PROVE  Base'
<1> USE Names, NameAssumption, ModeAssumption DEF Base, TypeOK, Exclusive, LoopInv, RunInv, ProofInv, Works,
        MainPlaces, MinerPlaces, InLoop, InWork, InSolution, InSolo, Goto, slotVars, runVars
<1>1. CASE CallSetWork
  BY <1>1 DEF CallSetWork
<1>2. CASE SolutionFound
  BY <1>2 DEF SolutionFound
<1>3. ASSUME NEW w \in Works, SetWork(w)
      PROVE  Base'
  <2>1. CASE Goto(Main, "unlockWork") /\ UNCHANGED at
    <3> USE <1>3, <2>1 DEF SetWork
    <3>1. TypeOK'
      OBVIOUS
    <3>2. Exclusive'
      OBVIOUS
    <3>3. LoopInv'
      OBVIOUS
    <3>4. RunInv'
      OBVIOUS
    <3>5. ProofInv'
      OBVIOUS
    <3> QED
      BY <3>1, <3>2, <3>3, <3>4, <3>5
  <2>2. CASE BeginLoop(Main)
    <3>0. PICK i \in 0 .. N, place \in {"store", "unlockWork"} : MovesTo(Main, i, place)
      BY <2>2, BeginLoopEffect
    <3> USE <1>3, <3>0 DEF SetWork, MovesTo
    <3>1. TypeOK'
      OBVIOUS
    <3>2. Exclusive'
      OBVIOUS
    <3>3. LoopInv'
      OBVIOUS
    <3>4. RunInv'
      OBVIOUS
    <3>5. ProofInv'
      OBVIOUS
    <3> QED
      BY <3>1, <3>2, <3>3, <3>4, <3>5
  <2> QED
    BY <1>3, <2>1, <2>2 DEF SetWork
<1> QED
  BY <1>1, <1>2, <1>3

LEMMA MinerBase ==
    ASSUME Base, NEW m \in Miners, MinerStep(m)
    PROVE  Base'
<1> USE Names, NameAssumption, ModeAssumption DEF Base, TypeOK, Exclusive, LoopInv, RunInv, ProofInv, Works,
        MainPlaces, MinerPlaces, InLoop, InWork, InSolution, InSolo, Goto, slotVars, runVars
<1>1. CASE BeginRun(m)
  BY <1>1 DEF BeginRun
<1>2. CASE CheckStop(m)
  BY <1>2 DEF CheckStop
<1>3. CASE Miss(m)
  BY <1>3 DEF Miss
<1>4. CASE Hit(m)
  BY <1>4 DEF Hit
<1>5. CASE LockSolution(m)
  BY <1>5 DEF LockSolution
<1>6. CASE CheckSlot(m)
  <2> USE <1>6 DEF CheckSlot
  <2>1. TypeOK'
    OBVIOUS
  <2>2. Exclusive'
    OBVIOUS
  <2>3. LoopInv'
    OBVIOUS
  <2>4. RunInv'
    OBVIOUS
  <2>5. ProofInv'
    <3>0. pc \in [Procs -> MainPlaces \cup MinerPlaces] /\ ret \in [Miners -> BOOLEAN]
      OBVIOUS
    <3> HIDE DEF Base, Exclusive, LoopInv, RunInv, ProofInv, TypeOK, MainPlaces, MinerPlaces
    <3>1. /\ pc'[m] \in {"storeSlot", "unlockSol"}
          /\ pc'[m] = "storeSlot" => slot = None
          /\ ret'[m] <=> Mode = "Solo"
          /\ UNCHANGED slot
      BY <3>0
    <3>2. \A o \in Miners : o # m => pc'[o] = pc[o] /\ ret'[o] = ret[o]
      BY <3>0
    <3> HIDE <1>6 DEF CheckSlot
    <3> USE DEF Base, ProofInv
    <3> QED
      BY <3>1, <3>2
  <2> QED
    BY <2>1, <2>2, <2>3, <2>4, <2>5
<1>7. CASE StoreSlot(m)
  BY <1>7 DEF StoreSlot
<1>8. CASE ClearFarm(m)
  <2>0. PICK i \in 0 .. N, place \in {"store", "unlockWork"} : MovesTo(m, i, place)
    BY <1>8, BeginLoopEffect DEF ClearFarm
  <2> USE <1>8, <2>0 DEF ClearFarm, MovesTo
  <2>1. TypeOK'
    OBVIOUS
  <2>2. Exclusive'
    OBVIOUS
  <2>3. LoopInv'
    OBVIOUS
  <2>4. RunInv'
    OBVIOUS
  <2>5. ProofInv'
    OBVIOUS
  <2> QED
    BY <2>1, <2>2, <2>3, <2>4, <2>5
<1>9. CASE UnlockSolution(m)
  BY <1>9 DEF UnlockSolution
<1>10. CASE ClearOwn(m)
  BY <1>10 DEF ClearOwn
<1>11. CASE ExitRun(m)
  BY <1>11 DEF ExitRun
<1> QED
  BY <1>1, <1>2, <1>3, <1>4, <1>5, <1>6, <1>7, <1>8, <1>9, <1>10, <1>11, SharedBase
     DEF MinerStep, SubmitProof

\* What both modes share is inductive.
LEMMA NextBase == Base /\ [Next]_vars => Base'
<1>1. Base /\ UNCHANGED vars => Base'
  BY DEF Base, TypeOK, Exclusive, LoopInv, RunInv, ProofInv, vars
<1> QED
  BY <1>1, SharedBase, MainBase, MinerBase, Names DEF Next, MainStep

THEOREM BaseInvariant == Spec => []Base
BY InitBase, NextBase, PTL DEF Spec

\* Every variable keeps its range; threads keep to their own places.
THEOREM TypeCorrect == Spec => []TypeOK
<1>1. Base => TypeOK
  BY DEF Base
<1> QED
  BY <1>1, BaseInvariant, PTL

\* Nothing else touches the slot.
LEMMA OnlySlotSteps ==
    ASSUME [Next]_vars
    PROVE  UNCHANGED slotVars \/ SolutionFound \/ \E m \in Miners : StoreSlot(m)
<1>1. ASSUME NEW p \in Procs, SetMinersWork(p)
      PROVE  UNCHANGED slotVars
  BY <1>1 DEF SetMinersWork, StoreWork, AskToStop, AwaitStopped, KickOff, UnlockWork
<1>2. ASSUME NEW m \in Miners, MinerStep(m)
      PROVE  UNCHANGED slotVars \/ StoreSlot(m)
  BY <1>1, <1>2, Names DEF MinerStep, SubmitProof, BeginRun, CheckStop, Miss, Hit, LockSolution,
     CheckSlot, LockWork, ClearFarm, UnlockSolution, ClearOwn, ExitRun
<1>3. ASSUME MainStep
      PROVE  UNCHANGED slotVars \/ SolutionFound
  BY <1>1, <1>3, Names DEF MainStep, CallSetWork, SetWork, LockWork
<1> QED
  BY <1>2, <1>3 DEF Next, vars, slotVars

\* A waiting solution is neither replaced nor dropped: only its miner's
\* storeSlot fills the slot, and it holds x_solution since it saw it empty.
THEOREM SolutionsAreKept == Spec => SlotKept
<1>1. ASSUME Base, [Next]_vars
      PROVE  [slot # None => UNCHANGED slotVars \/ SolutionFound]_vars
  <2>1. \A m \in Miners : StoreSlot(m) => slot = None
    BY <1>1 DEF StoreSlot, Base, ProofInv
  <2> QED
    BY <1>1, <2>1, OnlySlotSteps
<1> QED
  BY <1>1, BaseInvariant, PTL DEF Spec, SlotKept

-----------------------------------------------------------------------------
(* NoOldWork *)

\* Miner m does not hold on to old work (NoOldWork, for one miner).
CleanAt(m) == \/ mwork[m].challenge \in {work.challenge, Empty}
              \/ pc[m] \in {"unlockSol", "clearOwn"} /\ ret[m]

\* A loop over the miners has cleaned those before the one it has reached.
Clean ==
    /\ \A p \in Procs :
        /\ pc[p] \in InLoop => \A j \in Miners : j < at[p] /\ j # p => CleanAt(j)
        /\ pc[p] \in {"stop", "await", "kick"} =>
              mwork[at[p]].challenge \in {work.challenge, Empty}
        /\ pc[p] = "unlockWork" => \A j \in Miners : j # p => CleanAt(j)
    /\ (\A p \in Procs : pc[p] \notin InLoop \cup {"unlockWork"}) => \A j \in Miners : CleanAt(j)

LEMMA InitClean == Init => Clean
BY Names DEF Init, Clean, CleanAt, InLoop, Works

LEMMA SharedClean ==
    ASSUME Base, Clean, NEW p \in Procs, SetMinersWork(p) \/ LockWork(p)
    PROVE  Clean'
<1> USE Names, NameAssumption DEF Clean, CleanAt, InLoop, Base, slotVars, runVars
<1>1. \A q \in Procs : q # p /\ (pc[p] \in InWork) => pc[q] \notin InWork
  BY DEF Exclusive
<1>2. CASE StoreWork(p)
  <2>1. at[p] \in Miners /\ at[p] # p /\ pc[p] \in InWork
    BY <1>2 DEF StoreWork, LoopInv, InWork
  <2>2. CASE Goto(p, "stop") /\ UNCHANGED at
    BY <1>1, <1>2, <2>1, <2>2 DEF StoreWork, Goto, TypeOK, Works, InWork
  <2>3. CASE NextMiner(p) /\ work.challenge = Empty
    <3>1. PICK i \in 0 .. N, place \in {"store", "unlockWork"} :
            MovesTo(p, i, place) /\ \A j \in Miners : j < i => j <= at[p] \/ j = p
      BY <2>1, <2>3, NextMinerEffect
    <3>2. \A j \in Miners : j < i /\ j # p => CleanAt(j)'
      BY <1>2, <2>1, <3>1 DEF StoreWork, MovesTo, Goto, TypeOK, Works, Miners
    <3>3. pc'[p] = place /\ \A q \in Procs : q # p => pc'[q] = pc[q] /\ pc[q] \notin InWork
      BY <1>1, <2>1, <3>1 DEF MovesTo, Goto, TypeOK
    <3>4. at'[p] = i /\ (place = "unlockWork" => \A j \in Miners : j < i)
      BY <3>1 DEF MovesTo, TypeOK
    <3> QED
      BY <3>2, <3>3, <3>4 DEF InWork
  <2> QED
    BY <1>2, <2>2, <2>3 DEF StoreWork
<1>3. CASE AskToStop(p)
  BY <1>1, <1>3 DEF AskToStop, Goto, TypeOK, InWork, LoopInv
<1>4. CASE AwaitStopped(p)
  <2>1. at[p] \in Miners /\ at[p] # p /\ pc[p] \in InWork
    BY <1>4 DEF AwaitStopped, LoopInv, InWork
  <2>2. CASE Goto(p, "kick") /\ UNCHANGED at
    BY <1>1, <1>4, <2>1, <2>2 DEF AwaitStopped, Goto, TypeOK, InWork
  <2>3. CASE NextMiner(p)
    <3>1. PICK i \in 0 .. N, place \in {"store", "unlockWork"} :
            MovesTo(p, i, place) /\ \A j \in Miners : j < i => j <= at[p] \/ j = p
      BY <2>1, <2>3, NextMinerEffect
    <3>2. \A j \in Miners : j < i /\ j # p => CleanAt(j)'
      BY <1>4, <2>1, <3>1 DEF AwaitStopped, MovesTo, Goto, TypeOK, Miners
    <3>3. pc'[p] = place /\ \A q \in Procs : q # p => pc'[q] = pc[q] /\ pc[q] \notin InWork
      BY <1>1, <2>1, <3>1 DEF MovesTo, Goto, TypeOK
    <3>4. at'[p] = i /\ (place = "unlockWork" => \A j \in Miners : j < i)
      BY <3>1 DEF MovesTo, TypeOK
    <3> QED
      BY <3>2, <3>3, <3>4 DEF InWork
  <2> QED
    BY <1>4, <2>2, <2>3 DEF AwaitStopped
<1>5. CASE KickOff(p)
  <2>1. p = Main /\ at[p] \in Miners /\ pc[p] \in InWork /\ pc[at[p]] = "off"
    <3>1. p = Main
      BY <1>5 DEF KickOff, Procs, TypeOK, MinerPlaces
    <3> QED
      BY <1>5, <3>1 DEF KickOff, LoopInv, InWork, RunInv
  <2>2. PICK i \in 0 .. N, place \in {"store", "unlockWork"} :
          /\ at' = [at EXCEPT ![p] = i]
          /\ pc' = [pc EXCEPT ![at[p]] = "begin", ![p] = place]
          /\ place = "unlockWork" => \A j \in Miners : j < i
          /\ \A j \in Miners : j < i => j < at[p] \/ j = at[p]
    <3>1. PICK k \in 0 .. N : k = at[p] + 1
      BY <2>1, Names
    <3>2. \A j \in Miners : j < k => j < at[p] \/ j = at[p]
      BY <2>1, <3>1, CountAssumption DEF Miners
    <3>3. /\ Skip(p, k) \in 0 .. N
          /\ LoopAt(p, Skip(p, k)) \in {"store", "unlockWork"}
          /\ LoopAt(p, Skip(p, k)) = "unlockWork" => \A j \in Miners : j < Skip(p, k)
          /\ \A j \in Miners : j < Skip(p, k) => j < k
      BY <2>1, SkipNext, Names
    <3>4. at' = [at EXCEPT ![p] = Skip(p, k)]
      BY <1>5, <3>1 DEF KickOff
    <3>5. pc' = [pc EXCEPT ![at[p]] = "begin", ![p] = LoopAt(p, Skip(p, k))]
      BY <1>5, <3>1 DEF KickOff
    <3> QED
      BY <3>2, <3>3, <3>4, <3>5
  <2>3. pc'[p] = place /\ pc'[at[p]] = "begin"
    BY <2>1, <2>2 DEF TypeOK
  <2>4. \A q \in Procs : q # p /\ q # at[p] => pc'[q] = pc[q]
    BY <2>1, <2>2 DEF TypeOK
  <2>5. \A j \in Miners : CleanAt(j) \/ j = at[p] => CleanAt(j)'
    BY <1>5, <2>1, <2>3, <2>4 DEF KickOff
  <2>6. \A j \in Miners : j < i => CleanAt(j)'
    <3>1. \A j \in Miners : j < at[p] => CleanAt(j)
      BY <1>5, <2>1 DEF KickOff
    <3> QED
      BY <2>2, <2>5, <3>1
  <2>7. \A q \in Procs : q # p => pc'[q] \notin InLoop \cup {"unlockWork"}
    BY <1>1, <2>1, <2>3, <2>4 DEF InWork
  <2> QED
    <3>1. at'[p] = i
      BY <2>2 DEF TypeOK
    <3>2. ASSUME NEW q \in Procs, pc'[q] \in InLoop \cup {"unlockWork"}
          PROVE  q = p /\ pc'[q] = place
      BY <2>3, <2>7, <3>2
    <3>3. pc'[p] \in InLoop \cup {"unlockWork"}
      BY <2>2, <2>3
    <3>4. place = "unlockWork" => \A j \in Miners : CleanAt(j)'
      BY <2>2, <2>6
    <3>5. place \notin {"stop", "await", "kick"}
      BY <2>2
    <3> HIDE DEF CleanAt, Base
    <3>6. \A q \in Procs :
            /\ pc'[q] \in InLoop => \A j \in Miners : j < at'[q] /\ j # q => CleanAt(j)'
            /\ pc'[q] \notin {"stop", "await", "kick"}
            /\ pc'[q] = "unlockWork" => \A j \in Miners : CleanAt(j)'
      BY <2>6, <3>1, <3>2, <3>4, <3>5
    <3> QED
      BY <3>3, <3>6
<1>6. CASE LockWork(p)
  BY <1>6 DEF LockWork, Goto, TypeOK, Exclusive, InWork
<1>7. CASE UnlockWork(p)
  BY <1>1, <1>7, ModeAssumption DEF UnlockWork, Goto, TypeOK, InWork, ProofInv, InSolo
<1> QED
  BY <1>2, <1>3, <1>4, <1>5, <1>6, <1>7 DEF SetMinersWork

LEMMA MainClean ==
    ASSUME Base, Clean, CallSetWork \/ SolutionFound \/ \E w \in Works : SetWork(w)
    PROVE  Clean'
<1> USE Names, NameAssumption DEF Clean, CleanAt, InLoop, Base, slotVars, runVars
<1>1. CASE CallSetWork
  BY <1>1 DEF CallSetWork, Goto, TypeOK
<1>2. CASE SolutionFound
  BY <1>2 DEF SolutionFound
<1>3. ASSUME NEW w \in Works, SetWork(w)
      PROVE  Clean'
  <2>1. \A q \in Procs : q # Main => pc[q] \notin InWork
    BY <1>3 DEF SetWork, Exclusive, InWork
  <2>2. CASE w = work
    <3>1. Goto(Main, "unlockWork") /\ UNCHANGED <<at, work, mwork, ret>>
      BY <1>3, <2>2 DEF SetWork
    <3>2. \A j \in Miners : CleanAt(j)
      BY <1>3, <2>1 DEF SetWork, InWork
    <3> QED
      BY <2>1, <3>1, <3>2 DEF Goto, TypeOK, InWork
  <2>3. CASE w # work
    <3>1. PICK i \in 0 .. N, place \in {"store", "unlockWork"} :
            MovesTo(Main, i, place) /\ \A j \in Miners : j < i => j = Main
      BY <1>3, <2>3, BeginLoopEffect DEF SetWork
    <3>2. at'[Main] = i /\ pc'[Main] = place /\ \A q \in Procs : q # Main => pc'[q] = pc[q]
      BY <3>1 DEF MovesTo, Goto, TypeOK
    <3> QED
      BY <2>1, <3>1, <3>2 DEF MovesTo, InWork
  <2> QED
    BY <2>2, <2>3
<1> QED
  BY <1>1, <1>2, <1>3

LEMMA MinerClean ==
    ASSUME Base, Clean, NEW m \in Miners, MinerStep(m)
    PROVE  Clean'
<1> USE Names, NameAssumption DEF Clean, CleanAt, InLoop, Base, slotVars, runVars
<1>1. ASSUME Goto(m, "check") \/ Goto(m, "hash") \/ Goto(m, "lockSol") \/ Goto(m, "off")
                \/ Goto(m, "storeSlot") \/ Goto(m, "checkSlot") \/ Goto(m, "lockWork")
                \/ Goto(m, "exit") \/ Goto(m, "unlockSol"),
             pc[m] \in {"begin", "check", "hash", "lockSol", "checkSlot", "storeSlot", "exit"},
             \A j \in Miners \ {m} : ret'[j] = ret[j],
             UNCHANGED <<work, at, mwork>>
      PROVE  Clean'
  BY <1>1 DEF Goto, TypeOK
<1>2. CASE BeginRun(m) \/ CheckStop(m) \/ Miss(m) \/ Hit(m) \/ LockSolution(m)
             \/ CheckSlot(m) \/ StoreSlot(m) \/ ExitRun(m)
  BY <1>1, <1>2 DEF BeginRun, CheckStop, Miss, Hit, LockSolution, CheckSlot, StoreSlot,
     ExitRun, TypeOK
<1>3. CASE ClearFarm(m)
  <2>1. PICK i \in 0 .. N, place \in {"store", "unlockWork"} :
          MovesTo(m, i, place) /\ \A j \in Miners : j < i => j = m
    BY <1>3, BeginLoopEffect DEF ClearFarm
  <2>2. at'[m] = i /\ pc'[m] = place /\ \A q \in Procs : q # m => pc'[q] = pc[q]
    BY <2>1 DEF MovesTo, Goto, TypeOK
  <2>3. \A q \in Procs : q # m => pc[q] \notin InWork
    BY <1>3 DEF ClearFarm, Exclusive, InWork
  <2> QED
    BY <2>1, <2>2, <2>3 DEF MovesTo, InWork
<1>4. CASE UnlockSolution(m)
  BY <1>4 DEF UnlockSolution, Goto, TypeOK
<1>5. CASE ClearOwn(m)
  <2>1. mwork'[m].challenge = Empty /\ \A j \in Miners : j # m => mwork'[j] = mwork[j]
    BY <1>5 DEF ClearOwn, TypeOK, Works
  <2> QED
    BY <1>5, <2>1 DEF ClearOwn, Goto, TypeOK, LoopInv
<1> QED
  BY <1>2, <1>3, <1>4, <1>5, SharedClean DEF MinerStep, SubmitProof

LEMMA NextClean == Base /\ Clean /\ [Next]_vars => Clean'
<1>1. Clean /\ UNCHANGED vars => Clean'
  BY DEF Clean, CleanAt, vars
<1> QED
  BY <1>1, SharedClean, MainClean, MinerClean, Names DEF Next, MainStep

\* With x_minerWork free every miner is on the farm's challenge or on none,
\* but for one that is about to drop its own.
THEOREM OldWorkIsGone == Spec => []NoOldWork
<1>1. Base /\ Clean => NoOldWork
  BY Names, NameAssumption DEF Base, Exclusive, Clean, CleanAt, NoOldWork, InWork, InLoop, Procs
<1> QED
  BY <1>1, InitClean, NextClean, BaseInvariant, PTL DEF Spec

-----------------------------------------------------------------------------
(* WorkDelivered, in Pool mode: only the main thread sets work there. *)

Pooled ==
    /\ pc[Main] \notin InLoop => \A m \in Miners : Delivered(m)
    /\ pc[Main] \in InLoop => \A m \in Miners : m < at[Main] => Delivered(m)
    /\ pc[Main] \in {"stop", "await", "kick"} => mwork[at[Main]] = work
    /\ \A m \in Miners : mwork[m].challenge = Empty =>
          pc[m] = "off" \/ (pc[Main] \in {"stop", "await"} /\ at[Main] = m)

LEMMA InitPooled == Init => Pooled
BY Names DEF Init, Pooled, Delivered, InLoop, Works

LEMMA MainPooled ==
    ASSUME Base, Pooled, Mode = "Pool", MainStep
    PROVE  Pooled'
<1> USE Names, NameAssumption DEF Pooled, Delivered, InLoop, Base, slotVars, runVars
<1>1. CASE CallSetWork \/ LockWork(Main) \/ UnlockWork(Main) \/ SolutionFound
  BY <1>1 DEF CallSetWork, LockWork, UnlockWork, SolutionFound, Goto, TypeOK
<1>2. ASSUME NEW w \in Works, SetWork(w)
      PROVE  Pooled'
  <2>1. CASE w = work
    BY <1>2, <2>1 DEF SetWork, Goto, TypeOK
  <2>2. CASE w # work
    <3>1. PICK i \in 0 .. N, place \in {"store", "unlockWork"} :
            MovesTo(Main, i, place) /\ \A j \in Miners : j < i => j = Main
      BY <1>2, <2>2, BeginLoopEffect DEF SetWork
    <3>2. place = "store"
      BY <3>1, CountAssumption DEF MovesTo, Miners
    <3>3. at'[Main] = i /\ pc'[Main] = "store" /\ \A m \in Miners : pc'[m] = pc[m]
      BY <3>1, <3>2 DEF MovesTo, Goto, TypeOK
    <3> QED
      BY <1>2, <3>1, <3>3 DEF SetWork
  <2> QED
    BY <2>1, <2>2
<1>3. CASE StoreWork(Main)
  <2>1. at[Main] \in Miners
    BY <1>3 DEF StoreWork, LoopInv
  <2>2. CASE Goto(Main, "stop") /\ UNCHANGED at
    <3>1. pc'[Main] = "stop" /\ \A m \in Miners : pc'[m] = pc[m]
      BY <2>2 DEF Goto, TypeOK
    <3>2. mwork'[at[Main]] = work /\ \A m \in Miners : m # at[Main] => mwork'[m] = mwork[m]
      BY <1>3, <2>1 DEF StoreWork, TypeOK
    <3>3. \A m \in Miners : m < at[Main] => m # at[Main]
      BY <2>1 DEF Miners
    <3> QED
      BY <1>3, <2>1, <2>2, <3>1, <3>2, <3>3 DEF StoreWork
  <2>3. CASE NextMiner(Main) /\ work.challenge = Empty /\ mwork[at[Main]].challenge = Empty
    <3>1. PICK i \in 0 .. N, place \in {"store", "unlockWork"} :
            MovesTo(Main, i, place) /\ \A j \in Miners : j < i => j <= at[Main] \/ j = Main
      BY <2>1, <2>3, NextMinerEffect
    <3>2. at'[Main] = i /\ pc'[Main] = place /\ \A m \in Miners : pc'[m] = pc[m]
      BY <3>1 DEF MovesTo, Goto, TypeOK
    <3>3. pc[at[Main]] = "off"
      BY <1>3, <2>1, <2>3 DEF StoreWork
    <3>4. \A m \in Miners : m < i => Delivered(m)'
      <4>1. \A m \in Miners : m < i => m < at[Main] \/ m = at[Main]
        BY <2>1, <3>1 DEF Miners
      <4> QED
        BY <1>3, <2>3, <3>2, <3>3, <4>1 DEF StoreWork
    <3>5. mwork'[at[Main]] = work /\ \A m \in Miners : m # at[Main] => mwork'[m] = mwork[m]
      BY <1>3, <2>1 DEF StoreWork, TypeOK
    <3> QED
      BY <1>3, <2>3, <3>1, <3>2, <3>3, <3>4, <3>5 DEF MovesTo, StoreWork
  <2> QED
    BY <1>3, <2>2, <2>3 DEF StoreWork
<1>4. CASE AskToStop(Main)
  <2>1. at[Main] \in Miners /\ \A m \in Miners : m < at[Main] => m # at[Main]
    BY <1>4 DEF AskToStop, LoopInv, Miners
  <2> QED
    BY <1>4, <2>1 DEF AskToStop, Goto, TypeOK
<1>5. CASE AwaitStopped(Main)
  <2>1. at[Main] \in Miners /\ pc[at[Main]] = "off"
    BY <1>5 DEF AwaitStopped, LoopInv, RunInv
  <2>2. CASE Goto(Main, "kick") /\ UNCHANGED at
    BY <1>5, <2>1, <2>2 DEF AwaitStopped, Goto, TypeOK
  <2>3. CASE NextMiner(Main) /\ work.challenge = Empty
    <3>1. PICK i \in 0 .. N, place \in {"store", "unlockWork"} :
            MovesTo(Main, i, place) /\ \A j \in Miners : j < i => j <= at[Main] \/ j = Main
      BY <2>1, <2>3, NextMinerEffect
    <3>2. at'[Main] = i /\ pc'[Main] = place /\ \A m \in Miners : pc'[m] = pc[m]
      BY <3>1 DEF MovesTo, Goto, TypeOK
    <3>3. \A m \in Miners : m < i => m < at[Main] \/ m = at[Main]
      BY <2>1, <3>1 DEF Miners
    <3>4. \A m \in Miners : m < i => Delivered(m)'
      BY <1>5, <2>1, <2>3, <3>2, <3>3 DEF AwaitStopped
    <3> QED
      BY <1>5, <2>1, <3>1, <3>2, <3>4 DEF MovesTo, AwaitStopped
  <2> QED
    BY <1>5, <2>2, <2>3 DEF AwaitStopped
<1>6. CASE KickOff(Main)
  <2>1. at[Main] \in Miners /\ at[Main] # Main /\ work.challenge # Empty
    BY <1>6 DEF KickOff, LoopInv, RunInv
  <2>2. PICK k \in 0 .. N : k = at[Main] + 1
    BY <2>1
  <2>3. \A m \in Miners : m < k => m < at[Main] \/ m = at[Main]
    BY <2>1, <2>2 DEF Miners
  <2>4. /\ at'[Main] = Skip(Main, k)
        /\ pc'[Main] = LoopAt(Main, Skip(Main, k))
        /\ pc'[at[Main]] = "begin"
        /\ \A m \in Miners : m # at[Main] => pc'[m] = pc[m]
    BY <1>6, <2>1, <2>2 DEF KickOff, TypeOK
  <2>5. /\ ws'[at[Main]] = "Started"
        /\ \A m \in Miners : m # at[Main] => ws'[m] = ws[m]
        /\ UNCHANGED <<work, mwork, mix>>
    BY <1>6, <2>1 DEF KickOff, TypeOK
  <2>51. pc[Main] = "kick"
    BY <1>6 DEF KickOff
  <2>6. \A m \in Miners : m < Skip(Main, k) => Delivered(m)'
    <3>1. \A m \in Miners : m < Skip(Main, k) => m < at[Main] \/ m = at[Main]
      BY <2>3, SkipNext
    <3>2. \A m \in Miners : m = at[Main] => Delivered(m)'
      BY <1>6, <2>1, <2>4, <2>5 DEF KickOff
    <3>3. ASSUME NEW m \in Miners, m < at[Main], m # at[Main]
          PROVE  Delivered(m)'
      <4>1. Delivered(m)
        BY <2>51, <3>3
      <4>2. pc'[m] = pc[m] /\ ws'[m] = ws[m]
        BY <2>4, <2>5, <3>3
      <4> QED
        BY <2>1, <2>5, <4>1, <4>2
    <3> QED
      BY <3>1, <3>2, <3>3
  <2>7. LoopAt(Main, Skip(Main, k)) = "unlockWork" => \A m \in Miners : m < Skip(Main, k)
    BY SkipNext
  <2>8. LoopAt(Main, Skip(Main, k)) \in {"store", "unlockWork"}
    BY SkipNext
  <2>9. ASSUME NEW m \in Miners, mwork'[m].challenge = Empty
        PROVE  pc'[m] = "off"
    <3>1. mwork[m].challenge = Empty /\ pc[m] = "off"
      BY <2>5, <2>51, <2>9
    <3>2. m # at[Main]
      BY <2>1, <2>51, <3>1
    <3> QED
      BY <2>4, <3>1, <3>2
  <2> QED
    BY <2>4, <2>6, <2>7, <2>8, <2>9
<1> QED
  BY <1>1, <1>2, <1>3, <1>4, <1>5, <1>6 DEF MainStep, SetMinersWork

LEMMA MinerPooled ==
    ASSUME Base, Pooled, Mode = "Pool", NEW m \in Miners, MinerStep(m)
    PROVE  Pooled'
<1> USE Names, NameAssumption DEF Pooled, Delivered, InLoop, Base, slotVars, runVars
<1>1. pc[m] \notin InSolo
  BY DEF ProofInv
<1>2. CASE BeginRun(m)
  <2>1. \A p \in Miners : pc[p] \notin {"store", "stop", "await"}
    BY DEF ProofInv, InSolo
  <2>2. Overwriting(m) => pc[Main] \in InLoop /\ at[Main] = m
    BY <2>1 DEF Overwriting, Procs
  <2>3. at[Main] = m => ~(m < at[Main])
    BY DEF Miners
  <2>4. Delivered(m) /\ ~Overwriting(m) => mix'[m] = mwork[m].challenge
    BY <1>2 DEF BeginRun, TypeOK
  <2> QED
    BY <1>2, <2>2, <2>3, <2>4 DEF BeginRun, Goto, TypeOK
<1>3. CASE CheckStop(m) \/ Miss(m) \/ Hit(m) \/ LockSolution(m) \/ CheckSlot(m)
             \/ StoreSlot(m) \/ UnlockSolution(m)
  <2>1. /\ UNCHANGED <<work, mwork, mix, ws, at>>
        /\ pc[m] # "off" /\ pc[m] # "begin"
        /\ \A p \in Procs : p # m => pc'[p] = pc[p]
    BY <1>3 DEF CheckStop, Miss, Hit, LockSolution, CheckSlot, StoreSlot, UnlockSolution,
       Goto, TypeOK
  <2>2. ws[m] = "Started" => pc'[m] # "exit"
    BY <1>3 DEF CheckStop, Miss, Hit, LockSolution, CheckSlot, StoreSlot, UnlockSolution,
       Goto, TypeOK
  <2> QED
    BY <2>1, <2>2 DEF RunInv
<1>4. CASE ExitRun(m)
  BY <1>4 DEF ExitRun, Goto, TypeOK
<1> QED
  BY <1>1, <1>2, <1>3, <1>4
     DEF MinerStep, SubmitProof, SetMinersWork, LockWork, ClearFarm, StoreWork, AskToStop,
         AwaitStopped, KickOff, UnlockWork, ClearOwn, InSolo, TypeOK, MinerPlaces

LEMMA PooledInvariant == ASSUME Mode = "Pool" PROVE Spec => []Pooled
<1>1. Pooled /\ UNCHANGED vars => Pooled'
  BY DEF Pooled, Delivered, vars
<1>2. Base /\ Pooled /\ [Next]_vars => Pooled'
  BY <1>1, MainPooled, MinerPooled DEF Next
<1> QED
  BY <1>2, InitPooled, BaseInvariant, PTL DEF Spec

\* Pool: when setWork has returned, every miner runs on the farm's work.
THEOREM WorkIsDelivered == ASSUME Mode = "Pool" PROVE Spec => []WorkDelivered
<1>1. Pooled => WorkDelivered
  BY DEF Pooled, WorkDelivered, InLoop
<1> QED
  BY <1>1, PooledInvariant, PTL

-----------------------------------------------------------------------------
(* The use of the workers, in both modes                                    *)

\* One thread at a time stops and starts workers, never its own, and it starts
\* none that has not stopped, and none without work.
UsesWorkers ==
    /\ \A p, q \in Procs : pc[p] \in InLoop /\ pc[q] \in InLoop => p = q
    /\ \A p \in Procs : pc[p] \in InLoop => at[p] # p
    /\ \A p \in Procs : pc[p] = "kick" =>
          p = Main /\ ws[at[p]] = "Stopped" /\ pc[at[p]] = "off" /\ work.challenge # Empty

\* The farm and the miners use their workers as class Worker means it, also when
\* miners pause one another in solo mode: a stop and a start never overlap
\* another's, and no worker thread waits for itself to stop (Farm.h:206-213,
\* 629-636; Miner.h:271-288).
THEOREM WorkersAreUsedInTurn == Spec => []UsesWorkers
<1>1. Base => UsesWorkers
  <2> SUFFICES ASSUME Base PROVE UsesWorkers
    OBVIOUS
  <2>1. \A p, q \in Procs : pc[p] \in InLoop /\ pc[q] \in InLoop => p = q
    BY DEF Base, Exclusive, InWork
  <2>2. \A p \in Procs : pc[p] \in InLoop => at[p] \in Miners /\ at[p] # p
    BY DEF Base, LoopInv
  <2>3. ASSUME NEW p \in Procs, pc[p] = "kick"
        PROVE  p = Main /\ ws[at[p]] = "Stopped" /\ pc[at[p]] = "off" /\ work.challenge # Empty
    <3>1. p = Main
      BY <2>3 DEF Base, TypeOK, MinerPlaces, Procs
    <3>2. ws[at[p]] = "Stopped" /\ work.challenge # Empty
      BY <2>3, <3>1 DEF Base, RunInv
    <3>3. at[p] \in Miners
      BY <2>2, <2>3 DEF InLoop
    <3> QED
      BY <3>1, <3>2, <3>3 DEF Base, RunInv
  <2> QED
    BY <2>1, <2>2, <2>3 DEF UsesWorkers
<1> QED
  BY <1>1, BaseInvariant, PTL
-----------------------------------------------------------------------------
(* No circle of waiting threads, in Pool mode *)

\* Whom thread p waits for: the owner of a mutex, or the miner it has asked to stop.
WaitsFor(p) == {q \in Procs : \/ pc[p] = "lockWork" /\ xwork = q
                              \/ pc[p] = "lockSol" /\ xsol = q
                              \/ pc[p] = "await" /\ ws[at[p]] # "Stopped" /\ at[p] = q}

\* p is not in the way of those that wait for it: its next step is open to it.
Moves(p) == pc[p] # "off" /\ WaitsFor(p) = {}

\* Whoever waits, waits for a thread that can move, or for one that waits for such a thread.
NoCircle == \A p \in Procs : \A q \in WaitsFor(p) : Moves(q) \/ \E r \in WaitsFor(q) : Moves(r)

\* Pool: setWork and submitProof, called by any threads at once, never wait
\* for one another in a circle ("we could block here", Farm.h:614-619): a
\* miner holds only x_solution, and takes nothing else while it holds it.
THEOREM NobodyIsStuck == ASSUME Mode = "Pool" PROVE Spec => []NoCircle
<1>1. Base => NoCircle
  <2> SUFFICES ASSUME Base, NEW p \in Procs, NEW q \in WaitsFor(p)
               PROVE  Moves(q) \/ \E r \in WaitsFor(q) : Moves(r)
    BY DEF NoCircle
  <2> USE Names
  <2>1. \A m \in Miners : pc[m] \notin InSolo
    BY DEF Base, ProofInv
  <2>2. ASSUME NEW o \in Miners, xsol = o
        PROVE  Moves(o)
    <3>1. pc[o] \in {"checkSlot", "storeSlot", "unlockSol"}
      BY <2>1, <2>2 DEF Base, Exclusive, InSolution, InSolo
    <3> QED
      BY <3>1 DEF Moves, WaitsFor
  <2>3. CASE pc[p] = "lockWork"
    <3>1. p = Main /\ xwork = q
      BY <2>1, <2>3 DEF WaitsFor, InSolo, Procs
    <3>2. q = Main
      BY <2>1, <3>1 DEF Base, Exclusive, TypeOK, MinerPlaces, InWork, InLoop, InSolo, Procs, WaitsFor
    <3> QED
      BY <2>3, <3>1, <3>2 DEF Base, Exclusive, InWork, InLoop
  <2>4. CASE pc[p] = "lockSol"
    <3>1. xsol = q /\ q \in Miners
      BY <2>4, NameAssumption DEF WaitsFor, Base, TypeOK, Procs
    <3> QED
      BY <2>2, <3>1
  <2>5. CASE pc[p] = "await"
    <3>1. q = at[p] /\ q \in Miners /\ pc[q] # "off"
      BY <2>5 DEF WaitsFor, Base, LoopInv, InLoop, RunInv
    <3>2. pc[q] \notin {"lockWork", "await"}
      BY <2>1, <3>1 DEF InSolo
    <3>3. CASE pc[q] = "lockSol" /\ xsol \in Miners
      BY <2>2, <3>3 DEF WaitsFor
    <3>4. CASE ~(pc[q] = "lockSol" /\ xsol \in Miners)
      <4>1. xsol \in Miners \/ xsol = None
        BY DEF Base, TypeOK
      <4>2. WaitsFor(q) = {}
        BY <3>2, <3>4, <4>1, NameAssumption DEF WaitsFor
      <4> QED
        BY <3>1, <4>2 DEF Moves
    <3> QED
      BY <3>3, <3>4
  <2> QED
    BY <2>3, <2>4, <2>5 DEF WaitsFor
<1> QED
  BY <1>1, BaseInvariant, PTL

-----------------------------------------------------------------------------
(* setWork comes to its end, in Pool mode: SetWorkReturns without time      *)

\* How many of its own steps a miner takes until its worker has stopped, once
\* it has been asked to.
StopIn(m) == IF pc[m] = "off" THEN 0 ELSE IF pc[m] = "exit" THEN 1
             ELSE IF pc[m] = "check" THEN 2 ELSE IF pc[m] \in {"begin", "unlockSol"} THEN 3
             ELSE IF pc[m] = "storeSlot" THEN 4 ELSE IF pc[m] = "checkSlot" THEN 5
             ELSE IF pc[m] = "lockSol" THEN 6 ELSE 7

\* How many steps setWork still takes for the miner it has reached, with
\* those it waits for.
MinerIn == IF pc[Main] = "store" THEN 11 ELSE IF pc[Main] = "stop" THEN 10
           ELSE IF pc[Main] = "await" THEN 2 + StopIn(at[Main]) ELSE 1

\* The same for all the miners it has not done with.
SetIn == IF pc[Main] = "unlockWork" THEN 1 ELSE 1 + 11 * (N - at[Main] - 1) + MinerIn

\* Nothing sets setWork back, and each step of the main thread, or of the
\* miner it waits for, brings it on.
ComesCloser ==
    [][SettingWork /\ SettingWork' =>
          /\ SetIn \in 1 .. 11 * N + 1
          /\ SetIn' <= SetIn
          /\ MainStep \/ (pc[Main] = "await" /\ MinerStep(at[Main])) => SetIn' < SetIn]_vars

\* A miner that setWork waits for has been asked to stop.
Asked == pc[Main] = "await" => ws[at[Main]] # "Started"

LEMMA PoolMiner ==
    ASSUME Mode = "Pool", Base, NEW m \in Miners, MinerStep(m)
    PROVE  /\ \/ BeginRun(m) \/ CheckStop(m) \/ Miss(m) \/ Hit(m) \/ LockSolution(m)
              \/ CheckSlot(m) \/ StoreSlot(m) \/ UnlockSolution(m) \/ ExitRun(m)
           /\ pc'[Main] = pc[Main] /\ at' = at
           /\ \A j \in Miners \ {m} : pc'[j] = pc[j] /\ ws'[j] = ws[j]
<1>1. pc[m] \notin InSolo /\ pc[m] # "kick"
  BY DEF Base, ProofInv, TypeOK, MinerPlaces
<1>2. \/ BeginRun(m) \/ CheckStop(m) \/ Miss(m) \/ Hit(m) \/ LockSolution(m)
      \/ CheckSlot(m) \/ StoreSlot(m) \/ UnlockSolution(m) \/ ExitRun(m)
  BY <1>1 DEF MinerStep, SubmitProof, LockWork, ClearFarm, SetMinersWork, StoreWork, AskToStop,
     AwaitStopped, KickOff, UnlockWork, ClearOwn, InSolo
<1>3. pc \in [Procs -> MainPlaces \cup MinerPlaces] /\ ws \in [Miners -> {"Stopped", "Started", "Stopping"}]
  BY DEF Base, TypeOK
<1>4. \E place : pc' = [pc EXCEPT ![m] = place]
  BY <1>2 DEF BeginRun, CheckStop, Miss, Hit, LockSolution, CheckSlot, StoreSlot, UnlockSolution, ExitRun, Goto
<1>5. at' = at /\ (ws' = ws \/ ws' = [ws EXCEPT ![m] = "Stopped"])
  BY <1>2 DEF BeginRun, CheckStop, Miss, Hit, LockSolution, CheckSlot, StoreSlot, UnlockSolution, ExitRun, runVars
<1> QED
  BY <1>2, <1>3, <1>4, <1>5, Names

LEMMA AskedStep ==
    ASSUME Mode = "Pool", Base, Asked, [Next]_vars
    PROVE  Asked'
<1>1. ASSUME NEW m \in Miners, MinerStep(m) PROVE Asked'
  <2>1. ws' = ws \/ ws' = [ws EXCEPT ![m] = "Stopped"]
    BY <1>1, PoolMiner DEF BeginRun, CheckStop, Miss, Hit, LockSolution, CheckSlot, StoreSlot, UnlockSolution,
       ExitRun, runVars
  <2>2. pc'[Main] = pc[Main] /\ at' = at /\ (pc[Main] = "await" => at[Main] \in Miners)
    BY <1>1, PoolMiner, Names DEF Base, LoopInv, InLoop
  <2> QED
    BY <2>1, <2>2 DEF Asked, Base, TypeOK
<1>2. ASSUME MainStep PROVE Asked'
  <2>1. CASE AskToStop(Main)
    BY <2>1, Names DEF AskToStop, Goto, Asked, Base, TypeOK, LoopInv, InLoop
  <2>2. CASE SolutionFound
    BY <2>2 DEF SolutionFound, Asked, runVars
  <2>3. CASE ~AskToStop(Main) /\ ~SolutionFound
    <3>1. pc'[Main] # "await"
      BY <1>2, <2>3, Names DEF MainStep, CallSetWork, SetWork, BeginLoop, LockWork, SetMinersWork, StoreWork, AwaitStopped,
         KickOff, UnlockWork, NextMiner, Goto, LoopAt, Base, TypeOK
    <3> QED
      BY <3>1 DEF Asked
  <2> QED
    BY <2>1, <2>2, <2>3
<1> QED
  BY <1>1, <1>2 DEF Next, Asked, vars, runVars

LEMMA AskedInvariant == ASSUME Mode = "Pool" PROVE Spec => []Asked
<1>1. Init => Asked
  BY Names DEF Init, Asked
<1> QED
  BY <1>1, AskedStep, BaseInvariant, PTL DEF Spec

\* The loop of the main thread counts up.
LEMMA MainLoop ==
    ASSUME Base, NextMiner(Main), at[Main] \in Miners
    PROVE  /\ at'[Main] = at[Main] + 1 /\ at[Main] \in 0 .. N - 1
           /\ pc'[Main] = IF at[Main] + 1 < N THEN "store" ELSE "unlockWork"
<1>1. Skip(Main, at[Main] + 1) = at[Main] + 1
  BY CountAssumption, NameAssumption DEF Skip, Miners
<1> QED
  BY <1>1, Names DEF NextMiner, Goto, LoopAt, Base, TypeOK, Miners

\* With the miner done, the next one, or the end, is closer.
LEMMA MinerDone ==
    ASSUME NEW i \in 0 .. N - 1, at[Main] = i, at'[Main] = i + 1, pc[Main] \in InLoop,
           pc'[Main] = IF i + 1 < N THEN "store" ELSE "unlockWork"
    PROVE  SetIn' < SetIn
<1>1. MinerIn >= 1 /\ MinerIn \in Nat
  BY DEF MinerIn, StopIn
<1>2. SetIn = 1 + 11 * (N - i - 1) + MinerIn
  BY DEF SetIn, InLoop
<1>3. CASE i + 1 < N
  <2>1. SetIn' = 1 + 11 * (N - (i + 1) - 1) + 11
    BY <1>3 DEF SetIn, MinerIn
  <2> HIDE DEF MinerIn, SetIn
  <2> QED
    BY <1>1, <1>2, <2>1, CountAssumption
<1>4. CASE ~(i + 1 < N)
  <2>1. SetIn' = 1
    BY <1>4 DEF SetIn
  <2> HIDE DEF MinerIn, SetIn
  <2> QED
    BY <1>1, <1>2, <1>4, <2>1, CountAssumption
<1> QED
  BY <1>3, <1>4

LEMMA MainComesCloser ==
    ASSUME Base, MainStep, SettingWork, SettingWork'
    PROVE  SetIn' < SetIn
<1> USE Names DEF Base, TypeOK, LoopInv, InLoop
<1>1. pc[Main] \in InLoop /\ at[Main] \in Miners /\ at[Main] \in 0 .. N - 1 /\ pc'[Main] # "idle"
  <2>1. pc[Main] # "unlockWork"
    BY DEF MainStep, CallSetWork, LockWork, SetWork, SetMinersWork, StoreWork, AskToStop, AwaitStopped, KickOff,
       UnlockWork, SolutionFound, Goto, SettingWork
  <2> QED
    BY <2>1 DEF SettingWork, Miners
<1>2. StoreWork(Main) \/ AskToStop(Main) \/ AwaitStopped(Main) \/ KickOff(Main)
  BY <1>1 DEF MainStep, CallSetWork, LockWork, SetWork, SetMinersWork, UnlockWork, SolutionFound
<1>3. CASE NextMiner(Main)
  BY <1>1, <1>3, MainLoop, MinerDone
<1>4. CASE KickOff(Main)
  <2> DEFINE i == at[Main]
  <2>1. Skip(Main, i + 1) = i + 1
    BY <1>1, NameAssumption DEF Skip, Miners
  <2>2. at'[Main] = i + 1
    BY <1>4, <2>1 DEF KickOff
  <2>3. pc'[Main] = IF i + 1 < N THEN "store" ELSE "unlockWork"
    BY <1>4, <2>1 DEF KickOff, LoopAt
  <2> QED
    BY <1>1, <2>2, <2>3, MinerDone
<1>5. CASE (StoreWork(Main) \/ AskToStop(Main) \/ AwaitStopped(Main)) /\ ~NextMiner(Main)
  <2>1. at' = at
    BY <1>5 DEF StoreWork, AskToStop, AwaitStopped
  <2>2. \/ pc[Main] = "store" /\ pc'[Main] = "stop"
        \/ pc[Main] = "stop" /\ pc'[Main] = "await"
        \/ pc[Main] = "await" /\ pc'[Main] = "kick"
    BY <1>5 DEF StoreWork, AskToStop, AwaitStopped, Goto
  <2>3. MinerIn' < MinerIn /\ MinerIn \in Nat /\ MinerIn' \in Nat
    <3>1. StopIn(at[Main]) \in 0 .. 7 /\ StopIn(at[Main])' \in 0 .. 7
      BY DEF StopIn
    <3> HIDE DEF StopIn
    <3> QED
      BY <2>1, <2>2, <3>1 DEF MinerIn
  <2>4. /\ SetIn = 1 + 11 * (N - at[Main] - 1) + MinerIn
        /\ SetIn' = 1 + 11 * (N - at[Main] - 1) + MinerIn'
    BY <2>1, <2>2 DEF SetIn
  <2> QED
    BY <1>1, <2>3, <2>4, CountAssumption
<1> QED
  BY <1>2, <1>3, <1>4, <1>5

LEMMA MinerComesCloser ==
    ASSUME Mode = "Pool", Base, Asked, SettingWork, NEW m \in Miners, MinerStep(m)
    PROVE  /\ SetIn' <= SetIn
           /\ pc[Main] = "await" /\ m = at[Main] => SetIn' < SetIn
<1>0. /\ pc'[Main] = pc[Main] /\ at' = at
      /\ \A j \in Miners \ {m} : pc'[j] = pc[j]
  BY PoolMiner
<1>1. pc[Main] # "unlockWork" => at[Main] \in 0 .. N - 1 /\ at[Main] \in Miners
  <2>1. pc[Main] # "unlockWork" => at[Main] \in Miners
    BY Names DEF SettingWork, Base, LoopInv, InLoop
  <2> QED
    BY <2>1 DEF Miners
<1>2. CASE pc[Main] = "await" /\ m = at[Main]
  <2>1. ws[m] # "Started" /\ pc \in [Procs -> MainPlaces \cup MinerPlaces] /\ m \in Procs /\ pc[m] \in MinerPlaces
    BY <1>2, Names DEF Asked, Base, TypeOK
  <2>2. ~ret[m] \/ pc[m] # "unlockSol"
    BY DEF Base, ProofInv
  <2>3. StopIn(m)' < StopIn(m)
    BY <2>1, <2>2, PoolMiner DEF StopIn, BeginRun, CheckStop, Miss, Hit, LockSolution, CheckSlot,
       StoreSlot, UnlockSolution, ExitRun, Goto
  <2>4. MinerIn = 2 + StopIn(m) /\ MinerIn' = 2 + StopIn(m)'
    BY <1>0, <1>2 DEF MinerIn, StopIn
  <2>5. SetIn = 1 + 11 * (N - m - 1) + MinerIn /\ SetIn' = 1 + 11 * (N - m - 1) + MinerIn'
    BY <1>0, <1>2 DEF SetIn
  <2>6. StopIn(m) \in Nat /\ StopIn(m)' \in Nat
    BY DEF StopIn
  <2>7. m \in 0 .. N - 1
    BY <1>1, <1>2
  <2> HIDE DEF StopIn, SetIn, MinerIn
  <2> QED
    BY <2>3, <2>4, <2>5, <2>6, <2>7, CountAssumption
<1>3. CASE ~(pc[Main] = "await" /\ m = at[Main])
  <2>1. pc[Main] = "await" => StopIn(at[Main])' = StopIn(at[Main])
    BY <1>0, <1>1, <1>3 DEF StopIn
  <2>2. MinerIn' = MinerIn
    BY <1>0, <2>1 DEF MinerIn
  <2>3. SetIn' = SetIn
    BY <1>0, <2>2 DEF SetIn
  <2>4. SetIn \in Int
    BY <1>1, CountAssumption DEF SetIn, MinerIn, StopIn
  <2> QED
    BY <1>3, <2>3, <2>4
<1> QED
  BY <1>2, <1>3

\* setWork is over after at most 11 steps for each miner, its own and those of
\* the miner it waits for, wherever that one is in workLoop or submitProof and
\* whatever the others do (Farm.h:206-213, 614-621).
THEOREM SetWorkComesToItsEnd == ASSUME Mode = "Pool" PROVE Spec => ComesCloser
<1>1. ASSUME Base, Base', Asked, [Next]_vars
      PROVE  [SettingWork /\ SettingWork' =>
                /\ SetIn \in 1 .. 11 * N + 1
                /\ SetIn' <= SetIn
                /\ MainStep \/ (pc[Main] = "await" /\ MinerStep(at[Main])) => SetIn' < SetIn]_vars
  <2> SUFFICES ASSUME Next, SettingWork, SettingWork'
               PROVE  /\ SetIn \in 1 .. 11 * N + 1
                      /\ SetIn' <= SetIn
                      /\ MainStep \/ (pc[Main] = "await" /\ MinerStep(at[Main])) => SetIn' < SetIn
    BY <1>1
  <2>1. SetIn \in 1 .. 11 * N + 1 /\ SetIn' \in Int
    <3>1. ASSUME Base, SettingWork PROVE SetIn \in 1 .. 11 * N + 1
      <4>1. CASE pc[Main] = "unlockWork"
        BY <4>1, CountAssumption DEF SetIn
      <4>2. CASE pc[Main] # "unlockWork"
        <5>1. at[Main] \in 0 .. N - 1
          BY <3>1, <4>2, Names DEF SettingWork, Base, LoopInv, InLoop, Miners
        <5>2. MinerIn \in 1 .. 11
          BY DEF MinerIn, StopIn
        <5>3. SetIn = 1 + 11 * (N - at[Main] - 1) + MinerIn
          BY <4>2 DEF SetIn
        <5> HIDE DEF MinerIn, SetIn
        <5> QED
          BY <5>1, <5>2, <5>3, CountAssumption
      <4> QED
        BY <4>1, <4>2
    <3>2. SetIn' \in Int
      <4>1. at'[Main] \in Int /\ MinerIn' \in Int
        BY <1>1 DEF Base, TypeOK, Procs, MinerIn, StopIn
      <4> HIDE DEF MinerIn
      <4> QED
        BY <4>1, CountAssumption DEF SetIn
    <3> QED
      BY <1>1, <3>1, <3>2
  <2>2. CASE MainStep
    <3>1. SetIn' < SetIn
      BY <1>1, <2>2, MainComesCloser
    <3> QED
      BY <2>1, <3>1
  <2>3. CASE ~MainStep
    <3>1. PICK m \in Miners : MinerStep(m)
      BY <2>3 DEF Next
    <3>2. SetIn' <= SetIn
      BY <1>1, <3>1, MinerComesCloser
    <3>3. ASSUME pc[Main] = "await", MinerStep(at[Main]) PROVE SetIn' < SetIn
      <4>1. at[Main] \in Miners
        BY <1>1, <3>3, Names DEF Base, LoopInv, InLoop
      <4> QED
        BY <1>1, <3>3, <4>1, MinerComesCloser
    <3> QED
      BY <1>1, <2>1, <2>3, <3>2, <3>3
  <2> QED
    BY <2>2, <2>3
<1> QED
  BY <1>1, AskedInvariant, BaseInvariant, PTL DEF Spec, ComesCloser

-----------------------------------------------------------------------------
(* MinesAsPromised: setWork is Give and Given, the step that makes a        *)
(* solution visible is Report, solutionFound is Take; the rest stutters.    *)

\* Some solo finder has filled the slot and not yet cleared the work.
Publishing == \E m \in Miners : pc[m] \in {"lockWork", "clearFarm"}

\* While a miner is inside x_solution, no other is about to clear the work.
LEMMA PublishingAlone ==
    ASSUME Base, NEW m \in Miners, pc[m] \in InSolution
    PROVE  /\ \A o \in Miners : pc[o] \in {"lockWork", "clearFarm"} => o = m
           /\ Publishing <=> pc[m] \in {"lockWork", "clearFarm"}
BY DEF Base, Exclusive, InSolution, Publishing

\* The slot is filled before the work is cleared, and by the same miner.
Published == \A m \in Miners : pc[m] \in {"lockWork", "clearFarm"} => slot = m

LEMMA NextPublished == Base /\ Published /\ [Next]_vars => Published'
<1> SUFFICES ASSUME Base, Published, [Next]_vars PROVE Published'
  OBVIOUS
<1> USE Names DEF Published
<1>1. ASSUME NEW m \in Miners, pc'[m] \in {"lockWork", "clearFarm"}, pc[m] # "storeSlot"
      PROVE  pc[m] \in {"lockWork", "clearFarm"}
  <2>1. ASSUME NEW p \in Procs, SetMinersWork(p)
        PROVE  pc[m] \in {"lockWork", "clearFarm"}
    <3>1. CASE UnlockWork(p)
      BY <1>1, <3>1 DEF UnlockWork, Goto, Base, TypeOK
    <3>2. CASE KickOff(p)
      <4>1. at[p] \in 0 .. N /\ at[p] + 1 \in 0 .. N
        BY <3>2 DEF KickOff, Base, LoopInv, InLoop
      <4>2. LoopAt(p, Skip(p, at[p] + 1)) \in {"store", "unlockWork"}
        BY <4>1, SkipNext
      <4> QED
        BY <1>1, <3>2, <4>2 DEF KickOff, Base, TypeOK
    <3>3. CASE NextMiner(p) /\ at[p] \in Miners
      <4>1. \E i \in 0 .. N, place \in {"store", "unlockWork"} : MovesTo(p, i, place)
        BY <3>3, NextMinerEffect
      <4> QED
        BY <1>1, <4>1 DEF MovesTo, Goto, Base, TypeOK
    <3>4. CASE Goto(p, "stop") \/ Goto(p, "await") \/ Goto(p, "kick")
      BY <1>1, <3>4 DEF Goto, Base, TypeOK
    <3> QED
      BY <2>1, <3>1, <3>2, <3>3, <3>4
         DEF SetMinersWork, StoreWork, AskToStop, AwaitStopped, Base, LoopInv, InLoop
  <2>2. ASSUME BeginLoop(Main) \/ \E o \in Miners : BeginLoop(o)
        PROVE  pc[m] \in {"lockWork", "clearFarm"}
    <3>1. PICK p \in Procs : BeginLoop(p)
      BY <2>2
    <3>2. \E i \in 0 .. N, place \in {"store", "unlockWork"} : MovesTo(p, i, place)
      BY <3>1, BeginLoopEffect
    <3> QED
      BY <1>1, <3>2 DEF MovesTo, Goto, Base, TypeOK
  <2>3. ASSUME MainStep
        PROVE  pc[m] \in {"lockWork", "clearFarm"}
    BY <1>1, <2>1, <2>2, <2>3 DEF MainStep, CallSetWork, LockWork, SetWork, SolutionFound, Goto, Base, TypeOK
  <2>4. ASSUME NEW o \in Miners, MinerStep(o)
        PROVE  pc[m] \in {"lockWork", "clearFarm"}
    BY <1>1, <2>1, <2>2, <2>4 DEF MinerStep, SubmitProof, BeginRun, CheckStop, Miss, Hit, LockSolution,
       CheckSlot, StoreSlot, LockWork, ClearFarm, UnlockSolution, ClearOwn, ExitRun, Goto, Base, TypeOK
  <2> QED
    BY <1>1, <2>3, <2>4 DEF Next, vars
<1>2. ASSUME NEW m \in Miners, pc[m] = "storeSlot", pc'[m] \in {"lockWork", "clearFarm"}
      PROVE  slot' = m
  <2>1. ASSUME NEW p \in Procs, p # m, SetMinersWork(p)
        PROVE  pc'[m] \in {pc[m], "begin"}
    BY <1>2, <2>1 DEF SetMinersWork, StoreWork, AskToStop, AwaitStopped, KickOff, UnlockWork, NextMiner,
       Goto, Base, TypeOK
  <2>2. ~MainStep
    BY <1>2, <2>1 DEF MainStep, CallSetWork, LockWork, SetWork, SolutionFound, BeginLoop, Goto, Base, TypeOK
  <2>3. ASSUME NEW o \in Miners, o # m
        PROVE  ~MinerStep(o)
    BY <1>2, <2>1, <2>3 DEF MinerStep, SubmitProof, BeginRun, CheckStop, Miss, Hit, LockSolution,
       CheckSlot, StoreSlot, LockWork, ClearFarm, UnlockSolution, ClearOwn, ExitRun, BeginLoop, Goto, Base, TypeOK
  <2>4. MinerStep(m)
    BY <1>2, <2>2, <2>3 DEF Next, vars
  <2>5. StoreSlot(m)
    BY <1>2, <2>4 DEF MinerStep, SubmitProof, SetMinersWork, BeginRun, CheckStop, Miss, Hit, LockSolution,
       CheckSlot, LockWork, ClearFarm, StoreWork, AskToStop, AwaitStopped, KickOff, UnlockWork,
       UnlockSolution, ClearOwn, ExitRun
  <2> QED
    BY <2>5 DEF StoreSlot
<1>3. ASSUME NEW m \in Miners, pc[m] \in {"lockWork", "clearFarm"}
      PROVE  slot' = slot
  <2>1. xsol = m
    BY <1>3 DEF Base, Exclusive, InSolution
  <2>2. ~SolutionFound /\ \A o \in Miners : ~StoreSlot(o)
    BY <1>3, <2>1 DEF SolutionFound, StoreSlot, Base, Exclusive, InSolution
  <2> QED
    BY <2>2, OnlySlotSteps DEF slotVars
<1> QED
  BY <1>1, <1>2, <1>3

LEMMA FarmInit == Init => Promise!Init
BY Names, NameAssumption, ModeAssumption DEF Init, Promise!Init, SlotSeen, SettingWork

\* A step that moves nobody into or out of setWork or the publishing of a
\* solution, and leaves work and slot alone, cannot be told from outside.
LEMMA Unseen ==
    ASSUME UNCHANGED <<work, slotVars>>, Publishing' <=> Publishing, SettingWork' <=> SettingWork
    PROVE  UNCHANGED Promise!pvars
<1>1. SlotSeen' = SlotSeen
  BY DEF slotVars, SlotSeen, Publishing
<1>2. SettingWork' = SettingWork
  BY DEF SettingWork
<1> QED
  BY <1>1, <1>2 DEF Promise!pvars

\* The same for one thread that moves, and perhaps starts a miner.
LEMMA UnseenMove ==
    ASSUME Base, UNCHANGED <<work, slotVars>>, NEW p \in Procs,
           \A q \in Procs : q # p => \/ pc'[q] = pc[q]
                                     \/ q \in Miners /\ pc[q] = "off" /\ pc'[q] = "begin",
           p = Main => (SettingWork' <=> SettingWork),
           p \in Miners => (pc'[p] \in {"lockWork", "clearFarm"} <=>
                               pc[p] \in {"lockWork", "clearFarm"})
    PROVE  UNCHANGED Promise!pvars
<1>1. \A m \in Miners : pc'[m] \in {"lockWork", "clearFarm"} <=> pc[m] \in {"lockWork", "clearFarm"}
  BY Names
<1>2. SettingWork' <=> SettingWork
  BY Names DEF SettingWork, Procs
<1> QED
  BY <1>1, <1>2, Unseen DEF Publishing

\* The loop over the miners, either thread's.
LEMMA LoopAsPromised ==
    ASSUME Base, NEW p \in Procs, StoreWork(p) \/ AskToStop(p) \/ AwaitStopped(p) \/ KickOff(p)
    PROVE  UNCHANGED Promise!pvars
<1> USE Names DEF slotVars, runVars
<1>1. UNCHANGED <<work, slotVars>> /\ pc[p] \in InLoop /\ at[p] \in Miners /\ at[p] # p
  BY DEF StoreWork, AskToStop, AwaitStopped, KickOff, Base, LoopInv, InLoop
<1>2. CASE KickOff(p)
  <2>1. p = Main /\ pc[at[p]] = "off"
    <3>1. p = Main
      BY <1>2 DEF KickOff, Base, TypeOK, MinerPlaces, Procs
    <3> QED
      BY <1>1, <1>2, <3>1 DEF KickOff, Base, RunInv
  <2>2. PICK k \in 0 .. N : k = at[p] + 1
    BY <1>1
  <2>3. LoopAt(p, Skip(p, k)) \in {"store", "unlockWork"}
    BY SkipNext
  <2>4. pc' = [pc EXCEPT ![at[p]] = "begin", ![p] = LoopAt(p, Skip(p, k))]
    BY <1>2, <2>2 DEF KickOff
  <2>5. /\ pc'[p] = LoopAt(p, Skip(p, k)) /\ pc'[at[p]] = "begin"
        /\ \A q \in Procs : q # p /\ q # at[p] => pc'[q] = pc[q]
    BY <1>1, <2>4 DEF Base, TypeOK
  <2>6. SettingWork' <=> SettingWork
    BY <1>1, <2>1, <2>3, <2>5 DEF SettingWork, InLoop
  <2> QED
    BY <1>1, <2>1, <2>5, <2>6, UnseenMove
<1>3. CASE ~KickOff(p)
  <2>1. \E place \in {"store", "stop", "await", "kick", "unlockWork"} : Goto(p, place)
    <3>1. CASE NextMiner(p)
      <4>1. \E i \in 0 .. N, place \in {"store", "unlockWork"} : MovesTo(p, i, place)
        BY <1>1, <3>1, NextMinerEffect
      <4> QED
        BY <4>1 DEF MovesTo
    <3> QED
      BY <1>3, <3>1 DEF StoreWork, AskToStop, AwaitStopped
  <2>2. /\ pc'[p] \in {"store", "stop", "await", "kick", "unlockWork"}
        /\ \A q \in Procs : q # p => pc'[q] = pc[q]
    BY <2>1 DEF Goto, Base, TypeOK
  <2>3. p = Main => (SettingWork' <=> SettingWork)
    BY <1>1, <2>2 DEF SettingWork, InLoop
  <2>4. pc[p] \notin {"lockWork", "clearFarm"} /\ pc'[p] \notin {"lockWork", "clearFarm"}
    BY <1>1, <2>2 DEF InLoop
  <2> QED
    BY <1>1, <2>2, <2>3, <2>4, UnseenMove
<1> QED
  BY <1>2, <1>3

LEMMA MainAsPromised ==
    ASSUME Base, MainStep
    PROVE  [Promise!Next]_Promise!pvars
<1> USE Names, NameAssumption, ModeAssumption DEF slotVars, runVars
<1>1. CASE CallSetWork \/ LockWork(Main)
  <2>1. /\ UNCHANGED <<work, slotVars>>
        /\ \A q \in Procs : q # Main => pc'[q] = pc[q]
        /\ pc[Main] \in {"idle", "lockWork"} /\ pc'[Main] \in {"lockWork", "compare"}
    BY <1>1 DEF CallSetWork, LockWork, Goto, Base, TypeOK
  <2>2. ~SettingWork /\ ~SettingWork'
    BY <2>1 DEF SettingWork
  <2> QED
    BY <2>1, <2>2, UnseenMove
<1>2. ASSUME NEW w \in Works, SetWork(w)
      PROVE  Promise!Give(w)
  <2>1. pc'[Main] \in {"store", "unlockWork"} /\ \A q \in Procs : q # Main => pc'[q] = pc[q]
    <3>1. CASE Goto(Main, "unlockWork")
      BY <3>1 DEF Goto, Base, TypeOK
    <3>2. CASE BeginLoop(Main)
      <4>1. \E i \in 0 .. N, place \in {"store", "unlockWork"} : MovesTo(Main, i, place)
        BY <3>2, BeginLoopEffect
      <4> QED
        BY <4>1 DEF MovesTo, Goto, Base, TypeOK
    <3> QED
      BY <1>2, <3>1, <3>2 DEF SetWork
  <2>2. SettingWork = FALSE /\ SettingWork' = TRUE
    BY <1>2, <2>1 DEF SetWork, SettingWork
  <2>3. SlotSeen' = SlotSeen
    BY <1>2, <2>1 DEF SetWork, SlotSeen
  <2> QED
    BY <1>2, <2>2, <2>3 DEF SetWork, Promise!Give
<1>3. CASE UnlockWork(Main)
  <2>1. pc[Main] = "unlockWork" /\ pc'[Main] = "idle" /\ \A q \in Procs : q # Main => pc'[q] = pc[q]
    BY <1>3 DEF UnlockWork, Goto, Base, TypeOK
  <2>2. SettingWork = TRUE /\ SettingWork' = FALSE
    BY <2>1 DEF SettingWork
  <2>3. SlotSeen' = SlotSeen
    BY <1>3, <2>1 DEF UnlockWork, SlotSeen
  <2>4. Promise!Given
    BY <1>3, <2>2, <2>3 DEF UnlockWork, Promise!Given
  <2> QED
    BY <2>4 DEF Promise!Next
<1>4. CASE SolutionFound
  <2>1. ~Publishing /\ ~Publishing'
    BY <1>4 DEF SolutionFound, Base, Exclusive, InSolution, Publishing
  <2>2. SlotSeen = solution /\ SlotSeen' = Empty /\ solution # Empty
    BY <1>4, <2>1 DEF SolutionFound, SlotSeen, Publishing, Base, TypeOK
  <2>3. SettingWork = FALSE /\ SettingWork' = FALSE
    BY <1>4 DEF SolutionFound, SettingWork
  <2>4. Promise!Take
    BY <1>4, <2>2, <2>3 DEF SolutionFound, Promise!Take
  <2> QED
    BY <2>4 DEF Promise!Next
<1>5. Works = Promise!Works
  BY DEF Works, Promise!Works
<1> QED
  BY <1>1, <1>2, <1>3, <1>4, <1>5, LoopAsPromised DEF MainStep, SetMinersWork, Promise!Next

LEMMA MinerAsPromised ==
    ASSUME Base, Published, Mode = "Pool" => Pooled, NEW m \in Miners, MinerStep(m)
    PROVE  [Promise!Next]_Promise!pvars
<1> USE Names, NameAssumption, ModeAssumption DEF slotVars, runVars
<1>1. CASE BeginRun(m) \/ CheckStop(m) \/ Miss(m) \/ Hit(m) \/ LockSolution(m) \/ CheckSlot(m)
             \/ LockWork(m) \/ UnlockWork(m) \/ UnlockSolution(m) \/ ClearOwn(m) \/ ExitRun(m)
  <2>1. UNCHANGED <<work, slotVars>>
    BY <1>1 DEF BeginRun, CheckStop, Miss, Hit, LockSolution, CheckSlot, LockWork, UnlockWork,
       UnlockSolution, ClearOwn, ExitRun
  <2>2. \A q \in Procs : q # m => pc'[q] = pc[q]
    BY <1>1 DEF BeginRun, CheckStop, Miss, Hit, LockSolution, CheckSlot, LockWork, UnlockWork,
       UnlockSolution, ClearOwn, ExitRun, Goto, Base, TypeOK
  <2>3. pc'[m] \in {"lockWork", "clearFarm"} <=> pc[m] \in {"lockWork", "clearFarm"}
    BY <1>1 DEF BeginRun, CheckStop, Miss, Hit, LockSolution, CheckSlot, LockWork, UnlockWork,
       UnlockSolution, ClearOwn, ExitRun, Goto, Base, TypeOK
  <2> QED
    BY <2>1, <2>2, <2>3, UnseenMove
<1>2. CASE StoreSlot(m) /\ Mode = "Pool"
  <2>1. pc[m] = "storeSlot" /\ pc'[m] = "unlockSol" /\ \A q \in Procs : q # m => pc'[q] = pc[q]
    BY <1>2 DEF StoreSlot, Goto, Base, TypeOK
  <2>2. ~Publishing /\ ~Publishing'
    <3>1. ~Publishing
      BY <2>1, PublishingAlone DEF InSolution
    <3> QED
      BY <2>1, <3>1 DEF Publishing
  <2>3. SlotSeen = Empty /\ SlotSeen' = mix[m] /\ mix[m] \in Challenges
    <3>1. slot = None
      BY <2>1 DEF Base, ProofInv
    <3>2. slot' = m /\ solution' = mix[m] /\ mix[m] \in Challenges
      BY <1>2 DEF StoreSlot, Base, TypeOK
    <3> QED
      BY <2>2, <3>1, <3>2 DEF SlotSeen, Publishing
  <2>4. SettingWork' = SettingWork
    BY <2>1 DEF SettingWork
  <2>5. ~SettingWork => mix[m] = work.challenge
    <3>1. ~SettingWork => Delivered(m)
      BY <1>2 DEF SettingWork, Pooled, InLoop
    <3> QED
      BY <2>1, <3>1 DEF Delivered
  <2>6. Promise!ReportPool(mix[m])
    BY <1>2, <2>3, <2>4, <2>5 DEF StoreSlot, Promise!ReportPool
  <2> QED
    BY <2>3, <2>6 DEF Promise!Next, Promise!Report
<1>3. CASE StoreSlot(m) /\ Mode = "Solo"
  <2>1. /\ pc[m] = "storeSlot" /\ pc'[m] = "lockWork" /\ \A q \in Procs : q # m => pc'[q] = pc[q]
        /\ UNCHANGED work
    BY <1>3 DEF StoreSlot, Goto, Base, TypeOK
  <2>2. slot = None
    BY <2>1 DEF Base, ProofInv
  <2>3. SlotSeen = Empty /\ SlotSeen' = Empty
    BY <2>1, <2>2 DEF SlotSeen
  <2>4. SettingWork' = SettingWork
    BY <2>1 DEF SettingWork
  <2> QED
    BY <2>1, <2>3, <2>4 DEF Promise!pvars
<1>4. CASE ClearFarm(m)
  <2>1. pc[m] = "clearFarm" /\ xwork = m /\ Mode = "Solo"
    BY <1>4 DEF ClearFarm, Base, Exclusive, InWork, ProofInv, InSolo
  <2>2. pc'[m] \in {"store", "unlockWork"} /\ \A q \in Procs : q # m => pc'[q] = pc[q]
    <3>1. \E i \in 0 .. N, place \in {"store", "unlockWork"} : MovesTo(m, i, place)
      BY <1>4, BeginLoopEffect DEF ClearFarm
    <3> QED
      BY <3>1 DEF MovesTo, Goto, Base, TypeOK
  <2>3. SettingWork = FALSE /\ SettingWork' = FALSE
    BY <2>1, <2>2 DEF SettingWork, Base, Exclusive, InWork, InLoop
  <2>4. SlotSeen = Empty
    BY <2>1 DEF SlotSeen
  <2>5. ~Publishing'
    <3>1. \A o \in Miners : o # m => pc[o] \notin {"lockWork", "clearFarm"}
      BY <2>1, PublishingAlone DEF InSolution
    <3> QED
      BY <2>2, <3>1 DEF Publishing
  <2>6. /\ work' = [work EXCEPT !.challenge = Empty]
        /\ slot' = slot /\ solution' = solution /\ solution \in Challenges
    BY <1>4 DEF ClearFarm, Base, TypeOK
  <2>7. CASE slot # None
    <3>1. SlotSeen' = solution
      BY <2>5, <2>6, <2>7 DEF SlotSeen, Publishing
    <3>2. Promise!ReportSolo(solution)
      BY <2>1, <2>3, <2>4, <2>6, <3>1 DEF Promise!ReportSolo
    <3> QED
      BY <2>6, <3>2 DEF Promise!Next, Promise!Report
  <2>8. slot # None
    BY <2>1 DEF Published
  <2> QED
    BY <2>7, <2>8
<1> QED
  BY <1>1, <1>2, <1>3, <1>4, LoopAsPromised DEF MinerStep, SubmitProof, SetMinersWork

\* The farm keeps the promise of FarmPromise, in both modes.
THEOREM FarmImplementsPromise == Spec => MinesAsPromised
<1> DEFINE Inv == Base /\ Published /\ (Mode = "Pool" => Pooled)
<1>1. Init => Inv
  BY InitBase, InitPooled, Names DEF Init, Published
<1>2. Inv /\ [Next]_vars => Inv'
  <2>1. Pooled /\ UNCHANGED vars => Pooled'
    BY DEF Pooled, Delivered, vars
  <2>2. Base /\ Pooled /\ Mode = "Pool" /\ [Next]_vars => Pooled'
    BY <2>1, MainPooled, MinerPooled DEF Next
  <2> QED
    BY <2>2, NextBase, NextPublished
<1>3. Inv /\ [Next]_vars => [Promise!Next]_Promise!pvars
  <2>1. UNCHANGED vars => UNCHANGED Promise!pvars
    BY DEF vars, Promise!pvars, SlotSeen, SettingWork
  <2> QED
    BY <2>1, MainAsPromised, MinerAsPromised DEF Next
<1> HIDE DEF Inv
<1> QED
  BY <1>1, <1>2, <1>3, FarmInit, PTL DEF Spec, MinesAsPromised, Promise!Spec
=============================================================================
