-------------------------------- MODULE Farm --------------------------------
(***************************************************************************)
(* The farm and its miners: GenericFarm::setWork, submitProof and           *)
(* solutionFound (libethcore/Farm.h), GenericMiner::setWork and submitProof *)
(* (Miner.h), and the work loop of EthashCPUMiner.                          *)
(*                                                                          *)
(* The main thread hands out work and collects solutions; each miner has a  *)
(* worker thread that hashes and reports.  They meet in two mutexes of the  *)
(* farm, x_minerWork and x_solution, and in the Worker protocol, which is   *)
(* used here by its promise (module RunControl, which module Worker         *)
(* implements): pause() = ask the worker to stop and wait until it has,     *)
(* kickOff() = return with a new run begun.                                 *)
(*                                                                          *)
(* Data left out: nonces and hashes (a solution is the challenge it was     *)
(* found for), the worth of a target, the stored nonce index, statistics.   *)
(***************************************************************************)
EXTENDS Naturals

CONSTANTS N,          \* number of miners; a miner is its m_index
          Main,       \* the main thread
          None,       \* no owner, no miner (solutionMiner = -1)
          Challenges, \* the challenges the node or pool hands out
          Empty,      \* the empty byte string
          Targets,    \* the targets it hands out
          Mode        \* m_opMode

Miners == 0 .. N - 1
Procs == Miners \cup {Main}

ASSUME CountAssumption == N \in Nat \ {0}
ASSUME NameAssumption == /\ Main \notin Nat
                         /\ None \notin Procs
                         /\ Empty \notin Challenges
                         /\ Challenges # {}
ASSUME ModeAssumption == Mode \in {"Solo", "Pool"}

VARIABLES work,     \* the farm's m_challenge and m_target
          xwork,    \* owner of x_minerWork
          xsol,     \* owner of x_solution
          slot,     \* solutionMiner: whose solution waits for the main thread
          solution, \* the solution in the slot
          mwork,    \* each miner's challenge and target
          mix,      \* the challenge its running work loop hashes with
          ws,       \* its worker: "Stopped", "Started" or "Stopping"
          pc,       \* where each thread is
          at,       \* the miner that a thread's loop over m_miners has reached
          ret       \* the result of the farm's submitProof

vars == <<work, xwork, xsol, slot, solution, mwork, mix, ws, pc, at, ret>>
slotVars == <<slot, solution>>
runVars == <<mwork, mix, ws>>

Works == [challenge : Challenges \cup {Empty}, target : Targets]

MainPlaces == {"idle", "lockWork", "compare", "store", "stop", "await", "kick", "unlockWork"}
MinerPlaces == {"off", "begin", "check", "hash", "lockSol", "checkSlot", "storeSlot",
                "lockWork", "clearFarm", "store", "stop", "await", "unlockWork",
                "unlockSol", "clearOwn", "exit"}

TypeOK == /\ work \in Works
          /\ xwork \in Procs \cup {None}
          /\ xsol \in Miners \cup {None}
          /\ slot \in Miners \cup {None}
          /\ solution \in Challenges
          /\ mwork \in [Miners -> Works]
          /\ mix \in [Miners -> Challenges]
          /\ ws \in [Miners -> {"Stopped", "Started", "Stopping"}]
          /\ pc \in [Procs -> MainPlaces \cup MinerPlaces]
          /\ pc[Main] \in MainPlaces
          /\ \A m \in Miners : pc[m] \in MinerPlaces
          /\ at \in [Procs -> 0 .. N]
          /\ ret \in [Miners -> BOOLEAN]

\* No miner has been set to work yet; solution, mix and ret are not yet read.
Init == /\ work \in [challenge : {Empty}, target : Targets]
        /\ xwork = None
        /\ xsol = None
        /\ slot = None
        /\ solution \in Challenges
        /\ mwork = [m \in Miners |-> work]
        /\ mix = [m \in Miners |-> solution]
        /\ ws = [m \in Miners |-> "Stopped"]
        /\ pc = [p \in Procs |-> IF p = Main THEN "idle" ELSE "off"]
        /\ at = [p \in Procs |-> 0]
        /\ ret = [m \in Miners |-> FALSE]

Goto(p, place) == pc' = [pc EXCEPT ![p] = place]
-----------------------------------------------------------------------------
(* The loop "for (auto const& m: m_miners) m->setWork(...)": the main       *)
(* thread goes over all the miners, a miner over all but itself.            *)

Skip(p, i) == IF i = p THEN i + 1 ELSE i

\* Where a loop of p goes that has reached miner i.
LoopAt(p, i) == IF i < N THEN "store" ELSE "unlockWork"

BeginLoop(p) == /\ at' = [at EXCEPT ![p] = Skip(p, 0)]
                /\ Goto(p, LoopAt(p, Skip(p, 0)))

NextMiner(p) == /\ at' = [at EXCEPT ![p] = Skip(p, at[p] + 1)]
                /\ Goto(p, LoopAt(p, Skip(p, at[p] + 1)))

\* GenericMiner::setWork stores the work under the miner's own x_work; then
\* it pauses the miner, unless there is neither old nor new work.
StoreWork(p) ==
    LET m == at[p] IN
    /\ pc[p] = "store"
    /\ mwork' = [mwork EXCEPT ![m] = work]
    /\ IF work.challenge # Empty \/ mwork[m].challenge # Empty
         THEN Goto(p, "stop") /\ UNCHANGED at
         ELSE NextMiner(p)
    /\ UNCHANGED <<work, xwork, xsol, slotVars, mix, ws, ret>>

\* pause(): stopWorking asks ...
AskToStop(p) ==
    LET m == at[p] IN
    /\ pc[p] = "stop"
    /\ ws' = [ws EXCEPT ![m] = IF @ = "Started" THEN "Stopping" ELSE @]
    /\ Goto(p, "await")
    /\ UNCHANGED <<work, xwork, xsol, slotVars, mwork, mix, at, ret>>

\* ... and waits until the worker has stopped.
AwaitStopped(p) ==
    /\ pc[p] = "await"
    /\ ws[at[p]] = "Stopped"
    /\ IF work.challenge # Empty THEN Goto(p, "kick") /\ UNCHANGED at
                                 ELSE NextMiner(p)
    /\ UNCHANGED <<work, xwork, xsol, slotVars, runVars, ret>>

\* kickOff(): startWorking returns with the work loop entered.
KickOff(p) ==
    LET m == at[p]
        i == Skip(p, m + 1) IN
    /\ pc[p] = "kick"
    /\ ws' = [ws EXCEPT ![m] = "Started"]
    /\ pc' = [pc EXCEPT ![m] = "begin", ![p] = LoopAt(p, i)]
    /\ at' = [at EXCEPT ![p] = i]
    /\ UNCHANGED <<work, xwork, xsol, slotVars, mwork, mix, ret>>

LockWork(p) == /\ pc[p] = "lockWork"
               /\ xwork = None
               /\ xwork' = p
               /\ Goto(p, IF p = Main THEN "compare" ELSE "clearFarm")
               /\ UNCHANGED <<work, xsol, slotVars, runVars, at, ret>>

UnlockWork(p) == /\ pc[p] = "unlockWork"
                 /\ xwork' = None
                 /\ Goto(p, IF p = Main THEN "idle" ELSE "unlockSol")
                 /\ UNCHANGED <<work, xsol, slotVars, runVars, at, ret>>

SetMinersWork(p) == \/ StoreWork(p) \/ AskToStop(p) \/ AwaitStopped(p) \/ KickOff(p)
                    \/ UnlockWork(p)
-----------------------------------------------------------------------------
(* The main thread *)

CallSetWork == /\ pc[Main] = "idle"
               /\ Goto(Main, "lockWork")
               /\ UNCHANGED <<work, xwork, xsol, slotVars, runVars, at, ret>>

\* Faulty: a changed target alone is taken for the same work.
SetWorkByChallenge(w) == /\ pc[Main] = "compare"
                         /\ work' = w
                         /\ IF w.challenge = work.challenge
                              THEN Goto(Main, "unlockWork") /\ UNCHANGED at
                              ELSE BeginLoop(Main)
                         /\ UNCHANGED <<xwork, xsol, slotVars, runVars, ret>>

\* Faulty: the early return keeps x_minerWork.
SetWorkKeepsLock(w) == /\ pc[Main] = "compare"
                       /\ work' = w
                       /\ IF w = work THEN Goto(Main, "idle") /\ UNCHANGED at
                                      ELSE BeginLoop(Main)
                       /\ UNCHANGED <<xwork, xsol, slotVars, runVars, ret>>

\* Faulty: the miners are not told that there is no work any more.
SetWorkTellsOnlyWork(w) == /\ pc[Main] = "compare"
                           /\ work' = w
                           /\ IF w = work \/ w.challenge = Empty
                                THEN Goto(Main, "unlockWork") /\ UNCHANGED at
                                ELSE BeginLoop(Main)
                           /\ UNCHANGED <<xwork, xsol, slotVars, runVars, ret>>

\* GenericFarm::setWork: the same work again changes nothing.
SetWork(w) == /\ pc[Main] = "compare"
              /\ work' = w
              /\ IF w = work THEN Goto(Main, "unlockWork") /\ UNCHANGED at
                             ELSE BeginLoop(Main)
              /\ UNCHANGED <<xwork, xsol, slotVars, runVars, ret>>

\* GenericFarm::solutionFound, one critical section of x_solution
SolutionFound == /\ pc[Main] = "idle"
                 /\ xsol = None
                 /\ slot # None
                 /\ slot' = None
                 /\ UNCHANGED <<work, xwork, xsol, solution, runVars, pc, at, ret>>

MainStep == \/ CallSetWork \/ LockWork(Main) \/ (\E w \in Works : SetWork(w))
            \/ SetMinersWork(Main) \/ SolutionFound
-----------------------------------------------------------------------------
(* The worker thread of miner m *)

\* Some thread is inside setWork of m, so challenge may be read while it is
\* being written.
Overwriting(m) == \E p \in Procs : at[p] = m /\ pc[p] \in {"store", "stop", "await"}

\* Faulty: the challenge is not copied again with every run.
BeginRunAgain(m) == /\ pc[m] = "begin"
                    /\ Goto(m, "check")
                    /\ UNCHANGED <<work, xwork, xsol, slotVars, mwork, mix, ws, at, ret>>

\* workLoop copies the challenge into mix.  Bytes that are being overwritten,
\* or that are no longer there, can come out as anything.
BeginRun(m) == /\ pc[m] = "begin"
               /\ \E b \in Challenges :
                    /\ ~Overwriting(m) /\ mwork[m].challenge # Empty => b = mwork[m].challenge
                    /\ mix' = [mix EXCEPT ![m] = b]
               /\ Goto(m, "check")
               /\ UNCHANGED <<work, xwork, xsol, slotVars, mwork, ws, at, ret>>

CheckStop(m) == /\ pc[m] = "check"
                /\ Goto(m, IF ws[m] = "Started" THEN "hash" ELSE "exit")
                /\ UNCHANGED <<work, xwork, xsol, slotVars, runVars, at, ret>>

\* One hash: it is below the target, or it is not.
Miss(m) == /\ pc[m] = "hash"
           /\ Goto(m, "check")
           /\ UNCHANGED <<work, xwork, xsol, slotVars, runVars, at, ret>>

Hit(m) == /\ pc[m] = "hash"
          /\ Goto(m, "lockSol")
          /\ UNCHANGED <<work, xwork, xsol, slotVars, runVars, at, ret>>

LockSolution(m) == /\ pc[m] = "lockSol"
                   /\ xsol = None
                   /\ xsol' = m
                   /\ Goto(m, "checkSlot")
                   /\ UNCHANGED <<work, xwork, slotVars, runVars, at, ret>>

\* Faulty: a newer solution replaces the one that waits.
CheckSlotNever(m) == /\ pc[m] = "checkSlot"
                     /\ ret' = [ret EXCEPT ![m] = Mode = "Solo"]
                     /\ Goto(m, "storeSlot")
                     /\ UNCHANGED <<work, xwork, xsol, slotVars, runVars, at>>

\* Faulty: x_solution is kept when the slot is taken.
CheckSlotKeepsLock(m) == /\ pc[m] = "checkSlot"
                         /\ ret' = [ret EXCEPT ![m] = Mode = "Solo"]
                         /\ Goto(m, IF slot = None THEN "storeSlot" ELSE "check")
                         /\ UNCHANGED <<work, xwork, xsol, slotVars, runVars, at>>

\* GenericFarm::submitProof: is the previous solution still unprocessed?
CheckSlot(m) == /\ pc[m] = "checkSlot"
                /\ ret' = [ret EXCEPT ![m] = Mode = "Solo"]
                /\ Goto(m, IF slot = None THEN "storeSlot" ELSE "unlockSol")
                /\ UNCHANGED <<work, xwork, xsol, slotVars, runVars, at>>

\* Faulty: the solution is filed under the miner's challenge of the moment,
\* not the one it was found for.
StoreSlotLate(m) == /\ pc[m] = "storeSlot"
                    /\ slot' = m
                    /\ solution' = mwork[m].challenge
                    /\ Goto(m, IF Mode = "Solo" THEN "lockWork" ELSE "unlockSol")
                    /\ UNCHANGED <<work, xwork, xsol, runVars, at, ret>>

StoreSlot(m) == /\ pc[m] = "storeSlot"
                /\ slot' = m
                /\ solution' = mix[m]
                /\ Goto(m, IF Mode = "Solo" THEN "lockWork" ELSE "unlockSol")
                /\ UNCHANGED <<work, xwork, xsol, runVars, at, ret>>

\* Solo: the farm has no work any more, and the other miners are paused.
ClearFarm(m) == /\ pc[m] = "clearFarm"
                /\ work' = [work EXCEPT !.challenge = Empty]
                /\ BeginLoop(m)
                /\ UNCHANGED <<xwork, xsol, slotVars, runVars, ret>>

\* Back in GenericMiner::submitProof ...
UnlockSolution(m) == /\ pc[m] = "unlockSol"
                     /\ xsol' = None
                     /\ Goto(m, IF ret[m] THEN "clearOwn" ELSE "check")
                     /\ UNCHANGED <<work, xwork, slotVars, runVars, at, ret>>

\* ... which drops the miner's own challenge when the farm says stop.
ClearOwn(m) == /\ pc[m] = "clearOwn"
               /\ mwork' = [mwork EXCEPT ![m].challenge = Empty]
               /\ Goto(m, "exit")
               /\ UNCHANGED <<work, xwork, xsol, slotVars, mix, ws, at, ret>>

ExitRun(m) == /\ pc[m] = "exit"
              /\ ws' = [ws EXCEPT ![m] = "Stopped"]
              /\ Goto(m, "off")
              /\ UNCHANGED <<work, xwork, xsol, slotVars, mwork, mix, at, ret>>

SubmitProof(m) == \/ CheckSlot(m) \/ StoreSlot(m)
                  \/ LockWork(m) \/ ClearFarm(m) \/ SetMinersWork(m)
                  \/ UnlockSolution(m) \/ ClearOwn(m)

MinerStep(m) == \/ BeginRun(m) \/ CheckStop(m) \/ Miss(m) \/ Hit(m)
                \/ LockSolution(m) \/ SubmitProof(m) \/ ExitRun(m)

Next == MainStep \/ \E m \in Miners : MinerStep(m)

Spec == Init /\ [][Next]_vars

(* Threads run, and a mutex that is released again and again is eventually  *)
(* given to each thread that waits for it.  Nothing makes the main thread   *)
(* call setWork, nor a hash hit.                                            *)
Fairness == /\ WF_vars(LockWork(Main) \/ (\E w \in Works : SetWork(w)) \/ SetMinersWork(Main))
            /\ \A m \in Miners :
                 /\ WF_vars(MinerStep(m))
                 /\ SF_vars(LockSolution(m))

FairSpec == Spec /\ Fairness
-----------------------------------------------------------------------------
(* Properties *)

\* Miner m does what the farm's current work asks of it.
Delivered(m) ==
    IF work.challenge = Empty
      THEN pc[m] = "off"
      ELSE /\ ws[m] = "Started"
           /\ pc[m] # "exit"
           /\ mwork[m] = work
           /\ pc[m] = "begin" \/ mix[m] = work.challenge

(* Pool: when setWork has returned, every miner's worker is running on the  *)
(* farm's challenge and target and keeps doing so - or, if the challenge is *)
(* empty, none is running (Farm.h:206-212 through Miner.h:271-288).         *)
WorkDelivered == pc[Main] = "idle" => \A m \in Miners : Delivered(m)

(* A solution in the slot is neither replaced nor dropped before the main   *)
(* thread has taken it, whichever miners report while it waits              *)
(* (Farm.h:621-645, 654-661).                                               *)
SlotKept == [][slot # None => UNCHANGED slotVars \/ SolutionFound]_vars

\* What the main thread sees of a solution: in solo mode nothing, until the
\* farm's challenge is cleared as well.
SlotSeen == IF slot = None \/ \E m \in Miners : pc[m] \in {"lockWork", "clearFarm"}
              THEN Empty ELSE solution

SettingWork == pc[Main] \in {"store", "stop", "await", "kick", "unlockWork"}

Promise == INSTANCE FarmPromise WITH mode <- Mode, slot <- SlotSeen, setting <- SettingWork

(* All its threads and locks together do what the main loops rely on: in    *)
(* pool mode a solution reported outside of setWork is for the work that    *)
(* was set last; in solo mode nobody can take a solution before the farm's  *)
(* work is cleared (Farm.h:198-213, 601, 621-661).                          *)
MinesAsPromised == Promise!Spec

(* With x_minerWork free, no miner holds on to a challenge that the farm    *)
(* has replaced or cleared, except the one whose solo proof was just        *)
(* accepted and that is about to drop its own (Miner.h:531-534).            *)
NoOldWork ==
    xwork = None =>
        \A m \in Miners :
            \/ mwork[m].challenge \in {work.challenge, Empty}
            \/ pc[m] \in {"unlockSol", "clearOwn"} /\ ret[m]

(* setWork returns: the miners it pauses come to a stop even when they are  *)
(* blocked in submitProof ("we could block here if ... setWork has been     *)
(* called with a new work package", Farm.h:614-619).                        *)
SetWorkReturns == pc[Main] # "idle" ~> pc[Main] = "idle"

(* submitProof returns (Farm.h:599-602, 608).                               *)
ProofReturns == \A m \in Miners : pc[m] = "lockSol" ~> pc[m] \in {"check", "clearOwn"}
=============================================================================
