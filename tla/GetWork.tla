------------------------------- MODULE GetWork -------------------------------
(***************************************************************************)
(* The main thread with getwork nodes: MinerCLI::doGetWork and the loop in  *)
(* MinerCLI::execute that switches between the node and the failover node   *)
(* (ethminer/MinerAux.h), both given as http addresses.                     *)
(*                                                                          *)
(* The farm is used by its promise, module FarmPromise, which module Farm   *)
(* implements.  A solution is identified with the challenge it was found    *)
(* for.  The challenge of the token contract advances; nodes and pools tell *)
(* it, late or garbled until they settle.                                   *)
(*                                                                          *)
(* Left out: how often is asked (the loop may ask on every turn), accounts, *)
(* difficulty, the dev fee, the display, balances, pending transactions     *)
(* (their errors are caught where they occur) and what is sent.             *)
(***************************************************************************)
EXTENDS Naturals, Sequences, Functions

CONSTANTS MaxChallenge, \* bound: the last challenge of the contract
          Targets,      \* the targets that are told
          Remember,     \* how many recent challenges are remembered
          Retries,      \* the -R option, used when there is a failover node
          StopWorkAt    \* c_StopWorkAt, used when there is none

ASSUME ChallengeAssumption == MaxChallenge \in Nat \ {0}
ASSUME TargetsAssumption == Targets \subseteq Nat \ {0}
ASSUME LimitsAssumption == {Remember, Retries, StopWorkAt} \subseteq Nat \ {0}

VARIABLES mode,      \* m_opMode
          failover,  \* failOverAvailable()
          url,       \* execute's i: the node in use
          pc,        \* where the main thread is
          challenge, \* doGetWork's locals
          target,
          recent,    \* recentChallenges
          retries,   \* farmRetries, counted up to one past the limit
          found,     \* solution, with what it was found for
          work,      \* the farm's challenge and target
          slot,      \* the farm's solution, Empty when there is none
          setting,   \* the main thread is in the farm's setWork; pc is where it goes on
          shutDown,  \* the farm's shutDown
          current,   \* the contract's challenge
          health     \* of each node

local == <<challenge, target, recent, retries, found>>
farm == <<work, slot, setting>>
outside == <<shutDown, current, health>>
vars == <<mode, failover, url, pc, local, farm, outside>>

Empty == 0    \* the empty challenge, also what a garbled answer is taken for
NoTarget == 0
Known == Empty .. MaxChallenge
Nodes == IF failover THEN 0 .. 1 ELSE {0}
maxRetries == IF failover THEN Retries ELSE StopWorkAt

Farm == INSTANCE FarmPromise WITH Challenges <- 1 .. MaxChallenge, Targets <- Targets \cup {NoTarget}

TypeOK == /\ mode \in {"Solo", "Pool"} /\ failover \in BOOLEAN
          /\ url \in Nodes
          /\ pc \in {"enter", "poll", "query", "verify", "submit", "caught", "done"}
          /\ challenge \in Known /\ found \in Known
          /\ target \in Targets \cup {NoTarget}
          /\ recent \in Seq(Known) /\ Len(recent) <= Remember
          /\ retries \in 0 .. maxRetries + 1
          /\ work \in [challenge : Known, target : Targets \cup {NoTarget}]
          /\ slot \in Known /\ setting \in BOOLEAN
          /\ shutDown \in BOOLEAN /\ current \in 1 .. MaxChallenge
          /\ health \in [0 .. 1 -> {"erratic", "up", "down"}]

Init == /\ mode \in {"Solo", "Pool"} /\ failover \in BOOLEAN
        /\ url = 0 /\ pc = "enter"
        /\ challenge = Empty /\ target = NoTarget /\ recent = <<>> /\ retries = 0
        /\ found = Empty
        /\ work = [challenge |-> Empty, target |-> NoTarget] /\ slot = Empty /\ setting = FALSE
        /\ shutDown = FALSE /\ current = 1
        /\ health = [i \in 0 .. 1 |-> "erratic"]
-----------------------------------------------------------------------------
(* Around the main thread *)

\* A miner's submitProof.
Find == /\ \E c \in 1 .. MaxChallenge : Farm!Report(c)
        /\ UNCHANGED <<url, pc, local, failover, outside>>

\* The thermal protection.
ShutDown == /\ ~shutDown
            /\ shutDown' = TRUE
            /\ UNCHANGED <<mode, failover, url, pc, local, farm, current, health>>

Advance == /\ current < MaxChallenge
           /\ current' = current + 1
           /\ UNCHANGED <<mode, failover, url, pc, local, farm, shutDown, health>>

\* From here on each node answers correctly or not at all.
Settle == /\ \A i \in 0 .. 1 : health[i] = "erratic"
          /\ health' \in [0 .. 1 -> {"up", "down"}]
          /\ UNCHANGED <<mode, failover, url, pc, local, farm, shutDown, current>>
-----------------------------------------------------------------------------
(* doGetWork *)

\* The locals are constructed anew.
Enter == /\ pc = "enter"
         /\ challenge' = Empty /\ target' = NoTarget /\ recent' = <<>> /\ retries' = 0
         /\ pc' = "poll"
         /\ UNCHANGED <<mode, failover, url, found, farm, outside>>

\* Faulty: execute does not look at shutDown.
LeaveAlways == /\ url' = IF failover THEN (url + 1) % 2 ELSE url
               /\ pc' = "enter"

\* Back in execute: the end, or the other node.
Leave == IF shutDown THEN pc' = "done" /\ UNCHANGED url
                     ELSE pc' = "enter" /\ url' = (url + 1) % 2

\* "while (!f.solutionFound(...) && !f.shutDown)": with a solution ...
TakeSolution == /\ pc = "poll"
                /\ Farm!Take
                /\ found' = slot
                /\ IF shutDown THEN Leave ELSE pc' = "verify" /\ UNCHANGED url
                /\ UNCHANGED <<failover, challenge, target, recent, retries, outside>>

\* ... and without one.
Poll == /\ pc = "poll"
        /\ slot = Empty
        /\ IF shutDown THEN Leave ELSE pc' = "query" /\ UNCHANGED url
        /\ UNCHANGED <<mode, failover, local, farm, outside>>

\* Faulty: nothing is ever dropped.
RememberedAll(c) == <<c>> \o recent

Remembered(c) == SubSeq(<<c>> \o recent, 1,
                        IF Len(recent) < Remember THEN Len(recent) + 1 ELSE Remember)

\* Faulty: old challenges are passed over in pool mode too.
IsUnseen(c) == c # challenge /\ c \notin Range(recent)

\* Only a solo node's answer that was given before is taken for a late one.
IsNew(c) == c # challenge /\ (mode = "Pool" \/ c \notin Range(recent))

SetWork(c, t) == Farm!Give([challenge |-> c, target |-> t])

\* Faulty: a new target alone is not passed on.
TakeNewChallenge(c, t) ==
    /\ recent' = IF IsNew(c) THEN Remembered(c) ELSE recent
    /\ challenge' = IF IsNew(c) THEN c ELSE challenge
    /\ target' = t
    /\ IF IsNew(c) THEN SetWork(c, t) ELSE UNCHANGED farm

\* A new challenge and a new target, each is set to work.
TakeWork(c, t) ==
    /\ recent' = IF IsNew(c) THEN Remembered(c) ELSE recent
    /\ challenge' = IF IsNew(c) THEN c ELSE challenge
    /\ target' = t
    /\ IF IsNew(c) \/ t # target THEN SetWork(challenge', t) ELSE UNCHANGED farm

Answers == IF health[url] = "up" THEN {current} \X Targets
                                 ELSE {current, current - 1, Empty} \X (Targets \cup {NoTarget})

\* getWorkPool or getWorkSolo; a solo node's garbled answers are replaced.
Query == /\ pc = "query"
         /\ health[url] # "down"
         /\ \E a \in Answers :
              TakeWork(IF mode = "Solo" /\ a[1] = Empty THEN challenge ELSE a[1],
                       IF mode = "Solo" /\ a[2] = NoTarget THEN target ELSE a[2])
         /\ retries' = 0
         /\ pc' = "poll"
         /\ UNCHANGED <<mode, failover, url, found, outside>>

\* The hash of the present challenge with the solution's nonce is below the
\* target only if it is the solution's challenge.  With no present challenge
\* the hash is taken of bytes that do not belong to it.
Verify == /\ pc = "verify"
          /\ \/ pc' = "poll"
             \/ /\ challenge \in {found, Empty}
                /\ pc' = "submit"
          /\ UNCHANGED <<mode, failover, url, local, farm, outside>>

Submit == /\ pc = "submit"
          /\ health[url] # "down"
          /\ pc' = "poll"
          /\ UNCHANGED <<mode, failover, url, local, farm, outside>>

\* A call throws a JsonRpcException.
Fail == /\ pc \in {"query", "submit"}
        /\ health[url] # "up"
        /\ pc' = "caught"
        /\ UNCHANGED <<mode, failover, url, local, farm, outside>>

\* Any other exception is logged, nothing else.
Garbled == /\ pc \in {"query", "submit"}
           /\ health[url] = "erratic"
           /\ pc' = "poll"
           /\ UNCHANGED <<mode, failover, url, local, farm, outside>>

CountUp == retries' = IF retries > maxRetries THEN retries ELSE retries + 1

\* Faulty: at the limit setWork is called with the work that is there.
CatchKeepsChallenge == /\ pc = "caught"
                       /\ CountUp
                       /\ IF retries + 1 = maxRetries /\ failover
                            THEN Leave ELSE pc' = "poll" /\ UNCHANGED url
                       /\ UNCHANGED <<mode, failover, challenge, target, recent, found, farm, outside>>

\* Faulty: the switch comes first.
CatchLeavesFirst == /\ pc = "caught"
                    /\ CountUp
                    /\ IF retries + 1 = maxRetries /\ ~failover
                         THEN challenge' = Empty /\ SetWork(Empty, target)
                         ELSE UNCHANGED <<challenge, farm>>
                    /\ IF retries + 1 = maxRetries /\ failover
                         THEN Leave ELSE pc' = "poll" /\ UNCHANGED url
                    /\ UNCHANGED <<mode, failover, target, recent, found, outside>>

\* The handler: at the limit mining is paused, and the node left if there is another.
Catch == /\ pc = "caught"
         /\ CountUp
         /\ IF retries + 1 = maxRetries
              THEN challenge' = Empty /\ SetWork(Empty, target)
              ELSE UNCHANGED <<challenge, farm>>
         /\ IF retries + 1 = maxRetries /\ failover
              THEN Leave ELSE pc' = "poll" /\ UNCHANGED url
         /\ UNCHANGED <<mode, failover, target, recent, found, outside>>

\* The farm's setWork returns.
SetWorkReturns == /\ Farm!Given
                  /\ UNCHANGED <<failover, url, pc, local, outside>>

Main == \/ SetWorkReturns
        \/ /\ ~setting
           /\ \/ Enter \/ TakeSolution \/ Poll \/ Query \/ Verify \/ Submit \/ Fail \/ Garbled \/ Catch

Next == Main \/ Find \/ ShutDown \/ Advance \/ Settle

Spec == Init /\ [][Next]_vars

FairSpec == Spec /\ WF_vars(Main)
-----------------------------------------------------------------------------
(* Properties *)

(* The farm works on what the loop believes it works on, after every        *)
(* answer, exception and switch of nodes; in solo mode it may have paused   *)
(* itself (MinerAux.h:941-963, 1024-1029).                                  *)
FarmFollows == /\ \/ work.challenge = challenge
                  \/ mode = "Solo" /\ work.challenge = Empty
               /\ work.target = target \/ challenge = Empty

Asking == []<>(pc = "query") \* solutions are rare enough for the loop to ask again

(* When a node that can be used answers correctly for good, its challenge   *)
(* is taken over in the end, wherever the other node, the retries and the   *)
(* exceptions have left the loop - except in solo mode a challenge that is  *)
(* remembered from before (MinerAux.h:941-958, 1016-1034, 520-538).         *)
TakesOver == Asking /\ <>(\E i \in Nodes : health[i] = "up") =>
                 <>[](challenge = current \/ (mode = "Solo" /\ current \in Range(recent)))

(* When no node answers any more, mining is paused in the end ("at some     *)
(* point we should pause mining", MinerAux.h:1027), also when some of the   *)
(* failed calls were submissions and others were to the other node.         *)
Pauses == Asking /\ <>(\A i \in Nodes : health[i] = "down") => <>[](work.challenge = Empty)

(* The failover node's loop never starts with the miners still hashing for  *)
(* the node that was left, nor before the farm has stopped them             *)
(* (MinerAux.h:1028-1032).                                                  *)
EntersPaused == [][pc = "enter" /\ pc' # "enter" => ~setting /\ work.challenge = Empty]_vars

(* A shutdown ends the program from every place, also in the middle of an   *)
(* outage or a switch (MinerAux.h:874, 992, 533).                           *)
ShutsDown == shutDown ~> pc = "done"
=============================================================================
