---------------------------- MODULE GetWorkProofs ----------------------------
(***************************************************************************)
(* Proofs about module GetWork for any number of challenges and targets,    *)
(* any memory of challenges and any limits.                                 *)
(***************************************************************************)
EXTENDS GetWork, TLAPS

\* doGetWork is entered, for the first time or again, with the farm paused.
EnteredPaused == pc = "enter" => work.challenge = Empty

IInv == TypeOK /\ FarmFollows /\ EnteredPaused

LEMMA Limits == /\ maxRetries \in Nat \ {0}
                /\ Empty \in Known /\ 1 .. MaxChallenge \subseteq Known
                /\ \A n \in 1 .. MaxChallenge : n - 1 \in Known
BY ChallengeAssumption, LimitsAssumption DEF maxRetries, Known, Empty

LEMMA InitIInv == Init => IInv
<1> SUFFICES ASSUME Init PROVE IInv
  OBVIOUS
<1>1. recent \in Seq(Known) /\ Len(recent) = 0
  BY DEF Init
<1>2. Len(recent) <= Remember /\ retries \in 0 .. maxRetries + 1
  BY <1>1, Limits, LimitsAssumption DEF Init
<1>3. url \in Nodes /\ current \in 1 .. MaxChallenge
  BY ChallengeAssumption DEF Init, Nodes
<1>4. /\ work \in [challenge : Known, target : Targets \cup {NoTarget}]
      /\ health \in [0 .. 1 -> {"erratic", "up", "down"}]
  BY Limits DEF Init
<1>5. TypeOK
  BY <1>1, <1>2, <1>3, <1>4, Limits DEF Init, TypeOK
<1>6. FarmFollows /\ EnteredPaused
  BY DEF Init, FarmFollows, EnteredPaused
<1> QED
  BY <1>5, <1>6 DEF IInv

\* What is remembered are challenges, and no more of them than there is room for.
LEMMA RememberedType ==
    ASSUME TypeOK, NEW c \in Known
    PROVE  Remembered(c) \in Seq(Known) /\ Len(Remembered(c)) <= Remember
<1> DEFINE s == <<c>> \o recent
           k == IF Len(recent) < Remember THEN Len(recent) + 1 ELSE Remember
<1>1. s \in Seq(Known) /\ Len(s) = Len(recent) + 1
  BY DEF TypeOK
<1>2. k \in 1 .. Len(s) /\ k <= Remember
  BY <1>1, LimitsAssumption DEF TypeOK
<1>3. SubSeq(s, 1, k) \in Seq(Known) /\ Len(SubSeq(s, 1, k)) = k
  <2> HIDE DEF s, k
  <2> QED
    BY <1>1, <1>2
<1> QED
  BY <1>2, <1>3 DEF Remembered

\* Whatever is told, the farm is given what the loop takes over.
LEMMA TakeWorkKeeps ==
    ASSUME IInv, NEW c \in Known, NEW t \in Targets \cup {NoTarget},
           TakeWork(c, t), UNCHANGED <<mode, failover>>
    PROVE  /\ challenge' \in Known /\ target' \in Targets \cup {NoTarget}
           /\ recent' \in Seq(Known) /\ Len(recent') <= Remember
           /\ work' \in [challenge : Known, target : Targets \cup {NoTarget}]
           /\ slot' = slot /\ setting' \in BOOLEAN
           /\ FarmFollows'
<1>1. recent' \in Seq(Known) /\ Len(recent') <= Remember
  BY RememberedType DEF IInv, TypeOK, TakeWork
<1>2. CASE IsNew(c) \/ t # target
  <2>1. /\ work' = [challenge |-> challenge', target |-> t]
        /\ slot' = slot /\ setting' = TRUE
    BY <1>2 DEF TakeWork, SetWork, Farm!Give
  <2>2. challenge' \in Known /\ target' = t
    BY DEF TakeWork, IInv, TypeOK
  <2> QED
    BY <1>1, <2>1, <2>2 DEF FarmFollows
<1>3. CASE ~IsNew(c) /\ t = target
  BY <1>1, <1>3 DEF TakeWork, IInv, TypeOK, FarmFollows, farm
<1> QED
  BY <1>2, <1>3

\* The steps of the main thread.
LEMMA MainKeeps == ASSUME IInv, Main PROVE IInv'
<1> USE Limits DEF IInv, TypeOK, EnteredPaused, FarmFollows, Nodes, local, farm, outside, maxRetries
<1>1. CASE Enter
  <2>1. recent' \in Seq(Known) /\ Len(recent') <= Remember
    BY <1>1, LimitsAssumption DEF Enter
  <2>2. retries' \in 0 .. maxRetries' + 1 /\ url' \in Nodes'
    BY <1>1 DEF Enter
  <2> QED
    BY <1>1, <2>1, <2>2 DEF Enter
<1>2. CASE TakeSolution
  BY <1>2 DEF TakeSolution, Leave, Farm!Take
<1>3. CASE Poll
  BY <1>3 DEF Poll, Leave
<1>4. CASE Query
  <2>1. PICK a \in Answers :
          TakeWork(IF mode = "Solo" /\ a[1] = Empty THEN challenge ELSE a[1],
                   IF mode = "Solo" /\ a[2] = NoTarget THEN target ELSE a[2])
    BY <1>4 DEF Query
  <2> DEFINE c == IF mode = "Solo" /\ a[1] = Empty THEN challenge ELSE a[1]
             t == IF mode = "Solo" /\ a[2] = NoTarget THEN target ELSE a[2]
  <2>2. c \in Known /\ t \in Targets \cup {NoTarget}
    BY DEF Answers
  <2>3. TakeWork(c, t) /\ pc' = "poll" /\ UNCHANGED <<mode, failover, url, found, outside>>
    BY <1>4, <2>1 DEF Query
  <2> HIDE DEF c, t
  <2>4. /\ challenge' \in Known /\ target' \in Targets \cup {NoTarget}
        /\ recent' \in Seq(Known) /\ Len(recent') <= Remember
        /\ work' \in [challenge : Known, target : Targets \cup {NoTarget}]
        /\ slot' = slot /\ setting' \in BOOLEAN
        /\ FarmFollows'
    BY <2>2, <2>3, TakeWorkKeeps
  <2> QED
    BY <1>4, <2>3, <2>4 DEF Query
<1>5. CASE Verify \/ Submit \/ Fail \/ Garbled
  BY <1>5 DEF Verify, Submit, Fail, Garbled
<1>6. CASE Catch
  <2>1. retries' \in 0 .. maxRetries + 1
    BY <1>6, LimitsAssumption DEF Catch, CountUp
  <2>2. url' \in Nodes
    BY <1>6 DEF Catch, Leave
  <2>3. CASE retries + 1 = maxRetries
    BY <1>6, <2>1, <2>2, <2>3 DEF Catch, Leave, SetWork, Farm!Give
  <2>4. CASE retries + 1 # maxRetries
    BY <1>6, <2>1, <2>2, <2>4 DEF Catch
  <2> QED
    BY <2>3, <2>4
<1>7. CASE SetWorkReturns
  <2>1. /\ UNCHANGED <<mode, failover, url, pc, challenge, target, recent, retries, found, work, slot>>
        /\ UNCHANGED <<shutDown, current, health>> /\ setting' = FALSE
    BY <1>7 DEF SetWorkReturns, Farm!Given
  <2>2. FarmFollows' /\ EnteredPaused'
    BY <2>1
  <2>3. TypeOK'
    BY <2>1
  <2> QED
    BY <2>2, <2>3 DEF IInv
<1> QED
  BY <1>1, <1>2, <1>3, <1>4, <1>5, <1>6, <1>7 DEF Main

\* The steps of miners, thermal protection, contract and nodes.
LEMMA OthersKeep == ASSUME IInv, Find \/ ShutDown \/ Advance \/ Settle PROVE IInv'
<1> USE Limits DEF IInv, TypeOK, EnteredPaused, FarmFollows, Nodes, local, farm, outside, maxRetries
<1>1. CASE Find
  <2>1. PICK c \in 1 .. MaxChallenge : Farm!Report(c)
    BY <1>1 DEF Find
  <2>2. CASE Farm!ReportPool(c)
    <3>1. /\ UNCHANGED <<mode, failover, url, pc, challenge, target, recent, retries, found, work, setting>>
          /\ UNCHANGED <<shutDown, current, health>> /\ slot' \in Known
      BY <1>1, <2>2 DEF Find, Farm!ReportPool
    <3> QED
      BY <3>1
  <2>3. CASE Farm!ReportSolo(c)
    BY <1>1, <2>3 DEF Find, Farm!ReportSolo
  <2> QED
    BY <2>1, <2>2, <2>3 DEF Farm!Report
<1>2. CASE ShutDown
  BY <1>2 DEF ShutDown
<1>3. CASE Advance
  BY <1>3, ChallengeAssumption DEF Advance
<1>4. CASE Settle
  BY <1>4 DEF Settle
<1> QED
  BY <1>1, <1>2, <1>3, <1>4

LEMMA NextIInv == IInv /\ [Next]_vars => IInv'
<1>1. IInv /\ UNCHANGED vars => IInv'
  BY DEF IInv, TypeOK, FarmFollows, EnteredPaused, vars, local, farm, outside, Nodes, maxRetries
<1> QED
  BY <1>1, MainKeeps, OthersKeep DEF Next

THEOREM Invariant == Spec => []IInv
BY InitIInv, NextIInv, PTL DEF Spec
-----------------------------------------------------------------------------
\* Every variable keeps its range, the memory of challenges its bound.
THEOREM TypeCorrect == Spec => []TypeOK
<1>1. IInv => TypeOK
  BY DEF IInv
<1> QED
  BY <1>1, Invariant, PTL

\* The farm mines for what the loop has taken over (doGetWork's setWork calls).
THEOREM LoopAndFarmAgree == Spec => []FarmFollows
<1>1. IInv => FarmFollows
  BY DEF IInv
<1> QED
  BY <1>1, Invariant, PTL

\* execute goes on to a node, the first or the other, only with the farm paused.
THEOREM NodesAreEnteredPaused == Spec => EntersPaused
<1>1. ASSUME IInv, [Next]_vars
      PROVE  [pc = "enter" /\ pc' # "enter" => ~setting /\ work.challenge = Empty]_vars
  <2> SUFFICES ASSUME Next, pc = "enter", pc' # "enter" PROVE ~setting
    BY <1>1 DEF IInv, EnteredPaused
  <2> QED
    BY DEF Next, Main, SetWorkReturns, Find, ShutDown, Advance, Settle
<1> QED
  BY <1>1, Invariant, PTL DEF Spec, EntersPaused

\* From the failure that meets the limit to the next answer nobody mines.
PausedPastLimit == retries >= maxRetries => challenge = Empty /\ work.challenge = Empty

LEMMA PausedStep == IInv /\ PausedPastLimit /\ [Next]_vars => PausedPastLimit'
<1> SUFFICES ASSUME IInv, PausedPastLimit, [Next]_vars, retries' >= maxRetries'
             PROVE  challenge' = Empty /\ work'.challenge = Empty
  BY DEF PausedPastLimit
<1>0. /\ maxRetries \in Nat \ {0} /\ retries \in 0 .. maxRetries + 1 /\ maxRetries' = maxRetries
      /\ (challenge = Empty => work.challenge = Empty)
  <2>1. failover' = failover
    BY DEF Next, Main, SetWorkReturns, Enter, TakeSolution, Poll, Query, Verify, Submit, Fail, Garbled,
       Catch, Find, ShutDown, Advance, Settle, vars
  <2> QED
    BY <2>1, Limits DEF IInv, TypeOK, FarmFollows, maxRetries
<1>1. CASE Enter \/ Query
  BY <1>0, <1>1 DEF Enter, Query
<1>2. CASE Catch
  <2>1. CASE retries + 1 = maxRetries
    BY <1>2, <2>1 DEF Catch, SetWork, Farm!Give
  <2>2. CASE retries + 1 # maxRetries
    <3>1. retries >= maxRetries /\ challenge' = challenge /\ work' = work
      BY <1>0, <1>2, <2>2 DEF Catch, CountUp, farm
    <3> QED
      BY <3>1 DEF PausedPastLimit
  <2> QED
    BY <2>1, <2>2
<1>3. CASE Find
  <2>1. PICK c \in 1 .. MaxChallenge : Farm!Report(c)
    BY <1>3 DEF Find
  <2>2. work'.challenge \in {work.challenge, Empty}
    BY <2>1 DEF Farm!Report, Farm!ReportPool, Farm!ReportSolo, IInv, TypeOK
  <2>3. UNCHANGED <<retries, challenge>>
    BY <1>3 DEF Find, local
  <2> QED
    BY <1>0, <2>2, <2>3 DEF PausedPastLimit
<1>4. CASE \/ SetWorkReturns \/ TakeSolution \/ Poll \/ Verify \/ Submit \/ Fail \/ Garbled
           \/ ShutDown \/ Advance \/ Settle \/ UNCHANGED vars
  <2>1. UNCHANGED <<retries, challenge, work>>
    BY <1>4 DEF SetWorkReturns, Farm!Given, TakeSolution, Farm!Take, Poll, Verify, Submit, Fail,
       Garbled, ShutDown, Advance, Settle, vars, local, farm
  <2> QED
    BY <1>0, <2>1 DEF PausedPastLimit
<1> QED
  BY <1>1, <1>2, <1>3, <1>4 DEF Next, Main

\* "At some point we should pause mining" (MinerAux.h:1027): past the limit
\* the farm has no work until a node answers or the other node is turned to,
\* whichever calls fail in between.  This is Pauses without time.
THEOREM MiningStopsAtLimit == Spec => []PausedPastLimit
<1>1. Init => PausedPastLimit
  BY DEF Init, PausedPastLimit
<1> QED
  BY <1>1, PausedStep, Invariant, PTL DEF Spec

\* How many steps the main thread still takes after a shutdown.
StepsFrom(p) == IF p = "done" THEN 0 ELSE IF p = "poll" THEN 1 ELSE IF p = "enter" THEN 2
                ELSE IF p = "caught" THEN 3 ELSE IF p \in {"query", "submit"} THEN 4 ELSE 5
ToDone == StepsFrom(pc) + (IF setting /\ pc # "done" THEN 1 ELSE 0)

\* Nothing takes a shutdown back, and each step of the main thread brings the
\* end closer, whatever the nodes and the miners do.
EndsSoon == [][shutDown => /\ shutDown' /\ ToDone \in 0 .. 6 /\ ToDone' <= ToDone
                           /\ Main /\ pc # "done" => ToDone' < ToDone]_vars

\* After a shutdown the program ends within six steps of the main thread, the
\* return of a setWork that is under way among them: ShutsDown without time
\* (MinerAux.h:874, 992, 533).
THEOREM ShutDownIsTheEnd == Spec => EndsSoon
<1>1. ASSUME IInv, IInv', Next, shutDown
      PROVE  /\ shutDown' /\ ToDone \in 0 .. 6 /\ ToDone' <= ToDone
             /\ Main /\ pc # "done" => ToDone' < ToDone
  <2> USE DEF ToDone, StepsFrom
  <2>0. /\ pc \in {"enter", "poll", "query", "verify", "submit", "caught", "done"}
        /\ setting \in BOOLEAN /\ ToDone \in 0 .. 6
    BY <1>1 DEF IInv, TypeOK
  <2>1. CASE ~setting /\ (Enter \/ TakeSolution \/ Poll)
    <3>1. /\ shutDown' /\ setting' = FALSE
          /\ \/ pc = "enter" /\ pc' = "poll"
             \/ pc = "poll" /\ pc' = "done"
      <4>1. CASE Enter \/ Poll
        BY <1>1, <2>0, <2>1, <4>1 DEF Enter, Poll, Leave, farm, outside
      <4>2. CASE TakeSolution
        BY <1>1, <2>0, <2>1, <4>2 DEF TakeSolution, Leave, Farm!Take, outside
      <4> QED
        BY <2>1, <4>1, <4>2
    <3> QED
      BY <2>0, <2>1, <3>1
  <2>2. CASE ~setting /\ (Verify \/ Submit \/ Fail \/ Garbled)
    <3>1. /\ shutDown' /\ setting' = FALSE
          /\ \/ pc = "verify" /\ pc' \in {"poll", "submit"}
             \/ pc \in {"query", "submit"} /\ pc' \in {"poll", "caught"}
      BY <1>1, <2>0, <2>2 DEF Verify, Submit, Fail, Garbled, farm, outside
    <3> QED
      BY <2>0, <2>2, <3>1
  <2>3. CASE ~setting /\ (Query \/ Catch)
    <3>1. shutDown' /\ pc' \in {"poll", "done"} /\ pc \in {"query", "caught"} /\ setting' \in BOOLEAN
      BY <1>1, <2>3 DEF Query, Catch, Leave, outside, IInv, TypeOK
    <3> QED
      BY <2>0, <2>3, <3>1
  <2>4. CASE SetWorkReturns
    BY <1>1, <2>0, <2>4 DEF SetWorkReturns, Farm!Given, outside
  <2>5. CASE Find \/ ShutDown \/ Advance \/ Settle
    <3>1. shutDown' /\ pc' = pc /\ setting' = setting
      BY <1>1, <2>5 DEF Find, Farm!Report, Farm!ReportPool, Farm!ReportSolo, ShutDown, Advance, Settle,
         farm, outside
    <3>2. ~Main \/ pc = "done" \/ ToDone' < ToDone
      BY <2>1, <2>2, <2>3, <2>4 DEF Main
    <3>3. ToDone' = ToDone
      BY <3>1
    <3> QED
      BY <2>0, <3>1, <3>2, <3>3
  <2> QED
    BY <1>1, <2>1, <2>2, <2>3, <2>4, <2>5 DEF Next, Main
<1>2. ASSUME IInv, IInv', [Next]_vars
      PROVE  [shutDown => /\ shutDown' /\ ToDone \in 0 .. 6 /\ ToDone' <= ToDone
                          /\ Main /\ pc # "done" => ToDone' < ToDone]_vars
  BY <1>1, <1>2
<1> QED
  BY <1>2, Invariant, PTL DEF Spec, EndsSoon

\* The loop calls the farm as its promise allows: no call overlaps another,
\* every work is a legal one; and nothing but these calls and the miners'
\* reports touches what the farm holds.
THEOREM LoopUsesPromise == Spec => Farm!Spec
<1>1. Init => Farm!Init
  BY DEF Init, Farm!Init
<1>2. ASSUME IInv, IInv', Next
      PROVE  [Farm!Next]_Farm!pvars
  <2>1. ASSUME NEW c \in Known, NEW t \in Targets \cup {NoTarget}, SetWork(c, t)
        PROVE  Farm!Next
    <3>1. [challenge |-> c, target |-> t] \in Farm!Works
      BY DEF Farm!Works, Known, Empty
    <3> QED
      BY <2>1, <3>1 DEF SetWork, Farm!Next
  <2>2. CASE Query
    <3>0. PICK a \in Answers :
            TakeWork(IF mode = "Solo" /\ a[1] = Empty THEN challenge ELSE a[1],
                     IF mode = "Solo" /\ a[2] = NoTarget THEN target ELSE a[2])
      BY <2>2 DEF Query
    <3>a. /\ a[1] \in Known /\ a[2] \in Targets \cup {NoTarget}
          /\ challenge \in Known /\ target \in Targets \cup {NoTarget}
      BY <1>2, Limits DEF Answers, IInv, TypeOK
    <3>1. PICK c \in Known, t \in Targets \cup {NoTarget} : TakeWork(c, t)
      BY <3>0, <3>a
    <3>2. challenge' \in Known
      BY <1>2 DEF IInv, TypeOK
    <3>3. SetWork(challenge', t) \/ UNCHANGED farm
      BY <3>1 DEF TakeWork
    <3>4. UNCHANGED mode
      BY <2>2 DEF Query
    <3> QED
      BY <2>1, <3>2, <3>3, <3>4 DEF farm, Farm!pvars
  <2>3. CASE Catch
    <3>1. SetWork(Empty, target) \/ UNCHANGED farm
      BY <2>3 DEF Catch
    <3>2. Empty \in Known /\ target \in Targets \cup {NoTarget}
      BY <1>2, Limits DEF IInv, TypeOK
    <3>3. UNCHANGED mode
      BY <2>3 DEF Catch
    <3> QED
      BY <2>1, <3>1, <3>2, <3>3 DEF farm, Farm!pvars
  <2>4. CASE TakeSolution \/ SetWorkReturns \/ Find
    BY <2>4 DEF TakeSolution, SetWorkReturns, Find, Farm!Next
  <2>5. CASE Enter \/ Poll \/ Verify \/ Submit \/ Fail \/ Garbled \/ ShutDown \/ Advance \/ Settle
    BY <2>5 DEF Enter, Poll, Verify, Submit, Fail, Garbled, ShutDown, Advance, Settle, farm, Farm!pvars
  <2> QED
    BY <1>2, <2>2, <2>3, <2>4, <2>5 DEF Next, Main
<1>3. UNCHANGED vars => UNCHANGED Farm!pvars
  BY DEF vars, farm, Farm!pvars
<1> QED
  BY <1>1, <1>2, <1>3, Invariant, PTL DEF Spec, Farm!Spec
=============================================================================
