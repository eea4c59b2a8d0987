---------------------------- MODULE WorkerProofs ----------------------------
(***************************************************************************)
(* Proofs about module Worker for any set of controllers: the inductive     *)
(* invariant, the safety properties it implies, and that the protocol       *)
(* implements RunControl.                                                   *)
(***************************************************************************)
EXTENDS Worker, Naturals, TLAPS

\* x_work is held by exactly the controller that is inside an operation.
Exclusive == \A c \in Controllers : cpc[c] \in {"enter", "wait"} <=> xwork = c

\* What m_state can be at each place of the worker thread.
ThreadState ==
    /\ tpc = "none" <=> ~spawned
    /\ tpc = "test" => state \in {"Starting", "Killing"}
    /\ tpc = "cas" => state = "Starting"
    /\ tpc \in {"loop", "exchange"} => state \in {"Started", "Stopping", "Killing"}
    /\ tpc = "restore" => state = "Stopped" /\ ex = "Killing"
    /\ tpc = "sleep" => state \in {"Stopped", "Starting", "Killing"}
    /\ tpc = "done" => state = "Killing"

\* Every transient value of m_state is owed to the operation in progress,
\* and the request to end is not forgotten.
OwedTo(o) == \E c \in Controllers : At(c, o, "wait")

CallState ==
    /\ spawned /\ state = "Starting" => OwedTo("start")
    /\ spawned /\ (state = "Killing" \/ tpc = "restore") => OwedTo("terminate")
    /\ \A c \in Controllers : cpc[c] = "wait" => spawned
    /\ \A c \in Controllers : At(c, "terminate", "wait") => state = "Killing" \/ tpc = "restore"

\* The destructor's call is alone and last.
LastCall ==
    /\ \A c \in Controllers : cpc[c] # "idle" => (op[c] = "terminate" <=> ~alive)
    /\ ~alive => \A c, d \in Controllers : cpc[c] # "idle" /\ cpc[d] # "idle" => c = d
    /\ ~alive /\ (\A c \in Controllers : cpc[c] = "idle") => ~spawned

IInv == TypeOK /\ Exclusive /\ ThreadState /\ CallState /\ LastCall

-----------------------------------------------------------------------------
LEMMA InitIInv == Init => IInv
BY NoOneAssumption DEF Init, IInv, TypeOK, Exclusive, ThreadState, CallState, LastCall,
   WorkerState, Operations, OwedTo, At

\* A step of the worker thread leaves the calls alone.
LEMMA ThreadStep ==
    ASSUME IInv, Thread
    PROVE  IInv'
<1> USE NoOneAssumption DEF IInv, TypeOK, Exclusive, ThreadState, CallState, LastCall,
        WorkerState, Operations, OwedTo, At, callVars, threadVars, CompareExchange
<1>1. CASE Test
  BY <1>1 DEF Test
<1>2. CASE Cas
  BY <1>2 DEF Cas
<1>3. CASE LoopExit
  BY <1>3 DEF LoopExit
<1>4. CASE Exchange
  BY <1>4 DEF Exchange
<1>5. CASE Restore
  BY <1>5 DEF Restore
<1>6. CASE Wake
  BY <1>6 DEF Wake
<1> QED
  BY <1>1, <1>2, <1>3, <1>4, <1>5, <1>6 DEF Thread

\* A step of a controller: it needs x_work, so no other operation is in progress.
LEMMA ControllerStep ==
    ASSUME IInv, NEW c \in Controllers,
           Operate(c) \/ \E o \in Operations : Call(c, o)
    PROVE  IInv'
<1> USE NoOneAssumption DEF IInv, TypeOK, Exclusive, ThreadState, CallState, LastCall,
        WorkerState, Operations, OwedTo, At, callVars, threadVars, CompareExchange,
        Return, Wait
<1>1. CASE Lock(c)
  BY <1>1 DEF Lock
<1>2. CASE StartAgain(c)
  BY <1>2 DEF StartAgain
<1>3. CASE StartThread(c)
  BY <1>3 DEF StartThread
<1>4. CASE StartReturn(c)
  BY <1>4 DEF StartReturn
<1>5. CASE StopEnter(c)
  BY <1>5 DEF StopEnter
<1>6. CASE StopReturn(c)
  BY <1>6 DEF StopReturn
<1>7. CASE TerminateEnter(c)
  BY <1>7 DEF TerminateEnter
<1>8. CASE TerminateReturn(c)
  BY <1>8 DEF TerminateReturn
<1>9. CASE ReturnNoThread(c)
  BY <1>9 DEF ReturnNoThread
<1>10. ASSUME NEW o \in Operations, Call(c, o)
       PROVE  IInv'
  <2> USE <1>10 DEF Call
  <2>1. TypeOK'
    OBVIOUS
  <2>2. Exclusive' /\ ThreadState'
    OBVIOUS
  <2>3. CallState'
    OBVIOUS
  <2>4. LastCall'
    <3>1. /\ alive /\ (alive' <=> o # "terminate")
          /\ cpc'[c] = "lock" /\ op'[c] = o
          /\ \A d \in Controllers : d # c => cpc'[d] = cpc[d] /\ op'[d] = op[d]
      OBVIOUS
    <3>2. o = "terminate" => \A d \in Controllers : d # c => cpc'[d] = "idle"
      BY <3>1
    <3>3. \A d \in Controllers : cpc[d] # "idle" => op[d] # "terminate"
      BY <3>1
    <3> HIDE <1>10
    <3>4. \A d \in Controllers : cpc'[d] # "idle" => (op'[d] = "terminate" <=> ~alive')
      BY <3>1, <3>2, <3>3
    <3>5. ~alive' => \A d, e \in Controllers : cpc'[d] # "idle" /\ cpc'[e] # "idle" => d = e
      BY <3>1, <3>2
    <3>6. cpc'[c] # "idle"
      BY <3>1
    <3> QED
      BY <3>4, <3>5, <3>6
  <2> QED
    BY <2>1, <2>2, <2>3, <2>4
<1> QED
  BY <1>1, <1>2, <1>3, <1>4, <1>5, <1>6, <1>7, <1>8, <1>9, <1>10 DEF Operate

LEMMA StutterStep == IInv /\ UNCHANGED vars => IInv'
BY DEF IInv, TypeOK, Exclusive, ThreadState, CallState, LastCall, OwedTo, At, vars

LEMMA NextIInv == IInv /\ [Next]_vars => IInv'
BY ThreadStep, ControllerStep, StutterStep DEF Next, Destroyed

THEOREM Invariant == Spec => []IInv
BY InitIInv, NextIInv, PTL DEF Spec
-----------------------------------------------------------------------------
(* What the invariant gives *)

\* Every variable keeps its range.
THEOREM TypeCorrect == Spec => []TypeOK
<1>1. IInv => TypeOK
  BY DEF IInv
<1> QED
  BY <1>1, Invariant, PTL

\* Worker.cpp:67: the case ex == Starting never arises.
THEOREM OnlyKillingIsRestored == Spec => []OnlyKillingRestored
<1>1. IInv => OnlyKillingRestored
  BY DEF IInv, ThreadState, OnlyKillingRestored
<1> QED
  BY <1>1, Invariant, PTL

\* Stopped means that the thread is out of the loop, and nobody waits for
\* Stopped while a start is pending.
THEOREM StoppedIsQuiet == Spec => []Quiescence
<1>1. IInv => Quiescence
  BY DEF IInv, TypeOK, WorkerState, Exclusive, ThreadState, CallState, Quiescence, OwedTo, At
<1> QED
  BY <1>1, Invariant, PTL

\* A run begins only while a controller waits inside startWorking.
THEOREM RunsAreAskedFor == Spec => BeginsOnlyInsideStart
<1>1. ASSUME IInv, [Next]_vars
      PROVE  [tpc # "loop" /\ tpc' = "loop"
                => \E c \in Controllers : At(c, "start", "wait")]_vars
  <2> SUFFICES ASSUME Next, tpc # "loop", tpc' = "loop"
               PROVE  \E c \in Controllers : At(c, "start", "wait")
    BY <1>1
  <2>1. tpc = "cas"
    BY DEF Next, Thread, Test, Cas, LoopExit, Exchange, Restore, Wake, Operate, Call, Lock,
       StartAgain, StartThread, StartReturn, StopEnter, StopReturn, TerminateEnter,
       TerminateReturn, ReturnNoThread, Destroyed, threadVars, vars
  <2> QED
    BY <1>1, <2>1 DEF IInv, ThreadState, CallState, OwedTo
<1> QED
  BY <1>1, Invariant, PTL DEF Spec, BeginsOnlyInsideStart

-----------------------------------------------------------------------------
(* Whoever waits is served: CallsReturn and DestructorJoins without time    *)

\* How many steps of the thread it takes until startWorking, stopWorking and
\* terminate find what they wait for.
StartIn == IF state # "Starting" THEN 0
           ELSE IF tpc = "cas" THEN 1 ELSE IF tpc = "test" THEN 2 ELSE 3

StopIn == IF state = "Stopped" THEN 0 ELSE IF tpc = "exchange" THEN 1 ELSE 2

JoinIn == IF tpc = "done" THEN 0 ELSE IF tpc = "test" THEN 1
          ELSE IF tpc = "sleep" THEN 2 ELSE IF tpc = "restore" THEN 3
          ELSE IF tpc = "exchange" THEN 4 ELSE 5

ToGo(c) == IF op[c] = "start" THEN StartIn ELSE IF op[c] = "stop" THEN StopIn ELSE JoinIn

\* The guards of the three returns, and of the thread's steps.
CanReturn(c) == \/ At(c, "start", "wait") /\ state # "Starting"
                \/ At(c, "stop", "wait") /\ state = "Stopped"
                \/ At(c, "terminate", "wait") /\ tpc = "done"

ThreadMoves == \/ tpc \in {"test", "cas", "loop", "exchange", "restore"}
               \/ tpc = "sleep" /\ state # "Stopped"

\* A caller that waits can return, or the thread can take a step towards it.
IsServed == \A c \in Controllers : cpc[c] = "wait" =>
                IF ToGo(c) = 0 THEN CanReturn(c) ELSE ThreadMoves

\* No step takes a waiting caller further away from its return, and every
\* step of the thread brings it closer.
ComesCloser ==
    [][\A c \in Controllers : cpc[c] = "wait" /\ cpc'[c] = "wait" =>
          /\ ToGo(c)' <= ToGo(c)
          /\ Thread /\ ToGo(c) # 0 => ToGo(c)' < ToGo(c)]_vars

LEMMA ThreadServes ==
    ASSUME IInv, Thread, NEW c \in Controllers, cpc[c] = "wait"
    PROVE  /\ ToGo(c)' <= ToGo(c)
           /\ ToGo(c) # 0 => ToGo(c)' < ToGo(c)
<1> USE DEF IInv, TypeOK, Exclusive, ThreadState, CallState, OwedTo, At, Operations,
        callVars, CompareExchange, ToGo, StartIn, StopIn, JoinIn
<1>1. op[c] \in Operations /\ \A d \in Controllers : cpc[d] = "wait" => d = c
  BY NoOneAssumption
<1>2. CASE Test
  BY <1>1, <1>2 DEF Test
<1>3. CASE Cas
  BY <1>1, <1>3 DEF Cas
<1>4. CASE LoopExit
  BY <1>1, <1>4 DEF LoopExit
<1>5. CASE Exchange
  BY <1>1, <1>5 DEF Exchange
<1>6. CASE Restore
  BY <1>1, <1>6 DEF Restore
<1>7. CASE Wake
  BY <1>1, <1>7 DEF Wake
<1> QED
  BY <1>2, <1>3, <1>4, <1>5, <1>6, <1>7 DEF Thread

\* While c waits it holds x_work, and the others can at most begin a call.
LEMMA OthersWait ==
    ASSUME IInv, NEW c \in Controllers, cpc[c] = "wait", cpc'[c] = "wait",
           NEW d \in Controllers, Operate(d) \/ \E o \in Operations : Call(d, o)
    PROVE  ToGo(c)' = ToGo(c)
<1>1. xwork = c /\ (cpc[d] \in {"enter", "wait"} => d = c)
  BY DEF IInv, Exclusive
<1>2. d # c /\ cpc[d] \in {"idle", "lock"} /\ UNCHANGED <<state, tpc>> /\ op'[c] = op[c]
  BY <1>1, NoOneAssumption DEF IInv, TypeOK, At, Operate, Call, Lock, StartAgain, StartThread,
     StartReturn, StopEnter, StopReturn, TerminateEnter, TerminateReturn, ReturnNoThread,
     Return, Wait, threadVars
<1> QED
  BY <1>2 DEF ToGo, StartIn, StopIn, JoinIn

\* startWorking returns within 3 steps of the thread, stopWorking within 2
\* and terminate within 5, none of which has to wait (Worker.cpp:76, 89, 103).
THEOREM CallsAreServed == Spec => []IsServed /\ ComesCloser
<1>1. IInv => IsServed
  <2> SUFFICES ASSUME IInv, NEW c \in Controllers, cpc[c] = "wait"
               PROVE  IF ToGo(c) = 0 THEN CanReturn(c) ELSE ThreadMoves
    BY DEF IsServed
  <2> USE DEF IInv, TypeOK, ThreadState, CallState, OwedTo, At, WorkerState, CanReturn, ThreadMoves, ToGo
  <2>1. op[c] \in Operations /\ \A d \in Controllers : cpc[d] = "wait" => d = c
    BY DEF Exclusive
  <2>2. CASE op[c] = "start"
    BY <2>1, <2>2 DEF StartIn
  <2>3. CASE op[c] = "stop"
    BY <2>1, <2>3 DEF StopIn
  <2>4. CASE op[c] = "terminate"
    BY <2>1, <2>4 DEF JoinIn
  <2> QED
    BY <2>1, <2>2, <2>3, <2>4 DEF Operations
<1>2. ASSUME IInv, [Next]_vars
      PROVE  [\A c \in Controllers : cpc[c] = "wait" /\ cpc'[c] = "wait" =>
                /\ ToGo(c)' <= ToGo(c)
                /\ Thread /\ ToGo(c) # 0 => ToGo(c)' < ToGo(c)]_vars
  <2> SUFFICES ASSUME Next, ~UNCHANGED vars, NEW c \in Controllers, cpc[c] = "wait", cpc'[c] = "wait"
               PROVE  /\ ToGo(c)' <= ToGo(c)
                      /\ Thread /\ ToGo(c) # 0 => ToGo(c)' < ToGo(c)
    BY <1>2
  <2>1. CASE Thread
    BY <1>2, <2>1, ThreadServes
  <2>2. CASE ~Thread
    <3>1. PICK d \in Controllers : Operate(d) \/ \E o \in Operations : Call(d, o)
      BY <2>2 DEF Next, Destroyed
    <3>2. ToGo(c)' = ToGo(c)
      BY <1>2, <3>1, OthersWait
    <3>3. ToGo(c) \in Nat
      BY DEF ToGo, StartIn, StopIn, JoinIn
    <3> QED
      BY <2>2, <3>2, <3>3
  <2> QED
    BY <2>1, <2>2
<1> QED
  BY <1>1, <1>2, Invariant, PTL DEF Spec, ComesCloser

-----------------------------------------------------------------------------
(* The protocol implements RunControl *)

LEMMA PromiseInit == Init => Promise!Init
BY DEF Init, Promise!Init, LoopNow, JobNow

\* The thread's steps: the exchange with Starting launches the owed run, the
\* exchange with Stopped ends it, and the others are not seen from outside.
LEMMA PromiseThread ==
    ASSUME IInv, IInv', Thread
    PROVE  [Promise!Next]_Promise!rvars
<1> USE DEF IInv, TypeOK, Exclusive, ThreadState, CallState, LastCall, OwedTo, At,
        callVars, CompareExchange
<1>1. UNCHANGED <<xwork, JobNow>>
  BY DEF JobNow, Thread, Test, Cas, LoopExit, Exchange, Restore, Wake
<1>2. CASE Cas
  <2>1. LoopNow = "armed" /\ LoopNow' = "on"
    BY <1>2 DEF Cas, LoopNow
  <2> QED
    BY <1>1, <2>1 DEF Promise!Next, Promise!Launch
<1>3. CASE Exchange
  <2>1. LoopNow = "on" /\ LoopNow' = "off"
    BY <1>3 DEF Exchange, LoopNow
  <2> QED
    BY <1>1, <2>1 DEF Promise!Next, Promise!End
<1>4. CASE Test \/ LoopExit \/ Restore \/ Wake
  <2>1. UNCHANGED LoopNow
    BY <1>4 DEF Test, LoopExit, Restore, Wake, LoopNow
  <2> QED
    BY <1>1, <2>1 DEF Promise!rvars
<1> QED
  BY <1>2, <1>3, <1>4 DEF Thread

LEMMA PromiseController ==
    ASSUME IInv, IInv', NEW c \in Controllers,
           Operate(c) \/ \E o \in Operations : Call(c, o)
    PROVE  [Promise!Next]_Promise!rvars
<1> USE NoOneAssumption DEF IInv, TypeOK, Exclusive, ThreadState, CallState, LastCall,
        OwedTo, At, threadVars, CompareExchange, Return, Wait, Operations, WorkerState
<1>1. CASE Lock(c)
  <2>1. LoopNow # "dead" /\ UNCHANGED LoopNow
    BY <1>1 DEF Lock, LoopNow
  <2>2. op[c] \in {"start", "stop", "terminate"} /\ JobNow' = op[c]
    BY <1>1 DEF Lock, JobNow
  <2> QED
    BY <1>1, <2>1, <2>2 DEF Lock, Promise!Next, Promise!Serve
<1>2. CASE StartAgain(c) \/ StartThread(c)
  <2>1. xwork = c /\ xwork' = c /\ JobNow = "start" /\ JobNow' = "started"
    BY <1>2 DEF StartAgain, StartThread, JobNow
  <2>2. \/ LoopNow \in {"none", "off"} /\ LoopNow' = "armed"
        \/ LoopNow = "on" /\ LoopNow' = "on"
    BY <1>2 DEF StartAgain, StartThread, LoopNow
  <2> QED
    BY <2>1, <2>2 DEF Promise!Next, Promise!Arm, Promise!Keep
<1>3. CASE StartReturn(c)
  <2>1. xwork = c /\ xwork' = NoOne /\ JobNow = "started" /\ JobNow' = "none"
    BY <1>3 DEF StartReturn, JobNow
  <2>2. LoopNow # "armed" /\ UNCHANGED LoopNow
    BY <1>3 DEF StartReturn, LoopNow
  <2> QED
    BY <2>1, <2>2 DEF Promise!Next, Promise!ReturnStart, Promise!Return
<1>4. CASE StopEnter(c) \/ TerminateEnter(c)
  <2>1. UNCHANGED <<xwork, JobNow>>
    BY <1>4 DEF StopEnter, TerminateEnter, JobNow
  <2>2. UNCHANGED LoopNow
    BY <1>4 DEF StopEnter, TerminateEnter, LoopNow
  <2> QED
    BY <2>1, <2>2 DEF Promise!rvars
<1>5. CASE StopReturn(c)
  <2>1. xwork = c /\ xwork' = NoOne /\ JobNow = "stop" /\ JobNow' = "none"
    BY <1>5 DEF StopReturn, JobNow
  <2>2. LoopNow = "off" /\ LoopNow' = "off"
    BY <1>5 DEF StopReturn, LoopNow
  <2> QED
    BY <2>1, <2>2 DEF Promise!Next, Promise!ReturnStop, Promise!Return
<1>6. CASE TerminateReturn(c)
  <2>1. xwork = c /\ xwork' = NoOne /\ JobNow = "terminate" /\ JobNow' = "none"
    BY <1>6 DEF TerminateReturn, JobNow
  <2>2. LoopNow = "off" /\ LoopNow' = "dead"
    BY <1>6 DEF TerminateReturn, LoopNow
  <2> QED
    BY <2>1, <2>2 DEF Promise!Next, Promise!ReturnTerminate, Promise!Return
<1>7. CASE ReturnNoThread(c)
  <2>1. xwork = c /\ xwork' = NoOne /\ JobNow = op[c] /\ JobNow' = "none"
    BY <1>7 DEF ReturnNoThread, JobNow
  <2>2. LoopNow = "none"
    BY <1>7 DEF ReturnNoThread, LoopNow
  <2>3. CASE op[c] = "stop"
    <3>1. LoopNow' = "none"
      BY <1>7, <2>3 DEF ReturnNoThread, LoopNow
    <3> QED
      BY <2>1, <2>2, <2>3, <3>1 DEF Promise!Next, Promise!ReturnStop, Promise!Return
  <2>4. CASE op[c] = "terminate"
    <3>1. LoopNow' = "dead"
      BY <1>7, <2>4 DEF ReturnNoThread, LoopNow
    <3> QED
      BY <2>1, <2>2, <2>4, <3>1 DEF Promise!Next, Promise!ReturnTerminate, Promise!Return
  <2> QED
    BY <1>7, <2>3, <2>4 DEF ReturnNoThread
<1>8. ASSUME NEW o \in Operations, Call(c, o)
      PROVE  UNCHANGED Promise!rvars
  <2>1. UNCHANGED <<xwork, JobNow>>
    BY <1>8 DEF Call, JobNow
  <2>2. UNCHANGED LoopNow
    BY <1>8 DEF Call, LoopNow
  <2> QED
    BY <2>1, <2>2 DEF Promise!rvars
<1> QED
  BY <1>1, <1>2, <1>3, <1>4, <1>5, <1>6, <1>7, <1>8 DEF Operate

LEMMA PromiseStutter == UNCHANGED vars => UNCHANGED Promise!rvars
BY DEF vars, Promise!rvars, LoopNow, JobNow, At

\* Worker keeps the promise of RunControl.
THEOREM Implements == Spec => KeepsPromise
<1>1. ASSUME IInv, IInv', [Next]_vars
      PROVE  [Promise!Next]_Promise!rvars
  BY <1>1, PromiseThread, PromiseController, PromiseStutter DEF Next, Destroyed
<1> QED
  BY <1>1, PromiseInit, Invariant, PTL DEF Spec, KeepsPromise, Promise!Spec
=============================================================================
