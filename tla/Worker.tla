------------------------------- MODULE Worker -------------------------------
(***************************************************************************)
(* The start/stop protocol of class Worker (libdevcore/Worker.h and .cpp):  *)
(* one worker thread, driven by any number of controlling threads through   *)
(* the atomic m_state, the thread pointer m_work and the mutex x_work.      *)
(*                                                                          *)
(* Every access to m_state is a step of its own, on both sides.  The three  *)
(* public operations hold x_work from their first to their last step, spins *)
(* included.  terminate is private and called by the destructor only, so it *)
(* is the last call ever made and no other call overlaps it.                *)
(*                                                                          *)
(* workLoop is virtual.  Its contract ("should call shouldStop() often and  *)
(* exit when true") is the fairness of LoopExit; that it may also return,   *)
(* or throw, at any other time is LoopExit being always possible.           *)
(***************************************************************************)
CONSTANTS Controllers, \* the threads that call startWorking and stopWorking
          NoOne        \* the owner of an unlocked x_work

ASSUME NoOneAssumption == NoOne \notin Controllers

VARIABLES state,   \* m_state
          spawned, \* m_work points to a thread
          xwork,   \* the controller that holds x_work
          op,      \* the operation each controller is executing
          cpc,     \* where in it the controller is
          tpc,     \* where the worker thread is
          ex,      \* the worker thread's local ex, from exchange(Stopped)
          alive    \* the destructor has not been entered

vars == <<state, spawned, xwork, op, cpc, tpc, ex, alive>>
callVars == <<op, cpc, xwork>>
threadVars == <<tpc, ex>>

WorkerState == {"Starting", "Started", "Stopping", "Stopped", "Killing"}
Operations == {"start", "stop", "terminate"}

TypeOK == /\ state \in WorkerState
          /\ spawned \in BOOLEAN
          /\ xwork \in Controllers \cup {NoOne}
          /\ op \in [Controllers -> Operations]
          /\ cpc \in [Controllers -> {"idle", "lock", "enter", "wait"}]
          /\ tpc \in {"none", "test", "cas", "loop", "exchange", "restore", "sleep", "done"}
          /\ ex \in WorkerState
          /\ alive \in BOOLEAN

\* Faulty: m_state without its initialiser.
InitUnset == /\ state = "Unset"
             /\ spawned = FALSE
             /\ xwork = NoOne
             /\ op \in [Controllers -> {"start"}]
             /\ cpc = [c \in Controllers |-> "idle"]
             /\ tpc = "none"
             /\ ex = "Stopped"
             /\ alive = TRUE

Init == /\ state = "Starting"
        /\ spawned = FALSE
        /\ xwork = NoOne
        /\ op \in [Controllers -> {"start"}]
        /\ cpc = [c \in Controllers |-> "idle"]
        /\ tpc = "none"
        /\ ex = "Stopped"
        /\ alive = TRUE
-----------------------------------------------------------------------------
(* The controllers *)

shouldStop == state # "Started"

\* m_state.compare_exchange_strong(from, to)
CompareExchange(from, to) == state' = IF state = from THEN to ELSE state

Call(c, o) == /\ alive
              /\ cpc[c] = "idle"
              /\ o = "terminate" => \A d \in Controllers : cpc[d] = "idle"
              /\ op' = [op EXCEPT ![c] = o]
              /\ cpc' = [cpc EXCEPT ![c] = "lock"]
              /\ alive' = (o # "terminate")
              /\ UNCHANGED <<state, spawned, xwork, threadVars>>

\* Faulty: the operations do not take x_work.
LockNothing(c) == /\ cpc[c] = "lock"
                  /\ xwork' = c
                  /\ cpc' = [cpc EXCEPT ![c] = "enter"]
                  /\ UNCHANGED <<state, spawned, op, threadVars, alive>>

Lock(c) == /\ cpc[c] = "lock"
           /\ xwork = NoOne
           /\ xwork' = c
           /\ cpc' = [cpc EXCEPT ![c] = "enter"]
           /\ UNCHANGED <<state, spawned, op, threadVars, alive>>

At(c, o, where) == cpc[c] = where /\ op[c] = o

Return(c) == /\ cpc' = [cpc EXCEPT ![c] = "idle"]
             /\ xwork' = NoOne
             /\ UNCHANGED op

Wait(c) == /\ cpc' = [cpc EXCEPT ![c] = "wait"]
           /\ UNCHANGED <<op, xwork>>

\* Faulty: a plain store in place of the compare-and-exchange.
StartAgainBlindly(c) == /\ At(c, "start", "enter")
                        /\ spawned
                        /\ state' = "Starting"
                        /\ Wait(c)
                        /\ UNCHANGED <<spawned, threadVars, alive>>

\* startWorking on an existing thread
StartAgain(c) == /\ At(c, "start", "enter")
                 /\ spawned
                 /\ CompareExchange("Stopped", "Starting")
                 /\ Wait(c)
                 /\ UNCHANGED <<spawned, threadVars, alive>>

\* startWorking creates the thread
StartThread(c) == /\ At(c, "start", "enter")
                  /\ ~spawned
                  /\ state' = "Starting"
                  /\ spawned' = TRUE
                  /\ tpc' = "test"
                  /\ Wait(c)
                  /\ UNCHANGED <<ex, alive>>

StartReturn(c) == /\ At(c, "start", "wait")
                  /\ state # "Starting"
                  /\ Return(c)
                  /\ UNCHANGED <<state, spawned, threadVars, alive>>

StopEnter(c) == /\ At(c, "stop", "enter")
                /\ spawned
                /\ CompareExchange("Started", "Stopping")
                /\ Wait(c)
                /\ UNCHANGED <<spawned, threadVars, alive>>

\* Faulty: stopWorking asks, and does not wait.
StopReturnEarly(c) == /\ At(c, "stop", "wait")
                      /\ Return(c)
                      /\ UNCHANGED <<state, spawned, threadVars, alive>>

StopReturn(c) == /\ At(c, "stop", "wait")
                 /\ state = "Stopped"
                 /\ Return(c)
                 /\ UNCHANGED <<state, spawned, threadVars, alive>>

TerminateEnter(c) == /\ At(c, "terminate", "enter")
                     /\ spawned
                     /\ state' = "Killing"
                     /\ Wait(c)
                     /\ UNCHANGED <<spawned, threadVars, alive>>

\* join returned; m_work.reset()
TerminateReturn(c) == /\ At(c, "terminate", "wait")
                      /\ tpc = "done"
                      /\ spawned' = FALSE
                      /\ tpc' = "none"
                      /\ Return(c)
                      /\ UNCHANGED <<state, ex, alive>>

\* stopWorking and terminate without a thread do nothing
ReturnNoThread(c) == /\ cpc[c] = "enter"
                     /\ op[c] \in {"stop", "terminate"}
                     /\ ~spawned
                     /\ Return(c)
                     /\ UNCHANGED <<state, spawned, threadVars, alive>>
-----------------------------------------------------------------------------
(* The worker thread *)

\* while (m_state != Killing)
Test == /\ tpc = "test"
        /\ tpc' = IF state = "Killing" THEN "done" ELSE "cas"
        /\ UNCHANGED <<state, spawned, callVars, ex, alive>>

Cas == /\ tpc = "cas"
       /\ CompareExchange("Starting", "Started")
       /\ tpc' = "loop"
       /\ UNCHANGED <<spawned, callVars, ex, alive>>

LoopExit == /\ tpc = "loop"
            /\ tpc' = "exchange"
            /\ UNCHANGED <<state, spawned, callVars, ex, alive>>

\* Faulty: only a Started worker is marked Stopped.
ExchangeStartedOnly == /\ tpc = "exchange"
                       /\ ex' = state
                       /\ CompareExchange("Started", "Stopped")
                       /\ tpc' = "sleep"
                       /\ UNCHANGED <<spawned, callVars, alive>>

\* Faulty: what the exchange replaced is not put back.
ExchangeForgetsKilling == /\ tpc = "exchange"
                          /\ ex' = state
                          /\ state' = "Stopped"
                          /\ tpc' = "sleep"
                          /\ UNCHANGED <<spawned, callVars, alive>>

\* ex = m_state.exchange(Stopped)
Exchange == /\ tpc = "exchange"
            /\ ex' = state
            /\ state' = "Stopped"
            /\ tpc' = IF state \in {"Killing", "Starting"} THEN "restore" ELSE "sleep"
            /\ UNCHANGED <<spawned, callVars, alive>>

Restore == /\ tpc = "restore"
           /\ state' = ex
           /\ tpc' = "sleep"
           /\ UNCHANGED <<spawned, callVars, ex, alive>>

Wake == /\ tpc = "sleep"
        /\ state # "Stopped"
        /\ tpc' = "test"
        /\ UNCHANGED <<state, spawned, callVars, ex, alive>>

Thread == Test \/ Cas \/ LoopExit \/ Exchange \/ Restore \/ Wake

Operate(c) == \/ Lock(c)
              \/ StartAgain(c) \/ StartThread(c) \/ StartReturn(c)
              \/ StopEnter(c) \/ StopReturn(c)
              \/ TerminateEnter(c) \/ TerminateReturn(c)
              \/ ReturnNoThread(c)

\* After the destructor the object is gone and nothing happens any more.
Destroyed == /\ ~alive
             /\ \A c \in Controllers : cpc[c] = "idle"
             /\ UNCHANGED vars

Next == \/ Thread
        \/ \E c \in Controllers : Operate(c) \/ \E o \in Operations : Call(c, o)
        \/ Destroyed

Spec == Init /\ [][Next]_vars

(* The scheduler runs both sides; a work loop that is asked to stop does.   *)
Fairness == /\ WF_vars(Test \/ Cas \/ Exchange \/ Restore \/ Wake)
            /\ WF_vars(LoopExit /\ shouldStop)
            /\ \A c \in Controllers : WF_vars(Operate(c))

FairSpec == Spec /\ Fairness
-----------------------------------------------------------------------------
(* Properties *)

(* The work loop begins a run only while some controller is waiting inside  *)
(* startWorking: a stopWorking, a destructor or the thread by itself never  *)
(* sets it off (Worker.cpp:48-51, 71-72 against 38-39 and 86-101).          *)
BeginsOnlyInsideStart ==
    [][tpc # "loop" /\ tpc' = "loop" => \E c \in Controllers : At(c, "start", "wait")]_vars

(* The branch of Worker.cpp:67 for a start that overtakes the end of a run  *)
(* is never taken: only Killing is ever put back.                           *)
OnlyKillingRestored == tpc = "restore" => ex = "Killing"

(* A worker thread that is inside the work loop is seen by a controller     *)
(* that does not hold a pending start as Started, Stopping or Killing, and  *)
(* nobody waits in stopWorking for a thread that is about to run: what      *)
(* makes a returned stopWorking mean that the loop is over.                 *)
Quiescence ==
    /\ state = "Stopped" => tpc \in {"restore", "sleep"} \/ ~spawned
    /\ \A c \in Controllers : At(c, "stop", "wait") => state # "Starting"

(* Every call comes back: x_work, once taken, is released, whatever the     *)
(* order in which start, stop and the thread's own exit interleave.         *)
CallsReturn == \A c \in Controllers : xwork = c ~> xwork = NoOne

(* The destructor ends with the thread joined (Worker.cpp:101-106).         *)
DestructorJoins == ~alive ~> (tpc = "none" /\ ~spawned)

\* What the work loop is doing, seen from outside.
LoopNow == IF ~alive /\ \A c \in Controllers : cpc[c] = "idle" THEN "dead"
           ELSE IF ~spawned THEN "none"
           ELSE IF tpc \in {"loop", "exchange"} THEN "on"
           ELSE IF state = "Starting" THEN "armed"
           ELSE "off"

JobNow == IF xwork = NoOne THEN "none"
          ELSE IF At(xwork, "start", "wait") THEN "started"
          ELSE op[xwork]

Promise == INSTANCE RunControl WITH run <- LoopNow, busy <- xwork, job <- JobNow

(* The protocol implements what the class promises: startWorking returns    *)
(* with its run begun, stopWorking with the loop over, and the loop never   *)
(* runs again after terminate (Worker.h:69-73, 95; Worker.cpp:32-108).      *)
KeepsPromise == Promise!Spec
=============================================================================
