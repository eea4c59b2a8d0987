------------------------------- MODULE Thermal -------------------------------
(***************************************************************************)
(* Thermal protection: the PIDController of every miner (libethcore/Miner.h)*)
(* and the thread of TimerCallback (ethminer/Common.cpp) that updates them  *)
(* all, one after the other, every c_updateRate milliseconds.  A controller *)
(* that has seen too much heat sets the farm's shutDown, which ends the     *)
(* main loop (module GetWork).                                              *)
(*                                                                          *)
(* Temperatures are in quarters of a degree.  The sensors are outside of    *)
(* the repository: they show anything, and asking them may throw.           *)
(*                                                                          *)
(* Left out: the throttle and its gains (module GpuMiner lets the throttle  *)
(* be anything at any time), and the time from one update to the next.      *)
(***************************************************************************)
EXTENDS Integers

CONSTANTS GPUs,        \* the miners
          Temps,       \* what their sensors show
          setPoint,    \* the limit, option ThrottleTemp
          ShutDownTime, \* shutDownTime, in seconds
          MaxWarm      \* bound: where the history of hot updates stops counting

ASSUME TempsAssumption == Temps \subseteq Int /\ setPoint \in Nat

VARIABLES enabled,  \* thermal protection, a negative ThrottleTemp disables it
          temp,     \* what the sensor of each GPU shows
          runaway,  \* m_thermalRunaway, in milliseconds
          armed,    \* is the controller's timer waiting to fire?
          shutDown, \* the farm's shutDown
          above,    \* history: how many of the last updates were above the limit
          warm      \* history: how many updates were hot since runaway was last 0

vars == <<enabled, temp, runaway, armed, shutDown, above, warm>>

c_updateRate == 2000
Limit == ShutDownTime * 1000

ASSUME LimitAssumption == ShutDownTime \in Nat /\ MaxWarm \in Nat /\ MaxWarm * c_updateRate > Limit

TypeOK == /\ enabled \in BOOLEAN /\ shutDown \in BOOLEAN
          /\ temp \in [GPUs -> Temps]
          /\ runaway \in [GPUs -> Nat \cup {-1}]
          /\ armed \in [GPUs -> BOOLEAN]
          /\ above \in [GPUs -> Nat] /\ warm \in [GPUs -> Nat]

Init == /\ enabled \in BOOLEAN
        /\ temp \in [GPUs -> Temps]
        /\ runaway = [g \in GPUs |-> -1]
        /\ armed = [g \in GPUs |-> TRUE]
        /\ shutDown = FALSE
        /\ above = [g \in GPUs |-> 0] /\ warm = [g \in GPUs |-> 0]
-----------------------------------------------------------------------------
Change(g, t) == /\ t # temp[g]
                /\ temp' = [temp EXCEPT ![g] = t]
                /\ UNCHANGED <<enabled, runaway, armed, shutDown, above, warm>>

\* The limit is 0.75 degrees lower while the count is running.
Hot(g) == temp[g] > setPoint - (IF runaway[g] > 0 THEN 3 ELSE 0)

\* Faulty: the count starts again after every update below the limit.
CountedAfresh(g) == IF Hot(g) THEN runaway[g] + c_updateRate ELSE 0

\* Faulty: counts down as fast as up, and below zero.
CountedBelowZero(g) == IF Hot(g) THEN runaway[g] + c_updateRate ELSE runaway[g] - c_updateRate

\* Faulty: the first hot update counts twice.
CountedTwice(g) == IF Hot(g) THEN runaway[g] + (IF runaway[g] > 0 THEN 1 ELSE 2) * c_updateRate
                   ELSE LET less == runaway[g] - 1500 IN IF less > 0 THEN less ELSE 0

\* The count goes up by c_updateRate or down by three quarters of it.
Counted(g) == IF Hot(g) THEN runaway[g] + c_updateRate
              ELSE LET less == runaway[g] - 1500 IN IF less > 0 THEN less ELSE 0

Seen(g) == /\ above' = [above EXCEPT ![g] = IF temp[g] > setPoint THEN @ + 1 ELSE 0]
           /\ warm' = [warm EXCEPT ![g] = IF Hot(g) THEN IF @ < MaxWarm THEN @ + 1 ELSE @
                                          ELSE IF Counted(g) = 0 THEN 0 ELSE @]

\* Faulty: the limit has to be exceeded by a whole update.
UpdateLate(g) == /\ armed[g] /\ enabled /\ ~shutDown
                 /\ runaway' = [runaway EXCEPT ![g] = Counted(g)]
                 /\ shutDown' = (Hot(g) /\ Counted(g) > Limit + c_updateRate)
                 /\ Seen(g)
                 /\ UNCHANGED <<enabled, temp, armed>>

\* TimerCallback::callback arms the timer again, then calls update.  What
\* controllers do after the shutdown has no effect.
Update(g) == /\ armed[g] /\ enabled /\ ~shutDown
             /\ runaway' = [runaway EXCEPT ![g] = Counted(g)]
             /\ shutDown' = (Hot(g) /\ Counted(g) > Limit)
             /\ Seen(g)
             /\ UNCHANGED <<enabled, temp, armed>>

\* Faulty: the timer is armed again after the update only.
UpdateThrowsUnarmed(g) == /\ armed[g] /\ enabled /\ ~shutDown
                          /\ armed' = [armed EXCEPT ![g] = FALSE]
                          /\ UNCHANGED <<enabled, temp, runaway, shutDown, above, warm>>

\* gpuTemp() throws: the thread leaves io_service::run and enters it again,
\* and the timer, armed already, stays so.
UpdateThrows(g) == /\ armed[g] /\ enabled /\ ~shutDown
                   /\ armed' = [armed EXCEPT ![g] = TRUE]
                   /\ UNCHANGED <<enabled, temp, runaway, shutDown, above, warm>>

Next == \E g \in GPUs : \/ \E t \in Temps : Change(g, t)
                        \/ Update(g) \/ UpdateThrows(g)

Spec == Init /\ [][Next]_vars

\* The timer's thread runs, and asking a sensor does not fail for ever.
FairSpec == Spec /\ \A g \in GPUs : SF_vars(Update(g))
-----------------------------------------------------------------------------
(* Properties *)

(* Not too late: when a GPU was above the limit in so many updates in a row *)
(* that they make up ShutDown seconds, the rig has been shut down, however  *)
(* often it was cooler before and whatever the other GPUs do                *)
(* (Miner.h:181-197).                                                       *)
SoonEnough == enabled => \A g \in GPUs : above[g] * c_updateRate - 1 > Limit => shutDown

(* Not too early: the rig shuts down only for a GPU that was hot in so many *)
(* updates since its count was last at zero that they make up more than     *)
(* ShutDown seconds (Miner.h:181-200).                                      *)
NotTooSoon == shutDown => \E g \in GPUs : warm[g] * c_updateRate > Limit

(* A GPU that stays too hot stops the rig, although asking its sensor or    *)
(* another's throws now and then (Common.cpp:45-61, 83-93).                 *)
Protects == \A g \in GPUs : <>[](enabled /\ temp[g] > setPoint) => <>shutDown
=============================================================================
