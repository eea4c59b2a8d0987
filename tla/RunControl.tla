----------------------------- MODULE RunControl -----------------------------
(***************************************************************************)
(* What class Worker (libdevcore/Worker.h) promises to the code that        *)
(* starts and stops it, without saying how.                                 *)
(*                                                                          *)
(* There is one work loop.  It runs only because somebody called            *)
(* startWorking, it may end at any time by itself, startWorking does not    *)
(* return before the run it asked for has begun, stopWorking does not       *)
(* return while the loop runs, and after terminate the loop never runs      *)
(* again ("Stop and never start again").  Calls are served one at a time.   *)
(***************************************************************************)
CONSTANTS Controllers, \* the threads that call startWorking, stopWorking, ~Worker
          NoOne        \* no controller

VARIABLES run,  \* the work loop
          busy, \* the controller whose call is being served
          job   \* the call being served

rvars == <<run, busy, job>>

Runs == {"none", "armed", "on", "off", "dead"}
Jobs == {"none", "start", "started", "stop", "terminate"}

Init == /\ run = "none"
        /\ busy = NoOne
        /\ job = "none"

Serve(c, j) == /\ busy = NoOne
               /\ run # "dead"
               /\ busy' = c
               /\ job' = j
               /\ UNCHANGED run

Return == busy' = NoOne /\ job' = "none"

\* startWorking on a loop that does not run: a run is owed from here on.
Arm == /\ job = "start"
       /\ run \in {"none", "off"}
       /\ run' = "armed"
       /\ job' = "started"
       /\ UNCHANGED busy

\* startWorking on a loop that runs already changes nothing.
Keep == /\ job = "start"
        /\ run = "on"
        /\ job' = "started"
        /\ UNCHANGED <<run, busy>>

Launch == /\ run = "armed"
          /\ run' = "on"
          /\ UNCHANGED <<busy, job>>

End == /\ run = "on"
       /\ run' = "off"
       /\ UNCHANGED <<busy, job>>

ReturnStart == /\ job = "started"
               /\ run # "armed"
               /\ Return
               /\ UNCHANGED run

ReturnStop == /\ job = "stop"
              /\ run \in {"none", "off"}
              /\ Return
              /\ UNCHANGED run

ReturnTerminate == /\ job = "terminate"
                   /\ run \in {"none", "off"}
                   /\ Return
                   /\ run' = "dead"

Next == \/ \E c \in Controllers, j \in {"start", "stop", "terminate"} : Serve(c, j)
        \/ Arm \/ Keep \/ Launch \/ End
        \/ ReturnStart \/ ReturnStop \/ ReturnTerminate

Spec == Init /\ [][Next]_rvars
=============================================================================
