---------------------------- MODULE FarmPromise ----------------------------
(***************************************************************************)
(* What the farm (libethcore/Farm.h) promises to the main loops that hand   *)
(* it work and collect solutions, without miners, threads or locks.         *)
(*                                                                          *)
(* Pool mode: once setWork has returned, what is reported was found for the *)
(* farm's challenge; while it is under way a miner may still report for     *)
(* the work before, or hash bytes that are being overwritten.               *)
(* Solo mode: the farm "should pause until more work is submitted"          *)
(* (Farm.h:601): whoever takes a solution finds the challenge cleared with  *)
(* it.  What the solution is for is not promised, because a finder may wipe *)
(* the work it is given while it is on its way out of submitProof.          *)
(* In both modes a solution waits until it is taken.                        *)
(*                                                                          *)
(* A solution is the challenge it was found for.                            *)
(***************************************************************************)
CONSTANTS Challenges, \* the challenges that can be mined
          Empty,      \* the empty challenge, also an empty slot
          Targets

VARIABLES mode,    \* m_opMode
          work,    \* m_challenge and m_target
          slot,    \* the solution that waits for the main thread
          setting  \* the main thread is inside setWork

pvars == <<mode, work, slot, setting>>

Works == [challenge : Challenges \cup {Empty}, target : Targets]

Init == /\ mode \in {"Solo", "Pool"}
        /\ work \in [challenge : {Empty}, target : Targets]
        /\ slot = Empty
        /\ setting = FALSE

\* setWork takes the work over ...
Give(w) == /\ ~setting
           /\ setting' = TRUE
           /\ work' = w
           /\ UNCHANGED <<mode, slot>>

\* ... and returns with the miners on it.
Given == /\ setting
         /\ setting' = FALSE
         /\ UNCHANGED <<mode, work, slot>>

\* submitProof of a miner that has hashed with challenge c.
ReportPool(c) == /\ mode = "Pool"
                 /\ slot = Empty
                 /\ setting \/ c = work.challenge
                 /\ slot' = c
                 /\ UNCHANGED <<mode, work, setting>>

ReportSolo(c) == /\ mode = "Solo"
                 /\ slot = Empty
                 /\ ~setting
                 /\ slot' = c
                 /\ work' = [work EXCEPT !.challenge = Empty]
                 /\ UNCHANGED <<mode, setting>>

Report(c) == ReportPool(c) \/ ReportSolo(c)

\* solutionFound, with a solution.
Take == /\ ~setting
        /\ slot # Empty
        /\ slot' = Empty
        /\ UNCHANGED <<mode, work, setting>>

Next == \/ \E w \in Works : Give(w)
        \/ \E c \in Challenges : Report(c)
        \/ Given \/ Take

Spec == Init /\ [][Next]_pvars
=============================================================================
