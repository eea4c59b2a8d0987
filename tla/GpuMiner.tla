------------------------------ MODULE GpuMiner ------------------------------
(***************************************************************************)
(* One OpenCL miner: EthashGPUMiner and its EthashCLHook                    *)
(* (libethcore/EthashGPUMiner.cpp), and the search loop of ethash_cl_miner  *)
(* (libethash-cl/ethash_cl_miner.cpp) with its two result buffers.          *)
(*                                                                          *)
(* Three threads meet here.  The farm's thread pauses the miner and kicks   *)
(* it off again; it first asks the hook to abort and waits for the hook's   *)
(* answer, then it stops the Worker (by the promise of module RunControl).  *)
(* The worker thread queues kernels, reads their results, hands solutions   *)
(* to the farm and asks the hook whether to go on.  A third thread changes  *)
(* the throttle.  The miner's buffers and pending batches outlive a search. *)
(*                                                                          *)
(* Whoever calls setWork holds the farm's x_minerWork for all of the call,  *)
(* and so does a miner that hands in a solo proof; with it, that miner      *)
(* holds x_solution.  Of the other miners the module keeps that one of them *)
(* is there.                                                                *)
(*                                                                          *)
(* A kernel finds a solution or does not; a result buffer holds the hit of  *)
(* the kernel last queued on it ("fresh") and hits of earlier kernels that  *)
(* nobody has read ("stale").                                               *)
(***************************************************************************)
EXTENDS Naturals, Sequences

CONSTANTS Challenges, \* the challenges the farm hands out
          Empty,      \* the empty challenge
          Throttles   \* percentages

ASSUME ThrottleAssumption == Throttles \subseteq 0 .. 100 /\ 0 \in Throttles
ASSUME EmptyAssumption == Empty \notin Challenges

VARIABLES mode,      \* the farm's m_opMode: "Solo" or "Pool"
          challenge, \* the miner's challenge
          abort,     \* the hook's m_abort
          aborted,   \* the hook's m_aborted
          ws,        \* the Worker: "Stopped", "Started" or "Stopping"
          caller,    \* where the thread in setWork is; it holds x_minerWork
          arg,       \* what setWork was called with
          finder,    \* another miner's solo proof: "none", it holds "solution"
                     \* (x_solution), or "work" too (it is the thread in setWork)
          slot,      \* the farm's solutionMiner is set
          place,     \* where the worker thread is
          ready,     \* m_miner is not null
          throttle,  \* ethash_cl_miner's m_throttle
          pending,   \* m_pending
          buf,       \* m_buf
          hits,      \* what each result buffer holds
          local,     \* locals of search: challenge, l_throttle, l_bufferCount, batch
          failed     \* history: an OpenCL call has failed

vars == <<mode, challenge, abort, aborted, ws, caller, arg, finder, slot, place, ready,
          throttle, pending, buf, hits, local, failed>>
hookVars == <<abort, aborted>>
callVars == <<caller, arg, finder>>
clVars == <<pending, buf, hits>>
searchVars == <<clVars, local, failed>>

Buffers == 0 .. 1 \* c_bufferCount = 2
Batches == [challenge : Challenges \cup {Empty}, buf : Buffers]

TypeOK == /\ mode \in {"Solo", "Pool"}
          /\ challenge \in Challenges \cup {Empty}
          /\ abort \in BOOLEAN /\ aborted \in BOOLEAN
          /\ ws \in {"Stopped", "Started", "Stopping"}
          /\ caller \in {"idle", "abort", "waitAborted", "stop", "await", "reset", "start"}
          /\ arg \in Challenges \cup {Empty}
          /\ finder \in {"none", "solution", "work"}
          /\ slot \in BOOLEAN
          /\ place \in {"off", "init", "enter", "top", "sleep", "queue", "read", "found",
                        "submit", "lockWork", "clearOwn", "answer", "searched", "exit"}
          /\ ready \in BOOLEAN
          /\ throttle \in Throttles
          /\ pending \in Seq(Batches) /\ Len(pending) <= 2
          /\ buf \in Buffers
          /\ hits \in [Buffers -> SUBSET {"fresh", "stale"}]
          /\ local \in [challenge : Challenges \cup {Empty}, throttle : Throttles,
                        count : 1 .. 2, batch : Batches]
          /\ failed \in BOOLEAN

\* Outside their scope the locals have no value.
NoBatch == [challenge |-> Empty, buf |-> 0]
NoLocals == [challenge |-> Empty, throttle |-> 0, count |-> 2, batch |-> NoBatch]

Init == /\ mode \in {"Solo", "Pool"}
        /\ challenge = Empty
        /\ abort = FALSE /\ aborted = TRUE
        /\ ws = "Stopped"
        /\ caller = "idle" /\ arg = Empty
        /\ finder = "none" /\ slot = FALSE
        /\ place = "off"
        /\ ready = FALSE
        /\ throttle = 0
        /\ pending = <<>> /\ buf = 0 /\ hits = [b \in Buffers |-> {}]
        /\ local = NoLocals
        /\ failed = FALSE
-----------------------------------------------------------------------------
(* GenericMiner::setWork: the farm's new work or a solo proof elsewhere *)

Called(c) == /\ caller = "idle"
             /\ arg' = c
             /\ challenge' = c
             /\ caller' = IF c # Empty \/ challenge # Empty THEN "abort" ELSE "idle"
             /\ UNCHANGED <<mode, hookVars, ws, slot, place, ready, throttle, searchVars>>

SetWork(c) == Called(c) /\ UNCHANGED finder

\* Farm::submitProof of another miner in solo mode, with the slot free: it
\* holds x_solution ...
OtherFinds == /\ mode = "Solo"
              /\ finder = "none" /\ place # "lockWork"
              /\ ~slot
              /\ slot' = TRUE
              /\ finder' = "solution"
              /\ UNCHANGED <<mode, challenge, hookVars, ws, caller, arg, place, ready, throttle,
                             searchVars>>

\* ... waits for x_minerWork, and takes this miner's work away.
OtherPauses == /\ finder = "solution"
               /\ Called(Empty)
               /\ finder' = IF caller' = "idle" THEN "none" ELSE "work"

\* Farm::solutionFound, asked by the thread that also brings new work.
TakeSolution == /\ caller = "idle"
                /\ finder = "none" /\ place # "lockWork"
                /\ slot
                /\ slot' = FALSE
                /\ UNCHANGED <<mode, challenge, hookVars, ws, callVars, place, ready, throttle,
                               searchVars>>

\* EthashCLHook::abort
Abort == /\ caller = "abort"
         /\ IF aborted THEN caller' = "stop" /\ UNCHANGED abort
                       ELSE caller' = "waitAborted" /\ abort' = TRUE
         /\ UNCHANGED <<mode, challenge, aborted, ws, arg, finder, slot, place, ready,
                        throttle, searchVars>>

WaitAborted == /\ caller = "waitAborted"
               /\ aborted
               /\ caller' = "stop"
               /\ UNCHANGED <<mode, challenge, hookVars, ws, arg, finder, slot, place, ready,
                              throttle, searchVars>>

\* stopWorking asks ...
Stop == /\ caller = "stop"
        /\ ws' = IF ws = "Started" THEN "Stopping" ELSE ws
        /\ caller' = "await"
        /\ UNCHANGED <<mode, challenge, hookVars, arg, finder, slot, place, ready, throttle,
                       searchVars>>

\* ... and waits.
Await == /\ caller = "await"
         /\ ws = "Stopped"
         /\ caller' = IF arg = Empty THEN "idle" ELSE "reset"
         /\ finder' = "none"
         /\ arg' = Empty
         /\ UNCHANGED <<mode, challenge, hookVars, ws, slot, place, ready, throttle,
                        searchVars>>

\* Faulty: the request to abort outlives the abort.
ResetAbortedOnly == /\ caller = "reset"
                    /\ aborted' = FALSE
                    /\ caller' = "start"
                    /\ UNCHANGED <<mode, challenge, abort, ws, arg, finder, slot, place, ready,
                                   throttle, searchVars>>

\* kickOff: the hook is reset, then the Worker started.
Reset == /\ caller = "reset"
         /\ abort' = FALSE /\ aborted' = FALSE
         /\ caller' = "start"
         /\ UNCHANGED <<mode, challenge, ws, arg, finder, slot, place, ready, throttle,
                        searchVars>>

Start == /\ caller = "start"
         /\ ws' = "Started"
         /\ place' = "init"
         /\ caller' = "idle"
         /\ UNCHANGED <<mode, challenge, hookVars, arg, finder, slot, ready, throttle,
                        searchVars>>

Farm == \/ Abort \/ WaitAborted \/ Stop \/ Await \/ Reset \/ Start \/ OtherPauses

\* EthashGPUMiner::setThrottle, once there is an ethash_cl_miner
SetThrottle(t) == /\ ready
                  /\ throttle' = t
                  /\ UNCHANGED <<mode, challenge, hookVars, ws, callVars, slot, place, ready,
                                 searchVars>>
-----------------------------------------------------------------------------
(* The worker thread: EthashGPUMiner::workLoop and ethash_cl_miner::search *)

shouldStop == ws # "Started"

InitMiner == /\ place = "init"
             /\ ready' = TRUE
             /\ place' = "enter"
             /\ UNCHANGED <<mode, challenge, hookVars, ws, callVars, slot, throttle,
                            searchVars>>

\* init fails: cl::Error, and the object is deleted.
InitFails == /\ place = "init"
             /\ ~ready
             /\ place' = "exit"
             /\ failed' = TRUE
             /\ UNCHANGED <<mode, challenge, hookVars, ws, callVars, slot, ready, throttle,
                            clVars, local>>

EnterSearch == /\ place = "enter"
               /\ local' = [local EXCEPT !.challenge = challenge,
                                         !.throttle = 0,
                                         !.count = IF throttle = 0 THEN 2 ELSE 1]
               /\ place' = "top"
               /\ UNCHANGED <<mode, challenge, hookVars, ws, callVars, slot, ready, throttle,
                              clVars, failed>>

\* checkThrottleChange(l_throttle, l_bufferCount)
Adjusted == [local EXCEPT !.throttle = throttle,
                          !.count = IF throttle > 0 /\ local.throttle = 0 THEN 1
                                    ELSE IF local.throttle > 0 /\ throttle = 0 THEN 2
                                    ELSE @]

\* Up to 99 per cent the delay may come to 0 ms.
Top == /\ place = "top"
       /\ local' = Adjusted
       /\ place' \in IF throttle = 0 THEN {"queue"}
                     ELSE IF throttle < 100 THEN {"sleep", "queue"} ELSE {"sleep"}
       /\ pending' = IF throttle = 100 THEN <<>> ELSE pending
       /\ UNCHANGED <<mode, challenge, hookVars, ws, callVars, slot, ready, throttle, buf,
                      hits, failed>>

\* One sleep of at most 100 ms; searched() and shouldStop() of the hook, the
\* first for its display only, but it sets m_aborted all the same.
Sleep == /\ place = "sleep"
         /\ local' = Adjusted
         /\ aborted' = IF abort \/ shouldStop THEN TRUE
                       ELSE IF throttle = 100 THEN FALSE
                       ELSE aborted
         /\ IF abort \/ shouldStop
              THEN place' = "exit"
              ELSE place' \in {"sleep"} \cup (IF local.throttle = 100 THEN {} ELSE {"queue"})
         /\ UNCHANGED <<mode, challenge, abort, ws, callVars, slot, ready, throttle, clVars,
                        failed>>

\* What queueing a kernel does, with the next buffer given.
QueueThen(next) == /\ pending' = Append(pending, [challenge |-> local.challenge, buf |-> buf])
                   /\ buf' = next
                   /\ \E hit \in SUBSET {"fresh"} :
                        hits' = [hits EXCEPT ![buf] = hit \cup (IF @ = {} THEN {} ELSE {"stale"})]

QueueRest == /\ place' = "read"
             /\ UNCHANGED <<mode, challenge, hookVars, ws, callVars, slot, ready, throttle,
                            local, failed>>

\* Faulty: queues however many are pending.
QueueAlways == /\ place = "queue"
               /\ QueueThen((buf + 1) % local.count)
               /\ QueueRest

\* Faulty: the buffer index wraps one too late.
QueueWrapsLate == /\ place = "queue"
                  /\ IF Len(pending) < local.count
                       THEN QueueThen((buf + 1) % (local.count + 1))
                       ELSE UNCHANGED clVars
                  /\ QueueRest

\* Faulty: the buffer index is not advanced.
QueueSameBuffer == /\ place = "queue"
                   /\ IF Len(pending) < local.count THEN QueueThen(buf) ELSE UNCHANGED clVars
                   /\ QueueRest

\* A kernel is queued on the next buffer, unless enough are pending.
Queue == /\ place = "queue"
         /\ IF Len(pending) < local.count THEN QueueThen((buf + 1) % local.count)
                                          ELSE UNCHANGED clVars
         /\ QueueRest

\* The oldest batch is read, once as many are pending as there are buffers.
Read == /\ place = "read"
        /\ IF Len(pending) = local.count
             THEN /\ pending' = Tail(pending)
                  /\ IF hits[Head(pending).buf] # {}
                       THEN place' = "found" /\ local' = [local EXCEPT !.batch = Head(pending)]
                       ELSE place' = "searched" /\ UNCHANGED local
             ELSE UNCHANGED <<local, pending>> /\ place' = "top"
        /\ UNCHANGED <<mode, challenge, hookVars, ws, callVars, slot, ready, throttle, buf,
                       hits, failed>>

\* EthashCLHook::found: report() hashes each hit with the miner's present
\* challenge, and a valid one (below the miner's present target) is handed in.
Valid(b) == "fresh" \in hits[b.buf] /\ b.challenge = challenge

Found == /\ place = "found"
         /\ \/ Valid(local.batch) /\ place' = "submit"
            \/ place' = IF shouldStop THEN "exit" ELSE "searched"
         /\ hits' = [hits EXCEPT ![local.batch.buf] = {}]
         /\ local' = [local EXCEPT !.batch = NoBatch]
         /\ UNCHANGED <<mode, challenge, hookVars, ws, callVars, slot, ready, throttle, pending,
                        buf, failed>>

\* Farm::submitProof of this miner, once x_solution is free.  A solo proof
\* ends the run, also when the farm has no room for it.
Submit == /\ place = "submit"
          /\ finder = "none"
          /\ slot' = TRUE
          /\ place' = IF mode = "Pool" THEN (IF shouldStop THEN "exit" ELSE "searched")
                      ELSE IF slot THEN "clearOwn" ELSE "lockWork"
          /\ UNCHANGED <<mode, challenge, hookVars, ws, callVars, ready, throttle, searchVars>>

\* It takes the work of the other miners away, under both locks (module Farm
\* has the steps of that).
LockWork == /\ place = "lockWork"
            /\ caller = "idle"
            /\ place' = "clearOwn"
            /\ UNCHANGED <<mode, challenge, hookVars, ws, callVars, slot, ready, throttle,
                           searchVars>>

\* GenericMiner::submitProof, when the farm's locks are released again.
ClearOwn == /\ place = "clearOwn"
            /\ challenge' = Empty
            /\ place' = "answer"
            /\ UNCHANGED <<mode, hookVars, ws, callVars, slot, ready, throttle, searchVars>>

AnswerThen == /\ place = "answer"
              /\ place' = "exit"
              /\ UNCHANGED <<mode, challenge, abort, ws, callVars, slot, ready, throttle,
                             searchVars>>

\* Faulty: the hook ends the search and does not say so.
AnswerSilently == AnswerThen /\ UNCHANGED aborted

\* Back in EthashCLHook::found.
Answer == AnswerThen /\ aborted' = TRUE

\* Faulty: asks the Worker alone, not m_abort.
SearchedByWorker == /\ place = "searched"
                    /\ aborted' = shouldStop
                    /\ place' = IF shouldStop THEN "exit" ELSE "top"
                    /\ UNCHANGED <<mode, challenge, abort, ws, callVars, slot, ready, throttle,
                                   searchVars>>

\* EthashCLHook::searched
Searched == /\ place = "searched"
            /\ aborted' = (abort \/ shouldStop)
            /\ place' = IF abort \/ shouldStop THEN "exit" ELSE "top"
            /\ UNCHANGED <<mode, challenge, abort, ws, callVars, slot, ready, throttle,
                           searchVars>>

\* cl::Error in the loop: caught, logged, and search returns.  The kernel may
\* be queued already and its batch pushed, or the batch popped.
SearchFails == /\ \/ /\ place = "queue"
                     /\ Len(pending) < local.count
                     /\ QueueThen(buf) \/ UNCHANGED clVars
                  \/ /\ place = "read"
                     /\ Len(pending) = local.count
                     /\ pending' = Tail(pending)
                     /\ UNCHANGED <<buf, hits>>
                  \/ place = "found" /\ UNCHANGED clVars
               /\ place' = "exit"
               /\ failed' = TRUE
               /\ UNCHANGED <<mode, challenge, hookVars, ws, callVars, slot, ready, throttle,
                              local>>

ExitRun == /\ place = "exit"
           /\ ws' = "Stopped"
           /\ place' = "off"
           /\ local' = NoLocals
           /\ UNCHANGED <<mode, challenge, hookVars, callVars, slot, ready, throttle, clVars,
                          failed>>

Worker == \/ InitMiner \/ EnterSearch \/ Top \/ Sleep \/ Queue \/ Read \/ Found \/ Submit
          \/ LockWork \/ ClearOwn \/ Answer \/ Searched \/ ExitRun \/ InitFails \/ SearchFails

Next == \/ \E c \in Challenges \cup {Empty} : SetWork(c)
        \/ OtherFinds \/ TakeSolution \/ Farm
        \/ \E t \in Throttles : SetThrottle(t)
        \/ Worker

Spec == Init /\ [][Next]_vars

(* Both threads run.                                                        *)
Fairness == WF_vars(Farm) /\ WF_vars(Worker)

FairSpec == Spec /\ Fairness
-----------------------------------------------------------------------------
(* Properties *)

(* A farm thread that waits for the hook's answer finds it or has a worker  *)
(* in its search, where alone the answer is given ("we hang around on this  *)
(* thread waiting for them to point out that they have aborted",            *)
(* EthashGPUMiner.cpp:64-66).                                               *)
AbortIsAnswered == caller = "waitAborted" => aborted \/ place \notin {"off", "exit"}

(* It is so as long as no OpenCL call fails, in every mode, at any throttle *)
(* and whoever ended the last run.  That the search also comes to its       *)
(* answer is PauseReturns.                                                  *)
AbortIsAnsweredUnlessFailed == failed \/ AbortIsAnswered

(* setWork comes back, at any throttle and whatever the worker is doing, as *)
(* long as no OpenCL call fails - except that in solo mode a worker that is *)
(* handing in a proof may wait for the locks of the very thread that waits  *)
(* for it: for x_minerWork (Farm.h:206, 631), or for x_solution, held by a  *)
(* finder or by one that itself waits for x_minerWork (Farm.h:621).         *)
PauseReturns ==
    caller # "idle" ~> \/ caller = "idle" \/ failed
                       \/ [](mode = "Solo" /\ place \in {"submit", "lockWork"})

(* No more batches are pending than search is willing to read: otherwise it *)
(* would neither queue nor read, nor ever ask the hook again                *)
(* (ethash_cl_miner.cpp:825, 845), also across throttle changes.            *)
PendingFits == place \in {"queue", "read"} => Len(pending) <= local.count

(* Two pending batches never share a result buffer, and the buffer for the  *)
(* next kernel is not one whose batch is still to be read, although the     *)
(* number of buffers changes with the throttle while batches are pending.   *)
BuffersApart ==
    /\ \A i, j \in 1 .. Len(pending) : i # j => pending[i].buf # pending[j].buf
    /\ place = "queue" /\ Len(pending) < local.count =>
          \A i \in 1 .. Len(pending) : pending[i].buf # buf

(* When setWork has returned the miner searches for the challenge it was    *)
(* given, or is off - unless a solo proof has taken the challenge away, or  *)
(* an OpenCL call has failed.  A finder's own proof may take away new work  *)
(* given while it was on its way back from the farm (Miner.h:531-534).      *)
SearchesItsChallenge ==
    caller = "idle" =>
        \/ challenge = Empty \/ failed
        \/ /\ ws = "Started"
           /\ place \notin {"off", "exit"}
           /\ ~abort
           /\ place \in {"init", "enter"} \/ local.challenge = challenge
=============================================================================
