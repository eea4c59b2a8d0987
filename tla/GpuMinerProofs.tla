--------------------------- MODULE GpuMinerProofs ---------------------------
(***************************************************************************)
(* Proofs about module GpuMiner for any set of challenges and throttles.    *)
(*                                                                          *)
(* The argument is about the handshake of the two flags of the hook.  Once  *)
(* m_aborted is set the worker is past its search, and nothing but kickOff  *)
(* clears it; so whoever stops the Worker finds it past its search, and a   *)
(* worker that ended its search without setting m_aborted, which only a     *)
(* failed OpenCL call can bring about, is never started again.  That is     *)
(* also why what a failed call leaves pending is never searched.            *)
(***************************************************************************)
EXTENDS GpuMiner, TLAPS

Past == {"off", "exit"}

\* The two flags, the Worker and the farm's thread.
Handshake ==
    /\ ws = "Stopped" <=> place = "off"
    /\ ws = "Stopping" => aborted
    /\ aborted => place \in Past
    /\ caller \in {"stop", "await"} => aborted
    /\ caller = "reset" => aborted /\ place = "off"
    /\ caller = "start" => ~aborted /\ ~abort /\ place = "off"
    /\ abort => aborted \/ caller = "waitAborted"
    /\ place \in Past => aborted \/ failed \/ caller = "start"

\* The challenge of the miner and that of the search.
Search ==
    /\ caller = "idle" /\ (aborted \/ place = "answer") => challenge = Empty
    /\ caller \in {"abort", "waitAborted", "stop", "await"} /\ arg = Empty => challenge = Empty
    /\ caller = "idle" /\ place \notin Past \cup {"init", "enter"} =>
          challenge = Empty \/ local.challenge = challenge

\* The pending batches: at most one between two kernels, and never on the
\* next buffer; while one is queued and another read, as many as there are
\* buffers.
Size == Len(pending)
Fits == Size \in 0 .. 1 /\ (Size = 1 => pending[1].buf # buf)
Apart == Size = 2 => pending[1].buf # pending[2].buf
Pending ==
    /\ Apart
    /\ aborted \/ caller = "start" \/ place \notin Past \cup {"read"} => Fits
    /\ place = "read" => /\ Size <= local.count
                         /\ local.count = 2 /\ Size # 0 => pending[Size].buf # buf

\* The steps of a solo proof, and who holds x_solution, are of solo mode.
Proof == {"lockWork", "clearOwn", "answer"}
Locks == mode = "Pool" => finder = "none" /\ place \notin Proof

IInv == TypeOK /\ Handshake /\ Search /\ Pending /\ Locks
-----------------------------------------------------------------------------
\* In the search nobody has asked the Worker to stop: the hook comes first.
LEMMA InSearch ==
    ASSUME TypeOK, Handshake, place \notin Past
    PROVE ws = "Started" /\ ~shouldStop /\ aborted = FALSE
  BY DEF TypeOK, Handshake, Past, shouldStop

LEMMA Flags ==
    ASSUME TypeOK
    PROVE abort \in BOOLEAN /\ aborted \in BOOLEAN
  BY DEF TypeOK

\* What the search does to its locals.
LEMMA LocalType ==
    ASSUME TypeOK
    PROVE /\ local.challenge \in Challenges \cup {Empty} /\ local.throttle \in Throttles
          /\ local.count \in 1 .. 2 /\ local.batch \in Batches
          /\ local \in [challenge : Challenges \cup {Empty}, throttle : Throttles,
                        count : 1 .. 2, batch : Batches]
  BY DEF TypeOK

LEMMA AdjustedType ==
    ASSUME TypeOK
    PROVE /\ Adjusted \in [challenge : Challenges \cup {Empty}, throttle : Throttles,
                           count : 1 .. 2, batch : Batches]
          /\ Adjusted.challenge = local.challenge
  <1>1. throttle \in Throttles
    BY DEF TypeOK
  <1> DEFINE n == IF throttle > 0 /\ local.throttle = 0 THEN 1
                  ELSE IF local.throttle > 0 /\ throttle = 0 THEN 2 ELSE local.count
  <1>2. n \in 1 .. 2
    BY LocalType
  <1>3. Adjusted = [local EXCEPT !.throttle = throttle, !.count = n]
    BY DEF Adjusted
  <1> HIDE DEF n
  <1> QED
    BY <1>1, <1>2, <1>3, LocalType

LEMMA SearchesOn ==
    ASSUME TypeOK, Top \/ Sleep \/ Read \/ Found
    PROVE local'.challenge = local.challenge
  <1>1. ASSUME Top \/ Sleep PROVE local'.challenge = local.challenge
    BY <1>1, AdjustedType DEF Top, Sleep
  <1>2. ASSUME Read \/ Found PROVE local'.challenge = local.challenge
    BY <1>2, LocalType DEF Read, Found
  <1> QED
    BY <1>1, <1>2

\* The farm waits for the hook before it stops the Worker, so no step breaks
\* the handshake.
LEMMA HandshakeStep ==
    ASSUME TypeOK, Handshake, Next
    PROVE Handshake'
  <1>1. ASSUME NEW c \in Challenges \cup {Empty}, SetWork(c) PROVE Handshake'
    BY Flags, <1>1 DEF SetWork, Called, callVars, hookVars, clVars, searchVars, Handshake, Past
  <1>2. ASSUME OtherFinds PROVE Handshake'
    BY Flags, <1>2
    DEF OtherFinds, hookVars, callVars, clVars, searchVars, Handshake, Past
  <1>3. ASSUME Abort PROVE Handshake'
    BY Flags, <1>3 DEF Abort, clVars, searchVars, Handshake, Past
  <1>4. ASSUME WaitAborted PROVE Handshake'
    BY Flags, <1>4 DEF WaitAborted, hookVars, clVars, searchVars, Handshake, Past
  <1>5. ASSUME Stop PROVE Handshake'
    BY Flags, <1>5 DEF Stop, hookVars, clVars, searchVars, Handshake, Past
  <1>6. ASSUME Await PROVE Handshake'
    BY Flags, <1>6 DEF Await, hookVars, clVars, searchVars, Handshake, Past
  <1>7. ASSUME Reset PROVE Handshake'
    BY Flags, <1>7 DEF Reset, clVars, searchVars, Handshake, Past
  <1>8. ASSUME Start PROVE Handshake'
    BY Flags, <1>8 DEF Start, hookVars, clVars, searchVars, Handshake, Past
  <1>9. ASSUME OtherPauses PROVE Handshake'
    BY Flags, <1>9
    DEF OtherPauses, Called, hookVars, callVars, clVars, searchVars, Handshake, Past
  <1>10. ASSUME NEW t \in Throttles, SetThrottle(t) PROVE Handshake'
    BY Flags, <1>10 DEF SetThrottle, hookVars, callVars, clVars, searchVars, Handshake, Past
  <1>11. ASSUME InitMiner PROVE Handshake'
    BY Flags, <1>11 DEF InitMiner, hookVars, callVars, clVars, searchVars, Handshake, Past
  <1>12. ASSUME InitFails PROVE Handshake'
    BY Flags, <1>12 DEF InitFails, hookVars, callVars, clVars, Handshake, Past
  <1>13. ASSUME EnterSearch PROVE Handshake'
    BY Flags, <1>13 DEF EnterSearch, hookVars, callVars, clVars, Handshake, Past
  <1>14. ASSUME Top PROVE Handshake'
    BY Flags, <1>14 DEF Top, hookVars, callVars, Handshake, Past
  <1>15. ASSUME Sleep PROVE Handshake'
    BY Flags, <1>15 DEF Sleep, callVars, clVars, Handshake, Past, shouldStop
  <1>16. ASSUME Queue PROVE Handshake'
    <2>1. place = "queue" /\ place' = "read" /\ UNCHANGED <<aborted, abort, ws, caller, failed>>
      BY Flags, <1>16 DEF Queue, QueueRest, hookVars, callVars
    <2> QED
      BY <2>1 DEF Handshake, Past
  <1>17. ASSUME Read PROVE Handshake'
    BY Flags, <1>17 DEF Read, hookVars, callVars, Handshake, Past
  <1>18. ASSUME Found PROVE Handshake'
    <2>1. place = "found" /\ ~shouldStop /\ aborted = FALSE
      BY <1>18, InSearch DEF Found, Past
    <2>2. place' \in {"searched", "submit"}
      BY <1>18, <2>1 DEF Found
    <2>3. UNCHANGED <<abort, aborted, ws, caller, failed>>
      BY <1>18 DEF Found, hookVars, callVars
    <2> QED
      BY <2>1, <2>2, <2>3 DEF Handshake, Past
  <1>19. ASSUME Searched PROVE Handshake'
    <2>1. place = "searched" /\ ~shouldStop /\ aborted = FALSE /\ ws = "Started"
      BY Flags, <1>19, InSearch DEF Searched, Past
    <2>2. abort \in BOOLEAN
      BY DEF TypeOK
    <2>3. aborted' = abort /\ place' = IF abort THEN "exit" ELSE "top"
      BY Flags, <1>19, <2>1, <2>2 DEF Searched
    <2>4. UNCHANGED <<abort, ws, caller, failed>>
      BY Flags, <1>19 DEF Searched, callVars, searchVars
    <2> QED
      BY <2>1, <2>2, <2>3, <2>4 DEF Handshake, Past
  <1>20. ASSUME SearchFails PROVE Handshake'
    <2>1. place \in {"queue", "read", "found"} /\ place' = "exit" /\ failed'
      BY <1>20 DEF SearchFails
    <2>2. UNCHANGED <<abort, aborted, ws, caller>>
      BY <1>20 DEF SearchFails, hookVars, callVars
    <2> QED
      BY <2>1, <2>2 DEF Handshake, Past
  <1>21. ASSUME ExitRun PROVE Handshake'
    BY Flags, <1>21 DEF ExitRun, hookVars, callVars, clVars, Handshake, Past
  <1>22. ASSUME TakeSolution PROVE Handshake'
    BY Flags, <1>22
    DEF TakeSolution, hookVars, callVars, clVars, searchVars, Handshake, Past
  <1>23. ASSUME Submit PROVE Handshake'
    <2>1. place = "submit" /\ ~shouldStop /\ aborted = FALSE
      BY <1>23, InSearch DEF Submit, Past
    <2>2. place' \in {"searched", "clearOwn", "lockWork"}
      BY <1>23, <2>1 DEF Submit
    <2>3. UNCHANGED <<abort, aborted, ws, caller, failed>>
      BY <1>23 DEF Submit, hookVars, callVars, searchVars
    <2> QED
      BY <2>1, <2>2, <2>3 DEF Handshake, Past
  <1>24. ASSUME LockWork PROVE Handshake'
    BY Flags, <1>24
    DEF LockWork, hookVars, callVars, clVars, searchVars, Handshake, Past
  <1>25. ASSUME ClearOwn PROVE Handshake'
    BY Flags, <1>25
    DEF ClearOwn, hookVars, callVars, clVars, searchVars, Handshake, Past
  <1>26. ASSUME Answer PROVE Handshake'
    BY Flags, <1>26
    DEF Answer, AnswerThen, hookVars, callVars, clVars, searchVars, Handshake, Past
  <1> QED
    BY <1>1, <1>2, <1>3, <1>4, <1>5, <1>6, <1>7, <1>8, <1>9, <1>10, <1>11, <1>12,
       <1>13, <1>14, <1>15, <1>16, <1>17, <1>18, <1>19, <1>20, <1>21, <1>22,
       <1>23, <1>24, <1>25, <1>26
    DEF Next, Farm, Worker

\* The search is for the challenge that the farm gave.
LEMMA SearchStep ==
    ASSUME TypeOK, Handshake, Search, Next
    PROVE Search'
  <1>1. ASSUME NEW c \in Challenges \cup {Empty}, SetWork(c) PROVE Search'
    BY <1>1 DEF SetWork, Called, callVars, hookVars, clVars, searchVars, Search, Handshake, Past
  <1>2. ASSUME OtherFinds PROVE Search'
    BY Flags, InSearch, <1>2
    DEF OtherFinds, hookVars, callVars, clVars, searchVars, Search, Handshake, Past
  <1>3. ASSUME Abort PROVE Search'
    BY <1>3 DEF Abort, clVars, searchVars, Search, Handshake, Past
  <1>4. ASSUME WaitAborted PROVE Search'
    BY <1>4 DEF WaitAborted, hookVars, clVars, searchVars, Search, Handshake, Past
  <1>5. ASSUME Stop PROVE Search'
    BY <1>5 DEF Stop, hookVars, clVars, searchVars, Search, Handshake, Past
  <1>6. ASSUME Await PROVE Search'
    BY <1>6 DEF Await, hookVars, clVars, searchVars, Search, Handshake, Past
  <1>7. ASSUME Reset PROVE Search'
    BY <1>7 DEF Reset, clVars, searchVars, Search, Handshake, Past
  <1>8. ASSUME Start PROVE Search'
    BY <1>8 DEF Start, hookVars, clVars, searchVars, Search, Handshake, Past
  <1>9. ASSUME OtherPauses PROVE Search'
    <2>1. caller = "idle" /\ challenge' = Empty /\ arg' = Empty
      BY <1>9 DEF OtherPauses, Called
    <2> QED
      BY <2>1 DEF Search
  <1>10. ASSUME NEW t \in Throttles, SetThrottle(t) PROVE Search'
    BY <1>10
    DEF SetThrottle, hookVars, callVars, clVars, searchVars, Search, Handshake, Past
  <1>11. ASSUME InitMiner PROVE Search'
    BY <1>11 DEF InitMiner, hookVars, callVars, clVars, searchVars, Search, Handshake, Past
  <1>12. ASSUME InitFails PROVE Search'
    BY <1>12 DEF InitFails, hookVars, callVars, clVars, Search, Handshake, Past
  <1>13. ASSUME EnterSearch PROVE Search'
    BY <1>13 DEF EnterSearch, hookVars, callVars, clVars, Search, Handshake, Past
  <1>14. ASSUME Top PROVE Search'
    <2>1. local'.challenge = local.challenge
      BY <1>14, SearchesOn
    <2>2. /\ UNCHANGED <<challenge, caller, arg>> /\ place' # "answer"
          /\ place \notin Past \cup {"init", "enter"}
      BY <1>14 DEF Top, callVars, Past
    <2>3. aborted' => aborted \/ caller \notin {"idle"}
      BY <1>14, Flags, InSearch, <2>2 DEF Top, Handshake, Past, hookVars
    <2> QED
      BY <2>1, <2>2, <2>3 DEF Search
  <1>15. ASSUME Sleep PROVE Search'
    <2>1. local'.challenge = local.challenge
      BY <1>15, SearchesOn
    <2>2. /\ UNCHANGED <<challenge, caller, arg>> /\ place' # "answer"
          /\ place \notin Past \cup {"init", "enter"}
      BY <1>15 DEF Sleep, callVars, Past
    <2>3. aborted' => aborted \/ caller \notin {"idle"}
      BY <1>15, Flags, InSearch, <2>2 DEF Sleep, Handshake, Past, hookVars
    <2> QED
      BY <2>1, <2>2, <2>3 DEF Search
  <1>16. ASSUME Queue PROVE Search'
    <2>1. place = "queue" /\ place' = "read" /\ UNCHANGED <<aborted, caller, arg, challenge, local>>
      BY <1>16 DEF Queue, QueueRest, hookVars, callVars
    <2> QED
      BY <2>1 DEF Search, Past
  <1>17. ASSUME Read PROVE Search'
    <2>1. local'.challenge = local.challenge
      BY <1>17, SearchesOn
    <2>2. /\ UNCHANGED <<challenge, caller, arg>> /\ place' # "answer"
          /\ place \notin Past \cup {"init", "enter"}
      BY <1>17 DEF Read, callVars, Past
    <2>3. aborted' => aborted \/ caller \notin {"idle"}
      BY <1>17, Flags, InSearch, <2>2 DEF Read, Handshake, Past, hookVars
    <2> QED
      BY <2>1, <2>2, <2>3 DEF Search
  <1>18. ASSUME Found PROVE Search'
    <2>1. local'.challenge = local.challenge
      BY <1>18, SearchesOn
    <2>2. place = "found" /\ place' # "answer" /\ UNCHANGED <<aborted, caller, arg, challenge>>
      BY <1>18 DEF Found, hookVars, callVars
    <2> QED
      BY <2>1, <2>2 DEF Search, Past
  <1>19. ASSUME Searched PROVE Search'
    <2>1. place = "searched" /\ place' # "answer" /\ UNCHANGED <<caller, arg, challenge, local>>
      BY <1>19 DEF Searched, callVars, searchVars
    <2>2. aborted' => caller # "idle"
      BY <1>19, <2>1, Flags, InSearch DEF Searched, Handshake, Past
    <2> QED
      BY <2>1, <2>2 DEF Search, Past
  <1>20. ASSUME SearchFails PROVE Search'
    <2>1. /\ place \notin Past \cup {"init", "enter"} /\ place' = "exit"
          /\ UNCHANGED <<aborted, caller, arg, challenge, local>>
      BY <1>20 DEF SearchFails, Past, hookVars, callVars
    <2> QED
      BY <2>1 DEF Search
  <1>21. ASSUME ExitRun PROVE Search'
    BY <1>21 DEF ExitRun, hookVars, callVars, clVars, Search, Handshake, Past
  <1>22. ASSUME TakeSolution PROVE Search'
    BY Flags, InSearch, <1>22
    DEF TakeSolution, hookVars, callVars, clVars, searchVars, Search, Handshake, Past
  <1>23. ASSUME Submit PROVE Search'
    BY Flags, InSearch, <1>23
    DEF Submit, hookVars, callVars, clVars, searchVars, Search, Handshake, Past
  <1>24. ASSUME LockWork PROVE Search'
    BY Flags, InSearch, <1>24
    DEF LockWork, hookVars, callVars, clVars, searchVars, Search, Handshake, Past
  <1>25. ASSUME ClearOwn PROVE Search'
    BY Flags, InSearch, <1>25
    DEF ClearOwn, hookVars, callVars, clVars, searchVars, Search, Handshake, Past
  <1>26. ASSUME Answer PROVE Search'
    BY Flags, InSearch, <1>26
    DEF Answer, AnswerThen, hookVars, callVars, clVars, searchVars, Search, Handshake, Past
  <1> QED
    BY <1>1, <1>2, <1>3, <1>4, <1>5, <1>6, <1>7, <1>8, <1>9, <1>10, <1>11, <1>12,
       <1>13, <1>14, <1>15, <1>16, <1>17, <1>18, <1>19, <1>20, <1>21, <1>22,
       <1>23, <1>24, <1>25, <1>26
    DEF Next, Farm, Worker

-----------------------------------------------------------------------------
\* Type correctness.
Locals == [challenge : Challenges \cup {Empty}, throttle : Throttles,
           count : 1 .. 2, batch : Batches]
ThreadsOK == /\ mode \in {"Solo", "Pool"}
             /\ challenge \in Challenges \cup {Empty}
             /\ abort \in BOOLEAN /\ aborted \in BOOLEAN
             /\ ws \in {"Stopped", "Started", "Stopping"}
             /\ caller \in {"idle", "abort", "waitAborted", "stop", "await", "reset", "start"}
             /\ arg \in Challenges \cup {Empty}
             /\ finder \in {"none", "solution", "work"}
             /\ slot \in BOOLEAN
             /\ place \in {"off", "init", "enter", "top", "sleep", "queue", "read", "found",
                           "submit", "lockWork", "clearOwn", "answer", "searched", "exit"}
             /\ ready \in BOOLEAN
             /\ throttle \in Throttles
             /\ failed \in BOOLEAN
SearchOK == /\ pending \in Seq(Batches) /\ Len(pending) <= 2
            /\ buf \in Buffers
            /\ hits \in [Buffers -> SUBSET {"fresh", "stale"}]
            /\ local \in Locals
LEMMA TypeParts ==
    ASSUME TypeOK
    PROVE ThreadsOK /\ SearchOK
  BY DEF TypeOK, ThreadsOK, SearchOK, Locals
LEMMA PendingType ==
    ASSUME TypeOK
    PROVE /\ pending \in Seq(Batches)
          /\ Size \in Nat /\ Size <= 2
          /\ buf \in 0 .. 1
  BY DEF TypeOK, Buffers, Size

\* What becomes of the batches when one is queued or read.
LEMMA AppendFacts ==
    ASSUME NEW s \in Seq(Batches), NEW e \in Batches
    PROVE /\ Append(s, e) \in Seq(Batches)
          /\ Len(Append(s, e)) = Len(s) + 1
          /\ Append(s, e)[Len(s) + 1] = e
          /\ Len(s) = 1 => Append(s, e)[1] = s[1]
  OBVIOUS

LEMMA TailFacts ==
    ASSUME NEW s \in Seq(Batches), Len(s) # 0
    PROVE /\ Tail(s) \in Seq(Batches) /\ Head(s) \in Batches
          /\ Len(Tail(s)) = Len(s) - 1
          /\ Len(s) = 2 => Tail(s)[1] = s[2]
  OBVIOUS

\* Pending batches have buffers of their own, and a place to be read.
LEMMA PendingStep ==
    ASSUME TypeOK, Handshake, Pending, Next
    PROVE Pending'
  <1>1. ASSUME NEW c \in Challenges \cup {Empty}, SetWork(c) PROVE Pending'
    BY <1>1
    DEF SetWork, Called, callVars, hookVars, clVars, searchVars, Pending, Handshake, Past, Fits, Apart, Size
  <1>2. ASSUME OtherFinds PROVE Pending'
    BY <1>2
    DEF OtherFinds, hookVars, callVars, clVars, searchVars, Pending, Handshake, Past,
        Fits, Apart, Size
  <1>3. ASSUME Abort PROVE Pending'
    BY <1>3 DEF Abort, clVars, searchVars, Pending, Handshake, Past, Fits, Apart, Size
  <1>4. ASSUME WaitAborted PROVE Pending'
    BY <1>4
    DEF WaitAborted, hookVars, clVars, searchVars, Pending, Handshake, Past, Fits, Apart,
        Size
  <1>5. ASSUME Stop PROVE Pending'
    BY <1>5
    DEF Stop, hookVars, clVars, searchVars, Pending, Handshake, Past, Fits, Apart, Size
  <1>6. ASSUME Await PROVE Pending'
    BY <1>6
    DEF Await, hookVars, clVars, searchVars, Pending, Handshake, Past, Fits, Apart, Size
  <1>7. ASSUME Reset PROVE Pending'
    BY <1>7 DEF Reset, clVars, searchVars, Pending, Handshake, Past, Fits, Apart, Size
  <1>8. ASSUME Start PROVE Pending'
    BY <1>8
    DEF Start, hookVars, clVars, searchVars, Pending, Handshake, Past, Fits, Apart, Size
  <1>9. ASSUME OtherPauses PROVE Pending'
    BY <1>9
    DEF OtherPauses, Called, hookVars, callVars, clVars, searchVars, Pending, Handshake, Past,
        Fits, Apart, Size
  <1>10. ASSUME NEW t \in Throttles, SetThrottle(t) PROVE Pending'
    BY <1>10
    DEF SetThrottle, hookVars, callVars, clVars, searchVars, Pending, Handshake, Past,
        Fits, Apart, Size
  <1>11. ASSUME InitMiner PROVE Pending'
    BY <1>11
    DEF InitMiner, hookVars, callVars, clVars, searchVars, Pending, Handshake, Past, Fits,
        Apart, Size
  <1>12. ASSUME InitFails PROVE Pending'
    BY <1>12
    DEF InitFails, hookVars, callVars, clVars, Pending, Handshake, Past, Fits, Apart, Size
  <1>13. ASSUME EnterSearch PROVE Pending'
    BY <1>13
    DEF EnterSearch, hookVars, callVars, clVars, Pending, Handshake, Past, Fits, Apart,
        Size
  <1>14. ASSUME Top PROVE Pending'
    <2>1. place = "top" /\ place' \in {"sleep", "queue"} /\ UNCHANGED <<aborted, caller, buf>>
      BY <1>14 DEF Top, hookVars, callVars
    <2>2. Fits /\ Apart
      BY <2>1 DEF Pending, Past
    <2>3. pending' = <<>> \/ pending' = pending
      BY <1>14 DEF Top
    <2>4. CASE pending' = <<>>
      <3>1. Size' = 0
        BY <2>4 DEF Size
      <3> QED
        BY <2>1, <3>1 DEF Fits, Apart, Pending
    <2>5. CASE pending' = pending
      <3>1. Size' = Size
        BY <2>5 DEF Size
      <3> QED
        BY <2>1, <2>2, <2>5, <3>1 DEF Fits, Apart, Pending
    <2> QED
      BY <2>3, <2>4, <2>5
  <1>15. ASSUME Sleep PROVE Pending'
    BY <1>15
    DEF Sleep, callVars, clVars, Pending, Handshake, Past, shouldStop, Fits, Apart, Size
  <1>16. ASSUME Queue PROVE Pending'
    <2> DEFINE b == [challenge |-> local.challenge, buf |-> buf]
               n == local.count
    <2>1. /\ place = "queue" /\ place' = "read" /\ UNCHANGED <<aborted, caller, local>>
          /\ Size < n => pending' = Append(pending, b) /\ buf' = (buf + 1) % n
          /\ ~(Size < n) => UNCHANGED <<pending, buf>>
      BY <1>16 DEF Queue, QueueRest, QueueThen, hookVars, callVars, clVars, Size
    <2>2. Fits /\ aborted' = FALSE /\ caller' # "start"
      BY <2>1, InSearch DEF Pending, Past, Handshake
    <2>3. /\ n \in 1 .. 2 /\ b \in Batches /\ b.buf = buf /\ buf \in 0 .. 1
          /\ pending \in Seq(Batches)
      BY LocalType, PendingType DEF Batches, Buffers
    <2>4. n' = n
      BY <2>1
    <2> HIDE DEF b, n
    <2> SUFFICES /\ Size' = 2 => pending'[1].buf # pending'[2].buf
                 /\ Size' <= n
                 /\ n = 2 /\ Size' # 0 => pending'[Size'].buf # buf'
      BY <2>1, <2>2, <2>4 DEF Pending, Apart, n
    <2>5. CASE ~(Size < n)
      <3>1. Size' = Size
        BY <2>1, <2>5 DEF Size
      <3> QED
        BY <2>1, <2>2, <2>3, <2>5, <3>1 DEF Fits
    <2>6. CASE Size < n
      <3>1. /\ Size' = Size + 1 /\ pending'[Size + 1] = b
            /\ Size = 1 => pending'[1] = pending[1]
        BY <2>1, <2>3, <2>6, AppendFacts DEF Size
      <3>2. n = 2 => buf' # buf
        BY <2>1, <2>3, <2>6
      <3>3. CASE Size = 0
        BY <2>3, <2>6, <3>1, <3>2, <3>3
      <3>4. CASE Size = 1 /\ pending[1].buf # buf
        BY <2>3, <2>6, <3>1, <3>2, <3>4
      <3> QED
        BY <2>2, <3>3, <3>4 DEF Fits
    <2> QED
      BY <2>5, <2>6
  <1>17. ASSUME Read PROVE Pending'
    <2> DEFINE n == local.count
    <2>1. /\ place = "read" /\ place' \in {"found", "searched", "top"}
          /\ UNCHANGED <<aborted, caller, buf>>
          /\ Size = n => pending' = Tail(pending)
          /\ Size # n => pending' = pending
      BY <1>17 DEF Read, hookVars, callVars, Size
    <2>2. n \in 1 .. 2 /\ pending \in Seq(Batches) /\ Size \in Nat
      BY LocalType, PendingType
    <2>3. /\ Size <= n
          /\ n = 2 /\ Size # 0 => pending[Size].buf # buf
      BY <2>1 DEF Pending
    <2> HIDE DEF n
    <2>4. Size' = 0 \/ (Size' = 1 /\ pending'[1].buf # buf)
      <3>1. CASE Size = n
        <4>1. Size' = Size - 1 /\ (Size = 2 => pending'[1] = pending[2])
          BY <2>1, <2>2, <3>1, TailFacts DEF Size
        <4> QED
          BY <2>2, <2>3, <3>1, <4>1
      <3>2. CASE Size # n
        <4>1. Size' = Size /\ pending' = pending
          BY <2>1, <3>2 DEF Size
        <4> QED
          BY <2>2, <2>3, <3>2, <4>1
      <3> QED
        BY <3>1, <3>2
    <2>5. Fits' /\ Apart'
      BY <2>1, <2>4 DEF Fits, Apart
    <2> QED
      BY <2>1, <2>5 DEF Pending, Past
  <1>18. ASSUME Found PROVE Pending'
    <2>1. /\ place = "found" /\ UNCHANGED <<pending, buf, caller>>
          /\ place' \in {"exit", "searched", "submit"}
      BY <1>18 DEF Found, callVars
    <2>2. Fits /\ Apart
      BY <2>1 DEF Pending, Past
    <2> QED
      BY <2>1, <2>2 DEF Pending, Fits, Apart, Size
  <1>19. ASSUME Searched PROVE Pending'
    BY <1>19
    DEF Searched, callVars, clVars, searchVars, Pending, Handshake, Past, shouldStop,
        Fits, Apart, Size
  <1>20. ASSUME SearchFails PROVE Pending'
    <2>1. /\ place \in {"queue", "read", "found"} /\ place' = "exit" /\ aborted' = FALSE
          /\ caller' # "start"
      BY <1>20, InSearch DEF SearchFails, Past, Handshake, hookVars, callVars
    <2>2. Apart'
      <3>1. CASE pending' = pending
        BY <3>1 DEF Pending, Apart, Size
      <3>2. CASE place = "queue" /\ pending' # pending
        <4> DEFINE b == [challenge |-> local.challenge, buf |-> buf]
        <4>1. pending' = Append(pending, b)
          BY <1>20, <3>2 DEF SearchFails, QueueThen, clVars
        <4>2. b \in Batches /\ b.buf = buf /\ pending \in Seq(Batches)
          BY LocalType, PendingType DEF Batches, Buffers
        <4>3. Fits
          BY <3>2 DEF Pending, Past
        <4> HIDE DEF b
        <4>4. Size' = Size + 1 /\ pending'[Size + 1] = b /\ (Size = 1 => pending'[1] = pending[1])
          BY <4>1, <4>2, AppendFacts DEF Size
        <4> QED
          BY <4>2, <4>3, <4>4 DEF Fits, Apart
      <3>3. CASE place = "read" /\ pending' # pending
        <4>0. pending' = Tail(pending) /\ Size = local.count
          BY <1>20, <3>3 DEF SearchFails, Size
        <4>1. pending' = Tail(pending) /\ Size # 0 /\ Size \in 0 .. 2 /\ pending \in Seq(Batches)
          BY <4>0, LocalType, PendingType
        <4>2. Size' = Size - 1
          BY <4>1, TailFacts DEF Size
        <4>3. Size' # 2
          BY <4>1, <4>2
        <4> QED
          BY <4>3 DEF Apart
      <3>4. CASE place = "found"
        BY <1>20, <3>1, <3>4 DEF SearchFails, clVars
      <3> QED
        BY <2>1, <3>1, <3>2, <3>3, <3>4
    <2> QED
      BY <2>1, <2>2 DEF Pending, Past
  <1>21. ASSUME ExitRun PROVE Pending'
    BY <1>21
    DEF ExitRun, hookVars, callVars, clVars, Pending, Handshake, Past, Fits, Apart, Size
  <1>22. ASSUME TakeSolution PROVE Pending'
    BY <1>22
    DEF TakeSolution, hookVars, callVars, clVars, searchVars, Pending, Handshake, Past,
        Fits, Apart, Size
  <1>23. ASSUME Submit PROVE Pending'
    <2>1. /\ place = "submit" /\ UNCHANGED <<pending, buf, caller>>
          /\ place' \in {"exit", "searched", "clearOwn", "lockWork"}
      BY <1>23 DEF Submit, callVars, clVars, searchVars
    <2>2. Fits /\ Apart
      BY <2>1 DEF Pending, Past
    <2> QED
      BY <2>1, <2>2 DEF Pending, Fits, Apart, Size
  <1>24. ASSUME LockWork PROVE Pending'
    BY <1>24
    DEF LockWork, hookVars, callVars, clVars, searchVars, Pending, Handshake, Past,
        Fits, Apart, Size
  <1>25. ASSUME ClearOwn PROVE Pending'
    BY <1>25
    DEF ClearOwn, hookVars, callVars, clVars, searchVars, Pending, Handshake, Past,
        Fits, Apart, Size
  <1>26. ASSUME Answer PROVE Pending'
    BY <1>26
    DEF Answer, AnswerThen, hookVars, callVars, clVars, searchVars, Pending, Handshake, Past,
        Fits, Apart, Size
  <1> QED
    BY <1>1, <1>2, <1>3, <1>4, <1>5, <1>6, <1>7, <1>8, <1>9, <1>10, <1>11, <1>12,
       <1>13, <1>14, <1>15, <1>16, <1>17, <1>18, <1>19, <1>20, <1>21, <1>22,
       <1>23, <1>24, <1>25, <1>26
    DEF Next, Farm, Worker

LEMMA TypeStep ==
    ASSUME TypeOK, Next
    PROVE TypeOK'
  <1>1. ASSUME NEW c \in Challenges \cup {Empty}, SetWork(c) PROVE TypeOK'
    <2>8. ThreadsOK'
      BY TypeParts, <1>1 DEF SetWork, Called, callVars, hookVars, clVars, searchVars, ThreadsOK
    <2>9. SearchOK'
      BY TypeParts, <1>1 DEF SetWork, Called, callVars, hookVars, clVars, searchVars, SearchOK
    <2> QED
      BY <2>8, <2>9 DEF TypeOK, ThreadsOK, SearchOK, Locals
  <1>2. ASSUME OtherFinds PROVE TypeOK'
    <2>8. ThreadsOK'
      BY TypeParts, <1>2 DEF OtherFinds, hookVars, callVars, clVars, searchVars, ThreadsOK
    <2>9. SearchOK'
      BY TypeParts, <1>2 DEF OtherFinds, hookVars, callVars, clVars, searchVars, SearchOK
    <2> QED
      BY <2>8, <2>9 DEF TypeOK, ThreadsOK, SearchOK, Locals
  <1>3. ASSUME Abort PROVE TypeOK'
    <2>1. abort' \in BOOLEAN
      BY <1>3, Flags DEF Abort
    <2>2. caller' \in {"stop", "waitAborted"}
      BY <1>3, Flags DEF Abort
    <2>3. UNCHANGED <<mode, challenge, aborted, ws, arg, finder, slot, place, ready, throttle,
                     failed>>
      BY <1>3 DEF Abort, searchVars
    <2>8. ThreadsOK'
      BY TypeParts, <2>1, <2>2, <2>3 DEF ThreadsOK
    <2>9. SearchOK'
      BY TypeParts, <1>3 DEF Abort, clVars, searchVars, SearchOK
    <2> QED
      BY <2>8, <2>9 DEF TypeOK, ThreadsOK, SearchOK, Locals
  <1>4. ASSUME WaitAborted PROVE TypeOK'
    <2>8. ThreadsOK'
      BY TypeParts, <1>4 DEF WaitAborted, hookVars, clVars, searchVars, ThreadsOK
    <2>9. SearchOK'
      BY TypeParts, <1>4 DEF WaitAborted, hookVars, clVars, searchVars, SearchOK
    <2> QED
      BY <2>8, <2>9 DEF TypeOK, ThreadsOK, SearchOK, Locals
  <1>5. ASSUME Stop PROVE TypeOK'
    <2>8. ThreadsOK'
      BY TypeParts, <1>5 DEF Stop, hookVars, clVars, searchVars, ThreadsOK
    <2>9. SearchOK'
      BY TypeParts, <1>5 DEF Stop, hookVars, clVars, searchVars, SearchOK
    <2> QED
      BY <2>8, <2>9 DEF TypeOK, ThreadsOK, SearchOK, Locals
  <1>6. ASSUME Await PROVE TypeOK'
    <2>8. ThreadsOK'
      BY TypeParts, <1>6 DEF Await, hookVars, clVars, searchVars, ThreadsOK
    <2>9. SearchOK'
      BY TypeParts, <1>6 DEF Await, hookVars, clVars, searchVars, SearchOK
    <2> QED
      BY <2>8, <2>9 DEF TypeOK, ThreadsOK, SearchOK, Locals
  <1>7. ASSUME Reset PROVE TypeOK'
    <2>1. abort' \in BOOLEAN /\ aborted' \in BOOLEAN /\ caller' = "start"
      BY <1>7 DEF Reset
    <2>2. UNCHANGED <<mode, challenge, ws, arg, finder, slot, place, ready, throttle, failed>>
      BY <1>7 DEF Reset, searchVars
    <2>8. ThreadsOK'
      BY TypeParts, <2>1, <2>2 DEF ThreadsOK
    <2>9. SearchOK'
      BY TypeParts, <1>7 DEF Reset, clVars, searchVars, SearchOK
    <2> QED
      BY <2>8, <2>9 DEF TypeOK, ThreadsOK, SearchOK, Locals
  <1>8. ASSUME Start PROVE TypeOK'
    <2>8. ThreadsOK'
      BY TypeParts, <1>8 DEF Start, hookVars, clVars, searchVars, ThreadsOK
    <2>9. SearchOK'
      BY TypeParts, <1>8 DEF Start, hookVars, clVars, searchVars, SearchOK
    <2> QED
      BY <2>8, <2>9 DEF TypeOK, ThreadsOK, SearchOK, Locals
  <1>9. ASSUME OtherPauses PROVE TypeOK'
    <2>1. caller' \in {"abort", "idle"} /\ finder' \in {"none", "work"}
      BY <1>9 DEF OtherPauses, Called
    <2>8. ThreadsOK'
      BY TypeParts, <1>9, <2>1 DEF OtherPauses, Called, hookVars, callVars, clVars, searchVars, ThreadsOK
    <2>9. SearchOK'
      BY TypeParts, <1>9 DEF OtherPauses, Called, hookVars, callVars, clVars, searchVars, SearchOK
    <2> QED
      BY <2>8, <2>9 DEF TypeOK, ThreadsOK, SearchOK, Locals
  <1>10. ASSUME NEW t \in Throttles, SetThrottle(t) PROVE TypeOK'
    <2>8. ThreadsOK'
      BY TypeParts, <1>10 DEF SetThrottle, hookVars, callVars, clVars, searchVars, ThreadsOK
    <2>9. SearchOK'
      BY TypeParts, <1>10 DEF SetThrottle, hookVars, callVars, clVars, searchVars, SearchOK
    <2> QED
      BY <2>8, <2>9 DEF TypeOK, ThreadsOK, SearchOK, Locals
  <1>11. ASSUME InitMiner PROVE TypeOK'
    <2>8. ThreadsOK'
      BY TypeParts, <1>11 DEF InitMiner, hookVars, callVars, clVars, searchVars, ThreadsOK
    <2>9. SearchOK'
      BY TypeParts, <1>11 DEF InitMiner, hookVars, callVars, clVars, searchVars, SearchOK
    <2> QED
      BY <2>8, <2>9 DEF TypeOK, ThreadsOK, SearchOK, Locals
  <1>12. ASSUME InitFails PROVE TypeOK'
    <2>8. ThreadsOK'
      BY TypeParts, <1>12 DEF InitFails, hookVars, callVars, clVars, ThreadsOK
    <2>9. SearchOK'
      BY TypeParts, <1>12 DEF InitFails, hookVars, callVars, clVars, SearchOK
    <2> QED
      BY <2>8, <2>9 DEF TypeOK, ThreadsOK, SearchOK, Locals
  <1>13. ASSUME EnterSearch PROVE TypeOK'
    <2>1. local' \in Locals
      <3> DEFINE n == IF throttle = 0 THEN 2 ELSE 1
      <3>1. challenge \in Challenges \cup {Empty} /\ 0 \in Throttles /\ n \in 1 .. 2
        BY ThrottleAssumption DEF TypeOK
      <3>2. local' = [local EXCEPT !.challenge = challenge, !.throttle = 0, !.count = n]
        BY <1>13 DEF EnterSearch
      <3> HIDE DEF n
      <3> QED
        BY <3>1, <3>2, LocalType DEF Locals
    <2>8. ThreadsOK'
      BY TypeParts, <1>13, <2>1 DEF EnterSearch, hookVars, callVars, clVars, ThreadsOK
    <2>9. SearchOK'
      BY TypeParts, <1>13, <2>1 DEF EnterSearch, hookVars, callVars, clVars, SearchOK
    <2> QED
      BY <2>8, <2>9 DEF TypeOK, ThreadsOK, SearchOK, Locals
  <1>14. ASSUME Top PROVE TypeOK'
    <2>1. local' \in Locals
      BY <1>14, AdjustedType DEF Top, Locals
    <2>2. pending' \in Seq(Batches) /\ Len(pending') <= 2
      <3>1. CASE pending' = <<>>
        BY <3>1
      <3>2. CASE pending' = pending
        BY <3>2 DEF TypeOK
      <3> QED
        BY <1>14, <3>1, <3>2 DEF Top
    <2>3. place' \in {"sleep", "queue"}
      BY <1>14 DEF Top
    <2>8. ThreadsOK'
      BY TypeParts, <1>14, <2>1, <2>2, <2>3 DEF Top, hookVars, callVars, ThreadsOK
    <2>9. SearchOK'
      BY TypeParts, <1>14, <2>1, <2>2, <2>3 DEF Top, hookVars, callVars, SearchOK
    <2> QED
      BY <2>8, <2>9 DEF TypeOK, ThreadsOK, SearchOK, Locals
  <1>15. ASSUME Sleep PROVE TypeOK'
    <2>1. local' \in Locals
      BY <1>15, AdjustedType DEF Sleep, Locals
    <2>2. aborted' \in BOOLEAN
      BY <1>15, Flags DEF Sleep
    <2>3. place' \in {"sleep", "queue", "exit"}
      BY <1>15 DEF Sleep
    <2>4. UNCHANGED <<mode, challenge, abort, ws, caller, arg, finder, slot, ready, throttle, failed>>
      BY <1>15 DEF Sleep, callVars
    <2>8. ThreadsOK'
      BY TypeParts, <2>2, <2>3, <2>4 DEF ThreadsOK
    <2>9. SearchOK'
      BY TypeParts, <1>15, <2>1, <2>2, <2>3 DEF Sleep, callVars, clVars, SearchOK
    <2> QED
      BY <2>8, <2>9 DEF TypeOK, ThreadsOK, SearchOK, Locals
  <1>16. ASSUME Queue PROVE TypeOK'
    <2> DEFINE b == [challenge |-> local.challenge, buf |-> buf]
    <2>1. pending' \in Seq(Batches) /\ Len(pending') <= 2
      <3>1. CASE Len(pending) < local.count
        <4>1. pending' = Append(pending, b)
          BY <1>16, <3>1 DEF Queue, QueueThen
        <4>2. b \in Batches
          BY LocalType, PendingType DEF Batches, Buffers
        <4>3. Len(pending) + 1 <= 2
          BY <3>1, LocalType, PendingType DEF Size
        <4> HIDE DEF b
        <4> QED
          BY <4>1, <4>2, <4>3, PendingType, AppendFacts
      <3>2. CASE ~(Len(pending) < local.count)
        <4>1. pending' = pending
          BY <1>16, <3>2 DEF Queue, clVars
        <4> QED
          BY <4>1 DEF TypeOK
      <3> QED
        BY <3>1, <3>2
    <2>2. buf' \in Buffers
      <3>1. buf' = buf \/ buf' = (buf + 1) % local.count
        BY <1>16 DEF Queue, QueueThen, clVars
      <3> QED
        BY <3>1, LocalType, PendingType DEF Buffers
    <2>3. hits' \in [Buffers -> SUBSET {"fresh", "stale"}]
      <3>1. hits \in [Buffers -> SUBSET {"fresh", "stale"}]
        BY DEF TypeOK
      <3> DEFINE Hits(hit) == hit \cup (IF hits[buf] = {} THEN {} ELSE {"stale"})
      <3>2. \A hit \in SUBSET {"fresh"} : Hits(hit) \in SUBSET {"fresh", "stale"}
        OBVIOUS
      <3>3. \/ \E hit \in SUBSET {"fresh"} : hits' = [hits EXCEPT ![buf] = Hits(hit)]
            \/ hits' = hits
        BY <1>16 DEF Queue, QueueThen, clVars
      <3> HIDE DEF Hits
      <3>4. ASSUME NEW hit \in SUBSET {"fresh"}, hits' = [hits EXCEPT ![buf] = Hits(hit)]
            PROVE hits' \in [Buffers -> SUBSET {"fresh", "stale"}]
        BY <3>1, <3>2, <3>4
      <3> QED
        BY <3>1, <3>3, <3>4
    <2>8. ThreadsOK'
      BY TypeParts, <1>16, <2>1, <2>2, <2>3
      DEF Queue, QueueRest, hookVars, callVars, clVars, ThreadsOK
    <2>9. SearchOK'
      BY TypeParts, <1>16, <2>1, <2>2, <2>3
      DEF Queue, QueueRest, hookVars, callVars, clVars, SearchOK
    <2> QED
      BY <2>8, <2>9 DEF TypeOK, ThreadsOK, SearchOK, Locals
  <1>17. ASSUME Read PROVE TypeOK'
    <2>1. /\ pending' \in Seq(Batches) /\ Len(pending') <= 2
          /\ local' \in Locals
      <3>1. CASE Len(pending) = local.count
        <4>1. Len(pending) # 0
          BY <3>1, LocalType
        <4>2. Tail(pending) \in Seq(Batches) /\ Head(pending) \in Batches /\ Len(Tail(pending)) = Len(pending) - 1
          BY <4>1, PendingType, TailFacts
        <4>3. Len(pending) - 1 <= 2
          BY PendingType DEF Size
        <4>4. pending' = Tail(pending)
          BY <1>17, <3>1 DEF Read
        <4>5. local' = local \/ local' = [local EXCEPT !.batch = Head(pending)]
          BY <1>17, <3>1 DEF Read
        <4>6. local' \in Locals
          BY <4>2, <4>5, LocalType DEF Locals
        <4> QED
          BY <4>2, <4>3, <4>4, <4>6
      <3>2. CASE Len(pending) # local.count
        <4>1. UNCHANGED <<pending, local>>
          BY <1>17, <3>2 DEF Read
        <4> QED
          BY <4>1 DEF TypeOK, Locals
      <3> QED
        BY <3>1, <3>2
    <2>2. place' \in {"found", "searched", "top"}
      BY <1>17 DEF Read
    <2>8. ThreadsOK'
      BY TypeParts, <1>17, <2>1, <2>2 DEF Read, hookVars, callVars, ThreadsOK
    <2>9. SearchOK'
      BY TypeParts, <1>17, <2>1, <2>2 DEF Read, hookVars, callVars, SearchOK
    <2> QED
      BY <2>8, <2>9 DEF TypeOK, ThreadsOK, SearchOK, Locals
  <1>18. ASSUME Found PROVE TypeOK'
    <2>1. local' \in Locals
      <3>1. local' = [local EXCEPT !.batch = NoBatch]
        BY <1>18 DEF Found
      <3>2. NoBatch \in Batches
        BY DEF NoBatch, Batches, Buffers
      <3> QED
        BY <3>1, <3>2, LocalType DEF Locals
    <2>2. hits' \in [Buffers -> SUBSET {"fresh", "stale"}]
      BY <1>18 DEF Found, TypeOK
    <2>3. place' \in {"submit", "exit", "searched"}
      BY <1>18 DEF Found
    <2>8. ThreadsOK'
      BY TypeParts, <1>18, <2>1, <2>2, <2>3 DEF Found, hookVars, callVars, ThreadsOK
    <2>9. SearchOK'
      BY TypeParts, <1>18, <2>1, <2>2, <2>3 DEF Found, hookVars, callVars, SearchOK
    <2> QED
      BY <2>8, <2>9 DEF TypeOK, ThreadsOK, SearchOK, Locals
  <1>19. ASSUME Searched PROVE TypeOK'
    <2>1. aborted' \in BOOLEAN
      BY <1>19, Flags DEF Searched, shouldStop
    <2>8. ThreadsOK'
      BY TypeParts, <1>19, <2>1 DEF Searched, callVars, clVars, searchVars, ThreadsOK
    <2>9. SearchOK'
      BY TypeParts, <1>19, <2>1 DEF Searched, callVars, clVars, searchVars, SearchOK
    <2> QED
      BY <2>8, <2>9 DEF TypeOK, ThreadsOK, SearchOK, Locals
  <1>20. ASSUME SearchFails PROVE TypeOK'
    <2>1. pending' \in Seq(Batches) /\ Len(pending') <= 2
      <3>1. CASE pending' = pending
        BY <3>1 DEF TypeOK
      <3>2. CASE place = "queue" /\ pending' # pending
        <4>1. pending' = Append(pending, [challenge |-> local.challenge, buf |-> buf])
          BY <1>20, <3>2 DEF SearchFails, QueueThen, clVars
        <4>2. [challenge |-> local.challenge, buf |-> buf] \in Batches
          BY LocalType, PendingType DEF Batches, Buffers
        <4>3. Len(pending) < local.count
          BY <1>20, <3>2 DEF SearchFails
        <4>4. Len(pending) + 1 <= 2
          BY <4>3, LocalType, PendingType DEF Size
        <4> QED
          BY <4>1, <4>2, <4>4, PendingType, AppendFacts
      <3>3. CASE place = "read" /\ pending' # pending
        <4>1. pending' = Tail(pending) /\ Len(pending) # 0
          BY <1>20, <3>3, LocalType DEF SearchFails
        <4>2. Len(Tail(pending)) = Len(pending) - 1 /\ Tail(pending) \in Seq(Batches)
          BY <4>1, PendingType, TailFacts
        <4>3. Len(pending) - 1 <= 2
          BY PendingType DEF Size
        <4> QED
          BY <4>1, <4>2, <4>3
      <3>4. CASE place = "found"
        BY <1>20, <3>1, <3>4 DEF SearchFails, clVars
      <3> QED
        BY <1>20, <3>1, <3>2, <3>3, <3>4 DEF SearchFails
    <2>2. buf' \in Buffers
      BY <1>20 DEF SearchFails, QueueThen, clVars, TypeOK
    <2>3. hits' \in [Buffers -> SUBSET {"fresh", "stale"}]
      <3>1. hits \in [Buffers -> SUBSET {"fresh", "stale"}]
        BY DEF TypeOK
      <3> DEFINE Hits(hit) == hit \cup (IF hits[buf] = {} THEN {} ELSE {"stale"})
      <3>2. \A hit \in SUBSET {"fresh"} : Hits(hit) \in SUBSET {"fresh", "stale"}
        OBVIOUS
      <3>3. \/ \E hit \in SUBSET {"fresh"} : hits' = [hits EXCEPT ![buf] = Hits(hit)]
            \/ hits' = hits
        BY <1>20 DEF SearchFails, QueueThen, clVars
      <3> HIDE DEF Hits
      <3>4. ASSUME NEW hit \in SUBSET {"fresh"}, hits' = [hits EXCEPT ![buf] = Hits(hit)]
            PROVE hits' \in [Buffers -> SUBSET {"fresh", "stale"}]
        BY <3>1, <3>2, <3>4
      <3> QED
        BY <3>1, <3>3, <3>4
    <2>8. ThreadsOK'
      BY TypeParts, <1>20 DEF SearchFails, hookVars, callVars, ThreadsOK
    <2>9. SearchOK'
      BY TypeParts, <1>20, <2>1, <2>2, <2>3 DEF SearchFails, SearchOK
    <2> QED
      BY <2>8, <2>9 DEF TypeOK, ThreadsOK, SearchOK, Locals
  <1>21. ASSUME ExitRun PROVE TypeOK'
    <2>1. local' \in Locals
      BY <1>21, ThrottleAssumption DEF ExitRun, NoLocals, NoBatch, Locals, Batches, Buffers
    <2>8. ThreadsOK'
      BY TypeParts, <1>21, <2>1 DEF ExitRun, hookVars, callVars, clVars, ThreadsOK
    <2>9. SearchOK'
      BY TypeParts, <1>21, <2>1 DEF ExitRun, hookVars, callVars, clVars, SearchOK
    <2> QED
      BY <2>8, <2>9 DEF TypeOK, ThreadsOK, SearchOK, Locals
  <1>22. ASSUME TakeSolution PROVE TypeOK'
    <2>1. slot' \in BOOLEAN
      BY <1>22 DEF TakeSolution
    <2>2. UNCHANGED <<mode, challenge, hookVars, ws, callVars, place, ready, throttle, failed>>
      BY <1>22 DEF TakeSolution, searchVars
    <2>8. ThreadsOK'
      BY TypeParts, <2>1, <2>2 DEF ThreadsOK, hookVars, callVars
    <2>9. SearchOK'
      BY TypeParts, <1>22 DEF TakeSolution, hookVars, callVars, clVars, searchVars, SearchOK
    <2> QED
      BY <2>8, <2>9 DEF TypeOK, ThreadsOK, SearchOK, Locals
  <1>23. ASSUME Submit PROVE TypeOK'
    <2>1. place' \in {"exit", "searched", "clearOwn", "lockWork"}
      BY <1>23 DEF Submit
    <2>8. ThreadsOK'
      BY TypeParts, <1>23, <2>1 DEF Submit, hookVars, callVars, clVars, searchVars, ThreadsOK
    <2>9. SearchOK'
      BY TypeParts, <1>23 DEF Submit, hookVars, callVars, clVars, searchVars, SearchOK
    <2> QED
      BY <2>8, <2>9 DEF TypeOK, ThreadsOK, SearchOK, Locals
  <1>24. ASSUME LockWork PROVE TypeOK'
    <2>8. ThreadsOK'
      BY TypeParts, <1>24 DEF LockWork, hookVars, callVars, clVars, searchVars, ThreadsOK
    <2>9. SearchOK'
      BY TypeParts, <1>24 DEF LockWork, hookVars, callVars, clVars, searchVars, SearchOK
    <2> QED
      BY <2>8, <2>9 DEF TypeOK, ThreadsOK, SearchOK, Locals
  <1>25. ASSUME ClearOwn PROVE TypeOK'
    <2>8. ThreadsOK'
      BY TypeParts, <1>25 DEF ClearOwn, hookVars, callVars, clVars, searchVars, ThreadsOK
    <2>9. SearchOK'
      BY TypeParts, <1>25 DEF ClearOwn, hookVars, callVars, clVars, searchVars, SearchOK
    <2> QED
      BY <2>8, <2>9 DEF TypeOK, ThreadsOK, SearchOK, Locals
  <1>26. ASSUME Answer PROVE TypeOK'
    <2>8. ThreadsOK'
      BY TypeParts, <1>26 DEF Answer, AnswerThen, hookVars, callVars, clVars, searchVars, ThreadsOK
    <2>9. SearchOK'
      BY TypeParts, <1>26 DEF Answer, AnswerThen, hookVars, callVars, clVars, searchVars, SearchOK
    <2> QED
      BY <2>8, <2>9 DEF TypeOK, ThreadsOK, SearchOK, Locals
  <1> QED
    BY <1>1, <1>2, <1>3, <1>4, <1>5, <1>6, <1>7, <1>8, <1>9, <1>10, <1>11, <1>12,
       <1>13, <1>14, <1>15, <1>16, <1>17, <1>18, <1>19, <1>20, <1>21, <1>22,
       <1>23, <1>24, <1>25, <1>26
    DEF Next, Farm, Worker

-----------------------------------------------------------------------------
\* Only a solo farm lets a proof end the run.
LEMMA LocksStep ==
    ASSUME Locks, Next
    PROVE Locks'
  <1>1. mode' = mode
    BY DEF Next, Farm, Worker, SetWork, Called, OtherFinds, OtherPauses, TakeSolution, Abort,
       WaitAborted, Stop, Await, Reset, Start, SetThrottle, InitMiner, InitFails, EnterSearch,
       Top, Sleep, Queue, QueueRest, Read, Found, Submit, LockWork, ClearOwn, Answer, AnswerThen,
       Searched, SearchFails, ExitRun
  <1>2. ASSUME mode = "Pool" PROVE finder' = "none"
    BY <1>2 DEF Locks, Next, Farm, Worker, SetWork, OtherFinds, OtherPauses, TakeSolution, Abort,
       WaitAborted, Stop, Await, Reset, Start, SetThrottle, InitMiner, InitFails, EnterSearch,
       Top, Sleep, Queue, QueueRest, Read, Found, Submit, LockWork, ClearOwn, Answer, AnswerThen,
       Searched, SearchFails, ExitRun, callVars
  <1>3. ASSUME mode = "Pool", Worker PROVE place' \notin Proof
    BY <1>3 DEF Locks, Proof, Worker, InitMiner, InitFails, EnterSearch,
       Top, Sleep, Queue, QueueRest, Read, Found, Submit, LockWork, ClearOwn, Answer, AnswerThen,
       Searched, SearchFails, ExitRun
  <1>4. ASSUME mode = "Pool", ~Worker PROVE place' \notin Proof
    BY <1>4 DEF Locks, Proof, Next, Farm, SetWork, Called, OtherFinds, OtherPauses, TakeSolution,
       Abort, WaitAborted, Stop, Await, Reset, Start, SetThrottle
  <1> QED
    BY <1>1, <1>2, <1>3, <1>4 DEF Locks

LEMMA InitInv == Init => IInv
  <1> SUFFICES ASSUME Init PROVE IInv
    OBVIOUS
  <1>1. /\ local \in Locals /\ hits \in [Buffers -> SUBSET {"fresh", "stale"}]
        /\ throttle \in Throttles
    BY ThrottleAssumption DEF Init, NoLocals, NoBatch, Locals, Batches, Buffers
  <1>2. pending \in Seq(Batches) /\ Size = 0
    BY DEF Init, Size
  <1>3. Len(pending) <= 2
    BY <1>2 DEF Size
  <1>4. TypeOK
    BY <1>1, <1>2, <1>3 DEF Init, TypeOK, Locals, Buffers
  <1>5. Handshake /\ Search /\ Locks
    BY DEF Init, Handshake, Search, Past, Locks, Proof
  <1>6. Pending
    BY <1>2 DEF Init, Pending, Fits, Apart
  <1> QED
    BY <1>4, <1>5, <1>6 DEF IInv

LEMMA NextInv == IInv /\ [Next]_vars => IInv'
  <1> SUFFICES ASSUME IInv, [Next]_vars PROVE IInv'
    OBVIOUS
  <1>1. CASE Next
    BY <1>1, TypeStep, HandshakeStep, SearchStep, PendingStep, LocksStep DEF IInv
  <1>2. CASE UNCHANGED vars
    BY <1>2 DEF vars, IInv, TypeOK, Handshake, Search, Pending, Fits, Apart, Size, Locks,
       Proof
  <1> QED
    BY <1>1, <1>2

THEOREM Invariance == Spec => []IInv
  <1> QED
    BY InitInv, NextInv, PTL DEF Spec

(* Type correctness; m_pending never holds more than c_bufferCount batches  *)
(* (ethash_cl_miner.cpp:825-842).                                           *)
THEOREM TypeCorrect == Spec => []TypeOK
  <1>1. IInv => TypeOK
    BY DEF IInv
  <1> QED
    BY <1>1, Invariance, PTL

(* The farm's thread is not left waiting for the hook's answer, unless an   *)
(* OpenCL call has failed (EthashGPUMiner.cpp:55-72).                       *)
THEOREM AnswersAbort == Spec => []AbortIsAnsweredUnlessFailed
  <1>1. IInv => AbortIsAnsweredUnlessFailed
    BY DEF IInv, Handshake, Past, AbortIsAnsweredUnlessFailed, AbortIsAnswered
  <1> QED
    BY <1>1, Invariance, PTL

(* search never has more batches pending than it is willing to read, however *)
(* the throttle and with it the number of buffers changes                   *)
(* (ethash_cl_miner.cpp:764-800, 825-866).                                  *)
THEOREM ReadsWhatItQueues == Spec => []PendingFits
  <1>1. IInv => PendingFits
    <2> SUFFICES ASSUME IInv, place \in {"queue", "read"} PROVE Size <= local.count
      BY DEF PendingFits, Size
    <2>1. CASE place = "read"
      BY <2>1 DEF IInv, Pending
    <2>2. CASE place = "queue"
      <3>1. Size \in 0 .. 1
        BY <2>2 DEF IInv, Pending, Past, Fits
      <3>2. local.count \in 1 .. 2
        BY LocalType DEF IInv
      <3> QED
        BY <3>1, <3>2
    <2> QED
      BY <2>1, <2>2
  <1> QED
    BY <1>1, Invariance, PTL

(* A kernel is never queued on a result buffer that another pending batch   *)
(* is to be read from (ethash_cl_miner.cpp:825-866).                        *)
THEOREM BuffersStayApart == Spec => []BuffersApart
  <1>1. IInv => BuffersApart
    <2> SUFFICES ASSUME IInv PROVE BuffersApart
      OBVIOUS
    <2>1. Size \in Nat /\ Size <= 2 /\ Apart /\ Size = Len(pending)
      BY PendingType DEF IInv, Pending, Size
    <2>2. ASSUME NEW i \in 1 .. Len(pending), NEW j \in 1 .. Len(pending), i # j
          PROVE pending[i].buf # pending[j].buf
      <3>1. i \in 1 .. Size /\ j \in 1 .. Size
        BY DEF Size
      <3> HIDE DEF Size
      <3>2. Size = 2 /\ ((i = 1 /\ j = 2) \/ (i = 2 /\ j = 1))
        BY <2>1, <2>2, <3>1
      <3> QED
        BY <2>1, <3>2 DEF Apart
    <2>3. ASSUME place = "queue", NEW i \in 1 .. Len(pending) PROVE pending[i].buf # buf
      <3>1. i \in 1 .. Size
        BY DEF Size
      <3>2. Size \in 0 .. 1 /\ (Size = 1 => pending[1].buf # buf)
        BY <2>3 DEF IInv, Pending, Past, Fits
      <3> QED
        BY <3>1, <3>2
    <2> QED
      BY <2>2, <2>3 DEF BuffersApart
  <1> QED
    BY <1>1, Invariance, PTL

(* A miner that setWork has come back from searches for the challenge it    *)
(* was given (EthashGPUMiner.cpp:160-196).                                  *)
THEOREM SearchesWhatItIsGiven == Spec => []SearchesItsChallenge
  <1>1. IInv => SearchesItsChallenge
    <2> SUFFICES ASSUME IInv, caller = "idle", challenge # Empty, ~failed
                 PROVE /\ ws = "Started" /\ place \notin Past /\ ~abort
                       /\ place \in {"init", "enter"} \/ local.challenge = challenge
      BY DEF SearchesItsChallenge, Past
    <2>1. ~aborted /\ place \notin Past /\ ~abort
      BY DEF IInv, Handshake, Search, Past
    <2>2. ws = "Started"
      BY <2>1, InSearch DEF IInv
    <2> QED
      BY <2>1, <2>2 DEF IInv, Search
  <1> QED
    BY <1>1, Invariance, PTL
-----------------------------------------------------------------------------
(* Whoever pauses the miner is served: PauseReturns without time            *)

\* How many steps of the mining thread it takes until search asks the hook or
\* tells it something, if no OpenCL call fails and whatever the throttle is
\* set to: at most two kernels are queued before one is read, and what is read
\* may have to be handed in.
HookIn == IF place \in {"sleep", "searched", "answer"} THEN 1
          ELSE IF place = "clearOwn" THEN 2
          ELSE IF place = "lockWork" THEN 3
          ELSE IF place = "submit" THEN 4
          ELSE IF place = "found" THEN 5
          ELSE IF place = "read" THEN (IF Size = local.count THEN 6 ELSE 9)
          ELSE IF place = "queue" THEN (IF Size = 0 /\ local.count = 2 THEN 10 ELSE 7)
          ELSE IF place = "top" THEN (IF Size = 0 THEN 11 ELSE 8)
          ELSE IF place = "enter" THEN 12 ELSE 13

\* The same until abort() has its answer, and stopWorking its worker.
PauseIn == IF caller = "waitAborted" THEN (IF aborted THEN 0 ELSE HookIn)
           ELSE IF place = "off" THEN 0 ELSE 1

Waiting == caller \in {"waitAborted", "await"} /\ ~failed

\* The mining thread waits for no lock: what the guards of Submit and LockWork
\* ask for is there.
Runs == /\ place # "off"
        /\ place = "submit" => finder = "none"
        /\ place = "lockWork" => caller = "idle"

\* Who waits can go on, or the mining thread can take a step towards it; only
\* in solo mode, and only in handing in a proof, may it have to wait itself.
IsServed == Waiting => IF PauseIn = 0
                         THEN aborted /\ (caller = "await" => ws = "Stopped")
                         ELSE \/ Runs
                              \/ mode = "Solo" /\ place \in {"submit", "lockWork"}

\* No step takes the waiting thread further away from going on, and every
\* step of the mining thread brings it closer.
ComesCloser == [][Waiting /\ Waiting' /\ caller' = caller =>
                     /\ PauseIn' <= PauseIn
                     /\ Worker /\ PauseIn # 0 => PauseIn' < PauseIn]_vars

\* What the flags and the queue are while somebody waits.
Asked == /\ caller = "waitAborted" => abort
         /\ place = "read" => Size # 0

LEMMA AskedStep == IInv /\ Asked /\ [Next]_vars => Asked'
  <1> SUFFICES ASSUME IInv, Asked, [Next]_vars PROVE Asked'
    OBVIOUS
  <1>1. caller' = "waitAborted" => abort'
    BY Flags DEF IInv, Asked, Next, Farm, Worker, SetWork, Called, OtherFinds, OtherPauses, TakeSolution, Abort,
       WaitAborted, Stop, Await, Reset, Start, SetThrottle, InitMiner, InitFails, EnterSearch, Top,
       Sleep, Queue, QueueRest, Read, Found, Submit, LockWork, ClearOwn, Answer, AnswerThen,
       Searched, SearchFails, ExitRun, vars, hookVars, callVars
  <1>2. CASE Queue
    <2>1. Size \in 0 .. 1 /\ local.count \in 1 .. 2 /\ pending \in Seq(Batches)
      BY <1>2, LocalType, PendingType DEF Queue, IInv, Pending, Past, Fits
    <2>2. [challenge |-> local.challenge, buf |-> buf] \in Batches
      BY LocalType, PendingType DEF IInv, Batches, Buffers
    <2>3. Size' # 0
      <3>1. CASE Size < local.count
        <4>1. pending' = Append(pending, [challenge |-> local.challenge, buf |-> buf])
          BY <1>2, <3>1 DEF Queue, QueueThen, Size
        <4> QED
          BY <2>1, <2>2, <4>1, AppendFacts DEF Size
      <3>2. CASE ~(Size < local.count)
        <4>1. Size' = Size
          BY <1>2, <3>2 DEF Queue, clVars, Size
        <4> QED
          BY <2>1, <3>2, <4>1
      <3> QED
        BY <3>1, <3>2
    <2> QED
      BY <1>1, <2>3 DEF Asked
  <1>3. CASE ~Queue
    <2>1. place' = "read" => place = "read" /\ pending' = pending
      BY <1>3 DEF Next, Farm, Worker, SetWork, Called, OtherFinds, OtherPauses, TakeSolution,
         Abort, WaitAborted, Stop, Await, Reset, Start, SetThrottle, InitMiner, InitFails,
         EnterSearch, Top, Sleep, Read, Found, Submit, LockWork, ClearOwn, Answer, AnswerThen,
         Searched, SearchFails, ExitRun, vars, clVars, searchVars
    <2> QED
      BY <1>1, <2>1 DEF Asked, Size
  <1> QED
    BY <1>2, <1>3

LEMMA AskedInvariant == Spec => []Asked
  <1>1. Init => Asked
    BY DEF Init, Asked
  <1> QED
    BY <1>1, AskedStep, Invariance, PTL DEF Spec

\* A step of the search brings the hook's turn closer, or is the answer.
LEMMA SearchAnswers ==
    ASSUME IInv, Asked, caller = "waitAborted", ~aborted, ~failed', Worker
    PROVE  aborted' \/ HookIn' < HookIn
  <1>0. /\ abort = TRUE /\ aborted = FALSE /\ (place \notin Past \/ failed)
        /\ failed = FALSE \/ failed' = TRUE
    <2>1. caller # "start"
      OBVIOUS
    <2>2. abort /\ (place \notin Past \/ failed)
      BY <2>1 DEF IInv, Asked, Handshake
    <2>3. abort \in BOOLEAN /\ aborted \in BOOLEAN /\ failed \in BOOLEAN
      BY DEF IInv, TypeOK
    <2>4. failed => failed'
      BY DEF Worker, InitMiner, InitFails, EnterSearch, Top, Sleep, Queue, QueueRest, Read, Found,
         Submit, LockWork, ClearOwn, Answer, AnswerThen, Searched, SearchFails, ExitRun,
         searchVars
    <2> QED
      BY <2>2, <2>3, <2>4
  <1>1. place \notin Past /\ ~shouldStop /\ abort
    BY <1>0, InSearch DEF IInv
  <1>2. /\ local.count \in 1 .. 2 /\ pending \in Seq(Batches) /\ Size \in 0 .. 2
        /\ (place = "read" => Size # 0 /\ Size <= local.count)
        /\ (place \in {"top", "queue"} => Size \in 0 .. 1)
    <2>1. Size \in Nat /\ Size <= 2 /\ pending \in Seq(Batches)
      BY PendingType DEF IInv, Size
    <2>2. place \in {"top", "queue"} => Size \in 0 .. 1
      BY DEF IInv, Pending, Past, Fits
    <2> QED
      BY <2>1, <2>2, LocalType DEF IInv, Pending, Asked
  <1>3. CASE InitMiner \/ EnterSearch
    BY <1>2, <1>3 DEF InitMiner, EnterSearch, HookIn, clVars, searchVars, Size
  <1>4. CASE Top
    <2>1. CASE place' = "sleep"
      BY <1>4, <1>2, <2>1 DEF Top, HookIn
    <2>2. CASE place' # "sleep"
      <3>0. throttle # 100
        BY <1>4, <2>2 DEF Top
      <3>1. place = "top" /\ place' = "queue"
        BY <1>4, <2>2 DEF Top
      <3>2. Size' = Size
        BY <1>4, <3>0 DEF Top, Size
      <3> QED
        BY <1>2, <3>1, <3>2 DEF HookIn
    <2> QED
      BY <2>1, <2>2
  <1>5. CASE Sleep
    BY <1>1, <1>5 DEF Sleep
  <1>6. CASE Queue
    <2> DEFINE n == local.count
               b == [challenge |-> local.challenge, buf |-> buf]
    <2>0. b \in Batches
      BY LocalType, PendingType DEF IInv, Batches, Buffers
    <2>1. place = "queue" /\ place' = "read" /\ local' = local
      BY <1>6 DEF Queue, QueueRest
    <2>2. Size' = IF Size < n THEN Size + 1 ELSE Size
      <3>1. CASE Size < n
        <4>1. pending' = Append(pending, b)
          BY <1>6, <3>1 DEF Queue, QueueThen, Size
        <4> HIDE DEF b
        <4> QED
          BY <1>2, <2>0, <3>1, <4>1, AppendFacts DEF Size
      <3>2. CASE ~(Size < n)
        BY <1>6, <3>2 DEF Queue, clVars, Size
      <3> QED
        BY <3>1, <3>2
    <2>3. /\ HookIn = IF Size = 0 /\ n = 2 THEN 10 ELSE 7
          /\ HookIn' = IF Size' = n THEN 6 ELSE 9
      BY <2>1 DEF HookIn
    <2>4. Size \in 0 .. 1 /\ n \in 1 .. 2
      BY <1>2, <2>1
    <2> HIDE DEF n, b
    <2> QED
      BY <2>2, <2>3, <2>4
  <1>7. CASE Read
    <2>1. CASE Size = local.count
      BY <1>7, <2>1 DEF Read, Size, HookIn
    <2>2. CASE Size # local.count
      <3>1. place = "read" /\ place' = "top" /\ Size' = Size
        BY <1>7, <2>2 DEF Read, Size
      <3>2. HookIn = 9 /\ HookIn' = 8
        BY <1>2, <2>2, <3>1 DEF HookIn
      <3> QED
        BY <3>2
    <2> QED
      BY <2>1, <2>2
  <1>8. CASE Found \/ Submit \/ LockWork \/ ClearOwn
    <2>1. CASE Found
      BY <1>1, <2>1 DEF Found, HookIn
    <2>2. CASE Submit
      BY <1>1, <2>2 DEF Submit, HookIn
    <2>3. CASE LockWork
      BY <2>3 DEF LockWork, HookIn
    <2>4. CASE ClearOwn
      BY <2>4 DEF ClearOwn, HookIn
    <2> QED
      BY <1>8, <2>1, <2>2, <2>3, <2>4
  <1>9. CASE Searched \/ Answer
    BY <1>1, <1>9 DEF Searched, Answer
  <1>10. CASE InitFails \/ SearchFails \/ ExitRun
    BY <1>1, <1>10 DEF InitFails, SearchFails, ExitRun, Past
  <1> QED
    BY <1>3, <1>4, <1>5, <1>6, <1>7, <1>8, <1>9, <1>10 DEF Worker

LEMMA PauseType ==
    ASSUME TypeOK
    PROVE  HookIn \in 1 .. 13 /\ PauseIn \in 0 .. 13
  BY DEF HookIn, PauseIn

(* A pause waits for at most 13 steps of the mining thread, at any throttle *)
(* and wherever the search is, and no step of another thread adds to them   *)
(* (EthashGPUMiner.cpp:64-68, 208-213; ethash_cl_miner.cpp:772-889).  In    *)
(* pool mode none of these steps waits for a lock of the farm; in solo mode *)
(* those that hand in a proof may (Farm.h:621, 631), and only those.        *)
THEOREM PausesAreServed == Spec => []IsServed /\ ComesCloser
  <1>1. IInv => IsServed
    <2> SUFFICES ASSUME IInv, Waiting
                 PROVE  IF PauseIn = 0
                          THEN aborted /\ (caller = "await" => ws = "Stopped")
                          ELSE \/ Runs
                               \/ mode = "Solo" /\ place \in {"submit", "lockWork"}
      BY DEF IsServed
    <2>0. mode = "Pool" \/ mode = "Solo"
      BY DEF IInv, TypeOK
    <2>3. place # "off" => Runs \/ (mode = "Solo" /\ place \in {"submit", "lockWork"})
      BY <2>0 DEF IInv, Locks, Proof, Runs
    <2>1. CASE caller = "waitAborted"
      BY <2>1, <2>3, PauseType DEF IInv, Handshake, Past, Waiting, PauseIn
    <2>2. CASE caller = "await"
      BY <2>2, <2>3 DEF IInv, Handshake, PauseIn
    <2> QED
      BY <2>1, <2>2 DEF Waiting
  <1>2. ASSUME IInv, IInv', Asked, [Next]_vars
        PROVE  [Waiting /\ Waiting' /\ caller' = caller =>
                   /\ PauseIn' <= PauseIn
                   /\ Worker /\ PauseIn # 0 => PauseIn' < PauseIn]_vars
    <2> SUFFICES ASSUME Next, Waiting, Waiting', caller' = caller
                 PROVE  /\ PauseIn' <= PauseIn
                        /\ Worker /\ PauseIn # 0 => PauseIn' < PauseIn
      BY <1>2
    <2>0. /\ PauseIn \in 0 .. 13 /\ PauseIn' \in 0 .. 13
          /\ HookIn \in 1 .. 13 /\ HookIn' \in 1 .. 13
      BY <1>2, PauseType DEF IInv, HookIn, PauseIn
    <2>1. CASE Worker /\ caller = "waitAborted" /\ ~aborted
      <3>1. aborted' \/ HookIn' < HookIn
        BY <1>2, <2>1, SearchAnswers DEF Waiting
      <3>2. PauseIn = HookIn /\ PauseIn' = IF aborted' THEN 0 ELSE HookIn'
        BY <2>1 DEF PauseIn
      <3> QED
        BY <2>0, <3>1, <3>2
    <2>2. CASE Worker /\ caller = "waitAborted" /\ aborted
      <3>1. place \in Past
        BY <1>2, <2>2 DEF IInv, Handshake
      <3>2. aborted' = aborted
        BY <2>2, <3>1 DEF Past, Worker, InitMiner, InitFails, EnterSearch, Top, Sleep, Queue, Read, Found, Submit,
           LockWork, ClearOwn, Answer, AnswerThen, Searched, SearchFails, ExitRun, hookVars
      <3> QED
        BY <2>2, <3>2 DEF PauseIn
    <2>3. CASE Worker /\ caller = "await"
      <3>1. place \in Past
        BY <1>2, <2>3 DEF IInv, Handshake
      <3>2. place = "exit" /\ place' = "off"
        BY <2>3, <3>1 DEF Past, Worker, InitMiner, InitFails, EnterSearch, Top, Sleep, Queue, Read, Found, Submit,
           LockWork, ClearOwn, Answer, AnswerThen, Searched, SearchFails, ExitRun
      <3> QED
        BY <2>3, <3>2 DEF PauseIn
    <2>4. CASE ~Worker
      <3>1. UNCHANGED <<place, aborted, local, pending>>
        BY <2>4 DEF Next, Farm, SetWork, Called, OtherFinds, OtherPauses, TakeSolution, Abort,
           WaitAborted, Stop, Await, Reset, Start, SetThrottle, Waiting, vars, hookVars, clVars,
           searchVars
      <3> QED
        BY <2>0, <2>4, <3>1 DEF PauseIn, HookIn, Size
    <2> QED
      BY <2>1, <2>2, <2>3, <2>4 DEF Waiting
  <1> QED
    BY <1>1, <1>2, Invariance, AskedInvariant, PTL DEF Spec, ComesCloser
=============================================================================
