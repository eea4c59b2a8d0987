---------------------------- MODULE StratumProofs ----------------------------
(***************************************************************************)
(* Proofs about module Stratum for any works, limits and numbers of timers. *)
(*                                                                          *)
(* Why a running client is never left without anything that brings it back: *)
(* a thread arms its timer before it clears m_connected (so a read that     *)
(* fails then, and is not followed by another, leaves a timer behind), and  *)
(* whoever is connected keeps a read outstanding or is about to start one.  *)
(***************************************************************************)
EXTENDS Stratum, Integers, TLAPS

Handlers == {"timer", "failed"}
HasTimer(q) == \E i \in 1 .. Len(q) : q[i] = "timer"
Armed == \E t \in Threads : timers[t] > 0
TimerReady == Armed \/ HasTimer(queue)
SomethingPending == reading \/ queue # <<>> \/ Armed

\* Places from which a thread connects, or arms a timer, or gives up.
Reconnecting == {"connect", "established", "count", "store", "limit", "arm"}

\* The constructor runs before the io thread does.
MainFirst == /\ pc["main"] \in {"connect", "established", "subscribe", "listen", "launch"} =>
                    pc["io"] = "off"
             /\ then["main"] \in {"launch", "listen"} => pc["io"] = "off"

\* A timer that was armed does not expire before reconnect is over.
TimerHeld == \A t \in Threads : pc[t] \in {"drop", "close"} => timers[t] > 0

\* A client that is not connected has a timer, or is at it.
WillConnect == running /\ ~connected =>
    TimerReady \/ pc["io"] \in Reconnecting \/ (pc["io"] = "off" /\ pc["main"] \in Reconnecting)

\* AlwaysPending, and the same for the moment the io thread is launched.
Waiting == running /\ (pc["io"] = "idle" \/ (pc["io"] = "off" /\ pc["main"] = "launch")) =>
               SomethingPending

IInv == TypeOK /\ MainFirst /\ TimerHeld /\ WillConnect /\ Waiting
-----------------------------------------------------------------------------
(* The queue of the io_service *)

LEMMA AppendHandler ==
    ASSUME NEW q \in Seq(Handlers), NEW h \in Handlers
    PROVE /\ Append(q, h) \in Seq(Handlers) /\ Append(q, h) # <<>>
          /\ HasTimer(q) => HasTimer(Append(q, h))
          /\ h = "timer" => HasTimer(Append(q, h))
  <1>1. /\ Append(q, h) \in Seq(Handlers)
        /\ Len(q) \in Nat /\ Len(Append(q, h)) = Len(q) + 1
        /\ Append(q, h)[Len(q) + 1] = h
        /\ \A i \in 1 .. Len(q) : Append(q, h)[i] = q[i]
    OBVIOUS
  <1>2. Len(q) + 1 \in 1 .. Len(q) + 1 /\ 1 .. Len(q) \subseteq 1 .. Len(q) + 1
    BY <1>1
  <1>3. Append(q, h) # <<>>
    <2>1. ASSUME Append(q, h) = <<>> PROVE Len(Append(q, h)) = 0
      BY <2>1
    <2> QED
      BY <1>1, <2>1
  <1>4. HasTimer(q) => HasTimer(Append(q, h))
    BY <1>1, <1>2 DEF HasTimer
  <1>5. h = "timer" => HasTimer(Append(q, h))
    BY <1>1, <1>2 DEF HasTimer
  <1> QED
    BY <1>1, <1>3, <1>4, <1>5

LEMMA TailHandler ==
    ASSUME NEW q \in Seq(Handlers), q # <<>>
    PROVE /\ Tail(q) \in Seq(Handlers)
          /\ HasTimer(q) /\ Head(q) # "timer" => HasTimer(Tail(q))
  <1>1. /\ Tail(q) \in Seq(Handlers) /\ Len(q) \in Nat /\ Len(Tail(q)) = Len(q) - 1
        /\ Head(q) = q[1]
        /\ \A i \in 1 .. Len(q) - 1 : Tail(q)[i] = q[i + 1]
    OBVIOUS
  <1>2. ASSUME NEW i \in 1 .. Len(q), q[i] = "timer", Head(q) # "timer"
        PROVE HasTimer(Tail(q))
    <2>1. i # 1
      BY <1>1, <1>2
    <2>2. i - 1 \in 1 .. Len(q) - 1 /\ (i - 1) + 1 = i
      BY <1>1, <2>1
    <2>3. Tail(q)[i - 1] = "timer"
      BY <1>1, <1>2, <2>2
    <2> QED
      BY <1>1, <2>2, <2>3 DEF HasTimer
  <1> QED
    BY <1>1, <1>2 DEF HasTimer

LEMMA EmptyHasNoTimer == ~HasTimer(<<>>)
  BY DEF HasTimer

\* Steps that take nothing from the queue and leave the timers armed.
Quiet == /\ queue' \in {queue, Append(queue, "failed")}
         /\ timers' \in [Threads -> 0 .. MaxTimers]
         /\ \A t \in Threads : timers[t] > 0 => timers'[t] > 0

\* They leave a read outstanding, or its end in the queue.
KeepsRead == reading => reading' \/ queue' # <<>>

LEMMA QuietKeeps ==
    ASSUME TypeOK, Quiet
    PROVE /\ queue' \in Seq(Handlers)
          /\ queue # <<>> => queue' # <<>>
          /\ Armed => Armed'
          /\ TimerReady => TimerReady'
          /\ KeepsRead /\ SomethingPending => SomethingPending'
  <1>1. queue \in Seq(Handlers) /\ "failed" \in Handlers
    BY DEF TypeOK, Handlers
  <1>2. /\ queue' \in Seq(Handlers)
        /\ queue # <<>> => queue' # <<>>
        /\ HasTimer(queue) => HasTimer(queue')
    BY <1>1, AppendHandler DEF Quiet
  <1>3. Armed => Armed'
    BY DEF Armed, Quiet
  <1> QED
    BY <1>2, <1>3 DEF TimerReady, SomethingPending, KeepsRead

LEMMA TimersInc ==
    ASSUME TypeOK, NEW t \in Threads, timers[t] < MaxTimers
    PROVE /\ [timers EXCEPT ![t] = @ + 1] \in [Threads -> 0 .. MaxTimers]
          /\ \A u \in Threads : timers[u] > 0 => [timers EXCEPT ![t] = @ + 1][u] > 0
          /\ [timers EXCEPT ![t] = @ + 1][t] > 0
  <1> USE TimersAssumption
  <1>1. timers \in [Threads -> 0 .. MaxTimers] /\ timers[t] \in Nat
    BY DEF TypeOK
  <1>2. timers[t] + 1 \in 0 .. MaxTimers
    BY <1>1
  <1> QED
    BY <1>1, <1>2

LEMMA FailedAppended ==
    ASSUME TypeOK
    PROVE Append(queue, "failed") # <<>>
  BY AppendHandler DEF TypeOK, Handlers

Takes == \/ \E t \in Threads : Expire(t)
         \/ HandleTimer \/ HandleFailed
Receives == ReceiveAck \/ ReceiveRejection \/ \E w \in Works : ReceiveWork(w)

\* Only these three steps are not quiet.
LEMMA QuietSteps ==
    ASSUME TypeOK, [Next]_vars, ~Takes
    PROVE Quiet
  <1>1. ASSUME NEW e \in {"good", "refuses", "unresolved"}, Settle(e) PROVE Quiet
    BY <1>1 DEF Settle, ioVars, Quiet, TypeOK
  <1>2. ASSUME Lose PROVE Quiet
    BY <1>2 DEF Lose, FailRead, ioVars, Quiet, TypeOK
  <1>3. ASSUME NEW t \in Threads, Connect(t) PROVE Quiet
    BY <1>3 DEF Connect, FailRead, ioVars, Quiet, TypeOK
  <1>4. ASSUME NEW t \in Threads, ConnectRefused(t) PROVE Quiet
    BY <1>4 DEF ConnectRefused, FailRead, ioVars, Quiet, TypeOK
  <1>5. ASSUME NEW t \in Threads, ConnectThrows(t) PROVE Quiet
    BY <1>5 DEF ConnectThrows, ioVars, Quiet, TypeOK
  <1>6. ASSUME NEW t \in Threads, Established(t) PROVE Quiet
    BY <1>6 DEF Established, ioVars, Quiet, TypeOK
  <1>7. ASSUME NEW t \in Threads, Subscribe(t) PROVE Quiet
    BY <1>7 DEF Subscribe, ioVars, Quiet, TypeOK
  <1>8. ASSUME NEW t \in Threads, Listen(t) PROVE Quiet
    BY <1>8 DEF Listen, readline, ioVars, Quiet, TypeOK
  <1>9. ASSUME NEW t \in Threads, Count(t) PROVE Quiet
    BY <1>9 DEF Count, ioVars, Quiet, TypeOK
  <1>10. ASSUME NEW t \in Threads, Store(t) PROVE Quiet
    BY <1>10 DEF Store, StoreThen, ioVars, Quiet, TypeOK
  <1>11. ASSUME NEW t \in Threads, GiveUp(t) PROVE Quiet
    BY <1>11 DEF GiveUp, FailRead, ioVars, Quiet, TypeOK
  <1>12. ASSUME NEW t \in Threads, Retry(t) PROVE Quiet
    BY <1>12 DEF Retry, ioVars, Quiet, TypeOK
  <1>13. ASSUME NEW t \in Threads, Arm(t) PROVE Quiet
    <2>1. CASE timers[t] < MaxTimers
      BY <1>13, <2>1, TimersInc DEF Arm, ioVars, Quiet
    <2>2. CASE ~(timers[t] < MaxTimers)
      BY <1>13, <2>2 DEF Arm, ioVars, TypeOK, Quiet
    <2> QED
      BY <2>1, <2>2
  <1>14. ASSUME NEW t \in Threads, Drop(t) PROVE Quiet
    BY <1>14 DEF Drop, ioVars, Quiet, TypeOK
  <1>15. ASSUME NEW t \in Threads, Close(t) PROVE Quiet
    BY <1>15 DEF Close, FailRead, ioVars, Quiet, TypeOK
  <1>16. ASSUME ReceiveAck PROVE Quiet
    BY <1>16 DEF ReceiveAck, Receive, ioVars, Quiet, TypeOK
  <1>17. ASSUME ReceiveRejection PROVE Quiet
    BY <1>17 DEF ReceiveRejection, Receive, ioVars, Quiet, TypeOK
  <1>18. ASSUME NEW w \in Works, ReceiveWork(w) PROVE Quiet
    BY <1>18 DEF ReceiveWork, Receive, ioVars, Quiet, TypeOK
  <1>19. ASSUME ReadAgain PROVE Quiet
    BY <1>19 DEF ReadAgain, readline, ioVars, Quiet, TypeOK
  <1>20. ASSUME Launch PROVE Quiet
    BY <1>20 DEF Launch, ioVars, Quiet, TypeOK
  <1>21. ASSUME TakeSolution PROVE Quiet
    BY <1>21 DEF TakeSolution, ioVars, Quiet, TypeOK
  <1>22. ASSUME GetWork PROVE Quiet
    BY <1>22 DEF GetWork, ioVars, Quiet, TypeOK
  <1>23. ASSUME Leave PROVE Quiet
    BY <1>23 DEF Leave, ioVars, Quiet, TypeOK
  <1>24. ASSUME CheckConnected PROVE Quiet
    BY <1>24 DEF CheckConnected, ioVars, Quiet, TypeOK
  <1>25. ASSUME WriteShare PROVE Quiet
    BY <1>25 DEF WriteShare, ioVars, Quiet, TypeOK
  <1>26. ASSUME UNCHANGED vars PROVE Quiet
    BY <1>26 DEF vars, ioVars, Quiet, TypeOK
  <1> QED
    BY <1>1, <1>2, <1>3, <1>4, <1>5, <1>6, <1>7, <1>8, <1>9, <1>10, <1>11, <1>12, <1>13, <1>14,
       <1>15, <1>16, <1>17, <1>18, <1>19, <1>20, <1>21, <1>22, <1>23, <1>24, <1>25, <1>26
       DEF Next, Main, Io, connectStratum, reconnect, Takes, Threads

\* Only a message that comes ends a read without a trace.
LEMMA ReadSteps ==
    ASSUME TypeOK, [Next]_vars, ~Takes, ~Receives
    PROVE KeepsRead
  <1>1. ASSUME NEW e \in {"good", "refuses", "unresolved"}, Settle(e) PROVE KeepsRead
    BY <1>1, FailedAppended DEF Settle, sockVars, ioVars, KeepsRead
  <1>2. ASSUME Lose PROVE KeepsRead
    BY <1>2, FailedAppended DEF Lose, FailRead, sockVars, ioVars, KeepsRead
  <1>3. ASSUME NEW t \in Threads, Connect(t) PROVE KeepsRead
    BY <1>3, FailedAppended DEF Connect, FailRead, sockVars, ioVars, KeepsRead
  <1>4. ASSUME NEW t \in Threads, ConnectRefused(t) PROVE KeepsRead
    BY <1>4, FailedAppended DEF ConnectRefused, FailRead, sockVars, ioVars, KeepsRead
  <1>5. ASSUME NEW t \in Threads, ConnectThrows(t) PROVE KeepsRead
    BY <1>5, FailedAppended DEF ConnectThrows, sockVars, ioVars, KeepsRead
  <1>6. ASSUME NEW t \in Threads, Established(t) PROVE KeepsRead
    BY <1>6, FailedAppended DEF Established, sockVars, ioVars, KeepsRead
  <1>7. ASSUME NEW t \in Threads, Subscribe(t) PROVE KeepsRead
    BY <1>7, FailedAppended DEF Subscribe, sockVars, ioVars, KeepsRead
  <1>8. ASSUME NEW t \in Threads, Listen(t) PROVE KeepsRead
    BY <1>8, FailedAppended DEF Listen, readline, sockVars, ioVars, KeepsRead
  <1>9. ASSUME NEW t \in Threads, Count(t) PROVE KeepsRead
    BY <1>9, FailedAppended DEF Count, sockVars, ioVars, KeepsRead
  <1>10. ASSUME NEW t \in Threads, Store(t) PROVE KeepsRead
    BY <1>10, FailedAppended DEF Store, StoreThen, sockVars, ioVars, KeepsRead
  <1>11. ASSUME NEW t \in Threads, GiveUp(t) PROVE KeepsRead
    BY <1>11, FailedAppended DEF GiveUp, FailRead, sockVars, ioVars, KeepsRead
  <1>12. ASSUME NEW t \in Threads, Retry(t) PROVE KeepsRead
    BY <1>12, FailedAppended DEF Retry, sockVars, ioVars, KeepsRead
  <1>13. ASSUME NEW t \in Threads, Arm(t) PROVE KeepsRead
    BY <1>13, FailedAppended DEF Arm, sockVars, ioVars, KeepsRead
  <1>14. ASSUME NEW t \in Threads, Drop(t) PROVE KeepsRead
    BY <1>14, FailedAppended DEF Drop, sockVars, ioVars, KeepsRead
  <1>15. ASSUME NEW t \in Threads, Close(t) PROVE KeepsRead
    BY <1>15, FailedAppended DEF Close, FailRead, sockVars, ioVars, KeepsRead
  <1>16. ASSUME ReadAgain PROVE KeepsRead
    BY <1>16, FailedAppended DEF ReadAgain, readline, sockVars, ioVars, KeepsRead
  <1>17. ASSUME Launch PROVE KeepsRead
    BY <1>17, FailedAppended DEF Launch, sockVars, ioVars, KeepsRead
  <1>18. ASSUME TakeSolution PROVE KeepsRead
    BY <1>18, FailedAppended DEF TakeSolution, sockVars, ioVars, KeepsRead
  <1>19. ASSUME GetWork PROVE KeepsRead
    BY <1>19, FailedAppended DEF GetWork, sockVars, ioVars, KeepsRead
  <1>20. ASSUME Leave PROVE KeepsRead
    BY <1>20, FailedAppended DEF Leave, sockVars, ioVars, KeepsRead
  <1>21. ASSUME CheckConnected PROVE KeepsRead
    BY <1>21, FailedAppended DEF CheckConnected, sockVars, ioVars, KeepsRead
  <1>22. ASSUME WriteShare PROVE KeepsRead
    BY <1>22, FailedAppended DEF WriteShare, sockVars, ioVars, KeepsRead
  <1>23. ASSUME UNCHANGED vars PROVE KeepsRead
    BY <1>23, FailedAppended DEF vars, sockVars, ioVars, KeepsRead
  <1> QED
    BY <1>1, <1>2, <1>3, <1>4, <1>5, <1>6, <1>7, <1>8, <1>9, <1>10, <1>11, <1>12, <1>13, <1>14,
       <1>15, <1>16, <1>17, <1>18, <1>19, <1>20, <1>21, <1>22, <1>23 DEF Next, Main, Io,
       connectStratum, reconnect, Takes, Receives, Threads

\* What the three do to the queue.
LEMMA TakeSteps ==
    ASSUME TypeOK
    PROVE /\ Takes => queue' \in Seq(Handlers) /\ timers' \in [Threads -> 0 .. MaxTimers]
          /\ \A t \in Threads : Expire(t) => TimerReady' /\ SomethingPending'
          /\ HandleFailed /\ TimerReady => TimerReady'
  <1>1. queue \in Seq(Handlers) /\ timers \in [Threads -> 0 .. MaxTimers]
    BY DEF TypeOK, Handlers
  <1>2. ASSUME NEW t \in Threads, Expire(t)
        PROVE /\ queue' \in Seq(Handlers) /\ timers' \in [Threads -> 0 .. MaxTimers]
              /\ TimerReady' /\ SomethingPending'
    <2>1. queue' = Append(queue, "timer") /\ "timer" \in Handlers
      BY <1>2 DEF Expire, Handlers
    <2>2. queue' \in Seq(Handlers) /\ queue' # <<>> /\ HasTimer(queue')
      BY <1>1, <2>1, AppendHandler
    <2>3. timers[t] \in 0 .. MaxTimers /\ timers[t] > 0
      BY <1>1, <1>2 DEF Expire
    <2>4. timers[t] - 1 \in 0 .. MaxTimers
      BY <2>3, TimersAssumption
    <2>5. timers' \in [Threads -> 0 .. MaxTimers]
      BY <1>1, <1>2, <2>4 DEF Expire
    <2> QED
      BY <2>2, <2>5 DEF TimerReady, SomethingPending
  <1>3. ASSUME HandleTimer \/ HandleFailed
        PROVE queue' \in Seq(Handlers) /\ timers' = timers
    BY <1>1, <1>3, TailHandler DEF HandleTimer, HandleFailed
  <1>4. ASSUME HandleFailed, TimerReady PROVE TimerReady'
    <2>1. timers' = timers /\ queue' = Tail(queue) /\ queue # <<>> /\ Head(queue) = "failed"
      BY <1>4 DEF HandleFailed
    <2>2. HasTimer(queue) => HasTimer(queue')
      BY <1>1, <2>1, TailHandler
    <2> QED
      BY <1>4, <2>1, <2>2 DEF TimerReady, Armed
  <1> QED
    BY <1>1, <1>2, <1>3, <1>4 DEF Takes

LEMMA QueueAndTimers ==
    ASSUME TypeOK, [Next]_vars
    PROVE queue' \in Seq(Handlers) /\ timers' \in [Threads -> 0 .. MaxTimers]
  <1>1. CASE Takes
    BY <1>1, TakeSteps
  <1>2. CASE ~Takes
    BY <1>2, QuietSteps, QuietKeeps DEF Quiet
  <1> QED
    BY <1>1, <1>2
-----------------------------------------------------------------------------
(* Types *)

Places == {"connect", "established", "subscribe", "listen", "again",
           "count", "store", "limit", "arm", "drop", "close", "off", "idle",
           "launch", "poll", "check", "write", "left"}
Nexts == {"launch", "poll", "idle", "listen", "again"}

\* What is left of TypeOK when queue and timers are set apart.
PlainTypes == /\ failover \in BOOLEAN /\ running \in BOOLEAN
              /\ connected \in BOOLEAN /\ authorized \in BOOLEAN
              /\ sock \in {"closed", "open", "lost"}
              /\ reading \in BOOLEAN /\ partial \in BOOLEAN
              /\ acked \in {"no", "yes", "missed"}
              /\ {notified, work} \subseteq Works \cup {NoWork}
              /\ env \in {"changing", "good", "refuses", "unresolved"}
Control == pc \in [Threads -> Places] /\ then \in [Threads -> Nexts]

RetriesType == retries \in 0 .. maxRetries + 1 /\ seen \in [Threads -> 0 .. maxRetries + 1]

LEMMA LimitIsNatural == failover \in BOOLEAN => maxRetries \in Nat \ {0}
  BY RetriesAssumption DEF maxRetries

LEMMA RetriesStep ==
    ASSUME TypeOK, [Next]_vars
    PROVE RetriesType'
  <1>1. ASSUME NEW e \in {"good", "refuses", "unresolved"}, Settle(e) PROVE RetriesType'
    BY <1>1, LimitIsNatural DEF RetriesType, count, Settle, TypeOK, maxRetries
  <1>2. ASSUME Lose PROVE RetriesType'
    BY <1>2, LimitIsNatural DEF RetriesType, count, Lose, TypeOK, maxRetries
  <1>3. ASSUME NEW t \in Threads, Expire(t) PROVE RetriesType'
    BY <1>3, LimitIsNatural DEF RetriesType, count, Expire, TypeOK, maxRetries
  <1>4. ASSUME NEW t \in Threads, Connect(t) PROVE RetriesType'
    BY <1>4, LimitIsNatural DEF RetriesType, count, Connect, TypeOK, maxRetries
  <1>5. ASSUME NEW t \in Threads, ConnectRefused(t) PROVE RetriesType'
    BY <1>5, LimitIsNatural DEF RetriesType, count, ConnectRefused, TypeOK, maxRetries
  <1>6. ASSUME NEW t \in Threads, ConnectThrows(t) PROVE RetriesType'
    BY <1>6, LimitIsNatural DEF RetriesType, count, ConnectThrows, TypeOK, maxRetries
  <1>7. ASSUME NEW t \in Threads, Established(t) PROVE RetriesType'
    BY <1>7, LimitIsNatural DEF RetriesType, count, Established, TypeOK, maxRetries
  <1>8. ASSUME NEW t \in Threads, Subscribe(t) PROVE RetriesType'
    BY <1>8, LimitIsNatural DEF RetriesType, count, Subscribe, TypeOK, maxRetries
  <1>9. ASSUME NEW t \in Threads, Listen(t) PROVE RetriesType'
    BY <1>9, LimitIsNatural DEF RetriesType, count, Listen, TypeOK, maxRetries
  <1>10. ASSUME NEW t \in Threads, Count(t) PROVE RetriesType'
    BY <1>10, LimitIsNatural DEF RetriesType, count, Count, TypeOK, maxRetries
  <1>11. ASSUME NEW t \in Threads, Store(t) PROVE RetriesType'
    BY <1>11, LimitIsNatural DEF RetriesType, count, Store, StoreThen, TypeOK, maxRetries
  <1>12. ASSUME NEW t \in Threads, GiveUp(t) PROVE RetriesType'
    BY <1>12, LimitIsNatural DEF RetriesType, count, GiveUp, TypeOK, maxRetries
  <1>13. ASSUME NEW t \in Threads, Retry(t) PROVE RetriesType'
    BY <1>13, LimitIsNatural DEF RetriesType, count, Retry, TypeOK, maxRetries
  <1>14. ASSUME NEW t \in Threads, Arm(t) PROVE RetriesType'
    BY <1>14, LimitIsNatural DEF RetriesType, count, Arm, TypeOK, maxRetries
  <1>15. ASSUME NEW t \in Threads, Drop(t) PROVE RetriesType'
    BY <1>15, LimitIsNatural DEF RetriesType, count, Drop, TypeOK, maxRetries
  <1>16. ASSUME NEW t \in Threads, Close(t) PROVE RetriesType'
    BY <1>16, LimitIsNatural DEF RetriesType, count, Close, TypeOK, maxRetries
  <1>17. ASSUME HandleTimer PROVE RetriesType'
    BY <1>17, LimitIsNatural DEF RetriesType, count, HandleTimer, TypeOK, maxRetries
  <1>18. ASSUME HandleFailed PROVE RetriesType'
    BY <1>18, LimitIsNatural DEF RetriesType, count, HandleFailed, TypeOK, maxRetries
  <1>19. ASSUME ReceiveAck PROVE RetriesType'
    BY <1>19, LimitIsNatural DEF RetriesType, count, ReceiveAck, Receive, TypeOK, maxRetries
  <1>20. ASSUME ReceiveRejection PROVE RetriesType'
    BY <1>20, LimitIsNatural DEF RetriesType, count, ReceiveRejection, Receive, TypeOK, maxRetries
  <1>21. ASSUME NEW w \in Works, ReceiveWork(w) PROVE RetriesType'
    BY <1>21, LimitIsNatural DEF RetriesType, count, ReceiveWork, Receive, TypeOK, maxRetries
  <1>22. ASSUME ReadAgain PROVE RetriesType'
    BY <1>22, LimitIsNatural DEF RetriesType, count, ReadAgain, TypeOK, maxRetries
  <1>23. ASSUME Launch PROVE RetriesType'
    BY <1>23, LimitIsNatural DEF RetriesType, count, Launch, TypeOK, maxRetries
  <1>24. ASSUME TakeSolution PROVE RetriesType'
    BY <1>24, LimitIsNatural DEF RetriesType, count, TakeSolution, TypeOK, maxRetries
  <1>25. ASSUME GetWork PROVE RetriesType'
    BY <1>25, LimitIsNatural DEF RetriesType, count, GetWork, TypeOK, maxRetries
  <1>26. ASSUME Leave PROVE RetriesType'
    BY <1>26, LimitIsNatural DEF RetriesType, count, Leave, TypeOK, maxRetries
  <1>27. ASSUME CheckConnected PROVE RetriesType'
    BY <1>27, LimitIsNatural DEF RetriesType, count, CheckConnected, TypeOK, maxRetries
  <1>28. ASSUME WriteShare PROVE RetriesType'
    BY <1>28, LimitIsNatural DEF RetriesType, count, WriteShare, TypeOK, maxRetries
  <1>29. ASSUME UNCHANGED vars PROVE RetriesType'
    BY <1>29, LimitIsNatural DEF RetriesType, count, vars, TypeOK, maxRetries
  <1> QED
    BY <1>1, <1>2, <1>3, <1>4, <1>5, <1>6, <1>7, <1>8, <1>9, <1>10, <1>11, <1>12, <1>13, <1>14,
       <1>15, <1>16, <1>17, <1>18, <1>19, <1>20, <1>21, <1>22, <1>23, <1>24, <1>25, <1>26,
       <1>27, <1>28, <1>29 DEF Next, Main, Io, connectStratum, reconnect, Threads

LEMMA PlainTypesStep ==
    ASSUME PlainTypes, [Next]_vars
    PROVE PlainTypes'
  <1>1. ASSUME NEW e \in {"good", "refuses", "unresolved"}, Settle(e) PROVE PlainTypes'
    BY <1>1 DEF Settle, flags, sockVars, PlainTypes
  <1>2. ASSUME Lose PROVE PlainTypes'
    BY <1>2 DEF Lose, FailRead, flags, sockVars, PlainTypes
  <1>3. ASSUME NEW t \in Threads, Expire(t) PROVE PlainTypes'
    BY <1>3 DEF Expire, flags, sockVars, PlainTypes
  <1>4. ASSUME NEW t \in Threads, Connect(t) PROVE PlainTypes'
    BY <1>4 DEF Connect, FailRead, flags, sockVars, PlainTypes
  <1>5. ASSUME NEW t \in Threads, ConnectRefused(t) PROVE PlainTypes'
    BY <1>5 DEF ConnectRefused, FailRead, flags, sockVars, PlainTypes
  <1>6. ASSUME NEW t \in Threads, ConnectThrows(t) PROVE PlainTypes'
    BY <1>6 DEF ConnectThrows, flags, sockVars, PlainTypes
  <1>7. ASSUME NEW t \in Threads, Established(t) PROVE PlainTypes'
    BY <1>7 DEF Established, flags, sockVars, PlainTypes
  <1>8. ASSUME NEW t \in Threads, Subscribe(t) PROVE PlainTypes'
    BY <1>8 DEF Subscribe, flags, sockVars, PlainTypes
  <1>9. ASSUME NEW t \in Threads, Listen(t) PROVE PlainTypes'
    BY <1>9 DEF Listen, readline, flags, sockVars, PlainTypes
  <1>10. ASSUME NEW t \in Threads, Count(t) PROVE PlainTypes'
    BY <1>10 DEF Count, flags, sockVars, PlainTypes
  <1>11. ASSUME NEW t \in Threads, Store(t) PROVE PlainTypes'
    BY <1>11 DEF Store, StoreThen, flags, sockVars, PlainTypes
  <1>12. ASSUME NEW t \in Threads, GiveUp(t) PROVE PlainTypes'
    BY <1>12 DEF GiveUp, FailRead, flags, sockVars, PlainTypes
  <1>13. ASSUME NEW t \in Threads, Retry(t) PROVE PlainTypes'
    BY <1>13 DEF Retry, flags, sockVars, PlainTypes
  <1>14. ASSUME NEW t \in Threads, Arm(t) PROVE PlainTypes'
    BY <1>14 DEF Arm, flags, sockVars, PlainTypes
  <1>15. ASSUME NEW t \in Threads, Drop(t) PROVE PlainTypes'
    BY <1>15 DEF Drop, flags, sockVars, PlainTypes
  <1>16. ASSUME NEW t \in Threads, Close(t) PROVE PlainTypes'
    BY <1>16 DEF Close, FailRead, flags, sockVars, PlainTypes
  <1>17. ASSUME HandleTimer PROVE PlainTypes'
    BY <1>17 DEF HandleTimer, flags, sockVars, PlainTypes
  <1>18. ASSUME HandleFailed PROVE PlainTypes'
    BY <1>18 DEF HandleFailed, flags, sockVars, PlainTypes
  <1>19. ASSUME ReceiveAck PROVE PlainTypes'
    BY <1>19 DEF ReceiveAck, Receive, flags, sockVars, PlainTypes
  <1>20. ASSUME ReceiveRejection PROVE PlainTypes'
    BY <1>20 DEF ReceiveRejection, Receive, flags, sockVars, PlainTypes
  <1>21. ASSUME NEW w \in Works, ReceiveWork(w) PROVE PlainTypes'
    BY <1>21 DEF ReceiveWork, Receive, flags, sockVars, PlainTypes
  <1>22. ASSUME ReadAgain PROVE PlainTypes'
    BY <1>22 DEF ReadAgain, readline, flags, sockVars, PlainTypes
  <1>23. ASSUME Launch PROVE PlainTypes'
    BY <1>23 DEF Launch, flags, sockVars, PlainTypes
  <1>24. ASSUME TakeSolution PROVE PlainTypes'
    BY <1>24 DEF TakeSolution, flags, sockVars, PlainTypes
  <1>25. ASSUME GetWork PROVE PlainTypes'
    BY <1>25 DEF GetWork, flags, sockVars, PlainTypes
  <1>26. ASSUME Leave PROVE PlainTypes'
    BY <1>26 DEF Leave, flags, sockVars, PlainTypes
  <1>27. ASSUME CheckConnected PROVE PlainTypes'
    BY <1>27 DEF CheckConnected, flags, sockVars, PlainTypes
  <1>28. ASSUME WriteShare PROVE PlainTypes'
    BY <1>28 DEF WriteShare, flags, sockVars, PlainTypes
  <1>29. ASSUME UNCHANGED vars PROVE PlainTypes'
    BY <1>29 DEF vars, flags, sockVars, PlainTypes
  <1> QED
    BY <1>1, <1>2, <1>3, <1>4, <1>5, <1>6, <1>7, <1>8, <1>9, <1>10, <1>11, <1>12, <1>13, <1>14,
       <1>15, <1>16, <1>17, <1>18, <1>19, <1>20, <1>21, <1>22, <1>23, <1>24, <1>25, <1>26,
       <1>27, <1>28, <1>29 DEF Next, Main, Io, connectStratum, reconnect, Threads

LEMMA ControlStep ==
    ASSUME Control, [Next]_vars
    PROVE Control'
  <1>1. ASSUME NEW e \in {"good", "refuses", "unresolved"}, Settle(e) PROVE Control'
    BY <1>1 DEF Settle, Control, Places, Nexts, Threads
  <1>2. ASSUME Lose PROVE Control'
    BY <1>2 DEF Lose, Control, Places, Nexts, Threads
  <1>3. ASSUME NEW t \in Threads, Expire(t) PROVE Control'
    BY <1>3 DEF Expire, Control, Places, Nexts, Threads
  <1>4. ASSUME NEW t \in Threads, Connect(t) PROVE Control'
    BY <1>4 DEF Connect, Goto, Control, Places, Nexts, Threads
  <1>5. ASSUME NEW t \in Threads, ConnectRefused(t) PROVE Control'
    BY <1>5 DEF ConnectRefused, Goto, Control, Places, Nexts, Threads
  <1>6. ASSUME NEW t \in Threads, ConnectThrows(t) PROVE Control'
    BY <1>6 DEF ConnectThrows, Goto, Control, Places, Nexts, Threads
  <1>7. ASSUME NEW t \in Threads, Established(t) PROVE Control'
    BY <1>7 DEF Established, Goto, Control, Places, Nexts, Threads
  <1>8. ASSUME NEW t \in Threads, Subscribe(t) PROVE Control'
    BY <1>8 DEF Subscribe, Goto, Write, Control, Places, Nexts, Threads
  <1>9. ASSUME NEW t \in Threads, Listen(t) PROVE Control'
    BY <1>9 DEF Listen, Goto, AfterConnect, Control, Places, Nexts, Threads
  <1>10. ASSUME NEW t \in Threads, Count(t) PROVE Control'
    BY <1>10 DEF Count, Goto, Control, Places, Nexts, Threads
  <1>11. ASSUME NEW t \in Threads, Store(t) PROVE Control'
    BY <1>11 DEF Store, StoreThen, Goto, Control, Places, Nexts, Threads
  <1>12. ASSUME NEW t \in Threads, GiveUp(t) PROVE Control'
    BY <1>12 DEF GiveUp, Goto, Control, Places, Nexts, Threads
  <1>13. ASSUME NEW t \in Threads, Retry(t) PROVE Control'
    BY <1>13 DEF Retry, Goto, Control, Places, Nexts, Threads
  <1>14. ASSUME NEW t \in Threads, Arm(t) PROVE Control'
    BY <1>14 DEF Arm, Goto, Control, Places, Nexts, Threads
  <1>15. ASSUME NEW t \in Threads, Drop(t) PROVE Control'
    BY <1>15 DEF Drop, Goto, Control, Places, Nexts, Threads
  <1>16. ASSUME NEW t \in Threads, Close(t) PROVE Control'
    BY <1>16 DEF Close, Goto, Control, Places, Nexts, Threads
  <1>17. ASSUME HandleTimer PROVE Control'
    BY <1>17 DEF HandleTimer, Goto, Control, Places, Nexts, Threads
  <1>18. ASSUME HandleFailed PROVE Control'
    BY <1>18 DEF HandleFailed, Goto, Control, Places, Nexts, Threads
  <1>19. ASSUME ReceiveAck PROVE Control'
    BY <1>19 DEF ReceiveAck, Goto, Receive, Control, Places, Nexts, Threads
  <1>20. ASSUME ReceiveRejection PROVE Control'
    BY <1>20 DEF ReceiveRejection, Goto, Receive, Control, Places, Nexts, Threads
  <1>21. ASSUME NEW w \in Works, ReceiveWork(w) PROVE Control'
    BY <1>21 DEF ReceiveWork, Goto, Receive, Control, Places, Nexts, Threads
  <1>22. ASSUME ReadAgain PROVE Control'
    BY <1>22 DEF ReadAgain, Goto, Control, Places, Nexts, Threads
  <1>23. ASSUME Launch PROVE Control'
    BY <1>23 DEF Launch, Control, Places, Nexts, Threads
  <1>24. ASSUME TakeSolution PROVE Control'
    BY <1>24 DEF TakeSolution, Goto, Control, Places, Nexts, Threads
  <1>25. ASSUME GetWork PROVE Control'
    BY <1>25 DEF GetWork, Control, Places, Nexts, Threads
  <1>26. ASSUME Leave PROVE Control'
    BY <1>26 DEF Leave, Goto, Control, Places, Nexts, Threads
  <1>27. ASSUME CheckConnected PROVE Control'
    BY <1>27 DEF CheckConnected, Goto, Control, Places, Nexts, Threads
  <1>28. ASSUME WriteShare PROVE Control'
    BY <1>28 DEF WriteShare, Goto, Write, Control, Places, Nexts, Threads
  <1>29. ASSUME UNCHANGED vars PROVE Control'
    BY <1>29 DEF vars, Control, Places, Nexts, Threads
  <1> QED
    BY <1>1, <1>2, <1>3, <1>4, <1>5, <1>6, <1>7, <1>8, <1>9, <1>10, <1>11, <1>12, <1>13, <1>14,
       <1>15, <1>16, <1>17, <1>18, <1>19, <1>20, <1>21, <1>22, <1>23, <1>24, <1>25, <1>26,
       <1>27, <1>28, <1>29 DEF Next, Main, Io, connectStratum, reconnect, Threads

LEMMA Types == TypeOK <=> /\ PlainTypes /\ Control
                          /\ RetriesType
                          /\ timers \in [Threads -> 0 .. MaxTimers]
                          /\ queue \in Seq(Handlers)
  BY DEF TypeOK, PlainTypes, RetriesType, Control, Places, Nexts, Handlers

LEMMA TypeStep ==
    ASSUME TypeOK, [Next]_vars
    PROVE TypeOK'
  <1>1. PlainTypes' /\ Control'
    BY Types, PlainTypesStep, ControlStep
  <1>2. TypeOK' <=> /\ PlainTypes' /\ Control'
                    /\ RetriesType'
                    /\ timers' \in [Threads -> 0 .. MaxTimers]
                    /\ queue' \in Seq(Handlers)
    BY DEF TypeOK, PlainTypes, RetriesType, Control, Places, Nexts, Handlers
  <1> QED
    BY <1>1, <1>2, RetriesStep, QueueAndTimers
-----------------------------------------------------------------------------
(* The order of things *)

LEMMA MainFirstStep ==
    ASSUME TypeOK, MainFirst, [Next]_vars
    PROVE MainFirst'
  <1>1. ASSUME NEW e \in {"good", "refuses", "unresolved"}, Settle(e) PROVE MainFirst'
    BY <1>1 DEF Settle, TypeOK, MainFirst, Threads
  <1>2. ASSUME Lose PROVE MainFirst'
    BY <1>2 DEF Lose, TypeOK, MainFirst, Threads
  <1>3. ASSUME NEW t \in Threads, Expire(t) PROVE MainFirst'
    BY <1>3 DEF Expire, TypeOK, MainFirst, Threads
  <1>4. ASSUME NEW t \in Threads, Connect(t) PROVE MainFirst'
    BY <1>4 DEF Connect, Goto, TypeOK, MainFirst, Threads
  <1>5. ASSUME NEW t \in Threads, ConnectRefused(t) PROVE MainFirst'
    BY <1>5 DEF ConnectRefused, Goto, TypeOK, MainFirst, Threads
  <1>6. ASSUME NEW t \in Threads, ConnectThrows(t) PROVE MainFirst'
    BY <1>6 DEF ConnectThrows, Goto, TypeOK, MainFirst, Threads
  <1>7. ASSUME NEW t \in Threads, Established(t) PROVE MainFirst'
    BY <1>7 DEF Established, Goto, TypeOK, MainFirst, Threads
  <1>8. ASSUME NEW t \in Threads, Subscribe(t) PROVE MainFirst'
    BY <1>8 DEF Subscribe, Goto, Write, TypeOK, MainFirst, Threads
  <1>9. ASSUME NEW t \in Threads, Listen(t) PROVE MainFirst'
    BY <1>9 DEF Listen, Goto, AfterConnect, TypeOK, MainFirst, Threads
  <1>10. ASSUME NEW t \in Threads, Count(t) PROVE MainFirst'
    BY <1>10 DEF Count, Goto, TypeOK, MainFirst, Threads
  <1>11. ASSUME NEW t \in Threads, Store(t) PROVE MainFirst'
    BY <1>11 DEF Store, StoreThen, Goto, TypeOK, MainFirst, Threads
  <1>12. ASSUME NEW t \in Threads, GiveUp(t) PROVE MainFirst'
    BY <1>12 DEF GiveUp, Goto, TypeOK, MainFirst, Threads
  <1>13. ASSUME NEW t \in Threads, Retry(t) PROVE MainFirst'
    BY <1>13 DEF Retry, Goto, TypeOK, MainFirst, Threads
  <1>14. ASSUME NEW t \in Threads, Arm(t) PROVE MainFirst'
    BY <1>14 DEF Arm, Goto, TypeOK, MainFirst, Threads
  <1>15. ASSUME NEW t \in Threads, Drop(t) PROVE MainFirst'
    BY <1>15 DEF Drop, Goto, TypeOK, MainFirst, Threads
  <1>16. ASSUME NEW t \in Threads, Close(t) PROVE MainFirst'
    BY <1>16 DEF Close, Goto, TypeOK, MainFirst, Threads
  <1>17. ASSUME HandleTimer PROVE MainFirst'
    BY <1>17 DEF HandleTimer, Goto, Ready, TypeOK, MainFirst, Threads
  <1>18. ASSUME HandleFailed PROVE MainFirst'
    BY <1>18 DEF HandleFailed, Goto, Ready, TypeOK, MainFirst, Threads
  <1>19. ASSUME ReceiveAck PROVE MainFirst'
    BY <1>19 DEF ReceiveAck, Goto, Receive, Ready, TypeOK, MainFirst, Threads
  <1>20. ASSUME ReceiveRejection PROVE MainFirst'
    BY <1>20 DEF ReceiveRejection, Goto, Receive, Ready, TypeOK, MainFirst, Threads
  <1>21. ASSUME NEW w \in Works, ReceiveWork(w) PROVE MainFirst'
    BY <1>21 DEF ReceiveWork, Goto, Receive, Ready, TypeOK, MainFirst, Threads
  <1>22. ASSUME ReadAgain PROVE MainFirst'
    BY <1>22 DEF ReadAgain, Goto, TypeOK, MainFirst, Threads
  <1>23. ASSUME Launch PROVE MainFirst'
    BY <1>23 DEF Launch, TypeOK, MainFirst, Threads
  <1>24. ASSUME TakeSolution PROVE MainFirst'
    BY <1>24 DEF TakeSolution, Goto, Polling, TypeOK, MainFirst, Threads
  <1>25. ASSUME GetWork PROVE MainFirst'
    BY <1>25 DEF GetWork, Polling, TypeOK, MainFirst, Threads
  <1>26. ASSUME Leave PROVE MainFirst'
    BY <1>26 DEF Leave, Goto, Polling, TypeOK, MainFirst, Threads
  <1>27. ASSUME CheckConnected PROVE MainFirst'
    BY <1>27 DEF CheckConnected, Goto, TypeOK, MainFirst, Threads
  <1>28. ASSUME WriteShare PROVE MainFirst'
    BY <1>28 DEF WriteShare, Goto, Write, TypeOK, MainFirst, Threads
  <1>29. ASSUME UNCHANGED vars PROVE MainFirst'
    BY <1>29 DEF vars, TypeOK, MainFirst, Threads
  <1> QED
    BY <1>1, <1>2, <1>3, <1>4, <1>5, <1>6, <1>7, <1>8, <1>9, <1>10, <1>11, <1>12, <1>13, <1>14,
       <1>15, <1>16, <1>17, <1>18, <1>19, <1>20, <1>21, <1>22, <1>23, <1>24, <1>25, <1>26,
       <1>27, <1>28, <1>29 DEF Next, Main, Io, connectStratum, reconnect, Threads

\* A step that leaves the timers alone keeps TimerHeld unless it leads to "drop" or "close".
LEMMA TimerHeldStep ==
    ASSUME TypeOK, TimerHeld, [Next]_vars
    PROVE TimerHeld'
  <1>1. ASSUME NEW e \in {"good", "refuses", "unresolved"}, Settle(e) PROVE TimerHeld'
    BY <1>1 DEF Settle, ioVars, TypeOK, TimerHeld
  <1>2. ASSUME Lose PROVE TimerHeld'
    BY <1>2 DEF Lose, ioVars, TypeOK, TimerHeld
  <1>3. ASSUME NEW t \in Threads, Expire(t) PROVE TimerHeld'
    BY <1>3 DEF Expire, ioVars, TypeOK, TimerHeld
  <1>4. ASSUME NEW t \in Threads, Connect(t) PROVE TimerHeld'
    BY <1>4 DEF Connect, Goto, ioVars, TypeOK, TimerHeld
  <1>5. ASSUME NEW t \in Threads, ConnectRefused(t) PROVE TimerHeld'
    BY <1>5 DEF ConnectRefused, Goto, ioVars, TypeOK, TimerHeld
  <1>6. ASSUME NEW t \in Threads, ConnectThrows(t) PROVE TimerHeld'
    BY <1>6 DEF ConnectThrows, Goto, ioVars, TypeOK, TimerHeld
  <1>7. ASSUME NEW t \in Threads, Established(t) PROVE TimerHeld'
    BY <1>7 DEF Established, Goto, ioVars, TypeOK, TimerHeld
  <1>8. ASSUME NEW t \in Threads, Subscribe(t) PROVE TimerHeld'
    BY <1>8 DEF Subscribe, Goto, Write, ioVars, TypeOK, TimerHeld
  <1>9. ASSUME NEW t \in Threads, Listen(t) PROVE TimerHeld'
    BY <1>9 DEF Listen, Goto, AfterConnect, ioVars, TypeOK, TimerHeld
  <1>10. ASSUME NEW t \in Threads, Count(t) PROVE TimerHeld'
    BY <1>10 DEF Count, Goto, ioVars, TypeOK, TimerHeld
  <1>11. ASSUME NEW t \in Threads, Store(t) PROVE TimerHeld'
    BY <1>11 DEF Store, StoreThen, Goto, ioVars, TypeOK, TimerHeld
  <1>12. ASSUME NEW t \in Threads, GiveUp(t) PROVE TimerHeld'
    BY <1>12 DEF GiveUp, Goto, ioVars, TypeOK, TimerHeld
  <1>13. ASSUME NEW t \in Threads, Retry(t) PROVE TimerHeld'
    BY <1>13 DEF Retry, Goto, ioVars, TypeOK, TimerHeld
  <1>14. ASSUME NEW t \in Threads, Arm(t) PROVE TimerHeld'
    <2>1. CASE timers[t] < MaxTimers
      BY <1>14, <2>1, TimersInc DEF Arm, Goto, TypeOK, TimerHeld
    <2>2. CASE ~(timers[t] < MaxTimers)
      BY <1>14, <2>2, TimersAssumption DEF Arm, Goto, TypeOK, TimerHeld
    <2> QED
      BY <2>1, <2>2
  <1>15. ASSUME NEW t \in Threads, Drop(t) PROVE TimerHeld'
    BY <1>15 DEF Drop, Goto, ioVars, TypeOK, TimerHeld
  <1>16. ASSUME NEW t \in Threads, Close(t) PROVE TimerHeld'
    BY <1>16 DEF Close, Goto, ioVars, TypeOK, TimerHeld
  <1>17. ASSUME HandleTimer PROVE TimerHeld'
    BY <1>17 DEF HandleTimer, Goto, ioVars, TypeOK, TimerHeld
  <1>18. ASSUME HandleFailed PROVE TimerHeld'
    BY <1>18 DEF HandleFailed, Goto, ioVars, TypeOK, TimerHeld
  <1>19. ASSUME ReceiveAck PROVE TimerHeld'
    BY <1>19 DEF ReceiveAck, Goto, Receive, ioVars, TypeOK, TimerHeld
  <1>20. ASSUME ReceiveRejection PROVE TimerHeld'
    BY <1>20 DEF ReceiveRejection, Goto, Receive, ioVars, TypeOK, TimerHeld
  <1>21. ASSUME NEW w \in Works, ReceiveWork(w) PROVE TimerHeld'
    BY <1>21 DEF ReceiveWork, Goto, Receive, ioVars, TypeOK, TimerHeld
  <1>22. ASSUME ReadAgain PROVE TimerHeld'
    BY <1>22 DEF ReadAgain, Goto, ioVars, TypeOK, TimerHeld
  <1>23. ASSUME Launch PROVE TimerHeld'
    BY <1>23 DEF Launch, ioVars, TypeOK, TimerHeld
  <1>24. ASSUME TakeSolution PROVE TimerHeld'
    BY <1>24 DEF TakeSolution, Goto, ioVars, TypeOK, TimerHeld
  <1>25. ASSUME GetWork PROVE TimerHeld'
    BY <1>25 DEF GetWork, ioVars, TypeOK, TimerHeld
  <1>26. ASSUME Leave PROVE TimerHeld'
    BY <1>26 DEF Leave, Goto, ioVars, TypeOK, TimerHeld
  <1>27. ASSUME CheckConnected PROVE TimerHeld'
    BY <1>27 DEF CheckConnected, Goto, ioVars, TypeOK, TimerHeld
  <1>28. ASSUME WriteShare PROVE TimerHeld'
    BY <1>28 DEF WriteShare, Goto, Write, ioVars, TypeOK, TimerHeld
  <1>29. ASSUME UNCHANGED vars PROVE TimerHeld'
    BY <1>29 DEF vars, ioVars, TypeOK, TimerHeld
  <1> QED
    BY <1>1, <1>2, <1>3, <1>4, <1>5, <1>6, <1>7, <1>8, <1>9, <1>10, <1>11, <1>12, <1>13, <1>14,
       <1>15, <1>16, <1>17, <1>18, <1>19, <1>20, <1>21, <1>22, <1>23, <1>24, <1>25, <1>26,
       <1>27, <1>28, <1>29 DEF Next, Main, Io, connectStratum, reconnect, Threads

LEMMA HeldIsArmed ==
    ASSUME TimerHeld, NEW t \in Threads, pc[t] \in {"drop", "close"}
    PROVE TimerReady /\ SomethingPending
  BY DEF TimerHeld, TimerReady, SomethingPending, Armed

\* Where the client is not connected and no timer is ready, a step of the io
\* thread (or, before it runs, of the main thread) is on its way to arm one.
LEMMA WillConnectStep ==
    ASSUME IInv, [Next]_vars
    PROVE WillConnect'
  <1>0. TypeOK /\ MainFirst /\ TimerHeld /\ WillConnect /\ Waiting
    BY DEF IInv
  <1>1. \A t \in Threads : Expire(t) => TimerReady'
    BY <1>0, TakeSteps
  <1>2. HandleFailed /\ TimerReady => TimerReady'
    BY <1>0, TakeSteps
  <1>3. \A t \in Threads : pc[t] \in {"drop", "close"} => TimerReady
    BY <1>0, HeldIsArmed
  <1>4. ASSUME NEW t \in Threads, Expire(t) PROVE WillConnect'
    BY <1>4, <1>1 DEF Expire, flags, WillConnect
  <1>5. ASSUME HandleTimer PROVE WillConnect'
    BY <1>5, <1>0 DEF HandleTimer, Goto, Ready, flags, TypeOK, MainFirst, WillConnect,
       Reconnecting, Threads
  <1>6. ASSUME HandleFailed PROVE WillConnect'
    BY <1>6, <1>0, <1>2 DEF HandleFailed, Goto, Ready, flags, TypeOK, MainFirst,
       WillConnect, Reconnecting, Threads
  <1>7. ASSUME ~Takes PROVE WillConnect'
    <2>0. TimerReady => TimerReady'
      BY <1>0, <1>7, QuietSteps, QuietKeeps
    <2>1. ASSUME NEW e \in {"good", "refuses", "unresolved"}, Settle(e) PROVE WillConnect'
      BY <2>1, <1>0, <1>3, <2>0 DEF Settle, flags, TypeOK, MainFirst, WillConnect,
         Reconnecting, Threads
    <2>2. ASSUME Lose PROVE WillConnect'
      BY <2>2, <1>0, <1>3, <2>0 DEF Lose, flags, TypeOK, MainFirst, WillConnect,
         Reconnecting, Threads
    <2>3. ASSUME NEW t \in Threads, Connect(t) PROVE WillConnect'
      BY <2>3, <1>0, <1>3, <2>0 DEF Connect, Goto, flags, TypeOK, MainFirst, WillConnect,
         Reconnecting, Threads
    <2>4. ASSUME NEW t \in Threads, ConnectRefused(t) PROVE WillConnect'
      BY <2>4, <1>0, <1>3, <2>0 DEF ConnectRefused, Goto, flags, TypeOK, MainFirst,
         WillConnect, Reconnecting, Threads
    <2>5. ASSUME NEW t \in Threads, ConnectThrows(t) PROVE WillConnect'
      BY <2>5, <1>0, <1>3, <2>0 DEF ConnectThrows, Goto, flags, TypeOK, MainFirst,
         WillConnect, Reconnecting, Threads
    <2>6. ASSUME NEW t \in Threads, Established(t) PROVE WillConnect'
      BY <2>6, <1>0, <1>3, <2>0 DEF Established, Goto, flags, TypeOK, MainFirst,
         WillConnect, Reconnecting, Threads
    <2>7. ASSUME NEW t \in Threads, Subscribe(t) PROVE WillConnect'
      BY <2>7, <1>0, <1>3, <2>0 DEF Subscribe, Goto, Write, flags, TypeOK, MainFirst,
         WillConnect, Reconnecting, Threads
    <2>8. ASSUME NEW t \in Threads, Listen(t) PROVE WillConnect'
      BY <2>8, <1>0, <1>3, <2>0 DEF Listen, Goto, AfterConnect, flags, TypeOK, MainFirst,
         WillConnect, Reconnecting, Threads
    <2>9. ASSUME NEW t \in Threads, Count(t) PROVE WillConnect'
      BY <2>9, <1>0, <1>3, <2>0 DEF Count, Goto, flags, TypeOK, MainFirst, WillConnect,
         Reconnecting, Threads
    <2>10. ASSUME NEW t \in Threads, Store(t) PROVE WillConnect'
      BY <2>10, <1>0, <1>3, <2>0 DEF Store, StoreThen, Goto, flags, TypeOK, MainFirst,
         WillConnect, Reconnecting, Threads
    <2>11. ASSUME NEW t \in Threads, GiveUp(t) PROVE WillConnect'
      BY <2>11, <1>0, <1>3, <2>0 DEF GiveUp, Goto, flags, TypeOK, MainFirst, WillConnect,
         Reconnecting, Threads
    <2>12. ASSUME NEW t \in Threads, Retry(t) PROVE WillConnect'
      BY <2>12, <1>0, <1>3, <2>0 DEF Retry, Goto, flags, TypeOK, MainFirst, WillConnect,
         Reconnecting, Threads
    <2>13. ASSUME NEW t \in Threads, Arm(t) PROVE WillConnect'
      <3>1. TimerHeld'
        BY <1>0, TimerHeldStep
      <3>2. pc'[t] \in {"drop", "close"}
        BY <1>0, <2>13 DEF Arm, Goto, TypeOK
      <3> QED
        BY <3>1, <3>2 DEF TimerHeld, WillConnect, TimerReady, Armed
    <2>14. ASSUME NEW t \in Threads, Drop(t) PROVE WillConnect'
      BY <2>14, <1>0, <1>3, <2>0 DEF Drop, Goto, flags, TypeOK, MainFirst, WillConnect,
         Reconnecting, Threads
    <2>15. ASSUME NEW t \in Threads, Close(t) PROVE WillConnect'
      BY <2>15, <1>0, <1>3, <2>0 DEF Close, Goto, flags, TypeOK, MainFirst, WillConnect,
         Reconnecting, Threads
    <2>16. ASSUME ReceiveAck PROVE WillConnect'
      BY <2>16, <1>0, <1>3, <2>0 DEF ReceiveAck, Goto, Receive, Ready, flags, TypeOK,
         MainFirst, WillConnect, Reconnecting, Threads
    <2>17. ASSUME ReceiveRejection PROVE WillConnect'
      BY <2>17, <1>0, <1>3, <2>0 DEF ReceiveRejection, Goto, Receive, Ready, flags, TypeOK,
         MainFirst, WillConnect, Reconnecting, Threads
    <2>18. ASSUME NEW w \in Works, ReceiveWork(w) PROVE WillConnect'
      BY <2>18, <1>0, <1>3, <2>0 DEF ReceiveWork, Goto, Receive, Ready, flags, TypeOK,
         MainFirst, WillConnect, Reconnecting, Threads
    <2>19. ASSUME ReadAgain PROVE WillConnect'
      BY <2>19, <1>0, <1>3, <2>0 DEF ReadAgain, Goto, flags, TypeOK, MainFirst,
         WillConnect, Reconnecting, Threads
    <2>20. ASSUME Launch PROVE WillConnect'
      BY <2>20, <1>0, <1>3, <2>0 DEF Launch, flags, TypeOK, MainFirst, WillConnect,
         Reconnecting, Threads
    <2>21. ASSUME TakeSolution PROVE WillConnect'
      BY <2>21, <1>0, <1>3, <2>0 DEF TakeSolution, Goto, Polling, flags, TypeOK, MainFirst,
         WillConnect, Reconnecting, Threads
    <2>22. ASSUME GetWork PROVE WillConnect'
      BY <2>22, <1>0, <1>3, <2>0 DEF GetWork, Polling, flags, TypeOK, MainFirst,
         WillConnect, Reconnecting, Threads
    <2>23. ASSUME Leave PROVE WillConnect'
      BY <2>23, <1>0, <1>3, <2>0 DEF Leave, Goto, Polling, flags, TypeOK, MainFirst,
         WillConnect, Reconnecting, Threads
    <2>24. ASSUME CheckConnected PROVE WillConnect'
      BY <2>24, <1>0, <1>3, <2>0 DEF CheckConnected, Goto, flags, TypeOK, MainFirst,
         WillConnect, Reconnecting, Threads
    <2>25. ASSUME WriteShare PROVE WillConnect'
      BY <2>25, <1>0, <1>3, <2>0 DEF WriteShare, Goto, Write, flags, TypeOK, MainFirst,
         WillConnect, Reconnecting, Threads
    <2>26. ASSUME UNCHANGED vars PROVE WillConnect'
      BY <2>26, <1>0, <1>3, <2>0 DEF vars, flags, TypeOK, MainFirst, WillConnect,
         Reconnecting, Threads
    <2> QED
      BY <2>1, <2>2, <2>3, <2>4, <2>5, <2>6, <2>7, <2>8, <2>9, <2>10, <2>11, <2>12, <2>13, <2>14,
         <2>15, <2>16, <2>17, <2>18, <2>19, <2>20, <2>21, <2>22, <2>23, <2>24, <2>25, <2>26,
         <1>7 DEF Next, Main, Io, connectStratum, reconnect, Threads, Takes
  <1> QED
    BY <1>4, <1>5, <1>6, <1>7 DEF Takes

\* The io thread is idle again only when it has started a read, or not
\* connected and so with a timer.
LEMMA WaitingStep ==
    ASSUME IInv, [Next]_vars
    PROVE Waiting'
  <1>0. TypeOK /\ MainFirst /\ TimerHeld /\ WillConnect /\ Waiting
    BY DEF IInv
  <1>1. TimerReady' => SomethingPending'
    BY EmptyHasNoTimer DEF TimerReady, SomethingPending
  <1>2. \A t \in Threads : Expire(t) => SomethingPending'
    BY <1>0, TakeSteps
  <1>3. HandleFailed /\ TimerReady => TimerReady'
    BY <1>0, TakeSteps
  <1>4. \A t \in Threads : pc[t] \in {"drop", "close"} => TimerReady
    BY <1>0, HeldIsArmed
  <1>5. reading' \/ queue' # <<>> => SomethingPending'
    BY DEF SomethingPending
  <1>6. ASSUME NEW t \in Threads, Expire(t) PROVE Waiting'
    BY <1>6, <1>2 DEF Expire, flags, Waiting
  <1>7. ASSUME HandleTimer PROVE Waiting'
    BY <1>7, <1>0 DEF HandleTimer, Goto, Ready, flags, TypeOK, MainFirst, WillConnect,
       Waiting, Reconnecting, Threads
  <1>8. ASSUME HandleFailed PROVE Waiting'
    BY <1>8, <1>0, <1>1, <1>3 DEF HandleFailed, Goto, Ready, flags, TypeOK, MainFirst,
       WillConnect, Waiting, Reconnecting, Threads
  <1>9. ASSUME ReceiveAck PROVE Waiting'
    BY <1>9, <1>0 DEF ReceiveAck, Goto, Receive, Ready, flags, TypeOK, MainFirst,
       WillConnect, Waiting, Reconnecting, Threads
  <1>10. ASSUME ReceiveRejection PROVE Waiting'
    BY <1>10, <1>0 DEF ReceiveRejection, Goto, Receive, Ready, flags, TypeOK, MainFirst,
       WillConnect, Waiting, Reconnecting, Threads
  <1>11. ASSUME NEW w \in Works, ReceiveWork(w) PROVE Waiting'
    BY <1>11, <1>0 DEF ReceiveWork, Goto, Receive, Ready, flags, TypeOK, MainFirst,
       WillConnect, Waiting, Reconnecting, Threads
  <1>12. ASSUME ~Takes, ~Receives PROVE Waiting'
    <2>0. SomethingPending => SomethingPending'
      BY <1>0, <1>12, QuietSteps, QuietKeeps, ReadSteps
    <2>1. TimerReady => TimerReady'
      BY <1>0, <1>12, QuietSteps, QuietKeeps
    <2>2. Append(queue, "failed") # <<>>
      BY <1>0, FailedAppended
    <2>3. ASSUME NEW e \in {"good", "refuses", "unresolved"}, Settle(e) PROVE Waiting'
      BY <2>3, <1>0, <1>1, <1>4, <1>5, <2>0, <2>1, <2>2 DEF Settle, flags, TypeOK,
         MainFirst, WillConnect, Waiting, Reconnecting, Threads
    <2>4. ASSUME Lose PROVE Waiting'
      BY <2>4, <1>0, <1>1, <1>4, <1>5, <2>0, <2>1, <2>2 DEF Lose, flags, TypeOK, MainFirst,
         WillConnect, Waiting, Reconnecting, Threads
    <2>5. ASSUME NEW t \in Threads, Connect(t) PROVE Waiting'
      BY <2>5, <1>0, <1>1, <1>4, <1>5, <2>0, <2>1, <2>2 DEF Connect, Goto, flags, TypeOK,
         MainFirst, WillConnect, Waiting, Reconnecting, Threads
    <2>6. ASSUME NEW t \in Threads, ConnectRefused(t) PROVE Waiting'
      BY <2>6, <1>0, <1>1, <1>4, <1>5, <2>0, <2>1, <2>2 DEF ConnectRefused, Goto, flags,
         TypeOK, MainFirst, WillConnect, Waiting, Reconnecting, Threads
    <2>7. ASSUME NEW t \in Threads, ConnectThrows(t) PROVE Waiting'
      BY <2>7, <1>0, <1>1, <1>4, <1>5, <2>0, <2>1, <2>2 DEF ConnectThrows, Goto, flags,
         TypeOK, MainFirst, WillConnect, Waiting, Reconnecting, Threads
    <2>8. ASSUME NEW t \in Threads, Established(t) PROVE Waiting'
      BY <2>8, <1>0, <1>1, <1>4, <1>5, <2>0, <2>1, <2>2 DEF Established, Goto, flags,
         TypeOK, MainFirst, WillConnect, Waiting, Reconnecting, Threads
    <2>9. ASSUME NEW t \in Threads, Subscribe(t) PROVE Waiting'
      BY <2>9, <1>0, <1>1, <1>4, <1>5, <2>0, <2>1, <2>2 DEF Subscribe, Goto, Write, flags,
         TypeOK, MainFirst, WillConnect, Waiting, Reconnecting, Threads
    <2>10. ASSUME NEW t \in Threads, Listen(t) PROVE Waiting'
      BY <2>10, <1>0, <1>1, <1>4, <1>5, <2>0, <2>1, <2>2 DEF Listen, Goto, readline,
         AfterConnect, flags, TypeOK, MainFirst, WillConnect, Waiting, Reconnecting, Threads
    <2>11. ASSUME NEW t \in Threads, Count(t) PROVE Waiting'
      BY <2>11, <1>0, <1>1, <1>4, <1>5, <2>0, <2>1, <2>2 DEF Count, Goto, flags, TypeOK,
         MainFirst, WillConnect, Waiting, Reconnecting, Threads
    <2>12. ASSUME NEW t \in Threads, Store(t) PROVE Waiting'
      BY <2>12, <1>0, <1>1, <1>4, <1>5, <2>0, <2>1, <2>2 DEF Store, StoreThen, Goto, flags,
         TypeOK, MainFirst, WillConnect, Waiting, Reconnecting, Threads
    <2>13. ASSUME NEW t \in Threads, GiveUp(t) PROVE Waiting'
      BY <2>13, <1>0, <1>1, <1>4, <1>5, <2>0, <2>1, <2>2 DEF GiveUp, Goto, flags, TypeOK,
         MainFirst, WillConnect, Waiting, Reconnecting, Threads
    <2>14. ASSUME NEW t \in Threads, Retry(t) PROVE Waiting'
      BY <2>14, <1>0, <1>1, <1>4, <1>5, <2>0, <2>1, <2>2 DEF Retry, Goto, flags, TypeOK,
         MainFirst, WillConnect, Waiting, Reconnecting, Threads
    <2>15. ASSUME NEW t \in Threads, Arm(t) PROVE Waiting'
      BY <2>15, <1>0, <1>1, <1>4, <1>5, <2>0, <2>1, <2>2 DEF Arm, Goto, flags, TypeOK,
         MainFirst, WillConnect, Waiting, Reconnecting, Threads
    <2>16. ASSUME NEW t \in Threads, Drop(t) PROVE Waiting'
      BY <2>16, <1>0, <1>1, <1>4, <1>5, <2>0, <2>1, <2>2 DEF Drop, Goto, flags, TypeOK,
         MainFirst, WillConnect, Waiting, Reconnecting, Threads
    <2>17. ASSUME NEW t \in Threads, Close(t) PROVE Waiting'
      BY <2>17, <1>0, <1>1, <1>4, <1>5, <2>0, <2>1, <2>2 DEF Close, Goto, flags, TypeOK,
         MainFirst, WillConnect, Waiting, Reconnecting, Threads
    <2>18. ASSUME ReadAgain PROVE Waiting'
      BY <2>18, <1>0, <1>1, <1>4, <1>5, <2>0, <2>1, <2>2 DEF ReadAgain, Goto, readline,
         flags, TypeOK, MainFirst, WillConnect, Waiting, Reconnecting, Threads
    <2>19. ASSUME Launch PROVE Waiting'
      BY <2>19, <1>0, <1>1, <1>4, <1>5, <2>0, <2>1, <2>2 DEF Launch, flags, TypeOK,
         MainFirst, WillConnect, Waiting, Reconnecting, Threads
    <2>20. ASSUME TakeSolution PROVE Waiting'
      BY <2>20, <1>0, <1>1, <1>4, <1>5, <2>0, <2>1, <2>2 DEF TakeSolution, Goto, Polling,
         flags, TypeOK, MainFirst, WillConnect, Waiting, Reconnecting, Threads
    <2>21. ASSUME GetWork PROVE Waiting'
      BY <2>21, <1>0, <1>1, <1>4, <1>5, <2>0, <2>1, <2>2 DEF GetWork, Polling, flags,
         TypeOK, MainFirst, WillConnect, Waiting, Reconnecting, Threads
    <2>22. ASSUME Leave PROVE Waiting'
      BY <2>22, <1>0, <1>1, <1>4, <1>5, <2>0, <2>1, <2>2 DEF Leave, Goto, Polling, flags,
         TypeOK, MainFirst, WillConnect, Waiting, Reconnecting, Threads
    <2>23. ASSUME CheckConnected PROVE Waiting'
      BY <2>23, <1>0, <1>1, <1>4, <1>5, <2>0, <2>1, <2>2 DEF CheckConnected, Goto, flags,
         TypeOK, MainFirst, WillConnect, Waiting, Reconnecting, Threads
    <2>24. ASSUME WriteShare PROVE Waiting'
      BY <2>24, <1>0, <1>1, <1>4, <1>5, <2>0, <2>1, <2>2 DEF WriteShare, Goto, Write,
         flags, TypeOK, MainFirst, WillConnect, Waiting, Reconnecting, Threads
    <2>25. ASSUME UNCHANGED vars PROVE Waiting'
      BY <2>25, <1>0, <1>1, <1>4, <1>5, <2>0, <2>1, <2>2 DEF vars, flags, TypeOK,
         MainFirst, WillConnect, Waiting, Reconnecting, Threads
    <2> QED
      BY <2>3, <2>4, <2>5, <2>6, <2>7, <2>8, <2>9, <2>10, <2>11, <2>12, <2>13, <2>14, <2>15, <2>16,
         <2>17, <2>18, <2>19, <2>20, <2>21, <2>22, <2>23, <2>24, <2>25, <1>12 DEF Next,
         Main, Io, connectStratum, reconnect, Threads, Takes, Receives
  <1> QED
    BY <1>6, <1>7, <1>8, <1>9, <1>10, <1>11, <1>12 DEF Takes, Receives
-----------------------------------------------------------------------------
(* Theorems *)

LEMMA InitInv == Init => IInv
  <1> SUFFICES ASSUME Init PROVE IInv
    OBVIOUS
  <1>1. <<>> \in Seq(Handlers)
    OBVIOUS
  <1>2. PlainTypes /\ Control
    BY DEF Init, PlainTypes, Control, Places, Nexts, Threads
  <1>3. RetriesType /\ timers \in [Threads -> 0 .. MaxTimers]
    BY LimitIsNatural, TimersAssumption DEF Init, RetriesType, Threads
  <1>4. TypeOK
    BY <1>1, <1>2, <1>3, Types DEF Init
  <1> QED
    BY <1>4 DEF Init, IInv, MainFirst, TimerHeld, WillConnect, Waiting, Reconnecting, Threads

LEMMA StepInv == IInv /\ [Next]_vars => IInv'
  <1> SUFFICES ASSUME IInv, [Next]_vars PROVE IInv'
    OBVIOUS
  <1>1. TypeOK' /\ MainFirst' /\ TimerHeld'
    BY TypeStep, MainFirstStep, TimerHeldStep DEF IInv
  <1> QED
    BY <1>1, WillConnectStep, WaitingStep DEF IInv

\* Whatever the network does, the invariant above holds.
THEOREM Invariance == Spec => []IInv
  BY InitInv, StepInv, PTL DEF Spec

\* Flags, retries (never past one more than the limit), timers and queues
\* stay in their ranges.
THEOREM TypeCorrect == Spec => []TypeOK
  <1>1. IInv => TypeOK
    BY DEF IInv
  <1> QED
    BY <1>1, Invariance, PTL

\* A running client is never left with neither a read, nor a timer, nor a
\* handler to run: the io_service never spins (EthStratumClient.cpp:63-80).
THEOREM NeverStranded == Spec => []AlwaysPending
  <1>1. IInv => AlwaysPending
    BY DEF IInv, Waiting, SomethingPending, Armed, AlwaysPending
  <1> QED
    BY <1>1, Invariance, PTL
-----------------------------------------------------------------------------
(* Giving up, step by step: GivesUp without time *)

\* The pool refuses every connection, there is none left, and the main thread
\* finds no write broken, so that only the io thread reconnects; nor has it
\* counted just now, while the io thread was counting.
Refused == /\ env = "refuses" /\ sock # "open" /\ running
           /\ pc["io"] # "established"
           /\ pc["main"] \in {"poll", "check", "left"}
           /\ pc["io"] = "store" => seen["io"] = retries

\* A running count that meets the limit is about to be compared with it.
OnTheWay == /\ Refused /\ failover
            /\ \/ retries < maxRetries
               \/ retries = maxRetries /\ pc["io"] = "limit"

\* How far a place of the io thread is from the next count, with nothing else
\* to do ...
FromHere(place) == IF place = "limit" THEN 10 ELSE IF place = "arm" THEN 9
                   ELSE IF place = "drop" THEN 6 ELSE IF place \in {"close", "subscribe"} THEN 5
                   ELSE IF place \in {"listen", "again"} THEN 4 ELSE IF place = "count" THEN 1
                   ELSE IF place = "store" THEN 0 ELSE 2

\* ... and with the handlers and timers that may still come in between.
ToCount == FromHere(pc["io"]) + 2 * (timers["main"] + timers["io"]) + Len(queue)
           + (IF reading THEN 1 ELSE 0)

\* While a pool refuses, the count of retries goes up one by one, every step
\* of the io thread and every timer brings the next count closer, and the
\* client does not get past the limit.
ComesCloser ==
    [][OnTheWay /\ pc'["main"] # "write" =>
          \/ ~running'
          \/ /\ OnTheWay'
             /\ \/ retries' = retries + 1
                \/ /\ retries' = retries
                   /\ ToCount' <= ToCount
                   /\ Io \/ (\E t \in Threads : Expire(t)) => ToCount' < ToCount]_vars

\* Where reconnect leaves the io thread.
IoPlaces == /\ then["io"] \in {"idle", "listen", "again"}
            /\ pc["io"] \notin {"launch", "poll", "check", "write", "left"}

\* A connection that is complete: nothing is left over from earlier ones.
Settled == /\ env = "good" /\ running /\ Online
           /\ queue = <<>> /\ \A t \in Threads : timers[t] = 0
           /\ \/ pc["io"] = "idle" /\ reading
              \/ pc["io"] = "again"
           /\ pc["main"] \in {"poll", "check", "write", "left"}

StaysConnected == [][Settled => Settled']_vars

Rest == Len(queue) + (IF reading THEN 1 ELSE 0)
Armings == timers["main"] + timers["io"]

\* ToCount in its parts.
LEMMA CountParts ==
    ASSUME TypeOK, TypeOK'
    PROVE  /\ ToCount = FromHere(pc["io"]) + 2 * Armings + Rest
           /\ FromHere(pc["io"]) \in Nat /\ Armings \in Nat /\ Rest \in Nat
           /\ ToCount' = FromHere(pc["io"])' + 2 * Armings' + Rest'
           /\ FromHere(pc["io"])' \in Nat /\ Armings' \in Nat /\ Rest' \in Nat
<1>1. /\ timers["main"] \in Nat /\ timers["io"] \in Nat /\ Len(queue) \in Nat
      /\ timers'["main"] \in Nat /\ timers'["io"] \in Nat /\ Len(queue') \in Nat
  BY TimersAssumption DEF TypeOK, Threads
<1>2. (IF reading THEN 1 ELSE 0) \in 0 .. 1 /\ (IF reading' THEN 1 ELSE 0) \in 0 .. 1
  OBVIOUS
<1>3. /\ ToCount = FromHere(pc["io"]) + 2 * Armings + Rest
      /\ FromHere(pc["io"]) \in Nat /\ Armings \in Nat /\ Rest \in Nat
  <2> DEFINE h == FromHere(pc["io"])
             a == timers["main"]
             b == timers["io"]
             n == Len(queue)
             r == IF reading THEN 1 ELSE 0
  <2>1. a \in Nat /\ b \in Nat /\ n \in Nat /\ r \in 0 .. 1
    BY <1>1, <1>2
  <2>2. h \in Nat
    BY DEF FromHere
  <2>3. ToCount = h + 2 * (a + b) + n + r
    BY DEF ToCount
  <2>4. Armings = a + b /\ Rest = n + r
    BY DEF Armings, Rest
  <2>5. FromHere(pc["io"]) = h
    OBVIOUS
  <2> HIDE DEF h, a, b, n, r
  <2> QED
    BY <2>1, <2>2, <2>3, <2>4, <2>5
<1>4. /\ ToCount' = FromHere(pc["io"])' + 2 * Armings' + Rest'
      /\ FromHere(pc["io"])' \in Nat /\ Armings' \in Nat /\ Rest' \in Nat
  <2> DEFINE h == FromHere(pc["io"])'
             a == timers'["main"]
             b == timers'["io"]
             n == Len(queue')
             r == IF reading' THEN 1 ELSE 0
  <2>1. a \in Nat /\ b \in Nat /\ n \in Nat /\ r \in 0 .. 1
    BY <1>1, <1>2
  <2>2. h \in Nat
    BY DEF FromHere
  <2>3. ToCount' = h + 2 * (a + b) + n + r
    BY DEF ToCount
  <2>4. Armings' = a + b /\ Rest' = n + r
    BY DEF Armings, Rest
  <2>5. FromHere(pc["io"])' = h
    OBVIOUS
  <2> HIDE DEF h, a, b, n, r
  <2> QED
    BY <2>1, <2>2, <2>3, <2>4, <2>5
<1> QED
  BY <1>3, <1>4

LEMMA AppendRest ==
    ASSUME TypeOK, NEW h \in Handlers, queue' = Append(queue, h)
    PROVE  /\ reading' = reading => Rest' = Rest + 1
           /\ reading /\ ~reading' => Rest' = Rest
<1> DEFINE n == Len(queue)
           k == Len(queue')
<1>1. n \in Nat /\ k = n + 1
  BY DEF TypeOK, Handlers
<1>2. Rest = n + (IF reading THEN 1 ELSE 0) /\ Rest' = k + (IF reading' THEN 1 ELSE 0)
  BY DEF Rest
<1> HIDE DEF n, k
<1> QED
  BY <1>1, <1>2

LEMMA TailRest ==
    ASSUME TypeOK, queue # <<>>, queue' = Tail(queue), reading' = reading
    PROVE  Rest' = Rest - 1
<1> DEFINE n == Len(queue)
           k == Len(queue')
<1>1. n \in Nat /\ k = n - 1
  BY DEF TypeOK
<1>2. Rest = n + (IF reading THEN 1 ELSE 0) /\ Rest' = k + (IF reading THEN 1 ELSE 0)
  BY DEF Rest
<1> HIDE DEF n, k
<1> QED
  BY <1>1, <1>2

LEMMA FailRest ==
    ASSUME TypeOK, FailRead
    PROVE  Rest' = Rest
<1>1. CASE reading
  BY <1>1, AppendRest DEF FailRead, Handlers
<1>2. CASE ~reading
  BY <1>2 DEF FailRead, Rest, TypeOK
<1> QED
  BY <1>1, <1>2

LEMMA IoPlacesStep == TypeOK /\ MainFirst /\ IoPlaces /\ [Next]_vars => IoPlaces'
<1> SUFFICES ASSUME TypeOK, MainFirst, IoPlaces, [Next]_vars PROVE IoPlaces'
  OBVIOUS
<1> USE DEF IoPlaces, TypeOK, Threads, Goto
<1>1. ASSUME NEW t \in Threads, connectStratum(t) PROVE IoPlaces'
  BY <1>1 DEF connectStratum, Connect, ConnectRefused, ConnectThrows, Established, Subscribe,
     Write, Listen, AfterConnect
<1>2. ASSUME NEW t \in Threads, reconnect(t) PROVE IoPlaces'
  BY <1>2 DEF reconnect, Count, Store, StoreThen, GiveUp, Retry, Arm, Drop, Close
<1>3. ASSUME HandleTimer \/ HandleFailed \/ ReceiveAck \/ ReceiveRejection
             \/ (\E w \in Works : ReceiveWork(w)) \/ ReadAgain
      PROVE  IoPlaces'
  BY <1>3 DEF HandleTimer, HandleFailed, ReceiveAck, ReceiveRejection, ReceiveWork, ReadAgain
<1>4. ASSUME Launch \/ TakeSolution \/ GetWork \/ Leave \/ CheckConnected \/ WriteShare
      PROVE  IoPlaces'
  BY <1>4 DEF Launch, TakeSolution, GetWork, Leave, CheckConnected, WriteShare, Write
<1>5. ASSUME (\E e \in {"good", "refuses", "unresolved"} : Settle(e)) \/ Lose
             \/ (\E t \in Threads : Expire(t)) \/ UNCHANGED vars
      PROVE  IoPlaces'
  BY <1>5 DEF Settle, Lose, Expire, vars
<1> QED
  BY <1>1, <1>2, <1>3, <1>4, <1>5 DEF Next, Main, Io

LEMMA IoPlacesInvariant == Spec => []IoPlaces
<1>1. Init => IoPlaces
  BY DEF Init, IoPlaces, Threads
<1>2. IInv => TypeOK /\ MainFirst
  BY DEF IInv
<1> QED
  BY <1>1, <1>2, IoPlacesStep, Invariance, PTL DEF Spec

\* What a step that keeps the count and comes closer to the next has to show.
LEMMA Closer ==
    ASSUME IInv, IInv', OnTheWay, running',
           retries' = retries, retries < maxRetries \/ pc'["io"] = "limit",
           env' = env, failover' = failover, sock' # "open", pc'["io"] # "established",
           pc'["main"] \in {"poll", "check", "left"},
           pc'["io"] = "store" => seen'["io"] = retries',
           FromHere(pc["io"])' + 2 * Armings' + Rest' < FromHere(pc["io"]) + 2 * Armings + Rest
    PROVE  OnTheWay' /\ ToCount' < ToCount
<1>1. ToCount' < ToCount
  BY CountParts DEF IInv
<1>2. maxRetries' = maxRetries
  BY DEF maxRetries
<1> QED
  BY <1>1, <1>2 DEF OnTheWay, Refused

LEMMA RefusedIo ==
    ASSUME IInv, IInv', IoPlaces, OnTheWay, Io, running'
    PROVE  OnTheWay' /\ \/ retries' = retries + 1
                        \/ retries' = retries /\ ToCount' < ToCount
<1> USE DEF IInv, TypeOK, Threads, Goto
<1>0. /\ pc["io"] # "limit" => retries < maxRetries
      /\ maxRetries \in Nat /\ retries \in Nat /\ env = "refuses" /\ sock # "open" /\ failover /\ running
      /\ pc["main"] \in {"poll", "check", "left"} /\ pc["io"] # "established"
  BY LimitIsNatural DEF OnTheWay, Refused
<1>1. Armings \in Nat /\ Rest \in Nat /\ TypeOK
  BY CountParts
<1>2. CASE ConnectRefused("io")
  <2>1. Rest' = Rest /\ Armings' = Armings
    BY <1>2, FailRest DEF ConnectRefused, Armings
  <2>2. FromHere(pc["io"])' = 1 /\ FromHere(pc["io"]) = 2
    BY <1>2 DEF ConnectRefused, FromHere
  <2>3. /\ retries' = retries /\ (retries < maxRetries \/ pc'["io"] = "limit")
        /\ env' = env /\ failover' = failover /\ sock' # "open" /\ pc'["io"] # "established"
        /\ pc'["main"] \in {"poll", "check", "left"}
        /\ pc'["io"] = "store" => seen'["io"] = retries'
    BY <1>0, <1>2, <2>1, <2>2 DEF ConnectRefused, count
  <2> HIDE DEF IInv, TypeOK
  <2>4. FromHere(pc["io"])' + 2 * Armings' + Rest' < FromHere(pc["io"]) + 2 * Armings + Rest
    BY <1>1, <2>1, <2>2
  <2> QED
    BY <2>3, <2>4, Closer
<1>3. CASE Subscribe("io")
  <2>1. Rest' = Rest /\ Armings' = Armings
    BY <1>3 DEF Subscribe, sockVars, ioVars, Rest, Armings
  <2>2. FromHere(pc["io"])' \in {1, 4} /\ FromHere(pc["io"]) = 5
    BY <1>3 DEF Subscribe, Write, FromHere
  <2>3. /\ retries' = retries /\ (retries < maxRetries \/ pc'["io"] = "limit")
        /\ env' = env /\ failover' = failover /\ sock' # "open" /\ pc'["io"] # "established"
        /\ pc'["main"] \in {"poll", "check", "left"}
        /\ pc'["io"] = "store" => seen'["io"] = retries'
    BY <1>0, <1>3, <2>1, <2>2 DEF Subscribe, Write, flags, sockVars, count
  <2> HIDE DEF IInv, TypeOK
  <2>4. FromHere(pc["io"])' + 2 * Armings' + Rest' < FromHere(pc["io"]) + 2 * Armings + Rest
    BY <1>1, <2>1, <2>2
  <2> QED
    BY <2>3, <2>4, Closer
<1>4. CASE Listen("io")
  <2>1. Rest' = Rest + 1 /\ Armings' = Armings
    BY <1>0, <1>1, <1>4, AppendRest DEF Listen, readline, Armings, Handlers
  <2>2. FromHere(pc["io"])' = 2 /\ FromHere(pc["io"]) = 4
    BY <1>4 DEF Listen, AfterConnect, FromHere
  <2>3. /\ retries' = retries /\ (retries < maxRetries \/ pc'["io"] = "limit")
        /\ env' = env /\ failover' = failover /\ sock' # "open" /\ pc'["io"] # "established"
        /\ pc'["main"] \in {"poll", "check", "left"}
        /\ pc'["io"] = "store" => seen'["io"] = retries'
    BY <1>0, <1>4, <2>1, <2>2 DEF Listen, AfterConnect, flags, count
  <2> HIDE DEF IInv, TypeOK
  <2>4. FromHere(pc["io"])' + 2 * Armings' + Rest' < FromHere(pc["io"]) + 2 * Armings + Rest
    BY <1>1, <2>1, <2>2
  <2> QED
    BY <2>3, <2>4, Closer
<1>5. CASE Count("io")
  <2>1. Rest' = Rest /\ Armings' = Armings
    BY <1>5 DEF Count, sockVars, ioVars, Rest, Armings
  <2>2. FromHere(pc["io"])' = 0 /\ FromHere(pc["io"]) = 1
    BY <1>5 DEF Count, FromHere
  <2>3. /\ retries' = retries /\ (retries < maxRetries \/ pc'["io"] = "limit")
        /\ env' = env /\ failover' = failover /\ sock' # "open" /\ pc'["io"] # "established"
        /\ pc'["main"] \in {"poll", "check", "left"}
        /\ pc'["io"] = "store" => seen'["io"] = retries'
    BY <1>0, <1>5, <2>1, <2>2 DEF Count, flags, sockVars, count
  <2> HIDE DEF IInv, TypeOK
  <2>4. FromHere(pc["io"])' + 2 * Armings' + Rest' < FromHere(pc["io"]) + 2 * Armings + Rest
    BY <1>1, <2>1, <2>2
  <2> QED
    BY <2>3, <2>4, Closer
<1>6. CASE Store("io")
  <2>1. retries' = retries + 1 /\ pc' = [pc EXCEPT !["io"] = "limit"]
    BY <1>0, <1>6 DEF Store, StoreThen, OnTheWay, Refused
  <2>2. maxRetries' = maxRetries
    BY <1>6 DEF maxRetries, Store, StoreThen
  <2> QED
    BY <1>0, <1>6, <2>1, <2>2 DEF Store, StoreThen, OnTheWay, Refused, flags, sockVars
<1>7. CASE Retry("io")
  <2>1. Rest' = Rest /\ Armings' = Armings
    BY <1>7 DEF Retry, sockVars, ioVars, Rest, Armings
  <2>2. FromHere(pc["io"])' = 9 /\ FromHere(pc["io"]) = 10
    BY <1>7 DEF Retry, FromHere
  <2>3. retries < maxRetries
    BY <1>0, <1>7 DEF Retry, OnTheWay
  <2>4. /\ retries' = retries /\ (retries < maxRetries \/ pc'["io"] = "limit")
        /\ env' = env /\ failover' = failover /\ sock' # "open" /\ pc'["io"] # "established"
        /\ pc'["main"] \in {"poll", "check", "left"}
        /\ pc'["io"] = "store" => seen'["io"] = retries'
    BY <1>0, <1>7, <2>1, <2>2, <2>3 DEF Retry, flags, sockVars, count
  <2> HIDE DEF IInv, TypeOK
  <2>5. FromHere(pc["io"])' + 2 * Armings' + Rest' < FromHere(pc["io"]) + 2 * Armings + Rest
    BY <1>1, <2>1, <2>2, <2>3
  <2> QED
    BY <2>4, <2>5, Closer
<1>8. CASE Arm("io")
  <2>1. Rest' = Rest
    BY <1>8 DEF Arm, sockVars, Rest
  <2>2. Armings' \in {Armings, Armings + 1}
    BY <1>8, TimersAssumption DEF Arm, Armings
  <2>3. FromHere(pc["io"])' = 6 /\ FromHere(pc["io"]) = 9
    BY <1>8 DEF Arm, FromHere
  <2>4. /\ retries' = retries /\ (retries < maxRetries \/ pc'["io"] = "limit")
        /\ env' = env /\ failover' = failover /\ sock' # "open" /\ pc'["io"] # "established"
        /\ pc'["main"] \in {"poll", "check", "left"}
        /\ pc'["io"] = "store" => seen'["io"] = retries'
    BY <1>0, <1>8, <2>1, <2>2, <2>3 DEF Arm, flags, sockVars, count
  <2> HIDE DEF IInv, TypeOK
  <2>5. FromHere(pc["io"])' + 2 * Armings' + Rest' < FromHere(pc["io"]) + 2 * Armings + Rest
    <3>1. CASE Armings' = Armings
      BY <1>1, <2>1, <2>2, <2>3, <3>1
    <3>2. CASE Armings' = Armings + 1
      BY <1>1, <2>1, <2>2, <2>3, <3>2
    <3> QED
      BY <2>2, <3>1, <3>2
  <2> QED
    BY <2>4, <2>5, Closer
<1>9. CASE Drop("io")
  <2>1. Rest' = Rest /\ Armings' = Armings
    BY <1>9 DEF Drop, sockVars, ioVars, Rest, Armings
  <2>2. FromHere(pc["io"])' = 5 /\ FromHere(pc["io"]) = 6
    BY <1>9 DEF Drop, FromHere
  <2>3. /\ retries' = retries /\ (retries < maxRetries \/ pc'["io"] = "limit")
        /\ env' = env /\ failover' = failover /\ sock' # "open" /\ pc'["io"] # "established"
        /\ pc'["main"] \in {"poll", "check", "left"}
        /\ pc'["io"] = "store" => seen'["io"] = retries'
    BY <1>0, <1>9, <2>1, <2>2 DEF Drop, sockVars, count
  <2> HIDE DEF IInv, TypeOK
  <2>4. FromHere(pc["io"])' + 2 * Armings' + Rest' < FromHere(pc["io"]) + 2 * Armings + Rest
    BY <1>1, <2>1, <2>2
  <2> QED
    BY <2>3, <2>4, Closer
<1>10. CASE Close("io")
  <2>1. Rest' = Rest /\ Armings' = Armings
    BY <1>10, FailRest DEF Close, Armings
  <2>2. pc["io"] = "close" /\ pc'["io"] \in {"idle", "listen", "again"}
    BY <1>10 DEF Close, IoPlaces
  <2>3. FromHere(pc["io"])' \in {2, 4} /\ FromHere(pc["io"]) = 5
    BY <2>2 DEF FromHere
  <2>4. /\ retries' = retries /\ (retries < maxRetries \/ pc'["io"] = "limit")
        /\ env' = env /\ failover' = failover /\ sock' # "open" /\ pc'["io"] # "established"
        /\ pc'["main"] \in {"poll", "check", "left"}
        /\ pc'["io"] = "store" => seen'["io"] = retries'
    BY <1>0, <1>10, <2>1, <2>2, <2>3 DEF Close, flags, count
  <2> HIDE DEF IInv, TypeOK
  <2>5. FromHere(pc["io"])' + 2 * Armings' + Rest' < FromHere(pc["io"]) + 2 * Armings + Rest
    BY <1>1, <2>1, <2>2, <2>3
  <2> QED
    BY <2>4, <2>5, Closer
<1>11. CASE HandleTimer \/ HandleFailed
  <2>1. /\ UNCHANGED <<retries, reading, timers, env, failover, sock>>
        /\ queue # <<>> /\ queue' = Tail(queue)
        /\ pc["io"] = "idle" /\ pc'["io"] \in {"connect", "count", "idle"} /\ pc'["main"] = pc["main"]
    BY <1>11 DEF HandleTimer, HandleFailed, Ready, flags, sockVars, count
  <2>2. Rest' = Rest - 1 /\ Armings' = Armings
    BY <1>1, <2>1, TailRest DEF Armings
  <2>3. FromHere(pc["io"])' \in {1, 2} /\ FromHere(pc["io"]) = 2
    BY <2>1 DEF FromHere
  <2>4. /\ retries' = retries /\ (retries < maxRetries \/ pc'["io"] = "limit")
        /\ env' = env /\ failover' = failover /\ sock' # "open" /\ pc'["io"] # "established"
        /\ pc'["main"] \in {"poll", "check", "left"}
        /\ pc'["io"] = "store" => seen'["io"] = retries'
    BY <1>0, <2>1, <2>2, <2>3
  <2> HIDE DEF IInv, TypeOK
  <2>5. FromHere(pc["io"])' + 2 * Armings' + Rest' < FromHere(pc["io"]) + 2 * Armings + Rest
    BY <1>1, <2>1, <2>2, <2>3
  <2> QED
    BY <2>4, <2>5, Closer
<1>12. CASE ReadAgain
  <2>1. Rest' \in {Rest, Rest + 1} /\ Armings' = Armings
    <3>1. CASE connected
      BY <1>0, <1>1, <1>12, <3>1, AppendRest DEF ReadAgain, readline, Armings, Handlers
    <3>2. CASE ~connected
      BY <1>12, <3>2 DEF ReadAgain, Armings, Rest
    <3> QED
      BY <3>1, <3>2
  <2>2. FromHere(pc["io"])' = 2 /\ FromHere(pc["io"]) = 4
    BY <1>12 DEF ReadAgain, FromHere
  <2>3. /\ retries' = retries /\ (retries < maxRetries \/ pc'["io"] = "limit")
        /\ env' = env /\ failover' = failover /\ sock' # "open" /\ pc'["io"] # "established"
        /\ pc'["main"] \in {"poll", "check", "left"}
        /\ pc'["io"] = "store" => seen'["io"] = retries'
    BY <1>0, <1>12, <2>1, <2>2 DEF ReadAgain, flags, count
  <2> HIDE DEF IInv, TypeOK
  <2>4. FromHere(pc["io"])' + 2 * Armings' + Rest' < FromHere(pc["io"]) + 2 * Armings + Rest
    <3>1. CASE Rest' = Rest
      BY <1>1, <2>1, <2>2, <3>1
    <3>2. CASE Rest' = Rest + 1
      BY <1>1, <2>1, <2>2, <3>2
    <3> QED
      BY <2>1, <3>1, <3>2
  <2> QED
    BY <2>3, <2>4, Closer
<1>13. \/ ConnectRefused("io") \/ Subscribe("io") \/ Listen("io") \/ Count("io") \/ Store("io")
       \/ Retry("io") \/ Arm("io") \/ Drop("io") \/ Close("io") \/ HandleTimer \/ HandleFailed \/ ReadAgain
  BY <1>0 DEF Io, connectStratum, reconnect, Connect, ConnectThrows, Established, GiveUp, Receive,
     ReceiveAck, ReceiveRejection, ReceiveWork
<1> QED
  BY <1>2, <1>3, <1>4, <1>5, <1>6, <1>7, <1>8, <1>9, <1>10, <1>11, <1>12, <1>13

LEMMA RefusedElse ==
    ASSUME IInv, IInv', OnTheWay, [Next]_vars, ~Io, running', pc'["main"] # "write"
    PROVE  /\ OnTheWay' /\ retries' = retries /\ ToCount' <= ToCount
           /\ (\E t \in Threads : Expire(t)) => ToCount' < ToCount
<1>1. Armings \in Nat /\ Rest \in Nat /\ ToCount \in Int /\ ToCount' \in Int /\ FromHere(pc["io"]) \in Nat
  BY CountParts DEF IInv
<1> USE DEF IInv, TypeOK, Threads, Goto
<1>0. /\ env = "refuses" /\ sock # "open" /\ failover /\ running
      /\ pc["main"] \in {"poll", "check", "left"} /\ pc["io"] # "established"
      /\ retries < maxRetries \/ pc["io"] = "limit"
      /\ pc["io"] = "store" => seen["io"] = retries
  BY DEF OnTheWay, Refused
<1>2. ASSUME NEW t \in Threads, Expire(t) PROVE OnTheWay' /\ retries' = retries /\ ToCount' < ToCount
  <2>1. Rest' = Rest + 1
    BY <1>2, AppendRest DEF Expire, sockVars, Handlers
  <2>2. Armings' = Armings - 1
    BY <1>2, TimersAssumption DEF Expire, Armings
  <2>3. FromHere(pc["io"])' = FromHere(pc["io"])
    BY <1>2 DEF Expire, FromHere
  <2>4. /\ retries' = retries /\ (retries < maxRetries \/ pc'["io"] = "limit")
        /\ env' = env /\ failover' = failover /\ sock' # "open" /\ pc'["io"] # "established"
        /\ pc'["main"] \in {"poll", "check", "left"}
        /\ pc'["io"] = "store" => seen'["io"] = retries'
    BY <1>0, <1>2, <2>1, <2>2, <2>3 DEF Expire, flags, sockVars, count
  <2> HIDE DEF IInv, TypeOK
  <2>5. FromHere(pc["io"])' + 2 * Armings' + Rest' < FromHere(pc["io"]) + 2 * Armings + Rest
    BY <1>1, <2>1, <2>2, <2>3
  <2> QED
    BY <2>4, <2>5, Closer
<1>3. CASE TakeSolution \/ GetWork \/ Leave \/ CheckConnected \/ UNCHANGED vars
  <2>1. /\ UNCHANGED <<env, sock, failover, running, retries, seen, reading, timers, queue>>
        /\ pc'["io"] = pc["io"] /\ pc'["main"] \in {"poll", "check", "left"}
    BY <1>0, <1>3 DEF TakeSolution, GetWork, Leave, CheckConnected, flags, sockVars, ioVars, count,
       vars
  <2>2. OnTheWay'
    BY <2>1 DEF OnTheWay, Refused, maxRetries
  <2>3. ToCount' = ToCount
    BY <2>1 DEF ToCount, FromHere
  <2>4. ~\E t \in Threads : Expire(t)
    BY <1>2, <2>3, <1>1
  <2> QED
    BY <1>1, <2>1, <2>2, <2>3, <2>4
<1>4. (\E t \in Threads : Expire(t)) \/ TakeSolution \/ GetWork \/ Leave \/ CheckConnected \/ UNCHANGED vars
  BY <1>0 DEF Next, Settle, Lose, Main, connectStratum, reconnect, Connect, ConnectRefused, ConnectThrows,
     Established, Subscribe, Listen, Count, Store, StoreThen, GiveUp, Retry, Arm, Drop, Close, Launch, WriteShare
<1> QED
  <2>1. CASE \E t \in Threads : Expire(t)
    BY <1>1, <1>2, <2>1
  <2> QED
    BY <1>3, <1>4, <2>1

\* A pool that refuses is given up for the failover node after Retries rounds
\* of a bounded number of steps, whichever timers and failed reads are left
\* over from before, unless the main thread reconnects at the same time
\* (EthStratumClient.cpp:164-190).
THEOREM RefusalsAreCounted == Spec => ComesCloser
<1>1. ASSUME IInv, IInv', IoPlaces, [Next]_vars
      PROVE  [OnTheWay /\ pc'["main"] # "write" =>
                \/ ~running'
                \/ /\ OnTheWay'
                   /\ \/ retries' = retries + 1
                      \/ /\ retries' = retries
                         /\ ToCount' <= ToCount
                         /\ Io \/ (\E t \in Threads : Expire(t)) => ToCount' < ToCount]_vars
  <2>1. ToCount \in Int /\ ToCount' \in Int
    BY <1>1, CountParts DEF IInv
  <2>2. CASE Io
    BY <1>1, <2>1, <2>2, RefusedIo
  <2>3. CASE ~Io
    BY <1>1, <2>3, RefusedElse
  <2> QED
    BY <2>2, <2>3
<1> QED
  BY <1>1, Invariance, IoPlacesInvariant, PTL DEF Spec, ComesCloser

\* A connection that is complete, with nothing left over from earlier ones,
\* stays, whatever the two threads do (EthStratumClient.cpp:194-291).
THEOREM StaysOnline == Spec => StaysConnected
<1>1. ASSUME IInv, [Next]_vars, Settled PROVE Settled'
  <2> USE <1>1 DEF IInv, TypeOK, Threads, Goto
  <2>0. /\ env = "good" /\ running /\ connected /\ sock = "open" /\ queue = <<>>
        /\ (acked = "missed" \/ (acked = "yes" /\ authorized))
        /\ (\A t \in Threads : timers[t] = 0)
        /\ pc["main"] \in {"poll", "check", "write", "left"}
        /\ pc["io"] \in {"idle", "again"} /\ (pc["io"] = "idle" => reading)
    BY DEF Settled, Online
  <2>1. CASE \E w \in Works : ReceiveWork(w)
    BY <2>0, <2>1 DEF ReceiveWork, Receive, Settled, Online
  <2>2. CASE ReadAgain
    BY <2>0, <2>2 DEF ReadAgain, readline, Settled, Online, flags
  <2>3. CASE TakeSolution \/ GetWork \/ CheckConnected \/ WriteShare \/ UNCHANGED vars
    BY <2>0, <2>3 DEF TakeSolution, GetWork, CheckConnected, WriteShare, Write, Settled, Online, flags,
       sockVars, ioVars, vars
  <2>4. \/ (\E w \in Works : ReceiveWork(w)) \/ ReadAgain
        \/ TakeSolution \/ GetWork \/ CheckConnected \/ WriteShare \/ UNCHANGED vars
    <3>1. /\ ~(\E e \in {"good", "refuses", "unresolved"} : Settle(e)) /\ ~Lose
          /\ ~HandleTimer /\ ~HandleFailed /\ ~ReceiveAck /\ ~ReceiveRejection /\ ~Launch /\ ~Leave
      BY <2>0 DEF Settle, Lose, HandleTimer, HandleFailed, ReceiveAck, ReceiveRejection, Launch, Leave
    <3>2. ASSUME NEW t \in Threads PROVE ~connectStratum(t) /\ ~reconnect(t)
      BY <2>0, <3>2 DEF connectStratum, reconnect, Connect, ConnectRefused, ConnectThrows, Established,
         Subscribe, Listen, Count, Store, StoreThen, GiveUp, Retry, Arm, Drop, Close
    <3>3. ASSUME NEW t \in Threads PROVE ~Expire(t)
      BY <2>0, <3>3 DEF Expire
    <3> QED
      BY <1>1, <3>1, <3>2, <3>3 DEF Next, Io, Main
  <2> QED
    BY <2>1, <2>2, <2>3, <2>4
<1> QED
  BY <1>1, Invariance, PTL DEF Spec, StaysConnected
=============================================================================
