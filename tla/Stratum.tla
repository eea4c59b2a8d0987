------------------------------- MODULE Stratum -------------------------------
(***************************************************************************)
(* The stratum client (libstratum/EthStratumClient.cpp) and the main loop   *)
(* that uses it, MinerCLI::doStratum (ethminer/MinerAux.h), for one pool.   *)
(*                                                                          *)
(* Two threads run the client's code.  The main thread connects for the     *)
(* first time, in the constructor, and later writes shares; the io thread   *)
(* runs the handlers of the timers and of the reads.  Both can find the     *)
(* connection broken and call reconnect, at the same time: m_retries,       *)
(* m_connected and m_socket are not protected by anything.                  *)
(*                                                                          *)
(* The farm is what module Farm shows it to be in pool mode: it mines for   *)
(* the work it was last given.  The pool, the network and the name service  *)
(* are the environment; they misbehave until they settle for good.          *)
(*                                                                          *)
(* Left out: the texts of the messages (a message that is not understood,   *)
(* and the answer to a share, change nothing), stale solutions, difficulty  *)
(* and accounts, the dev fee, shutdown, and a URL without a port, for which *)
(* connectStratum returns at once.  A disconnect is one step.               *)
(*                                                                          *)
(* Both buffers outlive a connection.  Of m_responseBuffer the model keeps  *)
(* the beginning of a line that a broken connection left; whole lines left  *)
(* by a handler that did not read again are not in the model.  A message    *)
(* left in m_requestBuffer goes out before the next subscription: it can    *)
(* only change what the pool answers, and a good pool is one that accepts   *)
(* the subscription whatever comes before it.                               *)
(***************************************************************************)
EXTENDS Naturals, Sequences

CONSTANTS Works,      \* what mining.notify brings: challenge, target, ...
          NoWork,     \* the empty challenge
          Retries,    \* the -R option, used when there is a failover node
          StopWorkAt, \* c_StopWorkAt, used when there is none
          MaxTimers   \* bound: timers that one thread has armed at one time

ASSUME RetriesAssumption == {Retries, StopWorkAt} \subseteq Nat \ {0}
ASSUME NoWorkAssumption == NoWork \notin Works
ASSUME TimersAssumption == MaxTimers \in Nat \ {0}

VARIABLES failover,   \* m_failoverAvailable
          running,    \* m_running
          connected,  \* m_connected
          authorized, \* m_authorized
          retries,    \* m_retries, counted up to one past the limit
          seen,       \* what a thread in m_retries++ has read, else 0
          sock,       \* m_socket: "closed", "open", or "lost" when the peer is gone
          reading,    \* a read is outstanding on it
          partial,    \* m_responseBuffer begins with the rest of a broken connection
          acked,      \* the pool has answered the subscription on an open connection:
                      \* "no", "yes", or "missed", when the answer was not understood
          timers,     \* how many timers each thread has armed
          queue,      \* the handlers the io_service has ready
          pc,         \* where each thread is
          then,       \* where it goes on after reconnect
          notified,   \* m_challenge and its companions
          work,       \* doStratum's challenge, and the farm's
          env        \* what the environment does

vars == <<failover, running, connected, authorized, retries, seen, sock, reading, partial,
          acked, timers, queue, pc, then, notified, work, env>>
flags == <<running, connected, authorized>>
count == <<retries, seen>>
sockVars == <<sock, reading, partial, acked>>
ioVars == <<timers, queue>>

Threads == {"main", "io"}
maxRetries == IF failover THEN Retries ELSE StopWorkAt

TypeOK == /\ failover \in BOOLEAN /\ running \in BOOLEAN
          /\ connected \in BOOLEAN /\ authorized \in BOOLEAN
          /\ retries \in 0 .. maxRetries + 1
          /\ seen \in [Threads -> 0 .. maxRetries + 1]
          /\ sock \in {"closed", "open", "lost"}
          /\ reading \in BOOLEAN /\ partial \in BOOLEAN
          /\ acked \in {"no", "yes", "missed"}
          /\ timers \in [Threads -> 0 .. MaxTimers]
          /\ queue \in Seq({"timer", "failed"})
          /\ pc \in [Threads -> {"connect", "established", "subscribe", "listen", "again",
                                 "count", "store", "limit", "arm", "drop", "close", "off", "idle",
                                 "launch", "poll", "check", "write", "left"}]
          /\ then \in [Threads -> {"launch", "poll", "idle", "listen", "again"}]
          /\ {notified, work} \subseteq Works \cup {NoWork}
          /\ env \in {"changing", "good", "refuses", "unresolved"}

\* The constructor has reached launchIOS and connectStratum.
Init == /\ failover \in BOOLEAN
        /\ running = TRUE /\ connected = FALSE /\ authorized = FALSE
        /\ retries = 0 /\ seen = [t \in Threads |-> 0]
        /\ sock = "closed" /\ reading = FALSE /\ partial = FALSE /\ acked = "no"
        /\ timers = [t \in Threads |-> 0] /\ queue = <<>>
        /\ pc = [t \in Threads |-> IF t = "main" THEN "connect" ELSE "off"]
        /\ then = [t \in Threads |-> IF t = "main" THEN "launch" ELSE "idle"]
        /\ notified = NoWork
        /\ work = NoWork
        /\ env = "changing"

Goto(t, place) == pc' = [pc EXCEPT ![t] = place]

\* What becomes of a read when its socket is closed or its peer goes: what has
\* come of the next line stays in the buffer.
FailRead == /\ reading' = FALSE
            /\ partial' \in {partial, partial \/ reading}
            /\ queue' = IF reading THEN Append(queue, "failed") ELSE queue

\* Start a read: on a socket that is not open it fails at once.
readline == IF sock = "open"
              THEN reading' = TRUE /\ UNCHANGED queue
              ELSE queue' = Append(queue, "failed") /\ UNCHANGED reading
-----------------------------------------------------------------------------
(* The environment *)

\* After this it stays as it is.
Settle(e) == /\ env = "changing"
             /\ env' = e
             /\ UNCHANGED <<failover, flags, count, sockVars, ioVars, pc, then, notified, work>>

\* The peer goes away.
Lose == /\ env # "good"
        /\ sock = "open"
        /\ sock' = "lost" /\ acked' = "no"
        /\ FailRead
        /\ UNCHANGED <<failover, flags, count, timers, pc, then, notified, work, env>>

\* Five seconds are over; reconnect takes less than that to come to its end.
\* (A second timer that expires behind another might as well do so when that
\* one's handler begins.)
Expire(t) == /\ running
             /\ timers[t] > 0
             /\ pc[t] \notin {"drop", "close"}
             /\ \A i \in 1 .. Len(queue) : queue[i] # "timer"
             /\ timers' = [timers EXCEPT ![t] = @ - 1]
             /\ queue' = Append(queue, "timer")
             /\ UNCHANGED <<failover, flags, count, sockVars, pc, then, notified, work, env>>
-----------------------------------------------------------------------------
(* connectStratum: the constructor's on the main thread, all others on io *)

\* The name is resolved and the connection accepted; an old one is closed.
Connect(t) == /\ pc[t] = "connect"
              /\ env \in {"changing", "good"}
              /\ sock' = "open" /\ acked' = "no"
              /\ FailRead
              /\ Goto(t, "established")
              /\ UNCHANGED <<failover, flags, count, timers, then, notified, work, env>>

\* Faulty: the retries are counted afresh with every attempt.
ConnectRefusedAfresh(t) == /\ pc[t] = "connect"
                           /\ env \in {"changing", "refuses"}
                           /\ sock' = "closed" /\ acked' = "no"
                           /\ retries' = 0
                           /\ FailRead
                           /\ Goto(t, "count")
                           /\ UNCHANGED <<failover, flags, seen, timers, then, notified, work,
                                          env>>

\* The connection is refused: ec is set.
ConnectRefused(t) == /\ pc[t] = "connect"
                     /\ env \in {"changing", "refuses"}
                     /\ sock' = "closed" /\ acked' = "no"
                     /\ FailRead
                     /\ Goto(t, "count")
                     /\ UNCHANGED <<failover, flags, count, timers, then, notified, work, env>>

\* The name is not resolved: the exception is logged, and ec is not set.
ConnectThrows(t) == /\ pc[t] = "connect"
                    /\ env \in {"changing", "unresolved"}
                    /\ Goto(t, "established")
                    /\ UNCHANGED <<failover, flags, count, sockVars, ioVars, then, notified,
                                   work, env>>

Established(t) == /\ pc[t] = "established"
                  /\ connected' = TRUE
                  /\ retries' = 0
                  /\ Goto(t, "subscribe")
                  /\ UNCHANGED <<failover, running, authorized, seen, sockVars, ioVars, then,
                                 notified, work, env>>

\* writeStratum: the first write to a peer that is gone may still succeed.
Write(t, next) == \/ /\ sock # "closed"
                     /\ Goto(t, next)
                     /\ UNCHANGED then
                  \/ /\ sock # "open"
                     /\ Goto(t, "count")
                     /\ then' = [then EXCEPT ![t] = next]

Subscribe(t) == /\ pc[t] = "subscribe"
                /\ Write(t, "listen")
                /\ UNCHANGED <<failover, flags, count, sockVars, ioVars, notified, work, env>>

AfterConnect(t) == IF t = "main" THEN "launch" ELSE "idle"

Listen(t) == /\ pc[t] = "listen"
             /\ readline
             /\ Goto(t, AfterConnect(t))
             /\ then' = [then EXCEPT ![t] = AfterConnect(t)]
             /\ UNCHANGED <<failover, flags, count, sock, partial, acked, timers, notified,
                            work, env>>
-----------------------------------------------------------------------------
(* reconnect, on either thread *)

\* m_retries++: between its two halves the other thread may do anything.
Count(t) == /\ pc[t] = "count"
            /\ seen' = [seen EXCEPT ![t] = retries]
            /\ Goto(t, "store")
            /\ UNCHANGED <<failover, flags, retries, sockVars, ioVars, then, notified, work,
                           env>>

StoreThen(t, n) == /\ pc[t] = "store"
                   /\ retries' = n
                   /\ seen' = [seen EXCEPT ![t] = 0]
                   /\ Goto(t, "limit")
                   /\ UNCHANGED <<failover, flags, sockVars, ioVars, then, notified, work, env>>

\* Faulty: counts down.
StoreLess(t) == StoreThen(t, seen[t] - 1)

Store(t) == StoreThen(t, IF seen[t] > maxRetries THEN seen[t] ELSE seen[t] + 1)

\* The limit is met and there is a failover: disconnect.
GiveUp(t) == /\ pc[t] = "limit"
             /\ retries = maxRetries /\ failover
             /\ running' = FALSE /\ connected' = FALSE /\ authorized' = FALSE
             /\ sock' = "closed" /\ acked' = "no"
             /\ FailRead
             /\ Goto(t, then[t])
             /\ UNCHANGED <<failover, count, timers, then, notified, work, env>>

Retry(t) == /\ pc[t] = "limit"
            /\ retries # maxRetries \/ ~failover
            /\ Goto(t, "arm")
            /\ UNCHANGED <<failover, flags, count, sockVars, ioVars, then, notified, work, env>>

\* Faulty: a client that is not connected is taken to be reconnecting.
ArmIfConnected(t) == /\ pc[t] = "arm"
                     /\ timers' = IF connected /\ timers[t] < MaxTimers
                                    THEN [timers EXCEPT ![t] = @ + 1] ELSE timers
                     /\ Goto(t, "drop")
                     /\ UNCHANGED <<failover, flags, count, sockVars, queue, then, notified,
                                    work, env>>

\* A timer is armed.  The one before it may still be running: its pointer is
\* overwritten, but it will expire.  Beyond MaxTimers none is counted.
Arm(t) == /\ pc[t] = "arm"
          /\ timers' = IF timers[t] < MaxTimers THEN [timers EXCEPT ![t] = @ + 1] ELSE timers
          /\ Goto(t, "drop")
          /\ UNCHANGED <<failover, flags, count, sockVars, queue, then, notified, work, env>>

Drop(t) == /\ pc[t] = "drop"
           /\ connected' = FALSE
           /\ Goto(t, "close")
           /\ UNCHANGED <<failover, running, authorized, count, sockVars, ioVars, then,
                          notified, work, env>>

Close(t) == /\ pc[t] = "close"
            /\ sock' = "closed" /\ acked' = "no"
            /\ FailRead
            /\ Goto(t, then[t])
            /\ UNCHANGED <<failover, flags, count, timers, then, notified, work, env>>

connectStratum(t) == \/ Connect(t) \/ ConnectRefused(t) \/ ConnectThrows(t) \/ Established(t)
                     \/ Subscribe(t) \/ Listen(t)
reconnect(t) == Count(t) \/ Store(t) \/ GiveUp(t) \/ Retry(t) \/ Arm(t) \/ Drop(t) \/ Close(t)
-----------------------------------------------------------------------------
(* The io thread *)

Ready == pc["io"] = "idle" /\ running

\* A timer's handler is connectStratum.
HandleTimer == /\ Ready
               /\ queue # <<>> /\ Head(queue) = "timer"
               /\ queue' = Tail(queue)
               /\ Goto("io", "connect")
               /\ then' = [then EXCEPT !["io"] = "idle"]
               /\ UNCHANGED <<failover, flags, count, sockVars, timers, notified, work, env>>

\* Faulty: the end of a connection that was closed on purpose is taken for a failure.
HandleFailedAlways == /\ Ready
                      /\ queue # <<>> /\ Head(queue) = "failed"
                      /\ queue' = Tail(queue)
                      /\ Goto("io", "count")
                      /\ then' = [then EXCEPT !["io"] = "idle"]
                      /\ UNCHANGED <<failover, flags, count, sockVars, timers, notified, work,
                                     env>>

\* readResponse with an error
HandleFailed == /\ Ready
                /\ queue # <<>> /\ Head(queue) = "failed"
                /\ queue' = Tail(queue)
                /\ Goto("io", IF connected THEN "count" ELSE "idle")
                /\ then' = [then EXCEPT !["io"] = "idle"]
                /\ UNCHANGED <<failover, flags, count, sockVars, timers, notified, work, env>>

\* A message has come; handlers that were ready earlier are run before it.
Receive == /\ Ready
           /\ queue = <<>>
           /\ reading /\ sock = "open"
           /\ reading' = FALSE
           /\ partial' = FALSE
           /\ UNCHANGED <<failover, running, connected, count, sock, timers, queue, work, env>>

\* The answer to the subscription; after the rest of an older line it makes no
\* sense.
ReceiveAck == /\ Receive
              /\ acked = "no"
              /\ acked' = IF partial THEN "missed" ELSE "yes"
              /\ authorized' = (authorized \/ ~partial)
              /\ Goto("io", "again")
              /\ UNCHANGED <<then, notified>>

ReceiveRejection == /\ Receive
                    /\ acked = "no" /\ env # "good"
                    /\ IF partial
                         THEN acked' = "missed" /\ Goto("io", "again") /\ UNCHANGED then
                         ELSE /\ Goto("io", "count")
                              /\ then' = [then EXCEPT !["io"] = "again"]
                              /\ UNCHANGED acked
                    /\ UNCHANGED <<authorized, notified>>

\* New work, or a first message that is neither and is not understood.
ReceiveWork(w) == /\ Receive
                  /\ acked # "no" \/ partial
                  /\ notified' = IF partial THEN notified ELSE w
                  /\ Goto("io", "again")
                  /\ UNCHANGED <<acked, authorized, then>>

ReadAgain == /\ pc["io"] = "again"
             /\ IF connected THEN readline /\ UNCHANGED partial
                             ELSE partial' \in BOOLEAN /\ UNCHANGED <<reading, queue>>
             /\ Goto("io", "idle")
             /\ then' = [then EXCEPT !["io"] = "idle"]
             /\ UNCHANGED <<failover, flags, count, sock, acked, timers, notified, work, env>>

Io == \/ connectStratum("io") \/ reconnect("io")
      \/ HandleTimer \/ HandleFailed
      \/ ReceiveAck \/ ReceiveRejection \/ (\E w \in Works : ReceiveWork(w))
      \/ ReadAgain
-----------------------------------------------------------------------------
(* The main thread: the rest of launchIOS, then doStratum *)

Launch == /\ pc["main"] = "launch"
          /\ pc' = [t \in Threads |-> IF t = "main" THEN "poll" ELSE "idle"]
          /\ then' = [then EXCEPT !["main"] = "poll"]
          /\ UNCHANGED <<failover, flags, count, sockVars, ioVars, notified, work, env>>

Polling == pc["main"] = "poll"

\* The farm has a solution, and it is one for the present work.
TakeSolution == /\ Polling
                /\ work # NoWork
                /\ Goto("main", "check")
                /\ UNCHANGED <<failover, flags, count, sockVars, ioVars, then, notified, work,
                               env>>

\* Faulty: work is taken over only while connected.
GetWorkIfConnected == /\ Polling
                      /\ running
                      /\ connected /\ authorized
                      /\ work' = notified
                      /\ UNCHANGED <<failover, flags, count, sockVars, ioVars, pc, then,
                                     notified, env>>

\* getWork, and the farm's setWork if anything is new
GetWork == /\ Polling
           /\ running
           /\ work' = notified
           /\ UNCHANGED <<failover, flags, count, sockVars, ioVars, pc, then, notified, env>>

Leave == /\ Polling
         /\ ~running
         /\ Goto("main", "left")
         /\ UNCHANGED <<failover, flags, count, sockVars, ioVars, then, notified, work, env>>

isConnected == connected /\ authorized

\* submitWork: without a connection the share is dropped.
CheckConnected == /\ pc["main"] = "check"
                  /\ Goto("main", IF isConnected THEN "write" ELSE "poll")
                  /\ UNCHANGED <<failover, flags, count, sockVars, ioVars, then, notified,
                                 work, env>>

WriteShare == /\ pc["main"] = "write"
              /\ Write("main", "poll")
              /\ UNCHANGED <<failover, flags, count, sockVars, ioVars, notified, work, env>>

Main == \/ connectStratum("main") \/ reconnect("main")
        \/ Launch \/ TakeSolution \/ GetWork \/ Leave \/ CheckConnected \/ WriteShare

Next == \/ \E e \in {"good", "refuses", "unresolved"} : Settle(e)
        \/ Lose \/ (\E t \in Threads : Expire(t))
        \/ Main \/ Io

Spec == Init /\ [][Next]_vars

(* Both threads run and timers expire.  Solutions take minutes and the loop *)
(* polls five times a second, so not every poll finds one.  Nothing makes   *)
(* the pool lose a connection; one that has settled to be good answers.     *)
Fairness == /\ WF_vars(Main) /\ WF_vars(Io) /\ SF_vars(GetWork \/ Leave)
            /\ \A t \in Threads : WF_vars(Expire(t))

FairSpec == Spec /\ Fairness
-----------------------------------------------------------------------------
(* Properties *)

(* A running client is never left without anything that will bring it       *)
(* back: an outstanding read, a timer or a ready handler.  Otherwise the    *)
(* io_service runs out of work and spins for ever ("this normally           *)
(* shouldn't happen", EthStratumClient.cpp:72).                             *)
AlwaysPending ==
    pc["io"] = "idle" /\ running => reading \/ queue # <<>> \/ \E t \in Threads : timers[t] > 0

Online == connected /\ sock = "open" /\ (acked = "missed" \/ (acked = "yes" /\ authorized))

(* When the pool is reachable for good, and the main thread does not find   *)
(* the connection broken any more when it submits its shares, the client is *)
(* connected and subscribed for good, whatever timers, broken reads and     *)
(* half-done reconnects were around; it has given up only if there is a     *)
(* failover node (EthStratumClient.cpp:164-190, MinerAux.h:1074).           *)
(* The io thread must come to wait again and again.  Were every connecting  *)
(* to take the five seconds of a timer, the next timer or failed read would *)
(* always be there before the client has come to rest: each breaks the      *)
(* connection of the one before it, and so for ever.                        *)
(* The client may not know that it is subscribed: an answer that came after *)
(* the rest of an older line was not understood, and m_authorized stays as  *)
(* it was (EthStratumClient.cpp:192-221).                                   *)
Reconnects ==
    /\ <>(env = "good")
    /\ <>[](pc["main"] \in {"poll", "check", "write", "left"})
    /\ []<>(pc["io"] = "idle" /\ queue = <<>>)
    => <>[]Online \/ (failover /\ <>~running)

(* When the pool refuses every connection the client gives up and lets the  *)
(* failover node take over - unless both threads have counted at once, and  *)
(* so past the limit (EthStratumClient.cpp:169-182).                        *)
GivesUp == failover /\ <>(env = "refuses") /\ <>[](sock # "open") =>
               <>~running \/ <>(retries > maxRetries)

(* The same when the name of the pool cannot be resolved ("Number of        *)
(* retries until switch to failover", README.md:64).                        *)
GivesUpUnresolved == failover /\ <>(env = "unresolved") /\ <>[](sock # "open") =>
                         <>~running \/ <>(retries > maxRetries)

(* What the pool last announced is what the farm works on in the end, even  *)
(* if the connection breaks before doStratum has looked                     *)
(* (MinerAux.h:1096-1111).                                                  *)
WorkReachesFarm ==
    \A w \in Works : notified = w ~> (notified # w \/ work = w \/ ~running)
=============================================================================
