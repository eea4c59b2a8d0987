# A model of the MVis token miner

TLA+ modules, TLC runs and TLAPS proofs about the mining program in this
repository (`src/ethminer`, `src/libethcore`, `src/libethash-cl`,
`src/libstratum`, `src/libdevcore`). `PROJECT.json` maps every definition to the
lines it stands for; this file explains what is modelled and what the checks
and proofs show.

Run a check with, for example, `tlc -workers 2 -config FarmPool.cfg Farm.tla`, and the
proofs of a module with `tlapm FarmProofs.tla`.

## The system

The program mines a proof-of-work token. One *main thread* talks to a node
(solo mining) or a pool and hands out *work*, a challenge and a target, to a
*farm* of *miners*. Each miner has a thread of its own that searches for nonces,
on the CPU or through OpenCL, and reports what it finds back to the farm. The
main thread polls the farm and submits.

| Component | State | Operations | Talks to |
|---|---|---|---|
| Worker (`libdevcore/Worker`) | `m_state`, the thread, `x_work` | startWorking, stopWorking, terminate, the thread's loop | base class of every miner |
| Farm (`libethcore/Farm.h`) | `m_challenge`, `m_target`, solution slot, `x_minerWork`, `x_solution` | setWork, submitProof, solutionFound | called by main thread and miners, calls the miners |
| Miner, CPU miner (`Miner.h`, `EthashCPUMiner`) | its challenge and target, hash counters | setWork, submitProof, kickOff, pause, workLoop | Worker, Farm |
| OpenCL miner (`EthashGPUMiner`, `ethash_cl_miner`) | hook's `m_abort`/`m_aborted`; pending batches, buffers, throttle | abort, reset, found, searched, search, setThrottle | Worker, Farm, OpenCL, thermal control |
| Stratum client (`EthStratumClient`) | socket, timers, `m_retries`, `m_connected`, `m_authorized`, last work | connect, reconnect, read, write, handlers | pool, main thread, io thread |
| Main loops (`MinerAux.h`) | current challenge and target, recent challenges, retries, dev fee clock | doStratum, doGetWork, execute | Farm, clients |
| RPC client (`FarmClient.h`, `SignTx.h`) | transaction nonce, pending transactions, challenge file | getWork, submitWork, checkPendingTransactions | node, other rigs on the same disk |
| Thermal protection (`Miner.h`, PIDController) | overheated time, integral term | update | OpenCL miner, farm shutdown |
| Support (logs, UDP control, data logger, options, timers) | – | – | everywhere |
| Inherited and third-party code (ethash DAG, RLP, tries, CUDA, secp256k1) | – | – | mostly unused |

What is hard in it: nearly every object is shared by two or three threads with
few locks and many polled flags; a miner calls into the farm while the farm may
be waiting for that miner; the OpenCL loop answers an abort through one flag and
a stop through another; the stratum client's reconnect runs on two threads; timers,
broken connections and refused ones arrive in any order; errors are exceptions
that end a protocol half-way. `PROJECT.json` lists these hazards, each at its line
and with the properties that watch it.

What makes each component correct, in one line:

* Worker – the loop runs only while somebody asked for it, stop and terminate return
  with the loop over, nobody waits for ever.
* Farm – new work reaches every miner, nobody keeps hashing for old work, a reported
  solution waits for the main thread, no call hangs.
* OpenCL miner – an abort is answered, a pause comes to its end, results are read with the batch they
  belong to.
* Stratum client – it comes back, or gives up when there is somewhere to go; what
  the pool announces reaches the farm.
* Main loops – mining pauses and resumes with the connection, failover happens.
* Transactions – a solution is dropped only for another of its challenge, nonces leave no gap that
  no failure accounts for, a transaction is followed to its end.
* Thermal protection – a GPU that stays too hot ends mining, in time and not before.

## Modules

| Module | Models | Lines it is read from |
|---|---|---|
| `RunControl` | what class Worker promises, abstractly | comments and structure of `Worker.h` |
| `Worker` | class Worker, each access to `m_state` one step | `Worker.cpp:30-108` |
| `WorkerProofs` | proofs about `Worker` | |
| `Farm` | farm, miners' setWork/submitProof, CPU work loop | `Farm.h:195-213, 599-664`, `Miner.h:271-296, 526-537`, `EthashCPUMiner.cpp:68-108` |
| `FarmProofs` | proofs about `Farm` | |
| `FarmPromise` | what the farm promises to the main loops, abstractly | comments and structure of `Farm.h:195-213, 599-664` |
| `GpuMiner` | OpenCL miner, its hook, the search loop | `EthashGPUMiner.cpp`, `ethash_cl_miner.cpp:740-911` |
| `GpuMinerProofs` | proofs about `GpuMiner` | |
| `Stratum` | stratum client with doStratum's loop | `EthStratumClient.cpp`, `MinerAux.h:1049-1162` |
| `StratumProofs` | proofs about `Stratum` | |
| `GetWork` | doGetWork, and execute's switching between two getwork nodes | `MinerAux.h:516-537, 816-1043`, `FarmClient.h:55-142` |
| `GetWorkProofs` | proofs about `GetWork` | |
| `SoloSubmit` | solo solutions on their way to the chain, several rigs | `FarmClient.h:163-391` |
| `SoloSubmitProofs` | proofs about `SoloSubmit` | |
| `Thermal` | the controllers' count of overheated time, the thread of their timers | `Miner.h:149-217`, `Common.cpp:34-95` |
| `ThermalProofs` | proofs about `Thermal` | |

They fit together as a stack. `Worker` is shown, by proof and by TLC, to
implement `RunControl`. `Farm` and `GpuMiner` use the worker by that promise:
pause is "ask, then wait until the loop is over", kickOff "return with a run
begun". `Farm` in turn is shown, by proof and by TLC, to implement `FarmPromise`, the farm as a main loop sees it:
setWork takes work over and later returns, a solution waits in its slot until it is taken, in pool mode
what is reported after setWork has returned is for the work it was given (during setWork, possibly for the work before),
and in solo mode the farm has paused itself when a solution can be seen, which may be for anything. `GetWork` is written on
that promise (`Farm == INSTANCE FarmPromise`): every change of `work`, `slot` and `setting` in it is an action of
`FarmPromise`. `Stratum` uses the same promise informally, as a farm that mines for the work it was last given.
`SoloSubmit` begins where `GetWork` has taken a solution (its step `Submit` is
`submitWorkSolo` in one piece, which works or throws), and `Thermal` sets the flag that `GetWork` sees as `ShutDown`.

### Worker

`state` is `m_state`, an atomic that is read, exchanged and compare-exchanged by
the thread and by callers under `x_work`; `tpc` is where the thread is, `cpc` and `op`
where each caller is, `xwork` the owner of `x_work`, `ex` the local that holds what the
thread overwrote when it left its loop, `spawned` whether the `std::thread` exists,
`alive` whether the destructor has been called. The controllers are the threads
that may call; terminate is a call after which no other begins (an object's owner destroys it when nobody
uses it). It is part of the class and so of the module, but this program never runs it: the farm keeps its
miners as raw pointers and only forgets them (Farm.h:67, 248-254).

### Farm

The main thread's places are those of `setWork`; a miner's are those of `workLoop` and, below it, of
`submitProof`. In solo mode a miner that submits runs the same loop over the
other miners that setWork runs, so the steps of that loop are written once, for either
thread (`SetMinersWork`). `xwork` and `xsol` are the owners of the two mutexes; each lock and
unlock is a step, because who waits for whom is the point here. The unlocked read of challenge and target at the start of
a run is a nondeterministic choice while another thread is writing
them (`Overwriting`, `BeginRun`). A solution is identified with the challenge it was found for.
The main thread may set any work and take any solution at any time: this covers both
of its loops, which `GetWork` and `Stratum` model.

### GpuMiner

Three threads: the farm's (`caller`: setWork), the worker (`place`: workLoop, search and the hook's calls)
and the one that changes the throttle. `hits` says of each result
buffer whether it holds hits of the kernel last queued on it or older ones nobody has read.
What the hook finds goes through `EthashCLHook::found` in the steps of `submitProof`: the check (`Found`), the farm's
locks (`Submit`, `LockWork`), the miner's own challenge (`ClearOwn`), the answer (`Answer`). Whoever is in setWork
holds `x_minerWork`; `finder` is another miner that hands in a solo proof and holds `x_solution`, or both mutexes while it
pauses this one; `slot` says that the farm has a solution. So in solo mode a miner with a proof can wait for the
thread that waits for it, as in `Farm`.
Any OpenCL call may fail (`InitFails`, `SearchFails`); `failed` is a history variable, so
that properties of the error-free program can be stated in the same run. Nothing destroys a miner in this
program, so the module has no destructor.

### Stratum

The main thread connects in the constructor, launches the io thread and then
polls; the io thread runs handlers. `timers` counts, per thread, the timers that
are armed, `queue` holds the ready handlers, `then` is where a thread returns to after
`reconnect`. The two threads interleave inside `reconnect` between its
unprotected accesses to `m_retries`, the timer pointer, `m_connected` and the socket; `m_retries++` is a load and a
store (`seen` is what was loaded), which may land after the other thread has compared. `env` is what the
pool, the network and the name service do; it is erratic until it settles.
The buffers outlive a connection. `partial` says that `m_responseBuffer` begins with the rest of a line: the next line
makes no sense then, and if it answers the subscription, `acked` is `"missed"` and `m_authorized` is not set. Whole lines that
a handler left without reading again are not in the model. A message left in `m_requestBuffer` goes out before
the next subscription; all it can change is the pool's answer, and a good pool is one that accepts the subscription.
`disconnect` is one step, message texts, share difficulty, stale shares, accounts, the dev fee
and shutdown are left out, and so is a URL without a port, for which connectStratum returns at once
(EthStratumClient.cpp:116-119). The work timer is left out because the code never arms it.

### GetWork

The locals of doGetWork are variables under their own names (`retries` is farmRetries), `url` is
execute's index of the node in use, `work` and `slot` are what the farm holds. A query and the call of setWork it
leads to are one step; while `setting` is TRUE the main thread is inside that setWork, miners may still report, and the
loop goes on with `SetWorkReturns`, which is part of `Main`: it is assumed that the farm's calls return, as `farm_pool`
shows for pool mode (in solo mode they may not: the finding `farm_solo_deadlock`). A call that throws is one step too; between the steps miners find solutions, the contract's
challenge advances, the thermal protection shuts the farm down. A node's answer is the present challenge, the one
before, or garbage, until the nodes settle. The hash of an *empty* challenge, which the code takes of bytes that
are not there, may be accepted or not (`Verify`).

### SoloSubmit

Each rig is a process with one FarmClient; `pc` is where its main thread is in `submitWorkSolo`. The rigs share the
challenge file (`file`; opening it for output empties it and closing it writes it, two steps, because another
rig may read in between), the node and, if `account` says so, an account. `txNonce`, `pending` are
`m_txNonce` and `m_pendingTxs`. The five minutes after which the nonce is read again may have passed or not
(`TakeNonce`). Files, calls, answers and the node's pool may fail and rigs may be restarted, `MaxFaults` times in
all; a failover inside the program also makes a new FarmClient. The node is modelled by what the code relies on:
nonces in order and used once, a transaction replaced by one with the same nonce. A mined transaction solves its
challenge, comes too late, or fails for want of gas and leaves the challenge unsolved (`failed`, a fault).
`CheckPending` drops all transactions of the challenge in each of these cases, as the code does. `lost` and `vain` are
history: which nonces and which challenges a failure has cost. The file is never told of a failure: that is
the finding `solo_skips`.

### Thermal

`runaway` is `m_thermalRunaway` of each GPU's controller. `Update` is `TimerCallback::callback` with
`PIDController::update`; all controllers are updated by one thread, so an update is one step. A sensor that throws
unwinds that thread; the timer was armed again before. Temperatures are in quarters of a degree because of the
hysteresis of 0.75. `above` and `warm` are history. Left out: the throttle and its gains. What tokenminer.ini:111-112
calls "at or above ThrottleTemp" is `>` in the code (Miner.h:185); the module has what the code does.

## Runs

| Run | Shows |
|---|---|
| `worker` | all Worker properties, and that Worker implements RunControl |
| `farm_pool` | pool mining: work is delivered, setWork and submitProof return, and the farm implements FarmPromise |
| `farm_solo` | solo mining: types, no old work, kept solutions, while miners pause one another |
| `farm_solo_deadlock` | *finding*: in solo mode submitProof may never return |
| `gpu` | aborts are answered and pauses return while OpenCL works, but for solo proofs that wait for the pausing thread; batches and buffers; what is searched for |
| `gpu_error` | *finding*: after an OpenCL error an abort is never answered |
| `stratum` | the client always has something that will wake it, reconnects, gives up, hands over work |
| `stratum_unresolved` | *finding*: an unresolvable pool name never leads to the failover node |
| `getwork` | work is taken over, mining pauses in an outage, a node's loop is entered only with the miners stopped, a shutdown ends the program |
| `solo_submit` | nonces without unexplained gaps, gaps that heal, skipped solutions with a reason, followed transactions |
| `solo_skips` | *finding*: a challenge that was claimed but not submitted is dropped by the whole farm |
| `thermal` | the shutdown comes neither late nor early, and comes although sensors throw |

A run that is named a finding checks one statement made by a comment or the
documentation, and TLC's trace shows the code doing otherwise.

Five more things the code does are in the models without a run of their own:

* `Farm`, solo mode: the finder clears its own challenge after the farm's locks are released
  (Miner.h:526-537), so work set in between may be wiped from this one miner, and the farm is then neither wholly
  mining nor wholly paused (compare Farm.h:601).
* `GpuMiner`: full throttle forgets batches whose kernels still run (`ethash_cl_miner.cpp:792`). Their hits are
  `"stale"` in `hits` and are read with a later batch's nonce; the check in `report` rejects them, and the solution is lost.
* `GetWork`, solo mode: after an outage the node's present challenge may be among the remembered ones and is
  then passed over until the contract moves on (MinerAux.h:945-948, 1028). `TakesOver` excepts this case.
* `Stratum`: if connecting takes as long as a timer, the next timer is due before the client has come to rest; its
  connectStratum closes the connection just made, the read on it fails, reconnect arms another timer, and so on with
  a pool that is up all the time (EthStratumClient.cpp:83-190). `Reconnects` excepts this: the io thread must come to rest
  again and again.
* `Stratum`: a client whose subscription was answered behind the rest of an older line mines and is connected, but
  `m_authorized` stays as it was (EthStratumClient.cpp:192-221). `Online` includes this state.

### Bounds

* `worker`: two controllers. Operations exclude each other through `x_work`, so what matters is
  one operation against the thread's own exit, followed or overtaken by another; a third
  caller only waits. The theorems hold for any number.
* `farm_*`: two miners (a finder and another one; in solo mode two finders), two
  challenges (old and new), two targets. No counter is unbounded. The safety theorems hold for
  any number of miners, challenges and targets.
* `gpu`: one miner and another that may hold the farm's locks – miners share nothing but the farm. Both modes, two
  challenges; throttles 0, 50 and 100,
  the three ways in which `search` treats a throttle: off, on (one buffer), and full (sleep).
  Two result buffers, as in the code.
* `stratum`: `Retries` = 2, so that a count below the limit, at it and past it all occur.
  `StopWorkAt` is 1 instead of 4: without a failover node the counter has no
  effect in the code except on messages. `MaxTimers` = 1 timer counted per thread, two in
  all. The code can have more (a timer that the main thread armed can make the io thread connect, fail and arm a
  second one); beyond the bound `Arm` counts none. With `MaxTimers` = 2 the run has 1.04 million states and takes
  about four minutes, and every property holds; the theorems hold for any bound. One work package. It is assumed that a
  reconnect takes less than the five seconds of its timer (`Expire`).

* `getwork`: three challenges, so that one is older than the last; `Remember` is 2 instead of 5: a node is at most one
  challenge late, and what matters is that the late one and the present one are both remembered. Both limits
  are 2, so that a count below and at the limit occur.
* `solo_*`: two rigs on one account, with and without the folder; two challenges, so that a solution may be late; three
  solutions, so that one rig's nonces go on counting while the other's are read; two faults, so that
  a failure (a transaction out of gas is one) follows another. The safety theorems hold for any number of all of these.
* `thermal`: two GPUs, because one's sensor may throw while the other is too hot. The temperatures are below the
  limit, inside the hysteresis, at the limit and above it. `ShutDown` is 4 seconds: the count starts at -1 and passes the limit with
  the third update of two seconds above it, enough for the count to go up, down, and to pass zero. `MaxWarm` = 3 is where the history stops counting, past the limit.

`CHECK_DEADLOCK FALSE` is used where the system may really stop: solo mining can deadlock (that is a finding), the
OpenCL miner hangs in that deadlock or after an OpenCL error (a finding too), and
the stratum and getwork loops end when they give up or are shut down, and `solo_*` end with the last solution.

### Fairness

Weak fairness of a thread says that the operating system runs it; it is
assumed for every thread whose progress a liveness property is about, split so that a choice the environment makes (a hit, new work, a
call) is not forced. Three places need more than that:

* `SF_vars(LockSolution(m))`: a thread that waits for the mutex `x_solution` while it is
  released again and again gets it in the end; a mutex does not starve one waiter for ever.
* `SF_vars(GetWork \/ Leave)`: doStratum polls five times a second and a solution takes minutes, so not every poll
  finds one.
* `SF_vars(Update(g))` in `Thermal`: the timer's thread runs, and asking a sensor does not throw every time.

`SoloSubmit` assumes only that the chain takes what can be mined (`WF_vars(MineAny(a))`); nothing of the client's is
needed for `FreshSettles`, because by then the transaction is at the node.

Nothing is assumed about pools and nodes, except in the properties themselves: `Reconnects`,
`GivesUp`, `TakesOver` and `Pauses` say what happens *if* they settle; `Asking` that solutions are
rare enough for doGetWork to come to its query again. `Reconnects` asks that the pool is good for good, that the
main thread finds the connection broken only finitely often (it may go on writing shares for ever), and that the io thread comes to rest
again and again. A loop is
assumed to notice that it should stop, not to end by itself
(`WF_vars(LoopExit /\ shouldStop)`).

## Proofs

All theorems are about the specification with unbounded constants, from the named assumptions in the
modules (`NoOneAssumption`: no controller is called NoOne; `CountAssumption`, `NameAssumption`,
`ModeAssumption`: there is a miner, names differ, the mode is solo or pool; `ChallengeAssumption`, `LimitsAssumption`:
there is a challenge, limits are positive; `ThrottleAssumption`, `EmptyAssumption`: throttles are percentages,
the empty challenge is no challenge; `RetriesAssumption`, `NoWorkAssumption`,
`TimersAssumption`, `ChallengeAssumption`, `BoundsAssumption`: limits and bounds are natural numbers; `TempsAssumption`,
`LimitAssumption`: temperatures are integers, and the history of hot updates counts past the limit).

**Worker.** The properties are not inductive: that a compare-exchange is harmless depends on
who could have put its old value there. `IInv` ties each place of the thread to the values
`m_state` can have there (`ThreadState`), and each transient value – Starting, Killing – to the
call that is waiting for it (`CallState`, `OwedTo`); `Exclusive` says the lock's holder is the one caller that is inside,
`LastCall` that the destructor's call is the last. From it follow `TypeCorrect`,
`OnlyKillingIsRestored`, `StoppedIsQuiet`, the action property `RunsAreAskedFor`, and
`Implements`: each step of Worker is a step of RunControl or a stutter under the mapping
`LoopNow`, `JobNow`. The RunControl in KeepsPromise is its safety part. `CallsAreServed` counts the steps that the
thread takes until a waiting startWorking, stopWorking or terminate can return: at most 3, 2 and 5. Nothing sets the count
back, every step of the thread lowers it, and while it is not zero the thread can take one. It rests on `CallState`
knowing that a waiting terminate sees Killing, or a thread that is about to restore it.

**Farm.** `Base` is the bookkeeping: who holds which mutex (`Exclusive`), where the loop over the miners may
stand (`LoopInv`), that a miner's worker state and place agree (`RunInv`), what is known inside
submitProof (`ProofInv`). `SolutionsAreKept` follows from it directly. `OldWorkIsGone` needs `Clean`, which says what is
true of the miners a running loop has passed and of those it has still to reach; `WorkIsDelivered`,
for pool mode, needs `Pooled`, the same for delivered work. `FarmImplementsPromise` maps the slot to what the main
thread can see of it (`SlotSeen`: in solo mode nothing until the farm's challenge is cleared too) and the places of setWork
to `setting`; `Published` says that whoever is between filling the slot and clearing the work owns the slot. Then
each step is a step of FarmPromise or a stutter, StoreSlot the report in pool mode and ClearFarm that of solo mode.
Two theorems are about waiting in pool mode: `NobodyIsStuck` says that a chain of at most three threads leads from any
that waits for a mutex or a worker to one that can move; `SetWorkComesToItsEnd` that setWork, with the steps of the
miner it waits for, takes at most 11 steps for each miner, and that nothing lengthens this.
`WorkersAreUsedInTurn` follows from `Base` in both modes and joins Farm to the workers' promise: one thread at a time stops
and starts workers, never its own, and it starts none that has not stopped or has no work.

**GetWork.** `FarmFollows` is inductive but for the start of doGetWork, whose fresh locals agree with the farm only
because it is entered with the farm paused (`EnteredPaused`); `NodesAreEnteredPaused` adds that setWork has returned by
then. `TypeCorrect` needs the lemma that `Remembered` keeps the memory of challenges within its bound. `LoopUsesPromise` is
`Spec => Farm!Spec`: the loop's calls do not overlap, every work it gives is a legal one, and nothing else touches
the farm; with `FarmImplementsPromise` this joins the two modules. `MiningStopsAtLimit` says that from the failure that
meets the limit until a node answers or another is turned to, neither the loop nor the farm has work, and `ShutDownIsTheEnd`
that after a shutdown the main thread has at most six steps left.

**GpuMiner.** `Handshake` ties the place of the mining thread to `abort`, `aborted` and the worker's state: who has been
asked to stop, who still owes an answer. `Search` says what a running search knows – the challenge it copied, the
batch it holds – and `Pending` describes the queue of batches with the throttle's number of buffers: its batches
alternate between the two buffers, so that two pending ones never share one and the next kernel's is free. `Locks`
and `Proof` say who can hold the farm's mutexes and where a miner with a proof can be in either mode. Together
with the type they are inductive, and the four invariants follow from them. `PausesAreServed` counts the steps from
any place of the search to the next time it answers the hook and ends the run: at most 13, because at most two kernels
are queued before one is read and handed in. The count never rises while somebody waits, and the thread can take the step:
always in pool mode; in solo mode a thread that is handing in a proof may wait for a lock, and no other.

**Stratum.** `AlwaysPending` depends on an order of assignments: a thread arms its timer (`Arm`) before it clears
`m_connected` (`Drop`), so a read that fails after that, and is followed by no other, leaves a timer behind. `TimerHeld`
says that the timer is still there until reconnect has closed the socket; `WillConnect` that whoever is not connected has a timer
or is on its way to one; `MainFirst` that the constructor is over before the io thread runs; `Waiting` is
AlwaysPending, and the same for the moment before the io thread starts. `RefusalsAreCounted` is about a pool that refuses:
with `ToCount`, which weighs armed timers, ready handlers and the place of the io thread, every step
of the io thread and every timer brings the next `m_retries++` closer, retries are never reset, and the limit is not
passed before it is compared with – as long as the main thread does not reconnect as well (then no load of
`m_retries++` is stale when it is stored). `StaysOnline` says that a
complete connection with nothing left over (`Settled`) is closed under every step. The proof assumes, as the module does, that a timer does not
expire within its own reconnect.

**SoloSubmit.** `NoGaps` is preserved by each step, given that a rig that is sending has a nonce (`HasNonce`).
`Told` says that a challenge in the file was submitted, is about to be, or came to nothing; `SkipsHaveReason` follows from it.
`FollowsToTheEnd` is a property of steps and needs `Ordered`: what is mined and has not failed is solved, and nobody is
ahead of the contract. It excepts a challenge of which a transaction has failed: its others are dropped with it (`GivenUp`).
`FollowsWhatExists` and `FreshIsNotHeldUp` rest on `Waits`: whatever a client has sent or follows has a nonce that is settled,
waits at the node or was lost (`Accounted`), and a nonce that was just read from the node is not above the one the node
mines next – so a transaction sent with it never stands behind a gap.

**Thermal.** `AtLeast` bounds the count from below by the hot updates in a row (each adds 2000, the start is
-1), `AtMost` bounds it from above by the updates since it was zero, and `Shut` says that it passes the limit only with
the shutdown. Both of `SoonEnough` and `NotTooSoon` follow by arithmetic.

**Only model-checked.** Everything temporal beyond invariants and step properties: `CallsReturn`, `DestructorJoins`,
`SetWorkReturns`, `ProofReturns`, `PauseReturns`, `Reconnects`, `GivesUp`, `WorkReachesFarm`, `TakesOver`, `Pauses`,
`ShutsDown`, `FreshSettles`, `Protects` – liveness under fairness and ENABLED are out of the prover's reach, as is
induction over recursively defined data. Every invariant that a run checks is also proved, and so is every
action property and both refinements.

For most of these liveness properties the part that needs no fairness is proved, for every value of the constants: a
count that no step raises and every step of the responsible thread lowers, or that nobody can be stuck.

| Checked by TLC | Proved |
|---|---|
| `CallsReturn`, `DestructorJoins` | `CallsAreServed` |
| `SetWorkReturns` | `SetWorkComesToItsEnd`, `NobodyIsStuck` |
| `ProofReturns` | `NobodyIsStuck` |
| `PauseReturns` | `PausesAreServed` |
| `GivesUp` | `RefusalsAreCounted`, `NeverStranded` |
| `Reconnects` | `StaysOnline`, `NeverStranded` |
| `Pauses` | `MiningStopsAtLimit` |
| `ShutsDown` | `ShutDownIsTheEnd` |
| `FreshSettles` | `FreshIsNotHeldUp` |
| `Protects` | `ShutsDownSoonEnough` |

What is left to TLC in each row is that threads which can move do move, and for `Reconnects` also that timers and
broken reads that cross each other come to an end. That the getwork loop takes over what a good node says (`TakesOver`) and
doStratum what was announced (`WorkReachesFarm`) has no such part: each is one step of a loop that must come round.

## Not modelled

The kernel and all hash, target and difficulty arithmetic (functions on 256-bit words and floating
point, without state); CUDA (not built, and still written for another proof of work); logs, displays, statistics and
UDP control (no mining state depends on them; the best hash and the close hits have no live caller); option
parsing; gas prices, signing and RLP; the throttle's PID arithmetic (floating point: `GpuMiner` lets the throttle be
anything at any time). The dev fee schedule compares a clock with two constants in loops that have no other
thread in them; there is nothing about it that a model would show and the code does not. Switching between a stratum
pool and another node is a constructor in `execute`, after `Stratum` has ended; the old client is never deleted
(MinerAux.h:1076) and leaves by `disconnect`. The end of the program is not modelled either: nothing
stops the miners' threads or the controllers' timer before the farm is destroyed at the end of `execute` (MinerAux.h:516-537). In
`Stratum`, messages that are not of the expected shape are left out: an exception in a handler would end the reading
(EthStratumClient.cpp:77). The inherited Ethereum libraries, the OpenCL C++ header, secp256k1 and the driver
headers are most of the repository's lines and no part of what this program itself does.

## Further work

* `Stratum` on `FarmPromise`, as `GetWork` is, with the check that sorts out stale solutions (MinerAux.h:1140-1155).
* `SoloSubmit` as a refinement of `GetWork`'s one-step submission.
* An abstract "at most one successful mint per challenge" for `SoloSubmit`, with the node's rules as its environment.
