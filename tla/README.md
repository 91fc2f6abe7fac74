# Verification of the SST parallel discrete-event engine

TLA+ specifications, TLC configurations and TLAPS proofs about the Structural
Simulation Toolkit: the engine of `src/sst-core`, which runs one simulation on
several MPI ranks, each with several threads, and has to produce what a
sequential event loop would; and, as a client with a protocol of its own, the
credit-based network of `src/sst-elements/.../merlin`.

File names below are relative to `src/sst-core/src/sst/core/`, and those of
section 1.2 to `src/sst-elements/src/sst/elements/merlin/`.

## 1. The system

### 1.1 The engine

| Part | State | Operations | What makes it correct |
|---|---|---|---|
| `simulation.cc` run phase | time vortex, `currentSimCycle`, `endSim`, `endSimCycle` per thread | `run`, `insertActivity`, `endSimulation`, `StopAction::execute` | activities run in time order; all threads leave the loop, at the same simulated time |
| `link.cc` | latency, mode, send queue (vortex, thread queue, rank queue or init queue) | `send_impl`, `sendUntimedData`, `recvUntimedData`, `finalizeConfiguration`, `prepareForComplete` | an event reaches its receiver once, at send time + latency; untimed data one round later |
| `sync/syncManager.cc` | `next_sync_type`, static barriers | `execute`, `computeNextInsert`, `exchangeLinkUntimedData` | all threads of a rank run the same sync at the same cycle |
| `sync/threadSync*.cc` | queue per sending thread, `nextSyncTime` | `before`, `after`, `execute`, `processLinkUntimedData` | nothing lost; the next sync is within the lookahead |
| `sync/rankSync*.cc`, `sync/syncQueue.cc` | queue per remote rank, receive buffers and their sizes, `myNextSyncTime`, work queues | `exchange`, `exchange_master`, `exchange_slave`, `exchangeLinkUntimedData` | as for threads, over MPI; every message fits the buffer posted for it; the threads share the work and all finish |
| `exit.cc` | set and counts of the components that hold the simulation open, `end_time` | `refInc`, `refDec`, `execute`, `check`, `computeEndTime` | ends when and only when all said OK, at the time of the last |
| `threadsafe.h` | atomics | `Barrier::wait`, `Spinlock`, `BoundedQueue`, `UnboundedQueue` | barrier rounds do not mix; queues are FIFO, lose and duplicate nothing |
| `impl/timevortex/*` | heap, or bins by time and a pool of them | `insert`, `pop`, `front` | pops in `Activity::less` order, also while other threads insert |
| `clock.cc`, `oneshot.cc` | handler lists, current cycle, scheduled | register, unregister, `execute` | a handler is called at every period while registered, a one-shot once, and the cycle number is right |
| `simulation.cc`, `main.cc`: init, setup, complete | `untimed_msg_count`, `untimed_phase`, init queues | `initialize`, `setup`, `complete` | rounds end, on all threads together, when nobody has sent anything, and nothing sent is lost |
| `shared/*` | replica per rank, change set, published counts | `initialize`, `write`, `publish`, `updateState` | when a rank is told that all is published its replica is complete |
| graph, partitioning, wire-up (`configGraph.cc`, `main.cc`, `impl/partitioners`) | configuration graph | sequential | every component placed; `min_part` is the least cross-rank latency |
| statistics, python/JSON model, ELI, output, serialization | | | sequential library code |

How they interact: the vortex of a thread is the only thing its event loop
looks at. Components send over links; a link puts the event into the vortex of
its own thread, or into a queue that only a sync empties. The sync is itself an
activity of every vortex. It meets the other threads at barriers, moves the
events, agrees on the next meeting from the earliest activity anywhere, and asks
the `Exit` object whether the simulation is over. The end comes from four
places: a sync, the `Exit` object as an activity (single thread), a `StopAction`
(`--stop-at`, or a thread that depends on nobody), a signal. Clocks and
one-shots are activities that insert themselves again. Around the run, the same
links carry untimed data in rounds, and shared objects are merged between them.

What is hard: the lookahead argument rests on unsigned arithmetic without
checks; every thread computes the next sync for itself; `Exit` is read by some
threads while others may already change it; barriers are reused at once; the
counters that end the exchange are decremented by any thread; MPI buffers grow
by a handshake; with `--interthread-links` threads insert into a vortex whose
owner pops without the lock they use; keys of activities that are in the heap
change; a queue that one phase leaves filled is taken over by the next.

### 1.2 The network

An endpoint (`interfaces/linkControl.cc`) and a router port
(`interfaces/portControl.cc`) hold credits for each other's buffers. Each side
sends by a timer event that stops when there is nothing it may send, and starts
it again from whatever may change that. The router (`hr_router/hr_router.cc`)
moves packets between ports on a clock (`hr_router/xbar_arb_rr.h`) that turns
itself off while no port has a packet. It is correct if no credit is lost or
made up, nobody sleeps on work, packets of a flow stay in order, and everything
arrives.

`PROJECT.json` lists the hazards line by line with the properties that cover
them, and every component with what of it is modelled.

## 2. Modules

| Module | Models | Built on |
|---|---|---|
| `BarrierSpec` | what a barrier promises: rounds | |
| `Barrier` | `ThreadSafe::Barrier`, one action per atomic access | implements `BarrierSpec` |
| `BarrierProofs` | proofs about `Barrier`, for every set of threads | `Barrier` |
| `Fifo` | what a work queue promises | |
| `BoundedQueue` | `ThreadSafe::BoundedQueue`, one action per atomic access | implements `Fifo` |
| `BoundedQueueProofs` | the ring is a queue and never turns a put away | `BoundedQueue` |
| `ExchangeSpec` | what one rank sync promises | |
| `RankExchange` | the inside of `RankSyncParallelSkip` and of the untimed exchange | implements `ExchangeSpec` |
| `RankExchangeProofs` | an exchange hands over everything once, and buffers suffice | `RankExchange` |
| `SimBase` | ranks, threads, simulated time as an unsigned word, activities and their order | |
| `Exit` | `exit.cc`, one action per locked operation | `SimBase` |
| `EventOrder` | what the engine promises components: each event once, in time order | |
| `ParallelSim` | the run phase of all threads: event loops, links, SyncManager, thread and rank syncs, Exit, StopAction | `Exit`, implements `EventOrder` |
| `SyncProofs` | proofs about `ParallelSim`: the counters of `Exit`, types, the lockstep of syncs, no event comes late while simulated time does not overflow | `ParallelSim` |
| `OrderProofs` | `ParallelSim` implements `EventOrder`; when and at which time threads end | `SyncProofs` |
| `TimeVortexPQ` | the vortex as the heap that `std::priority_queue` makes | |
| `Agenda` | what one event loop promises: everything asked for is done once, at its time, in order | |
| `EventLoop` | one thread: events, `Clock`, `OneShot`, `Exit::execute`, stops, `SyncManager` | `Exit`, `TimeVortexPQ`, implements `Agenda` |
| `OrderedBag` | what a time vortex promises | |
| `BinnedMap` | `timeVortexBinnedMap.cc` with threads that insert while the owner pops | implements `OrderedBag` |
| `BinnedMapProofs` | the bins are an ordered queue, for any number of threads and units | `BinnedMap` |
| `SharedObjects` | `SharedMap` and `SharedObjectDataManager::updateState` | `SimBase` |
| `LifeCycle` | `initialize`, `setup`, `complete`, their barriers, untimed data on all routes | `SharedObjects` |
| `LifeCycleProofs` | proofs about `LifeCycle`: the rounds of init() and complete(), untimed data, the shared map | `LifeCycle` |
| `MerlinLink`, `LinkControl`, `PortControl`, `Network` | packets and links; the endpoint; the port; the router and the composition | each on the one before |
| `NetworkProofs` | proofs about `Network`: nobody in the router sleeps on work, flows stay in order, credits are conserved | `Network` |
| `NetworkSpec` | what the network promises: flows in order, each packet once | `Network` implements it |
| `MC...` | instances for TLC | |

The levels fit together by abstraction. `ParallelSim` takes a barrier for one
step of all its threads, which `Barrier` shows is what the code provides; it
delivers a rank's messages one by one between two of them, which is what
`RankExchange` shows of the exchange; and it takes a vortex for an ordered set,
which `BinnedMap` shows, and `EventLoop` of the heap. `RankExchange` in turn
takes a work queue for a sequence, which `BoundedQueue` shows, and `LifeCycle`
an exchange of untimed data for one step.

Definitions that begin with "fault:" in their comment are changed copies of an
action. They are not part of any specification; each shows that a property
notices a plausible mistake in the code it copies.

### How the models correspond to the code

**Barrier.** `pc` runs through `wait()`: `load` reads `generation`, `dec` is the
`fetch_sub`, `reset` and `bump` are the last thread's stores, `spin` is the loop.
`size_t` is a residue class, so `generation` wraps.

**BoundedQueue.** A thread loads a position, reads the cell's sequence number,
claims the position by a compare-and-swap that may fail for no reason, accesses
the cell and stores the new sequence number, each in a step of its own. The
environment is the one use the engine makes of it: as many cells as entries,
each entry in once per sync, barriers between syncs.

**RankExchange.** `serQ`, `sendQ`, `desQ`, `linkQ` are the four kinds of work
queues, `remaining` and `toDeliver` the two counters that end `exchange_slave`,
`wire` and `wire2` the messages under the two tags of a connection, `remoteSize`
and `localSize` what both sides believe of the receive buffer. A batch is its
size and the number of the exchange it belongs to; the size is picked where the
master sends it. The untimed exchange, and with one thread per rank the timed
one (`RankSyncSerialSkip`), goes from the master's sends straight to its
`MPI_Waitall`.

**Exit.** `idSet`, `refCount`, `threadCount`, `endTime`, `globalCount` are the
members of the same names. `refInc` and `refDec` hold the spinlock, so each is a
step. `ParallelSim` and `EventLoop` call them from the component's step, and add
the `Exit` object or `StopAction` that `refDec` inserts (`AfterOK`).

**ParallelSim.** Per thread: the vortex `tv` (a set; `Earliest` are the
activities that `pop` may return, the tags that order events of the same time
and priority being left open), the clock `now`, `endSim`, `endCycle`, the type of
the next sync and the thread's `nextSyncTime`. `tq`, `rq`, `net` hold the events
on their way. `pc` is the barrier at which a thread waits, or the stretch of code
it runs next. One activity is one step: components of different threads share
nothing but the `Exit` object, which locks, and with `--interthread-links` the
vortices, which lock as well. What a component does is left open: on any event
it may send a timer to itself, a message over any link, both or nothing, and say
OK or DoNotEnd. A component that holds the simulation open has an event of its
own pending (`SelfPending`): without it nothing in the engine would ever end,
because the `SyncManager`, queued at the end of time, always comes before the
stop event there. The assumption is about components, not about the engine.
`SimTime_t` is the residues modulo `MaxTime + 1`; the delay `delivery time -
current cycle` is computed as unsigned as in the code. Of a late event it wraps,
and wraps back where `Link::send` adds it to the current cycle: such an event
would land in its receiver's past, and the clock go back. The latency of the
links between threads is one per rank (`interThreadMinLatency` is the minimum
over the rank's own links), and so is `Independent`, whether the threads of a
rank have no link to another thread at all.

**EventLoop.** One step is one activity popped, or one call of a handler of a
clock or one-shot; a handler does one thing (send, switch another clock handler
on or off, ask for a one-shot, say OK or DoNotEnd) or nothing. `vortex` holds the
array of the heap, with delivery time and queue order as fields of the
activities, because the `Exit` object may be inserted while it is in the heap
already and then changes the keys of both its entries. A handler leaves its own
clock by its return value. `StaysAwake` is `SelfPending` again. `FirstTick` is all
of `Clock::schedule`, but no run takes its branch for a clock that comes later in
the current cycle (`clock.cc:117-119`): nothing of a priority before the clocks'
calls a component, and the statistics clocks, which come later, are registered
before cycle 0 only (`statapi/statengine.cc:145`).

**BinnedMap.** What `insert` does under `slock` or `tu_lock` is one step; between
them other threads run (`Look`, `Find`, `Push`). A time unit is an object that
comes back from the pool with what it held before. The owner sorts a unit when
it pops from it. The window stands for the lookahead: the owner stays before its
end and the others insert at its end or later until all have met.

**LifeCycle.** `pc` is the barrier a thread waits at or the stretch it runs next;
`After` gives their order, with the lines. `transit` are the queues of the syncs,
`inbox` the `InitQueue` at the receiver. The second level of `InitQueue`s makes
local data readable at once, so that the round number in the data decides.
`Update` is a collective of thread 0 of all ranks.

**SharedObjects.** `replica`, `changes`, `published`, `fullyPublished`, `locked`
per rank. `sharing` are the instances that have called `initialize()`, in the
constructor (`Early`) or in a round of `init()`; `counted` are those that the last
`updateState` looked at. In one call of `init()` a component may use the map
several times (`Share`). `failed` is the fatal error of two values for one key,
which ends the run. A build without MPI is the case of one rank.

**Network.** A link is two queues per direction, for packets and for credits: a
credit is sent with an extra delay and may be overtaken. `timer` counts the
timer events on their way, `waiting` says that there is none. The clock's step
does the arbitration and all its moves, as `clock_handler` does. Flows stay
inside one router, where a packet keeps its virtual channel.

## 3. What is checked

| Run | Instance | Shows |
|---|---|---|
| `barrier` | 3 threads, `size_t` of 5 values | rounds do not mix, counters are right, spinners get out, `Barrier` implements `BarrierSpec` |
| `bounded_queue` | 2 threads, 2 entries, 3 syncs (the ring is used three times over) | the ring is a queue, a put never fails in this use, every entry is taken |
| `rank_exchange` | 2 ranks of 2 threads, one thread without connections; untimed, timed, timed; sizes 1 and 2, buffers of 1 at first | every batch is delivered once, in its exchange; buffers suffice; exchanges end |
| `threads` | 1 rank of 2 threads, thread latency 2, thread queues and direct links, OKs taken back | order, counters, end time |
| `parallel` | 2 ranks of 2 threads, 3 components that start together or one a cycle later, one thread empty; links of latency 2 and 3 on all routes, links between threads only, between ranks only with `--stop-at 3` and without, no links | lookahead, order, equal syncs, end of the simulation and its time for threads that links hold together and for those that end one by one |
| `event_loop` | 2 components, a clock of period 2, the statistics clock of period 3, a one-shot of delay 2, four configurations (one with `--stop-at`, one without primary component) | everything asked for is done once, in time and order; cycle numbers; statistics last; the end of the loop |
| `binned_map` | an owner, 2 writers, 4 units, 4 insertions, window of 2 | an ordered queue under concurrent insertion |
| `life_cycle` | 2 ranks of 2 threads, 4 components, channels on each route, one of them back from rank 1 to rank 0, three calls that send; two sharers on different ranks, one of which may initialize late, one key, two values; many rounds, or many uses of the map in two rounds | rounds agree and end; data is read in the next round and none is left; when a rank is told that all is published its replica is complete |
| `network` | 3 endpoints, 2 virtual networks, 3 flows, packets of 1 and 2 flits, buffers of 2; two packets of any flows, or three of one endpoint: two on one network and one on the other, which is sent while a packet of the first waits for credits, so that the timer `send()` leaves stopped has to be started by them | credits, wake-ups, order, delivery |

The properties, from the outside in:

- `EventOrdered`: `ParallelSim` implements `EventOrder`. Every event that is
  sent is handled once, by its receiver, at its delivery time, and no clock goes
  past an event that is still on its way there.
- `NoStraggler`: the lookahead argument by itself: an event in a queue or a
  message is not earlier than the clock of the thread it goes to.
- `SameSync`: threads of a rank are in the same sync, of the same type and
  cycle; ranks exchange in the same cycle; threads that run agree on the next.
- `EndsAllOK`, `EndTimeAgreed`, `OwnEnd`, `FinalTimeAgreed`: threads that links
  hold together (`Together`: all of them where links cross ranks, those of a rank
  where they cross threads only, each by itself otherwise) end when all their
  components have said OK, no component takes it back afterwards, and they take
  the same end time, that of the last OK. `--stop-at` may end a thread before
  (`Stopped`), and where no link crosses ranks, the first threads of the ranks
  agree on a common time after the loop, which replaces their own (`TakenFinal`).
- `CountsMatch`: the counters of `Exit` are the sizes of its sets.
- `Ends`: all threads come out of `run()`.
- `AgendaKept`: `EventLoop` implements `Agenda`.
- `ClockInv`: a clock that has stopped and starts again counts its cycles as if
  it had not stopped. `SampledLast`: statistics are sampled when the cycle's
  clocks and events are done. `EndsRight`: the loop ends at the last OK that was
  not taken back, with or without an `Exit` object queued for an earlier one; a
  simulation without primary component runs dry first.
- `QueueRefined`: `BinnedMap` implements `OrderedBag`. `UnitInv`: nobody inserts
  into a unit that the owner works on or has given back.
- `RoundInv`, `ReadNextRound`, `NothingLost`, `AllEnd`: the rounds of untimed
  data. `PublishedComplete`: the shared map; what an instance has written that was
  initialized after the last `updateState` is not promised, as
  `sharedMap.h:165` says.
- `InOrder`: `Network` implements `NetworkSpec`. `CreditInv`: credits, packets
  and free room add up on both hops. `RouterAwake`: no router port sleeps on
  something it may send, the clock is off only without packets, and there is
  never a second timer. `HostAwake`: an endpoint that sleeps on a packet it could
  send will be woken by credits for another. `Delivered`: every packet is read in
  the end.
- `ExchangeRefined`, `NothingTruncated`, `ExchangesEnd`: the exchange.
- `FifoRefined`, `InsertSucceeds`, `AllTaken`: the work queue.
- `BarrierRefined`, `RoundInv`, `SpinnerReleased`: the barrier.

Three runs show where code and documentation differ; `PROJECT.json` quotes the
lines.

- `untimed_blocked`: `--stop-at` leaves an event of the run in the queue of a
  thread sync; `complete()` moves it in front of the untimed data, where its
  delivery time hides everything behind it.
- `host_credits`: a host port looks at the credits of the virtual network and
  takes those of the virtual channel, so with two channels per network it fills
  the endpoint's buffer beyond its size.
- `reported`: a `StopAction` overwrites the end time other threads have reached.

Other differences met while modelling, without a run: a component that holds the
simulation open with nothing queued keeps the stop event from being reached
(`simulation.cc:634` says otherwise; excluded by `SelfPending`); with several
threads a simulation without primary component ends at its first sync; a rank of
several threads without a link to another rank takes a position modulo 0 in its
first exchange; `finalizeConfiguration` tests for `nullptr` what it means to
delete (`link.cc:128`), a leak; `LinkControl::send` leaves the timer stopped
while a packet of another virtual network waits for credits (it starts with
those credits: `HostAwake` and `Delivered` hold); `insert` of the binned map reads
`current_time_unit` twice without a lock, which only a build that does not keep
it in a register exposes (`Rereads`); "front only happens by one thread", says
`timeVortexBinnedMap.h:104` where it sorts a unit in place, but where links
between threads go through queues all threads of a rank call it for every vortex
at once (`threadSyncSimpleSkip.cc:124`), and with two `Readers` `BinnedMap` may
lose an activity in the two sorts.

### Bounds

`MaxSends`, `MaxEvents`, `MaxShots`, `MaxInserts`, `MaxWrites`, `Loads`, `MaxUses` bound
what components do; two or three suffice for a chain of events that crosses a
sync and comes back, for an OK that is taken back after it, for a second list of
one-shot handlers, for a unit that goes back to the pool and is used again, and
for a buffer that fills. `MaxTime` (31 in `ParallelSim`) is above every time such
a chain reaches, so only a computation that wraps gets near it, except for the
syncs and stops that the code itself puts at the end of time. `Horizon` is the
cycle from which components of `EventLoop` ask for nothing new, late enough for
a clock to stop and start again in between. Latencies are chosen so that thread and rank
syncs fall on the same cycle, on different ones, and one shortly after the
other; starts and delays so that events arrive exactly at a sync, before and
after it. `MaxSyncs` lets the ring of the work queue wrap twice; `Plan` lets
buffers grow in the untimed and in the timed exchange, and be used again. The
buffers of `network` hold one packet of the largest size, so that a second packet has to
wait for credits on every hop. `Loads` are the sizes of the packets that the flows may
send: pairs for every two flows, and three packets of one endpoint, so that it stalls on
one network while the other has credits, which two packets never do. `MaxUses` limits the
uses of the shared map (`initialize()`, a write, `publish()`) by the calls that have
sent: six of them beside at most one such call, that is in two rounds, and one beside
more, so that writes and late initializations fall before, between and after the updates. `Skipped` is what the crossbar may have missed while its
clock was off, modulo the number of ports.

### Fairness

`FairSpec` of every module gives weak fairness to the steps of each thread:
threads are OS threads or MPI processes, nobody holds them, and a thread that
polls goes on polling. Meetings (a barrier all of whose threads are there, a
collective all of whose ranks are there) are weakly fair because
`Barrier.SpinnerReleased` holds and MPI makes progress. In `BoundedQueue` a
compare-and-swap that may succeed again and again succeeds (strong fairness):
`compare_exchange_weak` fails spuriously now and then, not for ever; and threads
keep asking and putting, as the loops of `exchange_master` and `exchange_slave`
do. In `LifeCycle` weak fairness of `Next` as a whole is enough, since every
behaviour is finite: the number of rounds is bounded by what components send. In
`Network` the engine hands over every timer event and everything on a link, and
the clock ticks; endpoints read what has arrived, as the receivers in the element
libraries do, and nobody has to send. `EventLoop` and `BinnedMap` state safety
only.

## 4. What is proved

TLAPS checks the proofs in `BarrierProofs`, `BoundedQueueProofs`,
`RankExchangeProofs`, `SyncProofs`, `OrderProofs`, `BinnedMapProofs`,
`LifeCycleProofs` and `NetworkProofs`. They assume of the constants what the modules state
(`ThreadsAssumption`, `SizeAssumption`, `QueueAssumption`, `ExchangeAssumption`,
`BaseAssumption`, `SimAssumption`, `SharedAssumption`, `LifeAssumption`,
`BinnedAssumption`, `MerlinAssumption`, `SkippedAssumption`). `NeverLate` and the theorems of
`OrderProofs` need a hypothesis besides, named below: `InTime`, `Room`, `Occupied`; two of
`LifeCycleProofs` are about simulations that `--stop-at` does not cut off
(`~stopped`), those of `BinnedMapProofs` ask for `~Rereads` and for one reader
at most, and `CreditsCorrect` for one channel for each virtual network, or one
virtual network (`host_credits` shows that it is false elsewhere). TLC evaluates `Room` and `Occupied` for the instances of the runs
(`RunAssumption` in `MCParallelSim`), and they hold there.

### The primitives

- `BarrierProofs`: `TypeCorrect`, `RoundCorrect`, for any finite set of threads
  and any width of `size_t` that holds their number. The invariant `Inv` is
  `TypeOK` and `RoundInv` together. `RoundInv` is what makes it inductive: the
  waiting threads are those past their decrement whose copy of the generation is
  the current one, the count is the number of the others, and whoever resets and
  bumps is alone with all threads waiting. Threads still spinning in the last
  round do not count because the next generation differs (`NextGeneration`, also
  where it wraps). `BarrierCorrect`: a `fetch_sub` is the arrival of
  `BarrierSpec`, the `fetch_add` of `generation` the release, the return the
  leaving; every other access maps to a stutter.
- `BoundedQueueProofs`: `TypeCorrect`, `PutsSucceed`, `RingIsFifo`, for any
  threads, entries and number of syncs. The invariant `IInv` says what
  the sequence number of each of the last `dsize` positions is (`SeqInv`: the
  position itself until it is written, one more until it is read and released,
  a whole turn more after that), that a position is claimed by one thread
  (`ClaimInv`), where its entry is (`DataInv`), and that the entries still wanted
  are as many as the positions still free in this sync (`CountInv`). A put never
  fails because of `CountInv`: whoever would find a cell in use
  would be putting in one entry more than there are. `RingIsFifo` takes the
  successful compare-and-swap of a put or a take for the operation of `Fifo`;
  every other access is a stutter, although the entry is written later than
  that and may be read later still.
- `RankExchangeProofs`: `TypeCorrect`, `BuffersSuffice`, `HandsOverAll`, for any
  ranks, threads, links, plan of exchanges and sizes of messages. The invariant
  gives every connection a stage (queued, being serialized, on the wire, taken,
  counted, deserialized, done) and says that its data is in the one place that
  belongs to the stage, that the work queues hold no entry twice, that what
  masters and threads count is the number of connections in the stages that
  follow or precede, and that the buffer is at least what the
  sender believes it to be, or the message that says otherwise is on the wire.

### The run phase

All of it holds for any number of ranks, threads and components, any placement,
any latencies and with or without direct links.

- `SyncProofs`: `CountsCorrect` from `CountInv`, which adds to `CountsMatch` that
  a rank's set holds only components placed on it (or the per-thread counts
  would miss some). `TypeCorrect` and `SyncsAgree` from `SyncInv`: the threads of
  a rank go through the phases of a sync in lockstep, from one barrier to the
  next; the times and types each computes for itself are computed from data
  that no thread changes in that phase, so they are equal; a sync that is due is
  queued in every vortex; clocks of a rank agree in a sync, and those of all
  ranks in an exchange.
- There too: `NeverLate`, that no clock goes past an event on its way,
  as long as simulated time does not overflow (`InTime`, stated of the events that
  are pending in the behaviour). `LookInv` is the argument of conservative
  synchronization: either nothing is pending (`Nothing`), or the next sync is
  no later than any pending event plus the latency of the link it waits for
  (`Ahead`), what is on its way is due at that sync or after it (`Due`), no clock
  passes the next sync or its own vortex (`Behind`), and events wait only where
  and when the code lets them (`Waiting`, `Homes`).
- `OrderProofs`: `NeverOvertaken` derives the same from the constants: `Room`
  says that there is time for the events that components may send, one after
  the other, and for two syncs more. `RoomInv` bounds delivery times by the
  events sent so far; that needs every event to be at one place and to have a
  slot of its own (`PlaceInv`). `RunOrdered`: the run phase implements
  `EventOrder`. An event that is handled maps to `Handle`, a stop or sync to
  `Advance` of the clock, and everything else to a stutter, because there events
  only change place. That no clock goes back needs
  `ForwardInv`: a thread that has found out that it goes on has its next sync
  and its stops ahead. This is where `Occupied` comes in (every component that
  holds the simulation open has an event at first, and by `SelfPending` later):
  once nothing is pending everybody has said OK, so that the next sync ends the
  run and nothing that is computed at the end of time is ever used.
- There too, from `Room` and `Occupied`: `EndsWhenOK`, `EndsAtLastOK`,
  `EndsAlone`, `EndsTogether`. `EndingInv` says that a sync that ends a thread
  ends all that are held together with it (`EndTogether`); that nobody runs
  components between that decision and the end, so that no OK is taken back and
  the time stays that of the last OK (`EndTimes`); that the end time of a rank,
  until someone ends, covers the last OK of every thread that is done and is
  no later than that of some component (`EndTimeBounds`); that a thread without
  links has its stop queued, for the current cycle, from the step in which its
  last component says OK (`OwnStops`); and which stops there are (`StopTimes`). Writing
  the proof showed that two properties had been stated too broadly: ranks whose
  links cross threads only end each at a time of its own, and `--stop-at` leaves
  components that have not said OK. The `parallel` run now has a configuration
  of the first kind.

### The life cycle

- `LifeCycleProofs`: `RoundsTogether`, with any number of ranks, threads,
  components and links and whatever the components send. `LifeAssumption` says
  that `CompOrder` lists every component and that an event of the run is due
  later than any round (`Late`), so that it cannot be mistaken for untimed data.
  The invariant is `LifeInv`. Its part `Control` says that the threads of a rank
  are in the same stretch between two barriers (`RankInv`, `Meet`) and that the
  first threads of all ranks are in the same stretch between two collectives
  (`RanksInv`, `Era`); that a count of messages that one of them reads cannot
  be another by the time the next one reads it (`CountInv`); and that every round
  but the last had a message, so that there are only as many rounds as there are
  calls that send (`SentInv`). All ranks decide the same because the sum they
  exchange is 0 exactly if every count is (`SumOfCounts`).
- `DataInNextRound`, `NothingLeft`: the other part of `LifeInv`, `InChannel`, says
  for each kind of link (local, across threads, across ranks) in which phases
  data may be on its way and which rounds' data may be in front of the receiver,
  that data on its way has been counted, and that it is in the order in which it
  was sent. When all counts are 0 there is none. After `--stop-at` both
  properties are false, which is the finding of `untimed_blocked`; hence the
  hypothesis `~stopped`.
- `ReplicaComplete`: when values are verified (`Verify`, not
  `NO_VERIFY`), with any number of ranks, threads, sharers, keys and values, a
  rank that is told that everything is published holds what the instances that
  were counted have written, also where others are initialized later.
  `SharedInv` says where a written value is: in every replica (`Settled`), or in
  the replica of the writer's rank and in the changes that go to the others
  (`Pending`); and that once a rank is told, what the counted instances wrote is
  settled and they can write no more, since they have published or all ranks are
  locked. Without verification
  the values in the replicas may differ and nothing of the kind is claimed.

### The binned map

`UnitsCorrect` and `QueueCorrect`, for any threads, units, priorities and window.
The hypotheses are those under which the code is meant to run with threads that
insert: `~Rereads` (the compiler keeps `current_time_unit` in a register in
`insert`) and at most one reader, which is what `--interthread-links` has (only
thread 0 calls `front()`, in the rank sync); both are false of some builds and
options, see section 3. The invariant is `BinInv`: every unit is
either in use or in the pool and empty there (`UnitsInv`); it holds only what is
due at its time, in order if it is marked sorted, and every activity has a number
of its own (`BinsInv`); an insertion under way is headed for the unit of its
delivery time, which another thread's is never the current one since that is due
before the next sync and the insertion is not (`FlyingInv`); a unit of the map
that is empty has somebody about to fill it, so that the owner never pops from an
empty one; a reader has sorted what it has been through (`SortingInv`); and
`depth` is the number of activities inside or on their way (`DepthInv`). In the
refinement `Push` is `Insert`, `PopCurrent` is `Take`, everything else a stutter.
That the sorts deliver a sorted permutation follows from the step of the
insertion sort (`PlacedIs`) and an argument by the shortest part that could not
be sorted (`CanBeSorted`).

### The network

`NeverAsleep`: `RouterAwake`, with any number of ports, virtual networks,
channels and flows, any sizes of packets and buffers, and however many cycles
the clock was off. The invariant is `AwakeInv`, which adds to `RouterAwake`
only the shape of the variables; each action keeps it by itself. What a
stopped port may send changes by a credit from its endpoint or a packet from the
crossbar, and both start the timer if it has stopped; a port takes a packet from
its buffer only where its timer runs (`OutputAwake`), which is
what keeps a second timer from being started; and the timer stops itself only
where it has found nothing to send (`IdleAwake`).

`EndpointAwake`: `HostAwake`, for the endpoints. The invariant is `StallInv`: where
the timer has stopped, `have_packets` says truly whether a packet waits, and one that
does waits for credits, since `Idle` finds nothing it may send, a packet behind
another leaves that one at the front, and credits start the timer (`Remembered`).
With `TimerInv`, a timer that sends a packet has not stopped.

`FlowsInOrder`: `InOrder`, that is, `Network` implements `NetworkSpec`: every
flow is a queue, whatever the sizes, the channels and the arbitration. A
packet passes six places (output queue, link, input buffer, output buffer, link,
input queue), and the invariant `Routed` says that a place holds only packets of
its port and its network or channel. So a packet of a flow has one place to go
next, whichever it is in (`Shifted`, `WayRules`): it leaves the front of one
place for the back of the next, and the packets of the flow, read from the last
place to the first (`Line`), stay as they are. Only `Send` adds one, at the back,
and only `Recv` takes one, at the front (`NextMoves`); with `Numbered` (what is on
the way are the numbers after the last one read up to the last one sent) these
are the steps of the abstract specification. The crossbar moves many packets in
one step, and there the argument needs that at most one leaves a port and at most
one reaches a port (`ArbChosen`): one port's turn keeps that (`ArbitrateChooses`),
and so does the whole arbitration (`ArbitrationChooses`). `Arbitration` is a
recursive function; that it exists and has the property takes induction over the
ports, which is done by hand with a least counterexample (`LeastOf`, `StepsExist`).
The same is done once for `Total` and `Joined`, the sums of flits and the packets
of a flow (`ThroughBoth`: over two sequences joined, the result is the two
results combined).

`CreditsCorrect`: `CreditInv` and with it `InputBufferBound`, where each virtual
network has one channel or there is one virtual network. For a link, `LinkSum` adds
what the sender has left, the packets on the link, those in the buffer behind it and
the credits on their way back; a step moves flits from one of the four to the
next, and `LinkRules` has one rule for each such move, used for both hops. It needs
`Routed` again: a credit goes back to the network of the packet it is for, and that
is the network whose sender paid for it, since virtual networks enter by different
channels (`EntryOnce`). On the second hop the port pays from the channel and is paid
back by network, which is where the condition comes from (`Matching`).
`HopsCorrect` is what holds without the condition: the balance of the endpoint's
output queue, of the first hop, and of the crossbar.

### Only model-checked

- Liveness (`Ends`, `AllEnd`, `ExchangesEnd`, `AllTaken`, `SpinnerReleased`,
  `Delivered`): fairness and `ENABLED` are out of the prover's reach.
- `AgendaKept`, `ClockInv`, `SampledLast`, `EndsRight` of `EventLoop`: the vortex
  is the array of a heap, and what its recursive sifting does takes induction.

## 5. What is not modelled, and what comes next

Not modelled: wire-up, partitioning, Python and JSON input, statistics output,
serialization, memory pools, the interprocess tunnel, the loading of element
libraries, signals and heartbeat, `UnboundedQueue` inside, polling links,
`SharedArray` and `SharedSet`, `sst-macro`, and the element libraries but for a
part of merlin; the reasons are in `PROJECT.json`. Of merlin: congestion
management, dynamic link width, VN remapping, control events, links between
routers and the topologies and arbiters other than the ones named. A latency of
one cycle with direct links (`nextSyncTime - 1` would be the current cycle), an
independent thread without primary component, the wrap of `min_time +
max_period` with idle ranks, and handlers that change the handler vector that is
being walked are excluded by the assumptions and bounds; the hazards say so.

The repository holds more than half a million lines, most of them component
models, vendored libraries and a second simulator (`sst-macro`); the models cover
the part on which every simulation depends.

What comes next:

1. Proofs: `EventLoop`, with the least-counterexample argument of
   `NetworkProofs` for the sifting of its heap.
2. Models: links between routers with several virtual channels; the memory
   hierarchy's coherence controllers; the interprocess tunnel; signals.
