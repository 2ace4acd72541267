# Janus in TLA+

TLA+ modules of the Janus transaction execution engine of this repository
(`src/januscore/janus`) and of the engines it is compared with (`src/baselines`), TLC
instances that check them, and TLAPS proofs of what holds for any number of threads.

Janus executes the blocks of a blockchain, each cut into *batches*. All worker threads run
the transactions of a batch at once, optimistically, and record what each reads and writes.
From these read-write sets they build, together, a graph of the conflicts in the batch,
choose an independent set of it to commit (the costliest they can find), execute the
aborted rest again, and step to the next batch. Threads that run out of work early go ahead
into the next batch. No stage has a coordinator: whichever thread happens to be the last
one does the closing step, and the others notice by spinning on a flag.

This is where the risk is, and what the project is about: counters whose last increment
must be recognised by exactly one thread, parity rules that decide whether a thread queues
a result or takes one, plain fields shared without a lock, and a caller that replaces the
slices the threads are reading.

Paths below are relative to `src/`; without a directory they are in `januscore/janus`.

## 1. Inventory

### 1.1 The engine

| Component | Source | State | Operations |
|---|---|---|---|
| Batch generation | `batch.go` | batch under construction, counters of long and of all transactions, two thresholds | add a transaction, cut at the watermark, add the last batch |
| Pipeline and worker loop | `pipeline_core.go:54-242,712-725`, `types.go:491-561`, `run.go` | `currentBlockID`, `currentBatchID`, `batchStates`, `completeChan`, `stopChan`; per worker its block, batch and phase | submit a block, await its completions, find the batch to work on, move through the phases, step to the next batch |
| Speculative execution | `pipeline_core.go:453-635`, `pipeline_executor.go`, `common.go`, `pipeline_validator.go:380-396` | two pairs of transaction counters, `IsRuned` and `rwSet` of each transaction, `ThreadRWSets` | execute a transaction of the next batch early, execute or keep one formally, list its set, take it into a graph |
| Thread state tables | `pipeline_validator.go:9-137,225-280`, `types.go` | per address a sorted list of operations; the write set | build a table, merge two, group a list by transaction |
| State-table merge | `pipeline_core.go:503-580`, `types.go:64-93`, `pipeline_validator.go:139-247` | `CompletionOrder`, `pairIndex`, `stateTablesQueue`, `completedMergeCount` | pair with a finished worker, queue the lone table, merge, queue or take, publish |
| Conflict graph | `pipeline_validator.go:282-414`, `types.go:403-475` | edges, degrees, a union-find forest with ranks | add the conflicts of an address, merge a graph into another, take out the components |
| Graph construction | `pipeline_core.go:637-704`, `types.go:231-374`, `pipeline_validator.go:416-498` | a word that packs the next table and the bitmap of workers; `dagQueue`, `completedMergeCount`, `totalMerges` | claim two tables, build, queue or take a graph, finish |
| Independent-set solvers | `mwis.go`, `mwis_solver.py` | none between calls | greedy, by cost, exact, rounding of a relaxation |
| Commit and re-execution | `pipeline_core.go:245-439,735-871`, `types.go:15-44,530-549` | `componentsIndex`, `completeComponentsNumber`, `mwisDone`; the re-execution's own index, counter and flag; `finished` | claim and solve a component, collect; claim and re-execute an abort set, collect; end the batch |

How they interact. The caller (`run.go`) calls `SubmitBlockBatches` and blocks on
`completeChan` once per batch. Everything else is shared memory: the workers find the block
and the batch by reading three fields of the engine one by one; inside a batch a stage hands
over to the next through a published pointer and a flag (`MergeThreadStateTables.done`,
the finished conflict graph, `mwisDone`, `reExecute.done`, `finished`). A stage's result is
published by the last worker in it. A batch hands its write set to the next one, which must
execute again what it had executed early and what reads that write set.

What makes each of them correct:

* *Generation*: the batches are the block, cut into consecutive pieces, each as long as
  the thresholds allow.
* *Pipeline*: however stale a worker's reads are, it only works in the current batch, once;
  the caller has the shared slices to itself while it replaces them; batches begin and end
  in order; nobody waits for ever.
* *Speculation*: each transaction is listed once, with a set, and with the set of an
  execution after the batch before if it depends on that one; the set a graph takes does not
  change any more.
* *The two merges*: nothing lost, nothing twice, nobody takes from an empty queue, and the
  one who ends the stage knows it.
* *Tables, graph, solver*: lists sorted and complete; edges exactly the conflicts whatever
  the merge order; components exact; committed sets independent and maximal.
* *Commit*: every transaction committed once or executed serially once, the batch ended once.

### 1.2 The baselines

Eight engines that the experiments compare Janus with. Each takes the same blocks, of whose
transactions a first execution has collected the read and write sets.

| Component | Source (`baselines/`) | State | Operations |
|---|---|---|---|
| Aria | `aria/aria` | the workers' lists, the column, a reservation table, a barrier | deal out, send a column, reserve, arrive, verify, return, put back |
| Harmony | `harmony/new_harmony` | `MinOut`/`MaxIn` of each transaction, coalesced commands per key, a lock table, a barrier per stage | execute, verify, commit, fall back, clean |
| OptME | `optme/optme` | reservations per key, the address-based conflict graph, epochs | simulate, construct, sort, reorder, execute an epoch again |
| MVSchedO | `mvschedo` | the schedule, a queue per hot key, the versions and read timestamps of each key | schedule, wait for the turn, read, write, abort, mark, serial fallback |
| SChain | `schain/schain` | an access sequence and a lock per key, two channels | grant or give back, signal, take, finish, join |
| Pilotfish | `pilotfish` | queues of the keys, dependencies, ready lists | plan, take, execute, complete |
| QueCC | `quecc` | queues by planner and range, dependencies, who read from whom, undo entries | plan, take, execute, complete, commit in passes |
| Thunderbolt | `thunderbolt` | the order of the pre-play, dependencies, a ready list, a stop flag | play, plan, take, validate, complete, commit or give up |

What makes them correct: a round of *Aria* commits only what can be put into an order;
*Harmony* commits without a lock what does not conflict and applies every write; *OptME* commits a
block in epochs of its own and every transaction in one of them; *MVSchedO* lets conflicting
operations on a hot key happen in schedule order; *SChain* runs a transaction after all
earlier writers of its keys; *Pilotfish*, *QueCC* and *Thunderbolt* run conflicting
transactions one after the other in the order of their plan, and *QueCC* keeps for each write
what it replaced. Each of them must end although its threads wait for each other, at barriers,
on condition variables and channels, or by spinning.

The other parts of the repository are listed under "Not modelled" below.

### 1.3 Hard behaviours

`PROJECT.json` lists 39 hazards, each at its line, and the properties that cover them. They
fall into eight groups:

1. the last worker of a stage has to recognise itself, by a counter (both merges, both
   collections, the end of the batch);
2. a count decides between queueing and taking, and is only right if the queue is as long as
   the parity says;
3. fields read one by one (`pipeline_core.go:111-150`) while the caller replaces them;
4. plain fields written by one thread and read by another (`IsRuned`, `rwSet`, the flags);
5. results that must not depend on the iteration order of Go's maps;
6. waiting: every busy wait, barrier and condition variable needs a thread that will end it;
7. a round whose verdicts depend on what the other threads have entered before it ended
   (Aria's reservations, Harmony's dependency marks, OptME's sequence numbers);
8. tables that outlive a round: what one block or epoch leaves behind, the next one finds.

## 2. The modules

Module names of one stage and the module of its data are separate: `StateTableMerge` moves
tables around as sets of workers, `StateTables` says what merging does to their contents;
likewise `DAGMerge` and `ConflictGraph`. That keeps both state spaces small and loses
nothing: the protocols never look into what they move.

```
 the engine
            BatchGeneration
                  |  batches
              Pipeline ------------- implements ----> BatchOrder
       /        |        |        \
Speculation  StateTableMerge  DAGMerge  CommitReExecute -- each implements --> GatherAll
     |           |           |          |   (not Speculation)
  (rwSets)   StateTables  ConflictGraph  MWIS
                 (contents)

   BatchStages: BatchGeneration, Speculation, StateTableMerge, StateTables, ConflictGraph,
                MWIS, one run for all of them
   proofs: StateTableMergeProofs, DAGMergeProofs, CommitReExecuteProofs, PipelineProofs,
           SpeculationProofs, BatchStagesProofs

 the baselines
   EpochEngines:   Aria, Harmony, OptME               sort out conflicts after a round
   OrderedEngines: MVSchedO, SChain,                  order a block before they run it
                   Pilotfish, QueCC, Thunderbolt -- each implements --> ConflictOrder
                        \      |      /
                     DependencyScheduler
   proofs: EpochEnginesProofs, OrderedEnginesProofs
```

`BatchStages`, `EpochEngines` and `OrderedEngines` put the modules they name side by side.
Which part runs is chosen in `Init`; the variables of the others have the value `"unused"`
and never change, so that one run checks each part alone, with the parts' own actions and
properties.

The definitions keep the names of the source, so that `completedMergeCount` in a module is
`completedMergeCount` in the code. `PROJECT.json` maps every definition to its lines. A
definition whose comment starts with *Variant* is a deliberately broken form of the
definition after it; no specification uses it. It documents which mistake each property
would catch.

### 2.1 Abstract specifications

**GatherAll** is what a collective stage promises the next: parts arrive in any grouping, and
one result made of all of them is published, once, after the last arrived. Three stages are
shown to implement it, with different parts: `StateTableMerge` (the workers' tables),
`DAGMerge` (the state tables claimed two by two) and the commit validation of
`CommitReExecute` (the components).

**BatchOrder** is what the engine promises its caller: the batches of a block begin and
complete one by one in order, and no block starts before the block before it is complete.
`Pipeline` implements it, although workers execute transactions of later batches early.

**ConflictOrder** is what a scheduler by dependencies promises: a block gets an order, its
transactions run several at a time, and of two that conflict the later one starts only after
the earlier one has completed. `Pilotfish`, `QueCC` and `Thunderbolt` implement it, with
three different ways to the dependencies: neighbouring entries of a key's queue, neighbouring
transactions of a range's queues, and the last writer and the readers since of each key.

### 2.2 BatchGeneration

`AddTx` is one turn of the loop of `GenerateBatches`, with the count, the queue by kind, the
threshold test and the cut; `AddLastBatch` is what follows the loop. `BatchesExact` says with
`Lists` that a list holds the transactions of a piece of the block in their order. The thresholds are the
products of cores and `WaterMarkAlpha`/`WaterMarkBeta`, given in tenths, truncated as
`batch.go:57` truncates them.

### 2.3 Pipeline

The caller is a process of its own: `ClearBatchID`, `AllocateBatchStates`, one
`FillBatchState` per entry, `PublishBlock`, `PublishFirstBatch` are the stores of
`SubmitBlockBatches` in their order, then the completions are received, and at the end
`stopChan` is closed. A worker's turn of the loop is cut at every shared read:
`ReadBlockID`, `ReadBatchID`, `CheckBounds` (the length), `ReadBatchState` (the index, which
may panic) and `RecheckBlockID`. Inside a batch a stage is reduced to what the stage modules
show it to promise: workers that find work join, the last one publishes, the others pass by.
`EndBatch`, `MoveOn` and `Complete` are the three effects of `tryEntryNextBatch` in order:
`finished` first, then the batch id, then the completion.

`completeChan` is a count; it holds 100 and the caller drains it, so that it never blocks.
Which worker is in which half of the batch follows the order in which they finish, as in
`executeCurrentBatch`.

### 2.4 Speculation

One batch, looked at closely, and of the batch before only `executionDone` and `finished`.
`Ahead` are the workers that went ahead, `Staying` those that still execute the batch before.
`ExecuteNextBatch` and `ExecuteCurrentBatch` are the functions of that name with their
claims, loads and stores as separate steps: early execution stores the set and then the
mark, formal execution the mark and then the set. A read-write set is reduced to when its
execution began, before or after the batch before was finished; `Conflicting` are the
transactions that read what that batch wrote.

The set is read a second time when a graph gets its node (`AddNode`, of
`constructDAGForAddress`): from the transaction, not from the list. `dagNodes` has the sets
that graphs have taken of each transaction; a worker builds its graph behind the busy wait for
the merged table (`pipeline_core.go:181`), which is made of the tables of all workers, and
therefore after all have joined (`AllJoined`). Between the two readings, and only there, an
overtaken early execution can still store its set.

### 2.5 StateTableMerge and StateTables

`StateTableMerge`: a worker that runs out of transactions enters the `CompletionMu` section.
`FinishAhead`: the first half are recorded and leave. `FinishPaired`: each of the others
takes its own table and that of a recorded worker; `QueueLone` is the first one's extra step
for an odd number of threads, taken after the lock is released. `MergeAndQueue`,
`MergeAndTake`, `MergeAndCrash` are the outcomes of `mergeStateTables`: the parity of the
counter says whether the merged table is queued or the head of the queue is taken, which
panics when there is none. `Publish` runs outside the lock. `StartConstruct` ends the busy
wait. A table is the set of workers whose tables are in it.

`StateTables`: the contents. `BuildStateTable` makes sorted lists from read-write sets,
`MergeStateTables` merges two tables address by address (`MergeTwoLists`), a table without
operations becomes nil, `Publish` dereferences the last one. Lists of operations are
compared by transaction, reads before writes. What a sort yields is said by counting: the
element at place `n` is the one with `n - 1` smaller ones.

### 2.6 DAGMerge and ConflictGraph

`DAGMerge`: `Claim` is the compare-and-swap that takes two tables and sets the worker's bit;
a worker finding nothing left is either a builder that now takes part in the merge (`Leaf`)
or came too late (`NothingToBuild`). `Build` adds the tables to the worker's graph, and if
they were the last counts the bits and writes the number of operations to come into it.
`Merge` combines two graphs; `Queue` and `Take` are the two ends of the parity rule in
`awakeOrWaitConstructDAG`; `Finalize` publishes. A graph is the set of tables it was built
from, with `totalMerges`.

`ConflictGraph`: `ConstructDAGForAddress` draws the edges of an address: writers against
everybody else. `MergeNode` moves one node of the smaller graph over, in any order, with its
edges, and `EndMerge` follows when all are moved; `Union`, `Root` and `Compress` are the union-find
with ranks and path compression. `PublishComponents` is `GetConnectedComponents`: single
nodes commit at once, the rest is queued.

### 2.7 MWIS

`SolveMWIS` for a component. `Pick` is a round of the greedy solvers, with their ties broken
as in the code (weight, then id); `ExactMWIS` is the branch search with its branching vertex
and its preference between equally heavy answers; `SolveRelaxation` is the rounding and
repair of `mwis_solver.py` for any order the relaxation may yield, and `FailRelaxation` a
failure of the process. Costs are whole numbers, and quotients are compared by
cross-multiplication: rounding of Go's floats is not modelled. Neither is the engine's own
repair of an answer that is no independent set (`mwis.go:303-340`): the script's answers always
are one.

### 2.8 CommitReExecute

`ClaimComponent`, `SolveComponent`, `CountComponent` are the loop of `solveComponentMWIS`;
the worker that counts the last component collects everybody's lists (`CollectCommitted`).
`ClaimAborted`, `ReExecute`, `CountAborted`, `CollectReExecuted` are the same for the second
pass, whose transactions that read or wrote something else now are executed serially and not
committed. `EndBatch` is `tryEntryNextBatch`, which a worker that waited calls twice. A
solver returns any independent set but the whole component, which is all `MWIS` shows about
it that matters here.

### 2.9 Aria

`Send` and `Collect` are the controller's loop over the workers' channels, `PutBack` what it
does with the returned transactions of a column: each goes to the head of its worker's list.
`Reserve` executes a transaction and enters what it reads and writes, `ReserveAndArrive` is
the last thing a worker does before the barrier, which counts arrivals and a generation, and
`Verify` the verdict. The verdict is the code's with reordering: a transaction is returned if
an earlier one of the column writes what it writes, or if it both reads what an earlier one
writes and writes what an earlier one reads.

### 2.10 Harmony

Each worker goes through the five stages of a block; `Arrive` and `Wake` are the barrier in
front of each of them. `Execute` enters the accesses of a transaction and raises `MinOut` and
`MaxIn` of both ends of a dependency, `Verify` finds the dangerous ones and the direct
conflicts, `Commit` applies a transaction's coalesced commands to the keys nobody has handled,
`Fallback` executes one again once the transaction it waits for is committed, and `Clean`
empties the tables. A value is the transaction that wrote it.

### 2.11 OptME

`Simulate` reserves the keys of a transaction, in any order over the pool. `Construct` builds
the address-based conflict graph, `AddressRank` and `HierarchicalSort` with `SortRead` and
`SortWrite` number the transactions, `Retried` collects those that `Reorder` hands on and
`Schedule` spreads them over epochs, each into the first that fits (`Place`); an epoch is a
set, since its tasks run in any order. `ReorderWithACG` is all of that and the commits after
it. `ReExecute` is a task of an epoch. A commit counts the writers of its keys down and frees a
key with the last of them.

### 2.12 MVSchedO

`Schedules` are the results of the greedy makespan scheduler: the first transaction is any,
each next one the best of a sample of those left, for any sample (`BestOfSample`) as long as
`sampleIndexes` makes it, by the makespan that `Simulated` computes. The place in the schedule
is the timestamp. `OpsOf` lists the operations of a transaction with its keys in their order.
`WaitTurn`, `Read` and `Write` are the operations, reads before writes; a hot key has a queue
in which an operation waits for the conflicting ones of smaller timestamps, a write behind a
later read aborts the transaction. `Mark` is the end of a transaction, which waits for the
writers it has read from, and `SerialFallback` executes the aborted ones.

### 2.13 SChain

`Grant` is a turn of the dispatcher's loop: it goes through the transactions that have not
run; each gets the locks of all its keys or gives back those it got (`GrantLock`).
`Signal` is what the dispatcher does with a worker's signal, `Take` and `Finish` are the worker's
receive and send, `Join` its end. A read lock is passed on at once, a write lock at the end of
the round (`Released`). The sequence of a key has the transactions in the order of the block,
so that it is modelled by who is in it and by each one's place.

### 2.14 DependencyScheduler, Pilotfish, QueCC, Thunderbolt

The three engines contain the same scheduler, up to names: in-degrees, ready lists, one mutex
and one condition. `DependencyScheduler` has its steps, with the broadcast of each
completion; the engines add how the plan is made and what executing a transaction does.
A key's queue in `Pilotfish` is built transaction by transaction (`QueueOf`). A queue in `QueCC`
has the transactions of a planner's piece of the block that use a range, in the order of the
block, so that it is modelled by who is in it; `FollowsIn` are the neighbours in it and
`FollowsBetween` the last of one planner and the first of the next one that has any. In
`Thunderbolt`, `KeyStates` keeps for each key the last writer and the readers since, and
`Awaits` is what a transaction that uses the key then comes to depend on.
`QueCC` goes on with the commit: `Visit` is one turn of its passes over the block, which
commits a transaction when all it read from are committed. `Thunderbolt` begins with `Play`
and `Plan`; `Validate` compares, and a difference stops everybody.

## 3. The runs

TLC checks twelve configurations. Every property of a passing run has a variant of the code's
definitions that breaks it.

| Run | Instance | What it asks |
|---|---|---|
| `merge` | 5 workers, a next batch, early execution on | Pairing, the lone table and the parity merge: nothing is lost, doubled or published incomplete, the stage implements `GatherAll`, every worker gets out of the busy wait, unless the process panics. Five is the smallest odd number with two pairing workers and a lone table. |
| `merge_five` ✗ | the same | `NoEmptyTake` fails: see findings. |
| `dag_merge` | 4 workers, 7 tables | The count computed by the worker with the last tables is the final one, the stage implements `GatherAll` and ends for everybody. Seven tables are four claims, the last a single table, so from one to four graphs are built, and workers come too late. |
| `commit` | 3 workers, two pairs, one single | Any outcome of the solver and of the second execution: every transaction decided once, the result frozen, the collection implements `GatherAll`, everybody leaves. Three workers and two components let one worker solve two, one solve none, and one come when all is over. |
| `pipeline` | 3 workers, blocks of 0, 1 and 2 batches | Stale reads across batch and block borders. Two batches are needed for "the next batch", two blocks with batches for the replacement of the slice, three workers for one ahead, one merging and one late. |
| `pipeline_shrink` ✗ | 2 workers, blocks of 2 and 1 batches | `IndexInRange` fails: see findings. |
| `batch_stages` | *generation*: blocks of up to 10 transactions, thresholds 3 and 5; *speculation*: 2 workers ahead, 1 staying, a long and a short transaction, one in conflict; *merge*: 4 workers, early execution off; *tables*: 3 transactions, 2 addresses, 3 workers, 124 combinations; *graph*: 5 transactions, 3 addresses, 3 workers; *solvers*: all graphs on 4 nodes, costs 1, 2, 4 | The stages that make a batch out of a block, and its tables, graph and decisions. Ten transactions leave room for two batches of either kind and a short one; two workers ahead let one be overtaken while the other joins; the tables contain each kind of conflict, readers without one, a transaction that does both, and chains through several addresses. |
| `epoch_engines` | Aria: 3 workers, 5 transactions; Harmony: 2 workers, blocks of 3 and 1; OptME: blocks of 3 and 2 | Every combination of reads and writes of two keys. With five transactions the first two workers of Aria have one behind another, so that a returned one can be overtaken; the second block of Harmony and OptME finds the tables of the first. |
| `harmony_fallback` ✗ | 3 workers, 4 transactions that write | `FallbackInOrder` fails. |
| `optme_commits` ✗ | blocks of 3 and 2 | `EveryTxCommitted` fails. |
| `optme_order` ✗ | 3 transactions | `ReadsBeforeWrites` fails. |
| `ordered_engines` | MVSchedO: 2 workers, 3 transactions; SChain, Pilotfish, QueCC: 3 workers, 4 transactions; Thunderbolt: 2 validators, 3 transactions | Every combination of five kinds of transaction on two keys, QueCC also with a planner that skips a range and Thunderbolt with a transaction that changes. The last three engines implement `ConflictOrder`; each engine ends. |

Which property is about what:

| Property | In words |
|---|---|
| `NoTableLost`, `NoTableTwice`, `PublishedComplete` | each worker's table is in exactly one place, and the published one contains all |
| `TotalMergesExact` | the number of operations fixed when the last table is claimed is what the builders will perform |
| `EveryTxDecided`, `ResultFrozen` | a collected result decides every transaction, consistently with the lists, nobody is still working on it, and it does not change after the end of the batch |
| `WorkIsCurrent` | a worker in a stage works on the current batch of the current block, however stale its reads |
| `CallerAlone` | while the caller replaces the slices and numbers the block, every batch there is has ended and its completion has been received |
| `EndsWithAll` | a batch ends only after every worker has executed its share of it and none is in a stage of it |
| `BatchesExact` | batches are consecutive pieces of the block and as long as the thresholds allow |
| `ListsSettled` | a transaction is listed once, with a set that suits it, however its executions overlap |
| `SetsSettle` | a listed set is replaced at most once, by an overtaken early execution, and never once a graph has taken it: all graphs take the same |
| `ListsExact`, `GraphExact` | tables and graphs do not depend on the order of building and merging |
| `Independent`, `Optimal` | what is committed does not conflict; the exact solver finds the heaviest |
| `Aria...` | a column is serializable, a worker's list keeps its order, verdicts use the whole column |
| `Harmony...` | what commits without a second execution is free of conflicts, all writes are applied, nothing is left over from the block before |
| `OptME...` | the counters of writers are exact, an epoch has no conflicts |
| `MVTimestampOrder` | reads find the version of their place in the schedule and nothing aborts |
| `SChain...` | locks are granted in sequence order, given back completely, and cover all earlier writers |
| `QueCCUndoExact` | what a write replaced is what the transaction before it in the block wrote |

`CHECK_DEADLOCK FALSE` is in the `merge` runs, where the process may panic and then stops, and
in the runs of the baselines, which execute their blocks and end. There `EpochEnginesFinish` and
`OrderedEnginesFinish` say that the only end is the regular one: an engine stuck at a barrier,
a condition or a channel would violate them. OptME has no threads that wait for each other and
is left out of the first. `TypeOK` is stated in the modules of the
engine; it is a theorem of four of them, a part of the invariant of `MWIS`, and documents the
variables in the others.

**Bounds.** Nothing is capped but by the instance: all counters stop when the work is used
up. The only unbounded ones, `componentsIndex` and the transaction counters, grow by at most
one more per worker.

**Fairness.** `FairSpec` assumes weak fairness of each worker's next step, and of the caller
in `Pipeline`. A worker is a goroutine locked to an OS thread that never blocks except for
short mutex sections: it computes, or it spins. A thread that keeps being scheduled takes
any step that stays enabled. No fairness is assumed between alternatives of one worker,
nor of a particular action, with one reading to note: in `pipeline`, which alternative a
worker has is decided by its program counter and what it reads. The baselines have
weak fairness of each goroutine: workers, controller, dispatcher, barrier and condition
variable included, since a sleeper that has been woken and stays so gets the mutex.

**What the models take from the machine.** Loads and stores take effect one at a time and in
program order. For the atomics Go guarantees it; for the plain fields (`IsRuned`, `rwSet`,
`done`, `batchStates`) it is what x86 does with the stores of one thread, and the read of a
slice header is one step. A weaker memory is not modelled. The workload gives every
transaction of a batch at least one access. There are at least two threads, where a module says so, and
fewer than 32, the width of the bitmap. In the baselines a step that holds a lock throughout,
and one that touches what nobody reads before the next barrier, is one action; each module
says at its head which steps these are and why.

## 4. What is proved

Every safety property that a passing run checks is proved with TLAPS: the four protocols of the
engine, the speculative execution, the generation of batches, the contents of tables and graphs,
the solvers, and of the baselines all but their ends. It is proved for every number of workers and
every workload: any number of tables, any components, any queues and conflicts, any blocks of any
number of transactions or batches. The only assumptions are the modules' own: `WorkersAssumption`
(finite; in `Pipeline` more than one), `SwitchAssumption` (two Booleans), `NumTablesAssumption`
(at least one table), `ComponentsAssumption` (components are disjoint, of two transactions or
more, and do not contain single ones), `BatchCountsAssumption` (numbers of batches) and, in
`Speculation`, `QueuesAssumption` (no transaction is queued twice) and another `WorkersAssumption`
(some worker stays behind; it is needed only for what holds when all have joined); in
`BatchGeneration`, cores, factors and the longest block (numbers, at least one core). Of the
contents of a batch (`TxsAssumption`, `WorkloadsAssumption` of `StateTables` and `ConflictGraph`,
`CostsAssumption`): the transactions are finitely many and numbered, some transaction has an
access, costs are positive numbers; in `ConflictGraph` also that the value for "no graph" is not a
worker. Of the baselines: the number of threads is positive (in `SChain` at least two, a
dispatcher and a worker), and blocks are sequences of transactions with finite sets of keys,
numbered where the code orders or hashes the addresses (`AriaBlocksAssumption`,
`HarmonyBlocksAssumption`, `OptMEBlocksAssumption`, `SChainBlocksAssumption`,
`MVWorkloadsAssumption`, `WorkloadsAssumption` of the three schedulers). TLC evaluates them all on
the runs' instances.

| Theorem | Module | States |
|---|---|---|
| `TypeCorrect` | the four protocols | the types, in particular that the head of `dagQueue` is only read when there is one |
| `QueueShapeCorrect` | table merge, graph | the length of the queue is a function of the counter, and at most one |
| `NoEmptyTakeCorrect` | table merge | with an even number of threads, or fewer than five, no worker takes from an empty queue |
| `TotalMergesExactCorrect` | graph | the number of operations computed half-way is the final one |
| `NoTableLostCorrect`, `NoTableTwiceCorrect` | table merge, graph | every table is in exactly one place |
| `PublishedCompleteCorrect`, `FinalDagCompleteCorrect` | table merge, graph | what is published is made of all tables |
| `EveryTxDecidedCorrect` | commit | every transaction is decided, once, whatever the solver and the second execution yield |
| `ResultFrozenCorrect` | commit | the result does not change after the end of the batch |
| `WorkIsCurrentCorrect` | pipeline | whoever is in a stage works on the current batch of the published block |
| `CallerAloneCorrect` | pipeline | all batches have ended while the caller fills the slices |
| `EndsWithAllCorrect` | pipeline | a batch ends after every worker has taken part and all have left its stages |
| `Refinement` | the four protocols | the stages implement `GatherAll`, the pipeline `BatchOrder` |
| `EveryTransactionOnce` | speculation | every transaction is listed once, and with a set, however its two executions overlap |
| `MarkHasSet` | speculation | whoever sees the mark of a transaction finds its set |
| `ConflictsAreRepeated` | speculation | what reads a key the batch before wrote is listed only behind a formal execution |
| `SetsSettleCorrect` | speculation | a listed set is replaced only by an overtaken early execution, and not once a graph has taken it |
| `ListsSettledCorrect`, `SetsSettleCorrect` | stages | the same of the execution among the other stages, as the run checks it |
| `BatchesExactCorrect` | stages | batches are consecutive pieces of the block and as long as the thresholds allow |
| `ListsExactCorrect` | stages | every table has the operations of its transactions, once and in order, and the published one those of all |
| `GraphExactCorrect` | stages | a graph has the conflicts of its addresses, what is published are the connected components |
| `IndependentCorrect` | stages | what a solver commits has no conflict and, unless the relaxation fails, nothing can be added to it |
| `OptimalCorrect` | stages | the exact solver finds the heaviest set, the greedy one its share |
| `AriaSerializableCorrect` | epochs | what a column commits can be put into an order |
| `AriaThreadOrderCorrect` | epochs | a worker's transactions commit in the order of the block, one in a column |
| `AriaSeesColumnCorrect` | epochs | verdicts are passed on a table that has the whole column |
| `HarmonyCommitsApartCorrect` | epochs | of two conflicting transactions of a block one is executed again |
| `HarmonyAppliesAllCorrect` | epochs | the fallback begins when every other write is in place |
| `HarmonyNoLeftoversCorrect` | epochs | a block finds nothing of an earlier one in the tables |
| `OptMECountsWritersCorrect` | epochs | a key's counter is the number of its writers that are not committed |
| `OptMEEpochsApartCorrect` | epochs | the tasks of an epoch do not conflict |
| `SChainAfterWritersCorrect` | orders | a transaction is handed out only after every earlier writer of its keys has run |
| `SChainLocksExactCorrect` | orders | the locks granted are those of the transactions handed out |
| `MVTimestampOrderCorrect` | orders | reads find the version of their place in the schedule and nothing aborts |
| `ImplementsConflictOrderCorrect` | orders | Pilotfish, QueCC and Thunderbolt implement `ConflictOrder` |
| `QueCCUndoExactCorrect` | orders | what a write replaced is what the transaction before it in the block wrote |

("stages", "epochs" and "orders" are `BatchStages`, `EpochEngines` and `OrderedEngines`.) The
theorems named `...Invariance` are the inductive invariants.

**The argument.** None of these is inductive as it stands: that the worker which ends a
stage finds the complete result depends on how much is still under way. The proofs count.

In the table merge a merging worker holds two tables, and a queued one is one; each merge
makes one out of two. `MergeInv` relates the merges counted, the workers merging, the tables
queued and the pairs handed out, and `CountInv` the workers finished and those recorded or
paired. `LastInv` says who may publish. From these, when the counter reaches
`numThreads - 1` nobody executes or merges and one table is queued (`LastFacts`), and
`NoTableLost` says it holds everything. An empty queue at a take needs the lone worker to be
behind while another pair is merged: that takes two pairs, hence five threads
(`NothingToTake`).

In the graph construction every worker that ever claims brings one graph, which costs two
operations, one to be queued and one to be merged away:

    completedMergeCount + 2 * Cardinality(Active) + Len(dagQueue)
        = 2 * Cardinality(constructThreads)

Nobody joins once all tables are claimed, so the number taken from the bitmap then,
`2 * Cardinality(constructThreads) - 1`, is final (`TotalsInv`), and it is reached exactly
when nobody is active and one graph is queued. It is odd, as the parity rule needs.

In the commit stages a component is claimed, held by a worker that solves it, or counted,
with its answer in the lists of the worker that solved it. `completeComponentsNumber` and the
components held add up to those claimed, so that the worker whose count is the last one finds
every component counted and nobody at work; the lists then hold each component's answer once,
and what it collects decides every transaction. The same argument, over the abort sets that the
first pass left, gives the second pass; and a worker that is late in either finds the index
past the end, which is why it can no longer change a result.

In the pipeline the heart is that at most one batch is under way, and that what the caller has
received tells which: while it waits for a block,

    received + completeChan + Cardinality(Completing) = currentBatchID

where `Completing` are the workers that have moved the batch id on and have not sent their
completion yet. A worker's stale reads are then harmless: `HeadOf` says that what a worker at
the head of its loop holds is at most what has been reached, and that a batch it has been in is
behind what it looks for. If the batch it picked is past, `finished` of it is set and it passes
by. The second look at the block id (`RecheckBlockID`) is what excludes that the slice belongs
to another block than the id. `IInv` is the conjunction of `TypeOK`, the caller's place in its
protocol (`CallerInv`), what the entries of the slice are at that place (`EntryInv`), the count
above (`CountInv`), the stages (`BatchInv`, `StageInv`), and for each worker what its place in
a stage or at the head of its loop implies (`InsideOf`, `HeadOf`).

In the speculative execution the argument is ownership. The formal counters give a transaction
to one worker, and `OwnerInv` says that every claimed transaction is held by exactly one worker
or listed in exactly one place; what an early worker does to the transaction meanwhile takes no
part in it. `SetInv` then explains a mark without a set: only the one worker that holds the
transaction and is executing it can have made it (`Start` marks before it stores, `Mark` after),
so that no other formal worker comes to look at it, and no step takes a set away. `ConflictInv`
follows a conflicting transaction from `Decide` to its place in the list, and `JoinInv` says that
a worker has gone through both queues before it joins. `GraphInv` says that early workers store
early sets and that no graph has a node before all have joined, when nobody executes any more;
`StepSettles` concludes that whoever replaces a listed set is an early worker (a formal one holds
its transaction, which is then not listed), that the set it replaces is a formal one (its own
differs), and that no graph has it. `ConflictInv` needs `JoinInv`, because an execution counts as
formal if the batch before was finished when it began. `BatchStagesProofs` carries the invariant
over to the module that the run checks.

In SChain the lock index of a key equals the number of its users that have been scheduled, and
these are the first ones of its sequence. A transaction that is next has as many users before
it as have been scheduled, hence exactly those (`NextInSequence`, by comparing finite sets). That
an earlier writer has not only been scheduled but has run rests on two more facts: who writes a
key in the current round holds its lock and is the last one scheduled there (`WriteInv`), and the
signals counted, the signals sent, the transactions in the channel and the busy workers add up to
the transactions of the round (`CountInv`), so that when the dispatcher stops counting none of
the round is under way.

In batch generation `CurrentInv` says that the batch being filled holds the transactions since the
last cut, each kind in its list, and that the two counters are its lengths; `CompleteInv` says the
same of those that have been cut off, and that each reached a threshold with its last
transaction and not before.

The state tables, graphs and solvers are about data. The table stage compares operations by
`Key`, twice the transaction and one more for a write, so that a list is sorted if its keys grow
(`SortedList`), and two sorted lists with different operations merge into the sorted list of both
(`MergeSorts`, by descent along the lengths). `TableOf` says that a table is that of a set of
transactions, and `TablesIInv` that each worker's table is that of what it has gathered and that
every transaction is in one table or with the worker that listed it. Hence the last table is that
of all, it is not nil as somebody touches an address, and as its lists are sorted the entries of
one transaction are neighbours, which is why grouping sees each transaction once (`GroupsExact`).

In the conflict graph the forest is described by the root of each node, `Tree`: ranks grow
along the parents, so that a root exists and is unique, and compression changes none. A graph at
rest is `Good`: its edges are the conflicts of its addresses (`Exact`), the ends of an edge are
in one tree (`Joined`), and where no edge leads out of a set, no tree does (`Tight`). Joined and
tight trees are the connected components, whatever the order in which they were joined. In a merge
`Merging` says what the larger graph still lacks: the nodes to be visited and the edges of the
smaller graph to be joined. It is tight at any time, and when nothing is left to visit it is
good. `GraphState` adds that every address is in one graph or still to be taken.

In the solvers `SolveIInv` says of any moment that what is chosen is independent, that what
remains has no neighbour in it, and that what was set aside has one: so what is chosen is maximal
when nothing remains. For the greedy solver it also says that what has left the remainder has at
most the weight it was promised for (`ShareOf`): a pick has the greatest quotient of weight and
remaining degree, and pays for itself and the neighbours it takes along. For the exact search,
`Best` of a set of nodes is shown by induction on subsets: with or without the branching vertex,
both branches are best for fewer nodes, whichever vertex the search takes and whichever of two
equally heavy answers it prefers.

In Aria everything turns on the barrier. `RoundInv` says where the workers can be while the
controller sends, waits and collects: until the barrier opens nobody judges, and from then on
nobody reserves. So a worker that judges finds in every entry the smallest transaction of the
column that uses the key (`TableInv`). `SerialInv` keeps the verdicts after the table has been
reused: what was committed in a column passes the same verdict among the transactions committed
in it alone. `ListInv` says that a list has in order what is still to be done, a transaction
under way included, which is why what is put back belongs at the head.

In Harmony `StageInv` says that the workers are in one stage of one block or wait for it, so that
one can speak of the transactions the stage has seen to. `DataInv` is what the tables hold, as a
function of the block, the stage and those transactions: what is entered (`EnteredInv`), which
of two conflicting ones is marked (`MarkedInv`), what is committed and what is applied. The same
formula at the end of a stage, when it has seen to all, is that of the beginning of the next one.

In OptME `CountInv` has two cases besides a free key. A key that the current block holds counts
that block's writers, and nothing is piled up behind it; a key that an earlier block still holds,
because some of its writers were given up, counts those, and they are never committed. Retried
transactions read nothing, so that one that finds no key of its own written in an epoch
is not in the way of those in it either (`Apart`).

For the three schedulers by dependencies the plan and the execution are separate. Of the plan
it is shown that of two transactions that conflict the edges lead from the earlier to the later
one, perhaps through others (`Chained`): `Pilotfish` by what its queues look like after each
transaction (`QueueInv`), `QueCC` by descent along the neighbours in a range's queues and the
planners' pieces (`Chunks`, `Neighbours`), `Thunderbolt` by the last writer and the readers
since (`KeyStateInv`). Of the execution, that an in-degree is the number of edges from what is
not yet completed (`GraphInv`) and that only a transaction without such edges is ready, runs or
is completed (`ReadyInv`, `RunningInv`, `CompletedInv`): what a running transaction depends on,
at however many edges, is completed. Together that is each step of `ConflictOrder`. In `QueCC`
the users of a key are therefore executed in the order of the block as far as its writers go,
and what is noted as its last writer (`LastWriterInv`) makes the undo entries exact; in
`Thunderbolt` the order of the pre-play has every transaction once (`PlayInv`).

In MVSchedO a worker's transactions are those of its remainder, so that a place in the queues has
one owner (`Mine`). `DoneInv` says that an operation marked done is behind its worker and that its
version is in the table, and `VersionInv` that a version comes from a write its worker has come
to. A read that has waited for its turn finds every earlier writer's version and no other,
and on a key that is not hot there is no other writer (`HotInv`). `MaxReadInv` says that the
latest read of a key has found all earlier writes done, which is why no write comes too late.

Each invariant step is proved per action; the table theorems rest on a second invariant,
`TableInv`, that uses the first.

**Only model-checked**: liveness, since TLAPS does not reason about fairness: that everybody gets
through each stage (`AllReachConstruct`, `AllReachValidation`, `AllLeave`), that the caller gets
its blocks (`AllBlocksDone`), and that `BatchStages`, `EpochEngines` and `OrderedEngines` come to
their regular ends (`...Finish`).

**Recursive definitions.** Queues, epochs, key states, merged lists, the roots of a forest, the
branch search and every fold are functions defined by recursion, for which no induction theorem
can be used. The proofs take the natural numbers with the least counterexample instead, and first
show that the function exists (`StepByStep` for numbers and lists, `SubsetRecursion` for sets
of nodes, `FoldExists` for folds). Sums over sets come from a fold that chooses its next element;
that the choice does not matter is part of what is proved of them.

## 5. Findings

Five runs are expected to fail.

* **`merge_five`**: the comment on `waitFlag` in the design document
  (`januscore/代码设计.md:516`) says the lone node "is always taken and merged in the end".
  With an odd number of five or more threads, the first pairing worker queues the lone table
  only after it has left `CompletionMu` (`pipeline_core.go:547-552`). The second one can
  finish its merge before, gets count 1, does not wait, and reads `stateTablesQueue[0]` of
  an empty slice (`pipeline_validator.go:234`). `NoEmptyTakeCorrect` shows this is the only
  way: even numbers and three threads are safe.
* **`pipeline_shrink`**: `pipeline_core.go:149` says that a worker whose reads are from
  different snapshots enters no phase. `tryEntryNextBatch` sets `finished` before it moves
  the batch id on (`types.go:532-534`); a worker back at the head of its loop can read the
  last id of a block, pass the length check at `pipeline_core.go:125`, be delayed while the
  caller submits a block with fewer batches, and index the new slice at
  `pipeline_core.go:143`, which panics before the check the comment is about.
* **`harmony_fallback`**: `baselines/harmony/new_harmony/Harmony.go:642` says that the
  fallback already executes serially in the order of the dependencies. It waits for one
  transaction only, the latest earlier one it finds in the lock table for any of its keys
  (`Harmony.go:685-724`). Of two earlier ones that it conflicts with and that do not
  conflict with each other, the other one may still be executed after it.
* **`optme_commits`**: `baselines/optme/optme/run.go:49` warns when the committed
  transactions are not all of the workload. `Reorder` hands on only those aborted
  transactions that read nothing and write several keys (`Utils.go:581-656`); the other
  aborted ones are in no epoch and are never committed.
* **`optme_order`**: `baselines/optme/optme/Utils.go:19` says that in the graph reads come
  before writes. `WriteUnits.sort` gives the updater of a key a new number after those of
  its other keys are settled (`Utils.go:129-194`), so that on a key sorted before, a reader
  can end up with a number that is not below a writer's, and both are committed.

Differences met while modelling that no run is about:

* With one thread nobody pairs, nothing publishes the state table, and the caller waits for
  ever (`pipeline_core.go:183` spins, `pipeline_core.go:537` gives no pair). `Pipeline`
  assumes more than one worker.
* An overtaken early execution may replace the set of a transaction (`pipeline_core.go:607`)
  after its formal one and before it is listed, so that the listed set need not be the one
  of the execution just ended, which the comment at `pipeline_core.go:468` takes for granted.
  `ConflictsRunAgain` says what does hold.
* It may also do so after the listing. The tables have the operations of the listed set, the
  graph gets the transaction's set of that moment (`pipeline_validator.go:388`), and the two may
  be of different executions. `SetsSettle` says what does hold.
* The degree of a node counts an edge once more when it is merged from a graph that has it
  too (`types.go:407`, `pipeline_validator.go:450`). Nothing reads the degree.
* The comment at `pipeline_validator.go:399` speaks of a directed edge from a writer to a
  later reader or writer; the code (`pipeline_validator.go:296`) and its comment at `:285`
  draw an undirected one whichever of the two writes. `ConflictGraph` follows the code.
* `januscore/README.md:17` puts a watermark at the (cores x alpha x i)-th long transaction;
  `batch.go:57` truncates cores x alpha first and starts counting anew in each batch, and a
  batch may end by its size.

## 6. Plan

Done: the engine's protocols, data and order; the eight baselines and what they promise; the
proofs of every safety property that a passing run checks. What would come next, in this order:
the thread pool and the state cache, and the differences of the ablation variants.

## 7. Not modelled

| Part | Why |
|---|---|
| Five ablation variants `januscore/janus_*` | Copies of an earlier engine. They lack the second look at the block id in the worker loop and share the write-set map between tables; each replaces one stage by a simpler one (a sequential scan, a graph built by one worker, block order). All else would be the engine's modules said again. |
| `baselines/aria/backup`, `baselines/harmony/harmony` | Superseded; nothing calls the first, and the comments of `new_harmony` name the faults of the second. |
| `InterBlockExecute` of Harmony | `run.go` does not switch it on. |
| OptME's parallel construction of the graph, its path without the graph, `optme_paper` | `run.go` takes neither; all of `optme_paper` is commented out. |
| QueCC's durability log | Written before and after the execution; nothing reads it, so that there is no recovery. |
| `SChain` beside `SChainParallelUp` | An earlier form of the same rounds, which nothing calls. |
| The Python process of the relaxation | Its answer is any point, or a failure. |
| Serial baseline | A loop without state. |
| Shared baseline library | The models take a locked table access as one step and the pool as a set of tasks, each run once. |
| Persister and state cache | Used by the earlier scheduler only. |
| Earlier scheduler, mempool, `backup/`, `core/process.go` | The measurement program before Janus; its workers share nothing but closed channels. |
| EVM wrapper, vendored go-ethereum | The models see an execution only through the read and write sets it returns. About seven tenths of the repository's lines are go-ethereum's. |
| Workload tools, configuration, runners, experiments, monitor | Sequential input and output. |

## 8. Running it

    tlc -config DAGMerge.cfg MCDAGMerge
    tlapm DAGMergeProofs.tla

Each `X.cfg` belongs to an `MC` module; `PROJECT.json` says which. The largest runs, `commit`,
`pipeline`, `batch_stages` and `epoch_engines`, take about two minutes with two TLC workers, all
others seconds to a minute. Of the proofs, `BatchStagesProofs` takes about twenty minutes,
`OrderedEnginesProofs` and `EpochEnginesProofs` about a quarter of an hour each, the others up to
a few minutes.
