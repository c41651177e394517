# lock-db in TLA+

Specifications of `lock-db` (a lock manager with multi-granularity locks, range
locks and wait-for deadlock detection), the TLC configurations that check them and
proofs of their central theorems. Paths below are relative to the repository root;
`PROJECT.json` ("map") names the exact lines every definition stands for.

## 1. Inventory

| Part | State | Operations | What makes it hard | Module |
|---|---|---|---|---|
| Lock modes, `src/mode.rs` | none (two const tables) | `compatible_with`, `join`, `covers`, `is_exclusive`, `is_intention` | the matrix decides every grant; `join` and `covers` must agree with it | `LockMode` |
| Key ranges, `src/range.rs` | none | `new`, `point`, `contains`, `overlaps` | bounds are inclusive | `KeyRange` |
| Sharded lock table, `src/manager.rs` | per shard: `locks`, `by_txn`, `ranges`, `range_by_txn`, under one mutex | `try_acquire`, `release`, `try_acquire_range`, `release_range`, `release_all`, queries | `release_all` takes the shards one at a time while everything else goes on; table and reverse index must agree; upgrades in place; repeated ranges; empty vectors | `LockTable` |
| Wait registry and detection, `src/manager.rs` | `waits`, under one mutex that is the outer one | `request`, `find_deadlock`, `cancel_wait`, `release_all`'s first section | the graph is read shard by shard while other threads change the shards; stale waits; the victim is somebody else; an abort is seen half done | `LockManager`, `LockClients` |
| Wait-for graph, `src/deadlock.rs` | `edges`; a search's `state`, `path`, `stack` | `add_wait(s)`, `clear_waiter`, `remove_txn`, `cycle_from`, `detect_cycle`, `pick_victim` | an iterative search with two parallel stacks and an explicit neighbour index | `WaitForGraph`, `Cycles` |
| Shard routing, `src/manager.rs` | `shards.len()`, `bits` | `new`, `with_shards`, `shard_index` | overflow, the shift at 0 bits | `ShardRouting` |
| Workers, `tests/stress.rs`, `examples/deadlock.rs`, `docs/API.md` (`acquire_or_abort`) | each its attempt: what it locks in which order, what it was granted | request until granted, abort on `Deadlock`, give up, `release_all` | who is told, whom it aborts, what the others notice; progress | `DeadlockStorm` |
| Hierarchical, range and two-phase locking, `src/lib.rs`, `examples/hierarchy.rs`, `range_locks.rs`, `two_phase_locking.rs` | the data the locks protect | how callers lock levels, spans of keys and sets of rows | levels are independent resources to the table; phantoms; early unlocks | `Hierarchy` |
| Identifiers, errors, other tests and examples, benchmarks | - | - | - | not modelled, see 7 |

Interaction: `request` holds the registry's mutex throughout and takes shard mutexes,
one at a time, below it: once for the grant attempt and once for each registered
waiter while it builds the graph. `release_all` takes the registry's mutex, gives it
back, and then takes every shard in turn. The other operations take the mutex of one
shard once. There are no callbacks, timers, threads or files: the transaction layer
suspends, retries and aborts.

What makes each part correct is stated as the properties in 4; `PROJECT.json`
("hazards") lists, at their lines, the places where the code could go wrong in a way
that its tests would hardly show.

## 2. Modules

Data structures and pure functions:

* `Collections`: `HashMap` (a function whose domain is the keys present) and `Vec` (a
  sequence) as far as the table uses them; external to the repository.
* `LockMode`: modes are strings, the two const tables records of records.
  `ReadsAll`, `WritesPart` and `WritesAll` are the meaning documented at the enum's
  variants: what the tables are judged by.
* `KeyRange`: the keys are any set of naturals; no operation computes with a key.
* `Cycles`: the contract of the searches: a simple cycle reachable from the start, and
  `None` only if there is none.

State machines:

* `LockTable`: the four maps of every shard and, for each thread, the local state of
  its `release_all`. An operation that is one critical section is one action (taking
  the mutex is its guard `ShardFree`). `release_all` is a program: lock the shard and
  take the two index vectors, one step per iteration of the point loop, one per
  iteration of the range loop, unlock and go on. The source takes the second vector
  after the first loop, in the same critical section: nobody can look in between, and
  taking them together is the only rearrangement. The shard stays closed while the
  thread is inside. Clients are arbitrary: any call, any time, also for a transaction
  that another thread is releasing.
* `AbstractLocks`: the promise, without shards, vectors, indexes or sweeps: one mode
  per transaction and resource, strengthened by `join`; a bag of range locks; one step
  changes one lock of one transaction. `LockTable` implements it (`ImplementsAbstract`).
* `LockManager`: `LockTable` with `waits` and with `det`, the state of the call that
  holds the registry's mutex. `request` is split into grant attempt (and registration),
  one step per waiter of `build_wait_graph` (in any order, as the `HashMap` iterates),
  the search and the return; `find_deadlock` shares all but the first. The call begins
  with its first access to shared data; only taking a mutex is never a step of its own.
* `LockClients`: transactions around it: running, inside `request`, suspended. They
  follow the documentation: after `Waiting` or `Deadlock` a transaction is suspended
  until its retry of the same request is granted, it calls `cancel_wait`, or somebody
  calls `release_all` for it, itself or another that was told of the deadlock. Nothing in
  the code stops a transaction from calling on while `release_all` takes its locks away,
  and the documented workers do retry then: so it is running, and may call anything, from
  the moment its wait is cleared. Those in `Pollers` may also retry with `try_acquire`; one
  that succeeds that way goes on as a `stray`, its wait left in the registry. `begun` is a
  history variable: who waited for whom, and who was being released, when the detection in
  progress took the registry.
* `DeadlockStorm`: the workers of the stress test around `LockManager`, one thread and one
  transaction each. A worker requests the resources of a plan one by one, asks again as
  long as it is told `Waiting`, and calls `release_all` when it has them, when it is told
  `Deadlock`, or when its spin budget is used up. `Abort` says whom it aborts: itself, as
  `tests/stress.rs` does, or the victim named by a policy, as `examples/deadlock.rs` and
  `docs/API.md` do; then it goes on requesting unless that was itself.
* `WaitForGraph`: the adjacency map, and `cycle_from` and `detect_cycle` with one step
  per turn of the loop.
* `ShardRouting`: the constructors and the hash in words of `W` bits. `LockTable` takes
  the shard of a resource as a constant function instead: it needs only that it is one.
* `Hierarchy`: `LockTable` used the documented way, with the data it is used for. Nodes are
  locked under intention locks on every coarser one and unlocked fine to coarse; key
  spaces are locked by range; after its first unlock a transaction locks nothing any more.
  `Read` and `Write` may touch an item (a row, or a key whether present or not) whenever
  the transaction holds a lock that covers it; `precedes` records who accessed an item
  before whom, in conflict. The protocol is in the callers: the actions are what the
  documentation and the examples tell them to do, the locking underneath is `LockTable`.

`MCLockTable`, `MCLockClients`, `MCDeadlockStorm` and `MCHierarchy` hold the constants of
the runs. A
definition called `x_something` directly before `x` with the comment "Mutant" is a
faulty variant of `x`: putting it in the place of `x` must break the property that
`PROJECT.json` ("mutants") pairs it with.

## 3. Choices that matter

* A `Vec` of holders is kept as a sequence, order included: `swap_remove` by position
  and `position` for the first match are part of what could be wrong.
* `try_grant_locked` creates the entry before it decides, also when it refuses; the
  model does so too, so that `NoResidue` is about the code's argument ("an empty one
  would have been granted"), not about the model's shape.
* `pick_victim` compares ids, so the instances with detection use integers and no
  symmetry. The others use model values and symmetry over transactions.
* A poisoned mutex is recovered by the source and never left by a panic: no critical
  section panics, so poisoning is not modelled.

## 4. Runs

| Run | Checks | Instance |
|---|---|---|
| `modes` | `TypeOK`, `HoldersCompatible`, `NoResidue`, `RefusedIffBlocked`, `SweptClean` | 3 transactions, five modes, resources in two shards, one `release_all` at a time |
| `indexes` | `RangeKeysCompatible`, `IndexExact`, `RangeIndexExact`, `SweptClean`, `ImplementsAbstract` | 2 transactions, two threads in `release_all`, one resource in S and IX (whose join is neither) and up to two range locks each on [0,1] and [1,2], all in one shard |
| `detection` | `ClientTypeOK`, `OthersGenuine`, `OnlyReleaseUndoes`, `SilenceJustified`, `EveryDeadlockTold`, `RegistryExact` | 3 transactions, two readers, one of which upgrades, and a writer, whose wants close cycles of two and three, 2 resources in two shards, anybody released at any time, one of the transactions may poll |
| `polling` | `ReportsGenuine` is violated | 2 transactions, 2 resources, both may poll |
| `storm` | `StormTypeOK`, `GrantHeld`, `NothingLingers`, `DeadlockDissolved`, `CallsReturn`, `AttemptsEnd` | 3 workers, each aborting itself, with lock orders that close cycles of two and three |
| `victims` | `CommitsHoldAll` is violated | 2 workers, each aborting the youngest of the cycle |
| `aborting` | `ReportsStand` is violated | the same 2 workers |
| `rows` | `HierarchyTypeOK`, `IndexExact`, `ItemsIsolated`, `Serializable` | 2 transactions, a table, a page and a row, five modes |
| `phantoms` | `ItemsIsolated`, `Serializable` | 2 transactions, a scan of two keys, an insertion of one of them, a row |
| `graph` | `GraphTypeOK`, `SearchCorrect`, `NoSelfDeadlock`, `PathExact`, `ExploredClosed`, `SearchEnds` | every graph of 3 transactions with up to 3 edges each, repeated ones included |
| `count` | `WaiterCountExact` is violated | the same, 2 edges each |
| `routing` | `RoutingTypeOK`, `IndexInBounds`, `ShardsBalanced` | 6-bit words, every shard count, every id, overflow checked |

Only `rows` and `phantoms` are allowed to stop: their transactions run once.

### Fairness

Safety properties and the refinement are checked without any. Liveness is checked in
two runs:

* `graph`: weak fairness of the steps of a search: the loop neither blocks nor waits.
* `storm`: strong fairness of each worker's `Step`. A worker's next step may be disabled
  for a moment, again and again, because another thread holds the mutex it needs; strong
  fairness says that its thread is scheduled and that a mutex it keeps asking for is
  given to it in the end. Giving up (the spin budget) is not fair: nothing relies on it.
  This is enough for `DeadlockDissolved` and `CallsReturn`.
* `AttemptsEnd` needs more, which the code does not provide and the property therefore has
  as its hypothesis, `RetriesMeetReleases`: a lock is not queued for, so a worker that
  retries may always come when somebody else has just taken the lock. In the test the
  spin budget ends such an attempt.

`tests/stress.rs` says that with detect-and-abort every transaction must eventually
commit. No fairness of the scheduler alone gives that: two workers whose attempts are in
opposite order can both be told of the deadlock and both abort themselves, in the same
way every time. The test's random orders and its cap of 200000 attempts make it a
statement about probability, and none of the runs is about it.

What the properties say, beyond their comments in the modules:

* Grants. `HoldersCompatible` is the rule the crate exists for. `RangeKeysCompatible`
  is the same for ranges, stated key by key rather than through `overlaps`.
* Release. `IndexExact` and `RangeIndexExact` relate the two representations of the
  same fact, during a sweep included (the index is then what is left of the sweep's
  vector). `SweptClean` is the consequence that matters: nothing is left behind.
* Detection. Edges are collected one shard at a time, yet a reported cycle was one, as a
  whole, when the call took the registry, unless a stray is in it (`OthersGenuine`). The
  reason is that no edge between suspended transactions appears while the registry is held:
  a new one needs a new wait, or a lock granted to somebody suspended. What can go is an
  edge to a transaction that somebody was releasing by then (`OnlyReleaseUndoes`): its wait
  had been cleared and its retry registered it again, in the middle of the sweep. Every
  other lock of a suspended transaction stays: a grant of its request, a `cancel_wait` and
  a `release_all` that has yet to begin all take the registry first.
  `SilenceJustified` and `EveryDeadlockTold` are the converse: the transaction that
  closes a cycle is told so, whichever it is. They hold with strays, too.
  `RefusedIffBlocked` is what connects the two halves of the code: the grant path
  decides on the join, the graph is built from the requested mode.

* Progress. `DeadlockDissolved` is about sets of workers each of which is stuck on another
  one of the set, whether told or not: no such set stays. `CallsReturn` is the argument
  given at the field `waits`: the registry's mutex is always the outer one, and
  `release_all` never nests them. With a `release_all` that wants it inside a shard, TLC
  finds the two threads waiting for each other.
* Whose locks. `GrantHeld`: what a worker was granted stays its own until it ends its
  attempt. That is so when workers abort only themselves (`storm`).
* What locks are for. `ItemsIsolated` puts levels together: a row locked through the table
  by one and through itself by another. `Serializable` follows what transactions saw and
  wrote across unlocks; it fails if an intention is missing on one level, or if locks are
  taken after one was given up, although each single access is isolated all the same.

### Where code and documentation disagree

1. `request` promises that "a wait left over from a lock that has since been released
   contributes no edge, and a transaction is never reported as deadlocked unless it
   genuinely is". `try_acquire` does not clear a wait, and `cancel_wait` is documented
   for stopping "without acquiring the lock": a transaction told `Waiting` that then gets
   the lock with `try_acquire` leaves a wait behind. Once it has released the lock and
   another transaction holds it, that wait has an edge again, and a cycle is reported
   which was none when the detection began either (run `polling`).
2. The same promise, for clients that use `request` alone. `release_all` clears the victim's
   wait and then drops its locks shard by shard, and nothing marks the transaction. Its own
   worker retries, as `docs/API.md` has it do, is registered again, and finds the cycle that
   the rest of the sweep is about to dissolve: a second `Deadlock` is reported, with a victim,
   for a cycle that has gone (run `aborting`). It had been one when the detection began, so
   the report is late rather than wrong (`OthersGenuine`), but whoever acts on it aborts a
   transaction for nothing, which `dev/DIRECTIVES.md` excludes ("never falsely abort a
   non-deadlocked transaction"). It takes an abort in progress: without one, reports
   stand (`OnlyReleaseUndoes`).
3. `Granted` means "the transaction holds it and may proceed", and a worker told `Deadlock` is
   to abort the victim with `release_all`, whoever that is. The victim's own worker is not
   told: its next request is granted, as `docs/API.md` describes ("a clean grant"), and it
   goes on to commit without the locks the other worker took from it (run `victims`: with
   `acquire_or_abort` as documented it returns `true` for every resource). Whoever aborts
   another transaction has to tell its worker by other means.
4. `WaitForGraph::remove_txn` leaves empty vectors in the map, which `waiter_count`
   ("have outgoing edges") and `is_empty` count (run `count`). The searches are not
   affected and `LockManager` does not call it.

`shards()` is "always a power of two"; `with_shards` above 2^63 panics when overflow is
checked and makes a manager without shards when it is not. `ShardRouting` has the
constant `OverflowChecks` for it; the run and `LookupInBounds` are about the checked build,
since no sensible caller asks for that many. In the other, the first lookup in a manager
without shards is out of bounds: no property here covers that.

### Bounds

`MaxRangeLocks` bounds the range locks of a transaction in a shard: two are needed for a
repeated range and for two different ones. `MaxOut` bounds a waiter's edges: with three
transactions, three edges include every neighbour in both orders and repeated. Two
transactions suffice where a property speaks of pairs (compatibility of ranges, the
index, isolation); three where a third party matters: an upgrade beside two other readers,
a cycle the requester is not in, a cycle of three. Two shards have a sweep inside a shard,
between shards and past one, and in `rows` two of the three resources share one; in
`indexes` everything is in one shard, where two sweeps meet. One sweeping thread is enough
for `detection`: a victim's abort is one, and two at a time meet in `storm` and `aborting`.
`Serializable` speaks of cycles of any length; with two transactions they have length two, which is where both of its mutants show.
The registry needs no bound: a transaction has at most one wait. Ids are reused after
`release_all`, except in `Hierarchy`, so histories are unbounded. In `routing`, six bits keep
every shard count and every id enumerable; the constants 16 and 1024 of `new` are scaled to
2 and 8.

## 5. Proofs

`tlapm` checks, for every value of the constants:

* `DataProofs`. `CompatibleIffNoConflict`: the matrix refuses exactly what its meaning
  demands. `JoinCompatible`: a holder is compatible with a join exactly if it is with
  both parts. `JoinUnitesRights`, `JoinLeastUpperBound`: what `join` and `covers` are.
  `OverlapsIffCommonKey`: `overlaps` is a common key, where it matters that a constructed
  range is never empty. Lemmas: type and value of the map and vector operations.
* `LockTableProofs`: `TableSpec => []IInv` and from it `TypeCorrect`, `PointSafety`
  (`HoldersCompatible`), `RangeSafety` (`RangeKeysCompatible`) and `RefusalSound`
  (`RefusedIffBlocked`). `TableSpec => []TableInv` and from it `NothingLeftBehind`
  (`NoResidue`), `PointIndexExact` (`IndexExact`), `SpanIndexExact` (`RangeIndexExact`) and
  `SweepMissesNothing` (`SweptClean`). `TableImplements`: `LockTable` implements
  `AbstractLocks`.
* `ManagerProofs`: `VictimMember`, that `pick_victim` names a member of the cycle, the youngest or
  the oldest; and the types of the registry and of a running detection under whichever
  clients.
* `LockClientsProofs`: `Spec => []CInv` and from it `ClientsSafety` (the table's safety under
  `request`, retries and detections), `RegistryCorrect` (`RegistryExact`), `ReportsSound`
  (`OthersGenuine`), `ReportsUndoneByReleasesOnly` (`OnlyReleaseUndoes`) and, if nobody
  polls, `ReportsSoundWithoutPolling` (`ReportsGenuine`, the property that run `polling`
  violates when somebody does). `Spec => []DInv` and from
  it `SilenceSound` (`SilenceJustified`) and `DetectionComplete` (`EveryDeadlockTold`).
  `ClientTypeCorrect` (`ClientTypeOK`).
* `WaitForGraphProofs`: `GraphSpec => []GInv` and from it `SearchIsCorrect` (`SearchCorrect`),
  `NobodyAlone` (`NoSelfDeadlock`), `PathIsExact` (`PathExact`), `ExploredIsClosed`
  (`ExploredClosed`) and `GraphTypeCorrect`.
* `RoutingProofs`: `RoutingSpec => []RInv` and from it `RoutingTypeCorrect`,
  `ShardsAreBalanced` (`ShardsBalanced`) and, in a build with overflow checks,
  `LookupInBounds` (`IndexInBounds`).
* `HierarchyProofs`: `HierarchySpec => []HInv` and from it `Isolation` (`ItemsIsolated`);
  `HierarchySpec => []SInv` and from it `Serializability` (`Serializable`) and
  `HierarchyTypeCorrect`.
* `DeadlockStormProofs`: whomever workers abort, `StormSpec => []WInv` and from it `NothingLeft`
  (`NothingLingers`) and `StormTypeCorrect`. If they abort themselves, `StormSpec => []SInv`
  and from it `GrantsKept` (`GrantHeld`) and `CommitsComplete` (`CommitsHoldAll`, which run
  `victims` violates when they abort others).

The assumptions are those of the modules: at least one shard, `shard_index` a function into
the shards, legal modes and ranges (`TableAssumption`, `KeyAssumption`); what clients may
want and what workers lock are point resources in modes the table knows
(`ClientAssumption`, `StormAssumption`); where `pick_victim` matters, ids are naturals, as
`TxnId` is a `u64` whose order is age; in `WaitForGraph` there are finitely many ids
(`GraphAssumption`: `u64` again); what is above a node of a hierarchy is a chain
(`HierarchyAssumption`: a row lies in one page and a page in one table). That each worker
aborts itself, that nobody polls, and that the build checks for overflow are hypotheses of
the theorems that need them. `PowersAssumption` (`2^(k + 1)` is `2 * 2^k`) is no restriction:
it is what the provers do not know about powers, and the run evaluates it.

**The table.** `IInv` regroups type correctness and the two compatibility invariants by
variable. They are inductive only together: that a grant keeps the holders compatible
needs their modes to be modes, the matrix to be symmetric (the check looks from the
holder's side only) and, for an upgrade, that the transaction is listed once, so that
leaving out its own position leaves out itself. Neither needs the index: a stale index
entry makes `release_all` skip, never break a grant. There is one lemma per action; those
about vectors (`GrantedCompatible`, `SwapRemoveCompatible` and their range twins) carry the
argument. `RefusalSound` follows from the invariant by `JoinCompatible`. The proofs
about clients do not look into vectors again: they use `ModesOf`, the modes somebody holds
on a resource, `Tally`, the number of its range locks, and one lemma per operation that says
what it does to them.

**The indexes.** `IndexExact` speaks of sets and of shards nobody is sweeping, and
`SweptClean` of the end of a sweep; neither is inductive. `TableInv` compares vectors by
tallies instead (`PointsTallied`, `SpansTallied`: a vector names a resource, or a range, at as
many positions as the table has entries of the transaction for it), so that it does not
matter which of several equal entries `swap_remove` takes. The vector compared is the
one in the map, or, for the transaction a thread is sweeping in this shard, what is left of the
vector it took, while the map has none. That needs the mutex: at most one thread is
inside a shard (`Exclusive`), and every other operation finds the shard closed. `SweptClean` is
then what an empty vector means. One lemma about tallies per vector operation
(`TallyAppend`, `TallySwapRemove`, `TallyTail`) and one per operation of the table
(`GrantTallied`, `ReleaseTallied`, `PointWalked` and their twins) carry it.

**The refinement.** `HeldMap` and `SpanMap` say what the vectors mean: a mode per transaction and
resource, a count per range lock. The initial states agree, and every action is a step of
`AbstractLocks` or leaves both unchanged: a grant or a release changes the map at one place
(`HeldAfter`, `SpansAfter`), the steps of a sweep are releases, its locking, unlocking and its
vectors are invisible. A refusal is a stutter although it creates and looks up an entry.

**Reports.** `CInv` adds to `IInv` the registry (`RegistryExact` is inductive with the type
of `status` and `waits`) and what a detection knows. `BegunInv`: while the registry is held
nobody comes to wait for a suspended transaction and no `release_all` begins, so the true
graph and the transactions being released only shrink from what they were when it was
taken. `EdgesGenuine`: an edge read so far, if both its ends are suspended, was there then,
and is there still unless it leads to a transaction that was being released. That is the
heart of it: nobody becomes suspended or stops being so meanwhile, the waits do not
change, and of the locks of a suspended transaction only a sweep already under way can
take one. With `CycleFound` every edge of a reported cycle without strays was true at one
moment, though no two were read together.

**Silence.** `DInv` adds the converse `EdgesComplete`: of the waiters visited no edge to a
suspended transaction is missing, for a lock acquired meanwhile belongs to a transaction
that runs. Then a finished search without a cycle has nothing reachable in the true graph
either. `EveryDeadlockTold` is not inductive while a request is in progress; the invariant
is `DeadlockToldOrAsking`: a new cycle needs a new edge, hence somebody that has just
registered its wait, and whoever asks is on the cycle it closes and is told or has shown
that there is none.

**The search.** `LockManager` searches in one step, by the contract in `Cycles`;
`SearchIsCorrect` is that the loops of `cycle_from` and `detect_cycle` meet it. `GInv` says of a
search in its loop: the path has exactly the nodes marked on it, each once (`OnPath`); the
two stacks agree, and a node's index is one past the neighbour the next node of the path
came from (`StackOf`); every neighbour before the index has been explored (`LookedAt`); and
explored nodes have only explored neighbours and lie on no cycle (`Finished`). The last part
is the argument for `None`: when a node is marked explored all its neighbours have been, so a
cycle through it would go on through explored nodes, which lie on none. That a returned
part of the path is a cycle is `StackOf` and the edge that led back. `WaitForGraph` takes
`Vec::retain` as an operator of its own (`without` in `Collections`), of which the proofs
know what it keeps: the provers know nothing about `SelectSeq`.

**Hierarchies.** `Announced` says that a mode held is announced on every node above by a mode
that covers its intention; it survives an upgrade because `join` unites rights, and an
unlock because only what nothing below needs is unlocked. Two transactions in conflict over
an item hold their covering locks on two nodes above it; as these form a chain, one of
them has an intention on the other's node, which the matrix refuses.

**Serializability.** `precedes` gets an edge when the later access happens; the proof draws it
earlier, as soon as the later transaction has a lock under which it may access the item
(`BeforeEdges`, which contains `precedes`). An access then draws no new edge, and a lock
taken draws edges only to the transaction that takes it, which is growing. `SInv` says that a
growing transaction still has its locks on all it read and wrote (`KeepsLocks`), so that by
`ItemsIsolated` no edge leaves it (`EdgesFromDone`), and that `BeforeEdges` has no cycle: a new
edge into a transaction that none leaves closes no cycle (`NoNewCycle`).

**Workers.** `WInv` is about workers whomever they abort: a thread in `release_all` is in
"ending" and sweeps for its target, plans are followed from the start, and `CleanInv`: what a
worker's own `release_all` has been through stays clear, whatever others do to it, since
only its own requests give it a lock or a wait. With `TableInv` (a sweep leaves nothing in
the shard it leaves) that is `NothingLingers`. `SInv` adds that a sweep is always its own
worker's, which is where "self" is needed (run `victims` shows the other case), and that
what was granted to an attempt is held.

**Routing.** `RInv` pairs the number of shards with its exponent; the pair comes from
`next_power_of_two` and `trailing_zeros` (`TrailingZeros`), and the top bits of a word are less
than the power of their number (`TopBits`). For the balance, an odd number times an id is
divisible by `2^W` only if the id is (`PowerDividesFactor`), so that hashing permutes the words
(`HashPermutes`), and each shard's hashes are an interval of equal length (`TopBitsInterval`,
`HashesCounted`). The inductions over the exponent are inductions over a set of numbers
(`SetInduction`), which follows from the well-foundedness of the natural numbers.

Model-checked only: `SearchEnds`, `DeadlockDissolved`, `CallsReturn` and `AttemptsEnd`, which
are liveness properties and out of the prover's reach. Every other property of the passing
runs is also a theorem; the four that runs refute are not, except under the hypotheses
named above. The theorems about routing cover the
source's own numbers (64 bits, 16, 1024 and its `FIB_HASH`), which the run scales down.

## 6. Plan

Done: the modules above, in the order `LockMode`, `KeyRange`, `LockTable`,
`AbstractLocks`, `LockManager`, `LockClients`, `WaitForGraph`, `ShardRouting`,
`DeadlockStorm`, `Hierarchy`, and the proofs of 5.

Next:

1. Model: the number `release_all` returns against the locks the transaction held; range
   locks beside `request` (they are documented as not tracked); `range_count`.
2. Proof: what these add.

## 7. Not modelled

* `src/id.rs` and `src/error.rs`: opaque newtypes, an error enumeration and its text.
* `range_count`, `start`, `end`, and the accessors of ids: queries without effect that no
  client here uses.
* The random choice of resources and the counters of `tests/stress.rs`; the other tests and
  examples, whose calls `LockTable` allows in any order already; benchmarks.
* `serde`, `no_std` and `loom` features: no state of their own.
* Memory exhaustion, and panics inside the standard library other than the two in
  `with_shards`.
