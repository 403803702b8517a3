# A TLA+ model of the Cuckoo Trie

The Cuckoo Trie is an ordered in-memory index for byte-string keys. Its trie
nodes are entries of one concurrent cuckoo hash table; threads insert, update,
look up and iterate without a global lock. This project models that code: the
TLA+ modules are translations of the C sources under `src/`, TLC checks them on
small instances, and TLAPS proves the main properties, from the seqlock up to
the linearizability of the trie operations, for every instance.

File and line references are to `src/`. `PROJECT.json` maps every definition to
the lines it models.

## 1. Inventory

| Component | Source | State | Operations |
|---|---|---|---|
| seqlock and lock manager | `atomics.c`, `atomics.h` | the counter word of a bucket (lock byte + 24-bit sequence number), two qwords per entry, the lock manager's list of held locks | `read_entry`, `read_entry_non_atomic`, `write_entry`, `read_lock_bucket`, `read_unlock_bucket`, `upgrade_bucket_lock`, `upgrade_lock`, `write_lock`, `write_unlock`, `move_entry_lock`, `release_all_locks` |
| bucket pairs | `main.c`, `main.h` | `bucket_mix_table` | `mix_bucket`, `unmix_bucket`, the two buckets of a node |
| hash table | `main.c`, `main_vectorized.c` | buckets of four cells, a color per entry | `add_entry`, `relocate_entry`, `find_entry_in_pair_by_color`, `remove_entry_by_value`, `unused_color_in_pair`, roll-back and retry of an insert |
| trie operations | `main.c`, `main_vectorized.c` | LEAF, BITMAP and JUMP entries, locators, `max_leaf`, dirty flags; a finger (path) per operation | `ct_insert`, `ct_upsert`, `ct_update`, `ct_lookup`: `split_leaf`, `split_jump_node`, `create_leaf`, `create_root`, `propagate_max_leaf` |
| leaf list and iterators | `main.c`, `main_vectorized.c` | `next_leaf`, `min_leaf`, an iterator's current leaf | `linklist_insert(_two)`, `find_predecessor`, `ct_iter_goto`, `ct_iter_next` |
| vectorized search | `main_vectorized.c` | none (the table's) | SIMD forms of the bucket searches and of the color choice |
| key symbols and bit helpers | `util.c`, `key_object.h`, `main_vectorized.c` | a prefetcher per descent | 5-bit symbols of a key (`get_string_symbol`, `key_to_symbols`), `extract_bits`, `put_bits`, `copy_bits`, `last_bit_before`; the packed bytes of jump and bitmap nodes |
| trie verifier | `verify_trie.c` | none | `ct_verify_trie`: the invariant the tests check |
| debug scheduler | `mt_debug.c` | whose turn it is, the registered and the finished threads | `mt_debug_wait_for_access`, `mt_debug_access_done`, `ct_mtdbg_thread_done`, `ct_mtdbg_set_enabled` (debug build) |
| public interface, statistics, allocation, datasets, random numbers, tests, benchmarks | rest | | not modelled, see section 8 |

`main_vectorized.c` is `main.c` with other searches of a bucket and another choice of
a color; a build uses one of the two files. Their functions on the trie are the same.

How they interact. An operation descends from the root: for every node it finds
the entry of the child through its *locator* (primary bucket, tag, color), or
through primary bucket, tag, last symbol and parent color for a child of a bitmap
node, and keeps a local copy and the counter of the bucket. Readers validate the
copies they relied on. Writers lock what they change with `upgrade_lock`, add new
entries with `add_entry` (which may relocate entries of other nodes), change the
nodes above, link the new leaf into the sorted leaf list, and release everything.
A failed upgrade, or an `add_entry` that had to withdraw its entry, makes the
whole operation retry from the root after a roll-back. There is no deletion of
keys and no resizing: a table in which no free cell is found returns
`S_OVERFLOW`.

What is hard here: readers take no lock; colors are chosen from buckets of which
only one is locked; an entry being relocated is in two cells; a lock is upgraded
from a counter read earlier; addresses of entries are used after calls that may
move them; iterators read ahead; several nodes are changed by one insert and one
of the steps may fail. `PROJECT.json` lists these as hazards, each at its line.

Properties that make each component correct:

* **seqlock and lock manager**: a read returns one written value; a validated copy
  is the current value; a lock byte is set exactly while one thread counts a lock on
  the bucket; a sequence number is odd only during a write; readers finish.
* **bucket pairs**: the two buckets of a pair differ and determine each other.
* **hash table**: no two entries of a pair share a color; no entry disappears or
  stays twice; the `is_secondary` flag tells the bucket; a lookup by locator finds
  its node; the root stays; a writer that is alone finishes.
* **trie**: every key inserted is found with its last value; the leaf list holds the
  keys in order; `max_leaf` names the largest leaf below a node; all of
  `ct_verify_trie`.
* **concurrent calls**: each takes effect at one moment between its start and its
  return; when no call is under way the trie verifies.
* **iterators**: keys in order, from the key asked for on, none skipped that was there
  throughout.
* **vectorized search**: the entry of this pair that was asked for, whatever else is in
  the buckets; the same color from all three implementations.
* **key symbols and nodes**: the two ways to read a key agree, symbols order keys as
  bytes do, and nodes hold what was put into them.
* **debug scheduler**: one access at a time, and no turn that nobody takes.

## 2. Plan

| Step | Modules | State |
|---|---|---|
| A | `Atomics`, `AtomicsProofs` | modelled, checked, proved |
| B | `Hash`, `CuckooTable` | modelled, checked |
| B' | `CuckooTableProofs`, `CuckooTableNodes` (proofs about `Hash` and `CuckooTable`) | proved: pair arithmetic, types, locks, fixed entries; without store buffers flags, locked writes, copies, colors, no lost node |
| C | `PrefixHash`, `KeyOrder`, `OrderedIndex` (abstract ordered map), `CuckooTrie` (the trie of one thread in the cells of the table; `ct_verify_trie` as invariant; implements `OrderedIndex`) | modelled, checked |
| D | `ConcurrentIndex` (abstract: overlapping calls that take effect one at a time), `ConcurrentTrie` (the trie operations of several threads, dirty flags, leaf list, `create_root`, iterators against inserts; implements `ConcurrentIndex`) | modelled, checked |
| D' | `ConcurrentTrieInvariant`, `ConcurrentTrieProofs`, `ConcurrentTrieOrder`, `ConcurrentTrieVerified` (proofs about `ConcurrentTrie`) | proved: structure, lock-free search; order of the leaf list and `max_leaf`; the calls for single keys take effect atomically and are linearizable |
| E | `BitStrings`, `KeySymbols`, `NodeBits`, `BucketSearch` (packed representations), `MtDebug` (debug scheduler), `MtDebugProofs` | modelled, checked; safety of the scheduler proved |
| F | proofs about `PrefixHash` (`accumulate_hash` is injective in the hash and in the symbol below `FANOUT`), and of `FlagTellsBucket` and `WritesAreLocked` with store buffers as far as finding 1 lets them hold | planned |

`CuckooTable` extends `Hash` and abstracts what `Atomics` establishes (a counter
that has not changed means a bucket that has not changed). `CuckooTrie` extends
`PrefixHash` (which extends `Hash`) and `KeyOrder`, and instantiates
`OrderedIndex`, of which `index`, `full`, `cursor` and `last` are the shared
variables: they are computed from the cells and never read by the operations.

## 3. The modules and the code

**`Atomics`** models `atomics.c` and `atomics.h` access by access. `word[b]` is
`write_lock_and_seq` of bucket `b`; `half1`/`half2` are the two qwords of each
cell, abstracted to the number of the `write_entry` call that stored them, so that
a mixture of two writes shows. `mgr[t]` is the array `bucket_write_locks` of the
thread's `ct_lock_mgr`, with its per-entry counts and the swap in `remove_lock`.
The read loop has the steps `ReadRetry`, `ReadPart1`, `ReadPart2`, `ReadSeq2`; a
write has `WriteSeqOdd`, `WritePart1`, `WritePart2`, `WriteSeqEven`, the two
counter steps storing the whole word saved at the beginning, as the code does. Which function a thread calls next is left
open within what `main.c` respects (its asserts, its pairing of locks and
unlocks); `bucket_refs`, the bucket-level references it holds, is history for
that.

**`Hash`** has `mix_bucket`, `unmix_bucket` and the alternate bucket of an entry over an
abstract `bucket_mix_table`. Its entries are assumed to be non-zero: the table is
filled with a fixed seed modulo a multiple of 64, and none of the 16 random values
is a multiple of 64.

**`CuckooTable`** models the table as a set of threads that run inserts. An insert
adds the nodes of a plan (a sequence of hashes; which plans there are is a
constant) through `add_entry`, publishes them and releases its locks, or removes
them again and retries with any plan. What the trie code decides between these
calls is thus left open. A run has several *scenarios* (plans, number of inserts, store
buffers or not); the initial state picks one. `add_entry` has one step per shared access or scan: read
locks on both buckets, the scans for a free cell, `upgrade_bucket_lock` in its
three forms, the color choice and the three stores of `write_entry`, the check of
the other bucket and the withdrawal. `relocate_entry` has the breadth-first
search (`SearchExamine`, `SearchReadLock`, `SearchScan`), the upgrades along the
path, the moves from the free cell back, and the release of the locks. The cell
that must not be moved is any cell or none. `find_entry_in_pair_by_color` is used
by readers and by the roll-back. Sequence numbers are reduced to what they decide:
a counter that was read is stale if its bucket was written since, and a bucket is
busy while a write is in progress. In a buffered scenario every store goes
through a FIFO buffer of its thread and `Drain` lets it reach memory, which is what
x86 does to the release stores and acquire loads of the code; the exchange that
takes a lock waits for an empty buffer.

**`PrefixHash`** has `accumulate_hash`, which adds a symbol to the hash of a prefix,
and the division of a hash into primary bucket and tag. The exclusive or is a
constant operator with the two facts the code relies on.

**`KeyOrder`** is the order of `kv_key_compare`.

**`OrderedIndex`** is the abstract specification: an ordered map with the results of
`ct_insert`, `ct_upsert`, `ct_update`, `ct_lookup`, `ct_iter_goto` and
`ct_iter_next`. Once `S_OVERFLOW` was returned nothing is promised (`API.md` calls
the results undefined). An iterator returns keys in increasing order, each of them
in the map, and skips none of those that were in the map when it was positioned.

**`CuckooTrie`** models `main.c` above the locks: `cells` holds the entries of all
buckets and of `min_leaf`; an entry is a record with the fields of the C struct,
a locator a record of hash and color. The finger, the path of locators with the hash
and the depth in a jump node, is a value built by `descend`. An insert
is a call followed by attempts: `create_root`, or the whole of `ct_insert_internal`
in one step, with `split_leaf`, `split_jump_node`, `create_bitmap_child`, their
`add_entry` calls with relocation, the roll-back after `SI_RETRY`, the leaf list, the
`max_leaf` fields. `split_leaf` and `split_jump_node` are chains of operators that
pass the table on from one `add_entry` to the next, in the order of the code; `Failed`
is both `locking_failed` and `trie_full`. Points to note:

* The addresses that the code keeps (`maximal_leaf`, `bitmap_child.last_pos`, the
  immovable entry) are cells in the model, and are used after later `add_entry`
  calls exactly where the code does.
* A thread alone makes its own upgrades and checks fail only where its writes have
  changed a counter it has read. In `add_entry` this is the case when the relocation
  path leads through the other bucket of the pair (`PlacedAfter`). After
  `split_jump_node` it depends on which buckets the path shares; the model leaves it
  open (`upgraded`).
* Where a marked child is in neither bucket the code searches for ever (debug builds:
  `assert(count < 100)`); the descent of the model ends, so that the invariants and not
  a missing step report it.
* Dirty flags are set and cleared within an attempt and are left to `ConcurrentTrie`.
* A run has several *workloads* (keys, values and the functions that are called).
* `call.retried` changes with every attempt, so that an attempt that changes nothing
  is a step and an endless retry is a behaviour.

**`ConcurrentIndex`** is the abstract specification for several threads: a call starts,
takes effect in one step and returns. An iterator may report a key whose insert is
still under way (the leaf list is linked before the key can be looked up), and must
report the keys that were there when it was placed.

**`ConcurrentTrie`** models the same operations as `CuckooTrie`, from
`main_vectorized.c`, for threads that interleave. The table is reduced to what
`Atomics` and `CuckooTable` are about: a node is found by its name, the prefix it
stands for, and is read and written as a whole; it has a sequence number that grows
with every write and a lock. `path` is the finger with its local copies, `pred` the
copy of the predecessor, `iter` the iterator. The steps of an insert are those another
thread can see: the locks on the path (`LockPath`), the predecessor found
(`PredecessorMinLeaf`, `PredecessorLeaf`, `PredecessorSubtree`, `PredecessorMaxLeaf`
with `validate_path_from` and the dirty check), its lock and its dirty mark
(`LockPredecessor`), the write that makes the key reachable (`WriteHead` or
`mark_bitmap_child`), the link in the list (`LinkLeaves`), each `max_leaf` on the way up
(`propagate_max_leaf`), and the removal of the mark (`Clean`). What was merged:

* Locks that are taken one after the other are taken in one step. A thread that fails
  to get one releases the others, without having written.
* `validate_entry` is done with the read before it: numbers only grow, so a node that
  is unchanged at the check was unchanged at the read.
* New nodes are added with the dirty mark: until the path is written nobody can reach
  them. `split_jump_node` is one step, because only the write of the new head is visible.
  The table does not get full here, and a node shares its bucket with no other, so
  retries caused by neighbours are left out.
* A thread may be created after some keys are in the trie (`StartAfter`), as the tests
  and the instances below need.

`index` and `cursor` are history: they change where a call takes effect, and the
operations do not read them.

**`MtDebug`** has every step of `mt_debug.c` that another thread can see: the
unlocked tests of `mt_debug_enabled`, the mutex, the condition variable with its
broadcasts, the draw of the next turn (any unfinished thread). The threads are those of
`test.c`: they end with `ct_mtdbg_thread_done`, with `ct_mtdbg_set_enabled(0)`, or by
returning, and readers wait for what they wait for there.

**`BitStrings`** has the bit operations of `util.c`, **`NodeBits`** the bytes of a
jump or bitmap node and the writes `split_leaf`, `split_jump_node` and
`mark_bitmap_child` make to them, **`KeySymbols`** the symbols of a key as
`get_string_symbol` and as `key_to_symbols` read them, with the memory around the key
and the prefetcher's arrays, **`BucketSearch`** the headers of a pair of buckets with
the masked searches and the three choices of a color. Here the constants of `config.h`
have their real values.

The `MC` modules define the mix tables, plans, programs, keys and symmetry sets of the
instances; `MCPrimitives` runs the three machines of the packed representations, one at
a time.

## 4. Runs

| Run | Instance | Shows |
|---|---|---|
| `atomics_locks` | 2 threads, 2 buckets, no writes, up to 2 references per bucket | `TypeOK`, `LockByteOwned`, `RefcountsBalance` through nested locks, upgrades, moved locks and `release_all_locks` |
| `atomics_seqlock` | 2 threads, 1 bucket, 2 writes, fair | `NoTornRead`, `ValidCopyIsCurrent`, `OddSeqIsWritten` (also against the whole-word stores of `write_entry`), `UpgradeKeepsFresh`; `ReadersFinish`: when the counters stop changing every `read_entry` returns |
| `table_writes` | 2 writers, 4 buckets of 1 cell; three scenarios: one insert each into one pair, with roll-backs; two inserts each, with crossing relocations of two moves; one insert each with store buffers | `NothingLost`, `FlagTellsBucket`, `CopiesAreLocked`, `WritesAreLocked`, `RelocationReleasesLocks`, `LocksHaveOneOwner` (a lock byte is set exactly while one thread holds the bucket or its unlock is in its store buffer), `RetriesStartClean` (an insert that starts again has left no node of its earlier attempts), `TypeOK` in all three; `OrderedColorsUnique` in the first two |
| `table_lookup` | 1 writer with 3 inserts, 1 reader, 4 buckets of 1 cell, 2 tags, fair | `LookupFindsNode`, `LookupsFinish`, `AloneFinishes` |
| `trie_operations` | 4 buckets of 2 cells; three workloads: inserts and lookups of 6 keys that fill the table; upserts and updates of 4 keys with 2 values; inserts under an iterator; fair | `VerifyTrie` (all that `ct_verify_trie` checks), `OneParent` (no node left behind), `MaxLeafIsMax`, `Implements` (an ordered map), `CallsReturn` (retries end), `TypeOK`, through relocations, roll-backs and overflow |
| `concurrent` | 3 threads, jump nodes of 2 symbols; programs: an iterator past two writers that create the root, split a leaf and split the jump node, in all orders; upserts and updates of a key whose leaf is split; two inserts after the same leaf from different bitmaps with an iterator that starts there; fair | `Linearizable` (the refinement of `ConcurrentIndex`), `SearchFindsIndex` in every state, `QuietTrieVerifies`, `ResyncFindsLastKey` (the assertion in `ct_iter_next`), `ReadersReturn`, `TypeOK` |
| `mtdebug_tests` | the threads of `mt_insert` (3), `mt_insert_scan`/`mt_insert_succ` (2) and `mt_insert_lookup` (2), fair | `AccessInTurn`, `TurnIsNotLost`, `TestsEnd`, `TypeOK` |
| `primitives` | keys of up to 11 bytes at 4 places of a page; nodes through all sequences of writes; pairs of buckets after up to 3 changes, from empty or full | `SymbolsAgree`, `SymbolOrderIsKeyOrder`, `NodeKeepsContents`, `SearchesAgree` |
| `table_color_race` | store buffers, 2 writers | finding 1 |
| `table_lookup_race` | 2 writers, 1 reader | finding 2 |
| `trie_moved_child` | 3 keys, 2 tags, 4 buckets of 2 cells | finding 3 |
| `concurrent_smallest` | 3 keys, a writer and an iterator | finding 4 |

Three more configurations are variants of these runs and lead to other places in the code that
go wrong. They are not among the runs of `PROJECT.json`; TLC finds each violation within seconds:

| Configuration | Variant of | Instance | Shows |
|---|---|---|---|
| `TrieMovedLeaf.cfg` (`MCCuckooTrie`) | `trie_moved_child` | one symbol per jump node | `VerifyTrie` is violated: finding 5 |
| `ConcurrentRoot.cfg` (`MCConcurrentTrie`) | `concurrent_smallest` | the root is a leaf when the iterator starts | `GotoNotBelow` is violated: finding 6 |
| `MtDebugSwitchOff.cfg` (`MCMtDebug`) | `mtdebug_tests` | the threads of `mt_insert_lookup` only | `SleepersWake` is violated: finding 7 |

Every property of a passing run has a mutant in `PROJECT.json`: a plausible error
in the code, written beside the definition it replaces, for which TLC finds the
property violated.

**Bounds.** `MaxWrites`, `MaxRefs` (Atomics), `inserts` of a scenario
(CuckooTable), `MaxChildren` (NodeBits) and `MaxChanges` (BucketSearch) cap counters;
the programs of `ConcurrentTrie` and `MtDebug` are finite. Two writes are enough for a reader to meet the end of one and the
beginning of the next, two references for nesting. In the table, one or two cells
per bucket make full buckets, relocation, paths of several moves, overflow and equal
colors happen with a handful of nodes, where the code's four cells would need
dozens; a queue of 3 (5 in
`trie_moved_child` and `TrieMovedLeaf.cfg`) makes both a full queue and an exhausted search happen. In the
trie, symbols are 1 and 2 besides `SYMBOL_END` and jump nodes hold two symbols (one in
`TrieMovedLeaf.cfg`, where the split then needs several path nodes), so
keys of three symbols already make chains of jumps, and splits at their beginning,
middle and end; the keys and table sizes were chosen so that leaf splits with and without jumps, all positions of a
jump split, retries and overflow are reached. Retries are
not bounded. The retry loop and the search loops make the state space finite without
a counter. Symmetry is used only in runs without liveness properties.

In `ConcurrentTrie` a thread inserts one or two keys and there are three threads: the
hazards are about one insert that meets another at a shared predecessor, or an iterator in
the middle of an insert, and each of these needs two threads and a handful of nodes. The
programs put each of them next to leaf splits, jump splits and the creation of the
root. In `MCPrimitives` a longest key has 11 bytes in place of 256: both are one more than
a multiple of five, which is what decides where the `END` symbol falls. A pair of four-cell
buckets is near its limit when it starts full, so the last valid color is used.

**Fairness.** `FairSpec` asks for weak fairness of the steps inside a call, and of
`Drain`. (In `CuckooTrie` weak fairness of `Attempt` is written out, since an attempt
is possible exactly while a call is under way.) A thread inside a library call is an ordinary runnable thread, so the OS
scheduler lets it go on; a store does leave the store buffer. Nothing is assumed
about a thread starting another call, nor that a lock is ever won: `ReadersFinish`,
`LookupsFinish` and `AloneFinishes` therefore say what happens once others have
stopped writing. In `ConcurrentTrie` weak fairness of each thread is written out with
`Ready`, the condition under which it can take a step (it waits only for the root and for
the threads it is started after); writers finish their finite programs there, so
`ReadersReturn` needs no assumption on them. In `MtDebug` threads are weakly fair, and a
thread that takes part in the draw again and again is drawn at last (strong fairness of the
draw): `next_turn_locked` gives every unfinished thread the same chance at each turn.
The code retries without back-off and two inserts may make each
other retry for ever, so no stronger progress is claimed.

## 5. Proofs

`AtomicsProofs` proves every safety property of `Atomics` for any number of
threads, buckets and references, up to four cells (the size of the count array in
the lock manager), and any number of writes for which the 24-bit counter does not
wrap (`SeqModAssumption`). The properties are not inductive. `IInv` is
`LockInv /\ SeqlockInv`:

* `LockInv` is about the lock managers: types; each bucket appears once in at most one list
  beyond the part `release_all_locks` has given back, and its lock byte is set
  exactly then; the counts of a lock add up; and a thread between two steps of an
  upgrade, a write or a release holds the lock that its next step relies on.
* `SeqlockInv` ties the sequence number to the number of writes begun and finished
  on a bucket: it is odd exactly during a write, the two qwords of a cell differ
  only for the cell being written, by the write in progress, and a reader or read
  lock that still has the current number saw the current contents.

`Invariance` proves `Spec => []IInv` with one lemma per action; the named
theorems (`TypeCorrect`, `MutualExclusion`, `CountsAddUp`, `ReadsAreWhole`,
`ValidationIsSound`, `OddOnlyDuringWrites`, `UpgradesAreFresh`) follow.

`CuckooTableProofs` begins with a proof that the two buckets of a pair differ, that `unmix_bucket`
inverts `mix_bucket` and that moving an entry to its alternate bucket twice brings
it back, for every table size and mix table with `MixTableAssumption`.

`MtDebugProofs` proves the safety properties of the debug scheduler for any finite set of
threads and any programs (`ActorsAssumption`, `ProgramsAssumption`). `IInv` adds to them who
holds the mutex in each state of a thread (`MutexHeld`), that whoever is about to pass the turn on
has it (`PasserHasTurn`), and that nobody has a turn before all threads are
registered. `AccessesInTurn`, `TurnStaysAlive`, `OneInCriticalSection` and `TypeCorrect` follow.

The proofs about `CuckooTable` are for any number of writers and readers, any set of
scenarios, any table size, bucket size and queue length. They are layered, each part using
the invariants of those before:

* The first part of `CuckooTableProofs` looks at one thread at a time. `CInv` says what a thread knows about
  its own locals in each state: `CallInv` (arguments of the functions it is in),
  `InsertInv` (it has a plan and a next node), `AddInv` (its read locks are on the two
  buckets of the pair and the chosen cell is in the bucket it upgrades), `QueueInv` (the queue of
  `relocate_entry` is a tree of different buckets rooted in the primary one), `RefsInv` and
  `PathInv` (exactly the primary bucket, the bucket of the free cell and a chain of the path from
  `pos` up are locked, and `locked` counts them). `CallInv` to `PathInv` need each other:
  that the release loop stops at the right bucket follows from the count of the chain. No
  step of another thread writes to these variables, so the invariant is inductive without any
  knowledge of the shared memory. Two facts about data are needed: a set of naturals has a
  least element (`WFMin` of the library), and there is always a valid color that no cell of the
  pair has (a pigeonhole argument over the cells). `TypeCorrect` and
  `RelocationLeavesNoLocks` follow, with and without store buffers.
* Its second part: `PInv` says which cell each `write_entry` was given, that the cells on a
  relocation path are neither the root's nor the immovable one, and that no node of an insert has
  the locator of the root, so that the roll-back cannot find it. `FixedEntriesAreNotMoved`
  (`FixedEntriesStay`, which no run checks) follows.
  `LockInv` says that a lock byte is set exactly while one thread counts a lock on the bucket
  or has an unlock on its way, of which there is then only one. `LocksAreOwned` follows. Both
  hold with and without store buffers.
* Its third part is about scenarios without store buffers. `relocate_entry` plans its
  path from buckets it has not locked. `ContentInv` says that what was seen of a bucket on the
  path holds until somebody writes there (`Kept`), in which case the read lock is stale and the
  upgrade fails; so the entries that are moved belong where they are moved to (`PathLeads`),
  and each entry fits the bucket it is in or being written to (`Fits`). `FlagsAreRight` is
  `FlagTellsBucket` in these scenarios.
* `CuckooTableNodes`, also without store buffers, proves one
  invariant, `NodeInv`, in two parts. The first is about `Account(t)`, what thread `t`
  relies on: the cell it chose is free (`FreeInv`), the primary bucket it passed is full (`FullInv`), a
  relocation copies the entry that is there (`MoveCopy`) and the copy it leaves behind is not
  the only one (`VacatedInv`), the entry it has just stored is its own (`TentativeInv`), its nodes have
  different names (`NamesInv`) and, until they are published, are in cells it has locked
  (`NodesLocked`), and the search of a roll-back does not miss the node (`RemoveInv`). What was read
  without a lock is claimed only while the read lock is fresh. `OwnAccount` and `OtherAccount` show that
  a step keeps the account of the thread that takes it and of every other one.
  The second part is about the table: sequence numbers are odd during a write
  (`BusyInv`), every entry is of a known node (`KnownInv`, `LiveInv`), an accepted node is in the
  table under its locator (`SettledInv`), two copies belong to one relocation that
  has locked both buckets (`CopyInv`), and of two nodes with the same locator one is going to be
  withdrawn (`ColorInv`). `WritesAreToLockedBuckets`, `NoNodeIsLost`, `RollBackIsComplete`,
  `CopiesStayLocked` and `ColorsAreUnique` follow.

  None of these can be proved before the others. A roll-back writes to the cell it found
  by color, so that writes are locked needs unique colors; that colors are unique
  needs that a full bucket was really full, hence that nobody writes without the lock. The argument
  for the colors: `add_entry` chooses a color that it did not see in either bucket, so an
  insert with the same color came in between, and to the other bucket of the pair, since its own
  bucket could then not be upgraded. One of the two is then in the secondary bucket. It
  saw the primary bucket full, and the other found, or made, a free cell there; so the primary
  bucket has changed, its read lock is stale (`Doomed`), and `read_unlock_bucket` makes it
  withdraw its entry.

Assumptions on the constants of `CuckooTable`, besides those of `Hash`: plans are non-empty sequences of hashes,
there is at least one cell per bucket and one place in the queue, no thread is
both writer and reader (`ThreadsAssumption`), and `None` is none of the values it is distinguished from
(`NoneAssumption`). TLC evaluates them in the runs.

The proofs about `ConcurrentTrie` are for any set of threads, any programs of the five calls (an
iterator's `ct_iter_next` included), any set of keys and any `MAX_JUMP_SYMBOLS`. The invariant
`IInv` of `ConcurrentTrieInvariant` is needed because neither what a search finds nor the effect
of a step can be told from the nodes alone: threads act on copies read earlier and on nodes that
others cannot reach. Its parts are

* `StructInv`: the nodes in the trie (`Trie`: those in use that are not `Hidden`, i.e. added by
  a thread that has not yet written the node above them) contain all children of each of them,
  and whatever lies below a node lies at or below one of its children. So a search can neither
  run into a missing node nor end too early.
* `IndexInv`, `EmptyInv`, `UnusedInv`, `ReleaseInv`, `NodesOK`: the leaves of the trie hold the
  index; before the root exists there is nothing; only nodes, or the root's bucket, are locked, and
  only by threads at the right place; each value fits the name of its node.
* `PathInv`: every copy on a path is one its node has had, with a sequence number that is
  not above the node's, and equal only if the value is; the children it tells of are still in
  the trie, since nodes are never removed and a split keeps the names below it.
* `HoldInv`, `PredInv`, `EndInv`, `HiddenInv`: an inserting thread has locked the end of its path and
  the ancestors whose `max_leaf` it may write, each still as the copy says; the predecessor it has
  locked is a leaf; the nodes it hides lie below the end of its path and below none of its
  children.

The module then shows what `split_leaf` and `split_jump_node` build, for keys and jumps of any
length (`LeafSplit`, `JumpSplit`: the new nodes connect the old name with everything that was
below it), and that a step which respects locks leaves intact what other threads know (`OthersKeep`).
`ConcurrentTrieProofs` has one lemma per action, `StructureHolds` combines them, and there follow

* `SearchHolds` (`SearchFindsIndex`): the recursive search of the property is shown to exist and
  to end at the lowest node on the way to the key by a least-counterexample argument over the
  length of names (`SearchExists`, `StuckFinds`); by `StructInv` that is where the key's leaf is.
* `CallsTakeEffect`: every step of `ct_insert`, `ct_upsert`, `ct_update` and `ct_lookup` is a step
  of `ConcurrentIndex` or changes nothing of it, also while other threads iterate. A search that
  ends without the key is where the work is: the last node may be an old copy when the result is
  used, but the result is taken when the copy is read.
* `LinearizableWithoutIterators` and `TypesWithoutIterators`, the refinement and the types for
  programs without `ct_iter_goto` (`NoGoto`).

With iterators the refinement is false for some instances (findings 4 and 6), and that an
iterator's copies have the right kinds depends on where it is moved when its next leaf has
been split; both stay with TLC.

`ConcurrentTrieOrder` and `ConcurrentTrieVerified` are about what `ct_verify_trie` looks at between
calls, and need no restriction of the programs. While threads insert, the leaf list is never just the sorted list of the leaves:
`split_leaf` writes a jump or bitmap node over a leaf that the list still leads to, `create_leaf`
links a leaf before its bitmap tells of it, and `propagate_max_leaf` corrects one ancestor at a
time. `OrderInv` says what holds instead. Names are ordered as the leaves they lead to (`Before`: the
first symbol in which they differ). `Listed` are the leaves in the trie and those linked but not yet
marked.

* `ListInv`: `next_leaf` of a listed leaf, and of `min_leaf`, is the first listed leaf after it;
  or it is the name that a thread between the two writes of a split has just overwritten, and
  this thread has the leaf locked.
* `DirtyInv`: a leaf is dirty exactly while a writer has it as its predecessor.
* `MaxInv`: `max_leaf` of a node is the largest leaf below it, unless a thread that has the node
  locked is on its way up from a new leaf and has not come to this node yet (`Stale`).
* `PlaceInv`: the target of a writer with a clean predecessor lies between this and the leaf after it.
  For this the lock on the predecessor must fail if an insert came in between: its `next_leaf`
  would be another, hence its sequence number too. That the predecessor is the right one
  when it is found follows from `MaxInv` and from the path, which the writer has locked as far as
  it used it.
* `SplitInv`: what others add below a split leaf before its two leaves are linked comes after the first.

The parts need each other: which leaf is the predecessor is read from `max_leaf`, which nodes are
out of date from the locks and the path, and that nobody else inserts in the gap
from the predecessor's lock. There is one lemma per action again (in the first
module for the steps that insert nothing, the search for the predecessor and `propagate_max_leaf`, in
the second for the others); `OrderHolds` combines them, and
`QuietVerified` draws the conclusion for states without calls: a leaf for every key, in the list
in the order of the keys (`LessIsBefore`: the order of names is that of keys), `max_leaf`
exact, nothing dirty or locked.

Assumptions on the constants of `ConcurrentTrie`: keys are sequences of non-zero symbols
(`SYMBOL_END` is not one of them), programs call the functions of the interface with keys of `Keys`,
and `NULL`, `Pending` and `MinLeaf` are none of the values they are distinguished from
(`LocatorAssumption`: nor is `NULL` the place of a node that `pred_locator` returns).

Model-checked only: liveness (fairness and `ENABLED` are outside the prover's
reach); the refinement of `OrderedIndex`; of `ConcurrentTrie`
the iterators (`ResyncFindsLastKey`, and `Linearizable` and
`TypeOK` for programs with them); the packed representations (what their recursive functions
compute for every input would need induction over data); `CuckooTrie`, whose descent and splits are folds over
paths of any length; and of `CuckooTable` the properties `WritesAreLocked`, `NothingLost`,
`RetriesStartClean`, `CopiesAreLocked` and `FlagTellsBucket` with store buffers. There the arguments
above break down at the step that finding 1 is about (a read lock looks fresh although a store
to its bucket is under way), so a proof would have to do without unique colors.
`LookupFindsNode` is not proved because it is false for some instances (finding 2).

## 6. Findings

Findings 1 to 4 are shown by the violation runs of `PROJECT.json`, 5 to 7 by the three other
configurations of section 4.

1. On x86 the two `add_entry` calls that write to the two buckets of a pair can
   each perform the load of `read_unlock_bucket` before the other's stores are
   visible, and both keep the same color (store buffering). Without store buffers
   `ColorsUnique` holds (`OrderedColorsUnique`): the check itself is right, a full fence
   before it is missing. In this state the roll-back of an insert of several nodes can find
   the other thread's entry; the buffered scenario of `table_writes` has inserts of one
   node, so `WritesAreLocked` is not checked there against this.
2. `find_entry_in_pair_by_color` goes to the secondary bucket also when the primary
   one merely changed; there it can find an entry of the same color that its
   `add_entry` is about to withdraw, and returns the wrong node.
3. When `split_jump_node` splits a jump node at its last symbol, the child of the jump
   becomes the child of the new bitmap and gets its color as parent color. The child is
   found before, and the `add_entry` that creates the bitmap may relocate it; the parent
   color is then written through the old address (`main.c:1678`) into whatever entry is
   there now, and the child is not found through the bitmap. `trie_moved_child` needs three inserts
   in a table with room. In the instance of `trie_operations` (one tag) neither this address
   nor that of finding 5 gets stale, so the other properties are checked apart from them.
4. `get_predecessor_atomic` refuses a dirty predecessor, except for `min_leaf`
   (`main_vectorized.c:1038`, `main.c:748`). While an insert has linked a new smallest leaf
   behind `min_leaf` and not yet marked it in its bitmap, `ct_iter_goto(key)` finds no child
   left of its path, takes `min_leaf` and advances to the new leaf, which is below `key`.
   `concurrent_smallest` shows it with three keys. In the run `concurrent` threads with an
   iterator start after the smallest key is in the trie, so its properties are checked apart from
   this and from finding 6.
5. `split_leaf` sets the parent color of the maximal leaf at the address it had when it was
   added (`main.c:1499`), but the bitmap and the path nodes are added in between with no immovable entry and
   may relocate it. In `TrieMovedLeaf.cfg` the third insert moves the leaf to its secondary bucket;
   the bitmap, by then in its old cell, gets the parent color instead, and the leaf keeps
   its old one.
6. Where the path of `ct_iter_goto` has no bitmap because the root is a leaf, the function reads
   `min_leaf`, whose `next_leaf` is taken for the root, and validates `min_leaf`
   (`main_vectorized.c:2574`); the comment above says that the root is checked. In `ConcurrentRoot.cfg`
   an insert of a smaller key runs from beginning to end between the read of the root and that
   of `min_leaf`. Nothing is dirty then and the iterator reports the smaller key. It is
   not the half-done insert of finding 4: the dirty check would not help.
7. `ct_mtdbg_set_enabled` switches the scheduler off and broadcasts without the mutex
   (`mt_debug.c:138`), so a thread between its test and its wait misses the broadcast and nobody
   wakes it again. In `MtDebugSwitchOff.cfg` this is the reader of `mt_insert_lookup`, which is
   then never joined; only debug builds are affected. That reader also returns without `ct_mtdbg_thread_done`, so the
   turn may stay with it. `TestsEnd` names these two ends and shows that there is no other.

Further observations.

* The assertion after the release loop of `relocate_entry` (`main.c:1024`) does not hold
  when an upgrade in the middle of the path failed: the loop then stops at that bucket and
  not at the start of the queue. The locks released are the right ones
  (`RelocationReleasesLocks`); only debug builds are affected.
* An iterator may report a key before a lookup finds it, because `create_leaf` links the
  leaf before it marks it in the bitmap. `ConcurrentIndex` allows it.
* `copy_bits` copies a byte more than asked when the length is a whole number of bytes, and
  its last statement is never reached. The extra byte stays within the node's own bits
  (`NodeKeepsContents`).
* The `END` symbol of a key of `MAX_KEY_BYTES` is one past `key_symbols`, and its hash one past
  `prefix_hashes`; they fall on an alignment gap and on `prefetch_prefix_hash`, which holds
  the same value then. `path_nodes` in `split_leaf` has one entry less than two longest keys that
  differ in their last symbols only would need.

Two comments say more than the code does, without harm. `read_unlock_bucket`
"succeeds if the bucket didn't change since it was locked" (`atomics.c:156`), but a read lock
taken in the middle of a write validates until that write ends;
`upgrade_bucket_lock` is not affected (`UpgradeKeepsFresh`), and of two `add_entry`
calls that meet this way the one that began to write first sees the other (`OrderedColorsUnique` in
`table_writes`, where a counter can be read in the middle of a write). The comment in
`ct_iter_goto` (`main.c:2241`) expects an iterator to notice a leaf added behind its
position; the iterator follows the `next_leaf` of its copy and passes by it, which
`OrderedIndex` allows.

## 7. Hazards

`PROJECT.json` lists them with the properties that cover them. Not covered by a property:
the missed signal of finding 7 (the code does go wrong there),
nodes left behind in a full table (results after `S_OVERFLOW` are undefined), the
wrap-around of the 24-bit sequence number (an assumption of the models), and the size of `path_nodes` for two longest keys (arithmetic on the
constants; the keys of the models are shorter).

## 8. Not modelled

* The public structs of `cuckoo_trie.h` and the 48-bit pointers and locators of
  `cuckoo_trie_internal.h`: locators and key-value pointers are abstract values.
* Statistics counters and their printing: nothing reads them.
* Allocation and huge pages, and `ct_free`: system calls; `ct_alloc` appears as `Init`.
* Random numbers, datasets and benchmarks: they make workloads and have no part in the
  index. The tests appear as the programs of `MtDebug` and as the source of properties.
* Prefetching has no effect on state; the build without `MULTITHREADING` and the one with
  `NO_LINKED_LIST` are left out.
* Concurrent calls down to the cells of the table: `CuckooTrie` with interleaving at the
  grain of `CuckooTable` is out of TLC's reach. `CuckooTable` leaves open what the trie does
  between its `add_entry` calls, and `ConcurrentTrie` takes over that a node is found and
  written as a whole; findings 1 to 3 and 5 are where this does not hold.
