---------------------------- MODULE CuckooTable -----------------------------
(***************************************************************************)
(* The concurrent hash table the trie nodes live in (main.c): add_entry,   *)
(* relocate_entry, the searches by color, and the roll-back of an insert   *)
(* that has to retry.                                                      *)
(*                                                                         *)
(* A writer runs inserts.  An insert adds the nodes of a plan one after    *)
(* the other, as split_leaf, split_jump_node and create_leaf do; when all  *)
(* are in the table they are published and all locks are released.  If an  *)
(* add_entry has to retry, the nodes already added are removed again.  A   *)
(* reader looks published nodes up by their locators.                      *)
(*                                                                         *)
(* An entry keeps the header fields the table works with.  Its id stands   *)
(* for the rest of the entry, and home, its primary bucket, is history:    *)
(* the code does not store it.                                             *)
(*                                                                         *)
(* Sequence numbers are abstracted to what they decide: whether a bucket   *)
(* was written since a counter was read (the handle is stale), and whether *)
(* a write is in progress (busy).  Atomics models the numbers themselves.  *)
(***************************************************************************)
EXTENDS Hash, Sequences, SequencesExt

CONSTANTS
  Writers, Readers,
  CUCKOO_BUCKET_SIZE,
  RELOCATE_QUEUE_SIZE,
  Scenarios,      \* the workloads and machines to look at, see below
  None

(* plans: the node hashes an insert may add, as sequences.  inserts, a     *)
(* bound: how many a writer makes.  buffered: stores wait in a FIFO        *)
(* buffer, as on x86, or not.                                              *)

Threads == Writers \cup Readers
CellNumbers == 0..(CUCKOO_BUCKET_SIZE - 1)
Cells == Buckets \X CellNumbers
BucketOf(p) == p[1]

MAX_VALID_COLOR == 2 * CUCKOO_BUCKET_SIZE
INVALID_COLOR == MAX_VALID_COLOR + 1

(* The counters a thread has read and will compare: by the find functions, *)
(* for a possible free cell, by add_entry, and per position of the queue   *)
(* (positions start at 1, and position 1 holds the primary bucket).        *)
FIND == -2
FREE == -1
SECONDARY == 0
PRIMARY == 1
Handles == FIND..RELOCATE_QUEUE_SIZE

ASSUME ScenariosAssumption ==
  \A s \in Scenarios : s.plans \subseteq Seq(Hashes) \ {<<>>} /\ s.inserts \in Nat /\ s.buffered \in BOOLEAN
ASSUME QueueSizeAssumption == RELOCATE_QUEUE_SIZE \in Nat \ {0}
ASSUME CellsAssumption == CUCKOO_BUCKET_SIZE \in Nat \ {0}
ASSUME ThreadsAssumption == Writers \cap Readers = {}

(* Nodes are named by the insert that adds them and their number in it.    *)
NodeIds == Writers \X Nat \X (Nat \ {0})
RootId == <<None, 0>>

(* None is no cell, no bucket and no name of a node.                       *)
ASSUME NoneAssumption == None \notin Cells /\ None \notin Buckets /\ None \notin NodeIds /\ None # RootId

VARIABLES
  scenario,      \* never changes
  cells,         \* cell -> entry
  busy,          \* bucket -> its sequence number is odd
  lock,          \* bucket -> lock byte
  buf,           \* thread -> stores that have not reached memory
  pc,            \* thread -> what it does next
  op,            \* writer -> its insert: number, plan, locators of added nodes
  add,           \* writer -> locals of add_entry
  rel,           \* writer -> locals of relocate_entry
  write,         \* thread -> arguments of write_entry and where it returns
  find,          \* thread -> locals of find_entry_in_pair_by_color
  rl,            \* thread -> handle -> bucket
  stale,         \* thread -> handles whose bucket was written since
  up,            \* thread -> the handle upgrade_bucket_lock was given
  bucket_refs,   \* thread -> bucket -> bucket references
  entry_locks,   \* thread -> write-locked cells
  live           \* published nodes: [id, loc]

memory == <<scenario, cells, busy, lock, buf>>
handles == <<rl, stale>>
locks == <<bucket_refs, entry_locks>>
vars == <<memory, handles, locks, pc, op, add, rel, write, find, up, live>>

Unused == [id |-> None, home |-> 0, tag |-> 0, color |-> INVALID_COLOR, secondary |-> FALSE]
Root == [id |-> RootId, home |-> 0, tag |-> 0, color |-> 0, secondary |-> FALSE]
RootCell == <<0, 0>>

Goto(t, label) == pc' = [pc EXCEPT ![t] = label]

-----------------------------------------------------------------------------
(* Shared memory.                                                          *)

Pending(t, kind, b) == {i \in DOMAIN buf[t] : buf[t][i].kind = kind /\ buf[t][i].bucket = b}

(* What thread t reads: its own latest pending store, else memory.         *)
Seen(t, p) ==
  LET mine == {i \in Pending(t, "cell", BucketOf(p)) : buf[t][i].cell = p}
  IN  IF mine = {} THEN cells[p] ELSE buf[t][Max(mine)].entry

BusySeen(t, b) == busy[b] # (Cardinality(Pending(t, "seq", b)) % 2 = 1)
LockSeen(t, b) == IF Pending(t, "unlock", b) = {} THEN lock[b] ELSE 0

HandlesOn(u, b) == {h \in Handles : rl[u][h] = b}

(* Store s reaches memory and makes the handles of these threads stale.    *)
Reach(s) ==
  /\ cells' = IF s.kind = "cell" THEN [cells EXCEPT ![s.cell] = s.entry] ELSE cells
  /\ busy' = IF s.kind = "seq" THEN [busy EXCEPT ![s.bucket] = ~@] ELSE busy
  /\ lock' = IF s.kind = "unlock" THEN [lock EXCEPT ![s.bucket] = 0] ELSE lock
  /\ UNCHANGED scenario

Outdate(s, seenBy) ==
  stale' = [u \in Threads |-> IF s.kind = "seq" /\ u \in seenBy
                                THEN stale[u] \cup HandlesOn(u, s.bucket) ELSE stale[u]]

Store(t, kind, p, e) ==
  LET s == [kind |-> kind, bucket |-> BucketOf(p), cell |-> p, entry |-> e]
  IN  IF scenario.buffered
        THEN /\ buf' = [buf EXCEPT ![t] = Append(@, s)]
             /\ Outdate(s, {t})
             /\ UNCHANGED <<scenario, cells, busy, lock>>
        ELSE /\ Reach(s)
             /\ Outdate(s, Threads)
             /\ UNCHANGED buf

(* The oldest store of a thread leaves its buffer.                         *)
Drain(t) ==
  /\ buf[t] # <<>>
  /\ Reach(Head(buf[t]))
  /\ Outdate(Head(buf[t]), Threads \ {t})
  /\ buf' = [buf EXCEPT ![t] = Tail(@)]
  /\ UNCHANGED <<rl, locks, pc, op, add, rel, write, find, up, live>>

ReadCounter(t, h, b) ==
  /\ rl' = [rl EXCEPT ![t][h] = b]
  /\ stale' = [stale EXCEPT ![t] = @ \ {h}]

Fresh(t, h) == h \notin stale[t]

-----------------------------------------------------------------------------
(* Locks: what the lock manager of a thread counts (see Atomics).          *)

Held(t, b) == bucket_refs[t][b] > 0 \/ \E p \in entry_locks[t] : BucketOf(p) = b

AddBucketRef(t, b) == bucket_refs' = [bucket_refs EXCEPT ![t][b] = @ + 1]

release_bucket_lock(t, b) ==
  /\ bucket_refs' = [bucket_refs EXCEPT ![t][b] = @ - 1]
  /\ IF bucket_refs[t][b] = 1 /\ ~\E p \in entry_locks[t] : BucketOf(p) = b
       THEN Store(t, "unlock", <<b, 0>>, Unused)
       ELSE UNCHANGED <<memory, stale>>

-----------------------------------------------------------------------------
(* write_entry: the counter turns odd, the header qword is stored, the     *)
(* counter turns even.  Then the caller continues at write.then.           *)

CallWrite(t, p, e, then) ==
  /\ write' = [write EXCEPT ![t] = [cell |-> p, entry |-> e, then |-> then]]
  /\ Goto(t, "write1")

write_entry(t) ==
  /\ \/ pc[t] = "write1" /\ Store(t, "seq", write[t].cell, Unused) /\ Goto(t, "write2")
     \/ pc[t] = "write2" /\ Store(t, "cell", write[t].cell, write[t].entry) /\ Goto(t, "write3")
     \/ pc[t] = "write3" /\ Store(t, "seq", write[t].cell, Unused) /\ Goto(t, write[t].then)
  /\ UNCHANGED <<rl, locks, op, add, rel, write, find, up, live>>

-----------------------------------------------------------------------------
(* find_entry_in_pair_by_color: search the primary bucket, then the        *)
(* secondary one, until an attempt succeeds.                               *)

CallFind(t, node, then) ==
  /\ find' = [find EXCEPT ![t] = [node |-> node, secondary |-> FALSE, lock |-> 0,
                                  cell |-> None, id |-> None, then |-> then]]
  /\ Goto(t, "find1")

FindBucket(t) ==
  LET loc == find[t].node.loc
  IN  IF find[t].secondary THEN mix_bucket(loc.bucket, loc.tag) ELSE loc.bucket

(* Mutant: after the first miss only the secondary bucket is searched.     *)
NeverBackToPrimary(t) ==
  /\ find' = [find EXCEPT ![t].secondary = TRUE]
  /\ Goto(t, "find1")

(* find_entry_in_bucket_by_color returned NULL.                            *)
NotInBucket(t) ==
  /\ find' = [find EXCEPT ![t].secondary = ~@]
  /\ Goto(t, "find1")

(* Mutant: the color is not compared.                                      *)
MatchesTagOnly(t, p) ==
  Seen(t, p).tag = find[t].node.loc.tag /\ Seen(t, p).secondary = find[t].secondary

Matches(t, p) ==
  LET e == Seen(t, p)
      loc == find[t].node.loc
  IN  e.tag = loc.tag /\ e.color = loc.color /\ e.secondary = find[t].secondary

FindReadCounter(t) ==
  /\ pc[t] = "find1"
  /\ IF BusySeen(t, FindBucket(t))
       THEN NotInBucket(t) /\ UNCHANGED handles
       ELSE /\ ReadCounter(t, FIND, FindBucket(t))
            /\ find' = [find EXCEPT ![t].lock = LockSeen(t, FindBucket(t))]
            /\ Goto(t, "find2")
  /\ UNCHANGED <<memory, locks, op, add, rel, write, up, live>>

(* The first matching cell is copied.                                      *)
FindScan(t) ==
  /\ pc[t] = "find2"
  /\ LET found == {c \in CellNumbers : Matches(t, <<FindBucket(t), c>>)}
         p == <<FindBucket(t), Min(found)>>
     IN  IF found = {}
           THEN NotInBucket(t)
           ELSE /\ find' = [find EXCEPT ![t].cell = p, ![t].id = Seen(t, p).id]
                /\ Goto(t, "find3")
  /\ UNCHANGED <<memory, handles, locks, op, add, rel, write, up, live>>

(* The copy counts if the whole word, lock byte included, is as before.    *)
FindCheckCounter(t) ==
  /\ pc[t] = "find3"
  /\ IF Fresh(t, FIND) /\ LockSeen(t, FindBucket(t)) = find[t].lock
       THEN Goto(t, find[t].then) /\ UNCHANGED find
       ELSE NotInBucket(t)
  /\ UNCHANGED <<memory, handles, locks, op, add, rel, write, up, live>>

find_entry_in_pair_by_color(t) == FindReadCounter(t) \/ FindScan(t) \/ FindCheckCounter(t)

-----------------------------------------------------------------------------
(* add_entry.                                                              *)

NodeNumber(t) == Len(op[t].added) + 1
NodeHash(t) == op[t].plan[NodeNumber(t)]
NodeId(t) == <<t, op[t].inserts, NodeNumber(t)>>
Primary(t) == NodeHash(t).bucket
Secondary(t) == mix_bucket(NodeHash(t).bucket, NodeHash(t).tag)

find_free_cell_in_bucket(t, b) ==
  LET free == {c \in CellNumbers : Seen(t, <<b, c>>).id = None}
  IN  IF free = {} THEN None ELSE <<b, Min(free)>>

ReadLockPrimary(t) ==
  /\ pc[t] = "add"
  /\ ReadCounter(t, PRIMARY, Primary(t))
  /\ Goto(t, "add2")
  /\ UNCHANGED <<memory, locks, op, add, rel, write, find, up, live>>

ReadLockSecondary(t) ==
  /\ pc[t] = "add2"
  /\ ReadCounter(t, SECONDARY, Secondary(t))
  /\ Goto(t, "scan_primary")
  /\ UNCHANGED <<memory, locks, op, add, rel, write, find, up, live>>

CallUpgrade(t, h) == up' = [up EXCEPT ![t] = h] /\ Goto(t, "upgrade")

(* The entry goes to this cell; the other bucket of the pair is only read. *)
ChooseCell(t, p, handle) ==
  /\ add' = [add EXCEPT ![t] = [result |-> p, handle |-> handle]]
  /\ CallUpgrade(t, handle)

ScanPrimary(t) ==
  /\ pc[t] = "scan_primary"
  /\ LET p == find_free_cell_in_bucket(t, Primary(t))
     IN  \/ p # None /\ ChooseCell(t, p, PRIMARY)
         \/ p = None /\ Goto(t, "scan_secondary") /\ UNCHANGED <<add, up>>
  /\ UNCHANGED <<memory, handles, locks, op, rel, write, find, live>>

(* Both buckets full: result None, a cell of the primary is to be freed.   *)
ScanSecondary(t) ==
  /\ pc[t] = "scan_secondary"
  /\ LET p == find_free_cell_in_bucket(t, Secondary(t))
     IN  ChooseCell(t, p, IF p = None THEN PRIMARY ELSE SECONDARY)
  /\ UNCHANGED <<memory, handles, locks, op, rel, write, find, live>>

AlternateHandle(t) == IF add[t].handle = PRIMARY THEN SECONDARY ELSE PRIMARY

(* Mutant: one above the largest color in the pair.                        *)
ColorAboveAll(t) ==
  Max({Seen(t, p).color : p \in {Primary(t), Secondary(t)} \X CellNumbers}) + 1

(* The smallest color no cell of the pair has.                             *)
unused_color_in_pair(t) ==
  LET used == {Seen(t, p).color : p \in {Primary(t), Secondary(t)} \X CellNumbers}
  IN  Min((0..(INVALID_COLOR + 1)) \ used)

(* Mutant: the new entry is not locked.                                    *)
PutUnlocked(t) ==
  /\ pc[t] = "put"
  /\ CallWrite(t, add[t].result,
               [id |-> NodeId(t), home |-> Primary(t), tag |-> NodeHash(t).tag,
                color |-> unused_color_in_pair(t), secondary |-> add[t].handle = SECONDARY],
               "read_unlock")
  /\ UNCHANGED <<memory, handles, locks, op, add, rel, find, up, live>>

(* lock is 0 only for the tail of a split jump node, added last.           *)
PutEntry(t) ==
  /\ pc[t] = "put"
  /\ \E lk \in BOOLEAN :
       /\ lk \/ NodeNumber(t) = Len(op[t].plan)
       /\ entry_locks' = IF lk THEN [entry_locks EXCEPT ![t] = @ \cup {add[t].result}]
                               ELSE entry_locks
  /\ CallWrite(t, add[t].result,
               [id |-> NodeId(t), home |-> Primary(t), tag |-> NodeHash(t).tag,
                color |-> unused_color_in_pair(t), secondary |-> add[t].handle = SECONDARY],
               "read_unlock")
  /\ UNCHANGED <<memory, handles, bucket_refs, op, add, rel, find, up, live>>

AddedNode(t) ==
  [id |-> NodeId(t),
   loc |-> [bucket |-> Primary(t), tag |-> NodeHash(t).tag, color |-> write[t].entry.color]]

(* Mutant: the entry is kept whatever happened to the other bucket.        *)
AcceptAlways(t) ==
  /\ pc[t] = "read_unlock"
  /\ op' = [op EXCEPT ![t].added = Append(@, AddedNode(t))]
  /\ Goto(t, "added")
  /\ UNCHANGED <<memory, handles, locks, add, rel, write, find, up, live>>

(* read_unlock_bucket on the alternate bucket: if it changed, another      *)
(* thread may have put the same color there, and the entry goes again.     *)
ReadUnlock(t) ==
  /\ pc[t] = "read_unlock"
  /\ IF Fresh(t, AlternateHandle(t))
       THEN /\ op' = [op EXCEPT ![t].added = Append(@, AddedNode(t))]
            /\ Goto(t, "added")
            /\ UNCHANGED write
       ELSE /\ CallWrite(t, add[t].result, Unused, "withdrawn")
            /\ UNCHANGED op
  /\ UNCHANGED <<memory, handles, locks, add, rel, find, up, live>>

(* add_entry releases the bucket and returns SI_OK or SI_RETRY.            *)
AddReturn(t) ==
  /\ \/ pc[t] = "added" /\ Goto(t, IF NodeNumber(t) > Len(op[t].plan) THEN "publish" ELSE "add")
     \/ pc[t] = "withdrawn" /\ Goto(t, "undo")
  /\ release_bucket_lock(t, BucketOf(add[t].result))
  /\ UNCHANGED <<rl, entry_locks, op, add, rel, write, find, up, live>>

-----------------------------------------------------------------------------
(* upgrade_bucket_lock, called for the bucket of add_entry, for the bucket *)
(* with the free cell, and for the buckets on the path to it.              *)

UpgradeBucket(t) == rl[t][up[t]]

(* On the path: one more bucket locked, and the next one towards the start *)
(* of the queue; with all locked, the moves begin at its other end.        *)
UpgradePath(t) ==
  LET next == IF up[t] = FREE THEN rel[t].pos ELSE rel[t].queue[up[t]].parent
      locked == [rel EXCEPT ![t].locked = @ + 1, ![t].walk = next]
  IN  IF next = 1
        THEN /\ rel' = [locked EXCEPT ![t].walk = rel[t].pos]
             /\ Goto(t, "move")
             /\ UNCHANGED up
        ELSE rel' = locked /\ CallUpgrade(t, next)

UpgradeOk(t) ==
  IF up[t] \in {PRIMARY, SECONDARY}
    THEN Goto(t, IF add[t].result = None THEN "relocate" ELSE "put") /\ UNCHANGED <<rel, up>>
    ELSE UpgradePath(t)

(* Mutant: the locks already taken on the path are kept.                   *)
UpgradeFailedKeepsLocks(t) ==
  /\ Goto(t, IF up[t] \in {PRIMARY, SECONDARY} THEN "undo" ELSE "relocate_failed")
  /\ UNCHANGED <<rel, up>>

UpgradeFailed(t) ==
  /\ Goto(t, CASE up[t] \in {PRIMARY, SECONDARY} -> "undo"
               [] up[t] = FREE                   -> "relocate_failed"
               [] OTHER                          -> "release_free")
  /\ UNCHANGED <<rel, up>>

(* The bucket is this thread's already.                                    *)
UpgradeHeld(t) ==
  /\ pc[t] = "upgrade"
  /\ Held(t, UpgradeBucket(t))
  /\ \/ Fresh(t, up[t]) /\ AddBucketRef(t, UpgradeBucket(t)) /\ UpgradeOk(t)
     \/ ~Fresh(t, up[t]) /\ UpgradeFailed(t) /\ UNCHANGED bucket_refs
  /\ UNCHANGED <<memory, handles, entry_locks, op, add, write, find, live>>

(* The exchange also waits for the thread's stores.                        *)
UpgradeTake(t) ==
  /\ pc[t] = "upgrade"
  /\ ~Held(t, UpgradeBucket(t))
  /\ buf[t] = <<>>
  /\ \/ /\ lock[UpgradeBucket(t)] = 0
        /\ lock' = [lock EXCEPT ![UpgradeBucket(t)] = 1]
        /\ AddBucketRef(t, UpgradeBucket(t))
        /\ Goto(t, "upgrade_check")
        /\ UNCHANGED <<rel, up>>
     \/ /\ lock[UpgradeBucket(t)] = 1
        /\ UpgradeFailed(t)
        /\ UNCHANGED <<lock, bucket_refs>>
  /\ UNCHANGED <<scenario, cells, busy, buf, handles, entry_locks, op, add, write, find, live>>

(* Mutant: the read lock is not compared once the write lock is taken.     *)
UpgradeUnchecked(t) ==
  /\ pc[t] = "upgrade_check"
  /\ UpgradeOk(t)
  /\ UNCHANGED <<memory, handles, locks, op, add, write, find, live>>

UpgradeCheck(t) ==
  /\ pc[t] = "upgrade_check"
  /\ \/ Fresh(t, up[t]) /\ UpgradeOk(t) /\ UNCHANGED <<memory, stale, bucket_refs>>
     \/ ~Fresh(t, up[t]) /\ UpgradeFailed(t) /\ release_bucket_lock(t, UpgradeBucket(t))
  /\ UNCHANGED <<rl, entry_locks, op, add, write, find, live>>

upgrade_bucket_lock(t) == UpgradeHeld(t) \/ UpgradeTake(t) \/ UpgradeCheck(t)

-----------------------------------------------------------------------------
(* relocate_entry: a breadth-first search for a free cell, then one move   *)
(* per bucket on the path to it, from the free cell back to the primary    *)
(* bucket of add_entry.  The callers choose which cell must not move.      *)

Relocate(t) ==
  /\ pc[t] = "relocate"
  /\ \E p \in Cells \cup {None} :
       rel' = [rel EXCEPT ![t] =
                 [immovable |-> p, queue |-> <<[bucket |-> Primary(t), parent |-> 0, child |-> 0]>>,
                  pos |-> 1, i |-> 0, child_bucket |-> 0, free |-> None,
                  locked |-> 0, walk |-> 0, child |-> 0, ok |-> FALSE]]
  /\ Goto(t, "search")
  /\ UNCHANGED <<memory, handles, locks, op, add, write, find, up, live>>

SearchCell(t) == <<rel[t].queue[rel[t].pos].bucket, rel[t].i>>
Queued(t, b) == \E j \in DOMAIN rel[t].queue : rel[t].queue[j].bucket = b

(* The next cell of the bucket at queue_pos, or the next bucket.           *)
SearchNext(t, r) ==
  LET last == r.i + 1 = CUCKOO_BUCKET_SIZE
  IN  rel' = [rel EXCEPT ![t] = [r EXCEPT !.i = IF last THEN 0 ELSE r.i + 1,
                                          !.pos = IF last THEN r.pos + 1 ELSE r.pos]]

(* Look at the entry of a full bucket and at its alternate bucket.         *)
SearchExamine(t) ==
  /\ pc[t] = "search"
  /\ rel[t].pos <= Len(rel[t].queue)
  /\ LET p == SearchCell(t)
         b == alternate_bucket(Seen(t, p), BucketOf(p))
     IN  \/ /\ p = rel[t].immovable \/ p = RootCell \/ Queued(t, b)
            /\ SearchNext(t, rel[t])
            /\ UNCHANGED pc
         \/ /\ ~(p = rel[t].immovable \/ p = RootCell \/ Queued(t, b))
            /\ rel' = [rel EXCEPT ![t].child_bucket = b]
            /\ Goto(t, "search_lock")
  /\ UNCHANGED <<memory, handles, locks, op, add, write, find, up, live>>

SearchReadLock(t) ==
  /\ pc[t] = "search_lock"
  /\ ReadCounter(t, FREE, rel[t].child_bucket)
  /\ Goto(t, "search_scan")
  /\ UNCHANGED <<memory, locks, op, add, rel, write, find, up, live>>

(* A full bucket is queued together with its read lock.                    *)
SearchScan(t) ==
  /\ pc[t] = "search_scan"
  /\ LET p == find_free_cell_in_bucket(t, rel[t].child_bucket)
         n == Len(rel[t].queue) + 1
         next == [bucket |-> rel[t].child_bucket, parent |-> rel[t].pos, child |-> rel[t].i]
     IN  \/ /\ p = None /\ n <= RELOCATE_QUEUE_SIZE
            /\ SearchNext(t, [rel[t] EXCEPT !.queue = Append(@, next)])
            /\ rl' = [rl EXCEPT ![t][n] = rel[t].child_bucket]
            /\ stale' = [stale EXCEPT ![t] = IF Fresh(t, FREE) THEN @ \ {n} ELSE @ \cup {n}]
            /\ Goto(t, "search")
            /\ UNCHANGED up
         \/ /\ p = None /\ n > RELOCATE_QUEUE_SIZE
            /\ SearchNext(t, rel[t])
            /\ Goto(t, "search")
            /\ UNCHANGED <<handles, up>>
         \/ /\ p # None
            /\ rel' = [rel EXCEPT ![t].free = p, ![t].child = rel[t].i]
            /\ CallUpgrade(t, FREE)
            /\ UNCHANGED handles
  /\ UNCHANGED <<memory, locks, op, add, write, find, live>>

(* SI_FAIL: the table is full.  Nodes already added are left behind.       *)
SearchFailed(t) ==
  /\ pc[t] = "search"
  /\ rel[t].pos > Len(rel[t].queue)
  /\ release_bucket_lock(t, Primary(t))
  /\ Goto(t, "release")
  /\ UNCHANGED <<rl, entry_locks, op, add, rel, write, find, up, live>>

Occupied(t) == <<rel[t].queue[rel[t].walk].bucket, rel[t].child>>

(* Mutant: the secondary flag of a moved entry is not changed.             *)
MoveWithOldFlag(t) ==
  /\ pc[t] = "move"
  /\ CallWrite(t, rel[t].free, Seen(t, Occupied(t)), "moved")
  /\ UNCHANGED <<memory, handles, locks, op, add, rel, find, up, live>>

(* Copy the occupied cell to the free one, for its other bucket.           *)
MoveEntry(t) ==
  /\ pc[t] = "move"
  /\ LET e == Seen(t, Occupied(t))
     IN  CallWrite(t, rel[t].free, [e EXCEPT !.secondary = ~@], "moved")
  /\ UNCHANGED <<memory, handles, locks, op, add, rel, find, up, live>>

move_entry_lock(t, dst, src) ==
  entry_locks' = IF src \in entry_locks[t]
                   THEN [entry_locks EXCEPT ![t] = (@ \ {src}) \cup {dst}] ELSE entry_locks

(* Mutant: the freed cell is not marked unused.                            *)
MoveLeavesCopy(t) ==
  /\ pc[t] = "moved"
  /\ move_entry_lock(t, rel[t].free, Occupied(t))
  /\ IF rel[t].walk = 1
       THEN /\ add' = [add EXCEPT ![t].result = Occupied(t)]
            /\ rel' = [rel EXCEPT ![t].ok = TRUE]
            /\ Goto(t, "release_free")
       ELSE LET q == rel[t].queue[rel[t].walk]
            IN  /\ rel' = [rel EXCEPT ![t].free = Occupied(t), ![t].child = q.child,
                                      ![t].walk = q.parent]
                /\ Goto(t, "move")
                /\ UNCHANGED add
  /\ UNCHANGED <<memory, handles, bucket_refs, op, write, find, up, live>>

(* The cell moved away is the next one to fill, or the one that was asked  *)
(* for, which is marked unused.                                            *)
MoveNext(t) ==
  /\ pc[t] = "moved"
  /\ move_entry_lock(t, rel[t].free, Occupied(t))
  /\ IF rel[t].walk = 1
       THEN /\ CallWrite(t, Occupied(t), Unused, "release_free")
            /\ add' = [add EXCEPT ![t].result = Occupied(t)]
            /\ rel' = [rel EXCEPT ![t].ok = TRUE]
       ELSE LET q == rel[t].queue[rel[t].walk]
            IN  /\ rel' = [rel EXCEPT ![t].free = Occupied(t), ![t].child = q.child,
                                      ![t].walk = q.parent]
                /\ Goto(t, "move")
                /\ UNCHANGED <<write, add>>
  /\ UNCHANGED <<memory, handles, bucket_refs, op, find, up, live>>

(* release_locks: the bucket of the free cell, then the path.              *)
ReleaseFree(t) ==
  /\ pc[t] = "release_free"
  /\ release_bucket_lock(t, rel[t].child_bucket)
  /\ rel' = [rel EXCEPT ![t].locked = @ - 1, ![t].walk = rel[t].pos]
  /\ Goto(t, "release_path")
  /\ UNCHANGED <<rl, entry_locks, op, add, write, find, up, live>>

ReleasePath(t) ==
  /\ pc[t] = "release_path"
  /\ rel[t].locked > 0
  /\ LET q == rel[t].queue[rel[t].walk]
     IN  /\ release_bucket_lock(t, q.bucket)
         /\ rel' = [rel EXCEPT ![t].locked = @ - 1, ![t].walk = q.parent]
  /\ UNCHANGED <<rl, entry_locks, pc, op, add, write, find, up, live>>

RelocateReturn(t) ==
  /\ pc[t] = "release_path"
  /\ rel[t].locked = 0
  /\ Goto(t, IF rel[t].ok THEN "put" ELSE "relocate_failed")
  /\ UNCHANGED <<memory, handles, locks, op, add, rel, write, find, up, live>>

(* SI_RETRY: add_entry releases the primary bucket and returns.            *)
RelocateFailed(t) ==
  /\ pc[t] = "relocate_failed"
  /\ release_bucket_lock(t, Primary(t))
  /\ Goto(t, "undo")
  /\ UNCHANGED <<rl, entry_locks, op, add, rel, write, find, up, live>>

SearchStep(t) == SearchExamine(t) \/ SearchReadLock(t) \/ SearchScan(t) \/ SearchFailed(t)
MoveStep(t) == MoveEntry(t) \/ MoveNext(t)
RelocateEnd(t) == ReleaseFree(t) \/ ReleasePath(t) \/ RelocateReturn(t) \/ RelocateFailed(t)
relocate_entry(t) == Relocate(t) \/ SearchStep(t) \/ MoveStep(t) \/ RelocateEnd(t)

-----------------------------------------------------------------------------
(* The insert around add_entry.                                            *)

ChoosePlan(t) ==
  /\ \E plan \in scenario.plans : op' = [op EXCEPT ![t].plan = plan]
  /\ Goto(t, "add")
  /\ UNCHANGED <<memory, handles, locks, add, rel, write, find, up, live>>

BeginInsert(t) ==
  pc[t] = "idle" /\ t \in Writers /\ op[t].inserts < scenario.inserts /\ ChoosePlan(t)

(* What a retry finds in the trie may call for other nodes.                *)
RetryInsert(t) == pc[t] = "retry" /\ ChoosePlan(t)

(* The nodes become reachable from the trie.                               *)
Publish(t) ==
  /\ pc[t] = "publish"
  /\ live' = live \cup Range(op[t].added)
  /\ Goto(t, "release")
  /\ UNCHANGED <<memory, handles, locks, op, add, rel, write, find, up>>

(* locking_failed: remove what was added, the first node last.             *)
UndoIndex(t) == IF Len(op[t].added) > 1 THEN 2 ELSE 1

Undo(t) ==
  /\ pc[t] = "undo"
  /\ op[t].added # <<>>
  /\ CallFind(t, op[t].added[UndoIndex(t)], "remove")
  /\ UNCHANGED <<memory, handles, locks, op, add, rel, write, up, live>>

remove_entry_by_value(t) ==
  /\ pc[t] = "remove"
  /\ CallWrite(t, find[t].cell, Unused, "removed")
  /\ UNCHANGED <<memory, handles, locks, op, add, rel, find, up, live>>

Removed(t) ==
  /\ pc[t] = "removed"
  /\ op' = [op EXCEPT ![t].added = RemoveAt(@, UndoIndex(t))]
  /\ Goto(t, "undo")
  /\ UNCHANGED <<memory, handles, locks, add, rel, write, find, up, live>>

(* Mutant: the roll-back ends with nodes still in the table.               *)
RetryUnrolled(t) ==
  /\ pc[t] = "undo"
  /\ Goto(t, "release_retry")
  /\ UNCHANGED <<memory, handles, locks, op, add, rel, write, find, up, live>>

(* Nothing left to remove: SI_RETRY, the insert starts again.              *)
Retry(t) ==
  /\ pc[t] = "undo"
  /\ op[t].added = <<>>
  /\ Goto(t, "release_retry")
  /\ UNCHANGED <<memory, handles, locks, op, add, rel, write, find, up, live>>

(* Mutant: the locks are forgotten without clearing the lock bytes.        *)
ForgetLocks(t) ==
  /\ pc[t] \in {"release", "release_retry"}
  /\ \E b \in Buckets :
       /\ Held(t, b)
       /\ bucket_refs' = [bucket_refs EXCEPT ![t][b] = 0]
       /\ entry_locks' = [entry_locks EXCEPT ![t] = {p \in @ : BucketOf(p) # b}]
  /\ UNCHANGED <<memory, handles, pc, op, add, rel, write, find, up, live>>

(* release_all_locks, one store per bucket.                                *)
ReleaseAllNext(t) ==
  /\ pc[t] \in {"release", "release_retry"}
  /\ \E b \in Buckets :
       /\ Held(t, b)
       /\ Store(t, "unlock", <<b, 0>>, Unused)
       /\ bucket_refs' = [bucket_refs EXCEPT ![t][b] = 0]
       /\ entry_locks' = [entry_locks EXCEPT ![t] = {p \in @ : BucketOf(p) # b}]
  /\ UNCHANGED <<rl, pc, op, add, rel, write, find, up, live>>

NoInsert(n) == [inserts |-> n, plan |-> <<>>, added |-> <<>>]
NoWrite == [cell |-> None, entry |-> Unused, then |-> "idle"]
NoAdd == [result |-> None, handle |-> PRIMARY]
NoFind == [node |-> None, secondary |-> FALSE, lock |-> 0, cell |-> None, id |-> None, then |-> "idle"]

(* The call returns and its locals are gone.                               *)
Return(t, inserts, label) ==
  /\ op' = [op EXCEPT ![t] = NoInsert(inserts)]
  /\ add' = [add EXCEPT ![t] = NoAdd]
  /\ rel' = [rel EXCEPT ![t] = None]
  /\ write' = [write EXCEPT ![t] = NoWrite]
  /\ find' = [find EXCEPT ![t] = NoFind]
  /\ rl' = [rl EXCEPT ![t] = [h \in Handles |-> None]]
  /\ stale' = [stale EXCEPT ![t] = {}]
  /\ up' = [up EXCEPT ![t] = PRIMARY]
  /\ Goto(t, label)

InsertReturn(t) ==
  /\ ~\E b \in Buckets : Held(t, b)
  /\ \/ pc[t] = "release" /\ Return(t, op[t].inserts + 1, "idle")
     \/ pc[t] = "release_retry" /\ Return(t, op[t].inserts, "retry")
  /\ UNCHANGED <<memory, locks, live>>

(* A reader follows the locator of a published node.                       *)
BeginLookup(t) ==
  /\ pc[t] = "idle" /\ t \in Readers
  /\ \E node \in live : CallFind(t, node, "found")
  /\ UNCHANGED <<memory, handles, locks, op, add, rel, write, up, live>>

LookupReturn(t) ==
  /\ pc[t] = "found"
  /\ Return(t, 0, "idle")
  /\ UNCHANGED <<memory, locks, live>>

-----------------------------------------------------------------------------
Init ==
  /\ scenario \in Scenarios
  /\ cells = [p \in Cells |-> IF p = RootCell THEN Root ELSE Unused]
  /\ busy = [b \in Buckets |-> FALSE]
  /\ lock = [b \in Buckets |-> 0]
  /\ buf = [t \in Threads |-> <<>>]
  /\ pc = [t \in Threads |-> "idle"]
  /\ op = [t \in Threads |-> NoInsert(0)]
  /\ add = [t \in Threads |-> NoAdd]
  /\ rel = [t \in Threads |-> None]
  /\ write = [t \in Threads |-> NoWrite]
  /\ find = [t \in Threads |-> NoFind]
  /\ rl = [t \in Threads |-> [h \in Handles |-> None]]
  /\ stale = [t \in Threads |-> {}]
  /\ up = [t \in Threads |-> PRIMARY]
  /\ bucket_refs = [t \in Threads |-> [b \in Buckets |-> 0]]
  /\ entry_locks = [t \in Threads |-> {}]
  /\ live = {}

AddStep(t) ==
  \/ ReadLockPrimary(t)
  \/ ReadLockSecondary(t)
  \/ ScanPrimary(t)
  \/ ScanSecondary(t)
  \/ PutEntry(t)
  \/ ReadUnlock(t)
  \/ AddReturn(t)

add_entry(t) == AddStep(t) \/ upgrade_bucket_lock(t) \/ relocate_entry(t)

InsertEnd(t) ==
  \/ Publish(t)
  \/ Undo(t)
  \/ remove_entry_by_value(t)
  \/ Removed(t)
  \/ Retry(t)
  \/ ReleaseAllNext(t)
  \/ InsertReturn(t)
  \/ RetryInsert(t)

(* The steps of a call that has begun.                                     *)
Step(t) ==
  \/ add_entry(t)
  \/ write_entry(t)
  \/ find_entry_in_pair_by_color(t)
  \/ InsertEnd(t)
  \/ LookupReturn(t)

(* All inserts the bound allows have returned.                             *)
Terminated ==
  /\ \A t \in Threads : pc[t] = "idle" /\ buf[t] = <<>>
  /\ \A t \in Writers : op[t].inserts = scenario.inserts
  /\ UNCHANGED vars

Next ==
  \/ \E t \in Threads : BeginInsert(t) \/ BeginLookup(t) \/ Step(t) \/ Drain(t)
  \/ Terminated

Spec == Init /\ [][Next]_vars

(* A thread inside a call is not stopped for ever by the OS scheduler, and *)
(* stores do not stay in a buffer for ever.                                *)
FairSpec == Spec /\ \A t \in Threads : WF_vars(Step(t)) /\ WF_vars(Drain(t))

-----------------------------------------------------------------------------
(* Properties.                                                             *)

Locators == [bucket : Buckets, tag : Tags, color : 0..MAX_VALID_COLOR]
Nodes == [id : NodeIds, loc : Locators]
Entries == [id : NodeIds \cup {None, RootId}, home : Buckets, tag : Tags,
            color : 0..INVALID_COLOR, secondary : BOOLEAN]
Stores == [kind : {"seq", "cell", "unlock"}, bucket : Buckets, cell : Cells, entry : Entries]
Labels ==
  {"idle", "add", "add2", "scan_primary", "scan_secondary", "upgrade", "upgrade_check",
   "put", "read_unlock", "added", "withdrawn", "publish", "undo", "remove", "removed",
   "release", "release_retry", "retry", "write1", "write2", "write3", "find1", "find2", "find3",
   "found", "relocate", "search", "search_lock", "search_scan", "move", "moved",
   "release_free", "release_path", "relocate_failed"}

QueueElements == [bucket : Buckets, parent : Nat, child : CellNumbers]
Relocations ==
  [immovable : Cells \cup {None}, queue : Seq(QueueElements), pos : Nat, i : CellNumbers,
   child_bucket : Buckets, free : Cells \cup {None}, locked : Nat, walk : Nat,
   child : CellNumbers, ok : BOOLEAN]

(* Every variable has the shape of the C object it stands for.             *)
TypeOK ==
  /\ scenario \in Scenarios
  /\ cells \in [Cells -> Entries]
  /\ busy \in [Buckets -> BOOLEAN]
  /\ lock \in [Buckets -> 0..1]
  /\ buf \in [Threads -> Seq(Stores)]
  /\ pc \in [Threads -> Labels]
  /\ op \in [Threads -> [inserts : 0..scenario.inserts, plan : scenario.plans \cup {<<>>}, added : Seq(Nodes)]]
  /\ add \in [Threads -> [result : Cells \cup {None}, handle : {PRIMARY, SECONDARY}]]
  /\ rel \in [Threads -> Relocations \cup {None}]
  /\ write \in [Threads -> [cell : Cells \cup {None}, entry : Entries, then : Labels]]
  /\ find \in [Threads -> [node : Nodes \cup {None}, secondary : BOOLEAN, lock : 0..1,
                           cell : Cells \cup {None}, id : NodeIds \cup {None, RootId},
                           then : Labels]]
  /\ rl \in [Threads -> [Handles -> Buckets \cup {None}]]
  /\ stale \in [Threads -> SUBSET Handles]
  /\ up \in [Threads -> Handles]
  /\ bucket_refs \in [Threads -> [Buckets -> Nat]]
  /\ entry_locks \in [Threads -> SUBSET Cells]
  /\ live \subseteq Nodes

(* The insert of t has taken node n out of the table again.                *)
TakenOut(t, n) ==
  find[t].node = n /\ (pc[t] = "removed" \/ (pc[t] = "write3" /\ write[t].then = "removed"))

(* Nodes that add_entry has accepted and that are still to be there.       *)
Settled == live \cup UNION {{n \in Range(op[t].added) : ~TakenOut(t, n)} : t \in Writers}

(* No two nodes that add_entry has accepted share a pair and a color, so a *)
(* locator names one node.                                                 *)
ColorsUnique == \A m, n \in Settled : m.loc = n.loc => m = n

(* They do not when every store is visible at once, although the inserts   *)
(* pick their colors before they can see each other's entries.             *)
OrderedColorsUnique == ~scenario.buffered => ColorsUnique

InTable(n) ==
  \/ \E p \in Cells : cells[p].id = n.id
  \/ \E t \in Threads : \E i \in DOMAIN buf[t] : buf[t][i].entry.id = n.id

(* Whatever the relocations of all threads do, an accepted node stays in   *)
(* the table until its own insert removes it.                              *)
NothingLost == \A n \in Settled : InTable(n)

(* When an insert gives its locks back to start again, no node of its      *)
(* earlier attempts is in the table: the roll-back has found each of them  *)
(* again, wherever relocations had taken it, and an entry that add_entry   *)
(* withdraws is gone too.                                                  *)
RetriesStartClean ==
  \A t \in Writers :
    pc[t] \in {"release_retry", "retry"} =>
      \A p \in Cells : Seen(t, p).id \notin {t} \X {op[t].inserts} \X (Nat \ {0})

(* FLAG_SECONDARY_BUCKET tells in which bucket of its pair an entry is, so *)
(* alternate_bucket and the searches always compute the right one.         *)
FlagTellsBucket ==
  \A p \in Cells :
    cells[p].id # None =>
      BucketOf(p) = IF cells[p].secondary THEN mix_bucket(cells[p].home, cells[p].tag)
                                          ELSE cells[p].home

(* write_entry only writes to buckets its thread has locked: "the bucket   *)
(* must be write-locked", also for the entry remove_entry_by_value found.  *)
WritesAreLocked ==
  \A t \in Threads :
    pc[t] \in {"write1", "write2", "write3"} => Held(t, BucketOf(write[t].cell))

(* relocate_entry never moves the root, which find_root looks for at a     *)
(* fixed address, nor the entry its caller asked it to leave in place.     *)
FixedEntriesStay ==
  /\ cells[RootCell] = Root
  /\ \A t \in Writers : pc[t] = "move" => Occupied(t) # rel[t].immovable

(* A node is in two cells only while a relocation copies it, and both      *)
(* buckets stay locked until the second copy is gone.                      *)
CopiesAreLocked ==
  \A p, q \in Cells :
    p # q /\ cells[p].id # None /\ cells[p].id = cells[q].id =>
      lock[BucketOf(p)] = 1 /\ lock[BucketOf(q)] = 1

(* An insert that nobody disturbs any more returns: locks, read locks and  *)
(* colors left over from others, or a relocation through its own secondary *)
(* bucket, cost it retries but not an endless loop.                        *)
AloneFinishes ==
  \A t \in Writers :
    <>[](\A u \in Threads \ {t} : pc[u] = "idle") => []<>(pc[t] = "idle")

(* A search ends once the writers are done, wherever the node was moved.   *)
LookupsFinish ==
  \A t \in Readers : <>[](\A u \in Writers : pc[u] = "idle") => []<>(pc[t] = "idle")

(* A lookup returns the node whose locator it was given.                   *)
LookupFindsNode == \A t \in Readers : pc[t] = "found" => find[t].id = find[t].node.id

(* Whatever relocate_entry locked on its path it has released when it      *)
(* returns, also if the upgrade of one of the buckets failed: add_entry is *)
(* left with the lock of the bucket it adds to.                            *)
RelocationReleasesLocks ==
  \A t \in Writers :
    pc[t] \in {"put", "relocate_failed"} =>
      LET kept == IF pc[t] = "put" THEN BucketOf(add[t].result) ELSE Primary(t)
      IN  bucket_refs[t] = [b \in Buckets |-> IF b = kept THEN 1 ELSE 0]

(* The lock byte is a thread's until its unlock has reached memory.        *)
Owns(t, b) == Held(t, b) \/ Pending(t, "unlock", b) # {}

(* A lock byte is set exactly while one thread owns the bucket: none is    *)
(* left behind by the retries and failed upgrades, none is cleared twice.  *)
LocksHaveOneOwner ==
  \A b \in Buckets :
    /\ lock[b] = 1 <=> \E t \in Threads : Owns(t, b)
    /\ \A t, u \in Threads : Owns(t, b) /\ Owns(u, b) => t = u
=============================================================================
