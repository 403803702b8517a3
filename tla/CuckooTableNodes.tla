--------------------------- MODULE CuckooTableNodes ----------------------------
(***************************************************************************)
(* The nodes in the table, while every store is visible at once: a node    *)
(* that add_entry has accepted stays in the table with its locator, no     *)
(* other accepted node has the same one, and writes go to locked buckets.  *)
(*                                                                         *)
(* The threads read the table without locks and act on it later, so each   *)
(* needs that what it has seen still holds or that one of its read locks   *)
(* is stale: the cell it chose is free, the bucket it passed is full, the  *)
(* entry it copies is the one in the cell, the nodes it has added are      *)
(* where it locked them.  Account(t) says this of thread t, and the first  *)
(* part shows that every step keeps the account of every thread.  NodeInv  *)
(* adds what holds of the table: the names, copies and colors of its       *)
(* entries.  All of it holds together or not at all: which bucket a        *)
(* roll-back writes to depends on its node being found, this on the        *)
(* colors, and the colors on the accounts.                                 *)
(***************************************************************************)
EXTENDS CuckooTableProofs

(* A store to this cell has begun and not ended.                           *)
BeingWritten(p) == \E u \in Threads : pc[u] \in {"write2", "write3"} /\ write[u].cell = p

(* A sequence number is odd exactly during a write to its bucket.          *)
BusyInv ==
  \A b \in Buckets :
    busy[b] <=> \E u \in Threads : pc[u] \in {"write2", "write3"} /\ BucketOf(write[u].cell) = b

(* Unused cells and unused entries to be written have no valid color.      *)
EntryInv ==
  /\ \A p \in Cells : cells[p].id = None => cells[p].color = INVALID_COLOR
  /\ \A t \in Threads : write[t].entry.id = None => write[t].entry.color = INVALID_COLOR

-----------------------------------------------------------------------------
(* What a thread relies on. *)

(* The new entry is about to be stored, or is in its cell and not yet      *)
(* accepted.                                                               *)
ToBeStored(t) == Phase(t) = "read_unlock" /\ pc[t] \in {"write1", "write2"}
Tentative(t) ==
  \/ Phase(t) = "read_unlock" /\ pc[t] \in {"write3", "read_unlock"}
  \/ Phase(t) = "withdrawn" /\ pc[t] \in {"write1", "write2"}

(* add_entry has locked the bucket of the cell it will store to.           *)
CellReady(t) ==
  \/ pc[t] = "put"
  \/ ToBeStored(t)
  \/ Phase(t) \in ReleasePhases /\ rel[t].ok /\ pc[t] \notin {"write1", "write2"}

(* The cell it is going to fill is free, or its read lock is stale.        *)
FreeInv(t) ==
  /\ ForAdd(t) /\ add[t].result # None /\ Fresh(t, up[t]) /\ ~BeingWritten(add[t].result) =>
       cells[add[t].result].id = None
  /\ CellReady(t) => cells[add[t].result].id = None
  /\ ForFree(t) /\ Fresh(t, FREE) /\ ~BeingWritten(rel[t].free) => cells[rel[t].free].id = None
  /\ ForPath(t) => cells[rel[t].free].id = None

(* A moved entry: the same one, for the other bucket of its pair.          *)
Flipped(e) == [e EXCEPT !.secondary = ~e.secondary]

(* It copies the entry that is in the occupied cell.                       *)
MoveCopy(t) ==
  Phase(t) = "moved" =>
    IF pc[t] \in {"write1", "write2"} THEN write[t].entry = Flipped(cells[Occupied(t)])
                                      ELSE cells[rel[t].free] = Flipped(cells[Occupied(t)])

(* add_entry has found the primary bucket full.                            *)
PastPrimary(t) ==
  \/ Phase(t) = "scan_secondary"
  \/ add[t].handle = SECONDARY /\ (ForAdd(t) \/ Phase(t) \in {"put", "read_unlock"})

(* No cell of the bucket is free.                                          *)
Full(b) == \A c \in CellNumbers : cells[<<b, c>>].id # None

(* A cell of the bucket has just been cleared.                             *)
Clearing(b) ==
  \E u \in Threads : pc[u] = "write3" /\ BucketOf(write[u].cell) = b /\ write[u].entry.id = None

(* The bucket is still full, or the read lock on it is stale.              *)
FullInv(t) == PastPrimary(t) /\ Fresh(t, PRIMARY) => Full(Primary(t)) \/ Clearing(Primary(t))

(* The entry in its cell is the one of this insert.                        *)
TentativeInv(t) ==
  Tentative(t) =>
    /\ cells[add[t].result].id = NodeId(t)
    /\ cells[add[t].result].secondary <=> add[t].handle = SECONDARY
    /\ Phase(t) = "read_unlock" => cells[add[t].result] = write[t].entry

(* The nodes of an insert have different names, with their numbers as long *)
(* as none has been taken out.                                             *)
NamesInv(t) ==
  /\ \A i \in DOMAIN op[t].added :
       /\ op[t].added[i].id[1] = t /\ op[t].added[i].id[2] = op[t].inserts
       /\ Adding(t) \/ Phase(t) = "added" => op[t].added[i].id[3] = i
  /\ \A i, j \in DOMAIN op[t].added : op[t].added[i].id = op[t].added[j].id => i = j
  /\ Phase(t) = "release_retry" => op[t].added = <<>>

(* Until they are published they are in locked cells, except a last one.   *)
NodesLocked(t) ==
  /\ Adding(t) \/ Phase(t) \in {"added", "undo", "remove", "removed"} =>
       \A i \in DOMAIN op[t].added :
         (Phase(t) = "added" => i # Len(op[t].plan)) /\ ~TakenOut(t, op[t].added[i]) =>
           \E p \in entry_locks[t] : cells[p].id = op[t].added[i].id
  /\ Phase(t) = "read_unlock" => add[t].result \in entry_locks[t] \/ NodeNumber(t) = Len(op[t].plan)

(* The roll-back has found, or not yet found, the node it looks for.       *)
FoundOwn(t) == (Phase(t) = "remove" /\ pc[t] \in {"find3", "remove"}) \/ Phase(t) = "removed"

(* The search of a roll-back does not miss its node: the node's bucket is  *)
(* locked by the insert itself, so nothing disturbs the search there.      *)
RemoveInv(t) ==
  /\ Phase(t) \in {"remove", "removed"} => find[t].node = op[t].added[UndoIndex(t)]
  /\ Phase(t) = "remove" /\ find[t].secondary =>
       \A c \in CellNumbers : cells[<<find[t].node.loc.bucket, c>>].id # find[t].node.id
  /\ Phase(t) = "remove" /\ pc[t] \in {"find2", "find3"} =>
       /\ rl[t][FIND] = FindBucket(t)
       /\ \A c \in CellNumbers :
            cells[<<FindBucket(t), c>>].id = find[t].node.id => Fresh(t, FIND) /\ find[t].lock = 1
  /\ FoundOwn(t) => find[t].cell \in entry_locks[t]
  /\ FoundOwn(t) /\ pc[t] \notin {"write3", "removed"} => cells[find[t].cell].id = find[t].node.id

(* The cell a relocation has copied from, or is about to overwrite.        *)
Vacating(t) == Phase(t) \in MovePhases \/ (Phase(t) = "release_free" /\ pc[t] \in {"write1", "write2"})
Vacated(t) ==
  IF Phase(t) = "release_free" THEN add[t].result
  ELSE IF pc[t] \in {"write3", "moved"} THEN Occupied(t) ELSE rel[t].free

(* Its node is in another cell, and the lock of the entry has gone there.  *)
VacatedInv(t) ==
  Vacating(t) /\ cells[Vacated(t)].id # None =>
    /\ \E q \in Cells \ {Vacated(t)} : cells[q].id = cells[Vacated(t)].id
    /\ pc[t] \notin {"write3", "moved"} => Vacated(t) \notin entry_locks[t]

(* All that a thread relies on.                                            *)
Account(t) ==
  /\ FreeInv(t) /\ MoveCopy(t) /\ FullInv(t) /\ TentativeInv(t)
  /\ NamesInv(t) /\ NodesLocked(t) /\ RemoveInv(t) /\ VacatedInv(t)

-----------------------------------------------------------------------------
(* Names, copies and colors of the entries in the table. *)

(* Node id may be in cell p.                                               *)
Known(id, p) ==
  \/ id = RootId
  \/ /\ id \in NodeIds
     /\ \/ id[2] < op[id[1]].inserts
        \/ \E i \in DOMAIN op[id[1]].added :
             op[id[1]].added[i].id = id /\ ~TakenOut(id[1], op[id[1]].added[i])
        \/ Tentative(id[1]) /\ id = NodeId(id[1]) /\ p = add[id[1]].result

(* Every entry belongs to a returned or a running insert.                  *)
KnownInv == \A p \in Cells : cells[p].id # None => Known(cells[p].id, p)

(* Published nodes belong to inserts that have added them all.             *)
LiveInv ==
  \A n \in live :
    \/ n.id[2] < op[n.id[1]].inserts
    \/ Phase(n.id[1]) = "release" /\ n \in Range(op[n.id[1]].added)

(* An accepted node is in the table, where its locator says.               *)
SettledInv ==
  \A n \in Settled :
    /\ \E p \in Cells : cells[p].id = n.id
    /\ \A p \in Cells :
         cells[p].id = n.id =>
           n.loc = [bucket |-> cells[p].home, tag |-> cells[p].tag, color |-> cells[p].color]

(* Two cells with the same node are the business of one relocation.        *)
CopyInv ==
  \A p, q \in Cells :
    p # q /\ cells[p].id # None /\ cells[p].id = cells[q].id =>
      \E t \in Threads :
        /\ Vacating(t) /\ Vacated(t) \in {p, q}
        /\ bucket_refs[t][BucketOf(p)] = 1 /\ bucket_refs[t][BucketOf(q)] = 1

(* add_entry will withdraw its entry: it has gone to the secondary bucket, *)
(* and the primary one has changed.                                        *)
Doomed(t) == (ToBeStored(t) \/ Tentative(t)) /\ add[t].handle = SECONDARY /\ ~Fresh(t, PRIMARY)

(* The entries in the table, and those about to be stored.                 *)
Entered == {cells[p] : p \in Cells} \cup {write[t].entry : t \in {u \in Threads : ToBeStored(u)}}
SameLocator(e, f) == e.home = f.home /\ e.tag = f.tag /\ e.color = f.color

(* Of two nodes with the same locator one will be withdrawn.               *)
ColorInv ==
  \A e, f \in Entered :
    e.id # None /\ f.id # None /\ e.id # f.id /\ SameLocator(e, f) =>
      \E w \in Threads : Doomed(w) /\ NodeId(w) \in {e.id, f.id}

(* The inductive invariant, and its claim about executions in which stores *)
(* are visible at once.                                                    *)
NodeInv ==
  /\ BusyInv /\ EntryInv /\ KnownInv /\ LiveInv /\ SettledInv /\ CopyInv /\ ColorInv
  /\ \A t \in Threads : Account(t)

OrderedNodes == ~scenario.buffered => NodeInv

-----------------------------------------------------------------------------
USE DEF Phase, WritePcs, FindPcs, Adding, Relocating, ForAdd, ForFree, ForPath, UpgradePcs, SearchPhases,
        MovePhases, ReleasePhases, Goto, memory, handles, locks

(* Whoever writes has locked the bucket, also to remove a node.            *)
LEMMA WritesHeld ==
  ASSUME CInv, PInv, NodeInv, NEW t \in Threads, pc[t] \in WritePcs
  PROVE  /\ write[t].cell \in Cells /\ BucketOf(write[t].cell) \in Buckets
         /\ Held(t, BucketOf(write[t].cell))
<1>1. TypeOK /\ Control(t) /\ Place(t) /\ Account(t)
  BY DEF CInv, PInv, NodeInv
<1>2. write[t].cell \in Cells /\ BucketOf(write[t].cell) \in Buckets
  BY <1>1, EntryTypes DEF Control, CallInv
<1>3. CASE write[t].then = "removed"
  <2>1. write[t].cell = find[t].cell
    BY <1>1, <1>3 DEF Place, WriteInv
  <2>2. find[t].cell \in entry_locks[t]
    BY <1>1, <1>3 DEF Account, RemoveInv, FoundOwn
  <2> QED BY <1>2, <2>1, <2>2 DEF Held
<1>4. CASE write[t].then # "removed"
  BY <1>1, <1>2, <1>4, WriterHolds
<1> QED BY <1>3, <1>4

(* A lock has one holder.                                                  *)
LEMMA OneHolder ==
  ASSUME LockInv, NEW t \in Threads, NEW u \in Threads, NEW b \in Buckets, Held(t, b), Held(u, b)
  PROVE  t = u
BY DEF LockInv, Owns

(* So nobody else writes where a thread holds the lock.                    *)
LEMMA WritesElsewhere ==
  ASSUME CInv, PInv, LockInv, NodeInv, NEW t \in Threads, pc[t] \in WritePcs,
         NEW u \in Threads \ {t}, NEW p \in Cells, Held(u, BucketOf(p))
  PROVE  BucketOf(write[t].cell) # BucketOf(p) /\ write[t].cell # p
BY WritesHeld, OneHolder

(* A node in a locked bucket that its holder is not moving is in one cell. *)
LEMMA HeldNodeAlone ==
  ASSUME CInv, LockInv, NodeInv, NEW t \in Threads, ~Vacating(t), NEW p \in Cells, Held(t, BucketOf(p)),
         cells[p].id # None, NEW q \in Cells, cells[q].id = cells[p].id
  PROVE  q = p
<1>1. SUFFICES ASSUME q # p PROVE FALSE
  OBVIOUS
<1>2. PICK u \in Threads : Vacating(u) /\ bucket_refs[u][BucketOf(p)] = 1
  BY <1>1 DEF NodeInv, CopyInv
<1>3. Held(u, BucketOf(p)) /\ BucketOf(p) \in Buckets
  BY <1>2, EntryTypes DEF Held
<1> QED BY <1>2, <1>3, OneHolder

(* Steps that are not part of write_entry leave those who write alone.     *)
LEMMA NoWriteStep ==
  ASSUME CInv, NEW t \in Threads, Step(t) \/ BeginInsert(t) \/ BeginLookup(t), ~write_entry(t)
  PROVE  /\ pc[t] \notin WritePcs /\ pc'[t] \notin {"write2", "write3"}
         /\ \A u \in Threads \ {t} : entry_locks'[u] = entry_locks[u]
<1>1. TypeOK /\ Control(t) /\ pc \in [Threads -> Labels] /\ DOMAIN entry_locks = Threads
  BY DEF CInv, TypeOK
<1>2. pc[t] \in FindPcs => find[t].then \in {"remove", "found"}
  BY <1>1 DEF Control, CallInv
<1>3. CASE AddStep(t)
  <2>1. CASE ReadLockPrimary(t) \/ ReadLockSecondary(t)
    BY <1>1, <2>1 DEF ReadLockPrimary, ReadLockSecondary
  <2>2. CASE ScanPrimary(t) \/ ScanSecondary(t)
    BY <1>1, <2>2 DEF ScanPrimary, ScanSecondary, ChooseCell, CallUpgrade
  <2>3. CASE PutEntry(t) \/ ReadUnlock(t)
    BY <1>1, <2>3 DEF PutEntry, ReadUnlock, CallWrite
  <2>4. CASE AddReturn(t)
    BY <1>1, <2>4 DEF AddReturn
  <2> QED BY <1>3, <2>1, <2>2, <2>3, <2>4 DEF AddStep
<1>4. CASE upgrade_bucket_lock(t)
  <2>1. ASSUME UpgradeOk(t) \/ UpgradeFailed(t) PROVE pc'[t] \notin {"write2", "write3"}
    BY <1>1, <2>1 DEF UpgradeOk, UpgradePath, UpgradeFailed, CallUpgrade
  <2>2. CASE UpgradeHeld(t)
    BY <2>1, <2>2 DEF UpgradeHeld
  <2>3. CASE UpgradeTake(t)
    BY <1>1, <2>1, <2>3 DEF UpgradeTake
  <2>4. CASE UpgradeCheck(t)
    BY <2>1, <2>4 DEF UpgradeCheck
  <2> QED BY <1>4, <2>2, <2>3, <2>4 DEF upgrade_bucket_lock
<1>5. CASE relocate_entry(t)
  <2>1. CASE Relocate(t) \/ SearchExamine(t)
    BY <1>1, <2>1 DEF Relocate, SearchExamine
  <2>2. CASE SearchReadLock(t) \/ SearchScan(t)
    BY <1>1, <2>2 DEF SearchReadLock, SearchScan, CallUpgrade
  <2>3. CASE MoveStep(t)
    BY <1>1, <2>3 DEF MoveStep, MoveEntry, MoveNext, CallWrite, move_entry_lock
  <2>4. CASE SearchFailed(t) \/ RelocateEnd(t)
    BY <1>1, <2>4 DEF SearchFailed, RelocateEnd, ReleaseFree, ReleasePath, RelocateReturn, RelocateFailed
  <2> QED BY <1>5, <2>1, <2>2, <2>3, <2>4 DEF relocate_entry, SearchStep
<1>6. CASE find_entry_in_pair_by_color(t)
  BY <1>1, <1>2, <1>6 DEF find_entry_in_pair_by_color, FindReadCounter, FindScan, FindCheckCounter, NotInBucket
<1>7. CASE InsertEnd(t)
  <2>1. CASE Publish(t) \/ Undo(t) \/ remove_entry_by_value(t) \/ Removed(t) \/ Retry(t) \/ RetryInsert(t)
    BY <1>1, <2>1 DEF Publish, Undo, remove_entry_by_value, Removed, Retry, RetryInsert, ChoosePlan, CallFind, CallWrite
  <2>2. CASE ReleaseAllNext(t)
    BY <1>1, <2>2 DEF ReleaseAllNext
  <2>3. CASE InsertReturn(t)
    BY <1>1, <2>3 DEF InsertReturn, Return
  <2> QED BY <1>7, <2>1, <2>2, <2>3 DEF InsertEnd
<1>8. CASE LookupReturn(t)
  BY <1>1, <1>8 DEF LookupReturn, Return
<1>9. CASE BeginInsert(t) \/ BeginLookup(t)
  BY <1>1, <1>9 DEF BeginInsert, BeginLookup, ChoosePlan, CallFind
<1> QED BY <1>3, <1>4, <1>5, <1>6, <1>7, <1>8, <1>9 DEF Step, add_entry

(* What is computed from the locals of a thread changes with them only.    *)
LEMMA LocalView ==
  ASSUME NEW u \in Threads, locals(u)' = locals(u)
  PROVE  /\ pc'[u] = pc[u] /\ op'[u] = op[u] /\ add'[u] = add[u] /\ rel'[u] = rel[u]
         /\ write'[u] = write[u] /\ find'[u] = find[u] /\ rl'[u] = rl[u] /\ up'[u] = up[u]
         /\ bucket_refs'[u] = bucket_refs[u]
         /\ Phase(u)' = Phase(u) /\ (ForAdd(u)' <=> ForAdd(u)) /\ (ForFree(u)' <=> ForFree(u))
         /\ (ForPath(u)' <=> ForPath(u)) /\ (Adding(u)' <=> Adding(u))
         /\ Primary(u)' = Primary(u) /\ NodeNumber(u)' = NodeNumber(u) /\ NodeId(u)' = NodeId(u)
         /\ Occupied(u)' = Occupied(u) /\ UndoIndex(u)' = UndoIndex(u) /\ FindBucket(u)' = FindBucket(u)
         /\ \A n : TakenOut(u, n)' <=> TakenOut(u, n)
         /\ (ToBeStored(u)' <=> ToBeStored(u)) /\ (Tentative(u)' <=> Tentative(u))
         /\ (CellReady(u)' <=> CellReady(u)) /\ (PastPrimary(u)' <=> PastPrimary(u))
         /\ (FoundOwn(u)' <=> FoundOwn(u)) /\ (Vacating(u)' <=> Vacating(u)) /\ Vacated(u)' = Vacated(u)
<1>1. /\ pc'[u] = pc[u] /\ op'[u] = op[u] /\ add'[u] = add[u] /\ rel'[u] = rel[u]
      /\ write'[u] = write[u] /\ find'[u] = find[u] /\ rl'[u] = rl[u] /\ up'[u] = up[u]
      /\ bucket_refs'[u] = bucket_refs[u]
  BY DEF locals
<1>2. Phase(u)' = Phase(u) /\ ForAdd(u)' = ForAdd(u) /\ ForFree(u)' = ForFree(u) /\ ForPath(u)' = ForPath(u)
  BY <1>1, Zenon DEF Phase, ForAdd, ForFree, ForPath
<1>3. Relocating(u)' = Relocating(u) /\ Adding(u)' = Adding(u)
  BY <1>2, Zenon DEF Relocating, Adding
<1>4. /\ Primary(u)' = Primary(u) /\ NodeNumber(u)' = NodeNumber(u) /\ NodeId(u)' = NodeId(u)
      /\ Occupied(u)' = Occupied(u) /\ UndoIndex(u)' = UndoIndex(u) /\ FindBucket(u)' = FindBucket(u)
  BY <1>1, Zenon DEF Primary, NodeHash, NodeNumber, NodeId, Occupied, UndoIndex, FindBucket
<1>5. \A n : TakenOut(u, n)' = TakenOut(u, n)
  BY <1>1, Zenon DEF TakenOut
<1> HIDE DEF Phase, ForAdd, ForFree, ForPath, Relocating, Adding
<1>6. /\ ToBeStored(u)' <=> ToBeStored(u)
      /\ Tentative(u)' <=> Tentative(u)
      /\ PastPrimary(u)' <=> PastPrimary(u)
      /\ FoundOwn(u)' <=> FoundOwn(u)
      /\ Vacating(u)' <=> Vacating(u)
      /\ CellReady(u)' <=> CellReady(u)
      /\ Vacated(u)' = Vacated(u)
  BY <1>1, <1>2, <1>4 DEF ToBeStored, Tentative, CellReady, PastPrimary, FoundOwn, Vacating, Vacated
<1> QED BY <1>1, <1>2, <1>3, <1>4, <1>5, <1>6

(* What a thread relies on depends on its locals, its cells and counters,  *)
(* and on the writes under way.                                            *)
LEMMA AccountIsLocal ==
  ASSUME NEW u \in Threads, Account(u), locals(u)' = locals(u), stale'[u] = stale[u],
         entry_locks'[u] = entry_locks[u], cells' = cells,
         \A p : BeingWritten(p)' <=> BeingWritten(p), \A b : Clearing(b)' <=> Clearing(b)
  PROVE  Account(u)'
<1> HIDE DEF Phase, ForAdd, ForFree, ForPath, Relocating, Adding
<1>1. \A h : Fresh(u, h)' <=> Fresh(u, h)
  BY DEF Fresh
<1>2. FreeInv(u)' /\ MoveCopy(u)' /\ FullInv(u)' /\ TentativeInv(u)'
  BY <1>1, LocalView DEF Account, FreeInv, MoveCopy, FullInv, TentativeInv, Full
<1>3. NamesInv(u)' /\ NodesLocked(u)'
  BY LocalView DEF Account, NamesInv, NodesLocked
<1>4. RemoveInv(u)' /\ VacatedInv(u)'
  BY <1>1, LocalView DEF Account, RemoveInv, VacatedInv
<1> QED BY <1>2, <1>3, <1>4 DEF Account

(* Steps that are not part of write_entry change nothing for the others.   *)
LEMMA WritesKept ==
  ASSUME TypeOK, NEW t \in Threads, Others(t),
         pc[t] \notin {"write2", "write3"}, pc'[t] \notin {"write2", "write3"}
  PROVE  /\ \A p : BeingWritten(p)' <=> BeingWritten(p)
         /\ \A b : Clearing(b)' <=> Clearing(b)
<1>1. \A u \in Threads \ {t} : pc'[u] = pc[u] /\ write'[u] = write[u]
  BY DEF Others, locals
<1> QED BY <1>1 DEF BeingWritten, Clearing

(* The cell add_entry stores to is in a bucket it has locked.              *)
LEMMA ResultHeld ==
  ASSUME CInv, NEW t \in Threads,
         CellReady(t) \/ Phase(t) \in {"read_unlock", "withdrawn", "added"} \/ (Vacating(t) /\ Phase(t) = "release_free"),
         PInv
  PROVE  /\ add[t].result \in Cells /\ BucketOf(add[t].result) \in Buckets
         /\ bucket_refs[t][BucketOf(add[t].result)] = 1 /\ Held(t, BucketOf(add[t].result))
<1>1. TypeOK /\ Control(t) /\ Place(t)
  BY DEF CInv, PInv
<1>2. CASE Phase(t) \in {"put", "read_unlock", "withdrawn", "added"}
  <2>1. add[t].result \in Cells /\ RefsOn(bucket_refs[t], {BucketOf(add[t].result)})
    BY <1>1, <1>2 DEF Control, AddInv, RefsInv
  <2>2. BucketOf(add[t].result) \in Buckets
    BY <2>1, EntryTypes
  <2> QED BY <2>1, <2>2 DEF RefsOn, Held
<1>3. CASE Phase(t) \in ReleasePhases /\ rel[t].ok
  <2>1. add[t].result \in Cells /\ BucketOf(add[t].result) = Primary(t)
    BY <1>1, <1>3 DEF Control, QueueInv
  <2>2. bucket_refs[t][Primary(t)] = 1
    BY <1>1, <1>3 DEF Control, PathInv, PathRefs
  <2> QED BY <2>1, <2>2, EntryTypes DEF Held
<1>4. Phase(t) = "release_free" /\ pc[t] \in WritePcs => rel[t].ok
  BY <1>1 DEF Place, WriteInv
<1> QED BY <1>2, <1>3, <1>4 DEF CellReady, ToBeStored, Vacating

(* The vacated cell is in a bucket relocate_entry has locked.              *)
LEMMA VacatedHeld ==
  ASSUME CInv, PInv, NEW t \in Threads, Vacating(t)
  PROVE  /\ Vacated(t) \in Cells /\ BucketOf(Vacated(t)) \in Buckets
         /\ bucket_refs[t][BucketOf(Vacated(t))] = 1 /\ Held(t, BucketOf(Vacated(t)))
<1>1. TypeOK /\ Control(t) /\ Place(t)
  BY DEF CInv, PInv
<1>2. CASE Phase(t) = "release_free"
  BY <1>2, ResultHeld DEF Vacated
<1>3. CASE Phase(t) \in MovePhases
  <2>1. rel[t].free \in Cells /\ Occupied(t) \in Cells
    BY <1>1, <1>3, OccupiedType DEF Control, QueueInv
  <2> QED BY <1>1, <1>3, <2>1, MoveBuckets DEF Vacated, Held
<1> QED BY <1>2, <1>3 DEF Vacating

(* The node a roll-back looks for is in a cell the thread has locked, and  *)
(* nowhere else.                                                           *)
LEMMA OwnNodeHeld ==
  ASSUME CInv, LockInv, NodeInv, NEW t \in Threads, Phase(t) = "remove"
  PROVE  /\ find[t].node \in Nodes /\ find[t].node.id # None
         /\ find[t].node.id[1] = t /\ t \in Writers
         /\ \E p \in entry_locks[t] : cells[p].id = find[t].node.id
         /\ \A q \in Cells : cells[q].id = find[t].node.id => q \in entry_locks[t] /\ Held(t, BucketOf(q))
<1>1. TypeOK /\ Control(t) /\ Account(t) /\ entry_locks[t] \subseteq Cells
  BY DEF CInv, NodeInv, TypeOK
<1>2. op[t].added # <<>> /\ t \in Writers
  BY <1>1 DEF Control, InsertInv, CallInv, Threads
<1>3. PICK i \in DOMAIN op[t].added : find[t].node = op[t].added[i]
  BY <1>1, <1>2, RestOfNodes DEF Account, RemoveInv
<1>4. find[t].node \in Nodes /\ find[t].node.id \in NodeIds /\ find[t].node.id # None
  <2>1. PICK s \in Seq(Nodes) : s = op[t].added
    BY <1>1, LocalTypes
  <2>2. s[i] \in Nodes
    BY <1>3, <2>1
  <2>3. find[t].node \in Nodes
    BY <1>3, <2>1, <2>2
  <2> QED BY <2>3, NoneAssumption DEF Nodes
<1>5. find[t].node.id[1] = t
  BY <1>1, <1>3 DEF Account, NamesInv
<1>6. ~TakenOut(t, op[t].added[i])
  BY DEF TakenOut
<1>7. PICK p \in entry_locks[t] : cells[p].id = find[t].node.id
  BY <1>1, <1>3, <1>6 DEF Account, NodesLocked
<1>8. ~Vacating(t) /\ Held(t, BucketOf(p)) /\ p \in Cells
  BY <1>1, <1>7 DEF Vacating, Held
<1>9. ASSUME NEW q \in Cells, cells[q].id = find[t].node.id PROVE q = p
  BY <1>4, <1>7, <1>8, <1>9, HeldNodeAlone
<1> QED BY <1>2, <1>4, <1>5, <1>7, <1>8, <1>9

(* What write_entry stores: a new entry, a copy, or nothing.               *)
LEMMA StoredName ==
  ASSUME CInv, PInv, NodeInv, NEW t \in Threads, pc[t] = "write2"
  PROVE  \/ /\ Phase(t) = "read_unlock" /\ write[t].entry.id = NodeId(t) /\ NodeId(t) \in NodeIds
            /\ NodeId(t)[1] = t /\ t \in Writers /\ write[t].cell = add[t].result
         \/ /\ Phase(t) = "moved" /\ write[t].entry = Flipped(cells[Occupied(t)])
            /\ write[t].entry.id = cells[Occupied(t)].id /\ Occupied(t) \in Cells
            /\ Held(t, BucketOf(Occupied(t))) /\ write[t].cell = rel[t].free
         \/ /\ Phase(t) \in {"withdrawn", "release_free"} /\ write[t].entry = Unused
            /\ write[t].cell = add[t].result
         \/ Phase(t) = "removed" /\ write[t].entry = Unused /\ write[t].cell = find[t].cell
<1>1. TypeOK /\ Control(t) /\ Place(t) /\ Account(t)
  BY DEF CInv, PInv, NodeInv
<1>2. Phase(t) \in {"read_unlock", "withdrawn", "moved", "release_free", "removed"}
  BY <1>1 DEF Control, CallInv
<1>3. CASE Phase(t) = "read_unlock"
  <2>1. write[t].entry.id = NodeId(t) /\ write[t].cell = add[t].result
    BY <1>1, <1>3 DEF Place, WriteInv
  <2>2. NodeId(t) \in NodeIds /\ t \in Writers
    BY <1>1, <1>3, NodeTypes
  <2> QED BY <1>3, <2>1, <2>2 DEF NodeId
<1>4. CASE Phase(t) = "moved"
  <2>1. write[t].cell = rel[t].free
    BY <1>1, <1>4 DEF Place, WriteInv
  <2>2. write[t].entry = Flipped(cells[Occupied(t)])
    BY <1>1, <1>4 DEF Account, MoveCopy
  <2>3. Occupied(t) \in Cells /\ cells[Occupied(t)] \in Entries
    BY <1>1, <1>4, OccupiedType DEF TypeOK
  <2>4. write[t].entry.id = cells[Occupied(t)].id
    BY <2>2, <2>3 DEF Flipped, Entries
  <2>5. Held(t, BucketOf(Occupied(t)))
    BY <1>1, <1>4, MoveBuckets DEF Held
  <2> QED BY <1>4, <2>1, <2>2, <2>3, <2>4, <2>5
<1> QED BY <1>1, <1>2, <1>3, <1>4 DEF Place, WriteInv

(* The handles a thread compares stand for the buckets it has looked at.   *)
LEMMA HandleBuckets ==
  ASSUME CInv, PInv, NEW u \in Threads
  PROVE  /\ ForAdd(u) /\ add[u].result # None =>
              up[u] \in Handles /\ BucketOf(add[u].result) = rl[u][up[u]] /\ add[u].result \in Cells
         /\ ForFree(u) => /\ FREE \in Handles /\ BucketOf(rel[u].free) = rl[u][FREE]
                          /\ rel[u].free \in Cells /\ up[u] = FREE
         /\ ForPath(u) => rel[u].free \in Cells /\ Held(u, BucketOf(rel[u].free))
         /\ PastPrimary(u) => PRIMARY \in Handles /\ rl[u][PRIMARY] = Primary(u) /\ Adding(u)
<1>1. TypeOK /\ Control(u) /\ Place(u)
  BY DEF CInv, PInv
<1>2. add[u].result \in Cells \cup {None} /\ up[u] \in Handles
  BY <1>1 DEF TypeOK
<1>3. ForAdd(u) /\ add[u].result # None => BucketOf(add[u].result) = rl[u][up[u]]
  BY <1>1 DEF Control, AddInv
<1>4. ForFree(u) \/ ForPath(u) =>
        /\ BucketOf(rel[u].free) = rel[u].child_bucket /\ rel[u].free \in Cells
        /\ rl[u][FREE] = rel[u].child_bucket
  BY <1>1 DEF Control, QueueInv, Place, MoveInv
<1>5. ForPath(u) => bucket_refs[u][rel[u].child_bucket] = 1
  BY <1>1 DEF Control, RefsInv, RefsBefore, RefsAfter
<1>6. PastPrimary(u) => Adding(u) /\ Phase(u) # "add"
  BY DEF PastPrimary
<1>7. PastPrimary(u) => rl[u][PRIMARY] = Primary(u)
  BY <1>1, <1>6 DEF Control, AddInv
<1> QED BY <1>2, <1>3, <1>4, <1>5, <1>6, <1>7, HandleTypes DEF Held

(* When a counter turns, the handles on its bucket become stale, and the   *)
(* writes to other buckets go on.                                          *)
LEMMA CounterTurns ==
  ASSUME TypeOK, NEW t \in Threads, Others(t), write'[t] = write[t], NEW b, b = BucketOf(write[t].cell),
         stale' = [v \in Threads |-> stale[v] \cup HandlesOn(v, b)]
  PROVE  /\ \A p : BucketOf(p) # b => (BeingWritten(p)' <=> BeingWritten(p))
         /\ \A c : c # b => (Clearing(c)' <=> Clearing(c))
         /\ \A u \in Threads : \A h \in Handles : Fresh(u, h)' <=> Fresh(u, h) /\ rl[u][h] # b
<1>1. \A u \in Threads \ {t} : pc'[u] = pc[u] /\ write'[u] = write[u]
  BY DEF Others, locals
<1>2. \A u \in Threads : write'[u] = write[u] /\ (BucketOf(write[u].cell) # b => pc'[u] = pc[u])
  BY <1>1
<1>3. \A p : BucketOf(p) # b => (BeingWritten(p)' <=> BeingWritten(p))
  BY <1>2 DEF BeingWritten
<1>4. \A c : c # b => (Clearing(c)' <=> Clearing(c))
  BY <1>2 DEF Clearing
<1>5. \A u \in Threads : \A h \in Handles : Fresh(u, h)' <=> Fresh(u, h) /\ rl[u][h] # b
  BY DEF Fresh, HandlesOn
<1> QED BY <1>3, <1>4, <1>5

(* Another thread's counter turns.                                         *)
LEMMA OtherCounter ==
  ASSUME CInv, PInv, LockInv, NodeInv, NEW t \in Threads, NEW u \in Threads \ {t},
         pc[t] \in {"write1", "write3"}, Others(t), cells' = cells, entry_locks' = entry_locks,
         write' = write, stale' = [v \in Threads |-> stale[v] \cup HandlesOn(v, BucketOf(write[t].cell))]
  PROVE  Account(u)'
<1>1. TypeOK /\ Account(u) /\ locals(u)' = locals(u)
  BY DEF CInv, NodeInv, Others
<1>2. PICK b \in Buckets : b = BucketOf(write[t].cell)
  BY WritesHeld
<1>3. /\ \A p : BucketOf(p) # b => (BeingWritten(p)' <=> BeingWritten(p))
      /\ \A c : c # b => (Clearing(c)' <=> Clearing(c))
      /\ \A h \in Handles : Fresh(u, h)' <=> Fresh(u, h) /\ rl[u][h] # b
  BY <1>1, <1>2, CounterTurns
<1> HIDE DEF Phase, ForAdd, ForFree, ForPath, Relocating, Adding
<1>4. FreeInv(u)'
  <2>1. PICK h, p, q : h = up[u] /\ p = add[u].result /\ q = rel[u].free
    OBVIOUS
  <2>2. ForAdd(u) /\ p # None /\ Fresh(u, h)' /\ ~BeingWritten(p)' => cells[p].id = None
    BY <1>1, <1>3, <2>1, HandleBuckets DEF Account, FreeInv
  <2>3. ForFree(u) /\ Fresh(u, FREE)' /\ ~BeingWritten(q)' => cells[q].id = None
    BY <1>1, <1>3, <2>1, HandleBuckets DEF Account, FreeInv
  <2>4. up'[u] = h /\ add'[u].result = p /\ rel'[u].free = q
    BY <1>1, <2>1, LocalView
  <2>5. /\ Fresh(u, up[u])' => Fresh(u, h)'
        /\ BeingWritten(p)' => BeingWritten(add[u].result)'
        /\ BeingWritten(q)' => BeingWritten(rel[u].free)'
    BY <2>4 DEF Fresh, BeingWritten
  <2> QED BY <1>1, <2>1, <2>2, <2>3, <2>4, <2>5, LocalView DEF Account, FreeInv
<1>5. MoveCopy(u)' /\ TentativeInv(u)'
  BY <1>1, LocalView DEF Account, MoveCopy, TentativeInv
<1>6. FullInv(u)'
  BY <1>1, <1>3, LocalView, HandleBuckets DEF Account, FullInv, Full
<1>7. NamesInv(u)' /\ NodesLocked(u)'
  BY <1>1, LocalView DEF Account, NamesInv, NodesLocked
<1>8. RemoveInv(u)'
  <2>1. ASSUME Phase(u) = "remove", pc[u] \in {"find2", "find3"}, NEW c \in CellNumbers,
               cells[<<FindBucket(u), c>>].id = find[u].node.id
        PROVE  Fresh(u, FIND)'
    <3>1. Fresh(u, FIND) /\ rl[u][FIND] = FindBucket(u)
      BY <1>1, <2>1 DEF Account, RemoveInv
    <3>2. rl[u] \in [Handles -> Buckets \cup {None}] /\ FIND \in Handles
      BY <1>1, HandleTypes DEF TypeOK
    <3>3. FindBucket(u) \in Buckets
      BY <1>1, <2>1, OwnNodeHeld, FindBucketType DEF CInv
    <3>4. <<FindBucket(u), c>> \in Cells /\ BucketOf(<<FindBucket(u), c>>) = FindBucket(u)
      BY <3>3 DEF Cells, BucketOf
    <3>5. Held(u, FindBucket(u))
      BY <2>1, <3>4, OwnNodeHeld
    <3>6. b # FindBucket(u)
      BY <1>2, <3>4, <3>5, WritesElsewhere
    <3> QED BY <1>3, <3>1, <3>2, <3>6
  <2> QED BY <1>1, <2>1, LocalView DEF Account, RemoveInv
<1>9. VacatedInv(u)'
  BY <1>1, LocalView DEF Account, VacatedInv
<1> QED BY <1>4, <1>5, <1>6, <1>7, <1>8, <1>9 DEF Account

(* Another thread stores an entry: not where this one holds the lock, and  *)
(* none with the name of the node this one is about to take out.           *)
LEMMA OtherStore ==
  ASSUME CInv, PInv, LockInv, NodeInv, NEW t \in Threads, NEW u \in Threads \ {t},
         pc[t] = "write2", Others(t), pc'[t] = "write3", entry_locks' = entry_locks,
         write' = write, stale' = stale, cells' = [cells EXCEPT ![write[t].cell] = write[t].entry]
  PROVE  Account(u)'
<1>1. TypeOK /\ Control(u) /\ Place(u) /\ Account(u) /\ locals(u)' = locals(u)
  BY DEF CInv, PInv, NodeInv, Others
<1>2. cells \in [Cells -> Entries] /\ entry_locks[u] \subseteq Cells
  BY <1>1 DEF TypeOK
<1>3. PICK w \in Cells : w = write[t].cell
  BY WritesHeld
<1>4. /\ \A p : BeingWritten(p)' <=> BeingWritten(p)
      /\ BeingWritten(w)
      /\ \A b : Clearing(b) => Clearing(b)'
      /\ write[t].entry.id = None => Clearing(BucketOf(w))'
  <2>1. \A v \in Threads : v # t => pc'[v] = pc[v]
    BY DEF Others, locals
  <2> QED BY <1>3, <2>1 DEF BeingWritten, Clearing
<1>5. \A h : Fresh(u, h)' <=> Fresh(u, h)
  BY DEF Fresh
<1>6. \A p \in Cells : p # w => cells'[p] = cells[p]
  BY <1>2, <1>3
<1>7. \A p \in Cells : Held(u, BucketOf(p)) => p # w /\ cells'[p] = cells[p]
  BY <1>3, <1>6, WritesElsewhere
<1>8. cells'[w] = write[t].entry
  BY <1>2, <1>3
<1> HIDE DEF Phase, ForAdd, ForFree, ForPath, Relocating, Adding
<1>9. FreeInv(u)'
  <2>1. PICK h, p, q : h = up[u] /\ p = add[u].result /\ q = rel[u].free
    OBVIOUS
  <2>2. ForAdd(u) /\ p # None /\ Fresh(u, h) /\ ~BeingWritten(p) => cells'[p].id = None
    BY <1>1, <1>4, <1>6, <2>1, HandleBuckets DEF Account, FreeInv
  <2>3. ForFree(u) /\ Fresh(u, FREE) /\ ~BeingWritten(q) => cells'[q].id = None
    BY <1>1, <1>4, <1>6, <2>1, HandleBuckets DEF Account, FreeInv
  <2>4. CellReady(u) => cells'[p].id = None
    BY <1>1, <1>7, <2>1, ResultHeld DEF Account, FreeInv
  <2>5. ForPath(u) => cells'[q].id = None
    BY <1>1, <1>7, <2>1, HandleBuckets DEF Account, FreeInv
  <2>6. up'[u] = h /\ add'[u].result = p /\ rel'[u].free = q
    BY <1>1, <2>1, LocalView
  <2>7. /\ Fresh(u, up[u])' => Fresh(u, h)
        /\ BeingWritten(p) => BeingWritten(add[u].result)'
        /\ BeingWritten(q) => BeingWritten(rel[u].free)'
    BY <1>4, <1>5, <2>6 DEF Fresh, BeingWritten
  <2> QED BY <1>1, <1>5, <2>1, <2>2, <2>3, <2>4, <2>5, <2>6, <2>7, LocalView DEF FreeInv
<1>10. MoveCopy(u)'
  <2>1. CASE Phase(u) = "moved"
    <3>1. /\ rel[u].free \in Cells /\ Occupied(u) \in Cells
          /\ Held(u, BucketOf(rel[u].free)) /\ Held(u, BucketOf(Occupied(u)))
      BY <1>1, <2>1, OccupiedType, MoveBuckets DEF Held, MovePhases
    <3>2. cells'[rel[u].free] = cells[rel[u].free] /\ cells'[Occupied(u)] = cells[Occupied(u)]
      BY <1>7, <3>1
    <3> QED BY <1>1, <3>2, LocalView DEF Account, MoveCopy
  <2>2. CASE Phase(u) # "moved"
    BY <1>1, <2>2, LocalView DEF MoveCopy
  <2> QED BY <2>1, <2>2
<1>11. TentativeInv(u)'
  <2>1. CASE Tentative(u)
    <3>1. add[u].result \in Cells /\ Held(u, BucketOf(add[u].result))
      BY <2>1, ResultHeld DEF Tentative
    <3>2. cells'[add[u].result] = cells[add[u].result]
      BY <1>7, <3>1
    <3> QED BY <1>1, <3>2, LocalView DEF Account, TentativeInv
  <2>2. CASE ~Tentative(u)
    BY <1>1, <2>2, LocalView DEF TentativeInv
  <2> QED BY <2>1, <2>2
<1>12. FullInv(u)'
  <2>1. SUFFICES ASSUME PastPrimary(u), Fresh(u, PRIMARY), ~Clearing(Primary(u))' PROVE Full(Primary(u))'
    BY <1>1, <1>5, LocalView DEF FullInv
  <2>2. PICK b \in Buckets : b = Primary(u)
    BY <1>1, <2>1, HandleBuckets, NodeTypes
  <2>3. ~Clearing(b)'
    BY <1>1, <2>1, <2>2, LocalView DEF Clearing
  <2>4. Full(b)
    BY <1>1, <1>4, <2>1, <2>2, <2>3 DEF Account, FullInv
  <2>5. BucketOf(w) = b => write[t].entry.id # None
    BY <1>4, <2>3
  <2>6. ASSUME NEW c \in CellNumbers PROVE cells'[<<b, c>>].id # None
    <3>1. <<b, c>> \in Cells /\ BucketOf(<<b, c>>) = b
      BY DEF Cells, BucketOf
    <3> QED BY <1>6, <1>8, <2>4, <2>5, <3>1 DEF Full
  <2>7. Full(b)'
    BY <2>6 DEF Full
  <2> QED BY <1>1, <2>2, <2>7, LocalView DEF Full
<1>13. NamesInv(u)'
  BY <1>1, LocalView DEF Account, NamesInv
<1>14. \A p \in entry_locks[u] : cells'[p] = cells[p]
  BY <1>2, <1>7 DEF Held
<1>15. NodesLocked(u)'
  BY <1>1, <1>14, LocalView DEF Account, NodesLocked
<1>16. RemoveInv(u)'
  <2>1. ASSUME Phase(u) = "remove" PROVE write[t].entry.id # find[u].node.id
    <3>1. /\ find[u].node.id # None /\ find[u].node.id[1] = u
          /\ \A q \in Cells : cells[q].id = find[u].node.id => Held(u, BucketOf(q))
      BY <2>1, OwnNodeHeld
    <3>2. write[t].entry = Unused => write[t].entry.id # find[u].node.id
      BY <3>1 DEF Unused
    <3>3. ASSUME write[t].entry.id = cells[Occupied(t)].id, Occupied(t) \in Cells, Held(t, BucketOf(Occupied(t)))
          PROVE  write[t].entry.id # find[u].node.id
      BY <3>1, <3>3, OneHolder, EntryTypes
    <3> QED BY <3>1, <3>2, <3>3, StoredName
  <2>2. ASSUME Phase(u) = "remove", NEW b \in Buckets, NEW c \in CellNumbers, cells'[<<b, c>>].id = find[u].node.id
        PROVE  cells[<<b, c>>].id = find[u].node.id
    BY <1>6, <1>8, <2>1, <2>2 DEF Cells
  <2>3. Phase(u) = "remove" => FindBucket(u) \in Buckets /\ find[u].node.loc.bucket \in Buckets
    BY <1>1, OwnNodeHeld, FindBucketType DEF Nodes, Locators
  <2>4. FoundOwn(u) => find[u].cell \in entry_locks[u]
    BY <1>1 DEF Account, RemoveInv
  <2>5. FoundOwn(u) => cells'[find[u].cell] = cells[find[u].cell]
    BY <1>14, <2>4
  <2>6. Phase(u) = "remove" /\ find[u].secondary =>
          \A c \in CellNumbers : cells'[<<find[u].node.loc.bucket, c>>].id # find[u].node.id
    BY <1>1, <2>2, <2>3 DEF Account, RemoveInv
  <2>7. Phase(u) = "remove" /\ pc[u] \in {"find2", "find3"} =>
          \A c \in CellNumbers : cells'[<<FindBucket(u), c>>].id = find[u].node.id => Fresh(u, FIND) /\ find[u].lock = 1
    BY <1>1, <2>2, <2>3 DEF Account, RemoveInv
  <2> QED BY <1>1, <1>5, <2>4, <2>5, <2>6, <2>7, LocalView DEF Account, RemoveInv
<1>17. VacatedInv(u)'
  <2>1. CASE Vacating(u)
    <3>1. PICK p \in Cells : p = Vacated(u) /\ Held(u, BucketOf(p)) /\ BucketOf(p) \in Buckets
      BY <2>1, VacatedHeld
    <3>2. cells'[p] = cells[p]
      BY <1>7, <3>1
    <3>3. ASSUME cells[p].id # None PROVE \E q \in Cells \ {p} : cells'[q].id = cells'[p].id
      <4>1. PICK q \in Cells \ {p} : cells[q].id = cells[p].id
        BY <1>1, <2>1, <3>1, <3>3 DEF Account, VacatedInv
      <4>2. PICK v \in Threads : bucket_refs[v][BucketOf(p)] = 1 /\ bucket_refs[v][BucketOf(q)] = 1
        BY <3>3, <4>1 DEF NodeInv, CopyInv
      <4>3. v = u
        BY <3>1, <4>2, OneHolder DEF Held
      <4>4. Held(u, BucketOf(q))
        BY <4>2, <4>3 DEF Held
      <4> QED BY <1>7, <3>2, <4>1, <4>4
    <3> QED BY <1>1, <3>1, <3>2, <3>3, LocalView DEF Account, VacatedInv
  <2>2. CASE ~Vacating(u)
    BY <1>1, <2>2, LocalView DEF VacatedInv
  <2> QED BY <2>1, <2>2
<1> QED BY <1>9, <1>10, <1>11, <1>12, <1>13, <1>15, <1>16, <1>17 DEF Account

(* What a thread relies on survives every step of another one.             *)
LEMMA OtherAccount ==
  ASSUME CInv, PInv, LockInv, NodeInv, ~scenario.buffered, NEW t \in Threads, NEW u \in Threads \ {t},
         Step(t) \/ BeginInsert(t) \/ BeginLookup(t) \/ Drain(t)
  PROVE  Account(u)'
<1>1. TypeOK /\ Control(t) /\ Account(u)
  BY DEF CInv, NodeInv
<1>2. Others(t)
  BY <1>1, StepIsLocal
<1>3. Step(t) \/ BeginInsert(t) \/ BeginLookup(t)
  BY <1>1, Effects
<1>4. CASE ~write_entry(t) /\ cells' = cells /\ \A v \in Threads \ {t} : stale'[v] = stale[v]
  <2>1. /\ pc[t] \notin WritePcs /\ pc'[t] \notin {"write2", "write3"} /\ entry_locks'[u] = entry_locks[u]
    BY <1>3, <1>4, NoWriteStep
  <2>2. (\A p : BeingWritten(p)' <=> BeingWritten(p)) /\ \A b : Clearing(b)' <=> Clearing(b)
    BY <1>1, <1>2, <2>1, WritesKept
  <2> QED BY <1>1, <1>2, <1>4, <2>1, <2>2, AccountIsLocal DEF Others
<1>5. CASE pc[t] \in {"write1", "write3"} /\ write_entry(t) /\ cells' = cells
           /\ stale' = [v \in Threads |-> stale[v] \cup HandlesOn(v, BucketOf(write[t].cell))]
  <2>1. write' = write /\ entry_locks' = entry_locks
    BY <1>5 DEF write_entry
  <2> QED BY <1>2, <1>5, <2>1, OtherCounter
<1>6. CASE pc[t] = "write2" /\ write_entry(t) /\ stale' = stale
           /\ cells' = [cells EXCEPT ![write[t].cell] = write[t].entry]
  <2>1. write' = write /\ entry_locks' = entry_locks /\ pc'[t] = "write3"
    BY <1>1, <1>6 DEF write_entry, TypeOK
  <2> QED BY <1>2, <1>6, <2>1, OtherStore
<1> QED BY <1>1, <1>4, <1>5, <1>6, Effects

(* write_entry changes no local but the point it has reached.              *)
LEMMA WriteView ==
  ASSUME TypeOK, NEW t \in Threads, Control(t), write_entry(t)
  PROVE  /\ op' = op /\ add' = add /\ rel' = rel /\ write' = write /\ find' = find /\ up' = up /\ rl' = rl
         /\ live' = live /\ entry_locks' = entry_locks /\ bucket_refs' = bucket_refs
         /\ pc[t] \in WritePcs
         /\ Phase(t)' = Phase(t) /\ Phase(t) \in {"read_unlock", "withdrawn", "moved", "release_free", "removed"}
         /\ ~ForAdd(t)' /\ ~ForFree(t)' /\ ~ForPath(t)' /\ (Adding(t)' <=> Adding(t))
         /\ pc[t] = "write1" => pc'[t] = "write2"
         /\ pc[t] = "write2" => pc'[t] = "write3"
         /\ pc[t] = "write3" => pc'[t] = Phase(t)
         /\ Primary(t)' = Primary(t) /\ NodeNumber(t)' = NodeNumber(t) /\ NodeId(t)' = NodeId(t)
         /\ Occupied(t)' = Occupied(t) /\ UndoIndex(t)' = UndoIndex(t) /\ FindBucket(t)' = FindBucket(t)
<1>1. /\ op' = op /\ add' = add /\ rel' = rel /\ write' = write /\ find' = find /\ up' = up /\ rl' = rl
      /\ live' = live /\ entry_locks' = entry_locks /\ bucket_refs' = bucket_refs
      /\ pc[t] \in WritePcs /\ pc \in [Threads -> Labels]
  BY DEF write_entry, TypeOK
<1>2. write[t].then \in {"read_unlock", "withdrawn", "moved", "release_free", "removed"}
  BY <1>1 DEF Control, CallInv
<1>3. /\ pc[t] = "write1" => pc'[t] = "write2"
      /\ pc[t] = "write2" => pc'[t] = "write3"
      /\ pc[t] = "write3" => pc'[t] = write[t].then
  BY <1>1 DEF write_entry
<1>4. Phase(t)' = Phase(t) /\ Phase(t) = write[t].then
  BY <1>1, <1>2, <1>3
<1>5. ~ForAdd(t)' /\ ~ForFree(t)' /\ ~ForPath(t)' /\ ~ForAdd(t) /\ ~ForFree(t) /\ ~ForPath(t)
  BY <1>1, <1>2, <1>3
<1>6. /\ Primary(t)' = Primary(t) /\ NodeNumber(t)' = NodeNumber(t) /\ NodeId(t)' = NodeId(t)
      /\ Occupied(t)' = Occupied(t) /\ UndoIndex(t)' = UndoIndex(t) /\ FindBucket(t)' = FindBucket(t)
  BY <1>1, Zenon DEF Primary, NodeHash, NodeNumber, NodeId, Occupied, UndoIndex, FindBucket
<1> HIDE DEF Phase, ForAdd, ForFree, ForPath
<1>7. Adding(t)' <=> Adding(t)
  BY <1>4, <1>5
<1> QED BY <1>1, <1>2, <1>3, <1>4, <1>5, <1>6, <1>7

(* The counter turns at the beginning and at the end of a write: all the   *)
(* thread relies on is as before.                                          *)
LEMMA CounterView ==
  ASSUME TypeOK, NEW t \in Threads, Control(t), write_entry(t), pc[t] \in {"write1", "write3"}
  PROVE  /\ ToBeStored(t)' <=> ToBeStored(t)
         /\ Tentative(t)' <=> Tentative(t)
         /\ CellReady(t)' <=> CellReady(t)
         /\ PastPrimary(t)' <=> PastPrimary(t)
         /\ FoundOwn(t)' <=> FoundOwn(t)
         /\ Vacating(t)' <=> Vacating(t)
         /\ Vacating(t) => Vacated(t)' = Vacated(t)
         /\ \A n : TakenOut(t, n)' <=> TakenOut(t, n)
         /\ pc'[t] \in {"write1", "write2"} <=> pc[t] \in {"write1", "write2"}
         /\ Phase(t) = "removed" => (pc'[t] \in {"write3", "removed"} <=> pc[t] \in {"write3", "removed"})
         /\ Vacating(t) => (pc'[t] \in {"write3", "moved"} <=> pc[t] \in {"write3", "moved"})
<1> USE WriteView
<1> HIDE DEF Phase, ForAdd, ForFree, ForPath, Relocating, Adding
<1>1. /\ (pc[t] = "write1" /\ pc'[t] = "write2") \/ (pc[t] = "write3" /\ pc'[t] = Phase(t))
      /\ Phase(t)' = Phase(t)
  OBVIOUS
<1>2. ~ForAdd(t) /\ ~ForAdd(t)'
  BY DEF ForAdd
<1>3. /\ ToBeStored(t)' <=> ToBeStored(t)
      /\ Tentative(t)' <=> Tentative(t)
      /\ CellReady(t)' <=> CellReady(t)
  BY <1>1 DEF ToBeStored, Tentative, CellReady
<1>4. /\ PastPrimary(t)' <=> PastPrimary(t)
      /\ FoundOwn(t)' <=> FoundOwn(t)
      /\ Vacating(t)' <=> Vacating(t)
  BY <1>1, <1>2 DEF PastPrimary, FoundOwn, Vacating
<1>5. Vacating(t) => Vacated(t)' = Vacated(t)
  BY <1>1 DEF Vacated, Vacating
<1>6. \A n : TakenOut(t, n)' <=> TakenOut(t, n)
  BY <1>1 DEF TakenOut, Phase
<1> QED BY <1>1, <1>3, <1>4, <1>5, <1>6 DEF Vacating

(* The counter turns, and what the thread relies on is as before.          *)
LEMMA OwnCounter ==
  ASSUME CInv, PInv, LockInv, NodeInv, NEW t \in Threads, write_entry(t), Others(t),
         pc[t] \in {"write1", "write3"}, cells' = cells,
         stale' = [v \in Threads |-> stale[v] \cup HandlesOn(v, BucketOf(write[t].cell))]
  PROVE  Account(t)'
<1>1. TypeOK /\ Control(t) /\ Account(t)
  BY DEF CInv, NodeInv
<1>2. PICK b \in Buckets : b = BucketOf(write[t].cell)
  BY WritesHeld
<1>3. /\ \A c : c # b => (Clearing(c)' <=> Clearing(c))
      /\ \A h \in Handles : Fresh(t, h)' <=> Fresh(t, h) /\ rl[t][h] # b
  BY <1>1, <1>2, WriteView, CounterTurns
<1> HIDE DEF Phase, ForAdd, ForFree, ForPath, Relocating, Adding
<1>4. FreeInv(t)' /\ MoveCopy(t)' /\ TentativeInv(t)'
  BY <1>1, WriteView, CounterView DEF Account, FreeInv, MoveCopy, TentativeInv
<1>5. FullInv(t)'
  BY <1>1, <1>3, WriteView, CounterView, HandleBuckets DEF Account, FullInv, Full
<1>6. NamesInv(t)' /\ NodesLocked(t)'
  BY <1>1, WriteView, CounterView DEF Account, NamesInv, NodesLocked
<1>7. RemoveInv(t)'
  <2>1. Phase(t) # "remove" /\ Phase(t)' # "remove"
    BY <1>1, WriteView
  <2>2. FoundOwn(t) => Phase(t) = "removed"
    BY <2>1 DEF FoundOwn
  <2> QED BY <1>1, <2>1, <2>2, WriteView, CounterView DEF Account, RemoveInv
<1>8. VacatedInv(t)'
  BY <1>1, WriteView, CounterView DEF Account, VacatedInv
<1> QED BY <1>4, <1>5, <1>6, <1>7, <1>8 DEF Account

(* The root has no name of a node.                                         *)
LEMMA RootIsNoNode == RootId \notin NodeIds
<1>1. SUFFICES ASSUME RootId \in NodeIds PROVE FALSE
  OBVIOUS
<1>2. Len(RootId) = 3
  BY <1>1 DEF NodeIds
<1>3. Len(RootId) = 2
  BY DEF RootId
<1> QED BY <1>2, <1>3

(* The name of the node being added is new, until it is in its cell.       *)
LEMMA NewName ==
  ASSUME CInv, NodeInv, NEW t \in Threads, Adding(t)
  PROVE  /\ NodeId(t) \in NodeIds /\ NodeId(t) # None /\ t \in Writers
         /\ NodeId(t)[1] = t /\ NodeId(t)[2] = op[t].inserts
         /\ \A i \in DOMAIN op[t].added : op[t].added[i].id # NodeId(t)
         /\ \A p \in Cells : cells[p].id = NodeId(t) => Tentative(t) /\ p = add[t].result
<1>1. TypeOK /\ Control(t) /\ Account(t)
  BY DEF CInv, NodeInv
<1>2. NodeId(t) \in NodeIds /\ t \in Writers
  BY <1>1, NodeTypes
<1>3. NodeId(t) # None /\ NodeId(t) # RootId
  BY <1>2, NoneAssumption, RootIsNoNode
<1>4. NodeId(t)[1] = t /\ NodeId(t)[2] = op[t].inserts /\ NodeId(t)[3] = Len(op[t].added) + 1
  BY DEF NodeId, NodeNumber
<1>5. op[t].added \in Seq(Nodes) /\ op[t].inserts \in Nat
  BY <1>1, LocalTypes
<1>6. ASSUME NEW i \in DOMAIN op[t].added PROVE op[t].added[i].id # NodeId(t)
  <2>1. op[t].added[i].id[3] = i
    BY <1>1 DEF Account, NamesInv
  <2>2. i \in 1..Len(op[t].added) /\ Len(op[t].added) \in Nat
    BY <1>5
  <2> QED BY <1>4, <2>1, <2>2
<1>7. ASSUME NEW p \in Cells, cells[p].id = NodeId(t) PROVE Tentative(t) /\ p = add[t].result
  <2>1. Known(NodeId(t), p)
    BY <1>3, <1>7 DEF NodeInv, KnownInv
  <2> HIDE DEF Phase
  <2> QED BY <1>3, <1>4, <1>5, <1>6, <2>1 DEF Known
<1> QED BY <1>2, <1>3, <1>4, <1>6, <1>7

(* The entry is stored, and the thread has changed what it relies on.      *)
LEMMA OwnStore ==
  ASSUME CInv, PInv, LockInv, NodeInv, NEW t \in Threads, write_entry(t), Others(t), pc[t] = "write2",
         stale' = stale, cells' = [cells EXCEPT ![write[t].cell] = write[t].entry]
  PROVE  Account(t)'
<1>1. TypeOK /\ Control(t) /\ Place(t) /\ Account(t)
  BY DEF CInv, PInv, NodeInv
<1>2. cells \in [Cells -> Entries] /\ entry_locks[t] \subseteq Cells
  BY <1>1 DEF TypeOK
<1>3. PICK w \in Cells : w = write[t].cell
  BY WritesHeld
<1>4. /\ cells'[w] = write[t].entry
      /\ \A p \in Cells : p # w => cells'[p] = cells[p]
  BY <1>2, <1>3
<1>5. pc'[t] = "write3" /\ Phase(t)' = Phase(t) /\ \A h : Fresh(t, h)' <=> Fresh(t, h)
  BY <1>1, WriteView DEF Fresh
<1>6. Phase(t) = "moved" => Occupied(t) \in Cells /\ Occupied(t) # w /\ w = rel[t].free
  BY <1>1, <1>3, OccupiedType, MoveBuckets DEF Place, WriteInv
<1>7. Phase(t) \in {"read_unlock", "withdrawn", "moved", "release_free", "removed"} /\ ~ForAdd(t)
  BY <1>1, WriteView
<1>8. /\ Phase(t) \in {"read_unlock", "withdrawn", "release_free"} => w = add[t].result
      /\ Phase(t) = "release_free" => rel[t].ok
      /\ Phase(t) \in {"withdrawn", "release_free", "removed"} => write[t].entry.id = None
      /\ Phase(t) = "removed" => w = find[t].cell
  BY <1>1, <1>3, <1>7 DEF Place, WriteInv, Unused
<1> HIDE DEF Phase, ForAdd, ForFree, ForPath, Relocating, Adding
<1>9. FreeInv(t)'
  <2>1. CellReady(t)' => Phase(t) = "release_free"
    BY <1>5, <1>7 DEF CellReady, ToBeStored, ReleasePhases
  <2> QED BY <1>1, <1>4, <1>8, <2>1, WriteView DEF FreeInv
<1>10. MoveCopy(t)'
  <2>1. Phase(t) = "moved" => write[t].entry = Flipped(cells[Occupied(t)])
    BY <1>1 DEF Account, MoveCopy
  <2> QED BY <1>1, <1>4, <1>5, <1>6, <2>1, WriteView DEF MoveCopy
<1>11. FullInv(t)'
  <2>1. SUFFICES ASSUME PastPrimary(t)', Fresh(t, PRIMARY), ~Clearing(Primary(t))' PROVE Full(Primary(t))'
    BY <1>5 DEF FullInv
  <2>2. PastPrimary(t) /\ Phase(t) = "read_unlock"
    BY <1>1, <1>7, <2>1, WriteView DEF PastPrimary
  <2>3. write[t].entry.id # None /\ Primary(t) \in Buckets
    BY <1>1, <2>2, NewName, NodeTypes DEF Place, WriteInv, Adding
  <2>4. Clearing(Primary(t)) => Clearing(Primary(t))'
    <3>1. \A v \in Threads : v # t => pc'[v] = pc[v]
      BY DEF Others, locals
    <3> QED BY <1>1, <3>1, WriteView DEF Clearing
  <2>5. Full(Primary(t))
    BY <1>1, <2>1, <2>2, <2>4 DEF Account, FullInv
  <2>6. ASSUME NEW c \in CellNumbers PROVE cells'[<<Primary(t), c>>].id # None
    <3>1. <<Primary(t), c>> \in Cells
      BY <2>3 DEF Cells
    <3> QED BY <1>4, <2>3, <2>5, <3>1 DEF Full
  <2> QED BY <1>1, <2>6, WriteView DEF Full
<1>12. TentativeInv(t)'
  <2>1. Tentative(t)' => Phase(t) = "read_unlock"
    BY <1>5, <1>7 DEF Tentative
  <2>2. ASSUME Phase(t) = "read_unlock"
        PROVE  write[t].entry.id = NodeId(t) /\ (write[t].entry.secondary <=> add[t].handle = SECONDARY)
    <3>1. PICK f : f = (add[t].handle = SECONDARY)
      OBVIOUS
    <3>2. write[t].entry = [id |-> NodeId(t), home |-> Primary(t), tag |-> NodeHash(t).tag,
                            color |-> write[t].entry.color, secondary |-> f]
      BY <1>1, <2>2, <3>1, Zenon DEF Place, WriteInv
    <3>3. write[t].entry.id = NodeId(t) /\ write[t].entry.secondary = f
      BY <3>2
    <3> QED BY <3>1, <3>3, Zenon
  <2> QED BY <1>1, <1>4, <1>8, <2>1, <2>2, WriteView DEF TentativeInv
<1>13. NamesInv(t)'
  BY <1>1, WriteView DEF Account, NamesInv
<1>14. RemoveInv(t)'
  <2>1. Phase(t) # "remove" /\ Phase(t)' # "remove"
    BY <1>1, WriteView
  <2>2. FoundOwn(t) <=> FoundOwn(t)'
    BY <1>5, <2>1 DEF FoundOwn
  <2> QED BY <1>1, <1>5, <2>1, <2>2, WriteView DEF Account, RemoveInv
<1>15. VacatedInv(t)'
  <2>1. SUFFICES ASSUME Vacating(t)', cells'[Vacated(t)'].id # None
                 PROVE  \E q \in Cells \ {Vacated(t)'} : cells'[q].id = cells'[Vacated(t)'].id
    BY <1>5 DEF VacatedInv
  <2>2. Phase(t) = "moved" /\ Vacated(t)' = Occupied(t)
    BY <1>1, <1>5, <1>7, <2>1, WriteView DEF Vacating, Vacated
  <2>3. cells[Occupied(t)] \in Entries /\ cells'[w] = Flipped(cells[Occupied(t)])
    BY <1>1, <1>2, <1>4, <1>6, <2>2 DEF Account, MoveCopy
  <2>4. cells'[w].id = cells'[Occupied(t)].id
    BY <1>4, <1>6, <2>2, <2>3 DEF Flipped, Entries
  <2> QED BY <1>6, <2>2, <2>4
<1>16. NodesLocked(t)'
  <2>1. ASSUME NEW i \in DOMAIN op[t].added, ~TakenOut(t, op[t].added[i])',
               Adding(t) \/ Phase(t) \in {"added", "undo", "remove", "removed"}
        PROVE  \E p \in entry_locks[t] : cells'[p].id = op[t].added[i].id
    <3>1. ~TakenOut(t, op[t].added[i])
      BY DEF TakenOut
    <3>2. PICK p \in entry_locks[t] : cells[p].id = op[t].added[i].id
      BY <1>1, <1>7, <2>1, <3>1 DEF Account, NodesLocked
    <3>3. op[t].added[i].id # None
      <4>1. PICK s \in Seq(Nodes) : s = op[t].added
        BY <1>1, LocalTypes
      <4>2. s[i] \in Nodes
        BY <4>1
      <4> QED BY <4>1, <4>2, NoneAssumption DEF Nodes
    <3>4. p # w
      <4>1. CASE Phase(t) = "read_unlock"
        BY <1>1, <1>8, <3>2, <3>3, <4>1 DEF Account, FreeInv, CellReady, ToBeStored
      <4>2. CASE Phase(t) = "withdrawn"
        <5>1. cells[w].id = NodeId(t)
          BY <1>1, <1>8, <4>2 DEF Account, TentativeInv, Tentative
        <5> QED BY <3>2, <4>2, <5>1, NewName DEF Adding
      <4>3. CASE Phase(t) \in {"moved", "release_free"}
        <5>1. Vacating(t) /\ Vacated(t) = w
          BY <1>6, <1>8, <4>3 DEF Vacating, Vacated
        <5> QED BY <1>1, <3>2, <3>3, <5>1 DEF Account, VacatedInv
      <4>4. CASE Phase(t) = "removed"
        <5>1. op[t].added # <<>> /\ find[t].node = op[t].added[UndoIndex(t)] /\ cells[w].id = find[t].node.id
          BY <1>1, <1>8, <4>4 DEF Control, InsertInv, Account, RemoveInv, FoundOwn
        <5>2. UndoIndex(t) \in DOMAIN op[t].added
          BY <1>1, <5>1, RestOfNodes
        <5>3. op[t].added[i] # find[t].node
          BY <1>1, <1>5, <2>1, <4>4, WriteView DEF TakenOut, Phase
        <5> QED BY <1>1, <3>2, <5>1, <5>2, <5>3 DEF Account, NamesInv
      <4> QED BY <1>7, <4>1, <4>2, <4>3, <4>4
    <3> QED BY <1>2, <1>4, <3>2, <3>4
  <2>2. Phase(t) = "read_unlock" => add[t].result \in entry_locks[t] \/ NodeNumber(t) = Len(op[t].plan)
    BY <1>1 DEF Account, NodesLocked
  <2> QED BY <1>1, <2>1, <2>2, WriteView DEF NodesLocked
<1> QED BY <1>9, <1>10, <1>11, <1>12, <1>13, <1>14, <1>15, <1>16 DEF Account

(* Where a thread relies on nothing but the nodes it has added.            *)
RestPhases ==
  {"idle", "retry", "found", "add", "add2", "scan_primary", "relocate", "search", "search_lock",
   "search_scan", "relocate_failed", "undo", "release", "release_retry", "publish", "added", "withdrawn"}

(* There all parts of its account but two are about other phases.          *)
LEMMA AtRest ==
  ASSUME NEW t \in Threads, Phase(t)' \in RestPhases, pc'[t] \notin WritePcs
  PROVE  FreeInv(t)' /\ MoveCopy(t)' /\ FullInv(t)' /\ TentativeInv(t)' /\ RemoveInv(t)' /\ VacatedInv(t)'
<1>1. pc'[t] \notin UpgradePcs \cup {"put", "scan_secondary", "move", "moved", "remove", "removed", "read_unlock",
                                     "release_free", "release_path"}
  BY DEF RestPhases
<1>2. Phase(t)' \notin {"put", "scan_secondary", "move", "moved", "remove", "removed", "read_unlock",
                        "release_free", "release_path"}
  BY DEF RestPhases
<1>3. ~ForAdd(t)' /\ ~ForFree(t)' /\ ~ForPath(t)'
  BY <1>1
<1> HIDE DEF Phase, ForAdd, ForFree, ForPath, Relocating, Adding
<1>4. ~CellReady(t)' /\ ~PastPrimary(t)' /\ ~Tentative(t)' /\ ~FoundOwn(t)' /\ ~Vacating(t)'
  BY <1>1, <1>2, <1>3 DEF CellReady, ToBeStored, PastPrimary, Tentative, FoundOwn, Vacating
<1> QED BY <1>2, <1>3, <1>4 DEF FreeInv, MoveCopy, FullInv, TentativeInv, RemoveInv, VacatedInv

(* The nodes an insert has added are where they were.                      *)
LEMMA KeepsNodes ==
  ASSUME NEW t \in Threads, Account(t), op'[t] = op[t], entry_locks'[t] = entry_locks[t], cells' = cells,
         Adding(t)' => Adding(t), Phase(t)' = "added" => Phase(t) = "added",
         Phase(t)' \in {"undo", "remove", "removed"} => Adding(t) \/ Phase(t) \in {"undo", "remove", "removed"},
         Phase(t)' = "release_retry" => op[t].added = <<>> \/ Phase(t) = "release_retry",
         Phase(t)' = "read_unlock" => Phase(t) = "read_unlock" /\ add'[t] = add[t],
         \A n : TakenOut(t, n) => TakenOut(t, n)'
  PROVE  NamesInv(t)' /\ NodesLocked(t)'
<1> HIDE DEF Phase, ForAdd, ForFree, ForPath, Relocating, Adding
<1>1. NamesInv(t)'
  BY DEF Account, NamesInv
<1>2. ~(Adding(t) /\ Phase(t) = "added")
  BY DEF Adding, Relocating, ForFree, ForPath, Phase
<1>3. NodesLocked(t)'
  BY <1>2 DEF Account, NodesLocked, NodeNumber
<1> QED BY <1>1, <1>3

(* An insert without nodes, and no insert at all.                          *)
LEMMA NoNodes ==
  ASSUME NEW t \in Threads, op'[t].added = <<>>, Phase(t)' # "read_unlock"
  PROVE  NamesInv(t)' /\ NodesLocked(t)'
<1>1. DOMAIN op'[t].added = {}
  BY DEF Phase
<1> HIDE DEF Phase, ForAdd, ForFree, ForPath, Relocating, Adding
<1> QED BY <1>1 DEF NamesInv, NodesLocked

(* Steps to a point where only the added nodes matter.                     *)
LEMMA RestAccount ==
  ASSUME CInv, NodeInv, NEW t \in Threads, cells' = cells,
         \/ ReadLockPrimary(t) \/ ReadLockSecondary(t) \/ Relocate(t) \/ SearchExamine(t) \/ SearchReadLock(t)
         \/ SearchFailed(t) \/ RelocateFailed(t) \/ AddReturn(t)
         \/ Publish(t) \/ Retry(t) \/ ReleaseAllNext(t) \/ BeginLookup(t)
         \/ BeginInsert(t) \/ RetryInsert(t) \/ InsertReturn(t) \/ LookupReturn(t)
  PROVE  Account(t)'
<1>1. TypeOK /\ Control(t) /\ Account(t)
  BY DEF CInv, NodeInv
<1>2. /\ pc \in [Threads -> Labels] /\ DOMAIN op = Threads /\ DOMAIN entry_locks = Threads /\ DOMAIN find = Threads
      /\ \A v \in Threads : op[v] = [inserts |-> op[v].inserts, plan |-> op[v].plan, added |-> op[v].added]
  BY <1>1 DEF TypeOK
<1>3. SUFFICES Phase(t)' \in RestPhases /\ pc'[t] \notin WritePcs /\ NamesInv(t)' /\ NodesLocked(t)'
  BY AtRest DEF Account
<1>4. CASE ReadLockPrimary(t) \/ ReadLockSecondary(t) \/ Relocate(t) \/ SearchExamine(t) \/ SearchReadLock(t)
  <2>1. /\ op' = op /\ entry_locks' = entry_locks
        /\ pc[t] \in {"add", "add2", "relocate"} \cup SearchPhases
        /\ pc'[t] \in {"add2", "scan_primary"} \cup SearchPhases
    BY <1>2, <1>4 DEF ReadLockPrimary, ReadLockSecondary, Relocate, SearchExamine, SearchReadLock
  <2>2. Adding(t) /\ \A n : ~TakenOut(t, n)
    BY <2>1 DEF TakenOut
  <2>3. Phase(t)' = pc'[t]
    BY <2>1
  <2> HIDE DEF Phase, Adding
  <2> QED BY <1>1, <2>1, <2>2, <2>3, KeepsNodes DEF RestPhases
<1>5. CASE SearchFailed(t) \/ RelocateFailed(t) \/ Publish(t)
  <2>1. /\ op' = op /\ entry_locks' = entry_locks
        /\ pc[t] \in {"search", "relocate_failed", "publish"}
        /\ pc'[t] = IF pc[t] = "relocate_failed" THEN "undo" ELSE "release"
    BY <1>2, <1>5 DEF SearchFailed, RelocateFailed, Publish
  <2>2. /\ pc[t] = "relocate_failed" => Adding(t)
        /\ \A n : ~TakenOut(t, n)
        /\ ~Adding(t)'
    BY <2>1 DEF TakenOut
  <2>3. Phase(t)' = pc'[t]
    BY <2>1
  <2> HIDE DEF Phase, Adding
  <2> QED BY <1>1, <2>1, <2>2, <2>3, KeepsNodes DEF RestPhases
<1>6. CASE Retry(t)
  <2>1. /\ op' = op /\ pc'[t] = "release_retry" /\ op[t].added = <<>>
    BY <1>2, <1>6 DEF Retry
  <2> QED BY <2>1, NoNodes DEF RestPhases
<1>7. CASE ReleaseAllNext(t)
  <2>1. /\ op' = op /\ pc' = pc /\ pc[t] \in {"release", "release_retry"}
    BY <1>7 DEF ReleaseAllNext
  <2>2. Phase(t)' = pc[t] /\ Phase(t) = pc[t] /\ ~Adding(t)'
    BY <2>1
  <2> HIDE DEF Phase, Adding
  <2>3. NamesInv(t)' /\ NodesLocked(t)'
    BY <1>1, <2>1, <2>2 DEF Account, NamesInv, NodesLocked
  <2> QED BY <2>1, <2>2, <2>3 DEF RestPhases
<1>8. CASE BeginLookup(t)
  <2>1. /\ op' = op /\ entry_locks' = entry_locks /\ pc[t] = "idle" /\ pc'[t] = "find1" /\ find'[t].then = "found"
    BY <1>2, <1>8 DEF BeginLookup, CallFind
  <2>2. Phase(t)' = "found" /\ ~Adding(t)' /\ \A n : ~TakenOut(t, n)
    BY <2>1 DEF TakenOut
  <2> HIDE DEF Phase, Adding
  <2> QED BY <1>1, <2>1, <2>2, KeepsNodes DEF RestPhases
<1>9. CASE BeginInsert(t) \/ RetryInsert(t)
  <2>1. pc[t] \in {"idle", "retry"} /\ pc'[t] = "add" /\ \E plan : op' = [op EXCEPT ![t].plan = plan]
    BY <1>2, <1>9 DEF BeginInsert, RetryInsert, ChoosePlan
  <2>2. op[t].added = <<>>
    BY <1>1, <2>1 DEF Control, InsertInv
  <2>3. op'[t].added = <<>>
    BY <1>2, <2>1, <2>2
  <2> QED BY <2>1, <2>3, NoNodes DEF RestPhases
<1>10. CASE InsertReturn(t) \/ LookupReturn(t)
  <2>1. pc'[t] \in {"idle", "retry"} /\ \E n : op' = [op EXCEPT ![t] = NoInsert(n)]
    BY <1>2, <1>10 DEF InsertReturn, LookupReturn, Return
  <2>2. op'[t].added = <<>>
    BY <1>2, <2>1 DEF NoInsert
  <2> QED BY <2>1, <2>2, NoNodes DEF RestPhases
<1>11. CASE AddReturn(t)
  <2>1. /\ op' = op /\ entry_locks' = entry_locks /\ add' = add /\ pc[t] \in {"added", "withdrawn"}
        /\ pc[t] = "withdrawn" => pc'[t] = "undo"
        /\ pc[t] = "added" => pc'[t] = IF NodeNumber(t) > Len(op[t].plan) THEN "publish" ELSE "add"
    BY <1>2, <1>11 DEF AddReturn
  <2>2. Phase(t) = pc[t] /\ Phase(t)' = pc'[t] /\ (\A n : ~TakenOut(t, n)) /\ (\A n : ~TakenOut(t, n)')
        /\ (pc'[t] \in {"undo", "publish"} => ~Adding(t)')
        /\ (pc[t] = "withdrawn" => Adding(t))
    BY <2>1 DEF TakenOut
  <2>3. pc[t] = "added" => op[t].added \in Seq(Nodes) /\ Len(op[t].plan) \in Nat /\ Len(op[t].added) \in Nat
    BY <1>1, LocalTypes, <2>2 DEF Control, InsertInv
  <2>4. Phase(t)' \in RestPhases /\ pc'[t] \notin WritePcs
    BY <2>1, <2>2 DEF RestPhases
  <2> HIDE DEF Phase, Adding
  <2>5. CASE pc[t] = "withdrawn"
    BY <1>1, <2>1, <2>2, <2>4, <2>5, KeepsNodes
  <2>6. CASE pc[t] = "added"
    <3>1. NamesInv(t)'
      BY <1>1, <2>1, <2>2, <2>6 DEF Account, NamesInv
    <3>2. pc'[t] = "add" => \A i \in DOMAIN op[t].added : i # Len(op[t].plan)
      BY <2>1, <2>3, <2>6 DEF NodeNumber
    <3>3. NodesLocked(t)'
      BY <1>1, <2>1, <2>2, <2>6, <3>2 DEF Account, NodesLocked
    <3> QED BY <2>4, <3>1, <3>3
  <2> QED BY <2>1, <2>5, <2>6
<1> QED BY <1>4, <1>5, <1>6, <1>7, <1>8, <1>9, <1>10, <1>11

(* What find_free_cell_in_bucket says about a bucket.                      *)
LEMMA FreeCell ==
  ASSUME TypeOK, LockInv, ~scenario.buffered, NEW t \in Threads, NEW b \in Buckets
  PROVE  /\ find_free_cell_in_bucket(t, b) # None =>
              /\ find_free_cell_in_bucket(t, b) \in Cells
              /\ cells[find_free_cell_in_bucket(t, b)].id = None
         /\ find_free_cell_in_bucket(t, b) = None => Full(b)
<1>1. \A p : Seen(t, p) = cells[p]
  BY SeenIsMemory
<1>2. ASSUME NEW c \in CellNumbers, cells[<<b, c>>].id = None PROVE find_free_cell_in_bucket(t, b) # None
  <2> DEFINE free == {d \in CellNumbers : Seen(t, <<b, d>>).id = None}
  <2>1. c \in free
    BY <1>1, <1>2
  <2>2. free \in SUBSET Nat
    BY DEF CellNumbers
  <2>3. Min(free) \in free
    BY <2>1, <2>2, Smallest
  <2>4. find_free_cell_in_bucket(t, b) = <<b, Min(free)>>
    BY <2>1, Zenon DEF find_free_cell_in_bucket
  <2>5. <<b, Min(free)>> \in Cells
    BY <2>3 DEF Cells
  <2> QED BY <2>4, <2>5, NoneAssumption
<1> QED BY <1>1, <1>2, FreeCellType DEF Full

(* add_entry has looked for a free cell.                                   *)
LEMMA ScanAccount ==
  ASSUME CInv, LockInv, NodeInv, ~scenario.buffered, NEW t \in Threads, cells' = cells,
         ScanPrimary(t) \/ ScanSecondary(t)
  PROVE  Account(t)'
<1>1. TypeOK /\ Control(t) /\ Account(t)
  BY DEF CInv, NodeInv
<1>2. pc[t] \in {"scan_primary", "scan_secondary"} /\ Adding(t) /\ Phase(t) = pc[t] /\ \A n : ~TakenOut(t, n)
  BY DEF ScanPrimary, ScanSecondary, TakenOut
<1>3. pc \in [Threads -> Labels] /\ DOMAIN add = Threads /\ DOMAIN up = Threads
  BY <1>1 DEF TypeOK
<1>4. Primary(t) \in Buckets /\ Secondary(t) \in Buckets /\ PRIMARY # SECONDARY
  BY <1>1, <1>2, NodeTypes, HandleTypes
<1>5. PICK p : p = find_free_cell_in_bucket(t, IF pc[t] = "scan_primary" THEN Primary(t) ELSE Secondary(t))
  OBVIOUS
<1>6. /\ p # None => cells[p].id = None
      /\ p = None /\ pc[t] = "scan_primary" => Full(Primary(t))
  BY <1>1, <1>2, <1>4, <1>5, FreeCell
<1>7. op' = op /\ entry_locks' = entry_locks /\ stale' = stale
  BY DEF ScanPrimary, ScanSecondary
<1>8. \/ /\ pc'[t] = "scan_secondary" /\ p = None /\ pc[t] = "scan_primary"
      \/ /\ pc'[t] = "upgrade" /\ add'[t].result = p /\ add'[t].handle \in {PRIMARY, SECONDARY}
         /\ add'[t].handle = SECONDARY => pc[t] = "scan_secondary"
  <2>1. CASE ScanPrimary(t)
    BY <1>3, <1>4, <1>5, <2>1 DEF ScanPrimary, ChooseCell, CallUpgrade
  <2>2. CASE ScanSecondary(t)
    BY <1>3, <1>4, <1>5, <2>2 DEF ScanSecondary, ChooseCell, CallUpgrade
  <2> QED BY <2>1, <2>2
<1>9. Phase(t)' = pc'[t] /\ pc'[t] \in {"scan_secondary", "upgrade"}
  BY <1>8 DEF TakenOut
<1>10. Primary(t)' = Primary(t) /\ (\A h : Fresh(t, h)' <=> Fresh(t, h))
  BY <1>7 DEF Primary, NodeHash, NodeNumber, Fresh
<1>11. NamesInv(t)' /\ NodesLocked(t)'
  BY <1>1, <1>2, <1>7, <1>9, KeepsNodes
<1>12. ~ForFree(t)' /\ ~ForPath(t)'
  <2>1. pc'[t] = "upgrade" => up'[t] \in {PRIMARY, SECONDARY}
    <3>1. CASE ScanPrimary(t)
      BY <1>3, <1>5, <3>1 DEF ScanPrimary, ChooseCell, CallUpgrade
    <3>2. CASE ScanSecondary(t)
      BY <1>3, <1>5, <3>2 DEF ScanSecondary, ChooseCell, CallUpgrade
    <3> QED BY <3>1, <3>2
  <2> QED BY <1>9, <2>1, HandleTypes
<1> HIDE DEF Phase, ForAdd, ForFree, ForPath, Relocating, Adding
<1>13. ~CellReady(t)' /\ ~Tentative(t)' /\ ~FoundOwn(t)' /\ ~Vacating(t)'
  BY <1>9 DEF CellReady, ToBeStored, Tentative, FoundOwn, Vacating, ReleasePhases, MovePhases
<1>14. FreeInv(t)'
  <2>1. ForAdd(t)' => add'[t].result = p
    BY <1>8 DEF ForAdd, UpgradePcs
  <2> QED BY <1>6, <1>12, <1>13, <2>1 DEF FreeInv
<1>15. FullInv(t)'
  <2>1. SUFFICES ASSUME PastPrimary(t)', Fresh(t, PRIMARY) PROVE Full(Primary(t)) \/ Clearing(Primary(t))'
    BY <1>10 DEF FullInv, Full, Clearing
  <2>2. CASE pc[t] = "scan_primary"
    <3>1. p = None
      BY <1>4, <1>8, <1>9, <2>1, <2>2 DEF PastPrimary
    <3> QED BY <1>6, <2>2, <3>1
  <2>3. CASE pc[t] = "scan_secondary"
    <3>1. PastPrimary(t) /\ write' = write
      BY <1>2, <2>3 DEF PastPrimary, ScanPrimary, ScanSecondary
    <3>2. Full(Primary(t)) \/ Clearing(Primary(t))
      BY <1>1, <2>1, <3>1 DEF Account, FullInv
    <3>3. \A v \in Threads : v # t => pc'[v] = pc[v]
      BY <1>3 DEF ScanPrimary, ScanSecondary, ChooseCell, CallUpgrade
    <3>4. Clearing(Primary(t)) => Clearing(Primary(t))'
      BY <1>10, <2>3, <3>1, <3>3 DEF Clearing
    <3> QED BY <3>2, <3>4
  <2> QED BY <1>2, <2>2, <2>3
<1> QED BY <1>9, <1>11, <1>13, <1>14, <1>15 DEF Account, MoveCopy, TentativeInv, RemoveInv, VacatedInv

(* relocate_entry has looked for a free cell.                              *)
LEMMA SearchScanAccount ==
  ASSUME CInv, LockInv, NodeInv, ~scenario.buffered, NEW t \in Threads, cells' = cells, SearchScan(t)
  PROVE  Account(t)'
<1>1. TypeOK /\ Control(t) /\ Account(t)
  BY DEF CInv, NodeInv
<1>2. pc[t] = "search_scan" /\ Adding(t) /\ Phase(t) = pc[t] /\ \A n : ~TakenOut(t, n)
  BY DEF SearchScan, TakenOut
<1>3. op' = op /\ entry_locks' = entry_locks /\ pc \in [Threads -> Labels] /\ DOMAIN up = Threads /\ DOMAIN rel = Threads
  BY <1>1 DEF SearchScan, TypeOK
<1>4. rel[t] \in Relocations /\ rel[t].child_bucket \in Buckets
  BY <1>1, <1>2, QueueFacts
<1>5. PICK p : p = find_free_cell_in_bucket(t, rel[t].child_bucket)
  OBVIOUS
<1>6. p # None => cells[p].id = None
  BY <1>1, <1>4, <1>5, FreeCell
<1>7. \/ pc'[t] = "search"
      \/ pc'[t] = "upgrade" /\ up'[t] = FREE /\ p # None /\ rel' = [rel EXCEPT ![t].free = p, ![t].child = rel[t].i]
  BY <1>3, <1>5 DEF SearchScan, CallUpgrade
<1>8. NamesInv(t)' /\ NodesLocked(t)'
  <2>1. Phase(t)' = pc'[t]
    BY <1>7
  <2> HIDE DEF Phase, Adding
  <2> QED BY <1>1, <1>2, <1>3, <1>7, <2>1, KeepsNodes
<1>9. CASE pc'[t] = "search"
  BY <1>8, <1>9, AtRest DEF Account, RestPhases
<1>10. CASE pc'[t] = "upgrade" /\ up'[t] = FREE /\ p # None /\ rel' = [rel EXCEPT ![t].free = p, ![t].child = rel[t].i]
  <2>1. rel'[t].free = p
    BY <1>3, <1>4, <1>10 DEF Relocations
  <2>2. Phase(t)' = "upgrade" /\ ~ForAdd(t)' /\ ~ForPath(t)'
    BY <1>10, HandleTypes
  <2> HIDE DEF Phase, ForAdd, ForFree, ForPath, Relocating, Adding
  <2>3. ~CellReady(t)' /\ ~Tentative(t)' /\ ~FoundOwn(t)' /\ ~Vacating(t)' /\ ~PastPrimary(t)'
    BY <1>10, <2>2 DEF CellReady, ToBeStored, Tentative, FoundOwn, Vacating, PastPrimary
  <2>4. FreeInv(t)'
    BY <1>6, <1>10, <2>1, <2>2, <2>3 DEF FreeInv
  <2> QED BY <1>8, <2>2, <2>3, <2>4 DEF Account, MoveCopy, FullInv, TentativeInv, RemoveInv, VacatedInv
<1> QED BY <1>7, <1>9, <1>10

(* relocate_entry gives up its locks and returns.                          *)
LEMMA ReleaseAccount ==
  ASSUME CInv, NodeInv, NEW t \in Threads, cells' = cells,
         ReleaseFree(t) \/ ReleasePath(t) \/ RelocateReturn(t)
  PROVE  Account(t)'
<1>1. TypeOK /\ Control(t) /\ Account(t)
  BY DEF CInv, NodeInv
<1>2. pc[t] \in ReleasePhases /\ Adding(t) /\ Phase(t) = pc[t] /\ \A n : ~TakenOut(t, n)
  BY DEF ReleaseFree, ReleasePath, RelocateReturn, TakenOut
<1>3. /\ op' = op /\ entry_locks' = entry_locks /\ add' = add
      /\ pc \in [Threads -> Labels] /\ DOMAIN rel = Threads
  BY <1>1 DEF ReleaseFree, ReleasePath, RelocateReturn, TypeOK
<1>4. rel[t] \in Relocations /\ add[t].handle = PRIMARY /\ PRIMARY # SECONDARY
  BY <1>1, <1>2, QueueFacts, HandleTypes DEF Control, AddInv
<1>5. pc'[t] \in {"release_path", "put", "relocate_failed"} /\ rel'[t].ok = rel[t].ok
      /\ (pc'[t] = "put" => rel[t].ok)
  <2>1. CASE ReleaseFree(t)
    BY <1>3, <1>4, <2>1 DEF ReleaseFree, Relocations
  <2>2. CASE ReleasePath(t)
    BY <1>3, <1>4, <2>2 DEF ReleasePath, Relocations
  <2>3. CASE RelocateReturn(t)
    BY <1>3, <1>4, <2>3 DEF RelocateReturn
  <2> QED BY <2>1, <2>2, <2>3
<1>6. Phase(t)' = pc'[t] /\ ~ForAdd(t)' /\ ~ForFree(t)' /\ ~ForPath(t)'
  BY <1>5
<1>7. NamesInv(t)' /\ NodesLocked(t)'
  <2> HIDE DEF Phase, Adding
  <2> QED BY <1>1, <1>2, <1>3, <1>5, <1>6, KeepsNodes
<1> HIDE DEF Phase, ForAdd, ForFree, ForPath, Relocating, Adding
<1>8. ~Tentative(t)' /\ ~FoundOwn(t)' /\ ~Vacating(t)' /\ ~PastPrimary(t)'
  BY <1>3, <1>4, <1>5, <1>6 DEF Tentative, FoundOwn, Vacating, PastPrimary
<1>9. CellReady(t)' => CellReady(t)
  BY <1>2, <1>5, <1>6 DEF CellReady, ToBeStored
<1>10. FreeInv(t)'
  BY <1>1, <1>3, <1>6, <1>9 DEF Account, FreeInv
<1> QED BY <1>5, <1>6, <1>7, <1>8, <1>10 DEF Account, MoveCopy, FullInv, TentativeInv, RemoveInv, VacatedInv

(* The entry of the new node is prepared.                                  *)
LEMMA PutAccount ==
  ASSUME CInv, NodeInv, NEW t \in Threads, cells' = cells, PutEntry(t)
  PROVE  Account(t)'
<1>1. TypeOK /\ Control(t) /\ Account(t)
  BY DEF CInv, NodeInv
<1>2. pc[t] = "put" /\ Adding(t) /\ Phase(t) = "put"
  BY DEF PutEntry
<1>3. /\ op' = op /\ add' = add /\ stale' = stale
      /\ pc \in [Threads -> Labels] /\ DOMAIN entry_locks = Threads /\ DOMAIN write = Threads
  BY <1>1 DEF PutEntry, TypeOK
<1>4. pc'[t] = "write1" /\ write'[t].then = "read_unlock" /\ write'[t].cell = add[t].result
  BY <1>3 DEF PutEntry, CallWrite
<1>5. /\ entry_locks[t] \subseteq entry_locks'[t]
      /\ add[t].result \in entry_locks'[t] \/ NodeNumber(t) = Len(op[t].plan)
  BY <1>3 DEF PutEntry
<1>6. Phase(t)' = "read_unlock" /\ ~ForAdd(t)' /\ ~ForFree(t)' /\ ~ForPath(t)' /\ ~ForAdd(t)
  BY <1>2, <1>4
<1>7. Primary(t)' = Primary(t) /\ NodeNumber(t)' = NodeNumber(t) /\ (\A h : Fresh(t, h)' <=> Fresh(t, h))
  BY <1>3 DEF Primary, NodeHash, NodeNumber, Fresh
<1>8. \A v \in Threads : v # t => pc'[v] = pc[v] /\ write'[v] = write[v]
  BY <1>3 DEF PutEntry, CallWrite
<1> HIDE DEF Phase, ForAdd, ForFree, ForPath, Relocating, Adding
<1>9. ~Tentative(t)' /\ ~FoundOwn(t)' /\ ~Vacating(t)' /\ (PastPrimary(t)' => PastPrimary(t)) /\ CellReady(t)
  BY <1>2, <1>3, <1>4, <1>6 DEF Tentative, FoundOwn, Vacating, PastPrimary, CellReady
<1>10. FreeInv(t)'
  BY <1>1, <1>3, <1>6, <1>9 DEF Account, FreeInv
<1>11. FullInv(t)'
  <2>1. Clearing(Primary(t)) => Clearing(Primary(t))'
    BY <1>2, <1>7, <1>8 DEF Clearing
  <2> QED BY <1>1, <1>7, <1>9, <2>1 DEF Account, FullInv, Full
<1>12. NamesInv(t)'
  BY <1>1, <1>2, <1>3, <1>6 DEF Account, NamesInv
<1>13. NodesLocked(t)'
  <2>1. \A n : ~TakenOut(t, n)
    BY <1>2 DEF TakenOut
  <2>2. \A i \in DOMAIN op[t].added : \E p \in entry_locks[t] : cells[p].id = op[t].added[i].id
    BY <1>1, <1>2, <2>1 DEF Account, NodesLocked
  <2> QED BY <1>3, <1>5, <1>6, <1>7, <2>2 DEF NodesLocked
<1> QED BY <1>6, <1>9, <1>10, <1>11, <1>12, <1>13 DEF Account, MoveCopy, TentativeInv, RemoveInv, VacatedInv

(* The node is accepted, or its entry is to be withdrawn.                  *)
LEMMA ReadUnlockAccount ==
  ASSUME CInv, NodeInv, NEW t \in Threads, cells' = cells, ReadUnlock(t)
  PROVE  Account(t)'
<1>1. TypeOK /\ Control(t) /\ Account(t)
  BY DEF CInv, NodeInv
<1>2. pc[t] = "read_unlock" /\ Adding(t) /\ Phase(t) = "read_unlock" /\ Tentative(t)
  BY DEF ReadUnlock, Tentative
<1>3. /\ add' = add /\ entry_locks' = entry_locks
      /\ pc \in [Threads -> Labels] /\ DOMAIN write = Threads /\ DOMAIN op = Threads
      /\ op[t] = [inserts |-> op[t].inserts, plan |-> op[t].plan, added |-> op[t].added]
  BY <1>1 DEF ReadUnlock, TypeOK
<1>4. op[t].added \in Seq(Nodes) /\ Len(op[t].added) \in Nat /\ DOMAIN op[t].added = 1..Len(op[t].added)
  BY <1>1, LocalTypes
<1>5. CASE Fresh(t, AlternateHandle(t))
  <2>1. pc'[t] = "added" /\ op' = [op EXCEPT ![t].added = Append(op[t].added, AddedNode(t))]
    BY <1>3, <1>5 DEF ReadUnlock
  <2>2. op'[t].inserts = op[t].inserts /\ op'[t].plan = op[t].plan /\ op'[t].added = Append(op[t].added, AddedNode(t))
    BY <1>3, <2>1
  <2>3. /\ DOMAIN op'[t].added = 1..(Len(op[t].added) + 1)
        /\ \A i \in DOMAIN op[t].added : op'[t].added[i] = op[t].added[i]
        /\ op'[t].added[Len(op[t].added) + 1] = AddedNode(t)
    BY <1>4, <2>2
  <2>4. /\ AddedNode(t).id = NodeId(t) /\ NodeId(t)[1] = t /\ NodeId(t)[2] = op[t].inserts
        /\ NodeId(t)[3] = Len(op[t].added) + 1
    BY DEF AddedNode, NodeId, NodeNumber
  <2>5. /\ \A i \in DOMAIN op[t].added :
             op[t].added[i].id[1] = t /\ op[t].added[i].id[2] = op[t].inserts /\ op[t].added[i].id[3] = i
        /\ \A i \in DOMAIN op[t].added : op[t].added[i].id # NodeId(t)
        /\ \A i, j \in DOMAIN op[t].added : op[t].added[i].id = op[t].added[j].id => i = j
    BY <1>1, <1>2, NewName DEF Account, NamesInv
  <2>6. Phase(t)' = "added" /\ ~Adding(t)'
    BY <2>1
  <2> HIDE DEF Phase, Adding
  <2>7. \A i \in DOMAIN op'[t].added : i \in DOMAIN op[t].added \/ i = Len(op[t].added) + 1
    BY <1>4, <2>3
  <2>8. NamesInv(t)'
    <3>1. \A i \in DOMAIN op'[t].added :
            op'[t].added[i].id[1] = t /\ op'[t].added[i].id[2] = op'[t].inserts /\ op'[t].added[i].id[3] = i
      BY <2>2, <2>3, <2>4, <2>5, <2>7
    <3>2. \A i, j \in DOMAIN op'[t].added : op'[t].added[i].id = op'[t].added[j].id => i = j
      BY <3>1
    <3> QED BY <2>6, <3>1, <3>2 DEF NamesInv
  <2>9. NodesLocked(t)'
    <3>1. \A n : ~TakenOut(t, n)
      BY <1>2 DEF TakenOut
    <3>2. \A i \in DOMAIN op[t].added : \E p \in entry_locks[t] : cells[p].id = op[t].added[i].id
      BY <1>1, <1>2, <3>1 DEF Account, NodesLocked
    <3>3. Len(op[t].added) + 1 # Len(op[t].plan) => add[t].result \in entry_locks[t]
      BY <1>1, <1>2 DEF Account, NodesLocked, NodeNumber
    <3>4. cells[add[t].result].id = NodeId(t)
      BY <1>1, <1>2 DEF Account, TentativeInv
    <3>5. ASSUME NEW i \in DOMAIN op'[t].added, i # Len(op[t].plan)
          PROVE  \E p \in entry_locks[t] : cells[p].id = op'[t].added[i].id
      <4>1. CASE i \in DOMAIN op[t].added
        BY <2>3, <3>2, <4>1
      <4>2. CASE i = Len(op[t].added) + 1
        BY <2>3, <2>4, <3>3, <3>4, <3>5, <4>2
      <4> QED BY <2>7, <4>1, <4>2
    <3> QED BY <1>3, <2>2, <2>6, <3>5 DEF NodesLocked
  <2> QED BY <2>1, <2>6, <2>8, <2>9, AtRest DEF Account, RestPhases
<1>6. CASE ~Fresh(t, AlternateHandle(t))
  <2>1. op' = op /\ pc'[t] = "write1" /\ write'[t].then = "withdrawn"
    BY <1>3, <1>6 DEF ReadUnlock, CallWrite
  <2>2. Phase(t)' = "withdrawn" /\ ~ForAdd(t)' /\ ~ForFree(t)' /\ ~ForPath(t)' /\ \A n : ~TakenOut(t, n)
    BY <1>2, <2>1 DEF TakenOut
  <2>3. NodeId(t)' = NodeId(t)
    BY <2>1 DEF NodeId, NodeNumber
  <2> HIDE DEF Phase, ForAdd, ForFree, ForPath, Relocating, Adding
  <2>4. NamesInv(t)' /\ NodesLocked(t)'
    BY <1>1, <1>2, <1>3, <2>1, <2>2, KeepsNodes
  <2>5. ~CellReady(t)' /\ ~FoundOwn(t)' /\ ~Vacating(t)' /\ ~PastPrimary(t)'
    BY <2>1, <2>2 DEF CellReady, ToBeStored, FoundOwn, Vacating, PastPrimary
  <2>6. TentativeInv(t)'
    BY <1>1, <1>2, <1>3, <2>2, <2>3 DEF Account, TentativeInv
  <2> QED BY <2>2, <2>4, <2>5, <2>6 DEF Account, FreeInv, MoveCopy, FullInv, RemoveInv, VacatedInv
<1> QED BY <1>5, <1>6

(* An entry is going to be copied.                                         *)
LEMMA MoveEntryAccount ==
  ASSUME CInv, LockInv, NodeInv, ~scenario.buffered, NEW t \in Threads, cells' = cells, MoveEntry(t)
  PROVE  Account(t)'
<1>1. TypeOK /\ Control(t) /\ Account(t)
  BY DEF CInv, NodeInv
<1>2. pc[t] = "move" /\ Adding(t) /\ Phase(t) = "move" /\ \A n : ~TakenOut(t, n)
  BY DEF MoveEntry, TakenOut
<1>3. /\ op' = op /\ rel' = rel /\ entry_locks' = entry_locks
      /\ pc \in [Threads -> Labels] /\ DOMAIN write = Threads
  BY <1>1 DEF MoveEntry, TypeOK
<1>4. /\ pc'[t] = "write1" /\ write'[t].then = "moved"
      /\ write'[t].entry = Flipped(cells[Occupied(t)])
  BY <1>3, SeenIsMemory DEF MoveEntry, CallWrite, Flipped
<1>5. /\ Phase(t)' = "moved" /\ ~ForAdd(t)' /\ ~ForFree(t)' /\ ~ForPath(t)' /\ Occupied(t)' = Occupied(t)
  BY <1>3, <1>4 DEF Occupied
<1> HIDE DEF Phase, ForAdd, ForFree, ForPath, Relocating, Adding
<1>6. NamesInv(t)' /\ NodesLocked(t)'
  BY <1>1, <1>2, <1>3, <1>5, KeepsNodes
<1>7. ~CellReady(t)' /\ ~FoundOwn(t)' /\ ~PastPrimary(t)' /\ ~Tentative(t)'
  BY <1>4, <1>5 DEF CellReady, ToBeStored, FoundOwn, PastPrimary, Tentative
<1>8. MoveCopy(t)'
  BY <1>4, <1>5 DEF MoveCopy
<1>9. VacatedInv(t)'
  <2>1. Vacating(t) /\ Vacated(t)' = rel[t].free /\ Vacated(t) = rel[t].free
    BY <1>2, <1>3, <1>4, <1>5 DEF Vacating, Vacated
  <2> QED BY <1>1, <1>2, <1>3, <2>1 DEF Account, VacatedInv
<1> QED BY <1>5, <1>6, <1>7, <1>8, <1>9 DEF Account, FreeInv, FullInv, TentativeInv, RemoveInv

(* An entry has been copied, and its lock has gone with it.                *)
LEMMA MoveNextAccount ==
  ASSUME CInv, PInv, NodeInv, NEW t \in Threads, cells' = cells, MoveNext(t)
  PROVE  Account(t)' /\ Vacating(t) /\ Vacating(t)' /\ Vacated(t)' = Vacated(t)
<1>1. TypeOK /\ Control(t) /\ Place(t) /\ Account(t)
  BY DEF CInv, PInv, NodeInv
<1>2. pc[t] = "moved" /\ Adding(t) /\ Phase(t) = "moved" /\ \A n : ~TakenOut(t, n)
  BY DEF MoveNext, TakenOut
<1>3. /\ op' = op /\ move_entry_lock(t, rel[t].free, Occupied(t))
      /\ pc \in [Threads -> Labels] /\ DOMAIN write = Threads /\ DOMAIN entry_locks = Threads
      /\ DOMAIN rel = Threads /\ DOMAIN add = Threads
  BY <1>1 DEF MoveNext, TypeOK
<1>4. /\ rel[t] \in Relocations /\ Occupied(t) \in Cells /\ rel[t].free \in Cells /\ Occupied(t) # rel[t].free
      /\ cells[Occupied(t)] \in Entries /\ cells[rel[t].free] = Flipped(cells[Occupied(t)])
      /\ add[t] = [result |-> add[t].result, handle |-> add[t].handle]
  BY <1>1, <1>2, QueueFacts, OccupiedType, MoveBuckets DEF TypeOK, Account, MoveCopy
<1>5. cells[rel[t].free].id = cells[Occupied(t)].id
  BY <1>4 DEF Flipped, Entries
<1>6. /\ Occupied(t) \in entry_locks[t] => entry_locks'[t] = (entry_locks[t] \ {Occupied(t)}) \cup {rel[t].free}
      /\ Occupied(t) \notin entry_locks[t] => entry_locks'[t] = entry_locks[t]
  BY <1>3 DEF move_entry_lock
<1>7. \/ pc'[t] = "move" /\ rel'[t].free = Occupied(t)
      \/ pc'[t] = "write1" /\ write'[t].then = "release_free" /\ add'[t].result = Occupied(t)
  <2>1. CASE rel[t].walk = 1
    BY <1>3, <1>4, <2>1 DEF MoveNext, CallWrite
  <2>2. CASE rel[t].walk # 1
    BY <1>3, <1>4, <2>2 DEF MoveNext, Relocations
  <2> QED BY <2>1, <2>2
<1>8. /\ Phase(t)' = IF pc'[t] = "move" THEN "move" ELSE "release_free"
      /\ ~ForAdd(t)' /\ ~ForFree(t)' /\ ~ForPath(t)'
  BY <1>7
<1> HIDE DEF Phase, ForAdd, ForFree, ForPath, Relocating, Adding
<1>9. Vacating(t) /\ Vacating(t)' /\ Vacated(t) = Occupied(t) /\ Vacated(t)' = Occupied(t)
  BY <1>2, <1>7, <1>8 DEF Vacating, Vacated
<1>10. NamesInv(t)'
  BY <1>1, <1>2, <1>3, <1>8 DEF Account, NamesInv
<1>11. NodesLocked(t)'
  <2>1. \A i \in DOMAIN op[t].added : \E p \in entry_locks[t] : cells[p].id = op[t].added[i].id
    BY <1>1, <1>2 DEF Account, NodesLocked
  <2>2. \A i \in DOMAIN op[t].added : \E p \in entry_locks'[t] : cells[p].id = op[t].added[i].id
    BY <1>5, <1>6, <2>1
  <2> QED BY <1>3, <1>8, <2>2 DEF NodesLocked
<1>12. ~CellReady(t)' /\ ~FoundOwn(t)' /\ ~PastPrimary(t)' /\ ~Tentative(t)'
  BY <1>7, <1>8 DEF CellReady, ToBeStored, FoundOwn, PastPrimary, Tentative
<1>13. VacatedInv(t)'
  <2>1. Occupied(t) \notin entry_locks'[t]
    BY <1>4, <1>6
  <2> QED BY <1>4, <1>5, <1>9, <2>1 DEF VacatedInv
<1> QED BY <1>8, <1>9, <1>10, <1>11, <1>12, <1>13 DEF Account, FreeInv, MoveCopy, FullInv, TentativeInv, RemoveInv

(* Nobody writes to a bucket whose lock a thread holds that does not       *)
(* write itself.                                                           *)
LEMMA NotBeingWritten ==
  ASSUME CInv, PInv, LockInv, NodeInv, NEW t \in Threads, pc[t] \notin WritePcs,
         NEW p \in Cells, Held(t, BucketOf(p))
  PROVE  /\ ~BeingWritten(p) /\ ~Clearing(BucketOf(p))
         /\ ~\E u \in Threads : pc[u] \in {"write2", "write3"} /\ BucketOf(write[u].cell) = BucketOf(p)
<1>1. \A u \in Threads : pc[u] \in {"write2", "write3"} => BucketOf(write[u].cell) # BucketOf(p)
  BY WritesElsewhere
<1> QED BY <1>1 DEF BeingWritten, Clearing

(* With the lock and a fresh read lock, the cell is known to be free.      *)
LEMMA UpgradeOkAccount ==
  ASSUME CInv, PInv, LockInv, NodeInv, NEW t \in Threads, Control(t)', cells' = cells, stale' = stale,
         pc[t] \in UpgradePcs, Fresh(t, up[t]), Held(t, UpgradeBucket(t)), UpgradeOk(t),
         op' = op, add' = add, entry_locks' = entry_locks, write' = write,
         \A u \in Threads \ {t} : pc'[u] = pc[u]
  PROVE  Account(t)'
<1>1. TypeOK /\ Control(t) /\ Account(t)
  BY DEF CInv, NodeInv
<1>2. /\ pc \in [Threads -> Labels] /\ DOMAIN rel = Threads /\ DOMAIN up = Threads
      /\ Adding(t) /\ Phase(t) = pc[t] /\ \A n : ~TakenOut(t, n)
  BY <1>1 DEF TypeOK, TakenOut
<1>3. CASE ForAdd(t)
  <2>1. pc'[t] = IF add[t].result = None THEN "relocate" ELSE "put"
    BY <1>2, <1>3 DEF UpgradeOk
  <2>2. Phase(t)' = pc'[t]
    BY <2>1
  <2>3. NamesInv(t)' /\ NodesLocked(t)'
    <3> HIDE DEF Phase, Adding
    <3> QED BY <1>1, <1>2, <2>1, <2>2, KeepsNodes
  <2>4. CASE add[t].result = None
    BY <2>1, <2>2, <2>3, <2>4, AtRest DEF Account, RestPhases
  <2>5. CASE add[t].result # None
    <3>1. add[t].result \in Cells /\ BucketOf(add[t].result) = UpgradeBucket(t)
      BY <1>3, <2>5, HandleBuckets DEF UpgradeBucket
    <3>2. ~BeingWritten(add[t].result)
      BY <3>1, NotBeingWritten
    <3>3. cells[add[t].result].id = None
      BY <1>1, <1>3, <2>5, <3>2 DEF Account, FreeInv
    <3>4. ~ForAdd(t)' /\ ~ForFree(t)' /\ ~ForPath(t)'
      BY <2>1, <2>5
    <3>5. Primary(t)' = Primary(t) /\ \A h : Fresh(t, h)' <=> Fresh(t, h)
      BY DEF Primary, NodeHash, NodeNumber, Fresh
    <3> HIDE DEF Phase, ForAdd, ForFree, ForPath, Relocating, Adding
    <3>6. ~FoundOwn(t)' /\ ~Tentative(t)' /\ ~Vacating(t)' /\ (PastPrimary(t)' => PastPrimary(t))
      BY <1>3, <2>1, <2>2, <2>5, <3>4 DEF FoundOwn, Tentative, Vacating, PastPrimary
    <3>7. FreeInv(t)'
      BY <3>3, <3>4 DEF FreeInv
    <3>8. FullInv(t)'
      <4>1. Clearing(Primary(t)) => Clearing(Primary(t))'
        BY <3>5 DEF Clearing
      <4> QED BY <1>1, <3>5, <3>6, <4>1 DEF Account, FullInv, Full
    <3> QED BY <2>1, <2>2, <2>3, <2>5, <3>6, <3>7, <3>8 DEF Account, MoveCopy, TentativeInv, RemoveInv, VacatedInv
  <2> QED BY <2>4, <2>5
<1>4. CASE ForFree(t) \/ ForPath(t)
  <2>1. rel[t] \in Relocations /\ add[t].handle = PRIMARY
    BY <1>1, <1>4, QueueFacts DEF Control, AddInv
  <2>2. rel'[t].free = rel[t].free /\ pc'[t] \in {"move", "upgrade"} /\ (pc'[t] = "upgrade" => up'[t] # 1)
    <3>1. UpgradePath(t)
      BY <1>4, HandleTypes DEF UpgradeOk
    <3> DEFINE next == IF up[t] = FREE THEN rel[t].pos ELSE rel[t].queue[up[t]].parent
               r == [rel EXCEPT ![t].locked = rel[t].locked + 1, ![t].walk = next]
    <3>2. CASE next = 1
      <4>1. rel' = [r EXCEPT ![t].walk = rel[t].pos] /\ pc'[t] = "move"
        BY <1>2, <3>1, <3>2 DEF UpgradePath
      <4> HIDE DEF next
      <4>2. rel'[t].free = rel[t].free
        BY <1>2, <2>1, <4>1 DEF Relocations
      <4> QED BY <4>1, <4>2
    <3>3. CASE next # 1
      <4>1. rel' = r /\ pc'[t] = "upgrade" /\ up'[t] = next
        BY <1>2, <3>1, <3>3 DEF UpgradePath, CallUpgrade
      <4> HIDE DEF next
      <4>2. rel'[t].free = rel[t].free
        BY <1>2, <2>1, <4>1 DEF Relocations
      <4> QED BY <3>3, <4>1, <4>2
    <3> QED BY <3>2, <3>3
  <2>3. cells[rel[t].free].id = None
    <3>1. CASE ForPath(t)
      BY <1>1, <3>1 DEF Account, FreeInv
    <3>2. CASE ForFree(t)
      <4>1. rel[t].free \in Cells /\ BucketOf(rel[t].free) = UpgradeBucket(t) /\ up[t] = FREE
        BY <3>2, HandleBuckets DEF UpgradeBucket
      <4>2. ~BeingWritten(rel[t].free)
        BY <4>1, NotBeingWritten
      <4> QED BY <1>1, <3>2, <4>1, <4>2 DEF Account, FreeInv
    <3> QED BY <1>4, <3>1, <3>2
  <2>4. Phase(t)' = pc'[t]
    BY <2>2
  <2>5. ~ForAdd(t)'
    BY <2>1, <2>2, HandleTypes DEF Control, AddInv
  <2> HIDE DEF Phase, ForAdd, ForFree, ForPath, Relocating, Adding
  <2>6. NamesInv(t)' /\ NodesLocked(t)'
    BY <1>1, <1>2, <2>2, <2>4, KeepsNodes
  <2>7. ~CellReady(t)' /\ ~FoundOwn(t)' /\ ~Tentative(t)' /\ ~PastPrimary(t)'
    BY <2>2, <2>4, <2>5 DEF CellReady, ToBeStored, FoundOwn, Tentative, PastPrimary
  <2>8. FreeInv(t)'
    BY <2>2, <2>3, <2>5, <2>7 DEF FreeInv
  <2>9. VacatedInv(t)'
    <3>1. Vacating(t)' => Vacated(t)' = rel[t].free
      BY <2>2, <2>4 DEF Vacating, Vacated
    <3> QED BY <2>3, <3>1 DEF VacatedInv
  <2> QED BY <2>2, <2>4, <2>6, <2>7, <2>8, <2>9 DEF Account, MoveCopy, FullInv, TentativeInv, RemoveInv
<1> QED BY <1>1, <1>3, <1>4, UpgradeFacts

(* A failed upgrade leaves nothing to rely on.                             *)
LEMMA UpgradeFailedAccount ==
  ASSUME CInv, NodeInv, NEW t \in Threads, cells' = cells, pc[t] \in UpgradePcs, UpgradeFailed(t),
         op' = op, entry_locks' = entry_locks
  PROVE  Account(t)'
<1>1. TypeOK /\ Control(t) /\ Account(t)
  BY DEF CInv, NodeInv
<1>2. pc \in [Threads -> Labels] /\ Adding(t) /\ Phase(t) = pc[t] /\ \A n : ~TakenOut(t, n)
  BY <1>1 DEF TypeOK, TakenOut
<1>3. pc'[t] \in {"undo", "relocate_failed", "release_free"} /\ (pc'[t] = "release_free" => ForPath(t)) /\ rel' = rel
  BY <1>1, <1>2, UpgradeFacts, HandleTypes DEF UpgradeFailed
<1>4. Phase(t)' = pc'[t] /\ ~ForAdd(t)' /\ ~ForFree(t)' /\ ~ForPath(t)'
  BY <1>3
<1>5. pc'[t] = "release_free" => ~rel[t].ok
  BY <1>1, <1>2, <1>3 DEF Control, QueueInv
<1>6. NamesInv(t)' /\ NodesLocked(t)'
  <2> HIDE DEF Phase, Adding
  <2> QED BY <1>1, <1>2, <1>3, <1>4, KeepsNodes
<1> HIDE DEF Phase, ForAdd, ForFree, ForPath, Relocating, Adding
<1>7. ~CellReady(t)' /\ ~FoundOwn(t)' /\ ~Tentative(t)' /\ ~PastPrimary(t)' /\ ~Vacating(t)'
  BY <1>3, <1>4, <1>5 DEF CellReady, ToBeStored, FoundOwn, Tentative, PastPrimary, Vacating
<1> QED BY <1>3, <1>4, <1>6, <1>7 DEF Account, FreeInv, MoveCopy, FullInv, TentativeInv, RemoveInv, VacatedInv

(* upgrade_bucket_lock, all of it.                                         *)
LEMMA UpgradeAccount ==
  ASSUME CInv, PInv, LockInv, NodeInv, NEW t \in Threads, Control(t)', cells' = cells, upgrade_bucket_lock(t)
  PROVE  Account(t)'
<1>1. TypeOK /\ Control(t) /\ Account(t)
  BY DEF CInv, NodeInv
<1>2. /\ op' = op /\ add' = add /\ entry_locks' = entry_locks /\ write' = write
      /\ pc[t] \in UpgradePcs /\ pc \in [Threads -> Labels]
  BY <1>1 DEF upgrade_bucket_lock, UpgradeHeld, UpgradeTake, UpgradeCheck, TypeOK
<1>3. ASSUME UpgradeOk(t) PROVE \A u \in Threads \ {t} : pc'[u] = pc[u]
  BY <1>2, <1>3 DEF UpgradeOk, UpgradePath, CallUpgrade
<1>4. CASE UpgradeHeld(t)
  <2>1. CASE Fresh(t, up[t])
    <3>1. UpgradeOk(t) /\ stale' = stale /\ Held(t, UpgradeBucket(t))
      BY <1>4, <2>1 DEF UpgradeHeld
    <3> QED BY <1>2, <1>3, <2>1, <3>1, UpgradeOkAccount
  <2>2. CASE ~Fresh(t, up[t])
    BY <1>2, <1>4, <2>2, UpgradeFailedAccount DEF UpgradeHeld
  <2> QED BY <2>1, <2>2
<1>5. CASE UpgradeCheck(t)
  <2>1. CASE Fresh(t, up[t])
    <3>1. UpgradeOk(t) /\ stale' = stale /\ pc[t] = "upgrade_check"
      BY <1>5, <2>1 DEF UpgradeCheck
    <3>2. RefsAfter(t, bucket_refs[t]) /\ bucket_refs[t] \in [Buckets -> Nat]
      BY <1>1, <3>1, LocalTypes DEF Control, RefsInv
    <3>3. bucket_refs[t][UpgradeBucket(t)] = 1
      BY <1>1, <3>1, <3>2, LockGivenBack
    <3> QED BY <1>2, <1>3, <2>1, <3>1, <3>3, UpgradeOkAccount DEF Held
  <2>2. CASE ~Fresh(t, up[t])
    BY <1>2, <1>5, <2>2, UpgradeFailedAccount DEF UpgradeCheck
  <2> QED BY <2>1, <2>2
<1>6. CASE UpgradeTake(t)
  <2>1. CASE lock[UpgradeBucket(t)] = 1
    BY <1>2, <1>6, <2>1, UpgradeFailedAccount DEF UpgradeTake
  <2>2. CASE lock[UpgradeBucket(t)] # 1
    <3>1. /\ pc[t] = "upgrade" /\ pc' = [pc EXCEPT ![t] = "upgrade_check"] /\ rel' = rel /\ up' = up /\ stale' = stale
      BY <1>6, <2>2 DEF UpgradeTake
    <3>2. /\ pc'[t] = "upgrade_check" /\ Phase(t)' = "upgrade_check" /\ Phase(t) = "upgrade" /\ Adding(t)
          /\ \A n : ~TakenOut(t, n)
      BY <1>2, <3>1 DEF TakenOut
    <3>3. (ForAdd(t)' <=> ForAdd(t)) /\ (ForFree(t)' <=> ForFree(t)) /\ (ForPath(t)' <=> ForPath(t))
      BY <3>1, <3>2
    <3>4. \A v \in Threads \ {t} : pc'[v] = pc[v]
      BY <1>2, <3>1
    <3>5. /\ \A p : BeingWritten(p)' <=> BeingWritten(p)
          /\ \A b : Clearing(b)' <=> Clearing(b)
          /\ \A h : Fresh(t, h)' <=> Fresh(t, h)
          /\ Primary(t)' = Primary(t)
      <4>1. \A v \in Threads : pc'[v] \in {"write2", "write3"} \/ pc[v] \in {"write2", "write3"} => pc'[v] = pc[v]
        BY <3>1, <3>2, <3>4
      <4>2. \A v \in Threads : pc'[v] = "write3" <=> pc[v] = "write3"
        BY <4>1
      <4>3. \A v \in Threads : pc'[v] \in {"write2", "write3"} <=> pc[v] \in {"write2", "write3"}
        BY <4>1
      <4> QED BY <1>2, <3>1, <4>2, <4>3 DEF BeingWritten, Clearing, Fresh, Primary, NodeHash, NodeNumber
    <3> HIDE DEF Phase, ForAdd, ForFree, ForPath, Relocating, Adding
    <3>6. NamesInv(t)' /\ NodesLocked(t)'
      BY <1>1, <1>2, <3>2, KeepsNodes
    <3>7. ~CellReady(t)' /\ ~FoundOwn(t)' /\ ~Tentative(t)' /\ ~Vacating(t)' /\ (PastPrimary(t)' <=> PastPrimary(t))
      BY <1>2, <3>2, <3>3 DEF CellReady, ToBeStored, FoundOwn, Tentative, PastPrimary, Vacating
    <3>8. FreeInv(t)'
      BY <1>1, <1>2, <3>1, <3>3, <3>5, <3>7 DEF Account, FreeInv
    <3>9. FullInv(t)'
      BY <1>1, <3>5, <3>7 DEF Account, FullInv, Full
    <3> QED BY <3>2, <3>6, <3>7, <3>8, <3>9 DEF Account, MoveCopy, TentativeInv, RemoveInv, VacatedInv
  <2> QED BY <2>1, <2>2
<1> QED BY <1>4, <1>5, <1>6 DEF upgrade_bucket_lock

(* The node a roll-back looks for counts as accepted.                      *)
LEMMA OwnSettled ==
  ASSUME CInv, LockInv, NodeInv, NEW t \in Threads, Phase(t) = "remove"
  PROVE  find[t].node \in Settled
<1>1. TypeOK /\ Control(t) /\ Account(t) /\ t \in Writers
  BY OwnNodeHeld DEF CInv, NodeInv
<1>2. op[t].added # <<>> /\ find[t].node = op[t].added[UndoIndex(t)]
  BY <1>1 DEF Control, InsertInv, Account, RemoveInv
<1>3. UndoIndex(t) \in DOMAIN op[t].added
  BY <1>1, <1>2, RestOfNodes
<1>4. ~TakenOut(t, find[t].node)
  BY DEF TakenOut
<1>5. find[t].node \in Range(op[t].added)
  BY <1>2, <1>3 DEF Range
<1> QED BY <1>1, <1>4, <1>5 DEF Settled

(* An entry's flag and its bucket determine its primary bucket.            *)
LEMMA HomeOfEntry ==
  ASSUME TypeOK, ContentInv, NEW p \in Cells, cells[p].id # None, NEW b \in Buckets, NEW tag \in Tags,
         cells[p].tag = tag
  PROVE  /\ BucketOf(p) = b /\ cells[p].home = b => ~cells[p].secondary
         /\ BucketOf(p) = b /\ ~cells[p].secondary => cells[p].home = b
         /\ BucketOf(p) = mix_bucket(b, tag) /\ cells[p].secondary => cells[p].home = b
         /\ cells[p].home = b => BucketOf(p) \in {b, mix_bucket(b, tag)}
<1>1. cells[p].home \in Buckets /\ cells[p].secondary \in BOOLEAN
  BY DEF TypeOK, Entries
<1>2. BucketOf(p) = IF cells[p].secondary THEN mix_bucket(cells[p].home, cells[p].tag) ELSE cells[p].home
  BY DEF ContentInv, Fits
<1>3. cells[p].secondary => BucketOf(p) = mix_bucket(cells[p].home, tag)
  BY <1>2
<1>4. ~cells[p].secondary => BucketOf(p) = cells[p].home
  BY <1>2
<1>5. mix_bucket(b, tag) # b
  BY MixChangesBucket
<1>6. unmix_bucket(mix_bucket(b, tag), tag) = b /\ unmix_bucket(mix_bucket(cells[p].home, tag), tag) = cells[p].home
  BY <1>1, UnmixInvertsMix
<1> QED BY <1>3, <1>4, <1>5, <1>6

(* The node a roll-back looks for matches.                                 *)
LEMMA OwnMatches ==
  ASSUME CInv, LockInv, ContentInv, NodeInv, NEW t \in Threads, Phase(t) = "remove",
         NEW p \in Cells, cells[p].id = find[t].node.id
  PROVE  /\ find[t].node.loc \in Locators
         /\ cells[p].home = find[t].node.loc.bucket
         /\ cells[p].tag = find[t].node.loc.tag /\ cells[p].color = find[t].node.loc.color
         /\ BucketOf(p) = find[t].node.loc.bucket => ~cells[p].secondary
<1>1. TypeOK /\ find[t].node \in Nodes /\ find[t].node.id # None
  BY OwnNodeHeld DEF CInv
<1>2. find[t].node.loc \in Locators
  BY <1>1 DEF Nodes
<1>3. find[t].node.loc = [bucket |-> cells[p].home, tag |-> cells[p].tag, color |-> cells[p].color]
  BY OwnSettled DEF NodeInv, SettledInv
<1>4. /\ cells[p].home = find[t].node.loc.bucket /\ cells[p].home \in Buckets
      /\ cells[p].tag = find[t].node.loc.tag /\ cells[p].tag \in Tags
      /\ cells[p].color = find[t].node.loc.color
  BY <1>2, <1>3 DEF Locators
<1>5. BucketOf(p) = find[t].node.loc.bucket => ~cells[p].secondary
  BY <1>1, <1>4, HomeOfEntry
<1> QED BY <1>2, <1>4, <1>5

(* Nothing else matches: an entry with the same locator is about to be     *)
(* withdrawn from a secondary bucket, and that bucket is another thread's. *)
LEMMA MatchIsOwn ==
  ASSUME CInv, PInv, LockInv, ContentInv, NodeInv, NEW t \in Threads, Phase(t) = "remove",
         NEW p \in Cells, BucketOf(p) = FindBucket(t),
         cells[p].tag = find[t].node.loc.tag, cells[p].color = find[t].node.loc.color,
         cells[p].secondary = find[t].secondary
  PROVE  cells[p].id = find[t].node.id
<1>1. /\ TypeOK /\ Account(t) /\ find[t].node \in Nodes /\ find[t].node.id # None
      /\ find[t].node.id[1] = t
  BY OwnNodeHeld DEF CInv, NodeInv
<1>2. PICK b, tag, color : b = find[t].node.loc.bucket /\ tag = find[t].node.loc.tag /\ color = find[t].node.loc.color
                           /\ b \in Buckets /\ tag \in Tags /\ color \in 0..MAX_VALID_COLOR
  BY <1>1 DEF Nodes, Locators
<1>3. cells[p].id # None
  <2>1. cells[p].color # INVALID_COLOR
    BY <1>2, CellsAssumption DEF INVALID_COLOR, MAX_VALID_COLOR
  <2> QED BY <2>1 DEF NodeInv, EntryInv
<1>4. FindBucket(t) = IF find[t].secondary THEN mix_bucket(b, tag) ELSE b
  BY <1>2 DEF FindBucket
<1>5. cells[p].home = b
  BY <1>1, <1>2, <1>3, <1>4, HomeOfEntry
<1>6. PICK q \in entry_locks[t] : cells[q].id = find[t].node.id
  BY OwnNodeHeld
<1>7. q \in Cells /\ Held(t, BucketOf(q)) /\ BucketOf(q) \in Buckets
  BY <1>1, <1>6, OwnNodeHeld, EntryTypes DEF TypeOK
<1>8. cells[q].home = b /\ cells[q].tag = tag /\ cells[q].color = color
  BY <1>2, <1>6, <1>7, OwnMatches
<1>9. SUFFICES ASSUME cells[p].id # find[t].node.id PROVE FALSE
  OBVIOUS
<1>10. PICK w \in Threads : Doomed(w) /\ NodeId(w) \in {cells[p].id, cells[q].id}
  <2>1. cells[p] \in Entered /\ cells[q] \in Entered /\ SameLocator(cells[p], cells[q])
    BY <1>2, <1>5, <1>7, <1>8 DEF Entered, SameLocator
  <2> QED BY <1>1, <1>3, <1>6, <1>9, <2>1 DEF NodeInv, ColorInv
<1>11. Adding(w) /\ NodeId(w)[1] = w
  <2>1. Adding(w)
    BY <1>10 DEF Doomed, ToBeStored, Tentative
  <2> QED BY <2>1, NewName
<1>12. w # t
  BY <1>10 DEF Doomed, ToBeStored, Tentative
<1>13. NodeId(w) = cells[p].id
  BY <1>1, <1>6, <1>10, <1>11, <1>12
<1>14. Tentative(w) /\ p = add[w].result
  BY <1>11, <1>13, NewName
<1>15. cells[p].secondary /\ Held(w, BucketOf(p))
  <2>1. cells[p].secondary
    BY <1>10, <1>14 DEF NodeInv, Account, TentativeInv, Doomed
  <2>2. Held(w, BucketOf(p))
    BY <1>14, ResultHeld DEF Tentative
  <2> QED BY <2>1, <2>2
<1>16. BucketOf(p) = mix_bucket(b, tag)
  BY <1>4, <1>15
<1>17. BucketOf(q) # b
  <2>1. \A c \in CellNumbers : cells[<<b, c>>].id # find[t].node.id
    BY <1>1, <1>2, <1>15 DEF Account, RemoveInv
  <2>2. q = <<BucketOf(q), q[2]>> /\ q[2] \in CellNumbers
    BY <1>7 DEF Cells, BucketOf
  <2> QED BY <1>6, <2>1, <2>2
<1>18. BucketOf(q) = mix_bucket(b, tag)
  BY <1>1, <1>2, <1>6, <1>7, <1>8, <1>17, HomeOfEntry
<1> QED BY <1>7, <1>12, <1>15, <1>16, <1>18, OneHolder

(* Without store buffers all threads see whether a counter is odd.         *)
LEMMA BusyIsMemory ==
  ASSUME TypeOK, LockInv, ~scenario.buffered, NEW t \in Threads, NEW b \in Buckets
  PROVE  BusySeen(t, b) <=> busy[b]
<1>1. Pending(t, "seq", b) = {}
  BY DEF LockInv, Pending
<1>2. Cardinality(Pending(t, "seq", b)) = 0
  BY <1>1, FS_EmptySet
<1>3. busy[b] \in BOOLEAN
  BY DEF TypeOK
<1>4. (Cardinality(Pending(t, "seq", b)) % 2 = 1) = FALSE
  BY <1>2
<1> QED BY <1>3, <1>4, Zenon DEF BusySeen

(* Where the node is, the search of the roll-back does not miss it.        *)
LEMMA NotMissed ==
  ASSUME CInv, PInv, LockInv, NodeInv, NEW t \in Threads, Phase(t) = "remove", pc[t] \notin WritePcs,
         NEW c \in CellNumbers, cells[<<FindBucket(t), c>>].id = find[t].node.id
  PROVE  /\ <<FindBucket(t), c>> \in Cells /\ FindBucket(t) \in Buckets
         /\ ~busy[FindBucket(t)] /\ lock[FindBucket(t)] = 1
<1>1. TypeOK /\ FindBucket(t) \in Buckets
  BY OwnNodeHeld, FindBucketType DEF CInv
<1>2. <<FindBucket(t), c>> \in Cells /\ BucketOf(<<FindBucket(t), c>>) = FindBucket(t)
  BY <1>1 DEF Cells, BucketOf
<1>3. Held(t, FindBucket(t))
  BY <1>2, OwnNodeHeld
<1>4. ~busy[FindBucket(t)]
  <2>1. ~\E u \in Threads : pc[u] \in {"write2", "write3"} /\ BucketOf(write[u].cell) = FindBucket(t)
    BY <1>2, <1>3, NotBeingWritten
  <2> QED BY <1>1, <2>1 DEF NodeInv, BusyInv
<1>5. lock[FindBucket(t)] = 1
  BY <1>1, <1>3 DEF LockInv, Owns
<1> QED BY <1>1, <1>2, <1>4, <1>5

(* While it searches, a thread relies on what it knows about the search.   *)
LEMMA SearchingAccount ==
  ASSUME NEW t \in Threads, Account(t), cells' = cells, op'[t] = op[t], entry_locks'[t] = entry_locks[t],
         Phase(t) \in {"undo", "remove"}, pc[t] \notin WritePcs,
         Phase(t)' = "remove", pc'[t] \notin WritePcs, RemoveInv(t)'
  PROVE  Account(t)'
<1>1. ~ForAdd(t)' /\ ~ForFree(t)' /\ ~ForPath(t)' /\ ~Adding(t)' /\ pc'[t] # "put" /\ pc[t] # "removed"
  OBVIOUS
<1> HIDE DEF Phase, ForAdd, ForFree, ForPath, Relocating, Adding
<1>2. NamesInv(t)' /\ NodesLocked(t)'
  <2>1. \A n : ~TakenOut(t, n)
    BY <1>1 DEF TakenOut
  <2> QED BY <1>1, <2>1, KeepsNodes
<1>3. ~CellReady(t)' /\ ~Tentative(t)' /\ ~PastPrimary(t)' /\ ~Vacating(t)'
  BY <1>1 DEF CellReady, ToBeStored, Tentative, PastPrimary, Vacating
<1> QED BY <1>1, <1>2, <1>3 DEF Account, FreeInv, MoveCopy, FullInv, TentativeInv, VacatedInv

(* The roll-back begins to look for a node.                                *)
LEMMA UndoAccount ==
  ASSUME CInv, NodeInv, NEW t \in Threads, cells' = cells, Undo(t)
  PROVE  Account(t)'
<1>1. TypeOK /\ Account(t) /\ pc[t] = "undo" /\ Phase(t) = "undo" /\ op' = op /\ entry_locks' = entry_locks
  BY DEF CInv, NodeInv, Undo
<1>2. /\ pc'[t] = "find1" /\ find'[t].then = "remove" /\ find'[t].node = op[t].added[UndoIndex(t)]
      /\ find'[t].secondary = FALSE
  BY <1>1 DEF Undo, CallFind, TypeOK
<1>3. Phase(t)' = "remove" /\ ~FoundOwn(t)' /\ UndoIndex(t)' = UndoIndex(t)
  BY <1>1, <1>2 DEF FoundOwn, UndoIndex
<1> HIDE DEF Phase
<1>4. RemoveInv(t)'
  BY <1>1, <1>2, <1>3 DEF RemoveInv
<1> QED BY <1>1, <1>2, <1>3, <1>4, SearchingAccount

(* A bucket was searched without success: the node is not there, and the   *)
(* other one is next.                                                      *)
LEMMA OtherBucketNext ==
  ASSUME CInv, NodeInv, NEW t \in Threads, cells' = cells, op' = op, entry_locks' = entry_locks,
         pc[t] \in FindPcs, Phase(t) = "remove", NotInBucket(t),
         ~find[t].secondary => \A c \in CellNumbers : cells[<<FindBucket(t), c>>].id # find[t].node.id
  PROVE  Account(t)'
<1>1. TypeOK /\ Control(t) /\ Account(t) /\ find[t].then = "remove"
  BY DEF CInv, NodeInv
<1>2. /\ find[t] = [node |-> find[t].node, secondary |-> find[t].secondary, lock |-> find[t].lock,
                    cell |-> find[t].cell, id |-> find[t].id, then |-> find[t].then]
      /\ DOMAIN find = Threads /\ find[t].secondary \in BOOLEAN /\ pc \in [Threads -> Labels]
  BY <1>1 DEF TypeOK
<1>3. find' = [find EXCEPT ![t].secondary = ~find[t].secondary] /\ pc'[t] = "find1"
  BY <1>2 DEF NotInBucket
<1>4. find'[t].node = find[t].node /\ find'[t].then = "remove" /\ find'[t].secondary = ~find[t].secondary
  BY <1>1, <1>2, <1>3
<1>5. Phase(t)' = "remove" /\ ~FoundOwn(t)' /\ UndoIndex(t)' = UndoIndex(t)
  BY <1>3, <1>4 DEF FoundOwn, UndoIndex
<1>6. ~find[t].secondary => FindBucket(t) = find[t].node.loc.bucket
  BY DEF FindBucket
<1>7. find[t].node = op[t].added[UndoIndex(t)]
  BY <1>1 DEF Account, RemoveInv
<1> HIDE DEF Phase
<1>8. RemoveInv(t)'
  BY <1>3, <1>4, <1>5, <1>6, <1>7 DEF RemoveInv
<1> QED BY <1>1, <1>3, <1>5, <1>8, SearchingAccount

(* The search of the roll-back for a node of its own.                      *)
LEMMA RollBackSearch ==
  ASSUME CInv, PInv, LockInv, ContentInv, NodeInv, ~scenario.buffered, NEW t \in Threads, cells' = cells,
         Phase(t) = "remove", find_entry_in_pair_by_color(t)
  PROVE  Account(t)'
<1>1. TypeOK /\ Control(t) /\ Account(t) /\ find[t].node \in Nodes
  BY OwnNodeHeld DEF CInv, NodeInv
<1>2. pc[t] \in FindPcs /\ op' = op /\ entry_locks' = entry_locks /\ find[t].then = "remove"
  BY DEF find_entry_in_pair_by_color, FindReadCounter, FindScan, FindCheckCounter
<1>3. /\ find[t] = [node |-> find[t].node, secondary |-> find[t].secondary, lock |-> find[t].lock,
                    cell |-> find[t].cell, id |-> find[t].id, then |-> find[t].then]
      /\ DOMAIN find = Threads /\ find[t].secondary \in BOOLEAN /\ pc \in [Threads -> Labels]
      /\ DOMAIN rl = Threads /\ rl[t] \in [Handles -> Buckets \cup {None}] /\ DOMAIN stale = Threads
  BY <1>1 DEF TypeOK
<1>4. FindBucket(t) \in Buckets /\ FIND \in Handles
  BY <1>1, FindBucketType, HandleTypes
<1>5. find[t].node = op[t].added[UndoIndex(t)] /\ UndoIndex(t)' = UndoIndex(t)
  BY <1>1, <1>2 DEF Account, RemoveInv, UndoIndex
<1>6. \A p : Seen(t, p) = cells[p]
  BY SeenIsMemory
<1>7. find[t].secondary => \A c \in CellNumbers : cells[<<find[t].node.loc.bucket, c>>].id # find[t].node.id
  BY <1>1 DEF Account, RemoveInv
<1>8. CASE FindReadCounter(t)
  <2>1. CASE BusySeen(t, FindBucket(t))
    <3>1. NotInBucket(t)
      BY <1>8, <2>1 DEF FindReadCounter
    <3>2. busy[FindBucket(t)]
      BY <1>1, <1>4, <2>1, BusyIsMemory
    <3>3. \A c \in CellNumbers : cells[<<FindBucket(t), c>>].id # find[t].node.id
      BY <1>2, <3>2, NotMissed
    <3> QED BY <1>2, <3>1, <3>3, OtherBucketNext
  <2>2. CASE ~BusySeen(t, FindBucket(t))
    <3>1. /\ ReadCounter(t, FIND, FindBucket(t)) /\ pc'[t] = "find2"
          /\ find' = [find EXCEPT ![t].lock = lock[FindBucket(t)]]
      BY <1>3, <1>4, <1>8, <2>2, SeenIsMemory DEF FindReadCounter
    <3>2. rl'[t][FIND] = FindBucket(t) /\ Fresh(t, FIND)'
      BY <1>3, <1>4, <3>1 DEF ReadCounter, Fresh
    <3>3. /\ find'[t].node = find[t].node /\ find'[t].secondary = find[t].secondary /\ find'[t].then = "remove"
          /\ find'[t].lock = lock[FindBucket(t)]
      BY <1>2, <1>3, <3>1
    <3>4. Phase(t)' = "remove" /\ ~FoundOwn(t)' /\ FindBucket(t)' = FindBucket(t)
      BY <3>1, <3>3 DEF FoundOwn, FindBucket
    <3>5. \A c \in CellNumbers : cells[<<FindBucket(t), c>>].id = find[t].node.id => lock[FindBucket(t)] = 1
      BY <1>2, NotMissed
    <3> HIDE DEF Phase
    <3>6. RemoveInv(t)'
      BY <1>2, <1>5, <1>7, <3>1, <3>2, <3>3, <3>4, <3>5 DEF RemoveInv
    <3> QED BY <1>1, <1>2, <3>1, <3>4, <3>6, SearchingAccount
  <2> QED BY <2>1, <2>2
<1>9. CASE FindScan(t)
  <2> DEFINE found == {c \in CellNumbers : Matches(t, <<FindBucket(t), c>>)}
  <2>1. \A c \in CellNumbers :
          c \in found <=> LET e == cells[<<FindBucket(t), c>>]
                          IN  /\ e.tag = find[t].node.loc.tag /\ e.color = find[t].node.loc.color
                              /\ e.secondary = find[t].secondary
    BY <1>6 DEF Matches
  <2>2. \A c \in CellNumbers : <<FindBucket(t), c>> \in Cells /\ BucketOf(<<FindBucket(t), c>>) = FindBucket(t)
    BY <1>4 DEF Cells, BucketOf
  <2>3. CASE found = {}
    <3>1. NotInBucket(t)
      BY <1>9, <2>3 DEF FindScan
    <3>2. ASSUME ~find[t].secondary, NEW c \in CellNumbers, cells[<<FindBucket(t), c>>].id = find[t].node.id
          PROVE  FALSE
      <4>1. PICK p \in Cells : p = <<FindBucket(t), c>> /\ BucketOf(p) = find[t].node.loc.bucket
        BY <2>2, <3>2 DEF FindBucket
      <4>2. /\ cells[p].tag = find[t].node.loc.tag /\ cells[p].color = find[t].node.loc.color
            /\ ~cells[p].secondary
        BY <3>2, <4>1, OwnMatches
      <4>3. cells[p].secondary = find[t].secondary
        BY <1>1, <1>3, <3>2, <4>2 DEF TypeOK, Entries
      <4> QED BY <2>1, <2>3, <4>1, <4>2, <4>3
    <3> QED BY <1>2, <3>1, <3>2, OtherBucketNext
  <2>4. CASE found # {}
    <3>1. PICK c \in found : c = Min(found)
      <4>1. found \in SUBSET Nat
        BY DEF CellNumbers
      <4> QED BY <2>4, <4>1, Smallest
    <3>2. PICK p : p = <<FindBucket(t), c>>
      OBVIOUS
    <3>3. find' = [find EXCEPT ![t].cell = p, ![t].id = cells[p].id] /\ pc'[t] = "find3" /\ UNCHANGED <<rl, stale>>
      BY <1>3, <1>6, <1>9, <2>4, <3>1, <3>2 DEF FindScan
    <3>4. c \in CellNumbers /\ p \in Cells /\ BucketOf(p) = FindBucket(t)
      BY <2>2, <3>1, <3>2
    <3>5. cells[p].id = find[t].node.id
      <4>1. /\ cells[p].tag = find[t].node.loc.tag /\ cells[p].color = find[t].node.loc.color
            /\ cells[p].secondary = find[t].secondary
        BY <2>1, <3>1, <3>2, <3>4
      <4> QED BY <3>4, <4>1, MatchIsOwn
    <3>6. p \in entry_locks[t]
      BY <3>4, <3>5, OwnNodeHeld
    <3>7. /\ find'[t].node = find[t].node /\ find'[t].secondary = find[t].secondary /\ find'[t].then = "remove"
          /\ find'[t].lock = find[t].lock /\ find'[t].cell = p
      BY <1>2, <1>3, <3>3
    <3>8. Phase(t)' = "remove" /\ FindBucket(t)' = FindBucket(t) /\ pc[t] = "find2"
      BY <1>9, <3>3, <3>7 DEF FindBucket, FindScan
    <3>9. \A h : Fresh(t, h)' <=> Fresh(t, h)
      BY <3>3 DEF Fresh
    <3> HIDE DEF Phase, found
    <3>10. RemoveInv(t)'
      BY <1>1, <1>2, <1>5, <1>7, <3>3, <3>5, <3>6, <3>7, <3>8, <3>9 DEF Account, RemoveInv
    <3> QED BY <1>1, <1>2, <3>3, <3>8, <3>10, SearchingAccount
  <2> QED BY <2>3, <2>4
<1>10. CASE FindCheckCounter(t)
  <2>1. pc[t] = "find3" /\ UNCHANGED <<rl, stale>>
    BY <1>10 DEF FindCheckCounter
  <2>2. CASE Fresh(t, FIND) /\ lock[FindBucket(t)] = find[t].lock
    <3>1. pc'[t] = "remove" /\ find' = find
      BY <1>2, <1>3, <1>4, <1>10, <2>2, SeenIsMemory DEF FindCheckCounter
    <3>2. Phase(t)' = "remove" /\ FindBucket(t)' = FindBucket(t) /\ FoundOwn(t)
      BY <2>1, <3>1 DEF FindBucket, FoundOwn
    <3> HIDE DEF Phase
    <3>3. RemoveInv(t)'
      BY <1>1, <1>2, <1>5, <1>7, <2>1, <3>1, <3>2 DEF Account, RemoveInv
    <3> QED BY <1>1, <1>2, <3>1, <3>2, <3>3, SearchingAccount
  <2>3. CASE ~(Fresh(t, FIND) /\ lock[FindBucket(t)] = find[t].lock)
    <3>1. NotInBucket(t)
      BY <1>4, <1>10, <2>3, SeenIsMemory DEF FindCheckCounter
    <3>2. ASSUME NEW c \in CellNumbers, cells[<<FindBucket(t), c>>].id = find[t].node.id PROVE FALSE
      <4>1. Fresh(t, FIND) /\ find[t].lock = 1
        BY <1>1, <2>1, <3>2 DEF Account, RemoveInv
      <4>2. lock[FindBucket(t)] = 1
        BY <1>2, <3>2, NotMissed
      <4> QED BY <2>3, <4>1, <4>2
    <3> QED BY <1>2, <3>1, <3>2, OtherBucketNext
  <2> QED BY <2>2, <2>3
<1> QED BY <1>8, <1>9, <1>10 DEF find_entry_in_pair_by_color

(* A search for a reader, or for the roll-back.                            *)
LEMMA FindAccount ==
  ASSUME CInv, PInv, LockInv, ContentInv, NodeInv, ~scenario.buffered, NEW t \in Threads, cells' = cells,
         find_entry_in_pair_by_color(t)
  PROVE  Account(t)'
<1>1. TypeOK /\ Control(t) /\ Control(t)' /\ Account(t)
  BY FindControl DEF CInv, NodeInv
<1>2. /\ pc[t] \in FindPcs /\ op' = op /\ entry_locks' = entry_locks
      /\ find[t].then \in {"remove", "found"}
  BY <1>1 DEF find_entry_in_pair_by_color, FindReadCounter, FindScan, FindCheckCounter, Control, CallInv
<1>3. CASE find[t].then = "remove"
  BY <1>2, <1>3, RollBackSearch
<1>4. CASE find[t].then = "found"
  <2>1. /\ find[t] = [node |-> find[t].node, secondary |-> find[t].secondary, lock |-> find[t].lock,
                      cell |-> find[t].cell, id |-> find[t].id, then |-> find[t].then]
        /\ DOMAIN find = Threads /\ pc \in [Threads -> Labels]
    BY <1>1 DEF TypeOK
  <2>2. find'[t].then = "found" /\ pc'[t] \in FindPcs \cup {"found"}
    BY <1>4, <2>1 DEF find_entry_in_pair_by_color, FindReadCounter, FindScan, FindCheckCounter, NotInBucket
  <2>3. Phase(t)' = "found" /\ Phase(t) = "found" /\ ~Adding(t)' /\ pc'[t] \notin WritePcs /\ \A n : ~TakenOut(t, n)
    BY <1>2, <1>4, <2>2 DEF TakenOut
  <2> HIDE DEF Phase, Adding
  <2>4. NamesInv(t)' /\ NodesLocked(t)'
    BY <1>1, <1>2, <2>3, KeepsNodes
  <2> QED BY <2>3, <2>4, AtRest DEF Account, RestPhases
<1> QED BY <1>2, <1>3, <1>4

(* The node that was found is going to be taken out.                       *)
LEMMA RemoveAccount ==
  ASSUME CInv, NodeInv, NEW t \in Threads, cells' = cells, remove_entry_by_value(t)
  PROVE  Account(t)'
<1>1. TypeOK /\ Account(t) /\ pc[t] = "remove" /\ op' = op /\ entry_locks' = entry_locks /\ find' = find
  BY DEF CInv, NodeInv, remove_entry_by_value
<1>2. pc'[t] = "write1" /\ write'[t].then = "removed"
  BY <1>1 DEF remove_entry_by_value, CallWrite, TypeOK
<1>3. /\ Phase(t) = "remove" /\ Phase(t)' = "removed" /\ FoundOwn(t) /\ UndoIndex(t)' = UndoIndex(t)
      /\ ~ForAdd(t)' /\ ~ForFree(t)' /\ ~ForPath(t)' /\ ~Adding(t)' /\ \A n : ~TakenOut(t, n)
  BY <1>1, <1>2 DEF FoundOwn, UndoIndex, TakenOut
<1> HIDE DEF Phase, ForAdd, ForFree, ForPath, Relocating, Adding
<1>4. NamesInv(t)' /\ NodesLocked(t)'
  BY <1>1, <1>3, KeepsNodes
<1>5. ~CellReady(t)' /\ ~Tentative(t)' /\ ~PastPrimary(t)' /\ ~Vacating(t)'
  BY <1>2, <1>3 DEF CellReady, ToBeStored, Tentative, PastPrimary, Vacating
<1>6. RemoveInv(t)'
  BY <1>1, <1>2, <1>3 DEF Account, RemoveInv
<1> QED BY <1>3, <1>4, <1>5, <1>6 DEF Account, FreeInv, MoveCopy, FullInv, TentativeInv, VacatedInv

(* What is left of the nodes after one was taken out.                      *)
LEMMA RemovedNodes ==
  ASSUME CInv, NodeInv, NEW t \in Threads, Removed(t)
  PROVE  /\ op[t].added \in Seq(Nodes) /\ op'[t].inserts = op[t].inserts
         /\ find[t].node = op[t].added[UndoIndex(t)] /\ UndoIndex(t) \in DOMAIN op[t].added
         /\ \A i \in DOMAIN op'[t].added :
              \E k \in DOMAIN op[t].added : k # UndoIndex(t) /\ op'[t].added[i] = op[t].added[k]
         /\ \A k \in DOMAIN op[t].added :
              k # UndoIndex(t) => \E i \in DOMAIN op'[t].added : op'[t].added[i] = op[t].added[k]
         /\ \A i, j \in DOMAIN op'[t].added : op'[t].added[i].id = op'[t].added[j].id => i = j
         /\ \A k \in DOMAIN op[t].added : TakenOut(t, op[t].added[k]) <=> k = UndoIndex(t)
<1>1. TypeOK /\ Control(t) /\ Account(t) /\ pc[t] = "removed" /\ Phase(t) = "removed"
  BY DEF CInv, NodeInv, Removed
<1>2. op[t].added # <<>> /\ find[t].node = op[t].added[UndoIndex(t)] /\ op[t].added \in Seq(Nodes)
  BY <1>1, LocalTypes DEF Control, InsertInv, Account, RemoveInv
<1>3. PICK u, n : u = UndoIndex(t) /\ n = Len(op[t].added) /\ n \in Nat /\ DOMAIN op[t].added = 1..n
  BY <1>2
<1>4. PICK s : s = RemoveAt(op[t].added, u)
  OBVIOUS
<1>5. /\ u \in 1..n /\ DOMAIN s = 1..(n - 1)
      /\ \A i \in 1..(n - 1) : s[i] = op[t].added[IF i < u THEN i ELSE i + 1]
  BY <1>1, <1>2, <1>3, <1>4, RestOfNodes
<1>6. op' = [op EXCEPT ![t].added = s]
  BY <1>3, <1>4 DEF Removed
<1>7. op'[t].added = s /\ op'[t].inserts = op[t].inserts
  <2>1. DOMAIN op = Threads /\ op[t] = [inserts |-> op[t].inserts, plan |-> op[t].plan, added |-> op[t].added]
    BY <1>1 DEF TypeOK
  <2> QED BY <1>6, <2>1
<1>8. \A i \in DOMAIN s : \E k \in DOMAIN op[t].added : k # u /\ s[i] = op[t].added[k]
  <2>1. ASSUME NEW i \in DOMAIN s PROVE \E k \in 1..n : k # u /\ s[i] = op[t].added[k]
    <3>1. CASE i < u
      BY <1>3, <1>5, <3>1
    <3>2. CASE ~(i < u)
      <4>1. i + 1 \in 1..n /\ i + 1 # u /\ s[i] = op[t].added[i + 1]
        BY <1>3, <1>5, <3>2
      <4> QED BY <4>1
    <3> QED BY <3>1, <3>2
  <2> QED BY <1>3, <2>1
<1>9. \A k \in DOMAIN op[t].added : k # u => \E i \in DOMAIN s : s[i] = op[t].added[k]
  <2>1. ASSUME NEW k \in 1..n, k # u PROVE \E i \in DOMAIN s : s[i] = op[t].added[k]
    <3>1. CASE k < u
      <4>1. k \in 1..(n - 1) /\ s[k] = op[t].added[k]
        BY <1>3, <1>5, <3>1
      <4> QED BY <1>5, <4>1
    <3>2. CASE k > u
      <4>1. k - 1 \in 1..(n - 1) /\ ~(k - 1 < u) /\ (k - 1) + 1 = k
        BY <1>3, <1>5, <3>2
      <4>2. s[k - 1] = op[t].added[k]
        BY <1>5, <4>1
      <4> QED BY <1>5, <4>1, <4>2
    <3> QED BY <1>3, <1>5, <2>1, <3>1, <3>2
  <2> QED BY <1>3, <2>1
<1>10. \A i, j \in DOMAIN op[t].added : op[t].added[i].id = op[t].added[j].id => i = j
  BY <1>1 DEF Account, NamesInv
<1>11. \A i, j \in DOMAIN s : s[i].id = s[j].id => i = j
  <2>1. ASSUME NEW i \in 1..(n - 1), NEW j \in 1..(n - 1), s[i].id = s[j].id PROVE i = j
    <3>1. PICK k, m : /\ k = (IF i < u THEN i ELSE i + 1) /\ m = (IF j < u THEN j ELSE j + 1)
                      /\ s[i] = op[t].added[k] /\ s[j] = op[t].added[m]
      BY <1>5
    <3>2. k \in 1..n /\ m \in 1..n
      BY <1>3, <3>1
    <3>3. k = m
      BY <1>3, <1>10, <2>1, <3>1, <3>2
    <3> QED BY <1>3, <1>5, <3>1, <3>3
  <2> QED BY <1>5, <2>1
<1>12. \A k \in DOMAIN op[t].added : TakenOut(t, op[t].added[k]) <=> k = UndoIndex(t)
  <2>1. UndoIndex(t) \in DOMAIN op[t].added
    BY <1>3, <1>5
  <2>2. \A k \in DOMAIN op[t].added : op[t].added[k] = op[t].added[UndoIndex(t)] => k = UndoIndex(t)
    BY <1>10, <2>1
  <2> QED BY <1>1, <1>2, <2>1, <2>2 DEF TakenOut
<1>13. DOMAIN op'[t].added = DOMAIN s /\ \A i : op'[t].added[i] = s[i]
  BY <1>7
<1>14. \A i \in DOMAIN op'[t].added :
         \E k \in DOMAIN op[t].added : k # UndoIndex(t) /\ op'[t].added[i] = op[t].added[k]
  <2> HIDE DEF UndoIndex
  <2> QED BY <1>3, <1>8, <1>13, Zenon
<1>15. \A k \in DOMAIN op[t].added :
         k # UndoIndex(t) => \E i \in DOMAIN op'[t].added : op'[t].added[i] = op[t].added[k]
  BY <1>3, <1>9, <1>13, Zenon
<1>16. \A i, j \in DOMAIN op'[t].added : op'[t].added[i].id = op'[t].added[j].id => i = j
  BY <1>11, <1>13, Zenon
<1>17. UndoIndex(t) \in DOMAIN op[t].added
  BY <1>3, <1>5
<1> QED BY <1>2, <1>7, <1>12, <1>14, <1>15, <1>16, <1>17, Zenon

(* The node that was taken out is forgotten.                               *)
LEMMA RemovedAccount ==
  ASSUME CInv, NodeInv, NEW t \in Threads, cells' = cells, Removed(t)
  PROVE  Account(t)'
<1>1. TypeOK /\ Account(t) /\ pc[t] = "removed" /\ entry_locks' = entry_locks
  BY DEF CInv, NodeInv, Removed
<1>2. pc'[t] = "undo"
  BY <1>1 DEF Removed, TypeOK
<1>3. Phase(t) = "removed" /\ Phase(t)' = "undo" /\ ~Adding(t)'
  BY <1>1, <1>2
<1> HIDE DEF Phase, Adding
<1>4. NamesInv(t)'
  <2>1. \A k \in DOMAIN op[t].added : op[t].added[k].id[1] = t /\ op[t].added[k].id[2] = op[t].inserts
    BY <1>1 DEF Account, NamesInv
  <2>2. \A i \in DOMAIN op'[t].added : op'[t].added[i].id[1] = t /\ op'[t].added[i].id[2] = op'[t].inserts
    BY <2>1, RemovedNodes
  <2>3. \A i, j \in DOMAIN op'[t].added : op'[t].added[i].id = op'[t].added[j].id => i = j
    BY RemovedNodes
  <2> QED BY <1>3, <2>2, <2>3 DEF NamesInv
<1>5. NodesLocked(t)'
  <2>1. \A k \in DOMAIN op[t].added : k # UndoIndex(t) => \E p \in entry_locks[t] : cells[p].id = op[t].added[k].id
    BY <1>1, <1>3, RemovedNodes DEF Account, NodesLocked
  <2>2. \A i \in DOMAIN op'[t].added : \E p \in entry_locks[t] : cells[p].id = op'[t].added[i].id
    BY <2>1, RemovedNodes
  <2> QED BY <1>1, <1>3, <2>2 DEF NodesLocked
<1> QED BY <1>2, <1>3, <1>4, <1>5, AtRest DEF Account, RestPhases

(* A thread's own steps give it what it relies on.                         *)
LEMMA OwnAccount ==
  ASSUME CInv, CInv', PInv, LockInv, ContentInv, NodeInv, ~scenario.buffered, NEW t \in Threads,
         Step(t) \/ BeginInsert(t) \/ BeginLookup(t) \/ Drain(t)
  PROVE  Account(t)'
<1>1. TypeOK /\ Control(t) /\ Control(t)' /\ Others(t)
  BY StepIsLocal DEF CInv
<1>2. Step(t) \/ BeginInsert(t) \/ BeginLookup(t)
  BY <1>1, Effects
<1>3. CASE write_entry(t)
  BY <1>1, <1>3, Effects, OwnCounter, OwnStore
<1>4. CASE ~write_entry(t)
  <2>1. cells' = cells
    BY <1>1, <1>4, Effects
  <2>2. CASE add_entry(t)
    BY <1>1, <2>1, <2>2, RestAccount, ScanAccount, PutAccount, ReadUnlockAccount, UpgradeAccount, SearchScanAccount,
       MoveEntryAccount, MoveNextAccount, ReleaseAccount
       DEF add_entry, AddStep, relocate_entry, SearchStep, MoveStep, RelocateEnd
  <2>3. CASE InsertEnd(t)
    BY <2>1, <2>3, RestAccount, UndoAccount, RemoveAccount, RemovedAccount DEF InsertEnd
  <2>4. CASE find_entry_in_pair_by_color(t)
    BY <2>1, <2>4, FindAccount
  <2>5. CASE LookupReturn(t) \/ BeginInsert(t) \/ BeginLookup(t)
    BY <2>1, <2>5, RestAccount
  <2> QED BY <1>2, <1>4, <2>2, <2>3, <2>4, <2>5 DEF Step
<1> QED BY <1>3, <1>4

-----------------------------------------------------------------------------
(* The table. *)

(* Which nodes are settled.                                                *)
LEMMA SettledMembers ==
  \A n : /\ n \in Settled <=> \/ n \in live
                               \/ \E u \in Writers : n \in Range(op[u].added) /\ ~TakenOut(u, n)
         /\ n \in Settled' <=> \/ n \in live'
                                \/ \E u \in Writers : n \in Range(op'[u].added) /\ ~TakenOut(u, n)'
<1> TAKE n
<1>1. n \in Settled <=> \/ n \in live
                       \/ \E u \in Writers : n \in Range(op[u].added) /\ ~TakenOut(u, n)
  <2> DEFINE S(u) == {m \in Range(op[u].added) : ~TakenOut(u, m)}
  <2>1. Settled = live \cup UNION {S(u) : u \in Writers}
    BY DEF Settled
  <2>2. \A u \in Writers : n \in S(u) <=> n \in Range(op[u].added) /\ ~TakenOut(u, n)
    OBVIOUS
  <2> HIDE DEF S
  <2>3. n \in Settled <=> n \in live \/ \E u \in Writers : n \in S(u)
    BY <2>1
  <2> QED BY <2>2, <2>3
<1>2. n \in Settled' <=> \/ n \in live'
                       \/ \E u \in Writers : n \in Range(op'[u].added) /\ ~TakenOut(u, n)'
  <2> DEFINE S(u) == {m \in Range(op'[u].added) : ~TakenOut(u, m)'}
  <2>1. Settled' = live' \cup UNION {S(u) : u \in Writers}
    BY DEF Settled
  <2>2. \A u \in Writers : n \in S(u) <=> n \in Range(op'[u].added) /\ ~TakenOut(u, n)'
    OBVIOUS
  <2> HIDE DEF S
  <2>3. n \in Settled' <=> n \in live' \/ \E u \in Writers : n \in S(u)
    BY <2>1
  <2> QED BY <2>2, <2>3
<1> QED BY <1>1, <1>2, Zenon

(* Names stay known when nothing is added or taken out.                    *)
LEMMA SameKnown ==
  ASSUME KnownInv, cells' = cells,
         \A u \in Writers : /\ op'[u].inserts = op[u].inserts /\ op'[u].added = op[u].added
                            /\ Tentative(u) => Tentative(u)' /\ add'[u].result = add[u].result
                            /\ \A n : TakenOut(u, n)' <=> TakenOut(u, n)
  PROVE  KnownInv'
<1> HIDE DEF Phase
<1>1. \A u \in Writers : NodeId(u)' = NodeId(u)
  BY DEF NodeId, NodeNumber
<1>2. ASSUME NEW p \in Cells, NEW id, Known(id, p) PROVE Known(id, p)'
  <2>1. CASE id = RootId
    BY <2>1 DEF Known
  <2>2. CASE id \in NodeIds
    <3>1. PICK u \in Writers : u = id[1]
      BY <2>2 DEF NodeIds
    <3>2. CASE id[2] < op[u].inserts
      BY <2>2, <3>1, <3>2 DEF Known
    <3>3. ASSUME NEW i \in DOMAIN op[u].added, op[u].added[i].id = id, ~TakenOut(u, op[u].added[i])
          PROVE  Known(id, p)'
      <4>1. i \in DOMAIN op'[u].added /\ op'[u].added[i] = op[u].added[i]
        OBVIOUS
      <4>2. PICK n : n = op[u].added[i]
        OBVIOUS
      <4>3. ~TakenOut(u, n)' /\ op'[u].added[i] = n /\ n.id = id
        BY <3>3, <4>1, <4>2
      <4>4. ~TakenOut(u, op[u].added[i])'
        BY <4>3 DEF TakenOut
      <4> QED BY <2>2, <3>1, <4>1, <4>3, <4>4 DEF Known
    <3>4. CASE Tentative(u) /\ id = NodeId(u) /\ p = add[u].result
      BY <1>1, <2>2, <3>1, <3>4 DEF Known
    <3> QED BY <1>2, <2>2, <3>1, <3>2, <3>3, <3>4, RootIsNoNode DEF Known
  <2> QED BY <1>2, <2>1, <2>2 DEF Known
<1>3. KnownInv'
  <2>1. ASSUME NEW p \in Cells, cells'[p].id # None PROVE Known(cells[p].id, p)'
    <3>1. PICK id : id = cells[p].id
      OBVIOUS
    <3>2. Known(id, p)'
      BY <1>2, <2>1, <3>1 DEF KnownInv
    <3> QED BY <3>1, <3>2
  <2> QED BY <2>1 DEF KnownInv
<1> QED BY <1>3

(* Names, publication and places of the nodes depend on few of the         *)
(* variables.                                                              *)
LEMMA SameNodes ==
  ASSUME TypeOK, KnownInv, LiveInv, SettledInv, cells' = cells, live' = live,
         \A u \in Writers : /\ op'[u].inserts = op[u].inserts /\ op'[u].added = op[u].added
                            /\ Phase(u) = "release" => Phase(u)' = "release"
                            /\ Tentative(u) => Tentative(u)' /\ add'[u].result = add[u].result
                            /\ \A n : TakenOut(u, n)' <=> TakenOut(u, n)
  PROVE  KnownInv' /\ LiveInv' /\ SettledInv'
<1> HIDE DEF Phase
<1>3. KnownInv'
  BY SameKnown
<1>4. LiveInv'
  <2>1. ASSUME NEW n \in live
        PROVE  \/ n.id[2] < op'[n.id[1]].inserts
               \/ Phase(n.id[1])' = "release" /\ n \in Range(op'[n.id[1]].added)
    <3>1. n.id[1] \in Writers
      BY <2>1 DEF TypeOK, Nodes, NodeIds
    <3> QED BY <2>1, <3>1 DEF LiveInv
  <2> QED BY <2>1 DEF LiveInv
<1>5. Settled' = Settled
  BY SettledMembers
<1>6. SettledInv'
  BY <1>5 DEF SettledInv
<1> QED BY <1>3, <1>4, <1>6

(* Two copies of an entry stay the business of the same relocation.        *)
LEMMA SameCopies ==
  ASSUME CopyInv, cells' = cells,
         \A u \in Threads : Vacating(u) => /\ Vacating(u)' /\ Vacated(u)' = Vacated(u)
                                           /\ bucket_refs'[u] = bucket_refs[u]
  PROVE  CopyInv'
<1>1. ASSUME NEW p \in Cells, NEW q \in Cells, p # q, cells[p].id # None, cells[p].id = cells[q].id
      PROVE  \E u \in Threads : /\ Vacating(u)' /\ Vacated(u)' \in {p, q}
                                /\ bucket_refs'[u][BucketOf(p)] = 1 /\ bucket_refs'[u][BucketOf(q)] = 1
  <2>1. PICK u \in Threads : /\ Vacating(u) /\ Vacated(u) \in {p, q}
                             /\ bucket_refs[u][BucketOf(p)] = 1 /\ bucket_refs[u][BucketOf(q)] = 1
    BY <1>1 DEF CopyInv
  <2> QED BY <2>1
<1> QED BY <1>1 DEF CopyInv, BucketOf

(* With no new entry, colors stay different.                               *)
LEMMA SameColors ==
  ASSUME ColorInv, Entered' \subseteq Entered,
         \A u \in Threads : Doomed(u) => Doomed(u)' /\ NodeId(u)' = NodeId(u)
  PROVE  ColorInv'
<1>1. ASSUME NEW e \in Entered', NEW f \in Entered', e.id # None, f.id # None, e.id # f.id, SameLocator(e, f)
      PROVE  \E w \in Threads : Doomed(w)' /\ NodeId(w)' \in {e.id, f.id}
  <2>1. PICK w \in Threads : Doomed(w) /\ NodeId(w) \in {e.id, f.id}
    BY <1>1 DEF ColorInv
  <2> QED BY <2>1
<1> QED BY <1>1, Zenon DEF ColorInv, SameLocator

(* The entries that are or will be stored.                                 *)
LEMMA SameEntered ==
  ASSUME cells' = cells, \A u \in Threads : ToBeStored(u)' => ToBeStored(u) /\ write'[u] = write[u]
  PROVE  Entered' \subseteq Entered
<1>1. ASSUME NEW e \in Entered' PROVE e \in Entered
  <2>1. CASE e \in {cells[p] : p \in Cells}'
    BY <2>1 DEF Entered
  <2>2. CASE e \in {write[u].entry : u \in {v \in Threads : ToBeStored(v)}}'
    <3>1. PICK u \in Threads : ToBeStored(u)' /\ e = write'[u].entry
      BY <2>2, Zenon
    <3>2. ToBeStored(u) /\ e = write[u].entry
      BY <3>1
    <3> QED BY <3>2 DEF Entered
  <2> QED BY <2>1, <2>2 DEF Entered
<1> QED BY <1>1

(* The sequence number is odd between the two increments.                  *)
LEMMA CounterBusy ==
  ASSUME CInv, PInv, LockInv, NodeInv, NEW t \in Threads, write_entry(t), Others(t),
         pc[t] \in {"write1", "write3"},
         busy' = [busy EXCEPT ![BucketOf(write[t].cell)] = ~busy[BucketOf(write[t].cell)]]
  PROVE  BusyInv'
<1>1. TypeOK /\ Control(t) /\ BusyInv /\ busy \in [Buckets -> BOOLEAN]
  BY DEF CInv, NodeInv, TypeOK
<1>2. PICK B : B = BucketOf(write[t].cell) /\ B \in Buckets
  BY WritesHeld
<1>3. /\ write'[t].cell = write[t].cell /\ (pc[t] = "write1" => pc'[t] = "write2")
      /\ pc[t] = "write3" => pc'[t] \notin {"write2", "write3"}
  BY <1>1, WriteView
<1>4. ASSUME NEW u \in Threads \ {t}
      PROVE  /\ pc'[u] = pc[u] /\ write'[u] = write[u]
             /\ ~(pc[u] \in {"write2", "write3"} /\ BucketOf(write[u].cell) = B)
  <2>1. pc'[u] = pc[u] /\ write'[u] = write[u]
    BY LocalView DEF Others
  <2>2. ASSUME pc[u] \in {"write2", "write3"}, BucketOf(write[u].cell) = B PROVE FALSE
    <3>1. Held(u, B) /\ Held(t, B)
      BY <1>2, <2>2, WritesHeld
    <3> QED BY <1>2, <3>1, OneHolder
  <2> QED BY <2>1, <2>2
<1> HIDE DEF Phase
<1>5. ASSUME NEW b \in Buckets
      PROVE  busy'[b] <=> \E u \in Threads : pc'[u] \in {"write2", "write3"} /\ BucketOf(write'[u].cell) = b
  <2>1. CASE b # B
    <3>1. busy'[b] = busy[b]
      BY <1>1, <1>2, <2>1
    <3>2. \A u \in Threads : pc'[u] \in {"write2", "write3"} /\ BucketOf(write'[u].cell) = b
                             <=> pc[u] \in {"write2", "write3"} /\ BucketOf(write[u].cell) = b
      BY <1>2, <1>3, <1>4, <2>1
    <3> QED BY <1>1, <3>1, <3>2 DEF BusyInv
  <2>2. CASE b = B
    <3>1. busy'[b] <=> ~busy[b]
      BY <1>1, <1>2, <2>2
    <3>2. busy[b] <=> pc[t] = "write3"
      BY <1>1, <1>2, <1>4, <2>2 DEF BusyInv
    <3>3. (\E u \in Threads : pc'[u] \in {"write2", "write3"} /\ BucketOf(write'[u].cell) = b) <=> pc[t] = "write1"
      BY <1>2, <1>3, <1>4, <2>2
    <3> QED BY <3>1, <3>2, <3>3
  <2> QED BY <2>1, <2>2
<1> QED BY <1>5, Zenon DEF BusyInv, BucketOf

(* Turning the sequence number changes nothing else in the table.          *)
LEMMA CounterNodes ==
  ASSUME CInv, PInv, LockInv, NodeInv, NEW t \in Threads, write_entry(t), Others(t),
         pc[t] \in {"write1", "write3"}, cells' = cells,
         stale' = [v \in Threads |-> stale[v] \cup HandlesOn(v, BucketOf(write[t].cell))]
  PROVE  EntryInv' /\ KnownInv' /\ LiveInv' /\ SettledInv' /\ CopyInv' /\ ColorInv'
<1>1. /\ TypeOK /\ Control(t) /\ EntryInv /\ KnownInv /\ LiveInv /\ SettledInv /\ CopyInv /\ ColorInv
  BY DEF CInv, NodeInv
<1>2. /\ op' = op /\ add' = add /\ write' = write /\ live' = live /\ bucket_refs' = bucket_refs
      /\ Phase(t)' = Phase(t)
  BY <1>1, WriteView
<1>3. \A u \in Threads :
        /\ Phase(u)' = Phase(u) /\ (ToBeStored(u)' <=> ToBeStored(u)) /\ (Tentative(u)' <=> Tentative(u))
        /\ \A n : TakenOut(u, n)' <=> TakenOut(u, n)
        /\ Vacating(u) => Vacating(u)' /\ Vacated(u)' = Vacated(u)
  <2>1. ASSUME NEW u \in Threads
        PROVE  /\ Phase(u)' = Phase(u) /\ (ToBeStored(u)' <=> ToBeStored(u)) /\ (Tentative(u)' <=> Tentative(u))
               /\ \A n : TakenOut(u, n)' <=> TakenOut(u, n)
               /\ Vacating(u) => Vacating(u)' /\ Vacated(u)' = Vacated(u)
    <3>1. CASE u = t
      BY <1>1, <1>2, <3>1, CounterView
    <3>2. CASE u # t
      BY <3>2, LocalView DEF Others
    <3> QED BY <3>1, <3>2
  <2> QED BY <2>1, Zenon
<1> HIDE DEF Phase
<1>4. EntryInv'
  BY <1>1, <1>2 DEF EntryInv
<1>5. KnownInv' /\ LiveInv' /\ SettledInv'
  BY <1>1, <1>2, <1>3, SameNodes DEF Threads
<1>6. CopyInv'
  BY <1>1, <1>2, <1>3, SameCopies
<1>7. Entered' \subseteq Entered
  BY <1>2, <1>3, SameEntered
<1>8. \A u \in Threads : Doomed(u) => Doomed(u)' /\ NodeId(u)' = NodeId(u)
  <2>1. \A u \in Threads : NodeId(u)' = NodeId(u)
    BY <1>2 DEF NodeId, NodeNumber
  <2>2. \A u \in Threads : ~Fresh(u, PRIMARY) => ~Fresh(u, PRIMARY)'
    BY DEF Fresh
  <2> QED BY <1>2, <1>3, <2>1, <2>2 DEF Doomed
<1> QED BY <1>1, <1>4, <1>5, <1>6, <1>7, <1>8, SameColors

(* A settled node has the name of a finished insert, or is one of the      *)
(* nodes an insert has added.                                              *)
LEMMA SettledOwner ==
  ASSUME CInv, NodeInv, NEW n \in Settled
  PROVE  /\ n \in Nodes /\ n.id \in NodeIds /\ n.id # None /\ n.id # RootId /\ n.id[1] \in Writers
         /\ n.id[2] < op[n.id[1]].inserts \/ n \in Range(op[n.id[1]].added)
<1>1. TypeOK /\ LiveInv /\ \A t \in Threads : NamesInv(t)
  BY DEF CInv, NodeInv, Account
<1>2. CASE n \in live
  <2>1. n \in Nodes
    BY <1>1, <1>2 DEF TypeOK
  <2>2. n.id \in NodeIds /\ n.id[1] \in Writers
    BY <2>1 DEF Nodes, NodeIds
  <2> QED BY <1>1, <1>2, <2>1, <2>2, NoneAssumption, RootIsNoNode DEF LiveInv
<1>3. ASSUME NEW u \in Writers, n \in Range(op[u].added)
      PROVE  /\ n \in Nodes /\ n.id \in NodeIds /\ n.id # None /\ n.id # RootId /\ n.id[1] \in Writers
             /\ n \in Range(op[n.id[1]].added)
  <2>1. u \in Threads
    BY DEF Threads
  <2>2. PICK s \in Seq(Nodes) : s = op[u].added
    BY <1>1, <2>1, LocalTypes
  <2>3. PICK i \in DOMAIN s : n = s[i]
    BY <1>3, <2>2 DEF Range
  <2>4. n \in Nodes
    BY <2>2, <2>3
  <2>5. n.id \in NodeIds
    BY <2>4 DEF Nodes
  <2>6. n.id[1] = u
    BY <1>1, <2>1, <2>2, <2>3 DEF NamesInv
  <2> QED BY <1>3, <2>4, <2>5, <2>6, NoneAssumption, RootIsNoNode
<1> QED BY <1>2, <1>3, SettledMembers

(* The name of the entry being added is not that of a settled node.        *)
LEMMA SettledIsNotNew ==
  ASSUME CInv, NodeInv, NEW n \in Settled, NEW t \in Threads, Adding(t)
  PROVE  n.id # NodeId(t)
<1> SUFFICES ASSUME n.id = NodeId(t) PROVE FALSE
  OBVIOUS
<1>1. op[t].inserts \in Nat
  BY LocalTypes DEF CInv
<1>2. n.id[1] = t /\ n.id[2] = op[t].inserts /\ \A i \in DOMAIN op[t].added : op[t].added[i].id # n.id
  BY NewName
<1> QED BY <1>1, <1>2, SettledOwner DEF Range

(* The node whose removal has been written or is about to be.              *)
LEMMA NodeRemoved ==
  ASSUME CInv, NodeInv, NEW t \in Threads, Phase(t) = "removed"
  PROVE  /\ t \in Writers /\ UndoIndex(t) \in DOMAIN op[t].added
         /\ find[t].node = op[t].added[UndoIndex(t)] /\ find[t].node \in Nodes
         /\ find[t].node.id \in NodeIds /\ find[t].node.id # None
         /\ find[t].node.id[1] = t /\ find[t].node.id[2] = op[t].inserts
         /\ \A n : n.id = find[t].node.id /\ n \in Range(op[t].added) => n = find[t].node
<1>1. TypeOK /\ Control(t) /\ NamesInv(t) /\ RemoveInv(t)
  BY DEF CInv, NodeInv, Account
<1>2. op[t].added # <<>> /\ find[t].node = op[t].added[UndoIndex(t)] /\ t \in Writers
  BY <1>1 DEF Control, InsertInv, RemoveInv, CallInv, Threads
<1>3. UndoIndex(t) \in DOMAIN op[t].added
  BY <1>1, <1>2, RestOfNodes
<1>4. PICK s \in Seq(Nodes) : s = op[t].added
  BY <1>1, LocalTypes
<1>5. find[t].node \in Nodes
  BY <1>2, <1>3, <1>4
<1>6. find[t].node.id \in NodeIds
  BY <1>5 DEF Nodes
<1>7. find[t].node.id[1] = t /\ find[t].node.id[2] = op[t].inserts
  BY <1>1, <1>2, <1>3 DEF NamesInv
<1>8. \A i \in DOMAIN op[t].added : op[t].added[i].id = op[t].added[UndoIndex(t)].id => i = UndoIndex(t)
  BY <1>1, <1>3 DEF NamesInv
<1>9. ASSUME NEW n, n.id = find[t].node.id, n \in Range(op[t].added) PROVE n = find[t].node
  <2>1. PICK i \in DOMAIN op[t].added : n = op[t].added[i]
    BY <1>9 DEF Range
  <2> QED BY <1>2, <1>8, <1>9, <2>1
<1> QED BY <1>2, <1>3, <1>5, <1>6, <1>7, <1>9, NoneAssumption

(* What a store of an entry changes of its thread.                         *)
LEMMA StoreView ==
  ASSUME TypeOK, NEW t \in Threads, Control(t), write_entry(t), pc[t] = "write2", Others(t)
  PROVE  /\ op' = op /\ add' = add /\ live' = live /\ write' = write /\ bucket_refs' = bucket_refs
         /\ \A u \in Threads : Phase(u)' = Phase(u) /\ NodeId(u)' = NodeId(u)
         /\ \A u \in Threads \ {t} :
              /\ pc'[u] = pc[u] /\ (ToBeStored(u)' <=> ToBeStored(u)) /\ (Tentative(u)' <=> Tentative(u))
              /\ (\A n : TakenOut(u, n)' <=> TakenOut(u, n))
              /\ (Vacating(u)' <=> Vacating(u)) /\ Vacated(u)' = Vacated(u)
         /\ pc'[t] = "write3" /\ ~ToBeStored(t)'
         /\ Tentative(t)' <=> Phase(t) = "read_unlock"
         /\ Tentative(t) <=> Phase(t) = "withdrawn"
         /\ ToBeStored(t) <=> Phase(t) = "read_unlock"
         /\ \A n : TakenOut(t, n)' <=> Phase(t) = "removed" /\ find[t].node = n
         /\ \A n : ~TakenOut(t, n)
         /\ Vacating(t)' <=> Phase(t) = "moved"
         /\ Phase(t) = "moved" => Vacated(t)' = Occupied(t)
         /\ Vacating(t) <=> Phase(t) \in {"moved", "release_free"}
         /\ Vacating(t) => Vacated(t) = IF Phase(t) = "moved" THEN rel[t].free ELSE add[t].result
<1>1. /\ op' = op /\ add' = add /\ live' = live /\ write' = write /\ bucket_refs' = bucket_refs
      /\ find' = find /\ rel' = rel
      /\ pc'[t] = "write3" /\ Phase(t)' = Phase(t) /\ Occupied(t)' = Occupied(t)
      /\ Phase(t) \in {"read_unlock", "withdrawn", "moved", "release_free", "removed"} /\ Phase(t) = write[t].then
  BY WriteView
<1>2. \A u \in Threads \ {t} :
        /\ pc'[u] = pc[u] /\ Phase(u)' = Phase(u) /\ NodeId(u)' = NodeId(u)
        /\ (ToBeStored(u)' <=> ToBeStored(u)) /\ (Tentative(u)' <=> Tentative(u))
        /\ (\A n : TakenOut(u, n)' <=> TakenOut(u, n))
        /\ (Vacating(u)' <=> Vacating(u)) /\ Vacated(u)' = Vacated(u)
  BY LocalView DEF Others
<1> HIDE DEF Phase
<1>3. NodeId(t)' = NodeId(t)
  BY <1>1 DEF NodeId, NodeNumber
<1>4. /\ ~ToBeStored(t)' /\ (ToBeStored(t) <=> Phase(t) = "read_unlock")
      /\ (Tentative(t)' <=> Phase(t) = "read_unlock") /\ (Tentative(t) <=> Phase(t) = "withdrawn")
  BY <1>1 DEF ToBeStored, Tentative
<1>5. \A n : (TakenOut(t, n)' <=> Phase(t) = "removed" /\ find[t].node = n) /\ ~TakenOut(t, n)
  BY <1>1 DEF TakenOut
<1>6. /\ Vacating(t)' <=> Phase(t) = "moved"
      /\ Vacating(t) <=> Phase(t) \in {"moved", "release_free"}
  BY <1>1 DEF Vacating
<1>7. /\ Phase(t) = "moved" => Vacated(t)' = Occupied(t)
      /\ Vacating(t) => Vacated(t) = IF Phase(t) = "moved" THEN rel[t].free ELSE add[t].result
  BY <1>1, <1>6 DEF Vacated
<1> QED BY <1>1, <1>2, <1>3, <1>4, <1>5, <1>6, <1>7

(* The cell that is overwritten held nothing, or a copy of an entry that   *)
(* is elsewhere, or the node that is taken back.                           *)
LEMMA Overwritten ==
  ASSUME CInv, PInv, LockInv, NodeInv, NEW t \in Threads, pc[t] = "write2"
  PROVE  /\ Phase(t) = "read_unlock" => cells[write[t].cell].id = None
         /\ Phase(t) = "withdrawn" => cells[write[t].cell].id = NodeId(t) /\ Adding(t)
         /\ Phase(t) \in {"moved", "release_free"} /\ cells[write[t].cell].id # None =>
              \E q \in Cells \ {write[t].cell} : cells[q].id = cells[write[t].cell].id
         /\ Phase(t) = "removed" =>
              /\ cells[write[t].cell].id = find[t].node.id
              /\ \A q \in Cells : cells[q].id = find[t].node.id => q = write[t].cell
<1>1. TypeOK /\ Control(t) /\ Account(t) /\ Place(t)
  BY DEF CInv, NodeInv, PInv
<1>2. Phase(t) = "read_unlock" => cells[write[t].cell].id = None
  BY <1>1, StoredName DEF Account, FreeInv, CellReady, ToBeStored
<1>3. Phase(t) = "withdrawn" => cells[write[t].cell].id = NodeId(t) /\ Adding(t)
  BY <1>1, StoredName DEF Account, TentativeInv, Tentative
<1>4. ASSUME Phase(t) \in {"moved", "release_free"}, cells[write[t].cell].id # None
      PROVE  \E q \in Cells \ {write[t].cell} : cells[q].id = cells[write[t].cell].id
  <2>1. Vacating(t) /\ Vacated(t) = write[t].cell
    BY <1>1, <1>4, StoredName DEF Vacating, Vacated
  <2> QED BY <1>1, <1>4, <2>1 DEF Account, VacatedInv
<1>5. ASSUME Phase(t) = "removed"
      PROVE  /\ cells[write[t].cell].id = find[t].node.id
             /\ \A q \in Cells : cells[q].id = find[t].node.id => q = write[t].cell
  <2>1. cells[write[t].cell].id = find[t].node.id
    BY <1>1, <1>5, StoredName DEF Account, RemoveInv, FoundOwn
  <2>2. ~Vacating(t)
    BY <1>5 DEF Vacating
  <2> QED BY <1>5, <2>1, <2>2, HeldNodeAlone, WritesHeld, NodeRemoved
<1> QED BY <1>2, <1>3, <1>4, <1>5

(* Every name stays known, also that of a moved entry in its new cell.     *)
LEMMA StoreKnown ==
  ASSUME CInv, PInv, LockInv, NodeInv, NEW t \in Threads, write_entry(t), Others(t), pc[t] = "write2",
         cells' = [cells EXCEPT ![write[t].cell] = write[t].entry]
  PROVE  KnownInv'
<1>1. TypeOK /\ Control(t) /\ KnownInv /\ Place(t)
  BY DEF CInv, NodeInv, PInv
<1>2. ASSUME NEW id, NEW p \in Cells, NEW q \in Cells, Known(id, p),
             Phase(t) = "removed" => id # find[t].node.id,
             id \in NodeIds /\ Tentative(id[1]) /\ id = NodeId(id[1]) /\ p = add[id[1]].result => id[1] # t /\ p = q
      PROVE  Known(id, q)'
  <2> HIDE DEF Phase
  <2>1. CASE id = RootId
    BY <2>1 DEF Known
  <2>2. CASE id \in NodeIds
    <3>1. PICK u \in Threads : u = id[1] /\ id[1] \in Writers
      BY <2>2 DEF NodeIds, Threads
    <3>2. CASE id[2] < op[u].inserts
      BY <1>1, <2>2, <3>1, <3>2, StoreView DEF Known
    <3>3. ASSUME NEW i \in DOMAIN op[u].added, op[u].added[i].id = id, ~TakenOut(u, op[u].added[i])
          PROVE  Known(id, q)'
      <4>1. PICK n : n = op[u].added[i]
        OBVIOUS
      <4>2. op' = op
        BY <1>1, StoreView
      <4>3. ~TakenOut(u, n)'
        BY <1>1, <1>2, <3>1, <3>3, <4>1, StoreView
      <4>4. ~TakenOut(u, op[u].added[i])'
        BY <4>1, <4>2, <4>3
      <4> QED BY <2>2, <3>1, <3>3, <4>2, <4>4 DEF Known
    <3>4. CASE Tentative(u) /\ id = NodeId(u) /\ p = add[u].result
      <4>1. u # t /\ p = q
        BY <1>2, <2>2, <3>1, <3>4
      <4> QED BY <1>1, <2>2, <3>1, <3>4, <4>1, StoreView DEF Known
    <3> QED BY <1>2, <2>2, <3>1, <3>2, <3>3, <3>4, RootIsNoNode DEF Known
  <2> QED BY <1>2, <2>1, <2>2 DEF Known
<1>3. write[t].cell \in Cells /\ cells \in [Cells -> Entries]
  BY <1>1, WritesHeld DEF TypeOK
<1>4. ASSUME NEW p \in Cells, cells'[p].id # None PROVE Known(cells[p].id, p)'
  <2>0. PICK id : id = cells'[p].id /\ id # None
    BY <1>4
  <2> SUFFICES Known(id, p)'
    BY <2>0
  <2>1. CASE p # write[t].cell
    <3>1. cells[p].id = id /\ Known(id, p)
      BY <1>1, <1>3, <2>0, <2>1 DEF KnownInv
    <3>2. Phase(t) = "removed" => id # find[t].node.id
      BY <2>1, <3>1, Overwritten
    <3>3. Tentative(t) /\ p = add[t].result => FALSE
      BY <1>1, <2>1, StoreView, StoredName
    <3> QED BY <1>2, <3>1, <3>2, <3>3
  <2>2. CASE p = write[t].cell
    <3>1. id = write[t].entry.id
      BY <1>3, <2>0, <2>2
    <3>2. CASE Phase(t) = "read_unlock"
      <4>1. id = NodeId(t) /\ id \in NodeIds /\ id[1] = t /\ p = add[t].result
        BY <2>2, <3>1, <3>2, StoredName
      <4>2. Tentative(t)' /\ NodeId(t)' = NodeId(t) /\ add' = add
        BY <1>1, <3>2, StoreView
      <4> HIDE DEF Phase
      <4> QED BY <4>1, <4>2 DEF Known
    <3>3. CASE Phase(t) = "moved"
      <4>1. PICK q \in Cells : q = Occupied(t) /\ id = cells[q].id /\ Held(t, BucketOf(q))
        BY <3>1, <3>3, StoredName
      <4>2. Known(id, q)
        BY <1>1, <2>0, <4>1 DEF KnownInv
      <4>3. ASSUME id \in NodeIds, Tentative(id[1]), q = add[id[1]].result PROVE FALSE
        <5>1. PICK u \in Threads : u = id[1]
          BY <4>3 DEF NodeIds, Threads
        <5>2. Held(u, BucketOf(q)) /\ BucketOf(q) \in Buckets
          BY <4>3, <5>1, ResultHeld DEF Tentative
        <5>3. u = t
          BY <4>1, <5>2, OneHolder
        <5> QED BY <3>3, <4>3, <5>1, <5>3 DEF Tentative
      <4> QED BY <1>2, <3>3, <4>2, <4>3
    <3>4. CASE Phase(t) \in {"withdrawn", "release_free", "removed"}
      BY <2>0, <3>1, <3>4, StoredName DEF Unused
    <3> QED BY <3>2, <3>3, <3>4, StoredName
  <2> QED BY <2>1, <2>2
<1> QED BY <1>4, Zenon DEF KnownInv

(* No store takes a settled node out of the table, except the removal by   *)
(* its own insert, or gives it another locator.                            *)
LEMMA StoreSettled ==
  ASSUME CInv, PInv, LockInv, NodeInv, NEW t \in Threads, write_entry(t), Others(t), pc[t] = "write2",
         cells' = [cells EXCEPT ![write[t].cell] = write[t].entry]
  PROVE  SettledInv'
<1>1. TypeOK /\ Control(t) /\ SettledInv /\ LiveInv /\ \A u \in Threads : NamesInv(u)
  BY DEF CInv, NodeInv, Account
<1>2. PICK w : w = write[t].cell /\ w \in Cells /\ cells \in [Cells -> Entries]
               /\ cells'[w] = write[t].entry /\ \A p \in Cells \ {w} : cells'[p] = cells[p]
  BY <1>1, WritesHeld DEF TypeOK
<1>3. ASSUME NEW n \in Settled' PROVE n \in Settled /\ (Phase(t) = "removed" => n.id # find[t].node.id)
  <2> HIDE DEF Phase
  <2>1. op' = op /\ live' = live
    BY <1>1, StoreView
  <2>2. \A u \in Threads : TakenOut(u, n) => TakenOut(u, n)'
    BY <1>1, StoreView
  <2>3. n \in Settled
    BY <2>1, <2>2, SettledMembers DEF Threads
  <2>4. ASSUME Phase(t) = "removed", n.id = find[t].node.id PROVE FALSE
    <3>1. /\ t \in Writers /\ n.id[1] = t /\ n.id[2] = op[t].inserts
          /\ n \in Range(op[t].added) => n = find[t].node
      BY <2>4, NodeRemoved
    <3>2. op[t].inserts \in Nat
      BY <1>1, LocalTypes
    <3>3. n \in Range(op[t].added)
      BY <2>3, <3>1, <3>2, SettledOwner
    <3>4. n = find[t].node
      BY <3>1, <3>3
    <3>5. TakenOut(t, n)'
      BY <1>1, <2>4, <3>4, StoreView
    <3>6. n \notin live
      BY <1>1, <2>4, <3>1, <3>2 DEF LiveInv
    <3>7. PICK u \in Writers : n \in Range(op[u].added) /\ ~TakenOut(u, n)'
      BY <2>1, <3>6, SettledMembers
    <3>8. u = t
      <4>1. PICK i \in DOMAIN op[u].added : n = op[u].added[i]
        BY <3>7 DEF Range
      <4> QED BY <1>1, <3>1, <4>1 DEF NamesInv, Threads
    <3> QED BY <3>5, <3>7, <3>8
  <2> QED BY <2>3, <2>4
<1>4. ASSUME NEW n \in Settled'
      PROVE  \E p \in Cells : cells'[p].id = n.id
  <2>1. n \in Settled /\ n.id # None
    BY <1>3, SettledOwner
  <2>2. PICK p \in Cells : cells[p].id = n.id
    BY <1>1, <2>1 DEF SettledInv
  <2>3. CASE p # w
    BY <1>2, <2>2, <2>3
  <2>4. CASE p = w
    <3>1. CASE Phase(t) \in {"moved", "release_free"}
      <4>1. PICK q \in Cells \ {w} : cells[q].id = cells[w].id
        BY <1>2, <2>1, <2>2, <2>4, <3>1, Overwritten
      <4> QED BY <1>2, <2>2, <2>4, <4>1
    <3>2. Phase(t) # "read_unlock"
      BY <1>2, <2>1, <2>2, <2>4, Overwritten
    <3>3. Phase(t) # "withdrawn"
      BY <1>2, <2>1, <2>2, <2>4, Overwritten, SettledIsNotNew
    <3>4. Phase(t) # "removed"
      BY <1>2, <1>3, <2>2, <2>4, Overwritten
    <3> QED BY <3>1, <3>2, <3>3, <3>4, StoredName
  <2> QED BY <2>3, <2>4
<1>5. ASSUME NEW n \in Settled', NEW p \in Cells, cells'[p].id = n.id
      PROVE  n.loc = [bucket |-> cells'[p].home, tag |-> cells'[p].tag, color |-> cells'[p].color]
  <2>1. n \in Settled /\ n.id # None
    BY <1>3, SettledOwner
  <2>2. CASE p # w
    BY <1>1, <1>2, <1>5, <2>1, <2>2 DEF SettledInv
  <2>3. CASE p = w
    <3>1. write[t].entry.id = n.id /\ cells'[p] = write[t].entry
      BY <1>2, <1>5, <2>3
    <3>2. CASE Phase(t) = "moved"
      <4>1. PICK q \in Cells : q = Occupied(t) /\ write[t].entry = Flipped(cells[q]) /\ cells[q].id = n.id
        BY <3>1, <3>2, StoredName
      <4>2. cells[q] \in Entries
        BY <1>2
      <4>3. /\ write[t].entry.home = cells[q].home /\ write[t].entry.tag = cells[q].tag
            /\ write[t].entry.color = cells[q].color
        BY <4>1, <4>2 DEF Flipped, Entries
      <4> QED BY <1>1, <2>1, <3>1, <4>1, <4>3 DEF SettledInv
    <3>3. Phase(t) # "read_unlock"
      BY <2>1, <3>1, StoredName, SettledIsNotNew
    <3> QED BY <2>1, <3>1, <3>2, <3>3, StoredName DEF Unused
  <2> QED BY <2>2, <2>3
<1> QED BY <1>4, <1>5, Zenon DEF SettledInv

(* A store makes a second copy only of the entry that is being moved.      *)
LEMMA StoreCopies ==
  ASSUME CInv, PInv, LockInv, NodeInv, NEW t \in Threads, write_entry(t), Others(t), pc[t] = "write2",
         cells' = [cells EXCEPT ![write[t].cell] = write[t].entry]
  PROVE  CopyInv'
<1>1. TypeOK /\ Control(t) /\ CopyInv /\ Place(t)
  BY DEF CInv, NodeInv, PInv
<1>2. PICK w : w = write[t].cell /\ w \in Cells /\ cells \in [Cells -> Entries]
               /\ cells'[w] = write[t].entry /\ \A p \in Cells \ {w} : cells'[p] = cells[p]
  BY <1>1, WritesHeld DEF TypeOK
<1>3. bucket_refs' = bucket_refs
  BY <1>1, StoreView
<1>4. Phase(t) = "moved" =>
        /\ Occupied(t) \in Cells /\ BucketOf(Occupied(t)) # BucketOf(w) /\ w = rel[t].free
        /\ bucket_refs[t][BucketOf(w)] = 1 /\ bucket_refs[t][BucketOf(Occupied(t))] = 1
  BY <1>1, <1>2, MoveBuckets, StoredName
<1>5. ASSUME NEW q \in Cells \ {w}, cells[q].id = write[t].entry.id, write[t].entry.id # None
      PROVE  Phase(t) = "moved" /\ q = Occupied(t)
  <2>1. Phase(t) # "read_unlock"
    BY <1>1, <1>2, <1>5, StoredName, NewName, StoreView
  <2>2. Phase(t) = "moved"
    BY <1>5, <2>1, StoredName DEF Unused
  <2>3. ASSUME q # Occupied(t) PROVE FALSE
    <3>1. cells[Occupied(t)].id = cells[q].id
      BY <1>5, <2>2, StoredName
    <3>2. PICK v \in Threads : /\ Vacating(v) /\ Vacated(v) \in {q, Occupied(t)}
                               /\ bucket_refs[v][BucketOf(Occupied(t))] = 1
      BY <1>1, <1>4, <1>5, <2>2, <2>3, <3>1 DEF CopyInv
    <3>3. Held(v, BucketOf(Occupied(t))) /\ Held(t, BucketOf(Occupied(t))) /\ BucketOf(Occupied(t)) \in Buckets
      BY <1>4, <2>2, <3>2, EntryTypes DEF Held
    <3>4. v = t
      BY <3>3, OneHolder
    <3> QED BY <1>1, <1>4, <2>2, <2>3, <3>2, <3>4, StoreView
  <2> QED BY <2>2, <2>3
<1>6. Phase(t) = "moved" => Vacating(t)' /\ Vacated(t)' = Occupied(t)
  BY <1>1, StoreView
<1>7. ASSUME NEW p \in Cells, NEW q \in Cells, p # q, cells'[p].id # None, cells'[p].id = cells'[q].id
      PROVE  \E u \in Threads : /\ Vacating(u)' /\ Vacated(u)' \in {p, q}
                                /\ bucket_refs'[u][BucketOf(p)] = 1 /\ bucket_refs'[u][BucketOf(q)] = 1
  <2> HIDE DEF Phase
  <2>1. CASE p = w
    <3>1. Phase(t) = "moved" /\ q = Occupied(t)
      BY <1>2, <1>5, <1>7, <2>1
    <3> QED BY <1>3, <1>4, <1>6, <2>1, <3>1
  <2>2. CASE q = w
    <3>1. Phase(t) = "moved" /\ p = Occupied(t)
      BY <1>2, <1>5, <1>7, <2>2
    <3> QED BY <1>3, <1>4, <1>6, <2>2, <3>1
  <2>3. CASE p # w /\ q # w
    <3>1. PICK u \in Threads : /\ Vacating(u) /\ Vacated(u) \in {p, q}
                               /\ bucket_refs[u][BucketOf(p)] = 1 /\ bucket_refs[u][BucketOf(q)] = 1
      BY <1>1, <1>2, <1>7, <2>3 DEF CopyInv
    <3>2. u # t
      <4>1. Vacating(t) => Vacated(t) = w
        BY <1>1, <1>2, StoreView, StoredName
      <4> QED BY <2>3, <3>1, <4>1
    <3>3. Vacating(u)' /\ Vacated(u)' = Vacated(u)
      BY <1>1, <3>1, <3>2, StoreView
    <3> QED BY <1>3, <3>1, <3>3
  <2> QED BY <2>1, <2>2, <2>3
<1> QED BY <1>7, Zenon DEF CopyInv, BucketOf

(* A store enters no locator that was not entered before.                  *)
LEMMA StoreColors ==
  ASSUME CInv, PInv, LockInv, NodeInv, NEW t \in Threads, write_entry(t), Others(t), pc[t] = "write2",
         stale' = stale, cells' = [cells EXCEPT ![write[t].cell] = write[t].entry]
  PROVE  ColorInv'
<1>1. TypeOK /\ Control(t) /\ ColorInv /\ Place(t)
  BY DEF CInv, NodeInv, PInv
<1>2. PICK w : w = write[t].cell /\ w \in Cells /\ cells \in [Cells -> Entries]
               /\ cells'[w] = write[t].entry /\ \A p \in Cells \ {w} : cells'[p] = cells[p]
  BY <1>1, WritesHeld DEF TypeOK
<1>3. ASSUME NEW e \in Entered', e.id # None
      PROVE  /\ \E f \in Entered : f.id = e.id /\ SameLocator(e, f)
             /\ Phase(t) = "withdrawn" => e.id # NodeId(t)
  <2>1. CASE e \in {cells[p] : p \in Cells}'
    <3>1. PICK p \in Cells : e = cells'[p]
      BY <2>1
    <3>2. CASE p # w
      <4>1. e \in Entered /\ e = cells[p]
        BY <1>2, <3>1, <3>2 DEF Entered
      <4>2. Phase(t) = "withdrawn" => e.id # NodeId(t)
        BY <1>2, <3>2, <4>1, NewName, StoredName
      <4> QED BY <4>1, <4>2 DEF SameLocator
    <3>3. CASE p = w
      <4>1. e = write[t].entry
        BY <1>2, <3>1, <3>3
      <4>2. CASE Phase(t) = "read_unlock"
        <5>1. ToBeStored(t)
          BY <1>1, <4>2, StoreView
        <5>2. e \in Entered
          BY <4>1, <5>1 DEF Entered
        <5> QED BY <4>2, <5>2 DEF SameLocator
      <4>3. CASE Phase(t) = "moved"
        <5>1. PICK q \in Cells : e = Flipped(cells[q]) /\ cells[q] \in Entries /\ cells[q] \in Entered
          BY <1>2, <4>1, <4>3, StoredName DEF Entered
        <5>2. e.id = cells[q].id /\ SameLocator(e, cells[q])
          BY <5>1 DEF Flipped, Entries, SameLocator
        <5> QED BY <4>3, <5>1, <5>2
      <4> QED BY <1>3, <4>1, <4>2, <4>3, StoredName DEF Unused
    <3> QED BY <3>2, <3>3
  <2>2. CASE e \in {write[u].entry : u \in {v \in Threads : ToBeStored(v)}}'
    <3>1. PICK u \in Threads : ToBeStored(u)' /\ e = write'[u].entry
      BY <2>2, Zenon
    <3>2. u # t /\ ToBeStored(u) /\ e = write[u].entry
      BY <1>1, <3>1, StoreView
    <3>3. e \in Entered
      BY <3>2 DEF Entered
    <3>4. e.id # NodeId(t)
      <4>1. WriteInv(u)
        BY DEF PInv, Place
      <4>2. e.id = NodeId(u)
        BY <3>2, <4>1 DEF WriteInv, ToBeStored
      <4> QED BY <3>2, <4>2 DEF NodeId
    <3> QED BY <3>3, <3>4 DEF SameLocator
  <2> QED BY <2>1, <2>2 DEF Entered
<1>4. ASSUME NEW u \in Threads, Doomed(u), u # t \/ Phase(t) # "withdrawn"
      PROVE  Doomed(u)' /\ NodeId(u)' = NodeId(u)
  <2> HIDE DEF Phase
  <2>1. (ToBeStored(u) \/ Tentative(u)) => (ToBeStored(u)' \/ Tentative(u)')
    BY <1>1, <1>4, StoreView
  <2>2. add' = add /\ NodeId(u)' = NodeId(u)
    BY <1>1, StoreView
  <2> QED BY <1>4, <2>1, <2>2 DEF Doomed, Fresh
<1>5. ASSUME NEW e \in Entered', NEW f \in Entered', e.id # None, f.id # None, e.id # f.id, SameLocator(e, f)
      PROVE  \E w1 \in Threads : Doomed(w1)' /\ NodeId(w1)' \in {e.id, f.id}
  <2>1. PICK e0 \in Entered, f0 \in Entered :
             e0.id = e.id /\ SameLocator(e, e0) /\ f0.id = f.id /\ SameLocator(f, f0)
    BY <1>3, <1>5
  <2>2. SameLocator(e0, f0)
    BY <1>5, <2>1 DEF SameLocator
  <2>3. PICK v \in Threads : Doomed(v) /\ NodeId(v) \in {e.id, f.id}
    BY <1>1, <1>5, <2>1, <2>2 DEF ColorInv
  <2>4. v # t \/ Phase(t) # "withdrawn"
    BY <1>3, <1>5, <2>3
  <2> QED BY <1>4, <2>3, <2>4
<1> QED BY <1>5, Zenon DEF ColorInv, SameLocator

(* A store keeps what holds of the table.                                  *)
LEMMA StoreNodes ==
  ASSUME CInv, PInv, LockInv, NodeInv, NEW t \in Threads, write_entry(t), Others(t), pc[t] = "write2",
         busy' = busy, stale' = stale, cells' = [cells EXCEPT ![write[t].cell] = write[t].entry]
  PROVE  BusyInv' /\ EntryInv' /\ KnownInv' /\ LiveInv' /\ SettledInv' /\ CopyInv' /\ ColorInv'
<1>1. TypeOK /\ Control(t) /\ BusyInv /\ EntryInv /\ LiveInv
  BY DEF CInv, NodeInv
<1>2. /\ op' = op /\ write' = write /\ live' = live /\ \A u \in Threads : Phase(u)' = Phase(u)
      /\ \A u \in Threads : pc'[u] \in {"write2", "write3"} <=> pc[u] \in {"write2", "write3"}
  BY <1>1, StoreView
<1> HIDE DEF Phase
<1>3. BusyInv'
  <2>1. ASSUME NEW b \in Buckets
        PROVE  busy'[b] <=> \E u \in Threads : pc'[u] \in {"write2", "write3"} /\ BucketOf(write'[u].cell) = b
    BY <1>1, <1>2 DEF BusyInv
  <2> QED BY <2>1, Zenon DEF BusyInv, BucketOf
<1>4. EntryInv'
  <2>1. write[t].cell \in Cells /\ cells \in [Cells -> Entries]
    BY <1>1, WritesHeld DEF TypeOK
  <2>2. \A p \in Cells : cells'[p].id = None => cells'[p].color = INVALID_COLOR
    BY <1>1, <2>1 DEF EntryInv
  <2> QED BY <1>1, <1>2, <2>2 DEF EntryInv
<1>5. LiveInv'
  <2>1. ASSUME NEW n \in live
        PROVE  \/ n.id[2] < op[n.id[1]].inserts
               \/ Phase(n.id[1])' = "release" /\ n \in Range(op[n.id[1]].added)
    <3>1. n.id[1] \in Threads
      BY <1>1, <2>1 DEF TypeOK, Nodes, NodeIds, Threads
    <3> QED BY <1>1, <1>2, <2>1, <3>1 DEF LiveInv
  <2> QED BY <1>2, <2>1 DEF LiveInv
<1> QED BY <1>3, <1>4, <1>5, StoreKnown, StoreSettled, StoreCopies, StoreColors

(* Steps that neither write nor change which nodes there are.              *)
PlainStep(t) ==
  \/ ReadLockPrimary(t) \/ ReadLockSecondary(t) \/ ScanPrimary(t) \/ ScanSecondary(t) \/ AddReturn(t)
  \/ upgrade_bucket_lock(t) \/ Relocate(t) \/ SearchStep(t) \/ RelocateEnd(t)
  \/ find_entry_in_pair_by_color(t)
  \/ Undo(t) \/ remove_entry_by_value(t) \/ Retry(t) \/ ReleaseAllNext(t) \/ RetryInsert(t)
  \/ LookupReturn(t) \/ BeginInsert(t) \/ BeginLookup(t)

(* Where they start and end.                                               *)
LEMMA PlainLabels ==
  ASSUME TypeOK, NEW t \in Threads, Control(t), PlainStep(t)
  PROVE  /\ pc[t] \notin {"put", "read_unlock", "removed", "move", "moved", "publish"} \cup WritePcs
         /\ pc[t] = "release" => pc'[t] = "release"
         /\ pc'[t] \in Labels \ {"read_unlock", "removed", "moved", "write2", "write3", "added"}
         /\ pc'[t] = "write1" => write'[t] = [cell |-> find[t].cell, entry |-> Unused, then |-> "removed"]
         /\ live' = live
         /\ t \in Writers => op'[t].inserts = op[t].inserts /\ op'[t].added = op[t].added
         /\ write'[t] = write[t] \/ write'[t].entry = Unused
<1>0. /\ pc \in [Threads -> Labels] /\ DOMAIN op = Threads /\ DOMAIN write = Threads /\ t \in DOMAIN pc
      /\ op[t] = [inserts |-> op[t].inserts, plan |-> op[t].plan, added |-> op[t].added]
  BY DEF TypeOK
<1>1. CASE ReadLockPrimary(t) \/ ReadLockSecondary(t) \/ ScanPrimary(t) \/ ScanSecondary(t)
  BY <1>0, <1>1 DEF ReadLockPrimary, ReadLockSecondary, ScanPrimary, ScanSecondary, ChooseCell, CallUpgrade, Labels
<1>2. CASE AddReturn(t) \/ Relocate(t) \/ Undo(t) \/ Retry(t) \/ ReleaseAllNext(t)
  BY <1>0, <1>2 DEF AddReturn, Relocate, Undo, CallFind, Retry, ReleaseAllNext, Labels
<1>3. CASE upgrade_bucket_lock(t)
  <2>1. /\ pc[t] \in {"upgrade", "upgrade_check"} /\ UNCHANGED <<op, write, live>>
        /\ UpgradeOk(t) \/ UpgradeFailed(t) \/ Goto(t, "upgrade_check")
    BY <1>3 DEF upgrade_bucket_lock, UpgradeHeld, UpgradeTake, UpgradeCheck
  <2>2. UpgradeOk(t) => pc'[t] \in {"relocate", "put", "move", "upgrade"}
    BY <1>0 DEF UpgradeOk, UpgradePath, CallUpgrade
  <2>3. UpgradeFailed(t) => pc'[t] \in {"undo", "relocate_failed", "release_free"}
    BY <1>0 DEF UpgradeFailed
  <2> QED BY <1>0, <2>1, <2>2, <2>3 DEF Labels
<1>4. CASE SearchStep(t)
  BY <1>0, <1>4 DEF SearchStep, SearchExamine, SearchReadLock, SearchScan, SearchFailed, CallUpgrade, Labels
<1>5. CASE RelocateEnd(t)
  BY <1>0, <1>5 DEF RelocateEnd, ReleaseFree, ReleasePath, RelocateReturn, RelocateFailed, Labels
<1>6. CASE find_entry_in_pair_by_color(t)
  <2>1. /\ pc[t] \in {"find1", "find2", "find3"} /\ UNCHANGED <<op, write, live>>
        /\ pc'[t] \in {"find1", "find2", "find3"} \/ pc'[t] = find[t].then
    BY <1>0, <1>6 DEF find_entry_in_pair_by_color, FindReadCounter, FindScan, FindCheckCounter, NotInBucket
  <2>2. find[t].then \in {"remove", "found"}
    BY <2>1 DEF Control, CallInv
  <2> QED BY <1>0, <2>1, <2>2 DEF Labels
<1>7. CASE remove_entry_by_value(t)
  BY <1>0, <1>7 DEF remove_entry_by_value, CallWrite, Labels
<1>8. CASE RetryInsert(t) \/ BeginInsert(t)
  <2>1. PICK plan : op' = [op EXCEPT ![t].plan = plan]
    BY <1>8 DEF RetryInsert, BeginInsert, ChoosePlan
  <2>2. op'[t].inserts = op[t].inserts /\ op'[t].added = op[t].added
    BY <1>0, <2>1
  <2> QED BY <1>0, <1>8, <2>2 DEF RetryInsert, BeginInsert, ChoosePlan, Labels
<1>9. CASE LookupReturn(t)
  <2>1. t \notin Writers
    BY <1>9 DEF LookupReturn, Control, CallInv
  <2>2. write'[t].entry = Unused
    BY <1>0, <1>9 DEF LookupReturn, Return, NoWrite
  <2> QED BY <1>0, <1>9, <2>1, <2>2 DEF LookupReturn, Return, Labels
<1>10. CASE BeginLookup(t)
  BY <1>0, <1>10 DEF BeginLookup, CallFind, Labels
<1> QED BY <1>1, <1>2, <1>3, <1>4, <1>5, <1>6, <1>7, <1>8, <1>9, <1>10 DEF PlainStep

(* Steps other than writes keep the sequence numbers in order.             *)
LEMMA QuietBusy ==
  ASSUME CInv, NodeInv, NEW t \in Threads, Step(t) \/ BeginInsert(t) \/ BeginLookup(t), ~write_entry(t),
         Others(t), busy' = busy
  PROVE  BusyInv'
<1>2. \A u \in Threads : pc[u] \in {"write2", "write3"} => pc'[u] \in {"write2", "write3"} /\ write'[u] = write[u]
  BY NoWriteStep, LocalView DEF Others
<1>3. \A u \in Threads : pc'[u] \in {"write2", "write3"} => pc[u] \in {"write2", "write3"} /\ write'[u] = write[u]
  BY NoWriteStep, LocalView DEF Others
<1>4. ASSUME NEW b \in Buckets
      PROVE  busy'[b] <=> \E u \in Threads : pc'[u] \in {"write2", "write3"} /\ BucketOf(write'[u].cell) = b
  <2>1. busy[b] <=> \E u \in Threads : pc[u] \in {"write2", "write3"} /\ BucketOf(write[u].cell) = b
    BY DEF NodeInv, BusyInv
  <2> QED BY <1>2, <1>3, <2>1
<1> QED BY <1>4, Zenon DEF BusyInv, BucketOf

(* The entry to be written is a new one, a copy, or unused.                *)
LEMMA QuietEntries ==
  ASSUME CInv, NodeInv, NEW t \in Threads, Others(t), cells' = cells,
         \/ write'[t] = write[t] \/ write'[t].entry = Unused \/ write'[t].entry.id # None
         \/ \E p \in Cells : write'[t].entry = Flipped(cells[p])
  PROVE  EntryInv'
<1>1. TypeOK /\ EntryInv
  BY DEF CInv, NodeInv
<1>2. ASSUME NEW u \in Threads, write'[u].entry.id = None PROVE write'[u].entry.color = INVALID_COLOR
  <2>1. CASE write'[u] = write[u]
    BY <1>1, <1>2, <2>1 DEF EntryInv
  <2>2. CASE u = t /\ write'[t].entry = Unused
    BY <2>2 DEF Unused
  <2>3. ASSUME u = t, NEW p \in Cells, write'[t].entry = Flipped(cells[p])
        PROVE  write'[u].entry.color = INVALID_COLOR
    <3>1. cells[p] \in Entries
      BY <1>1 DEF TypeOK
    <3>2. write'[t].entry.id = cells[p].id /\ write'[t].entry.color = cells[p].color
      BY <2>3, <3>1 DEF Flipped, Entries
    <3> QED BY <1>1, <1>2, <2>3, <3>2 DEF EntryInv
  <2>4. u # t => write'[u] = write[u]
    BY LocalView DEF Others
  <2> QED BY <1>2, <2>1, <2>2, <2>3, <2>4
<1> QED BY <1>1, <1>2 DEF EntryInv

(* Plain steps change nothing about the nodes.                             *)
LEMMA PlainNodes ==
  ASSUME CInv, NodeInv, NEW t \in Threads, Others(t), PlainStep(t), cells' = cells,
         \A u \in Threads \ {t} : stale'[u] = stale[u]
  PROVE  EntryInv' /\ KnownInv' /\ LiveInv' /\ SettledInv' /\ CopyInv' /\ ColorInv'
<1>1. /\ TypeOK /\ Control(t) /\ EntryInv /\ KnownInv /\ LiveInv /\ SettledInv /\ CopyInv /\ ColorInv
  BY DEF CInv, NodeInv
<1>2. /\ live' = live /\ (write'[t] = write[t] \/ write'[t].entry = Unused)
      /\ t \in Writers => op'[t].inserts = op[t].inserts /\ op'[t].added = op[t].added
  BY <1>1, PlainLabels
<1>3. /\ ~ToBeStored(t) /\ ~ToBeStored(t)' /\ ~Tentative(t) /\ ~Vacating(t)
      /\ \A n : ~TakenOut(t, n) /\ ~TakenOut(t, n)'
  <2>1. pc[t] \notin {"put", "read_unlock", "removed", "move", "moved", "publish"} \cup WritePcs
    BY <1>1, PlainLabels
  <2>2. Phase(t) \notin MovePhases
    BY <1>1, <2>1 DEF Control, CallInv
  <2>3. ~ToBeStored(t) /\ ~Tentative(t) /\ ~Vacating(t) /\ \A n : ~TakenOut(t, n)
    <3> HIDE DEF Phase
    <3> QED BY <2>1, <2>2 DEF ToBeStored, Tentative, Vacating, TakenOut
  <2>4. /\ pc'[t] \notin {"read_unlock", "removed", "moved", "write2", "write3"}
        /\ pc'[t] = "write1" => write'[t].then = "removed"
    <3>1. pc'[t] \in Labels \ {"read_unlock", "removed", "moved", "write2", "write3", "added"}
      BY <1>1, PlainLabels
    <3>2. ASSUME pc'[t] = "write1" PROVE write'[t].then = "removed"
      <4>1. write'[t] = [cell |-> find[t].cell, entry |-> Unused, then |-> "removed"]
        BY <1>1, <3>2, PlainLabels
      <4> QED BY <4>1
    <3> QED BY <3>1, <3>2
  <2>5. ~ToBeStored(t)' /\ \A n : ~TakenOut(t, n)'
    BY <2>4 DEF ToBeStored, TakenOut
  <2> QED BY <2>3, <2>5
<1>4. Phase(t) = "release" => Phase(t)' = "release"
  BY <1>1, PlainLabels DEF Control, CallInv
<1>5. \A u \in Threads \ {t} :
        /\ Phase(u)' = Phase(u) /\ op'[u] = op[u] /\ add'[u] = add[u] /\ write'[u] = write[u]
        /\ bucket_refs'[u] = bucket_refs[u] /\ NodeId(u)' = NodeId(u)
        /\ (ToBeStored(u)' <=> ToBeStored(u)) /\ (Tentative(u)' <=> Tentative(u))
        /\ (\A n : TakenOut(u, n)' <=> TakenOut(u, n))
        /\ (Vacating(u)' <=> Vacating(u)) /\ Vacated(u)' = Vacated(u)
  BY LocalView DEF Others
<1> HIDE DEF Phase
<1>6. EntryInv'
  BY <1>2, QuietEntries
<1>7. KnownInv' /\ LiveInv' /\ SettledInv'
  BY <1>1, <1>2, <1>3, <1>4, <1>5, SameNodes DEF Threads
<1>8. CopyInv'
  BY <1>1, <1>3, <1>5, SameCopies
<1>9. Entered' \subseteq Entered
  BY <1>3, <1>5, SameEntered
<1>10. ASSUME NEW u \in Threads, Doomed(u) PROVE Doomed(u)' /\ NodeId(u)' = NodeId(u)
  BY <1>3, <1>5, <1>10 DEF Doomed, Fresh
<1> QED BY <1>1, <1>6, <1>7, <1>8, <1>9, <1>10, SameColors

(* What a step of one thread leaves alone.                                 *)
LEMMA OthersView ==
  ASSUME NEW t \in Threads, Others(t)
  PROVE  \A u \in Threads \ {t} :
           /\ Phase(u)' = Phase(u) /\ op'[u] = op[u] /\ add'[u] = add[u] /\ write'[u] = write[u]
           /\ bucket_refs'[u] = bucket_refs[u] /\ NodeId(u)' = NodeId(u)
           /\ (ToBeStored(u)' <=> ToBeStored(u)) /\ (Tentative(u)' <=> Tentative(u))
           /\ (\A n : TakenOut(u, n)' <=> TakenOut(u, n))
           /\ (Vacating(u)' <=> Vacating(u)) /\ Vacated(u)' = Vacated(u)
BY LocalView DEF Others

(* Colors stay different if the thread has no new entry to store.          *)
LEMMA QuietColors ==
  ASSUME ColorInv, NEW t \in Threads, Others(t), cells' = cells, \A u \in Threads \ {t} : stale'[u] = stale[u],
         ~ToBeStored(t)', Doomed(t) => Doomed(t)' /\ NodeId(t)' = NodeId(t)
  PROVE  ColorInv'
<1>1. Entered' \subseteq Entered
  BY OthersView, SameEntered
<1>2. ASSUME NEW u \in Threads, Doomed(u) PROVE Doomed(u)' /\ NodeId(u)' = NodeId(u)
  BY <1>2, OthersView DEF Doomed, Fresh
<1> QED BY <1>1, <1>2, SameColors

(* Copies stay the business of the same relocation.                        *)
LEMMA QuietCopies ==
  ASSUME CopyInv, NEW t \in Threads, Others(t), cells' = cells,
         Vacating(t) => Vacating(t)' /\ Vacated(t)' = Vacated(t) /\ bucket_refs'[t] = bucket_refs[t]
  PROVE  CopyInv'
<1>1. \A u \in Threads : Vacating(u) => /\ Vacating(u)' /\ Vacated(u)' = Vacated(u)
                                        /\ bucket_refs'[u] = bucket_refs[u]
  BY OthersView
<1> QED BY <1>1, SameCopies

(* A relocation goes on to its next copy.                                  *)
LEMMA MoveNodes ==
  ASSUME CInv, PInv, LockInv, NodeInv, ~scenario.buffered, NEW t \in Threads, Others(t), MoveStep(t), cells' = cells,
         \A u \in Threads \ {t} : stale'[u] = stale[u]
  PROVE  EntryInv' /\ KnownInv' /\ LiveInv' /\ SettledInv' /\ CopyInv' /\ ColorInv'
<1>1. /\ TypeOK /\ Control(t) /\ EntryInv /\ KnownInv /\ LiveInv /\ SettledInv /\ CopyInv /\ ColorInv
  BY DEF CInv, NodeInv
<1>2. op' = op /\ live' = live /\ bucket_refs' = bucket_refs /\ DOMAIN pc = Threads /\ DOMAIN write = Threads
  BY <1>1 DEF MoveStep, MoveEntry, MoveNext, TypeOK
<1>3. /\ pc[t] \in {"move", "moved"}
      /\ \/ pc'[t] = "write1" /\ write'[t].then \in {"moved", "release_free"}
         \/ pc'[t] = "move"
  BY <1>2 DEF MoveStep, MoveEntry, MoveNext, CallWrite
<1>4. /\ ~ToBeStored(t) /\ ~ToBeStored(t)' /\ ~Tentative(t) /\ Phase(t) # "release"
      /\ \A n : ~TakenOut(t, n) /\ ~TakenOut(t, n)'
  BY <1>3 DEF ToBeStored, Tentative, TakenOut
<1>5. Vacating(t)' /\ Vacated(t)' = Vacated(t)
  <2>1. CASE MoveEntry(t)
    <3>1. pc[t] = "move" /\ pc'[t] = "write1" /\ write'[t].then = "moved" /\ rel' = rel
      BY <1>2, <2>1 DEF MoveEntry, CallWrite
    <3>2. Phase(t) = "move" /\ Phase(t)' = "moved"
      BY <3>1
    <3> HIDE DEF Phase
    <3> QED BY <3>1, <3>2 DEF Vacating, Vacated
  <2>2. CASE MoveNext(t)
    BY <2>2, MoveNextAccount
  <2> QED BY <2>1, <2>2 DEF MoveStep
<1>6. \/ write'[t] = write[t] \/ write'[t].entry = Unused
      \/ \E p \in Cells : write'[t].entry = Flipped(cells[p])
  <2>1. CASE MoveEntry(t)
    <3>1. Occupied(t) \in Cells
      <4>1. Vacating(t)
        BY <1>3 DEF Vacating
      <4>2. Relocating(t) /\ Phase(t) \in MovePhases
        BY <1>3
      <4>3. rel[t].walk \in Positions(t) /\ rel[t] \in Relocations
        BY <1>1, <4>2 DEF Control, QueueInv
      <4>4. BucketAt(t, rel[t].walk) \in Buckets
        BY <1>1, <4>2, <4>3, QueueFacts
      <4> QED BY <4>3, <4>4 DEF Occupied, Relocations, Cells, BucketAt
    <3>2. Seen(t, Occupied(t)) = cells[Occupied(t)]
      BY SeenIsMemory
    <3>3. write'[t].entry = Flipped(cells[Occupied(t)])
      BY <1>2, <2>1, <3>2 DEF MoveEntry, CallWrite, Flipped
    <3> QED BY <3>1, <3>3
  <2>2. CASE MoveNext(t)
    BY <1>2, <2>2 DEF MoveNext, CallWrite
  <2> QED BY <2>1, <2>2 DEF MoveStep
<1> HIDE DEF Phase
<1>7. EntryInv'
  BY <1>6, QuietEntries
<1>8. KnownInv' /\ LiveInv' /\ SettledInv'
  <2>1. \A u \in Threads : /\ op'[u].inserts = op[u].inserts /\ op'[u].added = op[u].added
                           /\ Phase(u) = "release" => Phase(u)' = "release"
                           /\ Tentative(u) => Tentative(u)' /\ add'[u].result = add[u].result
                           /\ \A n : TakenOut(u, n)' <=> TakenOut(u, n)
    BY <1>2, <1>4, OthersView
  <2> QED BY <1>1, <1>2, <2>1, SameNodes DEF Threads
<1>9. CopyInv'
  BY <1>1, <1>2, <1>5, QuietCopies
<1>10. ColorInv'
  BY <1>1, <1>4, QuietColors DEF Doomed
<1> QED BY <1>7, <1>8, <1>9, <1>10

(* The nodes of an insert are published together.                          *)
LEMMA PublishNodes ==
  ASSUME CInv, NodeInv, NEW t \in Threads, Others(t), Publish(t), cells' = cells,
         \A u \in Threads \ {t} : stale'[u] = stale[u]
  PROVE  EntryInv' /\ KnownInv' /\ LiveInv' /\ SettledInv' /\ CopyInv' /\ ColorInv'
<1>1. /\ TypeOK /\ Control(t) /\ EntryInv /\ KnownInv /\ LiveInv /\ SettledInv /\ CopyInv /\ ColorInv /\ NamesInv(t)
  BY DEF CInv, NodeInv, Account
<1>2. /\ op' = op /\ live' = live \cup Range(op[t].added) /\ write' = write /\ add' = add
      /\ pc[t] = "publish" /\ pc'[t] = "release"
  BY <1>1 DEF Publish, TypeOK
<1>3. /\ ~ToBeStored(t) /\ ~ToBeStored(t)' /\ ~Tentative(t) /\ ~Vacating(t) /\ Phase(t) # "release"
      /\ Phase(t)' = "release" /\ \A n : ~TakenOut(t, n) /\ ~TakenOut(t, n)'
  BY <1>2 DEF ToBeStored, Tentative, TakenOut, Vacating
<1>4. t \in Writers
  BY <1>1, <1>2 DEF Control, CallInv, Threads
<1>5. \A u \in Threads : /\ Phase(u) = "release" => Phase(u)' = "release"
                         /\ Tentative(u) => Tentative(u)'
                         /\ \A n : TakenOut(u, n)' <=> TakenOut(u, n)
  BY <1>3, OthersView
<1> HIDE DEF Phase
<1>6. EntryInv' /\ CopyInv' /\ ColorInv'
  BY <1>1, <1>2, <1>3, QuietEntries, QuietCopies, QuietColors DEF Doomed
<1>7. KnownInv'
  BY <1>1, <1>2, <1>5, SameKnown DEF Threads
<1>8. LiveInv'
  <2>1. ASSUME NEW n \in live' PROVE \/ n.id[2] < op[n.id[1]].inserts
                                     \/ Phase(n.id[1])' = "release" /\ n \in Range(op[n.id[1]].added)
    <3>1. CASE n \in live
      <4>1. n.id[1] \in Threads
        BY <1>1, <3>1 DEF TypeOK, Nodes, NodeIds, Threads
      <4> QED BY <1>1, <1>5, <3>1, <4>1 DEF LiveInv
    <3>2. CASE n \in Range(op[t].added)
      <4>1. PICK i \in DOMAIN op[t].added : n = op[t].added[i]
        BY <3>2 DEF Range
      <4>2. n.id[1] = t
        BY <1>1, <4>1 DEF NamesInv
      <4> QED BY <1>3, <3>2, <4>2
    <3> QED BY <1>2, <2>1, <3>1, <3>2
  <2> QED BY <1>2, <2>1 DEF LiveInv
<1>9. SettledInv'
  <2>1. Settled' = Settled
    BY <1>2, <1>3, <1>4, <1>5, SettledMembers DEF Threads
  <2> QED BY <1>1, <2>1 DEF SettledInv
<1> QED BY <1>6, <1>7, <1>8, <1>9

(* The names of the other threads' nodes stay known, and those of the      *)
(* thread's own nodes if it accounts for them.                             *)
LEMMA OwnKnown ==
  ASSUME KnownInv, NEW t \in Threads, Others(t), cells' = cells,
         ASSUME NEW p \in Cells, NEW id \in NodeIds, id = cells[p].id, id[1] = t, Known(id, p)
         PROVE  Known(id, p)'
  PROVE  KnownInv'
<1> HIDE DEF Phase
<1>1. ASSUME NEW p \in Cells, NEW id, id = cells[p].id, Known(id, p) PROVE Known(id, p)'
  <2>1. CASE id = RootId
    BY <2>1 DEF Known
  <2>2. CASE id \in NodeIds /\ id[1] = t
    BY <1>1, <2>2
  <2>3. CASE id \in NodeIds /\ id[1] # t
    <3>1. PICK u \in Threads \ {t} : u = id[1]
      BY <2>3 DEF NodeIds, Threads
    <3>2. /\ op'[u] = op[u] /\ add'[u] = add[u] /\ NodeId(u)' = NodeId(u) /\ (Tentative(u)' <=> Tentative(u))
          /\ \A n : TakenOut(u, n)' <=> TakenOut(u, n)
      BY OthersView
    <3>3. CASE id[2] < op[u].inserts
      BY <2>3, <3>1, <3>2, <3>3 DEF Known
    <3>4. ASSUME NEW i \in DOMAIN op[u].added, op[u].added[i].id = id, ~TakenOut(u, op[u].added[i])
          PROVE  Known(id, p)'
      <4>1. PICK n : n = op[u].added[i]
        OBVIOUS
      <4>2. ~TakenOut(u, n)'
        BY <3>2, <3>4, <4>1
      <4>3. ~TakenOut(u, op[u].added[i])'
        BY <3>2, <4>1, <4>2
      <4> QED BY <2>3, <3>1, <3>2, <3>4, <4>3 DEF Known
    <3>5. CASE Tentative(u) /\ id = NodeId(u) /\ p = add[u].result
      BY <2>3, <3>1, <3>2, <3>5 DEF Known
    <3> QED BY <1>1, <2>3, <3>1, <3>3, <3>4, <3>5, RootIsNoNode DEF Known
  <2> QED BY <1>1, <2>1, <2>2, <2>3 DEF Known
<1>2. ASSUME NEW p \in Cells, cells'[p].id # None PROVE Known(cells[p].id, p)'
  <2>1. PICK id : id = cells[p].id
    OBVIOUS
  <2>2. Known(id, p)'
    BY <1>1, <1>2, <2>1 DEF KnownInv
  <2> QED BY <2>1, <2>2
<1> QED BY <1>2 DEF KnownInv

(* Published nodes stay so if the thread's own do.                         *)
LEMMA OwnLive ==
  ASSUME TypeOK, LiveInv, NEW t \in Threads, Others(t), live' = live,
         \A n \in live : n.id[1] = t => n.id[2] < op'[t].inserts
  PROVE  LiveInv'
<1>1. ASSUME NEW n \in live
      PROVE  \/ n.id[2] < op'[n.id[1]].inserts
             \/ Phase(n.id[1])' = "release" /\ n \in Range(op'[n.id[1]].added)
  <2> HIDE DEF Phase
  <2>1. n.id[1] \in Threads
    BY DEF TypeOK, Nodes, NodeIds, Threads
  <2>2. CASE n.id[1] = t
    BY <2>2
  <2>3. CASE n.id[1] # t
    BY <2>1, <2>3, OthersView DEF LiveInv
  <2> QED BY <2>2, <2>3
<1> QED BY <1>1 DEF LiveInv

(* Fewer settled nodes are still where they were.                          *)
LEMMA OwnSettledNodes ==
  ASSUME SettledInv, NEW t \in Threads, Others(t), live' = live, cells' = cells,
         \A n : n \in Range(op'[t].added) /\ ~TakenOut(t, n)' => n \in Range(op[t].added) /\ ~TakenOut(t, n)
  PROVE  SettledInv'
<1>1. ASSUME NEW n \in Settled' PROVE n \in Settled
  <2>1. ASSUME NEW u \in Writers, n \in Range(op'[u].added), ~TakenOut(u, n)'
        PROVE  n \in Range(op[u].added) /\ ~TakenOut(u, n)
    <3>1. CASE u = t
      BY <2>1, <3>1
    <3>2. CASE u # t
      BY <2>1, <3>2, OthersView DEF Threads
    <3> QED BY <3>1, <3>2
  <2> QED BY <2>1, SettledMembers
<1> QED BY <1>1 DEF SettledInv

(* When the insert returns its number says that its nodes are known.       *)
LEMMA ReturnNodes ==
  ASSUME CInv, NodeInv, NEW t \in Threads, Others(t), InsertReturn(t), cells' = cells,
         \A u \in Threads \ {t} : stale'[u] = stale[u]
  PROVE  EntryInv' /\ KnownInv' /\ LiveInv' /\ SettledInv' /\ CopyInv' /\ ColorInv'
<1>1. /\ TypeOK /\ Control(t) /\ EntryInv /\ KnownInv /\ LiveInv /\ SettledInv /\ CopyInv /\ ColorInv /\ NamesInv(t)
  BY DEF CInv, NodeInv, Account
<1>2. PICK k : /\ op' = [op EXCEPT ![t] = NoInsert(k)]
               /\ \/ pc[t] = "release" /\ k = op[t].inserts + 1 /\ pc'[t] = "idle"
                  \/ pc[t] = "release_retry" /\ k = op[t].inserts /\ pc'[t] = "retry"
  BY <1>1 DEF InsertReturn, Return, TypeOK
<1>3. op'[t].inserts = k /\ op'[t].added = <<>> /\ op[t].inserts \in Nat /\ live' = live
  BY <1>1, <1>2, LocalTypes DEF NoInsert, TypeOK, InsertReturn
<1>4. write'[t].entry = Unused
  BY <1>1 DEF InsertReturn, Return, NoWrite, TypeOK
<1>5. /\ ~ToBeStored(t) /\ ~ToBeStored(t)' /\ ~Tentative(t) /\ ~Vacating(t)
      /\ \A n : ~TakenOut(t, n)
  BY <1>2 DEF ToBeStored, Tentative, TakenOut, Vacating
<1>6. \A i \in DOMAIN op[t].added : op[t].added[i].id[2] < k
  <2>1. pc[t] = "release_retry" => op[t].added = <<>>
    BY <1>1 DEF NamesInv
  <2>2. \A i \in DOMAIN op[t].added : op[t].added[i].id[2] = op[t].inserts
    BY <1>1 DEF NamesInv
  <2> QED BY <1>2, <1>3, <2>1, <2>2
<1>7. op[t].inserts <= k /\ k \in Nat
  BY <1>2, <1>3
<1>8. EntryInv' /\ CopyInv' /\ ColorInv'
  BY <1>1, <1>4, <1>5, QuietEntries, QuietCopies, QuietColors DEF Doomed
<1>9. KnownInv'
  <2>1. ASSUME NEW p \in Cells, NEW id \in NodeIds, id = cells[p].id, id[1] = t, Known(id, p)
        PROVE  Known(id, p)'
    <3>1. id[2] \in Nat
      BY DEF NodeIds
    <3>2. id[2] < k
      BY <1>3, <1>5, <1>6, <1>7, <2>1, <3>1, RootIsNoNode DEF Known
    <3> QED BY <1>3, <2>1, <3>2 DEF Known
  <2> QED BY <1>1, <2>1, OwnKnown
<1>10. LiveInv'
  <2>1. ASSUME NEW n \in live, n.id[1] = t PROVE n.id[2] < k
    <3>1. n.id[2] \in Nat
      BY <1>1 DEF TypeOK, Nodes, NodeIds
    <3> QED BY <1>1, <1>3, <1>6, <1>7, <2>1, <3>1 DEF LiveInv, Range
  <2> QED BY <1>1, <1>3, <2>1, OwnLive
<1>11. SettledInv'
  BY <1>1, <1>3, OwnSettledNodes DEF Range
<1> QED BY <1>8, <1>9, <1>10, <1>11

(* A removed node is forgotten.                                            *)
LEMMA ForgetNode ==
  ASSUME CInv, NodeInv, NEW t \in Threads, Others(t), Removed(t), cells' = cells,
         \A u \in Threads \ {t} : stale'[u] = stale[u]
  PROVE  EntryInv' /\ KnownInv' /\ LiveInv' /\ SettledInv' /\ CopyInv' /\ ColorInv'
<1>1. /\ TypeOK /\ Control(t) /\ EntryInv /\ KnownInv /\ LiveInv /\ SettledInv /\ CopyInv /\ ColorInv
  BY DEF CInv, NodeInv
<1>2. pc[t] = "removed" /\ pc'[t] = "undo" /\ write' = write /\ live' = live /\ op'[t].inserts = op[t].inserts
  BY <1>1, RemovedNodes DEF Removed, TypeOK
<1>3. /\ ~ToBeStored(t) /\ ~ToBeStored(t)' /\ ~Tentative(t) /\ ~Vacating(t) /\ Phase(t) # "release"
      /\ \A n : ~TakenOut(t, n)'
  BY <1>2 DEF ToBeStored, Tentative, TakenOut, Vacating
<1> HIDE DEF Phase
<1>4. EntryInv' /\ CopyInv' /\ ColorInv'
  BY <1>1, <1>2, <1>3, QuietEntries, QuietCopies, QuietColors DEF Doomed
<1>5. KnownInv'
  <2>1. ASSUME NEW p \in Cells, NEW id \in NodeIds, id = cells[p].id, id[1] = t, Known(id, p)
        PROVE  Known(id, p)'
    <3>1. CASE id[2] < op[t].inserts
      BY <1>2, <2>1, <3>1 DEF Known
    <3>2. ASSUME NEW i \in DOMAIN op[t].added, op[t].added[i].id = id, ~TakenOut(t, op[t].added[i])
          PROVE  Known(id, p)'
      <4>1. PICK j \in DOMAIN op'[t].added : op'[t].added[j] = op[t].added[i]
        BY <3>2, RemovedNodes
      <4>2. ~TakenOut(t, op[t].added[j])'
        BY <1>2 DEF TakenOut
      <4> QED BY <2>1, <3>2, <4>1, <4>2 DEF Known
    <3> QED BY <1>3, <2>1, <3>1, <3>2, RootIsNoNode DEF Known
  <2> QED BY <1>1, <2>1, OwnKnown
<1>6. LiveInv'
  BY <1>1, <1>2, <1>3, OwnLive DEF LiveInv
<1>7. SettledInv'
  <2>1. ASSUME NEW n, n \in Range(op'[t].added) PROVE n \in Range(op[t].added) /\ ~TakenOut(t, n)
    <3>1. PICK i \in DOMAIN op'[t].added : n = op'[t].added[i]
      BY <2>1 DEF Range
    <3>2. PICK k \in DOMAIN op[t].added : k # UndoIndex(t) /\ op'[t].added[i] = op[t].added[k]
      BY RemovedNodes
    <3> QED BY <3>1, <3>2, RemovedNodes DEF Range
  <2> QED BY <1>1, <1>2, <2>1, OwnSettledNodes
<1> QED BY <1>4, <1>5, <1>6, <1>7

(* An entry that is going to be withdrawn stays where it is for now.       *)
LEMMA WithdrawNodes ==
  ASSUME CInv, NodeInv, NEW t \in Threads, Others(t), ReadUnlock(t), ~Fresh(t, AlternateHandle(t)), cells' = cells,
         \A u \in Threads \ {t} : stale'[u] = stale[u]
  PROVE  EntryInv' /\ KnownInv' /\ LiveInv' /\ SettledInv' /\ CopyInv' /\ ColorInv'
<1>1. /\ TypeOK /\ Control(t) /\ EntryInv /\ KnownInv /\ LiveInv /\ SettledInv /\ CopyInv /\ ColorInv
  BY DEF CInv, NodeInv
<1>2. /\ pc[t] = "read_unlock" /\ pc'[t] = "write1" /\ op' = op /\ add' = add /\ live' = live /\ stale' = stale
      /\ write'[t] = [cell |-> add[t].result, entry |-> Unused, then |-> "withdrawn"]
  BY <1>1 DEF ReadUnlock, CallWrite, TypeOK
<1>3. write'[t].then = "withdrawn" /\ write'[t].entry = Unused
  BY <1>2
<1>4. Phase(t) = "read_unlock" /\ Phase(t)' = "withdrawn"
  BY <1>2, <1>3
<1>5. \A n : ~TakenOut(t, n) /\ ~TakenOut(t, n)'
  BY <1>2 DEF TakenOut
<1> HIDE DEF Phase
<1>6. ~ToBeStored(t)' /\ Tentative(t) /\ Tentative(t)' /\ ~Vacating(t)
  BY <1>2, <1>4 DEF ToBeStored, Tentative, Vacating
<1>7. EntryInv' /\ CopyInv'
  BY <1>1, <1>3, <1>6, QuietEntries, QuietCopies
<1>8. KnownInv' /\ LiveInv' /\ SettledInv'
  <2>1. \A u \in Threads : /\ op'[u].inserts = op[u].inserts /\ op'[u].added = op[u].added
                           /\ Phase(u) = "release" => Phase(u)' = "release"
                           /\ Tentative(u) => Tentative(u)' /\ add'[u].result = add[u].result
                           /\ \A n : TakenOut(u, n)' <=> TakenOut(u, n)
    BY <1>2, <1>4, <1>5, <1>6, OthersView
  <2> QED BY <1>1, <1>2, <2>1, SameNodes DEF Threads
<1>9. Doomed(t) => Doomed(t)' /\ NodeId(t)' = NodeId(t)
  BY <1>2, <1>6 DEF Doomed, Fresh, NodeId, NodeNumber
<1>10. ColorInv'
  BY <1>1, <1>6, <1>9, QuietColors
<1> QED BY <1>7, <1>8, <1>10

(* An entry is accepted: its node is settled from now on.                  *)
LEMMA AcceptNodes ==
  ASSUME CInv, PInv, NodeInv, NEW t \in Threads, Others(t), ReadUnlock(t), Fresh(t, AlternateHandle(t)), cells' = cells,
         \A u \in Threads \ {t} : stale'[u] = stale[u]
  PROVE  EntryInv' /\ KnownInv' /\ LiveInv' /\ SettledInv' /\ CopyInv' /\ ColorInv'
<1>1. /\ TypeOK /\ Control(t) /\ Account(t) /\ Place(t)
      /\ EntryInv /\ KnownInv /\ LiveInv /\ SettledInv /\ CopyInv /\ ColorInv
  BY DEF CInv, PInv, NodeInv
<1>2. PICK node : node = AddedNode(t)
  OBVIOUS
<1>3. /\ pc[t] = "read_unlock" /\ pc'[t] = "added" /\ add' = add /\ live' = live /\ stale' = stale /\ write' = write
      /\ op' = [op EXCEPT ![t].added = Append(op[t].added, node)]
  BY <1>1, <1>2 DEF ReadUnlock, TypeOK
<1>4. PICK s \in Seq(Nodes) : s = op[t].added
  BY <1>1, LocalTypes
<1>5. op'[t].added = Append(s, node) /\ op'[t].inserts = op[t].inserts
  <2>1. DOMAIN op = Threads /\ op[t] = [inserts |-> op[t].inserts, plan |-> op[t].plan, added |-> op[t].added]
    BY <1>1 DEF TypeOK
  <2> QED BY <1>3, <1>4, <2>1
<1>6. /\ Len(s) \in Nat /\ DOMAIN s = 1..Len(s) /\ DOMAIN op'[t].added = 1..(Len(s) + 1)
      /\ \A i \in 1..Len(s) : op'[t].added[i] = s[i]
      /\ op'[t].added[Len(s) + 1] = node
  BY <1>4, <1>5
<1>7. Phase(t) = "read_unlock" /\ Phase(t)' = "added" /\ Adding(t) /\ t \in Writers
  BY <1>1, <1>3 DEF Control, CallInv, Threads
<1>8. \A n : ~TakenOut(t, n) /\ ~TakenOut(t, n)'
  BY <1>3 DEF TakenOut
<1> HIDE DEF Phase, Adding
<1>9. ~ToBeStored(t)' /\ ~ToBeStored(t) /\ Tentative(t) /\ ~Vacating(t)
  BY <1>3, <1>7 DEF ToBeStored, Tentative, Vacating
<1>10. /\ node.id = NodeId(t)
       /\ node.loc = [bucket |-> Primary(t), tag |-> NodeHash(t).tag, color |-> write[t].entry.color]
  BY <1>2 DEF AddedNode
<1>11. EntryInv' /\ CopyInv'
  BY <1>1, <1>3, <1>9, QuietEntries, QuietCopies
<1>12. KnownInv'
  <2>1. ASSUME NEW p \in Cells, NEW id \in NodeIds, id = cells[p].id, id[1] = t, Known(id, p)
        PROVE  Known(id, p)'
    <3>1. CASE id[2] < op[t].inserts
      BY <1>5, <2>1, <3>1 DEF Known
    <3>2. ASSUME NEW j \in DOMAIN op'[t].added, op'[t].added[j].id = id PROVE Known(id, p)'
      <4>1. PICK n : n = op'[t].added[j]
        OBVIOUS
      <4>2. ~TakenOut(t, n)'
        BY <1>8
      <4>3. ~TakenOut(t, op[t].added[j])'
        BY <4>1, <4>2
      <4> QED BY <2>1, <3>2, <4>3 DEF Known
    <3>3. ASSUME NEW i \in DOMAIN op[t].added, op[t].added[i].id = id PROVE Known(id, p)'
      <4>1. i \in DOMAIN op'[t].added /\ op'[t].added[i].id = id
        BY <1>4, <1>6, <3>3
      <4> QED BY <3>2, <4>1
    <3>4. CASE id = NodeId(t)
      <4>1. Len(s) + 1 \in DOMAIN op'[t].added /\ op'[t].added[Len(s) + 1].id = id
        BY <1>6, <1>10, <3>4
      <4> QED BY <3>2, <4>1
    <3> QED BY <2>1, <3>1, <3>3, <3>4, RootIsNoNode DEF Known
  <2> QED BY <1>1, <2>1, OwnKnown
<1>13. LiveInv'
  BY <1>1, <1>3, <1>5, <1>7, OwnLive DEF LiveInv
<1>14. SettledInv'
  <2>1. ASSUME NEW n \in Settled' PROVE n \in Settled \/ n = node
    <3>1. ASSUME NEW u \in Writers, n \in Range(op'[u].added), ~TakenOut(u, n)'
          PROVE  n = node \/ (n \in Range(op[u].added) /\ ~TakenOut(u, n))
      <4>1. CASE u = t
        <5>1. PICK j \in 1..(Len(s) + 1) : n = op'[t].added[j]
          BY <1>6, <3>1, <4>1 DEF Range
        <5>2. CASE j \in 1..Len(s)
          BY <1>4, <1>6, <1>8, <4>1, <5>1, <5>2 DEF Range
        <5>3. CASE j = Len(s) + 1
          BY <1>6, <5>1, <5>3
        <5> QED BY <1>6, <5>2, <5>3
      <4>2. CASE u # t
        BY <3>1, <4>2, OthersView DEF Threads
      <4> QED BY <4>1, <4>2
    <3> QED BY <1>3, <3>1, SettledMembers
  <2>2. /\ \E p \in Cells : cells[p].id = node.id
        /\ \A p \in Cells : cells[p].id = node.id =>
             node.loc = [bucket |-> cells[p].home, tag |-> cells[p].tag, color |-> cells[p].color]
    <3>1. add[t].result \in Cells
      BY <1>1, <1>7 DEF Control, AddInv
    <3>2. cells[add[t].result].id = NodeId(t) /\ cells[add[t].result] = write[t].entry
      BY <1>1, <1>7, <1>9 DEF Account, TentativeInv
    <3>3. \A p \in Cells : cells[p].id = NodeId(t) => p = add[t].result
      BY <1>7, NewName
    <3>4. write[t].entry = [id |-> NodeId(t), home |-> Primary(t), tag |-> NodeHash(t).tag,
                            color |-> write[t].entry.color, secondary |-> add[t].handle = SECONDARY]
      BY <1>1, <1>7 DEF Place, WriteInv
    <3>5. write[t].entry.home = Primary(t) /\ write[t].entry.tag = NodeHash(t).tag
      BY <3>4
    <3> QED BY <1>10, <3>1, <3>2, <3>3, <3>5
  <2> QED BY <1>1, <2>1, <2>2 DEF SettledInv
<1>15. ~Doomed(t)
  BY <1>9 DEF Doomed, AlternateHandle, PRIMARY, SECONDARY
<1>16. ColorInv'
  BY <1>1, <1>9, <1>15, QuietColors
<1> QED BY <1>11, <1>12, <1>13, <1>14, <1>16

(* If one insert has a free cell in the primary bucket, the read lock of   *)
(* another one that has found this bucket full is stale.                   *)
LEMMA PrimaryChanged ==
  ASSUME CInv, PInv, LockInv, NodeInv, NEW a \in Threads, NEW b \in Threads,
         pc[a] = "put" \/ ToBeStored(a), add[a].handle = PRIMARY, PastPrimary(b), Primary(b) = Primary(a)
  PROVE  ~Fresh(b, PRIMARY)
<1>1. TypeOK /\ Control(a) /\ Account(a) /\ Account(b)
  BY DEF CInv, NodeInv
<1>2. Phase(a) \in {"put", "read_unlock"} /\ CellReady(a) /\ pc[a] # "write3"
  BY DEF CellReady, ToBeStored
<1>3. /\ add[a].result \in Cells /\ BucketOf(add[a].result) = Primary(a) /\ Primary(a) \in Buckets
      /\ Held(a, Primary(a))
  <2>1. BucketOf(add[a].result) = rl[a][PRIMARY] /\ rl[a][PRIMARY] = Primary(a)
    BY <1>1, <1>2 DEF Control, AddInv
  <2> QED BY <1>2, <2>1, ResultHeld
<1>4. cells[add[a].result].id = None
  BY <1>1, <1>2 DEF Account, FreeInv
<1>5. ~Full(Primary(a))
  <2>1. PICK c \in CellNumbers : add[a].result = <<Primary(a), c>>
    BY <1>3 DEF Cells, BucketOf
  <2> QED BY <1>4, <2>1 DEF Full
<1>6. ~Clearing(Primary(a))
  <2> SUFFICES ASSUME NEW u \in Threads, pc[u] = "write3", BucketOf(write[u].cell) = Primary(a)
               PROVE  FALSE
    BY DEF Clearing
  <2>1. Held(u, Primary(a))
    BY WritesHeld
  <2>2. u = a
    BY <1>3, <2>1, OneHolder
  <2> QED BY <1>2, <2>2
<1> QED BY <1>1, <1>5, <1>6 DEF Account, FullInv

(* Two inserts that add to the same pair of buckets hold different ones.   *)
LEMMA SamePair ==
  ASSUME CInv, PInv, LockInv, NodeInv, NEW t \in Threads, NEW u \in Threads \ {t}, pc[t] = "put", ToBeStored(u),
         Primary(u) = Primary(t), NodeHash(u).tag = NodeHash(t).tag
  PROVE  \/ add[t].handle = PRIMARY /\ add[u].handle = SECONDARY /\ ~Fresh(u, PRIMARY)
         \/ add[u].handle = PRIMARY /\ add[t].handle = SECONDARY /\ ~Fresh(t, PRIMARY)
<1>1. TypeOK /\ Control(t) /\ Control(u)
  BY DEF CInv
<1>2. Phase(t) = "put" /\ Phase(u) = "read_unlock"
  BY DEF ToBeStored
<1>3. CellReady(t) /\ CellReady(u)
  BY DEF CellReady
<1>4. /\ BucketOf(add[t].result) = rl[t][add[t].handle] /\ BucketOf(add[u].result) = rl[u][add[u].handle]
      /\ rl[t][PRIMARY] = Primary(t) /\ rl[u][PRIMARY] = Primary(u)
      /\ rl[t][SECONDARY] = Secondary(t) /\ rl[u][SECONDARY] = Secondary(u)
  BY <1>1, <1>2 DEF Control, AddInv
<1>5. Secondary(u) = Secondary(t)
  BY DEF Secondary, Primary
<1>6. add[t].handle \in {PRIMARY, SECONDARY} /\ add[u].handle \in {PRIMARY, SECONDARY}
  BY <1>1 DEF TypeOK
<1>7. BucketOf(add[t].result) # BucketOf(add[u].result)
  BY <1>3, ResultHeld, OneHolder
<1>8. add[t].handle # add[u].handle
  BY <1>4, <1>5, <1>6, <1>7
<1>9. ASSUME add[u].handle = SECONDARY PROVE PastPrimary(u)
  BY <1>2, <1>9 DEF PastPrimary
<1>10. ASSUME add[t].handle = SECONDARY PROVE PastPrimary(t)
  BY <1>2, <1>10 DEF PastPrimary
<1>11. CASE add[t].handle = PRIMARY /\ add[u].handle = SECONDARY
  BY <1>9, <1>11, PrimaryChanged
<1>12. CASE add[u].handle = PRIMARY /\ add[t].handle = SECONDARY
  BY <1>10, <1>12, PrimaryChanged
<1> QED BY <1>6, <1>8, <1>11, <1>12

(* The new entry has a color of its own, or one of two inserts into the    *)
(* same pair of buckets will find that the primary one has changed.        *)
LEMMA PutNodes ==
  ASSUME CInv, PInv, LockInv, ContentInv, NodeInv, ~scenario.buffered, NEW t \in Threads, Others(t), PutEntry(t),
         cells' = cells, \A u \in Threads \ {t} : stale'[u] = stale[u]
  PROVE  EntryInv' /\ KnownInv' /\ LiveInv' /\ SettledInv' /\ CopyInv' /\ ColorInv'
<1>1. /\ TypeOK /\ Control(t) /\ EntryInv /\ KnownInv /\ LiveInv /\ SettledInv /\ CopyInv /\ ColorInv
  BY DEF CInv, NodeInv
<1>2. PICK c, sec : c = unused_color_in_pair(t) /\ sec = (add[t].handle = SECONDARY)
  OBVIOUS
<1>3. PICK e : e = [id |-> NodeId(t), home |-> Primary(t), tag |-> NodeHash(t).tag, color |-> c, secondary |-> sec]
  OBVIOUS
<1>4. /\ pc[t] = "put" /\ pc'[t] = "write1" /\ op' = op /\ add' = add /\ live' = live /\ stale' = stale
      /\ write'[t] = [cell |-> add[t].result, entry |-> e, then |-> "read_unlock"]
  BY <1>1, <1>2, <1>3 DEF PutEntry, CallWrite, TypeOK
<1>5. write'[t].then = "read_unlock" /\ write'[t].entry = e
  BY <1>4
<1>6. Phase(t) = "put" /\ Phase(t)' = "read_unlock" /\ Adding(t)
  BY <1>4, <1>5
<1>7. \A n : ~TakenOut(t, n) /\ ~TakenOut(t, n)'
  BY <1>4 DEF TakenOut
<1> HIDE DEF Phase, Adding
<1>8. ~ToBeStored(t) /\ ~Tentative(t) /\ ~Vacating(t) /\ ToBeStored(t)'
  BY <1>4, <1>6 DEF ToBeStored, Tentative, Vacating
<1>9. e.id = NodeId(t) /\ e.home = Primary(t) /\ e.tag = NodeHash(t).tag /\ e.color = c /\ NodeId(t) # None
  BY <1>3, <1>6, NewName
<1>10. EntryInv' /\ CopyInv'
  BY <1>1, <1>5, <1>8, <1>9, QuietEntries, QuietCopies
<1>11. KnownInv' /\ LiveInv' /\ SettledInv'
  <2>1. \A u \in Threads : /\ op'[u].inserts = op[u].inserts /\ op'[u].added = op[u].added
                           /\ Phase(u) = "release" => Phase(u)' = "release"
                           /\ Tentative(u) => Tentative(u)' /\ add'[u].result = add[u].result
                           /\ \A n : TakenOut(u, n)' <=> TakenOut(u, n)
    BY <1>4, <1>6, <1>7, <1>8, OthersView
  <2> QED BY <1>1, <1>4, <2>1, SameNodes DEF Threads
<1>12. \A u \in Threads : NodeId(u)' = NodeId(u)
  BY <1>4 DEF NodeId, NodeNumber
<1>13. ASSUME NEW u \in Threads, Doomed(u) PROVE Doomed(u)'
  <2>1. u # t
    BY <1>8, <1>13 DEF Doomed
  <2> QED BY <1>4, <1>13, <2>1, OthersView DEF Doomed, Fresh
<1>14. ASSUME NEW f \in Entered' PROVE f = e \/ f \in Entered
  <2>1. CASE f \in {cells[p] : p \in Cells}'
    BY <2>1 DEF Entered
  <2>2. CASE f \in {write[u].entry : u \in {v \in Threads : ToBeStored(v)}}'
    <3>1. PICK u \in Threads : ToBeStored(u)' /\ f = write'[u].entry
      BY <2>2, Zenon
    <3>2. CASE u = t
      BY <1>5, <3>1, <3>2
    <3>3. CASE u # t
      <4>1. ToBeStored(u) /\ f = write[u].entry
        BY <3>1, <3>3, OthersView
      <4> QED BY <4>1 DEF Entered
    <3> QED BY <3>2, <3>3
  <2> QED BY <2>1, <2>2 DEF Entered
<1>15. ASSUME NEW f \in Entered, f.id # None, f.id # e.id, SameLocator(e, f)
       PROVE  \E v \in Threads : Doomed(v)' /\ NodeId(v)' \in {e.id, f.id}
  <2>1. f.home = Primary(t) /\ f.tag = NodeHash(t).tag /\ f.color = c
    BY <1>9, <1>15 DEF SameLocator
  <2>2. /\ Primary(t) \in Buckets /\ Secondary(t) \in Buckets /\ NodeHash(t) \in Hashes
        /\ Secondary(t) = mix_bucket(Primary(t), NodeHash(t).tag)
    BY <1>1, <1>6, NodeTypes DEF Secondary, Primary
  <2>3. ASSUME NEW p \in Cells, f = cells[p] PROVE FALSE
    <3>1. BucketOf(p) \in {Primary(t), Secondary(t)}
      <4>1. NodeHash(t).tag \in Tags
        BY <2>2 DEF Hashes
      <4> QED BY <1>1, <1>15, <2>1, <2>2, <2>3, <4>1, HomeOfEntry
    <3>2. p \in {Primary(t), Secondary(t)} \X CellNumbers
      BY <3>1 DEF Cells, BucketOf
    <3>3. Seen(t, p) = cells[p]
      BY SeenIsMemory
    <3> QED BY <1>1, <1>2, <2>1, <2>2, <2>3, <3>2, <3>3, ColorIsValid
  <2>4. ASSUME NEW u \in Threads, ToBeStored(u), f = write[u].entry
        PROVE  \E v \in Threads : Doomed(v)' /\ NodeId(v)' \in {e.id, f.id}
    <3>1. u # t
      BY <1>8, <2>4
    <3>2. write[u].entry = [id |-> NodeId(u), home |-> Primary(u), tag |-> NodeHash(u).tag,
                            color |-> write[u].entry.color, secondary |-> add[u].handle = SECONDARY]
      BY <2>4 DEF PInv, Place, WriteInv, ToBeStored
    <3>3. f.id = NodeId(u) /\ f.home = Primary(u) /\ f.tag = NodeHash(u).tag
      BY <2>4, <3>2
    <3>4. \/ add[u].handle = SECONDARY /\ ~Fresh(u, PRIMARY)
          \/ add[t].handle = SECONDARY /\ ~Fresh(t, PRIMARY)
      BY <1>4, <2>1, <2>4, <3>1, <3>3, SamePair
    <3>5. CASE add[u].handle = SECONDARY /\ ~Fresh(u, PRIMARY)
      <4>1. Doomed(u)
        BY <2>4, <3>5 DEF Doomed
      <4> QED BY <1>12, <1>13, <3>3, <4>1
    <3>6. CASE add[t].handle = SECONDARY /\ ~Fresh(t, PRIMARY)
      <4>1. Doomed(t)'
        BY <1>4, <1>8, <3>6 DEF Doomed, Fresh
      <4> QED BY <1>9, <1>12, <4>1
    <3> QED BY <3>4, <3>5, <3>6
  <2> QED BY <2>3, <2>4 DEF Entered
<1>16. ASSUME NEW f \in Entered', NEW g \in Entered', f.id # None, g.id # None, f.id # g.id, SameLocator(f, g)
       PROVE  \E v \in Threads : Doomed(v)' /\ NodeId(v)' \in {f.id, g.id}
  <2>1. CASE f = e /\ g \in Entered
    BY <1>15, <1>16, <2>1
  <2>2. CASE g = e /\ f \in Entered
    <3>1. SameLocator(e, f)
      BY <1>16, <2>2 DEF SameLocator
    <3>2. \E v \in Threads : Doomed(v)' /\ NodeId(v)' \in {e.id, f.id}
      BY <1>15, <1>16, <2>2, <3>1
    <3> QED BY <2>2, <3>2
  <2>3. CASE f \in Entered /\ g \in Entered
    <3>1. PICK v \in Threads : Doomed(v) /\ NodeId(v) \in {f.id, g.id}
      BY <1>1, <1>16, <2>3 DEF ColorInv
    <3> QED BY <1>12, <1>13, <3>1
  <2>4. ~(f = e /\ g = e)
    BY <1>16
  <2> QED BY <1>14, <2>1, <2>2, <2>3, <2>4
<1>17. ColorInv'
  BY <1>16, Zenon DEF ColorInv, SameLocator
<1> QED BY <1>10, <1>11, <1>17

(* Every step keeps the nodes in order.                                    *)
LEMMA NodeStep ==
  ASSUME CInv, CInv', PInv, LockInv, ContentInv, NodeInv, ~scenario.buffered, NEW t \in Threads,
         Step(t) \/ BeginInsert(t) \/ BeginLookup(t) \/ Drain(t)
  PROVE  NodeInv'
<1>1. TypeOK /\ Control(t) /\ Others(t)
  BY StepIsLocal DEF CInv
<1>2. \A u \in Threads : Account(u)'
  BY OtherAccount, OwnAccount
<1>3. BusyInv' /\ EntryInv' /\ KnownInv' /\ LiveInv' /\ SettledInv' /\ CopyInv' /\ ColorInv'
  <2>1. Step(t) \/ BeginInsert(t) \/ BeginLookup(t)
    BY <1>1, Effects
  <2>2. CASE write_entry(t) /\ pc[t] \in {"write1", "write3"}
    BY <1>1, <2>2, Effects, CounterBusy, CounterNodes
  <2>3. CASE write_entry(t) /\ pc[t] = "write2"
    BY <1>1, <2>3, Effects, StoreNodes
  <2>4. CASE ~write_entry(t)
    <3>1. cells' = cells /\ busy' = busy /\ \A u \in Threads \ {t} : stale'[u] = stale[u]
      BY <1>1, <2>4, Effects
    <3>2. BusyInv'
      BY <1>1, <2>1, <2>4, <3>1, QuietBusy
    <3>3. \/ PlainStep(t) \/ PutEntry(t) \/ ReadUnlock(t) \/ MoveStep(t) \/ Publish(t) \/ Removed(t) \/ InsertReturn(t)
      BY <2>1, <2>4 DEF Step, add_entry, AddStep, relocate_entry, InsertEnd, PlainStep
    <3>4. CASE PlainStep(t)
      BY <1>1, <3>1, <3>2, <3>4, PlainNodes
    <3>5. CASE PutEntry(t)
      BY <1>1, <3>1, <3>2, <3>5, PutNodes
    <3>6. CASE ReadUnlock(t)
      BY <1>1, <3>1, <3>2, <3>6, WithdrawNodes, AcceptNodes
    <3>7. CASE MoveStep(t)
      BY <1>1, <3>1, <3>2, <3>7, MoveNodes
    <3>8. CASE Publish(t) \/ Removed(t) \/ InsertReturn(t)
      BY <1>1, <3>1, <3>2, <3>8, PublishNodes, ForgetNode, ReturnNodes
    <3> QED BY <3>3, <3>4, <3>5, <3>6, <3>7, <3>8
  <2> QED BY <2>2, <2>3, <2>4 DEF write_entry
<1> QED BY <1>2, <1>3 DEF NodeInv

(* In the beginning there is only the root.                                *)
LEMMA NodesInit == Init => NodeInv
<1> SUFFICES ASSUME Init PROVE NodeInv
  OBVIOUS
<1>1. \A t \in Threads : pc[t] = "idle" /\ write[t].entry = Unused /\ op[t].added = <<>>
  BY DEF Init, NoWrite, NoInsert
<1>2. \A p \in Cells : cells[p] = IF p = RootCell THEN Root ELSE Unused
  BY DEF Init
<1>3. Unused.id = None /\ Root.id = RootId /\ RootId # None /\ Unused.color = INVALID_COLOR
  BY NoneAssumption DEF Unused, Root
<1>4. \A t \in Threads : ~ToBeStored(t) /\ ~Tentative(t) /\ ~Vacating(t)
  BY <1>1 DEF ToBeStored, Tentative, Vacating
<1>5. BusyInv
  BY <1>1 DEF Init, BusyInv
<1>6. EntryInv
  BY <1>1, <1>2, <1>3 DEF EntryInv
<1>7. KnownInv
  BY <1>2, <1>3 DEF KnownInv, Known
<1>8. LiveInv
  BY DEF Init, LiveInv
<1>9. SettledInv
  <2>1. \A u \in Writers : op[u].added = <<>>
    BY <1>1 DEF Threads
  <2>2. \A n : n \notin Settled
    <3>1. live = {} /\ \A u \in Writers : Range(op[u].added) = {}
      BY <2>1 DEF Init, Range
    <3> QED BY <3>1, SettledMembers, Zenon
  <2> QED BY <2>2 DEF SettledInv
<1>10. CopyInv
  BY <1>2, <1>3 DEF CopyInv
<1>11. ColorInv
  <2>1. ASSUME NEW e \in Entered, e.id # None PROVE e = Root
    BY <1>2, <1>3, <1>4, <2>1 DEF Entered
  <2> QED BY <2>1 DEF ColorInv
<1>12. ASSUME NEW t \in Threads PROVE Account(t)
  <2>1. Phase(t) = "idle" /\ pc[t] = "idle" /\ op[t].added = <<>>
    BY <1>1
  <2>2. ~ForAdd(t) /\ ~ForFree(t) /\ ~ForPath(t) /\ ~Adding(t)
    BY <2>1
  <2> HIDE DEF Phase, ForAdd, ForFree, ForPath, Adding
  <2>3. FreeInv(t) /\ MoveCopy(t) /\ FullInv(t)
    BY <1>4, <2>1, <2>2 DEF FreeInv, CellReady, MoveCopy, FullInv, PastPrimary
  <2>4. NamesInv(t) /\ NodesLocked(t)
    BY <2>1, <2>2 DEF NamesInv, NodesLocked
  <2>5. TentativeInv(t) /\ RemoveInv(t) /\ VacatedInv(t)
    BY <1>4, <2>1 DEF TentativeInv, RemoveInv, FoundOwn, VacatedInv
  <2> QED BY <2>3, <2>4, <2>5 DEF Account
<1> QED BY <1>5, <1>6, <1>7, <1>8, <1>9, <1>10, <1>11, <1>12 DEF NodeInv

(* A step that changes nothing.                                            *)
LEMMA NodesUnchanged ==
  ASSUME TypeOK, NodeInv, UNCHANGED vars
  PROVE  NodeInv'
<1>1. /\ cells' = cells /\ busy' = busy /\ pc' = pc /\ op' = op /\ add' = add /\ write' = write /\ find' = find
      /\ stale' = stale /\ bucket_refs' = bucket_refs /\ entry_locks' = entry_locks /\ live' = live
  BY DEF vars
<1>2. BusyInv /\ EntryInv /\ KnownInv /\ LiveInv /\ SettledInv /\ CopyInv /\ ColorInv /\ \A t \in Threads : Account(t)
  BY DEF NodeInv
<1>3. \A u \in Threads :
        /\ locals(u)' = locals(u) /\ Phase(u)' = Phase(u) /\ NodeId(u)' = NodeId(u)
        /\ (ToBeStored(u)' <=> ToBeStored(u)) /\ (Tentative(u)' <=> Tentative(u))
        /\ (\A n : TakenOut(u, n)' <=> TakenOut(u, n))
        /\ (Vacating(u)' <=> Vacating(u)) /\ Vacated(u)' = Vacated(u)
  BY LocalsUnchanged, LocalView
<1>4. (\A p : BeingWritten(p)' <=> BeingWritten(p)) /\ (\A b : Clearing(b)' <=> Clearing(b))
  BY <1>1 DEF BeingWritten, Clearing
<1> HIDE DEF Phase
<1>5. \A u \in Threads : Account(u)'
  BY <1>1, <1>2, <1>3, <1>4, AccountIsLocal
<1>6. BusyInv' /\ EntryInv'
  BY <1>1, <1>2 DEF BusyInv, EntryInv, BucketOf
<1>7. KnownInv' /\ LiveInv' /\ SettledInv'
  BY <1>1, <1>2, <1>3, SameNodes DEF Threads
<1>8. CopyInv'
  BY <1>1, <1>2, <1>3, SameCopies
<1>9. Entered' \subseteq Entered
  BY <1>1, <1>3, SameEntered
<1>10. \A u \in Threads : Doomed(u) => Doomed(u)' /\ NodeId(u)' = NodeId(u)
  BY <1>1, <1>3 DEF Doomed, Fresh
<1> QED BY <1>2, <1>5, <1>6, <1>7, <1>8, <1>9, <1>10, SameColors DEF NodeInv

(* Names, places, copies and colors of the nodes are in order in every     *)
(* execution in which stores are visible at once.                          *)
THEOREM NodeInvariant == Spec => []OrderedNodes
<1>1. Init => OrderedNodes
  BY NodesInit DEF OrderedNodes
<1>2. ASSUME CInv, CInv', PInv, LockInv, OrderedContent, OrderedNodes, [Next]_vars PROVE OrderedNodes'
  <2>1. CASE UNCHANGED vars
    <3>1. scenario' = scenario
      BY <2>1 DEF vars
    <3> QED BY <1>2, <2>1, <3>1, NodesUnchanged DEF OrderedNodes, CInv
  <2>2. ASSUME NEW t \in Threads, Step(t) \/ BeginInsert(t) \/ BeginLookup(t) \/ Drain(t)
        PROVE  OrderedNodes'
    <3>1. scenario' = scenario
      BY <1>2, <2>2, StepIsLocal DEF CInv
    <3> QED BY <1>2, <2>2, <3>1, NodeStep DEF OrderedNodes, OrderedContent
  <2> QED BY <1>2, <2>1, <2>2, StepCases
<1> QED BY <1>1, <1>2, ControlInvariant, PlaceInvariant, LockInvariant, ContentInvariant, PTL DEF Spec

(* write_entry only writes to buckets its thread has locked, also when     *)
(* remove_entry_by_value writes to the cell its search has found.          *)
THEOREM WritesAreToLockedBuckets == Spec => [](~scenario.buffered => WritesAreLocked)
<1>1. ASSUME CInv, PInv, OrderedNodes PROVE ~scenario.buffered => WritesAreLocked
  BY <1>1, WritesHeld DEF OrderedNodes, WritesAreLocked
<1> QED BY <1>1, ControlInvariant, PlaceInvariant, NodeInvariant, PTL

(* Whatever the relocations of all threads do, a node that add_entry has   *)
(* accepted stays in the table until its own insert removes it.            *)
THEOREM NoNodeIsLost == Spec => [](~scenario.buffered => NothingLost)
<1>1. OrderedNodes => (~scenario.buffered => NothingLost)
  BY DEF OrderedNodes, NodeInv, SettledInv, NothingLost, InTable
<1> QED BY <1>1, NodeInvariant, PTL

(* An insert that has rolled back leaves no node of its earlier attempts   *)
(* in the table.                                                           *)
THEOREM RollBackIsComplete == Spec => [](~scenario.buffered => RetriesStartClean)
<1>1. ASSUME CInv, LockInv, OrderedNodes PROVE ~scenario.buffered => RetriesStartClean
  <2> SUFFICES ASSUME ~scenario.buffered, NEW t \in Writers, pc[t] \in {"release_retry", "retry"}, NEW p \in Cells,
                      Seen(t, p).id \in {t} \X {op[t].inserts} \X (Nat \ {0})
               PROVE  FALSE
    BY DEF RetriesStartClean
  <2>1. TypeOK /\ NodeInv /\ t \in Threads /\ Control(t) /\ Account(t)
    BY <1>1 DEF CInv, OrderedNodes, NodeInv, Threads
  <2>2. cells[p].id \in {t} \X {op[t].inserts} \X (Nat \ {0})
    <3>1. buf[t] = <<>>
      BY <1>1, <2>1 DEF LockInv
    <3>2. Seen(t, p) = cells[p]
      BY <3>1 DEF Seen, Pending
    <3> QED BY <3>2
  <2>3. Phase(t) = pc[t] /\ op[t].added = <<>> /\ ~Tentative(t)
    BY <2>1 DEF Control, InsertInv, Account, NamesInv, Tentative
  <2>4. op[t].inserts \in Nat
    BY <2>1, LocalTypes
  <2>5. /\ cells[p].id \in NodeIds
        /\ cells[p].id[1] = t /\ cells[p].id[2] = op[t].inserts
    BY <2>2, <2>4 DEF NodeIds
  <2>6. cells[p].id # None /\ cells[p].id # RootId
    BY <2>5, NoneAssumption, RootIsNoNode
  <2>7. Known(cells[p].id, p)
    BY <2>1, <2>6 DEF NodeInv, KnownInv
  <2> QED BY <2>3, <2>4, <2>5, <2>6, <2>7 DEF Known
<1> QED BY <1>1, ControlInvariant, LockInvariant, NodeInvariant, PTL

(* A node is in two cells only while one relocation has both buckets       *)
(* locked.                                                                 *)
THEOREM CopiesStayLocked == Spec => [](~scenario.buffered => CopiesAreLocked)
<1>1. ASSUME LockInv, OrderedNodes, ~scenario.buffered PROVE CopiesAreLocked
  <2>1. CopyInv
    BY <1>1 DEF OrderedNodes, NodeInv
  <2>2. ASSUME NEW p \in Cells, NEW u \in Threads, bucket_refs[u][BucketOf(p)] = 1 PROVE lock[BucketOf(p)] = 1
    BY <1>1, <2>2, EntryTypes DEF LockInv, Owns, Held
  <2> QED BY <2>1, <2>2 DEF CopyInv, CopiesAreLocked
<1> QED BY <1>1, LockInvariant, NodeInvariant, PTL

(* No two accepted nodes have the same locator, although inserts choose    *)
(* colors before they see each other's entries: read_unlock_bucket finds   *)
(* out in time.                                                            *)
THEOREM ColorsAreUnique == Spec => []OrderedColorsUnique
<1>1. ASSUME CInv, OrderedNodes PROVE OrderedColorsUnique
  <2> SUFFICES ASSUME ~scenario.buffered, NEW m \in Settled, NEW n \in Settled, m.loc = n.loc
               PROVE  m = n
    BY DEF OrderedColorsUnique, ColorsUnique
  <2>1. NodeInv
    BY <1>1 DEF OrderedNodes
  <2>2. m \in Nodes /\ n \in Nodes /\ m.id # None /\ n.id # None
    BY <1>1, <2>1, SettledOwner
  <2>3. PICK p \in Cells, q \in Cells : cells[p].id = m.id /\ cells[q].id = n.id
    BY <2>1 DEF NodeInv, SettledInv
  <2>4. /\ m.loc = [bucket |-> cells[p].home, tag |-> cells[p].tag, color |-> cells[p].color]
        /\ n.loc = [bucket |-> cells[q].home, tag |-> cells[q].tag, color |-> cells[q].color]
    BY <2>1, <2>3 DEF NodeInv, SettledInv
  <2>5. SameLocator(cells[p], cells[q])
    <3>1. ASSUME NEW h, NEW a, NEW c, NEW i, NEW b, NEW d,
                 [bucket |-> h, tag |-> a, color |-> c] = [bucket |-> i, tag |-> b, color |-> d]
          PROVE  h = i /\ a = b /\ c = d
      BY <3>1
    <3>2. [bucket |-> cells[p].home, tag |-> cells[p].tag, color |-> cells[p].color] =
            [bucket |-> cells[q].home, tag |-> cells[q].tag, color |-> cells[q].color]
      BY <2>4
    <3> QED BY <3>1, <3>2 DEF SameLocator
  <2>6. m.id = n.id
    <3> SUFFICES ASSUME m.id # n.id PROVE FALSE
      OBVIOUS
    <3>1. cells[p] \in Entered /\ cells[q] \in Entered
      BY DEF Entered
    <3>2. PICK w \in Threads : Doomed(w) /\ NodeId(w) \in {m.id, n.id}
      BY <2>1, <2>2, <2>3, <2>5, <3>1 DEF NodeInv, ColorInv
    <3>3. Adding(w)
      BY <3>2 DEF Doomed, ToBeStored, Tentative
    <3> QED BY <1>1, <2>1, <3>2, <3>3, SettledIsNotNew
  <2> QED BY <2>2, <2>6 DEF Nodes
<1> QED BY <1>1, ControlInvariant, NodeInvariant, PTL
=============================================================================
