--------------------------- MODULE CuckooTableProofs ------------------------
(***************************************************************************)
(* The threads of CuckooTable one by one, the locks they hold and what they*)
(* write, in three parts.                                                  *)
(*                                                                         *)
(* What a thread knows about its own locals at each point of an insert:    *)
(* which buckets its handles stand for, what the queue of relocate_entry   *)
(* looks like, and which bucket references it holds.  No step of another   *)
(* thread touches any of it, so one thread is looked at a time.  From it   *)
(* follow the types of all variables and that a relocation leaves no lock  *)
(* behind, on any machine and for any table.                               *)
(*                                                                         *)
(* Who owns the lock of a bucket, where write_entry writes, and what the   *)
(* relocations leave in place, on any machine.                             *)
(*                                                                         *)
(* What is in the cells while every store is visible at once.              *)
(***************************************************************************)
EXTENDS CuckooTable, FiniteSetTheorems, SequenceTheorems, WellFoundedInduction, TLAPS

-----------------------------------------------------------------------------
(* The two buckets of a pair determine each other. *)

(* mix_bucket stays in the table and never returns its argument: an entry  *)
(* always has two different buckets, which add_entry needs to tell its own *)
(* write from a change of the other bucket.                                *)
THEOREM MixChangesBucket ==
  ASSUME NEW b \in Buckets, NEW tag \in Tags
  PROVE  mix_bucket(b, tag) \in Buckets /\ mix_bucket(b, tag) # b
<1>1. bucket_mix_table[tag] \in 1..(num_buckets - 1)
  BY MixTableAssumption
<1> QED
  BY <1>1, NumBucketsAssumption DEF mix_bucket, Buckets

(* The assertion in unmix_bucket: it inverts mix_bucket, in both orders.   *)
THEOREM UnmixInvertsMix ==
  ASSUME NEW b \in Buckets, NEW tag \in Tags
  PROVE  /\ unmix_bucket(b, tag) \in Buckets
         /\ unmix_bucket(mix_bucket(b, tag), tag) = b
         /\ mix_bucket(unmix_bucket(b, tag), tag) = b
<1>1. bucket_mix_table[tag] \in 1..(num_buckets - 1)
  BY MixTableAssumption
<1> QED
  BY <1>1, NumBucketsAssumption DEF mix_bucket, unmix_bucket, Buckets

(* An entry that is moved to its alternate bucket with its secondary flag  *)
(* flipped, as relocate_entry does, can be moved back: the alternate of    *)
(* the alternate is where it was.                                          *)
THEOREM AlternateInvolution ==
  ASSUME NEW b \in Buckets, NEW e, NEW f, e.tag \in Tags, f.tag = e.tag,
         e.secondary \in BOOLEAN, f.secondary = ~e.secondary
  PROVE  /\ alternate_bucket(e, b) \in Buckets
         /\ alternate_bucket(f, alternate_bucket(e, b)) = b
<1>1. CASE e.secondary
  <2>1. alternate_bucket(e, b) = unmix_bucket(b, e.tag)
    BY <1>1 DEF alternate_bucket
  <2>2. alternate_bucket(f, alternate_bucket(e, b)) = mix_bucket(unmix_bucket(b, e.tag), e.tag)
    BY <1>1, <2>1 DEF alternate_bucket
  <2> QED
    BY <2>1, <2>2, UnmixInvertsMix
<1>2. CASE ~e.secondary
  <2>1. alternate_bucket(e, b) = mix_bucket(b, e.tag)
    BY <1>2 DEF alternate_bucket
  <2>2. alternate_bucket(f, alternate_bucket(e, b)) = unmix_bucket(mix_bucket(b, e.tag), e.tag)
    BY <1>2, <2>1 DEF alternate_bucket
  <2> QED
    BY <2>1, <2>2, UnmixInvertsMix, MixChangesBucket
<1> QED
  BY <1>1, <1>2

-----------------------------------------------------------------------------
(* What a thread knows about its own locals. *)

WritePcs == {"write1", "write2", "write3"}
FindPcs == {"find1", "find2", "find3"}

(* What the thread is doing when write_entry or the search has returned.   *)
Phase(t) ==
  IF pc[t] \in WritePcs THEN write[t].then
  ELSE IF pc[t] \in FindPcs THEN find[t].then ELSE pc[t]

UpgradePcs == {"upgrade", "upgrade_check"}

(* upgrade_bucket_lock was called for the bucket of add_entry, for the     *)
(* bucket with the free cell, or for a bucket on the path.                 *)
ForAdd(t) == pc[t] \in UpgradePcs /\ up[t] \in {PRIMARY, SECONDARY}
ForFree(t) == pc[t] \in UpgradePcs /\ up[t] = FREE
ForPath(t) == pc[t] \in UpgradePcs /\ up[t] >= 2

SearchPhases == {"search", "search_lock", "search_scan"}
MovePhases == {"move", "moved"}
ReleasePhases == {"release_free", "release_path"}

(* Inside relocate_entry.                                                  *)
Relocating(t) ==
  Phase(t) \in SearchPhases \cup MovePhases \cup ReleasePhases \/ ForFree(t) \/ ForPath(t)

(* Inside add_entry, before the node counts as added.                      *)
Adding(t) ==
  Phase(t) \in UpgradePcs \cup {"add", "add2", "scan_primary", "scan_secondary", "put",
                                "read_unlock", "withdrawn", "relocate", "relocate_failed"}
  \/ Relocating(t)

-----------------------------------------------------------------------------
(* The functions that are called have arguments, and readers only search.  *)
CallInv(t) ==
  /\ pc[t] \in WritePcs =>
       /\ write[t].cell \in Cells
       /\ write[t].then \in {"read_unlock", "withdrawn", "moved", "release_free", "removed"}
  /\ pc[t] \in FindPcs => find[t].node \in Nodes /\ find[t].then \in {"remove", "found"}
  /\ pc[t] \in {"find3", "remove"} => find[t].cell \in Cells
  /\ pc[t] \in UpgradePcs => ForAdd(t) \/ ForFree(t) \/ ForPath(t)
  /\ t \in Readers => Phase(t) \in {"idle", "found"}
  /\ t \in Writers => Phase(t) # "found"

(* The insert has a plan, and add_entry works on its next node.            *)
InsertInv(t) ==
  /\ t \in Writers /\ Phase(t) # "idle" => op[t].inserts < scenario.inserts
  /\ Phase(t) \in {"idle", "retry"} => op[t].added = <<>>
  /\ Adding(t) => op[t].plan \in scenario.plans /\ Len(op[t].added) < Len(op[t].plan)
  /\ Phase(t) = "added" => op[t].plan \in scenario.plans /\ Len(op[t].added) \in 1..Len(op[t].plan)
  /\ Phase(t) \in {"remove", "removed"} => op[t].added # <<>>
  /\ Phase(t) = "read_unlock" => write[t].entry.color \in 0..MAX_VALID_COLOR

(* The handles of add_entry stand for the pair of its node, and the cell   *)
(* it has chosen is in the bucket it will write to.                        *)
AddInv(t) ==
  /\ Adding(t) /\ Phase(t) # "add" => rl[t][PRIMARY] = Primary(t)
  /\ Adding(t) /\ Phase(t) \notin {"add", "add2"} => rl[t][SECONDARY] = Secondary(t)
  /\ ForAdd(t) => up[t] = add[t].handle /\ (add[t].result = None => add[t].handle = PRIMARY)
  /\ Phase(t) \in {"relocate", "relocate_failed"} \/ Relocating(t) => add[t].handle = PRIMARY
  /\ Phase(t) \in {"put", "read_unlock", "withdrawn", "added"} => add[t].result \in Cells
  /\ (ForAdd(t) /\ add[t].result # None) \/ Phase(t) \in {"put", "read_unlock", "withdrawn"} =>
       BucketOf(add[t].result) = rl[t][add[t].handle]

Positions(t) == 1..Len(rel[t].queue)
BucketAt(t, j) == rel[t].queue[j].bucket
ParentAt(t, j) == rel[t].queue[j].parent

(* The queue of relocate_entry is a tree of different buckets below the    *)
(* primary one.                                                            *)
QueueInv(t) ==
  Relocating(t) =>
    /\ rel[t] \in Relocations
    /\ Len(rel[t].queue) \in 1..RELOCATE_QUEUE_SIZE
    /\ BucketAt(t, 1) = Primary(t)
    /\ \A j \in Positions(t) \ {1} : ParentAt(t, j) \in 1..(j - 1)
    /\ \A j, k \in Positions(t) : BucketAt(t, j) = BucketAt(t, k) => j = k
    /\ \A j \in Positions(t) : rl[t][j] = BucketAt(t, j)
    /\ rel[t].pos \in Positions(t) \/ (Phase(t) = "search" /\ rel[t].pos = Len(rel[t].queue) + 1)
    /\ Phase(t) # "search" => ~Queued(t, rel[t].child_bucket)
    /\ Phase(t) \notin {"search", "search_lock"} => rl[t][FREE] = rel[t].child_bucket
    /\ Phase(t) \notin SearchPhases => rel[t].free \in Cells
    /\ ForPath(t) => up[t] \in Positions(t)
    /\ Phase(t) \in MovePhases => rel[t].walk \in Positions(t)
    /\ rel[t].ok =>
         /\ Phase(t) \in ReleasePhases
         /\ add[t].result \in Cells /\ BucketOf(add[t].result) = Primary(t)

(* References r are one on each bucket of S and none elsewhere.            *)
RefsOn(r, S) == r = [b \in Buckets |-> IF b \in S THEN 1 ELSE 0]

(* The positions of the path whose bucket is locked, besides the first.    *)
Locked(t, r) == {j \in Positions(t) \ {1} : r[BucketAt(t, j)] = 1}

(* They form a chain that begins at pos.                                   *)
PathRefs(t, r) ==
  /\ r \in [Buckets -> 0..1]
  /\ r[Primary(t)] = 1
  /\ \A b \in Buckets : b # rel[t].child_bucket /\ ~Queued(t, b) => r[b] = 0
  /\ \A j \in Locked(t, r) : j <= rel[t].pos
  /\ \A j, k \in Locked(t, r) : j < k => j <= ParentAt(t, k) /\ ParentAt(t, k) \in Locked(t, r)

(* The references when upgrade_bucket_lock is called, and when it has      *)
(* taken the lock.  relocate_entry counts the buckets it has locked.       *)
RefsBefore(t, r) ==
  /\ ForAdd(t) => RefsOn(r, {})
  /\ ForFree(t) => RefsOn(r, {Primary(t)}) /\ rel[t].locked = 0
  /\ ForPath(t) =>
       /\ PathRefs(t, r)
       /\ r[rel[t].child_bucket] = 1
       /\ rel[t].locked = Cardinality(Locked(t, r)) + 1
       /\ rel[t].pos \in Locked(t, r) \cup {up[t]}
       /\ \A j \in Locked(t, r) : up[t] < j /\ ParentAt(t, j) \in Locked(t, r) \cup {up[t]}

RefsAfter(t, r) ==
  /\ ForAdd(t) => RefsOn(r, {UpgradeBucket(t)})
  /\ ForFree(t) => RefsOn(r, {Primary(t), UpgradeBucket(t)}) /\ rel[t].locked = 0
  /\ ForPath(t) =>
       /\ PathRefs(t, r)
       /\ r[rel[t].child_bucket] = 1
       /\ rel[t].locked = Cardinality(Locked(t, r))
       /\ rel[t].pos \in Locked(t, r) /\ up[t] \in Locked(t, r)
       /\ \A j \in Locked(t, r) \ {up[t]} : up[t] < j /\ ParentAt(t, j) \in Locked(t, r)

(* Before and after the path is locked.                                    *)
RefsInv(t) ==
  /\ Phase(t) \in {"idle", "retry", "found", "release", "release_retry", "publish", "undo", "remove",
                   "removed", "add", "add2", "scan_primary", "scan_secondary"} =>
       RefsOn(bucket_refs[t], {})
  /\ pc[t] = "upgrade" => RefsBefore(t, bucket_refs[t])
  /\ pc[t] = "upgrade_check" => RefsAfter(t, bucket_refs[t])
  /\ Phase(t) \in {"relocate", "search", "search_lock", "search_scan", "relocate_failed"} =>
       RefsOn(bucket_refs[t], {Primary(t)})
  /\ Phase(t) \in SearchPhases => rel[t].locked = 0
  /\ Phase(t) \in {"put", "read_unlock", "withdrawn", "added"} =>
       RefsOn(bucket_refs[t], {BucketOf(add[t].result)})

(* The locks on the path are those counted, so release_locks, which goes   *)
(* by the count, releases all of them and nothing else.                    *)
PathInv(t) ==
  LET locked == Locked(t, bucket_refs[t])
  IN  /\ Phase(t) \in MovePhases \cup ReleasePhases =>
           /\ PathRefs(t, bucket_refs[t])
           /\ bucket_refs[t][rel[t].child_bucket] = IF Phase(t) = "release_path" THEN 0 ELSE 1
           /\ rel[t].locked = Cardinality(locked) + IF Phase(t) = "release_path" THEN 0 ELSE 1
      /\ Phase(t) \in MovePhases =>
           /\ rel[t].pos \in locked \cup {1} /\ rel[t].walk \in locked \cup {1}
           /\ \A j \in locked : ParentAt(t, j) \in locked \cup {1}
      /\ Phase(t) = "release_free" /\ locked # {} => rel[t].pos \in locked
      /\ Phase(t) = "release_path" /\ locked # {} =>
           rel[t].walk \in locked /\ \A j \in locked : j <= rel[t].walk

Control(t) == CallInv(t) /\ InsertInv(t) /\ AddInv(t) /\ QueueInv(t) /\ RefsInv(t) /\ PathInv(t)

CInv == TypeOK /\ \A t \in Threads : Control(t)

-----------------------------------------------------------------------------
(* Operators of the model. *)

(* Min of a set of numbers is in it and below the rest of it.  The least   *)
(* number of a set is found with the well-founded order of the numbers.    *)
LEMMA Smallest ==
  ASSUME NEW S \in SUBSET Nat, S # {}
  PROVE  Min(S) \in S /\ \A x \in S : Min(S) <= x
<1>1. \E x \in S : \A y \in S : ~(<<y, x>> \in OpToRel(<, Nat))
  BY NatLessThanWellFounded, WFMin
<1>2. PICK x \in S : \A y \in S : ~(<<y, x>> \in {ss \in Nat \X Nat : ss[1] < ss[2]})
  BY <1>1, Zenon DEF OpToRel
<1>3. ASSUME NEW y \in S PROVE x <= y
  <2>1. <<y, x>> \in Nat \X Nat /\ <<y, x>>[1] = y /\ <<y, x>>[2] = x
    OBVIOUS
  <2> QED BY <1>2, <2>1
<1> QED BY <1>3 DEF Min

(* The same for Max, below a bound.                                        *)
LEMMA Largest ==
  ASSUME NEW n \in Nat, NEW S \in SUBSET (1..n), S # {}
  PROVE  Max(S) \in S /\ \A x \in S : x <= Max(S)
<1> DEFINE D == {d \in 0..n : n - d \in S}
<1>1. D \in SUBSET Nat /\ D # {}
  <2>1. PICK x \in S : TRUE
    OBVIOUS
  <2>2. n - x \in D
    OBVIOUS
  <2>3. \A d \in D : d \in Nat
    OBVIOUS
  <2> HIDE DEF D
  <2> QED BY <2>2, <2>3
<1>2. Min(D) \in D /\ \A d \in D : Min(D) <= d
  BY <1>1, Smallest
<1>3. n - Min(D) \in S /\ \A x \in S : x <= n - Min(D)
  <2>1. \A x \in S : n - x \in D
    OBVIOUS
  <2> QED BY <1>2, <2>1
<1>4. PICK m \in S : \A x \in S : x <= m
  BY <1>3
<1> QED BY <1>4 DEF Max

(* Cells and entries the table begins with have their types.               *)
LEMMA EntryTypes ==
  /\ Unused \in Entries /\ Root \in Entries /\ RootCell \in Cells
  /\ \A p \in Cells : BucketOf(p) \in Buckets
  /\ \A b \in Buckets : <<b, 0>> \in Cells
BY NumBucketsAssumption, CellsAssumption, TagAssumption
   DEF Unused, Root, RootCell, Entries, Cells, CellNumbers, BucketOf, Buckets, INVALID_COLOR, MAX_VALID_COLOR

(* A thread sees entries, be they in memory or in its own store buffer.    *)
LEMMA SeenType ==
  ASSUME TypeOK, NEW t \in Threads, NEW p \in Cells
  PROVE  Seen(t, p) \in Entries
<1> DEFINE mine == {i \in Pending(t, "cell", BucketOf(p)) : buf[t][i].cell = p}
<1>1. CASE mine = {}
  BY <1>1 DEF Seen, TypeOK
<1>2. CASE mine # {}
  <2>1. buf[t] \in Seq(Stores)
    BY DEF TypeOK
  <2>2. mine \in SUBSET (1..Len(buf[t])) /\ Len(buf[t]) \in Nat
    BY <2>1 DEF Pending
  <2>3. Max(mine) \in 1..Len(buf[t])
    BY <1>2, <2>2, Largest
  <2>4. buf[t][Max(mine)] \in Stores
    <3> HIDE DEF mine
    <3> QED BY <2>1, <2>3
  <2> QED BY <1>2, <2>4 DEF Seen, Stores
<1> QED BY <1>1, <1>2

(* alternate_bucket returns a bucket of the table.                         *)
LEMMA AlternateType ==
  ASSUME NEW e \in Entries, NEW b \in Buckets
  PROVE  alternate_bucket(e, b) \in Buckets
BY MixChangesBucket, UnmixInvertsMix DEF alternate_bucket, Entries

(* unused_color_in_pair always finds a color below INVALID_COLOR: the two  *)
(* buckets have 2 * CUCKOO_BUCKET_SIZE cells, one less than there are      *)
(* valid colors.  No cell of the two has that color.                       *)
LEMMA ColorIsValid ==
  ASSUME TypeOK, NEW t \in Threads, Primary(t) \in Buckets, Secondary(t) \in Buckets
  PROVE  /\ unused_color_in_pair(t) \in 0..MAX_VALID_COLOR
         /\ \A p \in {Primary(t), Secondary(t)} \X CellNumbers : Seen(t, p).color # unused_color_in_pair(t)
<1> DEFINE pair == {Primary(t), Secondary(t)} \X CellNumbers
           color == [p \in pair |-> Seen(t, p).color]
           used == {Seen(t, p).color : p \in pair}
           unused == (0..(INVALID_COLOR + 1)) \ used
<1>1. pair \subseteq Cells
  BY DEF Cells
<1>2. IsFiniteSet(CellNumbers) /\ Cardinality(CellNumbers) = CUCKOO_BUCKET_SIZE
  BY FS_Interval, CellsAssumption DEF CellNumbers
<1>3. IsFiniteSet({Primary(t), Secondary(t)}) /\ Cardinality({Primary(t), Secondary(t)}) <= 2
  <2>1. IsFiniteSet({Primary(t)}) /\ Cardinality({Primary(t)}) = 1
    BY FS_Singleton
  <2>2. IsFiniteSet({Primary(t)} \cup {Secondary(t)})
        /\ Cardinality({Primary(t)} \cup {Secondary(t)}) \in {1, 2}
    BY <2>1, FS_AddElement
  <2>3. {Primary(t)} \cup {Secondary(t)} = {Primary(t), Secondary(t)}
    OBVIOUS
  <2> QED BY <2>2, <2>3
<1>4. IsFiniteSet(pair) /\ Cardinality(pair) <= 2 * CUCKOO_BUCKET_SIZE
  <2> DEFINE n == Cardinality({Primary(t), Secondary(t)})
  <2>1. IsFiniteSet(pair) /\ Cardinality(pair) = n * Cardinality(CellNumbers)
    BY <1>2, <1>3, FS_Product
  <2>2. n \in Nat
    BY <1>3, FS_CardinalityType
  <2>3. n = 0 \/ n = 1 \/ n = 2
    BY <1>3, <2>2
  <2> QED BY <1>2, <2>1, <2>3, CellsAssumption
<1>5. IsFiniteSet(used) /\ Cardinality(used) <= Cardinality(pair)
  <2>1. color \in [pair -> used] /\ \A c \in used : \E p \in pair : color[p] = c
    OBVIOUS
  <2>2. color \in Surjection(pair, used)
    BY <2>1 DEF Surjection
  <2> QED BY <1>4, <2>2, FS_Surjection
<1>6. MAX_VALID_COLOR \in Nat /\ INVALID_COLOR = MAX_VALID_COLOR + 1
      /\ Cardinality(0..MAX_VALID_COLOR) = MAX_VALID_COLOR + 1
  BY FS_Interval, CellsAssumption DEF MAX_VALID_COLOR, INVALID_COLOR
<1>7. PICK c \in 0..MAX_VALID_COLOR : c \notin used
  <2>1. SUFFICES ASSUME 0..MAX_VALID_COLOR \subseteq used PROVE FALSE
    OBVIOUS
  <2>2. Cardinality(0..MAX_VALID_COLOR) <= Cardinality(used)
    BY <1>5, <2>1, FS_Subset
  <2>3. Cardinality(used) \in Nat /\ Cardinality(pair) \in Nat
    BY <1>4, <1>5, FS_CardinalityType
  <2> QED BY <1>4, <1>5, <1>6, <2>2, <2>3, CellsAssumption DEF MAX_VALID_COLOR
<1>8. unused \in SUBSET Nat /\ c \in unused
  BY <1>6, <1>7
<1>9. Min(unused) \in unused /\ Min(unused) <= c
  BY <1>8, Smallest
<1>10. unused_color_in_pair(t) = Min(unused)
  BY DEF unused_color_in_pair
<1>11. \A p \in pair : Seen(t, p).color \in used
  OBVIOUS
<1>12. unused_color_in_pair(t) \in 0..MAX_VALID_COLOR /\ unused_color_in_pair(t) \notin used
  <2> HIDE DEF used
  <2> QED BY <1>6, <1>9, <1>10
<1> QED BY <1>11, <1>12, Zenon

-----------------------------------------------------------------------------
(* Types, and what a step may touch. *)

(* The locals of a thread. *)
locals(t) == <<pc[t], op[t], add[t], rel[t], write[t], find[t], rl[t], up[t], bucket_refs[t]>>

(* What is known about a thread depends on its locals only.                *)
LEMMA ControlIsLocal ==
  ASSUME NEW t \in Threads, Control(t), scenario' = scenario, locals(t)' = locals(t)
  PROVE  Control(t)'
<1>1. /\ pc'[t] = pc[t] /\ op'[t] = op[t] /\ add'[t] = add[t] /\ rel'[t] = rel[t]
      /\ write'[t] = write[t] /\ find'[t] = find[t] /\ rl'[t] = rl[t] /\ up'[t] = up[t]
      /\ bucket_refs'[t] = bucket_refs[t]
  BY DEF locals
<1>2. Phase(t)' = Phase(t) /\ ForAdd(t)' = ForAdd(t) /\ ForFree(t)' = ForFree(t) /\ ForPath(t)' = ForPath(t)
  BY <1>1, Zenon DEF Phase, ForAdd, ForFree, ForPath
<1>3. Relocating(t)' = Relocating(t) /\ Adding(t)' = Adding(t)
  BY <1>2, Zenon DEF Relocating, Adding
<1>4. Primary(t)' = Primary(t) /\ Secondary(t)' = Secondary(t)
  BY <1>1, Zenon DEF Primary, Secondary, NodeHash, NodeNumber
<1>5. CallInv(t)' /\ InsertInv(t)'
  BY <1>1, <1>2, <1>3 DEF Control, CallInv, InsertInv
<1>6. AddInv(t)'
  BY <1>1, <1>2, <1>3, <1>4 DEF Control, AddInv
<1>7. QueueInv(t)'
  BY <1>1, <1>2, <1>3, <1>4 DEF Control, QueueInv, Queued, Positions, BucketAt, ParentAt
<1>8. \A r : Locked(t, r)' = Locked(t, r)
  BY <1>1, Zenon DEF Locked, Positions, BucketAt
<1>9. \A r : PathRefs(t, r)' = PathRefs(t, r)
  BY <1>1, <1>4, <1>8, Zenon DEF PathRefs, Queued, ParentAt
<1>10. RefsInv(t)'
  <2>1. \A r : RefsBefore(t, r)' = RefsBefore(t, r) /\ RefsAfter(t, r)' = RefsAfter(t, r)
    BY <1>1, <1>2, <1>4, <1>8, <1>9, Zenon DEF RefsBefore, RefsAfter, ParentAt, UpgradeBucket
  <2> QED BY <1>1, <1>2, <1>4, <2>1 DEF Control, RefsInv
<1>11. PathInv(t)'
  BY <1>1, <1>2, <1>4, <1>8, <1>9 DEF Control, PathInv, ParentAt
<1> QED BY <1>5, <1>6, <1>7, <1>10, <1>11 DEF Control

(* Memory and what is known about the counters.                            *)
MemoryType ==
  /\ scenario \in Scenarios
  /\ cells \in [Cells -> Entries]
  /\ busy \in [Buckets -> BOOLEAN]
  /\ lock \in [Buckets -> 0..1]
  /\ buf \in [Threads -> Seq(Stores)]
  /\ stale \in [Threads -> SUBSET Handles]

PcType == pc \in [Threads -> Labels]
OpType == op \in [Threads -> [inserts : 0..scenario.inserts, plan : scenario.plans \cup {<<>>}, added : Seq(Nodes)]]
AddType == add \in [Threads -> [result : Cells \cup {None}, handle : {PRIMARY, SECONDARY}]]
RelType == rel \in [Threads -> Relocations \cup {None}]
WriteType == write \in [Threads -> [cell : Cells \cup {None}, entry : Entries, then : Labels]]
FindType ==
  find \in [Threads -> [node : Nodes \cup {None}, secondary : BOOLEAN, lock : 0..1,
                        cell : Cells \cup {None}, id : NodeIds \cup {None, RootId}, then : Labels]]
HandleType == rl \in [Threads -> [Handles -> Buckets \cup {None}]] /\ up \in [Threads -> Handles]
LockType == bucket_refs \in [Threads -> [Buckets -> Nat]] /\ entry_locks \in [Threads -> SUBSET Cells]
LiveType == live \subseteq Nodes

(* The conjuncts of the type invariant, grouped by what changes together.  *)
LEMMA TypeParts ==
  TypeOK <=> /\ MemoryType /\ PcType /\ OpType /\ AddType /\ RelType /\ WriteType /\ FindType
             /\ HandleType /\ LockType /\ LiveType
BY DEF TypeOK, MemoryType, PcType, OpType, AddType, RelType, WriteType, FindType, HandleType,
       LockType, LiveType

(* The same for the state after a step.                                    *)
LEMMA TypePartsNext ==
  ASSUME MemoryType', PcType', OpType', AddType', RelType', WriteType', FindType', HandleType',
         LockType', LiveType'
  PROVE  TypeOK'
BY DEF TypeOK, MemoryType, PcType, OpType, AddType, RelType, WriteType, FindType, HandleType,
       LockType, LiveType

(* Variables that do not change keep their types.                          *)
LEMMA TypesKept ==
  ASSUME TypeOK
  PROVE  /\ UNCHANGED <<memory, stale>> => MemoryType' /\ scenario' = scenario
         /\ op' = op /\ scenario' = scenario => OpType'
         /\ UNCHANGED add => AddType'
         /\ UNCHANGED rel => RelType'
         /\ UNCHANGED write => WriteType'
         /\ UNCHANGED find => FindType'
         /\ rl' = rl /\ up' = up => HandleType'
         /\ bucket_refs' = bucket_refs /\ entry_locks' = entry_locks => LockType'
         /\ UNCHANGED live => LiveType'
BY TypeParts DEF MemoryType, OpType, AddType, RelType, WriteType, FindType, HandleType,
       LockType, LiveType, memory, locks

(* Goto keeps the types of the program counters.                           *)
LEMMA PcTypeKept ==
  ASSUME TypeOK, NEW t \in Threads, NEW l \in Labels, pc' = [pc EXCEPT ![t] = l]
  PROVE  PcType' /\ pc'[t] = l
BY TypeParts DEF PcType

(* read_lock_bucket records a bucket for one handle.                       *)
LEMMA ReadCounterType ==
  ASSUME TypeOK, NEW t \in Threads, NEW h \in Handles, NEW b \in Buckets, ReadCounter(t, h, b),
         UNCHANGED <<memory, up>>
  PROVE  MemoryType' /\ HandleType' /\ rl'[t] = [rl[t] EXCEPT ![h] = b]
BY TypeParts DEF MemoryType, HandleType, ReadCounter, memory

(* A store that reaches memory leaves it well typed.                       *)
LEMMA ReachType ==
  ASSUME MemoryType, NEW s \in Stores, Reach(s)
  PROVE  scenario' = scenario /\ cells' \in [Cells -> Entries] /\ busy' \in [Buckets -> BOOLEAN]
         /\ lock' \in [Buckets -> 0..1]
BY DEF MemoryType, Reach, Stores

(* A store makes handles stale, and nothing else.                          *)
LEMMA OutdateType ==
  ASSUME MemoryType, NEW s \in Stores, NEW T, Outdate(s, T)
  PROVE  stale' \in [Threads -> SUBSET Handles]
BY DEF MemoryType, Outdate, HandlesOn

(* Store keeps the types, with and without a store buffer.                 *)
LEMMA StoreType ==
  ASSUME TypeOK, NEW t \in Threads, NEW kind \in {"seq", "cell", "unlock"}, NEW p \in Cells,
         NEW e \in Entries, Store(t, kind, p, e)
  PROVE  scenario' = scenario /\ MemoryType'
<1> DEFINE s == [kind |-> kind, bucket |-> BucketOf(p), cell |-> p, entry |-> e]
<1>1. MemoryType
  BY DEF TypeOK, MemoryType
<1>2. s \in Stores
  BY EntryTypes DEF Stores
<1> HIDE DEF s
<1>3. CASE scenario.buffered
  <2>1. buf' = [buf EXCEPT ![t] = Append(@, s)] /\ Outdate(s, {t}) /\ UNCHANGED <<scenario, cells, busy, lock>>
    BY <1>3 DEF Store, s
  <2>2. buf' \in [Threads -> Seq(Stores)]
    BY <1>1, <1>2, <2>1 DEF MemoryType
  <2> QED BY <1>1, <1>2, <2>1, <2>2, OutdateType DEF MemoryType
<1>4. CASE ~scenario.buffered
  <2>1. Reach(s) /\ Outdate(s, Threads) /\ UNCHANGED buf
    BY <1>4 DEF Store, s
  <2> QED BY <1>1, <1>2, <2>1, ReachType, OutdateType DEF MemoryType
<1> QED BY <1>3, <1>4

(* Memory that does not change keeps its types.                            *)
LEMMA MemoryUnchanged ==
  ASSUME TypeOK, UNCHANGED <<memory, stale>>
  PROVE  scenario' = scenario /\ MemoryType'
BY DEF TypeOK, MemoryType, memory

(* release_bucket_lock keeps the types of memory.                          *)
LEMMA ReleaseType ==
  ASSUME TypeOK, NEW t \in Threads, NEW b \in Buckets, release_bucket_lock(t, b)
  PROVE  scenario' = scenario /\ MemoryType'
BY StoreType, MemoryUnchanged, EntryTypes DEF release_bucket_lock

Others(t) == \A u \in Threads \ {t} : locals(u)' = locals(u)

(* A step of one thread does not touch the locals of the others.           *)
LEMMA StepIsLocal ==
  ASSUME TypeOK, NEW t \in Threads, Step(t) \/ BeginInsert(t) \/ BeginLookup(t) \/ Drain(t)
  PROVE  scenario' = scenario /\ Others(t)
<1>0. /\ DOMAIN pc = Threads /\ DOMAIN op = Threads /\ DOMAIN add = Threads
      /\ DOMAIN rel = Threads /\ DOMAIN write = Threads /\ DOMAIN find = Threads /\ DOMAIN rl = Threads
      /\ DOMAIN up = Threads /\ DOMAIN bucket_refs = Threads
  BY DEF TypeOK
<1> USE <1>0 DEF Others, locals, Goto, memory, handles, locks
<1>1. ASSUME NEW kind, NEW p, NEW e, Store(t, kind, p, e) PROVE scenario' = scenario
  BY <1>1, Zenon DEF Store, Reach
<1>2. ASSUME NEW b, release_bucket_lock(t, b)
      PROVE  scenario' = scenario /\ \A u \in Threads \ {t} : bucket_refs'[u] = bucket_refs[u]
  BY <1>1, <1>2 DEF release_bucket_lock
<1>3. CASE AddStep(t)
  <2>1. CASE ReadLockPrimary(t) \/ ReadLockSecondary(t)
    BY <2>1 DEF ReadLockPrimary, ReadLockSecondary, ReadCounter
  <2>2. CASE ScanPrimary(t) \/ ScanSecondary(t)
    BY <2>2 DEF ScanPrimary, ScanSecondary, ChooseCell, CallUpgrade
  <2>3. CASE PutEntry(t) \/ ReadUnlock(t)
    BY <2>3 DEF PutEntry, ReadUnlock, CallWrite
  <2>4. CASE AddReturn(t)
    BY <2>4, <1>2 DEF AddReturn
  <2> QED BY <1>3, <2>1, <2>2, <2>3, <2>4 DEF AddStep
<1>4. CASE upgrade_bucket_lock(t)
  <2>1. ASSUME UpgradeOk(t) \/ UpgradeFailed(t)
        PROVE  \A u \in Threads \ {t} : pc'[u] = pc[u] /\ rel'[u] = rel[u] /\ up'[u] = up[u]
    BY <2>1 DEF UpgradeOk, UpgradePath, UpgradeFailed, CallUpgrade
  <2>2. CASE UpgradeHeld(t)
    BY <2>1, <2>2 DEF UpgradeHeld, AddBucketRef
  <2>3. CASE UpgradeTake(t)
    BY <2>1, <2>3 DEF UpgradeTake, AddBucketRef
  <2>4. CASE UpgradeCheck(t)
    BY <2>1, <2>4, <1>2 DEF UpgradeCheck
  <2> QED BY <1>4, <2>2, <2>3, <2>4 DEF upgrade_bucket_lock
<1>5. CASE relocate_entry(t)
  <2>1. CASE Relocate(t) \/ SearchExamine(t)
    BY <2>1 DEF Relocate, SearchExamine, SearchNext
  <2>2. CASE SearchReadLock(t) \/ SearchScan(t)
    BY <2>2 DEF SearchReadLock, SearchScan, SearchNext, ReadCounter, CallUpgrade
  <2>3. CASE MoveStep(t)
    BY <2>3 DEF MoveStep, MoveEntry, MoveNext, CallWrite
  <2>4. CASE SearchFailed(t) \/ RelocateEnd(t)
    BY <2>4, <1>2 DEF SearchFailed, RelocateEnd, ReleaseFree, ReleasePath, RelocateReturn, RelocateFailed
  <2> QED BY <1>5, <2>1, <2>2, <2>3, <2>4 DEF relocate_entry, SearchStep
<1>6. CASE write_entry(t)
  BY <1>1, <1>6 DEF write_entry
<1>7. CASE find_entry_in_pair_by_color(t)
  BY <1>7 DEF find_entry_in_pair_by_color, FindReadCounter, FindScan, FindCheckCounter, NotInBucket, ReadCounter
<1>8. ASSUME NEW n, NEW label, Return(t, n, label)
      PROVE  \A u \in Threads \ {t} :
               /\ pc'[u] = pc[u] /\ op'[u] = op[u] /\ add'[u] = add[u] /\ rel'[u] = rel[u]
               /\ write'[u] = write[u] /\ find'[u] = find[u] /\ rl'[u] = rl[u] /\ up'[u] = up[u]
  BY <1>8 DEF Return
<1>9. CASE InsertEnd(t)
  <2>1. CASE Publish(t) \/ Undo(t) \/ remove_entry_by_value(t) \/ Removed(t) \/ Retry(t) \/ RetryInsert(t)
    BY <2>1 DEF Publish, Undo, remove_entry_by_value, Removed, Retry, RetryInsert, ChoosePlan, CallFind, CallWrite
  <2>2. CASE ReleaseAllNext(t)
    BY <1>1, <2>2 DEF ReleaseAllNext
  <2>3. CASE InsertReturn(t)
    BY <1>8, <2>3 DEF InsertReturn
  <2> QED BY <1>9, <2>1, <2>2, <2>3 DEF InsertEnd
<1>10. CASE LookupReturn(t)
  BY <1>8, <1>10 DEF LookupReturn
<1>11. CASE BeginInsert(t) \/ BeginLookup(t)
  BY <1>11 DEF BeginInsert, BeginLookup, ChoosePlan, CallFind
<1>12. CASE Drain(t)
  BY <1>12 DEF Drain, Reach
<1> QED BY <1>3, <1>4, <1>5, <1>6, <1>7, <1>9, <1>10, <1>11, <1>12 DEF Step, add_entry

-----------------------------------------------------------------------------
(* add_entry. *)

(* Inside add_entry there is a node to add, with a pair of different       *)
(* buckets.                                                                *)
LEMMA NodeTypes ==
  ASSUME TypeOK, NEW t \in Threads, Control(t), Adding(t)
  PROVE  /\ t \in Writers
         /\ NodeHash(t) \in Hashes /\ Primary(t) \in Buckets /\ Secondary(t) \in Buckets
         /\ Secondary(t) # Primary(t)
         /\ NodeNumber(t) \in Nat /\ NodeNumber(t) <= Len(op[t].plan)
         /\ NodeId(t) \in NodeIds
<1>1. Phase(t) \notin {"idle", "found"}
  BY DEF Adding, Relocating, Phase, ForFree, ForPath, UpgradePcs, SearchPhases, MovePhases, ReleasePhases,
         WritePcs, FindPcs
<1>2. t \in Writers
  BY <1>1 DEF Control, CallInv, Threads
<1>3. /\ op[t].plan \in Seq(Hashes) /\ Len(op[t].added) \in Nat /\ Len(op[t].added) < Len(op[t].plan)
      /\ op[t].inserts \in Nat
  BY ScenariosAssumption DEF Control, InsertInv, TypeOK
<1>4. NodeHash(t) \in Hashes /\ NodeNumber(t) \in Nat /\ NodeNumber(t) <= Len(op[t].plan)
      /\ NodeNumber(t) # 0
  BY <1>3 DEF NodeHash, NodeNumber
<1> QED BY <1>2, <1>3, <1>4, MixChangesBucket DEF Hashes, Primary, Secondary, NodeId, NodeIds

(* The named handles are different, and so are the queue positions.        *)
LEMMA HandleTypes ==
  /\ {FIND, FREE, SECONDARY, PRIMARY} \subseteq Handles
  /\ \A n \in 1..RELOCATE_QUEUE_SIZE : n \in Handles
  /\ FIND = -2 /\ FREE = -1 /\ SECONDARY = 0 /\ PRIMARY = 1
BY QueueSizeAssumption DEF Handles, FIND, FREE, SECONDARY, PRIMARY

USE DEF Phase, WritePcs, FindPcs, Adding, Relocating, ForAdd, ForFree, ForPath, UpgradePcs,
        SearchPhases, MovePhases, ReleasePhases, Goto, memory, handles, locks

(* The pair of the node is fixed while the insert does not go on.          *)
LEMMA PrimaryUnchanged ==
  ASSUME NEW t, op'[t] = op[t]
  PROVE  Primary(t)' = Primary(t) /\ Secondary(t)' = Secondary(t) /\ NodeNumber(t)' = NodeNumber(t)
BY DEF Primary, Secondary, NodeHash, NodeNumber

(* add_entry reads the counters of the pair into its two handles.          *)
LEMMA ReadLocks ==
  ASSUME TypeOK, NEW t \in Threads, Control(t), ReadLockPrimary(t) \/ ReadLockSecondary(t)
  PROVE  TypeOK' /\ Control(t)'
<1>1. /\ op'[t] = op[t] /\ bucket_refs'[t] = bucket_refs[t] /\ scenario' = scenario
      /\ rl[t] \in [Handles -> Buckets \cup {None}]
      /\ \/ pc[t] = "add" /\ pc'[t] = "add2" /\ rl'[t] = [rl[t] EXCEPT ![PRIMARY] = Primary(t)]
         \/ pc[t] = "add2" /\ pc'[t] = "scan_primary" /\ rl'[t] = [rl[t] EXCEPT ![SECONDARY] = Secondary(t)]
  BY DEF ReadLockPrimary, ReadLockSecondary, ReadCounter, TypeOK
<1>2. t \in Writers /\ Primary(t) \in Buckets /\ Secondary(t) \in Buckets
  BY <1>1, NodeTypes
<1>3. TypeOK'
  <2>1. PcType'
    BY PcTypeKept DEF ReadLockPrimary, ReadLockSecondary, Labels
  <2>2. MemoryType' /\ HandleType'
    BY <1>2, HandleTypes, ReadCounterType DEF ReadLockPrimary, ReadLockSecondary
  <2> QED BY <1>1, <2>1, <2>2, TypePartsNext, TypesKept DEF ReadLockPrimary, ReadLockSecondary
<1>4. CallInv(t)' /\ InsertInv(t)' /\ AddInv(t)'
  BY <1>1, <1>2, ThreadsAssumption, HandleTypes, PrimaryUnchanged DEF Control, CallInv, InsertInv, AddInv
<1>5. QueueInv(t)' /\ RefsInv(t)' /\ PathInv(t)'
  BY <1>1 DEF Control, QueueInv, RefsInv, PathInv
<1> QED BY <1>3, <1>4, <1>5 DEF Control

(* A cell find_free_cell_in_bucket returns is free and in the bucket.      *)
LEMMA FreeCellType ==
  ASSUME TypeOK, NEW t \in Threads, NEW b \in Buckets, find_free_cell_in_bucket(t, b) # None
  PROVE  /\ find_free_cell_in_bucket(t, b) \in Cells
         /\ BucketOf(find_free_cell_in_bucket(t, b)) = b
         /\ Seen(t, find_free_cell_in_bucket(t, b)).id = None
<1> DEFINE free == {c \in CellNumbers : Seen(t, <<b, c>>).id = None}
<1>1. free \in SUBSET Nat /\ free # {} /\ find_free_cell_in_bucket(t, b) = <<b, Min(free)>>
  BY CellsAssumption DEF find_free_cell_in_bucket, CellNumbers
<1>2. Min(free) \in free
  BY <1>1, Smallest
<1> QED BY <1>1, <1>2 DEF Cells, BucketOf

(* add_entry picks a cell and asks for the lock of its bucket.             *)
LEMMA ChooseCellControl ==
  ASSUME TypeOK, NEW t \in Threads, Control(t), pc[t] \in {"scan_primary", "scan_secondary"},
         NEW p \in Cells \cup {None}, NEW h \in {PRIMARY, SECONDARY}, ChooseCell(t, p, h),
         p = None => h = PRIMARY,
         p # None => BucketOf(p) = IF h = PRIMARY THEN Primary(t) ELSE Secondary(t),
         UNCHANGED <<memory, handles, locks, op, rel, write, find, live>>
  PROVE  TypeOK' /\ Control(t)'
<1>1. /\ pc'[t] = "upgrade" /\ up'[t] = h /\ add'[t] = [result |-> p, handle |-> h]
      /\ op'[t] = op[t] /\ bucket_refs'[t] = bucket_refs[t] /\ scenario' = scenario /\ rl'[t] = rl[t]
  BY TypeParts DEF ChooseCell, CallUpgrade, PcType, HandleType, AddType
<1>2. t \in Writers
  BY NodeTypes
<1>3. TypeOK'
  <2>1. PcType'
    BY PcTypeKept DEF ChooseCell, CallUpgrade, Labels
  <2>2. AddType' /\ HandleType'
    BY TypeParts, HandleTypes DEF ChooseCell, CallUpgrade, AddType, HandleType
  <2> QED BY <1>1, <2>1, <2>2, TypePartsNext, TypesKept
<1>4. CallInv(t)' /\ InsertInv(t)'
  BY <1>1, <1>2, ThreadsAssumption, HandleTypes DEF Control, CallInv, InsertInv
<1>5. AddInv(t)'
  BY <1>1, HandleTypes, PrimaryUnchanged DEF Control, AddInv
<1>6. QueueInv(t)' /\ RefsInv(t)' /\ PathInv(t)'
  BY <1>1, HandleTypes DEF Control, QueueInv, RefsInv, RefsBefore, PathInv
<1> QED BY <1>3, <1>4, <1>5, <1>6 DEF Control

(* Both scans for a free cell keep the handles of the pair.                *)
LEMMA Scans ==
  ASSUME TypeOK, NEW t \in Threads, Control(t), ScanPrimary(t) \/ ScanSecondary(t)
  PROVE  TypeOK' /\ Control(t)'
<1>1. pc[t] \in {"scan_primary", "scan_secondary"}
  BY DEF ScanPrimary, ScanSecondary
<1>2. t \in Writers /\ Primary(t) \in Buckets /\ Secondary(t) \in Buckets
  BY <1>1, NodeTypes
<1>3. CASE ScanPrimary(t)
  <2> DEFINE p == find_free_cell_in_bucket(t, Primary(t))
  <2>1. CASE p # None
    <3>1. p \in Cells /\ BucketOf(p) = Primary(t) /\ ChooseCell(t, p, PRIMARY)
          /\ UNCHANGED <<memory, handles, locks, op, rel, write, find, live>>
      BY <1>2, <1>3, <2>1, FreeCellType DEF ScanPrimary
    <3> QED BY <1>1, <2>1, <3>1, ChooseCellControl
  <2>2. CASE p = None
    <3>1. /\ pc[t] = "scan_primary" /\ pc' = [pc EXCEPT ![t] = "scan_secondary"]
          /\ UNCHANGED <<memory, handles, locks, op, add, up, rel, write, find, live>>
      BY <1>3, <2>2 DEF ScanPrimary
    <3>2. PcType' /\ pc'[t] = "scan_secondary"
      BY <3>1, PcTypeKept DEF Labels
    <3>3. TypeOK'
      BY <3>1, <3>2, TypePartsNext, TypesKept
    <3> QED BY <1>2, <3>1, <3>2, <3>3, ThreadsAssumption, PrimaryUnchanged
            DEF Control, CallInv, InsertInv, AddInv, QueueInv, RefsInv, PathInv
  <2> QED BY <2>1, <2>2
<1>4. CASE ScanSecondary(t)
  <2> DEFINE p == find_free_cell_in_bucket(t, Secondary(t))
  <2>1. p = None \/ (p \in Cells /\ BucketOf(p) = Secondary(t))
    BY <1>2, FreeCellType
  <2>2. ChooseCell(t, p, IF p = None THEN PRIMARY ELSE SECONDARY)
        /\ UNCHANGED <<memory, handles, locks, op, rel, write, find, live>>
    BY <1>4 DEF ScanSecondary
  <2>3. SECONDARY # PRIMARY
    BY HandleTypes
  <2> HIDE DEF p
  <2> QED BY <1>1, <2>1, <2>2, <2>3, ChooseCellControl
<1> QED BY <1>3, <1>4

(* The new entry gets a valid color and a cell of the locked bucket.       *)
LEMMA PutEntryControl ==
  ASSUME TypeOK, NEW t \in Threads, Control(t), PutEntry(t)
  PROVE  TypeOK' /\ Control(t)'
<1> DEFINE e == [id |-> NodeId(t), home |-> Primary(t), tag |-> NodeHash(t).tag,
                 color |-> unused_color_in_pair(t), secondary |-> add[t].handle = SECONDARY]
<1>1. /\ pc[t] = "put" /\ pc'[t] = "write1" /\ op'[t] = op[t] /\ add'[t] = add[t] /\ rl'[t] = rl[t]
      /\ bucket_refs'[t] = bucket_refs[t] /\ scenario' = scenario
      /\ write'[t] = [cell |-> add[t].result, entry |-> e, then |-> "read_unlock"]
  BY DEF PutEntry, CallWrite, TypeOK
<1>2. t \in Writers /\ Primary(t) \in Buckets /\ Secondary(t) \in Buckets /\ NodeHash(t).tag \in Tags
      /\ NodeId(t) \in NodeIds
  BY <1>1, NodeTypes DEF Hashes
<1>3. e.color \in 0..MAX_VALID_COLOR /\ e \in Entries
  <2>1. unused_color_in_pair(t) \in 0..MAX_VALID_COLOR
    BY <1>2, ColorIsValid
  <2> QED BY <1>2, <2>1, CellsAssumption DEF Entries, MAX_VALID_COLOR, INVALID_COLOR
<1>4. add[t].result \in Cells
  BY <1>1 DEF Control, AddInv
<1> HIDE DEF e
<1>5. TypeOK'
  <2>1. PcType'
    BY PcTypeKept DEF PutEntry, CallWrite, Labels
  <2>2. WriteType'
    BY <1>3, <1>4, TypeParts DEF WriteType, PutEntry, CallWrite, Labels, e
  <2>3. LockType'
    BY <1>4, TypeParts DEF LockType, PutEntry
  <2> QED BY <1>1, <2>1, <2>2, <2>3, TypePartsNext, TypesKept DEF PutEntry
<1>6. CallInv(t)' /\ InsertInv(t)'
  BY <1>1, <1>2, <1>3, <1>4, ThreadsAssumption DEF Control, CallInv, InsertInv
<1>7. AddInv(t)'
  BY <1>1, HandleTypes, PrimaryUnchanged DEF Control, AddInv
<1>8. QueueInv(t)' /\ RefsInv(t)' /\ PathInv(t)'
  BY <1>1, HandleTypes DEF Control, QueueInv, RefsInv, PathInv
<1> QED BY <1>5, <1>6, <1>7, <1>8 DEF Control

(* The fields of an insert and the references of a thread are well typed.  *)
LEMMA LocalTypes ==
  ASSUME TypeOK, NEW t \in Threads
  PROVE  /\ op[t].inserts \in Nat /\ op[t].added \in Seq(Nodes) /\ op[t].inserts \in 0..scenario.inserts
         /\ op[t].plan \in scenario.plans \cup {<<>>}
         /\ bucket_refs[t] \in [Buckets -> Nat]
         /\ scenario \in Scenarios /\ scenario.inserts \in Nat
BY TypeParts, ScenariosAssumption DEF OpType, LockType, MemoryType

(* The entry is kept, with a locator, or is withdrawn.                     *)
LEMMA ReadUnlockControl ==
  ASSUME TypeOK, NEW t \in Threads, Control(t), ReadUnlock(t)
  PROVE  TypeOK' /\ Control(t)'
<1>1. /\ pc[t] = "read_unlock" /\ UNCHANGED <<memory, handles, locks, add, rel, find, up, live>>
  BY DEF ReadUnlock
<1>2. t \in Writers /\ NodeId(t) \in NodeIds /\ NodeHash(t) \in Hashes /\ Primary(t) \in Buckets
  BY <1>1, NodeTypes
<1>3. add[t].result \in Cells
  BY <1>1 DEF Control, AddInv
<1>4. CASE Fresh(t, AlternateHandle(t))
  <2>1. op' = [op EXCEPT ![t].added = Append(@, AddedNode(t))] /\ pc' = [pc EXCEPT ![t] = "added"] /\ UNCHANGED write
    BY <1>4 DEF ReadUnlock
  <2>2. AddedNode(t) \in Nodes
    BY <1>1, <1>2 DEF AddedNode, Nodes, Locators, Hashes, Control, InsertInv
  <2>3. PcType' /\ pc'[t] = "added"
    BY <2>1, PcTypeKept DEF Labels
  <2>4. OpType' /\ op'[t] = [op[t] EXCEPT !.added = Append(op[t].added, AddedNode(t))]
    <3>1. Append(op[t].added, AddedNode(t)) \in Seq(Nodes) /\ scenario' = scenario
      BY <1>1, <2>2, LocalTypes
    <3> QED BY <2>1, <3>1, TypeParts DEF OpType
  <2>5. TypeOK'
    BY <1>1, <2>1, <2>3, <2>4, TypePartsNext, TypesKept
  <2>6. Len(op'[t].added) = Len(op[t].added) + 1 /\ op'[t].plan = op[t].plan /\ op'[t].inserts = op[t].inserts
    BY <2>4, LocalTypes
  <2>7. CallInv(t)' /\ InsertInv(t)'
    BY <1>1, <1>2, <2>3, <2>6, ThreadsAssumption, LocalTypes DEF Control, CallInv, InsertInv
  <2>8. AddInv(t)' /\ QueueInv(t)' /\ RefsInv(t)' /\ PathInv(t)'
    BY <1>1, <2>3 DEF Control, AddInv, QueueInv, RefsInv, PathInv
  <2> QED BY <2>5, <2>7, <2>8 DEF Control
<1>5. CASE ~Fresh(t, AlternateHandle(t))
  <2>1. CallWrite(t, add[t].result, Unused, "withdrawn") /\ UNCHANGED op
    BY <1>5 DEF ReadUnlock
  <2>2. PcType' /\ pc'[t] = "write1"
    BY <2>1, PcTypeKept DEF Labels, CallWrite
  <2>3. WriteType' /\ write'[t] = [cell |-> add[t].result, entry |-> Unused, then |-> "withdrawn"]
    BY <1>3, <2>1, TypeParts, EntryTypes DEF WriteType, CallWrite, Labels
  <2>4. TypeOK'
    BY <1>1, <2>1, <2>2, <2>3, TypePartsNext, TypesKept
  <2>5. CallInv(t)' /\ InsertInv(t)' /\ AddInv(t)'
    BY <1>1, <1>2, <1>3, <2>1, <2>2, <2>3, ThreadsAssumption, PrimaryUnchanged DEF Control, CallInv, InsertInv, AddInv
  <2>6. QueueInv(t)' /\ RefsInv(t)' /\ PathInv(t)'
    BY <1>1, <2>2, <2>3 DEF Control, QueueInv, RefsInv, PathInv
  <2> QED BY <2>4, <2>5, <2>6 DEF Control
<1> QED BY <1>4, <1>5

(* release_bucket_lock takes one reference from one bucket.                *)
LEMMA RefsReleased ==
  ASSUME TypeOK, NEW t \in Threads, NEW b \in Buckets, bucket_refs[t][b] >= 1,
         release_bucket_lock(t, b), entry_locks' = entry_locks
  PROVE  /\ LockType' /\ MemoryType' /\ scenario' = scenario
         /\ bucket_refs'[t] = [bucket_refs[t] EXCEPT ![b] = bucket_refs[t][b] - 1]
<1>1. bucket_refs \in [Threads -> [Buckets -> Nat]] /\ entry_locks \in [Threads -> SUBSET Cells]
  BY TypeParts DEF LockType
<1>2. bucket_refs' = [bucket_refs EXCEPT ![t][b] = bucket_refs[t][b] - 1]
  BY DEF release_bucket_lock
<1> QED BY <1>1, <1>2, ReleaseType DEF LockType

(* One reference less on a bucket that has one.                            *)
LEMMA RefRemoved ==
  ASSUME NEW S, NEW b \in Buckets, NEW r, RefsOn(r, S), b \in S
  PROVE  /\ r[b] = 1
         /\ RefsOn([r EXCEPT ![b] = r[b] - 1], S \ {b})
BY DEF RefsOn

(* One reference more on a bucket that has none.                           *)
LEMMA RefAdded ==
  ASSUME NEW S, NEW b \in Buckets, NEW r, RefsOn(r, S), b \notin S
  PROVE  RefsOn([r EXCEPT ![b] = r[b] + 1], S \cup {b})
BY DEF RefsOn

(* When add_entry returns the thread holds no bucket references.           *)
LEMMA AddReturnControl ==
  ASSUME TypeOK, NEW t \in Threads, Control(t), AddReturn(t)
  PROVE  TypeOK' /\ Control(t)'
<1> DEFINE b == BucketOf(add[t].result)
<1>1. /\ pc[t] \in {"added", "withdrawn"} /\ release_bucket_lock(t, b)
      /\ UNCHANGED <<rl, entry_locks, op, add, rel, write, find, up, live>>
      /\ \/ pc[t] = "added" /\ pc' = [pc EXCEPT ![t] = "publish"]
         \/ pc[t] = "added" /\ pc' = [pc EXCEPT ![t] = "add"] /\ ~(NodeNumber(t) > Len(op[t].plan))
         \/ pc[t] = "withdrawn" /\ pc' = [pc EXCEPT ![t] = "undo"]
  BY DEF AddReturn
<1>2. b \in Buckets /\ RefsOn(bucket_refs[t], {b})
  BY <1>1, EntryTypes DEF Control, AddInv, RefsInv
<1>3. bucket_refs[t][b] = 1 /\ RefsOn([bucket_refs[t] EXCEPT ![b] = bucket_refs[t][b] - 1], {b} \ {b})
  BY <1>2, RefRemoved
<1> HIDE DEF b
<1>4. LockType' /\ MemoryType' /\ scenario' = scenario /\ RefsOn(bucket_refs'[t], {})
  <2>1. {b} \ {b} = {}
    OBVIOUS
  <2> QED BY <1>1, <1>2, <1>3, <2>1, RefsReleased
<1>5. PcType' /\ pc'[t] \in {"publish", "add", "undo"}
      /\ (pc'[t] = "add" => pc[t] = "added" /\ ~(NodeNumber(t) > Len(op[t].plan)))
  BY <1>1, PcTypeKept DEF Labels
<1>6. TypeOK'
  BY <1>1, <1>4, <1>5, TypePartsNext, TypesKept
<1>7. t \in Writers
  BY <1>1 DEF Control, CallInv, Threads
<1>8. CallInv(t)' /\ InsertInv(t)'
  <2>1. op'[t] = op[t]
    BY <1>1
  <2>2. pc'[t] = "add" => op[t].plan \in scenario.plans /\ Len(op[t].added) < Len(op[t].plan)
    BY <1>5, LocalTypes, ScenariosAssumption DEF Control, InsertInv, NodeNumber
  <2> QED BY <1>1, <1>4, <1>5, <1>7, <2>1, <2>2, ThreadsAssumption DEF Control, CallInv, InsertInv
<1>9. AddInv(t)' /\ QueueInv(t)' /\ RefsInv(t)' /\ PathInv(t)'
  BY <1>1, <1>4, <1>5 DEF AddInv, QueueInv, RefsInv, PathInv
<1> QED BY <1>6, <1>8, <1>9 DEF Control

-----------------------------------------------------------------------------
(* upgrade_bucket_lock. *)

(* The queue of relocate_entry as facts for the provers.                   *)
LEMMA QueueFacts ==
  ASSUME TypeOK, NEW t \in Threads, Control(t), Relocating(t)
  PROVE  /\ rel[t] \in Relocations /\ rel[t].queue \in Seq(QueueElements)
         /\ Len(rel[t].queue) \in 1..RELOCATE_QUEUE_SIZE /\ Len(rel[t].queue) \in Nat
         /\ 1 \in Positions(t) /\ Positions(t) \subseteq Handles
         /\ BucketAt(t, 1) = Primary(t)
         /\ \A j \in Positions(t) : BucketAt(t, j) \in Buckets /\ ParentAt(t, j) \in Nat
                                    /\ rl[t][j] = BucketAt(t, j) /\ Queued(t, BucketAt(t, j))
         /\ \A j \in Positions(t) \ {1} : ParentAt(t, j) \in 1..(j - 1) /\ ParentAt(t, j) \in Positions(t)
         /\ \A j, k \in Positions(t) : BucketAt(t, j) = BucketAt(t, k) => j = k
         /\ rel[t].child_bucket \in Buckets /\ rel[t].pos \in Nat /\ rel[t].i \in CellNumbers
         /\ Positions(t) = DOMAIN rel[t].queue
<1>1. /\ rel[t] \in Relocations /\ Len(rel[t].queue) \in 1..RELOCATE_QUEUE_SIZE
      /\ \A j \in Positions(t) \ {1} : ParentAt(t, j) \in 1..(j - 1)
      /\ \A j, k \in Positions(t) : BucketAt(t, j) = BucketAt(t, k) => j = k
      /\ \A j \in Positions(t) : rl[t][j] = BucketAt(t, j)
      /\ BucketAt(t, 1) = Primary(t)
  BY DEF Control, QueueInv
<1>2. rel[t].queue \in Seq(QueueElements) /\ Len(rel[t].queue) \in Nat
      /\ rel[t].child_bucket \in Buckets /\ rel[t].pos \in Nat /\ rel[t].i \in CellNumbers
  BY <1>1 DEF Relocations
<1>3. \A j \in Positions(t) : rel[t].queue[j] \in QueueElements
  BY <1>2 DEF Positions
<1>4. \A j \in Positions(t) : BucketAt(t, j) \in Buckets /\ ParentAt(t, j) \in Nat
  BY <1>3 DEF QueueElements, BucketAt, ParentAt
<1>5. 1 \in Positions(t) /\ Positions(t) \subseteq Handles /\ Positions(t) = DOMAIN rel[t].queue
  BY <1>1, <1>2, QueueSizeAssumption DEF Positions, Handles, FIND
<1>6. \A j \in Positions(t) : Queued(t, BucketAt(t, j))
  BY <1>5 DEF Queued, BucketAt
<1>7. \A j \in Positions(t) \ {1} : ParentAt(t, j) \in Positions(t)
  BY <1>1, <1>2 DEF Positions
<1> QED BY <1>1, <1>2, <1>4, <1>5, <1>6, <1>7

(* The bucket that upgrade_bucket_lock was given is one of the pair, the   *)
(* one with the free cell, or one on the path; in the last two cases it is *)
(* not referenced yet.                                                     *)
LEMMA UpgradeFacts ==
  ASSUME TypeOK, NEW t \in Threads, Control(t), pc[t] \in UpgradePcs
  PROVE  /\ ForAdd(t) \/ ForFree(t) \/ ForPath(t)
         /\ t \in Writers /\ Primary(t) \in Buckets
         /\ UpgradeBucket(t) \in Buckets
         /\ ForAdd(t) => UpgradeBucket(t) \in {Primary(t), Secondary(t)} /\ up[t] = add[t].handle
         /\ ForAdd(t) /\ up[t] = PRIMARY => UpgradeBucket(t) = Primary(t)
         /\ ForFree(t) => UpgradeBucket(t) = rel[t].child_bucket /\ ~Queued(t, rel[t].child_bucket)
                          /\ rel[t].child_bucket # Primary(t) /\ rel[t].pos \in Positions(t)
         /\ ForPath(t) => up[t] \in Positions(t) \ {1} /\ UpgradeBucket(t) = BucketAt(t, up[t])
                          /\ rel[t].child_bucket # UpgradeBucket(t) /\ Primary(t) # UpgradeBucket(t)
                          /\ ~Queued(t, rel[t].child_bucket) /\ rel[t].pos \in Positions(t)
<1>1. t \in Writers /\ Primary(t) \in Buckets /\ Secondary(t) \in Buckets
  BY NodeTypes
<1>2. ForAdd(t) \/ ForFree(t) \/ ForPath(t)
  BY DEF Control, CallInv
<1>3. ASSUME ForAdd(t)
      PROVE  UpgradeBucket(t) \in {Primary(t), Secondary(t)} /\ up[t] = add[t].handle
             /\ (up[t] = PRIMARY => UpgradeBucket(t) = Primary(t))
  BY <1>3, HandleTypes DEF Control, AddInv, UpgradeBucket
<1>4. ASSUME ForFree(t)
      PROVE  UpgradeBucket(t) = rel[t].child_bucket /\ ~Queued(t, rel[t].child_bucket)
             /\ rel[t].child_bucket # Primary(t) /\ rel[t].child_bucket \in Buckets
             /\ rel[t].pos \in Positions(t)
  <2>1. Relocating(t) /\ rl[t][FREE] = rel[t].child_bucket /\ ~Queued(t, rel[t].child_bucket)
        /\ rel[t].pos \in Positions(t)
    BY <1>4 DEF Control, QueueInv
  <2> QED BY <1>4, <2>1, QueueFacts DEF UpgradeBucket
<1>5. ASSUME ForPath(t)
      PROVE  up[t] \in Positions(t) \ {1} /\ UpgradeBucket(t) = BucketAt(t, up[t])
             /\ rel[t].child_bucket # UpgradeBucket(t) /\ Primary(t) # UpgradeBucket(t)
             /\ ~Queued(t, rel[t].child_bucket) /\ UpgradeBucket(t) \in Buckets
             /\ rel[t].pos \in Positions(t)
  <2>1. Relocating(t) /\ up[t] \in Positions(t) /\ ~Queued(t, rel[t].child_bucket)
        /\ rel[t].pos \in Positions(t)
    BY <1>5 DEF Control, QueueInv
  <2>2. up[t] # 1
    BY <1>5
  <2>3. UpgradeBucket(t) = BucketAt(t, up[t])
    BY <2>1, QueueFacts DEF UpgradeBucket
  <2> QED BY <2>1, <2>2, <2>3, QueueFacts
<1> QED BY <1>1, <1>2, <1>3, <1>4, <1>5, HandleTypes

(* The locked positions can be counted.                                    *)
LEMMA LockedIsFinite ==
  ASSUME TypeOK, NEW t \in Threads, Control(t), Relocating(t), NEW r
  PROVE  IsFiniteSet(Locked(t, r)) /\ Locked(t, r) \subseteq Positions(t) /\ Cardinality(Locked(t, r)) \in Nat
<1>1. IsFiniteSet(Positions(t))
  BY QueueFacts, FS_Interval DEF Positions
<1> QED BY <1>1, FS_Subset, FS_CardinalityType DEF Locked

(* Taking the lock leads from the references before to those after.        *)
LEMMA LockTaken ==
  ASSUME TypeOK, NEW t \in Threads, Control(t), pc[t] = "upgrade", NEW r \in [Buckets -> Nat],
         RefsBefore(t, r)
  PROVE  RefsAfter(t, [r EXCEPT ![UpgradeBucket(t)] = r[UpgradeBucket(t)] + 1])
<1> DEFINE b == UpgradeBucket(t)
           r2 == [r EXCEPT ![b] = r[b] + 1]
<1>1. CASE ForAdd(t)
  <2>1. RefsOn(r2, {} \cup {b})
    BY <1>1, UpgradeFacts, RefAdded DEF RefsBefore
  <2>2. {} \cup {b} = {b}
    OBVIOUS
  <2>3. ~ForFree(t) /\ ~ForPath(t)
    BY <1>1, HandleTypes
  <2> QED BY <2>1, <2>2, <2>3 DEF RefsAfter
<1>2. CASE ForFree(t)
  <2>1. RefsOn(r2, {Primary(t)} \cup {b})
    BY <1>2, UpgradeFacts, RefAdded DEF RefsBefore
  <2>2. {Primary(t)} \cup {b} = {Primary(t), b}
    OBVIOUS
  <2>3. ~ForAdd(t) /\ ~ForPath(t)
    BY <1>2, HandleTypes
  <2> QED BY <1>2, <2>1, <2>2, <2>3 DEF RefsAfter, RefsBefore
<1>3. CASE ForPath(t)
  <2>1. /\ PathRefs(t, r) /\ r[rel[t].child_bucket] = 1
        /\ rel[t].locked = Cardinality(Locked(t, r)) + 1
        /\ rel[t].pos \in Locked(t, r) \cup {up[t]}
        /\ \A j \in Locked(t, r) : up[t] < j /\ ParentAt(t, j) \in Locked(t, r) \cup {up[t]}
    BY <1>3 DEF RefsBefore
  <2>2. /\ up[t] \in Positions(t) \ {1} /\ b = BucketAt(t, up[t]) /\ b \in Buckets
        /\ rel[t].child_bucket # b /\ Primary(t) # b /\ rel[t].pos \in Positions(t)
    BY <1>3, UpgradeFacts
  <2>3. up[t] \in Nat /\ up[t] \notin Locked(t, r)
    BY <1>3, <2>1, <2>2, QueueFacts DEF Positions
  <2>4. r[b] = 0 /\ r \in [Buckets -> 0..1]
    BY <2>1, <2>2, <2>3 DEF Locked, PathRefs
  <2>5. r2 \in [Buckets -> 0..1] /\ r2[b] = 1 /\ \A c \in Buckets \ {b} : r2[c] = r[c]
    BY <2>2, <2>4
  <2> HIDE DEF r2
  <2>6. Locked(t, r2) = Locked(t, r) \cup {up[t]}
    BY <1>3, <2>2, <2>5, QueueFacts DEF Locked
  <2>7. Cardinality(Locked(t, r2)) = Cardinality(Locked(t, r)) + 1
    BY <1>3, <2>3, <2>6, LockedIsFinite, FS_AddElement
  <2>8. \A j \in Locked(t, r) \cup {up[t]} : j <= rel[t].pos /\ j \in Nat
    <3>1. rel[t].pos \in Nat /\ \A j \in Locked(t, r) \cup {up[t]} : j \in Nat
      BY <1>3, <2>2, LockedIsFinite, QueueFacts DEF Positions
    <3>2. up[t] <= rel[t].pos
      <4>1. CASE rel[t].pos = up[t]
        BY <3>1, <4>1
      <4>2. CASE rel[t].pos \in Locked(t, r)
        <5>1. up[t] < rel[t].pos
          BY <2>1, <4>2
        <5> QED BY <2>3, <3>1, <5>1
      <4> QED BY <2>1, <4>1, <4>2
    <3> QED BY <2>1, <3>1, <3>2 DEF PathRefs
  <2>9. \A j, k \in Locked(t, r2) : j < k => j <= ParentAt(t, k) /\ ParentAt(t, k) \in Locked(t, r2)
    <3>1. SUFFICES ASSUME NEW j \in Locked(t, r2), NEW k \in Locked(t, r2), j < k
                   PROVE  j <= ParentAt(t, k) /\ ParentAt(t, k) \in Locked(t, r2)
      OBVIOUS
    <3>2. k # up[t] /\ k \in Locked(t, r)
      BY <2>1, <2>3, <2>6, <2>8, <3>1
    <3>3. ParentAt(t, k) \in Locked(t, r2)
      BY <2>1, <2>6, <3>2
    <3>4. CASE j \in Locked(t, r)
      BY <2>1, <3>1, <3>2, <3>3, <3>4 DEF PathRefs
    <3>5. CASE j = up[t]
      BY <2>1, <2>3, <2>6, <2>8, <3>2, <3>3, <3>5
    <3> QED BY <2>6, <3>4, <3>5
  <2>10. PathRefs(t, r2)
    BY <1>3, <2>1, <2>2, <2>5, <2>6, <2>8, <2>9, QueueFacts, UpgradeFacts DEF PathRefs
  <2>11. r2[rel[t].child_bucket] = 1
    BY <1>3, <2>1, <2>2, <2>5, QueueFacts
  <2>12. ~ForAdd(t) /\ ~ForFree(t)
    BY <1>3, HandleTypes
  <2>13. rel[t].locked = Cardinality(Locked(t, r2))
    BY <2>1, <2>7
  <2>14. RefsAfter(t, r2)
    BY <2>1, <2>6, <2>10, <2>11, <2>12, <2>13, Zenon DEF RefsAfter
  <2> QED BY <2>14 DEF r2
<1> QED BY <1>1, <1>2, <1>3, UpgradeFacts

(* Giving the lock back after a failed check leads from the references     *)
(* after to those before.                                                  *)
LEMMA LockGivenBack ==
  ASSUME TypeOK, NEW t \in Threads, Control(t), pc[t] = "upgrade_check", NEW r \in [Buckets -> Nat],
         RefsAfter(t, r)
  PROVE  /\ r[UpgradeBucket(t)] = 1
         /\ RefsBefore(t, [r EXCEPT ![UpgradeBucket(t)] = r[UpgradeBucket(t)] - 1])
<1> DEFINE b == UpgradeBucket(t)
           r2 == [r EXCEPT ![b] = r[b] - 1]
<1>1. CASE ForAdd(t)
  <2>1. r[b] = 1 /\ RefsOn(r2, {b} \ {b})
    BY <1>1, UpgradeFacts, RefRemoved DEF RefsAfter
  <2>2. {b} \ {b} = {}
    OBVIOUS
  <2>3. ~ForFree(t) /\ ~ForPath(t)
    BY <1>1, HandleTypes
  <2> QED BY <2>1, <2>2, <2>3 DEF RefsBefore
<1>2. CASE ForFree(t)
  <2>0. b \in Buckets /\ b # Primary(t) /\ RefsOn(r, {Primary(t), b})
    BY <1>2, UpgradeFacts DEF RefsAfter
  <2>1. r[b] = 1 /\ RefsOn(r2, {Primary(t), b} \ {b}) /\ b # Primary(t)
    BY <2>0, RefRemoved
  <2>2. {Primary(t), b} \ {b} = {Primary(t)}
    BY <2>1
  <2>3. ~ForAdd(t) /\ ~ForPath(t)
    BY <1>2, HandleTypes
  <2> QED BY <1>2, <2>1, <2>2, <2>3 DEF RefsAfter, RefsBefore
<1>3. CASE ForPath(t)
  <2>1. /\ PathRefs(t, r) /\ r[rel[t].child_bucket] = 1
        /\ rel[t].locked = Cardinality(Locked(t, r))
        /\ rel[t].pos \in Locked(t, r) /\ up[t] \in Locked(t, r)
        /\ \A j \in Locked(t, r) \ {up[t]} : up[t] < j /\ ParentAt(t, j) \in Locked(t, r)
    BY <1>3 DEF RefsAfter
  <2>2. /\ up[t] \in Positions(t) \ {1} /\ b = BucketAt(t, up[t]) /\ b \in Buckets
        /\ rel[t].child_bucket # b /\ Primary(t) # b
    BY <1>3, UpgradeFacts
  <2>3. r[b] = 1 /\ r \in [Buckets -> 0..1]
    BY <2>1, <2>2 DEF Locked, PathRefs
  <2>4. r2 \in [Buckets -> 0..1] /\ r2[b] = 0 /\ \A c \in Buckets \ {b} : r2[c] = r[c]
    BY <2>2, <2>3
  <2> HIDE DEF r2
  <2>5. Locked(t, r2) = Locked(t, r) \ {up[t]}
    BY <1>3, <2>2, <2>4, QueueFacts DEF Locked
  <2>6. Cardinality(Locked(t, r2)) = Cardinality(Locked(t, r)) - 1
    <3>1. IsFiniteSet(Locked(t, r)) /\ up[t] \in Locked(t, r)
      BY <1>3, <2>1, LockedIsFinite
    <3>2. Cardinality(Locked(t, r) \ {up[t]}) = Cardinality(Locked(t, r)) - 1
      BY <3>1, FS_RemoveElement
    <3> QED BY <2>5, <3>2
  <2>7. PathRefs(t, r2)
    <3>1. \A j, k \in Locked(t, r2) : j < k => j <= ParentAt(t, k) /\ ParentAt(t, k) \in Locked(t, r2)
      <4>1. SUFFICES ASSUME NEW j \in Locked(t, r2), NEW k \in Locked(t, r2), j < k
                     PROVE  j <= ParentAt(t, k) /\ ParentAt(t, k) \in Locked(t, r2)
        OBVIOUS
      <4>2. j \in Nat /\ up[t] \in Nat /\ up[t] < j /\ j <= ParentAt(t, k) /\ ParentAt(t, k) \in Locked(t, r)
        BY <1>3, <2>1, <2>2, <2>5, <4>1, LockedIsFinite DEF PathRefs, Positions
      <4>3. ParentAt(t, k) \in Nat
        BY <1>3, <4>2, LockedIsFinite DEF Positions
      <4> QED BY <2>5, <4>2, <4>3
    <3> QED BY <1>3, <2>1, <2>2, <2>4, <2>5, <3>1, QueueFacts, UpgradeFacts DEF PathRefs
  <2>8. r2[rel[t].child_bucket] = 1
    BY <1>3, <2>1, <2>2, <2>4, QueueFacts
  <2>9. ~ForAdd(t) /\ ~ForFree(t)
    BY <1>3, HandleTypes
  <2>10. rel[t].locked = Cardinality(Locked(t, r2)) + 1
    BY <1>3, <2>1, <2>6, LockedIsFinite
  <2>11. RefsBefore(t, r2)
    BY <2>1, <2>5, <2>7, <2>8, <2>9, <2>10, Zenon DEF RefsBefore
  <2> QED BY <2>3, <2>11 DEF r2
<1> QED BY <1>1, <1>2, <1>3, UpgradeFacts

(* The path is fixed while queue, position and last bucket are.            *)
LEMMA PathKept ==
  ASSUME NEW t \in Threads, op'[t] = op[t], rel'[t].queue = rel[t].queue, rel'[t].pos = rel[t].pos,
         rel'[t].child_bucket = rel[t].child_bucket
  PROVE  /\ Positions(t)' = Positions(t)
         /\ \A j : BucketAt(t, j)' = BucketAt(t, j) /\ ParentAt(t, j)' = ParentAt(t, j)
         /\ \A b : Queued(t, b)' = Queued(t, b)
         /\ \A r : Locked(t, r)' = Locked(t, r) /\ PathRefs(t, r)' = PathRefs(t, r)
<1>1. Primary(t)' = Primary(t)
  BY PrimaryUnchanged
<1>2. Positions(t)' = Positions(t) /\ (\A j : BucketAt(t, j)' = BucketAt(t, j) /\ ParentAt(t, j)' = ParentAt(t, j))
      /\ \A b : Queued(t, b)' = Queued(t, b)
  BY Zenon DEF Positions, BucketAt, ParentAt, Queued
<1>3. \A r : Locked(t, r)' = Locked(t, r)
  BY Zenon DEF Locked, Positions, BucketAt
<1>4. \A r : PathRefs(t, r)' = PathRefs(t, r)
  BY <1>1, <1>3, Zenon DEF PathRefs, Queued, ParentAt
<1> QED BY <1>2, <1>3, <1>4

(* The queue is left alone while the path is locked, moved along and       *)
(* released.                                                               *)
LEMMA QueueKept ==
  ASSUME TypeOK, NEW t \in Threads, Control(t), Relocating(t), Phase(t) \notin SearchPhases,
         op'[t] = op[t], rl'[t] = rl[t], rel'[t] \in Relocations,
         rel'[t].queue = rel[t].queue, rel'[t].pos = rel[t].pos,
         rel'[t].child_bucket = rel[t].child_bucket, rel'[t].free \in Cells,
         Phase(t)' \notin SearchPhases,
         ForPath(t)' => up'[t] \in Positions(t),
         Phase(t)' \in MovePhases => rel'[t].walk \in Positions(t),
         rel'[t].ok => /\ Phase(t)' \in ReleasePhases
                       /\ add'[t].result \in Cells /\ BucketOf(add'[t].result) = Primary(t)
  PROVE  QueueInv(t)'
<1>1. Primary(t)' = Primary(t)
  BY PrimaryUnchanged
<1>2. /\ Positions(t)' = Positions(t)
      /\ \A j : BucketAt(t, j)' = BucketAt(t, j) /\ ParentAt(t, j)' = ParentAt(t, j)
      /\ \A b : Queued(t, b)' = Queued(t, b)
  BY PathKept
<1>3. /\ Len(rel[t].queue) \in 1..RELOCATE_QUEUE_SIZE
      /\ BucketAt(t, 1) = Primary(t)
      /\ \A j \in Positions(t) \ {1} : ParentAt(t, j) \in 1..(j - 1)
      /\ \A j, k \in Positions(t) : BucketAt(t, j) = BucketAt(t, k) => j = k
      /\ \A j \in Positions(t) : rl[t][j] = BucketAt(t, j)
      /\ rel[t].pos \in Positions(t)
      /\ ~Queued(t, rel[t].child_bucket)
      /\ rl[t][FREE] = rel[t].child_bucket
  BY DEF Control, QueueInv
<1> QED BY <1>1, <1>2, <1>3 DEF QueueInv

(* The bucket of add_entry is locked: it puts its entry or relocates.      *)
LEMMA UpgradeForAdd ==
  ASSUME TypeOK, NEW t \in Threads, Control(t), ForAdd(t), UpgradeOk(t),
         RefsAfter(t, bucket_refs'[t]), scenario' = scenario, MemoryType', LockType',
         UNCHANGED <<rl, op, add, write, find, live>>
  PROVE  TypeOK' /\ Control(t)'
<1>1. t \in Writers /\ Primary(t)' = Primary(t) /\ Secondary(t)' = Secondary(t)
  BY UpgradeFacts, PrimaryUnchanged
<1>2. pc' = [pc EXCEPT ![t] = IF add[t].result = None THEN "relocate" ELSE "put"] /\ UNCHANGED <<rel, up>>
  BY DEF UpgradeOk
<1>3. PcType' /\ pc'[t] = IF add[t].result = None THEN "relocate" ELSE "put"
  BY <1>2, PcTypeKept DEF Labels
<1>4. TypeOK'
  BY <1>2, <1>3, TypePartsNext, TypesKept
<1>5. add[t].result \in Cells \cup {None}
  BY TypeParts DEF AddType
<1>6. /\ up[t] = add[t].handle /\ add[t].result = None => add[t].handle = PRIMARY
      /\ rl[t][PRIMARY] = Primary(t) /\ rl[t][SECONDARY] = Secondary(t)
      /\ add[t].result # None => BucketOf(add[t].result) = UpgradeBucket(t)
      /\ add[t].result = None => UpgradeBucket(t) = Primary(t) /\ add[t].handle = PRIMARY
  BY UpgradeFacts DEF Control, AddInv, UpgradeBucket
<1>7. RefsOn(bucket_refs'[t], {UpgradeBucket(t)})
  BY DEF RefsAfter
<1>8. CallInv(t)' /\ InsertInv(t)'
  BY <1>1, <1>2, <1>3, ThreadsAssumption DEF Control, CallInv, InsertInv
<1>9. AddInv(t)'
  BY <1>1, <1>2, <1>3, <1>5, <1>6 DEF Control, AddInv, UpgradeBucket
<1>10. QueueInv(t)' /\ PathInv(t)'
  BY <1>3 DEF QueueInv, PathInv
<1>11. RefsInv(t)'
  <2>1. CASE add[t].result = None
    BY <1>1, <1>3, <1>6, <1>7, <2>1 DEF RefsInv
  <2>2. CASE add[t].result # None
    BY <1>3, <1>6, <1>7, <2>2 DEF RefsInv
  <2> QED BY <2>1, <2>2
<1> QED BY <1>4, <1>8, <1>9, <1>10, <1>11 DEF Control

(* Locals of relocate_entry once it has found a free cell.                 *)
LEMMA RelLocals ==
  ASSUME TypeOK, NEW t \in Threads, Control(t), Relocating(t), Phase(t) \notin SearchPhases
  PROVE  /\ rel[t].free \in Cells /\ rel[t].locked \in Nat /\ rel[t].pos \in Positions(t)
         /\ (rel[t].ok => Phase(t) \in ReleasePhases /\ add[t].result \in Cells
                          /\ BucketOf(add[t].result) = Primary(t))
         /\ Phase(t) \in MovePhases => rel[t].walk \in Positions(t)
BY DEF Control, QueueInv, Relocations

(* Counting a lock leaves the locals well typed.                           *)
LEMMA CountUpdate ==
  ASSUME NEW x \in Relocations, NEW n \in Nat, NEW w \in Nat
  PROVE  [x EXCEPT !.locked = n, !.walk = w] \in Relocations
BY DEF Relocations

(* A bucket of the path is locked: it is counted, and the next one towards *)
(* the primary bucket follows; when that is reached, the moves start.      *)
LEMMA UpgradeForPath ==
  ASSUME TypeOK, NEW t \in Threads, Control(t), ForFree(t) \/ ForPath(t), UpgradeOk(t),
         RefsAfter(t, bucket_refs'[t]), scenario' = scenario, MemoryType', LockType',
         UNCHANGED <<rl, op, add, write, find, live>>
  PROVE  TypeOK' /\ Control(t)'
<1> DEFINE next == IF up[t] = FREE THEN rel[t].pos ELSE ParentAt(t, up[t])
           r == bucket_refs'[t]
<1>1. /\ t \in Writers /\ Primary(t)' = Primary(t) /\ Secondary(t)' = Secondary(t) /\ op'[t] = op[t]
      /\ rl'[t] = rl[t] /\ add'[t] = add[t] /\ Primary(t) \in Buckets
  BY UpgradeFacts, PrimaryUnchanged
<1>2. next \in Positions(t) /\ next \in Nat /\ rel[t].pos \in Positions(t) /\ rel[t].pos \in Nat
  BY UpgradeFacts, QueueFacts, HandleTypes DEF Positions
<1>3. UpgradePath(t)
  BY HandleTypes DEF UpgradeOk
<1>4. /\ rel'[t] \in Relocations /\ RelType' /\ rel'[t].queue = rel[t].queue /\ rel'[t].pos = rel[t].pos
      /\ rel'[t].child_bucket = rel[t].child_bucket /\ rel'[t].free = rel[t].free /\ rel'[t].ok = rel[t].ok
      /\ rel'[t].locked = rel[t].locked + 1
      /\ next = 1 => rel'[t].walk = rel[t].pos
  <2>1. rel[t] \in Relocations /\ rel \in [Threads -> Relocations \cup {None}]
    BY QueueFacts, TypeParts DEF RelType
  <2>2. PICK w \in Nat : /\ rel' = [rel EXCEPT ![t] = [rel[t] EXCEPT !.locked = rel[t].locked + 1, !.walk = w]]
                         /\ next = 1 => w = rel[t].pos
    BY <1>2, <1>3, <2>1 DEF UpgradePath, ParentAt
  <2>3. rel[t].locked + 1 \in Nat
    BY RelLocals
  <2>4. rel'[t] = [rel[t] EXCEPT !.locked = rel[t].locked + 1, !.walk = w]
    BY <2>1, <2>2
  <2>5. [rel[t] EXCEPT !.locked = rel[t].locked + 1, !.walk = w] \in Relocations
    BY <2>1, <2>3, CountUpdate
  <2>6. RelType'
    BY <2>1, <2>2, <2>5 DEF RelType
  <2>7. rel'[t] \in Relocations /\ rel'[t].queue = rel[t].queue /\ rel'[t].pos = rel[t].pos
        /\ rel'[t].child_bucket = rel[t].child_bucket /\ rel'[t].free = rel[t].free
        /\ rel'[t].ok = rel[t].ok /\ rel'[t].locked = rel[t].locked + 1 /\ rel'[t].walk = w
    BY <2>1, <2>4, <2>5 DEF Relocations
  <2> HIDE DEF next
  <2> QED BY <2>2, <2>6, <2>7
<1>5. /\ next = 1 => pc' = [pc EXCEPT ![t] = "move"] /\ UNCHANGED up
      /\ next # 1 => pc' = [pc EXCEPT ![t] = "upgrade"] /\ up' = [up EXCEPT ![t] = next]
  BY <1>3 DEF UpgradePath, ParentAt, CallUpgrade
<1>6. PcType' /\ pc'[t] = IF next = 1 THEN "move" ELSE "upgrade"
  BY <1>5, PcTypeKept DEF Labels
<1>7. HandleType' /\ (next # 1 => up'[t] = next)
  BY <1>2, <1>5, TypeParts, QueueFacts DEF HandleType
<1> HIDE DEF next, r
<1>8. TypeOK'
  BY <1>4, <1>6, <1>7, TypePartsNext, TypesKept
<1>9. next >= 2 \/ next = 1
  BY <1>2, QueueFacts DEF Positions
<1>10. CallInv(t)' /\ InsertInv(t)'
  BY <1>1, <1>6, <1>7, <1>9, ThreadsAssumption DEF Control, CallInv, InsertInv
<1>11. AddInv(t)'
  BY <1>1, <1>6, <1>7, <1>9, HandleTypes DEF Control, AddInv
<1>12. QueueInv(t)'
  <2>1. rel[t].free \in Cells /\ ~rel[t].ok
    BY RelLocals
  <2> QED BY <1>1, <1>2, <1>4, <1>6, <1>7, <2>1, QueueKept
<1>13. /\ \A j : ParentAt(t, j)' = ParentAt(t, j)
       /\ \A q : Locked(t, q)' = Locked(t, q) /\ PathRefs(t, q)' = PathRefs(t, q)
  BY <1>1, <1>4, PathKept
<1>14. /\ PathRefs(t, r) /\ r[rel[t].child_bucket] = 1
       /\ rel'[t].locked = Cardinality(Locked(t, r)) + 1
       /\ rel[t].pos \in Locked(t, r) \cup {next}
       /\ \A j \in Locked(t, r) : next < j /\ ParentAt(t, j) \in Locked(t, r) \cup {next}
  <2>1. CASE ForFree(t)
    <3>1. /\ RefsOn(r, {Primary(t), rel[t].child_bucket}) /\ rel[t].locked = 0 /\ next = rel[t].pos
      BY <2>1, UpgradeFacts, HandleTypes DEF RefsAfter, next, r
    <3>2. rel[t].child_bucket \in Buckets /\ ~Queued(t, rel[t].child_bucket)
      BY UpgradeFacts, QueueFacts
    <3>3. Locked(t, r) = {}
      BY <3>1, <3>2, QueueFacts DEF Locked, RefsOn
    <3>4. Cardinality(Locked(t, r)) = 0
      BY <3>3, FS_EmptySet
    <3>5. PathRefs(t, r) /\ r[rel[t].child_bucket] = 1
      BY <1>1, <3>1, <3>2, <3>3, QueueFacts DEF PathRefs, RefsOn
    <3> QED BY <1>4, <3>1, <3>3, <3>4, <3>5
  <2>2. CASE ForPath(t)
    <3>1. /\ PathRefs(t, r) /\ r[rel[t].child_bucket] = 1
          /\ rel[t].locked = Cardinality(Locked(t, r))
          /\ rel[t].pos \in Locked(t, r) /\ up[t] \in Locked(t, r)
          /\ \A j \in Locked(t, r) \ {up[t]} : up[t] < j /\ ParentAt(t, j) \in Locked(t, r)
      BY <2>2 DEF RefsAfter, r
    <3>2. next = ParentAt(t, up[t]) /\ next < up[t] /\ up[t] \in Nat
      BY <1>2, <2>2, UpgradeFacts, QueueFacts, HandleTypes DEF next, Positions
    <3>3. ASSUME NEW j \in Locked(t, r) PROVE next < j /\ ParentAt(t, j) \in Locked(t, r) \cup {next}
      <4>1. j \in Nat
        BY LockedIsFinite DEF Positions
      <4>2. CASE j = up[t]
        BY <3>2, <4>2
      <4>3. CASE j # up[t]
        BY <1>2, <3>1, <3>2, <4>1, <4>3
      <4> QED BY <4>2, <4>3
    <3> QED BY <1>4, <3>1, <3>3
  <2> QED BY <2>1, <2>2
<1>15. RefsInv(t)'
  <2>1. CASE next = 1
    BY <1>6, <2>1 DEF RefsInv
  <2>2. CASE next # 1
    <3>2. RefsBefore(t, bucket_refs[t])'
      BY <1>4, <1>6, <1>7, <1>9, <1>13, <1>14, <2>2, HandleTypes DEF RefsBefore, r
    <3> QED BY <1>6, <2>2, <3>2 DEF RefsInv
  <2> QED BY <2>1, <2>2
<1>16. PathInv(t)'
  BY <1>4, <1>6, <1>13, <1>14 DEF PathInv, r
<1> QED BY <1>8, <1>10, <1>11, <1>12, <1>15, <1>16 DEF Control

(* An upgrade that fails leaves to be released what was counted before it: *)
(* nothing for add_entry, the primary bucket, or the path so far.          *)
LEMMA UpgradeFailedControl ==
  ASSUME TypeOK, NEW t \in Threads, Control(t), pc[t] \in UpgradePcs, UpgradeFailed(t),
         RefsBefore(t, bucket_refs'[t]), scenario' = scenario, MemoryType', LockType',
         UNCHANGED <<rl, op, add, write, find, live>>
  PROVE  TypeOK' /\ Control(t)'
<1> DEFINE label == CASE up[t] \in {PRIMARY, SECONDARY} -> "undo"
                      [] up[t] = FREE                   -> "relocate_failed"
                      [] OTHER                          -> "release_free"
           r == bucket_refs'[t]
<1>1. /\ t \in Writers /\ Primary(t)' = Primary(t) /\ Secondary(t)' = Secondary(t) /\ op'[t] = op[t]
      /\ rl'[t] = rl[t] /\ add'[t] = add[t] /\ Primary(t) \in Buckets
  BY UpgradeFacts, PrimaryUnchanged
<1>2. pc' = [pc EXCEPT ![t] = label] /\ UNCHANGED <<rel, up>>
  BY DEF UpgradeFailed
<1>3. /\ ForAdd(t) => label = "undo"
      /\ ForFree(t) => label = "relocate_failed"
      /\ ForPath(t) => label = "release_free"
  BY HandleTypes
<1>4. ForAdd(t) \/ ForFree(t) \/ ForPath(t)
  BY UpgradeFacts
<1> HIDE DEF label, r
<1>5. label \in Labels
  BY <1>3, <1>4 DEF Labels
<1>6. PcType' /\ pc'[t] = label
  BY <1>2, <1>5, PcTypeKept
<1>7. TypeOK'
  BY <1>2, <1>6, TypePartsNext, TypesKept
<1>8. CallInv(t)' /\ InsertInv(t)'
  BY <1>1, <1>3, <1>4, <1>6, ThreadsAssumption DEF Control, CallInv, InsertInv
<1>9. AddInv(t)'
  BY <1>1, <1>3, <1>4, <1>6, HandleTypes DEF Control, AddInv
<1>10. CASE ForAdd(t) \/ ForFree(t)
  <2>1. QueueInv(t)' /\ PathInv(t)'
    BY <1>3, <1>6, <1>10 DEF QueueInv, PathInv
  <2>2. RefsInv(t)'
    BY <1>1, <1>3, <1>6, <1>10 DEF RefsInv, RefsBefore
  <2> QED BY <1>7, <1>8, <1>9, <2>1, <2>2 DEF Control
<1>11. CASE ForPath(t)
  <2>1. /\ PathRefs(t, r) /\ r[rel[t].child_bucket] = 1
        /\ rel[t].locked = Cardinality(Locked(t, r)) + 1
        /\ rel[t].pos \in Locked(t, r) \cup {up[t]}
        /\ \A j \in Locked(t, r) : up[t] < j /\ ParentAt(t, j) \in Locked(t, r) \cup {up[t]}
    BY <1>11 DEF RefsBefore, r
  <2>2. rel[t].free \in Cells /\ ~rel[t].ok /\ rel[t] \in Relocations
    BY <1>11, RelLocals, QueueFacts
  <2>3. QueueInv(t)'
    BY <1>1, <1>2, <1>3, <1>6, <1>11, <2>2, QueueKept
  <2>4. \A q : Locked(t, q)' = Locked(t, q) /\ PathRefs(t, q)' = PathRefs(t, q)
    BY <1>1, <1>2, PathKept
  <2>5. Locked(t, r) # {} => rel[t].pos \in Locked(t, r)
    <3>1. SUFFICES ASSUME NEW j \in Locked(t, r), rel[t].pos = up[t] PROVE FALSE
      BY <2>1
    <3>2. j <= rel[t].pos /\ up[t] < j
      BY <2>1 DEF PathRefs
    <3>3. j \in Nat /\ up[t] \in Nat
      BY <1>11, LockedIsFinite, UpgradeFacts DEF Positions
    <3> QED BY <3>1, <3>2, <3>3
  <2>6. RefsInv(t)'
    BY <1>3, <1>6, <1>11 DEF RefsInv
  <2>7. PathInv(t)'
    BY <1>2, <1>3, <1>6, <1>11, <2>1, <2>4, <2>5 DEF PathInv, r
  <2> QED BY <1>7, <1>8, <1>9, <2>3, <2>6, <2>7 DEF Control
<1> QED BY <1>4, <1>10, <1>11

(* A taken lock is one reference more on one bucket.                       *)
LEMMA RefTaken ==
  ASSUME TypeOK, NEW t \in Threads, NEW b \in Buckets, AddBucketRef(t, b), entry_locks' = entry_locks
  PROVE  LockType' /\ bucket_refs'[t] = [bucket_refs[t] EXCEPT ![b] = bucket_refs[t][b] + 1]
<1>1. bucket_refs \in [Threads -> [Buckets -> Nat]] /\ entry_locks \in [Threads -> SUBSET Cells]
  BY TypeParts DEF LockType
<1>2. bucket_refs' = [bucket_refs EXCEPT ![t][b] = bucket_refs[t][b] + 1]
  BY DEF AddBucketRef
<1> QED BY <1>1, <1>2 DEF LockType

(* An upgrade that succeeds, for any of the three callers.                 *)
LEMMA UpgradeOkControl ==
  ASSUME TypeOK, NEW t \in Threads, Control(t), pc[t] \in UpgradePcs, UpgradeOk(t),
         RefsAfter(t, bucket_refs'[t]), scenario' = scenario, MemoryType', LockType',
         UNCHANGED <<rl, op, add, write, find, live>>
  PROVE  TypeOK' /\ Control(t)'
BY UpgradeFacts, UpgradeForAdd, UpgradeForPath

(* upgrade_bucket_lock, with the lock already held, free or taken.         *)
LEMMA UpgradeControl ==
  ASSUME TypeOK, NEW t \in Threads, Control(t), upgrade_bucket_lock(t)
  PROVE  TypeOK' /\ Control(t)'
<1>0. pc[t] \in UpgradePcs
  BY DEF upgrade_bucket_lock, UpgradeHeld, UpgradeTake, UpgradeCheck
<1>1. bucket_refs[t] \in [Buckets -> Nat] /\ UpgradeBucket(t) \in Buckets
  BY <1>0, LocalTypes, UpgradeFacts
<1>2. pc[t] = "upgrade" => RefsBefore(t, bucket_refs[t])
  BY DEF Control, RefsInv
<1>3. pc[t] = "upgrade_check" => RefsAfter(t, bucket_refs[t])
  BY DEF Control, RefsInv
<1>4. CASE UpgradeHeld(t)
  <2>1. pc[t] = "upgrade" /\ UNCHANGED <<memory, handles, entry_locks, op, add, write, find, live>>
    BY <1>4 DEF UpgradeHeld
  <2>2. scenario' = scenario /\ MemoryType'
    BY <2>1, TypesKept
  <2>3. CASE Fresh(t, up[t]) /\ AddBucketRef(t, UpgradeBucket(t)) /\ UpgradeOk(t)
    <3>1. LockType' /\ RefsAfter(t, bucket_refs'[t])
      <4>1. RefsAfter(t, [bucket_refs[t] EXCEPT ![UpgradeBucket(t)] = bucket_refs[t][UpgradeBucket(t)] + 1])
        BY <1>1, <1>2, <2>1, LockTaken
      <4> QED BY <1>1, <2>1, <2>3, <4>1, RefTaken
    <3> QED BY <1>0, <2>1, <2>2, <2>3, <3>1, UpgradeOkControl
  <2>4. CASE UpgradeFailed(t) /\ UNCHANGED bucket_refs
    <3>1. LockType' /\ RefsBefore(t, bucket_refs'[t])
      BY <1>2, <2>1, <2>4, TypesKept
    <3> QED BY <1>0, <2>1, <2>2, <2>4, <3>1, UpgradeFailedControl
  <2> QED BY <1>4, <2>3, <2>4 DEF UpgradeHeld
<1>5. CASE UpgradeTake(t)
  <2>1. pc[t] = "upgrade" /\ UNCHANGED <<scenario, cells, busy, buf, handles, entry_locks, op, add, write, find, live>>
    BY <1>5 DEF UpgradeTake
  <2>2. CASE /\ lock' = [lock EXCEPT ![UpgradeBucket(t)] = 1]
             /\ AddBucketRef(t, UpgradeBucket(t))
             /\ Goto(t, "upgrade_check")
             /\ UNCHANGED <<rel, up>>
    <3>1. LockType' /\ RefsAfter(t, bucket_refs'[t])
      <4>1. RefsAfter(t, [bucket_refs[t] EXCEPT ![UpgradeBucket(t)] = bucket_refs[t][UpgradeBucket(t)] + 1])
        BY <1>1, <1>2, <2>1, LockTaken
      <4> QED BY <1>1, <2>1, <2>2, <4>1, RefTaken
    <3>2. MemoryType'
      BY <1>1, <2>1, <2>2, TypeParts DEF MemoryType
    <3>3. PcType' /\ pc'[t] = "upgrade_check"
      BY <2>2, PcTypeKept DEF Labels
    <3>4. TypeOK'
      BY <2>1, <2>2, <3>1, <3>2, <3>3, TypePartsNext, TypesKept
    <3>5. op'[t] = op[t] /\ add'[t] = add[t] /\ rel'[t] = rel[t] /\ rl'[t] = rl[t] /\ up'[t] = up[t]
          /\ Primary(t)' = Primary(t) /\ Secondary(t)' = Secondary(t)
      BY <2>1, <2>2, PrimaryUnchanged
    <3>6. t \in Writers
      BY <1>0, UpgradeFacts
    <3>7. CallInv(t)' /\ InsertInv(t)'
      BY <2>1, <3>3, <3>5, <3>6, ThreadsAssumption DEF Control, CallInv, InsertInv
    <3>8. AddInv(t)'
      BY <2>1, <3>3, <3>5 DEF Control, AddInv
    <3>9. QueueInv(t)'
      <4>1. CASE ForAdd(t)
        BY <3>3, <3>5, <4>1, HandleTypes DEF QueueInv
      <4>2. CASE ForFree(t) \/ ForPath(t)
        <5>1. rel[t].free \in Cells /\ ~rel[t].ok /\ rel[t] \in Relocations
              /\ (ForPath(t) => up[t] \in Positions(t))
          BY <2>1, <4>2, RelLocals, QueueFacts, UpgradeFacts
        <5> QED BY <2>1, <3>3, <3>5, <4>2, <5>1, QueueKept
      <4> QED BY <1>0, <4>1, <4>2, UpgradeFacts
    <3>10. RefsAfter(t, bucket_refs[t])'
      <4>1. (ForAdd(t)' = ForAdd(t)) /\ (ForFree(t)' = ForFree(t)) /\ (ForPath(t)' = ForPath(t))
        BY <2>1, <3>3, <3>5
      <4>2. UpgradeBucket(t)' = UpgradeBucket(t)
        BY <3>5 DEF UpgradeBucket
      <4>3. /\ \A j : ParentAt(t, j)' = ParentAt(t, j)
            /\ \A r : Locked(t, r)' = Locked(t, r) /\ PathRefs(t, r)' = PathRefs(t, r)
        BY <3>5, PathKept
      <4> QED BY <3>1, <3>5, <4>1, <4>2, <4>3 DEF RefsAfter
    <3>11. RefsInv(t)' /\ PathInv(t)'
      BY <3>3, <3>10 DEF RefsInv, PathInv
    <3> QED BY <3>4, <3>7, <3>8, <3>9, <3>11 DEF Control
  <2>3. CASE UpgradeFailed(t) /\ UNCHANGED <<lock, bucket_refs>>
    <3>1. LockType' /\ RefsBefore(t, bucket_refs'[t]) /\ MemoryType'
      BY <1>2, <2>1, <2>3, TypesKept
    <3> QED BY <1>0, <2>1, <2>3, <3>1, UpgradeFailedControl
  <2> QED BY <1>5, <2>2, <2>3 DEF UpgradeTake
<1>6. CASE UpgradeCheck(t)
  <2>1. pc[t] = "upgrade_check" /\ UNCHANGED <<rl, entry_locks, op, add, write, find, live>>
    BY <1>6 DEF UpgradeCheck
  <2>2. CASE UpgradeOk(t) /\ UNCHANGED <<memory, stale, bucket_refs>>
    <3>1. LockType' /\ RefsAfter(t, bucket_refs'[t]) /\ MemoryType' /\ scenario' = scenario
      BY <1>3, <2>1, <2>2, TypesKept
    <3> QED BY <1>0, <2>1, <2>2, <3>1, UpgradeOkControl
  <2>3. CASE UpgradeFailed(t) /\ release_bucket_lock(t, UpgradeBucket(t))
    <3>1. /\ bucket_refs[t][UpgradeBucket(t)] = 1
          /\ RefsBefore(t, [bucket_refs[t] EXCEPT ![UpgradeBucket(t)] = bucket_refs[t][UpgradeBucket(t)] - 1])
      BY <1>1, <1>3, <2>1, LockGivenBack
    <3>2. LockType' /\ RefsBefore(t, bucket_refs'[t]) /\ MemoryType' /\ scenario' = scenario
      BY <1>1, <2>1, <2>3, <3>1, RefsReleased
    <3> QED BY <1>0, <2>1, <2>3, <3>2, UpgradeFailedControl
  <2> QED BY <1>6, <2>2, <2>3 DEF UpgradeCheck
<1> QED BY <1>4, <1>5, <1>6 DEF upgrade_bucket_lock

-----------------------------------------------------------------------------
(* relocate_entry. *)

(* A change of the locals of relocate_entry keeps their types.             *)
LEMMA RelTypeKept ==
  ASSUME TypeOK, NEW t \in Threads, NEW x \in Relocations, rel' = [rel EXCEPT ![t] = x]
  PROVE  RelType' /\ rel'[t] = x
BY TypeParts DEF RelType

(* relocate_entry starts with the primary bucket in its queue.             *)
LEMMA RelocateControl ==
  ASSUME TypeOK, NEW t \in Threads, Control(t), Relocate(t)
  PROVE  TypeOK' /\ Control(t)'
<1>1. /\ pc[t] = "relocate" /\ pc' = [pc EXCEPT ![t] = "search"]
      /\ UNCHANGED <<memory, handles, locks, op, add, write, find, up, live>>
  BY DEF Relocate
<1>2. PICK p \in Cells \cup {None} :
        rel' = [rel EXCEPT ![t] =
                 [immovable |-> p, queue |-> <<[bucket |-> Primary(t), parent |-> 0, child |-> 0]>>,
                  pos |-> 1, i |-> 0, child_bucket |-> 0, free |-> None,
                  locked |-> 0, walk |-> 0, child |-> 0, ok |-> FALSE]]
  BY DEF Relocate
<1> DEFINE first == [bucket |-> Primary(t), parent |-> 0, child |-> 0]
           x == [immovable |-> p, queue |-> <<first>>,
                  pos |-> 1, i |-> 0, child_bucket |-> 0, free |-> None,
                  locked |-> 0, walk |-> 0, child |-> 0, ok |-> FALSE]
<1>3. t \in Writers /\ Primary(t) \in Buckets /\ Primary(t)' = Primary(t) /\ Secondary(t)' = Secondary(t)
  BY <1>1, NodeTypes, PrimaryUnchanged
<1>4. 0 \in CellNumbers /\ 0 \in Buckets
  BY CellsAssumption, NumBucketsAssumption DEF CellNumbers, Buckets
<1>5. first \in QueueElements
  BY <1>3, <1>4 DEF QueueElements
<1>6. <<first>> \in Seq(QueueElements) /\ Len(<<first>>) = 1 /\ <<first>>[1] = first
  BY <1>5
<1>7. x \in Relocations
  <2> HIDE DEF first
  <2> QED BY <1>4, <1>6 DEF Relocations
<1>8. RelType' /\ rel'[t] = x
  BY <1>2, <1>7, RelTypeKept
<1>9. PcType' /\ pc'[t] = "search"
  BY <1>1, PcTypeKept DEF Labels
<1>10. TypeOK'
  BY <1>1, <1>8, <1>9, TypePartsNext, TypesKept
<1>11. /\ rel'[t].queue = <<first>> /\ rel'[t].pos = 1 /\ rel'[t].locked = 0 /\ rel'[t].ok = FALSE
  BY <1>8
<1>12. Positions(t)' = {1} /\ BucketAt(t, 1)' = Primary(t)
  BY <1>6, <1>11 DEF Positions, BucketAt
<1> HIDE DEF x, first
<1>13. CallInv(t)' /\ InsertInv(t)'
  BY <1>1, <1>3, <1>9, ThreadsAssumption DEF Control, CallInv, InsertInv
<1>14. AddInv(t)'
  BY <1>1, <1>3, <1>9 DEF Control, AddInv
<1>15. QueueInv(t)'
  <2>1. rl'[t][1] = Primary(t)
    BY <1>1, HandleTypes DEF Control, AddInv
  <2> QED BY <1>3, <1>6, <1>7, <1>8, <1>9, <1>11, <1>12, <2>1, QueueSizeAssumption DEF QueueInv
<1>16. RefsInv(t)' /\ PathInv(t)'
  BY <1>1, <1>3, <1>9, <1>11 DEF Control, RefsInv, PathInv
<1> QED BY <1>10, <1>13, <1>14, <1>15, <1>16 DEF Control

(* The queue of a search that goes on.                                     *)
LEMMA SearchingControl ==
  ASSUME TypeOK, NEW t \in Threads, Control(t), pc[t] \in SearchPhases,
         pc'[t] \in SearchPhases, op'[t] = op[t], add'[t] = add[t], scenario' = scenario,
         bucket_refs'[t] = bucket_refs[t],
         \A h \in {SECONDARY} \cup Positions(t) : rl'[t][h] = rl[t][h],
         rel'[t] \in Relocations, rel'[t].locked = rel[t].locked, rel'[t].ok = rel[t].ok,
         rel'[t].queue = rel[t].queue,
         rel'[t].pos \in Positions(t) \/ (pc'[t] = "search" /\ rel'[t].pos = Len(rel[t].queue) + 1),
         pc'[t] # "search" => ~Queued(t, rel'[t].child_bucket),
         pc'[t] = "search_scan" => rl'[t][FREE] = rel'[t].child_bucket
  PROVE  Control(t)'
<1>1. t \in Writers /\ Primary(t)' = Primary(t) /\ Secondary(t)' = Secondary(t)
  BY NodeTypes, PrimaryUnchanged
<1>2. /\ Positions(t)' = Positions(t)
      /\ \A j : BucketAt(t, j)' = BucketAt(t, j) /\ ParentAt(t, j)' = ParentAt(t, j)
      /\ \A b : Queued(t, b)' = Queued(t, b)
  BY Zenon DEF Positions, BucketAt, ParentAt, Queued
<1>3. 1 \in Positions(t) /\ PRIMARY = 1
  BY QueueFacts, HandleTypes
<1>4. CallInv(t)' /\ InsertInv(t)'
  BY <1>1, ThreadsAssumption DEF Control, CallInv, InsertInv
<1>5. AddInv(t)'
  BY <1>1, <1>3 DEF Control, AddInv
<1>6. QueueInv(t)'
  <2>1. /\ Len(rel[t].queue) \in 1..RELOCATE_QUEUE_SIZE
        /\ BucketAt(t, 1) = Primary(t)
        /\ \A j \in Positions(t) \ {1} : ParentAt(t, j) \in 1..(j - 1)
        /\ \A j, k \in Positions(t) : BucketAt(t, j) = BucketAt(t, k) => j = k
        /\ \A j \in Positions(t) : rl[t][j] = BucketAt(t, j)
        /\ ~rel[t].ok
    BY DEF Control, QueueInv
  <2> QED BY <1>1, <1>2, <2>1 DEF QueueInv
<1>7. RefsInv(t)' /\ PathInv(t)'
  BY <1>1 DEF Control, RefsInv, PathInv
<1> QED BY <1>4, <1>5, <1>6, <1>7 DEF Control

(* The search goes on with the next cell or bucket.                        *)
LEMMA SearchNextFacts ==
  ASSUME TypeOK, NEW t \in Threads, NEW r \in Relocations, SearchNext(t, r)
  PROVE  /\ RelType' /\ rel'[t] \in Relocations /\ rel'[t].locked = r.locked /\ rel'[t].ok = r.ok
         /\ rel'[t].queue = r.queue /\ rel'[t].child_bucket = r.child_bucket
         /\ rel'[t].pos \in {r.pos, r.pos + 1}
<1>1. PICK i \in CellNumbers, pos \in {r.pos, r.pos + 1} :
        rel' = [rel EXCEPT ![t] = [r EXCEPT !.i = i, !.pos = pos]]
  <2>1. r.i \in CellNumbers /\ 0 \in CellNumbers /\ (r.i + 1 # CUCKOO_BUCKET_SIZE => r.i + 1 \in CellNumbers)
    BY CellsAssumption DEF Relocations, CellNumbers
  <2> QED BY <2>1 DEF SearchNext
<1>2. pos \in Nat
  BY DEF Relocations
<1>3. [r EXCEPT !.i = i, !.pos = pos] \in Relocations
  BY <1>2 DEF Relocations
<1>4. RelType' /\ rel'[t] = [r EXCEPT !.i = i, !.pos = pos]
  BY <1>1, <1>3, RelTypeKept
<1> QED BY <1>3, <1>4 DEF Relocations

(* Only buckets that are not in the queue yet are looked at.               *)
LEMMA SearchExamineControl ==
  ASSUME TypeOK, NEW t \in Threads, Control(t), SearchExamine(t)
  PROVE  TypeOK' /\ Control(t)'
<1> DEFINE p == SearchCell(t)
           b == alternate_bucket(Seen(t, p), BucketOf(p))
<1>1. /\ pc[t] = "search" /\ rel[t].pos <= Len(rel[t].queue)
      /\ UNCHANGED <<memory, handles, locks, op, add, write, find, up, live>>
  BY DEF SearchExamine
<1>2. rel[t].pos \in Positions(t) /\ rel[t].pos \in Nat /\ Len(rel[t].queue) \in Nat /\ rel[t] \in Relocations
  <2>1. rel[t].pos \in Positions(t) \/ rel[t].pos = Len(rel[t].queue) + 1
    BY <1>1 DEF Control, QueueInv
  <2>2. Len(rel[t].queue) \in Nat /\ rel[t].pos \in Nat /\ rel[t] \in Relocations
    BY <1>1, QueueFacts
  <2> QED BY <1>1, <2>1, <2>2
<1>3. p \in Cells /\ b \in Buckets
  <2>1. p \in Cells
    BY <1>1, <1>2, QueueFacts DEF SearchCell, BucketAt, Cells
  <2> QED BY <2>1, SeenType, AlternateType, EntryTypes
<1>4. CASE SearchNext(t, rel[t]) /\ UNCHANGED pc
  <2>1. /\ RelType' /\ rel'[t] \in Relocations /\ rel'[t].locked = rel[t].locked /\ rel'[t].ok = rel[t].ok
        /\ rel'[t].queue = rel[t].queue /\ rel'[t].pos \in {rel[t].pos, rel[t].pos + 1}
    BY <1>2, <1>4, SearchNextFacts
  <2>2. TypeOK'
    <3>1. PcType'
      BY <1>4, TypeParts DEF PcType
    <3> QED BY <1>1, <2>1, <3>1, TypePartsNext, TypesKept
  <2>3. rel'[t].pos \in Positions(t) \/ rel'[t].pos = Len(rel[t].queue) + 1
    BY <1>2, <2>1 DEF Positions
  <2> QED BY <1>1, <1>4, <2>1, <2>2, <2>3, SearchingControl
<1>5. CASE ~Queued(t, b) /\ rel' = [rel EXCEPT ![t].child_bucket = b] /\ pc' = [pc EXCEPT ![t] = "search_lock"]
  <2> HIDE DEF b, p
  <2>1. [rel[t] EXCEPT !.child_bucket = b] \in Relocations
    BY <1>2, <1>3 DEF Relocations
  <2>2. RelType' /\ rel'[t] = [rel[t] EXCEPT !.child_bucket = b]
    <3>1. rel' = [rel EXCEPT ![t] = [rel[t] EXCEPT !.child_bucket = b]]
      BY <1>5
    <3> QED BY <2>1, <3>1, RelTypeKept
  <2>3. PcType' /\ pc'[t] = "search_lock"
    BY <1>5, PcTypeKept DEF Labels
  <2>4. TypeOK'
    BY <1>1, <2>2, <2>3, TypePartsNext, TypesKept
  <2>5. /\ rel'[t] \in Relocations /\ rel'[t].locked = rel[t].locked /\ rel'[t].ok = rel[t].ok
        /\ rel'[t].queue = rel[t].queue /\ rel'[t].pos = rel[t].pos /\ rel'[t].child_bucket = b
    BY <1>2, <2>1, <2>2 DEF Relocations
  <2> QED BY <1>1, <1>2, <1>5, <2>3, <2>4, <2>5, SearchingControl
<1> QED BY <1>4, <1>5 DEF SearchExamine

(* The counter of such a bucket is read before it is scanned.              *)
LEMMA SearchReadLockControl ==
  ASSUME TypeOK, NEW t \in Threads, Control(t), SearchReadLock(t)
  PROVE  TypeOK' /\ Control(t)'
<1>1. /\ pc[t] = "search_lock" /\ ReadCounter(t, FREE, rel[t].child_bucket)
      /\ pc' = [pc EXCEPT ![t] = "search_scan"]
      /\ UNCHANGED <<memory, locks, op, add, rel, write, find, up, live>>
  BY DEF SearchReadLock
<1>2. /\ rel[t] \in Relocations /\ rel[t].child_bucket \in Buckets /\ Positions(t) \subseteq Nat
      /\ rel[t].pos \in Positions(t) /\ ~Queued(t, rel[t].child_bucket)
  BY <1>1, QueueFacts DEF Control, QueueInv, Positions
<1>3. MemoryType' /\ HandleType' /\ rl'[t] = [rl[t] EXCEPT ![FREE] = rel[t].child_bucket]
  BY <1>1, <1>2, ReadCounterType, HandleTypes
<1>4. PcType' /\ pc'[t] = "search_scan"
  BY <1>1, PcTypeKept DEF Labels
<1>5. TypeOK'
  BY <1>1, <1>3, <1>4, TypePartsNext, TypesKept
<1>6. rl'[t][FREE] = rel[t].child_bucket /\ \A h \in {SECONDARY} \cup Positions(t) : rl'[t][h] = rl[t][h]
  <2>1. rl[t] \in [Handles -> Buckets \cup {None}]
    BY TypeParts DEF HandleType
  <2> QED BY <1>1, <1>2, <1>3, <2>1, HandleTypes, QueueFacts
<1> QED BY <1>1, <1>2, <1>4, <1>5, <1>6, SearchingControl

(* A full bucket is queued, which keeps the queue a tree of different      *)
(* buckets; a free cell ends the search.                                   *)
LEMMA SearchScanControl ==
  ASSUME TypeOK, NEW t \in Threads, Control(t), SearchScan(t)
  PROVE  TypeOK' /\ Control(t)'
<1> DEFINE p == find_free_cell_in_bucket(t, rel[t].child_bucket)
           next == [bucket |-> rel[t].child_bucket, parent |-> rel[t].pos, child |-> rel[t].i]
           queued == [rel[t] EXCEPT !.queue = Append(rel[t].queue, next)]
<1>1. pc[t] = "search_scan" /\ UNCHANGED <<memory, locks, op, add, write, find, live>>
  BY DEF SearchScan
<1>2. /\ rel[t] \in Relocations /\ rel[t].child_bucket \in Buckets /\ rel[t].i \in CellNumbers
      /\ rel[t].queue \in Seq(QueueElements) /\ Len(rel[t].queue) \in Nat /\ 1 \in Positions(t)
      /\ rel[t].pos \in Positions(t) /\ rel[t].pos \in Nat /\ ~Queued(t, rel[t].child_bucket)
      /\ rl[t][FREE] = rel[t].child_bucket /\ rel[t].locked = 0 /\ ~rel[t].ok
  BY <1>1, QueueFacts DEF Control, QueueInv, RefsInv
<1>11. PICK n \in Nat : n = Len(rel[t].queue) + 1
  BY <1>2
<1>3. t \in Writers /\ Primary(t) \in Buckets /\ Primary(t)' = Primary(t) /\ Secondary(t)' = Secondary(t)
  BY <1>1, NodeTypes, PrimaryUnchanged
<1>4. p = None \/ (p \in Cells /\ BucketOf(p) = rel[t].child_bucket)
  BY <1>2, FreeCellType
<1>5. CASE /\ p = None /\ n <= RELOCATE_QUEUE_SIZE
           /\ SearchNext(t, queued)
           /\ rl' = [rl EXCEPT ![t][n] = rel[t].child_bucket]
           /\ stale' = [stale EXCEPT ![t] = IF Fresh(t, FREE) THEN @ \ {n} ELSE @ \cup {n}]
           /\ Goto(t, "search")
           /\ UNCHANGED up
  <2>1. next \in QueueElements
    BY <1>2 DEF QueueElements
  <2>2. Append(rel[t].queue, next) \in Seq(QueueElements)
    BY <1>2, <2>1
  <2>3. queued \in Relocations
    BY <1>2, <2>2 DEF Relocations
  <2>4. queued.queue = Append(rel[t].queue, next) /\ queued.locked = 0 /\ ~queued.ok /\ queued.pos = rel[t].pos
    BY <1>2 DEF Relocations
  <2>5. n \in Handles /\ n \in Nat /\ n >= 2 /\ n \notin Positions(t)
    <3>1. Len(rel[t].queue) >= 1
      BY <1>2 DEF Positions
    <3> QED BY <1>2, <1>11, <1>5, <3>1, HandleTypes, QueueSizeAssumption DEF Positions
  <2> HIDE DEF queued, next
  <2>6. /\ RelType' /\ rel'[t] \in Relocations /\ rel'[t].locked = 0 /\ ~rel'[t].ok
        /\ rel'[t].queue = Append(rel[t].queue, next)
        /\ rel'[t].pos \in {rel[t].pos, rel[t].pos + 1}
    BY <1>5, <2>3, <2>4, SearchNextFacts
  <2>7. PcType' /\ pc'[t] = "search"
    BY <1>5, PcTypeKept DEF Labels
  <2>8. rl \in [Threads -> [Handles -> Buckets \cup {None}]] /\ stale \in [Threads -> SUBSET Handles]
    BY TypeParts DEF HandleType, MemoryType
  <2>9. HandleType'
    BY <1>2, <1>5, <2>5, <2>8, TypeParts DEF HandleType
  <2>10. MemoryType'
    <3>1. stale' \in [Threads -> SUBSET Handles]
      BY <1>5, <2>5, <2>8
    <3> QED BY <1>1, <3>1, TypeParts DEF MemoryType
  <2>11. TypeOK'
    BY <1>1, <2>6, <2>7, <2>9, <2>10, TypePartsNext, TypesKept
  <2>12. rl'[t] = [rl[t] EXCEPT ![n] = rel[t].child_bucket] /\ rl[t] \in [Handles -> Buckets \cup {None}]
    BY <1>5, <2>5, <2>8
  <2>13. /\ Len(rel'[t].queue) = n
         /\ rel'[t].queue[n] = next
         /\ \A j \in Positions(t) : rel'[t].queue[j] = rel[t].queue[j]
    BY <1>2, <1>11, <2>1, <2>6 DEF Positions
  <2>14. /\ Positions(t)' = Positions(t) \cup {n}
         /\ BucketAt(t, n)' = rel[t].child_bucket /\ ParentAt(t, n)' = rel[t].pos
         /\ \A j \in Positions(t) : BucketAt(t, j)' = BucketAt(t, j) /\ ParentAt(t, j)' = ParentAt(t, j)
    <3>1. Positions(t)' = Positions(t) \cup {n}
      BY <1>2, <1>11, <2>13 DEF Positions
    <3> QED BY <2>13, <3>1 DEF BucketAt, ParentAt, next
  <2>15. CallInv(t)' /\ InsertInv(t)'
    BY <1>1, <1>3, <2>7, ThreadsAssumption DEF Control, CallInv, InsertInv
  <2>16. AddInv(t)'
    <3>1. rl'[t][PRIMARY] = rl[t][PRIMARY] /\ rl'[t][SECONDARY] = rl[t][SECONDARY]
      BY <2>5, <2>12, HandleTypes
    <3> QED BY <1>1, <1>3, <2>7, <3>1 DEF Control, AddInv
  <2>17. QueueInv(t)'
    <3>1. /\ \A j \in Positions(t) \ {1} : ParentAt(t, j) \in 1..(j - 1)
          /\ \A j, k \in Positions(t) : BucketAt(t, j) = BucketAt(t, k) => j = k
          /\ \A j \in Positions(t) : rl[t][j] = BucketAt(t, j)
          /\ BucketAt(t, 1) = Primary(t)
          /\ \A j \in Positions(t) : Queued(t, BucketAt(t, j))
      BY <1>1, QueueFacts
    <3>2. Len(rel'[t].queue) \in 1..RELOCATE_QUEUE_SIZE
      BY <1>5, <2>5, <2>13
    <3>3. \A j \in Positions(t)' \ {1} : ParentAt(t, j)' \in 1..(j - 1)
      <4>1. rel[t].pos \in 1..(n - 1)
        BY <1>2, <1>11 DEF Positions
      <4> QED BY <2>14, <3>1, <4>1
    <3>4. \A j, k \in Positions(t)' : BucketAt(t, j)' = BucketAt(t, k)' => j = k
      BY <1>2, <2>14, <3>1
    <3>5. \A j \in Positions(t)' : rl'[t][j] = BucketAt(t, j)'
      <4>1. \A j \in Positions(t) : j \in Handles /\ j # n
        BY <1>1, <2>5, QueueFacts
      <4>2. rl'[t][n] = rel[t].child_bucket
        BY <2>5, <2>12
      <4>3. \A j \in Positions(t) : rl'[t][j] = rl[t][j]
        BY <2>12, <4>1
      <4> QED BY <2>14, <3>1, <4>2, <4>3
    <3>6. rel'[t].pos \in Positions(t)'
      BY <1>2, <1>11, <2>6, <2>14 DEF Positions
    <3>7. BucketAt(t, 1)' = Primary(t)'
      BY <1>2, <1>3, <2>14, <3>1
    <3> QED BY <2>6, <2>7, <3>2, <3>3, <3>4, <3>5, <3>6, <3>7 DEF QueueInv
  <2>18. RefsInv(t)' /\ PathInv(t)'
    BY <1>1, <1>3, <2>6, <2>7 DEF Control, RefsInv, PathInv
  <2> QED BY <2>11, <2>15, <2>16, <2>17, <2>18 DEF Control
<1>6. CASE SearchNext(t, rel[t]) /\ Goto(t, "search") /\ UNCHANGED <<handles, up>>
  <2>1. /\ RelType' /\ rel'[t] \in Relocations /\ rel'[t].locked = rel[t].locked /\ rel'[t].ok = rel[t].ok
        /\ rel'[t].queue = rel[t].queue /\ rel'[t].pos \in {rel[t].pos, rel[t].pos + 1}
    BY <1>2, <1>6, SearchNextFacts
  <2>2. PcType' /\ pc'[t] = "search"
    BY <1>6, PcTypeKept DEF Labels
  <2>3. TypeOK'
    BY <1>1, <1>6, <2>1, <2>2, TypePartsNext, TypesKept
  <2>4. rel'[t].pos \in Positions(t) \/ rel'[t].pos = Len(rel[t].queue) + 1
    BY <1>2, <2>1 DEF Positions
  <2> QED BY <1>1, <1>6, <2>1, <2>2, <2>3, <2>4, SearchingControl
<1>7. CASE /\ p # None
           /\ rel' = [rel EXCEPT ![t].free = p, ![t].child = rel[t].i]
           /\ CallUpgrade(t, FREE)
           /\ UNCHANGED handles
  <2>1. p \in Cells
    BY <1>4, <1>7
  <2> HIDE DEF p
  <2>2. [rel[t] EXCEPT !.free = p, !.child = rel[t].i] \in Relocations
    BY <1>2, <2>1 DEF Relocations
  <2>3. RelType' /\ rel'[t] = [rel[t] EXCEPT !.free = p, !.child = rel[t].i]
    <3>1. rel' = [rel EXCEPT ![t] = [rel[t] EXCEPT !.free = p, !.child = rel[t].i]]
      BY <1>7
    <3> QED BY <2>2, <3>1, RelTypeKept
  <2>4. PcType' /\ pc'[t] = "upgrade"
    BY <1>7, PcTypeKept DEF Labels, CallUpgrade
  <2>5. HandleType' /\ up'[t] = FREE
    BY <1>7, TypeParts, HandleTypes DEF HandleType, CallUpgrade
  <2>6. TypeOK'
    BY <1>1, <1>7, <2>3, <2>4, <2>5, TypePartsNext, TypesKept
  <2>7. /\ rel'[t] \in Relocations /\ rel'[t].locked = 0 /\ ~rel'[t].ok
        /\ rel'[t].queue = rel[t].queue /\ rel'[t].pos = rel[t].pos
        /\ rel'[t].child_bucket = rel[t].child_bucket /\ rel'[t].free = p
    BY <1>2, <2>2, <2>3 DEF Relocations
  <2>8. CallInv(t)' /\ InsertInv(t)'
    BY <1>1, <1>3, <2>4, <2>5, ThreadsAssumption DEF Control, CallInv, InsertInv
  <2>9. AddInv(t)'
    BY <1>1, <1>3, <1>7, <2>4, <2>5, HandleTypes DEF Control, AddInv
  <2>10. QueueInv(t)'
    <3>1. /\ Positions(t)' = Positions(t)
          /\ \A j : BucketAt(t, j)' = BucketAt(t, j) /\ ParentAt(t, j)' = ParentAt(t, j)
          /\ \A b : Queued(t, b)' = Queued(t, b)
      BY <1>1, <2>7, PathKept
    <3>2. /\ Len(rel[t].queue) \in 1..RELOCATE_QUEUE_SIZE
          /\ BucketAt(t, 1) = Primary(t)
          /\ \A j \in Positions(t) \ {1} : ParentAt(t, j) \in 1..(j - 1)
          /\ \A j, k \in Positions(t) : BucketAt(t, j) = BucketAt(t, k) => j = k
          /\ \A j \in Positions(t) : rl[t][j] = BucketAt(t, j)
      BY <1>1, QueueFacts
    <3> QED BY <1>2, <1>3, <1>7, <2>1, <2>4, <2>5, <2>7, <3>1, <3>2, HandleTypes DEF QueueInv
  <2>11. RefsInv(t)' /\ PathInv(t)'
    <3>1. RefsOn(bucket_refs'[t], {Primary(t)'})
      BY <1>1, <1>3 DEF Control, RefsInv
    <3>2. RefsBefore(t, bucket_refs[t])'
      BY <2>4, <2>5, <2>7, <3>1, HandleTypes DEF RefsBefore
    <3> QED BY <2>4, <3>2 DEF RefsInv, PathInv
  <2> QED BY <2>6, <2>8, <2>9, <2>10, <2>11 DEF Control
<1> QED BY <1>11, <1>5, <1>6, <1>7 DEF SearchScan

(* The bucket of add_entry is released, and nothing else is held.          *)
LEMMA PrimaryReleased ==
  ASSUME TypeOK, NEW t \in Threads, Control(t), Adding(t), RefsOn(bucket_refs[t], {Primary(t)}),
         release_bucket_lock(t, Primary(t)), NEW label \in {"undo", "release"},
         pc' = [pc EXCEPT ![t] = label],
         UNCHANGED <<rl, entry_locks, op, add, rel, write, find, up, live>>
  PROVE  TypeOK' /\ Control(t)'
<1> DEFINE b == Primary(t)
<1>1. t \in Writers /\ b \in Buckets /\ release_bucket_lock(t, b)
  BY NodeTypes
<1>2. bucket_refs[t][b] = 1 /\ RefsOn([bucket_refs[t] EXCEPT ![b] = bucket_refs[t][b] - 1], {b} \ {b})
  BY <1>1, RefRemoved
<1> HIDE DEF b
<1>3. {b} \ {b} = {}
  OBVIOUS
<1>4. LockType' /\ MemoryType' /\ scenario' = scenario /\ RefsOn(bucket_refs'[t], {})
  <2>1. /\ LockType' /\ MemoryType' /\ scenario' = scenario
        /\ bucket_refs'[t] = [bucket_refs[t] EXCEPT ![b] = bucket_refs[t][b] - 1]
    BY <1>1, <1>2, RefsReleased
  <2> QED BY <1>2, <1>3, <2>1
<1>5. PcType' /\ pc'[t] \in {"undo", "release"}
  BY PcTypeKept DEF Labels
<1>6. TypeOK'
  BY <1>4, <1>5, TypePartsNext, TypesKept
<1>7. CallInv(t)' /\ InsertInv(t)'
  <2>1. Phase(t) # "idle"
    OBVIOUS
  <2> QED BY <1>1, <1>4, <1>5, <2>1, ThreadsAssumption DEF Control, CallInv, InsertInv
<1>8. AddInv(t)' /\ QueueInv(t)' /\ RefsInv(t)' /\ PathInv(t)'
  BY <1>4, <1>5 DEF AddInv, QueueInv, RefsInv, PathInv
<1> QED BY <1>6, <1>7, <1>8 DEF Control

(* Both ways to give up release the primary bucket, which is all there is. *)
LEMMA RelocationFails ==
  ASSUME TypeOK, NEW t \in Threads, Control(t), SearchFailed(t) \/ RelocateFailed(t)
  PROVE  TypeOK' /\ Control(t)'
<1>1. RefsOn(bucket_refs[t], {Primary(t)}) /\ Adding(t)
  BY DEF SearchFailed, RelocateFailed, Control, RefsInv
<1> QED BY <1>1, PrimaryReleased DEF SearchFailed, RelocateFailed

(* The cell to be moved is in the bucket walk stands at.                   *)
LEMMA OccupiedType ==
  ASSUME TypeOK, NEW t \in Threads, Control(t), Phase(t) \in MovePhases
  PROVE  /\ Occupied(t) \in Cells /\ BucketOf(Occupied(t)) = BucketAt(t, rel[t].walk)
         /\ rel[t].walk \in Positions(t) /\ rel[t].free \in Cells
<1>1. rel[t].walk \in Positions(t) /\ rel[t].free \in Cells
  BY RelLocals
<1>2. BucketAt(t, rel[t].walk) \in Buckets /\ rel[t].child \in CellNumbers
  BY <1>1, QueueFacts DEF Relocations
<1> QED BY <1>1, <1>2 DEF Occupied, BucketAt, Cells, BucketOf

(* Moves along the path leave references and queue alone.                  *)
LEMMA MovingControl ==
  ASSUME TypeOK, NEW t \in Threads, Control(t), Phase(t) \in MovePhases, Phase(t)' \in MovePhases,
         op'[t] = op[t], add'[t] = add[t], rl'[t] = rl[t], scenario' = scenario,
         bucket_refs'[t] = bucket_refs[t], rel'[t] \in Relocations,
         rel'[t].queue = rel[t].queue, rel'[t].pos = rel[t].pos, rel'[t].locked = rel[t].locked,
         rel'[t].child_bucket = rel[t].child_bucket, rel'[t].free \in Cells, rel'[t].ok = rel[t].ok,
         rel'[t].walk \in Locked(t, bucket_refs[t]) \cup {1},
         pc'[t] \in WritePcs => write'[t].cell \in Cells /\ write'[t].then = "moved",
         pc'[t] \in {"move", "moved"} \cup WritePcs
  PROVE  Control(t)'
<1>1. t \in Writers /\ Primary(t)' = Primary(t) /\ Secondary(t)' = Secondary(t)
  BY NodeTypes, PrimaryUnchanged
<1>2. CallInv(t)' /\ InsertInv(t)'
  BY <1>1, ThreadsAssumption DEF Control, CallInv, InsertInv
<1>3. AddInv(t)'
  BY <1>1 DEF Control, AddInv
<1>4. Locked(t, bucket_refs[t]) \cup {1} \subseteq Positions(t)
  BY LockedIsFinite, QueueFacts
<1>5. ~rel[t].ok
  BY RelLocals
<1>6. QueueInv(t)'
  BY <1>4, <1>5, QueueKept
<1>7. /\ \A j : ParentAt(t, j)' = ParentAt(t, j)
      /\ \A r : Locked(t, r)' = Locked(t, r) /\ PathRefs(t, r)' = PathRefs(t, r)
  BY PathKept
<1>8. RefsInv(t)' /\ PathInv(t)'
  BY <1>7 DEF Control, RefsInv, PathInv
<1> QED BY <1>2, <1>3, <1>6, <1>8 DEF Control

(* An entry is copied towards the free cell.                               *)
LEMMA MoveEntryControl ==
  ASSUME TypeOK, NEW t \in Threads, Control(t), MoveEntry(t)
  PROVE  TypeOK' /\ Control(t)'
<1> DEFINE e == [Seen(t, Occupied(t)) EXCEPT !.secondary = ~@]
<1>1. /\ pc[t] = "move" /\ pc' = [pc EXCEPT ![t] = "write1"]
      /\ write' = [write EXCEPT ![t] = [cell |-> rel[t].free, entry |-> e, then |-> "moved"]]
      /\ UNCHANGED <<memory, handles, locks, op, add, rel, find, up, live>>
  BY DEF MoveEntry, CallWrite
<1>2. rel[t].free \in Cells /\ e \in Entries
  <2>1. Seen(t, Occupied(t)) \in Entries /\ rel[t].free \in Cells
    BY <1>1, OccupiedType, SeenType
  <2> QED BY <2>1 DEF Entries
<1> HIDE DEF e
<1>3. PcType' /\ pc'[t] = "write1"
  BY <1>1, PcTypeKept DEF Labels
<1>4. WriteType' /\ write'[t] = [cell |-> rel[t].free, entry |-> e, then |-> "moved"]
  BY <1>1, <1>2, TypeParts DEF WriteType, Labels
<1>5. TypeOK'
  BY <1>1, <1>3, <1>4, TypePartsNext, TypesKept
<1>6. rel[t].walk \in Locked(t, bucket_refs[t]) \cup {1} /\ rel[t] \in Relocations
  BY <1>1, QueueFacts DEF Control, PathInv
<1> QED BY <1>1, <1>2, <1>3, <1>4, <1>5, <1>6, MovingControl

(* The walk goes to the parent, which is locked, or ends at the primary    *)
(* bucket with a cell for add_entry.                                       *)
LEMMA MoveNextControl ==
  ASSUME TypeOK, NEW t \in Threads, Control(t), MoveNext(t)
  PROVE  TypeOK' /\ Control(t)'
<1> DEFINE r == bucket_refs[t]
           cell == Occupied(t)
<1>1. /\ pc[t] = "moved" /\ move_entry_lock(t, rel[t].free, cell)
      /\ UNCHANGED <<memory, handles, bucket_refs, op, find, up, live>>
  BY DEF MoveNext
<1>2. /\ cell \in Cells /\ BucketOf(cell) = BucketAt(t, rel[t].walk) /\ rel[t].free \in Cells
      /\ rel[t].walk \in Positions(t) /\ rel[t] \in Relocations
  BY <1>1, OccupiedType, QueueFacts
<1>3. LockType'
  <2>1. entry_locks \in [Threads -> SUBSET Cells] /\ bucket_refs \in [Threads -> [Buckets -> Nat]]
    BY TypeParts DEF LockType
  <2> QED BY <1>1, <1>2, <2>1 DEF LockType, move_entry_lock
<1>4. /\ PathRefs(t, r) /\ r[rel[t].child_bucket] = 1
      /\ rel[t].locked = Cardinality(Locked(t, r)) + 1
      /\ rel[t].pos \in Locked(t, r) \cup {1} /\ rel[t].walk \in Locked(t, r) \cup {1}
      /\ \A j \in Locked(t, r) : ParentAt(t, j) \in Locked(t, r) \cup {1}
  BY <1>1 DEF Control, PathInv
<1>5. t \in Writers /\ Primary(t)' = Primary(t) /\ Secondary(t)' = Secondary(t)
  BY <1>1, NodeTypes, PrimaryUnchanged
<1>6. CASE rel[t].walk = 1
  <2>1. /\ write' = [write EXCEPT ![t] = [cell |-> cell, entry |-> Unused, then |-> "release_free"]]
        /\ pc' = [pc EXCEPT ![t] = "write1"]
        /\ add' = [add EXCEPT ![t].result = cell]
        /\ rel' = [rel EXCEPT ![t].ok = TRUE]
    BY <1>6 DEF MoveNext, CallWrite
  <2> HIDE DEF cell, r
  <2>2. PcType' /\ pc'[t] = "write1"
    BY <2>1, PcTypeKept DEF Labels
  <2>3. WriteType' /\ write'[t] = [cell |-> cell, entry |-> Unused, then |-> "release_free"]
    BY <1>2, <2>1, TypeParts, EntryTypes DEF WriteType, Labels
  <2>4. AddType' /\ add'[t].result = cell /\ add'[t].handle = add[t].handle
    BY <1>2, <2>1, TypeParts DEF AddType
  <2>5. RelType' /\ rel'[t] = [rel[t] EXCEPT !.ok = TRUE]
    <3>1. rel' = [rel EXCEPT ![t] = [rel[t] EXCEPT !.ok = TRUE]]
      BY <2>1
    <3>2. [rel[t] EXCEPT !.ok = TRUE] \in Relocations
      BY <1>2 DEF Relocations
    <3> QED BY <3>1, <3>2, RelTypeKept
  <2>6. /\ rel'[t] \in Relocations /\ rel'[t].queue = rel[t].queue /\ rel'[t].pos = rel[t].pos
        /\ rel'[t].locked = rel[t].locked /\ rel'[t].child_bucket = rel[t].child_bucket
        /\ rel'[t].free = rel[t].free
    BY <1>2, <2>5 DEF Relocations
  <2>7. TypeOK'
    BY <1>1, <1>3, <2>2, <2>3, <2>4, <2>5, TypePartsNext, TypesKept
  <2>8. BucketOf(cell) = Primary(t)
    BY <1>1, <1>2, <1>6, QueueFacts
  <2>9. CallInv(t)' /\ InsertInv(t)'
    BY <1>1, <1>2, <1>5, <2>2, <2>3, ThreadsAssumption DEF Control, CallInv, InsertInv
  <2>10. AddInv(t)'
    BY <1>1, <1>5, <2>2, <2>3, <2>4 DEF Control, AddInv
  <2>11. QueueInv(t)'
    BY <1>1, <1>2, <2>2, <2>3, <2>4, <2>6, <2>8, QueueKept
  <2>12. \A q : Locked(t, q)' = Locked(t, q) /\ PathRefs(t, q)' = PathRefs(t, q)
    BY <1>1, <2>6, PathKept
  <2>13. Locked(t, r) # {} => rel[t].pos \in Locked(t, r)
    <3>1. SUFFICES ASSUME NEW j \in Locked(t, r), rel[t].pos = 1 PROVE FALSE
      BY <1>4
    <3>2. j <= 1 /\ j \in Positions(t) \ {1}
      BY <1>4, <3>1 DEF PathRefs, Locked
    <3> QED BY <1>1, <3>2, QueueFacts DEF Positions
  <2>14. RefsInv(t)' /\ PathInv(t)'
    BY <1>1, <1>4, <2>2, <2>3, <2>6, <2>12, <2>13 DEF RefsInv, PathInv, r
  <2> QED BY <2>7, <2>9, <2>10, <2>11, <2>14 DEF Control
<1>7. CASE rel[t].walk # 1
  <2> DEFINE q == rel[t].queue[rel[t].walk]
             x == [rel[t] EXCEPT !.free = cell, !.child = q.child, !.walk = q.parent]
  <2>1. /\ rel' = [rel EXCEPT ![t].free = cell, ![t].child = q.child, ![t].walk = q.parent]
        /\ pc' = [pc EXCEPT ![t] = "move"] /\ UNCHANGED <<write, add>>
    BY <1>7 DEF MoveNext
  <2>2. q \in QueueElements
    BY <1>1, <1>2, QueueFacts DEF Positions
  <2>3. q.child \in CellNumbers /\ q.parent \in Nat /\ q.parent = ParentAt(t, rel[t].walk)
    BY <2>2 DEF QueueElements, ParentAt
  <2> HIDE DEF cell, q, r
  <2>4. x \in Relocations
    BY <1>2, <2>3 DEF Relocations
  <2>5. RelType' /\ rel'[t] = x
    <3>1. rel' = [rel EXCEPT ![t] = x]
      BY <2>1
    <3> QED BY <2>4, <3>1, RelTypeKept
  <2>6. /\ rel'[t] \in Relocations /\ rel'[t].queue = rel[t].queue /\ rel'[t].pos = rel[t].pos
        /\ rel'[t].locked = rel[t].locked /\ rel'[t].child_bucket = rel[t].child_bucket
        /\ rel'[t].free = cell /\ rel'[t].ok = rel[t].ok /\ rel'[t].walk = q.parent
    BY <1>2, <2>4, <2>5 DEF Relocations
  <2>7. PcType' /\ pc'[t] = "move"
    BY <2>1, PcTypeKept DEF Labels
  <2>8. TypeOK'
    BY <1>1, <1>3, <2>1, <2>5, <2>7, TypePartsNext, TypesKept
  <2>9. q.parent \in Locked(t, r) \cup {1}
    BY <1>4, <1>7, <2>3
  <2> QED BY <1>1, <1>2, <2>1, <2>6, <2>7, <2>8, <2>9, MovingControl DEF r
<1> QED BY <1>6, <1>7

(* The parts that releasing the path does not concern.                     *)
LEMMA ReleasingControl ==
  ASSUME TypeOK, NEW t \in Threads, Control(t), pc[t] \in ReleasePhases, pc'[t] = "release_path",
         op'[t] = op[t], add'[t] = add[t], rl'[t] = rl[t], scenario' = scenario,
         rel'[t] \in Relocations, rel'[t].queue = rel[t].queue, rel'[t].pos = rel[t].pos,
         rel'[t].child_bucket = rel[t].child_bucket, rel'[t].free = rel[t].free, rel'[t].ok = rel[t].ok
  PROVE  CallInv(t)' /\ InsertInv(t)' /\ AddInv(t)' /\ QueueInv(t)' /\ RefsInv(t)'
<1>1. t \in Writers /\ Primary(t)' = Primary(t) /\ Secondary(t)' = Secondary(t)
  BY NodeTypes, PrimaryUnchanged
<1>2. CallInv(t)' /\ InsertInv(t)'
  BY <1>1, ThreadsAssumption DEF Control, CallInv, InsertInv
<1>3. AddInv(t)'
  BY <1>1 DEF Control, AddInv
<1>4. QueueInv(t)'
  BY RelLocals, QueueKept
<1>5. RefsInv(t)'
  BY DEF RefsInv
<1> QED BY <1>2, <1>3, <1>4, <1>5

(* release_locks begins with the bucket of the free cell and then stands   *)
(* at the end of the locked chain.                                         *)
LEMMA ReleaseFreeControl ==
  ASSUME TypeOK, NEW t \in Threads, Control(t), ReleaseFree(t)
  PROVE  TypeOK' /\ Control(t)'
<1> DEFINE r == bucket_refs[t]
           b == rel[t].child_bucket
           r2 == [r EXCEPT ![b] = r[b] - 1]
           x == [rel[t] EXCEPT !.locked = rel[t].locked - 1, !.walk = rel[t].pos]
<1>1. /\ pc[t] = "release_free" /\ release_bucket_lock(t, b)
      /\ rel' = [rel EXCEPT ![t].locked = @ - 1, ![t].walk = rel[t].pos]
      /\ pc' = [pc EXCEPT ![t] = "release_path"]
      /\ UNCHANGED <<rl, entry_locks, op, add, write, find, up, live>>
  BY DEF ReleaseFree
<1>2. /\ PathRefs(t, r) /\ r[b] = 1 /\ rel[t].locked = Cardinality(Locked(t, r)) + 1
      /\ Locked(t, r) # {} => rel[t].pos \in Locked(t, r)
  BY <1>1 DEF Control, PathInv
<1>3. /\ b \in Buckets /\ rel[t] \in Relocations /\ rel[t].pos \in Nat
      /\ ~Queued(t, b) /\ Cardinality(Locked(t, r)) \in Nat
  BY <1>1, QueueFacts, LockedIsFinite DEF Control, QueueInv
<1>4. r \in [Buckets -> 0..1] /\ b # Primary(t)
  BY <1>1, <1>2, <1>3, QueueFacts DEF PathRefs
<1>5. r2 \in [Buckets -> 0..1] /\ r2[b] = 0 /\ \A c \in Buckets \ {b} : r2[c] = r[c]
  BY <1>2, <1>3, <1>4
<1>6. LockType' /\ MemoryType' /\ scenario' = scenario /\ bucket_refs'[t] = r2
  <2>1. bucket_refs[t][b] >= 1
    BY <1>2
  <2> QED BY <1>1, <1>3, <2>1, RefsReleased
<1> HIDE DEF b, r, r2
<1>7. Locked(t, r2) = Locked(t, r)
  BY <1>1, <1>3, <1>5, QueueFacts DEF Locked
<1>8. PathRefs(t, r2)
  BY <1>1, <1>2, <1>3, <1>4, <1>5, <1>7, NodeTypes DEF PathRefs, b
<1>9. RelType' /\ rel'[t] = x /\ x \in Relocations
  <2>1. rel[t].locked - 1 \in Nat
    BY <1>2, <1>3
  <2>2. x \in Relocations
    BY <1>3, <2>1, CountUpdate
  <2>3. rel' = [rel EXCEPT ![t] = x]
    BY <1>1
  <2> QED BY <2>2, <2>3, RelTypeKept
<1>10. /\ rel'[t] \in Relocations /\ rel'[t].queue = rel[t].queue /\ rel'[t].pos = rel[t].pos
       /\ rel'[t].child_bucket = rel[t].child_bucket /\ rel'[t].free = rel[t].free
       /\ rel'[t].ok = rel[t].ok /\ rel'[t].walk = rel[t].pos /\ rel'[t].locked = rel[t].locked - 1
  BY <1>3, <1>9 DEF Relocations
<1>11. PcType' /\ pc'[t] = "release_path"
  BY <1>1, PcTypeKept DEF Labels
<1>12. TypeOK'
  BY <1>1, <1>6, <1>9, <1>11, TypePartsNext, TypesKept
<1>13. \A q : Locked(t, q)' = Locked(t, q) /\ PathRefs(t, q)' = PathRefs(t, q)
  BY <1>1, <1>10, PathKept
<1>14. PathInv(t)'
  <2>1. rel[t].locked - 1 = Cardinality(Locked(t, r))
    BY <1>2, <1>3
  <2>2. \A j \in Locked(t, r) : j <= rel[t].pos
    BY <1>2 DEF PathRefs
  <2>3. bucket_refs'[t][rel'[t].child_bucket] = 0
    BY <1>5, <1>6, <1>10 DEF b
  <2>4. Locked(t, bucket_refs[t])' = Locked(t, r) /\ PathRefs(t, bucket_refs[t])'
    BY <1>6, <1>7, <1>8, <1>13
  <2> QED BY <1>2, <1>3, <1>10, <1>11, <2>1, <2>2, <2>3, <2>4 DEF PathInv
<1> QED BY <1>1, <1>6, <1>10, <1>11, <1>12, <1>14, ReleasingControl DEF Control

(* One lock of the chain is released, and its parent is the last of the    *)
(* rest: the count reaches zero when nothing is left.                      *)
LEMMA ReleasePathControl ==
  ASSUME TypeOK, NEW t \in Threads, Control(t), ReleasePath(t)
  PROVE  TypeOK' /\ Control(t)'
<1> DEFINE r == bucket_refs[t]
           w == rel[t].walk
           b == BucketAt(t, w)
           r2 == [r EXCEPT ![b] = r[b] - 1]
           x == [rel[t] EXCEPT !.locked = rel[t].locked - 1, !.walk = ParentAt(t, w)]
<1>1. /\ pc[t] = "release_path" /\ release_bucket_lock(t, b) /\ rel[t].locked > 0
      /\ rel' = [rel EXCEPT ![t].locked = @ - 1, ![t].walk = ParentAt(t, w)]
      /\ UNCHANGED <<rl, entry_locks, pc, op, add, write, find, up, live>>
  BY DEF ReleasePath, BucketAt, ParentAt
<1>2. /\ PathRefs(t, r) /\ r[rel[t].child_bucket] = 0
      /\ rel[t].locked = Cardinality(Locked(t, r)) + 0
      /\ Locked(t, r) # {} => w \in Locked(t, r) /\ \A j \in Locked(t, r) : j <= w
  BY <1>1 DEF Control, PathInv
<1>3. /\ rel[t] \in Relocations /\ rel[t].child_bucket \in Buckets
      /\ IsFiniteSet(Locked(t, r)) /\ Cardinality(Locked(t, r)) \in Nat
      /\ Locked(t, r) \subseteq Positions(t)
  BY <1>1, QueueFacts, LockedIsFinite
<1>4. w \in Locked(t, r) /\ \A j \in Locked(t, r) : j <= w
  <2>1. Locked(t, r) # {}
    BY <1>1, <1>2, <1>3, FS_EmptySet
  <2> QED BY <1>2, <2>1
<1>5. /\ w \in Positions(t) /\ w \in Nat /\ w # 1 /\ b \in Buckets /\ r[b] = 1 /\ ParentAt(t, w) \in Nat
      /\ b # rel[t].child_bucket /\ b # Primary(t) /\ Queued(t, b)
  <2>1. w \in Positions(t) \ {1} /\ r[b] = 1
    BY <1>4 DEF Locked
  <2> QED BY <1>1, <1>2, <2>1, QueueFacts DEF Positions
<1>6. r2 \in [Buckets -> 0..1] /\ r2[b] = 0 /\ \A c \in Buckets \ {b} : r2[c] = r[c]
  BY <1>2, <1>5 DEF PathRefs
<1>7. LockType' /\ MemoryType' /\ scenario' = scenario /\ bucket_refs'[t] = r2
  <2>1. bucket_refs[t][b] >= 1
    BY <1>5
  <2> QED BY <1>1, <1>5, <2>1, RefsReleased
<1> HIDE DEF r, r2
<1>8. Locked(t, r2) = Locked(t, r) \ {w}
  BY <1>1, <1>5, <1>6, QueueFacts DEF Locked
<1>9. Cardinality(Locked(t, r2)) = Cardinality(Locked(t, r)) - 1
  <2>1. Cardinality(Locked(t, r) \ {w}) = Cardinality(Locked(t, r)) - 1
    BY <1>3, <1>4, FS_RemoveElement
  <2> QED BY <1>8, <2>1
<1>10. \A j, k \in Locked(t, r2) : j < k => j <= ParentAt(t, k) /\ ParentAt(t, k) \in Locked(t, r2)
  <2>1. SUFFICES ASSUME NEW j \in Locked(t, r2), NEW k \in Locked(t, r2), j < k
                 PROVE  j <= ParentAt(t, k) /\ ParentAt(t, k) \in Locked(t, r2)
    OBVIOUS
  <2>2. j <= ParentAt(t, k) /\ ParentAt(t, k) \in Locked(t, r)
    BY <1>2, <1>8, <2>1 DEF PathRefs
  <2>3. k \in Nat /\ ParentAt(t, k) < k /\ ParentAt(t, k) \in Nat /\ k <= w
    <3>1. k \in Positions(t) \ {1}
      BY <1>8, <2>1 DEF Locked
    <3> QED BY <1>1, <1>4, <1>8, <2>1, <3>1, QueueFacts DEF Positions
  <2> QED BY <1>5, <1>8, <2>2, <2>3
<1>11. PathRefs(t, r2)
  <2>1. Primary(t) \in Buckets
    BY <1>1, NodeTypes
  <2> QED BY <1>2, <1>5, <1>6, <1>8, <1>10, <2>1 DEF PathRefs
<1>12. Locked(t, r2) # {} =>
         ParentAt(t, w) \in Locked(t, r2) /\ \A j \in Locked(t, r2) : j <= ParentAt(t, w)
  <2>1. SUFFICES ASSUME NEW i \in Locked(t, r2)
                 PROVE  ParentAt(t, w) \in Locked(t, r2) /\ \A j \in Locked(t, r2) : j <= ParentAt(t, w)
    OBVIOUS
  <2>2. \A j \in Locked(t, r2) : j < w /\ j \in Locked(t, r)
    BY <1>3, <1>4, <1>5, <1>8, <1>1, QueueFacts DEF Positions
  <2>3. ParentAt(t, w) \in Locked(t, r) /\ \A j \in Locked(t, r2) : j <= ParentAt(t, w)
    BY <1>2, <1>4, <2>1, <2>2 DEF PathRefs
  <2>4. ParentAt(t, w) # w
    BY <1>1, <1>5, QueueFacts
  <2> QED BY <1>8, <2>3, <2>4
<1>13. RelType' /\ rel'[t] = x /\ x \in Relocations
  <2>1. rel[t].locked - 1 \in Nat
    BY <1>1, <1>2, <1>3
  <2>2. x \in Relocations
    BY <1>3, <1>5, <2>1, CountUpdate
  <2>3. rel' = [rel EXCEPT ![t] = x]
    BY <1>1
  <2> QED BY <2>2, <2>3, RelTypeKept
<1>14. /\ rel'[t] \in Relocations /\ rel'[t].queue = rel[t].queue /\ rel'[t].pos = rel[t].pos
       /\ rel'[t].child_bucket = rel[t].child_bucket /\ rel'[t].free = rel[t].free
       /\ rel'[t].ok = rel[t].ok /\ rel'[t].walk = ParentAt(t, w) /\ rel'[t].locked = rel[t].locked - 1
  BY <1>3, <1>13 DEF Relocations
<1>15. PcType' /\ pc'[t] = "release_path"
  BY <1>1, TypeParts DEF PcType
<1>16. TypeOK'
  BY <1>1, <1>7, <1>13, <1>15, TypePartsNext, TypesKept
<1>17. \A q : Locked(t, q)' = Locked(t, q) /\ PathRefs(t, q)' = PathRefs(t, q)
  BY <1>1, <1>14, PathKept
<1>18. PathInv(t)'
  <2>1. rel'[t].locked = Cardinality(Locked(t, r2)) /\ Cardinality(Locked(t, r2)) \in Nat
    BY <1>1, <1>2, <1>3, <1>9, <1>14
  <2>2. bucket_refs'[t][rel'[t].child_bucket] = 0
    BY <1>2, <1>3, <1>5, <1>6, <1>7, <1>14
  <2>3. Locked(t, bucket_refs[t])' = Locked(t, r2) /\ PathRefs(t, bucket_refs[t])'
    BY <1>7, <1>11, <1>17
  <2> QED BY <1>12, <1>14, <1>15, <2>1, <2>2, <2>3 DEF PathInv
<1> QED BY <1>1, <1>7, <1>14, <1>15, <1>16, <1>18, ReleasingControl DEF Control

(* With the count at zero only the primary bucket is still locked.         *)
LEMMA RelocateReturnControl ==
  ASSUME TypeOK, NEW t \in Threads, Control(t), RelocateReturn(t)
  PROVE  TypeOK' /\ Control(t)'
<1> DEFINE r == bucket_refs[t]
           label == IF rel[t].ok THEN "put" ELSE "relocate_failed"
<1>1. /\ pc[t] = "release_path" /\ rel[t].locked = 0 /\ pc' = [pc EXCEPT ![t] = label]
      /\ UNCHANGED <<memory, handles, locks, op, add, rel, write, find, up, live>>
  BY DEF RelocateReturn
<1>2. /\ PathRefs(t, r) /\ r[rel[t].child_bucket] = 0 /\ rel[t].locked = Cardinality(Locked(t, r)) + 0
  BY <1>1 DEF Control, PathInv
<1>3. /\ t \in Writers /\ Primary(t) \in Buckets
      /\ Primary(t)' = Primary(t) /\ Secondary(t)' = Secondary(t)
  BY <1>1, NodeTypes, PrimaryUnchanged
<1>4. Locked(t, r) = {}
  <2>1. IsFiniteSet(Locked(t, r)) /\ Cardinality(Locked(t, r)) = 0
    BY <1>1, <1>2, LockedIsFinite
  <2> QED BY <2>1, FS_EmptySet
<1>5. RefsOn(r, {Primary(t)})
  <2>1. r \in [Buckets -> 0..1] /\ r[Primary(t)] = 1
    BY <1>2 DEF PathRefs
  <2>2. ASSUME NEW b \in Buckets, b # Primary(t) PROVE r[b] = 0
    <3>1. CASE b = rel[t].child_bucket \/ ~Queued(t, b)
      BY <1>2, <2>2, <3>1 DEF PathRefs
    <3>2. CASE Queued(t, b)
      <4>1. PICK j \in Positions(t) : BucketAt(t, j) = b
        BY <1>1, <3>2, QueueFacts DEF Queued, BucketAt
      <4>2. j # 1
        BY <1>1, <2>2, <4>1, QueueFacts
      <4>3. r[b] # 1
        BY <1>4, <4>1, <4>2 DEF Locked
      <4> QED BY <2>1, <2>2, <4>3
    <3> QED BY <3>1, <3>2
  <2> QED BY <2>1, <2>2 DEF RefsOn
<1>6. PcType' /\ pc'[t] = label
  BY <1>1, PcTypeKept DEF Labels
<1>7. TypeOK'
  BY <1>1, <1>6, TypePartsNext, TypesKept
<1>8. rel[t].ok => add[t].result \in Cells /\ BucketOf(add[t].result) = Primary(t)
  BY <1>1, RelLocals
<1>9. CallInv(t)' /\ InsertInv(t)'
  BY <1>1, <1>3, <1>6, ThreadsAssumption DEF Control, CallInv, InsertInv
<1>10. AddInv(t)'
  BY <1>1, <1>3, <1>6, <1>8 DEF Control, AddInv
<1>11. QueueInv(t)' /\ RefsInv(t)' /\ PathInv(t)'
  <2>1. QueueInv(t)' /\ PathInv(t)'
    BY <1>6 DEF QueueInv, PathInv
  <2>2. CASE rel[t].ok
    <3>1. RefsOn(bucket_refs'[t], {BucketOf(add'[t].result)}) /\ pc'[t] = "put"
      BY <1>1, <1>5, <1>6, <1>8, <2>2
    <3> QED BY <2>1, <3>1 DEF RefsInv
  <2>3. CASE ~rel[t].ok
    <3>1. RefsOn(bucket_refs'[t], {Primary(t)'}) /\ pc'[t] = "relocate_failed"
      BY <1>1, <1>3, <1>5, <1>6, <2>3
    <3> QED BY <2>1, <3>1 DEF RefsInv
  <2> QED BY <2>2, <2>3
<1> QED BY <1>7, <1>9, <1>10, <1>11 DEF Control

(* write_entry returns to its caller with the locals as they were.         *)
LEMMA WriteEntryControl ==
  ASSUME TypeOK, NEW t \in Threads, Control(t), write_entry(t)
  PROVE  TypeOK' /\ Control(t)'
<1>1. /\ pc[t] \in WritePcs /\ UNCHANGED <<rl, locks, op, add, rel, write, find, up, live>>
      /\ write[t].cell \in Cells
      /\ write[t].then \in {"read_unlock", "withdrawn", "moved", "release_free", "removed"}
      /\ write[t].entry \in Entries
  BY TypeParts DEF write_entry, Control, CallInv, WriteType
<1>2. PICK label \in {"write2", "write3", write[t].then} : pc' = [pc EXCEPT ![t] = label]
  BY DEF write_entry
<1>3. scenario' = scenario /\ MemoryType'
  BY <1>1, StoreType, EntryTypes DEF write_entry
<1>4. label \in Labels
  BY <1>1 DEF Labels
<1>5. PcType' /\ pc'[t] = label
  BY <1>2, <1>4, PcTypeKept
<1>6. TypeOK'
  BY <1>1, <1>3, <1>5, TypePartsNext, TypesKept
<1>7. /\ op'[t] = op[t] /\ add'[t] = add[t] /\ rel'[t] = rel[t] /\ write'[t] = write[t]
      /\ find'[t] = find[t] /\ rl'[t] = rl[t] /\ up'[t] = up[t] /\ bucket_refs'[t] = bucket_refs[t]
  BY <1>1
<1>8. /\ Phase(t)' = Phase(t) /\ Phase(t) = write[t].then
      /\ pc'[t] \notin UpgradePcs /\ pc[t] \notin UpgradePcs
  BY <1>1, <1>2, <1>5
<1>9. Primary(t)' = Primary(t) /\ Secondary(t)' = Secondary(t)
  BY <1>7, PrimaryUnchanged
<1>10. CallInv(t)' /\ InsertInv(t)'
  BY <1>1, <1>2, <1>3, <1>5, <1>7 DEF Control, CallInv, InsertInv
<1>11. AddInv(t)'
  BY <1>1, <1>2, <1>5, <1>7, <1>9 DEF Control, AddInv
<1>12. /\ Positions(t)' = Positions(t)
       /\ \A j : BucketAt(t, j)' = BucketAt(t, j) /\ ParentAt(t, j)' = ParentAt(t, j)
       /\ \A b : Queued(t, b)' = Queued(t, b)
       /\ \A r : Locked(t, r)' = Locked(t, r) /\ PathRefs(t, r)' = PathRefs(t, r)
  BY <1>7, PathKept
<1>13. QueueInv(t)'
  BY <1>1, <1>2, <1>5, <1>7, <1>9, <1>12 DEF Control, QueueInv
<1>14. RefsInv(t)'
  BY <1>1, <1>2, <1>5, <1>7, <1>9 DEF Control, RefsInv
<1>15. PathInv(t)'
  BY <1>1, <1>2, <1>5, <1>7, <1>12 DEF Control, PathInv
<1> QED BY <1>6, <1>10, <1>11, <1>13, <1>14, <1>15 DEF Control

-----------------------------------------------------------------------------
(* Searches and the insert around add_entry. *)

(* Outside add_entry there is nothing to know about its locals.            *)
LEMMA OutsideControl ==
  ASSUME NEW t \in Threads, CallInv(t)', InsertInv(t)', RefsOn(bucket_refs'[t], {}),
         Phase(t)' \in {"idle", "retry", "found", "release", "release_retry", "publish", "undo",
                        "remove", "removed", "add"}
  PROVE  Control(t)'
<1>1. AddInv(t)' /\ QueueInv(t)' /\ PathInv(t)'
  BY DEF AddInv, QueueInv, PathInv
<1>2. RefsInv(t)'
  BY DEF RefsInv
<1> QED BY <1>1, <1>2 DEF Control

FindTypes ==
  [node : Nodes \cup {None}, secondary : BOOLEAN, lock : 0..1,
   cell : Cells \cup {None}, id : NodeIds \cup {None, RootId}, then : Labels]

(* A change of the locals of a search keeps their types.                   *)
LEMMA FindTypeKept ==
  ASSUME TypeOK, NEW t \in Threads, NEW x \in FindTypes, find' = [find EXCEPT ![t] = x]
  PROVE  FindType' /\ find'[t] = x
BY TypeParts DEF FindType, FindTypes

(* A search looks at buckets of the table.                                 *)
LEMMA FindBucketType ==
  ASSUME TypeOK, NEW t \in Threads, find[t].node \in Nodes
  PROVE  FindBucket(t) \in Buckets
<1>1. find[t].node.loc \in Locators
  BY DEF Nodes
<1> QED BY <1>1, MixChangesBucket DEF FindBucket, Locators

(* The searches by color, in whichever bucket.                             *)
LEMMA FindControl ==
  ASSUME TypeOK, NEW t \in Threads, Control(t), find_entry_in_pair_by_color(t)
  PROVE  TypeOK' /\ Control(t)'
<1>1. /\ pc[t] \in FindPcs /\ UNCHANGED <<memory, locks, op, add, rel, write, up, live>>
  BY DEF find_entry_in_pair_by_color, FindReadCounter, FindScan, FindCheckCounter
<1>2. find[t].node \in Nodes /\ find[t].then \in {"remove", "found"} /\ find[t] \in FindTypes
      /\ (pc[t] = "find3" => find[t].cell \in Cells)
  BY <1>1, TypeParts DEF Control, CallInv, FindType, FindTypes
<1>3. FindBucket(t) \in Buckets
  BY <1>2, FindBucketType
<1>4. ASSUME NEW x \in FindTypes, find' = [find EXCEPT ![t] = x], x.node = find[t].node, x.then = find[t].then,
             NEW label \in FindPcs \cup {find[t].then}, pc' = [pc EXCEPT ![t] = label],
             label \in {"find3", "remove"} => x.cell \in Cells,
             HandleType', MemoryType'
      PROVE  TypeOK' /\ Control(t)'
  <2>1. FindType' /\ find'[t] = x
    BY <1>4, FindTypeKept
  <2>2. label \in Labels
    BY <1>2 DEF Labels
  <2>3. PcType' /\ pc'[t] = label
    BY <1>4, <2>2, PcTypeKept
  <2>4. TypeOK'
    BY <1>1, <1>4, <2>1, <2>3, TypePartsNext, TypesKept
  <2>5. Phase(t)' = Phase(t) /\ Phase(t) \in {"remove", "found"}
    BY <1>1, <1>2, <1>4, <2>1, <2>3
  <2>6. CallInv(t)' /\ InsertInv(t)'
    BY <1>1, <1>2, <1>4, <2>1, <2>3 DEF Control, CallInv, InsertInv
  <2>7. RefsOn(bucket_refs'[t], {})
    BY <1>1, <2>5 DEF Control, RefsInv
  <2> QED BY <2>4, <2>5, <2>6, <2>7, OutsideControl
<1>5. ASSUME NotInBucket(t), UNCHANGED handles PROVE TypeOK' /\ Control(t)'
  <2> DEFINE x == [find[t] EXCEPT !.secondary = ~find[t].secondary]
  <2>1. x \in FindTypes /\ x.node = find[t].node /\ x.then = find[t].then
    BY <1>2 DEF FindTypes
  <2>2. find' = [find EXCEPT ![t] = x] /\ pc' = [pc EXCEPT ![t] = "find1"]
    BY <1>5 DEF NotInBucket
  <2>3. HandleType' /\ MemoryType'
    BY <1>1, <1>5, TypesKept
  <2> HIDE DEF x
  <2> QED BY <1>2, <1>4, <2>1, <2>2, <2>3
<1>6. CASE FindReadCounter(t)
  <2>1. CASE BusySeen(t, FindBucket(t))
    BY <1>5, <1>6, <2>1 DEF FindReadCounter
  <2>2. CASE ~BusySeen(t, FindBucket(t))
    <3> DEFINE l == LockSeen(t, FindBucket(t))
               x == [find[t] EXCEPT !.lock = l]
    <3>1. /\ ReadCounter(t, FIND, FindBucket(t))
          /\ find' = [find EXCEPT ![t] = x] /\ pc' = [pc EXCEPT ![t] = "find2"]
      BY <1>6, <2>2 DEF FindReadCounter
    <3>2. l \in 0..1
      BY <1>3, TypeParts DEF LockSeen, MemoryType
    <3> HIDE DEF l
    <3>3. x \in FindTypes /\ x.node = find[t].node /\ x.then = find[t].then
      BY <1>2, <3>2 DEF FindTypes
    <3>4. HandleType' /\ MemoryType'
      BY <1>1, <1>3, <3>1, ReadCounterType, HandleTypes
    <3> HIDE DEF x
    <3> QED BY <1>2, <1>4, <3>1, <3>3, <3>4
  <2> QED BY <2>1, <2>2
<1>7. CASE FindScan(t)
  <2> DEFINE found == {c \in CellNumbers : Matches(t, <<FindBucket(t), c>>)}
             p == <<FindBucket(t), Min(found)>>
  <2>1. CASE found = {}
    BY <1>5, <1>7, <2>1 DEF FindScan
  <2>2. CASE found # {}
    <3> DEFINE x == [find[t] EXCEPT !.cell = p, !.id = Seen(t, p).id]
    <3>1. find' = [find EXCEPT ![t] = x] /\ pc' = [pc EXCEPT ![t] = "find3"] /\ UNCHANGED handles
      BY <1>7, <2>2 DEF FindScan
    <3>2. p \in Cells
      <4>1. found \in SUBSET Nat
        BY CellsAssumption DEF CellNumbers
      <4>2. Min(found) \in found
        BY <2>2, <4>1, Smallest
      <4>3. Min(found) \in CellNumbers
        BY <4>2
      <4> QED BY <1>3, <4>3 DEF Cells
    <3> HIDE DEF p
    <3>3. Seen(t, p).id \in NodeIds \cup {None, RootId}
      BY <3>2, SeenType DEF Entries
    <3>4. x \in FindTypes /\ x.node = find[t].node /\ x.then = find[t].then /\ x.cell = p
      BY <1>2, <3>2, <3>3 DEF FindTypes
    <3>5. HandleType' /\ MemoryType'
      BY <1>1, <3>1, TypesKept
    <3> HIDE DEF x
    <3> QED BY <1>2, <1>4, <3>1, <3>2, <3>4, <3>5
  <2> QED BY <2>1, <2>2
<1>8. CASE FindCheckCounter(t)
  <2>1. pc[t] = "find3" /\ UNCHANGED handles
        /\ (NotInBucket(t) \/ (Goto(t, find[t].then) /\ UNCHANGED find))
    BY <1>8 DEF FindCheckCounter
  <2>2. HandleType' /\ MemoryType'
    BY <1>1, <2>1, TypesKept
  <2>3. CASE Goto(t, find[t].then) /\ UNCHANGED find
    <3>1. find' = [find EXCEPT ![t] = find[t]]
      BY <2>3, TypeParts DEF FindType
    <3> QED BY <1>2, <1>4, <2>1, <2>2, <2>3, <3>1
  <2> QED BY <1>5, <2>1, <2>3
<1> QED BY <1>6, <1>7, <1>8 DEF find_entry_in_pair_by_color

(* A search is started, by a reader or for a roll-back.                    *)
LEMMA CallFindControl ==
  ASSUME TypeOK, NEW t \in Threads, Control(t), NEW node \in Nodes, NEW then \in {"remove", "found"},
         CallFind(t, node, then), Phase(t) \in {"idle", "undo"},
         IF then = "found" THEN t \in Readers
                           ELSE t \in Writers /\ op[t].added # <<>> /\ Phase(t) = "undo",
         UNCHANGED <<memory, handles, locks, op, add, rel, write, up, live>>
  PROVE  TypeOK' /\ Control(t)'
<1> DEFINE x == [node |-> node, secondary |-> FALSE, lock |-> 0, cell |-> None, id |-> None, then |-> then]
<1>1. find' = [find EXCEPT ![t] = x] /\ pc' = [pc EXCEPT ![t] = "find1"]
  BY DEF CallFind
<1>2. x \in FindTypes /\ x.node = node /\ x.then = then
  BY DEF FindTypes, Labels
<1> HIDE DEF x
<1>3. FindType' /\ find'[t] = x
  BY <1>1, <1>2, FindTypeKept
<1>4. PcType' /\ pc'[t] = "find1"
  BY <1>1, PcTypeKept DEF Labels
<1>5. TypeOK'
  BY <1>3, <1>4, TypePartsNext, TypesKept
<1>6. CallInv(t)' /\ InsertInv(t)'
  BY <1>2, <1>3, <1>4, ThreadsAssumption DEF Control, CallInv, InsertInv
<1>7. RefsOn(bucket_refs'[t], {})
  BY DEF Control, RefsInv
<1> QED BY <1>2, <1>3, <1>4, <1>5, <1>6, <1>7, OutsideControl

(* The node to be removed next is one of those added.                      *)
LEMMA UndoFacts ==
  ASSUME TypeOK, NEW t \in Threads, op[t].added # <<>>
  PROVE  /\ op[t].added[UndoIndex(t)] \in Nodes
         /\ RemoveAt(op[t].added, UndoIndex(t)) \in Seq(Nodes)
<1>1. op[t].added \in Seq(Nodes)
  BY LocalTypes
<1> DEFINE s == op[t].added
           i == UndoIndex(t)
<1>2. i \in 1..Len(s) /\ Len(s) \in Nat
  BY <1>1 DEF UndoIndex
<1>3. s[i] \in Nodes
  <2> HIDE DEF s, i
  <2> QED BY <1>1, <1>2 DEF s
<1>4. SubSeq(s, 1, i - 1) \in Seq(Nodes) /\ SubSeq(s, i + 1, Len(s)) \in Seq(Nodes)
  <2> HIDE DEF i
  <2> QED BY <1>1, <1>2, SubSeqProperties
<1> QED BY <1>3, <1>4, ConcatProperties DEF RemoveAt

(* An insert starts, or starts again, with a plan.                         *)
LEMMA PlanControl ==
  ASSUME TypeOK, NEW t \in Threads, Control(t), ChoosePlan(t), t \in Writers,
         pc[t] \in {"idle", "retry"}, op[t].inserts < scenario.inserts
  PROVE  TypeOK' /\ Control(t)'
<1>1. PICK plan \in scenario.plans : op' = [op EXCEPT ![t].plan = plan]
  BY DEF ChoosePlan
<1>2. pc' = [pc EXCEPT ![t] = "add"] /\ UNCHANGED <<memory, handles, locks, add, rel, write, find, up, live>>
  BY DEF ChoosePlan
<1>3. OpType' /\ op'[t] = [op[t] EXCEPT !.plan = plan]
  BY <1>1, <1>2, TypeParts DEF OpType
<1>4. PcType' /\ pc'[t] = "add"
  BY <1>2, PcTypeKept DEF Labels
<1>5. TypeOK'
  BY <1>2, <1>3, <1>4, TypePartsNext, TypesKept
<1>6. op'[t].plan = plan /\ op'[t].added = <<>> /\ op'[t].inserts = op[t].inserts
  <2>1. op[t].added = <<>>
    BY DEF Control, InsertInv
  <2>2. op[t] \in [inserts : 0..scenario.inserts, plan : scenario.plans \cup {<<>>}, added : Seq(Nodes)]
    BY TypeParts DEF OpType
  <2> QED BY <1>3, <2>1, <2>2
<1>7. plan \in Seq(Hashes) /\ plan # <<>> /\ Len(plan) > 0
  BY LocalTypes, ScenariosAssumption
<1>8. CallInv(t)' /\ InsertInv(t)'
  BY <1>2, <1>4, <1>6, <1>7, ThreadsAssumption DEF Control, CallInv, InsertInv
<1>9. RefsOn(bucket_refs'[t], {})
  BY <1>2 DEF Control, RefsInv
<1> QED BY <1>4, <1>5, <1>8, <1>9, OutsideControl

(* Only writers get past the start of an insert.                           *)
LEMMA WriterPhase ==
  ASSUME NEW t \in Threads, Control(t), Phase(t) \notin {"idle", "found"}
  PROVE  t \in Writers /\ t \notin Readers /\ op[t].inserts < scenario.inserts
BY ThreadsAssumption DEF Control, CallInv, InsertInv, Threads

(* Returning clears the locals.                                            *)
LEMMA ReturnTypes ==
  ASSUME TypeOK, NEW t \in Threads, NEW n \in 0..scenario.inserts, NEW label \in {"idle", "retry"},
         Return(t, n, label), UNCHANGED <<memory, locks, live>>
  PROVE  TypeOK' /\ pc'[t] = label /\ op'[t] = NoInsert(n)
<1>1. PcType' /\ pc'[t] = label
  BY PcTypeKept DEF Return, Labels
<1>2. OpType' /\ op'[t] = NoInsert(n)
  BY TypeParts DEF OpType, Return, NoInsert
<1>3. AddType' /\ RelType'
  BY TypeParts DEF AddType, RelType, Return, NoAdd
<1>4. WriteType'
  BY TypeParts, EntryTypes DEF WriteType, Return, NoWrite, Labels
<1>5. FindType'
  <2>1. NoFind \in FindTypes
    BY DEF NoFind, FindTypes, Labels
  <2> QED BY <2>1, FindTypeKept DEF Return
<1>6. HandleType' /\ stale' \in [Threads -> SUBSET Handles]
  BY TypeParts, HandleTypes DEF HandleType, MemoryType, Return
<1>7. MemoryType'
  BY <1>6, TypeParts DEF MemoryType
<1>8. LockType' /\ LiveType'
  BY TypesKept
<1> QED BY <1>1, <1>2, <1>3, <1>4, <1>5, <1>6, <1>7, <1>8, TypePartsNext

(* A call returns.                                                         *)
LEMMA ReturnControl ==
  ASSUME TypeOK, NEW t \in Threads, Control(t), InsertReturn(t) \/ LookupReturn(t)
  PROVE  TypeOK' /\ Control(t)'
<1>1. UNCHANGED <<memory, locks, live>>
  BY DEF InsertReturn, LookupReturn
<1>2. /\ op[t].inserts \in Nat /\ scenario.inserts \in Nat
      /\ pc[t] \in {"release", "release_retry"} => t \in Writers /\ op[t].inserts < scenario.inserts
  BY LocalTypes, WriterPhase
<1>3. PICK n \in 0..scenario.inserts, label \in {"idle", "retry"} :
        /\ Return(t, n, label)
        /\ label = "retry" => t \in Writers /\ n < scenario.inserts
  BY <1>2 DEF InsertReturn, LookupReturn
<1>4. TypeOK' /\ pc'[t] = label /\ op'[t] = NoInsert(n)
  BY <1>1, <1>3, ReturnTypes
<1>5. CallInv(t)' /\ InsertInv(t)'
  BY <1>1, <1>3, <1>4, ThreadsAssumption DEF CallInv, InsertInv, NoInsert
<1>6. RefsOn(bucket_refs'[t], {})
  BY <1>1 DEF Control, RefsInv, InsertReturn, LookupReturn
<1> QED BY <1>4, <1>5, <1>6, OutsideControl

(* The insert publishes, rolls back, releases its locks or retries.        *)
LEMMA InsertEndControl ==
  ASSUME TypeOK, NEW t \in Threads, Control(t), InsertEnd(t)
  PROVE  TypeOK' /\ Control(t)'
<1>1. CASE Publish(t)
  <2>1. pc[t] = "publish" /\ pc' = [pc EXCEPT ![t] = "release"] /\ live' = live \cup Range(op[t].added)
        /\ UNCHANGED <<memory, handles, locks, op, add, rel, write, find, up>>
    BY <1>1 DEF Publish
  <2>2. PcType' /\ pc'[t] = "release"
    BY <2>1, PcTypeKept DEF Labels
  <2>3. LiveType'
    <3>1. Range(op[t].added) \subseteq Nodes
      BY LocalTypes DEF Range
    <3> QED BY <2>1, <3>1, TypeParts DEF LiveType
  <2>4. TypeOK'
    BY <2>1, <2>2, <2>3, TypePartsNext, TypesKept
  <2>5. CallInv(t)' /\ InsertInv(t)' /\ RefsOn(bucket_refs'[t], {})
    BY <2>1, <2>2, WriterPhase DEF Control, CallInv, InsertInv, RefsInv
  <2> QED BY <2>2, <2>4, <2>5, OutsideControl
<1>2. CASE Undo(t)
  <2>1. pc[t] = "undo" /\ op[t].added # <<>> /\ CallFind(t, op[t].added[UndoIndex(t)], "remove")
        /\ UNCHANGED <<memory, handles, locks, op, add, rel, write, up, live>>
    BY <1>2 DEF Undo
  <2> QED BY <2>1, UndoFacts, WriterPhase, CallFindControl
<1>3. CASE remove_entry_by_value(t)
  <2>1. /\ pc[t] = "remove" /\ pc' = [pc EXCEPT ![t] = "write1"]
        /\ write' = [write EXCEPT ![t] = [cell |-> find[t].cell, entry |-> Unused, then |-> "removed"]]
        /\ UNCHANGED <<memory, handles, locks, op, add, rel, find, up, live>>
    BY <1>3 DEF remove_entry_by_value, CallWrite
  <2>2. find[t].cell \in Cells
    BY <2>1 DEF Control, CallInv
  <2>3. WriteType' /\ write'[t] = [cell |-> find[t].cell, entry |-> Unused, then |-> "removed"]
    BY <2>1, <2>2, TypeParts, EntryTypes DEF WriteType, Labels
  <2>4. PcType' /\ pc'[t] = "write1"
    BY <2>1, PcTypeKept DEF Labels
  <2>5. TypeOK'
    BY <2>1, <2>3, <2>4, TypePartsNext, TypesKept
  <2>6. CallInv(t)' /\ InsertInv(t)' /\ RefsOn(bucket_refs'[t], {})
    BY <2>1, <2>2, <2>3, <2>4, WriterPhase DEF Control, CallInv, InsertInv, RefsInv
  <2> QED BY <2>3, <2>4, <2>5, <2>6, OutsideControl
<1>4. CASE Removed(t)
  <2>1. /\ pc[t] = "removed" /\ pc' = [pc EXCEPT ![t] = "undo"]
        /\ op' = [op EXCEPT ![t].added = RemoveAt(op[t].added, UndoIndex(t))]
        /\ UNCHANGED <<memory, handles, locks, add, rel, write, find, up, live>>
    BY <1>4 DEF Removed
  <2>2. RemoveAt(op[t].added, UndoIndex(t)) \in Seq(Nodes)
    BY <2>1, UndoFacts DEF Control, InsertInv
  <2>3. OpType' /\ op'[t] = [op[t] EXCEPT !.added = RemoveAt(op[t].added, UndoIndex(t))]
    BY <2>1, <2>2, TypeParts DEF OpType
  <2>4. PcType' /\ pc'[t] = "undo"
    BY <2>1, PcTypeKept DEF Labels
  <2>5. TypeOK'
    BY <2>1, <2>3, <2>4, TypePartsNext, TypesKept
  <2>6. op'[t].inserts = op[t].inserts
    BY <2>3, TypeParts DEF OpType
  <2>7. CallInv(t)' /\ InsertInv(t)' /\ RefsOn(bucket_refs'[t], {})
    BY <2>1, <2>4, <2>6, WriterPhase DEF Control, CallInv, InsertInv, RefsInv
  <2> QED BY <2>4, <2>5, <2>7, OutsideControl
<1>5. CASE Retry(t)
  <2>1. /\ pc[t] = "undo" /\ pc' = [pc EXCEPT ![t] = "release_retry"]
        /\ UNCHANGED <<memory, handles, locks, op, add, rel, write, find, up, live>>
    BY <1>5 DEF Retry
  <2>2. PcType' /\ pc'[t] = "release_retry"
    BY <2>1, PcTypeKept DEF Labels
  <2>3. TypeOK'
    BY <2>1, <2>2, TypePartsNext, TypesKept
  <2>4. CallInv(t)' /\ InsertInv(t)' /\ RefsOn(bucket_refs'[t], {})
    BY <2>1, <2>2, WriterPhase DEF Control, CallInv, InsertInv, RefsInv
  <2> QED BY <2>2, <2>3, <2>4, OutsideControl
<1>6. CASE ReleaseAllNext(t)
  <2>1. /\ pc[t] \in {"release", "release_retry"}
        /\ UNCHANGED <<rl, pc, op, add, rel, write, find, up, live>>
    BY <1>6 DEF ReleaseAllNext
  <2>2. PICK b \in Buckets :
          /\ Store(t, "unlock", <<b, 0>>, Unused)
          /\ bucket_refs' = [bucket_refs EXCEPT ![t][b] = 0]
          /\ entry_locks' = [entry_locks EXCEPT ![t] = {p \in @ : BucketOf(p) # b}]
    BY <1>6 DEF ReleaseAllNext
  <2>3. scenario' = scenario /\ MemoryType'
    BY <2>2, StoreType, EntryTypes
  <2>4. LockType' /\ bucket_refs'[t] = [bucket_refs[t] EXCEPT ![b] = 0]
    BY <2>2, TypeParts DEF LockType
  <2>5. PcType'
    BY <2>1, TypeParts DEF PcType
  <2>6. TypeOK'
    BY <2>1, <2>3, <2>4, <2>5, TypePartsNext, TypesKept
  <2>7. RefsOn(bucket_refs'[t], {})
    BY <2>1, <2>4 DEF Control, RefsInv, RefsOn
  <2>8. CallInv(t)' /\ InsertInv(t)'
    BY <2>1, <2>3, WriterPhase DEF Control, CallInv, InsertInv
  <2> QED BY <2>1, <2>6, <2>7, <2>8, OutsideControl
<1>7. CASE InsertReturn(t)
  BY <1>7, ReturnControl
<1>8. CASE RetryInsert(t)
  BY <1>8, PlanControl, WriterPhase DEF RetryInsert
<1> QED BY <1>1, <1>2, <1>3, <1>4, <1>5, <1>6, <1>7, <1>8 DEF InsertEnd

(* An insert or a lookup begins.                                           *)
LEMMA BeginControl ==
  ASSUME TypeOK, NEW t \in Threads, Control(t), BeginInsert(t) \/ BeginLookup(t)
  PROVE  TypeOK' /\ Control(t)'
<1>1. CASE BeginInsert(t)
  BY <1>1, PlanControl DEF BeginInsert
<1>2. CASE BeginLookup(t)
  <2>1. PICK node \in live : CallFind(t, node, "found")
    BY <1>2 DEF BeginLookup
  <2>2. node \in Nodes
    BY <2>1, TypeParts DEF LiveType
  <2> QED BY <1>2, <2>1, <2>2, CallFindControl DEF BeginLookup
<1> QED BY <1>1, <1>2

(* A store leaves the buffer: no locals change.                            *)
LEMMA DrainControl ==
  ASSUME TypeOK, NEW t \in Threads, Control(t), Drain(t)
  PROVE  TypeOK' /\ Control(t)'
<1>1. /\ buf[t] # <<>> /\ Reach(Head(buf[t])) /\ Outdate(Head(buf[t]), Threads \ {t})
      /\ buf' = [buf EXCEPT ![t] = Tail(@)]
      /\ UNCHANGED <<rl, locks, pc, op, add, rel, write, find, up, live>>
  BY DEF Drain
<1>2. MemoryType /\ buf[t] \in Seq(Stores)
  BY TypeParts DEF MemoryType
<1>3. Head(buf[t]) \in Stores /\ Tail(buf[t]) \in Seq(Stores)
  BY <1>1, <1>2
<1>4. buf' \in [Threads -> Seq(Stores)]
  BY <1>1, <1>2, <1>3 DEF MemoryType
<1>5. MemoryType' /\ scenario' = scenario
  BY <1>1, <1>2, <1>3, <1>4, ReachType, OutdateType DEF MemoryType
<1>6. PcType'
  BY <1>1, TypeParts DEF PcType
<1>7. TypeOK'
  BY <1>1, <1>5, <1>6, TypePartsNext, TypesKept
<1>8. locals(t)' = locals(t)
  BY <1>1 DEF locals
<1> QED BY <1>5, <1>7, <1>8, ControlIsLocal

(* The invariant holds when the threads have done nothing.                 *)
LEMMA ControlInit == Init => CInv
<1> SUFFICES ASSUME Init PROVE CInv
  OBVIOUS
<1>1. TypeOK
  <2>1. /\ scenario \in Scenarios /\ scenario.inserts \in Nat
    BY ScenariosAssumption DEF Init
  <2>2. MemoryType
    BY <2>1, EntryTypes DEF Init, MemoryType
  <2>3. PcType /\ OpType /\ AddType /\ RelType /\ LockType /\ LiveType
    BY <2>1 DEF Init, PcType, OpType, AddType, RelType, LockType, LiveType, Labels, NoInsert, NoAdd
  <2>4. WriteType /\ HandleType
    BY EntryTypes, HandleTypes DEF Init, WriteType, HandleType, NoWrite, Labels
  <2>5. FindType
    BY DEF Init, FindType, NoFind, Labels
  <2> QED BY <2>2, <2>3, <2>4, <2>5, TypeParts
<1>2. ASSUME NEW t \in Threads PROVE Control(t)
  <2>1. pc[t] = "idle" /\ op[t].added = <<>> /\ RefsOn(bucket_refs[t], {})
    BY DEF Init, NoInsert, RefsOn
  <2> QED BY <2>1 DEF Control, CallInv, InsertInv, AddInv, QueueInv, RefsInv, PathInv
<1> QED BY <1>1, <1>2 DEF CInv

(* Every step of a thread keeps what is known about it.                    *)
LEMMA ControlStep ==
  ASSUME TypeOK, NEW t \in Threads, Control(t),
         Step(t) \/ BeginInsert(t) \/ BeginLookup(t) \/ Drain(t)
  PROVE  TypeOK' /\ Control(t)'
<1>1. CASE AddStep(t)
  BY <1>1, ReadLocks, Scans, PutEntryControl, ReadUnlockControl, AddReturnControl DEF AddStep
<1>2. CASE upgrade_bucket_lock(t)
  BY <1>2, UpgradeControl
<1>3. CASE relocate_entry(t)
  BY <1>3, RelocateControl, SearchExamineControl, SearchReadLockControl, SearchScanControl,
     MoveEntryControl, MoveNextControl, ReleaseFreeControl, ReleasePathControl,
     RelocateReturnControl, RelocationFails
     DEF relocate_entry, SearchStep, MoveStep, RelocateEnd
<1>4. CASE write_entry(t) \/ find_entry_in_pair_by_color(t)
  BY <1>4, WriteEntryControl, FindControl
<1>5. CASE InsertEnd(t) \/ LookupReturn(t)
  BY <1>5, InsertEndControl, ReturnControl
<1>6. CASE BeginInsert(t) \/ BeginLookup(t) \/ Drain(t)
  BY <1>6, BeginControl, DrainControl
<1> QED BY <1>1, <1>2, <1>3, <1>4, <1>5, <1>6 DEF Step, add_entry

(* At each point of an insert a thread has the locals, the handles and the *)
(* bucket references that the code relies on, whatever the other threads   *)
(* do, with and without store buffers.                                     *)
THEOREM ControlInvariant == Spec => []CInv
<1>1. CInv /\ [Next]_vars => CInv'
  <2> SUFFICES ASSUME CInv, [Next]_vars PROVE CInv'
    OBVIOUS
  <2>1. CASE UNCHANGED vars
    <3>1. TypeOK'
      <4>1. PcType'
        BY <2>1, TypeParts DEF CInv, vars, PcType
      <4> QED BY <2>1, <4>1, TypePartsNext, TypesKept DEF CInv, vars
    <3>2. ASSUME NEW t \in Threads PROVE Control(t)'
      BY <2>1, ControlIsLocal DEF CInv, vars, locals
    <3> QED BY <3>1, <3>2 DEF CInv
  <2>2. ASSUME NEW t \in Threads, Step(t) \/ BeginInsert(t) \/ BeginLookup(t) \/ Drain(t)
        PROVE  CInv'
    <3>1. TypeOK' /\ Control(t)'
      BY <2>2, ControlStep DEF CInv
    <3>2. ASSUME NEW u \in Threads \ {t} PROVE Control(u)'
      <4>1. scenario' = scenario /\ locals(u)' = locals(u)
        BY <2>2, StepIsLocal DEF CInv, Others
      <4> QED BY <4>1, ControlIsLocal DEF CInv
    <3> QED BY <3>1, <3>2 DEF CInv
  <2> QED BY <2>1, <2>2 DEF Next, Terminated
<1> QED BY <1>1, ControlInit, PTL DEF Spec

(* Every variable keeps the shape of its C object: no add_entry runs past  *)
(* its plan, no color is invalid, no walk of relocate_entry leaves its     *)
(* queue.                                                                  *)
THEOREM TypeCorrect == Spec => []TypeOK
BY ControlInvariant, PTL DEF CInv

(* When relocate_entry returns, add_entry holds exactly the bucket it adds *)
(* to, also when an upgrade on the path failed half way: release_locks     *)
(* finds every lock by counting, and no other.                             *)
THEOREM RelocationLeavesNoLocks == Spec => []RelocationReleasesLocks
<1>1. ASSUME CInv PROVE RelocationReleasesLocks
  <2> SUFFICES ASSUME NEW t \in Writers, pc[t] \in {"put", "relocate_failed"}
      PROVE  LET kept == IF pc[t] = "put" THEN BucketOf(add[t].result) ELSE Primary(t)
             IN  bucket_refs[t] = [b \in Buckets |-> IF b = kept THEN 1 ELSE 0]
    BY DEF RelocationReleasesLocks
  <2>1. RefsInv(t) /\ Phase(t) = pc[t]
    BY <1>1 DEF CInv, Control, Threads, Phase, WritePcs, FindPcs
  <2>2. CASE pc[t] = "put"
    <3>1. RefsOn(bucket_refs[t], {BucketOf(add[t].result)})
      BY <2>1, <2>2 DEF RefsInv
    <3> QED BY <3>1, <2>2 DEF RefsOn
  <2>3. CASE pc[t] = "relocate_failed"
    <3>1. RefsOn(bucket_refs[t], {Primary(t)})
      BY <2>1, <2>3 DEF RefsInv
    <3> QED BY <3>1, <2>3 DEF RefsOn
  <2> QED BY <2>2, <2>3
<1> QED BY <1>1, ControlInvariant, PTL

-----------------------------------------------------------------------------
(* Locks, and the cells that are written. *)

HIDE DEF Phase, WritePcs, FindPcs, Adding, Relocating, ForAdd, ForFree, ForPath, UpgradePcs,
         SearchPhases, MovePhases, ReleasePhases, Goto, memory, handles, locks

(* What write_entry was given, for each of its callers.                    *)
WriteInv(t) ==
  /\ pc[t] \in WritePcs =>
       /\ Phase(t) \in {"read_unlock", "withdrawn", "release_free"} => write[t].cell = add[t].result
       /\ Phase(t) = "moved" => write[t].cell = rel[t].free
       /\ Phase(t) = "removed" => write[t].cell = find[t].cell
       /\ Phase(t) \in {"withdrawn", "release_free", "removed"} => write[t].entry = Unused
       /\ Phase(t) = "release_free" => rel[t].ok
  /\ Phase(t) = "read_unlock" =>
       write[t].entry = [id |-> NodeId(t), home |-> Primary(t), tag |-> NodeHash(t).tag,
                         color |-> write[t].entry.color, secondary |-> add[t].handle = SECONDARY]

(* The free cell is in the bucket the search ended in, or is the one the   *)
(* last move has emptied; the cell to be moved is where its bucket is      *)
(* noted in the queue.                                                     *)
MoveInv(t) ==
  /\ ForFree(t) \/ ForPath(t) => BucketOf(rel[t].free) = rel[t].child_bucket /\ rel[t].child = rel[t].i
  /\ Phase(t) \in MovePhases =>
       \/ /\ BucketOf(rel[t].free) = rel[t].child_bucket
          /\ rel[t].walk = rel[t].pos /\ rel[t].child = rel[t].i
       \/ \E j \in Locked(t, bucket_refs[t]) :
            /\ BucketOf(rel[t].free) = BucketAt(t, j)
            /\ rel[t].walk = ParentAt(t, j) /\ rel[t].child = rel[t].queue[j].child

(* The cell whose entry moves to the bucket at position j.                 *)
PathCell(t, j) == <<BucketAt(t, ParentAt(t, j)), rel[t].queue[j].child>>

RootLoc == [bucket |-> 0, tag |-> 0, color |-> 0]

(* No cell that relocate_entry has to leave alone is on its path.          *)
PathFixed(t) ==
  Relocating(t) =>
    /\ \A j \in Positions(t) \ {1} : PathCell(t, j) \notin {RootCell, rel[t].immovable}
    /\ Phase(t) # "search" => SearchCell(t) \notin {RootCell, rel[t].immovable}
    /\ Phase(t) \notin SearchPhases => rel[t].free # RootCell

(* Nothing the thread writes to is the cell of the root.                   *)
CellsFixed(t) ==
  /\ add[t].result # RootCell
  /\ pc[t] \in WritePcs => write[t].cell # RootCell
  /\ Phase(t) = "remove" /\ pc[t] \in {"find3", "remove"} => find[t].cell # RootCell

(* No node of the insert has the locator of the root.                      *)
NodesFixed(t) ==
  /\ \A i \in DOMAIN op[t].added : op[t].added[i].loc # RootLoc
  /\ Phase(t) = "remove" => find[t].node.loc # RootLoc
  /\ Phase(t) = "read_unlock" =>
       [bucket |-> Primary(t), tag |-> NodeHash(t).tag, color |-> write[t].entry.color] # RootLoc

Place(t) == WriteInv(t) /\ MoveInv(t) /\ PathFixed(t) /\ CellsFixed(t) /\ NodesFixed(t)

(* Nobody has written to the cell of the root or is about to.              *)
RootInv ==
  /\ cells[RootCell] = Root
  /\ \A t \in Threads : \A i \in DOMAIN buf[t] : buf[t][i].kind = "cell" => buf[t][i].cell # RootCell

PInv == RootInv /\ \A t \in Threads : Place(t)

-----------------------------------------------------------------------------
(* Locks have one owner, who has no unlock of its own under way, and there *)
(* is no second unlock for the same lock.                                  *)
LockInv ==
  /\ ~scenario.buffered => \A t \in Threads : buf[t] = <<>>
  /\ \A b \in Buckets : lock[b] = 1 <=> \E t \in Threads : Owns(t, b)
  /\ \A b \in Buckets : \A t, u \in Threads : Owns(t, b) /\ Owns(u, b) => t = u
  /\ \A b \in Buckets : \A t \in Threads :
       /\ Held(t, b) => Pending(t, "unlock", b) = {}
       /\ \A i, j \in Pending(t, "unlock", b) : i = j

-----------------------------------------------------------------------------
(* Owners of locks. *)

(* The locks of a thread are what its lock manager counts.                 *)
LEMMA HeldKept ==
  ASSUME bucket_refs' = bucket_refs, entry_locks' = entry_locks
  PROVE  \A u, b : Held(u, b)' = Held(u, b)
BY DEF Held

(* An unlock is on its way as long as it is in the store buffer.           *)
LEMMA PendingKept ==
  ASSUME buf' = buf
  PROVE  \A u, b : Pending(u, "unlock", b)' = Pending(u, "unlock", b)
BY DEF Pending

(* Of all stores only unlocks, made by release_bucket_lock and             *)
(* release_all_locks, concern the lock bytes: without a buffer they clear  *)
(* them at once, with one they wait in it.                                 *)
LEMMA StorePending ==
  ASSUME TypeOK, NEW t \in Threads, NEW kind \in {"seq", "cell", "unlock"}, NEW p \in Cells,
         NEW e \in Entries, Store(t, kind, p, e)
  PROVE  /\ scenario' = scenario
         /\ ~scenario.buffered => buf' = buf
         /\ kind # "unlock" => /\ lock' = lock
                               /\ \A u, b : Pending(u, "unlock", b)' = Pending(u, "unlock", b)
         /\ kind = "unlock" /\ ~scenario.buffered => lock' = [lock EXCEPT ![BucketOf(p)] = 0]
         /\ kind = "unlock" /\ scenario.buffered =>
              /\ lock' = lock
              /\ \A u \in Threads : \A b :
                   Pending(u, "unlock", b)' = IF u = t /\ b = BucketOf(p)
                                                THEN Pending(u, "unlock", b) \cup {Len(buf[t]) + 1}
                                                ELSE Pending(u, "unlock", b)
<1> DEFINE s == [kind |-> kind, bucket |-> BucketOf(p), cell |-> p, entry |-> e]
<1>1. buf \in [Threads -> Seq(Stores)] /\ s.kind = kind /\ s.bucket = BucketOf(p)
  BY DEF TypeOK
<1>2. CASE ~scenario.buffered
  <2>1. Reach(s) /\ buf' = buf
    BY <1>2, Zenon DEF Store
  <2>2. \A u, b : Pending(u, "unlock", b)' = Pending(u, "unlock", b)
    BY <2>1, PendingKept
  <2>3. scenario' = scenario /\ lock' = IF kind = "unlock" THEN [lock EXCEPT ![BucketOf(p)] = 0] ELSE lock
    BY <2>1 DEF Reach
  <2> QED BY <1>2, <2>1, <2>2, <2>3
<1>3. CASE scenario.buffered
  <2>1. buf' = [buf EXCEPT ![t] = Append(buf[t], s)] /\ lock' = lock /\ scenario' = scenario
    BY <1>3 DEF Store
  <2> HIDE DEF s
  <2>2. ASSUME NEW u \in Threads, NEW b
        PROVE  Pending(u, "unlock", b)' = IF u = t /\ kind = "unlock" /\ b = BucketOf(p)
                                            THEN Pending(u, "unlock", b) \cup {Len(buf[t]) + 1}
                                            ELSE Pending(u, "unlock", b)
    <3>1. CASE u # t
      BY <2>1, <3>1, <1>1 DEF Pending
    <3>2. CASE u = t
      <4>1. buf'[t] = Append(buf[t], s) /\ Len(buf[t]) \in Nat /\ buf[t] \in Seq(Stores)
        BY <2>1, <1>1
      <4>2. DOMAIN buf'[t] = 1..(Len(buf[t]) + 1) /\ DOMAIN buf[t] = 1..Len(buf[t])
        BY <4>1
      <4>3. \A i \in 1..Len(buf[t]) : buf'[t][i] = buf[t][i]
        BY <4>1
      <4>4. buf'[t][Len(buf[t]) + 1] = s
        BY <4>1
      <4> QED BY <3>2, <4>1, <4>2, <4>3, <4>4, <1>1 DEF Pending
    <3> QED BY <3>1, <3>2
  <2>3. \A u : u \notin Threads => \A b : Pending(u, "unlock", b)' = Pending(u, "unlock", b)
    BY <2>1, <1>1 DEF Pending
  <2> QED BY <1>3, <2>1, <2>2, <2>3
<1> QED BY <1>2, <1>3

(* Whoever takes and releases no lock leaves all owners as they are.       *)
LEMMA LocksQuiet ==
  ASSUME LockInv, scenario' = scenario, lock' = lock,
         \A u \in Threads, b \in Buckets : Held(u, b)' = Held(u, b)
                                       /\ Pending(u, "unlock", b)' = Pending(u, "unlock", b),
         ~scenario.buffered => buf' = buf
  PROVE  LockInv'
<1>1. \A u \in Threads, b \in Buckets : Owns(u, b)' = Owns(u, b)
  BY DEF Owns
<1> QED BY <1>1 DEF LockInv

(* A thread that gives up a bucket by storing an unlock owns it until the  *)
(* store is in memory.                                                     *)
LEMMA LockReleased ==
  ASSUME TypeOK, LockInv, NEW t \in Threads, NEW b \in Buckets, Held(t, b), ~Held(t, b)',
         \A u \in Threads, c \in Buckets : u # t \/ c # b => Held(u, c)' = Held(u, c),
         Store(t, "unlock", <<b, 0>>, Unused)
  PROVE  LockInv'
<1>0. <<b, 0>> \in Cells /\ BucketOf(<<b, 0>>) = b /\ Unused \in Entries
  BY EntryTypes DEF BucketOf
<1>1. /\ scenario' = scenario
      /\ ~scenario.buffered => buf' = buf /\ lock' = [lock EXCEPT ![b] = 0]
      /\ scenario.buffered =>
              /\ lock' = lock
              /\ \A u \in Threads : \A c :
                   Pending(u, "unlock", c)' = IF u = t /\ c = b
                                                THEN Pending(u, "unlock", c) \cup {Len(buf[t]) + 1}
                                                ELSE Pending(u, "unlock", c)
  BY <1>0, StorePending
<1>2. lock \in [Buckets -> 0..1] /\ Pending(t, "unlock", b) = {}
  BY DEF TypeOK, LockInv
<1>3. CASE ~scenario.buffered
  <2>1. \A u, c : Pending(u, "unlock", c)' = Pending(u, "unlock", c)
    BY <1>1, <1>3, PendingKept
  <2>2. ASSUME NEW u \in Threads, NEW c \in Buckets PROVE Owns(u, c)' <=> (Owns(u, c) /\ c # b)
    <3>1. CASE c # b
      BY <3>1, <2>1 DEF Owns
    <3>2. CASE c = b
      <4>1. Pending(u, "unlock", b) = {}
        BY <1>3 DEF LockInv, Pending
      <4>2. u # t => ~Held(u, b)
        BY DEF LockInv, Owns
      <4> QED BY <3>2, <4>1, <4>2, <2>1 DEF Owns
    <3> QED BY <3>1, <3>2
  <2>3. \A u \in Threads, c \in Buckets : Held(u, c)' => Held(u, c)
    BY DEF LockInv, Owns
  <2>4. ASSUME NEW c \in Buckets PROVE lock'[c] = 1 <=> \E u \in Threads : Owns(u, c)'
    <3>1. lock'[c] = IF c = b THEN 0 ELSE lock[c]
      BY <1>1, <1>2, <1>3
    <3>2. lock[c] = 1 <=> \E u \in Threads : Owns(u, c)
      BY DEF LockInv
    <3>3. CASE c = b
      <4>1. lock'[c] = 0 /\ \A u \in Threads : ~Owns(u, c)'
        BY <3>1, <3>3, <2>2
      <4> QED BY <4>1
    <3>4. CASE c # b
      <4>1. lock'[c] = lock[c] /\ \A u \in Threads : Owns(u, c)' <=> Owns(u, c)
        BY <3>1, <3>4, <2>2
      <4> QED BY <4>1, <3>2
    <3> QED BY <3>3, <3>4
  <2>5. \A c \in Buckets : \A u, v \in Threads : Owns(u, c)' /\ Owns(v, c)' => u = v
    BY <2>2 DEF LockInv
  <2>6. \A c \in Buckets : \A u \in Threads :
          (Held(u, c)' => Pending(u, "unlock", c)' = {}) /\ \A i, j \in Pending(u, "unlock", c)' : i = j
    BY <2>1, <2>3 DEF LockInv
  <2> QED BY <1>1, <1>3, <2>4, <2>5, <2>6 DEF LockInv
<1>4. CASE scenario.buffered
  <2>1. \A u \in Threads, c \in Buckets : Owns(u, c)' = Owns(u, c)
    BY <1>1, <1>2, <1>4 DEF Owns
  <2>2. \A u \in Threads, c \in Buckets : Held(u, c)' => Held(u, c) /\ Pending(u, "unlock", c)' = Pending(u, "unlock", c)
    BY <1>1, <1>4
  <2>3. \A u \in Threads, c \in Buckets : \A i, j \in Pending(u, "unlock", c)' : i = j
    BY <1>1, <1>2, <1>4 DEF LockInv
  <2> QED BY <1>1, <1>4, <2>1, <2>2, <2>3 DEF LockInv
<1> QED BY <1>3, <1>4

(* release_bucket_lock: the unlock is stored with the last reference,      *)
(* unless an entry of the bucket is still locked.                          *)
LEMMA BucketReleased ==
  ASSUME TypeOK, LockInv, NEW t \in Threads, NEW b \in Buckets, bucket_refs[t][b] >= 1,
         release_bucket_lock(t, b), entry_locks' = entry_locks
  PROVE  LockInv'
<1>1. bucket_refs \in [Threads -> [Buckets -> Nat]] /\ bucket_refs' = [bucket_refs EXCEPT ![t][b] = bucket_refs[t][b] - 1]
  BY DEF TypeOK, release_bucket_lock
<1>2. /\ Held(t, b)
      /\ \A u \in Threads, c \in Buckets : u # t \/ c # b => Held(u, c)' = Held(u, c)
  BY <1>1 DEF Held
<1>3. CASE bucket_refs[t][b] = 1 /\ ~\E p \in entry_locks[t] : BucketOf(p) = b
  <2>1. Store(t, "unlock", <<b, 0>>, Unused)
    BY <1>3 DEF release_bucket_lock
  <2>2. ~Held(t, b)'
    BY <1>1, <1>3 DEF Held
  <2> QED BY <1>2, <2>1, <2>2, LockReleased
<1>4. CASE ~(bucket_refs[t][b] = 1 /\ ~\E p \in entry_locks[t] : BucketOf(p) = b)
  <2>1. UNCHANGED <<memory, stale>>
    BY <1>4 DEF release_bucket_lock
  <2>2. Held(t, b)' = Held(t, b)
    BY <1>1, <1>4 DEF Held
  <2>3. \A u \in Threads, c \in Buckets : Held(u, c)' = Held(u, c)
    BY <1>2, <2>2
  <2> QED BY <2>1, <2>3, LocksQuiet, PendingKept DEF memory
<1> QED BY <1>3, <1>4

(* The exchange in upgrade_bucket_lock takes a lock byte that was zero, so *)
(* nobody else owns the bucket.                                            *)
LEMMA LockAcquired ==
  ASSUME TypeOK, LockInv, NEW t \in Threads, NEW b \in Buckets, lock[b] = 0,
         lock' = [lock EXCEPT ![b] = 1], AddBucketRef(t, b), entry_locks' = entry_locks,
         buf' = buf, scenario' = scenario, buf[t] = <<>>
  PROVE  LockInv'
<1>1. /\ bucket_refs \in [Threads -> [Buckets -> Nat]]
      /\ bucket_refs' = [bucket_refs EXCEPT ![t][b] = bucket_refs[t][b] + 1]
      /\ lock \in [Buckets -> 0..1]
  BY DEF TypeOK, AddBucketRef
<1>2. \A u, c : Pending(u, "unlock", c)' = Pending(u, "unlock", c)
  BY PendingKept
<1>3. Held(t, b)' /\ \A u \in Threads, c \in Buckets : u # t \/ c # b => Held(u, c)' = Held(u, c)
  BY <1>1 DEF Held
<1>4. \A u \in Threads : ~Owns(u, b)
  BY DEF LockInv
<1>5. Pending(t, "unlock", b) = {}
  BY <1>4 DEF Owns
<1>6. \A u \in Threads, c \in Buckets : Owns(u, c)' <=> (Owns(u, c) \/ (u = t /\ c = b))
  BY <1>2, <1>3, <1>4 DEF Owns
<1>7. ASSUME NEW c \in Buckets PROVE lock'[c] = 1 <=> \E u \in Threads : Owns(u, c)'
  <2>1. CASE c = b
    BY <1>1, <1>6, <2>1
  <2>2. CASE c # b
    <3>1. lock'[c] = lock[c] /\ \A u \in Threads : Owns(u, c)' <=> Owns(u, c)
      BY <1>1, <1>6, <2>2
    <3>2. lock[c] = 1 <=> \E u \in Threads : Owns(u, c)
      BY DEF LockInv
    <3> QED BY <3>1, <3>2
  <2> QED BY <2>1, <2>2
<1>8. \A c \in Buckets : \A u, v \in Threads : Owns(u, c)' /\ Owns(v, c)' => u = v
  BY <1>4, <1>6 DEF LockInv
<1>9. \A c \in Buckets : \A u \in Threads :
        (Held(u, c)' => Pending(u, "unlock", c)' = {}) /\ \A i, j \in Pending(u, "unlock", c)' : i = j
  BY <1>2, <1>3, <1>5 DEF LockInv
<1> QED BY <1>7, <1>8, <1>9 DEF LockInv

(* A store reaches memory; if it is an unlock, the bucket is nobody's.     *)
LEMMA UnlockDrained ==
  ASSUME TypeOK, LockInv, NEW t \in Threads, Drain(t)
  PROVE  LockInv'
<1> DEFINE s == buf[t][1]
<1>1. /\ buf \in [Threads -> Seq(Stores)] /\ lock \in [Buckets -> 0..1] /\ buf[t] # <<>>
      /\ buf' = [buf EXCEPT ![t] = Tail(buf[t])] /\ Reach(s) /\ UNCHANGED locks
  BY DEF TypeOK, Drain
<1>2. s \in Stores
  BY <1>1
<1>3. /\ scenario' = scenario
      /\ lock' = IF s.kind = "unlock" THEN [lock EXCEPT ![s.bucket] = 0] ELSE lock
  BY <1>1 DEF Reach
<1>4. scenario.buffered
  BY <1>1 DEF LockInv
<1>5. \A u \in Threads, c \in Buckets : Held(u, c)' = Held(u, c)
  BY <1>1, HeldKept DEF locks
<1>6. Len(buf[t]) \in Nat /\ DOMAIN buf[t] = 1..Len(buf[t]) /\ DOMAIN buf'[t] = 1..(Len(buf[t]) - 1)
      /\ \A i \in DOMAIN buf'[t] : buf'[t][i] = buf[t][i + 1]
  BY <1>1
<1>7. \A u \in Threads \ {t} : \A c : Pending(u, "unlock", c)' = Pending(u, "unlock", c)
  BY <1>1 DEF Pending
<1>8. \A c : \A i : i \in Pending(t, "unlock", c)' <=> i \in Nat \ {0} /\ i + 1 \in Pending(t, "unlock", c)
  BY <1>6 DEF Pending
<1>9. ASSUME NEW c \in Buckets, ~(s.kind = "unlock" /\ s.bucket = c)
      PROVE  Pending(t, "unlock", c)' = {} <=> Pending(t, "unlock", c) = {}
  <2>1. 1 \notin Pending(t, "unlock", c) /\ Pending(t, "unlock", c) \subseteq Nat \ {0}
    BY <1>9, <1>6 DEF Pending
  <2>2. \A i \in Pending(t, "unlock", c) : i \in Nat /\ i >= 2 /\ (i - 1) + 1 = i /\ i - 1 \in Nat \ {0}
    BY <2>1
  <2>3. \A i \in Pending(t, "unlock", c) : i - 1 \in Pending(t, "unlock", c)'
    BY <2>2, <1>8
  <2> QED BY <2>3, <1>8
<1>10. \A c \in Buckets : \A u \in Threads : \A i, j \in Pending(u, "unlock", c)' : i = j
  <2> SUFFICES ASSUME NEW c \in Buckets, NEW u \in Threads, NEW i \in Pending(u, "unlock", c)', NEW j \in Pending(u, "unlock", c)'
      PROVE i = j
    OBVIOUS
  <2>1. CASE u # t
    BY <2>1, <1>7 DEF LockInv
  <2>2. CASE u = t
    <3>1. i \in Nat /\ j \in Nat /\ i + 1 \in Pending(t, "unlock", c) /\ j + 1 \in Pending(t, "unlock", c)
      BY <2>2, <1>8
    <3>2. i + 1 = j + 1
      BY <3>1 DEF LockInv
    <3> QED BY <3>1, <3>2
  <2> QED BY <2>1, <2>2
<1>11. \A c \in Buckets : \A u \in Threads : Held(u, c)' => Pending(u, "unlock", c)' = {}
  <2> SUFFICES ASSUME NEW c \in Buckets, NEW u \in Threads, Held(u, c)' PROVE Pending(u, "unlock", c)' = {}
    OBVIOUS
  <2>1. Pending(u, "unlock", c) = {}
    BY <1>5 DEF LockInv
  <2> QED BY <2>1, <1>7, <1>8
<1>12. CASE s.kind # "unlock"
  <2>1. \A u \in Threads, c \in Buckets : Owns(u, c)' <=> Owns(u, c)
    BY <1>5, <1>7, <1>9, <1>12 DEF Owns
  <2> QED BY <1>3, <1>4, <1>10, <1>11, <1>12, <2>1 DEF LockInv
<1>13. CASE s.kind = "unlock"
  <2>1. PICK b \in Buckets : b = s.bucket
    BY <1>2 DEF Stores
  <2>2. 1 \in Pending(t, "unlock", b)
    BY <1>13, <2>1, <1>6, <1>1 DEF Pending
  <2>3. \A i \in Pending(t, "unlock", b) : i = 1
    BY <2>2 DEF LockInv
  <2>4. Pending(t, "unlock", b)' = {}
    <3>1. \A i \in Nat \ {0} : i + 1 \notin Pending(t, "unlock", b)
      BY <2>3
    <3> QED BY <3>1, <1>8
  <2>5. Owns(t, b)
    BY <2>2 DEF Owns
  <2>6. \A u \in Threads \ {t} : ~Owns(u, b)
    BY <2>5 DEF LockInv
  <2>7. ~Held(t, b)
    BY <2>2 DEF LockInv
  <2>8. \A u \in Threads : ~Owns(u, b)'
    BY <2>4, <2>6, <2>7, <1>5, <1>7 DEF Owns
  <2>9. \A u \in Threads, c \in Buckets \ {b} : Owns(u, c)' <=> Owns(u, c)
    BY <1>5, <1>7, <1>9, <2>1 DEF Owns
  <2>10. lock' = [lock EXCEPT ![b] = 0]
    BY <1>3, <1>13, <2>1
  <2>11. ASSUME NEW c \in Buckets PROVE lock'[c] = 1 <=> \E u \in Threads : Owns(u, c)'
    <3>1. CASE c = b
      <4>1. lock'[c] = 0
        BY <3>1, <2>10, <1>1
      <4> QED BY <4>1, <3>1, <2>8
    <3>2. CASE c # b
      <4>1. lock'[c] = lock[c]
        BY <3>2, <2>10, <1>1
      <4>2. lock[c] = 1 <=> \E u \in Threads : Owns(u, c)
        BY DEF LockInv
      <4> QED BY <4>1, <4>2, <3>2, <2>9
    <3> QED BY <3>1, <3>2
  <2>12. \A c \in Buckets : \A u, v \in Threads : Owns(u, c)' /\ Owns(v, c)' => u = v
    BY <2>8, <2>9 DEF LockInv
  <2> QED BY <1>3, <1>4, <1>10, <1>11, <2>11, <2>12 DEF LockInv
<1> QED BY <1>12, <1>13

-----------------------------------------------------------------------------
(* The cells a thread writes to. *)

(* What a thread knows about the cells it will write to depends on its     *)
(* locals only.                                                            *)
LEMMA PlaceIsLocal ==
  ASSUME NEW t \in Threads, Place(t), locals(t)' = locals(t)
  PROVE  Place(t)'
<1>1. /\ pc'[t] = pc[t] /\ op'[t] = op[t] /\ add'[t] = add[t] /\ rel'[t] = rel[t]
      /\ write'[t] = write[t] /\ find'[t] = find[t] /\ up'[t] = up[t]
      /\ bucket_refs'[t] = bucket_refs[t]
  BY DEF locals
<1>2. Phase(t)' = Phase(t) /\ ForAdd(t)' = ForAdd(t) /\ ForFree(t)' = ForFree(t) /\ ForPath(t)' = ForPath(t)
  BY <1>1, Zenon DEF Phase, ForAdd, ForFree, ForPath
<1>3. Relocating(t)' = Relocating(t)
  BY <1>2, Zenon DEF Relocating
<1>4. Primary(t)' = Primary(t) /\ NodeHash(t)' = NodeHash(t) /\ NodeId(t)' = NodeId(t)
  BY <1>1, Zenon DEF Primary, NodeHash, NodeNumber, NodeId
<1>5. WriteInv(t)'
  BY <1>1, <1>2, <1>4 DEF Place, WriteInv
<1>6. MoveInv(t)'
  BY <1>1, <1>2 DEF Place, MoveInv, Locked, Positions, BucketAt, ParentAt
<1>7. PathFixed(t)'
  BY <1>1, <1>2, <1>3 DEF Place, PathFixed, Positions, PathCell, BucketAt, ParentAt, SearchCell
<1>8. CellsFixed(t)'
  BY <1>1, <1>2 DEF Place, CellsFixed
<1>9. NodesFixed(t)'
  BY <1>1, <1>2, <1>4 DEF Place, NodesFixed
<1> QED BY <1>5, <1>6, <1>7, <1>8, <1>9 DEF Place

(* Every thread sees the root in its cell.                                 *)
LEMMA RootSeen ==
  ASSUME TypeOK, RootInv, NEW t \in Threads
  PROVE  Seen(t, RootCell) = Root /\ Root.id # None
<1>1. {i \in Pending(t, "cell", BucketOf(RootCell)) : buf[t][i].cell = RootCell} = {}
  BY DEF RootInv, Pending
<1> QED BY <1>1, NoneAssumption DEF Seen, RootInv, Root

(* find_free_cell_in_bucket never returns the cell of the root.            *)
LEMMA FreeIsNotRoot ==
  ASSUME TypeOK, RootInv, NEW t \in Threads, NEW b \in Buckets
  PROVE  find_free_cell_in_bucket(t, b) # RootCell
<1>1. CASE find_free_cell_in_bucket(t, b) = None
  BY <1>1, NoneAssumption, EntryTypes
<1>2. CASE find_free_cell_in_bucket(t, b) # None
  BY <1>2, FreeCellType, RootSeen
<1> QED BY <1>1, <1>2

USE DEF Phase, WritePcs, FindPcs, Adding, Relocating, ForAdd, ForFree, ForPath, UpgradePcs,
        SearchPhases, MovePhases, ReleasePhases, Goto, memory, handles, locks

(* Where the thread is in no called function, nor in relocate_entry.       *)
PlainPcs ==
  {"idle", "add", "add2", "scan_primary", "scan_secondary", "put", "added", "withdrawn", "publish",
   "undo", "removed", "release", "release_retry", "retry", "found", "relocate", "relocate_failed"}

(* Outside of write_entry, the searches and relocate_entry only the chosen *)
(* cell and the added nodes matter.                                        *)
LEMMA PlainPlace ==
  ASSUME NEW t \in Threads, pc'[t] \in PlainPcs \/ ForAdd(t)',
         add'[t].result # RootCell, \A i \in DOMAIN op'[t].added : op'[t].added[i].loc # RootLoc
  PROVE  Place(t)'
<1>1. /\ pc'[t] \notin WritePcs \cup FindPcs \cup MovePhases \cup SearchPhases \cup ReleasePhases \cup {"read_unlock", "remove"}
      /\ ~ForFree(t)' /\ ~ForPath(t)'
  BY HandleTypes DEF PlainPcs
<1>2. WriteInv(t)' /\ MoveInv(t)' /\ PathFixed(t)'
  BY <1>1 DEF WriteInv, MoveInv, PathFixed
<1>3. CellsFixed(t)' /\ NodesFixed(t)'
  BY <1>1 DEF CellsFixed, NodesFixed
<1> QED BY <1>2, <1>3 DEF Place

(* They are not those of the root while the thread does not choose again.  *)
LEMMA ResultFixed ==
  ASSUME NEW t \in Threads, Place(t), add'[t].result = add[t].result, op'[t].added = op[t].added
  PROVE  add'[t].result # RootCell /\ \A i \in DOMAIN op'[t].added : op'[t].added[i].loc # RootLoc
BY DEF Place, CellsFixed, NodesFixed

(* Reading the counters of the pair chooses no cell.                       *)
LEMMA ReadLocksPlace ==
  ASSUME TypeOK, NEW t \in Threads, Place(t), ReadLockPrimary(t) \/ ReadLockSecondary(t)
  PROVE  Place(t)'
<1>1. pc'[t] \in PlainPcs /\ add' = add /\ op' = op
  BY DEF ReadLockPrimary, ReadLockSecondary, PlainPcs, TypeOK
<1> QED BY <1>1, PlainPlace, ResultFixed

(* add_entry chooses a free cell, which is not the root's.                 *)
LEMMA ScansPlace ==
  ASSUME TypeOK, RootInv, NEW t \in Threads, Control(t), Place(t), ScanPrimary(t) \/ ScanSecondary(t)
  PROVE  Place(t)'
<1>1. /\ pc[t] \in {"scan_primary", "scan_secondary"} /\ op' = op
      /\ pc \in [Threads -> Labels] /\ up \in [Threads -> Handles]
      /\ add \in [Threads -> [result : Cells \cup {None}, handle : {PRIMARY, SECONDARY}]]
  BY DEF ScanPrimary, ScanSecondary, TypeOK
<1>2. Primary(t) \in Buckets /\ Secondary(t) \in Buckets
  BY <1>1, NodeTypes
<1>3. CASE add' = add
  <2>1. pc'[t] \in PlainPcs \/ ForAdd(t)'
    BY <1>1, <1>3 DEF ScanPrimary, ScanSecondary, PlainPcs, ChooseCell, CallUpgrade
  <2> QED BY <1>1, <1>3, <2>1, PlainPlace, ResultFixed
<1>4. ASSUME NEW b \in {Primary(t), Secondary(t)}, NEW h \in {PRIMARY, SECONDARY},
             ChooseCell(t, find_free_cell_in_bucket(t, b), h)
      PROVE  Place(t)'
  <2>1. add'[t].result = find_free_cell_in_bucket(t, b) /\ ForAdd(t)'
    BY <1>1, <1>4 DEF ChooseCell, CallUpgrade
  <2>2. add'[t].result # RootCell
    BY <2>1, <1>2, FreeIsNotRoot
  <2>3. \A i \in DOMAIN op'[t].added : op'[t].added[i].loc # RootLoc
    BY <1>1 DEF Place, NodesFixed
  <2> QED BY <2>1, <2>2, <2>3, PlainPlace
<1>5. CASE ScanPrimary(t)
  BY <1>3, <1>4, <1>5 DEF ScanPrimary
<1>6. CASE ScanSecondary(t)
  <2>1. PICK h \in {PRIMARY, SECONDARY} : ChooseCell(t, find_free_cell_in_bucket(t, Secondary(t)), h)
    BY <1>6 DEF ScanSecondary
  <2> QED BY <2>1, <1>4
<1> QED BY <1>5, <1>6

(* write_entry leaves its arguments alone until it returns.                *)
LEMMA WriteEntryPlace ==
  ASSUME TypeOK, NEW t \in Threads, Control(t), Place(t), write_entry(t)
  PROVE  Place(t)'
<1>1. /\ pc[t] \in WritePcs /\ op' = op /\ add' = add /\ rel' = rel /\ write' = write /\ find' = find
      /\ up' = up /\ bucket_refs' = bucket_refs
      /\ write[t].then \in {"read_unlock", "withdrawn", "moved", "release_free", "removed"}
      /\ pc'[t] \in WritePcs \/ pc'[t] = write[t].then
  BY DEF write_entry, TypeOK, Control, CallInv
<1>2. Phase(t) = write[t].then /\ Phase(t)' = write[t].then
  BY <1>1
<1>3. ~ForFree(t) /\ ~ForPath(t) /\ ~ForFree(t)' /\ ~ForPath(t)' /\ pc'[t] \notin {"find3", "remove"}
  BY <1>1
<1>4. Relocating(t)' = Relocating(t)
  BY <1>2, <1>3
<1> HIDE DEF Phase, Relocating, ForFree, ForPath
<1>5. Primary(t)' = Primary(t) /\ NodeHash(t)' = NodeHash(t) /\ NodeId(t)' = NodeId(t)
  BY <1>1 DEF Primary, NodeHash, NodeNumber, NodeId
<1>6. WriteInv(t)'
  BY <1>1, <1>2, <1>5 DEF Place, WriteInv
<1>7. MoveInv(t)'
  BY <1>1, <1>2, <1>3 DEF Place, MoveInv, Locked, Positions, BucketAt, ParentAt
<1>8. PathFixed(t)'
  BY <1>1, <1>2, <1>4 DEF Place, PathFixed, Positions, PathCell, BucketAt, ParentAt, SearchCell
<1>9. CellsFixed(t)'
  BY <1>1, <1>2, <1>3 DEF Place, CellsFixed
<1>10. NodesFixed(t)'
  BY <1>1, <1>2, <1>5 DEF Place, NodesFixed
<1> QED BY <1>6, <1>7, <1>8, <1>9, <1>10 DEF Place

(* The entry add_entry writes has another locator than the root: in the    *)
(* home bucket of the root, unused_color_in_pair sees the color of the     *)
(* root.                                                                   *)
LEMMA PutEntryPlace ==
  ASSUME TypeOK, RootInv, NEW t \in Threads, Control(t), Place(t), PutEntry(t)
  PROVE  Place(t)'
<1> DEFINE entry == [id |-> NodeId(t), home |-> Primary(t), tag |-> NodeHash(t).tag,
                     color |-> unused_color_in_pair(t), secondary |-> add[t].handle = SECONDARY]
<1>1. /\ pc[t] = "put" /\ op' = op /\ add' = add /\ pc'[t] = "write1"
      /\ write'[t] = [cell |-> add[t].result, entry |-> entry, then |-> "read_unlock"]
  BY DEF PutEntry, CallWrite, TypeOK
<1>2. Primary(t)' = Primary(t) /\ NodeHash(t)' = NodeHash(t) /\ NodeId(t)' = NodeId(t)
  BY <1>1 DEF Primary, NodeHash, NodeNumber, NodeId
<1>3. Primary(t) \in Buckets /\ Secondary(t) \in Buckets
  BY <1>1, NodeTypes
<1>4. [bucket |-> Primary(t), tag |-> NodeHash(t).tag, color |-> unused_color_in_pair(t)] # RootLoc
  <2> SUFFICES ASSUME Primary(t) = 0, unused_color_in_pair(t) = 0 PROVE FALSE
    BY DEF RootLoc
  <2>1. RootCell \in {Primary(t), Secondary(t)} \X CellNumbers
    BY CellsAssumption DEF RootCell, CellNumbers
  <2>2. Seen(t, RootCell).color = 0
    BY RootSeen DEF Root
  <2> QED BY <1>3, <2>1, <2>2, ColorIsValid
<1>5. WriteInv(t)' /\ MoveInv(t)' /\ PathFixed(t)'
  BY <1>1, <1>2 DEF WriteInv, MoveInv, PathFixed
<1>6. CellsFixed(t)' /\ NodesFixed(t)'
  BY <1>1, <1>2, <1>4 DEF Place, CellsFixed, NodesFixed
<1> QED BY <1>5, <1>6 DEF Place

(* The added node has the locator of the entry that was written.           *)
LEMMA ReadUnlockPlace ==
  ASSUME TypeOK, NEW t \in Threads, Control(t), Place(t), ReadUnlock(t)
  PROVE  Place(t)'
<1>1. pc[t] = "read_unlock" /\ add' = add
  BY DEF ReadUnlock
<1>2. CASE Fresh(t, AlternateHandle(t))
  <2>1. op' = [op EXCEPT ![t].added = Append(op[t].added, AddedNode(t))] /\ pc'[t] \in PlainPcs
    BY <1>2 DEF ReadUnlock, TypeOK, PlainPcs
  <2>2. op'[t].added = Append(op[t].added, AddedNode(t)) /\ op[t].added \in Seq(Nodes)
    BY <2>1 DEF TypeOK
  <2>3. AddedNode(t).loc # RootLoc
    BY <1>1 DEF AddedNode, Place, NodesFixed
  <2>4. \A i \in DOMAIN op'[t].added : op'[t].added[i] = AddedNode(t) \/ (i \in DOMAIN op[t].added /\ op'[t].added[i] = op[t].added[i])
    <3> HIDE DEF AddedNode
    <3> QED BY <2>2
  <2>5. \A i \in DOMAIN op'[t].added : op'[t].added[i].loc # RootLoc
    BY <2>3, <2>4 DEF Place, NodesFixed
  <2> QED BY <1>1, <2>1, <2>5, PlainPlace DEF Place, CellsFixed
<1>3. CASE ~Fresh(t, AlternateHandle(t))
  <2>1. /\ op' = op /\ pc'[t] = "write1"
        /\ write'[t] = [cell |-> add[t].result, entry |-> Unused, then |-> "withdrawn"]
    BY <1>3 DEF ReadUnlock, CallWrite, TypeOK
  <2>2. WriteInv(t)' /\ MoveInv(t)' /\ PathFixed(t)'
    BY <1>1, <2>1 DEF WriteInv, MoveInv, PathFixed
  <2>3. CellsFixed(t)' /\ NodesFixed(t)'
    BY <1>1, <2>1 DEF Place, CellsFixed, NodesFixed
  <2> QED BY <2>2, <2>3 DEF Place
<1> QED BY <1>2, <1>3

(* All of add_entry outside of upgrade_bucket_lock and relocate_entry.     *)
LEMMA AddStepPlace ==
  ASSUME TypeOK, RootInv, NEW t \in Threads, Control(t), Place(t), AddStep(t)
  PROVE  Place(t)'
<1>1. CASE AddReturn(t)
  <2>1. pc'[t] \in PlainPcs /\ add' = add /\ op' = op
    BY <1>1 DEF AddReturn, PlainPcs, TypeOK
  <2> QED BY <2>1, PlainPlace, ResultFixed
<1> QED BY <1>1, ReadLocksPlace, ScansPlace, PutEntryPlace, ReadUnlockPlace DEF AddStep

(* A search for a node of the insert does not end in the cell of the root, *)
(* whose locator is another.                                               *)
LEMMA FindPlace ==
  ASSUME TypeOK, RootInv, NEW t \in Threads, Control(t), Place(t), find_entry_in_pair_by_color(t)
  PROVE  Place(t)'
<1>1. /\ pc[t] \in FindPcs /\ op' = op /\ add' = add /\ find[t].node \in Nodes
      /\ find[t].then \in {"remove", "found"} /\ find \in [Threads -> FindTypes]
      /\ pc \in [Threads -> Labels]
  BY TypeParts DEF find_entry_in_pair_by_color, FindReadCounter, FindScan, FindCheckCounter, Control, CallInv,
                   FindType, FindTypes, PcType
<1>2. /\ find'[t].node = find[t].node /\ find'[t].then = find[t].then
      /\ pc'[t] \in {"find1", "find2"} \/ (pc'[t] = "find3" /\ pc[t] = "find2") \/ (pc[t] = "find3" /\ pc'[t] = find[t].then)
      /\ pc[t] = "find3" /\ pc'[t] = find[t].then => find' = find
  BY <1>1 DEF find_entry_in_pair_by_color, FindReadCounter, FindScan, FindCheckCounter, NotInBucket, FindTypes
<1>3. Phase(t) = find[t].then /\ Phase(t)' = find[t].then
  BY <1>1, <1>2
<1>4. ~ForFree(t)' /\ ~ForPath(t)' /\ pc'[t] \notin WritePcs \cup {"read_unlock"}
  BY <1>1, <1>2
<1>5. ASSUME find[t].then = "remove", pc[t] = "find2", pc'[t] = "find3"
      PROVE  find'[t].cell # RootCell
  <2> DEFINE found == {c \in CellNumbers : Matches(t, <<FindBucket(t), c>>)}
  <2>1. found # {} /\ find'[t].cell = <<FindBucket(t), Min(found)>>
    BY <1>1, <1>5 DEF find_entry_in_pair_by_color, FindReadCounter, FindScan, FindCheckCounter, NotInBucket, FindTypes
  <2>2. Min(found) \in found
    <3>1. found \in SUBSET Nat
      BY DEF CellNumbers
    <3> HIDE DEF found
    <3> QED BY <2>1, <3>1, Smallest
  <2>3. Matches(t, find'[t].cell)
    BY <2>1, <2>2
  <2> SUFFICES ASSUME find'[t].cell = RootCell PROVE FALSE
    OBVIOUS
  <2>4. FindBucket(t) = 0
    BY <2>1 DEF RootCell
  <2>5. Seen(t, RootCell) = Root
    BY RootSeen
  <2>6. find[t].node.loc.tag = 0 /\ find[t].node.loc.color = 0 /\ find[t].secondary = FALSE
    <3>1. Matches(t, RootCell)
      BY <2>3
    <3>2. Root.tag = 0 /\ Root.color = 0 /\ Root.secondary = FALSE
      BY DEF Root
    <3>3. /\ Seen(t, RootCell).tag = find[t].node.loc.tag /\ Seen(t, RootCell).color = find[t].node.loc.color
          /\ Seen(t, RootCell).secondary = find[t].secondary
      BY <3>1, Zenon DEF Matches
    <3> QED BY <3>2, <3>3, <2>5, Zenon
  <2>7. find[t].node.loc.bucket = 0
    BY <2>4, <2>6 DEF FindBucket
  <2>8. find[t].node.loc = RootLoc
    BY <1>1, <2>6, <2>7 DEF Nodes, Locators, RootLoc
  <2> QED BY <1>1, <1>5, <2>8, <1>3 DEF Place, NodesFixed
<1>6. ASSUME find[t].then = "remove", pc[t] = "find3", pc'[t] = "remove"
      PROVE  find'[t].cell # RootCell
  BY <1>1, <1>2, <1>3, <1>6 DEF Place, CellsFixed
<1>7. CellsFixed(t)'
  BY <1>1, <1>2, <1>3, <1>4, <1>5, <1>6 DEF Place, CellsFixed
<1>8. NodesFixed(t)'
  BY <1>1, <1>2, <1>3, <1>4 DEF Place, NodesFixed
<1>9. WriteInv(t)' /\ MoveInv(t)' /\ PathFixed(t)'
  BY <1>1, <1>3, <1>4 DEF WriteInv, MoveInv, PathFixed
<1> QED BY <1>7, <1>8, <1>9 DEF Place

-----------------------------------------------------------------------------
(* relocate_entry. *)

(* relocate_entry after its search: the queue stays as it is.              *)
LEMMA RelocatingPlace ==
  ASSUME TypeOK, NEW t \in Threads, Control(t), Place(t), Relocating(t), Phase(t) \notin SearchPhases,
         rel'[t].queue = rel[t].queue, rel'[t].pos = rel[t].pos, rel'[t].i = rel[t].i,
         rel'[t].immovable = rel[t].immovable, rel'[t].free # RootCell,
         add'[t].result # RootCell, op'[t].added = op[t].added, MoveInv(t)',
         pc'[t] \in UpgradePcs \cup MovePhases \cup ReleasePhases
  PROVE  Place(t)'
<1>1. WriteInv(t)'
  BY DEF WriteInv
<1>2. CellsFixed(t)' /\ NodesFixed(t)'
  BY DEF Place, CellsFixed, NodesFixed
<1>3. PathFixed(t)'
  <2>1. \A j : PathCell(t, j)' = PathCell(t, j)
    BY DEF PathCell, BucketAt, ParentAt
  <2>2. SearchCell(t)' = SearchCell(t) /\ Positions(t)' = Positions(t)
    BY DEF SearchCell, Positions
  <2>3. Phase(t) # "search"
    OBVIOUS
  <2>4. /\ \A j \in Positions(t) \ {1} : PathCell(t, j) \notin {RootCell, rel[t].immovable}
        /\ SearchCell(t) \notin {RootCell, rel[t].immovable}
    BY <2>3 DEF Place, PathFixed
  <2> HIDE DEF Relocating, Phase
  <2> QED BY <2>1, <2>2, <2>4 DEF PathFixed
<1> QED BY <1>1, <1>2, <1>3 DEF Place

(* Until the moves begin the free cell is in the bucket the search ended   *)
(* in.                                                                     *)
LEMMA MovePlaceFacts ==
  ASSUME TypeOK, NEW t \in Threads, Control(t), Place(t), Relocating(t), Phase(t) \notin SearchPhases
  PROVE  /\ rel[t].free # RootCell /\ add[t].result # RootCell
         /\ ForFree(t) \/ ForPath(t) => BucketOf(rel[t].free) = rel[t].child_bucket /\ rel[t].child = rel[t].i
BY DEF Place, PathFixed, CellsFixed, MoveInv

(* upgrade_bucket_lock, for all its callers: when the whole path is        *)
(* locked, the first move takes the cell the search was looking at.        *)
LEMMA UpgradePlace ==
  ASSUME TypeOK, NEW t \in Threads, Control(t), Place(t), upgrade_bucket_lock(t)
  PROVE  Place(t)'
<1>1. /\ pc[t] \in UpgradePcs /\ op' = op /\ add' = add
      /\ \/ UpgradeOk(t)
         \/ UpgradeFailed(t)
         \/ pc' = [pc EXCEPT ![t] = "upgrade_check"] /\ rel' = rel /\ up' = up
  BY DEF upgrade_bucket_lock, UpgradeHeld, UpgradeTake, UpgradeCheck
<1>2. pc \in [Threads -> Labels] /\ up \in [Threads -> Handles] /\ DOMAIN rel = Threads
  BY DEF TypeOK
<1>3. CASE ForAdd(t)
  <2>1. pc'[t] \in PlainPcs \/ ForAdd(t)'
    BY <1>1, <1>2, <1>3 DEF UpgradeOk, UpgradeFailed, PlainPcs
  <2> QED BY <1>1, <2>1, PlainPlace, ResultFixed
<1>4. CASE ~ForAdd(t)
  <2>1. /\ ForFree(t) \/ ForPath(t)
        /\ up[t] \notin {PRIMARY, SECONDARY}
    BY <1>1, <1>4 DEF Control, CallInv
  <2>2. /\ rel[t].free # RootCell /\ add[t].result # RootCell
        /\ BucketOf(rel[t].free) = rel[t].child_bucket /\ rel[t].child = rel[t].i
    BY <1>1, <2>1, MovePlaceFacts
  <2>3. rel[t] \in Relocations
    BY <1>1, <2>1, QueueFacts
  <2>4. CASE pc' = [pc EXCEPT ![t] = "upgrade_check"] /\ rel' = rel /\ up' = up
    <3>1. pc'[t] = "upgrade_check"
      BY <1>2, <2>4
    <3>2. MoveInv(t)'
      BY <2>2, <2>4, <3>1 DEF MoveInv
    <3> QED BY <1>1, <2>1, <2>2, <2>4, <3>1, <3>2, RelocatingPlace
  <2>5. CASE UpgradeFailed(t)
    <3>1. CASE ForFree(t)
      <4>1. pc'[t] \in PlainPcs
        BY <1>2, <2>5, <3>1, HandleTypes DEF UpgradeFailed, PlainPcs
      <4> QED BY <1>1, <4>1, PlainPlace, ResultFixed
    <3>2. CASE ForPath(t)
      <4>1. pc'[t] = "release_free" /\ rel' = rel
        BY <1>2, <2>1, <2>5, <3>2, HandleTypes DEF UpgradeFailed
      <4>2. MoveInv(t)'
        BY <4>1 DEF MoveInv
      <4> QED BY <1>1, <2>1, <2>2, <4>1, <4>2, RelocatingPlace
    <3> QED BY <2>1, <3>1, <3>2
  <2>6. CASE UpgradeOk(t)
    <3> DEFINE next == IF up[t] = FREE THEN rel[t].pos ELSE rel[t].queue[up[t]].parent
    <3>1. UpgradePath(t)
      BY <2>1, <2>6 DEF UpgradeOk
    <3>2. CASE next = 1
      <4>1. /\ rel' = [[rel EXCEPT ![t].locked = rel[t].locked + 1, ![t].walk = next] EXCEPT ![t].walk = rel[t].pos]
            /\ pc' = [pc EXCEPT ![t] = "move"]
        BY <3>1, <3>2 DEF UpgradePath
      <4>2. rel'[t] = [rel[t] EXCEPT !.locked = rel[t].locked + 1, !.walk = rel[t].pos] /\ pc'[t] = "move"
        BY <4>1, <1>2, <2>3 DEF Relocations
      <4>3. /\ rel'[t].queue = rel[t].queue /\ rel'[t].pos = rel[t].pos /\ rel'[t].i = rel[t].i
            /\ rel'[t].immovable = rel[t].immovable /\ rel'[t].free = rel[t].free
            /\ rel'[t].child_bucket = rel[t].child_bucket /\ rel'[t].child = rel[t].child
            /\ rel'[t].walk = rel[t].pos
        BY <4>2, <2>3 DEF Relocations
      <4>4. MoveInv(t)'
        BY <2>2, <4>2, <4>3 DEF MoveInv
      <4> QED BY <1>1, <2>1, <2>2, <4>2, <4>3, <4>4, RelocatingPlace
    <3>3. CASE next # 1
      <4>1. rel' = [rel EXCEPT ![t].locked = rel[t].locked + 1, ![t].walk = next] /\ pc' = [pc EXCEPT ![t] = "upgrade"]
        BY <3>1, <3>3 DEF UpgradePath, CallUpgrade
      <4> HIDE DEF next
      <4>2. rel'[t] = [rel[t] EXCEPT !.locked = rel[t].locked + 1, !.walk = next] /\ pc'[t] = "upgrade"
        BY <4>1, <1>2, <2>3 DEF Relocations
      <4>3. /\ rel'[t].queue = rel[t].queue /\ rel'[t].pos = rel[t].pos /\ rel'[t].i = rel[t].i
            /\ rel'[t].immovable = rel[t].immovable /\ rel'[t].free = rel[t].free
            /\ rel'[t].child_bucket = rel[t].child_bucket /\ rel'[t].child = rel[t].child
        BY <4>2, <2>3 DEF Relocations
      <4>4. MoveInv(t)'
        BY <2>2, <4>2, <4>3 DEF MoveInv
      <4> QED BY <1>1, <2>1, <2>2, <4>2, <4>3, <4>4, RelocatingPlace
    <3> QED BY <3>2, <3>3
  <2> QED BY <1>1, <2>4, <2>5, <2>6
<1> QED BY <1>3, <1>4

(* The search of relocate_entry goes on.                                   *)
LEMMA SearchingPlace ==
  ASSUME NEW t \in Threads, Place(t), pc'[t] \in SearchPhases,
         add'[t].result = add[t].result, op'[t].added = op[t].added,
         \A j \in (Positions(t) \ {1})' : PathCell(t, j)' \notin {RootCell, rel'[t].immovable},
         pc'[t] # "search" => SearchCell(t)' \notin {RootCell, rel'[t].immovable}
  PROVE  Place(t)'
<1>1. WriteInv(t)' /\ MoveInv(t)'
  BY DEF WriteInv, MoveInv
<1>2. CellsFixed(t)' /\ NodesFixed(t)'
  BY DEF Place, CellsFixed, NodesFixed
<1>3. PathFixed(t)'
  BY DEF PathFixed
<1> QED BY <1>1, <1>2, <1>3 DEF Place

(* relocate_entry begins with a queue that holds the primary bucket only.  *)
LEMMA RelocatePlace ==
  ASSUME TypeOK, NEW t \in Threads, Control(t), Place(t), Relocate(t)
  PROVE  Place(t)'
<1>1. /\ pc'[t] = "search" /\ add' = add /\ op' = op
      /\ rel'[t].queue = <<[bucket |-> Primary(t), parent |-> 0, child |-> 0]>>
  BY DEF Relocate, TypeOK
<1>2. (Positions(t) \ {1})' = {}
  BY <1>1 DEF Positions
<1> QED BY <1>1, <1>2, SearchingPlace

(* The search skips the root and the cell that must not move.              *)
LEMMA SearchExaminePlace ==
  ASSUME TypeOK, NEW t \in Threads, Control(t), Place(t), SearchExamine(t)
  PROVE  Place(t)'
<1> DEFINE p == SearchCell(t)
           b == alternate_bucket(Seen(t, p), BucketOf(p))
<1>1. pc[t] = "search" /\ add' = add /\ op' = op /\ DOMAIN rel = Threads /\ pc \in [Threads -> Labels]
  BY DEF SearchExamine, TypeOK
<1>2. rel[t] \in Relocations
  BY <1>1, QueueFacts
<1>3. \A j \in Positions(t) \ {1} : PathCell(t, j) \notin {RootCell, rel[t].immovable}
  BY <1>1 DEF Place, PathFixed
<1>4. CASE SearchNext(t, rel[t]) /\ pc' = pc
  <2>1. rel'[t].queue = rel[t].queue /\ rel'[t].immovable = rel[t].immovable
    BY <1>1, <1>2, <1>4 DEF SearchNext, Relocations
  <2>2. Positions(t)' = Positions(t) /\ \A j : PathCell(t, j)' = PathCell(t, j)
    BY <2>1 DEF Positions, PathCell, BucketAt, ParentAt
  <2> QED BY <1>1, <1>3, <1>4, <2>1, <2>2, SearchingPlace
<1>5. CASE /\ ~(p = rel[t].immovable \/ p = RootCell \/ Queued(t, b))
           /\ rel' = [rel EXCEPT ![t].child_bucket = b]
           /\ Goto(t, "search_lock")
  <2>1. /\ rel'[t].queue = rel[t].queue /\ rel'[t].immovable = rel[t].immovable
        /\ rel'[t].pos = rel[t].pos /\ rel'[t].i = rel[t].i /\ pc'[t] = "search_lock"
    BY <1>1, <1>2, <1>5 DEF Relocations
  <2>2. Positions(t)' = Positions(t) /\ (\A j : PathCell(t, j)' = PathCell(t, j)) /\ SearchCell(t)' = p
    BY <2>1 DEF Positions, PathCell, BucketAt, ParentAt, SearchCell
  <2>3. p \notin {RootCell, rel[t].immovable}
    BY <1>5
  <2> QED BY <1>1, <1>3, <2>1, <2>2, <2>3, SearchingPlace
<1> QED BY <1>4, <1>5 DEF SearchExamine

(* Reading the counter of the next bucket does not change the queue.       *)
LEMMA SearchReadLockPlace ==
  ASSUME TypeOK, NEW t \in Threads, Control(t), Place(t), SearchReadLock(t)
  PROVE  Place(t)'
<1>1. pc[t] = "search_lock" /\ pc'[t] = "search_scan" /\ add' = add /\ op' = op /\ rel' = rel
  BY DEF SearchReadLock, TypeOK
<1>2. Positions(t)' = Positions(t) /\ (\A j : PathCell(t, j)' = PathCell(t, j)) /\ SearchCell(t)' = SearchCell(t)
  BY <1>1 DEF Positions, PathCell, BucketAt, ParentAt, SearchCell
<1>3. /\ \A j \in Positions(t) \ {1} : PathCell(t, j) \notin {RootCell, rel[t].immovable}
      /\ SearchCell(t) \notin {RootCell, rel[t].immovable}
  BY <1>1 DEF Place, PathFixed
<1> QED BY <1>1, <1>2, <1>3, SearchingPlace

(* A bucket is queued with the cell whose entry leads to it, and the free  *)
(* cell it ends with is not the root's.                                    *)
LEMMA SearchScanPlace ==
  ASSUME TypeOK, RootInv, NEW t \in Threads, Control(t), Place(t), SearchScan(t)
  PROVE  Place(t)'
<1> DEFINE p == find_free_cell_in_bucket(t, rel[t].child_bucket)
           next == [bucket |-> rel[t].child_bucket, parent |-> rel[t].pos, child |-> rel[t].i]
           queued == [rel[t] EXCEPT !.queue = Append(rel[t].queue, next)]
<1>1. /\ pc[t] = "search_scan" /\ add' = add /\ op' = op /\ DOMAIN rel = Threads /\ pc \in [Threads -> Labels]
      /\ up \in [Threads -> Handles]
  BY DEF SearchScan, TypeOK
<1>2. /\ rel[t] \in Relocations /\ rel[t].queue \in Seq(QueueElements) /\ rel[t].child_bucket \in Buckets
      /\ rel[t].pos \in Positions(t)
      /\ \A j \in Positions(t) \ {1} : ParentAt(t, j) \in Positions(t)
  BY <1>1, QueueFacts DEF Control, QueueInv
<1>3. /\ \A j \in Positions(t) \ {1} : PathCell(t, j) \notin {RootCell, rel[t].immovable}
      /\ SearchCell(t) \notin {RootCell, rel[t].immovable}
  BY <1>1 DEF Place, PathFixed
<1>4. CASE p = None /\ SearchNext(t, queued) /\ Goto(t, "search")
  <2>1. rel'[t].queue = Append(rel[t].queue, next) /\ rel'[t].immovable = rel[t].immovable /\ pc'[t] = "search"
    BY <1>1, <1>2, <1>4 DEF SearchNext, Relocations
  <2>2. Len(rel[t].queue) \in Nat /\ Positions(t) = DOMAIN rel[t].queue
    BY <1>2 DEF Positions
  <2>3. PICK n : n = Len(rel[t].queue) + 1
    OBVIOUS
  <2>4. /\ Positions(t)' = Positions(t) \cup {n}
        /\ \A j \in Positions(t) : rel'[t].queue[j] = rel[t].queue[j]
        /\ rel'[t].queue[n] = next
    BY <1>2, <2>1, <2>2, <2>3 DEF Positions
  <2>5. \A j \in Positions(t) \ {1} : PathCell(t, j)' = PathCell(t, j)
    BY <1>2, <2>4 DEF PathCell, BucketAt, ParentAt
  <2>6. PathCell(t, n)' = SearchCell(t)
    BY <1>2, <2>4 DEF PathCell, BucketAt, ParentAt, SearchCell
  <2> QED BY <1>1, <1>3, <2>1, <2>4, <2>5, <2>6, SearchingPlace
<1>5. CASE p = None /\ SearchNext(t, rel[t]) /\ Goto(t, "search")
  <2>1. rel'[t].queue = rel[t].queue /\ rel'[t].immovable = rel[t].immovable /\ pc'[t] = "search"
    BY <1>1, <1>2, <1>5 DEF SearchNext, Relocations
  <2>2. Positions(t)' = Positions(t) /\ \A j : PathCell(t, j)' = PathCell(t, j)
    BY <2>1 DEF Positions, PathCell, BucketAt, ParentAt
  <2> QED BY <1>1, <1>3, <2>1, <2>2, SearchingPlace
<1>6. CASE p # None /\ rel' = [rel EXCEPT ![t].free = p, ![t].child = rel[t].i] /\ CallUpgrade(t, FREE)
  <2>1. p # RootCell /\ BucketOf(p) = rel[t].child_bucket
    BY <1>2, <1>6, FreeIsNotRoot, FreeCellType
  <2> HIDE DEF p
  <2>2. /\ rel'[t].queue = rel[t].queue /\ rel'[t].immovable = rel[t].immovable
        /\ rel'[t].pos = rel[t].pos /\ rel'[t].i = rel[t].i /\ rel'[t].free = p /\ rel'[t].child = rel[t].i
        /\ rel'[t].child_bucket = rel[t].child_bucket
        /\ pc'[t] = "upgrade" /\ up'[t] = FREE
    BY <1>1, <1>2, <1>6 DEF Relocations, CallUpgrade
  <2>3. Positions(t)' = Positions(t) /\ (\A j : PathCell(t, j)' = PathCell(t, j)) /\ SearchCell(t)' = SearchCell(t)
    BY <2>2 DEF Positions, PathCell, BucketAt, ParentAt, SearchCell
  <2>4. WriteInv(t)' /\ MoveInv(t)'
    BY <2>1, <2>2 DEF WriteInv, MoveInv
  <2>5. CellsFixed(t)' /\ NodesFixed(t)'
    BY <1>1, <2>2 DEF Place, CellsFixed, NodesFixed
  <2>6. PathFixed(t)'
    BY <1>3, <2>1, <2>2, <2>3 DEF PathFixed
  <2> QED BY <2>4, <2>5, <2>6 DEF Place
<1> QED BY <1>4, <1>5, <1>6 DEF SearchScan

(* A move takes its entry from a cell of the path: the one the search      *)
(* ended at, or the one that leads to the bucket of the free cell.         *)
LEMMA OccupiedIsOnPath ==
  ASSUME TypeOK, NEW t \in Threads, Control(t), Place(t), Phase(t) \in MovePhases
  PROVE  \/ /\ BucketOf(rel[t].free) = rel[t].child_bucket /\ rel[t].walk = rel[t].pos
            /\ Occupied(t) = SearchCell(t)
         \/ \E j \in Locked(t, bucket_refs[t]) :
              /\ j \in Positions(t) \ {1} /\ rel[t].walk = ParentAt(t, j)
              /\ Occupied(t) = PathCell(t, j) /\ BucketOf(rel[t].free) = BucketAt(t, j)
BY DEF Place, MoveInv, Occupied, SearchCell, PathCell, BucketAt, Locked

(* So it moves neither the root nor the cell the caller wants left alone.  *)
LEMMA OccupiedIsNotFixed ==
  ASSUME TypeOK, NEW t \in Threads, Control(t), Place(t), Phase(t) \in MovePhases
  PROVE  Occupied(t) \notin {RootCell, rel[t].immovable}
BY OccupiedIsOnPath DEF Place, PathFixed

(* The moves go along the path and end with a cell of the primary bucket,  *)
(* which is handed to add_entry.                                           *)
LEMMA MoveStepPlace ==
  ASSUME TypeOK, NEW t \in Threads, Control(t), Place(t), MoveStep(t)
  PROVE  Place(t)'
<1>1. pc[t] \in {"move", "moved"} /\ op' = op /\ DOMAIN rel = Threads /\ pc \in [Threads -> Labels]
      /\ DOMAIN write = Threads /\ bucket_refs' = bucket_refs
      /\ add \in [Threads -> [result : Cells \cup {None}, handle : {PRIMARY, SECONDARY}]]
  BY DEF MoveStep, MoveEntry, MoveNext, TypeOK
<1>2. rel[t] \in Relocations /\ rel[t].free # RootCell /\ add[t].result # RootCell
  BY <1>1, QueueFacts, MovePlaceFacts
<1>3. Occupied(t) \notin {RootCell, rel[t].immovable}
  BY <1>1, OccupiedIsNotFixed
<1>4. CASE MoveEntry(t)
  <2>1. /\ pc[t] = "move" /\ pc'[t] = "write1" /\ add' = add /\ rel' = rel
        /\ write'[t].cell = rel[t].free /\ write'[t].then = "moved"
    BY <1>1, <1>4 DEF MoveEntry, CallWrite
  <2>2. WriteInv(t)'
    BY <2>1 DEF WriteInv
  <2>3. MoveInv(t)'
    BY <1>1, <2>1 DEF Place, MoveInv, Locked, Positions, BucketAt, ParentAt
  <2>4. PathFixed(t)'
    BY <1>1, <2>1 DEF Place, PathFixed, PathCell, SearchCell, Positions, BucketAt, ParentAt
  <2>5. CellsFixed(t)' /\ NodesFixed(t)'
    BY <1>1, <1>2, <2>1 DEF Place, CellsFixed, NodesFixed
  <2> QED BY <2>2, <2>3, <2>4, <2>5 DEF Place
<1>5. CASE MoveNext(t) /\ rel[t].walk = 1
  <2>1. /\ pc[t] = "moved" /\ pc'[t] = "write1"
        /\ write'[t] = [cell |-> Occupied(t), entry |-> Unused, then |-> "release_free"]
        /\ add'[t].result = Occupied(t) /\ rel' = [rel EXCEPT ![t].ok = TRUE]
    BY <1>1, <1>5 DEF MoveNext, CallWrite
  <2>2. /\ rel'[t].queue = rel[t].queue /\ rel'[t].immovable = rel[t].immovable
        /\ rel'[t].pos = rel[t].pos /\ rel'[t].i = rel[t].i /\ rel'[t].free = rel[t].free
        /\ rel'[t].ok
    BY <1>1, <1>2, <2>1 DEF Relocations
  <2>3. WriteInv(t)' /\ MoveInv(t)'
    BY <2>1, <2>2 DEF WriteInv, MoveInv
  <2>4. PathFixed(t)'
    BY <1>1, <2>1, <2>2 DEF Place, PathFixed, PathCell, SearchCell, Positions, BucketAt, ParentAt
  <2>5. CellsFixed(t)' /\ NodesFixed(t)'
    BY <1>1, <1>3, <2>1 DEF Place, CellsFixed, NodesFixed
  <2> QED BY <2>3, <2>4, <2>5 DEF Place
<1>6. CASE MoveNext(t) /\ rel[t].walk # 1
  <2>1. /\ pc[t] = "moved" /\ pc'[t] = "move" /\ add' = add
        /\ rel' = [rel EXCEPT ![t].free = Occupied(t), ![t].child = rel[t].queue[rel[t].walk].child,
                              ![t].walk = rel[t].queue[rel[t].walk].parent]
    BY <1>1, <1>6 DEF MoveNext
  <2>2. rel[t].walk \in Locked(t, bucket_refs[t])
    BY <2>1, <1>6 DEF Control, PathInv
  <2>3. /\ rel'[t].queue = rel[t].queue /\ rel'[t].immovable = rel[t].immovable
        /\ rel'[t].pos = rel[t].pos /\ rel'[t].i = rel[t].i /\ rel'[t].free = Occupied(t)
        /\ rel'[t].child = rel[t].queue[rel[t].walk].child /\ rel'[t].walk = rel[t].queue[rel[t].walk].parent
    BY <1>1, <1>2, <2>1 DEF Relocations
  <2>4. BucketOf(Occupied(t)) = BucketAt(t, rel[t].walk)
    BY DEF Occupied, BucketOf, BucketAt
  <2>5. PICK j : j = rel[t].walk
    OBVIOUS
  <2>6. j \in Locked(t, bucket_refs[t])'
    BY <1>1, <2>2, <2>3, <2>5 DEF Locked, Positions, BucketAt
  <2>7. /\ BucketOf(rel'[t].free) = BucketAt(t, j)'
        /\ rel'[t].walk = ParentAt(t, j)' /\ rel'[t].child = rel'[t].queue[j].child
    BY <2>3, <2>4, <2>5 DEF BucketAt, ParentAt
  <2>8. MoveInv(t)'
    BY <2>1, <2>6, <2>7 DEF MoveInv
  <2> QED BY <1>1, <1>2, <1>3, <2>1, <2>3, <2>8, RelocatingPlace
<1> QED BY <1>4, <1>5, <1>6 DEF MoveStep

(* Releasing the path chooses no cell.                                     *)
LEMMA RelocateEndPlace ==
  ASSUME TypeOK, NEW t \in Threads, Control(t), Place(t), RelocateEnd(t) \/ SearchFailed(t)
  PROVE  Place(t)'
<1>1. op' = op /\ add' = add /\ DOMAIN rel = Threads /\ pc \in [Threads -> Labels]
  BY DEF RelocateEnd, ReleaseFree, ReleasePath, RelocateReturn, RelocateFailed, SearchFailed, TypeOK
<1>2. CASE RelocateReturn(t) \/ RelocateFailed(t) \/ SearchFailed(t)
  <2>1. pc'[t] \in PlainPcs
    BY <1>1, <1>2 DEF RelocateReturn, RelocateFailed, SearchFailed, PlainPcs
  <2> QED BY <1>1, <2>1, PlainPlace, ResultFixed
<1>3. CASE ReleaseFree(t) \/ ReleasePath(t)
  <2>1. pc[t] \in ReleasePhases /\ pc'[t] = "release_path"
    BY <1>1, <1>3 DEF ReleaseFree, ReleasePath
  <2>2. rel[t] \in Relocations /\ rel[t].free # RootCell /\ add[t].result # RootCell
    BY <2>1, QueueFacts, MovePlaceFacts
  <2>3. /\ rel'[t].queue = rel[t].queue /\ rel'[t].immovable = rel[t].immovable
        /\ rel'[t].pos = rel[t].pos /\ rel'[t].i = rel[t].i /\ rel'[t].free = rel[t].free
    BY <1>1, <1>3, <2>2 DEF ReleaseFree, ReleasePath, Relocations
  <2>4. MoveInv(t)'
    BY <2>1 DEF MoveInv
  <2> QED BY <1>1, <2>1, <2>2, <2>3, <2>4, RelocatingPlace
<1> QED BY <1>2, <1>3 DEF RelocateEnd

-----------------------------------------------------------------------------
(* The insert around add_entry. *)

(* A search begins for a node with a locator that is not the root's.       *)
LEMMA CallFindPlace ==
  ASSUME TypeOK, NEW t \in Threads, Place(t), NEW node \in Nodes, NEW then \in {"remove", "found"},
         CallFind(t, node, then), then = "remove" => node.loc # RootLoc,
         UNCHANGED <<op, add>>
  PROVE  Place(t)'
<1>1. pc'[t] = "find1" /\ find'[t].then = then /\ find'[t].node = node
  BY DEF CallFind, TypeOK
<1>2. WriteInv(t)' /\ MoveInv(t)' /\ PathFixed(t)'
  BY <1>1 DEF WriteInv, MoveInv, PathFixed
<1>3. CellsFixed(t)' /\ NodesFixed(t)'
  BY <1>1 DEF Place, CellsFixed, NodesFixed
<1> QED BY <1>2, <1>3 DEF Place

(* The locals are gone when an insert or a lookup returns.                 *)
LEMMA ReturnPlace ==
  ASSUME TypeOK, NEW t \in Threads, NEW n, NEW label \in {"idle", "retry"}, Return(t, n, label)
  PROVE  Place(t)'
<1>1. pc'[t] \in PlainPcs /\ add'[t].result = None /\ op'[t].added = <<>>
  BY DEF Return, PlainPcs, NoAdd, NoInsert, TypeOK
<1>2. None # RootCell
  BY NoneAssumption, EntryTypes
<1> QED BY <1>1, <1>2, PlainPlace

(* The roll-back drops one of the added nodes and keeps the others.        *)
LEMMA RestOfNodes ==
  ASSUME TypeOK, NEW t \in Threads, op[t].added # <<>>
  PROVE  /\ UndoIndex(t) \in DOMAIN op[t].added
         /\ DOMAIN RemoveAt(op[t].added, UndoIndex(t)) = 1..(Len(op[t].added) - 1)
         /\ \A i \in 1..(Len(op[t].added) - 1) :
              RemoveAt(op[t].added, UndoIndex(t))[i] = op[t].added[IF i < UndoIndex(t) THEN i ELSE i + 1]
<1>1. PICK s \in Seq(Nodes) : s = op[t].added
  BY LocalTypes
<1>2. Len(s) \in Nat /\ Len(s) >= 1
  BY <1>1
<1>3. PICK i \in 1..2 : i = UndoIndex(t) /\ i <= Len(s) /\ (i = 1 => Len(s) = 1)
  <2>1. UndoIndex(t) = IF Len(s) > 1 THEN 2 ELSE 1
    BY <1>1 DEF UndoIndex
  <2>2. UndoIndex(t) \in 1..2 /\ UndoIndex(t) <= Len(s) /\ (UndoIndex(t) = 1 => Len(s) = 1)
    <3>1. PICK m \in Nat : m = Len(s) /\ m >= 1
      BY <1>2
    <3>2. CASE m > 1
      BY <3>1, <3>2, <2>1
    <3>3. CASE m = 1
      <4>1. ~(Len(s) > 1)
        BY <3>1, <3>3
      <4>2. UndoIndex(t) = 1
        BY <4>1, <2>1, Zenon
      <4> QED BY <3>1, <3>3, <4>2
    <3> QED BY <3>1, <3>2, <3>3
  <2> QED BY <2>2
<1>4. DOMAIN s = 1..Len(s)
  OBVIOUS
<1>5. RemoveAt(s, i) = SubSeq(s, 1, i - 1) \o SubSeq(s, i + 1, Len(s))
  BY DEF RemoveAt
<1>6. CASE i = 1
  <2>1. Len(s) = 1 /\ RemoveAt(s, i) = SubSeq(s, 1, 0) \o SubSeq(s, 2, 1)
    BY <1>3, <1>5, <1>6
  <2>2. SubSeq(s, 1, 0) = <<>> /\ SubSeq(s, 2, 1) = <<>>
    OBVIOUS
  <2>3. RemoveAt(s, i) = <<>>
    BY <2>1, <2>2
  <2> QED BY <1>1, <1>3, <1>4, <1>6, <2>1, <2>3
<1>7. CASE i = 2
  <2>1. Len(s) >= 2 /\ RemoveAt(s, i) = SubSeq(s, 1, 1) \o SubSeq(s, 3, Len(s))
    BY <1>3, <1>5, <1>7
  <2>2. SubSeq(s, 1, 1) \in Seq(Nodes) /\ Len(SubSeq(s, 1, 1)) = 1 /\ SubSeq(s, 1, 1)[1] = s[1]
    BY <2>1, <1>2
  <2>3. SubSeq(s, 3, Len(s)) \in Seq(Nodes) /\ Len(SubSeq(s, 3, Len(s))) = Len(s) - 2
        /\ \A k \in 1..(Len(s) - 2) : SubSeq(s, 3, Len(s))[k] = s[k + 2]
    <3>1. \A k \in 3..Len(s) : s[k] \in Nodes
      BY <1>2
    <3>2. /\ SubSeq(s, 3, Len(s)) \in Seq(Nodes)
          /\ Len(SubSeq(s, 3, Len(s))) = IF 3 <= Len(s) THEN Len(s) - 3 + 1 ELSE 0
          /\ \A k \in 1..(Len(s) - 3 + 1) : SubSeq(s, 3, Len(s))[k] = s[3 + k - 1]
      BY <3>1, <1>2, SubSeqProperties
    <3>3. \A k \in 1..(Len(s) - 2) : 3 + k - 1 = k + 2 /\ k \in 1..(Len(s) - 3 + 1)
      BY <1>2
    <3> QED BY <3>2, <3>3, <2>1, <1>2
  <2>4. /\ DOMAIN RemoveAt(s, i) = 1..(Len(s) - 1)
        /\ \A k \in 1..(Len(s) - 1) : RemoveAt(s, i)[k] = s[IF k < 2 THEN k ELSE k + 1]
    BY <2>1, <2>2, <2>3, <1>2
  <2> QED BY <1>1, <1>2, <1>3, <1>4, <1>7, <2>1, <2>4
<1> QED BY <1>3, <1>6, <1>7

(* Publishing, rolling back and releasing all locks: remove_entry_by_value *)
(* writes to the cell that was found.                                      *)
LEMMA InsertEndPlace ==
  ASSUME TypeOK, NEW t \in Threads, Control(t), Place(t), InsertEnd(t)
  PROVE  Place(t)'
<1>0. pc \in [Threads -> Labels] /\ DOMAIN write = Threads /\ DOMAIN op = Threads
      /\ op[t].added \in Seq(Nodes)
  BY LocalTypes DEF TypeOK
<1>1. CASE Publish(t) \/ Retry(t) \/ ReleaseAllNext(t)
  <2>1. pc'[t] \in PlainPcs /\ add' = add /\ op' = op
    BY <1>0, <1>1 DEF Publish, Retry, ReleaseAllNext, PlainPcs
  <2> QED BY <2>1, PlainPlace, ResultFixed
<1>2. CASE RetryInsert(t)
  <2>1. pc'[t] \in PlainPcs /\ add' = add /\ op'[t].added = op[t].added
    BY <1>0, <1>2 DEF RetryInsert, ChoosePlan, PlainPcs, TypeOK
  <2> QED BY <2>1, PlainPlace, ResultFixed
<1>3. CASE InsertReturn(t)
  BY <1>3, ReturnPlace DEF InsertReturn
<1>4. CASE Undo(t)
  <2>1. op[t].added # <<>> /\ CallFind(t, op[t].added[UndoIndex(t)], "remove") /\ op' = op /\ add' = add
    BY <1>4 DEF Undo
  <2>2. UndoIndex(t) \in DOMAIN op[t].added
    BY <2>1, RestOfNodes
  <2>3. op[t].added[UndoIndex(t)].loc # RootLoc /\ op[t].added[UndoIndex(t)] \in Nodes
    BY <2>2, <1>0 DEF Place, NodesFixed
  <2> QED BY <2>1, <2>3, CallFindPlace
<1>5. CASE remove_entry_by_value(t)
  <2>1. /\ pc[t] = "remove" /\ pc'[t] = "write1" /\ op' = op /\ add' = add /\ find' = find
        /\ write'[t] = [cell |-> find[t].cell, entry |-> Unused, then |-> "removed"]
    BY <1>0, <1>5 DEF remove_entry_by_value, CallWrite
  <2>2. WriteInv(t)' /\ MoveInv(t)' /\ PathFixed(t)'
    BY <2>1 DEF WriteInv, MoveInv, PathFixed
  <2>3. CellsFixed(t)' /\ NodesFixed(t)'
    BY <2>1 DEF Place, CellsFixed, NodesFixed
  <2> QED BY <2>2, <2>3 DEF Place
<1>6. CASE Removed(t)
  <2>1. /\ pc[t] = "removed" /\ pc'[t] \in PlainPcs /\ add' = add
        /\ op'[t].added = RemoveAt(op[t].added, UndoIndex(t))
    BY <1>0, <1>6 DEF Removed, PlainPcs, TypeOK
  <2>2. op[t].added # <<>>
    BY <2>1 DEF Control, InsertInv
  <2>3. Len(op[t].added) \in Nat /\ DOMAIN op[t].added = 1..Len(op[t].added)
    BY <1>0
  <2>4. \A i \in 1..(Len(op[t].added) - 1) : (IF i < UndoIndex(t) THEN i ELSE i + 1) \in DOMAIN op[t].added
    BY <2>3
  <2>5. \A i \in DOMAIN op'[t].added : op'[t].added[i].loc # RootLoc
    <3>1. /\ DOMAIN op'[t].added = 1..(Len(op[t].added) - 1)
          /\ \A i \in DOMAIN op'[t].added :
               op'[t].added[i] = op[t].added[IF i < UndoIndex(t) THEN i ELSE i + 1]
      BY <2>1, <2>2, RestOfNodes
    <3>2. \A i \in DOMAIN op[t].added : op[t].added[i].loc # RootLoc
      BY DEF Place, NodesFixed
    <3> QED BY <3>1, <3>2, <2>4
  <2> QED BY <2>1, <2>5, PlainPlace DEF Place, CellsFixed
<1> QED BY <1>1, <1>2, <1>3, <1>4, <1>5, <1>6 DEF InsertEnd

(* An insert or a lookup begins.                                           *)
LEMMA BeginPlace ==
  ASSUME TypeOK, NEW t \in Threads, Place(t), BeginInsert(t) \/ BeginLookup(t)
  PROVE  Place(t)'
<1>1. CASE BeginInsert(t)
  <2>1. pc'[t] \in PlainPcs /\ add' = add /\ op'[t].added = op[t].added
    BY <1>1 DEF BeginInsert, ChoosePlan, PlainPcs, TypeOK
  <2> QED BY <2>1, PlainPlace, ResultFixed
<1>2. CASE BeginLookup(t)
  <2>1. PICK node \in live : CallFind(t, node, "found")
    BY <1>2 DEF BeginLookup
  <2> QED BY <1>2, <2>1, CallFindPlace DEF BeginLookup, TypeOK
<1> QED BY <1>1, <1>2

(* All steps of a thread.                                                  *)
LEMMA PlaceStep ==
  ASSUME TypeOK, RootInv, NEW t \in Threads, Control(t), Place(t),
         Step(t) \/ BeginInsert(t) \/ BeginLookup(t) \/ Drain(t)
  PROVE  Place(t)'
<1>1. CASE Drain(t)
  <2>1. locals(t)' = locals(t)
    BY <1>1 DEF Drain, locals
  <2> QED BY <2>1, PlaceIsLocal
<1>2. CASE LookupReturn(t)
  BY <1>2, ReturnPlace DEF LookupReturn
<1>3. CASE SearchStep(t) \/ Relocate(t)
  BY <1>3, RelocatePlace, SearchExaminePlace, SearchReadLockPlace, SearchScanPlace, RelocateEndPlace DEF SearchStep
<1>4. CASE add_entry(t)
  BY <1>3, <1>4, AddStepPlace, UpgradePlace, MoveStepPlace, RelocateEndPlace DEF add_entry, relocate_entry
<1> QED BY <1>1, <1>2, <1>4, WriteEntryPlace, FindPlace, InsertEndPlace, BeginPlace DEF Step

-----------------------------------------------------------------------------
(* The root stays, and nothing that must not move is moved. *)

(* The step stores nothing but, perhaps, an unlock, and makes no handle of *)
(* another thread stale.                                                   *)
Quiet(t) ==
  /\ UNCHANGED <<scenario, cells, busy, buf>>
  /\ \A u \in Threads \ {t} : stale'[u] = stale[u]

(* Only write_entry stores anything but unlocks.                           *)
LEMMA QuietSteps ==
  ASSUME TypeOK, NEW t \in Threads, Step(t) \/ BeginInsert(t) \/ BeginLookup(t), ~write_entry(t)
  PROVE  Quiet(t) \/ \E b : Store(t, "unlock", <<b, 0>>, Unused)
<1> USE DEF Quiet
<1>0. DOMAIN stale = Threads
  BY DEF TypeOK
<1>1. ASSUME NEW b, release_bucket_lock(t, b)
      PROVE  Quiet(t) \/ Store(t, "unlock", <<b, 0>>, Unused)
  BY <1>1, Zenon DEF release_bucket_lock
<1>2. ASSUME NEW h, NEW b, ReadCounter(t, h, b) PROVE \A u \in Threads \ {t} : stale'[u] = stale[u]
  BY <1>0, <1>2 DEF ReadCounter
<1>3. CASE AddStep(t)
  <2>1. CASE ReadLockPrimary(t) \/ ReadLockSecondary(t)
    BY <1>2, <2>1 DEF ReadLockPrimary, ReadLockSecondary
  <2>2. CASE ScanPrimary(t) \/ ScanSecondary(t) \/ PutEntry(t) \/ ReadUnlock(t)
    BY <2>2 DEF ScanPrimary, ScanSecondary, PutEntry, ReadUnlock
  <2>3. CASE AddReturn(t)
    BY <1>1, <2>3, Zenon DEF AddReturn
  <2> QED BY <1>3, <2>1, <2>2, <2>3 DEF AddStep
<1>4. CASE upgrade_bucket_lock(t)
  <2>1. CASE UpgradeHeld(t)
    BY <2>1 DEF UpgradeHeld
  <2>2. CASE UpgradeTake(t)
    BY <2>2 DEF UpgradeTake
  <2>3. CASE UpgradeCheck(t)
    <3>1. CASE release_bucket_lock(t, UpgradeBucket(t))
      BY <1>1, <3>1, Zenon
    <3> QED BY <2>3, <3>1 DEF UpgradeCheck
  <2> QED BY <1>4, <2>1, <2>2, <2>3 DEF upgrade_bucket_lock
<1>5. CASE relocate_entry(t)
  <2>1. CASE Relocate(t) \/ SearchExamine(t) \/ MoveStep(t) \/ RelocateReturn(t)
    BY <2>1 DEF Relocate, SearchExamine, MoveStep, MoveEntry, MoveNext, RelocateReturn
  <2>2. CASE SearchReadLock(t)
    BY <1>2, <2>2 DEF SearchReadLock
  <2>3. CASE SearchScan(t)
    BY <1>0, <2>3 DEF SearchScan
  <2>4. CASE SearchFailed(t) \/ RelocateFailed(t)
    <3>1. release_bucket_lock(t, Primary(t))
      BY <2>4, Zenon DEF SearchFailed, RelocateFailed
    <3> QED BY <1>1, <3>1, Zenon
  <2>5. CASE ReleaseFree(t)
    <3>1. release_bucket_lock(t, rel[t].child_bucket)
      BY <2>5, Zenon DEF ReleaseFree
    <3> QED BY <1>1, <3>1, Zenon
  <2>6. CASE ReleasePath(t)
    <3>1. release_bucket_lock(t, rel[t].queue[rel[t].walk].bucket)
      BY <2>6, Zenon DEF ReleasePath
    <3> QED BY <1>1, <3>1, Zenon
  <2> QED BY <1>5, <2>1, <2>2, <2>3, <2>4, <2>5, <2>6 DEF relocate_entry, SearchStep, RelocateEnd
<1>6. CASE find_entry_in_pair_by_color(t)
  BY <1>2, <1>6 DEF find_entry_in_pair_by_color, FindReadCounter, FindScan, FindCheckCounter
<1>7. CASE InsertEnd(t)
  <2>1. CASE Publish(t) \/ Undo(t) \/ remove_entry_by_value(t) \/ Removed(t) \/ Retry(t) \/ RetryInsert(t)
    BY <2>1 DEF Publish, Undo, remove_entry_by_value, Removed, Retry, RetryInsert, ChoosePlan
  <2>2. CASE ReleaseAllNext(t)
    BY <2>2, Zenon DEF ReleaseAllNext
  <2>3. CASE InsertReturn(t)
    BY <1>0, <2>3 DEF InsertReturn, Return
  <2> QED BY <1>7, <2>1, <2>2, <2>3 DEF InsertEnd
<1>8. CASE LookupReturn(t)
  BY <1>0, <1>8 DEF LookupReturn, Return
<1>9. CASE BeginInsert(t) \/ BeginLookup(t)
  BY <1>9 DEF BeginInsert, ChoosePlan, BeginLookup
<1> QED BY <1>3, <1>4, <1>5, <1>6, <1>7, <1>8, <1>9 DEF Step, add_entry

(* A store to another cell leaves the root where it is.                    *)
LEMMA RootKept ==
  ASSUME TypeOK, RootInv, NEW t \in Threads, NEW kind, NEW p, NEW e, Store(t, kind, p, e),
         kind = "cell" => p \in Cells /\ p # RootCell
  PROVE  RootInv'
<1> DEFINE s == [kind |-> kind, bucket |-> BucketOf(p), cell |-> p, entry |-> e]
<1>1. cells \in [Cells -> Entries] /\ buf \in [Threads -> Seq(Stores)] /\ RootCell \in Cells
  BY EntryTypes DEF TypeOK
<1>2. CASE scenario.buffered
  <2>1. buf' = [buf EXCEPT ![t] = Append(buf[t], s)] /\ cells' = cells
    BY <1>2 DEF Store
  <2>2. s.kind = kind /\ s.cell = p
    OBVIOUS
  <2> HIDE DEF s
  <2>3. \A i \in DOMAIN buf'[t] : buf'[t][i] = s \/ (i \in DOMAIN buf[t] /\ buf'[t][i] = buf[t][i])
    BY <1>1, <2>1
  <2>4. \A u \in Threads \ {t} : buf'[u] = buf[u]
    BY <1>1, <2>1
  <2> QED BY <2>1, <2>2, <2>3, <2>4 DEF RootInv
<1>3. CASE ~scenario.buffered
  <2>1. Reach(s) /\ buf' = buf
    BY <1>3 DEF Store
  <2>2. cells' = IF kind = "cell" THEN [cells EXCEPT ![p] = e] ELSE cells
    BY <2>1 DEF Reach
  <2> QED BY <1>1, <2>1, <2>2 DEF RootInv
<1> QED BY <1>2, <1>3

(* No step writes to the cell of the root.                                 *)
LEMMA RootStep ==
  ASSUME TypeOK, RootInv, NEW t \in Threads, Control(t), Place(t),
         Step(t) \/ BeginInsert(t) \/ BeginLookup(t) \/ Drain(t)
  PROVE  RootInv'
<1>1. CASE write_entry(t)
  <2>1. pc[t] \in WritePcs /\ write[t].cell \in Cells /\ write[t].cell # RootCell
    BY <1>1 DEF write_entry, Control, CallInv, Place, CellsFixed
  <2>2. PICK kind, e : Store(t, kind, write[t].cell, e)
    BY <1>1, Zenon DEF write_entry
  <2> QED BY <2>1, <2>2, RootKept
<1>2. CASE Drain(t)
  <2>1. /\ buf[t] # <<>> /\ Reach(Head(buf[t])) /\ buf' = [buf EXCEPT ![t] = Tail(buf[t])]
        /\ cells \in [Cells -> Entries] /\ buf \in [Threads -> Seq(Stores)] /\ RootCell \in Cells
    BY <1>2, EntryTypes DEF Drain, TypeOK
  <2>2. PICK s \in Stores : s = Head(buf[t]) /\ s = buf[t][1] /\ 1 \in DOMAIN buf[t]
    BY <2>1
  <2>3. s.kind = "cell" => s.cell # RootCell /\ s.cell \in Cells
    BY <2>2 DEF RootInv, Stores
  <2>4. cells' = IF s.kind = "cell" THEN [cells EXCEPT ![s.cell] = s.entry] ELSE cells
    BY <2>1, <2>2 DEF Reach
  <2>5. cells'[RootCell] = Root
    BY <2>1, <2>3, <2>4 DEF RootInv
  <2>6. \A i \in DOMAIN buf'[t] : i + 1 \in DOMAIN buf[t] /\ buf'[t][i] = buf[t][i + 1]
    BY <2>1
  <2>7. \A u \in Threads \ {t} : buf'[u] = buf[u]
    BY <2>1
  <2> QED BY <2>5, <2>6, <2>7 DEF RootInv
<1>3. CASE ~write_entry(t) /\ ~Drain(t)
  <2>1. CASE Quiet(t)
    BY <2>1 DEF Quiet, RootInv
  <2>2. CASE \E b : Store(t, "unlock", <<b, 0>>, Unused)
    BY <2>2, RootKept
  <2> QED BY <1>3, <2>1, <2>2, QuietSteps
<1> QED BY <1>1, <1>2, <1>3

(* In an empty table the root is in its cell.                              *)
LEMMA PlaceInit == Init => PInv
<1> SUFFICES ASSUME Init PROVE PInv
  OBVIOUS
<1>1. RootInv
  BY EntryTypes DEF Init, RootInv
<1>2. ASSUME NEW t \in Threads PROVE Place(t)
  <2>1. pc[t] = "idle" /\ add[t].result = None /\ op[t].added = <<>>
    BY DEF Init, NoAdd, NoInsert
  <2>2. None # RootCell
    BY NoneAssumption, EntryTypes
  <2> QED BY <2>1, <2>2 DEF Place, WriteInv, MoveInv, PathFixed, CellsFixed, NodesFixed
<1> QED BY <1>1, <1>2 DEF PInv

(* A step of the system is a step of one thread or changes nothing.        *)
LEMMA StepCases ==
  ASSUME [Next]_vars
  PROVE  \/ UNCHANGED vars
         \/ \E t \in Threads : Step(t) \/ BeginInsert(t) \/ BeginLookup(t) \/ Drain(t)
BY DEF Next, Terminated

(* Nothing changes for a thread when no variable does.                     *)
LEMMA LocalsUnchanged ==
  ASSUME UNCHANGED vars, NEW t \in Threads
  PROVE  locals(t)' = locals(t)
BY DEF vars, locals

(* Every write goes to the cell its caller means, and never to that of the *)
(* root, in all behaviours, with and without store buffers.                *)
THEOREM PlaceInvariant == Spec => []PInv
<1>1. ASSUME CInv, PInv, [Next]_vars PROVE PInv'
  <2>1. CASE UNCHANGED vars
    BY <1>1, <2>1, LocalsUnchanged, PlaceIsLocal DEF PInv, RootInv, vars
  <2>2. ASSUME NEW t \in Threads, Step(t) \/ BeginInsert(t) \/ BeginLookup(t) \/ Drain(t)
        PROVE  PInv'
    <3>1. RootInv' /\ Place(t)'
      BY <1>1, <2>2, RootStep, PlaceStep DEF CInv, PInv
    <3>2. ASSUME NEW u \in Threads \ {t} PROVE Place(u)'
      <4>1. locals(u)' = locals(u)
        BY <1>1, <2>2, StepIsLocal DEF CInv, Others
      <4> QED BY <1>1, <4>1, PlaceIsLocal DEF PInv
    <3> QED BY <3>1, <3>2 DEF PInv
  <2> QED BY <1>1, <2>1, <2>2, StepCases
<1> QED BY <1>1, PlaceInit, ControlInvariant, PTL DEF Spec

(* relocate_entry moves neither the root, which find_root reads at a fixed *)
(* address, nor the cell its caller gave as immovable, for any number of   *)
(* threads, any table and any queue size, with and without store buffers.  *)
THEOREM FixedEntriesAreNotMoved == Spec => []FixedEntriesStay
<1>1. ASSUME CInv, PInv PROVE FixedEntriesStay
  <2>1. cells[RootCell] = Root
    BY <1>1 DEF PInv, RootInv
  <2>2. ASSUME NEW t \in Writers, pc[t] = "move" PROVE Occupied(t) # rel[t].immovable
    <3>1. TypeOK /\ Control(t) /\ Place(t) /\ t \in Threads
      BY <1>1 DEF CInv, PInv, Threads
    <3>2. Phase(t) \in MovePhases
      BY <2>2
    <3> QED BY <3>1, <3>2, OccupiedIsNotFixed
  <2> QED BY <2>1, <2>2 DEF FixedEntriesStay
<1> QED BY <1>1, ControlInvariant, PlaceInvariant, PTL

-----------------------------------------------------------------------------
(* Locks have one owner. *)

(* While the moves go on, the buckets of the free and of the occupied cell *)
(* are two different ones, both locked by relocate_entry.                  *)
LEMMA MoveBuckets ==
  ASSUME TypeOK, NEW t \in Threads, Control(t), Place(t), Phase(t) \in MovePhases
  PROVE  /\ bucket_refs[t][BucketOf(rel[t].free)] = 1
         /\ bucket_refs[t][BucketOf(Occupied(t))] = 1
         /\ BucketOf(rel[t].free) # BucketOf(Occupied(t))
         /\ BucketOf(rel[t].free) \in Buckets /\ BucketOf(Occupied(t)) \in Buckets
<1> DEFINE locked == Locked(t, bucket_refs[t])
<1>1. /\ rel[t].walk \in locked \cup {1} /\ bucket_refs[t][Primary(t)] = 1
      /\ bucket_refs[t][rel[t].child_bucket] = 1
      /\ \A j \in locked : ParentAt(t, j) \in locked \cup {1}
  BY DEF Control, PathInv, PathRefs
<1>2. /\ BucketAt(t, 1) = Primary(t) /\ rel[t].walk \in Positions(t)
      /\ \A j \in Positions(t) \ {1} : ParentAt(t, j) \in 1..(j - 1)
      /\ \A j, k \in Positions(t) : BucketAt(t, j) = BucketAt(t, k) => j = k
      /\ \A j \in Positions(t) : BucketAt(t, j) \in Buckets /\ Queued(t, BucketAt(t, j))
      /\ ~Queued(t, rel[t].child_bucket) /\ rel[t].child_bucket \in Buckets
      /\ Occupied(t) \in Cells /\ BucketOf(Occupied(t)) = BucketAt(t, rel[t].walk)
  BY QueueFacts, OccupiedType DEF Control, QueueInv
<1>3. bucket_refs[t][BucketOf(Occupied(t))] = 1
  BY <1>1, <1>2 DEF Locked
<1>4. CASE BucketOf(rel[t].free) = rel[t].child_bucket
  BY <1>1, <1>2, <1>3, <1>4
<1>5. ASSUME NEW j \in locked, BucketOf(rel[t].free) = BucketAt(t, j), rel[t].walk = ParentAt(t, j)
      PROVE  /\ bucket_refs[t][BucketOf(rel[t].free)] = 1
             /\ BucketOf(rel[t].free) # BucketOf(Occupied(t)) /\ BucketOf(rel[t].free) \in Buckets
  <2>1. j \in Positions(t) \ {1} /\ bucket_refs[t][BucketAt(t, j)] = 1
    BY <1>5 DEF Locked
  <2>2. j # rel[t].walk
    <3>1. j \in Nat
      BY <2>1 DEF Positions
    <3> QED BY <1>2, <1>5, <2>1, <3>1
  <2> QED BY <1>2, <1>5, <2>1, <2>2
<1> QED BY <1>2, <1>3, <1>4, <1>5, OccupiedIsOnPath

(* move_entry_lock between two buckets that are both referenced changes no *)
(* owner.                                                                  *)
LEMMA EntryLockMoves ==
  ASSUME TypeOK, LockInv, NEW t \in Threads, NEW dst, NEW src, move_entry_lock(t, dst, src),
         bucket_refs' = bucket_refs, UNCHANGED memory,
         bucket_refs[t][BucketOf(dst)] = 1, bucket_refs[t][BucketOf(src)] = 1
  PROVE  LockInv'
<1>1. \A u \in Threads \ {t} : entry_locks'[u] = entry_locks[u]
  BY DEF move_entry_lock, TypeOK
<1>2. \A p : p \in entry_locks'[t] => p \in entry_locks[t] \/ p = dst
  BY DEF move_entry_lock, TypeOK
<1>3. \A p : p \in entry_locks[t] => p \in entry_locks'[t] \/ p = src
  BY DEF move_entry_lock, TypeOK
<1>4. \A u \in Threads, b \in Buckets : Held(u, b)' = Held(u, b)
  <2>1. ASSUME NEW b PROVE Held(t, b)' <=> Held(t, b)
    BY <1>2, <1>3 DEF Held
  <2> QED BY <1>1, <2>1 DEF Held
<1> QED BY <1>4, LocksQuiet, PendingKept

(* The steps that release one bucket reference had it.                     *)
LEMMA StepReleases ==
  ASSUME TypeOK, LockInv, NEW t \in Threads, Control(t)
  PROVE  /\ AddReturn(t) => LockInv'
         /\ SearchFailed(t) \/ RelocateFailed(t) => LockInv'
         /\ ReleaseFree(t) => LockInv'
         /\ ReleasePath(t) => LockInv'
<1>1. ASSUME AddReturn(t) PROVE LockInv'
  <2>1. pc[t] \in {"added", "withdrawn"} /\ release_bucket_lock(t, BucketOf(add[t].result)) /\ entry_locks' = entry_locks
    BY <1>1 DEF AddReturn
  <2>2. RefsOn(bucket_refs[t], {BucketOf(add[t].result)}) /\ add[t].result \in Cells
    BY <2>1 DEF Control, RefsInv, AddInv
  <2>3. BucketOf(add[t].result) \in Buckets /\ bucket_refs[t][BucketOf(add[t].result)] = 1
    BY <2>2, EntryTypes, RefRemoved
  <2> QED BY <2>1, <2>3, BucketReleased
<1>2. ASSUME SearchFailed(t) \/ RelocateFailed(t) PROVE LockInv'
  <2>1. pc[t] \in {"search", "relocate_failed"} /\ release_bucket_lock(t, Primary(t)) /\ entry_locks' = entry_locks
    BY <1>2 DEF SearchFailed, RelocateFailed
  <2>2. RefsOn(bucket_refs[t], {Primary(t)}) /\ Primary(t) \in Buckets
    BY <2>1, NodeTypes DEF Control, RefsInv
  <2>3. bucket_refs[t][Primary(t)] = 1
    BY <2>2, RefRemoved
  <2> QED BY <2>1, <2>2, <2>3, BucketReleased
<1>3. ASSUME ReleaseFree(t) PROVE LockInv'
  <2>1. pc[t] = "release_free" /\ release_bucket_lock(t, rel[t].child_bucket) /\ entry_locks' = entry_locks
    BY <1>3 DEF ReleaseFree
  <2>2. bucket_refs[t][rel[t].child_bucket] = 1 /\ rel[t].child_bucket \in Buckets
    BY <2>1, QueueFacts DEF Control, PathInv
  <2> QED BY <2>1, <2>2, BucketReleased
<1>4. ASSUME ReleasePath(t) PROVE LockInv'
  <2> DEFINE locked == Locked(t, bucket_refs[t])
  <2>1. /\ pc[t] = "release_path" /\ release_bucket_lock(t, BucketAt(t, rel[t].walk)) /\ entry_locks' = entry_locks
        /\ rel[t].locked > 0
    BY <1>4 DEF ReleasePath, BucketAt
  <2>2. rel[t].locked = Cardinality(locked) + 0 /\ (locked # {} => rel[t].walk \in locked)
    BY <2>1 DEF Control, PathInv
  <2>3. locked # {}
    <3>1. Cardinality(locked) \in Nat
      BY <2>1, LockedIsFinite
    <3> HIDE DEF locked
    <3>2. Cardinality(locked) # 0
      BY <2>1, <2>2, <3>1
    <3> QED BY <3>2, FS_EmptySet
  <2>4. BucketAt(t, rel[t].walk) \in Buckets /\ bucket_refs[t][BucketAt(t, rel[t].walk)] = 1
    BY <2>1, <2>2, <2>3, QueueFacts DEF Locked
  <2> QED BY <2>1, <2>4, BucketReleased
<1> QED BY <1>1, <1>2, <1>3, <1>4

(* upgrade_bucket_lock adds a reference to a bucket that is owned, or      *)
(* takes a lock that is free.                                              *)
LEMMA UpgradeLocks ==
  ASSUME TypeOK, LockInv, NEW t \in Threads, Control(t), upgrade_bucket_lock(t)
  PROVE  LockInv'
<1>1. pc[t] \in UpgradePcs /\ UpgradeBucket(t) \in Buckets
  BY UpgradeFacts DEF upgrade_bucket_lock, UpgradeHeld, UpgradeTake, UpgradeCheck
<1>2. PICK b \in Buckets : b = UpgradeBucket(t)
  BY <1>1
<1>3. CASE UpgradeHeld(t)
  <2>1. Held(t, b) /\ UNCHANGED <<memory, entry_locks>> /\ (AddBucketRef(t, b) \/ bucket_refs' = bucket_refs)
    BY <1>2, <1>3 DEF UpgradeHeld
  <2>2. bucket_refs \in [Threads -> [Buckets -> Nat]]
    BY DEF TypeOK
  <2>3. \A u \in Threads, c \in Buckets : Held(u, c)' = Held(u, c)
    <3>1. CASE bucket_refs' = bucket_refs
      BY <2>1, <3>1 DEF Held
    <3>2. CASE AddBucketRef(t, b)
      <4>1. bucket_refs' = [bucket_refs EXCEPT ![t][b] = bucket_refs[t][b] + 1]
        BY <3>2 DEF AddBucketRef
      <4>2. \A u \in Threads, c \in Buckets : u # t \/ c # b => Held(u, c)' = Held(u, c)
        BY <2>1, <2>2, <4>1 DEF Held
      <4>3. Held(t, b)' = Held(t, b)
        BY <2>1, <2>2, <4>1 DEF Held
      <4> QED BY <4>2, <4>3
    <3> QED BY <2>1, <3>1, <3>2
  <2> QED BY <2>1, <2>3, LocksQuiet, PendingKept
<1>4. CASE UpgradeTake(t)
  <2>1. /\ buf[t] = <<>> /\ UNCHANGED <<scenario, buf, entry_locks>>
        /\ \/ lock[b] = 0 /\ lock' = [lock EXCEPT ![b] = 1] /\ AddBucketRef(t, b)
           \/ UNCHANGED <<lock, bucket_refs>>
    BY <1>2, <1>4 DEF UpgradeTake
  <2>2. CASE lock[b] = 0 /\ lock' = [lock EXCEPT ![b] = 1] /\ AddBucketRef(t, b)
    BY <2>1, <2>2, LockAcquired
  <2>3. CASE UNCHANGED <<lock, bucket_refs>>
    BY <2>1, <2>3, LocksQuiet, PendingKept, HeldKept
  <2> QED BY <2>1, <2>2, <2>3
<1>5. CASE UpgradeCheck(t)
  <2>1. /\ pc[t] = "upgrade_check" /\ entry_locks' = entry_locks
        /\ UNCHANGED <<memory, bucket_refs>> \/ release_bucket_lock(t, b)
    BY <1>2, <1>5 DEF UpgradeCheck
  <2>2. CASE UNCHANGED <<memory, bucket_refs>>
    BY <2>1, <2>2, LocksQuiet, PendingKept, HeldKept
  <2>3. CASE release_bucket_lock(t, b)
    <3>1. RefsAfter(t, bucket_refs[t]) /\ bucket_refs[t] \in [Buckets -> Nat]
      BY <2>1 DEF Control, RefsInv, TypeOK
    <3>2. bucket_refs[t][b] = 1
      BY <1>2, <2>1, <3>1, LockGivenBack
    <3> QED BY <2>1, <2>3, <3>2, BucketReleased
  <2> QED BY <2>1, <2>2, <2>3
<1> QED BY <1>3, <1>4, <1>5 DEF upgrade_bucket_lock

(* All steps of a thread.                                                  *)
LEMMA LockStep ==
  ASSUME TypeOK, LockInv, NEW t \in Threads, Control(t), Place(t),
         Step(t) \/ BeginInsert(t) \/ BeginLookup(t) \/ Drain(t)
  PROVE  LockInv'
<1>1. ASSUME UNCHANGED <<memory, locks>> PROVE LockInv'
  BY <1>1, LocksQuiet, PendingKept, HeldKept
<1>2. CASE AddStep(t)
  <2>1. CASE PutEntry(t)
    <3>1. pc[t] = "put" /\ UNCHANGED <<memory, bucket_refs>>
      BY <2>1 DEF PutEntry
    <3>2. entry_locks' = entry_locks \/ entry_locks' = [entry_locks EXCEPT ![t] = entry_locks[t] \cup {add[t].result}]
      BY <2>1 DEF PutEntry
    <3>3. RefsOn(bucket_refs[t], {BucketOf(add[t].result)}) /\ add[t].result \in Cells
      BY <3>1 DEF Control, RefsInv, AddInv
    <3>4. bucket_refs[t][BucketOf(add[t].result)] = 1
      BY <3>3, EntryTypes, RefRemoved
    <3>5. DOMAIN entry_locks = Threads
      BY DEF TypeOK
    <3>6. \A u \in Threads, b \in Buckets : Held(u, b)' = Held(u, b)
      <4>1. ASSUME NEW b PROVE Held(t, b)' = Held(t, b)
        BY <3>1, <3>2, <3>4, <3>5 DEF Held
      <4>2. \A u \in Threads \ {t} : \A b : Held(u, b)' = Held(u, b)
        BY <3>1, <3>2, <3>5 DEF Held
      <4> QED BY <4>1, <4>2
    <3> QED BY <3>1, <3>6, LocksQuiet, PendingKept
  <2>2. CASE ReadLockPrimary(t) \/ ReadLockSecondary(t) \/ ScanPrimary(t) \/ ScanSecondary(t) \/ ReadUnlock(t)
    BY <1>1, <2>2 DEF ReadLockPrimary, ReadLockSecondary, ScanPrimary, ScanSecondary, ReadUnlock
  <2> QED BY <1>2, <2>1, <2>2, StepReleases DEF AddStep
<1>3. CASE relocate_entry(t)
  <2>1. CASE Relocate(t) \/ SearchExamine(t) \/ SearchReadLock(t) \/ SearchScan(t) \/ MoveEntry(t) \/ RelocateReturn(t)
    BY <1>1, <2>1 DEF Relocate, SearchExamine, SearchReadLock, SearchScan, MoveEntry, RelocateReturn
  <2>2. CASE MoveNext(t)
    <3>1. pc[t] = "moved" /\ move_entry_lock(t, rel[t].free, Occupied(t)) /\ UNCHANGED <<memory, bucket_refs>>
      BY <2>2 DEF MoveNext
    <3> QED BY <3>1, MoveBuckets, EntryLockMoves
  <2> QED BY <1>3, <2>1, <2>2, StepReleases DEF relocate_entry, SearchStep, MoveStep, RelocateEnd
<1>4. CASE write_entry(t)
  <2>1. pc[t] \in WritePcs /\ write[t].cell \in Cells /\ write[t].entry \in Entries /\ UNCHANGED locks
    BY <1>4, TypeParts DEF write_entry, Control, CallInv, WriteType
  <2>2. PICK kind \in {"seq", "cell"}, e \in Entries : Store(t, kind, write[t].cell, e)
    BY <1>4, <2>1, EntryTypes DEF write_entry
  <2>3. /\ scenario' = scenario /\ lock' = lock /\ (~scenario.buffered => buf' = buf)
        /\ \A u, b : Pending(u, "unlock", b)' = Pending(u, "unlock", b)
    BY <2>1, <2>2, StorePending
  <2> QED BY <2>1, <2>3, LocksQuiet, HeldKept
<1>5. CASE find_entry_in_pair_by_color(t) \/ LookupReturn(t) \/ BeginInsert(t) \/ BeginLookup(t)
  BY <1>1, <1>5 DEF find_entry_in_pair_by_color, FindReadCounter, FindScan, FindCheckCounter, LookupReturn,
                    BeginInsert, BeginLookup, ChoosePlan
<1>6. CASE InsertEnd(t)
  <2>1. CASE ~ReleaseAllNext(t)
    BY <1>1, <1>6, <2>1 DEF InsertEnd, Publish, Undo, remove_entry_by_value, Removed, Retry, InsertReturn,
                            RetryInsert, ChoosePlan
  <2>2. CASE ReleaseAllNext(t)
    <3>1. PICK b \in Buckets : /\ Held(t, b) /\ Store(t, "unlock", <<b, 0>>, Unused)
                               /\ bucket_refs' = [bucket_refs EXCEPT ![t][b] = 0]
                               /\ entry_locks' = [entry_locks EXCEPT ![t] = {p \in entry_locks[t] : BucketOf(p) # b}]
      BY <2>2 DEF ReleaseAllNext
    <3>2. bucket_refs \in [Threads -> [Buckets -> Nat]] /\ DOMAIN entry_locks = Threads
      BY DEF TypeOK
    <3>3. ~Held(t, b)'
      BY <3>1, <3>2 DEF Held
    <3>4. \A u \in Threads, c \in Buckets : u # t \/ c # b => Held(u, c)' = Held(u, c)
      BY <3>1, <3>2 DEF Held
    <3> QED BY <3>1, <3>3, <3>4, LockReleased
  <2> QED BY <2>1, <2>2
<1> QED BY <1>2, <1>3, <1>4, <1>5, <1>6, UpgradeLocks, UnlockDrained DEF Step, add_entry

(* The lock byte of a bucket is set exactly while one thread counts a lock *)
(* in it or has its unlock still in the store buffer, and never are there  *)
(* two such threads: no lock is lost, leaked or released twice, whatever   *)
(* the relocations, failed upgrades and roll-backs of all threads do.      *)
THEOREM LockInvariant == Spec => []LockInv
<1>1. Init => LockInv
  <2> SUFFICES ASSUME Init PROVE LockInv
    OBVIOUS
  <2>1. \A t \in Threads, b \in Buckets : ~Held(t, b) /\ Pending(t, "unlock", b) = {}
    BY DEF Init, Held, Pending
  <2> QED BY <2>1 DEF Init, LockInv, Owns
<1>2. ASSUME CInv, PInv, LockInv, [Next]_vars PROVE LockInv'
  <2>1. CASE UNCHANGED vars
    BY <1>2, <2>1, LocksQuiet, PendingKept, HeldKept DEF vars
  <2>2. ASSUME NEW t \in Threads, Step(t) \/ BeginInsert(t) \/ BeginLookup(t) \/ Drain(t)
        PROVE  LockInv'
    BY <1>2, <2>2, LockStep DEF CInv, PInv
  <2> QED BY <1>2, <2>1, <2>2, StepCases
<1> QED BY <1>1, <1>2, ControlInvariant, PlaceInvariant, PTL DEF Spec

(* No lock byte is left set, or cleared while another thread relies on it, *)
(* as release_bucket_lock, release_all_locks and the failing upgrades of   *)
(* upgrade_bucket_lock must see to.                                        *)
THEOREM LocksAreOwned == Spec => []LocksHaveOneOwner
<1>1. LockInv => LocksHaveOneOwner
  BY DEF LockInv, LocksHaveOneOwner
<1> QED BY <1>1, LockInvariant, PTL

-----------------------------------------------------------------------------
(***************************************************************************)
(* What is in the cells while every store is visible at once: each entry   *)
(* is in the bucket its flag says, and relocate_entry moves entries only   *)
(* to where they belong, although it plans the moves before it holds the   *)
(* locks.  What it has read about a bucket holds until another thread      *)
(* writes there, and then upgrade_bucket_lock finds its read lock stale.   *)
(***************************************************************************)

(* Somebody writes to this bucket, and not to remove a node.               *)
Writing(b) ==
  \E u \in Threads : pc[u] \in {"write2", "write3"} /\ BucketOf(write[u].cell) = b /\ write[u].then # "removed"

(* What was seen in the bucket at position j of the queue still holds.     *)
Kept(t, j) ==
  \/ j = 1
  \/ j \in Locked(t, bucket_refs[t]) /\ ~(pc[t] = "upgrade_check" /\ up[t] = j)
  \/ Fresh(t, j) /\ ~Writing(BucketAt(t, j))

(* An entry in cell p belongs in bucket b as well.                         *)
Leads(p, b) == cells[p].id = None \/ alternate_bucket(cells[p], BucketOf(p)) = b

(* The entry in each cell of the path belongs in the next bucket, if it is *)
(* still the entry that was seen; once all is locked it is.                *)
PathLeads(t) ==
  /\ Phase(t) \in SearchPhases \/ ForFree(t) \/ ForPath(t) =>
       /\ \A j \in Positions(t) \ {1} : Kept(t, ParentAt(t, j)) => Leads(PathCell(t, j), BucketAt(t, j))
       /\ Phase(t) # "search" /\ Kept(t, rel[t].pos) => Leads(SearchCell(t), rel[t].child_bucket)
  /\ Phase(t) \in MovePhases =>
       /\ \A j \in Locked(t, bucket_refs[t]) : j <= rel[t].walk => Leads(PathCell(t, j), BucketAt(t, j))
       /\ pc[t] = "move" => Leads(Occupied(t), BucketOf(rel[t].free))

(* Entry e may be in bucket b.                                             *)
Fits(e, b) == e.id # None => b = IF e.secondary THEN mix_bucket(e.home, e.tag) ELSE e.home

(* Entries fit where they are and where they are being written to.         *)
ContentInv ==
  /\ \A p \in Cells : Fits(cells[p], BucketOf(p))
  /\ \A t \in Threads : pc[t] \in {"write1", "write2"} => Fits(write[t].entry, BucketOf(write[t].cell))
  /\ \A t \in Threads : PathLeads(t)

(* All of it holds when every store is visible at once.                    *)
OrderedContent == ~scenario.buffered => ContentInv

-----------------------------------------------------------------------------
(* What other threads can do to the entries a thread has seen. *)

(* Whoever adds, withdraws or moves an entry has locked the bucket it      *)
(* writes to.                                                              *)
LEMMA WriterHolds ==
  ASSUME TypeOK, NEW t \in Threads, Control(t), Place(t), pc[t] \in WritePcs, write[t].then # "removed"
  PROVE  /\ bucket_refs[t][BucketOf(write[t].cell)] = 1
         /\ Held(t, BucketOf(write[t].cell)) /\ BucketOf(write[t].cell) \in Buckets
<1>1. /\ write[t].cell \in Cells /\ BucketOf(write[t].cell) \in Buckets
      /\ write[t].then \in {"read_unlock", "withdrawn", "moved", "release_free"} /\ Phase(t) = write[t].then
  BY EntryTypes DEF Control, CallInv
<1>2. CASE Phase(t) \in {"read_unlock", "withdrawn"}
  <2>1. write[t].cell = add[t].result /\ RefsOn(bucket_refs[t], {BucketOf(add[t].result)})
    BY <1>2 DEF Place, WriteInv, Control, RefsInv
  <2>2. bucket_refs[t][BucketOf(add[t].result)] = 1
    BY <1>1, <2>1 DEF RefsOn
  <2> QED BY <1>1, <2>1, <2>2 DEF Held
<1>3. CASE Phase(t) = "moved"
  <2>1. write[t].cell = rel[t].free
    BY <1>3 DEF Place, WriteInv
  <2> QED BY <1>1, <1>3, <2>1, MoveBuckets DEF Held
<1>4. CASE Phase(t) = "release_free"
  <2>1. write[t].cell = add[t].result /\ rel[t].ok
    BY <1>4 DEF Place, WriteInv
  <2>2. BucketOf(add[t].result) = Primary(t) /\ bucket_refs[t][Primary(t)] = 1
    BY <1>4, <2>1 DEF Control, QueueInv, PathInv, PathRefs
  <2> QED BY <1>1, <2>1, <2>2 DEF Held
<1> QED BY <1>1, <1>2, <1>3, <1>4

(* Without store buffers all threads see what is in memory.                *)
LEMMA SeenIsMemory ==
  ASSUME LockInv, ~scenario.buffered, NEW t \in Threads
  PROVE  /\ \A p : Seen(t, p) = cells[p]
         /\ \A b \in Buckets : LockSeen(t, b) = lock[b]
<1>1. buf[t] = <<>>
  BY DEF LockInv
<1>2. \A kind, b : Pending(t, kind, b) = {}
  BY <1>1 DEF Pending
<1> QED BY <1>2 DEF Seen, LockSeen

(* What a step does to the table without store buffers: the middle one of  *)
(* write_entry's three steps stores the entry, the others turn the counter *)
(* and make the handles on the bucket stale, and nothing else touches      *)
(* cells or counters.                                                      *)
LEMMA Effects ==
  ASSUME TypeOK, LockInv, ~scenario.buffered, NEW t \in Threads, Control(t),
         Step(t) \/ BeginInsert(t) \/ BeginLookup(t) \/ Drain(t)
  PROVE  /\ ~Drain(t) /\ scenario' = scenario
         /\ \/ /\ pc[t] \in {"write1", "write3"} /\ write_entry(t) /\ cells' = cells
               /\ busy' = [busy EXCEPT ![BucketOf(write[t].cell)] = ~busy[BucketOf(write[t].cell)]]
               /\ stale' = [u \in Threads |-> stale[u] \cup HandlesOn(u, BucketOf(write[t].cell))]
            \/ /\ pc[t] = "write2" /\ write_entry(t) /\ UNCHANGED <<busy, stale>>
               /\ cells' = [cells EXCEPT ![write[t].cell] = write[t].entry]
            \/ /\ ~write_entry(t) /\ UNCHANGED <<cells, busy>>
               /\ \A u \in Threads \ {t} : stale'[u] = stale[u]
<1>0. buf[t] = <<>> /\ stale = [u \in Threads |-> stale[u]]
  BY DEF LockInv, TypeOK
<1>1. ~Drain(t)
  BY <1>0 DEF Drain
<1>2. ASSUME NEW kind, NEW p, NEW e, Store(t, kind, p, e)
      PROVE  /\ scenario' = scenario
             /\ kind = "cell" => cells' = [cells EXCEPT ![p] = e] /\ UNCHANGED <<busy, stale>>
             /\ kind = "seq" => /\ busy' = [busy EXCEPT ![BucketOf(p)] = ~busy[BucketOf(p)]] /\ cells' = cells
                                /\ stale' = [u \in Threads |-> stale[u] \cup HandlesOn(u, BucketOf(p))]
             /\ kind = "unlock" => UNCHANGED <<cells, busy, stale>>
  <2> DEFINE s == [kind |-> kind, bucket |-> BucketOf(p), cell |-> p, entry |-> e]
  <2>1. Reach(s) /\ Outdate(s, Threads)
    BY <1>2 DEF Store
  <2>2. s.kind = kind /\ s.bucket = BucketOf(p) /\ s.cell = p /\ s.entry = e
    OBVIOUS
  <2> HIDE DEF s
  <2>3. /\ cells' = IF kind = "cell" THEN [cells EXCEPT ![p] = e] ELSE cells
        /\ busy' = IF kind = "seq" THEN [busy EXCEPT ![BucketOf(p)] = ~busy[BucketOf(p)]] ELSE busy
        /\ scenario' = scenario
    BY <2>1, <2>2 DEF Reach
  <2>4. kind = "seq" => stale' = [u \in Threads |-> stale[u] \cup HandlesOn(u, BucketOf(p))]
    BY <2>1, <2>2 DEF Outdate
  <2>5. kind # "seq" => stale' = stale
    BY <1>0, <2>1, <2>2 DEF Outdate
  <2> QED BY <2>3, <2>4, <2>5
<1>3. CASE write_entry(t)
  BY <1>1, <1>2, <1>3 DEF write_entry
<1>4. CASE ~write_entry(t)
  <2>1. CASE Quiet(t)
    BY <1>1, <1>4, <2>1 DEF Quiet
  <2>2. CASE \E b : Store(t, "unlock", <<b, 0>>, Unused)
    BY <1>1, <1>2, <1>4, <2>2
  <2> QED BY <1>1, <1>4, <2>1, <2>2, QuietSteps
<1> QED BY <1>3, <1>4

(* Where t holds the lock, or its read lock is fresh and nobody writes, a  *)
(* step of another thread leaves t's entries where they lead; at most it   *)
(* removes one.                                                            *)
LEMMA OtherKeeps ==
  ASSUME CInv, PInv, LockInv, ~scenario.buffered,
         NEW t \in Threads, NEW u \in Threads \ {t},
         Step(u) \/ BeginInsert(u) \/ BeginLookup(u) \/ Drain(u),
         NEW b \in Buckets,
         Held(t, b) \/ \E h \in Handles : rl[t][h] = b /\ Fresh(t, h)' /\ ~Writing(b)'
  PROVE  /\ \A h \in Handles : rl[t][h] = b /\ Fresh(t, h)' /\ ~Writing(b)' => Fresh(t, h) /\ ~Writing(b)
         /\ \A p \in Cells : \A c : BucketOf(p) = b /\ Leads(p, c) => Leads(p, c)'
<1>1. /\ TypeOK /\ Control(u) /\ Place(u) /\ rl[t] \in [Handles -> Buckets \cup {None}]
      /\ pc \in [Threads -> Labels] /\ stale \in [Threads -> SUBSET Handles]
      /\ cells \in [Cells -> Entries]
  BY DEF CInv, PInv, TypeOK
<1>2. \A v \in Threads \ {u} : pc'[v] = pc[v] /\ write'[v] = write[v] /\ rl'[v] = rl[v]
  BY <1>1, StepIsLocal DEF Others, locals
<1>3. CASE ~write_entry(u) /\ cells' = cells /\ \A v \in Threads \ {u} : stale'[v] = stale[v]
  <2>1. pc[u] \notin WritePcs
    <3>1. ASSUME pc[u] \in WritePcs PROVE FALSE
      <4>1. Step(u)
        BY <3>1, Effects, <1>1 DEF BeginInsert, BeginLookup
      <4>2. write_entry(u)
        BY <3>1, <4>1 DEF Step, add_entry, AddStep, ReadLockPrimary, ReadLockSecondary, ScanPrimary, ScanSecondary,
             PutEntry, ReadUnlock, AddReturn, upgrade_bucket_lock, UpgradeHeld, UpgradeTake, UpgradeCheck,
             relocate_entry, Relocate, SearchStep, SearchExamine, SearchReadLock, SearchScan, SearchFailed,
             MoveStep, MoveEntry, MoveNext, RelocateEnd, ReleaseFree, ReleasePath, RelocateReturn, RelocateFailed,
             find_entry_in_pair_by_color, FindReadCounter, FindScan, FindCheckCounter, InsertEnd, Publish, Undo,
             remove_entry_by_value, Removed, Retry, ReleaseAllNext, InsertReturn, RetryInsert, LookupReturn
      <4> QED BY <1>3, <4>2
    <3> QED BY <3>1
  <2>2. Writing(b) => Writing(b)'
    BY <1>2, <2>1 DEF Writing
  <2> QED BY <1>3, <2>2 DEF Fresh, Leads
<1>4. CASE pc[u] \in {"write1", "write3"} /\ write_entry(u) /\ cells' = cells
           /\ stale' = [v \in Threads |-> stale[v] \cup HandlesOn(v, BucketOf(write[u].cell))]
  <2>1. \A h \in Handles : h \in stale[t] \/ (rl[t][h] = BucketOf(write[u].cell)) => h \in stale'[t]
    BY <1>4 DEF HandlesOn
  <2>2. ASSUME NEW h \in Handles, rl[t][h] = b, h \notin stale'[t], Writing(b) PROVE Writing(b)'
    <3>1. BucketOf(write[u].cell) # b
      BY <2>1, <2>2
    <3> QED BY <1>2, <2>2, <3>1 DEF Writing
  <2> QED BY <1>4, <2>1, <2>2 DEF Fresh, Leads
<1>5. CASE pc[u] = "write2" /\ write_entry(u) /\ stale' = stale
           /\ cells' = [cells EXCEPT ![write[u].cell] = write[u].entry]
  <2>1. pc'[u] = "write3" /\ write' = write
    BY <1>1, <1>5 DEF write_entry
  <2>2. Writing(b) => Writing(b)'
    BY <1>2, <1>5, <2>1 DEF Writing
  <2>3. CASE write[u].then = "removed"
    <3>1. write[u].entry.id = None
      BY <1>1, <1>5, <2>3 DEF Place, WriteInv, Unused
    <3> QED BY <1>1, <1>5, <2>2, <3>1 DEF Fresh, Leads
  <2>4. CASE write[u].then # "removed"
    <3>1. Held(u, BucketOf(write[u].cell)) /\ BucketOf(write[u].cell) \in Buckets
      BY <1>1, <1>5, <2>4, WriterHolds
    <3>2. BucketOf(write[u].cell) = b => Writing(b)'
      BY <2>1, <2>4 DEF Writing
    <3>3. Held(t, b) => BucketOf(write[u].cell) # b
      BY <3>1 DEF LockInv, Owns
    <3>4. BucketOf(write[u].cell) # b
      BY <3>2, <3>3
    <3>5. \A p \in Cells : BucketOf(p) = b => cells'[p] = cells[p]
      BY <1>1, <1>5, <3>4
    <3> QED BY <1>5, <2>2, <3>5 DEF Fresh, Leads
  <2> QED BY <2>3, <2>4
<1> QED BY <1>1, <1>3, <1>4, <1>5, Effects

(* relocate_entry keeps the primary bucket of its node locked, and the     *)
(* buckets of the path it has locked.                                      *)
LEMMA PathBuckets ==
  ASSUME TypeOK, NEW t \in Threads, Control(t),
         Phase(t) \in SearchPhases \cup MovePhases \/ ForFree(t) \/ ForPath(t)
  PROVE  /\ Held(t, Primary(t)) /\ BucketAt(t, 1) = Primary(t)
         /\ \A j \in Locked(t, bucket_refs[t]) : Held(t, BucketAt(t, j))
<1>1. bucket_refs[t][Primary(t)] = 1
  <2>1. Primary(t) \in Buckets
    BY NodeTypes
  <2>2. CASE Phase(t) \in MovePhases
    BY <2>2 DEF Control, PathInv, PathRefs
  <2>3. CASE Phase(t) \in SearchPhases
    BY <2>1, <2>3 DEF Control, RefsInv, RefsOn
  <2>4. CASE ForFree(t) \/ ForPath(t)
    BY <2>1, <2>4 DEF Control, RefsInv, RefsBefore, RefsAfter, RefsOn, PathRefs
  <2> QED BY <2>2, <2>3, <2>4
<1> QED BY <1>1, QueueFacts DEF Held, Locked

(* The cells of the path are cells of the queued buckets.                  *)
LEMMA PathCells ==
  ASSUME TypeOK, NEW t \in Threads, Control(t), Relocating(t)
  PROVE  /\ \A j \in Positions(t) \ {1} :
              /\ PathCell(t, j) \in Cells /\ BucketOf(PathCell(t, j)) = BucketAt(t, ParentAt(t, j))
              /\ ParentAt(t, j) \in Positions(t)
         /\ rel[t].pos \in Positions(t) =>
              SearchCell(t) \in Cells /\ BucketOf(SearchCell(t)) = BucketAt(t, rel[t].pos)
<1>1. /\ \A j \in Positions(t) \ {1} : ParentAt(t, j) \in Positions(t)
      /\ \A j \in Positions(t) : BucketAt(t, j) \in Buckets /\ rel[t].queue[j].child \in CellNumbers
      /\ rel[t].i \in CellNumbers
  <2>1. \A j \in Positions(t) : rel[t].queue[j] \in QueueElements
    BY QueueFacts
  <2> QED BY <2>1, QueueFacts DEF QueueElements
<1> QED BY <1>1 DEF PathCell, SearchCell, BucketOf, BucketAt, Cells

(* So what t has seen at a position of its queue holds as long as it could *)
(* find out that it does not.                                              *)
LEMMA OtherKept ==
  ASSUME CInv, PInv, LockInv, ~scenario.buffered,
         NEW t \in Threads, NEW u \in Threads \ {t},
         Step(u) \/ BeginInsert(u) \/ BeginLookup(u) \/ Drain(u),
         Phase(t) \in SearchPhases \cup MovePhases \/ ForFree(t) \/ ForPath(t),
         NEW j \in Positions(t), Kept(t, j)'
  PROVE  /\ Kept(t, j)
         /\ \A p \in Cells : \A c : BucketOf(p) = BucketAt(t, j) /\ Leads(p, c) => Leads(p, c)'
<1>1. TypeOK /\ Control(t)
  BY DEF CInv
<1>2. locals(t)' = locals(t)
  BY <1>1, StepIsLocal DEF Others
<1>3. /\ pc'[t] = pc[t] /\ rel'[t] = rel[t] /\ up'[t] = up[t] /\ rl'[t] = rl[t] /\ bucket_refs'[t] = bucket_refs[t]
  BY <1>2 DEF locals
<1>4. BucketAt(t, j)' = BucketAt(t, j) /\ Locked(t, bucket_refs[t])' = Locked(t, bucket_refs[t])
  BY <1>3 DEF BucketAt, Locked, Positions
<1>5. BucketAt(t, j) \in Buckets /\ rl[t][j] = BucketAt(t, j) /\ j \in Handles
  BY <1>1, QueueFacts
<1>6. PICK b \in Buckets : b = BucketAt(t, j)
  BY <1>5
<1>7. CASE \/ j = 1
           \/ j \in Locked(t, bucket_refs[t]) /\ ~(pc[t] = "upgrade_check" /\ up[t] = j)
  <2>1. Held(t, b)
    BY <1>1, <1>6, <1>7, PathBuckets
  <2>2. Kept(t, j)
    BY <1>7 DEF Kept
  <2> QED BY <1>6, <2>1, <2>2, OtherKeeps
<1>8. CASE Fresh(t, j)' /\ ~Writing(b)'
  BY <1>5, <1>6, <1>8, OtherKeeps DEF Kept
<1>9. ASSUME Fresh(t, j)', ~Writing(BucketAt(t, j))' PROVE Fresh(t, j)' /\ ~Writing(b)'
  BY <1>4, <1>6, <1>9 DEF Writing
<1>10. \/ j = 1
       \/ j \in Locked(t, bucket_refs[t]) /\ ~(pc[t] = "upgrade_check" /\ up[t] = j)
       \/ Fresh(t, j)' /\ ~Writing(BucketAt(t, j))'
  BY <1>3, <1>4, Zenon DEF Kept
<1> QED BY <1>7, <1>8, <1>9, <1>10

(* A step of another thread does not change where the entries of the path  *)
(* lead.                                                                   *)
LEMMA OtherPath ==
  ASSUME CInv, PInv, LockInv, ~scenario.buffered,
         NEW t \in Threads, NEW u \in Threads \ {t},
         Step(u) \/ BeginInsert(u) \/ BeginLookup(u) \/ Drain(u), PathLeads(t)
  PROVE  PathLeads(t)'
<1>1. TypeOK /\ Control(t) /\ Place(t)
  BY DEF CInv, PInv
<1>2. locals(t)' = locals(t)
  BY <1>1, StepIsLocal DEF Others
<1>3. /\ pc'[t] = pc[t] /\ rel'[t] = rel[t] /\ up'[t] = up[t] /\ rl'[t] = rl[t] /\ bucket_refs'[t] = bucket_refs[t]
      /\ write'[t] = write[t] /\ find'[t] = find[t]
  BY <1>2 DEF locals
<1>4. /\ \A j : BucketAt(t, j)' = BucketAt(t, j) /\ ParentAt(t, j)' = ParentAt(t, j) /\ PathCell(t, j)' = PathCell(t, j)
      /\ Locked(t, bucket_refs[t])' = Locked(t, bucket_refs[t]) /\ Positions(t)' = Positions(t)
      /\ SearchCell(t)' = SearchCell(t) /\ Occupied(t)' = Occupied(t)
  BY <1>3 DEF BucketAt, ParentAt, PathCell, Locked, Positions, SearchCell, Occupied
<1>5. ASSUME Phase(t) \in SearchPhases \/ ForFree(t) \/ ForPath(t)
      PROVE  /\ \A j \in Positions(t) \ {1} :
                  Kept(t, ParentAt(t, j))' => Leads(PathCell(t, j), BucketAt(t, j))'
             /\ Phase(t) # "search" /\ Kept(t, rel[t].pos)' => Leads(SearchCell(t), rel[t].child_bucket)'
  <2>1. ASSUME NEW j \in Positions(t) \ {1}, Kept(t, ParentAt(t, j))'
        PROVE  Leads(PathCell(t, j), BucketAt(t, j))'
    <3>1. PICK k, p, b : k \in Positions(t) /\ p \in Cells /\
            k = ParentAt(t, j) /\ p = PathCell(t, j) /\ b = BucketAt(t, j) /\ BucketOf(p) = BucketAt(t, k)
      BY <1>1, <1>5, PathCells
    <3>2. Kept(t, k)'
      BY <1>4, <2>1, <3>1 DEF Kept
    <3>3. Kept(t, k) /\ \A q \in Cells : \A c : BucketOf(q) = BucketAt(t, k) /\ Leads(q, c) => Leads(q, c)'
      BY <1>5, <3>1, <3>2, OtherKept
    <3>4. Leads(p, b)
      BY <1>5, <3>1, <3>3 DEF PathLeads
    <3>5. Leads(p, b)'
      BY <3>1, <3>3, <3>4
    <3> QED BY <1>4, <3>1, <3>5 DEF Leads
  <2>2. ASSUME Phase(t) # "search", Kept(t, rel[t].pos)' PROVE Leads(SearchCell(t), rel[t].child_bucket)'
    <3>1. rel[t].pos \in Positions(t)
      BY <1>1, <1>5, <2>2 DEF Control, QueueInv
    <3>2. PICK k, p, b : k \in Positions(t) /\ p \in Cells /\
            k = rel[t].pos /\ p = SearchCell(t) /\ b = rel[t].child_bucket /\ BucketOf(p) = BucketAt(t, k)
      BY <1>1, <1>5, <3>1, PathCells
    <3>3. Kept(t, k)'
      BY <1>3, <2>2, <3>2 DEF Kept
    <3>4. Kept(t, k) /\ \A q \in Cells : \A c : BucketOf(q) = BucketAt(t, k) /\ Leads(q, c) => Leads(q, c)'
      BY <1>5, <3>2, <3>3, OtherKept
    <3>5. Leads(p, b)
      BY <1>5, <2>2, <3>2, <3>4 DEF PathLeads
    <3>6. Leads(p, b)'
      BY <3>2, <3>4, <3>5
    <3> QED BY <1>3, <1>4, <3>2, <3>6 DEF Leads
  <2> QED BY <2>1, <2>2
<1>6. ASSUME Phase(t) \in MovePhases
      PROVE  /\ \A j \in Locked(t, bucket_refs[t]) :
                  j <= rel[t].walk => Leads(PathCell(t, j), BucketAt(t, j))'
             /\ pc[t] = "move" => Leads(Occupied(t), BucketOf(rel[t].free))'
  <2>1. /\ \A j \in Locked(t, bucket_refs[t]) :
             j \in Positions(t) \ {1} /\ ParentAt(t, j) \in Locked(t, bucket_refs[t]) \cup {1}
        /\ rel[t].walk \in Locked(t, bucket_refs[t]) \cup {1} /\ rel[t].walk \in Positions(t)
    BY <1>1, <1>6 DEF Control, PathInv, QueueInv, Locked
  <2>2. pc'[t] # "upgrade_check"
    BY <1>3, <1>6
  <2>3. \A k \in Locked(t, bucket_refs[t]) \cup {1} : Kept(t, k)'
    BY <1>4, <2>2 DEF Kept
  <2>4. ASSUME NEW j \in Locked(t, bucket_refs[t]), j <= rel[t].walk
        PROVE  Leads(PathCell(t, j), BucketAt(t, j))'
    <3>1. PICK k, p, b : k \in Positions(t) /\ p \in Cells /\
            k = ParentAt(t, j) /\ p = PathCell(t, j) /\ b = BucketAt(t, j) /\ BucketOf(p) = BucketAt(t, k)
      BY <1>1, <1>6, <2>1, PathCells
    <3>2. Kept(t, k)'
      BY <2>1, <2>3, <3>1
    <3>3. \A q \in Cells : \A c : BucketOf(q) = BucketAt(t, k) /\ Leads(q, c) => Leads(q, c)'
      BY <1>6, <3>1, <3>2, OtherKept
    <3>4. Leads(p, b)
      BY <1>6, <2>4, <3>1 DEF PathLeads
    <3>5. Leads(p, b)'
      BY <3>1, <3>3, <3>4
    <3> QED BY <1>4, <3>1, <3>5 DEF Leads
  <2>5. ASSUME pc[t] = "move" PROVE Leads(Occupied(t), BucketOf(rel[t].free))'
    <3>1. PICK k, p, b : k \in Positions(t) /\ p \in Cells /\
            k = rel[t].walk /\ p = Occupied(t) /\ b = BucketOf(rel[t].free) /\ BucketOf(p) = BucketAt(t, k)
      BY <1>1, <1>6, <2>1, OccupiedType
    <3>2. Kept(t, k)'
      BY <2>1, <2>3, <3>1
    <3>3. \A q \in Cells : \A c : BucketOf(q) = BucketAt(t, k) /\ Leads(q, c) => Leads(q, c)'
      BY <1>6, <3>1, <3>2, OtherKept
    <3>4. Leads(p, b)
      BY <1>6, <2>5, <3>1 DEF PathLeads
    <3>5. Leads(p, b)'
      BY <3>1, <3>3, <3>4
    <3> QED BY <1>3, <1>4, <3>1, <3>5 DEF Leads
  <2> QED BY <2>4, <2>5
<1>7. /\ Phase(t)' = Phase(t) /\ ForFree(t)' = ForFree(t) /\ ForPath(t)' = ForPath(t)
  BY <1>3
<1>8. CASE Phase(t) \in SearchPhases \/ ForFree(t) \/ ForPath(t)
  <2>1. Phase(t) \notin MovePhases
    BY <1>8
  <2> HIDE DEF Phase, ForFree, ForPath
  <2> QED BY <1>3, <1>4, <1>5, <1>7, <1>8, <2>1 DEF PathLeads
<1>9. CASE Phase(t) \in MovePhases
  <2>1. ~(Phase(t) \in SearchPhases \/ ForFree(t) \/ ForPath(t))
    BY <1>9
  <2> HIDE DEF Phase, ForFree, ForPath
  <2> QED BY <1>3, <1>4, <1>6, <1>7, <1>9, <2>1 DEF PathLeads
<1>10. CASE ~(Phase(t) \in SearchPhases \cup MovePhases \/ ForFree(t) \/ ForPath(t))
  <2> HIDE DEF Phase, ForFree, ForPath
  <2> QED BY <1>7, <1>10 DEF PathLeads
<1> QED BY <1>8, <1>9, <1>10

-----------------------------------------------------------------------------
(* relocate_entry: from the search to the moves. *)

(* Only the stores of write_entry change which buckets are written to.     *)
LEMMA WritingKept ==
  ASSUME TypeOK, NEW t \in Threads, Step(t) \/ BeginInsert(t) \/ BeginLookup(t) \/ Drain(t),
         pc[t] \notin {"write2", "write3"}, pc'[t] \notin {"write2", "write3"}
  PROVE  \A b : Writing(b)' <=> Writing(b)
<1>1. \A u \in Threads \ {t} : pc'[u] = pc[u] /\ write'[u] = write[u]
  BY StepIsLocal DEF Others, locals
<1> QED BY <1>1 DEF Writing

(* What a thread can count on after a step of its own, it could count on   *)
(* before.                                                                 *)
LEMMA KeptBefore ==
  ASSUME TypeOK, NEW t \in Threads, NEW j \in Positions(t), \A b : Writing(b)' <=> Writing(b),
         BucketAt(t, j)' = BucketAt(t, j), j \in stale[t] => j \in stale'[t],
         j \in Locked(t, bucket_refs[t])' /\ ~(pc'[t] = "upgrade_check" /\ up'[t] = j) => Kept(t, j),
         Kept(t, j)'
  PROVE  Kept(t, j)
<1>1. PICK b : b = BucketAt(t, j)
  OBVIOUS
<1>2. Writing(BucketAt(t, j))' = Writing(b)'
  BY <1>1, Zenon DEF Writing
<1>3. \/ j = 1
      \/ j \in Locked(t, bucket_refs[t])' /\ ~(pc'[t] = "upgrade_check" /\ up'[t] = j)
      \/ j \notin stale'[t] /\ ~Writing(b)'
  BY <1>2 DEF Kept, Fresh
<1> QED BY <1>1, <1>3 DEF Kept, Fresh

(* A step of the search that leaves the queue alone.                       *)
LEMMA SearchLeads ==
  ASSUME NEW t \in Threads, cells' = cells, PathLeads(t),
         Phase(t) \in SearchPhases \/ ForFree(t) \/ ForPath(t), Phase(t)' \notin MovePhases,
         rel'[t].queue = rel[t].queue,
         \A j \in Positions(t) \ {1} : ParentAt(t, j) \in Positions(t),
         \A j \in Positions(t) : Kept(t, j)' => Kept(t, j),
         Phase(t)' # "search" /\ Kept(t, rel[t].pos)' => Leads(SearchCell(t), rel[t].child_bucket)'
  PROVE  PathLeads(t)'
<1>1. /\ Positions(t)' = Positions(t)
      /\ \A j : BucketAt(t, j)' = BucketAt(t, j) /\ ParentAt(t, j)' = ParentAt(t, j) /\ PathCell(t, j)' = PathCell(t, j)
  BY DEF Positions, BucketAt, ParentAt, PathCell
<1>2. ASSUME NEW j \in Positions(t) \ {1}, Kept(t, ParentAt(t, j))' PROVE Leads(PathCell(t, j), BucketAt(t, j))'
  <2>1. PICK k \in Positions(t) : k = ParentAt(t, j)
    OBVIOUS
  <2>2. Kept(t, k)'
    BY <1>1, <1>2, <2>1 DEF Kept
  <2>3. Leads(PathCell(t, j), BucketAt(t, j))
    BY <2>1, <2>2 DEF PathLeads
  <2> QED BY <1>1, <2>3 DEF Leads
<1> HIDE DEF Phase, ForFree, ForPath
<1> QED BY <1>1, <1>2 DEF PathLeads

(* alternate_bucket of the entry in a cell is where that entry leads.      *)
LEMMA SearchExamineLeads ==
  ASSUME TypeOK, LockInv, ~scenario.buffered, NEW t \in Threads, Control(t), PathLeads(t), SearchExamine(t)
  PROVE  PathLeads(t)'
<1> DEFINE p == SearchCell(t)
           b == alternate_bucket(Seen(t, p), BucketOf(p))
<1>1. /\ pc[t] = "search" /\ DOMAIN rel = Threads /\ pc \in [Threads -> Labels] /\ cells' = cells
      /\ stale' = stale /\ bucket_refs' = bucket_refs /\ rel[t].pos <= Len(rel[t].queue)
  BY DEF SearchExamine, TypeOK
<1>2. rel[t] \in Relocations /\ \A j \in Positions(t) \ {1} : ParentAt(t, j) \in Positions(t)
  BY <1>1, QueueFacts
<1>3. /\ rel'[t].queue = rel[t].queue
      /\ \/ pc'[t] = "search"
         \/ /\ pc'[t] = "search_lock" /\ rel'[t].pos = rel[t].pos /\ rel'[t].i = rel[t].i
            /\ rel'[t].child_bucket = b
  <2>1. CASE SearchNext(t, rel[t]) /\ pc' = pc
    BY <1>1, <1>2, <2>1 DEF SearchNext, Relocations
  <2>2. CASE rel' = [rel EXCEPT ![t].child_bucket = b] /\ Goto(t, "search_lock")
    <3> HIDE DEF b
    <3> QED BY <1>1, <1>2, <2>2 DEF Relocations
  <2> QED BY <2>1, <2>2 DEF SearchExamine
<1>4. ASSUME NEW j \in Positions(t), Kept(t, j)' PROVE Kept(t, j)
  <2>1. \A c : Writing(c)' <=> Writing(c)
    BY <1>1, <1>3, WritingKept DEF Step, add_entry, relocate_entry, SearchStep
  <2>2. BucketAt(t, j)' = BucketAt(t, j) /\ Locked(t, bucket_refs[t])' = Locked(t, bucket_refs[t])
    BY <1>1, <1>3 DEF BucketAt, Locked, Positions
  <2>3. j \in Locked(t, bucket_refs[t])' => Kept(t, j)
    BY <1>1, <2>2 DEF Kept
  <2> QED BY <1>1, <1>4, <2>1, <2>2, <2>3, KeptBefore
<1>5. ASSUME pc'[t] = "search_lock" PROVE Leads(SearchCell(t), rel[t].child_bucket)'
  <2>1. SearchCell(t)' = p /\ rel'[t].child_bucket = alternate_bucket(cells[p], BucketOf(p))
    BY <1>3, <1>5, SeenIsMemory DEF SearchCell
  <2> HIDE DEF p
  <2> QED BY <1>1, <2>1 DEF Leads
<1>6. Phase(t)' = pc'[t] /\ Phase(t) = "search" /\ Phase(t)' \notin MovePhases
  BY <1>1, <1>3
<1> QED BY <1>1, <1>2, <1>3, <1>4, <1>5, <1>6, SearchLeads

(* Reading the counter of the next bucket says nothing about the path.     *)
LEMMA SearchReadLockLeads ==
  ASSUME TypeOK, NEW t \in Threads, Control(t), PathLeads(t), SearchReadLock(t)
  PROVE  PathLeads(t)'
<1>1. /\ pc[t] = "search_lock" /\ pc'[t] = "search_scan" /\ cells' = cells /\ rel' = rel
      /\ bucket_refs' = bucket_refs /\ stale'[t] = stale[t] \ {FREE}
  BY DEF SearchReadLock, ReadCounter, TypeOK
<1>2. (\A j \in Positions(t) \ {1} : ParentAt(t, j) \in Positions(t)) /\ rel[t].pos \in Positions(t)
  BY <1>1, QueueFacts DEF Control, QueueInv
<1>3. ASSUME NEW j \in Positions(t), Kept(t, j)' PROVE Kept(t, j)
  <2>1. \A c : Writing(c)' <=> Writing(c)
    BY <1>1, WritingKept DEF Step, add_entry, relocate_entry, SearchStep
  <2>2. BucketAt(t, j)' = BucketAt(t, j) /\ Locked(t, bucket_refs[t])' = Locked(t, bucket_refs[t])
    BY <1>1 DEF BucketAt, Locked, Positions
  <2>3. j \in Locked(t, bucket_refs[t])' => Kept(t, j)
    BY <1>1, <2>2 DEF Kept
  <2>4. j # FREE
    BY HandleTypes DEF Positions
  <2> QED BY <1>1, <1>3, <2>1, <2>2, <2>3, <2>4, KeptBefore
<1>4. ASSUME Kept(t, rel[t].pos)' PROVE Leads(SearchCell(t), rel[t].child_bucket)'
  <2>1. PICK k \in Positions(t) : k = rel[t].pos
    BY <1>2
  <2>2. Kept(t, k)'
    BY <1>1, <1>4, <2>1 DEF Kept
  <2>3. Leads(SearchCell(t), rel[t].child_bucket)
    BY <1>1, <1>3, <2>1, <2>2 DEF PathLeads
  <2> QED BY <1>1, <2>3 DEF Leads, SearchCell
<1>6. Phase(t)' = pc'[t] /\ Phase(t) = "search_lock" /\ Phase(t)' \notin MovePhases
  BY <1>1
<1> QED BY <1>1, <1>2, <1>3, <1>4, <1>6, SearchLeads

(* A queued bucket is where the entry of the cell noted with it leads.     *)
LEMMA SearchScanLeads ==
  ASSUME TypeOK, NEW t \in Threads, Control(t), PathLeads(t), SearchScan(t)
  PROVE  PathLeads(t)'
<1> DEFINE p == find_free_cell_in_bucket(t, rel[t].child_bucket)
           next == [bucket |-> rel[t].child_bucket, parent |-> rel[t].pos, child |-> rel[t].i]
           queued == [rel[t] EXCEPT !.queue = Append(rel[t].queue, next)]
<1>1. /\ pc[t] = "search_scan" /\ DOMAIN rel = Threads /\ pc \in [Threads -> Labels] /\ cells' = cells
      /\ bucket_refs' = bucket_refs /\ pc'[t] \in {"search", "upgrade"}
      /\ up \in [Threads -> Handles] /\ stale \in [Threads -> SUBSET Handles]
  BY DEF SearchScan, TypeOK, CallUpgrade
<1>2. /\ rel[t] \in Relocations /\ rel[t].queue \in Seq(QueueElements) /\ rel[t].child_bucket \in Buckets
      /\ rel[t].pos \in Positions(t)
      /\ \A j \in Positions(t) \ {1} : ParentAt(t, j) \in Positions(t)
  BY <1>1, QueueFacts DEF Control, QueueInv
<1>3. /\ \A j \in Positions(t) \ {1} : Kept(t, ParentAt(t, j)) => Leads(PathCell(t, j), BucketAt(t, j))
      /\ Kept(t, rel[t].pos) => Leads(SearchCell(t), rel[t].child_bucket)
  BY <1>1 DEF PathLeads
<1>4. \A c : Writing(c)' <=> Writing(c)
  BY <1>1, WritingKept DEF Step, add_entry, relocate_entry, SearchStep
<1>5. ASSUME NEW j \in Positions(t), Kept(t, j)', rel'[t].queue[j] = rel[t].queue[j],
             j \in stale[t] => j \in stale'[t]
      PROVE  Kept(t, j)
  <2>1. BucketAt(t, j)' = BucketAt(t, j)
    BY <1>5 DEF BucketAt
  <2>2. j \in Locked(t, bucket_refs[t])' => Kept(t, j)
    BY <1>1, <2>1 DEF Kept, Locked
  <2> QED BY <1>4, <1>5, <2>1, <2>2, KeptBefore
<1>6. CASE p = None /\ SearchNext(t, queued) /\ Goto(t, "search")
           /\ stale' = [stale EXCEPT ![t] = IF Fresh(t, FREE) THEN stale[t] \ {Len(rel[t].queue) + 1}
                                                              ELSE stale[t] \cup {Len(rel[t].queue) + 1}]
  <2>1. rel'[t].queue = Append(rel[t].queue, next) /\ pc'[t] = "search"
    BY <1>1, <1>2, <1>6 DEF SearchNext, Relocations
  <2>2. Len(rel[t].queue) \in Nat /\ Positions(t) = DOMAIN rel[t].queue
    BY <1>2 DEF Positions
  <2>3. PICK n : n = Len(rel[t].queue) + 1
    OBVIOUS
  <2>4. /\ Positions(t)' = Positions(t) \cup {n}
        /\ \A j \in Positions(t) : rel'[t].queue[j] = rel[t].queue[j]
        /\ rel'[t].queue[n] = next
        /\ n \notin Positions(t)
    BY <1>2, <2>1, <2>2, <2>3 DEF Positions
  <2>5. \A j \in Positions(t) \ {1} : PathCell(t, j)' = PathCell(t, j) /\ BucketAt(t, j)' = BucketAt(t, j)
                                      /\ ParentAt(t, j)' = ParentAt(t, j)
    BY <1>2, <2>4 DEF PathCell, BucketAt, ParentAt
  <2>6. /\ PathCell(t, n)' = SearchCell(t) /\ BucketAt(t, n)' = rel[t].child_bucket
        /\ ParentAt(t, n)' = rel[t].pos
    BY <1>2, <2>4 DEF PathCell, BucketAt, ParentAt, SearchCell
  <2>7. \A j \in Positions(t) : j \in stale[t] => j \in stale'[t]
    BY <1>1, <1>6, <2>3, <2>4
  <2>8. ASSUME NEW j \in Positions(t) \ {1}, Kept(t, ParentAt(t, j))'
        PROVE  Leads(PathCell(t, j), BucketAt(t, j))'
    <3>1. PICK k \in Positions(t) : k = ParentAt(t, j)
      BY <1>2
    <3>2. Kept(t, k)'
      BY <2>5, <2>8, <3>1 DEF Kept
    <3>3. Leads(PathCell(t, j), BucketAt(t, j))
      BY <1>3, <1>5, <2>4, <2>7, <3>1, <3>2
    <3> QED BY <1>1, <2>5, <3>3 DEF Leads
  <2>9. ASSUME Kept(t, ParentAt(t, n))' PROVE Leads(PathCell(t, n), BucketAt(t, n))'
    <3>1. PICK k \in Positions(t) : k = rel[t].pos
      BY <1>2
    <3>2. Kept(t, k)'
      BY <2>6, <2>9, <3>1 DEF Kept
    <3>3. Leads(SearchCell(t), rel[t].child_bucket)
      BY <1>3, <1>5, <2>4, <2>7, <3>1, <3>2
    <3> QED BY <1>1, <2>6, <3>3 DEF Leads
  <2> QED BY <2>1, <2>4, <2>8, <2>9 DEF PathLeads
<1>7. ASSUME \/ p = None /\ SearchNext(t, rel[t]) /\ Goto(t, "search")
             \/ p # None /\ rel' = [rel EXCEPT ![t].free = p, ![t].child = rel[t].i] /\ CallUpgrade(t, FREE),
             stale' = stale
      PROVE  PathLeads(t)'
  <2> HIDE DEF p
  <2>1. /\ rel'[t].queue = rel[t].queue
        /\ \/ pc'[t] = "search"
           \/ /\ pc'[t] = "upgrade" /\ rel'[t].pos = rel[t].pos /\ rel'[t].i = rel[t].i
              /\ rel'[t].child_bucket = rel[t].child_bucket
    <3>1. CASE SearchNext(t, rel[t]) /\ Goto(t, "search")
      BY <1>1, <1>2, <3>1 DEF SearchNext, Relocations
    <3>2. CASE rel' = [rel EXCEPT ![t].free = p, ![t].child = rel[t].i] /\ CallUpgrade(t, FREE)
      BY <1>1, <1>2, <3>2 DEF Relocations, CallUpgrade
    <3> QED BY <1>7, <3>1, <3>2
  <2>2. \A j \in Positions(t) : Kept(t, j)' => Kept(t, j)
    BY <1>5, <1>7, <2>1
  <2>3. ASSUME pc'[t] = "upgrade", Kept(t, rel[t].pos)' PROVE Leads(SearchCell(t), rel[t].child_bucket)'
    <3>1. PICK k \in Positions(t) : k = rel[t].pos
      BY <1>2
    <3>2. Kept(t, k)'
      BY <2>1, <2>3, <3>1 DEF Kept
    <3>3. Leads(SearchCell(t), rel[t].child_bucket)
      BY <1>3, <2>2, <3>1, <3>2
    <3> QED BY <1>1, <2>1, <2>3, <3>3 DEF Leads, SearchCell
  <2>4. Phase(t)' = pc'[t] /\ Phase(t) = "search_scan" /\ Phase(t)' \notin MovePhases
    BY <1>1
  <2> QED BY <1>1, <1>2, <2>1, <2>2, <2>3, <2>4, SearchLeads
<1> QED BY <1>6, <1>7 DEF SearchScan

(* There is no path outside of the search, the upgrades and the moves.     *)
LEMMA NoPathLeads ==
  ASSUME NEW t \in Threads, Phase(t)' \notin SearchPhases \cup MovePhases, ~ForFree(t)', ~ForPath(t)'
  PROVE  PathLeads(t)'
<1> HIDE DEF Phase, ForFree, ForPath
<1> QED BY DEF PathLeads

(* A read lock that is fresh when the bucket is locked: nobody else can be *)
(* in the middle of a write, so what was read is still there.              *)
LEMMA FreshHeldKept ==
  ASSUME CInv, PInv, LockInv, NEW t \in Threads, pc[t] \notin WritePcs, NEW j,
         BucketAt(t, j) \in Buckets, Fresh(t, j), Held(t, BucketAt(t, j))
  PROVE  Kept(t, j)
<1>1. ASSUME NEW u \in Threads, pc[u] \in {"write2", "write3"}, BucketOf(write[u].cell) = BucketAt(t, j),
             write[u].then # "removed"
      PROVE  FALSE
  <2>1. TypeOK /\ Control(u) /\ Place(u)
    BY DEF CInv, PInv
  <2>2. Held(u, BucketAt(t, j))
    BY <1>1, <2>1, WriterHolds
  <2> QED BY <1>1, <2>2 DEF LockInv, Owns
<1> QED BY <1>1 DEF Kept, Writing

(* upgrade_bucket_lock tells whether what was read before holds now.       *)
LEMMA UpgradeKept ==
  ASSUME CInv, PInv, LockInv, NEW t \in Threads, upgrade_bucket_lock(t), ForFree(t) \/ ForPath(t),
         rel'[t].queue = rel[t].queue, stale' = stale,
         pc'[t] # "upgrade_check" => Fresh(t, up[t]) /\ Held(t, UpgradeBucket(t)),
         pc'[t] = "upgrade_check" => up' = up,
         bucket_refs' = bucket_refs \/ AddBucketRef(t, UpgradeBucket(t)),
         pc'[t] \notin WritePcs,
         NEW j \in Positions(t), Kept(t, j)'
  PROVE  Kept(t, j)
<1>1. TypeOK /\ Control(t) /\ bucket_refs \in [Threads -> [Buckets -> Nat]]
  BY DEF CInv, TypeOK
<1>2. /\ UpgradeBucket(t) \in Buckets /\ BucketAt(t, j) \in Buckets
      /\ ForFree(t) => UpgradeBucket(t) # BucketAt(t, j) /\ up[t] # j
      /\ ForPath(t) => UpgradeBucket(t) = BucketAt(t, up[t]) /\ up[t] \in Positions(t)
      /\ \A k, l \in Positions(t) : BucketAt(t, k) = BucketAt(t, l) => k = l
  <2>1. /\ BucketAt(t, j) \in Buckets /\ Queued(t, BucketAt(t, j))
        /\ \A k, l \in Positions(t) : BucketAt(t, k) = BucketAt(t, l) => k = l
    BY <1>1, QueueFacts
  <2>2. j # FREE
    BY HandleTypes DEF Positions
  <2> QED BY <1>1, <2>1, <2>2, UpgradeFacts
<1>3. BucketAt(t, j)' = BucketAt(t, j) /\ Positions(t)' = Positions(t)
  BY DEF BucketAt, Positions
<1>4. CASE j = up[t] /\ pc'[t] # "upgrade_check"
  <2>1. UpgradeBucket(t) = BucketAt(t, j) /\ pc[t] \notin WritePcs
    BY <1>2, <1>4
  <2> QED BY <1>2, <1>4, <2>1, FreshHeldKept
<1>5. CASE j # up[t] \/ pc'[t] = "upgrade_check"
  <2>1. \A c : Writing(c)' <=> Writing(c)
    BY <1>1, WritingKept DEF Step, add_entry
  <2>2. ASSUME j \in Locked(t, bucket_refs[t])', ~(pc'[t] = "upgrade_check" /\ up'[t] = j) PROVE Kept(t, j)
    <3>1. j # up[t]
      BY <1>5, <2>2
    <3>2. UpgradeBucket(t) # BucketAt(t, j)
      BY <1>2, <3>1
    <3>3. bucket_refs'[t][BucketAt(t, j)] = bucket_refs[t][BucketAt(t, j)]
      BY <1>1, <1>2, <3>2 DEF AddBucketRef
    <3>4. j \in Locked(t, bucket_refs[t])
      BY <1>3, <2>2, <3>3 DEF Locked
    <3> QED BY <3>1, <3>4 DEF Kept
  <2> QED BY <1>1, <1>3, <2>1, <2>2, KeptBefore
<1> QED BY <1>4, <1>5

(* When the whole path is locked, each of its entries leads to the next    *)
(* bucket.                                                                 *)
LEMMA UpgradeLeads ==
  ASSUME CInv, PInv, LockInv, ~scenario.buffered, NEW t \in Threads, PathLeads(t), upgrade_bucket_lock(t),
         Control(t)'
  PROVE  PathLeads(t)'
<1>1. /\ TypeOK /\ Control(t) /\ Place(t) /\ pc[t] \in UpgradePcs /\ pc \in [Threads -> Labels]
      /\ up \in [Threads -> Handles] /\ DOMAIN rel = Threads
  BY DEF CInv, PInv, TypeOK, upgrade_bucket_lock, UpgradeHeld, UpgradeTake, UpgradeCheck
<1>2. CASE ForAdd(t)
  <2>1. pc'[t] \in PlainPcs \/ ForAdd(t)'
    BY <1>1, <1>2 DEF upgrade_bucket_lock, UpgradeHeld, UpgradeTake, UpgradeCheck, UpgradeOk, UpgradeFailed, PlainPcs
  <2>2. Phase(t)' \notin SearchPhases \cup MovePhases /\ ~ForFree(t)' /\ ~ForPath(t)'
    BY <2>1, HandleTypes DEF PlainPcs
  <2> QED BY <2>2, NoPathLeads
<1>3. CASE UpgradeFailed(t) /\ ~ForAdd(t)
  <2>1. pc'[t] \in {"undo", "relocate_failed", "release_free"}
    BY <1>1, <1>3 DEF UpgradeFailed
  <2>2. Phase(t)' \notin SearchPhases \cup MovePhases /\ ~ForFree(t)' /\ ~ForPath(t)'
    BY <2>1
  <2> QED BY <2>2, NoPathLeads
<1>4. CASE ~UpgradeFailed(t) /\ ~ForAdd(t)
  <2>1. (ForFree(t) \/ ForPath(t)) /\ up[t] \notin {PRIMARY, SECONDARY}
    BY <1>1, <1>4 DEF Control, CallInv
  <2>2. Phase(t) \notin SearchPhases \cup MovePhases /\ Phase(t) # "search" /\ Relocating(t)
    BY <1>1, <2>1
  <2>3. /\ rel[t] \in Relocations /\ rel[t].pos \in Positions(t) /\ up[t] \in Positions(t) \cup {FREE}
        /\ \A j \in Positions(t) \ {1} : ParentAt(t, j) \in Positions(t)
    BY <1>1, <2>1, <2>2, QueueFacts, UpgradeFacts
  <2>4. BucketOf(rel[t].free) = rel[t].child_bucket /\ rel[t].child = rel[t].i
    BY <1>1, <2>1 DEF Place, MoveInv
  <2>5. /\ stale' = stale /\ cells' = cells
        /\ bucket_refs' = bucket_refs \/ AddBucketRef(t, UpgradeBucket(t))
        /\ \/ pc' = [pc EXCEPT ![t] = "upgrade_check"] /\ rel' = rel /\ up' = up
           \/ UpgradePath(t) /\ Fresh(t, up[t]) /\ Held(t, UpgradeBucket(t))
    <3>1. CASE UpgradeHeld(t)
      BY <1>4, <2>1, <3>1 DEF UpgradeHeld, UpgradeOk
    <3>2. CASE UpgradeTake(t)
      BY <1>4, <2>1, <3>2 DEF UpgradeTake
    <3>3. CASE UpgradeCheck(t)
      <4>1. /\ UpgradePath(t) /\ Fresh(t, up[t]) /\ stale' = stale /\ cells' = cells /\ bucket_refs' = bucket_refs
            /\ pc[t] = "upgrade_check"
        BY <1>4, <2>1, <3>3 DEF UpgradeCheck, UpgradeOk
      <4>2. bucket_refs[t][UpgradeBucket(t)] = 1
        BY <1>1, <4>1, LockGivenBack DEF Control, RefsInv, TypeOK
      <4> QED BY <4>1, <4>2 DEF Held
    <3> QED BY <3>1, <3>2, <3>3 DEF upgrade_bucket_lock
  <2>6. /\ rel'[t].queue = rel[t].queue /\ rel'[t].pos = rel[t].pos /\ rel'[t].i = rel[t].i
        /\ rel'[t].child_bucket = rel[t].child_bucket /\ rel'[t].free = rel[t].free
        /\ rel'[t].child = rel[t].child
        /\ \/ pc'[t] = "upgrade_check" /\ up' = up
           \/ /\ pc'[t] \in {"upgrade", "move"} /\ Fresh(t, up[t]) /\ Held(t, UpgradeBucket(t))
              /\ pc'[t] = "move" => rel'[t].walk = rel[t].pos
    <3> DEFINE next == IF up[t] = FREE THEN rel[t].pos ELSE rel[t].queue[up[t]].parent
    <3>1. CASE pc' = [pc EXCEPT ![t] = "upgrade_check"] /\ rel' = rel /\ up' = up
      BY <1>1, <3>1
    <3>2. CASE UpgradePath(t) /\ next = 1
      <4>1. /\ rel' = [[rel EXCEPT ![t].locked = rel[t].locked + 1, ![t].walk = next] EXCEPT ![t].walk = rel[t].pos]
            /\ pc' = [pc EXCEPT ![t] = "move"]
        BY <3>2 DEF UpgradePath
      <4>2. rel'[t] = [rel[t] EXCEPT !.locked = rel[t].locked + 1, !.walk = rel[t].pos] /\ pc'[t] = "move"
        BY <4>1, <1>1, <2>3 DEF Relocations
      <4>3. Fresh(t, up[t]) /\ Held(t, UpgradeBucket(t))
        BY <1>1, <2>5, <4>2
      <4> QED BY <2>3, <4>2, <4>3 DEF Relocations
    <3>3. CASE UpgradePath(t) /\ next # 1
      <4>1. rel' = [rel EXCEPT ![t].locked = rel[t].locked + 1, ![t].walk = next] /\ pc' = [pc EXCEPT ![t] = "upgrade"]
        BY <3>3 DEF UpgradePath, CallUpgrade
      <4> HIDE DEF next
      <4>2. rel'[t] = [rel[t] EXCEPT !.locked = rel[t].locked + 1, !.walk = next] /\ pc'[t] = "upgrade"
        BY <4>1, <1>1, <2>3 DEF Relocations
      <4>3. Fresh(t, up[t]) /\ Held(t, UpgradeBucket(t))
        BY <1>1, <2>5, <4>2
      <4> QED BY <2>3, <4>2, <4>3 DEF Relocations
    <3> QED BY <2>5, <3>1, <3>2, <3>3
  <2>7. \A j \in Positions(t) : Kept(t, j)' => Kept(t, j)
    BY <2>1, <2>5, <2>6, UpgradeKept
  <2>8. /\ Positions(t)' = Positions(t) /\ SearchCell(t)' = SearchCell(t)
        /\ \A j : BucketAt(t, j)' = BucketAt(t, j) /\ ParentAt(t, j)' = ParentAt(t, j) /\ PathCell(t, j)' = PathCell(t, j)
    BY <2>6 DEF Positions, BucketAt, ParentAt, PathCell, SearchCell
  <2>9. ASSUME Kept(t, rel[t].pos)' PROVE Leads(SearchCell(t), rel[t].child_bucket)'
    <3>1. PICK k \in Positions(t) : k = rel[t].pos
      BY <2>3
    <3>2. Kept(t, k)'
      BY <2>6, <2>9, <3>1 DEF Kept
    <3>3. Leads(SearchCell(t), rel[t].child_bucket)
      BY <2>1, <2>2, <2>7, <3>1, <3>2 DEF PathLeads
    <3> QED BY <2>5, <2>6, <2>8, <3>3 DEF Leads
  <2>10. CASE pc'[t] # "move"
    <3>1. Phase(t)' \notin MovePhases
      BY <2>6, <2>10
    <3> QED BY <2>1, <2>3, <2>5, <2>6, <2>7, <2>9, <3>1, SearchLeads
  <2>11. CASE pc'[t] = "move"
    <3>1. Phase(t)' = "move"
      BY <2>11
    <3>2. /\ \A j \in Locked(t, bucket_refs[t])' : j \in Positions(t) \ {1}
                                               /\ ParentAt(t, j) \in Locked(t, bucket_refs[t])' \cup {1}
          /\ rel[t].pos \in Locked(t, bucket_refs[t])' \cup {1}
      <4>1. PathInv(t)'
        BY DEF Control
      <4> HIDE DEF Phase
      <4> QED BY <2>6, <2>8, <3>1, <4>1 DEF PathInv, Locked
    <3>3. \A k \in Locked(t, bucket_refs[t])' \cup {1} : Kept(t, k)'
      BY <2>11 DEF Kept
    <3>4. \A k \in Locked(t, bucket_refs[t])' \cup {1} : k \in Positions(t) => Kept(t, k)
      BY <2>7, <3>3
    <3>5. ASSUME NEW j \in Locked(t, bucket_refs[t])' PROVE Leads(PathCell(t, j), BucketAt(t, j))'
      <4>1. Kept(t, ParentAt(t, j)) /\ j \in Positions(t) \ {1}
        BY <2>3, <3>2, <3>4
      <4>2. Leads(PathCell(t, j), BucketAt(t, j))
        BY <2>1, <4>1 DEF PathLeads
      <4> QED BY <2>5, <2>8, <4>2 DEF Leads
    <3>6. Leads(Occupied(t), BucketOf(rel[t].free))'
      <4>1. Leads(SearchCell(t), rel[t].child_bucket)
        BY <2>1, <2>2, <2>3, <3>2, <3>4 DEF PathLeads
      <4>2. Occupied(t)' = SearchCell(t) /\ BucketOf(rel'[t].free) = rel[t].child_bucket
        BY <2>4, <2>6, <2>11 DEF Occupied, SearchCell
      <4> QED BY <2>5, <4>1, <4>2 DEF Leads
    <3>7. ~(Phase(t)' \in SearchPhases) /\ ~ForFree(t)' /\ ~ForPath(t)'
      BY <2>11
    <3> HIDE DEF Phase, ForFree, ForPath
    <3> QED BY <3>5, <3>6, <3>7 DEF PathLeads
  <2> QED BY <2>10, <2>11
<1> QED BY <1>2, <1>3, <1>4

(* A move leaves the entries still to be moved alone, and the next one     *)
(* leads to the cell this one was in.                                      *)
LEMMA MoveStepLeads ==
  ASSUME TypeOK, NEW t \in Threads, Control(t), Place(t), PathLeads(t), MoveStep(t)
  PROVE  PathLeads(t)'
<1>1. /\ pc[t] \in MovePhases /\ pc \in [Threads -> Labels] /\ DOMAIN rel = Threads /\ DOMAIN write = Threads
      /\ cells' = cells /\ bucket_refs' = bucket_refs
  BY DEF MoveStep, MoveEntry, MoveNext, TypeOK
<1>2. rel[t] \in Relocations /\ \A j \in Locked(t, bucket_refs[t]) : j <= rel[t].walk => Leads(PathCell(t, j), BucketAt(t, j))
  BY <1>1, QueueFacts DEF PathLeads
<1>3. CASE MoveEntry(t)
  <2>1. pc'[t] = "write1" /\ write'[t].then = "moved" /\ rel' = rel
    BY <1>1, <1>3 DEF MoveEntry, CallWrite
  <2>2. /\ Locked(t, bucket_refs[t])' = Locked(t, bucket_refs[t])
        /\ \A j : PathCell(t, j)' = PathCell(t, j) /\ BucketAt(t, j)' = BucketAt(t, j)
    BY <1>1, <2>1 DEF Locked, Positions, BucketAt, ParentAt, PathCell
  <2>3. \A j \in Locked(t, bucket_refs[t]) : j <= rel[t].walk => Leads(PathCell(t, j), BucketAt(t, j))'
    BY <1>1, <1>2, <2>2 DEF Leads
  <2>4. Phase(t)' = "moved" /\ ~ForFree(t)' /\ ~ForPath(t)'
    BY <2>1
  <2> HIDE DEF Phase, ForFree, ForPath
  <2> QED BY <2>1, <2>2, <2>3, <2>4 DEF PathLeads
<1>4. CASE MoveNext(t) /\ rel[t].walk = 1
  <2>1. pc'[t] = "write1" /\ write'[t].then = "release_free"
    BY <1>1, <1>4 DEF MoveNext, CallWrite
  <2>2. Phase(t)' \notin SearchPhases \cup MovePhases /\ ~ForFree(t)' /\ ~ForPath(t)'
    BY <2>1
  <2> QED BY <2>2, NoPathLeads
<1>5. CASE MoveNext(t) /\ rel[t].walk # 1
  <2>1. /\ pc'[t] = "move"
        /\ rel' = [rel EXCEPT ![t].free = Occupied(t), ![t].child = rel[t].queue[rel[t].walk].child,
                              ![t].walk = rel[t].queue[rel[t].walk].parent]
    BY <1>1, <1>5 DEF MoveNext
  <2>2. /\ rel'[t].queue = rel[t].queue /\ rel'[t].free = Occupied(t)
        /\ rel'[t].child = rel[t].queue[rel[t].walk].child /\ rel'[t].walk = ParentAt(t, rel[t].walk)
    BY <1>1, <1>2, <2>1 DEF Relocations, ParentAt
  <2>3. /\ rel[t].walk \in Locked(t, bucket_refs[t]) /\ rel[t].walk \in Positions(t) \ {1}
        /\ ParentAt(t, rel[t].walk) \in 1..(rel[t].walk - 1) /\ rel[t].walk \in Nat
    BY <1>1, <1>5, QueueFacts DEF Control, PathInv, QueueInv, Locked, Positions
  <2>4. /\ Locked(t, bucket_refs[t])' = Locked(t, bucket_refs[t])
        /\ \A j : PathCell(t, j)' = PathCell(t, j) /\ BucketAt(t, j)' = BucketAt(t, j)
    BY <1>1, <2>2 DEF Locked, Positions, BucketAt, ParentAt, PathCell
  <2>5. ASSUME NEW j \in Locked(t, bucket_refs[t]), j <= rel'[t].walk
        PROVE  Leads(PathCell(t, j), BucketAt(t, j))'
    <3>1. j \in Nat
      BY DEF Locked, Positions
    <3>2. j <= rel[t].walk
      BY <2>2, <2>3, <2>5, <3>1
    <3> QED BY <1>1, <1>2, <2>4, <3>2 DEF Leads
  <2>6. Leads(Occupied(t), BucketOf(rel[t].free))'
    <3>1. Leads(PathCell(t, rel[t].walk), BucketAt(t, rel[t].walk))
      BY <1>2, <2>3
    <3>2. Occupied(t)' = PathCell(t, rel[t].walk) /\ BucketOf(rel'[t].free) = BucketAt(t, rel[t].walk)
      BY <2>2 DEF Occupied, PathCell, BucketAt, BucketOf
    <3> QED BY <1>1, <3>1, <3>2 DEF Leads
  <2>7. Phase(t)' = "move" /\ ~ForFree(t)' /\ ~ForPath(t)'
    BY <2>1
  <2> HIDE DEF Phase, ForFree, ForPath
  <2> QED BY <2>4, <2>5, <2>6, <2>7 DEF PathLeads
<1> QED BY <1>3, <1>4, <1>5 DEF MoveStep

(* The copy goes to the bucket of the free cell, which is none of those    *)
(* the remaining entries are in.                                           *)
LEMMA WriteEntryLeads ==
  ASSUME TypeOK, LockInv, ~scenario.buffered, NEW t \in Threads, Control(t), Place(t), PathLeads(t), write_entry(t)
  PROVE  PathLeads(t)'
<1>1. /\ pc[t] \in WritePcs /\ pc \in [Threads -> Labels] /\ rel' = rel /\ bucket_refs' = bucket_refs
      /\ write' = write /\ cells \in [Cells -> Entries]
  BY DEF write_entry, TypeOK
<1>2. pc'[t] \in {"write2", "write3", write[t].then} /\ Phase(t)' = Phase(t) /\ Phase(t) = write[t].then
      /\ write[t].then \in {"read_unlock", "withdrawn", "moved", "release_free", "removed"}
  BY <1>1 DEF write_entry, Control, CallInv
<1>3. CASE write[t].then # "moved"
  <2>1. Phase(t)' \notin SearchPhases \cup MovePhases /\ ~ForFree(t)' /\ ~ForPath(t)'
    BY <1>1, <1>2, <1>3
  <2> QED BY <2>1, NoPathLeads
<1>4. CASE write[t].then = "moved"
  <2>1. Phase(t) = "moved" /\ Phase(t)' = "moved" /\ pc'[t] # "move" /\ ~ForFree(t)' /\ ~ForPath(t)'
    BY <1>1, <1>2, <1>4
  <2>2. write[t].cell = rel[t].free
    BY <1>1, <2>1 DEF Place, WriteInv
  <2>3. /\ Locked(t, bucket_refs[t])' = Locked(t, bucket_refs[t])
        /\ \A j : PathCell(t, j)' = PathCell(t, j) /\ BucketAt(t, j)' = BucketAt(t, j)
    BY <1>1 DEF Locked, Positions, BucketAt, ParentAt, PathCell
  <2>4. cells' = cells \/ cells' = [cells EXCEPT ![rel[t].free] = write[t].entry]
    BY <1>1, <2>2, Effects DEF Step
  <2>5. ASSUME NEW j \in Locked(t, bucket_refs[t]), j <= rel[t].walk
        PROVE  Leads(PathCell(t, j), BucketAt(t, j))'
    <3>1. /\ j \in Positions(t) \ {1} /\ ParentAt(t, j) \in 1..(j - 1) /\ ParentAt(t, j) \in Positions(t)
          /\ rel[t].walk \in Positions(t) /\ ParentAt(t, j) < rel[t].walk
      <4>1. /\ j \in Positions(t) \ {1} /\ ParentAt(t, j) \in 1..(j - 1) /\ ParentAt(t, j) \in Positions(t)
            /\ rel[t].walk \in Positions(t)
        BY <2>1, QueueFacts, RelLocals DEF Locked
      <4>2. j \in Nat /\ rel[t].walk \in Nat
        BY <4>1 DEF Positions
      <4> QED BY <2>5, <4>1, <4>2
    <3>2. BucketAt(t, ParentAt(t, j)) # BucketOf(rel[t].free)
      <4>1. /\ \A k, l \in Positions(t) : BucketAt(t, k) = BucketAt(t, l) => k = l
            /\ \A k \in Positions(t) : Queued(t, BucketAt(t, k))
            /\ \A k \in Positions(t) \ {1} : ParentAt(t, k) \in 1..(k - 1)
            /\ ~Queued(t, rel[t].child_bucket)
        BY <2>1, QueueFacts DEF Control, QueueInv
      <4>2. CASE BucketOf(rel[t].free) = rel[t].child_bucket
        BY <3>1, <4>1, <4>2
      <4>3. ASSUME NEW k \in Positions(t) \ {1}, rel[t].walk = ParentAt(t, k), BucketOf(rel[t].free) = BucketAt(t, k)
            PROVE  BucketAt(t, ParentAt(t, j)) # BucketOf(rel[t].free)
        <5>1. ParentAt(t, j) # k
          <6>1. k \in Nat /\ ParentAt(t, k) \in 1..(k - 1) /\ ParentAt(t, j) \in Nat
            BY <3>1, <4>1 DEF Positions
          <6> QED BY <3>1, <4>3, <6>1
        <5> QED BY <3>1, <4>1, <4>3, <5>1
      <4> QED BY <2>1, <4>2, <4>3, OccupiedIsOnPath
    <3>3. PathCell(t, j) # rel[t].free /\ PathCell(t, j) \in Cells /\ rel[t].free \in Cells
      BY <2>1, <3>1, <3>2, PathCells, OccupiedType
    <3>4. cells'[PathCell(t, j)] = cells[PathCell(t, j)]
      BY <1>1, <2>4, <3>3
    <3>5. Leads(PathCell(t, j), BucketAt(t, j))
      BY <2>1, <2>5 DEF PathLeads
    <3> QED BY <2>3, <3>4, <3>5 DEF Leads
  <2> HIDE DEF Phase, ForFree, ForPath
  <2> QED BY <1>1, <2>1, <2>3, <2>5 DEF PathLeads
<1> QED BY <1>3, <1>4

(* All steps of the thread itself.                                         *)
LEMMA PathLeadsStep ==
  ASSUME CInv, PInv, LockInv, ~scenario.buffered, NEW t \in Threads, PathLeads(t),
         Step(t) \/ BeginInsert(t) \/ BeginLookup(t) \/ Drain(t)
  PROVE  PathLeads(t)'
<1>1. TypeOK /\ Control(t) /\ Place(t) /\ pc \in [Threads -> Labels]
      /\ write \in [Threads -> [cell : Cells \cup {None}, entry : Entries, then : Labels]]
      /\ find \in [Threads -> [node : Nodes \cup {None}, secondary : BOOLEAN, lock : 0..1,
                           cell : Cells \cup {None}, id : NodeIds \cup {None, RootId},
                           then : Labels]]
  BY DEF CInv, PInv, TypeOK
<1>2. Control(t)' /\ ~Drain(t)
  BY <1>1, ControlStep, Effects
<1>3. CASE SearchExamine(t) \/ SearchReadLock(t) \/ SearchScan(t) \/ upgrade_bucket_lock(t) \/ MoveStep(t) \/ write_entry(t)
  BY <1>1, <1>2, <1>3, SearchExamineLeads, SearchReadLockLeads, SearchScanLeads, UpgradeLeads, MoveStepLeads,
     WriteEntryLeads
<1>4. CASE Relocate(t)
  <2>1. /\ pc'[t] = "search" /\ rel'[t].queue = <<[bucket |-> Primary(t), parent |-> 0, child |-> 0]>>
    BY <1>1, <1>4 DEF Relocate, TypeOK
  <2>2. (Positions(t) \ {1})' = {}
    BY <2>1 DEF Positions
  <2>3. Phase(t)' = "search"
    BY <2>1
  <2> HIDE DEF Phase
  <2> QED BY <2>2, <2>3 DEF PathLeads
<1>5. ASSUME \/ AddStep(t) \/ SearchFailed(t) \/ RelocateEnd(t) \/ find_entry_in_pair_by_color(t)
             \/ InsertEnd(t) \/ LookupReturn(t) \/ BeginInsert(t) \/ BeginLookup(t)
      PROVE  PathLeads(t)'
  <2>1. Phase(t)' \notin SearchPhases \cup MovePhases /\ ~ForFree(t)' /\ ~ForPath(t)'
    <3>1. CASE AddStep(t)
      BY <1>1, <3>1, HandleTypes DEF AddStep, ReadLockPrimary, ReadLockSecondary, ScanPrimary, ScanSecondary,
           PutEntry, ReadUnlock, AddReturn, CallWrite, ChooseCell, CallUpgrade, TypeOK
    <3>2. CASE SearchFailed(t) \/ RelocateEnd(t)
      BY <1>1, <3>2 DEF SearchFailed, RelocateEnd, ReleaseFree, ReleasePath, RelocateReturn, RelocateFailed
    <3>3. CASE find_entry_in_pair_by_color(t)
      <4>1. pc'[t] \in FindPcs \cup {find[t].then} /\ find'[t].then = find[t].then /\ find[t].then \in {"remove", "found"}
        BY <1>1, <3>3 DEF find_entry_in_pair_by_color, FindReadCounter, FindScan, FindCheckCounter, NotInBucket,
             Control, CallInv
      <4> QED BY <4>1
    <3>4. CASE InsertEnd(t) \/ LookupReturn(t) \/ BeginInsert(t) \/ BeginLookup(t)
      BY <1>1, <3>4 DEF InsertEnd, Publish, Undo, remove_entry_by_value, Removed, Retry, ReleaseAllNext,
           InsertReturn, RetryInsert, ChoosePlan, LookupReturn, BeginInsert, BeginLookup, Return, CallFind, CallWrite
    <3> QED BY <1>5, <3>1, <3>2, <3>3, <3>4
  <2> QED BY <2>1, NoPathLeads
<1> QED BY <1>2, <1>3, <1>4, <1>5 DEF Step, add_entry, relocate_entry, SearchStep

-----------------------------------------------------------------------------
(* Entries fit their buckets. *)

(* An entry that is put in its alternate bucket with its secondary flag    *)
(* flipped is in the bucket the flag says.                                 *)
LEMMA MovedFits ==
  ASSUME NEW e \in Entries, NEW b \in Buckets, NEW c, Fits(e, b), e.id # None => alternate_bucket(e, b) = c
  PROVE  Fits([e EXCEPT !.secondary = ~e.secondary], c)
<1>1. /\ e.home \in Buckets /\ e.tag \in Tags /\ e.secondary \in BOOLEAN
      /\ [e EXCEPT !.secondary = ~e.secondary].id = e.id /\ [e EXCEPT !.secondary = ~e.secondary].home = e.home
      /\ [e EXCEPT !.secondary = ~e.secondary].tag = e.tag
      /\ [e EXCEPT !.secondary = ~e.secondary].secondary = ~e.secondary
  BY DEF Entries
<1>2. unmix_bucket(mix_bucket(e.home, e.tag), e.tag) = e.home
  BY <1>1, UnmixInvertsMix
<1>3. CASE e.secondary
  BY <1>1, <1>2, <1>3 DEF Fits, alternate_bucket
<1>4. CASE ~e.secondary
  BY <1>1, <1>2, <1>4 DEF Fits, alternate_bucket
<1> QED BY <1>3, <1>4

(* Every entry given to write_entry fits the bucket it goes to: the new    *)
(* one of add_entry, and the one relocate_entry copies.                    *)
LEMMA WriteFits ==
  ASSUME CInv, PInv, LockInv, ~scenario.buffered, ContentInv, NEW t \in Threads,
         Step(t) \/ BeginInsert(t) \/ BeginLookup(t) \/ Drain(t), pc'[t] \in {"write1", "write2"}
  PROVE  Fits(write'[t].entry, BucketOf(write'[t].cell))
<1>1. /\ TypeOK /\ Control(t) /\ Place(t) /\ pc \in [Threads -> Labels] /\ DOMAIN write = Threads
      /\ cells \in [Cells -> Entries]
  BY DEF CInv, PInv, TypeOK
<1>2. CASE write_entry(t)
  BY <1>1, <1>2 DEF write_entry, Control, CallInv, ContentInv
<1>3. ASSUME NEW p, NEW then, CallWrite(t, p, Unused, then) PROVE Fits(write'[t].entry, BucketOf(write'[t].cell))
  BY <1>1, <1>3 DEF CallWrite, Unused, Fits
<1>4. CASE PutEntry(t)
  <2> DEFINE e == [id |-> NodeId(t), home |-> Primary(t), tag |-> NodeHash(t).tag,
                   color |-> unused_color_in_pair(t), secondary |-> add[t].handle = SECONDARY]
  <2>1. pc[t] = "put" /\ write'[t].entry = e /\ write'[t].cell = add[t].result
    BY <1>1, <1>4 DEF PutEntry, CallWrite
  <2>2. /\ BucketOf(add[t].result) = rl[t][add[t].handle] /\ rl[t][PRIMARY] = Primary(t)
        /\ rl[t][SECONDARY] = Secondary(t) /\ add[t].handle \in {PRIMARY, SECONDARY}
    BY <1>1, <2>1 DEF Control, AddInv, TypeOK
  <2>3. Secondary(t) = mix_bucket(Primary(t), NodeHash(t).tag)
    BY DEF Secondary, Primary
  <2>4. e.home = Primary(t) /\ e.tag = NodeHash(t).tag /\ e.secondary = (add[t].handle = SECONDARY)
    OBVIOUS
  <2> HIDE DEF e
  <2>5. CASE add[t].handle = SECONDARY
    BY <2>1, <2>2, <2>3, <2>4, <2>5 DEF Fits
  <2>6. CASE add[t].handle # SECONDARY
    BY <2>1, <2>2, <2>4, <2>6 DEF Fits
  <2> QED BY <2>5, <2>6
<1>5. CASE MoveEntry(t)
  <2>1. /\ pc[t] = "move" /\ Seen(t, Occupied(t)) = cells[Occupied(t)]
        /\ write'[t].entry = [Seen(t, Occupied(t)) EXCEPT !.secondary = ~Seen(t, Occupied(t)).secondary]
        /\ write'[t].cell = rel[t].free
    BY <1>1, <1>5, SeenIsMemory DEF MoveEntry, CallWrite
  <2>2. /\ Occupied(t) \in Cells /\ cells[Occupied(t)] \in Entries /\ BucketOf(Occupied(t)) \in Buckets
        /\ BucketOf(rel[t].free) \in Buckets
    BY <1>1, <2>1, MoveBuckets, OccupiedType
  <2>3. Leads(Occupied(t), BucketOf(rel[t].free)) /\ Fits(cells[Occupied(t)], BucketOf(Occupied(t)))
    BY <2>1, <2>2 DEF ContentInv, PathLeads
  <2>4. Fits([cells[Occupied(t)] EXCEPT !.secondary = ~cells[Occupied(t)].secondary], BucketOf(rel[t].free))
    BY <2>2, <2>3, MovedFits DEF Leads
  <2> QED BY <2>1, <2>4
<1>6. CASE ReadUnlock(t) \/ MoveNext(t) \/ remove_entry_by_value(t)
  <2>1. \E p, then : CallWrite(t, p, Unused, then)
    BY <1>1, <1>6 DEF ReadUnlock, MoveNext, remove_entry_by_value
  <2> QED BY <1>3, <2>1
<1>7. pc'[t] \notin {"write1", "write2"} \/ write_entry(t) \/ PutEntry(t) \/ MoveEntry(t) \/ ReadUnlock(t)
      \/ MoveNext(t) \/ remove_entry_by_value(t)
  <2>1. CASE AddStep(t)
    BY <1>1, <2>1 DEF AddStep, ReadLockPrimary, ReadLockSecondary, ScanPrimary, ScanSecondary,
         AddReturn, ChooseCell, CallUpgrade, TypeOK
  <2>2. CASE upgrade_bucket_lock(t)
    BY <1>1, <2>2 DEF upgrade_bucket_lock, UpgradeHeld, UpgradeTake, UpgradeCheck, UpgradeOk, UpgradePath,
         UpgradeFailed, CallUpgrade
  <2>3. CASE relocate_entry(t)
    BY <1>1, <2>3 DEF relocate_entry, Relocate, SearchStep, SearchExamine, SearchReadLock, SearchScan, SearchFailed,
         CallUpgrade, MoveStep, RelocateEnd, ReleaseFree, ReleasePath, RelocateReturn, RelocateFailed
  <2>4. CASE find_entry_in_pair_by_color(t)
    BY <1>1, <2>4 DEF find_entry_in_pair_by_color, FindReadCounter, FindScan, FindCheckCounter, NotInBucket,
         Control, CallInv
  <2>5. CASE InsertEnd(t) \/ LookupReturn(t) \/ BeginInsert(t) \/ BeginLookup(t)
    BY <1>1, <2>5 DEF InsertEnd, Publish, Undo, Removed, Retry, ReleaseAllNext,
         InsertReturn, RetryInsert, ChoosePlan, LookupReturn, BeginInsert, BeginLookup, Return, CallFind
  <2>6. ~Drain(t)
    BY <1>1, Effects
  <2> QED BY <2>1, <2>2, <2>3, <2>4, <2>5, <2>6 DEF Step, add_entry
<1> QED BY <1>2, <1>4, <1>5, <1>6, <1>7

(* All steps, for all threads.                                             *)
LEMMA ContentStep ==
  ASSUME CInv, PInv, LockInv, ~scenario.buffered, ContentInv, NEW t \in Threads,
         Step(t) \/ BeginInsert(t) \/ BeginLookup(t) \/ Drain(t)
  PROVE  ContentInv'
<1>1. /\ TypeOK /\ Control(t) /\ cells \in [Cells -> Entries]
      /\ \A u \in Threads \ {t} : pc'[u] = pc[u] /\ write'[u] = write[u]
  BY StepIsLocal DEF CInv, TypeOK, Others, locals
<1>2. \A p \in Cells : Fits(cells'[p], BucketOf(p))
  <2>1. cells' = cells \/ (pc[t] = "write2" /\ cells' = [cells EXCEPT ![write[t].cell] = write[t].entry])
    BY <1>1, Effects
  <2> QED BY <1>1, <2>1 DEF ContentInv
<1>3. ASSUME NEW u \in Threads, pc'[u] \in {"write1", "write2"}
      PROVE  Fits(write'[u].entry, BucketOf(write'[u].cell))
  <2>1. CASE u = t
    BY <1>3, <2>1, WriteFits
  <2>2. CASE u # t
    BY <1>1, <1>3, <2>2 DEF ContentInv
  <2> QED BY <2>1, <2>2
<1>4. ASSUME NEW u \in Threads PROVE PathLeads(u)'
  <2>1. PathLeads(u)
    BY DEF ContentInv
  <2>2. CASE u = t
    BY <2>1, <2>2, PathLeadsStep
  <2>3. CASE u # t
    BY <2>1, <2>3, OtherPath
  <2> QED BY <2>2, <2>3
<1>5. \A p \in Cells : Fits(cells[p], BucketOf(p))'
  BY <1>2 DEF Fits
<1>6. \A u \in Threads : pc'[u] \in {"write1", "write2"} => Fits(write[u].entry, BucketOf(write[u].cell))'
  BY <1>3 DEF Fits
<1> QED BY <1>4, <1>5, <1>6 DEF ContentInv

(* Without store buffers every entry is in the bucket of its pair that its *)
(* flag says, and each entry on the path of a relocation leads to the next *)
(* bucket.                                                                 *)
THEOREM ContentInvariant == Spec => []OrderedContent
<1>1. Init => OrderedContent
  <2> SUFFICES ASSUME Init PROVE ContentInv
    BY DEF OrderedContent
  <2>1. \A p \in Cells : Fits(cells[p], BucketOf(p))
    BY DEF Init, Fits, Unused, Root, RootCell, BucketOf
  <2>2. \A t \in Threads : pc[t] = "idle"
    BY DEF Init
  <2>3. \A t \in Threads : PathLeads(t)
    BY <2>2 DEF PathLeads
  <2> QED BY <2>1, <2>2, <2>3 DEF ContentInv
<1>2. ASSUME CInv, PInv, LockInv, OrderedContent, [Next]_vars PROVE OrderedContent'
  <2>1. CASE UNCHANGED vars
    <3>1. /\ scenario' = scenario /\ cells' = cells /\ pc' = pc /\ write' = write /\ find' = find /\ rel' = rel
          /\ up' = up /\ stale' = stale /\ bucket_refs' = bucket_refs
      BY <2>1 DEF vars
    <3>2. ASSUME NEW t \in Threads, ContentInv PROVE PathLeads(t)'
      <4>1. /\ \A j : BucketAt(t, j)' = BucketAt(t, j) /\ ParentAt(t, j)' = ParentAt(t, j) /\ PathCell(t, j)' = PathCell(t, j)
            /\ Locked(t, bucket_refs[t])' = Locked(t, bucket_refs[t]) /\ Positions(t)' = Positions(t)
            /\ SearchCell(t)' = SearchCell(t) /\ Occupied(t)' = Occupied(t)
        BY <3>1 DEF BucketAt, ParentAt, PathCell, Locked, Positions, SearchCell, Occupied
      <4>2. Phase(t)' = Phase(t) /\ ForFree(t)' = ForFree(t) /\ ForPath(t)' = ForPath(t)
        BY <3>1
      <4>3. /\ \A j : Kept(t, ParentAt(t, j))' <=> Kept(t, ParentAt(t, j))
            /\ Kept(t, rel[t].pos)' <=> Kept(t, rel[t].pos)
            /\ \A j : Leads(PathCell(t, j), BucketAt(t, j))' <=> Leads(PathCell(t, j), BucketAt(t, j))
            /\ Leads(SearchCell(t), rel[t].child_bucket)' <=> Leads(SearchCell(t), rel[t].child_bucket)
            /\ Leads(Occupied(t), BucketOf(rel[t].free))' <=> Leads(Occupied(t), BucketOf(rel[t].free))
        BY <3>1, <4>1 DEF Kept, Writing, Fresh, Leads
      <4>4. PathLeads(t)
        BY <3>2 DEF ContentInv
      <4> HIDE DEF Phase, ForFree, ForPath
      <4> QED BY <3>1, <4>1, <4>2, <4>3, <4>4 DEF PathLeads
    <3> QED BY <1>2, <3>1, <3>2 DEF OrderedContent, ContentInv, Fits
  <2>2. ASSUME NEW t \in Threads, Step(t) \/ BeginInsert(t) \/ BeginLookup(t) \/ Drain(t)
        PROVE  OrderedContent'
    <3>1. scenario' = scenario
      BY <1>2, <2>2, StepIsLocal DEF CInv
    <3> QED BY <1>2, <2>2, <3>1, ContentStep DEF OrderedContent
  <2> QED BY <1>2, <2>1, <2>2, StepCases
<1> QED BY <1>1, <1>2, ControlInvariant, PlaceInvariant, LockInvariant, PTL DEF Spec

(* FLAG_SECONDARY_BUCKET is right for every entry in the table, so         *)
(* alternate_bucket and the searches by color compute the right bucket,    *)
(* for any number of threads and any table, whenever stores are visible at *)
(* once.                                                                   *)
THEOREM FlagsAreRight == Spec => [](~scenario.buffered => FlagTellsBucket)
<1>1. ASSUME CInv, OrderedContent PROVE ~scenario.buffered => FlagTellsBucket
  BY <1>1 DEF OrderedContent, ContentInv, Fits, FlagTellsBucket
<1> QED BY <1>1, ControlInvariant, ContentInvariant, PTL
=============================================================================
