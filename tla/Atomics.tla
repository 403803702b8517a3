------------------------------- MODULE Atomics -------------------------------
(***************************************************************************)
(* The synchronisation layer of the cuckoo trie (atomics.h, atomics.c):    *)
(* the per-bucket word write_lock_and_seq (one lock byte and a 24-bit      *)
(* sequence number), the two-qword seqlock protocol of read_entry and      *)
(* write_entry, optimistic read locks, and the per-thread lock manager     *)
(* with its reference counts.                                              *)
(*                                                                         *)
(* Every access to shared memory is a step of its own; work on a thread's  *)
(* own lock manager is merged with the neighbouring access.  Which         *)
(* function a thread calls next is left open, subject to what main.c       *)
(* respects (its asserts and its pairing of locks and unlocks).            *)
(*                                                                         *)
(* An entry is abstracted to the number of the write_entry call that       *)
(* stored it, kept once per qword, so that a mixture of two writes shows.  *)
(***************************************************************************)
EXTENDS Naturals, Sequences

CONSTANTS
  Threads,    \* callers, each with its own ct_lock_mgr
  Buckets,    \* buckets of the hash table
  CUCKOO_BUCKET_SIZE, \* cells of a bucket (4 in the code)
  SeqMod,     \* sequence numbers are kept modulo SeqMod (2^24 in the code)
  MaxWrites,  \* bound: write_entry calls in a behaviour
  MaxRefs,    \* bound: references a thread holds on one bucket
  None        \* no local copy, no read lock, no write in progress

(* A reader or a read lock never sleeps through SeqMod / 2 writes.         *)
ASSUME SeqModAssumption == SeqMod \in Nat /\ MaxWrites \in Nat /\ 2 * MaxWrites < SeqMod
ASSUME MaxRefsAssumption == MaxRefs \in Nat
ASSUME BucketSizeAssumption == CUCKOO_BUCKET_SIZE \in 1..4

VARIABLES
  word,         \* bucket -> [lock, seq]: write_lock_and_seq
  half1, half2, \* bucket -> cell -> write that stored the first / second qword
  clock,        \* number of write_entry calls begun
  mgr,          \* thread -> bucket_write_locks[0 .. next_write_lock)
  released,     \* thread -> locks release_all_locks has already stored 0 to
  pc,           \* thread -> the access it is about to make, "idle" between calls
  copy,         \* thread -> ct_entry_local_copy (last_pos, last_seq, value)
  rlock,        \* thread -> ct_bucket_read_lock, None when it has none
  target,       \* thread -> arguments and saved counter of write_entry
  bucket_refs   \* thread -> bucket -> bucket-level references main.c holds

vars == <<word, half1, half2, clock, mgr, released, pc, copy, rlock, target, bucket_refs>>

cells == <<half1, half2>>

Cells == 0..(CUCKOO_BUCKET_SIZE - 1)
Words == [lock : 0..1, seq : 0..(SeqMod - 1)]
Contents == [Cells -> 0..MaxWrites]
Locks == [bucket : Buckets, refs : [Cells -> Nat], total : Nat \ {0}]
Copies == [bucket : Buckets, cell : Cells, word : Words,
           v1 : 0..MaxWrites, v2 : 0..MaxWrites]
ReadLocks == [bucket : Buckets, seq : 0..(SeqMod - 1), cells : Contents \X Contents]
Targets == [bucket : Buckets, cell : Cells, word : Words, value : 0..MaxWrites]

ASSUME NoneAssumption == None \notin Copies /\ None \notin ReadLocks /\ None \notin Targets

Labels == {"idle", "retry", "read1", "read2", "read3",
           "write1", "write2", "write3", "write4",
           "upgrade_bucket", "upgrade_entry", "release"}

Odd(seq) == seq % 2 = 1

-----------------------------------------------------------------------------
(* The lock manager: thread-local work of the functions below.             *)

(* Index of the lock on bucket b, searching backwards; 0 for NULL.         *)
find_write_lock(t, b) ==
  LET found == {i \in 1..Len(mgr[t]) : mgr[t][i].bucket = b}
  IN  IF found = {} THEN 0 ELSE CHOOSE i \in found : \A j \in found : j <= i

bucket_write_locked(t, b) == find_write_lock(t, b) # 0

add_lock(t, b) ==
  Append(mgr[t], [bucket |-> b, refs |-> [c \in Cells |-> 0], total |-> 1])

(* Mutant: the last lock is dropped instead of lock i.                     *)
RemoveLastLock(t, i) == SubSeq(mgr[t], 1, Len(mgr[t]) - 1)

(* The last lock moves into the hole; the bucket's lock byte is cleared.   *)
remove_lock(t, i) ==
  [j \in 1..(Len(mgr[t]) - 1) |-> IF j = i THEN mgr[t][Len(mgr[t])] ELSE mgr[t][j]]

WithCounts(l, total, refs) == [bucket |-> l.bucket, refs |-> refs, total |-> total]
OneMore(refs, c) == [refs EXCEPT ![c] = @ + 1]
OneLess(refs, c) == [refs EXCEPT ![c] = @ - 1]

(* Mutant: a lock without references stays registered.                     *)
DropWithoutRelease(t, i, refs) ==
  /\ mgr' = [mgr EXCEPT ![t][i] = WithCounts(@, @.total - 1, refs)]
  /\ UNCHANGED word

(* Drop one reference of lock i, whose entry counts become refs; the lock  *)
(* goes with its last reference.                                           *)
DropReference(t, i, refs) ==
  LET l == mgr[t][i]
  IN  IF l.total = 1
        THEN /\ mgr' = [mgr EXCEPT ![t] = remove_lock(t, i)]
             /\ word' = [word EXCEPT ![l.bucket].lock = 0]
        ELSE /\ mgr' = [mgr EXCEPT ![t][i] = WithCounts(@, @.total - 1, refs)]
             /\ UNCHANGED word

-----------------------------------------------------------------------------
Init ==
  /\ word = [b \in Buckets |-> [lock |-> 0, seq |-> 0]]
  /\ half1 = [b \in Buckets |-> [c \in Cells |-> 0]]
  /\ half2 = [b \in Buckets |-> [c \in Cells |-> 0]]
  /\ clock = 0
  /\ mgr = [t \in Threads |-> <<>>]
  /\ released = [t \in Threads |-> 0]
  /\ pc = [t \in Threads |-> "idle"]
  /\ copy = [t \in Threads |-> None]
  /\ rlock = [t \in Threads |-> None]
  /\ target = [t \in Threads |-> None]
  /\ bucket_refs = [t \in Threads |-> [b \in Buckets |-> 0]]

Goto(t, label) == pc' = [pc EXCEPT ![t] = label]

-----------------------------------------------------------------------------
(* read_entry: load the counter, both qwords, the counter again; retry     *)
(* while a write is in progress or the counter changed.                    *)

ReadSeq1(t, b, c) ==
  /\ copy' = [copy EXCEPT ![t] = [bucket |-> b, cell |-> c, word |-> word[b],
                                  v1 |-> 0, v2 |-> 0]]
  /\ Goto(t, IF Odd(word[b].seq) THEN "retry" ELSE "read1")
  /\ UNCHANGED <<word, cells, clock, mgr, released, rlock, target, bucket_refs>>

read_entry(t, b, c) == pc[t] = "idle" /\ ReadSeq1(t, b, c)

ReadRetry(t) == pc[t] = "retry" /\ ReadSeq1(t, copy[t].bucket, copy[t].cell)

ReadPart1(t) ==
  /\ pc[t] = "read1"
  /\ copy' = [copy EXCEPT ![t].v1 = half1[copy[t].bucket][copy[t].cell]]
  /\ Goto(t, "read2")
  /\ UNCHANGED <<word, cells, clock, mgr, released, rlock, target, bucket_refs>>

ReadPart2(t) ==
  /\ pc[t] = "read2"
  /\ copy' = [copy EXCEPT ![t].v2 = half2[copy[t].bucket][copy[t].cell]]
  /\ Goto(t, "read3")
  /\ UNCHANGED <<word, cells, clock, mgr, released, rlock, target, bucket_refs>>

(* Mutant: the copy is accepted without comparing the counter.             *)
ReadWithoutCheck(t) ==
  /\ pc[t] = "read3"
  /\ Goto(t, "idle")
  /\ UNCHANGED <<word, cells, clock, mgr, released, copy, rlock, target, bucket_refs>>

(* The whole word is compared, lock byte included.                         *)
ReadSeq2(t) ==
  /\ pc[t] = "read3"
  /\ Goto(t, IF word[copy[t].bucket] = copy[t].word THEN "idle" ELSE "retry")
  /\ UNCHANGED <<word, cells, clock, mgr, released, copy, rlock, target, bucket_refs>>

-----------------------------------------------------------------------------
(* write_entry: the caller holds the bucket.  The counter is read once and *)
(* stored whole, lock byte included, before and after the two qwords.      *)

write_entry(t, b, c) ==
  /\ pc[t] = "idle"
  /\ bucket_write_locked(t, b)
  /\ clock < MaxWrites
  /\ clock' = clock + 1
  /\ target' = [target EXCEPT ![t] = [bucket |-> b, cell |-> c, word |-> word[b],
                                      value |-> clock + 1]]
  /\ Goto(t, "write1")
  /\ UNCHANGED <<word, cells, mgr, released, copy, rlock, bucket_refs>>

(* Mutant: the stored word clears the lock byte.                           *)
WordWithoutLock(t, n) == [lock |-> 0, seq |-> (target[t].word.seq + n) % SeqMod]

(* The counter word saved by write_entry, its sequence number raised by n. *)
RaisedWord(t, n) ==
  [target[t].word EXCEPT !.seq = (@ + n) % SeqMod]

WriteSeqOdd(t) ==
  /\ pc[t] = "write1"
  /\ word' = [word EXCEPT ![target[t].bucket] = RaisedWord(t, 1)]
  /\ Goto(t, "write2")
  /\ UNCHANGED <<cells, clock, mgr, released, copy, rlock, target, bucket_refs>>

WritePart1(t) ==
  /\ pc[t] = "write2"
  /\ half1' = [half1 EXCEPT ![target[t].bucket][target[t].cell] = target[t].value]
  /\ Goto(t, "write3")
  /\ UNCHANGED <<word, half2, clock, mgr, released, copy, rlock, target, bucket_refs>>

WritePart2(t) ==
  /\ pc[t] = "write3"
  /\ half2' = [half2 EXCEPT ![target[t].bucket][target[t].cell] = target[t].value]
  /\ Goto(t, "write4")
  /\ UNCHANGED <<word, half1, clock, mgr, released, copy, rlock, target, bucket_refs>>

(* Mutant: the second increment of the counter is forgotten.               *)
WriteLeavesOdd(t) ==
  /\ pc[t] = "write4"
  /\ target' = [target EXCEPT ![t] = None]
  /\ Goto(t, "idle")
  /\ UNCHANGED <<word, cells, clock, mgr, released, copy, rlock, bucket_refs>>

WriteSeqEven(t) ==
  /\ pc[t] = "write4"
  /\ word' = [word EXCEPT ![target[t].bucket] = RaisedWord(t, 2)]
  /\ target' = [target EXCEPT ![t] = None]
  /\ Goto(t, "idle")
  /\ UNCHANGED <<cells, clock, mgr, released, copy, rlock, bucket_refs>>

-----------------------------------------------------------------------------
(* Read locks.  The lock byte is masked out.  The field "cells" is history *)
(* for the properties: the bucket's contents when the lock was taken.      *)

read_lock_bucket(t, b) ==
  /\ pc[t] = "idle"
  /\ rlock' = [rlock EXCEPT ![t] = [bucket |-> b, seq |-> word[b].seq,
                                    cells |-> <<half1[b], half2[b]>>]]
  /\ UNCHANGED <<word, cells, clock, mgr, released, pc, copy, target, bucket_refs>>

ReadLockValid(t) == word[rlock[t].bucket].seq = rlock[t].seq

(* The read lock ends; the caller gets SI_OK iff ReadLockValid.            *)
read_unlock_bucket(t) ==
  /\ pc[t] = "idle"
  /\ rlock[t] # None
  /\ rlock' = [rlock EXCEPT ![t] = None]
  /\ UNCHANGED <<word, cells, clock, mgr, released, pc, copy, target, bucket_refs>>

-----------------------------------------------------------------------------
(* Bucket-level write locks.                                               *)

(* The exchange on the lock byte returned 0.                               *)
try_take_lock(b) == word[b].lock = 0

TakeLock(t, b) ==
  /\ word' = [word EXCEPT ![b].lock = 1]
  /\ mgr' = [mgr EXCEPT ![t] = add_lock(t, b)]

AddReference(t, i) ==
  /\ mgr[t][i].total < MaxRefs
  /\ mgr' = [mgr EXCEPT ![t][i] = WithCounts(@, @.total + 1, @.refs)]

CountBucketRef(t, b) == bucket_refs' = [bucket_refs EXCEPT ![t][b] = @ + 1]

(* Fails (NULL, no change) if another thread holds the lock.               *)
write_lock_bucket(t, b) ==
  /\ pc[t] = "idle"
  /\ \/ try_take_lock(b) /\ TakeLock(t, b)
     \/ /\ ~try_take_lock(b)
        /\ bucket_write_locked(t, b)
        /\ AddReference(t, find_write_lock(t, b))
        /\ UNCHANGED word
  /\ CountBucketRef(t, b)
  /\ UNCHANGED <<cells, clock, released, pc, copy, rlock, target>>

(* Bucket already held by this thread: SI_OK if the sequence number did    *)
(* not change since the read lock, else SI_RETRY (no change).              *)
UpgradeBucketLockHeld(t) ==
  /\ pc[t] = "idle"
  /\ rlock[t] # None
  /\ bucket_write_locked(t, rlock[t].bucket)
  /\ ReadLockValid(t)
  /\ AddReference(t, find_write_lock(t, rlock[t].bucket))
  /\ CountBucketRef(t, rlock[t].bucket)
  /\ UNCHANGED <<word, cells, clock, released, pc, copy, rlock, target>>

(* write_lock_unlocked_bucket; SI_RETRY without a change if it fails.      *)
UpgradeBucketLockTake(t) ==
  /\ pc[t] = "idle"
  /\ rlock[t] # None
  /\ ~bucket_write_locked(t, rlock[t].bucket)
  /\ try_take_lock(rlock[t].bucket)
  /\ TakeLock(t, rlock[t].bucket)
  /\ CountBucketRef(t, rlock[t].bucket)
  /\ Goto(t, "upgrade_bucket")
  /\ UNCHANGED <<cells, clock, released, copy, rlock, target>>

(* Mutant: the upgrade succeeds whenever the lock was free.                *)
UpgradeWithoutCheck(t) ==
  /\ pc[t] = "upgrade_bucket"
  /\ Goto(t, "idle")
  /\ UNCHANGED <<word, cells, clock, mgr, released, copy, rlock, target, bucket_refs>>

(* Compare the sequence number only now that the lock is held.             *)
UpgradeBucketLockCheck(t) ==
  /\ pc[t] = "upgrade_bucket"
  /\ IF ReadLockValid(t)
       THEN UNCHANGED <<word, mgr, bucket_refs>>
       ELSE LET i == find_write_lock(t, rlock[t].bucket)
            IN  /\ DropReference(t, i, mgr[t][i].refs)
                /\ bucket_refs' = [bucket_refs EXCEPT ![t][rlock[t].bucket] = @ - 1]
  /\ Goto(t, "idle")
  /\ UNCHANGED <<cells, clock, released, copy, rlock, target>>

release_bucket_lock(t, b) ==
  /\ pc[t] = "idle"
  /\ bucket_refs[t][b] > 0
  /\ LET i == find_write_lock(t, b) IN DropReference(t, i, mgr[t][i].refs)
  /\ bucket_refs' = [bucket_refs EXCEPT ![t][b] = @ - 1]
  /\ UNCHANGED <<cells, clock, released, pc, copy, rlock, target>>

-----------------------------------------------------------------------------
(* Entry-level write locks.                                                *)

(* Mutant: total_refcount is not raised with the entry's count.            *)
AddEntryOnly(t, i, c) ==
  mgr' = [mgr EXCEPT ![t][i] = WithCounts(@, @.total, OneMore(@.refs, c))]

AddEntryReference(t, i, c) ==
  /\ mgr[t][i].total < MaxRefs
  /\ mgr' = [mgr EXCEPT ![t][i] = WithCounts(@, @.total + 1, OneMore(@.refs, c))]

write_lock_entry_in_locked_bucket(t, b, c) ==
  /\ pc[t] = "idle"
  /\ bucket_write_locked(t, b)
  /\ AddEntryReference(t, find_write_lock(t, b), c)
  /\ UNCHANGED <<word, cells, clock, released, pc, copy, rlock, target, bucket_refs>>

(* Mutant: only looks whether a write is in progress.                      *)
CopyNotBeingWritten(t) == ~Odd(word[copy[t].bucket].seq)

(* validate_entry: the copy's bucket has not been written since.           *)
CopyValid(t) == word[copy[t].bucket].seq = copy[t].word.seq

UpgradeLockTake(t) ==
  /\ pc[t] = "idle"
  /\ copy[t] # None
  /\ try_take_lock(copy[t].bucket)
  /\ TakeLock(t, copy[t].bucket)
  /\ Goto(t, "upgrade_entry")
  /\ UNCHANGED <<cells, clock, released, copy, rlock, target, bucket_refs>>

(* The reference add_lock counted becomes the entry's, or is dropped.      *)
UpgradeLockCheck(t) ==
  /\ pc[t] = "upgrade_entry"
  /\ LET i == find_write_lock(t, copy[t].bucket)
     IN  IF CopyValid(t)
           THEN /\ mgr' = [mgr EXCEPT ![t][i] = WithCounts(@, @.total, OneMore(@.refs, copy[t].cell))]
                /\ UNCHANGED word
           ELSE DropReference(t, i, mgr[t][i].refs)
  /\ Goto(t, "idle")
  /\ UNCHANGED <<cells, clock, released, copy, rlock, target, bucket_refs>>

(* The exchange failed because this thread holds the bucket.               *)
UpgradeLockHeld(t) ==
  /\ pc[t] = "idle"
  /\ copy[t] # None
  /\ ~try_take_lock(copy[t].bucket)
  /\ bucket_write_locked(t, copy[t].bucket)
  /\ CopyValid(t)
  /\ AddEntryReference(t, find_write_lock(t, copy[t].bucket), copy[t].cell)
  /\ UNCHANGED <<word, cells, clock, released, pc, copy, rlock, target, bucket_refs>>

write_unlock(t, b, c) ==
  /\ pc[t] = "idle"
  /\ LET i == find_write_lock(t, b)
     IN  /\ i # 0
         /\ mgr[t][i].refs[c] # 0
         /\ DropReference(t, i, OneLess(mgr[t][i].refs, c))
  /\ UNCHANGED <<cells, clock, released, pc, copy, rlock, target, bucket_refs>>

(* Only relocate_entry calls it, holding bucket references on both buckets. *)
move_entry_lock(t, dst, dc, src, sc) ==
  /\ pc[t] = "idle"
  /\ bucket_refs[t][dst] > 0 /\ bucket_refs[t][src] > 0
  /\ <<dst, dc>> # <<src, sc>>
  /\ LET i == find_write_lock(t, src)
         j == find_write_lock(t, dst)
         less == [mgr EXCEPT ![t][i] = WithCounts(@, @.total - 1, OneLess(@.refs, sc))]
     IN  /\ mgr[t][i].refs[sc] # 0
         /\ mgr[t][j].total < MaxRefs
         /\ mgr' = [less EXCEPT ![t][j] = WithCounts(@, @.total + 1, OneMore(@.refs, dc))]
  /\ UNCHANGED <<word, cells, clock, released, pc, copy, rlock, target, bucket_refs>>

-----------------------------------------------------------------------------
(* release_all_locks: one store per lock, then the manager is emptied.     *)

release_all_locks(t) ==
  /\ pc[t] = "idle"
  /\ mgr[t] # <<>>
  /\ Goto(t, "release")
  /\ UNCHANGED <<word, cells, clock, mgr, released, copy, rlock, target, bucket_refs>>

ReleaseNext(t) ==
  /\ pc[t] = "release"
  /\ released[t] < Len(mgr[t])
  /\ word' = [word EXCEPT ![mgr[t][released[t] + 1].bucket].lock = 0]
  /\ released' = [released EXCEPT ![t] = @ + 1]
  /\ UNCHANGED <<cells, clock, mgr, pc, copy, rlock, target, bucket_refs>>

ReleaseDone(t) ==
  /\ pc[t] = "release"
  /\ released[t] = Len(mgr[t])
  /\ mgr' = [mgr EXCEPT ![t] = <<>>]
  /\ released' = [released EXCEPT ![t] = 0]
  /\ bucket_refs' = [bucket_refs EXCEPT ![t] = [b \in Buckets |-> 0]]
  /\ Goto(t, "idle")
  /\ UNCHANGED <<word, cells, clock, copy, rlock, target>>

-----------------------------------------------------------------------------
(* Calls the thread begins, and the remaining accesses of a call begun.    *)

Call(t) ==
  \/ \E b \in Buckets : \/ read_lock_bucket(t, b)
                        \/ write_lock_bucket(t, b)
                        \/ release_bucket_lock(t, b)
  \/ \E b \in Buckets, c \in Cells : \/ read_entry(t, b, c)
                                     \/ write_entry(t, b, c)
                                     \/ write_lock_entry_in_locked_bucket(t, b, c)
                                     \/ write_unlock(t, b, c)
  \/ \E b1, b2 \in Buckets, c1, c2 \in Cells : move_entry_lock(t, b1, c1, b2, c2)
  \/ read_unlock_bucket(t)
  \/ UpgradeBucketLockHeld(t)
  \/ UpgradeBucketLockTake(t)
  \/ UpgradeLockTake(t)
  \/ UpgradeLockHeld(t)
  \/ release_all_locks(t)

ReadStep(t) == ReadRetry(t) \/ ReadPart1(t) \/ ReadPart2(t) \/ ReadSeq2(t)

WriteStep(t) == WriteSeqOdd(t) \/ WritePart1(t) \/ WritePart2(t) \/ WriteSeqEven(t)

LockStep(t) ==
  \/ UpgradeBucketLockCheck(t)
  \/ UpgradeLockCheck(t)
  \/ ReleaseNext(t)
  \/ ReleaseDone(t)

Next == \E t \in Threads : Call(t) \/ ReadStep(t) \/ WriteStep(t) \/ LockStep(t)

Spec == Init /\ [][Next]_vars

(* A thread inside a call is not stopped for ever by the OS scheduler.     *)
FairSpec == Spec /\ \A t \in Threads : WF_vars(WriteStep(t)) /\ WF_vars(LockStep(t))
                                        /\ WF_vars(ReadStep(t))

-----------------------------------------------------------------------------
(* Properties.                                                             *)

(* Every variable has the shape of the C object it stands for; a lock      *)
(* manager lists only locks with at least one reference.                   *)
TypeOK ==
  /\ word \in [Buckets -> Words]
  /\ half1 \in [Buckets -> Contents]
  /\ half2 \in [Buckets -> Contents]
  /\ clock \in 0..MaxWrites
  /\ mgr \in [Threads -> Seq(Locks)]
  /\ released \in [Threads -> Nat]
  /\ pc \in [Threads -> Labels]
  /\ copy \in [Threads -> Copies \cup {None}]
  /\ rlock \in [Threads -> ReadLocks \cup {None}]
  /\ target \in [Threads -> Targets \cup {None}]
  /\ bucket_refs \in [Threads -> [Buckets -> Nat]]

(* The locks of t that release_all_locks has not given back yet.           *)
Holds(t, b) == \E i \in 1..Len(mgr[t]) : i > released[t] /\ mgr[t][i].bucket = b

(* Mutual exclusion: a bucket is write-locked by at most one thread, once  *)
(* in its manager, and its lock byte is set exactly while it is: no path   *)
(* through the reference counts, the swap in remove_lock, the whole-word   *)
(* stores of write_entry or release_all_locks leaks or steals a lock.      *)
LockByteOwned ==
  \A b \in Buckets :
    /\ word[b].lock = 1 <=> \E t \in Threads : Holds(t, b)
    /\ \A t, u \in Threads : Holds(t, b) /\ Holds(u, b) => t = u
    /\ \A t \in Threads : \A i, j \in 1..Len(mgr[t]) :
         mgr[t][i].bucket = b /\ mgr[t][j].bucket = b => i = j

(* The sum of a lock's entry reference counts.                             *)
EntryRefs(refs) ==
  LET at(c) == IF c \in Cells THEN refs[c] ELSE 0 IN at(0) + at(1) + at(2) + at(3)

(* The reference that upgrade_lock has taken and not yet given to an entry. *)
PendingRef(t, b) == IF pc[t] = "upgrade_entry" /\ copy[t].bucket = b THEN 1 ELSE 0

(* The locks thread t lists count the references it holds, and no others.  *)
Balanced(t) ==
  pc[t] # "release" =>
    /\ \A i \in 1..Len(mgr[t]) :
         mgr[t][i].total = bucket_refs[t][mgr[t][i].bucket] + PendingRef(t, mgr[t][i].bucket)
                             + EntryRefs(mgr[t][i].refs)
    /\ \A b \in Buckets : bucket_refs[t][b] > 0 => Holds(t, b)

(* "Sum of all entry refcounts, plus refcount of the bucket itself": the   *)
(* count is zero, and the lock given back, exactly when main.c has undone  *)
(* every lock it took, so the asserts on the counts hold.                  *)
RefcountsBalance == \A t \in Threads : Balanced(t)

Reading(t) == pc[t] \in {"retry", "read1", "read2", "read3"}

(* Seqlock: an entry read_entry has returned is one that a single          *)
(* write_entry call stored, never halves of two.                           *)
NoTornRead ==
  \A t \in Threads : copy[t] # None /\ ~Reading(t) => copy[t].v1 = copy[t].v2

(* A local copy that validates (validate_entry, upgrade_lock) is what the  *)
(* cell holds now, however many writes and lock hand-overs came between.   *)
ValidCopyIsCurrent ==
  \A t \in Threads :
    copy[t] # None /\ ~Reading(t) /\ CopyValid(t) =>
      /\ copy[t].v1 = half1[copy[t].bucket][copy[t].cell]
      /\ copy[t].v2 = half2[copy[t].bucket][copy[t].cell]

EntryLocked(t, b, c) == \E i \in 1..Len(mgr[t]) : mgr[t][i].bucket = b /\ mgr[t][i].refs[c] # 0

(* The step that ends upgrade_bucket_lock with the lock kept.              *)
BucketUpgradeFresh(t) ==
  pc[t] = "upgrade_bucket" /\ pc'[t] = "idle" /\ mgr'[t] = mgr[t] =>
    rlock[t].cells = <<half1[rlock[t].bucket], half2[rlock[t].bucket]>>

(* The step that ends upgrade_lock with the entry locked.                  *)
EntryUpgradeFresh(t) ==
  /\ pc[t] = "upgrade_entry" /\ pc'[t] = "idle"
  /\ ~EntryLocked(t, copy[t].bucket, copy[t].cell)
  /\ EntryLocked(t, copy[t].bucket, copy[t].cell)'
  => /\ copy[t].v1 = half1[copy[t].bucket][copy[t].cell]
     /\ copy[t].v2 = half2[copy[t].bucket][copy[t].cell]

(* A lock that an upgrade keeps covers what the thread read before it: the *)
(* cells of the bucket upgrade_bucket_lock was given, also when it was     *)
(* read-locked in the middle of a write, or the entry that upgrade_lock    *)
(* has locked.                                                             *)
UpgradeKeepsFresh ==
  [][\A t \in Threads : BucketUpgradeFresh(t) /\ EntryUpgradeFresh(t)]_vars

(* The sequence number of a bucket is odd only during a write_entry, so a  *)
(* reader that waits for an even number waits for one write.               *)
OddSeqIsWritten ==
  \A b \in Buckets :
    Odd(word[b].seq) <=>
      \E t \in Threads : pc[t] \in {"write2", "write3", "write4"} /\ target[t].bucket = b

(* Readers are not blocked for ever: once the lock words stop changing,    *)
(* every read_entry call returns.  No write may leave the number odd.      *)
ReadersFinish ==
  <>[][FALSE]_word => \A t \in Threads : Reading(t) ~> ~Reading(t)
=============================================================================
