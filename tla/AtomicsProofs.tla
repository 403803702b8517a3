---------------------------- MODULE AtomicsProofs ----------------------------
(***************************************************************************)
(* Proofs about Atomics, for any number of threads, buckets and cells and  *)
(* any bounds: types, mutual exclusion of the bucket write locks, and the  *)
(* seqlock guarantees of read_entry and of the lock upgrades.              *)
(***************************************************************************)
EXTENDS Atomics, TLAPS

-----------------------------------------------------------------------------
(* The inductive invariant, part by part.                                  *)

(* released counts positions of the manager and is 0 outside of            *)
(* release_all_locks.                                                      *)
ReleasedInv ==
  \A t \in Threads : /\ released[t] <= Len(mgr[t])
                     /\ pc[t] # "release" => released[t] = 0

(* Between the exchange and the check of an upgrade the thread holds the   *)
(* bucket, and has the read lock or the copy that it is about to check.    *)
UpgradeOK(t) ==
  /\ pc[t] = "upgrade_bucket" =>
       rlock[t] # None /\ Holds(t, rlock[t].bucket) /\ bucket_refs[t][rlock[t].bucket] > 0
  /\ pc[t] = "upgrade_entry" => copy[t] # None /\ Holds(t, copy[t].bucket)
  /\ Reading(t) => copy[t] # None

UpgradeInv == \A t \in Threads : UpgradeOK(t)

Writing(t) == pc[t] \in {"write1", "write2", "write3", "write4"}
MidWrite(t) == pc[t] \in {"write2", "write3", "write4"}

(* A writer holds the bucket; the counter it saved is the bucket's, or one *)
(* behind it once the odd number is stored.                                *)
WriterOK(t) ==
  /\ target[t] # None
  /\ Holds(t, target[t].bucket)
  /\ target[t].word.lock = 1
  /\ ~Odd(target[t].word.seq)
  /\ target[t].word.seq + 2 <= 2 * clock
  /\ word[target[t].bucket].seq =
       IF MidWrite(t) THEN target[t].word.seq + 1 ELSE target[t].word.seq
  /\ pc[t] = "write3" => half1[target[t].bucket][target[t].cell] = target[t].value

WriterInv == \A t \in Threads : Writing(t) => WriterOK(t)

(* A bucket's number is even unless somebody writes it, and never wraps.   *)
SeqInv ==
  \A b \in Buckets :
    /\ word[b].seq <= 2 * clock
    /\ Odd(word[b].seq) => \E t \in Threads : MidWrite(t) /\ target[t].bucket = b

(* The halves of a cell differ only between the two stores of a write.     *)
HalvesInv ==
  \A b \in Buckets, c \in Cells :
    half1[b][c] = half2[b][c]
      \/ \E t \in Threads : pc[t] = "write3" /\ target[t].bucket = b /\ target[t].cell = c

(* What a reader has loaded is current as long as the number is the one it *)
(* started from.                                                           *)
CopyOK(t) ==
  /\ copy[t].word.seq <= word[copy[t].bucket].seq
  /\ pc[t] # "retry" => ~Odd(copy[t].word.seq)
  /\ CopyValid(t) =>
       /\ pc[t] \notin {"retry", "read1"} =>
            copy[t].v1 = half1[copy[t].bucket][copy[t].cell]
       /\ pc[t] \notin {"retry", "read1", "read2"} =>
            copy[t].v2 = half2[copy[t].bucket][copy[t].cell]

ReaderInv == \A t \in Threads : copy[t] # None => CopyOK(t)

(* The same of read locks taken over an even number.                       *)
ReadLockInv ==
  \A t \in Threads : rlock[t] # None =>
    /\ rlock[t].seq <= word[rlock[t].bucket].seq
    /\ ~Odd(rlock[t].seq) /\ ReadLockValid(t) =>
         rlock[t].cells = <<half1[rlock[t].bucket], half2[rlock[t].bucket]>>

SeqlockInv == WriterInv /\ SeqInv /\ HalvesInv /\ ReaderInv /\ ReadLockInv /\ NoTornRead

LockInv == TypeOK /\ ReleasedInv /\ LockByteOwned /\ UpgradeInv /\ RefcountsBalance

IInv == LockInv /\ SeqlockInv

-----------------------------------------------------------------------------
(* The lock manager.                                                       *)

(* The fields of the locks a manager lists.                                *)
LEMMA LockTypes ==
  ASSUME TypeOK, NEW t \in Threads
  PROVE  /\ mgr[t] \in Seq(Locks) /\ Len(mgr[t]) \in Nat
         /\ \A i \in 1..Len(mgr[t]) :
              /\ mgr[t][i] \in Locks
              /\ mgr[t][i].bucket \in Buckets
              /\ mgr[t][i].refs \in [Cells -> Nat]
              /\ mgr[t][i].total \in Nat \ {0}
<1>1. mgr[t] \in Seq(Locks) /\ Len(mgr[t]) \in Nat
  BY DEF TypeOK
<1>2. \A i \in 1..Len(mgr[t]) : mgr[t][i] \in Locks
  BY <1>1
<1> QED BY <1>1, <1>2 DEF Locks

(* find_write_lock finds the lock of every bucket the thread holds, and    *)
(* no other.                                                               *)
LEMMA FindWriteLock ==
  ASSUME TypeOK, LockByteOwned, NEW t \in Threads, NEW b \in Buckets, released[t] = 0
  PROVE  /\ bucket_write_locked(t, b) <=> Holds(t, b)
         /\ Holds(t, b) => /\ find_write_lock(t, b) \in 1..Len(mgr[t])
                           /\ mgr[t][find_write_lock(t, b)].bucket = b
<1> DEFINE found == {i \in 1..Len(mgr[t]) : mgr[t][i].bucket = b}
<1>1. mgr[t] \in Seq(Locks) /\ Len(mgr[t]) \in Nat
  BY DEF TypeOK
<1>2. Holds(t, b) <=> found # {}
  BY <1>1 DEF Holds
<1>3. CASE found = {}
  BY <1>2, <1>3 DEF find_write_lock, bucket_write_locked
<1>4. CASE found # {}
  <2>1. PICK i \in found : TRUE
    BY <1>4
  <2>2. \A j \in found : j = i
    BY <2>1, <1>1 DEF LockByteOwned
  <2>3. \E k \in found : \A j \in found : j <= k
    BY <2>1, <2>2, <1>1
  <2>4. find_write_lock(t, b) = CHOOSE k \in found : \A j \in found : j <= k
    BY <1>4 DEF find_write_lock
  <2>5. find_write_lock(t, b) \in found
    BY <2>3, <2>4
  <2> QED
    BY <2>5, <1>2, <1>1 DEF bucket_write_locked
<1> QED
  BY <1>3, <1>4

(* Taking a free lock byte and registering the lock keeps exclusion.       *)
LEMMA TakeLockExclusive ==
  ASSUME TypeOK, LockByteOwned, NEW t \in Threads, NEW b \in Buckets,
         released[t] = 0, word[b].lock = 0, TakeLock(t, b), released' = released
  PROVE  /\ LockByteOwned'
         /\ \A u \in Threads, x \in Buckets : Holds(u, x)' <=> Holds(u, x) \/ (u = t /\ x = b)
         /\ mgr' \in [Threads -> Seq(Locks)] /\ word' \in [Buckets -> Words]
         /\ Len(mgr'[t]) = Len(mgr[t]) + 1
<1> DEFINE new == [bucket |-> b, refs |-> [c \in Cells |-> 0], total |-> 1]
<1>1. /\ mgr[t] \in Seq(Locks) /\ new \in Locks
      /\ mgr' = [mgr EXCEPT ![t] = Append(mgr[t], new)]
      /\ mgr \in [Threads -> Seq(Locks)]
  <2>1. new \in Locks
    BY DEF Locks
  <2>2. mgr \in [Threads -> Seq(Locks)]
    BY DEF TypeOK
  <2>3. mgr' = [mgr EXCEPT ![t] = Append(mgr[t], new)]
    BY DEF TakeLock, add_lock
  <2> QED BY <2>1, <2>2, <2>3
<1>2. /\ mgr' \in [Threads -> Seq(Locks)]
      /\ mgr'[t] = Append(mgr[t], new)
      /\ \A u \in Threads \ {t} : mgr'[u] = mgr[u]
  BY <1>1
<1>3. /\ Len(mgr'[t]) = Len(mgr[t]) + 1
      /\ \A i \in 1..Len(mgr[t]) : mgr'[t][i] = mgr[t][i]
      /\ mgr'[t][Len(mgr[t]) + 1] = new
      /\ Len(mgr[t]) \in Nat
  BY <1>1, <1>2
<1>4. /\ word' \in [Buckets -> Words] /\ word'[b].lock = 1
      /\ \A x \in Buckets \ {b} : word'[x] = word[x]
  <2>1. word \in [Buckets -> Words] /\ word' = [word EXCEPT ![b].lock = 1]
    BY DEF TakeLock, TypeOK
  <2>2. word'[b] = [word[b] EXCEPT !.lock = 1] /\ word[b] \in Words
    BY <2>1
  <2>3. word'[b].lock = 1 /\ word'[b] \in Words
    BY <2>2 DEF Words
  <2> QED BY <2>1, <2>2, <2>3
<1>5. \A u \in Threads : ~Holds(u, b)
  BY DEF LockByteOwned
<1>6. \A u \in Threads, x \in Buckets : Holds(u, x)' <=> Holds(u, x) \/ (u = t /\ x = b)
  <2> TAKE u \in Threads, x \in Buckets
  <2>1. CASE u # t
    BY <2>1, <1>2 DEF Holds
  <2>2. CASE u = t
    <3>1. Holds(t, x) => Holds(t, x)'
      BY <1>3 DEF Holds
    <3>2. Holds(t, b)'
      BY <1>3 DEF Holds
    <3>3. Holds(t, x)' => Holds(t, x) \/ x = b
      BY SMTT(30), <1>3 DEF Holds
    <3> QED BY <3>1, <3>2, <3>3, <2>2
  <2> QED BY <2>1, <2>2
<1>7. \A i \in 1..Len(mgr[t]) : mgr[t][i].bucket # b
  BY <1>5, <1>3 DEF Holds
<1>8. LockByteOwned'
  <2> SUFFICES ASSUME NEW x \in Buckets
               PROVE /\ word'[x].lock = 1 <=> \E u \in Threads : Holds(u, x)'
                     /\ \A u, v \in Threads : Holds(u, x)' /\ Holds(v, x)' => u = v
                     /\ \A u \in Threads : \A i, j \in 1..Len(mgr'[u]) :
                          mgr'[u][i].bucket = x /\ mgr'[u][j].bucket = x => i = j
    BY DEF LockByteOwned
  <2>1. word'[x].lock = 1 <=> \E u \in Threads : Holds(u, x)'
    BY <1>4, <1>6 DEF LockByteOwned
  <2>2. \A u, v \in Threads : Holds(u, x)' /\ Holds(v, x)' => u = v
    BY <1>5, <1>6 DEF LockByteOwned
  <2>3. \A u \in Threads : \A i, j \in 1..Len(mgr'[u]) :
          mgr'[u][i].bucket = x /\ mgr'[u][j].bucket = x => i = j
    <3> SUFFICES ASSUME NEW u \in Threads, NEW i \in 1..Len(mgr'[u]), NEW j \in 1..Len(mgr'[u]),
                        mgr'[u][i].bucket = x, mgr'[u][j].bucket = x
                 PROVE  i = j
      OBVIOUS
    <3>1. CASE u # t
      BY SMTT(30), <3>1, <1>2 DEF LockByteOwned
    <3>2. CASE u = t /\ i \in 1..Len(mgr[t]) /\ j \in 1..Len(mgr[t])
      BY SMTT(30), <3>2, <1>3 DEF LockByteOwned
    <3>3. CASE u = t /\ (i = Len(mgr[t]) + 1 \/ j = Len(mgr[t]) + 1)
      <4>1. mgr'[t][Len(mgr[t]) + 1].bucket = b
        BY <1>3
      <4>2. x = b
        BY <4>1, <3>3
      <4>3. \A k \in 1..Len(mgr'[t]) : mgr'[t][k].bucket = b => k = Len(mgr[t]) + 1
        <5> SUFFICES ASSUME NEW k \in 1..Len(mgr'[t]), mgr'[t][k].bucket = b,
                            k \in 1..Len(mgr[t])
                     PROVE  FALSE
          BY <1>3
        <5> QED BY <1>3, <1>7
      <4> QED BY <4>2, <4>3, <3>3
    <3> QED BY <3>1, <3>2, <3>3, <1>3
  <2> QED BY <2>1, <2>2, <2>3
<1> QED
  BY <1>2, <1>3, <1>4, <1>6, <1>8

(* Changing only the counts of a lock leaves every holder as it was.       *)
LEMMA CountsKeepLocks ==
  ASSUME TypeOK, LockByteOwned, NEW t \in Threads, released' = released,
         mgr' \in [Threads -> Seq(Locks)],
         \A u \in Threads : /\ Len(mgr'[u]) = Len(mgr[u])
                            /\ \A i \in 1..Len(mgr[u]) : mgr'[u][i].bucket = mgr[u][i].bucket,
         \A b \in Buckets : word'[b].lock = word[b].lock
  PROVE  LockByteOwned' /\ \A u \in Threads, x \in Buckets : Holds(u, x)' <=> Holds(u, x)
<1>1. \A u \in Threads, x \in Buckets : Holds(u, x)' <=> Holds(u, x)
  BY DEF Holds
<1>2. \A u \in Threads : \A i, j \in 1..Len(mgr'[u]), b \in Buckets :
        mgr'[u][i].bucket = b /\ mgr'[u][j].bucket = b => i = j
  <2> TAKE u \in Threads
  <2> TAKE i, j \in 1..Len(mgr'[u]), b \in Buckets
  <2>1. /\ i \in 1..Len(mgr[u]) /\ j \in 1..Len(mgr[u])
        /\ mgr'[u][i].bucket = mgr[u][i].bucket /\ mgr'[u][j].bucket = mgr[u][j].bucket
    OBVIOUS
  <2> QED BY <2>1 DEF LockByteOwned
<1>3. \A b \in Buckets : /\ word'[b].lock = 1 <=> \E u \in Threads : Holds(u, b)'
                         /\ \A u, v \in Threads : Holds(u, b)' /\ Holds(v, b)' => u = v
  BY <1>1 DEF LockByteOwned
<1>4. LockByteOwned'
  <2> SUFFICES ASSUME NEW x \in Buckets
               PROVE /\ word'[x].lock = 1 <=> \E u \in Threads : Holds(u, x)'
                     /\ \A u, v \in Threads : Holds(u, x)' /\ Holds(v, x)' => u = v
                     /\ \A u \in Threads : \A i, j \in 1..Len(mgr'[u]) :
                          mgr'[u][i].bucket = x /\ mgr'[u][j].bucket = x => i = j
    BY DEF LockByteOwned
  <2> QED BY <1>2, <1>3
<1> QED BY <1>1, <1>4

(* Replacing one lock of one manager.                                      *)
LEMMA ManagerUpdate ==
  ASSUME NEW m \in [Threads -> Seq(Locks)], NEW t \in Threads, NEW i \in 1..Len(m[t]),
         NEW l \in Locks, NEW n, n = [m EXCEPT ![t][i] = l]
  PROVE  /\ n \in [Threads -> Seq(Locks)]
         /\ Len(n[t]) = Len(m[t]) /\ n[t][i] = l
         /\ \A j \in 1..Len(m[t]) : j # i => n[t][j] = m[t][j]
         /\ \A u \in Threads \ {t} : n[u] = m[u]
OBVIOUS

(* Dropping a reference keeps exclusion; only the last one frees a bucket. *)
LEMMA DropReferenceExclusive ==
  ASSUME TypeOK, LockByteOwned, NEW t \in Threads, NEW b \in Buckets, released[t] = 0,
         NEW i \in 1..Len(mgr[t]), mgr[t][i].bucket = b, NEW refs \in [Cells -> Nat],
         DropReference(t, i, refs), released' = released
  PROVE  /\ LockByteOwned'
         /\ mgr' \in [Threads -> Seq(Locks)] /\ word' \in [Buckets -> Words]
         /\ \A x \in Buckets : word'[x].seq = word[x].seq
         /\ mgr[t][i].total # 1 =>
              /\ \A u \in Threads, x \in Buckets : Holds(u, x)' <=> Holds(u, x)
              /\ mgr' = [mgr EXCEPT ![t][i] = WithCounts(@, @.total - 1, refs)]
         /\ mgr[t][i].total = 1 =>
              /\ \A u \in Threads, x \in Buckets :
                   Holds(u, x)' <=> Holds(u, x) /\ ~(u = t /\ x = b)
              /\ \A k \in 1..Len(mgr'[t]) : \E j \in 1..Len(mgr[t]) : mgr'[t][k] = mgr[t][j]
              /\ \A u \in Threads \ {t} : mgr'[u] = mgr[u]
<1>1. /\ mgr \in [Threads -> Seq(Locks)] /\ mgr[t] \in Seq(Locks) /\ Len(mgr[t]) \in Nat
      /\ mgr[t][i] \in Locks /\ word \in [Buckets -> Words] /\ released[t] = 0
  BY DEF TypeOK
<1>2. CASE mgr[t][i].total # 1
  <2>1. /\ mgr' = [mgr EXCEPT ![t][i] = WithCounts(@, @.total - 1, refs)]
        /\ word' = word
    BY <1>2 DEF DropReference
  <2> DEFINE l == WithCounts(mgr[t][i], mgr[t][i].total - 1, refs)
  <2>2. l \in Locks /\ l.bucket = mgr[t][i].bucket
    <3> DEFINE n == mgr[t][i].total - 1
    <3>1. n \in Nat \ {0}
      BY <1>1, <1>2 DEF Locks
    <3> HIDE DEF n
    <3>2. \A m \in Locks : WithCounts(m, n, refs) \in Locks /\ WithCounts(m, n, refs).bucket = m.bucket
      BY <3>1 DEF WithCounts, Locks
    <3> QED BY <3>2, <1>1 DEF n
  <2>3. mgr' = [mgr EXCEPT ![t][i] = l]
    BY <2>1
  <2> HIDE DEF l
  <2>4. /\ mgr' \in [Threads -> Seq(Locks)]
        /\ \A u \in Threads : /\ Len(mgr'[u]) = Len(mgr[u])
                              /\ \A j \in 1..Len(mgr[u]) : mgr'[u][j].bucket = mgr[u][j].bucket
    BY <2>2, <2>3, <1>1, ManagerUpdate
  <2>5. LockByteOwned' /\ \A u \in Threads, x \in Buckets : Holds(u, x)' <=> Holds(u, x)
    BY <2>1, <2>4, CountsKeepLocks
  <2> QED BY <2>1, <2>4, <2>5, <1>1, <1>2
<1>3. CASE mgr[t][i].total = 1
  <2> DEFINE n == Len(mgr[t])
             s == [j \in 1..(n - 1) |-> IF j = i THEN mgr[t][n] ELSE mgr[t][j]]
  <2>1. /\ mgr' = [mgr EXCEPT ![t] = s]
        /\ word' = [word EXCEPT ![b].lock = 0]
    BY <1>3 DEF DropReference, remove_lock
  <2>2. /\ s \in Seq(Locks) /\ Len(s) = n - 1 /\ n \in Nat \ {0}
        /\ \A j \in 1..(n - 1) : s[j] = IF j = i THEN mgr[t][n] ELSE mgr[t][j]
    BY <1>1
  <2>11. mgr' = [mgr EXCEPT ![t] = s]
    BY <2>1
  <2> HIDE DEF s
  <2>3. /\ mgr' \in [Threads -> Seq(Locks)] /\ mgr'[t] = s
        /\ \A u \in Threads \ {t} : mgr'[u] = mgr[u]
    BY <2>11, <2>2, <1>1
  <2>4. /\ word' \in [Buckets -> Words] /\ word'[b].lock = 0
        /\ \A x \in Buckets \ {b} : word'[x] = word[x]
        /\ \A x \in Buckets : word'[x].seq = word[x].seq
    <3>1. word'[b] = [word[b] EXCEPT !.lock = 0] /\ word[b] \in Words
      BY <2>1, <1>1
    <3>2. word'[b] \in Words /\ word'[b].lock = 0 /\ word'[b].seq = word[b].seq
      BY <3>1 DEF Words
    <3> QED BY <3>2, <2>1, <1>1
  <2>5. \A j \in 1..n : mgr[t][j].bucket = b => j = i
    BY DEF LockByteOwned
  <2>6. \A x \in Buckets : Holds(t, x)' <=> Holds(t, x) /\ x # b
    <3> TAKE x \in Buckets
    <3>1. Holds(t, x)' <=> \E j \in 1..(n - 1) : s[j].bucket = x
      <4>1. Holds(t, x)' <=> \E j \in 1..Len(mgr'[t]) : j > released'[t] /\ mgr'[t][j].bucket = x
        BY DEF Holds
      <4>2. released'[t] = 0 /\ mgr'[t] = s /\ Len(s) = n - 1
        BY <2>2, <2>3
      <4>3. Holds(t, x)' => \E j \in 1..(n - 1) : s[j].bucket = x
        BY <4>1, <4>2
      <4>4. ASSUME NEW j \in 1..(n - 1), s[j].bucket = x
            PROVE  j \in 1..Len(mgr'[t]) /\ j > released'[t] /\ mgr'[t][j].bucket = x
        BY <4>2, <4>4, <2>2
      <4> QED BY <4>1, <4>3, <4>4
    <3>2. Holds(t, x) <=> \E j \in 1..n : mgr[t][j].bucket = x
      BY <1>1 DEF Holds
    <3>3. ASSUME NEW j \in 1..(n - 1), s[j].bucket = x
          PROVE  x # b /\ \E k \in 1..n : mgr[t][k].bucket = x
      <4>1. CASE j = i
        <5>1. n \in 1..n /\ n # i /\ s[j] = mgr[t][n]
          BY <4>1, <2>2
        <5> QED BY <5>1, <3>3, <2>5
      <4>2. CASE j # i
        <5>1. j \in 1..n /\ s[j] = mgr[t][j]
          BY <4>2, <2>2
        <5> QED BY <5>1, <4>2, <3>3, <2>5
      <4> QED BY <4>1, <4>2
    <3>4. ASSUME NEW k \in 1..n, mgr[t][k].bucket = x, x # b
          PROVE  \E j \in 1..(n - 1) : s[j].bucket = x
      <4>1. CASE k = n
        <5>1. i \in 1..(n - 1) /\ s[i] = mgr[t][n]
          BY <4>1, <3>4, <2>2, <1>1
        <5> QED BY <5>1, <4>1, <3>4
      <4>2. CASE k # n
        <5>1. k \in 1..(n - 1) /\ k # i
          BY <4>2, <3>4, <1>1
        <5> QED BY <5>1, <3>4, <2>2
      <4> QED BY <4>1, <4>2
    <3> QED BY <3>1, <3>2, <3>3, <3>4
  <2>7. \A u \in Threads, x \in Buckets : Holds(u, x)' <=> Holds(u, x) /\ ~(u = t /\ x = b)
    <3> TAKE u \in Threads, x \in Buckets
    <3>1. CASE u = t
      BY <3>1, <2>6
    <3>2. CASE u # t
      BY <3>2, <2>3 DEF Holds
    <3> QED BY <3>1, <3>2
  <2>8. Holds(t, b)
    BY <1>1 DEF Holds
  <2>9. \A k \in 1..Len(mgr'[t]) : \E j \in 1..Len(mgr[t]) : mgr'[t][k] = mgr[t][j]
    BY SMTT(30), <2>2, <2>3, <1>1
  <2>10. LockByteOwned'
    <3> SUFFICES ASSUME NEW x \in Buckets
                 PROVE /\ word'[x].lock = 1 <=> \E u \in Threads : Holds(u, x)'
                       /\ \A u, v \in Threads : Holds(u, x)' /\ Holds(v, x)' => u = v
                       /\ \A u \in Threads : \A j, k \in 1..Len(mgr'[u]) :
                            mgr'[u][j].bucket = x /\ mgr'[u][k].bucket = x => j = k
      BY DEF LockByteOwned
    <3>1. word'[x].lock = 1 <=> \E u \in Threads : Holds(u, x)'
      BY <2>4, <2>7, <2>8 DEF LockByteOwned
    <3>2. \A u, v \in Threads : Holds(u, x)' /\ Holds(v, x)' => u = v
      BY <2>7 DEF LockByteOwned
    <3>3. \A j, k \in 1..(n - 1) : s[j].bucket = x /\ s[k].bucket = x => j = k
      <4> SUFFICES ASSUME NEW j \in 1..(n - 1), NEW k \in 1..(n - 1),
                          s[j].bucket = x, s[k].bucket = x
                   PROVE  j = k
        OBVIOUS
      <4>1. \A p, q \in 1..n : mgr[t][p].bucket = x /\ mgr[t][q].bucket = x => p = q
        BY DEF LockByteOwned
      <4>2. CASE j = i \/ k = i
        BY SMTT(30), <4>1, <4>2, <2>2, <1>1
      <4>3. CASE j # i /\ k # i
        BY <4>1, <4>3, <2>2, <1>1
      <4> QED BY <4>2, <4>3
    <3>4. \A u \in Threads : \A j, k \in 1..Len(mgr'[u]) :
            mgr'[u][j].bucket = x /\ mgr'[u][k].bucket = x => j = k
      <4> TAKE u \in Threads
      <4>1. CASE u = t
        BY <4>1, <3>3, <2>2, <2>3
      <4>2. CASE u # t
        BY <4>2, <2>3 DEF LockByteOwned
      <4> QED BY <4>1, <4>2
    <3> QED BY <3>1, <3>2, <3>4
  <2> QED BY <2>3, <2>4, <2>7, <2>9, <2>10, <1>3
<1> QED BY <1>2, <1>3

-----------------------------------------------------------------------------
(* Steps that do not touch the lock managers.                              *)

InCall == {"upgrade_bucket", "upgrade_entry", "release"}

(* A step of t outside of the lock calls that leaves the managers and the  *)
(* lock bytes alone preserves what is said of locks.                       *)
LEMMA FrameLocks ==
  ASSUME LockInv, TypeOK', NEW t \in Threads,
         UNCHANGED <<mgr, released, bucket_refs>>,
         \A b \in Buckets : word'[b].lock = word[b].lock,
         \A u \in Threads \ {t} : pc'[u] = pc[u] /\ copy'[u] = copy[u] /\ rlock'[u] = rlock[u],
         pc[t] \notin InCall, pc'[t] \notin InCall,
         Reading(t)' => copy'[t] # None
  PROVE  LockInv'
<1>1. \A u \in Threads, x \in Buckets : Holds(u, x)' <=> Holds(u, x)
  BY DEF Holds
<1>2. ReleasedInv'
  BY DEF LockInv, ReleasedInv, InCall
<1>3. LockByteOwned'
  <2>1. mgr' \in [Threads -> Seq(Locks)] /\ TypeOK /\ LockByteOwned
    BY DEF LockInv, TypeOK
  <2> QED BY <2>1, CountsKeepLocks
<1>4. UpgradeInv'
  <2> SUFFICES ASSUME NEW u \in Threads
               PROVE  UpgradeOK(u)'
    BY DEF UpgradeInv
  <2>1. CASE u = t
    BY <2>1 DEF InCall, UpgradeOK
  <2>2. CASE u # t
    <3>1. pc'[u] = pc[u] /\ copy'[u] = copy[u] /\ rlock'[u] = rlock[u]
      BY <2>2
    <3>2. UpgradeOK(u) /\ TypeOK
      BY DEF LockInv, UpgradeInv
    <3>3. pc[u] = "upgrade_bucket" => rlock[u] \in ReadLocks /\ rlock[u].bucket \in Buckets
      BY <3>2 DEF UpgradeOK, TypeOK, ReadLocks
    <3>4. pc[u] = "upgrade_entry" => copy[u] \in Copies /\ copy[u].bucket \in Buckets
      BY <3>2 DEF UpgradeOK, TypeOK, Copies
    <3> QED BY <3>1, <3>2, <3>3, <3>4, <1>1 DEF UpgradeOK, Reading
  <2> QED BY <2>1, <2>2
<1>5. RefcountsBalance'
  <2>1. \A u \in Threads, x \in Buckets : pc'[u] # "release" =>
          pc[u] # "release" /\ PendingRef(u, x)' = PendingRef(u, x)
    BY DEF PendingRef, InCall
  <2>2. \A u \in Threads : \A i \in 1..Len(mgr[u]) : mgr[u][i].bucket \in Buckets
    BY LockTypes DEF LockInv
  <2> SUFFICES ASSUME NEW u \in Threads, pc'[u] # "release"
               PROVE  /\ \A i \in 1..Len(mgr'[u]) :
                           mgr'[u][i].total = bucket_refs'[u][mgr'[u][i].bucket]
                              + PendingRef(u, mgr[u][i].bucket)' + EntryRefs(mgr'[u][i].refs)
                      /\ \A b \in Buckets : bucket_refs'[u][b] > 0 => Holds(u, b)'
    BY DEF RefcountsBalance, Balanced, EntryRefs, Cells
  <2> QED BY <2>1, <2>2, <1>1 DEF LockInv, RefcountsBalance, Balanced
<1> QED
  BY <1>2, <1>3, <1>4, <1>5 DEF LockInv

(* A step of t that changes neither cells, sequence numbers nor what any   *)
(* thread has read, and no lock of another thread, preserves the seqlock   *)
(* invariants.                                                             *)
Quiet == {"idle"} \cup InCall

LEMMA FrameSeqlock ==
  ASSUME TypeOK, SeqlockInv, TypeOK', NEW t \in Threads,
         \A b \in Buckets : word'[b].seq = word[b].seq,
         UNCHANGED <<half1, half2, clock, copy, rlock, target>>,
         pc[t] \in Quiet, pc'[t] \in Quiet, \A u \in Threads \ {t} : pc'[u] = pc[u],
         \A u \in Threads \ {t}, b \in Buckets : Holds(u, b) => Holds(u, b)'
  PROVE  SeqlockInv'
<1>1. \A u \in Threads : /\ Writing(u)' <=> Writing(u)
                         /\ MidWrite(u)' <=> MidWrite(u)
                         /\ pc'[u] = "write3" <=> pc[u] = "write3"
                         /\ Reading(u)' <=> Reading(u)
                         /\ u # t => pc'[u] = pc[u]
                         /\ Writing(u) \/ Reading(u) => u # t
  BY DEF Writing, MidWrite, Reading, Quiet, InCall
<1>2. \A u \in Threads : /\ target[u] # None => target[u].bucket \in Buckets
                         /\ copy[u] # None => copy[u].bucket \in Buckets
                         /\ rlock[u] # None => rlock[u].bucket \in Buckets
  BY DEF TypeOK, Targets, Copies, ReadLocks
<1>3. WriterInv'
  BY <1>1, <1>2 DEF SeqlockInv, WriterInv, WriterOK
<1>4. SeqInv'
  BY <1>1 DEF SeqlockInv, SeqInv
<1>5. HalvesInv'
  BY <1>1 DEF SeqlockInv, HalvesInv
<1>6. ReaderInv'
  <2>1. \A u \in Threads : pc[u] \in {"retry", "read1", "read2"} \/ pc'[u] \in {"retry", "read1", "read2"}
                           => pc'[u] = pc[u]
    BY DEF Quiet, InCall
  <2> QED BY <2>1, <1>2 DEF SeqlockInv, ReaderInv, CopyOK, CopyValid
<1>7. ReadLockInv'
  BY <1>2 DEF SeqlockInv, ReadLockInv, ReadLockValid
<1>8. NoTornRead'
  BY <1>1 DEF SeqlockInv, NoTornRead
<1> QED
  BY <1>3, <1>4, <1>5, <1>6, <1>7, <1>8 DEF SeqlockInv

-----------------------------------------------------------------------------
(* read_entry.                                                             *)

(* A step of read_entry changes only the reader's copy, so that only what  *)
(* is said of this copy has to be shown again.                             *)
LEMMA FrameReader ==
  ASSUME IInv, TypeOK', NEW t \in Threads,
         UNCHANGED <<word, half1, half2, clock, mgr, released, rlock, target, bucket_refs>>,
         \A u \in Threads \ {t} : pc'[u] = pc[u] /\ copy'[u] = copy[u],
         pc[t] \in {"idle", "retry", "read1", "read2", "read3"},
         pc'[t] \in {"idle", "retry", "read1", "read2", "read3"},
         copy'[t] # None, CopyOK(t)',
         pc'[t] = "idle" => copy'[t].v1 = copy'[t].v2
  PROVE  IInv'
<1>1. LockInv'
  <2>1. pc[t] \notin InCall /\ pc'[t] \notin InCall
    BY DEF InCall
  <2> QED BY <2>1, FrameLocks DEF IInv
<1>2. \A u \in Threads : /\ Writing(u)' <=> Writing(u)
                         /\ MidWrite(u)' <=> MidWrite(u)
                         /\ pc'[u] = "write3" <=> pc[u] = "write3"
                         /\ u # t => (Reading(u)' <=> Reading(u))
                         /\ \A x \in Buckets : Holds(u, x)' <=> Holds(u, x)
  BY DEF Writing, MidWrite, Reading, Holds
<1>3. \A u \in Threads : target[u] # None => target[u].bucket \in Buckets
  BY DEF IInv, LockInv, TypeOK, Targets
<1>4. WriterInv'
  BY <1>2, <1>3 DEF IInv, SeqlockInv, WriterInv, WriterOK
<1>5. SeqInv' /\ HalvesInv'
  BY <1>2 DEF IInv, SeqlockInv, SeqInv, HalvesInv
<1>6. ReaderInv'
  <2>1. \A u \in Threads \ {t} : CopyOK(u)' <=> CopyOK(u)
    BY DEF CopyOK, CopyValid
  <2> QED BY <2>1 DEF IInv, SeqlockInv, ReaderInv
<1>7. ReadLockInv'
  BY DEF IInv, SeqlockInv, ReadLockInv, ReadLockValid
<1>8. NoTornRead'
  <2>1. ~Reading(t)' => pc'[t] = "idle"
    BY DEF Reading
  <2> QED BY <2>1, <1>2 DEF IInv, SeqlockInv, NoTornRead
<1> QED BY <1>1, <1>4, <1>5, <1>6, <1>7, <1>8 DEF IInv, SeqlockInv

LEMMA ReadSeq1Step ==
  ASSUME IInv, NEW t \in Threads, NEW b \in Buckets, NEW c \in Cells,
         pc[t] \in {"idle", "retry"}, ReadSeq1(t, b, c)
  PROVE  IInv'
<1>1. /\ TypeOK
      /\ UNCHANGED <<word, half1, half2, clock, mgr, released, rlock, target, bucket_refs>>
      /\ \A u \in Threads \ {t} : pc'[u] = pc[u] /\ copy'[u] = copy[u]
      /\ pc'[t] = IF Odd(word[b].seq) THEN "retry" ELSE "read1"
      /\ copy'[t] = [bucket |-> b, cell |-> c, word |-> word[b], v1 |-> 0, v2 |-> 0]
  BY DEF IInv, LockInv, TypeOK, ReadSeq1, Goto, cells
<1>2. copy'[t] \in Copies
  BY <1>1, SeqModAssumption DEF TypeOK, Copies
<1>3. TypeOK'
  BY <1>1, <1>2 DEF TypeOK, Labels, ReadSeq1, Goto
<1>4. word[b].seq \in Nat
  BY <1>1, SeqModAssumption DEF TypeOK, Words
<1>5. CopyOK(t)'
  BY <1>1, <1>4 DEF CopyOK
<1> QED BY <1>1, <1>2, <1>3, <1>5, NoneAssumption, FrameReader

(* The remaining loads of read_entry.                                      *)
LEMMA ReadStepInv ==
  ASSUME IInv, NEW t \in Threads, ReadStep(t)
  PROVE  IInv'
<1>1. TypeOK /\ Reading(t)
  BY DEF IInv, LockInv, ReadStep, ReadRetry, ReadPart1, ReadPart2, ReadSeq2, Reading
<1>2. copy[t] # None /\ copy[t] \in Copies
  BY <1>1 DEF IInv, LockInv, UpgradeInv, UpgradeOK, TypeOK
<1>3. /\ copy[t].bucket \in Buckets /\ copy[t].cell \in Cells
      /\ copy[t].word \in Words /\ copy[t].v1 \in 0..MaxWrites /\ copy[t].v2 \in 0..MaxWrites
      /\ copy[t].word.seq \in Nat
  BY <1>2, SeqModAssumption DEF Copies, Words
<1>4. CopyOK(t)
  BY <1>2 DEF IInv, SeqlockInv, ReaderInv
<1> DEFINE b == copy[t].bucket
           c == copy[t].cell
<1>5. half1[b][c] \in 0..MaxWrites /\ half2[b][c] \in 0..MaxWrites
  BY <1>1, <1>3 DEF TypeOK, Contents
<1>6. CASE ReadRetry(t)
  BY <1>3, <1>6, ReadSeq1Step DEF ReadRetry
<1>7. CASE ReadPart1(t)
  <2>1. /\ UNCHANGED <<word, half1, half2, clock, mgr, released, rlock, target, bucket_refs>>
        /\ \A u \in Threads \ {t} : pc'[u] = pc[u] /\ copy'[u] = copy[u]
        /\ pc[t] = "read1" /\ pc'[t] = "read2"
        /\ copy'[t] = [copy[t] EXCEPT !.v1 = half1[b][c]]
    BY <1>1, <1>7 DEF TypeOK, ReadPart1, Goto, cells
  <2>2. /\ copy'[t] \in Copies
        /\ copy'[t].bucket = b /\ copy'[t].cell = c /\ copy'[t].word = copy[t].word
        /\ copy'[t].v1 = half1[b][c]
    BY <1>2, <1>5, <2>1 DEF Copies
  <2>3. TypeOK'
    BY <1>1, <1>7, <2>1, <2>2 DEF TypeOK, Labels, ReadPart1, Goto
  <2>4. CopyOK(t)'
    BY <1>4, <2>1, <2>2 DEF CopyOK, CopyValid
  <2> QED BY <2>1, <2>2, <2>3, <2>4, NoneAssumption, FrameReader
<1>8. CASE ReadPart2(t)
  <2>1. /\ UNCHANGED <<word, half1, half2, clock, mgr, released, rlock, target, bucket_refs>>
        /\ \A u \in Threads \ {t} : pc'[u] = pc[u] /\ copy'[u] = copy[u]
        /\ pc[t] = "read2" /\ pc'[t] = "read3"
        /\ copy'[t] = [copy[t] EXCEPT !.v2 = half2[b][c]]
    BY <1>1, <1>8 DEF TypeOK, ReadPart2, Goto, cells
  <2>2. /\ copy'[t] \in Copies
        /\ copy'[t].bucket = b /\ copy'[t].cell = c /\ copy'[t].word = copy[t].word
        /\ copy'[t].v1 = copy[t].v1 /\ copy'[t].v2 = half2[b][c]
    BY <1>2, <1>5, <2>1 DEF Copies
  <2>3. TypeOK'
    BY <1>1, <1>8, <2>1, <2>2 DEF TypeOK, Labels, ReadPart2, Goto
  <2>4. CopyOK(t)'
    BY <1>4, <2>1, <2>2 DEF CopyOK, CopyValid
  <2> QED BY <2>1, <2>2, <2>3, <2>4, NoneAssumption, FrameReader
<1>9. CASE ReadSeq2(t)
  <2>1. /\ UNCHANGED <<word, half1, half2, clock, mgr, released, rlock, target, bucket_refs, copy>>
        /\ \A u \in Threads \ {t} : pc'[u] = pc[u]
        /\ pc[t] = "read3" /\ pc'[t] \in {"idle", "retry"}
        /\ pc'[t] = "idle" => word[b] = copy[t].word
    BY <1>1, <1>9 DEF TypeOK, ReadSeq2, Goto, cells
  <2>2. TypeOK'
    BY <1>1, <1>9 DEF TypeOK, Labels, ReadSeq2, Goto, cells
  <2>3. CopyOK(t)'
    BY <1>4, <2>1 DEF CopyOK, CopyValid
  <2>4. pc'[t] = "idle" => copy[t].v1 = copy[t].v2
    <3> SUFFICES ASSUME word[b].seq = copy[t].word.seq
                 PROVE  copy[t].v1 = copy[t].v2
      BY <2>1
    <3>1. copy[t].v1 = half1[b][c] /\ copy[t].v2 = half2[b][c] /\ ~Odd(word[b].seq)
      BY <1>4, <2>1 DEF CopyOK, CopyValid
    <3>2. ASSUME NEW u \in Threads, pc[u] = "write3", target[u].bucket = b
          PROVE  FALSE
      <4>1. /\ ~Odd(target[u].word.seq) /\ word[b].seq = target[u].word.seq + 1
            /\ target[u] # None
        BY <3>2 DEF IInv, SeqlockInv, WriterInv, WriterOK, Writing, MidWrite
      <4>2. target[u].word.seq \in Nat
        BY <1>1, <4>1, SeqModAssumption DEF TypeOK, Targets, Words
      <4> QED BY <3>1, <4>1, <4>2 DEF Odd
    <3> QED BY <1>3, <3>1, <3>2 DEF IInv, SeqlockInv, HalvesInv
  <2> QED BY <1>2, <2>1, <2>2, <2>3, <2>4, FrameReader
<1> QED
  BY <1>6, <1>7, <1>8, <1>9 DEF ReadStep

-----------------------------------------------------------------------------
(* write_entry.                                                            *)

WriteLabels == {"idle", "write1", "write2", "write3", "write4"}

(* Raising a sequence number ends the validity of every copy and read lock *)
(* of its bucket.                                                          *)
LEMMA SeqRaised ==
  ASSUME IInv, TypeOK', NEW t \in Threads, NEW b \in Buckets,
         word'[b].lock = word[b].lock, word'[b].seq > word[b].seq,
         \A x \in Buckets \ {b} : word'[x] = word[x],
         UNCHANGED <<half1, half2, mgr, released, copy, rlock, bucket_refs>>,
         \A u \in Threads \ {t} : pc'[u] = pc[u],
         pc[t] \in WriteLabels, pc'[t] \in WriteLabels
  PROVE  LockInv' /\ ReaderInv' /\ ReadLockInv' /\ NoTornRead'
<1>1. /\ TypeOK
      /\ \A x \in Buckets : word[x].seq \in Nat /\ word'[x].seq \in Nat
      /\ \A u \in Threads : copy[u] # None => copy[u].word.seq \in Nat /\ copy[u].bucket \in Buckets
      /\ \A u \in Threads : rlock[u] # None => rlock[u].seq \in Nat /\ rlock[u].bucket \in Buckets
  <2>1. TypeOK
    BY DEF IInv, LockInv
  <2>2. \A x \in Buckets : word[x] \in Words /\ word'[x] \in Words
    BY <2>1 DEF TypeOK
  <2>3. \A w \in Words : w.seq \in Nat
    BY SeqModAssumption DEF Words
  <2>4. \A u \in Threads : copy[u] # None => copy[u].word \in Words /\ copy[u].bucket \in Buckets
    BY <2>1 DEF TypeOK, Copies
  <2>5. \A u \in Threads : rlock[u] # None => rlock[u].seq \in Nat /\ rlock[u].bucket \in Buckets
    BY <2>1, SeqModAssumption DEF TypeOK, ReadLocks
  <2> QED BY <2>1, <2>2, <2>3, <2>4, <2>5
<1>2. \A x \in Buckets : word'[x].seq >= word[x].seq /\ word'[x].lock = word[x].lock
  <2> TAKE x \in Buckets
  <2>1. CASE x = b
    BY <2>1, <1>1
  <2>2. CASE x # b
    BY <2>2, <1>1
  <2> QED BY <2>1, <2>2
<1>3. \A u \in Threads : /\ Reading(u)' <=> Reading(u)
                         /\ \A l \in {"retry", "read1", "read2"} : pc'[u] = l <=> pc[u] = l
  BY DEF WriteLabels, Reading
<1>4. LockInv'
  <2>1. pc[t] \notin InCall /\ pc'[t] \notin InCall /\ ~Reading(t)'
    BY DEF InCall, WriteLabels, Reading
  <2> QED BY <1>2, <2>1, FrameLocks DEF IInv
<1>5. ReaderInv'
  <2> SUFFICES ASSUME NEW u \in Threads, copy[u] # None
               PROVE  CopyOK(u)'
    BY DEF ReaderInv
  <2>1. CopyOK(u)
    BY DEF IInv, SeqlockInv, ReaderInv
  <2>2. CASE copy[u].bucket = b
    BY <1>1, <1>3, <2>1, <2>2 DEF CopyOK, CopyValid
  <2>3. CASE copy[u].bucket # b
    BY <1>1, <1>3, <2>1, <2>3 DEF CopyOK, CopyValid
  <2> QED BY <2>2, <2>3
<1>6. ReadLockInv'
  BY <1>1, <1>2 DEF IInv, SeqlockInv, ReadLockInv, ReadLockValid
<1>7. NoTornRead'
  BY <1>3 DEF IInv, SeqlockInv, NoTornRead
<1> QED BY <1>4, <1>5, <1>6, <1>7

(* Cells change only under an odd sequence number, when no copy and no     *)
(* read lock over an even number is valid.                                 *)
LEMMA CellWritten ==
  ASSUME IInv, TypeOK', NEW t \in Threads, NEW b \in Buckets, Odd(word[b].seq),
         \A x \in Buckets \ {b} : half1'[x] = half1[x] /\ half2'[x] = half2[x],
         UNCHANGED <<word, mgr, released, copy, rlock, bucket_refs>>,
         \A u \in Threads \ {t} : pc'[u] = pc[u],
         pc[t] \in WriteLabels, pc'[t] \in WriteLabels
  PROVE  LockInv' /\ ReaderInv' /\ ReadLockInv' /\ NoTornRead'
<1>1. /\ TypeOK
      /\ \A u \in Threads : copy[u] # None => copy[u].bucket \in Buckets
      /\ \A u \in Threads : rlock[u] # None => rlock[u].bucket \in Buckets
  BY DEF IInv, LockInv, TypeOK, Copies, ReadLocks
<1>2. \A u \in Threads : /\ Reading(u)' <=> Reading(u)
                         /\ \A l \in {"retry", "read1", "read2"} : pc'[u] = l <=> pc[u] = l
  BY DEF WriteLabels, Reading
<1>3. LockInv'
  <2>1. pc[t] \notin InCall /\ pc'[t] \notin InCall /\ ~Reading(t)'
    BY DEF InCall, WriteLabels, Reading
  <2> QED BY <2>1, FrameLocks DEF IInv
<1>4. ReaderInv'
  <2> SUFFICES ASSUME NEW u \in Threads, copy[u] # None
               PROVE  CopyOK(u)'
    BY DEF ReaderInv
  <2>1. CopyOK(u)
    BY DEF IInv, SeqlockInv, ReaderInv
  <2>2. CASE copy[u].bucket = b
    BY <1>1, <1>2, <2>1, <2>2 DEF CopyOK, CopyValid
  <2>3. CASE copy[u].bucket # b
    BY <1>1, <1>2, <2>1, <2>3 DEF CopyOK, CopyValid
  <2> QED BY <2>2, <2>3
<1>5. ReadLockInv'
  BY <1>1 DEF IInv, SeqlockInv, ReadLockInv, ReadLockValid
<1>6. NoTornRead'
  BY <1>2 DEF IInv, SeqlockInv, NoTornRead
<1> QED BY <1>3, <1>4, <1>5, <1>6

(* The counter does not wrap: raising it modulo SeqMod is adding.          *)
LEMMA NoWrap ==
  ASSUME NEW x \in Nat, NEW m \in Nat, x < m
  PROVE  x % m = x
OBVIOUS

LEMMA WriterFacts ==
  ASSUME IInv, NEW t \in Threads, Writing(t)
  PROVE  /\ TypeOK /\ target[t] # None /\ target[t] \in Targets
         /\ target[t].bucket \in Buckets /\ target[t].cell \in Cells
         /\ target[t].value \in 0..MaxWrites
         /\ target[t].word \in Words /\ target[t].word.seq \in Nat
         /\ word[target[t].bucket].lock = 1
         /\ word[target[t].bucket].seq \in Nat
         /\ \A u \in Threads \ {t} : Writing(u) => target[u].bucket # target[t].bucket
         /\ \A n \in {1, 2} : /\ RaisedWord(t, n) \in Words
                              /\ RaisedWord(t, n).lock = 1
                              /\ RaisedWord(t, n).seq = target[t].word.seq + n
<1>1. /\ TypeOK /\ target[t] # None /\ target[t] \in Targets
      /\ Holds(t, target[t].bucket) /\ target[t].word.lock = 1
      /\ target[t].word.seq + 2 <= 2 * clock /\ clock \in 0..MaxWrites
  BY DEF IInv, LockInv, SeqlockInv, WriterInv, WriterOK, TypeOK
<1>2. /\ target[t].bucket \in Buckets /\ target[t].cell \in Cells
      /\ target[t].value \in 0..MaxWrites
      /\ target[t].word \in Words /\ target[t].word.seq \in Nat
  BY <1>1, SeqModAssumption DEF Targets, Words
<1>3. word[target[t].bucket].lock = 1 /\ word[target[t].bucket].seq \in Nat
  BY <1>1, <1>2, SeqModAssumption DEF IInv, LockInv, LockByteOwned, TypeOK, Words
<1>4. \A u \in Threads \ {t} : Writing(u) => target[u].bucket # target[t].bucket
  BY <1>1, <1>2 DEF IInv, LockInv, SeqlockInv, WriterInv, WriterOK, LockByteOwned
<1>5. ASSUME NEW n \in {1, 2}
      PROVE  /\ RaisedWord(t, n) \in Words
             /\ RaisedWord(t, n).lock = 1
             /\ RaisedWord(t, n).seq = target[t].word.seq + n
  <2>1. target[t].word.seq + n \in Nat /\ target[t].word.seq + n < SeqMod /\ SeqMod \in Nat
    BY <1>1, <1>2, SeqModAssumption
  <2>2. (target[t].word.seq + n) % SeqMod = target[t].word.seq + n
    BY <2>1, NoWrap
  <2>3. RaisedWord(t, n) = [target[t].word EXCEPT !.seq = target[t].word.seq + n]
    BY <2>2 DEF RaisedWord
  <2> QED BY <2>1, <2>3, <1>1, <1>2 DEF Words
<1> QED BY <1>1, <1>2, <1>3, <1>4, <1>5

(* write_entry reads the counter: the bucket is held and even.             *)
LEMMA WriteEntryStep ==
  ASSUME IInv, NEW t \in Threads, NEW b \in Buckets, NEW c \in Cells, write_entry(t, b, c)
  PROVE  IInv'
<1>1. /\ TypeOK /\ pc[t] = "idle" /\ pc'[t] = "write1" /\ clock' = clock + 1 /\ clock < MaxWrites
      /\ UNCHANGED <<word, half1, half2, mgr, released, copy, rlock, bucket_refs>>
      /\ \A u \in Threads \ {t} : pc'[u] = pc[u] /\ target'[u] = target[u]
      /\ target'[t] = [bucket |-> b, cell |-> c, word |-> word[b], value |-> clock + 1]
      /\ bucket_write_locked(t, b)
  BY DEF IInv, LockInv, TypeOK, write_entry, Goto, cells
<1>2. clock \in Nat /\ clock' \in 0..MaxWrites /\ word[b] \in Words /\ word[b].seq \in Nat
  BY <1>1, SeqModAssumption DEF TypeOK, Words
<1>3. target'[t] \in Targets /\ target'[t] # None
  BY <1>1, <1>2, NoneAssumption DEF Targets
<1>4. TypeOK'
  BY <1>1, <1>2, <1>3 DEF TypeOK, Labels, write_entry, Goto
<1>5. Holds(t, b)
  BY <1>1, FindWriteLock DEF IInv, LockInv, ReleasedInv
<1>6. word[b].lock = 1 /\ \A u \in Threads : Holds(u, b) => u = t
  BY <1>5 DEF IInv, LockInv, LockByteOwned
<1>7. \A u \in Threads : Writing(u) => u # t /\ target[u].bucket # b
  BY <1>1, <1>6 DEF IInv, SeqlockInv, WriterInv, WriterOK, Writing
<1>8. ~Odd(word[b].seq)
  BY <1>7 DEF IInv, SeqlockInv, SeqInv, Writing, MidWrite
<1>9. LockInv'
  <2>1. pc[t] \notin InCall /\ pc'[t] \notin InCall /\ ~Reading(t)'
    BY <1>1 DEF InCall, Reading
  <2> QED BY <1>1, <1>4, <2>1, FrameLocks DEF IInv
<1>10. \A u \in Threads : /\ u # t => (Writing(u)' <=> Writing(u))
                          /\ MidWrite(u)' <=> MidWrite(u)
                          /\ pc'[u] = "write3" <=> pc[u] = "write3"
                          /\ Reading(u)' <=> Reading(u)
                          /\ \A l \in {"retry", "read1", "read2"} : pc'[u] = l <=> pc[u] = l
                          /\ \A x \in Buckets : Holds(u, x)' <=> Holds(u, x)
  BY <1>1 DEF Writing, MidWrite, Reading, Holds
<1>11. WriterInv'
  <2> SUFFICES ASSUME NEW u \in Threads, Writing(u)'
               PROVE  WriterOK(u)'
    BY DEF WriterInv
  <2>1. CASE u = t
    <3>1. word[b].seq + 2 <= 2 * clock'
      BY <1>1, <1>2 DEF IInv, SeqlockInv, SeqInv
    <3>2. ~MidWrite(t)'
      BY <1>1 DEF MidWrite
    <3> QED BY <2>1, <3>1, <3>2, <1>1, <1>3, <1>5, <1>6, <1>8, <1>10 DEF WriterOK
  <2>2. CASE u # t
    <3>1. Writing(u)
      BY <2>2, <1>10
    <3>2. target[u].bucket \in Buckets /\ target[u].word.seq \in Nat
      BY <3>1, WriterFacts
    <3> QED BY <2>2, <3>1, <3>2, <1>1, <1>2, <1>10 DEF IInv, SeqlockInv, WriterInv, WriterOK
  <2> QED BY <2>1, <2>2
<1>12. SeqInv'
  <2> SUFFICES ASSUME NEW x \in Buckets
               PROVE  /\ word[x].seq <= 2 * clock'
                      /\ Odd(word[x].seq) => \E u \in Threads : MidWrite(u)' /\ target'[u].bucket = x
    BY <1>1 DEF SeqInv
  <2>1. word[x].seq <= 2 * clock /\ word[x].seq \in Nat
    BY <1>1, SeqModAssumption DEF IInv, SeqlockInv, SeqInv, TypeOK, Words
  <2>2. ASSUME Odd(word[x].seq)
        PROVE  \E u \in Threads : MidWrite(u)' /\ target'[u].bucket = x
    <3>1. PICK u \in Threads : MidWrite(u) /\ target[u].bucket = x
      BY <2>2 DEF IInv, SeqlockInv, SeqInv
    <3>2. u # t
      BY <3>1, <1>1 DEF MidWrite
    <3> QED BY <3>1, <3>2, <1>1, <1>10
  <2> QED BY <2>1, <2>2, <1>1, <1>2
<1>13. HalvesInv'
  <2> SUFFICES ASSUME NEW x \in Buckets, NEW y \in Cells, half1[x][y] # half2[x][y]
               PROVE  \E u \in Threads : pc'[u] = "write3" /\ target'[u].bucket = x /\ target'[u].cell = y
    BY <1>1 DEF HalvesInv
  <2>1. PICK u \in Threads : pc[u] = "write3" /\ target[u].bucket = x /\ target[u].cell = y
    BY DEF IInv, SeqlockInv, HalvesInv
  <2> QED BY <2>1, <1>1
<1>14. ReaderInv'
  BY <1>1, <1>10 DEF IInv, SeqlockInv, ReaderInv, CopyOK, CopyValid
<1>15. ReadLockInv' /\ NoTornRead'
  BY <1>1, <1>10 DEF IInv, SeqlockInv, ReadLockInv, ReadLockValid, NoTornRead
<1> QED BY <1>9, <1>11, <1>12, <1>13, <1>14, <1>15 DEF IInv, SeqlockInv

(* The four stores of write_entry.                                         *)
LEMMA WriteStepInv ==
  ASSUME IInv, NEW t \in Threads, WriteStep(t)
  PROVE  IInv'
<1> DEFINE b == target[t].bucket
           c == target[t].cell
<1>1. Writing(t)
  BY DEF WriteStep, WriteSeqOdd, WritePart1, WritePart2, WriteSeqEven, Writing
<1>2. /\ TypeOK /\ target[t] # None /\ target[t] \in Targets
      /\ b \in Buckets /\ c \in Cells /\ target[t].value \in 0..MaxWrites
      /\ target[t].word \in Words /\ target[t].word.seq \in Nat
      /\ word[b].lock = 1 /\ word[b].seq \in Nat
      /\ \A u \in Threads \ {t} : Writing(u) => target[u].bucket # b
  BY <1>1, WriterFacts
<1>3. \A n \in {1, 2} : /\ RaisedWord(t, n) \in Words
                        /\ RaisedWord(t, n).lock = 1
                        /\ RaisedWord(t, n).seq = target[t].word.seq + n
  BY <1>1, WriterFacts
<1>4. WriterOK(t)
  BY <1>1 DEF IInv, SeqlockInv, WriterInv
<1> HIDE DEF b, c
<1>5. CASE WriteSeqOdd(t)
  <2>1. /\ pc[t] = "write1" /\ pc'[t] = "write2"
        /\ word' = [word EXCEPT ![b] = RaisedWord(t, 1)]
        /\ UNCHANGED <<half1, half2, clock, mgr, released, copy, rlock, target, bucket_refs>>
        /\ \A u \in Threads \ {t} : pc'[u] = pc[u]
    BY <1>2, <1>5 DEF WriteSeqOdd, Goto, cells, TypeOK, b
  <2>2. word'[b] = RaisedWord(t, 1) /\ \A x \in Buckets \ {b} : word'[x] = word[x]
    BY <1>2, <2>1 DEF TypeOK
  <2>3. TypeOK'
    <3>1. word' \in [Buckets -> Words]
      BY <1>2, <1>3, <2>1 DEF TypeOK
    <3>2. pc' \in [Threads -> Labels]
      BY <1>2, <1>5 DEF TypeOK, Labels, WriteSeqOdd, Goto
    <3> QED BY <1>2, <2>1, <3>1, <3>2 DEF TypeOK
  <2>4. word[b].seq = target[t].word.seq /\ word'[b].seq = target[t].word.seq + 1 /\ word'[b].lock = 1
    BY <1>3, <1>4, <2>1, <2>2 DEF WriterOK, MidWrite, b
  <2>5. LockInv' /\ ReaderInv' /\ ReadLockInv' /\ NoTornRead'
    BY <1>2, <2>1, <2>2, <2>3, <2>4, SeqRaised DEF WriteLabels
  <2>6. \A u \in Threads : /\ Writing(u)' <=> Writing(u)
                           /\ u # t => (MidWrite(u)' <=> MidWrite(u))
                           /\ pc'[u] = "write3" <=> pc[u] = "write3"
                           /\ \A x \in Buckets : Holds(u, x)' <=> Holds(u, x)
    BY <2>1 DEF Writing, MidWrite, Holds
  <2>7. MidWrite(t)' /\ ~MidWrite(t)
    BY <2>1 DEF MidWrite
  <2>8. WriterInv'
    <3> SUFFICES ASSUME NEW u \in Threads, Writing(u)
                 PROVE  WriterOK(u)'
      BY <2>6 DEF WriterInv
    <3>1. CASE u = t
      BY <3>1, <1>2, <1>4, <2>1, <2>4, <2>6, <2>7 DEF WriterOK, b
    <3>2. CASE u # t
      <4>1. target[u].bucket # b /\ target[u].bucket \in Buckets /\ WriterOK(u)
        BY <3>2, <1>2, WriterFacts DEF IInv, SeqlockInv, WriterInv
      <4> QED BY <3>2, <4>1, <2>1, <2>2, <2>6 DEF WriterOK
    <3> QED BY <3>1, <3>2
  <2>9. SeqInv'
    <3> SUFFICES ASSUME NEW x \in Buckets
                 PROVE  /\ word'[x].seq <= 2 * clock
                        /\ Odd(word'[x].seq) => \E u \in Threads : MidWrite(u)' /\ target[u].bucket = x
      BY <2>1 DEF SeqInv
    <3>1. CASE x = b
      <4>1. target[t].word.seq + 2 <= 2 * clock /\ clock \in Nat
        BY <1>2, <1>4, SeqModAssumption DEF WriterOK, TypeOK
      <4> QED BY <3>1, <4>1, <1>2, <2>4, <2>7 DEF b
    <3>2. CASE x # b
      <4>1. word'[x] = word[x]
        BY <3>2, <2>2
      <4> QED BY <4>1, <2>6, <2>7 DEF IInv, SeqlockInv, SeqInv
    <3> QED BY <3>1, <3>2
  <2>10. HalvesInv'
    BY <2>1, <2>6 DEF IInv, SeqlockInv, HalvesInv
  <2> QED BY <2>5, <2>8, <2>9, <2>10 DEF IInv, SeqlockInv
<1>6. CASE WritePart1(t)
  <2>1. /\ pc[t] = "write2" /\ pc'[t] = "write3"
        /\ half1' = [half1 EXCEPT ![b][c] = target[t].value]
        /\ UNCHANGED <<word, half2, clock, mgr, released, copy, rlock, target, bucket_refs>>
        /\ \A u \in Threads \ {t} : pc'[u] = pc[u]
    BY <1>2, <1>6 DEF WritePart1, Goto, TypeOK, b, c
  <2>2. /\ half1' \in [Buckets -> Contents] /\ half1'[b][c] = target[t].value
        /\ \A x \in Buckets, y \in Cells : x # b \/ y # c => half1'[x][y] = half1[x][y]
        /\ \A x \in Buckets \ {b} : half1'[x] = half1[x]
    BY <1>2, <2>1 DEF TypeOK, Contents
  <2>3. TypeOK'
    BY <1>2, <1>6, <2>1, <2>2 DEF TypeOK, Labels, WritePart1, Goto
  <2>4. Odd(word[b].seq)
    BY <1>2, <1>4, <2>1 DEF WriterOK, MidWrite, Odd, b
  <2>5. LockInv' /\ ReaderInv' /\ ReadLockInv' /\ NoTornRead'
    BY <1>2, <2>1, <2>2, <2>3, <2>4, CellWritten DEF WriteLabels
  <2>6. \A u \in Threads : /\ Writing(u)' <=> Writing(u)
                           /\ MidWrite(u)' <=> MidWrite(u)
                           /\ \A x \in Buckets : Holds(u, x)' <=> Holds(u, x)
    BY <2>1 DEF Writing, MidWrite, Holds
  <2>7. WriterInv'
    <3> SUFFICES ASSUME NEW u \in Threads, Writing(u)
                 PROVE  WriterOK(u)'
      BY <2>6 DEF WriterInv
    <3>1. CASE u = t
      BY <3>1, <1>2, <1>4, <2>1, <2>2, <2>6 DEF WriterOK, b, c
    <3>2. CASE u # t
      <4>1. target[u].bucket # b /\ target[u].bucket \in Buckets /\ WriterOK(u)
        BY <3>2, <1>2, WriterFacts DEF IInv, SeqlockInv, WriterInv
      <4> QED BY <3>2, <4>1, <2>1, <2>2, <2>6 DEF WriterOK
    <3> QED BY <3>1, <3>2
  <2>8. SeqInv'
    BY <2>1, <2>6 DEF IInv, SeqlockInv, SeqInv
  <2>9. HalvesInv'
    <3> SUFFICES ASSUME NEW x \in Buckets, NEW y \in Cells, half1'[x][y] # half2[x][y]
                 PROVE  \E u \in Threads : pc'[u] = "write3" /\ target[u].bucket = x /\ target[u].cell = y
      BY <2>1 DEF HalvesInv
    <3>1. CASE x = b /\ y = c
      BY <3>1, <2>1 DEF b, c
    <3>2. CASE x # b \/ y # c
      <4>1. half1[x][y] # half2[x][y]
        BY <3>2, <2>2
      <4>2. PICK u \in Threads : pc[u] = "write3" /\ target[u].bucket = x /\ target[u].cell = y
        BY <4>1 DEF IInv, SeqlockInv, HalvesInv
      <4> QED BY <4>2, <2>1
    <3> QED BY <3>1, <3>2
  <2> QED BY <2>5, <2>7, <2>8, <2>9 DEF IInv, SeqlockInv
<1>7. CASE WritePart2(t)
  <2>1. /\ pc[t] = "write3" /\ pc'[t] = "write4"
        /\ half2' = [half2 EXCEPT ![b][c] = target[t].value]
        /\ UNCHANGED <<word, half1, clock, mgr, released, copy, rlock, target, bucket_refs>>
        /\ \A u \in Threads \ {t} : pc'[u] = pc[u]
    BY <1>2, <1>7 DEF WritePart2, Goto, TypeOK, b, c
  <2>2. /\ half2' \in [Buckets -> Contents] /\ half2'[b][c] = target[t].value
        /\ \A x \in Buckets, y \in Cells : x # b \/ y # c => half2'[x][y] = half2[x][y]
        /\ \A x \in Buckets \ {b} : half2'[x] = half2[x]
    BY <1>2, <2>1 DEF TypeOK, Contents
  <2>3. TypeOK'
    BY <1>2, <1>7, <2>1, <2>2 DEF TypeOK, Labels, WritePart2, Goto
  <2>4. Odd(word[b].seq)
    BY <1>2, <1>4, <2>1 DEF WriterOK, MidWrite, Odd, b
  <2>5. LockInv' /\ ReaderInv' /\ ReadLockInv' /\ NoTornRead'
    BY <1>2, <2>1, <2>2, <2>3, <2>4, CellWritten DEF WriteLabels
  <2>6. \A u \in Threads : /\ Writing(u)' <=> Writing(u)
                           /\ MidWrite(u)' <=> MidWrite(u)
                           /\ \A x \in Buckets : Holds(u, x)' <=> Holds(u, x)
    BY <2>1 DEF Writing, MidWrite, Holds
  <2>7. WriterInv'
    <3> SUFFICES ASSUME NEW u \in Threads, Writing(u)
                 PROVE  WriterOK(u)'
      BY <2>6 DEF WriterInv
    <3>1. WriterOK(u)
      BY DEF IInv, SeqlockInv, WriterInv
    <3>2. target[u].bucket \in Buckets
      BY WriterFacts
    <3> QED BY <3>1, <3>2, <2>1, <2>6 DEF WriterOK
  <2>8. SeqInv'
    BY <2>1, <2>6 DEF IInv, SeqlockInv, SeqInv
  <2>9. HalvesInv'
    <3> SUFFICES ASSUME NEW x \in Buckets, NEW y \in Cells, half1[x][y] # half2'[x][y]
                 PROVE  \E u \in Threads : pc'[u] = "write3" /\ target[u].bucket = x /\ target[u].cell = y
      BY <2>1 DEF HalvesInv
    <3>1. CASE x = b /\ y = c
      BY <3>1, <1>4, <2>1, <2>2 DEF WriterOK, b, c
    <3>2. CASE x # b \/ y # c
      <4>1. half1[x][y] # half2[x][y]
        BY <3>2, <2>2
      <4>2. PICK u \in Threads : pc[u] = "write3" /\ target[u].bucket = x /\ target[u].cell = y
        BY <4>1 DEF IInv, SeqlockInv, HalvesInv
      <4>3. u # t
        BY <3>2, <4>2 DEF b, c
      <4> QED BY <4>2, <4>3, <2>1
    <3> QED BY <3>1, <3>2
  <2> QED BY <2>5, <2>7, <2>8, <2>9 DEF IInv, SeqlockInv
<1>8. CASE WriteSeqEven(t)
  <2>1. /\ pc[t] = "write4" /\ pc'[t] = "idle"
        /\ word' = [word EXCEPT ![b] = RaisedWord(t, 2)]
        /\ UNCHANGED <<half1, half2, clock, mgr, released, copy, rlock, bucket_refs>>
        /\ \A u \in Threads \ {t} : pc'[u] = pc[u] /\ target'[u] = target[u]
    BY <1>2, <1>8 DEF WriteSeqEven, Goto, cells, TypeOK, b
  <2>2. word'[b] = RaisedWord(t, 2) /\ \A x \in Buckets \ {b} : word'[x] = word[x]
    BY <1>2, <2>1 DEF TypeOK
  <2>3. TypeOK'
    <3>1. word' \in [Buckets -> Words]
      BY <1>2, <1>3, <2>1 DEF TypeOK
    <3>2. pc' \in [Threads -> Labels] /\ target' \in [Threads -> Targets \cup {None}]
      BY <1>2, <1>8 DEF TypeOK, Labels, WriteSeqEven, Goto
    <3> QED BY <1>2, <2>1, <3>1, <3>2 DEF TypeOK
  <2>4. /\ word[b].seq = target[t].word.seq + 1 /\ word'[b].seq = target[t].word.seq + 2
        /\ word'[b].lock = 1 /\ ~Odd(target[t].word.seq)
    BY <1>3, <1>4, <2>1, <2>2 DEF WriterOK, MidWrite, b
  <2>5. LockInv' /\ ReaderInv' /\ ReadLockInv' /\ NoTornRead'
    BY <1>2, <2>1, <2>2, <2>3, <2>4, SeqRaised DEF WriteLabels
  <2>6. \A u \in Threads : /\ u # t => (Writing(u)' <=> Writing(u)) /\ (MidWrite(u)' <=> MidWrite(u))
                           /\ pc'[u] = "write3" <=> pc[u] = "write3"
                           /\ \A x \in Buckets : Holds(u, x)' <=> Holds(u, x)
    BY <2>1 DEF Writing, MidWrite, Holds
  <2>7. ~Writing(t)'
    BY <2>1 DEF Writing
  <2>8. WriterInv'
    <3> SUFFICES ASSUME NEW u \in Threads, Writing(u)', u # t
                 PROVE  WriterOK(u)'
      BY <2>7 DEF WriterInv
    <3>1. target[u].bucket # b /\ target[u].bucket \in Buckets /\ WriterOK(u)
      BY <1>2, <2>6, WriterFacts DEF IInv, SeqlockInv, WriterInv
    <3> QED BY <3>1, <2>1, <2>2, <2>6 DEF WriterOK
  <2>9. SeqInv'
    <3> SUFFICES ASSUME NEW x \in Buckets
                 PROVE  /\ word'[x].seq <= 2 * clock
                        /\ Odd(word'[x].seq) => \E u \in Threads : MidWrite(u)' /\ target'[u].bucket = x
      BY <2>1 DEF SeqInv
    <3>1. CASE x = b
      BY <3>1, <1>2, <1>4, <2>4 DEF WriterOK, Odd
    <3>2. CASE x # b
      <4>1. word'[x] = word[x] /\ word[x].seq <= 2 * clock
        BY <3>2, <2>2 DEF IInv, SeqlockInv, SeqInv
      <4>2. ASSUME Odd(word[x].seq)
            PROVE  \E u \in Threads : MidWrite(u)' /\ target'[u].bucket = x
        <5>1. PICK u \in Threads : MidWrite(u) /\ target[u].bucket = x
          BY <4>2 DEF IInv, SeqlockInv, SeqInv
        <5>2. u # t
          BY <5>1, <3>2 DEF b
        <5> QED BY <5>1, <5>2, <2>1, <2>6
      <4> QED BY <4>1, <4>2
    <3> QED BY <3>1, <3>2
  <2>10. HalvesInv'
    <3> SUFFICES ASSUME NEW x \in Buckets, NEW y \in Cells, half1[x][y] # half2[x][y]
                 PROVE  \E u \in Threads : pc'[u] = "write3" /\ target'[u].bucket = x /\ target'[u].cell = y
      BY <2>1 DEF HalvesInv
    <3>1. PICK u \in Threads : pc[u] = "write3" /\ target[u].bucket = x /\ target[u].cell = y
      BY DEF IInv, SeqlockInv, HalvesInv
    <3> QED BY <3>1, <2>1
  <2> QED BY <2>5, <2>8, <2>9, <2>10 DEF IInv, SeqlockInv
<1> QED
  BY <1>5, <1>6, <1>7, <1>8 DEF WriteStep

-----------------------------------------------------------------------------
(* Reference counts.                                                       *)

(* Raising or lowering one entry's count moves the sum by one.             *)
LEMMA EntryRefsSum ==
  ASSUME NEW refs \in [Cells -> Nat], NEW c \in Cells
  PROVE  /\ EntryRefs(refs) \in Nat
         /\ EntryRefs([x \in Cells |-> 0]) = 0
         /\ OneMore(refs, c) \in [Cells -> Nat]
         /\ EntryRefs(OneMore(refs, c)) = EntryRefs(refs) + 1
         /\ refs[c] # 0 => /\ OneLess(refs, c) \in [Cells -> Nat]
                           /\ EntryRefs(OneLess(refs, c)) = EntryRefs(refs) - 1
                           /\ EntryRefs(refs) > 0
<1> DEFINE at(r, k) == IF k \in Cells THEN r[k] ELSE 0
           up == [refs EXCEPT ![c] = @ + 1]
           down == [refs EXCEPT ![c] = @ - 1]
<1>1. /\ c \in {0, 1, 2, 3} /\ \A k \in {0, 1, 2, 3} : at(refs, k) \in Nat
      /\ at(refs, c) = refs[c] /\ refs[c] \in Nat
  BY BucketSizeAssumption DEF Cells
<1>2. \A r : EntryRefs(r) = at(r, 0) + at(r, 1) + at(r, 2) + at(r, 3)
  BY DEF EntryRefs
<1>3. up \in [Cells -> Nat] /\ \A k : at(up, k) = IF k = c THEN at(refs, k) + 1 ELSE at(refs, k)
  OBVIOUS
<1>4. /\ refs[c] # 0 => down \in [Cells -> Nat]
      /\ \A k : at(down, k) = IF k = c THEN at(refs, k) - 1 ELSE at(refs, k)
  OBVIOUS
<1>5. EntryRefs([x \in Cells |-> 0]) = 0
  BY DEF EntryRefs
<1> HIDE DEF at, up, down
<1>6. EntryRefs(refs) \in Nat /\ (refs[c] # 0 => EntryRefs(refs) > 0)
  <2>1. /\ at(refs, 0) \in Nat /\ at(refs, 1) \in Nat /\ at(refs, 2) \in Nat /\ at(refs, 3) \in Nat
        /\ EntryRefs(refs) = at(refs, 0) + at(refs, 1) + at(refs, 2) + at(refs, 3)
    BY <1>1, <1>2
  <2>2. CASE c = 0
    BY <2>1, <2>2, <1>1
  <2>3. CASE c = 1
    BY <2>1, <2>3, <1>1
  <2>4. CASE c = 2
    BY <2>1, <2>4, <1>1
  <2>5. CASE c = 3
    BY <2>1, <2>5, <1>1
  <2> QED BY <2>2, <2>3, <2>4, <2>5, <1>1
<1>7. EntryRefs(up) = EntryRefs(refs) + 1
  BY <1>1, <1>2, <1>3
<1>8. EntryRefs(down) = EntryRefs(refs) - 1
  BY <1>1, <1>2, <1>4
<1> QED BY <1>3, <1>4, <1>5, <1>6, <1>7, <1>8 DEF up, down, OneMore, OneLess

(* A step of a thread that changes only locks: other threads' locks and    *)
(* all that was read stay as they were.                                    *)
LEMMA FrameManager ==
  ASSUME IInv, TypeOK', ReleasedInv', LockByteOwned', NEW t \in Threads,
         \A b \in Buckets : word'[b].seq = word[b].seq,
         UNCHANGED <<half1, half2, clock, copy, rlock, target>>,
         pc[t] \in Quiet, pc'[t] \in Quiet,
         \A u \in Threads \ {t} : /\ pc'[u] = pc[u] /\ mgr'[u] = mgr[u]
                                  /\ released'[u] = released[u]
                                  /\ bucket_refs'[u] = bucket_refs[u],
         UpgradeOK(t)', Balanced(t)'
  PROVE  IInv'
<1>1. \A u \in Threads \ {t}, x \in Buckets : Holds(u, x)' <=> Holds(u, x)
  BY DEF Holds
<1>2. SeqlockInv'
  BY <1>1, FrameSeqlock DEF IInv, LockInv
<1>3. UpgradeInv'
  <2> SUFFICES ASSUME NEW u \in Threads, u # t
               PROVE  UpgradeOK(u)'
    BY DEF UpgradeInv
  <2>1. UpgradeOK(u) /\ TypeOK
    BY DEF IInv, LockInv, UpgradeInv
  <2>2. /\ rlock[u] # None => rlock[u].bucket \in Buckets
        /\ copy[u] # None => copy[u].bucket \in Buckets
    BY <2>1 DEF TypeOK, ReadLocks, Copies
  <2> QED BY <1>1, <2>1, <2>2 DEF UpgradeOK, Reading
<1>4. RefcountsBalance'
  <2> SUFFICES ASSUME NEW u \in Threads, u # t, pc'[u] # "release"
               PROVE  /\ \A i \in 1..Len(mgr[u]) :
                           mgr[u][i].total = bucket_refs[u][mgr[u][i].bucket]
                              + PendingRef(u, mgr[u][i].bucket)' + EntryRefs(mgr[u][i].refs)
                      /\ \A b \in Buckets : bucket_refs[u][b] > 0 => Holds(u, b)'
    BY SMTT(30) DEF RefcountsBalance, Balanced, EntryRefs, Cells, PendingRef
  <2>1. \A x \in Buckets : PendingRef(u, x)' = PendingRef(u, x)
    BY DEF PendingRef
  <2>2. \A i \in 1..Len(mgr[u]) : mgr[u][i].bucket \in Buckets
    BY LockTypes DEF IInv, LockInv
  <2> QED BY <1>1, <2>1, <2>2 DEF IInv, LockInv, RefcountsBalance, Balanced
<1> QED BY <1>2, <1>3, <1>4 DEF IInv, LockInv

(* Balanced in the next state, one lock and its bucket at a time.          *)
LEMMA BalancedNext ==
  ASSUME NEW t \in Threads, mgr' \in [Threads -> Seq(Locks)],
         \A i \in 1..Len(mgr'[t]), x \in Buckets : mgr'[t][i].bucket = x =>
            mgr'[t][i].total = bucket_refs'[t][x] + PendingRef(t, x)' + EntryRefs(mgr'[t][i].refs),
         \A x \in Buckets : bucket_refs'[t][x] > 0 => Holds(t, x)'
  PROVE  Balanced(t)'
<1>1. \A i \in 1..Len(mgr'[t]) : mgr'[t][i].bucket \in Buckets
  <2>1. mgr'[t] \in Seq(Locks)
    OBVIOUS
  <2>2. \A i \in 1..Len(mgr'[t]) : mgr'[t][i] \in Locks
    BY <2>1
  <2> QED BY <2>2 DEF Locks
<1> QED BY <1>1 DEF Balanced, PendingRef, EntryRefs, Cells

(* Taking a free lock gives it one reference: the caller's reference to    *)
(* the bucket, or the one upgrade_lock is about to give to the entry.      *)
LEMMA TakeLockBalanced ==
  ASSUME LockInv, NEW t \in Threads, NEW b \in Buckets, released[t] = 0,
         word[b].lock = 0, TakeLock(t, b), released' = released,
         pc[t] # "release", pc'[t] # "release",
         bucket_refs' \in [Threads -> [Buckets -> Nat]],
         \A x \in Buckets : /\ PendingRef(t, x) = 0
                            /\ x # b => bucket_refs'[t][x] = bucket_refs[t][x]
                                        /\ PendingRef(t, x)' = 0,
         bucket_refs[t][b] = 0 => bucket_refs'[t][b] + PendingRef(t, b)' = 1
  PROVE  Balanced(t)'
<1> DEFINE new == [bucket |-> b, refs |-> [c \in Cells |-> 0], total |-> 1]
<1>1. /\ \A u \in Threads, x \in Buckets : Holds(u, x)' <=> Holds(u, x) \/ (u = t /\ x = b)
      /\ Len(mgr'[t]) = Len(mgr[t]) + 1
  BY TakeLockExclusive DEF LockInv
<1>2. /\ mgr[t] \in Seq(Locks) /\ Len(mgr[t]) \in Nat
      /\ \A i \in 1..Len(mgr[t]) : mgr[t][i].bucket \in Buckets
  BY LockTypes DEF LockInv
<1>3. mgr'[t] = Append(mgr[t], new)
  BY DEF TakeLock, add_lock, LockInv, TypeOK
<1>4. /\ \A i \in 1..Len(mgr[t]) : mgr'[t][i] = mgr[t][i]
      /\ mgr'[t][Len(mgr[t]) + 1] = new
  BY <1>2, <1>3
<1>5. ~Holds(t, b)
  BY DEF LockInv, LockByteOwned
<1>6. \A i \in 1..Len(mgr[t]) : mgr[t][i].bucket # b
  BY <1>2, <1>5 DEF Holds
<1>7. Balanced(t)
  BY DEF LockInv, RefcountsBalance
<1>8. bucket_refs[t] \in [Buckets -> Nat]
  BY DEF LockInv, TypeOK
<1>9. bucket_refs[t][b] = 0
  BY <1>5, <1>7, <1>8 DEF Balanced
<1>10. ASSUME NEW i \in 1..Len(mgr'[t]), NEW x \in Buckets, mgr'[t][i].bucket = x
       PROVE  mgr'[t][i].total = bucket_refs'[t][x] + PendingRef(t, x)' + EntryRefs(mgr'[t][i].refs)
  <2>1. CASE i \in 1..Len(mgr[t])
    <3>1. mgr'[t][i] = mgr[t][i] /\ x # b
      BY <2>1, <1>4, <1>6, <1>10
    <3>2. mgr[t][i].total = bucket_refs[t][x] + PendingRef(t, x) + EntryRefs(mgr[t][i].refs)
      BY <2>1, <3>1, <1>7, <1>10 DEF Balanced
    <3>3. bucket_refs'[t][x] = bucket_refs[t][x] /\ PendingRef(t, x)' = PendingRef(t, x)
      BY <3>1
    <3> QED BY <3>1, <3>2, <3>3
  <2>2. CASE i = Len(mgr[t]) + 1
    <3>1. EntryRefs([c \in Cells |-> 0]) = 0
      BY DEF EntryRefs
    <3>2. x = b /\ mgr'[t][i].total = 1 /\ mgr'[t][i].refs = [c \in Cells |-> 0]
      BY <2>2, <1>4, <1>10
    <3>3. bucket_refs'[t][b] + PendingRef(t, b)' = 1
      BY <1>9
    <3> QED BY <3>1, <3>2, <3>3
  <2> QED BY <2>1, <2>2, <1>1, <1>2
<1>11. \A x \in Buckets : bucket_refs'[t][x] > 0 => Holds(t, x)'
  BY <1>1, <1>7 DEF Balanced
<1>12. mgr' \in [Threads -> Seq(Locks)]
  BY TakeLockExclusive DEF LockInv
<1> QED BY <1>10, <1>11, <1>12, BalancedNext

-----------------------------------------------------------------------------
(* What the lock calls do to the managers: change the counts of one lock,  *)
(* drop a reference, take a lock.  LockFrame is what all of them leave     *)
(* alone.                                                                  *)
LockFrame(t) ==
  /\ UNCHANGED <<half1, half2, clock, released, copy, rlock, target>>
  /\ pc' \in [Threads -> Labels]
  /\ bucket_refs' \in [Threads -> [Buckets -> Nat]]
  /\ \A u \in Threads \ {t} : pc'[u] = pc[u] /\ bucket_refs'[u] = bucket_refs[u]

(* What a thread counts for the buckets other than b does not change.      *)
OtherRefs(t, b) ==
  \A x \in Buckets \ {b} : /\ bucket_refs'[t][x] = bucket_refs[t][x]
                           /\ PendingRef(t, x)' = PendingRef(t, x)

LEMMA CountsStep ==
  ASSUME IInv, NEW t \in Threads, NEW b \in Buckets, NEW i \in 1..Len(mgr[t]),
         mgr[t][i].bucket = b, NEW n \in Nat \ {0}, NEW refs \in [Cells -> Nat],
         mgr' = [mgr EXCEPT ![t][i] = WithCounts(mgr[t][i], n, refs)], word' = word,
         LockFrame(t), OtherRefs(t, b), n = bucket_refs'[t][b] + PendingRef(t, b)' + EntryRefs(refs),
         pc[t] \in Quiet \ {"release"}, pc'[t] = "idle"
  PROVE  IInv'
<1>1. /\ TypeOK /\ LockByteOwned /\ ReleasedInv /\ Balanced(t) /\ released[t] = 0
      /\ mgr \in [Threads -> Seq(Locks)] /\ Len(mgr[t]) \in Nat /\ mgr[t][i] \in Locks
      /\ bucket_refs \in [Threads -> [Buckets -> Nat]]
  BY LockTypes DEF IInv, LockInv, ReleasedInv, RefcountsBalance, TypeOK
<1> DEFINE l == WithCounts(mgr[t][i], n, refs)
<1>2. l \in Locks /\ l.bucket = b /\ l.total = n /\ l.refs = refs
  <2>1. \A m \in Locks : /\ WithCounts(m, n, refs) \in Locks
                         /\ WithCounts(m, n, refs).bucket = m.bucket
                         /\ WithCounts(m, n, refs).total = n
                         /\ WithCounts(m, n, refs).refs = refs
    BY DEF WithCounts, Locks
  <2> QED BY <2>1, <1>1
<1>3. mgr' = [mgr EXCEPT ![t][i] = l]
  OBVIOUS
<1> HIDE DEF l
<1>4. /\ mgr' \in [Threads -> Seq(Locks)]
      /\ Len(mgr'[t]) = Len(mgr[t]) /\ mgr'[t][i] = l
      /\ \A j \in 1..Len(mgr[t]) : j # i => mgr'[t][j] = mgr[t][j]
      /\ \A u \in Threads \ {t} : mgr'[u] = mgr[u]
  BY <1>1, <1>2, <1>3, ManagerUpdate
<1>5. /\ LockByteOwned' /\ released' = released
      /\ \A u \in Threads, x \in Buckets : Holds(u, x)' <=> Holds(u, x)
  <2>1. \A u \in Threads : /\ Len(mgr'[u]) = Len(mgr[u])
                           /\ \A j \in 1..Len(mgr[u]) : mgr'[u][j].bucket = mgr[u][j].bucket
    BY <1>2, <1>4
  <2>2. released' = released
    BY DEF LockFrame
  <2> QED BY <2>1, <2>2, <1>1, <1>4, CountsKeepLocks
<1>6. \A j \in 1..Len(mgr[t]) : j # i => mgr[t][j].bucket # b
  BY <1>1 DEF LockByteOwned
<1>7. ASSUME NEW j \in 1..Len(mgr'[t]), NEW x \in Buckets, mgr'[t][j].bucket = x
      PROVE  mgr'[t][j].total = bucket_refs'[t][x] + PendingRef(t, x)' + EntryRefs(mgr'[t][j].refs)
  <2>1. CASE j = i
    BY <2>1, <1>2, <1>4, <1>7
  <2>2. CASE j # i
    <3>1. mgr'[t][j] = mgr[t][j] /\ x # b /\ j \in 1..Len(mgr[t])
      BY <2>2, <1>4, <1>6, <1>7
    <3>2. mgr[t][j].total = bucket_refs[t][x] + PendingRef(t, x) + EntryRefs(mgr[t][j].refs)
      BY <3>1, <1>1, <1>7 DEF Balanced
    <3>3. bucket_refs'[t][x] = bucket_refs[t][x] /\ PendingRef(t, x)' = PendingRef(t, x)
      BY <3>1 DEF OtherRefs
    <3> QED BY <3>1, <3>2, <3>3
  <2> QED BY <2>1, <2>2
<1>8. Holds(t, b)
  BY <1>1 DEF Holds
<1>9. \A x \in Buckets : bucket_refs'[t][x] > 0 => Holds(t, x)'
  BY <1>1, <1>5, <1>8 DEF Balanced, OtherRefs
<1>10. Balanced(t)'
  BY <1>4, <1>7, <1>9, BalancedNext
<1>11. TypeOK'
  BY <1>1, <1>4 DEF TypeOK, LockFrame
<1>12. ReleasedInv'
  BY <1>1, <1>4, <1>5 DEF ReleasedInv, LockFrame
<1>13. UpgradeOK(t)'
  BY DEF UpgradeOK, Reading
<1> QED
  BY <1>4, <1>5, <1>10, <1>11, <1>12, <1>13, FrameManager DEF LockFrame, Quiet

LEMMA DropStep ==
  ASSUME IInv, NEW t \in Threads, NEW b \in Buckets, NEW i \in 1..Len(mgr[t]),
         mgr[t][i].bucket = b, NEW refs \in [Cells -> Nat], DropReference(t, i, refs),
         LockFrame(t), OtherRefs(t, b),
         mgr[t][i].total - 1 = bucket_refs'[t][b] + PendingRef(t, b)' + EntryRefs(refs),
         pc[t] \in Quiet \ {"release"}, pc'[t] = "idle"
  PROVE  IInv'
<1>1. /\ TypeOK /\ LockByteOwned /\ ReleasedInv /\ Balanced(t) /\ released[t] = 0
      /\ mgr[t][i].total \in Nat \ {0} /\ Len(mgr[t]) \in Nat
      /\ bucket_refs[t] \in [Buckets -> Nat] /\ bucket_refs'[t] \in [Buckets -> Nat]
  BY LockTypes DEF IInv, LockInv, ReleasedInv, RefcountsBalance, TypeOK, LockFrame
<1>2. released' = released
  BY DEF LockFrame
<1>3. CASE mgr[t][i].total # 1
  <2>1. /\ mgr' = [mgr EXCEPT ![t][i] = WithCounts(mgr[t][i], mgr[t][i].total - 1, refs)]
        /\ word' = word
    BY <1>3 DEF DropReference
  <2>2. mgr[t][i].total - 1 \in Nat \ {0}
    BY <1>1, <1>3
  <2> QED BY <2>1, <2>2, CountsStep
<1>4. CASE mgr[t][i].total = 1
  <2>1. /\ LockByteOwned' /\ mgr' \in [Threads -> Seq(Locks)] /\ word' \in [Buckets -> Words]
        /\ \A x \in Buckets : word'[x].seq = word[x].seq
        /\ \A u \in Threads, x \in Buckets : Holds(u, x)' <=> Holds(u, x) /\ ~(u = t /\ x = b)
        /\ \A k \in 1..Len(mgr'[t]) : \E j \in 1..Len(mgr[t]) : mgr'[t][k] = mgr[t][j]
        /\ \A u \in Threads \ {t} : mgr'[u] = mgr[u]
    BY <1>1, <1>2, <1>4, DropReferenceExclusive
  <2>2. EntryRefs(refs) \in Nat /\ PendingRef(t, b)' \in Nat
    <3>1. 0 \in Cells
      BY BucketSizeAssumption DEF Cells
    <3>2. EntryRefs(refs) \in Nat
      BY <3>1, EntryRefsSum
    <3> QED BY <3>2 DEF PendingRef
  <2>3. bucket_refs'[t][b] = 0
    BY <2>2, <1>1, <1>4
  <2>4. Len(mgr'[t]) \in Nat /\ released'[t] = 0
    BY <2>1, <1>1, <1>2
  <2>5. ASSUME NEW k \in 1..Len(mgr'[t]), NEW x \in Buckets, mgr'[t][k].bucket = x
        PROVE  mgr'[t][k].total = bucket_refs'[t][x] + PendingRef(t, x)' + EntryRefs(mgr'[t][k].refs)
    <3>1. Holds(t, x)'
      BY <2>4, <2>5 DEF Holds
    <3>2. x # b
      BY <3>1, <2>1
    <3>3. PICK j \in 1..Len(mgr[t]) : mgr'[t][k] = mgr[t][j]
      BY <2>1
    <3>4. mgr[t][j].total = bucket_refs[t][x] + PendingRef(t, x) + EntryRefs(mgr[t][j].refs)
      BY <3>3, <2>5, <1>1 DEF Balanced
    <3>5. bucket_refs'[t][x] = bucket_refs[t][x] /\ PendingRef(t, x)' = PendingRef(t, x)
      BY <3>2 DEF OtherRefs
    <3> QED BY <3>3, <3>4, <3>5
  <2>6. ASSUME NEW x \in Buckets, bucket_refs'[t][x] > 0
        PROVE  Holds(t, x)'
    <3>1. x # b
      BY <2>3, <2>6
    <3>2. bucket_refs[t][x] > 0
      BY <3>1, <2>6 DEF OtherRefs
    <3>3. Holds(t, x)
      BY <3>2, <1>1 DEF Balanced
    <3> QED BY <3>1, <3>3, <2>1
  <2>7. Balanced(t)'
    BY <2>1, <2>5, <2>6, BalancedNext
  <2>8. TypeOK'
    BY <1>1, <2>1 DEF TypeOK, LockFrame
  <2>9. ReleasedInv'
    <3> SUFFICES ASSUME NEW u \in Threads
                 PROVE  released'[u] <= Len(mgr'[u]) /\ (pc'[u] # "release" => released'[u] = 0)
      BY DEF ReleasedInv
    <3>1. CASE u = t
      BY <3>1, <2>4
    <3>2. CASE u # t
      BY <3>2, <1>1, <1>2, <2>1 DEF ReleasedInv, LockFrame
    <3> QED BY <3>1, <3>2
  <2>10. UpgradeOK(t)'
    BY DEF UpgradeOK, Reading
  <2> QED
    BY <2>1, <2>7, <2>8, <2>9, <2>10, FrameManager DEF LockFrame, Quiet
<1> QED BY <1>3, <1>4

LEMMA TakeStep ==
  ASSUME IInv, NEW t \in Threads, NEW b \in Buckets, word[b].lock = 0, TakeLock(t, b),
         LockFrame(t), OtherRefs(t, b),
         bucket_refs[t][b] = 0 => bucket_refs'[t][b] + PendingRef(t, b)' = 1,
         pc[t] = "idle", pc'[t] \in Quiet \ {"release"}, Holds(t, b)' => UpgradeOK(t)'
  PROVE  IInv'
<1>1. /\ TypeOK /\ LockByteOwned /\ ReleasedInv /\ LockInv /\ released[t] = 0
      /\ released' = released /\ bucket_refs' \in [Threads -> [Buckets -> Nat]]
  BY DEF IInv, LockInv, ReleasedInv, LockFrame
<1>2. /\ LockByteOwned' /\ Holds(t, b)'
      /\ mgr' \in [Threads -> Seq(Locks)] /\ word' \in [Buckets -> Words]
      /\ Len(mgr'[t]) = Len(mgr[t]) + 1
  BY <1>1, TakeLockExclusive
<1>3. /\ \A u \in Threads \ {t} : mgr'[u] = mgr[u]
      /\ \A x \in Buckets : word'[x].seq = word[x].seq
  BY <1>1 DEF TakeLock, TypeOK, Words
<1>4. Balanced(t)'
  <2>1. \A x \in Buckets : PendingRef(t, x) = 0
    BY DEF PendingRef
  <2>2. pc[t] # "release" /\ pc'[t] # "release"
    OBVIOUS
  <2> QED BY <2>1, <2>2, <1>1, TakeLockBalanced DEF OtherRefs
<1>5. TypeOK'
  BY <1>1, <1>2 DEF TypeOK, LockFrame
<1>6. ReleasedInv'
  <2>1. Len(mgr[t]) \in Nat
    BY <1>1, LockTypes
  <2> SUFFICES ASSUME NEW u \in Threads
               PROVE  released'[u] <= Len(mgr'[u]) /\ (pc'[u] # "release" => released'[u] = 0)
    BY DEF ReleasedInv
  <2>2. CASE u = t
    BY <2>1, <2>2, <1>1, <1>2
  <2>3. CASE u # t
    BY <2>3, <1>1, <1>3 DEF ReleasedInv, LockFrame
  <2> QED BY <2>2, <2>3
<1> QED
  BY <1>2, <1>3, <1>4, <1>5, <1>6, FrameManager DEF LockFrame, Quiet

-----------------------------------------------------------------------------
(* The lock calls.                                                         *)

(* The lock find_write_lock returns for a bucket the thread holds.         *)
LEMMA HeldLock ==
  ASSUME IInv, NEW t \in Threads, NEW b \in Buckets, pc[t] # "release",
         bucket_write_locked(t, b) \/ Holds(t, b), NEW i, i = find_write_lock(t, b)
  PROVE  /\ i \in 1..Len(mgr[t]) /\ mgr[t][i].bucket = b
         /\ mgr[t][i].refs \in [Cells -> Nat] /\ mgr[t][i].total \in Nat \ {0}
         /\ bucket_refs[t][b] \in Nat /\ EntryRefs(mgr[t][i].refs) \in Nat
         /\ mgr[t][i].total = bucket_refs[t][b] + PendingRef(t, b) + EntryRefs(mgr[t][i].refs)
<1>1. TypeOK /\ LockByteOwned /\ released[t] = 0 /\ Balanced(t)
  BY DEF IInv, LockInv, ReleasedInv, RefcountsBalance
<1>2. i \in 1..Len(mgr[t]) /\ mgr[t][i].bucket = b
  BY <1>1, FindWriteLock
<1>3. mgr[t][i].refs \in [Cells -> Nat] /\ mgr[t][i].total \in Nat \ {0}
  BY <1>1, <1>2, LockTypes
<1>4. bucket_refs[t][b] \in Nat
  BY <1>1 DEF TypeOK
<1>5. EntryRefs(mgr[t][i].refs) \in Nat
  <2>1. 0 \in Cells
    BY BucketSizeAssumption DEF Cells
  <2> QED BY <2>1, <1>3, EntryRefsSum
<1> QED BY <1>1, <1>2, <1>3, <1>4, <1>5 DEF Balanced

LEMMA WriteLockBucketStep ==
  ASSUME IInv, NEW t \in Threads, NEW b \in Buckets, write_lock_bucket(t, b)
  PROVE  IInv'
<1>1. /\ pc[t] = "idle" /\ pc' = pc /\ TypeOK /\ pc \in [Threads -> Labels]
      /\ UNCHANGED <<half1, half2, clock, released, copy, rlock, target>>
      /\ bucket_refs' = [bucket_refs EXCEPT ![t][b] = bucket_refs[t][b] + 1]
      /\ bucket_refs[t][b] \in Nat /\ bucket_refs[t][b] + 1 \in Nat
  BY DEF write_lock_bucket, CountBucketRef, cells, IInv, LockInv, TypeOK
<1>2. /\ bucket_refs' \in [Threads -> [Buckets -> Nat]]
      /\ bucket_refs'[t][b] = bucket_refs[t][b] + 1
      /\ \A x \in Buckets \ {b} : bucket_refs'[t][x] = bucket_refs[t][x]
      /\ \A u \in Threads \ {t} : bucket_refs'[u] = bucket_refs[u]
  BY <1>1 DEF TypeOK
<1>3. \A x \in Buckets : PendingRef(t, x) = 0 /\ PendingRef(t, x)' = 0
  BY <1>1 DEF PendingRef
<1>4. LockFrame(t) /\ OtherRefs(t, b)
  BY <1>1, <1>2, <1>3 DEF LockFrame, OtherRefs
<1>5. CASE try_take_lock(b) /\ TakeLock(t, b)
  <2>1. word[b].lock = 0 /\ UpgradeOK(t)'
    BY <1>1, <1>5 DEF try_take_lock, UpgradeOK, Reading
  <2>2. bucket_refs[t][b] = 0 => bucket_refs'[t][b] + PendingRef(t, b)' = 1
    BY <1>2, <1>3
  <2> QED BY <2>1, <2>2, <1>1, <1>4, <1>5, TakeStep DEF Quiet
<1>6. CASE /\ bucket_write_locked(t, b)
           /\ AddReference(t, find_write_lock(t, b))
           /\ UNCHANGED word
  <2> DEFINE i == find_write_lock(t, b)
  <2>1. /\ i \in 1..Len(mgr[t]) /\ mgr[t][i].bucket = b
        /\ mgr[t][i].refs \in [Cells -> Nat] /\ mgr[t][i].total \in Nat \ {0}
        /\ bucket_refs[t][b] \in Nat /\ EntryRefs(mgr[t][i].refs) \in Nat
        /\ mgr[t][i].total = bucket_refs[t][b] + PendingRef(t, b) + EntryRefs(mgr[t][i].refs)
    BY <1>1, <1>6, HeldLock
  <2>2. mgr' = [mgr EXCEPT ![t][i] = WithCounts(mgr[t][i], mgr[t][i].total + 1, mgr[t][i].refs)]
    BY <1>6 DEF AddReference
  <2> HIDE DEF i
  <2>3. mgr[t][i].total + 1 = bucket_refs'[t][b] + PendingRef(t, b)' + EntryRefs(mgr[t][i].refs)
    BY <2>1, <1>2, <1>3
  <2>4. mgr[t][i].total + 1 \in Nat \ {0}
    BY <2>1
  <2> QED BY <2>1, <2>2, <2>3, <2>4, <1>1, <1>4, <1>6, CountsStep DEF Quiet
<1> QED BY <1>5, <1>6 DEF write_lock_bucket

LEMMA UpgradeBucketLockHeldStep ==
  ASSUME IInv, NEW t \in Threads, UpgradeBucketLockHeld(t)
  PROVE  IInv'
<1> SUFFICES ASSUME NEW b, b = rlock[t].bucket
             PROVE  IInv'
  OBVIOUS
<1> DEFINE i == find_write_lock(t, b)
<1>1. /\ pc[t] = "idle" /\ pc' = pc /\ TypeOK /\ pc \in [Threads -> Labels]
      /\ UNCHANGED <<word, half1, half2, clock, released, copy, rlock, target>>
      /\ bucket_refs' = [bucket_refs EXCEPT ![t][b] = bucket_refs[t][b] + 1]
      /\ rlock[t] \in ReadLocks /\ bucket_write_locked(t, b)
      /\ mgr' = [mgr EXCEPT ![t][i] = WithCounts(mgr[t][i], mgr[t][i].total + 1, mgr[t][i].refs)]
  BY DEF UpgradeBucketLockHeld, CountBucketRef, AddReference, cells, IInv, LockInv, TypeOK
<1>2. b \in Buckets /\ bucket_refs[t][b] \in Nat /\ bucket_refs[t][b] + 1 \in Nat
  BY <1>1 DEF ReadLocks, TypeOK
<1>3. /\ i \in 1..Len(mgr[t]) /\ mgr[t][i].bucket = b
      /\ mgr[t][i].refs \in [Cells -> Nat] /\ mgr[t][i].total \in Nat \ {0}
      /\ bucket_refs[t][b] \in Nat /\ EntryRefs(mgr[t][i].refs) \in Nat
      /\ mgr[t][i].total = bucket_refs[t][b] + PendingRef(t, b) + EntryRefs(mgr[t][i].refs)
  BY SMTT(30), <1>1, <1>2, HeldLock
<1> HIDE DEF i
<1>4. /\ bucket_refs' \in [Threads -> [Buckets -> Nat]]
      /\ bucket_refs'[t][b] = bucket_refs[t][b] + 1
      /\ \A x \in Buckets \ {b} : bucket_refs'[t][x] = bucket_refs[t][x]
      /\ \A u \in Threads \ {t} : bucket_refs'[u] = bucket_refs[u]
  BY <1>1, <1>2 DEF TypeOK
<1>5. \A x \in Buckets : PendingRef(t, x) = 0 /\ PendingRef(t, x)' = 0
  BY <1>1 DEF PendingRef
<1>6. LockFrame(t) /\ OtherRefs(t, b)
  BY <1>1, <1>4, <1>5 DEF LockFrame, OtherRefs
<1>7. mgr[t][i].total + 1 = bucket_refs'[t][b] + PendingRef(t, b)' + EntryRefs(mgr[t][i].refs)
  BY SMTT(30), <1>2, <1>3, <1>4, <1>5
<1>8. mgr[t][i].total + 1 \in Nat \ {0}
  BY <1>3
<1> QED BY <1>1, <1>2, <1>3, <1>6, <1>7, <1>8, CountsStep DEF Quiet

LEMMA UpgradeBucketLockTakeStep ==
  ASSUME IInv, NEW t \in Threads, UpgradeBucketLockTake(t)
  PROVE  IInv'
<1> SUFFICES ASSUME NEW b, b = rlock[t].bucket
             PROVE  IInv'
  OBVIOUS
<1>1. /\ pc[t] = "idle" /\ pc'[t] = "upgrade_bucket" /\ TypeOK /\ pc' \in [Threads -> Labels]
      /\ \A u \in Threads \ {t} : pc'[u] = pc[u]
      /\ UNCHANGED <<half1, half2, clock, released, copy, rlock, target>>
      /\ bucket_refs' = [bucket_refs EXCEPT ![t][b] = bucket_refs[t][b] + 1]
      /\ rlock[t] \in ReadLocks /\ rlock[t] # None /\ word[b].lock = 0 /\ TakeLock(t, b)
  BY DEF UpgradeBucketLockTake, CountBucketRef, try_take_lock, Goto, cells, Labels,
         IInv, LockInv, TypeOK
<1>2. b \in Buckets /\ bucket_refs[t][b] \in Nat /\ bucket_refs[t][b] + 1 \in Nat
  BY <1>1 DEF ReadLocks, TypeOK
<1>3. /\ bucket_refs' \in [Threads -> [Buckets -> Nat]]
      /\ bucket_refs'[t][b] = bucket_refs[t][b] + 1
      /\ \A x \in Buckets \ {b} : bucket_refs'[t][x] = bucket_refs[t][x]
      /\ \A u \in Threads \ {t} : bucket_refs'[u] = bucket_refs[u]
  BY <1>1, <1>2 DEF TypeOK
<1>4. \A x \in Buckets : PendingRef(t, x) = 0 /\ PendingRef(t, x)' = 0
  BY <1>1 DEF PendingRef
<1>5. LockFrame(t) /\ OtherRefs(t, b)
  BY <1>1, <1>3, <1>4 DEF LockFrame, OtherRefs
<1>6. Holds(t, b)' => UpgradeOK(t)'
  BY <1>1, <1>2, <1>3 DEF UpgradeOK, Reading
<1>7. bucket_refs[t][b] = 0 => bucket_refs'[t][b] + PendingRef(t, b)' = 1
  BY <1>2, <1>3, <1>4
<1> QED BY <1>1, <1>2, <1>5, <1>6, <1>7, TakeStep DEF Quiet, InCall

LEMMA ReleaseBucketLockStep ==
  ASSUME IInv, NEW t \in Threads, NEW b \in Buckets, pc[t] \in {"idle", "upgrade_bucket"},
         bucket_refs[t][b] > 0, pc'[t] = "idle", NEW i, i = find_write_lock(t, b),
         DropReference(t, i, mgr[t][i].refs),
         bucket_refs' = [bucket_refs EXCEPT ![t][b] = @ - 1],
         UNCHANGED <<half1, half2, clock, released, copy, rlock, target>>,
         pc' \in [Threads -> Labels], \A u \in Threads \ {t} : pc'[u] = pc[u]
  PROVE  IInv'
<1>1. TypeOK /\ bucket_refs[t][b] - 1 \in Nat /\ Holds(t, b)
  <2>1. TypeOK /\ Balanced(t) /\ pc[t] # "release"
    BY DEF IInv, LockInv, RefcountsBalance
  <2>2. bucket_refs[t][b] \in Nat
    BY <2>1 DEF TypeOK
  <2> QED BY <2>1, <2>2 DEF Balanced
<1>2. /\ i \in 1..Len(mgr[t]) /\ mgr[t][i].bucket = b
      /\ mgr[t][i].refs \in [Cells -> Nat] /\ mgr[t][i].total \in Nat \ {0}
      /\ bucket_refs[t][b] \in Nat /\ EntryRefs(mgr[t][i].refs) \in Nat
      /\ mgr[t][i].total = bucket_refs[t][b] + PendingRef(t, b) + EntryRefs(mgr[t][i].refs)
  BY <1>1, HeldLock
<1>3. /\ bucket_refs' \in [Threads -> [Buckets -> Nat]]
      /\ bucket_refs'[t][b] = bucket_refs[t][b] - 1
      /\ \A x \in Buckets \ {b} : bucket_refs'[t][x] = bucket_refs[t][x]
      /\ \A u \in Threads \ {t} : bucket_refs'[u] = bucket_refs[u]
  BY <1>1 DEF TypeOK
<1>4. \A x \in Buckets : PendingRef(t, x) = 0 /\ PendingRef(t, x)' = 0
  BY DEF PendingRef
<1>5. LockFrame(t) /\ OtherRefs(t, b)
  BY <1>3, <1>4 DEF LockFrame, OtherRefs
<1>6. mgr[t][i].total - 1 = bucket_refs'[t][b] + PendingRef(t, b)' + EntryRefs(mgr[t][i].refs)
  BY <1>2, <1>3, <1>4
<1>7. pc[t] \in Quiet \ {"release"}
  BY DEF Quiet, InCall
<1> QED BY <1>2, <1>5, <1>6, <1>7, DropStep

LEMMA UpgradeBucketLockCheckStep ==
  ASSUME IInv, NEW t \in Threads, UpgradeBucketLockCheck(t)
  PROVE  IInv'
<1> SUFFICES ASSUME NEW b, b = rlock[t].bucket
             PROVE  IInv'
  OBVIOUS
<1>1. /\ pc[t] = "upgrade_bucket" /\ pc'[t] = "idle" /\ TypeOK /\ pc' \in [Threads -> Labels]
      /\ \A u \in Threads \ {t} : pc'[u] = pc[u]
      /\ UNCHANGED <<half1, half2, clock, released, copy, rlock, target>>
  BY DEF UpgradeBucketLockCheck, Goto, cells, Labels, IInv, LockInv, TypeOK
<1>2. rlock[t] # None /\ b \in Buckets /\ bucket_refs[t][b] > 0
  BY <1>1 DEF IInv, LockInv, UpgradeInv, UpgradeOK, TypeOK, ReadLocks
<1>3. CASE ReadLockValid(t)
  <2>1. UNCHANGED <<word, mgr, bucket_refs>>
    BY <1>3 DEF UpgradeBucketLockCheck
  <2>2. TypeOK' /\ ReleasedInv' /\ LockByteOwned'
    <3>1. TypeOK'
      BY <1>1, <2>1 DEF TypeOK
    <3>2. ReleasedInv'
      BY <1>1, <2>1 DEF IInv, LockInv, ReleasedInv
    <3>3. LockByteOwned'
      BY SMTT(30), <1>1, <2>1 DEF IInv, LockInv, LockByteOwned, Holds
    <3> QED BY <3>1, <3>2, <3>3
  <2>3. UpgradeOK(t)'
    BY <1>1 DEF UpgradeOK, Reading
  <2>4. Balanced(t)'
    <3>1. \A x \in Buckets : PendingRef(t, x) = 0 /\ PendingRef(t, x)' = 0
      BY <1>1 DEF PendingRef
    <3>2. Balanced(t) /\ mgr' \in [Threads -> Seq(Locks)] /\ released' = released
      BY <1>1, <2>1 DEF IInv, LockInv, RefcountsBalance, TypeOK
    <3>3. \A x \in Buckets : Holds(t, x)' <=> Holds(t, x)
      BY <1>1, <2>1 DEF Holds
    <3>4. \A i \in 1..Len(mgr'[t]), x \in Buckets : mgr'[t][i].bucket = x =>
             mgr'[t][i].total = bucket_refs'[t][x] + PendingRef(t, x)' + EntryRefs(mgr'[t][i].refs)
      BY <1>1, <2>1, <3>1, <3>2 DEF Balanced
    <3>5. \A x \in Buckets : bucket_refs'[t][x] > 0 => Holds(t, x)'
      BY <1>1, <2>1, <3>2, <3>3 DEF Balanced
    <3> QED BY <3>2, <3>4, <3>5, BalancedNext
  <2> QED BY <1>1, <2>1, <2>2, <2>3, <2>4, FrameManager DEF Quiet, InCall
<1>4. CASE ~ReadLockValid(t)
  <2> DEFINE i == find_write_lock(t, b)
  <2>1. /\ DropReference(t, i, mgr[t][i].refs)
        /\ bucket_refs' = [bucket_refs EXCEPT ![t][b] = @ - 1]
    BY <1>4 DEF UpgradeBucketLockCheck
  <2> HIDE DEF i
  <2> QED BY <1>1, <1>2, <2>1, ReleaseBucketLockStep DEF i
<1> QED BY <1>3, <1>4

(* The entry calls raise one entry's count and the total together.         *)
LEMMA EntryReferenceStep ==
  ASSUME IInv, NEW t \in Threads, NEW b \in Buckets, NEW c \in Cells, bucket_write_locked(t, b),
         AddEntryReference(t, find_write_lock(t, b), c), pc[t] = "idle",
         UNCHANGED <<word, half1, half2, clock, released, pc, copy, rlock, target, bucket_refs>>
  PROVE  IInv'
<1> DEFINE i == find_write_lock(t, b)
           refs == OneMore(mgr[t][i].refs, c)
<1>1. /\ i \in 1..Len(mgr[t]) /\ mgr[t][i].bucket = b
      /\ mgr[t][i].refs \in [Cells -> Nat] /\ mgr[t][i].total \in Nat \ {0}
      /\ bucket_refs[t][b] \in Nat /\ EntryRefs(mgr[t][i].refs) \in Nat
      /\ mgr[t][i].total = bucket_refs[t][b] + PendingRef(t, b) + EntryRefs(mgr[t][i].refs)
  BY HeldLock
<1>2. mgr' = [mgr EXCEPT ![t][i] = WithCounts(mgr[t][i], mgr[t][i].total + 1, refs)]
  BY DEF AddEntryReference
<1>3. refs \in [Cells -> Nat] /\ EntryRefs(refs) = EntryRefs(mgr[t][i].refs) + 1
  BY <1>1, EntryRefsSum
<1> HIDE DEF i, refs
<1>4. \A x \in Buckets : PendingRef(t, x) = 0 /\ PendingRef(t, x)' = 0
  BY DEF PendingRef
<1>5. LockFrame(t) /\ OtherRefs(t, b)
  BY <1>4 DEF LockFrame, OtherRefs, IInv, LockInv, TypeOK
<1>6. /\ mgr[t][i].total + 1 = bucket_refs'[t][b] + PendingRef(t, b)' + EntryRefs(refs)
      /\ mgr[t][i].total + 1 \in Nat \ {0}
  <2>1. bucket_refs'[t][b] = bucket_refs[t][b]
    OBVIOUS
  <2>2. PendingRef(t, b) = 0 /\ PendingRef(t, b)' = 0
    BY <1>4
  <2>3. /\ mgr[t][i].total = bucket_refs[t][b] + 0 + EntryRefs(mgr[t][i].refs)
        /\ bucket_refs[t][b] \in Nat /\ EntryRefs(mgr[t][i].refs) \in Nat
        /\ EntryRefs(refs) = EntryRefs(mgr[t][i].refs) + 1
    BY <2>2, <1>1, <1>3
  <2>4. mgr[t][i].total + 1 = bucket_refs'[t][b] + PendingRef(t, b)' + EntryRefs(refs)
    BY <2>1, <2>2, <2>3
  <2> QED BY <2>3, <2>4
<1> QED BY <1>1, <1>2, <1>3, <1>5, <1>6, CountsStep DEF Quiet

LEMMA UpgradeLockTakeStep ==
  ASSUME IInv, NEW t \in Threads, UpgradeLockTake(t)
  PROVE  IInv'
<1> SUFFICES ASSUME NEW b, b = copy[t].bucket
             PROVE  IInv'
  OBVIOUS
<1>1. /\ pc[t] = "idle" /\ pc'[t] = "upgrade_entry" /\ TypeOK /\ pc' \in [Threads -> Labels]
      /\ \A u \in Threads \ {t} : pc'[u] = pc[u]
      /\ UNCHANGED <<half1, half2, clock, released, copy, rlock, target, bucket_refs>>
      /\ copy[t] \in Copies /\ copy[t] # None /\ word[b].lock = 0 /\ TakeLock(t, b)
  BY DEF UpgradeLockTake, try_take_lock, Goto, cells, Labels, IInv, LockInv, TypeOK
<1>2. b \in Buckets
  BY <1>1 DEF Copies
<1>3. \A x \in Buckets : PendingRef(t, x) = 0 /\ PendingRef(t, x)' = IF x = b THEN 1 ELSE 0
  BY <1>1 DEF PendingRef
<1>4. LockFrame(t) /\ OtherRefs(t, b)
  BY <1>1, <1>3 DEF LockFrame, OtherRefs, TypeOK
<1>5. Holds(t, b)' => UpgradeOK(t)'
  BY <1>1 DEF UpgradeOK, Reading
<1>6. bucket_refs[t][b] = 0 => bucket_refs'[t][b] + PendingRef(t, b)' = 1
  BY <1>1, <1>2, <1>3
<1> QED BY <1>1, <1>2, <1>4, <1>5, <1>6, TakeStep DEF Quiet, InCall

LEMMA UpgradeLockCheckStep ==
  ASSUME IInv, NEW t \in Threads, UpgradeLockCheck(t)
  PROVE  IInv'
<1> SUFFICES ASSUME NEW b, b = copy[t].bucket, NEW c, c = copy[t].cell
             PROVE  IInv'
  OBVIOUS
<1> DEFINE i == find_write_lock(t, b)
           refs == OneMore(mgr[t][i].refs, c)
<1>1. /\ pc[t] = "upgrade_entry" /\ pc'[t] = "idle" /\ TypeOK /\ pc' \in [Threads -> Labels]
      /\ \A u \in Threads \ {t} : pc'[u] = pc[u]
      /\ UNCHANGED <<half1, half2, clock, released, copy, rlock, target, bucket_refs>>
  BY DEF UpgradeLockCheck, Goto, cells, Labels, IInv, LockInv, TypeOK
<1>2. copy[t] # None /\ b \in Buckets /\ c \in Cells /\ Holds(t, b)
  BY <1>1 DEF IInv, LockInv, UpgradeInv, UpgradeOK, TypeOK, Copies
<1>3. /\ i \in 1..Len(mgr[t]) /\ mgr[t][i].bucket = b
      /\ mgr[t][i].refs \in [Cells -> Nat] /\ mgr[t][i].total \in Nat \ {0}
      /\ bucket_refs[t][b] \in Nat /\ EntryRefs(mgr[t][i].refs) \in Nat
      /\ mgr[t][i].total = bucket_refs[t][b] + PendingRef(t, b) + EntryRefs(mgr[t][i].refs)
  BY SMTT(30), <1>1, <1>2, HeldLock
<1>4. \A x \in Buckets : PendingRef(t, x)' = 0 /\ PendingRef(t, x) = IF x = b THEN 1 ELSE 0
  BY <1>1 DEF PendingRef
<1>5. LockFrame(t) /\ OtherRefs(t, b)
  BY <1>1, <1>4 DEF LockFrame, OtherRefs, TypeOK
<1>6. pc[t] \in Quiet \ {"release"}
  BY <1>1 DEF Quiet, InCall
<1>7. refs \in [Cells -> Nat] /\ EntryRefs(refs) = EntryRefs(mgr[t][i].refs) + 1
  BY <1>2, <1>3, EntryRefsSum
<1>8. CASE CopyValid(t)
  <2>1. /\ mgr' = [mgr EXCEPT ![t][i] = WithCounts(mgr[t][i], mgr[t][i].total, refs)]
        /\ word' = word
    BY <1>8 DEF UpgradeLockCheck
  <2> HIDE DEF i, refs
  <2>2. mgr[t][i].total = bucket_refs'[t][b] + PendingRef(t, b)' + EntryRefs(refs)
    <3>1. bucket_refs'[t][b] = bucket_refs[t][b]
      BY <1>1
    <3>2. PendingRef(t, b) = 1 /\ PendingRef(t, b)' = 0
      BY <1>2, <1>4
    <3>3. /\ mgr[t][i].total = bucket_refs[t][b] + 1 + EntryRefs(mgr[t][i].refs)
          /\ bucket_refs[t][b] \in Nat /\ EntryRefs(mgr[t][i].refs) \in Nat
          /\ EntryRefs(refs) = EntryRefs(mgr[t][i].refs) + 1
      BY <3>2, <1>3, <1>7
    <3> QED BY <3>1, <3>2, <3>3
  <2> QED BY <1>1, <1>2, <1>3, <1>5, <1>6, <1>7, <2>1, <2>2, CountsStep
<1>9. CASE ~CopyValid(t)
  <2>1. DropReference(t, i, mgr[t][i].refs)
    BY <1>9 DEF UpgradeLockCheck
  <2> HIDE DEF i
  <2>2. mgr[t][i].total - 1 = bucket_refs'[t][b] + PendingRef(t, b)' + EntryRefs(mgr[t][i].refs)
    BY <1>1, <1>2, <1>3, <1>4
  <2> QED BY <1>1, <1>2, <1>3, <1>5, <1>6, <2>1, <2>2, DropStep
<1> QED BY <1>8, <1>9

LEMMA WriteUnlockStep ==
  ASSUME IInv, NEW t \in Threads, NEW b \in Buckets, NEW c \in Cells, write_unlock(t, b, c)
  PROVE  IInv'
<1> DEFINE i == find_write_lock(t, b)
           refs == OneLess(mgr[t][i].refs, c)
<1>1. /\ pc[t] = "idle" /\ bucket_write_locked(t, b) /\ mgr[t][i].refs[c] # 0
      /\ DropReference(t, i, refs)
      /\ UNCHANGED <<half1, half2, clock, released, pc, copy, rlock, target, bucket_refs>>
  BY DEF write_unlock, bucket_write_locked, cells
<1>2. /\ i \in 1..Len(mgr[t]) /\ mgr[t][i].bucket = b
      /\ mgr[t][i].refs \in [Cells -> Nat] /\ mgr[t][i].total \in Nat \ {0}
      /\ bucket_refs[t][b] \in Nat /\ EntryRefs(mgr[t][i].refs) \in Nat
      /\ mgr[t][i].total = bucket_refs[t][b] + PendingRef(t, b) + EntryRefs(mgr[t][i].refs)
  BY <1>1, HeldLock
<1>3. refs \in [Cells -> Nat] /\ EntryRefs(refs) = EntryRefs(mgr[t][i].refs) - 1
  BY <1>1, <1>2, EntryRefsSum
<1> HIDE DEF i, refs
<1>4. \A x \in Buckets : PendingRef(t, x) = 0 /\ PendingRef(t, x)' = 0
  BY <1>1 DEF PendingRef
<1>5. LockFrame(t) /\ OtherRefs(t, b)
  BY <1>1, <1>4 DEF LockFrame, OtherRefs, IInv, LockInv, TypeOK
<1>6. mgr[t][i].total - 1 = bucket_refs'[t][b] + PendingRef(t, b)' + EntryRefs(refs)
  <2>1. bucket_refs'[t][b] = bucket_refs[t][b]
    BY <1>1
  <2> QED BY SMTT(30), <2>1, <1>2, <1>3, <1>4
<1> QED BY <1>1, <1>2, <1>3, <1>5, <1>6, DropStep DEF Quiet

LEMMA MoveEntryLockStep ==
  ASSUME IInv, NEW t \in Threads, NEW src \in Buckets, NEW dst \in Buckets,
         NEW sc \in Cells, NEW dc \in Cells, move_entry_lock(t, dst, dc, src, sc)
  PROVE  IInv'
<1> DEFINE i == find_write_lock(t, src)
           j == find_write_lock(t, dst)
           li == WithCounts(mgr[t][i], mgr[t][i].total - 1, OneLess(mgr[t][i].refs, sc))
           less == [mgr EXCEPT ![t][i] = li]
           lj == WithCounts(less[t][j], less[t][j].total + 1, OneMore(less[t][j].refs, dc))
<1>1. /\ pc[t] = "idle" /\ bucket_refs[t][src] > 0 /\ bucket_refs[t][dst] > 0
      /\ mgr[t][i].refs[sc] # 0
      /\ UNCHANGED <<word, half1, half2, clock, released, pc, copy, rlock, target, bucket_refs>>
      /\ mgr' = [less EXCEPT ![t][j] = lj]
  BY DEF move_entry_lock, cells
<1>2. /\ TypeOK /\ LockByteOwned /\ ReleasedInv /\ Balanced(t)
      /\ mgr \in [Threads -> Seq(Locks)]
      /\ \A k \in 1..Len(mgr[t]) : mgr[t][k] \in Locks
  BY LockTypes DEF IInv, LockInv, RefcountsBalance, TypeOK
<1>3. Holds(t, src) /\ Holds(t, dst)
  BY <1>1, <1>2 DEF Balanced
<1>4. \A x \in Buckets : PendingRef(t, x) = 0 /\ PendingRef(t, x)' = 0
  BY <1>1 DEF PendingRef
<1>5. /\ i \in 1..Len(mgr[t]) /\ mgr[t][i].bucket = src
      /\ mgr[t][i].refs \in [Cells -> Nat] /\ mgr[t][i].total \in Nat \ {0}
      /\ bucket_refs[t][src] \in Nat /\ EntryRefs(mgr[t][i].refs) \in Nat
      /\ mgr[t][i].total = bucket_refs[t][src] + PendingRef(t, src) + EntryRefs(mgr[t][i].refs)
  BY <1>1, <1>3, HeldLock
<1>6. /\ j \in 1..Len(mgr[t]) /\ mgr[t][j].bucket = dst
      /\ mgr[t][j].refs \in [Cells -> Nat] /\ mgr[t][j].total \in Nat \ {0}
  BY <1>1, <1>3, HeldLock
<1>7. mgr[t][i].total = bucket_refs[t][src] + EntryRefs(mgr[t][i].refs)
  <2>1. PendingRef(t, src) = 0
    BY <1>4
  <2> QED BY <2>1, <1>5
<1>8. /\ OneLess(mgr[t][i].refs, sc) \in [Cells -> Nat]
      /\ EntryRefs(OneLess(mgr[t][i].refs, sc)) = EntryRefs(mgr[t][i].refs) - 1
      /\ EntryRefs(mgr[t][i].refs) > 0
  BY <1>1, <1>5, EntryRefsSum
<1>9. mgr[t][i].total - 1 \in Nat \ {0}
  BY SMTT(30), <1>1, <1>5, <1>7, <1>8
<1>10. /\ li \in Locks /\ li.bucket = src /\ li.total = mgr[t][i].total - 1
       /\ li.refs = OneLess(mgr[t][i].refs, sc)
  <2> DEFINE n == mgr[t][i].total - 1
             r == OneLess(mgr[t][i].refs, sc)
  <2>1. n \in Nat \ {0} /\ r \in [Cells -> Nat] /\ mgr[t][i] \in Locks
    BY <1>2, <1>5, <1>8, <1>9
  <2> HIDE DEF n, r
  <2>2. \A m \in Locks : /\ WithCounts(m, n, r) \in Locks /\ WithCounts(m, n, r).bucket = m.bucket
                         /\ WithCounts(m, n, r).total = n /\ WithCounts(m, n, r).refs = r
    BY <2>1 DEF WithCounts, Locks
  <2> QED BY <2>1, <2>2, <1>5 DEF n, r
<1>11. mgr' = [less EXCEPT ![t][j] = lj] /\ less = [mgr EXCEPT ![t][i] = li]
  BY <1>1
<1>12. lj = WithCounts(less[t][j], less[t][j].total + 1, OneMore(less[t][j].refs, dc))
  OBVIOUS
<1> HIDE DEF i, j, li, less, lj
<1>13. /\ less \in [Threads -> Seq(Locks)] /\ Len(less[t]) = Len(mgr[t]) /\ less[t][i] = li
       /\ \A k \in 1..Len(mgr[t]) : k # i => less[t][k] = mgr[t][k]
       /\ \A u \in Threads \ {t} : less[u] = mgr[u]
  BY <1>2, <1>5, <1>10, <1>11, ManagerUpdate
<1>14. /\ \A k \in 1..Len(less[t]) : less[t][k] \in Locks
       /\ less[t][j] \in Locks /\ less[t][j].bucket = dst /\ j \in 1..Len(less[t])
  BY <1>2, <1>5, <1>6, <1>10, <1>13
<1>15. less[t][j].total + 1 \in Nat \ {0} /\ less[t][j].refs \in [Cells -> Nat]
  BY <1>14 DEF Locks
<1>16. /\ OneMore(less[t][j].refs, dc) \in [Cells -> Nat]
       /\ EntryRefs(OneMore(less[t][j].refs, dc)) = EntryRefs(less[t][j].refs) + 1
       /\ EntryRefs(less[t][j].refs) \in Nat
  BY <1>15, EntryRefsSum
<1>17. /\ lj \in Locks /\ lj.bucket = dst /\ lj.total = less[t][j].total + 1
       /\ lj.refs = OneMore(less[t][j].refs, dc)
  <2> DEFINE n == less[t][j].total + 1
             r == OneMore(less[t][j].refs, dc)
  <2>1. n \in Nat \ {0} /\ r \in [Cells -> Nat] /\ lj = WithCounts(less[t][j], n, r)
    BY <1>12, <1>15, <1>16
  <2> HIDE DEF n, r
  <2>2. \A m \in Locks : /\ WithCounts(m, n, r) \in Locks /\ WithCounts(m, n, r).bucket = m.bucket
                         /\ WithCounts(m, n, r).total = n /\ WithCounts(m, n, r).refs = r
    BY <2>1 DEF WithCounts, Locks
  <2> QED BY <2>1, <2>2, <1>14 DEF n, r
<1>18. /\ mgr' \in [Threads -> Seq(Locks)] /\ Len(mgr'[t]) = Len(less[t]) /\ mgr'[t][j] = lj
       /\ \A k \in 1..Len(less[t]) : k # j => mgr'[t][k] = less[t][k]
       /\ \A u \in Threads \ {t} : mgr'[u] = less[u]
  BY <1>11, <1>13, <1>14, <1>17, ManagerUpdate
<1>19. \A u \in Threads : /\ Len(mgr'[u]) = Len(mgr[u])
                          /\ \A k \in 1..Len(mgr[u]) : mgr'[u][k].bucket = mgr[u][k].bucket
  <2> TAKE u \in Threads
  <2>1. CASE u # t
    BY <2>1, <1>13, <1>18
  <2>2. CASE u = t
    <3>1. Len(mgr'[t]) = Len(mgr[t])
      BY <1>13, <1>18
    <3>2. ASSUME NEW k \in 1..Len(mgr[t])
          PROVE  mgr'[t][k].bucket = mgr[t][k].bucket
      <4>1. CASE k = j
        BY <4>1, <1>6, <1>17, <1>18
      <4>2. CASE k # j /\ k = i
        BY <4>2, <1>5, <1>10, <1>13, <1>18
      <4>3. CASE k # j /\ k # i
        BY <4>3, <1>13, <1>18
      <4> QED BY <4>1, <4>2, <4>3
    <3> QED BY <2>2, <3>1, <3>2
  <2> QED BY <2>1, <2>2
<1>20. LockByteOwned' /\ \A u \in Threads, x \in Buckets : Holds(u, x)' <=> Holds(u, x)
  BY <1>1, <1>2, <1>18, <1>19, CountsKeepLocks
<1>21. ASSUME NEW k \in 1..Len(less[t])
       PROVE  less[t][k].total = bucket_refs[t][mgr[t][k].bucket] + EntryRefs(less[t][k].refs)
  <2>1. CASE k = i
    BY <2>1, <1>5, <1>7, <1>8, <1>10, <1>13
  <2>2. CASE k # i
    <3>1. less[t][k] = mgr[t][k] /\ k \in 1..Len(mgr[t])
      BY <2>2, <1>13
    <3>2. mgr[t][k].bucket \in Buckets /\ PendingRef(t, mgr[t][k].bucket) = 0
      BY <3>1, <1>2, <1>4 DEF Locks
    <3>3. /\ bucket_refs[t][mgr[t][k].bucket] \in Nat
          /\ mgr[t][k].total = bucket_refs[t][mgr[t][k].bucket] + PendingRef(t, mgr[t][k].bucket)
                                 + EntryRefs(mgr[t][k].refs)
      BY <3>1, <3>2, <1>1, <1>2 DEF Balanced, TypeOK
    <3> QED BY <3>1, <3>2, <3>3
  <2> QED BY <2>1, <2>2
<1>22. ASSUME NEW k \in 1..Len(mgr'[t]), NEW x \in Buckets, mgr'[t][k].bucket = x
       PROVE  mgr'[t][k].total = bucket_refs'[t][x] + PendingRef(t, x)' + EntryRefs(mgr'[t][k].refs)
  <2>1. k \in 1..Len(less[t]) /\ mgr[t][k].bucket = x
    BY <1>13, <1>18, <1>19, <1>22
  <2>2. less[t][k].total = bucket_refs[t][x] + EntryRefs(less[t][k].refs)
    BY <2>1, <1>21
  <2>3. /\ bucket_refs'[t][x] = bucket_refs[t][x] /\ PendingRef(t, x)' = 0
        /\ bucket_refs[t][x] \in Nat
    BY <1>1, <1>2, <1>4 DEF TypeOK
  <2>4. CASE k = j
    <3>1. mgr'[t][k].total = less[t][k].total + 1
      BY <2>4, <1>17, <1>18
    <3>2. EntryRefs(mgr'[t][k].refs) = EntryRefs(less[t][k].refs) + 1 /\ EntryRefs(less[t][k].refs) \in Nat
      BY <2>4, <1>16, <1>17, <1>18
    <3> QED BY SMTT(30), <3>1, <3>2, <2>2, <2>3
  <2>5. CASE k # j
    <3>1. mgr'[t][k] = less[t][k]
      BY <2>1, <2>5, <1>18
    <3>2. less[t][k].refs \in [Cells -> Nat]
      BY <2>1, <1>14 DEF Locks
    <3>3. EntryRefs(less[t][k].refs) \in Nat
      BY <3>2, EntryRefsSum
    <3> QED BY <3>1, <3>3, <2>2, <2>3
  <2> QED BY <2>4, <2>5
<1>23. Balanced(t)'
  <2>1. \A x \in Buckets : bucket_refs'[t][x] > 0 => Holds(t, x)'
    BY <1>1, <1>2, <1>20 DEF Balanced
  <2> QED BY <2>1, <1>18, <1>22, BalancedNext
<1>24. TypeOK'
  BY <1>1, <1>2, <1>18 DEF TypeOK
<1>25. ReleasedInv'
  BY <1>1, <1>2, <1>19 DEF ReleasedInv
<1>26. UpgradeOK(t)'
  BY <1>1 DEF UpgradeOK, Reading
<1>27. \A u \in Threads \ {t} : mgr'[u] = mgr[u]
  BY <1>13, <1>18
<1> QED BY <1>1, <1>20, <1>23, <1>24, <1>25, <1>26, <1>27, FrameManager DEF Quiet

(* release_all_locks: Holds leaves out the locks already given back.       *)
LEMMA ReleaseStep ==
  ASSUME IInv, NEW t \in Threads, release_all_locks(t) \/ ReleaseNext(t) \/ ReleaseDone(t)
  PROVE  IInv'
<1>1. TypeOK /\ LockByteOwned /\ ReleasedInv
  BY DEF IInv, LockInv
<1>2. /\ mgr[t] \in Seq(Locks) /\ Len(mgr[t]) \in Nat /\ released[t] \in Nat
      /\ \A k \in 1..Len(mgr[t]) : mgr[t][k].bucket \in Buckets
  BY <1>1, LockTypes DEF TypeOK
<1>3. CASE release_all_locks(t)
  <2>1. /\ pc[t] = "idle" /\ pc'[t] = "release" /\ \A u \in Threads \ {t} : pc'[u] = pc[u]
        /\ UNCHANGED <<word, half1, half2, clock, mgr, released, copy, rlock, target, bucket_refs>>
        /\ pc' \in [Threads -> Labels]
    BY <1>1, <1>3 DEF release_all_locks, Goto, cells, TypeOK, Labels
  <2>2. TypeOK'
    BY <1>1, <2>1 DEF TypeOK
  <2>3. ReleasedInv'
    BY <1>1, <2>1 DEF ReleasedInv
  <2>4. LockByteOwned'
    BY SMTT(30), <1>1, <2>1 DEF LockByteOwned, Holds
  <2>5. UpgradeOK(t)' /\ Balanced(t)'
    BY <2>1 DEF UpgradeOK, Reading, Balanced
  <2> QED BY <2>1, <2>2, <2>3, <2>4, <2>5, FrameManager DEF Quiet, InCall
<1>4. CASE ReleaseNext(t)
  <2> SUFFICES ASSUME NEW r, r = released[t] + 1, NEW b, b = mgr[t][r].bucket
               PROVE  IInv'
    OBVIOUS
  <2>1. /\ pc[t] = "release" /\ r \in 1..Len(mgr[t]) /\ b \in Buckets
        /\ word' = [word EXCEPT ![b].lock = 0]
        /\ released' = [released EXCEPT ![t] = r]
        /\ UNCHANGED <<half1, half2, clock, mgr, pc, copy, rlock, target, bucket_refs>>
    BY SMTT(30), <1>2, <1>4 DEF ReleaseNext, cells
  <2>2. /\ word' \in [Buckets -> Words] /\ word'[b].lock = 0
        /\ \A x \in Buckets \ {b} : word'[x] = word[x]
        /\ \A x \in Buckets : word'[x].seq = word[x].seq
    <3>1. word'[b] = [word[b] EXCEPT !.lock = 0] /\ word[b] \in Words
      BY <1>1, <2>1 DEF TypeOK
    <3>2. word'[b] \in Words /\ word'[b].lock = 0 /\ word'[b].seq = word[b].seq
      BY <3>1 DEF Words
    <3> QED BY <3>2, <1>1, <2>1 DEF TypeOK
  <2>3. /\ released' \in [Threads -> Nat] /\ released'[t] = r
        /\ \A u \in Threads \ {t} : released'[u] = released[u]
    BY <1>1, <2>1 DEF TypeOK
  <2>4. \A k \in 1..Len(mgr[t]) : mgr[t][k].bucket = b => k = r
    BY <1>1, <2>1 DEF LockByteOwned
  <2>5. \A u \in Threads, x \in Buckets : Holds(u, x)' <=> Holds(u, x) /\ ~(u = t /\ x = b)
    <3> TAKE u \in Threads, x \in Buckets
    <3>1. CASE u # t
      BY <3>1, <2>1, <2>3 DEF Holds
    <3>2. CASE u = t
      <4>1. Holds(t, x)' <=> \E k \in 1..Len(mgr[t]) : k > r /\ mgr[t][k].bucket = x
        BY <2>1, <2>3 DEF Holds
      <4>2. Holds(t, x) <=> \E k \in 1..Len(mgr[t]) : k > released[t] /\ mgr[t][k].bucket = x
        BY DEF Holds
      <4>3. \A k \in 1..Len(mgr[t]) : k > r <=> k > released[t] /\ k # r
        BY <1>2
      <4>4. \A k \in 1..Len(mgr[t]) : mgr[t][k].bucket = b <=> k = r
        BY <2>1, <2>4
      <4> QED BY <3>2, <4>1, <4>2, <4>3, <4>4
    <3> QED BY <3>1, <3>2
  <2>6. Holds(t, b)
    BY <1>2, <2>1 DEF Holds
  <2>7. LockByteOwned'
    <3> SUFFICES ASSUME NEW x \in Buckets
                 PROVE /\ word'[x].lock = 1 <=> \E u \in Threads : Holds(u, x)'
                       /\ \A u, v \in Threads : Holds(u, x)' /\ Holds(v, x)' => u = v
                       /\ \A u \in Threads : \A k, m \in 1..Len(mgr'[u]) :
                            mgr'[u][k].bucket = x /\ mgr'[u][m].bucket = x => k = m
      BY DEF LockByteOwned
    <3>1. word'[x].lock = 1 <=> \E u \in Threads : Holds(u, x)'
      BY <1>1, <2>2, <2>5, <2>6 DEF LockByteOwned
    <3>2. \A u, v \in Threads : Holds(u, x)' /\ Holds(v, x)' => u = v
      BY <1>1, <2>5 DEF LockByteOwned
    <3>3. \A u \in Threads : \A k, m \in 1..Len(mgr'[u]) :
            mgr'[u][k].bucket = x /\ mgr'[u][m].bucket = x => k = m
      BY <1>1, <2>1 DEF LockByteOwned
    <3> QED BY <3>1, <3>2, <3>3
  <2>8. TypeOK'
    BY <1>1, <2>1, <2>2, <2>3 DEF TypeOK
  <2>9. ReleasedInv'
    <3> SUFFICES ASSUME NEW u \in Threads
                 PROVE  released'[u] <= Len(mgr[u]) /\ (pc[u] # "release" => released'[u] = 0)
      BY <2>1 DEF ReleasedInv
    <3>1. CASE u = t
      BY <3>1, <1>2, <2>1, <2>3
    <3>2. CASE u # t
      BY <3>2, <1>1, <2>3 DEF ReleasedInv
    <3> QED BY <3>1, <3>2
  <2>10. UpgradeOK(t)' /\ Balanced(t)'
    BY <2>1 DEF UpgradeOK, Reading, Balanced
  <2> QED BY <2>1, <2>2, <2>3, <2>7, <2>8, <2>9, <2>10, FrameManager DEF Quiet, InCall
<1>5. CASE ReleaseDone(t)
  <2>1. /\ pc[t] = "release" /\ released[t] = Len(mgr[t]) /\ pc'[t] = "idle"
        /\ mgr'[t] = <<>> /\ released'[t] = 0
        /\ \A x \in Buckets : bucket_refs'[t][x] = 0
        /\ \A u \in Threads \ {t} : /\ pc'[u] = pc[u] /\ mgr'[u] = mgr[u]
                                    /\ released'[u] = released[u] /\ bucket_refs'[u] = bucket_refs[u]
        /\ UNCHANGED <<word, half1, half2, clock, copy, rlock, target>>
    BY <1>1, <1>5 DEF ReleaseDone, Goto, cells, TypeOK
  <2>2. /\ mgr' \in [Threads -> Seq(Locks)] /\ released' \in [Threads -> Nat]
        /\ pc' \in [Threads -> Labels] /\ bucket_refs' \in [Threads -> [Buckets -> Nat]]
    BY <1>1, <1>5 DEF ReleaseDone, Goto, TypeOK, Labels
  <2>3. TypeOK'
    BY <1>1, <2>1, <2>2 DEF TypeOK
  <2>4. \A x \in Buckets : ~Holds(t, x) /\ ~Holds(t, x)'
    BY <1>2, <2>1 DEF Holds
  <2>5. \A u \in Threads, x \in Buckets : Holds(u, x)' <=> Holds(u, x)
    <3> TAKE u \in Threads, x \in Buckets
    <3>1. CASE u = t
      BY <3>1, <2>4
    <3>2. CASE u # t
      BY <3>2, <2>1 DEF Holds
    <3> QED BY <3>1, <3>2
  <2>6. LockByteOwned'
    <3> SUFFICES ASSUME NEW x \in Buckets
                 PROVE /\ word'[x].lock = 1 <=> \E u \in Threads : Holds(u, x)'
                       /\ \A u, v \in Threads : Holds(u, x)' /\ Holds(v, x)' => u = v
                       /\ \A u \in Threads : \A k, m \in 1..Len(mgr'[u]) :
                            mgr'[u][k].bucket = x /\ mgr'[u][m].bucket = x => k = m
      BY DEF LockByteOwned
    <3>1. word'[x].lock = 1 <=> \E u \in Threads : Holds(u, x)'
      BY <1>1, <2>1, <2>5 DEF LockByteOwned
    <3>2. \A u, v \in Threads : Holds(u, x)' /\ Holds(v, x)' => u = v
      BY <1>1, <2>5 DEF LockByteOwned
    <3>3. \A u \in Threads : \A k, m \in 1..Len(mgr'[u]) :
            mgr'[u][k].bucket = x /\ mgr'[u][m].bucket = x => k = m
      <4> TAKE u \in Threads
      <4>1. CASE u = t
        BY <4>1, <2>1
      <4>2. CASE u # t
        BY <4>2, <1>1, <2>1 DEF LockByteOwned
      <4> QED BY <4>1, <4>2
    <3> QED BY <3>1, <3>2, <3>3
  <2>7. ReleasedInv'
    <3> SUFFICES ASSUME NEW u \in Threads
                 PROVE  released'[u] <= Len(mgr'[u]) /\ (pc'[u] # "release" => released'[u] = 0)
      BY DEF ReleasedInv
    <3>1. CASE u = t
      BY <3>1, <2>1
    <3>2. CASE u # t
      BY <3>2, <1>1, <2>1 DEF ReleasedInv
    <3> QED BY <3>1, <3>2
  <2>8. UpgradeOK(t)' /\ Balanced(t)'
    <3>1. \A k \in 1..Len(mgr'[t]) : FALSE
      BY <2>1
    <3>2. \A x \in Buckets : ~(bucket_refs'[t][x] > 0)
      BY <2>1
    <3>3. Balanced(t)'
      BY <2>2, <3>1, <3>2, BalancedNext
    <3> QED BY <2>1, <3>3 DEF UpgradeOK, Reading
  <2> QED BY <2>1, <2>3, <2>6, <2>7, <2>8, FrameManager DEF Quiet, InCall
<1> QED BY <1>3, <1>4, <1>5

-----------------------------------------------------------------------------
(* The invariant holds.                                                    *)

LEMMA ReadLockStep ==
  ASSUME IInv, NEW t \in Threads,
         (\E b \in Buckets : read_lock_bucket(t, b)) \/ read_unlock_bucket(t)
  PROVE  IInv'
<1>1. /\ TypeOK /\ pc[t] = "idle"
      /\ UNCHANGED <<word, half1, half2, clock, mgr, released, pc, copy, target, bucket_refs>>
      /\ \A u \in Threads \ {t} : rlock'[u] = rlock[u]
  BY DEF IInv, LockInv, TypeOK, read_lock_bucket, read_unlock_bucket, cells
<1>2. /\ rlock'[t] \in ReadLocks \cup {None}
      /\ rlock'[t] # None => /\ rlock'[t].seq = word[rlock'[t].bucket].seq
                             /\ rlock'[t].cells = <<half1[rlock'[t].bucket], half2[rlock'[t].bucket]>>
                             /\ rlock'[t].bucket \in Buckets
  <2>1. CASE read_unlock_bucket(t)
    BY <1>1, <2>1 DEF read_unlock_bucket, TypeOK
  <2>2. ASSUME NEW b \in Buckets, read_lock_bucket(t, b)
        PROVE  /\ rlock'[t] \in ReadLocks
               /\ rlock'[t].seq = word[rlock'[t].bucket].seq
               /\ rlock'[t].cells = <<half1[rlock'[t].bucket], half2[rlock'[t].bucket]>>
               /\ rlock'[t].bucket \in Buckets
    <3>1. rlock'[t] = [bucket |-> b, seq |-> word[b].seq, cells |-> <<half1[b], half2[b]>>]
      BY <1>1, <2>2 DEF read_lock_bucket, TypeOK
    <3>2. word[b].seq \in 0..(SeqMod - 1) /\ <<half1[b], half2[b]>> \in Contents \X Contents
      BY <1>1 DEF TypeOK, Words
    <3> QED BY <3>1, <3>2 DEF ReadLocks
  <2> QED BY <2>1, <2>2
<1>3. TypeOK'
  <2>1. rlock' \in [Threads -> ReadLocks \cup {None}]
    BY <1>1, <1>2 DEF TypeOK, read_lock_bucket, read_unlock_bucket
  <2> QED BY <1>1, <2>1 DEF TypeOK
<1>4. LockInv'
  <2>1. pc[t] \notin InCall /\ pc'[t] \notin InCall /\ ~Reading(t)'
    BY <1>1 DEF InCall, Reading
  <2> QED BY <1>1, <1>3, <2>1, FrameLocks DEF IInv
<1>5. WriterInv'
  BY <1>1 DEF IInv, SeqlockInv, WriterInv, WriterOK, Writing, MidWrite, Holds
<1>6. SeqInv' /\ HalvesInv'
  BY <1>1 DEF IInv, SeqlockInv, SeqInv, HalvesInv, MidWrite
<1>7. ReaderInv' /\ NoTornRead'
  BY <1>1 DEF IInv, SeqlockInv, ReaderInv, CopyOK, CopyValid, NoTornRead, Reading
<1>8. ReadLockInv'
  <2> SUFFICES ASSUME NEW u \in Threads, rlock'[u] # None
               PROVE  /\ rlock'[u].seq <= word[rlock'[u].bucket].seq
                      /\ ~Odd(rlock'[u].seq) /\ word[rlock'[u].bucket].seq = rlock'[u].seq =>
                           rlock'[u].cells = <<half1[rlock'[u].bucket], half2[rlock'[u].bucket]>>
    BY <1>1 DEF ReadLockInv, ReadLockValid
  <2>1. CASE u = t
    <3>1. word[rlock'[t].bucket].seq \in Nat
      BY <1>1, <1>2, <2>1, SeqModAssumption DEF TypeOK, Words
    <3> QED BY <2>1, <3>1, <1>2
  <2>2. CASE u # t
    BY <2>2, <1>1 DEF IInv, SeqlockInv, ReadLockInv, ReadLockValid
  <2> QED BY <2>1, <2>2
<1> QED BY <1>4, <1>5, <1>6, <1>7, <1>8 DEF IInv, SeqlockInv

LEMMA InitIInv == Init => IInv
<1> SUFFICES ASSUME Init PROVE IInv
  OBVIOUS
<1>1. TypeOK
  <2>1. 0 \in 0..MaxWrites /\ [lock |-> 0, seq |-> 0] \in Words
    BY SeqModAssumption DEF Words
  <2> QED BY <2>1 DEF Init, TypeOK, Contents, Labels
<1>2. \A t \in Threads : mgr[t] = <<>> /\ pc[t] = "idle" /\ released[t] = 0
  BY DEF Init
<1>3. \A t \in Threads, b \in Buckets : ~Holds(t, b)
  BY <1>2 DEF Holds
<1>4. ReleasedInv
  <2> SUFFICES ASSUME NEW t \in Threads
               PROVE  released[t] <= Len(mgr[t]) /\ (pc[t] # "release" => released[t] = 0)
    BY DEF ReleasedInv
  <2>1. mgr[t] = <<>> /\ released[t] = 0
    BY <1>2
  <2>2. Len(mgr[t]) = 0
    BY <2>1
  <2> QED BY <2>1, <2>2
<1>5. LockByteOwned
  BY <1>2, <1>3 DEF LockByteOwned, Init
<1>6. UpgradeInv
  BY <1>2 DEF UpgradeInv, UpgradeOK, Reading
<1>7. RefcountsBalance
  BY <1>2 DEF RefcountsBalance, Balanced, Init
<1>8. WriterInv
  BY <1>2 DEF WriterInv, Writing
<1>9. SeqInv
  BY DEF Init, SeqInv, Odd
<1>10. HalvesInv
  BY DEF Init, HalvesInv
<1>11. ReaderInv /\ ReadLockInv /\ NoTornRead
  BY DEF Init, ReaderInv, ReadLockInv, NoTornRead
<1> QED
  BY <1>1, <1>4, <1>5, <1>6, <1>7, <1>8, <1>9, <1>10, <1>11 DEF IInv, LockInv, SeqlockInv

LEMMA CallInv ==
  ASSUME IInv, NEW t \in Threads, Call(t)
  PROVE  IInv'
<1>1. ASSUME NEW b \in Buckets, release_bucket_lock(t, b)
      PROVE  IInv'
  BY <1>1, ReleaseBucketLockStep DEF release_bucket_lock, cells, IInv, LockInv, TypeOK
<1>2. ASSUME NEW b \in Buckets, NEW c \in Cells, write_lock_entry_in_locked_bucket(t, b, c)
      PROVE  IInv'
  BY <1>2, EntryReferenceStep DEF write_lock_entry_in_locked_bucket, cells
<1>3. CASE UpgradeLockHeld(t)
  <2>1. copy[t].bucket \in Buckets /\ copy[t].cell \in Cells
    BY <1>3 DEF UpgradeLockHeld, IInv, LockInv, TypeOK, Copies
  <2> QED BY <1>3, <2>1, EntryReferenceStep DEF UpgradeLockHeld, cells
<1>4. ASSUME NEW b \in Buckets, NEW c \in Cells, read_entry(t, b, c)
      PROVE  IInv'
  BY <1>4, ReadSeq1Step DEF read_entry
<1>5. CASE (\E b \in Buckets : read_lock_bucket(t, b)) \/ read_unlock_bucket(t)
  BY <1>5, ReadLockStep
<1>6. ASSUME NEW b \in Buckets, write_lock_bucket(t, b)
      PROVE  IInv'
  BY <1>6, WriteLockBucketStep
<1>7. ASSUME NEW b \in Buckets, NEW c \in Cells, write_entry(t, b, c) \/ write_unlock(t, b, c)
      PROVE  IInv'
  BY <1>7, WriteEntryStep, WriteUnlockStep
<1>8. ASSUME NEW b1 \in Buckets, NEW b2 \in Buckets, NEW c1 \in Cells, NEW c2 \in Cells,
             move_entry_lock(t, b1, c1, b2, c2)
      PROVE  IInv'
  BY <1>8, MoveEntryLockStep
<1>9. CASE UpgradeBucketLockHeld(t) \/ UpgradeBucketLockTake(t) \/ UpgradeLockTake(t)
             \/ release_all_locks(t)
  BY <1>9, UpgradeBucketLockHeldStep, UpgradeBucketLockTakeStep, UpgradeLockTakeStep, ReleaseStep
<1> QED
  BY <1>1, <1>2, <1>3, <1>4, <1>5, <1>6, <1>7, <1>8, <1>9 DEF Call

LEMMA StutterIInv == IInv /\ UNCHANGED vars => IInv'
<1> SUFFICES ASSUME IInv, UNCHANGED vars PROVE IInv'
  OBVIOUS
<1>1. UNCHANGED <<word, half1, half2, clock, mgr, released, pc, copy, rlock, target, bucket_refs>>
  BY DEF vars
<1>2. \A t \in Threads, b \in Buckets : Holds(t, b)' <=> Holds(t, b)
  BY <1>1 DEF Holds
<1>3. TypeOK'
  BY <1>1 DEF IInv, LockInv, TypeOK
<1>4. ReleasedInv' /\ LockByteOwned' /\ UpgradeInv'
  BY <1>1 DEF IInv, LockInv, ReleasedInv, LockByteOwned, Holds, UpgradeInv, UpgradeOK, Reading
<1>5. RefcountsBalance'
  BY <1>1 DEF IInv, LockInv, RefcountsBalance, Balanced, PendingRef, EntryRefs, Cells, Holds
<1>6. SeqlockInv'
  BY <1>1 DEF IInv, SeqlockInv, WriterInv, WriterOK, Writing, MidWrite, Holds, SeqInv, HalvesInv,
              ReaderInv, CopyOK, CopyValid, ReadLockInv, ReadLockValid, NoTornRead, Reading
<1> QED BY <1>3, <1>4, <1>5, <1>6 DEF IInv, LockInv

LEMMA NextIInv == IInv /\ [Next]_vars => IInv'
<1> SUFFICES ASSUME IInv, [Next]_vars PROVE IInv'
  OBVIOUS
<1>1. ASSUME NEW t \in Threads, Call(t) \/ ReadStep(t) \/ WriteStep(t)
      PROVE  IInv'
  BY <1>1, CallInv, ReadStepInv, WriteStepInv
<1>2. ASSUME NEW t \in Threads, LockStep(t)
      PROVE  IInv'
  BY <1>2, UpgradeBucketLockCheckStep, UpgradeLockCheckStep, ReleaseStep DEF LockStep
<1>3. CASE UNCHANGED vars
  BY <1>3, StutterIInv
<1> QED BY <1>1, <1>2, <1>3 DEF Next

(* IInv holds throughout every behaviour of the layer.                     *)
THEOREM Invariance == Spec => []IInv
BY InitIInv, NextIInv, PTL DEF Spec

-----------------------------------------------------------------------------
(* What follows from it.                                                   *)

(* Every variable keeps the shape of the C object it stands for.           *)
THEOREM TypeCorrect == Spec => []TypeOK
<1>1. IInv => TypeOK
  BY DEF IInv, LockInv
<1> QED BY <1>1, Invariance, PTL

(* Mutual exclusion of the bucket write locks: the lock byte is set        *)
(* exactly while one lock manager lists the bucket, once.                  *)
THEOREM MutualExclusion == Spec => []LockByteOwned
<1>1. IInv => LockByteOwned
  BY DEF IInv, LockInv
<1> QED BY <1>1, Invariance, PTL

(* The reference counts add up, so a lock is given back with its last      *)
(* reference and not before.                                               *)
THEOREM CountsAddUp == Spec => []RefcountsBalance
<1>1. IInv => RefcountsBalance
  BY DEF IInv, LockInv
<1> QED BY <1>1, Invariance, PTL

(* read_entry never returns halves of two writes.                          *)
THEOREM ReadsAreWhole == Spec => []NoTornRead
<1>1. IInv => NoTornRead
  BY DEF IInv, SeqlockInv
<1> QED BY <1>1, Invariance, PTL

(* A local copy that validates is what its cell holds.                     *)
THEOREM ValidationIsSound == Spec => []ValidCopyIsCurrent
<1>1. IInv => ValidCopyIsCurrent
  BY DEF IInv, SeqlockInv, ReaderInv, CopyOK, ValidCopyIsCurrent, Reading
<1> QED BY <1>1, Invariance, PTL

(* A sequence number is odd exactly during a write of its bucket.          *)
THEOREM OddOnlyDuringWrites == Spec => []OddSeqIsWritten
<1>1. IInv => OddSeqIsWritten
  <2> SUFFICES ASSUME IInv, NEW b \in Buckets
               PROVE  Odd(word[b].seq) <=> \E t \in Threads : MidWrite(t) /\ target[t].bucket = b
    BY DEF OddSeqIsWritten, MidWrite
  <2>1. Odd(word[b].seq) => \E t \in Threads : MidWrite(t) /\ target[t].bucket = b
    BY DEF IInv, SeqlockInv, SeqInv
  <2>2. ASSUME NEW t \in Threads, MidWrite(t), target[t].bucket = b
        PROVE  Odd(word[b].seq)
    <3>1. Writing(t)
      BY <2>2 DEF MidWrite, Writing
    <3>2. target[t].word.seq \in Nat /\ WriterOK(t)
      BY <3>1, WriterFacts DEF IInv, SeqlockInv, WriterInv
    <3> QED BY <2>2, <3>2 DEF WriterOK, Odd
  <2> QED BY <2>1, <2>2
<1> QED BY <1>1, Invariance, PTL

(* A bucket held by a thread that is not writing has an even number.       *)
LEMMA HeldIsEven ==
  ASSUME IInv, NEW t \in Threads, NEW b \in Buckets, Holds(t, b), ~Writing(t)
  PROVE  ~Odd(word[b].seq)
<1> SUFFICES ASSUME NEW u \in Threads, MidWrite(u), target[u].bucket = b
             PROVE  FALSE
  BY DEF IInv, SeqlockInv, SeqInv
<1>1. Writing(u)
  BY DEF MidWrite, Writing
<1>2. Holds(u, b)
  BY <1>1 DEF IInv, SeqlockInv, WriterInv, WriterOK
<1>3. u = t
  BY <1>2 DEF IInv, LockInv, LockByteOwned
<1> QED BY <1>1, <1>3

(* The end of an upgrade is the step that checks the sequence number.      *)
LEMMA UpgradeEnds ==
  ASSUME TypeOK, Next, NEW t \in Threads, pc'[t] = "idle"
  PROVE  /\ pc[t] = "upgrade_bucket" => UpgradeBucketLockCheck(t)
         /\ pc[t] = "upgrade_entry" => UpgradeLockCheck(t)
<1> SUFFICES ASSUME pc[t] \in {"upgrade_bucket", "upgrade_entry"}
             PROVE  UpgradeBucketLockCheck(t) \/ UpgradeLockCheck(t)
  BY DEF UpgradeBucketLockCheck, UpgradeLockCheck
<1>1. PICK u \in Threads : Call(u) \/ ReadStep(u) \/ WriteStep(u) \/ LockStep(u)
  BY DEF Next
<1>2. \A v \in Threads : (\E l : pc' = [pc EXCEPT ![v] = l]) => (v # t => pc'[t] = pc[t])
  BY DEF TypeOK
<1>3. CASE Call(u)
  <2> DEFINE Own == pc[u] = "idle" /\ (pc' = pc \/ \E l : pc' = [pc EXCEPT ![u] = l])
  <2>1. ASSUME NEW b \in Buckets,
               read_lock_bucket(u, b) \/ write_lock_bucket(u, b) \/ release_bucket_lock(u, b)
        PROVE  Own
    BY <2>1 DEF read_lock_bucket, write_lock_bucket, release_bucket_lock
  <2>2. ASSUME NEW b \in Buckets, NEW c \in Cells,
               \/ read_entry(u, b, c) \/ write_entry(u, b, c)
               \/ write_lock_entry_in_locked_bucket(u, b, c) \/ write_unlock(u, b, c)
        PROVE  Own
    BY <2>2 DEF read_entry, ReadSeq1, write_entry, write_lock_entry_in_locked_bucket, write_unlock, Goto
  <2>3. ASSUME NEW b1 \in Buckets, NEW b2 \in Buckets, NEW c1 \in Cells, NEW c2 \in Cells,
               move_entry_lock(u, b1, c1, b2, c2)
        PROVE  Own
    BY <2>3 DEF move_entry_lock
  <2>4. ASSUME read_unlock_bucket(u) \/ UpgradeBucketLockHeld(u) \/ UpgradeLockHeld(u)
        PROVE  Own
    BY <2>4 DEF read_unlock_bucket, UpgradeBucketLockHeld, UpgradeLockHeld
  <2>5. ASSUME UpgradeBucketLockTake(u) \/ UpgradeLockTake(u) \/ release_all_locks(u)
        PROVE  Own
    BY <2>5 DEF UpgradeBucketLockTake, UpgradeLockTake, release_all_locks, Goto
  <2>6. Own
    BY <1>3, <2>1, <2>2, <2>3, <2>4, <2>5 DEF Call
  <2> QED BY <2>6, <1>2
<1>4. CASE ReadStep(u)
  <2>1. Reading(u) /\ \E l : pc' = [pc EXCEPT ![u] = l]
    BY <1>4 DEF ReadStep, ReadRetry, ReadSeq1, ReadPart1, ReadPart2, ReadSeq2, Goto, Reading
  <2> QED BY <2>1, <1>2 DEF Reading
<1>5. CASE WriteStep(u)
  <2>1. Writing(u) /\ \E l : pc' = [pc EXCEPT ![u] = l]
    BY <1>5 DEF WriteStep, WriteSeqOdd, WritePart1, WritePart2, WriteSeqEven, Goto, Writing
  <2> QED BY <2>1, <1>2 DEF Writing
<1>6. CASE LockStep(u)
  <2>1. CASE u = t
    BY <2>1, <1>6 DEF LockStep, ReleaseNext, ReleaseDone
  <2>2. CASE u # t
    <3>1. pc' = pc \/ \E l : pc' = [pc EXCEPT ![u] = l]
      BY <1>6 DEF LockStep, ReleaseNext, ReleaseDone, UpgradeBucketLockCheck, UpgradeLockCheck, Goto
    <3> QED BY SMTT(30), <2>2, <3>1, <1>2
  <2> QED BY <2>1, <2>2
<1> QED BY <1>1, <1>3, <1>4, <1>5, <1>6

(* An upgrade that succeeds covers what was read before the lock: nothing  *)
(* was written between the read and the lock.                              *)
THEOREM UpgradesAreFresh == Spec => UpgradeKeepsFresh
<1>1. ASSUME IInv, Next, NEW t \in Threads
      PROVE  BucketUpgradeFresh(t) /\ EntryUpgradeFresh(t)
  <2>1. TypeOK /\ LockByteOwned /\ UpgradeOK(t) /\ ReleasedInv
    BY <1>1 DEF IInv, LockInv, UpgradeInv
  <2>2. ASSUME pc[t] = "upgrade_bucket", pc'[t] = "idle", mgr'[t] = mgr[t]
        PROVE  rlock[t].cells = <<half1[rlock[t].bucket], half2[rlock[t].bucket]>>
    <3>1. UpgradeBucketLockCheck(t)
      BY <1>1, <2>1, <2>2, UpgradeEnds
    <3> DEFINE b == rlock[t].bucket
               i == find_write_lock(t, b)
    <3>2. rlock[t] # None /\ b \in Buckets /\ Holds(t, b)
      BY <2>1, <2>2 DEF UpgradeOK, TypeOK, ReadLocks
    <3>3. /\ i \in 1..Len(mgr[t]) /\ mgr[t][i].bucket = b
          /\ mgr[t][i].refs \in [Cells -> Nat] /\ mgr[t][i].total \in Nat \ {0}
      BY <1>1, <2>2, <3>2, HeldLock
    <3>4. mgr \in [Threads -> Seq(Locks)] /\ mgr[t] \in Seq(Locks) /\ Len(mgr[t]) \in Nat
      BY <2>1 DEF TypeOK
    <3>5. ReadLockValid(t)
      <4> SUFFICES ASSUME DropReference(t, i, mgr[t][i].refs)
                   PROVE  FALSE
        BY <3>1 DEF UpgradeBucketLockCheck
      <4> HIDE DEF i, b
      <4>1. CASE mgr[t][i].total = 1
        <5>1. mgr'[t] = remove_lock(t, i)
          BY <4>1, <3>4 DEF DropReference
        <5>2. Len(mgr'[t]) = Len(mgr[t]) - 1
          BY <5>1, <3>3, <3>4 DEF remove_lock
        <5> QED BY <5>2, <2>2, <3>4
      <4>2. CASE mgr[t][i].total # 1
        <5> DEFINE m == mgr[t][i].total - 1
                   r == mgr[t][i].refs
        <5>1. mgr' = [mgr EXCEPT ![t][i] = WithCounts(mgr[t][i], m, r)]
          BY <4>2 DEF DropReference
        <5>2. mgr'[t][i] = WithCounts(mgr[t][i], m, r)
          BY <5>1, <3>3, <3>4
        <5>3. mgr'[t][i].total = mgr[t][i].total - 1
          BY <5>2 DEF WithCounts
        <5> QED BY <5>3, <2>2, <3>3
      <4> QED BY <4>1, <4>2
    <3>6. ~Odd(rlock[t].seq)
      <4>1. ~Writing(t)
        BY <2>2 DEF Writing
      <4>2. ~Odd(word[b].seq)
        BY <1>1, <3>2, <4>1, HeldIsEven
      <4> QED BY <3>5, <4>2 DEF ReadLockValid
    <3> QED BY <1>1, <3>2, <3>5, <3>6 DEF IInv, SeqlockInv, ReadLockInv
  <2>3. ASSUME pc[t] = "upgrade_entry", pc'[t] = "idle",
               ~EntryLocked(t, copy[t].bucket, copy[t].cell),
               EntryLocked(t, copy[t].bucket, copy[t].cell)'
        PROVE  /\ copy[t].v1 = half1[copy[t].bucket][copy[t].cell]
               /\ copy[t].v2 = half2[copy[t].bucket][copy[t].cell]
    <3>1. UpgradeLockCheck(t)
      BY <1>1, <2>1, <2>3, UpgradeEnds
    <3> SUFFICES ASSUME NEW b, b = copy[t].bucket, NEW c, c = copy[t].cell
                 PROVE  /\ copy[t].v1 = half1[b][c]
                        /\ copy[t].v2 = half2[b][c]
      OBVIOUS
    <3> DEFINE i == find_write_lock(t, b)
    <3>2. copy[t] # None /\ b \in Buckets /\ c \in Cells /\ Holds(t, b)
      BY <2>1, <2>3 DEF UpgradeOK, TypeOK, Copies
    <3>3. /\ i \in 1..Len(mgr[t]) /\ mgr[t][i].bucket = b
          /\ mgr[t][i].refs \in [Cells -> Nat] /\ mgr[t][i].total \in Nat \ {0}
      BY <1>1, <2>3, <3>2, HeldLock
    <3>4. mgr \in [Threads -> Seq(Locks)] /\ mgr[t] \in Seq(Locks) /\ Len(mgr[t]) \in Nat
          /\ released[t] = 0 /\ mgr[t][i] \in Locks
      BY <2>1, <2>3, <3>3, LockTypes DEF TypeOK, ReleasedInv
    <3>5. CopyValid(t)
      <4> SUFFICES ASSUME DropReference(t, i, mgr[t][i].refs)
                   PROVE  FALSE
        BY <3>1 DEF UpgradeLockCheck
      <4>1. copy' = copy /\ released' = released
        BY SMTT(30), <3>1 DEF UpgradeLockCheck
      <4>2. PICK k \in 1..Len(mgr'[t]) : mgr'[t][k].bucket = b /\ mgr'[t][k].refs[c] # 0
        BY <2>3, <4>1 DEF EntryLocked
      <4>3. \A j \in 1..Len(mgr[t]) : ~(mgr[t][j].bucket = b /\ mgr[t][j].refs[c] # 0)
        BY <2>3 DEF EntryLocked
      <4> HIDE DEF i
      <4>4. CASE mgr[t][i].total = 1
        <5>1. \E j \in 1..Len(mgr[t]) : mgr'[t][k] = mgr[t][j]
          BY <4>1, <4>4, <2>1, <3>2, <3>3, <3>4, DropReferenceExclusive
        <5> QED BY <5>1, <4>2, <4>3
      <4>5. CASE mgr[t][i].total # 1
        <5> DEFINE l == WithCounts(mgr[t][i], mgr[t][i].total - 1, mgr[t][i].refs)
        <5>1. mgr' = [mgr EXCEPT ![t][i] = l]
          BY <4>5 DEF DropReference
        <5>2. mgr[t][i].total - 1 \in Nat \ {0}
          BY <4>5, <3>3
        <5>3. l \in Locks /\ l.bucket = mgr[t][i].bucket /\ l.refs = mgr[t][i].refs
          BY <5>2, <3>3, <3>4 DEF Locks, WithCounts
        <5> HIDE DEF l
        <5>4. /\ Len(mgr'[t]) = Len(mgr[t]) /\ mgr'[t][i] = l
              /\ \A j \in 1..Len(mgr[t]) : j # i => mgr'[t][j] = mgr[t][j]
          BY <5>1, <5>3, <3>3, <3>4, ManagerUpdate
        <5>5. k \in 1..Len(mgr[t]) /\ mgr'[t][k].bucket = mgr[t][k].bucket
              /\ mgr'[t][k].refs = mgr[t][k].refs
          <6>1. CASE k = i
            BY <6>1, <5>3, <5>4, <3>3
          <6>2. CASE k # i
            BY <6>2, <5>4
          <6> QED BY <6>1, <6>2
        <5> QED BY <5>5, <4>2, <4>3
      <4> QED BY <4>4, <4>5
    <3> QED BY <1>1, <2>3, <3>2, <3>5 DEF IInv, SeqlockInv, ReaderInv, CopyOK
  <2>4. BucketUpgradeFresh(t)
    BY <2>2 DEF BucketUpgradeFresh
  <2>5. EntryUpgradeFresh(t)
    BY <2>3 DEF EntryUpgradeFresh, EntryLocked
  <2> QED BY <2>4, <2>5
<1>2. IInv /\ [Next]_vars => [\A t \in Threads : BucketUpgradeFresh(t) /\ EntryUpgradeFresh(t)]_vars
  BY <1>1
<1> QED BY <1>2, Invariance, PTL DEF Spec, UpgradeKeepsFresh
=============================================================================
