------------------------- MODULE ConcurrentTrieProofs --------------------------
(***************************************************************************)
(* Every step of ConcurrentTrie keeps the invariant of                     *)
(* ConcurrentTrieInvariant.  From it follow, for any threads, programs and *)
(* keys, that a search finds exactly the keys of the index in every state, *)
(* that every step of a call for a single key takes the effect of the call *)
(* or none, and for programs without iterators that they are linearizable. *)
(***************************************************************************)
EXTENDS ConcurrentTrieInvariant

-----------------------------------------------------------------------------
(* Each step of an insert and of an iterator keeps the invariant. *)

(* Locking the end of the path, in the state the copies on the path were   *)
(* read in, keeps the invariant.                                           *)
LEMMA LockPathKeeps ==
  ASSUME IInv, NEW t \in Threads, LockPath(t)
  PROVE  IInv'
<1>1. SharedInv /\ DomainInv /\ ThreadInv(t) /\ CallInv(t) /\ nodes \in NodeMaps /\ Frame(t)
  BY FrameCreateLeaf DEF IInv, SharedInv, ThreadInv, NodesOK, create_leaf
<1> DEFINE p == path[t]
           c == Last(path[t])
           S == {d.name : d \in CopiesToLock(path[t])}
<1>2. /\ pc[t] = "descend" /\ call[t].op \in PutCalls /\ NameBelow(c, KeyOf(t)) = NULL
      /\ c.value.type \in {"BITMAP", "LEAF"} /\ (c.value.type = "LEAF" => ~HasKey(c, KeyOf(t)))
  BY DEF LockPath, At
<1>3. call[t].op \notin IterCalls /\ call[t].key \in Keys /\ KeyOf(t) = call[t].key /\ Guarded(t)
  BY <1>1, <1>2, Caller DEF PutCalls, IterCalls
<1>4. /\ PathOK(nodes, Trie, KeyOf(t), p) /\ p \in Seq(Copies) /\ Len(p) > 0
  BY <1>1, <1>2, <1>3, PathEnd DEF RestPcs
<1>5. CASE Retry(t)
  BY <1>2, <1>5, RetryKeeps
<1>6. CASE /\ \A d \in CopiesToLock(path[t]) : CanLock(d)
           /\ nodes' = LockNodes(nodes, t, S) /\ pc' = [pc EXCEPT ![t] = "pred"]
           /\ UNCHANGED <<is_empty, calls, call, locals, iter, index, cursor>>
  <2>1. ASSUME NEW i \in LockPositions(p)
        PROVE  /\ i \in 1..Len(p) /\ p[i].name \in S /\ p[i].name \in Names /\ p[i].name \in Trie
               /\ nodes[p[i].name].lock = NULL /\ nodes[p[i].name].seq = p[i].seq /\ nodes[p[i].name].value = p[i].value
    <3>1. i \in 1..Len(p)
      BY <1>4, LockPositionsPart
    <3>2. OnPath(nodes, Trie, KeyOf(t), p[i]) /\ CopyIn(nodes, p[i])
      BY <1>4, <3>1 DEF PathOK, OnPath
    <3>3. p[i] \in CopiesToLock(path[t])
      BY DEF CopiesToLock
    <3>4. CanLock(p[i]) /\ p[i].name \in S
      BY <1>6, <3>3
    <3>5. p[i].name \in Trie
      BY <3>2 DEF OnPath
    <3> QED BY <3>1, <3>2, <3>4, <3>5, Lockable
  <2>2. ASSUME NEW n \in S PROVE \E i \in LockPositions(p) : n = p[i].name
    BY DEF CopiesToLock
  <2> HIDE DEF S, p, c
  <2>3. S \in SUBSET Names /\ \A n \in S : n \in Trie /\ nodes[n].lock = NULL
    BY <2>1, <2>2
  <2>4. /\ nodes' \in NodeMaps
        /\ \A n \in Names : nodes'[n].value = nodes[n].value /\ nodes'[n].seq = nodes[n].seq
        /\ \A n \in S : nodes'[n].lock = t
        /\ \A n \in Names \ S : nodes'[n] = nodes[n]
    BY <1>1, <1>6, <2>3, LocksNodes
  <2>5. /\ pc'[t] = "pred" /\ path'[t] = path[t] /\ call'[t] = call[t] /\ calls'[t] = calls[t] /\ iter'[t] = iter[t]
        /\ is_empty' = is_empty /\ index' = index
    BY <1>1, <1>6 DEF DomainInv, locals
  <2>6. Hidden(t)' = Hidden(t)
    BY <1>2, <2>5, Nowhere, NowhereNext
  <2>7. ~is_empty
    BY <1>1, <1>2 DEF SharedInv, EmptyInv, RestPcs
  <2>8. /\ NodeFrame(t) /\ Trie' = Trie
        /\ NodesOK' /\ StructInv' /\ IndexInv' /\ EmptyInv' /\ UnusedInv'
    <3>1. \A u \in Threads \ {t}, n \in Names : nodes[n].lock = u <=> nodes'[n].lock = u
      BY <2>3, <2>4, NoThread
    <3>2. \A n \in Names : nodes'[n].lock # NULL /\ nodes[n].lock = NULL => n = Root \/ (~is_empty /\ nodes[n].value # Unused)
      BY <2>3, <2>4, <2>7, InTrie
    <3> QED BY <1>1, <2>4, <2>5, <2>6, <2>7, <3>1, <3>2, OnlyLocks
  <2>9. CallInv(t)'
    BY <1>1, <1>2, <2>5 DEF CallInv, AllPcs, RestPcs, PutPcs, IterPcs
  <2>10. PathInv(t)'
    <3>1. PathOK(nodes', Trie', KeyOf(t), path[t]) /\ Len(path[t]) > 0
      BY <1>1, <1>4, <2>8, PathKeeps DEF p
    <3>2. KeyOf(t)' = KeyOf(t)
      BY <2>5 DEF KeyOf
    <3> QED BY <2>5, <3>1, <3>2 DEF PathInv
  <2>11. HoldInv(t)'
    <3>1. ASSUME NEW i \in LockPositions(p) PROVE Owns(nodes', t, p[i])
      <4>1. nodes'[p[i].name] = [value |-> nodes'[p[i].name].value, seq |-> nodes'[p[i].name].seq, lock |-> nodes'[p[i].name].lock]
        BY <2>1, <2>4, NodeIs, Zenon
      <4> QED BY <2>1, <2>4, <4>1 DEF Owns
    <3> QED BY <2>5, <3>1 DEF HoldInv, WithPred, p
  <2>12. PredInv(t)' /\ HiddenInv(t)'
    BY <2>5, NowhereNext DEF PredInv
  <2>13. EndInv(t)'
    <3>1. call[t].ret = Pending
      BY <1>1, <1>2 DEF CallInv
    <3>2. /\ NameBelow(c, call[t].key) = NULL /\ c.value.type \in {"LEAF", "BITMAP"}
          /\ c.value.type = "LEAF" => c.value.key # call[t].key
      BY <1>2, <1>3 DEF HasKey, c
    <3> QED BY <2>5, <3>1, <3>2 DEF EndInv, Putting, c
  <2>14. DomainInv' /\ \A u \in Threads : ThreadInv(u)'
    BY <1>1, <2>8, <2>9, <2>10, <2>11, <2>12, <2>13, AllKeep DEF ThreadInv
  <2>15. ReleaseInv'
    <3>1. Locking(t)'
      BY <2>5 DEF Locking
    <3> QED BY <1>1, <2>8, <3>1, LocksHeld
  <2> QED BY <2>8, <2>14, <2>15 DEF IInv, SharedInv
<1> QED BY <1>5, <1>6 DEF LockPath

(* The predecessor is found: only copies are taken.                        *)
LEMMA PositionedKeeps ==
  ASSUME IInv, NEW t \in Threads, NEW c, Positioned(t, c), pc[t] \in {"descend", "max_leaf", "pred"}, call[t].op \in IterCalls,
         pc[t] # "pred"
  PROVE  IInv'
<1>1. SharedInv /\ DomainInv /\ ThreadInv(t) /\ CallInv(t) /\ Frame(t)
  BY FramePositioned DEF IInv, SharedInv, ThreadInv
<1> DEFINE r == IF c.value.next_leaf = NULL /\ call[t].op = "ct_iter_goto" THEN NULL ELSE Pending
<1>2. /\ pc'[t] = (IF c.value.next_leaf # NULL THEN "advance" ELSE IF call[t].op = "ct_iter_goto" THEN "return" ELSE "resynced")
      /\ call' = [call EXCEPT ![t].ret = r]
      /\ UNCHANGED <<nodes, is_empty, index, calls, path>>
  BY <1>1 DEF Positioned, DomainInv, shared, locals
<1>3. call'[t].op = call[t].op /\ call'[t].ret = r /\ \E d \in AllCalls : call'[t] = Called(d, call'[t].ret)
  <2>1. pc[t] # "idle"
    OBVIOUS
  <2> HIDE DEF r
  <2> QED BY <1>1, <1>2, <2>1, SetsResult
<1>4. iter'[t] = [leaf |-> iter'[t].leaf, key |-> iter'[t].key, is_exhausted |-> iter'[t].is_exhausted,
                  report_current |-> iter'[t].report_current] /\ iter'[t].key = iter[t].key
  <2>1. iter'[t] = [iter[t] EXCEPT !.leaf = c, !.is_exhausted = (c.value.next_leaf = NULL)]
    BY <1>1 DEF Positioned, DomainInv
  <2> QED BY <1>1, <2>1 DEF CallInv
<1>5. pc'[t] = "return" \/ r = Pending
  BY <1>2
<1> HIDE DEF r
<1>6. CallInv(t)'
  BY <1>1, <1>2, <1>3, <1>4, <1>5 DEF CallInv, AllPcs, RestPcs, PutPcs, IterPcs
<1>7. HoldInv(t)' /\ PredInv(t)' /\ EndInv(t)' /\ ~Locking(t)
  <2>1. call[t].op \notin PutCalls
    BY DEF IterCalls, PutCalls
  <2> QED BY <1>2, <2>1, NotWriting DEF Locking
<1>8. Guarded(t)' => PathOK(nodes, Trie, KeyOf(t)', path'[t]) /\ Len(path'[t]) > 0
  <2>1. KeyOf(t)' = KeyOf(t) /\ (Guarded(t)' => Guarded(t))
    BY <1>1, <1>3, <1>4 DEF KeyOf, Guarded
  <2> QED BY <1>1, <1>2, <2>1 DEF ThreadInv, PathInv, RestPcs
<1>9. ~is_empty
  BY <1>1 DEF SharedInv, EmptyInv, RestPcs
<1> QED BY <1>1, <1>2, <1>6, <1>7, <1>8, <1>9, LocalStep

(* A predecessor that was found keeps the invariant.                       *)
LEMMA GotPredecessorKeeps ==
  ASSUME IInv, NEW t \in Threads, NEW c, GotPredecessor(t, c), pc[t] = "pred" \/ call[t].op \in IterCalls \/ pc[t] = "max_leaf",
         pc[t] \in {"descend", "pred", "max_leaf"},
         call[t].op \in PutCalls => CopyIn(nodes, c) /\ c.value.type = "LEAF"
  PROVE  IInv'
<1>1. SharedInv /\ DomainInv /\ ThreadInv(t) /\ CallInv(t) /\ Frame(t)
  BY FrameGotPredecessor DEF IInv, SharedInv, ThreadInv
<1>2. CASE call[t].op \in IterCalls /\ Positioned(t, c)
  <2>1. pc[t] # "pred"
    BY <1>1, <1>2 DEF CallInv, PutPcs, PutCalls, IterCalls
  <2> QED BY <1>2, <2>1, PositionedKeeps
<1>3. CASE /\ call[t].op \in PutCalls
           /\ pred' = [pred EXCEPT ![t] = c]
           /\ pc' = [pc EXCEPT ![t] = "lock_pred"]
           /\ UNCHANGED <<shared, calls, call, path, subtree, new_leaf, level, iter, index, cursor>>
  <2>1. /\ pc'[t] = "lock_pred" /\ pred'[t] = c /\ UNCHANGED <<nodes, is_empty, index, calls, call, path, iter, new_leaf>>
    BY <1>1, <1>3 DEF DomainInv, shared
  <2>2. Locking(t) /\ Locking(t)' /\ pc[t] # "descend" /\ pc[t] \notin RestPcs \cup {"return"}
    BY <1>1, <1>3, <2>1 DEF Locking, CallInv, PutPcs, PutCalls, IterCalls, RestPcs
  <2>3. CallInv(t)'
    BY <1>1, <1>3, <2>1, <2>2 DEF CallInv, AllPcs, RestPcs, PutPcs, IterPcs
  <2>4. HoldInv(t)'
    BY <1>1, <2>1, <2>2 DEF ThreadInv, HoldInv, WithPred
  <2>5. PredInv(t)'
    BY <1>3, <2>1 DEF PredInv
  <2>6. EndInv(t)'
    BY <1>1, <2>1, <2>2 DEF ThreadInv, EndInv, Putting
  <2>7. KeyOf(t)' = KeyOf(t) /\ (Guarded(t)' => Guarded(t))
    BY <1>1, <1>3, <2>1, Caller DEF KeyOf, Guarded, CallInv
  <2>8. Guarded(t)' => PathOK(nodes, Trie, KeyOf(t)', path'[t]) /\ Len(path'[t]) > 0
    BY <1>1, <2>1, <2>2, <2>7 DEF ThreadInv, PathInv
  <2>9. ~is_empty
    BY <1>1, <2>2 DEF SharedInv, EmptyInv
  <2> QED BY <1>1, <2>1, <2>2, <2>3, <2>4, <2>5, <2>6, <2>8, <2>9, LocalStep
<1> QED BY <1>2, <1>3 DEF GotPredecessor

(* The search for the predecessor keeps the invariant.                     *)
LEMMA PredecessorKeeps ==
  ASSUME IInv, NEW t \in Threads, get_predecessor_atomic(t)
  PROVE  IInv'
<1>1. SharedInv /\ DomainInv /\ ThreadInv(t) /\ CallInv(t) /\ Frame(t) /\ NodesOK /\ StructInv
  BY FramePredecessor DEF IInv, SharedInv, ThreadInv
<1>2. ASSUME Seeking(t)
      PROVE  /\ pc[t] \in {"descend", "pred"} /\ (pc[t] = "pred" \/ call[t].op \in IterCalls)
             /\ pc[t] = "descend" => call[t].op \in IterCalls /\ LastBitmap(path[t]) # 0
             /\ pc[t] = "pred" => call[t].op \in PutCalls /\ Guarded(t)
  <2>1. pc[t] = "pred" => Locking(t)
    BY DEF Locking
  <2> QED BY <1>1, <1>2, <2>1, Writer DEF Seeking, At
<1>3. ASSUME NEW n \in Names, nodes[n].value.type = "LEAF"
      PROVE  CopyIn(nodes, Read(n)) /\ Read(n).value.type = "LEAF"
  BY <1>1, <1>3, ReadCopy, UnusedKind
<1>4. CASE PredecessorMinLeaf(t)
  <2>1. MinLeaf \in Names /\ nodes[MinLeaf].value.type = "LEAF"
    BY <1>1, TrieNames, Kinds DEF NodesOK
  <2>2. CASE GotPredecessor(t, Read(MinLeaf))
    BY <1>2, <1>3, <1>4, <2>1, <2>2, GotPredecessorKeeps DEF PredecessorMinLeaf
  <2>3. CASE Retry(t)
    BY <1>2, <1>4, <2>3, RetryKeeps DEF PredecessorMinLeaf
  <2> QED BY <1>4, <2>2, <2>3 DEF PredecessorMinLeaf
<1>5. ASSUME Seeking(t), pred_locator(t) # NULL, Guarded(t) PROVE pred_locator(t).name \in Trie
  <2>1. pc[t] \notin RestPcs \cup {"return"}
    BY <1>2, <1>5 DEF RestPcs
  <2>2. /\ PathOK(nodes, Trie, KeyOf(t), path[t]) /\ Len(path[t]) \in Nat /\ Len(path[t]) > 0
        /\ path[t] \in Seq(Copies) /\ Len(path[t]) \in 1..Len(path[t])
    BY <1>1, <1>5, <2>1, PathEnd
  <2>3. ASSUME NEW i \in 1..Len(path[t]), NEW s, find_left_descend(path[t], i, s) # NULL
        PROVE  find_left_descend(path[t], i, s).name \in Trie
    BY <2>2, <2>3, TrieNames, LeftDescend
  <2>4. CASE path[t][Len(path[t])].value.type = "BITMAP"
    BY <1>5, <2>2, <2>3, <2>4 DEF pred_locator
  <2>5. CASE path[t][Len(path[t])].value.type # "BITMAP" /\ call[t].op \in PutCalls
    <3>1. Len(path[t]) # 1
      BY <1>5, <2>5 DEF pred_locator
    <3>2. Len(path[t]) - 1 \in 1..Len(path[t])
      <4>1. PICK l \in Nat : l = Len(path[t]) /\ l > 0 /\ l # 1
        BY <2>2, <3>1
      <4>2. l \in Nat /\ l > 0 /\ l # 1
        BY <4>1
      <4>3. l - 1 \in 1..l
        BY <4>2
      <4> QED BY <4>1, <4>3
    <3>3. pred_locator(t) = find_left_descend(path[t], Len(path[t]) - 1, last_symbol(path[t][Len(path[t])]))
      BY <2>5, <3>1 DEF pred_locator
    <3> QED BY <1>5, <2>3, <3>2, <3>3
  <2>6. CASE path[t][Len(path[t])].value.type # "BITMAP" /\ call[t].op \notin PutCalls
    <3> DEFINE B == {i \in DOMAIN path[t] : path[t][i].value.type = "BITMAP"}
               i == LastBitmap(path[t])
    <3>1. i # 0
      BY <1>2, <1>5, <2>6
    <3>2. i \in {0} \cup B
      <4>1. {0} \cup B \in SUBSET Nat /\ {0} \cup B # {} /\ \A x \in {0} \cup B : x <= Len(path[t])
        BY <2>2
      <4>2. i = Max({0} \cup B)
        BY DEF LastBitmap
      <4> HIDE DEF B, i
      <4> QED BY <2>2, <4>1, <4>2, BoundedHasMax, LargestOf
    <3>3. i \in 1..Len(path[t])
      BY <2>2, <3>1, <3>2
    <3> DEFINE s == last_symbol(path[t][i + 1]) + (IF is_before_longest_prefix(t) THEN 0 ELSE 1)
    <3>4. pred_locator(t) = find_left_descend(path[t], i, s)
      BY <2>6 DEF pred_locator
    <3> HIDE DEF i, s, B
    <3> QED BY <1>5, <2>3, <3>3, <3>4
  <2> QED BY <2>4, <2>5, <2>6
<1>6. CASE PredecessorLeaf(t)
  <2> DEFINE n == pred_locator(t).name
  <2>1. Seeking(t) /\ pred_locator(t) # NULL /\ nodes[n].value.type = "LEAF"
    BY <1>6 DEF PredecessorLeaf
  <2>2. call[t].op \in PutCalls => CopyIn(nodes, Read(n)) /\ Read(n).value.type = "LEAF"
    <3>1. call[t].op \in PutCalls => pc[t] = "pred"
      BY <1>2, <2>1 DEF PutCalls, IterCalls
    <3>2. call[t].op \in PutCalls => n \in Names
      BY <1>2, <1>5, <2>1, <3>1, TrieNames
    <3> QED BY <1>3, <2>1, <3>2
  <2>3. CASE GotPredecessor(t, Read(n))
    <3> HIDE DEF n
    <3> QED BY <1>2, <2>1, <2>2, <2>3, GotPredecessorKeeps
  <2>4. CASE Retry(t)
    BY <1>2, <2>1, <2>4, RetryKeeps
  <2> QED BY <1>6, <2>3, <2>4 DEF PredecessorLeaf
<1>7. CASE PredecessorSubtree(t)
  <2> DEFINE n == pred_locator(t).name
  <2>1. /\ Seeking(t) /\ pred_locator(t) # NULL /\ nodes[n].value.type # "LEAF"
        /\ pc'[t] = "max_leaf" /\ subtree'[t] = Read(n)
        /\ UNCHANGED <<nodes, is_empty, index, calls, call, path, iter, pred, new_leaf, level>>
    BY <1>1, <1>7 DEF PredecessorSubtree, DomainInv, shared
  <2>2. pc[t] \in {"descend", "pred"} /\ pc[t] \notin RestPcs \cup {"return"}
    BY <1>2, <2>1 DEF RestPcs
  <2>3. Locking(t) <=> Locking(t)'
    <3>1. call[t].op \in PutCalls => pc[t] = "pred"
      BY <1>2, <2>1 DEF PutCalls, IterCalls
    <3> QED BY <1>2, <2>1, <3>1 DEF Locking
  <2>4. call[t].ret = Pending
    BY <1>1, <2>2 DEF CallInv
  <2>5. CallInv(t)'
    BY <1>1, <1>2, <2>1, <2>2, <2>4 DEF CallInv, AllPcs, RestPcs, PutPcs, IterPcs
  <2>6. HoldInv(t)'
    BY <1>1, <2>1, <2>3 DEF ThreadInv, HoldInv, WithPred
  <2>7. KeyOf(t)' = KeyOf(t) /\ (Guarded(t)' => Guarded(t))
    BY <2>1, <2>2 DEF KeyOf, Guarded
  <2>8. PredInv(t)'
    <3>1. ASSUME Guarded(t) PROVE CopyIn(nodes, Read(n)) /\ Read(n).value.type \in {"BITMAP", "JUMP"}
      <4>1. n \in Trie
        BY <1>5, <2>1, <3>1
      <4>2. n \in Names /\ nodes[n].value # Unused /\ Fits(n, nodes[n].value)
        BY <1>1, <4>1, InTrie, TrieNames DEF NodesOK
      <4> HIDE DEF n
      <4>3. nodes[n].value.type \in {"BITMAP", "JUMP"}
        BY <2>1, <4>2, Kinds
      <4> QED BY <1>1, <4>2, <4>3, ReadCopy
    <3> QED BY <2>1, <2>7, <3>1 DEF PredInv
  <2>9. EndInv(t)'
    BY <1>1, <2>1, <2>2, <2>3, <2>4 DEF ThreadInv, EndInv, Putting
  <2>10. Guarded(t)' => PathOK(nodes, Trie, KeyOf(t)', path'[t]) /\ Len(path'[t]) > 0
    BY <1>1, <2>1, <2>2, <2>7 DEF ThreadInv, PathInv
  <2>11. ~is_empty
    BY <1>1, <2>2 DEF SharedInv, EmptyInv
  <2> QED BY <1>1, <2>1, <2>2, <2>3, <2>5, <2>6, <2>8, <2>9, <2>10, <2>11, LocalStep
<1>8. CASE PredecessorMaxLeaf(t)
  <2> DEFINE n == subtree[t].value.max_leaf
  <2>1. pc[t] = "max_leaf" /\ call[t].op \in PutCalls \cup IterCalls
    BY <1>1, <1>8 DEF PredecessorMaxLeaf, CallInv
  <2>2. CASE Retry(t)
    BY <2>1, <2>2, RetryKeeps
  <2>3. CASE GotPredecessor(t, Read(n)) /\ Read(n).value.type = "LEAF"
    <3>1. call[t].op \in PutCalls => CopyIn(nodes, Read(n)) /\ Read(n).value.type = "LEAF"
      <4>1. SUFFICES ASSUME call[t].op \in PutCalls PROVE CopyIn(nodes, Read(n)) /\ Read(n).value.type = "LEAF"
        OBVIOUS
      <4>2. Guarded(t)
        BY <1>1, <2>1, <4>1, Writer DEF Locking
      <4>3. CopyIn(nodes, subtree[t]) /\ subtree[t].value.type \in {"BITMAP", "JUMP"}
        BY <1>1, <2>1, <4>2 DEF ThreadInv, PredInv
      <4>4. subtree[t].name \in Names /\ Fits(subtree[t].name, subtree[t].value)
        BY <4>3, NamesCopied DEF CopyIn
      <4>5. n \in TreeNames
        BY <4>3, <4>4, Kinds DEF IsBitmap, BitmapValues, JumpValues
      <4>6. n \in Names /\ nodes[n].value.type = "LEAF"
        BY <2>3, <4>5, TrieNames DEF Read
      <4> QED BY <1>3, <4>6
    <3> HIDE DEF n
    <3> QED BY <2>1, <2>3, <3>1, GotPredecessorKeeps
  <2> QED BY <1>8, <2>2, <2>3 DEF PredecessorMaxLeaf
<1> QED BY <1>4, <1>6, <1>7, <1>8 DEF get_predecessor_atomic

(* A step of an iterator that changes nothing but the thread's own         *)
(* variables keeps the invariant.                                          *)
LEMMA IteratorKeeps ==
  ASSUME IInv, NEW t \in Threads, Frame(t), UNCHANGED <<nodes, is_empty, index, calls>>,
         pc[t] \in {"descend", "next", "next_again", "resynced", "advance"}, call[t].op \in IterCalls,
         pc'[t] \in {"return", "resynced", "start", "next_again"},
         call'[t].op = call[t].op, \E d \in AllCalls : call'[t] = Called(d, call'[t].ret),
         pc'[t] # "return" => call'[t].ret = Pending,
         iter'[t] = [leaf |-> iter'[t].leaf, key |-> iter'[t].key, is_exhausted |-> iter'[t].is_exhausted,
                     report_current |-> iter'[t].report_current],
         \/ path'[t] = path[t] /\ iter'[t].key = iter[t].key /\ pc[t] \in {"descend", "advance"} /\ pc'[t] \in {"return", "resynced"}
         \/ path'[t] = <<>> /\ pc'[t] # "resynced"
  PROVE  IInv'
<1>1. SharedInv /\ DomainInv /\ ThreadInv(t) /\ CallInv(t)
  BY DEF IInv, SharedInv, ThreadInv
<1>2. call[t].op \notin PutCalls
  BY DEF IterCalls, PutCalls
<1>3. CallInv(t)'
  BY <1>1, <1>2 DEF CallInv, AllPcs, RestPcs, PutPcs, IterPcs
<1>4. HoldInv(t)' /\ PredInv(t)' /\ EndInv(t)' /\ ~Locking(t)
  BY <1>2, NotWriting DEF Locking
<1>5. Guarded(t)' => /\ PathOK(nodes, Trie, KeyOf(t)', path'[t])
                     /\ pc'[t] \notin RestPcs \cup {"return"} => Len(path'[t]) > 0
  <2>1. CASE path'[t] = <<>> /\ pc'[t] # "resynced"
    <3>1. pc'[t] \in RestPcs \cup {"return"}
      BY <2>1 DEF RestPcs
    <3> QED BY <2>1, <3>1, EmptyPathKeeps
  <2>2. CASE path'[t] = path[t] /\ iter'[t].key = iter[t].key /\ pc[t] \in {"descend", "advance"}
    <3>1. KeyOf(t)' = KeyOf(t) /\ (Guarded(t)' => Guarded(t))
      BY <2>2 DEF KeyOf, Guarded
    <3> QED BY <1>1, <2>2, <3>1 DEF ThreadInv, PathInv, RestPcs
  <2> QED BY <2>1, <2>2
<1>6. is_empty => pc'[t] \in RestPcs \cup {"return"}
  <2>1. is_empty => pc[t] \in RestPcs \cup {"return"}
    BY <1>1 DEF SharedInv, EmptyInv
  <2> QED BY <2>1 DEF RestPcs
<1> QED BY <1>1, <1>3, <1>4, <1>5, <1>6, LocalStep

(* An iterator keeps its fields.                                           *)
LEMMA IterShape ==
  ASSUME DomainInv, NEW t \in Threads, CallInv(t), NEW i,
         \/ i = iter[t]
         \/ \E k : i = [iter[t] EXCEPT !.key = k]
         \/ \E b : i = [iter[t] EXCEPT !.report_current = b]
         \/ \E b : i = [iter[t] EXCEPT !.is_exhausted = b]
         \/ \E c : i = [iter[t] EXCEPT !.leaf = c]
         \/ \E c, b : i = [iter[t] EXCEPT !.leaf = c, !.report_current = b]
  PROVE  i = [leaf |-> i.leaf, key |-> i.key, is_exhausted |-> i.is_exhausted, report_current |-> i.report_current]
BY DEF CallInv

(* The steps of the iterators keep the invariant.                          *)
LEMMA IterateKeeps ==
  ASSUME IInv, NEW t \in Threads, Iterate(t)
  PROVE  IInv'
<1>1. SharedInv /\ DomainInv /\ ThreadInv(t) /\ CallInv(t) /\ Frame(t)
  BY FrameIterate DEF IInv, SharedInv, ThreadInv
<1>2. pc[t] # "idle" => call[t].op = call[t].op /\ \E d \in AllCalls : call[t] = Called(d, call[t].ret)
  BY <1>1 DEF CallInv
<1>3. CASE IterGotoFirst(t)
  BY <1>3, PositionedKeeps DEF IterGotoFirst
<1>4. CASE IterGotoNoBitmap(t)
  <2>1. pc[t] = "descend" /\ call[t].op \in IterCalls
    BY <1>4 DEF IterGotoNoBitmap, At
  <2>2. CASE Retry(t)
    BY <2>1, <2>2, RetryKeeps
  <2>3. CASE Positioned(t, Read(MinLeaf))
    BY <2>1, <2>3, PositionedKeeps
  <2>4. CASE /\ iter' = [iter EXCEPT ![t].is_exhausted = TRUE]
             /\ call' = [call EXCEPT ![t].ret = IF call[t].op = "ct_iter_goto" THEN NULL ELSE @]
             /\ pc' = [pc EXCEPT ![t] = IF call[t].op = "ct_iter_goto" THEN "return" ELSE "resynced"]
             /\ UNCHANGED <<shared, calls, locals, index, cursor>>
    <3>1. /\ UNCHANGED <<nodes, is_empty, index, calls, path>> /\ pc'[t] \in {"return", "resynced"}
          /\ iter'[t] = [iter[t] EXCEPT !.is_exhausted = TRUE]
          /\ call' = [call EXCEPT ![t].ret = IF call[t].op = "ct_iter_goto" THEN NULL ELSE call[t].ret]
          /\ pc'[t] # "return" => call[t].op # "ct_iter_goto"
      BY <1>1, <2>4 DEF DomainInv, shared, locals
    <3>2. /\ call'[t].op = call[t].op /\ \E d \in AllCalls : call'[t] = Called(d, call'[t].ret)
          /\ call'[t].ret = IF call[t].op = "ct_iter_goto" THEN NULL ELSE call[t].ret
      <4> DEFINE r == IF call[t].op = "ct_iter_goto" THEN NULL ELSE call[t].ret
      <4>1. pc[t] # "idle" /\ call' = [call EXCEPT ![t].ret = r]
        BY <2>1, <3>1
      <4> HIDE DEF r
      <4>2. call'[t].op = call[t].op /\ (\E d \in AllCalls : call'[t] = Called(d, call'[t].ret)) /\ call'[t].ret = r
        BY <1>1, <4>1, SetsResult
      <4> QED BY <4>2 DEF r
    <3>3. call[t].ret = Pending
      BY <1>1, <2>1 DEF CallInv
    <3>4. iter'[t].key = iter[t].key
      BY <1>1, <3>1 DEF CallInv
    <3>5. iter'[t] = [leaf |-> iter'[t].leaf, key |-> iter'[t].key, is_exhausted |-> iter'[t].is_exhausted,
                     report_current |-> iter'[t].report_current]
      BY <1>1, <3>1, IterShape
    <3> QED BY <1>1, <2>1, <3>1, <3>2, <3>3, <3>4, <3>5, IteratorKeeps
  <2> QED BY <1>4, <2>2, <2>3, <2>4 DEF IterGotoNoBitmap
<1>5. CASE IterGotoAdvance(t)
  <2>1. pc[t] = "advance" /\ call[t].op \in IterCalls /\ call[t].ret = Pending
    BY <1>1, <1>5 DEF IterGotoAdvance, CallInv, IterPcs
  <2>2. CASE Retry(t)
    BY <2>1, <2>2, RetryKeeps
  <2>3. CASE ~Retry(t)
    <3> DEFINE c == Read(iter[t].leaf.value.next_leaf)
    <3>1. /\ UNCHANGED <<nodes, is_empty, index, calls, path>> /\ pc'[t] \in {"return", "resynced"}
          /\ iter'[t] = [iter[t] EXCEPT !.leaf = c, !.report_current = TRUE]
          /\ call' = [call EXCEPT ![t].ret = IF call[t].op = "ct_iter_goto" THEN NULL ELSE call[t].ret]
          /\ pc'[t] # "return" => call[t].op # "ct_iter_goto"
      BY <1>1, <1>5, <2>3 DEF IterGotoAdvance, DomainInv, shared, locals
    <3> HIDE DEF c
    <3>2. /\ call'[t].op = call[t].op /\ \E d \in AllCalls : call'[t] = Called(d, call'[t].ret)
          /\ call'[t].ret = IF call[t].op = "ct_iter_goto" THEN NULL ELSE call[t].ret
      <4> DEFINE r == IF call[t].op = "ct_iter_goto" THEN NULL ELSE call[t].ret
      <4>1. pc[t] # "idle" /\ call' = [call EXCEPT ![t].ret = r]
        BY <2>1, <3>1
      <4> HIDE DEF r
      <4>2. call'[t].op = call[t].op /\ (\E d \in AllCalls : call'[t] = Called(d, call'[t].ret)) /\ call'[t].ret = r
        BY <1>1, <4>1, SetsResult
      <4> QED BY <4>2 DEF r
    <3>4. iter'[t].key = iter[t].key
      BY <1>1, <3>1 DEF CallInv
    <3>5. iter'[t] = [leaf |-> iter'[t].leaf, key |-> iter'[t].key, is_exhausted |-> iter'[t].is_exhausted,
                     report_current |-> iter'[t].report_current]
      BY <1>1, <3>1, IterShape
    <3> QED BY <1>1, <2>1, <3>1, <3>2, <3>4, <3>5, IteratorKeeps
  <2> QED BY <2>2, <2>3
<1>6. ASSUME pc[t] \in {"next", "next_again"}, NEW k, Reports(t, k), NEW i, iter'[t] = i,
             i = [leaf |-> i.leaf, key |-> i.key, is_exhausted |-> i.is_exhausted, report_current |-> i.report_current]
      PROVE  IInv'
  <2>1. call[t].op \in IterCalls /\ path[t] = <<>> /\ pc[t] # "idle"
    BY <1>1, <1>6 DEF CallInv, IterPcs, RestPcs
  <2>2. /\ UNCHANGED <<nodes, is_empty, index, calls, path>> /\ pc'[t] = "return"
        /\ call' = [call EXCEPT ![t].ret = k]
    BY <1>1, <1>6 DEF Reports, DomainInv, shared, locals
  <2>3. call'[t].op = call[t].op /\ \E d \in AllCalls : call'[t] = Called(d, call'[t].ret)
    BY <1>1, <2>1, <2>2, SetsResult
  <2> QED BY <1>1, <1>6, <2>1, <2>2, <2>3, IteratorKeeps
<1>7. CASE IterNextCurrent(t)
  <2>1. pc[t] = "next"
    BY <1>7 DEF IterNextCurrent
  <2>2. /\ \E k : Reports(t, k)
        /\ \/ iter'[t] = iter[t]
           \/ iter'[t] = [iter[t] EXCEPT !.report_current = FALSE]
           \/ iter'[t] = [iter[t] EXCEPT !.is_exhausted = TRUE]
    BY <1>1, <1>7 DEF IterNextCurrent, DomainInv
  <2>3. iter'[t] = [leaf |-> iter'[t].leaf, key |-> iter'[t].key, is_exhausted |-> iter'[t].is_exhausted,
                     report_current |-> iter'[t].report_current]
    BY <1>1, <2>2, IterShape
  <2> QED BY <1>6, <2>1, <2>2, <2>3
<1>8. CASE IterNextRead(t)
  <2> DEFINE c == Read(iter[t].leaf.value.next_leaf)
  <2>1. pc[t] \in {"next", "next_again"}
    BY <1>8 DEF IterNextRead
  <2>2. CASE Reports(t, c.value.key) /\ iter' = [iter EXCEPT ![t].leaf = c]
    <3>1. iter'[t] = [iter[t] EXCEPT !.leaf = c]
      BY <1>1, <2>2 DEF DomainInv
    <3> HIDE DEF c
    <3>2. iter'[t] = [leaf |-> iter'[t].leaf, key |-> iter'[t].key, is_exhausted |-> iter'[t].is_exhausted,
                     report_current |-> iter'[t].report_current]
      BY <1>1, <3>1, IterShape
    <3> QED BY <1>6, <2>1, <2>2, <3>2
  <2>3. CASE /\ iter' = [iter EXCEPT ![t].key = iter[t].leaf.value.key]
             /\ pc' = [pc EXCEPT ![t] = "start"]
             /\ UNCHANGED <<shared, calls, call, locals, index, cursor>>
    <3>1. call[t].op \in IterCalls /\ path[t] = <<>> /\ pc[t] # "idle" /\ call[t].ret = Pending
      BY <1>1, <2>1 DEF CallInv, IterPcs, RestPcs
    <3>2. /\ UNCHANGED <<nodes, is_empty, index, calls, path, call>> /\ pc'[t] = "start"
          /\ iter'[t] = [iter[t] EXCEPT !.key = iter[t].leaf.value.key]
      BY <1>1, <2>3 DEF DomainInv, shared, locals
    <3>3. iter'[t] = [leaf |-> iter'[t].leaf, key |-> iter'[t].key, is_exhausted |-> iter'[t].is_exhausted,
                     report_current |-> iter'[t].report_current]
      BY <1>1, <3>2, IterShape
    <3> QED BY <1>1, <1>2, <2>1, <3>1, <3>2, <3>3, IteratorKeeps
  <2> QED BY <1>8, <2>2, <2>3 DEF IterNextRead
<1>9. CASE IterNextResynced(t)
  <2>1. /\ pc[t] = "resynced" /\ pc'[t] = "next_again" /\ path'[t] = <<>>
        /\ iter'[t] = [iter[t] EXCEPT !.report_current = FALSE]
        /\ UNCHANGED <<nodes, is_empty, index, calls, call>>
    BY <1>1, <1>9 DEF IterNextResynced, DomainInv, shared, LocalsReset
  <2>2. call[t].op \in IterCalls /\ call[t].ret = Pending /\ pc[t] # "idle"
    BY <1>1, <2>1 DEF CallInv, IterPcs
  <2>3. iter'[t] = [leaf |-> iter'[t].leaf, key |-> iter'[t].key, is_exhausted |-> iter'[t].is_exhausted,
                     report_current |-> iter'[t].report_current]
    BY <1>1, <2>1, IterShape
  <2> QED BY <1>1, <1>2, <2>1, <2>2, <2>3, IteratorKeeps
<1> QED BY <1>3, <1>4, <1>5, <1>7, <1>8, <1>9 DEF Iterate

(* A new next_leaf of min_leaf changes nothing else.                       *)
LEMMA LinksMinLeaf ==
  ASSUME NEW ns \in NodeMaps, ns[MinLeaf].value \in LeafValues, NEW l \in TreeNames
  PROVE  LET w == [ns EXCEPT ![MinLeaf].value.next_leaf = l]
         IN  /\ w \in NodeMaps
             /\ w[MinLeaf].value \in LeafValues /\ w[MinLeaf].seq = ns[MinLeaf].seq /\ w[MinLeaf].lock = ns[MinLeaf].lock
             /\ \A n \in Names \ {MinLeaf} : w[n] = ns[n]
<1> DEFINE v == [ns[MinLeaf].value EXCEPT !.next_leaf = l]
           x == [value |-> v, seq |-> ns[MinLeaf].seq, lock |-> ns[MinLeaf].lock]
           w == [ns EXCEPT ![MinLeaf].value.next_leaf = l]
<1>1. MinLeaf \in Names
  BY TrieNames
<1>2. v \in LeafValues
  BY DEF LeafValues
<1>3. ns[MinLeaf] = [value |-> ns[MinLeaf].value, seq |-> ns[MinLeaf].seq, lock |-> ns[MinLeaf].lock]
      /\ ns[MinLeaf].seq \in Nat /\ ns[MinLeaf].lock \in Threads \cup {NULL}
  BY <1>1, NodeIs
<1>4. w = [ns EXCEPT ![MinLeaf] = [ns[MinLeaf] EXCEPT !.value = v]]
  OBVIOUS
<1> HIDE DEF v, w
<1>5. [ns[MinLeaf] EXCEPT !.value = v] = x
  BY <1>3
<1>6. v \in NodeValues
  BY <1>2 DEF NodeValues
<1>7. x \in [value : NodeValues, seq : Nat, lock : Threads \cup {NULL}]
  BY <1>3, <1>6
<1>8. w \in NodeMaps
  BY <1>1, <1>4, <1>5, <1>7 DEF NodeMaps
<1>9. w[MinLeaf] = x /\ \A n \in Names \ {MinLeaf} : w[n] = ns[n]
  BY <1>1, <1>4, <1>5 DEF NodeMaps
<1>10. w[MinLeaf].value \in LeafValues /\ w[MinLeaf].seq = ns[MinLeaf].seq /\ w[MinLeaf].lock = ns[MinLeaf].lock
  BY <1>2, <1>9
<1> QED BY <1>8, <1>9, <1>10 DEF w

(* The key of a call is put into the index.                                *)
LEMMA EffectSets ==
  ASSUME DomainInv, NEW t \in Threads, CallInv(t), pc[t] # "idle", NEW r, Effect(t, r)
  PROVE  /\ call'[t].op = call[t].op /\ call'[t].key = call[t].key /\ call'[t].value = call[t].value
         /\ call'[t].ret = r
         /\ \E c \in AllCalls : call'[t] = Called(c, call'[t].ret)
         /\ DOMAIN index' = DOMAIN index \cup {call[t].key}
         /\ index' = [k \in DOMAIN index' |-> index'[k]]
         /\ index'[call[t].key] = call[t].value
         /\ \A k \in DOMAIN index : k # call[t].key => index'[k] = index[k]
<1>1. call' = [call EXCEPT ![t].ret = r]
  BY DEF Effect
<1>2. index' = [k \in DOMAIN index \cup {call[t].key} |-> IF k = call[t].key THEN call[t].value ELSE index[k]]
  BY DEF Effect
<1>3. /\ DOMAIN index' = DOMAIN index \cup {call[t].key}
      /\ index' = [k \in DOMAIN index' |-> index'[k]]
      /\ index'[call[t].key] = call[t].value
      /\ \A k \in DOMAIN index : k # call[t].key => index'[k] = index[k]
  BY <1>2
<1>4. /\ call'[t].op = call[t].op /\ call'[t].key = call[t].key /\ call'[t].value = call[t].value
      /\ call'[t].ret = r
      /\ \E c \in AllCalls : call'[t] = Called(c, call'[t].ret)
  BY <1>1, SetsResult
<1> QED BY <1>3, <1>4

(* A step that stores a key and its value in the trie, and leaves all      *)
(* other keys there, keeps the trie and the index in agreement.            *)
LEMMA PutsKey ==
  ASSUME SharedInv, NEW t \in Threads, CallInv(t), pc[t] # "idle", call[t].key \in Keys, NEW r, Effect(t, r),
         \A n \in Trie' : nodes'[n].value.type = "LEAF" =>
           \/ nodes'[n].value.key = call[t].key /\ nodes'[n].value.kv = call[t].value
           \/ \E m \in Trie : /\ nodes[m].value.type = "LEAF" /\ nodes[m].value.key # call[t].key
                              /\ nodes'[n].value.key = nodes[m].value.key /\ nodes'[n].value.kv = nodes[m].value.kv,
         \E n \in Trie' : nodes'[n].value.type = "LEAF" /\ nodes'[n].value.key = call[t].key,
         \A m \in Trie : nodes[m].value.type = "LEAF" /\ nodes[m].value.key # call[t].key =>
           \E n \in Trie' : nodes'[n].value.type = "LEAF" /\ nodes'[n].value.key = nodes[m].value.key
  PROVE  IndexInv'
<1>1. /\ DOMAIN index' = DOMAIN index \cup {call[t].key}
      /\ index' = [k \in DOMAIN index' |-> index'[k]]
      /\ index'[call[t].key] = call[t].value
      /\ \A k \in DOMAIN index : k # call[t].key => index'[k] = index[k]
  BY EffectSets DEF SharedInv
<1>2. IndexInv
  BY DEF SharedInv
<1>3. ASSUME NEW n \in Trie', nodes'[n].value.type = "LEAF"
      PROVE  nodes'[n].value.key \in DOMAIN index' /\ index'[nodes'[n].value.key] = nodes'[n].value.kv
  BY <1>1, <1>2, <1>3 DEF IndexInv
<1>4. ASSUME NEW k \in DOMAIN index'
      PROVE  \E n \in Trie' : nodes'[n].value.type = "LEAF" /\ nodes'[n].value.key = k
  <2>1. CASE k = call[t].key
    BY <2>1
  <2>2. CASE k # call[t].key
    <3>1. PICK m \in Trie : nodes[m].value.type = "LEAF" /\ nodes[m].value.key = k
      BY <1>1, <1>2, <1>4, <2>2 DEF IndexInv
    <3> QED BY <2>2, <3>1
  <2> QED BY <2>1, <2>2
<1>5. DOMAIN index' \subseteq Keys
  BY <1>1, <1>2 DEF IndexInv
<1> QED BY <1>1, <1>3, <1>4, <1>5 DEF IndexInv

(* What a store returns is a result.                                       *)
LEMMA PutResults ==
  ASSUME NEW t
  PROVE  IsResult(PutResult(t)) /\ PutResult(t) # Pending
BY PendingAssumption DEF PutResult, IsResult

(* create_root, which writes the first leaf, keeps the invariant.          *)
LEMMA RootWriteKeeps ==
  ASSUME IInv, NEW t \in Threads, CreateRootCheck(t), is_empty
  PROVE  IInv'
<1>1. /\ SharedInv /\ DomainInv /\ ThreadInv(t) /\ CallInv(t) /\ nodes \in NodeMaps /\ NodesOK /\ EmptyInv
      /\ pc[t] = "root_check" /\ CreateRootWrite(t) /\ calls' = calls /\ iter' = iter /\ path' = path
  BY DEF IInv, SharedInv, ThreadInv, NodesOK, CreateRootCheck, locals
<1>2. Frame(t)
  BY <1>1, FrameCreateRoot DEF create_root
<1>3. /\ call[t].op \in PutCalls /\ call[t].op \notin IterCalls /\ call[t].key \in Keys /\ call[t].value \in Values
      /\ KeyOf(t) = call[t].key /\ Root \in TreeNames /\ pc[t] # "idle"
  BY <1>1, Writer DEF PutPcs
<1>4. /\ path[t] = <<>> /\ nodes[Root].lock = t
      /\ \A n \in Names : n # Root => nodes[n].lock = NULL
      /\ \A n \in TreeNames : nodes[n].value = Unused
      /\ \A u \in Threads : pc[u] \in RestPcs \cup {"return"}
  <2>1. Used = {}
    BY <1>1 DEF EmptyInv
  <2>2. \A n \in TreeNames : nodes[n].value = Unused
    BY <2>1 DEF Used
  <2> QED BY <1>1, <2>2 DEF EmptyInv, ThreadInv, HoldInv, CallInv, RestPcs
<1> DEFINE v == Leaf(call[t].key, call[t].value, NULL)
           w1 == WriteNode(nodes, Root, v)
           w2 == [w1 EXCEPT ![MinLeaf].value.next_leaf = Root]
<1>5. /\ v \in LeafValues /\ v \in NodeValues /\ v.type = "LEAF" /\ v.key = call[t].key /\ v.kv = call[t].value /\ v # Unused
  <2>1. v \in LeafValues /\ v.type = "LEAF" /\ v.key = call[t].key /\ v.kv = call[t].value
    BY <1>3 DEF Leaf, LeafValues
  <2> HIDE DEF v
  <2> QED BY <2>1, UnusedKind DEF NodeValues
<1>6. /\ nodes' = release_all_locks(w2, t) /\ pc'[t] = "return" /\ is_empty' = FALSE
      /\ Effect(t, PutResult(t))
  BY <1>1 DEF CreateRootWrite, DomainInv
<1> HIDE DEF v
<1>7. Root \in Names /\ MinLeaf \in Names /\ MinLeaf # Root
  BY <1>3, TrieNames, NullIsNoName
<1>8. /\ w1 \in NodeMaps /\ w1[Root].value = v /\ w1[Root].seq = nodes[Root].seq + 1 /\ w1[Root].lock = nodes[Root].lock
      /\ \A m \in Names \ {Root} : w1[m] = nodes[m]
  BY <1>1, <1>5, <1>7, WritesNode
<1> HIDE DEF w1
<1>9. w1[MinLeaf].value \in LeafValues
  <2>1. Fits(MinLeaf, nodes[MinLeaf].value)
    BY <1>1, <1>7 DEF NodesOK
  <2>2. nodes[MinLeaf].value \in LeafValues
    BY <1>7, <2>1, Kinds
  <2> QED BY <1>7, <1>8, <2>2
<1>10. /\ w2 \in NodeMaps
       /\ w2[MinLeaf].value \in LeafValues /\ w2[MinLeaf].seq = w1[MinLeaf].seq /\ w2[MinLeaf].lock = w1[MinLeaf].lock
       /\ \A n \in Names \ {MinLeaf} : w2[n] = w1[n]
  BY <1>3, <1>8, <1>9, LinksMinLeaf
<1> HIDE DEF w2
<1>11. /\ nodes' \in NodeMaps
       /\ \A n \in Names : nodes'[n].value = w2[n].value /\ nodes'[n].seq = w2[n].seq
       /\ \A n \in Names : w2[n].lock = t => nodes'[n].lock = NULL
       /\ \A n \in Names : w2[n].lock # t => nodes'[n] = w2[n]
  BY <1>6, <1>10, ReleasesLocks
<1>12. /\ nodes'[Root].value = v /\ nodes'[Root].seq = nodes[Root].seq + 1 /\ nodes'[Root].lock = NULL
       /\ nodes'[MinLeaf].value \in LeafValues /\ nodes'[MinLeaf].seq = nodes[MinLeaf].seq /\ nodes'[MinLeaf].lock = NULL
       /\ \A n \in Names \ {Root, MinLeaf} : nodes'[n] = nodes[n]
       /\ \A n \in Names : nodes'[n].lock = NULL
  <2>1. t # NULL
    BY NoThread
  <2>2. ASSUME NEW n \in Names \ {Root, MinLeaf} PROVE nodes'[n] = nodes[n] /\ nodes'[n].lock = NULL
    <3>1. w2[n] = nodes[n] /\ nodes[n].lock = NULL
      BY <1>4, <1>8, <1>10
    <3> QED BY <1>11, <2>1, <3>1
  <2>3. w2[Root] = w1[Root] /\ w1[Root].lock = t
    BY <1>4, <1>7, <1>8, <1>10
  <2>4. w2[MinLeaf].lock = NULL /\ w2[MinLeaf].seq = nodes[MinLeaf].seq
    BY <1>4, <1>7, <1>8, <1>10
  <2>5. nodes'[Root].value = v /\ nodes'[Root].seq = nodes[Root].seq + 1 /\ nodes'[Root].lock = NULL
    BY <1>7, <1>8, <1>11, <2>3
  <2>6. nodes'[MinLeaf].value \in LeafValues /\ nodes'[MinLeaf].seq = nodes[MinLeaf].seq /\ nodes'[MinLeaf].lock = NULL
    BY <1>7, <1>10, <1>11, <2>1, <2>4
  <2> QED BY <2>2, <2>5, <2>6
<1>13. NodeFrame(t)
  <2>1. \A u \in Threads \ {t}, n \in Names : nodes[n].lock = u \/ nodes'[n].lock = u => nodes'[n] = nodes[n]
    BY <1>4, <1>12, NoThread
  <2>2. \A n \in Names : nodes[n].seq <= nodes'[n].seq
    <3>1. \A n \in Names : nodes[n].seq \in Nat
      BY <1>1, NodeIs
    <3> QED BY <1>12, <3>1
  <2>3. \A n \in Names : nodes[n].seq = nodes'[n].seq /\ (n = MinLeaf => ~is_empty) => nodes'[n].value = nodes[n].value
    <3>1. nodes[Root].seq \in Nat
      BY <1>1, <1>7, NodeIs
    <3> QED BY <1>12, <3>1
  <2> QED BY <1>11, <2>1, <2>2, <2>3 DEF NodeFrame
<1>14. \A u \in Threads : Hidden(u) = {} /\ Hidden(u)' = {}
  <2>1. ASSUME NEW u \in Threads PROVE pc[u] \notin {"head", "link", "mark"}
    BY <1>4 DEF RestPcs
  <2>2. ASSUME NEW u \in Threads PROVE pc'[u] \notin {"head", "link", "mark"}
    BY <1>2, <1>6, <2>1 DEF Frame, Same
  <2> QED BY <2>1, <2>2, Nowhere, NowhereNext
<1>15. Trie' = {Root} /\ Trie \subseteq Trie'
  <2>1. Trie = {}
    BY <1>4, InTrie
  <2>2. ASSUME NEW n PROVE n \in Trie' <=> n = Root
    <3>1. CASE n = Root
      BY <1>3, <1>5, <1>12, <1>14, <3>1, InTrie
    <3>2. CASE n # Root
      BY <1>4, <1>12, <3>2, InTrie, TrieNames, NullIsNoName
    <3> QED BY <3>1, <3>2
  <2> QED BY <2>1, <2>2
<1>16. NodesOK'
  <2>1. ASSUME NEW n \in Names PROVE Fits(n, nodes'[n].value)
    <3>1. CASE n = Root
      BY <1>3, <1>5, <1>12, <3>1, RootName DEF Fits
    <3>2. CASE n = MinLeaf
      BY <1>12, <3>2 DEF Fits
    <3>3. CASE n # Root /\ n # MinLeaf
      BY <1>1, <1>12, <3>3 DEF NodesOK
    <3> QED BY <3>1, <3>2, <3>3
  <2> QED BY <1>11, <2>1 DEF NodesOK
<1>17. StructInv'
  <2>1. ChildrenIn(nodes')[Root] = {}
    BY <1>3, <1>5, <1>12 DEF ChildrenIn, Below
  <2> QED BY <1>15, <2>1 DEF StructInv, Shaped
<1>18. IndexInv'
  <2>1. /\ \A n \in Trie' : nodes'[n].value.type = "LEAF" =>
              nodes'[n].value.key = call[t].key /\ nodes'[n].value.kv = call[t].value
        /\ \E n \in Trie' : nodes'[n].value.type = "LEAF" /\ nodes'[n].value.key = call[t].key
    BY <1>5, <1>12, <1>15
  <2>2. \A m \in Trie : nodes[m].value.type # "LEAF"
    <3>1. \A m \in TreeNames : nodes[m].value.type = "UNUSED"
      BY <1>4, UnusedKind
    <3> QED BY <3>1, TrieNames
  <2> QED BY <1>1, <1>3, <1>6, <2>1, <2>2, PutsKey
<1>19. EmptyInv' /\ UnusedInv' /\ ReleaseInv'
  <2>1. UnusedInv'
    BY <1>12, TrieNames DEF UnusedInv
  <2>2. ReleaseInv'
    BY <1>12, NoThread DEF ReleaseInv
  <2> QED BY <1>6, <1>15, <2>1, <2>2 DEF EmptyInv
<1>20. CallInv(t)'
  <2>1. /\ call'[t].op = call[t].op /\ call'[t].ret = PutResult(t) /\ \E c \in AllCalls : call'[t] = Called(c, call'[t].ret)
    BY <1>1, <1>3, <1>6, EffectSets
  <2> QED BY <1>1, <1>3, <1>4, <1>6, <2>1, PutResults DEF CallInv, AllPcs, RestPcs, PutPcs, IterPcs
<1>21. HoldInv(t)' /\ PredInv(t)' /\ EndInv(t)' /\ HiddenInv(t)'
  BY <1>6, NotWriting, NowhereNext
<1>22. PathInv(t)'
  BY <1>1, <1>4, <1>6, PathOfNone DEF PathInv
<1>23. DomainInv' /\ \A u \in Threads : ThreadInv(u)'
  BY <1>2, <1>13, <1>15, <1>20, <1>21, <1>22, AllKeep DEF ThreadInv
<1> QED BY <1>16, <1>17, <1>18, <1>19, <1>23 DEF IInv, SharedInv

-----------------------------------------------------------------------------
(* The new nodes. *)

(* A name at which a search leaves the node e, which nobody else has       *)
(* locked, is that of no node.                                             *)
LEMMA Elsewhere ==
  ASSUME IInv, NEW t \in Threads, NEW e \in Trie, nodes[e].lock \in {t, NULL}, NEW m \in TreeNames,
         Above(e, m), m # e, \A b \in Below(e, nodes[e].value) : ~Above(b, m)
  PROVE  /\ m \notin Trie
         /\ \A u \in Threads \ {t} : m \notin Hidden(u)
         /\ Hidden(t) = {} /\ ~is_empty => nodes[m].value = Unused /\ nodes[m].lock = NULL /\ m # Root
<1>1. SharedInv /\ StructInv /\ Shaped(Trie, ChildrenIn(nodes)) /\ e \in TreeNames /\ Trie \subseteq TreeNames
  BY TrieNames DEF IInv, SharedInv, StructInv
<1>2. ChildrenIn(nodes)[e] = Below(e, nodes[e].value)
  BY <1>1 DEF ChildrenIn
<1>3. m \notin Trie
  BY <1>1, <1>2 DEF Shaped
<1>4. ASSUME NEW u \in Threads \ {t}, m \in Hidden(u) PROVE FALSE
  <2>1. pc[u] \in {"head", "link", "mark"} /\ Locking(u) /\ ThreadInv(u)
    BY <1>4, Nowhere DEF Locking, IInv
  <2>2. Guarded(u) /\ pc[u] \notin RestPcs \cup {"return"} /\ nodes[Last(path[u]).name].lock = u
        /\ nodes[Last(path[u]).name].value = Last(path[u]).value
    BY <1>1, <2>1, Owner
  <2> DEFINE f == Last(path[u]).name
  <2>3. f \in Trie /\ f \in TreeNames
    BY <1>1, <2>1, <2>2, PathEnd
  <2>4. Above(f, m) /\ \A b \in Below(f, nodes[f].value) : ~Above(b, m)
    BY <1>4, <2>1, <2>2 DEF ThreadInv, HiddenInv
  <2> HIDE DEF f
  <2>5. ChildrenIn(nodes)[f] = Below(f, nodes[f].value)
    BY <2>3 DEF ChildrenIn
  <2>6. e = f
    BY <1>1, <1>2, <2>3, <2>4, <2>5, Apart
  <2> QED BY <2>2, <2>6, NoThread DEF f
<1>5. Hidden(t) = {} /\ ~is_empty => nodes[m].value = Unused /\ nodes[m].lock = NULL /\ m # Root
  <2>1. ASSUME Hidden(t) = {}, ~is_empty PROVE nodes[m].value = Unused /\ nodes[m].lock = NULL /\ m # Root
    <3>1. \A u \in Threads : m \notin Hidden(u)
      BY <1>4, <2>1
    <3>2. nodes[m].value = Unused
      BY <1>3, <3>1, InTrie
    <3>3. m # Root
      BY <1>1, <1>3, <2>1 DEF SharedInv, EmptyInv
    <3> QED BY <1>1, <3>2, <3>3 DEF SharedInv, UnusedInv
  <2> QED BY <2>1
<1> QED BY <1>3, <1>4, <1>5

(* The child a key gets below a bitmap that has none for it.               *)
LEMMA NewChild ==
  ASSUME NEW c, NEW k \in Keys, c.name \in TreeNames, c.value.type = "BITMAP", Fits(c.name, c.value),
         Above(c.name, KeySymbols(k)), NameBelow(c, k) = NULL
  PROVE  LET m == NewChildName(c, k)
             s == Head(Rest(k, c.name))
         IN  /\ m \in TreeNames /\ m = Append(c.name, s) /\ s \in Nat
             /\ Above(c.name, m) /\ m # c.name /\ Above(m, KeySymbols(k))
             /\ \A b \in Below(c.name, c.value) : ~Above(b, m) /\ ~Above(m, b)
<1> DEFINE e == c.name
           s == Head(Rest(k, e))
           m == Append(e, s)
           K == KeySymbols(k)
<1>1. k \in Seq(Nat \ {0}) /\ K \in Seq(Nat) /\ e \in Seq(Nat) /\ Len(K) = Len(k) + 1 /\ Len(k) \in Nat /\ Len(e) \in Nat
      /\ Above(e, KeySymbols(k)) /\ e \in TreeNames
  BY KeysAreSequences, KeyParts, NamesOfTree
<1>2. IsBitmap(c.value) /\ Below(e, c.value) \subseteq TreeNames
  BY BelowInside
<1>3. Len(e) <= Len(k)
  <2>1. PICK x : x \in c.value.children
    BY <1>2 DEF IsBitmap, HasMax
  <2>2. Append(e, x) \in Below(e, c.value)
    BY <2>1 DEF Below
  <2>3. Append(e, x) \in TreeNames /\ Above(e, Append(e, x)) /\ Append(e, x) # e
    BY <2>2, BelowLonger
  <2> HIDE DEF e
  <2> QED BY <1>1, <2>3, InnerLength
<1>4. s = K[Len(e) + 1] /\ K[Len(e) + 1] \in Nat
  BY <1>1, <1>3, RestPart
<1> HIDE DEF s, e, K
<1>5. Above(m, K)
  <2>1. Above(e, K) /\ Len(e) < Len(K)
    BY <1>1, <1>3 DEF K
  <2> QED BY <1>1, <1>4, <2>1, AboveAppend
<1>6. m \in Seq(Nat) /\ Len(m) = Len(e) + 1 /\ \A i \in 1..Len(e) : m[i] = e[i]
  BY <1>1, <1>4, AppendPart
<1>7. Above(e, m) /\ m # e
  BY <1>1, <1>6 DEF Above
<1>8. m \in TreeNames
  BY <1>5, <1>6, NamesOfTree DEF K
<1>9. ASSUME NEW b \in Below(e, c.value) PROVE ~Above(b, m) /\ ~Above(m, b)
  <2>1. ~Above(b, K) /\ b \in TreeNames /\ b \in Seq(Nat)
    BY <1>1, <1>2, <1>9, Descends, NamesOfTree DEF e, K
  <2>2. ~Above(b, m)
    BY <1>1, <1>5, <1>6, <2>1, AboveTrans
  <2>3. PICK x \in c.value.children : b = Append(e, x)
    BY <1>9 DEF Below
  <2>4. x \in Nat
    BY <1>2 DEF IsBitmap, BitmapValues
  <2>5. Len(b) = Len(e) + 1
    BY <1>1, <2>3, <2>4, AppendPart
  <2>6. ASSUME Above(m, b) PROVE FALSE
    <3>1. m # b
      BY <1>6, <2>2, AboveSelf
    <3>2. Len(m) < Len(b)
      BY <1>6, <2>1, <2>6, <3>1, AboveLonger
    <3> QED BY <1>1, <1>6, <2>5, <3>2
  <2> QED BY <2>2, <2>6
<1>10. m = NewChildName(c, k)
  BY DEF NewChildName, e, s
<1> QED BY <1>4, <1>5, <1>7, <1>8, <1>9, <1>10 DEF e, s, K

(* The nodes a writer adds: their names, below the end of its path.        *)
LEMMA NewNodesPart ==
  ASSUME IInv, NEW t \in Threads, Locking(t), call[t].ret = Pending, CopyIn(nodes, pred[t]), pred[t].value.type = "LEAF"
  PROVE  LET c == Last(path[t])
             new == NewNodes(t)
         IN  /\ DOMAIN new \subseteq TreeNames /\ FirstNewLeaf(t) \in TreeNames
             /\ \A m \in DOMAIN new :
                  /\ Above(c.name, m) /\ m # c.name /\ \A b \in Below(c.name, c.value) : ~Above(b, m)
                  /\ Fits(m, new[m]) /\ new[m].type \in {"LEAF", "BITMAP", "JUMP"} /\ new[m] # Unused /\ new[m] \in NodeValues
             /\ c.value.type = "BITMAP" =>
                  LET m == NewChildName(c, call[t].key)
                  IN  m \in DOMAIN new /\ new[m].type = "LEAF" /\ new[m].key = call[t].key /\ new[m].kv = call[t].value
<1> DEFINE c == Last(path[t])
           new == NewNodes(t)
<1>1. SharedInv /\ ThreadInv(t) /\ CallInv(t) /\ EndInv(t)
  BY DEF IInv, ThreadInv
<1>2. call[t].key \in Keys /\ call[t].value \in Values /\ KeyOf(t) = call[t].key
  BY <1>1, Writer
<1>3. Guarded(t) /\ pc[t] \notin RestPcs \cup {"return"}
  BY <1>1, Owner
<1>4. /\ c.name \in TreeNames /\ Fits(c.name, c.value) /\ Above(c.name, KeySymbols(call[t].key))
  BY <1>1, <1>2, <1>3, PathEnd
<1>5. /\ NameBelow(c, call[t].key) = NULL /\ c.value.type \in {"LEAF", "BITMAP"}
      /\ c.value.type = "LEAF" => c.value.key # call[t].key
  BY <1>1 DEF EndInv
<1>6. ASSUME NEW m, NEW v, Fits(m, v), v.type \in {"LEAF", "BITMAP", "JUMP"} PROVE v # Unused /\ v \in NodeValues
  BY <1>6, FitsIsValue, UnusedKind
<1>7. CASE c.value.type = "BITMAP"
  <2> DEFINE m == NewChildName(c, call[t].key)
             v == Leaf(call[t].key, call[t].value, pred[t].value.next_leaf)
  <2>1. /\ m \in TreeNames /\ Above(c.name, m) /\ m # c.name /\ Above(m, KeySymbols(call[t].key))
        /\ \A b \in Below(c.name, c.value) : ~Above(b, m)
    BY <1>2, <1>4, <1>5, <1>7, NewChild
  <2>2. pred[t].value.next_leaf \in TreeNames \cup {NULL}
    <3>1. pred[t].name \in Names /\ Fits(pred[t].name, pred[t].value)
      BY NamesCopied DEF CopyIn
    <3> QED BY <3>1, Kinds DEF LeafValues
  <2>3. v.type = "LEAF" /\ v.key = call[t].key /\ v.kv = call[t].value /\ v \in LeafValues
    BY <1>2, <2>2 DEF Leaf, LeafValues
  <2>4. Fits(m, v)
    BY <1>2, <2>1, <2>3 DEF Fits
  <2>5. DOMAIN new = {m} /\ new[m] = v
    BY <1>7 DEF NewNodes, CreatedLeaf
  <2>6. FirstNewLeaf(t) = m
    BY <1>7 DEF FirstNewLeaf
  <2> HIDE DEF m, v
  <2>7. v # Unused /\ v \in NodeValues
    BY <1>6, <2>3, <2>4
  <2> HIDE DEF c, new
  <2>8. \A x \in DOMAIN new :
          /\ Above(c.name, x) /\ x # c.name /\ \A b \in Below(c.name, c.value) : ~Above(b, x)
          /\ Fits(x, new[x]) /\ new[x].type \in {"LEAF", "BITMAP", "JUMP"} /\ new[x] # Unused /\ new[x] \in NodeValues
    BY <2>1, <2>3, <2>4, <2>5, <2>7
  <2>9. m \in DOMAIN new /\ new[m].type = "LEAF" /\ new[m].key = call[t].key /\ new[m].kv = call[t].value
    BY <2>3, <2>5
  <2> QED BY <2>1, <2>5, <2>6, <2>8, <2>9 DEF c, new, m
<1>8. CASE c.value.type = "LEAF"
  <2>1. c.value \in LeafValues /\ c.value.key \in Keys /\ Above(c.name, KeySymbols(c.value.key)) /\ Below(c.name, c.value) = {}
    BY <1>4, <1>8, BelowInside
  <2>2. new = SplitNodes(c, call[t]) /\ FirstNewLeaf(t) = MinimalLeaf(c.value.key, call[t].key)
    BY <1>8 DEF NewNodes, FirstNewLeaf
  <2> HIDE DEF c, new
  <2>3. /\ DOMAIN new \subseteq TreeNames /\ c.name \notin DOMAIN new
        /\ FirstNewLeaf(t) \in DOMAIN new
        /\ \A m \in DOMAIN new : Above(c.name, m) /\ Fits(m, new[m]) /\ new[m].type \in {"LEAF", "BITMAP", "JUMP"}
    <3>1. SplitsLeaf(c, call[t])
      BY <1>2, <1>4, <1>5, <1>8, <2>1, LeafSplit
    <3> QED BY <2>2, <3>1 DEF SplitsLeaf
  <2>4. \A m \in DOMAIN new : m # c.name /\ new[m] # Unused /\ new[m] \in NodeValues /\ \A b \in Below(c.name, c.value) : ~Above(b, m)
    BY <1>6, <2>1, <2>3
  <2> QED BY <1>8, <2>3, <2>4 DEF c, new
<1> QED BY <1>5, <1>7, <1>8

(* A copy of a node just written is the copy with the new value.           *)
LEMMA UpdatedCopy ==
  ASSUME NEW c \in Copies, NEW v
  PROVE  Updated(c, v) = [name |-> c.name, value |-> v, seq |-> nodes[c.name].seq + 1]
<1>1. PICK n \in Names, x \in NodeValues, s \in Nat : c = [name |-> n, value |-> x, seq |-> s]
  BY DEF Copies
<1>2. c.name = n
  BY <1>1
<1>3. Updated(c, v) = [c EXCEPT !.value = v, !.seq = nodes[n].seq + 1]
  BY <1>2 DEF Updated
<1>4. Updated(c, v) = [name |-> n, value |-> v, seq |-> nodes[n].seq + 1]
  BY <1>1, <1>3
<1> QED BY <1>2, <1>4

(* A step that leaves the nodes of the trie what they are, but for locks,  *)
(* dirty marks and max_leaf, and adds nodes that stay hidden.              *)
LEMMA LockPredecessorKeeps ==
  ASSUME IInv, NEW t \in Threads, LockPredecessor(t)
  PROVE  IInv'
<1>1. /\ SharedInv /\ DomainInv /\ ThreadInv(t) /\ CallInv(t) /\ EndInv(t) /\ HoldInv(t) /\ nodes \in NodeMaps /\ NodesOK
      /\ pc[t] = "lock_pred" /\ Locking(t)
  BY DEF IInv, SharedInv, ThreadInv, NodesOK, LockPredecessor, Locking
<1>2. Frame(t)
  BY <1>1, FrameCreateLeaf DEF create_leaf
<1>3. /\ call[t].op \in PutCalls /\ call[t].key \in Keys /\ call[t].value \in Values
      /\ KeyOf(t) = call[t].key /\ Root \in TreeNames /\ pc[t] # "idle"
  BY <1>1, Writer
<1>4. call[t].ret = Pending
  BY <1>1 DEF CallInv
<1>5. Guarded(t) /\ pc[t] \notin RestPcs \cup {"return"} /\ ~is_empty
  BY <1>1, Owner
<1>6. CASE Retry(t)
  BY <1>1, <1>6, RetryKeeps
<1>7. CASE PredecessorLockable(pred[t]) /\ ~Retry(t)
  <2> DEFINE c == Last(path[t])
             pn == pred[t].name
             dirty == [pred[t].value EXCEPT !.dirty = TRUE]
             locked == LockNodes(nodes, t, {pn})
             w1 == WriteNode(locked, pn, dirty)
             new == NewNodes(t)
  <2>1. /\ nodes' = AddNodes(w1, t, new)
        /\ pred'[t] = Updated(pred[t], dirty)
        /\ new_leaf'[t] = FirstNewLeaf(t)
        /\ pc'[t] = IF c.value.type = "BITMAP" THEN "link" ELSE "head"
        /\ UNCHANGED <<is_empty, calls, call, path, subtree, level, iter, index, cursor>>
    BY <1>1, <1>7 DEF LockPredecessor, DomainInv, update_entry
  <2>2. CopyIn(nodes, pred[t]) /\ pred[t].value.type = "LEAF"
    BY <1>1 DEF ThreadInv, PredInv
  <2>3. nodes[pn].lock = NULL /\ nodes[pn].seq = pred[t].seq /\ nodes[pn].value = pred[t].value /\ pn \in Names
    BY <1>7, <2>2, Lockable DEF PredecessorLockable
  <2>4. Fits(pn, pred[t].value) /\ pred[t] \in Copies
    BY <2>2 DEF CopyIn
  <2>5. /\ Fits(pn, dirty) /\ dirty.type = "LEAF" /\ dirty.key = pred[t].value.key /\ dirty.kv = pred[t].value.kv
        /\ dirty \in NodeValues /\ dirty # Unused
    <3> HIDE DEF pn
    <3>1. \A d \in BOOLEAN : LET w == [pred[t].value EXCEPT !.dirty = d]
              IN  /\ Fits(pn, w) /\ w.type = "LEAF" /\ w.key = pred[t].value.key /\ w.kv = pred[t].value.kv
                  /\ w \in NodeValues /\ w # Unused
      BY <2>2, <2>3, <2>4, ChangedLeaf
    <3> QED BY <3>1
  <2>6. /\ DOMAIN new \subseteq TreeNames /\ FirstNewLeaf(t) \in TreeNames
        /\ \A m \in DOMAIN new :
             /\ Above(c.name, m) /\ m # c.name /\ \A b \in Below(c.name, c.value) : ~Above(b, m)
             /\ Fits(m, new[m]) /\ new[m].type \in {"LEAF", "BITMAP", "JUMP"} /\ new[m] # Unused /\ new[m] \in NodeValues
        /\ c.value.type = "BITMAP" =>
             LET m == NewChildName(c, call[t].key)
             IN  m \in DOMAIN new /\ new[m].type = "LEAF" /\ new[m].key = call[t].key /\ new[m].kv = call[t].value
    BY <1>1, <1>4, <2>2, NewNodesPart
  <2>7. /\ c.name \in Trie /\ nodes[c.name].lock = t /\ nodes[c.name].value = c.value
        /\ PathOK(nodes, Trie, KeyOf(t), path[t]) /\ path[t] \in Seq(Copies) /\ Len(path[t]) > 0
    BY <1>1, <1>5, Owner, PathEnd
  <2>8. Hidden(t) = {}
    BY <1>1, Nowhere
  <2>9. \A m \in DOMAIN new : nodes[m].value = Unused /\ nodes[m].lock = NULL /\ m \notin Trie /\ m # Root
    <3> TAKE m \in DOMAIN new
    <3>1. m \in TreeNames /\ Above(c.name, m) /\ m # c.name /\ \A b \in Below(c.name, nodes[c.name].value) : ~Above(b, m)
      BY <2>6, <2>7
    <3> HIDE DEF c
    <3> QED BY <1>5, <2>7, <2>8, <3>1, Elsewhere
  <2>10. pn \notin DOMAIN new /\ pn # c.name
    <3>1. pred[t].value # Unused
      BY <2>2 DEF CopyIn
    <3> QED BY <2>3, <2>7, <2>9, <3>1, NoThread
  <2>11. call[t].ret = call'[t].ret /\ path'[t] = path[t] /\ call'[t] = call[t]
    BY <2>1
  <2>12. c.value.type \in {"LEAF", "BITMAP"}
    BY <1>1, <1>4 DEF EndInv
  <2> HIDE DEF dirty, new
  <2>13. /\ locked \in NodeMaps
         /\ \A n \in Names : locked[n].value = nodes[n].value /\ locked[n].seq = nodes[n].seq
         /\ locked[pn].lock = t
         /\ \A n \in Names \ {pn} : locked[n] = nodes[n]
    <3>1. {pn} \in SUBSET Names
      BY <2>3
    <3> HIDE DEF pn
    <3> QED BY <1>1, <3>1, LocksNodes
  <2> HIDE DEF locked
  <2>14. /\ w1 \in NodeMaps
         /\ w1[pn].value = dirty /\ w1[pn].seq = nodes[pn].seq + 1 /\ w1[pn].lock = t
         /\ \A m \in Names \ {pn} : w1[m] = nodes[m]
    <3>1. /\ w1 \in NodeMaps
          /\ w1[pn].value = dirty /\ w1[pn].seq = locked[pn].seq + 1 /\ w1[pn].lock = locked[pn].lock
          /\ \A m \in Names \ {pn} : w1[m] = locked[m]
      <4> HIDE DEF pn
      <4> QED BY <2>3, <2>5, <2>13, WritesNode
    <3> QED BY <2>3, <2>13, <3>1
  <2> HIDE DEF w1, pn, c
  <2>15. /\ nodes' \in NodeMaps
         /\ \A n \in DOMAIN new : nodes'[n].value = new[n] /\ nodes'[n].seq = w1[n].seq + 1 /\ nodes'[n].lock = t
         /\ \A n \in Names \ DOMAIN new : nodes'[n] = w1[n]
    <3>1. DOMAIN new \subseteq Names /\ \A n \in DOMAIN new : new[n] \in NodeValues
      BY <2>6, TrieNames
    <3> QED BY <2>1, <2>14, <3>1, AddsNodes
  <2>16. /\ \A n \in DOMAIN new : n \in Names /\ nodes'[n].value = new[n] /\ nodes'[n].seq = nodes[n].seq + 1 /\ nodes'[n].lock = t
         /\ nodes'[pn].value = dirty /\ nodes'[pn].seq = nodes[pn].seq + 1 /\ nodes'[pn].lock = t
         /\ \A n \in Names \ (DOMAIN new \cup {pn}) : nodes'[n] = nodes[n]
    <3>1. \A n \in DOMAIN new : n \in Names /\ n # pn
      BY <2>6, <2>10, TrieNames
    <3> QED BY <2>3, <2>10, <2>14, <2>15, <3>1
  <2>17. NodeFrame(t)
    <3>1. \A u \in Threads \ {t}, n \in Names : nodes[n].lock = u \/ nodes'[n].lock = u => nodes'[n] = nodes[n]
      BY <2>3, <2>9, <2>16, NoThread
    <3>2. \A n \in Names : nodes[n].seq \in Nat
      BY <1>1, NodeIs
    <3>3. \A n \in Names : /\ nodes[n].seq <= nodes'[n].seq
                           /\ nodes[n].seq = nodes'[n].seq => nodes'[n].value = nodes[n].value
      BY <2>16, <3>2
    <3> QED BY <2>15, <3>1, <3>3 DEF NodeFrame
  <2>18. Hidden(t)' = DOMAIN new
    <3>1. CASE c.value.type = "BITMAP"
      <4>1. pc'[t] = "link" /\ Putting(t)'
        BY <1>4, <2>1, <2>11, <3>1 DEF Putting
      <4>2. DOMAIN NewNodes(t)' = {NewChildName(c, call[t].key)} /\ DOMAIN new = {NewChildName(c, call[t].key)}
        BY <2>11, <3>1 DEF NewNodes, CreatedLeaf, new, c
      <4> QED BY <4>1, <4>2 DEF Hidden
    <3>2. CASE c.value.type = "LEAF"
      <4>1. pc'[t] = "head"
        BY <2>1, <3>2
      <4>2. NewNodes(t)' = new
        BY <2>11, <3>2 DEF NewNodes, new, c
      <4> QED BY <4>1, <4>2 DEF Hidden
    <3> QED BY <2>12, <3>1, <3>2
  <2>19. Trie' = Trie
    <3>1. \A u \in Threads \ {t} : Hidden(u)' = Hidden(u)
      BY <1>2, HiddenKeeps DEF Frame
    <3>2. ASSUME NEW n PROVE n \in Trie <=> n \in Trie'
      <4>1. CASE n \in DOMAIN new
        <5>1. n \notin Trie
          BY <2>9, <4>1
        <5>2. n \notin Trie'
          BY <2>18, <4>1, InTrie
        <5> QED BY <5>1, <5>2
      <4>2. CASE n \notin DOMAIN new
        <5>1. n \in TreeNames => (nodes'[n].value = Unused <=> nodes[n].value = Unused)
          <6>1. nodes[pn].value # Unused
            BY <2>2, <2>3 DEF CopyIn
          <6> QED BY <2>5, <2>16, <4>2, <6>1, TrieNames
        <5>2. (\A u \in Threads : n \notin Hidden(u)) <=> (\A u \in Threads : n \notin Hidden(u)')
          BY <2>8, <2>18, <3>1, <4>2
        <5> QED BY <5>1, <5>2, InTrie
      <4> QED BY <4>1, <4>2
    <3> QED BY <3>2
  <2>20. NodesOK'
    <3>1. ASSUME NEW n \in Names PROVE Fits(n, nodes'[n].value)
      <4>1. CASE n \in DOMAIN new
        BY <2>6, <2>16, <4>1
      <4>2. CASE n = pn
        BY <2>5, <2>16, <4>2
      <4>3. CASE n \notin DOMAIN new \cup {pn}
        BY <1>1, <2>16, <4>3 DEF NodesOK
      <4> QED BY <4>1, <4>2, <4>3
    <3> QED BY <2>15, <3>1 DEF NodesOK
  <2>21. StructInv' /\ IndexInv'
    <3>1. ASSUME NEW n \in Trie
          PROVE  /\ Below(n, nodes'[n].value) = Below(n, nodes[n].value)
                 /\ nodes'[n].value.type = nodes[n].value.type
                 /\ nodes[n].value.type = "LEAF" => /\ nodes'[n].value.key = nodes[n].value.key
                                                    /\ nodes'[n].value.kv = nodes[n].value.kv
      <4>1. n \in Names /\ n \notin DOMAIN new
        BY <2>9, TrieNames
      <4>2. CASE n = pn
        BY <2>2, <2>3, <2>5, <2>16, <4>2 DEF Below
      <4>3. CASE n # pn
        BY <2>16, <4>1, <4>3
      <4> QED BY <4>2, <4>3
    <3> QED BY <1>1, <2>1, <2>19, <3>1, SameShape
  <2>22. EmptyInv' /\ UnusedInv'
    <3>1. EmptyInv'
      BY <1>1, <1>5, <2>1, <2>19 DEF SharedInv, EmptyInv
    <3>2. ASSUME NEW n \in TreeNames, n # Root, nodes'[n].value = Unused PROVE nodes'[n].lock = NULL
      <4>1. n \notin DOMAIN new \cup {pn}
        BY <2>5, <2>6, <2>16, <3>2
      <4>2. nodes'[n] = nodes[n]
        BY <2>16, <4>1, TrieNames
      <4> QED BY <1>1, <3>2, <4>2 DEF SharedInv, UnusedInv
    <3> QED BY <3>1, <3>2 DEF UnusedInv
  <2>23. Locking(t)' /\ WithPred(t)' /\ pc'[t] \in {"link", "head"}
    BY <2>1 DEF Locking, WithPred
  <2>24. ReleaseInv'
    BY <1>1, <1>2, <2>17, <2>23, LocksHeld
  <2>25. CallInv(t)'
    BY <1>1, <1>3, <1>4, <2>1, <2>11 DEF CallInv, AllPcs, RestPcs, PutPcs, IterPcs, PutCalls, IterCalls
  <2>26. PathInv(t)'
    <3>1. PathOK(nodes', Trie', KeyOf(t), path[t])
      BY <1>1, <2>7, <2>17, <2>19, PathKeeps
    <3>2. KeyOf(t)' = KeyOf(t)
      BY <2>1 DEF KeyOf
    <3> QED BY <2>7, <2>11, <3>1, <3>2 DEF PathInv
  <2>27. pred'[t] = [name |-> pn, value |-> dirty, seq |-> nodes[pn].seq + 1]
    BY <2>1, <2>4, UpdatedCopy DEF pn
  <2>28. HoldInv(t)'
    <3>1. ASSUME NEW i \in LockPositions(path[t]) PROVE Owns(nodes', t, path[t][i])
      <4>1. Owns(nodes, t, path[t][i])
        BY <1>1 DEF HoldInv
      <4>2. path[t][i].name \in Names
        <5>1. i \in 1..Len(path[t])
          BY <2>7, LockPositionsPart
        <5> QED BY <2>7, <5>1, AtPath, TrieNames
      <4>3. nodes[path[t][i].name].lock = t
        BY <4>1 DEF Owns
      <4>4. path[t][i].name # pn /\ path[t][i].name \notin DOMAIN new
        BY <2>3, <2>9, <4>3, NoThread
      <4>5. nodes'[path[t][i].name] = nodes[path[t][i].name]
        BY <2>16, <4>2, <4>4
      <4> QED BY <4>1, <4>5 DEF Owns
    <3>2. Owns(nodes', t, pred'[t])
      <4>1. nodes'[pn] = [value |-> nodes'[pn].value, seq |-> nodes'[pn].seq, lock |-> nodes'[pn].lock]
        BY <2>3, <2>15, NodeIs, Zenon
      <4> QED BY <2>16, <2>27, <4>1 DEF Owns
    <3>3. pred'[t].name # Last(path'[t]).name /\ pred'[t].name \notin Hidden(t)'
      BY <2>10, <2>11, <2>18, <2>27 DEF c
    <3> QED BY <2>11, <2>23, <3>1, <3>2, <3>3 DEF HoldInv
  <2>29. PredInv(t)'
    <3>1. pred'[t] \in Copies
      <4>1. nodes[pn].seq \in Nat
        BY <1>1, <2>3, NodeIs
      <4>2. nodes[pn].seq + 1 \in Nat
        BY <4>1
      <4> QED BY <2>3, <2>5, <2>27, <4>2 DEF Copies
    <3>2. CopyIn(nodes', pred'[t])
      <4>1. nodes'[pn].seq \in Nat
        BY <2>3, <2>15, NodeIs
      <4>2. pred'[t].name = pn /\ pred'[t].value = dirty /\ pred'[t].seq = nodes[pn].seq + 1
        BY <2>27
      <4> QED BY <2>5, <2>16, <3>1, <4>1, <4>2 DEF CopyIn
    <3> QED BY <2>5, <2>23, <2>27, <3>2 DEF PredInv
  <2>30. EndInv(t)'
    <3>1. /\ NameBelow(c, call[t].key) = NULL
          /\ c.value.type = "LEAF" => c.value.key # call[t].key
      BY <1>1, <1>4 DEF EndInv, c
    <3>2. new_leaf'[t] \in TreeNames
      BY <2>1, <2>6
    <3> QED BY <1>4, <2>1, <2>11, <2>12, <3>1, <3>2 DEF EndInv, Putting, c
  <2>31. HiddenInv(t)'
    <3>1. ASSUME NEW m \in DOMAIN new
          PROVE  /\ m \in TreeNames /\ nodes'[m].lock = t /\ nodes'[m].value # Unused /\ nodes'[m].value = new[m]
                 /\ Above(Last(path'[t]).name, m) /\ m # Last(path'[t]).name
                 /\ \A b \in Below(Last(path'[t]).name, Last(path'[t]).value) : ~Above(b, m)
      BY <2>6, <2>11, <2>16 DEF c
    <3>2. pc'[t] = "head" => NewNodes(t)' = new
      BY <2>1, <2>11 DEF NewNodes, new, c
    <3>3. Putting(t)' => LET v == nodes'[NewChildName(Last(path'[t]), call'[t].key)].value
                         IN  v.type = "LEAF" /\ v.key = call'[t].key /\ v.kv = call'[t].value
      <4>1. SUFFICES ASSUME Putting(t)' PROVE LET v == nodes'[NewChildName(Last(path'[t]), call'[t].key)].value
                         IN  v.type = "LEAF" /\ v.key = call'[t].key /\ v.kv = call'[t].value
        OBVIOUS
      <4>2. c.value.type = "BITMAP"
        BY <2>1, <4>1 DEF Putting
      <4> DEFINE m == NewChildName(c, call[t].key)
      <4>3. m \in DOMAIN new /\ new[m].type = "LEAF" /\ new[m].key = call[t].key /\ new[m].kv = call[t].value
        BY <2>6, <4>2
      <4>4. nodes'[m].value = new[m]
        BY <2>16, <4>3
      <4> QED BY <2>11, <4>3, <4>4 DEF c
    <3> QED BY <2>18, <3>1, <3>2, <3>3 DEF HiddenInv
  <2>32. DomainInv' /\ \A u \in Threads : ThreadInv(u)'
    BY <1>2, <2>17, <2>19, <2>25, <2>26, <2>28, <2>29, <2>30, <2>31, AllKeep DEF ThreadInv
  <2> QED BY <2>20, <2>21, <2>22, <2>24, <2>32 DEF IInv, SharedInv
<1> QED BY <1>6, <1>7 DEF LockPredecessor

(* The last copy on a path is brought up to date.                          *)
LEMMA PathReplaced ==
  ASSUME NEW ns, NEW T, NEW key, NEW p, PathOK(ns, T, key, p), Len(p) > 0, NEW x \in Copies,
         OnPath(ns, T, key, x), x.name = Last(p).name
  PROVE  LET q == Append(Front(p), x)
         IN  /\ PathOK(ns, T, key, q) /\ q \in Seq(Copies) /\ Len(q) = Len(p) /\ Last(q) = x
             /\ q[Len(p)] = x /\ \A i \in 1..(Len(p) - 1) : q[i] = p[i]
             /\ \A i \in 1..Len(p) : q[i].name = p[i].name
<1> DEFINE q == Append(Front(p), x)
<1>1. p \in Seq(Copies) /\ Len(p) \in Nat /\ Len(p) \in 1..Len(p) /\ Last(p) = p[Len(p)]
  BY LastOf DEF PathOK
<1>2. q \in Seq(Copies) /\ Len(q) = Len(p) /\ q[Len(p)] = x /\ Last(q) = x /\ \A i \in 1..(Len(p) - 1) : q[i] = p[i]
  BY <1>1, ReplaceLast
<1> HIDE DEF q
<1>3. ASSUME NEW i \in 1..Len(p) PROVE OnPath(ns, T, key, q[i]) /\ q[i].name = p[i].name
  <2>1. CASE i = Len(p)
    BY <1>1, <1>2, <2>1
  <2>2. CASE i # Len(p)
    <3>1. q[i] = p[i]
      BY <1>1, <1>2, <2>2
    <3> QED BY <3>1 DEF PathOK
  <2> QED BY <2>1, <2>2
<1>4. ASSUME NEW i \in 1..(Len(q) - 1) PROVE q[i + 1].name \in Below(q[i].name, q[i].value)
  <2>1. q[i] = p[i] /\ i + 1 \in 1..Len(p) /\ i \in 1..(Len(p) - 1)
    BY <1>1, <1>2, <1>4
  <2> QED BY <1>3, <2>1 DEF PathOK
<1>5. PathOK(ns, T, key, q)
  BY <1>2, <1>3, <1>4 DEF PathOK
<1> QED BY <1>2, <1>3, <1>5 DEF q

(* Where a key leaves a jump node.                                         *)
LEMMA LeavesJump ==
  ASSUME NEW c, NEW k \in Keys, c.name \in TreeNames, c.value.type = "JUMP", Fits(c.name, c.value),
         Above(c.name, KeySymbols(k)), NameBelow(c, k) = NULL
  PROVE  LET d == depth_in_jump(c, k)
         IN  /\ d \in Nat /\ d < Len(c.value.jump)
             /\ Above(BitmapName(c, d), KeySymbols(k))
             /\ c.value \in JumpValues /\ Below(c.name, c.value) = {c.name \o c.value.jump}
             /\ c.name \o c.value.jump \in TreeNames
             /\ Above(c.name, c.name \o c.value.jump) /\ c.name # c.name \o c.value.jump
<1> DEFINE e == c.name
           u == c.value.jump
           ch == e \o u
           K == KeySymbols(k)
           d == depth_in_jump(c, k)
           p == SubSeq(u, 1, d)
<1>1. c.value \in JumpValues /\ Below(e, c.value) \subseteq TreeNames
  BY BelowInside
<1>2. Below(e, c.value) = {ch}
  BY DEF Below
<1>3. ch \in TreeNames /\ Above(e, ch) /\ e # ch
  BY <1>2, BelowLonger
<1>4. /\ k \in Seq(Nat \ {0}) /\ K \in Seq(Nat) /\ e \in Seq(Nat) /\ Len(K) = Len(k) + 1 /\ Len(k) \in Nat /\ Len(e) \in Nat
      /\ Above(e, K) /\ e \in TreeNames /\ u \in Seq(Nat)
  <2>1. u \in Seq(Nat)
    BY <1>1 DEF JumpValues
  <2>2. k \in Seq(Nat \ {0}) /\ K \in Seq(Nat) /\ Len(K) = Len(k) + 1 /\ Len(k) \in Nat
    BY KeysAreSequences, KeyParts
  <2>3. e \in Seq(Nat) /\ Len(e) \in Nat
    BY NamesOfTree
  <2> QED BY <2>1, <2>2, <2>3
<1>5. ~Above(ch, K)
  BY <1>2, <1>4, Descends
<1> HIDE DEF e, u, ch
<1>6. Len(e) <= Len(k)
  BY <1>3, <1>4, InnerLength DEF K
<1>7. d = CommonLength(u, Rest(k, e))
  BY DEF depth_in_jump, u, e
<1>8. /\ d = Len(u) <=> Above(ch, K)
      /\ d \in Nat /\ d <= Len(u) /\ Len(e) + d <= Len(k) + 1
      /\ \A i \in 1..d : u[i] = K[Len(e) + i]
  <2> DEFINE x == CommonLength(u, Rest(k, e))
  <2>1. /\ x = Len(u) <=> Above(e \o u, KeySymbols(k))
        /\ x \in Nat /\ x <= Len(u) /\ Len(e) + x <= Len(k) + 1
        /\ \A i \in 1..x : u[i] = KeySymbols(k)[Len(e) + i]
    <3>1. Above(e, KeySymbols(k))
      BY <1>4 DEF K
    <3> QED BY <1>4, <1>6, <3>1, JumpMatches
  <2> QED BY <1>7, <2>1 DEF ch, K
<1> HIDE DEF d, K
<1>9. d < Len(u)
  BY <1>4, <1>5, <1>8
<1>10. p \in Seq(Nat) /\ Len(p) = d /\ \A i \in 1..d : p[i] = u[i]
  <2>1. d \in 0..Len(u)
    BY <1>4, <1>8
  <2> QED BY <1>4, <2>1, AboveSubSeq
<1> HIDE DEF p
<1>11. Above(e \o p, K)
  <2>1. Len(e) + Len(p) <= Len(K) /\ \A i \in 1..Len(p) : K[Len(e) + i] = p[i]
    BY <1>4, <1>8, <1>10
  <2> QED BY <1>4, <1>10, <2>1, AboveConcat
<1>12. BitmapName(c, d) = e \o p
  BY DEF BitmapName, e, p, u
<1> QED BY <1>1, <1>2, <1>3, <1>8, <1>9, <1>11, <1>12 DEF e, u, ch, K, d

(* split_jump_node, which adds the nodes of the split and then the bitmap  *)
(* node that makes them reachable, keeps the invariant.                    *)
LEMMA SplitJumpKeeps ==
  ASSUME IInv, NEW t \in Threads, split_jump_node(t)
  PROVE  IInv'
<1>1. /\ SharedInv /\ DomainInv /\ ThreadInv(t) /\ CallInv(t) /\ nodes \in NodeMaps /\ NodesOK /\ StructInv
      /\ pc[t] = "descend" /\ call[t].op \in PutCalls /\ At(t, "JUMP")
  BY DEF IInv, SharedInv, ThreadInv, NodesOK, split_jump_node, At
<1>2. Frame(t)
  BY <1>1, FrameCreateLeaf DEF create_leaf
<1>3. call[t].op \notin IterCalls /\ call[t].key \in Keys /\ KeyOf(t) = call[t].key /\ Guarded(t)
  BY <1>1, Caller DEF PutCalls, IterCalls
<1>4. CASE Retry(t)
  BY <1>1, <1>4, RetryKeeps
<1>5. CASE ~Retry(t)
  <2> DEFINE c == Last(path[t])
             e == c.name
             K == KeyOf(t)
             d == depth_in_jump(c, K)
             ch == e \o c.value.jump
             B == BitmapName(c, d)
             head == SplitHead(c, d)
             S == JumpSplitNodes(c, d)
             base == IF HasTail(c, d) THEN nodes ELSE WriteNode(nodes, ch, nodes[ch].value)
             w1 == WriteNode(base, e, head)
             w2 == AddNodes(w1, t, S)
             q == Append(Front(path[t]), Updated(c, head))
  <2>1. /\ CanLock(c) /\ (HasTail(c, d) \/ nodes[ch].lock = NULL)
        /\ nodes' = release_all_locks(w2, t)
        /\ path'[t] = q \o IF d = 0 THEN <<>> ELSE <<[name |-> B, value |-> SplitBitmap(c, d), seq |-> w2[B].seq]>>
        /\ UNCHANGED <<is_empty, calls, call, pc, subtree, pred, new_leaf, level, iter, index, cursor>>
    BY <1>1, <1>5 DEF split_jump_node, DomainInv, update_entry
  <2>2. /\ PathOK(nodes, Trie, K, path[t]) /\ path[t] \in Seq(Copies) /\ Len(path[t]) > 0
        /\ c \in Copies /\ CopyIn(nodes, c) /\ e \in Trie /\ e \in TreeNames /\ e \in Names /\ Fits(e, c.value)
        /\ Above(e, KeySymbols(K)) /\ Below(e, c.value) \subseteq Trie
    BY <1>1, <1>3, PathEnd DEF RestPcs
  <2>3. c.value.type = "JUMP" /\ NameBelow(c, K) = NULL
    BY <1>1 DEF At
  <2>4. K \in Keys
    BY <1>3
  <2>5. ~is_empty
    BY <1>1 DEF SharedInv, EmptyInv, RestPcs
  <2>6. nodes[e].lock = NULL /\ nodes[e].seq = c.seq /\ nodes[e].value = c.value
    BY <2>1, <2>2, Lockable
  <2> HIDE DEF c, K
  <2>7. /\ d \in Nat /\ d < Len(c.value.jump)
        /\ Above(B, KeySymbols(K))
        /\ c.value \in JumpValues /\ Below(e, c.value) = {ch}
        /\ ch \in TreeNames /\ Above(e, ch) /\ e # ch
    BY <2>2, <2>3, <2>4, LeavesJump
  <2> HIDE DEF d
  <2>8. /\ DOMAIN S \subseteq TreeNames /\ e \notin DOMAIN S
        /\ Fits(e, head) /\ head.type \in {"BITMAP", "JUMP"}
        /\ Below(e, head) \subseteq DOMAIN S \cup {ch} /\ e \notin Below(e, head)
        /\ \A m \in DOMAIN S : Above(e, m) /\ ~Above(ch, m)
        /\ \A m \in DOMAIN S \cup {ch} : \E b \in Below(e, head) : Above(b, m)
        /\ \A n \in DOMAIN S :
             /\ Fits(n, S[n]) /\ S[n].type \in {"BITMAP", "JUMP"}
             /\ Below(n, S[n]) \subseteq DOMAIN S \cup {ch}
             /\ \A m \in DOMAIN S \cup {ch} : n # m /\ Above(n, m) => \E b \in Below(n, S[n]) : Above(b, m)
        /\ IF d = 0 THEN B = e /\ head = SplitBitmap(c, d)
           ELSE B \in DOMAIN S /\ S[B] = SplitBitmap(c, d) /\ Below(e, head) = {B}
        /\ Fits(B, SplitBitmap(c, d)) /\ B \in TreeNames
        /\ Below(B, SplitBitmap(c, d)) \subseteq DOMAIN S \cup {ch}
    <3>1. c.name \in TreeNames /\ c.value \in JumpValues /\ ch = c.name \o c.value.jump /\ ch \in TreeNames
      BY <2>2, <2>7
    <3> HIDE DEF ch, B, S, head
    <3>2. SplitsJump(c, ch, d)
      BY <2>7, <3>1, JumpSplit
    <3> QED BY <3>2 DEF S, head, B, SplitsJump
  <2>9. ch \in Trie /\ nodes[ch].value # Unused /\ ch \in Names
    BY <2>2, <2>7, InTrie, TrieNames
  <2> HIDE DEF S, head, e, ch, B
  <2>10. Hidden(t) = {} /\ Hidden(t)' = {} /\ HiddenInv(t)'
    BY <1>1, <2>1, Nowhere, NowhereNext
  <2>11. ASSUME NEW m \in DOMAIN S
         PROVE  /\ nodes[m].value = Unused /\ nodes[m].lock = NULL /\ m \notin Trie /\ m # Root /\ m # ch /\ m \in Names
                /\ \A u \in Threads : m \notin Hidden(u)
    <3>1. m \in TreeNames /\ Above(e, m) /\ m # e /\ \A b \in Below(e, nodes[e].value) : ~Above(b, m)
      BY <2>6, <2>7, <2>8, <2>11
    <3>2. nodes[m].value = Unused /\ nodes[m].lock = NULL /\ m \notin Trie /\ m # Root /\ \A u \in Threads \ {t} : m \notin Hidden(u)
      BY <2>2, <2>5, <2>6, <2>10, <3>1, Elsewhere
    <3> QED BY <2>9, <2>10, <3>1, <3>2, TrieNames
  <2>12. \A n \in Names : nodes[n].lock # t
    BY <1>1, Holder DEF Locking, PutCalls, IterCalls
  <2>13. ASSUME NEW n, NEW v, Fits(n, v), v.type \in {"BITMAP", "JUMP"} PROVE v # Unused /\ v \in NodeValues
    BY <2>13, FitsIsValue, UnusedKind
  <2>14. /\ base \in NodeMaps /\ base[ch].value = nodes[ch].value /\ base[ch].lock = nodes[ch].lock
         /\ base[ch] = nodes[ch] \/ (nodes[ch].lock = NULL /\ base[ch].seq = nodes[ch].seq + 1)
         /\ \A n \in Names \ {ch} : base[n] = nodes[n]
    <3>1. CASE HasTail(c, d)
      BY <1>1, <3>1
    <3>2. CASE ~HasTail(c, d)
      <4>1. base = WriteNode(nodes, ch, nodes[ch].value) /\ nodes[ch].lock = NULL
        BY <2>1, <3>2
      <4>2. nodes[ch].value \in NodeValues
        BY <1>1, <2>9, NodeIs
      <4> HIDE DEF base
      <4> QED BY <1>1, <2>9, <4>1, <4>2, WritesNode
    <3> QED BY <3>1, <3>2
  <2> HIDE DEF base
  <2>15. /\ w1 \in NodeMaps
         /\ w1[e].value = head /\ w1[e].seq = base[e].seq + 1 /\ w1[e].lock = base[e].lock
         /\ \A n \in Names \ {e} : w1[n] = base[n]
    BY <2>2, <2>8, <2>13, <2>14, WritesNode DEF e
  <2> HIDE DEF w1
  <2>16. /\ w2 \in NodeMaps
         /\ \A n \in DOMAIN S : w2[n].value = S[n] /\ w2[n].seq = w1[n].seq + 1 /\ w2[n].lock = t
         /\ \A n \in Names \ DOMAIN S : w2[n] = w1[n]
    <3>1. DOMAIN S \subseteq Names /\ \A n \in DOMAIN S : S[n] \in NodeValues
      BY <2>8, <2>11, <2>13
    <3> QED BY <2>15, <3>1, AddsNodes
  <2> HIDE DEF w2
  <2>17. /\ nodes' \in NodeMaps
         /\ \A n \in Names : nodes'[n].value = w2[n].value /\ nodes'[n].seq = w2[n].seq
         /\ \A n \in Names : w2[n].lock = t => nodes'[n].lock = NULL
         /\ \A n \in Names : w2[n].lock # t => nodes'[n] = w2[n]
    BY <2>1, <2>16, ReleasesLocks
  <2>18. e # ch /\ e \in Names /\ e \notin DOMAIN S /\ ch \notin DOMAIN S
    BY <2>2, <2>7, <2>8, <2>11 DEF e
  <2>19. nodes'[e].value = head /\ nodes'[e].seq = nodes[e].seq + 1 /\ nodes'[e].lock = NULL
    <3>1. w2[e].value = head /\ w2[e].seq = nodes[e].seq + 1 /\ w2[e].lock = NULL
      BY <2>6, <2>14, <2>15, <2>16, <2>18 DEF e
    <3> QED BY <2>17, <2>18, <3>1, NoThread
  <2>20. ASSUME NEW n \in DOMAIN S
         PROVE  nodes'[n].value = S[n] /\ nodes'[n].seq = nodes[n].seq + 1 /\ nodes'[n].lock = NULL
    <3>1. w1[n].seq = nodes[n].seq
      BY <2>11, <2>14, <2>15, <2>18
    <3> QED BY <2>11, <2>16, <2>17, <3>1
  <2>21. /\ nodes'[ch].value = nodes[ch].value /\ nodes'[ch].lock = nodes[ch].lock
         /\ nodes'[ch] = nodes[ch] \/ (nodes[ch].lock = NULL /\ nodes'[ch].seq = nodes[ch].seq + 1)
    <3>1. w2[ch] = base[ch]
      BY <2>9, <2>15, <2>16, <2>18
    <3> QED BY <2>9, <2>12, <2>14, <2>17, <3>1
  <2>22. ASSUME NEW n \in Names, n # e, n # ch, n \notin DOMAIN S PROVE nodes'[n] = nodes[n]
    <3>1. w2[n] = nodes[n]
      BY <2>14, <2>15, <2>16, <2>22
    <3> QED BY <2>12, <2>17, <3>1
  <2>23. NodeFrame(t)
    <3>1. ASSUME NEW n \in Names
          PROVE  /\ \A u \in Threads \ {t} : nodes[n].lock = u \/ nodes'[n].lock = u => nodes'[n] = nodes[n]
                 /\ nodes[n].seq <= nodes'[n].seq
                 /\ nodes[n].seq = nodes'[n].seq => nodes'[n].value = nodes[n].value
      <4>1. nodes[n].seq \in Nat
        BY <1>1, NodeIs
      <4>2. CASE n = e
        BY <2>6, <2>19, <4>1, <4>2, NoThread DEF e
      <4>3. CASE n \in DOMAIN S
        BY <2>11, <2>20, <4>1, <4>3, NoThread
      <4>4. CASE n = ch
        BY <2>21, <4>1, <4>4, NoThread
      <4>5. CASE n # e /\ n # ch /\ n \notin DOMAIN S
        BY <2>22, <4>1, <4>5
      <4> QED BY <4>2, <4>3, <4>4, <4>5
    <3> QED BY <2>17, <3>1 DEF NodeFrame
  <2>24. Trie' = Trie \cup DOMAIN S
    <3>1. \A u \in Threads : Hidden(u)' = Hidden(u)
      BY <1>2, <2>10, OtherHidden
    <3>2. ASSUME NEW n PROVE n \in Trie' <=> n \in Trie \cup DOMAIN S
      <4>1. CASE n \in DOMAIN S
        <5>1. n \in TreeNames /\ nodes'[n].value # Unused /\ \A u \in Threads : n \notin Hidden(u)'
          BY <2>8, <2>11, <2>13, <2>20, <3>1, <4>1
        <5> QED BY <4>1, <5>1, InTrie
      <4>2. CASE n \notin DOMAIN S
        <5>1. n \in TreeNames => (nodes'[n].value = Unused <=> nodes[n].value = Unused)
          <6>1. CASE n = e
            <7>1. nodes[n].value # Unused /\ head # Unused
              BY <2>2, <2>8, <2>13, <6>1, InTrie DEF e
            <7> QED BY <2>19, <6>1, <7>1
          <6>2. CASE n = ch
            BY <2>21, <6>2
          <6>3. CASE n # e /\ n # ch
            BY <2>22, <4>2, <6>3, TrieNames
          <6> QED BY <6>1, <6>2, <6>3
        <5> QED BY <3>1, <4>2, <5>1, InTrie
      <4> QED BY <4>1, <4>2
    <3> QED BY <3>2
  <2>25. NodesOK'
    <3>1. ASSUME NEW n \in Names PROVE Fits(n, nodes'[n].value)
      <4>1. CASE n \in DOMAIN S
        BY <2>8, <2>20, <4>1
      <4>2. CASE n = e
        BY <2>8, <2>19, <4>2
      <4>3. CASE n = ch
        BY <1>1, <2>9, <2>21, <4>3 DEF NodesOK
      <4>4. CASE n # e /\ n # ch /\ n \notin DOMAIN S
        BY <1>1, <2>22, <4>4 DEF NodesOK
      <4> QED BY <4>1, <4>2, <4>3, <4>4
    <3> QED BY <2>17, <3>1 DEF NodesOK
  <2>26. StructInv'
    <3> DEFINE O == ChildrenIn(nodes)
               W == ChildrenIn(nodes')
    <3>1. \A n \in TreeNames : O[n] = Below(n, nodes[n].value) /\ W[n] = Below(n, nodes'[n].value)
      BY DEF ChildrenIn
    <3>2. Shaped(Trie, O)
      BY <1>1 DEF StructInv
    <3> HIDE DEF O, W
    <3>3. O[e] = {ch} /\ W[e] = Below(e, head)
      BY <2>2, <2>6, <2>7, <2>19, <3>1 DEF e
    <3>4. \A n \in DOMAIN S : W[n] = Below(n, S[n])
      BY <2>8, <2>20, <3>1
    <3>5. ASSUME NEW n \in Trie \ {e} PROVE W[n] = O[n]
      <4>1. n \in TreeNames /\ n \in Names /\ n \notin DOMAIN S
        BY <2>11, TrieNames
      <4>2. nodes'[n].value = nodes[n].value
        BY <2>21, <2>22, <4>1
      <4> QED BY <3>1, <4>1, <4>2
    <3>6. \A b \in O[e] : Above(e, b) /\ b # e
      BY <2>7, <3>3
    <3>7. \A n \in DOMAIN S : Above(e, n) /\ n # e /\ \A b \in O[e] : ~Above(b, n)
      BY <2>8, <3>3
    <3>8. \A n \in DOMAIN S \cup {e} : W[n] \subseteq DOMAIN S \cup O[e]
      BY <2>8, <3>3, <3>4
    <3>9. \A n \in DOMAIN S \cup {e}, m \in DOMAIN S \cup O[e] : n # m /\ Above(n, m) => \E b \in W[n] : Above(b, m)
      BY <2>8, <3>3, <3>4
    <3>10. Trie \in SUBSET TreeNames /\ DOMAIN S \in SUBSET TreeNames /\ e \in Trie
      BY <2>2, <2>8, TrieNames DEF e
    <3>11. Shaped(Trie \cup DOMAIN S, W)
      BY <3>2, <3>5, <3>6, <3>7, <3>8, <3>9, <3>10, Grafts
    <3> QED BY <2>24, <3>11 DEF StructInv, W
  <2>27. IndexInv'
    <3>1. IndexInv /\ index' = index
      BY <1>1, <2>1 DEF SharedInv
    <3>2. ASSUME NEW n \in Trie' PROVE nodes'[n].value.type = "LEAF" => n \in Trie /\ nodes'[n].value = nodes[n].value
      <4>1. CASE n \in DOMAIN S
        BY <2>8, <2>20, <4>1
      <4>2. CASE n = e
        BY <2>8, <2>19, <4>2
      <4>3. CASE n \notin DOMAIN S \cup {e}
        BY <2>21, <2>22, <2>24, <4>3, TrieNames
      <4> QED BY <4>1, <4>2, <4>3
    <3>3. ASSUME NEW n \in Trie, nodes[n].value.type = "LEAF" PROVE n \in Trie' /\ nodes'[n].value = nodes[n].value
      <4>1. n \notin DOMAIN S /\ n # e
        BY <2>3, <2>6, <2>11, <3>3 DEF e
      <4> QED BY <2>21, <2>22, <2>24, <4>1, TrieNames
    <3>4. \A n \in Trie' : nodes'[n].value.type = "LEAF" =>
            nodes'[n].value.key \in DOMAIN index' /\ index'[nodes'[n].value.key] = nodes'[n].value.kv
      BY <3>1, <3>2 DEF IndexInv
    <3>5. \A k \in DOMAIN index' : \E n \in Trie' : nodes'[n].value.type = "LEAF" /\ nodes'[n].value.key = k
      <4> TAKE k \in DOMAIN index'
      <4>1. PICK n \in Trie : nodes[n].value.type = "LEAF" /\ nodes[n].value.key = k
        BY <3>1 DEF IndexInv
      <4> QED BY <3>3, <4>1
    <3>6. DOMAIN index' \subseteq Keys /\ index' = [k \in DOMAIN index' |-> index'[k]]
      BY <3>1 DEF IndexInv
    <3> QED BY <3>4, <3>5, <3>6 DEF IndexInv
  <2>28. EmptyInv' /\ UnusedInv'
    <3>1. EmptyInv'
      BY <1>1, <2>1, <2>5, <2>24 DEF SharedInv, EmptyInv
    <3>2. ASSUME NEW n \in TreeNames, n # Root, nodes'[n].value = Unused PROVE nodes'[n].lock = NULL
      <4>1. n \notin DOMAIN S /\ n # e /\ n # ch
        BY <2>8, <2>9, <2>13, <2>19, <2>20, <2>21, <3>2
      <4>2. nodes'[n] = nodes[n]
        BY <2>22, <4>1, TrieNames
      <4> QED BY <1>1, <3>2, <4>2 DEF SharedInv, UnusedInv
    <3> QED BY <3>1, <3>2 DEF UnusedInv
  <2>29. ReleaseInv'
    <3>1. \A n \in Names : nodes'[n].lock # t
      BY <2>12, <2>19, <2>20, <2>21, <2>22, NoThread
    <3> QED BY <1>1, <1>2, <2>23, <3>1, LocksHeld
  <2>30. CallInv(t)'
    <3>1. pc'[t] = "descend" /\ call'[t] = call[t]
      BY <1>1, <2>1
    <3> QED BY <1>1, <2>1, <3>1 DEF CallInv, AllPcs, RestPcs, PutPcs, IterPcs
  <2>31. HoldInv(t)' /\ PredInv(t)' /\ EndInv(t)'
    BY <1>1, <2>1, NotWriting
  <2>32. PathInv(t)'
    <3> DEFINE x == Updated(c, head)
               y == [name |-> B, value |-> SplitBitmap(c, d), seq |-> w2[B].seq]
    <3>1. PathOK(nodes', Trie', K, path[t])
      BY <1>1, <2>2, <2>23, <2>24, PathKeeps
    <3>2. x = [name |-> e, value |-> head, seq |-> nodes[e].seq + 1]
      BY <2>2, UpdatedCopy DEF e
    <3>3. nodes[e].seq + 1 \in Nat /\ head \in NodeValues /\ head # Unused
      <4>1. nodes[e].seq \in Nat
        BY <1>1, <2>18, NodeIs
      <4>2. nodes[e].seq + 1 \in Nat
        BY <4>1
      <4> QED BY <2>8, <2>13, <4>2
    <3>4. x \in Copies /\ x.name = Last(path[t]).name /\ x.value = head /\ x.seq = nodes[e].seq + 1
      BY <2>18, <3>2, <3>3 DEF Copies, c, e
    <3> HIDE DEF x
    <3>5. OnPath(nodes', Trie', K, x)
      <4>1. CopyIn(nodes', x)
        BY <2>8, <2>19, <3>2, <3>3, <3>4 DEF CopyIn
      <4>2. e \in Trie' /\ Below(e, head) \subseteq Trie' /\ Above(e, KeySymbols(K))
        BY <2>2, <2>8, <2>9, <2>24 DEF e
      <4> QED BY <3>2, <4>1, <4>2 DEF OnPath
    <3>6. /\ PathOK(nodes', Trie', K, q) /\ q \in Seq(Copies) /\ Len(q) = Len(path[t]) /\ Last(q) = x
      BY <2>2, <3>1, <3>4, <3>5, PathReplaced DEF x
    <3> HIDE DEF q
    <3>7. PathOK(nodes', Trie', K, path'[t]) /\ Len(path'[t]) > 0
      <4>1. CASE d = 0
        <5>1. path'[t] = q
          BY <2>1, <3>6, <4>1
        <5> QED BY <2>2, <3>6, <5>1
      <4>2. CASE d # 0
        <5>1. B \in DOMAIN S /\ S[B] = SplitBitmap(c, d) /\ Below(e, head) = {B}
          BY <2>8, <4>2
        <5>2. nodes'[B].value = SplitBitmap(c, d) /\ nodes'[B].seq = w2[B].seq /\ B \in Names
          BY <2>11, <2>17, <2>20, <5>1
        <5>3. w2[B].seq \in Nat /\ SplitBitmap(c, d) \in NodeValues /\ SplitBitmap(c, d) # Unused
          BY <2>8, <2>13, <2>16, <5>1, <5>2, NodeIs
        <5>4. y \in Copies /\ y.name = B /\ y.value = SplitBitmap(c, d) /\ y.seq = w2[B].seq
          BY <5>2, <5>3 DEF Copies
        <5> HIDE DEF y
        <5>5. OnPath(nodes', Trie', K, y)
          <6>1. CopyIn(nodes', y)
            BY <2>8, <5>2, <5>3, <5>4 DEF CopyIn
          <6>2. B \in Trie' /\ Below(B, SplitBitmap(c, d)) \subseteq Trie' /\ Above(B, KeySymbols(K))
            BY <2>7, <2>8, <2>9, <2>24, <5>1
          <6> QED BY <5>4, <6>1, <6>2 DEF OnPath
        <5>6. y.name \in Below(Last(q).name, Last(q).value)
          BY <3>2, <3>6, <5>1, <5>4
        <5>7. Len(q) > 0
          BY <2>2, <3>6
        <5>8. PathOK(nodes', Trie', K, Append(q, y)) /\ Len(Append(q, y)) > 0
          BY <3>6, <5>4, <5>5, <5>6, <5>7, PathOfMore
        <5>9. path'[t] = q \o <<y>>
          BY <2>1, <4>2 DEF y
        <5>10. q \o <<y>> = Append(q, y)
          BY <3>6, <5>4
        <5> QED BY <5>8, <5>9, <5>10
      <4> QED BY <4>1, <4>2
    <3>8. KeyOf(t)' = K
      BY <2>1 DEF KeyOf, K
    <3> QED BY <3>7, <3>8 DEF PathInv
  <2>33. DomainInv' /\ \A u \in Threads : ThreadInv(u)'
    <3>1. Trie \subseteq Trie'
      BY <2>24
    <3> QED BY <1>2, <2>10, <2>23, <2>30, <2>31, <2>32, <3>1, AllKeep DEF ThreadInv
  <2> QED BY <2>25, <2>26, <2>27, <2>28, <2>29, <2>33 DEF IInv, SharedInv
<1> QED BY <1>4, <1>5

-----------------------------------------------------------------------------
(* The writes that connect the new nodes. *)

(* The leaf for a key can only be where a search for the key ends.         *)
LEMMA LeafIsAtEnd ==
  ASSUME SharedInv, NEW e \in Trie, NEW k \in Keys, Above(e, KeySymbols(k)),
         \A b \in Below(e, nodes[e].value) : ~Above(b, KeySymbols(k)),
         NEW n \in Trie, nodes[n].value.type = "LEAF", nodes[n].value.key = k
  PROVE  n = e
<1>1. Shaped(Trie, ChildrenIn(nodes)) /\ e \in TreeNames /\ n \in TreeNames /\ n \in Names /\ Trie \in SUBSET TreeNames /\ n # MinLeaf
  BY TrieNames, NullIsNoName DEF SharedInv, StructInv
<1>2. ChildrenIn(nodes)[e] = Below(e, nodes[e].value) /\ ChildrenIn(nodes)[n] = Below(n, nodes[n].value)
  BY <1>1 DEF ChildrenIn
<1>3. Fits(n, nodes[n].value)
  BY <1>1 DEF SharedInv, NodesOK
<1>4. Below(n, nodes[n].value) = {} /\ Above(n, KeySymbols(k))
  BY <1>1, <1>3, Kinds
<1>5. KeySymbols(k) \in TreeNames
  BY RootName
<1>6. \A b \in ChildrenIn(nodes)[n] : ~Above(b, KeySymbols(k))
  BY <1>2, <1>4
<1> QED BY <1>1, <1>2, <1>4, <1>5, <1>6, Apart

(* The write that makes the hidden nodes and the new key reachable.        *)
ConnectsHidden(t, v) ==
  LET c == Last(path[t])
      e == c.name
      H == Hidden(t)
  IN  /\ Fits(e, v) /\ v.type \in {"BITMAP", "JUMP"} /\ (c.value.type = "BITMAP" => v.type = "BITMAP")
      /\ Below(e, v) \subseteq H \cup Below(e, c.value)
      /\ \A m \in H \cup Below(e, c.value) : \E b \in Below(e, v) : Above(b, m)
      /\ \A n \in H : /\ Below(n, nodes[n].value) \subseteq H
                      /\ \A m \in H \cup Below(e, c.value) : n # m /\ Above(n, m) => \E b \in Below(n, nodes[n].value) : Above(b, m)

(* The write makes the leaf of the key reachable, and keeps the one it     *)
(* takes the place of.                                                     *)
ConnectsLeaves(t) ==
  LET c == Last(path[t])
      H == Hidden(t)
  IN  /\ \A n \in H : nodes[n].value.type = "LEAF" =>
           \/ nodes[n].value.key = call[t].key /\ nodes[n].value.kv = call[t].value
           \/ c.value.type = "LEAF" /\ nodes[n].value.key = c.value.key /\ nodes[n].value.kv = c.value.kv
      /\ \E n \in H : nodes[n].value.type = "LEAF" /\ nodes[n].value.key = call[t].key
      /\ c.value.type = "LEAF" => \E n \in H : nodes[n].value.type = "LEAF" /\ nodes[n].value.key = c.value.key

(* What the write of the last node on the path does, while the other nodes *)
(* keep their values.                                                      *)
LEMMA PathEndWritten ==
  ASSUME IInv, NEW t \in Threads, pc[t] \in {"head", "mark"}, pc'[t] \in {"link", "propagate"}, call[t].ret = Pending,
         Frame(t), NEW v, WritePathEnd(t, v), pc'[t] = "propagate" => level'[t] = Len(path[t]),
         ConnectsHidden(t, v), ConnectsLeaves(t)
  PROVE  IInv'
<1> DEFINE c == Last(path[t])
           e == c.name
           H == Hidden(t)
<1>a. Fits(e, v) /\ v.type \in {"BITMAP", "JUMP"} /\ (c.value.type = "BITMAP" => v.type = "BITMAP")
  BY DEF ConnectsHidden
<1>b. /\ Below(e, v) \subseteq H \cup Below(e, c.value)
      /\ \A m \in H \cup Below(e, c.value) : \E b \in Below(e, v) : Above(b, m)
      /\ \A n \in H : /\ Below(n, nodes[n].value) \subseteq H
                      /\ \A m \in H \cup Below(e, c.value) : n # m /\ Above(n, m) => \E b \in Below(n, nodes[n].value) : Above(b, m)
  BY DEF ConnectsHidden
<1>c. /\ \A n \in H : nodes[n].value.type = "LEAF" =>
           \/ nodes[n].value.key = call[t].key /\ nodes[n].value.kv = call[t].value
           \/ c.value.type = "LEAF" /\ nodes[n].value.key = c.value.key /\ nodes[n].value.kv = c.value.kv
      /\ \E n \in H : nodes[n].value.type = "LEAF" /\ nodes[n].value.key = call[t].key
      /\ c.value.type = "LEAF" => \E n \in H : nodes[n].value.type = "LEAF" /\ nodes[n].value.key = c.value.key
  BY DEF ConnectsLeaves
<1>1. /\ SharedInv /\ DomainInv /\ ThreadInv(t) /\ CallInv(t) /\ EndInv(t) /\ HoldInv(t) /\ HiddenInv(t)
      /\ nodes \in NodeMaps /\ NodesOK /\ StructInv /\ Locking(t) /\ WithPred(t)
  BY DEF IInv, SharedInv, ThreadInv, NodesOK, Locking, WithPred
<1>2. /\ call[t].op \in PutCalls /\ call[t].key \in Keys /\ call[t].value \in Values
      /\ KeyOf(t) = call[t].key /\ pc[t] # "idle"
  BY <1>1, Writer
<1>3. Guarded(t) /\ pc[t] \notin RestPcs \cup {"return"} /\ ~is_empty
      /\ nodes[e].lock = t /\ nodes[e].value = c.value /\ nodes[e].seq = c.seq
  BY <1>1, Owner
<1>4. /\ PathOK(nodes, Trie, KeyOf(t), path[t]) /\ path[t] \in Seq(Copies) /\ Len(path[t]) > 0 /\ Len(path[t]) \in 1..Len(path[t])
      /\ c = path[t][Len(path[t])] /\ Len(path[t]) \in Nat
      /\ c \in Copies /\ e \in Trie /\ e \in TreeNames /\ e \in Names /\ e # MinLeaf
      /\ Fits(e, c.value) /\ c.value # Unused /\ Below(e, c.value) \subseteq Trie
      /\ Above(e, KeySymbols(call[t].key))
  BY <1>1, <1>2, <1>3, PathEnd
<1>5. v # Unused /\ v \in NodeValues
  BY <1>a, FitsIsValue, UnusedKind
<1>d. c = Last(path[t]) /\ e = c.name /\ H = Hidden(t)
  OBVIOUS
<1> HIDE DEF c, e, H
<1>6. /\ nodes' = WriteNode(nodes, e, v)
      /\ path'[t] = Append(Front(path[t]), Updated(c, v))
      /\ Effect(t, PutResult(t))
      /\ UNCHANGED <<is_empty, calls, subtree, pred, new_leaf, iter, cursor>>
  <2>1. path' = [path EXCEPT ![t] = Append(Front(path[t]), Updated(Last(path[t]), v))]
    BY DEF WritePathEnd
  <2> QED BY <1>1, <2>1 DEF WritePathEnd, DomainInv, update_entry, c, e
<1>7. /\ nodes' \in NodeMaps
      /\ nodes'[e].value = v /\ nodes'[e].seq = nodes[e].seq + 1 /\ nodes'[e].lock = t
      /\ \A m \in Names \ {e} : nodes'[m] = nodes[m]
  <2>1. /\ nodes' \in NodeMaps
        /\ nodes'[e].value = v /\ nodes'[e].seq = nodes[e].seq + 1 /\ nodes'[e].lock = nodes[e].lock
        /\ \A m \in Names \ {e} : nodes'[m] = nodes[m]
    BY <1>1, <1>4, <1>5, <1>6, WritesNode
  <2> QED BY <1>3, <2>1
<1>8. /\ call'[t].op = call[t].op /\ call'[t].key = call[t].key /\ call'[t].value = call[t].value
      /\ call'[t].ret = PutResult(t) /\ call'[t].ret # Pending /\ IsResult(call'[t].ret)
      /\ \E d \in AllCalls : call'[t] = Called(d, call'[t].ret)
  <2>1. /\ call'[t].op = call[t].op /\ call'[t].key = call[t].key /\ call'[t].value = call[t].value
        /\ call'[t].ret = PutResult(t)
        /\ \E d \in AllCalls : call'[t] = Called(d, call'[t].ret)
    BY <1>1, <1>2, <1>6, EffectSets
  <2> QED BY <2>1, PutResults
<1>9. Hidden(t)' = {} /\ HiddenInv(t)'
  <2>1. ~Putting(t)' /\ pc'[t] # "head"
    BY <1>8 DEF Putting
  <2> QED BY <2>1 DEF Hidden, HiddenInv
<1>10. NodeFrame(t)
  <2>1. nodes[e].seq \in Nat /\ \A n \in Names : nodes[n].seq \in Nat
    BY <1>1, <1>4, NodeIs
  <2>2. \A u \in Threads \ {t}, n \in Names : nodes[n].lock = u \/ nodes'[n].lock = u => nodes'[n] = nodes[n]
    BY <1>3, <1>7
  <2>3. \A n \in Names : nodes[n].seq <= nodes'[n].seq
    BY <1>7, <2>1
  <2>4. \A n \in Names : nodes[n].seq = nodes'[n].seq => nodes'[n].value = nodes[n].value
    BY <1>7, <2>1
  <2> QED BY <1>7, <2>2, <2>3, <2>4 DEF NodeFrame
<1>11. ASSUME NEW m \in H
       PROVE  /\ m \in TreeNames /\ m \in Names /\ nodes[m].value # Unused /\ m # e /\ Above(e, m)
              /\ \A b \in Below(e, c.value) : ~Above(b, m)
              /\ m \notin Trie /\ \A u \in Threads \ {t} : m \notin Hidden(u)
              /\ nodes'[m] = nodes[m]
  <2>1. /\ m \in TreeNames /\ nodes[m].value # Unused /\ m # e /\ Above(e, m)
        /\ \A b \in Below(e, c.value) : ~Above(b, m)
    BY <1>1, <1>11 DEF HiddenInv, H, e, c
  <2>2. m \notin Trie /\ \A u \in Threads \ {t} : m \notin Hidden(u)
    BY <1>3, <1>4, <2>1, Elsewhere
  <2> QED BY <1>7, <2>1, <2>2, TrieNames
<1>12. Trie' = Trie \cup H
  <2>1. \A u \in Threads \ {t} : Hidden(u)' = Hidden(u)
    BY HiddenKeeps DEF Frame
  <2>2. ASSUME NEW n PROVE n \in Trie' <=> n \in Trie \cup H
    <3>1. CASE n \in H
      <4>1. n \in TreeNames /\ nodes'[n].value # Unused /\ \A u \in Threads : n \notin Hidden(u)'
        BY <1>9, <1>11, <2>1, <3>1
      <4> QED BY <3>1, <4>1, InTrie
    <3>2. CASE n \notin H
      <4>1. n \in TreeNames => (nodes'[n].value = Unused <=> nodes[n].value = Unused)
        BY <1>3, <1>4, <1>5, <1>7, TrieNames
      <4>2. (\A u \in Threads : n \notin Hidden(u)') <=> (\A u \in Threads : n \notin Hidden(u))
        BY <1>9, <1>d, <2>1, <3>2
      <4> QED BY <3>2, <4>1, <4>2, InTrie
    <3> QED BY <3>1, <3>2
  <2> QED BY <2>2
<1>13. NodesOK'
  <2>1. \A n \in Names : Fits(n, nodes'[n].value)
    BY <1>1, <1>7, <1>a DEF NodesOK
  <2> QED BY <1>7, <2>1 DEF NodesOK
<1>14. StructInv'
  <2> DEFINE O == ChildrenIn(nodes)
             W == ChildrenIn(nodes')
  <2>1. \A n \in TreeNames : O[n] = Below(n, nodes[n].value) /\ W[n] = Below(n, nodes'[n].value)
    BY DEF ChildrenIn
  <2>2. Shaped(Trie, O)
    BY <1>1 DEF StructInv
  <2> HIDE DEF O, W
  <2>3. O[e] = Below(e, c.value) /\ W[e] = Below(e, v)
    BY <1>3, <1>4, <1>7, <2>1
  <2>4. \A n \in H : W[n] = Below(n, nodes[n].value)
    BY <1>11, <2>1
  <2>5. \A n \in Trie \ {e} : W[n] = O[n]
    BY <1>7, <2>1, TrieNames
  <2>6. \A b \in O[e] : Above(e, b) /\ b # e
    BY <1>4, <2>3, BelowLonger
  <2>7. \A n \in H : Above(e, n) /\ n # e /\ \A b \in O[e] : ~Above(b, n)
    BY <1>11, <2>3
  <2>8. \A n \in H \cup {e} : W[n] \subseteq H \cup O[e]
    BY <1>b, <2>3, <2>4
  <2>9. \A n \in H \cup {e}, m \in H \cup O[e] : n # m /\ Above(n, m) => \E b \in W[n] : Above(b, m)
    BY <1>b, <2>3, <2>4
  <2>10. Trie \in SUBSET TreeNames /\ H \in SUBSET TreeNames
    BY <1>11, TrieNames
  <2>11. Shaped(Trie \cup H, W)
    BY <1>4, <2>2, <2>5, <2>6, <2>7, <2>8, <2>9, <2>10, Grafts
  <2> QED BY <1>12, <2>11 DEF StructInv, W
<1>15. IndexInv'
  <2>1. \A b \in Below(e, nodes[e].value) : ~Above(b, KeySymbols(call[t].key))
    <3>1. call[t].key \in Seq(Nat \ {0}) /\ NameBelow(c, call[t].key) = NULL
      BY <1>1, <1>2, KeysAreSequences DEF EndInv, c
    <3>2. \A b \in Below(c.name, c.value) : ~Above(b, KeySymbols(call[t].key))
      BY <1>4, <3>1, Descends DEF e
    <3> QED BY <1>3, <3>2 DEF e
  <2>2. c.value.type = "LEAF" => c.value.key # call[t].key
    BY <1>1 DEF EndInv, c
  <2>3. ASSUME NEW n \in Trie', nodes'[n].value.type = "LEAF"
        PROVE  \/ nodes'[n].value.key = call[t].key /\ nodes'[n].value.kv = call[t].value
               \/ \E m \in Trie : /\ nodes[m].value.type = "LEAF" /\ nodes[m].value.key # call[t].key
                                  /\ nodes'[n].value.key = nodes[m].value.key /\ nodes'[n].value.kv = nodes[m].value.kv
    <3>1. CASE n \in H
      <4>1. nodes'[n] = nodes[n]
        BY <1>11, <3>1
      <4> QED BY <1>3, <1>4, <1>c, <2>2, <2>3, <3>1, <4>1
    <3>2. CASE n \notin H
      <4>1. n # e /\ n \in Trie
        BY <1>7, <1>12, <1>a, <2>3, <3>2
      <4>2. nodes'[n] = nodes[n]
        BY <1>7, <4>1, TrieNames
      <4>3. nodes[n].value.key # call[t].key
        BY <1>1, <1>2, <1>4, <2>1, <2>3, <4>1, <4>2, LeafIsAtEnd
      <4> QED BY <2>3, <4>1, <4>2, <4>3
    <3> QED BY <3>1, <3>2
  <2>4. \E n \in Trie' : nodes'[n].value.type = "LEAF" /\ nodes'[n].value.key = call[t].key
    <3>1. PICK n \in H : nodes[n].value.type = "LEAF" /\ nodes[n].value.key = call[t].key
      BY <1>c
    <3> QED BY <1>11, <1>12, <3>1
  <2>5. ASSUME NEW m \in Trie, nodes[m].value.type = "LEAF", nodes[m].value.key # call[t].key
        PROVE  \E n \in Trie' : nodes'[n].value.type = "LEAF" /\ nodes'[n].value.key = nodes[m].value.key
    <3>1. CASE m = e
      <4>1. PICK n \in H : nodes[n].value.type = "LEAF" /\ nodes[n].value.key = c.value.key
        BY <1>3, <1>c, <2>5, <3>1
      <4> QED BY <1>3, <1>11, <1>12, <3>1, <4>1
    <3>2. CASE m # e
      <4>1. nodes'[m] = nodes[m]
        BY <1>7, <3>2, TrieNames
      <4> QED BY <1>12, <2>5, <4>1
    <3> QED BY <3>1, <3>2
  <2> QED BY <1>1, <1>2, <1>6, <2>3, <2>4, <2>5, PutsKey
<1>16. EmptyInv' /\ UnusedInv'
  <2>1. EmptyInv'
    BY <1>1, <1>3, <1>6, <1>12 DEF SharedInv, EmptyInv
  <2>2. \A n \in TreeNames : n # Root /\ nodes'[n].value = Unused => nodes'[n].lock = NULL
    BY <1>1, <1>5, <1>7, TrieNames DEF SharedInv, UnusedInv
  <2> QED BY <2>1, <2>2 DEF UnusedInv
<1>17. Locking(t)' /\ WithPred(t)'
  BY DEF Locking, WithPred
<1>18. ReleaseInv'
  BY <1>1, <1>10, <1>17, LocksHeld
<1>19. CallInv(t)'
  BY <1>1, <1>2, <1>6, <1>8 DEF CallInv, AllPcs, RestPcs, PutPcs, IterPcs, PutCalls, IterCalls
<1> DEFINE x == Updated(c, v)
<1>20. x \in Copies /\ x.name = e /\ x.value = v /\ x.seq = nodes[e].seq + 1
  <2>1. nodes[e].seq \in Nat
    BY <1>1, <1>4, NodeIs
  <2>2. nodes[e].seq + 1 \in Nat
    BY <2>1
  <2>3. x = [name |-> e, value |-> v, seq |-> nodes[e].seq + 1]
    BY <1>4, UpdatedCopy DEF e
  <2> HIDE DEF x
  <2> QED BY <1>4, <1>5, <2>2, <2>3 DEF Copies
<1>21. x.seq = nodes'[e].seq
  BY <1>7, <1>20
<1> HIDE DEF x
<1>22. /\ PathOK(nodes', Trie', KeyOf(t), path'[t]) /\ path'[t] \in Seq(Copies) /\ Len(path'[t]) = Len(path[t]) /\ Last(path'[t]) = x
       /\ path'[t][Len(path[t])] = x /\ \A i \in 1..(Len(path[t]) - 1) : path'[t][i] = path[t][i]
       /\ \A i \in 1..Len(path[t]) : path'[t][i].name = path[t][i].name
  <2>1. PathOK(nodes', Trie', KeyOf(t), path[t])
    <3>1. Trie \subseteq Trie'
      BY <1>12
    <3> QED BY <1>1, <1>4, <1>10, <3>1, PathKeeps
  <2>2. CopyIn(nodes', x)
    <3>1. x.seq \in Nat
      BY <1>20 DEF Copies
    <3> QED BY <1>5, <1>7, <1>20, <1>21, <1>a, <3>1 DEF CopyIn
  <2>3. x.name \in Trie' /\ Below(x.name, x.value) \subseteq Trie' /\ Above(x.name, KeySymbols(KeyOf(t)))
    BY <1>2, <1>4, <1>12, <1>20, <1>b
  <2>4. OnPath(nodes', Trie', KeyOf(t), x) /\ x.name = Last(path[t]).name
    BY <1>20, <1>d, <2>2, <2>3 DEF OnPath
  <2> QED BY <1>4, <1>6, <1>20, <2>1, <2>4, PathReplaced DEF x
<1>23. PathInv(t)'
  <2>1. KeyOf(t)' = KeyOf(t)
    BY <1>6, <1>8 DEF KeyOf
  <2> QED BY <1>4, <1>22, <2>1 DEF PathInv
<1>24. LockPositions(path'[t]) \subseteq LockPositions(path[t]) /\ LockPositions(path[t]) \subseteq 1..Len(path[t])
       /\ Len(path[t]) \in LockPositions(path'[t])
  <2>1. \A i \in 1..(Len(path[t]) - 1) : path[t][i].value.type \in {"BITMAP", "JUMP"}
    <3> TAKE i \in 1..(Len(path[t]) - 1)
    <3>1. i \in Nat /\ i >= 1 /\ i < Len(path[t])
      BY <1>4
    <3>2. Trie \in SUBSET TreeNames
      BY TrieNames
    <3> QED BY <1>4, <3>1, <3>2, PathStep
  <2>2. path[t][Len(path[t])].value.type = "BITMAP" => path'[t][Len(path[t])].value.type = "BITMAP"
    BY <1>4, <1>20, <1>22, <1>a
  <2>3. \A i \in 1..(Len(path[t]) - 1) : /\ path'[t][i].value.type = path[t][i].value.type
                                        /\ path[t][i].value.type = "BITMAP" => path'[t][i].value.children = path[t][i].value.children
    BY <1>22
  <2>4. LockPositions(path'[t]) \subseteq LockPositions(path[t])
    BY <1>4, <1>22, <2>1, <2>2, <2>3, SameLockPositions
  <2>5. Len(path'[t]) \in LockPositions(path'[t])
    BY <1>4, <1>22, LockPositionsPart
  <2> QED BY <1>4, <1>22, <2>4, <2>5, LockPositionsPart
<1>25. pred[t].name \in Names /\ pred[t].name # e /\ Owns(nodes, t, pred[t]) /\ CopyIn(nodes, pred[t]) /\ pred[t].value.type = "LEAF"
  <2>1. CopyIn(nodes, pred[t]) /\ pred[t].value.type = "LEAF"
    BY <1>1 DEF ThreadInv, PredInv
  <2> QED BY <1>1, <1>d, <2>1, NamesCopied DEF HoldInv, CopyIn
<1>26. HoldInv(t)'
  <2>1. ASSUME NEW i \in LockPositions(path'[t]) PROVE Owns(nodes', t, path'[t][i])
    <3>1. CASE i = Len(path[t])
      <4>1. nodes'[e] = [value |-> nodes'[e].value, seq |-> nodes'[e].seq, lock |-> nodes'[e].lock]
        BY <1>4, <1>7, NodeIs, Zenon
      <4>2. nodes'[e] = [value |-> x.value, seq |-> x.seq, lock |-> t]
        BY <1>7, <1>20, <1>21, <4>1
      <4> QED BY <1>20, <1>22, <3>1, <4>2 DEF Owns
    <3>2. CASE i # Len(path[t])
      <4>1. i \in 1..Len(path[t]) /\ i \in 1..(Len(path[t]) - 1) /\ i \in LockPositions(path[t])
        BY <1>4, <1>24, <3>2
      <4>2. path[t][i].name # e /\ path[t][i].name \in Names
        <5>1. Trie \in SUBSET TreeNames
          BY TrieNames
        <5>2. path[t][i].name \in Names
          BY <1>4, <4>1, <5>1, AtPath
        <5>3. path[t][i].name # path[t][Len(path[t])].name
          BY <1>4, <3>2, <4>1, <5>1, PathApart
        <5> QED BY <1>4, <1>d, <5>2, <5>3
      <4>3. Owns(nodes, t, path[t][i])
        BY <1>1, <4>1 DEF HoldInv
      <4>4. nodes'[path[t][i].name] = nodes[path[t][i].name] /\ path'[t][i] = path[t][i]
        BY <1>7, <1>22, <4>1, <4>2
      <4> QED BY <4>3, <4>4 DEF Owns
    <3> QED BY <3>1, <3>2
  <2>2. Owns(nodes', t, pred'[t])
    BY <1>6, <1>7, <1>25 DEF Owns
  <2>3. pred'[t].name # Last(path'[t]).name /\ pred'[t].name \notin Hidden(t)'
    BY <1>6, <1>9, <1>20, <1>22, <1>25
  <2>4. pc'[t] = "propagate" => level'[t] \in LockPositions(path'[t])
    BY <1>24
  <2> QED BY <2>1, <2>2, <2>3, <2>4 DEF HoldInv
<1>27. PredInv(t)'
  <2>1. CopyIn(nodes', pred[t])
    BY <1>1, <1>3, <1>10, <1>25, CopyKeeps
  <2> QED BY <1>6, <1>25, <2>1 DEF PredInv
<1>28. EndInv(t)'
  <2>1. new_leaf'[t] \in TreeNames
    BY <1>1, <1>6 DEF EndInv
  <2> QED BY <1>8, <1>17, <1>20, <1>22, <1>a, <2>1 DEF EndInv, Putting
<1>29. DomainInv' /\ \A u \in Threads : ThreadInv(u)'
  <2>1. Trie \subseteq Trie'
    BY <1>12
  <2> QED BY <1>9, <1>10, <1>19, <1>23, <1>26, <1>27, <1>28, <2>1, AllKeep DEF ThreadInv
<1> QED BY <1>13, <1>14, <1>15, <1>16, <1>18, <1>29 DEF IInv, SharedInv

(* The write of split_leaf that makes the new nodes reachable keeps the    *)
(* invariant.                                                              *)
LEMMA WriteHeadKeeps ==
  ASSUME IInv, NEW t \in Threads, WriteHead(t)
  PROVE  IInv'
<1> DEFINE c == Last(path[t])
           e == c.name
           S == SplitNodes(c, call[t])
           H == Hidden(t)
           v == PathNodes(c, call[t].key)[e]
<1>1. /\ SharedInv /\ DomainInv /\ ThreadInv(t) /\ CallInv(t) /\ EndInv(t) /\ HiddenInv(t) /\ pc[t] = "head" /\ Locking(t)
  BY DEF IInv, SharedInv, ThreadInv, WriteHead, Locking
<1>2. Frame(t) /\ WritePathEnd(t, v) /\ pc'[t] = "link"
  <2>1. Frame(t)
    BY <1>1, FrameCreateLeaf DEF create_leaf
  <2> QED BY <1>1, <2>1 DEF WriteHead, DomainInv
<1>3. /\ call[t].key \in Keys /\ call[t].value \in Values /\ KeyOf(t) = call[t].key /\ Guarded(t)
  BY <1>1, Writer
<1>4. call[t].ret = Pending /\ c.value.type = "LEAF" /\ c.value.key # call[t].key
  BY <1>1 DEF CallInv, EndInv
<1>5. /\ e \in TreeNames /\ Fits(e, c.value) /\ Above(e, KeySymbols(call[t].key))
  BY <1>1, <1>3, PathEnd DEF RestPcs
<1>6. H = DOMAIN S /\ \A m \in H : nodes[m].value = S[m]
  <2>1. NewNodes(t) = S /\ H = DOMAIN NewNodes(t)
    BY <1>1, <1>4 DEF NewNodes, Hidden
  <2> QED BY <1>1, <2>1 DEF HiddenInv
<1>7. c.value \in LeafValues /\ c.value.key \in Keys /\ Above(e, KeySymbols(c.value.key)) /\ Below(e, c.value) = {}
  BY <1>4, <1>5, BelowInside
<1> HIDE DEF c, S, H, v
<1>8. SplitsLeaf(c, call[t])
  BY <1>3, <1>4, <1>5, <1>7, LeafSplit
<1>9. /\ Fits(e, v) /\ v.type \in {"BITMAP", "JUMP"} /\ Below(e, v) \subseteq DOMAIN S
      /\ \A m \in DOMAIN S : \E b \in Below(e, v) : Above(b, m)
      /\ \A n \in DOMAIN S : /\ Below(n, S[n]) \subseteq DOMAIN S
                             /\ \A m \in DOMAIN S : n # m /\ Above(n, m) => \E b \in Below(n, S[n]) : Above(b, m)
                             /\ S[n].type = "LEAF" => \/ S[n].key = c.value.key /\ S[n].kv = c.value.kv
                                                      \/ S[n].key = call[t].key /\ S[n].kv = call[t].value
      /\ \E n \in DOMAIN S : S[n].type = "LEAF" /\ S[n].key = c.value.key
      /\ \E n \in DOMAIN S : S[n].type = "LEAF" /\ S[n].key = call[t].key
  BY <1>8 DEF SplitsLeaf, S, v
<1>10. ConnectsHidden(t, v)
  <2>1. /\ Fits(e, v) /\ v.type \in {"BITMAP", "JUMP"} /\ (c.value.type = "BITMAP" => v.type = "BITMAP")
        /\ Below(e, v) \subseteq H \cup Below(e, c.value)
        /\ \A m \in H \cup Below(e, c.value) : \E b \in Below(e, v) : Above(b, m)
        /\ \A n \in H : /\ Below(n, nodes[n].value) \subseteq H
                        /\ \A m \in H \cup Below(e, c.value) : n # m /\ Above(n, m) => \E b \in Below(n, nodes[n].value) : Above(b, m)
    BY <1>4, <1>6, <1>7, <1>9
  <2> QED BY <2>1 DEF ConnectsHidden, c, H
<1>11. ConnectsLeaves(t)
  <2>1. /\ \A n \in H : nodes[n].value.type = "LEAF" =>
             \/ nodes[n].value.key = call[t].key /\ nodes[n].value.kv = call[t].value
             \/ c.value.type = "LEAF" /\ nodes[n].value.key = c.value.key /\ nodes[n].value.kv = c.value.kv
        /\ \E n \in H : nodes[n].value.type = "LEAF" /\ nodes[n].value.key = call[t].key
        /\ c.value.type = "LEAF" => \E n \in H : nodes[n].value.type = "LEAF" /\ nodes[n].value.key = c.value.key
    BY <1>4, <1>6, <1>9
  <2> QED BY <2>1 DEF ConnectsLeaves, c, H
<1> QED BY <1>1, <1>2, <1>4, <1>10, <1>11, PathEndWritten

(* The write of add_child that marks the new leaf keeps the invariant.     *)
LEMMA MarkKeeps ==
  ASSUME IInv, NEW t \in Threads, mark_bitmap_child(t)
  PROVE  IInv'
<1> DEFINE c == Last(path[t])
           e == c.name
           H == Hidden(t)
           s == NextSymbol(t)
           m == NewChildName(c, call[t].key)
           v == MarkedBitmap(c.value, s, new_leaf[t])
<1>1. /\ SharedInv /\ DomainInv /\ ThreadInv(t) /\ CallInv(t) /\ EndInv(t) /\ HiddenInv(t) /\ pc[t] = "mark" /\ Locking(t)
  BY DEF IInv, SharedInv, ThreadInv, mark_bitmap_child, Locking
<1>2. Frame(t) /\ WritePathEnd(t, v) /\ pc'[t] = "propagate" /\ level'[t] = Len(path[t])
  <2>1. Frame(t)
    BY <1>1, FrameCreateLeaf DEF create_leaf
  <2> QED BY <1>1, <2>1 DEF mark_bitmap_child, DomainInv
<1>3. /\ call[t].key \in Keys /\ call[t].value \in Values /\ KeyOf(t) = call[t].key /\ Guarded(t)
  BY <1>1, Writer
<1>4. /\ call[t].ret = Pending /\ Putting(t) /\ c.value.type = "BITMAP" /\ NameBelow(c, call[t].key) = NULL
      /\ new_leaf[t] \in TreeNames
  BY <1>1 DEF CallInv, EndInv, Putting
<1>5. /\ e \in TreeNames /\ Fits(e, c.value) /\ Above(e, KeySymbols(call[t].key))
  BY <1>1, <1>3, PathEnd DEF RestPcs
<1>6. H = {m}
  BY <1>4 DEF Hidden, NewNodes, CreatedLeaf
<1>7. nodes[m].value.type = "LEAF" /\ nodes[m].value.key = call[t].key /\ nodes[m].value.kv = call[t].value
  BY <1>1, <1>4 DEF HiddenInv
<1>8. s = Head(Rest(call[t].key, e))
  BY <1>3 DEF NextSymbol
<1> HIDE DEF c, H, s
<1>9. /\ m \in TreeNames /\ m = Append(e, s) /\ s \in Nat
      /\ \A b \in Below(e, c.value) : ~Above(b, m) /\ ~Above(m, b)
  BY <1>3, <1>4, <1>5, <1>8, NewChild
<1>10. IsBitmap(c.value) /\ Below(e, c.value) \subseteq TreeNames
  BY <1>4, <1>5, BelowInside
<1>11. v = Bitmap(c.value.children \cup {s}, IF max_child(c.value) < s THEN new_leaf[t] ELSE c.value.max_leaf)
  BY DEF MarkedBitmap
<1> HIDE DEF v, m, e
<1>12. /\ v.type = "BITMAP" /\ v.children = c.value.children \cup {s} /\ v \in BitmapValues /\ HasMax(v.children)
  <2>1. c.value.children \subseteq Nat /\ c.value.max_leaf \in TreeNames /\ HasMax(c.value.children)
    BY <1>10 DEF IsBitmap, BitmapValues
  <2>2. PICK x \in c.value.children : \A y \in c.value.children : x >= y
    BY <2>1 DEF HasMax
  <2>3. HasMax(c.value.children \cup {s})
    <3>1. x \in Nat /\ x \in c.value.children \cup {s} /\ s \in c.value.children \cup {s}
      BY <2>1
    <3>2. CASE x >= s
      BY <2>2, <3>1, <3>2 DEF HasMax
    <3>3. CASE ~(x >= s)
      <4>1. \A y \in c.value.children \cup {s} : s >= y
        BY <1>9, <2>1, <2>2, <3>1, <3>3
      <4> QED BY <3>1, <4>1 DEF HasMax
    <3> QED BY <3>2, <3>3
  <2> QED BY <1>4, <1>9, <1>11, <2>1, <2>3 DEF Bitmap, BitmapValues
<1>13. Below(e, v) = Below(e, c.value) \cup {m}
  BY <1>4, <1>9, <1>12 DEF Below
<1>14. Fits(e, v)
  BY <1>5, <1>9, <1>10, <1>12, <1>13, NullIsNoName DEF Fits, IsBitmap
<1>15. \A x \in TreeNames : Above(x, x)
  BY NamesOfTree, AboveSelf
<1>16. ConnectsHidden(t, v)
  <2>1. Below(m, nodes[m].value) = {}
    BY <1>7 DEF Below
  <2>2. /\ Fits(e, v) /\ v.type \in {"BITMAP", "JUMP"} /\ (c.value.type = "BITMAP" => v.type = "BITMAP")
        /\ Below(e, v) \subseteq H \cup Below(e, c.value)
        /\ \A x \in H \cup Below(e, c.value) : \E b \in Below(e, v) : Above(b, x)
    BY <1>6, <1>9, <1>10, <1>12, <1>13, <1>14, <1>15
  <2>3. \A n \in H : /\ Below(n, nodes[n].value) \subseteq H
                     /\ \A x \in H \cup Below(e, c.value) : n # x /\ Above(n, x) => \E b \in Below(n, nodes[n].value) : Above(b, x)
    <3>1. Below(m, nodes[m].value) \subseteq H
      BY <2>1
    <3>2. ASSUME NEW x \in H \cup Below(e, c.value), m # x, Above(m, x) PROVE FALSE
      <4>1. x \in Below(e, c.value)
        BY <1>6, <3>2
      <4> QED BY <1>9, <3>2, <4>1
    <3>3. \A n \in H : n = m
      BY <1>6
    <3> QED BY <3>1, <3>2, <3>3
  <2> QED BY <2>2, <2>3 DEF ConnectsHidden, c, e, H
<1>17. ConnectsLeaves(t)
  <2>1. /\ \A n \in H : nodes[n].value.type = "LEAF" =>
             \/ nodes[n].value.key = call[t].key /\ nodes[n].value.kv = call[t].value
             \/ c.value.type = "LEAF" /\ nodes[n].value.key = c.value.key /\ nodes[n].value.kv = c.value.kv
        /\ \E n \in H : nodes[n].value.type = "LEAF" /\ nodes[n].value.key = call[t].key
        /\ c.value.type = "LEAF" => \E n \in H : nodes[n].value.type = "LEAF" /\ nodes[n].value.key = c.value.key
    BY <1>4, <1>6, <1>7
  <2> QED BY <2>1 DEF ConnectsLeaves, c, H
<1> QED BY <1>1, <1>2, <1>4, <1>16, <1>17, PathEndWritten

-----------------------------------------------------------------------------
(* The writes that follow. *)

(* A write of one node that leaves its kind and its children alone.        *)
LEMMA KindKept ==
  ASSUME IInv, NEW t \in Threads, Frame(t), Hidden(t)' = Hidden(t), is_empty' = is_empty, ~is_empty, nodes' \in NodeMaps,
         NEW n \in Names, nodes[n].lock \in {t, NULL}, nodes'[n].lock \in {t, NULL}, nodes'[n].seq = nodes[n].seq + 1,
         Fits(n, nodes'[n].value), nodes[n].value.type \in {"LEAF", "BITMAP", "JUMP"},
         nodes'[n].value.type = nodes[n].value.type, Below(n, nodes'[n].value) = Below(n, nodes[n].value),
         \A m \in Names \ {n} : nodes'[m] = nodes[m] \/ (/\ nodes[m].lock = t /\ nodes'[m].lock = NULL
                                                         /\ nodes'[m].value = nodes[m].value /\ nodes'[m].seq = nodes[m].seq)
  PROVE  NodeFrame(t) /\ Trie' = Trie /\ NodesOK' /\ StructInv' /\ EmptyInv' /\ UnusedInv'
<1>1. SharedInv /\ nodes \in NodeMaps
  BY DEF IInv, SharedInv, NodesOK
<1>2. nodes[n].value # Unused /\ nodes'[n].value # Unused
  BY UnusedKind
<1>3. \A m \in Names \ {n} : nodes'[m].value = nodes[m].value /\ nodes'[m].seq = nodes[m].seq
  OBVIOUS
<1>4. NodeFrame(t)
  <2>1. \A m \in Names : nodes[m].seq \in Nat
    BY <1>1, NodeIs
  <2>2. \A u \in Threads \ {t}, m \in Names : nodes[m].lock = u \/ nodes'[m].lock = u => nodes'[m] = nodes[m]
    BY NoThread
  <2>3. \A m \in Names : nodes[m].seq <= nodes'[m].seq
    BY <1>3, <2>1
  <2>4. \A m \in Names : nodes[m].seq = nodes'[m].seq => nodes'[m].value = nodes[m].value
    BY <1>3, <2>1
  <2> QED BY <2>2, <2>3, <2>4 DEF NodeFrame
<1>5. Trie' = Trie
  <2>1. \A u \in Threads : Hidden(u)' = Hidden(u)
    BY OtherHidden
  <2>2. \A m \in TreeNames : nodes'[m].value = Unused <=> nodes[m].value = Unused
    BY <1>2, <1>3, TrieNames
  <2> QED BY <2>1, <2>2, TrieSame
<1>6. NodesOK'
  <2>1. \A m \in Names : Fits(m, nodes'[m].value)
    BY <1>1, <1>3 DEF SharedInv, NodesOK
  <2> QED BY <2>1 DEF NodesOK
<1>7. StructInv'
  <2>1. ChildrenIn(nodes') = ChildrenIn(nodes)
    <3>1. \A m \in TreeNames : Below(m, nodes'[m].value) = Below(m, nodes[m].value)
      BY <1>3, TrieNames
    <3> QED BY <3>1 DEF ChildrenIn
  <2> QED BY <1>1, <1>5, <2>1 DEF SharedInv, StructInv
<1>8. EmptyInv'
  BY <1>1, <1>5 DEF SharedInv, EmptyInv
<1>9. UnusedInv'
  <2>1. ASSUME NEW m \in TreeNames, m # Root, nodes'[m].value = Unused PROVE nodes'[m].lock = NULL
    <3>1. m # n /\ m \in Names
      BY <1>2, <2>1, TrieNames
    <3>2. nodes[m].lock = NULL
      BY <1>1, <1>3, <2>1, <3>1 DEF SharedInv, UnusedInv
    <3> QED BY <3>1, <3>2
  <2> QED BY <2>1 DEF UnusedInv
<1> QED BY <1>4, <1>5, <1>6, <1>7, <1>8, <1>9

(* The copies on a path that is locked are of other nodes than the         *)
(* predecessor.                                                            *)
LEMMA PredecessorApart ==
  ASSUME SharedInv, NEW t \in Threads, ThreadInv(t), WithPred(t), NEW i \in LockPositions(path[t])
  PROVE  /\ path[t][i].name # pred[t].name /\ path[t][i].name \in Names /\ Owns(nodes, t, path[t][i])
         /\ pred[t].name \in Names /\ Owns(nodes, t, pred[t]) /\ CopyIn(nodes, pred[t]) /\ pred[t].value.type = "LEAF"
<1>1. Locking(t) /\ HoldInv(t) /\ pc[t] \in {"head", "link", "mark", "propagate"}
  BY DEF WithPred, Locking, ThreadInv
<1>2. /\ PathOK(nodes, Trie, KeyOf(t), path[t]) /\ path[t] \in Seq(Copies) /\ Len(path[t]) > 0
      /\ Last(path[t]) = path[t][Len(path[t])] /\ Len(path[t]) \in Nat /\ Trie \in SUBSET TreeNames
  BY <1>1, Owner, PathEnd, TrieNames
<1>3. i \in 1..Len(path[t]) /\ path[t][i].name \in Names
  <2>1. i \in 1..Len(path[t])
    BY <1>2, LockPositionsPart
  <2> QED BY <1>2, <2>1, AtPath
<1>4. CopyIn(nodes, pred[t]) /\ pred[t].value.type = "LEAF" /\ pred[t].name \in Names
  <2>1. CopyIn(nodes, pred[t]) /\ pred[t].value.type = "LEAF"
    BY <1>1 DEF ThreadInv, PredInv
  <2> QED BY <2>1, NamesCopied DEF CopyIn
<1>5. Owns(nodes, t, path[t][i]) /\ Owns(nodes, t, pred[t]) /\ pred[t].name # Last(path[t]).name
  BY <1>1 DEF HoldInv
<1>6. path[t][i].name # pred[t].name
  <2>1. CASE i = Len(path[t])
    BY <1>2, <1>5, <2>1
  <2>2. CASE i # Len(path[t])
    <3>1. i \in Nat /\ i >= 1 /\ i < Len(path[t])
      BY <1>2, <1>3, <2>2
    <3>2. path[t][i].value.type \in {"BITMAP", "JUMP"}
      BY <1>2, <3>1, PathStep
    <3>3. nodes[path[t][i].name].value = path[t][i].value /\ nodes[pred[t].name].value = pred[t].value
      BY <1>5 DEF Owns
    <3> QED BY <1>4, <3>2, <3>3
  <2> QED BY <2>1, <2>2
<1> QED BY <1>3, <1>4, <1>5, <1>6

(* Linking the new leaf into the leaf list keeps the invariant.            *)
LEMMA LinkLeavesKeeps ==
  ASSUME IInv, NEW t \in Threads, LinkLeaves(t)
  PROVE  IInv'
<1> DEFINE pn == pred[t].name
           linked == [pred[t].value EXCEPT !.next_leaf = new_leaf[t]]
<1>1. /\ SharedInv /\ DomainInv /\ ThreadInv(t) /\ CallInv(t) /\ EndInv(t) /\ HoldInv(t) /\ HiddenInv(t) /\ nodes \in NodeMaps
      /\ pc[t] = "link" /\ Locking(t) /\ WithPred(t)
  BY DEF IInv, SharedInv, ThreadInv, NodesOK, LinkLeaves, Locking, WithPred
<1>2. Frame(t)
  BY <1>1, FrameCreateLeaf DEF create_leaf
<1>3. /\ nodes' = WriteNode(nodes, pn, linked)
      /\ pred'[t] = Updated(pred[t], linked)
      /\ \/ call[t].ret = Pending /\ pc'[t] = "mark"
         \/ call[t].ret # Pending /\ pc'[t] = "propagate" /\ level'[t] = Len(path[t])
      /\ UNCHANGED <<is_empty, calls, call, path, subtree, new_leaf, iter, index, cursor>>
  BY <1>1 DEF LinkLeaves, DomainInv, update_entry
<1>4. /\ PathOK(nodes, Trie, KeyOf(t), path[t]) /\ path[t] \in Seq(Copies) /\ Len(path[t]) > 0 /\ ~is_empty
      /\ Len(path[t]) \in LockPositions(path[t])
  BY <1>1, Owner, PathEnd, LockPositionsPart
<1>5. /\ pn \in Names /\ Owns(nodes, t, pred[t]) /\ CopyIn(nodes, pred[t]) /\ pred[t].value.type = "LEAF"
      /\ pred[t] \in Copies /\ Fits(pn, pred[t].value)
  BY <1>1, <1>4, PredecessorApart DEF CopyIn
<1>6. nodes[pn].lock = t /\ nodes[pn].value = pred[t].value
  BY <1>5 DEF Owns
<1>7. /\ Fits(pn, linked) /\ linked.type = "LEAF" /\ linked.key = pred[t].value.key /\ linked.kv = pred[t].value.kv
      /\ linked \in NodeValues /\ linked # Unused
  <2>1. new_leaf[t] \in TreeNames
    BY <1>1 DEF EndInv
  <2> HIDE DEF pn
  <2>2. \A l \in TreeNames : LET w == [pred[t].value EXCEPT !.next_leaf = l]
              IN  /\ Fits(pn, w) /\ w.type = "LEAF" /\ w.key = pred[t].value.key /\ w.kv = pred[t].value.kv
                  /\ w \in NodeValues /\ w # Unused
    BY <1>5, ChangedLeaf
  <2> QED BY <2>1, <2>2
<1>8. pn \notin Hidden(t) /\ pn # Last(path[t]).name
  BY <1>1 DEF HoldInv
<1>9. Hidden(t)' = Hidden(t) /\ (Putting(t)' <=> Putting(t))
  <2>1. Putting(t)' <=> Putting(t)
    BY <1>1, <1>3 DEF Putting
  <2>2. pc'[t] # "head"
    BY <1>3
  <2>3. Putting(t) => DOMAIN NewNodes(t)' = DOMAIN NewNodes(t)
    <3>1. Putting(t) => Last(path[t]).value.type = "BITMAP"
      BY <1>1 DEF EndInv, Putting
    <3> QED BY <1>3, <3>1 DEF NewNodes, CreatedLeaf
  <2> QED BY <1>1, <2>1, <2>2, <2>3 DEF Hidden
<1> HIDE DEF pn, linked
<1>10. /\ nodes' \in NodeMaps /\ nodes'[pn].value = linked /\ nodes'[pn].seq = nodes[pn].seq + 1 /\ nodes'[pn].lock = nodes[pn].lock
       /\ \A m \in Names \ {pn} : nodes'[m] = nodes[m]
  BY <1>1, <1>3, <1>5, <1>7, WritesNode
<1>11. Below(pn, nodes'[pn].value) = Below(pn, nodes[pn].value)
  BY <1>5, <1>6, <1>7, <1>10 DEF Below
<1>12. NodeFrame(t) /\ Trie' = Trie /\ NodesOK' /\ StructInv' /\ EmptyInv' /\ UnusedInv'
  <2>1. /\ nodes[pn].lock \in {t, NULL} /\ nodes'[pn].lock \in {t, NULL} /\ Fits(pn, nodes'[pn].value)
        /\ nodes[pn].value.type \in {"LEAF", "BITMAP", "JUMP"} /\ nodes'[pn].value.type = nodes[pn].value.type
        /\ is_empty' = is_empty
    BY <1>3, <1>5, <1>6, <1>7, <1>10
  <2> QED BY <1>2, <1>4, <1>5, <1>9, <1>10, <1>11, <2>1, KindKept
<1>13. IndexInv'
  <2>1. ASSUME NEW n \in Trie
        PROVE  /\ Below(n, nodes'[n].value) = Below(n, nodes[n].value)
               /\ nodes'[n].value.type = nodes[n].value.type
               /\ nodes[n].value.type = "LEAF" => /\ nodes'[n].value.key = nodes[n].value.key
                                                  /\ nodes'[n].value.kv = nodes[n].value.kv
    <3>1. CASE n = pn
      BY <1>5, <1>6, <1>7, <1>10, <1>11, <3>1
    <3>2. CASE n # pn
      <4>1. nodes'[n] = nodes[n]
        BY <1>10, <3>2, TrieNames
      <4> QED BY <4>1
    <3> QED BY <3>1, <3>2
  <2>2. index' = index
    BY <1>3
  <2>3. Trie' = Trie
    BY <1>12
  <2> QED BY <1>1, <2>1, <2>2, <2>3, SameShape
<1>14. Locking(t)' /\ WithPred(t)'
  BY <1>3 DEF Locking, WithPred
<1>15. ReleaseInv'
  BY <1>1, <1>2, <1>12, <1>14, LocksHeld
<1>16. CallInv(t)'
  <2>1. call'[t] = call[t] /\ path'[t] = path[t] /\ calls'[t] = calls[t] /\ iter'[t] = iter[t]
    BY <1>3
  <2>2. call[t].op \in PutCalls
    BY <1>1, Writer
  <2> QED BY <1>1, <1>3, <2>1, <2>2 DEF CallInv, AllPcs, RestPcs, PutPcs, IterPcs, PutCalls, IterCalls
<1>17. PathInv(t)'
  <2>1. PathOK(nodes', Trie', KeyOf(t), path[t])
    BY <1>1, <1>4, <1>12, PathKeeps
  <2>2. KeyOf(t)' = KeyOf(t) /\ path'[t] = path[t]
    BY <1>3 DEF KeyOf
  <2> QED BY <1>4, <2>1, <2>2 DEF PathInv
<1>18. pred'[t] = [name |-> pn, value |-> linked, seq |-> nodes[pn].seq + 1]
  BY <1>3, <1>5, UpdatedCopy DEF pn
<1>19. nodes[pn].seq \in Nat /\ nodes[pn].seq + 1 \in Nat
  <2>1. nodes[pn].seq \in Nat
    BY <1>1, <1>5, NodeIs
  <2> QED BY <2>1
<1>20. HoldInv(t)'
  <2>1. path'[t] = path[t]
    BY <1>3
  <2>2. ASSUME NEW i \in LockPositions(path[t]) PROVE Owns(nodes', t, path[t][i])
    <3>1. path[t][i].name # pn /\ path[t][i].name \in Names /\ Owns(nodes, t, path[t][i])
      BY <1>1, PredecessorApart DEF pn
    <3> QED BY <1>10, <3>1 DEF Owns
  <2>3. Owns(nodes', t, pred'[t])
    <3>1. nodes'[pn] = [value |-> nodes'[pn].value, seq |-> nodes'[pn].seq, lock |-> nodes'[pn].lock]
      BY <1>5, <1>10, NodeIs, Zenon
    <3> QED BY <1>6, <1>10, <1>18, <3>1 DEF Owns
  <2>4. pred'[t].name # Last(path'[t]).name /\ pred'[t].name \notin Hidden(t)'
    BY <1>8, <1>9, <1>18, <2>1
  <2>5. pc'[t] = "propagate" => level'[t] \in LockPositions(path'[t])
    BY <1>3, <1>4, <2>1
  <2>6. pc'[t] # "root_check"
    BY <1>3
  <2> QED BY <2>1, <2>2, <2>3, <2>4, <2>5, <2>6 DEF HoldInv
<1>21. PredInv(t)'
  <2>1. pred'[t] \in Copies
    BY <1>5, <1>7, <1>18, <1>19 DEF Copies
  <2>2. CopyIn(nodes', pred'[t])
    BY <1>7, <1>10, <1>18, <1>19, <2>1 DEF CopyIn
  <2>3. pc'[t] # "max_leaf" /\ pred'[t].value.type = "LEAF"
    BY <1>3, <1>7, <1>18
  <2> QED BY <2>2, <2>3 DEF PredInv
<1>22. EndInv(t)'
  BY <1>1, <1>3, <1>9 DEF EndInv, Putting
<1>23. HiddenInv(t)'
  <2>1. \A m \in Hidden(t) : nodes'[m] = nodes[m]
    BY <1>1, <1>8, <1>10, TrieNames DEF HiddenInv
  <2>2. Putting(t) => NewChildName(Last(path[t]), call[t].key) \in Hidden(t)
    <3>1. Putting(t) => Last(path[t]).value.type = "BITMAP"
      BY <1>1 DEF EndInv, Putting
    <3> QED BY <3>1 DEF Hidden, NewNodes, CreatedLeaf
  <2>3. pc'[t] # "head"
    BY <1>3
  <2> QED BY <1>1, <1>3, <1>9, <2>1, <2>2, <2>3 DEF HiddenInv
<1>24. DomainInv' /\ \A u \in Threads : ThreadInv(u)'
  BY <1>2, <1>12, <1>16, <1>17, <1>20, <1>21, <1>22, <1>23, AllKeep DEF ThreadInv
<1> QED BY <1>12, <1>13, <1>15, <1>24 DEF IInv, SharedInv

(* A path stays one when a copy on it is replaced by one of the same node  *)
(* with the same nodes below.                                              *)
LEMMA PathEntryReplaced ==
  ASSUME NEW ns, NEW T, NEW key, NEW p, PathOK(ns, T, key, p), NEW j \in Nat, j >= 1, j < Len(p), NEW x \in Copies,
         OnPath(ns, T, key, x), x.name = p[j].name, Below(x.name, x.value) = Below(p[j].name, p[j].value)
  PROVE  LET q == [p EXCEPT ![j] = x]
         IN  /\ PathOK(ns, T, key, q) /\ q \in Seq(Copies) /\ Len(q) = Len(p) /\ Last(q) = Last(p)
             /\ q[j] = x /\ \A i \in 1..Len(p) : i # j => q[i] = p[i]
             /\ \A i \in 1..Len(p) : q[i].name = p[i].name
<1> DEFINE q == [p EXCEPT ![j] = x]
<1>1. p \in Seq(Copies) /\ Len(p) \in Nat /\ j \in 1..Len(p)
  BY DEF PathOK
<1>2. q \in Seq(Copies) /\ Len(q) = Len(p) /\ q[j] = x /\ \A i \in 1..Len(p) : i # j => q[i] = p[i]
  BY <1>1
<1> HIDE DEF q
<1>3. \A i \in 1..Len(p) : q[i].name = p[i].name /\ Below(q[i].name, q[i].value) = Below(p[i].name, p[i].value)
  <2>1. SUFFICES ASSUME NEW i \in 1..Len(p)
                 PROVE  q[i].name = p[i].name /\ Below(q[i].name, q[i].value) = Below(p[i].name, p[i].value)
    OBVIOUS
  <2>2. CASE i = j
    BY <1>2, <2>2
  <2>3. CASE i # j
    BY <1>2, <2>3
  <2> QED BY <2>2, <2>3
<1>4. \A i \in 1..Len(q) : OnPath(ns, T, key, q[i])
  <2>1. SUFFICES ASSUME NEW i \in 1..Len(p) PROVE OnPath(ns, T, key, q[i])
    BY <1>2
  <2>2. OnPath(ns, T, key, p[i])
    BY DEF PathOK
  <2> QED BY <1>2, <2>2
<1>5. \A i \in 1..(Len(q) - 1) : q[i + 1].name \in Below(q[i].name, q[i].value)
  <2>1. SUFFICES ASSUME NEW i \in 1..(Len(p) - 1) PROVE q[i + 1].name \in Below(q[i].name, q[i].value)
    BY <1>2
  <2>2. p[i + 1].name \in Below(p[i].name, p[i].value)
    BY DEF PathOK
  <2>3. i \in 1..Len(p) /\ i + 1 \in 1..Len(p)
    BY <1>1
  <2> QED BY <1>3, <2>2, <2>3
<1>6. Last(q) = Last(p)
  <2>1. Len(p) \in 1..Len(p) /\ Len(p) # j /\ Len(p) > 0
    BY <1>1
  <2>2. q[Len(p)] = p[Len(p)]
    BY <1>2, <2>1
  <2>3. Last(q) = q[Len(q)] /\ Last(p) = p[Len(p)]
    BY <1>1, <1>2, <2>1, LastOf
  <2> QED BY <1>2, <2>2, <2>3
<1>7. PathOK(ns, T, key, q)
  BY <1>2, <1>4, <1>5 DEF PathOK
<1> QED BY <1>2, <1>3, <1>6, <1>7 DEF q

(* A new max_leaf in a node on the path keeps the invariant.               *)
LEMMA PropagateKeeps ==
  ASSUME IInv, NEW t \in Threads, propagate_max_leaf(t)
  PROVE  IInv'
<1> DEFINE i == level[t]
           j == i - 1
           pa == path[t][j]
           pn == pa.name
           v == [pa.value EXCEPT !.max_leaf = path[t][i].value.max_leaf]
           x == Updated(pa, v)
           q == [path[t] EXCEPT ![j] = x]
<1>1. /\ SharedInv /\ DomainInv /\ ThreadInv(t) /\ CallInv(t) /\ EndInv(t) /\ HoldInv(t) /\ PredInv(t) /\ nodes \in NodeMaps
      /\ pc[t] = "propagate" /\ Locking(t) /\ WithPred(t) /\ Trie \in SUBSET TreeNames
  BY TrieNames DEF IInv, SharedInv, ThreadInv, NodesOK, propagate_max_leaf, Locking, WithPred
<1>2. Frame(t)
  BY <1>1, FrameCreateLeaf DEF create_leaf
<1>3. /\ Propagates(path[t], i)
      /\ nodes' = WriteNode(nodes, pn, v)
      /\ path'[t] = q
      /\ level'[t] = j
      /\ UNCHANGED <<is_empty, calls, call, pc, subtree, pred, new_leaf, iter, index, cursor>>
  BY <1>1 DEF propagate_max_leaf, DomainInv, update_entry
<1>4. /\ PathOK(nodes, Trie, KeyOf(t), path[t]) /\ path[t] \in Seq(Copies) /\ Len(path[t]) > 0 /\ Len(path[t]) \in Nat /\ ~is_empty
      /\ Last(path[t]) = path[t][Len(path[t])]
  BY <1>1, Owner, PathEnd
<1>5. Last(path[t]).value.type \in {"BITMAP", "JUMP"}
  BY <1>1, Writer DEF EndInv, CallInv, PutCalls, IterCalls
<1>6. i \in LockPositions(path[t])
  BY <1>1 DEF HoldInv
<1>7. j \in LockPositions(path[t]) /\ j \in 1..Len(path[t]) /\ i \in 1..Len(path[t]) /\ i > 1
  <2> HIDE DEF i
  <2> QED BY <1>1, <1>3, <1>4, <1>5, <1>6, PropagatesToLocked
<1>8. j \in Nat /\ j >= 1 /\ j < Len(path[t]) /\ j + 1 = i
  BY <1>4, <1>7
<1> HIDE DEF i, j
<1>9. /\ pa \in Copies /\ pn \in Trie /\ pn \in TreeNames /\ pn \in Names /\ Fits(pn, pa.value)
      /\ Below(pn, pa.value) \subseteq Trie /\ Above(pn, KeySymbols(KeyOf(t)))
      /\ pa.value.type \in {"BITMAP", "JUMP"}
  <2>1. /\ pa \in Copies /\ pn \in Trie /\ pn \in TreeNames /\ pn \in Names /\ Fits(pn, pa.value)
        /\ Below(pn, pa.value) \subseteq Trie /\ Above(pn, KeySymbols(KeyOf(t)))
    BY <1>1, <1>4, <1>7, AtPath
  <2>2. pa.value.type \in {"BITMAP", "JUMP"}
    BY <1>1, <1>4, <1>8, PathStep
  <2> QED BY <2>1, <2>2
<1>10. path[t][i].value.max_leaf \in TreeNames
  <2>1. path[t][i].value.type \in {"BITMAP", "JUMP"}
    <3>1. CASE i = Len(path[t])
      BY <1>4, <1>5, <3>1
    <3>2. CASE i # Len(path[t])
      <4>1. i \in Nat /\ i >= 1 /\ i < Len(path[t])
        BY <1>4, <1>7, <3>2
      <4> QED BY <1>1, <1>4, <4>1, PathStep
    <3> QED BY <3>1, <3>2
  <2>2. Fits(path[t][i].name, path[t][i].value) /\ path[t][i].name \in Names
    BY <1>1, <1>4, <1>7, AtPath
  <2>3. path[t][i].value \in BitmapValues \/ path[t][i].value \in JumpValues
    BY <2>1, <2>2, Kinds DEF IsBitmap
  <2> QED BY <2>3 DEF BitmapValues, JumpValues
<1>11. Owns(nodes, t, pa)
  BY <1>1, <1>7 DEF HoldInv
<1>12. nodes[pn].lock = t /\ nodes[pn].value = pa.value
  BY <1>11 DEF Owns
<1>13. /\ Fits(pn, v) /\ v.type = pa.value.type /\ Below(pn, v) = Below(pn, pa.value) /\ v \in NodeValues /\ v # Unused
       /\ pa.value.type = "BITMAP" => v.children = pa.value.children
  <2> HIDE DEF pn, pa
  <2> QED BY <1>9, <1>10, ChangedMaxLeaf
<1>14. x = [name |-> pn, value |-> v, seq |-> nodes[pn].seq + 1]
  BY <1>9, UpdatedCopy
<1>15. nodes[pn].seq \in Nat /\ nodes[pn].seq + 1 \in Nat
  <2>1. nodes[pn].seq \in Nat
    BY <1>1, <1>9, NodeIs
  <2> QED BY <2>1
<1>16. x \in Copies /\ x.name = pn /\ x.value = v /\ x.seq = nodes[pn].seq + 1
  BY <1>9, <1>13, <1>14, <1>15 DEF Copies
<1>17. Hidden(t) = {} /\ Hidden(t)' = {} /\ HiddenInv(t)'
  BY <1>1, <1>3, Nowhere, NowhereNext
<1> HIDE DEF pa, pn, v, x, q
<1>18. /\ nodes' \in NodeMaps /\ nodes'[pn].value = v /\ nodes'[pn].seq = nodes[pn].seq + 1 /\ nodes'[pn].lock = nodes[pn].lock
       /\ \A m \in Names \ {pn} : nodes'[m] = nodes[m]
  BY <1>1, <1>3, <1>9, <1>13, WritesNode
<1>19. NodeFrame(t) /\ Trie' = Trie /\ NodesOK' /\ StructInv' /\ EmptyInv' /\ UnusedInv'
  <2>1. /\ nodes[pn].lock \in {t, NULL} /\ nodes'[pn].lock \in {t, NULL} /\ Fits(pn, nodes'[pn].value)
        /\ nodes[pn].value.type \in {"LEAF", "BITMAP", "JUMP"} /\ nodes'[pn].value.type = nodes[pn].value.type
        /\ is_empty' = is_empty /\ Below(pn, nodes'[pn].value) = Below(pn, nodes[pn].value)
        /\ Hidden(t)' = Hidden(t)
    BY <1>3, <1>9, <1>12, <1>13, <1>17, <1>18
  <2> QED BY <1>2, <1>4, <1>9, <1>18, <2>1, KindKept
<1>20. IndexInv'
  <2>1. ASSUME NEW n \in Trie
        PROVE  /\ Below(n, nodes'[n].value) = Below(n, nodes[n].value)
               /\ nodes'[n].value.type = nodes[n].value.type
               /\ nodes[n].value.type = "LEAF" => /\ nodes'[n].value.key = nodes[n].value.key
                                                  /\ nodes'[n].value.kv = nodes[n].value.kv
    <3>1. CASE n = pn
      BY <1>9, <1>12, <1>13, <1>18, <3>1
    <3>2. CASE n # pn
      <4>1. nodes'[n] = nodes[n]
        BY <1>18, <3>2, TrieNames
      <4> QED BY <4>1
    <3> QED BY <3>1, <3>2
  <2>2. index' = index
    BY <1>3
  <2>3. Trie' = Trie
    BY <1>19
  <2> QED BY <1>1, <2>1, <2>2, <2>3, SameShape
<1>21. Locking(t)' /\ WithPred(t)'
  BY <1>1, <1>3 DEF Locking, WithPred
<1>22. ReleaseInv'
  BY <1>1, <1>2, <1>19, <1>21, LocksHeld
<1>23. PathOK(nodes', Trie', KeyOf(t), path[t])
  BY <1>1, <1>4, <1>19, PathKeeps
<1>24. OnPath(nodes', Trie', KeyOf(t), x)
  <2>1. CopyIn(nodes', x)
    BY <1>13, <1>15, <1>16, <1>18 DEF CopyIn
  <2> QED BY <1>9, <1>13, <1>16, <1>19, <2>1 DEF OnPath
<1>25. /\ PathOK(nodes', Trie', KeyOf(t), q) /\ q \in Seq(Copies) /\ Len(q) = Len(path[t]) /\ Last(q) = Last(path[t])
       /\ q[j] = x /\ \A k \in 1..Len(path[t]) : k # j => q[k] = path[t][k]
       /\ \A k \in 1..Len(path[t]) : q[k].name = path[t][k].name
  <2>1. x.name = path[t][j].name /\ Below(x.name, x.value) = Below(path[t][j].name, path[t][j].value)
    BY <1>13, <1>16 DEF pn, pa
  <2> QED BY <1>8, <1>16, <1>23, <1>24, <2>1, PathEntryReplaced DEF q
<1>26. path'[t] = q /\ Last(path'[t]) = Last(path[t]) /\ call'[t] = call[t] /\ pred'[t] = pred[t] /\ pc'[t] = pc[t]
       /\ KeyOf(t)' = KeyOf(t)
  BY <1>3, <1>25 DEF KeyOf
<1>27. PathInv(t)'
  BY <1>4, <1>25, <1>26 DEF PathInv
<1>28. LockPositions(q) = LockPositions(path[t])
  <2>1. \A k \in 1..(Len(path[t]) - 1) :
           /\ q[k].value.type = path[t][k].value.type /\ path[t][k].value.type \in {"BITMAP", "JUMP"}
           /\ path[t][k].value.type = "BITMAP" => q[k].value.children = path[t][k].value.children
    <3>1. SUFFICES ASSUME NEW k \in 1..(Len(path[t]) - 1)
                   PROVE  /\ q[k].value.type = path[t][k].value.type /\ path[t][k].value.type \in {"BITMAP", "JUMP"}
                          /\ path[t][k].value.type = "BITMAP" => q[k].value.children = path[t][k].value.children
      OBVIOUS
    <3>2. k \in Nat /\ k >= 1 /\ k < Len(path[t]) /\ k \in 1..Len(path[t])
      BY <1>4
    <3>3. path[t][k].value.type \in {"BITMAP", "JUMP"}
      BY <1>1, <1>4, <3>2, PathStep
    <3>4. CASE k = j
      BY <1>13, <1>16, <1>25, <3>3, <3>4 DEF pa
    <3>5. CASE k # j
      BY <1>25, <3>2, <3>3, <3>5
    <3> QED BY <3>4, <3>5
  <2>2. q[Len(path[t])] = path[t][Len(path[t])]
    <3>1. Len(path[t]) \in 1..Len(path[t]) /\ Len(path[t]) # j
      BY <1>4, <1>8
    <3> QED BY <1>25, <3>1
  <2>3. LockPositions(q) \subseteq LockPositions(path[t])
    <3>1. \A k \in 1..(Len(path[t]) - 1) : q[k].value.type = path[t][k].value.type
                                            /\ (path[t][k].value.type = "BITMAP" => q[k].value.children = path[t][k].value.children)
      BY <2>1
    <3>2. \A k \in 1..(Len(path[t]) - 1) : path[t][k].value.type \in {"BITMAP", "JUMP"}
      BY <2>1
    <3> QED BY <1>4, <1>25, <2>2, <3>1, <3>2, SameLockPositions
  <2>4. LockPositions(path[t]) \subseteq LockPositions(q)
    <3>1. \A k \in 1..(Len(q) - 1) : path[t][k].value.type = q[k].value.type
                                      /\ (q[k].value.type = "BITMAP" => path[t][k].value.children = q[k].value.children)
      BY <1>25, <2>1
    <3>2. \A k \in 1..(Len(q) - 1) : q[k].value.type \in {"BITMAP", "JUMP"}
      BY <1>25, <2>1
    <3>3. Len(q) > 0 /\ Len(path[t]) = Len(q) /\ \A k \in 1..Len(q) : path[t][k].name = q[k].name
      BY <1>4, <1>25
    <3>4. q[Len(q)].value.type = "BITMAP" => path[t][Len(q)].value.type = "BITMAP"
      BY <1>25, <2>2
    <3> QED BY <1>4, <1>25, <3>1, <3>2, <3>3, <3>4, SameLockPositions
  <2> QED BY <2>3, <2>4
<1>29. pred[t].name # pn /\ pred[t].name \in Names /\ Owns(nodes, t, pred[t]) /\ CopyIn(nodes, pred[t]) /\ pred[t].value.type = "LEAF"
  BY <1>1, <1>7, PredecessorApart DEF pn, pa
<1>30. HoldInv(t)'
  <2>1. ASSUME NEW k \in LockPositions(path'[t]) PROVE Owns(nodes', t, path'[t][k])
    <3>1. k \in LockPositions(path[t]) /\ k \in 1..Len(path[t])
      BY <1>4, <1>26, <1>28, LockPositionsPart
    <3>2. CASE k = j
      <4>1. nodes'[pn] = [value |-> nodes'[pn].value, seq |-> nodes'[pn].seq, lock |-> nodes'[pn].lock]
        BY <1>9, <1>18, NodeIs, Zenon
      <4> QED BY <1>12, <1>16, <1>18, <1>25, <1>26, <3>2, <4>1 DEF Owns
    <3>3. CASE k # j
      <4>1. path[t][k].name # pn /\ path[t][k].name \in Names
        BY <1>1, <1>4, <1>7, <3>1, <3>3, PathApart, AtPath DEF pn, pa
      <4>2. Owns(nodes, t, path[t][k]) /\ path'[t][k] = path[t][k]
        BY <1>1, <1>25, <1>26, <3>1, <3>3 DEF HoldInv
      <4> QED BY <1>18, <4>1, <4>2 DEF Owns
    <3> QED BY <3>2, <3>3
  <2>2. Owns(nodes', t, pred'[t])
    BY <1>18, <1>26, <1>29 DEF Owns
  <2>3. pred'[t].name # Last(path'[t]).name /\ pred'[t].name \notin Hidden(t)'
    BY <1>1, <1>17, <1>26 DEF HoldInv
  <2>4. level'[t] \in LockPositions(path'[t])
    BY <1>3, <1>7, <1>26, <1>28
  <2>5. pc'[t] # "root_check"
    BY <1>1, <1>26
  <2> QED BY <2>1, <2>2, <2>3, <2>4, <2>5 DEF HoldInv
<1>31. PredInv(t)'
  <2>1. CopyIn(nodes', pred[t])
    BY <1>1, <1>4, <1>19, <1>29, CopyKeeps
  <2> QED BY <1>1, <1>26, <1>29, <2>1 DEF PredInv
<1>32. EndInv(t)'
  BY <1>1, <1>26, <1>3 DEF EndInv, Putting, Locking
<1>33. CallInv(t)'
  <2>1. calls'[t] = calls[t] /\ iter'[t] = iter[t]
    BY <1>3
  <2> QED BY <1>1, <1>26, <2>1 DEF CallInv, RestPcs
<1>34. DomainInv' /\ \A u \in Threads : ThreadInv(u)'
  <2>1. Trie \subseteq Trie'
    BY <1>19
  <2> QED BY <1>2, <1>17, <1>19, <1>27, <1>30, <1>31, <1>32, <1>33, <2>1, AllKeep DEF ThreadInv
<1> QED BY <1>19, <1>20, <1>22, <1>34 DEF IInv, SharedInv

(* Cleaning the predecessor and releasing all locks keeps the invariant.   *)
LEMMA CleanKeeps ==
  ASSUME IInv, NEW t \in Threads, Clean(t)
  PROVE  IInv'
<1> DEFINE pn == pred[t].name
           clean == [pred[t].value EXCEPT !.dirty = FALSE]
           W == WriteNode(nodes, pn, clean)
<1>1. /\ SharedInv /\ DomainInv /\ ThreadInv(t) /\ CallInv(t) /\ EndInv(t) /\ HoldInv(t) /\ PredInv(t) /\ nodes \in NodeMaps
      /\ pc[t] = "propagate" /\ Locking(t) /\ WithPred(t)
  BY DEF IInv, SharedInv, ThreadInv, NodesOK, Clean, Locking, WithPred
<1>2. Frame(t)
  BY <1>1, FrameCreateLeaf DEF create_leaf
<1>3. /\ nodes' = release_all_locks(W, t)
      /\ call'[t] = NULL /\ pc'[t] = "idle" /\ path'[t] = <<>>
      /\ UNCHANGED <<is_empty, calls, iter, index, cursor>>
  BY <1>1 DEF Clean, DomainInv, update_entry, LocalsReset
<1>4. ~is_empty /\ Len(path[t]) \in LockPositions(path[t])
  BY <1>1, Owner, PathEnd, LockPositionsPart
<1>5. /\ pn \in Names /\ Owns(nodes, t, pred[t]) /\ CopyIn(nodes, pred[t]) /\ pred[t].value.type = "LEAF"
      /\ Fits(pn, pred[t].value)
  BY <1>1, <1>4, PredecessorApart DEF CopyIn
<1>6. nodes[pn].lock = t /\ nodes[pn].value = pred[t].value
  BY <1>5 DEF Owns
<1>7. /\ Fits(pn, clean) /\ clean.type = "LEAF" /\ clean.key = pred[t].value.key /\ clean.kv = pred[t].value.kv
      /\ clean \in NodeValues /\ clean # Unused
  <2> HIDE DEF pn
  <2>1. \A d \in BOOLEAN : LET w == [pred[t].value EXCEPT !.dirty = d]
              IN  /\ Fits(pn, w) /\ w.type = "LEAF" /\ w.key = pred[t].value.key /\ w.kv = pred[t].value.kv
                  /\ w.next_leaf = pred[t].value.next_leaf /\ w \in NodeValues /\ w # Unused
    BY <1>5, ChangedLeaf
  <2>2. FALSE \in BOOLEAN
    OBVIOUS
  <2> QED BY <2>1, <2>2
<1>8. Hidden(t) = {} /\ Hidden(t)' = {} /\ HiddenInv(t)' /\ HoldInv(t)' /\ PredInv(t)' /\ EndInv(t)' /\ ~Locking(t)'
  BY <1>1, <1>3, Nowhere, NowhereNext, NotWriting
<1> HIDE DEF pn, clean, W
<1>9. /\ W \in NodeMaps /\ W[pn].value = clean /\ W[pn].seq = nodes[pn].seq + 1 /\ W[pn].lock = nodes[pn].lock
      /\ \A m \in Names \ {pn} : W[m] = nodes[m]
  BY <1>1, <1>5, <1>7, WritesNode DEF W
<1>10. /\ nodes' \in NodeMaps
       /\ \A n \in Names : nodes'[n].value = W[n].value /\ nodes'[n].seq = W[n].seq
       /\ \A n \in Names : W[n].lock = t => nodes'[n].lock = NULL
       /\ \A n \in Names : W[n].lock # t => nodes'[n] = W[n]
  BY <1>3, <1>9, ReleasesLocks
<1>11. /\ nodes'[pn].value = clean /\ nodes'[pn].seq = nodes[pn].seq + 1 /\ nodes'[pn].lock = NULL
  BY <1>5, <1>6, <1>9, <1>10
<1>12. ASSUME NEW m \in Names \ {pn}
       PROVE  nodes'[m] = nodes[m] \/ (/\ nodes[m].lock = t /\ nodes'[m].lock = NULL
                                       /\ nodes'[m].value = nodes[m].value /\ nodes'[m].seq = nodes[m].seq)
  <2>1. W[m] = nodes[m]
    BY <1>9
  <2> QED BY <1>10, <2>1
<1>13. \A m \in Names : nodes'[m].lock # t
  <2>1. \A m \in Names : W[m].lock # t => nodes'[m].lock # t
    BY <1>10
  <2> QED BY <1>10, <2>1, NoThread
<1>14. Below(pn, nodes'[pn].value) = Below(pn, nodes[pn].value)
  BY <1>5, <1>6, <1>7, <1>11 DEF Below
<1>15. NodeFrame(t) /\ Trie' = Trie /\ NodesOK' /\ StructInv' /\ EmptyInv' /\ UnusedInv'
  <2>1. /\ nodes[pn].lock \in {t, NULL} /\ nodes'[pn].lock \in {t, NULL} /\ Fits(pn, nodes'[pn].value)
        /\ nodes[pn].value.type \in {"LEAF", "BITMAP", "JUMP"} /\ nodes'[pn].value.type = nodes[pn].value.type
        /\ is_empty' = is_empty /\ Hidden(t)' = Hidden(t) /\ nodes'[pn].seq = nodes[pn].seq + 1 /\ nodes' \in NodeMaps
    BY <1>3, <1>5, <1>6, <1>7, <1>8, <1>10, <1>11
  <2> QED BY <1>2, <1>4, <1>5, <1>12, <1>14, <2>1, KindKept
<1>16. IndexInv'
  <2>1. ASSUME NEW n \in Trie
        PROVE  /\ Below(n, nodes'[n].value) = Below(n, nodes[n].value)
               /\ nodes'[n].value.type = nodes[n].value.type
               /\ nodes[n].value.type = "LEAF" => /\ nodes'[n].value.key = nodes[n].value.key
                                                  /\ nodes'[n].value.kv = nodes[n].value.kv
    <3>1. CASE n = pn
      BY <1>5, <1>6, <1>7, <1>11, <1>14, <3>1
    <3>2. CASE n # pn
      <4>1. nodes'[n].value = nodes[n].value
        BY <1>12, <3>2, TrieNames
      <4> QED BY <4>1
    <3> QED BY <3>1, <3>2
  <2>2. index' = index
    BY <1>3
  <2>3. Trie' = Trie
    BY <1>15
  <2> QED BY <1>1, <2>1, <2>2, <2>3, SameShape
<1>17. ReleaseInv'
  BY <1>1, <1>2, <1>13, <1>15, LocksHeld
<1>18. CallInv(t)'
  <2>1. call'[t] = NULL /\ path'[t] = <<>> /\ calls'[t] = calls[t] /\ iter'[t] = iter[t]
    BY <1>3
  <2> QED BY <1>1, <1>3, <2>1 DEF CallInv, AllPcs, RestPcs
<1>19. PathInv(t)'
  BY <1>3 DEF PathInv, Guarded
<1>20. DomainInv' /\ \A u \in Threads : ThreadInv(u)'
  <2>1. Trie \subseteq Trie'
    BY <1>15
  <2> QED BY <1>2, <1>8, <1>15, <1>18, <1>19, <2>1, AllKeep DEF ThreadInv
<1> QED BY <1>15, <1>16, <1>17, <1>20 DEF IInv, SharedInv

(* A leaf that gets a value, written with no other node locked.            *)
LEMMA SetValueKeeps ==
  ASSUME IInv, NEW t \in Threads, SetValue(t)
  PROVE  IInv'
<1> DEFINE c == Last(path[t])
           pn == c.name
           v == [c.value EXCEPT !.kv = call[t].value]
<1>1. /\ SharedInv /\ DomainInv /\ ThreadInv(t) /\ CallInv(t) /\ nodes \in NodeMaps
      /\ pc[t] = "descend" /\ c.value.type = "LEAF" /\ call[t].op \in {"ct_update", "ct_upsert"} /\ HasKey(c, KeyOf(t))
      /\ NameBelow(c, KeyOf(t)) = NULL
  BY DEF IInv, SharedInv, ThreadInv, NodesOK, SetValue, At
<1>2. CASE ~CanLock(c)
  <2>1. Retry(t)
    BY <1>2 DEF SetValue
  <2> QED BY <1>1, <2>1, RetryKeeps
<1>3. CASE CanLock(c)
  <2>1. /\ nodes' = WriteNode(nodes, pn, v)
        /\ Effect(t, IF call[t].op = "ct_upsert" THEN FALSE ELSE "S_OK")
        /\ pc' = [pc EXCEPT ![t] = "return"]
        /\ UNCHANGED <<is_empty, calls, path, subtree, pred, new_leaf, level, iter, cursor>>
    BY <1>3 DEF SetValue, update_entry, locals
  <2> DEFINE r == IF call[t].op = "ct_upsert" THEN FALSE ELSE "S_OK"
  <2>2. call[t].op \notin IterCalls /\ pc[t] # "idle"
    BY <1>1 DEF IterCalls
  <2>3. /\ call[t].key \in Keys /\ call[t].value \in Values /\ KeyOf(t) = call[t].key /\ Guarded(t)
    BY <1>1, <2>2, Caller
  <2>4. pc[t] \notin RestPcs \cup {"return"}
    BY <1>1 DEF RestPcs
  <2>5. /\ PathOK(nodes, Trie, KeyOf(t), path[t]) /\ CopyIn(nodes, c) /\ pn \in Trie /\ pn \in TreeNames /\ pn \in Names
        /\ Fits(pn, c.value) /\ Above(pn, KeySymbols(KeyOf(t)))
    BY <1>1, <2>3, <2>4, PathEnd
  <2>6. nodes[pn].lock = NULL /\ nodes[pn].value = c.value /\ c.value.key = call[t].key
    BY <1>1, <1>3, <2>3, <2>5, Lockable DEF HasKey
  <2>7. ~is_empty
    BY <1>1, <2>4 DEF SharedInv, EmptyInv
  <2>8. /\ Fits(pn, v) /\ v.type = "LEAF" /\ v.key = c.value.key /\ v.kv = call[t].value
        /\ v \in NodeValues /\ v # Unused
    <3> HIDE DEF c, pn
    <3>1. c.value.type = "LEAF" /\ Fits(pn, c.value) /\ pn \in Names
      BY <1>1, <2>5
    <3>2. \A x \in Values : LET w == [c.value EXCEPT !.kv = x]
              IN  /\ Fits(pn, w) /\ w.type = "LEAF" /\ w.key = c.value.key /\ w.kv = x
                  /\ w \in NodeValues /\ w # Unused
      BY <3>1, ChangedLeaf
    <3> QED BY <2>3, <3>2
  <2> HIDE DEF v, pn, c, r
  <2>9. /\ nodes' \in NodeMaps /\ nodes'[pn].value = v /\ nodes'[pn].seq = nodes[pn].seq + 1 /\ nodes'[pn].lock = nodes[pn].lock
        /\ \A m \in Names \ {pn} : nodes'[m] = nodes[m]
    BY <1>1, <2>1, <2>5, <2>8, WritesNode
  <2>10. pc'[t] = "return" /\ path'[t] = path[t] /\ DOMAIN call' = Threads /\ DOMAIN pc' = Threads
    BY <1>1, <2>1 DEF DomainInv, Effect
  <2>11. Frame(t)
    BY <1>1, <2>1, FrameStep DEF Step
  <2>12. /\ call'[t].op = call[t].op /\ call'[t].key = call[t].key /\ call'[t].value = call[t].value
         /\ call'[t].ret = r /\ \E d \in AllCalls : call'[t] = Called(d, call'[t].ret)
    BY <1>1, <2>1, <2>2, EffectSets DEF r
  <2>13. Hidden(t) = {} /\ Hidden(t)' = {} /\ HiddenInv(t)' /\ HoldInv(t)' /\ PredInv(t)' /\ EndInv(t)' /\ ~Locking(t)'
    BY <1>1, <2>10, Nowhere, NowhereNext, NotWriting
  <2>14. Below(pn, nodes'[pn].value) = Below(pn, nodes[pn].value) /\ nodes'[pn].value.type = nodes[pn].value.type
         /\ nodes[pn].value.type = "LEAF"
    BY <1>1, <2>6, <2>8, <2>9 DEF Below
  <2>15. NodeFrame(t) /\ Trie' = Trie /\ NodesOK' /\ StructInv' /\ EmptyInv' /\ UnusedInv'
    <3>1. /\ nodes[pn].lock \in {t, NULL} /\ nodes'[pn].lock \in {t, NULL} /\ Fits(pn, nodes'[pn].value)
          /\ nodes[pn].value.type \in {"LEAF", "BITMAP", "JUMP"}
          /\ is_empty' = is_empty /\ Hidden(t)' = Hidden(t)
      BY <2>1, <2>6, <2>8, <2>9, <2>13, <2>14
    <3> QED BY <2>5, <2>7, <2>9, <2>11, <2>14, <3>1, KindKept
  <2>16. ASSUME NEW n \in Trie, nodes[n].value.type = "LEAF", nodes[n].value.key = call[t].key PROVE n = pn
    <3>1. \A b \in Below(pn, nodes[pn].value) : ~Above(b, KeySymbols(call[t].key))
      BY <2>14 DEF Below
    <3> QED BY <1>1, <2>3, <2>5, <2>16, <3>1, LeafIsAtEnd
  <2>17. IndexInv'
    <3>1. ASSUME NEW n \in Trie', nodes'[n].value.type = "LEAF"
          PROVE  \/ nodes'[n].value.key = call[t].key /\ nodes'[n].value.kv = call[t].value
                 \/ \E m \in Trie : /\ nodes[m].value.type = "LEAF" /\ nodes[m].value.key # call[t].key
                                    /\ nodes'[n].value.key = nodes[m].value.key /\ nodes'[n].value.kv = nodes[m].value.kv
      <4>1. CASE n = pn
        BY <2>6, <2>8, <2>9, <4>1
      <4>2. CASE n # pn
        <5>1. n \in Trie /\ n \in Names
          BY <2>15, <3>1, TrieNames
        <5>2. nodes'[n] = nodes[n]
          BY <2>9, <4>2, <5>1
        <5>3. nodes[n].value.key # call[t].key
          BY <2>16, <3>1, <4>2, <5>1, <5>2
        <5> QED BY <3>1, <5>1, <5>2, <5>3
      <4> QED BY <4>1, <4>2
    <3>2. pn \in Trie' /\ nodes'[pn].value.type = "LEAF" /\ nodes'[pn].value.key = call[t].key
      BY <2>5, <2>6, <2>8, <2>9, <2>15
    <3>3. ASSUME NEW m \in Trie, nodes[m].value.type = "LEAF", nodes[m].value.key # call[t].key
          PROVE  \E n \in Trie' : nodes'[n].value.type = "LEAF" /\ nodes'[n].value.key = nodes[m].value.key
      <4>1. m # pn /\ m \in Names /\ m \in Trie'
        BY <2>6, <2>15, <3>3, TrieNames
      <4>2. nodes'[m] = nodes[m]
        BY <2>9, <4>1
      <4> QED BY <3>3, <4>1, <4>2
    <3>4. Effect(t, r)
      BY <2>1 DEF r
    <3>5. \E n \in Trie' : nodes'[n].value.type = "LEAF" /\ nodes'[n].value.key = call[t].key
      BY <3>2
    <3> QED BY <1>1, <2>2, <2>3, <3>1, <3>3, <3>4, <3>5, PutsKey
  <2>18. ReleaseInv'
    <3>1. \A n \in Names : nodes[n].lock # t
      BY <1>1, Holder DEF Locking
    <3>2. \A n \in Names : nodes'[n].lock # t
      BY <2>9, <3>1
    <3> QED BY <1>1, <2>11, <2>15, <3>2, LocksHeld
  <2>19. CallInv(t)'
    <3>1. calls'[t] = calls[t] /\ iter'[t] = iter[t]
      BY <2>1
    <3>2. IsResult(r) /\ r # Pending
      BY PendingAssumption DEF IsResult, r
    <3> QED BY <1>1, <2>2, <2>10, <2>12, <3>1, <3>2 DEF CallInv, AllPcs, RestPcs, PutPcs, IterPcs
  <2>20. PathInv(t)'
    <3>1. PathOK(nodes', Trie', KeyOf(t), path[t])
      <4>1. Trie \subseteq Trie'
        BY <2>15
      <4> QED BY <1>1, <2>5, <2>15, <4>1, PathKeeps
    <3>2. KeyOf(t)' = KeyOf(t)
      BY <2>2, <2>12 DEF KeyOf
    <3> QED BY <2>10, <3>1, <3>2 DEF PathInv
  <2>21. DomainInv' /\ \A u \in Threads : ThreadInv(u)'
    <3>1. Trie \subseteq Trie'
      BY <2>15
    <3> QED BY <2>11, <2>13, <2>15, <2>19, <2>20, <3>1, AllKeep DEF ThreadInv
  <2> QED BY <2>15, <2>17, <2>18, <2>21 DEF IInv, SharedInv
<1> QED BY <1>2, <1>3

-----------------------------------------------------------------------------
(* The invariant. *)

(* Every step of a thread keeps the invariant, ...                         *)
LEMMA StepKeeps ==
  ASSUME IInv, NEW t \in Threads, Step(t)
  PROVE  IInv'
<1>1. CASE create_root(t)
  <2>1. CASE CreateRootLock(t)
    <3>1. CASE nodes[Root].lock = NULL
      BY <2>1, <3>1, RootLockKeeps
    <3>2. CASE nodes[Root].lock # NULL
      <4>1. nodes' = nodes
        BY <2>1, <3>2 DEF CreateRootLock
      <4> QED BY <2>1, <4>1, RootWaitKeeps
    <3> QED BY <3>1, <3>2
  <2>2. CASE CreateRootWait(t)
    BY <2>2, RootWaitKeeps
  <2>3. CASE CreateRootCheck(t)
    BY <2>3, RootWriteKeeps, RootExistsKeeps
  <2> QED BY <1>1, <2>1, <2>2, <2>3 DEF create_root
<1>2. CASE create_leaf(t)
  BY <1>2, SplitJumpKeeps, LockPathKeeps, LockPredecessorKeeps, WriteHeadKeeps, LinkLeavesKeeps, MarkKeeps,
     PropagateKeeps, CleanKeeps DEF create_leaf
<1>3. CASE Start(t) \/ init_finger(t) \/ descend(t) \/ Return(t)
  BY <1>3, StartKeeps, InitFingerKeeps, DescendKeeps, ReturnKeeps
<1>4. CASE get_predecessor_atomic(t) \/ SetValue(t) \/ Iterate(t)
  BY <1>4, PredecessorKeeps, SetValueKeeps, IterateKeeps
<1> QED BY <1>1, <1>2, <1>3, <1>4 DEF Step

(* ... and so does a step that changes nothing.                            *)
LEMMA StutterKeeps ==
  ASSUME IInv, UNCHANGED vars
  PROVE  IInv'
<1>1. UNCHANGED <<is_empty, nodes, calls, call, pc, path, subtree, pred, new_leaf, level, iter, index, cursor>>
  BY DEF vars
<1>2. \A u \in Threads : /\ Hidden(u)' = Hidden(u) /\ Putting(u)' = Putting(u) /\ NewNodes(u)' = NewNodes(u)
                          /\ KeyOf(u)' = KeyOf(u)
  BY <1>1, HiddenKeeps DEF Same
<1>3. Trie' = Trie
  BY <1>1, <1>2, TrieSame
<1>4. Used' = Used
  BY <1>1 DEF Used
<1>5. SharedInv'
  <2>1. SharedInv
    BY DEF IInv
  <2>2. NodesOK' /\ StructInv' /\ EmptyInv' /\ UnusedInv'
    BY <1>1, <1>3, <1>4, <2>1 DEF SharedInv, NodesOK, StructInv, EmptyInv, UnusedInv
  <2>3. IndexInv'
    BY <1>1, <1>3, <2>1 DEF SharedInv, IndexInv
  <2>4. ReleaseInv' /\ DomainInv'
    BY <1>1, <2>1 DEF SharedInv, ReleaseInv, Locking, DomainInv
  <2> QED BY <2>2, <2>3, <2>4 DEF SharedInv
<1>6. ASSUME NEW t \in Threads PROVE ThreadInv(t)'
  <2>1. ThreadInv(t) /\ KeyOf(t)' = KeyOf(t) /\ Hidden(t)' = Hidden(t) /\ (Putting(t)' <=> Putting(t)) /\ NewNodes(t)' = NewNodes(t)
    BY <1>2 DEF IInv
  <2>2. /\ Locking(t)' <=> Locking(t)
        /\ WithPred(t)' <=> WithPred(t)
    BY <1>1 DEF Locking, WithPred
  <2>3. Guarded(t)' <=> Guarded(t)
    BY <1>1, <2>1 DEF Guarded
  <2>4. CallInv(t)' /\ PathInv(t)'
    BY <1>1, <1>3, <2>1, <2>3 DEF ThreadInv, CallInv, PathInv
  <2>5. HoldInv(t)' /\ PredInv(t)'
    BY <1>1, <2>1, <2>2, <2>3 DEF ThreadInv, HoldInv, PredInv
  <2>6. EndInv(t)' /\ HiddenInv(t)'
    BY <1>1, <2>1, <2>2 DEF ThreadInv, EndInv, HiddenInv
  <2> QED BY <2>4, <2>5, <2>6 DEF ThreadInv
<1> QED BY <1>5, <1>6 DEF IInv

(* The invariant holds of an empty trie.                                   *)
LEMMA InitIInv ==
  ASSUME Init
  PROVE  IInv
<1>1. \A n \in Names : /\ nodes[n].value = (IF n = MinLeaf THEN Leaf(NULL, NULL, NULL) ELSE Unused)
                        /\ nodes[n].seq = 0 /\ nodes[n].lock = NULL
  BY DEF Init
<1>2. MinLeaf \in Names /\ \A n \in TreeNames : n \in Names /\ n # MinLeaf
  BY NamesAssumption DEF Names
<1>3. Leaf(NULL, NULL, NULL) \in LeafValues
  BY DEF Leaf, LeafValues
<1>4. nodes \in NodeMaps
  <2>1. \A n \in Names : (IF n = MinLeaf THEN Leaf(NULL, NULL, NULL) ELSE Unused) \in NodeValues
    BY <1>3 DEF NodeValues
  <2> QED BY <2>1 DEF Init, NodeMaps
<1>5. \A t \in Threads : /\ pc[t] = "idle" /\ call[t] = NULL /\ path[t] = <<>> /\ iter[t] = NoIter
  BY DEF Init
<1>6. \A t \in Threads : Hidden(t) = {} /\ ~Putting(t) /\ ~Locking(t) /\ ~WithPred(t) /\ ~Guarded(t)
  BY <1>5 DEF Hidden, Putting, Locking, WithPred, Guarded
<1>7. Used = {} /\ Trie = {}
  <2>1. Used = {}
    BY <1>1, <1>2 DEF Used
  <2> QED BY <2>1 DEF Trie
<1>8. NodesOK
  <2>1. \A n \in Names : Fits(n, nodes[n].value)
    BY <1>1, <1>3 DEF Fits
  <2> QED BY <1>4, <2>1 DEF NodesOK
<1>9. StructInv
  BY <1>7 DEF StructInv, Shaped
<1>10. DOMAIN index = {} /\ is_empty = TRUE
  BY DEF Init
<1>11. EmptyInv
  BY <1>1, <1>5, <1>7, <1>10 DEF EmptyInv, RestPcs
<1>12. UnusedInv /\ ReleaseInv
  <2>1. UnusedInv
    BY <1>1, <1>2 DEF UnusedInv
  <2>2. ReleaseInv
    BY <1>1, NoThread DEF ReleaseInv
  <2> QED BY <2>1, <2>2
<1>13. IndexInv
  <2>1. index = [k \in DOMAIN index |-> index[k]]
    BY DEF Init
  <2> QED BY <1>7, <1>10, <2>1 DEF IndexInv
<1>14. DomainInv
  <2>1. DOMAIN calls = Threads
    BY ProgramsAssumption DEF Init
  <2> QED BY <2>1 DEF Init, DomainInv
<1>15. ASSUME NEW t \in Threads PROVE ThreadInv(t)
  <2>1. calls[t] \in Seq(AllCalls)
    <3>1. calls \in Programs /\ calls[t] \in Seq(ToSet(calls[t]))
      BY ProgramsAssumption DEF Init
    <3>2. ToSet(calls[t]) \subseteq AllCalls
      BY <3>1 DEF AllCalls
    <3> HIDE DEF AllCalls
    <3> DEFINE s == calls[t]
               S == ToSet(calls[t])
    <3> HIDE DEF s, S
    <3>3. s \in Seq(S) /\ S \subseteq AllCalls
      BY <3>1, <3>2 DEF s, S
    <3>4. s \in Seq(AllCalls)
      BY <3>3
    <3> QED BY <3>4 DEF s
  <2>2. CallInv(t)
    <3>1. iter[t] = [leaf |-> iter[t].leaf, key |-> iter[t].key, is_exhausted |-> iter[t].is_exhausted,
                     report_current |-> iter[t].report_current]
      BY <1>5 DEF NoIter
    <3> QED BY <1>5, <2>1, <3>1 DEF CallInv, AllPcs, RestPcs
  <2>3. PathInv(t) /\ HoldInv(t) /\ PredInv(t) /\ EndInv(t)
    BY <1>5, <1>6 DEF PathInv, HoldInv, PredInv, EndInv
  <2>4. HiddenInv(t)
    BY <1>5, <1>6 DEF HiddenInv
  <2> QED BY <2>2, <2>3, <2>4 DEF ThreadInv
<1> QED BY <1>8, <1>9, <1>11, <1>12, <1>13, <1>14, <1>15 DEF IInv, SharedInv

(* Whatever the threads do, the trie stays one. Its nodes lie where their  *)
(* names say, every child of a node is there, every leaf holds a key of    *)
(* the index with its value and every key of the index has its leaf; no    *)
(* thread finds a node by chance, since new nodes are locked until a write *)
(* connects all of them at once; and each thread that inserts has locked   *)
(* the nodes it goes on to write, in the state it read them in.            *)
THEOREM StructureHolds == Spec => []IInv
<1>1. Init => IInv
  BY InitIInv
<1>2. IInv /\ [Next]_vars => IInv'
  BY StepKeeps, StutterKeeps DEF Next, Done
<1> QED BY <1>1, <1>2, PTL DEF Spec

-----------------------------------------------------------------------------
(* A search finds the index. *)

(* f maps every node to what the nodes after it end at.                    *)
Follows(P, next, f) == f = [n \in P |-> IF next[n] = NULL THEN n ELSE f[next[n]]]

(* A function defined by going from node to node until there is no next is *)
(* one: what the nodes reachable from n end at is the same for the node    *)
(* after n.                                                                *)
LEMMA SearchExists ==
  ASSUME NEW P, NEW next, \A n \in P : next[n] # NULL => next[n] \in P
  PROVE  \E f : Follows(P, next, f)
<1> DEFINE Closed(S) == \A n \in S : next[n] # NULL => next[n] \in S
           Reached(n) == {m \in P : \A S \in SUBSET P : n \in S /\ Closed(S) => m \in S}
           Ends(n) == {m \in Reached(n) : next[m] = NULL}
           f == [n \in P |-> CHOOSE m : m \in Ends(n)]
<1>1. ASSUME NEW n \in P, next[n] = NULL PROVE f[n] = n
  <2>1. {n} \in SUBSET P /\ n \in {n} /\ Closed({n})
    BY <1>1
  <2>2. \A m : m \in Ends(n) <=> m = n
    BY <1>1, <2>1
  <2>3. n \in Ends(n) /\ (CHOOSE m : m \in Ends(n)) \in Ends(n)
    BY <2>2
  <2> QED BY <2>2, <2>3
<1>2. ASSUME NEW n \in P, next[n] # NULL PROVE f[n] = f[next[n]]
  <2>1. next[n] \in P
    BY <1>2
  <2>2. ASSUME NEW m \in Ends(next[n]) PROVE m \in Ends(n)
    BY <1>2
  <2>3. ASSUME NEW m \in Ends(n) PROVE m \in Ends(next[n])
    <3>1. m # n /\ m \in P /\ next[m] = NULL
      BY <1>2, <2>3
    <3>2. ASSUME NEW S \in SUBSET P, next[n] \in S, Closed(S) PROVE m \in S
      <4>1. S \cup {n} \in SUBSET P /\ Closed(S \cup {n})
        BY <3>2
      <4>2. m \in S \cup {n}
        BY <2>3, <4>1
      <4> QED BY <3>1, <4>2
    <3> QED BY <3>1, <3>2
  <2>4. Ends(n) = Ends(next[n])
    BY <2>2, <2>3
  <2> QED BY <2>1, <2>4
<1>3. \A n \in P : f[n] = IF next[n] = NULL THEN n ELSE f[next[n]]
  BY <1>1, <1>2
<1>4. f = [n \in P |-> f[n]]
  OBVIOUS
<1> HIDE DEF f
<1>5. f = [n \in P |-> IF next[n] = NULL THEN n ELSE f[next[n]]]
  BY <1>3, <1>4
<1> QED BY <1>5 DEF Follows

(* Where a search stops in the trie as it is, the key is found just when   *)
(* it is in the index.                                                     *)
LEMMA StuckFinds ==
  ASSUME SharedInv, NEW n \in Trie, NEW k \in Keys, Above(n, KeySymbols(k)), NameBelow(Read(n), k) = NULL
  PROVE  /\ HasKey(Read(n), k) <=> k \in DOMAIN index
         /\ HasKey(Read(n), k) => nodes[n].value.kv = index[k]
<1>1. n \in TreeNames /\ n \in Names /\ NodesOK
  BY TrieNames DEF SharedInv
<1>2. k \in Seq(Nat \ {0})
  BY KeysAssumption
<1>3. Read(n).name = n /\ Read(n).value = nodes[n].value /\ Fits(n, nodes[n].value)
  BY <1>1 DEF Read, NodesOK
<1>4. \A b \in Below(n, nodes[n].value) : ~Above(b, KeySymbols(k))
  <2> DEFINE c == Read(n)
  <2>1. c.name = n /\ c.value = nodes[n].value /\ NameBelow(c, k) = NULL
    BY <1>3
  <2> HIDE DEF c
  <2>2. NameBelow(c, k) = NULL => \A b \in Below(c.name, c.value) : ~Above(b, KeySymbols(k))
    BY <1>1, <1>2, <1>3, <2>1, Descends
  <2> QED BY <2>1, <2>2
<1>5. ASSUME HasKey(Read(n), k) PROVE k \in DOMAIN index /\ nodes[n].value.kv = index[k]
  BY <1>3, <1>5 DEF HasKey, SharedInv, IndexInv
<1>6. ASSUME k \in DOMAIN index PROVE HasKey(Read(n), k)
  <2>1. PICK m \in Trie : nodes[m].value.type = "LEAF" /\ nodes[m].value.key = k
    BY <1>6 DEF SharedInv, IndexInv
  <2>2. m = n
    BY <1>4, <2>1, LeafIsAtEnd
  <2> QED BY <1>3, <2>1, <2>2 DEF HasKey
<1> QED BY <1>5, <1>6

(* The names a search for a key looks at are the prefixes of its symbols.  *)
LEMMA PrefixesPart ==
  ASSUME NEW k \in Keys
  PROVE  /\ \A n : n \in Prefixes(KeySymbols(k)) <=> n \in Seq(Nat) /\ Above(n, KeySymbols(k))
         /\ Prefixes(KeySymbols(k)) \subseteq TreeNames /\ Root \in Prefixes(KeySymbols(k))
<1>1. KeySymbols(k) \in Seq(Nat)
  BY KeysAreSequences
<1>2. ASSUME NEW n \in Prefixes(KeySymbols(k)) PROVE n \in Seq(Nat) /\ Above(n, KeySymbols(k))
  <2>1. PICK i \in 0..Len(KeySymbols(k)) : n = SubSeq(KeySymbols(k), 1, i)
    BY DEF Prefixes
  <2> QED BY <1>1, <2>1, AboveSubSeq
<1>3. ASSUME NEW n \in Seq(Nat), Above(n, KeySymbols(k)) PROVE n \in Prefixes(KeySymbols(k))
  <2>1. Len(n) \in 0..Len(KeySymbols(k))
    BY <1>1, <1>3 DEF Above
  <2>2. n = SubSeq(KeySymbols(k), 1, Len(n))
    BY <1>1, <1>3, <2>1, AboveSubSeq
  <2> QED BY <2>1, <2>2 DEF Prefixes
<1>4. Root \in Prefixes(KeySymbols(k))
  <2>1. Root \in Seq(Nat) /\ Above(Root, KeySymbols(k))
    BY RootName DEF Root
  <2> QED BY <1>3, <2>1
<1>5. Prefixes(KeySymbols(k)) \subseteq TreeNames
  BY DEF TreeNames
<1> QED BY <1>2, <1>3, <1>4, <1>5

(* What a search from the root ends at.                                    *)
LEMMA NodeOfEnds ==
  ASSUME SharedInv, NEW k \in Keys
  PROVE  LET n == NodeOf(k)
         IN  /\ is_empty => n = Root
             /\ ~is_empty => n \in Trie /\ Above(n, KeySymbols(k)) /\ NameBelow(Read(n), k) = NULL
<1> DEFINE P == Prefixes(KeySymbols(k))
           next == [n \in P |-> NameBelow(Read(n), k)]
           f == CHOOSE f : f = [n \in P |-> IF NameBelow(Read(n), k) = NULL THEN n ELSE f[NameBelow(Read(n), k)]]
<1>1. NodeOf(k) = f[Root]
  BY DEF NodeOf
<1>2. k \in Seq(Nat \ {0}) /\ NodesOK /\ StructInv /\ EmptyInv
  BY KeysAssumption DEF SharedInv
<1>3. ASSUME NEW n \in P
      PROVE  /\ n \in TreeNames /\ n \in Names /\ Fits(n, nodes[n].value)
             /\ next[n] = NameBelow(Read(n), k)
             /\ next[n] # NULL => next[n] \in P /\ next[n] \in Below(n, nodes[n].value) /\ Len(n) < Len(next[n])
  <2>1. n \in TreeNames /\ Above(n, KeySymbols(k)) /\ n \in Names
    BY PrefixesPart DEF Names
  <2>2. Fits(n, nodes[n].value) /\ Read(n).name = n /\ Read(n).value = nodes[n].value
    BY <1>2, <2>1 DEF NodesOK, Read
  <2>3. ASSUME next[n] # NULL
        PROVE  next[n] \in P /\ next[n] \in Below(n, nodes[n].value) /\ Len(n) < Len(next[n])
    <3> DEFINE c == Read(n)
               b == NameBelow(c, k)
    <3>1. b # NULL /\ c.name = n /\ c.value = nodes[n].value
      BY <2>2, <2>3
    <3> HIDE DEF c
    <3>2. b \in Below(c.name, c.value) /\ Above(b, KeySymbols(k))
      BY <1>2, <2>1, <2>2, <3>1, Descends
    <3> HIDE DEF b
    <3>3. b \in Below(n, nodes[n].value)
      BY <3>1, <3>2
    <3>4. b \in TreeNames /\ Len(n) < Len(b)
      BY <2>1, <2>2, <3>3, BelowLonger
    <3>5. b \in Seq(Nat)
      BY <3>4, NamesOfTree
    <3>6. b \in P
      BY <3>2, <3>5, PrefixesPart
    <3> QED BY <3>3, <3>4, <3>6 DEF b, c
  <2> QED BY <2>1, <2>2, <2>3
<1>4. f = [n \in P |-> IF NameBelow(Read(n), k) = NULL THEN n ELSE f[NameBelow(Read(n), k)]]
  <2>1. \A n \in P : next[n] # NULL => next[n] \in P
    BY <1>3
  <2>2. \E g : Follows(P, next, g)
    <3> HIDE DEF P, next
    <3> QED BY <2>1, SearchExists
  <2>3. PICK g : g = [n \in P |-> IF next[n] = NULL THEN n ELSE g[next[n]]]
    BY <2>2 DEF Follows
  <2>4. g = [n \in P |-> IF NameBelow(Read(n), k) = NULL THEN n ELSE g[NameBelow(Read(n), k)]]
    BY <2>3
  <2> QED BY <2>4
<1> HIDE DEF f
<1>5. \A n \in P : f[n] = IF next[n] = NULL THEN n ELSE f[next[n]]
  BY <1>4
<1>6. Root \in P /\ \A n \in P : Above(n, KeySymbols(k)) /\ n \in Seq(Nat) /\ Len(n) \in Nat /\ Len(n) <= Len(KeySymbols(k))
  BY PrefixesPart DEF Above
<1>7. Len(KeySymbols(k)) \in Nat
  BY KeysAreSequences
<1> HIDE DEF P, next
<1>8. \A n \in Trie : \A b \in Below(n, nodes[n].value) : b \in Trie
  BY <1>2, TrieNames DEF StructInv, Shaped, ChildrenIn
<1>9. ASSUME is_empty PROVE f[Root] = Root
  <2>1. nodes[Root].value = Unused
    BY <1>2, <1>3, <1>6, <1>9 DEF EmptyInv, Used
  <2>2. Below(Root, nodes[Root].value) = {}
    BY <2>1 DEF Below, Unused
  <2>3. next[Root] = NULL
    BY <1>3, <1>6, <2>2
  <2> QED BY <1>5, <1>6, <2>3
<1>10. ASSUME ~is_empty PROVE f[Root] \in Trie /\ f[Root] \in P /\ next[f[Root]] = NULL
  <2> DEFINE Good(n) == f[n] \in Trie /\ f[n] \in P /\ next[f[n]] = NULL
             left(n) == Len(KeySymbols(k)) - Len(n)
             B == {d \in Nat : \E n \in P \cap Trie : ~Good(n) /\ d = left(n)}
  <2>1. SUFFICES ASSUME ~Good(Root) PROVE FALSE
    OBVIOUS
  <2>2. \A n \in P : left(n) \in Nat
    BY <1>6, <1>7
  <2>3. Root \in Trie
    BY <1>2, <1>10 DEF EmptyInv
  <2>4. B \in SUBSET Nat /\ left(Root) \in B
    BY <1>6, <2>1, <2>2, <2>3
  <2>5. PICK d \in B : \A x \in B : d <= x
    <3> HIDE DEF B
    <3> QED BY <2>4, SmallestNumber
  <2>6. PICK n \in P \cap Trie : ~Good(n) /\ d = left(n)
    BY <2>5
  <2>7. next[n] # NULL
    BY <1>5, <2>6
  <2>8. next[n] \in P /\ next[n] \in Trie /\ Len(n) < Len(next[n])
    BY <1>3, <1>8, <2>6, <2>7
  <2>9. f[n] = f[next[n]]
    BY <1>5, <2>6, <2>7
  <2>10. ~Good(next[n])
    BY <2>6, <2>9
  <2>11. left(next[n]) \in B
    BY <2>2, <2>8, <2>10
  <2>12. left(next[n]) < left(n)
    BY <1>6, <1>7, <2>6, <2>8
  <2>13. d \in Nat /\ left(next[n]) \in Nat
    BY <2>2, <2>5, <2>8
  <2> HIDE DEF left, B, Good
  <2>14. d <= left(next[n]) /\ d = left(n)
    BY <2>5, <2>6, <2>11
  <2> DEFINE x == left(next[n])
  <2>15. d <= x /\ x < d
    BY <2>12, <2>14
  <2>16. x \in Nat
    BY <2>13
  <2> HIDE DEF x
  <2> QED BY <2>13, <2>15, <2>16
<1> QED BY <1>1, <1>3, <1>6, <1>9, <1>10

(* Structure holds, and so a search finds what is in the index.            *)
LEMMA SharedSearch ==
  ASSUME SharedInv
  PROVE  SearchFindsIndex
<1>1. IndexInv /\ EmptyInv
  BY DEF SharedInv
<1>2. CASE is_empty
  <2>1. \A k \in Keys : ~HasKey(Read(NodeOf(k)), k)
    <3>1. SUFFICES ASSUME NEW k \in Keys PROVE ~HasKey(Read(NodeOf(k)), k)
      OBVIOUS
    <3>2. NodeOf(k) = Root
      BY <1>2, NodeOfEnds
    <3>3. nodes[Root].value = Unused
      BY <1>1, <1>2, <3>1, RootName DEF EmptyInv, Used
    <3> QED BY <3>2, <3>3 DEF HasKey, Read, Unused
  <2>2. DOMAIN index = {} /\ index = [k \in DOMAIN index |-> index[k]]
    BY <1>1, <1>2 DEF EmptyInv, IndexInv
  <2> QED BY <2>1, <2>2 DEF SearchFindsIndex, Contents
<1>3. CASE ~is_empty
  <2>1. ASSUME NEW k \in Keys
        PROVE  /\ HasKey(Read(NodeOf(k)), k) <=> k \in DOMAIN index
               /\ HasKey(Read(NodeOf(k)), k) => nodes[NodeOf(k)].value.kv = index[k]
    <3>1. NodeOf(k) \in Trie /\ Above(NodeOf(k), KeySymbols(k)) /\ NameBelow(Read(NodeOf(k)), k) = NULL
      BY <1>3, NodeOfEnds
    <3> QED BY <3>1, StuckFinds
  <2>2. DOMAIN index \subseteq Keys /\ index = [k \in DOMAIN index |-> index[k]]
    BY <1>1 DEF IndexInv
  <2> DEFINE found == {k \in Keys : HasKey(Read(NodeOf(k)), k)}
  <2>3. found = DOMAIN index
    BY <2>1, <2>2
  <2>4. \A k \in found : nodes[NodeOf(k)].value.kv = index[k]
    BY <2>1
  <2>5. Contents = [k \in found |-> nodes[NodeOf(k)].value.kv]
    BY DEF Contents
  <2> HIDE DEF found
  <2>6. Contents = index
    BY <2>2, <2>3, <2>4, <2>5
  <2> QED BY <2>6 DEF SearchFindsIndex
<1> QED BY <1>2, <1>3

(* A search without locks finds the keys of the index: at every moment,    *)
(* also between two writes of an insert, a search from the root would find *)
(* the leaf of each key in the index with its value, and no leaf of        *)
(* another key.                                                            *)
THEOREM SearchHolds == Spec => []SearchFindsIndex
<1>1. IInv => SearchFindsIndex
  BY SharedSearch DEF IInv
<1> QED BY <1>1, StructureHolds, PTL

-----------------------------------------------------------------------------
(* Every step takes the effect of its call, or none. *)

(* A step of the index that the trie implements, or one that leaves the    *)
(* index and the calls alone.                                              *)
IndexStep == [Index!Next]_(Index!vars)

(* The step belongs to a call that moves an iterator.                      *)
IteratorStep(t) ==
  IF pc[t] = "idle" THEN Head(calls[t]).op \in IterCalls ELSE call[t].op \in IterCalls

(* There is a call, or none, for every thread.                             *)
CallsOK == call = [u \in Threads |-> call[u]]

(* A step that leaves the index, the calls and the cursors alone takes no  *)
(* effect.                                                                 *)
LEMMA NoIndexStep ==
  ASSUME UNCHANGED <<index, call, cursor>>
  PROVE  IndexStep
BY DEF IndexStep, Index!vars

(* A step with the effect of a call is a step of the index.                *)
LEMMA EffectStep ==
  ASSUME NEW t \in Threads, Index!Effect(t)
  PROVE  IndexStep
BY DEF IndexStep, Index!Next

(* A thread in a call that is no iterator call.                            *)
LEMMA InCall ==
  ASSUME NEW t \in Threads, CallInv(t), pc[t] # "idle", call[t].op \notin IterCalls
  PROVE  /\ call[t] # NULL /\ KeyOf(t) = call[t].key /\ call[t].key \in Keys
         /\ call[t].op \in PutCalls \cup {"ct_update", "ct_lookup"}
<1>1. \E c \in AllCalls : call[t] = Called(c, call[t].ret)
  BY DEF CallInv
<1>2. IsResult(call[t].ret)
  BY DEF CallInv
<1>3. call[t] # NULL
  BY <1>1, <1>2, CalledAssumption DEF IsResult
<1>4. /\ call[t].op \in PutCalls \cup IterCalls \cup {"ct_update", "ct_lookup"}
      /\ call[t].op \notin IterCalls => call[t].key \in Keys /\ KeyOf(t) = call[t].key
  BY Caller
<1> QED BY <1>3, <1>4

(* A call without a result that stays without one is unchanged.            *)
LEMMA PendingStays ==
  ASSUME CallsOK, NEW t \in Threads, call[t].ret = Pending, CallInv(t), pc[t] # "idle", call' = [call EXCEPT ![t].ret = Pending]
  PROVE  call' = call
<1>1. call[t] = [op |-> call[t].op, key |-> call[t].key, value |-> call[t].value, ret |-> call[t].ret]
  BY Caller
<1>2. [call[t] EXCEPT !.ret = Pending] = call[t]
  BY <1>1
<1>3. call' = [u \in Threads |-> IF u = t THEN [call[t] EXCEPT !.ret = Pending] ELSE call[u]]
  BY DEF CallsOK
<1>4. call' = [u \in Threads |-> call[u]]
  BY <1>2, <1>3
<1> QED BY <1>4 DEF CallsOK

(* A search that ends gives the answer of the index at that moment.        *)
LEMMA VisitStep ==
  ASSUME IInv, CallsOK, NEW t \in Threads, pc[t] \in {"start", "descend"}, call[t].op \notin IterCalls,
         NEW n \in Trie, Above(n, KeySymbols(KeyOf(t))), Visit(t, Read(n)), UNCHANGED <<index, cursor>>
  PROVE  IndexStep
<1> DEFINE c == Read(n)
           k == call[t].key
           r == ReadResult(t, c)
<1>1. SharedInv /\ ThreadInv(t) /\ CallInv(t) /\ pc[t] # "idle" /\ call[t].ret = Pending
  BY DEF IInv, ThreadInv, CallInv
<1>2. call[t] # NULL /\ KeyOf(t) = k /\ k \in Keys /\ call[t].op \in PutCalls \cup {"ct_update", "ct_lookup"}
  BY <1>1, InCall
<1>3. call' = [call EXCEPT ![t].ret = r]
  BY DEF Visit
<1>4. CASE NameBelow(c, k) # NULL
  <2>1. r = Pending
    BY <1>2, <1>4 DEF ReadResult
  <2> HIDE DEF r
  <2>2. call' = call
    BY <1>1, <1>3, <2>1, PendingStays
  <2> QED BY <2>2, NoIndexStep
<1>5. CASE NameBelow(c, k) = NULL
  <2>1. /\ HasKey(c, k) <=> k \in DOMAIN index
        /\ HasKey(c, k) => c.value.kv = index[k]
    <3>1. /\ HasKey(c, k) <=> k \in DOMAIN index
          /\ HasKey(c, k) => nodes[n].value.kv = index[k]
      BY <1>1, <1>2, <1>5, StuckFinds
    <3> QED BY <3>1 DEF Read
  <2> HIDE DEF c
  <2>2. CASE call[t].op = "ct_lookup"
    <3>1. r = IF k \in DOMAIN index THEN index[k] ELSE NULL
      BY <1>2, <1>5, <2>1, <2>2 DEF ReadResult
    <3> HIDE DEF r
    <3>2. Index!Lookup(t)
      BY <1>3, <2>2, <3>1 DEF Index!Lookup, Index!Returns
    <3> QED BY <1>1, <1>2, <3>2, EffectStep DEF Index!Effect
  <2>3. CASE call[t].op = "ct_update" /\ ~HasKey(c, k)
    <3>1. r = "S_NOTFOUND"
      BY <1>2, <1>5, <2>1, <2>3 DEF ReadResult
    <3> HIDE DEF r
    <3>2. Index!Update(t)
      BY <1>3, <2>1, <2>3, <3>1 DEF Index!Update, Index!Returns
    <3> QED BY <1>1, <1>2, <3>2, EffectStep DEF Index!Effect
  <2>4. CASE call[t].op = "ct_insert" /\ HasKey(c, k)
    <3>1. r = "S_ALREADYIN"
      BY <1>2, <1>5, <2>1, <2>4 DEF ReadResult
    <3> HIDE DEF r
    <3>2. Index!Insert(t)
      BY <1>3, <2>1, <2>4, <3>1 DEF Index!Insert, Index!Returns
    <3> QED BY <1>1, <1>2, <3>2, EffectStep DEF Index!Effect
  <2>5. CASE \/ call[t].op = "ct_update" /\ HasKey(c, k)
             \/ call[t].op = "ct_insert" /\ ~HasKey(c, k)
             \/ call[t].op = "ct_upsert"
    <3>1. r = Pending
      BY <1>2, <1>5, <2>5 DEF ReadResult
    <3> HIDE DEF r
    <3>2. call' = call
      BY <1>1, <1>3, <3>1, PendingStays
    <3> QED BY <3>2, NoIndexStep
  <2> QED BY <1>2, <2>2, <2>3, <2>4, <2>5 DEF PutCalls
<1> QED BY <1>4, <1>5

(* A write that puts a new key takes effect.                               *)
LEMMA PutStep ==
  ASSUME IInv, NEW t \in Threads, pc[t] # "idle", call[t].ret = Pending, call[t].op \in PutCalls, call[t].key \notin DOMAIN index,
         Effect(t, PutResult(t)), cursor' = cursor
  PROVE  IndexStep
<1>1. CallInv(t) /\ call[t].op \notin IterCalls
  BY DEF IInv, ThreadInv, PutCalls, IterCalls
<1>2. call[t] # NULL
  BY <1>1, InCall
<1>3. CASE call[t].op = "ct_insert"
  <2>1. Index!Insert(t)
    BY <1>3 DEF Index!Insert, Index!Returns, Index!Put, Effect, PutResult
  <2> QED BY <1>2, <2>1, EffectStep DEF Index!Effect
<1>4. CASE call[t].op = "ct_upsert"
  <2>1. PutResult(t) = (call[t].key \notin DOMAIN index)
    BY <1>4 DEF PutResult
  <2>2. call' = [call EXCEPT ![t].ret = (call[t].key \notin DOMAIN index)]
    BY <2>1 DEF Effect
  <2>3. Index!Upsert(t)
    BY <1>4, <2>2 DEF Index!Upsert, Index!Returns, Index!Put, Effect
  <2> QED BY <1>2, <2>3, EffectStep DEF Index!Effect
<1> QED BY <1>3, <1>4 DEF PutCalls

(* The return of a call is a step of the index.                            *)
LEMMA RespondStep ==
  ASSUME NEW t \in Threads, call[t] # NULL, call[t].ret # Pending, call' = [call EXCEPT ![t] = NULL], UNCHANGED <<index, cursor>>
  PROVE  IndexStep
BY DEF IndexStep, Index!Next, Index!Respond

(* The key of a writer that has locked its path is not in the index.       *)
LEMMA NewKey ==
  ASSUME IInv, NEW t \in Threads, pc[t] \in {"head", "mark"}
  PROVE  call[t].key \notin DOMAIN index /\ call[t].op \in PutCalls /\ call[t].ret = Pending /\ pc[t] # "idle"
<1> DEFINE c == Last(path[t])
           k == call[t].key
           n == c.name
<1>1. SharedInv /\ ThreadInv(t) /\ CallInv(t) /\ EndInv(t) /\ Locking(t) /\ call[t].ret = Pending
  BY DEF IInv, ThreadInv, CallInv, Locking
<1>2. KeyOf(t) = k /\ k \in Keys /\ call[t].op \in PutCalls
  BY <1>1, Writer
<1>3. n \in Trie /\ Above(n, KeySymbols(k)) /\ nodes[n].value = c.value
  BY <1>1, <1>2, Owner, PathEnd
<1>4. NameBelow(c, k) = NULL /\ (c.value.type = "LEAF" => c.value.key # k)
  BY <1>1 DEF EndInv
<1>5. NameBelow(Read(n), k) = NULL /\ ~HasKey(Read(n), k)
  BY <1>3, <1>4 DEF Read, NameBelow, HasKey, depth_in_jump
<1> HIDE DEF n, k, c
<1>6. k \notin DOMAIN index
  BY <1>1, <1>2, <1>3, <1>5, StuckFinds
<1> QED BY <1>1, <1>2, <1>6 DEF k

(* What a step of a thread does to the calls.                              *)
CallChange(t) ==
  \/ calls' = calls /\ call' = call
  \/ calls' = calls /\ \E r : call' = [call EXCEPT ![t].ret = r]
  \/ (Start(t) \/ Return(t) \/ Clean(t)) /\ \E r : call' = [call EXCEPT ![t] = r]

(* A retry, ...                                                            *)
LEMMA RetryChange ==
  ASSUME NEW t, Retry(t) PROVE calls' = calls /\ call' = call /\ index' = index /\ cursor' = cursor
BY DEF Retry

(* ... a predecessor that was found, ...                                   *)
LEMMA GotChange ==
  ASSUME NEW t, NEW c, GotPredecessor(t, c) PROVE CallChange(t)
BY DEF GotPredecessor, Positioned, CallChange

(* ... and so every step changes calls in one of these ways.               *)
LEMMA StepChange ==
  ASSUME NEW t \in Threads, Step(t) PROVE CallChange(t)
<1>1. CASE Start(t)
  <2>1. call' = [call EXCEPT ![t] = Called(Head(calls[t]), Pending)]
    BY <1>1 DEF Start
  <2> QED BY <1>1, <2>1 DEF CallChange
<1>2. CASE init_finger(t) \/ descend(t)
  <2>1. calls' = calls /\ (EmptyTrie(t) \/ \E c : Visit(t, c))
    BY <1>2 DEF init_finger, descend
  <2> QED BY <2>1 DEF EmptyTrie, Visit, CallChange
<1>3. CASE create_root(t)
  BY <1>3 DEF create_root, CreateRootLock, CreateRootWait, CreateRootCheck, CreateRootWrite, CreateRootExists, Effect, CallChange
<1>4. CASE get_predecessor_atomic(t)
  <2>1. \/ Retry(t)
        \/ \E c : GotPredecessor(t, c)
        \/ calls' = calls /\ call' = call
    BY <1>4 DEF get_predecessor_atomic, PredecessorMinLeaf, PredecessorLeaf, PredecessorSubtree, PredecessorMaxLeaf
  <2> QED BY <2>1, RetryChange, GotChange DEF CallChange
<1>5. CASE create_leaf(t)
  <2>1. CASE split_jump_node(t) \/ LockPath(t) \/ LockPredecessor(t)
    BY <2>1, RetryChange DEF split_jump_node, LockPath, LockPredecessor, CallChange
  <2>2. CASE WriteHead(t) \/ mark_bitmap_child(t)
    BY <2>2 DEF WriteHead, mark_bitmap_child, WritePathEnd, Effect, CallChange
  <2>3. CASE LinkLeaves(t) \/ propagate_max_leaf(t) \/ Clean(t)
    BY <2>3 DEF LinkLeaves, propagate_max_leaf, Clean, CallChange
  <2> QED BY <1>5, <2>1, <2>2, <2>3 DEF create_leaf
<1>6. CASE SetValue(t)
  BY <1>6, RetryChange DEF SetValue, Effect, CallChange
<1>7. CASE Iterate(t)
  <2>1. CASE IterGotoFirst(t)
    BY <2>1 DEF IterGotoFirst, Positioned, CallChange
  <2>2. CASE IterGotoNoBitmap(t)
    BY <2>2, RetryChange DEF IterGotoNoBitmap, Positioned, CallChange
  <2>3. CASE IterGotoAdvance(t)
    BY <2>3, RetryChange DEF IterGotoAdvance, CallChange
  <2>4. CASE IterNextCurrent(t)
    BY <2>4 DEF IterNextCurrent, Reports, CallChange
  <2>5. CASE IterNextRead(t) \/ IterNextResynced(t)
    BY <2>5 DEF IterNextRead, IterNextResynced, Reports, CallChange
  <2> QED BY <1>7, <2>1, <2>2, <2>3, <2>4, <2>5 DEF Iterate
<1>8. CASE Return(t)
  BY <1>8 DEF Return, CallChange
<1> QED BY <1>1, <1>2, <1>3, <1>4, <1>5, <1>6, <1>7, <1>8 DEF Step

(* Every step leaves a call, or none, to each thread, ...                  *)
LEMMA CallsOKKept ==
  ASSUME CallsOK, [Next]_vars
  PROVE  CallsOK'
<1>1. CASE call' = call
  BY <1>1 DEF CallsOK
<1>2. CASE call' # call
  <2>1. PICK t \in Threads : Step(t)
    BY <1>2 DEF Next, Done, vars
  <2>2. CallChange(t)
    BY <2>1, StepChange
  <2>3. \E r : call' = [call EXCEPT ![t] = r]
    BY <1>2, <2>2 DEF CallChange
  <2>4. PICK r : call' = [call EXCEPT ![t] = r]
    BY <2>3
  <2> QED BY <2>4 DEF CallsOK
<1> QED BY <1>1, <1>2

(* ... and so there is one in every state: a thread executes one call at a *)
(* time.                                                                   *)
THEOREM CallsKept == Spec => []CallsOK
<1>1. Init => CallsOK
  BY DEF Init, CallsOK
<1>2. CallsOK /\ [Next]_vars => CallsOK'
  BY CallsOKKept
<1> QED BY <1>1, <1>2, PTL DEF Spec

(* Every step of a thread that is not in an iterator call is a step of the *)
(* index or changes nothing the index is about.                            *)
LEMMA RootSteps ==
  ASSUME IInv, NEW t \in Threads, create_root(t)
  PROVE  IndexStep
<1>1. CASE CreateRootLock(t) \/ CreateRootWait(t)
  BY <1>1, NoIndexStep DEF CreateRootLock, CreateRootWait
<1>2. CASE CreateRootCheck(t) /\ ~is_empty
  BY <1>2, NoIndexStep DEF CreateRootCheck, CreateRootExists
<1>3. CASE CreateRootCheck(t) /\ is_empty
  <2>1. pc[t] = "root_check" /\ Effect(t, PutResult(t)) /\ cursor' = cursor
    BY <1>3 DEF CreateRootCheck, CreateRootWrite
  <2>2. CallInv(t) /\ EmptyInv
    BY DEF IInv, ThreadInv, SharedInv
  <2>3. pc[t] # "idle" /\ call[t].ret = Pending /\ call[t].op \in PutCalls
    BY <2>1, <2>2 DEF CallInv, PutPcs
  <2>4. call[t].key \notin DOMAIN index
    BY <1>3, <2>2 DEF EmptyInv
  <2> QED BY <2>1, <2>3, <2>4, PutStep
<1> QED BY <1>1, <1>2, <1>3 DEF create_root

(* Every step of an insert takes effect as one of the index or takes none; *)
(* split_leaf, split_jump_node and add_child take theirs at the single     *)
(* write that connects the new leaf.                                       *)
LEMMA LeafSteps ==
  ASSUME IInv, NEW t \in Threads, create_leaf(t)
  PROVE  IndexStep
<1>1. CASE split_jump_node(t) \/ LockPath(t) \/ LockPredecessor(t)
  <2>1. UNCHANGED <<index, call, cursor>>
    BY <1>1, RetryChange DEF split_jump_node, LockPath, LockPredecessor
  <2> QED BY <2>1, NoIndexStep
<1>2. CASE WriteHead(t) \/ mark_bitmap_child(t)
  <2>1. pc[t] \in {"head", "mark"} /\ Effect(t, PutResult(t)) /\ cursor' = cursor
    BY <1>2 DEF WriteHead, mark_bitmap_child, WritePathEnd
  <2> QED BY <2>1, NewKey, PutStep
<1>3. CASE LinkLeaves(t) \/ propagate_max_leaf(t)
  <2>1. UNCHANGED <<index, call, cursor>>
    BY <1>3 DEF LinkLeaves, propagate_max_leaf
  <2> QED BY <2>1, NoIndexStep
<1>4. CASE Clean(t)
  <2>1. pc[t] = "propagate" /\ call' = [call EXCEPT ![t] = NULL] /\ index' = index /\ cursor' = cursor
    BY <1>4 DEF Clean
  <2>2. CallInv(t) /\ Locking(t)
    BY <2>1 DEF IInv, ThreadInv, Locking
  <2>3. call[t].op \notin IterCalls /\ pc[t] # "idle"
    BY <2>2, Writer
  <2>4. call[t] # NULL /\ call[t].ret # Pending
    BY <2>1, <2>2, <2>3, InCall DEF CallInv
  <2> QED BY <2>1, <2>4, RespondStep
<1> QED BY <1>1, <1>2, <1>3, <1>4 DEF create_leaf

(* The write of a value to a leaf takes effect as the call in the index.   *)
LEMMA SetValueSteps ==
  ASSUME IInv, NEW t \in Threads, SetValue(t)
  PROVE  IndexStep
<1> DEFINE c == Last(path[t])
           k == call[t].key
           n == c.name
<1>1. /\ SharedInv /\ ThreadInv(t) /\ CallInv(t) /\ pc[t] = "descend" /\ call[t].op \in {"ct_update", "ct_upsert"}
      /\ HasKey(c, KeyOf(t))
  BY DEF IInv, ThreadInv, SetValue, At
<1>2. call[t].op \notin IterCalls /\ pc[t] # "idle" /\ pc[t] \notin RestPcs \cup {"return"} /\ call[t].ret = Pending
  BY <1>1 DEF IterCalls, RestPcs, CallInv
<1>3. KeyOf(t) = k /\ k \in Keys /\ call[t] # NULL /\ Guarded(t)
  BY <1>1, <1>2, InCall, Caller
<1>4. n \in Trie /\ CopyIn(nodes, c)
  BY <1>1, <1>2, <1>3, PathEnd
<1>5. CASE ~CanLock(c)
  <2>1. Retry(t)
    BY <1>5 DEF SetValue
  <2> QED BY <2>1, RetryChange, NoIndexStep
<1>6. CASE CanLock(c)
  <2>1. nodes[n].value = c.value
    BY <1>4, <1>6, Lockable
  <2>2. k \in DOMAIN index
    BY <1>1, <1>3, <1>4, <2>1 DEF SharedInv, IndexInv, HasKey
  <2>3. Effect(t, IF call[t].op = "ct_upsert" THEN FALSE ELSE "S_OK") /\ cursor' = cursor
    BY <1>6 DEF SetValue
  <2>4. CASE call[t].op = "ct_update"
    <3>1. Index!Update(t)
      BY <2>2, <2>3, <2>4 DEF Index!Update, Index!Returns, Index!Put, Effect
    <3> QED BY <1>2, <1>3, <3>1, EffectStep DEF Index!Effect
  <2>5. CASE call[t].op = "ct_upsert"
    <3>1. (call[t].key \notin DOMAIN index) = FALSE
      BY <2>2
    <3>2. call' = [call EXCEPT ![t].ret = (call[t].key \notin DOMAIN index)]
      BY <2>3, <2>5, <3>1 DEF Effect
    <3>3. Index!Upsert(t)
      BY <2>3, <2>5, <3>2 DEF Index!Upsert, Index!Returns, Index!Put, Effect
    <3> QED BY <1>2, <1>3, <3>3, EffectStep DEF Index!Effect
  <2> QED BY <1>1, <2>4, <2>5
<1> QED BY <1>5, <1>6

(* Finding a node takes effect as a lookup exactly when the search ends    *)
(* there.                                                                  *)
LEMMA FingerSteps ==
  ASSUME IInv, CallsOK, NEW t \in Threads, init_finger(t) \/ descend(t), call[t].op \notin IterCalls
  PROVE  IndexStep
<1>1. SharedInv /\ ThreadInv(t) /\ CallInv(t) /\ pc[t] \in {"start", "descend"} /\ UNCHANGED <<index, cursor>>
  BY DEF IInv, ThreadInv, init_finger, descend
<1>2. pc[t] # "idle" /\ call[t].ret = Pending
  BY <1>1 DEF CallInv
<1>3. call[t] # NULL /\ KeyOf(t) = call[t].key /\ call[t].key \in Keys /\ call[t].op \in PutCalls \cup {"ct_update", "ct_lookup"}
  BY <1>1, <1>2, InCall
<1>4. CASE init_finger(t) /\ is_empty
  <2>1. call' = [call EXCEPT ![t].ret = CASE call[t].op \in PutCalls -> Pending
                                       [] call[t].op = "ct_update" -> "S_NOTFOUND"
                                       [] OTHER -> NULL]
    BY <1>4 DEF init_finger, EmptyTrie
  <2>2. DOMAIN index = {}
    BY <1>1, <1>4 DEF SharedInv, EmptyInv
  <2>3. CASE call[t].op \in PutCalls
    <3>1. call' = [call EXCEPT ![t].ret = Pending]
      BY <2>1, <2>3 DEF PutCalls
    <3>2. call' = call
      BY <1>1, <1>2, <3>1, PendingStays
    <3> QED BY <1>1, <3>2, NoIndexStep
  <2>4. CASE call[t].op = "ct_update"
    <3>1. call' = [call EXCEPT ![t].ret = "S_NOTFOUND"]
      BY <2>1, <2>4 DEF PutCalls
    <3>2. Index!Update(t)
      BY <1>1, <2>2, <2>4, <3>1 DEF Index!Update, Index!Returns
    <3> QED BY <1>2, <1>3, <3>2, EffectStep DEF Index!Effect
  <2>5. CASE call[t].op = "ct_lookup"
    <3>1. call' = [call EXCEPT ![t].ret = NULL]
      BY <2>1, <2>5 DEF PutCalls
    <3>2. call[t].key \notin DOMAIN index
      BY <2>2
    <3>3. Index!Lookup(t)
      BY <1>1, <2>5, <3>1, <3>2 DEF Index!Lookup, Index!Returns
    <3> QED BY <1>2, <1>3, <3>3, EffectStep DEF Index!Effect
  <2> QED BY <1>3, <2>3, <2>4, <2>5
<1>5. CASE init_finger(t) /\ ~is_empty
  <2>1. Visit(t, Read(Root))
    BY <1>5 DEF init_finger
  <2>2. Root \in Trie
    BY <1>1, <1>5 DEF SharedInv, EmptyInv
  <2>3. Above(Root, KeySymbols(KeyOf(t)))
    BY <1>3, RootName
  <2> QED BY <1>1, <2>1, <2>2, <2>3, VisitStep
<1>6. CASE descend(t)
  <2> DEFINE c == Last(path[t])
             n == NameBelow(c, KeyOf(t))
  <2>1. n # NULL /\ Visit(t, Read(n)) /\ pc[t] = "descend"
    BY <1>6 DEF descend
  <2>2. Guarded(t) /\ pc[t] \notin RestPcs \cup {"return"}
    BY <1>1, <1>2, <2>1, Caller DEF RestPcs
  <2>3. c.name \in TreeNames /\ Fits(c.name, c.value) /\ Above(c.name, KeySymbols(KeyOf(t))) /\ Below(c.name, c.value) \subseteq Trie
    BY <1>1, <2>2, PathEnd
  <2>4. n \in Trie /\ Above(n, KeySymbols(KeyOf(t)))
    <3>1. KeyOf(t) \in Seq(Nat \ {0})
      BY <1>3, KeysAssumption
    <3> DEFINE k == KeyOf(t)
    <3> HIDE DEF c, k
    <3>2. c.name \in TreeNames /\ Fits(c.name, c.value) /\ Above(c.name, KeySymbols(k)) /\ k \in Seq(Nat \ {0}) /\ NameBelow(c, k) # NULL
      BY <2>1, <2>3, <3>1 DEF k
    <3>3. NameBelow(c, k) \in Below(c.name, c.value) /\ Above(NameBelow(c, k), KeySymbols(k))
      BY <3>2, Descends
    <3> QED BY <2>3, <3>3 DEF k
  <2> HIDE DEF n
  <2> QED BY <1>1, <2>1, <2>4, VisitStep
<1> QED BY <1>4, <1>5, <1>6 DEF init_finger

(* Only Start is a step of an idle thread.                                 *)
LEMMA NotIdle ==
  ASSUME NEW t, Step(t), ~Start(t)
  PROVE  pc[t] # "idle"
<1>1. pc[t] \in {"start", "descend", "root_lock", "root_wait", "root_check", "pred", "max_leaf", "lock_pred",
                "head", "link", "mark", "propagate", "return", "advance", "next", "next_again", "resynced"}
  BY DEF Step, init_finger, descend, create_root, CreateRootLock, CreateRootWait, CreateRootCheck, get_predecessor_atomic,
         PredecessorMinLeaf, PredecessorLeaf, PredecessorSubtree, PredecessorMaxLeaf, Seeking, At, create_leaf, split_jump_node,
         LockPath, LockPredecessor, WriteHead, LinkLeaves, mark_bitmap_child, propagate_max_leaf, Clean, SetValue,
         Iterate, IterGotoFirst, IterGotoNoBitmap, IterGotoAdvance, IterNextCurrent, IterNextRead, IterNextResynced, Return
<1> QED BY <1>1

(* Every step that is not one of an iterator is a step of the index or     *)
(* takes no effect.                                                        *)
LEMMA StepTakesEffect ==
  ASSUME IInv, CallsOK, NEW t \in Threads, Step(t), ~IteratorStep(t)
  PROVE  IndexStep
<1>0. ThreadInv(t) /\ CallInv(t)
  BY DEF IInv, ThreadInv
<1>1. CASE Start(t)
  <2> DEFINE c == Head(calls[t])
  <2>1. /\ pc[t] = "idle" /\ calls[t] # <<>> /\ call' = [call EXCEPT ![t] = Called(c, Pending)] /\ index' = index
        /\ c.op # "ct_iter_goto" => cursor' = cursor
    BY <1>1 DEF Start
  <2>2. call[t] = NULL /\ c \in AllCalls
    BY <1>0, <2>1 DEF CallInv
  <2>3. c.op # "ct_iter_goto" /\ c.op # "ct_iter_next"
    BY <2>1 DEF IteratorStep, IterCalls
  <2> HIDE DEF c
  <2>4. Index!Invoke(t, c)
    BY <2>1, <2>2, <2>3 DEF Index!Invoke, Called
  <2> QED BY <2>2, <2>4 DEF IndexStep, Index!Next
<1>2. ASSUME ~Start(t) PROVE pc[t] # "idle" /\ call[t].op \notin IterCalls
  <2>1. pc[t] # "idle"
    BY <1>2, NotIdle
  <2> QED BY <2>1 DEF IteratorStep
<1>3. CASE ~Start(t)
  <2>1. pc[t] # "idle" /\ call[t].op \notin IterCalls
    BY <1>2, <1>3
  <2>2. CASE init_finger(t) \/ descend(t)
    BY <2>1, <2>2, FingerSteps
  <2>3. CASE create_root(t) \/ create_leaf(t) \/ SetValue(t)
    BY <2>3, RootSteps, LeafSteps, SetValueSteps
  <2>4. CASE get_predecessor_atomic(t)
    <3>1. call' = call /\ index' = index /\ cursor' = cursor
      BY <2>1, <2>4, RetryChange DEF get_predecessor_atomic, PredecessorMinLeaf, PredecessorLeaf, PredecessorSubtree,
         PredecessorMaxLeaf, GotPredecessor
    <3> QED BY <3>1, NoIndexStep
  <2>5. CASE Iterate(t)
    <3>1. pc[t] \in IterPcs \/ call[t].op \in IterCalls
      BY <2>5 DEF Iterate, IterGotoFirst, IterGotoNoBitmap, IterGotoAdvance, IterNextCurrent, IterNextRead, IterNextResynced, IterPcs
    <3> QED BY <1>0, <2>1, <3>1 DEF CallInv
  <2>6. CASE Return(t)
    <3>1. pc[t] = "return" /\ call' = [call EXCEPT ![t] = NULL] /\ index' = index /\ cursor' = cursor
      BY <2>6 DEF Return
    <3>2. call[t] # NULL /\ call[t].ret # Pending
      BY <1>0, <2>1, <3>1, InCall DEF CallInv
    <3> QED BY <3>1, <3>2, RespondStep
  <2> QED BY <1>3, <2>2, <2>3, <2>4, <2>5, <2>6 DEF Step
<1> QED BY <1>1, <1>3

-----------------------------------------------------------------------------
(* Programs without iterators. *)

(* No program has a call of ct_iter_goto, and so none is an iterator's.    *)
NoGoto == \A p \in Programs, t \in Threads : \A c \in ToSet(p[t]) : c.op # "ct_iter_goto"

(* No thread executes, or has still to execute, a call of an iterator.     *)
WithoutIterators ==
  \A t \in Threads : /\ \A i \in 1..Len(calls[t]) : calls[t][i].op \notin IterCalls
                     /\ pc[t] # "idle" => call[t].op \notin IterCalls

(* Then no step is one of an iterator, ...                                 *)
LEMMA WithoutStep ==
  ASSUME IInv, WithoutIterators, NEW t \in Threads, Step(t)
  PROVE  ~IteratorStep(t)
<1>1. CallInv(t)
  BY DEF IInv, ThreadInv
<1>2. CASE Start(t)
  <2>1. pc[t] = "idle" /\ calls[t] # <<>> /\ calls[t] \in Seq(AllCalls)
    BY <1>1, <1>2 DEF Start, CallInv
  <2>2. 1 \in 1..Len(calls[t]) /\ Head(calls[t]) = calls[t][1]
    BY <2>1
  <2> QED BY <2>1, <2>2 DEF WithoutIterators, IteratorStep
<1>3. CASE ~Start(t)
  BY <1>3, NotIdle DEF WithoutIterators, IteratorStep
<1> QED BY <1>2, <1>3

(* ... since no step adds calls to a program, ...                          *)
LEMMA WithoutKept ==
  ASSUME IInv, WithoutIterators, [Next]_vars
  PROVE  WithoutIterators'
<1>1. CASE UNCHANGED vars
  BY <1>1 DEF vars, WithoutIterators
<1>2. ASSUME NEW t \in Threads, Step(t) PROVE WithoutIterators'
  <2>1. Frame(t) /\ CallInv(t) /\ DomainInv
    BY <1>2, FrameStep DEF IInv, SharedInv, ThreadInv
  <2>2. \A u \in Threads \ {t} : calls'[u] = calls[u] /\ call'[u] = call[u] /\ pc'[u] = pc[u]
    BY <2>1 DEF Frame, Same
  <2>3. /\ \A i \in 1..Len(calls'[t]) : calls'[t][i].op \notin IterCalls
        /\ pc'[t] # "idle" => call'[t].op \notin IterCalls
    <3>1. CASE Start(t)
      <4>1. /\ pc[t] = "idle" /\ calls[t] # <<>> /\ calls[t] \in Seq(AllCalls)
            /\ calls'[t] = Tail(calls[t]) /\ call'[t] = Called(Head(calls[t]), Pending)
        BY <2>1, <3>1 DEF Start, CallInv, DomainInv
      <4>2. \A i \in 1..Len(Tail(calls[t])) : Tail(calls[t])[i] = calls[t][i + 1] /\ i + 1 \in 1..Len(calls[t])
        BY <4>1
      <4>3. Head(calls[t]).op \notin IterCalls
        BY <1>2, <4>1, WithoutStep DEF IteratorStep
      <4> QED BY <4>1, <4>2, <4>3 DEF WithoutIterators, Called
    <3>2. CASE ~Start(t)
      <4>1. pc[t] # "idle" /\ call[t].op \notin IterCalls
        BY <1>2, <3>2, NotIdle DEF WithoutIterators
      <4>2. CallChange(t)
        BY <1>2, StepChange
      <4>3. CASE calls' = calls /\ call' = call
        BY <4>1, <4>3 DEF WithoutIterators
      <4>4. CASE calls' = calls /\ \E r : call' = [call EXCEPT ![t].ret = r]
        <5>1. call'[t].op = call[t].op
          BY <2>1, <4>1, <4>4, SetsResult
        <5> QED BY <4>1, <4>4, <5>1 DEF WithoutIterators
      <4>5. CASE Return(t) \/ Clean(t)
        <5>1. calls' = calls /\ pc'[t] = "idle"
          BY <2>1, <4>1, <4>5 DEF Return, Clean, DomainInv, IterCalls
        <5> QED BY <5>1 DEF WithoutIterators
      <4> QED BY <3>2, <4>2, <4>3, <4>4, <4>5 DEF CallChange
    <3> QED BY <3>1, <3>2
  <2> QED BY <2>2, <2>3 DEF WithoutIterators
<1> QED BY <1>1, <1>2 DEF Next, Done

(* ... and the programs have none at first.                                *)
LEMMA InitWithout ==
  ASSUME NoGoto, Init
  PROVE  WithoutIterators
<1>1. SUFFICES ASSUME NEW t \in Threads, NEW i \in 1..Len(calls[t]) PROVE calls[t][i].op \notin IterCalls
  BY DEF Init, WithoutIterators
<1>2. calls \in Programs /\ calls[t] \in Seq(ToSet(calls[t]))
  BY ProgramsAssumption DEF Init
<1>3. calls[t][i] \in ToSet(calls[t])
  BY <1>2 DEF ToSet
<1>4. calls[t][i].op \in PutCalls \cup {"ct_update", "ct_lookup", "ct_iter_goto"} /\ calls[t][i].op # "ct_iter_goto"
  BY <1>2, <1>3, ProgramsAssumption DEF NoGoto
<1> QED BY <1>4 DEF PutCalls, IterCalls

(* The calls for single keys are atomic, also beside iterators: each of    *)
(* their steps, those of the lock-free searches and the multi-write splits *)
(* included, either takes the effect of exactly the call it belongs to, on *)
(* the index as it is then, or changes nothing a caller can see.           *)
THEOREM CallsTakeEffect ==
  Spec => [][\A t \in Threads : Step(t) /\ ~IteratorStep(t) => [Index!Next]_(Index!vars)]_vars
<1>1. IInv /\ CallsOK /\ [Next]_vars => [\A t \in Threads : Step(t) /\ ~IteratorStep(t) => [Index!Next]_(Index!vars)]_vars
  BY StepTakesEffect DEF IndexStep
<1> QED BY <1>1, StructureHolds, CallsKept, PTL DEF Spec

(* Programs of ct_insert, ct_upsert, ct_update and ct_lookup are           *)
(* linearizable, for any number of threads, any programs, any keys and any *)
(* length of jumps: every behaviour of the trie is one of the index in     *)
(* which each call happens at once, between its start and its return.      *)
THEOREM LinearizableWithoutIterators ==
  ASSUME NoGoto
  PROVE  Spec => Linearizable
<1>1. Init => WithoutIterators
  BY InitWithout
<1>2. IInv /\ WithoutIterators /\ [Next]_vars => WithoutIterators'
  BY WithoutKept
<1>3. Init => Index!Init
  BY DEF Init, Index!Init, NoCursor, Index!NoCursor
<1>4. IInv /\ CallsOK /\ WithoutIterators /\ [Next]_vars => [Index!Next]_(Index!vars)
  <2>1. SUFFICES ASSUME IInv, CallsOK, WithoutIterators, [Next]_vars PROVE [Index!Next]_(Index!vars)
    OBVIOUS
  <2>2. CASE UNCHANGED vars
    BY <2>2, NoIndexStep DEF vars, IndexStep
  <2>3. ASSUME NEW t \in Threads, Step(t) PROVE [Index!Next]_(Index!vars)
    BY <2>1, <2>3, WithoutStep, StepTakesEffect DEF IndexStep
  <2> QED BY <2>1, <2>2, <2>3 DEF Next, Done
<1> QED BY <1>1, <1>2, <1>3, <1>4, StructureHolds, CallsKept, PTL DEF Spec, Linearizable, Index!Spec

-----------------------------------------------------------------------------
(* Types. *)

(* What a thread keeps beside its path is of the kind the code expects.    *)
LocalsOK ==
  \A t \in Threads : /\ pred[t] = NULL \/ pred[t].value.type = "LEAF"
                     /\ subtree[t] = NULL \/ subtree[t].value.type \in {"BITMAP", "JUMP"}
                     /\ iter[t] = NoIter

(* What a step does to the copies a thread keeps beside its path.          *)
CopyChange(t) ==
  /\ \/ pred'[t] = pred[t] \/ pred'[t] = NULL \/ pc'[t] \in {"lock_pred", "head", "link", "mark", "propagate"}
  /\ \/ subtree'[t] = subtree[t] \/ subtree'[t] = NULL \/ pc'[t] = "max_leaf"
  /\ iter'[t] = iter[t]

(* A retry, ...                                                            *)
LEMMA RetryCopies ==
  ASSUME DomainInv, NEW t \in Threads, Retry(t) PROVE CopyChange(t)
BY DEF Retry, LocalsReset, CopyChange, DomainInv

(* ... a predecessor that was found, ...                                   *)
LEMMA GotCopies ==
  ASSUME DomainInv, NEW t \in Threads, NEW c, GotPredecessor(t, c), call[t].op \notin IterCalls PROVE CopyChange(t)
BY DEF GotPredecessor, CopyChange, DomainInv

(* ... and so every step that is not one of an iterator changes the copies *)
(* in one of these ways.                                                   *)
LEMMA StepCopies ==
  ASSUME IInv, NEW t \in Threads, Step(t), ~IteratorStep(t)
  PROVE  CopyChange(t)
<1>0. ThreadInv(t) /\ CallInv(t) /\ DomainInv
  BY DEF IInv, ThreadInv, SharedInv
<1>1. CASE Start(t)
  <2>1. Head(calls[t]).op # "ct_iter_goto"
    BY <1>1 DEF Start, IteratorStep, IterCalls
  <2> QED BY <1>1, <2>1 DEF Start, locals, CopyChange
<1>2. CASE ~Start(t)
  <2>1. pc[t] # "idle" /\ call[t].op \notin IterCalls
    BY <1>2, NotIdle DEF IteratorStep
  <2>2. CASE init_finger(t) \/ descend(t)
    BY <2>1, <2>2 DEF init_finger, descend, EmptyTrie, CopyChange
  <2>3. CASE create_root(t)
    BY <2>3 DEF create_root, CreateRootLock, CreateRootWait, CreateRootCheck, locals, CopyChange
  <2>4. CASE get_predecessor_atomic(t)
    <3>1. Retry(t) \/ (\E c : GotPredecessor(t, c)) \/ PredecessorSubtree(t)
      BY <2>4 DEF get_predecessor_atomic, PredecessorMinLeaf, PredecessorLeaf, PredecessorMaxLeaf
    <3>2. CASE PredecessorSubtree(t)
      BY <1>0, <3>2 DEF PredecessorSubtree, CopyChange, DomainInv
    <3> QED BY <1>0, <2>1, <3>1, <3>2, RetryCopies, GotCopies
  <2>5. CASE split_jump_node(t) \/ LockPath(t) \/ LockPredecessor(t)
    <3>1. CASE Retry(t)
      BY <1>0, <3>1, RetryCopies
    <3>2. CASE ~Retry(t) /\ (split_jump_node(t) \/ LockPath(t))
      BY <3>2 DEF split_jump_node, LockPath, locals, CopyChange
    <3>3. CASE ~Retry(t) /\ LockPredecessor(t)
      BY <1>0, <3>3 DEF LockPredecessor, CopyChange, DomainInv
    <3> QED BY <2>5, <3>1, <3>2, <3>3
  <2>6. CASE WriteHead(t) \/ mark_bitmap_child(t) \/ LinkLeaves(t) \/ propagate_max_leaf(t)
    BY <1>0, <2>6 DEF WriteHead, mark_bitmap_child, WritePathEnd, LinkLeaves, propagate_max_leaf, CopyChange, DomainInv
  <2>7. CASE Clean(t)
    BY <1>0, <2>7 DEF Clean, LocalsReset, CopyChange, DomainInv
  <2>8. CASE SetValue(t)
    <3>1. CASE Retry(t)
      BY <1>0, <3>1, RetryCopies
    <3>2. CASE ~Retry(t)
      BY <2>8, <3>2 DEF SetValue, locals, CopyChange
    <3> QED BY <3>1, <3>2
  <2>9. CASE Iterate(t)
    <3>1. pc[t] \in IterPcs \/ call[t].op \in IterCalls
      BY <2>9 DEF Iterate, IterGotoFirst, IterGotoNoBitmap, IterGotoAdvance, IterNextCurrent, IterNextRead, IterNextResynced, IterPcs
    <3> QED BY <1>0, <2>1, <3>1 DEF CallInv
  <2>10. CASE Return(t)
    BY <1>0, <2>10 DEF Return, LocalsReset, CopyChange, DomainInv
  <2> QED BY <1>2, <2>2, <2>3, <2>4, <2>5, <2>6, <2>7, <2>8, <2>9, <2>10 DEF Step, create_leaf
<1> QED BY <1>1, <1>2

(* The copies keep their kinds.                                            *)
LEMMA LocalsKept ==
  ASSUME IInv, IInv', WithoutIterators, WithoutIterators', LocalsOK, [Next]_vars
  PROVE  LocalsOK'
<1>1. CASE UNCHANGED vars
  BY <1>1 DEF vars, LocalsOK
<1>2. ASSUME NEW t \in Threads, Step(t) PROVE LocalsOK'
  <2>1. Frame(t) /\ CopyChange(t)
    BY <1>2, FrameStep, WithoutStep, StepCopies DEF IInv, SharedInv
  <2>2. \A u \in Threads \ {t} : pred'[u] = pred[u] /\ subtree'[u] = subtree[u] /\ iter'[u] = iter[u]
    BY <2>1 DEF Frame, Same
  <2>3. PredInv(t)' /\ CallInv(t)'
    BY DEF IInv, ThreadInv
  <2>4. pc'[t] \in {"lock_pred", "head", "link", "mark", "propagate"} => pred'[t].value.type = "LEAF"
    BY <2>3 DEF PredInv
  <2>5. pc'[t] = "max_leaf" => subtree'[t].value.type \in {"BITMAP", "JUMP"}
    <3>1. SUFFICES ASSUME pc'[t] = "max_leaf" PROVE Guarded(t)'
      BY <2>3 DEF PredInv
    <3>2. call'[t].op \notin IterCalls
      BY <3>1 DEF WithoutIterators
    <3>3. \E c \in AllCalls : call'[t] = Called(c, call'[t].ret)
      BY <2>3, <3>1 DEF CallInv
    <3>4. PICK c \in AllCalls : call'[t] = Called(c, call'[t].ret)
      BY <3>3
    <3>5. call'[t].key \in Seq(Nat \ {0})
      BY <3>4, CallsKnown DEF Called
    <3> QED BY <3>1, <3>2, <3>5 DEF Guarded, KeyOf
  <2> QED BY <2>1, <2>2, <2>4, <2>5 DEF CopyChange, LocalsOK
<1> QED BY <1>1, <1>2 DEF Next, Done

(* With the invariant the variables have their types.                      *)
LEMMA TypesHold ==
  ASSUME IInv, WithoutIterators, LocalsOK
  PROVE  TypeOK
<1>1. SharedInv /\ NodesOK /\ EmptyInv /\ nodes \in NodeMaps
  BY DEF IInv, SharedInv, NodesOK
<1>2. ASSUME NEW n \in Names
      PROVE  /\ nodes[n].value.type \in {"UNUSED", "LEAF", "BITMAP", "JUMP"}
             /\ nodes[n].seq \in Nat
             /\ nodes[n].lock \in Threads \cup {NULL}
  <2>1. Fits(n, nodes[n].value)
    BY <1>1 DEF NodesOK
  <2> QED BY <1>1, <2>1, Kinds, NodeIs
<1>3. ASSUME NEW t \in Threads
      PROVE  /\ ToSet(calls[t]) \subseteq AllCalls
             /\ \A i \in DOMAIN path[t] : path[t][i].value.type # "UNUSED"
             /\ pred[t] # NULL => pred[t].value.type = "LEAF"
             /\ subtree[t] # NULL => subtree[t].value.type \in {"BITMAP", "JUMP"}
             /\ iter[t].leaf # NULL => iter[t].leaf.value.type = "LEAF"
             /\ pc[t] = "idle" <=> call[t] = NULL
  <2>1. ThreadInv(t) /\ CallInv(t) /\ PathInv(t)
    BY DEF IInv, ThreadInv
  <2>2. ToSet(calls[t]) \subseteq AllCalls
    <3> DEFINE s == calls[t]
    <3>1. s \in Seq(AllCalls)
      BY <2>1 DEF CallInv
    <3> HIDE DEF s
    <3>2. ToSet(s) \subseteq AllCalls
      BY <3>1 DEF ToSet
    <3> QED BY <3>2 DEF s
  <2>3. \A i \in DOMAIN path[t] : path[t][i].value.type # "UNUSED"
    <3>1. CASE pc[t] = "idle"
      BY <2>1, <3>1 DEF CallInv, RestPcs
    <3>2. CASE pc[t] # "idle"
      <4>1. Guarded(t)
        BY <2>1, <3>2, Caller DEF WithoutIterators
      <4>2. PathOK(nodes, Trie, KeyOf(t), path[t]) /\ path[t] \in Seq(Copies)
        BY <2>1, <4>1 DEF PathInv, PathOK
      <4>3. \A i \in 1..Len(path[t]) : path[t][i].value.type \in {"LEAF", "BITMAP", "JUMP"}
        BY <4>2, AtPath, TrieNames
      <4>4. DOMAIN path[t] = 1..Len(path[t])
        BY <4>2
      <4> QED BY <4>3, <4>4
    <3> QED BY <3>1, <3>2
  <2>4. pc[t] = "idle" <=> call[t] = NULL
    <3>1. CASE pc[t] = "idle"
      BY <2>1, <3>1 DEF CallInv
    <3>2. CASE pc[t] # "idle"
      BY <2>1, <3>2, InCall DEF WithoutIterators
    <3> QED BY <3>1, <3>2
  <2>5. iter[t].leaf = NULL
    BY DEF LocalsOK, NoIter
  <2> QED BY <2>2, <2>3, <2>4, <2>5 DEF LocalsOK
<1> QED BY <1>1, <1>2, <1>3 DEF TypeOK, EmptyInv

(* In programs without iterators every variable keeps its type: a copy a   *)
(* thread acts on is one of a node of the kind the code takes it for, and  *)
(* every call returns a result its interface promises.                     *)
THEOREM TypesWithoutIterators ==
  ASSUME NoGoto
  PROVE  Spec => []TypeOK
<1>1. Init => WithoutIterators /\ LocalsOK
  BY InitWithout DEF Init, LocalsOK
<1>2. IInv /\ WithoutIterators /\ [Next]_vars => WithoutIterators'
  BY WithoutKept
<1>3. IInv /\ IInv' /\ WithoutIterators /\ WithoutIterators' /\ LocalsOK /\ [Next]_vars => LocalsOK'
  BY LocalsKept
<1>4. IInv /\ WithoutIterators /\ LocalsOK => TypeOK
  BY TypesHold
<1> QED BY <1>1, <1>2, <1>3, <1>4, StructureHolds, PTL DEF Spec

=============================================================================
