------------------------- MODULE ConcurrentTrieVerified ---------------------
(***************************************************************************)
(* The writes of create_leaf and create_root keep the order of the leaf    *)
(* list and of max_leaf (OrderInv of ConcurrentTrieOrder): the links, the  *)
(* write of a new child, the splits of a leaf and of a jump node, and the  *)
(* first leaf.  With them every step does, and so ct_verify_trie finds     *)
(* nothing wrong when no call is under way.                                *)
(***************************************************************************)
EXTENDS ConcurrentTrieOrder

-----------------------------------------------------------------------------
(* Linking new leaves. *)

(* A listed leaf, or min_leaf, that comes before the target of a writer    *)
(* comes before the writer's predecessor, if it is another.                *)
LEMMA BeforePredecessor ==
  ASSUME IInv, OrderInv, NEW t \in Threads, WithPred(t), NEW m \in TreeNames, Prior(pred[t].name, m),
         pred[t].value.next_leaf = NULL \/ Before(m, pred[t].value.next_leaf),
         NEW n \in Listed \cup {MinLeaf}, n # pred[t].name, Prior(n, m)
  PROVE  pred[t].name \in Listed /\ pred[t].name # MinLeaf /\ Prior(n, pred[t].name)
<1> DEFINE pn == pred[t].name
           next == pred[t].value.next_leaf
<1>1. pn \in Trie \cup {MinLeaf} /\ nodes[pn].value = pred[t].value /\ pred[t].value.type = "LEAF" /\ pred[t].value \in LeafValues
  BY WriterPlace
<1>2. pn \in Listed \cup {MinLeaf} /\ Listed \subseteq TreeNames /\ MinLeaf \notin TreeNames
  BY <1>1, ListedPart, NullIsNoName
<1>3. next \in TreeNames \cup {NULL}
  BY <1>1 DEF LeafValues
<1>4. /\ next = NULL => \A y \in Listed : ~Prior(pn, y)
      /\ next # NULL => \A y \in Listed : Prior(pn, y) => Upto(next, y)
  BY <1>1, <1>2 DEF OrderInv, ListInv, NextInv
<1>5. ASSUME n \in Listed, Prior(pn, n) PROVE FALSE
  <2>1. next # NULL /\ Upto(next, n) /\ Before(m, next)
    BY <1>4, <1>5
  <2>2. Before(m, n)
    BY <1>2, <1>3, <1>5, <2>1, UptoOrder, NullIsNoName
  <2>3. Before(n, m)
    BY <1>2, <1>5 DEF Prior
  <2> QED BY <1>2, <1>5, <2>2, <2>3, NamesOrder
<1>6. CASE n = MinLeaf
  BY <1>2, <1>6 DEF Prior
<1>7. CASE n \in Listed
  <2>1. pn # MinLeaf
    BY <1>5, <1>7 DEF Prior
  <2>2. pn \in Listed
    BY <1>2, <2>1
  <2>3. Before(n, pn) \/ Before(pn, n)
    BY <1>7, <2>2, ListedOrder
  <2> QED BY <1>5, <1>7, <2>1, <2>2, <2>3 DEF Prior
<1> QED BY <1>6, <1>7

(* What the write that links new leaves changes.                           *)
LEMMA Linked ==
  ASSUME IInv, IInv', OrderInv, NEW t \in Threads, Step(t), LinkLeaves(t)
  PROVE  LET pn == pred[t].name
         IN  /\ pc[t] = "link" /\ WithPred(t) /\ WithPred(t)' /\ Locking(t) /\ Frame(t) /\ NodeFrame(t) /\ pn \in Listed \cup {MinLeaf}
             /\ UNCHANGED <<is_empty, calls, call, path, subtree, new_leaf, iter, index, cursor>>
             /\ pc'[t] = IF call[t].ret = Pending THEN "mark" ELSE "propagate"
             /\ call[t].ret # Pending => level'[t] = Len(path[t])
             /\ pred'[t].name = pn /\ pred'[t].value.next_leaf = new_leaf[t] /\ pred'[t].value.dirty
             /\ nodes'[pn].value.next_leaf = new_leaf[t] /\ nodes'[pn].value.type = "LEAF" /\ new_leaf[t] \in TreeNames
             /\ \A n \in Names \ {pn} : nodes'[n] = nodes[n]
             /\ \A n \in Names : /\ nodes'[n].value = Unused <=> nodes[n].value = Unused
                                 /\ nodes'[n].value.type = nodes[n].value.type
             /\ Hidden(t)' = Hidden(t) /\ Trie' = Trie /\ DirtyInv'
<1> DEFINE pn == pred[t].name
           v == [pred[t].value EXCEPT !.next_leaf = new_leaf[t]]
<1>1. /\ SharedInv /\ DomainInv /\ ThreadInv(t) /\ Frame(t) /\ pc[t] = "link" /\ Locking(t) /\ WithPred(t)
  BY FrameStep DEF IInv, SharedInv, LinkLeaves, Locking, WithPred
<1>2. /\ nodes' = WriteNode(nodes, pn, v)
      /\ pred'[t] = Updated(pred[t], v)
      /\ \/ call[t].ret = Pending /\ pc'[t] = "mark"
         \/ call[t].ret # Pending /\ pc'[t] = "propagate" /\ level'[t] = Len(path[t])
      /\ UNCHANGED <<is_empty, calls, call, path, subtree, new_leaf, iter, index, cursor>>
  BY <1>1 DEF LinkLeaves, DomainInv, update_entry
<1>3. /\ pn \in Names /\ nodes[pn].value = pred[t].value /\ nodes[pn].lock = t /\ pred[t].value.type = "LEAF"
      /\ Fits(pn, pred[t].value) /\ pred[t].value \in LeafValues /\ pred[t].value.dirty /\ pn \in Trie \cup {MinLeaf}
  BY <1>1, WriterPlace
<1>4. new_leaf[t] \in TreeNames /\ pred[t] \in Copies
  BY <1>1 DEF ThreadInv, EndInv, PredInv, CopyIn
<1>5. v \in NodeValues /\ v # Unused /\ v.type = "LEAF"
  <2> HIDE DEF pn
  <2>1. \A l \in TreeNames : LET w == [pred[t].value EXCEPT !.next_leaf = l]
              IN  /\ Fits(pn, w) /\ w.type = "LEAF" /\ w.key = pred[t].value.key /\ w.kv = pred[t].value.kv
                  /\ w \in NodeValues /\ w # Unused
    BY <1>3, ChangedLeaf
  <2> QED BY <1>4, <2>1
<1>6. v.next_leaf = new_leaf[t] /\ v.dirty
  BY <1>3 DEF LeafValues
<1>7. pred'[t].name = pn /\ pred'[t].value = v
  BY <1>2, <1>4, UpdatedCopy
<1> HIDE DEF v
<1>8. /\ NodeFrame(t) /\ nodes'[pn].value = v
      /\ \A m \in Names \ {pn} : nodes'[m] = nodes[m]
  <2> HIDE DEF pn
  <2> QED BY <1>2, <1>3, <1>5, OneWrite
<1>9. \A n \in Names : /\ nodes'[n].value = Unused <=> nodes[n].value = Unused
                       /\ nodes'[n].value.type = nodes[n].value.type
  <2>1. nodes[pn].value # Unused
    BY <1>3 DEF Unused
  <2> HIDE DEF pn
  <2> QED BY <1>3, <1>5, <1>8, <2>1
<1>10. Hidden(t)' = Hidden(t)
  <2>1. Putting(t)' <=> Putting(t)
    BY <1>1, <1>2 DEF Putting
  <2>2. Putting(t) => DOMAIN NewNodes(t)' = DOMAIN NewNodes(t)
    <3>1. Putting(t) => Last(path[t]).value.type = "BITMAP"
      BY <1>1 DEF ThreadInv, EndInv, Putting
    <3> QED BY <1>2, <3>1 DEF NewNodes, CreatedLeaf
  <2> QED BY <1>1, <1>2, <2>1, <2>2 DEF Hidden
<1>11. Trie' = Trie
  <2>1. \A u \in Threads : Hidden(u)' = Hidden(u)
    BY <1>1, <1>10, OtherHidden
  <2> QED BY <1>9, <2>1, TrieSame, TrieNames
<1>12. WithPred(t)'
  BY <1>2 DEF WithPred
<1>13. DirtyInv'
  <2>1. \A n \in Names : nodes'[n].value.type = "LEAF" /\ nodes'[n].value.dirty =>
           \/ nodes[n].value.type = "LEAF" /\ nodes[n].value.dirty /\ (WithPred(t) => pred[t].name # n)
           \/ WithPred(t)' /\ pred'[t].name = n
    BY <1>7, <1>8, <1>12
  <2> QED BY <1>1, <1>6, <1>7, <2>1, DirtyKept
<1>14. pn \in Listed \cup {MinLeaf}
  BY <1>3, ListedPart
<1> QED BY <1>1, <1>2, <1>3, <1>4, <1>5, <1>6, <1>7, <1>8, <1>9, <1>10, <1>11, <1>12, <1>13, <1>14

(* A leaf below a bitmap is linked: the list goes on from the predecessor  *)
(* to it, and from it to what came after the predecessor.                  *)
LEMMA LinkOneOrder ==
  ASSUME IInv, IInv', OrderInv, NEW t \in Threads, Step(t), LinkLeaves(t), call[t].ret = Pending
  PROVE  OrderInv'
<1> DEFINE pn == pred[t].name
           next == pred[t].value.next_leaf
           m == Target(t)
<1>1. /\ pc[t] = "link" /\ WithPred(t) /\ WithPred(t)' /\ Locking(t) /\ Frame(t) /\ NodeFrame(t) /\ pn \in Listed \cup {MinLeaf}
      /\ UNCHANGED <<is_empty, calls, call, path, subtree, new_leaf, iter, index, cursor>>
      /\ pc'[t] = "mark"
      /\ pred'[t].name = pn /\ pred'[t].value.next_leaf = new_leaf[t] /\ pred'[t].value.dirty
      /\ nodes'[pn].value.next_leaf = new_leaf[t] /\ nodes'[pn].value.type = "LEAF" /\ new_leaf[t] \in TreeNames
      /\ \A n \in Names \ {pn} : nodes'[n] = nodes[n]
      /\ \A n \in Names : /\ nodes'[n].value = Unused <=> nodes[n].value = Unused
                          /\ nodes'[n].value.type = nodes[n].value.type
      /\ Hidden(t)' = Hidden(t) /\ Trie' = Trie /\ DirtyInv'
  BY Linked
<1>2. /\ pn \in Names /\ nodes[pn].value = pred[t].value /\ nodes[pn].lock = t /\ pred[t].value \in LeafValues
      /\ pn \in Trie \cup {MinLeaf} /\ path[t][1].name = Root
  BY <1>1, WriterPlace
<1>3. Putting(t) /\ Placing(t) /\ PlaceInv(t) /\ ~Splitting(t) /\ ~Splitting(t)'
  BY <1>1 DEF Putting, Placing, Splitting, OrderInv
<1>4. /\ Hidden(t) = {m} /\ nodes[m].value.type = "LEAF" /\ nodes[m].value # Unused /\ nodes[m].lock = t /\ m \in TreeNames
      /\ Last(path[t]).value.type = "BITMAP"
  BY <1>3, MarkPart
<1>5. /\ Prior(pn, m) /\ (next = NULL \/ Before(m, next)) /\ new_leaf[t] = m /\ nodes[m].value.next_leaf = next
  BY <1>1, <1>3, <1>4 DEF PlaceInv
<1> HIDE DEF m
<1>6. m \notin Listed /\ Listed \subseteq TreeNames /\ MinLeaf \notin TreeNames /\ next \in TreeNames \cup {NULL} /\ NULL \notin TreeNames
  <2>1. m \notin Listed
    BY <1>1, <1>4 DEF Listed
  <2>2. next \in TreeNames \cup {NULL}
    BY <1>2 DEF LeafValues
  <2> QED BY <2>1, <2>2, ListedPart, NullIsNoName
<1>7. m # pn /\ m \in Names /\ nodes'[m] = nodes[m] /\ m # MinLeaf
  <2>1. m # pn
    BY <1>1, <1>4, <1>6
  <2> QED BY <1>1, <1>4, <1>6, <2>1, TrieNames
<1>8. Listed' = Listed \cup {m}
  <2>1. \A u \in Threads \ {t} : Hidden(u)' = Hidden(u) /\ pc'[u] = pc[u]
    BY <1>1, HiddenKeeps DEF Frame, Same
  <2>2. ASSUME NEW n PROVE n \in Listed' <=> n \in Listed \cup {m}
    <3>1. CASE n = m
      <4>1. \A u \in Threads : n \in Hidden(u)' => pc'[u] = "mark"
        <5> TAKE u \in Threads
        <5>1. CASE u = t
          BY <1>1, <5>1
        <5>2. CASE u # t
          <6>1. n \in Hidden(u)' => nodes'[n].lock = u
            BY DEF IInv, ThreadInv, HiddenInv
          <6> QED BY <1>4, <1>7, <3>1, <5>2, <6>1
        <5> QED BY <5>1, <5>2
      <4> QED BY <1>4, <1>7, <3>1, <4>1 DEF Listed, Used
    <3>2. CASE n # m
      <4>1. n \notin Hidden(t) /\ n \notin Hidden(t)'
        BY <1>1, <1>4, <3>2
      <4>2. (\A u \in Threads : n \in Hidden(u) => pc[u] = "mark") <=> (\A u \in Threads : n \in Hidden(u)' => pc'[u] = "mark")
        BY <2>1, <4>1
      <4>3. n \in TreeNames => n \in Names
        BY TrieNames
      <4> QED BY <1>1, <3>2, <4>2, <4>3 DEF Listed, Used
    <3> QED BY <3>1, <3>2
  <2> QED BY <2>2
<1>9. \A n \in Listed \cup {MinLeaf} : n # pn /\ Prior(n, m) => pn \in Listed /\ pn # MinLeaf /\ Prior(n, pn)
  BY <1>1, <1>4, <1>5, BeforePredecessor
<1>10. /\ next = NULL => \A y \in Listed : ~Prior(pn, y)
       /\ next # NULL => /\ \A y \in Listed : Prior(pn, y) => Upto(next, y)
                         /\ next \in Listed \/ \E u \in Threads : Splitting(u) /\ Last(path[u]).name = next /\ pred[u].name = pn
  BY <1>1, <1>2 DEF OrderInv, ListInv, NextInv
<1>11. next # NULL => next \in Listed
  <2> SUFFICES ASSUME NEW u \in Threads, Splitting(u), pred[u].name = pn PROVE FALSE
    BY <1>10
  <2>1. WithPred(u)
    BY DEF Splitting, WithPred
  <2>2. nodes[pn].lock = u
    BY <2>1, WriterPlace
  <2> QED BY <1>2, <1>3, <2>2
<1>12. \A y \in Listed : Prior(m, y) => Prior(pn, y)
  <2> TAKE y \in Listed
  <2>1. CASE pn = MinLeaf
    BY <2>1 DEF Prior
  <2>2. CASE pn # MinLeaf
    <3>1. Before(pn, m) /\ pn \in TreeNames
      BY <1>1, <1>5, <1>6, <2>2 DEF Prior
    <3> QED BY <1>4, <1>6, <1>7, <3>1, NamesOrder DEF Prior
  <2> QED BY <2>1, <2>2
<1>13. ~Before(m, m) /\ Upto(m, m)
  BY <1>4, NamesOrder, UptoOrder
<1> HIDE DEF pn, next
<1>14. ListInv'
  <2> SUFFICES ASSUME NEW n \in Listed \cup {m, MinLeaf} PROVE NextInv(n)'
    BY <1>8 DEF ListInv
  <2>1. CASE n = pn
    <3>1. ASSUME NEW y \in Listed', Prior(pn, y) PROVE Upto(m, y)
      <4>1. CASE y = m
        BY <1>13, <4>1
      <4>2. CASE y \in Listed
        <5>1. next # NULL /\ Upto(next, y) /\ Before(m, next)
          BY <1>5, <1>10, <3>1, <4>2
        <5>2. Before(m, y)
          BY <1>4, <1>6, <4>2, <5>1, UptoOrder
        <5> QED BY <5>2 DEF Upto
      <4> QED BY <1>8, <4>1, <4>2
    <3>2. nodes'[n].value.next_leaf = m /\ m # NULL /\ m \in Listed'
      BY <1>1, <1>4, <1>5, <1>6, <1>8, <2>1
    <3> QED BY <1>5, <2>1, <3>1, <3>2 DEF NextInv
  <2>2. CASE n = m
    <3>1. nodes'[n].value.next_leaf = next
      BY <1>5, <1>7, <2>2
    <3>2. CASE next = NULL
      <4>1. \A y \in Listed' : ~Prior(m, y)
        BY <1>7, <1>8, <1>10, <1>12, <1>13, <3>2 DEF Prior
      <4> QED BY <2>2, <3>1, <3>2, <4>1 DEF NextInv
    <3>3. CASE next # NULL
      <4>1. Prior(m, next) /\ next \in Listed'
        BY <1>5, <1>8, <1>11, <3>3 DEF Prior
      <4>2. \A y \in Listed' : Prior(m, y) => Upto(next, y)
        BY <1>7, <1>8, <1>10, <1>12, <1>13, <3>3 DEF Prior
      <4> QED BY <2>2, <3>1, <3>3, <4>1, <4>2 DEF NextInv
    <3> QED BY <3>2, <3>3
  <2>3. CASE n # pn /\ n # m
    <3> DEFINE v == nodes[n].value.next_leaf
    <3>1. n \in Listed \cup {MinLeaf} /\ n \in Names
      BY <1>6, <2>3, TrieNames
    <3>2. nodes'[n].value.next_leaf = v
      BY <1>1, <2>3, <3>1
    <3>3. NextInv(n)
      BY <3>1 DEF OrderInv, ListInv
    <3>4. v \in TreeNames \cup {NULL}
      <4>1. nodes[n].value.type = "LEAF" /\ Fits(n, nodes[n].value)
        BY <3>1, ListedPart, Kinds DEF IInv, SharedInv, NodesOK
      <4>2. nodes[n].value \in LeafValues
        BY <3>1, <4>1, Kinds
      <4> QED BY <4>2 DEF LeafValues
    <3> HIDE DEF v
    <3>5. ASSUME v = NULL, Prior(n, m) PROVE FALSE
      <4>1. pn \in Listed /\ Prior(n, pn)
        BY <1>9, <2>3, <3>1, <3>5
      <4> QED BY <3>3, <3>5, <4>1 DEF NextInv, v
    <3>6. ASSUME v # NULL, Prior(n, m) PROVE Upto(v, m)
      <4>1. pn \in Listed /\ Prior(n, pn) /\ pn # MinLeaf
        BY <1>9, <2>3, <3>1, <3>6
      <4>2. Upto(v, pn)
        BY <3>3, <3>6, <4>1 DEF NextInv, v
      <4>3. Upto(pn, m)
        BY <1>5, <4>1 DEF Prior, Upto
      <4>4. v \in TreeNames /\ pn \in TreeNames
        BY <1>6, <3>4, <3>6, <4>1
      <4> QED BY <1>4, <4>2, <4>3, <4>4, UptoOrder
    <3>7. CASE v = NULL
      <4>1. \A y \in Listed' : ~Prior(n, y)
        BY <1>8, <3>3, <3>5, <3>7 DEF NextInv, v
      <4> QED BY <3>2, <3>7, <4>1 DEF NextInv
    <3>8. CASE v # NULL
      <4>1. Prior(n, v) /\ \A y \in Listed' : Prior(n, y) => Upto(v, y)
        BY <1>8, <3>3, <3>6, <3>8 DEF NextInv, v
      <4>2. v \in Listed' \/ \E u \in Threads : Splitting(u)' /\ Last(path'[u]).name = v /\ pred'[u].name = n
        <5>1. CASE v \in Listed
          BY <1>8, <5>1
        <5>2. CASE v \notin Listed
          <6>1. PICK u \in Threads : Splitting(u) /\ Last(path[u]).name = v /\ pred[u].name = n
            BY <3>3, <3>8, <5>2 DEF NextInv, v
          <6>2. u # t
            BY <1>3, <6>1
          <6>3. Same(u)
            BY <1>1, <6>2 DEF Frame
          <6>4. Splitting(u)'
            BY <6>1, <6>3, SameNames
          <6> QED BY <6>1, <6>3, <6>4 DEF Same
        <5> QED BY <5>1, <5>2
      <4> QED BY <3>2, <3>8, <4>1, <4>2 DEF NextInv
    <3> QED BY <3>7, <3>8
  <2> QED BY <2>1, <2>2, <2>3
<1>15. MaxInv'
  <2>1. \A q \in Trie : /\ nodes'[q].value.type = nodes[q].value.type
                        /\ nodes[q].value.type \in {"BITMAP", "JUMP"} => nodes'[q].value.max_leaf = nodes[q].value.max_leaf
    BY <1>1, TrieNames DEF pn
  <2>2. \A q \in Trie : ~Stale(t, q)
    BY <1>1, <1>3 DEF Stale
  <2> QED BY <1>1, <2>1, <2>2, MaxKept
<1>16. PlaceInv(t)' /\ SplitInv(t)'
  <2>1. ~Placing(t)' /\ Target(t)' = Target(t) /\ pc'[t] # "link"
    BY <1>1 DEF Placing, Target
  <2>2. path'[t][1].name = Root /\ pred'[t].name \in Trie' \cup {MinLeaf}
    BY <1>1, <1>2
  <2>3. Putting(t)' => new_leaf'[t] = Target(t)'
    BY <1>1, <1>5, <2>1 DEF m
  <2>4. pred'[t].value.next_leaf = new_leaf'[t]
    BY <1>1
  <2>5. PlaceInv(t)'
    BY <1>1, <2>1, <2>2, <2>3, <2>4 DEF PlaceInv
  <2> QED BY <1>3, <2>5 DEF SplitInv
<1>17. ASSUME NEW u \in Threads \ {t}, Splitting(u), Above(Last(path[u]).name, m) PROVE Upto(new_leaf[u], m)
  <2> DEFINE e == Last(path[u]).name
             a == new_leaf[u]
             pu == pred[u].name
  <2>1. /\ pred[u].value.next_leaf = e /\ a \in Listed /\ Above(e, a)
        /\ \A y \in Listed : Above(e, y) => Upto(a, y)
    BY <1>17 DEF OrderInv, SplitInv
  <2>2. WithPred(u) /\ Locking(u)
    BY <1>17 DEF Splitting, WithPred, Locking
  <2>3. pu \in Trie \cup {MinLeaf} /\ nodes[pu].value = pred[u].value /\ nodes[pu].lock = u /\ pred[u].value.type = "LEAF"
    BY <2>2, WriterPlace
  <2>4. e \in TreeNames
    BY <2>2, WriterEnd
  <2>5. pu \in Listed \cup {MinLeaf} /\ pu # pn
    <3>1. pu # pn
      BY <1>2, <2>3 DEF pn
    <3> QED BY <2>3, <3>1, ListedPart
  <2>6. Prior(pu, e) /\ \A y \in Listed : Prior(pu, y) => Upto(e, y)
    <3>1. NextInv(pu) /\ nodes[pu].value.next_leaf = e /\ e # NULL
      BY <1>6, <2>1, <2>3, <2>4, <2>5 DEF OrderInv, ListInv
    <3> QED BY <3>1 DEF NextInv
  <2> HIDE DEF e, a, pu
  <2>7. Above(e, m) /\ a \in TreeNames
    BY <1>6, <1>17, <2>1 DEF e
  <2>8. Prior(pu, m)
    <3>1. CASE pu = MinLeaf
      BY <3>1 DEF Prior
    <3>2. CASE pu # MinLeaf
      <4>1. Before(pu, e) /\ pu \in TreeNames
        BY <1>6, <2>5, <2>6, <3>2 DEF Prior
      <4> QED BY <1>4, <2>4, <2>7, <4>1, NamesOrder DEF Prior
    <3> QED BY <3>1, <3>2
  <2>9. pn \in Listed /\ pn # MinLeaf /\ Prior(pu, pn)
    BY <1>9, <2>5, <2>8
  <2>10. Upto(e, pn) /\ Before(pn, m) /\ pn \in TreeNames
    BY <1>5, <1>6, <2>6, <2>9 DEF Prior
  <2>11. CASE Above(e, pn)
    <3>1. Upto(a, pn) /\ Upto(pn, m)
      BY <2>1, <2>9, <2>10, <2>11 DEF Upto
    <3>2. Upto(a, m)
      BY <1>4, <2>7, <2>10, <3>1, UptoOrder
    <3> QED BY <3>2 DEF a
  <2>12. CASE Before(e, pn)
    <3>1. Before(m, pn)
      BY <1>4, <2>4, <2>7, <2>10, <2>12, NamesOrder
    <3> QED BY <1>4, <2>10, <3>1, NamesOrder
  <2> QED BY <2>10, <2>11, <2>12 DEF Upto
<1>18. ASSUME NEW u \in Threads PROVE PlaceInv(u)' /\ SplitInv(u)'
  <2>1. CASE u = t
    BY <1>16, <2>1
  <2>2. CASE u # t
    <3>1. \A y \in Listed' \ Listed : Splitting(u) /\ Above(Last(path[u]).name, y) => Upto(new_leaf[u], y)
      BY <1>8, <1>17, <2>2
    <3> QED BY <1>1, <2>2, <3>1, OthersKnow
  <2> QED BY <2>1, <2>2
<1> QED BY <1>1, <1>14, <1>15, <1>18 DEF OrderInv

(* The two leaves of a split are linked: the list goes on from the         *)
(* predecessor to the first of them.                                       *)
LEMMA LinkTwoOrder ==
  ASSUME IInv, IInv', OrderInv, NEW t \in Threads, Step(t), LinkLeaves(t), call[t].ret # Pending
  PROVE  OrderInv'
<1> DEFINE pn == pred[t].name
           e == Last(path[t]).name
           a == new_leaf[t]
<1>1. /\ pc[t] = "link" /\ WithPred(t) /\ WithPred(t)' /\ Locking(t) /\ Frame(t) /\ NodeFrame(t) /\ pn \in Listed \cup {MinLeaf}
      /\ UNCHANGED <<is_empty, calls, call, path, subtree, new_leaf, iter, index, cursor>>
      /\ pc'[t] = "propagate" /\ level'[t] = Len(path[t])
      /\ pred'[t].name = pn /\ pred'[t].value.next_leaf = new_leaf[t] /\ pred'[t].value.dirty
      /\ nodes'[pn].value.next_leaf = new_leaf[t] /\ nodes'[pn].value.type = "LEAF" /\ new_leaf[t] \in TreeNames
      /\ \A n \in Names \ {pn} : nodes'[n] = nodes[n]
      /\ \A n \in Names : /\ nodes'[n].value = Unused <=> nodes[n].value = Unused
                          /\ nodes'[n].value.type = nodes[n].value.type
      /\ Hidden(t)' = Hidden(t) /\ Trie' = Trie /\ DirtyInv'
  BY Linked
<1>2. /\ pn \in Names /\ nodes[pn].value = pred[t].value /\ nodes[pn].lock = t
      /\ pn \in Trie \cup {MinLeaf} /\ path[t][1].name = Root
  BY <1>1, WriterPlace
<1>3. Splitting(t) /\ ~Splitting(t)' /\ Hidden(t) = {}
  BY <1>1 DEF Splitting, Hidden, Putting
<1>4. /\ pred[t].value.next_leaf = e /\ a \in Listed /\ Above(e, a)
      /\ \A y \in Listed : Above(e, y) => Upto(a, y)
  BY <1>3 DEF OrderInv, SplitInv
<1>5. e \in TreeNames /\ Listed \subseteq TreeNames /\ MinLeaf \notin TreeNames /\ NULL \notin TreeNames
  BY <1>1, WriterEnd, ListedPart, NullIsNoName
<1>6. Listed' = Listed
  <2>1. \A u \in Threads : Hidden(u)' = Hidden(u) /\ (Hidden(u) # {} => (pc'[u] = "mark" <=> pc[u] = "mark"))
    <3>1. TAKE u \in Threads
    <3>2. CASE u = t
      BY <1>1, <1>3, <3>2
    <3>3. CASE u # t
      <4>1. Same(u)
        BY <1>1, <3>3 DEF Frame
      <4> QED BY <4>1, HiddenKeeps DEF Same
    <3> QED BY <3>2, <3>3
  <2>2. \A n \in TreeNames : /\ nodes'[n].value = Unused <=> nodes[n].value = Unused
                             /\ nodes'[n].value.type = "LEAF" <=> nodes[n].value.type = "LEAF"
    BY <1>1, TrieNames
  <2> QED BY <2>1, <2>2, ListedSame
<1>7. Prior(pn, e) /\ \A y \in Listed : Prior(pn, y) => Upto(e, y)
  <2>1. NextInv(pn) /\ nodes[pn].value.next_leaf = e /\ e # NULL
    BY <1>1, <1>2, <1>4, <1>5 DEF OrderInv, ListInv
  <2> QED BY <2>1 DEF NextInv
<1> HIDE DEF pn, e, a
<1>8. Prior(pn, a) /\ a \in TreeNames
  <2>1. CASE pn = MinLeaf
    BY <1>4, <1>5, <2>1 DEF Prior
  <2>2. CASE pn # MinLeaf
    <3>1. Before(pn, e) /\ pn \in TreeNames /\ a \in TreeNames
      BY <1>1, <1>4, <1>5, <1>7, <2>2 DEF Prior, pn
    <3> QED BY <1>4, <1>5, <3>1, NamesOrder DEF Prior
  <2> QED BY <2>1, <2>2
<1>9. \A y \in Listed : Prior(pn, y) => Upto(a, y)
  <2> SUFFICES ASSUME NEW y \in Listed, Prior(pn, y) PROVE Upto(a, y)
    OBVIOUS
  <2>1. Upto(e, y) /\ y \in TreeNames
    BY <1>5, <1>7
  <2>2. CASE Above(e, y)
    BY <1>4, <2>2
  <2>3. CASE Before(e, y)
    BY <1>4, <1>5, <1>8, <2>1, <2>3, NamesOrder DEF Upto
  <2> QED BY <2>1, <2>2, <2>3 DEF Upto
<1>10. ListInv'
  <2> SUFFICES ASSUME NEW n \in Listed \cup {MinLeaf} PROVE NextInv(n)'
    BY <1>6 DEF ListInv
  <2>1. CASE n = pn
    <3>1. nodes'[n].value.next_leaf = a /\ a # NULL /\ a \in Listed'
      BY <1>1, <1>4, <1>5, <1>6, <1>8, <2>1 DEF a, pn
    <3> QED BY <1>6, <1>8, <1>9, <2>1, <3>1 DEF NextInv
  <2>2. CASE n # pn
    <3> DEFINE v == nodes[n].value.next_leaf
    <3>1. n \in Names
      BY <1>5, TrieNames
    <3>2. nodes'[n].value.next_leaf = v
      BY <1>1, <2>2, <3>1 DEF pn
    <3>3. NextInv(n)
      BY DEF OrderInv, ListInv
    <3> HIDE DEF v
    <3>4. ASSUME NEW u \in Threads, Splitting(u), Last(path[u]).name = v, pred[u].name = n
          PROVE  Splitting(u)' /\ Last(path'[u]).name = v /\ pred'[u].name = n
      <4>1. u # t
        BY <2>2, <3>4 DEF pn
      <4>2. Same(u)
        BY <1>1, <4>1 DEF Frame
      <4>3. Splitting(u)'
        BY <3>4, <4>2, SameNames
      <4> QED BY <3>4, <4>2, <4>3 DEF Same
    <3>5. CASE v = NULL
      BY <1>6, <3>2, <3>3, <3>5 DEF NextInv, v
    <3>6. CASE v # NULL
      <4>1. /\ Prior(n, v) /\ \A y \in Listed' : Prior(n, y) => Upto(v, y)
            /\ v \in Listed \/ \E u \in Threads : Splitting(u) /\ Last(path[u]).name = v /\ pred[u].name = n
        BY <1>6, <3>3, <3>6 DEF NextInv, v
      <4>2. v \in Listed' \/ \E u \in Threads : Splitting(u)' /\ Last(path'[u]).name = v /\ pred'[u].name = n
        BY <1>6, <3>4, <4>1
      <4> QED BY <3>2, <3>6, <4>1, <4>2 DEF NextInv
    <3> QED BY <3>5, <3>6
  <2> QED BY <2>1, <2>2
<1>11. MaxInv'
  <2>1. \A q \in Trie : /\ nodes'[q].value.type = nodes[q].value.type
                        /\ nodes[q].value.type \in {"BITMAP", "JUMP"} => nodes'[q].value.max_leaf = nodes[q].value.max_leaf
    BY <1>1, TrieNames DEF pn
  <2>2. ASSUME NEW q \in Trie, Stale(t, q) PROVE Stale(t, q)'
    <3>1. Level(t)' = Level(t)
      BY <1>1 DEF Level
    <3>2. nodes[q].value.type \in {"BITMAP", "JUMP"}
      <4>1. nodes[q].value.max_leaf \in {pred[t].name, Last(path[t]).name}
        BY <2>2 DEF Stale
      <4>2. PICK j \in 1..(Level(t) - 1) : path[t][j].name = q
        BY <2>2 DEF Stale
      <4>3. Level(t) = Len(path[t]) /\ Trie \in SUBSET TreeNames
        BY <1>1, TrieNames DEF Level
      <4>4. PathOK(nodes, Trie, KeyOf(t), path[t]) /\ Len(path[t]) \in Nat
        BY <1>1, WriterEnd
      <4>5. j \in Nat /\ j >= 1 /\ j < Len(path[t])
        BY <4>2, <4>3, <4>4
      <4>6. path[t][j].value.type \in {"BITMAP", "JUMP"}
        BY <4>3, <4>4, <4>5, PathStep
      <4>7. PICK k \in 1..(Level(t) - 1) : k \in LockPositions(path[t]) /\ k \in 1..Len(path[t]) /\ path[t][k].name = q
        BY <2>2, StaleLocked
      <4>8. k \in Nat /\ k >= 1 /\ k < Len(path[t])
        BY <4>3, <4>4, <4>7
      <4>9. path[t][k].value.type \in {"BITMAP", "JUMP"}
        BY <4>3, <4>4, <4>8, PathStep
      <4>10. Owns(nodes, t, path[t][k])
        BY <1>1, <4>7, WriterEnd
      <4>11. nodes[q].value = path[t][k].value
        BY <4>7, <4>10 DEF Owns
      <4> QED BY <4>9, <4>11
    <3>3. nodes'[q].value.max_leaf = nodes[q].value.max_leaf
      BY <2>1, <3>2
    <3>4. pred'[t].name = pred[t].name /\ path'[t] = path[t] /\ pc'[t] = "propagate"
      BY <1>1 DEF pn
    <3> QED BY <2>2, <3>1, <3>3, <3>4 DEF Stale
  <2> QED BY <1>1, <2>1, <2>2, MaxKept
<1>12. ASSUME NEW u \in Threads PROVE PlaceInv(u)' /\ SplitInv(u)'
  <2>1. CASE u = t
    BY <1>1, <1>2, <2>1, AfterLink
  <2>2. CASE u # t
    <3>1. \A y \in Listed' \ Listed : Splitting(u) /\ Above(Last(path[u]).name, y) => Upto(new_leaf[u], y)
      BY <1>6
    <3> QED BY <1>1, <2>2, <3>1, OthersKnow
  <2> QED BY <2>1, <2>2
<1> QED BY <1>1, <1>10, <1>11, <1>12 DEF OrderInv

-----------------------------------------------------------------------------
(* Writing the end of the path. *)

(* What the write of the last node on the path does to the trie, and whose *)
(* max_leaf is outdated then.                                              *)
LEMMA EndWritten ==
  ASSUME IInv, IInv', OrderInv, NEW t \in Threads, pc[t] \in {"head", "mark"}, pc'[t] \in {"link", "propagate"},
         call[t].ret = Pending, Frame(t), NEW v, v.type \in {"BITMAP", "JUMP"}, WritePathEnd(t, v),
         pc'[t] = "propagate" => level'[t] = Len(path[t])
  PROVE  LET e == Last(path[t]).name
             n == Len(path[t])
         IN  /\ SharedInv /\ ThreadInv(t) /\ Locking(t) /\ WithPred(t) /\ WithPred(t)' /\ ~Splitting(t)
             /\ e \in Trie /\ e \in TreeNames /\ nodes[e].lock = t /\ nodes[e].value = Last(path[t]).value
             /\ UNCHANGED <<is_empty, calls, subtree, pred, new_leaf, iter, cursor>>
             /\ NodeFrame(t) /\ nodes'[e].value = v /\ nodes'[e].lock = t /\ \A m \in Names \ {e} : nodes'[m] = nodes[m]
             /\ Len(path'[t]) = n /\ path'[t][1].name = Root /\ Last(path'[t]).name = e /\ call'[t].ret # Pending
             /\ Hidden(t)' = {} /\ Trie' = Trie \cup Hidden(t) /\ Hidden(t) \cap Trie = {} /\ DirtyInv'
             /\ \A u \in Threads : \A q \in Trie : Stale(u, q) => q # e /\ Stale(u, q)'
             /\ \A q \in Trie : /\ Above(q, e) /\ q # e /\ \A z \in Trie : Above(q, z) => ~Before(e, z)
                                /\ nodes[q].value.max_leaf \in {pred[t].name, e}
                                => Stale(t, q)'
<1> DEFINE p == path[t]
           n == Len(p)
           e == Last(p).name
<1>1. SharedInv /\ DomainInv /\ ThreadInv(t) /\ Locking(t) /\ WithPred(t) /\ ~Splitting(t) /\ Trie \in SUBSET TreeNames
  BY TrieNames DEF IInv, SharedInv, Locking, WithPred, Splitting
<1>2. /\ nodes' = WriteNode(nodes, e, v)
      /\ path'[t] = Append(Front(p), Updated(Last(p), v))
      /\ call' = [call EXCEPT ![t].ret = PutResult(t)]
      /\ UNCHANGED <<is_empty, calls, subtree, pred, new_leaf, iter, cursor>>
  BY <1>1 DEF WritePathEnd, Effect, update_entry, DomainInv
<1>3. /\ PathOK(nodes, Trie, KeyOf(t), p) /\ p \in Seq(Copies) /\ n > 0 /\ n \in Nat /\ Last(p) = p[n]
      /\ \A k \in LockPositions(p) : Owns(nodes, t, p[k]) /\ k \in 1..n
      /\ e \in Trie /\ e \in TreeNames /\ e \in Names /\ nodes[e].lock = t /\ nodes[e].value = Last(p).value
  BY <1>1, WriterEnd
<1>4. call'[t].ret # Pending
  <2>1. DomainInv /\ CallInv(t) /\ pc[t] # "idle"
    BY <1>1 DEF ThreadInv
  <2>2. call'[t].ret = PutResult(t)
    BY <1>2, <2>1, SetsResult
  <2> QED BY <2>2, PutResults
<1>5. v \in NodeValues /\ v # Unused
  <2>1. nodes'[e].value = v
    BY <1>1, <1>2, <1>3 DEF WriteNode, SharedInv, NodesOK, NodeMaps
  <2>2. Fits(e, nodes'[e].value)
    BY <1>3 DEF IInv, SharedInv, NodesOK
  <2> QED BY <2>1, <2>2, FitsIsValue DEF Unused
<1>6. /\ Updated(Last(p), v) \in Copies /\ Updated(Last(p), v).name = e /\ Updated(Last(p), v).value = v
  <2>1. Last(p) \in Copies
    BY <1>3, LastOf
  <2>2. nodes[e].seq \in Nat
    BY <1>1, <1>3, NodeIs DEF SharedInv, NodesOK
  <2> QED BY <1>3, <1>5, <2>1, <2>2, UpdatedCopy DEF Copies
<1>7. /\ Len(path'[t]) = n /\ Last(path'[t]).name = e /\ path'[t][n].name = p[n].name
      /\ \A i \in 1..(n - 1) : path'[t][i] = p[i]
  <2> DEFINE x == Updated(Last(p), v)
  <2> HIDE DEF x
  <2>1. path'[t] = Append(Front(p), x) /\ x \in Copies /\ x.name = e
    BY <1>2, <1>6 DEF x
  <2> QED BY <1>3, <2>1, ReplaceLast
<1>8. \A i \in 1..n : path'[t][i].name = p[i].name
  <2> TAKE i \in 1..n
  <2>1. CASE i = n
    BY <1>7, <2>1
  <2>2. CASE i # n
    <3>1. i \in 1..(n - 1)
      BY <1>3, <2>2
    <3> QED BY <1>7, <3>1
  <2> QED BY <2>1, <2>2
<1>9. p[1].name = Root /\ pred[t].value.dirty
  BY <1>1, WriterPlace
<1> HIDE DEF p, n, e
<1>10. NodeFrame(t) /\ nodes'[e].value = v /\ nodes'[e].lock = t /\ \A m \in Names \ {e} : nodes'[m] = nodes[m]
  BY <1>2, <1>3, <1>5, OneWrite
<1>11. WithPred(t)' /\ Hidden(t)' = {} /\ pred'[t] = pred[t]
  BY <1>2, <1>4 DEF WithPred, Hidden, Putting
<1>12. nodes[e].value # Unused /\ nodes[e].value.type \in {"LEAF", "BITMAP"} /\ nodes[e].value.type # "UNUSED"
  <2>1. EndInv(t)
    BY <1>1 DEF ThreadInv
  <2>2. nodes[e].value.type \in {"LEAF", "BITMAP"}
    BY <1>1, <1>3, <2>1 DEF EndInv, p, e
  <2> QED BY <2>2 DEF Unused
<1>13. Trie' = Trie \cup Hidden(t) /\ Hidden(t) \cap Trie = {}
  <2>1. \A m \in TreeNames : nodes'[m].value = Unused <=> nodes[m].value = Unused
    BY <1>5, <1>10, <1>12, TrieNames
  <2>2. \A u \in Threads \ {t} : Hidden(u)' = Hidden(u)
    BY HiddenKeeps DEF Frame
  <2>3. \A m \in Hidden(t) : m \in TreeNames /\ nodes[m].value # Unused /\ nodes[m].lock = t
    BY <1>1 DEF ThreadInv, HiddenInv
  <2>4. \A u \in Threads : \A m \in Hidden(u) : nodes[m].lock = u
    BY DEF IInv, ThreadInv, HiddenInv
  <2>5. \A u \in Threads \ {t} : \A m \in Hidden(t) : m \notin Hidden(u)
    BY <2>3, <2>4
  <2>6. \A m : m \in Trie' <=> m \in TreeNames /\ nodes'[m].value # Unused /\ \A u \in Threads : m \notin Hidden(u)'
    BY InTrie
  <2>7. \A m : m \in Trie <=> m \in TreeNames /\ nodes[m].value # Unused /\ \A u \in Threads : m \notin Hidden(u)
    BY InTrie
  <2>8. ASSUME NEW m \in Trie' PROVE m \in Trie \cup Hidden(t)
    <3>1. m \in TreeNames /\ nodes[m].value # Unused /\ \A u \in Threads \ {t} : m \notin Hidden(u)
      BY <2>1, <2>2, <2>6, <2>8
    <3> QED BY <2>7, <3>1
  <2>9. ASSUME NEW m \in Trie \cup Hidden(t) PROVE m \in Trie'
    <3>1. m \in TreeNames /\ nodes[m].value # Unused /\ \A u \in Threads \ {t} : m \notin Hidden(u)
      BY <2>3, <2>5, <2>7
    <3>2. \A u \in Threads : m \notin Hidden(u)'
      BY <1>11, <2>2, <3>1
    <3> QED BY <2>1, <2>6, <3>1, <3>2
  <2> QED BY <2>7, <2>8, <2>9
<1>14. DirtyInv'
  <2>1. WithPred(t)' => pred'[t].value.dirty
    BY <1>9, <1>11
  <2>2. \A m \in Names : nodes'[m].value.type = "LEAF" /\ nodes'[m].value.dirty =>
           \/ nodes[m].value.type = "LEAF" /\ nodes[m].value.dirty /\ (WithPred(t) => pred[t].name # m)
           \/ WithPred(t)' /\ pred'[t].name = m
    <3> TAKE m \in Names
    <3>1. CASE m = e
      BY <1>10, <3>1
    <3>2. CASE m # e
      BY <1>10, <1>11, <3>2
    <3> QED BY <3>1, <3>2
  <2> QED BY <2>1, <2>2, DirtyKept
<1>15. ASSUME NEW u \in Threads, NEW q \in Trie, Stale(u, q) PROVE q # e /\ Stale(u, q)'
  <2>1. u # t
    BY <1>15 DEF Stale, Splitting
  <2>2. q # e
    BY <1>3, <1>15, <2>1, StaleLocked
  <2>3. nodes'[q] = nodes[q]
    BY <1>10, <2>2, TrieNames
  <2>4. Same(u)
    BY <2>1 DEF Frame
  <2>5. (Splitting(u)' <=> Splitting(u)) /\ Level(u)' = Level(u)
    BY <2>4, SameNames
  <2> QED BY <1>15, <2>2, <2>3, <2>4, <2>5 DEF Stale, Same
<1>16. ASSUME NEW q \in Trie, Above(q, e), q # e, \A z \in Trie : Above(q, z) => ~Before(e, z),
              nodes[q].value.max_leaf \in {pred[t].name, e}
       PROVE  Stale(t, q)'
  <2>1. PICK j \in 1..(n - 1) : Rightmost(p, j, n) /\ p[j].name = q
    BY <1>1, <1>9, <1>16, Climb DEF p, n, e
  <2>2. Level(t)' = n
    BY <1>7 DEF Level, n, p
  <2>3. ASSUME NEW m \in j..(n - 1)
        PROVE  path'[t][m].value.type = "JUMP" \/ last_symbol(path'[t][m + 1]) = max_child(path'[t][m].value)
    <3>1. m \in 1..(n - 1) /\ m + 1 \in 1..n
      BY <1>3, <2>1, <2>3 DEF n
    <3>2. path'[t][m] = p[m] /\ path'[t][m + 1].name = p[m + 1].name
      BY <1>7, <1>8, <3>1
    <3>3. p[m].value.type = "JUMP" \/ last_symbol(p[m + 1]) = max_child(p[m].value)
      BY <2>1, <2>3 DEF Rightmost
    <3> QED BY <3>2, <3>3 DEF last_symbol
  <2>4. Rightmost(path'[t], j, n)
    BY <2>3 DEF Rightmost
  <2>5. path'[t][j].name = q
    BY <1>7, <2>1
  <2>6. nodes'[q].value.max_leaf \in {pred'[t].name, Last(path'[t]).name}
    BY <1>7, <1>10, <1>11, <1>16, TrieNames
  <2>7. Splitting(t)' \/ pc'[t] = "propagate"
    BY <1>4 DEF Splitting
  <2> QED BY <2>1, <2>2, <2>4, <2>5, <2>6, <2>7 DEF Stale
<1>17. path'[t][1].name = Root
  BY <1>3, <1>8, <1>9 DEF n
<1> QED BY <1>1, <1>2, <1>3, <1>4, <1>7, <1>10, <1>11, <1>13, <1>14, <1>15, <1>16, <1>17 DEF p, n, e

(* The value of a bitmap with one more child.                              *)
LEMMA MarkedPart ==
  ASSUME NEW value \in BitmapValues, NEW s \in Nat, NEW m
  PROVE  LET v == MarkedBitmap(value, s, m)
         IN  /\ v.type = "BITMAP" /\ v.children = value.children \cup {s}
             /\ v.max_leaf = IF max_child(value) < s THEN m ELSE value.max_leaf
BY DEF MarkedBitmap, Bitmap

(* The bitmap node gets its new child: the leaf may be the largest below   *)
(* it, and below the nodes above it whose largest leaf was the             *)
(* predecessor.                                                            *)
LEMMA MarkOrder ==
  ASSUME IInv, IInv', OrderInv, NEW t \in Threads, Step(t), mark_bitmap_child(t)
  PROVE  OrderInv'
<1> DEFINE p == path[t]
           c == Last(p)
           e == c.name
           m == Target(t)
           s == NextSymbol(t)
           pn == pred[t].name
           v == MarkedBitmap(c.value, s, m)
<1>1. /\ pc[t] = "mark" /\ pc'[t] = "propagate" /\ level'[t] = Len(p) /\ Frame(t) /\ Putting(t) /\ call[t].ret = Pending
      /\ SharedInv /\ Placing(t) = FALSE
  <2>1. DomainInv /\ SharedInv /\ ThreadInv(t) /\ pc[t] = "mark"
    BY DEF IInv, SharedInv, mark_bitmap_child
  <2>2. call[t].ret = Pending
    BY <2>1 DEF ThreadInv, CallInv
  <2> QED BY <2>1, <2>2, FrameStep DEF mark_bitmap_child, DomainInv, Putting, Placing
<1>2. /\ new_leaf[t] = m /\ pred[t].value.next_leaf = m /\ pn \in Trie \cup {MinLeaf}
  BY <1>1 DEF OrderInv, PlaceInv, WithPred
<1>3. WritePathEnd(t, v)
  BY <1>1, <1>2 DEF mark_bitmap_child
<1>4. /\ Locking(t) /\ WithPred(t) /\ c.value.type = "BITMAP" /\ Hidden(t) = {m} /\ nodes[m].value.type = "LEAF"
      /\ nodes[m].lock = t /\ m \in TreeNames
  BY <1>1, MarkPart
<1>5. /\ m \notin Trie /\ Above(e, m) /\ m # e /\ e \in Trie /\ e \in TreeNames /\ e \in Names
      /\ nodes[e].lock = t /\ nodes[e].value = c.value /\ m = Append(e, s) /\ s \in Nat
      /\ \A b \in Below(e, c.value) : ~Above(b, m) /\ ~Above(m, b)
      /\ \A y \in Trie : ~Above(m, y)
      /\ Fits(e, c.value) /\ path[t][1].name = Root
  BY <1>1, <1>4, FreeChild, WriterEnd, WriterPlace
<1>6. /\ v.type = "BITMAP" /\ v.max_leaf = IF max_child(c.value) < s THEN m ELSE c.value.max_leaf
  BY <1>4, <1>5, Kinds, MarkedPart DEF IsBitmap
<1> HIDE DEF v, s, m
<1>7. /\ UNCHANGED <<is_empty, calls, subtree, pred, new_leaf, iter, cursor>>
      /\ NodeFrame(t) /\ nodes'[e].value = v /\ \A n \in Names \ {e} : nodes'[n] = nodes[n]
      /\ path'[t][1].name = Root /\ Last(path'[t]).name = e
      /\ Hidden(t)' = {} /\ Trie' = Trie \cup Hidden(t) /\ DirtyInv'
      /\ \A u \in Threads : \A q \in Trie : Stale(u, q) => q # e /\ Stale(u, q)'
      /\ \A q \in Trie : /\ Above(q, e) /\ q # e /\ \A z \in Trie : Above(q, z) => ~Before(e, z)
                         /\ nodes[q].value.max_leaf \in {pred[t].name, e}
                         => Stale(t, q)'
  BY <1>1, <1>3, <1>6, EndWritten
<1>8. Trie' = Trie \cup {m}
  BY <1>4, <1>7
<1>9. Listed' = Listed
  <2>1. \A n \in TreeNames : /\ nodes'[n].value = Unused <=> nodes[n].value = Unused
                             /\ nodes'[n].value.type = "LEAF" <=> nodes[n].value.type = "LEAF"
    <3>1. v # Unused /\ nodes[e].value # Unused /\ nodes[e].value.type # "LEAF" /\ v.type # "LEAF"
      BY <1>4, <1>5, <1>6 DEF Unused
    <3> TAKE n \in TreeNames
    <3>2. CASE n = e
      BY <1>7, <3>1, <3>2
    <3>3. CASE n # e
      BY <1>7, <3>3, TrieNames
    <3> QED BY <3>2, <3>3
  <2>2. \A u \in Threads \ {t} : Hidden(u)' = Hidden(u) /\ pc'[u] = pc[u]
    BY <1>1, HiddenKeeps DEF Frame, Same
  <2>3. \A n : n \in Listed <=> n \in TreeNames /\ nodes[n].value # Unused /\ nodes[n].value.type = "LEAF"
                                /\ \A u \in Threads : n \in Hidden(u) => pc[u] = "mark"
    BY DEF Listed, Used
  <2>4. \A n : n \in Listed' <=> n \in TreeNames /\ nodes'[n].value # Unused /\ nodes'[n].value.type = "LEAF"
                                 /\ \A u \in Threads : n \in Hidden(u)' => pc'[u] = "mark"
    BY DEF Listed, Used
  <2>5. \A n : (\A u \in Threads : n \in Hidden(u)' => pc'[u] = "mark") <=> (\A u \in Threads : n \in Hidden(u) => pc[u] = "mark")
    BY <1>1, <1>7, <2>2
  <2> QED BY <2>1, <2>3, <2>4, <2>5
<1>10. m \in Listed /\ Listed \subseteq TreeNames
  BY <1>1, ListedPart DEF m
<1>11. ListInv'
  <2>1. \A n \in Listed \cup {MinLeaf} : nodes'[n].value.next_leaf = nodes[n].value.next_leaf
    <3>1. \A n \in Listed : n \in Names /\ nodes[n].value.type = "LEAF"
      BY ListedPart, TrieNames
    <3>2. MinLeaf # e /\ MinLeaf \in Names /\ nodes[e].value.type # "LEAF"
      BY <1>4, <1>5, NullIsNoName, TrieNames
    <3> QED BY <1>7, <3>1, <3>2
  <2>2. ~Splitting(t)
    BY <1>1 DEF Splitting
  <2> QED BY <1>1, <1>9, <2>1, <2>2, ListKept
<1>12. /\ Prior(pn, m) /\ \A y \in Listed : Prior(pn, y) => Upto(m, y)
  <2>1. pn \in Listed \cup {MinLeaf}
    <3>1. nodes[pn].value.type = "LEAF"
      BY <1>4, WriterPlace
    <3> QED BY <1>2, <3>1, ListedPart
  <2>2. NextInv(pn) /\ nodes[pn].value.next_leaf = m /\ m # NULL
    BY <1>2, <1>4, <2>1, WriterPlace, NullIsNoName DEF OrderInv, ListInv
  <2> QED BY <2>2 DEF NextInv
<1>13. MaxInv'
  <2> SUFFICES ASSUME NEW q \in Trie', nodes'[q].value.type \in {"BITMAP", "JUMP"}
               PROVE  MaxRight(q)' \/ \E u \in Threads : Stale(u, q)'
    BY DEF MaxInv
  <2>1. nodes'[m].value.type = "LEAF" /\ m \in Names
    BY <1>4, <1>5, <1>7, TrieNames
  <2>2. q \in Trie /\ q \in TreeNames /\ q \in Names
    BY <1>8, <2>1, TrieNames
  <2>3. MaxRight(q) \/ \E u \in Threads \ {t} : Stale(u, q)
    <3>1. nodes[q].value.type \in {"BITMAP", "JUMP"}
      BY <1>4, <1>5, <1>7, <2>2
    <3>2. ~Stale(t, q)
      BY <1>1 DEF Stale, Splitting
    <3> QED BY <2>2, <3>1, <3>2 DEF OrderInv, MaxInv
  <2>4. CASE \E u \in Threads \ {t} : Stale(u, q)
    BY <1>7, <2>2, <2>4
  <2>5. CASE MaxRight(q)
    <3> DEFINE l == nodes[q].value.max_leaf
    <3>1. /\ l \in Trie /\ nodes[l].value.type = "LEAF" /\ Above(q, l) /\ \A x \in Trie : Above(q, x) => Upto(x, l)
      BY <2>5 DEF MaxRight
    <3>2. l \in TreeNames /\ l # e /\ nodes'[l].value.type = "LEAF" /\ l \in Trie' /\ l \in Listed
      BY <1>4, <1>5, <1>7, <1>8, <3>1, TrieNames, ListedPart
    <3> HIDE DEF l
    <3>3. Before(m, l) \/ ~Above(q, m) => \A x \in Trie' : Above(q, x) => Upto(x, l)
      BY <1>8, <3>1 DEF Upto
    <3>4. CASE q = e
      <4>1. /\ c.value.children \subseteq Nat /\ max_child(c.value) \in c.value.children /\ \A r \in c.value.children : r <= max_child(c.value)
            /\ \A r \in c.value.children : Append(e, r) \in Below(e, c.value)
            /\ \A b \in Below(e, c.value) : \E r \in c.value.children : b = Append(e, r)
        BY <1>4, <1>5, LargestChild
      <4>2. s \notin c.value.children /\ e \in Seq(Nat)
        <5>1. m \notin Below(e, c.value)
          BY <1>4, <1>5, NamesOrder
        <5> QED BY <1>5, <4>1, <5>1, NamesOfTree
      <4>3. Below(e, c.value) \subseteq Trie
        BY <1>1, <1>5, TrieChildren
      <4>4. CASE max_child(c.value) < s
        <5>1. nodes'[e].value.max_leaf = m
          BY <1>6, <1>7, <4>4
        <5>2. ASSUME NEW x \in Trie', Above(e, x) PROVE Upto(x, m)
          <6>1. CASE x = m
            BY <1>4, <6>1, NamesOrder DEF Upto
          <6>2. CASE x = e
            BY <1>5, <6>2 DEF Upto
          <6>3. CASE x # m /\ x # e
            <7>1. PICK b \in Below(e, c.value) : Above(b, x) /\ b \in TreeNames
              BY <1>1, <1>5, <1>8, <5>2, <6>3, TrieChildren
            <7>2. PICK r \in c.value.children : b = Append(e, r)
              BY <4>1
            <7>3. r \in Nat /\ r < s
              BY <1>5, <4>1, <4>4
            <7>4. Before(b, m)
              BY <1>5, <4>2, <7>2, <7>3, OrderChildren
            <7>5. Before(x, m)
              BY <1>4, <1>8, <6>3, <7>1, <7>4, NamesOrder, TrieNames
            <7> QED BY <7>5 DEF Upto
          <6> QED BY <6>1, <6>2, <6>3
        <5>3. Above(e, m) /\ m \in Trie'
          BY <1>5, <1>8
        <5> QED BY <2>1, <3>4, <5>1, <5>2, <5>3 DEF MaxRight
      <4>5. CASE ~(max_child(c.value) < s)
        <5>1. nodes'[e].value.max_leaf = l
          BY <1>5, <1>6, <1>7, <3>4, <4>5 DEF l
        <5> DEFINE z == Append(e, max_child(c.value))
        <5>2. z \in Trie /\ z \in TreeNames /\ s < max_child(c.value) /\ max_child(c.value) \in Nat
          BY <1>5, <4>1, <4>2, <4>3, <4>5, TrieNames
        <5>3. Before(m, z)
          BY <1>5, <4>2, <5>2, OrderChildren
        <5>4. Upto(z, l)
          <6>1. Above(e, z)
            BY <1>1, <1>5, <4>1, TrieChildren
          <6> QED BY <3>1, <3>4, <5>2, <6>1
        <5> HIDE DEF z
        <5>5. Before(m, l)
          BY <1>4, <3>2, <5>2, <5>3, <5>4, NamesOrder DEF Upto
        <5> QED BY <1>5, <3>1, <3>2, <3>3, <3>4, <5>1, <5>5 DEF MaxRight
      <4> QED BY <4>4, <4>5
    <3>5. CASE q # e
      <4>1. nodes'[q] = nodes[q] /\ nodes'[q].value.max_leaf = l
        BY <1>7, <2>2, <3>5 DEF l
      <4>2. CASE ~Above(q, m) \/ Before(m, l)
        BY <3>1, <3>2, <3>3, <4>1, <4>2 DEF MaxRight
      <4>3. CASE Above(q, m) /\ ~Before(m, l)
        <5>1. Before(l, m)
          <6>1. l # m
            BY <1>5, <3>1
          <6> QED BY <1>10, <3>2, <4>3, <6>1, ListedOrder
        <5>2. Above(q, e)
          <6>1. Above(q, e) \/ Above(e, q)
            BY <1>4, <1>5, <2>2, <4>3, Comparable
          <6>2. ASSUME Above(e, q) PROVE FALSE
            <7>1. PICK b \in Below(e, c.value) : Above(b, q) /\ b \in TreeNames
              BY <1>1, <1>5, <2>2, <3>5, <6>2, TrieChildren
            <7> QED BY <1>4, <1>5, <2>2, <4>3, <7>1, TreeTrans
          <6> QED BY <6>1, <6>2
        <5>3. ASSUME NEW z \in Trie, Above(q, z), Before(e, z) PROVE FALSE
          <6>1. Before(m, z) /\ z \in TreeNames
            BY <1>4, <1>5, <5>3, NamesOrder, TrieNames
          <6>2. Upto(z, l)
            BY <3>1, <5>3
          <6>3. Before(m, l)
            BY <1>4, <3>2, <6>1, <6>2, NamesOrder DEF Upto
          <6> QED BY <4>3, <6>3
        <5>4. l = pn
          <6>1. ~Prior(pn, l)
            <7>1. Upto(m, l) => FALSE
              BY <1>4, <3>2, <5>1, NamesOrder DEF Upto
            <7> QED BY <1>12, <3>2, <7>1
          <6>2. pn \in Trie /\ pn \in TreeNames /\ nodes[pn].value.type = "LEAF" /\ pn \in Listed /\ pn # MinLeaf
            <7>1. pn # MinLeaf /\ pn \in Trie
              BY <1>2, <6>1 DEF Prior
            <7>2. nodes[pn].value.type = "LEAF"
              BY <1>4, WriterPlace
            <7> QED BY <7>1, <7>2, TrieNames, ListedPart
          <6>3. Before(pn, m)
            BY <1>12, <6>2 DEF Prior
          <6>4. ASSUME Before(l, pn) PROVE FALSE
            <7>1. Above(q, pn)
              BY <1>4, <2>2, <3>1, <3>2, <4>3, <6>2, <6>3, <6>4, NamesOrder
            <7>2. Upto(pn, l)
              BY <3>1, <6>2, <7>1
            <7> QED BY <3>2, <6>2, <6>4, <7>2, NamesOrder DEF Upto
          <6> QED BY <3>2, <6>1, <6>2, <6>4, ListedOrder DEF Prior
        <5>5. Stale(t, q)'
          <6>1. nodes[q].value.max_leaf \in {pred[t].name, e}
            BY <5>4 DEF l
          <6> HIDE DEF e
          <6> QED BY <1>7, <2>2, <3>5, <5>2, <5>3, <6>1
        <5> QED BY <5>5
      <4> QED BY <4>2, <4>3
    <3> QED BY <3>4, <3>5
  <2> QED BY <2>3, <2>4, <2>5
<1>14. ASSUME NEW u \in Threads PROVE PlaceInv(u)' /\ SplitInv(u)'
  <2>1. CASE u = t
    <3>1. pred'[t].name \in Trie' \cup {MinLeaf}
      BY <1>2, <1>7
    <3> QED BY <1>1, <1>7, <2>1, <3>1, AfterLink
  <2>2. CASE u # t
    <3>1. \A y \in Listed' \ Listed : Splitting(u) /\ Above(Last(path[u]).name, y) => Upto(new_leaf[u], y)
      BY <1>9
    <3> QED BY <1>1, <1>7, <2>2, <3>1, OthersKnow
  <2> QED BY <2>1, <2>2
<1> QED BY <1>7, <1>11, <1>13, <1>14 DEF OrderInv

-----------------------------------------------------------------------------
(* Splitting a leaf. *)

(* The order of the names of their leaves is that of the keys: the symbol  *)
(* that ends a key is smaller than the others.                             *)
LEMMA LessIsBefore ==
  ASSUME NEW a \in Seq(Nat \ {0}), NEW b \in Seq(Nat \ {0})
  PROVE  Less(a, b) <=> Before(KeySymbols(a), KeySymbols(b))
<1> DEFINE A == KeySymbols(a)
           B == KeySymbols(b)
<1>1. /\ A \in Seq(Nat) /\ Len(A) = Len(a) + 1 /\ Len(a) \in Nat /\ A[Len(a) + 1] = 0 /\ a \in Seq(Nat)
      /\ \A i \in 1..Len(a) : A[i] = a[i] /\ a[i] # 0
  BY KeyParts
<1>2. /\ B \in Seq(Nat) /\ Len(B) = Len(b) + 1 /\ Len(b) \in Nat /\ B[Len(b) + 1] = 0 /\ b \in Seq(Nat)
      /\ \A i \in 1..Len(b) : B[i] = b[i] /\ b[i] # 0
  BY KeyParts
<1>3. \A i \in 1..Len(a) : a[i] \in Nat
  BY <1>1
<1>4. \A i \in 1..Len(b) : b[i] \in Nat
  BY <1>2
<1> HIDE DEF A, B
<1>7. Len(a) \in Nat /\ Len(b) \in Nat
  BY <1>1, <1>2
<1>5. ASSUME Less(a, b) PROVE Before(A, B)
  <2>1. CASE Len(a) < Len(b) /\ SubSeq(b, 1, Len(a)) = a
    <3>1. \A j \in 1..Len(a) : b[j] = a[j]
      <4>1. \A j \in 1..(Len(a) - 1 + 1) : SubSeq(b, 1, Len(a))[j] = b[1 + j - 1]
        <5>1. 1 <= Len(a) + 1 /\ Len(a) <= Len(b)
          BY <1>7, <2>1
        <5> QED BY <1>2, <1>7, <5>1, SubSeqPart
      <4> TAKE j \in 1..Len(a)
      <4>2. j \in 1..(Len(a) - 1 + 1) /\ 1 + j - 1 = j
        BY <1>7
      <4> QED BY <2>1, <4>1, <4>2
    <3> DEFINE i == Len(a) + 1
    <3>2. i \in 1..Len(A) /\ i <= Len(B) /\ i \in 1..Len(b) /\ i - 1 = Len(a) /\ A[i] = 0
      BY <1>1, <1>2, <2>1, SMTT(30)
    <3> HIDE DEF i
    <3>3. B[i] = b[i] /\ b[i] # 0 /\ b[i] \in Nat
      BY <1>2, <1>4, <3>2
    <3>4. \A j \in 1..(i - 1) : A[j] = B[j]
      <4> TAKE j \in 1..(i - 1)
      <4>1. j \in 1..Len(a) /\ j \in 1..Len(b)
        BY <1>1, <1>2, <2>1, <3>2
      <4> QED BY <1>1, <1>2, <3>1, <4>1
    <3>5. A[i] < B[i]
      BY <3>2, <3>3
    <3> QED BY <3>2, <3>4, <3>5 DEF Before
  <2>2. CASE \E i \in 1..Len(a) : i <= Len(b) /\ SubSeq(a, 1, i - 1) = SubSeq(b, 1, i - 1) /\ a[i] < b[i]
    <3>1. PICK i \in 1..Len(a) : i <= Len(b) /\ SubSeq(a, 1, i - 1) = SubSeq(b, 1, i - 1) /\ a[i] < b[i]
      BY <2>2
    <3>2. i \in 1..Len(A) /\ i <= Len(B) /\ i \in 1..Len(b) /\ i - 1 \in Nat /\ i - 1 <= Len(a) /\ i - 1 <= Len(b)
      BY <1>1, <1>2, <3>1
    <3>3. \A j \in 1..(i - 1) : a[j] = b[j]
      <4>1. \A j \in 1..((i - 1) - 1 + 1) : SubSeq(a, 1, i - 1)[j] = a[1 + j - 1]
        BY <1>1, <3>2, SubSeqPart
      <4>2. \A j \in 1..((i - 1) - 1 + 1) : SubSeq(b, 1, i - 1)[j] = b[1 + j - 1]
        BY <1>2, <3>2, SubSeqPart
      <4> TAKE j \in 1..(i - 1)
      <4>3. j \in 1..((i - 1) - 1 + 1) /\ 1 + j - 1 = j
        BY <3>2
      <4> QED BY <3>1, <4>1, <4>2, <4>3
    <3>4. \A j \in 1..(i - 1) : A[j] = B[j]
      <4> TAKE j \in 1..(i - 1)
      <4>1. j \in 1..Len(a) /\ j \in 1..Len(b)
        BY <1>7, <3>2
      <4> QED BY <1>1, <1>2, <3>3, <4>1
    <3>5. A[i] < B[i]
      BY <1>1, <1>2, <3>1, <3>2
    <3> QED BY <3>2, <3>4, <3>5 DEF Before
  <2> QED BY <1>5, <2>1, <2>2 DEF Less
<1>6. ASSUME Before(A, B) PROVE Less(a, b)
  <2>1. PICK i \in 1..Len(A) : i <= Len(B) /\ A[i] < B[i] /\ \A j \in 1..(i - 1) : A[j] = B[j]
    BY <1>6 DEF Before
  <2>2. i \in 1..Len(b)
    <3>1. ASSUME i = Len(b) + 1 PROVE FALSE
      <4>1. A[i] \in Nat /\ B[i] = 0
        BY <1>1, <1>2, <3>1
      <4> QED BY <2>1, <4>1
    <3> QED BY <1>1, <1>2, <2>1, <3>1
  <2>3. i <= Len(a) + 1 /\ i - 1 \in Nat /\ i - 1 <= Len(a) /\ i - 1 <= Len(b) /\ B[i] = b[i]
    BY <1>1, <1>2, <2>1, <2>2, SMTT(30)
  <2>4. \A j \in 1..(i - 1) : a[j] = b[j]
    <3> TAKE j \in 1..(i - 1)
    <3>1. j \in 1..Len(a) /\ j \in 1..Len(b)
      BY <1>7, <2>3
    <3> QED BY <1>1, <1>2, <2>1, <3>1
  <2>5. SubSeq(a, 1, i - 1) = SubSeq(b, 1, i - 1)
    <3> DEFINE x == SubSeq(a, 1, i - 1)
               y == SubSeq(b, 1, i - 1)
    <3>1. /\ x \in Seq(Nat) /\ Len(x) = (i - 1) - 1 + 1
          /\ \A j \in 1..((i - 1) - 1 + 1) : x[j] = a[1 + j - 1]
      BY <1>1, <2>3, SubSeqPart
    <3>2. /\ y \in Seq(Nat) /\ Len(y) = (i - 1) - 1 + 1
          /\ \A j \in 1..((i - 1) - 1 + 1) : y[j] = b[1 + j - 1]
      BY <1>2, <2>3, SubSeqPart, SMTT(30)
    <3> HIDE DEF x, y
    <3>3. \A j \in 1..Len(x) : x[j] = y[j]
      <4> TAKE j \in 1..Len(x)
      <4>1. j \in 1..(i - 1) /\ 1 + j - 1 = j /\ j \in 1..((i - 1) - 1 + 1)
        BY <2>3, <3>1
      <4> QED BY <2>4, <3>1, <3>2, <4>1
    <3>4. Len(x) = Len(y)
      BY <3>1, <3>2
    <3>5. x = y
      BY <3>1, <3>2, <3>3, <3>4, SameSeq
    <3> QED BY <3>5 DEF x, y
  <2>6. CASE i <= Len(a)
    <3>1. i \in 1..Len(a) /\ A[i] = a[i]
      BY <1>1, <2>2, <2>6, SMTT(30)
    <3>2. i <= Len(b) /\ a[i] < b[i]
      BY <2>1, <2>2, <2>3, <3>1
    <3> QED BY <2>5, <3>1, <3>2 DEF Less
  <2>7. CASE i = Len(a) + 1
    <3>1. i - 1 = Len(a) /\ Len(a) < Len(b)
      BY <1>1, <1>2, <2>2, <2>7
    <3>2. SubSeq(a, 1, Len(a)) = a
      BY <1>1
    <3> QED BY <2>5, <3>1, <3>2 DEF Less
  <2> QED BY <1>1, <2>3, <2>6, <2>7
<1> QED BY <1>5, <1>6 DEF A, B

(* What a leaf is split into: two leaves next to each other, and nodes     *)
(* above both whose largest leaf is the second.                            *)
LEMMA SplitOrder ==
  ASSUME NEW c, NEW new, c.name \in TreeNames, c.value \in LeafValues, c.value.key \in Keys,
         Above(c.name, KeySymbols(c.value.key)), Above(c.name, KeySymbols(new.key)),
         new.key \in Keys, new.value \in Values, new.key # c.value.key
  PROVE  LET a == MinimalLeaf(c.value.key, new.key)
             b == MaximalLeaf(c.value.key, new.key)
             S == SplitNodes(c, new)
         IN  /\ a \in DOMAIN S /\ b \in DOMAIN S /\ Before(a, b) /\ a \in TreeNames /\ b \in TreeNames
             /\ Above(c.name, a) /\ Above(c.name, b)
             /\ S[a].type = "LEAF" /\ S[a].next_leaf = b /\ S[b].type = "LEAF" /\ S[b].next_leaf = c.value.next_leaf
             /\ \A n \in DOMAIN S \ {a, b} : /\ S[n].type \in {"BITMAP", "JUMP"} /\ S[n].max_leaf = b
                                             /\ Above(n, a) /\ Above(n, b) /\ Above(c.name, n) /\ n \in TreeNames
             /\ PathNodes(c, new.key)[c.name].max_leaf = b
             /\ PathNodes(c, new.key)[c.name].type \in {"BITMAP", "JUMP"}
<1> DEFINE k == c.value.key
           h == new.key
           e == c.name
           f == Fork(k, h)
           la == LeafBelow(f, k)
           lb == LeafBelow(f, h)
           a == MinimalLeaf(k, h)
           b == MaximalLeaf(k, h)
           P == PathNodes(c, h)
           L == SplitLeaves(c.value, new)
           S == SplitNodes(c, new)
<1>1. /\ la # lb /\ la \in TreeNames /\ lb \in TreeNames
      /\ Above(la, KeySymbols(k)) /\ Above(lb, KeySymbols(h))
      /\ Above(f, la) /\ Above(f, lb) /\ ~Above(la, lb) /\ ~Above(lb, la)
      /\ {a, b} = {la, lb} /\ a \in {la, lb} /\ b \in {la, lb}
  BY LeavesApart
<1>2. /\ e \in DOMAIN P /\ DOMAIN P \subseteq TreeNames
      /\ \A n \in DOMAIN P : Above(e, n) /\ Above(n, f) /\ P[n].type \in {"BITMAP", "JUMP"}
  BY PathNodesPart
<1>3. Above(e, f) /\ f \in TreeNames
  BY ForkPart
<1>4. k \in Seq(Nat \ {0}) /\ h \in Seq(Nat \ {0}) /\ KeySymbols(k) \in TreeNames /\ KeySymbols(h) \in TreeNames
  BY KeysAreSequences, RootName
<1>5. \A n \in DOMAIN P : P[n].max_leaf = b
  BY DEF PathNodes, Bitmap, Jump
<1>6. DOMAIN L = {a, b} /\ \A n \in {a, b} : L[n].type = "LEAF" /\ L[n].next_leaf = IF n = a THEN b ELSE c.value.next_leaf
  BY DEF SplitLeaves, Leaf
<1>7. DOMAIN S = {a, b} \cup (DOMAIN P \ {e}) /\ \A n \in DOMAIN S : S[n] = IF n \in {a, b} THEN L[n] ELSE P[n]
  BY <1>6 DEF SplitNodes
<1>8. (a = la /\ b = lb /\ Less(k, h)) \/ (a = lb /\ b = la /\ ~Less(k, h))
  BY DEF MinimalLeaf, MaximalLeaf, Smaller, Larger
<1> HIDE DEF la, lb, f, a, b, P, L, S
<1>9. Before(la, lb) \/ Before(lb, la)
  BY <1>1, NamesOrder
<1>10. Before(la, lb) <=> Less(k, h)
  <2>1. ASSUME Before(la, lb) PROVE Less(k, h)
    <3>1. Before(KeySymbols(k), KeySymbols(h))
      BY <1>1, <1>4, <2>1, NamesOrder
    <3> QED BY <1>4, <3>1, LessIsBefore
  <2>2. ASSUME Less(k, h), Before(lb, la) PROVE FALSE
    <3>1. Before(KeySymbols(h), KeySymbols(k))
      BY <1>1, <1>4, <2>2, NamesOrder
    <3>2. Before(KeySymbols(k), KeySymbols(h))
      BY <1>4, <2>2, LessIsBefore
    <3> QED BY <1>4, <3>1, <3>2, NamesOrder
  <2> QED BY <1>9, <2>1, <2>2
<1>11. Before(a, b) /\ a # b /\ a \in TreeNames /\ b \in TreeNames
  BY <1>1, <1>8, <1>9, <1>10
<1>12. /\ Above(f, a) /\ Above(f, b) /\ Above(e, a) /\ Above(e, b)
  BY <1>1, <1>3, <1>11, TreeTrans
<1>13. \A n \in DOMAIN S \ {a, b} : /\ S[n].type \in {"BITMAP", "JUMP"} /\ S[n].max_leaf = b
                                    /\ Above(n, a) /\ Above(n, b) /\ Above(e, n) /\ n \in TreeNames
  <2> TAKE n \in DOMAIN S \ {a, b}
  <2>1. n \in DOMAIN P /\ S[n] = P[n] /\ n \in TreeNames /\ Above(e, n) /\ Above(n, f)
    BY <1>2, <1>7
  <2>2. Above(n, a) /\ Above(n, b)
    BY <1>3, <1>11, <1>12, <2>1, TreeTrans
  <2> QED BY <1>2, <1>5, <2>1, <2>2
<1>14. a \in DOMAIN S /\ b \in DOMAIN S /\ S[a] = L[a] /\ S[b] = L[b]
  BY <1>7
<1> HIDE DEF k, h, e
<1> QED BY <1>2, <1>5, <1>6, <1>11, <1>12, <1>13, <1>14 DEF a, b, S, P, k, h, e

(* What the write of split_leaf changes: two leaves take the place of the  *)
(* split one in the list.                                                  *)
LEMMA HeadWritten ==
  ASSUME IInv, IInv', OrderInv, NEW t \in Threads, Step(t), WriteHead(t)
  PROVE  LET c == Last(path[t])
             e == c.name
             a == MinimalLeaf(c.value.key, call[t].key)
             b == MaximalLeaf(c.value.key, call[t].key)
         IN  /\ pc[t] = "head" /\ pc'[t] = "link" /\ call'[t].ret # Pending /\ Frame(t) /\ NodeFrame(t) /\ SharedInv
             /\ Locking(t) /\ WithPred(t) /\ ~Splitting(t) /\ c.value.type = "LEAF"
             /\ pred' = pred /\ new_leaf'[t] = a /\ path'[t][1].name = Root /\ Last(path'[t]).name = e
             /\ e \in Trie /\ e \in TreeNames /\ e \in Listed /\ nodes[e].lock = t /\ nodes[e].value = c.value
             /\ nodes'[e].value.type \in {"BITMAP", "JUMP"} /\ nodes'[e].value.max_leaf = b
             /\ \A n \in Names \ {e} : nodes'[n] = nodes[n]
             /\ pred[t].name \in Listed \cup {MinLeaf} /\ pred[t].name \in Trie \cup {MinLeaf}
             /\ pred[t].value.next_leaf = e /\ nodes[pred[t].name].value.next_leaf = e
             /\ a \in TreeNames /\ b \in TreeNames /\ Before(a, b) /\ a \notin Trie /\ b \notin Trie
             /\ a \in Trie' /\ b \in Trie' /\ Above(e, a) /\ Above(e, b) /\ nodes[a].lock = t
             /\ nodes[a].value.type = "LEAF" /\ nodes[a].value.next_leaf = b
             /\ nodes[b].value.type = "LEAF" /\ nodes[b].value.next_leaf = nodes[e].value.next_leaf
             /\ Trie \subseteq Trie'
             /\ \A n \in Trie' \ Trie : /\ n \in TreeNames /\ Above(e, n)
                                        /\ n \notin {a, b} => /\ nodes[n].value.type \in {"BITMAP", "JUMP"}
                                                              /\ nodes[n].value.max_leaf = b
                                                              /\ Above(n, a) /\ Above(n, b)
             /\ Listed' = (Listed \ {e}) \cup {a, b} /\ DirtyInv' /\ a \notin Listed /\ b \notin Listed
             /\ \A u \in Threads : \A q \in Trie : Stale(u, q) => Stale(u, q)'
             /\ \A q \in Trie : /\ Above(q, e) /\ q # e /\ \A z \in Trie : Above(q, z) => ~Before(e, z)
                                /\ nodes[q].value.max_leaf = e
                                => Stale(t, q)'
<1> DEFINE p == path[t]
           c == Last(p)
           e == c.name
           key == call[t].key
           a == MinimalLeaf(c.value.key, key)
           b == MaximalLeaf(c.value.key, key)
           S == SplitNodes(c, call[t])
           v == PathNodes(c, key)[e]
<1>1. /\ pc[t] = "head" /\ pc'[t] = "link" /\ Frame(t) /\ call[t].ret = Pending /\ WritePathEnd(t, v)
      /\ SharedInv /\ ThreadInv(t) /\ Locking(t) /\ WithPred(t)
  <2>1. DomainInv /\ SharedInv /\ ThreadInv(t) /\ pc[t] = "head"
    BY DEF IInv, SharedInv, WriteHead
  <2>2. call[t].ret = Pending
    BY <2>1 DEF ThreadInv, CallInv
  <2> QED BY <2>1, <2>2, FrameStep DEF WriteHead, DomainInv, Locking, WithPred
<1>2. /\ c.value.type = "LEAF" /\ c.value.key # key /\ key \in Keys /\ call[t].value \in Values /\ call[t].op \in PutCalls
      /\ e \in Trie /\ e \in TreeNames /\ e \in Names /\ nodes[e].lock = t /\ nodes[e].value = c.value
      /\ Fits(e, c.value) /\ Above(e, KeySymbols(key)) /\ c.value \in LeafValues /\ c.value.key \in Keys
      /\ Above(e, KeySymbols(c.value.key))
  <2>1. c.value.type = "LEAF" /\ c.value.key # key
    BY <1>1 DEF ThreadInv, EndInv
  <2>2. /\ e \in Trie /\ e \in TreeNames /\ e \in Names /\ nodes[e].lock = t /\ nodes[e].value = c.value
        /\ Fits(e, c.value) /\ Above(e, KeySymbols(key))
    BY <1>1, WriterEnd
  <2>3. key \in Keys /\ call[t].value \in Values /\ call[t].op \in PutCalls
    BY <1>1, Writer DEF ThreadInv
  <2> QED BY <2>1, <2>2, <2>3, BelowInside
<1>3. /\ a \in DOMAIN S /\ b \in DOMAIN S /\ Before(a, b) /\ a \in TreeNames /\ b \in TreeNames
      /\ Above(e, a) /\ Above(e, b)
      /\ S[a].type = "LEAF" /\ S[a].next_leaf = b /\ S[b].type = "LEAF" /\ S[b].next_leaf = c.value.next_leaf
      /\ \A n \in DOMAIN S \ {a, b} : /\ S[n].type \in {"BITMAP", "JUMP"} /\ S[n].max_leaf = b
                                      /\ Above(n, a) /\ Above(n, b) /\ Above(e, n) /\ n \in TreeNames
      /\ v.max_leaf = b /\ v.type \in {"BITMAP", "JUMP"}
  BY <1>2, SplitOrder
<1>4. Hidden(t) = DOMAIN S /\ \A n \in DOMAIN S : nodes[n].value = S[n] /\ nodes[n].lock = t /\ nodes[n].value # Unused
  <2>1. NewNodes(t) = S
    BY <1>2 DEF NewNodes
  <2>2. Hidden(t) = DOMAIN S
    BY <1>1, <2>1 DEF Hidden
  <2>3. \A n \in Hidden(t) : nodes[n].value = NewNodes(t)[n] /\ nodes[n].lock = t /\ nodes[n].value # Unused
    BY <1>1 DEF ThreadInv, HiddenInv
  <2> HIDE DEF S
  <2> QED BY <2>1, <2>2, <2>3
<1> HIDE DEF v, S
<1>5. /\ ~Splitting(t) /\ UNCHANGED <<is_empty, calls, subtree, pred, new_leaf, iter, cursor>>
      /\ NodeFrame(t) /\ nodes'[e].value = v /\ \A m \in Names \ {e} : nodes'[m] = nodes[m]
      /\ path'[t][1].name = Root /\ Last(path'[t]).name = e /\ call'[t].ret # Pending
      /\ Hidden(t)' = {} /\ Trie' = Trie \cup Hidden(t) /\ Hidden(t) \cap Trie = {} /\ DirtyInv'
      /\ \A u \in Threads : \A q \in Trie : Stale(u, q) => q # e /\ Stale(u, q)'
      /\ \A q \in Trie : /\ Above(q, e) /\ q # e /\ \A z \in Trie : Above(q, z) => ~Before(e, z)
                         /\ nodes[q].value.max_leaf \in {pred[t].name, e}
                         => Stale(t, q)'
  BY <1>1, <1>3, EndWritten
<1>6. /\ new_leaf[t] = a /\ pred[t].value.next_leaf = e /\ pred[t].name \in Trie \cup {MinLeaf}
  <2>1. Placing(t) /\ Target(t) = e
    BY <1>1, <1>2 DEF Placing, Target
  <2>2. FirstNewLeaf(t) = a
    BY <1>2 DEF FirstNewLeaf
  <2> QED BY <1>1, <1>2, <2>1, <2>2 DEF OrderInv, PlaceInv
<1>7. nodes[pred[t].name].value = pred[t].value /\ pred[t].name \in Listed \cup {MinLeaf} /\ e \in Listed
  <2>1. nodes[pred[t].name].value = pred[t].value /\ pred[t].value.type = "LEAF"
    BY <1>1, WriterPlace
  <2> QED BY <1>2, <1>6, <2>1, ListedPart
<1>8. a \notin Listed /\ b \notin Listed /\ a # e /\ b # e
  <2>1. \A n \in Hidden(t) : n \notin Listed
    BY <1>1, ListedPart
  <2> QED BY <1>3, <1>4, <1>7, <2>1
<1>9. Listed' = (Listed \ {e}) \cup {a, b}
  <2>1. \A u \in Threads \ {t} : Hidden(u)' = Hidden(u) /\ pc'[u] = pc[u]
    BY <1>1, HiddenKeeps DEF Frame, Same
  <2>2. \A n : n \in Listed <=> n \in TreeNames /\ nodes[n].value # Unused /\ nodes[n].value.type = "LEAF"
                                /\ \A u \in Threads : n \in Hidden(u) => pc[u] = "mark"
    BY DEF Listed, Used
  <2>3. \A n : n \in Listed' <=> n \in TreeNames /\ nodes'[n].value # Unused /\ nodes'[n].value.type = "LEAF"
                                 /\ \A u \in Threads : n \in Hidden(u)' => pc'[u] = "mark"
    BY DEF Listed, Used
  <2>4. \A n \in DOMAIN S : \A u \in Threads \ {t} : n \notin Hidden(u)
    <3>1. \A u \in Threads : \A n \in Hidden(u) : nodes[n].lock = u
      BY DEF IInv, ThreadInv, HiddenInv
    <3> QED BY <1>4, <3>1
  <2>5. ASSUME NEW n \in Listed' PROVE n \in (Listed \ {e}) \cup {a, b}
    <3>1. n \in TreeNames /\ nodes'[n].value # Unused /\ nodes'[n].value.type = "LEAF" /\ n \in Names
      BY <2>3, <2>5, TrieNames
    <3>2. n # e
      BY <1>3, <1>5, <3>1
    <3>3. nodes'[n] = nodes[n]
      BY <1>5, <3>1, <3>2
    <3>4. CASE n \in DOMAIN S
      BY <1>3, <1>4, <3>1, <3>3, <3>4
    <3>5. CASE n \notin DOMAIN S
      <4>1. \A u \in Threads : n \in Hidden(u) => pc[u] = "mark"
        BY <1>4, <2>1, <2>3, <2>5, <3>5
      <4> QED BY <2>2, <3>1, <3>2, <3>3, <4>1
    <3> QED BY <3>4, <3>5
  <2>6. ASSUME NEW n \in {a, b} PROVE n \in Listed'
    <3>1. n \in DOMAIN S /\ n \in TreeNames /\ n \in Names /\ n # e
      BY <1>3, <1>8, TrieNames
    <3>2. nodes'[n] = nodes[n] /\ nodes[n].value # Unused /\ nodes[n].value.type = "LEAF"
      BY <1>3, <1>4, <1>5, <3>1
    <3>3. \A u \in Threads : n \notin Hidden(u)'
      BY <1>5, <2>1, <2>4, <3>1
    <3> QED BY <2>3, <3>1, <3>2, <3>3
  <2>7. ASSUME NEW n \in Listed \ {e} PROVE n \in Listed'
    <3>1. n \in TreeNames /\ n \in Names /\ nodes'[n] = nodes[n]
      BY <1>5, <2>2, TrieNames
    <3>2. \A u \in Threads : n \in Hidden(u)' => pc'[u] = "mark"
      BY <1>5, <2>1, <2>2
    <3> QED BY <2>2, <2>3, <3>1, <3>2
  <2> QED BY <2>5, <2>6, <2>7
<1>10. a \notin Trie /\ b \notin Trie /\ a \in Trie' /\ b \in Trie' /\ Trie \subseteq Trie'
  BY <1>3, <1>4, <1>5
<1>11. \A n \in Trie' \ Trie : /\ n \in TreeNames /\ Above(e, n)
                               /\ n \notin {a, b} => /\ nodes[n].value.type \in {"BITMAP", "JUMP"}
                                                     /\ nodes[n].value.max_leaf = b
                                                     /\ Above(n, a) /\ Above(n, b)
  <2> TAKE n \in Trie' \ Trie
  <2>1. n \in DOMAIN S /\ nodes[n].value = S[n]
    BY <1>4, <1>5
  <2>2. CASE n \in {a, b}
    BY <1>3, <2>2
  <2>3. CASE n \notin {a, b}
    BY <1>3, <2>1, <2>3
  <2> QED BY <2>2, <2>3
<1>12. /\ nodes[a].value.type = "LEAF" /\ nodes[a].value.next_leaf = b /\ nodes[a].lock = t
       /\ nodes[b].value.type = "LEAF" /\ nodes[b].value.next_leaf = nodes[e].value.next_leaf
  BY <1>2, <1>3, <1>4
<1>13. /\ new_leaf'[t] = a /\ nodes'[e].value.type \in {"BITMAP", "JUMP"} /\ nodes'[e].value.max_leaf = b
       /\ nodes[pred[t].name].value.next_leaf = e
  BY <1>3, <1>5, <1>6, <1>7
<1>14. \A q \in Trie : /\ Above(q, e) /\ q # e /\ \A z \in Trie : Above(q, z) => ~Before(e, z)
                       /\ nodes[q].value.max_leaf = e
                       => Stale(t, q)'
  <2> TAKE q \in Trie
  <2>1. ASSUME Above(q, e), q # e, \A z \in Trie : Above(q, z) => ~Before(e, z), nodes[q].value.max_leaf = e
        PROVE  Stale(t, q)'
    <3>1. nodes[q].value.max_leaf \in {pred[t].name, e}
      BY <2>1
    <3> HIDE DEF e
    <3> QED BY <1>5, <2>1, <3>1
  <2> QED BY <2>1
<1>15. \A u \in Threads : \A q \in Trie : Stale(u, q) => Stale(u, q)'
  BY <1>5
<1>16. pred' = pred /\ DirtyInv'
  BY <1>5
<1>17. /\ pc[t] = "head" /\ pc'[t] = "link" /\ call'[t].ret # Pending /\ Frame(t) /\ NodeFrame(t) /\ SharedInv
       /\ Locking(t) /\ WithPred(t) /\ ~Splitting(t) /\ c.value.type = "LEAF"
       /\ pred' = pred /\ new_leaf'[t] = a /\ path'[t][1].name = Root /\ Last(path'[t]).name = e
       /\ e \in Trie /\ e \in TreeNames /\ e \in Listed /\ nodes[e].lock = t /\ nodes[e].value = c.value
       /\ nodes'[e].value.type \in {"BITMAP", "JUMP"} /\ nodes'[e].value.max_leaf = b
       /\ \A n \in Names \ {e} : nodes'[n] = nodes[n]
  BY <1>1, <1>2, <1>5, <1>7, <1>13, <1>16
<1>18. /\ pred[t].name \in Listed \cup {MinLeaf} /\ pred[t].name \in Trie \cup {MinLeaf}
       /\ pred[t].value.next_leaf = e /\ nodes[pred[t].name].value.next_leaf = e
       /\ a \in TreeNames /\ b \in TreeNames /\ Before(a, b) /\ a \notin Trie /\ b \notin Trie
       /\ a \in Trie' /\ b \in Trie' /\ Above(e, a) /\ Above(e, b) /\ nodes[a].lock = t
       /\ Listed' = (Listed \ {e}) \cup {a, b} /\ DirtyInv' /\ a \notin Listed /\ b \notin Listed
  BY <1>3, <1>6, <1>7, <1>8, <1>9, <1>10, <1>12, <1>13, <1>16
<1> QED BY <1>10, <1>11, <1>12, <1>14, <1>15, <1>17, <1>18

(* The head of a split leaf is written: until the leaves are linked the    *)
(* list leads from the predecessor to the head, and max_leaf may be the    *)
(* leaf that was there, in nodes the thread has locked.                    *)
LEMMA HeadOrder ==
  ASSUME IInv, IInv', OrderInv, NEW t \in Threads, Step(t), WriteHead(t)
  PROVE  OrderInv'
<1> DEFINE c == Last(path[t])
           e == c.name
           a == MinimalLeaf(c.value.key, call[t].key)
           b == MaximalLeaf(c.value.key, call[t].key)
           pn == pred[t].name
           L(n) == nodes[n].value.next_leaf
<1>1. /\ pc[t] = "head" /\ pc'[t] = "link" /\ call'[t].ret # Pending /\ Frame(t) /\ NodeFrame(t) /\ SharedInv
      /\ Locking(t) /\ WithPred(t) /\ ~Splitting(t) /\ c.value.type = "LEAF"
      /\ pred' = pred /\ new_leaf'[t] = a /\ path'[t][1].name = Root /\ Last(path'[t]).name = e
      /\ e \in Trie /\ e \in TreeNames /\ e \in Listed /\ nodes[e].lock = t /\ nodes[e].value = c.value
      /\ nodes'[e].value.type \in {"BITMAP", "JUMP"} /\ nodes'[e].value.max_leaf = b
      /\ \A n \in Names \ {e} : nodes'[n] = nodes[n]
      /\ pn \in Listed \cup {MinLeaf} /\ pn \in Trie \cup {MinLeaf}
      /\ pred[t].value.next_leaf = e /\ L(pn) = e
      /\ a \in TreeNames /\ b \in TreeNames /\ Before(a, b) /\ a \notin Trie /\ b \notin Trie
      /\ a \in Trie' /\ b \in Trie' /\ Above(e, a) /\ Above(e, b) /\ nodes[a].lock = t
      /\ nodes[a].value.type = "LEAF" /\ L(a) = b
      /\ nodes[b].value.type = "LEAF" /\ L(b) = L(e)
      /\ Trie \subseteq Trie'
      /\ \A n \in Trie' \ Trie : /\ n \in TreeNames /\ Above(e, n)
                                 /\ n \notin {a, b} => /\ nodes[n].value.type \in {"BITMAP", "JUMP"}
                                                       /\ nodes[n].value.max_leaf = b
                                                       /\ Above(n, a) /\ Above(n, b)
      /\ Listed' = (Listed \ {e}) \cup {a, b} /\ DirtyInv' /\ a \notin Listed /\ b \notin Listed
      /\ \A u \in Threads : \A q \in Trie : Stale(u, q) => Stale(u, q)'
      /\ \A q \in Trie : /\ Above(q, e) /\ q # e /\ \A z \in Trie : Above(q, z) => ~Before(e, z)
                         /\ nodes[q].value.max_leaf = e
                         => Stale(t, q)'
  BY HeadWritten
<1> HIDE DEF e, a, b, L
<1>2. /\ Listed \subseteq TreeNames /\ TreeNames \subseteq Names /\ MinLeaf \in Names /\ MinLeaf \notin TreeNames /\ NULL \notin TreeNames
      /\ Trie \subseteq TreeNames
  BY ListedPart, TrieNames, NullIsNoName
<1>3. a # e /\ b # e /\ a # b /\ ~Before(b, a) /\ ~Before(a, a) /\ ~Before(b, b)
  BY <1>1, NamesOrder
<1>4. \A n \in (Listed \ {e}) \cup {MinLeaf, a, b} : nodes'[n].value.next_leaf = L(n)
  BY <1>1, <1>2, <1>3 DEF L
<1>5. Splitting(t)' /\ WithPred(t)' /\ pred'[t].value.dirty /\ pred'[t].name = pn
  BY <1>1, WriterPlace DEF Splitting, WithPred
(* The new leaves are where the split one was.                             *)
<1>6. ASSUME NEW n \in Listed \ {e}
      PROVE  /\ Before(n, e) \/ Before(e, n)
             /\ Before(n, e) => Before(n, a) /\ Before(n, b) /\ ~Before(a, n) /\ ~Before(b, n) /\ ~Before(e, n)
             /\ Before(e, n) => Before(a, n) /\ Before(b, n) /\ ~Before(n, a) /\ ~Before(n, b) /\ ~Before(n, e)
  <2>1. n \in TreeNames /\ (Before(n, e) \/ Before(e, n))
    BY <1>1, <1>2, ListedOrder
  <2> QED BY <1>1, <2>1, NamesOrder
<1>7. ASSUME NEW n \in (Listed \ {e}) \cup {MinLeaf}
      PROVE  /\ Prior(n, a) => Prior(n, e)
             /\ Prior(n, b) => Prior(n, e)
  <2>1. CASE n = MinLeaf
    BY <2>1 DEF Prior
  <2>2. CASE n # MinLeaf
    BY <1>6, <2>2 DEF Prior
  <2> QED BY <2>1, <2>2
<1>8. \A n \in Listed \cup {MinLeaf} : NextInv(n)
  BY DEF OrderInv, ListInv
<1>9. \A x \in TreeNames : Upto(x, e) => Upto(x, a) /\ Upto(x, b)
  BY <1>1, NamesOrder DEF Upto
<1>10. ASSUME NEW n \in Names, NEW x \in TreeNames, x # e,
              x \in Listed \/ \E u \in Threads : Splitting(u) /\ Last(path[u]).name = x /\ pred[u].name = n
       PROVE  x \in Listed' \/ \E u \in Threads : Splitting(u)' /\ Last(path'[u]).name = x /\ pred'[u].name = n
  <2>1. CASE x \in Listed
    BY <1>1, <1>10, <2>1
  <2>2. CASE \E u \in Threads : Splitting(u) /\ Last(path[u]).name = x /\ pred[u].name = n
    <3>1. PICK u \in Threads : Splitting(u) /\ Last(path[u]).name = x /\ pred[u].name = n
      BY <2>2
    <3>2. u # t
      BY <1>1, <3>1
    <3>3. Same(u)
      BY <1>1, <3>2 DEF Frame
    <3>4. Splitting(u)'
      BY <3>1, <3>3, SameNames
    <3> QED BY <3>1, <3>3, <3>4 DEF Same
  <2> QED BY <1>10, <2>1, <2>2
<1>11. ASSUME NEW n \in Listed \cup {MinLeaf}, L(n) # NULL
       PROVE  /\ L(n) \in TreeNames /\ Prior(n, L(n)) /\ \A y \in Listed : Prior(n, y) => Upto(L(n), y)
              /\ L(n) \in Listed \/ \E u \in Threads : Splitting(u) /\ Last(path[u]).name = L(n) /\ pred[u].name = n
  <2>1. n \in Names /\ nodes[n].value.type = "LEAF"
    BY <1>1, <1>2, ListedPart, Kinds DEF SharedInv, NodesOK
  <2>2. L(n) \in TreeNames \cup {NULL}
    <3>1. nodes[n].value \in LeafValues
      BY <1>1, <2>1, Kinds DEF SharedInv, NodesOK
    <3> QED BY <3>1 DEF LeafValues, L
  <2> QED BY <1>8, <1>11, <2>2 DEF NextInv, L
<1>12. ASSUME NEW n \in Listed \cup {MinLeaf}, L(n) = e PROVE n = pn
  <2> SUFFICES ASSUME n # pn PROVE FALSE
    OBVIOUS
  <2>1. e # NULL /\ ~Upto(e, e) = FALSE
    BY <1>1, <1>2, NamesOrder DEF Upto
  <2>2. Prior(n, e) /\ \A y \in Listed : Prior(n, y) => Upto(e, y)
    BY <1>11, <1>12, <2>1
  <2>3. Prior(pn, e) /\ \A y \in Listed : Prior(pn, y) => Upto(e, y)
    BY <1>1, <1>11, <2>1
  <2>4. ASSUME NEW x \in Listed, Before(x, e) PROVE ~Upto(e, x)
    BY <1>1, <1>2, <2>4, NamesOrder DEF Upto
  <2>5. CASE n = MinLeaf
    <3>1. pn \in Listed /\ Before(pn, e) /\ Prior(n, pn)
      BY <1>1, <2>3, <2>5 DEF Prior
    <3> QED BY <2>2, <2>4, <3>1
  <2>6. CASE pn = MinLeaf
    <3>1. n \in Listed /\ Before(n, e) /\ Prior(pn, n)
      BY <2>2, <2>6 DEF Prior
    <3> QED BY <2>3, <2>4, <3>1
  <2>7. CASE n # MinLeaf /\ pn # MinLeaf
    <3>1. n \in Listed /\ pn \in Listed /\ Before(n, e) /\ Before(pn, e)
      BY <1>1, <2>2, <2>3, <2>7 DEF Prior
    <3>2. Before(n, pn) \/ Before(pn, n)
      BY <3>1, ListedOrder
    <3>3. Prior(n, pn) \/ Prior(pn, n)
      BY <3>2 DEF Prior
    <3> QED BY <2>2, <2>3, <2>4, <3>1, <3>3
  <2> QED BY <2>5, <2>6, <2>7
<1>13. ASSUME NEW n \in Names, n = a PROVE NextInv(n)'
  <2>1. \A y \in Listed' : Prior(a, y) => Upto(b, y)
    <3> SUFFICES ASSUME NEW y \in Listed', Prior(a, y) PROVE Upto(b, y)
      OBVIOUS
    <3>1. Before(a, y) /\ y \in TreeNames
      BY <1>1, <1>2 DEF Prior
    <3>2. CASE y = b
      BY <1>1, <3>2, NamesOrder DEF Upto
    <3>3. CASE y # b
      <4>1. y \in Listed \ {e}
        BY <1>1, <1>3, <3>1, <3>3
      <4> QED BY <1>6, <3>1, <4>1 DEF Upto
    <3> QED BY <3>2, <3>3
  <2>2. nodes'[a].value.next_leaf = b /\ b # NULL /\ b \in Listed' /\ Prior(a, b)
    BY <1>1, <1>2, <1>4 DEF Prior
  <2>3. /\ nodes'[n].value.next_leaf = b /\ b # NULL /\ b \in Listed' /\ Prior(n, b)
        /\ \A y \in Listed' : Prior(n, y) => Upto(b, y)
    BY <1>13, <2>1, <2>2
  <2> QED BY <2>3 DEF NextInv
<1>14. ASSUME NEW n \in Names, n = b PROVE NextInv(n)'
  <2> DEFINE v == L(e)
  <2>1. nodes'[b].value.next_leaf = v
    BY <1>1, <1>4
  <2>2. \A y \in Listed' : Prior(b, y) => y \in Listed /\ Prior(e, y)
    <3> SUFFICES ASSUME NEW y \in Listed', Prior(b, y) PROVE y \in Listed /\ Prior(e, y)
      OBVIOUS
    <3>1. Before(b, y)
      BY <1>1, <1>2 DEF Prior
    <3>2. y \in Listed \ {e}
      BY <1>1, <1>3, <3>1
    <3> QED BY <1>6, <3>1, <3>2 DEF Prior
  <2>3. CASE v = NULL
    <3>1. \A y \in Listed : ~Prior(e, y)
      BY <1>1, <1>8, <2>3 DEF NextInv, L
    <3>2. nodes'[n].value.next_leaf = NULL /\ \A y \in Listed' : ~Prior(n, y)
      BY <1>14, <2>1, <2>2, <2>3, <3>1
    <3> QED BY <3>2 DEF NextInv
  <2>4. CASE v # NULL
    <3>1. /\ v \in TreeNames /\ Prior(e, v) /\ \A y \in Listed : Prior(e, y) => Upto(v, y)
          /\ v \in Listed \/ \E u \in Threads : Splitting(u) /\ Last(path[u]).name = v /\ pred[u].name = e
      BY <1>1, <1>11, <2>4
    <3> HIDE DEF v
    <3>2. Before(e, v) /\ v # e
      BY <1>1, <1>2, <3>1, NamesOrder DEF Prior
    <3>3. Prior(b, v)
      BY <1>1, <3>1, <3>2, NamesOrder DEF Prior
    <3>4. ~\E u \in Threads : Splitting(u) /\ Last(path[u]).name = v /\ pred[u].name = e
      <4> SUFFICES ASSUME NEW u \in Threads, Splitting(u), pred[u].name = e PROVE FALSE
        OBVIOUS
      <4>1. WithPred(u) /\ u # t
        BY <1>1 DEF WithPred, Splitting
      <4>2. nodes[e].lock = u
        BY <4>1, WriterPlace
      <4> QED BY <1>1, <4>1, <4>2
    <3>5. v \in Listed'
      BY <1>1, <3>1, <3>2, <3>4
    <3>6. \A y \in Listed' : Prior(b, y) => Upto(v, y)
      BY <2>2, <3>1
    <3>7. nodes'[b].value.next_leaf = v /\ v # NULL
      BY <2>1, <2>4 DEF v
    <3>8. /\ nodes'[n].value.next_leaf = v /\ v # NULL /\ v \in Listed' /\ Prior(n, v)
          /\ \A y \in Listed' : Prior(n, y) => Upto(v, y)
      BY <1>14, <3>3, <3>5, <3>6, <3>7
    <3> QED BY <3>8 DEF NextInv
  <2> QED BY <2>3, <2>4
<1>15. ASSUME NEW n \in (Listed \ {e}) \cup {MinLeaf} PROVE NextInv(n)'
  <2>1. n \in Listed \cup {MinLeaf} /\ nodes'[n].value.next_leaf = L(n) /\ n \in Names
    BY <1>2, <1>4
  <2>2. CASE L(n) = NULL
    <3>1. \A y \in Listed : ~Prior(n, y)
      BY <1>8, <2>1, <2>2 DEF NextInv, L
    <3>2. \A y \in Listed' : ~Prior(n, y)
      BY <1>1, <1>7, <3>1
    <3> QED BY <2>1, <2>2, <3>2 DEF NextInv
  <2>3. CASE L(n) # NULL
    <3>1. /\ L(n) \in TreeNames /\ Prior(n, L(n)) /\ \A y \in Listed : Prior(n, y) => Upto(L(n), y)
          /\ L(n) \in Listed \/ \E u \in Threads : Splitting(u) /\ Last(path[u]).name = L(n) /\ pred[u].name = n
      BY <1>11, <2>1, <2>3
    <3>2. \A y \in Listed' : Prior(n, y) => Upto(L(n), y)
      <4> SUFFICES ASSUME NEW y \in Listed', Prior(n, y) PROVE Upto(L(n), y)
        OBVIOUS
      <4>1. CASE y \in Listed
        BY <3>1, <4>1
      <4>2. CASE y \in {a, b}
        <5>1. Prior(n, e)
          BY <1>7, <4>2
        <5> QED BY <1>1, <1>9, <3>1, <4>2, <5>1
      <4> QED BY <1>1, <4>1, <4>2
    <3>3. L(n) \in Listed' \/ \E u \in Threads : Splitting(u)' /\ Last(path'[u]).name = L(n) /\ pred'[u].name = n
      <4>1. CASE L(n) = e
        <5>1. n = pn
          BY <1>12, <2>1, <4>1
        <5> QED BY <1>1, <1>5, <4>1, <5>1
      <4>2. CASE L(n) # e
        BY <1>10, <2>1, <3>1, <4>2
      <4> QED BY <4>1, <4>2
    <3> QED BY <2>1, <2>3, <3>1, <3>2, <3>3 DEF NextInv
  <2> QED BY <2>2, <2>3
<1>16. ListInv'
  <2> SUFFICES ASSUME NEW n \in Listed' \cup {MinLeaf} PROVE NextInv(n)'
    BY DEF ListInv
  <2>1. n \in Names /\ (n = a \/ n = b \/ n \in (Listed \ {e}) \cup {MinLeaf})
    BY <1>1, <1>2
  <2> QED BY <1>13, <1>14, <1>15, <2>1
<1>17. \A x \in Trie : Above(e, x) => x = e
  BY <1>1, LeafAlone
<1>18. \A q \in TreeNames : Above(e, q) /\ (q \in {e} \/ Above(q, b)) /\ q # b /\ (q = e \/ q \notin Trie) =>
         \A x \in Trie' : Above(q, x) => Upto(x, b)
  <2> SUFFICES ASSUME NEW q \in TreeNames, Above(e, q), q = e \/ q \notin Trie, NEW x \in Trie', Above(q, x) PROVE Upto(x, b)
    OBVIOUS
  <2>1. x \in TreeNames
    BY TrieNames DEF Trie, Used
  <2>2. Above(e, x)
    BY <1>1, <2>1, TreeTrans
  <2>3. CASE x \in Trie
    <3>1. x = e
      BY <1>17, <2>2, <2>3
    <3> QED BY <1>1, <3>1 DEF Upto
  <2>4. CASE x \notin Trie
    <3>1. x = b \/ x = a \/ Above(x, b)
      BY <1>1, <2>4
    <3> QED BY <1>1, <3>1, NamesOrder DEF Upto
  <2> QED BY <2>3, <2>4
<1>19. MaxInv'
  <2> SUFFICES ASSUME NEW q \in Trie', nodes'[q].value.type \in {"BITMAP", "JUMP"}
               PROVE  MaxRight(q)' \/ \E u \in Threads : Stale(u, q)'
    BY DEF MaxInv
  <2>1. nodes'[b].value.type = "LEAF" /\ nodes'[a].value.type = "LEAF" /\ q \in TreeNames /\ q \in Names
    <3>1. a \in Names /\ b \in Names
      BY <1>1, <1>2
    <3> QED BY <1>1, <1>2, <1>3, <3>1
  <2>2. CASE q = e \/ q \notin Trie
    <3>1. nodes'[q].value.max_leaf = b /\ Above(q, b) /\ Above(e, q) /\ q # b
      <4>1. CASE q = e
        BY <1>1, <1>3, <4>1, NamesOrder
      <4>2. CASE q \notin Trie
        <5>1. q # e /\ q \notin {a, b} /\ nodes'[q] = nodes[q]
          BY <1>1, <2>1, <4>2
        <5> QED BY <1>1, <4>2, <5>1
      <4> QED BY <2>2, <4>1, <4>2
    <3>2. \A x \in Trie' : Above(q, x) => Upto(x, b)
      BY <1>18, <2>1, <2>2, <3>1
    <3> QED BY <1>1, <2>1, <3>1, <3>2 DEF MaxRight
  <2>3. CASE q # e /\ q \in Trie
    <3> DEFINE l == nodes[q].value.max_leaf
    <3>1. nodes'[q] = nodes[q] /\ nodes'[q].value.max_leaf = l /\ nodes[q].value.type \in {"BITMAP", "JUMP"}
      BY <1>1, <2>1, <2>3
    <3>2. MaxRight(q) \/ \E u \in Threads : Stale(u, q)
      BY <2>3, <3>1 DEF OrderInv, MaxInv
    <3>3. CASE \E u \in Threads : Stale(u, q)
      BY <1>1, <2>3, <3>3
    <3>4. CASE MaxRight(q)
      <4>1. l \in Trie /\ nodes[l].value.type = "LEAF" /\ Above(q, l) /\ \A x \in Trie : Above(q, x) => Upto(x, l)
        BY <3>4 DEF MaxRight
      <4>2. l \in TreeNames /\ l \in Listed /\ l \in Names /\ l \in Trie'
        BY <1>1, <1>2, <4>1, ListedPart
      <4> HIDE DEF l
      <4>3. CASE l = e
        <5>1. ASSUME NEW z \in Trie, Above(q, z) PROVE ~Before(e, z)
          <6>1. Upto(z, e) /\ z \in TreeNames
            BY <1>2, <4>1, <4>3, <5>1
          <6> QED BY <1>1, <6>1, NamesOrder DEF Upto
        <5>2. nodes[q].value.max_leaf = e
          BY <4>3 DEF l
        <5>3. Stale(t, q)'
          BY <1>1, <2>3, <4>1, <4>3, <5>1, <5>2
        <5> QED BY <5>3
      <4>4. CASE l # e
        <5>1. ASSUME NEW x \in Trie' \ Trie, Above(q, x) PROVE Upto(x, l)
          <6>1. x \in TreeNames /\ Above(e, x)
            BY <1>1
          <6>2. Above(q, e) \/ Above(e, q)
            BY <1>1, <2>1, <5>1, <6>1, Comparable
          <6>3. Above(q, e)
            BY <1>17, <2>3, <6>2
          <6>4. Before(e, l)
            <7>1. Upto(e, l)
              BY <1>1, <4>1, <6>3
            <7> QED BY <1>1, <4>2, <4>4, <7>1, ListedOrder
          <6> QED BY <1>1, <4>2, <6>1, <6>4, NamesOrder DEF Upto
        <5>2. \A x \in Trie' : Above(q, x) => Upto(x, l)
          BY <4>1, <5>1
        <5>3. nodes'[l] = nodes[l]
          BY <1>1, <4>2, <4>4
        <5> QED BY <3>1, <4>1, <4>2, <5>2, <5>3 DEF MaxRight
      <4> QED BY <4>3, <4>4
    <3> QED BY <3>2, <3>3, <3>4
  <2> QED BY <2>2, <2>3
<1>20. PlaceInv(t)'
  <2>1. ~Placing(t)' /\ ~Putting(t)'
    BY <1>1 DEF Placing, Putting
  <2>2. pred'[t].name \in Trie' \cup {MinLeaf}
    BY <1>1, <1>5
  <2> QED BY <1>1, <2>1, <2>2 DEF PlaceInv
<1>21. SplitInv(t)'
  <2>1. nodes'[a].lock = t
    BY <1>1, <1>2, <1>3
  <2>2. ASSUME NEW y \in Listed', Above(e, y) PROVE Upto(a, y)
    <3>1. y \notin Listed \ {e}
      BY <1>1, <2>2, LeafAlone
    <3> QED BY <1>1, <3>1, NamesOrder DEF Upto
  <2>3. pred'[t].value.next_leaf = Last(path'[t]).name /\ new_leaf'[t] \in Listed'
    BY <1>1
  <2> QED BY <1>1, <2>1, <2>2, <2>3 DEF SplitInv
<1>22. ASSUME NEW u \in Threads \ {t} PROVE PlaceInv(u)' /\ SplitInv(u)'
  <2>1. ASSUME NEW y \in Listed' \ Listed, Splitting(u), Above(Last(path[u]).name, y) PROVE Upto(new_leaf[u], y)
    <3> DEFINE eu == Last(path[u]).name
               au == new_leaf[u]
    <3>1. y \in {a, b} /\ y \in TreeNames /\ Above(e, y)
      BY <1>1, <2>1
    <3>2. Locking(u)
      BY <2>1 DEF Splitting, Locking
    <3>3. eu \in Trie /\ eu \in TreeNames /\ nodes[eu].lock = u
      BY <3>2, WriterEnd
    <3>4. au \in Listed /\ \A z \in Listed : Above(eu, z) => Upto(au, z)
      BY <2>1 DEF OrderInv, SplitInv
    <3> HIDE DEF eu, au
    <3>5. Above(eu, e) \/ Above(e, eu)
      BY <1>1, <2>1, <3>1, <3>3, Comparable DEF eu
    <3>6. eu # e
      BY <1>1, <3>3
    <3>7. Above(eu, e)
      BY <1>17, <3>3, <3>5, <3>6
    <3>8. Upto(au, e) /\ au \in TreeNames
      BY <1>1, <1>2, <3>4, <3>7
    <3>9. Upto(au, y)
      BY <1>9, <3>1, <3>8
    <3> QED BY <3>9 DEF au
  <2> QED BY <1>1, <2>1, OthersKnow
<1>23. \A u \in Threads : PlaceInv(u)' /\ SplitInv(u)'
  BY <1>20, <1>21, <1>22
<1> QED BY <1>1, <1>16, <1>19, <1>23 DEF OrderInv

-----------------------------------------------------------------------------
(* Splitting a jump node. *)

(* All the nodes a jump node is split into lie above what was below it,    *)
(* and have its max_leaf.                                                  *)
LEMMA JumpLeaves ==
  ASSUME NEW c, c.name \in Seq(Nat), c.value \in JumpValues, NEW d \in Nat, d < Len(c.value.jump)
  PROVE  LET S == JumpSplitNodes(c, d)
         IN  /\ SplitHead(c, d).max_leaf = c.value.max_leaf
             /\ \A n \in DOMAIN S : S[n].max_leaf = c.value.max_leaf /\ Above(n, c.name \o c.value.jump)
<1> DEFINE e == c.name
           u == c.value.jump
           S == JumpSplitNodes(c, d)
<1>1. SplitHead(c, d).max_leaf = c.value.max_leaf
  BY DEF SplitHead, SplitBitmap, Bitmap, Jump
<1>2. \A n \in DOMAIN S : n \in {BitmapName(c, d), TailName(c, d)} /\ S[n].max_leaf = c.value.max_leaf
  BY DEF JumpSplitNodes, SplitBitmap, SplitTail, Bitmap, Jump
<1>3. u \in Seq(Nat) /\ e \in Seq(Nat)
  BY DEF JumpValues
<1> HIDE DEF S
<1>4. /\ BitmapName(c, d) \in Seq(Nat) /\ TailName(c, d) \in Seq(Nat) /\ e \o u \in Seq(Nat)
      /\ Above(BitmapName(c, d), TailName(c, d)) /\ Above(TailName(c, d), e \o u)
  <2>1. d < Len(u)
    OBVIOUS
  <2>2. BitmapName(c, d) = e \o SubSeq(u, 1, d) /\ TailName(c, d) = Append(e \o SubSeq(u, 1, d), u[d + 1])
    BY DEF BitmapName, TailName
  <2> HIDE DEF e, u
  <2>3. LET B == e \o SubSeq(u, 1, d)
            T == Append(B, u[d + 1])
        IN  B \in Seq(Nat) /\ T \in Seq(Nat) /\ e \o u \in Seq(Nat) /\ Above(B, T) /\ Above(T, e \o u)
    BY <1>3, <2>1, JumpNames
  <2> QED BY <2>2, <2>3
<1>5. Above(BitmapName(c, d), e \o u)
  BY <1>4, AboveTrans
<1> QED BY <1>1, <1>2, <1>4, <1>5 DEF S, e, u

(* split_jump_node has replaced the jump node by others.                   *)
LEMMA JumpReplaced ==
  ASSUME IInv, NEW t \in Threads, split_jump_node(t), ~Retry(t)
  PROVE  LET c == Last(path[t])
             e == c.name
             d == depth_in_jump(c, KeyOf(t))
             ch == e \o c.value.jump
             head == SplitHead(c, d)
             S == JumpSplitNodes(c, d)
         IN  /\ UNCHANGED <<is_empty, calls, call, pc, subtree, pred, new_leaf, level, iter, index, cursor>>
             /\ path'[t][1].name = path[t][1].name
             /\ e \in Trie /\ c.value \in JumpValues /\ d \in Nat /\ d < Len(c.value.jump)
             /\ nodes[e].lock = NULL /\ nodes[e].value = c.value
             /\ nodes'[e].value = head /\ head.type \in {"BITMAP", "JUMP"}
             /\ Below(e, c.value) = {ch} /\ ch \in Trie
             /\ \A n \in DOMAIN S : /\ n \in TreeNames /\ nodes[n].value = Unused /\ Above(e, n) /\ n # e
                                    /\ nodes'[n].value = S[n] /\ S[n].type \in {"BITMAP", "JUMP"}
             /\ \A n \in Names : n # e /\ n \notin DOMAIN S => nodes'[n].value = nodes[n].value
             /\ NodeFrame(t) /\ Trie' = Trie \cup DOMAIN S
             /\ \A u \in Threads : Hidden(u)' = Hidden(u)
<1>1. /\ SharedInv /\ DomainInv /\ ThreadInv(t) /\ CallInv(t) /\ nodes \in NodeMaps /\ NodesOK /\ StructInv
      /\ pc[t] = "descend" /\ call[t].op \in PutCalls /\ At(t, "JUMP")
  BY DEF IInv, SharedInv, ThreadInv, NodesOK, split_jump_node, At
<1>2. Frame(t)
  BY <1>1, FrameCreateLeaf DEF create_leaf
<1>3. call[t].op \notin IterCalls /\ call[t].key \in Keys /\ KeyOf(t) = call[t].key /\ Guarded(t)
  BY <1>1, Caller DEF PutCalls, IterCalls
<1>4. QED
  <2> DEFINE c == Last(path[t])
             e == c.name
             K == KeyOf(t)
             d == depth_in_jump(c, K)
             ch == e \o c.value.jump
             B == BitmapName(c, d)
             head == SplitHead(c, d)
             S == JumpSplitNodes(c, d)
             base == IF HasTail(c, d) THEN nodes ELSE WriteNode(nodes, ch, nodes[ch].value)
             w1 == WriteNode(base, e, head)
             w2 == AddNodes(w1, t, S)
             q == Append(Front(path[t]), Updated(c, head))
  <2>1. /\ CanLock(c) /\ (HasTail(c, d) \/ nodes[ch].lock = NULL)
        /\ nodes' = release_all_locks(w2, t)
        /\ path'[t] = q \o IF d = 0 THEN <<>> ELSE <<[name |-> B, value |-> SplitBitmap(c, d), seq |-> w2[B].seq]>>
        /\ UNCHANGED <<is_empty, calls, call, pc, subtree, pred, new_leaf, level, iter, index, cursor>>
    BY <1>1 DEF split_jump_node, DomainInv, update_entry
  <2>2. /\ PathOK(nodes, Trie, K, path[t]) /\ path[t] \in Seq(Copies) /\ Len(path[t]) > 0
        /\ c \in Copies /\ CopyIn(nodes, c) /\ e \in Trie /\ e \in TreeNames /\ e \in Names /\ Fits(e, c.value)
        /\ Above(e, KeySymbols(K)) /\ Below(e, c.value) \subseteq Trie
    BY <1>1, <1>3, PathEnd DEF RestPcs
  <2>3. c.value.type = "JUMP" /\ NameBelow(c, K) = NULL
    BY <1>1 DEF At
  <2>4. K \in Keys
    BY <1>3
  <2>5. ~is_empty
    BY <1>1 DEF SharedInv, EmptyInv, RestPcs
  <2>6. nodes[e].lock = NULL /\ nodes[e].seq = c.seq /\ nodes[e].value = c.value
    BY <2>1, <2>2, Lockable
  <2> HIDE DEF c, K
  <2>7. /\ d \in Nat /\ d < Len(c.value.jump)
        /\ Above(B, KeySymbols(K))
        /\ c.value \in JumpValues /\ Below(e, c.value) = {ch}
        /\ ch \in TreeNames /\ Above(e, ch) /\ e # ch
    BY <2>2, <2>3, <2>4, LeavesJump
  <2> HIDE DEF d
  <2>8. /\ DOMAIN S \subseteq TreeNames /\ e \notin DOMAIN S
        /\ Fits(e, head) /\ head.type \in {"BITMAP", "JUMP"}
        /\ Below(e, head) \subseteq DOMAIN S \cup {ch} /\ e \notin Below(e, head)
        /\ \A m \in DOMAIN S : Above(e, m) /\ ~Above(ch, m)
        /\ \A m \in DOMAIN S \cup {ch} : \E b \in Below(e, head) : Above(b, m)
        /\ \A n \in DOMAIN S :
             /\ Fits(n, S[n]) /\ S[n].type \in {"BITMAP", "JUMP"}
             /\ Below(n, S[n]) \subseteq DOMAIN S \cup {ch}
             /\ \A m \in DOMAIN S \cup {ch} : n # m /\ Above(n, m) => \E b \in Below(n, S[n]) : Above(b, m)
        /\ IF d = 0 THEN B = e /\ head = SplitBitmap(c, d)
           ELSE B \in DOMAIN S /\ S[B] = SplitBitmap(c, d) /\ Below(e, head) = {B}
        /\ Fits(B, SplitBitmap(c, d)) /\ B \in TreeNames
        /\ Below(B, SplitBitmap(c, d)) \subseteq DOMAIN S \cup {ch}
    <3>1. c.name \in TreeNames /\ c.value \in JumpValues /\ ch = c.name \o c.value.jump /\ ch \in TreeNames
      BY <2>2, <2>7
    <3> HIDE DEF ch, B, S, head
    <3>2. SplitsJump(c, ch, d)
      BY <2>7, <3>1, JumpSplit
    <3> QED BY <3>2 DEF S, head, B, SplitsJump
  <2>9. ch \in Trie /\ nodes[ch].value # Unused /\ ch \in Names
    BY <2>2, <2>7, InTrie, TrieNames
  <2> HIDE DEF S, head, e, ch, B
  <2>10. Hidden(t) = {} /\ Hidden(t)' = {} /\ HiddenInv(t)'
    BY <1>1, <2>1, Nowhere, NowhereNext
  <2>11. ASSUME NEW m \in DOMAIN S
         PROVE  /\ nodes[m].value = Unused /\ nodes[m].lock = NULL /\ m \notin Trie /\ m # Root /\ m # ch /\ m \in Names
                /\ \A u \in Threads : m \notin Hidden(u)
    <3>1. m \in TreeNames /\ Above(e, m) /\ m # e /\ \A b \in Below(e, nodes[e].value) : ~Above(b, m)
      BY <2>6, <2>7, <2>8, <2>11
    <3>2. nodes[m].value = Unused /\ nodes[m].lock = NULL /\ m \notin Trie /\ m # Root /\ \A u \in Threads \ {t} : m \notin Hidden(u)
      BY <2>2, <2>5, <2>6, <2>10, <3>1, Elsewhere
    <3> QED BY <2>9, <2>10, <3>1, <3>2, TrieNames
  <2>12. \A n \in Names : nodes[n].lock # t
    BY <1>1, Holder DEF Locking, PutCalls, IterCalls
  <2>13. ASSUME NEW n, NEW v, Fits(n, v), v.type \in {"BITMAP", "JUMP"} PROVE v # Unused /\ v \in NodeValues
    BY <2>13, FitsIsValue, UnusedKind
  <2>14. /\ base \in NodeMaps /\ base[ch].value = nodes[ch].value /\ base[ch].lock = nodes[ch].lock
         /\ base[ch] = nodes[ch] \/ (nodes[ch].lock = NULL /\ base[ch].seq = nodes[ch].seq + 1)
         /\ \A n \in Names \ {ch} : base[n] = nodes[n]
    <3>1. CASE HasTail(c, d)
      BY <1>1, <3>1
    <3>2. CASE ~HasTail(c, d)
      <4>1. base = WriteNode(nodes, ch, nodes[ch].value) /\ nodes[ch].lock = NULL
        BY <2>1, <3>2
      <4>2. nodes[ch].value \in NodeValues
        BY <1>1, <2>9, NodeIs
      <4> HIDE DEF base
      <4> QED BY <1>1, <2>9, <4>1, <4>2, WritesNode
    <3> QED BY <3>1, <3>2
  <2> HIDE DEF base
  <2>15. /\ w1 \in NodeMaps
         /\ w1[e].value = head /\ w1[e].seq = base[e].seq + 1 /\ w1[e].lock = base[e].lock
         /\ \A n \in Names \ {e} : w1[n] = base[n]
    BY <2>2, <2>8, <2>13, <2>14, WritesNode DEF e
  <2> HIDE DEF w1
  <2>16. /\ w2 \in NodeMaps
         /\ \A n \in DOMAIN S : w2[n].value = S[n] /\ w2[n].seq = w1[n].seq + 1 /\ w2[n].lock = t
         /\ \A n \in Names \ DOMAIN S : w2[n] = w1[n]
    <3>1. DOMAIN S \subseteq Names /\ \A n \in DOMAIN S : S[n] \in NodeValues
      BY <2>8, <2>11, <2>13
    <3> QED BY <2>15, <3>1, AddsNodes
  <2> HIDE DEF w2
  <2>17. /\ nodes' \in NodeMaps
         /\ \A n \in Names : nodes'[n].value = w2[n].value /\ nodes'[n].seq = w2[n].seq
         /\ \A n \in Names : w2[n].lock = t => nodes'[n].lock = NULL
         /\ \A n \in Names : w2[n].lock # t => nodes'[n] = w2[n]
    BY <2>1, <2>16, ReleasesLocks
  <2>18. e # ch /\ e \in Names /\ e \notin DOMAIN S /\ ch \notin DOMAIN S
    BY <2>2, <2>7, <2>8, <2>11 DEF e
  <2>19. nodes'[e].value = head /\ nodes'[e].seq = nodes[e].seq + 1 /\ nodes'[e].lock = NULL
    <3>1. w2[e].value = head /\ w2[e].seq = nodes[e].seq + 1 /\ w2[e].lock = NULL
      BY <2>6, <2>14, <2>15, <2>16, <2>18 DEF e
    <3> QED BY <2>17, <2>18, <3>1, NoThread
  <2>20. ASSUME NEW n \in DOMAIN S
         PROVE  nodes'[n].value = S[n] /\ nodes'[n].seq = nodes[n].seq + 1 /\ nodes'[n].lock = NULL
    <3>1. w1[n].seq = nodes[n].seq
      BY <2>11, <2>14, <2>15, <2>18
    <3> QED BY <2>11, <2>16, <2>17, <3>1
  <2>21. /\ nodes'[ch].value = nodes[ch].value /\ nodes'[ch].lock = nodes[ch].lock
         /\ nodes'[ch] = nodes[ch] \/ (nodes[ch].lock = NULL /\ nodes'[ch].seq = nodes[ch].seq + 1)
    <3>1. w2[ch] = base[ch]
      BY <2>9, <2>15, <2>16, <2>18
    <3> QED BY <2>9, <2>12, <2>14, <2>17, <3>1
  <2>22. ASSUME NEW n \in Names, n # e, n # ch, n \notin DOMAIN S PROVE nodes'[n] = nodes[n]
    <3>1. w2[n] = nodes[n]
      BY <2>14, <2>15, <2>16, <2>22
    <3> QED BY <2>12, <2>17, <3>1
  <2>23. NodeFrame(t)
    <3>1. ASSUME NEW n \in Names
          PROVE  /\ \A u \in Threads \ {t} : nodes[n].lock = u \/ nodes'[n].lock = u => nodes'[n] = nodes[n]
                 /\ nodes[n].seq <= nodes'[n].seq
                 /\ nodes[n].seq = nodes'[n].seq => nodes'[n].value = nodes[n].value
      <4>1. nodes[n].seq \in Nat
        BY <1>1, NodeIs
      <4>2. CASE n = e
        BY <2>6, <2>19, <4>1, <4>2, NoThread DEF e
      <4>3. CASE n \in DOMAIN S
        BY <2>11, <2>20, <4>1, <4>3, NoThread
      <4>4. CASE n = ch
        BY <2>21, <4>1, <4>4, NoThread
      <4>5. CASE n # e /\ n # ch /\ n \notin DOMAIN S
        BY <2>22, <4>1, <4>5
      <4> QED BY <4>2, <4>3, <4>4, <4>5
    <3> QED BY <2>17, <3>1 DEF NodeFrame
  <2>24. Trie' = Trie \cup DOMAIN S
    <3>1. \A u \in Threads : Hidden(u)' = Hidden(u)
      BY <1>2, <2>10, OtherHidden
    <3>2. ASSUME NEW n PROVE n \in Trie' <=> n \in Trie \cup DOMAIN S
      <4>1. CASE n \in DOMAIN S
        <5>1. n \in TreeNames /\ nodes'[n].value # Unused /\ \A u \in Threads : n \notin Hidden(u)'
          BY <2>8, <2>11, <2>13, <2>20, <3>1, <4>1
        <5> QED BY <4>1, <5>1, InTrie
      <4>2. CASE n \notin DOMAIN S
        <5>1. n \in TreeNames => (nodes'[n].value = Unused <=> nodes[n].value = Unused)
          <6>1. CASE n = e
            <7>1. nodes[n].value # Unused /\ head # Unused
              BY <2>2, <2>8, <2>13, <6>1, InTrie DEF e
            <7> QED BY <2>19, <6>1, <7>1
          <6>2. CASE n = ch
            BY <2>21, <6>2
          <6>3. CASE n # e /\ n # ch
            BY <2>22, <4>2, <6>3, TrieNames
          <6> QED BY <6>1, <6>2, <6>3
        <5> QED BY <3>1, <4>2, <5>1, InTrie
      <4> QED BY <4>1, <4>2
    <3> QED BY <3>2
  <2>25. \A u \in Threads : Hidden(u)' = Hidden(u)
    BY <1>2, <2>10, OtherHidden
  <2>26. path'[t][1].name = path[t][1].name
    <3> DEFINE x == Updated(c, head)
    <3>1. x = [name |-> e, value |-> head, seq |-> nodes[e].seq + 1]
      BY <2>2, UpdatedCopy DEF e
    <3>2. x \in Copies
      <4>1. nodes[e].seq \in Nat
        BY <1>1, <2>18, NodeIs
      <4> QED BY <2>8, <2>13, <2>18, <3>1, <4>1 DEF Copies
    <3>3. x.name = Last(path[t]).name
      BY <3>1 DEF c, e
    <3> HIDE DEF x
    <3>4. q \in Seq(Copies) /\ Len(q) = Len(path[t]) /\ q[1].name = path[t][1].name
      <4>1. Len(path[t]) \in Nat /\ Len(path[t]) >= 1
        BY <2>2
      <4>2. Front(path[t]) = SubSeq(path[t], 1, Len(path[t]) - 1) /\ q = Append(Front(path[t]), x) /\ Last(path[t]) = path[t][Len(path[t])]
        BY DEF Front, Last, x
      <4> HIDE DEF q
      <4>3. CASE Len(path[t]) = 1
        BY <2>2, <3>2, <3>3, <4>1, <4>2, <4>3
      <4>4. CASE Len(path[t]) # 1
        BY <2>2, <3>2, <3>3, <4>1, <4>2, <4>4
      <4> QED BY <4>3, <4>4
    <3> HIDE DEF q
    <3>5. CASE d = 0
      BY <2>1, <2>2, <3>4, <3>5
    <3>6. CASE d # 0
      <4>1. PICK y : path'[t] = q \o <<y>>
        BY <2>1, <3>6
      <4>2. (q \o <<y>>)[1] = q[1]
        BY <2>2, <3>4
      <4> QED BY <3>4, <4>1, <4>2
    <3> QED BY <3>5, <3>6
  <2>27. \A n \in Names : n # e /\ n \notin DOMAIN S => nodes'[n].value = nodes[n].value
    BY <2>21, <2>22
  <2>28. \A n \in DOMAIN S : n \in TreeNames /\ nodes[n].value = Unused /\ Above(e, n) /\ n # e /\ nodes'[n].value = S[n] /\ S[n].type \in {"BITMAP", "JUMP"}
    BY <2>8, <2>11, <2>20
  <2>29. e \in Trie /\ c.value \in JumpValues /\ d \in Nat /\ d < Len(c.value.jump) /\ Below(e, c.value) = {ch} /\ ch \in Trie
    BY <2>2, <2>7, <2>9 DEF e
  <2> QED BY <2>1, <2>6, <2>8, <2>19, <2>23, <2>24, <2>25, <2>26, <2>27, <2>28, <2>29, Zenon DEF c, e, K, d, ch, head, S

(* split_jump_node keeps the order: the new nodes have the max_leaf of the *)
(* jump node, and the list is the same.                                    *)
LEMMA SplitJumpOrder ==
  ASSUME IInv, IInv', OrderInv, NEW t \in Threads, Step(t), split_jump_node(t)
  PROVE  OrderInv'
<1>1. /\ SharedInv /\ ThreadInv(t) /\ CallInv(t) /\ pc[t] = "descend" /\ call[t].op \in PutCalls /\ Frame(t)
      /\ ~Locking(t) /\ ~WithPred(t) /\ ~Splitting(t)
  BY FrameStep DEF IInv, SharedInv, ThreadInv, split_jump_node, At, Locking, WithPred, Splitting
<1>2. CASE Retry(t)
  BY <1>1, <1>2, RetryOrder
<1>3. CASE ~Retry(t)
  <2> DEFINE c == Last(path[t])
             e == c.name
             d == depth_in_jump(c, KeyOf(t))
             ch == e \o c.value.jump
             head == SplitHead(c, d)
             S == JumpSplitNodes(c, d)
             N == DOMAIN S
             max == c.value.max_leaf
  <2>1. /\ UNCHANGED <<is_empty, calls, call, pc, subtree, pred, new_leaf, level, iter, index, cursor>>
        /\ path'[t][1].name = path[t][1].name
        /\ e \in Trie /\ c.value \in JumpValues /\ d \in Nat /\ d < Len(c.value.jump)
        /\ nodes[e].lock = NULL /\ nodes[e].value = c.value
        /\ nodes'[e].value = head /\ head.type \in {"BITMAP", "JUMP"}
        /\ Below(e, c.value) = {ch} /\ ch \in Trie
        /\ \A n \in DOMAIN S : /\ n \in TreeNames /\ nodes[n].value = Unused /\ Above(e, n) /\ n # e
                               /\ nodes'[n].value = S[n] /\ S[n].type \in {"BITMAP", "JUMP"}
        /\ \A n \in Names : n # e /\ n \notin DOMAIN S => nodes'[n].value = nodes[n].value
        /\ NodeFrame(t) /\ Trie' = Trie \cup DOMAIN S
        /\ \A u \in Threads : Hidden(u)' = Hidden(u)
    BY <1>3, JumpReplaced
  <2>2. e \in TreeNames /\ ch \in TreeNames /\ Trie \subseteq TreeNames /\ TreeNames \subseteq Names
    BY <2>1, TrieNames
  <2>3. head.max_leaf = max /\ \A n \in N : S[n].max_leaf = max /\ Above(n, ch)
    <3>1. e \in Seq(Nat)
      BY <2>2, NamesOfTree
    <3> QED BY <2>1, <3>1, JumpLeaves
  <2>4. nodes[e].value.type = "JUMP" /\ nodes[e].value.max_leaf = max
    BY <2>1 DEF JumpValues
  <2> HIDE DEF c, d, S, head, N, ch, e, max
  <2>5. /\ \A n \in N : /\ n \in TreeNames /\ nodes[n].value.type = "UNUSED" /\ n # e /\ nodes'[n].value.max_leaf = max
                        /\ nodes'[n].value.type \in {"BITMAP", "JUMP"} /\ Above(n, ch)
        /\ \A n \in Names : n # e /\ n \notin N => nodes'[n].value = nodes[n].value
        /\ nodes'[e].value.max_leaf = max /\ nodes'[e].value.type \in {"BITMAP", "JUMP"}
        /\ Trie' = Trie \cup N
    BY <2>1, <2>3, UnusedKind DEF N
  <2>6. Listed' = Listed
    <3>1. ASSUME NEW n \in TreeNames
          PROVE  n \in Listed <=> n \in Listed'
      <4>1. (nodes[n].value.type = "LEAF" <=> nodes'[n].value.type = "LEAF")
            /\ (nodes[n].value.type = "LEAF" => nodes'[n].value = nodes[n].value)
        BY <2>2, <2>4, <2>5
      <4>2. \A u \in Threads : pc'[u] = pc[u] /\ Hidden(u)' = Hidden(u)
        BY <2>1
      <4>3. Unused.type # "LEAF"
        BY DEF Unused
      <4> QED BY <4>1, <4>2, <4>3 DEF Listed, Used
    <3> QED BY <3>1 DEF Listed, Used
  <2>7. ListInv'
    <3>1. ASSUME NEW n \in Listed \cup {MinLeaf} PROVE nodes'[n].value.next_leaf = nodes[n].value.next_leaf
      <4>1. n \in Names /\ n \notin N /\ n # e
        <5>1. CASE n = MinLeaf
          BY <2>2, <2>5, <5>1, TrieNames, NullIsNoName
        <5>2. CASE n \in Listed
          BY <2>2, <2>4, <2>5, <5>2, ListedPart
        <5> QED BY <5>1, <5>2
      <4> QED BY <2>5, <4>1
    <3> QED BY <1>1, <2>6, <3>1, ListKept
  <2>8. DirtyInv'
    <3>1. ~WithPred(t)'
      BY <1>1, <2>1 DEF WithPred
    <3>2. \A n \in Names : nodes'[n].value.type = "LEAF" /\ nodes'[n].value.dirty =>
                             nodes[n].value.type = "LEAF" /\ nodes[n].value.dirty
      BY <2>5
    <3> QED BY <1>1, <3>1, <3>2, DirtyKept
  <2>9. MaxInv'
    <3> SUFFICES ASSUME NEW q \in Trie', nodes'[q].value.type \in {"BITMAP", "JUMP"}
                 PROVE  MaxRight(q)' \/ \E u \in Threads : Stale(u, q)'
      BY DEF MaxInv
    <3>1. ASSUME NEW p \in Trie, MaxRight(p), NEW l, l = nodes[p].value.max_leaf
          PROVE  /\ l \in Trie' /\ l \in TreeNames /\ nodes'[l].value.type = "LEAF" /\ Above(p, l)
                 /\ \A x \in Trie' : Above(p, x) => Upto(x, l)
      <4>1. l \in Trie /\ l \in TreeNames /\ nodes[l].value.type = "LEAF" /\ Above(p, l) /\ \A x \in Trie : Above(p, x) => Upto(x, l)
        BY <2>2, <3>1 DEF MaxRight
      <4>2. nodes'[l].value = nodes[l].value
        BY <2>2, <2>4, <2>5, <4>1
      <4>3. ASSUME NEW x \in N, Above(p, x) PROVE Upto(x, l)
        <5>1. Above(x, ch) /\ x \in TreeNames /\ p \in TreeNames
          BY <2>2, <2>5
        <5>2. Above(p, ch)
          BY <2>2, <4>3, <5>1, NamesOrder
        <5>3. Upto(ch, l)
          BY <2>1, <4>1, <5>2
        <5> QED BY <2>2, <4>1, <5>1, <5>3, UptoOrder
      <4> QED BY <2>5, <4>1, <4>2, <4>3
    <3>2. MaxRight(e)
      <4>1. ~\E u \in Threads : Stale(u, e)
        BY <2>1, StaleLocked, NoThread DEF e
      <4> QED BY <2>1, <2>4, <4>1 DEF OrderInv, MaxInv, e
    <3>3. e \in Trie
      BY <2>1
    <3>4. CASE q = e \/ q \in N
      <4>1. nodes'[q].value.max_leaf = max /\ q \in TreeNames
        BY <2>2, <2>5, <3>4
      <4>2. /\ max \in Trie' /\ max \in TreeNames /\ nodes'[max].value.type = "LEAF" /\ Above(e, max)
            /\ \A x \in Trie' : Above(e, x) => Upto(x, max)
        BY <2>4, <3>1, <3>2, <3>3
      <4>3. Above(e, q) /\ Above(q, max)
        <5>1. nodes[e].value.type # "LEAF" /\ e # max
          BY <2>4, <2>5, <4>2
        <5>2. Above(ch, max)
          <6>1. max \in Trie
            BY <2>4, <3>2 DEF MaxRight
          <6>2. Below(e, nodes[e].value) = {ch}
            BY <2>1
          <6> QED BY <1>1, <3>3, <4>2, <5>1, <6>1, <6>2, TrieChildren
        <5>3. CASE q = e
          BY <2>2, <4>2, <5>3, NamesOrder
        <5>4. CASE q \in N
          <6>1. Above(q, ch)
            BY <2>5, <5>4
          <6>2. Above(e, q)
            <7>1. \A n \in DOMAIN S : Above(e, n)
              BY <2>1
            <7> QED BY <5>4, <7>1 DEF N
          <6> QED BY <2>2, <4>1, <4>2, <5>2, <6>1, <6>2, NamesOrder
        <5> QED BY <3>4, <5>3, <5>4
      <4>4. \A x \in Trie' : Above(q, x) => Upto(x, max)
        <5> SUFFICES ASSUME NEW x \in Trie', Above(q, x) PROVE Upto(x, max)
          OBVIOUS
        <5>1. x \in TreeNames
          BY <2>2, <2>5
        <5>2. Above(e, x)
          BY <2>2, <4>1, <4>3, <5>1, NamesOrder
        <5> QED BY <4>2, <5>2
      <4> QED BY <4>1, <4>2, <4>3, <4>4 DEF MaxRight
    <3>5. CASE q # e /\ q \notin N
      <4>1. q \in Trie /\ nodes'[q].value = nodes[q].value
        BY <2>2, <2>5, <3>5
      <4>2. CASE MaxRight(q)
        BY <3>1, <4>1, <4>2 DEF MaxRight
      <4>3. ASSUME NEW u \in Threads, Stale(u, q) PROVE Stale(u, q)'
        <5>1. u # t
          BY <1>1, <4>3 DEF Stale
        <5>2. Same(u)
          BY <1>1, <5>1 DEF Frame
        <5>3. (Splitting(u)' <=> Splitting(u)) /\ Level(u)' = Level(u)
          BY <5>2, SameNames
        <5> QED BY <4>1, <4>3, <5>2, <5>3 DEF Stale, Same
      <4> QED BY <4>1, <4>2, <4>3 DEF OrderInv, MaxInv
    <3> QED BY <3>4, <3>5
  <2>10. PlaceInv(t)' /\ SplitInv(t)'
    <3>1. path[t][1].name = Root
      BY <1>1 DEF OrderInv, PlaceInv, RestPcs
    <3>2. pc'[t] = "descend" /\ path'[t][1].name = Root /\ ~Locking(t)'
      BY <1>1, <2>1, <3>1 DEF Locking
    <3> QED BY <3>2, NotPlacing DEF AllPcs
  <2>11. ASSUME NEW u \in Threads PROVE PlaceInv(u)' /\ SplitInv(u)'
    <3>1. CASE u = t
      BY <2>10, <3>1
    <3>2. CASE u # t
      <4>1. Trie \subseteq Trie'
        BY <2>5
      <4>2. \A y \in Listed' \ Listed : Splitting(u) /\ Above(Last(path[u]).name, y) => Upto(new_leaf[u], y)
        BY <2>6
      <4> QED BY <1>1, <2>1, <3>2, <4>1, <4>2, OthersKnow
    <3> QED BY <3>1, <3>2
  <2> QED BY <2>7, <2>8, <2>9, <2>11 DEF OrderInv
<1> QED BY <1>2, <1>3

-----------------------------------------------------------------------------
(* The first leaf. *)

(* The first leaf is written: the list leads to it.                        *)
LEMMA RootWriteOrder ==
  ASSUME IInv, IInv', OrderInv, NEW t \in Threads, Step(t), CreateRootCheck(t), is_empty
  PROVE  OrderInv'
<1>1. /\ SharedInv /\ DomainInv /\ ThreadInv(t) /\ CallInv(t) /\ nodes \in NodeMaps /\ NodesOK /\ EmptyInv
      /\ pc[t] = "root_check" /\ CreateRootWrite(t) /\ Frame(t)
  BY FrameStep DEF IInv, SharedInv, ThreadInv, NodesOK, CreateRootCheck
<1>2. /\ call[t].op \in PutCalls /\ call[t].key \in Keys /\ call[t].value \in Values /\ Root \in TreeNames
  BY <1>1, Writer DEF PutPcs
<1>3. /\ \A n \in TreeNames : nodes[n].value = Unused
      /\ \A u \in Threads : pc[u] \in RestPcs \cup {"return"}
  BY <1>1 DEF EmptyInv, Used
<1> DEFINE v == Leaf(call[t].key, call[t].value, NULL)
           w1 == WriteNode(nodes, Root, v)
           w2 == [w1 EXCEPT ![MinLeaf].value.next_leaf = Root]
<1>4. /\ v \in LeafValues /\ v \in NodeValues /\ v.type = "LEAF" /\ v.next_leaf = NULL /\ ~v.dirty
  BY <1>2 DEF Leaf, LeafValues, NodeValues
<1>5. nodes' = release_all_locks(w2, t) /\ pc'[t] = "return"
  BY <1>1 DEF CreateRootWrite, DomainInv
<1> HIDE DEF v
<1>6. Root \in Names /\ MinLeaf \in Names /\ MinLeaf # Root /\ TreeNames \subseteq Names /\ MinLeaf \notin TreeNames /\ Root # NULL
  BY <1>2, TrieNames, NullIsNoName
<1>7. /\ w1 \in NodeMaps /\ w1[Root].value = v /\ \A m \in Names \ {Root} : w1[m] = nodes[m]
  BY <1>1, <1>4, <1>6, WritesNode
<1> HIDE DEF w1
<1>8. nodes[MinLeaf].value \in LeafValues
  <2>1. Fits(MinLeaf, nodes[MinLeaf].value)
    BY <1>1, <1>6 DEF NodesOK
  <2> QED BY <1>6, <2>1, Kinds
<1>9. w1[MinLeaf].value \in LeafValues /\ w1[MinLeaf].value = nodes[MinLeaf].value
  BY <1>6, <1>7, <1>8
<1>10. w2 \in NodeMaps /\ \A n \in Names \ {MinLeaf} : w2[n] = w1[n]
  BY <1>2, <1>7, <1>9, LinksMinLeaf
<1>11. w2[MinLeaf].value.next_leaf = Root /\ w2[MinLeaf].value.dirty = nodes[MinLeaf].value.dirty
  <2>1. w1 = [n \in Names |-> w1[n]] /\ w1[MinLeaf] = [value |-> w1[MinLeaf].value, seq |-> w1[MinLeaf].seq, lock |-> w1[MinLeaf].lock]
    BY <1>6, <1>7 DEF NodeMaps
  <2>2. w2[MinLeaf].value = [w1[MinLeaf].value EXCEPT !.next_leaf = Root]
    BY <1>6, <2>1
  <2> HIDE DEF w2
  <2> QED BY <1>9, <2>2 DEF LeafValues
<1> HIDE DEF w2
<1>12. \A n \in Names : nodes'[n].value = w2[n].value
  BY <1>5, <1>10, ReleasesLocks
<1>13. /\ nodes'[Root].value = v
       /\ nodes'[MinLeaf].value.next_leaf = Root /\ nodes'[MinLeaf].value.dirty = nodes[MinLeaf].value.dirty
       /\ \A n \in TreeNames \ {Root} : nodes'[n].value = Unused
  BY <1>3, <1>6, <1>7, <1>10, <1>11, <1>12
<1>14. \A u \in Threads : pc'[u] \in RestPcs \cup {"return"}
  BY <1>1, <1>3, <1>5 DEF Frame, Same
<1>15. \A u \in Threads : /\ ~Locking(u)' /\ ~WithPred(u)' /\ ~WithPred(u)
                          /\ Hidden(u)' = {}
                          /\ pc'[u] \notin {"descend", "max_leaf", "advance", "resynced"}
  <2> TAKE u \in Threads
  <2>1. pc[u] \in RestPcs \cup {"return"} /\ pc'[u] \in RestPcs \cup {"return"}
    BY <1>3, <1>14
  <2> QED BY <2>1, NowhereNext DEF Locking, WithPred, RestPcs
<1>16. Listed' = {Root} /\ Trie' = {Root}
  <2>1. Unused.type # "LEAF" /\ v # Unused
    BY <1>4 DEF Unused
  <2>2. ASSUME NEW n PROVE n \in Listed' <=> n = Root
    BY <1>2, <1>4, <1>13, <1>15, <2>1 DEF Listed, Used
  <2>3. ASSUME NEW n PROVE n \in Trie' <=> n = Root
    BY <1>2, <1>4, <1>13, <1>15, <2>1, InTrie
  <2> QED BY <2>2, <2>3
<1>17. ListInv'
  <2> SUFFICES ASSUME NEW n \in {Root, MinLeaf} PROVE NextInv(n)'
    BY <1>16 DEF ListInv
  <2>1. CASE n = Root
    <3>1. nodes'[n].value.next_leaf = NULL
      BY <1>4, <1>13, <2>1
    <3>2. \A y \in Listed' : ~Prior(n, y)
      BY <1>2, <1>6, <1>16, <2>1, NamesOrder DEF Prior
    <3> QED BY <3>1, <3>2 DEF NextInv
  <2>2. CASE n = MinLeaf
    <3>1. nodes'[n].value.next_leaf = Root
      BY <1>13, <2>2
    <3>2. Root # NULL /\ Root \in Listed' /\ Prior(n, Root) /\ \A y \in Listed' : Prior(n, y) => Upto(Root, y)
      BY <1>2, <1>6, <1>16, <2>2, NamesOrder DEF Prior, Upto
    <3> HIDE DEF Root
    <3> QED BY <3>1, <3>2 DEF NextInv
  <2> QED BY <2>1, <2>2
<1>18. DirtyInv'
  <2>1. \A n \in Names : nodes'[n].value.type = "LEAF" => ~nodes'[n].value.dirty
    <3> TAKE n \in Names
    <3>1. CASE n = Root
      BY <1>4, <1>13, <3>1
    <3>2. CASE n = MinLeaf
      <4>1. ~nodes[MinLeaf].value.dirty
        BY <1>6, <1>8, <1>15 DEF OrderInv, DirtyInv, LeafValues
      <4> QED BY <1>13, <3>2, <4>1
    <3>3. CASE n # Root /\ n # MinLeaf
      <4>1. nodes'[n].value = Unused
        BY <1>13, <3>3 DEF Names
      <4> QED BY <4>1 DEF Unused
    <3> QED BY <3>1, <3>2, <3>3
  <2> QED BY <1>15, <2>1 DEF DirtyInv
<1>19. MaxInv'
  <2>1. nodes'[Root].value.type = "LEAF"
    BY <1>4, <1>13
  <2> QED BY <1>16, <2>1 DEF MaxInv
<1>20. \A u \in Threads : PlaceInv(u)' /\ SplitInv(u)'
  <2> TAKE u \in Threads
  <2>1. pc'[u] \in AllPcs
    BY DEF IInv, ThreadInv, CallInv
  <2> QED BY <1>15, <2>1, NotPlacing
<1> QED BY <1>17, <1>18, <1>19, <1>20 DEF OrderInv

-----------------------------------------------------------------------------
(* The list and max_leaf. *)

(* The order is kept by every step of a thread, ...                        *)
LEMMA StepOrder ==
  ASSUME IInv, IInv', OrderInv, NEW t \in Threads, Step(t)
  PROVE  OrderInv'
<1>1. CASE Start(t) \/ Return(t) \/ init_finger(t) \/ descend(t)
  BY <1>1, CallOrder
<1>2. CASE create_root(t)
  <2>1. CASE CreateRootCheck(t) /\ is_empty
    BY <2>1, RootWriteOrder
  <2>2. CASE ~(CreateRootCheck(t) /\ is_empty)
    BY <1>2, <2>2, RootOrder
  <2> QED BY <2>1, <2>2
<1>3. CASE get_predecessor_atomic(t)
  BY <1>3, PredecessorOrder
<1>4. CASE create_leaf(t)
  <2>1. CASE split_jump_node(t) \/ LockPath(t) \/ LockPredecessor(t) \/ WriteHead(t)
    BY <2>1, SplitJumpOrder, LockPathOrder, LockPredecessorOrder, HeadOrder
  <2>2. CASE LinkLeaves(t)
    BY <2>2, LinkOneOrder, LinkTwoOrder
  <2>3. CASE mark_bitmap_child(t) \/ propagate_max_leaf(t) \/ Clean(t)
    BY <2>3, MarkOrder, PropagateOrder, CleanOrder
  <2> QED BY <1>4, <2>1, <2>2, <2>3 DEF create_leaf
<1>5. CASE SetValue(t)
  BY <1>5, SetValueOrder
<1>6. CASE Iterate(t)
  BY <1>6, IterateOrder
<1> QED BY <1>1, <1>2, <1>3, <1>4, <1>5, <1>6 DEF Step

(* ... by a step that changes nothing, ...                                 *)
LEMMA StutterOrder ==
  ASSUME OrderInv, UNCHANGED vars
  PROVE  OrderInv'
<1>1. UNCHANGED <<is_empty, nodes, calls, call, pc, path, subtree, pred, new_leaf, level, iter, index, cursor>>
  BY DEF vars
<1>2. \A u \in Threads : Same(u) /\ Hidden(u)' = Hidden(u)
  BY <1>1, HiddenKeeps DEF Same
<1>3. Trie' = Trie /\ Listed' = Listed
  <2>1. Trie' = Trie
    BY <1>1, <1>2, TrieSame
  <2>2. Listed' = Listed
    BY <1>1, <1>2, ListedSame
  <2> QED BY <2>1, <2>2
<1>4. \A u \in Threads : /\ (WithPred(u)' <=> WithPred(u)) /\ (Splitting(u)' <=> Splitting(u)) /\ (Placing(u)' <=> Placing(u))
                         /\ (Putting(u)' <=> Putting(u)) /\ (Locking(u)' <=> Locking(u))
                         /\ Target(u)' = Target(u) /\ FirstNewLeaf(u)' = FirstNewLeaf(u) /\ Level(u)' = Level(u)
                         /\ pred_locator(u)' = pred_locator(u)
  BY <1>2, SameNames
<1>5. ListInv'
  <2> SUFFICES ASSUME NEW n \in Listed \cup {MinLeaf} PROVE NextInv(n)'
    BY <1>3 DEF ListInv
  <2>1. NextInv(n)
    BY DEF OrderInv, ListInv
  <2>2. nodes'[n].value.next_leaf = nodes[n].value.next_leaf
    BY <1>1
  <2> DEFINE v == nodes[n].value.next_leaf
  <2>3. (\E u \in Threads : Splitting(u) /\ Last(path[u]).name = v /\ pred[u].name = n) =>
          \E u \in Threads : Splitting(u)' /\ Last(path'[u]).name = v /\ pred'[u].name = n
    BY <1>1, <1>4
  <2> QED BY <1>3, <2>1, <2>2, <2>3 DEF NextInv
<1>6. DirtyInv'
  BY <1>1, <1>4 DEF OrderInv, DirtyInv
<1>7. MaxInv'
  <2> SUFFICES ASSUME NEW q \in Trie, nodes[q].value.type \in {"BITMAP", "JUMP"}
               PROVE  MaxRight(q)' \/ \E u \in Threads : Stale(u, q)'
    BY <1>1, <1>3 DEF MaxInv
  <2>1. MaxRight(q) => MaxRight(q)'
    BY <1>1, <1>3 DEF MaxRight
  <2>2. ASSUME NEW u \in Threads, Stale(u, q) PROVE Stale(u, q)'
    BY <1>1, <1>4, <2>2 DEF Stale
  <2> QED BY <2>1, <2>2 DEF OrderInv, MaxInv
<1>8. ASSUME NEW u \in Threads PROVE PlaceInv(u)' /\ SplitInv(u)'
  <2>1. PlaceInv(u) /\ SplitInv(u)
    BY DEF OrderInv
  <2>2. PlaceInv(u)'
    BY <1>1, <1>3, <1>4, <2>1 DEF PlaceInv
  <2>3. SplitInv(u)'
    BY <1>1, <1>3, <1>4, <2>1 DEF SplitInv
  <2> QED BY <2>2, <2>3
<1> QED BY <1>5, <1>6, <1>7, <1>8 DEF OrderInv

(* ... and it holds at first.                                              *)
LEMMA InitOrder ==
  ASSUME Init
  PROVE  OrderInv
<1>1. \A n \in Names : nodes[n].value = (IF n = MinLeaf THEN Leaf(NULL, NULL, NULL) ELSE Unused)
  BY DEF Init
<1>2. \A t \in Threads : pc[t] = "idle"
  BY DEF Init
<1>3. TreeNames \subseteq Names /\ MinLeaf \in Names /\ MinLeaf \notin TreeNames
  BY TrieNames, NullIsNoName
<1>4. Listed = {} /\ Trie = {}
  <2>1. Used = {}
    BY <1>1, <1>3 DEF Used
  <2> QED BY <2>1 DEF Listed, Trie
<1>5. ListInv
  <2>1. nodes[MinLeaf].value.next_leaf = NULL
    BY <1>1, <1>3 DEF Leaf
  <2> QED BY <1>4, <2>1 DEF ListInv, NextInv
<1>6. \A t \in Threads : ~WithPred(t) /\ ~Locking(t) /\ ~Placing(t) /\ ~Putting(t) /\ ~Splitting(t)
  BY <1>2 DEF WithPred, Locking, Placing, Putting, Splitting
<1>7. DirtyInv
  BY <1>1, <1>6 DEF DirtyInv, Leaf, Unused
<1>8. MaxInv
  BY <1>4 DEF MaxInv
<1>9. \A t \in Threads : PlaceInv(t) /\ SplitInv(t)
  BY <1>2, <1>6 DEF PlaceInv, SplitInv, RestPcs
<1> QED BY <1>5, <1>7, <1>8, <1>9 DEF OrderInv

(* Whatever the threads do, the leaf list is in order and max_leaf is the  *)
(* largest leaf below a node, up to what the threads that are at work have *)
(* locked and not written yet; a leaf is dirty only while a thread adds    *)
(* one after it, and a thread that adds a leaf has locked its predecessor. *)
THEOREM OrderHolds == Spec => []OrderInv
<1>1. Init => OrderInv
  BY InitOrder
<1>2. IInv /\ IInv' /\ OrderInv /\ [Next]_vars => OrderInv'
  BY StepOrder, StutterOrder DEF Next, Done
<1>3. Spec => []IInv
  BY StructureHolds
<1> QED BY <1>1, <1>2, <1>3, PTL DEF Spec

(* What IsPrefix says of names. *)
LEMMA PrefixIsAbove ==
  ASSUME NEW a \in Seq(Nat), NEW b \in Seq(Nat)
  PROVE  IsPrefix(a, b) <=> Above(a, b)
<1>1. IsPrefix(a, b) <=> Len(a) <= Len(b) /\ SubSeq(a, 1, Len(a)) = SubSeq(b, 1, Len(a))
  BY DEF IsPrefix
<1>2. Len(a) \in Nat /\ Len(b) \in Nat /\ Above(a, a)
  BY AboveSelf
<1>3. SubSeq(a, 1, Len(a)) = a
  BY <1>2, AboveSubSeq
<1>4. ASSUME Len(a) <= Len(b) PROVE a = SubSeq(b, 1, Len(a)) <=> Above(a, b)
  <2>1. Len(a) \in 0..Len(b)
    BY <1>2, <1>4
  <2>2. /\ Above(SubSeq(b, 1, Len(a)), b)
        /\ \A x \in Seq(Nat) : Above(x, b) /\ Len(x) = Len(a) => x = SubSeq(b, 1, Len(a))
    BY <2>1, AboveSubSeq
  <2> QED BY <2>2
<1>5. Above(a, b) => Len(a) <= Len(b)
  BY DEF Above
<1> QED BY <1>1, <1>3, <1>4, <1>5

(* When nobody inserts, every key of the index has its leaf in the list,   *)
(* and every leaf of the list is that of a key.                            *)
LEMMA LeafOfKey ==
  ASSUME IInv, ~is_empty, \A t \in Threads : ~Locking(t)
  PROVE  /\ \A k \in DOMAIN index : /\ k \in Keys /\ NodeOf(k) \in Listed /\ NodeOf(k) \in Trie /\ NodeOf(k) \in TreeNames
                                    /\ nodes[NodeOf(k)].value.type = "LEAF" /\ nodes[NodeOf(k)].value.key = k
                                    /\ Above(NodeOf(k), KeySymbols(k))
         /\ \A n \in Trie : nodes[n].value.type = "LEAF" => nodes[n].value.key \in DOMAIN index /\ n = NodeOf(nodes[n].value.key)
         /\ \A n \in Listed : n \in Trie /\ nodes[n].value.type = "LEAF"
<1>1. SharedInv /\ IndexInv /\ DOMAIN index \subseteq Keys
  BY DEF IInv, SharedInv, IndexInv
<1>2. ASSUME NEW k \in DOMAIN index
      PROVE  /\ k \in Keys /\ NodeOf(k) \in Listed /\ NodeOf(k) \in Trie /\ NodeOf(k) \in TreeNames
             /\ nodes[NodeOf(k)].value.type = "LEAF" /\ nodes[NodeOf(k)].value.key = k
             /\ Above(NodeOf(k), KeySymbols(k))
  <2>1. k \in Keys
    BY <1>1
  <2>2. NodeOf(k) \in Trie /\ Above(NodeOf(k), KeySymbols(k)) /\ NameBelow(Read(NodeOf(k)), k) = NULL
    BY <1>1, <2>1, NodeOfEnds
  <2>3. HasKey(Read(NodeOf(k)), k)
    BY <1>1, <2>1, <2>2, StuckFinds
  <2>4. nodes[NodeOf(k)].value.type = "LEAF" /\ nodes[NodeOf(k)].value.key = k
    BY <2>3 DEF HasKey, Read
  <2> QED BY <2>1, <2>2, <2>4, ListedPart, TrieNames
<1>3. ASSUME NEW n \in Trie, nodes[n].value.type = "LEAF"
      PROVE  nodes[n].value.key \in DOMAIN index /\ n = NodeOf(nodes[n].value.key)
  <2> DEFINE k == nodes[n].value.key
  <2>1. k \in DOMAIN index
    BY <1>1, <1>3 DEF IndexInv
  <2> HIDE DEF k
  <2>2. k \in Keys /\ NodeOf(k) \in Trie /\ nodes[NodeOf(k)].value.type = "LEAF" /\ Above(NodeOf(k), KeySymbols(k))
    BY <1>2, <2>1
  <2> DEFINE e == NodeOf(k)
  <2> HIDE DEF e
  <2>3. e \in Trie /\ nodes[e].value.type = "LEAF" /\ Above(e, KeySymbols(k))
    BY <2>2 DEF e
  <2>4. Below(e, nodes[e].value) = {}
    BY <1>1, <2>3, TrieChildren
  <2>5. n = e
    BY <1>1, <1>3, <2>2, <2>3, <2>4, LeafIsAtEnd DEF k
  <2> QED BY <2>1, <2>5 DEF k, e
<1>4. ASSUME NEW n \in Listed PROVE n \in Trie /\ nodes[n].value.type = "LEAF"
  <2>1. \A u \in Threads : ~Putting(u)
    BY DEF Putting, Locking
  <2> QED BY <2>1, ListedPart
<1> QED BY <1>2, <1>3, <1>4

(* The leaves of keys are in the order of the keys.                        *)
LEMMA LeavesOrdered ==
  ASSUME IInv, ~is_empty, \A t \in Threads : ~Locking(t), NEW j \in DOMAIN index, NEW k \in DOMAIN index
  PROVE  Less(j, k) <=> Before(NodeOf(j), NodeOf(k))
<1> DEFINE a == NodeOf(j)
           b == NodeOf(k)
           ka == KeySymbols(j)
           kb == KeySymbols(k)
<1>1. /\ j \in Keys /\ k \in Keys /\ a \in Listed /\ b \in Listed /\ a \in TreeNames /\ b \in TreeNames
      /\ Above(a, ka) /\ Above(b, kb) /\ nodes[a].value.key = j /\ nodes[b].value.key = k
  BY LeafOfKey
<1>2. ka \in TreeNames /\ kb \in TreeNames
  BY <1>1, RootName
<1>3. Less(j, k) <=> Before(ka, kb)
  BY <1>1, KeysAreSequences, LessIsBefore
<1> HIDE DEF a, b, ka, kb
<1>4. Before(a, b) => Before(ka, kb)
  BY <1>1, <1>2, NamesOrder
<1>5. Before(b, a) => Before(kb, ka)
  BY <1>1, <1>2, NamesOrder
<1>6. a = b => ka = kb
  BY <1>1 DEF ka, kb
<1>7. a = b \/ Before(a, b) \/ Before(b, a)
  BY <1>1, ListedOrder
<1>8. Before(ka, kb) => ka # kb /\ ~Before(kb, ka)
  BY <1>2, NamesOrder
<1> QED BY <1>3, <1>4, <1>5, <1>6, <1>7, <1>8 DEF a, b

(* With the order, and without calls, the trie verifies.                   *)
LEMMA QuietVerifies ==
  ASSUME IInv, OrderInv
  PROVE  QuietTrieVerifies
<1> SUFFICES ASSUME \A t \in Threads : call[t] = NULL, ~is_empty
             PROVE  /\ IsFirstLeaf(nodes[MinLeaf].value.next_leaf, DOMAIN index)
                    /\ \A k \in DOMAIN index :
                         /\ HasKey(Read(NodeOf(k)), k)
                         /\ IsFirstLeaf(nodes[NodeOf(k)].value.next_leaf, {x \in DOMAIN index : Less(k, x)})
                    /\ \A n \in Names :
                         /\ nodes[n].lock = NULL
                         /\ nodes[n].value.type = "LEAF" => ~nodes[n].value.dirty
                         /\ nodes[n].value.type \in {"BITMAP", "JUMP"} =>
                              \E k \in DOMAIN index : /\ nodes[n].value.max_leaf = NodeOf(k) /\ IsPrefix(n, NodeOf(k))
                                                      /\ \A x \in DOMAIN index : IsPrefix(n, NodeOf(x)) => LessEq(x, k)
  BY DEF QuietTrieVerifies
<1>1. SharedInv /\ \A t \in Threads : CallInv(t)
  BY DEF IInv, ThreadInv
<1>2. \A t \in Threads : ~Locking(t) /\ pc[t] # "root_check"
  <2> SUFFICES ASSUME NEW t \in Threads, Locking(t) \/ pc[t] = "root_check" PROVE FALSE
    OBVIOUS
  <2>1. pc[t] \in PutPcs \/ Locking(t)
    BY DEF PutPcs
  <2>2. pc[t] # "idle" /\ call[t].op \notin IterCalls
    BY <1>1, <2>1, Writer
  <2> QED BY <1>1, <2>2, InCall
<1>3. \A t \in Threads : ~WithPred(t) /\ ~Splitting(t) /\ ~Putting(t) /\ Hidden(t) = {}
  BY <1>2 DEF WithPred, Splitting, Putting, Hidden, Locking
<1>4. \A n \in Names : nodes[n].lock = NULL
  <2> TAKE n \in Names
  <2>1. nodes[n].lock \in Threads \cup {NULL}
    BY <1>1, NodeIs DEF SharedInv, NodesOK
  <2> QED BY <1>1, <1>2, <2>1 DEF SharedInv, ReleaseInv
<1>5. \A n \in Names : nodes[n].value.type = "LEAF" => ~nodes[n].value.dirty
  BY <1>3 DEF OrderInv, DirtyInv
<1>6. /\ \A k \in DOMAIN index : /\ k \in Keys /\ NodeOf(k) \in Listed /\ NodeOf(k) \in Trie /\ NodeOf(k) \in TreeNames
                                 /\ nodes[NodeOf(k)].value.type = "LEAF" /\ nodes[NodeOf(k)].value.key = k
                                 /\ Above(NodeOf(k), KeySymbols(k))
      /\ \A n \in Trie : nodes[n].value.type = "LEAF" => nodes[n].value.key \in DOMAIN index /\ n = NodeOf(nodes[n].value.key)
      /\ \A n \in Listed : n \in Trie /\ nodes[n].value.type = "LEAF"
  BY <1>2, LeafOfKey
<1>7. \A j, k \in DOMAIN index : Less(j, k) <=> Before(NodeOf(j), NodeOf(k))
  BY <1>2, LeavesOrdered
<1>8. /\ TreeNames \subseteq Names /\ MinLeaf \in Names /\ MinLeaf \notin TreeNames
  BY TrieNames, NullIsNoName
<1>9. ASSUME NEW n \in Listed \cup {MinLeaf}
      PROVE  IsFirstLeaf(nodes[n].value.next_leaf, {x \in DOMAIN index : Prior(n, NodeOf(x))})
  <2> DEFINE v == nodes[n].value.next_leaf
             S == {x \in DOMAIN index : Prior(n, NodeOf(x))}
  <2>1. NextInv(n)
    BY DEF OrderInv, ListInv
  <2>2. CASE v = NULL
    <3>1. \A y \in Listed : ~Prior(n, y)
      BY <2>1, <2>2 DEF NextInv
    <3>2. S = {}
      BY <1>6, <3>1
    <3> QED BY <2>2, <3>2 DEF IsFirstLeaf
  <2>3. CASE v # NULL
    <3>1. Prior(n, v) /\ v \in Listed /\ \A y \in Listed : Prior(n, y) => Upto(v, y)
      BY <1>3, <2>1, <2>3 DEF NextInv
    <3> DEFINE k == nodes[v].value.key
    <3> HIDE DEF v
    <3>2. k \in DOMAIN index /\ v = NodeOf(k)
      BY <1>6, <3>1
    <3> HIDE DEF k
    <3>3. k \in S
      BY <3>1, <3>2
    <3>4. ASSUME NEW x \in S PROVE LessEq(k, x)
      <4>1. x \in DOMAIN index /\ NodeOf(x) \in Listed /\ Upto(v, NodeOf(x))
        BY <1>6, <3>1, <3>4
      <4>2. v = NodeOf(x) \/ Before(v, NodeOf(x))
        BY <3>1, <4>1, ListedOrder
      <4>3. v = NodeOf(x) => k = x
        BY <1>6, <3>2, <4>1
      <4>4. Before(v, NodeOf(x)) => Less(k, x)
        BY <1>7, <3>2, <4>1
      <4> QED BY <4>2, <4>3, <4>4 DEF LessEq
    <3>5. S # {} /\ \E j \in S : v = NodeOf(j) /\ \A x \in S : LessEq(j, x)
      BY <3>2, <3>3, <3>4
    <3> HIDE DEF S
    <3>6. IsFirstLeaf(v, S)
      BY <3>5 DEF IsFirstLeaf
    <3> QED BY <3>6 DEF v, S
  <2> QED BY <2>2, <2>3
<1>10. IsFirstLeaf(nodes[MinLeaf].value.next_leaf, DOMAIN index)
  <2>1. {x \in DOMAIN index : Prior(MinLeaf, NodeOf(x))} = DOMAIN index
    BY DEF Prior
  <2>2. IsFirstLeaf(nodes[MinLeaf].value.next_leaf, {x \in DOMAIN index : Prior(MinLeaf, NodeOf(x))})
    BY <1>9
  <2> QED BY <2>1, <2>2
<1>11. ASSUME NEW k \in DOMAIN index
       PROVE  IsFirstLeaf(nodes[NodeOf(k)].value.next_leaf, {x \in DOMAIN index : Less(k, x)})
  <2> DEFINE n == NodeOf(k)
  <2>1. n \in Listed /\ n # MinLeaf
    BY <1>6, <1>8
  <2>2. \A x \in DOMAIN index : Prior(n, NodeOf(x)) <=> Less(k, x)
    BY <1>7, <2>1 DEF Prior
  <2> HIDE DEF n
  <2>3. IsFirstLeaf(nodes[n].value.next_leaf, {x \in DOMAIN index : Prior(n, NodeOf(x))})
    BY <1>9, <2>1
  <2>4. {x \in DOMAIN index : Prior(n, NodeOf(x))} = {x \in DOMAIN index : Less(k, x)}
    BY <2>2
  <2> QED BY <2>3, <2>4 DEF n
<1>12. ASSUME NEW n \in Names, nodes[n].value.type \in {"BITMAP", "JUMP"}
       PROVE  \E k \in DOMAIN index : /\ nodes[n].value.max_leaf = NodeOf(k) /\ IsPrefix(n, NodeOf(k))
                                      /\ \A x \in DOMAIN index : IsPrefix(n, NodeOf(x)) => LessEq(x, k)
  <2> DEFINE l == nodes[n].value.max_leaf
             k == nodes[l].value.key
  <2>1. n \in Trie /\ n \in TreeNames
    <3>1. n # MinLeaf
      <4>1. Fits(n, nodes[n].value)
        BY <1>1 DEF SharedInv, NodesOK
      <4>2. nodes[MinLeaf].value.type = "LEAF"
        BY <1>1, <1>8, Kinds DEF SharedInv, NodesOK
      <4> QED BY <1>12, <4>2
    <3>2. n \in TreeNames /\ nodes[n].value # Unused
      BY <1>12, <3>1 DEF Names, Unused
    <3> QED BY <1>3, <3>2, InTrie
  <2>2. MaxRight(n)
    <3>1. ~\E u \in Threads : Stale(u, n)
      BY <1>2, StaleLocked
    <3> QED BY <1>12, <2>1, <3>1 DEF OrderInv, MaxInv
  <2>3. l \in Trie /\ nodes[l].value.type = "LEAF" /\ Above(n, l) /\ \A x \in Trie : Above(n, x) => Upto(x, l)
    BY <2>2 DEF MaxRight
  <2>4. l \in TreeNames /\ l \in Listed /\ l = NodeOf(k) /\ k \in DOMAIN index
    BY <1>6, <2>3, ListedPart, TrieNames
  <2> HIDE DEF l, k
  <2>5. \A x \in TreeNames : IsPrefix(n, x) <=> Above(n, x)
    BY <2>1, NamesOfTree, PrefixIsAbove
  <2>6. ASSUME NEW x \in DOMAIN index, IsPrefix(n, NodeOf(x)) PROVE LessEq(x, k)
    <3>1. Above(n, NodeOf(x)) /\ NodeOf(x) \in Trie /\ NodeOf(x) \in Listed
      BY <1>6, <2>5, <2>6
    <3>2. Upto(NodeOf(x), l)
      BY <2>3, <3>1
    <3>3. NodeOf(x) = l \/ Before(NodeOf(x), l)
      BY <2>4, <3>1, <3>2, ListedOrder
    <3>4. NodeOf(x) = l => x = k
      BY <1>6, <2>4
    <3>5. Before(NodeOf(x), l) => Less(x, k)
      BY <1>7, <2>4
    <3> QED BY <3>3, <3>4, <3>5 DEF LessEq
  <2>7. l = NodeOf(k) /\ IsPrefix(n, NodeOf(k))
    BY <2>3, <2>4, <2>5
  <2> QED BY <2>4, <2>6, <2>7 DEF l
<1>13. \A k \in DOMAIN index : HasKey(Read(NodeOf(k)), k)
  BY <1>6 DEF HasKey, Read
<1> QED BY <1>4, <1>5, <1>10, <1>11, <1>12, <1>13

(* Between the calls of all threads the trie passes ct_verify_trie: the    *)
(* leaf list goes through the leaves of all keys of the index in their     *)
(* order, max_leaf is the largest leaf below each node, no leaf is dirty   *)
(* and nothing is locked.                                                  *)
THEOREM QuietVerified == Spec => []QuietTrieVerifies
<1>1. IInv /\ OrderInv => QuietTrieVerifies
  BY QuietVerifies
<1> QED BY <1>1, StructureHolds, OrderHolds, PTL

=============================================================================
