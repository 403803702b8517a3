-------------------------- MODULE ConcurrentTrieOrder --------------------------
(***************************************************************************)
(* The leaf list and the max_leaf of every node, while any number of       *)
(* threads insert.  next_leaf of a leaf in the list is the leaf after it,  *)
(* or one that a thread has split and whose parts it is about to link;     *)
(* max_leaf of a node is the largest leaf below it, or a thread that       *)
(* has the node locked is on its way up to correct it.  This module states *)
(* the invariant and shows that it is kept by the steps that insert nothing,*)
(* by the search for the predecessor, and by the way up;                   *)
(* ConcurrentTrieVerified shows it for the rest of an insert.              *)
(***************************************************************************)
EXTENDS ConcurrentTrieProofs

-----------------------------------------------------------------------------
(* The invariant. *)

(* The first symbol in which the names differ is smaller in a.             *)
Before(a, b) ==
  \E i \in 1..Len(a) : i <= Len(b) /\ a[i] < b[i] /\ \A j \in 1..(i - 1) : a[j] = b[j]

(* Every name at or below b is at or below a, or a comes before it.        *)
Upto(a, b) == Above(a, b) \/ Before(a, b)

(* min_leaf comes before all leaves.                                       *)
Prior(n, m) == n = MinLeaf \/ Before(n, m)

(* The leaves that are in the list, or about to replace one that is.       *)
Listed == {n \in Used : nodes[n].value.type = "LEAF" /\ \A u \in Threads : n \in Hidden(u) => pc[u] = "mark"}

(* The thread has split a leaf and not yet linked the two new leaves.      *)
Splitting(t) == pc[t] = "link" /\ call[t].ret # Pending

(* next_leaf of n is the first listed leaf after n, or a leaf after n that *)
(* is being split, whose place two new leaves take.                        *)
NextInv(n) ==
  LET v == nodes[n].value.next_leaf
  IN  IF v = NULL THEN \A y \in Listed : ~Prior(n, y)
      ELSE /\ Prior(n, v)
           /\ \A y \in Listed : Prior(n, y) => Upto(v, y)
           /\ v \in Listed \/ \E u \in Threads : Splitting(u) /\ Last(path[u]).name = v /\ pred[u].name = n

(* The leaf list goes from min_leaf through the leaves in their order.     *)
ListInv == \A n \in Listed \cup {MinLeaf} : NextInv(n)

(* A leaf is dirty exactly while a writer has it as its predecessor.       *)
DirtyInv ==
  /\ \A n \in Names : nodes[n].value.type = "LEAF" /\ nodes[n].value.dirty =>
       \E u \in Threads : WithPred(u) /\ pred[u].name = n
  /\ \A u \in Threads : WithPred(u) => pred[u].value.dirty

(* The place the thread inserts at: the new child of a bitmap, or the leaf *)
(* or jump node it splits.                                                 *)
Target(t) ==
  IF Last(path[t]).value.type = "BITMAP" THEN NewChildName(Last(path[t]), call[t].key) ELSE Last(path[t]).name

(* The thread knows the predecessor of its target.                         *)
Placing(t) == (pc[t] = "lock_pred" /\ ~pred[t].value.dirty) \/ pc[t] = "head" \/ (pc[t] = "link" /\ call[t].ret = Pending)

(* What a writer knows of the list: its target lies between its predecessor*)
(* and the leaf after it, and that is where its new leaf goes.             *)
PlaceInv(t) ==
  LET c == Last(path[t])
      next == pred[t].value.next_leaf
  IN
  /\ pc[t] \notin RestPcs \cup {"return"} /\ call[t].op \in PutCalls => path[t][1].name = Root
  /\ pc[t] = "max_leaf" /\ Locking(t) => pred_locator(t) # NULL /\ subtree[t].name = pred_locator(t).name
  /\ pc[t] = "lock_pred" \/ WithPred(t) => pred[t].name \in Trie \cup {MinLeaf}
  /\ Placing(t) => /\ Prior(pred[t].name, Target(t))
                   /\ IF c.value.type = "BITMAP" THEN next = NULL \/ Before(Target(t), next) ELSE next = c.name
  /\ pc[t] = "head" => new_leaf[t] = FirstNewLeaf(t)
  /\ Putting(t) => new_leaf[t] = Target(t)
  /\ pc[t] = "link" /\ call[t].ret = Pending => nodes[new_leaf[t]].value.next_leaf = next
  /\ pc[t] = "mark" => next = new_leaf[t]

(* Others that add leaves below the split one add them after the first.    *)
SplitInv(t) ==
  Splitting(t) =>
    /\ pred[t].value.next_leaf = Last(path[t]).name
    /\ new_leaf[t] \in Listed /\ nodes[new_leaf[t]].lock = t /\ Above(Last(path[t]).name, new_leaf[t])
    /\ \A y \in Listed : Above(Last(path[t]).name, y) => Upto(new_leaf[t], y)

(* From position i to m the path p goes to the largest children.           *)
Rightmost(p, i, m) ==
  \A k \in i..(m - 1) : p[k].value.type = "JUMP" \/ last_symbol(p[k + 1]) = max_child(p[k].value)

(* Above this position the thread has yet to correct max_leaf.             *)
Level(t) == IF pc[t] = "link" THEN Len(path[t]) ELSE level[t]

(* The thread is about to correct max_leaf of q.                           *)
Stale(t, q) ==
  /\ Splitting(t) \/ pc[t] = "propagate"
  /\ \E j \in 1..(Level(t) - 1) : Rightmost(path[t], j, Level(t)) /\ path[t][j].name = q
  /\ nodes[q].value.max_leaf \in {pred[t].name, Last(path[t]).name}

(* max_leaf of q is the largest leaf below q.                              *)
MaxRight(q) ==
  LET l == nodes[q].value.max_leaf
  IN  l \in Trie /\ nodes[l].value.type = "LEAF" /\ Above(q, l) /\ \A x \in Trie : Above(q, x) => Upto(x, l)

(* Every max_leaf is right, or about to be corrected.                      *)
MaxInv == \A q \in Trie : nodes[q].value.type \in {"BITMAP", "JUMP"} => MaxRight(q) \/ \E u \in Threads : Stale(u, q)

(* The order of the leaves that every step keeps.                          *)
OrderInv == ListInv /\ DirtyInv /\ MaxInv /\ \A t \in Threads : PlaceInv(t) /\ SplitInv(t)

-----------------------------------------------------------------------------
(* The order of names. *)

(* One of two names is above or before the other.                          *)
LEMMA OrderTotal ==
  ASSUME NEW a \in Seq(Nat), NEW b \in Seq(Nat)
  PROVE  Above(a, b) \/ Above(b, a) \/ Before(a, b) \/ Before(b, a)
<1> DEFINE d == CommonLength(a, b)
<1>1. /\ d \in Nat /\ d <= Len(a) /\ d <= Len(b) /\ \A j \in 1..d : a[j] = b[j]
      /\ d < Len(a) /\ d < Len(b) => a[d + 1] # b[d + 1]
  BY CommonPart
<1> HIDE DEF d
<1>2. CASE d = Len(a)
  BY <1>1, <1>2 DEF Above
<1>3. CASE d = Len(b)
  BY <1>1, <1>3 DEF Above
<1>4. CASE d < Len(a) /\ d < Len(b)
  <2>1. d + 1 \in 1..Len(a) /\ d + 1 \in 1..Len(b) /\ a[d + 1] \in Nat /\ b[d + 1] \in Nat /\ (d + 1) - 1 = d
    BY <1>1, <1>4
  <2>2. a[d + 1] < b[d + 1] \/ b[d + 1] < a[d + 1]
    BY <1>1, <1>4, <2>1
  <2> QED BY <1>1, <2>1, <2>2 DEF Before
<1> QED BY <1>1, <1>2, <1>3, <1>4

(* Not both, and not in both directions.                                   *)
LEMMA OrderApart ==
  ASSUME NEW a \in Seq(Nat), NEW b \in Seq(Nat), Before(a, b)
  PROVE  ~Above(a, b) /\ ~Above(b, a) /\ ~Before(b, a) /\ a # b
<1>1. PICK i \in 1..Len(a) : i <= Len(b) /\ a[i] < b[i] /\ \A j \in 1..(i - 1) : a[j] = b[j]
  BY DEF Before
<1>2. i \in 1..Len(b) /\ a[i] \in Nat /\ b[i] \in Nat
  BY <1>1
<1>3. ~Above(a, b) /\ ~Above(b, a) /\ a # b
  BY <1>1, <1>2 DEF Above
<1>4. ASSUME Before(b, a) PROVE FALSE
  <2>1. PICK k \in 1..Len(b) : k <= Len(a) /\ b[k] < a[k] /\ \A j \in 1..(k - 1) : b[j] = a[j]
    BY <1>4 DEF Before
  <2>2. CASE k < i
    BY <1>1, <2>1, <2>2
  <2>3. CASE i < k
    BY <1>1, <2>1, <2>3
  <2>4. CASE i = k
    BY <1>1, <1>2, <2>1, <2>4
  <2> QED BY <2>2, <2>3, <2>4
<1> QED BY <1>3, <1>4

(* Before, for functions of which the first la and lb values count.        *)
FirstLess(a, la, b, lb) == \E i \in 1..la : i <= lb /\ a[i] < b[i] /\ \A j \in 1..(i - 1) : a[j] = b[j]
NatsUpTo(a, la) == la \in Nat /\ \A j \in 1..la : a[j] \in Nat

(* If b first differs from a at position i, and from c at position k, then *)
(* c first differs from a at the smaller of the two.                       *)
LEMMA FirstDifference ==
  \A a, b, c, la, lb, lc :
    /\ NatsUpTo(a, la) /\ NatsUpTo(b, lb) /\ NatsUpTo(c, lc)
    /\ FirstLess(a, la, b, lb) /\ FirstLess(b, lb, c, lc)
    => FirstLess(a, la, c, lc)
<1> SUFFICES ASSUME NEW a, NEW b, NEW c, NEW la, NEW lb, NEW lc,
                    NatsUpTo(a, la), NatsUpTo(b, lb), NatsUpTo(c, lc),
                    FirstLess(a, la, b, lb), FirstLess(b, lb, c, lc)
             PROVE  FirstLess(a, la, c, lc)
  OBVIOUS
<1> USE DEF NatsUpTo
<1>1. PICK i \in 1..la : i <= lb /\ a[i] < b[i] /\ \A j \in 1..(i - 1) : a[j] = b[j]
  BY DEF FirstLess
<1>2. PICK k \in 1..lb : k <= lc /\ b[k] < c[k] /\ \A j \in 1..(k - 1) : b[j] = c[j]
  BY DEF FirstLess
<1>3. i \in 1..lb /\ k \in 1..lc
  BY <1>1, <1>2
<1>4. CASE i < k
  <2>1. i \in 1..(k - 1) /\ i <= lc /\ \A j \in 1..(i - 1) : j \in 1..(k - 1)
    BY <1>3, <1>4
  <2> QED BY <1>1, <1>2, <2>1 DEF FirstLess
<1>5. CASE k <= i
  <2>1. k \in 1..la /\ (k = i \/ k \in 1..(i - 1)) /\ \A j \in 1..(k - 1) : j \in 1..(i - 1)
    BY <1>3, <1>5
  <2>2. a[k] \in Nat /\ b[k] \in Nat /\ c[k] \in Nat
    BY <1>3, <2>1
  <2>3. a[k] = b[k] \/ a[k] < b[k]
    BY <1>1, <2>1
  <2>4. a[k] < c[k]
    BY <1>2, <2>2, <2>3
  <2> QED BY <1>1, <1>2, <2>1, <2>4 DEF FirstLess
<1> QED BY <1>3, <1>4, <1>5

(* Before is transitive.                                                   *)
LEMMA OrderTrans ==
  ASSUME NEW a \in Seq(Nat), NEW b \in Seq(Nat), NEW c \in Seq(Nat), Before(a, b), Before(b, c)
  PROVE  Before(a, c)
<1>1. \A s \in Seq(Nat) : NatsUpTo(s, Len(s))
  BY DEF NatsUpTo
<1>2. \A x, y : Before(x, y) <=> FirstLess(x, Len(x), y, Len(y))
  BY Zenon DEF Before, FirstLess
<1> QED BY <1>1, <1>2, FirstDifference, Zenon

(* What is below a name is before and after the same names, ...            *)
LEMMA OrderBelow ==
  ASSUME NEW a \in Seq(Nat), NEW b \in Seq(Nat), NEW c \in Seq(Nat), Before(a, b)
  PROVE  (Above(b, c) => Before(a, c)) /\ (Above(a, c) => Before(c, b))
<1>1. PICK i \in 1..Len(a) : i <= Len(b) /\ a[i] < b[i] /\ \A j \in 1..(i - 1) : a[j] = b[j]
  BY DEF Before
<1>2. ASSUME Above(b, c) PROVE Before(a, c)
  <2>1. i <= Len(c) /\ a[i] < c[i] /\ \A j \in 1..(i - 1) : a[j] = c[j]
    BY <1>1, <1>2, SMTT(30) DEF Above
  <2> QED BY <2>1 DEF Before
<1>3. ASSUME Above(a, c) PROVE Before(c, b)
  <2>1. i \in 1..Len(c) /\ c[i] < b[i] /\ \A j \in 1..(i - 1) : c[j] = b[j]
    BY <1>1, <1>3, SMTT(30) DEF Above
  <2> QED BY <1>1, <2>1 DEF Before
<1> QED BY <1>2, <1>3

(* ... and what is above it too, unless it is above both.                  *)
LEMMA OrderAbove ==
  ASSUME NEW a \in Seq(Nat), NEW b \in Seq(Nat), NEW c \in Seq(Nat), Before(a, b)
  PROVE  /\ Above(c, b) => Before(a, c) \/ Above(c, a)
         /\ Above(c, a) => Before(c, b) \/ Above(c, b)
<1>1. PICK i \in 1..Len(a) : i <= Len(b) /\ a[i] < b[i] /\ \A j \in 1..(i - 1) : a[j] = b[j]
  BY DEF Before
<1>2. ASSUME Above(c, b) PROVE Before(a, c) \/ Above(c, a)
  <2>1. CASE Len(c) < i
    BY <1>1, <1>2, <2>1 DEF Above
  <2>2. CASE i <= Len(c)
    <3>1. a[i] < c[i] /\ \A j \in 1..(i - 1) : a[j] = c[j]
      BY <1>1, <1>2, <2>2 DEF Above
    <3> QED BY <2>2, <3>1 DEF Before
  <2> QED BY <2>1, <2>2
<1>3. ASSUME Above(c, a) PROVE Before(c, b) \/ Above(c, b)
  <2>1. CASE Len(c) < i
    BY <1>1, <1>3, <2>1 DEF Above
  <2>2. CASE i <= Len(c)
    <3>1. i \in 1..Len(c) /\ c[i] < b[i] /\ \A j \in 1..(i - 1) : c[j] = b[j]
      BY <1>1, <1>3, <2>2 DEF Above
    <3> QED BY <1>1, <3>1 DEF Before
  <2> QED BY <2>1, <2>2
<1> QED BY <1>2, <1>3

(* What lies between two names below a third does so too.                  *)
LEMMA OrderBetween ==
  ASSUME NEW a \in Seq(Nat), NEW b \in Seq(Nat), NEW c \in Seq(Nat), NEW x \in Seq(Nat),
         Above(c, a), Above(c, b), Before(a, x), Before(x, b)
  PROVE  Above(c, x)
<1>1. Before(c, x) \/ Above(c, x)
  BY OrderAbove
<1>2. ASSUME Before(c, x) PROVE FALSE
  <2>1. Before(b, x)
    BY <1>2, OrderBelow
  <2> QED BY <2>1, OrderApart
<1> QED BY <1>1, <1>2

(* The children of a bitmap are in the order of their symbols.             *)
LEMMA OrderChildren ==
  ASSUME NEW a \in Seq(Nat), NEW x \in Nat, NEW y \in Nat
  PROVE  Before(Append(a, x), Append(a, y)) <=> x < y
<1> DEFINE l == Len(a) + 1
<1>1. /\ Len(Append(a, x)) = l /\ Append(a, x)[l] = x /\ (\A i \in 1..Len(a) : Append(a, x)[i] = a[i])
      /\ Len(Append(a, y)) = l /\ Append(a, y)[l] = y /\ (\A i \in 1..Len(a) : Append(a, y)[i] = a[i])
      /\ l \in Nat /\ l - 1 = Len(a) /\ l >= 1
  BY AppendPart
<1>2. ASSUME x < y PROVE Before(Append(a, x), Append(a, y))
  BY <1>1, <1>2 DEF Before
<1>3. ASSUME Before(Append(a, x), Append(a, y)) PROVE x < y
  <2>1. PICK i \in 1..l : Append(a, x)[i] < Append(a, y)[i]
    BY <1>1, <1>3 DEF Before
  <2>2. CASE i = l
    BY <1>1, <2>1, <2>2
  <2>3. CASE i # l
    <3>1. i \in 1..Len(a) /\ a[i] \in Nat
      BY <1>1, <2>3
    <3> QED BY <1>1, <2>1, <3>1
  <2> QED BY <2>2, <2>3
<1> QED BY <1>2, <1>3

(* The same for the names of nodes. *)
LEMMA NamesOrder ==
  /\ \A a, b \in TreeNames : Above(a, b) \/ Above(b, a) \/ Before(a, b) \/ Before(b, a)
  /\ \A a, b \in TreeNames : Before(a, b) => ~Above(a, b) /\ ~Above(b, a) /\ ~Before(b, a) /\ a # b
  /\ \A a, b, c \in TreeNames : Before(a, b) /\ Before(b, c) => Before(a, c)
  /\ \A a, b, c \in TreeNames : Before(a, b) /\ Above(b, c) => Before(a, c)
  /\ \A a, b, c \in TreeNames : Before(a, b) /\ Above(a, c) => Before(c, b)
  /\ \A a, b, c \in TreeNames : Before(a, b) /\ Above(c, b) => Before(a, c) \/ Above(c, a)
  /\ \A a, b, c \in TreeNames : Before(a, b) /\ Above(c, a) => Before(c, b) \/ Above(c, b)
  /\ \A a, b, c, x \in TreeNames : Above(c, a) /\ Above(c, b) /\ Before(a, x) /\ Before(x, b) => Above(c, x)
  /\ \A a \in TreeNames : Above(a, a)
  /\ \A a, b, c \in TreeNames : Above(a, b) /\ Above(b, c) => Above(a, c)
  /\ \A a, b \in TreeNames : Above(a, b) /\ Above(b, a) => a = b
<1>1. TreeNames \subseteq Seq(Nat)
  BY NamesOfTree
<1>2. \A a, b \in TreeNames : Above(a, b) \/ Above(b, a) \/ Before(a, b) \/ Before(b, a)
  BY <1>1, OrderTotal
<1>3. \A a, b \in TreeNames : Before(a, b) => ~Above(a, b) /\ ~Above(b, a) /\ ~Before(b, a) /\ a # b
  BY <1>1, OrderApart
<1>4. \A a, b, c \in TreeNames : Before(a, b) /\ Before(b, c) => Before(a, c)
  BY <1>1, OrderTrans
<1>5. \A a, b, c \in TreeNames : Before(a, b) => (Above(b, c) => Before(a, c)) /\ (Above(a, c) => Before(c, b))
  BY <1>1, OrderBelow
<1>6. \A a, b, c \in TreeNames : Before(a, b) => /\ Above(c, b) => Before(a, c) \/ Above(c, a)
                                                 /\ Above(c, a) => Before(c, b) \/ Above(c, b)
  BY <1>1, OrderAbove
<1>7. \A a, b, c, x \in TreeNames : Above(c, a) /\ Above(c, b) /\ Before(a, x) /\ Before(x, b) => Above(c, x)
  BY <1>1, OrderBetween
<1>8. \A a \in TreeNames : Above(a, a)
  BY <1>1, AboveSelf
<1>9. \A a, b, c \in TreeNames : Above(a, b) /\ Above(b, c) => Above(a, c)
  BY TreeTrans
<1>10. \A a, b \in TreeNames : Above(a, b) /\ Above(b, a) => a = b
  BY TreeBoth
<1> QED BY <1>2, <1>3, <1>4, <1>5, <1>6, <1>7, <1>8, <1>9, <1>10

(* Above or before. *)
LEMMA UptoOrder ==
  /\ \A a, b, c \in TreeNames : Upto(a, b) /\ Upto(b, c) => Upto(a, c)
  /\ \A a, b, c \in TreeNames : Before(a, b) /\ Upto(b, c) => Before(a, c)
  /\ \A a, b \in TreeNames : Upto(a, b) => ~Before(b, a)
  /\ \A a, b \in TreeNames : Upto(a, b) \/ Above(b, a) \/ Before(b, a)
  /\ \A a \in TreeNames : Upto(a, a)
  /\ \A a, b \in TreeNames : Above(a, b) \/ Before(a, b) => Upto(a, b)
<1>1. \A a, b, c \in TreeNames : Upto(a, b) /\ Upto(b, c) => Upto(a, c)
  BY NamesOrder DEF Upto
<1>2. \A a, b, c \in TreeNames : Before(a, b) /\ Upto(b, c) => Before(a, c)
  BY NamesOrder DEF Upto
<1>3. \A a, b \in TreeNames : Upto(a, b) => ~Before(b, a)
  BY NamesOrder DEF Upto
<1>4. \A a, b \in TreeNames : Upto(a, b) \/ Above(b, a) \/ Before(b, a)
  BY NamesOrder DEF Upto
<1>5. /\ \A a \in TreeNames : Upto(a, a)
      /\ \A a, b \in TreeNames : Above(a, b) \/ Before(a, b) => Upto(a, b)
  BY NamesOrder DEF Upto
<1> QED BY <1>1, <1>2, <1>3, <1>4, <1>5

-----------------------------------------------------------------------------
(* Nodes and their children. *)

(* The children of a node of the trie are apart, and what is below it is   *)
(* at or below one of them.                                                *)
LEMMA TrieChildren ==
  ASSUME SharedInv, NEW n \in Trie
  PROVE  LET B == Below(n, nodes[n].value)
         IN  /\ n \in TreeNames /\ nodes[n].value.type \in {"LEAF", "BITMAP", "JUMP"} /\ Fits(n, nodes[n].value)
             /\ B \subseteq Trie /\ B \subseteq TreeNames /\ \A b \in B : Above(n, b) /\ b # n
             /\ \A m \in Trie : n # m /\ Above(n, m) => \E b \in B : Above(b, m)
             /\ \A a, b \in B : Above(a, b) => a = b
             /\ nodes[n].value.type = "LEAF" => B = {}
<1> DEFINE v == nodes[n].value
           B == Below(n, v)
<1>1. n \in TreeNames /\ n \in Names /\ v # Unused /\ Fits(n, v) /\ n # MinLeaf
  BY InTrie, TrieNames, NullIsNoName DEF SharedInv, NodesOK
<1>2. ChildrenIn(nodes)[n] = B /\ Shaped(Trie, ChildrenIn(nodes))
  BY <1>1 DEF ChildrenIn, SharedInv, StructInv
<1>3. B \subseteq Trie /\ \A m \in Trie : n # m /\ Above(n, m) => \E b \in B : Above(b, m)
  BY <1>2 DEF Shaped
<1>4. /\ v.type \in {"LEAF", "BITMAP", "JUMP"} /\ (v.type = "LEAF" => B = {})
      /\ v.type = "BITMAP" => IsBitmap(v)
  BY <1>1, Kinds
<1>5. \A b \in B : b \in TreeNames /\ Above(n, b) /\ b # n
  BY <1>1, BelowLonger
<1>6. ASSUME NEW a \in B, NEW b \in B, Above(a, b) PROVE a = b
  <2>1. CASE v.type = "BITMAP"
    <3>1. PICK x \in v.children : a = Append(n, x)
      BY <1>6, <2>1 DEF Below
    <3>2. PICK y \in v.children : b = Append(n, y)
      BY <1>6, <2>1 DEF Below
    <3>3. x \in Nat /\ y \in Nat /\ n \in Seq(Nat)
      BY <1>1, <1>4, <2>1, NamesOfTree DEF IsBitmap, BitmapValues
    <3>4. a \in Seq(Nat) /\ b \in Seq(Nat) /\ Len(a) = Len(b)
      BY <3>1, <3>2, <3>3, AppendPart
    <3> QED BY <1>6, <3>4, AboveLonger
  <2>2. CASE v.type = "JUMP"
    BY <1>6, <2>2 DEF Below
  <2> QED BY <1>4, <1>6, <2>1, <2>2
<1> QED BY <1>1, <1>3, <1>4, <1>5, <1>6

(* The end of the path of a writer, which it has locked.                   *)
LEMMA WriterEnd ==
  ASSUME IInv, NEW t \in Threads, Locking(t)
  PROVE  LET c == Last(path[t])
             e == c.name
             p == path[t]
         IN  /\ SharedInv /\ ThreadInv(t) /\ Guarded(t) /\ ~is_empty /\ pc[t] # "idle"
             /\ call[t].op \in PutCalls /\ call[t].key \in Keys /\ KeyOf(t) = call[t].key
             /\ e \in Trie /\ e \in TreeNames /\ e \in Names /\ nodes[e].lock = t /\ nodes[e].value = c.value
             /\ PathOK(nodes, Trie, KeyOf(t), p) /\ p \in Seq(Copies) /\ Len(p) > 0 /\ Len(p) \in Nat
             /\ c = p[Len(p)] /\ Fits(e, c.value) /\ Above(e, KeySymbols(call[t].key))
             /\ \A i \in LockPositions(p) : Owns(nodes, t, p[i]) /\ i \in 1..Len(p)
<1>1. SharedInv /\ ThreadInv(t) /\ CallInv(t) /\ HoldInv(t)
  BY DEF IInv, ThreadInv
<1>2. /\ call[t].op \in PutCalls /\ call[t].key \in Keys /\ KeyOf(t) = call[t].key /\ Guarded(t) /\ pc[t] # "idle"
  BY <1>1, Writer
<1>3. pc[t] \notin RestPcs \cup {"return"} /\ ~is_empty
      /\ nodes[Last(path[t]).name].lock = t /\ nodes[Last(path[t]).name].value = Last(path[t]).value
  BY <1>1, Owner
<1>4. LET c == Last(path[t])
         IN  /\ PathOK(nodes, Trie, KeyOf(t), path[t])
             /\ path[t] \in Seq(Copies) /\ Len(path[t]) \in Nat /\ Len(path[t]) > 0
             /\ c = path[t][Len(path[t])]
             /\ c.name \in Trie /\ c.name \in TreeNames /\ c.name \in Names
             /\ Fits(c.name, c.value)
             /\ Above(c.name, KeySymbols(KeyOf(t)))
  BY <1>1, <1>2, <1>3, PathEnd
<1>5. \A i \in LockPositions(path[t]) : Owns(nodes, t, path[t][i]) /\ i \in 1..Len(path[t])
  BY <1>1, <1>4, LockPositionsPart DEF HoldInv
<1> QED BY <1>1, <1>2, <1>3, <1>4, <1>5

(* From a locked position on the path up, along the largest children, the  *)
(* nodes are locked.                                                       *)
LEMMA RightmostLocked ==
  ASSUME NEW p \in Seq(Copies), Len(p) > 0, NEW m \in LockPositions(p), NEW j \in 1..(m - 1), Rightmost(p, j, m)
  PROVE  j \in LockPositions(p) /\ j \in 1..Len(p) /\ m \in 1..Len(p)
<1> DEFINE n == Len(p)
           i == IF p[n].value.type = "BITMAP" THEN n ELSE n - 1
<1>1. LockPositions(p) = {n} \cup ({i} \ {0}) \cup LeftParentsAbove(p, i)
  BY DEF LockPositions
<1>2. n \in Nat /\ n >= 1 /\ i \in Nat /\ i \in {n, n - 1} /\ LockPositions(p) \subseteq 1..n /\ m \in 1..n /\ j \in 1..n
  <2>1. n \in Nat /\ n >= 1 /\ LockPositions(p) \subseteq 1..n
    BY LockPositionsPart
  <2>2. m \in 1..n
    BY <2>1
  <2> QED BY <2>1, <2>2
<1> HIDE DEF n, i
<1>3. \A k \in j..(m - 1) : p[k].value.type = "JUMP" \/ last_symbol(p[k + 1]) = max_child(p[k].value)
  BY DEF Rightmost
<1>4. ASSUME j < i, \A k \in j..(i - 1) : p[k].value.type = "JUMP" \/ last_symbol(p[k + 1]) = max_child(p[k].value)
      PROVE  j \in LockPositions(p)
  <2>1. j \in 1..(i - 1)
    BY <1>2, <1>4
  <2>2. j \in LeftParentsAbove(p, i)
    BY <1>4, <2>1 DEF LeftParentsAbove
  <2> QED BY <1>1, <2>2
<1>5. ASSUME m = n \/ m = i PROVE j \in LockPositions(p)
  <2>1. CASE j = i
    BY <1>1, <1>2, <2>1
  <2>2. CASE j # i
    <3>1. j < i /\ \A k \in j..(i - 1) : k \in j..(m - 1)
      BY <1>2, <1>5, <2>2
    <3>2. \A k \in j..(i - 1) : p[k].value.type = "JUMP" \/ last_symbol(p[k + 1]) = max_child(p[k].value)
      BY <1>3, <3>1
    <3> QED BY <1>4, <3>1, <3>2
  <2> QED BY <2>1, <2>2
<1>6. ASSUME m \in LeftParentsAbove(p, i) PROVE j \in LockPositions(p)
  <2>1. m \in 1..(i - 1) /\ \A k \in m..(i - 1) : p[k].value.type = "JUMP" \/ last_symbol(p[k + 1]) = max_child(p[k].value)
    BY <1>6 DEF LeftParentsAbove
  <2>2. j < i /\ \A k \in j..(i - 1) : k \in j..(m - 1) \/ k \in m..(i - 1)
    BY <1>2, <2>1
  <2>3. \A k \in j..(i - 1) : p[k].value.type = "JUMP" \/ last_symbol(p[k + 1]) = max_child(p[k].value)
    BY <1>3, <2>1, <2>2
  <2> QED BY <1>4, <2>2, <2>3
<1>7. j \in LockPositions(p)
  BY <1>1, <1>5, <1>6
<1> QED BY <1>2, <1>7 DEF n

(* The position of a writer up to which max_leaf is right is locked.       *)
LEMMA LevelLocked ==
  ASSUME IInv, NEW t \in Threads, Splitting(t) \/ pc[t] = "propagate"
  PROVE  /\ Locking(t) /\ WithPred(t) /\ call[t].ret # Pending
         /\ Level(t) \in LockPositions(path[t]) /\ Level(t) \in 1..Len(path[t])
<1>1. Locking(t) /\ WithPred(t)
  BY DEF Splitting, Locking, WithPred
<1>2. path[t] \in Seq(Copies) /\ Len(path[t]) > 0 /\ ThreadInv(t)
  BY <1>1, WriterEnd
<1>3. call[t].ret # Pending
  BY <1>1, <1>2, WriterEnd DEF Splitting, ThreadInv, CallInv, PutCalls, IterCalls
<1>4. LockPositions(path[t]) \subseteq 1..Len(path[t]) /\ Len(path[t]) \in LockPositions(path[t])
  BY <1>2, LockPositionsPart
<1>5. Level(t) \in LockPositions(path[t])
  BY <1>2, <1>4 DEF Level, Splitting, ThreadInv, HoldInv
<1> QED BY <1>1, <1>3, <1>4, <1>5

(* A node with an outdated max_leaf is locked.                             *)
LEMMA StaleLocked ==
  ASSUME IInv, NEW t \in Threads, NEW q, Stale(t, q)
  PROVE  /\ q \in Trie /\ q \in Names /\ nodes[q].lock = t /\ Locking(t) /\ WithPred(t) /\ call[t].ret # Pending
         /\ \E j \in 1..(Level(t) - 1) : j \in LockPositions(path[t]) /\ j \in 1..Len(path[t]) /\ path[t][j].name = q
<1>1. /\ Locking(t) /\ WithPred(t) /\ call[t].ret # Pending
      /\ Level(t) \in LockPositions(path[t]) /\ Level(t) \in 1..Len(path[t])
  BY LevelLocked DEF Stale
<1>2. PICK j \in 1..(Level(t) - 1) : Rightmost(path[t], j, Level(t)) /\ path[t][j].name = q
  BY DEF Stale
<1>3. /\ path[t] \in Seq(Copies) /\ Len(path[t]) > 0 /\ PathOK(nodes, Trie, KeyOf(t), path[t])
      /\ \A i \in LockPositions(path[t]) : Owns(nodes, t, path[t][i])
  BY <1>1, WriterEnd
<1>4. j \in LockPositions(path[t]) /\ j \in 1..Len(path[t])
  BY <1>1, <1>2, <1>3, RightmostLocked
<1>5. q \in Trie /\ q \in Names
  BY <1>2, <1>3, <1>4, AtPath, TrieNames
<1>6. nodes[q].lock = t
  <2>1. Owns(nodes, t, path[t][j])
    BY <1>3, <1>4
  <2>2. nodes[path[t][j].name].lock = t
    BY <2>1 DEF Owns
  <2> QED BY <1>2, <2>2
<1> QED BY <1>1, <1>2, <1>4, <1>5, <1>6

(* The nodes on a path lie below one another.                              *)
LEMMA PathAbove ==
  ASSUME NEW ns, NEW T \in SUBSET TreeNames, NEW key, NEW p, key \in Seq(Nat \ {0}), PathOK(ns, T, key, p),
         NEW i \in 1..Len(p), NEW j \in 1..Len(p), i <= j
  PROVE  Above(p[i].name, p[j].name)
<1>1. /\ p[i].name \in Seq(Nat) /\ p[j].name \in Seq(Nat) /\ p[i].name \in TreeNames
      /\ Above(p[i].name, KeySymbols(key)) /\ Above(p[j].name, KeySymbols(key))
  BY AtPath
<1>2. KeySymbols(key) \in Seq(Nat)
  BY KeyParts
<1>3. CASE i = j
  BY <1>1, <1>3, AboveSelf
<1>4. CASE i # j
  <2>1. i < j
    BY <1>4
  <2>2. Len(p[i].name) < Len(p[j].name)
    BY <2>1, PathLengthens
  <2> QED BY <1>1, <1>2, <2>2, AboveChain
<1> QED BY <1>3, <1>4

(* What a bitmap on the path says of its children.                         *)
LEMMA LargestChild ==
  ASSUME NEW n \in TreeNames, NEW v, Fits(n, v), v.type = "BITMAP"
  PROVE  LET m == max_child(v)
         IN  /\ v.children \subseteq Nat /\ m \in v.children /\ \A s \in v.children : s <= m
             /\ \A s \in Nat : Append(n, s) \in Below(n, v) <=> s \in v.children
             /\ \A b \in Below(n, v) : \E s \in v.children : b = Append(n, s) /\ Last(b) = s
<1>1. IsBitmap(v) /\ n \in Seq(Nat)
  BY BelowInside, NamesOfTree
<1>2. v.children \subseteq Nat /\ HasMax(v.children)
  BY <1>1 DEF IsBitmap, BitmapValues
<1>3. max_child(v) \in v.children /\ \A s \in v.children : max_child(v) >= s
  BY <1>2, LargestOf DEF max_child
<1>4. \A s \in v.children : s <= max_child(v)
  BY <1>2, <1>3
<1>5. Below(n, v) = {Append(n, s) : s \in v.children}
  BY DEF Below
<1>6. \A s \in Nat : Append(n, s) \in Seq(Nat) /\ Len(Append(n, s)) = Len(n) + 1 /\ Append(n, s)[Len(n) + 1] = s
  BY <1>1, AppendPart
<1>7. \A s \in Nat : Last(Append(n, s)) = s
  BY <1>6 DEF Last
<1>8. \A s \in Nat : Append(n, s) \in Below(n, v) <=> s \in v.children
  BY <1>2, <1>5, <1>7
<1> QED BY <1>2, <1>3, <1>4, <1>5, <1>7, <1>8

(* A node above the end of a writer's path with nothing after the end      *)
(* below it is on the path, and locked.                                    *)
LEMMA Climb ==
  ASSUME IInv, NEW t \in Threads, Locking(t), path[t][1].name = Root, NEW q \in Trie,
         Above(q, Last(path[t]).name), q # Last(path[t]).name,
         \A z \in Trie : Above(q, z) => ~Before(Last(path[t]).name, z)
  PROVE  \E j \in 1..(Len(path[t]) - 1) : Rightmost(path[t], j, Len(path[t])) /\ path[t][j].name = q
<1> DEFINE p == path[t]
           n == Len(p)
           e == Last(p).name
           J == {j \in 1..n : Rightmost(p, j, n)}
           m == Min(J)
<1>1. /\ SharedInv /\ call[t].key \in Keys /\ KeyOf(t) = call[t].key /\ e \in Trie /\ e \in TreeNames
      /\ PathOK(nodes, Trie, KeyOf(t), p) /\ p \in Seq(Copies) /\ n > 0 /\ n \in Nat /\ e = p[n].name
      /\ \A i \in LockPositions(p) : Owns(nodes, t, p[i])
  BY WriterEnd
<1>2. /\ KeyOf(t) \in Seq(Nat \ {0}) /\ Trie \in SUBSET TreeNames /\ q \in TreeNames /\ n \in LockPositions(p)
  BY <1>1, KeysAreSequences, TrieNames, LockPositionsPart
<1>3. \A j \in 1..n : /\ p[j].name \in Trie /\ p[j].name \in TreeNames /\ Fits(p[j].name, p[j].value)
                      /\ Below(p[j].name, p[j].value) \subseteq Trie
                      /\ Above(p[j].name, e)
  <2> TAKE j \in 1..n
  <2>1. /\ p[j].name \in Trie /\ p[j].name \in TreeNames /\ Fits(p[j].name, p[j].value)
        /\ Below(p[j].name, p[j].value) \subseteq Trie
    BY <1>1, <1>2, AtPath
  <2>2. n \in 1..Len(p) /\ j <= n
    BY <1>1
  <2>3. Above(p[j].name, p[n].name)
    BY <1>1, <1>2, <2>2, PathAbove
  <2> QED BY <1>1, <2>1, <2>3
<1>4. m \in J /\ \A x \in J : m <= x
  <2>1. n \in J
    BY <1>1 DEF Rightmost
  <2>2. J \in SUBSET Nat /\ J # {}
    BY <2>1
  <2> HIDE DEF J
  <2> QED BY <2>2, SmallestNumber
<1> HIDE DEF m
<1>5. m \in 1..n /\ Rightmost(p, m, n)
  BY <1>4
<1>6. \A j \in m..n : Rightmost(p, j, n)
  BY <1>5 DEF Rightmost
<1>7. Above(p[m].name, q)
  <2>1. CASE m = 1
    BY <2>1 DEF Above, Root
  <2>2. CASE m # 1
    <3> DEFINE k == m - 1
               c == p[k]
    <3>1. k \in 1..n /\ k \in Nat /\ k >= 1 /\ k < n /\ k + 1 = m /\ k < m
      BY <1>1, <1>5, <2>2
    <3>2. ~Rightmost(p, k, n)
      BY <1>4, <1>5, <3>1
    <3>3. c.value.type # "JUMP" /\ last_symbol(p[m]) # max_child(c.value)
      <4>1. \A i \in k..(n - 1) : i = k \/ i \in m..(n - 1)
        BY <3>1
      <4> QED BY <1>5, <3>1, <3>2, <4>1 DEF Rightmost
    <3>4. p[m].name \in Below(c.name, c.value) /\ c.value.type \in {"BITMAP", "JUMP"}
      BY <1>1, <1>2, <3>1, PathStep
    <3>5. /\ c.name \in TreeNames /\ Fits(c.name, c.value) /\ Below(c.name, c.value) \subseteq Trie
          /\ p[m].name \in TreeNames /\ Above(p[m].name, e) /\ Above(c.name, e)
      BY <1>3, <1>5, <3>1
    <3> HIDE DEF k, c
    <3>6. c.value.type = "BITMAP"
      BY <3>3, <3>4
    <3>7. PICK s \in c.value.children : p[m].name = Append(c.name, s) /\ Last(p[m].name) = s
      BY <3>4, <3>5, <3>6, LargestChild
    <3> DEFINE mx == max_child(c.value)
               z == Append(c.name, mx)
    <3>8. mx \in Nat /\ s \in Nat /\ s < mx /\ z \in Trie /\ c.name \in Seq(Nat)
      <4>1. mx \in c.value.children /\ s <= mx /\ c.value.children \subseteq Nat /\ s # mx
        BY <3>3, <3>5, <3>6, <3>7, LargestChild DEF last_symbol
      <4>2. z \in Below(c.name, c.value)
        BY <3>5, <3>6, <4>1, LargestChild
      <4> QED BY <3>5, <4>1, <4>2, NamesOfTree
    <3> HIDE DEF mx
    <3>9. Before(p[m].name, z)
      BY <3>7, <3>8, OrderChildren
    <3>10. Before(e, z) /\ ~Above(q, z) /\ z \in TreeNames
      BY <1>1, <1>2, <3>5, <3>8, <3>9, NamesOrder
    <3>11. Above(p[m].name, q) \/ Above(q, p[m].name)
      BY <1>1, <1>2, <3>5, Comparable
    <3>12. ASSUME Above(q, p[m].name), q # p[m].name PROVE FALSE
      <4>1. q \in Seq(Nat) /\ c.name \in Seq(Nat) /\ p[m].name \in Seq(Nat) /\ Len(p[m].name) = Len(c.name) + 1
        BY <1>2, <3>5, <3>7, <3>8, NamesOfTree, AppendPart
      <4>2. Len(q) < Len(p[m].name) /\ Len(q) \in Nat /\ Len(c.name) \in Nat
        BY <3>12, <4>1, AboveLonger
      <4>3. Len(q) <= Len(c.name)
        BY <4>1, <4>2
      <4>4. Above(q, c.name)
        BY <1>1, <3>5, <4>1, <4>3, AboveChain, NamesOfTree
      <4>5. Above(c.name, z)
        BY <3>8, AppendPart DEF Above
      <4> QED BY <1>2, <3>5, <3>10, <4>4, <4>5, TreeTrans
    <3> QED BY <1>2, <3>5, <3>11, <3>12, NamesOrder
  <2> QED BY <2>1, <2>2
<1> DEFINE K == {j \in m..n : Above(p[j].name, q)}
           j == Max(K)
<1>8. j \in K /\ \A x \in K : x <= j
  <2>1. m \in K /\ K \in SUBSET Nat /\ \A x \in K : x <= n
    BY <1>1, <1>5, <1>7
  <2>2. K # {}
    BY <2>1
  <2> HIDE DEF K
  <2>3. HasMax(K)
    BY <1>1, <2>1, <2>2, BoundedHasMax
  <2>4. j \in K /\ \A x \in K : j >= x
    BY <2>3, LargestOf
  <2> QED BY <2>1, <2>4
<1> HIDE DEF j
<1>9. j \in m..n /\ Above(p[j].name, q) /\ j \in 1..n /\ j \in Nat
  BY <1>1, <1>5, <1>8
<1>10. j # n
  <2>1. ASSUME j = n PROVE FALSE
    BY <1>1, <1>2, <1>9, <2>1, TreeBoth
  <2> QED BY <2>1
<1>11. j \in 1..(n - 1) /\ Rightmost(p, j, n) /\ j + 1 \in m..n
  BY <1>1, <1>5, <1>6, <1>9, <1>10
<1>12. j \in LockPositions(p)
  BY <1>1, <1>2, <1>11, RightmostLocked
<1>13. nodes[p[j].name].value = p[j].value
  <2>1. Owns(nodes, t, p[j])
    BY <1>1, <1>12
  <2> QED BY <2>1 DEF Owns
<1>14. p[j].name = q
  <2> SUFFICES ASSUME p[j].name # q PROVE FALSE
    OBVIOUS
  <2>1. PICK b \in Below(p[j].name, p[j].value) : Above(b, q) /\ b \in TreeNames
    BY <1>1, <1>3, <1>9, <1>13, TrieChildren
  <2>2. p[j + 1].name \in Below(p[j].name, p[j].value)
    <3>1. j >= 1 /\ j < n
      BY <1>1, <1>9, <1>11
    <3> QED BY <1>1, <1>2, <1>9, <3>1, PathStep
  <2>3. j + 1 \in 1..n /\ p[j + 1].name \in TreeNames /\ Above(p[j + 1].name, e)
    BY <1>1, <1>3, <1>5, <1>11
  <2>4. Above(b, e)
    BY <1>1, <1>2, <2>1, TreeTrans
  <2>5. Above(b, p[j + 1].name) \/ Above(p[j + 1].name, b)
    BY <1>1, <2>1, <2>3, <2>4, Comparable
  <2>6. b = p[j + 1].name
    BY <1>1, <1>3, <1>9, <1>13, <2>1, <2>2, <2>5, TrieChildren
  <2>7. j + 1 \in K /\ j + 1 > j
    BY <1>9, <1>11, <2>1, <2>6
  <2> QED BY <1>8, <1>9, <2>7
<1> QED BY <1>11, <1>14

-----------------------------------------------------------------------------
(* Where a new leaf goes. *)

(* The place of a new leaf below a bitmap: nothing of the trie is there,   *)
(* and no other thread adds a leaf there.                                  *)
LEMMA FreeChild ==
  ASSUME IInv, NEW t \in Threads, Locking(t), call[t].ret = Pending, Last(path[t]).value.type = "BITMAP"
  PROVE  LET e == Last(path[t]).name
             m == Target(t)
         IN  /\ m \in TreeNames /\ m \notin Trie /\ Above(e, m) /\ m # e /\ e \in Trie /\ e \in TreeNames
             /\ nodes[e].lock = t /\ nodes[e].value = Last(path[t]).value
             /\ m = Append(e, NextSymbol(t)) /\ NextSymbol(t) \in Nat
             /\ \A b \in Below(e, nodes[e].value) : ~Above(b, m) /\ ~Above(m, b)
             /\ \A y \in Trie : ~Above(m, y)
             /\ \A y \in Trie : nodes[y].value.type = "LEAF" => ~Above(y, m)
<1> DEFINE c == Last(path[t])
           e == c.name
           m == Target(t)
<1>1. /\ SharedInv /\ call[t].key \in Keys /\ KeyOf(t) = call[t].key /\ e \in Trie /\ e \in TreeNames
      /\ nodes[e].value = c.value /\ Fits(e, c.value) /\ Above(e, KeySymbols(call[t].key)) /\ nodes[e].lock = t
      /\ EndInv(t)
  BY WriterEnd DEF ThreadInv
<1>2. NameBelow(c, call[t].key) = NULL
  BY <1>1 DEF EndInv
<1>3. m = NewChildName(c, call[t].key) /\ NextSymbol(t) = Head(Rest(call[t].key, e))
  BY <1>1 DEF Target, NextSymbol
<1>4. c.value.type = "BITMAP"
  OBVIOUS
<1> HIDE DEF c, m
<1>5. /\ m \in TreeNames /\ m = Append(e, NextSymbol(t)) /\ NextSymbol(t) \in Nat /\ Above(e, m) /\ m # e
      /\ \A b \in Below(e, nodes[e].value) : ~Above(b, m) /\ ~Above(m, b)
  BY <1>1, <1>2, <1>3, <1>4, NewChild
<1> HIDE DEF e
<1>6. /\ Below(e, nodes[e].value) \subseteq TreeNames
      /\ \A y \in Trie : e # y /\ Above(e, y) => \E b \in Below(e, nodes[e].value) : Above(b, y)
  BY <1>1, TrieChildren
<1>7. ASSUME NEW y \in Trie, Above(m, y) PROVE FALSE
  <2>1. y \in TreeNames /\ Above(e, y) /\ y # e
    BY <1>1, <1>5, <1>7, TrieNames, TreeTrans, TreeBoth
  <2>2. PICK b \in Below(e, nodes[e].value) : Above(b, y)
    BY <1>6, <2>1
  <2>3. Above(b, m) \/ Above(m, b)
    BY <1>5, <1>6, <1>7, <2>1, <2>2, Comparable
  <2> QED BY <1>5, <2>3
<1>8. m \notin Trie
  BY <1>5, <1>7, NamesOrder
<1>9. ASSUME NEW y \in Trie, nodes[y].value.type = "LEAF", Above(y, m) PROVE FALSE
  <2>1. y \in TreeNames /\ y # e
    BY <1>1, <1>4, <1>9, TrieNames
  <2>2. Above(y, e) \/ Above(e, y)
    BY <1>1, <1>5, <1>9, <2>1, Comparable
  <2>3. ASSUME Above(e, y) PROVE FALSE
    <3>1. PICK b \in Below(e, nodes[e].value) : Above(b, y)
      BY <1>6, <2>1, <2>3
    <3> QED BY <1>5, <1>6, <1>9, <2>1, <3>1, TreeTrans
  <2>4. ASSUME Above(y, e) PROVE FALSE
    BY <1>1, <1>9, <2>1, <2>4, TrieChildren
  <2> QED BY <2>2, <2>3, <2>4
<1> QED BY <1>1, <1>5, <1>7, <1>8, <1>9 DEF m, e, c

(* Two threads add leaves in different places.                             *)
LEMMA ChildrenApart ==
  ASSUME IInv, NEW t \in Threads, Locking(t), call[t].ret = Pending, Last(path[t]).value.type = "BITMAP",
         NEW u \in Threads, Locking(u), call[u].ret = Pending, Last(path[u]).value.type = "BITMAP",
         Above(Target(t), Target(u))
  PROVE  t = u
<1> DEFINE e == Last(path[t]).name
           f == Last(path[u]).name
           m == Target(t)
           x == Target(u)
<1>1. /\ m \in TreeNames /\ Above(e, m) /\ e \in Trie /\ e \in TreeNames /\ nodes[e].lock = t
      /\ \A b \in Below(e, nodes[e].value) : ~Above(b, m) /\ ~Above(m, b)
  BY FreeChild
<1>2. /\ x \in TreeNames /\ Above(f, x) /\ f \in Trie /\ f \in TreeNames /\ nodes[f].lock = u
      /\ \A b \in Below(f, nodes[f].value) : ~Above(b, x) /\ ~Above(x, b)
  BY FreeChild
<1> HIDE DEF e, f, m, x
<1>3. Above(m, x)
  BY DEF m, x
<1>4. /\ Below(e, nodes[e].value) \subseteq TreeNames
  BY <1>1, TrieChildren DEF IInv
<1>5. Above(e, x)
  BY <1>1, <1>2, <1>3, TreeTrans
<1>6. \A b \in Below(e, nodes[e].value) : ~Above(b, x)
  BY <1>1, <1>2, <1>3, <1>4, Comparable
<1>7. e = f
  <2>1. Shaped(Trie, ChildrenIn(nodes)) /\ Trie \in SUBSET TreeNames
    BY TrieNames DEF IInv, SharedInv, StructInv
  <2>2. ChildrenIn(nodes)[e] = Below(e, nodes[e].value) /\ ChildrenIn(nodes)[f] = Below(f, nodes[f].value)
    BY <1>1, <1>2 DEF ChildrenIn
  <2> QED BY <1>1, <1>2, <1>5, <1>6, <2>1, <2>2, Apart
<1> QED BY <1>1, <1>2, <1>7

(* A thread that has linked a leaf has hidden it and nothing else.         *)
LEMMA MarkPart ==
  ASSUME IInv, NEW t \in Threads, Putting(t)
  PROVE  /\ Locking(t) /\ WithPred(t) /\ call[t].ret = Pending /\ Last(path[t]).value.type = "BITMAP"
         /\ Hidden(t) = {Target(t)} /\ nodes[Target(t)].value.type = "LEAF" /\ nodes[Target(t)].value # Unused
         /\ nodes[Target(t)].lock = t /\ Target(t) \in TreeNames
<1>1. Locking(t) /\ WithPred(t) /\ call[t].ret = Pending /\ ThreadInv(t)
  BY DEF Putting, Locking, WithPred, IInv
<1>2. Last(path[t]).value.type = "BITMAP"
  BY <1>1 DEF ThreadInv, EndInv
<1>3. Target(t) = NewChildName(Last(path[t]), call[t].key)
  BY <1>2 DEF Target
<1>4. Hidden(t) = {Target(t)}
  BY <1>2, <1>3 DEF Hidden, NewNodes, CreatedLeaf
<1> QED BY <1>1, <1>2, <1>3, <1>4 DEF ThreadInv, HiddenInv

(* Which leaves are listed.                                                *)
LEMMA ListedPart ==
  ASSUME IInv
  PROVE  /\ Listed \subseteq TreeNames
         /\ \A n \in Listed : /\ nodes[n].value.type = "LEAF"
                              /\ n \in Trie \/ \E u \in Threads : pc[u] = "mark" /\ Putting(u) /\ n = Target(u)
         /\ \A n \in Trie : nodes[n].value.type = "LEAF" => n \in Listed
         /\ \A u \in Threads : pc[u] = "mark" => Putting(u) /\ Target(u) \in Listed
         /\ \A u \in Threads : \A n \in Hidden(u) : pc[u] # "mark" => n \notin Listed
<1>1. Listed \subseteq TreeNames /\ \A n \in Listed : nodes[n].value.type = "LEAF"
  BY DEF Listed, Used
<1>2. \A u \in Threads : pc[u] = "mark" => Putting(u)
  BY DEF IInv, ThreadInv, CallInv, Putting
<1>3. ASSUME NEW n \in Listed, n \notin Trie PROVE \E u \in Threads : pc[u] = "mark" /\ Putting(u) /\ n = Target(u)
  <2>1. PICK u \in Threads : n \in Hidden(u)
    BY <1>3, InTrie DEF Listed, Used
  <2>2. pc[u] = "mark"
    BY <2>1 DEF Listed
  <2> QED BY <1>2, <2>1, <2>2, MarkPart
<1>4. ASSUME NEW n \in Trie, nodes[n].value.type = "LEAF" PROVE n \in Listed
  BY <1>4, InTrie DEF Listed, Used
<1>5. ASSUME NEW u \in Threads, pc[u] = "mark" PROVE Target(u) \in Listed
  <2>1. /\ Locking(u) /\ call[u].ret = Pending /\ Last(path[u]).value.type = "BITMAP"
        /\ Hidden(u) = {Target(u)} /\ nodes[Target(u)].value.type = "LEAF" /\ nodes[Target(u)].value # Unused
    BY <1>2, <1>5, MarkPart
  <2> DEFINE e == Last(path[u]).name
             m == Target(u)
  <2>2. /\ m \in TreeNames /\ Above(e, m) /\ m # e /\ e \in Trie /\ nodes[e].lock = u
        /\ \A b \in Below(e, nodes[e].value) : ~Above(b, m)
    BY <2>1, FreeChild
  <2> HIDE DEF e, m
  <2>3. \A x \in Threads \ {u} : m \notin Hidden(x)
    BY <2>2, Elsewhere
  <2> QED BY <1>5, <2>1, <2>2, <2>3 DEF Listed, Used, m
<1>6. ASSUME NEW u \in Threads, NEW n \in Hidden(u), pc[u] # "mark" PROVE n \notin Listed
  BY <1>6 DEF Listed
<1> QED BY <1>1, <1>2, <1>3, <1>4, <1>5, <1>6

(* No node is below a listed leaf.                                         *)
LEMMA LeafAlone ==
  ASSUME IInv, NEW x \in Listed, NEW y \in Trie \cup Listed, Above(x, y)
  PROVE  x = y
<1>1. /\ x \in TreeNames /\ y \in TreeNames /\ nodes[x].value.type = "LEAF" /\ SharedInv
      /\ x \in Trie \/ \E u \in Threads : pc[u] = "mark" /\ Putting(u) /\ x = Target(u)
      /\ y \in Trie \/ \E u \in Threads : pc[u] = "mark" /\ Putting(u) /\ y = Target(u)
  BY ListedPart, TrieNames DEF IInv
<1>2. \A u \in Threads : Putting(u) => Locking(u) /\ call[u].ret = Pending /\ Last(path[u]).value.type = "BITMAP"
  BY MarkPart
<1>3. CASE x \in Trie /\ y \in Trie
  BY <1>1, <1>3, TrieChildren
<1>4. ASSUME NEW u \in Threads, Putting(u), x = Target(u), y \in Trie PROVE FALSE
  BY <1>2, <1>4, FreeChild
<1>5. ASSUME NEW u \in Threads, Putting(u), y = Target(u), x \in Trie PROVE FALSE
  BY <1>1, <1>2, <1>5, FreeChild
<1>6. ASSUME NEW u \in Threads, Putting(u), x = Target(u), NEW w \in Threads, Putting(w), y = Target(w) PROVE x = y
  <2>1. u = w
    BY <1>2, <1>6, ChildrenApart
  <2> QED BY <1>6, <2>1
<1> QED BY <1>1, <1>3, <1>4, <1>5, <1>6

(* Listed leaves are before one another.                                   *)
LEMMA ListedOrder ==
  ASSUME IInv, NEW x \in Listed, NEW y \in Listed
  PROVE  /\ x \in TreeNames /\ y \in TreeNames
         /\ x = y \/ Before(x, y) \/ Before(y, x)
         /\ Upto(x, y) => x = y \/ Before(x, y)
<1>1. x \in TreeNames /\ y \in TreeNames
  BY ListedPart
<1>2. Above(x, y) => x = y
  BY LeafAlone
<1>3. Above(y, x) => x = y
  BY LeafAlone
<1> QED BY <1>1, <1>2, <1>3, NamesOrder DEF Upto

(* The place of a new leaf is before or after every listed leaf.           *)
LEMMA TargetApart ==
  ASSUME IInv, NEW t \in Threads, Locking(t), call[t].ret = Pending, Last(path[t]).value.type = "BITMAP",
         NEW y \in Listed, y # Target(t)
  PROVE  ~Above(y, Target(t)) /\ ~Above(Target(t), y)
<1>1. CASE y \in Trie
  BY <1>1, FreeChild, ListedPart
<1>2. CASE y \notin Trie
  <2>1. PICK u \in Threads : pc[u] = "mark" /\ Putting(u) /\ y = Target(u)
    BY <1>2, ListedPart
  <2>2. u # t /\ Locking(u) /\ call[u].ret = Pending /\ Last(path[u]).value.type = "BITMAP"
    BY <2>1, MarkPart
  <2>3. ~Above(Target(u), Target(t))
    BY <2>2, ChildrenApart
  <2>4. ~Above(Target(t), Target(u))
    BY <2>2, ChildrenApart
  <2> QED BY <2>1, <2>3, <2>4
<1> QED BY <1>1, <1>2

-----------------------------------------------------------------------------
(* What steps leave as it is. *)

(* A thread that holds no locks for an insertion and has no path for one.  *)
LEMMA NotPlacing ==
  ASSUME NEW t, ~Locking(t)', pc'[t] = "descend" => call'[t].op \notin PutCalls \/ path'[t][1].name = Root,
         pc'[t] \in {"max_leaf", "advance", "resynced"} => call'[t].op \notin PutCalls,
         pc'[t] \in AllPcs
  PROVE  PlaceInv(t)' /\ SplitInv(t)'
<1>1. /\ pc'[t] \notin {"pred", "lock_pred", "head", "link", "mark", "propagate"}
      /\ ~WithPred(t)' /\ ~Placing(t)' /\ ~Putting(t)' /\ ~Splitting(t)'
  BY DEF Locking, WithPred, Placing, Putting, Splitting
<1>2. pc'[t] \notin RestPcs \cup {"return"} /\ call'[t].op \in PutCalls => path'[t][1].name = Root
  BY <1>1 DEF AllPcs, RestPcs, PutPcs, IterPcs
<1> QED BY <1>1, <1>2 DEF PlaceInv, SplitInv

(* What the step of a thread does not change for another one.              *)
LEMMA SameNames ==
  ASSUME NEW u, Same(u)
  PROVE  /\ (Locking(u)' <=> Locking(u)) /\ (WithPred(u)' <=> WithPred(u)) /\ (Placing(u)' <=> Placing(u))
         /\ (Putting(u)' <=> Putting(u)) /\ (Splitting(u)' <=> Splitting(u)) /\ Hidden(u)' = Hidden(u)
         /\ Target(u)' = Target(u) /\ FirstNewLeaf(u)' = FirstNewLeaf(u) /\ Level(u)' = Level(u)
         /\ pred_locator(u)' = pred_locator(u)
<1>1. Hidden(u)' = Hidden(u) /\ (Putting(u)' <=> Putting(u)) /\ KeyOf(u)' = KeyOf(u)
  BY HiddenKeeps
<1>2. (Locking(u)' <=> Locking(u)) /\ (WithPred(u)' <=> WithPred(u)) /\ (Placing(u)' <=> Placing(u)) /\ (Splitting(u)' <=> Splitting(u))
  BY DEF Same, Locking, WithPred, Placing, Splitting
<1>3. Target(u)' = Target(u) /\ FirstNewLeaf(u)' = FirstNewLeaf(u) /\ Level(u)' = Level(u)
  BY DEF Same, Target, FirstNewLeaf, Level
<1>4. NextSymbol(u)' = NextSymbol(u) /\ is_before_longest_prefix(u)' = is_before_longest_prefix(u)
  BY <1>1 DEF Same, NextSymbol, is_before_longest_prefix
<1>5. pred_locator(u)' = pred_locator(u)
  BY <1>4 DEF Same, pred_locator
<1> QED BY <1>1, <1>2, <1>3, <1>5

(* The others know as much about their places as before.                   *)
LEMMA OthersPlaced ==
  ASSUME IInv, NEW t \in Threads, NEW u \in Threads \ {t}, PlaceInv(u), Same(u), NodeFrame(t), Trie \subseteq Trie'
  PROVE  PlaceInv(u)'
<1>1. /\ (Locking(u)' <=> Locking(u)) /\ (WithPred(u)' <=> WithPred(u)) /\ (Placing(u)' <=> Placing(u))
      /\ (Putting(u)' <=> Putting(u)) /\ Target(u)' = Target(u) /\ FirstNewLeaf(u)' = FirstNewLeaf(u)
      /\ pred_locator(u)' = pred_locator(u)
  BY SameNames
<1>2. /\ pc'[u] = pc[u] /\ call'[u] = call[u] /\ path'[u] = path[u] /\ subtree'[u] = subtree[u] /\ pred'[u] = pred[u]
      /\ new_leaf'[u] = new_leaf[u]
  BY DEF Same
<1>3. ASSUME pc[u] = "link", call[u].ret = Pending PROVE nodes'[new_leaf[u]] = nodes[new_leaf[u]]
  <2>1. Putting(u) /\ new_leaf[u] = Target(u)
    BY <1>3 DEF Putting, PlaceInv
  <2>2. nodes[Target(u)].lock = u /\ Target(u) \in Names
    BY <2>1, MarkPart, TrieNames
  <2> QED BY <2>1, <2>2 DEF NodeFrame
<1>4. (pc[u] = "lock_pred" \/ WithPred(u) => pred[u].name \in Trie \cup {MinLeaf})
      => (pc[u] = "lock_pred" \/ WithPred(u) => pred[u].name \in Trie' \cup {MinLeaf})
  OBVIOUS
<1> QED BY <1>1, <1>2, <1>3, <1>4 DEF PlaceInv

(* The nodes keep what the order of the list is about.                     *)
SameOrder ==
  \A n \in Names : LET v == nodes[n].value
                       w == nodes'[n].value
                   IN  /\ w.type = v.type /\ (w = Unused <=> v = Unused)
                       /\ v.type = "LEAF" => w.next_leaf = v.next_leaf /\ w.dirty = v.dirty
                       /\ v.type \in {"BITMAP", "JUMP"} => w.max_leaf = v.max_leaf

(* No leaf gets into the list or leaves it.                                *)
LEMMA ListedSame ==
  ASSUME \A u \in Threads : Hidden(u)' = Hidden(u) /\ (Hidden(u) # {} => (pc'[u] = "mark" <=> pc[u] = "mark")),
         \A n \in TreeNames : /\ nodes'[n].value = Unused <=> nodes[n].value = Unused
                              /\ nodes'[n].value.type = "LEAF" <=> nodes[n].value.type = "LEAF"
  PROVE  Listed' = Listed
<1>1. \A n : n \in Listed <=> n \in TreeNames /\ nodes[n].value # Unused /\ nodes[n].value.type = "LEAF"
                              /\ \A u \in Threads : n \in Hidden(u) => pc[u] = "mark"
  BY DEF Listed, Used
<1>2. \A n : n \in Listed' <=> n \in TreeNames /\ nodes'[n].value # Unused /\ nodes'[n].value.type = "LEAF"
                               /\ \A u \in Threads : n \in Hidden(u)' => pc'[u] = "mark"
  BY DEF Listed, Used
<1>3. \A n : (\A u \in Threads : n \in Hidden(u) => pc[u] = "mark") <=> (\A u \in Threads : n \in Hidden(u)' => pc'[u] = "mark")
  OBVIOUS
<1> QED BY <1>1, <1>2, <1>3

(* Steps that do not add to the trie and keep its order.                   *)
LEMMA QuietKeeps ==
  ASSUME IInv, OrderInv, NEW t \in Threads, Frame(t), NodeFrame(t), SameOrder, ~WithPred(t), ~WithPred(t)',
         PlaceInv(t)'
  PROVE  OrderInv'
<1>1. \A u \in Threads \ {t} : Same(u)
  BY DEF Frame
<1>2. ~Putting(t) /\ ~Putting(t)' /\ Hidden(t) = {} /\ Hidden(t)' = {} /\ ~Splitting(t) /\ ~Splitting(t)'
  BY DEF WithPred, Putting, Hidden, Splitting
<1>3. \A u \in Threads : Hidden(u)' = Hidden(u) /\ (WithPred(u)' <=> WithPred(u)) /\ (Splitting(u)' <=> Splitting(u))
  <2> TAKE u \in Threads
  <2>1. CASE u = t
    BY <1>2, <2>1
  <2>2. CASE u # t
    BY <1>1, <2>2, SameNames
  <2> QED BY <2>1, <2>2
<1>4. Trie' = Trie
  BY <1>3, TrieSame, TrieNames DEF SameOrder
<1>5. Listed' = Listed
  <2>1. \A u \in Threads : Hidden(u) # {} => (pc'[u] = "mark" <=> pc[u] = "mark")
    BY <1>1, <1>2 DEF Same
  <2>2. \A n \in TreeNames : /\ nodes'[n].value = Unused <=> nodes[n].value = Unused
                             /\ nodes'[n].value.type = "LEAF" <=> nodes[n].value.type = "LEAF"
    BY TrieNames DEF SameOrder
  <2> QED BY <1>3, <2>1, <2>2, ListedSame
<1>6. \A n \in Listed \cup {MinLeaf} : n \in Names /\ nodes[n].value.type = "LEAF"
  <2>1. \A n \in Listed : n \in Names /\ nodes[n].value.type = "LEAF"
    BY ListedPart, TrieNames
  <2>2. MinLeaf \in Names /\ nodes[MinLeaf].value.type = "LEAF"
    BY Kinds, TrieNames DEF IInv, SharedInv, NodesOK
  <2> QED BY <2>1, <2>2
<1>7. ListInv'
  <2> SUFFICES ASSUME NEW n \in Listed \cup {MinLeaf} PROVE NextInv(n)'
    BY <1>5 DEF ListInv
  <2>1. nodes'[n].value.next_leaf = nodes[n].value.next_leaf
    BY <1>6 DEF SameOrder
  <2>2. NextInv(n)
    BY DEF OrderInv, ListInv
  <2>3. ASSUME NEW v, \E u \in Threads : Splitting(u) /\ Last(path[u]).name = v /\ pred[u].name = n
        PROVE  \E u \in Threads : Splitting(u)' /\ Last(path'[u]).name = v /\ pred'[u].name = n
    <3>1. PICK u \in Threads : Splitting(u) /\ Last(path[u]).name = v /\ pred[u].name = n
      BY <2>3
    <3>2. u # t
      BY <1>2, <3>1
    <3> QED BY <1>1, <1>3, <3>1, <3>2 DEF Same
  <2> QED BY <1>5, <2>1, <2>2, <2>3 DEF NextInv
<1>8. DirtyInv'
  <2>1. ASSUME NEW n \in Names, nodes'[n].value.type = "LEAF", nodes'[n].value.dirty
        PROVE  \E u \in Threads : WithPred(u)' /\ pred'[u].name = n
    <3>1. nodes[n].value.type = "LEAF" /\ nodes[n].value.dirty
      BY <2>1 DEF SameOrder
    <3>2. PICK u \in Threads : WithPred(u) /\ pred[u].name = n
      BY <3>1 DEF OrderInv, DirtyInv
    <3>3. u # t
      BY <3>2
    <3> QED BY <1>1, <1>3, <3>2, <3>3 DEF Same
  <2>2. ASSUME NEW u \in Threads, WithPred(u)' PROVE pred'[u].value.dirty
    <3>1. u # t /\ WithPred(u)
      BY <1>3, <2>2
    <3> QED BY <1>1, <3>1 DEF OrderInv, DirtyInv, Same
  <2> QED BY <2>1, <2>2 DEF DirtyInv
<1>9. MaxInv'
  <2> SUFFICES ASSUME NEW q \in Trie, nodes'[q].value.type \in {"BITMAP", "JUMP"}
               PROVE  MaxRight(q)' \/ \E u \in Threads : Stale(u, q)'
    BY <1>4 DEF MaxInv
  <2>1. nodes[q].value.type \in {"BITMAP", "JUMP"} /\ nodes'[q].value.max_leaf = nodes[q].value.max_leaf
    BY TrieNames DEF SameOrder
  <2>2. MaxRight(q) => MaxRight(q)'
    <3>1. nodes[q].value.max_leaf \in Trie => nodes'[nodes[q].value.max_leaf].value.type = nodes[nodes[q].value.max_leaf].value.type
      BY TrieNames DEF SameOrder
    <3> QED BY <1>4, <2>1, <3>1 DEF MaxRight
  <2>3. ASSUME NEW u \in Threads, Stale(u, q) PROVE Stale(u, q)'
    <3>1. u # t
      BY <2>3, StaleLocked
    <3>2. Same(u) /\ (Splitting(u)' <=> Splitting(u)) /\ Level(u)' = Level(u)
      BY <1>1, <3>1, SameNames
    <3> QED BY <2>1, <2>3, <3>2 DEF Stale, Same
  <2> QED BY <2>1, <2>2, <2>3 DEF OrderInv, MaxInv
<1>10. ASSUME NEW u \in Threads PROVE PlaceInv(u)' /\ SplitInv(u)'
  <2>1. CASE u = t
    BY <1>2, <2>1 DEF SplitInv
  <2>2. CASE u # t
    <3>1. PlaceInv(u)'
      BY <1>1, <1>4, <2>2, OthersPlaced DEF OrderInv
    <3>2. ASSUME Splitting(u) PROVE nodes'[new_leaf[u]].lock = u
      <4>1. new_leaf[u] \in Listed /\ nodes[new_leaf[u]].lock = u
        BY <3>2 DEF OrderInv, SplitInv
      <4>2. new_leaf[u] \in Names
        BY <1>6, <4>1
      <4> QED BY <2>2, <4>1, <4>2 DEF NodeFrame
    <3>3. SplitInv(u)
      BY DEF OrderInv
    <3>4. SplitInv(u)'
      BY <1>1, <1>3, <1>5, <2>2, <3>2, <3>3 DEF SplitInv, Same
    <3> QED BY <3>1, <3>4
  <2> QED BY <2>1, <2>2
<1> QED BY <1>7, <1>8, <1>9, <1>10 DEF OrderInv

-----------------------------------------------------------------------------
(* Steps that do not insert. *)

(* What steps that only take or release locks do.                          *)
LEMMA CalmNodes ==
  ASSUME IInv, NEW t \in Threads,
         \/ nodes' = nodes
         \/ nodes' = release_all_locks(nodes, t)
         \/ \E S \in SUBSET Names : nodes' = LockNodes(nodes, t, S) /\ \A n \in S : nodes[n].lock = NULL
  PROVE  NodeFrame(t) /\ SameOrder
<1>1. nodes \in NodeMaps
  BY DEF IInv, SharedInv, NodesOK
<1>2. /\ nodes' \in NodeMaps
      /\ \A n \in Names : nodes'[n].value = nodes[n].value /\ nodes'[n].seq = nodes[n].seq
      /\ \A n \in Names : nodes'[n] = nodes[n] \/ (nodes[n].lock \in {t, NULL} /\ nodes'[n].lock \in {t, NULL})
  <2>1. CASE nodes' = nodes
    BY <1>1, <2>1
  <2>2. CASE nodes' = release_all_locks(nodes, t)
    BY <1>1, <2>2, ReleasesLocks
  <2>3. CASE \E S \in SUBSET Names : nodes' = LockNodes(nodes, t, S) /\ \A n \in S : nodes[n].lock = NULL
    <3>1. PICK S \in SUBSET Names : nodes' = LockNodes(nodes, t, S) /\ \A n \in S : nodes[n].lock = NULL
      BY <2>3
    <3>2. /\ nodes' \in NodeMaps
          /\ \A n \in Names : nodes'[n].value = nodes[n].value /\ nodes'[n].seq = nodes[n].seq
          /\ \A n \in S : nodes'[n].lock = t
          /\ \A n \in Names \ S : nodes'[n] = nodes[n]
      BY <1>1, <3>1, LocksNodes
    <3> QED BY <3>1, <3>2
  <2> QED BY <2>1, <2>2, <2>3
<1>3. \A u \in Threads \ {t}, n \in Names : nodes[n].lock = u \/ nodes'[n].lock = u => nodes'[n] = nodes[n]
  BY <1>2, NoThread
<1>4. \A n \in Names : nodes[n].seq \in Nat
  BY <1>1, NodeIs
<1>5. NodeFrame(t)
  BY <1>2, <1>3, <1>4 DEF NodeFrame
<1>6. SameOrder
  BY <1>2 DEF SameOrder
<1> QED BY <1>5, <1>6

(* A step of a thread that is at no insertion, before and after, keeps the *)
(* order.                                                                  *)
LEMMA CalmKeeps ==
  ASSUME IInv, IInv', OrderInv, NEW t \in Threads, Step(t), NodeFrame(t), SameOrder, ~WithPred(t), ~Locking(t)',
         pc'[t] = "descend" => call'[t].op \notin PutCalls \/ path'[t][1].name = Root,
         pc'[t] \in {"max_leaf", "advance", "resynced"} => call'[t].op \notin PutCalls
  PROVE  OrderInv'
<1>1. Frame(t)
  BY FrameStep DEF IInv, SharedInv
<1>2. pc'[t] \in AllPcs
  BY DEF IInv, ThreadInv, CallInv
<1>3. PlaceInv(t)' /\ ~WithPred(t)'
  BY <1>2, NotPlacing DEF Locking, WithPred
<1> QED BY <1>1, <1>3, QuietKeeps

(* A retry, ...                                                            *)
LEMMA RetryOrder ==
  ASSUME IInv, IInv', OrderInv, NEW t \in Threads, Step(t), Retry(t), ~WithPred(t)
  PROVE  OrderInv'
<1>1. pc'[t] = "start"
  BY DEF Retry, IInv, SharedInv, DomainInv
<1>2. NodeFrame(t) /\ SameOrder
  BY CalmNodes DEF Retry
<1> QED BY <1>1, <1>2, CalmKeeps DEF Locking

(* ... a step of the search, ...                                           *)
LEMMA VisitOrder ==
  ASSUME IInv, IInv', OrderInv, NEW t \in Threads, Step(t), pc[t] \in {"start", "descend"}, nodes' = nodes, NEW n,
         Visit(t, Read(n)), pc[t] = "start" => n = Root
  PROVE  OrderInv'
<1>1. DomainInv /\ ThreadInv(t) /\ CallInv(t) /\ SharedInv
  BY DEF IInv, SharedInv, ThreadInv
<1>2. /\ pc'[t] \in {"descend", "return"} /\ call'[t].op = call[t].op
      /\ call[t].op \in PutCalls => path'[t] = Append(path[t], Read(n))
  BY <1>1, SetsResult DEF Visit, DomainInv, PutCalls
<1>3. ASSUME pc'[t] = "descend", call[t].op \in PutCalls PROVE path'[t][1].name = Root
  <2>1. CASE pc[t] = "start"
    <3>1. path[t] = <<>> /\ n = Root
      BY <1>1, <2>1 DEF CallInv, RestPcs
    <3>2. path'[t] = <<Read(Root)>>
      BY <1>2, <1>3, <3>1
    <3> QED BY <3>2 DEF Read
  <2>2. CASE pc[t] = "descend"
    <3>1. Guarded(t)
      BY <1>1, <1>3, <2>2, Caller DEF PutCalls, IterCalls
    <3>2. path[t] \in Seq(Copies) /\ Len(path[t]) > 0
      BY <1>1, <2>2, <3>1, PathEnd DEF RestPcs
    <3>3. path[t][1].name = Root
      BY <1>3, <2>2 DEF OrderInv, PlaceInv, RestPcs
    <3>4. Append(path[t], Read(n))[1] = path[t][1]
      BY <3>2
    <3> QED BY <1>2, <1>3, <3>3, <3>4
  <2> QED BY <2>1, <2>2
<1>4. NodeFrame(t) /\ SameOrder
  BY CalmNodes
<1> QED BY <1>2, <1>3, <1>4, CalmKeeps DEF WithPred, Locking

(* ... the start and the return of a call, ...                             *)
LEMMA CallOrder ==
  ASSUME IInv, IInv', OrderInv, NEW t \in Threads, Step(t), Start(t) \/ Return(t) \/ init_finger(t) \/ descend(t)
  PROVE  OrderInv'
<1>2. CASE Start(t)
  <2>1. pc[t] = "idle" /\ pc'[t] \in {"next", "start"} /\ nodes' = nodes
    BY <1>2 DEF Start, shared, IInv, SharedInv, DomainInv
  <2>2. NodeFrame(t) /\ SameOrder
    BY <2>1, CalmNodes
  <2> QED BY <2>1, <2>2, CalmKeeps DEF WithPred, Locking
<1>3. CASE Return(t)
  <2>1. pc[t] = "return" /\ pc'[t] = "idle" /\ nodes' = nodes
    BY <1>3 DEF Return, shared, IInv, SharedInv, DomainInv
  <2>2. NodeFrame(t) /\ SameOrder
    BY <2>1, CalmNodes
  <2> QED BY <2>1, <2>2, CalmKeeps DEF WithPred, Locking
<1>4. CASE init_finger(t)
  <2>1. pc[t] = "start" /\ nodes' = nodes
    BY <1>4 DEF init_finger, shared
  <2>2. CASE EmptyTrie(t)
    <3>1. pc'[t] \in {"root_lock", "return"}
      BY <2>2 DEF EmptyTrie, IInv, SharedInv, DomainInv
    <3>2. NodeFrame(t) /\ SameOrder
      BY <2>1, CalmNodes
    <3> QED BY <2>1, <3>1, <3>2, CalmKeeps DEF WithPred, Locking
  <2>3. CASE Visit(t, Read(Root))
    BY <2>1, <2>3, VisitOrder
  <2> QED BY <1>4, <2>2, <2>3 DEF init_finger
<1>5. CASE descend(t)
  <2>1. pc[t] = "descend" /\ nodes' = nodes /\ \E n : Visit(t, Read(n))
    BY <1>5 DEF descend, shared
  <2> QED BY <2>1, VisitOrder
<1> QED BY <1>2, <1>3, <1>4, <1>5

(* ... the wait for the root, ...                                          *)
LEMMA RootOrder ==
  ASSUME IInv, IInv', OrderInv, NEW t \in Threads, Step(t), create_root(t), ~(CreateRootCheck(t) /\ is_empty)
  PROVE  OrderInv'
<1>1. DomainInv
  BY DEF IInv, SharedInv
<1>2. CASE CreateRootLock(t)
  <2>1. pc[t] = "root_lock" /\ pc'[t] \in {"root_check", "root_wait"}
    BY <1>1, <1>2 DEF CreateRootLock, DomainInv
  <2>2. Root \in Names
    BY <2>1, Writer, TrieNames DEF PutPcs, IInv, ThreadInv
  <2>3. nodes' = nodes \/ (nodes' = LockNodes(nodes, t, {Root}) /\ nodes[Root].lock = NULL)
    BY <1>2 DEF CreateRootLock
  <2>4. NodeFrame(t) /\ SameOrder
    BY <2>2, <2>3, CalmNodes
  <2> QED BY <2>1, <2>4, CalmKeeps DEF WithPred, Locking
<1>3. CASE CreateRootWait(t)
  <2>1. pc[t] = "root_wait" /\ pc'[t] = "start" /\ nodes' = nodes
    BY <1>1, <1>3 DEF CreateRootWait, DomainInv, shared
  <2>2. NodeFrame(t) /\ SameOrder
    BY <2>1, CalmNodes
  <2> QED BY <2>1, <2>2, CalmKeeps DEF WithPred, Locking
<1>4. CASE CreateRootCheck(t)
  <2>1. pc[t] = "root_check" /\ pc'[t] = "start" /\ nodes' = release_all_locks(nodes, t)
    BY <1>1, <1>4 DEF CreateRootCheck, CreateRootExists, DomainInv
  <2>2. NodeFrame(t) /\ SameOrder
    BY <2>1, CalmNodes
  <2> QED BY <2>1, <2>2, CalmKeeps DEF WithPred, Locking
<1> QED BY <1>2, <1>3, <1>4 DEF create_root

(* ... an iterator that has found the leaf before its key, ...             *)
LEMMA PositionedOrder ==
  ASSUME IInv, IInv', OrderInv, NEW t \in Threads, Step(t), NEW c, Positioned(t, c), call[t].op \in IterCalls,
         pc[t] \in {"descend", "max_leaf"}
  PROVE  OrderInv'
<1>1. DomainInv /\ CallInv(t)
  BY DEF IInv, SharedInv, ThreadInv
<1>2. pc'[t] \in {"advance", "return", "resynced"} /\ nodes' = nodes
  BY <1>1 DEF Positioned, DomainInv, shared
<1>3. call'[t].op = call[t].op
  BY <1>1, SetsResult DEF Positioned
<1>4. NodeFrame(t) /\ SameOrder
  BY <1>2, CalmNodes
<1> QED BY <1>2, <1>3, <1>4, CalmKeeps DEF WithPred, Locking, PutCalls, IterCalls

(* ... its other steps, ...                                                *)
LEMMA IterateOrder ==
  ASSUME IInv, IInv', OrderInv, NEW t \in Threads, Step(t), Iterate(t)
  PROVE  OrderInv'
<1>1. DomainInv /\ CallInv(t)
  BY DEF IInv, SharedInv, ThreadInv
<1>2. ASSUME nodes' = nodes, pc'[t] \in {"return", "resynced", "start", "next_again"}, call'[t].op \in IterCalls, ~WithPred(t)
      PROVE  OrderInv'
  <2>1. NodeFrame(t) /\ SameOrder
    BY <1>2, CalmNodes
  <2> QED BY <1>2, <2>1, CalmKeeps DEF WithPred, Locking, PutCalls, IterCalls
<1>3. CASE IterGotoFirst(t)
  BY <1>3, PositionedOrder DEF IterGotoFirst
<1>4. CASE IterGotoNoBitmap(t)
  <2>1. pc[t] = "descend" /\ call[t].op \in IterCalls
    BY <1>4 DEF IterGotoNoBitmap, At
  <2>2. CASE Retry(t)
    BY <2>1, <2>2, RetryOrder DEF WithPred
  <2>3. CASE Positioned(t, Read(MinLeaf))
    BY <2>1, <2>3, PositionedOrder
  <2>4. CASE ~Retry(t) /\ ~Positioned(t, Read(MinLeaf))
    <3>1. /\ pc'[t] \in {"return", "resynced"} /\ nodes' = nodes
          /\ \E r : call' = [call EXCEPT ![t].ret = r]
      BY <1>1, <1>4, <2>4 DEF IterGotoNoBitmap, DomainInv, shared
    <3>2. call'[t].op = call[t].op
      BY <1>1, <2>1, <3>1, SetsResult
    <3> QED BY <1>2, <2>1, <3>1, <3>2 DEF WithPred
  <2> QED BY <2>2, <2>3, <2>4
<1>5. CASE IterGotoAdvance(t)
  <2>1. pc[t] = "advance" /\ call[t].op \in IterCalls
    BY <1>1, <1>5 DEF IterGotoAdvance, CallInv, IterPcs
  <2>2. CASE Retry(t)
    BY <2>1, <2>2, RetryOrder DEF WithPred
  <2>3. CASE ~Retry(t)
    <3>1. /\ pc'[t] \in {"return", "resynced"} /\ nodes' = nodes
          /\ \E r : call' = [call EXCEPT ![t].ret = r]
      BY <1>1, <1>5, <2>3 DEF IterGotoAdvance, DomainInv, shared
    <3>2. call'[t].op = call[t].op
      BY <1>1, <2>1, <3>1, SetsResult
    <3> QED BY <1>2, <2>1, <3>1, <3>2 DEF WithPred
  <2> QED BY <2>2, <2>3
<1>6. CASE IterNextCurrent(t)
  <2>1. pc[t] = "next" /\ call[t].op \in IterCalls
    BY <1>1, <1>6 DEF IterNextCurrent, CallInv, IterPcs
  <2>2. pc'[t] = "return" /\ nodes' = nodes /\ \E r : call' = [call EXCEPT ![t].ret = r]
    BY <1>1, <1>6 DEF IterNextCurrent, Reports, DomainInv, shared
  <2>3. call'[t].op = call[t].op
    BY <1>1, <2>1, <2>2, SetsResult
  <2> QED BY <1>2, <2>1, <2>2, <2>3 DEF WithPred
<1>7. CASE IterNextRead(t)
  <2>1. pc[t] \in {"next", "next_again"} /\ call[t].op \in IterCalls
    BY <1>1, <1>7 DEF IterNextRead, CallInv, IterPcs
  <2>2. pc'[t] \in {"return", "start"} /\ nodes' = nodes /\ (call' = call \/ \E r : call' = [call EXCEPT ![t].ret = r])
    BY <1>1, <1>7 DEF IterNextRead, Reports, DomainInv, shared
  <2>3. call'[t].op = call[t].op
    BY <1>1, <2>1, <2>2, SetsResult
  <2> QED BY <1>2, <2>1, <2>2, <2>3 DEF WithPred
<1>8. CASE IterNextResynced(t)
  <2>1. pc[t] = "resynced" /\ call[t].op \in IterCalls
    BY <1>1, <1>8 DEF IterNextResynced, CallInv, IterPcs
  <2>2. pc'[t] = "next_again" /\ nodes' = nodes /\ call' = call
    BY <1>1, <1>8 DEF IterNextResynced, DomainInv, shared
  <2> QED BY <1>2, <2>1, <2>2 DEF WithPred
<1> QED BY <1>3, <1>4, <1>5, <1>6, <1>7, <1>8 DEF Iterate

(* ... the locks of the path of an insert, ...                             *)
LEMMA LockPathOrder ==
  ASSUME IInv, IInv', OrderInv, NEW t \in Threads, Step(t), LockPath(t)
  PROVE  OrderInv'
<1>1. DomainInv /\ CallInv(t) /\ Frame(t) /\ ThreadInv(t) /\ SharedInv
  BY FrameStep DEF IInv, SharedInv, ThreadInv
<1>2. pc[t] = "descend" /\ call[t].op \in PutCalls /\ ~WithPred(t)
  BY DEF LockPath, At, WithPred
<1>3. CASE Retry(t)
  BY <1>2, <1>3, RetryOrder
<1>4. CASE ~Retry(t)
  <2> DEFINE S == {c.name : c \in CopiesToLock(path[t])}
  <2>1. /\ nodes' = LockNodes(nodes, t, S) /\ pc'[t] = "pred" /\ path'[t] = path[t] /\ call'[t] = call[t]
        /\ \A c \in CopiesToLock(path[t]) : CanLock(c)
    BY <1>1, <1>4 DEF LockPath, DomainInv, locals
  <2>2. Guarded(t)
    BY <1>1, <1>2, Caller DEF PutCalls, IterCalls
  <2>3. PathOK(nodes, Trie, KeyOf(t), path[t]) /\ path[t] \in Seq(Copies) /\ Len(path[t]) > 0
    BY <1>1, <1>2, <2>2, PathEnd DEF RestPcs
  <2>4. ASSUME NEW c \in CopiesToLock(path[t]) PROVE c.name \in Names /\ nodes[c.name].lock = NULL
    <3>1. PICK j \in LockPositions(path[t]) : c = path[t][j]
      BY DEF CopiesToLock
    <3>2. j \in 1..Len(path[t])
      BY <2>3, <3>1, LockPositionsPart
    <3>3. Trie \in SUBSET TreeNames
      BY TrieNames
    <3>4. CanLock(c) /\ c.name \in Names
      BY <2>1, <2>3, <3>1, <3>2, <3>3, AtPath
    <3> QED BY <3>4 DEF CanLock
  <2>5. S \in SUBSET Names /\ \A n \in S : nodes[n].lock = NULL
    BY <2>4
  <2> HIDE DEF S
  <2>6. NodeFrame(t) /\ SameOrder
    BY <2>1, <2>5, CalmNodes
  <2>7. path[t][1].name = Root
    BY <1>2 DEF OrderInv, PlaceInv, RestPcs
  <2>8. PlaceInv(t)' /\ ~WithPred(t)'
    BY <2>1, <2>7 DEF PlaceInv, WithPred, Placing, Putting
  <2> QED BY <1>1, <1>2, <2>6, <2>8, QuietKeeps
<1> QED BY <1>3, <1>4

(* ... and the write of a value.                                           *)
LEMMA SetValueOrder ==
  ASSUME IInv, IInv', OrderInv, NEW t \in Threads, Step(t), SetValue(t)
  PROVE  OrderInv'
<1>1. DomainInv /\ CallInv(t) /\ Frame(t) /\ ThreadInv(t) /\ SharedInv /\ nodes \in NodeMaps
  BY FrameStep DEF IInv, SharedInv, ThreadInv, NodesOK
<1> DEFINE c == Last(path[t])
           v == [c.value EXCEPT !.kv = call[t].value]
<1>2. pc[t] = "descend" /\ call[t].op \in {"ct_update", "ct_upsert"} /\ ~WithPred(t) /\ c.value.type = "LEAF"
  BY DEF SetValue, At, WithPred
<1>3. CASE Retry(t)
  BY <1>2, <1>3, RetryOrder
<1>4. CASE ~Retry(t)
  <2>1. CanLock(c) /\ nodes' = WriteNode(nodes, c.name, v) /\ pc'[t] = "return"
    BY <1>1, <1>4 DEF SetValue, DomainInv, update_entry
  <2>2. Guarded(t) /\ call[t].value \in Values
    BY <1>1, <1>2, Caller DEF PutCalls, IterCalls
  <2>3. CopyIn(nodes, c) /\ c.name \in TreeNames /\ Fits(c.name, c.value)
    BY <1>1, <1>2, <2>2, PathEnd DEF RestPcs
  <2>4. nodes[c.name].lock = NULL /\ nodes[c.name].value = c.value /\ c.name \in Names
    BY <2>1, <2>3, Lockable
  <2>5. v \in NodeValues /\ v.type = "LEAF" /\ v # Unused
    BY <1>2, <2>2, <2>3, <2>4, ChangedLeaf
  <2>6. v.next_leaf = c.value.next_leaf /\ v.dirty = c.value.dirty
    <3>1. c.value \in LeafValues
      BY <1>2, <2>3, <2>4, Kinds
    <3> QED BY <3>1 DEF LeafValues
  <2> HIDE DEF v, c
  <2>7. /\ nodes' \in NodeMaps
        /\ nodes'[c.name].value = v /\ nodes'[c.name].seq = nodes[c.name].seq + 1 /\ nodes'[c.name].lock = nodes[c.name].lock
        /\ \A m \in Names \ {c.name} : nodes'[m] = nodes[m]
    BY <1>1, <2>1, <2>4, <2>5, WritesNode
  <2>8. SameOrder
    <3>1. c.value # Unused
      BY <1>2, UnusedKind DEF Unused
    <3> QED BY <1>2, <2>4, <2>5, <2>6, <2>7, <3>1 DEF SameOrder
  <2>9. NodeFrame(t)
    <3>1. \A u \in Threads \ {t}, n \in Names : nodes[n].lock = u \/ nodes'[n].lock = u => nodes'[n] = nodes[n]
      BY <2>4, <2>7, NoThread
    <3>2. \A n \in Names : nodes[n].seq \in Nat
      BY <1>1, NodeIs
    <3>3. \A n \in Names : nodes[n].seq <= nodes'[n].seq /\ (nodes[n].seq = nodes'[n].seq => nodes'[n] = nodes[n])
      BY <2>7, <3>2
    <3> QED BY <2>7, <3>1, <3>3 DEF NodeFrame
  <2> QED BY <1>2, <2>1, <2>8, <2>9, CalmKeeps DEF Locking
<1> QED BY <1>3, <1>4

-----------------------------------------------------------------------------
(* The predecessor of a new leaf. *)

(* The symbol with which the path, or the new leaf, goes on from position  *)
(* j, ...                                                                  *)
Turn(t, j) == IF j = Len(path[t]) THEN NextSymbol(t) ELSE last_symbol(path[t][j + 1])

(* ... and the children left of it.                                        *)
LeftOf(t, j) ==
  IF path[t][j].value.type = "BITMAP" THEN {s \in path[t][j].value.children : s < Turn(t, j)} ELSE {}

(* The new leaf lies below the nodes on the path.                          *)
LEMMA TargetBelow ==
  ASSUME IInv, NEW t \in Threads, Locking(t), call[t].ret = Pending
  PROVE  /\ Target(t) \in TreeNames /\ Last(path[t]).value.type \in {"LEAF", "BITMAP"}
         /\ \A j \in 1..Len(path[t]) :
              /\ Above(path[t][j].name, Target(t)) /\ path[t][j].name \in Trie /\ path[t][j].name \in TreeNames
              /\ Fits(path[t][j].name, path[t][j].value)
              /\ path[t][j].value.type = "BITMAP" =>
                   /\ Turn(t, j) \in Nat /\ Append(path[t][j].name, Turn(t, j)) \in TreeNames
                   /\ Above(Append(path[t][j].name, Turn(t, j)), Target(t))
<1> DEFINE p == path[t]
           n == Len(p)
           e == Last(p).name
           m == Target(t)
<1>1. /\ SharedInv /\ call[t].key \in Keys /\ KeyOf(t) = call[t].key /\ e \in Trie /\ e \in TreeNames
      /\ PathOK(nodes, Trie, KeyOf(t), p) /\ p \in Seq(Copies) /\ n > 0 /\ n \in Nat /\ e = p[n].name /\ Last(p) = p[n]
      /\ ThreadInv(t)
  BY WriterEnd
<1>2. KeyOf(t) \in Seq(Nat \ {0}) /\ Trie \in SUBSET TreeNames
  BY <1>1, KeysAreSequences, TrieNames
<1>3. Last(p).value.type \in {"LEAF", "BITMAP"}
  BY <1>1 DEF ThreadInv, EndInv
<1>4. m \in TreeNames /\ Above(e, m)
  <2>1. CASE Last(p).value.type = "BITMAP"
    BY <2>1, FreeChild
  <2>2. CASE Last(p).value.type # "BITMAP"
    BY <1>1, <2>2, NamesOrder DEF Target
  <2> QED BY <2>1, <2>2
<1> HIDE DEF m
<1>5. ASSUME NEW j \in 1..n
      PROVE  /\ Above(p[j].name, m) /\ p[j].name \in Trie /\ p[j].name \in TreeNames /\ Fits(p[j].name, p[j].value)
             /\ p[j].value.type = "BITMAP" =>
                   /\ Turn(t, j) \in Nat /\ Append(p[j].name, Turn(t, j)) \in TreeNames
                   /\ Above(Append(p[j].name, Turn(t, j)), m)
  <2>1. p[j].name \in Trie /\ p[j].name \in TreeNames /\ Fits(p[j].name, p[j].value)
    BY <1>1, <1>2, AtPath
  <2>2. n \in 1..Len(p) /\ j <= n
    BY <1>1
  <2>3. Above(p[j].name, e)
    BY <1>1, <1>2, <2>2, PathAbove
  <2>4. Above(p[j].name, m)
    BY <1>1, <1>4, <2>1, <2>3, TreeTrans
  <2>5. ASSUME j = n, p[j].value.type = "BITMAP"
        PROVE  /\ Turn(t, j) \in Nat /\ Append(p[j].name, Turn(t, j)) \in TreeNames
               /\ Above(Append(p[j].name, Turn(t, j)), m)
    <3>1. m = Append(e, NextSymbol(t)) /\ NextSymbol(t) \in Nat
      BY <1>1, <2>5, FreeChild DEF m
    <3>2. Turn(t, j) = NextSymbol(t)
      BY <2>5 DEF Turn
    <3> QED BY <1>1, <1>4, <2>5, <3>1, <3>2, NamesOrder
  <2>6. ASSUME j < n, p[j].value.type = "BITMAP"
        PROVE  /\ Turn(t, j) \in Nat /\ Append(p[j].name, Turn(t, j)) \in TreeNames
               /\ Above(Append(p[j].name, Turn(t, j)), m)
    <3>1. j \in Nat /\ j >= 1 /\ j + 1 \in 1..n /\ j + 1 <= n /\ j # n
      BY <1>1, <2>6
    <3>2. p[j + 1].name \in Below(p[j].name, p[j].value) /\ p[j + 1].name \in TreeNames
      BY <1>1, <1>2, <2>6, <3>1, PathStep, AtPath
    <3>3. PICK s \in p[j].value.children : p[j + 1].name = Append(p[j].name, s) /\ Last(p[j + 1].name) = s
      BY <2>1, <2>6, <3>2, LargestChild
    <3>4. s \in Nat
      BY <2>1, <2>6, <3>3, LargestChild
    <3>5. Turn(t, j) = s
      BY <3>1, <3>3 DEF Turn, last_symbol
    <3>6. Above(p[j + 1].name, e)
      BY <1>1, <1>2, <2>2, <3>1, PathAbove
    <3>7. Above(p[j + 1].name, m)
      BY <1>1, <1>4, <3>2, <3>6, TreeTrans
    <3> QED BY <3>2, <3>3, <3>4, <3>5, <3>7
  <2>7. j = n \/ j < n
    BY <1>1
  <2> QED BY <2>1, <2>4, <2>5, <2>6, <2>7
<1> QED BY <1>3, <1>4, <1>5 DEF m

(* What is left of the path comes before the new leaf.                     *)
LEMMA LeftBefore ==
  ASSUME IInv, NEW t \in Threads, Locking(t), call[t].ret = Pending, NEW j \in 1..Len(path[t]), NEW s \in LeftOf(t, j)
  PROVE  LET n == Append(path[t][j].name, s)
         IN  n \in Trie /\ n \in TreeNames /\ Before(n, Target(t)) /\ s \in Nat /\ s < Turn(t, j) /\ Turn(t, j) \in Nat
<1> DEFINE p == path[t]
<1>1. p[j].value.type = "BITMAP" /\ s \in p[j].value.children /\ s < Turn(t, j)
  BY DEF LeftOf
<1>2. /\ Target(t) \in TreeNames
      /\ Above(p[j].name, Target(t)) /\ p[j].name \in Trie /\ p[j].name \in TreeNames
      /\ Fits(p[j].name, p[j].value)
      /\ Turn(t, j) \in Nat /\ Append(p[j].name, Turn(t, j)) \in TreeNames
      /\ Above(Append(p[j].name, Turn(t, j)), Target(t))
  BY <1>1, TargetBelow
<1>3. s \in Nat /\ Append(p[j].name, s) \in Below(p[j].name, p[j].value)
  BY <1>1, <1>2, LargestChild
<1>4. PathOK(nodes, Trie, KeyOf(t), p) /\ Trie \in SUBSET TreeNames
  BY WriterEnd, TrieNames
<1>5. Append(p[j].name, s) \in Trie
  BY <1>3, <1>4, AtPath
<1>6. Before(Append(p[j].name, s), Append(p[j].name, Turn(t, j)))
  BY <1>1, <1>2, <1>3, NamesOfTree, OrderChildren
<1> QED BY <1>1, <1>2, <1>3, <1>4, <1>5, <1>6, NamesOrder

(* A path is no longer than the names on it.                               *)
LEMMA PathDepth ==
  ASSUME NEW ns, NEW T \in SUBSET TreeNames, NEW key, NEW p, PathOK(ns, T, key, p), NEW i \in 1..Len(p)
  PROVE  i <= Len(p[i].name) + 1
<1> DEFINE S == {j \in 1..Len(p) : Len(p[j].name) + 1 < j}
           m == Min(S)
<1>1. SUFFICES ASSUME S # {} PROVE FALSE
  <2>1. Len(p[i].name) \in Nat
    BY AtPath
  <2> QED BY <2>1
<1>2. p \in Seq(Copies) /\ Len(p) \in Nat /\ \A j \in 1..Len(p) : Len(p[j].name) \in Nat
  <2>1. p \in Seq(Copies)
    BY DEF PathOK
  <2> QED BY <2>1, AtPath
<1>3. m \in S /\ \A x \in S : m <= x
  <2>1. S \in SUBSET Nat
    OBVIOUS
  <2> HIDE DEF S
  <2> QED BY <1>1, <2>1, SmallestNumber
<1> HIDE DEF m
<1>4. m \in 1..Len(p) /\ Len(p[m].name) + 1 < m /\ m > 1 /\ m - 1 \in 1..Len(p) /\ m - 1 < m /\ Len(p[m - 1].name) \in Nat
  BY <1>2, <1>3
<1>5. Len(p[m - 1].name) < Len(p[m].name)
  BY <1>4, PathLengthens
<1>6. m - 1 \in S
  BY <1>2, <1>4, <1>5
<1> QED BY <1>3, <1>4, <1>6

(* Where the code looks for the predecessor of a new leaf: below the       *)
(* largest child left of the lowest position that has one.                 *)
LEMMA LocatorPart ==
  ASSUME IInv, NEW t \in Threads, Locking(t), call[t].ret = Pending
  PROVE  LET l == pred_locator(t)
             n == Len(path[t])
         IN  /\ l = NULL => \A j \in 1..n : LeftOf(t, j) = {}
             /\ l # NULL => /\ l.pos \in 1..n /\ \A j \in 1..n : LeftOf(t, j) # {} => j <= l.pos
                            /\ \E x \in LeftOf(t, l.pos) : l.name = Append(path[t][l.pos].name, x)
                                                           /\ \A y \in LeftOf(t, l.pos) : y <= x
<1> DEFINE p == path[t]
           n == Len(p)
           i == IF p[n].value.type = "BITMAP" THEN n ELSE n - 1
           symbol == Turn(t, i)
           left(j) == {s \in p[j].value.children : s < IF j = i THEN symbol ELSE last_symbol(p[j + 1])}
           found == {j \in 1..i : p[j].value.type = "BITMAP" /\ left(j) # {}}
<1>1. /\ n > 0 /\ n \in Nat /\ Last(p) = p[n] /\ call[t].op \in PutCalls
  BY WriterEnd
<1>2. p[n].value.type \in {"LEAF", "BITMAP"}
  BY <1>1, TargetBelow
<1>3. i \in Nat /\ i <= n
  BY <1>1
<1>4. pred_locator(t) = IF i = 0 THEN NULL ELSE find_left_descend(p, i, symbol)
  <2>1. CASE p[n].value.type = "BITMAP"
    BY <1>1, <2>1 DEF pred_locator, Turn
  <2>2. CASE p[n].value.type # "BITMAP"
    <3>1. pred_locator(t) = IF n = 1 THEN NULL ELSE find_left_descend(p, n - 1, last_symbol(p[n]))
      BY <1>1, <2>2 DEF pred_locator
    <3>2. i = n - 1 /\ i # n /\ i + 1 = n
      BY <1>1, <2>2
    <3>3. symbol = last_symbol(p[n])
      BY <3>2 DEF Turn
    <3>4. n = 1 <=> i = 0
      BY <1>1, <3>2
    <3> QED BY <3>1, <3>2, <3>3, <3>4
  <2> QED BY <2>1, <2>2
<1>5. find_left_descend(p, i, symbol) =
        IF found = {} THEN NULL ELSE [pos |-> Max(found), name |-> Append(p[Max(found)].name, Max(left(Max(found))))]
  BY DEF find_left_descend
<1>6. ASSUME NEW j \in 1..i, p[j].value.type = "BITMAP" PROVE left(j) = LeftOf(t, j)
  <2>1. CASE j = i
    BY <1>6, <2>1 DEF LeftOf
  <2>2. CASE j # i
    <3>1. j # n
      BY <1>3, <2>2
    <3> QED BY <1>6, <2>2, <3>1 DEF LeftOf, Turn
  <2> QED BY <2>1, <2>2
<1>7. ASSUME NEW j \in 1..n, LeftOf(t, j) # {} PROVE j \in 1..i /\ p[j].value.type = "BITMAP"
  BY <1>1, <1>2, <1>7 DEF LeftOf
<1> HIDE DEF i, left
<1>8. found = {j \in 1..n : LeftOf(t, j) # {}} /\ found \subseteq 1..i /\ found \subseteq 1..n
  <2>1. \A j \in 1..i : j \in 1..n
    BY <1>1, <1>3
  <2>2. \A j \in found : j \in 1..n /\ LeftOf(t, j) # {}
    BY <1>6, <2>1
  <2>3. ASSUME NEW j \in 1..n, LeftOf(t, j) # {} PROVE j \in found
    <3>1. j \in 1..i /\ p[j].value.type = "BITMAP"
      BY <1>7, <2>3
    <3>2. left(j) = LeftOf(t, j)
      BY <1>6, <3>1, Zenon
    <3> QED BY <2>3, <3>1, <3>2
  <2> QED BY <2>1, <2>2, <2>3
<1>9. CASE found = {}
  BY <1>4, <1>5, <1>8, <1>9
<1>10. CASE found # {}
  <2>1. i # 0
    BY <1>8, <1>10
  <2>2. found \in SUBSET Nat /\ \A j \in found : j <= n
    BY <1>1, <1>8
  <2> DEFINE f == Max(found)
  <2> HIDE DEF found
  <2>3. HasMax(found)
    BY <1>1, <1>10, <2>2, BoundedHasMax
  <2>4. f \in found /\ \A j \in found : f >= j
    BY <2>3, LargestOf
  <2> HIDE DEF f
  <2>5. f \in 1..n /\ LeftOf(t, f) # {} /\ f \in 1..i /\ p[f].value.type = "BITMAP" /\ left(f) = LeftOf(t, f)
    BY <1>6, <1>7, <1>8, <2>4
  <2>6. \A s \in LeftOf(t, f) : s \in Nat /\ s <= Turn(t, f) /\ Turn(t, f) \in Nat
    BY <2>5, LeftBefore
  <2>7. LeftOf(t, f) \in SUBSET Nat /\ Turn(t, f) \in Nat
    BY <2>5, <2>6
  <2>8. HasMax(LeftOf(t, f))
    BY <2>5, <2>6, <2>7, BoundedHasMax
  <2>9. Max(LeftOf(t, f)) \in LeftOf(t, f) /\ \A s \in LeftOf(t, f) : Max(LeftOf(t, f)) >= s
    BY <2>8, LargestOf
  <2>10. pred_locator(t) = [pos |-> f, name |-> Append(p[f].name, Max(LeftOf(t, f)))]
    BY <1>4, <1>5, <1>10, <2>1, <2>5 DEF f
  <2>11. pred_locator(t).pos = f /\ pred_locator(t).name = Append(p[f].name, Max(LeftOf(t, f)))
    BY <2>10
  <2>12. \A s \in LeftOf(t, f) : s <= Max(LeftOf(t, f))
    BY <2>6, <2>9
  <2>13. \A j \in 1..n : LeftOf(t, j) # {} => j <= f
    <3>1. f \in Nat
      BY <2>5
    <3> QED BY <1>8, <2>4, <3>1
  <2>14. pred_locator(t) # NULL
    <3> DEFINE s == Max(LeftOf(t, f))
               name == Append(p[f].name, s)
    <3>1. name \in TreeNames /\ s \in Nat
      BY <2>5, <2>9, LeftBefore
    <3>2. PathOK(nodes, Trie, KeyOf(t), p) /\ Trie \in SUBSET TreeNames
      BY WriterEnd, TrieNames
    <3>3. f <= Len(p[f].name) + 1 /\ p[f].name \in Seq(Nat) /\ f \in Nat
      <4>1. f \in 1..Len(p)
        BY <2>5
      <4>2. f <= Len(p[f].name) + 1
        BY <3>2, <4>1, PathDepth
      <4>3. p[f].name \in Seq(Nat)
        BY <3>2, <4>1, AtPath
      <4> QED BY <4>1, <4>2, <4>3
    <3> HIDE DEF s
    <3>4. Len(name) = Len(p[f].name) + 1
      BY <3>1, <3>3, AppendPart
    <3>5. f \in 1..Len(name)
      BY <2>5, <3>3, <3>4
    <3>6. [pos |-> f, name |-> name] # NULL
      BY <3>1, <3>5, LocatorAssumption
    <3> QED BY <2>10, <3>6 DEF s
  <2> QED BY <2>5, <2>9, <2>11, <2>12, <2>13, <2>14
<1> QED BY <1>9, <1>10

(* Left of the new leaf, below a node on the path, there are only nodes    *)
(* below children left of the path.                                        *)
LEMMA LeftHolds ==
  ASSUME IInv, NEW t \in Threads, Locking(t), call[t].ret = Pending, NEW i \in 1..Len(path[t]),
         \A j \in i..Len(path[t]) : nodes[path[t][j].name].value = path[t][j].value,
         NEW y \in Trie, Above(path[t][i].name, y), Before(y, Target(t))
  PROVE  \E j \in i..Len(path[t]) : \E s \in LeftOf(t, j) : Above(Append(path[t][j].name, s), y)
<1> DEFINE p == path[t]
           n == Len(p)
           K == {j \in i..n : Above(p[j].name, y)}
           k == Max(K)
<1>1. /\ SharedInv /\ n \in Nat /\ n > 0 /\ Last(p) = p[n] /\ PathOK(nodes, Trie, KeyOf(t), p)
      /\ Target(t) \in TreeNames /\ y \in TreeNames /\ Trie \in SUBSET TreeNames
      /\ p[n].value.type \in {"LEAF", "BITMAP"}
  BY WriterEnd, TargetBelow, TrieNames
<1>2. k \in K /\ \A x \in K : x <= k
  <2>1. i \in K /\ K \in SUBSET Nat /\ \A x \in K : x <= n
    BY <1>1
  <2>2. K # {}
    BY <2>1
  <2> HIDE DEF K
  <2>3. HasMax(K)
    BY <1>1, <2>1, <2>2, BoundedHasMax
  <2>4. k \in K /\ \A x \in K : k >= x
    BY <2>3, LargestOf
  <2> QED BY <2>1, <2>4
<1> HIDE DEF k
<1>3. k \in i..n /\ k \in 1..n /\ k \in Nat /\ Above(p[k].name, y)
  BY <1>1, <1>2
<1>4. /\ Above(p[k].name, Target(t)) /\ p[k].name \in Trie /\ p[k].name \in TreeNames
      /\ Fits(p[k].name, p[k].value) /\ nodes[p[k].name].value = p[k].value
      /\ p[k].value.type = "BITMAP" =>
           /\ Turn(t, k) \in Nat /\ Append(p[k].name, Turn(t, k)) \in TreeNames
           /\ Above(Append(p[k].name, Turn(t, k)), Target(t))
  BY <1>3, TargetBelow
<1>5. p[k].name # y
  BY <1>1, <1>4, NamesOrder
<1>6. PICK b \in Below(p[k].name, p[k].value) : Above(b, y)
  BY <1>1, <1>3, <1>4, <1>5, TrieChildren
<1>7. b \in TreeNames /\ p[k].value.type # "LEAF"
  BY <1>1, <1>4, <1>6, TrieChildren
<1>8. p[k].value.type = "BITMAP" /\ b # Append(p[k].name, Turn(t, k))
  <2>1. CASE k = n
    <3>1. p[k].value.type = "BITMAP"
      BY <1>1, <1>7, <2>1
    <3>2. Turn(t, k) = NextSymbol(t)
      BY <2>1 DEF Turn
    <3>3. Target(t) = Append(p[k].name, NextSymbol(t)) /\ \A x \in Below(p[k].name, nodes[p[k].name].value) : ~Above(x, Target(t))
      BY <1>1, <2>1, <3>1, FreeChild
    <3> QED BY <1>4, <1>6, <1>7, <3>1, <3>2, <3>3, NamesOrder
  <2>2. CASE k # n
    <3>1. k >= 1 /\ k < n /\ k + 1 \in i..n /\ k + 1 > k /\ k + 1 \in 1..n
      BY <1>1, <1>3, <2>2
    <3>2. p[k + 1].name \in Below(p[k].name, p[k].value) /\ p[k].value.type \in {"BITMAP", "JUMP"}
      BY <1>1, <1>3, <3>1, PathStep
    <3>3. b # p[k + 1].name
      BY <1>2, <1>3, <1>6, <3>1
    <3>4. p[k].value.type = "BITMAP"
      BY <1>6, <3>2, <3>3 DEF Below
    <3>5. p[k + 1].name = Append(p[k].name, Turn(t, k))
      <4>1. Turn(t, k) = Last(p[k + 1].name)
        BY <2>2 DEF Turn, last_symbol
      <4>2. PICK x \in p[k].value.children : p[k + 1].name = Append(p[k].name, x) /\ Last(p[k + 1].name) = x
        BY <1>4, <3>2, <3>4, LargestChild
      <4> QED BY <4>1, <4>2
    <3> QED BY <3>3, <3>4, <3>5
  <2> QED BY <2>1, <2>2
<1>9. PICK s \in p[k].value.children : b = Append(p[k].name, s)
  BY <1>6, <1>8 DEF Below
<1>10. s \in Nat /\ Turn(t, k) \in Nat /\ s # Turn(t, k)
  BY <1>4, <1>8, <1>9, LargestChild
<1>11. ~(Turn(t, k) < s)
  <2>1. ASSUME Turn(t, k) < s PROVE FALSE
    <3>1. Before(Append(p[k].name, Turn(t, k)), b)
      BY <1>4, <1>9, <1>10, <2>1, NamesOfTree, OrderChildren
    <3>2. Before(Append(p[k].name, Turn(t, k)), y)
      BY <1>1, <1>4, <1>6, <1>7, <1>8, <3>1, NamesOrder
    <3>3. Before(Target(t), y)
      BY <1>1, <1>4, <1>8, <3>2, NamesOrder
    <3> QED BY <1>1, <3>3, NamesOrder
  <2> QED BY <2>1
<1>12. s \in LeftOf(t, k)
  BY <1>8, <1>9, <1>10, <1>11 DEF LeftOf
<1> QED BY <1>3, <1>6, <1>9, <1>12

(* The leaf after a clean predecessor is the one after the new leaf.       *)
LEMMA NextAfter ==
  ASSUME IInv, OrderInv, NEW t \in Threads, Locking(t), call[t].ret = Pending, ~WithPred(t), NEW m,
         m = MinLeaf \/ (m \in Trie /\ nodes[m].value.type = "LEAF"),
         ~nodes[m].value.dirty, Prior(m, Target(t)),
         \A y \in Trie : nodes[y].value.type = "LEAF" /\ Before(y, Target(t)) => ~Prior(m, y)
  PROVE  LET v == nodes[m].value.next_leaf
         IN  IF Last(path[t]).value.type = "BITMAP" THEN v = NULL \/ Before(Target(t), v) ELSE v = Last(path[t]).name
<1> DEFINE v == nodes[m].value.next_leaf
           c == Last(path[t])
           x == Target(t)
<1>1. /\ SharedInv /\ x \in TreeNames /\ c.value.type \in {"LEAF", "BITMAP"} /\ MinLeaf \notin TreeNames
      /\ c.name \in Trie /\ nodes[c.name].value = c.value /\ c.name \in TreeNames
  BY WriterEnd, TargetBelow, NullIsNoName
<1>2. m = MinLeaf \/ m \in Listed
  BY ListedPart
<1>3. NextInv(m)
  BY <1>2 DEF OrderInv, ListInv
<1>4. (v = NULL => \A y \in Listed : ~Prior(m, y)) /\ (v # NULL => Prior(m, v))
  BY <1>3 DEF NextInv
<1>10. ASSUME v # NULL PROVE \A y \in Listed : Prior(m, y) => Upto(v, y)
  BY <1>3, <1>10 DEF NextInv
<1>11. ASSUME v # NULL, v \notin Listed PROVE \E u \in Threads : Splitting(u) /\ pred[u].name = m
  BY <1>3, <1>11 DEF NextInv
<1>5. \A u \in Threads : WithPred(u) => pred[u].name # m /\ nodes[pred[u].name].value = pred[u].value
  <2> TAKE u \in Threads
  <2> SUFFICES ASSUME WithPred(u) PROVE pred[u].name # m /\ nodes[pred[u].name].value = pred[u].value
    OBVIOUS
  <2>1. Owns(nodes, u, pred[u])
    BY DEF IInv, ThreadInv, HoldInv
  <2>2. nodes[pred[u].name].value = pred[u].value
    BY <2>1 DEF Owns
  <2>3. pred[u].value.dirty
    BY DEF OrderInv, DirtyInv
  <2> QED BY <2>2, <2>3
<1>6. v # NULL => v \in Listed
  <2>1. \A u \in Threads : Splitting(u) => WithPred(u)
    BY DEF Splitting, WithPred
  <2> QED BY <1>5, <1>11, <2>1
<1> HIDE DEF v, x
<1>7. ASSUME v # NULL, Before(v, x) PROVE FALSE
  <2>1. v \in Listed /\ v \in TreeNames /\ nodes[v].value.type = "LEAF" /\ Prior(m, v)
    BY <1>4, <1>6, <1>7, ListedPart
  <2>2. v \notin Trie
    BY <1>7, <2>1 DEF x
  <2>3. PICK u \in Threads : pc[u] = "mark" /\ Putting(u) /\ v = Target(u)
    BY <2>1, <2>2, ListedPart
  <2> DEFINE q == pred[u].name
  <2>4. WithPred(u) /\ new_leaf[u] = v /\ pred[u].value.next_leaf = v /\ q \in Trie \cup {MinLeaf}
    BY <2>3 DEF WithPred, OrderInv, PlaceInv
  <2>5. q # m /\ nodes[q].value = pred[u].value
    BY <1>5, <2>4
  <2>6. q = MinLeaf \/ q \in Listed
    <3>1. CASE q \in Trie
      <4>1. pred[u].value.type = "LEAF"
        BY <2>3 DEF IInv, ThreadInv, PredInv
      <4> QED BY <2>5, <3>1, <4>1, ListedPart
    <3> QED BY <2>4, <3>1
  <2>7. NextInv(q)
    BY <2>6 DEF OrderInv, ListInv
  <2> HIDE DEF q
  <2>8. Prior(q, v) /\ \A y \in Listed : Prior(q, y) => Upto(v, y)
    <3>1. nodes[q].value.next_leaf = v
      BY <2>4, <2>5
    <3> QED BY <1>7, <2>7, <3>1 DEF NextInv
  <2>9. \A y \in Listed : Prior(m, y) => Upto(v, y)
    BY <1>7, <1>10
  <2>10. CASE q = MinLeaf
    <3>1. m \in Listed /\ m # MinLeaf /\ m \in TreeNames
      BY <1>1, <1>2, <2>5, <2>10, ListedPart
    <3>2. Upto(v, m) /\ Before(m, v)
      BY <2>1, <2>8, <2>10, <3>1 DEF Prior
    <3> QED BY <2>1, <3>1, <3>2, UptoOrder
  <2>11. CASE q # MinLeaf /\ m = MinLeaf
    <3>1. q \in Listed /\ q \in TreeNames
      BY <2>6, <2>11, ListedPart
    <3>2. Upto(v, q) /\ Before(q, v)
      BY <2>8, <2>9, <2>11, <3>1 DEF Prior
    <3> QED BY <2>1, <3>1, <3>2, UptoOrder
  <2>12. CASE q # MinLeaf /\ m # MinLeaf
    <3>1. q \in Listed /\ m \in Listed /\ q \in TreeNames /\ m \in TreeNames
      BY <1>2, <2>6, <2>12, ListedPart
    <3>2. Before(q, m) \/ Before(m, q)
      BY <2>5, <3>1, ListedOrder
    <3>3. Before(q, v) /\ Before(m, v)
      BY <2>1, <2>8, <2>12 DEF Prior
    <3>4. Upto(v, m) \/ Upto(v, q)
      BY <2>8, <2>9, <3>1, <3>2 DEF Prior
    <3> QED BY <2>1, <3>1, <3>3, <3>4, UptoOrder
  <2> QED BY <2>10, <2>11, <2>12
<1>8. CASE c.value.type = "LEAF"
  <2>1. x = c.name /\ c.name \in Listed /\ c.value.type # "BITMAP"
    BY <1>1, <1>8, ListedPart DEF Target, x
  <2>2. Prior(m, c.name)
    BY <2>1 DEF x
  <2>3. v # NULL /\ Upto(v, c.name) /\ v \in Listed
    BY <1>4, <1>6, <1>10, <2>1, <2>2
  <2>4. v = c.name \/ Before(v, c.name)
    BY <2>1, <2>3, ListedOrder
  <2> QED BY <1>7, <2>1, <2>3, <2>4 DEF v
<1>9. CASE c.value.type = "BITMAP" /\ v # NULL
  <2>1. v \in Listed /\ v \in TreeNames
    BY <1>6, <1>9, ListedPart
  <2>2. v # x
    <3>1. ASSUME v = x PROVE FALSE
      <4>1. x \notin Trie
        BY <1>9, FreeChild DEF x
      <4>2. PICK u \in Threads : pc[u] = "mark" /\ Putting(u) /\ v = Target(u)
        BY <2>1, <3>1, <4>1, ListedPart
      <4>3. u # t /\ Locking(u) /\ call[u].ret = Pending /\ Last(path[u]).value.type = "BITMAP"
        BY <4>2, MarkPart
      <4>4. ~Above(Target(t), Target(u))
        BY <1>9, <4>3, ChildrenApart
      <4> QED BY <1>1, <3>1, <4>2, <4>4, NamesOrder DEF x
    <3> QED BY <3>1
  <2>3. ~Above(v, x) /\ ~Above(x, v)
    BY <1>9, <2>1, <2>2, TargetApart DEF x
  <2>4. Before(x, v)
    BY <1>1, <1>7, <1>9, <2>1, <2>3, NamesOrder
  <2> QED BY <1>9, <2>4 DEF v, x
<1> QED BY <1>1, <1>8, <1>9 DEF v

(* A copy of the leaf before the new leaf is a predecessor.                *)
LEMMA GotOrder ==
  ASSUME IInv, OrderInv, NEW t \in Threads, Step(t), Locking(t), pc[t] \in {"pred", "max_leaf"}, NEW m,
         GotPredecessor(t, Read(m)),
         m = MinLeaf \/ (m \in Trie /\ nodes[m].value.type = "LEAF"),
         ~nodes[m].value.dirty =>
           /\ Prior(m, Target(t))
           /\ \A y \in Trie : nodes[y].value.type = "LEAF" /\ Before(y, Target(t)) => ~Prior(m, y)
  PROVE  OrderInv'
<1>1. DomainInv /\ Frame(t) /\ call[t].op \in PutCalls /\ ThreadInv(t) /\ CallInv(t)
  BY FrameStep, WriterEnd DEF IInv, SharedInv, ThreadInv
<1>2. call[t].ret = Pending /\ ~WithPred(t)
  BY <1>1 DEF CallInv, WithPred
<1>3. /\ pred'[t] = Read(m) /\ pc'[t] = "lock_pred" /\ path'[t] = path[t] /\ call'[t] = call[t] /\ nodes' = nodes
  BY <1>1 DEF GotPredecessor, PutCalls, IterCalls, DomainInv, shared
<1>4. Read(m).name = m /\ Read(m).value = nodes[m].value
  BY DEF Read
<1>5. Target(t)' = Target(t)
  BY <1>3 DEF Target
<1>6. path[t][1].name = Root
  BY <1>1 DEF OrderInv, PlaceInv, RestPcs
<1>7. ASSUME ~nodes[m].value.dirty
      PROVE  LET v == nodes[m].value.next_leaf
             IN  IF Last(path[t]).value.type = "BITMAP" THEN v = NULL \/ Before(Target(t), v) ELSE v = Last(path[t]).name
  <2>1. \A y \in Trie : nodes[y].value.type = "LEAF" /\ Before(y, Target(t)) => ~Prior(m, y)
    BY <1>7
  <2> QED BY <1>2, <1>7, <2>1, NextAfter
<1>8. Trie' = Trie
  <2>1. \A u \in Threads : Hidden(u)' = Hidden(u)
    <3>1. Hidden(t)' = Hidden(t)
      BY <1>3, Nowhere, NowhereNext
    <3> QED BY <1>1, <3>1, OtherHidden
  <2> QED BY <1>3, <2>1, TrieSame
<1>9. PlaceInv(t)'
  <2>1. ~Putting(t)' /\ ~WithPred(t)'
    BY <1>3 DEF Putting, WithPred
  <2>2. pred'[t].name \in Trie' \cup {MinLeaf}
    BY <1>3, <1>4, <1>8
  <2>3. Placing(t)' => ~nodes[m].value.dirty
    BY <1>3, <1>4 DEF Placing
  <2>4. ASSUME ~nodes[m].value.dirty
        PROVE  /\ Prior(pred'[t].name, Target(t)')
               /\ IF Last(path'[t]).value.type = "BITMAP"
                  THEN pred'[t].value.next_leaf = NULL \/ Before(Target(t)', pred'[t].value.next_leaf)
                  ELSE pred'[t].value.next_leaf = Last(path'[t]).name
    BY <1>3, <1>4, <1>5, <1>7, <2>4
  <2> QED BY <1>3, <1>6, <2>1, <2>2, <2>3, <2>4 DEF PlaceInv
<1>10. NodeFrame(t) /\ SameOrder
  BY <1>3, CalmNodes
<1>11. ~WithPred(t)'
  BY <1>3 DEF WithPred
<1> QED BY <1>1, <1>2, <1>9, <1>10, <1>11, QuietKeeps

(* The nodes of a path that is validated are as the copies say.            *)
LEMMA Validated ==
  ASSUME IInv, NEW t \in Threads, Locking(t), NEW i \in 1..Len(path[t]), validate_path_from(path[t], i)
  PROVE  \A j \in i..Len(path[t]) : nodes[path[t][j].name].value = path[t][j].value
<1>1. PathOK(nodes, Trie, KeyOf(t), path[t]) /\ Len(path[t]) \in Nat
  BY WriterEnd
<1>2. ASSUME NEW j \in i..Len(path[t]) PROVE nodes[path[t][j].name].value = path[t][j].value
  <2>1. j \in 1..Len(path[t]) /\ validate_entry(path[t][j])
    BY <1>1 DEF validate_path_from
  <2>2. CopyIn(nodes, path[t][j])
    BY <1>1, <2>1 DEF PathOK, OnPath
  <2> QED BY <2>1, <2>2 DEF CopyIn, validate_entry
<1> QED BY <1>2

(* The largest leaf below the place that was found comes right before the  *)
(* new leaf.                                                               *)
LEMMA LargestBefore ==
  ASSUME IInv, NEW t \in Threads, Locking(t), call[t].ret = Pending, pred_locator(t) # NULL,
         validate_path_from(path[t], pred_locator(t).pos),
         NEW m \in Trie, Above(pred_locator(t).name, m),
         \A x \in Trie : nodes[x].value.type = "LEAF" /\ Above(pred_locator(t).name, x) => ~Before(m, x)
  PROVE  /\ Prior(m, Target(t))
         /\ \A y \in Trie : nodes[y].value.type = "LEAF" /\ Before(y, Target(t)) => ~Prior(m, y)
<1> DEFINE p == path[t]
           n == Len(p)
           l == pred_locator(t)
           i == l.pos
<1>1. i \in 1..n /\ \A j \in 1..n : LeftOf(t, j) # {} => j <= i
  BY LocatorPart
<1>2. PICK x \in LeftOf(t, i) : l.name = Append(p[i].name, x) /\ \A y \in LeftOf(t, i) : y <= x
  BY LocatorPart
<1>3. /\ l.name \in Trie /\ l.name \in TreeNames /\ Before(l.name, Target(t)) /\ x \in Nat
      /\ Target(t) \in TreeNames /\ Trie \in SUBSET TreeNames /\ MinLeaf \notin TreeNames /\ m \in TreeNames
      /\ p[i].name \in TreeNames /\ Above(p[i].name, Target(t))
  BY <1>1, <1>2, LeftBefore, TargetBelow, TrieNames, NullIsNoName
<1>4. Before(m, Target(t)) /\ m # MinLeaf /\ Prior(m, Target(t))
  BY <1>3, NamesOrder DEF Prior
<1>5. \A j \in i..n : nodes[p[j].name].value = p[j].value
  BY <1>1, Validated
<1>6. Above(p[i].name, l.name)
  <2>1. p[i].name \in Seq(Nat)
    BY <1>3, NamesOfTree
  <2>2. x \in Nat
    BY <1>3
  <2> DEFINE a == p[i].name
  <2> HIDE DEF p, i, l, a
  <2>3. Len(Append(a, x)) = Len(a) + 1 /\ Len(a) \in Nat /\ \A k \in 1..Len(a) : Append(a, x)[k] = a[k]
    BY <2>1, <2>2, AppendPart DEF a
  <2> QED BY <1>2, <2>3 DEF Above, a
<1>7. ASSUME NEW y \in Trie, nodes[y].value.type = "LEAF", Before(y, Target(t)) PROVE ~Before(m, y)
  <2>1. CASE Above(p[i].name, y)
    <3>1. PICK j \in i..n : \E s \in LeftOf(t, j) : Above(Append(p[j].name, s), y)
      BY <1>1, <1>5, <1>7, <2>1, LeftHolds
    <3>2. PICK s \in LeftOf(t, j) : Above(Append(p[j].name, s), y)
      BY <3>1
    <3>3. j = i
      BY <1>1, <3>1, <3>2
    <3>4. Append(p[i].name, s) \in TreeNames /\ s \in Nat /\ s <= x
      BY <1>1, <1>2, <3>2, <3>3, LeftBefore
    <3>5. CASE s = x
      BY <1>2, <1>7, <3>2, <3>3, <3>5
    <3>6. CASE s # x
      <4>1. Before(Append(p[i].name, s), l.name)
        BY <1>2, <1>3, <3>4, <3>6, NamesOfTree, OrderChildren
      <4>2. Before(Append(p[i].name, s), m)
        BY <1>3, <3>4, <4>1, NamesOrder
      <4>3. Before(y, m)
        BY <1>3, <3>2, <3>3, <3>4, <4>2, NamesOrder
      <4> QED BY <1>3, <4>3, NamesOrder
    <3> QED BY <3>5, <3>6
  <2>2. CASE ~Above(p[i].name, y)
    <3>1. Before(y, p[i].name)
      BY <1>3, <1>7, <2>2, NamesOrder
    <3>2. Above(p[i].name, m)
      BY <1>3, <1>6, NamesOrder
    <3>3. Before(y, m)
      BY <1>3, <3>1, <3>2, NamesOrder
    <3> QED BY <1>3, <3>3, NamesOrder
  <2> QED BY <2>1, <2>2
<1> QED BY <1>4, <1>7 DEF Prior

(* The search for the predecessor keeps the order of the list.             *)
LEMMA PredecessorOrder ==
  ASSUME IInv, IInv', OrderInv, NEW t \in Threads, Step(t), get_predecessor_atomic(t)
  PROVE  OrderInv'
<1>1. DomainInv /\ CallInv(t) /\ Frame(t) /\ ThreadInv(t) /\ SharedInv
  BY FrameStep DEF IInv, SharedInv, ThreadInv
<1>2. /\ pc[t] \in {"pred", "descend", "max_leaf"} /\ ~WithPred(t) /\ call[t].op \in PutCalls \cup IterCalls
      /\ pc[t] = "pred" => call[t].op \in PutCalls
      /\ pc[t] = "descend" => call[t].op \in IterCalls
  BY <1>1 DEF get_predecessor_atomic, PredecessorMinLeaf, PredecessorLeaf, PredecessorSubtree, PredecessorMaxLeaf, Seeking,
              At, CallInv, PutPcs, WithPred
<1>3. CASE Retry(t)
  BY <1>2, <1>3, RetryOrder
<1>4. CASE PredecessorSubtree(t)
  <2>1. /\ subtree'[t] = Read(pred_locator(t).name) /\ pc'[t] = "max_leaf" /\ nodes' = nodes /\ call' = call /\ path' = path
        /\ iter' = iter /\ pred_locator(t) # NULL
    BY <1>1, <1>4 DEF PredecessorSubtree, DomainInv, shared
  <2>2. NodeFrame(t) /\ SameOrder
    BY <2>1, CalmNodes
  <2>3. CASE call[t].op \in IterCalls
    BY <1>2, <2>1, <2>2, <2>3, CalmKeeps DEF Locking, IterCalls, PutCalls
  <2>4. CASE call[t].op \notin IterCalls
    <3>1. pc[t] = "pred" /\ call[t].op \in PutCalls
      BY <1>2, <1>4, <2>4 DEF PredecessorSubtree, Seeking
    <3>2. path[t][1].name = Root
      BY <3>1 DEF OrderInv, PlaceInv, RestPcs
    <3>3. pred_locator(t)' = pred_locator(t)
      BY <2>1 DEF pred_locator, KeyOf, NextSymbol, is_before_longest_prefix
    <3>4. PlaceInv(t)' /\ ~WithPred(t)'
      BY <2>1, <3>2, <3>3 DEF PlaceInv, WithPred, Placing, Putting, Read
    <3> QED BY <1>1, <1>2, <2>2, <3>4, QuietKeeps
  <2> QED BY <2>3, <2>4
<1>5. ASSUME NEW c, GotPredecessor(t, c), call[t].op \in IterCalls PROVE OrderInv'
  <2>1. Positioned(t, c)
    BY <1>5 DEF GotPredecessor, PutCalls, IterCalls
  <2>2. pc[t] \in {"descend", "max_leaf"}
    BY <1>2, <1>5 DEF PutCalls, IterCalls
  <2> QED BY <1>5, <2>1, <2>2, PositionedOrder
<1>6. ASSUME call[t].op \in PutCalls
      PROVE  /\ pc[t] \in {"pred", "max_leaf"} /\ Locking(t) /\ call[t].ret = Pending
             /\ Trie \in SUBSET TreeNames /\ path[t][1].name = Root
  <2>1. pc[t] \in {"pred", "max_leaf"}
    BY <1>2, <1>6 DEF PutCalls, IterCalls
  <2>2. call[t].ret = Pending /\ Locking(t)
    BY <1>1, <1>6, <2>1 DEF CallInv, Locking
  <2>3. path[t][1].name = Root
    BY <1>6, <2>1 DEF OrderInv, PlaceInv, RestPcs
  <2> QED BY <2>1, <2>2, <2>3, TrieNames
<1>7. CASE PredecessorMinLeaf(t) /\ ~Retry(t)
  <2>1. /\ GotPredecessor(t, Read(MinLeaf)) /\ pred_locator(t) = NULL /\ validate_path_from(path[t], 1)
    BY <1>7 DEF PredecessorMinLeaf
  <2>2. CASE call[t].op \in PutCalls
    <3>1. \A j \in 1..Len(path[t]) : LeftOf(t, j) = {}
      BY <1>6, <2>1, <2>2, LocatorPart
    <3>2. 1 \in 1..Len(path[t])
      BY <1>6, <2>2, WriterEnd
    <3>3. \A j \in 1..Len(path[t]) : nodes[path[t][j].name].value = path[t][j].value
      BY <1>6, <2>1, <2>2, <3>2, Validated
    <3>4. ASSUME NEW y \in Trie, Before(y, Target(t)) PROVE FALSE
      <4>1. Above(path[t][1].name, y)
        BY <1>6, <2>2 DEF Above, Root
      <4>2. \E j \in 1..Len(path[t]) : \E s \in LeftOf(t, j) : Above(Append(path[t][j].name, s), y)
        BY <1>6, <2>2, <3>2, <3>3, <3>4, <4>1, LeftHolds
      <4> QED BY <3>1, <4>2
    <3>5. Prior(MinLeaf, Target(t))
      BY DEF Prior
    <3> QED BY <1>6, <2>1, <2>2, <3>4, <3>5, GotOrder
  <2> QED BY <1>2, <1>5, <2>1, <2>2
<1>8. CASE PredecessorLeaf(t) /\ ~Retry(t)
  <2> DEFINE m == pred_locator(t).name
  <2>1. /\ GotPredecessor(t, Read(m)) /\ pred_locator(t) # NULL /\ validate_path_from(path[t], pred_locator(t).pos)
        /\ nodes[m].value.type = "LEAF"
    BY <1>8 DEF PredecessorLeaf, PredecessorValid
  <2>2. CASE call[t].op \in PutCalls
    <3>1. pred_locator(t).pos \in 1..Len(path[t])
      BY <1>6, <2>1, <2>2, LocatorPart
    <3>2. m \in Trie /\ m \in TreeNames
      <4>1. PICK x \in LeftOf(t, pred_locator(t).pos) : m = Append(path[t][pred_locator(t).pos].name, x)
        BY <1>6, <2>1, <2>2, LocatorPart
      <4> QED BY <1>6, <2>2, <3>1, <4>1, LeftBefore
    <3> HIDE DEF m
    <3>3. Above(m, m) /\ \A x \in Trie : Above(m, x) => ~Before(m, x)
      BY <1>6, <2>2, <3>2, NamesOrder
    <3>4. /\ Prior(m, Target(t))
          /\ \A y \in Trie : nodes[y].value.type = "LEAF" /\ Before(y, Target(t)) => ~Prior(m, y)
      BY <1>6, <2>1, <2>2, <3>2, <3>3, LargestBefore DEF m
    <3> QED BY <1>6, <2>1, <2>2, <3>2, <3>4, GotOrder
  <2> QED BY <1>2, <1>5, <2>1, <2>2
<1>9. CASE PredecessorMaxLeaf(t) /\ ~Retry(t)
  <2> DEFINE m == subtree[t].value.max_leaf
             q == subtree[t].name
  <2>1. /\ GotPredecessor(t, Read(m)) /\ validate_path_from(path[t], pred_locator(t).pos)
        /\ nodes[m].value.type = "LEAF" /\ ~nodes[m].value.dirty /\ validate_entry(subtree[t]) /\ pc[t] = "max_leaf"
    BY <1>9 DEF PredecessorMaxLeaf, PredecessorValid, Read
  <2>2. CASE call[t].op \in PutCalls
    <3>1. Locking(t) /\ pred_locator(t) # NULL /\ q = pred_locator(t).name
      BY <1>6, <2>1, <2>2 DEF OrderInv, PlaceInv
    <3>2. pred_locator(t).pos \in 1..Len(path[t])
      BY <1>6, <2>1, <2>2, <3>1, LocatorPart
    <3>3. q \in Trie
      <4>1. PICK x \in LeftOf(t, pred_locator(t).pos) : q = Append(path[t][pred_locator(t).pos].name, x)
        BY <1>6, <2>2, <3>1, LocatorPart
      <4> QED BY <1>6, <2>2, <3>2, <4>1, LeftBefore
    <3>4. nodes[q].value = subtree[t].value /\ nodes[q].value.type \in {"BITMAP", "JUMP"}
      <4>1. Guarded(t)
        BY <1>6, <2>2, WriterEnd
      <4>2. CopyIn(nodes, subtree[t]) /\ subtree[t].value.type \in {"BITMAP", "JUMP"}
        BY <1>1, <2>1, <4>1 DEF ThreadInv, PredInv
      <4> QED BY <2>1, <4>2 DEF CopyIn, validate_entry
    <3> HIDE DEF q
    <3>5. ASSUME NEW u \in Threads, Stale(u, q) PROVE FALSE
      <4>1. Locking(u) /\ WithPred(u) /\ call[u].ret # Pending
        BY <3>5, StaleLocked
      <4>2. m \in {pred[u].name, Last(path[u]).name}
        BY <3>4, <3>5 DEF Stale
      <4>3. Last(path[u]).value.type \in {"BITMAP", "JUMP"} /\ nodes[Last(path[u]).name].value = Last(path[u]).value
        BY <4>1, WriterEnd DEF ThreadInv, EndInv
      <4>4. Owns(nodes, u, pred[u])
        BY <4>1 DEF IInv, ThreadInv, HoldInv
      <4>5. nodes[pred[u].name].value = pred[u].value
        BY <4>4 DEF Owns
      <4>6. pred[u].value.dirty
        BY <4>1 DEF OrderInv, DirtyInv
      <4> QED BY <2>1, <4>2, <4>3, <4>5, <4>6
    <3>6. MaxRight(q)
      BY <3>3, <3>4, <3>5 DEF OrderInv, MaxInv
    <3>7. m \in Trie /\ Above(q, m) /\ \A x \in Trie : Above(q, x) => Upto(x, m)
      BY <3>4, <3>6 DEF MaxRight
    <3>8. \A x \in Trie : Above(q, x) => ~Before(m, x)
      <4>1. Trie \in SUBSET TreeNames
        BY TrieNames
      <4> HIDE DEF m
      <4> QED BY <3>7, <4>1, UptoOrder
    <3> HIDE DEF m
    <3>9. /\ Prior(m, Target(t))
          /\ \A y \in Trie : nodes[y].value.type = "LEAF" /\ Before(y, Target(t)) => ~Prior(m, y)
      BY <1>6, <2>1, <2>2, <3>1, <3>7, <3>8, LargestBefore
    <3> QED BY <1>6, <2>1, <2>2, <3>7, <3>9, GotOrder
  <2> QED BY <1>2, <1>5, <2>1, <2>2
<1> QED BY <1>3, <1>4, <1>7, <1>8, <1>9 DEF get_predecessor_atomic

-----------------------------------------------------------------------------
(* The steps of an insert. *)

(* The predecessor is marked, and the new nodes are added to the table.    *)
LEMMA PredecessorMarked ==
  ASSUME IInv, NEW t \in Threads, LockPredecessor(t), PredecessorLockable(pred[t])
  PROVE  LET c == Last(path[t])
             pn == pred[t].name
             dirty == [pred[t].value EXCEPT !.dirty = TRUE]
             new == NewNodes(t)
         IN  /\ new_leaf'[t] = FirstNewLeaf(t) /\ pc'[t] = IF c.value.type = "BITMAP" THEN "link" ELSE "head"
             /\ UNCHANGED <<is_empty, calls, call, path, subtree, level, iter, index, cursor>>
             /\ pn \in Names /\ nodes[pn].lock = NULL /\ nodes[pn].value = pred[t].value /\ pn \notin DOMAIN new /\ pn # c.name
             /\ Fits(pn, dirty) /\ dirty.type = "LEAF" /\ dirty # Unused /\ dirty.key = pred[t].value.key
             /\ dirty.kv = pred[t].value.kv /\ dirty.next_leaf = pred[t].value.next_leaf /\ dirty.dirty
             /\ DOMAIN new \subseteq TreeNames /\ FirstNewLeaf(t) \in TreeNames
             /\ \A m \in DOMAIN new : /\ Fits(m, new[m]) /\ new[m].type \in {"LEAF", "BITMAP", "JUMP"} /\ new[m] # Unused
                                      /\ nodes[m].value = Unused /\ nodes[m].lock = NULL /\ m \notin Trie /\ m # Root
             /\ \A n \in DOMAIN new : n \in Names /\ nodes'[n].value = new[n] /\ nodes'[n].lock = t
             /\ nodes'[pn].value = dirty /\ nodes'[pn].seq = nodes[pn].seq + 1 /\ nodes'[pn].lock = t
             /\ \A n \in Names \ (DOMAIN new \cup {pn}) : nodes'[n] = nodes[n]
             /\ nodes' \in NodeMaps /\ NodeFrame(t) /\ Hidden(t)' = DOMAIN new /\ Trie' = Trie
             /\ pred'[t] = [name |-> pn, value |-> dirty, seq |-> nodes[pn].seq + 1]
<1>1. /\ SharedInv /\ DomainInv /\ ThreadInv(t) /\ CallInv(t) /\ EndInv(t) /\ HoldInv(t) /\ nodes \in NodeMaps /\ NodesOK
      /\ pc[t] = "lock_pred" /\ Locking(t)
  BY DEF IInv, SharedInv, ThreadInv, NodesOK, LockPredecessor, Locking
<1>2. Frame(t)
  BY <1>1, FrameCreateLeaf DEF create_leaf
<1>3. /\ call[t].op \in PutCalls /\ call[t].key \in Keys /\ call[t].value \in Values
      /\ KeyOf(t) = call[t].key /\ Root \in TreeNames /\ pc[t] # "idle"
  BY <1>1, Writer
<1>4. call[t].ret = Pending
  BY <1>1 DEF CallInv
<1>5. Guarded(t) /\ pc[t] \notin RestPcs \cup {"return"} /\ ~is_empty
  BY <1>1, Owner
<1> DEFINE c == Last(path[t])
           pn == pred[t].name
           dirty == [pred[t].value EXCEPT !.dirty = TRUE]
           locked == LockNodes(nodes, t, {pn})
           w1 == WriteNode(locked, pn, dirty)
           new == NewNodes(t)
<1>6. /\ nodes' = AddNodes(w1, t, new)
      /\ pred'[t] = Updated(pred[t], dirty)
      /\ new_leaf'[t] = FirstNewLeaf(t)
      /\ pc'[t] = IF c.value.type = "BITMAP" THEN "link" ELSE "head"
      /\ UNCHANGED <<is_empty, calls, call, path, subtree, level, iter, index, cursor>>
  BY <1>1 DEF LockPredecessor, DomainInv, update_entry
<1>7. CopyIn(nodes, pred[t]) /\ pred[t].value.type = "LEAF"
  BY <1>1 DEF ThreadInv, PredInv
<1>8. nodes[pn].lock = NULL /\ nodes[pn].seq = pred[t].seq /\ nodes[pn].value = pred[t].value /\ pn \in Names
  BY <1>7, Lockable DEF PredecessorLockable
<1>9. Fits(pn, pred[t].value) /\ pred[t] \in Copies
  BY <1>7 DEF CopyIn
<1>10. /\ Fits(pn, dirty) /\ dirty.type = "LEAF" /\ dirty.key = pred[t].value.key /\ dirty.kv = pred[t].value.kv
       /\ dirty.next_leaf = pred[t].value.next_leaf /\ dirty \in NodeValues /\ dirty # Unused /\ dirty.dirty
  <2> HIDE DEF pn
  <2>1. \A d \in BOOLEAN : LET w == [pred[t].value EXCEPT !.dirty = d]
            IN  /\ Fits(pn, w) /\ w.type = "LEAF" /\ w.key = pred[t].value.key /\ w.kv = pred[t].value.kv
                /\ w.next_leaf = pred[t].value.next_leaf /\ w \in NodeValues /\ w # Unused
    BY <1>7, <1>8, <1>9, ChangedLeaf
  <2>2. pred[t].value \in LeafValues
    BY <1>7, <1>8, <1>9, Kinds
  <2>3. dirty.dirty
    BY <2>2 DEF LeafValues
  <2> QED BY <2>1, <2>3
<1>11. /\ DOMAIN new \subseteq TreeNames /\ FirstNewLeaf(t) \in TreeNames
       /\ \A m \in DOMAIN new :
            /\ Above(c.name, m) /\ m # c.name /\ \A b \in Below(c.name, c.value) : ~Above(b, m)
            /\ Fits(m, new[m]) /\ new[m].type \in {"LEAF", "BITMAP", "JUMP"} /\ new[m] # Unused /\ new[m] \in NodeValues
       /\ c.value.type = "BITMAP" =>
            LET m == NewChildName(c, call[t].key)
            IN  m \in DOMAIN new /\ new[m].type = "LEAF" /\ new[m].key = call[t].key /\ new[m].kv = call[t].value
  BY <1>1, <1>4, <1>7, NewNodesPart
<1>12. /\ c.name \in Trie /\ nodes[c.name].lock = t /\ nodes[c.name].value = c.value
       /\ PathOK(nodes, Trie, KeyOf(t), path[t]) /\ path[t] \in Seq(Copies) /\ Len(path[t]) > 0
  BY <1>1, <1>5, Owner, PathEnd
<1>13. Hidden(t) = {}
  BY <1>1, Nowhere
<1>14. \A m \in DOMAIN new : nodes[m].value = Unused /\ nodes[m].lock = NULL /\ m \notin Trie /\ m # Root
  <2> TAKE m \in DOMAIN new
  <2>1. m \in TreeNames /\ Above(c.name, m) /\ m # c.name /\ \A b \in Below(c.name, nodes[c.name].value) : ~Above(b, m)
    BY <1>11, <1>12
  <2> HIDE DEF c
  <2> QED BY <1>5, <1>12, <1>13, <2>1, Elsewhere
<1>15. pn \notin DOMAIN new /\ pn # c.name
  <2>1. pred[t].value # Unused
    BY <1>7 DEF CopyIn
  <2> QED BY <1>8, <1>12, <1>14, <2>1, NoThread
<1>16. call[t].ret = call'[t].ret /\ path'[t] = path[t] /\ call'[t] = call[t]
  BY <1>6
<1>17. c.value.type \in {"LEAF", "BITMAP"}
  BY <1>1, <1>4 DEF EndInv
<1> HIDE DEF dirty, new
<1>18. /\ locked \in NodeMaps
       /\ \A n \in Names : locked[n].value = nodes[n].value /\ locked[n].seq = nodes[n].seq
       /\ locked[pn].lock = t
       /\ \A n \in Names \ {pn} : locked[n] = nodes[n]
  <2>1. {pn} \in SUBSET Names
    BY <1>8
  <2> HIDE DEF pn
  <2> QED BY <1>1, <2>1, LocksNodes
<1> HIDE DEF locked
<1>19. /\ w1 \in NodeMaps
       /\ w1[pn].value = dirty /\ w1[pn].seq = nodes[pn].seq + 1 /\ w1[pn].lock = t
       /\ \A m \in Names \ {pn} : w1[m] = nodes[m]
  <2>1. /\ w1 \in NodeMaps
        /\ w1[pn].value = dirty /\ w1[pn].seq = locked[pn].seq + 1 /\ w1[pn].lock = locked[pn].lock
        /\ \A m \in Names \ {pn} : w1[m] = locked[m]
    <3> HIDE DEF pn
    <3> QED BY <1>8, <1>10, <1>18, WritesNode
  <2> QED BY <1>8, <1>18, <2>1
<1> HIDE DEF w1, pn, c
<1>20. /\ nodes' \in NodeMaps
       /\ \A n \in DOMAIN new : nodes'[n].value = new[n] /\ nodes'[n].seq = w1[n].seq + 1 /\ nodes'[n].lock = t
       /\ \A n \in Names \ DOMAIN new : nodes'[n] = w1[n]
  <2>1. DOMAIN new \subseteq Names /\ \A n \in DOMAIN new : new[n] \in NodeValues
    BY <1>11, TrieNames
  <2> QED BY <1>6, <1>19, <2>1, AddsNodes
<1>21. /\ \A n \in DOMAIN new : n \in Names /\ nodes'[n].value = new[n] /\ nodes'[n].seq = nodes[n].seq + 1 /\ nodes'[n].lock = t
       /\ nodes'[pn].value = dirty /\ nodes'[pn].seq = nodes[pn].seq + 1 /\ nodes'[pn].lock = t
       /\ \A n \in Names \ (DOMAIN new \cup {pn}) : nodes'[n] = nodes[n]
  <2>1. \A n \in DOMAIN new : n \in Names /\ n # pn
    BY <1>11, <1>15, TrieNames
  <2> QED BY <1>8, <1>15, <1>19, <1>20, <2>1
<1>22. NodeFrame(t)
  <2>1. \A u \in Threads \ {t}, n \in Names : nodes[n].lock = u \/ nodes'[n].lock = u => nodes'[n] = nodes[n]
    BY <1>8, <1>14, <1>21, NoThread
  <2>2. \A n \in Names : nodes[n].seq \in Nat
    BY <1>1, NodeIs
  <2>3. \A n \in Names : /\ nodes[n].seq <= nodes'[n].seq
                         /\ nodes[n].seq = nodes'[n].seq => nodes'[n].value = nodes[n].value
    BY <1>21, <2>2
  <2> QED BY <1>20, <2>1, <2>3 DEF NodeFrame
<1>23. Hidden(t)' = DOMAIN new
  <2>1. CASE c.value.type = "BITMAP"
    <3>1. pc'[t] = "link" /\ Putting(t)'
      BY <1>4, <1>6, <1>16, <2>1 DEF Putting
    <3>2. DOMAIN NewNodes(t)' = {NewChildName(c, call[t].key)} /\ DOMAIN new = {NewChildName(c, call[t].key)}
      BY <1>16, <2>1 DEF NewNodes, CreatedLeaf, new, c
    <3> QED BY <3>1, <3>2 DEF Hidden
  <2>2. CASE c.value.type = "LEAF"
    <3>1. pc'[t] = "head"
      BY <1>6, <2>2
    <3>2. NewNodes(t)' = new
      BY <1>16, <2>2 DEF NewNodes, new, c
    <3> QED BY <3>1, <3>2 DEF Hidden
  <2> QED BY <1>17, <2>1, <2>2
<1>24. Trie' = Trie
  <2>1. \A u \in Threads \ {t} : Hidden(u)' = Hidden(u)
    BY <1>2, HiddenKeeps DEF Frame
  <2>2. ASSUME NEW n PROVE n \in Trie <=> n \in Trie'
    <3>1. CASE n \in DOMAIN new
      <4>1. n \notin Trie
        BY <1>14, <3>1
      <4>2. n \notin Trie'
        BY <1>23, <3>1, InTrie
      <4> QED BY <4>1, <4>2
    <3>2. CASE n \notin DOMAIN new
      <4>1. n \in TreeNames => (nodes'[n].value = Unused <=> nodes[n].value = Unused)
        <5>1. nodes[pn].value # Unused
          BY <1>7, <1>8 DEF CopyIn
        <5> QED BY <1>10, <1>21, <3>2, <5>1, TrieNames
      <4>2. (\A u \in Threads : n \notin Hidden(u)) <=> (\A u \in Threads : n \notin Hidden(u)')
        BY <1>13, <1>23, <2>1, <3>2
      <4> QED BY <4>1, <4>2, InTrie
    <3> QED BY <3>1, <3>2
  <2> QED BY <2>2
<1>25. pred'[t] = [name |-> pn, value |-> dirty, seq |-> nodes[pn].seq + 1]
  BY <1>6, <1>9, UpdatedCopy DEF pn
<1> QED BY <1>6, <1>8, <1>10, <1>11, <1>14, <1>15, <1>20, <1>21, <1>22, <1>23, <1>24, <1>25 DEF c, pn, dirty, new

(* The others keep what they know of the list, when no leaf gets in where  *)
(* one of them is splitting.                                               *)
LEMMA OthersKnow ==
  ASSUME IInv, IInv', OrderInv, NEW t \in Threads, NEW u \in Threads \ {t}, Frame(t), NodeFrame(t), Trie \subseteq Trie',
         \A y \in Listed' \ Listed : Splitting(u) /\ Above(Last(path[u]).name, y) => Upto(new_leaf[u], y)
  PROVE  PlaceInv(u)' /\ SplitInv(u)'
<1>1. Same(u) /\ PlaceInv(u) /\ SplitInv(u)
  BY DEF Frame, OrderInv
<1>2. PlaceInv(u)'
  BY <1>1, OthersPlaced
<1>3. ASSUME Splitting(u)
      PROVE  /\ new_leaf[u] \in Listed' /\ nodes'[new_leaf[u]].lock = u
             /\ \A y \in Listed' : Above(Last(path[u]).name, y) => Upto(new_leaf[u], y)
  <2> DEFINE m == new_leaf[u]
  <2>1. /\ m \in Listed /\ nodes[m].lock = u
        /\ \A y \in Listed : Above(Last(path[u]).name, y) => Upto(m, y)
    BY <1>1, <1>3 DEF SplitInv
  <2>2. m \in Names /\ m \in TreeNames /\ nodes[m].value.type = "LEAF"
    BY <2>1, ListedPart, TrieNames
  <2>3. nodes'[m] = nodes[m]
    BY <2>1, <2>2 DEF NodeFrame
  <2>4. \A w \in Threads : m \in Hidden(w)' => pc'[w] = "mark"
    <3> TAKE w \in Threads
    <3>1. CASE w = t
      <4>1. m \in Hidden(t)' => nodes'[m].lock = t
        BY DEF IInv, ThreadInv, HiddenInv
      <4> QED BY <2>1, <2>3, <3>1, <4>1
    <3>2. CASE w # t
      <4>1. Same(w)
        BY <3>2 DEF Frame
      <4>2. Hidden(w)' = Hidden(w) /\ pc'[w] = pc[w]
        BY <4>1, HiddenKeeps DEF Same
      <4>3. m \in Hidden(w) => pc[w] = "mark"
        BY <2>1 DEF Listed
      <4> QED BY <4>2, <4>3
    <3> QED BY <3>1, <3>2
  <2>5. nodes[m].value # Unused
    BY <2>1 DEF Listed, Used
  <2>6. m \in Listed'
    BY <2>2, <2>3, <2>4, <2>5 DEF Listed, Used
  <2>7. ASSUME NEW y \in Listed', Above(Last(path[u]).name, y) PROVE Upto(m, y)
    <3>1. CASE y \in Listed
      BY <2>1, <2>7, <3>1
    <3>2. CASE y \notin Listed
      BY <1>3, <2>7, <3>2
    <3> QED BY <3>1, <3>2
  <2> QED BY <2>1, <2>3, <2>6, <2>7
<1>4. /\ (Splitting(u)' <=> Splitting(u)) /\ path'[u] = path[u] /\ pred'[u] = pred[u] /\ new_leaf'[u] = new_leaf[u]
  BY <1>1, SameNames DEF Same
<1>5. SplitInv(u)'
  BY <1>1, <1>3, <1>4 DEF SplitInv
<1> QED BY <1>2, <1>5

(* A leaf is dirty while a thread has it as its predecessor.               *)
LEMMA DirtyKept ==
  ASSUME IInv, OrderInv, NEW t \in Threads, Frame(t),
         WithPred(t)' => pred'[t].value.dirty,
         \A n \in Names : nodes'[n].value.type = "LEAF" /\ nodes'[n].value.dirty =>
           \/ nodes[n].value.type = "LEAF" /\ nodes[n].value.dirty /\ (WithPred(t) => pred[t].name # n)
           \/ WithPred(t)' /\ pred'[t].name = n
  PROVE  DirtyInv'
<1>1. \A u \in Threads \ {t} : Same(u) /\ (WithPred(u)' <=> WithPred(u)) /\ pred'[u] = pred[u]
  BY SameNames DEF Frame, Same
<1>2. ASSUME NEW n \in Names, nodes'[n].value.type = "LEAF", nodes'[n].value.dirty
      PROVE  \E u \in Threads : WithPred(u)' /\ pred'[u].name = n
  <2>1. CASE WithPred(t)' /\ pred'[t].name = n
    BY <2>1
  <2>2. CASE nodes[n].value.type = "LEAF" /\ nodes[n].value.dirty /\ (WithPred(t) => pred[t].name # n)
    <3>1. PICK u \in Threads : WithPred(u) /\ pred[u].name = n
      BY <2>2 DEF OrderInv, DirtyInv
    <3>2. u # t
      BY <2>2, <3>1
    <3> QED BY <1>1, <3>1, <3>2
  <2> QED BY <1>2, <2>1, <2>2
<1>3. ASSUME NEW u \in Threads, WithPred(u)' PROVE pred'[u].value.dirty
  <2>1. CASE u = t
    BY <1>3, <2>1
  <2>2. CASE u # t
    BY <1>1, <1>3, <2>2 DEF OrderInv, DirtyInv
  <2> QED BY <2>1, <2>2
<1> QED BY <1>2, <1>3 DEF DirtyInv

(* The list stays in order when no leaf gets another next one.             *)
LEMMA ListKept ==
  ASSUME IInv, OrderInv, NEW t \in Threads, Frame(t), Listed' = Listed, ~Splitting(t),
         \A n \in Listed \cup {MinLeaf} : nodes'[n].value.next_leaf = nodes[n].value.next_leaf
  PROVE  ListInv'
<1> SUFFICES ASSUME NEW n \in Listed \cup {MinLeaf} PROVE NextInv(n)'
  BY DEF ListInv
<1>1. nodes'[n].value.next_leaf = nodes[n].value.next_leaf /\ NextInv(n)
  BY DEF OrderInv, ListInv
<1>2. ASSUME NEW v, \E u \in Threads : Splitting(u) /\ Last(path[u]).name = v /\ pred[u].name = n
      PROVE  \E u \in Threads : Splitting(u)' /\ Last(path'[u]).name = v /\ pred'[u].name = n
  <2>1. PICK u \in Threads : Splitting(u) /\ Last(path[u]).name = v /\ pred[u].name = n
    BY <1>2
  <2>2. u # t
    BY <2>1
  <2>3. Same(u)
    BY <2>2 DEF Frame
  <2>4. Splitting(u)'
    BY <2>1, <2>3, SameNames
  <2> QED BY <2>1, <2>3, <2>4 DEF Same
<1> QED BY <1>1, <1>2 DEF NextInv

(* max_leaf is as right as before when no node gets another one, and the   *)
(* trie has the same nodes.                                                *)
LEMMA MaxKept ==
  ASSUME IInv, OrderInv, NEW t \in Threads, Frame(t), Trie' = Trie,
         \A q \in Trie : /\ nodes'[q].value.type = nodes[q].value.type
                         /\ nodes[q].value.type \in {"BITMAP", "JUMP"} => nodes'[q].value.max_leaf = nodes[q].value.max_leaf,
         \A q \in Trie : Stale(t, q) => Stale(t, q)'
  PROVE  MaxInv'
<1> SUFFICES ASSUME NEW q \in Trie, nodes'[q].value.type \in {"BITMAP", "JUMP"}
             PROVE  MaxRight(q)' \/ \E u \in Threads : Stale(u, q)'
  BY DEF MaxInv
<1>1. nodes[q].value.type \in {"BITMAP", "JUMP"} /\ nodes'[q].value.max_leaf = nodes[q].value.max_leaf
  OBVIOUS
<1>2. MaxRight(q) => MaxRight(q)'
  <2>1. nodes[q].value.max_leaf \in Trie => nodes'[nodes[q].value.max_leaf].value.type = nodes[nodes[q].value.max_leaf].value.type
    OBVIOUS
  <2> QED BY <1>1, <2>1 DEF MaxRight
<1>3. ASSUME NEW u \in Threads, Stale(u, q) PROVE Stale(u, q)'
  <2>1. CASE u = t
    BY <1>3, <2>1
  <2>2. CASE u # t
    <3>1. Same(u)
      BY <2>2 DEF Frame
    <3>2. (Splitting(u)' <=> Splitting(u)) /\ Level(u)' = Level(u)
      BY <3>1, SameNames
    <3> QED BY <1>1, <1>3, <3>1, <3>2 DEF Stale, Same
  <2> QED BY <2>1, <2>2
<1> QED BY <1>1, <1>2, <1>3 DEF OrderInv, MaxInv

(* The new nodes are hidden, and the predecessor is the right one.         *)
LEMMA LockPredecessorOrder ==
  ASSUME IInv, IInv', OrderInv, NEW t \in Threads, Step(t), LockPredecessor(t)
  PROVE  OrderInv'
<1>1. SharedInv /\ ThreadInv(t) /\ CallInv(t) /\ pc[t] = "lock_pred" /\ Locking(t) /\ ~WithPred(t) /\ Frame(t)
  BY FrameStep DEF IInv, SharedInv, ThreadInv, LockPredecessor, Locking, WithPred
<1>2. CASE ~PredecessorLockable(pred[t])
  BY <1>1, <1>2, RetryOrder DEF LockPredecessor
<1>3. CASE PredecessorLockable(pred[t])
  <2> DEFINE c == Last(path[t])
             pn == pred[t].name
             dirty == [pred[t].value EXCEPT !.dirty = TRUE]
             new == NewNodes(t)
  <2>1. /\ new_leaf'[t] = FirstNewLeaf(t) /\ pc'[t] = IF c.value.type = "BITMAP" THEN "link" ELSE "head"
        /\ UNCHANGED <<is_empty, calls, call, path, subtree, level, iter, index, cursor>>
        /\ pn \in Names /\ nodes[pn].lock = NULL /\ nodes[pn].value = pred[t].value /\ pn \notin DOMAIN new /\ pn # c.name
        /\ dirty.type = "LEAF" /\ dirty # Unused /\ dirty.next_leaf = pred[t].value.next_leaf /\ dirty.dirty
        /\ DOMAIN new \subseteq TreeNames /\ FirstNewLeaf(t) \in TreeNames
        /\ nodes'[pn].value = dirty
        /\ \A n \in Names \ (DOMAIN new \cup {pn}) : nodes'[n] = nodes[n]
        /\ NodeFrame(t) /\ Hidden(t)' = DOMAIN new /\ Trie' = Trie
        /\ pred'[t] = [name |-> pn, value |-> dirty, seq |-> nodes[pn].seq + 1]
    BY <1>1, <1>3, PredecessorMarked
  <2>2. \A m \in DOMAIN new : /\ nodes[m].value = Unused /\ m \notin Trie /\ m \in Names /\ nodes'[m].value = new[m]
    <3>1. /\ \A m \in DOMAIN new : /\ Fits(m, new[m]) /\ new[m].type \in {"LEAF", "BITMAP", "JUMP"} /\ new[m] # Unused
                                   /\ nodes[m].value = Unused /\ nodes[m].lock = NULL /\ m \notin Trie /\ m # Root
          /\ \A n \in DOMAIN new : n \in Names /\ nodes'[n].value = new[n] /\ nodes'[n].lock = t
      BY <1>1, <1>3, PredecessorMarked
    <3> HIDE DEF new
    <3> QED BY <3>1
  <2>3. pred[t].value.type = "LEAF" /\ nodes[pn].value.type = "LEAF" /\ nodes[pn].value # Unused
    BY <1>1, <2>1 DEF ThreadInv, PredInv, CopyIn
  <2>4. call[t].ret = Pending /\ call[t].op \in PutCalls /\ c.value.type \in {"LEAF", "BITMAP"}
    <3>1. call[t].ret = Pending
      BY <1>1 DEF CallInv
    <3> QED BY <1>1, <3>1, Writer DEF ThreadInv, EndInv
  <2> HIDE DEF dirty, pn
  <2>5. ~pred[t].value.dirty
    <3> SUFFICES ASSUME pred[t].value.dirty PROVE FALSE
      OBVIOUS
    <3>1. PICK u \in Threads : WithPred(u) /\ pred[u].name = pn
      BY <2>1, <2>3 DEF OrderInv, DirtyInv
    <3>2. Owns(nodes, u, pred[u])
      BY <3>1 DEF IInv, ThreadInv, HoldInv
    <3>3. nodes[pn].lock = u
      BY <3>1, <3>2 DEF Owns
    <3> QED BY <2>1, <3>3, NoThread
  <2>6. Placing(t)
    BY <1>1, <2>5 DEF Placing
  <2>7. PlaceInv(t)
    BY DEF OrderInv
  <2>8. /\ path'[t] = path[t] /\ call'[t] = call[t] /\ pc'[t] \in {"link", "head"} /\ WithPred(t)' /\ ~Splitting(t) /\ ~Splitting(t)'
        /\ pred'[t].name = pn /\ pred'[t].value = dirty /\ Target(t)' = Target(t) /\ FirstNewLeaf(t)' = FirstNewLeaf(t)
    BY <1>1, <2>1, <2>4 DEF WithPred, Splitting, Target, FirstNewLeaf
  <2>9. ASSUME c.value.type = "BITMAP"
        PROVE  FirstNewLeaf(t) = Target(t) /\ nodes'[FirstNewLeaf(t)].value.next_leaf = pred[t].value.next_leaf
    <3> DEFINE m == NewChildName(c, call[t].key)
    <3>1. FirstNewLeaf(t) = m /\ Target(t) = m
      BY <2>9 DEF FirstNewLeaf, Target
    <3>2. new = [n \in {m} |-> Leaf(call[t].key, call[t].value, pred[t].value.next_leaf)]
      BY <2>9 DEF NewNodes, CreatedLeaf
    <3>3. m \in DOMAIN new /\ new[m].next_leaf = pred[t].value.next_leaf
      BY <3>2 DEF Leaf
    <3> QED BY <2>2, <3>1, <3>3
  <2>10. PlaceInv(t)'
    <3>1. path[t][1].name = Root
      BY <1>1, <2>4, <2>7 DEF PlaceInv, RestPcs
    <3>2. pn \in Trie \cup {MinLeaf}
      BY <1>1, <2>7 DEF PlaceInv, pn
    <3>3. /\ Prior(pn, Target(t))
          /\ IF c.value.type = "BITMAP" THEN dirty.next_leaf = NULL \/ Before(Target(t), dirty.next_leaf) ELSE dirty.next_leaf = c.name
      BY <2>1, <2>6, <2>7 DEF PlaceInv, pn
    <3>4. pc'[t] = "link" => c.value.type = "BITMAP"
      BY <2>1
    <3>5. Putting(t)' => new_leaf'[t] = Target(t)'
      BY <2>1, <2>8, <2>9, <3>4 DEF Putting
    <3>6. pc'[t] = "link" /\ call'[t].ret = Pending => nodes'[new_leaf'[t]].value.next_leaf = pred'[t].value.next_leaf
      BY <2>1, <2>8, <2>9, <3>4
    <3> HIDE DEF c
    <3>7. path'[t][1].name = Root /\ pred'[t].name \in Trie' \cup {MinLeaf}
      BY <2>1, <2>8, <3>1, <3>2
    <3>8. LET d == Last(path'[t])
              next == pred'[t].value.next_leaf
          IN  /\ Prior(pred'[t].name, Target(t)')
              /\ IF d.value.type = "BITMAP" THEN next = NULL \/ Before(Target(t)', next) ELSE next = d.name
      BY <2>8, <3>3 DEF c
    <3>9. pc'[t] = "head" => new_leaf'[t] = FirstNewLeaf(t)'
      BY <2>1, <2>8
    <3> QED BY <2>8, <3>5, <3>6, <3>7, <3>8, <3>9 DEF PlaceInv
  <2>11. \A u \in Threads \ {t} : Hidden(u)' = Hidden(u) /\ pc'[u] = pc[u]
    BY <1>1, HiddenKeeps DEF Frame, Same
  <2>12. Hidden(t) = {}
    BY <1>1, Nowhere
  <2>13. Listed' = Listed
    <3>1. ASSUME NEW n PROVE n \in Listed <=> n \in Listed'
      <4>1. CASE n \in DOMAIN new
        <5>1. n \notin Listed
          BY <2>2, <4>1 DEF Listed, Used
        <5>2. n \in Hidden(t)' /\ pc'[t] # "mark"
          BY <2>1, <2>8, <4>1
        <5>3. n \notin Listed'
          BY <5>2 DEF Listed
        <5> QED BY <5>1, <5>3
      <4>2. CASE n \notin DOMAIN new
        <5>1. n \in TreeNames => /\ nodes'[n].value = Unused <=> nodes[n].value = Unused
                                 /\ nodes'[n].value.type = "LEAF" <=> nodes[n].value.type = "LEAF"
          BY <2>1, <2>3, <4>2, TrieNames
        <5>2. (\A u \in Threads : n \in Hidden(u) => pc[u] = "mark") <=> (\A u \in Threads : n \in Hidden(u)' => pc'[u] = "mark")
          BY <2>1, <2>11, <2>12, <4>2
        <5> QED BY <5>1, <5>2 DEF Listed, Used
      <4> QED BY <4>1, <4>2
    <3> QED BY <3>1
  <2>14. \A n \in Names : nodes'[n].value.type = "LEAF" /\ nodes'[n].value.dirty =>
           \/ nodes[n].value.type = "LEAF" /\ nodes[n].value.dirty /\ (WithPred(t) => pred[t].name # n)
           \/ WithPred(t)' /\ pred'[t].name = n
    <3> SUFFICES ASSUME NEW n \in Names, nodes'[n].value.type = "LEAF", nodes'[n].value.dirty, n # pn
                 PROVE  nodes[n].value.type = "LEAF" /\ nodes[n].value.dirty
      BY <1>1, <2>8
    <3>1. CASE n \in DOMAIN new
      <4>1. new[n].type = "LEAF" => ~new[n].dirty
        <5>1. CASE c.value.type = "BITMAP"
          <6>1. new = [m \in {NewChildName(c, call[t].key)} |-> Leaf(call[t].key, call[t].value, pred[t].value.next_leaf)]
            BY <5>1 DEF NewNodes, CreatedLeaf
          <6> QED BY <3>1, <6>1 DEF Leaf
        <5>2. CASE c.value.type = "LEAF"
          <6> DEFINE leaves == SplitLeaves(c.value, call[t])
                     inner == PathNodes(c, call[t].key)
          <6>1. /\ DOMAIN new = DOMAIN leaves \cup (DOMAIN inner \ {c.name})
                /\ new[n] = IF n \in DOMAIN leaves THEN leaves[n] ELSE inner[n]
            BY <3>1, <5>2 DEF NewNodes, SplitNodes
          <6> HIDE DEF leaves, inner
          <6>2. CASE n \in DOMAIN leaves
            <7>1. leaves[n].dirty = FALSE
              BY <6>2 DEF leaves, SplitLeaves, Leaf
            <7> QED BY <6>1, <6>2, <7>1
          <6>3. CASE n \notin DOMAIN leaves
            <7>1. n \in DOMAIN leaves \cup (DOMAIN inner \ {c.name})
              BY <3>1, <6>1
            <7>2. n \in DOMAIN inner
              BY <6>3, <7>1
            <7>3. new[n] = inner[n]
              BY <6>1, <6>3
            <7>4. inner[n].type # "LEAF"
              BY <7>2 DEF inner, PathNodes, Bitmap, Jump
            <7> QED BY <7>3, <7>4
          <6> QED BY <6>2, <6>3
        <5> QED BY <2>4, <5>1, <5>2
      <4> QED BY <2>2, <3>1, <4>1
    <3>2. CASE n \notin DOMAIN new
      BY <2>1, <3>2
    <3> QED BY <3>1, <3>2
  <2>15. \A q \in Trie : q \in Names /\ q \notin DOMAIN new
    BY <2>2, TrieNames
  <2>16. \A q \in Trie : /\ nodes'[q].value.type = nodes[q].value.type
                         /\ nodes[q].value.type \in {"BITMAP", "JUMP"} => nodes'[q].value.max_leaf = nodes[q].value.max_leaf
    BY <2>1, <2>3, <2>15
  <2>17. \A n \in Listed \cup {MinLeaf} : nodes'[n].value.next_leaf = nodes[n].value.next_leaf
    <3> TAKE n \in Listed \cup {MinLeaf}
    <3>1. n \in Names /\ n \notin DOMAIN new
      <4>1. CASE n = MinLeaf
        BY <2>1, <4>1, TrieNames, NullIsNoName
      <4>2. CASE n \in Listed
        BY <2>2, <4>2, TrieNames DEF Listed, Used
      <4> QED BY <4>1, <4>2
    <3> QED BY <2>1, <2>3, <3>1
  <2>18. ListInv'
    BY <1>1, <2>8, <2>13, <2>17, ListKept
  <2>19. DirtyInv'
    BY <1>1, <2>1, <2>8, <2>14, DirtyKept
  <2>20. MaxInv'
    <3>1. \A q \in Trie : ~Stale(t, q)
      BY <1>1 DEF Stale, Splitting
    <3> QED BY <1>1, <2>1, <2>16, <3>1, MaxKept
  <2>21. ASSUME NEW u \in Threads PROVE PlaceInv(u)' /\ SplitInv(u)'
    <3>1. CASE u = t
      BY <2>8, <2>10, <3>1 DEF SplitInv
    <3>2. CASE u # t
      <4>1. \A y \in Listed' \ Listed : Splitting(u) /\ Above(Last(path[u]).name, y) => Upto(new_leaf[u], y)
        BY <2>13
      <4> QED BY <1>1, <2>1, <3>2, <4>1, OthersKnow
    <3> QED BY <3>1, <3>2
  <2> QED BY <2>18, <2>19, <2>20, <2>21 DEF OrderInv
<1> QED BY <1>2, <1>3

-----------------------------------------------------------------------------
(* The writes of an insert. *)

(* A write of a node the thread has locked, ...                            *)
LEMMA OneWrite ==
  ASSUME IInv, NEW t \in Threads, NEW n \in Names, nodes[n].lock = t, NEW v \in NodeValues, nodes' = WriteNode(nodes, n, v)
  PROVE  /\ NodeFrame(t) /\ nodes'[n].value = v /\ nodes'[n].lock = t
         /\ \A m \in Names \ {n} : nodes'[m] = nodes[m]
<1>1. nodes \in NodeMaps
  BY DEF IInv, SharedInv, NodesOK
<1>2. /\ nodes' \in NodeMaps /\ nodes'[n].value = v /\ nodes'[n].seq = nodes[n].seq + 1 /\ nodes'[n].lock = nodes[n].lock
      /\ \A m \in Names \ {n} : nodes'[m] = nodes[m]
  BY <1>1, WritesNode
<1>3. \A u \in Threads \ {t}, m \in Names : nodes[m].lock = u \/ nodes'[m].lock = u => nodes'[m] = nodes[m]
  BY <1>2
<1>4. \A m \in Names : nodes[m].seq \in Nat
  BY <1>1, NodeIs
<1>5. NodeFrame(t)
  BY <1>2, <1>3, <1>4 DEF NodeFrame
<1> QED BY <1>2, <1>5

(* ... and one before it gives all its locks back.                         *)
LEMMA LastWrite ==
  ASSUME IInv, NEW t \in Threads, NEW n \in Names, nodes[n].lock = t, NEW v \in NodeValues,
         nodes' = release_all_locks(WriteNode(nodes, n, v), t)
  PROVE  /\ NodeFrame(t) /\ nodes'[n].value = v
         /\ \A m \in Names \ {n} : nodes'[m].value = nodes[m].value
<1> DEFINE w == WriteNode(nodes, n, v)
<1>1. nodes \in NodeMaps
  BY DEF IInv, SharedInv, NodesOK
<1>2. /\ w \in NodeMaps /\ w[n].value = v /\ w[n].seq = nodes[n].seq + 1 /\ w[n].lock = t
      /\ \A m \in Names \ {n} : w[m] = nodes[m]
  BY <1>1, WritesNode
<1> HIDE DEF w
<1>3. /\ nodes' \in NodeMaps
      /\ \A m \in Names : nodes'[m].value = w[m].value /\ nodes'[m].seq = w[m].seq
      /\ \A m \in Names : w[m].lock = t => nodes'[m].lock = NULL
      /\ \A m \in Names : w[m].lock # t => nodes'[m] = w[m]
  BY <1>2, ReleasesLocks DEF w
<1>4. \A u \in Threads \ {t}, m \in Names : nodes[m].lock = u \/ nodes'[m].lock = u => nodes'[m] = nodes[m]
  BY <1>2, <1>3, NoThread
<1>5. \A m \in Names : nodes[m].seq \in Nat
  BY <1>1, NodeIs
<1>6. NodeFrame(t)
  BY <1>2, <1>3, <1>4, <1>5 DEF NodeFrame
<1> QED BY <1>2, <1>3, <1>6

(* A thread that has linked its leaves knows where they were put.          *)
LEMMA AfterLink ==
  ASSUME NEW t, pc'[t] = "propagate", path'[t][1].name = Root, pred'[t].name \in Trie' \cup {MinLeaf}
  PROVE  PlaceInv(t)' /\ SplitInv(t)'
<1>1. WithPred(t)' /\ ~Placing(t)' /\ ~Putting(t)' /\ ~Splitting(t)'
  BY DEF WithPred, Placing, Putting, Splitting
<1> QED BY <1>1 DEF PlaceInv, SplitInv

(* A thread with a locked predecessor has a path from the root.            *)
LEMMA WriterPlace ==
  ASSUME IInv, OrderInv, NEW t \in Threads, WithPred(t)
  PROVE  /\ path[t][1].name = Root /\ pred[t].name \in Trie \cup {MinLeaf} /\ pred[t].value.dirty
         /\ pred[t].name \in Names /\ nodes[pred[t].name].value = pred[t].value /\ nodes[pred[t].name].lock = t
         /\ pred[t].value.type = "LEAF" /\ Fits(pred[t].name, pred[t].value) /\ pred[t].value \in LeafValues
         /\ pred[t].name # Last(path[t]).name
<1>1. PlaceInv(t) /\ ThreadInv(t) /\ Locking(t) /\ pc[t] \notin RestPcs \cup {"return"}
  BY DEF OrderInv, IInv, WithPred, Locking, RestPcs
<1>2. call[t].op \in PutCalls
  BY <1>1, WriterEnd
<1>3. path[t][1].name = Root /\ pred[t].name \in Trie \cup {MinLeaf}
  BY <1>1, <1>2 DEF PlaceInv
<1>4. pred[t].value.dirty
  BY DEF OrderInv, DirtyInv
<1>5. Owns(nodes, t, pred[t]) /\ CopyIn(nodes, pred[t]) /\ pred[t].value.type = "LEAF" /\ pred[t].name # Last(path[t]).name
  BY <1>1 DEF ThreadInv, HoldInv, PredInv, WithPred
<1>6. pred[t].name \in Names /\ nodes[pred[t].name].value = pred[t].value /\ nodes[pred[t].name].lock = t
      /\ Fits(pred[t].name, pred[t].value)
  BY <1>3, <1>5, TrieNames DEF Owns, CopyIn
<1>7. pred[t].value \in LeafValues
  BY <1>5, <1>6, Kinds
<1> QED BY <1>3, <1>4, <1>5, <1>6, <1>7

(* A new max_leaf of a node on the path: that of the child the path goes   *)
(* on with, which is the last.                                             *)
LEMMA PropagateOrder ==
  ASSUME IInv, IInv', OrderInv, NEW t \in Threads, Step(t), propagate_max_leaf(t)
  PROVE  OrderInv'
<1> DEFINE p == path[t]
           i == level[t]
           j == i - 1
           q0 == p[j].name
           r == p[i].name
           l == p[i].value.max_leaf
           v == [p[j].value EXCEPT !.max_leaf = l]
<1>1. /\ SharedInv /\ DomainInv /\ ThreadInv(t) /\ Frame(t) /\ pc[t] = "propagate" /\ Locking(t) /\ WithPred(t) /\ Trie \in SUBSET TreeNames
  BY FrameStep, TrieNames DEF IInv, SharedInv, propagate_max_leaf, Locking, WithPred
<1>2. /\ Propagates(p, i) /\ nodes' = WriteNode(nodes, q0, v)
      /\ path'[t] = [p EXCEPT ![j] = Updated(p[j], v)] /\ level'[t] = j
      /\ UNCHANGED <<is_empty, calls, call, pc, subtree, pred, new_leaf, iter, index, cursor>>
  BY <1>1 DEF propagate_max_leaf, DomainInv, update_entry
<1>3. /\ PathOK(nodes, Trie, KeyOf(t), p) /\ p \in Seq(Copies) /\ Len(p) > 0 /\ Len(p) \in Nat /\ Last(p) = p[Len(p)]
      /\ \A k \in LockPositions(p) : Owns(nodes, t, p[k]) /\ k \in 1..Len(p)
  BY <1>1, WriterEnd
<1>4. Last(p).value.type \in {"BITMAP", "JUMP"} /\ i \in LockPositions(p)
  BY <1>1, Writer DEF EndInv, CallInv, HoldInv, ThreadInv, PutCalls, IterCalls
<1>5. j \in LockPositions(p) /\ j \in 1..Len(p) /\ i \in 1..Len(p) /\ i > 1
  <2> HIDE DEF i
  <2> QED BY <1>1, <1>2, <1>3, <1>4, PropagatesToLocked
<1>6. j \in Nat /\ j >= 1 /\ j < Len(p) /\ j + 1 = i /\ i \in Nat
  BY <1>3, <1>5
<1> HIDE DEF i, j
<1>7. /\ q0 \in Trie /\ q0 \in TreeNames /\ q0 \in Names /\ Fits(q0, p[j].value) /\ p[j] \in Copies
      /\ r \in Trie /\ r \in TreeNames /\ r \in Names /\ Fits(r, p[i].value)
  BY <1>1, <1>3, <1>5, AtPath
<1>8. /\ p[j].value.type \in {"BITMAP", "JUMP"} /\ r \in Below(q0, p[j].value)
  BY <1>1, <1>3, <1>6, PathStep
<1>9. p[i].value.type \in {"BITMAP", "JUMP"}
  <2>1. CASE i = Len(p)
    BY <1>3, <1>4, <2>1
  <2>2. CASE i # Len(p)
    <3>1. i \in Nat /\ i >= 1 /\ i < Len(p)
      BY <1>3, <1>5, <2>2
    <3> QED BY <1>1, <1>3, <3>1, PathStep
  <2> QED BY <2>1, <2>2
<1>10. /\ nodes[q0].lock = t /\ nodes[q0].value = p[j].value /\ nodes[r].lock = t /\ nodes[r].value = p[i].value
  <2>1. Owns(nodes, t, p[j]) /\ Owns(nodes, t, p[i])
    BY <1>3, <1>4, <1>5
  <2> QED BY <2>1 DEF Owns
<1>11. MaxRight(r)
  <2>1. nodes[r].value.type \in {"BITMAP", "JUMP"}
    BY <1>9, <1>10
  <2>2. ASSUME NEW u \in Threads, Stale(u, r) PROVE FALSE
    <3>1. u = t
      BY <1>10, <2>2, StaleLocked
    <3>2. Level(t) = i
      BY <1>1 DEF Level, i
    <3>3. PICK k \in 1..(i - 1) : p[k].name = r
      BY <2>2, <3>1, <3>2 DEF Stale
    <3>4. k \in 1..Len(p) /\ k # i
      BY <1>3, <1>5, <3>3
    <3>5. p[k].name # p[i].name
      BY <1>1, <1>3, <1>5, <3>4, PathApart
    <3> QED BY <3>3, <3>5
  <2> QED BY <1>7, <2>1, <2>2 DEF OrderInv, MaxInv
<1>12. l \in Trie /\ nodes[l].value.type = "LEAF" /\ Above(r, l) /\ (\A x \in Trie : Above(r, x) => Upto(x, l)) /\ l \in TreeNames
  BY <1>10, <1>11, TrieNames DEF MaxRight
<1>13. /\ Fits(q0, v) /\ v.type = p[j].value.type /\ v \in NodeValues /\ v # Unused
  <2> HIDE DEF q0, p, l
  <2> QED BY <1>7, <1>8, <1>12, ChangedMaxLeaf
<1>14. v.max_leaf = l
  <2>1. p[j].value \in BitmapValues \/ p[j].value \in JumpValues
    BY <1>7, <1>8, Kinds DEF IsBitmap
  <2> QED BY <2>1 DEF BitmapValues, JumpValues
<1>15. Updated(p[j], v).name = q0
  BY <1>7, UpdatedCopy
<1>16. /\ Len(path'[t]) = Len(p) /\ \A k \in 1..Len(p) : path'[t][k].name = p[k].name /\ (k # j => path'[t][k] = p[k])
  <2> HIDE DEF v
  <2>1. path'[t] = [p EXCEPT ![j] = Updated(p[j], v)]
    BY <1>2
  <2> QED BY <1>3, <1>15, <2>1
<1> HIDE DEF v, l, q0, r
<1>17. /\ NodeFrame(t) /\ nodes'[q0].value = v
       /\ \A m \in Names \ {q0} : nodes'[m] = nodes[m]
  BY <1>2, <1>7, <1>10, <1>13, OneWrite
<1>18. pc'[t] = "propagate" /\ Hidden(t) = {} /\ Hidden(t)' = {} /\ pred'[t] = pred[t] /\ WithPred(t)' /\ ~Splitting(t) /\ ~Splitting(t)'
  BY <1>1, <1>2, Nowhere, NowhereNext DEF WithPred, Splitting
<1>19. \A n \in Names : /\ nodes'[n].value = Unused <=> nodes[n].value = Unused
                        /\ nodes'[n].value.type = nodes[n].value.type
                        /\ nodes'[n].value.type = "LEAF" => n # q0 /\ nodes'[n] = nodes[n]
  <2>1. nodes[q0].value # Unused
    BY <1>8, <1>10 DEF Unused
  <2> QED BY <1>8, <1>10, <1>13, <1>17, <2>1
<1>20. \A u \in Threads : Hidden(u)' = Hidden(u) /\ (Hidden(u) # {} => (pc'[u] = "mark" <=> pc[u] = "mark"))
  BY <1>1, <1>18, HiddenKeeps DEF Frame, Same
<1>21. Trie' = Trie /\ Listed' = Listed
  <2>1. \A n \in TreeNames : n \in Names
    BY TrieNames
  <2> QED BY <1>19, <1>20, <2>1, TrieSame, ListedSame
<1>22. ListInv'
  <2>1. \A n \in Listed \cup {MinLeaf} : nodes'[n].value.next_leaf = nodes[n].value.next_leaf
    <3>1. \A n \in Listed \cup {MinLeaf} : n \in Names /\ nodes[n].value.type = "LEAF"
      BY <1>1, ListedPart, TrieNames, Kinds DEF SharedInv, NodesOK
    <3> QED BY <1>19, <3>1
  <2> QED BY <1>1, <1>18, <1>21, <2>1, ListKept
<1>23. pred[t].value.dirty /\ p[1].name = Root /\ pred[t].name \in Trie \cup {MinLeaf}
  BY <1>1, WriterPlace
<1>24. DirtyInv'
  <2>1. \A n \in Names : nodes'[n].value.type = "LEAF" /\ nodes'[n].value.dirty =>
           \/ nodes[n].value.type = "LEAF" /\ nodes[n].value.dirty /\ (WithPred(t) => pred[t].name # n)
           \/ WithPred(t)' /\ pred'[t].name = n
    BY <1>18, <1>19
  <2> QED BY <1>1, <1>18, <1>23, <2>1, DirtyKept
<1>25. MaxInv'
  <2> SUFFICES ASSUME NEW q \in Trie, nodes'[q].value.type \in {"BITMAP", "JUMP"}
               PROVE  MaxRight(q)' \/ \E u \in Threads : Stale(u, q)'
    BY <1>21 DEF MaxInv
  <2>1. CASE q = q0
    <3>1. nodes'[l].value.type = "LEAF" /\ nodes'[q0].value.max_leaf = l
      BY <1>12, <1>14, <1>17, <1>19, TrieNames
    <3>2. Above(q0, r) /\ Above(q0, l)
      BY <1>7, <1>8, <1>12, BelowLonger, NamesOrder
    <3>3. ASSUME NEW x \in Trie, Above(q0, x) PROVE Upto(x, l)
      <4>1. CASE x = q0
        BY <3>2, <4>1 DEF Upto
      <4>2. CASE x # q0
        <5>1. PICK b \in Below(q0, nodes[q0].value) : Above(b, x) /\ b \in TreeNames
          BY <1>1, <1>7, <3>3, <4>2, TrieChildren
        <5>2. CASE b = r
          BY <1>12, <5>1, <5>2
        <5>3. CASE b # r
          <6>1. p[j].value.type = "BITMAP"
            BY <1>8, <1>10, <5>1, <5>3 DEF Below
          <6>2. PICK s \in p[j].value.children : b = Append(q0, s)
            BY <1>10, <5>1, <6>1 DEF Below
          <6>3. PICK z \in p[j].value.children : r = Append(q0, z)
            BY <1>8, <6>1 DEF Below
          <6>4. /\ p[j].value.children \subseteq Nat /\ \A x1 \in p[j].value.children : x1 <= max_child(p[j].value)
            <7> HIDE DEF p
            <7> QED BY <1>7, <6>1, LargestChild
          <6>5. q0 \in Seq(Nat) /\ s \in Nat /\ z \in Nat
            BY <1>7, <6>2, <6>3, <6>4, NamesOfTree
          <6>6. Last(r) = z
            <7>1. Len(Append(q0, z)) = Len(q0) + 1 /\ Append(q0, z)[Len(q0) + 1] = z
              BY <6>5, AppendPart
            <7> QED BY <6>3, <7>1 DEF Last
          <6>7. z >= max_child(p[j].value)
            <7>1. last_symbol(p[i]) = z
              BY <6>6 DEF last_symbol, r
            <7>2. last_symbol(p[i]) >= max_child(p[i - 1].value) /\ i - 1 = j
              BY <1>2, <1>6, <6>1 DEF Propagates, j
            <7> QED BY <7>1, <7>2
          <6>8. s <= max_child(p[j].value) /\ s # z
            BY <5>3, <6>2, <6>3, <6>4
          <6>9. z <= max_child(p[j].value) /\ max_child(p[j].value) \in Nat
            <7> HIDE DEF p
            <7>1. max_child(p[j].value) \in p[j].value.children
              BY <1>7, <6>1, LargestChild
            <7> QED BY <6>3, <6>4, <7>1
          <6>10. s < z
            BY <6>5, <6>7, <6>8, <6>9
          <6>11. Before(b, r)
            BY <6>2, <6>3, <6>5, <6>10, OrderChildren
          <6>12. Before(b, l)
            BY <1>7, <1>12, <5>1, <6>11, NamesOrder
          <6>13. Before(x, l)
            BY <1>12, <5>1, <6>12, NamesOrder, TrieNames
          <6> QED BY <6>13 DEF Upto
        <5> QED BY <5>2, <5>3
      <4> QED BY <4>1, <4>2
    <3> QED BY <1>12, <1>21, <2>1, <3>1, <3>2, <3>3 DEF MaxRight
  <2>2. CASE q # q0
    <3>1. nodes'[q] = nodes[q]
      BY <1>17, <2>2, TrieNames
    <3>2. MaxRight(q) => MaxRight(q)'
      <4>1. nodes[q].value.max_leaf \in Trie => nodes'[nodes[q].value.max_leaf].value.type = nodes[nodes[q].value.max_leaf].value.type
        BY <1>19, TrieNames
      <4> QED BY <1>21, <3>1, <4>1 DEF MaxRight
    <3>3. ASSUME NEW u \in Threads \ {t}, Stale(u, q) PROVE Stale(u, q)'
      <4>1. Same(u)
        BY <1>1 DEF Frame
      <4>2. (Splitting(u)' <=> Splitting(u)) /\ Level(u)' = Level(u)
        BY <4>1, SameNames
      <4> QED BY <3>1, <3>3, <4>1, <4>2 DEF Stale, Same
    <3>4. ASSUME Stale(t, q) PROVE Stale(t, q)'
      <4>1. Level(t) = i /\ Level(t)' = j
        BY <1>1, <1>2, <1>18 DEF Level, i, j
      <4>2. PICK k \in 1..(i - 1) : Rightmost(p, k, i) /\ p[k].name = q
        BY <3>4, <4>1 DEF Stale
      <4>3. k # j
        BY <2>2, <4>2 DEF q0
      <4>4. k \in 1..(j - 1) /\ k \in 1..Len(p) /\ i - 1 = j
        BY <1>3, <1>5, <1>6, <4>2, <4>3
      <4>5. ASSUME NEW m \in k..(j - 1)
            PROVE  path'[t][m].value.type = "JUMP" \/ last_symbol(path'[t][m + 1]) = max_child(path'[t][m].value)
        <5>1. m \in 1..Len(p) /\ m + 1 \in 1..Len(p) /\ m # j /\ m \in k..(i - 1)
          BY <1>3, <1>5, <1>6, <4>2, <4>5
        <5>2. path'[t][m] = p[m] /\ path'[t][m + 1].name = p[m + 1].name
          BY <1>16, <5>1
        <5>3. p[m].value.type = "JUMP" \/ last_symbol(p[m + 1]) = max_child(p[m].value)
          BY <4>2, <5>1 DEF Rightmost
        <5> QED BY <5>2, <5>3 DEF last_symbol
      <4>6. Rightmost(path'[t], k, j)
        BY <4>5 DEF Rightmost
      <4>7. path'[t][k].name = q
        BY <1>16, <4>2, <4>4
      <4>8. Last(path'[t]).name = Last(p).name
        <5>1. Last(path'[t]) = path'[t][Len(path'[t])]
          BY DEF Last
        <5> QED BY <1>3, <1>5, <1>16, <5>1
      <4>9. nodes'[q].value.max_leaf \in {pred'[t].name, Last(path'[t]).name}
        BY <1>18, <3>1, <3>4, <4>8 DEF Stale
      <4> HIDE DEF p
      <4> QED BY <1>18, <4>1, <4>4, <4>6, <4>7, <4>9 DEF Stale
    <3> QED BY <1>19, <3>2, <3>3, <3>4, TrieNames DEF OrderInv, MaxInv
  <2> QED BY <2>1, <2>2
<1>26. ASSUME NEW u \in Threads PROVE PlaceInv(u)' /\ SplitInv(u)'
  <2>1. CASE u = t
    <3>1. path'[t][1].name = Root /\ pred'[t].name \in Trie' \cup {MinLeaf}
      BY <1>3, <1>5, <1>16, <1>18, <1>21, <1>23
    <3> QED BY <1>18, <2>1, <3>1, AfterLink
  <2>2. CASE u # t
    <3>1. \A y \in Listed' \ Listed : Splitting(u) /\ Above(Last(path[u]).name, y) => Upto(new_leaf[u], y)
      BY <1>21
    <3> QED BY <1>1, <1>17, <1>21, <2>2, <3>1, OthersKnow
  <2> QED BY <2>1, <2>2
<1> QED BY <1>22, <1>24, <1>25, <1>26 DEF OrderInv

(* The end of an insert: every max_leaf is right, and nothing is dirty.    *)
LEMMA CleanOrder ==
  ASSUME IInv, IInv', OrderInv, NEW t \in Threads, Step(t), Clean(t)
  PROVE  OrderInv'
<1> DEFINE p == path[t]
           i == level[t]
           pn == pred[t].name
           v == [pred[t].value EXCEPT !.dirty = FALSE]
<1>1. /\ SharedInv /\ DomainInv /\ ThreadInv(t) /\ Frame(t) /\ pc[t] = "propagate" /\ Locking(t) /\ WithPred(t)
  BY FrameStep DEF IInv, SharedInv, Clean, Locking, WithPred
<1>2. /\ ~Propagates(p, i) /\ nodes' = release_all_locks(WriteNode(nodes, pn, v), t) /\ pc'[t] = "idle"
  BY <1>1 DEF Clean, DomainInv, update_entry
<1>3. /\ pn \in Names /\ nodes[pn].value = pred[t].value /\ nodes[pn].lock = t /\ pred[t].value.type = "LEAF"
      /\ Fits(pn, pred[t].value) /\ pred[t].value \in LeafValues
  BY <1>1, WriterPlace
<1>4. v \in NodeValues /\ v # Unused /\ v.type = "LEAF" /\ v.next_leaf = pred[t].value.next_leaf
  <2> HIDE DEF pn
  <2>1. \A d \in BOOLEAN : LET w == [pred[t].value EXCEPT !.dirty = d]
              IN  /\ Fits(pn, w) /\ w.type = "LEAF" /\ w.key = pred[t].value.key /\ w.kv = pred[t].value.kv
                  /\ w.next_leaf = pred[t].value.next_leaf /\ w \in NodeValues /\ w # Unused
    BY <1>3, ChangedLeaf
  <2> QED BY <2>1
<1>5. v.dirty = FALSE
  BY <1>3 DEF LeafValues
<1>6. \A q \in Trie : ~Stale(t, q)
  <2> SUFFICES ASSUME NEW q \in Trie, Stale(t, q) PROVE FALSE
    OBVIOUS
  <2>1. Level(t) = i
    BY <1>1 DEF Level
  <2>2. PICK k \in 1..(i - 1) : Rightmost(p, k, i)
    BY <2>1 DEF Stale
  <2>3. /\ PathOK(nodes, Trie, KeyOf(t), p) /\ p \in Seq(Copies) /\ Len(p) > 0 /\ Len(p) \in Nat
    BY <1>1, WriterEnd
  <2>4. i \in 1..Len(p)
    BY <1>1, <2>1, LevelLocked
  <2> HIDE DEF i
  <2>5. i - 1 \in Nat /\ i - 1 >= 1 /\ i - 1 < Len(p) /\ i - 1 \in k..(i - 1) /\ i > 1 /\ (i - 1) + 1 = i
    BY <2>2, <2>3, <2>4
  <2>6. /\ p[i - 1].name \in TreeNames /\ Fits(p[i - 1].name, p[i - 1].value) /\ p[i].name \in Below(p[i - 1].name, p[i - 1].value)
    BY <2>3, <2>5, AtPath, PathStep, TrieNames
  <2>7. p[i - 1].value.type = "BITMAP" /\ ~(last_symbol(p[i]) >= max_child(p[i - 1].value))
    BY <1>2, <2>5 DEF Propagates
  <2>8. last_symbol(p[i]) = max_child(p[i - 1].value)
    BY <2>2, <2>5, <2>7 DEF Rightmost
  <2>9. max_child(p[i - 1].value) \in Nat
    <3> HIDE DEF p
    <3> QED BY <2>6, <2>7, LargestChild
  <2> QED BY <2>7, <2>8, <2>9
<1> HIDE DEF v, pn
<1>7. /\ NodeFrame(t) /\ nodes'[pn].value = v
      /\ \A m \in Names \ {pn} : nodes'[m].value = nodes[m].value
  BY <1>2, <1>3, <1>4, LastWrite
<1>8. Hidden(t) = {} /\ Hidden(t)' = {} /\ ~WithPred(t)' /\ ~Splitting(t) /\ ~Splitting(t)'
  BY <1>1, <1>2, Nowhere, NowhereNext DEF WithPred, Splitting
<1>9. \A n \in Names : /\ nodes'[n].value = Unused <=> nodes[n].value = Unused
                       /\ nodes'[n].value.type = nodes[n].value.type
                       /\ nodes'[n].value.type = "LEAF" => nodes'[n].value.next_leaf = nodes[n].value.next_leaf
                       /\ nodes'[n].value.type = "LEAF" /\ nodes'[n].value.dirty => n # pn /\ nodes[n].value.dirty
                       /\ nodes[n].value.type \in {"BITMAP", "JUMP"} => nodes'[n].value.max_leaf = nodes[n].value.max_leaf
  <2>1. nodes[pn].value # Unused
    BY <1>3 DEF Unused
  <2> QED BY <1>3, <1>4, <1>5, <1>7, <2>1
<1>10. \A u \in Threads : Hidden(u)' = Hidden(u) /\ (Hidden(u) # {} => (pc'[u] = "mark" <=> pc[u] = "mark"))
  BY <1>1, <1>8, HiddenKeeps DEF Frame, Same
<1>11. Trie' = Trie /\ Listed' = Listed
  <2>1. \A n \in TreeNames : n \in Names
    BY TrieNames
  <2> QED BY <1>9, <1>10, <2>1, TrieSame, ListedSame
<1>12. ListInv'
  <2>1. \A n \in Listed \cup {MinLeaf} : nodes'[n].value.next_leaf = nodes[n].value.next_leaf
    <3>1. \A n \in Listed \cup {MinLeaf} : n \in Names /\ nodes[n].value.type = "LEAF"
      BY <1>1, ListedPart, TrieNames, Kinds DEF SharedInv, NodesOK
    <3> QED BY <1>9, <3>1
  <2> QED BY <1>1, <1>8, <1>11, <2>1, ListKept
<1>13. DirtyInv'
  <2>1. \A n \in Names : nodes'[n].value.type = "LEAF" /\ nodes'[n].value.dirty =>
           \/ nodes[n].value.type = "LEAF" /\ nodes[n].value.dirty /\ (WithPred(t) => pred[t].name # n)
           \/ WithPred(t)' /\ pred'[t].name = n
    BY <1>9 DEF pn
  <2> QED BY <1>1, <1>8, <2>1, DirtyKept
<1>14. MaxInv'
  <2>1. \A q \in Trie : /\ nodes'[q].value.type = nodes[q].value.type
                        /\ nodes[q].value.type \in {"BITMAP", "JUMP"} => nodes'[q].value.max_leaf = nodes[q].value.max_leaf
    BY <1>9, TrieNames
  <2> QED BY <1>1, <1>6, <1>11, <2>1, MaxKept
<1>15. ASSUME NEW u \in Threads PROVE PlaceInv(u)' /\ SplitInv(u)'
  <2>1. CASE u = t
    BY <1>2, <2>1, NotPlacing DEF Locking, AllPcs, RestPcs
  <2>2. CASE u # t
    <3>1. \A y \in Listed' \ Listed : Splitting(u) /\ Above(Last(path[u]).name, y) => Upto(new_leaf[u], y)
      BY <1>11
    <3> QED BY <1>1, <1>7, <1>11, <2>2, <3>1, OthersKnow
  <2> QED BY <2>1, <2>2
<1> QED BY <1>12, <1>13, <1>14, <1>15 DEF OrderInv

=============================================================================
