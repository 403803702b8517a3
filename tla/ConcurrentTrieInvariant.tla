------------------------ MODULE ConcurrentTrieInvariant ------------------------
(***************************************************************************)
(* The inductive invariant of ConcurrentTrie, for any threads, programs    *)
(* and keys: IInv.  It says that the nodes in use form one trie, save      *)
(* those a thread has added and not yet connected; that the leaves of the  *)
(* trie hold the index; and for each thread what its copies and its locks  *)
(* tell it.  A copy may be old, but it was the node once: its sequence     *)
(* number is not above the node's, and if the numbers agree so do the      *)
(* values.  The names on a path stay in the trie, since nodes are never    *)
(* removed and a split keeps the names of the nodes below it.              *)
(*                                                                         *)
(* This module defines the invariant, shows that the splits connect what   *)
(* they should, and that no step disturbs what other threads know.         *)
(* ConcurrentTrieProofs shows that every step keeps the invariant.         *)
(***************************************************************************)
EXTENDS ConcurrentTrie, TLAPS, WellFoundedInduction

(* The name a is a prefix of b: the node b lies below a, or is a.          *)
Above(a, b) == Len(a) <= Len(b) /\ \A i \in 1..Len(a) : a[i] = b[i]

(* The names of the children of a node n with value v.                     *)
Below(n, v) ==
  IF v.type = "BITMAP" THEN {Append(n, s) : s \in v.children}
  ELSE IF v.type = "JUMP" THEN {n \o v.jump} ELSE {}

HasMax(S) == \E m \in S : \A x \in S : m >= x

(* The values of the nodes.                                                *)
LeafValues == [type : {"LEAF"}, key : Keys \cup {NULL}, kv : Values \cup {NULL},
               next_leaf : TreeNames \cup {NULL}, dirty : BOOLEAN]
BitmapValues == [type : {"BITMAP"}, children : SUBSET Nat, max_leaf : TreeNames]
JumpValues == [type : {"JUMP"}, jump : Seq(Nat) \ {<<>>}, max_leaf : TreeNames]
IsBitmap(v) == v \in BitmapValues /\ HasMax(v.children)

NodeValues == {Unused} \cup LeafValues \cup BitmapValues \cup JumpValues
NodeMaps == [Names -> [value : NodeValues, seq : Nat, lock : Threads \cup {NULL}]]
Copies == [name : Names, value : NodeValues, seq : Nat]

(* A node of this value can have this name: a leaf lies on the way to its  *)
(* key, and the children of a node on the way to some key.                 *)
Fits(n, v) ==
  \/ v = Unused /\ n # MinLeaf
  \/ v \in LeafValues /\ (n = MinLeaf \/ (v.key \in Keys /\ Above(n, KeySymbols(v.key))))
  \/ IsBitmap(v) /\ n # MinLeaf /\ Below(n, v) \subseteq TreeNames
  \/ v \in JumpValues /\ n # MinLeaf /\ Below(n, v) \subseteq TreeNames

NodesOK == nodes \in NodeMaps /\ \A n \in Names : Fits(n, nodes[n].value)

-----------------------------------------------------------------------------
(* The trie. *)

(* The thread has added nodes for a key that is not in the index yet.      *)
Putting(t) == pc[t] \in {"link", "mark"} /\ call[t].ret = Pending

(* The nodes the thread has added and not yet connected to the trie.       *)
Hidden(t) == IF pc[t] = "head" \/ Putting(t) THEN DOMAIN NewNodes(t) ELSE {}

Used == {n \in TreeNames : nodes[n].value # Unused}

Trie == Used \ UNION {Hidden(t) : t \in Threads}

(* The children of every node are there, and whatever lies below a node    *)
(* lies at or below one of its children: every node is reached by a search *)
(* for it, and a search that ends passed all there is for it.              *)
Shaped(T, below) ==
  /\ \A n \in T : below[n] \subseteq T
  /\ \A n, m \in T : n # m /\ Above(n, m) => \E b \in below[n] : Above(b, m)

ChildrenIn(ns) == [n \in TreeNames |-> Below(n, ns[n].value)]

StructInv == Shaped(Trie, ChildrenIn(nodes))

(* Where a thread has no path yet, where only the stores are, where only   *)
(* the iterators are.                                                      *)
RestPcs == {"idle", "start", "next", "next_again", "root_lock", "root_check", "root_wait"}
PutPcs == {"root_lock", "root_check", "root_wait", "pred", "lock_pred", "head", "link", "mark", "propagate"}
IterPcs == {"next", "next_again", "resynced", "advance"}
AllPcs == RestPcs \cup PutPcs \cup IterPcs \cup {"descend", "max_leaf", "return"}

(* While is_empty is set there is no node, and nobody has got further than *)
(* to create the root; once it is cleared the root is there for good.      *)
EmptyInv ==
  /\ is_empty \in BOOLEAN
  /\ is_empty =>
       /\ DOMAIN index = {}
       /\ \A n \in Names : n # Root => nodes[n].lock = NULL
       /\ Used = {}
       /\ \A t \in Threads : pc[t] \in RestPcs \cup {"return"}
  /\ ~is_empty => Root \in Trie

(* Only nodes are locked, and the root's bucket before there is a root.    *)
UnusedInv == \A n \in TreeNames : n # Root /\ nodes[n].value = Unused => nodes[n].lock = NULL

(* The leaves hold the keys of the index with their values.                *)
IndexInv ==
  /\ DOMAIN index \subseteq Keys
  /\ index = [k \in DOMAIN index |-> index[k]]
  /\ \A n \in Trie : nodes[n].value.type = "LEAF" =>
        nodes[n].value.key \in DOMAIN index /\ index[nodes[n].value.key] = nodes[n].value.kv
  /\ \A k \in DOMAIN index : \E n \in Trie : nodes[n].value.type = "LEAF" /\ nodes[n].value.key = k

DomainInv ==
  /\ DOMAIN calls = Threads /\ DOMAIN call = Threads /\ DOMAIN pc = Threads /\ DOMAIN path = Threads
  /\ DOMAIN subtree = Threads /\ DOMAIN pred = Threads /\ DOMAIN new_leaf = Threads
  /\ DOMAIN level = Threads /\ DOMAIN iter = Threads /\ DOMAIN cursor = Threads

-----------------------------------------------------------------------------
(* What a thread knows. *)

IsResult(r) ==
  \/ r \in Values \cup {NULL, Pending} \/ r \in Keys \/ r \in BOOLEAN
  \/ r \in {"S_OK", "S_ALREADYIN", "S_NOTFOUND"}

(* Which call it executes, and whether that has a result yet.              *)
CallInv(t) ==
  /\ calls[t] \in Seq(AllCalls)
  /\ pc[t] \in AllPcs
  /\ IF pc[t] = "idle" THEN call[t] = NULL
     ELSE /\ \E c \in AllCalls : call[t] = Called(c, call[t].ret)
          /\ call[t].op \notin IterCalls => IsResult(call[t].ret)
          /\ pc[t] \in PutPcs => call[t].op \in PutCalls
          /\ pc[t] \in IterPcs => call[t].op \in IterCalls
          /\ pc[t] = "max_leaf" => call[t].op \in PutCalls \cup IterCalls
          /\ pc[t] \notin {"return", "propagate", "link"} => call[t].ret = Pending
          /\ pc[t] \in {"return", "propagate"} /\ call[t].op \notin IterCalls => call[t].ret # Pending
  /\ pc[t] \in RestPcs => path[t] = <<>>
  /\ iter[t] = [leaf |-> iter[t].leaf, key |-> iter[t].key, is_exhausted |-> iter[t].is_exhausted,
                report_current |-> iter[t].report_current]

(* The thread searches for a key.  An iterator that has none yet does not. *)
Guarded(t) == pc[t] # "idle" /\ KeyOf(t) \in Seq(Nat \ {0})

(* c is a copy of its node, as it is or as it was.                         *)
CopyIn(ns, c) ==
  /\ c \in Copies /\ Fits(c.name, c.value) /\ c.value # Unused
  /\ c.seq <= ns[c.name].seq /\ (c.seq = ns[c.name].seq => c.value = ns[c.name].value)

(* t has locked the node of the copy, which is as the copy says.           *)
Owns(ns, t, c) == ns[c.name] = [value |-> c.value, seq |-> c.seq, lock |-> t]

(* A copy that a search for key may pass: the children it tells of are     *)
(* still nodes of the trie, if no longer of this one.                      *)
OnPath(ns, T, key, c) ==
  /\ CopyIn(ns, c)
  /\ c.name \in T /\ Below(c.name, c.value) \subseteq T
  /\ Above(c.name, KeySymbols(key))

PathOK(ns, T, key, p) ==
  /\ p \in Seq(Copies)
  /\ \A i \in 1..Len(p) : OnPath(ns, T, key, p[i])
  /\ \A i \in 1..(Len(p) - 1) : p[i + 1].name \in Below(p[i].name, p[i].value)

PathInv(t) == Guarded(t) =>
  /\ PathOK(nodes, Trie, KeyOf(t), path[t])
  /\ pc[t] \notin RestPcs \cup {"return"} => Len(path[t]) > 0

(* The thread has locked the end of its path, the predecessor as well.     *)
Locking(t) ==
  \/ pc[t] \in {"pred", "lock_pred", "head", "link", "mark", "propagate"}
  \/ pc[t] = "max_leaf" /\ call[t].op \in PutCalls

WithPred(t) == pc[t] \in {"head", "link", "mark", "propagate"}

HoldInv(t) ==
  /\ Locking(t) => \A i \in LockPositions(path[t]) : Owns(nodes, t, path[t][i])
  /\ WithPred(t) => Owns(nodes, t, pred[t]) /\ pred[t].name # Last(path[t]).name /\ pred[t].name \notin Hidden(t)
  /\ pc[t] = "root_check" => nodes[Root].lock = t
  /\ pc[t] = "propagate" => level[t] \in LockPositions(path[t])

ReleaseInv == \A n \in Names, t \in Threads : nodes[n].lock = t => Locking(t) \/ pc[t] = "root_check"

(* The predecessor is a leaf, the node it is looked for below is none.     *)
PredInv(t) ==
  /\ pc[t] \in {"lock_pred", "head", "link", "mark", "propagate"} => CopyIn(nodes, pred[t]) /\ pred[t].value.type = "LEAF"
  /\ pc[t] = "max_leaf" /\ Guarded(t) => CopyIn(nodes, subtree[t]) /\ subtree[t].value.type \in {"BITMAP", "JUMP"}

(* Of which kind the end of the path is while a leaf is added there.       *)
EndInv(t) ==
  LET c == Last(path[t]) IN
  /\ Locking(t) /\ call[t].ret = Pending =>
       /\ NameBelow(c, call[t].key) = NULL
       /\ c.value.type \in {"LEAF", "BITMAP"}
       /\ pc[t] = "head" => c.value.type = "LEAF"
       /\ Putting(t) => c.value.type = "BITMAP"
       /\ c.value.type = "LEAF" => c.value.key # call[t].key
  /\ Locking(t) /\ call[t].ret # Pending => c.value.type \in {"BITMAP", "JUMP"}
  /\ pc[t] \in {"head", "link", "mark"} => new_leaf[t] \in TreeNames

(* The nodes still to be connected are locked, lie below the end of the    *)
(* path and below none of its children.                                    *)
HiddenInv(t) ==
  /\ \A m \in Hidden(t) :
       /\ m \in TreeNames /\ nodes[m].lock = t /\ nodes[m].value # Unused
       /\ Above(Last(path[t]).name, m) /\ m # Last(path[t]).name
       /\ \A b \in Below(Last(path[t]).name, Last(path[t]).value) : ~Above(b, m)
  /\ pc[t] = "head" => \A m \in Hidden(t) : nodes[m].value = NewNodes(t)[m]
  /\ Putting(t) => LET v == nodes[NewChildName(Last(path[t]), call[t].key)].value
                   IN  v.type = "LEAF" /\ v.key = call[t].key /\ v.kv = call[t].value

ThreadInv(t) ==
  CallInv(t) /\ PathInv(t) /\ HoldInv(t) /\ PredInv(t) /\ EndInv(t) /\ HiddenInv(t)

SharedInv == NodesOK /\ StructInv /\ EmptyInv /\ UnusedInv /\ IndexInv /\ ReleaseInv /\ DomainInv

(* The invariant.                                                          *)
IInv == SharedInv /\ \A t \in Threads : ThreadInv(t)

-----------------------------------------------------------------------------
(* Names. *)

(* What a part of a sequence consists of.                                  *)
LEMMA SubSeqPart ==
  ASSUME NEW s \in Seq(Nat), NEW i \in Nat, NEW j \in Nat, i <= j + 1, i >= 1, j <= Len(s)
  PROVE  /\ SubSeq(s, i, j) \in Seq(Nat) /\ Len(SubSeq(s, i, j)) = j - i + 1
         /\ \A x \in 1..(j - i + 1) : SubSeq(s, i, j)[x] = s[i + x - 1]
OBVIOUS

(* What Append yields.                                                     *)
LEMMA AppendPart ==
  ASSUME NEW s \in Seq(Nat), NEW x \in Nat
  PROVE  /\ Append(s, x) \in Seq(Nat) /\ Len(Append(s, x)) = Len(s) + 1
         /\ Append(s, x)[Len(s) + 1] = x /\ \A i \in 1..Len(s) : Append(s, x)[i] = s[i]
OBVIOUS

(* What a concatenation consists of.                                       *)
LEMMA ConcatPart ==
  ASSUME NEW s \in Seq(Nat), NEW u \in Seq(Nat)
  PROVE  /\ s \o u \in Seq(Nat) /\ Len(s \o u) = Len(s) + Len(u)
         /\ \A i \in 1..Len(s) : (s \o u)[i] = s[i]
         /\ \A i \in 1..Len(u) : (s \o u)[Len(s) + i] = u[i]
OBVIOUS

(* Sequences with the same elements are the same.                          *)
LEMMA SameSeq ==
  ASSUME NEW s \in Seq(Nat), NEW u \in Seq(Nat), Len(s) = Len(u), \A i \in 1..Len(s) : s[i] = u[i]
  PROVE  s = u
OBVIOUS

(* Above is reflexive, ...                                                 *)
LEMMA AboveSelf == \A a \in Seq(Nat) : Above(a, a)
BY DEF Above

(* ... transitive, ...                                                     *)
LEMMA AboveTrans ==
  ASSUME NEW a \in Seq(Nat), NEW b \in Seq(Nat), NEW c \in Seq(Nat), Above(a, b), Above(b, c)
  PROVE  Above(a, c)
BY DEF Above

(* ... strict in the length unless the names are the same, ...             *)
LEMMA AboveLonger ==
  ASSUME NEW a \in Seq(Nat), NEW b \in Seq(Nat), Above(a, b), a # b
  PROVE  Len(a) < Len(b)
BY SameSeq DEF Above

(* ... antisymmetric, ...                                                  *)
LEMMA AboveBoth ==
  ASSUME NEW a \in Seq(Nat), NEW b \in Seq(Nat), Above(a, b), Above(b, a)
  PROVE  a = b
<1>1. Len(a) = Len(b) /\ \A i \in 1..Len(a) : a[i] = b[i]
  BY DEF Above
<1> QED BY <1>1, SameSeq

(* ... and orders the prefixes of a name.                                  *)
LEMMA AboveChain ==
  ASSUME NEW a \in Seq(Nat), NEW b \in Seq(Nat), NEW c \in Seq(Nat), Above(a, c), Above(b, c)
  PROVE  IF Len(a) <= Len(b) THEN Above(a, b) ELSE Above(b, a)
BY DEF Above

(* When a name with one more symbol is a prefix.                           *)
LEMMA AboveAppend ==
  ASSUME NEW a \in Seq(Nat), NEW x \in Nat, NEW b \in Seq(Nat)
  PROVE  Above(Append(a, x), b) <=> Above(a, b) /\ Len(a) < Len(b) /\ b[Len(a) + 1] = x
<1>1. Append(a, x) \in Seq(Nat) /\ Len(Append(a, x)) = Len(a) + 1
      /\ Append(a, x)[Len(a) + 1] = x /\ \A i \in 1..Len(a) : Append(a, x)[i] = a[i]
  BY AppendPart
<1>2. ASSUME Above(Append(a, x), b) PROVE Above(a, b) /\ Len(a) < Len(b) /\ b[Len(a) + 1] = x
  <2>1. Len(a) + 1 <= Len(b) /\ \A i \in 1..(Len(a) + 1) : Append(a, x)[i] = b[i]
    BY <1>1, <1>2 DEF Above
  <2>2. \A i \in 1..Len(a) : i \in 1..(Len(a) + 1)
    OBVIOUS
  <2>3. Len(a) + 1 \in 1..(Len(a) + 1)
    OBVIOUS
  <2> QED BY <1>1, <2>1, <2>2, <2>3 DEF Above
<1>3. ASSUME Above(a, b), Len(a) < Len(b), b[Len(a) + 1] = x PROVE Above(Append(a, x), b)
  <2>1. SUFFICES ASSUME NEW i \in 1..(Len(a) + 1) PROVE Append(a, x)[i] = b[i]
    BY <1>1, <1>3 DEF Above
  <2>2. CASE i = Len(a) + 1
    BY <1>1, <1>3, <2>2
  <2>3. CASE i # Len(a) + 1
    BY <1>1, <1>3, <2>3 DEF Above
  <2> QED BY <2>2, <2>3
<1> QED BY <1>2, <1>3

(* When a name with the symbols of a jump after it is a prefix.            *)
LEMMA AboveConcat ==
  ASSUME NEW a \in Seq(Nat), NEW u \in Seq(Nat), NEW b \in Seq(Nat)
  PROVE  Above(a \o u, b) <=>
           Above(a, b) /\ Len(a) + Len(u) <= Len(b) /\ \A i \in 1..Len(u) : b[Len(a) + i] = u[i]
<1>1. a \o u \in Seq(Nat) /\ Len(a \o u) = Len(a) + Len(u)
      /\ (\A i \in 1..Len(a) : (a \o u)[i] = a[i]) /\ (\A i \in 1..Len(u) : (a \o u)[Len(a) + i] = u[i])
  BY ConcatPart
<1>2. ASSUME Above(a \o u, b) PROVE Above(a, b) /\ Len(a) + Len(u) <= Len(b) /\ \A i \in 1..Len(u) : b[Len(a) + i] = u[i]
  <2>1. Len(a) + Len(u) <= Len(b) /\ \A i \in 1..(Len(a) + Len(u)) : (a \o u)[i] = b[i]
    BY <1>1, <1>2 DEF Above
  <2>2. Above(a, b)
    <3>1. \A i \in 1..Len(a) : i \in 1..(Len(a) + Len(u))
      OBVIOUS
    <3> QED BY <1>1, <2>1, <3>1 DEF Above
  <2>3. ASSUME NEW i \in 1..Len(u) PROVE b[Len(a) + i] = u[i]
    <3>1. Len(a) + i \in 1..(Len(a) + Len(u))
      OBVIOUS
    <3> QED BY <1>1, <2>1, <3>1
  <2> QED BY <2>1, <2>2, <2>3
<1>3. ASSUME Above(a, b), Len(a) + Len(u) <= Len(b), \A i \in 1..Len(u) : b[Len(a) + i] = u[i] PROVE Above(a \o u, b)
  <2>1. SUFFICES ASSUME NEW i \in 1..(Len(a) + Len(u)) PROVE (a \o u)[i] = b[i]
    BY <1>1, <1>3 DEF Above
  <2>2. CASE i <= Len(a)
    BY <1>1, <1>3, <2>2 DEF Above
  <2>3. CASE i > Len(a)
    <3>1. i - Len(a) \in 1..Len(u) /\ Len(a) + (i - Len(a)) = i
      BY <2>3
    <3> QED BY <1>1, <1>3, <3>1
  <2> QED BY <2>2, <2>3
<1> QED BY <1>2, <1>3

(* The prefix of each length is the part of that length.                   *)
LEMMA AboveSubSeq ==
  ASSUME NEW s \in Seq(Nat), NEW i \in 0..Len(s)
  PROVE  /\ SubSeq(s, 1, i) \in Seq(Nat) /\ Len(SubSeq(s, 1, i)) = i /\ Above(SubSeq(s, 1, i), s)
         /\ \A x \in 1..i : SubSeq(s, 1, i)[x] = s[x]
         /\ \A a \in Seq(Nat) : Above(a, s) /\ Len(a) = i => a = SubSeq(s, 1, i)
<1>1. SubSeq(s, 1, i) \in Seq(Nat) /\ Len(SubSeq(s, 1, i)) = i /\ \A x \in 1..i : SubSeq(s, 1, i)[x] = s[x]
  BY SubSeqPart
<1>2. ASSUME NEW a \in Seq(Nat), Above(a, s), Len(a) = i PROVE a = SubSeq(s, 1, i)
  BY <1>1, <1>2, SameSeq DEF Above
<1> QED BY <1>1, <1>2 DEF Above

(* The symbols of a key are its bytes and a zero that ends it.             *)
LEMMA KeyParts ==
  ASSUME NEW k \in Seq(Nat \ {0})
  PROVE  /\ KeySymbols(k) \in Seq(Nat) /\ Len(KeySymbols(k)) = Len(k) + 1 /\ Len(k) \in Nat
         /\ KeySymbols(k)[Len(k) + 1] = 0 /\ \A i \in 1..Len(k) : KeySymbols(k)[i] = k[i] /\ k[i] # 0
         /\ k \in Seq(Nat)
BY AppendPart DEF KeySymbols, SYMBOL_END

(* The keys are sequences of symbols.                                      *)
LEMMA KeysAreSequences == \A k \in Keys : k \in Seq(Nat \ {0}) /\ KeySymbols(k) \in Seq(Nat)
BY KeysAssumption, KeyParts

(* Different keys part before the end of either. *)
LEMMA KeysPart ==
  ASSUME NEW a \in Seq(Nat \ {0}), NEW b \in Seq(Nat \ {0}), Above(KeySymbols(a), KeySymbols(b))
  PROVE  a = b
<1>1. /\ Len(a) \in Nat /\ Len(b) \in Nat /\ Len(a) <= Len(b)
      /\ \A i \in 1..(Len(a) + 1) : KeySymbols(a)[i] = KeySymbols(b)[i]
  BY KeyParts DEF Above
<1>2. Len(a) = Len(b)
  <2>1. SUFFICES ASSUME Len(a) < Len(b) PROVE FALSE
    BY <1>1
  <2>2. Len(a) + 1 \in 1..(Len(a) + 1) /\ Len(a) + 1 \in 1..Len(b)
    BY <1>1, <2>1
  <2>3. KeySymbols(a)[Len(a) + 1] = 0 /\ KeySymbols(b)[Len(a) + 1] # 0
    BY <2>2, KeyParts
  <2> QED BY <1>1, <2>2, <2>3
<1>3. ASSUME NEW i \in 1..Len(a) PROVE a[i] = b[i]
  <2>1. i \in 1..(Len(a) + 1) /\ i \in 1..Len(b)
    BY <1>1, <1>2
  <2> QED BY <1>1, <2>1, KeyParts
<1>4. a \in Seq(Nat) /\ b \in Seq(Nat)
  BY KeyParts
<1> QED BY <1>2, <1>3, <1>4, SameSeq

(* The names in the tree are the prefixes of the keys' symbols.            *)
LEMMA NamesOfTree ==
  /\ TreeNames \subseteq Seq(Nat)
  /\ \A n \in Seq(Nat) : n \in TreeNames <=> \E k \in Keys : Above(n, KeySymbols(k))
<1>1. ASSUME NEW k \in Keys, NEW n \in Prefixes(KeySymbols(k)) PROVE n \in Seq(Nat) /\ Above(n, KeySymbols(k))
  <2>1. KeySymbols(k) \in Seq(Nat)
    BY KeysAreSequences
  <2>2. PICK i \in 0..Len(KeySymbols(k)) : n = SubSeq(KeySymbols(k), 1, i)
    BY <1>1 DEF Prefixes
  <2> QED BY <2>1, <2>2, AboveSubSeq
<1>2. ASSUME NEW k \in Keys, NEW n \in Seq(Nat), Above(n, KeySymbols(k)) PROVE n \in Prefixes(KeySymbols(k))
  <2>1. KeySymbols(k) \in Seq(Nat)
    BY KeysAreSequences
  <2>2. Len(n) \in 0..Len(KeySymbols(k))
    BY <2>1, <1>2 DEF Above
  <2>3. n = SubSeq(KeySymbols(k), 1, Len(n))
    BY <2>1, <2>2, <1>2, AboveSubSeq
  <2> QED BY <2>2, <2>3 DEF Prefixes
<1> QED BY <1>1, <1>2 DEF TreeNames

(* A prefix of a name in the tree is in the tree.                          *)
LEMMA NamesClosed ==
  ASSUME NEW n \in TreeNames, NEW m \in Seq(Nat), Above(m, n)
  PROVE  m \in TreeNames
BY NamesOfTree, KeysAreSequences, AboveTrans

(* END is the last symbol of a name, if it is there. *)
LEMMA InnerName ==
  ASSUME NEW n \in TreeNames, NEW m \in Seq(Nat), Above(m, n), m # n
  PROVE  \A i \in 1..Len(m) : m[i] # 0
<1>1. PICK k \in Keys : Above(n, KeySymbols(k))
  BY NamesOfTree
<1>2. n \in Seq(Nat) /\ k \in Seq(Nat \ {0}) /\ KeySymbols(k) \in Seq(Nat)
  BY NamesOfTree, KeysAreSequences
<1>3. Len(m) < Len(n) /\ Len(n) <= Len(k) + 1
  BY <1>1, <1>2, AboveLonger, KeyParts DEF Above
<1>4. \A i \in 1..Len(m) : m[i] = KeySymbols(k)[i] /\ i <= Len(k)
  BY <1>1, <1>2, <1>3 DEF Above
<1> QED BY <1>2, <1>4, KeyParts

(* A name with others below it does not hold the zero that ends a key.     *)
LEMMA InnerLength ==
  ASSUME NEW n \in TreeNames, NEW m \in Seq(Nat), Above(m, n), m # n, NEW k \in Seq(Nat \ {0}), Above(m, KeySymbols(k))
  PROVE  Len(m) <= Len(k)
<1>1. Len(m) <= Len(k) + 1 /\ KeySymbols(k)[Len(k) + 1] = 0
  BY KeyParts DEF Above
<1>2. CASE Len(m) = Len(k) + 1
  <2>1. m[Len(k) + 1] = 0 /\ Len(k) + 1 \in 1..Len(m)
    BY <1>1, <1>2, KeyParts DEF Above
  <2> QED BY <2>1, InnerName
<1> QED BY <1>1, <1>2, KeyParts

(* A set of numbers has a minimum, which Min finds.                        *)
LEMMA SmallestNumber ==
  ASSUME NEW S \in SUBSET Nat, S # {}
  PROVE  Min(S) \in S /\ \A x \in S : Min(S) <= x
<1>1. \E x \in S : \A y \in S : ~(<<y, x>> \in OpToRel(<, Nat))
  BY NatLessThanWellFounded, WFMin
<1>2. PICK x \in S : \A y \in S : ~(<<y, x>> \in {ss \in Nat \X Nat : ss[1] < ss[2]})
  BY <1>1, Zenon DEF OpToRel
<1>3. ASSUME NEW y \in S PROVE x <= y
  <2>1. <<y, x>> \in Nat \X Nat /\ <<y, x>>[1] = y /\ <<y, x>>[2] = x
    OBVIOUS
  <2> QED BY <1>2, <2>1
<1> QED BY <1>3 DEF Min

(* Max finds the maximum of a set that has one.                            *)
LEMMA LargestOf ==
  ASSUME NEW S, HasMax(S)
  PROVE  Max(S) \in S /\ \A x \in S : Max(S) >= x
BY DEF HasMax, Max

(* A set of numbers with a bound has a maximum.                            *)
LEMMA BoundedHasMax ==
  ASSUME NEW S \in SUBSET Nat, S # {}, NEW n \in Nat, \A x \in S : x <= n
  PROVE  HasMax(S)
<1> DEFINE D == {d \in 0..n : n - d \in S}
<1>1. D \in SUBSET Nat /\ D # {}
  <2>1. PICK x \in S : TRUE
    OBVIOUS
  <2>2. n - x \in D
    OBVIOUS
  <2>3. \A d \in D : d \in Nat
    OBVIOUS
  <2> HIDE DEF D
  <2> QED BY <2>2, <2>3
<1>2. Min(D) \in D /\ \A d \in D : Min(D) <= d
  BY <1>1, SmallestNumber
<1>3. n - Min(D) \in S /\ \A x \in S : x <= n - Min(D)
  <2>1. \A x \in S : n - x \in D
    OBVIOUS
  <2> QED BY <1>2, <2>1
<1> QED BY <1>3 DEF HasMax

(* The smaller of two numbers.                                             *)
LEMMA SmallerOfTwo ==
  ASSUME NEW i \in Nat, NEW j \in Nat
  PROVE  Min({i, j}) \in {i, j} /\ Min({i, j}) <= i /\ Min({i, j}) <= j
BY DEF Min

(* CommonLength is where two sequences differ for the first time.          *)
LEMMA CommonPart ==
  ASSUME NEW a \in Seq(Nat), NEW b \in Seq(Nat)
  PROVE  LET d == CommonLength(a, b)
         IN  /\ d \in Nat /\ d <= Len(a) /\ d <= Len(b)
             /\ \A j \in 1..d : a[j] = b[j]
             /\ d < Len(a) /\ d < Len(b) => a[d + 1] # b[d + 1]
<1> DEFINE d == CommonLength(a, b)
           m == Min({Len(a), Len(b)})
           S == {i \in 0..m : \A j \in 1..i : a[j] = b[j]}
<1>1. m \in Nat /\ m <= Len(a) /\ m <= Len(b) /\ m \in {Len(a), Len(b)}
  <2>1. Len(a) \in Nat /\ Len(b) \in Nat
    OBVIOUS
  <2> QED BY <2>1, SmallerOfTwo
<1> HIDE DEF m
<1>2. S \in SUBSET Nat /\ S # {} /\ \A x \in S : x <= m
  <2>1. 0 \in S
    BY <1>1
  <2>2. \A x \in S : x \in Nat /\ x <= m
    BY <1>1
  <2> HIDE DEF S
  <2> QED BY <2>1, <2>2
<1>3. d = Max(S)
  BY DEF CommonLength, m
<1> HIDE DEF d
<1>4. d \in S /\ \A x \in S : d >= x
  BY <1>1, <1>2, <1>3, BoundedHasMax, LargestOf
<1>5. d < Len(a) /\ d < Len(b) => a[d + 1] # b[d + 1]
  <2>1. SUFFICES ASSUME d < Len(a), d < Len(b), a[d + 1] = b[d + 1] PROVE FALSE
    OBVIOUS
  <2>2. d + 1 \in 0..m
    BY <1>1, <1>4, <2>1
  <2>3. \A j \in 1..(d + 1) : a[j] = b[j]
    BY <1>4, <2>1
  <2> QED BY <1>4, <2>2, <2>3
<1> QED BY <1>1, <1>4, <1>5 DEF d

(* What is left of the symbols after the first m.                          *)
LEMMA TailPart ==
  ASSUME NEW K \in Seq(Nat), NEW m \in Nat, m < Len(K)
  PROVE  LET r == SubSeq(K, m + 1, Len(K))
         IN  /\ r \in Seq(Nat) /\ Len(r) = Len(K) - m /\ Head(r) = K[m + 1] /\ K[m + 1] \in Nat
             /\ \A i \in 1..(Len(K) - m) : r[i] = K[m + i]
<1> DEFINE r == SubSeq(K, m + 1, Len(K))
<1>1. PICK l \in Nat : l = Len(K)
  OBVIOUS
<1>2. PICK a \in Nat : a = m + 1
  OBVIOUS
<1>3. a <= l + 1 /\ a >= 1 /\ l <= Len(K)
  BY <1>1, <1>2
<1>4. r \in Seq(Nat) /\ Len(r) = l - a + 1 /\ \A x \in 1..(l - a + 1) : r[x] = K[a + x - 1]
  <2>1. r = SubSeq(K, a, l)
    BY <1>1, <1>2
  <2>2. /\ SubSeq(K, a, l) \in Seq(Nat) /\ Len(SubSeq(K, a, l)) = l - a + 1
        /\ \A x \in 1..(l - a + 1) : SubSeq(K, a, l)[x] = K[a + x - 1]
    BY <1>3, SubSeqPart
  <2> HIDE DEF r
  <2> QED BY <2>1, <2>2
<1> HIDE DEF r
<1>5. ASSUME NEW i \in 1..(Len(K) - m) PROVE r[i] = K[m + i]
  <2>1. i \in 1..(l - a + 1) /\ a + i - 1 = m + i
    BY <1>1, <1>2
  <2> QED BY <1>4, <2>1
<1>6. l - a + 1 = Len(K) - m /\ 1 \in 1..(Len(K) - m) /\ m + 1 \in 1..Len(K)
  BY <1>1, <1>2
<1>7. Head(r) = r[1]
  BY <1>4, <1>6
<1> QED BY <1>4, <1>5, <1>6, <1>7 DEF r

(* The symbols of a key that a node's name has not used up.                *)
LEMMA RestPart ==
  ASSUME NEW k \in Seq(Nat \ {0}), NEW n \in Seq(Nat), Len(n) <= Len(k)
  PROVE  /\ Rest(k, n) \in Seq(Nat) /\ Len(Rest(k, n)) = Len(k) + 1 - Len(n)
         /\ \A i \in 1..(Len(k) + 1 - Len(n)) : Rest(k, n)[i] = KeySymbols(k)[Len(n) + i]
         /\ Head(Rest(k, n)) = KeySymbols(k)[Len(n) + 1]
         /\ KeySymbols(k)[Len(n) + 1] \in Nat
<1>1. PICK K \in Seq(Nat), l \in Nat, m \in Nat, r \in {Rest(k, n)} :
        K = KeySymbols(k) /\ l = Len(k) /\ Len(K) = l + 1 /\ m = Len(n) /\ r = Rest(k, n)
  <2>1. KeySymbols(k) \in Seq(Nat) /\ Len(KeySymbols(k)) = Len(k) + 1 /\ Len(k) \in Nat
    BY KeyParts
  <2>2. Len(n) \in Nat
    OBVIOUS
  <2> QED BY <2>1, <2>2
<1>2. m < Len(K) /\ r = SubSeq(K, m + 1, Len(K))
  BY <1>1 DEF Rest
<1>3. /\ r \in Seq(Nat) /\ Len(r) = Len(K) - m /\ Head(r) = K[m + 1] /\ K[m + 1] \in Nat
      /\ \A i \in 1..(Len(K) - m) : r[i] = K[m + i]
  <2>1. LET s == SubSeq(K, m + 1, Len(K))
        IN  /\ s \in Seq(Nat) /\ Len(s) = Len(K) - m /\ Head(s) = K[m + 1] /\ K[m + 1] \in Nat
            /\ \A i \in 1..(Len(K) - m) : s[i] = K[m + i]
    BY <1>1, <1>2, TailPart, Zenon
  <2> QED BY <1>2, <2>1, Zenon
<1> QED BY <1>1, <1>3

(* The symbols of the key after n begin with u when the key is below n and u. *)
LEMMA JumpMatches ==
  ASSUME NEW k \in Seq(Nat \ {0}), NEW n \in Seq(Nat), NEW u \in Seq(Nat), Len(n) <= Len(k), Above(n, KeySymbols(k))
  PROVE  LET d == CommonLength(u, Rest(k, n))
         IN  /\ d = Len(u) <=> Above(n \o u, KeySymbols(k))
             /\ d \in Nat /\ d <= Len(u) /\ Len(n) + d <= Len(k) + 1
             /\ \A i \in 1..d : u[i] = KeySymbols(k)[Len(n) + i]
             /\ d < Len(u) /\ Len(n) + d < Len(k) + 1 => u[d + 1] # KeySymbols(k)[Len(n) + d + 1]
<1> DEFINE K == KeySymbols(k)
           m == Len(n)
           r == SubSeq(K, m + 1, Len(K))
           d == CommonLength(u, r)
<1>1. K \in Seq(Nat) /\ Len(K) = Len(k) + 1 /\ Len(k) \in Nat
  BY KeyParts
<1>2. d = CommonLength(u, Rest(k, n)) /\ Above(n, K)
  BY <1>1 DEF Rest
<1>3. m \in Nat /\ m = Len(n) /\ m < Len(K)
  BY <1>1
<1> HIDE DEF K, m
<1>12. /\ r \in Seq(Nat) /\ Len(r) = Len(K) - m
       /\ \A i \in 1..(Len(K) - m) : r[i] = K[m + i]
  BY <1>1, <1>3, TailPart
<1> HIDE DEF r
<1>13. /\ d \in Nat /\ d <= Len(u) /\ d <= Len(r)
       /\ \A j \in 1..d : u[j] = r[j]
       /\ d < Len(u) /\ d < Len(r) => u[d + 1] # r[d + 1]
  BY <1>12, CommonPart
<1> HIDE DEF d
<1>11. PICK lk \in Nat, lu \in Nat : lk = Len(K) /\ lu = Len(u)
  BY <1>1
<1>14. m + d <= Len(K)
  BY <1>1, <1>2, <1>3, <1>11, <1>12, <1>13
<1>15. ASSUME NEW i \in 1..d PROVE u[i] = K[m + i]
  <2>1. i \in 1..(Len(K) - m)
    BY <1>1, <1>3, <1>12, <1>13
  <2> QED BY <1>12, <1>13, <2>1, Zenon
<1>16. ASSUME d < Len(u), m + d < Len(K) PROVE u[d + 1] # K[m + d + 1]
  <2>0. ASSUME NEW x \in Nat, x <= lu, x <= Len(r), x < lu, m + x < lk
        PROVE  x < Len(r) /\ x + 1 \in 1..(Len(K) - m) /\ m + (x + 1) = m + x + 1
    BY <1>1, <1>2, <1>3, <1>11, <1>12, <2>0
  <2>1. d < Len(r) /\ d + 1 \in 1..(Len(K) - m) /\ m + (d + 1) = m + d + 1
    BY <1>1, <1>2, <1>3, <1>11, <1>13, <1>16, <2>0
  <2>2. r[d + 1] = K[m + (d + 1)]
    BY <1>12, <2>1
  <2> QED BY <1>13, <1>16, <2>1, <2>2, Zenon
<1>17. Above(n \o u, K) <=> Above(n, K) /\ m + Len(u) <= Len(K) /\ \A i \in 1..Len(u) : K[m + i] = u[i]
  BY <1>1, <1>2, <1>3, <1>11, AboveConcat
<1>18. ASSUME d = Len(u) PROVE Above(n \o u, K)
  BY <1>2, <1>11, <1>14, <1>15, <1>17, <1>18
<1>19. ASSUME d # Len(u), Above(n \o u, K) PROVE FALSE
  <2>1. m + Len(u) <= Len(K) /\ \A i \in 1..Len(u) : K[m + i] = u[i]
    BY <1>17, <1>19
  <2>0. d \in Nat /\ d <= lu /\ d # lu /\ m + lu <= lk
    BY <1>1, <1>2, <1>3, <1>11, <1>13, <1>19, <2>1
  <2>2. d < Len(u) /\ m + d < Len(K) /\ d + 1 \in 1..Len(u) /\ m + (d + 1) = m + d + 1
    BY <1>1, <1>2, <1>3, <1>11, <2>0
  <2>3. K[m + (d + 1)] = u[d + 1]
    BY <2>1, <2>2
  <2> QED BY <1>16, <2>2, <2>3
<1>20. d = Len(u) <=> Above(n \o u, K)
  BY <1>18, <1>19
<1>21. d \in Nat /\ d <= Len(u) /\ m + d <= Len(K)
  BY <1>13, <1>14
<1>22. d < Len(u) /\ m + d < Len(K) => u[d + 1] # K[m + d + 1]
  BY <1>16
<1>23. \A i \in 1..d : u[i] = K[m + i]
  BY <1>15
<1> QED BY <1>1, <1>2, <1>20, <1>21, <1>22, <1>23 DEF K, m

(* The name of min_leaf and NULL are no names in the tree.                 *)
LEMMA NullIsNoName == NULL \notin TreeNames /\ MinLeaf \notin TreeNames /\ NULL # MinLeaf
BY NamesAssumption DEF Names

(* What a node's kind tells about its contents and its children.           *)
LEMMA BelowInside ==
  ASSUME NEW n \in TreeNames, NEW v, Fits(n, v)
  PROVE  /\ Below(n, v) \subseteq TreeNames
         /\ v.type = "BITMAP" => IsBitmap(v)
         /\ v.type = "JUMP" => v \in JumpValues
         /\ v.type = "LEAF" => v \in LeafValues /\ v.key \in Keys /\ Above(n, KeySymbols(v.key))
         /\ v.type = "UNUSED" => v = Unused
         /\ v.type \in {"LEAF", "BITMAP", "JUMP", "UNUSED"}
         /\ Below(n, v) # {} <=> v.type \in {"BITMAP", "JUMP"}
<1>1. n # MinLeaf
  BY NullIsNoName
<1>2. CASE v = Unused
  BY <1>2 DEF Unused, Below
<1>3. CASE v \in LeafValues
  BY <1>1, <1>3 DEF LeafValues, Below, Fits, IsBitmap, BitmapValues, Unused, JumpValues
<1>4. CASE IsBitmap(v) /\ Below(n, v) \subseteq TreeNames
  BY <1>4 DEF IsBitmap, BitmapValues, Below, HasMax
<1>5. CASE v \in JumpValues /\ Below(n, v) \subseteq TreeNames
  BY <1>5 DEF JumpValues, Below
<1> QED BY <1>1, <1>2, <1>3, <1>4, <1>5 DEF Fits

(* The children of a node lie below it.                                    *)
LEMMA BelowLonger ==
  ASSUME NEW n \in TreeNames, NEW v, Fits(n, v), NEW b \in Below(n, v)
  PROVE  b \in TreeNames /\ Above(n, b) /\ Len(n) < Len(b) /\ b # n
<1>1. n \in Seq(Nat) /\ b \in TreeNames /\ b \in Seq(Nat)
  BY BelowInside, NamesOfTree
<1>2. CASE v.type = "BITMAP"
  <2>1. PICK s \in v.children : b = Append(n, s)
    BY <1>2 DEF Below
  <2>2. s \in Nat
    BY <1>2, <2>1, BelowInside DEF IsBitmap, BitmapValues
  <2> QED BY <1>1, <2>1, <2>2, AppendPart DEF Above
<1>3. CASE v.type = "JUMP"
  <2>1. v.jump \in Seq(Nat) /\ v.jump # <<>> /\ b = n \o v.jump
    BY <1>3, BelowInside DEF JumpValues, Below
  <2>2. Len(v.jump) > 0
    BY <2>1
  <2> QED BY <1>1, <2>1, <2>2, ConcatPart DEF Above
<1> QED BY <1>2, <1>3, BelowInside

(* descend finds the child that leads to the key, whenever there is one,   *)
(* and nothing if there is none.                                           *)
LEMMA Descends ==
  ASSUME NEW c, NEW k \in Seq(Nat \ {0}), c.name \in TreeNames, Fits(c.name, c.value), Above(c.name, KeySymbols(k))
  PROVE  /\ NameBelow(c, k) # NULL => NameBelow(c, k) \in Below(c.name, c.value) /\ Above(NameBelow(c, k), KeySymbols(k))
         /\ \A b \in Below(c.name, c.value) : Above(b, KeySymbols(k)) => NameBelow(c, k) = b
         /\ NameBelow(c, k) = NULL => \A b \in Below(c.name, c.value) : ~Above(b, KeySymbols(k))
         /\ c.value.type = "LEAF" => NameBelow(c, k) = NULL
<1> DEFINE n == c.name
           v == c.value
           K == KeySymbols(k)
           l == Len(k)
<1>1. /\ n \in Seq(Nat) /\ K \in Seq(Nat) /\ l \in Nat /\ Len(K) = l + 1
      /\ n = c.name /\ v = c.value /\ K = KeySymbols(k) /\ l = Len(k)
  <2>1. c.name \in Seq(Nat)
    BY NamesOfTree
  <2>2. KeySymbols(k) \in Seq(Nat) /\ Len(KeySymbols(k)) = Len(k) + 1 /\ Len(k) \in Nat
    BY KeyParts
  <2> QED BY <2>1, <2>2
<1> HIDE DEF n, v, K, l
<1>2. \A b \in Below(n, v) : b \in TreeNames /\ b # NULL /\ Above(n, b) /\ b # n
  BY <1>1, BelowLonger, NullIsNoName
<1>3. Below(n, v) # {} => Len(n) <= l
  BY <1>1, <1>2, InnerLength
<1>4. CASE v.type = "BITMAP"
  <2>1. v.children \subseteq Nat /\ Below(n, v) = {Append(n, s) : s \in v.children} /\ Below(n, v) # {}
    <3>1. IsBitmap(v) /\ Below(n, v) # {}
      BY <1>1, <1>4, BelowInside
    <3> QED BY <1>4, <3>1 DEF IsBitmap, BitmapValues, Below
  <2>2. Head(Rest(k, n)) = K[Len(n) + 1] /\ K[Len(n) + 1] \in Nat
    BY <1>1, <1>3, <2>1, RestPart
  <2>3. NameBelow(c, k) = IF K[Len(n) + 1] \in v.children THEN Append(n, K[Len(n) + 1]) ELSE NULL
    BY <1>1, <1>4, <2>2 DEF NameBelow
  <2>4. ASSUME NEW s \in v.children PROVE Above(Append(n, s), K) <=> s = K[Len(n) + 1]
    <3>1. s \in Nat /\ Above(n, K) /\ Len(n) < Len(K)
      BY <1>1, <1>3, <2>1
    <3>2. Above(Append(n, s), K) <=> Above(n, K) /\ Len(n) < Len(K) /\ K[Len(n) + 1] = s
      BY <1>1, <3>1, AboveAppend, Zenon
    <3> QED BY <3>1, <3>2, Zenon
  <2>5. \A b \in Below(n, v) : Above(b, K) => NameBelow(c, k) = b
    BY <2>1, <2>3, <2>4
  <2>6. NameBelow(c, k) # NULL => NameBelow(c, k) \in Below(n, v) /\ Above(NameBelow(c, k), K)
    BY <2>1, <2>3, <2>4
  <2>7. v.type # "LEAF"
    BY <1>4
  <2> QED BY <1>1, <1>2, <2>5, <2>6, <2>7
<1>5. CASE v.type = "JUMP"
  <2>1. v.jump \in Seq(Nat) /\ Below(n, v) = {n \o v.jump}
    BY <1>1, <1>5, BelowInside DEF JumpValues, Below
  <2>2. NameBelow(c, k) = IF CommonLength(v.jump, Rest(k, n)) = Len(v.jump) THEN n \o v.jump ELSE NULL
    BY <1>1, <1>5 DEF NameBelow, depth_in_jump
  <2>3. CommonLength(v.jump, Rest(k, n)) = Len(v.jump) <=> Above(n \o v.jump, K)
    <3>1. Len(n) <= Len(k) /\ Above(n, KeySymbols(k))
      BY <1>1, <1>3, <2>1
    <3> QED BY <1>1, <2>1, <3>1, JumpMatches
  <2> QED BY <1>1, <1>2, <1>5, <2>1, <2>2, <2>3
<1>6. CASE v.type \notin {"BITMAP", "JUMP"}
  BY <1>1, <1>6 DEF NameBelow, Below
<1> QED BY <1>4, <1>5, <1>6

(* Two prefixes of a name in the tree are prefixes of each other.          *)
LEMMA Comparable ==
  ASSUME NEW a \in TreeNames, NEW b \in TreeNames, NEW c \in TreeNames, Above(a, c), Above(b, c)
  PROVE  Above(a, b) \/ Above(b, a)
BY AboveChain, NamesOfTree

(* Above is transitive in the tree, ...                                    *)
LEMMA TreeTrans ==
  ASSUME NEW a \in TreeNames, NEW b \in TreeNames, NEW c \in TreeNames, Above(a, b), Above(b, c)
  PROVE  Above(a, c)
BY AboveTrans, NamesOfTree

(* ... and antisymmetric.                                                  *)
LEMMA TreeBoth ==
  ASSUME NEW a \in TreeNames, NEW b \in TreeNames, Above(a, b), Above(b, a)
  PROVE  a = b
BY AboveBoth, NamesOfTree

(* New nodes N between the node e and the nodes below it.                  *)
LEMMA Grafts ==
  ASSUME NEW T \in SUBSET TreeNames, NEW O, NEW W, NEW N \in SUBSET TreeNames, NEW e \in T, Shaped(T, O),
         \A b \in O[e] : Above(e, b) /\ b # e,
         \A n \in N : Above(e, n) /\ n # e /\ \A b \in O[e] : ~Above(b, n),
         \A n \in T \ {e} : W[n] = O[n],
         \A n \in N \cup {e} : W[n] \subseteq N \cup O[e],
         \A n \in N \cup {e}, m \in N \cup O[e] : n # m /\ Above(n, m) => \E b \in W[n] : Above(b, m)
  PROVE  N \cap T = {} /\ Shaped(T \cup N, W)
<1>1. /\ \A n \in T : O[n] \subseteq T
      /\ \A n, m \in T : n # m /\ Above(n, m) => \E b \in O[n] : Above(b, m)
  BY DEF Shaped
<1>2. O[e] \subseteq T /\ O[e] \subseteq TreeNames /\ T \subseteq TreeNames /\ N \subseteq TreeNames /\ e \in TreeNames
  BY <1>1
<1>3. N \cap T = {}
  BY <1>1
<1>4. ASSUME NEW n \in T \cup N PROVE W[n] \subseteq T \cup N
  BY <1>1, <1>2
<1>5. ASSUME NEW n \in T \cup N, NEW m \in T \cup N, n # m, Above(n, m) PROVE \E b \in W[n] : Above(b, m)
  <2>1. CASE n \in T \ {e} /\ m \in T
    BY <1>1, <1>5, <2>1
  <2>2. CASE n \in N \cup {e} /\ m \in N
    BY <1>5, <2>2
  <2>3. CASE n \in T \ {e} /\ m \in N
    <3>1. Above(n, e) \/ Above(e, n)
      BY <1>2, <1>5, <2>3, Comparable
    <3>2. CASE Above(n, e)
      <4>1. PICK b \in O[n] : Above(b, e)
        BY <1>1, <2>3, <3>2
      <4>2. b \in TreeNames /\ Above(e, m) /\ b \in W[n]
        BY <1>1, <1>2, <2>3, <4>1
      <4> QED BY <1>2, <2>3, <4>1, <4>2, TreeTrans
    <3>3. CASE Above(e, n)
      <4>1. PICK b \in O[e] : Above(b, n)
        BY <1>1, <2>3, <3>3
      <4>2. Above(b, m)
        BY <1>2, <1>5, <2>3, <4>1, TreeTrans
      <4> QED BY <2>3, <4>1, <4>2
    <3> QED BY <3>1, <3>2, <3>3
  <2>4. CASE n \in N \cup {e} /\ m \in T
    <3>1. Above(e, m) /\ e # m
      <4>1. CASE n = e
        BY <1>5, <4>1
      <4>2. CASE n \in N
        <5>1. Above(e, n) /\ n # e
          BY <4>2
        <5>2. Above(e, m)
          BY <1>2, <1>5, <2>4, <4>2, <5>1, TreeTrans
        <5>3. e # m
          BY <1>2, <1>5, <4>2, <5>1, TreeBoth
        <5> QED BY <5>2, <5>3
      <4> QED BY <2>4, <4>1, <4>2
    <3>2. PICK b \in O[e] : Above(b, m)
      BY <1>1, <2>4, <3>1
    <3>3. b \in TreeNames
      BY <1>2, <3>2
    <3>4. n # b /\ Above(n, b)
      <4>1. CASE n = e
        BY <3>2, <4>1
      <4>2. CASE n \in N
        <5>1. ~Above(b, n)
          BY <3>2, <4>2
        <5>2. Above(n, b)
          BY <1>2, <1>5, <2>4, <3>2, <3>3, <4>2, <5>1, Comparable
        <5>3. Above(b, b)
          BY <3>3, AboveSelf, NamesOfTree
        <5> QED BY <5>1, <5>2, <5>3
      <4> QED BY <2>4, <4>1, <4>2
    <3>5. PICK x \in W[n] : Above(x, b)
      BY <2>4, <3>2, <3>4
    <3>6. x \in TreeNames
      BY <1>2, <2>4, <3>5
    <3> QED BY <1>2, <2>4, <3>2, <3>3, <3>5, <3>6, TreeTrans
  <2> QED BY <2>1, <2>2, <2>3, <2>4
<1> QED BY <1>3, <1>4, <1>5 DEF Shaped

(* Two ends of paths have no common place to put new nodes. *)
LEMMA Apart ==
  ASSUME NEW T \in SUBSET TreeNames, NEW O, Shaped(T, O), NEW e \in T, NEW f \in T, NEW m \in TreeNames,
         Above(e, m), \A b \in O[e] : ~Above(b, m), Above(f, m), \A b \in O[f] : ~Above(b, m)
  PROVE  e = f
<1>1. SUFFICES ASSUME e # f PROVE FALSE
  OBVIOUS
<1>2. Above(e, f) \/ Above(f, e)
  BY Comparable
<1>3. O[e] \subseteq TreeNames /\ O[f] \subseteq TreeNames
  BY DEF Shaped
<1>4. ASSUME NEW x \in T, NEW y \in T, x # y, Above(x, y), Above(y, m), O[x] \subseteq TreeNames, \A b \in O[x] : ~Above(b, m) PROVE FALSE
  <2>1. PICK b \in O[x] : Above(b, y)
    BY <1>4 DEF Shaped
  <2> QED BY <1>4, <2>1, TreeTrans
<1> QED BY <1>1, <1>2, <1>3, <1>4

-----------------------------------------------------------------------------
(* The split of a leaf. *)

(* The fork of two keys is their longest common prefix; both go on after   *)
(* it with different symbols.                                              *)
LEMMA ForkPart ==
  ASSUME NEW a \in Keys, NEW b \in Keys, a # b, NEW e \in TreeNames, Above(e, KeySymbols(a)), Above(e, KeySymbols(b))
  PROVE  LET f == Fork(a, b)
         IN  /\ f \in Seq(Nat) /\ Len(f) \in Nat /\ Len(f) < Len(KeySymbols(a)) /\ Len(f) < Len(KeySymbols(b))
             /\ Above(f, KeySymbols(a)) /\ Above(f, KeySymbols(b)) /\ Above(e, f)
             /\ KeySymbols(a)[Len(f) + 1] # KeySymbols(b)[Len(f) + 1]
             /\ KeySymbols(a)[Len(f) + 1] \in Nat /\ KeySymbols(b)[Len(f) + 1] \in Nat
             /\ f \in TreeNames
<1> DEFINE A == KeySymbols(a)
           B == KeySymbols(b)
           d == CommonLength(A, B)
           f == Fork(a, b)
<1>1. A \in Seq(Nat) /\ B \in Seq(Nat) /\ e \in Seq(Nat) /\ Above(e, A) /\ Above(e, B)
  BY KeysAreSequences, NamesOfTree
<1>2. f = SubSeq(A, 1, d)
  BY DEF Fork
<1>3. ~Above(A, B) /\ ~Above(B, A)
  BY KeysPart, KeysAreSequences
<1>a. Above(f, A) /\ f \in Seq(Nat) => f \in TreeNames
  BY NamesOfTree
<1> HIDE DEF A, B
<1>4. /\ d \in Nat /\ d <= Len(A) /\ d <= Len(B)
      /\ \A j \in 1..d : A[j] = B[j]
      /\ d < Len(A) /\ d < Len(B) => A[d + 1] # B[d + 1]
  BY <1>1, CommonPart
<1> HIDE DEF d, f
<1>5. d # Len(A) /\ d # Len(B)
  BY <1>1, <1>3, <1>4 DEF Above
<1>6. d < Len(A) /\ d < Len(B) /\ d \in 0..Len(A)
  BY <1>1, <1>4, <1>5
<1>7. f \in Seq(Nat) /\ Len(f) = d /\ Above(f, A) /\ \A x \in 1..d : f[x] = A[x]
  BY <1>1, <1>2, <1>6, AboveSubSeq
<1>8. Above(f, B)
  BY <1>1, <1>4, <1>6, <1>7 DEF Above
<1>9. Above(e, f)
  <2>1. CASE Len(e) <= Len(f)
    BY <1>1, <1>7, <2>1, AboveChain
  <2>2. CASE ~(Len(e) <= Len(f))
    <3>1. d + 1 \in 1..Len(e)
      BY <1>1, <1>4, <1>7, <2>2
    <3>2. e[d + 1] = A[d + 1] /\ e[d + 1] = B[d + 1]
      BY <1>1, <3>1 DEF Above
    <3> QED BY <1>4, <1>6, <3>2
  <2> QED BY <2>1, <2>2
<1>10. A[d + 1] \in Nat /\ B[d + 1] \in Nat
  <2>1. d + 1 \in 1..Len(A) /\ d + 1 \in 1..Len(B)
    BY <1>1, <1>4, <1>6
  <2> QED BY <1>1, <2>1
<1>11. /\ f \in Seq(Nat) /\ Len(f) \in Nat /\ Len(f) < Len(A) /\ Len(f) < Len(B)
       /\ Above(f, A) /\ Above(f, B) /\ Above(e, f)
       /\ A[Len(f) + 1] # B[Len(f) + 1] /\ A[Len(f) + 1] \in Nat /\ B[Len(f) + 1] \in Nat
       /\ f \in TreeNames
  BY <1>a, <1>4, <1>6, <1>7, <1>8, <1>9, <1>10
<1> QED BY <1>11 DEF A, B, f

(* The prefix with one more symbol.                                        *)
LEMMA NextPrefix ==
  ASSUME NEW K \in Seq(Nat), NEW f \in Seq(Nat), Above(f, K), Len(f) < Len(K)
  PROVE  LET l == SubSeq(K, 1, Len(f) + 1)
         IN  /\ l = Append(f, K[Len(f) + 1]) /\ l \in Seq(Nat) /\ Len(l) = Len(f) + 1 /\ Above(l, K)
             /\ Last(l) = K[Len(f) + 1]
<1> DEFINE s == SubSeq(K, 1, Len(f) + 1)
           x == K[Len(f) + 1]
           l == Append(f, x)
<1>1. Len(f) + 1 \in 0..Len(K) /\ Len(f) + 1 \in 1..Len(K)
  OBVIOUS
<1>2. x \in Nat
  BY <1>1
<1>3. l \in Seq(Nat) /\ Len(l) = Len(f) + 1
  BY <1>2, AppendPart
<1>4. Above(l, K)
  BY <1>2, AboveAppend
<1>5. l[Len(f) + 1] = x
  BY <1>2, AppendPart
<1> HIDE DEF l
<1>6. l = s
  BY <1>1, <1>3, <1>4, AboveSubSeq
<1>7. Last(l) = x
  BY <1>3, <1>5 DEF Last
<1> QED BY <1>3, <1>4, <1>6, <1>7 DEF l

(* A prefix with the part that follows it is the longer prefix.            *)
LEMMA Parts ==
  ASSUME NEW f \in Seq(Nat), NEW i \in Nat, NEW j \in Nat, i <= j, j <= Len(f)
  PROVE  /\ Above(SubSeq(f, 1, i), SubSeq(f, 1, j))
         /\ SubSeq(f, 1, i) \o SubSeq(f, i + 1, j) = SubSeq(f, 1, j)
         /\ SubSeq(f, i + 1, j) \in Seq(Nat)
         /\ i # j => SubSeq(f, i + 1, j) # <<>>
<1> DEFINE p == SubSeq(f, 1, i)
           q == SubSeq(f, 1, j)
           r == SubSeq(f, i + 1, j)
<1>1. i \in 0..Len(f) /\ j \in 0..Len(f)
  OBVIOUS
<1>2. p \in Seq(Nat) /\ Len(p) = i /\ Above(p, f) /\ \A x \in 1..i : p[x] = f[x]
  BY <1>1, AboveSubSeq
<1>3. q \in Seq(Nat) /\ Len(q) = j /\ Above(q, f) /\ \A x \in 1..j : q[x] = f[x]
  BY <1>1, AboveSubSeq
<1>4. r \in Seq(Nat) /\ Len(r) = j - i /\ \A x \in 1..(j - i) : r[x] = f[i + x]
  <2>1. PICK k \in Nat : k = i + 1
    OBVIOUS
  <2>2. /\ SubSeq(f, k, j) \in Seq(Nat) /\ Len(SubSeq(f, k, j)) = j - k + 1
        /\ \A x \in 1..(j - k + 1) : SubSeq(f, k, j)[x] = f[k + x - 1]
    BY <2>1, SubSeqPart
  <2>3. r = SubSeq(f, k, j)
    BY <2>1
  <2> HIDE DEF r
  <2>4. ASSUME NEW x \in 1..(j - i) PROVE r[x] = f[i + x]
    <3>1. x \in 1..(j - k + 1) /\ k + x - 1 = i + x
      BY <2>1
    <3> QED BY <2>2, <2>3, <3>1
  <2> QED BY <2>1, <2>2, <2>3, <2>4
<1> HIDE DEF p, q, r
<1>5. Above(p, q)
  BY <1>2, <1>3, AboveChain
<1>6. p \o r \in Seq(Nat) /\ Len(p \o r) = i + (j - i)
      /\ (\A x \in 1..i : (p \o r)[x] = p[x]) /\ (\A x \in 1..(j - i) : (p \o r)[i + x] = r[x])
  <2>1. p \o r \in Seq(Nat) /\ Len(p \o r) = Len(p) + Len(r)
        /\ (\A x \in 1..Len(p) : (p \o r)[x] = p[x]) /\ (\A x \in 1..Len(r) : (p \o r)[Len(p) + x] = r[x])
    BY <1>2, <1>4, ConcatPart, Zenon
  <2> QED BY <1>2, <1>4, <2>1, Zenon
<1>7. \A x \in 1..j : (p \o r)[x] = q[x]
  <2>1. SUFFICES ASSUME NEW x \in 1..j PROVE (p \o r)[x] = q[x]
    OBVIOUS
  <2>2. CASE x <= i
    <3>1. x \in 1..i
      BY <2>2
    <3> QED BY <1>2, <1>3, <1>6, <3>1, Zenon
  <2>3. CASE x > i
    <3>1. x - i \in 1..(j - i) /\ i + (x - i) = x
      BY <2>3
    <3>2. (p \o r)[i + (x - i)] = f[i + (x - i)]
      BY <1>4, <1>6, <3>1, Zenon
    <3>3. (p \o r)[x] = f[x]
      BY <3>1, <3>2
    <3> QED BY <1>3, <3>3
  <2>4. x <= i \/ x > i
    OBVIOUS
  <2> QED BY <2>2, <2>3, <2>4, Zenon
<1>8. Len(p \o r) = j
  BY <1>6
<1>9. p \o r = q
  BY <1>3, <1>6, <1>7, <1>8, SameSeq
<1>10. i # j => r # <<>>
  BY <1>4
<1> QED BY <1>4, <1>5, <1>9, <1>10 DEF p, q, r

(* The lengths of the path nodes. *)
Stops(l, d) == {n \in l..(d - 1) : (n - l) % MAX_JUMP_SYMBOLS = 0} \cup {d}
(* The length of the path node after the one of length i.                  *)
NextStop(i, d) == Min({i + MAX_JUMP_SYMBOLS, d})

(* From one stop of a split the next is the nearest farther one.           *)
LEMMA Stations ==
  ASSUME NEW l \in Nat, NEW d \in Nat, l <= d, NEW i \in Stops(l, d), i # d
  PROVE  LET e == NextStop(i, d)
         IN  e \in Stops(l, d) /\ e > i /\ e <= d /\ e \in Nat /\ \A j \in Stops(l, d) : i < j => e <= j
<1> DEFINE J == MAX_JUMP_SYMBOLS
           S == {n \in l..(d - 1) : (n - l) % J = 0} \cup {d}
           e == Min({i + J, d})
<1>1. J \in Nat \ {0}
  BY JumpAssumption
<1>0. i \in l..(d - 1) /\ (i - l) % J = 0 /\ i \in Nat
  BY DEF Stops
<1> HIDE DEF J
<1>2. e \in {i + J, d} /\ e <= i + J /\ e <= d
  <2>1. i + J \in Nat
    BY <1>0, <1>1
  <2> QED BY <2>1, SmallerOfTwo
<1>3. e > i /\ e \in Nat
  BY <1>0, <1>1, <1>2
<1>m. ASSUME NEW x \in Nat, x % J = 0 PROVE \E q \in Nat : x = J * q
  <2>1. x = J * (x \div J)
    BY <1>0, <1>1, <1>m, SMTT(30)
  <2>2. x \div J \in Nat
    BY <1>0, <1>1, SMTT(30)
  <2> QED BY <2>1, <2>2
<1>4. PICK p \in Nat : i - l = J * p
  <2>1. PICK x \in Nat : x = i - l
    BY <1>0
  <2>2. x % J = 0
    BY <1>0, <2>1
  <2> QED BY <2>1, <2>2, <1>m
<1>5. e \in S
  <2>1. CASE e = d
    BY <2>1
  <2>2. CASE e # d
    <3>1. e = i + J /\ e \in l..(d - 1)
      BY <1>0, <1>1, <1>2, <1>3, <2>2
    <3>2. e - l = J * p + J
      BY <1>0, <1>1, <1>4, <3>1
    <3>3. J * p + J = J * (p + 1)
      BY <1>0, <1>1, SMTT(30)
    <3>4. PICK q \in Nat : q = p + 1
      OBVIOUS
    <3>5. (J * q) % J = 0
      BY <1>0, <1>1, SMTT(30)
    <3> QED BY <3>1, <3>2, <3>3, <3>4, <3>5
  <2> QED BY <2>1, <2>2
<1>6. ASSUME NEW j \in S, i < j PROVE e <= j
  <2>1. CASE j = d
    BY <1>2, <2>1
  <2>2. CASE j # d
    <3>1. j \in l..(d - 1) /\ (j - l) % J = 0
      BY <2>2
    <3>2. PICK q \in Nat : j - l = J * q
      <4>1. PICK x \in Nat : x = j - l
        BY <3>1
      <4>2. x % J = 0
        BY <3>1, <4>1
      <4>3. \E q \in Nat : x = J * q
        BY <4>2, <1>m
      <4> QED BY <4>1, <4>3
    <3>3. J * p < J * q
      BY <1>0, <1>4, <1>6, <3>1, <3>2
    <3>4. J * p + J <= J * q
      BY <1>0, <1>1, <3>3, SMTT(30)
    <3>5. i + J <= j
      <4>1. PICK x \in Nat, y \in Nat : x = J * p /\ y = J * q
        BY <1>0, <1>1, <1>4, <3>1, <3>2
      <4> QED BY <1>0, <1>1, <1>4, <3>1, <3>2, <3>4, <4>1
    <3> QED BY <1>0, <1>1, <1>2, <3>1, <3>5
  <2> QED BY <2>1, <2>2
<1> HIDE DEF e, S
<1> QED BY <1>2, <1>3, <1>5, <1>6 DEF e, S, J, Stops, NextStop

(* The two leaves of a split lie right below the fork, next to each other, *)
(* and neither below the other.                                            *)
LEMMA LeavesApart ==
  ASSUME NEW a \in Keys, NEW b \in Keys, a # b, NEW e \in TreeNames, Above(e, KeySymbols(a)), Above(e, KeySymbols(b))
  PROVE  LET f == Fork(a, b)
             la == LeafBelow(f, a)
             lb == LeafBelow(f, b)
         IN  /\ la = Append(f, Last(la)) /\ lb = Append(f, Last(lb)) /\ Last(la) \in Nat /\ Last(lb) \in Nat
             /\ la # lb /\ la \in TreeNames /\ lb \in TreeNames
             /\ Len(la) = Len(f) + 1 /\ Len(lb) = Len(f) + 1
             /\ Above(la, KeySymbols(a)) /\ Above(lb, KeySymbols(b))
             /\ Above(f, la) /\ Above(f, lb) /\ ~Above(la, lb) /\ ~Above(lb, la)
             /\ MinimalLeaf(a, b) \in {la, lb} /\ {MinimalLeaf(a, b), MaximalLeaf(a, b)} = {la, lb}
             /\ {Last(MinimalLeaf(a, b)), Last(MaximalLeaf(a, b))} = {Last(la), Last(lb)}
             /\ MaximalLeaf(a, b) \in {la, lb}
<1> DEFINE f == Fork(a, b)
           A == KeySymbols(a)
           B == KeySymbols(b)
           la == LeafBelow(f, a)
           lb == LeafBelow(f, b)
<1>1. /\ f \in Seq(Nat) /\ Len(f) \in Nat /\ Len(f) < Len(A) /\ Len(f) < Len(B)
      /\ Above(f, A) /\ Above(f, B) /\ Above(e, f)
      /\ A[Len(f) + 1] # B[Len(f) + 1]
      /\ A[Len(f) + 1] \in Nat /\ B[Len(f) + 1] \in Nat
      /\ f \in TreeNames
  BY ForkPart
<1>2. A \in Seq(Nat) /\ B \in Seq(Nat)
  BY KeysAreSequences
<1>3. la = SubSeq(A, 1, Len(f) + 1) /\ lb = SubSeq(B, 1, Len(f) + 1)
  BY DEF LeafBelow
<1>a. ASSUME NEW n \in Seq(Nat) PROVE Above(n, A) \/ Above(n, B) => n \in TreeNames
  BY NamesOfTree
<1>b. \/ MinimalLeaf(a, b) = la /\ MaximalLeaf(a, b) = lb
      \/ MinimalLeaf(a, b) = lb /\ MaximalLeaf(a, b) = la
  BY DEF MinimalLeaf, MaximalLeaf, Smaller, Larger
<1> HIDE DEF A, B, f, la, lb
<1>4. la = Append(f, A[Len(f) + 1]) /\ la \in Seq(Nat) /\ Len(la) = Len(f) + 1 /\ Above(la, A) /\ Last(la) = A[Len(f) + 1]
  BY <1>1, <1>2, <1>3, NextPrefix
<1>5. lb = Append(f, B[Len(f) + 1]) /\ lb \in Seq(Nat) /\ Len(lb) = Len(f) + 1 /\ Above(lb, B) /\ Last(lb) = B[Len(f) + 1]
  BY <1>1, <1>2, <1>3, NextPrefix
<1>6. la # lb
  BY <1>1, <1>4, <1>5
<1>7. ~Above(la, lb) /\ ~Above(lb, la)
  <2>1. Len(la) = Len(lb) /\ Len(la) \in Nat
    BY <1>1, <1>4, <1>5
  <2>2. ASSUME Above(la, lb) PROVE FALSE
    <3>1. Len(la) < Len(lb)
      BY <1>4, <1>5, <1>6, <2>2, AboveLonger, Zenon
    <3> QED BY <2>1, <3>1
  <2>3. ASSUME Above(lb, la) PROVE FALSE
    <3>1. Len(lb) < Len(la)
      BY <1>4, <1>5, <1>6, <2>3, AboveLonger, Zenon
    <3> QED BY <2>1, <3>1
  <2> QED BY <2>2, <2>3
<1>8. Above(f, la) /\ Above(f, lb)
  <2>1. Len(f) <= Len(la) /\ Len(f) <= Len(lb)
    BY <1>1, <1>4, <1>5
  <2>2. Above(f, la)
    BY <1>1, <1>2, <1>4, <2>1, AboveChain, Zenon
  <2>3. Above(f, lb)
    BY <1>1, <1>2, <1>5, <2>1, AboveChain, Zenon
  <2> QED BY <2>2, <2>3
<1>9. /\ la = Append(f, Last(la)) /\ lb = Append(f, Last(lb)) /\ Last(la) \in Nat /\ Last(lb) \in Nat
      /\ la # lb /\ la \in TreeNames /\ lb \in TreeNames
      /\ Len(la) = Len(f) + 1 /\ Len(lb) = Len(f) + 1
      /\ Above(la, A) /\ Above(lb, B)
      /\ Above(f, la) /\ Above(f, lb) /\ ~Above(la, lb) /\ ~Above(lb, la)
  BY <1>1, <1>4, <1>5, <1>6, <1>7, <1>8, <1>a
<1>10. /\ MinimalLeaf(a, b) \in {la, lb} /\ {MinimalLeaf(a, b), MaximalLeaf(a, b)} = {la, lb}
       /\ {Last(MinimalLeaf(a, b)), Last(MaximalLeaf(a, b))} = {Last(la), Last(lb)}
       /\ MaximalLeaf(a, b) \in {la, lb}
  BY <1>b
<1> QED BY <1>9, <1>10 DEF A, B, f, la, lb

(* The nodes from a split leaf to the fork connect its name with the two   *)
(* leaves: a node of the split lies below another exactly if one of the    *)
(* children of that other leads to it.                                     *)
LEMMA PathNodesPart ==
  ASSUME NEW c, NEW key, NEW a, a = c.value.key, NEW e, e = c.name, a \in Keys, key \in Keys, a # key,
         e \in TreeNames, Above(e, KeySymbols(a)), Above(e, KeySymbols(key))
  PROVE  LET f == Fork(a, key)
             P == PathNodes(c, key)
             la == LeafBelow(f, a)
             lb == LeafBelow(f, key)
         IN  /\ e \in DOMAIN P /\ DOMAIN P \subseteq TreeNames
             /\ \A n \in DOMAIN P : /\ Above(e, n) /\ Above(n, f) /\ Fits(n, P[n]) /\ P[n].type \in {"BITMAP", "JUMP"}
                                    /\ Below(n, P[n]) \subseteq DOMAIN P \cup {la, lb}
                                    /\ e \notin Below(n, P[n])
                                    /\ \A m \in DOMAIN P \cup {la, lb} :
                                         n # m /\ Above(n, m) => \E b \in Below(n, P[n]) : Above(b, m)
<1> DEFINE f == Fork(a, key)
           d == Len(f)
           l == Len(e)
           min == MinimalLeaf(a, key)
           max == MaximalLeaf(a, key)
           la == LeafBelow(f, a)
           lb == LeafBelow(f, key)
           St == Stops(l, d)
           at(i) == SubSeq(f, 1, i)
           P == PathNodes(c, key)
           D == {at(i) : i \in St}
<1>1. /\ f \in Seq(Nat) /\ d \in Nat /\ d = Len(f) /\ Above(e, f) /\ f \in TreeNames
  BY ForkPart
<1>2. /\ la = Append(f, Last(la)) /\ lb = Append(f, Last(lb)) /\ Last(la) \in Nat /\ Last(lb) \in Nat
      /\ la # lb /\ la \in TreeNames /\ lb \in TreeNames /\ Len(la) = d + 1 /\ Len(lb) = d + 1
      /\ Above(f, la) /\ Above(f, lb) /\ ~Above(la, lb) /\ ~Above(lb, la)
      /\ {min, max} = {la, lb} /\ {Last(min), Last(max)} = {Last(la), Last(lb)} /\ max \in {la, lb}
  BY LeavesApart
<1>3. P = [n \in D |-> IF n = f THEN Bitmap({Last(min), Last(max)}, max)
                       ELSE Jump(SubSeq(f, Len(n) + 1, JumpEnd(Len(n), f)), max)]
  BY DEF PathNodes, PathStarts, Stops
<1>4. e \in Seq(Nat) /\ l \in Nat /\ l = Len(e) /\ l <= d
  BY <1>1, NamesOfTree DEF Above
<1>j. ASSUME NEW i \in Nat PROVE JumpEnd(i, f) = NextStop(i, d)
  BY DEF JumpEnd, NextStop
<1>m. MAX_JUMP_SYMBOLS \in Nat \ {0}
  BY JumpAssumption
<1>5. \A i \in St : i \in l..d
  BY <1>1, <1>4 DEF Stops
<1>6. l \in St
  <2>1. (l - l) % MAX_JUMP_SYMBOLS = 0
    BY <1>m, <1>4, SMTT(30)
  <2> QED BY <1>1, <1>4, <2>1 DEF Stops
<1> HIDE DEF f, d, l, la, lb, min, max, P
<1>7. ASSUME NEW i \in l..d PROVE /\ at(i) \in Seq(Nat) /\ Len(at(i)) = i /\ Above(at(i), f) /\ at(i) \in TreeNames
  <2>1. i \in 0..Len(f)
    BY <1>1, <1>4
  <2>2. at(i) \in Seq(Nat) /\ Len(at(i)) = i /\ Above(at(i), f)
    BY <1>1, <2>1, AboveSubSeq
  <2> QED BY <1>1, <2>2, NamesClosed
<1>8. at(d) = f /\ at(l) = e
  <2>1. d \in 0..Len(f) /\ l \in 0..Len(f)
    BY <1>1, <1>4
  <2> QED BY <1>1, <1>4, <2>1, AboveSubSeq, AboveSelf
<1>9. ASSUME NEW i \in l..d, NEW j \in l..d, i <= j PROVE Above(at(i), at(j)) /\ at(i) \o SubSeq(f, i + 1, j) = at(j)
      /\ SubSeq(f, i + 1, j) \in Seq(Nat) /\ (i # j => SubSeq(f, i + 1, j) # <<>>)
  <2>1. i \in Nat /\ j \in Nat /\ j <= Len(f)
    BY <1>1, <1>4
  <2> QED BY <1>1, <1>9, <2>1, Parts
<1>10. ASSUME NEW i \in St, i # d
       PROVE  LET j == JumpEnd(i, f)
              IN  /\ j \in St /\ j > i /\ \A k \in St : i < k => j <= k
                  /\ P[at(i)] = Jump(SubSeq(f, i + 1, j), max) /\ at(i) # f
                  /\ SubSeq(f, i + 1, j) \in Seq(Nat) \ {<<>>} /\ Below(at(i), P[at(i)]) = {at(j)}
  <2>1. i \in Nat /\ i \in l..d
    BY <1>1, <1>4, <1>5
  <2>2. PICK j : j = JumpEnd(i, f)
    OBVIOUS
  <2>3. j = NextStop(i, d)
    BY <1>j, <2>1, <2>2
  <2>4. j \in St /\ j > i /\ j <= d /\ j \in Nat /\ \A k \in St : i < k => j <= k
    <3>1. LET x == NextStop(i, d)
          IN  x \in St /\ x > i /\ x <= d /\ x \in Nat /\ \A k \in St : i < k => x <= k
      BY <1>1, <1>4, <1>10, Stations, Zenon
    <3> QED BY <2>3, <3>1, Zenon
  <2>5. i \in l..d /\ j \in l..d /\ i <= j /\ i # j
    BY <1>5, <2>1, <2>4
  <2>6. at(i) # f /\ Len(at(i)) = i
    BY <1>1, <1>7, <1>10, <2>5
  <2>7. P[at(i)] = Jump(SubSeq(f, i + 1, j), max)
    BY <1>3, <2>2, <2>6
  <2>8. at(i) \o SubSeq(f, i + 1, j) = at(j) /\ SubSeq(f, i + 1, j) \in Seq(Nat) \ {<<>>}
    BY <1>9, <2>5
  <2>9. Below(at(i), P[at(i)]) = {at(i) \o SubSeq(f, i + 1, j)}
    BY <2>7 DEF Below, Jump
  <2> QED BY <2>2, <2>4, <2>6, <2>7, <2>8, <2>9
<1>11. P[f] = Bitmap({Last(min), Last(max)}, max) /\ Below(f, P[f]) = {la, lb}
  <2>1. f \in D
    BY <1>8 DEF Stops
  <2>2. P[f] = Bitmap({Last(min), Last(max)}, max)
    BY <1>3, <2>1
  <2>3. Below(f, P[f]) = {Append(f, s) : s \in {Last(min), Last(max)}}
    BY <2>2 DEF Below, Bitmap
  <2> QED BY <1>2, <2>2, <2>3
<1>12. DOMAIN P = D
  BY <1>3
<1>13. e \in D /\ D \subseteq TreeNames
  BY <1>5, <1>6, <1>7, <1>8
<1>14. ASSUME NEW n \in D
       PROVE  /\ Above(e, n) /\ Above(n, f) /\ Fits(n, P[n]) /\ P[n].type \in {"BITMAP", "JUMP"}
              /\ Below(n, P[n]) \subseteq D \cup {la, lb}
              /\ e \notin Below(n, P[n])
              /\ \A m \in D \cup {la, lb} : n # m /\ Above(n, m) => \E b \in Below(n, P[n]) : Above(b, m)
  <2>1. PICK i \in St : n = at(i)
    OBVIOUS
  <2>2. i \in l..d /\ l \in l..d /\ l <= i
    BY <1>4, <1>5
  <2>3. Above(e, n) /\ Above(n, f)
    BY <1>7, <1>8, <1>9, <2>1, <2>2
  <2>n. n # MinLeaf
    BY <1>13, NullIsNoName
  <2>4. CASE i = d
    <3>1. n = f
      BY <1>8, <2>1, <2>4
    <3>2. IsBitmap(P[n]) /\ P[n].type = "BITMAP"
      <4>1. {Last(la), Last(lb)} \subseteq Nat /\ HasMax({Last(la), Last(lb)})
        <5>1. PICK x \in Nat, y \in Nat : x = Last(la) /\ y = Last(lb)
          BY <1>2
        <5>2. HasMax({x, y})
          BY DEF HasMax
        <5> QED BY <5>1, <5>2
      <4>2. max \in TreeNames
        BY <1>2
      <4>3. P[n] = Bitmap({Last(la), Last(lb)}, max)
        BY <1>2, <1>11, <3>1
      <4> QED BY <4>1, <4>2, <4>3 DEF IsBitmap, BitmapValues, Bitmap
    <3>3. Below(n, P[n]) = {la, lb}
      BY <1>11, <3>1
    <3>4. Fits(n, P[n])
      BY <1>2, <2>n, <3>2, <3>3 DEF Fits
    <3>5. e \notin {la, lb}
      <4>1. l # d + 1
        BY <1>1, <1>4
      <4> QED BY <1>2, <1>4, <4>1
    <3>6. ASSUME NEW m \in D \cup {la, lb}, n # m, Above(n, m) PROVE m \in {la, lb} /\ Above(m, m)
      <4>1. CASE m \in D
        <5>1. PICK j \in St : m = at(j)
          BY <4>1
        <5>2. j \in l..d
          BY <1>5
        <5>3. m \in TreeNames /\ Above(m, f)
          BY <1>7, <5>1, <5>2
        <5> QED BY <1>1, <3>1, <3>6, <5>3, TreeBoth
      <4>2. CASE m \in {la, lb}
        BY <1>2, <4>2, AboveSelf, NamesOfTree
      <4> QED BY <4>1, <4>2
    <3> QED BY <2>3, <3>2, <3>3, <3>4, <3>5, <3>6
  <2>5. CASE i # d
    <3>1. PICK j : j = JumpEnd(i, f)
      OBVIOUS
    <3>2. /\ j \in St /\ j > i /\ \A k \in St : i < k => j <= k
          /\ P[n] = Jump(SubSeq(f, i + 1, j), max) /\ n # f
          /\ SubSeq(f, i + 1, j) \in Seq(Nat) \ {<<>>} /\ Below(n, P[n]) = {at(j)}
      BY <1>10, <2>1, <2>5, <3>1
    <3>3. j \in l..d /\ at(j) \in D /\ at(j) \in TreeNames
      BY <1>5, <1>7, <3>2
    <3>4. P[n] \in JumpValues /\ P[n].type = "JUMP"
      <4>1. max \in TreeNames
        BY <1>2
      <4> QED BY <3>2, <4>1 DEF Jump, JumpValues
    <3>5. Fits(n, P[n])
      BY <2>n, <3>2, <3>3, <3>4 DEF Fits
    <3>6. e # at(j)
      <4>1. Len(at(j)) = j /\ j # l
        BY <1>4, <1>7, <2>2, <3>2, <3>3
      <4> QED BY <1>4, <4>1
    <3>7. ASSUME NEW m \in D \cup {la, lb}, n # m, Above(n, m) PROVE Above(at(j), m)
      <4>1. CASE m \in D
        <5>1. PICK k \in St : m = at(k)
          BY <4>1
        <5>2. k \in l..d /\ Len(m) = k /\ Len(n) = i
          BY <1>5, <1>7, <2>1, <2>2, <5>1
        <5>3. n \in Seq(Nat) /\ m \in Seq(Nat)
          BY <1>7, <2>1, <2>2, <5>1, <5>2
        <5>4. i < k
          BY <3>7, <5>2, <5>3, AboveLonger
        <5>5. j <= k
          BY <3>2, <5>4
        <5> QED BY <1>9, <3>3, <5>1, <5>2, <5>5
      <4>2. CASE m \in {la, lb}
        <5>1. Above(f, m) /\ m \in TreeNames
          BY <1>2, <4>2
        <5>2. Above(at(j), f)
          BY <1>7, <3>3
        <5> QED BY <1>1, <3>3, <5>1, <5>2, TreeTrans
      <4> QED BY <4>1, <4>2
    <3> QED BY <2>3, <3>2, <3>3, <3>4, <3>5, <3>6, <3>7
  <2> QED BY <2>4, <2>5
<1> HIDE DEF D
<1> QED BY <1>12, <1>13, <1>14 DEF P, la, lb, f

(* The nodes a leaf is split into connect its name with those of the two  *)
(* leaves.                                                                 *)
SplitsLeaf(c, new) ==
  LET S == SplitNodes(c, new)
      N == DOMAIN S
      head == PathNodes(c, new.key)[c.name]
  IN  /\ N \subseteq TreeNames /\ c.name \notin N
      /\ MinimalLeaf(c.value.key, new.key) \in N
      /\ Fits(c.name, head) /\ head.type \in {"BITMAP", "JUMP"}
      /\ Below(c.name, head) \subseteq N
      /\ \A m \in N : Above(c.name, m) /\ \E b \in Below(c.name, head) : Above(b, m)
      /\ \A n \in N : /\ Fits(n, S[n]) /\ S[n].type \in {"LEAF", "BITMAP", "JUMP"}
                      /\ Below(n, S[n]) \subseteq N
                      /\ \A m \in N : n # m /\ Above(n, m) => \E b \in Below(n, S[n]) : Above(b, m)
                      /\ S[n].type = "LEAF" => \/ S[n].key = c.value.key /\ S[n].kv = c.value.kv
                                               \/ S[n].key = new.key /\ S[n].kv = new.value
      /\ \E n \in N : S[n].type = "LEAF" /\ S[n].key = c.value.key
      /\ \E n \in N : S[n].type = "LEAF" /\ S[n].key = new.key

(* The nodes split_leaf adds connect the old name with the old leaf and    *)
(* the new one.                                                            *)
LEMMA LeafSplit ==
  ASSUME NEW c, NEW new, c.name \in TreeNames, c.value \in LeafValues, c.value.key \in Keys,
         Above(c.name, KeySymbols(c.value.key)), Above(c.name, KeySymbols(new.key)),
         new.key \in Keys, new.value \in Values, new.key # c.value.key
  PROVE  SplitsLeaf(c, new)
<1> DEFINE a == c.value.key
           b == new.key
           e == c.name
           f == Fork(a, b)
           la == LeafBelow(f, a)
           lb == LeafBelow(f, b)
           L == SplitLeaves(c.value, new)
           P == PathNodes(c, b)
           S == SplitNodes(c, new)
           N == DOMAIN S
           min == MinimalLeaf(a, b)
           max == MaximalLeaf(a, b)
<1>1. a = c.value.key /\ e = c.name /\ b = new.key /\ a \in Keys /\ b \in Keys /\ a # b /\ e \in TreeNames
      /\ Above(e, KeySymbols(a)) /\ Above(e, KeySymbols(b))
  OBVIOUS
<1> HIDE DEF a, b, e
<1>2. /\ f \in Seq(Nat) /\ Len(f) \in Nat /\ Above(e, f) /\ f \in TreeNames
  BY <1>1, ForkPart
<1>3. /\ la # lb /\ la \in TreeNames /\ lb \in TreeNames
      /\ Len(la) = Len(f) + 1 /\ Len(lb) = Len(f) + 1
      /\ Above(la, KeySymbols(a)) /\ Above(lb, KeySymbols(b))
      /\ Above(f, la) /\ Above(f, lb) /\ ~Above(la, lb) /\ ~Above(lb, la)
      /\ min \in {la, lb} /\ {min, max} = {la, lb} /\ max \in {la, lb}
  BY <1>1, LeavesApart
<1>4. /\ e \in DOMAIN P /\ DOMAIN P \subseteq TreeNames
      /\ \A n \in DOMAIN P : /\ Above(e, n) /\ Above(n, f) /\ Fits(n, P[n]) /\ P[n].type \in {"BITMAP", "JUMP"}
                             /\ Below(n, P[n]) \subseteq DOMAIN P \cup {la, lb}
                             /\ e \notin Below(n, P[n])
                             /\ \A m \in DOMAIN P \cup {la, lb} :
                                  n # m /\ Above(n, m) => \E x \in Below(n, P[n]) : Above(x, m)
  BY <1>1, PathNodesPart
<1>5. S = [n \in DOMAIN L \cup (DOMAIN P \ {e}) |-> IF n \in DOMAIN L THEN L[n] ELSE P[n]]
  BY <1>1 DEF SplitNodes
<1>6. /\ DOMAIN L = {la, lb}
      /\ L[la] = Leaf(a, c.value.kv, IF la = min THEN max ELSE c.value.next_leaf)
      /\ L[lb] = Leaf(b, new.value, IF lb = min THEN max ELSE c.value.next_leaf)
  <2>1. L = [n \in {min, max} |-> IF n = la THEN Leaf(a, c.value.kv, IF n = min THEN max ELSE c.value.next_leaf)
                                  ELSE Leaf(b, new.value, IF n = min THEN max ELSE c.value.next_leaf)]
    BY <1>1 DEF SplitLeaves
  <2> HIDE DEF L, la, lb, min, max
  <2> QED BY <1>3, <2>1
<1>7. c.value.kv \in Values \cup {NULL} /\ c.value.next_leaf \in TreeNames \cup {NULL} /\ new.value \in Values
  BY DEF LeafValues
<1> HIDE DEF f, la, lb, L, P, S, min, max
<1>8. \A n \in DOMAIN P : n \notin {la, lb} /\ ~Above(la, n) /\ ~Above(lb, n)
  <2>1. SUFFICES ASSUME NEW n \in DOMAIN P, NEW x \in {la, lb}, Above(x, n) PROVE FALSE
    BY <1>3, <1>4, AboveSelf, NamesOfTree
  <2>2. n \in Seq(Nat) /\ x \in Seq(Nat) /\ Above(n, f)
    BY <1>3, <1>4, NamesOfTree
  <2>3. Len(x) <= Len(n) /\ Len(n) <= Len(f) /\ Len(x) = Len(f) + 1
    BY <1>3, <2>1, <2>2 DEF Above
  <2> QED BY <1>2, <2>2, <2>3
<1>9. N = {la, lb} \cup (DOMAIN P \ {e}) /\ S[la] = L[la] /\ S[lb] = L[lb] /\ \A n \in DOMAIN P \ {e} : S[n] = P[n]
  <2>1. N = {la, lb} \cup (DOMAIN P \ {e})
    BY <1>5, <1>6
  <2>2. S[la] = L[la] /\ S[lb] = L[lb]
    BY <1>5, <1>6
  <2>3. ASSUME NEW n \in DOMAIN P \ {e} PROVE S[n] = P[n]
    <3>1. n \notin DOMAIN L
      BY <1>6, <1>8, <2>3
    <3> QED BY <1>5, <3>1
  <2> QED BY <2>1, <2>2, <2>3
<1>10. /\ S[la].type = "LEAF" /\ S[la].key = a /\ S[la].kv = c.value.kv /\ S[la] \in LeafValues
       /\ S[lb].type = "LEAF" /\ S[lb].key = b /\ S[lb].kv = new.value /\ S[lb] \in LeafValues
  <2>1. ASSUME NEW x \in BOOLEAN PROVE (IF x THEN max ELSE c.value.next_leaf) \in TreeNames \cup {NULL}
    BY <1>3, <1>7
  <2>2. ASSUME NEW k \in Keys, NEW v \in Values \cup {NULL}, NEW n \in TreeNames \cup {NULL}
        PROVE  Leaf(k, v, n).type = "LEAF" /\ Leaf(k, v, n).key = k /\ Leaf(k, v, n).kv = v /\ Leaf(k, v, n) \in LeafValues
    BY DEF Leaf, LeafValues
  <2>3. (IF la = min THEN max ELSE c.value.next_leaf) \in TreeNames \cup {NULL}
        /\ (IF lb = min THEN max ELSE c.value.next_leaf) \in TreeNames \cup {NULL}
    BY <1>3, <1>7
  <2> QED BY <1>1, <1>6, <1>7, <1>9, <2>2, <2>3
<1> HIDE DEF N
<1>11. N \subseteq TreeNames /\ e \notin N /\ min \in N /\ la \in N /\ lb \in N
  BY <1>3, <1>4, <1>8, <1>9
<1>12. Fits(e, P[e]) /\ P[e].type \in {"BITMAP", "JUMP"} /\ Below(e, P[e]) \subseteq N
  BY <1>4, <1>9
<1>13. ASSUME NEW m \in N PROVE Above(e, m) /\ \E x \in Below(e, P[e]) : Above(x, m)
  <2>1. Above(e, m)
    BY <1>1, <1>2, <1>3, <1>4, <1>9, TreeTrans
  <2>2. m \in DOMAIN P \cup {la, lb} /\ m # e
    BY <1>9, <1>11
  <2> QED BY <1>4, <2>1, <2>2
<1>14. ASSUME NEW n \in N
       PROVE /\ Fits(n, S[n]) /\ S[n].type \in {"LEAF", "BITMAP", "JUMP"}
             /\ Below(n, S[n]) \subseteq N
             /\ \A m \in N : n # m /\ Above(n, m) => \E x \in Below(n, S[n]) : Above(x, m)
             /\ S[n].type = "LEAF" => \/ S[n].key = a /\ S[n].kv = c.value.kv
                                      \/ S[n].key = b /\ S[n].kv = new.value
  <2>1. CASE n \in DOMAIN P \ {e}
    <3>1. S[n] = P[n] /\ S[n].type # "LEAF"
      BY <1>4, <1>9, <2>1
    <3>2. Below(n, S[n]) \subseteq N
      BY <1>4, <1>9, <2>1, <3>1
    <3>3. \A m \in N : m \in DOMAIN P \cup {la, lb}
      BY <1>9
    <3> QED BY <1>4, <2>1, <3>1, <3>2, <3>3
  <2>2. CASE n \in {la, lb}
    <3>1. Below(n, S[n]) = {}
      BY <1>10, <2>2 DEF Below
    <3>2. Fits(n, S[n])
      BY <1>1, <1>3, <1>10, <2>2 DEF Fits
    <3>3. ASSUME NEW m \in N, n # m, Above(n, m) PROVE FALSE
      BY <1>3, <1>8, <1>9, <2>2, <3>3
    <3> QED BY <1>10, <2>2, <3>1, <3>2, <3>3
  <2> QED BY <1>9, <2>1, <2>2
<1>15. (\E n \in N : S[n].type = "LEAF" /\ S[n].key = a) /\ (\E n \in N : S[n].type = "LEAF" /\ S[n].key = b)
  BY <1>10, <1>11
<1> QED BY <1>11, <1>12, <1>13, <1>14, <1>15 DEF a, b, e, N, S, P, min, SplitsLeaf

-----------------------------------------------------------------------------
(* The split of a jump node. *)

(* The names of the nodes a jump node is split into. *)
LEMMA JumpNames ==
  ASSUME NEW e \in Seq(Nat), NEW u \in Seq(Nat), NEW d \in Nat, d < Len(u)
  PROVE  LET p == SubSeq(u, 1, d)
             B == e \o p
             T == Append(B, u[d + 1])
             r == SubSeq(u, d + 2, Len(u))
         IN  /\ u[d + 1] \in Nat /\ p \in Seq(Nat) /\ (d # 0 => p # <<>>)
             /\ B \in Seq(Nat) /\ T \in Seq(Nat) /\ e \o u \in Seq(Nat)
             /\ Above(e, B) /\ Above(B, T) /\ Above(T, e \o u)
             /\ (d = 0 => B = e) /\ (d # 0 => B # e) /\ B # T
             /\ d + 1 < Len(u) => r \in Seq(Nat) /\ r # <<>> /\ T \o r = e \o u /\ T # e \o u
             /\ ~(d + 1 < Len(u)) => T = e \o u
<1> DEFINE p == SubSeq(u, 1, d)
           B == e \o p
           x == u[d + 1]
           T == Append(B, x)
           r == SubSeq(u, d + 2, Len(u))
           w == e \o u
<1>1. PICK le \in Nat, lu \in Nat : le = Len(e) /\ lu = Len(u)
  OBVIOUS
<1>2. d < lu /\ d \in 0..Len(u) /\ d + 1 \in 1..Len(u) /\ d + 1 \in 1..lu
  BY <1>1
<1>3. p \in Seq(Nat) /\ Len(p) = d /\ \A i \in 1..d : p[i] = u[i]
  BY <1>2, AboveSubSeq
<1>4. x \in Nat
  BY <1>2
<1>5. /\ w \in Seq(Nat) /\ Len(w) = le + lu
      /\ (\A i \in 1..le : w[i] = e[i]) /\ (\A i \in 1..lu : w[le + i] = u[i])
  <2>1. /\ w \in Seq(Nat) /\ Len(w) = Len(e) + Len(u)
        /\ (\A i \in 1..Len(e) : w[i] = e[i]) /\ (\A i \in 1..Len(u) : w[Len(e) + i] = u[i])
    BY ConcatPart, Zenon
  <2> QED BY <1>1, <2>1, Zenon
<1> HIDE DEF p, w
<1>6. /\ B \in Seq(Nat) /\ Len(B) = le + d
      /\ (\A i \in 1..le : B[i] = e[i])
  <2>1. /\ B \in Seq(Nat) /\ Len(B) = Len(e) + Len(p)
        /\ (\A i \in 1..Len(e) : B[i] = e[i])
    BY <1>3, ConcatPart, Zenon
  <2> QED BY <1>1, <1>3, <2>1, Zenon
<1>7. Above(e, w) /\ Above(e, B)
  <2>1. le <= le + lu /\ le <= le + d
    BY <1>1
  <2> QED BY <1>1, <1>5, <1>6, <2>1 DEF Above
<1>8. Above(B, w)
  <2>1. Len(e) + Len(p) <= Len(w)
    BY <1>1, <1>2, <1>3, <1>5
  <2>2. \A i \in 1..d : i \in 1..lu
    BY <1>1, <1>2
  <2>3. \A i \in 1..Len(p) : w[Len(e) + i] = p[i]
    BY <1>1, <1>3, <1>5, <2>2, Zenon
  <2> QED BY <1>3, <1>5, <1>7, <2>1, <2>3, AboveConcat, Zenon
<1> HIDE DEF B, x
<1>9. T \in Seq(Nat) /\ Len(T) = le + d + 1 /\ Above(B, T)
  <2>1. T \in Seq(Nat) /\ Len(T) = Len(B) + 1 /\ \A i \in 1..Len(B) : T[i] = B[i]
    BY <1>4, <1>6, AppendPart, Zenon
  <2>2. Len(B) \in Nat
    BY <1>6
  <2>3. Len(B) <= Len(T)
    BY <2>1, <2>2
  <2> QED BY <1>6, <2>1, <2>3 DEF Above
<1>10. Above(T, w)
  <2>1. Len(B) < Len(w) /\ Len(B) + 1 = le + (d + 1)
    BY <1>1, <1>2, <1>5, <1>6
  <2>2. w[Len(B) + 1] = x
    <3>1. w[le + (d + 1)] = u[d + 1]
      BY <1>2, <1>5, Zenon
    <3> QED BY <2>1, <3>1 DEF x
  <2> QED BY <1>4, <1>5, <1>6, <1>8, <2>1, <2>2, AboveAppend, Zenon
<1> HIDE DEF T
<1>11. (d = 0 => B = e) /\ (d # 0 => B # e) /\ B # T
  <2>1. d = 0 => Len(B) = Len(e)
    BY <1>1, <1>6
  <2>2. d = 0 => B = e
    <3>1. d = 0 => \A i \in 1..Len(B) : B[i] = e[i]
      BY <1>1, <1>6, <2>1
    <3> QED BY <1>6, <2>1, <3>1, SameSeq, Zenon
  <2>3. d # 0 => Len(B) # Len(e)
    BY <1>1, <1>6
  <2>4. Len(B) # Len(T)
    BY <1>1, <1>6, <1>9
  <2> QED BY <2>2, <2>3, <2>4
<1>12. ASSUME ~(d + 1 < Len(u)) PROVE T = w
  <2>1. Len(T) = Len(w)
    BY <1>1, <1>2, <1>5, <1>9, <1>12
  <2>2. \A i \in 1..Len(T) : T[i] = w[i]
    BY <1>10 DEF Above
  <2> QED BY <1>5, <1>9, <2>1, <2>2, SameSeq, Zenon
<1>13. ASSUME d + 1 < Len(u) PROVE r \in Seq(Nat) /\ r # <<>> /\ T \o r = w /\ T # w
  <2>1. PICK k \in Nat : k = d + 1
    OBVIOUS
  <2>2. r = SubSeq(u, k + 1, Len(u)) /\ k < Len(u)
    BY <1>13, <2>1
  <2> HIDE DEF r
  <2>3. r \in Seq(Nat) /\ Len(r) = Len(u) - k /\ \A i \in 1..(Len(u) - k) : r[i] = u[k + i]
    <3>1. /\ SubSeq(u, k + 1, Len(u)) \in Seq(Nat) /\ Len(SubSeq(u, k + 1, Len(u))) = Len(u) - k
          /\ \A i \in 1..(Len(u) - k) : SubSeq(u, k + 1, Len(u))[i] = u[k + i]
      BY <2>2, TailPart
    <3> QED BY <2>2, <3>1
  <2>4. Len(T) + Len(r) = Len(w) /\ Len(T) # Len(w) /\ Len(r) # 0 /\ Len(r) \in Nat
    <3>1. Len(T) = le + d + 1 /\ Len(w) = le + lu
      BY <1>5, <1>9
    <3>2. Len(r) = lu - k /\ k < lu /\ k = d + 1
      BY <1>1, <2>1, <2>2, <2>3
    <3> QED BY <1>1, <2>1, <3>1, <3>2
  <2>5. ASSUME NEW i \in 1..Len(r) PROVE w[Len(T) + i] = r[i]
    <3>1. k + i \in 1..lu /\ le + (k + i) = Len(T) + i /\ i \in 1..(Len(u) - k)
      BY <1>1, <1>9, <2>1, <2>2, <2>3
    <3>2. w[le + (k + i)] = u[k + i] /\ r[i] = u[k + i]
      BY <1>5, <2>3, <3>1, Zenon
    <3> QED BY <3>1, <3>2
  <2>6. Len(T) + Len(r) <= Len(w)
    BY <1>1, <1>5, <2>4
  <2>7. Above(T \o r, w)
    BY <1>5, <1>9, <1>10, <2>3, <2>5, <2>6, AboveConcat, Zenon
  <2>8. T \o r \in Seq(Nat) /\ Len(T \o r) = Len(T) + Len(r)
    BY <1>9, <2>3, ConcatPart, Zenon
  <2>9. T \o r = w
    <3>1. \A i \in 1..Len(T \o r) : (T \o r)[i] = w[i]
      BY <2>7 DEF Above
    <3>2. Len(T \o r) = Len(w)
      BY <2>4, <2>8, Zenon
    <3> QED BY <1>5, <2>8, <3>1, <3>2, SameSeq, Zenon
  <2>10. r # <<>>
    BY <2>4
  <2>11. T # w
    BY <2>4
  <2> QED BY <2>3, <2>9, <2>10, <2>11
<1>14. d # 0 => p # <<>>
  BY <1>3
<1> HIDE DEF r
<1>15. /\ x \in Nat /\ p \in Seq(Nat) /\ (d # 0 => p # <<>>)
       /\ B \in Seq(Nat) /\ T \in Seq(Nat) /\ w \in Seq(Nat)
       /\ Above(e, B) /\ Above(B, T) /\ Above(T, w)
       /\ (d = 0 => B = e) /\ (d # 0 => B # e) /\ B # T
       /\ d + 1 < Len(u) => r \in Seq(Nat) /\ r # <<>> /\ T \o r = w /\ T # w
       /\ ~(d + 1 < Len(u)) => T = w
  BY <1>3, <1>4, <1>5, <1>6, <1>7, <1>9, <1>10, <1>11, <1>12, <1>13, <1>14
<1> QED BY <1>15 DEF x, p, B, T, r, w

(* What JumpSplit says of the nodes a jump node is split into.             *)
SplitsJump(c, ch, d) ==
  LET S == JumpSplitNodes(c, d)
      N == DOMAIN S
      head == SplitHead(c, d)
  IN  /\ N \subseteq TreeNames /\ c.name \notin N
      /\ Fits(c.name, head) /\ head.type \in {"BITMAP", "JUMP"}
      /\ Below(c.name, head) \subseteq N \cup {ch} /\ c.name \notin Below(c.name, head)
      /\ \A m \in N : Above(c.name, m) /\ ~Above(ch, m)
      /\ \A m \in N \cup {ch} : \E b \in Below(c.name, head) : Above(b, m)
      /\ \A n \in N : /\ Fits(n, S[n]) /\ S[n].type \in {"BITMAP", "JUMP"}
                      /\ Below(n, S[n]) \subseteq N \cup {ch}
                      /\ \A m \in N \cup {ch} : n # m /\ Above(n, m) => \E b \in Below(n, S[n]) : Above(b, m)
      /\ IF d = 0 THEN BitmapName(c, d) = c.name /\ head = SplitBitmap(c, d)
         ELSE /\ BitmapName(c, d) \in N /\ S[BitmapName(c, d)] = SplitBitmap(c, d)
              /\ Below(c.name, head) = {BitmapName(c, d)}
      /\ Above(BitmapName(c, d), ch) /\ Above(c.name, BitmapName(c, d))
      /\ Append(BitmapName(c, d), c.value.jump[d + 1]) \in N \cup {ch}
      /\ SplitBitmap(c, d) = Bitmap({c.value.jump[d + 1]}, c.value.max_leaf)
      /\ Fits(BitmapName(c, d), SplitBitmap(c, d)) /\ BitmapName(c, d) \in TreeNames
      /\ Below(BitmapName(c, d), SplitBitmap(c, d)) \subseteq N \cup {ch}

(* The nodes split_jump_node adds connect the old name with what was below *)
(* the jump node and with the new leaf.                                    *)
LEMMA JumpSplit ==
  ASSUME NEW c, c.name \in TreeNames, c.value \in JumpValues, NEW ch, ch = c.name \o c.value.jump, ch \in TreeNames,
         NEW d \in Nat, d < Len(c.value.jump)
  PROVE  SplitsJump(c, ch, d)
<1> DEFINE e == c.name
           u == c.value.jump
           x == u[d + 1]
           p == SubSeq(u, 1, d)
           B == e \o p
           T == Append(B, x)
           r == SubSeq(u, d + 2, Len(u))
           S == JumpSplitNodes(c, d)
           N == DOMAIN S
           head == SplitHead(c, d)
           max == c.value.max_leaf
           tail == d + 1 < Len(u)
<1>1. e \in Seq(Nat) /\ u \in Seq(Nat) /\ max \in TreeNames /\ e \in TreeNames /\ ch = e \o u
      /\ d < Len(u) /\ ch \in TreeNames
  BY NamesOfTree DEF JumpValues
<1>2. /\ BitmapName(c, d) = B /\ TailName(c, d) = T /\ Append(BitmapName(c, d), c.value.jump[d + 1]) = T
      /\ e = c.name /\ max = c.value.max_leaf /\ x = c.value.jump[d + 1]
  BY DEF BitmapName, TailName
<1>3. head = IF d = 0 THEN Bitmap({x}, max) ELSE Jump(p, max)
  BY DEF SplitHead, SplitBitmap
<1>4. /\ N = (IF d = 0 THEN {} ELSE {B}) \cup (IF tail THEN {T} ELSE {})
      /\ \A n \in N : S[n] = IF n = B THEN Bitmap({x}, max) ELSE Jump(r, max)
      /\ SplitBitmap(c, d) = Bitmap({x}, max)
  BY DEF JumpSplitNodes, HasTail, SplitBitmap, SplitTail, BitmapName, TailName
<1> HIDE DEF u, e, max, S, N, head
<1>5. /\ x \in Nat /\ p \in Seq(Nat) /\ (d # 0 => p # <<>>)
      /\ B \in Seq(Nat) /\ T \in Seq(Nat) /\ ch \in Seq(Nat)
      /\ Above(e, B) /\ Above(B, T) /\ Above(T, ch)
      /\ (d = 0 => B = e) /\ (d # 0 => B # e) /\ B # T
      /\ tail => r \in Seq(Nat) /\ r # <<>> /\ T \o r = ch /\ T # ch
      /\ ~tail => T = ch
  <2>1. /\ x \in Nat /\ p \in Seq(Nat) /\ (d # 0 => p # <<>>)
        /\ B \in Seq(Nat) /\ T \in Seq(Nat) /\ e \o u \in Seq(Nat)
        /\ Above(e, B) /\ Above(B, T) /\ Above(T, e \o u)
        /\ (d = 0 => B = e) /\ (d # 0 => B # e) /\ B # T
        /\ tail => r \in Seq(Nat) /\ r # <<>> /\ T \o r = e \o u /\ T # e \o u
        /\ ~tail => T = e \o u
    BY <1>1, JumpNames
  <2> QED BY <1>1, <2>1
<1>6. Below(B, Bitmap({x}, max)) = {T} /\ Below(e, Jump(p, max)) = {B} /\ Below(T, Jump(r, max)) = {T \o r}
  BY DEF Below, Bitmap, Jump
<1> HIDE DEF x, p, B, T, r, tail
<1>7. /\ T \in TreeNames /\ B \in TreeNames /\ e # MinLeaf /\ B # MinLeaf /\ T # MinLeaf
  <2>1. T \in TreeNames
    BY <1>1, <1>5, NamesClosed
  <2>2. B \in TreeNames
    BY <1>5, <2>1, NamesClosed
  <2> QED BY <1>1, <2>1, <2>2, NullIsNoName
<1>8. Above(e, T) /\ Above(B, ch) /\ Above(e, ch)
  BY <1>1, <1>5, <1>7, TreeTrans
<1>9. /\ ~Above(T, B) /\ ~Above(T, e) /\ ~Above(ch, B) /\ (d # 0 => ~Above(B, e)) /\ (tail => ~Above(ch, T))
      /\ ~Above(ch, e)
  <2>1. ~Above(T, B) /\ (d # 0 => ~Above(B, e)) /\ (tail => ~Above(ch, T))
    BY <1>1, <1>5, <1>7, TreeBoth
  <2>2. ~Above(ch, B)
    BY <1>1, <1>5, <1>7, <2>1, TreeTrans
  <2>3. ~Above(T, e)
    BY <1>1, <1>5, <1>7, <2>1, TreeTrans
  <2>4. ~Above(ch, e)
    BY <1>1, <1>5, <1>7, <2>2, TreeTrans
  <2> QED BY <2>1, <2>2, <2>3, <2>4
<1>10. Above(e, e) /\ Above(B, B) /\ Above(T, T) /\ Above(ch, ch)
  BY <1>1, <1>5, AboveSelf
<1>11. IsBitmap(Bitmap({x}, max)) /\ Bitmap({x}, max).type = "BITMAP" /\ Fits(B, Bitmap({x}, max))
  <2>1. IsBitmap(Bitmap({x}, max)) /\ Bitmap({x}, max).type = "BITMAP"
    BY <1>1, <1>5 DEF IsBitmap, BitmapValues, Bitmap, HasMax
  <2> QED BY <1>6, <1>7, <2>1 DEF Fits
<1>12. ASSUME NEW s \in Seq(Nat), s # <<>> PROVE Jump(s, max) \in JumpValues /\ Jump(s, max).type = "JUMP"
  BY <1>1, <1>12 DEF JumpValues, Jump
<1>13. d # 0 => Fits(e, Jump(p, max)) /\ Jump(p, max).type = "JUMP"
  BY <1>5, <1>6, <1>7, <1>12 DEF Fits
<1>14. tail => Fits(T, Jump(r, max)) /\ Jump(r, max).type = "JUMP" /\ Below(T, Jump(r, max)) = {ch}
  BY <1>1, <1>5, <1>6, <1>7, <1>12 DEF Fits
<1>15. T \in N \cup {ch}
  BY <1>4, <1>5
<1>16. Fits(e, head) /\ head.type \in {"BITMAP", "JUMP"} /\ Below(e, head) = IF d = 0 THEN {T} ELSE {B}
  BY <1>3, <1>5, <1>6, <1>11, <1>13
<1>17. N \subseteq TreeNames /\ e \notin N
  BY <1>4, <1>5, <1>7, <1>9, <1>10
<1>18. \A m \in N : Above(e, m) /\ ~Above(ch, m)
  BY <1>4, <1>5, <1>8, <1>9
<1>19. Below(e, head) \subseteq N \cup {ch} /\ e \notin Below(e, head)
  <2>1. Below(e, head) \subseteq N \cup {ch}
    BY <1>4, <1>15, <1>16
  <2>2. e # T
    BY <1>9, <1>10
  <2> QED BY <1>5, <1>16, <2>1, <2>2
<1>20. \A m \in N \cup {ch} : \E b \in Below(e, head) : Above(b, m)
  BY <1>4, <1>5, <1>8, <1>10, <1>16
<1>21. ASSUME NEW n \in N
       PROVE  /\ Fits(n, S[n]) /\ S[n].type \in {"BITMAP", "JUMP"}
              /\ Below(n, S[n]) \subseteq N \cup {ch}
              /\ \A m \in N \cup {ch} : n # m /\ Above(n, m) => \E b \in Below(n, S[n]) : Above(b, m)
  <2>1. CASE n = B
    <3>1. S[n] = Bitmap({x}, max) /\ Below(n, S[n]) = {T}
      BY <1>4, <1>6, <2>1
    <3>2. \A m \in N \cup {ch} : n # m => Above(T, m)
      BY <1>4, <1>5, <1>10, <2>1
    <3> QED BY <1>11, <1>15, <2>1, <3>1, <3>2
  <2>2. CASE n = T /\ tail
    <3>1. S[n] = Jump(r, max) /\ Below(n, S[n]) = {ch}
      BY <1>4, <1>5, <1>14, <2>2
    <3>2. \A m \in N \cup {ch} : n # m /\ Above(n, m) => m = ch
      BY <1>4, <1>9, <2>2
    <3> QED BY <1>10, <1>14, <2>2, <3>1, <3>2
  <2> QED BY <1>4, <2>1, <2>2
<1>22. IF d = 0 THEN B = e /\ head = Bitmap({x}, max)
       ELSE B \in N /\ S[B] = Bitmap({x}, max) /\ Below(e, head) = {B}
  BY <1>3, <1>4, <1>5, <1>16
<1>23. Below(B, Bitmap({x}, max)) \subseteq N \cup {ch}
  BY <1>6, <1>15
<1> QED BY <1>2, <1>4, <1>5, <1>7, <1>8, <1>11, <1>15, <1>16, <1>17, <1>18, <1>19, <1>20, <1>21, <1>22, <1>23 DEF N, S, head, SplitsJump

-----------------------------------------------------------------------------
(* Nodes and paths. *)

(* What the operations on nodes do. *)
LEMMA WritesNode ==
  ASSUME NEW ns \in NodeMaps, NEW n \in Names, NEW v \in NodeValues
  PROVE  LET w == WriteNode(ns, n, v)
         IN  /\ w \in NodeMaps
             /\ w[n].value = v /\ w[n].seq = ns[n].seq + 1 /\ w[n].lock = ns[n].lock
             /\ \A m \in Names \ {n} : w[m] = ns[m]
<1>1. /\ DOMAIN ns = Names /\ ns[n].seq \in Nat /\ ns[n].lock \in Threads \cup {NULL}
      /\ ns[n] = [value |-> ns[n].value, seq |-> ns[n].seq, lock |-> ns[n].lock]
  BY DEF NodeMaps
<1>2. WriteNode(ns, n, v) = [ns EXCEPT ![n] = [value |-> v, seq |-> ns[n].seq + 1, lock |-> ns[n].lock]]
  <2> DEFINE w == [ns EXCEPT ![n].value = v, ![n].seq = @ + 1]
             x == [ns EXCEPT ![n] = [value |-> v, seq |-> ns[n].seq + 1, lock |-> ns[n].lock]]
  <2>1. DOMAIN w = Names /\ DOMAIN x = Names
    BY <1>1
  <2>2. w[n] = [ns[n] EXCEPT !.value = v, !.seq = @ + 1]
    BY <1>1
  <2>3. w[n] = x[n]
    BY <1>1, <2>2
  <2>4. \A m \in Names : m # n => w[m] = x[m]
    BY <1>1
  <2>5. w = x
    BY <1>1, <2>1, <2>3, <2>4
  <2> QED BY <2>5 DEF WriteNode
<1>3. [value |-> v, seq |-> ns[n].seq + 1, lock |-> ns[n].lock] \in [value : NodeValues, seq : Nat, lock : Threads \cup {NULL}]
  BY <1>1
<1> QED BY <1>1, <1>2, <1>3 DEF NodeMaps

(* LockNodes locks the nodes it is given and nothing else.                 *)
LEMMA LocksNodes ==
  ASSUME NEW ns \in NodeMaps, NEW t \in Threads, NEW S \in SUBSET Names
  PROVE  LET w == LockNodes(ns, t, S)
         IN  /\ w \in NodeMaps
             /\ \A n \in Names : w[n].value = ns[n].value /\ w[n].seq = ns[n].seq
             /\ \A n \in S : w[n].lock = t
             /\ \A n \in Names \ S : w[n] = ns[n]
BY DEF LockNodes, NodeMaps

(* release_all_locks releases the locks of the thread and nothing else.    *)
LEMMA ReleasesLocks ==
  ASSUME NEW ns \in NodeMaps, NEW t \in Threads
  PROVE  LET w == release_all_locks(ns, t)
         IN  /\ w \in NodeMaps
             /\ \A n \in Names : w[n].value = ns[n].value /\ w[n].seq = ns[n].seq
             /\ \A n \in Names : ns[n].lock = t => w[n].lock = NULL
             /\ \A n \in Names : ns[n].lock # t => w[n] = ns[n]
BY DEF release_all_locks, NodeMaps

(* AddNodes writes the nodes it is given, locked, and nothing else.        *)
LEMMA AddsNodes ==
  ASSUME NEW ns \in NodeMaps, NEW t \in Threads, NEW new, \A n \in DOMAIN new : new[n] \in NodeValues,
         DOMAIN new \subseteq Names
  PROVE  LET w == AddNodes(ns, t, new)
         IN  /\ w \in NodeMaps
             /\ \A n \in DOMAIN new : w[n].value = new[n] /\ w[n].seq = ns[n].seq + 1 /\ w[n].lock = t
             /\ \A n \in Names \ DOMAIN new : w[n] = ns[n]
BY DEF AddNodes, NodeMaps

(* What a node is made of.                                                 *)
LEMMA NodeIs ==
  ASSUME NEW ns \in NodeMaps, NEW n \in Names
  PROVE  /\ ns[n].value \in NodeValues /\ ns[n].seq \in Nat /\ ns[n].lock \in Threads \cup {NULL}
         /\ ns[n] = [value |-> ns[n].value, seq |-> ns[n].seq, lock |-> ns[n].lock]
BY DEF NodeMaps

(* What fits a name is the value of a node.                                *)
LEMMA FitsIsValue ==
  ASSUME NEW n, NEW v, Fits(n, v)
  PROVE  v \in NodeValues
BY DEF Fits, NodeValues, IsBitmap

(* A free cell is none of the nodes.                                       *)
LEMMA UnusedKind == Unused \notin LeafValues /\ Unused \notin BitmapValues /\ Unused \notin JumpValues /\ Unused.type = "UNUSED"
BY DEF Unused, LeafValues, BitmapValues, JumpValues

(* What the kind of a node tells about its value.                          *)
LEMMA Kinds ==
  ASSUME NEW n \in Names, NEW v, Fits(n, v)
  PROVE  /\ v.type = "BITMAP" => IsBitmap(v) /\ Below(n, v) \subseteq TreeNames
         /\ v.type = "JUMP" => v \in JumpValues /\ Below(n, v) \subseteq TreeNames
         /\ v.type = "LEAF" => v \in LeafValues /\ Below(n, v) = {}
         /\ v.type = "UNUSED" => v = Unused /\ Below(n, v) = {}
         /\ v.type \in {"LEAF", "BITMAP", "JUMP", "UNUSED"}
         /\ v # Unused => v.type \in {"LEAF", "BITMAP", "JUMP"}
         /\ n = MinLeaf => v.type = "LEAF"
         /\ n # MinLeaf /\ v.type = "LEAF" => v.key \in Keys /\ Above(n, KeySymbols(v.key))
<1>1. CASE v = Unused /\ n # MinLeaf
  BY <1>1 DEF Unused, Below
<1>2. CASE v \in LeafValues /\ (n = MinLeaf \/ (v.key \in Keys /\ Above(n, KeySymbols(v.key))))
  BY <1>2 DEF LeafValues, Below, Unused
<1>3. CASE IsBitmap(v) /\ n # MinLeaf /\ Below(n, v) \subseteq TreeNames
  BY <1>3 DEF IsBitmap, BitmapValues, Unused
<1>4. CASE v \in JumpValues /\ n # MinLeaf /\ Below(n, v) \subseteq TreeNames
  BY <1>4 DEF JumpValues, Unused
<1> QED BY <1>1, <1>2, <1>3, <1>4 DEF Fits

(* The changes of a value that keep the node where it is. *)
LEMMA ChangedLeaf ==
  ASSUME NEW n \in Names, NEW v, Fits(n, v), v.type = "LEAF"
  PROVE  /\ \A d \in BOOLEAN : LET w == [v EXCEPT !.dirty = d]
              IN  /\ Fits(n, w) /\ w.type = "LEAF" /\ w.key = v.key /\ w.kv = v.kv /\ w.next_leaf = v.next_leaf
                  /\ w \in NodeValues /\ w # Unused
         /\ \A l \in TreeNames : LET w == [v EXCEPT !.next_leaf = l]
              IN  /\ Fits(n, w) /\ w.type = "LEAF" /\ w.key = v.key /\ w.kv = v.kv
                  /\ w \in NodeValues /\ w # Unused
         /\ \A x \in Values : LET w == [v EXCEPT !.kv = x]
              IN  /\ Fits(n, w) /\ w.type = "LEAF" /\ w.key = v.key /\ w.kv = x
                  /\ w \in NodeValues /\ w # Unused
<1>1. v \in LeafValues /\ (n # MinLeaf => v.key \in Keys /\ Above(n, KeySymbols(v.key)))
  BY Kinds
<1>2. ASSUME NEW w \in LeafValues, w.key = v.key PROVE Fits(n, w) /\ w \in NodeValues /\ w # Unused
  BY <1>1, <1>2, UnusedKind DEF Fits, NodeValues
<1>3. /\ \A d \in BOOLEAN : [v EXCEPT !.dirty = d] \in LeafValues
      /\ \A l \in TreeNames : [v EXCEPT !.next_leaf = l] \in LeafValues
      /\ \A x \in Values : [v EXCEPT !.kv = x] \in LeafValues
  BY <1>1 DEF LeafValues
<1>4. /\ \A d \in BOOLEAN : LET w == [v EXCEPT !.dirty = d]
            IN  w.type = "LEAF" /\ w.key = v.key /\ w.kv = v.kv /\ w.next_leaf = v.next_leaf
      /\ \A l \in TreeNames : LET w == [v EXCEPT !.next_leaf = l]
            IN  w.type = "LEAF" /\ w.key = v.key /\ w.kv = v.kv
      /\ \A x \in Values : LET w == [v EXCEPT !.kv = x]
            IN  w.type = "LEAF" /\ w.key = v.key /\ w.kv = x
  BY <1>1 DEF LeafValues
<1> QED BY <1>2, <1>3, <1>4

(* A new max_leaf changes neither the kind of a node nor its children.     *)
LEMMA ChangedMaxLeaf ==
  ASSUME NEW n \in Names, NEW v, Fits(n, v), v.type \in {"BITMAP", "JUMP"}, NEW l \in TreeNames
  PROVE  LET w == [v EXCEPT !.max_leaf = l]
         IN  /\ Fits(n, w) /\ w.type = v.type /\ Below(n, w) = Below(n, v) /\ w \in NodeValues /\ w # Unused
             /\ v.type = "BITMAP" => w.children = v.children
             /\ v.type = "JUMP" => w.jump = v.jump
<1>1. n # MinLeaf /\ Below(n, v) \subseteq TreeNames
  BY Kinds
<1>2. CASE v.type = "BITMAP"
  <2>1. v \in BitmapValues /\ HasMax(v.children)
    BY <1>2, Kinds DEF IsBitmap
  <2>2. [v EXCEPT !.max_leaf = l] \in BitmapValues /\ [v EXCEPT !.max_leaf = l].children = v.children
        /\ [v EXCEPT !.max_leaf = l].type = "BITMAP"
    BY <2>1 DEF BitmapValues
  <2>3. Below(n, [v EXCEPT !.max_leaf = l]) = Below(n, v)
    BY <1>2, <2>2 DEF Below
  <2> QED BY <1>1, <1>2, <2>1, <2>2, <2>3, UnusedKind DEF Fits, IsBitmap, NodeValues
<1>3. CASE v.type = "JUMP"
  <2>1. v \in JumpValues
    BY <1>3, Kinds
  <2>2. [v EXCEPT !.max_leaf = l] \in JumpValues /\ [v EXCEPT !.max_leaf = l].jump = v.jump
        /\ [v EXCEPT !.max_leaf = l].type = "JUMP"
    BY <2>1 DEF JumpValues
  <2>3. Below(n, [v EXCEPT !.max_leaf = l]) = Below(n, v)
    BY <1>3, <2>2 DEF Below
  <2> QED BY <1>1, <1>3, <2>1, <2>2, <2>3, UnusedKind DEF Fits, NodeValues
<1> QED BY <1>2, <1>3

(* The last copy on a path.                                                *)
LEMMA LastOf ==
  ASSUME NEW p \in Seq(Copies), Len(p) > 0
  PROVE  Len(p) \in Nat /\ Len(p) \in 1..Len(p) /\ Last(p) = p[Len(p)] /\ Last(p) \in Copies
BY DEF Last

(* A path with another copy at its end.                                    *)
LEMMA ReplaceLast ==
  ASSUME NEW p \in Seq(Copies), Len(p) > 0, NEW x \in Copies
  PROVE  LET q == Append(Front(p), x)
         IN  /\ q \in Seq(Copies) /\ Len(q) = Len(p) /\ q[Len(p)] = x /\ Last(q) = x
             /\ \A i \in 1..(Len(p) - 1) : q[i] = p[i]
<1> DEFINE f == Front(p)
<1>1. PICK l \in Nat : l = Len(p) /\ l > 0
  OBVIOUS
<1>2. f \in Seq(Copies) /\ Len(f) = l - 1 /\ \A i \in 1..(l - 1) : f[i] = p[i]
  BY <1>1 DEF Front
<1> HIDE DEF f
<1>3. Append(f, x) \in Seq(Copies) /\ Len(Append(f, x)) = l /\ Append(f, x)[l] = x
      /\ \A i \in 1..(l - 1) : Append(f, x)[i] = p[i]
  BY <1>1, <1>2
<1> QED BY <1>1, <1>3 DEF f, Last

(* A path with one more copy.                                              *)
LEMMA Lengthen ==
  ASSUME NEW p \in Seq(Copies), NEW x \in Copies
  PROVE  LET q == Append(p, x)
         IN  /\ q \in Seq(Copies) /\ Len(q) = Len(p) + 1 /\ q[Len(p) + 1] = x /\ Last(q) = x
             /\ \A i \in 1..Len(p) : q[i] = p[i]
BY DEF Last

(* What is known of a copy on a path.                                      *)
LEMMA AtPath ==
  ASSUME NEW ns, NEW T \in SUBSET TreeNames, NEW key, NEW p, PathOK(ns, T, key, p), NEW i \in 1..Len(p)
  PROVE  /\ p[i] \in Copies /\ p[i].name \in T /\ p[i].name \in TreeNames /\ p[i].name \in Seq(Nat) /\ p[i].name \in Names
         /\ Len(p[i].name) \in Nat
         /\ Fits(p[i].name, p[i].value) /\ p[i].value # Unused /\ Below(p[i].name, p[i].value) \subseteq T
         /\ Above(p[i].name, KeySymbols(key))
         /\ p[i].value.type \in {"LEAF", "BITMAP", "JUMP"}
<1>1. OnPath(ns, T, key, p[i]) /\ CopyIn(ns, p[i])
  BY DEF PathOK, OnPath
<1>2. p[i].name \in TreeNames /\ p[i].name \in Seq(Nat) /\ p[i].name \in Names
  BY <1>1, NamesOfTree DEF OnPath, Names
<1>3. p[i] \in Copies /\ Fits(p[i].name, p[i].value) /\ p[i].value # Unused
  BY <1>1 DEF CopyIn
<1>4. Len(p[i].name) \in Nat
  BY <1>2
<1>5. p[i].value.type \in {"LEAF", "BITMAP", "JUMP"}
  BY <1>2, <1>3, Kinds
<1> QED BY <1>1, <1>2, <1>3, <1>4, <1>5 DEF OnPath

(* Every copy on a path but the last is of an inner node, and the next     *)
(* copy is of a child of that node.                                        *)
LEMMA PathStep ==
  ASSUME NEW ns, NEW T \in SUBSET TreeNames, NEW key, NEW p, PathOK(ns, T, key, p),
         NEW i \in Nat, i >= 1, i < Len(p)
  PROVE  /\ i \in 1..Len(p) /\ i + 1 \in 1..Len(p) /\ p[i + 1].name \in Below(p[i].name, p[i].value)
         /\ p[i].value.type \in {"BITMAP", "JUMP"}
         /\ Len(p[i].name) < Len(p[i + 1].name)
<1>1. p \in Seq(Copies) /\ i \in 1..Len(p) /\ i + 1 \in 1..Len(p) /\ i \in 1..(Len(p) - 1)
  BY DEF PathOK
<1>2. p[i + 1].name \in Below(p[i].name, p[i].value)
  BY <1>1 DEF PathOK
<1>3. p[i].name \in TreeNames /\ Fits(p[i].name, p[i].value)
  BY <1>1, AtPath
<1> QED BY <1>1, <1>2, <1>3, BelowLonger, BelowInside, Zenon

(* The names on a path are one longer than the other. *)
LEMMA PathLengthens ==
  ASSUME NEW ns, NEW T \in SUBSET TreeNames, NEW key, NEW p, PathOK(ns, T, key, p),
         NEW i \in 1..Len(p), NEW j \in 1..Len(p), i < j
  PROVE  Len(p[i].name) < Len(p[j].name)
<1> DEFINE S == {x \in 1..Len(p) : i < x /\ ~(Len(p[i].name) < Len(p[x].name))}
<1>1. SUFFICES ASSUME S # {} PROVE FALSE
  OBVIOUS
<1>2. S \in SUBSET Nat
  OBVIOUS
<1> DEFINE m == Min(S)
<1>3. m \in S /\ \A x \in S : m <= x
  <2> HIDE DEF S
  <2> QED BY <1>1, <1>2, SmallestNumber
<1>4. m \in 1..Len(p) /\ i < m /\ ~(Len(p[i].name) < Len(p[m].name))
  BY <1>3
<1> HIDE DEF m
<1>5. p \in Seq(Copies)
  BY DEF PathOK
<1>6. PICK k \in Nat : k + 1 = m /\ k >= 1 /\ k < Len(p) /\ k \in 1..Len(p) /\ k >= i
  <2>1. m - 1 \in Nat /\ (m - 1) + 1 = m /\ m - 1 >= 1 /\ m - 1 < Len(p) /\ m - 1 \in 1..Len(p) /\ m - 1 >= i
    BY <1>4, <1>5
  <2> QED BY <2>1
<1>7. Len(p[k].name) < Len(p[m].name) /\ Len(p[k].name) \in Nat /\ Len(p[m].name) \in Nat /\ Len(p[i].name) \in Nat
  <2>1. Len(p[k].name) < Len(p[k + 1].name)
    BY <1>6, PathStep
  <2> QED BY <1>4, <1>6, <2>1, AtPath
<1>8. CASE k = i
  BY <1>4, <1>7, <1>8
<1>9. CASE k # i
  <2>1. k \notin S
    BY <1>3, <1>6
  <2>2. Len(p[i].name) < Len(p[k].name)
    BY <1>6, <1>9, <2>1
  <2> QED BY <1>4, <1>7, <2>2
<1> QED BY <1>8, <1>9

(* No node is on a path twice.                                             *)
LEMMA PathApart ==
  ASSUME NEW ns, NEW T \in SUBSET TreeNames, NEW key, NEW p, PathOK(ns, T, key, p),
         NEW i \in 1..Len(p), NEW j \in 1..Len(p), i # j
  PROVE  p[i].name # p[j].name
<1>1. CASE i < j
  <2>1. Len(p[i].name) < Len(p[j].name) /\ Len(p[i].name) \in Nat
    BY <1>1, PathLengthens, AtPath
  <2> QED BY <2>1
<1>2. CASE j < i
  <2>1. Len(p[j].name) < Len(p[i].name) /\ Len(p[i].name) \in Nat
    BY <1>2, PathLengthens, AtPath
  <2> QED BY <2>1
<1> QED BY <1>1, <1>2

(* The positions whose copies are locked. *)
LEMMA LockPositionsPart ==
  ASSUME NEW p \in Seq(Copies), Len(p) > 0
  PROVE  /\ LockPositions(p) \subseteq 1..Len(p) /\ Len(p) \in LockPositions(p)
BY DEF LockPositions, LeftParentsAbove

(* Where max_leaf changes the node above is locked too. *)
LEMMA PropagatesToLocked ==
  ASSUME NEW ns, NEW T \in SUBSET TreeNames, NEW key, NEW p, PathOK(ns, T, key, p), Len(p) > 0,
         NEW i \in LockPositions(p), Propagates(p, i), Last(p).value.type \in {"BITMAP", "JUMP"}
  PROVE  i - 1 \in LockPositions(p) /\ i - 1 \in 1..Len(p) /\ i \in 1..Len(p) /\ i > 1
<1> DEFINE n == Len(p)
           h == IF p[n].value.type = "BITMAP" THEN n ELSE n - 1
<1>1. p \in Seq(Copies) /\ n \in Nat /\ n > 0
  BY DEF PathOK
<1>2. i \in 1..n /\ i > 1 /\ i - 1 \in 1..n
  BY <1>1, LockPositionsPart DEF Propagates
<1>3. PICK k \in Nat : k + 1 = i /\ k >= 1 /\ k < n /\ k = i - 1
  <2>1. i - 1 \in Nat /\ (i - 1) + 1 = i /\ i - 1 >= 1 /\ i - 1 < n
    BY <1>1, <1>2
  <2> QED BY <2>1
<1>4. p[k].value.type = "JUMP" \/ last_symbol(p[k + 1]) = max_child(p[k].value)
  <2>1. /\ p[k + 1].name \in Below(p[k].name, p[k].value) /\ p[k].value.type \in {"BITMAP", "JUMP"}
        /\ Fits(p[k].name, p[k].value) /\ p[k].name \in TreeNames /\ p[k].name \in Seq(Nat)
    <3>1. k \in 1..Len(p)
      BY <1>3
    <3> QED BY <1>3, <3>1, PathStep, AtPath, Zenon
  <2>2. CASE p[k].value.type = "BITMAP"
    <3>1. IsBitmap(p[k].value)
      BY <2>1, <2>2, BelowInside, Zenon
    <3>2. PICK s \in p[k].value.children : p[k + 1].name = Append(p[k].name, s)
      BY <2>1, <2>2 DEF Below
    <3>3. p[k].value.children \subseteq Nat /\ s \in Nat /\ HasMax(p[k].value.children)
      BY <3>1 DEF IsBitmap, BitmapValues
    <3>4. last_symbol(p[k + 1]) = s
      <4>1. Last(Append(p[k].name, s)) = s
        BY <2>1, <3>3, AppendPart DEF Last
      <4> QED BY <3>2, <4>1 DEF last_symbol
    <3>5. max_child(p[k].value) >= s /\ max_child(p[k].value) \in Nat
      BY <3>3, LargestOf DEF max_child
    <3>6. s >= max_child(p[k].value)
      BY <1>3, <2>2, <3>4 DEF Propagates
    <3> QED BY <3>3, <3>4, <3>5, <3>6
  <2> QED BY <2>1, <2>2
<1>5. CASE i = n
  <2>1. Last(p) = p[n]
    BY <1>1, LastOf
  <2>2. CASE p[n].value.type = "BITMAP"
    <3>1. k \in 1..(n - 1) /\ \A x \in k..(n - 1) : x = k
      BY <1>1, <1>3, <1>5
    <3>2. k \in LeftParentsAbove(p, n)
      BY <1>4, <3>1 DEF LeftParentsAbove
    <3> QED BY <1>2, <1>3, <2>2, <3>2 DEF LockPositions
  <2>3. CASE p[n].value.type # "BITMAP"
    <3>1. k = n - 1 /\ k # 0
      BY <1>3, <1>5
    <3> QED BY <1>2, <1>3, <2>3, <3>1 DEF LockPositions
  <2> QED BY <2>2, <2>3
<1>6. CASE i # n
  <2>1. h \in Nat /\ h <= n
    BY <1>1
  <2>2. i = h \/ i \in LeftParentsAbove(p, h)
    BY <1>6 DEF LockPositions
  <2>3. i <= h
    BY <2>1, <2>2 DEF LeftParentsAbove
  <2>4. k \in 1..(h - 1)
    BY <1>3, <2>1, <2>3
  <2>5. ASSUME NEW x \in k..(h - 1) PROVE p[x].value.type = "JUMP" \/ last_symbol(p[x + 1]) = max_child(p[x].value)
    <3>1. CASE x = k
      BY <1>4, <3>1
    <3>2. CASE x # k
      <4>1. x \in i..(h - 1)
        BY <1>3, <2>1, <3>2
      <4>2. i \in LeftParentsAbove(p, h)
        BY <2>1, <2>2, <4>1
      <4> QED BY <4>1, <4>2 DEF LeftParentsAbove
    <3> QED BY <3>1, <3>2
  <2>6. k \in LeftParentsAbove(p, h)
    BY <2>4, <2>5 DEF LeftParentsAbove
  <2> QED BY <1>2, <1>3, <2>6 DEF LockPositions
<1> QED BY <1>5, <1>6

(* A path with the same names and with the same bitmap nodes above its end *)
(* has no other positions to lock, if its end stays a bitmap node or was   *)
(* none.                                                                   *)
LEMMA SameLockPositions ==
  ASSUME NEW p \in Seq(Copies), NEW q \in Seq(Copies), Len(p) > 0, Len(q) = Len(p),
         \A i \in 1..Len(p) : q[i].name = p[i].name,
         \A i \in 1..(Len(p) - 1) : /\ q[i].value.type = p[i].value.type
                                    /\ p[i].value.type = "BITMAP" => q[i].value.children = p[i].value.children,
         \A i \in 1..(Len(p) - 1) : p[i].value.type \in {"BITMAP", "JUMP"},
         p[Len(p)].value.type = "BITMAP" => q[Len(p)].value.type = "BITMAP"
  PROVE  LockPositions(q) \subseteq LockPositions(p)
<1>1. PICK n \in Nat : n = Len(p) /\ n > 0
  OBVIOUS
<1>2. ASSUME NEW j \in 1..(n - 1)
      PROVE  \/ ~(q[j].value.type = "JUMP" \/ last_symbol(q[j + 1]) = max_child(q[j].value))
             \/ p[j].value.type = "JUMP" \/ last_symbol(p[j + 1]) = max_child(p[j].value)
  <2>1. j \in 1..n /\ j + 1 \in 1..n
    BY <1>1
  <2>2. q[j + 1].name = p[j + 1].name /\ q[j].value.type = p[j].value.type
    BY <1>1, <2>1
  <2>3. CASE p[j].value.type = "BITMAP"
    <3>1. q[j].value.children = p[j].value.children
      BY <1>1, <2>3
    <3> QED BY <2>2, <2>3, <3>1 DEF last_symbol, max_child
  <2> QED BY <1>1, <2>2, <2>3
<1>3. ASSUME NEW h \in Nat, h <= n, NEW i \in LeftParentsAbove(q, h) PROVE i \in LeftParentsAbove(p, h)
  <2>1. i \in 1..(h - 1) /\ \A k \in i..(h - 1) : q[k].value.type = "JUMP" \/ last_symbol(q[k + 1]) = max_child(q[k].value)
    BY <1>3 DEF LeftParentsAbove
  <2>2. ASSUME NEW k \in i..(h - 1) PROVE p[k].value.type = "JUMP" \/ last_symbol(p[k + 1]) = max_child(p[k].value)
    <3>1. k \in 1..(n - 1)
      BY <1>1, <1>3, <2>1
    <3> QED BY <1>2, <2>1, <3>1
  <2> QED BY <2>1, <2>2 DEF LeftParentsAbove
<1>4. ASSUME NEW i \in LeftParentsAbove(p, n) PROVE i = n - 1 \/ i \in LeftParentsAbove(p, n - 1)
  <2>1. i \in 1..(n - 1) /\ \A k \in i..(n - 1) : p[k].value.type = "JUMP" \/ last_symbol(p[k + 1]) = max_child(p[k].value)
    BY <1>4 DEF LeftParentsAbove
  <2>2. CASE i # n - 1
    <3>1. i \in 1..((n - 1) - 1) /\ \A k \in i..((n - 1) - 1) : k \in i..(n - 1)
      BY <1>1, <2>1, <2>2
    <3> QED BY <2>1, <3>1 DEF LeftParentsAbove
  <2> QED BY <2>2
<1>5. CASE p[n].value.type = "BITMAP"
  <2>1. q[n].value.type = "BITMAP"
    BY <1>1, <1>5
  <2> QED BY <1>1, <1>3, <1>5, <2>1 DEF LockPositions
<1>6. CASE p[n].value.type # "BITMAP" /\ q[n].value.type = "BITMAP"
  <2>1. ASSUME NEW i \in LockPositions(q) PROVE i \in LockPositions(p)
    <3>1. i = n \/ i \in LeftParentsAbove(q, n)
      BY <1>1, <1>6 DEF LockPositions
    <3>2. CASE i \in LeftParentsAbove(q, n)
      <4>1. i \in LeftParentsAbove(p, n) /\ i \in 1..(n - 1)
        <5>1. n \in Nat /\ n <= n
          BY <1>1
        <5>2. i \in LeftParentsAbove(p, n)
          BY <1>3, <3>2, <5>1
        <5> QED BY <5>2 DEF LeftParentsAbove
      <4>2. (i = n - 1 /\ i # 0) \/ i \in LeftParentsAbove(p, n - 1)
        BY <1>1, <1>4, <4>1
      <4> QED BY <1>1, <1>6, <4>2 DEF LockPositions
    <3> QED BY <1>1, <3>1, <3>2 DEF LockPositions
  <2> QED BY <2>1
<1>7. CASE p[n].value.type # "BITMAP" /\ q[n].value.type # "BITMAP"
  <2>1. n - 1 \in Nat /\ n - 1 <= n
    BY <1>1
  <2> QED BY <1>1, <1>3, <1>7, <2>1 DEF LockPositions
<1> QED BY <1>5, <1>6, <1>7

(* find_left_descend goes to a node below one on the path. *)
LEMMA LeftDescend ==
  ASSUME NEW ns, NEW T \in SUBSET TreeNames, NEW key, NEW p, PathOK(ns, T, key, p),
         NEW i \in 1..Len(p), NEW symbol, find_left_descend(p, i, symbol) # NULL
  PROVE  find_left_descend(p, i, symbol).name \in T
<1> DEFINE left(j) == {s \in p[j].value.children : s < IF j = i THEN symbol ELSE last_symbol(p[j + 1])}
           found == {j \in 1..i : p[j].value.type = "BITMAP" /\ left(j) # {}}
           f == Max(found)
<1>1. found # {} /\ find_left_descend(p, i, symbol).name = Append(p[f].name, Max(left(f)))
  BY DEF find_left_descend
<1>2. f \in found
  <2>1. found \in SUBSET Nat /\ i \in Nat /\ \A x \in found : x <= i
    OBVIOUS
  <2> HIDE DEF found
  <2> QED BY <1>1, <2>1, BoundedHasMax, LargestOf
<1> HIDE DEF f
<1>3. f \in 1..Len(p) /\ p[f].value.type = "BITMAP" /\ left(f) # {}
  <2>1. p \in Seq(Copies)
    BY DEF PathOK
  <2> QED BY <1>2, <2>1
<1>4. left(f) \subseteq p[f].value.children
  OBVIOUS
<1> HIDE DEF left, found
<1>5. Below(p[f].name, p[f].value) \subseteq T /\ IsBitmap(p[f].value)
  BY <1>3, AtPath, BelowInside, Zenon
<1>6. p[f].value.children \subseteq Nat /\ HasMax(p[f].value.children)
  BY <1>5 DEF IsBitmap, BitmapValues
<1>7. Max(left(f)) \in left(f)
  <2>1. Max(p[f].value.children) \in Nat /\ \A x \in left(f) : x <= Max(p[f].value.children)
    BY <1>4, <1>6, LargestOf
  <2>2. left(f) \in SUBSET Nat
    BY <1>4, <1>6
  <2> QED BY <1>3, <2>1, <2>2, BoundedHasMax, LargestOf
<1> QED BY <1>1, <1>3, <1>4, <1>5, <1>7 DEF Below

-----------------------------------------------------------------------------
(* What steps leave alone. *)

(* A step of t changes nothing of another thread. *)
Same(u) ==
  /\ pc'[u] = pc[u] /\ call'[u] = call[u] /\ calls'[u] = calls[u] /\ path'[u] = path[u]
  /\ subtree'[u] = subtree[u] /\ pred'[u] = pred[u] /\ new_leaf'[u] = new_leaf[u]
  /\ level'[u] = level[u] /\ iter'[u] = iter[u]

Frame(t) == DomainInv' /\ \A u \in Threads \ {t} : Same(u)

(* A retry, ...                                                            *)
LEMMA FrameRetry ==
  ASSUME DomainInv, NEW t \in Threads, Retry(t)
  PROVE  Frame(t)
BY DEF DomainInv, Frame, Same, Retry, LocalsReset

(* ... a visited node, ...                                                 *)
LEMMA FrameVisit ==
  ASSUME DomainInv, NEW t \in Threads, NEW c, Visit(t, c)
  PROVE  /\ DOMAIN path' = Threads /\ DOMAIN call' = Threads /\ DOMAIN pc' = Threads
         /\ \A u \in Threads \ {t} : path'[u] = path[u] /\ call'[u] = call[u] /\ pc'[u] = pc[u]
BY DEF DomainInv, Visit

(* ... a positioned iterator, ...                                          *)
LEMMA FramePositioned ==
  ASSUME DomainInv, NEW t \in Threads, NEW c, Positioned(t, c)
  PROVE  Frame(t)
BY DEF DomainInv, Frame, Same, Positioned, locals

(* ... a predecessor that was found, ...                                   *)
LEMMA FrameGotPredecessor ==
  ASSUME DomainInv, NEW t \in Threads, NEW c, GotPredecessor(t, c)
  PROVE  Frame(t)
BY FramePositioned DEF DomainInv, Frame, Same, GotPredecessor

(* ... a write of the last node on the path, ...                           *)
LEMMA FrameWritePathEnd ==
  ASSUME DomainInv, NEW t \in Threads, NEW v, WritePathEnd(t, v)
  PROVE  /\ DOMAIN path' = Threads /\ DOMAIN call' = Threads
         /\ \A u \in Threads \ {t} : path'[u] = path[u] /\ call'[u] = call[u]
         /\ UNCHANGED <<calls, subtree, pred, new_leaf, iter, cursor>>
BY DEF DomainInv, WritePathEnd, Effect

(* ... and a key reported by an iterator change only the thread's own      *)
(* variables.                                                              *)
LEMMA FrameReports ==
  ASSUME DomainInv, NEW t \in Threads, NEW k, Reports(t, k)
  PROVE  /\ DOMAIN call' = Threads /\ DOMAIN pc' = Threads /\ DOMAIN cursor' = Threads
         /\ \A u \in Threads \ {t} : call'[u] = call[u] /\ pc'[u] = pc[u]
         /\ UNCHANGED <<calls, path, subtree, pred, new_leaf, level>>
BY DEF DomainInv, Reports, locals

(* So do the steps that start, end and continue a call, ...                *)
LEMMA FrameStart ==
  ASSUME DomainInv, NEW t \in Threads, Start(t) \/ Return(t) \/ descend(t)
  PROVE  Frame(t)
<1>1. CASE Start(t)
  BY <1>1 DEF DomainInv, Frame, Same, Start, locals
<1>2. CASE Return(t)
  BY <1>2 DEF DomainInv, Frame, Same, Return, LocalsReset
<1>3. CASE descend(t)
  <2>1. Visit(t, Read(NameBelow(Last(path[t]), KeyOf(t)))) /\ UNCHANGED <<calls, subtree, pred, new_leaf, level, iter, cursor>>
    BY <1>3 DEF descend
  <2> QED BY <2>1, FrameVisit DEF DomainInv, Frame, Same
<1> QED BY <1>1, <1>2, <1>3

(* ... init_finger, ...                                                    *)
LEMMA FrameInitFinger ==
  ASSUME DomainInv, NEW t \in Threads, init_finger(t)
  PROVE  Frame(t)
<1>1. /\ DOMAIN path' = Threads /\ DOMAIN call' = Threads /\ DOMAIN pc' = Threads /\ DOMAIN iter' = Threads
      /\ \A u \in Threads \ {t} : path'[u] = path[u] /\ call'[u] = call[u] /\ pc'[u] = pc[u] /\ iter'[u] = iter[u]
  <2>1. CASE EmptyTrie(t)
    BY <2>1 DEF DomainInv, EmptyTrie
  <2>2. CASE Visit(t, Read(Root)) /\ iter' = IF call[t].op \in IterCalls THEN [iter EXCEPT ![t].is_exhausted = FALSE] ELSE iter
    BY <2>2, FrameVisit DEF DomainInv
  <2> QED BY <2>1, <2>2 DEF init_finger
<1>2. UNCHANGED <<calls, subtree, pred, new_leaf, level, cursor>>
  BY DEF init_finger
<1> QED BY <1>1, <1>2 DEF DomainInv, Frame, Same

(* ... create_root, ...                                                    *)
LEMMA FrameCreateRoot ==
  ASSUME DomainInv, NEW t \in Threads, create_root(t)
  PROVE  Frame(t)
<1>1. CASE CreateRootLock(t)
  BY <1>1 DEF DomainInv, Frame, Same, CreateRootLock, locals
<1>2. CASE CreateRootWait(t)
  BY <1>2 DEF DomainInv, Frame, Same, CreateRootWait, locals
<1>3. CASE CreateRootCheck(t)
  <2>1. CASE CreateRootWrite(t)
    BY <1>3, <2>1 DEF DomainInv, Frame, Same, CreateRootCheck, CreateRootWrite, Effect, locals
  <2>2. CASE CreateRootExists(t)
    BY <1>3, <2>2 DEF DomainInv, Frame, Same, CreateRootCheck, CreateRootExists, locals
  <2> QED BY <1>3, <2>1, <2>2 DEF CreateRootCheck
<1> QED BY <1>1, <1>2, <1>3 DEF create_root

(* ... the search for the predecessor, ...                                 *)
LEMMA FramePredecessor ==
  ASSUME DomainInv, NEW t \in Threads, get_predecessor_atomic(t)
  PROVE  Frame(t)
<1>1. CASE PredecessorMinLeaf(t)
  BY <1>1, FrameRetry, FrameGotPredecessor DEF PredecessorMinLeaf
<1>2. CASE PredecessorLeaf(t)
  BY <1>2, FrameRetry, FrameGotPredecessor DEF PredecessorLeaf
<1>3. CASE PredecessorSubtree(t)
  BY <1>3 DEF DomainInv, Frame, Same, PredecessorSubtree
<1>4. CASE PredecessorMaxLeaf(t)
  BY <1>4, FrameRetry, FrameGotPredecessor DEF PredecessorMaxLeaf
<1> QED BY <1>1, <1>2, <1>3, <1>4 DEF get_predecessor_atomic

(* ... the steps of an insert, ...                                         *)
LEMMA FrameCreateLeaf ==
  ASSUME DomainInv, NEW t \in Threads, create_leaf(t)
  PROVE  Frame(t)
<1>1. CASE split_jump_node(t)
  BY <1>1, FrameRetry DEF DomainInv, Frame, Same, split_jump_node
<1>2. CASE LockPath(t)
  BY <1>2, FrameRetry DEF DomainInv, Frame, Same, LockPath, locals
<1>3. CASE LockPredecessor(t)
  BY <1>3, FrameRetry DEF DomainInv, Frame, Same, LockPredecessor
<1>4. CASE WriteHead(t)
  BY <1>4, FrameWritePathEnd DEF DomainInv, Frame, Same, WriteHead
<1>5. CASE LinkLeaves(t)
  BY <1>5 DEF DomainInv, Frame, Same, LinkLeaves
<1>6. CASE mark_bitmap_child(t)
  BY <1>6, FrameWritePathEnd DEF DomainInv, Frame, Same, mark_bitmap_child
<1>7. CASE propagate_max_leaf(t)
  BY <1>7 DEF DomainInv, Frame, Same, propagate_max_leaf
<1>8. CASE Clean(t)
  BY <1>8 DEF DomainInv, Frame, Same, Clean, LocalsReset
<1> QED BY <1>1, <1>2, <1>3, <1>4, <1>5, <1>6, <1>7, <1>8 DEF create_leaf

(* ... those of an iterator, ...                                           *)
LEMMA FrameIterate ==
  ASSUME DomainInv, NEW t \in Threads, Iterate(t)
  PROVE  Frame(t)
<1>1. CASE IterGotoFirst(t)
  BY <1>1, FramePositioned DEF IterGotoFirst
<1>2. CASE IterGotoNoBitmap(t)
  BY <1>2, FrameRetry, FramePositioned DEF DomainInv, Frame, Same, IterGotoNoBitmap, locals
<1>3. CASE IterGotoAdvance(t)
  BY <1>3, FrameRetry DEF DomainInv, Frame, Same, IterGotoAdvance, locals
<1>4. CASE IterNextCurrent(t)
  BY <1>4, FrameReports DEF DomainInv, Frame, Same, IterNextCurrent
<1>5. CASE IterNextRead(t)
  BY <1>5, FrameReports DEF DomainInv, Frame, Same, IterNextRead, locals
<1>6. CASE IterNextResynced(t)
  BY <1>6 DEF DomainInv, Frame, Same, IterNextResynced, LocalsReset
<1> QED BY <1>1, <1>2, <1>3, <1>4, <1>5, <1>6 DEF Iterate

(* ... and so every step.                                                  *)
LEMMA FrameStep ==
  ASSUME DomainInv, NEW t \in Threads, Step(t)
  PROVE  Frame(t)
<1>1. CASE SetValue(t)
  BY <1>1, FrameRetry DEF DomainInv, Frame, Same, SetValue, Effect, locals
<1> QED BY <1>1, FrameStart, FrameInitFinger, FrameCreateRoot, FramePredecessor, FrameCreateLeaf, FrameIterate DEF Step

(* A step of t leaves the nodes another thread has locked, before or after *)
(* it, alone, and a node that is written gets a new sequence number.       *)
NodeFrame(t) ==
  /\ nodes' \in NodeMaps
  /\ \A u \in Threads \ {t}, n \in Names : nodes[n].lock = u \/ nodes'[n].lock = u => nodes'[n] = nodes[n]
  /\ \A n \in Names : nodes[n].seq <= nodes'[n].seq
  /\ \A n \in Names : nodes[n].seq = nodes'[n].seq /\ (n = MinLeaf => ~is_empty) => nodes'[n].value = nodes[n].value

(* What is known of a call in a program.                                   *)
LEMMA CallsKnown ==
  ASSUME NEW c \in AllCalls
  PROVE  /\ c = [op |-> c.op, key |-> c.key, value |-> c.value]
         /\ c.op \in PutCalls \cup IterCalls \cup {"ct_update", "ct_lookup"}
         /\ c.op \notin IterCalls => c.key \in Keys
         /\ c.key \in Seq(Nat \ {0})
         /\ c.value \in Values
<1>1. c.value \in Values
  BY DEF Values
<1>2. CASE c = NextCall
  <2>1. <<>> \in Seq(Nat \ {0})
    OBVIOUS
  <2> QED BY <1>1, <1>2, <2>1 DEF NextCall, IterCalls
<1>3. CASE c # NextCall
  <2>1. PICK p \in Programs, t \in Threads : c \in ToSet(p[t])
    <3>1. PICK S \in {ToSet(p[t]) : p \in Programs, t \in Threads} : c \in S
      <4>1. c \in UNION {ToSet(p[t]) : p \in Programs, t \in Threads}
        BY <1>3 DEF AllCalls
      <4> DEFINE F == {ToSet(p[t]) : p \in Programs, t \in Threads}
      <4> HIDE DEF F
      <4>2. PICK S \in F : c \in S
        BY <4>1 DEF F
      <4> QED BY <4>2 DEF F
    <3>2. PICK p \in Programs, t \in Threads : S = ToSet(p[t])
      BY <3>1
    <3> QED BY <3>1, <3>2
  <2> QED BY <1>1, <2>1, ProgramsAssumption DEF IterCalls
<1> QED BY <1>2, <1>3

(* The root and the leaf of every key have names in the tree.              *)
LEMMA RootName ==
  ASSUME NEW k \in Keys
  PROVE  Root \in TreeNames /\ Root \in Names /\ Above(Root, KeySymbols(k)) /\ KeySymbols(k) \in TreeNames
<1>1. Root \in Seq(Nat) /\ Len(Root) = 0 /\ KeySymbols(k) \in Seq(Nat)
  BY KeysAreSequences DEF Root
<1>2. Above(Root, KeySymbols(k)) /\ Above(KeySymbols(k), KeySymbols(k))
  BY <1>1 DEF Above
<1> QED BY <1>1, <1>2, NamesOfTree DEF Names

(* A call that has a key has one of the keys.                              *)
LEMMA Caller ==
  ASSUME NEW t \in Threads, CallInv(t), pc[t] # "idle"
  PROVE  /\ call[t].op \in PutCalls \cup IterCalls \cup {"ct_update", "ct_lookup"}
         /\ call[t].key \in Seq(Nat \ {0})
         /\ call[t] = [op |-> call[t].op, key |-> call[t].key, value |-> call[t].value, ret |-> call[t].ret]
         /\ call[t].op \notin IterCalls => /\ call[t].key \in Keys /\ call[t].value \in Values
                                           /\ KeyOf(t) = call[t].key /\ Guarded(t)
                                           /\ Root \in TreeNames
<1>1. PICK c \in AllCalls : call[t] = Called(c, call[t].ret)
  BY DEF CallInv
<1>2. /\ call[t] = [op |-> c.op, key |-> c.key, value |-> c.value, ret |-> call[t].ret]
      /\ call[t].op = c.op /\ call[t].key = c.key /\ call[t].value = c.value
  BY <1>1 DEF Called
<1>3. /\ c.op \in PutCalls \cup IterCalls \cup {"ct_update", "ct_lookup"}
      /\ c.op \notin IterCalls => c.key \in Keys
      /\ c.key \in Seq(Nat \ {0})
      /\ c.value \in Values
  BY CallsKnown
<1>4. call[t].op \notin IterCalls => KeyOf(t) = call[t].key /\ Guarded(t) /\ Root \in TreeNames
  BY <1>2, <1>3, RootName DEF KeyOf, Guarded
<1> QED BY <1>2, <1>3, <1>4

(* A thread that inserts has a key of the programs.                        *)
LEMMA Writer ==
  ASSUME NEW t \in Threads, CallInv(t), pc[t] \in PutPcs \/ Locking(t)
  PROVE  /\ pc[t] # "idle" /\ call[t].op \in PutCalls /\ call[t].op \notin IterCalls
         /\ call[t].key \in Keys /\ call[t].value \in Values
         /\ KeyOf(t) = call[t].key /\ Guarded(t) /\ Root \in TreeNames
<1>1. pc[t] # "idle" /\ call[t].op \in PutCalls
  BY DEF CallInv, Locking, PutPcs
<1>2. call[t].op \notin IterCalls
  BY <1>1 DEF PutCalls, IterCalls
<1> QED BY <1>1, <1>2, Caller

(* What it means for a node to be in the trie, before and after a step.    *)
LEMMA InTrie ==
  /\ \A n : n \in Trie <=> n \in TreeNames /\ nodes[n].value # Unused /\ \A u \in Threads : n \notin Hidden(u)
  /\ \A n : n \in Trie' <=> n \in TreeNames /\ nodes'[n].value # Unused /\ \A u \in Threads : n \notin Hidden(u)'
BY DEF Trie, Used

(* The names of the nodes in the trie are names.                           *)
LEMMA TrieNames == Trie \subseteq TreeNames /\ TreeNames \subseteq Names /\ Trie \subseteq Names /\ MinLeaf \in Names
BY DEF Trie, Used, Names

(* The nodes a thread is about to connect depend on its own variables      *)
(* only.                                                                   *)
LEMMA HiddenKeeps ==
  ASSUME NEW u, Same(u)
  PROVE  Hidden(u)' = Hidden(u) /\ Putting(u)' = Putting(u) /\ NewNodes(u)' = NewNodes(u) /\ KeyOf(u)' = KeyOf(u)
BY DEF Same, Hidden, Putting, NewNodes, KeyOf

(* What a copy is made of.                                                 *)
LEMMA NamesCopied ==
  ASSUME NEW c \in Copies
  PROVE  c.name \in Names /\ c.value \in NodeValues /\ c.seq \in Nat
BY DEF Copies

(* A copy stays one of a state the node has had.                           *)
LEMMA CopyKeeps ==
  ASSUME nodes \in NodeMaps, NEW t, NodeFrame(t), NEW c, CopyIn(nodes, c), c.name = MinLeaf => ~is_empty
  PROVE  CopyIn(nodes', c)
<1>1. c.name \in Names /\ c.seq \in Nat /\ c \in Copies /\ Fits(c.name, c.value) /\ c.value # Unused
  BY NamesCopied DEF CopyIn
<1>2. nodes[c.name].seq \in Nat /\ nodes'[c.name].seq \in Nat
  BY <1>1, NodeIs DEF NodeFrame
<1>3. c.seq <= nodes'[c.name].seq /\ (c.seq = nodes'[c.name].seq => c.value = nodes'[c.name].value)
  BY <1>1, <1>2 DEF CopyIn, NodeFrame
<1> QED BY <1>1, <1>3 DEF CopyIn

(* The path of a thread stays a path while others write elsewhere and the  *)
(* trie grows.                                                             *)
LEMMA PathKeeps ==
  ASSUME nodes \in NodeMaps, NEW t, NodeFrame(t), Trie \subseteq Trie', NEW key, NEW p, PathOK(nodes, Trie, key, p)
  PROVE  PathOK(nodes', Trie', key, p)
<1>1. ASSUME NEW i \in 1..Len(p) PROVE OnPath(nodes', Trie', key, p[i])
  <2>1. OnPath(nodes, Trie, key, p[i])
    BY DEF PathOK
  <2>2. p[i].name # MinLeaf
    BY <2>1, TrieNames, NullIsNoName DEF OnPath
  <2>3. CopyIn(nodes', p[i])
    BY <2>1, <2>2, CopyKeeps DEF OnPath
  <2> QED BY <2>1, <2>3 DEF OnPath
<1> QED BY <1>1 DEF PathOK

(* A locked node stays as its owner knows it.                              *)
LEMMA OwnKeeps ==
  ASSUME NEW t \in Threads, NEW u \in Threads \ {t}, NodeFrame(t), NEW c, c.name \in Names, Owns(nodes, u, c)
  PROVE  Owns(nodes', u, c)
<1>1. nodes[c.name].lock = u
  BY DEF Owns
<1> QED BY <1>1 DEF Owns, NodeFrame

(* What a thread knows survives a step of another thread.                  *)
LEMMA OthersKeep ==
  ASSUME SharedInv, NEW t \in Threads, NEW u \in Threads \ {t}, ThreadInv(u), Same(u), NodeFrame(t), Trie \subseteq Trie'
  PROVE  ThreadInv(u)'
<1>0. nodes \in NodeMaps
  BY DEF SharedInv, NodesOK
<1>1. /\ pc'[u] = pc[u] /\ call'[u] = call[u] /\ calls'[u] = calls[u] /\ path'[u] = path[u]
      /\ subtree'[u] = subtree[u] /\ pred'[u] = pred[u] /\ new_leaf'[u] = new_leaf[u]
      /\ level'[u] = level[u] /\ iter'[u] = iter[u]
  BY DEF Same
<1>2. Hidden(u)' = Hidden(u) /\ Putting(u)' = Putting(u) /\ NewNodes(u)' = NewNodes(u) /\ KeyOf(u)' = KeyOf(u)
  BY HiddenKeeps
<1>3. /\ Locking(u)' = Locking(u) /\ WithPred(u)' = WithPred(u) /\ Guarded(u)' = Guarded(u)
  BY <1>1, <1>2 DEF Locking, WithPred, Guarded
<1>4. is_empty => pc[u] \in RestPcs \cup {"return"}
  BY DEF SharedInv, EmptyInv
<1>5. CallInv(u)'
  BY <1>1 DEF ThreadInv, CallInv
<1>6. PathInv(u)'
  BY <1>0, <1>1, <1>2, <1>3, PathKeeps DEF ThreadInv, PathInv
<1>7. PredInv(u)'
  <2>1. ASSUME pc[u] \in {"lock_pred", "head", "link", "mark", "propagate"}
        PROVE CopyIn(nodes', pred[u]) /\ pred[u].value.type = "LEAF"
    <3>1. ~is_empty
      BY <1>4, <2>1 DEF RestPcs
    <3>2. CopyIn(nodes, pred[u]) /\ pred[u].value.type = "LEAF"
      BY <2>1 DEF ThreadInv, PredInv
    <3> QED BY <1>0, <3>1, <3>2, CopyKeeps
  <2>2. ASSUME pc[u] = "max_leaf", Guarded(u)
        PROVE CopyIn(nodes', subtree[u]) /\ subtree[u].value.type \in {"BITMAP", "JUMP"}
    <3>1. ~is_empty
      BY <1>4, <2>2 DEF RestPcs
    <3>2. CopyIn(nodes, subtree[u]) /\ subtree[u].value.type \in {"BITMAP", "JUMP"}
      BY <2>2 DEF ThreadInv, PredInv
    <3> QED BY <1>0, <3>1, <3>2, CopyKeeps
  <2> QED BY <1>1, <1>3, <2>1, <2>2 DEF PredInv
<1>8. EndInv(u)'
  BY <1>1, <1>2, <1>3 DEF ThreadInv, EndInv
<1>9. HoldInv(u)'
  <2>1. ASSUME Locking(u), NEW i \in LockPositions(path[u]) PROVE Owns(nodes', u, path[u][i])
    <3>1. Owns(nodes, u, path[u][i])
      BY <2>1 DEF ThreadInv, HoldInv
    <3>2. path[u][i].name \in Names
      <4>1. Guarded(u) /\ Len(path[u]) > 0
        <5>1. Guarded(u)
          BY <2>1, Writer DEF ThreadInv
        <5>2. pc[u] \notin RestPcs \cup {"return"}
          BY <2>1 DEF Locking, RestPcs
        <5> QED BY <5>1, <5>2 DEF ThreadInv, PathInv
      <4>2. PathOK(nodes, Trie, KeyOf(u), path[u])
        BY <4>1 DEF ThreadInv, PathInv
      <4>3. path[u] \in Seq(Copies)
        BY <4>2 DEF PathOK
      <4>4. i \in 1..Len(path[u])
        BY <2>1, <4>1, <4>3, LockPositionsPart
      <4> QED BY <4>2, <4>4, TrieNames, AtPath
    <3> QED BY <3>1, <3>2, OwnKeeps
  <2>2. ASSUME WithPred(u)
        PROVE Owns(nodes', u, pred[u]) /\ pred[u].name # Last(path[u]).name /\ pred[u].name \notin Hidden(u)
    <3>1. Owns(nodes, u, pred[u]) /\ pred[u].name # Last(path[u]).name /\ pred[u].name \notin Hidden(u)
      BY <2>2 DEF ThreadInv, HoldInv
    <3>2. pred[u].name \in Names
      BY <2>2, NamesCopied DEF ThreadInv, PredInv, WithPred, CopyIn
    <3> QED BY <3>1, <3>2, OwnKeeps
  <2>3. ASSUME pc[u] = "root_check" PROVE nodes'[Root].lock = u
    <3>1. nodes[Root].lock = u
      BY <2>3 DEF ThreadInv, HoldInv
    <3>2. Root \in Names
      BY <2>3, Writer, TrieNames DEF ThreadInv, PutPcs
    <3> QED BY <3>1, <3>2 DEF NodeFrame
  <2>4. pc[u] = "propagate" => level[u] \in LockPositions(path[u])
    BY DEF ThreadInv, HoldInv
  <2> QED BY <1>1, <1>2, <1>3, <2>1, <2>2, <2>3, <2>4 DEF HoldInv
<1>10. HiddenInv(u)'
  <2>1. ASSUME NEW m \in Hidden(u) PROVE nodes'[m] = nodes[m] /\ m \in TreeNames
    <3>1. m \in TreeNames /\ nodes[m].lock = u
      BY DEF ThreadInv, HiddenInv
    <3> QED BY <3>1, TrieNames DEF NodeFrame
  <2>2. Putting(u) => NewChildName(Last(path[u]), call[u].key) \in Hidden(u)
    <3>1. SUFFICES ASSUME Putting(u) PROVE NewChildName(Last(path[u]), call[u].key) \in Hidden(u)
      OBVIOUS
    <3>2. Last(path[u]).value.type = "BITMAP"
      BY <3>1 DEF ThreadInv, EndInv, Locking, Putting
    <3> QED BY <3>1, <3>2 DEF Hidden, NewNodes, CreatedLeaf
  <2> QED BY <1>1, <1>2, <2>1, <2>2 DEF ThreadInv, HiddenInv
<1> QED BY <1>5, <1>6, <1>7, <1>8, <1>9, <1>10 DEF ThreadInv

(* A thread that is not inserting has no lock.                             *)
LEMMA Holder ==
  ASSUME SharedInv, NEW t \in Threads, ~Locking(t), pc[t] # "root_check", NEW n \in Names
  PROVE  nodes[n].lock # t
BY DEF SharedInv, ReleaseInv

(* A thread that is not linking leaves has no node to connect, ...         *)
LEMMA Nowhere ==
  ASSUME NEW t, pc[t] \notin {"head", "link", "mark"}
  PROVE  Hidden(t) = {} /\ ~Putting(t)
BY DEF Hidden, Putting

(* ... and none after a step that leads elsewhere.                         *)
LEMMA NowhereNext ==
  ASSUME NEW t, pc'[t] \notin {"head", "link", "mark"}
  PROVE  Hidden(t)' = {} /\ ~Putting(t)' /\ HiddenInv(t)'
BY DEF Hidden, Putting, HiddenInv

(* The copy at the end of the path of a thread that goes down the tree or  *)
(* has a path locked.                                                      *)
LEMMA PathEnd ==
  ASSUME SharedInv, NEW t \in Threads, ThreadInv(t), Guarded(t), pc[t] \notin RestPcs \cup {"return"}
  PROVE  LET c == Last(path[t])
         IN  /\ PathOK(nodes, Trie, KeyOf(t), path[t])
             /\ path[t] \in Seq(Copies) /\ Len(path[t]) \in Nat /\ Len(path[t]) > 0
             /\ c = path[t][Len(path[t])] /\ Len(path[t]) \in 1..Len(path[t])
             /\ c \in Copies /\ CopyIn(nodes, c) /\ OnPath(nodes, Trie, KeyOf(t), c)
             /\ c.name \in Trie /\ c.name \in TreeNames /\ c.name \in Names /\ c.name \in Seq(Nat) /\ c.name # MinLeaf
             /\ Fits(c.name, c.value) /\ c.value # Unused /\ Below(c.name, c.value) \subseteq Trie
             /\ Above(c.name, KeySymbols(KeyOf(t)))
<1>1. PathOK(nodes, Trie, KeyOf(t), path[t]) /\ Len(path[t]) > 0
  BY DEF ThreadInv, PathInv
<1>2. path[t] \in Seq(Copies)
  BY <1>1 DEF PathOK
<1>3. Len(path[t]) \in Nat /\ Len(path[t]) \in 1..Len(path[t]) /\ Last(path[t]) = path[t][Len(path[t])]
  BY <1>1, <1>2, LastOf
<1>4. OnPath(nodes, Trie, KeyOf(t), Last(path[t])) /\ CopyIn(nodes, Last(path[t]))
  BY <1>1, <1>3 DEF PathOK, OnPath
<1> DEFINE c == Last(path[t])
<1>5. /\ c \in Copies /\ c.name \in Trie /\ c.name \in TreeNames /\ c.name \in Seq(Nat) /\ c.name \in Names
      /\ Fits(c.name, c.value) /\ c.value # Unused /\ Below(c.name, c.value) \subseteq Trie
      /\ Above(c.name, KeySymbols(KeyOf(t)))
  <2>1. Trie \in SUBSET TreeNames
    BY TrieNames
  <2>2. Len(path[t]) \in 1..Len(path[t]) /\ PathOK(nodes, Trie, KeyOf(t), path[t]) /\ c = path[t][Len(path[t])]
    BY <1>1, <1>3
  <2> DEFINE i == Len(path[t])
             p == path[t]
             k == KeyOf(t)
             T == Trie
             d == p[i]
  <2> HIDE DEF c, i, p, k, T
  <2>3. T \in SUBSET TreeNames /\ i \in 1..Len(p) /\ PathOK(nodes, T, k, p) /\ c = d
    BY <2>1, <2>2 DEF T, i, p, k
  <2>4. /\ d \in Copies /\ d.name \in T /\ d.name \in TreeNames /\ d.name \in Seq(Nat) /\ d.name \in Names
        /\ Fits(d.name, d.value) /\ Below(d.name, d.value) \subseteq T
        /\ Above(d.name, KeySymbols(k)) /\ d.value.type \in {"LEAF", "BITMAP", "JUMP"}
    BY <2>3, AtPath
  <2>5. d.value # Unused
    BY <2>4, UnusedKind
  <2> QED BY <2>3, <2>4, <2>5 DEF k, T
<1>6. c.name # MinLeaf
  BY <1>5, NullIsNoName
<1> QED BY <1>1, <1>2, <1>3, <1>4, <1>5, <1>6

(* A thread that inserts has locked the node its path ends at.             *)
LEMMA Owner ==
  ASSUME SharedInv, NEW t \in Threads, ThreadInv(t), Locking(t)
  PROVE  /\ Guarded(t) /\ pc[t] \notin RestPcs \cup {"return"}
         /\ Owns(nodes, t, Last(path[t])) /\ nodes[Last(path[t]).name].lock = t
         /\ nodes[Last(path[t]).name].value = Last(path[t]).value
         /\ nodes[Last(path[t]).name].seq = Last(path[t]).seq
         /\ ~is_empty
<1>1. Guarded(t)
  BY Writer DEF ThreadInv
<1>2. pc[t] \notin RestPcs \cup {"return"}
  BY DEF Locking, RestPcs
<1>3. Len(path[t]) \in LockPositions(path[t]) /\ Last(path[t]) = path[t][Len(path[t])]
  BY <1>1, <1>2, PathEnd, LockPositionsPart
<1>4. Owns(nodes, t, Last(path[t]))
  BY <1>3 DEF ThreadInv, HoldInv
<1>5. ~is_empty
  BY <1>2 DEF SharedInv, EmptyInv
<1> QED BY <1>1, <1>2, <1>4, <1>5 DEF Owns

(* A copy that can be locked is what the node is.                          *)
LEMMA Lockable ==
  ASSUME NEW c, CopyIn(nodes, c), CanLock(c)
  PROVE  /\ nodes[c.name].lock = NULL /\ nodes[c.name].seq = c.seq /\ nodes[c.name].value = c.value
         /\ c.name \in Names
BY NamesCopied DEF CopyIn, CanLock, validate_entry

(* NULL is no thread.                                                      *)
LEMMA NoThread == NULL \notin Threads
BY NamesAssumption

(* The trie keeps its nodes if no cell is filled or emptied and no node is *)
(* connected.                                                              *)
LEMMA TrieSame ==
  ASSUME \A u \in Threads : Hidden(u)' = Hidden(u),
         \A n \in TreeNames : nodes'[n].value = Unused <=> nodes[n].value = Unused
  PROVE  Trie' = Trie
<1>1. \A n : n \in Trie <=> n \in TreeNames /\ nodes[n].value # Unused /\ \A u \in Threads : n \notin Hidden(u)
  BY InTrie
<1>2. \A n : n \in Trie' <=> n \in TreeNames /\ nodes'[n].value # Unused /\ \A u \in Threads : n \notin Hidden(u)'
  BY InTrie
<1>3. \A n : n \in Trie' <=> n \in Trie
  BY <1>1, <1>2
<1> QED BY <1>3

(* The trie keeps its shape and its keys if no node of it changes its      *)
(* children, its kind, or its key and value.                               *)
LEMMA SameShape ==
  ASSUME SharedInv, Trie' = Trie, index' = index,
         \A n \in Trie : /\ Below(n, nodes'[n].value) = Below(n, nodes[n].value)
                         /\ nodes'[n].value.type = nodes[n].value.type
                         /\ nodes[n].value.type = "LEAF" => /\ nodes'[n].value.key = nodes[n].value.key
                                                            /\ nodes'[n].value.kv = nodes[n].value.kv
  PROVE  StructInv' /\ IndexInv'
<1>1. \A n \in Trie : ChildrenIn(nodes')[n] = ChildrenIn(nodes)[n]
  BY TrieNames DEF ChildrenIn
<1>2. Shaped(Trie, ChildrenIn(nodes'))
  BY <1>1 DEF SharedInv, StructInv, Shaped
<1>3. StructInv'
  BY <1>2 DEF StructInv, ChildrenIn
<1>4. IndexInv'
  <2>1. IndexInv
    BY DEF SharedInv
  <2> QED BY <2>1 DEF IndexInv
<1> QED BY <1>3, <1>4

(* Only inserting threads have locks after a step that respects the locks  *)
(* of others.                                                              *)
LEMMA LocksHeld ==
  ASSUME SharedInv, NEW t \in Threads, Frame(t), NodeFrame(t),
         \A n \in Names : nodes'[n].lock = t => Locking(t)' \/ pc'[t] = "root_check"
  PROVE  ReleaseInv'
<1>1. ASSUME NEW n \in Names, NEW u \in Threads, nodes'[n].lock = u PROVE Locking(u)' \/ pc'[u] = "root_check"
  <2>1. CASE u = t
    BY <1>1, <2>1
  <2>2. CASE u # t
    <3>1. nodes[n].lock = u /\ Same(u)
      BY <1>1, <2>2 DEF NodeFrame, Frame
    <3>2. Locking(u) \/ pc[u] = "root_check"
      BY <3>1 DEF SharedInv, ReleaseInv
    <3> QED BY <3>1, <3>2 DEF Locking, Same
  <2> QED BY <2>1, <2>2
<1> QED BY <1>1 DEF ReleaseInv

(* If a step respects the locks of others, only what the stepping thread   *)
(* knows is left to be shown.                                              *)
LEMMA AllKeep ==
  ASSUME IInv, NEW t \in Threads, Frame(t), NodeFrame(t), Trie \subseteq Trie', ThreadInv(t)'
  PROVE  DomainInv' /\ \A u \in Threads : ThreadInv(u)'
BY OthersKeep DEF IInv, Frame

(* The other threads connect the same nodes after a step as before.        *)
LEMMA OtherHidden ==
  ASSUME NEW t \in Threads, Frame(t), Hidden(t)' = Hidden(t)
  PROVE  \A u \in Threads : Hidden(u)' = Hidden(u)
BY HiddenKeeps DEF Frame

(* Steps that write no node.                                               *)
LEMMA LocalStep ==
  ASSUME IInv, NEW t \in Threads, Frame(t), nodes' = nodes, is_empty' = is_empty, index' = index,
         pc[t] \notin {"head", "link", "mark"}, pc'[t] \notin {"head", "link", "mark"},
         is_empty => pc'[t] \in RestPcs \cup {"return"},
         Locking(t) \/ pc[t] = "root_check" => Locking(t)' \/ pc'[t] = "root_check",
         Guarded(t)' => /\ PathOK(nodes, Trie, KeyOf(t)', path'[t])
                        /\ pc'[t] \notin RestPcs \cup {"return"} => Len(path'[t]) > 0,
         CallInv(t)', HoldInv(t)', PredInv(t)', EndInv(t)'
  PROVE  IInv'
<1>1. SharedInv /\ nodes \in NodeMaps
  BY DEF IInv, SharedInv, NodesOK
<1>2. NodeFrame(t)
  <2>1. \A n \in Names : nodes[n].seq \in Nat
    BY <1>1, NodeIs
  <2> QED BY <1>1, <2>1 DEF NodeFrame
<1>3. Hidden(t) = {} /\ Hidden(t)' = {} /\ HiddenInv(t)'
  BY Nowhere, NowhereNext
<1>4. Trie' = Trie
  BY <1>3, OtherHidden, TrieSame
<1>5. PathInv(t)'
  BY <1>4 DEF PathInv
<1>6. DomainInv' /\ \A u \in Threads : ThreadInv(u)'
  BY <1>2, <1>3, <1>4, <1>5, AllKeep DEF ThreadInv
<1>7. StructInv' /\ IndexInv'
  BY <1>1, <1>4, SameShape
<1>8. NodesOK' /\ UnusedInv'
  BY <1>1 DEF SharedInv, NodesOK, UnusedInv
<1>9. EmptyInv'
  <2>1. EmptyInv /\ \A u \in Threads : u # t => pc'[u] = pc[u]
    BY <1>1 DEF SharedInv, Frame, Same
  <2>2. Used' = Used
    BY DEF Used
  <2>3. is_empty => \A u \in Threads : pc'[u] \in RestPcs \cup {"return"}
    BY <2>1 DEF EmptyInv
  <2> QED BY <1>4, <2>1, <2>2, <2>3 DEF EmptyInv
<1>10. ReleaseInv'
  <2>1. ASSUME NEW n \in Names, nodes'[n].lock = t PROVE Locking(t)' \/ pc'[t] = "root_check"
    BY <1>1, <2>1 DEF SharedInv, ReleaseInv
  <2> QED BY <1>1, <1>2, <2>1, LocksHeld
<1> QED BY <1>6, <1>7, <1>8, <1>9, <1>10 DEF IInv, SharedInv

-----------------------------------------------------------------------------
(* Results, copies and paths. *)

(* A call with a result is the call it was.                                *)
LEMMA SetsResult ==
  ASSUME DomainInv, NEW t \in Threads, CallInv(t), pc[t] # "idle", NEW r, call' = [call EXCEPT ![t].ret = r]
  PROVE  /\ call'[t] = [op |-> call[t].op, key |-> call[t].key, value |-> call[t].value, ret |-> r]
         /\ call'[t].op = call[t].op /\ call'[t].key = call[t].key /\ call'[t].value = call[t].value
         /\ call'[t].ret = r
         /\ \E c \in AllCalls : call'[t] = Called(c, call'[t].ret)
<1>1. PICK c \in AllCalls : call[t] = Called(c, call[t].ret)
  BY DEF CallInv
<1>2. call[t] = [op |-> c.op, key |-> c.key, value |-> c.value, ret |-> call[t].ret]
  BY <1>1 DEF Called
<1>3. call'[t] = [call[t] EXCEPT !.ret = r]
  BY DEF DomainInv
<1>4. call'[t] = [op |-> c.op, key |-> c.key, value |-> c.value, ret |-> r]
  BY <1>2, <1>3
<1>5. call[t].op = c.op /\ call[t].key = c.key /\ call[t].value = c.value
  BY <1>2
<1>6. call'[t].op = c.op /\ call'[t].key = c.key /\ call'[t].value = c.value /\ call'[t].ret = r
  BY <1>4
<1>7. call'[t] = Called(c, call'[t].ret)
  BY <1>4, <1>6 DEF Called
<1> QED BY <1>4, <1>5, <1>6, <1>7

(* What find_node reads is a copy of the node, ...                         *)
LEMMA ReadCopy ==
  ASSUME NodesOK, NEW n \in Names, nodes[n].value # Unused
  PROVE  /\ CopyIn(nodes, Read(n)) /\ Read(n) \in Copies
         /\ Read(n).name = n /\ Read(n).value = nodes[n].value /\ Read(n).seq = nodes[n].seq
<1>1. /\ nodes[n].value \in NodeValues /\ nodes[n].seq \in Nat /\ Fits(n, nodes[n].value)
  BY NodeIs DEF NodesOK
<1>2. Read(n).name = n /\ Read(n).value = nodes[n].value /\ Read(n).seq = nodes[n].seq /\ Read(n) \in Copies
  BY <1>1 DEF Read, Copies
<1> QED BY <1>1, <1>2 DEF CopyIn

(* ... which may go on the path of a key below that node.                  *)
LEMMA ReadOnPath ==
  ASSUME NodesOK, StructInv, NEW n \in Trie, NEW key, Above(n, KeySymbols(key))
  PROVE  OnPath(nodes, Trie, key, Read(n)) /\ Read(n).name = n /\ Read(n) \in Copies /\ Read(n).value = nodes[n].value
<1>1. n \in Names /\ n \in TreeNames /\ nodes[n].value # Unused
  BY TrieNames, InTrie
<1>2. Below(n, nodes[n].value) \subseteq Trie
  BY <1>1 DEF StructInv, Shaped, ChildrenIn
<1>3. /\ CopyIn(nodes, Read(n)) /\ Read(n) \in Copies
      /\ Read(n).name = n /\ Read(n).value = nodes[n].value
  BY <1>1, ReadCopy
<1> QED BY <1>2, <1>3 DEF OnPath

(* A path of one copy, ...                                                 *)
LEMMA PathOfOne ==
  ASSUME NEW ns, NEW T, NEW key, NEW c \in Copies, OnPath(ns, T, key, c)
  PROVE  PathOK(ns, T, key, <<c>>) /\ Len(<<c>>) = 1 /\ <<c>>[1] = c /\ Last(<<c>>) = c
<1>1. <<c>> \in Seq(Copies) /\ Len(<<c>>) = 1 /\ <<c>>[1] = c
  OBVIOUS
<1>2. \A i \in 1..Len(<<c>>) : i = 1
  BY <1>1
<1>3. \A i \in 1..(Len(<<c>>) - 1) : FALSE
  BY <1>1
<1> QED BY <1>1, <1>2, <1>3 DEF PathOK, Last

(* ... of none, ...                                                        *)
LEMMA PathOfNone ==
  ASSUME NEW ns, NEW T, NEW key
  PROVE  PathOK(ns, T, key, <<>>)
BY DEF PathOK

(* ... and of one more than before.                                        *)
LEMMA PathOfMore ==
  ASSUME NEW ns, NEW T, NEW key, NEW p, PathOK(ns, T, key, p), Len(p) > 0, NEW c \in Copies, OnPath(ns, T, key, c),
         c.name \in Below(Last(p).name, Last(p).value)
  PROVE  PathOK(ns, T, key, Append(p, c)) /\ Len(Append(p, c)) > 0 /\ Last(Append(p, c)) = c
<1>1. p \in Seq(Copies)
  BY DEF PathOK
<1> DEFINE q == Append(p, c)
<1>2. PICK l \in Nat : l = Len(p) /\ l > 0
  BY <1>1
<1>3. q \in Seq(Copies) /\ Len(q) = l + 1 /\ q[l + 1] = c /\ Last(q) = c /\ \A i \in 1..l : q[i] = p[i]
  BY <1>1, <1>2, Lengthen
<1>4. Last(p) = p[l]
  BY <1>2 DEF Last
<1> HIDE DEF q
<1>5. ASSUME NEW i \in 1..Len(q) PROVE OnPath(ns, T, key, q[i])
  <2>1. CASE i = l + 1
    BY <1>3, <2>1
  <2>2. CASE i # l + 1
    <3>1. i \in 1..l
      BY <1>2, <1>3, <2>2
    <3> QED BY <1>2, <1>3, <3>1 DEF PathOK
  <2> QED BY <2>1, <2>2
<1>6. ASSUME NEW i \in 1..(Len(q) - 1) PROVE q[i + 1].name \in Below(q[i].name, q[i].value)
  <2>1. CASE i = l
    <3>1. i \in 1..l
      BY <1>2, <2>1
    <3> QED BY <1>3, <1>4, <2>1, <3>1
  <2>2. CASE i # l
    <3>1. i \in 1..l /\ i + 1 \in 1..l /\ i \in 1..(Len(p) - 1)
      BY <1>2, <1>3, <2>2
    <3> QED BY <1>3, <3>1 DEF PathOK
  <2> QED BY <2>1, <2>2
<1>7. PathOK(ns, T, key, q) /\ Len(q) > 0 /\ Last(q) = c
  BY <1>2, <1>3, <1>5, <1>6 DEF PathOK
<1> QED BY <1>7 DEF q

(* The result of a read is a result.                                       *)
LEMMA ReadResults ==
  ASSUME SharedInv, NEW t \in Threads, CallInv(t), pc[t] # "idle", NEW n,
         call[t].op \notin IterCalls => n \in Trie
  PROVE  /\ call[t].op \notin IterCalls => IsResult(ReadResult(t, Read(n)))
         /\ call[t].op \in IterCalls => ReadResult(t, Read(n)) = Pending
<1>1. CASE call[t].op \in IterCalls
  BY <1>1 DEF IterCalls, ReadResult
<1>2. CASE call[t].op \notin IterCalls
  <2>1. Read(n).value.type = "LEAF" => Read(n).value.kv \in Values \cup {NULL}
    <3>1. n \in Names /\ Fits(n, nodes[n].value) /\ Read(n).value = nodes[n].value
      BY <1>2, TrieNames DEF SharedInv, NodesOK, Read
    <3>2. nodes[n].value.type = "LEAF" => nodes[n].value \in LeafValues
      BY <3>1, Kinds
    <3> QED BY <3>1, <3>2 DEF LeafValues
  <2>2. HasKey(Read(n), KeyOf(t)) => Read(n).value.kv \in Values \cup {NULL}
    BY <2>1 DEF HasKey
  <2>3. ReadResult(t, Read(n)) \in {Pending, NULL, Read(n).value.kv, "S_NOTFOUND", "S_ALREADYIN"}
        /\ (ReadResult(t, Read(n)) = Read(n).value.kv \/ ReadResult(t, Read(n)) \in {Pending, NULL, "S_NOTFOUND", "S_ALREADYIN"})
        /\ (HasKey(Read(n), KeyOf(t)) \/ ReadResult(t, Read(n)) \in {Pending, NULL, "S_NOTFOUND", "S_ALREADYIN"})
    BY DEF ReadResult
  <2> QED BY <1>2, <2>2, <2>3 DEF IsResult
<1> QED BY <1>1, <1>2

(* The finger moves to the node n as it is now.                            *)
LEMMA VisitKeeps ==
  ASSUME IInv, NEW t \in Threads, pc[t] \in {"start", "descend"}, NEW n, Visit(t, Read(n)), Frame(t),
         UNCHANGED <<is_empty, nodes, index, calls>>, ~is_empty,
         Guarded(t) => n \in Trie /\ Above(n, KeySymbols(KeyOf(t))),
         Guarded(t) /\ pc[t] = "descend" => n \in Below(Last(path[t]).name, Last(path[t]).value),
         iter'[t] = [leaf |-> iter'[t].leaf, key |-> iter'[t].key, is_exhausted |-> iter'[t].is_exhausted,
                     report_current |-> iter'[t].report_current],
         iter'[t].key = iter[t].key
  PROVE  IInv'
<1> DEFINE c == Read(n)
           r == ReadResult(t, c)
<1>1. SharedInv /\ DomainInv /\ ThreadInv(t) /\ CallInv(t) /\ PathInv(t) /\ pc[t] # "idle"
  BY DEF IInv, SharedInv, ThreadInv
<1>2. /\ call' = [call EXCEPT ![t].ret = r] /\ pc'[t] = (IF r = Pending THEN "descend" ELSE "return")
      /\ path'[t] = IF call[t].op \in {"ct_lookup", "ct_update"} THEN <<c>> ELSE Append(path[t], c)
  BY <1>1 DEF Visit, DomainInv
<1>3. call'[t].op = call[t].op /\ call'[t].key = call[t].key /\ call'[t].value = call[t].value /\ call'[t].ret = r
      /\ \E d \in AllCalls : call'[t] = Called(d, call'[t].ret)
  BY <1>1, <1>2, SetsResult
<1>4. KeyOf(t)' = KeyOf(t) /\ Guarded(t)' = Guarded(t)
  BY <1>1, <1>2, <1>3 DEF KeyOf, Guarded
<1>5. call[t].op \notin IterCalls => Guarded(t)
  BY <1>1, Caller
<1>6. /\ call[t].op \notin IterCalls => IsResult(r)
      /\ call[t].op \in IterCalls => r = Pending
  BY <1>1, <1>5, ReadResults
<1>7. pc[t] \in AllPcs /\ pc'[t] \in {"descend", "return"}
  BY <1>2 DEF AllPcs, RestPcs
<1>8. CallInv(t)'
  <2>1. calls'[t] \in Seq(AllCalls)
    BY <1>1 DEF CallInv
  <2> HIDE DEF r
  <2> QED BY <1>2, <1>3, <1>6, <1>7, <2>1 DEF CallInv, AllPcs, RestPcs, PutPcs, IterPcs
<1>9. ASSUME Guarded(t) PROVE PathOK(nodes, Trie, KeyOf(t), path'[t]) /\ Len(path'[t]) > 0
  <2>1. OnPath(nodes, Trie, KeyOf(t), c) /\ c.name = n /\ c \in Copies
    BY <1>1, <1>9, ReadOnPath DEF SharedInv
  <2> HIDE DEF c
  <2>2. PathOK(nodes, Trie, KeyOf(t), <<c>>) /\ Len(<<c>>) = 1
    BY <2>1, PathOfOne
  <2>3. CASE path[t] = <<>>
    <3>1. Append(path[t], c) = <<c>>
      BY <2>3
    <3> QED BY <1>2, <2>2, <3>1
  <2>4. CASE path[t] # <<>>
    <3>1. pc[t] = "descend"
      BY <1>1, <2>4 DEF CallInv, RestPcs
    <3>2. PathOK(nodes, Trie, KeyOf(t), path[t]) /\ Len(path[t]) > 0
      BY <1>1, <1>9, <3>1 DEF PathInv, RestPcs
    <3>3. PathOK(nodes, Trie, KeyOf(t), Append(path[t], c)) /\ Len(Append(path[t], c)) > 0
      BY <1>9, <2>1, <3>1, <3>2, PathOfMore
    <3> QED BY <1>2, <2>2, <3>3
  <2> QED BY <2>3, <2>4
<1>10. ~Locking(t) /\ ~Locking(t)' /\ ~WithPred(t)'
  BY <1>2 DEF Locking, WithPred
<1>11. HoldInv(t)' /\ PredInv(t)' /\ EndInv(t)'
  BY <1>7, <1>10 DEF HoldInv, PredInv, EndInv
<1> QED BY <1>4, <1>7, <1>8, <1>9, <1>10, <1>11, LocalStep DEF RestPcs

-----------------------------------------------------------------------------
(* Steps of a search. *)

(* A thread that starts over has an empty path.                            *)
LEMMA EmptyPathKeeps ==
  ASSUME NEW t, path'[t] = <<>>, pc'[t] \in RestPcs \cup {"return"}
  PROVE  Guarded(t)' => /\ PathOK(nodes, Trie, KeyOf(t)', path'[t])
                        /\ pc'[t] \notin RestPcs \cup {"return"} => Len(path'[t]) > 0
BY PathOfNone

(* A thread that does not insert promises nothing about locks.             *)
LEMMA NotWriting ==
  ASSUME NEW t, pc'[t] \in {"idle", "start", "next", "next_again", "root_lock", "root_wait", "return", "resynced", "advance", "descend"}
  PROVE  HoldInv(t)' /\ PredInv(t)' /\ EndInv(t)' /\ ~Locking(t)'
BY DEF HoldInv, PredInv, EndInv, Locking, WithPred

(* The start of a call keeps the invariant.                                *)
LEMMA StartKeeps ==
  ASSUME IInv, NEW t \in Threads, Start(t)
  PROVE  IInv'
<1>1. SharedInv /\ DomainInv /\ ThreadInv(t) /\ CallInv(t) /\ Frame(t)
  BY FrameStart DEF IInv, SharedInv, ThreadInv
<1> DEFINE c == Head(calls[t])
<1>2. /\ pc[t] = "idle" /\ c \in AllCalls /\ Tail(calls[t]) \in Seq(AllCalls)
      /\ pc'[t] = (IF c.op = "ct_iter_next" THEN "next" ELSE "start")
      /\ path'[t] = <<>> /\ call'[t] = Called(c, Pending) /\ calls'[t] = Tail(calls[t])
      /\ UNCHANGED <<nodes, is_empty, index>>
  BY <1>1 DEF Start, CallInv, DomainInv, RestPcs, shared, locals
<1>3. iter'[t] = [leaf |-> iter'[t].leaf, key |-> iter'[t].key, is_exhausted |-> iter'[t].is_exhausted,
                  report_current |-> iter'[t].report_current]
  <2>1. iter'[t] = iter[t] \/ iter'[t] = [iter[t] EXCEPT !.key = c.key]
    BY <1>1 DEF Start, DomainInv
  <2> QED BY <1>1, <2>1 DEF CallInv
<1> HIDE DEF c
<1>4. call'[t].ret = Pending /\ call'[t].op = c.op /\ call'[t] = Called(c, call'[t].ret)
  BY <1>2 DEF Called
<1>5. c.op = "ct_iter_next" => c.op \in IterCalls
  BY DEF IterCalls
<1>6. CallInv(t)'
  BY <1>2, <1>3, <1>4, <1>5 DEF CallInv, AllPcs, RestPcs, PutPcs, IterPcs, IsResult
<1>7. HoldInv(t)' /\ PredInv(t)' /\ EndInv(t)' /\ ~Locking(t)
  BY <1>2, NotWriting DEF Locking
<1>8. pc'[t] \in RestPcs
  BY <1>2 DEF RestPcs
<1>9. Guarded(t)' => /\ PathOK(nodes, Trie, KeyOf(t)', path'[t])
                     /\ pc'[t] \notin RestPcs \cup {"return"} => Len(path'[t]) > 0
  BY <1>2, <1>8, EmptyPathKeeps
<1> QED BY <1>1, <1>2, <1>6, <1>7, <1>8, <1>9, LocalStep DEF RestPcs

(* The return of a call keeps the invariant.                               *)
LEMMA ReturnKeeps ==
  ASSUME IInv, NEW t \in Threads, Return(t)
  PROVE  IInv'
<1>1. SharedInv /\ DomainInv /\ ThreadInv(t) /\ CallInv(t) /\ Frame(t)
  BY FrameStart DEF IInv, SharedInv, ThreadInv
<1>2. /\ pc[t] = "return" /\ pc'[t] = "idle" /\ path'[t] = <<>> /\ call'[t] = NULL
      /\ UNCHANGED <<nodes, is_empty, index, iter>>
  BY <1>1 DEF Return, DomainInv, LocalsReset, shared
<1>3. calls'[t] \in Seq(AllCalls)
  <2>1. calls'[t] = calls[t] \/ calls'[t] = <<NextCall>> \o calls[t]
    BY <1>1 DEF Return, DomainInv
  <2>2. NextCall \in AllCalls
    BY DEF AllCalls
  <2>3. calls[t] \in Seq(AllCalls)
    BY <1>1 DEF CallInv
  <2>4. <<NextCall>> \o calls[t] \in Seq(AllCalls)
    BY <2>2, <2>3
  <2> QED BY <2>1, <2>3, <2>4
<1>4. CallInv(t)'
  BY <1>1, <1>2, <1>3 DEF CallInv, AllPcs, RestPcs
<1>5. HoldInv(t)' /\ PredInv(t)' /\ EndInv(t)' /\ ~Locking(t)
  BY <1>2, NotWriting DEF Locking
<1>6. pc'[t] \in RestPcs
  BY <1>2 DEF RestPcs
<1>7. Guarded(t)' => /\ PathOK(nodes, Trie, KeyOf(t)', path'[t])
                     /\ pc'[t] \notin RestPcs \cup {"return"} => Len(path'[t]) > 0
  BY <1>2, <1>6, EmptyPathKeeps
<1> QED BY <1>1, <1>2, <1>4, <1>5, <1>6, <1>7, LocalStep DEF RestPcs

(* init_finger, which finds the root, keeps the invariant.                 *)
LEMMA InitFingerKeeps ==
  ASSUME IInv, NEW t \in Threads, init_finger(t)
  PROVE  IInv'
<1>1. SharedInv /\ DomainInv /\ ThreadInv(t) /\ CallInv(t) /\ Frame(t)
  BY FrameInitFinger DEF IInv, SharedInv, ThreadInv
<1>2. pc[t] = "start" /\ path[t] = <<>> /\ UNCHANGED <<nodes, is_empty, index, calls>>
  BY <1>1 DEF init_finger, CallInv, RestPcs, shared
<1>3. iter'[t] = [leaf |-> iter'[t].leaf, key |-> iter'[t].key, is_exhausted |-> iter'[t].is_exhausted,
                  report_current |-> iter'[t].report_current] /\ iter'[t].key = iter[t].key
  <2>1. iter'[t] = iter[t] \/ iter'[t] = [iter[t] EXCEPT !.is_exhausted = TRUE] \/ iter'[t] = [iter[t] EXCEPT !.is_exhausted = FALSE]
    BY <1>1 DEF init_finger, EmptyTrie, DomainInv
  <2> QED BY <1>1, <2>1 DEF CallInv
<1>4. CASE is_empty /\ EmptyTrie(t)
  <2>1. /\ pc'[t] = (IF call[t].op \in PutCalls THEN "root_lock" ELSE "return") /\ path'[t] = <<>>
    BY <1>1, <1>2, <1>4 DEF EmptyTrie, DomainInv
  <2> DEFINE r == CASE call[t].op \in PutCalls -> Pending [] call[t].op = "ct_update" -> "S_NOTFOUND" [] OTHER -> NULL
  <2>2. call'[t].op = call[t].op /\ call'[t].key = call[t].key /\ call'[t].ret = r
        /\ \E d \in AllCalls : call'[t] = Called(d, call'[t].ret)
    BY <1>1, <1>2, <1>4, SetsResult DEF EmptyTrie
  <2>3. /\ call[t].op \in PutCalls => r = Pending
        /\ IsResult(r) /\ (call[t].op \notin PutCalls => r # Pending)
    BY PendingAssumption DEF IsResult, PutCalls
  <2> HIDE DEF r
  <2>4. CallInv(t)'
    BY <1>1, <1>2, <1>3, <2>1, <2>2, <2>3 DEF CallInv, AllPcs, RestPcs, PutPcs, IterPcs
  <2>5. HoldInv(t)' /\ PredInv(t)' /\ EndInv(t)' /\ ~Locking(t)
    BY <1>2, <2>1, NotWriting DEF Locking
  <2>6. pc'[t] \in RestPcs \cup {"return"}
    BY <2>1 DEF RestPcs
  <2>7. Guarded(t)' => /\ PathOK(nodes, Trie, KeyOf(t)', path'[t])
                       /\ pc'[t] \notin RestPcs \cup {"return"} => Len(path'[t]) > 0
    BY <2>1, <2>6, EmptyPathKeeps
  <2> QED BY <1>1, <1>2, <2>1, <2>4, <2>5, <2>6, <2>7, LocalStep DEF RestPcs
<1>5. CASE ~is_empty /\ Visit(t, Read(Root))
  <2>1. Root \in Trie /\ \A k : Above(Root, KeySymbols(k))
    <3>1. \A k : Above(Root, KeySymbols(k))
      BY DEF Above, Root, KeySymbols
    <3> QED BY <1>1, <1>5, <3>1 DEF SharedInv, EmptyInv
  <2> QED BY <1>1, <1>2, <1>3, <1>5, <2>1, VisitKeeps
<1> QED BY <1>4, <1>5 DEF init_finger

(* A step of the search to a child keeps the invariant.                    *)
LEMMA DescendKeeps ==
  ASSUME IInv, NEW t \in Threads, descend(t)
  PROVE  IInv'
<1>1. SharedInv /\ DomainInv /\ ThreadInv(t) /\ CallInv(t) /\ Frame(t)
  BY FrameStart DEF IInv, SharedInv, ThreadInv
<1> DEFINE n == NameBelow(Last(path[t]), KeyOf(t))
<1>2. /\ pc[t] = "descend" /\ n # NULL /\ Visit(t, Read(n)) /\ UNCHANGED <<nodes, is_empty, index, calls, iter>>
  BY DEF descend, shared
<1>3. ~is_empty
  BY <1>1, <1>2 DEF SharedInv, EmptyInv, RestPcs
<1>4. ASSUME Guarded(t) PROVE n \in Trie /\ Above(n, KeySymbols(KeyOf(t))) /\ n \in Below(Last(path[t]).name, Last(path[t]).value)
  <2>1. pc[t] \notin RestPcs \cup {"return"}
    BY <1>2 DEF RestPcs
  <2> DEFINE c == Last(path[t])
  <2>2. c.name \in TreeNames /\ Fits(c.name, c.value) /\ Below(c.name, c.value) \subseteq Trie /\ Above(c.name, KeySymbols(KeyOf(t)))
    BY <1>1, <1>4, <2>1, PathEnd
  <2>3. KeyOf(t) \in Seq(Nat \ {0}) /\ NameBelow(c, KeyOf(t)) # NULL
    BY <1>2, <1>4 DEF Guarded
  <2> HIDE DEF c
  <2>4. NameBelow(c, KeyOf(t)) \in Below(c.name, c.value) /\ Above(NameBelow(c, KeyOf(t)), KeySymbols(KeyOf(t)))
    BY <2>2, <2>3, Descends, Zenon
  <2> QED BY <2>2, <2>4 DEF c
<1>5. iter'[t] = [leaf |-> iter'[t].leaf, key |-> iter'[t].key, is_exhausted |-> iter'[t].is_exhausted,
                  report_current |-> iter'[t].report_current] /\ iter'[t].key = iter[t].key
  BY <1>1, <1>2 DEF CallInv
<1> HIDE DEF n
<1> QED BY <1>1, <1>2, <1>3, <1>4, <1>5, VisitKeeps

(* Waiting for the lock of the root keeps the invariant.                   *)
LEMMA RootWaitKeeps ==
  ASSUME IInv, NEW t \in Threads, CreateRootWait(t) \/ (CreateRootLock(t) /\ nodes' = nodes)
  PROVE  IInv'
<1>1. SharedInv /\ DomainInv /\ ThreadInv(t) /\ CallInv(t) /\ Frame(t)
  BY FrameCreateRoot DEF IInv, SharedInv, ThreadInv, create_root
<1>2. /\ pc[t] \in {"root_lock", "root_wait"} /\ pc'[t] \in {"root_wait", "start"}
      /\ UNCHANGED <<nodes, is_empty, index, calls, call, iter, path>>
  <2>1. CASE CreateRootWait(t)
    BY <1>1, <2>1 DEF CreateRootWait, DomainInv, shared, locals
  <2>2. CASE CreateRootLock(t) /\ nodes' = nodes
    <3>1. nodes[Root].lock # NULL
      <4>1. SUFFICES ASSUME nodes[Root].lock = NULL PROVE FALSE
        OBVIOUS
      <4>2. nodes \in NodeMaps /\ Root \in Names /\ pc[t] = "root_lock"
        BY <1>1, <2>2, Writer, TrieNames DEF SharedInv, NodesOK, CreateRootLock, PutPcs
      <4>3. nodes' = LockNodes(nodes, t, {Root})
        BY <2>2, <4>1 DEF CreateRootLock
      <4>4. nodes'[Root].lock = t
        BY <4>2, <4>3, LocksNodes
      <4> QED BY <2>2, <4>1, <4>4, NoThread
    <3> QED BY <1>1, <2>2, <3>1 DEF CreateRootLock, DomainInv, locals
  <2> QED BY <2>1, <2>2
<1>3. CallInv(t)'
  BY <1>1, <1>2 DEF CallInv, AllPcs, RestPcs, PutPcs, IterPcs
<1>4. HoldInv(t)' /\ PredInv(t)' /\ EndInv(t)' /\ ~Locking(t)
  BY <1>2, NotWriting DEF Locking
<1>5. pc'[t] \in RestPcs \cup {"return"} /\ path'[t] = <<>>
  BY <1>1, <1>2 DEF RestPcs, CallInv
<1>6. Guarded(t)' => /\ PathOK(nodes, Trie, KeyOf(t)', path'[t])
                     /\ pc'[t] \notin RestPcs \cup {"return"} => Len(path'[t]) > 0
  BY <1>5, EmptyPathKeeps
<1> QED BY <1>1, <1>2, <1>3, <1>4, <1>5, <1>6, LocalStep DEF RestPcs

-----------------------------------------------------------------------------
(* Locks. *)

(* Steps that only take or release locks.                                  *)
LEMMA OnlyLocks ==
  ASSUME IInv, NEW t \in Threads, Frame(t), is_empty' = is_empty, index' = index, nodes' \in NodeMaps,
         \A n \in Names : nodes'[n].value = nodes[n].value /\ nodes'[n].seq = nodes[n].seq,
         \A u \in Threads \ {t}, n \in Names : nodes[n].lock = u <=> nodes'[n].lock = u,
         \A n \in Names : nodes'[n].lock # NULL /\ nodes[n].lock = NULL => n = Root \/ (~is_empty /\ nodes[n].value # Unused),
         Hidden(t)' = Hidden(t), is_empty => pc'[t] \in RestPcs \cup {"return"}
  PROVE  /\ NodeFrame(t) /\ Trie' = Trie
         /\ NodesOK' /\ StructInv' /\ IndexInv' /\ EmptyInv' /\ UnusedInv'
<1>1. SharedInv /\ nodes \in NodeMaps
  BY DEF IInv, SharedInv, NodesOK
<1>2. NodeFrame(t)
  <2>1. ASSUME NEW n \in Names, nodes'[n].lock = nodes[n].lock PROVE nodes'[n] = nodes[n]
    <3>1. nodes[n] = [value |-> nodes[n].value, seq |-> nodes[n].seq, lock |-> nodes[n].lock]
      BY <1>1, NodeIs, Zenon
    <3>2. nodes'[n] = [value |-> nodes'[n].value, seq |-> nodes'[n].seq, lock |-> nodes'[n].lock]
      BY NodeIs, Zenon
    <3> QED BY <2>1, <3>1, <3>2
  <2>2. \A n \in Names : nodes[n].seq \in Nat
    BY <1>1, NodeIs
  <2> QED BY <2>1, <2>2 DEF NodeFrame
<1>3. Trie' = Trie
  BY OtherHidden, TrieSame, TrieNames
<1>4. StructInv' /\ IndexInv'
  BY <1>1, <1>3, SameShape, TrieNames
<1>5. NodesOK'
  BY <1>1 DEF SharedInv, NodesOK
<1>6. \A n \in Names : n # Root => nodes'[n].lock = NULL \/ nodes[n].lock # NULL \/ (~is_empty /\ nodes[n].value # Unused)
  OBVIOUS
<1>7. \A n \in Names : nodes'[n].lock \in Threads \cup {NULL} /\ nodes[n].lock \in Threads \cup {NULL}
  BY <1>1, NodeIs
<1>8. EmptyInv'
  <2>1. EmptyInv /\ \A u \in Threads : u # t => pc'[u] = pc[u]
    BY <1>1 DEF SharedInv, Frame, Same
  <2>2. Used' = Used
    BY TrieNames DEF Used
  <2>3. is_empty => \A u \in Threads : pc'[u] \in RestPcs \cup {"return"}
    BY <2>1 DEF EmptyInv
  <2>4. is_empty => \A n \in Names : n # Root => nodes'[n].lock = NULL
    BY <2>1, <1>6 DEF EmptyInv
  <2> QED BY <1>3, <2>1, <2>2, <2>3, <2>4 DEF EmptyInv
<1>9. UnusedInv'
  <2>1. ASSUME NEW n \in TreeNames, n # Root, nodes'[n].value = Unused PROVE nodes'[n].lock = NULL
    <3>1. n \in Names /\ nodes[n].value = Unused
      BY <2>1, TrieNames
    <3>2. nodes[n].lock = NULL
      BY <1>1, <2>1, <3>1 DEF SharedInv, UnusedInv
    <3> QED BY <1>6, <2>1, <3>1, <3>2
  <2> QED BY <2>1 DEF UnusedInv
<1> QED BY <1>2, <1>3, <1>4, <1>5, <1>8, <1>9

(* Releasing all locks and starting over keeps the invariant.              *)
LEMMA ReleaseKeeps ==
  ASSUME IInv, NEW t \in Threads, Frame(t), is_empty' = is_empty, index' = index,
         nodes' = release_all_locks(nodes, t),
         pc[t] \in {"descend", "pred", "max_leaf", "lock_pred", "advance", "root_check"},
         pc'[t] = "start", path'[t] = <<>>, call'[t] = call[t], calls'[t] = calls[t], iter'[t] = iter[t]
  PROVE  IInv'
<1>1. SharedInv /\ DomainInv /\ ThreadInv(t) /\ CallInv(t) /\ nodes \in NodeMaps
  BY DEF IInv, SharedInv, ThreadInv, NodesOK
<1>2. /\ nodes' \in NodeMaps
      /\ \A n \in Names : nodes'[n].value = nodes[n].value /\ nodes'[n].seq = nodes[n].seq
      /\ \A n \in Names : nodes[n].lock = t => nodes'[n].lock = NULL
      /\ \A n \in Names : nodes[n].lock # t => nodes'[n] = nodes[n]
  BY <1>1, ReleasesLocks
<1>3. Hidden(t)' = Hidden(t)
  BY Nowhere, NowhereNext
<1>4. /\ NodeFrame(t) /\ Trie' = Trie
      /\ NodesOK' /\ StructInv' /\ IndexInv' /\ EmptyInv' /\ UnusedInv'
  <2>1. pc'[t] \in RestPcs
    BY DEF RestPcs
  <2>2. \A u \in Threads \ {t}, n \in Names : nodes[n].lock = u <=> nodes'[n].lock = u
    BY <1>2, NoThread
  <2>3. \A n \in Names : nodes'[n].lock # NULL => nodes[n].lock # NULL
    BY <1>2
  <2> QED BY <1>2, <1>3, <2>1, <2>2, <2>3, OnlyLocks
<1>5. CallInv(t)'
  BY <1>1 DEF CallInv, AllPcs, RestPcs, PutPcs, IterPcs
<1>6. HoldInv(t)' /\ PredInv(t)' /\ EndInv(t)' /\ HiddenInv(t)'
  BY NotWriting, NowhereNext
<1>7. PathInv(t)'
  BY PathOfNone DEF PathInv, RestPcs
<1>8. DomainInv' /\ \A u \in Threads : ThreadInv(u)'
  BY <1>4, <1>5, <1>6, <1>7, AllKeep DEF ThreadInv
<1>9. ReleaseInv'
  <2>1. \A n \in Names : nodes'[n].lock # t
    BY <1>2, NoThread
  <2> QED BY <1>1, <1>4, <2>1, LocksHeld
<1> QED BY <1>4, <1>8, <1>9 DEF IInv, SharedInv

(* A retry after a failed lock or a stale copy keeps the invariant.        *)
LEMMA RetryKeeps ==
  ASSUME IInv, NEW t \in Threads, Retry(t), pc[t] \in {"descend", "pred", "max_leaf", "lock_pred", "advance"}
  PROVE  IInv'
<1>1. DomainInv
  BY DEF IInv, SharedInv
<1>2. Frame(t)
  BY <1>1, FrameRetry
<1>3. /\ pc'[t] = "start" /\ path'[t] = <<>> /\ call'[t] = call[t] /\ calls'[t] = calls[t] /\ iter'[t] = iter[t]
      /\ is_empty' = is_empty /\ index' = index /\ nodes' = release_all_locks(nodes, t)
  BY <1>1 DEF Retry, LocalsReset, DomainInv
<1> QED BY <1>2, <1>3, ReleaseKeeps

(* A thread that finds the root created keeps the invariant.               *)
LEMMA RootExistsKeeps ==
  ASSUME IInv, NEW t \in Threads, CreateRootCheck(t), ~is_empty
  PROVE  IInv'
<1>1. DomainInv /\ CallInv(t) /\ pc[t] = "root_check" /\ CreateRootExists(t)
  BY DEF IInv, SharedInv, ThreadInv, CreateRootCheck
<1>2. Frame(t)
  BY <1>1, FrameCreateRoot DEF create_root
<1>3. path[t] = <<>>
  BY <1>1 DEF CallInv, RestPcs
<1>4. /\ pc'[t] = "start" /\ path'[t] = <<>> /\ call'[t] = call[t] /\ calls'[t] = calls[t] /\ iter'[t] = iter[t]
      /\ is_empty' = is_empty /\ index' = index /\ nodes' = release_all_locks(nodes, t)
  BY <1>1, <1>3 DEF CreateRootCheck, CreateRootExists, DomainInv, locals
<1> QED BY <1>1, <1>2, <1>4, ReleaseKeeps

(* Locking the root's bucket keeps the invariant.                          *)
LEMMA RootLockKeeps ==
  ASSUME IInv, NEW t \in Threads, CreateRootLock(t), nodes[Root].lock = NULL
  PROVE  IInv'
<1>1. SharedInv /\ DomainInv /\ ThreadInv(t) /\ CallInv(t) /\ nodes \in NodeMaps /\ Frame(t)
  BY FrameCreateRoot DEF IInv, SharedInv, ThreadInv, NodesOK, create_root
<1>2. /\ pc[t] = "root_lock" /\ pc'[t] = "root_check" /\ nodes' = LockNodes(nodes, t, {Root})
      /\ UNCHANGED <<is_empty, calls, call, iter, index, path>>
  BY <1>1 DEF CreateRootLock, DomainInv, locals
<1>3. Root \in Names /\ path[t] = <<>>
  BY <1>1, <1>2, Writer, TrieNames DEF PutPcs, CallInv, RestPcs
<1>4. /\ nodes' \in NodeMaps
      /\ \A n \in Names : nodes'[n].value = nodes[n].value /\ nodes'[n].seq = nodes[n].seq
      /\ nodes'[Root].lock = t
      /\ \A n \in Names \ {Root} : nodes'[n] = nodes[n]
  BY <1>1, <1>2, <1>3, LocksNodes
<1>5. Hidden(t)' = Hidden(t)
  BY <1>2, Nowhere, NowhereNext
<1>6. /\ NodeFrame(t) /\ Trie' = Trie
      /\ NodesOK' /\ StructInv' /\ IndexInv' /\ EmptyInv' /\ UnusedInv'
  <2>1. pc'[t] \in RestPcs
    BY <1>2 DEF RestPcs
  <2>2. \A u \in Threads \ {t}, n \in Names : nodes[n].lock = u <=> nodes'[n].lock = u
    BY <1>4, NoThread
  <2>3. \A n \in Names : nodes'[n].lock # NULL /\ nodes[n].lock = NULL => n = Root \/ (~is_empty /\ nodes[n].value # Unused)
    BY <1>4
  <2> QED BY <1>1, <1>2, <1>4, <1>5, <2>1, <2>2, <2>3, OnlyLocks
<1>7. CallInv(t)'
  BY <1>1, <1>2 DEF CallInv, AllPcs, RestPcs, PutPcs, IterPcs
<1>8. HoldInv(t)' /\ PredInv(t)' /\ EndInv(t)' /\ HiddenInv(t)'
  BY <1>2, <1>4, NowhereNext DEF HoldInv, PredInv, EndInv, Locking, WithPred
<1>9. PathInv(t)'
  BY <1>2, <1>3, PathOfNone DEF PathInv, RestPcs
<1>10. DomainInv' /\ \A u \in Threads : ThreadInv(u)'
  BY <1>1, <1>6, <1>7, <1>8, <1>9, AllKeep DEF ThreadInv
<1>11. ReleaseInv'
  BY <1>1, <1>2, <1>6, LocksHeld
<1> QED BY <1>6, <1>10, <1>11 DEF IInv, SharedInv

=============================================================================
