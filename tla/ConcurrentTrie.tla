---------------------------- MODULE ConcurrentTrie ---------------------------
(***************************************************************************)
(* Threads that use one cuckoo trie at the same time (main_vectorized.c,   *)
(* whose functions on the trie are those of main.c).                       *)
(*                                                                         *)
(* A node is named by its prefix, the symbols on the way to it; min_leaf   *)
(* is the head of the list of leaves.  A node has its bucket to itself:    *)
(* how nodes share buckets, move and are found is the subject of the       *)
(* modules CuckooTable and CuckooTrie, and that a node is read and written *)
(* as a whole that of Atomics.                                             *)
(*                                                                         *)
(* Every step of a thread reads or writes one node that others can reach,  *)
(* except that several locks are taken at once: a thread that fails to     *)
(* take one gives the others back and has changed nothing.  validate_entry *)
(* is done with the read before it: sequence numbers only grow, so a node  *)
(* that is unchanged when it is checked was unchanged at the read.         *)
(***************************************************************************)
EXTENDS KeyOrder, SequencesExt

CONSTANTS
  Threads, Keys,
  MAX_JUMP_SYMBOLS,
  Programs,     \* each: thread -> the sequence of calls it makes: [op, key, value]
  StartAfter,   \* thread -> the keys inserted before the thread is created
  NULL, Pending, MinLeaf

SYMBOL_END == 0
KeySymbols(key) == Append(key, SYMBOL_END)

Root == <<>>
TreeNames == UNION {Prefixes(KeySymbols(k)) : k \in Keys}
Names == TreeNames \cup {MinLeaf}

IterCalls == {"ct_iter_goto", "ct_iter_next"}
PutCalls == {"ct_insert", "ct_upsert"}

(* A thread with an iterator moves it on to the end.                       *)
NextCall == [op |-> "ct_iter_next", key |-> <<>>, value |-> NULL]
AllCalls == (UNION {ToSet(p[t]) : p \in Programs, t \in Threads}) \cup {NextCall}
Values == {c.value : c \in AllCalls}

Called(c, result) == [op |-> c.op, key |-> c.key, value |-> c.value, ret |-> result]

ASSUME KeysAssumption == Keys \subseteq Seq(Nat \ {0})
ASSUME JumpAssumption == MAX_JUMP_SYMBOLS \in Nat \ {0}
ASSUME ProgramsAssumption ==
  \A p \in Programs :
    /\ p = [t \in Threads |-> p[t]]
    /\ \A t \in Threads :
         /\ p[t] \in Seq(ToSet(p[t]))
         /\ \A c \in ToSet(p[t]) :
              /\ c = [op |-> c.op, key |-> c.key, value |-> c.value]
              /\ c.op \in PutCalls \cup {"ct_update", "ct_lookup", "ct_iter_goto"}
              /\ c.key \in Seq(Nat \ {0})
              /\ c.op # "ct_iter_goto" => c.key \in Keys

(* The special values are no others.                                       *)
ASSUME NamesAssumption == MinLeaf \notin TreeNames /\ NULL \notin Names \cup Threads
ASSUME LocatorAssumption == \A n \in TreeNames : \A i \in 1..Len(n) : [pos |-> i, name |-> n] # NULL
ASSUME PendingAssumption ==
  /\ Pending # NULL /\ Pending \notin Values /\ Pending \notin Keys
  /\ Pending \notin BOOLEAN /\ Pending \notin {"S_OK", "S_ALREADYIN", "S_NOTFOUND"}
ASSUME CalledAssumption ==
  \A c \in AllCalls :
    /\ \A r \in Values \cup {NULL, Pending} : Called(c, r) # NULL
    /\ \A r \in Keys : Called(c, r) # NULL
    /\ \A r \in BOOLEAN : Called(c, r) # NULL
    /\ \A r \in {"S_OK", "S_ALREADYIN", "S_NOTFOUND"} : Called(c, r) # NULL

VARIABLES
  is_empty,   \* no root yet
  nodes,      \* name -> value, sequence number and lock of the node
  calls,      \* thread -> the calls it has still to make
  call,       \* thread -> its call and the result once it took effect, or NULL
  pc,         \* thread -> where it is in the call
  path,       \* thread -> the finger: copies of the nodes from the root down
  subtree,    \* thread -> the copy of the node the predecessor is the largest leaf of
  pred,       \* thread -> the copy of the predecessor, to be locked or locked
  new_leaf,   \* thread -> the name of the first of the leaves it adds
  level,      \* thread -> how far up its path max_leaf is right
  iter,       \* thread -> its iterator
  index,      \* history: key -> value, for the keys whose insertion took effect
  cursor      \* history: thread -> what its iterator may report (ConcurrentIndex)

shared == <<is_empty, nodes>>
locals == <<path, subtree, pred, new_leaf, level>>
vars == <<is_empty, nodes, calls, call, pc, path, subtree, pred, new_leaf, level, iter, index, cursor>>

-----------------------------------------------------------------------------
(* Nodes and copies of nodes.                                              *)

Unused == [type |-> "UNUSED"]
Leaf(key, value, next) ==
  [type |-> "LEAF", key |-> key, kv |-> value, next_leaf |-> next, dirty |-> FALSE]
Bitmap(children, max_leaf) == [type |-> "BITMAP", children |-> children, max_leaf |-> max_leaf]
Jump(symbols, max_leaf) == [type |-> "JUMP", jump |-> symbols, max_leaf |-> max_leaf]

max_child(value) == Max(value.children)

Read(n) == [name |-> n, value |-> nodes[n].value, seq |-> nodes[n].seq]

validate_entry(c) == nodes[c.name].seq = c.seq
validate_path_from(p, i) == \A j \in i..Len(p) : validate_entry(p[j])

(* Mutant: upgrade_lock does not look at the sequence number.              *)
CanLockChanged(c) == nodes[c.name].lock = NULL

(* What upgrade_lock needs: nobody has the lock or has written the node.   *)
CanLock(c) == nodes[c.name].lock = NULL /\ validate_entry(c)

WriteNode(ns, n, v) == [ns EXCEPT ![n].value = v, ![n].seq = @ + 1]

(* Mutant: the nodes are not in the table when the path to them is.        *)
AddNothing(ns, t, new) == ns

(* new: name -> value of nodes nobody can reach yet; t holds their locks.  *)
AddNodes(ns, t, new) ==
  [n \in Names |-> IF n \in DOMAIN new THEN [value |-> new[n], seq |-> ns[n].seq + 1, lock |-> t]
                                       ELSE ns[n]]

LockNodes(ns, t, S) == [n \in Names |-> IF n \in S THEN [ns[n] EXCEPT !.lock = t] ELSE ns[n]]

release_all_locks(ns, t) ==
  [n \in Names |-> IF ns[n].lock = t THEN [ns[n] EXCEPT !.lock = NULL] ELSE ns[n]]

(* update_entry through a copy: writes the node and brings the copy up to  *)
(* date.                                                                   *)
update_entry(ns, c, v) == WriteNode(ns, c.name, v)
Updated(c, v) == [c EXCEPT !.value = v, !.seq = nodes[c.name].seq + 1]

-----------------------------------------------------------------------------
(* The finger.                                                             *)

(* ct_iter_next moves the iterator to the last key when the list changed.  *)
KeyOf(t) == IF call[t].op \in IterCalls THEN iter[t].key ELSE call[t].key

(* Symbols of key that follow the prefix n.                                *)
Rest(key, n) == SubSeq(KeySymbols(key), Len(n) + 1, Len(key) + 1)

(* How many symbols a and b have in common.                                *)
CommonLength(a, b) ==
  Max({i \in 0..Min({Len(a), Len(b)}) : \A j \in 1..i : a[j] = b[j]})

depth_in_jump(c, key) == CommonLength(c.value.jump, Rest(key, c.name))

(* try_descend: the node below, or NULL if the finger is stuck.            *)
NameBelow(c, key) ==
  CASE c.value.type = "BITMAP" /\ Head(Rest(key, c.name)) \in c.value.children ->
         Append(c.name, Head(Rest(key, c.name)))
    [] c.value.type = "JUMP" /\ depth_in_jump(c, key) = Len(c.value.jump) ->
         c.name \o c.value.jump
    [] OTHER -> NULL

HasKey(c, key) == c.value.type = "LEAF" /\ c.value.key = key

(* The result of a call that only has to read, once its finger is stuck.   *)
ReadResult(t, c) ==
  IF NameBelow(c, KeyOf(t)) # NULL THEN Pending
  ELSE CASE call[t].op = "ct_lookup" -> IF HasKey(c, KeyOf(t)) THEN c.value.kv ELSE NULL
         [] call[t].op = "ct_update" /\ ~HasKey(c, KeyOf(t)) -> "S_NOTFOUND"
         [] call[t].op = "ct_insert" /\ HasKey(c, KeyOf(t)) -> "S_ALREADYIN"
         [] OTHER -> Pending

(* The finger moves to the copy c.  ct_lookup and ct_update keep no path.  *)
Visit(t, c) ==
  /\ path' = [path EXCEPT ![t] = IF call[t].op \in {"ct_lookup", "ct_update"} THEN <<c>> ELSE Append(@, c)]
  /\ call' = [call EXCEPT ![t].ret = ReadResult(t, c)]
  /\ pc' = [pc EXCEPT ![t] = IF ReadResult(t, c) = Pending THEN "descend" ELSE "return"]

(* The path ends at c and the call goes on from there.                     *)
At(t, type) ==
  /\ pc[t] = "descend"
  /\ Last(path[t]).value.type = type
  /\ NameBelow(Last(path[t]), KeyOf(t)) = NULL

LocalsReset(t) ==
  /\ path' = [path EXCEPT ![t] = <<>>]
  /\ subtree' = [subtree EXCEPT ![t] = NULL]
  /\ pred' = [pred EXCEPT ![t] = NULL]
  /\ new_leaf' = [new_leaf EXCEPT ![t] = NULL]
  /\ level' = [level EXCEPT ![t] = 0]

(* SI_RETRY: all locks are released and the operation starts again.        *)
Retry(t) ==
  /\ pc' = [pc EXCEPT ![t] = "start"]
  /\ nodes' = release_all_locks(nodes, t)
  /\ LocalsReset(t)
  /\ UNCHANGED <<is_empty, calls, call, iter, index, cursor>>

-----------------------------------------------------------------------------
(* A call starts.                                                          *)

Inserted(k) ==
  \A t \in Threads :
    /\ \A c \in ToSet(calls[t]) : ~(c.op \in PutCalls /\ c.key = k)
    /\ call[t] # NULL => ~(call[t].op \in PutCalls /\ call[t].key = k)

Start(t) ==
  LET c == Head(calls[t]) IN
  /\ pc[t] = "idle"
  /\ calls[t] # <<>>
  /\ \A k \in StartAfter[t] : Inserted(k)
  /\ calls' = [calls EXCEPT ![t] = Tail(@)]
  /\ call' = [call EXCEPT ![t] = Called(c, Pending)]
  /\ pc' = [pc EXCEPT ![t] = IF c.op = "ct_iter_next" THEN "next" ELSE "start"]
  /\ IF c.op = "ct_iter_goto"
     THEN /\ iter' = [iter EXCEPT ![t].key = c.key]
          /\ cursor' = [cursor EXCEPT ![t] = [low |-> c.key, strict |-> FALSE, must |-> DOMAIN index]]
     ELSE UNCHANGED <<iter, cursor>>
  /\ UNCHANGED <<shared, locals, index>>

(* A reader of an empty trie has its answer.                               *)
EmptyTrie(t) ==
  /\ pc' = [pc EXCEPT ![t] = IF call[t].op \in PutCalls THEN "root_lock" ELSE "return"]
  /\ call' = [call EXCEPT ![t].ret = CASE call[t].op \in PutCalls -> Pending
                                       [] call[t].op = "ct_update" -> "S_NOTFOUND"
                                       [] OTHER -> NULL]
  /\ iter' = IF call[t].op \in IterCalls THEN [iter EXCEPT ![t].is_exhausted = TRUE] ELSE iter
  /\ UNCHANGED path

init_finger(t) ==
  /\ pc[t] = "start"
  /\ \/ is_empty /\ EmptyTrie(t)
     \/ /\ ~is_empty
        /\ Visit(t, Read(Root))
        /\ iter' = IF call[t].op \in IterCalls THEN [iter EXCEPT ![t].is_exhausted = FALSE] ELSE iter
  /\ UNCHANGED <<shared, calls, subtree, pred, new_leaf, level, index, cursor>>

descend(t) ==
  LET n == NameBelow(Last(path[t]), KeyOf(t))
  IN  /\ pc[t] = "descend"
      /\ call[t].op \in IterCalls => iter[t].key # <<>>
      /\ n # NULL
      /\ Visit(t, Read(n))
      /\ UNCHANGED <<shared, calls, subtree, pred, new_leaf, level, iter, index, cursor>>

(* The call returns.  A thread with an iterator goes on to the last key.   *)
Return(t) ==
  /\ pc[t] = "return"
  /\ call' = [call EXCEPT ![t] = NULL]
  /\ calls' = IF call[t].op = "ct_iter_goto" \/ (call[t].op = "ct_iter_next" /\ call[t].ret # NULL)
              THEN [calls EXCEPT ![t] = <<NextCall>> \o @] ELSE calls
  /\ pc' = [pc EXCEPT ![t] = "idle"]
  /\ LocalsReset(t)
  /\ UNCHANGED <<shared, iter, index, cursor>>

-----------------------------------------------------------------------------
(* create_root.                                                            *)

(* The lock of the root's bucket decides who creates the root.             *)
CreateRootLock(t) ==
  /\ pc[t] = "root_lock"
  /\ \/ /\ nodes[Root].lock = NULL
        /\ nodes' = LockNodes(nodes, t, {Root})
        /\ pc' = [pc EXCEPT ![t] = "root_check"]
     \/ /\ nodes[Root].lock # NULL
        /\ pc' = [pc EXCEPT ![t] = "root_wait"]
        /\ UNCHANGED nodes
  /\ UNCHANGED <<is_empty, calls, call, locals, iter, index, cursor>>

CreateRootWait(t) ==
  /\ pc[t] = "root_wait"
  /\ ~is_empty
  /\ pc' = [pc EXCEPT ![t] = "start"]
  /\ UNCHANGED <<shared, calls, call, locals, iter, index, cursor>>

(* The key is put into the index.                                          *)
Effect(t, result) ==
  /\ call' = [call EXCEPT ![t].ret = result]
  /\ index' = [k \in DOMAIN index \cup {call[t].key} |-> IF k = call[t].key THEN call[t].value ELSE index[k]]

PutResult(t) == IF call[t].op = "ct_upsert" THEN TRUE ELSE "S_OK"

(* Nobody looks at the root and at min_leaf until is_empty is cleared.     *)
CreateRootWrite(t) ==
  /\ is_empty' = FALSE
  /\ nodes' = release_all_locks(
                [WriteNode(nodes, Root, Leaf(call[t].key, call[t].value, NULL))
                   EXCEPT ![MinLeaf].value.next_leaf = Root], t)
  /\ Effect(t, PutResult(t))
  /\ pc' = [pc EXCEPT ![t] = "return"]

(* Another thread created the root before this one got the lock.           *)
CreateRootExists(t) ==
  /\ nodes' = release_all_locks(nodes, t)
  /\ pc' = [pc EXCEPT ![t] = "start"]
  /\ UNCHANGED <<is_empty, call, index>>

(* Mutant: is_empty is not read again under the lock.                      *)
CreateRootUnchecked(t) ==
  /\ pc[t] = "root_check"
  /\ CreateRootWrite(t)
  /\ UNCHANGED <<calls, locals, iter, cursor>>

CreateRootCheck(t) ==
  /\ pc[t] = "root_check"
  /\ IF is_empty THEN CreateRootWrite(t) ELSE CreateRootExists(t)
  /\ UNCHANGED <<calls, locals, iter, cursor>>

-----------------------------------------------------------------------------
(* The predecessor of a position.                                          *)

last_symbol(c) == Last(c.name)

(* The lowest bitmap at or above p[i] with a child left of the path.  What *)
(* counts as left of p[i] is given by symbol.                              *)
find_left_descend(p, i, symbol) ==
  LET left(j) == {s \in p[j].value.children : s < IF j = i THEN symbol ELSE last_symbol(p[j + 1])}
      found == {j \in 1..i : p[j].value.type = "BITMAP" /\ left(j) # {}}
  IN  IF found = {} THEN NULL
      ELSE [pos |-> Max(found), name |-> Append(p[Max(found)].name, Max(left(Max(found))))]

NextSymbol(t) == Head(Rest(KeyOf(t), Last(path[t]).name))

LastBitmap(p) == Max({0} \cup {i \in DOMAIN p : p[i].value.type = "BITMAP"})

(* Mutant: a key that is there counts as before the position.              *)
is_strictly_before_longest_prefix(t) ==
  LET c == Last(path[t])
  IN  IF c.value.type = "LEAF" THEN Less(KeyOf(t), c.value.key)
      ELSE LET d == depth_in_jump(c, KeyOf(t)) IN Rest(KeyOf(t), c.name)[d + 1] < c.value.jump[d + 1]

(* The key is before all the keys below the end of the path, or is there.  *)
is_before_longest_prefix(t) ==
  LET c == Last(path[t])
  IN  IF c.value.type = "LEAF" THEN LessEq(KeyOf(t), c.value.key)
      ELSE LET d == depth_in_jump(c, KeyOf(t)) IN Rest(KeyOf(t), c.name)[d + 1] < c.value.jump[d + 1]

(* Where the predecessor of the key is to be found: the largest leaf below *)
(* a node, or NULL for min_leaf.                                           *)
pred_locator(t) ==
  LET p == path[t]
      n == Len(p)
      i == LastBitmap(p)
  IN  IF p[n].value.type = "BITMAP" THEN find_left_descend(p, n, NextSymbol(t))
      ELSE IF call[t].op \in PutCalls
      THEN IF n = 1 THEN NULL ELSE find_left_descend(p, n - 1, last_symbol(p[n]))
      ELSE find_left_descend(p, i, last_symbol(p[i + 1]) + IF is_before_longest_prefix(t) THEN 0 ELSE 1)

(* The iterator is on the leaf before the key.                             *)
Positioned(t, c) ==
  /\ iter' = [iter EXCEPT ![t].leaf = c, ![t].is_exhausted = (c.value.next_leaf = NULL)]
  /\ pc' = [pc EXCEPT ![t] = IF c.value.next_leaf # NULL THEN "advance"
                             ELSE IF call[t].op = "ct_iter_goto" THEN "return" ELSE "resynced"]
  /\ call' = [call EXCEPT ![t].ret =
                IF c.value.next_leaf = NULL /\ call[t].op = "ct_iter_goto" THEN NULL ELSE Pending]
  /\ UNCHANGED <<shared, calls, locals, index, cursor>>

(* get_predecessor_atomic succeeds with the copy c.                        *)
GotPredecessor(t, c) ==
  \/ call[t].op \in IterCalls /\ Positioned(t, c)
  \/ /\ call[t].op \in PutCalls
     /\ pred' = [pred EXCEPT ![t] = c]
     /\ pc' = [pc EXCEPT ![t] = "lock_pred"]
     /\ UNCHANGED <<shared, calls, call, path, subtree, new_leaf, level, iter, index, cursor>>

(* Mutant: a predecessor that another thread is inserting after will do.   *)
PredecessorMaybeDirty(t, c, i) == validate_path_from(path[t], i)

PredecessorValid(t, c, i) == validate_path_from(path[t], i) /\ ~c.value.dirty

(* The thread looks for the predecessor: writers with their path locked.   *)
Seeking(t) ==
  \/ pc[t] = "pred"
  \/ /\ At(t, "BITMAP") \/ At(t, "LEAF") \/ At(t, "JUMP")
     /\ call[t].op \in IterCalls
     /\ iter[t].key # <<>>
     /\ LastBitmap(path[t]) # 0

(* The copy of min_leaf may be dirty: a writer will not get its lock, but  *)
(* an iterator starts from it.                                             *)
PredecessorMinLeaf(t) ==
  /\ Seeking(t)
  /\ pred_locator(t) = NULL
  /\ IF validate_path_from(path[t], 1) THEN GotPredecessor(t, Read(MinLeaf)) ELSE Retry(t)

PredecessorLeaf(t) ==
  LET l == pred_locator(t)
  IN  /\ Seeking(t)
      /\ l # NULL
      /\ nodes[l.name].value.type = "LEAF"
      /\ IF PredecessorValid(t, Read(l.name), l.pos) THEN GotPredecessor(t, Read(l.name)) ELSE Retry(t)

PredecessorSubtree(t) ==
  LET l == pred_locator(t)
  IN  /\ Seeking(t)
      /\ l # NULL
      /\ nodes[l.name].value.type # "LEAF"
      /\ subtree' = [subtree EXCEPT ![t] = Read(l.name)]
      /\ pc' = [pc EXCEPT ![t] = "max_leaf"]
      /\ UNCHANGED <<shared, calls, call, path, pred, new_leaf, level, iter, index, cursor>>

PredecessorMaxLeaf(t) ==
  LET c == Read(subtree[t].value.max_leaf)
  IN  /\ pc[t] = "max_leaf"
      /\ IF /\ c.value.type = "LEAF"
            /\ PredecessorValid(t, c, pred_locator(t).pos)
            /\ validate_entry(subtree[t])
         THEN GotPredecessor(t, c)
         ELSE Retry(t)

get_predecessor_atomic(t) ==
  PredecessorMinLeaf(t) \/ PredecessorLeaf(t) \/ PredecessorSubtree(t) \/ PredecessorMaxLeaf(t)

-----------------------------------------------------------------------------
(* Insertion.                                                              *)

(* split_jump_node: the symbol at which the key leaves the jump node c,    *)
(* after d others, gets a bitmap node.                                     *)
BitmapName(c, d) == c.name \o SubSeq(c.value.jump, 1, d)
SplitBitmap(c, d) == Bitmap({c.value.jump[d + 1]}, c.value.max_leaf)
SplitHead(c, d) == IF d = 0 THEN SplitBitmap(c, d) ELSE Jump(SubSeq(c.value.jump, 1, d), c.value.max_leaf)

HasTail(c, d) == d + 1 < Len(c.value.jump)
TailName(c, d) == Append(BitmapName(c, d), c.value.jump[d + 1])
SplitTail(c, d) == Jump(SubSeq(c.value.jump, d + 2, Len(c.value.jump)), c.value.max_leaf)

JumpSplitNodes(c, d) ==
  [n \in (IF d = 0 THEN {} ELSE {BitmapName(c, d)}) \cup (IF HasTail(c, d) THEN {TailName(c, d)} ELSE {}) |->
     IF n = BitmapName(c, d) THEN SplitBitmap(c, d) ELSE SplitTail(c, d)]

(* Only the write of the new head is visible to others.  A child that gets *)
(* another parent is written too.                                          *)
split_jump_node(t) ==
  LET c == Last(path[t])
      d == depth_in_jump(c, KeyOf(t))
      child == c.name \o c.value.jump
      reparented == IF HasTail(c, d) THEN nodes ELSE WriteNode(nodes, child, nodes[child].value)
      written == AddNodes(update_entry(reparented, c, SplitHead(c, d)), t, JumpSplitNodes(c, d))
  IN  /\ At(t, "JUMP")
      /\ call[t].op \in PutCalls
      /\ IF CanLock(c) /\ (HasTail(c, d) \/ nodes[child].lock = NULL)
         THEN /\ nodes' = release_all_locks(written, t)
              /\ path' = [path EXCEPT ![t] =
                   Append(Front(@), Updated(c, SplitHead(c, d)))
                     \o IF d = 0 THEN <<>>
                        ELSE <<[name |-> BitmapName(c, d), value |-> SplitBitmap(c, d),
                                seq |-> written[BitmapName(c, d)].seq]>>]
              /\ UNCHANGED <<is_empty, calls, call, pc, subtree, pred, new_leaf, level, iter, index, cursor>>
         ELSE Retry(t)

(* The path positions above i whose max_leaf may be the largest leaf below *)
(* p[i].                                                                   *)
LeftParentsAbove(p, i) ==
  {j \in 1..(i - 1) : \A k \in j..(i - 1) :
     p[k].value.type = "JUMP" \/ last_symbol(p[k + 1]) = max_child(p[k].value)}

(* The copies create_leaf and split_leaf lock before the predecessor.      *)
LockPositions(p) ==
  LET n == Len(p)
      i == IF p[n].value.type = "BITMAP" THEN n ELSE n - 1
  IN  {n} \cup ({i} \ {0}) \cup LeftParentsAbove(p, i)

CopiesToLock(p) == {p[j] : j \in LockPositions(p)}

LockPath(t) ==
  /\ At(t, "BITMAP") \/ (At(t, "LEAF") /\ ~HasKey(Last(path[t]), KeyOf(t)))
  /\ call[t].op \in PutCalls
  /\ IF \A c \in CopiesToLock(path[t]) : CanLock(c)
     THEN /\ nodes' = LockNodes(nodes, t, {c.name : c \in CopiesToLock(path[t])})
          /\ pc' = [pc EXCEPT ![t] = "pred"]
          /\ UNCHANGED <<is_empty, calls, call, locals, iter, index, cursor>>
     ELSE Retry(t)

(* create_leaf: the new leaf, a child of the bitmap c.                     *)
NewChildName(c, key) == Append(c.name, Head(Rest(key, c.name)))
CreatedLeaf(c, new, next) == [n \in {NewChildName(c, new.key)} |-> Leaf(new.key, new.value, next)]

(* split_leaf: the keys part after the symbols of the fork.                *)
Fork(a, b) == SubSeq(KeySymbols(a), 1, CommonLength(KeySymbols(a), KeySymbols(b)))

LeafBelow(fork, key) == SubSeq(KeySymbols(key), 1, Len(fork) + 1)
Smaller(a, b) == IF Less(a, b) THEN a ELSE b
Larger(a, b) == IF Less(a, b) THEN b ELSE a
MinimalLeaf(a, b) == LeafBelow(Fork(a, b), Smaller(a, b))
MaximalLeaf(a, b) == LeafBelow(Fork(a, b), Larger(a, b))

(* The leaf with the old key and the one with the new key.                 *)
SplitLeaves(old, new) ==
  LET min == MinimalLeaf(old.key, new.key)
      max == MaximalLeaf(old.key, new.key)
      NextOf(n) == IF n = min THEN max ELSE old.next_leaf
  IN  [n \in {min, max} |-> IF n = LeafBelow(Fork(old.key, new.key), old.key)
                            THEN Leaf(old.key, old.kv, NextOf(n))
                            ELSE Leaf(new.key, new.value, NextOf(n))]

(* Jump nodes of at most MAX_JUMP_SYMBOLS symbols lead from the leaf c to  *)
(* the fork.                                                               *)
PathStarts(c, fork) ==
  {n \in Len(c.name)..(Len(fork) - 1) : (n - Len(c.name)) % MAX_JUMP_SYMBOLS = 0}
JumpEnd(n, fork) == Min({n + MAX_JUMP_SYMBOLS, Len(fork)})
PathNodes(c, key) ==
  LET fork == Fork(c.value.key, key)
      min == MinimalLeaf(c.value.key, key)
      max == MaximalLeaf(c.value.key, key)
  IN  [n \in {SubSeq(fork, 1, i) : i \in PathStarts(c, fork) \cup {Len(fork)}} |->
         IF n = fork THEN Bitmap({Last(min), Last(max)}, max)
         ELSE Jump(SubSeq(fork, Len(n) + 1, JumpEnd(Len(n), fork)), max)]

(* All but the head of the path nodes, which takes the place of the leaf.  *)
SplitNodes(c, new) ==
  LET leaves == SplitLeaves(c.value, new)
      inner == PathNodes(c, new.key)
  IN  [n \in DOMAIN leaves \cup (DOMAIN inner \ {c.name}) |-> IF n \in DOMAIN leaves THEN leaves[n] ELSE inner[n]]

NewNodes(t) ==
  IF Last(path[t]).value.type = "BITMAP" THEN CreatedLeaf(Last(path[t]), call[t], pred[t].value.next_leaf)
  ELSE SplitNodes(Last(path[t]), call[t])

FirstNewLeaf(t) ==
  IF Last(path[t]).value.type = "BITMAP" THEN NewChildName(Last(path[t]), call[t].key)
  ELSE MinimalLeaf(Last(path[t]).value.key, call[t].key)

(* Mutant: the lock is taken whatever happened to the predecessor.         *)
PredecessorUnlocked(c) == nodes[c.name].lock = NULL

PredecessorLockable(c) == CanLock(c)

(* The predecessor is locked, the new nodes are added where nobody can     *)
(* reach them, and the predecessor is marked dirty.                        *)
LockPredecessor(t) ==
  LET dirty == [pred[t].value EXCEPT !.dirty = TRUE]
      locked == LockNodes(nodes, t, {pred[t].name})
  IN  /\ pc[t] = "lock_pred"
      /\ IF PredecessorLockable(pred[t])
         THEN /\ nodes' = AddNodes(update_entry(locked, pred[t], dirty), t, NewNodes(t))
              /\ pred' = [pred EXCEPT ![t] = Updated(@, dirty)]
              /\ new_leaf' = [new_leaf EXCEPT ![t] = FirstNewLeaf(t)]
              /\ pc' = [pc EXCEPT ![t] = IF Last(path[t]).value.type = "BITMAP" THEN "link" ELSE "head"]
              /\ UNCHANGED <<is_empty, calls, call, path, subtree, level, iter, index, cursor>>
         ELSE Retry(t)

(* A write to the end of the path that makes the new key reachable.        *)
WritePathEnd(t, value) ==
  /\ nodes' = update_entry(nodes, Last(path[t]), value)
  /\ path' = [path EXCEPT ![t] = Append(Front(@), Updated(Last(@), value))]
  /\ Effect(t, PutResult(t))
  /\ UNCHANGED <<is_empty, calls, subtree, pred, new_leaf, iter, cursor>>

(* split_leaf: the first path node takes the place of the leaf.            *)
WriteHead(t) ==
  /\ pc[t] = "head"
  /\ WritePathEnd(t, PathNodes(Last(path[t]), call[t].key)[Last(path[t]).name])
  /\ pc' = [pc EXCEPT ![t] = "link"]
  /\ UNCHANGED level

(* linklist_insert and linklist_insert_two.                                *)
LinkLeaves(t) ==
  LET linked == [pred[t].value EXCEPT !.next_leaf = new_leaf[t]]
  IN  /\ pc[t] = "link"
      /\ nodes' = update_entry(nodes, pred[t], linked)
      /\ pred' = [pred EXCEPT ![t] = Updated(@, linked)]
      /\ \/ /\ call[t].ret = Pending
            /\ pc' = [pc EXCEPT ![t] = "mark"]
            /\ UNCHANGED level
         \/ /\ call[t].ret # Pending
            /\ pc' = [pc EXCEPT ![t] = "propagate"]
            /\ level' = [level EXCEPT ![t] = Len(path[t])]
      /\ UNCHANGED <<is_empty, calls, call, path, subtree, new_leaf, iter, index, cursor>>

MarkedBitmap(value, symbol, leaf) ==
  Bitmap(value.children \cup {symbol}, IF max_child(value) < symbol THEN leaf ELSE value.max_leaf)

mark_bitmap_child(t) ==
  /\ pc[t] = "mark"
  /\ WritePathEnd(t, MarkedBitmap(Last(path[t]).value, NextSymbol(t), new_leaf[t]))
  /\ pc' = [pc EXCEPT ![t] = "propagate"]
  /\ level' = [level EXCEPT ![t] = Len(path[t])]

(* Mutant: max_leaf of a jump node is not brought up to date.              *)
PropagatesToBitmap(p, i) ==
  i > 1 /\ p[i - 1].value.type = "BITMAP" /\ last_symbol(p[i]) >= max_child(p[i - 1].value)

Propagates(p, i) ==
  i > 1 /\ (p[i - 1].value.type = "BITMAP" => last_symbol(p[i]) >= max_child(p[i - 1].value))

propagate_max_leaf(t) ==
  LET i == level[t]
      parent == path[t][i - 1]
      value == [parent.value EXCEPT !.max_leaf = path[t][i].value.max_leaf]
  IN  /\ pc[t] = "propagate"
      /\ Propagates(path[t], i)
      /\ nodes' = update_entry(nodes, parent, value)
      /\ path' = [path EXCEPT ![t][i - 1] = Updated(parent, value)]
      /\ level' = [level EXCEPT ![t] = i - 1]
      /\ UNCHANGED <<is_empty, calls, call, pc, subtree, pred, new_leaf, iter, index, cursor>>

(* Mutant: the predecessor stays dirty.                                    *)
CleanNothing(t) ==
  /\ pc[t] = "propagate"
  /\ ~Propagates(path[t], level[t])
  /\ nodes' = release_all_locks(nodes, t)
  /\ call' = [call EXCEPT ![t] = NULL]
  /\ pc' = [pc EXCEPT ![t] = "idle"]
  /\ LocalsReset(t)
  /\ UNCHANGED <<is_empty, calls, iter, index, cursor>>

(* mark_entry_clean, release_all_locks and the return to the caller.       *)
Clean(t) ==
  /\ pc[t] = "propagate"
  /\ ~Propagates(path[t], level[t])
  /\ nodes' = release_all_locks(update_entry(nodes, pred[t], [pred[t].value EXCEPT !.dirty = FALSE]), t)
  /\ call' = [call EXCEPT ![t] = NULL]
  /\ pc' = [pc EXCEPT ![t] = "idle"]
  /\ LocalsReset(t)
  /\ UNCHANGED <<is_empty, calls, iter, index, cursor>>

(* ct_update and ct_upsert of a key that is there: the leaf is locked,     *)
(* written and released.                                                   *)
SetValue(t) ==
  LET c == Last(path[t])
  IN  /\ At(t, "LEAF")
      /\ call[t].op \in {"ct_update", "ct_upsert"}
      /\ HasKey(c, KeyOf(t))
      /\ IF CanLock(c)
         THEN /\ nodes' = update_entry(nodes, c, [c.value EXCEPT !.kv = call[t].value])
              /\ Effect(t, IF call[t].op = "ct_upsert" THEN FALSE ELSE "S_OK")
              /\ pc' = [pc EXCEPT ![t] = "return"]
              /\ UNCHANGED <<is_empty, calls, locals, iter, cursor>>
         ELSE Retry(t)

-----------------------------------------------------------------------------
(* Iterators.                                                              *)

(* The empty key is before all others.                                     *)
IterGotoFirst(t) ==
  /\ pc[t] = "descend"
  /\ call[t].op \in IterCalls
  /\ iter[t].key = <<>>
  /\ Positioned(t, Read(MinLeaf))

(* There is no bitmap on the path: all keys are after the key, or none is. *)
IterGotoNoBitmap(t) ==
  /\ At(t, "LEAF") \/ At(t, "JUMP")
  /\ call[t].op \in IterCalls
  /\ iter[t].key # <<>>
  /\ LastBitmap(path[t]) = 0
  /\ IF is_before_longest_prefix(t)
     THEN IF nodes[MinLeaf].value.dirty THEN Retry(t) ELSE Positioned(t, Read(MinLeaf))
     ELSE /\ iter' = [iter EXCEPT ![t].is_exhausted = TRUE]
          /\ call' = [call EXCEPT ![t].ret = IF call[t].op = "ct_iter_goto" THEN NULL ELSE @]
          /\ pc' = [pc EXCEPT ![t] = IF call[t].op = "ct_iter_goto" THEN "return" ELSE "resynced"]
          /\ UNCHANGED <<shared, calls, locals, index, cursor>>

(* ct_iter_goto moves on to the leaf it will report.                       *)
IterGotoAdvance(t) ==
  LET c == Read(iter[t].leaf.value.next_leaf)
  IN  /\ pc[t] = "advance"
      /\ IF c.value.type = "LEAF"
         THEN /\ iter' = [iter EXCEPT ![t].leaf = c, ![t].report_current = TRUE]
              /\ call' = [call EXCEPT ![t].ret = IF call[t].op = "ct_iter_goto" THEN NULL ELSE @]
              /\ pc' = [pc EXCEPT ![t] = IF call[t].op = "ct_iter_goto" THEN "return" ELSE "resynced"]
              /\ UNCHANGED <<shared, calls, locals, index, cursor>>
         ELSE Retry(t)

(* ct_iter_next reports the key it has a copy of, or NULL.                 *)
Reports(t, key) ==
  /\ call' = [call EXCEPT ![t].ret = key]
  /\ cursor' = IF key = NULL THEN cursor ELSE [cursor EXCEPT ![t].low = key, ![t].strict = TRUE]
  /\ pc' = [pc EXCEPT ![t] = "return"]
  /\ UNCHANGED <<shared, calls, locals, index>>

IterNextCurrent(t) ==
  /\ pc[t] = "next"
  /\ \/ /\ iter[t].is_exhausted
        /\ Reports(t, NULL)
        /\ UNCHANGED iter
     \/ /\ ~iter[t].is_exhausted /\ iter[t].report_current
        /\ Reports(t, iter[t].leaf.value.key)
        /\ iter' = [iter EXCEPT ![t].report_current = FALSE]
     \/ /\ ~iter[t].is_exhausted /\ ~iter[t].report_current
        /\ iter[t].leaf.value.next_leaf = NULL
        /\ Reports(t, NULL)
        /\ iter' = [iter EXCEPT ![t].is_exhausted = TRUE]

(* The next leaf is read; if it has been split the iterator is moved to    *)
(* the last key again.                                                     *)
IterNextRead(t) ==
  LET c == Read(iter[t].leaf.value.next_leaf)
  IN  /\ \/ pc[t] = "next" /\ ~iter[t].is_exhausted /\ ~iter[t].report_current
        \/ pc[t] = "next_again"
      /\ iter[t].leaf.value.next_leaf # NULL
      /\ IF c.value.type = "LEAF"
         THEN /\ iter' = [iter EXCEPT ![t].leaf = c]
              /\ Reports(t, c.value.key)
         ELSE /\ iter' = [iter EXCEPT ![t].key = iter[t].leaf.value.key]
              /\ pc' = [pc EXCEPT ![t] = "start"]
              /\ UNCHANGED <<shared, calls, call, locals, index, cursor>>

(* The iterator is on the last key it reported, which it reports no more.  *)
IterNextResynced(t) ==
  /\ pc[t] = "resynced"
  /\ iter' = [iter EXCEPT ![t].report_current = FALSE]
  /\ pc' = [pc EXCEPT ![t] = "next_again"]
  /\ LocalsReset(t)
  /\ UNCHANGED <<shared, calls, call, index, cursor>>

-----------------------------------------------------------------------------
NoIter == [leaf |-> NULL, key |-> NULL, is_exhausted |-> FALSE, report_current |-> FALSE]
NoCursor == [low |-> NULL, strict |-> FALSE, must |-> {}]

Init ==
  /\ is_empty = TRUE
  /\ nodes = [n \in Names |-> [value |-> IF n = MinLeaf THEN Leaf(NULL, NULL, NULL) ELSE Unused,
                               seq |-> 0, lock |-> NULL]]
  /\ calls \in Programs
  /\ call = [t \in Threads |-> NULL]
  /\ pc = [t \in Threads |-> "idle"]
  /\ path = [t \in Threads |-> <<>>]
  /\ subtree = [t \in Threads |-> NULL]
  /\ pred = [t \in Threads |-> NULL]
  /\ new_leaf = [t \in Threads |-> NULL]
  /\ level = [t \in Threads |-> 0]
  /\ iter = [t \in Threads |-> NoIter]
  /\ index = <<>>
  /\ cursor = [t \in Threads |-> NoCursor]

create_root(t) == CreateRootLock(t) \/ CreateRootWait(t) \/ CreateRootCheck(t)

create_leaf(t) ==
  \/ split_jump_node(t)
  \/ LockPath(t)
  \/ LockPredecessor(t)
  \/ WriteHead(t)
  \/ LinkLeaves(t)
  \/ mark_bitmap_child(t)
  \/ propagate_max_leaf(t)
  \/ Clean(t)

Iterate(t) ==
  \/ IterGotoFirst(t)
  \/ IterGotoNoBitmap(t)
  \/ IterGotoAdvance(t)
  \/ IterNextCurrent(t)
  \/ IterNextRead(t)
  \/ IterNextResynced(t)

Step(t) ==
  \/ Start(t)
  \/ init_finger(t)
  \/ descend(t)
  \/ create_root(t)
  \/ get_predecessor_atomic(t)
  \/ create_leaf(t)
  \/ SetValue(t)
  \/ Iterate(t)
  \/ Return(t)

Done == (\A t \in Threads : call[t] = NULL /\ calls[t] = <<>>) /\ UNCHANGED vars

Next == (\E t \in Threads : Step(t)) \/ Done

Spec == Init /\ [][Next]_vars

(* Weak fairness of every thread, with the condition under which a thread  *)
(* can take a step written out: it waits for the threads it is created     *)
(* after, and for the root.                                                *)
Ready(t) ==
  IF call[t] = NULL THEN calls[t] # <<>> /\ \A k \in StartAfter[t] : Inserted(k)
  ELSE pc[t] = "root_wait" => ~is_empty

FairSpec == Spec /\ \A t \in Threads : ([]<>~Ready(t)) \/ ([]<><<Step(t)>>_vars)

-----------------------------------------------------------------------------
(* Copies, and the nodes they are of, are of the kinds the code expects.   *)
TypeOK ==
  /\ is_empty \in BOOLEAN
  /\ \A n \in Names : /\ nodes[n].value.type \in {"UNUSED", "LEAF", "BITMAP", "JUMP"}
                       /\ nodes[n].seq \in Nat
                       /\ nodes[n].lock \in Threads \cup {NULL}
  /\ \A t \in Threads :
       /\ ToSet(calls[t]) \subseteq AllCalls
       /\ \A i \in DOMAIN path[t] : path[t][i].value.type # "UNUSED"
       /\ pred[t] # NULL => pred[t].value.type = "LEAF"
       /\ subtree[t] # NULL => subtree[t].value.type \in {"BITMAP", "JUMP"}
       /\ iter[t].leaf # NULL => iter[t].leaf.value.type = "LEAF"
       /\ pc[t] = "idle" <=> call[t] = NULL

(* What a search for key k ends at, in the trie as it is now.              *)
NodeOf(k) ==
  LET below(n) == NameBelow(Read(n), k)
      search[n \in Prefixes(KeySymbols(k))] == IF below(n) = NULL THEN n ELSE search[below(n)]
  IN  search[Root]

Contents ==
  LET found == {k \in Keys : HasKey(Read(NodeOf(k)), k)}
  IN  [k \in found |-> nodes[NodeOf(k)].value.kv]

(* In every state a search finds the keys whose insertion took effect, with *)
(* their values, and no others.                                            *)
SearchFindsIndex == Contents = index

(* n is the leaf of the smallest of the keys, or NULL if there are none.   *)
IsFirstLeaf(n, keys) ==
  IF keys = {} THEN n = NULL ELSE \E k \in keys : n = NodeOf(k) /\ \A x \in keys : LessEq(k, x)

(* When no call is under way the trie is what ct_verify_trie expects: the  *)
(* list begins with the leaf of the smallest key and goes on, from the     *)
(* leaf of every key, with that of the next larger one; max_leaf is the    *)
(* largest leaf below a node; nothing is locked or dirty.                  *)
QuietTrieVerifies ==
  (\A t \in Threads : call[t] = NULL) /\ ~is_empty =>
    /\ IsFirstLeaf(nodes[MinLeaf].value.next_leaf, DOMAIN index)
    /\ \A k \in DOMAIN index :
         /\ HasKey(Read(NodeOf(k)), k)
         /\ IsFirstLeaf(nodes[NodeOf(k)].value.next_leaf, {x \in DOMAIN index : Less(k, x)})
    /\ \A n \in Names :
         /\ nodes[n].lock = NULL
         /\ nodes[n].value.type = "LEAF" => ~nodes[n].value.dirty
         /\ nodes[n].value.type \in {"BITMAP", "JUMP"} =>
              \E k \in DOMAIN index : /\ nodes[n].value.max_leaf = NodeOf(k) /\ IsPrefix(n, NodeOf(k))
                                      /\ \A x \in DOMAIN index : IsPrefix(n, NodeOf(x)) => LessEq(x, k)

(* assert(iter->report_current) in ct_iter_next: after the iterator has    *)
(* been moved to the last key it is on that key, not on another and not at *)
(* the end.                                                                *)
ResyncFindsLastKey ==
  \A t \in Threads : pc[t] = "resynced" =>
    ~iter[t].is_exhausted /\ iter[t].report_current /\ iter[t].leaf.value.key = cursor[t].low

(* ct_iter_goto places the iterator on a key that is not below the one it  *)
(* was given.                                                              *)
GotoNotBelow ==
  \A t \in Threads :
    pc[t] = "return" /\ call[t].op = "ct_iter_goto" /\ ~iter[t].is_exhausted =>
      LessEq(call[t].key, iter[t].leaf.value.key)

(* Lookups and iterators return whatever writers do: a dirty mark that     *)
(* makes ct_iter_goto retry is removed.                                    *)
ReadersReturn ==
  \A t \in Threads :
    call[t] # NULL /\ call[t].op \in IterCalls \cup {"ct_lookup"} ~> call[t] = NULL

(* The calls of the threads take effect one at a time, each between its    *)
(* start and its return, and the iterators keep their promises.            *)
Index == INSTANCE ConcurrentIndex WITH
  Calls <- AllCalls, index <- index, call <- call, cursor <- cursor

Linearizable == Index!Spec
=============================================================================
