----------------------------- MODULE CuckooTrie ------------------------------
(***************************************************************************)
(* The trie in the hash table (main.c), used by one thread: insert, upsert *)
(* update, lookup and iteration, down to the cells of the table.           *)
(*                                                                         *)
(* A trie node is an entry of the table.  It is named by the hash of its   *)
(* prefix and a color; the child of a bitmap node is found by its hash,    *)
(* its last symbol and the color of its parent.  The leaves form a sorted  *)
(* list that starts at the pseudo-leaf min_leaf.                           *)
(*                                                                         *)
(* One attempt of an operation is one step: locks and sequence numbers,    *)
(* which the modules Atomics and CuckooTable are about, show only where    *)
(* the thread's own writes make it retry.  Dirty marks are set and cleared *)
(* within a step.  A key is the sequence of its symbols.                   *)
(***************************************************************************)
EXTENDS PrefixHash, KeyOrder, SequencesExt

CONSTANTS
  CUCKOO_BUCKET_SIZE, RELOCATE_QUEUE_SIZE, MAX_JUMP_SYMBOLS,
  Keys, Values,
  MaxKeyLength,   \* longer keys are refused (MAX_KEY_BYTES)
  Workloads,      \* the keys and values the thread uses and the functions it calls
  NULL

ASSUME KeysAssumption == Keys \subseteq Seq(1..FANOUT)
ASSUME SizesAssumption ==
  {CUCKOO_BUCKET_SIZE, RELOCATE_QUEUE_SIZE, MAX_JUMP_SYMBOLS} \subseteq Nat \ {0}
Operations == {"ct_insert", "ct_upsert", "ct_update", "ct_lookup", "ct_iter_goto", "ct_iter_next"}
ASSUME WorkloadsAssumption ==
  \A w \in Workloads : w.keys \subseteq Keys /\ w.values \subseteq Values /\ w.calls \subseteq Operations

CellNumbers == 0..(CUCKOO_BUCKET_SIZE - 1)
Cells == Buckets \X CellNumbers
RootCell == <<hash_to_bucket(HASH_START_VALUE), 0>>
MinLeafCell == <<num_buckets, 0>>

MAX_VALID_COLOR == 2 * CUCKOO_BUCKET_SIZE
INVALID_COLOR == MAX_VALID_COLOR + 1
ROOT_COLOR == 0
ROOT_LAST_SYMBOL == 0

VARIABLES
  workload,  \* never changes
  cells,     \* cell -> entry; also the cell of min_leaf
  is_empty,  \* no root yet
  call,      \* the ct_insert or ct_upsert under way, or NULL; retried changes with every attempt
  iter,      \* the iterator: local copy of a leaf, is_exhausted, report_current
  index,     \* what ct_lookup finds: key -> value
  full, cursor, last   \* history, as in OrderedIndex

vars == <<workload, cells, is_empty, call, iter, index, full, cursor, last>>

-----------------------------------------------------------------------------
(* Entries.  add_entry fills in tag, color and secondary.                  *)

Header(type, last_symbol, parent_color) ==
  [type |-> type, last_symbol |-> last_symbol, parent_color |-> parent_color,
   tag |-> 0, color |-> INVALID_COLOR, secondary |-> FALSE]

Unused == Header("UNUSED", 0, INVALID_COLOR)

Leaf(last_symbol, parent_color, kv, next) ==
  Header("LEAF", last_symbol, parent_color) @@ [kv |-> kv, next_leaf |-> next]

Bitmap(last_symbol, parent_color, children, max_leaf) ==
  Header("BITMAP", last_symbol, parent_color)
    @@ [child_bitmap |-> children, max_child |-> Max(children), max_leaf |-> max_leaf]

Jump(last_symbol, parent_color, symbols, child_color, max_leaf) ==
  Header("JUMP", last_symbol, parent_color)
    @@ [jump |-> symbols, child_color |-> child_color, max_leaf |-> max_leaf]

Locator(hash, color) == [hash |-> hash, color |-> color]
RootLocator == Locator(HASH_START_VALUE, ROOT_COLOR)

KeySymbols(key) == Append(key, SYMBOL_END)
HashOfPrefix(symbols, n) == FoldLeft(accumulate_hash, HASH_START_VALUE, SubSeq(symbols, 1, n))

-----------------------------------------------------------------------------
(* The table.  c is the contents of the cells.                             *)

PairCells(hash) ==
  {hash_to_bucket(hash), mix_bucket(hash_to_bucket(hash), hash_to_tag(hash))} \X CellNumbers

InPair(c, hash, p) ==
  /\ c[p].tag = hash_to_tag(hash)
  /\ c[p].secondary = (p[1] # hash_to_bucket(hash))

(* The primary bucket is searched first, a bucket from its first cell.     *)
FirstCell(c, S) ==
  IF S = {} THEN NULL
  ELSE CHOOSE p \in S : \A q \in S : \/ ~c[p].secondary /\ c[q].secondary
                                     \/ c[p].secondary = c[q].secondary /\ p[2] <= q[2]

find_entry_in_pair_by_color(c, hash, color) ==
  FirstCell(c, {p \in PairCells(hash) : InPair(c, hash, p) /\ c[p].color = color})

find_entry_in_pair_by_parent(c, hash, last_symbol, parent_color) ==
  FirstCell(c, {p \in PairCells(hash) : /\ InPair(c, hash, p)
                                        /\ c[p].last_symbol = last_symbol
                                        /\ c[p].parent_color = parent_color})

locator_to_entry(c, l) == c[find_entry_in_pair_by_color(c, l.hash, l.color)]

(* A cell that has moved since it was read is found again by its color; it *)
(* keeps the flag of the bucket it is in.                                  *)
update_entry(c, l, e) ==
  LET p == find_entry_in_pair_by_color(c, l.hash, l.color)
  IN  [c EXCEPT ![p] = [e EXCEPT !.secondary = c[p].secondary]]

remove_entries(c, locators) ==
  LET removed == {find_entry_in_pair_by_color(c, l.hash, l.color) : l \in locators}
  IN  [p \in DOMAIN c |-> IF p \in removed THEN Unused ELSE c[p]]

find_free_cell_in_bucket(c, b) ==
  LET free == {i \in CellNumbers : c[<<b, i>>].type = "UNUSED"}
  IN  IF free = {} THEN NULL ELSE <<b, Min(free)>>

(* Mutant: one more than the largest color in use.                         *)
NextColorInPair(c, b1, b2) ==
  1 + Max({-1} \cup ({c[p].color : p \in {b1, b2} \X CellNumbers} \ {INVALID_COLOR}))

unused_color_in_pair(c, b1, b2) ==
  Min((0..(MAX_VALID_COLOR + 2)) \ {c[p].color : p \in {b1, b2} \X CellNumbers})

(* relocate_entry, first part: examine cell i of the bucket at queue       *)
(* position pos, unless a free cell was found or the queue has ended.      *)
SearchStep(c, immovable, s, pos, i) ==
  LET p == <<s.queue[pos].bucket, i>>
      b == alternate_bucket(c[p], p[1])
      free == find_free_cell_in_bucket(c, b)
  IN  CASE s.free # NULL \/ pos > Len(s.queue) -> s
        [] p \in {immovable, RootCell} \/ \E j \in DOMAIN s.queue : s.queue[j].bucket = b -> s
        [] free # NULL -> [s EXCEPT !.free = free, !.pos = pos, !.child = i]
        [] free = NULL /\ Len(s.queue) < RELOCATE_QUEUE_SIZE ->
             [s EXCEPT !.queue = Append(@, [bucket |-> b, parent |-> pos, child |-> i])]
        [] OTHER -> s

SearchFreeCell(c, immovable, bucket) ==
  FoldLeft(LAMBDA s, n : SearchStep(c, immovable, s, n \div CUCKOO_BUCKET_SIZE, n % CUCKOO_BUCKET_SIZE),
           [queue |-> <<[bucket |-> bucket, parent |-> 0, child |-> 0]>>,
            free |-> NULL, pos |-> 0, child |-> 0],
           [n \in 1..(RELOCATE_QUEUE_SIZE * CUCKOO_BUCKET_SIZE) |-> n + CUCKOO_BUCKET_SIZE - 1])

(* Mutant: the moved entry keeps the flag of the bucket it leaves.         *)
MoveStepKeepsFlag(s) ==
  LET from == <<s.queue[s.pos].bucket, s.child>>
  IN  IF s.pos = 0 THEN s
      ELSE [s EXCEPT !.cells = [s.cells EXCEPT ![from] = Unused, ![s.free] = s.cells[from]],
                     !.written = @ \cup {s.free[1], from[1]},
                     !.free = from,
                     !.pos = s.queue[s.pos].parent,
                     !.child = s.queue[s.pos].child]

(* Second part: fill the free cell from the bucket at queue position pos.  *)
MoveStep(s) ==
  LET from == <<s.queue[s.pos].bucket, s.child>>
  IN  IF s.pos = 0 THEN s
      ELSE [s EXCEPT !.cells = [s.cells EXCEPT ![from] = Unused,
                                  ![s.free] = [s.cells[from] EXCEPT !.secondary = ~@]],
                     !.written = @ \cup {s.free[1], from[1]},
                     !.free = from,
                     !.pos = s.queue[s.pos].parent,
                     !.child = s.queue[s.pos].child]

(* The freed cell, NULL for SI_FAIL, and the buckets written to.           *)
MoveAlongPath(s) ==
  IF s.free = NULL THEN s ELSE FoldLeft(LAMBDA m, n : MoveStep(m), s, s.queue)

relocate_entry(c, bucket, immovable) ==
  MoveAlongPath(SearchFreeCell(c, immovable, bucket) @@ [cells |-> c, written |-> {}])

(* add_entry.  A cell freed by moving entries through the other bucket of  *)
(* the pair changes that bucket's sequence number: the new entry is        *)
(* withdrawn and the caller told to retry.                                 *)
PutEntry(c, e, tag, color, p, secondary) ==
  [ret |-> "SI_OK", cell |-> p, color |-> color,
   cells |-> [c EXCEPT ![p] = [e EXCEPT !.tag = tag, !.color = color, !.secondary = secondary]]]

Placed(c, hash, e, p) ==
  LET b1 == hash_to_bucket(hash)
      b2 == mix_bucket(b1, hash_to_tag(hash))
  IN  PutEntry(c, e, hash_to_tag(hash), unused_color_in_pair(c, b1, b2), p, p[1] = b2)

NotPlaced(ret, c) == [ret |-> ret, cell |-> NULL, color |-> INVALID_COLOR, cells |-> c]

(* Mutant: a full table is taken for a conflict.                           *)
PlacedAfterFullRetries(moved, hash, e, b2) ==
  IF moved.free = NULL \/ b2 \in moved.written THEN NotPlaced("SI_RETRY", moved.cells)
  ELSE Placed(moved.cells, hash, e, moved.free)

PlacedAfter(moved, hash, e, b2) ==
  CASE moved.free = NULL -> NotPlaced("SI_FAIL", moved.cells)
    [] moved.free # NULL /\ b2 \in moved.written -> NotPlaced("SI_RETRY", moved.cells)
    [] OTHER -> Placed(moved.cells, hash, e, moved.free)

add_entry(c, hash, e, immovable) ==
  LET b1 == hash_to_bucket(hash)
      b2 == mix_bucket(b1, hash_to_tag(hash))
      p1 == find_free_cell_in_bucket(c, b1)
      p2 == find_free_cell_in_bucket(c, b2)
  IN  IF p1 # NULL \/ p2 # NULL THEN Placed(c, hash, e, IF p1 # NULL THEN p1 ELSE p2)
      ELSE PlacedAfter(relocate_entry(c, b1, immovable), hash, e, b2)

-----------------------------------------------------------------------------
(* The finger: the nodes on the path to it, the hash and length of the     *)
(* prefix, its depth inside a jump node, and the symbol it stopped at.     *)

init_finger == [path |-> <<RootLocator>>, hash |-> HASH_START_VALUE, prefix_len |-> 0,
                depth_in_jump |-> 0, symbol |-> NULL]

containing_entry(c, f) == locator_to_entry(c, Last(f.path))

StuckAt(f, symbol) == [f EXCEPT !.symbol = symbol]

(* The prefix grows by a symbol; l is the node reached, NULL inside a jump.*)
Extended(f, hash, l) ==
  [f EXCEPT !.path = IF l = NULL THEN @ ELSE Append(@, l),
            !.hash = hash,
            !.prefix_len = @ + 1,
            !.depth_in_jump = IF l = NULL THEN @ + 1 ELSE 0]

DescendJump(f, e, hash, symbol) ==
  IF e.jump[f.depth_in_jump + 1] # symbol THEN StuckAt(f, symbol)
  ELSE Extended(f, hash, IF f.depth_in_jump + 1 = Len(e.jump)
                           THEN Locator(hash, e.child_color) ELSE NULL)

(* The code would look for a marked child that is in neither bucket for    *)
(* ever; here the descent ends.                                            *)
ToChild(c, f, hash, symbol, child) ==
  IF child = NULL THEN StuckAt(f, symbol) ELSE Extended(f, hash, Locator(hash, c[child].color))

DescendBitmap(c, f, e, hash, symbol) ==
  IF symbol \notin e.child_bitmap THEN StuckAt(f, symbol)
  ELSE ToChild(c, f, hash, symbol, find_entry_in_pair_by_parent(c, hash, symbol, e.color))

DescendFrom(c, f, e, symbol) ==
  CASE e.type = "LEAF" -> StuckAt(f, symbol)
    [] e.type = "JUMP" -> DescendJump(f, e, accumulate_hash(f.hash, symbol), symbol)
    [] e.type = "BITMAP" -> DescendBitmap(c, f, e, accumulate_hash(f.hash, symbol), symbol)

try_descend(c, f, symbol) == DescendFrom(c, f, containing_entry(c, f), symbol)

descend(c, key) ==
  FoldLeft(LAMBDA f, symbol : IF f.symbol # NULL THEN f ELSE try_descend(c, f, symbol),
           init_finger, KeySymbols(key))

(* Mutant: the symbol itself counts as left of it.                         *)
ChildrenLeftOrAt(e, symbol) ==
  IF e.type = "BITMAP" THEN {s \in e.child_bitmap : s <= symbol} ELSE {}

(* The children left of a symbol, for each node of the path as far as n,   *)
(* which the path leaves at symbol.                                        *)
ChildrenLeft(e, symbol) ==
  IF e.type = "BITMAP" THEN {s \in e.child_bitmap : s < symbol} ELSE {}

LeftOfPath(c, path, n, symbol) ==
  [j \in 1..n |-> ChildrenLeft(locator_to_entry(c, path[j]),
                               IF j = n THEN symbol ELSE locator_to_entry(c, path[j + 1]).last_symbol)]

(* The closest bitmap at or above path[n] with a child left of the path:   *)
(* its position and that child, or NULL.                                   *)
ClosestLeft(left) ==
  LET found == {j \in DOMAIN left : left[j] # {}}
  IN  IF found = {} THEN NULL ELSE [pos |-> Max(found), symbol |-> Max(left[Max(found)])]

find_left_descend(c, path, n, symbol) == ClosestLeft(LeftOfPath(c, path, n, symbol))

(* The largest leaf left of there: its locator, NULL for min_leaf.         *)
LargestLeaf(e, hash) == IF e.type = "LEAF" THEN Locator(hash, e.color) ELSE e.max_leaf

LargestLeafUnder(c, bitmap, hash, symbol) ==
  LargestLeaf(c[find_entry_in_pair_by_parent(c, hash, symbol, bitmap.color)], hash)

PredecessorAt(c, path, d) ==
  IF d = NULL THEN NULL
  ELSE LargestLeafUnder(c, path[d.pos], accumulate_hash(path[d.pos].hash, d.symbol), d.symbol)

find_predecessor(c, path, n, symbol) == PredecessorAt(c, path, find_left_descend(c, path, n, symbol))

leaf_entry(c, l) == IF l = NULL THEN c[MinLeafCell] ELSE locator_to_entry(c, l)

linklist_insert(c, pred, l) ==
  IF pred = NULL THEN [c EXCEPT ![MinLeafCell].next_leaf = l]
                 ELSE update_entry(c, pred, [locator_to_entry(c, pred) EXCEPT !.next_leaf = l])

(* The max_leaf of the last node goes up the path as far as each node is   *)
(* the largest child of the one above.                                     *)
MaxLeafStops(nodes) ==
  {j \in 2..Len(nodes) : /\ nodes[j - 1].type = "BITMAP"
                         /\ nodes[j].last_symbol < nodes[j - 1].max_child}

SetMaxLeaf(c, targets, max_leaf) ==
  [p \in DOMAIN c |-> IF p \in targets THEN [c[p] EXCEPT !.max_leaf = max_leaf] ELSE c[p]]

PropagateAlong(c, path, nodes) ==
  SetMaxLeaf(c, {find_entry_in_pair_by_color(c, path[j].hash, path[j].color) :
                   j \in Max(MaxLeafStops(nodes) \cup {1})..(Len(path) - 1)},
             Last(nodes).max_leaf)

propagate_max_leaf(c, path) ==
  PropagateAlong(c, path, [j \in DOMAIN path |-> locator_to_entry(c, path[j])])

-----------------------------------------------------------------------------
(* split_leaf: the leaf the finger is in becomes a path of jump nodes for  *)
(* the symbols its key shares with the new key, down to a bitmap node with *)
(* both leaves.                                                            *)

(* The symbols the keys share after the prefix of the finger are cut into  *)
(* jump nodes; node i of the path, the bitmap being last, comes after      *)
(* start[i] symbols.                                                       *)
SplitPath(prefix_len, fork) ==
  LET jumps == (fork - 1 - prefix_len + MAX_JUMP_SYMBOLS - 1) \div MAX_JUMP_SYMBOLS
  IN  [i \in 1..(jumps + 1) |->
         IF i > jumps THEN fork - 1 ELSE prefix_len + (i - 1) * MAX_JUMP_SYMBOLS]

Fork(old, new) == Min({i \in DOMAIN old : i <= Len(new) /\ old[i] # new[i]})

(* What split_leaf works out before it changes the table.                  *)
SplitPlan(f, leaf, kv, pred, is_maximal, new, fork) ==
  [leaf |-> leaf, pred |-> pred, path |-> f.path, symbols |-> new, fork |-> fork,
   start |-> SplitPath(f.prefix_len, fork),
   minimal_kv |-> IF is_maximal THEN leaf.kv ELSE kv,
   maximal_kv |-> IF is_maximal THEN kv ELSE leaf.kv]

MinimalChild(s) == KeySymbols(s.minimal_kv.key)[s.fork]
MaximalChild(s) == KeySymbols(s.maximal_kv.key)[s.fork]
PathHash(s, i) == HashOfPrefix(s.symbols, s.start[i])
ChildHash(s, symbol) == accumulate_hash(PathHash(s, Len(s.start)), symbol)

WithChildColor(e, color) == IF e.type = "JUMP" THEN [e EXCEPT !.child_color = color] ELSE e

(* Entry e, a jump to the entry added last if it is a jump.  added holds   *)
(* the entries to remove should a later one fail.                          *)
AddResult(a, r, hash) ==
  [a EXCEPT !.ret = r.ret, !.cells = r.cells, !.cell = r.cell, !.color = r.color,
            !.added = IF r.ret = "SI_OK" THEN @ \cup {Locator(hash, r.color)} ELSE @]

AddAbove(a, hash, e, immovable) ==
  IF a.ret # "SI_OK" THEN a
  ELSE AddResult(a, add_entry(a.cells, hash, WithChildColor(e, a.color), immovable), hash)

NothingAdded(c, color) ==
  [ret |-> "SI_OK", cells |-> c, cell |-> NULL, color |-> color, added |-> {},
   maximal_leaf |-> NULL, maximal_cell |-> NULL, bitmap_color |-> color]

(* Mutant: no roll-back.                                                   *)
FailedLeavesNodes(a) == [ret |-> a.ret, cells |-> a.cells]

(* locking_failed removes the nodes already added, trie_full does not.     *)
Failed(a) ==
  [ret |-> a.ret, cells |-> IF a.ret = "SI_RETRY" THEN remove_entries(a.cells, a.added) ELSE a.cells]

(* The maximal leaf comes first; its parent color is set later.            *)
AddMaximalLeaf(s, a) ==
  LET symbol == MaximalChild(s)
  IN  AddAbove(a, ChildHash(s, symbol), Leaf(symbol, 0, s.maximal_kv, s.leaf.next_leaf), NULL)

MaximalLeafAdded(s, a) ==
  [a EXCEPT !.maximal_cell = a.cell, !.maximal_leaf = Locator(ChildHash(s, MaximalChild(s)), a.color)]

(* Node i of the path, without the color of its child.                     *)
PathNode(s, i, max_leaf) ==
  LET start == s.start[i]
      last_symbol == IF start = 0 THEN ROOT_LAST_SYMBOL ELSE s.symbols[start]
  IN  IF i = Len(s.start)
        THEN Bitmap(last_symbol, INVALID_COLOR, {MinimalChild(s), MaximalChild(s)}, max_leaf)
        ELSE Jump(last_symbol, INVALID_COLOR, SubSeq(s.symbols, start + 1, s.start[i + 1]), 0, max_leaf)

AddPathNode(s, a, i) == AddAbove(a, PathHash(s, i), PathNode(s, i, a.maximal_leaf), NULL)

BitmapAdded(s, a, i) == IF i = Len(s.start) THEN [a EXCEPT !.bitmap_color = a.color] ELSE a

(* The path below its head, bottom to top.                                 *)
AddPathNodes(s, a) ==
  FoldLeft(LAMBDA b, i : BitmapAdded(s, AddPathNode(s, b, i), i), a,
           [k \in 1..(Len(s.start) - 1) |-> Len(s.start) + 1 - k])

(* The parent color is written to the address the maximal leaf was put at. *)
SetMaximalParent(a) ==
  IF a.ret = "SI_OK" THEN [a EXCEPT !.cells[a.maximal_cell].parent_color = a.bitmap_color] ELSE a

(* The head, to be written in place of the leaf, gets the color of the     *)
(* node below it.                                                          *)
HeadNode(s, a) ==
  [WithChildColor(PathNode(s, 1, a.maximal_leaf), a.color)
     EXCEPT !.parent_color = s.leaf.parent_color, !.color = s.leaf.color, !.tag = s.leaf.tag]

AddMinimalLeaf(s, a) ==
  LET symbol == MinimalChild(s)
  IN  AddAbove(a, ChildHash(s, symbol),
               Leaf(symbol, a.bitmap_color, s.minimal_kv, a.maximal_leaf), a.maximal_cell)

LinkSplit(s, head, a) ==
  IF a.ret # "SI_OK" THEN Failed(a)
  ELSE [ret |-> "SI_OK",
        cells |-> propagate_max_leaf(
                    linklist_insert(update_entry(a.cells, Last(s.path), head), s.pred,
                                    Locator(ChildHash(s, MinimalChild(s)), a.color)),
                    s.path)]

FinishSplit(s, a) == LinkSplit(s, HeadNode(s, a), AddMinimalLeaf(s, a))

SplitBy(s, c) ==
  FinishSplit(s, SetMaximalParent(AddPathNodes(s,
    MaximalLeafAdded(s, AddMaximalLeaf(s, NothingAdded(c, s.leaf.color))))))

leaf_predecessor(c, f, leaf) ==
  IF Len(f.path) = 1 THEN NULL ELSE find_predecessor(c, f.path, Len(f.path) - 1, leaf.last_symbol)

split_leaf(c, f, leaf, kv) ==
  LET old == KeySymbols(leaf.kv.key)
      new == KeySymbols(kv.key)
  IN  SplitBy(SplitPlan(f, leaf, kv, leaf_predecessor(c, f, leaf),
                        Less(leaf.kv.key, kv.key), new, Fork(old, new)), c)

(* split_jump_node: the symbol at which the finger is stuck in a jump node *)
(* becomes a bitmap node, with what remains of the jump as its tail.  A    *)
(* jump the finger is at the start of becomes the bitmap itself.           *)
AddJumpBitmap(f, node, symbol, a) ==
  IF f.depth_in_jump = 0 THEN a
  ELSE AddAbove(a, f.hash,
                Bitmap(node.jump[f.depth_in_jump], INVALID_COLOR, {symbol}, node.max_leaf), NULL)

(* Without a tail the old child gets a new parent, at the address child it *)
(* was found at.                                                           *)
AddTail(f, node, symbol, tail_hash, child, a) ==
  CASE a.ret # "SI_OK" -> a
    [] a.ret = "SI_OK" /\ f.depth_in_jump + 1 < Len(node.jump) ->
         AddAbove([a EXCEPT !.color = node.child_color], tail_hash,
                  Jump(symbol, a.color, SubSeq(node.jump, f.depth_in_jump + 2, Len(node.jump)),
                       node.child_color, node.max_leaf),
                  a.cell)
    [] OTHER -> [a EXCEPT !.cells[child].parent_color = a.color]

JumpHead(f, node, symbol, bitmap_color) ==
  IF f.depth_in_jump = 0
    THEN [Bitmap(node.last_symbol, node.parent_color, {symbol}, node.max_leaf)
            EXCEPT !.tag = node.tag, !.color = node.color]
    ELSE [node EXCEPT !.jump = SubSeq(@, 1, f.depth_in_jump), !.child_color = bitmap_color]

(* The finger moves to the bitmap.                                         *)
AtBitmap(f, bitmap_color) ==
  [f EXCEPT !.depth_in_jump = 0,
            !.path = IF f.depth_in_jump = 0 THEN @ ELSE Append(@, Locator(f.hash, bitmap_color))]

JumpSplit(f, node, symbol, bitmap_color, a) ==
  IF a.ret # "SI_OK" THEN Failed(a) @@ [finger |-> f]
  ELSE [ret |-> "SI_OK", finger |-> AtBitmap(f, bitmap_color),
        cells |-> update_entry(a.cells, Last(f.path), JumpHead(f, node, symbol, bitmap_color))]

SplitJumpAt(c, f, node, symbol, tail_hash, a) ==
  JumpSplit(f, node, symbol, a.color,
            AddTail(f, node, symbol, tail_hash,
                    find_entry_in_pair_by_color(c, tail_hash, node.child_color), a))

SplitJump(c, f, node, symbol) ==
  SplitJumpAt(c, f, node, symbol, accumulate_hash(f.hash, symbol),
              AddJumpBitmap(f, node, symbol, NothingAdded(c, node.color)))

split_jump_node(c, f, node) == SplitJump(c, f, node, node.jump[f.depth_in_jump + 1])

(* Mutant: a new largest child does not change max_leaf.                   *)
MarkBitmapChildOnly(c, l, symbol, leaf) ==
  LET e == locator_to_entry(c, l)
  IN  update_entry(c, l, [e EXCEPT !.child_bitmap = @ \cup {symbol},
                                   !.max_child = IF symbol > @ THEN symbol ELSE @])

mark_bitmap_child(c, l, symbol, leaf) ==
  LET e == locator_to_entry(c, l)
      marked == [e EXCEPT !.child_bitmap = @ \cup {symbol}]
  IN  update_entry(c, l, IF symbol > e.max_child
                           THEN [marked EXCEPT !.max_child = symbol, !.max_leaf = leaf] ELSE marked)

(* create_leaf at a bitmap node that lacks the child.                      *)
LinkChild(f, bitmap, pred, leaf, c) ==
  propagate_max_leaf(mark_bitmap_child(linklist_insert(c, pred, leaf), bitmap, f.symbol, leaf), f.path)

ChildCreated(f, bitmap, pred, hash, a) ==
  [ret |-> a.ret,
   cells |-> IF a.ret = "SI_OK" THEN LinkChild(f, bitmap, pred, Locator(hash, a.color), a.cells) ELSE a.cells]

CreateChild(c, f, bitmap, pred, hash) ==
  ChildCreated(f, bitmap, pred, hash,
    add_entry(c, hash, Leaf(f.symbol, bitmap.color, call.kv, leaf_entry(c, pred).next_leaf),
              find_entry_in_pair_by_color(c, bitmap.hash, bitmap.color)))

create_bitmap_child(c, f) ==
  CreateChild(c, f, Last(f.path), find_predecessor(c, f.path, Len(f.path), f.symbol),
              accumulate_hash(f.hash, f.symbol))

(* split_jump_node changes buckets the finger has been through; if the     *)
(* lock upgrades after it fail for that, the attempt ends with SI_RETRY.   *)
AfterJumpSplit(s, upgraded) ==
  IF s.ret = "SI_OK" /\ upgraded THEN create_bitmap_child(s.cells, s.finger)
  ELSE [ret |-> IF s.ret = "SI_OK" THEN "SI_RETRY" ELSE s.ret, cells |-> s.cells]

create_leaf(c, f, e, upgraded) ==
  CASE e.type = "JUMP" -> AfterJumpSplit(split_jump_node(c, f, e), upgraded)
    [] e.type = "BITMAP" -> create_bitmap_child(c, f)
    [] e.type = "LEAF" -> IF e.kv.key = call.kv.key THEN [ret |-> "SI_EXISTS", cells |-> c]
                          ELSE split_leaf(c, f, e, call.kv)

(* The last symbol of the root, which is not set here, is never read.      *)
create_root(c, kv) ==
  [c EXCEPT ![RootCell] = [Leaf(ROOT_LAST_SYMBOL, INVALID_COLOR, kv, NULL)
                             EXCEPT !.color = ROOT_COLOR, !.tag = hash_to_tag(HASH_START_VALUE)],
            ![MinLeafCell].next_leaf = RootLocator]

(* The kv of key, NULL if there is none.                                   *)
ct_lookup(c, empty, key) ==
  LET f == descend(c, key)
      e == containing_entry(c, f)
  IN  IF ~empty /\ e.type = "LEAF" /\ (f.symbol = NULL \/ e.kv.key = key) THEN e.kv ELSE NULL

set_kv(c, f, kv) == update_entry(c, Last(f.path), [containing_entry(c, f) EXCEPT !.kv = kv])

-----------------------------------------------------------------------------
(* Operations.                                                             *)

(* All keys looked up.                                                     *)
Contents(c, empty) ==
  LET present == {k \in workload.keys : ct_lookup(c, empty, k) # NULL}
  IN  [k \in present |-> ct_lookup(c, empty, k).value]

Observe == index' = IF full' THEN <<>> ELSE Contents(cells', is_empty')

Returned(op, key, result) == last' = [op |-> op, key |-> key, result |-> result]

Call(op, key, value) ==
  /\ op \in workload.calls /\ call = NULL /\ ~full
  /\ \/ /\ Len(key) <= MaxKeyLength
        /\ call' = [op |-> op, kv |-> [key |-> key, value |-> value], retried |-> FALSE]
        /\ UNCHANGED last
     \/ /\ Len(key) > MaxKeyLength
        /\ Returned(op, key, "S_KEYTOOLONG")
        /\ UNCHANGED call
  /\ UNCHANGED <<cells, is_empty, iter, index, full, cursor>>

(* What ct_insert and ct_upsert make of the result of an attempt.          *)
Result(ret) ==
  CASE ret = "SI_FAIL" -> "S_OVERFLOW"
    [] ret = "SI_OK" -> IF call.op = "ct_insert" THEN "S_OK" ELSE TRUE
    [] ret = "SI_EXISTS" -> IF call.op = "ct_insert" THEN "S_ALREADYIN" ELSE FALSE

AttemptReturns(ret) ==
  IF ret = "SI_RETRY" THEN call' = [call EXCEPT !.retried = ~@] /\ UNCHANGED <<full, last>>
  ELSE /\ call' = NULL
       /\ full' = (ret = "SI_FAIL")
       /\ Returned(call.op, call.kv.key, Result(ret))

CreateRoot ==
  /\ call # NULL /\ is_empty
  /\ cells' = create_root(cells, call.kv)
  /\ is_empty' = FALSE
  /\ AttemptReturns("SI_OK")
  /\ Observe
  /\ UNCHANGED <<iter, cursor>>

AttemptEnds(f, r) ==
  /\ cells' = IF r.ret = "SI_EXISTS" /\ call.op = "ct_upsert" THEN set_kv(cells, f, call.kv)
                                                             ELSE r.cells
  /\ AttemptReturns(r.ret)

ct_insert_internal ==
  /\ call # NULL /\ ~is_empty
  /\ \E f \in {descend(cells, call.kv.key)}, upgraded \in BOOLEAN :
       /\ containing_entry(cells, f).type # "JUMP" => upgraded
       /\ \E r \in {create_leaf(cells, f, containing_entry(cells, f), upgraded)} : AttemptEnds(f, r)
  /\ UNCHANGED <<is_empty, iter, cursor>>
  /\ Observe

ct_update(kv) ==
  /\ "ct_update" \in workload.calls /\ call = NULL /\ ~full
  /\ LET f == descend(cells, kv.key)
         e == containing_entry(cells, f)
     IN  IF ~is_empty /\ e.type = "LEAF" /\ e.kv.key = kv.key
           THEN cells' = set_kv(cells, f, kv) /\ Returned("ct_update", kv.key, "S_OK")
           ELSE UNCHANGED cells /\ Returned("ct_update", kv.key, "S_NOTFOUND")
  /\ UNCHANGED <<is_empty, call, iter, full, cursor>>
  /\ Observe

Lookup(key) ==
  /\ "ct_lookup" \in workload.calls /\ call = NULL /\ ~full
  /\ LET kv == ct_lookup(cells, is_empty, key)
     IN  Returned("ct_lookup", key, IF kv = NULL THEN NULL ELSE kv.value)
  /\ UNCHANGED <<cells, is_empty, call, iter, index, full, cursor>>

-----------------------------------------------------------------------------
(* Iteration.                                                              *)

NoIter == [leaf |-> NULL, is_exhausted |-> TRUE, report_current |-> FALSE]

(* Before the first key not smaller than key: a leaf, or NULL for min_leaf *)
(* (start), or nothing left to report (exhausted).                         *)
Position(exhausted, pred) == [is_exhausted |-> exhausted, pred |-> pred]

(* Mutant: a key is not before the leaf that holds it.                     *)
IsStrictlyBefore(f, e, key) ==
  IF e.type = "LEAF" THEN Less(key, e.kv.key) ELSE f.symbol < e.jump[f.depth_in_jump + 1]

(* The key is not after the leaf, or not after the leaves below the jump,  *)
(* at which its descent ended.                                             *)
IsBefore(f, e, key) ==
  IF e.type = "LEAF" THEN LessEq(key, e.kv.key) ELSE f.symbol < e.jump[f.depth_in_jump + 1]

ct_iter_goto_internal(c, empty, key) ==
  LET f == descend(c, key)
      e == containing_entry(c, f)
      n == Len(f.path)
      bitmaps == {j \in 1..n : locator_to_entry(c, f.path[j]).type = "BITMAP"}
      child == locator_to_entry(c, f.path[Max(bitmaps) + 1]).last_symbol
  IN  CASE empty -> Position(TRUE, NULL)
        [] ~empty /\ key = <<>> -> Position(FALSE, NULL)
        [] ~empty /\ key # <<>> /\ e.type = "BITMAP" ->
             Position(FALSE, find_predecessor(c, f.path, n, f.symbol))
        [] ~empty /\ key # <<>> /\ e.type # "BITMAP" /\ bitmaps = {} -> Position(~IsBefore(f, e, key), NULL)
        [] OTHER -> Position(FALSE, find_predecessor(c, f.path, Max(bitmaps),
                                                     IF IsBefore(f, e, key) THEN child ELSE child + 1))

(* The iterator on the first key not smaller than key.  It is exhausted    *)
(* without looking for a leaf when there is none.                          *)
ct_iter_goto(c, empty, key) ==
  LET at == ct_iter_goto_internal(c, empty, key)
      pred == leaf_entry(c, at.pred)
  IN  IF at.is_exhausted \/ pred.next_leaf = NULL
        THEN [leaf |-> pred, is_exhausted |-> TRUE, report_current |-> iter.report_current]
        ELSE [leaf |-> locator_to_entry(c, pred.next_leaf), is_exhausted |-> FALSE, report_current |-> TRUE]

(* The leaf after the local copy.  If its cell is a leaf no longer, the    *)
(* position of the last key is looked up again.                            *)
ct_iter_next_internal(c, leaf) ==
  LET next == locator_to_entry(c, leaf.next_leaf)
      again == ct_iter_goto(c, FALSE, leaf.kv.key).leaf
  IN  IF next.type = "LEAF" THEN next ELSE locator_to_entry(c, again.next_leaf)

IterGoto(key) ==
  /\ "ct_iter_goto" \in workload.calls /\ call = NULL /\ ~full
  /\ iter' = ct_iter_goto(cells, is_empty, key)
  /\ cursor' = [low |-> key, strict |-> FALSE, must |-> DOMAIN index]
  /\ Returned("ct_iter_goto", key, NULL)
  /\ UNCHANGED <<cells, is_empty, call, index, full>>

IterReports(leaf) ==
  /\ iter' = [iter EXCEPT !.leaf = leaf, !.report_current = FALSE]
  /\ cursor' = [cursor EXCEPT !.low = leaf.kv.key, !.strict = TRUE]
  /\ Returned("ct_iter_next", leaf.kv.key, leaf.kv.key)

ct_iter_next ==
  /\ "ct_iter_next" \in workload.calls /\ call = NULL /\ ~full /\ iter # NoIter
  /\ \/ /\ iter.is_exhausted \/ (~iter.report_current /\ iter.leaf.next_leaf = NULL)
        /\ iter' = [iter EXCEPT !.is_exhausted = TRUE]
        /\ Returned("ct_iter_next", <<>>, NULL)
        /\ UNCHANGED cursor
     \/ /\ ~iter.is_exhausted /\ iter.report_current
        /\ IterReports(iter.leaf)
     \/ /\ ~iter.is_exhausted /\ ~iter.report_current /\ iter.leaf.next_leaf # NULL
        /\ IterReports(ct_iter_next_internal(cells, iter.leaf))
  /\ UNCHANGED <<cells, is_empty, call, index, full>>

-----------------------------------------------------------------------------
Init ==
  /\ workload \in Workloads
  /\ cells = [p \in Cells \cup {MinLeafCell} |-> IF p = MinLeafCell THEN Leaf(0, 0, NULL, NULL) ELSE Unused]
  /\ is_empty = TRUE
  /\ call = NULL
  /\ iter = NoIter
  /\ index = <<>>
  /\ full = FALSE
  /\ cursor = [low |-> NULL, strict |-> FALSE, must |-> {}]
  /\ last = [op |-> "ct_alloc", key |-> <<>>, result |-> NULL]

Attempt == CreateRoot \/ ct_insert_internal

(* After S_OVERFLOW "the results of further operations are undefined".     *)
Overflowed == full /\ UNCHANGED vars

(* Only ct_insert and ct_upsert check the length of the key.               *)
ShortKeys == {k \in workload.keys : Len(k) <= MaxKeyLength}

Step ==
  \/ \E op \in {"ct_insert", "ct_upsert"}, k \in workload.keys, v \in workload.values : Call(op, k, v)
  \/ \E k \in ShortKeys, v \in workload.values : ct_update([key |-> k, value |-> v])
  \/ \E k \in ShortKeys : Lookup(k) \/ IterGoto(k)
  \/ Attempt
  \/ ct_iter_next
  \/ Overflowed

Next == Step /\ UNCHANGED workload

Spec == Init /\ [][Next]_vars

(* The thread goes on: WF_vars(Attempt).  In a call an attempt is always   *)
(* possible, and nothing else is.                                          *)
FairSpec == Spec /\ ([]<>(call = NULL) \/ []<><<call # NULL>>_vars)

-----------------------------------------------------------------------------
(* Properties.                                                             *)

Locators == [hash : PrefixHashes, color : 0..MAX_VALID_COLOR]
KVs == [key : Keys, value : Values]
Colors == 0..INVALID_COLOR

HeaderOK(e) ==
  /\ e.last_symbol \in Symbols /\ e.parent_color \in Colors
  /\ e.tag \in Tags /\ e.color \in Colors /\ e.secondary \in BOOLEAN

EntryOK(e) ==
  /\ HeaderOK(e)
  /\ CASE e.type = "UNUSED" -> TRUE
       [] e.type = "LEAF" -> e.kv \in KVs /\ e.next_leaf \in Locators \cup {NULL}
       [] e.type = "BITMAP" -> /\ e.child_bitmap \subseteq Symbols /\ e.max_child \in Symbols
                               /\ e.max_leaf \in Locators
       [] e.type = "JUMP" -> /\ e.jump \in Seq(1..FANOUT) /\ Len(e.jump) \in 1..MAX_JUMP_SYMBOLS
                             /\ e.child_color \in 0..MAX_VALID_COLOR /\ e.max_leaf \in Locators

(* Every cell holds an entry of one of the four types, with colors, jump   *)
(* sizes and symbols in the ranges their bit fields have.                  *)
TypeOK ==
  /\ workload \in Workloads
  /\ \A p \in Cells : EntryOK(cells[p])
  /\ cells[MinLeafCell].next_leaf \in Locators \cup {NULL}
  /\ is_empty \in BOOLEAN /\ full \in BOOLEAN
  /\ call = NULL \/ (call.op \in {"ct_insert", "ct_upsert"} /\ call.kv \in KVs)

Used == {p \in Cells : cells[p].type # "UNUSED"}

HashOfCell(p) ==
  LET e == cells[p]
  IN  (IF e.secondary THEN unmix_bucket(p[1], e.tag) ELSE p[1]) * NumTags + e.tag

Follow(l) == find_entry_in_pair_by_color(cells, l.hash, l.color)
PointsToLeaf(l) == Follow(l) # NULL /\ cells[Follow(l)].type = "LEAF"

(* The cells of the children of the node in cell p, NULL for one missing.  *)
ChildCell(p, s) == find_entry_in_pair_by_parent(cells, accumulate_hash(HashOfCell(p), s), s, cells[p].color)
JumpChild(p) ==
  find_entry_in_pair_by_color(cells, FoldLeft(accumulate_hash, HashOfCell(p), cells[p].jump), cells[p].child_color)

verify_entry(p) ==
  LET e == cells[p]
  IN  /\ e.type # "LEAF" => PointsToLeaf(e.max_leaf)
      /\ e.type = "BITMAP" => \A s \in e.child_bitmap : ChildCell(p, s) # NULL
      /\ e.type = "JUMP" => JumpChild(p) # NULL /\ cells[JumpChild(p)].type # "LEAF"
      /\ e.type = "LEAF" /\ e.next_leaf # NULL => PointsToLeaf(e.next_leaf)

(* The cells on the leaf list, from min_leaf on, as far as it leads.       *)
ListStep(list, n) ==
  LET l == IF list = <<>> THEN cells[MinLeafCell].next_leaf ELSE cells[Last(list)].next_leaf
  IN  IF l = NULL \/ ~PointsToLeaf(l) THEN list ELSE Append(list, Follow(l))
LeafList == FoldLeft(ListStep, <<>>, [n \in 1..Cardinality(Used) |-> n])

verify_linklist ==
  /\ Range(LeafList) = {p \in Used : cells[p].type = "LEAF"}
  /\ \A i \in 1..(Len(LeafList) - 1) :
       Less(cells[LeafList[i]].kv.key, cells[LeafList[i + 1]].kv.key)
  /\ LeafList # <<>> => cells[Last(LeafList)].next_leaf = NULL

(* ct_verify_trie, which the tests call after every insert, also holds     *)
(* between the attempts of an insert: every locator, child bit and jump    *)
(* leads to a node of the right type, and the list has all leaves in the   *)
(* order of their keys.                                                    *)
VerifyTrie == ~full => (\A p \in Used : verify_entry(p)) /\ verify_linklist

Children(p) ==
  CASE cells[p].type = "BITMAP" -> {ChildCell(p, s) : s \in cells[p].child_bitmap}
    [] cells[p].type = "JUMP" -> {JumpChild(p)}
    [] OTHER -> {}

(* No node is left behind by a roll-back or a split, and none has two      *)
(* parents: every entry but the root is the child of exactly one node.     *)
OneParent ==
  ~full => \A p \in Used \ {RootCell} : Cardinality({q \in Used : p \in Children(q)}) = 1

(* max_leaf, from which predecessors are found, names the largest leaf     *)
(* below the node: the one on the path through the largest children.       *)
MaxLeafIsMax ==
  ~full =>
    \A p \in Used :
      LET top == IF cells[p].type = "BITMAP" THEN ChildCell(p, cells[p].max_child) ELSE JumpChild(p)
      IN  cells[p].type # "LEAF" =>
            /\ cells[p].type = "BITMAP" => cells[p].max_child = Max(cells[p].child_bitmap)
            /\ Follow(cells[p].max_leaf) = IF cells[top].type = "LEAF" THEN top
                                           ELSE Follow(cells[top].max_leaf)

(* The operations are those of an ordered map, for all keys at once and    *)
(* with an iterator that skips none of the keys it started with.           *)
Map == INSTANCE OrderedIndex WITH index <- index, full <- full, cursor <- cursor, last <- last
Implements == Map!Spec

(* Every insert returns: retries come to an end.                           *)
CallsReturn == []<>(call = NULL)
=============================================================================
