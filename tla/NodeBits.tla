------------------------------ MODULE NodeBits ------------------------------
(***************************************************************************)
(* The packed contents of jump and bitmap nodes (ct_entry).                *)
(*                                                                         *)
(* Both kinds of node use the same bytes: 0 to 4 are jump_bits or          *)
(* child_bitmap, 5 is child_color_and_jump_size or max_child, 6 and 7 are  *)
(* the first bytes of max_leaf, which the QWORD loads also cover.  The     *)
(* actions are the writes of split_leaf, split_jump_node and               *)
(* mark_bitmap_child; symbols, child_color and children record what the    *)
(* node was told to hold.                                                  *)
(***************************************************************************)
EXTENDS BitStrings, Sequences

CONSTANTS
  JumpSymbols,      \* the symbols that are put into jumps
  ChildSymbols,     \* the children that are marked
  ChildColors,
  StackBytes,       \* what the bytes of a new node may hold
  MaxChildren       \* bound: the children of a bitmap node

MAX_JUMP_SYMBOLS == 8
SYMBOL_ABOVE_MAX == FANOUT + 1

ASSUME NodesAssumption ==
  /\ JumpSymbols \subseteq 1..FANOUT /\ ChildSymbols \subseteq 0..FANOUT
  /\ ChildColors \subseteq 0..8 /\ StackBytes \subseteq 0..255 /\ MaxChildren \in Nat

VARIABLES
  node,          \* its bytes
  kind,          \* "idle", "new" (a jump under construction), "jump" or "bitmap"
  symbols, child_color, children

node_vars == <<node, kind, symbols, child_color, children>>

-----------------------------------------------------------------------------
MaxLeafByte == 90
NewNode(byte) == [i \in 0..7 |-> IF i < 6 THEN byte ELSE MaxLeafByte]

entry_jump_size(n) == n[5] % 16
entry_child_color(n) == n[5] \div 16
entry_set_jump_size(n, size) == [n EXCEPT ![5] = (@ \div 16) * 16 + size]
entry_set_child_color(n, color) == [n EXCEPT ![5] = (@ % 16) + color * 16]

(* bits 64 - 5 - 5 * symbol_idx and up of the byte-swapped QWORD           *)
get_jump_symbol(n, symbol_idx) ==
  WordField(n, 8, 64 - BITS_PER_SYMBOL - BITS_PER_SYMBOL * symbol_idx, BITS_PER_SYMBOL) + 1

extend_jump_node(n, symbol) ==
  [put_bits(n, entry_jump_size(n) * BITS_PER_SYMBOL, BITS_PER_SYMBOL, symbol - 1) EXCEPT ![5] = @ + 1]

(* The tail that split_jump_node makes of the symbols behind the one       *)
(* where the jump splits.                                                  *)
TailNode(n, remaining_jump_symbols, byte) ==
  LET num_tail_symbols == entry_jump_size(n) - remaining_jump_symbols - 1
      new == [NewNode(byte) EXCEPT ![5] = entry_child_color(n) * 16 + num_tail_symbols]
  IN  copy_bits(new, n, (remaining_jump_symbols + 1) * BITS_PER_SYMBOL,
                num_tail_symbols * BITS_PER_SYMBOL)

(* memset, set_bit and max_child.                                          *)
BitmapNode(n, symbol) ==
  [set_bit([i \in 0..7 |-> IF i < 5 THEN 0 ELSE n[i]], symbol, 1) EXCEPT ![5] = symbol]

(* One store of 16 bytes: bit 7 - child % 8 of byte child / 8.             *)
entry_set_child_bit(n, child) ==
  [n EXCEPT ![child \div 8] = @ + (IF BitOf(@, 7 - (child % 8)) = 1 THEN 0 ELSE 2^(7 - (child % 8)))]

bitmap_child_before(n, symbol) == last_bit_before(n, symbol)

-----------------------------------------------------------------------------
NodeIdle ==
  /\ node = NewNode(0) /\ kind = "idle"
  /\ symbols = <<>> /\ child_color = 0 /\ children = {}

(* split_leaf: an empty jump node in the path on the stack.                *)
NodeInit ==
  /\ \E byte \in StackBytes : node = [NewNode(byte) EXCEPT ![5] = 0]
  /\ kind = "new"
  /\ symbols = <<>> /\ child_color = 0 /\ children = {}

(* split_leaf: the next symbol the two keys have in common.                *)
ExtendJump(symbol) ==
  /\ kind = "new" /\ entry_jump_size(node) < MAX_JUMP_SYMBOLS
  /\ node' = extend_jump_node(node, symbol)
  /\ symbols' = Append(symbols, symbol)
  /\ UNCHANGED <<kind, child_color, children>>

(* split_leaf: the node below has been added.                              *)
LinkChild(color) ==
  /\ kind = "new" /\ symbols # <<>>
  /\ node' = entry_set_child_color(node, color)
  /\ kind' = "jump" /\ child_color' = color
  /\ UNCHANGED <<symbols, children>>

(* split_jump_node, the three nodes it makes of one: the head,             *)
SplitHead(remaining, color) ==
  /\ kind = "jump" /\ remaining \in 1..(entry_jump_size(node) - 1)
  /\ node' = entry_set_child_color(entry_set_jump_size(node, remaining), color)
  /\ symbols' = SubSeq(symbols, 1, remaining) /\ child_color' = color
  /\ UNCHANGED <<kind, children>>

(* the bitmap node, which is the old node itself when no head remains,     *)
SplitBitmap(remaining, byte) ==
  /\ kind = "jump" /\ remaining \in 0..(entry_jump_size(node) - 1)
  /\ LET symbol == get_jump_symbol(node, remaining)
     IN  node' = BitmapNode(IF remaining = 0 THEN node ELSE NewNode(byte), symbol)
  /\ kind' = "bitmap" /\ children' = {symbols[remaining + 1]}
  /\ symbols' = <<>> /\ child_color' = 0

(* and the tail.                                                           *)
SplitTail(remaining, byte) ==
  /\ kind = "jump" /\ remaining \in 0..(entry_jump_size(node) - 1)
  /\ remaining + 1 < entry_jump_size(node)
  /\ node' = TailNode(node, remaining, byte)
  /\ symbols' = SubSeq(symbols, remaining + 2, Len(symbols))
  /\ UNCHANGED <<kind, child_color, children>>

(* mark_bitmap_child                                                       *)
MarkChild(symbol) ==
  /\ kind = "bitmap" /\ Cardinality(children) < MaxChildren
  /\ get_bit(node, symbol) = 0
  /\ node' = [entry_set_child_bit(node, symbol) EXCEPT ![5] = IF @ < symbol THEN symbol ELSE @]
  /\ children' = children \cup {symbol}
  /\ UNCHANGED <<kind, symbols, child_color>>

NodeNext ==
  \/ \E symbol \in JumpSymbols : ExtendJump(symbol)
  \/ \E color \in ChildColors : LinkChild(color)
  \/ \E remaining \in 1..(MAX_JUMP_SYMBOLS - 1), color \in ChildColors : SplitHead(remaining, color)
  \/ \E remaining \in 0..(MAX_JUMP_SYMBOLS - 1), byte \in StackBytes :
       SplitBitmap(remaining, byte) \/ SplitTail(remaining, byte)
  \/ \E symbol \in ChildSymbols : MarkChild(symbol)

-----------------------------------------------------------------------------
(* Through any sequence of extensions, splits and marks a node holds what  *)
(* it was told to: a jump its symbols, its size and its child's color; a   *)
(* bitmap its children, the largest as max_child, and below any symbol     *)
(* the child bitmap_child_before finds, -1 when there is none.  Nothing    *)
(* spills into max_leaf.  (put_bits, copy_bits and the loads of            *)
(* get_jump_symbol and last_bit_before reach into neighbouring fields.)    *)
NodeKeepsContents ==
  /\ \A i \in {6, 7} : node[i] = MaxLeafByte
  /\ kind \in {"new", "jump"} =>
       /\ entry_jump_size(node) = Len(symbols)
       /\ entry_child_color(node) = child_color
       /\ \A i \in DOMAIN symbols : get_jump_symbol(node, i - 1) = symbols[i]
  /\ kind = "bitmap" =>
       /\ {s \in 0..FANOUT : get_bit(node, s) = 1} = children
       /\ node[5] = Max(children)
       /\ \A end \in 0..SYMBOL_ABOVE_MAX :
            bitmap_child_before(node, end) = Max({-1} \cup {c \in children : c < end})
=============================================================================
