---------------------------- MODULE BucketSearch ----------------------------
(***************************************************************************)
(* The vectorized searches of a bucket and the choice of a color           *)
(* (main_vectorized.c), on the packed headers of the cells.                *)
(*                                                                         *)
(* The state is one pair of buckets, the primary and the secondary bucket  *)
(* of some name and the tag Tag.  Entries of other pairs that share one    *)
(* of the two buckets are there as well: they have another tag, or Tag     *)
(* with the other value of FLAG_SECONDARY_BUCKET.  A header is its three   *)
(* bytes parent_color_and_flags, color_and_tag and last_symbol; the rest   *)
(* of the QWORD that the code loads is masked away.                        *)
(***************************************************************************)
EXTENDS Integers, FiniteSetsExt, Bitwise

CONSTANTS
  Tag, OtherTag,
  Nodes,        \* what is added: parent_color, last_symbol, type and dirty flag
  MaxChanges    \* bound: the additions and removals

CUCKOO_BUCKET_SIZE == 4
TAG_BITS == 4
TYPE_UNUSED == 0
TYPE_MASK == 3
FLAG_SECONDARY_BUCKET == 4
FLAG_DIRTY == 8
PARENT_COLOR_SHIFT == 4
MAX_VALID_COLOR == 2 * CUCKOO_BUCKET_SIZE
INVALID_COLOR == MAX_VALID_COLOR + 1

ASSUME TagsAssumption ==
  /\ {Tag, OtherTag} \subseteq 0..(2^TAG_BITS - 1) /\ Tag # OtherTag
  /\ Nodes \subseteq [parent_color : 0..INVALID_COLOR, last_symbol : 0..32, type : 1..3, dirty : BOOLEAN]

CellNumbers == 0..(CUCKOO_BUCKET_SIZE - 1)

VARIABLES
  pair,       \* "primary" and "secondary" -> cell number -> header
  changes     \* how many additions and removals there were

pair_vars == <<pair, changes>>

Buckets == {"primary", "secondary"}

-----------------------------------------------------------------------------
Header(parent, flags, color, tag, last_symbol) ==
  <<parent * 2^PARENT_COLOR_SHIFT + flags, color * 2^TAG_BITS + tag, last_symbol>>

unused_entry == Header(INVALID_COLOR, TYPE_UNUSED, INVALID_COLOR, 0, 0)

entry_type(h) == h[1] % 4
entry_is_secondary(h) == (h[1] \div FLAG_SECONDARY_BUCKET) % 2 = 1
entry_parent_color(h) == h[1] \div 2^PARENT_COLOR_SHIFT
entry_color(h) == h[2] \div 2^TAG_BITS
entry_tag(h) == h[2] % 2^TAG_BITS

NodeHeader(n, secondary, color, tag) ==
  Header(n.parent_color,
         n.type + (IF secondary THEN FLAG_SECONDARY_BUCKET ELSE 0) + (IF n.dirty THEN FLAG_DIRTY ELSE 0),
         color, tag, n.last_symbol)

-----------------------------------------------------------------------------
Masked(h, mask) == [i \in 1..3 |-> h[i] & mask[i]]

TagMask == <<0, 2^TAG_BITS - 1, 0>>
Secondary(is_secondary) == IF is_secondary THEN FLAG_SECONDARY_BUCKET ELSE 0

(* A used cell with the tag: the test before the full comparison.          *)
Prefilter(h, tag) ==
  /\ h[1] & TYPE_MASK # 0
  /\ Masked(h, TagMask) = <<0, tag, 0>>

(* Mutant: the comparison ignores which bucket the entry belongs in.       *)
HeaderMatchAnyBucket(h, is_secondary, tag, last_symbol, parent_color) ==
  Masked(h, <<15 * 2^PARENT_COLOR_SHIFT, 2^TAG_BITS - 1, 255>>)
    = <<parent_color * 2^PARENT_COLOR_SHIFT, tag, last_symbol>>

HeaderMatchByParent(h, is_secondary, tag, last_symbol, parent_color) ==
  Masked(h, <<15 * 2^PARENT_COLOR_SHIFT + FLAG_SECONDARY_BUCKET, 2^TAG_BITS - 1, 255>>)
    = <<parent_color * 2^PARENT_COLOR_SHIFT + Secondary(is_secondary), tag, last_symbol>>

HeaderMatchByColor(h, is_secondary, tag, color) ==
  Masked(h, <<FLAG_SECONDARY_BUCKET, 255, 0>>)
    = <<Secondary(is_secondary), color * 2^TAG_BITS + tag, 0>>

(* The cell found, or -1.                                                  *)
FirstOf(cells) == IF cells = {} THEN -1 ELSE Min(cells)

(* Cell after cell.                                                        *)
find_entry_in_bucket_by_parent_vectorized(bucket, is_secondary, tag, last_symbol, parent_color) ==
  FirstOf({i \in CellNumbers :
             /\ Prefilter(bucket[i], tag)
             /\ HeaderMatchByParent(bucket[i], is_secondary, tag, last_symbol, parent_color)})

(* Two cells at a time: m01, then m23.                                     *)
find_entry_in_bucket_by_color_vectorized(bucket, is_secondary, tag, color) ==
  LET m(lanes) == {i \in lanes : /\ Prefilter(bucket[i], tag)
                                 /\ HeaderMatchByColor(bucket[i], is_secondary, tag, color)}
  IN  IF m({0, 1}) # {} THEN Min(m({0, 1})) ELSE FirstOf(m({2, 3}))

find_free_cell_in_bucket(bucket) ==
  FirstOf({i \in CellNumbers : entry_type(bucket[i]) = TYPE_UNUSED})

(* ctz of the complement: the lowest color whose bit is not set.           *)
LowestClear(used_colors) == Min((0..63) \ used_colors)

(* The color byte of each of the eight headers, shifted down.              *)
unused_color_in_pair_avx512(b1, b2) ==
  LET color(h) == Masked(h, <<0, 255, 0>>)[2] \div 2^TAG_BITS
  IN  LowestClear({color(b[i]) : b \in {b1, b2}, i \in CellNumbers})

(* The lanes of the two buckets are combined before they are read.         *)
unused_color_in_pair_vectorized(b1, b2) ==
  LET color(h) == Masked(h, <<0, 255, 0>>)[2] \div 2^TAG_BITS
      combined == [i \in CellNumbers |-> {color(b1[i]), color(b2[i])}]
  IN  LowestClear(UNION {combined[i] : i \in CellNumbers})

unused_color_in_pairr(b1, b2) ==
  LowestClear({entry_color(b1[i]) : i \in CellNumbers} \cup {entry_color(b2[i]) : i \in CellNumbers})

-----------------------------------------------------------------------------
EmptyPair == [b \in Buckets |-> [i \in CellNumbers |-> unused_entry]]

(* A pair that eight additions of one node have filled.                    *)
FullPair(n) ==
  [b \in Buckets |-> [i \in CellNumbers |->
     IF b = "primary" THEN NodeHeader(n, FALSE, i, Tag)
                      ELSE NodeHeader(n, TRUE, CUCKOO_BUCKET_SIZE + i, Tag)]]

PairIdle == pair = <<>> /\ changes = MaxChanges

PairInit ==
  /\ pair \in {EmptyPair} \cup {FullPair(n) : n \in Nodes}
  /\ changes = 0

Change(b, i, h) ==
  /\ pair' = [pair EXCEPT ![b][i] = h]
  /\ changes' = changes + 1

(* add_entry, without the relocation of a full pair.                       *)
AddEntry(n) ==
  LET color == unused_color_in_pair_vectorized(pair["primary"], pair["secondary"])
      b == IF find_free_cell_in_bucket(pair["primary"]) # -1 THEN "primary" ELSE "secondary"
  IN  /\ find_free_cell_in_bucket(pair[b]) # -1
      /\ Change(b, find_free_cell_in_bucket(pair[b]), NodeHeader(n, b = "secondary", color, Tag))

(* Another pair adds an entry to one of the buckets; its color is unused   *)
(* in that bucket and in one that is not shown.                            *)
AddOther(b, n, tag, color) ==
  LET secondary == IF tag = Tag THEN b = "primary" ELSE b = "secondary"
  IN  /\ find_free_cell_in_bucket(pair[b]) # -1
      /\ \A i \in CellNumbers : entry_color(pair[b][i]) # color
      /\ Change(b, find_free_cell_in_bucket(pair[b]), NodeHeader(n, secondary, color, tag))

(* remove_entry_by_address                                                 *)
RemoveEntry(b, i) ==
  /\ entry_type(pair[b][i]) # TYPE_UNUSED
  /\ Change(b, i, unused_entry)

PairNext ==
  /\ changes < MaxChanges
  /\ \/ \E n \in Nodes : AddEntry(n)
     \/ \E b \in Buckets, n \in Nodes, tag \in {Tag, OtherTag}, color \in {0, MAX_VALID_COLOR} :
          AddOther(b, n, tag, color)
     \/ \E b \in Buckets, i \in CellNumbers : RemoveEntry(b, i)

-----------------------------------------------------------------------------
(* The cells of a bucket that hold an entry of the pair with the tag.      *)
CellsOf(b, tag) ==
  {i \in CellNumbers : /\ entry_type(pair[b][i]) # TYPE_UNUSED
                       /\ entry_tag(pair[b][i]) = tag
                       /\ entry_is_secondary(pair[b][i]) <=> b = "secondary"}

(* The vectorized searches return the first cell whose entry belongs to    *)
(* the pair and has the color, or the parent and the last symbol, asked    *)
(* for, whatever else shares the buckets; a color names one entry of the   *)
(* pair; and the three ways to choose an unused color agree on one that    *)
(* is valid and that no cell of a pair with room has.  (The masks are      *)
(* built once per search from the fields' offsets and compared with the    *)
(* whole header.)                                                          *)
SearchesAgree == pair # <<>> =>
  /\ \A b \in Buckets, tag \in {Tag, OtherTag} :
       /\ \A color \in 0..MAX_VALID_COLOR :
            find_entry_in_bucket_by_color_vectorized(pair[b], b = "secondary", tag, color)
              = FirstOf({i \in CellsOf(b, tag) : entry_color(pair[b][i]) = color})
       /\ \A n \in Nodes :
            find_entry_in_bucket_by_parent_vectorized(pair[b], b = "secondary", tag, n.last_symbol, n.parent_color)
              = FirstOf({i \in CellsOf(b, tag) : /\ entry_parent_color(pair[b][i]) = n.parent_color
                                                 /\ pair[b][i][3] = n.last_symbol})
  /\ \A b1, b2 \in Buckets : \A i \in CellsOf(b1, Tag), j \in CellsOf(b2, Tag) :
       <<b1, i>> # <<b2, j>> => entry_color(pair[b1][i]) # entry_color(pair[b2][j])
  /\ LET color == unused_color_in_pair_vectorized(pair["primary"], pair["secondary"])
     IN  /\ color = unused_color_in_pair_avx512(pair["primary"], pair["secondary"])
         /\ color = unused_color_in_pairr(pair["primary"], pair["secondary"])
         /\ color <= MAX_VALID_COLOR
         /\ \A b \in Buckets, i \in CellNumbers : entry_color(pair[b][i]) # color
=============================================================================
