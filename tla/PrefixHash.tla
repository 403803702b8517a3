----------------------------- MODULE PrefixHash ------------------------------
(***************************************************************************)
(* The hash of a key prefix (main.c): accumulate_hash adds one symbol to   *)
(* the hash of the prefix before it.  A hash names a pair of buckets, by   *)
(* its primary bucket and its tag.                                         *)
(***************************************************************************)
EXTENDS Hash

CONSTANTS
  FANOUT,      \* 2^BITS_PER_SYMBOL; symbols are 1..FANOUT and SYMBOL_END
  NumTags,     \* 2^TAG_BITS
  BitXor(_, _) \* bitwise exclusive or

SYMBOL_END == 0
Symbols == SYMBOL_END..FANOUT

num_pairs == num_buckets * NumTags
num_shuffle_blocks == num_pairs \div FANOUT
PrefixHashes == 0..(num_pairs - 1)
HASH_START_VALUE == 0

ASSUME FanoutAssumption == FANOUT \in Nat \ {0}
ASSUME NumTagsAssumption == NumTags \in Nat \ {0} /\ Tags = 0..(NumTags - 1)

(* ct_alloc makes num_buckets a multiple of 2 * FANOUT.                    *)
ASSUME TableSizeAssumption == num_buckets % (2 * FANOUT) = 0

(* What that is for: "xor-ing a symbol (which is in the range 0 .. FANOUT, *)
(* inclusive) won't make a bucket number invalid".                         *)
ASSUME XorAssumption ==
  \A x \in PrefixHashes, s \in Symbols :
    BitXor(x, s) \in PrefixHashes /\ BitXor(BitXor(x, s), s) = x

hash_to_bucket(x) == x \div NumTags
hash_to_tag(x) == x % NumTags

(* The low bits, changed by the symbol, become the high part.              *)
accumulate_hash(x, symbol) ==
  LET y == BitXor(x, symbol)
  IN  (y % FANOUT) * num_shuffle_blocks + y \div FANOUT
=============================================================================
