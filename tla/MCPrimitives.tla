---------------------------- MODULE MCPrimitives ----------------------------
(* The three machines of the packed representations, one at a time.        *)
EXTENDS KeySymbols, NodeBits, BucketSearch

(* Keys of up to MAX_KEY_BYTES bytes: a stem of any length and one or two  *)
(* bytes after it.  11 is to 256 what matters here: one byte more than a   *)
(* multiple of BITS_PER_SYMBOL.                                            *)
Stem == <<165, 0, 255, 7, 128, 0, 0, 127, 1>>
Tails == UNION {[1..n -> {0, 1, 255}] : n \in 0..2}
StemsAndTails == {SubSeq(Stem, 1, n) \o t : n \in 0..Len(Stem), t \in Tails}

(* At the start of a page, on both sides of the limit of read_qword_zfill, *)
(* and across the end of a page.                                           *)
OnPage == {4096, 4104, 4105, 8187}

AnyByte == {0, 255}

SomeNodes ==
  {[parent_color |-> 0, last_symbol |-> 32, type |-> 1, dirty |-> FALSE],
   [parent_color |-> INVALID_COLOR, last_symbol |-> 0, type |-> 3, dirty |-> TRUE]}

Init ==
  \/ KeyInit /\ NodeIdle /\ PairIdle
  \/ KeyIdle /\ NodeInit /\ PairIdle
  \/ KeyIdle /\ NodeIdle /\ PairInit

Next ==
  \/ KeyNext /\ UNCHANGED <<node_vars, pair_vars>>
  \/ NodeNext /\ UNCHANGED <<key_vars, pair_vars>>
  \/ PairNext /\ UNCHANGED <<key_vars, node_vars>>

Spec == Init /\ [][Next]_<<key_vars, node_vars, pair_vars>>
=============================================================================
