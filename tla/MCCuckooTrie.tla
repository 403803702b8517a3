----------------------------- MODULE MCCuckooTrie ----------------------------
(* Instances of CuckooTrie for TLC.                                        *)
EXTENDS CuckooTrie, Bitwise

XorBits(x, y) == x ^^ y

MixOne == [t \in {0} |-> 1]
MixOneThree == [t \in {0, 1} |-> 2 * t + 1]

CONSTANTS v1, v2

(* Four buckets of two cells get full of these: jump nodes are created and *)
(* split, entries are relocated, and some inserts fail.                    *)
KeysFull == {<<1>>, <<1, 1, 1>>, <<1, 1, 2>>, <<1, 2, 1>>, <<1, 2, 2>>, <<2, 2, 2>>}

(* The leaf after the first is split by the third.  The last is too long.  *)
KeysMap == {<<1>>, <<1, 1, 1>>, <<1, 1, 2>>, <<1, 1, 1, 1>>}

KeysAll == KeysFull \cup KeysMap

Filling == [keys |-> KeysFull, values |-> {v1}, calls |-> {"ct_insert", "ct_lookup"}]
Mapping == [keys |-> KeysMap, values |-> {v1, v2}, calls |-> {"ct_upsert", "ct_update", "ct_lookup"}]
Iterating == [keys |-> KeysMap \cup {<<1, 2, 2>>}, values |-> {v1}, calls |-> {"ct_insert", "ct_iter_goto", "ct_iter_next"}]

WorkloadsAll == {Filling, Mapping, Iterating}

(* The first splits a jump node and moves its child.                       *)
KeysMovedChild == {<<1, 1, 1, 1>>, <<1, 1, 1, 2, 2>>, <<1, 1, 1, 2, 2, 1>>}
WorkloadsMovedChild == {[keys |-> KeysMovedChild, values |-> {v1}, calls |-> {"ct_insert"}]}

(* Split leaves with a chain of nodes above them, which move one of them.  *)
KeysMovedLeaf == {<<2, 1, 1>>, <<2, 2, 2, 1>>, <<2, 2, 2, 2, 2>>}
WorkloadsMovedLeaf == {[keys |-> KeysMovedLeaf, values |-> {v1}, calls |-> {"ct_insert"}]}
=============================================================================
