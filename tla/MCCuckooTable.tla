---------------------------- MODULE MCCuckooTable ----------------------------
(* Instances of CuckooTable for TLC.                                       *)
EXTENDS CuckooTable

H(b, t) == [bucket |-> b, tag |-> t]

(* Mix values for three or four buckets; bucket 0 is the root's.           *)
MixOne == [t \in {0} |-> 1]
Mix12 == (0 :> 1) @@ (1 :> 2)

Scenario(plans, inserts, buffered) == [plans |-> plans, inserts |-> inserts, buffered |-> buffered]

(* Two inserts meet in a pair of buckets, relocations run along paths that *)
(* cross, and the stores of two inserts are delayed.                       *)
Pair == {Scenario({<<H(2, 0)>>, <<H(2, 0), H(1, 0)>>}, 1, FALSE)}
Paths == {Scenario({<<H(3, 0)>>, <<H(2, 0)>>}, 2, FALSE)}
Buffered == {Scenario({<<H(2, 0)>>, <<H(1, 0)>>}, 1, TRUE)}
Writes == Pair \cup Paths \cup Buffered

(* The third insert of one writer moves entries to their secondary bucket  *)
(* and back, or moves what its own secondary bucket holds and retries.     *)
Moves == {Scenario({<<H(3, 0)>>, <<H(3, 1)>>, <<H(1, 0)>>, <<H(2, 0), H(3, 0)>>}, 3, FALSE)}

WriterSymmetry == Permutations(Writers)
=============================================================================
