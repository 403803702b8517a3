--------------------------- MODULE MCConcurrentTrie --------------------------
(* Instances of ConcurrentTrie for TLC.                                    *)
EXTENDS ConcurrentTrie

CONSTANTS t1, t2, t3, v1, v2

C(op, key, value) == [op |-> op, key |-> key, value |-> value]
Insert(keys, value) == SetToSeqs({C("ct_insert", k, value) : k \in keys})
Goto(keys) == SetToSeqs({C("ct_iter_goto", k, NULL) : k \in keys})

(* A jump node leads to A and B; D splits the leaf of B, E the jump node.  *)
A == <<1, 1, 1>>
B == <<1, 1, 2>>
D == <<1, 1, 2, 1>>
E == <<2>>

(* An iterator goes past two writers.                                      *)
IteratePrograms ==
  {t1 :> p1 @@ t2 :> p2 @@ t3 :> p3 : p1 \in Insert({A, D}, v1), p2 \in Insert({B, E}, v2), p3 \in Goto({A})}
  \cup
  {t1 :> p1 @@ t2 :> p2 @@ t3 :> p3 : p1 \in Insert({A, D}, v1), p2 \in Insert({B}, v2), p3 \in Goto({<<>>, E})}

(* Two threads write the value of a key whose leaf is split.               *)
UpdatePrograms ==
  {t1 :> <<C("ct_insert", A, v1), C("ct_upsert", B, v1)>>
   @@ t2 :> p2
   @@ t3 :> <<C("ct_lookup", B, NULL), C("ct_update", D, v1)>> :
     p2 \in SetToSeqs({C("ct_upsert", B, v2), C("ct_update", A, v2), C("ct_insert", A, v2)})}

(* G and H are inserted into two bitmap nodes, both after the leaf of F2;  *)
(* the iterator starts from that leaf too.                                 *)
F1 == <<1>>
F2 == <<1, 1>>
F3 == <<3>>
G == <<1, 2>>
H == <<2>>
NeighbourPrograms ==
  {t1 :> <<C("ct_insert", F1, v1), C("ct_insert", F2, v1), C("ct_insert", F3, v1), C("ct_insert", G, v1)>>
   @@ t2 :> <<C("ct_insert", H, v2)>>
   @@ t3 :> <<C("ct_iter_goto", H, NULL)>>}

AllKeys == {A, B, D, E, F1, F2, F3, G, H}
AllPrograms == IteratePrograms \cup UpdatePrograms \cup NeighbourPrograms
AfterSmallest == t1 :> {} @@ t2 :> {F1, F2, F3} @@ t3 :> {A, F1, F2, F3}

(* A new smallest key is inserted while an iterator is placed at the old.  *)
ThreeKeys == {<<1>>, <<2>>, <<3>>}
SmallestPrograms ==
  {t1 :> <<C("ct_insert", <<2>>, v1), C("ct_insert", <<3>>, v1), C("ct_insert", <<1>>, v1)>>
   @@ t2 :> <<>>
   @@ t3 :> <<C("ct_iter_goto", <<2>>, NULL)>>}
AfterTwoThree == t1 :> {} @@ t2 :> {} @@ t3 :> {<<2>>, <<3>>}

(* The only leaf is split by a smaller key: no bitmap has a child left of  *)
(* the larger one before.                                                  *)
RootPrograms ==
  {t1 :> <<C("ct_insert", <<2>>, v1), C("ct_insert", <<1>>, v1)>>
   @@ t2 :> <<>>
   @@ t3 :> <<C("ct_iter_goto", <<2>>, NULL)>>}
AfterTwo == t1 :> {} @@ t2 :> {} @@ t3 :> {<<2>>}
=============================================================================
