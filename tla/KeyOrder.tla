------------------------------ MODULE KeyOrder -------------------------------
(* The order of keys: lexicographic, a prefix before its extensions.       *)
EXTENDS Integers, Sequences

Less(a, b) ==
  \/ Len(a) < Len(b) /\ SubSeq(b, 1, Len(a)) = a
  \/ \E i \in 1..Len(a) : /\ i <= Len(b)
                          /\ SubSeq(a, 1, i - 1) = SubSeq(b, 1, i - 1)
                          /\ a[i] < b[i]

LessEq(a, b) == a = b \/ Less(a, b)
=============================================================================
