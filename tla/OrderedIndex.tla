---------------------------- MODULE OrderedIndex -----------------------------
(***************************************************************************)
(* What the interface of the cuckoo trie promises a single thread: an      *)
(* ordered map with insert, upsert, update, lookup and one iterator.       *)
(*                                                                         *)
(* An iterator is positioned by ct_iter_goto and returns keys in order.    *)
(* It need not see keys added since it was positioned, but it skips none   *)
(* of those that were there.                                               *)
(***************************************************************************)
EXTENDS KeyOrder, TLC

CONSTANTS Keys, Values, MaxKeyLength, NULL

VARIABLES
  index,    \* key -> value, for the keys in the trie
  full,     \* S_OVERFLOW was returned: later results are undefined
  cursor,   \* the iterator: where it is, and the keys it may not skip
  last      \* the last call that returned: its name, key and result

vars == <<index, full, cursor, last>>

Returned(op, key, result) == last' = [op |-> op, key |-> key, result |-> result]

Put(k, v) == index' = (k :> v) @@ index

Overflow(op, k) ==
  /\ full' = TRUE
  /\ index' = <<>>
  /\ Returned(op, k, "S_OVERFLOW")
  /\ UNCHANGED cursor

Insert(k, v) ==
  \/ /\ Len(k) <= MaxKeyLength /\ k \notin DOMAIN index
     /\ Put(k, v)
     /\ Returned("ct_insert", k, "S_OK")
     /\ UNCHANGED <<full, cursor>>
  \/ /\ Len(k) <= MaxKeyLength /\ k \in DOMAIN index
     /\ Returned("ct_insert", k, "S_ALREADYIN")
     /\ UNCHANGED <<index, full, cursor>>
  \/ /\ Len(k) > MaxKeyLength
     /\ Returned("ct_insert", k, "S_KEYTOOLONG")
     /\ UNCHANGED <<index, full, cursor>>
  \/ Len(k) <= MaxKeyLength /\ k \notin DOMAIN index /\ Overflow("ct_insert", k)

(* The result tells whether the key is new (created_new).                  *)
Upsert(k, v) ==
  \/ /\ Len(k) <= MaxKeyLength
     /\ Put(k, v)
     /\ Returned("ct_upsert", k, k \notin DOMAIN index)
     /\ UNCHANGED <<full, cursor>>
  \/ /\ Len(k) > MaxKeyLength
     /\ Returned("ct_upsert", k, "S_KEYTOOLONG")
     /\ UNCHANGED <<index, full, cursor>>
  \/ Len(k) <= MaxKeyLength /\ k \notin DOMAIN index /\ Overflow("ct_upsert", k)

Update(k, v) ==
  \/ /\ k \in DOMAIN index
     /\ Put(k, v)
     /\ Returned("ct_update", k, "S_OK")
     /\ UNCHANGED <<full, cursor>>
  \/ /\ k \notin DOMAIN index
     /\ Returned("ct_update", k, "S_NOTFOUND")
     /\ UNCHANGED <<index, full, cursor>>

Lookup(k) ==
  /\ Returned("ct_lookup", k, IF k \in DOMAIN index THEN index[k] ELSE NULL)
  /\ UNCHANGED <<index, full, cursor>>

NoCursor == [low |-> NULL, strict |-> FALSE, must |-> {}]

IterGoto(k) ==
  /\ cursor' = [low |-> k, strict |-> FALSE, must |-> DOMAIN index]
  /\ Returned("ct_iter_goto", k, NULL)
  /\ UNCHANGED <<index, full>>

(* Key k is still to come.                                                 *)
Ahead(k) == IF cursor.strict THEN Less(cursor.low, k) ELSE LessEq(cursor.low, k)

IterNext ==
  /\ cursor # NoCursor
  /\ \/ \E k \in DOMAIN index :
          /\ Ahead(k)
          /\ \A m \in cursor.must : Ahead(m) => LessEq(k, m)
          /\ cursor' = [cursor EXCEPT !.low = k, !.strict = TRUE]
          /\ Returned("ct_iter_next", k, k)
     \/ /\ \A m \in cursor.must : ~Ahead(m)
        /\ Returned("ct_iter_next", <<>>, NULL)
        /\ UNCHANGED cursor
  /\ UNCHANGED <<index, full>>

Init ==
  /\ index = <<>>
  /\ full = FALSE
  /\ cursor = NoCursor
  /\ last = [op |-> "ct_alloc", key |-> <<>>, result |-> NULL]

Operation ==
  \/ \E k \in Keys, v \in Values : Insert(k, v) \/ Upsert(k, v) \/ Update(k, v)
  \/ \E k \in Keys : Lookup(k) \/ IterGoto(k)
  \/ IterNext

Next == ~full /\ Operation

Spec == Init /\ [][Next]_vars
=============================================================================
