--------------------------- MODULE ConcurrentIndex ---------------------------
(***************************************************************************)
(* What the interface of the cuckoo trie promises threads that use it at   *)
(* the same time.  A call takes effect at one moment between its start and *)
(* its return.  Every thread has an iterator of its own; it reports keys   *)
(* in ascending order from the key it was placed at, each of which some    *)
(* thread has inserted or is inserting, and skips none of the keys that    *)
(* were there when it was placed.                                          *)
(***************************************************************************)
EXTENDS KeyOrder

CONSTANTS
  Threads,
  Calls,     \* the calls there are: [op, key, value]
  NULL, Pending

VARIABLES
  index,     \* key -> value
  call,      \* thread -> its call and the result, once it took effect, or NULL
  cursor     \* thread -> where its iterator is, and the keys it may not skip

vars == <<index, call, cursor>>

NoCursor == [low |-> NULL, strict |-> FALSE, must |-> {}]

Ahead(c, k) == IF c.strict THEN Less(c.low, k) ELSE LessEq(c.low, k)

PutCalls == {"ct_insert", "ct_upsert"}

(* Keys that are in the index or are being put there.                      *)
Started ==
  DOMAIN index \cup {call[t].key : t \in {u \in Threads : call[u] # NULL /\ call[u].op \in PutCalls}}

Invoke(t, c) ==
  /\ call[t] = NULL
  /\ c.op = "ct_iter_next" => cursor[t] # NoCursor
  /\ call' = [call EXCEPT ![t] = [op |-> c.op, key |-> c.key, value |-> c.value, ret |-> Pending]]
  /\ cursor' = IF c.op = "ct_iter_goto"
               THEN [cursor EXCEPT ![t] = [low |-> c.key, strict |-> FALSE, must |-> DOMAIN index]]
               ELSE cursor
  /\ UNCHANGED index

Returns(t, result) == call' = [call EXCEPT ![t].ret = result]

Put(t) ==
  index' = [k \in DOMAIN index \cup {call[t].key} |-> IF k = call[t].key THEN call[t].value ELSE index[k]]

Insert(t) ==
  /\ call[t].op = "ct_insert"
  /\ IF call[t].key \in DOMAIN index THEN Returns(t, "S_ALREADYIN") /\ UNCHANGED index
                                     ELSE Returns(t, "S_OK") /\ Put(t)
  /\ UNCHANGED cursor

(* The result tells whether the key is new (created_new).                  *)
Upsert(t) ==
  /\ call[t].op = "ct_upsert"
  /\ Returns(t, call[t].key \notin DOMAIN index)
  /\ Put(t)
  /\ UNCHANGED cursor

Update(t) ==
  /\ call[t].op = "ct_update"
  /\ IF call[t].key \in DOMAIN index THEN Returns(t, "S_OK") /\ Put(t)
                                     ELSE Returns(t, "S_NOTFOUND") /\ UNCHANGED index
  /\ UNCHANGED cursor

Lookup(t) ==
  /\ call[t].op = "ct_lookup"
  /\ Returns(t, IF call[t].key \in DOMAIN index THEN index[call[t].key] ELSE NULL)
  /\ UNCHANGED <<index, cursor>>

IterGoto(t) ==
  /\ call[t].op = "ct_iter_goto"
  /\ Returns(t, NULL)
  /\ UNCHANGED <<index, cursor>>

IterNext(t) ==
  /\ call[t].op = "ct_iter_next"
  /\ \/ \E k \in Started :
          /\ Ahead(cursor[t], k)
          /\ \A m \in cursor[t].must : Ahead(cursor[t], m) => LessEq(k, m)
          /\ cursor' = [cursor EXCEPT ![t].low = k, ![t].strict = TRUE]
          /\ Returns(t, k)
     \/ /\ \A m \in cursor[t].must : ~Ahead(cursor[t], m)
        /\ Returns(t, NULL)
        /\ UNCHANGED cursor
  /\ UNCHANGED index

Effect(t) ==
  /\ call[t] # NULL
  /\ call[t].ret = Pending
  /\ Insert(t) \/ Upsert(t) \/ Update(t) \/ Lookup(t) \/ IterGoto(t) \/ IterNext(t)

Respond(t) ==
  /\ call[t] # NULL
  /\ call[t].ret # Pending
  /\ call' = [call EXCEPT ![t] = NULL]
  /\ UNCHANGED <<index, cursor>>

Init ==
  /\ index = <<>>
  /\ call = [t \in Threads |-> NULL]
  /\ cursor = [t \in Threads |-> NoCursor]

Next == \E t \in Threads : (\E c \in Calls : Invoke(t, c)) \/ Effect(t) \/ Respond(t)

Spec == Init /\ [][Next]_vars
=============================================================================
