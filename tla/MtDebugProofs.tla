--------------------------- MODULE MtDebugProofs -----------------------------
(***************************************************************************)
(* Proofs about the debug scheduler, for any number of threads and any     *)
(* programs: while it is enabled accesses happen in turn, and the turn is  *)
(* with a thread that will pass it on.                                     *)
(***************************************************************************)
EXTENDS MtDebug, FiniteSetTheorems, TLAPS

-----------------------------------------------------------------------------
(* The inductive invariant, part by part.                                  *)

Labels ==
  {"register", "start", "start_broadcast", "join", "joined", "run", "index", "wait_lock", "test",
   "wait", "sleep", "access", "access_done", "turn_lock", "turn", "turn_broadcast", "done_lock",
   "done", "done_broadcast", "disabled", "returned"}

PcInv == pc \in [Actors -> Labels]

(* Nobody has a turn before ct_mtdbg_start, which comes after all threads  *)
(* are registered.                                                         *)
MainInv ==
  /\ registered \subseteq Running
  /\ pc[Main] \in {"register", "start"} => running_thread = NULL
  /\ pc[Main] # "register" => registered = Running

(* A thread is marked as finished by itself, in its last critical section. *)
FinishedInv == \A t \in finished : pc[t] \in {"done_broadcast", "returned"}

(* The mutex is held exactly between lock and unlock.                      *)
MutexHeld == \A a \in Actors : pc[a] \in {"start", "test", "wait", "turn", "done"} <=> mutex = a

(* Whoever is about to pass the turn on has it, also when the scheduler    *)
(* has been switched off meanwhile.                                        *)
PasserHasTurn == \A t \in Running : pc[t] \in {"turn_lock", "turn"} => running_thread = t

IInv ==
  /\ TypeOK
  /\ PcInv
  /\ MainInv
  /\ FinishedInv
  /\ MutexHeld
  /\ PasserHasTurn
  /\ AccessInTurn
  /\ TurnIsNotLost

shared == <<program, running_thread, registered, num_running_threads, finished>>

-----------------------------------------------------------------------------
(* A step that moves one actor, and the sleepers it wakes up, and leaves   *)
(* the turn and the registered threads alone.                              *)
LEMMA ActorMoves ==
  ASSUME IInv, shared' = shared, NEW a \in Actors, NEW to \in Labels,
         mt_debug_enabled' \in BOOLEAN, mt_debug_enabled' => mt_debug_enabled,
         mutex' \in Actors \cup {NULL}, left' \in [Running -> Nat],
         pc' \in [Actors -> Labels], pc'[a] = to,
         \A b \in Actors \ {a} : pc'[b] = pc[b] \/ (pc[b] = "sleep" /\ pc'[b] = "wait_lock"),
         a = Main => (pc[a] # "register" => to # "register") /\ (to = "start" => pc[a] = "register"),
         a = Main => (pc[a] = "register" /\ to # "register" => registered = Running),
         a \in finished => to \in {"done_broadcast", "returned"},
         MutexHeld',
         mt_debug_enabled' /\ a \in Running /\ to \in {"access", "access_done"} => running_thread = a,
         a \in Running /\ to \in {"turn_lock", "turn"} => running_thread = a
  PROVE  IInv'
<1>1. Actors = Threads \cup {Main} /\ Main \notin Threads /\ NULL \notin Actors
  BY ActorsAssumption DEF Actors
<1>2. Running' = Running /\ Running \subseteq Threads
  BY ProgramsAssumption DEF IInv, TypeOK, shared, Running
<1>3. TypeOK'
  BY <1>2 DEF IInv, TypeOK, shared
<1>4. PcInv'
  BY DEF PcInv
<1>5. MainInv'
  <2>1. CASE a = Main
    BY <2>1, <1>2 DEF IInv, MainInv, shared
  <2>2. CASE a # Main
    <3>1. Main \in Actors \ {a}
      BY <2>2, <1>1
    <3>2. pc'[Main] = pc[Main] \/ (pc[Main] = "sleep" /\ pc'[Main] = "wait_lock")
      BY <3>1
    <3> QED BY <3>2, <1>2 DEF IInv, MainInv, shared
  <2> QED BY <2>1, <2>2
<1>6. FinishedInv'
  BY <1>1 DEF IInv, FinishedInv, shared, TypeOK
<1>7. AccessInTurn'
  BY <1>1, <1>2 DEF IInv, AccessInTurn, shared
<1>8. PasserHasTurn'
  BY <1>1, <1>2 DEF IInv, PasserHasTurn, shared
<1>9. TurnIsNotLost'
  BY DEF IInv, TurnIsNotLost, shared
<1> QED BY <1>3, <1>4, <1>5, <1>6, <1>7, <1>8, <1>9 DEF IInv

(* pc after a Goto.                                                        *)
LEMMA GotoPc ==
  ASSUME PcInv, NEW a \in Actors, NEW to \in Labels, Goto(a, to)
  PROVE  pc' \in [Actors -> Labels] /\ pc'[a] = to /\ \A b \in Actors \ {a} : pc'[b] = pc[b]
BY DEF PcInv, Goto

(* A label of a thread is not one of the main thread, and the other way    *)
(* round: only the main thread takes the steps of ct_mtdbg_start and Join. *)
CriticalLabels == {"start", "test", "wait", "turn", "done"}

(* Moving between labels outside of the critical sections.                 *)
LEMMA MutexKept ==
  ASSUME MutexHeld, NEW a \in Actors, mutex' = mutex,
         pc'[a] \in CriticalLabels <=> pc[a] \in CriticalLabels,
         \A b \in Actors \ {a} : pc'[b] = pc[b] \/ (pc[b] = "sleep" /\ pc'[b] = "wait_lock")
  PROVE  MutexHeld'
BY DEF MutexHeld, CriticalLabels

LEMMA MutexFreed ==
  ASSUME MutexHeld, NEW a \in Actors, mutex' = NULL, pc[a] \in CriticalLabels,
         pc'[a] \notin CriticalLabels, \A b \in Actors \ {a} : pc'[b] = pc[b]
  PROVE  MutexHeld'
<1>1. NULL \notin Actors
  BY ActorsAssumption DEF Actors
<1>2. \A b \in Actors \ {a} : pc[b] \notin CriticalLabels
  BY DEF MutexHeld, CriticalLabels
<1> QED BY <1>1, <1>2 DEF MutexHeld, CriticalLabels

LEMMA LockStep ==
  ASSUME IInv, NEW a \in Actors, NEW from \in Labels, NEW to \in CriticalLabels, Lock(a, from, to),
         from \notin CriticalLabels,
         a = Main => from = "register" /\ to = "start" /\ registered = Running,
         a # Main => to \in {"test", "turn", "done"},
         to = "turn" => from = "turn_lock",
         a \in finished => FALSE
  PROVE  IInv'
<1>1. to \in Labels /\ pc[a] = from
  BY DEF CriticalLabels, Labels, Lock
<1>2. pc' \in [Actors -> Labels] /\ pc'[a] = to /\ \A b \in Actors \ {a} : pc'[b] = pc[b]
  BY <1>1, GotoPc DEF Lock, IInv
<1>3. MutexHeld'
  <2>1. NULL \notin Actors
    BY ActorsAssumption DEF Actors
  <2>2. \A b \in Actors : pc[b] \notin CriticalLabels
    BY <2>1 DEF IInv, MutexHeld, Lock, CriticalLabels
  <2> QED BY <2>2, <1>2 DEF MutexHeld, CriticalLabels, Lock
<1>4. to = "turn" /\ a \in Running => running_thread = a
  BY <1>1 DEF IInv, PasserHasTurn
<1>5. shared' = shared /\ mt_debug_enabled' = mt_debug_enabled /\ mutex' = a /\ left' = left
  BY DEF Lock, shared
<1>6. a = Main => (pc[a] # "register" => to # "register") /\ (to = "start" => pc[a] = "register")
  BY <1>1
<1>7. a = Main => (pc[a] = "register" /\ to # "register" => registered = Running)
  OBVIOUS
<1>8. to \in {"access", "access_done", "turn_lock", "turn"} => to = "turn"
  BY DEF CriticalLabels
<1>9. mt_debug_enabled' \in BOOLEAN /\ left' \in [Running -> Nat]
  BY <1>5 DEF IInv, TypeOK
<1> QED BY <1>1, <1>2, <1>3, <1>4, <1>5, <1>6, <1>7, <1>8, <1>9, ActorMoves

LEMMA BroadcastStep ==
  ASSUME IInv, NEW a \in Actors, NEW from \in Labels, NEW to \in Labels, Broadcast(a, from, to),
         from \notin CriticalLabels, to \notin CriticalLabels,
         to \notin {"access", "access_done", "turn_lock", "turn", "register"},
         a = Main => from # "register",
         a \in finished => to \in {"done_broadcast", "returned"}
  PROVE  IInv'
<1>1. pc[a] = from /\ mutex' = mutex
  BY DEF Broadcast
<1>2. /\ pc' \in [Actors -> Labels] /\ pc'[a] = to
      /\ \A b \in Actors \ {a} : pc'[b] = pc[b] \/ (pc[b] = "sleep" /\ pc'[b] = "wait_lock")
  BY DEF Broadcast, IInv, PcInv, Labels
<1>3. MutexHeld'
  BY <1>1, <1>2, MutexKept DEF IInv
<1>4. /\ shared' = shared /\ mt_debug_enabled' = mt_debug_enabled /\ left' = left
      /\ mt_debug_enabled' \in BOOLEAN /\ left' \in [Running -> Nat]
      /\ mutex' \in Actors \cup {NULL}
  BY DEF Broadcast, shared, IInv, TypeOK
<1>5. to # "start"
  BY DEF CriticalLabels
<1> QED BY <1>1, <1>2, <1>3, <1>4, <1>5, ActorMoves

-----------------------------------------------------------------------------
(* The turn.                                                               *)

(* Whoever is drawn has not finished, or nobody is left.                   *)
LEMMA Drawn ==
  ASSUME NEW n, NEW f, NEW turn, next_turn_locked(n, f, turn)
  PROVE  IF n = 0 THEN turn = running_thread ELSE turn \in registered /\ turn \notin f
BY DEF next_turn_locked

(* next_turn: called by the thread whose turn it is, or by the main thread *)
(* before there is one.                                                    *)
LEMMA NextTurnStep ==
  ASSUME IInv, NEW a \in Actors, NEW turn \in Running,
         NEW from \in CriticalLabels, NEW to \in Labels \ CriticalLabels,
         NextTurn(a, turn, from, to),
         a = Main => from = "start" /\ to = "start_broadcast",
         a # Main => a \in Running /\ from = "turn" /\ to = "turn_broadcast"
  PROVE  IInv'
<1>1. Actors = Threads \cup {Main} /\ Main \notin Threads /\ NULL \notin Actors
  BY ActorsAssumption DEF Actors
<1>2. Running' = Running /\ Running \subseteq Threads
  BY ProgramsAssumption DEF IInv, TypeOK, NextTurn, Running
<1>3. to \in Labels /\ pc[a] = from
  BY DEF NextTurn
<1>4. pc' \in [Actors -> Labels] /\ pc'[a] = to /\ \A b \in Actors \ {a} : pc'[b] = pc[b]
  BY <1>3, GotoPc DEF NextTurn, IInv
<1>5. MutexHeld'
  BY <1>3, <1>4, MutexFreed DEF IInv, NextTurn
<1>6. TypeOK' /\ PcInv'
  BY <1>1, <1>2, <1>4 DEF IInv, TypeOK, NextTurn, PcInv
<1>7. MainInv'
  <2>1. CASE a = Main
    BY <2>1, <1>2, <1>3, <1>4 DEF IInv, MainInv, NextTurn
  <2>2. CASE a # Main
    <3>1. pc'[Main] = pc[Main]
      BY <2>2, <1>1, <1>4
    <3>2. running_thread = a
      BY <2>2, <1>3 DEF IInv, PasserHasTurn
    <3>3. pc[Main] \notin {"register", "start"}
      BY <3>2, <1>1 DEF IInv, MainInv
    <3> QED BY <3>1, <3>3, <1>2 DEF IInv, MainInv, NextTurn
  <2> QED BY <2>1, <2>2
<1>8. FinishedInv'
  <2>1. a \notin finished
    BY <1>1, <1>3 DEF IInv, FinishedInv
  <2> QED BY <2>1, <1>1, <1>4 DEF IInv, FinishedInv, NextTurn, TypeOK
<1>9. /\ mt_debug_enabled => \A t \in Running \ {a} : pc[t] \notin {"access", "access_done", "turn_lock", "turn"}
      /\ \A t \in Running \ {a} : pc[t] \notin {"turn_lock", "turn"}
  <2>1. CASE a = Main
    BY <2>1, <1>1, <1>2, <1>3 DEF IInv, MainInv, AccessInTurn, PasserHasTurn
  <2>2. CASE a # Main
    BY <2>2, <1>3 DEF IInv, AccessInTurn, PasserHasTurn
  <2> QED BY <2>1, <2>2
<1>10. AccessInTurn' /\ PasserHasTurn'
  <2>1. to \notin {"access", "access_done", "turn_lock", "turn"}
    OBVIOUS
  <2>2. \A t \in Running \ {a} : pc'[t] = pc[t]
    BY <1>1, <1>2, <1>4
  <2> QED BY <1>2, <1>4, <1>9, <2>1, <2>2 DEF AccessInTurn, PasserHasTurn, NextTurn
<1>11. TurnIsNotLost'
  <2>1. IF num_running_threads = 0 THEN turn = running_thread ELSE turn \in registered /\ turn \notin finished
    BY Drawn DEF NextTurn
  <2> QED BY <2>1 DEF IInv, TurnIsNotLost, NextTurn
<1> QED BY <1>5, <1>6, <1>7, <1>8, <1>10, <1>11 DEF IInv

(* One thread less runs.                                                   *)
LEMMA OneLess ==
  ASSUME IInv, NEW t \in registered \ finished
  PROVE  /\ Cardinality(registered \ (finished \cup {t})) = num_running_threads - 1
         /\ num_running_threads > 0
<1>1. IsFiniteSet(registered \ finished)
  BY ActorsAssumption, FS_Subset DEF IInv, TypeOK
<1>2. registered \ (finished \cup {t}) = (registered \ finished) \ {t}
  OBVIOUS
<1>3. Cardinality(registered \ (finished \cup {t})) = Cardinality(registered \ finished) - 1
  BY <1>1, <1>2, FS_RemoveElement
<1>4. IsFiniteSet((registered \ finished) \ {t})
  BY <1>1, FS_RemoveElement
<1>5. Cardinality((registered \ finished) \ {t}) \in Nat
  BY <1>4, FS_CardinalityType
<1>6. num_running_threads = Cardinality(registered \ finished) /\ num_running_threads \in Nat
  BY <1>1, FS_CardinalityType DEF IInv, TurnIsNotLost
<1> QED BY <1>2, <1>3, <1>5, <1>6

(* ct_mtdbg_thread_done gives up the turn if it has it.                    *)
LEMMA ThreadDoneStep ==
  ASSUME IInv, NEW t \in Running, ThreadDone(t)
  PROVE  IInv'
<1>1. Actors = Threads \cup {Main} /\ Main \notin Threads /\ NULL \notin Actors
  BY ActorsAssumption DEF Actors
<1>2. Running' = Running /\ Running \subseteq Threads /\ t \in Actors
  BY <1>1, ProgramsAssumption DEF IInv, TypeOK, ThreadDone, Running
<1>3. pc' \in [Actors -> Labels] /\ pc'[t] = "done_broadcast" /\ \A b \in Actors \ {t} : pc'[b] = pc[b]
  BY <1>2, GotoPc DEF ThreadDone, IInv, Labels
<1>4. MutexHeld'
  BY <1>2, <1>3, MutexFreed DEF IInv, ThreadDone, CriticalLabels
<1>5. registered = Running /\ pc[Main] \notin {"register", "start"} /\ pc'[Main] = pc[Main]
  BY <1>1, <1>2, <1>3 DEF IInv, MainInv, ThreadDone
<1>6. t \in registered \ finished
  BY <1>5 DEF IInv, FinishedInv, ThreadDone
<1>7. /\ num_running_threads' = Cardinality(registered' \ finished')
      /\ num_running_threads' = num_running_threads - 1 /\ num_running_threads > 0
      /\ num_running_threads \in 0..Cardinality(Threads) /\ Cardinality(Threads) \in Nat
  BY <1>6, OneLess, FS_CardinalityType, ActorsAssumption DEF ThreadDone, IInv, TypeOK
<1>8. PICK turn \in Running : TurnLeft(t, turn) /\ running_thread' = turn
  BY DEF ThreadDone
<1>9. TypeOK' /\ PcInv'
  <2>1. num_running_threads' \in 0..Cardinality(Threads)
    BY <1>7
  <2> QED BY <1>2, <1>3, <1>6, <1>8, <2>1 DEF IInv, TypeOK, PcInv, ThreadDone
<1>10. MainInv'
  BY <1>2, <1>5 DEF MainInv, ThreadDone
<1>11. FinishedInv'
  BY <1>1, <1>2, <1>3 DEF IInv, FinishedInv, ThreadDone, TypeOK
<1>12. CASE running_thread = t
  <2>1. IF num_running_threads - 1 = 0 THEN turn = running_thread
        ELSE turn \in registered /\ turn \notin finished \cup {t}
    BY <1>8, <1>12, Drawn DEF TurnLeft
  <2>2. TurnIsNotLost'
    BY <2>1, <1>7, <1>8 DEF TurnIsNotLost, ThreadDone
  <2>3. \A u \in Running \ {t} : /\ mt_debug_enabled => pc[u] \notin {"access", "access_done", "turn_lock", "turn"}
                                 /\ pc[u] \notin {"turn_lock", "turn"}
    BY <1>12 DEF IInv, AccessInTurn, PasserHasTurn
  <2>4. AccessInTurn' /\ PasserHasTurn'
    BY <2>3, <1>1, <1>2, <1>3 DEF AccessInTurn, PasserHasTurn, ThreadDone
  <2> QED BY <2>2, <2>4, <1>4, <1>9, <1>10, <1>11 DEF IInv
<1>13. CASE running_thread # t
  <2>1. running_thread' = running_thread
    BY <1>8, <1>13 DEF TurnLeft
  <2>2. running_thread \notin finished
    BY <1>7 DEF IInv, TurnIsNotLost
  <2>3. TurnIsNotLost'
    BY <2>1, <2>2, <1>7, <1>13 DEF TurnIsNotLost, ThreadDone
  <2>4. AccessInTurn' /\ PasserHasTurn'
    BY <2>1, <1>1, <1>2, <1>3 DEF IInv, AccessInTurn, PasserHasTurn, ThreadDone
  <2> QED BY <2>3, <2>4, <1>4, <1>9, <1>10, <1>11 DEF IInv
<1> QED BY <1>12, <1>13

-----------------------------------------------------------------------------
(* Steps that move a thread between labels outside of the critical         *)
(* sections.                                                               *)
LEMMA ThreadMoves ==
  ASSUME IInv, NEW t \in Running, NEW to \in Labels \ CriticalLabels, Goto(t, to), shared' = shared,
         mutex' = mutex, left' \in [Running -> Nat], pc[t] \notin CriticalLabels,
         mt_debug_enabled' \in BOOLEAN, mt_debug_enabled' => mt_debug_enabled,
         t \in finished => to \in {"done_broadcast", "returned"},
         mt_debug_enabled' /\ to \in {"access", "access_done"} => running_thread = t,
         to \in {"turn_lock", "turn"} => running_thread = t
  PROVE  IInv'
<1>1. t \in Actors /\ t # Main
  BY ActorsAssumption, ProgramsAssumption DEF IInv, TypeOK, Running, Actors
<1>2. pc' \in [Actors -> Labels] /\ pc'[t] = to /\ \A b \in Actors \ {t} : pc'[b] = pc[b]
  BY <1>1, GotoPc DEF IInv
<1>3. MutexHeld'
  BY <1>1, <1>2, MutexKept DEF IInv
<1>4. mutex' \in Actors \cup {NULL} /\ to \in Labels
  BY DEF IInv, TypeOK
<1> QED BY <1>1, <1>2, <1>3, <1>4, ActorMoves

(* A thread that is somewhere else has not finished.                       *)
LEMMA NotFinished ==
  ASSUME IInv, NEW t \in Running, pc[t] \notin {"done_broadcast", "returned"}
  PROVE  t \notin finished
BY DEF IInv, FinishedInv

LEMMA WaitForAccessStep ==
  ASSUME IInv, NEW t \in Running, WaitForAccess(t) \/ thread_index(t) \/ Returns(t) \/ ThreadDoneStart(t)
  PROVE  IInv'
<1>1. PICK to \in {"index", "access", "wait_lock", "returned", "done_lock"} :
        Goto(t, to) /\ (to = "access" => ~mt_debug_enabled)
  BY DEF WaitForAccess, thread_index, Returns, ThreadDoneStart
<1>2. /\ shared' = shared /\ mutex' = mutex /\ left' = left /\ mt_debug_enabled' = mt_debug_enabled
      /\ pc[t] \in {"run", "index"}
  BY DEF WaitForAccess, thread_index, Returns, ThreadDoneStart, EndsWith, shared
<1>3. left' \in [Running -> Nat] /\ mt_debug_enabled' \in BOOLEAN
  BY <1>2 DEF IInv, TypeOK
<1>4. t \notin finished
  BY <1>2, NotFinished
<1>5. to \in Labels \ CriticalLabels /\ pc[t] \notin CriticalLabels
  BY <1>2 DEF Labels, CriticalLabels
<1> QED BY <1>1, <1>2, <1>3, <1>4, <1>5, ThreadMoves

LEMMA AccessStep ==
  ASSUME IInv, NEW t \in Running, Access(t) \/ AccessDone(t)
  PROVE  IInv'
<1>1. PICK to \in {"access_done", "turn_lock", "run"} :
        Goto(t, to) /\ (to = "turn_lock" => mt_debug_enabled)
  BY DEF Access, AccessDone
<1>2. shared' = shared /\ mutex' = mutex /\ mt_debug_enabled' = mt_debug_enabled
      /\ pc[t] \in {"access", "access_done"}
  BY DEF Access, AccessDone, shared
<1>3. left' \in [Running -> Nat]
  BY DEF IInv, TypeOK, Access, AccessDone
<1>4. mt_debug_enabled => running_thread = t
  BY <1>2 DEF IInv, AccessInTurn
<1>5. t \notin finished
  BY <1>2, NotFinished
<1>6. to \in Labels \ CriticalLabels /\ pc[t] \notin CriticalLabels /\ mt_debug_enabled' \in BOOLEAN
  BY <1>2 DEF Labels, CriticalLabels, IInv, TypeOK
<1> QED BY <1>1, <1>2, <1>3, <1>4, <1>5, <1>6, ThreadMoves

(* The wait for the turn, inside the critical section.                     *)
LEMMA TestTurnStep ==
  ASSUME IInv, NEW t \in Running, TestTurn(t) \/ CondWait(t)
  PROVE  IInv'
<1>1. t \in Actors /\ t # Main
  BY ActorsAssumption, ProgramsAssumption DEF IInv, TypeOK, Running, Actors
<1>2. PICK to \in {"wait", "access", "sleep"} :
        /\ Goto(t, to)
        /\ to = "access" => ~mt_debug_enabled \/ running_thread = t
        /\ mutex' = IF to = "wait" THEN mutex ELSE NULL
  BY DEF TestTurn, CondWait
<1>3. /\ shared' = shared /\ left' = left /\ mt_debug_enabled' = mt_debug_enabled
      /\ pc[t] \in {"test", "wait"}
  BY DEF TestTurn, CondWait, shared
<1>4. to \in Labels
  BY DEF Labels
<1>5. pc' \in [Actors -> Labels] /\ pc'[t] = to /\ \A b \in Actors \ {t} : pc'[b] = pc[b]
  BY <1>1, <1>2, <1>4, GotoPc DEF IInv
<1>6. MutexHeld'
  <2>1. CASE to = "wait"
    BY <2>1, <1>1, <1>2, <1>3, <1>5, MutexKept DEF IInv, CriticalLabels
  <2>2. CASE to # "wait"
    BY <2>2, <1>1, <1>2, <1>3, <1>5, MutexFreed DEF IInv, CriticalLabels
  <2> QED BY <2>1, <2>2
<1>7. t \notin finished
  BY <1>3, NotFinished
<1>8. /\ mutex' \in Actors \cup {NULL} /\ left' \in [Running -> Nat]
      /\ mt_debug_enabled' \in BOOLEAN
  BY <1>2, <1>3 DEF IInv, TypeOK
<1> QED BY <1>1, <1>2, <1>3, <1>4, <1>5, <1>6, <1>7, <1>8, ActorMoves

LEMMA ThreadStepInv ==
  ASSUME IInv, NEW t \in Running, ThreadStep(t)
  PROVE  IInv'
<1>1. t \in Actors /\ t # Main
  BY ActorsAssumption, ProgramsAssumption DEF IInv, TypeOK, Running, Actors
<1>2. CASE \/ Lock(t, "wait_lock", "test") \/ Lock(t, "turn_lock", "turn") \/ Lock(t, "done_lock", "done")
  <2>1. t \notin finished
    BY <1>2, NotFinished DEF Lock
  <2> QED BY <1>1, <1>2, <2>1, LockStep DEF Labels, CriticalLabels
<1>3. CASE \E u \in Running : NextTurn(t, u, "turn", "turn_broadcast")
  BY <1>1, <1>3, NextTurnStep DEF Labels, CriticalLabels
<1>4. CASE Broadcast(t, "turn_broadcast", "run")
  <2>1. t \notin finished
    BY <1>4, NotFinished DEF Broadcast
  <2> QED BY <1>1, <1>4, <2>1, BroadcastStep DEF Labels, CriticalLabels
<1>5. CASE Broadcast(t, "done_broadcast", "returned") \/ Broadcast(t, "disabled", "returned")
  BY <1>1, <1>5, BroadcastStep DEF Labels, CriticalLabels
<1>6. CASE EndsWith(t, "ct_mtdbg_set_enabled") /\ Disable(t, "disabled")
  <2>1. t \notin finished
    BY <1>6, NotFinished DEF EndsWith
  <2>2. /\ shared' = shared /\ mutex' = mutex /\ left' \in [Running -> Nat]
        /\ mt_debug_enabled' = FALSE /\ Goto(t, "disabled")
    BY <1>6 DEF Disable, shared, IInv, TypeOK
  <2>3. pc[t] \notin CriticalLabels /\ "disabled" \in Labels \ CriticalLabels
    BY <1>6 DEF EndsWith, CriticalLabels, Labels
  <2> QED BY <2>1, <2>2, <2>3, ThreadMoves
<1> QED
  BY <1>2, <1>3, <1>4, <1>5, <1>6, WaitForAccessStep, AccessStep, TestTurnStep, ThreadDoneStep
  DEF ThreadStep, PassTurn, ct_mtdbg_thread_done, ct_mtdbg_set_enabled

LEMMA RegisterStep ==
  ASSUME IInv, NEW t \in Running, ct_mtdbg_register_thread(t)
  PROVE  IInv'
<1>1. Running' = Running /\ Running \subseteq Threads
  BY ProgramsAssumption DEF IInv, TypeOK, ct_mtdbg_register_thread, Running
<1>2. IsFiniteSet(registered \ finished) /\ IsFiniteSet(Threads) /\ t \notin finished
  BY ActorsAssumption, FS_Subset DEF IInv, TypeOK, ct_mtdbg_register_thread
<1>3. registered' \ finished = (registered \ finished) \cup {t} /\ t \notin registered \ finished
  BY <1>2 DEF ct_mtdbg_register_thread
<1>4. Cardinality(registered' \ finished) = num_running_threads + 1
  BY <1>2, <1>3, FS_AddElement DEF IInv, TurnIsNotLost
<1>5. registered' \ finished \subseteq Threads
  BY <1>1, <1>3 DEF IInv, TypeOK
<1>6. Cardinality(registered' \ finished) \in 0..Cardinality(Threads)
  BY <1>2, <1>5, FS_Subset, FS_CardinalityType
<1>7. TypeOK'
  BY <1>1, <1>4, <1>6 DEF IInv, TypeOK, ct_mtdbg_register_thread
<1>8. MainInv'
  BY <1>1 DEF IInv, MainInv, ct_mtdbg_register_thread
<1>9. PcInv' /\ FinishedInv' /\ MutexHeld' /\ PasserHasTurn' /\ AccessInTurn'
  BY <1>1 DEF IInv, PcInv, FinishedInv, MutexHeld, PasserHasTurn, AccessInTurn, ct_mtdbg_register_thread
<1>10. TurnIsNotLost'
  <2>1. running_thread \notin finished
    BY ActorsAssumption DEF IInv, MainInv, TypeOK, ct_mtdbg_register_thread
  <2> QED BY <2>1, <1>4 DEF TurnIsNotLost, ct_mtdbg_register_thread
<1> QED BY <1>7, <1>8, <1>9, <1>10 DEF IInv

LEMMA MainStepInv ==
  ASSUME IInv, MainStep
  PROVE  IInv'
<1>1. Main \in Actors /\ Main \notin finished /\ Main \notin Running
  BY ActorsAssumption, ProgramsAssumption DEF IInv, TypeOK, Actors, Running
<1>2. CASE registered = Running /\ Lock(Main, "register", "start")
  BY <1>1, <1>2, LockStep DEF Labels, CriticalLabels
<1>3. CASE \E u \in Running : NextTurn(Main, u, "start", "start_broadcast")
  BY <1>1, <1>3, NextTurnStep DEF Labels, CriticalLabels
<1>4. CASE Broadcast(Main, "start_broadcast", "join") \/ Broadcast(Main, "joined", "returned")
  BY <1>1, <1>4, BroadcastStep DEF Labels, CriticalLabels
<1>5. CASE pc[Main] = "join" /\ Disable(Main, "joined")
  <2>1. /\ shared' = shared /\ mutex' = mutex /\ left' \in [Running -> Nat]
        /\ mt_debug_enabled' = FALSE /\ Goto(Main, "joined") /\ mutex' \in Actors \cup {NULL}
    BY <1>5 DEF Disable, shared, IInv, TypeOK
  <2>2. "joined" \in Labels
    BY DEF Labels
  <2>3. pc' \in [Actors -> Labels] /\ pc'[Main] = "joined" /\ \A b \in Actors \ {Main} : pc'[b] = pc[b]
    BY <1>1, <2>1, <2>2, GotoPc DEF IInv
  <2>4. MutexHeld'
    BY <1>1, <1>5, <2>1, <2>3, MutexKept DEF IInv, CriticalLabels
  <2> QED BY <1>1, <1>5, <2>1, <2>2, <2>3, <2>4, ActorMoves
<1> QED BY <1>2, <1>3, <1>4, <1>5, RegisterStep DEF MainStep, ct_mtdbg_start, Join

LEMMA InitIInv == Init => IInv
<1> SUFFICES ASSUME Init
             PROVE  IInv
  OBVIOUS
<1>1. Actors = Threads \cup {Main} /\ Main \notin Threads /\ NULL \notin Actors
  BY ActorsAssumption DEF Actors
<1>2. Running \subseteq Threads /\ \A t \in Running : program[t].accesses \in Nat
  BY ProgramsAssumption DEF Init, Running
<1>3. Cardinality(Threads) \in Nat /\ Cardinality({}) = 0
  BY ActorsAssumption, FS_CardinalityType, FS_EmptySet
<1>4. \A a \in Actors : pc[a] \in {"register", "run", "returned"} /\ (pc[a] = "register" <=> a = Main)
  BY DEF Init
<1>5. TypeOK
  BY <1>2, <1>3 DEF Init, TypeOK
<1>6. PcInv
  BY <1>4 DEF Init, PcInv, Labels
<1>7. MainInv /\ FinishedInv /\ TurnIsNotLost
  <2>1. registered \ finished = {}
    BY DEF Init
  <2> QED BY <1>1, <1>3, <1>4, <2>1 DEF Init, MainInv, FinishedInv, TurnIsNotLost
<1>8. MutexHeld
  BY <1>1, <1>4 DEF Init, MutexHeld
<1>9. PasserHasTurn /\ AccessInTurn
  BY <1>1, <1>2, <1>4 DEF PasserHasTurn, AccessInTurn
<1> QED BY <1>5, <1>6, <1>7, <1>8, <1>9 DEF IInv

LEMMA NextIInv == IInv /\ [Next]_vars => IInv'
<1> SUFFICES ASSUME IInv, [Next]_vars
             PROVE  IInv'
  OBVIOUS
<1>1. CASE UNCHANGED vars
  BY <1>1 DEF vars, IInv, TypeOK, PcInv, MainInv, FinishedInv, MutexHeld, PasserHasTurn,
              AccessInTurn, TurnIsNotLost, Running
<1>2. CASE \E t \in Running : ThreadStep(t)
  BY <1>2, ThreadStepInv
<1>3. CASE MainStep
  BY <1>3, MainStepInv
<1> QED BY <1>1, <1>2, <1>3 DEF Next, Done

-----------------------------------------------------------------------------
(* The inductive invariant holds.                                          *)
THEOREM Invariance == Spec => []IInv
BY InitIInv, NextIInv, PTL DEF Spec

(* Every variable of mt_debug.c keeps its type; num_running_threads never  *)
(* gets negative or larger than the number of threads.                     *)
THEOREM TypeCorrect == Spec => []TypeOK
<1>1. IInv => TypeOK
  BY DEF IInv
<1> QED BY <1>1, Invariance, PTL

(* While the scheduler is enabled, a thread between mt_debug_wait_for_access *)
(* and the end of mt_debug_access_done has the turn, so that accesses to   *)
(* the trie happen one at a time, for any number of threads.               *)
THEOREM AccessesInTurn == Spec => []AccessInTurn
<1>1. IInv => AccessInTurn
  BY DEF IInv
<1> QED BY <1>1, Invariance, PTL

(* num_running_threads counts the threads that have not finished, and the  *)
(* turn is with one of them as long as there is one: next_turn_locked and  *)
(* ct_mtdbg_thread_done never leave it where nobody passes it on.          *)
THEOREM TurnStaysAlive == Spec => []TurnIsNotLost
<1>1. IInv => TurnIsNotLost
  BY DEF IInv
<1> QED BY <1>1, Invariance, PTL

(* At most one thread is between lock and unlock of the mutex, although    *)
(* ct_mtdbg_set_enabled broadcasts without it.                             *)
THEOREM OneInCriticalSection == Spec => []MutexHeld
<1>1. IInv => MutexHeld
  BY DEF IInv
<1> QED BY <1>1, Invariance, PTL
=============================================================================
