------------------------------- MODULE MtDebug -------------------------------
(***************************************************************************)
(* The debug scheduler (mt_debug.c): while it is enabled, threads access   *)
(* the trie one at a time, in an order drawn at random.                    *)
(*                                                                         *)
(* The main thread registers the threads and gives the first turn.  The    *)
(* threads make accesses to the trie, each between wait_for_access and     *)
(* access_done, and end the way the threads of test.c do: with             *)
(* ct_mtdbg_thread_done, with ct_mtdbg_set_enabled(0), or by returning.    *)
(* Broadcasts wake every sleeping thread; nothing else does.               *)
(***************************************************************************)
EXTENDS Integers, FiniteSets

CONSTANTS
  Threads, Main,
  Programs,   \* each test: its threads -> what they do and how they end
  NULL        \* NO_THREAD, and nobody has the mutex

ASSUME ActorsAssumption == IsFiniteSet(Threads) /\ Main \notin Threads /\ NULL \notin Threads \cup {Main}

(* A reader accesses the trie until it sees what it waits for: the last    *)
(* key of the writer, or writer_done.  Then it makes its own accesses.     *)
ASSUME ProgramsAssumption ==
  \A p \in Programs :
    /\ DOMAIN p \subseteq Threads
    /\ \A t \in DOMAIN p :
         p[t] \in [accesses : Nat, writer : DOMAIN p \cup {NULL}, sees : {"last_key", "writer_done"},
                  end : {"ct_mtdbg_thread_done", "ct_mtdbg_set_enabled", "return"}]

Actors == Threads \cup {Main}

VARIABLES
  program,           \* the test that runs
  mt_debug_enabled,
  running_thread,    \* whose turn it is
  registered,        \* the threads array: num_threads is its size
  num_running_threads,
  finished,          \* the threads that are marked as finished
  mutex,             \* who holds the lock
  pc,                \* actor -> where it is
  left               \* thread -> the accesses it has still to make

Running == DOMAIN program

vars == <<program, mt_debug_enabled, running_thread, registered, num_running_threads,
          finished, mutex, pc, left>>

Goto(a, label) == pc' = [pc EXCEPT ![a] = label]

(* pthread_mutex_lock, on the way from one label to another.               *)
Lock(a, from, to) ==
  /\ pc[a] = from
  /\ mutex = NULL
  /\ mutex' = a
  /\ Goto(a, to)
  /\ UNCHANGED <<program, mt_debug_enabled, running_thread, registered, num_running_threads, finished, left>>

(* pthread_cond_broadcast: sleeping threads go for the mutex again.        *)
Broadcast(a, from, to) ==
  /\ pc[a] = from
  /\ pc' = [b \in Actors |-> CASE b = a -> to
                               [] b # a /\ pc[b] = "sleep" -> "wait_lock"
                               [] OTHER -> pc[b]]
  /\ UNCHANGED <<program, mt_debug_enabled, running_thread, registered, num_running_threads, finished, mutex, left>>

-----------------------------------------------------------------------------
(* next_turn.  Every thread that has not finished may be drawn.            *)

(* Mutant: threads that have finished may be drawn.                        *)
next_turn_any(n, f, turn) ==
  IF n = 0 THEN turn = running_thread ELSE turn \in registered

next_turn_locked(n, f, turn) ==
  IF n = 0 THEN turn = running_thread ELSE turn \in registered \ f

NextTurn(a, turn, from, to) ==
  /\ pc[a] = from
  /\ next_turn_locked(num_running_threads, finished, turn)
  /\ running_thread' = turn
  /\ mutex' = NULL
  /\ Goto(a, to)
  /\ UNCHANGED <<program, mt_debug_enabled, registered, num_running_threads, finished, left>>

-----------------------------------------------------------------------------
(* A thread that makes an access.                                          *)

(* The last key is visible before the last access of its insert; the flag  *)
(* writer_done is set after it.                                            *)
Waiting(t) ==
  LET w == program[t].writer
  IN  /\ w # NULL
      /\ CASE program[t].sees = "last_key"    -> left[w] > 1
           [] program[t].sees = "writer_done" -> pc[w] \notin {"done_lock", "done", "done_broadcast", "returned"}

GoesOn(t) == Waiting(t) \/ left[t] > 0

(* wait_for_access looks at mt_debug_enabled without the mutex.            *)
WaitForAccess(t) ==
  /\ pc[t] = "run"
  /\ GoesOn(t)
  /\ Goto(t, IF mt_debug_enabled THEN "index" ELSE "access")
  /\ UNCHANGED <<program, mt_debug_enabled, running_thread, registered, num_running_threads, finished, mutex, left>>

(* Threads are registered before there is a first turn.                    *)
thread_index(t) ==
  /\ pc[t] = "index"
  /\ running_thread # NULL
  /\ Goto(t, "wait_lock")
  /\ UNCHANGED <<program, mt_debug_enabled, running_thread, registered, num_running_threads, finished, mutex, left>>

(* Mutant: a thread that was woken up does not look whose turn it is.      *)
TestTurnOnce(t) ==
  /\ pc[t] = "test"
  /\ IF mt_debug_enabled /\ running_thread = NULL
     THEN Goto(t, "wait") /\ UNCHANGED mutex
     ELSE Goto(t, "access") /\ mutex' = NULL
  /\ UNCHANGED <<program, mt_debug_enabled, running_thread, registered, num_running_threads, finished, left>>

TestTurn(t) ==
  /\ pc[t] = "test"
  /\ IF mt_debug_enabled /\ running_thread # t
     THEN Goto(t, "wait") /\ UNCHANGED mutex
     ELSE Goto(t, "access") /\ mutex' = NULL
  /\ UNCHANGED <<program, mt_debug_enabled, running_thread, registered, num_running_threads, finished, left>>

(* pthread_cond_wait gives the mutex back and sleeps in one step.          *)
CondWait(t) ==
  /\ pc[t] = "wait"
  /\ mutex' = NULL
  /\ Goto(t, "sleep")
  /\ UNCHANGED <<program, mt_debug_enabled, running_thread, registered, num_running_threads, finished, left>>

(* The access itself, and the test of mt_debug_enabled in access_done.     *)
Access(t) ==
  /\ pc[t] = "access"
  /\ left' = [left EXCEPT ![t] = IF Waiting(t) \/ @ = 0 THEN @ ELSE @ - 1]
  /\ Goto(t, "access_done")
  /\ UNCHANGED <<program, mt_debug_enabled, running_thread, registered, num_running_threads, finished, mutex>>

AccessDone(t) ==
  /\ pc[t] = "access_done"
  /\ Goto(t, IF mt_debug_enabled THEN "turn_lock" ELSE "run")
  /\ UNCHANGED <<program, mt_debug_enabled, running_thread, registered, num_running_threads, finished, mutex, left>>

PassTurn(t) ==
  \/ Lock(t, "turn_lock", "turn")
  \/ \E u \in Running : NextTurn(t, u, "turn", "turn_broadcast")
  \/ Broadcast(t, "turn_broadcast", "run")

-----------------------------------------------------------------------------
(* The end of a thread.                                                    *)

EndsWith(t, end) == pc[t] = "run" /\ ~GoesOn(t) /\ program[t].end = end

Returns(t) ==
  /\ EndsWith(t, "return")
  /\ Goto(t, "returned")
  /\ UNCHANGED <<program, mt_debug_enabled, running_thread, registered, num_running_threads, finished, mutex, left>>

ThreadDoneStart(t) ==
  /\ EndsWith(t, "ct_mtdbg_thread_done")
  /\ Goto(t, IF mt_debug_enabled THEN "done_lock" ELSE "returned")
  /\ UNCHANGED <<program, mt_debug_enabled, running_thread, registered, num_running_threads, finished, mutex, left>>

(* Mutant: the turn stays with the thread.                                 *)
KeepTurn(t, turn) == turn = running_thread

(* The turn a thread leaves behind when it is done.                        *)
TurnLeft(t, turn) ==
  IF running_thread = t THEN next_turn_locked(num_running_threads - 1, finished \cup {t}, turn)
  ELSE turn = running_thread

ThreadDone(t) ==
  /\ pc[t] = "done"
  /\ running_thread # NULL
  /\ finished' = finished \cup {t}
  /\ num_running_threads' = num_running_threads - 1
  /\ \E turn \in Running : TurnLeft(t, turn) /\ running_thread' = turn
  /\ mutex' = NULL
  /\ Goto(t, "done_broadcast")
  /\ UNCHANGED <<program, mt_debug_enabled, registered, left>>

ct_mtdbg_thread_done(t) ==
  \/ ThreadDoneStart(t)
  \/ Lock(t, "done_lock", "done")
  \/ ThreadDone(t)
  \/ Broadcast(t, "done_broadcast", "returned")

(* ct_mtdbg_set_enabled takes no mutex.                                    *)
Disable(a, to) ==
  /\ mt_debug_enabled' = FALSE
  /\ Goto(a, to)
  /\ UNCHANGED <<program, running_thread, registered, num_running_threads, finished, mutex, left>>

ct_mtdbg_set_enabled(t) ==
  \/ EndsWith(t, "ct_mtdbg_set_enabled") /\ Disable(t, "disabled")
  \/ Broadcast(t, "disabled", "returned")

ThreadStep(t) ==
  \/ WaitForAccess(t)
  \/ thread_index(t)
  \/ Lock(t, "wait_lock", "test")
  \/ TestTurn(t)
  \/ CondWait(t)
  \/ Access(t)
  \/ AccessDone(t)
  \/ PassTurn(t)
  \/ Returns(t)
  \/ ct_mtdbg_thread_done(t)
  \/ ct_mtdbg_set_enabled(t)

-----------------------------------------------------------------------------
(* The main thread.                                                        *)

(* Mutant: num_threads is not advanced.                                    *)
RegisterForgotten(t) ==
  /\ pc[Main] = "register"
  /\ t \notin registered
  /\ num_running_threads' = num_running_threads + 1
  /\ UNCHANGED <<program, mt_debug_enabled, running_thread, registered, finished, mutex, pc, left>>

ct_mtdbg_register_thread(t) ==
  /\ pc[Main] = "register"
  /\ t \notin registered
  /\ registered' = registered \cup {t}
  /\ num_running_threads' = num_running_threads + 1
  /\ UNCHANGED <<program, mt_debug_enabled, running_thread, finished, mutex, pc, left>>

ct_mtdbg_start ==
  \/ registered = Running /\ Lock(Main, "register", "start")
  \/ \E u \in Running : NextTurn(Main, u, "start", "start_broadcast")
  \/ Broadcast(Main, "start_broadcast", "join")

(* pthread_join of all threads, then ct_mtdbg_set_enabled(0).              *)
Join ==
  \/ /\ pc[Main] = "join"
     /\ \A t \in Running : pc[t] = "returned"
     /\ Disable(Main, "joined")
  \/ Broadcast(Main, "joined", "returned")

MainStep == (\E t \in Running : ct_mtdbg_register_thread(t)) \/ ct_mtdbg_start \/ Join

-----------------------------------------------------------------------------
Init ==
  /\ program \in Programs
  /\ mt_debug_enabled = TRUE
  /\ running_thread = NULL
  /\ registered = {}
  /\ num_running_threads = 0
  /\ finished = {}
  /\ mutex = NULL
  /\ pc = [a \in Actors |-> IF a = Main THEN "register"
                          ELSE IF a \in Running THEN "run" ELSE "returned"]
  /\ left = [t \in Running |-> program[t].accesses]

Done == (\A a \in Actors : pc[a] = "returned") /\ UNCHANGED vars

Next == (\E t \in Running : ThreadStep(t)) \/ MainStep \/ Done

Spec == Init /\ [][Next]_vars

(* Every thread runs, and a thread that keeps taking part in the draw is   *)
(* drawn.                                                                  *)
FairSpec ==
  /\ Spec
  /\ WF_vars(MainStep)
  /\ \A t \in Threads : WF_vars(t \in Running /\ ThreadStep(t))
  /\ \A u \in Threads :
       SF_vars(u \in Running /\ \E t \in Running : NextTurn(t, u, "turn", "turn_broadcast"))

-----------------------------------------------------------------------------
TypeOK ==
  /\ program \in Programs
  /\ mt_debug_enabled \in BOOLEAN
  /\ running_thread \in Threads \cup {NULL}
  /\ registered \subseteq Threads
  /\ num_running_threads \in 0..Cardinality(Threads)
  /\ finished \subseteq registered
  /\ mutex \in Actors \cup {NULL}
  /\ left \in [Running -> Nat]

(* While the scheduler is enabled a thread accesses the trie in its turn   *)
(* only, so that accesses happen one at a time.                            *)
AccessInTurn ==
  mt_debug_enabled => \A t \in Running : pc[t] \in {"access", "access_done", "turn_lock", "turn"} =>
                        running_thread = t

(* The turn is not with a thread that has finished while others have not;  *)
(* nobody would pass it on.                                                *)
TurnIsNotLost ==
  /\ num_running_threads = Cardinality(registered \ finished)
  /\ running_thread \in finished => num_running_threads = 0

SwitchesOff == \E t \in Running : program[t].end = "ct_mtdbg_set_enabled"

(* A thread sleeps although the scheduler is off, or waits for a thread    *)
(* that has returned without ct_mtdbg_thread_done.                         *)
Overslept ==
  \E t \in Running : pc[t] = "sleep" /\ (~mt_debug_enabled \/ pc[running_thread] = "returned")

(* Every test ends: nobody waits for a turn that is not passed on or for a *)
(* broadcast that is over.  The one exception is mt_insert_lookup, whose   *)
(* writer switches the scheduler off without the mutex and whose reader    *)
(* does not give up its turn; it ends, or one of the two sleeps for ever.  *)
TestsEnd ==
  <>[]((\A a \in Actors : pc[a] = "returned") \/ (SwitchesOff /\ Overslept))

(* Once the scheduler is off nobody goes on waiting for a turn: the        *)
(* broadcast of ct_mtdbg_set_enabled reaches every thread that waits, or   *)
(* is about to, for one.                                                   *)
SleepersWake ==
  ~mt_debug_enabled ~> \A t \in Running : pc[t] # "sleep"
=============================================================================
