------------------------------- MODULE Barrier -------------------------------
(***************************************************************************)
(* The barrier of xv6-lab-multithreading/barrier.c and the threads that    *)
(* test it.  What a thread does while it holds barrier_mutex is one step:  *)
(* others see only bstate.round without the mutex, and it changes once in  *)
(* such a step.  The mutex and the condition variable are those of POSIX,  *)
(* which lets pthread_cond_wait return without a broadcast.                *)
(***************************************************************************)
EXTENDS Integers, FiniteSets

CONSTANTS Thread,
          Rounds,    \* 20000
          Spurious   \* may pthread_cond_wait return by itself?

ASSUME BarrierAssumption ==
  /\ IsFiniteSet(Thread) /\ Thread # {}
  /\ Rounds \in Nat
  /\ Spurious \in BOOLEAN

VARIABLES nthread, round,  \* bstate
          i,               \* the loop counter of each thread
          pc

vars == <<nthread, round, i, pc>>

Labels == {"loop", "barrier", "wait", "woken", "done", "abort"}

\* Every variable has its type; nobody counts a thread or a round too many.
TypeOK ==
  /\ nthread \in 0 .. Cardinality(Thread) - 1
  /\ round \in 0 .. Rounds
  /\ i \in [Thread -> 0 .. Rounds]
  /\ pc \in [Thread -> Labels]

\* barrier_init, then main starts the threads.
Init ==
  /\ nthread = 0
  /\ round = 0
  /\ i = [h \in Thread |-> 0]
  /\ pc = [h \in Thread |-> "loop"]

Goto(h, l) == pc' = [pc EXCEPT ![h] = l]

\* The top of the loop: round is read without the mutex, and compared to i.
Loop(h) ==
  /\ pc[h] = "loop"
  /\ Goto(h, CASE i[h] = Rounds -> "done"
               [] i[h] # Rounds /\ i[h] = round -> "barrier"
               [] OTHER -> "abort")
  /\ UNCHANGED <<nthread, round, i>>

\* barrier returns, and the loop goes on.
Return(h) == i' = [i EXCEPT ![h] = @ + 1]

\* barrier, called by a thread that is not the last of its round ...
Arrive(h) ==
  /\ pc[h] = "barrier"
  /\ nthread + 1 # Cardinality(Thread)
  /\ nthread' = nthread + 1
  /\ Goto(h, "wait")
  /\ UNCHANGED <<round, i>>

\* Mutant: the round stays.
LastSameRound(h) ==
  /\ pc[h] = "barrier"
  /\ nthread + 1 = Cardinality(Thread)
  /\ nthread' = 0
  /\ pc' = [k \in Thread |-> CASE k = h -> "loop"
                               [] k # h /\ pc[k] = "wait" -> "woken"
                               [] OTHER -> pc[k]]
  /\ Return(h)
  /\ UNCHANGED round

\* Mutant: the count is not reset.
LastKeeps(h) ==
  /\ pc[h] = "barrier"
  /\ nthread + 1 = Cardinality(Thread)
  /\ round' = round + 1
  /\ pc' = [k \in Thread |-> CASE k = h -> "loop"
                               [] k # h /\ pc[k] = "wait" -> "woken"
                               [] OTHER -> pc[k]]
  /\ Return(h)
  /\ UNCHANGED nthread

\* ... and by the last one, which wakes up the others.
Last(h) ==
  /\ pc[h] = "barrier"
  /\ nthread + 1 = Cardinality(Thread)
  /\ round' = round + 1
  /\ nthread' = 0
  /\ pc' = [k \in Thread |-> CASE k = h -> "loop"
                               [] k # h /\ pc[k] = "wait" -> "woken"
                               [] OTHER -> pc[k]]
  /\ Return(h)

\* pthread_cond_wait has the mutex again and returns.
Wake(h) ==
  /\ pc[h] = "woken" \/ (Spurious /\ pc[h] = "wait")
  /\ Goto(h, "loop")
  /\ Return(h)
  /\ UNCHANGED <<nthread, round>>

\* main joins the threads; a failed assertion ends the program.
Finished ==
  /\ (\A h \in Thread : pc[h] = "done") \/ (\E h \in Thread : pc[h] = "abort")
  /\ UNCHANGED vars

Step(h) == Loop(h) \/ Arrive(h) \/ Last(h) \/ Wake(h)

Next == (\E h \in Thread : Step(h)) \/ Finished

Spec == Init /\ [][Next]_vars
-----------------------------------------------------------------------------
\* A thread leaves the barrier of a round only when every thread has entered
\* it: who is still one round behind has been counted and is being woken.
Together ==
  \A h, k \in Thread : i[h] > i[k] => i[h] = i[k] + 1 /\ pc[k] = "woken"

\* thread: "assert (i == t)" holds whenever a thread enters the barrier, and
\* threads that pass the barrier are in the same round.
AssertHolds == Together /\ \A h \in Thread : pc[h] # "abort"
=============================================================================
