----------------------------- MODULE UserPrograms ----------------------------
(***************************************************************************)
(* The programs of the multithreading lab (barrier, uthread and ph) and    *)
(* processes that sleep, side by side: each has variables of its own, and  *)
(* what must hold of them is stated here.                                  *)
(***************************************************************************)
EXTENDS Barrier

CONSTANTS MAX_THREAD, N,                              \* of uthread
          NBUCKET, NKEYS, PutThreads, KeyValues,      \* of ph
          Sleeper, Free, Clock, TICKMOD, Times, LAG   \* of sleep

\* The ticks are counted modulo TICKMOD; the lock is free, or held by the clock
\* interrupt or by a process.
TicksAssumption ==
  /\ TICKMOD \in Nat \ {0} /\ Times \subseteq Int
  /\ Free \notin Sleeper /\ Clock \notin Sleeper /\ Free # Clock

\* As main of ph asserts, the threads share the keys evenly.
PhAssumption ==
  /\ NBUCKET \in Nat \ {0} /\ PutThreads \in Nat \ {0}
  /\ NKEYS \in Nat /\ NKEYS % PutThreads = 0 /\ KeyValues \subseteq Nat

\* main is a thread of uthread, and there is another.
UThreadAssumption == MAX_THREAD \in Nat /\ MAX_THREAD >= 2 /\ N \in Nat

ASSUME UserProgramsAssumption == TicksAssumption /\ PhAssumption /\ UThreadAssumption

VARIABLES
  u_state, u_ctx, u_current, u_regs, u_started, u_n, u_created, u_exited,
  p_keys, p_entry, p_table, p_locks, p_phase, p_pc, p_i, p_e, p_missing,
  c_ticks, c_tickslock, c_todo, c_lk, c_state, c_killed, c_pc, c_n, c_ticks0, c_since

U == INSTANCE UThread WITH
       state <- u_state, ctx <- u_ctx, current_thread <- u_current, regs <- u_regs,
       started <- u_started, n <- u_n, created <- u_created, exited <- u_exited

P == INSTANCE PhTable WITH
       nthread <- PutThreads, keys <- p_keys, entry <- p_entry, table <- p_table,
       locks <- p_locks, phase <- p_phase, pc <- p_pc, i <- p_i, e <- p_e,
       missing <- p_missing

C == INSTANCE Ticks WITH
       ticks <- c_ticks, tickslock <- c_tickslock, todo <- c_todo, lk <- c_lk, state <- c_state,
       killed <- c_killed, pc <- c_pc, n <- c_n, ticks0 <- c_ticks0, since <- c_since
-----------------------------------------------------------------------------
\* uthread: nobody counts before all have started, and then thread_schedule
\* takes the threads in turn, each on its own stack.
InTurn == U!InTurn /\ U!OwnStack

\* ph: a key that put has returned from is in the list of its bucket, once, and
\* get finds it.
PutOnce == P!PutOnce /\ P!NoneMissing

\* sleep does not return before its time, and who sleeps has time left: no wakeup
\* of the clock interrupt is lost.
NeverEarly == C!NeverEarly /\ []C!NoneLate
=============================================================================
