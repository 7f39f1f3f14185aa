------------------------------- MODULE UThread -------------------------------
(***************************************************************************)
(* The user-level threads of xv6-lab-multithreading/uthread.c, with        *)
(* thread_switch of uthread_switch.S, and the program that uses them.      *)
(* There is one flow of control; a context is where a thread goes on (ra), *)
(* whose stack it uses (sp) and the callee-saved register of its loop      *)
(* counter (s).                                                            *)
(***************************************************************************)
EXTENDS Integers

CONSTANTS MAX_THREAD,
          N      \* what each thread counts to: 100

Tid == 0 .. MAX_THREAD - 1

\* thread_a, thread_b, ...: as many as there are slots besides main's.
Func == 1 .. MAX_THREAD - 1
main == 0

VARIABLES
  state,           \* of each thread
  ctx,             \* the saved context of each thread
  current_thread,
  regs,            \* the registers: the context that runs
  started, n,      \* a_started, a_n, ...
  created,         \* how many threads main has created
  exited

vars == <<state, ctx, current_thread, regs, started, n, created, exited>>

Labels  == {"main", "start", "wait", "loop", "next", "end"}
Context == [f : Func \cup {main}, ra : Labels, sp : Tid, s : 0 .. N]

\* Every variable has its type.
TypeOK ==
  /\ state \in [Tid -> {"FREE", "RUNNING", "RUNNABLE"}]
  /\ ctx \in [Tid -> Context]
  /\ current_thread \in Tid
  /\ regs \in Context
  /\ started \in [Func -> BOOLEAN]
  /\ n \in [Func -> 0 .. N]
  /\ created \in 0 .. MAX_THREAD - 1
  /\ exited \in BOOLEAN

\* main up to thread_init.
Init ==
  LET c == [f |-> main, ra |-> "main", sp |-> main, s |-> 0] IN
  /\ state = [t \in Tid |-> IF t = main THEN "RUNNING" ELSE "FREE"]
  /\ ctx = [t \in Tid |-> c]
  /\ current_thread = main
  /\ regs = c
  /\ started = [f \in Func |-> FALSE]
  /\ n = [f \in Func |-> 0]
  /\ created = 0
  /\ exited = FALSE

\* thread_switch from t, which goes on with context c, to u.
thread_switch(t, u, c) ==
  /\ ctx' = [ctx EXCEPT ![t] = c]
  /\ regs' = ctx[u]

\* What a loop from below finds first in S.
Least(S) == CHOOSE x \in S : \A y \in S : x <= y

\* The first runnable thread after the current one, itself included.
next(st) ==
  LET after(k) == (current_thread + k) % MAX_THREAD
      run      == {k \in 1 .. MAX_THREAD : st[after(k)] = "RUNNABLE"}
  IN  IF run = {} THEN -1 ELSE after(Least(run))

\* thread_schedule, called with the thread states st; the current thread goes
\* on with context c when it runs again.
thread_schedule(st, c) ==
  LET u == next(st) IN
  IF u = -1
  THEN /\ exited' = TRUE
       /\ state' = st
       /\ regs' = c
       /\ UNCHANGED <<ctx, current_thread>>
  ELSE IF u # current_thread
  THEN /\ state' = [st EXCEPT ![u] = "RUNNING"]
       /\ current_thread' = u
       /\ thread_switch(current_thread, u, c)
       /\ UNCHANGED exited
  ELSE /\ state' = st
       /\ regs' = c
       /\ UNCHANGED <<ctx, current_thread, exited>>

thread_yield(l) ==
  thread_schedule([state EXCEPT ![current_thread] = "RUNNABLE"],
                  [regs EXCEPT !.ra = l])

At(l) == ~ exited /\ regs.ra = l

-----------------------------------------------------------------------------
\* main calls thread_create for each function; there is a free slot.
thread_create ==
  LET t == Least({u \in Tid : state[u] = "FREE"}) IN
  /\ At("main") /\ created < MAX_THREAD - 1
  /\ created' = created + 1
  /\ state' = [state EXCEPT ![t] = "RUNNABLE"]
  /\ ctx' = [ctx EXCEPT ![t].f = created + 1, ![t].ra = "start", ![t].sp = t]
  /\ UNCHANGED <<current_thread, regs, started, n, exited>>

\* main calls thread_schedule, and exits when that returns.
MainSchedule ==
  /\ At("main") /\ created = MAX_THREAD - 1
  /\ thread_schedule(state, [regs EXCEPT !.ra = "end"])
  /\ UNCHANGED <<started, n, created>>

Start ==
  /\ At("start")
  /\ started' = [started EXCEPT ![regs.f] = TRUE]
  /\ regs' = [regs EXCEPT !.ra = "wait"]
  /\ UNCHANGED <<state, ctx, current_thread, n, created, exited>>

\* Mutant: one other thread is enough.
WaitOthersOne ==
  /\ At("wait")
  /\ IF \A f \in Func \ {regs.f} : ~ started[f]
     THEN thread_yield("wait")
     ELSE /\ regs' = [regs EXCEPT !.ra = "loop", !.s = 0]
          /\ UNCHANGED <<state, ctx, current_thread, exited>>
  /\ UNCHANGED <<started, n, created>>

\* while(b_started == 0 || c_started == 0) thread_yield();
WaitOthers ==
  /\ At("wait")
  /\ IF \E f \in Func \ {regs.f} : ~ started[f]
     THEN thread_yield("wait")
     ELSE /\ regs' = [regs EXCEPT !.ra = "loop", !.s = 0]
          /\ UNCHANGED <<state, ctx, current_thread, exited>>
  /\ UNCHANGED <<started, n, created>>

\* The loop: count and yield ...
Count ==
  /\ At("loop") /\ regs.s < N
  /\ n' = [n EXCEPT ![regs.f] = @ + 1]
  /\ thread_yield("next")
  /\ UNCHANGED <<started, created>>

\* ... i++ ...
Increment ==
  /\ At("next")
  /\ regs' = [regs EXCEPT !.ra = "loop", !.s = @ + 1]
  /\ UNCHANGED <<state, ctx, current_thread, started, n, created, exited>>

\* ... and exit.
ThreadExit ==
  /\ At("loop") /\ regs.s = N
  /\ thread_schedule([state EXCEPT ![current_thread] = "FREE"],
                     [regs EXCEPT !.ra = "end"])
  /\ UNCHANGED <<started, n, created>>

Exited == (exited \/ regs.ra = "end") /\ UNCHANGED vars

Next ==
  \/ thread_create \/ MainSchedule \/ Start \/ WaitOthers \/ Count
  \/ Increment \/ ThreadExit \/ Exited

Spec == Init /\ [][Next]_vars
-----------------------------------------------------------------------------
\* A thread runs on its own stack, and no thread but main is RUNNING without
\* being the one that runs.
OwnStack ==
  /\ regs.sp = current_thread
  /\ \A t \in Tid : state[t] = "RUNNING" => t \in {main, current_thread}

\* No thread counts before all have started, and then thread_schedule takes
\* the threads in turn: none is ever more than one ahead of another.
InTurn ==
  /\ \A f \in Func : n[f] > 0 => \A g \in Func : started[g]
  /\ \A f, g \in Func : n[f] <= n[g] + 1

\* Every thread has counted to N and exited, and so has the program.
Counted == exited /\ \A f \in Func : n[f] = N /\ state[f] = "FREE"
=============================================================================
