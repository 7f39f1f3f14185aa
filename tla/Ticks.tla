-------------------------------- MODULE Ticks --------------------------------
(***************************************************************************)
(* Time (xv6-lab-traps): the clock interrupt, and processes that sleep     *)
(* until a number of ticks has passed, or are killed.                      *)
(*                                                                         *)
(* ticks is a uint and wraps.  The clock interrupt of CPU 0 runs beside    *)
(* the processes: whoever it interrupts holds no spinlock.                 *)
(***************************************************************************)
EXTENDS Integers

CONSTANTS Sleeper,   \* processes
          Free,      \* the holder of a lock that nobody holds
          Clock,     \* CPU 0 in clockintr
          TICKMOD,   \* 2^32
          Times,     \* the arguments of sleep
          LAG        \* bound on the ticks that a process waits for a CPU

VARIABLES
  ticks, tickslock,
  todo,     \* the slots that wakeup has yet to lock, while Clock has tickslock
  lk,       \* p->lock
  state, killed,
  pc, n, ticks0,
  since     \* ticks since the call of sleep

vars == <<ticks, tickslock, todo, lk, state, killed, pc, n, ticks0, since>>

Init ==
  /\ ticks = 0 /\ tickslock = Free /\ todo = {}
  /\ lk = [p \in Sleeper |-> Free]
  /\ state = [p \in Sleeper |-> "RUNNING"]
  /\ killed = [p \in Sleeper |-> FALSE]
  /\ pc = [p \in Sleeper |-> "user"]
  /\ n = [p \in Sleeper |-> 0] /\ ticks0 = [p \in Sleeper |-> 0]
  /\ since = [p \in Sleeper |-> 0]

At(p, l) == pc[p] = l /\ state[p] = "RUNNING"

Goto(p, l) == pc' = [pc EXCEPT ![p] = l]

\* sys_sleep, by a program that has not been killed.
SysSleep(p) ==
  /\ At(p, "user") /\ ~killed[p] /\ tickslock = Free
  /\ tickslock' = p
  /\ \E m \in Times : n' = [n EXCEPT ![p] = m]
  /\ ticks0' = [ticks0 EXCEPT ![p] = ticks]
  /\ since' = [since EXCEPT ![p] = 0]
  /\ Goto(p, "test")
  /\ UNCHANGED <<ticks, todo, lk, state, killed>>

\* Mutant: the time to wake up is computed, and wraps.
EarlySum(p) == ticks < (ticks0[p] + n[p]) % TICKMOD

\* ticks - ticks0 < n, for which C makes n unsigned.
Early(p) == (ticks - ticks0[p]) % TICKMOD < n[p] % TICKMOD

\* The call is over.
Return(p, l) ==
  /\ tickslock' = Free
  /\ pc' = [pc EXCEPT ![p] = l]
  /\ n' = [n EXCEPT ![p] = 0] /\ ticks0' = [ticks0 EXCEPT ![p] = 0]
  /\ since' = [since EXCEPT ![p] = 0]

\* The loop of sys_sleep; killed is read without p->lock.
Test(p) ==
  /\ At(p, "test")
  /\ \/ ~Early(p) /\ Return(p, "user")
     \/ Early(p) /\ killed[p] /\ Return(p, "user")
     \/ /\ Early(p) /\ ~killed[p]
        /\ Goto(p, "sleep")
        /\ UNCHANGED <<tickslock, n, ticks0, since>>
  /\ UNCHANGED <<ticks, todo, lk, state, killed>>

\* sleep: p->lock is acquired before tickslock is released ...
Sleep(p) ==
  /\ At(p, "sleep") /\ lk[p] = Free
  /\ lk' = [lk EXCEPT ![p] = p]
  /\ tickslock' = Free
  /\ state' = [state EXCEPT ![p] = "SLEEPING"]
  /\ Goto(p, "sched")
  /\ UNCHANGED <<ticks, todo, killed, n, ticks0, since>>

\* ... and released by the scheduler.
Sched(p) ==
  /\ pc[p] = "sched"
  /\ lk' = [lk EXCEPT ![p] = Free]
  /\ Goto(p, "resume")
  /\ UNCHANGED <<ticks, tickslock, todo, state, killed, n, ticks0, since>>

\* scheduler, and the end of sleep up to acquire(lk).
Dispatch(p) ==
  /\ state[p] = "RUNNABLE" /\ lk[p] = Free
  /\ state' = [state EXCEPT ![p] = "RUNNING"]
  /\ UNCHANGED <<ticks, tickslock, todo, lk, killed, pc, n, ticks0, since>>

Reacquire(p) ==
  /\ At(p, "resume") /\ tickslock = Free
  /\ tickslock' = p
  /\ Goto(p, "test")
  /\ UNCHANGED <<ticks, todo, lk, state, killed, n, ticks0, since>>

\* Mutant: back to the program.
ExitNot(p) == At(p, "user") /\ killed[p] /\ UNCHANGED vars

\* usertrap: a killed process does not return to user space.
Exit(p) ==
  /\ At(p, "user") /\ killed[p]
  /\ Goto(p, "gone")
  /\ UNCHANGED <<ticks, tickslock, todo, lk, state, killed, n, ticks0, since>>

\* The effect of wakeup(&ticks), and of kill, on a slot whose lock they hold.
Wake(p) == state' = [state EXCEPT ![p] = IF @ = "SLEEPING" THEN "RUNNABLE" ELSE @]

Kill(p) ==
  /\ lk[p] = Free /\ ~killed[p]
  /\ killed' = [killed EXCEPT ![p] = TRUE]
  /\ Wake(p)
  /\ UNCHANGED <<ticks, tickslock, todo, lk, pc, n, ticks0, since>>

\* No process is kept from a CPU for long once its time has come.
Timely(p) == pc[p] \notin {"user", "gone"} => since[p] < (n[p] % TICKMOD) + LAG

\* clockintr
Tick ==
  /\ tickslock = Free
  /\ \A p \in Sleeper : Timely(p)
  /\ tickslock' = Clock
  /\ ticks' = (ticks + 1) % TICKMOD
  /\ since' = [p \in Sleeper |-> IF pc[p] \in {"user", "gone"} THEN 0 ELSE since[p] + 1]
  /\ todo' = Sleeper
  /\ UNCHANGED <<lk, state, killed, pc, n, ticks0>>

Wakeup(p) ==
  /\ p \in todo /\ lk[p] = Free
  /\ todo' = todo \ {p}
  /\ Wake(p)
  /\ UNCHANGED <<ticks, tickslock, lk, killed, pc, n, ticks0, since>>

TickEnd ==
  /\ tickslock = Clock /\ todo = {}
  /\ tickslock' = Free
  /\ UNCHANGED <<ticks, todo, lk, state, killed, pc, n, ticks0, since>>

Kernel(p) == Test(p) \/ Sleep(p) \/ Sched(p) \/ Dispatch(p) \/ Reacquire(p) \/ Exit(p)

Next ==
  \/ \E p \in Sleeper : SysSleep(p) \/ Kernel(p) \/ Kill(p) \/ Wakeup(p)
  \/ Tick \/ TickEnd

\* The timer does not stop, schedulers go round the table, and spinlocks starve nobody.
Fairness ==
  /\ \A p \in Sleeper : SF_vars(Kernel(p)) /\ WF_vars(Wakeup(p))
  /\ SF_vars(Tick) /\ WF_vars(TickEnd)

Spec == Init /\ [][Next]_vars /\ Fairness

-----------------------------------------------------------------------------
\* sleep(n) of a process that is not killed returns after n ticks or more, counted
\* without wrapping.
NeverEarly ==
  [][\A p \in Sleeper :
       pc[p] = "test" /\ pc'[p] = "user" /\ ~killed[p] => since[p] >= (n[p] % TICKMOD)]_vars

\* wakeup loses nobody: who sleeps through a whole clock interrupt is not late.
NoneLate ==
  \A p \in Sleeper : state[p] = "SLEEPING" /\ tickslock # Clock => Early(p)

\* A call of sleep returns, and a killed process exits.
SleepersWake ==
  \A p \in Sleeper :
    /\ (pc[p] = "test") ~> (pc[p] \in {"user", "gone"})
    /\ killed[p] ~> (pc[p] = "gone")
=============================================================================
