------------------------------ MODULE ProcTable ------------------------------
(***************************************************************************)
(* The process table (xv6-lab-syscalls/proc.c): scheduler, sched, yield,   *)
(* sleep, wakeup, fork, exit, wait and kill on several CPUs.               *)
(*                                                                         *)
(* A step of a process is taken by the CPU it runs on.  p->lock is held by *)
(* a CPU, not by a process: the scheduler acquires it, the process it      *)
(* switches to releases it, and the other way round.  What a CPU does      *)
(* while it holds the lock of a slot that only it can see is one step.     *)
(*                                                                         *)
(* The channels are those of wait, the addresses of the processes.  wakeup *)
(* locks every slot in turn; only the slot of the process that may sleep   *)
(* on the channel matters.                                                 *)
(***************************************************************************)
EXTENDS Integers, FiniteSets

CONSTANTS NPROC,    \* slots of the process table
          CPU,
          MaxPid,   \* bound on nextpid
          KillPids  \* the pids that programs pass to kill

Slot     == 1 .. NPROC
initproc == 1

\* Null is the null pointer, and pid 0 is the pid of an unused slot.
Null == 0

ASSUME ProcAssumption ==
  /\ NPROC \in Nat \ {0}
  /\ MaxPid \in Nat \ {0}
  /\ KillPids \subseteq Int
  /\ IsFiniteSet(CPU)
  /\ Null \notin CPU

VARIABLES
  state, pid, parent, killed, chan,   \* of every slot
  lk,         \* p->lock: the CPU that holds it
  wait_lock,  \* the process that holds it
  nextpid,
  cproc,      \* c->proc
  pc,         \* where each process is in the kernel, or "user"
  cont,       \* where it goes on after sched
  np,         \* fork's new process
  i, havekids \* wait's loop

slots  == <<state, pid, parent, killed, chan>>
locals == <<np, i, havekids>>
vars   == <<slots, lk, wait_lock, nextpid, cproc, pc, cont, locals>>

States == {"UNUSED", "USED", "SLEEPING", "RUNNABLE", "RUNNING", "ZOMBIE"}

\* Where a process holds no spinlock and may be interrupted ...
Open == {"user", "fork_parent", "fork_run", "exit", "wait"}

\* ... and where it holds wait_lock, or its own lock.
Exiting == {"reparent", "wake_init", "wake_parent", "zombie"}
Waiting == {"scan", "sleep"}
Labels  == Open \cup Exiting \cup Waiting \cup {"sched", "resume", "halt"}

\* procinit and userinit.
Init ==
  /\ state = [p \in Slot |-> IF p = initproc THEN "RUNNABLE" ELSE "UNUSED"]
  /\ pid = [p \in Slot |-> IF p = initproc THEN 1 ELSE 0]
  /\ parent = [p \in Slot |-> Null]
  /\ killed = [p \in Slot |-> FALSE]
  /\ chan = [p \in Slot |-> Null]
  /\ lk = [p \in Slot |-> Null]
  /\ wait_lock = Null
  /\ nextpid = 2
  /\ cproc = [c \in CPU |-> Null]
  /\ pc = [p \in Slot |-> "resume"]
  /\ cont = [p \in Slot |-> "user"]
  /\ np = [p \in Slot |-> Null]
  /\ i = [p \in Slot |-> 1]
  /\ havekids = [p \in Slot |-> FALSE]

\* CPU c executes process p, which is at l.
Runs(c, p, l) == cproc[c] = p /\ pc[p] = l

Goto(p, l) == pc' = [pc EXCEPT ![p] = l]

-----------------------------------------------------------------------------
\* scheduler: the lock it acquires here is released by the process.
Dispatch(c, p) ==
  /\ cproc[c] = Null
  /\ lk[p] = Null
  /\ state[p] = "RUNNABLE"
  /\ state' = [state EXCEPT ![p] = "RUNNING"]
  /\ lk' = [lk EXCEPT ![p] = c]
  /\ cproc' = [cproc EXCEPT ![c] = p]
  /\ UNCHANGED <<pid, parent, killed, chan, wait_lock, nextpid, pc, cont, locals>>

\* The process is back: the end of yield, of sleep's call of sched, forkret.
Resume(c, p) ==
  /\ Runs(c, p, "resume")
  /\ chan' = [chan EXCEPT ![p] = Null]
  /\ lk' = [lk EXCEPT ![p] = Null]
  /\ Goto(p, cont[p])
  /\ cont' = [cont EXCEPT ![p] = "user"]
  /\ UNCHANGED <<state, pid, parent, killed, wait_lock, nextpid, cproc, locals>>

\* Mutant: the state is changed without p->lock.
CallSchedUnlocked(c, p, s, l) ==
  /\ state' = [state EXCEPT ![p] = s]
  /\ Goto(p, "sched")
  /\ cont' = [cont EXCEPT ![p] = l]
  /\ UNCHANGED lk

\* p->lock is acquired, p->state is set, and sched is called; p goes on at l.
CallSched(c, p, s, l) ==
  /\ lk[p] = Null
  /\ lk' = [lk EXCEPT ![p] = c]
  /\ state' = [state EXCEPT ![p] = s]
  /\ Goto(p, "sched")
  /\ cont' = [cont EXCEPT ![p] = l]

\* A timer interrupt in user space, or in the kernel when no lock is held.
Yield(c, p) ==
  /\ \E l \in Open : Runs(c, p, l)
  /\ CallSched(c, p, "RUNNABLE", pc[p])
  /\ UNCHANGED <<pid, parent, killed, chan, wait_lock, nextpid, cproc, locals>>

\* swtch to the scheduler, which releases the lock of the process it left.
Swtch(c, p) ==
  /\ Runs(c, p, "sched")
  /\ Goto(p, "resume")
  /\ cproc' = [cproc EXCEPT ![c] = Null]
  /\ lk' = [lk EXCEPT ![p] = Null]
  /\ UNCHANGED <<slots, wait_lock, nextpid, cont, locals>>

-----------------------------------------------------------------------------
\* allocproc finds slot q, and uvmcopy succeeds.
ForkAlloc(c, p, q) ==
  /\ Runs(c, p, "user")
  /\ lk[q] = Null
  /\ state[q] = "UNUSED"
  /\ nextpid <= MaxPid
  /\ pid' = [pid EXCEPT ![q] = nextpid]
  /\ nextpid' = nextpid + 1
  /\ state' = [state EXCEPT ![q] = "USED"]
  /\ np' = [np EXCEPT ![p] = q]
  /\ Goto(p, "fork_parent")
  /\ UNCHANGED <<parent, killed, chan, lk, wait_lock, cproc, cont, i, havekids>>

\* freeproc
Freeproc(q) ==
  /\ pid' = [pid EXCEPT ![q] = 0]
  /\ parent' = [parent EXCEPT ![q] = Null]
  /\ chan' = [chan EXCEPT ![q] = Null]
  /\ killed' = [killed EXCEPT ![q] = FALSE]
  /\ state' = [state EXCEPT ![q] = "UNUSED"]

\* An allocation fails: the slot is freed again, the pid is used up.
ForkFail(c, p, q) ==
  /\ Runs(c, p, "user")
  /\ lk[q] = Null
  /\ state[q] = "UNUSED"
  /\ nextpid <= MaxPid
  /\ nextpid' = nextpid + 1
  /\ Freeproc(q)
  /\ UNCHANGED <<lk, wait_lock, cproc, pc, cont, locals>>

ForkParent(c, p) ==
  /\ Runs(c, p, "fork_parent")
  /\ wait_lock = Null
  /\ parent' = [parent EXCEPT ![np[p]] = p]
  /\ Goto(p, "fork_run")
  /\ UNCHANGED <<state, pid, killed, chan, lk, wait_lock, nextpid, cproc, cont,
                 locals>>

ForkRun(c, p) ==
  LET q == np[p] IN
  /\ Runs(c, p, "fork_run")
  /\ lk[q] = Null
  /\ state' = [state EXCEPT ![q] = "RUNNABLE"]
  /\ pc' = [pc EXCEPT ![p] = "user", ![q] = "resume"]
  /\ cont' = [cont EXCEPT ![q] = "user"]
  /\ np' = [np EXCEPT ![p] = Null]
  /\ UNCHANGED <<pid, parent, killed, chan, lk, wait_lock, nextpid, cproc, i,
                 havekids>>

-----------------------------------------------------------------------------
\* wakeup(q): only q sleeps on the channel q.
Wakeup(q) ==
  /\ lk[q] = Null
  /\ state' = [state EXCEPT ![q] =
                 IF @ = "SLEEPING" /\ chan[q] = q THEN "RUNNABLE" ELSE @]

\* The process calls exit, or usertrap does because it was killed.
Exit(c, p) ==
  /\ Runs(c, p, "user")
  /\ IF p = initproc THEN killed[p] /\ Goto(p, "halt") ELSE Goto(p, "exit")
  /\ UNCHANGED <<slots, lk, wait_lock, nextpid, cproc, cont, locals>>

ExitLock(c, p) ==
  /\ Runs(c, p, "exit")
  /\ wait_lock = Null
  /\ wait_lock' = p
  /\ Goto(p, "reparent")
  /\ UNCHANGED <<slots, lk, nextpid, cproc, cont, locals>>

\* Mutant: the children stay with the process that exits.
ReparentNone(c, p) ==
  /\ Runs(c, p, "reparent")
  /\ Goto(p, "wake_parent")
  /\ UNCHANGED <<slots, lk, wait_lock, nextpid, cproc, cont, locals>>

\* reparent: every child goes to init, which is woken up for each of them.
Reparent(c, p) ==
  /\ Runs(c, p, "reparent")
  /\ \/ \E q \in Slot : /\ parent[q] = p
                        /\ parent' = [parent EXCEPT ![q] = initproc]
                        /\ Goto(p, "wake_init")
     \/ /\ \A q \in Slot : parent[q] # p
        /\ Goto(p, "wake_parent")
        /\ UNCHANGED parent
  /\ UNCHANGED <<state, pid, killed, chan, lk, wait_lock, nextpid, cproc, cont,
                 locals>>

WakeInit(c, p) ==
  /\ Runs(c, p, "wake_init")
  /\ Wakeup(initproc)
  /\ Goto(p, "reparent")
  /\ UNCHANGED <<pid, parent, killed, chan, lk, wait_lock, nextpid, cproc, cont,
                 locals>>

WakeParent(c, p) ==
  /\ Runs(c, p, "wake_parent")
  /\ Wakeup(parent[p])
  /\ Goto(p, "zombie")
  /\ UNCHANGED <<pid, parent, killed, chan, lk, wait_lock, nextpid, cproc, cont,
                 locals>>

\* p->lock is acquired before wait_lock is released.
ExitZombie(c, p) ==
  /\ Runs(c, p, "zombie")
  /\ CallSched(c, p, "ZOMBIE", "user")
  /\ wait_lock' = Null
  /\ UNCHANGED <<pid, parent, killed, chan, nextpid, cproc, locals>>

-----------------------------------------------------------------------------
Wait(c, p) ==
  /\ Runs(c, p, "user")
  /\ Goto(p, "wait")
  /\ UNCHANGED <<slots, lk, wait_lock, nextpid, cproc, cont, locals>>

\* wait, and sleep when it returns to it, acquire wait_lock and scan anew.
WaitLock(c, p) ==
  /\ Runs(c, p, "wait")
  /\ wait_lock = Null
  /\ wait_lock' = p
  /\ i' = [i EXCEPT ![p] = 1]
  /\ havekids' = [havekids EXCEPT ![p] = FALSE]
  /\ Goto(p, "scan")
  /\ UNCHANGED <<slots, lk, nextpid, cproc, cont, np>>

\* A slot that is no zombie child.
ScanSlot(c, p) ==
  LET q == i[p] IN
  /\ Runs(c, p, "scan")
  /\ q <= NPROC
  /\ \/ parent[q] # p /\ UNCHANGED havekids
     \/ /\ parent[q] = p /\ lk[q] = Null /\ state[q] # "ZOMBIE"
        /\ havekids' = [havekids EXCEPT ![p] = TRUE]
  /\ i' = [i EXCEPT ![p] = q + 1]
  /\ UNCHANGED <<slots, lk, wait_lock, nextpid, cproc, pc, cont, np>>

WaitReturn(p) ==
  /\ wait_lock' = Null
  /\ Goto(p, "user")
  /\ i' = [i EXCEPT ![p] = 1]
  /\ havekids' = [havekids EXCEPT ![p] = FALSE]

\* Mutant: the status is copied out even to no address.
WaitFoundCopyout(c, p) ==
  LET q == i[p] IN
  /\ Runs(c, p, "scan")
  /\ q <= NPROC
  /\ parent[q] = p /\ lk[q] = Null /\ state[q] = "ZOMBIE"
  /\ Freeproc(q) \/ UNCHANGED slots
  /\ WaitReturn(p)
  /\ UNCHANGED <<lk, nextpid, cproc, cont, np>>

\* A zombie: it is freed, unless copyout of its status fails; init passes no
\* address for the status.
WaitFound(c, p) ==
  LET q == i[p] IN
  /\ Runs(c, p, "scan")
  /\ q <= NPROC
  /\ parent[q] = p /\ lk[q] = Null /\ state[q] = "ZOMBIE"
  /\ Freeproc(q) \/ (p # initproc /\ UNCHANGED slots)
  /\ WaitReturn(p)
  /\ UNCHANGED <<lk, nextpid, cproc, cont, np>>

\* Mutant: wait_lock is released before sleep.
ScanEndUnlocked(c, p) ==
  /\ Runs(c, p, "scan")
  /\ i[p] = NPROC + 1
  /\ IF ~ havekids[p] \/ killed[p]
     THEN WaitReturn(p)
     ELSE Goto(p, "sleep") /\ wait_lock' = Null /\ UNCHANGED <<i, havekids>>
  /\ UNCHANGED <<slots, lk, nextpid, cproc, cont, np>>

\* The end of the scan; p->killed is read without p->lock.
ScanEnd(c, p) ==
  /\ Runs(c, p, "scan")
  /\ i[p] = NPROC + 1
  /\ IF ~ havekids[p] \/ killed[p]
     THEN WaitReturn(p)
     ELSE Goto(p, "sleep") /\ UNCHANGED <<wait_lock, i, havekids>>
  /\ UNCHANGED <<slots, lk, nextpid, cproc, cont, np>>

\* sleep(p, &wait_lock)
Sleep(c, p) ==
  /\ Runs(c, p, "sleep")
  /\ CallSched(c, p, "SLEEPING", "wait")
  /\ wait_lock' = Null
  /\ chan' = [chan EXCEPT ![p] = p]
  /\ i' = [i EXCEPT ![p] = 1]
  /\ havekids' = [havekids EXCEPT ![p] = FALSE]
  /\ UNCHANGED <<pid, parent, killed, nextpid, cproc, np>>

-----------------------------------------------------------------------------
\* Mutant: a sleeping process is not woken up.
KillAsleep(c, p, n, q) ==
  /\ Runs(c, p, "user")
  /\ lk[q] = Null
  /\ pid[q] = n
  /\ killed' = [killed EXCEPT ![q] = TRUE]
  /\ UNCHANGED <<state, pid, parent, chan, lk, wait_lock, nextpid, cproc, pc,
                 cont, locals>>

\* kill(n) finds the slot q: n was not the pid of an earlier slot when kill
\* had that slot locked, which says nothing about now.
Kill(c, p, n, q) ==
  /\ Runs(c, p, "user")
  /\ lk[q] = Null
  /\ pid[q] = n
  /\ killed' = [killed EXCEPT ![q] = TRUE]
  /\ state' = [state EXCEPT ![q] = IF @ = "SLEEPING" THEN "RUNNABLE" ELSE @]
  /\ UNCHANGED <<pid, parent, chan, lk, wait_lock, nextpid, cproc, pc, cont,
                 locals>>

\* init exiting is a panic: nothing need happen any more.
Halted ==
  /\ pc[initproc] = "halt"
  /\ UNCHANGED vars

\* What the kernel does by itself once it has been entered.
KernelStep(c, p) ==
  \/ ForkParent(c, p) \/ ForkRun(c, p)
  \/ ExitLock(c, p) \/ Reparent(c, p) \/ WakeInit(c, p) \/ WakeParent(c, p)
  \/ ExitZombie(c, p)
  \/ WaitLock(c, p) \/ ScanSlot(c, p) \/ WaitFound(c, p) \/ ScanEnd(c, p)
  \/ Sleep(c, p)

UserStep(c, p) ==
  \/ \E q \in Slot : ForkAlloc(c, p, q) \/ ForkFail(c, p, q)
  \/ Exit(c, p) \/ Wait(c, p)
  \/ \E n \in KillPids, q \in Slot : Kill(c, p, n, q)

Next ==
  \E c \in CPU, p \in Slot :
    \/ Dispatch(c, p) \/ Yield(c, p) \/ Resume(c, p) \/ Swtch(c, p)
    \/ KernelStep(c, p) \/ UserStep(c, p)

Spec == Init /\ [][Next]_vars
-----------------------------------------------------------------------------
\* At most one CPU executes a process, a process that is executed is RUNNING
\* unless that CPU holds its lock, and the slot of a process that some CPU
\* still executes is neither unused nor given to another CPU.  The panics of
\* sched are unreachable: who calls it holds its own lock and no other, and has
\* changed its state.
OneCpu ==
  \A c \in CPU, p \in Slot :
    /\ cproc[c] = p =>
         /\ \A d \in CPU : cproc[d] = p => d = c
         /\ state[p] = "RUNNING" \/ lk[p] = c
         /\ state[p] # "UNUSED"
    /\ Runs(c, p, "sched") =>
         /\ lk[p] = c /\ state[p] # "RUNNING"
         /\ \A q \in Slot : q # p => lk[q] # c
         /\ wait_lock # p

\* exit wakes the parent before it becomes a zombie and the parent checks
\* its children before it sleeps, both under wait_lock: nobody sleeps in wait
\* while a child is a zombie, except init during the moment between the two
\* steps of reparent.
NoLostWakeup ==
  \A p, q \in Slot :
    state[p] = "SLEEPING" /\ parent[q] = p /\ state[q] = "ZOMBIE" =>
      p = initproc /\ \E x \in Slot : pc[x] = "wake_init"

\* Every process that exists has a parent that can still wait for it: a
\* process does not become a zombie before its children went to init, not
\* even when it is killed in the middle of fork.  Nor is it mistaken for another:
\* two processes never have the same pid, and only an unused slot has none.
NoOrphans ==
  \A q \in Slot :
    /\ parent[q] # Null => state[parent[q]] \notin {"UNUSED", "ZOMBIE"}
    /\ state[q] \notin {"UNUSED", "USED"} /\ q # initproc => parent[q] # Null
    /\ pid[q] = 0 <=> state[q] = "UNUSED"
    /\ \A p \in Slot : pid[p] = pid[q] /\ p # q => pid[p] = 0

-----------------------------------------------------------------------------
\* Schedulers go round the process table, CPUs do not stop, spinlocks do not
\* starve a CPU, and a pending timer interrupt is taken when interrupts are
\* on; init calls wait again and again, and a killed process notices it at a
\* trap.
Fairness ==
  /\ \A c \in CPU : /\ SF_vars(\E p \in Slot : Yield(c, p))
                    /\ WF_vars(\E p \in Slot : Resume(c, p) \/ Swtch(c, p))
  /\ \A p \in Slot : /\ SF_vars(\E c \in CPU : Dispatch(c, p))
                     /\ SF_vars(\E c \in CPU : KernelStep(c, p))
                     /\ SF_vars(\E c \in CPU : Exit(c, p) /\ killed[p])
  /\ SF_vars(\E c \in CPU : Wait(c, initproc))

FairSpec == Spec /\ Fairness

\* A zombie that belongs to init does not stay for ever.
OrphansReaped ==
  \A q \in Slot \ {initproc} :
    state[q] = "ZOMBIE" /\ parent[q] = initproc
      ~> state[q] = "UNUSED" \/ pc[initproc] = "halt"

\* kill: "The victim won't exit until it tries to return to user space".  It
\* does exit in the end, when there is one CPU: between wait's test of
\* p->killed and sleep, interrupts are off.
KilledExits ==
  \A q \in Slot \ {initproc} :
    killed[q] /\ state[q] # "UNUSED"
      ~> state[q] \in {"ZOMBIE", "UNUSED"} \/ pc[initproc] = "halt"
=============================================================================
