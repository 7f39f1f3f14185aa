--------------------------- MODULE ProcTableProofs ---------------------------
(***************************************************************************)
(* The safety invariants of the process table, for any number of slots and *)
(* CPUs.  They hold together or not at all: that nobody sleeps while a     *)
(* child is a zombie rests on who may hold wait_lock and on what a process *)
(* is doing that no CPU executes, and both on which CPU holds p->lock.     *)
(***************************************************************************)
EXTENDS ProcTable, TLAPS

\* Where p is, or goes on when it is scheduled again.
Where(p) == IF pc[p] \in {"sched", "resume"} THEN cont[p] ELSE pc[p]

TableTypes ==
  /\ state \in [Slot -> States] /\ pid \in [Slot -> Nat]
  /\ parent \in [Slot -> Slot \cup {Null}] /\ killed \in [Slot -> BOOLEAN]
  /\ chan \in [Slot -> Slot \cup {Null}]
  /\ lk \in [Slot -> CPU \cup {Null}] /\ wait_lock \in Slot \cup {Null}
  /\ nextpid \in Nat /\ cproc \in [CPU -> Slot \cup {Null}]

LocalTypes ==
  /\ pc \in [Slot -> Labels] /\ cont \in [Slot -> Open]
  /\ np \in [Slot -> Slot \cup {Null}]
  /\ i \in [Slot -> 1 .. NPROC + 1] /\ havekids \in [Slot -> BOOLEAN]

\* A process is executed by one CPU, which has its lock around sched.
Executed ==
  \A c \in CPU, p \in Slot : cproc[c] = p =>
    /\ \A d \in CPU : cproc[d] = p => d = c
    /\ pc[p] = "sched" => lk[p] = c /\ state[p] \in {"RUNNABLE", "SLEEPING", "ZOMBIE"}
    /\ pc[p] # "sched" => state[p] = "RUNNING"
    /\ pc[p] = "resume" => lk[p] = c

\* Nobody else has it, and who is not executed waits to be scheduled.
Suspended ==
  \A p \in Slot :
    /\ lk[p] # Null => cproc[lk[p]] = p /\ pc[p] \in {"sched", "resume"}
    /\ (\A c \in CPU : cproc[c] # p) => pc[p] = "resume" /\ state[p] # "RUNNING"
    /\ state[p] \in {"UNUSED", "USED", "ZOMBIE"} => cont[p] = "user"

\* wait_lock is held from exit to the zombie, and in wait up to sleep.
WaitLocked == \A p \in Slot : pc[p] \in Exiting \cup Waiting <=> wait_lock = p

\* The first process never exits.
InitLives ==
  /\ state[initproc] \notin {"UNUSED", "USED", "ZOMBIE"}
  /\ pc[initproc] \notin Exiting \cup {"exit"}
  /\ cont[initproc] # "exit"

Forks(p) == Where(p) \in {"fork_parent", "fork_run"}

\* A slot that fork is filling belongs to the process that called fork.
Forking ==
  \A p \in Slot : Forks(p) =>
    /\ np[p] \in Slot /\ state[np[p]] = "USED"
    /\ \A q \in Slot : Forks(q) /\ np[q] = np[p] => q = p
    /\ Where(p) = "fork_run" => parent[np[p]] = p

\* Who wakes up its parent has no children left, and then the parent is awake.
Leaving ==
  \A p \in Slot :
    /\ pc[p] \in {"wake_parent", "zombie"} => \A q \in Slot : parent[q] # p
    /\ pc[p] = "zombie" => state[parent[p]] # "SLEEPING"

\* The children that wait has looked at are not zombies.
Scanned ==
  \A p, q \in Slot :
    parent[q] = p /\ ((pc[p] = "scan" /\ q < i[p]) \/ pc[p] = "sleep")
      => state[q] # "ZOMBIE"

\* A sleeping process sleeps on its own address.
Sleepers == \A p \in Slot : state[p] = "SLEEPING" => chan[p] = p

\* A process has a parent, which lives.
Parented ==
  \A q \in Slot :
    /\ parent[q] # Null => state[parent[q]] \notin {"UNUSED", "ZOMBIE"}
    /\ state[q] \notin {"UNUSED", "USED"} /\ q # initproc => parent[q] # Null

\* New pids are larger than the old ones.
Pids ==
  /\ nextpid > 0
  /\ \A q \in Slot : /\ pid[q] < nextpid
                     /\ pid[q] = 0 <=> state[q] = "UNUSED"
                     /\ \A p \in Slot : pid[p] = pid[q] /\ p # q => pid[p] = 0

\* The inductive invariant.
IInv ==
  /\ TableTypes /\ LocalTypes /\ Executed /\ Suspended /\ WaitLocked /\ InitLives /\ Forking /\ Leaving
  /\ Scanned /\ Sleepers /\ Pids /\ Parented /\ NoLostWakeup

\* The first process has a slot, and that slot is not Null.
LEMMA InitSlot == initproc \in Slot /\ Null \notin Slot
BY ProcAssumption DEF initproc, Slot, Null

\* A process that is about to become a zombie has a parent.
LEMMA ZombieParent ==
  ASSUME IInv, NEW p \in Slot, pc[p] = "zombie"
  PROVE  parent[p] \in Slot
<1>1. PICK c \in CPU : cproc[c] = p
  BY Zenon DEF IInv, Suspended
<1>2. state[p] = "RUNNING" /\ p # initproc
  BY Zenon, <1>1 DEF IInv, Executed, InitLives, Exiting
<1>3. QED
  BY Zenon, <1>2 DEF IInv, Parented, TableTypes

\* scheduler: nobody executes a runnable process whose lock is free.
LEMMA DispatchKeeps ==
  ASSUME IInv, NEW c \in CPU, NEW p \in Slot, Dispatch(c, p)
  PROVE  IInv'
<1>1. \A d \in CPU : cproc[d] # p
  BY ProcAssumption DEF Dispatch, IInv, Executed, Null
<1>2. pc[p] = "resume"
  BY Zenon, <1>1 DEF IInv, Suspended
<1>3. LocalTypes' /\ WaitLocked'
  BY Zenon DEF Dispatch, locals, IInv, LocalTypes, WaitLocked
<1>4. TableTypes'
  BY Zenon DEF Dispatch, IInv, TableTypes, States
<1>5. Executed'
  BY <1>1, <1>2 DEF Dispatch, IInv, Executed, TableTypes
<1>6. Suspended'
  BY DEF Dispatch, IInv, TableTypes, Executed, Suspended, Slot, Null
<1>7. InitLives'
  BY DEF Dispatch, IInv, InitLives
<1>8. Forking'
  BY DEF Dispatch, locals, IInv, Forking, Where, Forks
<1>9. Leaving'
  BY DEF Dispatch, IInv, Leaving
<1>10. Scanned'
  BY DEF Dispatch, locals, IInv, Scanned
<1>11. Sleepers'
  BY DEF Dispatch, IInv, Sleepers
<1>12. Pids'
  BY DEF Dispatch, IInv, Pids
<1>13. Parented'
  BY DEF Dispatch, IInv, Parented
<1>14. NoLostWakeup'
  BY DEF Dispatch, IInv, NoLostWakeup
<1>15. QED
  BY Zenon, <1>3, <1>4, <1>5, <1>6, <1>7, <1>8, <1>9, <1>10, <1>11, <1>12, <1>13,
     <1>14 DEF IInv

\* The process releases the lock and goes on where it called sched.
LEMMA ResumeKeeps ==
  ASSUME IInv, NEW c \in CPU, NEW p \in Slot, Resume(c, p)
  PROVE  IInv'
<1>1. /\ state[p] = "RUNNING" /\ pc'[p] = cont[p] /\ cont[p] \in Open
      /\ \A x \in Slot \ {p} : pc'[x] = pc[x] /\ lk'[x] = lk[x]
  BY DEF Resume, Runs, Goto, IInv, LocalTypes, TableTypes, Executed
<1>2. \A x \in Slot : Where(x)' = Where(x)
  BY Zenon, <1>1 DEF Resume, Runs, Where, IInv, LocalTypes, Open
<1>3. Pids' /\ Parented'
  BY Zenon DEF Resume, locals, IInv, Pids, Parented
<1>4. TableTypes'
  BY Zenon DEF Resume, IInv, TableTypes
<1>5. LocalTypes'
  BY Zenon DEF Resume, Goto, locals, IInv, LocalTypes, Labels, Open
<1>6. Executed'
  BY <1>1 DEF Resume, IInv, Executed, Open
<1>7. Suspended'
  BY DEF Resume, Runs, Goto, IInv, TableTypes, Suspended
<1>8. WaitLocked'
  BY Zenon, <1>1 DEF Resume, Runs, IInv, WaitLocked, Open, Exiting, Waiting
<1>9. InitLives'
  BY ProcAssumption, <1>1 DEF Resume, IInv, InitLives, LocalTypes, Open, Exiting, Slot, initproc
<1>10. Forking'
  BY Zenon, <1>2 DEF Resume, locals, IInv, Forking, Forks
<1>11. Leaving'
  BY Zenon, <1>1 DEF Resume, IInv, Leaving, Open
<1>12. Scanned'
  BY Zenon, <1>1 DEF Resume, locals, IInv, Scanned, Open
<1>13. Sleepers'
  BY Zenon, <1>1 DEF Resume, IInv, Sleepers, TableTypes
<1>14. NoLostWakeup'
  BY DEF Resume, Runs, Goto, IInv, NoLostWakeup
<1>15. QED
  BY Zenon, <1>3, <1>4, <1>5, <1>6, <1>7, <1>8, <1>9, <1>10, <1>11, <1>12, <1>13,
     <1>14 DEF IInv

\* yield: the process keeps its place, and the slot it fills in fork.
LEMMA YieldKeeps ==
  ASSUME IInv, NEW c \in CPU, NEW p \in Slot, Yield(c, p)
  PROVE  IInv'
<1>1. state[p] = "RUNNING" /\ state' = [state EXCEPT ![p] = "RUNNABLE"]
  BY Zenon DEF Yield, Runs, CallSched, IInv, Executed, Open
<1>2. \A x \in Slot : Where(x)' = Where(x)
  BY Zenon DEF Yield, Runs, CallSched, Goto, Where, IInv, LocalTypes, Open
<1>3. TableTypes'
  BY Zenon DEF Yield, CallSched, IInv, TableTypes, States
<1>4. LocalTypes'
  BY Zenon DEF Yield, Runs, Goto, CallSched, locals, IInv, LocalTypes, Labels
<1>5. Executed'
  BY DEF Yield, Runs, Goto, CallSched, IInv, TableTypes, LocalTypes,
     Executed
<1>6. Suspended'
  BY DEF Yield, Runs, Goto, CallSched, IInv, TableTypes, LocalTypes,
     Suspended
<1>7. WaitLocked'
  BY DEF Yield, Runs, Goto, CallSched, IInv, WaitLocked, Open, Exiting,
     Waiting
<1>8. InitLives'
  BY DEF Yield, Goto, CallSched, IInv, InitLives, Exiting
<1>9. Forking'
  BY Zenon, <1>1, <1>2 DEF Yield, locals, IInv, Forking, Forks, TableTypes
<1>10. Leaving'
  BY DEF Yield, Goto, CallSched, IInv, Leaving
<1>11. Scanned'
  BY DEF Yield, Goto, CallSched, locals, IInv, Scanned
<1>12. Sleepers'
  BY DEF Yield, CallSched, IInv, Sleepers
<1>13. Pids'
  BY Zenon, <1>1 DEF Yield, IInv, Pids, TableTypes
<1>14. Parented'
  BY Zenon, <1>1 DEF Yield, IInv, Parented, TableTypes
<1>15. NoLostWakeup'
  BY DEF Yield, Runs, Goto, CallSched, IInv, NoLostWakeup, Open
<1>16. QED
  BY Zenon, <1>3, <1>4, <1>5, <1>6, <1>7, <1>8, <1>9, <1>10, <1>11, <1>12, <1>13,
     <1>14, <1>15 DEF IInv

\* swtch: the process is executed by no CPU from here on.
LEMMA SwtchKeeps ==
  ASSUME IInv, NEW c \in CPU, NEW p \in Slot, Swtch(c, p)
  PROVE  IInv'
<1>1. state[p] # "RUNNING" /\ pc' = [pc EXCEPT ![p] = "resume"]
  BY Zenon DEF Swtch, Runs, Goto, IInv, Executed
<1>2. \A x \in Slot \ {p} :
         cproc'[c] # x /\ cproc[c] # x /\ \A d \in CPU \ {c} : cproc'[d] = cproc[d]
  BY DEF Swtch, Runs, IInv, TableTypes, Slot, Null
<1>3. \A x \in Slot : Where(x)' = Where(x)
  BY Zenon, <1>1 DEF Swtch, Runs, Where, IInv, LocalTypes
<1>4. Sleepers' /\ Pids' /\ Parented'
  BY Zenon DEF Swtch, slots, locals, IInv, Sleepers, Pids, Parented
<1>5. TableTypes'
  BY Zenon DEF Swtch, slots, IInv, TableTypes
<1>6. LocalTypes'
  BY Zenon DEF Swtch, Goto, locals, IInv, LocalTypes, Labels
<1>7. Executed'
  BY DEF Swtch, Runs, Goto, slots, IInv, TableTypes, Executed, Slot, Null
<1>8. Suspended'
  BY <1>1, <1>2 DEF Swtch, slots, IInv, Suspended, TableTypes, LocalTypes
<1>9. WaitLocked'
  BY DEF Swtch, Runs, Goto, IInv, WaitLocked, Exiting, Waiting
<1>10. InitLives'
  BY DEF Swtch, Goto, slots, IInv, InitLives, Exiting
<1>11. Forking'
  BY Zenon, <1>3 DEF Swtch, slots, locals, IInv, Forking, Forks
<1>12. Leaving'
  BY DEF Swtch, Goto, slots, IInv, Leaving
<1>13. Scanned'
  BY DEF Swtch, Goto, slots, locals, IInv, Scanned
<1>14. NoLostWakeup'
  BY DEF Swtch, Runs, Goto, slots, IInv, NoLostWakeup
<1>15. QED
  BY Zenon, <1>4, <1>5, <1>6, <1>7, <1>8, <1>9, <1>10, <1>11, <1>12, <1>13, <1>14
     DEF IInv

\* allocproc: the slot was unused, so no other fork fills it.
LEMMA ForkAllocKeeps ==
  ASSUME IInv, NEW c \in CPU, NEW p \in Slot, NEW q \in Slot, ForkAlloc(c, p, q)
  PROVE  IInv'
<1>1. \A x \in Slot : x # p => Where(x)' = Where(x)
  BY Zenon DEF ForkAlloc, Goto, Where, IInv, LocalTypes
<1>2. Where(p) = "user" /\ Where(p)' = "fork_parent"
  BY Zenon DEF ForkAlloc, Runs, Goto, Where, IInv, LocalTypes
<1>3. TableTypes'
  BY DEF ForkAlloc, IInv, TableTypes, States
<1>4. LocalTypes'
  BY Zenon DEF ForkAlloc, Goto, IInv, LocalTypes, Labels, Open
<1>5. Executed'
  BY DEF ForkAlloc, Runs, Goto, IInv, Executed
<1>6. Suspended'
  BY DEF ForkAlloc, Runs, Goto, IInv, Suspended
<1>7. WaitLocked'
  BY DEF ForkAlloc, Runs, Goto, IInv, WaitLocked, Exiting, Waiting
<1>8. InitLives'
  BY DEF ForkAlloc, Goto, IInv, InitLives, Exiting
<1>9. Forking'
  BY <1>1, <1>2 DEF ForkAlloc, IInv, Forking, Forks, TableTypes, LocalTypes
<1>10. Leaving'
  BY DEF ForkAlloc, Goto, IInv, Leaving
<1>11. Scanned'
  BY DEF ForkAlloc, Goto, IInv, Scanned
<1>12. Sleepers'
  BY DEF ForkAlloc, IInv, Sleepers
<1>13. Pids'
  BY DEF ForkAlloc, IInv, TableTypes, Pids, Null
<1>14. Parented'
  BY DEF ForkAlloc, IInv, Parented
<1>15. NoLostWakeup'
  BY DEF ForkAlloc, Runs, Goto, IInv, NoLostWakeup
<1>16. QED
  BY Zenon, <1>3, <1>4, <1>5, <1>6, <1>7, <1>8, <1>9, <1>10, <1>11, <1>12, <1>13,
     <1>14, <1>15 DEF IInv

\* freeproc in fork: the slot was unused and is unused again.
LEMMA ForkFailKeeps ==
  ASSUME IInv, NEW c \in CPU, NEW p \in Slot, NEW q \in Slot, ForkFail(c, p, q)
  PROVE  IInv'
<1>1. \A x \in Slot : Where(x)' = Where(x)
  BY Zenon DEF ForkFail, Where
<1>2. \A x \in Slot : pc[x] = "zombie" => state[x] = "RUNNING"
  BY DEF IInv, Executed, Suspended
<1>3. LocalTypes' /\ WaitLocked'
  BY Zenon DEF ForkFail, locals, IInv, LocalTypes, WaitLocked
<1>4. TableTypes'
  BY DEF ForkFail, Freeproc, IInv, TableTypes
<1>5. Executed'
  BY DEF ForkFail, Freeproc, IInv, Executed
<1>6. Suspended'
  BY DEF ForkFail, Freeproc, IInv, Suspended
<1>7. InitLives'
  BY DEF ForkFail, Freeproc, IInv, InitLives
<1>8. Forking'
  BY <1>1 DEF ForkFail, Freeproc, locals, IInv, Forking, Forks, TableTypes
<1>9. Leaving'
  BY <1>2 DEF ForkFail, Freeproc, IInv, Leaving, TableTypes, Slot, Null
<1>10. Scanned'
  BY DEF ForkFail, Freeproc, locals, IInv, Scanned
<1>11. Sleepers'
  BY DEF ForkFail, Freeproc, IInv, Sleepers
<1>12. Pids'
  BY ProcAssumption DEF ForkFail, Freeproc, IInv, TableTypes, Pids, Null
<1>13. Parented'
  BY DEF ForkFail, Freeproc, IInv, Parented
<1>14. NoLostWakeup'
  BY DEF ForkFail, Freeproc, IInv, NoLostWakeup
<1>15. QED
  BY Zenon, <1>3, <1>4, <1>5, <1>6, <1>7, <1>8, <1>9, <1>10, <1>11, <1>12, <1>13,
     <1>14 DEF IInv

\* np->parent is set while nobody holds wait_lock.
LEMMA ForkParentKeeps ==
  ASSUME IInv, NEW c \in CPU, NEW p \in Slot, ForkParent(c, p)
  PROVE  IInv'
<1>1. /\ np[p] \in Slot /\ state[np[p]] = "USED" /\ state[p] = "RUNNING"
      /\ \A x \in Slot : pc[x] = "wake_init" => pc'[x] = "wake_init"
  BY DEF ForkParent, Runs, Goto, IInv, Forking, Forks, Where, Executed, LocalTypes
<1>2. \A x \in Slot : x # p => Where(x)' = Where(x)
  BY Zenon DEF ForkParent, Goto, Where, IInv, LocalTypes
<1>3. Where(p) = "fork_parent" /\ Where(p)' = "fork_run"
  BY Zenon DEF ForkParent, Runs, Goto, Where, IInv, LocalTypes
<1>4. Sleepers' /\ Pids'
  BY Zenon DEF ForkParent, locals, IInv, Sleepers, Pids
<1>5. TableTypes'
  <2>1. parent' \in [Slot -> Slot \cup {Null}]
    BY Zenon DEF ForkParent, IInv, TableTypes
  <2>2. QED
    BY Zenon, <2>1 DEF ForkParent, IInv, TableTypes
<1>6. LocalTypes'
  BY Zenon DEF ForkParent, Goto, locals, IInv, LocalTypes, Labels, Open
<1>7. Executed'
  BY DEF ForkParent, Runs, Goto, IInv, Executed
<1>8. Suspended'
  BY DEF ForkParent, Runs, Goto, IInv, Suspended
<1>9. WaitLocked'
  BY DEF ForkParent, Runs, Goto, IInv, WaitLocked, Exiting, Waiting
<1>10. InitLives'
  BY DEF ForkParent, Goto, IInv, InitLives, Exiting
<1>11. Forking'
  BY <1>2, <1>3 DEF ForkParent, locals, IInv, Forking, Forks, TableTypes
<1>12. Leaving'
  BY DEF ForkParent, Runs, Goto, IInv, Executed, Leaving, Null
<1>13. Scanned'
  BY DEF ForkParent, Runs, Goto, locals, IInv, Scanned
<1>14. Parented'
  BY Zenon, <1>1 DEF ForkParent, IInv, Parented, TableTypes
<1>15. NoLostWakeup'
  BY Zenon, <1>1 DEF ForkParent, IInv, NoLostWakeup, TableTypes
<1>16. QED
  BY Zenon, <1>4, <1>5, <1>6, <1>7, <1>8, <1>9, <1>10, <1>11, <1>12, <1>13, <1>14,
     <1>15 DEF IInv

\* The new process was USED, and so untouched, since allocproc.
LEMMA ForkRunKeeps ==
  ASSUME IInv, NEW c \in CPU, NEW p \in Slot, ForkRun(c, p)
  PROVE  IInv'
<1> DEFINE q == np[p]
<1>1. /\ q \in Slot /\ state[q] = "USED" /\ parent[q] = p /\ p # q
      /\ state[p] = "RUNNING" /\ cproc[c] = p /\ pc[p] = "fork_run"
  BY Zenon DEF ForkRun, Runs, IInv, Forking, Forks, Where, Executed
<1>2. pc[q] = "resume" /\ cont[q] = "user" /\ \A d \in CPU : cproc[d] # q
  BY Zenon, <1>1 DEF IInv, Executed, Suspended
<1>3. /\ state' = [state EXCEPT ![q] = "RUNNABLE"]
      /\ pc' = [pc EXCEPT ![p] = "user"] /\ cont' = cont
      /\ np' = [np EXCEPT ![p] = Null]
      /\ UNCHANGED <<pid, parent, killed, chan, lk, wait_lock, nextpid, cproc, i,
                     havekids>>
  BY Zenon, <1>1, <1>2 DEF ForkRun, IInv, LocalTypes
<1>4. \A x \in Slot : pc[x] = "wake_init" => pc'[x] = "wake_init"
  BY Zenon, <1>1, <1>3 DEF IInv, LocalTypes
<1>5. \A x \in Slot : x # p => Where(x)' = Where(x) /\ np'[x] = np[x]
  BY Zenon, <1>3 DEF Where, IInv, LocalTypes
<1>6. Where(p) = "fork_run" /\ Where(p)' = "user"
  BY Zenon, <1>1, <1>3 DEF Where, IInv, LocalTypes
<1>7. \A x \in Slot : x # p /\ Forks(x) => np[x] # q
  BY Zenon, <1>6 DEF IInv, Forking, Forks
<1> HIDE DEF q
<1>8. TableTypes'
  BY Zenon, <1>1, <1>3 DEF IInv, TableTypes, States
<1>9. LocalTypes'
  BY Zenon, <1>1, <1>3 DEF IInv, LocalTypes, Labels, Open
<1>10. Executed'
  BY <1>1, <1>2, <1>3 DEF IInv, Executed, TableTypes, LocalTypes
<1>11. Suspended'
  BY <1>1, <1>2, <1>3 DEF IInv, Suspended, TableTypes, LocalTypes
<1>12. WaitLocked'
  BY Zenon, <1>1, <1>3 DEF IInv, WaitLocked, LocalTypes, Exiting, Waiting
<1>13. InitLives'
  BY ProcAssumption, <1>1, <1>3 DEF IInv, InitLives, TableTypes, LocalTypes, Exiting, Slot, initproc
<1>14. Forking'
  BY <1>1, <1>3, <1>5, <1>6, <1>7 DEF IInv, Forking, Forks, TableTypes
<1>15. Leaving'
  BY <1>1, <1>3 DEF IInv, Leaving, TableTypes, LocalTypes
<1>16. Scanned'
  BY Zenon, <1>1, <1>3 DEF IInv, Scanned, TableTypes, LocalTypes
<1>17. Sleepers'
  BY Zenon, <1>1, <1>3 DEF IInv, Sleepers, TableTypes
<1>18. Pids'
  BY Zenon, <1>1, <1>3 DEF IInv, Pids, TableTypes
<1>19. Parented'
  BY <1>1, <1>3 DEF IInv, Parented, TableTypes, Slot, Null
<1>20. NoLostWakeup'
  BY <1>1, <1>3, <1>4 DEF IInv, NoLostWakeup, TableTypes
<1>21. QED
  BY Zenon, <1>8, <1>9, <1>10, <1>11, <1>12, <1>13, <1>14, <1>15, <1>16, <1>17,
     <1>18, <1>19, <1>20 DEF IInv

\* The call of exit changes no shared state.
LEMMA ExitKeeps ==
  ASSUME IInv, NEW c \in CPU, NEW p \in Slot, Exit(c, p)
  PROVE  IInv'
<1>1. PICK l \in {"exit", "halt"} : pc' = [pc EXCEPT ![p] = l]
  BY Zenon DEF Exit, Goto
<1>2. pc[p] = "user" /\ lk[p] = Null
  BY Zenon DEF Exit, Runs, IInv, Suspended
<1>3. \A x \in Slot : x # p => Where(x)' = Where(x)
  BY Zenon, <1>1 DEF Exit, Where, IInv, LocalTypes
<1>4. ~ Forks(p) /\ ~ Forks(p)'
  BY Zenon, <1>1, <1>2 DEF Forks, Where, IInv, LocalTypes
<1>5. TableTypes' /\ Sleepers' /\ Pids' /\ Parented'
  BY Zenon DEF Exit, slots, locals, IInv, TableTypes, Sleepers, Pids, Parented
<1>6. LocalTypes'
  BY Zenon, <1>1 DEF Exit, locals, IInv, LocalTypes, Labels, Open
<1>7. Executed'
  BY ProcAssumption DEF Exit, Runs, Goto, slots, IInv, LocalTypes, Executed
<1>8. Suspended'
  BY <1>1, <1>2 DEF Exit, slots, IInv, Suspended, LocalTypes
<1>9. WaitLocked'
  BY ProcAssumption DEF Exit, Runs, Goto, IInv, LocalTypes, WaitLocked,
     Exiting, Waiting
<1>10. InitLives'
  BY ProcAssumption DEF Exit, Goto, slots, IInv, LocalTypes, InitLives,
     Exiting, initproc, Slot
<1>11. Forking'
  BY Zenon, <1>3, <1>4 DEF Exit, slots, locals, IInv, Forking, Forks
<1>12. Leaving'
  BY Zenon, <1>1 DEF Exit, slots, IInv, Leaving, LocalTypes
<1>13. Scanned'
  BY Zenon, <1>1 DEF Exit, slots, locals, IInv, Scanned, LocalTypes
<1>14. NoLostWakeup'
  <2>1. \A x \in Slot : pc[x] = "wake_init" => pc'[x] = "wake_init"
    BY Zenon, <1>1, <1>2 DEF IInv, LocalTypes
  <2>2. QED
    BY Zenon, <2>1 DEF Exit, slots, IInv, NoLostWakeup
<1>15. QED
  BY Zenon, <1>5, <1>6, <1>7, <1>8, <1>9, <1>10, <1>11, <1>12, <1>13, <1>14 DEF
     IInv

\* exit acquires wait_lock.
LEMMA ExitLockKeeps ==
  ASSUME IInv, NEW c \in CPU, NEW p \in Slot, ExitLock(c, p)
  PROVE  IInv'
<1>1. \A x \in Slot : x # p => Where(x)' = Where(x)
  BY Zenon DEF ExitLock, Goto, Where, IInv, LocalTypes
<1>2. ~ Forks(p) /\ ~ Forks(p)'
  BY Zenon DEF ExitLock, Runs, Goto, Forks, Where, IInv, LocalTypes
<1>3. Sleepers' /\ Pids' /\ Parented'
  BY Zenon DEF ExitLock, slots, locals, IInv, Sleepers, Pids, Parented
<1>4. TableTypes'
  BY Zenon DEF ExitLock, slots, IInv, TableTypes
<1>5. LocalTypes'
  BY Zenon DEF ExitLock, Goto, locals, IInv, LocalTypes, Labels, Exiting
<1>6. Executed'
  BY DEF ExitLock, Runs, Goto, slots, IInv, Executed
<1>7. Suspended'
  BY DEF ExitLock, Runs, Goto, slots, IInv, Suspended
<1>8. WaitLocked'
  BY DEF ExitLock, Goto, IInv, LocalTypes, WaitLocked, Exiting, Slot, Null
<1>9. InitLives'
  BY DEF ExitLock, Runs, Goto, slots, IInv, InitLives
<1>10. Forking'
  BY Zenon, <1>1, <1>2 DEF ExitLock, slots, locals, IInv, Forking, Forks
<1>11. Leaving'
  BY DEF ExitLock, Goto, slots, IInv, Leaving
<1>12. Scanned'
  BY DEF ExitLock, Goto, slots, locals, IInv, Scanned
<1>13. NoLostWakeup'
  BY DEF ExitLock, Runs, Goto, slots, IInv, NoLostWakeup
<1>14. QED
  BY Zenon, <1>3, <1>4, <1>5, <1>6, <1>7, <1>8, <1>9, <1>10, <1>11, <1>12, <1>13
     DEF IInv

\* reparent: init may get a zombie while it sleeps, and is woken up next.
LEMMA ReparentKeeps ==
  ASSUME IInv, NEW c \in CPU, NEW p \in Slot, Reparent(c, p)
  PROVE  IInv'
<1>1. /\ pc[p] = "reparent" /\ state' = state /\ i' = i
      /\ \E l \in {"wake_init", "wake_parent"} : pc' = [pc EXCEPT ![p] = l]
  BY Zenon DEF Reparent, Runs, Goto, locals
<1>2. \/ /\ pc'[p] = "wake_init"
         /\ \E q \in Slot : parent[q] = p /\ parent' = [parent EXCEPT ![q] = initproc]
      \/ /\ pc'[p] = "wake_parent" /\ parent' = parent
         /\ \A q \in Slot : parent[q] # p
  BY Zenon DEF Reparent, Goto, IInv, LocalTypes
<1>3. \A x \in Slot : x # p => pc'[x] = pc[x] /\ pc[x] \notin Exiting \cup Waiting
  BY Zenon, <1>1 DEF IInv, WaitLocked, LocalTypes, Exiting
<1>4. \A x \in Slot : x # p => Where(x)' = Where(x)
  BY Zenon DEF Reparent, Goto, Where, IInv, LocalTypes
<1>5. ~ Forks(p) /\ ~ Forks(p)'
  BY Zenon DEF Reparent, Runs, Goto, Forks, Where, IInv, LocalTypes
<1>6. Sleepers' /\ Pids'
  BY Zenon DEF Reparent, locals, IInv, Sleepers, Pids
<1>7. TableTypes'
  <2>1. parent' \in [Slot -> Slot \cup {Null}]
    BY ProcAssumption DEF Reparent, IInv, TableTypes, initproc, Slot
  <2>2. QED
    BY Zenon, <2>1 DEF Reparent, IInv, TableTypes
<1>8. LocalTypes'
  BY Zenon DEF Reparent, Goto, locals, IInv, LocalTypes, Labels, Exiting
<1>9. Executed'
  BY ProcAssumption DEF Reparent, Runs, Goto, IInv, LocalTypes, Executed
<1>10. Suspended'
  BY ProcAssumption DEF Reparent, Runs, Goto, IInv, LocalTypes, Suspended,
     Null
<1>11. WaitLocked'
  BY Zenon, ProcAssumption DEF Reparent, Runs, Goto, IInv, LocalTypes, WaitLocked,
     Exiting
<1>12. InitLives'
  BY ProcAssumption DEF Reparent, Runs, Goto, IInv, LocalTypes, InitLives,
     Exiting, initproc, Slot
<1>13. Forking'
  BY <1>1, <1>2, <1>4, <1>5 DEF Reparent, locals, IInv, Forking, Forks, TableTypes
<1>14. Leaving'
  BY Zenon, <1>1, <1>2, <1>3 DEF Leaving, Exiting
<1>15. Scanned'
  BY Zenon, <1>1, <1>2, <1>3 DEF Scanned, Waiting
<1>16. Parented'
  <2>1. \A x \in Slot : parent'[x] \in {parent[x], initproc}
    BY Zenon, <1>2 DEF IInv, TableTypes
  <2>2. initproc # Null /\ state[initproc] \notin {"UNUSED", "ZOMBIE"}
    BY Zenon, InitSlot DEF IInv, InitLives
  <2>3. QED
    BY Zenon, <1>1, <2>1, <2>2 DEF IInv, Parented
<1>17. NoLostWakeup'
  <2>1. \A x, y \in Slot :
          parent'[y] = x => parent[y] = x \/ (x = initproc /\ pc'[p] = "wake_init")
    BY Zenon, <1>2 DEF IInv, TableTypes
  <2>2. \A x \in Slot : pc[x] # "wake_init"
    BY Zenon, <1>1, <1>3 DEF Exiting
  <2>3. QED
    BY Zenon, <1>1, <2>1, <2>2 DEF IInv, NoLostWakeup
<1>18. QED
  BY Zenon, <1>6, <1>7, <1>8, <1>9, <1>10, <1>11, <1>12, <1>13, <1>14, <1>15,
     <1>16, <1>17 DEF IInv

\* wakeup(initproc): after it, init does not sleep.
LEMMA WakeInitKeeps ==
  ASSUME IInv, NEW c \in CPU, NEW p \in Slot, WakeInit(c, p)
  PROVE  IInv'
<1>1. \A x \in Slot : x # p => Where(x)' = Where(x)
  BY Zenon DEF WakeInit, Goto, Where, IInv, LocalTypes
<1>2. ~ Forks(p) /\ ~ Forks(p)'
  BY Zenon DEF WakeInit, Runs, Goto, Forks, Where, IInv, LocalTypes
<1>3. TableTypes'
  <2>1. state' \in [Slot -> States]
    BY Zenon, ProcAssumption
       DEF WakeInit, Wakeup, IInv, TableTypes, States, Slot, initproc
  <2>2. QED
    BY Zenon, <2>1 DEF WakeInit, IInv, TableTypes
<1>4. LocalTypes'
  BY Zenon DEF WakeInit, Goto, Wakeup, locals, IInv, LocalTypes, Labels, Exiting
<1>5. Executed'
  BY DEF WakeInit, Runs, Goto, Wakeup, IInv, Executed
<1>6. Suspended'
  BY DEF WakeInit, Runs, Goto, Wakeup, IInv, Suspended
<1>7. WaitLocked'
  BY DEF WakeInit, Runs, Goto, Wakeup, IInv, WaitLocked, Exiting
<1>8. InitLives'
  BY DEF WakeInit, Runs, Goto, Wakeup, IInv, InitLives, Exiting
<1>9. Forking'
  BY <1>1, <1>2 DEF WakeInit, Wakeup, TableTypes, locals, IInv, Forking, Forks
<1>10. Leaving'
  BY DEF WakeInit, Goto, Wakeup, IInv, Leaving
<1>11. Scanned'
  BY DEF WakeInit, Goto, Wakeup, locals, IInv, Scanned
<1>12. Sleepers'
  BY DEF WakeInit, Wakeup, IInv, Sleepers
<1>13. Pids'
  BY DEF WakeInit, Wakeup, IInv, Pids
<1>14. Parented'
  BY DEF WakeInit, Wakeup, IInv, Parented
<1>15. NoLostWakeup'
  BY DEF WakeInit, Wakeup, IInv, TableTypes, NoLostWakeup, Sleepers
<1>16. QED
  BY Zenon, <1>3, <1>4, <1>5, <1>6, <1>7, <1>8, <1>9, <1>10, <1>11, <1>12, <1>13,
     <1>14, <1>15 DEF IInv

\* wakeup(p->parent): the parent cannot sleep again without wait_lock.
LEMMA WakeParentKeeps ==
  ASSUME IInv, NEW c \in CPU, NEW p \in Slot, WakeParent(c, p)
  PROVE  IInv'
<1>1. parent[p] \in Slot
  BY DEF WakeParent, Runs, IInv, Parented, TableTypes, Executed, InitLives, Exiting
<1>2. state' \in [Slot -> States] /\ state'[parent[p]] # "SLEEPING"
  BY Zenon, <1>1 DEF WakeParent, Wakeup, IInv, TableTypes, States, Sleepers
<1>3. TableTypes'
  BY Zenon, <1>2 DEF WakeParent, IInv, TableTypes, locals
<1>4. LocalTypes'
  BY Zenon DEF WakeParent, Goto, Wakeup, locals, IInv, LocalTypes, Labels, Exiting
<1>5. Executed'
  BY SMTT(30) DEF WakeParent, Runs, Goto, Wakeup, IInv, Executed
<1>6. Suspended'
  BY SMTT(30) DEF WakeParent, Runs, Goto, Wakeup, IInv, Suspended
<1>7. WaitLocked'
  BY DEF WakeParent, Runs, Goto, Wakeup, IInv, WaitLocked, Exiting
<1>8. InitLives'
  BY DEF WakeParent, Runs, Goto, Wakeup, IInv, InitLives, Exiting
<1>9. Forking'
  BY DEF WakeParent, Goto, Wakeup, locals, IInv, Forking, Where, Forks
<1>10. Leaving'
  <2>1. \A x \in Slot \ {p} : pc[x] \notin {"wake_parent", "zombie"}
    BY Zenon DEF WakeParent, Runs, IInv, WaitLocked, Exiting
  <2>2. QED
    BY Zenon, <1>2, <2>1 DEF WakeParent, Runs, Goto, IInv, Leaving, LocalTypes
<1>11. Scanned'
  BY DEF WakeParent, Goto, Wakeup, locals, IInv, Scanned
<1>12. Sleepers'
  BY DEF WakeParent, Wakeup, IInv, Sleepers
<1>13. Pids'
  BY DEF WakeParent, Wakeup, IInv, Pids
<1>14. Parented'
  BY DEF WakeParent, Wakeup, IInv, Parented
<1>15. NoLostWakeup'
  BY DEF WakeParent, Runs, Goto, Wakeup, IInv, NoLostWakeup
<1>16. QED
  BY Zenon, <1>3, <1>4, <1>5, <1>6, <1>7, <1>8, <1>9, <1>10, <1>11, <1>12, <1>13,
     <1>14, <1>15 DEF IInv

\* The process has no children, and its parent is awake.
LEMMA ExitZombieKeeps ==
  ASSUME IInv, NEW c \in CPU, NEW p \in Slot, ExitZombie(c, p)
  PROVE  IInv'
<1>1. state[p] = "RUNNING" /\ state' = [state EXCEPT ![p] = "ZOMBIE"]
  BY Zenon DEF ExitZombie, Runs, CallSched, IInv, Executed, Open
<1>2. \A x \in Slot : x # p => Where(x)' = Where(x)
  BY Zenon DEF ExitZombie, CallSched, Goto, Where, IInv, LocalTypes
<1>3. ~ Forks(p) /\ ~ Forks(p)'
  BY Zenon DEF ExitZombie, Runs, CallSched, Goto, Forks, Where, IInv, LocalTypes
<1>4. \A q \in Slot : parent[q] # p
  BY Zenon DEF ExitZombie, Runs, IInv, Leaving
<1>5. TableTypes'
  BY Zenon DEF ExitZombie, CallSched, IInv, TableTypes, States
<1>6. LocalTypes'
  BY Zenon DEF ExitZombie, Goto, CallSched, locals, IInv, LocalTypes, Labels, Open
<1>7. Executed'
  BY DEF ExitZombie, Runs, Goto, CallSched, IInv, TableTypes, LocalTypes,
     Executed
<1>8. Suspended'
  BY DEF ExitZombie, Runs, Goto, CallSched, IInv, LocalTypes, Suspended
<1>9. WaitLocked'
  BY DEF ExitZombie, Runs, Goto, CallSched, IInv, LocalTypes, WaitLocked,
     Exiting, Waiting, Slot, Null
<1>10. InitLives'
  BY DEF ExitZombie, Runs, Goto, CallSched, IInv, InitLives, Exiting
<1>11. Forking'
  BY ZenonT(30), <1>1, <1>2, <1>3 DEF ExitZombie, locals, IInv, Forking, Forks, TableTypes
<1>12. Leaving'
  BY DEF ExitZombie, Goto, CallSched, IInv, Leaving
<1>13. Scanned'
  BY DEF ExitZombie, Runs, Goto, CallSched, IInv, WaitLocked, Scanned,
     Exiting, Waiting
<1>14. Sleepers'
  BY DEF ExitZombie, CallSched, IInv, Sleepers
<1>15. Pids'
  BY Zenon, <1>1 DEF ExitZombie, IInv, Pids, TableTypes
<1>16. Parented'
  BY Zenon, <1>1, <1>4 DEF ExitZombie, IInv, Parented, TableTypes
<1>17. NoLostWakeup'
  BY DEF ExitZombie, Runs, Goto, CallSched, IInv, NoLostWakeup, Leaving,
     Null
<1>18. QED
  BY Zenon, <1>5, <1>6, <1>7, <1>8, <1>9, <1>10, <1>11, <1>12, <1>13, <1>14, <1>15,
     <1>16, <1>17 DEF IInv

\* The call of wait changes no shared state.
LEMMA WaitKeeps ==
  ASSUME IInv, NEW c \in CPU, NEW p \in Slot, Wait(c, p)
  PROVE  IInv'
<1>1. \A x \in Slot : x # p => Where(x)' = Where(x)
  BY Zenon DEF Wait, Goto, Where, IInv, LocalTypes
<1>2. ~ Forks(p) /\ ~ Forks(p)'
  BY Zenon DEF Wait, Runs, Goto, Forks, Where, IInv, LocalTypes
<1>3. TableTypes' /\ Sleepers' /\ Pids' /\ Parented'
  BY Zenon DEF Wait, slots, locals, IInv, TableTypes, Sleepers, Pids, Parented
<1>4. LocalTypes'
  BY Zenon DEF Wait, Goto, locals, IInv, LocalTypes, Labels, Open
<1>5. Executed'
  BY DEF Wait, Runs, Goto, slots, IInv, Executed
<1>6. Suspended'
  BY DEF Wait, Runs, Goto, slots, IInv, Suspended
<1>7. WaitLocked'
  BY DEF Wait, Runs, Goto, IInv, WaitLocked, Exiting, Waiting
<1>8. InitLives'
  BY DEF Wait, Goto, slots, IInv, InitLives, Exiting
<1>9. Forking'
  BY Zenon, <1>1, <1>2 DEF Wait, slots, locals, IInv, Forking, Forks
<1>10. Leaving'
  BY DEF Wait, Goto, slots, IInv, Leaving
<1>11. Scanned'
  BY DEF Wait, Goto, slots, locals, IInv, Scanned
<1>12. NoLostWakeup'
  BY DEF Wait, Runs, Goto, slots, IInv, NoLostWakeup
<1>13. QED
  BY Zenon, <1>3, <1>4, <1>5, <1>6, <1>7, <1>8, <1>9, <1>10, <1>11, <1>12 DEF IInv

\* wait acquires wait_lock and starts the scan.
LEMMA WaitLockKeeps ==
  ASSUME IInv, NEW c \in CPU, NEW p \in Slot, WaitLock(c, p)
  PROVE  IInv'
<1>1. \A x \in Slot : x # p => Where(x)' = Where(x)
  BY Zenon DEF WaitLock, Goto, Where, IInv, LocalTypes
<1>2. ~ Forks(p) /\ ~ Forks(p)'
  BY Zenon DEF WaitLock, Runs, Goto, Forks, Where, IInv, LocalTypes
<1>3. Sleepers' /\ Pids' /\ Parented'
  BY Zenon DEF WaitLock, slots, IInv, Sleepers, Pids, Parented
<1>4. TableTypes'
  BY Zenon DEF WaitLock, slots, IInv, TableTypes
<1>5. LocalTypes'
  BY ProcAssumption DEF WaitLock, Goto, IInv, LocalTypes, Labels, Waiting
<1>6. Executed'
  BY DEF WaitLock, Runs, Goto, slots, IInv, Executed
<1>7. Suspended'
  BY DEF WaitLock, Runs, Goto, slots, IInv, Suspended
<1>8. WaitLocked'
  BY DEF WaitLock, Goto, IInv, LocalTypes, WaitLocked, Waiting, Slot, Null
<1>9. InitLives'
  BY DEF WaitLock, Goto, slots, IInv, InitLives, Exiting
<1>10. Forking'
  BY Zenon, <1>1, <1>2 DEF WaitLock, slots, IInv, Forking, Forks
<1>11. Leaving'
  BY DEF WaitLock, Goto, slots, IInv, Leaving
<1>12. Scanned'
  BY DEF WaitLock, Goto, slots, IInv, LocalTypes, Scanned, Slot
<1>13. NoLostWakeup'
  BY DEF WaitLock, Runs, Goto, slots, IInv, NoLostWakeup
<1>14. QED
  BY Zenon, <1>3, <1>4, <1>5, <1>6, <1>7, <1>8, <1>9, <1>10, <1>11, <1>12, <1>13
     DEF IInv

\* The slot that was scanned is no zombie child.
LEMMA ScanSlotKeeps ==
  ASSUME IInv, NEW c \in CPU, NEW p \in Slot, ScanSlot(c, p)
  PROVE  IInv'
<1>1. /\ TableTypes' /\ Executed' /\ Suspended' /\ WaitLocked' /\ InitLives'
      /\ Forking' /\ Leaving' /\ Sleepers' /\ Pids' /\ Parented' /\ NoLostWakeup'
  <2>1. UNCHANGED <<state, pid, parent, killed, chan, lk, wait_lock, nextpid, cproc, pc, cont, np>>
    BY Zenon DEF ScanSlot, slots
  <2>2. TableTypes' /\ Suspended' /\ WaitLocked' /\ InitLives'
    BY Zenon, <2>1 DEF IInv, TableTypes, Suspended, WaitLocked, InitLives
  <2>3. Executed'
    BY <2>1 DEF IInv, Executed
  <2>4. Forking' /\ Leaving' /\ Sleepers'
    BY ZenonT(30), <2>1 DEF IInv, Forking, Where, Forks, Leaving, Sleepers
  <2>5. Pids' /\ Parented' /\ NoLostWakeup'
    BY Zenon, <2>1 DEF IInv, Pids, Parented, NoLostWakeup
  <2>6. QED
    BY Zenon, <2>2, <2>3, <2>4, <2>5
<1>2. LocalTypes'
  <2>1. i' \in [Slot -> 1 .. NPROC + 1]
    <3>1. i[p] \in 1 .. NPROC + 1 /\ i[p] <= NPROC
      BY Zenon DEF ScanSlot, IInv, LocalTypes
    <3>2. i[p] + 1 \in 1 .. NPROC + 1
      BY <3>1, ProcAssumption
    <3>3. QED
      BY Zenon, <3>2 DEF ScanSlot, IInv, LocalTypes
  <2>2. havekids' \in [Slot -> BOOLEAN]
    BY Zenon DEF ScanSlot, IInv, LocalTypes
  <2>3. QED
    BY Zenon, <2>1, <2>2 DEF ScanSlot, IInv, LocalTypes
<1>3. Scanned'
  BY DEF ScanSlot, slots, IInv, LocalTypes, Scanned, Slot
<1>4. QED
  BY Zenon, <1>1, <1>2, <1>3 DEF IInv

\* freeproc in wait: nobody executes a zombie whose lock is free.
LEMMA WaitFoundKeeps ==
  ASSUME IInv, NEW c \in CPU, NEW p \in Slot, WaitFound(c, p)
  PROVE  IInv'
<1> DEFINE q == i[p]
<1>1. /\ q \in Slot /\ state[q] = "ZOMBIE" /\ lk[q] = Null /\ parent[q] = p
      /\ pc[p] = "scan" /\ cproc[c] = p /\ pc' = [pc EXCEPT ![p] = "user"]
      /\ wait_lock' = Null /\ i' = [i EXCEPT ![p] = 1]
      /\ havekids' = [havekids EXCEPT ![p] = FALSE]
      /\ UNCHANGED <<lk, nextpid, cproc, cont, np>>
  BY ProcAssumption DEF WaitFound, Runs, Goto, WaitReturn, IInv, LocalTypes, Slot
<1>2. UNCHANGED slots \/ Freeproc(q)
  BY Zenon DEF WaitFound
<1>3. \A d \in CPU : cproc[d] # q
  BY <1>1, ProcAssumption DEF IInv, Executed, Null
<1>4. lk[p] = Null
  BY Zenon, <1>1 DEF IInv, Suspended
<1>5. \A x \in Slot : x # p => Where(x)' = Where(x)
  BY Zenon DEF WaitFound, Goto, WaitReturn, Where, IInv, LocalTypes
<1>6. ~ Forks(p) /\ ~ Forks(p)'
  BY Zenon DEF WaitFound, Runs, Goto, WaitReturn, Forks, Where, IInv, LocalTypes
<1>7. \A x \in Slot : /\ state'[x] = state[x] \/ (x = q /\ state'[x] = "UNUSED")
                      /\ parent'[x] = parent[x] \/ parent'[x] = Null
  BY Zenon, <1>2 DEF slots, Freeproc, IInv, TableTypes
<1>8. \A x \in Slot : x # p => pc'[x] = pc[x] /\ pc[x] \notin Exiting \cup Waiting
  BY Zenon, <1>1 DEF IInv, WaitLocked, LocalTypes, Waiting
<1> HIDE DEF q
<1>9. TableTypes'
  <2>1. CASE UNCHANGED slots
    BY Zenon, <1>1, <2>1 DEF slots, IInv, TableTypes
  <2>2. CASE Freeproc(q)
    BY Zenon, <1>1, <2>2 DEF Freeproc, IInv, TableTypes, States
  <2>3. QED
    BY Zenon, <1>2, <2>1, <2>2
<1>10. LocalTypes'
  BY ProcAssumption, <1>1 DEF IInv, LocalTypes, Labels, Open
<1>11. Executed'
  BY <1>1, <1>3, <1>7 DEF IInv, Executed, TableTypes, LocalTypes
<1>12. Suspended'
  BY <1>1, <1>4, <1>7 DEF IInv, Suspended, TableTypes, LocalTypes
<1>13. WaitLocked'
  BY <1>1 DEF slots, IInv, WaitLocked, LocalTypes, Exiting, Waiting, Slot, Null
<1>14. InitLives'
  BY Zenon, <1>1, <1>7, InitSlot DEF IInv, InitLives, LocalTypes, Exiting
<1>15. Forking'
  <2>1. \A x \in Slot : Where(x) = "fork_run" => parent'[np[x]] = parent[np[x]]
    BY Zenon, <1>1, <1>2 DEF slots, Freeproc, IInv, Forking, Forks, TableTypes
  <2>2. QED
    <3>1. \A x \in Slot : Forks(x)' => Forks(x) /\ x # p /\ Where(x)' = Where(x)
      BY Zenon, <1>5, <1>6 DEF Forks
    <3>2. \A x \in Slot : state[x] = "USED" => state'[x] = "USED"
      BY Zenon, <1>1, <1>7
    <3>3. ASSUME NEW x \in Slot, Forks(x)'
          PROVE  /\ np'[x] \in Slot /\ state'[np'[x]] = "USED"
                 /\ Where(x)' = "fork_run" => parent'[np'[x]] = x
      <4>1. /\ Forks(x) /\ np'[x] = np[x] /\ Where(x)' = Where(x)
            /\ np[x] \in Slot /\ state[np[x]] = "USED"
            /\ Where(x) = "fork_run" => parent[np[x]] = x
        BY Zenon, <1>1, <3>1, <3>3 DEF IInv, Forking
      <4>2. QED
        BY Zenon, <2>1, <3>2, <4>1
    <3>4. ASSUME NEW x \in Slot, Forks(x)', NEW y \in Slot, Forks(y)', np'[y] = np'[x]
          PROVE  y = x
      BY Zenon, <1>1, <3>1, <3>4 DEF IInv, Forking
    <3>5. QED
      BY Zenon, <3>3, <3>4 DEF Forking
<1>16. Leaving'
  BY Zenon, <1>1, <1>8 DEF IInv, Leaving, Exiting, LocalTypes
<1>17. Scanned'
  BY Zenon, <1>1, <1>8 DEF IInv, Scanned, Waiting, LocalTypes
<1>18. Sleepers'
  BY Zenon, <1>1, <1>2 DEF slots, Freeproc, IInv, Sleepers, TableTypes
<1>19. Pids'
  BY <1>1, <1>2 DEF slots, Freeproc, IInv, Pids, TableTypes
<1>20. Parented'
  <2>1. \A x \in Slot : parent[x] # q
    BY <1>1 DEF IInv, Parented, Slot, Null
  <2>2. QED
    BY <1>1, <1>2, <2>1 DEF slots, Freeproc, IInv, Parented, TableTypes
<1>21. NoLostWakeup'
  <2>1. \A x \in Slot : pc[x] = "wake_init" => pc'[x] = "wake_init"
    BY Zenon, <1>1 DEF IInv, LocalTypes
  <2>2. QED
    BY <1>7, <2>1 DEF IInv, NoLostWakeup, TableTypes, Slot, Null
<1>22. QED
  BY Zenon, <1>9, <1>10, <1>11, <1>12, <1>13, <1>14, <1>15, <1>16, <1>17, <1>18,
     <1>19, <1>20, <1>21 DEF IInv

\* The end of the scan: no child is a zombie, and wait_lock is still held.
LEMMA ScanEndKeeps ==
  ASSUME IInv, NEW c \in CPU, NEW p \in Slot, ScanEnd(c, p)
  PROVE  IInv'
<1>1. PICK l \in {"user", "sleep"} : pc' = [pc EXCEPT ![p] = l]
  BY Zenon DEF ScanEnd, Goto, WaitReturn
<1>2. /\ pc[p] = "scan" /\ cproc[c] = p /\ lk[p] = Null
      /\ UNCHANGED <<slots, lk, nextpid, cproc, cont, np>>
  BY Zenon DEF ScanEnd, Runs, IInv, Suspended
<1>3. \A x \in Slot : x # p => Where(x)' = Where(x)
  BY Zenon, <1>1, <1>2 DEF Where, IInv, LocalTypes
<1>4. ~ Forks(p) /\ ~ Forks(p)'
  BY Zenon, <1>1, <1>2 DEF Forks, Where, IInv, LocalTypes
<1>5. Sleepers' /\ Pids' /\ Parented'
  BY Zenon DEF ScanEnd, slots, IInv, Sleepers, Pids, Parented
<1>6. TableTypes'
  <2>1. wait_lock' \in {wait_lock, Null}
    BY Zenon DEF ScanEnd, WaitReturn
  <2>2. QED
    BY Zenon, <1>2, <2>1 DEF slots, IInv, TableTypes
<1>7. LocalTypes'
  <2>1. pc' \in [Slot -> Labels]
    BY Zenon, <1>1 DEF IInv, LocalTypes, Labels, Open, Waiting
  <2>2. CASE i' = i /\ havekids' = havekids
    BY Zenon, <1>2, <2>1, <2>2 DEF IInv, LocalTypes
  <2>3. CASE /\ i' = [i EXCEPT ![p] = 1]
             /\ havekids' = [havekids EXCEPT ![p] = FALSE]
    <3>1. 1 \in 1 .. NPROC + 1
      BY ProcAssumption
    <3>2. QED
      BY Zenon, <1>2, <2>1, <2>3, <3>1 DEF IInv, LocalTypes
  <2>4. QED
    BY Zenon, <2>2, <2>3 DEF ScanEnd, WaitReturn
<1>8. Executed'
  <2>1. pc[p] # "sched" /\ pc'[p] \notin {"sched", "resume"}
    BY Zenon, <1>1, <1>2 DEF IInv, LocalTypes
  <2>2. \A x \in Slot : x # p => pc'[x] = pc[x]
    BY Zenon, <1>1 DEF IInv, LocalTypes
  <2>3. QED
    BY <1>2, <2>1, <2>2 DEF slots, IInv, Executed
<1>9. Suspended'
  BY Zenon, <1>1, <1>2 DEF slots, IInv, Suspended, LocalTypes
<1>10. WaitLocked'
  <2>1. wait_lock = p /\ \A x \in Slot : x # p => pc[x] \notin Exiting \cup Waiting
    BY Zenon, <1>2 DEF IInv, WaitLocked, Waiting
  <2>2. CASE pc' = [pc EXCEPT ![p] = "user"] /\ wait_lock' = Null
    <3>1. \A x \in Slot : pc'[x] \notin Exiting \cup Waiting
      BY Zenon, <2>1, <2>2 DEF IInv, LocalTypes, Exiting, Waiting
    <3>2. QED
      BY <2>2, <3>1 DEF WaitLocked, Slot, Null
  <2>3. CASE pc' = [pc EXCEPT ![p] = "sleep"] /\ wait_lock' = wait_lock
    BY Zenon, <2>1, <2>3 DEF IInv, WaitLocked, LocalTypes, Exiting, Waiting
  <2>4. QED
    BY Zenon, <2>2, <2>3 DEF ScanEnd, Goto, WaitReturn
<1>11. InitLives'
  BY Zenon, <1>1, <1>2, InitSlot DEF slots, IInv, LocalTypes, InitLives, Exiting
<1>12. Forking'
  BY Zenon, <1>2, <1>3, <1>4 DEF slots, IInv, Forking, Forks
<1>13. Leaving'
  BY Zenon, <1>1, <1>2 DEF slots, IInv, Leaving, LocalTypes
<1>14. Scanned'
  <2>1. \A x \in Slot : x # p => pc'[x] = pc[x] /\ pc[x] \notin Waiting
    BY Zenon, <1>1, <1>2 DEF IInv, WaitLocked, LocalTypes, Waiting
  <2>2. pc'[p] # "scan" /\ i[p] = NPROC + 1
    BY Zenon, <1>1 DEF ScanEnd, IInv, LocalTypes
  <2>3. QED
    <3>1. \A q \in Slot : q < NPROC + 1
      BY ProcAssumption DEF Slot
    <3>2. \A x \in Slot : x # p => pc'[x] \notin {"scan", "sleep"}
      BY Zenon, <2>1 DEF Waiting
    <3>3. QED
      BY Zenon, <1>2, <2>2, <3>1, <3>2 DEF slots, IInv, Scanned
<1>15. NoLostWakeup'
  <2>1. \A x \in Slot : pc[x] = "wake_init" => pc'[x] = "wake_init"
    BY Zenon, <1>1, <1>2 DEF IInv, LocalTypes
  <2>2. QED
    BY Zenon, <1>2, <2>1 DEF slots, IInv, NoLostWakeup
<1>16. QED
  BY Zenon, <1>5, <1>6, <1>7, <1>8, <1>9, <1>10, <1>11, <1>12, <1>13, <1>14, <1>15
     DEF IInv

\* sleep: none of the children is a zombie when the process sleeps.
LEMMA SleepKeeps ==
  ASSUME IInv, NEW c \in CPU, NEW p \in Slot, Sleep(c, p)
  PROVE  IInv'
<1>1. state[p] = "RUNNING" /\ state' = [state EXCEPT ![p] = "SLEEPING"]
  BY Zenon DEF Sleep, Runs, CallSched, IInv, Executed, Open
<1>2. \A x \in Slot : x # p => Where(x)' = Where(x)
  BY Zenon DEF Sleep, CallSched, Goto, Where, IInv, LocalTypes
<1>3. ~ Forks(p) /\ ~ Forks(p)'
  BY Zenon DEF Sleep, Runs, CallSched, Goto, Forks, Where, IInv, LocalTypes
<1>4. TableTypes'
  BY Zenon DEF Sleep, CallSched, IInv, TableTypes, States
<1>5. LocalTypes'
  BY ProcAssumption DEF Sleep, Goto, CallSched, IInv, LocalTypes, Labels,
     Open
<1>6. Executed'
  BY DEF Sleep, Runs, Goto, CallSched, IInv, TableTypes, LocalTypes,
     Executed
<1>7. Suspended'
  BY DEF Sleep, Runs, Goto, CallSched, IInv, TableTypes, LocalTypes,
     Suspended
<1>8. WaitLocked'
  BY DEF Sleep, Runs, Goto, CallSched, IInv, LocalTypes, WaitLocked,
     Exiting, Waiting, Slot, Null
<1>9. InitLives'
  BY SMTT(30) DEF Sleep, Goto, CallSched, IInv, InitLives, Exiting
<1>10. Forking'
  BY <1>1, <1>2, <1>3 DEF Sleep, locals, IInv, Forking, Forks, TableTypes
<1>11. Leaving'
  BY DEF Sleep, Runs, Goto, CallSched, IInv, WaitLocked, Leaving, Exiting,
     Waiting
<1>12. Scanned'
  BY DEF Sleep, Runs, Goto, CallSched, IInv, Scanned
<1>13. Sleepers'
  BY Zenon DEF Sleep, CallSched, IInv, TableTypes, Sleepers
<1>14. Pids'
  BY Zenon, <1>1 DEF Sleep, IInv, Pids, TableTypes
<1>15. Parented'
  BY Zenon, <1>1 DEF Sleep, IInv, Parented, TableTypes
<1>16. NoLostWakeup'
  BY DEF Sleep, Runs, Goto, CallSched, IInv, NoLostWakeup, Scanned
<1>17. QED
  BY Zenon, <1>4, <1>5, <1>6, <1>7, <1>8, <1>9, <1>10, <1>11, <1>12, <1>13, <1>14,
     <1>15, <1>16 DEF IInv

\* kill: a process that sleeps becomes runnable.
LEMMA KillKeeps ==
  ASSUME IInv, NEW c \in CPU, NEW p \in Slot, NEW n \in KillPids, NEW q \in Slot, Kill(c, p, n, q)
  PROVE  IInv'
<1>1. /\ \A x \in Slot : \/ state'[x] = state[x]
                         \/ state[x] = "SLEEPING" /\ state'[x] = "RUNNABLE"
      /\ UNCHANGED <<pid, parent, chan, lk, wait_lock, nextpid, cproc, pc, cont, np, i, havekids>>
  BY Zenon DEF Kill, locals, IInv, TableTypes
<1>2. LocalTypes' /\ WaitLocked'
  BY Zenon, <1>1 DEF IInv, LocalTypes, WaitLocked
<1>3. TableTypes'
  <2>1. state' \in [Slot -> States]
    BY Zenon DEF Kill, IInv, TableTypes, States
  <2>2. QED
    BY Zenon, <2>1 DEF Kill, IInv, TableTypes
<1>4. Executed' /\ Suspended'
  <2>1. Executed'
    BY <1>1 DEF IInv, Executed
  <2>2. Suspended'
    BY ZenonT(30), <1>1 DEF IInv, Suspended
  <2>3. QED
    BY Zenon, <2>1, <2>2
<1>5. InitLives'
  BY Zenon, <1>1, InitSlot DEF IInv, InitLives
<1>6. Forking'
  <2>1. \A x \in Slot : (Forks(x)' <=> Forks(x)) /\ Where(x)' = Where(x)
    BY Zenon, <1>1 DEF Where, Forks
  <2>2. \A x \in Slot : state[x] = "USED" => state'[x] = "USED"
    BY Zenon, <1>1
  <2>3. ASSUME NEW x \in Slot, Forks(x)'
        PROVE  /\ np'[x] \in Slot /\ state'[np'[x]] = "USED"
               /\ Where(x)' = "fork_run" => parent'[np'[x]] = x
    <3>1. /\ Forks(x) /\ np'[x] = np[x] /\ Where(x)' = Where(x)
          /\ np[x] \in Slot /\ state[np[x]] = "USED" /\ parent' = parent
          /\ Where(x) = "fork_run" => parent[np[x]] = x
      BY Zenon, <1>1, <2>1, <2>3 DEF IInv, Forking
    <3>2. QED
      BY Zenon, <2>2, <3>1
  <2>4. ASSUME NEW x \in Slot, Forks(x)', NEW y \in Slot, Forks(y)', np'[y] = np'[x]
        PROVE  y = x
    BY Zenon, <1>1, <2>1, <2>4 DEF IInv, Forking
  <2>5. QED
    BY Zenon, <2>3, <2>4 DEF Forking
<1>7. Leaving'
  BY Zenon, <1>1, ZombieParent DEF IInv, Leaving
<1>8. Scanned' /\ Sleepers'
  BY ZenonT(30), <1>1 DEF IInv, Scanned, Sleepers
<1>9. Pids'
  BY Zenon, <1>1 DEF IInv, Pids
<1>10. Parented'
  BY Zenon, <1>1 DEF IInv, Parented, TableTypes
<1>11. NoLostWakeup'
  BY Zenon, <1>1 DEF IInv, NoLostWakeup
<1>12. QED
  BY Zenon, <1>2, <1>3, <1>4, <1>5, <1>6, <1>7, <1>8, <1>9, <1>10, <1>11 DEF IInv

\* A machine with one process, which nobody executes yet.
LEMMA InitHolds == Init => IInv
<1> SUFFICES ASSUME Init PROVE IInv
  BY Zenon
<1>1. TableTypes
  BY Zenon, ProcAssumption DEF Init, TableTypes, States, Slot, Null, initproc
<1>2. LocalTypes
  BY ProcAssumption DEF Init, LocalTypes, Labels, Open, Slot, Null
<1>3. Executed /\ Suspended
  BY DEF Init, Executed, Suspended, Slot, Null
<1>4. WaitLocked /\ Leaving /\ Scanned
  BY DEF Init, WaitLocked, Leaving, Scanned, Exiting, Waiting, Slot, Null
<1>5. InitLives
  BY ProcAssumption DEF Init, InitLives, Exiting, Slot, initproc
<1>6. Forking
  BY Zenon DEF Init, Forking, Forks, Where
<1>7. Sleepers /\ Parented /\ NoLostWakeup
  BY Zenon DEF Init, Sleepers, Parented, NoLostWakeup, Slot, Null
<1>8. Pids
  BY DEF Init, Pids
<1>9. QED
  BY Zenon, <1>1, <1>2, <1>3, <1>4, <1>5, <1>6, <1>7, <1>8 DEF IInv

\* Every step of every CPU keeps the invariant.
LEMMA NextKeeps == IInv /\ [Next]_vars => IInv'
<1> SUFFICES ASSUME IInv, [Next]_vars PROVE IInv'
  BY Zenon
<1>1. CASE UNCHANGED vars
  <2>1. TableTypes' /\ LocalTypes' /\ Executed' /\ Suspended' /\ WaitLocked'
    BY <1>1 DEF vars, slots, locals, IInv, TableTypes, LocalTypes, Executed,
                Suspended, WaitLocked
  <2>2. InitLives' /\ Forking' /\ Leaving' /\ Scanned' /\ Sleepers'
    BY <1>1 DEF vars, slots, locals, IInv, InitLives, Forking, Forks, Where,
                Leaving, Scanned, Sleepers
  <2>3. Pids' /\ Parented' /\ NoLostWakeup'
    BY Zenon, <1>1 DEF vars, slots, IInv, Pids, Parented, NoLostWakeup
  <2>4. QED
    BY Zenon, <2>1, <2>2, <2>3 DEF IInv
<1>2. ASSUME NEW c \in CPU, NEW p \in Slot,
             Dispatch(c, p) \/ Yield(c, p) \/ Resume(c, p) \/ Swtch(c, p)
      PROVE  IInv'
  BY Zenon, <1>2, DispatchKeeps, YieldKeeps, ResumeKeeps, SwtchKeeps
<1>3. ASSUME NEW c \in CPU, NEW p \in Slot, KernelStep(c, p)
      PROVE  IInv'
  BY Zenon, <1>3, ForkParentKeeps, ForkRunKeeps, ExitLockKeeps, ReparentKeeps,
     WakeInitKeeps, WakeParentKeeps, ExitZombieKeeps, WaitLockKeeps,
     ScanSlotKeeps, WaitFoundKeeps, ScanEndKeeps, SleepKeeps DEF KernelStep
<1>4. ASSUME NEW c \in CPU, NEW p \in Slot, UserStep(c, p)
      PROVE  IInv'
  BY Zenon, <1>4, ForkAllocKeeps, ForkFailKeeps, ExitKeeps, WaitKeeps, KillKeeps
     DEF UserStep
<1>5. QED
  BY Zenon, <1>1, <1>2, <1>3, <1>4 DEF Next

\* The invariant holds in every state that the kernel reaches.
LEMMA Invariance == Spec => []IInv
  BY InitHolds, NextKeeps, PTL DEF Spec

\* Whatever the number of CPUs and of slots, a process is executed by one CPU
\* at a time, and sched is called with exactly p->lock held: its panics are
\* unreachable.
THEOREM ExecutedOnce == Spec => []OneCpu
<1>1. IInv => OneCpu
  <2> SUFFICES ASSUME IInv, NEW c \in CPU, NEW p \in Slot, cproc[c] = p
               PROVE  /\ \A d \in CPU : cproc[d] = p => d = c
                      /\ state[p] = "RUNNING" \/ lk[p] = c
                      /\ state[p] # "UNUSED"
                      /\ pc[p] = "sched" =>
                           /\ lk[p] = c /\ state[p] # "RUNNING"
                           /\ \A q \in Slot : q # p => lk[q] # c
                           /\ wait_lock # p
    BY Zenon DEF OneCpu, Runs
  <2>1. \A q \in Slot : q # p => lk[q] # c
    BY ProcAssumption DEF IInv, Suspended, TableTypes
  <2>2. pc[p] = "sched" => wait_lock # p
    BY Zenon DEF IInv, WaitLocked, Exiting, Waiting
  <2>3. QED
    BY <2>1, <2>2 DEF IInv, Executed
<1>2. QED
  BY <1>1, Invariance, PTL

\* exit and wait never lose a wakeup: no process sleeps in wait while a child
\* is a zombie, except init between the two steps of reparent.
THEOREM WakeupsKept == Spec => []NoLostWakeup
<1>1. IInv => NoLostWakeup
  BY Zenon DEF IInv
<1>2. QED
  BY <1>1, Invariance, PTL

\* Every process has a parent that can wait for it, and a pid of its own.
THEOREM ParentsLive == Spec => []NoOrphans
<1>1. IInv => NoOrphans
  BY Zenon DEF IInv, Parented, Pids, NoOrphans
<1>2. QED
  BY <1>1, Invariance, PTL
=============================================================================
