--------------------------- MODULE ProgramsProofs ----------------------------
(***************************************************************************)
(* sleep, ph, uthread and barrier, for any number of threads, processes,   *)
(* keys and rounds.  Each program has an inductive invariant of its own.   *)
(***************************************************************************)
EXTENDS UserPrograms, Sequences, TLAPS

-----------------------------------------------------------------------------
(* Processes that sleep *)

Counter == 0 .. TICKMOD - 1

\* The difference of two counters, as unsigned numbers.
Difference(t, t0) == IF t >= t0 THEN t - t0 ELSE t - t0 + TICKMOD

InCall == {"test", "sleep", "sched", "resume"}

\* The inductive invariant about time.
Elapsed ==
  /\ c_ticks \in Counter
  /\ c_n \in [Sleeper -> Int] /\ c_ticks0 \in [Sleeper -> Counter]
  /\ c_since \in [Sleeper -> Nat]
  /\ c_pc \in [Sleeper -> InCall \cup {"user", "gone"}]
  /\ \A p \in Sleeper : c_pc[p] \in InCall => Difference(c_ticks, c_ticks0[p]) <= c_since[p]

\* The arithmetic of unsigned numbers.
LEMMA Unsigned ==
  ASSUME TicksAssumption, NEW t \in Counter, NEW t0 \in Counter
  PROVE  /\ (t - t0) % TICKMOD = Difference(t, t0)
         /\ (t + 1) % TICKMOD = IF t + 1 = TICKMOD THEN 0 ELSE t + 1
<1>1. TICKMOD \in Nat \ {0}
  BY Zenon DEF TicksAssumption
<1>2. \A x \in Counter : x % TICKMOD = x
  BY <1>1 DEF Counter
<1>3. TICKMOD % TICKMOD = 0
  BY <1>1
<1>4. CASE t >= t0
  BY <1>1, <1>2, <1>3, <1>4 DEF Counter, Difference
<1>5. CASE t < t0
  <2> DEFINE x == t - t0
             q == x \div TICKMOD
             r == x % TICKMOD
  <2>1. x \in Int /\ - TICKMOD < x /\ x < 0
    BY <1>1, <1>5 DEF Counter
  <2>2. q \in Int /\ r \in 0 .. TICKMOD - 1 /\ x = TICKMOD * q + r
    <3> HIDE DEF x
    <3>1. QED BY <1>1, <2>1
  <2> HIDE DEF x, q, r
  <2>3. q < 0
    <3>1. q >= 0 => TICKMOD * q >= 0
      BY <1>1, <2>2
    <3>2. QED BY <1>1, <2>1, <2>2, <3>1
  <2>4. q > -2
    <3>1. q <= -2 => TICKMOD * q <= -2 * TICKMOD
      BY <1>1, <2>2
    <3>2. QED BY <1>1, <2>1, <2>2, <3>1
  <2>5. q = -1
    BY <2>2, <2>3, <2>4
  <2>6. r = x + TICKMOD
    BY <1>1, <2>1, <2>2, <2>5
  <2>7. QED BY <1>1, <1>2, <1>3, <1>5, <2>6 DEF Counter, Difference, x, r
<1>6. QED BY <1>1, <1>4, <1>5 DEF Counter

\* Nobody sleeps at first.
LEMMA InitElapsed == TicksAssumption /\ C!Init => Elapsed
BY DEF TicksAssumption, C!Init, Elapsed, Counter, InCall

\* A step that leaves the clock alone.
LEMMA ClockStands ==
  ASSUME Elapsed, c_ticks' = c_ticks, NEW p \in Sleeper,
         NEW l \in InCall \cup {"user", "gone"}, c_pc' = [c_pc EXCEPT ![p] = l],
         l \in InCall => c_pc[p] \in InCall, UNCHANGED <<c_n, c_ticks0, c_since>>
  PROVE  Elapsed'
BY Zenon DEF Elapsed, InCall

\* Every step keeps the counters' difference behind the time that passed.
LEMMA NextElapsed == TicksAssumption /\ Elapsed /\ [C!Next]_(C!vars) => Elapsed'
<1> SUFFICES ASSUME TicksAssumption, Elapsed, [C!Next]_(C!vars) PROVE Elapsed'
  BY Zenon
<1>1. CASE UNCHANGED <<c_ticks, c_n, c_ticks0, c_since, c_pc>>
  BY Zenon, <1>1 DEF Elapsed
<1>2. ASSUME NEW p \in Sleeper, C!SysSleep(p) PROVE Elapsed'
  <2>1. PICK m \in Int : c_n' = [c_n EXCEPT ![p] = m]
    BY Zenon, <1>2 DEF C!SysSleep, TicksAssumption
  <2>2. /\ c_ticks0' = [c_ticks0 EXCEPT ![p] = c_ticks] /\ c_since' = [c_since EXCEPT ![p] = 0]
        /\ c_pc' = [c_pc EXCEPT ![p] = "test"] /\ c_ticks' = c_ticks
    BY Zenon, <1>2 DEF C!SysSleep, C!Goto
  <2>3. QED BY <2>1, <2>2 DEF Elapsed, Difference, Counter, InCall
<1>3. ASSUME NEW p \in Sleeper, C!Test(p) PROVE Elapsed'
  <2>1. CASE C!Return(p, "user")
    <3>1. /\ c_n' = [c_n EXCEPT ![p] = 0] /\ c_ticks0' = [c_ticks0 EXCEPT ![p] = 0]
          /\ c_ticks' = c_ticks
          /\ c_since' = [c_since EXCEPT ![p] = 0] /\ c_pc' = [c_pc EXCEPT ![p] = "user"]
      BY Zenon, <1>3, <2>1 DEF C!Test, C!Return
    <3>2. 0 \in Counter
      BY DEF TicksAssumption, Counter
    <3>3. QED BY <3>1, <3>2 DEF Elapsed, InCall
  <2>2. CASE C!Goto(p, "sleep") /\ UNCHANGED <<c_tickslock, c_n, c_ticks0, c_since>>
    BY Zenon, <1>3, <2>2, ClockStands DEF C!Test, C!At, C!Goto, InCall
  <2>3. QED BY Zenon, <1>3, <2>1, <2>2 DEF C!Test
<1>4. ASSUME NEW p \in Sleeper, C!Sleep(p) PROVE Elapsed'
  BY Zenon, <1>4, ClockStands DEF C!Sleep, C!At, C!Goto, InCall
<1>5. ASSUME NEW p \in Sleeper, C!Sched(p) PROVE Elapsed'
  BY Zenon, <1>5, ClockStands DEF C!Sched, C!Goto, InCall
<1>6. ASSUME NEW p \in Sleeper, C!Reacquire(p) PROVE Elapsed'
  BY Zenon, <1>6, ClockStands DEF C!Reacquire, C!At, C!Goto, InCall
<1>7. ASSUME NEW p \in Sleeper, C!Exit(p) PROVE Elapsed'
  BY Zenon, <1>7, ClockStands DEF C!Exit, C!Goto, InCall
<1>8. CASE C!Tick
  <2>1. /\ c_ticks' = (c_ticks + 1) % TICKMOD /\ UNCHANGED <<c_pc, c_n, c_ticks0>>
        /\ c_since' = [p \in Sleeper |-> IF c_pc[p] \in {"user",
           "gone"} THEN 0 ELSE c_since[p] + 1]
    BY Zenon, <1>8 DEF C!Tick
  <2>2. c_ticks' = IF c_ticks + 1 = TICKMOD THEN 0 ELSE c_ticks + 1
    BY Zenon, <2>1, Unsigned DEF Elapsed
  <2>3. c_ticks' \in Counter
    BY <2>2 DEF Elapsed, Counter, TicksAssumption
  <2>4. ASSUME NEW p \in Sleeper, c_pc[p] \in InCall
        PROVE  Difference(c_ticks', c_ticks0[p]) <= c_since[p] + 1
    BY <2>2, <2>4 DEF Elapsed, Difference, Counter, TicksAssumption
  <2>5. QED BY <2>1, <2>3, <2>4 DEF Elapsed, InCall
<1>9. QED
  BY Zenon, <1>1, <1>2, <1>3, <1>4, <1>5, <1>6, <1>7, <1>8
    DEF C!Next, C!Kernel, C!Dispatch, C!Kill, C!Wakeup, C!TickEnd, C!vars

\* sleep(n) of a process that is not killed lasts at least n ticks, whatever n
\* is, and also when the counter wraps meanwhile.
LEMMA SleepsLong ==
  ASSUME TicksAssumption
  PROVE  C!Spec => C!NeverEarly
<1> DEFINE Long == \A p \in Sleeper : c_pc[p] = "test" /\ c_pc'[p] = "user" /\ ~c_killed[p]
                                      => c_since[p] >= (c_n[p] % TICKMOD)
<1>1. ASSUME Elapsed, C!Next PROVE Long
  <2> SUFFICES ASSUME NEW p \in Sleeper, c_pc[p] = "test", c_pc'[p] = "user", ~c_killed[p]
               PROVE  c_since[p] >= (c_n[p] % TICKMOD)
    BY Zenon
  <2>1. \A q \in Sleeper, l \in InCall \cup {"gone"} : ~ (c_pc' = [c_pc EXCEPT ![q] = l])
    BY Zenon, <1>1 DEF Elapsed, InCall
  <2>2. C!Test(p)
    <3>1. ASSUME NEW q \in Sleeper, C!Test(q) PROVE q = p
      <4>1. CASE c_pc' = [c_pc EXCEPT ![q] = "user"]
        BY Zenon, <1>1, <4>1 DEF Elapsed
      <4>2. QED BY Zenon, <2>1, <3>1, <4>1 DEF C!Test, C!Return, C!Goto, InCall
    <3>2. ~ (UNCHANGED c_pc)
      BY Zenon, <1>1 DEF Elapsed
    <3>3. QED
      BY Zenon, <1>1, <2>1, <3>1, <3>2
        DEF C!Next, C!Kernel, C!SysSleep, C!Sleep, C!Sched, C!Dispatch, C!Reacquire, C!Exit,
              C!Kill, C!Wakeup,
            C!Tick, C!TickEnd, C!Goto, InCall
  <2>3. ~ C!Early(p)
    BY Zenon, <1>1, <2>1, <2>2 DEF C!Test, C!Goto, InCall
  <2>4. (c_ticks - c_ticks0[p]) % TICKMOD = Difference(c_ticks, c_ticks0[p])
    BY Zenon, <1>1, Unsigned DEF Elapsed
  <2>5. Difference(c_ticks, c_ticks0[p]) <= c_since[p]
    BY Zenon, <1>1 DEF Elapsed, InCall
  <2>6. /\ c_n[p] % TICKMOD \in Int /\ c_since[p] \in Int
        /\ Difference(c_ticks, c_ticks0[p]) \in Int
    BY <1>1 DEF Elapsed, Difference, Counter, TicksAssumption
  <2>7. QED BY <2>3, <2>4, <2>5, <2>6 DEF C!Early
<1>2. QED
  <2>1. Elapsed /\ [C!Next]_(C!vars) => [Long]_(C!vars)
    BY Zenon, <1>1
  <2>2. QED BY <2>1, InitElapsed, NextElapsed, PTL DEF C!Spec, C!NeverEarly

-----------------------------------------------------------------------------
\* What the locks protect: who tests the time or is about to sleep has tickslock,
\* so the time does not change until it sleeps; and while the clock interrupt has
\* tickslock, everyone who sleeps is still to be woken.
Guarded(p) ==
  /\ c_pc[p] \in {"test", "sleep"} => c_tickslock = p
  /\ c_pc[p] = "sleep" => C!Early(p)
  /\ c_state[p] = "SLEEPING" => c_pc[p] \in {"sched", "resume"}
  /\ c_state[p] = "SLEEPING" /\ c_tickslock # Clock => C!Early(p)
  /\ c_state[p] = "SLEEPING" /\ c_tickslock = Clock => p \in c_todo

\* The inductive invariant about the locks.
Locked ==
  /\ c_pc \in [Sleeper -> InCall \cup {"user", "gone"}]
  /\ c_state \in [Sleeper -> {"RUNNING", "RUNNABLE", "SLEEPING"}]
  /\ DOMAIN c_n = Sleeper /\ DOMAIN c_ticks0 = Sleeper
  /\ c_tickslock \in Sleeper \cup {Free, Clock}
  /\ \A p \in Sleeper : Guarded(p)

\* A step of process p that moves only p, while the clock stands.
LEMMA OthersGuarded ==
  ASSUME TicksAssumption, Locked, NEW p \in Sleeper, UNCHANGED <<c_ticks, c_todo>>,
         c_tickslock' # Clock, c_tickslock # Clock,
         c_tickslock' # c_tickslock => c_tickslock' = p \/ c_tickslock = p,
         \A q \in Sleeper : q # p => /\ c_pc'[q] = c_pc[q] /\ c_state'[q] = c_state[q]
                                    /\ c_n'[q] = c_n[q] /\ c_ticks0'[q] = c_ticks0[q],
         c_tickslock' = p => c_tickslock \in {p, Free}
  PROVE  \A q \in Sleeper : q # p => Guarded(q)'
<1> TAKE q \in Sleeper
<1> HAVE q # p
<1>1. C!Early(q)' <=> C!Early(q)
  BY Zenon DEF C!Early
<1>2. Guarded(q)
  BY Zenon DEF Locked
<1>3. QED BY Zenon, <1>1, <1>2 DEF Guarded, TicksAssumption

\* Nobody holds a lock at first.
LEMMA InitLocked == TicksAssumption /\ C!Init => Locked
BY DEF TicksAssumption, C!Init, Locked, Guarded, InCall

\* Every step respects the locks.
LEMMA NextLocked == TicksAssumption /\ Locked /\ [C!Next]_(C!vars) => Locked'
<1> SUFFICES ASSUME TicksAssumption, Locked, [C!Next]_(C!vars) PROVE Locked'
  BY Zenon
<1>1. CASE UNCHANGED C!vars
  BY Zenon, <1>1 DEF Locked, Guarded, C!Early, C!vars
<1>2. ASSUME NEW p \in Sleeper, C!SysSleep(p) PROVE Locked'
  <2>1. /\ c_pc[p] = "user" /\ c_state[p] = "RUNNING" /\ c_tickslock = Free /\ c_tickslock' = p
        /\ c_pc' = [c_pc EXCEPT ![p] = "test"] /\ c_ticks0' = [c_ticks0 EXCEPT ![p] = c_ticks]
        /\ UNCHANGED <<c_ticks, c_todo, c_state>>
    BY Zenon, <1>2 DEF C!SysSleep, C!At, C!Goto
  <2>2. PICK m : c_n' = [c_n EXCEPT ![p] = m]
    BY Zenon, <1>2 DEF C!SysSleep
  <2>3. \A q \in Sleeper : q # p => Guarded(q)'
    BY Zenon, <2>1, <2>2, OthersGuarded DEF Locked, TicksAssumption
  <2>4. Guarded(p)'
    BY Zenon, <2>1 DEF Guarded, Locked
  <2>5. QED BY Zenon, <2>1, <2>2, <2>3, <2>4 DEF Locked, InCall
<1>3. ASSUME NEW p \in Sleeper, C!Test(p) PROVE Locked'
  <2>1. c_pc[p] = "test" /\ c_state[p] = "RUNNING" /\ c_tickslock = p /\
          UNCHANGED <<c_ticks, c_todo, c_state>>
    BY Zenon, <1>3 DEF C!Test, C!At, Locked, Guarded
  <2>2. CASE C!Return(p, "user")
    <3>1. /\ c_n' = [c_n EXCEPT ![p] = 0] /\ c_ticks0' = [c_ticks0 EXCEPT ![p] = 0]
          /\ c_tickslock' = Free /\ c_pc' = [c_pc EXCEPT ![p] = "user"]
      BY Zenon, <2>2 DEF C!Return
    <3>2. \A q \in Sleeper : q # p => Guarded(q)'
      BY Zenon, <2>1, <3>1, OthersGuarded DEF Locked, TicksAssumption
    <3>3. Guarded(p)'
      BY Zenon, <2>1, <3>1 DEF Guarded, Locked
    <3>4. QED BY Zenon, <2>1, <3>1, <3>2, <3>3 DEF Locked, InCall
  <2>3. CASE C!Early(p) /\ C!Goto(p, "sleep") /\ UNCHANGED <<c_tickslock, c_n, c_ticks0, c_since>>
    <3>1. \A q \in Sleeper : q # p => Guarded(q)'
      BY Zenon, <2>1, <2>3, OthersGuarded DEF Locked, TicksAssumption, C!Goto
    <3>2. Guarded(p)'
      BY Zenon, <2>1, <2>3 DEF Guarded, Locked, C!Goto, C!Early
    <3>3. QED BY Zenon, <2>1, <2>3, <3>1, <3>2 DEF Locked, InCall, C!Goto
  <2>4. QED BY Zenon, <1>3, <2>2, <2>3 DEF C!Test
<1>4. ASSUME NEW p \in Sleeper, C!Sleep(p) PROVE Locked'
  <2>1. /\ c_pc[p] = "sleep" /\ c_tickslock = p /\ C!Early(p)
        /\ c_tickslock' = Free /\ c_state' = [c_state EXCEPT ![p] = "SLEEPING"]
        /\ c_pc' = [c_pc EXCEPT ![p] = "sched"] /\ UNCHANGED <<c_ticks, c_todo, c_n, c_ticks0>>
    BY Zenon, <1>4 DEF C!Sleep, C!At, C!Goto, Locked, Guarded
  <2>2. \A q \in Sleeper : q # p => Guarded(q)'
    BY Zenon, <2>1, OthersGuarded DEF Locked, TicksAssumption
  <2>3. Guarded(p)'
    BY Zenon, <2>1 DEF Guarded, Locked, C!Early, TicksAssumption
  <2>4. QED BY Zenon, <2>1, <2>2, <2>3 DEF Locked, InCall
<1>5. ASSUME NEW p \in Sleeper, C!Sched(p) PROVE Locked'
  BY Zenon, <1>5 DEF C!Sched, C!Goto, Locked, Guarded, C!Early, InCall
<1>6. ASSUME NEW p \in Sleeper, C!Dispatch(p) PROVE Locked'
  BY Zenon, <1>6 DEF C!Dispatch, Locked, Guarded, C!Early, InCall
<1>7. ASSUME NEW p \in Sleeper, C!Reacquire(p) PROVE Locked'
  <2>1. /\ c_pc[p] = "resume" /\ c_state[p] = "RUNNING" /\ c_tickslock = Free /\ c_tickslock' = p
        /\ c_pc' = [c_pc EXCEPT ![p] = "test"]
        /\ UNCHANGED <<c_ticks, c_todo, c_state, c_n, c_ticks0>>
    BY Zenon, <1>7 DEF C!Reacquire, C!At, C!Goto
  <2>2. \A q \in Sleeper : q # p => Guarded(q)'
    BY Zenon, <2>1, OthersGuarded DEF Locked, TicksAssumption
  <2>3. Guarded(p)'
    BY Zenon, <2>1 DEF Guarded, Locked
  <2>4. QED BY Zenon, <2>1, <2>2, <2>3 DEF Locked, InCall
<1>8. ASSUME NEW p \in Sleeper, C!Exit(p) PROVE Locked'
  BY Zenon, <1>8 DEF C!Exit, C!At, C!Goto, Locked, Guarded, C!Early, InCall
<1>9. ASSUME NEW p \in Sleeper, C!Kill(p) \/ C!Wakeup(p) PROVE Locked'
  <2>1. /\ c_state' = [c_state EXCEPT ![p] = IF @ = "SLEEPING" THEN "RUNNABLE" ELSE @]
        /\ c_todo' = c_todo \/ c_todo' = c_todo \ {p}
        /\ UNCHANGED <<c_ticks, c_tickslock, c_pc, c_n, c_ticks0>>
    BY Zenon, <1>9 DEF C!Kill, C!Wakeup, C!Wake
  <2>2. QED BY Zenon, <2>1 DEF Locked, Guarded, C!Early
<1>10. CASE C!Tick
  <2>1. /\ c_tickslock = Free /\ c_tickslock' = Clock /\ c_todo' = Sleeper
        /\ UNCHANGED <<c_state, c_pc, c_n, c_ticks0>>
    BY Zenon, <1>10 DEF C!Tick
  <2>2. QED BY Zenon, <2>1 DEF Locked, Guarded, TicksAssumption
<1>11. CASE C!TickEnd
  <2>1. /\ c_tickslock = Clock /\ c_todo = {} /\ c_tickslock' = Free
        /\ UNCHANGED <<c_ticks, c_todo, c_state, c_pc, c_n, c_ticks0>>
    BY Zenon, <1>11 DEF C!TickEnd
  <2>2. QED BY Zenon, <2>1 DEF Locked, Guarded, TicksAssumption
<1>12. QED
  BY Zenon, <1>1, <1>2, <1>3, <1>4, <1>5, <1>6, <1>7, <1>8, <1>9, <1>10, <1>11 DEF C!Next, C!Kernel

\* wakeup(&ticks) loses nobody: whenever the clock interrupt does not have
\* tickslock, the time of everyone who sleeps is still to come.
LEMMA NobodyOversleeps ==
  ASSUME TicksAssumption
  PROVE  C!Spec => []C!NoneLate
<1>1. Locked => C!NoneLate
  BY Zenon DEF Locked, Guarded, C!NoneLate
<1>2. QED BY <1>1, InitLocked, NextLocked, PTL DEF C!Spec
\* Both: sleep does not return before its time, and no wakeup of the clock
\* interrupt is lost.
THEOREM SleepsInTime == C!Spec => NeverEarly
<1>1. TicksAssumption
  BY Zenon, UserProgramsAssumption
<1>2. QED BY <1>1, SleepsLong, NobodyOversleeps, PTL DEF NeverEarly
-----------------------------------------------------------------------------
(* ph *)

\* A key is in the list of its bucket.
Present(key) == \E x \in P!InList(key % NBUCKET) : p_entry[x].key = key

\* A list has the keys of its bucket only, each once.
Proper(k) ==
  \A x \in P!InList(k) :
    /\ p_entry[x].key % NBUCKET = k
    /\ \A y \in P!InList(k) : p_entry[x].key = p_entry[y].key => x = y

\* A thread that walks has what it looks for ahead of it, if it is in the list.
Ahead(t) ==
  /\ p_e[t] \in P!InList(P!Lock(t)) \cup {P!Null}
  /\ \A x \in P!InList(P!Lock(t)) : p_entry[x].key = P!Key(t) => x \in P!List(p_entry, p_e[t])

\* The entry that insert is about to link is a new head of the list.
NewHead(t) ==
  /\ p_phase = "put" /\ p_e[t] \in DOMAIN p_entry
  /\ p_entry[p_e[t]].key = P!Key(t) /\ p_entry[p_e[t]].next = p_table[P!Lock(t)]
  /\ ~ Present(P!Key(t))

Position(t) ==
  /\ p_i[t] \in 0 .. P!Loops
  /\ p_pc[t] = "done" => p_i[t] = P!Loops
  /\ p_pc[t] \in {"walk", "insert", "unlock"} => p_i[t] < P!Loops /\ p_locks[P!Lock(t)] = t
  /\ p_pc[t] = "walk" => Ahead(t)
  /\ p_pc[t] = "insert" => NewHead(t)
  /\ p_pc[t] = "unlock" => Present(P!Key(t))
  /\ p_phase = "put" => \A n \in 0 .. p_i[t] - 1 : Present(p_keys[P!b * t + n])

\* The inductive invariant.
PhInv ==
  /\ P!TypeOK
  /\ \A k \in P!Bucket : Proper(k)
  /\ \A t \in P!Worker : Position(t)
  /\ p_phase = "get" => \A n \in P!Index : Present(p_keys[n])
  /\ P!NoneMissing

\* An entry, and pointers that lead to entries.
Linked(ent) == \A x \in DOMAIN ent : ent[x].next \in DOMAIN ent \cup {P!Null}

\* The empty list.
LEMMA ListNull ==
  ASSUME NEW ent PROVE P!List(ent, P!Null) = {}
<1>1. {} \in SUBSET DOMAIN ent /\ P!Closed(ent, {}) /\ P!Null \in {} \cup {P!Null}
  BY Zenon DEF P!Closed
<1>2. QED BY Zenon, <1>1 DEF P!List

\* A list contains what its entries lead to.
LEMMA ListClosed ==
  ASSUME NEW ent, Linked(ent), NEW h, NEW x \in P!List(ent, h), ent[x].next # P!Null
  PROVE  ent[x].next \in P!List(ent, h)
<1>1. x \in DOMAIN ent /\ ent[x].next \in DOMAIN ent
  BY Zenon DEF P!List, Linked
<1>2. ASSUME NEW S \in SUBSET DOMAIN ent, h \in S \cup {P!Null}, P!Closed(ent, S)
      PROVE  ent[x].next \in S
  <2>1. x \in S
    BY Zenon, <1>2 DEF P!List
  <2>2. QED BY Zenon, <1>2, <2>1 DEF P!Closed
<1>3. QED BY Zenon, <1>1, <1>2 DEF P!List

\* The list that starts at an entry is that entry and the list after it.
LEMMA ListStep ==
  ASSUME NEW ent, Linked(ent), NEW h \in DOMAIN ent, h # P!Null
  PROVE  P!List(ent, h) = {h} \cup P!List(ent, ent[h].next)
<1> DEFINE next == ent[h].next
<1>1. next \in DOMAIN ent \cup {P!Null}
  BY Zenon DEF Linked
<1>2. h \in P!List(ent, h)
  BY Zenon DEF P!List
<1>3. ASSUME NEW x \in P!List(ent, next) PROVE x \in P!List(ent, h)
  <2>1. SUFFICES ASSUME NEW S \in SUBSET DOMAIN ent, h \in S \cup {P!Null}, P!Closed(ent, S)
                 PROVE  x \in S
    BY Zenon, <1>3 DEF P!List
  <2>2. next \in S \cup {P!Null}
    BY Zenon, <2>1 DEF P!Closed
  <2>3. QED BY Zenon, <1>3, <2>1, <2>2 DEF P!List
<1>4. ASSUME NEW x \in P!List(ent, h), x # h PROVE x \in P!List(ent, next)
  <2>1. SUFFICES ASSUME NEW S \in SUBSET DOMAIN ent, next \in S \cup {P!Null}, P!Closed(ent, S)
                 PROVE  x \in S
    BY Zenon, <1>4 DEF P!List
  <2>2. S \cup {h} \in SUBSET DOMAIN ent /\ h \in (S \cup {h}) \cup {P!Null}
    BY Zenon, <2>1
  <2>3. P!Closed(ent, S \cup {h})
    BY Zenon, <2>1 DEF P!Closed
  <2>4. x \in S \cup {h}
    BY Zenon, <1>4, <2>2, <2>3 DEF P!List
  <2>5. QED BY Zenon, <1>4, <2>4
<1>5. QED BY Zenon, <1>2, <1>3, <1>4

\* New entries and new values leave the lists as they are.
LEMMA ListSame ==
  ASSUME NEW ent, NEW ent2, Linked(ent), DOMAIN ent \subseteq DOMAIN ent2,
         \A x \in DOMAIN ent : ent2[x].next = ent[x].next,
         NEW h \in DOMAIN ent \cup {P!Null}
  PROVE  P!List(ent2, h) = P!List(ent, h)
<1>1. ASSUME NEW x \in P!List(ent2, h) PROVE x \in P!List(ent, h)
  <2>1. ASSUME NEW S \in SUBSET DOMAIN ent, h \in S \cup {P!Null}, P!Closed(ent, S) PROVE x \in S
    <3>1. S \in SUBSET DOMAIN ent2 /\ P!Closed(ent2, S)
      BY Zenon, <2>1 DEF P!Closed
    <3>2. QED BY Zenon, <1>1, <2>1, <3>1 DEF P!List
  <2>2. P!Closed(ent, DOMAIN ent)
    BY Zenon DEF P!Closed, Linked
  <2>3. x \in DOMAIN ent
    BY Zenon, <2>1, <2>2
  <2>4. QED BY Zenon, <2>1, <2>3 DEF P!List
<1>2. ASSUME NEW x \in P!List(ent, h) PROVE x \in P!List(ent2, h)
  <2>1. SUFFICES ASSUME NEW S \in SUBSET DOMAIN ent2, h \in S \cup {P!Null}, P!Closed(ent2, S)
                 PROVE  x \in S
    BY Zenon, <1>2 DEF P!List
  <2> DEFINE R == S \cap DOMAIN ent
  <2>2. R \in SUBSET DOMAIN ent /\ h \in R \cup {P!Null}
    BY Zenon, <2>1
  <2>3. P!Closed(ent, R)
    BY Zenon, <2>1 DEF P!Closed, Linked
  <2>4. x \in R
    BY Zenon, <1>2, <2>2, <2>3 DEF P!List
  <2>5. QED BY Zenon, <2>4
<1>3. QED BY Zenon, <1>1, <1>2

\* Threads put different keys, ...
LEMMA Slice ==
  ASSUME PhAssumption, NEW t \in P!Worker, NEW n \in 0 .. P!b - 1
  PROVE  P!b * t + n \in P!Index
<1>1. P!b \in Nat /\ NKEYS = PutThreads * P!b /\ PutThreads \in Nat /\ t \in Nat /\
        t + 1 <= PutThreads
  BY DEF PhAssumption, P!b, P!Worker
<1>2. P!b * (t + 1) <= P!b * PutThreads
  BY <1>1
<1>3. P!b * (t + 1) = P!b * t + P!b /\ P!b * PutThreads = NKEYS /\ P!b * t \in Nat
  BY <1>1
<1>4. QED BY <1>1, <1>2, <1>3 DEF P!Index

\* No thread has more keys than there are.
LEMMA QuotientBound == PhAssumption => P!b \in Nat /\ P!b <= NKEYS
<1> SUFFICES ASSUME PhAssumption PROVE P!b \in Nat /\ P!b <= NKEYS
  BY Zenon
<1>1. P!b \in Nat /\ NKEYS = PutThreads * P!b /\ PutThreads \in Nat \ {0}
  BY DEF PhAssumption, P!b
<1>2. 1 * P!b <= PutThreads * P!b
  BY <1>1
<1>3. QED BY <1>1, <1>2

\* ... and all keys.
LEMMA Slices ==
  ASSUME PhAssumption, NEW n \in P!Index
  PROVE  \E t \in P!Worker, m \in 0 .. P!b - 1 : n = P!b * t + m
<1>1. P!b \in Nat /\ NKEYS = PutThreads * P!b /\ PutThreads \in Nat /\ n \in Nat /\ n < NKEYS
  BY DEF PhAssumption, P!b, P!Index
<1>2. P!b # 0
  BY <1>1
<1> DEFINE q == n \div P!b
           m == n % P!b
<1>3. q \in Int /\ m \in 0 .. P!b - 1 /\ n = P!b * q + m
  BY <1>1, <1>2
<1> HIDE DEF q, m
<1>4. q >= 0
  <2>1. q < 0 => P!b * q <= - P!b
    BY <1>1, <1>2, <1>3
  <2>2. QED BY <1>1, <1>2, <1>3, <2>1
<1>5. q < PutThreads
  <2>1. q >= PutThreads => P!b * q >= P!b * PutThreads
    BY <1>1, <1>2, <1>3
  <2>2. P!b * PutThreads = NKEYS
    BY <1>1
  <2>3. QED BY <1>1, <1>3, <2>1, <2>2
<1>6. q \in P!Worker
  BY <1>1, <1>3, <1>4, <1>5 DEF P!Worker
<1>7. QED BY Zenon, <1>3, <1>6

\* A sequence with another element in one place.
LEMMA SeqExcept ==
  ASSUME NEW R, NEW s \in Seq(R), NEW x \in DOMAIN s, NEW v \in R
  PROVE  /\ [s EXCEPT ![x] = v] \in Seq(R) /\ DOMAIN [s EXCEPT ![x] = v] = DOMAIN s
         /\ \A y \in DOMAIN s : [s EXCEPT ![x] = v][y] = IF y = x THEN v ELSE s[y]
OBVIOUS

\* A sequence of elements of a set is one of elements of a larger set.
LEMMA SeqWider == ASSUME NEW R, NEW Q, R \subseteq Q, NEW s \in Seq(R) PROVE s \in Seq(Q)
OBVIOUS

\* Every key has a bucket.
LEMMA Hashed == ASSUME PhAssumption, NEW key \in KeyValues PROVE key % NBUCKET \in P!Bucket
BY DEF P!Bucket, PhAssumption

\* The key of a thread that has one.
LEMMA KeyType ==
  ASSUME PhAssumption, P!TypeOK, NEW t \in P!Worker, p_i[t] \in 0 .. P!Loops, p_i[t] < P!Loops
  PROVE  P!Key(t) \in KeyValues /\ P!Lock(t) \in P!Bucket
<1>1. CASE p_phase = "put"
  <2>1. p_i[t] \in 0 .. P!b - 1
    BY <1>1 DEF P!Loops, P!b, PhAssumption
  <2>2. P!b * t + p_i[t] \in P!Index
    BY Zenon, <2>1, Slice
  <2>3. P!Key(t) \in KeyValues
    BY Zenon, <1>1, <2>2 DEF P!Key, P!TypeOK
  <2>4. QED BY Zenon, <2>3, Hashed DEF P!Lock
<1>2. CASE p_phase # "put"
  <2>1. p_i[t] \in P!Index
    BY <1>2 DEF P!Loops, P!Index, PhAssumption
  <2>2. P!Key(t) \in KeyValues
    BY Zenon, <1>2, <2>1 DEF P!Key, P!TypeOK
  <2>3. QED BY Zenon, <2>2, Hashed DEF P!Lock
<1>3. QED BY Zenon, <1>1, <1>2

\* Pointers lead to entries.
LEMMA TypeLinked ==
  P!TypeOK => /\ Linked(p_entry)
            /\ DOMAIN p_entry = 1 .. Len(p_entry) /\ Len(p_entry) \in Nat
            /\ P!Null \notin DOMAIN p_entry
<1> SUFFICES ASSUME P!TypeOK
             PROVE  /\ Linked(p_entry)
                    /\ DOMAIN p_entry = 1 .. Len(p_entry) /\ Len(p_entry) \in Nat
                    /\ P!Null \notin DOMAIN p_entry
  BY Zenon
<1> DEFINE Entry == [key : KeyValues, value : P!Worker, next : DOMAIN p_entry \cup {P!Null}]
<1>1. p_entry \in Seq(Entry)
  BY Zenon DEF P!TypeOK
<1>2. DOMAIN p_entry = 1 .. Len(p_entry) /\ Len(p_entry) \in Nat
  BY <1>1
<1>3. \A x \in DOMAIN p_entry : p_entry[x] \in Entry
  <2> HIDE DEF Entry
  <2>1. QED BY <1>1, <1>2
<1>4. \A x \in DOMAIN p_entry : p_entry[x].next \in DOMAIN p_entry \cup {P!Null}
  BY Zenon, <1>3
<1>5. QED BY <1>2, <1>4 DEF Linked, P!Null

\* Lists only grow, and no key or pointer changes.
Grown ==
  /\ UNCHANGED <<p_keys, p_phase>> /\ DOMAIN p_entry \subseteq DOMAIN p_entry'
  /\ \A x \in DOMAIN p_entry : p_entry'[x].key = p_entry[x].key /\
     p_entry'[x].next = p_entry[x].next
  /\ \A k \in P!Bucket : P!InList(k) \subseteq P!InList(k)'

\* A step of another thread does not touch u or the list that u has locked.
Same(u) ==
  /\ p_i'[u] = p_i[u] /\ p_pc'[u] = p_pc[u] /\ p_e'[u] = p_e[u]
  /\ p_pc[u] \in {"walk", "insert", "unlock"} =>
       p_locks'[P!Lock(u)] = p_locks[P!Lock(u)] /\ p_table'[P!Lock(u)] = p_table[P!Lock(u)]

\* A key that is there stays there.
LEMMA PresentStays ==
  ASSUME PhAssumption, Grown, NEW key \in KeyValues, Present(key)
  PROVE  Present(key)'
<1>1. key % NBUCKET \in P!Bucket
  BY DEF PhAssumption, P!Bucket
<1>2. PICK x \in P!InList(key % NBUCKET) : p_entry[x].key = key
  BY Zenon DEF Present
<1>3. x \in DOMAIN p_entry
  BY Zenon DEF P!InList, P!List
<1>4. x \in P!InList(key % NBUCKET)' /\ p_entry'[x].key = key
  BY Zenon, <1>1, <1>2, <1>3 DEF Grown
<1>5. QED BY Zenon, <1>4 DEF Present

\* The keys that a thread has put stay.
LEMMA DoneStays ==
  ASSUME PhAssumption, P!TypeOK, Grown, NEW t \in P!Worker, Position(t)
  PROVE  p_phase = "put" => \A n \in 0 .. p_i[t] - 1 : Present(p_keys[P!b * t + n])'
<1> SUFFICES ASSUME p_phase = "put", NEW n \in 0 .. p_i[t] - 1 PROVE Present(p_keys[P!b * t + n])'
  BY Zenon
<1>1. n \in 0 .. P!b - 1
  BY DEF Position, P!Loops, P!b, PhAssumption
<1>2. p_keys[P!b * t + n] \in KeyValues
  BY Zenon, <1>1, Slice DEF P!TypeOK
<1>3. PICK key \in KeyValues : key = p_keys[P!b * t + n]
  BY Zenon, <1>2
<1>4. Present(key) /\ p_keys' = p_keys
  BY Zenon, <1>3 DEF Position, Grown
<1>5. Present(key)'
  BY Zenon, <1>4, PresentStays
<1>6. QED BY Zenon, <1>3, <1>4, <1>5

\* A step of another thread keeps a thread in its place.
LEMMA PositionStays ==
  ASSUME PhAssumption, P!TypeOK, Grown, NEW u \in P!Worker, Position(u), Same(u)
  PROVE  Position(u)'
<1>1. P!Key(u)' = P!Key(u) /\ P!Lock(u)' = P!Lock(u) /\ P!Loops' = P!Loops
  BY Zenon DEF Grown, Same, P!Key, P!Lock, P!Loops
<1>2. p_phase' = "put" => \A n \in 0 .. p_i'[u] - 1 : Present(p_keys[P!b * u + n])'
  BY Zenon, DoneStays DEF Grown, Same
<1>3. CASE p_pc[u] \in {"walk", "insert", "unlock"}
  <2>1. p_i[u] \in 0 .. P!Loops /\ p_i[u] < P!Loops /\ p_locks[P!Lock(u)] = u
    BY Zenon, <1>3 DEF Position
  <2>2. P!Key(u) \in KeyValues /\ P!Lock(u) \in P!Bucket
    BY Zenon, <2>1, KeyType
  <2>3. PICK key \in KeyValues, k \in P!Bucket : key = P!Key(u) /\ k = P!Lock(u)
    BY Zenon, <2>2
  <2>4. p_table'[k] = p_table[k] /\ p_table[k] \in DOMAIN p_entry \cup {P!Null}
    BY Zenon, <1>3, <2>3 DEF Same, P!TypeOK
  <2>5. P!InList(k)' = P!InList(k)
    BY <2>4, TypeLinked, ListSame DEF Grown, P!InList
  <2>6. \A x \in P!InList(k) : x \in DOMAIN p_entry /\ p_entry'[x].key = p_entry[x].key
    BY Zenon DEF P!InList, P!List, Grown
  <2>7. Present(key)' <=> Present(key)
    BY Zenon, <2>3, <2>5, <2>6 DEF Present, P!Lock
  <2>8. ASSUME p_pc[u] = "walk" PROVE Ahead(u)'
    <3>1. p_e[u] \in P!InList(k) \cup {P!Null} /\ p_e'[u] = p_e[u]
      BY Zenon, <2>3, <2>8 DEF Position, Ahead, Same
    <3>2. P!List(p_entry', p_e[u]) = P!List(p_entry, p_e[u])
      BY <2>6, <3>1, TypeLinked, ListSame DEF Grown
    <3>3. \A x \in P!InList(k) : p_entry[x].key = key => x \in P!List(p_entry, p_e[u])
      BY Zenon, <2>3, <2>8 DEF Position, Ahead
    <3>4. QED BY Zenon, <1>1, <2>3, <2>5, <2>6, <3>1, <3>2, <3>3 DEF Ahead
  <2>9. ASSUME p_pc[u] = "insert" PROVE NewHead(u)'
    BY <1>1, <2>3, <2>4, <2>7, <2>9 DEF Position, NewHead, Same, Grown
  <2>10. ASSUME p_pc[u] = "unlock" PROVE Present(P!Key(u))'
    BY Zenon, <1>1, <2>3, <2>7, <2>10 DEF Position
  <2>11. QED BY Zenon, <1>1, <1>2, <1>3, <2>1, <2>8, <2>9, <2>10 DEF Position, Same
<1>4. CASE p_pc[u] \notin {"walk", "insert", "unlock"}
  BY Zenon, <1>1, <1>2, <1>4 DEF Position, Same
<1>5. QED BY Zenon, <1>3, <1>4

\* At first all lists are empty.
LEMMA InitPh == PhAssumption /\ P!Init => PhInv
<1> SUFFICES ASSUME PhAssumption, P!Init PROVE PhInv
  BY Zenon
<1>1. P!b \in Nat /\ NKEYS \in Nat /\ P!Loops = P!b
  BY DEF PhAssumption, P!b, P!Init, P!Loops
<1>2. P!TypeOK
  BY <1>1 DEF P!Init, P!TypeOK
<1>3. \A k \in P!Bucket : P!InList(k) = {}
  BY Zenon, ListNull DEF P!Init, P!InList
<1>4. \A t \in P!Worker : Position(t)
  BY <1>1 DEF P!Init, Position
<1>5. QED BY Zenon, <1>2, <1>3, <1>4 DEF PhInv, P!Init, Proper, P!NoneMissing

\* A step of thread t: its own place, and what it does to shared state.
StepOf(t) ==
  /\ Grown /\ P!TypeOK' /\ Position(t)'
  /\ \A u \in P!Worker \ {t} : Same(u)
  /\ \A k \in P!Bucket : Proper(k)'
  /\ P!NoneMissing'

\* What every step of a thread keeps.
LEMMA StepKeeps ==
  ASSUME PhAssumption, PhInv, NEW t \in P!Worker, StepOf(t)
  PROVE  PhInv'
<1>1. \A u \in P!Worker : Position(u)'
  <2> SUFFICES ASSUME NEW u \in P!Worker PROVE Position(u)'
    BY Zenon
  <2>1. CASE u = t
    BY Zenon, <2>1 DEF StepOf
  <2>2. CASE u # t
    BY Zenon, <2>2, PositionStays DEF StepOf, PhInv
  <2>3. QED BY Zenon, <2>1, <2>2
<1>2. p_phase' = "get" => \A n \in P!Index : Present(p_keys[n])'
  <2> SUFFICES ASSUME p_phase = "get", NEW n \in P!Index PROVE Present(p_keys[n])'
    BY Zenon DEF StepOf, Grown
  <2>1. PICK key \in KeyValues : key = p_keys[n]
    BY Zenon DEF PhInv, P!TypeOK
  <2>2. Present(key) /\ p_keys' = p_keys
    BY Zenon, <2>1 DEF PhInv, StepOf, Grown
  <2>3. Present(key)'
    BY Zenon, <2>2, PresentStays DEF StepOf
  <2>4. QED BY Zenon, <2>1, <2>2, <2>3
<1>3. QED BY Zenon, <1>1, <1>2 DEF PhInv, StepOf

\* While t has the lock of a bucket, no other thread works on it.
LEMMA Alone ==
  ASSUME PhInv, NEW t \in P!Worker, NEW u \in P!Worker \ {t},
         p_pc[t] \in {"walk", "insert", "unlock"}, p_pc[u] \in {"walk", "insert", "unlock"}
  PROVE  P!Lock(u) # P!Lock(t)
BY Zenon DEF PhInv, Position

\* When the lists do not change.
LEMMA SameLists ==
  ASSUME PhInv, UNCHANGED <<p_keys, p_phase, p_entry, p_table>>
  PROVE  /\ Grown /\ \A k \in P!Bucket : Proper(k)' /\ P!InList(k)' = P!InList(k)
         /\ \A key : Present(key)' <=> Present(key)
<1>1. \A k : P!InList(k)' = P!InList(k)
  BY Zenon DEF P!InList
<1>2. QED BY Zenon, <1>1 DEF Grown, Proper, PhInv, Present

\* Every step keeps the lists and the threads in order.
LEMMA NextPh == PhAssumption /\ PhInv /\ [P!Next]_(P!vars) => PhInv'
<1> SUFFICES ASSUME PhAssumption, PhInv, [P!Next]_(P!vars) PROVE PhInv'
  BY Zenon
<1>0. /\ P!TypeOK /\ P!NoneMissing /\ \A t \in P!Worker : Position(t)
      /\ \A k \in P!Bucket : Proper(k)
  BY Zenon DEF PhInv
<1>Acquire. ASSUME NEW t \in P!Worker, P!Acquire(t) PROVE PhInv'
  <2>1. /\ p_pc[t] = "loop" /\ p_i[t] < P!Loops /\ p_locks[P!Lock(t)] = -1
        /\ p_locks' = [p_locks EXCEPT ![P!Lock(t)] = t]
        /\ p_e' = [p_e EXCEPT ![t] = p_table[P!Lock(t)]]
        /\ p_pc' = [p_pc EXCEPT ![t] = "walk"]
        /\ UNCHANGED <<p_keys, p_entry, p_table, p_phase, p_i, p_missing>>
    BY Zenon, <1>Acquire DEF P!Acquire
  <2>2. P!Key(t) \in KeyValues /\ P!Lock(t) \in P!Bucket
    BY Zenon, <1>0, <2>1, KeyType DEF Position
  <2>3. PICK k \in P!Bucket : k = P!Lock(t)
    BY Zenon, <2>2
  <2>4. /\ P!Key(t)' = P!Key(t) /\ P!Lock(t)' = k /\ P!Loops' = P!Loops /\ p_e'[t] = p_table[k]
        /\ p_locks'[k] = t /\ p_pc'[t] = "walk"
    BY Zenon, <1>0, <2>1, <2>3 DEF P!Key, P!Lock, P!Loops, P!TypeOK
  <2>5. p_table[k] \in P!InList(k) \cup {P!Null}
    BY <1>0, TypeLinked, ListStep DEF P!InList, P!TypeOK
  <2>6. Ahead(t)'
    BY Zenon, <2>1, <2>4, <2>5, <1>0, SameLists DEF Ahead, P!InList
  <2>7. Position(t)'
    <3>1. p_phase = "put" => \A n \in 0 .. p_i[t] - 1 : Present(p_keys[P!b * t + n])'
      BY Zenon, <1>0, <2>1, SameLists DEF Position
    <3>2. QED BY Zenon, <1>0, <2>1, <2>4, <2>6, <3>1 DEF Position
  <2>8. \A u \in P!Worker \ {t} : Same(u)
    <3> SUFFICES ASSUME NEW u \in P!Worker \ {t} PROVE Same(u)
      BY Zenon
    <3>1. p_pc[u] \in {"walk", "insert", "unlock"} => P!Lock(u) # P!Lock(t)
      BY <1>0, <2>1 DEF Position, P!Worker
    <3>2. QED BY <1>0, <2>1, <3>1 DEF Same, P!TypeOK
  <2>9. P!TypeOK'
    BY Zenon, <1>0, <2>1, <2>2 DEF P!TypeOK
  <2>10. StepOf(t)
    BY Zenon, <1>0, <2>1, <2>7, <2>8, <2>9, SameLists DEF StepOf, P!NoneMissing
  <2>11. QED BY Zenon, <2>10, StepKeeps
<1>Walk. ASSUME NEW t \in P!Worker, P!Walk(t) PROVE PhInv'
  <2>1. /\ p_pc[t] = "walk" /\ p_e[t] # P!Null /\ p_entry[p_e[t]].key # P!Key(t)
        /\ p_e' = [p_e EXCEPT ![t] = p_entry[p_e[t]].next]
        /\ UNCHANGED <<p_keys, p_entry, p_table, p_locks, p_phase, p_pc, p_i, p_missing>>
    BY Zenon, <1>Walk DEF P!Walk
  <2>2. p_i[t] < P!Loops /\ p_locks[P!Lock(t)] = t /\ Ahead(t) /\ p_i[t] \in 0 .. P!Loops
    BY Zenon, <1>0, <2>1 DEF Position
  <2>3. PICK k \in P!Bucket, key \in KeyValues : k = P!Lock(t) /\ key = P!Key(t)
    BY Zenon, <1>0, <2>2, KeyType
  <2>4. PICK x : x = p_e[t]
    BY Zenon
  <2>5. x \in DOMAIN p_entry /\ x \in P!InList(k) /\ x # P!Null
    BY Zenon, <2>1, <2>2, <2>3, <2>4 DEF Ahead, P!InList, P!List
  <2>6. PICK y \in DOMAIN p_entry \cup {P!Null} : y = p_entry[x].next
    BY Zenon, <1>0, <2>5, TypeLinked DEF Linked
  <2>7. y \in P!InList(k) \cup {P!Null}
    BY Zenon, <1>0, <2>5, <2>6, TypeLinked, ListClosed DEF P!InList
  <2>8. \A z \in P!InList(k) : p_entry[z].key = key => z \in P!List(p_entry, y)
    <3>1. P!List(p_entry, x) = {x} \cup P!List(p_entry, y)
      BY Zenon, <1>0, <2>5, <2>6, TypeLinked, ListStep
    <3>2. QED BY Zenon, <2>1, <2>2, <2>3, <2>4, <3>1 DEF Ahead
  <2>9. /\ P!Key(t)' = key /\ P!Lock(t)' = k /\ P!Loops' = P!Loops /\ p_e'[t] = y
    BY Zenon, <1>0, <2>1, <2>3, <2>4, <2>6 DEF P!Key, P!Lock, P!Loops, P!TypeOK
  <2>10. Ahead(t)'
    BY Zenon, <2>1, <2>3, <2>7, <2>8, <2>9, SameLists DEF Ahead, P!InList
  <2>11. Position(t)'
    <3>1. p_phase = "put" => \A n \in 0 .. p_i[t] - 1 : Present(p_keys[P!b * t + n])'
      BY Zenon, <1>0, <2>1, SameLists DEF Position
    <3>2. QED BY Zenon, <1>0, <2>1, <2>2, <2>3, <2>9, <2>10, <3>1 DEF Position
  <2>12. P!TypeOK'
    BY Zenon, <1>0, <2>1, <2>4, <2>6 DEF P!TypeOK
  <2>13. \A u \in P!Worker \ {t} : Same(u)
    BY Zenon, <1>0, <2>1 DEF Same, P!TypeOK
  <2>14. StepOf(t)
    BY Zenon, <1>0, <2>1, <2>11, <2>12, <2>13, SameLists DEF StepOf, P!NoneMissing
  <2>15. QED BY Zenon, <2>14, StepKeeps
<1>Return. ASSUME NEW t \in P!Worker, P!Return(t) PROVE PhInv'
  <2>1. /\ p_pc[t] = "loop" /\ p_i[t] = P!Loops /\ p_pc' = [p_pc EXCEPT ![t] = "done"]
        /\ UNCHANGED <<p_keys, p_entry, p_table, p_locks, p_phase, p_i, p_e, p_missing>>
    BY Zenon, <1>Return DEF P!Return
  <2>2. P!TypeOK'
    BY Zenon, <1>0, <2>1 DEF P!TypeOK
  <2>3. \A u \in P!Worker \ {t} : Same(u)
    BY Zenon, <1>0, <2>1 DEF Same, P!TypeOK
  <2>4. p_phase = "put" => \A n \in 0 .. p_i[t] - 1 : Present(p_keys[P!b * t + n])'
    BY Zenon, <1>0, <2>1, SameLists DEF Position
  <2>5. Position(t)'
    BY Zenon, <1>0, <2>1, <2>4 DEF Position, P!Loops, P!TypeOK
  <2>6. StepOf(t)
    BY Zenon, <1>0, <2>1, <2>2, <2>3, <2>5, SameLists DEF StepOf, P!NoneMissing
  <2>7. QED BY Zenon, <2>6, StepKeeps
<1>Found. ASSUME NEW t \in P!Worker, P!Found(t) PROVE PhInv'
  <2>1. /\ p_pc[t] = "walk" /\ p_e[t] # P!Null /\ p_entry[p_e[t]].key = P!Key(t)
        /\ p_entry' = IF p_phase = "put" THEN [p_entry EXCEPT ![p_e[t]].value = t] ELSE p_entry
        /\ p_pc' = [p_pc EXCEPT ![t] = "unlock"]
        /\ UNCHANGED <<p_keys, p_table, p_locks, p_phase, p_i, p_e, p_missing>>
    BY Zenon, <1>Found DEF P!Found
  <2>2. p_i[t] < P!Loops /\ p_locks[P!Lock(t)] = t /\ Ahead(t) /\ p_i[t] \in 0 .. P!Loops
    BY Zenon, <1>0, <2>1 DEF Position
  <2>3. PICK k \in P!Bucket, key \in KeyValues : k = P!Lock(t) /\ key = P!Key(t)
    BY Zenon, <1>0, <2>2, KeyType
  <2>4. PICK x : x = p_e[t]
    BY Zenon
  <2>5. x \in DOMAIN p_entry /\ x \in P!InList(k) /\ x # P!Null
    BY Zenon, <2>1, <2>2, <2>3, <2>4 DEF Ahead, P!InList, P!List
  <2>6. /\ DOMAIN p_entry' = DOMAIN p_entry /\ p_entry' \in Seq([key : KeyValues, value : P!Worker,
                                                           next : DOMAIN p_entry \cup {P!Null}])
        /\ \A y \in DOMAIN p_entry :
             p_entry'[y].key = p_entry[y].key /\ p_entry'[y].next = p_entry[y].next
    <3> DEFINE R == [key : KeyValues, value : P!Worker, next : DOMAIN p_entry \cup {P!Null}]
               v == [p_entry[x] EXCEPT !.value = t]
    <3>1. p_entry \in Seq(R)
      BY Zenon, <1>0 DEF P!TypeOK
    <3>2. p_entry[x] \in R
      <4> HIDE DEF R
      <4>1. QED BY <2>5, <3>1
    <3>3. v \in R /\ v.key = p_entry[x].key /\ v.next = p_entry[x].next
      BY Zenon, <3>2
    <3>4. p_entry' = p_entry \/ p_entry' = [p_entry EXCEPT ![x] = v]
      BY Zenon, <2>1, <2>4
    <3> HIDE DEF R, v
    <3>5. /\ [p_entry EXCEPT ![x] = v] \in Seq(R)
          /\ DOMAIN [p_entry EXCEPT ![x] = v] = DOMAIN p_entry
          /\ \A y \in DOMAIN p_entry :
               [p_entry EXCEPT ![x] = v][y] = IF y = x THEN v ELSE p_entry[y]
      BY Zenon, <2>5, <3>1, <3>3, SeqExcept
    <3>6. QED BY Zenon, <3>1, <3>3, <3>4, <3>5 DEF R
  <2>7. \A l \in P!Bucket : P!InList(l)' = P!InList(l)
    <3> SUFFICES ASSUME NEW l \in P!Bucket PROVE P!InList(l)' = P!InList(l)
      BY Zenon
    <3>1. p_table[l] \in DOMAIN p_entry \cup {P!Null} /\ p_table' = p_table
      BY Zenon, <1>0, <2>1 DEF P!TypeOK
    <3>2. P!List(p_entry', p_table[l]) = P!List(p_entry, p_table[l])
      BY <1>0, <2>6, <3>1, TypeLinked, ListSame
    <3>3. QED BY Zenon, <3>1, <3>2 DEF P!InList
  <2>8. \A l \in P!Bucket : \A y \in P!InList(l) : y \in DOMAIN p_entry
    BY Zenon DEF P!InList, P!List
  <2>9. Grown
    BY Zenon, <2>1, <2>6, <2>7 DEF Grown
  <2>10. \A l \in P!Bucket : Proper(l)'
    BY <1>0, <2>6, <2>7, <2>8 DEF Proper
  <2>11. P!Key(t)' = key /\ P!Lock(t)' = k /\ P!Loops' = P!Loops /\ p_pc'[t] = "unlock"
    BY Zenon, <1>0, <2>1, <2>3 DEF P!Key, P!Lock, P!Loops, P!TypeOK
  <2>12. Present(key)'
    BY Zenon, <2>1, <2>3, <2>4, <2>5, <2>6, <2>7 DEF Present, P!Lock
  <2>13. Position(t)'
    <3>1. p_phase = "put" => \A n \in 0 .. p_i[t] - 1 : Present(p_keys[P!b * t + n])'
      BY Zenon, <1>0, <2>1, <2>9, DoneStays
    <3>2. QED BY Zenon, <1>0, <2>1, <2>2, <2>3, <2>11, <2>12, <3>1 DEF Position
  <2>14. P!TypeOK'
    BY Zenon, <1>0, <2>1, <2>6 DEF P!TypeOK
  <2>15. \A u \in P!Worker \ {t} : Same(u)
    BY Zenon, <1>0, <2>1 DEF Same, P!TypeOK
  <2>16. StepOf(t)
    BY Zenon, <1>0, <2>1, <2>9, <2>10, <2>13, <2>14, <2>15 DEF StepOf, P!NoneMissing
  <2>17. QED BY Zenon, <2>16, StepKeeps
<1>NotFound. ASSUME NEW t \in P!Worker, P!NotFound(t) PROVE PhInv'
  <2>1. p_pc[t] = "walk" /\ p_e[t] = P!Null /\ UNCHANGED <<p_keys, p_table, p_locks, p_phase, p_i>>
    BY Zenon, <1>NotFound DEF P!NotFound
  <2>2. p_i[t] < P!Loops /\ p_locks[P!Lock(t)] = t /\ Ahead(t) /\ p_i[t] \in 0 .. P!Loops
    BY Zenon, <1>0, <2>1 DEF Position
  <2>3. PICK k \in P!Bucket, key \in KeyValues : k = P!Lock(t) /\ key = P!Key(t)
    BY Zenon, <1>0, <2>2, KeyType
  <2>4. ~ Present(key)
    <3>1. P!List(p_entry, p_e[t]) = {}
      BY Zenon, <2>1, ListNull
    <3>2. QED BY Zenon, <2>2, <2>3, <3>1 DEF Ahead, Present, P!Lock
  <2>5. p_phase = "put"
    <3> SUFFICES ASSUME p_phase = "get" PROVE FALSE
      BY Zenon, <1>0 DEF P!TypeOK
    <3>1. p_i[t] \in P!Index /\ key = p_keys[p_i[t]]
      BY <2>2, <2>3 DEF P!Loops, P!Index, P!Key, PhAssumption
    <3>2. QED BY Zenon, <2>4, <3>1 DEF PhInv
  <2>6. /\ p_entry' = Append(p_entry, [key |-> key, value |-> t, next |-> p_table[k]])
        /\ p_e' = [p_e EXCEPT ![t] = Len(p_entry) + 1]
        /\ p_pc' = [p_pc EXCEPT ![t] = "insert"] /\ p_missing' = p_missing
    BY Zenon, <1>NotFound, <2>3, <2>5 DEF P!NotFound
  <2>7. PICK a : a = Len(p_entry) + 1
    BY Zenon
  <2>8. /\ DOMAIN p_entry' = DOMAIN p_entry \cup {a} /\ a \notin DOMAIN p_entry
        /\ p_entry' \in Seq([key : KeyValues, value : P!Worker, next :
           DOMAIN p_entry' \cup {P!Null}])
        /\ p_entry'[a] = [key |-> key, value |-> t, next |-> p_table[k]]
        /\ \A y \in DOMAIN p_entry : p_entry'[y] = p_entry[y]
    <3>1. PICK R : /\ R = DOMAIN p_entry \cup {P!Null}
                   /\ p_entry \in Seq([key : KeyValues, value : P!Worker, next : R])
      BY Zenon, <1>0 DEF P!TypeOK
    <3>2. PICK new : new = [key |-> key, value |-> t, next |-> p_table[k]]
      BY Zenon
    <3>3. p_entry' = Append(p_entry, new)
      BY Zenon, <2>6, <3>2
    <3>4. Len(p_entry') = Len(p_entry) + 1 /\ DOMAIN p_entry' = 1 .. Len(p_entry) + 1
      BY <3>1, <3>3
    <3>5. p_entry'[a] = new /\ \A y \in DOMAIN p_entry : p_entry'[y] = p_entry[y]
      BY <1>0, <2>7, <3>1, <3>3, TypeLinked
    <3>6. DOMAIN p_entry' = DOMAIN p_entry \cup {a} /\ a \notin DOMAIN p_entry
      BY <1>0, <2>7, <3>4, TypeLinked
    <3>7. PICK Q : Q = DOMAIN p_entry' \cup {P!Null}
      BY Zenon
    <3>8. new \in [key : KeyValues, value : P!Worker, next : Q]
      BY Zenon, <1>0, <3>2, <3>6, <3>7 DEF P!TypeOK
    <3>9. p_entry \in Seq([key : KeyValues, value : P!Worker, next : Q])
      <4>1. [key : KeyValues, value : P!Worker, next : R] \subseteq
              [key : KeyValues, value : P!Worker, next : Q]
        BY Zenon, <3>1, <3>6, <3>7
      <4> DEFINE RR == [key : KeyValues, value : P!Worker, next : R]
                 QQ == [key : KeyValues, value : P!Worker, next : Q]
      <4>2. p_entry \in Seq(RR) /\ RR \subseteq QQ
        BY Zenon, <3>1, <4>1
      <4>3. p_entry \in Seq(QQ)
        <5> HIDE DEF RR, QQ
        <5>1. QED BY Zenon, <4>2, SeqWider
      <4>4. QED BY Zenon, <4>3
    <3>10. p_entry' \in Seq([key : KeyValues, value : P!Worker, next : Q])
      BY <3>3, <3>8, <3>9
    <3>11. QED BY Zenon, <3>2, <3>5, <3>6, <3>7, <3>10
  <2>9. \A l \in P!Bucket : P!InList(l)' = P!InList(l)
    <3> SUFFICES ASSUME NEW l \in P!Bucket PROVE P!InList(l)' = P!InList(l)
      BY Zenon
    <3>1. p_table[l] \in DOMAIN p_entry \cup {P!Null} /\ p_table' = p_table
      BY Zenon, <1>0, <2>1 DEF P!TypeOK
    <3>2. DOMAIN p_entry \subseteq DOMAIN p_entry' /\ \A y \in DOMAIN p_entry :
            p_entry'[y].next = p_entry[y].next
      BY Zenon, <2>8
    <3>3. P!List(p_entry', p_table[l]) = P!List(p_entry, p_table[l])
      BY Zenon, <1>0, <3>1, <3>2, TypeLinked, ListSame
    <3>4. QED BY Zenon, <3>1, <3>3 DEF P!InList
  <2>10. \A l \in P!Bucket : \A y \in P!InList(l) : y \in DOMAIN p_entry
    BY Zenon DEF P!InList, P!List
  <2>11. Grown
    BY Zenon, <2>1, <2>8, <2>9 DEF Grown
  <2>12. \A l \in P!Bucket : Proper(l)'
    BY <1>0, <2>8, <2>9, <2>10 DEF Proper
  <2>13. /\ P!Key(t)' = key /\ P!Lock(t)' = k /\ P!Loops' = P!Loops
         /\ p_pc'[t] = "insert" /\ p_e'[t] = a
    BY Zenon, <1>0, <2>1, <2>3, <2>6, <2>7 DEF P!Key, P!Lock, P!Loops, P!TypeOK
  <2>14. ~ Present(key)'
    BY Zenon, <2>3, <2>4, <2>8, <2>9, <2>10 DEF Present, P!Lock
  <2>15. NewHead(t)'
    BY <2>1, <2>5, <2>8, <2>13, <2>14 DEF NewHead
  <2>16. Position(t)'
    <3>1. p_phase = "put" => \A n \in 0 .. p_i[t] - 1 : Present(p_keys[P!b * t + n])'
      BY Zenon, <1>0, <2>1, <2>11, DoneStays
    <3>2. QED BY Zenon, <1>0, <2>1, <2>2, <2>3, <2>13, <2>15, <3>1 DEF Position
  <2>17. P!TypeOK'
    <3>1. p_table' \in [P!Bucket -> DOMAIN p_entry' \cup {P!Null}] /\
            p_e' \in [P!Worker -> DOMAIN p_entry' \cup {P!Null}]
      BY Zenon, <1>0, <2>1, <2>6, <2>7, <2>8 DEF P!TypeOK
    <3>2. QED BY Zenon, <1>0, <2>1, <2>6, <2>8, <3>1 DEF P!TypeOK
  <2>18. \A u \in P!Worker \ {t} : Same(u)
    BY Zenon, <1>0, <2>1, <2>6 DEF Same, P!TypeOK
  <2>19. StepOf(t)
    BY Zenon, <1>0, <2>6, <2>11, <2>12, <2>16, <2>17, <2>18 DEF StepOf, P!NoneMissing
  <2>20. QED BY Zenon, <2>19, StepKeeps
<1>Insert. ASSUME NEW t \in P!Worker, P!Insert(t) PROVE PhInv'
  <2>1. /\ p_pc[t] = "insert" /\ p_table' = [p_table EXCEPT ![P!Lock(t)] = p_e[t]]
        /\ p_pc' = [p_pc EXCEPT ![t] = "unlock"]
        /\ UNCHANGED <<p_keys, p_entry, p_locks, p_phase, p_i, p_e, p_missing>>
    BY Zenon, <1>Insert DEF P!Insert
  <2>2. p_i[t] < P!Loops /\ p_locks[P!Lock(t)] = t /\ NewHead(t) /\ p_i[t] \in 0 .. P!Loops
    BY Zenon, <1>0, <2>1 DEF Position
  <2>3. PICK k \in P!Bucket, key \in KeyValues : k = P!Lock(t) /\ key = P!Key(t)
    BY Zenon, <1>0, <2>2, KeyType
  <2>4. PICK a \in DOMAIN p_entry : a = p_e[t]
    BY Zenon, <2>2 DEF NewHead
  <2>5. a # P!Null /\ p_entry[a].key = key /\ p_entry[a].next = p_table[k] /\ ~ Present(key)
    BY Zenon, <1>0, <2>2, <2>3, <2>4, TypeLinked DEF NewHead
  <2>6. p_table'[k] = a /\ \A l \in P!Bucket \ {k} : p_table'[l] = p_table[l]
    BY Zenon, <1>0, <2>1, <2>3, <2>4 DEF P!TypeOK
  <2>7. P!InList(k)' = {a} \cup P!InList(k)
    BY <1>0, <2>1, <2>5, <2>6, TypeLinked, ListStep DEF P!InList
  <2>8. \A l \in P!Bucket \ {k} : P!InList(l)' = P!InList(l)
    BY Zenon, <2>1, <2>6 DEF P!InList
  <2>9. Grown
    BY Zenon, <2>1, <2>7, <2>8 DEF Grown
  <2>10. key % NBUCKET = k /\ \A y \in P!InList(k) : p_entry[y].key # key
    BY Zenon, <2>3, <2>5 DEF Present, P!Lock
  <2>11. Proper(k)'
    BY <1>0, <2>1, <2>5, <2>7, <2>10 DEF Proper
  <2>12. \A l \in P!Bucket : Proper(l)'
    <3>1. ASSUME NEW l \in P!Bucket \ {k} PROVE Proper(l)'
      BY <1>0, <2>1, <2>8 DEF Proper
    <3>2. QED BY Zenon, <2>11, <3>1
  <2>13. /\ P!Key(t)' = key /\ P!Lock(t)' = k /\ P!Loops' = P!Loops /\ p_pc'[t] = "unlock"
    BY Zenon, <1>0, <2>1, <2>3 DEF P!Key, P!Lock, P!Loops, P!TypeOK
  <2>14. Present(key)'
    BY Zenon, <2>1, <2>5, <2>7, <2>10 DEF Present
  <2>15. Position(t)'
    <3>1. p_phase = "put" => \A n \in 0 .. p_i[t] - 1 : Present(p_keys[P!b * t + n])'
      BY Zenon, <1>0, <2>1, <2>9, DoneStays
    <3>2. QED BY Zenon, <1>0, <2>1, <2>2, <2>3, <2>13, <2>14, <3>1 DEF Position
  <2>16. P!TypeOK'
    BY Zenon, <1>0, <2>1, <2>4 DEF P!TypeOK
  <2>17. \A u \in P!Worker \ {t} : Same(u)
    <3> SUFFICES ASSUME NEW u \in P!Worker \ {t} PROVE Same(u)
      BY Zenon
    <3>1. p_pc[u] \in {"walk", "insert", "unlock"} => P!Lock(u) # P!Lock(t) /\
            P!Lock(u) \in P!Bucket
      BY Zenon, <1>0, <2>1, Alone, KeyType DEF Position
    <3>2. QED BY Zenon, <1>0, <2>1, <2>3, <2>6, <3>1 DEF Same, P!TypeOK
  <2>18. StepOf(t)
    BY Zenon, <1>0, <2>1, <2>9, <2>12, <2>15, <2>16, <2>17 DEF StepOf, P!NoneMissing
  <2>19. QED BY Zenon, <2>18, StepKeeps
<1>Release. ASSUME NEW t \in P!Worker, P!Release(t) PROVE PhInv'
  <2>1. /\ p_pc[t] = "unlock" /\ p_locks' = [p_locks EXCEPT ![P!Lock(t)] = -1]
        /\ p_i' = [p_i EXCEPT ![t] = @ + 1] /\ p_e' = [p_e EXCEPT ![t] = P!Null]
        /\ p_pc' = [p_pc EXCEPT ![t] = "loop"]
        /\ UNCHANGED <<p_keys, p_entry, p_table, p_phase, p_missing>>
    BY Zenon, <1>Release DEF P!Release
  <2>2. p_i[t] < P!Loops /\ p_locks[P!Lock(t)] = t /\ Present(P!Key(t)) /\ p_i[t] \in 0 .. P!Loops
    BY Zenon, <1>0, <2>1 DEF Position
  <2>3. P!Lock(t) \in P!Bucket
    BY Zenon, <1>0, <2>2, KeyType
  <2>4. NKEYS \in Nat /\ P!b \in Nat /\ P!b <= NKEYS /\ P!Loops \in Nat /\ P!Loops <= NKEYS /\
          P!Loops' = P!Loops
    BY <2>1, QuotientBound DEF P!Loops, PhAssumption
  <2>5. p_i'[t] = p_i[t] + 1 /\ p_pc'[t] = "loop"
    BY Zenon, <1>0, <2>1 DEF P!TypeOK
  <2>6. p_phase = "put" => \A n \in 0 .. p_i[t] : Present(p_keys[P!b * t + n])'
    <3> SUFFICES ASSUME p_phase = "put", NEW n \in 0 .. p_i[t] PROVE Present(p_keys[P!b * t + n])'
      BY Zenon
    <3>1. n \in 0 .. p_i[t] - 1 \/ n = p_i[t]
      BY <2>2, <2>4
    <3>2. Present(p_keys[P!b * t + n])
      BY Zenon, <1>0, <2>2, <3>1 DEF Position, P!Key
    <3>3. QED BY Zenon, <2>1, <3>2, SameLists
  <2>7. Position(t)'
    <3>1. p_i'[t] \in 0 .. P!Loops' /\ \A n \in 0 .. p_i'[t] - 1 : n \in 0 .. p_i[t]
      BY <2>2, <2>4, <2>5
    <3>2. QED BY Zenon, <2>1, <2>5, <2>6, <3>1 DEF Position
  <2>8. P!TypeOK'
    <3>1. p_i' \in [P!Worker -> 0 .. NKEYS]
      <4>1. p_i[t] + 1 \in 0 .. NKEYS
        BY <2>2, <2>4
      <4>2. QED BY Zenon, <1>0, <2>1, <4>1 DEF P!TypeOK
    <3>2. QED BY Zenon, <1>0, <2>1, <2>3, <3>1 DEF P!TypeOK
  <2>9. \A u \in P!Worker \ {t} : Same(u)
    <3> SUFFICES ASSUME NEW u \in P!Worker \ {t} PROVE Same(u)
      BY Zenon
    <3>1. p_pc[u] \in {"walk", "insert", "unlock"} => P!Lock(u) # P!Lock(t)
      BY Zenon, <2>1, Alone
    <3>2. QED BY <1>0, <2>1, <3>1 DEF Same, P!TypeOK
  <2>10. StepOf(t)
    BY Zenon, <1>0, <2>1, <2>7, <2>8, <2>9, SameLists DEF StepOf, P!NoneMissing
  <2>11. QED BY Zenon, <2>10, StepKeeps
<1>Join. ASSUME P!Join PROVE PhInv'
  <2>1. /\ p_phase = "put" /\ (\A t \in P!Worker : p_pc[t] = "done") /\ p_phase' = "get"
        /\ p_i' = [t \in P!Worker |-> 0] /\ p_pc' = [t \in P!Worker |-> "loop"]
        /\ UNCHANGED <<p_keys, p_entry, p_table, p_locks, p_e, p_missing>>
    BY Zenon, <1>Join DEF P!Join
  <2>2. /\ \A k : P!InList(k)' = P!InList(k)
        /\ \A key : Present(key)' <=> Present(key)
    BY Zenon, <2>1 DEF P!InList, Present
  <2>3. P!TypeOK'
    BY <1>0, <2>1 DEF P!TypeOK, PhAssumption
  <2>4. \A k \in P!Bucket : Proper(k)'
    BY Zenon, <1>0, <2>1, <2>2 DEF Proper
  <2>5. \A t \in P!Worker : Position(t)'
    BY <2>1 DEF Position, P!Loops, PhAssumption
  <2>6. \A n \in P!Index : Present(p_keys[n])'
    <3> SUFFICES ASSUME NEW n \in P!Index PROVE Present(p_keys[n])'
      BY Zenon
    <3>1. PICK t \in P!Worker, m \in 0 .. P!b - 1 : n = P!b * t + m
      BY Zenon, Slices
    <3>2. p_i[t] = P!b
      BY Zenon, <1>0, <2>1 DEF Position, P!Loops
    <3>3. Present(p_keys[n])
      BY Zenon, <1>0, <2>1, <3>1, <3>2 DEF Position
    <3>4. QED BY Zenon, <2>1, <2>2, <3>3
  <2>7. QED BY Zenon, <1>0, <2>1, <2>3, <2>4, <2>5, <2>6 DEF PhInv, P!NoneMissing
<1>Stutter. ASSUME UNCHANGED P!vars PROVE PhInv'
  <2>1. UNCHANGED <<p_keys, p_entry, p_table, p_locks, p_phase, p_pc, p_i, p_e, p_missing>>
    BY Zenon, <1>Stutter DEF P!vars
  <2>2. /\ \A k : P!InList(k)' = P!InList(k)
        /\ \A key : Present(key)' <=> Present(key)
    BY Zenon, <2>1 DEF P!InList, Present
  <2>3. P!TypeOK'
    BY Zenon, <1>0, <2>1 DEF P!TypeOK
  <2>4. \A k \in P!Bucket : Proper(k)'
    BY Zenon, <1>0, <2>1, <2>2 DEF Proper
  <2>5. \A t \in P!Worker : Position(t)'
    <3> SUFFICES ASSUME NEW t \in P!Worker PROVE Position(t)'
      BY Zenon
    <3>1. Position(t)
      BY Zenon, <1>0
    <3>2. Ahead(t)' <=> Ahead(t)
      BY Zenon, <2>1, <2>2 DEF Ahead, P!Lock, P!Key
    <3>3. NewHead(t)' <=> NewHead(t)
      BY Zenon, <2>1, <2>2 DEF NewHead, P!Lock, P!Key
    <3>4. P!Key(t)' = P!Key(t) /\ P!Lock(t)' = P!Lock(t) /\ P!Loops' = P!Loops
      BY Zenon, <2>1 DEF P!Key, P!Lock, P!Loops
    <3>5. QED BY Zenon, <2>1, <2>2, <3>1, <3>2, <3>3, <3>4 DEF Position
  <2>6. QED BY Zenon, <2>1, <2>2, <2>3, <2>4, <2>5 DEF PhInv, P!NoneMissing
<1>QED. QED
  BY Zenon, <1>Acquire, <1>Walk, <1>Found, <1>NotFound, <1>Insert, <1>Release, <1>Return, <1>Join,
     <1>Stutter
     DEF P!Next, P!Step, P!Finished

\* get finds every key that was put, and no key is in the table twice, for any
\* number of threads, keys and buckets.
THEOREM PutsKept == P!Spec => []PutOnce
<1>0. PhAssumption
  BY Zenon, UserProgramsAssumption
<1> USE <1>0
<1>1. PhInv => P!PutOnce /\ P!NoneMissing
  <2> SUFFICES ASSUME PhInv PROVE P!PutOnce /\ P!NoneMissing
    BY Zenon
  <2>1. \A k \in P!Bucket, x, y \in DOMAIN p_entry :
          x \in P!InList(k) /\ y \in P!InList(k) /\ p_entry[x].key = p_entry[y].key => x = y
    BY Zenon DEF PhInv, Proper
  <2>2. ASSUME p_phase = "put", NEW t \in P!Worker, NEW n \in P!Index, n < p_i[t]
        PROVE  \E x \in P!InList(p_keys[P!b * t + n] % NBUCKET) :
                 p_entry[x].key = p_keys[P!b * t + n]
    <3>1. n \in 0 .. p_i[t] - 1
      BY <2>2 DEF PhInv, P!TypeOK, P!Index, PhAssumption
    <3>2. Present(p_keys[P!b * t + n])
      BY Zenon, <2>2, <3>1 DEF PhInv, Position
    <3>3. QED BY Zenon, <3>2 DEF Present
  <2>3. QED BY Zenon, <2>1, <2>2 DEF PhInv, P!PutOnce
<1>2. QED BY <1>1, InitPh, NextPh, PTL DEF P!Spec, PutOnce
-----------------------------------------------------------------------------
(* uthread *)

\* The last thread that is created, and the first to count.
First == MAX_THREAD - 1

\* Whose turn is after that of c, and who has had its turn in the round of c.
Succ(c) == IF c = First THEN 1 ELSE c + 1
Had(c)  == {t \in U!Func : t # c /\ c # First /\ (t = First \/ t < c)}

At0(t, l) == [f |-> t, ra |-> l, sp |-> t, s |-> 0]

\* main creates the threads.
Creating ==
  /\ ~ u_exited /\ u_current = U!main /\ u_regs = At0(U!main, "main")
  /\ u_state[U!main] = "RUNNING"
  /\ \A t \in U!Func :
       /\ ~ u_started[t] /\ u_n[t] = 0
       /\ u_state[t] = IF t <= u_created THEN "RUNNABLE" ELSE "FREE"
       /\ u_ctx[t] = IF t <= u_created THEN At0(t, "start") ELSE At0(U!main, "main")

\* Threads run, and main does not any more.
Threads ==
  /\ ~ u_exited /\ u_created = MAX_THREAD - 1 /\ u_state[U!main] = "RUNNING"
  /\ u_current \in U!Func /\ u_regs.f = u_current /\ u_regs.sp = u_current

\* The threads start one after the other; those that have started wait.
Starting ==
  /\ Threads /\ u_regs.s = 0
  /\ u_regs.ra = IF u_started[u_current] THEN "wait" ELSE "start"
  /\ u_started[u_current] => u_current # First
  /\ \A t \in U!Func : u_n[t] = 0
  /\ \A t \in U!Func \ {u_current} :
       /\ u_state[t] = "RUNNABLE"
       /\ u_started[t] <=> t < u_current
       /\ u_ctx[t] = At0(t, IF t < u_current THEN "wait" ELSE "start")

\* Where a thread that has counted to m goes on.
Goes(c, m) == \/ c.ra = "wait" /\ m = 0 /\ c.s = 0
              \/ c.ra = "next" /\ m = c.s + 1
              
\* In the round of c: who has had its turn has counted once more, or has exited.
InRound(c) ==
  \A t \in U!Func \ {c} :
    IF t \in Had(c) /\ u_n[c] = N
    THEN u_state[t] = "FREE" /\ u_n[t] = N
    ELSE /\ u_state[t] = "RUNNABLE" /\ Goes(u_ctx[t], u_n[t]) /\ u_ctx[t].f = t /\ u_ctx[t].sp = t
         /\ u_n[t] = u_n[c] + IF t \in Had(c) THEN 1 ELSE 0

\* The threads count in rounds.
Counting ==
  /\ Threads /\ \A t \in U!Func : u_started[t]
  /\ Goes(u_regs, u_n[u_current]) \/ (u_regs.ra = "loop" /\ u_regs.s = u_n[u_current])
  /\ InRound(u_current)

\* All threads have exited.
Ended ==
  /\ u_exited /\ u_regs.sp = u_current /\ u_state[U!main] = "RUNNING"
  /\ \A t \in U!Func : u_started[t] /\ u_n[t] = N /\ u_state[t] = "FREE"

\* The inductive invariant.
UInv == U!TypeOK /\ (Creating \/ Starting \/ Counting \/ Ended)

\* What the constants give.
LEMMA Sizes ==
  UThreadAssumption =>
    /\ MAX_THREAD \in Nat /\ N \in Nat /\ First \in U!Func /\ U!main \in U!Tid
    /\ U!main \notin U!Func
    /\ U!Tid = U!Func \cup {U!main} /\ 1 \in U!Func /\ U!Func \subseteq Int
BY DEF UThreadAssumption, First, U!Func, U!main, U!Tid

\* The smallest number of a set that contains 1, or 2 and not 1.
LEMMA Smallest ==
  ASSUME NEW S, S \subseteq Nat \ {0}
  PROVE  (1 \in S => U!Least(S) = 1) /\ (1 \notin S /\ 2 \in S => U!Least(S) = 2)
<1>1. ASSUME NEW x \in S, \A y \in S : x <= y PROVE U!Least(S) = x
  <2>1. U!Least(S) \in S /\ \A y \in S : U!Least(S) <= y
    BY Zenon, <1>1 DEF U!Least
  <2>2. U!Least(S) <= x /\ x <= U!Least(S) /\ x \in Nat /\ U!Least(S) \in Nat
    BY Zenon, <1>1, <2>1
  <2>3. QED BY <2>2
<1>2. 1 \in S => \A y \in S : 1 <= y
  OBVIOUS
<1>3. 1 \notin S /\ 2 \in S => \A y \in S : 2 <= y
  OBVIOUS
<1>4. QED BY Zenon, <1>1, <1>2, <1>3

\* thread_schedule finds the thread whose turn it is, ...
LEMMA Picks ==
  ASSUME UThreadAssumption, u_current \in U!Func, NEW st,
         st[U!main] # "RUNNABLE", st[Succ(u_current)] = "RUNNABLE"
  PROVE  U!next(st) = Succ(u_current)
<1> DEFINE after(k) == (u_current + k) % MAX_THREAD
           run      == {k \in 1 .. MAX_THREAD : st[after(k)] = "RUNNABLE"}
<1>1. run \subseteq Nat \ {0} /\ 1 \in 1 .. MAX_THREAD /\ 2 \in 1 .. MAX_THREAD
  BY DEF UThreadAssumption
<1>2. CASE u_current = First
  <2>1. after(1) = 0 /\ after(2) = 1
    BY <1>2 DEF First, UThreadAssumption
  <2>2. 1 \notin run /\ 2 \in run
    BY Zenon, <1>1, <1>2, <2>1 DEF Succ, U!main
  <2>3. U!Least(run) = 2
    BY Zenon, <1>1, <2>2, Smallest
  <2>4. U!next(st) = after(2)
    BY Zenon, <2>2, <2>3 DEF U!next
  <2>5. QED BY Zenon, <1>2, <2>1, <2>4 DEF Succ
<1>3. CASE u_current # First
  <2>1. after(1) = u_current + 1
    BY <1>3 DEF First, U!Func, UThreadAssumption
  <2>2. 1 \in run
    BY Zenon, <1>1, <1>3, <2>1 DEF Succ
  <2>3. U!Least(run) = 1
    BY Zenon, <1>1, <2>2, Smallest
  <2>4. U!next(st) = after(1)
    BY Zenon, <2>2, <2>3 DEF U!next
  <2>5. QED BY Zenon, <1>3, <2>1, <2>4 DEF Succ
<1>4. QED BY Zenon, <1>2, <1>3

\* ... from main the first thread, ...
LEMMA PicksOne ==
  ASSUME UThreadAssumption, u_current = U!main, NEW st, st[1] = "RUNNABLE"
  PROVE  U!next(st) = 1
<1> DEFINE after(k) == (u_current + k) % MAX_THREAD
           run      == {k \in 1 .. MAX_THREAD : st[after(k)] = "RUNNABLE"}
<1>1. run \subseteq Nat \ {0} /\ 1 \in 1 .. MAX_THREAD
  BY DEF UThreadAssumption
<1>2. after(1) = 1
  BY DEF U!main, UThreadAssumption
<1>3. 1 \in run
  BY Zenon, <1>1, <1>2
<1>4. U!Least(run) = 1
  BY Zenon, <1>1, <1>3, Smallest
<1>5. U!next(st) = after(1)
  BY Zenon, <1>3, <1>4 DEF U!next
<1>6. QED BY Zenon, <1>2, <1>5

\* ... and nobody when nobody is runnable.
LEMMA PicksNone ==
  ASSUME UThreadAssumption, u_current \in U!Tid, NEW st, \A t \in U!Tid : st[t] # "RUNNABLE"
  PROVE  U!next(st) = -1
<1>1. \A k \in 1 .. MAX_THREAD : (u_current + k) % MAX_THREAD \in U!Tid
  BY DEF U!Tid, UThreadAssumption
<1>2. {k \in 1 .. MAX_THREAD : st[(u_current + k) % MAX_THREAD] = "RUNNABLE"} = {}
  BY Zenon, <1>1
<1>3. QED BY Zenon, <1>2 DEF U!next

\* The three outcomes of thread_schedule.
LEMMA Schedules ==
  ASSUME NEW st, NEW c, U!thread_schedule(st, c)
  PROVE  /\ U!next(st) = -1 =>
              u_exited' = TRUE /\ u_state' = st /\ u_regs' = c /\ UNCHANGED <<u_ctx, u_current>>
         /\ U!next(st) # -1 /\ U!next(st) = u_current =>
              u_state' = st /\ u_regs' = c /\ UNCHANGED <<u_ctx, u_current, u_exited>>
         /\ U!next(st) # -1 /\ U!next(st) # u_current =>
              /\ u_state' = [st EXCEPT ![U!next(st)] = "RUNNING"] /\ u_current' = U!next(st)
              /\ u_ctx' = [u_ctx EXCEPT ![u_current] = c] /\ u_regs' = u_ctx[U!next(st)]
              /\ UNCHANGED u_exited
BY Zenon DEF U!thread_schedule, U!thread_switch

\* The round stays when no count and no thread changes.
LEMMA SameRound ==
  ASSUME NEW c, InRound(c), UNCHANGED <<u_state, u_ctx, u_n>> PROVE InRound(c)'
BY Zenon DEF InRound

\* After the last thread of a round comes the first one, and all others have had
\* their turn; else the next thread has not.
LEMMA Turn ==
  ASSUME UThreadAssumption, NEW c \in U!Func
  PROVE  /\ Succ(c) \in U!Func /\ Had(First) = {} /\ c \notin Had(c)
         /\ Succ(c) = First => Had(c) = U!Func \ {c}
         /\ Succ(c) # First => Succ(c) # c /\ Succ(c) \notin Had(c) /\
            Had(Succ(c)) = Had(c) \cup {c}
BY DEF UThreadAssumption, Succ, Had, First, U!Func

\* The program begins in main.
LEMMA InitU == UThreadAssumption /\ U!Init => UInv
<1> SUFFICES ASSUME UThreadAssumption, U!Init PROVE UInv
  BY Zenon
<1>1. U!TypeOK
  <2>1. [f |-> U!main, ra |-> "main", sp |-> U!main, s |-> 0] \in U!Context
    BY Sizes DEF U!Context, U!Labels
  <2>2. MAX_THREAD - 1 \in Nat /\ 0 \in 0 .. N
    BY Sizes DEF UThreadAssumption
  <2>3. PICK c \in U!Context : /\ u_ctx = [t \in U!Tid |-> c] /\ u_regs = c
                             /\ u_state = [t \in U!Tid |-> IF t = U!main THEN "RUNNING" ELSE "FREE"]
                             /\ u_started = [g \in U!Func |-> FALSE] /\ u_n = [g \in U!Func |-> 0]
                             /\ u_current = U!main /\ u_created = 0 /\ u_exited = FALSE
    BY Zenon, <2>1 DEF U!Init
  <2>4. /\ u_state \in [U!Tid -> {"FREE", "RUNNING", "RUNNABLE"}] /\ u_ctx \in [U!Tid -> U!Context]
        /\ u_n \in [U!Func -> 0 .. N] /\ u_created \in 0 .. MAX_THREAD - 1
    BY <2>2, <2>3
  <2>5. u_started \in [U!Func -> BOOLEAN] /\ u_exited \in BOOLEAN
    BY Zenon, <2>3
  <2>6. u_current \in U!Tid /\ u_regs \in U!Context
    BY Zenon, Sizes, <2>3
  <2>7. QED BY Zenon, <2>4, <2>5, <2>6 DEF U!TypeOK
<1>2. Creating
  BY Sizes DEF U!Init, Creating, At0, U!Func
<1>3. QED BY Zenon, <1>1, <1>2 DEF UInv

\* Every step keeps the turns.
LEMMA NextU == UThreadAssumption /\ UInv /\ [U!Next]_(U!vars) => UInv'
<1> SUFFICES ASSUME UThreadAssumption, UInv, [U!Next]_(U!vars) PROVE UInv'
  BY Zenon
<1>0. U!TypeOK /\ (Creating \/ Starting \/ Counting \/ Ended)
  BY Zenon DEF UInv
<1>1. /\ MAX_THREAD \in Nat /\ N \in Nat /\ First \in U!Func /\ U!main \in U!Tid
      /\ U!main \notin U!Func
      /\ U!Tid = U!Func \cup {U!main} /\ 1 \in U!Func /\ U!Func \subseteq Int
      /\ U!Func = 1 .. First
      /\ \A t \in U!Func : t # -1
  BY Sizes DEF First, U!Func
<1>create. ASSUME U!thread_create PROVE UInv'
  <2>1. U!At("main") /\ u_created < MAX_THREAD - 1
    BY Zenon, <1>create DEF U!thread_create
  <2>2. Creating
    BY Zenon, <1>0, <2>1 DEF U!At, Starting, Counting, Ended, Goes
  <2>3. u_created \in Nat /\ u_created + 1 \in U!Func /\ u_created + 1 \in U!Tid
    BY <1>0, <1>1, <2>1 DEF U!TypeOK, First
  <2>4. PICK t \in U!Func : t = u_created + 1
    BY Zenon, <2>3
  <2>5. U!Least({u \in U!Tid : u_state[u] = "FREE"}) = t
    <3> DEFINE S == {u \in U!Tid : u_state[u] = "FREE"}
    <3>1. t \in S /\ \A u \in S : t <= u
      BY <1>1, <2>2, <2>3, <2>4 DEF Creating
    <3>2. S \subseteq Int
      BY DEF U!Tid
    <3> HIDE DEF S
    <3>3. U!Least(S) \in S /\ \A u \in S : U!Least(S) <= u
      BY Zenon, <3>1 DEF U!Least
    <3>4. QED BY <3>1, <3>2, <3>3 DEF S
  <2>6. /\ u_created' = t /\ u_state' = [u_state EXCEPT ![t] = "RUNNABLE"]
        /\ u_ctx' = [u_ctx EXCEPT ![t].f = u_created + 1, ![t].ra = "start", ![t].sp = t]
        /\ UNCHANGED <<u_current, u_regs, u_started, u_n, u_exited>>
    BY Zenon, <1>create, <2>4, <2>5 DEF U!thread_create
  <2>7. u_ctx[t] = At0(U!main, "main")
    BY <2>2, <2>3, <2>4 DEF Creating
  <2>8. u_ctx' = [u_ctx EXCEPT ![t] = At0(t, "start")]
    BY <1>0, <2>4, <2>6, <2>7 DEF At0, U!TypeOK, U!Tid, U!Func
  <2>9. At0(t, "start") \in U!Context
    BY <1>1, <2>4 DEF At0, U!Context, U!Labels
  <2>10. U!TypeOK'
    BY <1>0, <1>1, <2>4, <2>6, <2>8, <2>9 DEF U!TypeOK, First
  <2>11. Creating'
    <3>1. ASSUME NEW u \in U!Func
          PROVE  /\ u_state'[u] = IF u <= u_created' THEN "RUNNABLE" ELSE "FREE"
                 /\ u_ctx'[u] = IF u <= u_created' THEN At0(u, "start") ELSE At0(U!main, "main")
      BY <1>0, <1>1, <2>2, <2>3, <2>4, <2>6, <2>8 DEF Creating, U!TypeOK
    <3>2. u_state'[U!main] = "RUNNING"
      BY Zenon, <1>0, <1>1, <2>2, <2>4, <2>6 DEF Creating, U!TypeOK
    <3>3. QED BY Zenon, <2>2, <2>6, <3>1, <3>2 DEF Creating
  <2>12. QED BY Zenon, <2>10, <2>11 DEF UInv
<1>main. ASSUME U!MainSchedule PROVE UInv'
  <2>1. /\ U!At("main") /\ u_created = MAX_THREAD - 1
        /\ U!thread_schedule(u_state, [u_regs EXCEPT !.ra = "end"])
        /\ UNCHANGED <<u_started, u_n, u_created>>
    BY Zenon, <1>main DEF U!MainSchedule
  <2>2. Creating
    BY Zenon, <1>0, <2>1 DEF U!At, Starting, Counting, Ended, Goes
  <2>3. u_current = U!main /\ \A t \in U!Func : u_state[t] = "RUNNABLE" /\
          u_ctx[t] = At0(t, "start")
    BY <1>1, <2>1, <2>2 DEF Creating, First
  <2>4. U!next(u_state) = 1
    BY Zenon, <1>1, <2>3, PicksOne
  <2>5. 1 \in U!Tid /\ 1 # U!main
    BY Zenon, <1>1
  <2>6. PICK c \in U!Context : c = [u_regs EXCEPT !.ra = "end"]
    BY Zenon, <1>0 DEF U!TypeOK, U!Context, U!Labels
  <2>7. /\ u_state' = [u_state EXCEPT ![1] = "RUNNING"] /\ u_current' = 1
        /\ u_ctx' = [u_ctx EXCEPT ![U!main] = c] /\ u_regs' = u_ctx[1] /\ UNCHANGED u_exited
    <3>1. U!thread_schedule(u_state, c)
      BY Zenon, <2>1, <2>6
    <3>2. QED BY Zenon, <2>3, <2>4, <2>5, <3>1, <1>1 DEF U!thread_schedule, U!thread_switch
  <2>8. U!TypeOK'
    BY Zenon, <1>0, <1>1, <2>1, <2>7 DEF U!TypeOK
  <2>9. u_regs' = At0(1, "start")
    BY Zenon, <1>1, <2>3, <2>7
  <2>10. \A t \in U!Func \ {1} : u_state'[t] = "RUNNABLE" /\ u_ctx'[t] = At0(t, "start") /\
           ~ (t < 1)
    BY <1>0, <1>1, <2>3, <2>7 DEF U!TypeOK
  <2>11. u_state'[U!main] = "RUNNING"
    BY Zenon, <1>0, <1>1, <2>2, <2>5, <2>7 DEF U!TypeOK, Creating
  <2>12. \A t \in U!Func : ~ u_started'[t] /\ u_n'[t] = 0
    BY Zenon, <2>1, <2>2 DEF Creating
  <2>13. Threads'
    BY <1>1, <2>1, <2>2, <2>7, <2>9, <2>11 DEF Threads, Creating, At0
  <2>14. u_regs'.s = 0 /\ u_regs'.ra = "start"
    BY Zenon, <2>9 DEF At0
  <2>15. Starting'
    BY Zenon, <1>1, <2>7, <2>10, <2>12, <2>13, <2>14 DEF Starting
  <2>16. QED BY Zenon, <2>8, <2>15 DEF UInv
<1>Start. ASSUME U!Start PROVE UInv'
  <2>1. /\ ~ u_exited /\ u_regs.ra = "start"
        /\ u_started' = [u_started EXCEPT ![u_regs.f] = TRUE]
        /\ u_regs' = [u_regs EXCEPT !.ra = "wait"]
        /\ UNCHANGED <<u_state, u_ctx, u_current, u_n, u_created, u_exited>>
    BY Zenon, <1>Start DEF U!Start, U!At
  <2>2. Starting
    BY <1>0, <2>1 DEF Creating, Counting, Ended, Goes, At0
  <2>3. PICK c \in U!Func : c = u_current /\ u_regs.f = c /\ u_regs.sp = c /\ u_regs.s = 0
    BY Zenon, <2>2 DEF Starting, Threads
  <2>4. /\ u_regs'.f = c /\ u_regs'.sp = c /\ u_regs'.s = 0 /\ u_regs'.ra = "wait"
        /\ u_regs' \in U!Context
    BY Zenon, <1>0, <2>1, <2>3 DEF U!TypeOK, U!Context, U!Labels
  <2>5. u_started'[c] /\ \A t \in U!Func \ {c} : u_started'[t] = u_started[t]
    BY Zenon, <1>0, <2>1, <2>3 DEF U!TypeOK
  <2>6. u_started' \in [U!Func -> BOOLEAN]
    BY Zenon, <1>0, <2>1, <2>3 DEF U!TypeOK
  <2>7. U!TypeOK'
    BY Zenon, <1>0, <2>1, <2>4, <2>6 DEF U!TypeOK
  <2>8. Threads'
    BY Zenon, <2>1, <2>2, <2>3, <2>4 DEF Starting, Threads
  <2>9. u_current' = c /\ \A t \in U!Func : u_n'[t] = 0
    BY Zenon, <2>1, <2>2, <2>3 DEF Starting
  <2>10. ASSUME NEW t \in U!Func \ {c}
         PROVE  /\ u_state'[t] = "RUNNABLE"
                /\ u_started'[t] <=> t < c
                /\ u_ctx'[t] = At0(t, IF t < c THEN "wait" ELSE "start")
    BY <2>1, <2>2, <2>3, <2>5 DEF Starting
  <2>11. CASE c # First
    <3>1. u_regs'.ra = IF u_started'[c] THEN "wait" ELSE "start"
      BY Zenon, <2>4, <2>5
    <3>2. Starting'
      BY Zenon, <2>4, <2>8, <2>9, <2>10, <2>11, <3>1 DEF Starting
    <3>3. QED BY Zenon, <2>7, <3>2 DEF UInv
  <2>12. CASE c = First
    <3>1. \A t \in U!Func \ {c} : t < c
      BY <1>1, <2>12
    <3>2. \A t \in U!Func : u_started'[t]
      BY Zenon, <2>5, <2>10, <3>1
    <3>3. Had(c) = {}
      BY Zenon, <2>12, Turn
    <3>4. ASSUME NEW t \in U!Func \ {c}
          PROVE  /\ u_state'[t] = "RUNNABLE" /\ Goes(u_ctx'[t], u_n'[t])
                 /\ u_ctx'[t].f = t /\ u_ctx'[t].sp = t /\ u_n'[t] = u_n'[c] + 0
      <4>1. u_ctx'[t] = At0(t, "wait") /\ u_n'[t] = 0 /\ u_n'[c] = 0 /\ u_state'[t] = "RUNNABLE"
        BY Zenon, <2>9, <2>10, <3>1
      <4>2. QED BY <4>1 DEF At0, Goes
    <3>5. Goes(u_regs', u_n'[c])
      BY Zenon, <2>4, <2>9 DEF Goes
    <3>6. InRound(c)'
      BY Zenon, <3>3, <3>4 DEF InRound
    <3>7. Counting'
      BY Zenon, <2>8, <2>9, <3>2, <3>5, <3>6 DEF Counting
    <3>8. QED BY Zenon, <2>7, <3>7 DEF UInv
  <2>13. QED BY Zenon, <2>11, <2>12
<1>wait. ASSUME U!WaitOthers, Starting PROVE UInv'
  <2>1. ~ u_exited /\ u_regs.ra = "wait" /\ UNCHANGED <<u_started, u_n, u_created>>
    BY Zenon, <1>wait DEF U!WaitOthers, U!At
  <2>2. PICK c \in U!Func : /\ c = u_current /\ u_regs.f = c /\ u_regs.sp = c /\ u_regs.s = 0
                          /\ u_started[c] /\ c # First
    BY Zenon, <1>wait, <2>1 DEF Starting, Threads
  <2>3. PICK d \in U!Func : d = Succ(c) /\ d = c + 1
    BY <1>1, <2>2 DEF Succ
  <2>4. c < d /\ d # c /\ ~ (d < c) /\ \A t \in U!Func \ {d} : t < d <=> t < c \/ t = c
    BY <1>1, <2>3
  <2>5. ~ u_started[d] /\ u_state[d] = "RUNNABLE" /\ u_ctx[d] = At0(d, "start")
    BY Zenon, <1>wait, <2>2, <2>4 DEF Starting
  <2>6. U!thread_yield("wait")
    BY Zenon, <1>wait, <2>2, <2>4, <2>5 DEF U!WaitOthers
  <2>7. PICK r \in U!Context : r = [u_regs EXCEPT !.ra = "wait"] /\ r = At0(c, "wait")
    BY <1>0, <2>1, <2>2 DEF U!TypeOK, U!Context, U!Labels, At0
  <2>8. PICK st \in [U!Tid -> {"FREE", "RUNNING", "RUNNABLE"}] :
          st = [u_state EXCEPT ![c] = "RUNNABLE"] /\ U!thread_schedule(st, r)
    BY Zenon, <1>0, <2>2, <2>6, <2>7 DEF U!TypeOK, U!thread_yield
  <2>9. /\ st[c] = "RUNNABLE" /\ \A t \in U!Tid \ {c} : st[t] = u_state[t]
    BY Zenon, <1>0, <1>1, <2>2, <2>8 DEF U!TypeOK
  <2>10. U!next(st) = d
    <3>1. st[d] = "RUNNABLE" /\ st[U!main] # "RUNNABLE"
      BY Zenon, <1>wait, <1>1, <2>2, <2>4, <2>5, <2>9 DEF Starting, Threads
    <3>2. QED BY Zenon, <2>2, <2>3, <3>1, Picks
  <2>11. /\ u_state' = [st EXCEPT ![d] = "RUNNING"] /\ u_current' = d
         /\ u_ctx' = [u_ctx EXCEPT ![c] = r] /\ u_regs' = u_ctx[d] /\ UNCHANGED u_exited
    <3>1. d \in U!Tid /\ d # u_current
      BY Zenon, <1>1, <2>2, <2>4
    <3>2. U!thread_schedule(st, r)
      BY Zenon, <2>8
    <3>3. /\ u_state' = [st EXCEPT ![d] = "RUNNING"] /\ u_current' = d
          /\ u_ctx' = [u_ctx EXCEPT ![u_current] = r] /\ u_regs' = u_ctx[d] /\ UNCHANGED u_exited
      BY Zenon, <2>10, <3>1, <3>2, <1>1 DEF U!thread_schedule, U!thread_switch
    <3>4. QED BY Zenon, <2>2, <3>3
  <2>12. U!TypeOK'
    <3>1. u_regs' \in U!Context
      BY Zenon, <1>0, <1>1, <2>11 DEF U!TypeOK
    <3>2. QED BY Zenon, <1>0, <1>1, <2>1, <2>7, <2>8, <2>11, <3>1 DEF U!TypeOK
  <2>13. /\ \A t \in U!Tid \ {c, d} : u_state'[t] = u_state[t] /\ u_ctx'[t] = u_ctx[t]
         /\ u_state'[c] = "RUNNABLE" /\ u_ctx'[c] = At0(c, "wait")
    BY Zenon, <1>0, <1>1, <2>4, <2>7, <2>8, <2>9, <2>11 DEF U!TypeOK
  <2>14. Threads'
    <3>1. u_regs'.f = d /\ u_regs'.sp = d
      BY <2>5, <2>11 DEF At0
    <3>2. U!main \in U!Tid \ {c, d}
      BY Zenon, <1>1
    <3>3. QED BY Zenon, <1>wait, <2>1, <2>11, <2>13, <3>1, <3>2 DEF Starting, Threads
  <2>15. ASSUME NEW t \in U!Func \ {d}
         PROVE  /\ u_state'[t] = "RUNNABLE"
                /\ u_started'[t] <=> t < d
                /\ u_ctx'[t] = At0(t, IF t < d THEN "wait" ELSE "start")
    <3>1. CASE t = c
      BY Zenon, <2>1, <2>2, <2>4, <2>13, <3>1
    <3>2. CASE t # c
      <4>1. /\ u_state[t] = "RUNNABLE" /\ (u_started[t] <=> t < c)
            /\ u_ctx[t] = At0(t, IF t < c THEN "wait" ELSE "start")
        BY Zenon, <1>wait, <2>2, <3>2 DEF Starting
      <4>2. t < d <=> t < c
        BY Zenon, <2>4, <3>2
      <4>3. u_state'[t] = u_state[t] /\ u_ctx'[t] = u_ctx[t] /\ u_started'[t] = u_started[t]
        BY Zenon, <1>1, <2>1, <2>13, <3>2
      <4>4. QED BY Zenon, <4>1, <4>2, <4>3
    <3>3. QED BY Zenon, <3>1, <3>2
  <2>16. u_regs'.s = 0 /\ u_regs'.ra = "start"
    BY <2>5, <2>11 DEF At0
  <2>17. ~ u_started'[d] /\ \A t \in U!Func : u_n'[t] = 0
    BY Zenon, <1>wait, <2>1, <2>5 DEF Starting
  <2>18. Starting'
    BY <2>11, <2>14, <2>15, <2>16, <2>17 DEF Starting
  <2>19. QED BY Zenon, <2>12, <2>18 DEF UInv
<1>go. ASSUME U!WaitOthers, ~ Starting PROVE UInv'
  <2>1. ~ u_exited /\ u_regs.ra = "wait" /\ UNCHANGED <<u_started, u_n, u_created>>
    BY Zenon, <1>go DEF U!WaitOthers, U!At
  <2>2. Counting
    BY <1>0, <1>go, <2>1 DEF Creating, Ended, At0
  <2>3. /\ u_regs' = [u_regs EXCEPT !.ra = "loop", !.s = 0]
        /\ UNCHANGED <<u_state, u_ctx, u_current, u_exited>>
    BY Zenon, <1>go, <2>2 DEF U!WaitOthers, Counting
  <2>4. /\ u_regs' \in U!Context /\ u_regs'.f = u_regs.f /\ u_regs'.sp = u_regs.sp
        /\ u_regs'.ra = "loop" /\ u_regs'.s = 0
    <3>1. u_regs \in U!Context /\ "loop" \in U!Labels /\ 0 \in 0 .. N
      BY <1>0, <1>1 DEF U!TypeOK, U!Labels
    <3>2. QED BY Zenon, <2>3, <3>1 DEF U!Context
  <2>5. u_n[u_current] = 0
    BY Zenon, <2>1, <2>2 DEF Counting, Goes
  <2>6. U!TypeOK'
    BY Zenon, <1>0, <2>1, <2>3, <2>4 DEF U!TypeOK
  <2>7. Threads' /\ InRound(u_current)'
    <3>1. PICK c : c = u_current /\ InRound(c)
      BY Zenon, <2>2 DEF Counting
    <3>2. InRound(c)'
      BY Zenon, <2>1, <2>3, <3>1, SameRound
    <3>3. QED BY Zenon, <2>1, <2>2, <2>3, <2>4, <3>1, <3>2 DEF Counting, Threads
  <2>8. Counting'
    BY Zenon, <2>1, <2>2, <2>3, <2>4, <2>5, <2>7 DEF Counting
  <2>9. QED BY Zenon, <2>6, <2>8 DEF UInv
<1>incr. ASSUME U!Increment PROVE UInv'
  <2>1. /\ ~ u_exited /\ u_regs.ra = "next" /\ u_regs' = [u_regs EXCEPT !.ra = "loop", !.s = @ + 1]
        /\ UNCHANGED <<u_state, u_ctx, u_current, u_started, u_n, u_created, u_exited>>
    BY Zenon, <1>incr DEF U!Increment, U!At
  <2>2. Counting
    BY <1>0, <2>1 DEF Creating, Starting, Ended, At0
  <2>3. u_n[u_current] = u_regs.s + 1
    BY Zenon, <2>1, <2>2 DEF Counting, Goes
  <2>4. u_n[u_current] \in 0 .. N
    BY Zenon, <1>0, <2>2 DEF U!TypeOK, Counting, Threads
  <2>5. /\ u_regs' \in U!Context /\ u_regs'.f = u_regs.f /\ u_regs'.sp = u_regs.sp
        /\ u_regs'.ra = "loop" /\ u_regs'.s = u_n[u_current]
    <3>1. u_regs \in U!Context /\ "loop" \in U!Labels
      BY Zenon, <1>0 DEF U!TypeOK, U!Labels
    <3>2. u_regs' = [u_regs EXCEPT !.ra = "loop", !.s = u_n[u_current]]
      BY Zenon, <2>1, <2>3
    <3>3. QED BY Zenon, <2>4, <3>1, <3>2 DEF U!Context
  <2>6. U!TypeOK'
    BY Zenon, <1>0, <2>1, <2>5 DEF U!TypeOK
  <2>7. Threads' /\ InRound(u_current)'
    <3>1. PICK c : c = u_current /\ InRound(c)
      BY Zenon, <2>2 DEF Counting
    <3>2. InRound(c)'
      BY Zenon, <2>1, <3>1, SameRound
    <3>3. QED BY Zenon, <2>1, <2>2, <2>5, <3>1, <3>2 DEF Counting, Threads
  <2>8. Counting'
    BY Zenon, <2>1, <2>2, <2>5, <2>7 DEF Counting
  <2>9. QED BY Zenon, <2>6, <2>8 DEF UInv
<1>Count. ASSUME U!Count PROVE UInv'
  <2>1. /\ ~ u_exited /\ u_regs.ra = "loop" /\ u_regs.s < N /\ UNCHANGED <<u_started, u_created>>
        /\ u_n' = [u_n EXCEPT ![u_regs.f] = @ + 1] /\ U!thread_yield("next")
    BY Zenon, <1>Count DEF U!Count, U!At
  <2>2. Counting
    BY <1>0, <2>1 DEF Creating, Starting, Ended, At0
  <2>3. PICK c \in U!Func : c = u_current /\ u_regs.f = c /\ u_regs.sp = c /\ InRound(c)
    BY Zenon, <2>2 DEF Counting, Threads
  <2>4. PICK m \in 0 .. N : m = u_n[c] /\ u_regs.s = m /\ m < N /\ m + 1 \in 0 .. N
    BY <1>0, <1>1, <2>1, <2>2, <2>3 DEF Counting, Goes, U!TypeOK
  <2>5. u_n'[c] = m + 1 /\ u_n' \in [U!Func -> 0 .. N] /\ \A t \in U!Func \ {c} : u_n'[t] = u_n[t]
    BY Zenon, <1>0, <2>1, <2>3, <2>4 DEF U!TypeOK
  <2>6. PICK r \in U!Context : /\ r = [u_regs EXCEPT !.ra = "next"]
                             /\ r.f = c /\ r.sp = c /\ r.ra = "next" /\ r.s = m
    <3>1. u_regs \in U!Context /\ "next" \in U!Labels
      BY Zenon, <1>0 DEF U!TypeOK, U!Labels
    <3>2. PICK x : x = [u_regs EXCEPT !.ra = "next"]
      BY Zenon
    <3>3. x \in U!Context /\ x.f = u_regs.f /\ x.sp = u_regs.sp /\ x.ra = "next" /\ x.s = u_regs.s
      BY Zenon, <3>1, <3>2 DEF U!Context
    <3>4. QED BY Zenon, <2>3, <2>4, <3>2, <3>3
  <2>7. Goes(r, m + 1)
    BY Zenon, <2>6 DEF Goes
  <2>8. PICK st \in [U!Tid -> {"FREE", "RUNNING", "RUNNABLE"}] :
          st = [u_state EXCEPT ![c] = "RUNNABLE"] /\ U!thread_schedule(st, r)
    BY Zenon, <1>0, <2>1, <2>3, <2>6 DEF U!TypeOK, U!thread_yield
  <2>9. /\ st[c] = "RUNNABLE" /\ \A t \in U!Tid \ {c} : st[t] = u_state[t]
    BY Zenon, <1>0, <1>1, <2>8 DEF U!TypeOK
  <2>10. ASSUME NEW t \in U!Func \ {c}
         PROVE  /\ u_state[t] = "RUNNABLE" /\ Goes(u_ctx[t], u_n[t]) /\ u_ctx[t].f = t
                /\ u_ctx[t].sp = t
                /\ u_n[t] = m + IF t \in Had(c) THEN 1 ELSE 0
    <3>1. u_n[c] # N
      BY <2>4
    <3>2. QED BY Zenon, <2>3, <2>4, <3>1 DEF InRound
  <2>11. PICK d \in U!Func : d = Succ(c)
    BY Zenon, <2>3, Turn
  <2>12. U!next(st) = d
    <3>1. st[d] = "RUNNABLE"
      BY Zenon, <1>1, <2>9, <2>10
    <3>2. st[U!main] # "RUNNABLE"
      BY Zenon, <1>1, <2>2, <2>9 DEF Counting, Threads
    <3>3. QED BY Zenon, <2>3, <2>11, <3>1, <3>2, Picks
  <2>13. CASE d = c
    <3>1. d \in U!Tid /\ d # -1
      BY Zenon, <1>1 DEF U!Func
    <3>2. u_state' = st /\ u_regs' = r /\ UNCHANGED <<u_ctx, u_current, u_exited>>
      BY Zenon, <2>3, <2>8, <2>12, <2>13, <3>1, Schedules
    <3>3. U!Func \ {c} = {}
      BY <1>1, <2>11, <2>13 DEF Succ
    <3>4. U!TypeOK'
      BY Zenon, <1>0, <2>1, <2>5, <2>6, <2>8, <3>2 DEF U!TypeOK
    <3>5. u_state'[U!main] = "RUNNING"
      BY Zenon, <1>1, <2>2, <2>9, <3>2 DEF Counting, Threads
    <3>6. Threads'
      BY Zenon, <2>1, <2>2, <2>3, <2>6, <3>2, <3>5 DEF Counting, Threads
    <3>7. InRound(c)'
      BY Zenon, <3>3 DEF InRound
    <3>8. Counting'
      BY Zenon, <2>1, <2>2, <2>3, <2>5, <2>7, <3>2, <3>6, <3>7 DEF Counting
    <3>9. QED BY Zenon, <3>4, <3>8 DEF UInv
  <2>14. CASE d # c
    <3>1. /\ u_state' = [st EXCEPT ![d] = "RUNNING"] /\ u_current' = d
          /\ u_ctx' = [u_ctx EXCEPT ![c] = r] /\ u_regs' = u_ctx[d] /\ UNCHANGED u_exited
      <4>1. d \in U!Tid /\ d # u_current
        BY Zenon, <1>1, <2>3, <2>14
      <4>2. U!thread_schedule(st, r)
        BY Zenon, <2>8
      <4>3. /\ u_state' = [st EXCEPT ![d] = "RUNNING"] /\ u_current' = d
            /\ u_ctx' = [u_ctx EXCEPT ![u_current] = r] /\ u_regs' = u_ctx[d] /\ UNCHANGED u_exited
        BY Zenon, <2>12, <4>1, <4>2, <1>1 DEF U!thread_schedule, U!thread_switch
      <4>4. QED BY Zenon, <2>3, <4>3
    <3>2. U!TypeOK'
      <4>1. u_regs' \in U!Context
        BY Zenon, <1>0, <1>1, <3>1 DEF U!TypeOK
      <4>2. QED BY Zenon, <1>0, <1>1, <2>1, <2>5, <2>6, <2>8, <3>1, <4>1 DEF U!TypeOK
    <3>3. /\ \A t \in U!Tid \ {c, d} : u_state'[t] = u_state[t] /\ u_ctx'[t] = u_ctx[t]
          /\ u_state'[c] = "RUNNABLE" /\ u_ctx'[c] = r
      BY Zenon, <1>0, <1>1, <2>8, <2>9, <2>14, <3>1 DEF U!TypeOK
    <3>4. Goes(u_regs', u_n'[d]) /\ u_regs'.f = d /\ u_regs'.sp = d
      BY Zenon, <2>5, <2>10, <2>14, <3>1
    <3>5. u_state'[U!main] = "RUNNING"
      BY <1>1, <2>2, <3>3 DEF Counting, Threads
    <3>6. Threads'
      BY Zenon, <2>1, <2>2, <3>1, <3>4, <3>5 DEF Counting, Threads
    <3>7. ASSUME NEW t \in U!Func \ {d}
          PROVE  /\ u_state'[t] = "RUNNABLE" /\ Goes(u_ctx'[t], u_n'[t]) /\ u_ctx'[t].f = t
                 /\ u_ctx'[t].sp = t
                 /\ u_n'[t] = m + IF t = c \/ t \in Had(c) THEN 1 ELSE 0
      <4>1. CASE t = c
        BY Zenon, <2>5, <2>6, <2>7, <3>3, <4>1
      <4>2. CASE t # c
        <5>1. u_state'[t] = u_state[t] /\ u_ctx'[t] = u_ctx[t] /\ u_n'[t] = u_n[t]
          BY Zenon, <1>1, <2>5, <3>3, <4>2
        <5>2. QED BY Zenon, <2>10, <4>2, <5>1
      <4>3. QED BY Zenon, <4>1, <4>2
    <3>8. u_n'[d] = m + IF d \in Had(c) THEN 1 ELSE 0
      BY Zenon, <2>5, <2>10, <2>14
    <3>9. InRound(d)'
      <4>1. CASE d = First
        <5>1. Had(c) = U!Func \ {c} /\ Had(d) = {}
          BY Zenon, <2>11, <4>1, Turn
        <5>2. \A t \in U!Func \ {d} : t = c \/ t \in Had(c)
          BY Zenon, <5>1
        <5>3. u_n'[d] = m + 1
          BY Zenon, <2>14, <3>8, <5>1
        <5>4. \A t \in U!Func \ {d} : u_n'[t] = u_n'[d] + 0
          BY <2>4, <3>7, <5>2, <5>3
        <5>5. QED BY Zenon, <3>7, <5>1, <5>4 DEF InRound
      <4>2. CASE d # First
        <5>1. d \notin Had(c) /\ Had(d) = Had(c) \cup {c}
          BY Zenon, <2>11, <4>2, Turn
        <5>2. u_n'[d] = m /\ u_n'[d] # N
          BY <2>4, <3>8, <5>1
        <5>3. \A t \in U!Func \ {d} : u_n'[t] = u_n'[d] + IF t \in Had(d) THEN 1 ELSE 0
          BY Zenon, <3>7, <5>1, <5>2
        <5>4. QED BY Zenon, <3>7, <5>2, <5>3 DEF InRound
      <4>3. QED BY Zenon, <4>1, <4>2
    <3>10. Counting'
      BY Zenon, <2>1, <2>2, <3>1, <3>4, <3>6, <3>9 DEF Counting
    <3>11. QED BY Zenon, <3>2, <3>10 DEF UInv
  <2>15. QED BY Zenon, <2>13, <2>14
<1>exit. ASSUME U!ThreadExit PROVE UInv'
  <2>1. /\ ~ u_exited /\ u_regs.ra = "loop" /\ u_regs.s = N
        /\ UNCHANGED <<u_started, u_n, u_created>>
        /\ U!thread_schedule([u_state EXCEPT ![u_current] = "FREE"], [u_regs EXCEPT !.ra = "end"])
    BY Zenon, <1>exit DEF U!ThreadExit, U!At
  <2>2. Counting
    BY <1>0, <2>1 DEF Creating, Starting, Ended, At0
  <2>3. PICK c \in U!Func : c = u_current /\ u_regs.f = c /\ u_regs.sp = c /\ InRound(c) /\
               u_n[c] = N
    BY Zenon, <2>1, <2>2 DEF Counting, Threads, Goes
  <2>4. PICK r \in U!Context : /\ r = [u_regs EXCEPT !.ra = "end"] /\ r.sp = c
    <3>1. u_regs \in U!Context /\ "end" \in U!Labels
      BY Zenon, <1>0 DEF U!TypeOK, U!Labels
    <3>2. PICK x : x = [u_regs EXCEPT !.ra = "end"]
      BY Zenon
    <3>3. x \in U!Context /\ x.sp = u_regs.sp
      BY Zenon, <3>1, <3>2 DEF U!Context
    <3>4. QED BY Zenon, <2>3, <3>2, <3>3
  <2>5. PICK st \in [U!Tid -> {"FREE", "RUNNING", "RUNNABLE"}] :
          st = [u_state EXCEPT ![c] = "FREE"] /\ U!thread_schedule(st, r)
    BY Zenon, <1>0, <2>1, <2>3, <2>4 DEF U!TypeOK
  <2>6. /\ st[c] = "FREE" /\ \A t \in U!Tid \ {c} : st[t] = u_state[t]
    BY Zenon, <1>0, <1>1, <2>5 DEF U!TypeOK
  <2>7. /\ \A t \in Had(c) : u_state[t] = "FREE" /\ u_n[t] = N
        /\ \A t \in U!Func \ {c} : t \notin Had(c) =>
             /\ u_state[t] = "RUNNABLE" /\ Goes(u_ctx[t], u_n[t]) /\ u_ctx[t].f = t
             /\ u_ctx[t].sp = t
             /\ u_n[t] = N + 0
    <3>1. \A t \in Had(c) : t \in U!Func \ {c}
      BY Zenon, <1>1 DEF Had
    <3>2. QED BY Zenon, <2>3, <3>1 DEF InRound
  <2>8. st[U!main] = "RUNNING"
    BY Zenon, <1>1, <2>2, <2>6 DEF Counting, Threads
  <2>9. PICK d \in U!Func : d = Succ(c)
    BY Zenon, <2>3, Turn
  <2>10. CASE d = First
    <3>1. Had(c) = U!Func \ {c}
      BY Zenon, <2>9, <2>10, Turn
    <3>2. \A t \in U!Func : st[t] = "FREE" /\ u_n[t] = N
      BY <1>1, <2>3, <2>6, <2>7, <3>1
    <3>3. \A t \in U!Tid : st[t] # "RUNNABLE"
      BY Zenon, <1>1, <2>8, <3>2
    <3>4. U!next(st) = -1
      BY Zenon, <1>1, <2>3, <3>3, PicksNone
    <3>5. U!thread_schedule(st, r)
      BY Zenon, <2>5
    <3>6. u_exited' = TRUE /\ u_state' = st /\ u_regs' = r /\ UNCHANGED <<u_ctx, u_current>>
      BY Zenon, <3>4, <3>5, Schedules
    <3>7. U!TypeOK'
      BY Zenon, <1>0, <2>1, <2>4, <2>5, <3>6 DEF U!TypeOK
    <3>8. Ended'
      BY Zenon, <2>1, <2>2, <2>3, <2>4, <2>8, <3>2, <3>6 DEF Ended, Counting
    <3>9. QED BY Zenon, <3>7, <3>8 DEF UInv
  <2>11. CASE d # First
    <3>1. d # c /\ d \notin Had(c) /\ Had(d) = Had(c) \cup {c}
      BY Zenon, <2>9, <2>11, Turn
    <3>2. /\ u_state[d] = "RUNNABLE" /\ Goes(u_ctx[d], u_n[d]) /\ u_ctx[d].f = d /\ u_ctx[d].sp = d
          /\ u_n[d] = N
      BY <1>1, <2>7, <3>1
    <3>3. U!next(st) = d
      <4>1. st[d] = "RUNNABLE" /\ st[U!main] # "RUNNABLE"
        BY Zenon, <1>1, <2>6, <2>8, <3>1, <3>2
      <4>2. QED BY Zenon, <2>3, <2>9, <4>1, Picks
    <3>4. /\ u_state' = [st EXCEPT ![d] = "RUNNING"] /\ u_current' = d
          /\ u_ctx' = [u_ctx EXCEPT ![c] = r] /\ u_regs' = u_ctx[d] /\ UNCHANGED u_exited
      <4>1. d \in U!Tid /\ d # u_current
        BY Zenon, <1>1, <2>3, <3>1
      <4>2. U!thread_schedule(st, r)
        BY Zenon, <2>5
      <4>3. /\ u_state' = [st EXCEPT ![d] = "RUNNING"] /\ u_current' = d
            /\ u_ctx' = [u_ctx EXCEPT ![u_current] = r] /\ u_regs' = u_ctx[d] /\ UNCHANGED u_exited
        BY Zenon, <3>3, <4>1, <4>2, <1>1 DEF U!thread_schedule, U!thread_switch
      <4>4. QED BY Zenon, <2>3, <4>3
    <3>5. U!TypeOK'
      <4>1. u_regs' \in U!Context
        BY Zenon, <1>0, <1>1, <3>4 DEF U!TypeOK
      <4>2. QED BY Zenon, <1>0, <1>1, <2>1, <2>4, <2>5, <3>4, <4>1 DEF U!TypeOK
    <3>6. /\ \A t \in U!Tid \ {c, d} : u_state'[t] = u_state[t] /\ u_ctx'[t] = u_ctx[t]
          /\ u_state'[c] = "FREE"
      BY Zenon, <1>0, <1>1, <2>5, <2>6, <3>1, <3>4 DEF U!TypeOK
    <3>7. u_state'[U!main] = "RUNNING"
      BY <1>1, <2>2, <3>6 DEF Counting, Threads
    <3>8. Threads'
      BY Zenon, <2>1, <2>2, <3>2, <3>4, <3>7 DEF Counting, Threads
    <3>9. ASSUME NEW t \in U!Func \ {d}
          PROVE  IF t \in Had(d) THEN u_state'[t] = "FREE" /\ u_n'[t] = N
                 ELSE /\ u_state'[t] = "RUNNABLE" /\ Goes(u_ctx'[t], u_n'[t])
                      /\ u_ctx'[t].f = t /\ u_ctx'[t].sp = t /\ u_n'[t] = N + 0
      <4>1. CASE t = c
        BY Zenon, <2>1, <2>3, <3>1, <3>6, <4>1
      <4>2. CASE t # c
        <5>1. u_state'[t] = u_state[t] /\ u_ctx'[t] = u_ctx[t] /\ u_n'[t] = u_n[t]
          BY Zenon, <1>1, <2>1, <3>6, <4>2
        <5>2. t \in Had(d) <=> t \in Had(c)
          BY Zenon, <3>1, <4>2
        <5>3. QED BY <2>7, <4>2, <5>1, <5>2
      <4>3. QED BY Zenon, <4>1, <4>2
    <3>10. u_n'[d] = N
      BY Zenon, <2>1, <3>2
    <3>11. InRound(d)'
      BY Zenon, <3>9, <3>10 DEF InRound
    <3>12. Counting'
      BY Zenon, <2>1, <2>2, <3>2, <3>4, <3>8, <3>11 DEF Counting
    <3>13. QED BY Zenon, <3>5, <3>12 DEF UInv
  <2>12. QED BY Zenon, <2>10, <2>11
<1>same. ASSUME UNCHANGED U!vars PROVE UInv'
  <2>1. UNCHANGED <<u_state, u_ctx, u_current, u_regs, u_started, u_n, u_created, u_exited>>
    BY Zenon, <1>same DEF U!vars
  <2>2. U!TypeOK' /\ (Creating => Creating') /\ (Starting => Starting') /\ (Ended => Ended')
    BY Zenon, <1>0, <2>1 DEF U!TypeOK, Creating, Starting, Ended, Threads
  <2>3. Counting => Counting'
    BY <2>1 DEF Counting, Threads, InRound
  <2>4. QED BY Zenon, <1>0, <2>2, <2>3 DEF UInv
<1>2. QED
  BY Zenon, <1>create, <1>main, <1>Start, <1>wait, <1>go, <1>Count, <1>incr, <1>exit, <1>same
  DEF U!Next, U!Exited

\* Threads count only when all have started, none is ever more than one ahead of
\* another, and each runs on its own stack: for any number of threads and any N.
THEOREM ThreadsTakeTurns == U!Spec => []InTurn
<1>0. UThreadAssumption
  BY Zenon, UserProgramsAssumption
<1> USE <1>0
<1>1. UInv => U!InTurn /\ U!OwnStack
  <2> SUFFICES ASSUME UInv PROVE U!InTurn /\ U!OwnStack
    BY Zenon
  <2>0. U!TypeOK /\ U!Tid = U!Func \cup {U!main} /\ N \in Nat
    BY Zenon, Sizes DEF UInv
  <2>1. CASE Creating
    <3>1. u_regs.sp = U!main /\ u_current = U!main /\ \A t \in U!Func : u_n[t] = 0 /\
            u_state[t] # "RUNNING"
      BY Zenon, <2>1 DEF Creating, At0
    <3>2. QED BY <2>0, <3>1 DEF U!InTurn, U!OwnStack
  <2>2. CASE Starting
    BY <2>0, <2>2 DEF Starting, Threads, U!InTurn, U!OwnStack
  <2>3. CASE Counting
    <3>1. PICK c \in U!Func : c = u_current /\ u_regs.sp = c /\ InRound(c)
      BY Zenon, <2>3 DEF Counting, Threads
    <3>2. \A t \in U!Func : u_n[t] \in 0 .. N
      BY Zenon, <2>0 DEF U!TypeOK
    <3>3. \A t \in U!Func : u_n[t] = u_n[c] \/ u_n[t] = u_n[c] + 1
      BY <2>0, <3>1, <3>2 DEF InRound
    <3>4. \A f, g \in U!Func : u_n[f] <= u_n[g] + 1
      BY <2>0, <3>1, <3>2, <3>3
    <3>5. \A t \in U!Func \ {c} : u_state[t] # "RUNNING"
      BY Zenon, <3>1 DEF InRound
    <3>6. QED BY Zenon, <2>0, <2>3, <3>1, <3>4, <3>5 DEF U!InTurn, U!OwnStack, Counting
  <2>4. CASE Ended
    BY <2>0, <2>4 DEF Ended, U!InTurn, U!OwnStack
  <2>5. QED BY Zenon, <2>1, <2>2, <2>3, <2>4 DEF UInv
<1>2. QED BY <1>1, InitU, NextU, PTL DEF U!Spec, InTurn
-----------------------------------------------------------------------------
(* barrier *)

INSTANCE FiniteSetTheorems

Waiting == {h \in Thread : pc[h] = "wait"}

\* Where a thread is in its round.
Place(h) ==
  /\ pc[h] # "abort"
  /\ pc[h] = "woken" => i[h] = round - 1
  /\ pc[h] # "woken" => i[h] = round
  /\ pc[h] \in {"barrier", "wait"} => i[h] < Rounds

\* The inductive invariant.
IInv ==
  /\ TypeOK
  /\ nthread = Cardinality(Waiting)
  /\ \A h \in Thread : Place(h)

\* The set of the threads that wait is finite.
LEMMA WaitingFinite ==
  /\ IsFiniteSet(Waiting) /\ IsFiniteSet(Thread)
  /\ Cardinality(Waiting) \in Nat /\ Cardinality(Thread) \in Nat
BY FS_Subset, FS_CardinalityType, BarrierAssumption DEF Waiting

\* The threads start in round 0.
LEMMA InitTogether == Init => IInv
<1> SUFFICES ASSUME Init PROVE IInv
  OBVIOUS
<1>1. Waiting = {}
  BY DEF Init, Waiting
<1>2. Cardinality(Waiting) = 0
  BY <1>1, FS_EmptySet
<1>3. Cardinality(Thread) # 0 /\ Cardinality(Thread) \in Nat
  BY FS_EmptySet, WaitingFinite, BarrierAssumption
<1>4. TypeOK
  BY <1>3, BarrierAssumption DEF Init, TypeOK, Labels
<1>5. \A h \in Thread : Place(h)
  BY BarrierAssumption DEF Init, Place
<1>6. QED BY <1>2, <1>4, <1>5 DEF IInv, Init

\* When the last thread enters the barrier all others wait in it.
LEMMA OthersWait ==
  ASSUME IInv, NEW h \in Thread, pc[h] # "wait", nthread + 1 = Cardinality(Thread)
  PROVE  Waiting = Thread \ {h}
<1>1. Waiting \subseteq Thread \ {h}
  BY DEF Waiting
<1>2. IsFiniteSet(Thread \ {h}) /\ Cardinality(Thread \ {h}) = Cardinality(Thread) - 1
  BY WaitingFinite, FS_RemoveElement
<1>3. Cardinality(Waiting) = Cardinality(Thread \ {h})
  BY <1>2, WaitingFinite DEF IInv
<1>4. QED BY <1>1, <1>2, <1>3, FS_Subset, WaitingFinite

\* Every step keeps the threads together.
LEMMA NextTogether == ~ Spurious /\ IInv /\ [Next]_vars => IInv'
<1> SUFFICES ASSUME ~ Spurious, IInv, [Next]_vars PROVE IInv'
  OBVIOUS
<1> USE WaitingFinite
<1>1. TypeOK /\ nthread = Cardinality(Waiting) /\ (\A h \in Thread : Place(h)) /\ Rounds \in Nat
  BY BarrierAssumption DEF IInv
<1>2. CASE UNCHANGED vars
  BY <1>1, <1>2 DEF IInv, TypeOK, Waiting, Place, vars
<1>3. ASSUME NEW h \in Thread, Loop(h) PROVE IInv'
  <2>1. UNCHANGED <<nthread, round, i>> /\ pc[h] = "loop" /\ i[h] = round
    BY <1>1, <1>3 DEF Loop, Place
  <2>2. pc' = [pc EXCEPT ![h] = IF i[h] = Rounds THEN "done" ELSE "barrier"]
    BY Zenon, <1>3, <2>1 DEF Loop, Goto
  <2>3. TypeOK'
    BY <1>1, <2>1, <2>2 DEF TypeOK, Labels
  <2>4. Waiting' = Waiting
    BY <1>1, <2>1, <2>2 DEF Waiting, TypeOK
  <2>5. \A k \in Thread : Place(k)'
    BY <1>1, <2>1, <2>2 DEF Place, TypeOK
  <2>6. QED BY <1>1, <2>1, <2>3, <2>4, <2>5 DEF IInv
<1>4. ASSUME NEW h \in Thread, Arrive(h) PROVE IInv'
  <2>1. /\ pc[h] = "barrier" /\ nthread + 1 # Cardinality(Thread) /\ nthread' = nthread + 1
        /\ pc' = [pc EXCEPT ![h] = "wait"] /\ UNCHANGED <<round, i>>
    BY <1>4 DEF Arrive, Goto
  <2>2. TypeOK'
    BY <1>1, <2>1 DEF TypeOK, Labels
  <2>3. Waiting' = Waiting \cup {h} /\ h \notin Waiting
    BY <1>1, <2>1 DEF Waiting, TypeOK
  <2>4. Cardinality(Waiting') = Cardinality(Waiting) + 1
    BY Zenon, <2>3, FS_AddElement
  <2>5. \A k \in Thread : Place(k)'
    BY <1>1, <2>1 DEF Place, TypeOK
  <2>6. QED BY <1>1, <2>1, <2>2, <2>4, <2>5 DEF IInv
<1>5. ASSUME NEW h \in Thread, Last(h) PROVE IInv'
  <2>1. /\ pc[h] = "barrier" /\ nthread + 1 = Cardinality(Thread)
        /\ round' = round + 1 /\ nthread' = 0 /\ i' = [i EXCEPT ![h] = @ + 1]
    BY <1>5 DEF Last, Return
  <2>2. Waiting = Thread \ {h}
    BY <2>1, OthersWait
  <2>3. pc' = [k \in Thread |-> IF k = h THEN "loop" ELSE "woken"]
    BY <1>5, <2>2 DEF Last, Waiting
  <2>4. i[h] = round /\ i[h] < Rounds
    BY <1>1, <2>1 DEF Place
  <2>5. TypeOK'
    BY <1>1, <2>1, <2>3, <2>4 DEF TypeOK, Labels
  <2>6. Waiting' = {}
    BY <2>3 DEF Waiting
  <2>7. Cardinality(Waiting') = 0
    BY <2>6, FS_EmptySet
  <2>8. \A k \in Thread : k # h => i[k] = round
    BY <1>1, <2>2 DEF Place, Waiting
  <2>9. \A k \in Thread : Place(k)'
    BY <1>1, <2>1, <2>3, <2>4, <2>8 DEF Place, TypeOK
  <2>10. QED BY <2>1, <2>5, <2>7, <2>9 DEF IInv
<1>6. ASSUME NEW h \in Thread, Wake(h) PROVE IInv'
  <2>1. /\ pc[h] = "woken" /\ pc' = [pc EXCEPT ![h] = "loop"]
        /\ i' = [i EXCEPT ![h] = @ + 1] /\ UNCHANGED <<nthread, round>>
    BY <1>6 DEF Wake, Goto, Return
  <2>2. i[h] = round - 1
    BY <1>1, <2>1 DEF Place
  <2>3. TypeOK'
    BY <1>1, <2>1, <2>2 DEF TypeOK, Labels
  <2>4. Waiting' = Waiting
    BY <1>1, <2>1 DEF Waiting, TypeOK
  <2>5. \A k \in Thread : Place(k)'
    BY <1>1, <2>1, <2>2 DEF Place, TypeOK
  <2>6. QED BY <1>1, <2>1, <2>3, <2>4, <2>5 DEF IInv
<1>7. QED
  BY <1>2, <1>3, <1>4, <1>5, <1>6 DEF Next, Step, Finished

\* thread's assertion never fails, and no thread is more than one round ahead of
\* another, whatever the number of threads and rounds, as long as
\* pthread_cond_wait returns only after a broadcast.
THEOREM BarrierHolds ==
  ASSUME ~ Spurious
  PROVE  Spec => []AssertHolds
<1>1. IInv => AssertHolds
  BY BarrierAssumption DEF IInv, AssertHolds, Together, Place, TypeOK
<1>2. QED BY <1>1, InitTogether, NextTogether, PTL DEF Spec
=============================================================================
