-------------------------------- MODULE Alarm --------------------------------
(***************************************************************************)
(* sigalarm and sigreturn (xv6-lab-traps: sysproc.c, trap.c, proc.c), for  *)
(* one slot of the process table and the processes that use it in turn.    *)
(*                                                                         *)
(* usertrap saves the interrupted registers at p->trapframe + 512.  That   *)
(* is 512 trapframes further on, in a page of memory that does not belong  *)
(* to the process; there[f] is the memory at that distance from f.         *)
(***************************************************************************)
EXTENDS Integers, Sequences, SequencesExt

CONSTANTS
  Frame,      \* the addresses kalloc may give to the trapframe
  Val,        \* what a register may hold; includes 0 and -1
  MaxAlarm,   \* the largest interval asked for
  MaxTicks,   \* where the count of ticks is cut off, above MaxAlarm
  MaxNest,    \* bound on handlers within handlers
  Allowed     \* the liberties the system takes, of:
              \*   "handler_arms"  a handler calls sigalarm with an interval
              \*   "late_arms"     sigalarm(n) when n ticks are counted already
              \*   "stray_return"  sigreturn is called outside a handler
              \*   "page_used"     the owner of a page writes it while a copy is in it

Regs  == [pc : {"main", "handler"}, a0 : Val, s0 : Val]
Fresh == [pc |-> "main", a0 |-> 0, s0 |-> 0]

VARIABLES
  regs,           \* the registers of the process, in p->trapframe on a trap
  trapframe, trapframecopy,
  there,
  alarmticks, passedticks,
  interrupted     \* the registers at each alarm not yet returned from

vars == <<regs, trapframe, trapframecopy, there, alarmticks, passedticks, interrupted>>

\* Every variable has its type.
TypeOK ==
  /\ regs \in Regs
  /\ trapframe \in Frame
  /\ trapframecopy \in Frame \cup {0}
  /\ there \in [Frame -> Regs]
  /\ alarmticks \in 0 .. MaxAlarm
  /\ passedticks \in 0 .. MaxTicks
  /\ interrupted \in BoundedSeq(Regs, MaxNest + 1)

\* allocproc, for the first process in the slot.
Init ==
  /\ regs = Fresh
  /\ trapframe \in Frame
  /\ trapframecopy = 0
  /\ there = [f \in Frame |-> Fresh]
  /\ alarmticks = 0 /\ passedticks = 0
  /\ interrupted = <<>>

-----------------------------------------------------------------------------
\* The process computes, in the program or in the handler.
Compute ==
  /\ \E a, s \in Val : regs' = [regs EXCEPT !.a0 = a, !.s0 = s]
  /\ UNCHANGED <<trapframe, trapframecopy, there, alarmticks, passedticks, interrupted>>

\* A timer interrupt from user mode: usertrap.
Expired == alarmticks # 0 /\ passedticks + 1 = alarmticks

\* Mutant: the registers are saved after the handler's address was put in.
FireLate ==
  /\ Expired
  /\ Len(interrupted) < MaxNest
  /\ passedticks' = alarmticks
  /\ trapframecopy' = trapframe
  /\ regs' = [regs EXCEPT !.pc = "handler"]
  /\ there' = [there EXCEPT ![trapframe] = regs']
  /\ interrupted' = Append(interrupted, regs)
  /\ UNCHANGED <<trapframe, alarmticks>>

Fire ==
  /\ Expired
  /\ Len(interrupted) < MaxNest
  /\ passedticks' = alarmticks
  /\ trapframecopy' = trapframe
  /\ there' = [there EXCEPT ![trapframe] = regs]
  /\ regs' = [regs EXCEPT !.pc = "handler"]
  /\ interrupted' = Append(interrupted, regs)
  /\ UNCHANGED <<trapframe, alarmticks>>

TickOnly ==
  /\ alarmticks # 0 /\ ~ Expired
  /\ passedticks < MaxTicks
  /\ passedticks' = passedticks + 1
  /\ UNCHANGED <<regs, trapframe, trapframecopy, there, alarmticks, interrupted>>

\* sys_sigalarm.
Sigalarm(n) ==
  /\ n > 0 /\ regs.pc = "handler" => "handler_arms" \in Allowed
  /\ n > 0 /\ passedticks >= n => "late_arms" \in Allowed
  /\ alarmticks' = n
  /\ regs' = [regs EXCEPT !.a0 = 0]
  /\ UNCHANGED <<trapframe, trapframecopy, there, passedticks, interrupted>>

\* Mutant: the count of ticks is not reset.
SigreturnNoReset ==
  /\ regs.pc = "main" => "stray_return" \in Allowed
  /\ IF trapframecopy # trapframe
     THEN /\ regs' = [regs EXCEPT !.a0 = -1]
          /\ UNCHANGED interrupted
     ELSE /\ regs' = there[trapframe]
          /\ interrupted' = IF regs.pc = "handler" /\ interrupted # <<>>
                            THEN Front(interrupted) ELSE interrupted
  /\ UNCHANGED <<trapframe, trapframecopy, there, alarmticks, passedticks>>

\* sys_sigreturn; its result is what the process finds in a0.
Sigreturn ==
  /\ regs.pc = "main" => "stray_return" \in Allowed
  /\ IF trapframecopy # trapframe
     THEN /\ regs' = [regs EXCEPT !.a0 = -1]
          /\ UNCHANGED <<passedticks, interrupted>>
     ELSE /\ regs' = there[trapframe]
          /\ passedticks' = 0
          /\ interrupted' = IF regs.pc = "handler" /\ interrupted # <<>>
                            THEN Front(interrupted) ELSE interrupted
  /\ UNCHANGED <<trapframe, trapframecopy, there, alarmticks>>

\* The process exits and the slot is used again: freeproc and allocproc.
Reuse ==
  /\ trapframe' \in Frame
  /\ regs' = Fresh
  /\ alarmticks' = 0 /\ passedticks' = 0
  /\ interrupted' = <<>>
  /\ UNCHANGED <<trapframecopy, there>>

\* The owner of a page in which a copy is kept writes to it.
OwnerWrites(f) ==
  /\ f = trapframe /\ interrupted # <<>> => "page_used" \in Allowed
  /\ \E r \in Regs : there' = [there EXCEPT ![f] = r]
  /\ UNCHANGED <<regs, trapframe, trapframecopy, alarmticks, passedticks, interrupted>>

Next ==
  \/ Compute \/ Fire \/ TickOnly \/ Sigreturn \/ Reuse
  \/ \E n \in 0 .. MaxAlarm : Sigalarm(n)
  \/ \E f \in Frame : OwnerWrites(f)

Spec == Init /\ [][Next]_vars

\* A process that stays in user mode gets timer interrupts.
FairSpec == Spec /\ WF_vars(Fire \/ TickOnly)
-----------------------------------------------------------------------------
\* alarmtest.c: when the handler returns, "it returns to the point in the
\* program where the timer interrupt occurred, with all registers holding the
\* same values".
Restored ==
  [][Sigreturn /\ regs.pc = "handler" /\ interrupted # <<>> => regs' = Last(interrupted)]_vars

\* alarmtest.c tests "whether the kernel calls the alarm handler even a single
\* time", although the count of ticks is only compared for equality with the
\* interval: a process that asked for alarms and stays in its program gets one, unless it
\* calls sigreturn outside a handler for ever: each call resets the count.
AlarmFires ==
  <>[][~ (Sigreturn /\ regs.pc = "main")]_vars
    => ((alarmticks # 0 /\ regs.pc = "main") ~> (alarmticks = 0 \/ regs.pc = "handler"))
=============================================================================
