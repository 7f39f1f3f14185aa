----------------------------- MODULE MCInterrupts ----------------------------
(***************************************************************************)
(* What interrupts drive: the network card's driver, and alarms.  One of   *)
(* the two machines runs; the variables of the other keep their initial    *)
(* values.                                                                 *)
(***************************************************************************)
EXTENDS E1000

CONSTANTS m1, m2, m3, m4, m5, m6, m7,
          Trapframe, MaxAlarm, MaxTicks, MaxNest, Allowed   \* of Alarm

VARIABLES
  machine,     \* the one that runs
  a_regs, a_trapframe, a_copy, a_there, a_alarmticks, a_passedticks, a_interrupted

avars == <<a_regs, a_trapframe, a_copy, a_there, a_alarmticks, a_passedticks, a_interrupted>>
all   == <<machine, vars, avars>>

ASSUME AlarmAssumption ==
  /\ 0 \notin Trapframe
  /\ MaxAlarm \in Nat /\ MaxTicks \in Nat /\ MaxAlarm < MaxTicks /\ MaxNest \in Nat

A == INSTANCE Alarm WITH
       Frame <- Trapframe, Val <- {-1, 0},
       regs <- a_regs, trapframe <- a_trapframe, trapframecopy <- a_copy, there <- a_there,
       alarmticks <- a_alarmticks, passedticks <- a_passedticks, interrupted <- a_interrupted

StartOne ==
  /\ machine \in {"e1000", "alarm"}
  /\ Init /\ A!Init
  /\ machine # "alarm" => \A f \in Trapframe : a_trapframe <= f

OnlyE1000 == machine = "e1000" /\ UNCHANGED <<machine, avars>>
OnlyAlarm == machine = "alarm" /\ UNCHANGED <<machine, vars>>

RunOne == (OnlyE1000 /\ Next) \/ (OnlyAlarm /\ A!Next)

\* Interrupts are taken and the stack frees what it was given; a process that
\* stays in user mode gets timer interrupts.
Machines ==
  /\ StartOne /\ [][RunOne]_all
  /\ WF_all(OnlyE1000 /\ Driver) /\ WF_all(OnlyE1000 /\ CardSend)
  /\ WF_all(OnlyE1000 /\ \E m \in Mbuf : NetFree(m))
  /\ WF_all(OnlyAlarm /\ (A!Fire \/ A!TickOnly))
-----------------------------------------------------------------------------
\* sigreturn takes the program back to where the timer interrupt occurred, with
\* the registers it had.
Restored == A!Restored

\* Who asked for alarms and stays in its program gets one.
AlarmFires == A!AlarmFires
=============================================================================
