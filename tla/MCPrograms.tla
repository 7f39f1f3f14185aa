------------------------------ MODULE MCPrograms -----------------------------
(***************************************************************************)
(* The programs of the multithreading lab and of the utilities lab, and    *)
(* programs that sleep.  One is started and runs alone; the variables of   *)
(* the others keep their initial values.                                   *)
(***************************************************************************)
EXTENDS UserPrograms, Sequences

CONSTANTS LAST, MaxOpen, MaxInput     \* of primes, find and xargs

VARIABLES
  program,     \* the program that was started
  t_program, t_out, t_procs, t_pipes

uvars == <<u_state, u_ctx, u_current, u_regs, u_started, u_n, u_created, u_exited>>
pvars == <<p_keys, p_entry, p_table, p_locks, p_phase, p_pc, p_i, p_e, p_missing>>
tvars == <<t_program, t_out, t_procs, t_pipes>>
cvars == <<c_ticks, c_tickslock, c_todo, c_lk, c_state, c_killed, c_pc, c_n, c_ticks0, c_since>>
all   == <<program, vars, uvars, pvars, tvars, cvars>>

\* Files f1, f2, f3 and h below directories top/d/e/g.
Directories == [x \in {"d", "e", "g", "f1", "f2", "f3", "h"} |->
                  CASE x \in {"d", "f1"} -> "top" [] x \in {"e", "f2", "h"} -> "d"
                    [] x = "g" -> "e" [] x = "f3" -> "g"]

T == INSTANCE Utilities WITH
       Tree <- Directories, Dirs <- {"d", "e", "g"}, Top <- "top", Wanted <- {"f1", "f2", "f3"},
       Inputs <- UNION {[1 .. k -> {"a", " ", "nl"}] : k \in 1 .. MaxInput}, Fixed <- <<"echo">>,
       program <- t_program, out <- t_out, procs <- t_procs, pipes <- t_pipes

StartOne ==
  /\ program \in {"barrier", "uthread", "ph", "utilities", "sleep"}
  /\ Init /\ U!Init /\ P!Init /\ T!Init /\ C!Init
  /\ program # "ph" => \A k \in DOMAIN p_keys : p_keys[k] = 0
  /\ program # "utilities" => t_program = "primes"

RunBarrier(h) == program = "barrier" /\ Step(h) /\ UNCHANGED <<program, uvars, pvars, tvars, cvars>>
RunUThread == program = "uthread" /\ U!Next /\ UNCHANGED <<program, vars, pvars, tvars, cvars>>
RunPh == program = "ph" /\ P!Next /\ UNCHANGED <<program, vars, uvars, tvars, cvars>>
RunUtility == program = "utilities" /\ T!Next /\ UNCHANGED <<program, vars, uvars, pvars, cvars>>
Sleeping == program = "sleep" /\ UNCHANGED <<program, vars, uvars, pvars, tvars>>
Over == program = "barrier" /\ Finished /\ UNCHANGED all

RunOne == (\E h \in Thread : RunBarrier(h)) \/ RunUThread \/ RunPh \/ RunUtility
          \/ (Sleeping /\ C!Next) \/ Over

\* A thread or a process that can go on does; who removes files while find runs need not.
\* The timer does not stop, schedulers go round the table, and spinlocks starve nobody.
Programs ==
  /\ StartOne /\ [][RunOne]_all
  /\ WF_all(RunUThread) /\ \A h \in Thread : WF_all(RunBarrier(h))
  /\ WF_all(RunUtility /\ ~ (t_program = "find" /\ T!Unlink))
  /\ \A p \in Sleeper : SF_all(Sleeping /\ C!Kernel(p)) /\ WF_all(Sleeping /\ C!Wakeup(p))
  /\ SF_all(Sleeping /\ C!Tick) /\ WF_all(Sleeping /\ C!TickEnd)
-----------------------------------------------------------------------------
\* primes, pingpong, find and xargs print what they should, whatever the order
\* in which their processes run.
Prints == T!Prints

\* Every program ends.  barrier: every thread passes all rounds.  uthread: every
\* thread counts to N and exits.  utilities: so do all processes of the program.
AllFinish ==
  /\ program = "barrier" ~> \A h \in Thread : pc[h] = "done"
  /\ program = "uthread" ~> U!Counted
  /\ program = "utilities" ~> T!Ended

\* sleep returns, and a process that is killed in it exits.
SleepersWake == C!SleepersWake
=============================================================================
