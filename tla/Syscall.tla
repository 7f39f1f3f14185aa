------------------------------- MODULE Syscall -------------------------------
(***************************************************************************)
(* From a call in a user program to the kernel function that serves it, in *)
(* each of the labs: the stubs (usys.S, usys.pl), the numbers (syscall.h), *)
(* the tables and syscall() (syscall.c); and the calls trace and sysinfo,  *)
(* with the life of process slots as far as these two see it (proc.c).     *)
(*                                                                         *)
(* A table of functions or of names has an entry [SYS_n] n for each of a   *)
(* set of calls.                                                           *)
(***************************************************************************)
EXTENDS Integers, Sequences, FiniteSets

CONSTANTS NPROC,    \* process slots
          Lab,      \* the labs, each with a kernel of its own
          Argument, \* arguments of trace: sets of the bits that are set
          PLAIN     \* calls that stand for all without an effect here

Slot == 0 .. NPROC - 1

\* trace's mask has a bit for pgaccess (30), but the table of names has none.
ASSUME SyscallAssumption ==
  /\ NPROC \in Nat \ {0}
  /\ Lab \subseteq {"syscalls", "traps", "filesystem", "mmap", "pagetables"}
  /\ "pgaccess" \notin PLAIN \/ \A mask \in Argument : 30 \notin mask

-----------------------------------------------------------------------------
(* syscall.h: the call with number n is the n-th *)

Basic == <<"fork", "exit", "wait", "pipe", "read", "kill", "exec", "fstat", "chdir", "dup",
           "getpid", "sbrk", "sleep", "uptime", "open", "write", "mknod", "unlink", "link",
           "mkdir", "close">>

SYS_syscalls   == Basic \o <<"trace", "sysinfo">>
SYS_traps      == Basic \o <<"sigalarm", "sigreturn">>
SYS_filesystem == Basic \o <<"symlink">>
SYS_mmap       == Basic \o <<"mmap", "munmap">>
SYS_pagetables == Basic \o <<"trace", "sysinfo", "sigalarm", "sigreturn", "symlink", "mmap",
                             "munmap", "connect", "pgaccess">>

SYS(l) == CASE l = "syscalls" -> SYS_syscalls [] l = "traps" -> SYS_traps
            [] l = "filesystem" -> SYS_filesystem [] l = "mmap" -> SYS_mmap
            [] l = "pagetables" -> SYS_pagetables

BasicCalls == {Basic[n] : n \in DOMAIN Basic}

(* The stubs: those in usys.S, or that usys.pl makes where there is none *)

usys_syscalls   == BasicCalls \cup {"trace", "sysinfo"}
usys_traps      == BasicCalls \cup {"sigalarm", "sigreturn"}
usys_filesystem == BasicCalls \cup {"symlink"}
usys_mmap       == BasicCalls \cup {"mmap", "munmap"}
usys_pagetables == BasicCalls \cup {"connect", "pgaccess", "trace", "sysinfo"}

usys(l) == CASE l = "syscalls" -> usys_syscalls [] l = "traps" -> usys_traps
             [] l = "filesystem" -> usys_filesystem [] l = "mmap" -> usys_mmap
             [] l = "pagetables" -> usys_pagetables

(* The functions in syscalls[]; the kernel is built without LAB_NET *)

syscalls_syscalls   == BasicCalls \cup {"trace", "sysinfo"}
syscalls_traps      == BasicCalls \cup {"sigalarm", "sigreturn"}
syscalls_filesystem == BasicCalls \cup {"symlink"}
syscalls_mmap       == BasicCalls \cup {"mmap", "munmap"}
syscalls_pagetables == BasicCalls \cup {"pgaccess", "trace", "sysinfo"}

syscalls(l) == CASE l = "syscalls" -> syscalls_syscalls [] l = "traps" -> syscalls_traps
                 [] l = "filesystem" -> syscalls_filesystem [] l = "mmap" -> syscalls_mmap
                 [] l = "pagetables" -> syscalls_pagetables

(* The tables of names *)

syscall_names == BasicCalls \cup {"trace", "sysinfo"}
syscalls_name == BasicCalls \cup {"trace", "sysinfo"}

NameTable(l) == CASE l = "syscalls" -> syscall_names [] l = "pagetables" -> syscalls_name
                  [] OTHER -> {}

\* The entry of a table for number n, or "none".
Entry(l, table, n) ==
  IF n \in DOMAIN SYS(l) /\ SYS(l)[n] \in table THEN SYS(l)[n] ELSE "none"

-----------------------------------------------------------------------------
VARIABLES
  lab,         \* the kernel that runs
  state,       \* of a slot
  trace_mask,  \* the bits that are set
  asked,       \* what the process or its ancestor last asked to trace
  a7,          \* the number of the call, 0 in user mode
  called,      \* the stub that was called
  scan,        \* nproc under way in a slot: next slot, num
  span         \* processes that existed all the time, or some time, since it began

sysvars == <<lab, state, trace_mask, asked, a7, called, scan, span>>

NoScan == [p |-> -1, num |-> 0]

SysInit ==
  /\ lab \in Lab
  /\ state = [p \in Slot |-> IF p = 0 THEN "used" ELSE "unused"]
  /\ trace_mask = [p \in Slot |-> {}] /\ asked = [p \in Slot |-> {}]
  /\ a7 = [p \in Slot |-> 0]
  /\ called = [p \in Slot |-> "none"]
  /\ scan = [p \in Slot |-> NoScan]
  /\ span = [p \in Slot |-> [all |-> {}, some |-> {}]]

\* li a7, SYS_name; ecall.
Stub(p) ==
  /\ state[p] = "used" /\ a7[p] = 0
  /\ \E name \in usys(lab) :
       /\ name \in PLAIN \cup {"fork", "exit", "wait", "trace", "sysinfo"}
       /\ name = "exit" => p # 0   \* init stays
       /\ called' = [called EXCEPT ![p] = name]
       /\ a7' = [a7 EXCEPT ![p] = CHOOSE n \in DOMAIN SYS(lab) : SYS(lab)[n] = name]
  /\ UNCHANGED <<lab, state, trace_mask, asked, scan, span>>

\* syscall: p is served by function f.
Serve(p, f) ==
  /\ state[p] = "used" /\ a7[p] > 0
  /\ Entry(lab, syscalls(lab), a7[p]) = f

\* The name in the line that is printed when the function has returned, if the
\* bit of the call is set then; or "".
Line(p) == IF a7[p] \in trace_mask'[p] THEN Entry(lab, NameTable(lab), a7[p]) ELSE ""

\* Back to user mode.
SysReturn(p) ==
  /\ a7' = [a7 EXCEPT ![p] = 0]
  /\ called' = [called EXCEPT ![p] = "none"]
  /\ UNCHANGED lab

\* No such number: -1.
Unknown(p) ==
  /\ Serve(p, "none")
  /\ SysReturn(p)
  /\ UNCHANGED <<state, trace_mask, asked, scan, span>>

Other(p) ==
  /\ \E f \in PLAIN : Serve(p, f)
  /\ SysReturn(p)
  /\ UNCHANGED <<state, trace_mask, asked, scan, span>>

sys_trace(p) ==
  /\ Serve(p, "trace")
  /\ \E mask \in Argument :
       /\ trace_mask' = [trace_mask EXCEPT ![p] = mask]
       /\ asked' = [asked EXCEPT ![p] = mask]
       /\ SysReturn(p)
  /\ UNCHANGED <<state, scan, span>>

\* The slots that a scan under way may yet see change.
Seen(q, exists) ==
  span' = [p \in Slot |->
    IF scan[p] = NoScan THEN span[p]
    ELSE IF exists THEN [span[p] EXCEPT !.some = @ \cup {q}] ELSE [span[p] EXCEPT !.all = @ \ {q}]]

\* Mutant: the child keeps the mask of the slot.
sys_forkUnmasked(p) ==
  /\ Serve(p, "fork")
  /\ \/ \E q \in Slot :
          /\ state[q] = "unused" /\ \A r \in 0 .. q - 1 : state[r] # "unused"
          /\ state' = [state EXCEPT ![q] = "used"]
          /\ asked' = [asked EXCEPT ![q] = asked[p]]
          /\ UNCHANGED trace_mask
          /\ Seen(q, TRUE)
     \/ UNCHANGED <<state, trace_mask, asked, span>>
  /\ SysReturn(p)
  /\ UNCHANGED scan

\* fork: the first free slot, with the parent's mask; or -1.
sys_fork(p) ==
  /\ Serve(p, "fork")
  /\ \/ \E q \in Slot :
          /\ state[q] = "unused" /\ \A r \in 0 .. q - 1 : state[r] # "unused"
          /\ state' = [state EXCEPT ![q] = "used"]
          /\ trace_mask' = [trace_mask EXCEPT ![q] = trace_mask[p]]
          /\ asked' = [asked EXCEPT ![q] = asked[p]]
          /\ Seen(q, TRUE)
     \/ UNCHANGED <<state, trace_mask, asked, span>>
  /\ SysReturn(p)
  /\ UNCHANGED scan

\* exit does not return: a zombie.
sys_exit(p) ==
  /\ Serve(p, "exit")
  /\ state' = [state EXCEPT ![p] = "zombie"]
  /\ SysReturn(p)
  /\ asked' = [asked EXCEPT ![p] = {}]
  /\ UNCHANGED <<trace_mask, scan, span>>

\* wait frees the slot of a zombie.
sys_wait(p) ==
  /\ Serve(p, "wait")
  /\ \/ \E q \in Slot :
          /\ state[q] = "zombie"
          /\ state' = [state EXCEPT ![q] = "unused"]
          /\ Seen(q, FALSE)
     \/ UNCHANGED <<state, span>>
  /\ SysReturn(p)
  /\ UNCHANGED <<trace_mask, asked, scan>>

Existing == {q \in Slot : state[q] # "unused"}

\* sysinfo: nproc looks at one slot after the other, each under its lock.
NprocStart(p) ==
  /\ Serve(p, "sysinfo") /\ scan[p] = NoScan
  /\ scan' = [scan EXCEPT ![p] = [p |-> 0, num |-> 0]]
  /\ span' = [span EXCEPT ![p] = [all |-> Existing, some |-> Existing]]
  /\ UNCHANGED <<lab, state, trace_mask, asked, a7, called>>

\* Mutant: zombies are not counted.
NprocStepAlive(p) ==
  LET q == scan[p].p IN
  /\ q \in Slot
  /\ scan' = [scan EXCEPT ![p] = [p |-> q + 1,
                                  num |-> IF state[q] = "used" THEN @.num + 1 ELSE @.num]]
  /\ UNCHANGED <<lab, state, trace_mask, asked, a7, called, span>>

NprocStep(p) ==
  LET q == scan[p].p IN
  /\ q \in Slot
  /\ scan' = [scan EXCEPT ![p] = [p |-> q + 1,
                                  num |-> IF state[q] # "unused" THEN @.num + 1 ELSE @.num]]
  /\ UNCHANGED <<lab, state, trace_mask, asked, a7, called, span>>

NprocEnd(p) ==
  /\ scan[p].p = NPROC
  /\ scan' = [scan EXCEPT ![p] = NoScan]
  /\ span' = [span EXCEPT ![p] = [all |-> {}, some |-> {}]]
  /\ SysReturn(p)
  /\ UNCHANGED <<state, trace_mask, asked>>

SysNext ==
  \E p \in Slot :
    \/ Stub(p) \/ Unknown(p) \/ Other(p) \/ sys_trace(p) \/ sys_fork(p) \/ sys_exit(p)
    \/ sys_wait(p) \/ NprocStart(p) \/ NprocStep(p) \/ NprocEnd(p)

SysSpec == SysInit /\ [][SysNext]_sysvars

-----------------------------------------------------------------------------
\* A stub reaches the function of its name, never another one, whatever gaps the
\* numbers have; and it is traced, under its own name, exactly if the process,
\* or the ancestor it got the mask from, asked for it: no mask stays in a slot.
CallTraced ==
  [][\A p \in Slot : a7[p] > 0 /\ a7'[p] = 0 /\ state'[p] = "used" =>
       LET f == Entry(lab, syscalls(lab), a7[p]) IN
       /\ f \in {called[p], "none"}
       /\ f # "none" =>
            Line(p) = IF \E n \in asked'[p] : n \in DOMAIN SYS(lab) /\ SYS(lab)[n] = f
                      THEN f ELSE ""]_sysvars

\* nproc counts every process that existed all the time of its scan, and nothing
\* that did not exist at some time of it.
NprocBetween ==
  \A p \in Slot : scan[p].p = NPROC =>
    scan[p].num \in Cardinality(span[p].all) .. Cardinality(span[p].some)
=============================================================================
