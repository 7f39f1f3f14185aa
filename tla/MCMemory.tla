------------------------------ MODULE MCMemory -------------------------------
(***************************************************************************)
(* Memory, from the free lists of kalloc up to malloc, and system calls:   *)
(* Kalloc (locks lab), PageTable and UserCopy (pagetables lab), Mmap (mmap *)
(* lab), Umalloc, and Syscall (five labs).                                 *)
(* One of the labs is booted and runs alone; the variables of the others   *)
(* keep their initial values.                                              *)
(***************************************************************************)
EXTENDS Kalloc, Syscall, UserMemory, TLC

CONSTANTS p1, p2, g1, g2, none

VARIABLES
  part,     \* what runs
  u_freep, u_header, u_used, u_asked, u_core, u_brk,
  t_free, t_pt, t_proc, t_panic, t_calls,
  m_fs, m_vm, m_proc, m_does, m_ops, m_panic

uvars == <<u_freep, u_header, u_used, u_asked, u_core, u_brk>>
tvars == <<t_free, t_pt, t_proc, t_panic, t_calls>>
mvars == <<m_fs, m_vm, m_proc, m_does, m_ops, m_panic>>
cvars == <<c_pagetable, c_sz, c_mem, c_buf, c_was, c_job>>

\* Blocks of one to seven bytes in twelve headers of two.
U == INSTANCE Umalloc WITH
       HEADER <- 2, CHUNK <- 4, LIMIT <- 12, Requests <- {1, 3, 7}, Holes <- {1},
       freep <- u_freep, header <- u_header, used <- u_used, asked <- u_asked,
       core <- u_core, brk <- u_brk

\* Two processes; pages of two bytes, two entries in a page of a table of three
\* levels; memory that runs out sooner or later.
Segment(v, n) == [vaddr |-> v, memsz |-> n]

T == INSTANCE PageTable WITH
       NPROC <- 2, PGSIZE <- 2, NPTE <- 2, LEVELS <- 3, NFRAME <- 14,
       Sizes <- {8, 11, 14}, MAXSCAN <- 2, INTBITS <- 2, MaxSz <- 6, MaxCalls <- 4,
       Programs <- {<<Segment(0, 3)>>, <<Segment(0, 2), Segment(1, 2)>>},
       Sbrk <- {1, 3, -1, -3},
       free <- t_free, pt <- t_pt, proc <- t_proc, panic <- t_panic, calls <- t_calls

\* One program that does everything, and two that map files.
Everything == {"open", "dup", "close", "unlink", "read", "write", "sbrk", "mmap"}
Alone      == 1 :> Everything @@ 2 :> {}
Together   == 1 :> {"open", "close", "mmap"} @@ 2 :> {"open", "unlink", "mmap"}

M == INSTANCE Mmap WITH
       Proc <- {1, 2}, NFILE <- 2, NOFILE <- 2, VMASIZE <- 2, NInode <- 2, Name <- {"a"},
       Present <- "a", Frame <- {g1, g2}, NoFrame <- none, MAXVA <- 2, MAXFILE <- 1,
       MaxMaps <- 1, Workloads <- {Alone, Together}, MaxOps <- 6,
       fs <- m_fs, vm <- m_vm, proc <- m_proc, does <- m_does, ops <- m_ops, panic <- m_panic

StartOne ==
  /\ part \in {"kalloc", "umalloc", "pagetable", "mmap", "usercopy", "syscall"}
  /\ U!Init
  /\ Init /\ (part # "kalloc" => end = 0)
  /\ T!Init /\ (part # "pagetable" => t_free = 1 .. 14)
  /\ M!Init /\ (part # "mmap" => m_does = Alone)
  /\ C!Init /\ (part # "usercopy" =>
                   /\ c_pagetable = [v \in C!Page |-> 0] /\ c_sz = 6
                   /\ c_mem = [f \in C!Frame |-> [o \in C!Offset |-> C!Id(f, o)]])
  /\ SysInit /\ (part # "syscall" => lab = "syscalls")

RunOne ==
  \/ part = "kalloc" /\ Next /\ UNCHANGED <<part, uvars, tvars, mvars, cvars, sysvars>>
  \/ part = "umalloc" /\ U!Next /\ UNCHANGED <<part, vars, tvars, mvars, cvars, sysvars>>
  \/ part = "pagetable" /\ T!Next /\ UNCHANGED <<part, vars, uvars, mvars, cvars, sysvars>>
  \/ part = "mmap" /\ M!Next /\ UNCHANGED <<part, vars, uvars, tvars, cvars, sysvars>>
  \/ part = "usercopy" /\ C!Next /\ UNCHANGED <<part, vars, uvars, tvars, mvars, sysvars>>
  \/ part = "syscall" /\ SysNext /\ UNCHANGED <<part, vars, uvars, tvars, mvars, cvars>>

Memory == StartOne /\ [][RunOne]_<<part, vars, uvars, tvars, mvars, cvars, sysvars>>

Symmetric == Permutations(Proc) \cup Permutations({g1, g2})
-----------------------------------------------------------------------------
\* malloc and free: the blocks in use and the free ones make up the heap, no
\* two overlap, and no two free ones are neighbours.
HeapExact == part = "umalloc" => U!BlocksTile /\ U!Coalesced

\* No page of memory is lost, but those across the bounds of kinit's parts, and
\* none is used twice, whatever call failed half-way.
PagesExact ==
  /\ part = "pagetable" => T!PagesExact
  /\ part = "kalloc" => FewLost

\* A process has exactly the pages that its size says, and pgaccess reports
\* those that were accessed since the last call.
AsSized == part = "pagetable" => T!AsSized /\ T!AccessExact

\* An open file lives as long as a descriptor or a mapping has it.
HoldersExact == part = "mmap" => M!HoldersExact /\ M!FramesExact

\* What is stored through a private mapping stays in the process.
PrivateStays == part = "mmap" => M!PrivateStays
=============================================================================
