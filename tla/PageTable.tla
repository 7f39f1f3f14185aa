------------------------------ MODULE PageTable ------------------------------
(***************************************************************************)
(* Page tables (xv6-lab-pagetables/kernel/vm.c and exec.c, and the parts   *)
(* of xv6-lab-traps/proc.c that make and free the memory of a process).    *)
(*                                                                         *)
(* Page-table pages come from the same free list as user pages, so a walk  *)
(* that allocates may fail with some of its tables in place.  A step takes *)
(* one page from the list, so that processes compete for the last ones; a  *)
(* process gives back all that it gives back in one step, since nobody can *)
(* see its pages.  Pages are taken lowest first.  What a page holds is     *)
(* left out, except for page-table entries (Cow has the contents).         *)
(***************************************************************************)
EXTENDS Integers, Sequences, FiniteSets, FiniteSetsExt, SequencesExt

CONSTANTS NPROC,
          PGSIZE,    \* bytes of a page
          NPTE,      \* entries of a page-table page
          LEVELS,    \* levels of page-table pages
          NFRAME,    \* pages of physical memory
          Sizes,     \* how many of them a machine may have
          MAXSCAN,   \* pages of a call of pgaccess
          INTBITS,   \* width of an int; the bit mask of pgaccess has twice that
          Programs,  \* sequences of [vaddr, memsz]
          Sbrk,      \* the arguments of sbrk
          MaxSz,     \* bound on the size of a process that calls it
          MaxCalls   \* bound on the system calls

Slot  == 1 .. NPROC
Frame == 1 .. NFRAME
Index == 0 .. NPTE - 1
Va    == 0 .. NPTE ^ LEVELS - 1    \* in pages
TRAMPOLINE == NPTE ^ LEVELS - 1
TRAPFRAME  == NPTE ^ LEVELS - 2
Special    == {TRAMPOLINE, TRAPFRAME}
Trampoline == NFRAME + 1           \* a page of the kernel's text

VARIABLES
  free,   \* kmem.freelist
  pt,     \* the entries of page-table pages
  proc,   \* for each process
  panic,
  calls

vars == <<free, pt, proc, panic, calls>>

NoPte  == [to |-> 0, leaf |-> FALSE, u |-> FALSE, a |-> FALSE]
Zeroes == [i \in Index |-> NoPte]

\* touched: pages used since pgaccess.  Of a call: the page table t and the process
\* np it makes, the page mem it maps at a, one of lo .. end - 1, in which part of
\* the call (stage), the size it aims at, what exec has loaded and has yet to.
NoProc == [used |-> FALSE, pagetable |-> 0, trapframe |-> 0, sz |-> 0, touched |-> {},
           pc |-> "user", t |-> 0, np |-> 0, mem |-> 0, a |-> 0, lo |-> 0, end |-> 0,
           stage |-> "", goal |-> 0, top |-> 0, segs |-> <<>>]

\* The first process is made by userinit: allocproc, uvminit.
Init ==
  /\ \E n \in Sizes : free = 1 .. n
  /\ pt = [f \in Frame |-> Zeroes]
  /\ proc = [p \in Slot |->
       IF p = 1 THEN [NoProc EXCEPT !.used = TRUE, !.pc = "trapframe", !.stage = "init", !.np = 1]
       ELSE NoProc]
  /\ panic = ""
  /\ calls = 0

At(p, l) == panic = "" /\ proc[p].used /\ proc[p].pc = l

\* Mutant: rounded down.
PagesDown(sz) == sz \div PGSIZE

Pages(sz) == (sz + PGSIZE - 1) \div PGSIZE   \* PGROUNDUP(sz) / PGSIZE

PX(level, va) == (va \div NPTE ^ level) % NPTE

-----------------------------------------------------------------------------
(* One page table *)

\* How far walk gets without kalloc: a page-table page, and its level.
walk(t, va) ==
  FoldLeft(LAMBDA w, l : IF w.l = l /\ pt[w.t][PX(l, va)].to # 0
                         THEN [t |-> pt[w.t][PX(l, va)].to, l |-> l - 1] ELSE w,
           [t |-> t, l |-> LEVELS - 1], [l \in 1 .. LEVELS - 1 |-> LEVELS - l])

Pte(t, va) == LET w == walk(t, va) IN IF w.l > 0 THEN NoPte ELSE pt[w.t][PX(0, va)]

\* walkaddr: only pages that the user may touch.
walkaddr(t, va) == IF va \in Va /\ Pte(t, va).u THEN Pte(t, va).to ELSE 0

SetPte(t, va, e) == [pt EXCEPT ![walk(t, va).t][PX(0, va)] = e]

\* The page-table pages that t leads to, with t.
Tables(t) ==
  FoldLeft(LAMBDA s, l : s \cup (UNION {{pt[u][i].to : i \in {j \in Index : ~pt[u][j].leaf}} : u \in s} \ {0}),
           {t}, [l \in 1 .. LEVELS - 1 |-> l])

\* uvmunmap of the pages as, which are freed, and kept, which are not; then, if whole,
\* freewalk.  The pages in hand are freed, too.  What is not as they expect is a
\* panic; that a page is freed twice they do not notice, but here is one, too.
Free(t, as, kept, whole, hand) ==
  LET mapped == {a \in Va : Pte(t, a).to # 0}
      gone   == as \cup kept
      given  == hand \cup (IF whole THEN Tables(t) ELSE {})
      freed  == given \cup {Pte(t, a).to : a \in as \cap mapped}
  IN
  /\ panic' = CASE ~(gone \subseteq mapped) -> "uvmunmap: not mapped"
                [] gone \subseteq mapped /\ whole /\ gone # mapped -> "freewalk: leaf"
                [] gone \subseteq mapped /\ (whole => gone = mapped)
                     /\ (freed \cap free # {}
                           \/ Cardinality(freed) # Cardinality(given) + Cardinality(as)) -> "freed twice"
                [] OTHER -> panic
  /\ free' = free \cup freed
  /\ pt' = [f \in Frame |-> IF f \in freed THEN Zeroes ELSE
              [i \in Index |-> IF \E a \in gone : walk(t, a) = [t |-> f, l |-> 0] /\ PX(0, a) = i
                               THEN NoPte ELSE pt[f][i]]]

\* The state of p once its call is over.
User(p) == [NoProc EXCEPT !.used = TRUE, !.pagetable = proc[p].pagetable,
              !.trapframe = proc[p].trapframe, !.sz = proc[p].sz, !.touched = proc[p].touched]

-----------------------------------------------------------------------------
(* allocproc and proc_pagetable *)

\* allocproc: an unused slot, with its trapframe.  freeproc gives the slot back.
Trapframe(p) ==
  /\ At(p, "trapframe")
  /\ \/ /\ free = {}
        /\ proc' = [proc EXCEPT ![p] = User(p), ![proc[p].np] = NoProc]
        /\ UNCHANGED free
     \/ /\ free # {}
        /\ free' = free \ {Min(free)}
        /\ proc' = [proc EXCEPT ![proc[p].np].trapframe = Min(free), ![p].pc = "create"]
  /\ UNCHANGED <<pt, panic, calls>>

\* proc_pagetable: uvmcreate, and on to mapping the trampoline.
Create(p) ==
  LET np == proc[p].np IN
  /\ At(p, "create")
  /\ \/ /\ free = {} /\ np # p
        /\ free' = {proc[np].trapframe}
        /\ proc' = [proc EXCEPT ![p] = User(p), ![np] = NoProc]
     \/ /\ free = {} /\ np = p
        /\ proc' = [proc EXCEPT ![p] = User(p)]
        /\ UNCHANGED free
     \/ /\ free # {}
        /\ free' = free \ {Min(free)}
        /\ proc' = [proc EXCEPT ![p] = [@ EXCEPT !.pc = "map", !.t = Min(free),
                      !.a = TRAMPOLINE, !.mem = Trampoline]]
  /\ UNCHANGED <<pt, panic, calls>>

\* What p does when the page at a is mapped.
Mapped(p) ==
  LET l == proc[p] IN
  CASE l.a = TRAMPOLINE -> [l EXCEPT !.a = TRAPFRAME, !.mem = proc[l.np].trapframe]
    [] l.a = TRAPFRAME  -> [l EXCEPT !.pc = "made", !.mem = 0]
    [] OTHER -> [l EXCEPT !.a = @ + 1, !.mem = 0,
                          !.pc = IF l.a + 1 = l.end THEN "alloced" ELSE "page"]

\* The entry that maps mem.
Leaf(p) ==
  LET l == proc[p] IN
  [to |-> l.mem, leaf |-> TRUE,
   u |-> IF l.stage = "copy" THEN Pte(l.pagetable, l.a).u ELSE l.a \notin Special,
   a |-> l.stage = "copy" /\ l.a \notin Special /\ Pte(l.pagetable, l.a).a]

\* Mutant: walk does not enter the table it makes.
MapUnlinked(p) ==
  LET l == proc[p]
      w == walk(l.t, l.a)
  IN
  /\ At(p, "map")
  /\ \/ /\ w.l > 0 /\ free # {}
        /\ free' = free \ {Min(free)}
        /\ UNCHANGED <<pt, proc, panic>>
     \/ /\ w.l > 0 /\ free = {}
        /\ proc' = [proc EXCEPT ![p].pc = "fail"]
        /\ UNCHANGED <<free, pt, panic>>
     \/ /\ w.l = 0
        /\ panic' = IF Pte(l.t, l.a).to # 0 THEN "mappages: remap" ELSE ""
        /\ pt' = SetPte(l.t, l.a, Leaf(p))
        /\ proc' = [proc EXCEPT ![p] = Mapped(p)]
        /\ UNCHANGED free
  /\ UNCHANGED calls

\* mappages of one page: walk makes one more table, there is none, or the entry is set.
Map(p) ==
  LET l == proc[p]
      w == walk(l.t, l.a)
  IN
  /\ At(p, "map")
  /\ \/ /\ w.l > 0 /\ free # {}
        /\ pt' = [pt EXCEPT ![w.t][PX(w.l, l.a)] = [NoPte EXCEPT !.to = Min(free)]]
        /\ free' = free \ {Min(free)}
        /\ UNCHANGED <<proc, panic>>
     \/ /\ w.l > 0 /\ free = {}
        /\ proc' = [proc EXCEPT ![p].pc = "fail"]
        /\ UNCHANGED <<free, pt, panic>>
     \/ /\ w.l = 0
        /\ panic' = IF Pte(l.t, l.a).to # 0 THEN "mappages: remap" ELSE ""
        /\ pt' = SetPte(l.t, l.a, Leaf(p))
        /\ proc' = [proc EXCEPT ![p] = Mapped(p)]
        /\ UNCHANGED free
  /\ UNCHANGED calls

\* uvmalloc and uvmcopy: kalloc of a page.
Page(p) ==
  /\ At(p, "page")
  /\ IF free = {} THEN proc' = [proc EXCEPT ![p].pc = "fail"] /\ UNCHANGED free
     ELSE /\ free' = free \ {Min(free)}
          /\ proc' = [proc EXCEPT ![p].mem = Min(free), ![p].pc = "map"]
  /\ UNCHANGED <<pt, panic, calls>>

\* kalloc failed: what uvmalloc, uvmcopy and proc_pagetable undo, and their callers.
Fail(p) ==
  LET l    == proc[p]
      new  == l.stage \in {"init", "copy"}
      hand == {l.mem} \ {0}
      tf   == IF new THEN {proc[l.np].trapframe} ELSE {}
  IN
  /\ At(p, "fail")
  /\ CASE l.a = TRAMPOLINE -> Free(l.t, {}, {}, TRUE, tf)
       [] l.a = TRAPFRAME  -> Free(l.t, {}, {TRAMPOLINE}, TRUE, tf)
       [] l.a \notin Special /\ l.stage = "grow" -> Free(l.t, l.lo .. l.a - 1, {}, FALSE, hand)
       [] OTHER -> Free(l.t, 0 .. l.a - 1, Special, TRUE, hand \cup tf)
  /\ proc' = [q \in Slot |-> IF q = p THEN User(p) ELSE IF q = l.np THEN NoProc ELSE proc[q]]
  /\ UNCHANGED calls

-----------------------------------------------------------------------------
(* System calls *)

\* uvmalloc(t, oldsz, newsz), from l on.
Uvmalloc(l, oldsz, newsz, stage) ==
  LET a == Pages(oldsz)
      n == IF newsz < oldsz THEN oldsz ELSE newsz
  IN [l EXCEPT !.a = a, !.lo = a, !.end = Pages(n), !.goal = n, !.stage = stage,
               !.pc = IF a < Pages(n) THEN "page" ELSE "alloced"]

Call(p) == At(p, "user") /\ calls < MaxCalls /\ calls' = calls + 1

Fork(p) ==
  LET idle == {q \in Slot : ~proc[q].used} IN
  /\ Call(p) /\ idle # {}
  /\ proc' = [proc EXCEPT ![p] = [@ EXCEPT !.pc = "trapframe", !.np = Min(idle), !.stage = "copy"],
                          ![Min(idle)] = [NoProc EXCEPT !.used = TRUE, !.pc = "embryo"]]
  /\ UNCHANGED <<free, pt, panic>>

\* exec: the file is there and has a header.
Exec(p) ==
  /\ Call(p)
  /\ \E segs \in Programs :
       proc' = [proc EXCEPT ![p] = [@ EXCEPT !.pc = "create", !.np = p, !.stage = "seg", !.segs = segs]]
  /\ UNCHANGED <<free, pt, panic>>

\* sbrk: growproc.
Grow(p) ==
  LET sz == proc[p].sz IN
  /\ Call(p)
  /\ \E n \in Sbrk :
       \/ /\ n > 0 /\ sz + n <= MaxSz
          /\ proc' = [proc EXCEPT ![p] =
               Uvmalloc([@ EXCEPT !.t = proc[p].pagetable, !.np = p], sz, sz + n, "grow")]
          /\ UNCHANGED <<free, pt, panic>>
       \/ /\ n < 0 /\ sz + n >= 0
          /\ Free(proc[p].pagetable, Pages(sz + n) .. Pages(sz) - 1, {}, FALSE, {})
          /\ proc' = [proc EXCEPT ![p].sz = sz + n,
                                  ![p].touched = @ \ (Pages(sz + n) .. Pages(sz) - 1)]

\* The page table has its trampoline and trapframe.
Made(p) ==
  LET l == proc[p] IN
  /\ At(p, "made")
  /\ proc' = [proc EXCEPT ![p] =
       CASE l.stage = "init" -> Uvmalloc(l, 0, PGSIZE, "init")
         [] l.stage = "copy" -> Uvmalloc(l, 0, l.sz, "copy")
         [] l.stage = "seg"  -> [l EXCEPT !.pc = "seg"]]
  /\ UNCHANGED <<free, pt, panic, calls>>

\* exec's bad: the file cannot be read, a segment is not aligned, or there are too
\* many arguments.  sz bytes are loaded.
Bad(p, sz) ==
  /\ Free(proc[p].t, 0 .. Pages(sz) - 1, Special, TRUE, {})
  /\ proc' = [proc EXCEPT ![p] = User(p)]

\* The next segment, or the guard page and the stack.
Seg(p) ==
  LET l == proc[p] IN
  /\ At(p, "seg")
  /\ \/ Bad(p, l.top)
     \/ /\ proc' = [proc EXCEPT ![p] =
             IF l.segs = <<>> THEN Uvmalloc(l, Pages(l.top) * PGSIZE, (Pages(l.top) + 2) * PGSIZE, "stack")
             ELSE Uvmalloc(l, l.top, Head(l.segs).vaddr + Head(l.segs).memsz, "seg")]
        /\ UNCHANGED <<free, pt, panic>>
  /\ UNCHANGED calls

\* loadseg
Loads(l) ==
  LET s == Head(l.segs) IN
  \A b \in s.vaddr .. s.vaddr + s.memsz - 1 : walkaddr(l.t, b \div PGSIZE) # 0

\* The pages are there.
Alloced(p) ==
  LET l == proc[p]
      grown == [User(p) EXCEPT !.pagetable = l.t, !.sz = l.goal]
  IN
  /\ At(p, "alloced")
  /\ \/ /\ l.stage \in {"init", "grow"}
        /\ proc' = [proc EXCEPT ![p] = grown]
        /\ UNCHANGED <<free, pt, panic>>
     \/ /\ l.stage = "copy"
        /\ proc' = [proc EXCEPT ![p] = User(p), ![l.np] =
             [@ EXCEPT !.pagetable = l.t, !.sz = l.sz, !.touched = l.touched, !.pc = "user"]]
        /\ UNCHANGED <<free, pt, panic>>
     \/ /\ l.stage = "seg" /\ Head(l.segs).vaddr % PGSIZE # 0
        /\ Bad(p, l.goal)
     \/ /\ l.stage = "seg" /\ Head(l.segs).vaddr % PGSIZE = 0
        /\ panic' = IF Loads(l) THEN "" ELSE "loadseg: address should exist"
        /\ proc' = [proc EXCEPT ![p] = [l EXCEPT !.pc = "seg", !.top = l.goal, !.segs = Tail(@)]]
        /\ UNCHANGED <<free, pt>>
     \/ /\ l.stage = "stack"
        /\ pt' = [pt EXCEPT ![walk(l.t, l.lo).t][PX(0, l.lo)].u = FALSE]   \* uvmclear
        /\ proc' = [proc EXCEPT ![p].pc = "args"]
        /\ UNCHANGED <<free, panic>>
  /\ UNCHANGED calls

\* The arguments are copied to the stack; then the old memory goes.
Args(p) ==
  LET l == proc[p] IN
  /\ At(p, "args")
  /\ \/ Bad(p, l.goal)
     \/ /\ walkaddr(l.t, l.end - 1) # 0   \* copyout
        /\ Free(l.pagetable, 0 .. Pages(l.sz) - 1, Special, TRUE, {})
        /\ proc' = [proc EXCEPT ![p] = [User(p) EXCEPT !.pagetable = l.t, !.sz = l.goal, !.touched = {}]]
  /\ UNCHANGED calls

\* wait, of a child that has exited: freeproc.
Reap(p) ==
  /\ Call(p) /\ p # 1
  /\ Free(proc[p].pagetable, 0 .. Pages(proc[p].sz) - 1, Special, TRUE, {proc[p].trapframe})
  /\ proc' = [proc EXCEPT ![p] = NoProc]

-----------------------------------------------------------------------------
(* Pages that are in use *)

\* The processor marks the page of an address that a program uses.
Touch(p) ==
  \E a \in Va :
    /\ Call(p) /\ walkaddr(proc[p].pagetable, a) # 0
    /\ pt' = [pt EXCEPT ![walk(proc[p].pagetable, a).t][PX(0, a)].a = TRUE]
    /\ proc' = [proc EXCEPT ![p].touched = @ \cup {a}]
    /\ UNCHANGED <<free, panic>>

\* The bits of 1 << i, an int, once it is widened.
Shifted(i) == IF i < INTBITS - 1 THEN {i} ELSE INTBITS - 1 .. 2 * INTBITS - 1

\* The mask that pgaccess computes for n pages from a on.
BitMask(p, a, n) ==
  UNION {Shifted(i) : i \in {j \in 0 .. n - 1 : Pte(proc[p].pagetable, a + j).a}}

\* pgaccess, on memory that the program has.
pgaccess(p) ==
  \E a \in Va, n \in 1 .. MAXSCAN :
    LET t == proc[p].pagetable IN
    /\ Call(p) /\ (a + n - 1) * PGSIZE < proc[p].sz
    /\ pt' = [f \in Frame |-> [i \in Index |->
         IF \E b \in a .. a + n - 1 : walk(t, b).t = f /\ PX(0, b) = i
         THEN [pt[f][i] EXCEPT !.a = FALSE] ELSE pt[f][i]]]
    /\ proc' = [proc EXCEPT ![p].touched = @ \ (a .. a + n - 1)]
    /\ UNCHANGED <<free, panic>>

Halted ==
  /\ panic # "" \/ (calls = MaxCalls /\ \A p \in Slot : proc[p].pc = "user")
  /\ UNCHANGED vars

Next ==
  \/ \E p \in Slot :
       \/ Trapframe(p) \/ Create(p) \/ Map(p) \/ Page(p) \/ Fail(p) \/ Made(p)
       \/ Seg(p) \/ Alloced(p) \/ Args(p)
       \/ Fork(p) \/ Exec(p) \/ Grow(p) \/ Reap(p) \/ Touch(p) \/ pgaccess(p)
  \/ Halted

Spec == Init /\ [][Next]_vars

-----------------------------------------------------------------------------
Live == {p \in Slot : proc[p].used /\ proc[p].pagetable # 0}

\* The page tables there are: of processes, and those that calls make.
Roots == {<<p, x>> \in Slot \X {"pagetable", "t"} :
            proc[p][x] # 0 /\ (x = "t" => proc[p].t # proc[p].pagetable)}

\* Every page is free, in the hand of a call, or in one place: the entry or the
\* process that leads to it, be it a page-table page, a user page or a trapframe.
\* So it is in the middle of calls, and after they failed.
PagesExact ==
  LET tables  == UNION {Tables(proc[r[1]][r[2]]) : r \in Roots}
      entries == {<<u, i>> \in tables \X Index : pt[u][i].to \in Frame}
      inside  == {e \in entries : \A p \in Slot : pt[e[1]][e[2]].to # proc[p].trapframe}
      frames  == {p \in Slot : proc[p].trapframe # 0}
      hands   == {p \in Slot : proc[p].mem \in Frame /\ proc[p].a \notin Special}
      there   == {pt[e[1]][e[2]].to : e \in inside} \cup {proc[r[1]][r[2]] : r \in Roots}
                   \cup {proc[p].trapframe : p \in frames} \cup {proc[p].mem : p \in hands}
  IN
  /\ free \cap there = {}
  /\ Cardinality(there) = Cardinality(inside) + Cardinality(Roots) + Cardinality(frames)
                            + Cardinality(hands)
  /\ Cardinality(free) + Cardinality(there) \in Sizes

\* A process has the pages of its size, its own trapframe and the trampoline, and
\* no others, unless it is in sbrk: so the panics of uvmunmap, uvmcopy, freewalk,
\* mappages and loadseg are unreachable.
AsSized ==
  /\ panic = ""
  /\ \A p \in Live : LET t == proc[p].pagetable IN
       /\ \A a \in 0 .. TRAPFRAME - 1 :
            \/ Pte(t, a).to # 0 <=> a * PGSIZE < proc[p].sz
            \/ proc[p].stage = "grow" /\ a \in proc[p].lo .. proc[p].end - 1
       /\ Pte(t, TRAPFRAME).to = proc[p].trapframe
       /\ Pte(t, TRAMPOLINE).to = Trampoline

\* pgaccess answers with the pages that the program, or before a fork its parent,
\* has touched since it last asked.
AccessExact ==
  \A p \in Live, n \in 1 .. MAXSCAN : \A a \in 0 .. Pages(proc[p].sz) - n :
    BitMask(p, a, n) \cap (0 .. n - 1) = {i \in 0 .. n - 1 : a + i \in proc[p].touched}
=============================================================================
