--------------------------------- MODULE Cow ---------------------------------
(***************************************************************************)
(* Copy-on-write fork (xv6-labs-cow/kalloc.c, vm.c, trap.c).  A process of *)
(* the model is a slot of the process table together with the code it runs *)
(* in the kernel; processes interleave wherever the code holds no spinlock *)
(* of kalloc.c, so kalloc and kfree are two steps each.                    *)
(*                                                                         *)
(* The free list is a set: which free page kalloc returns is left open.    *)
(* The pages of page tables are not in Page: walk's allocation of one may  *)
(* fail at any time.                                                       *)
(***************************************************************************)
EXTENDS Integers, FiniteSets

CONSTANTS Proc,      \* slots of the process table
          first,  \* the first process
          Page,      \* physical pages for user memory
          NVA,       \* virtual pages of a process
          REFMOD,    \* 2^8: ref_cnt is a uint8, and NPROC is 64
          Value,     \* contents of a page that user programs write
          Zero,      \* a page filled with zeroes
          Junk,      \* a page filled with junk by kalloc or kfree
          NoPage, NoPte, NoValue

VA == 0 .. NVA - 1

VARIABLES
  freelist,  \* kmem.freelist
  ref_cnt,   \* cows[].ref_cnt
  mem,       \* the contents of every page
  pte,       \* the leaf PTEs of every page table
  sz,        \* p->sz, in pages
  loc,        \* unused, embryo, user, zombie, or where the kernel code is
  pagetable, \* whose page table the kernel code works on
  va,        \* the page it works on
  end,       \* where its loop ends
  r,         \* the result of kalloc, the argument of kfree
  ret,       \* where kalloc or kfree returns to
  after,     \* what follows the loop of uvmunmap: user, unused
  new,       \* walkcowaddr's mem
  val        \* what copyout writes

loop    == <<pagetable, va, end, after>>
kvars   == <<loop, r, ret, new, val>>
cowvars == <<freelist, ref_cnt, mem, pte, sz, loc, kvars>>

PTE == [pa : Page, w : BOOLEAN, cow : BOOLEAN, u : BOOLEAN]

\* What the constants stand for.  NPROC is 64, so no ref_cnt can overflow.
CowAssumption ==
  /\ IsFiniteSet(Proc) /\ first \in Proc
  /\ NVA \in Nat \ {0}
  /\ REFMOD \in Nat \ {0} /\ Cardinality(Proc) < REFMOD
  /\ NoPage \notin Page /\ NoPte \notin PTE /\ NoValue \notin Value \cup {Zero, Junk}

ASSUME CowConstants == CowAssumption

UserPte(g) == [pa |-> g, w |-> TRUE, cow |-> FALSE, u |-> TRUE]

CowLabels == {"unused", "embryo", "user", "zombie", "kalloc", "incref", "kfree",
              "push", "cow_copy", "cow_map", "grow", "grow_map", "grow_undo",
              "unmap", "clear", "copy", "copy_ref", "halt"}

\* kinit freed every page; userinit made a process of one page.
CowInit ==
  LET p == first IN
  \E g \in Page :
    /\ freelist = Page \ {g}
    /\ ref_cnt = [h \in Page |-> IF h = g THEN 1 ELSE 0]
    /\ mem = [h \in Page |-> IF h = g THEN Zero ELSE Junk]
    /\ pte = [q \in Proc |-> [a \in VA |-> IF q = p /\ a = 0 THEN UserPte(g)
                                           ELSE NoPte]]
    /\ sz = [q \in Proc |-> IF q = p THEN 1 ELSE 0]
    /\ loc = [q \in Proc |-> IF q = p THEN "user" ELSE "unused"]
    /\ pagetable = [q \in Proc |-> q]
    /\ va = [q \in Proc |-> 0]
    /\ end = [q \in Proc |-> 0]
    /\ r = [q \in Proc |-> NoPage]
    /\ ret = [q \in Proc |-> "user"]
    /\ after = [q \in Proc |-> "user"]
    /\ new = [q \in Proc |-> NoPage]
    /\ val = [q \in Proc |-> NoValue]

At(p, l) == loc[p] = l

Goes(p, l) == loc' = [loc EXCEPT ![p] = l]

\* exit of the first process is a panic.
Exited(p) == IF p = first THEN "halt" ELSE "zombie"

\* A call, of kalloc or of kfree(g), that returns to l.
CallKalloc(p, l) ==
  /\ Goes(p, "kalloc")
  /\ ret' = [ret EXCEPT ![p] = l]

CallKfree(p, g, l) ==
  /\ Goes(p, "kfree")
  /\ r' = [r EXCEPT ![p] = g]
  /\ ret' = [ret EXCEPT ![p] = l]

\* The return from one.
Return(p) ==
  /\ Goes(p, ret[p])
  /\ ret' = [ret EXCEPT ![p] = "user"]

-----------------------------------------------------------------------------
\* kalloc under kmem.lock ...
Kalloc(p) ==
  /\ At(p, "kalloc")
  /\ \/ /\ freelist = {}
        /\ r' = [r EXCEPT ![p] = NoPage]
        /\ Return(p)
        /\ UNCHANGED freelist
     \/ \E g \in freelist :
          /\ freelist' = freelist \ {g}
          /\ r' = [r EXCEPT ![p] = g]
          /\ Goes(p, "incref")
          /\ UNCHANGED ret
  /\ UNCHANGED <<ref_cnt, mem, pte, sz, loop, new, val>>

\* ... and after it released kmem.lock.
Increfcnt(p) ==
  /\ At(p, "incref")
  /\ ref_cnt' = [ref_cnt EXCEPT ![r[p]] = (@ + 1) % REFMOD]
  /\ mem' = [mem EXCEPT ![r[p]] = Junk]
  /\ Return(p)
  /\ UNCHANGED <<freelist, pte, sz, loop, r, new, val>>

\* kfree drops a reference ...
Kfree(p) ==
  /\ At(p, "kfree")
  /\ ref_cnt' = [ref_cnt EXCEPT ![r[p]] = (@ - 1) % REFMOD]
  /\ IF ref_cnt'[r[p]] # 0 THEN Return(p) ELSE Goes(p, "push") /\ UNCHANGED ret
  /\ UNCHANGED <<freelist, mem, pte, sz, loop, r, new, val>>

\* ... and frees the page when it was the last one.
Push(p) ==
  /\ At(p, "push")
  /\ mem' = [mem EXCEPT ![r[p]] = Junk]
  /\ freelist' = freelist \cup {r[p]}
  /\ Return(p)
  /\ UNCHANGED <<ref_cnt, pte, sz, loop, r, new, val>>

-----------------------------------------------------------------------------
\* May user code of p access page a, and write it?
Present(p, a) == pte[p][a] # NoPte /\ pte[p][a].u

Writable(p, a) == Present(p, a) /\ pte[p][a].w

\* A store of user code that the MMU allows.
Store(p, a, v) ==
  /\ At(p, "user")
  /\ Writable(p, a)
  /\ mem' = [mem EXCEPT ![pte[p][a].pa] = v]
  /\ UNCHANGED <<freelist, ref_cnt, pte, sz, loc, kvars>>

\* usertrap, scause 15: the store is retried when walkcowaddr made the page
\* writable, and kills the process otherwise.
StoreFault(p, a) ==
  /\ At(p, "user")
  /\ ~ Writable(p, a)
  /\ \/ /\ Present(p, a) /\ pte[p][a].cow
        /\ va' = [va EXCEPT ![p] = a]
        /\ CallKalloc(p, "cow_copy")
     \/ /\ ~ (Present(p, a) /\ pte[p][a].cow)
        /\ Goes(p, Exited(p))
        /\ UNCHANGED <<va, ret>>
  /\ UNCHANGED <<freelist, ref_cnt, mem, pte, sz, pagetable, end, after,
                 r, new, val>>

\* A system call of p copies v out to page a.
Copyout(p, a, v) ==
  /\ At(p, "user")
  /\ Present(p, a)
  /\ \/ /\ pte[p][a].w
        /\ mem' = [mem EXCEPT ![pte[p][a].pa] = v]
        /\ UNCHANGED <<loc, va, ret, val>>
     \/ /\ ~ pte[p][a].w /\ pte[p][a].cow
        /\ va' = [va EXCEPT ![p] = a]
        /\ val' = [val EXCEPT ![p] = v]
        /\ CallKalloc(p, "cow_copy")
        /\ UNCHANGED mem
  /\ UNCHANGED <<freelist, ref_cnt, pte, sz, pagetable, end, after, r, new>>

\* Mutant: the old page is not copied.
CowCopyBlank(p) ==
  LET old == pte[p][va[p]].pa IN
  /\ At(p, "cow_copy")
  /\ r[p] # NoPage
  /\ new' = [new EXCEPT ![p] = r[p]]
  /\ CallKfree(p, old, "cow_map")
  /\ UNCHANGED <<freelist, ref_cnt, mem, pte, sz, loop, val>>

\* walkcowaddr got its page: it copies the old page and gives it up.
CowCopy(p) ==
  LET old == pte[p][va[p]].pa IN
  /\ At(p, "cow_copy")
  /\ r[p] # NoPage
  /\ mem' = [mem EXCEPT ![r[p]] = mem[old]]
  /\ new' = [new EXCEPT ![p] = r[p]]
  /\ CallKfree(p, old, "cow_map")
  /\ UNCHANGED <<freelist, ref_cnt, pte, sz, loop, val>>

\* walkcowaddr returns 0: usertrap kills the process, copyout fails.
CowFail(p) ==
  /\ At(p, "cow_copy")
  /\ r[p] = NoPage
  /\ Goes(p, IF val[p] = NoValue THEN Exited(p) ELSE "user")
  /\ val' = [val EXCEPT ![p] = NoValue]
  /\ va' = [va EXCEPT ![p] = 0]
  /\ UNCHANGED <<freelist, ref_cnt, mem, pte, sz, pagetable, end, after,
                 r, ret, new>>

\* The new page takes the place of the old one; copyout writes to it.
CowMap(p) ==
  /\ At(p, "cow_map")
  /\ pte' = [pte EXCEPT ![p][va[p]] =
               [@ EXCEPT !.pa = new[p], !.w = TRUE, !.cow = FALSE]]
  /\ mem' = IF val[p] = NoValue THEN mem ELSE [mem EXCEPT ![new[p]] = val[p]]
  /\ Goes(p, "user")
  /\ val' = [val EXCEPT ![p] = NoValue]
  /\ new' = [new EXCEPT ![p] = NoPage]
  /\ r' = [r EXCEPT ![p] = NoPage]
  /\ va' = [va EXCEPT ![p] = 0]
  /\ UNCHANGED <<freelist, ref_cnt, sz, pagetable, end, after, ret>>

-----------------------------------------------------------------------------
\* uvmunmap frees pages a .. b - 1 of q's page table, then l follows.
CallUnmap(p, q, a, b, l) ==
  /\ Goes(p, "unmap")
  /\ pagetable' = [pagetable EXCEPT ![p] = q]
  /\ va' = [va EXCEPT ![p] = a]
  /\ end' = [end EXCEPT ![p] = b]
  /\ after' = [after EXCEPT ![p] = l]

Unmap(p) ==
  /\ At(p, "unmap")
  /\ va[p] < end[p]
  /\ CallKfree(p, pte[pagetable[p]][va[p]].pa, "clear")
  /\ UNCHANGED <<freelist, ref_cnt, mem, pte, sz, loop, new, val>>

\* The PTE is cleared after its page was freed.
Clear(p) ==
  /\ At(p, "clear")
  /\ pte' = [pte EXCEPT ![pagetable[p]][va[p]] = NoPte]
  /\ va' = [va EXCEPT ![p] = @ + 1]
  /\ r' = [r EXCEPT ![p] = NoPage]
  /\ Goes(p, "unmap")
  /\ UNCHANGED <<freelist, ref_cnt, mem, sz, pagetable, end, after, ret, new, val>>

\* The loop is over: sbrk returns, wait frees the slot, or a failed fork
\* frees the slot of the child.
Unmapped(p) ==
  LET q == pagetable[p] IN
  /\ At(p, "unmap")
  /\ va[p] = end[p]
  /\ loc' = [loc EXCEPT ![q] = "unused", ![p] = after[p]]
  /\ sz' = IF after[p] = "unused" THEN [sz EXCEPT ![p] = 0] ELSE sz
  /\ pagetable' = [pagetable EXCEPT ![p] = p]
  /\ va' = [va EXCEPT ![p] = 0]
  /\ end' = [end EXCEPT ![p] = 0]
  /\ after' = [after EXCEPT ![p] = "user"]
  /\ UNCHANGED <<freelist, ref_cnt, mem, pte, r, ret, new, val>>

\* growproc with a negative argument; p->sz is private to p.
Shrink(p, n) ==
  /\ At(p, "user")
  /\ n < sz[p]
  /\ sz' = [sz EXCEPT ![p] = n]
  /\ CallUnmap(p, p, n, sz[p], "user")
  /\ UNCHANGED <<freelist, ref_cnt, mem, pte, r, ret, new, val>>

\* growproc with a positive one: uvmalloc's loop.
Grow(p, n) ==
  /\ At(p, "user")
  /\ n > sz[p]
  /\ va' = [va EXCEPT ![p] = sz[p]]
  /\ end' = [end EXCEPT ![p] = n]
  /\ Goes(p, "grow")
  /\ UNCHANGED <<freelist, ref_cnt, mem, pte, sz, pagetable, after, r, ret, new, val>>

GrowLoop(p) ==
  /\ At(p, "grow")
  /\ \/ /\ va[p] < end[p]
        /\ CallKalloc(p, "grow_map")
        /\ UNCHANGED <<sz, va, end>>
     \/ /\ va[p] = end[p]
        /\ sz' = [sz EXCEPT ![p] = end[p]]
        /\ va' = [va EXCEPT ![p] = 0]
        /\ end' = [end EXCEPT ![p] = 0]
        /\ Goes(p, "user")
        /\ UNCHANGED ret
  /\ UNCHANGED <<freelist, ref_cnt, mem, pte, pagetable, after, r, new, val>>

GrowMap(p) ==
  /\ At(p, "grow_map")
  /\ r[p] # NoPage
  /\ mem' = [mem EXCEPT ![r[p]] = Zero]
  /\ pte' = [pte EXCEPT ![p][va[p]] = UserPte(r[p])]
  /\ va' = [va EXCEPT ![p] = @ + 1]
  /\ r' = [r EXCEPT ![p] = NoPage]
  /\ Goes(p, "grow")
  /\ UNCHANGED <<freelist, ref_cnt, sz, pagetable, end, after, ret, new, val>>

\* mappages fails: the page is freed first.
GrowMapFail(p) ==
  /\ At(p, "grow_map")
  /\ r[p] # NoPage
  /\ mem' = [mem EXCEPT ![r[p]] = Zero]
  /\ CallKfree(p, r[p], "grow_undo")
  /\ UNCHANGED <<freelist, ref_cnt, pte, sz, loop, new, val>>

\* uvmalloc gives back what it allocated.
GrowUndo(p) ==
  /\ \/ At(p, "grow_undo")
     \/ At(p, "grow_map") /\ r[p] = NoPage
  /\ r' = [r EXCEPT ![p] = NoPage]
  /\ CallUnmap(p, p, sz[p], va[p], "user")
  /\ UNCHANGED <<freelist, ref_cnt, mem, pte, sz, ret, new, val>>

-----------------------------------------------------------------------------
\* fork got a slot and an empty page table for the child.
Fork(p, q) ==
  /\ At(p, "user")
  /\ At(q, "unused")
  /\ loc' = [loc EXCEPT ![p] = "copy", ![q] = "embryo"]
  /\ pagetable' = [pagetable EXCEPT ![p] = q]
  /\ UNCHANGED <<freelist, ref_cnt, mem, pte, sz, va, end, after, r, ret, new, val>>

CowPte(e) == [e EXCEPT !.w = FALSE, !.cow = TRUE]

\* Mutant: the parent may still write the page.
CopyWritable(p) ==
  /\ At(p, "copy")
  /\ va[p] < sz[p]
  /\ pte' = [pte EXCEPT ![pagetable[p]][va[p]] = CowPte(pte[p][va[p]])]
  /\ Goes(p, "copy_ref")
  /\ UNCHANGED <<freelist, ref_cnt, mem, sz, kvars>>

\* uvmcopy: both PTEs lose their write permission ...
Copy(p) ==
  LET e == CowPte(pte[p][va[p]]) IN
  /\ At(p, "copy")
  /\ va[p] < sz[p]
  /\ pte' = [pte EXCEPT ![p][va[p]] = e, ![pagetable[p]][va[p]] = e]
  /\ Goes(p, "copy_ref")
  /\ UNCHANGED <<freelist, ref_cnt, mem, sz, kvars>>

\* Mutant: the second reference is not counted.
CopyRefUncounted(p) ==
  /\ At(p, "copy_ref")
  /\ va' = [va EXCEPT ![p] = @ + 1]
  /\ Goes(p, "copy")
  /\ UNCHANGED <<freelist, ref_cnt, mem, pte, sz, pagetable, end, after, r, ret,
                 new, val>>

\* ... and the page gets a second reference.
CopyRef(p) ==
  LET g == pte[p][va[p]].pa IN
  /\ At(p, "copy_ref")
  /\ ref_cnt' = [ref_cnt EXCEPT ![g] = (@ + 1) % REFMOD]
  /\ va' = [va EXCEPT ![p] = @ + 1]
  /\ Goes(p, "copy")
  /\ UNCHANGED <<freelist, mem, pte, sz, pagetable, end, after, r, ret, new, val>>

\* mappages fails: the child's pages are given up again.
CopyFail(p) ==
  /\ At(p, "copy")
  /\ va[p] < sz[p]
  /\ pte' = [pte EXCEPT ![p][va[p]] = CowPte(@)]
  /\ CallUnmap(p, pagetable[p], 0, va[p], "user")
  /\ UNCHANGED <<freelist, ref_cnt, mem, sz, r, ret, new, val>>

\* fork makes the child runnable.
ForkDone(p) ==
  LET q == pagetable[p] IN
  /\ At(p, "copy")
  /\ va[p] = sz[p]
  /\ sz' = [sz EXCEPT ![q] = sz[p]]
  /\ loc' = [loc EXCEPT ![p] = "user", ![q] = "user"]
  /\ pagetable' = [pagetable EXCEPT ![p] = p]
  /\ va' = [va EXCEPT ![p] = 0]
  /\ UNCHANGED <<freelist, ref_cnt, mem, pte, end, after, r, ret, new, val>>

ExitProc(p) ==
  /\ At(p, "user")
  /\ Goes(p, Exited(p))
  /\ UNCHANGED <<freelist, ref_cnt, mem, pte, sz, kvars>>

\* wait frees the memory of a zombie (uvmfree).
Reap(p) ==
  /\ At(p, "zombie")
  /\ CallUnmap(p, p, 0, sz[p], "unused")
  /\ UNCHANGED <<freelist, ref_cnt, mem, pte, sz, r, ret, new, val>>

\* uvmclear makes the guard page below the user stack.
Uvmclear(p, a) ==
  /\ At(p, "user")
  /\ pte[p][a] # NoPte
  /\ pte' = [pte EXCEPT ![p][a].u = FALSE]
  /\ UNCHANGED <<freelist, ref_cnt, mem, sz, loc, kvars>>

Step(p) ==
  \/ Kalloc(p) \/ Increfcnt(p) \/ Kfree(p) \/ Push(p)
  \/ CowCopy(p) \/ CowFail(p) \/ CowMap(p)
  \/ Unmap(p) \/ Clear(p) \/ Unmapped(p)
  \/ GrowLoop(p) \/ GrowMap(p) \/ GrowMapFail(p) \/ GrowUndo(p)
  \/ Copy(p) \/ CopyRef(p) \/ CopyFail(p) \/ ForkDone(p)

CowHalted == At(first, "halt") /\ UNCHANGED cowvars

CowNext ==
  \/ CowHalted
  \/ \E p \in Proc :
    \/ Step(p)
    \/ \E a \in VA, v \in Value : Store(p, a, v) \/ Copyout(p, a, v)
    \/ \E a \in VA : StoreFault(p, a) \/ Uvmclear(p, a)
    \/ \E n \in 0 .. NVA : Shrink(p, n) \/ Grow(p, n)
    \/ \E q \in Proc \ {p} : Fork(p, q)
    \/ ExitProc(p)
    \/ Reap(p)

CowSpec == CowInit /\ [][CowNext]_cowvars
-----------------------------------------------------------------------------
\* Where kernel code works on the PTE (q, a).
WorksAt(q, a, labels) ==
  \E p \in Proc : pagetable[p] = q /\ va[p] = a /\ loc[p] \in labels

\* The PTE's reference was dropped; the PTE is about to be cleared.
Dying(q, a) == WorksAt(q, a, {"push", "clear", "cow_map"})

\* The PTEs that map g.
PTEs(g) == {x \in Proc \X VA : /\ pte[x[1]][x[2]] # NoPte
                               /\ pte[x[1]][x[2]].pa = g
                               /\ ~ Dying(x[1], x[2])}

\* Those whose reference is counted.
Counted(g) == {x \in PTEs(g) : ~ WorksAt(x[1], x[2], {"copy_ref"})}

\* Kernel code that holds a reference to g no PTE stands for.
Carriers(g) ==
  {p \in Proc : \/ new[p] = g
                \/ r[p] = g /\ loc[p] \in {"cow_copy", "grow_map"}
                \/ r[p] = g /\ loc[p] = "kfree" /\ ret[p] = "grow_undo"}

\* ref_cnt of a page is the number of PTEs that map it plus the references
\* kernel code carries, at every step of fork, of the fault handler and of
\* uvmunmap, whatever other processes do to the same page meanwhile.
CountsExact ==
  \A g \in Page :
    ref_cnt[g] = Cardinality(Counted(g)) + Cardinality(Carriers(g))

\* Pages on their way from or to the free list.
InTransit(g) == {p \in Proc : r[p] = g /\ loc[p] \in {"incref", "push"}}

\* A page without references is on the free list or in the hands of exactly
\* one process in kalloc or kfree, and a page with references is neither: no
\* page is lost, freed twice, or handed out while somebody uses it.
FreeOrUsed ==
  \A g \in Page :
    IF ref_cnt[g] = 0
    THEN \/ g \in freelist /\ InTransit(g) = {}
         \/ g \notin freelist /\ Cardinality(InTransit(g)) = 1
    ELSE g \notin freelist /\ InTransit(g) = {}

\* A page a user program can write through some PTE has no second PTE.
WritableIsPrivate ==
  \A p \in Proc, a \in VA :
    pte[p][a] # NoPte /\ pte[p][a].w /\ ~ Dying(p, a) => PTEs(pte[p][a].pa) = {<<p, a>>}

\* Exactly the pages below p->sz are mapped, except those the code is adding
\* or removing: the panics of uvmcopy, uvmunmap and mappages are unreachable.
NoPanic ==
  \A p \in Proc :
    /\ loc[p] \in {"user", "zombie", "copy", "copy_ref"} =>
         \A a \in VA : pte[p][a] # NoPte <=> a < sz[p]
    /\ loc[p] = "unused" => \A a \in VA : pte[p][a] = NoPte
    /\ loc[p] = "unmap" /\ va[p] < end[p] => pte[pagetable[p]][va[p]] # NoPte
    /\ loc[p] = "copy" /\ va[p] < sz[p] => pte[pagetable[p]][va[p]] = NoPte
    /\ loc[p] = "grow_map" => pte[p][va[p]] = NoPte

\* A page's reference count is exact, and a page is free exactly if it is 0; the
\* pages below p->sz are mapped, so that no panic is reachable.
RefsExact == CountsExact /\ FreeOrUsed /\ NoPanic

\* Programs see nothing of the memory of p: the memory of a child exists when
\* fork returns, that of a zombie does not.
Gone(p) == loc[p] \in {"unused", "embryo", "zombie", "halt"} \/ after[p] = "unused"

\* Page a of p is the copy that is being made ...
Fresh(p, a) == new[p] # NoPage /\ va[p] = a

\* ... or it is being freed.
Dead(p, a) ==
  ~ Fresh(p, a) /\ pagetable[p] = p /\ va[p] = a /\ loc[p] \in {"kfree", "push", "clear"}

Hides(p, a) == pte[p][a] = NoPte \/ Gone(p) \/ Dead(p, a)

\* The physical page behind page a of p.
Shown(p, a) == IF Fresh(p, a) THEN new[p] ELSE pte[p][a].pa

Cell(p, a) == IF Hides(p, a) THEN NoValue ELSE mem[Shown(p, a)]

\* The memory user programs see.
Space == [p \in Proc |-> [a \in VA |-> Cell(p, a)]]

Private == INSTANCE AddressSpaces WITH space <- Space, Absent <- NoValue

\* fork with copy-on-write looks to programs like a fork that copies.
ImplementsAddressSpaces == Private!Spec
=============================================================================
