----------------------------- MODULE CowControl ------------------------------
(***************************************************************************)
(* Copy-on-write fork, for every number of processes, pages and virtual    *)
(* pages.  First the control part of its invariant: where the kernel code  *)
(* of every process is, what its local variables say about each other,     *)
(* which pages its page table maps, and whose page table it works on.      *)
(*                                                                         *)
(* Then what programs see of it: a step changes the contents of a page     *)
(* that nobody's memory shows, or the memory of one process only, as       *)
(* AddressSpaces allows.  What is used about references is Apart.          *)
(***************************************************************************)
EXTENDS Cow, TLAPS

Growing   == {"grow", "grow_map", "grow_undo"}
Unmapping == {"unmap", "clear"}
Copying   == {"copy", "copy_ref"}
Idle      == {"unused", "embryo", "user", "zombie", "halt"}
Calling   == {"kalloc", "incref", "kfree", "push"}

Typed ==
  /\ loc \in [Proc -> CowLabels] /\ ret \in [Proc -> CowLabels]
  /\ pagetable \in [Proc -> Proc] /\ after \in [Proc -> {"user", "unused"}]
  /\ va \in [Proc -> 0 .. NVA] /\ end \in [Proc -> 0 .. NVA] /\ sz \in [Proc -> 0 .. NVA]
  /\ r \in [Proc -> Page \cup {NoPage}] /\ new \in [Proc -> Page \cup {NoPage}]
  /\ pte \in [Proc -> [VA -> PTE \cup {NoPte}]]
  /\ freelist \subseteq Page /\ ref_cnt \in [Page -> Nat]

\* Where the code of p is, or where its call of kalloc or kfree returns to.
Place(p) == IF loc[p] \in Calling THEN ret[p] ELSE loc[p]

\* What the variables of p say about each other.
Local(p) ==
  /\ loc[p] \in {"kalloc", "incref"} => ret[p] \in {"cow_copy", "grow_map"}
  /\ loc[p] \in {"kfree", "push"} => ret[p] \in {"clear", "cow_map", "grow_undo"}
  /\ loc[p] \in {"incref", "kfree", "push"} => r[p] \in Page
  /\ new[p] \in Page <=> Place(p) = "cow_map"
  /\ loc[p] \in Idle => va[p] = 0
  /\ loc[p] \in {"unused", "embryo"} => sz[p] = 0
  /\ after[p] = "unused" => Place(p) \in Unmapping /\ pagetable[p] = p
  /\ Place(p) \in Copying => pagetable[p] # p
  /\ pagetable[p] # p => Place(p) \in Copying \cup Unmapping
  /\ Place(p) \in Growing => sz[p] <= va[p] /\ va[p] <= end[p]
  /\ Place(p) \in {"grow_map", "grow_undo", "clear"} => va[p] < end[p]
  /\ Place(p) = "unmap" => va[p] <= end[p]
  /\ Place(p) \in Unmapping /\ pagetable[p] = p /\ after[p] = "user" => sz[p] <= va[p]
  /\ Place(p) = "copy" => va[p] <= sz[p]
  /\ Place(p) \in {"copy_ref", "cow_copy", "cow_map"} => va[p] < sz[p]

\* The page table of a child belongs to the process that forks it.
Pair(p) ==
  pagetable[p] # p => /\ loc[pagetable[p]] = "embryo"
                      /\ \A x \in Proc : pagetable[x] = pagetable[p] => x \in {p, pagetable[p]}

\* The pages that p's own page table maps ...
InOwn(p, a) ==
  IF after[p] = "unused" THEN va[p] <= a /\ a < end[p]
  ELSE IF Place(p) \in Growing THEN a < va[p]
  ELSE a < sz[p] \/ (Place(p) \in Unmapping /\ pagetable[p] = p /\ va[p] <= a /\ a < end[p])

\* ... and those its child's does while p makes it or takes it apart.
InChild(p, a) ==
  IF Place(p) \in Unmapping THEN va[p] <= a /\ a < end[p]
  ELSE a < va[p] \/ (Place(p) = "copy_ref" /\ a = va[p])

OwnMapped(p) ==
  loc[p] # "embryo" => \A a \in VA : pte[p][a] # NoPte <=> InOwn(p, a)

ChildMapped(p) ==
  pagetable[p] # p => \A a \in VA : pte[pagetable[p]][a] # NoPte <=> InChild(p, a)

\* What p is about to give up, or to count, is what the PTE maps.
Argument(p) ==
  /\ loc[p] = "kfree" /\ ret[p] \in {"clear", "cow_map"} => pte[pagetable[p]][va[p]].pa = r[p]
  /\ loc[p] = "copy_ref" => pte[pagetable[p]][va[p]].pa = pte[p][va[p]].pa

Control ==
  /\ Typed
  /\ \A p \in Proc : Local(p) /\ Pair(p) /\ OwnMapped(p) /\ ChildMapped(p) /\ Argument(p)

\* The variables of x do not change.
Still(x) ==
  /\ loc'[x] = loc[x] /\ ret'[x] = ret[x] /\ pagetable'[x] = pagetable[x]
  /\ after'[x] = after[x] /\ va'[x] = va[x] /\ end'[x] = end[x] /\ sz'[x] = sz[x]
  /\ r'[x] = r[x] /\ new'[x] = new[x]

-----------------------------------------------------------------------------
\* A process is as it was when its variables are.
LEMMA StillSame ==
  ASSUME NEW x \in Proc, Still(x)
  PROVE  /\ Place(x)' = Place(x) /\ (Local(x)' <=> Local(x))
         /\ \A a \in VA : (InOwn(x, a)' <=> InOwn(x, a)) /\ (InChild(x, a)' <=> InChild(x, a))
<1>1. Place(x)' = Place(x)
  BY Zenon DEF Still, Place
<1>2. Local(x)' <=> Local(x)
  BY <1>1 DEF Still, Local
<1>3. QED
  BY Zenon, <1>1, <1>2 DEF Still, InOwn, InChild

\* A step of p that leaves p's page table to it concerns nobody else.
LEMMA OthersKeep ==
  ASSUME Control, NEW p \in Proc, loc[p] # "embryo", loc'[p] # "embryo",
         pagetable'[p] = pagetable[p],
         \A x \in Proc : x # p => Still(x) /\ (x # pagetable[p] => pte'[x] = pte[x]),
         Typed', Local(p)', OwnMapped(p)', ChildMapped(p)', Argument(p)'
  PROVE  Control'
<1>1. \A x \in Proc : pagetable'[x] = pagetable[x] /\ pagetable[x] \in Proc
  BY Zenon DEF Still, Control, Typed
<1>2. ASSUME NEW x \in Proc, pagetable[x] # x
      PROVE  /\ pagetable[x] # p /\ loc[pagetable[x]] = "embryo" /\ loc'[pagetable[x]] = "embryo"
             /\ x # p => pagetable[x] # pagetable[p]
  <2>1. Pair(x) /\ pagetable[x] \in Proc
    BY Zenon, <1>1 DEF Control
  <2>2. loc[pagetable[x]] = "embryo" /\ pagetable[x] # p
    BY Zenon, <1>2, <2>1 DEF Pair
  <2>3. loc'[pagetable[x]] = loc[pagetable[x]]
    BY Zenon, <2>1, <2>2 DEF Still
  <2>4. QED
    BY Zenon, <1>2, <2>1, <2>2, <2>3 DEF Pair
<1>3. \A x \in Proc : Pair(x)'
  <2>1. ASSUME NEW x \in Proc, pagetable'[x] # x
        PROVE  /\ loc'[pagetable'[x]] = "embryo"
               /\ \A y \in Proc : pagetable'[y] = pagetable'[x] => y \in {x, pagetable'[x]}
    BY Zenon, <1>1, <1>2, <2>1 DEF Control, Pair
  <2>2. QED
    BY Zenon, <2>1 DEF Pair
<1>4. ASSUME NEW x \in Proc, x # p PROVE Local(x)' /\ OwnMapped(x)'
  <2>1. x = pagetable[p] => loc'[x] = "embryo"
    BY Zenon, <1>1, <1>2, <1>4
  <2>2. /\ Still(x) /\ Local(x) /\ OwnMapped(x)
        /\ (Local(x)' <=> Local(x)) /\ \A a \in VA : InOwn(x, a)' <=> InOwn(x, a)
    BY Zenon, <1>4, StillSame DEF Control
  <2>3. QED
    BY Zenon, <1>4, <2>1, <2>2 DEF OwnMapped, Still
<1>5. ASSUME NEW x \in Proc, x # p PROVE ChildMapped(x)'
  <2>1. pagetable[x] # x => pte'[pagetable[x]] = pte[pagetable[x]]
    BY Zenon, <1>1, <1>2, <1>5
  <2>2. ChildMapped(x) /\ \A a \in VA : InChild(x, a)' <=> InChild(x, a)
    BY Zenon, <1>5, StillSame DEF Control
  <2>3. QED
    BY <1>1, <2>1, <2>2 DEF ChildMapped
<1>6. ASSUME NEW x \in Proc, x # p PROVE Argument(x)'
  <2>1. Still(x) /\ pagetable'[x] = pagetable[x]
    BY Zenon, <1>1, <1>6
  <2>2. CASE x = pagetable[p]
    BY Zenon, <1>2, <1>6, <2>1, <2>2 DEF Argument, Still
  <2>3. CASE x # pagetable[p]
    <3>1. pte'[x] = pte[x] /\ pte'[pagetable[x]] = pte[pagetable[x]]
      BY Zenon, <1>1, <1>2, <1>6, <2>3
    <3>2. Argument(x)
      BY Zenon DEF Control
    <3>3. QED
      BY Zenon, <2>1, <3>1, <3>2 DEF Argument, Still
  <2>4. QED
    BY Zenon, <2>2, <2>3
<1>7. QED
  BY Zenon, <1>3, <1>4, <1>5, <1>6 DEF Control

\* What the invariant says of one process.
LEMMA Here ==
  ASSUME Control, NEW p \in Proc
  PROVE  /\ Local(p) /\ Pair(p) /\ OwnMapped(p) /\ ChildMapped(p) /\ Argument(p)
         /\ pagetable[p] \in Proc /\ loc[p] \in CowLabels /\ ret[p] \in CowLabels
         /\ va[p] \in 0 .. NVA /\ end[p] \in 0 .. NVA /\ sz[p] \in 0 .. NVA
         /\ r[p] \in Page \cup {NoPage} /\ new[p] \in Page \cup {NoPage}
         /\ after[p] \in {"user", "unused"}
         /\ \A a \in VA : pte[p][a] \in PTE \cup {NoPte}
  BY DEF Control, Typed

\* The numbers of a process.
LEMMA Sizes ==
  ASSUME CowAssumption, Control, NEW p \in Proc
  PROVE  /\ va[p] \in 0 .. NVA /\ end[p] \in 0 .. NVA /\ sz[p] \in 0 .. NVA
         /\ NVA \in Nat /\ 0 \in 0 .. NVA
  BY DEF Control, Typed, CowAssumption

\* Outside uvmalloc and uvmunmap, the pages below p->sz.
LEMMA PlainOwn ==
  ASSUME NEW p \in Proc
  PROVE  /\ after[p] = "user" /\ Place(p) \notin Growing \cup Unmapping =>
              \A a \in VA : InOwn(p, a) <=> a < sz[p]
         /\ after'[p] = "user" /\ Place(p)' \notin Growing \cup Unmapping =>
              \A a \in VA : InOwn(p, a)' <=> a < sz'[p]
  BY Zenon DEF InOwn

\* The variables of a process that runs user code, has exited or is handling a fault.
LEMMA Quiescent ==
  ASSUME CowAssumption, Control, NEW p \in Proc
  PROVE  /\ loc[p] \in {"user", "zombie", "halt"} =>
              pagetable[p] = p /\ after[p] = "user" /\ va[p] = 0 /\ new[p] \notin Page
         /\ loc[p] \in {"cow_copy", "cow_map"} =>
              /\ pagetable[p] = p /\ after[p] = "user" /\ va[p] \in VA /\ va[p] < sz[p]
              /\ pte[p][va[p]] \in PTE /\ pte[p][va[p]] # NoPte
<1>1. Local(p) /\ after[p] \in {"user", "unused"} /\ OwnMapped(p)
  BY Zenon, Here
<1>2. loc[p] \in {"user", "zombie", "halt"} =>
        pagetable[p] = p /\ after[p] = "user" /\ va[p] = 0 /\ new[p] \notin Page
  BY Zenon, <1>1 DEF Local, Place, Calling, Idle, Unmapping, Copying
<1>3. loc[p] \in {"cow_copy", "cow_map"} =>
        /\ pagetable[p] = p /\ after[p] = "user" /\ va[p] < sz[p]
        /\ Place(p) \notin Growing \cup Unmapping
  BY Zenon, <1>1 DEF Local, Place, Calling, Unmapping, Copying, Growing
<1>4. va[p] \in 0 .. NVA /\ sz[p] \in 0 .. NVA /\ NVA \in Nat
  BY Zenon, Sizes
<1>5. loc[p] \in {"cow_copy", "cow_map"} => va[p] \in VA
  BY <1>3, <1>4 DEF VA
<1>6. loc[p] \in {"cow_copy", "cow_map"} => pte[p][va[p]] \in PTE /\ pte[p][va[p]] # NoPte
  BY Zenon, <1>1, <1>3, <1>5, PlainOwn, Here DEF OwnMapped
<1>7. QED
  BY Zenon, <1>2, <1>3, <1>5, <1>6

\* Back to user code, or out of it.
LEMMA LocalQuiescent ==
  ASSUME NEW p \in Proc, loc'[p] \in {"user", "zombie", "halt"}, pagetable'[p] = p,
         after'[p] = "user", va'[p] = 0, new'[p] \notin Page
  PROVE  /\ Local(p)' /\ Place(p)' \notin Growing \cup Unmapping
         /\ \A a \in VA : InOwn(p, a)' <=> a < sz'[p]
<1>1. Place(p)' \in {"user", "zombie", "halt"} /\ loc'[p] \notin Calling
  BY Zenon DEF Place, Calling
<1>2. Place(p)' \notin Growing \cup Unmapping
  BY Zenon, <1>1 DEF Growing, Unmapping
<1>3. \A a \in VA : InOwn(p, a)' <=> a < sz'[p]
  BY Zenon, <1>2, PlainOwn
<1>4. Local(p)'
  BY Zenon, <1>1 DEF Local, Unmapping, Copying, Growing, Idle
<1>5. QED
  BY Zenon, <1>2, <1>3, <1>4

\* A PTE is changed.
LEMMA PteSet ==
  ASSUME Control, NEW q \in Proc, NEW a \in VA, NEW e \in PTE \cup {NoPte},
         pte' = [pte EXCEPT ![q][a] = e]
  PROVE  /\ pte' \in [Proc -> [VA -> PTE \cup {NoPte}]]
         /\ pte'[q][a] = e
         /\ \A b \in VA : b # a => pte'[q][b] = pte[q][b]
         /\ \A x \in Proc : x # q => pte'[x] = pte[x]
<1>1. pte \in [Proc -> [VA -> PTE \cup {NoPte}]]
  BY Zenon DEF Control, Typed
<1>2. QED
  BY <1>1

\* A step of p that takes q in as its child, or lets it go.
LEMMA PairKeeps ==
  ASSUME Control, NEW p \in Proc, NEW q \in Proc, p # q, loc[p] # "embryo", loc'[p] # "embryo",
         pte' = pte, pagetable'[p] \in {p, q}, pagetable[q] = q, pagetable'[q] = q,
         \A x \in Proc : pagetable[x] = q => x \in {p, q},
         \A x \in Proc : x \notin {p, q} => Still(x),
         Typed', Pair(p)', Local(p)', Local(q)', OwnMapped(p)', OwnMapped(q)',
         ChildMapped(p)', Argument(p)', loc'[q] \notin {"kfree", "copy_ref"}
  PROVE  Control'
<1>1. ASSUME NEW x \in Proc, x \notin {p, q}
      PROVE  /\ Still(x) /\ pagetable'[x] = pagetable[x] /\ pagetable[x] \in Proc
             /\ Local(x)' /\ OwnMapped(x)' /\ ChildMapped(x)' /\ Argument(x)'
  <2>1. /\ Still(x) /\ pagetable'[x] = pagetable[x] /\ pagetable[x] \in Proc
        /\ Local(x) /\ OwnMapped(x) /\ ChildMapped(x) /\ Argument(x)
    BY Zenon, <1>1, Here DEF Still
  <2>2. /\ Local(x)' <=> Local(x)
        /\ \A a \in VA : (InOwn(x, a)' <=> InOwn(x, a)) /\ (InChild(x, a)' <=> InChild(x, a))
    BY Zenon, <2>1, StillSame
  <2>3. OwnMapped(x)' /\ ChildMapped(x)'
    <3>1. loc'[x] = loc[x] /\ pte' = pte
      BY Zenon, <2>1 DEF Still
    <3>2. OwnMapped(x)'
      BY Zenon, <2>1, <2>2, <3>1 DEF OwnMapped
    <3>3. ChildMapped(x)'
      BY Zenon, <2>1, <2>2, <3>1 DEF ChildMapped
    <3>4. QED
      BY Zenon, <3>2, <3>3
  <2>4. Argument(x)'
    BY Zenon, <2>1 DEF Argument, Still
  <2>5. QED
    BY Zenon, <2>1, <2>2, <2>3, <2>4
<1>2. ASSUME NEW x \in Proc, x \notin {p, q} PROVE Pair(x)'
  <2>1. ASSUME pagetable[x] # x
        PROVE  /\ loc'[pagetable[x]] = "embryo" /\ pagetable[x] \notin {p, q}
               /\ \A y \in Proc : pagetable[y] = pagetable[x] => y \in {x, pagetable[x]}
    <3>1. /\ loc[pagetable[x]] = "embryo" /\ pagetable[x] \in Proc
          /\ \A y \in Proc : pagetable[y] = pagetable[x] => y \in {x, pagetable[x]}
      BY Zenon, <2>1, Here DEF Pair
    <3>2. pagetable[x] \notin {p, q}
      BY Zenon, <1>2, <3>1
    <3>3. QED
      BY Zenon, <1>1, <3>1, <3>2 DEF Still
  <2>2. ASSUME pagetable[x] # x, NEW y \in Proc, pagetable'[y] = pagetable[x]
        PROVE  y \in {x, pagetable[x]}
    BY Zenon, <1>1, <2>1, <2>2
  <2>3. pagetable'[x] = pagetable[x]
    BY Zenon, <1>1, <1>2
  <2>4. QED
    BY Zenon, <2>1, <2>2, <2>3 DEF Pair
<1>3. Pair(q)' /\ ChildMapped(q)' /\ Argument(q)'
  BY Zenon DEF Pair, ChildMapped, Argument
<1>4. QED
  BY Zenon, <1>1, <1>2, <1>3 DEF Control

\* A step of p on its own page table.
LEMMA OwnStep ==
  ASSUME Control, NEW p \in Proc, loc[p] # "embryo", loc'[p] # "embryo",
         pagetable[p] = p, pagetable'[p] = p,
         \A x \in Proc : x # p => Still(x) /\ pte'[x] = pte[x],
         Typed', Local(p)', Argument(p)', \A a \in VA : pte'[p][a] # NoPte <=> InOwn(p, a)'
  PROVE  Control'
<1>1. OwnMapped(p)' /\ ChildMapped(p)'
  BY Zenon DEF OwnMapped, ChildMapped
<1>2. QED
  BY Zenon, <1>1, OthersKeep

\* What is mapped below p->sz.
LEMMA MappedBelow ==
  ASSUME CowAssumption, Control, NEW p \in Proc,
         loc[p] \in {"user", "zombie", "halt", "cow_copy", "cow_map"}
  PROVE  \A a \in VA : pte[p][a] # NoPte <=> a < sz[p]
<1>1. OwnMapped(p) /\ after[p] = "user"
  BY Zenon, Here, Quiescent
<1>2. Place(p) \notin Growing \cup Unmapping /\ loc[p] # "embryo"
  BY Zenon DEF Place, Calling, Growing, Unmapping
<1>3. QED
  BY Zenon, <1>1, <1>2, PlainOwn DEF OwnMapped

\* The registers of the kernel code of a process in a copy-on-write fault.
LEMMA LocalCow ==
  ASSUME NEW p \in Proc, pagetable'[p] = p, after'[p] = "user", va'[p] < sz'[p],
         \/ loc'[p] = "kalloc" /\ ret'[p] = "cow_copy" /\ new'[p] \notin Page
         \/ loc'[p] = "kfree" /\ ret'[p] = "cow_map" /\ new'[p] \in Page /\ r'[p] \in Page
  PROVE  Local(p)' /\ \A a \in VA : InOwn(p, a)' <=> a < sz'[p]
<1>1. /\ Place(p)' \in {"cow_copy", "cow_map"} /\ (new'[p] \in Page <=> Place(p)' = "cow_map")
      /\ loc'[p] \in Calling
  BY Zenon DEF Place, Calling
<1>2. Place(p)' \notin Growing \cup Unmapping \cup Copying
  BY Zenon, <1>1 DEF Growing, Unmapping, Copying
<1>3. Local(p)'
  BY Zenon, <1>1, <1>2 DEF Local, Idle, Unmapping, Copying, Growing, Calling
<1>4. QED
  BY Zenon, <1>2, <1>3, PlainOwn

\* uvmalloc: the pages below va are mapped.
LEMMA GrowingFacts ==
  ASSUME CowAssumption, Control, NEW p \in Proc, loc[p] \in Growing
  PROVE  /\ pagetable[p] = p /\ after[p] = "user" /\ new[p] \notin Page
         /\ sz[p] <= va[p] /\ va[p] <= end[p] /\ (loc[p] # "grow" => va[p] < end[p])
         /\ \A a \in VA : pte[p][a] # NoPte <=> a < va[p]
<1>1. Local(p) /\ OwnMapped(p) /\ after[p] \in {"user", "unused"}
  BY Zenon, Here
<1>2. Place(p) = loc[p]
  BY Zenon DEF Place, Growing, Calling
<1>3. /\ pagetable[p] = p /\ after[p] = "user" /\ new[p] \notin Page
      /\ sz[p] <= va[p] /\ va[p] <= end[p] /\ (loc[p] # "grow" => va[p] < end[p])
  BY Zenon, <1>1, <1>2 DEF Local, Growing, Unmapping, Copying
<1>4. \A a \in VA : InOwn(p, a) <=> a < va[p]
  BY Zenon, <1>2, <1>3 DEF InOwn
<1>5. loc[p] # "embryo"
  BY Zenon DEF Growing
<1>6. QED
  BY Zenon, <1>1, <1>3, <1>4, <1>5 DEF OwnMapped

\* The variables of a process that goes on with uvmalloc.
LEMMA LocalGrowing ==
  ASSUME NEW p \in Proc, pagetable'[p] = p, after'[p] = "user", new'[p] \notin Page,
         sz'[p] <= va'[p], va'[p] <= end'[p],
         \/ loc'[p] = "grow"
         \/ loc'[p] = "kalloc" /\ ret'[p] = "grow_map" /\ va'[p] < end'[p]
         \/ loc'[p] = "kfree" /\ ret'[p] = "grow_undo" /\ va'[p] < end'[p] /\ r'[p] \in Page
  PROVE  Local(p)' /\ \A a \in VA : InOwn(p, a)' <=> a < va'[p]
<1>1. Place(p)' \in Growing /\ (Place(p)' = "grow" \/ va'[p] < end'[p]) /\ loc'[p] \notin Idle
  BY Zenon DEF Place, Calling, Growing, Idle
<1>2. \A a \in VA : InOwn(p, a)' <=> a < va'[p]
  BY Zenon, <1>1 DEF InOwn
<1>3. Local(p)'
  BY Zenon, <1>1 DEF Local, Idle, Unmapping, Copying, Growing
<1>4. QED
  BY Zenon, <1>2, <1>3

\* uvmunmap: the pages from va to end are still mapped.
LEMMA UnmappingFacts ==
  ASSUME CowAssumption, Control, NEW p \in Proc, loc[p] \in Unmapping
  PROVE  /\ new[p] \notin Page /\ va[p] <= end[p] /\ (loc[p] = "clear" => va[p] < end[p])
         /\ after[p] \in {"user", "unused"} /\ (after[p] = "unused" => pagetable[p] = p)
         /\ after[p] = "user" /\ pagetable[p] = p => sz[p] <= va[p]
         /\ after[p] = "unused" =>
              \A a \in VA : pte[p][a] # NoPte <=> va[p] <= a /\ a < end[p]
         /\ after[p] = "user" /\ pagetable[p] = p =>
              \A a \in VA : pte[p][a] # NoPte <=> a < sz[p] \/ (va[p] <= a /\ a < end[p])
         /\ pagetable[p] # p => \A a \in VA : pte[p][a] # NoPte <=> a < sz[p]
         /\ \A a \in VA : va[p] <= a /\ a < end[p] => pte[pagetable[p]][a] # NoPte
         /\ pagetable[p] # p =>
              \A a \in VA : pte[pagetable[p]][a] # NoPte <=> va[p] <= a /\ a < end[p]
<1>1. Local(p) /\ OwnMapped(p) /\ ChildMapped(p) /\ after[p] \in {"user", "unused"}
  BY Zenon, Here
<1>2. Place(p) = loc[p] /\ Place(p) \notin Growing \cup Copying /\ Place(p) # "cow_map"
      /\ loc[p] # "embryo"
  BY Zenon DEF Place, Growing, Calling, Unmapping, Copying
<1>3. /\ new[p] \notin Page /\ va[p] <= end[p] /\ (loc[p] = "clear" => va[p] < end[p])
      /\ (after[p] = "unused" => pagetable[p] = p)
      /\ after[p] = "user" /\ pagetable[p] = p => sz[p] <= va[p]
  <2>1. va[p] < end[p] => va[p] <= end[p]
    BY Sizes
  <2>2. QED
    BY Zenon, <1>1, <1>2, <2>1 DEF Local, Unmapping
<1>4. /\ after[p] = "unused" =>
           \A a \in VA : pte[p][a] # NoPte <=> va[p] <= a /\ a < end[p]
      /\ after[p] = "user" /\ pagetable[p] = p =>
           \A a \in VA : pte[p][a] # NoPte <=> a < sz[p] \/ (va[p] <= a /\ a < end[p])
      /\ pagetable[p] # p => \A a \in VA : pte[p][a] # NoPte <=> a < sz[p]
  BY Zenon, <1>1, <1>2, <1>3 DEF OwnMapped, InOwn
<1>5. pagetable[p] # p =>
        \A a \in VA : pte[pagetable[p]][a] # NoPte <=> va[p] <= a /\ a < end[p]
  BY Zenon, <1>1, <1>2 DEF ChildMapped, InChild
<1>6. QED
  BY Zenon, <1>1, <1>3, <1>4, <1>5

\* The variables of a process that goes on with uvmunmap.
LEMMA LocalUnmapping ==
  ASSUME NEW p \in Proc, new'[p] \notin Page, va'[p] <= end'[p],
         after'[p] \in {"user", "unused"}, after'[p] = "unused" => pagetable'[p] = p,
         after'[p] = "user" /\ pagetable'[p] = p => sz'[p] <= va'[p],
         \/ loc'[p] = "unmap"
         \/ loc'[p] = "kfree" /\ ret'[p] = "clear" /\ va'[p] < end'[p] /\ r'[p] \in Page
  PROVE  /\ Local(p)'
         /\ after'[p] = "unused" => \A a \in VA : InOwn(p, a)' <=> va'[p] <= a /\ a < end'[p]
         /\ after'[p] = "user" /\ pagetable'[p] = p =>
              \A a \in VA : InOwn(p, a)' <=> a < sz'[p] \/ (va'[p] <= a /\ a < end'[p])
         /\ pagetable'[p] # p => \A a \in VA : InOwn(p, a)' <=> a < sz'[p]
         /\ \A a \in VA : InChild(p, a)' <=> va'[p] <= a /\ a < end'[p]
<1>1. /\ Place(p)' \in Unmapping /\ (Place(p)' = "unmap" \/ va'[p] < end'[p])
      /\ Place(p)' \notin Growing \cup Copying /\ loc'[p] \notin Idle
  BY Zenon DEF Place, Calling, Growing, Unmapping, Copying, Idle
<1>2. Local(p)'
  BY Zenon, <1>1 DEF Local, Idle, Unmapping, Copying, Growing
<1>3. /\ after'[p] = "unused" => \A a \in VA : InOwn(p, a)' <=> va'[p] <= a /\ a < end'[p]
      /\ after'[p] = "user" /\ pagetable'[p] = p =>
           \A a \in VA : InOwn(p, a)' <=> a < sz'[p] \/ (va'[p] <= a /\ a < end'[p])
      /\ pagetable'[p] # p => \A a \in VA : InOwn(p, a)' <=> a < sz'[p]
  BY Zenon, <1>1 DEF InOwn
<1>4. \A a \in VA : InChild(p, a)' <=> va'[p] <= a /\ a < end'[p]
  BY Zenon, <1>1 DEF InChild
<1>5. QED
  BY Zenon, <1>2, <1>3, <1>4

\* uvmcopy: the child maps the pages below va.
LEMMA CopyingFacts ==
  ASSUME CowAssumption, Control, NEW p \in Proc, loc[p] \in Copying
  PROVE  /\ pagetable[p] # p /\ pagetable[p] \in Proc /\ after[p] = "user" /\ new[p] \notin Page
         /\ va[p] <= sz[p] /\ (loc[p] = "copy_ref" => va[p] < sz[p])
         /\ \A a \in VA : pte[p][a] # NoPte <=> a < sz[p]
         /\ \A a \in VA : pte[pagetable[p]][a] # NoPte <=>
                            a < va[p] \/ (loc[p] = "copy_ref" /\ a = va[p])
<1>1. /\ Local(p) /\ OwnMapped(p) /\ ChildMapped(p) /\ after[p] \in {"user", "unused"}
      /\ pagetable[p] \in Proc
  BY Zenon, Here
<1>2. Place(p) = loc[p] /\ Place(p) \notin Growing \cup Unmapping /\ Place(p) # "cow_map"
      /\ loc[p] # "embryo" /\ Place(p) \in Copying
  BY Zenon DEF Place, Growing, Calling, Unmapping, Copying
<1>3. va[p] < sz[p] => va[p] <= sz[p]
  BY Sizes
<1>4. /\ pagetable[p] # p /\ after[p] = "user" /\ new[p] \notin Page
      /\ va[p] <= sz[p] /\ (loc[p] = "copy_ref" => va[p] < sz[p])
  BY Zenon, <1>1, <1>2, <1>3 DEF Local, Copying
<1>5. \A a \in VA : pte[p][a] # NoPte <=> a < sz[p]
  BY Zenon, <1>1, <1>2, <1>4, PlainOwn DEF OwnMapped
<1>6. \A a \in VA : pte[pagetable[p]][a] # NoPte <=>
                      a < va[p] \/ (loc[p] = "copy_ref" /\ a = va[p])
  BY Zenon, <1>1, <1>2, <1>4 DEF ChildMapped, InChild
<1>7. QED
  BY Zenon, <1>1, <1>4, <1>5, <1>6

\* The variables of a process that goes on with uvmcopy.
LEMMA LocalCopying ==
  ASSUME NEW p \in Proc, pagetable'[p] # p, after'[p] = "user", new'[p] \notin Page,
         \/ loc'[p] = "copy" /\ va'[p] <= sz'[p]
         \/ loc'[p] = "copy_ref" /\ va'[p] < sz'[p]
  PROVE  /\ Local(p)' /\ \A a \in VA : InOwn(p, a)' <=> a < sz'[p]
         /\ \A a \in VA : InChild(p, a)' <=> a < va'[p] \/ (loc'[p] = "copy_ref" /\ a = va'[p])
<1>1. /\ Place(p)' \in Copying /\ Place(p)' = loc'[p] /\ loc'[p] \notin Idle \cup Calling
      /\ Place(p)' \notin Growing \cup Unmapping
  BY Zenon DEF Place, Calling, Growing, Unmapping, Copying, Idle
<1>2. Local(p)'
  BY Zenon, <1>1 DEF Local, Idle, Unmapping, Copying, Growing, Calling
<1>3. \A a \in VA : InOwn(p, a)' <=> a < sz'[p]
  BY Zenon, <1>1, PlainOwn
<1>4. \A a \in VA : InChild(p, a)' <=> a < va'[p] \/ (loc'[p] = "copy_ref" /\ a = va'[p])
  BY Zenon, <1>1 DEF InChild
<1>5. QED
  BY Zenon, <1>2, <1>3, <1>4

\* The slot of a process without memory.
LEMMA LocalUnused ==
  ASSUME NEW p \in Proc, loc'[p] \in {"unused", "embryo"}, pagetable'[p] = p,
         after'[p] = "user", va'[p] = 0, sz'[p] = 0, new'[p] \notin Page
  PROVE  /\ Local(p)' /\ \A a \in VA : InOwn(p, a)' <=> a < 0
<1>1. Place(p)' \in {"unused", "embryo"} /\ loc'[p] \notin Calling
  BY Zenon DEF Place, Calling
<1>2. Place(p)' \notin Growing \cup Unmapping
  BY Zenon, <1>1 DEF Growing, Unmapping
<1>3. \A a \in VA : InOwn(p, a)' <=> a < 0
  BY Zenon, <1>2, PlainOwn
<1>4. Local(p)'
  BY Zenon, <1>1 DEF Local, Unmapping, Copying, Growing, Idle
<1>5. QED
  BY Zenon, <1>3, <1>4

-----------------------------------------------------------------------------
\* Steps inside kalloc and kfree, and returns from them, stay in the same place.
LEMMA CallStep ==
  ASSUME Control, NEW p \in Proc, loc[p] \in Calling, loc'[p] \notin Idle, Place(p)' = Place(p),
         UNCHANGED <<pte, sz, pagetable, va, end, after, new>>,
         loc'[p] \in {"kalloc", "incref"} => ret'[p] \in {"cow_copy", "grow_map"},
         loc'[p] \in {"kfree", "push"} => ret'[p] \in {"clear", "cow_map", "grow_undo"},
         loc'[p] \in {"incref", "kfree", "push"} => r'[p] \in Page,
         loc'[p] \notin {"kfree", "copy_ref"}, \A x \in Proc : x # p => Still(x), Typed'
  PROVE  Control'
<1>1. Local(p) /\ OwnMapped(p) /\ ChildMapped(p)
  BY Zenon, Here
<1>2. Local(p)'
  BY Zenon, <1>1 DEF Local, Idle
<1>3. \A a \in VA : (InOwn(p, a)' <=> InOwn(p, a)) /\ (InChild(p, a)' <=> InChild(p, a))
  BY Zenon DEF InOwn, InChild
<1>4. loc[p] # "embryo" /\ loc'[p] # "embryo"
  BY Zenon DEF Calling, Idle
<1>5. OwnMapped(p)' /\ ChildMapped(p)'
  BY Zenon, <1>1, <1>3, <1>4 DEF OwnMapped, ChildMapped
<1>6. Argument(p)'
  BY Zenon DEF Argument
<1>7. QED
  BY Zenon, <1>2, <1>4, <1>5, <1>6, OthersKeep

\* Initially init has one page.
LEMMA InitControl ==
  ASSUME CowAssumption, CowInit PROVE Control
<1> DEFINE p == first
<1>1. PICK g \in Page :
        /\ freelist = Page \ {g} /\ ref_cnt = [h \in Page |-> IF h = g THEN 1 ELSE 0]
        /\ pte = [q \in Proc |-> [a \in VA |-> IF q = p /\ a = 0 THEN UserPte(g) ELSE NoPte]]
        /\ sz = [q \in Proc |-> IF q = p THEN 1 ELSE 0]
        /\ loc = [q \in Proc |-> IF q = p THEN "user" ELSE "unused"]
        /\ pagetable = [q \in Proc |-> q] /\ va = [q \in Proc |-> 0]
        /\ end = [q \in Proc |-> 0] /\ r = [q \in Proc |-> NoPage]
        /\ ret = [q \in Proc |-> "user"] /\ after = [q \in Proc |-> "user"]
        /\ new = [q \in Proc |-> NoPage]
  BY Zenon DEF CowInit
<1>2. UserPte(g) \in PTE
  BY <1>1 DEF UserPte, PTE
<1>3. Typed
  <2>1. pte \in [Proc -> [VA -> PTE \cup {NoPte}]]
    BY Zenon, <1>1, <1>2
  <2>2. /\ sz \in [Proc -> 0 .. NVA] /\ va \in [Proc -> 0 .. NVA] /\ end \in [Proc -> 0 .. NVA]
        /\ ref_cnt \in [Page -> Nat]
    BY <1>1 DEF CowAssumption
  <2>3. QED
    BY Zenon, <1>1, <2>1, <2>2 DEF Typed, CowLabels
<1>4. ASSUME NEW x \in Proc
      PROVE  Local(x) /\ Pair(x) /\ OwnMapped(x) /\ ChildMapped(x) /\ Argument(x)
  <2>1. /\ loc[x] \in {"user", "unused"} /\ pagetable[x] = x /\ va[x] = 0 /\ after[x] = "user"
        /\ new[x] = NoPage /\ (x # p => loc[x] = "unused" /\ sz[x] = 0)
        /\ (x = p => loc[x] = "user" /\ sz[x] = 1)
    BY Zenon, <1>1
  <2>2. Place(x) = loc[x] /\ Place(x) \notin Growing \cup Unmapping
    BY Zenon, <2>1 DEF Place, Calling, Growing, Unmapping
  <2>3. Local(x)
    BY Zenon, <2>1, <2>2 DEF Local, Growing, Unmapping, Copying, CowAssumption
  <2>4. \A a \in VA : pte[x][a] # NoPte <=> a < sz[x]
    <3>1. \A a \in VA : (a < 1 <=> a = 0) /\ ~ (a < 0)
      BY DEF VA, CowAssumption
    <3>2. \A a \in VA : pte[x][a] # NoPte <=> x = p /\ a = 0
      BY Zenon, <1>1, <1>2 DEF CowAssumption
    <3>3. QED
      BY Zenon, <2>1, <3>1, <3>2
  <2>5. OwnMapped(x)
    BY Zenon, <2>1, <2>2, <2>4, PlainOwn DEF OwnMapped
  <2>6. Pair(x) /\ ChildMapped(x) /\ Argument(x)
    BY Zenon, <2>1 DEF Pair, ChildMapped, Argument
  <2>7. QED
    BY Zenon, <2>3, <2>5, <2>6
<1>5. QED
  BY Zenon, <1>3, <1>4 DEF Control

\* Every step of Next keeps the control part of the invariant.
LEMMA NextControl ==
  ASSUME CowAssumption, Control, [CowNext]_cowvars PROVE Control'
\* kalloc takes a page if there is one.
<1>Kalloc. ASSUME NEW p \in Proc, Kalloc(p) PROVE Control'
  <2> USE <1>Kalloc
  <2>1. loc[p] = "kalloc" /\ UNCHANGED <<ref_cnt, pte, sz, pagetable, va, end, after, new>>
    BY Zenon DEF Kalloc, At, loop
  <2>2. ret[p] \in {"cow_copy", "grow_map"}
    BY Zenon, <2>1, Here DEF Local
  <2>3. CASE /\ freelist' = freelist /\ r' = [r EXCEPT ![p] = NoPage] /\ Return(p)
    <3>1. loc' = [loc EXCEPT ![p] = ret[p]] /\ ret' = [ret EXCEPT ![p] = "user"]
      BY Zenon, <2>3 DEF Return, Goes
    <3>2. loc'[p] = ret[p] /\ \A x \in Proc : x # p => Still(x)
      BY <2>1, <2>3, <3>1 DEF Still, Control, Typed
    <3>3. Typed'
      BY <2>1, <2>2, <2>3, <3>1 DEF Control, Typed, CowLabels
    <3>4. Place(p)' = Place(p) /\ loc[p] \in Calling /\ loc'[p] \notin Idle
      BY Zenon, <2>1, <2>2, <3>2 DEF Place, Calling, Idle
    <3>5. QED
      BY Zenon, <2>1, <2>2, <3>2, <3>3, <3>4, CallStep
  <2>4. ASSUME NEW g \in freelist, freelist' = freelist \ {g}, r' = [r EXCEPT ![p] = g],
               Goes(p, "incref"), UNCHANGED ret
        PROVE  Control'
    <3>1. loc' = [loc EXCEPT ![p] = "incref"] /\ g \in Page
      BY Zenon, <2>4 DEF Goes, Control, Typed
    <3>2. loc'[p] = "incref" /\ r'[p] = g /\ \A x \in Proc : x # p => Still(x)
      BY <2>1, <2>4, <3>1 DEF Still, Control, Typed
    <3>3. Typed'
      BY <2>1, <2>4, <3>1 DEF Control, Typed, CowLabels
    <3>4. Place(p)' = Place(p) /\ loc[p] \in Calling /\ loc'[p] \notin Idle
      BY Zenon, <2>1, <2>4, <3>2 DEF Place, Calling, Idle
    <3>5. QED
      BY Zenon, <2>1, <2>2, <2>4, <3>1, <3>2, <3>3, <3>4, CallStep
  <2>5. QED
    BY Zenon, <2>3, <2>4 DEF Kalloc
\* The new reference is counted.
<1>Increfcnt. ASSUME NEW p \in Proc, Increfcnt(p) PROVE Control'
  <2> USE <1>Increfcnt
  <2>1. loc[p] = "incref" /\ UNCHANGED <<freelist, pte, sz, pagetable, va, end, after, r, new>>
    BY Zenon DEF Increfcnt, At, loop
  <2>2. /\ loc' = [loc EXCEPT ![p] = ret[p]] /\ ret' = [ret EXCEPT ![p] = "user"]
        /\ ref_cnt' = [ref_cnt EXCEPT ![r[p]] = (@ + 1) % REFMOD]
    BY Zenon DEF Increfcnt, Return, Goes
  <2>3. ret[p] \in {"cow_copy", "grow_map"} /\ r[p] \in Page
    BY Zenon, <2>1, Here DEF Local
  <2>4. loc'[p] = ret[p] /\ \A x \in Proc : x # p => Still(x)
    BY <2>1, <2>2 DEF Still, Control, Typed
  <2>5. Typed'
    <3>1. ref_cnt' \in [Page -> Nat]
      BY <2>2, <2>3 DEF Control, Typed, CowAssumption
    <3>2. loc' \in [Proc -> CowLabels] /\ ret' \in [Proc -> CowLabels]
      BY <2>2, <2>3 DEF Control, Typed, CowLabels
    <3>3. QED
      BY Zenon, <2>1, <3>1, <3>2 DEF Control, Typed
  <2>6. Place(p)' = Place(p) /\ loc[p] \in Calling /\ loc'[p] \notin Idle
    BY Zenon, <2>1, <2>3, <2>4 DEF Place, Calling, Idle
  <2>7. QED
    BY Zenon, <2>1, <2>3, <2>4, <2>5, <2>6, CallStep
\* kfree drops a reference.
<1>Kfree. ASSUME NEW p \in Proc, Kfree(p) PROVE Control'
  <2> USE <1>Kfree
  <2>1. loc[p] = "kfree" /\ UNCHANGED <<freelist, pte, sz, pagetable, va, end, after, r, new>>
    BY Zenon DEF Kfree, At, loop
  <2>2. ref_cnt' = [ref_cnt EXCEPT ![r[p]] = (@ - 1) % REFMOD]
    BY Zenon DEF Kfree
  <2>3. ret[p] \in {"clear", "cow_map", "grow_undo"} /\ r[p] \in Page
    BY Zenon, <2>1, Here DEF Local
  <2>4. ref_cnt' \in [Page -> Nat]
    BY <2>2, <2>3 DEF Control, Typed, CowAssumption
  <2>5. CASE Return(p)
    <3>1. loc' = [loc EXCEPT ![p] = ret[p]] /\ ret' = [ret EXCEPT ![p] = "user"]
      BY Zenon, <2>5 DEF Return, Goes
    <3>2. loc'[p] = ret[p] /\ \A x \in Proc : x # p => Still(x)
      BY <2>1, <3>1 DEF Still, Control, Typed
    <3>3. Typed'
      <4>1. loc' \in [Proc -> CowLabels] /\ ret' \in [Proc -> CowLabels]
        BY <2>3, <3>1 DEF Control, Typed, CowLabels
      <4>2. QED
        BY Zenon, <2>1, <2>4, <4>1 DEF Control, Typed
    <3>4. Place(p)' = Place(p) /\ loc[p] \in Calling /\ loc'[p] \notin Idle
      BY Zenon, <2>1, <2>3, <3>2 DEF Place, Calling, Idle
    <3>5. QED
      BY Zenon, <2>1, <2>3, <3>2, <3>3, <3>4, CallStep
  <2>6. CASE Goes(p, "push") /\ UNCHANGED ret
    <3>1. loc' = [loc EXCEPT ![p] = "push"]
      BY Zenon, <2>6 DEF Goes
    <3>2. loc'[p] = "push" /\ \A x \in Proc : x # p => Still(x)
      BY <2>1, <2>6, <3>1 DEF Still, Control, Typed
    <3>3. Typed'
      <4>1. loc' \in [Proc -> CowLabels]
        BY <3>1 DEF Control, Typed, CowLabels
      <4>2. QED
        BY Zenon, <2>1, <2>4, <2>6, <4>1 DEF Control, Typed
    <3>4. Place(p)' = Place(p) /\ loc[p] \in Calling /\ loc'[p] \notin Idle
      BY Zenon, <2>1, <2>6, <3>2 DEF Place, Calling, Idle
    <3>5. QED
      BY Zenon, <2>1, <2>3, <2>6, <3>2, <3>3, <3>4, CallStep
  <2>7. QED
    BY Zenon, <2>5, <2>6 DEF Kfree
\* A page is freed.
<1>Push. ASSUME NEW p \in Proc, Push(p) PROVE Control'
  <2> USE <1>Push
  <2>1. loc[p] = "push" /\ UNCHANGED <<ref_cnt, pte, sz, pagetable, va, end, after, r, new>>
    BY Zenon DEF Push, At, loop
  <2>2. /\ loc' = [loc EXCEPT ![p] = ret[p]] /\ ret' = [ret EXCEPT ![p] = "user"]
        /\ freelist' = freelist \cup {r[p]}
    BY Zenon DEF Push, Return, Goes
  <2>3. ret[p] \in {"clear", "cow_map", "grow_undo"} /\ r[p] \in Page
    BY Zenon, <2>1, Here DEF Local
  <2>4. loc'[p] = ret[p] /\ \A x \in Proc : x # p => Still(x)
    BY <2>1, <2>2 DEF Still, Control, Typed
  <2>5. Typed'
    <3>1. loc' \in [Proc -> CowLabels] /\ ret' \in [Proc -> CowLabels]
      BY <2>2, <2>3 DEF Control, Typed, CowLabels
    <3>2. QED
      BY Zenon, <2>1, <2>2, <2>3, <3>1 DEF Control, Typed
  <2>6. Place(p)' = Place(p) /\ loc[p] \in Calling /\ loc'[p] \notin Idle
    BY Zenon, <2>1, <2>3, <2>4 DEF Place, Calling, Idle
  <2>7. QED
    BY Zenon, <2>1, <2>3, <2>4, <2>5, <2>6, CallStep
\* A store or copyout meets a copy-on-write page.
<1>Fault.
  ASSUME NEW p \in Proc, NEW a \in VA, loc[p] = "user", Present(p, a),
         va' = [va EXCEPT ![p] = a], CallKalloc(p, "cow_copy"),
         UNCHANGED <<freelist, ref_cnt, pte, sz, pagetable, end, after, r, new>>
  PROVE  Control'
  <2> USE <1>Fault
  <2>1. loc' = [loc EXCEPT ![p] = "kalloc"] /\ ret' = [ret EXCEPT ![p] = "cow_copy"]
    BY Zenon DEF CallKalloc, Goes
  <2>2. /\ pagetable[p] = p /\ after[p] = "user" /\ new[p] \notin Page
        /\ \A b \in VA : pte[p][b] # NoPte <=> b < sz[p]
    BY Zenon, Quiescent, MappedBelow
  <2>3. a < sz[p] /\ a \in 0 .. NVA
    BY <2>2 DEF Present, VA, CowAssumption
  <2>4. /\ loc'[p] = "kalloc" /\ ret'[p] = "cow_copy" /\ va'[p] = a
        /\ \A x \in Proc : x # p => Still(x)
    BY <2>1 DEF Still, Control, Typed
  <2>5. Typed'
    BY <2>1, <2>3 DEF Control, Typed, CowLabels
  <2>6. Local(p)' /\ \A b \in VA : InOwn(p, b)' <=> b < sz'[p]
    BY Zenon, <2>2, <2>3, <2>4, LocalCow
  <2>7. Argument(p)'
    BY Zenon, <2>4 DEF Argument
  <2>8. QED
    BY Zenon, <2>2, <2>4, <2>5, <2>6, <2>7, OwnStep
\* A process exits, or is killed.
<1>Exit.
  ASSUME NEW p \in Proc, loc[p] = "user", Goes(p, Exited(p)),
         UNCHANGED <<freelist, ref_cnt, pte, sz, pagetable, va, end, after, r, ret, new>>
  PROVE  Control'
  <2> USE <1>Exit
  <2>1. PICK l \in {"halt", "zombie"} : loc' = [loc EXCEPT ![p] = l]
    BY Zenon DEF Exited, Goes
  <2>2. /\ pagetable[p] = p /\ after[p] = "user" /\ new[p] \notin Page /\ va[p] = 0
        /\ \A b \in VA : pte[p][b] # NoPte <=> b < sz[p]
    BY Zenon, Quiescent, MappedBelow
  <2>3. loc'[p] = l /\ \A x \in Proc : x # p => Still(x)
    BY <2>1 DEF Still, Control, Typed
  <2>4. Typed'
    BY <2>1 DEF Control, Typed, CowLabels
  <2>5. Local(p)' /\ \A b \in VA : InOwn(p, b)' <=> b < sz'[p]
    BY Zenon, <2>1, <2>2, <2>3, LocalQuiescent
  <2>6. Argument(p)'
    BY Zenon, <2>1, <2>3 DEF Argument
  <2>7. QED
    BY Zenon, <2>1, <2>2, <2>3, <2>4, <2>5, <2>6, OwnStep
\* The page is copied.
<1>CowCopy. ASSUME NEW p \in Proc, CowCopy(p) PROVE Control'
  <2> USE <1>CowCopy
  <2>1. /\ loc[p] = "cow_copy" /\ r[p] # NoPage
        /\ UNCHANGED <<freelist, ref_cnt, pte, sz, pagetable, va, end, after>>
    BY Zenon DEF CowCopy, At, loop
  <2>2. /\ loc' = [loc EXCEPT ![p] = "kfree"] /\ ret' = [ret EXCEPT ![p] = "cow_map"]
        /\ new' = [new EXCEPT ![p] = r[p]] /\ r' = [r EXCEPT ![p] = pte[p][va[p]].pa]
    BY Zenon DEF CowCopy, CallKfree, Goes
  <2>3. /\ pagetable[p] = p /\ after[p] = "user" /\ va[p] < sz[p] /\ pte[p][va[p]] \in PTE
        /\ \A b \in VA : pte[p][b] # NoPte <=> b < sz[p]
    BY Zenon, <2>1, Quiescent, MappedBelow
  <2>4. r[p] \in Page /\ pte[p][va[p]].pa \in Page
    BY <2>1, <2>3 DEF PTE, Control, Typed
  <2>5. /\ loc'[p] = "kfree" /\ ret'[p] = "cow_map" /\ new'[p] = r[p] /\ r'[p] = pte[p][va[p]].pa
        /\ \A x \in Proc : x # p => Still(x)
    BY <2>1, <2>2 DEF Still, Control, Typed
  <2>6. Typed'
    BY <2>1, <2>2, <2>4 DEF Control, Typed, CowLabels
  <2>7. Local(p)' /\ \A b \in VA : InOwn(p, b)' <=> b < sz'[p]
    BY Zenon, <2>1, <2>3, <2>4, <2>5, LocalCow
  <2>8. Argument(p)'
    BY Zenon, <2>1, <2>3, <2>5 DEF Argument
  <2>9. QED
    BY Zenon, <2>1, <2>3, <2>5, <2>6, <2>7, <2>8, OwnStep
\* There is no page for the copy.
<1>CowFail. ASSUME NEW p \in Proc, CowFail(p) PROVE Control'
  <2> USE <1>CowFail
  <2>1. /\ loc[p] = "cow_copy" /\ UNCHANGED <<freelist, ref_cnt, pte, sz, pagetable, end, after>>
        /\ UNCHANGED <<r, ret, new>> /\ va' = [va EXCEPT ![p] = 0]
    BY Zenon DEF CowFail, At
  <2>2. PICK l \in {"user", "halt", "zombie"} : loc' = [loc EXCEPT ![p] = l]
    BY Zenon DEF CowFail, Goes, Exited
  <2>3. /\ pagetable[p] = p /\ after[p] = "user" /\ \A b \in VA : pte[p][b] # NoPte <=> b < sz[p]
    BY Zenon, <2>1, Quiescent, MappedBelow
  <2>4. new[p] \notin Page
    BY Zenon, <2>1, Here DEF Local, Place, Calling
  <2>5. loc'[p] = l /\ va'[p] = 0 /\ \A x \in Proc : x # p => Still(x)
    BY <2>1, <2>2 DEF Still, Control, Typed
  <2>6. Typed'
    BY <2>1, <2>2 DEF Control, Typed, CowLabels, CowAssumption
  <2>7. Local(p)' /\ \A b \in VA : InOwn(p, b)' <=> b < sz'[p]
    BY Zenon, <2>1, <2>2, <2>3, <2>4, <2>5, LocalQuiescent
  <2>8. Argument(p)'
    BY Zenon, <2>2, <2>5 DEF Argument
  <2>9. QED
    BY Zenon, <2>1, <2>2, <2>3, <2>5, <2>6, <2>7, <2>8, OwnStep
\* The copy is mapped.
<1>CowMap. ASSUME NEW p \in Proc, CowMap(p) PROVE Control'
  <2> USE <1>CowMap
  <2>1. /\ loc[p] = "cow_map" /\ UNCHANGED <<freelist, ref_cnt, sz, pagetable, end, after, ret>>
    BY Zenon DEF CowMap, At
  <2>2. /\ loc' = [loc EXCEPT ![p] = "user"] /\ va' = [va EXCEPT ![p] = 0]
        /\ new' = [new EXCEPT ![p] = NoPage] /\ r' = [r EXCEPT ![p] = NoPage]
    BY Zenon DEF CowMap, Goes
  <2>3. /\ pagetable[p] = p /\ after[p] = "user" /\ va[p] \in VA
        /\ pte[p][va[p]] \in PTE /\ pte[p][va[p]] # NoPte
        /\ \A b \in VA : pte[p][b] # NoPte <=> b < sz[p]
    BY Zenon, <2>1, Quiescent, MappedBelow
  <2>4. new[p] \in Page
    BY Zenon, <2>1, Here DEF Local, Place, Calling
  <2> DEFINE e == [pte[p][va[p]] EXCEPT !.pa = new[p], !.w = TRUE, !.cow = FALSE]
  <2>5. e \in PTE
    BY Zenon, <2>3, <2>4 DEF PTE
  <2>6. pte' = [pte EXCEPT ![p][va[p]] = e]
    BY <2>3 DEF CowMap, Control, Typed
  <2> HIDE DEF e
  <2>7. /\ pte'[p][va[p]] = e /\ \A b \in VA : b # va[p] => pte'[p][b] = pte[p][b]
        /\ \A x \in Proc : x # p => pte'[x] = pte[x]
    BY <2>3, <2>6 DEF Control, Typed
  <2>t. pte' \in [Proc -> [VA -> PTE \cup {NoPte}]]
    BY Zenon, <2>3, <2>5, <2>6, PteSet
  <2>8. \A b \in VA : pte'[p][b] # NoPte <=> b < sz[p]
    BY Zenon, <2>3, <2>5, <2>7 DEF CowAssumption
  <2>9. /\ loc'[p] = "user" /\ va'[p] = 0 /\ new'[p] = NoPage
        /\ \A x \in Proc : x # p => Still(x)
    BY <2>1, <2>2 DEF Still, Control, Typed
  <2>10. Typed'
    <3>1. /\ loc' \in [Proc -> CowLabels] /\ va' \in [Proc -> 0 .. NVA]
          /\ r' \in [Proc -> Page \cup {NoPage}] /\ new' \in [Proc -> Page \cup {NoPage}]
      BY <2>2 DEF Control, Typed, CowLabels, CowAssumption
    <3>2. QED
      BY Zenon, <2>1, <2>t, <3>1 DEF Control, Typed
  <2>11. Local(p)' /\ \A b \in VA : InOwn(p, b)' <=> b < sz'[p]
    BY Zenon, <2>1, <2>3, <2>9, LocalQuiescent DEF CowAssumption
  <2>12. Argument(p)'
    BY Zenon, <2>9 DEF Argument
  <2>13. QED
    BY Zenon, <2>1, <2>3, <2>7, <2>8, <2>9, <2>10, <2>11, <2>12, OwnStep
\* uvmalloc begins ...
<1>Grow. ASSUME NEW p \in Proc, NEW n \in 0 .. NVA, Grow(p, n) PROVE Control'
  <2> USE <1>Grow
  <2>1. /\ loc[p] = "user" /\ n > sz[p] /\ UNCHANGED <<freelist, ref_cnt, pte, sz, pagetable>>
        /\ UNCHANGED <<after, r, ret, new>>
    BY Zenon DEF Grow, At
  <2>2. /\ loc' = [loc EXCEPT ![p] = "grow"] /\ va' = [va EXCEPT ![p] = sz[p]]
        /\ end' = [end EXCEPT ![p] = n]
    BY Zenon DEF Grow, Goes
  <2>3. /\ pagetable[p] = p /\ after[p] = "user" /\ new[p] \notin Page
        /\ \A b \in VA : pte[p][b] # NoPte <=> b < sz[p]
    BY Zenon, <2>1, Quiescent, MappedBelow
  <2>4. sz[p] <= n /\ sz[p] <= sz[p] /\ sz[p] \in 0 .. NVA
    BY <2>1, Sizes
  <2>5. /\ loc'[p] = "grow" /\ va'[p] = sz[p] /\ end'[p] = n
        /\ \A x \in Proc : x # p => Still(x)
    BY <2>1, <2>2 DEF Still, Control, Typed
  <2>6. Typed'
    BY <2>1, <2>2, <2>4 DEF Control, Typed, CowLabels
  <2>7. Local(p)' /\ \A b \in VA : InOwn(p, b)' <=> b < va'[p]
    BY Zenon, <2>1, <2>3, <2>4, <2>5, LocalGrowing
  <2>8. Argument(p)'
    BY Zenon, <2>5 DEF Argument
  <2>9. QED
    BY Zenon, <2>1, <2>3, <2>5, <2>6, <2>7, <2>8, OwnStep
\* ... goes round its loop ...
<1>GrowLoop. ASSUME NEW p \in Proc, GrowLoop(p) PROVE Control'
  <2> USE <1>GrowLoop
  <2>1. loc[p] = "grow" /\ UNCHANGED <<freelist, ref_cnt, pte, pagetable, after, r, new>>
    BY Zenon DEF GrowLoop, At
  <2>2. /\ pagetable[p] = p /\ after[p] = "user" /\ new[p] \notin Page
        /\ sz[p] <= va[p] /\ va[p] <= end[p] /\ \A b \in VA : pte[p][b] # NoPte <=> b < va[p]
    BY Zenon, <2>1, GrowingFacts DEF Growing
  <2>3. CASE va[p] < end[p] /\ CallKalloc(p, "grow_map") /\ UNCHANGED <<sz, va, end>>
    <3>1. loc' = [loc EXCEPT ![p] = "kalloc"] /\ ret' = [ret EXCEPT ![p] = "grow_map"]
      BY Zenon, <2>3 DEF CallKalloc, Goes
    <3>2. /\ loc'[p] = "kalloc" /\ ret'[p] = "grow_map"
          /\ \A x \in Proc : x # p => Still(x)
      BY <2>1, <2>3, <3>1 DEF Still, Control, Typed
    <3>3. Typed'
      BY <2>1, <2>3, <3>1 DEF Control, Typed, CowLabels
    <3>4. Local(p)' /\ \A b \in VA : InOwn(p, b)' <=> b < va'[p]
      BY Zenon, <2>1, <2>2, <2>3, <3>2, LocalGrowing
    <3>5. Argument(p)'
      BY Zenon, <3>2 DEF Argument
    <3>6. QED
      BY Zenon, <2>1, <2>2, <2>3, <3>2, <3>3, <3>4, <3>5, OwnStep
  <2>4. CASE /\ va[p] = end[p] /\ sz' = [sz EXCEPT ![p] = end[p]] /\ va' = [va EXCEPT ![p] = 0]
             /\ end' = [end EXCEPT ![p] = 0] /\ Goes(p, "user") /\ UNCHANGED ret
    <3>1. loc' = [loc EXCEPT ![p] = "user"] /\ end[p] \in 0 .. NVA /\ 0 \in 0 .. NVA
      BY <2>4, Sizes DEF Goes
    <3>2. /\ loc'[p] = "user" /\ va'[p] = 0 /\ sz'[p] = va[p]
          /\ \A x \in Proc : x # p => Still(x)
      BY <2>1, <2>4, <3>1 DEF Still, Control, Typed
    <3>3. Typed'
      BY <2>1, <2>4, <3>1 DEF Control, Typed, CowLabels
    <3>4. Local(p)' /\ \A b \in VA : InOwn(p, b)' <=> b < sz'[p]
      BY Zenon, <2>1, <2>2, <3>2, LocalQuiescent
    <3>5. Argument(p)'
      BY Zenon, <3>2 DEF Argument
    <3>6. QED
      BY Zenon, <2>1, <2>2, <3>2, <3>3, <3>4, <3>5, OwnStep
  <2>5. QED
    BY Zenon, <2>3, <2>4 DEF GrowLoop
\* ... and maps a page ...
<1>GrowMap. ASSUME NEW p \in Proc, GrowMap(p) PROVE Control'
  <2> USE <1>GrowMap
  <2>1. /\ loc[p] = "grow_map" /\ r[p] # NoPage
        /\ UNCHANGED <<freelist, ref_cnt, sz, pagetable, end, after, ret, new>>
    BY Zenon DEF GrowMap, At
  <2>2. /\ loc' = [loc EXCEPT ![p] = "grow"] /\ va' = [va EXCEPT ![p] = @ + 1]
        /\ r' = [r EXCEPT ![p] = NoPage] /\ pte' = [pte EXCEPT ![p][va[p]] = UserPte(r[p])]
    BY Zenon DEF GrowMap, Goes
  <2>3. /\ pagetable[p] = p /\ after[p] = "user" /\ new[p] \notin Page
        /\ sz[p] <= va[p] /\ va[p] < end[p] /\ \A b \in VA : pte[p][b] # NoPte <=> b < va[p]
    BY Zenon, <2>1, GrowingFacts DEF Growing
  <2>4. /\ va[p] \in VA /\ va[p] + 1 \in 0 .. NVA /\ sz[p] <= va[p] + 1 /\ va[p] + 1 <= end[p]
        /\ \A b \in VA : b < va[p] + 1 <=> b < va[p] \/ b = va[p]
    BY <2>3, Sizes DEF VA
  <2>5. r[p] \in Page
    BY Zenon, <2>1, Here
  <2>6. UserPte(r[p]) \in PTE
    BY <2>5 DEF UserPte, PTE
  <2>7. /\ pte'[p][va[p]] = UserPte(r[p]) /\ \A b \in VA : b # va[p] => pte'[p][b] = pte[p][b]
        /\ \A x \in Proc : x # p => pte'[x] = pte[x]
    BY <2>2, <2>4 DEF Control, Typed
  <2>8. pte' \in [Proc -> [VA -> PTE \cup {NoPte}]]
    BY Zenon, <2>2, <2>4, <2>6, PteSet
  <2>9. /\ loc'[p] = "grow" /\ va'[p] = va[p] + 1 /\ \A x \in Proc : x # p => Still(x)
    BY <2>1, <2>2 DEF Still, Control, Typed
  <2>10. \A b \in VA : pte'[p][b] # NoPte <=> b < va'[p]
    BY Zenon, <2>3, <2>4, <2>6, <2>7, <2>9 DEF CowAssumption
  <2>11. Typed'
    <3>1. /\ loc' \in [Proc -> CowLabels] /\ va' \in [Proc -> 0 .. NVA]
          /\ r' \in [Proc -> Page \cup {NoPage}]
      BY <2>2, <2>4 DEF Control, Typed, CowLabels
    <3>2. QED
      BY Zenon, <2>1, <2>8, <3>1 DEF Control, Typed
  <2>12. Local(p)' /\ \A b \in VA : InOwn(p, b)' <=> b < va'[p]
    BY Zenon, <2>1, <2>3, <2>4, <2>9, LocalGrowing
  <2>13. Argument(p)'
    BY Zenon, <2>9 DEF Argument
  <2>14. QED
    BY Zenon, <2>1, <2>3, <2>7, <2>9, <2>10, <2>11, <2>12, <2>13, OwnStep
\* ... or fails to map it ...
<1>GrowMapFail. ASSUME NEW p \in Proc, GrowMapFail(p) PROVE Control'
  <2> USE <1>GrowMapFail
  <2>1. /\ loc[p] = "grow_map" /\ r[p] # NoPage
        /\ UNCHANGED <<freelist, ref_cnt, pte, sz, pagetable, va, end, after, new>>
    BY Zenon DEF GrowMapFail, At, loop
  <2>2. /\ loc' = [loc EXCEPT ![p] = "kfree"] /\ r' = [r EXCEPT ![p] = r[p]]
        /\ ret' = [ret EXCEPT ![p] = "grow_undo"]
    BY Zenon DEF GrowMapFail, CallKfree, Goes
  <2>3. /\ pagetable[p] = p /\ after[p] = "user" /\ new[p] \notin Page /\ va[p] < end[p]
        /\ sz[p] <= va[p] /\ va[p] <= end[p] /\ \A b \in VA : pte[p][b] # NoPte <=> b < va[p]
    BY Zenon, <2>1, GrowingFacts DEF Growing
  <2>4. r[p] \in Page
    BY Zenon, <2>1, Here
  <2>5. /\ loc'[p] = "kfree" /\ r'[p] = r[p] /\ ret'[p] = "grow_undo"
        /\ \A x \in Proc : x # p => Still(x)
    BY <2>1, <2>2 DEF Still, Control, Typed
  <2>6. Typed'
    BY <2>1, <2>2, <2>4 DEF Control, Typed, CowLabels
  <2>7. Local(p)' /\ \A b \in VA : InOwn(p, b)' <=> b < va'[p]
    BY Zenon, <2>1, <2>3, <2>4, <2>5, LocalGrowing
  <2>8. Argument(p)'
    BY Zenon, <2>5 DEF Argument
  <2>9. QED
    BY Zenon, <2>1, <2>3, <2>5, <2>6, <2>7, <2>8, OwnStep
\* ... or has to give back what it mapped.
<1>GrowUndo. ASSUME NEW p \in Proc, GrowUndo(p) PROVE Control'
  <2> USE <1>GrowUndo
  <2>1. /\ loc[p] \in Growing /\ loc[p] # "grow"
        /\ UNCHANGED <<freelist, ref_cnt, pte, sz, ret, new>>
    BY Zenon DEF GrowUndo, At, Growing
  <2>2. /\ loc' = [loc EXCEPT ![p] = "unmap"] /\ r' = [r EXCEPT ![p] = NoPage]
        /\ pagetable' = [pagetable EXCEPT ![p] = p] /\ va' = [va EXCEPT ![p] = sz[p]]
        /\ end' = [end EXCEPT ![p] = va[p]] /\ after' = [after EXCEPT ![p] = "user"]
    BY Zenon DEF GrowUndo, CallUnmap, Goes
  <2>3. /\ pagetable[p] = p /\ new[p] \notin Page
        /\ sz[p] <= va[p] /\ \A b \in VA : pte[p][b] # NoPte <=> b < va[p]
    BY Zenon, <2>1, GrowingFacts
  <2>4. /\ sz[p] <= sz[p] /\ sz[p] \in 0 .. NVA /\ va[p] \in 0 .. NVA
        /\ \A b \in VA : b < va[p] <=> b < sz[p] \/ (sz[p] <= b /\ b < va[p])
    BY <2>3, Sizes DEF VA
  <2>5. /\ loc'[p] = "unmap" /\ pagetable'[p] = p /\ va'[p] = sz[p] /\ end'[p] = va[p]
        /\ after'[p] = "user" /\ \A x \in Proc : x # p => Still(x)
    BY <2>1, <2>2 DEF Still, Control, Typed
  <2>6. Typed'
    BY <2>1, <2>2, <2>4 DEF Control, Typed, CowLabels
  <2>7. Local(p)' /\ \A b \in VA : InOwn(p, b)' <=> b < sz[p] \/ (sz[p] <= b /\ b < va[p])
    BY Zenon, <2>1, <2>3, <2>4, <2>5, LocalUnmapping
  <2>8. Argument(p)'
    BY Zenon, <2>5 DEF Argument
  <2>9. QED
    BY Zenon, <2>1, <2>3, <2>4, <2>5, <2>6, <2>7, <2>8, OwnStep DEF Growing
\* growproc with a negative argument.
<1>Shrink. ASSUME NEW p \in Proc, NEW n \in 0 .. NVA, Shrink(p, n) PROVE Control'
  <2> USE <1>Shrink
  <2>1. loc[p] = "user" /\ n < sz[p] /\ UNCHANGED <<freelist, ref_cnt, pte, r, ret, new>>
    BY Zenon DEF Shrink, At
  <2>2. /\ loc' = [loc EXCEPT ![p] = "unmap"] /\ sz' = [sz EXCEPT ![p] = n]
        /\ pagetable' = [pagetable EXCEPT ![p] = p] /\ va' = [va EXCEPT ![p] = n]
        /\ end' = [end EXCEPT ![p] = sz[p]] /\ after' = [after EXCEPT ![p] = "user"]
    BY Zenon DEF Shrink, CallUnmap, Goes
  <2>3. /\ pagetable[p] = p /\ new[p] \notin Page /\ \A b \in VA : pte[p][b] # NoPte <=> b < sz[p]
    BY Zenon, <2>1, Quiescent, MappedBelow
  <2>4. /\ n <= n /\ n <= sz[p] /\ sz[p] \in 0 .. NVA
        /\ \A b \in VA : b < sz[p] <=> b < n \/ (n <= b /\ b < sz[p])
    BY <2>1, Sizes DEF VA
  <2>5. /\ loc'[p] = "unmap" /\ pagetable'[p] = p /\ va'[p] = n /\ end'[p] = sz[p] /\ sz'[p] = n
        /\ after'[p] = "user" /\ \A x \in Proc : x # p => Still(x)
    BY <2>1, <2>2 DEF Still, Control, Typed
  <2>6. Typed'
    BY <2>1, <2>2, <2>4 DEF Control, Typed, CowLabels
  <2>7. Local(p)' /\ \A b \in VA : InOwn(p, b)' <=> b < n \/ (n <= b /\ b < sz[p])
    BY Zenon, <2>1, <2>3, <2>4, <2>5, LocalUnmapping
  <2>8. Argument(p)'
    BY Zenon, <2>5 DEF Argument
  <2>9. QED
    BY Zenon, <2>1, <2>3, <2>4, <2>5, <2>6, <2>7, <2>8, OwnStep
\* wait frees the memory of a zombie.
<1>Reap. ASSUME NEW p \in Proc, Reap(p) PROVE Control'
  <2> USE <1>Reap
  <2>1. loc[p] = "zombie" /\ UNCHANGED <<freelist, ref_cnt, pte, sz, r, ret, new>>
    BY Zenon DEF Reap, At
  <2>2. /\ loc' = [loc EXCEPT ![p] = "unmap"]
        /\ pagetable' = [pagetable EXCEPT ![p] = p] /\ va' = [va EXCEPT ![p] = 0]
        /\ end' = [end EXCEPT ![p] = sz[p]] /\ after' = [after EXCEPT ![p] = "unused"]
    BY Zenon DEF Reap, CallUnmap, Goes
  <2>3. /\ pagetable[p] = p /\ new[p] \notin Page /\ \A b \in VA : pte[p][b] # NoPte <=> b < sz[p]
    BY Zenon, <2>1, Quiescent, MappedBelow
  <2>4. /\ 0 <= sz[p] /\ sz[p] \in 0 .. NVA /\ 0 \in 0 .. NVA
        /\ \A b \in VA : b < sz[p] <=> 0 <= b /\ b < sz[p]
    BY <2>1, Sizes DEF VA
  <2>5. /\ loc'[p] = "unmap" /\ pagetable'[p] = p /\ va'[p] = 0 /\ end'[p] = sz[p]
        /\ after'[p] = "unused" /\ \A x \in Proc : x # p => Still(x)
    BY <2>1, <2>2 DEF Still, Control, Typed
  <2>6. Typed'
    BY <2>1, <2>2, <2>4 DEF Control, Typed, CowLabels
  <2>7. Local(p)' /\ \A b \in VA : InOwn(p, b)' <=> 0 <= b /\ b < sz[p]
    BY Zenon, <2>1, <2>3, <2>4, <2>5, LocalUnmapping
  <2>8. Argument(p)'
    BY Zenon, <2>5 DEF Argument
  <2>9. QED
    BY Zenon, <2>1, <2>3, <2>4, <2>5, <2>6, <2>7, <2>8, OwnStep
\* uvmunmap frees a page ...
<1>Unmap. ASSUME NEW p \in Proc, Unmap(p) PROVE Control'
  <2> USE <1>Unmap
  <2>1. /\ loc[p] = "unmap" /\ va[p] < end[p]
        /\ UNCHANGED <<freelist, ref_cnt, pte, sz, pagetable, va, end, after, new>>
    BY Zenon DEF Unmap, At, loop
  <2> DEFINE q == pagetable[p]
             g == pte[q][va[p]].pa
  <2>2. /\ loc' = [loc EXCEPT ![p] = "kfree"] /\ r' = [r EXCEPT ![p] = g]
        /\ ret' = [ret EXCEPT ![p] = "clear"]
    BY Zenon DEF Unmap, CallKfree, Goes
  <2>3. loc[p] \in Unmapping /\ q \in Proc
    BY Zenon, <2>1, Here DEF Unmapping
  <2>4. /\ new[p] \notin Page /\ va[p] <= end[p] /\ after[p] \in {"user", "unused"}
        /\ (after[p] = "unused" => q = p) /\ (after[p] = "user" /\ q = p => sz[p] <= va[p])
        /\ \A a \in VA : va[p] <= a /\ a < end[p] => pte[q][a] # NoPte
    BY Zenon, <2>3, UnmappingFacts
  <2>5. va[p] \in VA /\ va[p] <= va[p]
    BY <2>1, Sizes DEF VA
  <2>6. pte[q][va[p]] \in PTE
    BY Zenon, <2>1, <2>3, <2>4, <2>5, Here
  <2>7. g \in Page
    BY Zenon, <2>6 DEF PTE
  <2>8. /\ loc'[p] = "kfree" /\ r'[p] = g /\ ret'[p] = "clear"
        /\ \A x \in Proc : x # p => Still(x)
    BY <2>1, <2>2 DEF Still, Control, Typed
  <2>9. Typed'
    BY <2>1, <2>2, <2>7 DEF Control, Typed, CowLabels
  <2>10. /\ Local(p)'
         /\ after[p] = "unused" => \A a \in VA : InOwn(p, a)' <=> va[p] <= a /\ a < end[p]
         /\ after[p] = "user" /\ pagetable[p] = p =>
              \A a \in VA : InOwn(p, a)' <=> a < sz[p] \/ (va[p] <= a /\ a < end[p])
         /\ pagetable[p] # p => \A a \in VA : InOwn(p, a)' <=> a < sz[p]
         /\ \A a \in VA : InChild(p, a)' <=> va[p] <= a /\ a < end[p]
    <3>1. r'[p] \in Page
      BY Zenon, <2>7, <2>8
    <3>2. QED
      BY Zenon, <2>1, <2>4, <2>8, <3>1, LocalUnmapping
  <2>11. OwnMapped(p)' /\ ChildMapped(p)'
    <3>1. pte' = pte /\ pagetable' = pagetable
      BY Zenon, <2>1
    <3>2. QED
      BY Zenon, <2>3, <2>4, <2>10, <3>1, UnmappingFacts DEF OwnMapped, ChildMapped
  <2>12. Argument(p)'
    BY Zenon, <2>1, <2>8 DEF Argument
  <2>13. QED
    BY Zenon, <2>1, <2>8, <2>9, <2>10, <2>11, <2>12, OthersKeep
\* ... and clears its PTE ...
<1>Clear. ASSUME NEW p \in Proc, Clear(p) PROVE Control'
  <2> USE <1>Clear
  <2>1. /\ loc[p] = "clear"
        /\ UNCHANGED <<freelist, ref_cnt, sz, pagetable, end, after, ret, new>>
    BY Zenon DEF Clear, At
  <2> DEFINE q == pagetable[p]
  <2>2. /\ loc' = [loc EXCEPT ![p] = "unmap"] /\ va' = [va EXCEPT ![p] = va[p] + 1]
        /\ r' = [r EXCEPT ![p] = NoPage] /\ pte' = [pte EXCEPT ![q][va[p]] = NoPte]
    BY Zenon DEF Clear, Goes
  <2>3. loc[p] \in Unmapping /\ q \in Proc
    BY Zenon, <2>1, Here DEF Unmapping
  <2>4. /\ new[p] \notin Page /\ va[p] < end[p] /\ after[p] \in {"user", "unused"}
        /\ (after[p] = "unused" => q = p) /\ (after[p] = "user" /\ q = p => sz[p] <= va[p])
    BY Zenon, <2>1, <2>3, UnmappingFacts
  <2>5. /\ va[p] \in VA /\ va[p] + 1 \in 0 .. NVA /\ va[p] + 1 <= end[p]
        /\ (after[p] = "user" /\ q = p => sz[p] <= va[p] + 1)
        /\ \A a \in VA : va[p] + 1 <= a <=> va[p] <= a /\ a # va[p]
        /\ sz[p] <= va[p] => \A a \in VA : a < sz[p] => a # va[p]
    BY <2>4, Sizes DEF VA
  <2>6. /\ pte'[q][va[p]] = NoPte /\ \A a \in VA : a # va[p] => pte'[q][a] = pte[q][a]
        /\ \A x \in Proc : x # q => pte'[x] = pte[x]
    BY <2>2, <2>3, <2>5 DEF Control, Typed
  <2>7. pte' \in [Proc -> [VA -> PTE \cup {NoPte}]]
    BY Zenon, <2>2, <2>3, <2>5, PteSet
  <2>8. /\ loc'[p] = "unmap" /\ va'[p] = va[p] + 1 /\ \A x \in Proc : x # p => Still(x)
    BY <2>1, <2>2 DEF Still, Control, Typed
  <2>9. Typed'
    <3>1. /\ loc' \in [Proc -> CowLabels] /\ va' \in [Proc -> 0 .. NVA]
          /\ r' \in [Proc -> Page \cup {NoPage}]
      BY <2>2, <2>5 DEF Control, Typed, CowLabels
    <3>2. QED
      BY Zenon, <2>1, <2>7, <3>1 DEF Control, Typed
  <2>10. /\ Local(p)'
         /\ after[p] = "unused" => \A a \in VA : InOwn(p, a)' <=> va[p] + 1 <= a /\ a < end[p]
         /\ after[p] = "user" /\ pagetable[p] = p =>
              \A a \in VA : InOwn(p, a)' <=> a < sz[p] \/ (va[p] + 1 <= a /\ a < end[p])
         /\ pagetable[p] # p => \A a \in VA : InOwn(p, a)' <=> a < sz[p]
         /\ \A a \in VA : InChild(p, a)' <=> va[p] + 1 <= a /\ a < end[p]
    BY Zenon, <2>1, <2>4, <2>5, <2>8, LocalUnmapping
  <2>11. OwnMapped(p)'
    <3>1. CASE after[p] = "unused"
      <4>1. /\ q = p /\ \A a \in VA : pte[p][a] # NoPte <=> va[p] <= a /\ a < end[p]
        BY Zenon, <2>3, <3>1, UnmappingFacts
      <4>2. \A a \in VA : pte'[p][a] # NoPte <=> va[p] + 1 <= a /\ a < end[p]
        BY Zenon, <2>5, <2>6, <4>1
      <4>3. QED
        BY Zenon, <2>10, <3>1, <4>2 DEF OwnMapped
    <3>2. CASE after[p] = "user" /\ q = p
      <4>1. \A a \in VA : pte[p][a] # NoPte <=> a < sz[p] \/ (va[p] <= a /\ a < end[p])
        BY Zenon, <2>3, <3>2, UnmappingFacts
      <4>2. \A a \in VA : pte'[p][a] # NoPte <=> a < sz[p] \/ (va[p] + 1 <= a /\ a < end[p])
        BY Zenon, <2>4, <2>5, <2>6, <3>2, <4>1
      <4>3. QED
        BY Zenon, <2>10, <3>2, <4>2 DEF OwnMapped
    <3>3. CASE q # p
      <4>1. /\ \A a \in VA : pte[p][a] # NoPte <=> a < sz[p]
            /\ pte'[p] = pte[p]
        BY Zenon, <2>3, <2>6, <3>3, UnmappingFacts
      <4>2. QED
        BY Zenon, <2>10, <3>3, <4>1 DEF OwnMapped
    <3>4. QED
      BY Zenon, <2>4, <3>1, <3>2, <3>3
  <2>12. ChildMapped(p)'
    <3>1. CASE q # p
      <4>1. \A a \in VA : pte[q][a] # NoPte <=> va[p] <= a /\ a < end[p]
        BY Zenon, <2>3, <3>1, UnmappingFacts
      <4>2. \A a \in VA : pte'[q][a] # NoPte <=> va[p] + 1 <= a /\ a < end[p]
        BY Zenon, <2>5, <2>6, <4>1
      <4>3. pagetable' = pagetable
        BY Zenon, <2>1
      <4>4. QED
        BY Zenon, <2>10, <4>2, <4>3 DEF ChildMapped
    <3>2. CASE q = p
      BY Zenon, <2>1, <3>2 DEF ChildMapped
    <3>3. QED
      BY Zenon, <3>1, <3>2
  <2>13. Argument(p)'
    BY Zenon, <2>8 DEF Argument
  <2>14. pagetable'[p] = pagetable[p]
    BY Zenon, <2>1
  <2>15. QED
    BY Zenon, <2>1, <2>6, <2>8, <2>9, <2>10, <2>11, <2>12, <2>13, <2>14, OthersKeep
\* uvmclear makes a guard page.
<1>Uvmclear. ASSUME NEW p \in Proc, NEW a \in VA, Uvmclear(p, a) PROVE Control'
  <2> USE <1>Uvmclear
  <2>1. /\ loc[p] = "user" /\ pte[p][a] # NoPte
        /\ UNCHANGED <<freelist, ref_cnt, sz, loc, pagetable, va, end, after, r, ret, new>>
    BY Zenon DEF Uvmclear, At, kvars, loop
  <2>2. pte[p][a] \in PTE
    BY Zenon, <2>1, Here
  <2> DEFINE e == [pte[p][a] EXCEPT !.u = FALSE]
  <2>3. e \in PTE
    BY Zenon, <2>2 DEF PTE
  <2>4. pte' = [pte EXCEPT ![p][a] = e]
    BY DEF Uvmclear, Control, Typed
  <2> HIDE DEF e
  <2>5. /\ pte'[p][a] = e /\ \A b \in VA : b # a => pte'[p][b] = pte[p][b]
        /\ \A x \in Proc : x # p => pte'[x] = pte[x]
    BY <2>4 DEF Control, Typed
  <2>6. pte' \in [Proc -> [VA -> PTE \cup {NoPte}]]
    BY Zenon, <2>3, <2>4, PteSet
  <2>7. /\ pagetable[p] = p /\ after[p] = "user" /\ new[p] \notin Page /\ va[p] = 0
        /\ \A b \in VA : pte[p][b] # NoPte <=> b < sz[p]
    BY Zenon, <2>1, Quiescent, MappedBelow
  <2>8. \A b \in VA : pte'[p][b] # NoPte <=> b < sz[p]
    BY Zenon, <2>1, <2>3, <2>5, <2>7 DEF CowAssumption
  <2>9. \A x \in Proc : x # p => Still(x)
    BY Zenon, <2>1 DEF Still
  <2>10. Typed'
    BY Zenon, <2>1, <2>6 DEF Control, Typed
  <2>11. Local(p)' /\ \A b \in VA : InOwn(p, b)' <=> b < sz'[p]
    BY Zenon, <2>1, <2>7, LocalQuiescent
  <2>12. Argument(p)'
    BY Zenon, <2>1 DEF Argument
  <2>13. QED
    BY Zenon, <2>1, <2>5, <2>7, <2>8, <2>9, <2>10, <2>11, <2>12, OwnStep
\* uvmcopy maps a page in the child's page table ...
<1>Copy. ASSUME NEW p \in Proc, Copy(p) PROVE Control'
  <2> USE <1>Copy
  <2>1. /\ loc[p] = "copy" /\ va[p] < sz[p]
        /\ UNCHANGED <<freelist, ref_cnt, sz, pagetable, va, end, after, r, ret, new>>
    BY Zenon DEF Copy, At, kvars, loop
  <2> DEFINE q == pagetable[p]
             e == CowPte(pte[p][va[p]])
  <2>2. loc' = [loc EXCEPT ![p] = "copy_ref"]
    BY Zenon DEF Copy, Goes
  <2>3. /\ q # p /\ q \in Proc /\ after[p] = "user" /\ new[p] \notin Page
        /\ \A a \in VA : pte[p][a] # NoPte <=> a < sz[p]
        /\ \A a \in VA : pte[q][a] # NoPte <=> a < va[p]
    <3>1. loc[p] \in Copying
      BY Zenon, <2>1 DEF Copying
    <3>2. QED
      BY Zenon, <2>1, <3>1, CopyingFacts
  <2>4. va[p] \in VA
    BY <2>1, Sizes DEF VA
  <2>5. pte[p][va[p]] \in PTE
    BY Zenon, <2>1, <2>3, <2>4, Here
  <2>6. e \in PTE
    BY Zenon, <2>5 DEF CowPte, PTE
  <2>7. pte' = [pte EXCEPT ![p][va[p]] = e, ![q][va[p]] = e]
    BY Zenon DEF Copy
  <2> HIDE DEF e
  <2>8. /\ pte'[p][va[p]] = e /\ pte'[q][va[p]] = e
        /\ \A a \in VA : a # va[p] => pte'[p][a] = pte[p][a] /\ pte'[q][a] = pte[q][a]
        /\ \A x \in Proc : x \notin {p, q} => pte'[x] = pte[x]
    BY <2>3, <2>4, <2>7 DEF Control, Typed
  <2>9. pte' \in [Proc -> [VA -> PTE \cup {NoPte}]]
    BY Zenon, <2>3, <2>4, <2>6, <2>7 DEF Control, Typed
  <2>10. /\ loc'[p] = "copy_ref" /\ \A x \in Proc : x # p => Still(x)
    BY <2>1, <2>2 DEF Still, Control, Typed
  <2>11. Typed'
    <3>1. loc' \in [Proc -> CowLabels]
      BY <2>2 DEF Control, Typed, CowLabels
    <3>2. QED
      BY Zenon, <2>1, <2>9, <3>1 DEF Control, Typed
  <2>12. /\ Local(p)' /\ \A a \in VA : InOwn(p, a)' <=> a < sz[p]
         /\ \A a \in VA : InChild(p, a)' <=> a < va[p] \/ a = va[p]
    BY Zenon, <2>1, <2>3, <2>10, LocalCopying
  <2>13. OwnMapped(p)'
    BY Zenon, <2>1, <2>3, <2>6, <2>8, <2>12 DEF OwnMapped, CowAssumption
  <2>14. ChildMapped(p)'
    BY Zenon, <2>1, <2>3, <2>6, <2>8, <2>12 DEF ChildMapped, CowAssumption
  <2>15. Argument(p)'
    BY Zenon, <2>1, <2>8, <2>10 DEF Argument
  <2>16. pagetable'[p] = pagetable[p]
    BY Zenon, <2>1
  <2>17. QED
    BY Zenon, <2>1, <2>8, <2>10, <2>11, <2>12, <2>13, <2>14, <2>15, <2>16, OthersKeep
\* ... and counts the second reference ...
<1>CopyRef. ASSUME NEW p \in Proc, CopyRef(p) PROVE Control'
  <2> USE <1>CopyRef
  <2>1. /\ loc[p] = "copy_ref"
        /\ UNCHANGED <<freelist, pte, sz, pagetable, end, after, r, ret, new>>
    BY Zenon DEF CopyRef, At
  <2> DEFINE q == pagetable[p]
             g == pte[p][va[p]].pa
  <2>2. /\ loc' = [loc EXCEPT ![p] = "copy"] /\ va' = [va EXCEPT ![p] = va[p] + 1]
        /\ ref_cnt' = [ref_cnt EXCEPT ![g] = (ref_cnt[g] + 1) % REFMOD]
    BY Zenon DEF CopyRef, Goes
  <2>3. /\ q # p /\ q \in Proc /\ after[p] = "user" /\ new[p] \notin Page /\ va[p] < sz[p]
        /\ \A a \in VA : pte[p][a] # NoPte <=> a < sz[p]
        /\ \A a \in VA : pte[q][a] # NoPte <=> a < va[p] \/ a = va[p]
    <3>1. loc[p] \in Copying
      BY Zenon, <2>1 DEF Copying
    <3>2. QED
      BY Zenon, <2>1, <3>1, CopyingFacts
  <2>4. /\ va[p] \in VA /\ va[p] + 1 \in 0 .. NVA /\ va[p] + 1 <= sz[p]
        /\ \A a \in VA : a < va[p] + 1 <=> a < va[p] \/ a = va[p]
    <3>1. va[p] < sz[p] /\ va[p] \in 0 .. NVA /\ sz[p] \in 0 .. NVA /\ NVA \in Nat
      BY Zenon, <2>3, Sizes
    <3>2. va[p] \in VA /\ va[p] + 1 \in 0 .. NVA /\ va[p] + 1 <= sz[p]
      BY <3>1 DEF VA
    <3>3. \A a \in VA : a < va[p] + 1 <=> a < va[p] \/ a = va[p]
      BY <3>1 DEF VA
    <3>4. QED
      BY Zenon, <3>2, <3>3
  <2>5. pte[p][va[p]] \in PTE
    BY Zenon, <2>1, <2>3, <2>4, Here
  <2>6. g \in Page
    BY Zenon, <2>5 DEF PTE
  <2>7. ref_cnt' \in [Page -> Nat]
    <3>1. ref_cnt \in [Page -> Nat] /\ (ref_cnt[g] + 1) % REFMOD \in Nat
      BY <2>6 DEF Control, Typed, CowAssumption
    <3>2. QED
      BY Zenon, <2>2, <2>6, <3>1
  <2>8. /\ loc'[p] = "copy" /\ va'[p] = va[p] + 1 /\ \A x \in Proc : x # p => Still(x)
    BY <2>1, <2>2 DEF Still, Control, Typed
  <2>9. Typed'
    <3>1. loc' \in [Proc -> CowLabels] /\ va' \in [Proc -> 0 .. NVA]
      <4>1. loc \in [Proc -> CowLabels] /\ va \in [Proc -> 0 .. NVA] /\ "copy" \in CowLabels
        BY Zenon DEF Control, Typed, CowLabels
      <4>2. QED
        BY Zenon, <2>2, <2>4, <4>1
    <3>2. QED
      BY Zenon, <2>1, <2>7, <3>1 DEF Control, Typed
  <2>10. /\ Local(p)' /\ \A a \in VA : InOwn(p, a)' <=> a < sz[p]
         /\ \A a \in VA : InChild(p, a)' <=> a < va[p] + 1
    <3>1. /\ pagetable'[p] # p /\ after'[p] = "user" /\ new'[p] \notin Page
          /\ va'[p] <= sz'[p] /\ loc'[p] = "copy"
      BY Zenon, <2>1, <2>3, <2>4, <2>8
    <3>2. sz'[p] = sz[p] /\ va'[p] = va[p] + 1
      BY Zenon, <2>1, <2>3, <2>8
    <3>3. /\ Local(p)' /\ \A a \in VA : InOwn(p, a)' <=> a < sz'[p]
          /\ \A a \in VA : InChild(p, a)' <=> a < va'[p] \/ (loc'[p] = "copy_ref" /\ a = va'[p])
      BY Zenon, <3>1, LocalCopying
    <3>4. QED
      BY <3>1, <3>2, <3>3
  <2>11. OwnMapped(p)'
    BY Zenon, <2>1, <2>3, <2>10 DEF OwnMapped
  <2>12. ChildMapped(p)'
    BY Zenon, <2>1, <2>3, <2>4, <2>10 DEF ChildMapped
  <2>13. Argument(p)'
    BY Zenon, <2>8 DEF Argument
  <2>14. pagetable'[p] = pagetable[p] /\ pte' = pte
    BY Zenon, <2>1
  <2>15. QED
    BY Zenon, <2>1, <2>8, <2>9, <2>10, <2>11, <2>12, <2>13, <2>14, OthersKeep
\* ... or gives up the child's pages.
<1>CopyFail. ASSUME NEW p \in Proc, CopyFail(p) PROVE Control'
  <2> USE <1>CopyFail
  <2>1. /\ loc[p] = "copy" /\ va[p] < sz[p] /\ UNCHANGED <<freelist, ref_cnt, sz, r, ret, new>>
    BY Zenon DEF CopyFail, At
  <2> DEFINE q == pagetable[p]
             e == CowPte(pte[p][va[p]])
  <2>2. /\ loc' = [loc EXCEPT ![p] = "unmap"]
        /\ pagetable' = [pagetable EXCEPT ![p] = q] /\ va' = [va EXCEPT ![p] = 0]
        /\ end' = [end EXCEPT ![p] = va[p]] /\ after' = [after EXCEPT ![p] = "user"]
    BY Zenon DEF CopyFail, CallUnmap, Goes
  <2>3. /\ q # p /\ q \in Proc /\ after[p] = "user" /\ new[p] \notin Page
        /\ \A a \in VA : pte[p][a] # NoPte <=> a < sz[p]
        /\ \A a \in VA : pte[q][a] # NoPte <=> a < va[p]
    <3>1. loc[p] \in Copying
      BY Zenon, <2>1 DEF Copying
    <3>2. QED
      BY Zenon, <2>1, <3>1, CopyingFacts
  <2>4. /\ va[p] \in VA /\ va[p] \in 0 .. NVA /\ 0 \in 0 .. NVA /\ 0 <= va[p]
        /\ \A a \in VA : a < va[p] <=> 0 <= a /\ a < va[p]
    BY <2>1, Sizes DEF VA
  <2>5. pte[p][va[p]] \in PTE
    BY Zenon, <2>1, <2>3, <2>4, Here
  <2>6. e \in PTE
    BY Zenon, <2>5 DEF CowPte, PTE
  <2>7. pte' = [pte EXCEPT ![p][va[p]] = e]
    BY <2>4 DEF CopyFail, Control, Typed
  <2> HIDE DEF e
  <2>8. /\ pte'[p][va[p]] = e /\ \A a \in VA : a # va[p] => pte'[p][a] = pte[p][a]
        /\ \A x \in Proc : x # p => pte'[x] = pte[x]
    BY <2>4, <2>7 DEF Control, Typed
  <2>9. pte' \in [Proc -> [VA -> PTE \cup {NoPte}]]
    BY Zenon, <2>4, <2>6, <2>7, PteSet
  <2>10. /\ loc'[p] = "unmap" /\ pagetable'[p] = q /\ va'[p] = 0 /\ end'[p] = va[p]
         /\ after'[p] = "user" /\ \A x \in Proc : x # p => Still(x)
    BY <2>1, <2>2, <2>3 DEF Still, Control, Typed
  <2>11. Typed'
    <3>1. /\ loc' \in [Proc -> CowLabels] /\ pagetable' \in [Proc -> Proc]
          /\ va' \in [Proc -> 0 .. NVA] /\ end' \in [Proc -> 0 .. NVA]
          /\ after' \in [Proc -> {"user", "unused"}]
      BY <2>2, <2>3, <2>4 DEF Control, Typed, CowLabels
    <3>2. QED
      BY Zenon, <2>1, <2>9, <3>1 DEF Control, Typed
  <2>12. /\ Local(p)' /\ \A a \in VA : InOwn(p, a)' <=> a < sz[p]
         /\ \A a \in VA : InChild(p, a)' <=> 0 <= a /\ a < va[p]
    BY Zenon, <2>1, <2>3, <2>4, <2>10, LocalUnmapping
  <2>13. OwnMapped(p)'
    BY Zenon, <2>1, <2>3, <2>6, <2>8, <2>12 DEF OwnMapped, CowAssumption
  <2>14. ChildMapped(p)'
    BY Zenon, <2>3, <2>4, <2>8, <2>10, <2>12 DEF ChildMapped
  <2>15. Argument(p)'
    BY Zenon, <2>10 DEF Argument
  <2>16. QED
    BY Zenon, <2>1, <2>8, <2>10, <2>11, <2>12, <2>13, <2>14, <2>15, OthersKeep
\* fork takes a slot for the child.
<1>Fork. ASSUME NEW p \in Proc, NEW q \in Proc \ {p}, Fork(p, q) PROVE Control'
  <2> USE <1>Fork
  <2>1. /\ loc[p] = "user" /\ loc[q] = "unused"
        /\ UNCHANGED <<freelist, ref_cnt, pte, sz, va, end, after, r, ret, new>>
    BY Zenon DEF Fork, At
  <2>2. /\ loc' = [loc EXCEPT ![p] = "copy", ![q] = "embryo"]
        /\ pagetable' = [pagetable EXCEPT ![p] = q]
    BY Zenon DEF Fork
  <2>3. /\ pagetable[p] = p /\ after[p] = "user" /\ new[p] \notin Page /\ va[p] = 0
        /\ \A a \in VA : pte[p][a] # NoPte <=> a < sz[p]
    BY Zenon, <2>1, Quiescent, MappedBelow
  <2>4. /\ pagetable[q] = q /\ after[q] = "user" /\ new[q] \notin Page /\ va[q] = 0 /\ sz[q] = 0
        /\ \A a \in VA : pte[q][a] = NoPte
    <3>1. /\ pagetable[q] = q /\ after[q] = "user" /\ new[q] \notin Page /\ va[q] = 0
          /\ sz[q] = 0 /\ Place(q) = "unused"
      <4>1. Local(q) /\ after[q] \in {"user", "unused"}
        BY Zenon, Here
      <4>2. QED
        BY Zenon, <2>1, <4>1 DEF Local, Place, Idle, Calling, Copying, Unmapping
    <3>2. Place(q) \notin Growing \cup Unmapping
      BY Zenon, <3>1 DEF Growing, Unmapping
    <3>3. \A a \in VA : pte[q][a] # NoPte <=> a < 0
      <4>1. (\A a \in VA : InOwn(q, a) <=> a < sz[q]) /\ OwnMapped(q)
        BY Zenon, <3>1, <3>2, PlainOwn, Here
      <4>2. QED
        BY <2>1, <3>1, <4>1 DEF OwnMapped
    <3>4. QED
      BY <3>1, <3>3 DEF VA
  <2>5. \A x \in Proc : pagetable[x] = q => x \in {p, q}
    BY Zenon, <2>1, Here DEF Pair
  <2>6. /\ loc'[p] = "copy" /\ loc'[q] = "embryo" /\ pagetable'[p] = q /\ pagetable'[q] = q
        /\ \A x \in Proc : x \notin {p, q} => Still(x)
    BY <2>1, <2>2, <2>4 DEF Still, Control, Typed
  <2>7. Typed'
    BY Zenon, <2>1, <2>2 DEF Control, Typed, CowLabels
  <2>8. 0 <= sz[p] /\ \A a \in VA : ~ (a < 0)
    <3>1. sz[p] \in 0 .. NVA /\ NVA \in Nat
      BY Zenon, Sizes
    <3>2. QED
      BY <3>1 DEF VA
  <2>9. /\ Local(p)' /\ \A a \in VA : InOwn(p, a)' <=> a < sz[p]
        /\ \A a \in VA : InChild(p, a)' <=> a < 0
    <3>1. /\ pagetable'[p] # p /\ after'[p] = "user" /\ new'[p] \notin Page
          /\ va'[p] <= sz'[p] /\ loc'[p] = "copy"
      BY Zenon, <2>1, <2>3, <2>6, <2>8
    <3>2. sz'[p] = sz[p] /\ va'[p] = 0
      BY Zenon, <2>1, <2>3, <2>8
    <3>3. /\ Local(p)' /\ \A a \in VA : InOwn(p, a)' <=> a < sz'[p]
          /\ \A a \in VA : InChild(p, a)' <=> a < va'[p] \/ (loc'[p] = "copy_ref" /\ a = va'[p])
      BY Zenon, <3>1, LocalCopying
    <3>4. QED
      BY <3>1, <3>2, <3>3
  <2>10. Local(q)'
    BY Zenon, <2>1, <2>4, <2>6, LocalUnused
  <2>11. /\ OwnMapped(p)' /\ OwnMapped(q)' /\ ChildMapped(p)'
    BY Zenon, <2>1, <2>3, <2>4, <2>6, <2>8, <2>9 DEF OwnMapped, ChildMapped
  <2>12. \A x \in Proc : pagetable'[x] = q => x \in {p, q}
    BY Zenon, <2>5, <2>6 DEF Still
  <2>13. Pair(p)' /\ Argument(p)'
    BY Zenon, <2>6, <2>12 DEF Pair, Argument
  <2>14. QED
    BY Zenon, <2>1, <2>4, <2>5, <2>6, <2>7, <2>9, <2>10, <2>11, <2>13, PairKeeps
\* fork makes the child runnable.
<1>ForkDone. ASSUME NEW p \in Proc, ForkDone(p) PROVE Control'
  <2> USE <1>ForkDone
  <2>0. PICK q \in Proc : q = pagetable[p]
    BY Zenon, Here
  <2>1. /\ loc[p] = "copy" /\ va[p] = sz[p]
        /\ UNCHANGED <<freelist, ref_cnt, pte, end, after, r, ret, new>>
    BY Zenon DEF ForkDone, At
  <2>2. /\ loc' = [loc EXCEPT ![p] = "user", ![q] = "user"] /\ sz' = [sz EXCEPT ![q] = sz[p]]
        /\ pagetable' = [pagetable EXCEPT ![p] = p] /\ va' = [va EXCEPT ![p] = 0]
    BY Zenon, <2>0 DEF ForkDone
  <2>3. /\ q # p /\ q \in Proc /\ after[p] = "user" /\ new[p] \notin Page
        /\ \A a \in VA : pte[p][a] # NoPte <=> a < sz[p]
        /\ \A a \in VA : pte[q][a] # NoPte <=> a < sz[p]
    <3>1. loc[p] \in Copying
      BY Zenon, <2>1 DEF Copying
    <3>2. QED
      BY Zenon, <2>0, <2>1, <3>1, CopyingFacts
  <2>4. loc[q] = "embryo" /\ \A x \in Proc : pagetable[x] = q => x \in {p, q}
    BY Zenon, <2>0, <2>3, Here DEF Pair
  <2>5. pagetable[q] = q /\ after[q] = "user" /\ new[q] \notin Page /\ va[q] = 0
    <3>1. Local(q) /\ after[q] \in {"user", "unused"}
      BY Zenon, <2>3, Here
    <3>2. QED
      BY Zenon, <2>4, <3>1 DEF Local, Place, Idle, Calling, Copying, Unmapping
  <2>6. sz[p] \in 0 .. NVA /\ 0 \in 0 .. NVA
    BY Sizes
  <2>7. /\ loc'[p] = "user" /\ loc'[q] = "user" /\ pagetable'[p] = p /\ pagetable'[q] = q
        /\ va'[p] = 0 /\ va'[q] = 0 /\ sz'[p] = sz[p] /\ sz'[q] = sz[p]
        /\ \A x \in Proc : x \notin {p, q} => Still(x)
    BY <2>0, <2>1, <2>2, <2>3, <2>5 DEF Still, Control, Typed
  <2>8. Typed'
    <3>1. /\ loc' \in [Proc -> CowLabels] /\ pagetable' \in [Proc -> Proc]
          /\ va' \in [Proc -> 0 .. NVA] /\ sz' \in [Proc -> 0 .. NVA]
      BY Zenon, <2>2, <2>3, <2>6 DEF Control, Typed, CowLabels
    <3>2. QED
      BY Zenon, <2>1, <3>1 DEF Control, Typed
  <2>9. Local(p)' /\ \A a \in VA : InOwn(p, a)' <=> a < sz'[p]
    BY Zenon, <2>1, <2>3, <2>7, LocalQuiescent
  <2>10. Local(q)' /\ \A a \in VA : InOwn(q, a)' <=> a < sz'[q]
    BY Zenon, <2>1, <2>3, <2>5, <2>7, LocalQuiescent
  <2>11. OwnMapped(p)' /\ OwnMapped(q)' /\ ChildMapped(p)'
    BY Zenon, <2>1, <2>3, <2>7, <2>9, <2>10 DEF OwnMapped, ChildMapped
  <2>12. Pair(p)' /\ Argument(p)'
    BY Zenon, <2>7 DEF Pair, Argument
  <2>13. /\ q \in Proc /\ p # q /\ loc[p] # "embryo" /\ loc'[p] # "embryo" /\ pte' = pte
         /\ pagetable'[p] \in {p, q} /\ pagetable[q] = q /\ pagetable'[q] = q
         /\ loc'[q] \notin {"kfree", "copy_ref"}
    BY Zenon, <2>1, <2>3, <2>5, <2>7
  <2>14. QED
    BY Zenon, <2>4, <2>7, <2>8, <2>9, <2>10, <2>11, <2>12, <2>13, PairKeeps
\* uvmunmap is done.
<1>Unmapped. ASSUME NEW p \in Proc, Unmapped(p) PROVE Control'
  <2> USE <1>Unmapped
  <2>0. PICK q \in Proc : q = pagetable[p]
    BY Zenon, Here
  <2>1. /\ loc[p] = "unmap" /\ va[p] = end[p]
        /\ UNCHANGED <<freelist, ref_cnt, pte, r, ret, new>>
    BY Zenon DEF Unmapped, At
  <2>2. /\ loc' = [loc EXCEPT ![q] = "unused", ![p] = after[p]]
        /\ sz' = IF after[p] = "unused" THEN [sz EXCEPT ![p] = 0] ELSE sz
        /\ pagetable' = [pagetable EXCEPT ![p] = p] /\ va' = [va EXCEPT ![p] = 0]
        /\ end' = [end EXCEPT ![p] = 0] /\ after' = [after EXCEPT ![p] = "user"]
    BY Zenon, <2>0 DEF Unmapped
  <2>3. loc[p] \in Unmapping
    BY Zenon, <2>1 DEF Unmapping
  <2>4. /\ new[p] \notin Page /\ after[p] \in {"user", "unused"} /\ (after[p] = "unused" => q = p)
    BY Zenon, <2>0, <2>3, UnmappingFacts
  <2>5. 0 \in 0 .. NVA /\ \A a \in VA : ~ (va[p] <= a /\ a < end[p]) /\ ~ (a < 0)
    BY <2>1, Sizes DEF VA
  <2>6. CASE q = p
    <3>1. \A a \in VA : pte[p][a] # NoPte <=> after[p] = "user" /\ a < sz[p]
      BY Zenon, <2>0, <2>3, <2>4, <2>5, <2>6, UnmappingFacts
    <3>2. /\ loc'[p] = after[p] /\ pagetable'[p] = p /\ va'[p] = 0 /\ after'[p] = "user"
          /\ after[p] = "unused" => sz'[p] = 0
          /\ after[p] = "user" => sz'[p] = sz[p]
          /\ \A x \in Proc : x # p => Still(x)
      <4>1. CASE after[p] = "unused"
        BY <2>1, <2>2, <2>6, <4>1 DEF Still, Control, Typed
      <4>2. CASE after[p] = "user"
        BY <2>1, <2>2, <2>6, <4>2 DEF Still, Control, Typed
      <4>3. QED
        BY Zenon, <2>4, <4>1, <4>2
    <3>3. /\ Local(p)' /\ \A a \in VA : pte[p][a] # NoPte <=> InOwn(p, a)'
      <4>1. CASE after[p] = "unused"
        <5>1. Local(p)' /\ \A a \in VA : InOwn(p, a)' <=> a < 0
          BY Zenon, <2>1, <2>4, <3>2, <4>1, LocalUnused
        <5>2. QED
          BY Zenon, <2>5, <3>1, <4>1, <5>1
      <4>2. CASE after[p] = "user"
        <5>1. Local(p)' /\ \A a \in VA : InOwn(p, a)' <=> a < sz[p]
          BY Zenon, <2>1, <2>4, <3>2, <4>2, LocalQuiescent
        <5>2. QED
          BY Zenon, <3>1, <4>2, <5>1
      <4>3. QED
        BY Zenon, <2>4, <4>1, <4>2
    <3>4. Typed'
      <4>1. /\ loc' \in [Proc -> CowLabels] /\ pagetable' \in [Proc -> Proc]
            /\ va' \in [Proc -> 0 .. NVA] /\ end' \in [Proc -> 0 .. NVA]
            /\ after' \in [Proc -> {"user", "unused"}]
        BY <2>2, <2>4, <2>5, <2>6 DEF Control, Typed, CowLabels
      <4>2. sz' \in [Proc -> 0 .. NVA]
        BY <2>2, <2>5 DEF Control, Typed
      <4>3. QED
        BY Zenon, <2>1, <4>1, <4>2 DEF Control, Typed
    <3>5. Argument(p)' /\ loc'[p] # "embryo" /\ loc[p] # "embryo"
      BY Zenon, <2>1, <2>4, <3>2 DEF Argument
    <3>6. QED
      BY Zenon, <2>0, <2>1, <2>6, <3>2, <3>3, <3>4, <3>5, OwnStep
  <2>7. CASE q # p
    <3>1. /\ after[p] = "user" /\ \A a \in VA : pte[p][a] # NoPte <=> a < sz[p]
          /\ \A a \in VA : pte[q][a] # NoPte <=> a < 0
      BY Zenon, <2>0, <2>3, <2>4, <2>5, <2>7, UnmappingFacts
    <3>2. loc[q] = "embryo" /\ \A x \in Proc : pagetable[x] = q => x \in {p, q}
      BY Zenon, <2>0, <2>7, Here DEF Pair
    <3>3. pagetable[q] = q /\ after[q] = "user" /\ new[q] \notin Page /\ va[q] = 0 /\ sz[q] = 0
      <4>1. Local(q) /\ after[q] \in {"user", "unused"}
        BY Zenon, <2>3, Here
      <4>2. QED
        BY Zenon, <3>2, <4>1 DEF Local, Place, Idle, Calling, Copying, Unmapping
    <3>4. sz' = sz /\ loc' = [loc EXCEPT ![q] = "unused", ![p] = "user"]
      BY Zenon, <2>2, <3>1
    <3>5. /\ loc'[p] = "user" /\ loc'[q] = "unused" /\ pagetable'[p] = p /\ pagetable'[q] = q
          /\ va'[p] = 0 /\ va'[q] = 0 /\ after'[p] = "user" /\ after'[q] = "user"
          /\ \A x \in Proc : x \notin {p, q} => Still(x)
      BY <2>1, <2>2, <2>7, <3>3, <3>4 DEF Still, Control, Typed
    <3>6. Typed'
      <4>1. /\ loc' \in [Proc -> CowLabels] /\ pagetable' \in [Proc -> Proc]
            /\ va' \in [Proc -> 0 .. NVA] /\ end' \in [Proc -> 0 .. NVA]
            /\ after' \in [Proc -> {"user", "unused"}]
        BY Zenon, <2>2, <2>5, <3>4 DEF Control, Typed, CowLabels
      <4>2. QED
        BY Zenon, <2>1, <3>4, <4>1 DEF Control, Typed
    <3>7. Local(p)' /\ \A a \in VA : InOwn(p, a)' <=> a < sz'[p]
      BY Zenon, <2>1, <2>4, <3>5, LocalQuiescent
    <3>8. Local(q)' /\ \A a \in VA : InOwn(q, a)' <=> a < 0
      <4>1. sz'[q] = 0 /\ new'[q] \notin Page
        BY Zenon, <2>1, <3>3, <3>4
      <4>2. QED
        BY Zenon, <2>3, <3>5, <4>1, LocalUnused
    <3>9. OwnMapped(p)' /\ OwnMapped(q)' /\ ChildMapped(p)'
      BY Zenon, <2>1, <3>1, <3>4, <3>5, <3>7, <3>8 DEF OwnMapped, ChildMapped
    <3>10. Pair(p)' /\ Argument(p)'
      BY Zenon, <3>5 DEF Pair, Argument
    <3>11. /\ q \in Proc /\ p # q /\ loc[p] # "embryo" /\ loc'[p] # "embryo" /\ pte' = pte
           /\ pagetable'[p] \in {p, q} /\ pagetable[q] = q /\ pagetable'[q] = q
           /\ loc'[q] \notin {"kfree", "copy_ref"}
      BY Zenon, <2>1, <2>3, <2>7, <3>3, <3>5
    <3>12. QED
      BY Zenon, <3>2, <3>5, <3>6, <3>7, <3>8, <3>9, <3>10, <3>11, PairKeeps
  <2>8. QED
    BY Zenon, <2>6, <2>7
\* A step that changes the contents of pages only.
<1>Contents.
  ASSUME UNCHANGED <<freelist, ref_cnt, pte, sz, loc, pagetable, va, end, after>>,
         UNCHANGED <<r, ret, new>>
  PROVE  Control'
  <2> USE <1>Contents
  <2>1. Typed'
    BY Zenon DEF Control, Typed
  <2>2. ASSUME NEW x \in Proc
        PROVE  (Local(x) /\ Pair(x) /\ OwnMapped(x) /\ ChildMapped(x) /\ Argument(x))'
    <3>1. Still(x) /\ Local(x) /\ Pair(x) /\ OwnMapped(x) /\ ChildMapped(x) /\ Argument(x)
      BY Zenon, Here DEF Still
    <3>2. /\ Local(x)' <=> Local(x)
          /\ \A a \in VA : (InOwn(x, a)' <=> InOwn(x, a)) /\ (InChild(x, a)' <=> InChild(x, a))
      BY Zenon, <3>1, StillSame
    <3>3. OwnMapped(x)' /\ ChildMapped(x)'
      BY Zenon, <3>1, <3>2 DEF OwnMapped, ChildMapped
    <3>4. Pair(x)' /\ Argument(x)'
      BY Zenon, <3>1 DEF Pair, Argument
    <3>5. QED
      BY Zenon, <3>1, <3>2, <3>3, <3>4
  <2>3. QED
    BY Zenon, <2>1, <2>2 DEF Control
<1>1. CASE UNCHANGED cowvars
  BY Zenon, <1>1, <1>Contents DEF cowvars, kvars, loop
<1>2. ASSUME NEW p \in Proc, Step(p) PROVE Control'
  BY Zenon, <1>2, <1>Kalloc, <1>Increfcnt, <1>Kfree, <1>Push, <1>CowCopy,
     <1>CowFail, <1>CowMap, <1>Unmap, <1>Clear, <1>Unmapped,
     <1>GrowLoop, <1>GrowMap, <1>GrowMapFail, <1>GrowUndo, <1>Copy,
     <1>CopyRef, <1>CopyFail, <1>ForkDone DEF Step
<1>3. ASSUME NEW p \in Proc, NEW a \in VA, NEW v \in Value, Store(p, a, v) PROVE Control'
  BY Zenon, <1>3, <1>Contents DEF Store, kvars, loop
<1>4. ASSUME NEW p \in Proc, NEW a \in VA, NEW v \in Value, Copyout(p, a, v) PROVE Control'
  <2>1. /\ loc[p] = "user" /\ Present(p, a)
        /\ UNCHANGED <<freelist, ref_cnt, pte, sz, pagetable, end, after, r, new>>
    BY Zenon, <1>4 DEF Copyout, At
  <2>2. CASE UNCHANGED <<loc, va, ret, val>>
    BY Zenon, <2>1, <2>2, <1>Contents
  <2>3. CASE va' = [va EXCEPT ![p] = a] /\ CallKalloc(p, "cow_copy")
    BY Zenon, <2>1, <2>3, <1>Fault
  <2>4. QED
    BY Zenon, <1>4, <2>2, <2>3 DEF Copyout
<1>5. ASSUME NEW p \in Proc, NEW a \in VA, StoreFault(p, a) PROVE Control'
  <2>1. /\ loc[p] = "user"
        /\ UNCHANGED <<freelist, ref_cnt, pte, sz, pagetable, end, after, r, new>>
    BY Zenon, <1>5 DEF StoreFault, At
  <2>2. CASE Present(p, a) /\ va' = [va EXCEPT ![p] = a] /\ CallKalloc(p, "cow_copy")
    BY Zenon, <2>1, <2>2, <1>Fault
  <2>3. CASE Goes(p, Exited(p)) /\ UNCHANGED <<va, ret>>
    BY Zenon, <2>1, <2>3, <1>Exit
  <2>4. QED
    BY Zenon, <1>5, <2>2, <2>3 DEF StoreFault
<1>6. ASSUME NEW p \in Proc, ExitProc(p) PROVE Control'
  BY Zenon, <1>6, <1>Exit DEF ExitProc, At, kvars, loop
<1>7. QED
  BY Zenon, <1>1, <1>2, <1>3, <1>4, <1>5, <1>6, <1>Uvmclear, <1>Shrink, <1>Grow,
     <1>Fork, <1>Reap DEF CowNext, CowHalted

\* The panics of uvmcopy, uvmunmap and mappages are unreachable.
LEMMA PanicsUnreachable == ASSUME CowAssumption, Control PROVE NoPanic
<1> SUFFICES ASSUME NEW p \in Proc
             PROVE  /\ loc[p] \in {"user", "zombie", "copy", "copy_ref"} =>
                         \A a \in VA : pte[p][a] # NoPte <=> a < sz[p]
                    /\ loc[p] = "unused" => \A a \in VA : pte[p][a] = NoPte
                    /\ loc[p] = "unmap" /\ va[p] < end[p] => pte[pagetable[p]][va[p]] # NoPte
                    /\ loc[p] = "copy" /\ va[p] < sz[p] => pte[pagetable[p]][va[p]] = NoPte
                    /\ loc[p] = "grow_map" => pte[p][va[p]] = NoPte
  BY Zenon DEF NoPanic
<1>1. ASSUME loc[p] \in {"user", "zombie", "copy", "copy_ref"}
      PROVE  \A a \in VA : pte[p][a] # NoPte <=> a < sz[p]
  BY Zenon, <1>1, MappedBelow, CopyingFacts DEF Copying
<1>2. ASSUME loc[p] = "unused", NEW a \in VA PROVE pte[p][a] = NoPte
  <2>1. ~ (a < sz[p])
    <3>1. sz[p] = 0
      BY Zenon, <1>2, Here DEF Local
    <3>2. QED
      BY <3>1 DEF VA
  <2>2. after[p] # "unused" /\ Place(p) = "unused"
    BY Zenon, <1>2, Here DEF Local, Place, Calling, Unmapping
  <2>3. ~ InOwn(p, a)
    BY Zenon, <2>1, <2>2 DEF InOwn, Growing, Unmapping
  <2>4. QED
    BY Zenon, <1>2, <2>3, Here DEF OwnMapped
<1>3. ASSUME loc[p] = "unmap", va[p] < end[p] PROVE pte[pagetable[p]][va[p]] # NoPte
  <2>1. va[p] \in VA /\ va[p] <= va[p]
    BY <1>3, Sizes DEF VA
  <2>2. QED
    BY Zenon, <1>3, <2>1, UnmappingFacts DEF Unmapping
<1>4. ASSUME loc[p] = "copy", va[p] < sz[p] PROVE pte[pagetable[p]][va[p]] = NoPte
  <2>1. va[p] \in VA /\ ~ (va[p] < va[p])
    BY <1>4, Sizes DEF VA
  <2>2. QED
    BY Zenon, <1>4, <2>1, CopyingFacts DEF Copying
<1>5. ASSUME loc[p] = "grow_map" PROVE pte[p][va[p]] = NoPte
  <2>1. va[p] < end[p] /\ \A a \in VA : pte[p][a] # NoPte <=> a < va[p]
    BY Zenon, <1>5, GrowingFacts DEF Growing
  <2>2. va[p] \in VA /\ ~ (va[p] < va[p])
    BY <2>1, Sizes DEF VA
  <2>3. QED
    BY Zenon, <2>1, <2>2
<1>6. QED
  BY Zenon, <1>1, <1>2, <1>3, <1>4, <1>5

-----------------------------------------------------------------------------
\* PTE (q, a) maps g, and is not about to be cleared.
MapsTo(q, a, g) == pte[q][a] # NoPte /\ pte[q][a].pa = g /\ ~ Dying(q, a)

\* p holds a reference that no PTE stands for.
Carries(p, g) ==
  \/ new[p] = g
  \/ r[p] = g /\ loc[p] \in {"cow_copy", "grow_map"}
  \/ r[p] = g /\ loc[p] = "kfree" /\ ret[p] = "grow_undo"

\* p takes g from the free list, or puts it there.
Transfers(p, g) == r[p] = g /\ loc[p] \in {"incref", "push"}

\* What the child's page table maps while fork makes it.
Mirrors(p) ==
  loc[p] \in Copying => \A a \in VA : a < va[p] => pte[pagetable[p]][a].pa = pte[p][a].pa

\* What the references to pages are for: a page on its way from or to the free
\* list, or in the hands of kernel code, is mapped nowhere, and a page that one
\* PTE lets a program write is mapped by no other.
Apart ==
  \A g \in Page :
    /\ \A p \in Proc : Transfers(p, g) =>
         \A q \in Proc, b \in VA : ~ Carries(q, g) /\ ~ MapsTo(q, b, g)
    /\ \A p \in Proc : Carries(p, g) =>
         \A q \in Proc, b \in VA : (Carries(q, g) => q = p) /\ ~ MapsTo(q, b, g)
    /\ \A p \in Proc, a \in VA : MapsTo(p, a, g) /\ pte[p][a].w =>
         \A q \in Proc, b \in VA : ~ Carries(q, g) /\ (MapsTo(q, b, g) => q = p /\ b = a)

\* What is added to the invariant.
Contents ==
  /\ mem \in [Page -> Value \cup {Zero, Junk}]
  /\ val \in [Proc -> Value \cup {NoValue}]
  /\ \A p \in Proc : Mirrors(p)

-----------------------------------------------------------------------------
\* What kfree is called for: a PTE that maps the page, or a page that could
\* not be mapped.
LEMMA FreeingFacts ==
  ASSUME CowAssumption, Control, NEW p \in Proc, loc[p] \in {"kfree", "push"}
  PROVE  /\ ret[p] \in {"clear", "cow_map", "grow_undo"} /\ r[p] \in Page /\ va[p] \in VA
         /\ ret[p] \in {"clear", "cow_map"} => pte[pagetable[p]][va[p]] # NoPte
         /\ ret[p] = "grow_undo" => pagetable[p] = p /\ pte[p][va[p]] = NoPte /\ new[p] \notin Page
<1>1. /\ ret[p] \in {"clear", "cow_map", "grow_undo"} /\ r[p] \in Page /\ Place(p) = ret[p]
      /\ Local(p) /\ OwnMapped(p) /\ ChildMapped(p)
  BY Zenon, Here DEF Local, Place, Calling
<1>2. CASE ret[p] = "clear"
  <2>1. va[p] < end[p] /\ Place(p) \in Unmapping
    BY Zenon, <1>1, <1>2 DEF Local, Unmapping
  <2>2. va[p] \in VA /\ va[p] <= va[p]
    BY <2>1, Sizes DEF VA
  <2>3. CASE pagetable[p] = p
    <3>1. InOwn(p, va[p])
      <4>1. Place(p) \notin Growing
        BY Zenon, <1>1, <1>2 DEF Growing
      <4>2. QED
        BY Zenon, <2>1, <2>2, <2>3, <4>1 DEF InOwn
    <3>2. QED
      BY Zenon, <1>1, <1>2, <2>2, <2>3, <3>1 DEF OwnMapped
  <2>4. CASE pagetable[p] # p
    BY Zenon, <1>1, <1>2, <2>1, <2>2, <2>4 DEF ChildMapped, InChild
  <2>5. QED
    BY Zenon, <1>1, <1>2, <2>2, <2>3, <2>4
<1>3. CASE ret[p] = "cow_map"
  <2>1. va[p] < sz[p] /\ pagetable[p] = p /\ after[p] # "unused" /\ Place(p) \notin Growing
    BY Zenon, <1>1, <1>3 DEF Local, Copying, Unmapping, Growing
  <2>2. va[p] \in VA
    BY <2>1, Sizes DEF VA
  <2>3. InOwn(p, va[p])
    BY Zenon, <2>1 DEF InOwn
  <2>4. QED
    BY Zenon, <1>1, <1>3, <2>1, <2>2, <2>3 DEF OwnMapped
<1>4. CASE ret[p] = "grow_undo"
  <2>1. /\ va[p] < end[p] /\ pagetable[p] = p /\ after[p] # "unused" /\ Place(p) \in Growing
        /\ new[p] \notin Page
    BY Zenon, <1>1, <1>4 DEF Local, Copying, Unmapping, Growing
  <2>2. va[p] \in VA /\ ~ (va[p] < va[p])
    BY <2>1, Sizes DEF VA
  <2>3. ~ InOwn(p, va[p])
    BY Zenon, <2>1, <2>2 DEF InOwn
  <2>4. QED
    BY Zenon, <1>1, <1>4, <2>1, <2>2, <2>3 DEF OwnMapped
<1>5. QED
  BY Zenon, <1>1, <1>2, <1>3, <1>4

-----------------------------------------------------------------------------
\* Space in the next state.
LEMMA SpaceNext == Space' = [p \in Proc |-> [a \in VA |-> Cell(p, a)']]
BY Zenon DEF Space

\* One page of one process.
LEMMA SpaceAt == ASSUME NEW p \in Proc, NEW a \in VA PROVE Space[p][a] = Cell(p, a)
BY Zenon DEF Space

\* Nothing is seen to change ...
LEMMA SpaceSame ==
  ASSUME \A p \in Proc, a \in VA : Cell(p, a)' = Cell(p, a)
  PROVE  Space' = Space
BY Zenon, SpaceNext DEF Space

\* ... or one page ...
LEMMA SpaceSet ==
  ASSUME NEW p \in Proc, NEW a \in VA,
         \A q \in Proc, b \in VA : ~ (q = p /\ b = a) => Cell(q, b)' = Cell(q, b)
  PROVE  Space' = [Space EXCEPT ![p][a] = Cell(p, a)']
<1>1. Space = [q \in Proc |-> [b \in VA |-> Cell(q, b)]]
  BY Zenon DEF Space
<1>2. Space' = [q \in Proc |-> [b \in VA |-> IF q = p /\ b = a THEN Cell(p, a)' ELSE Cell(q, b)]]
  BY Zenon, SpaceNext
<1>3. QED
  BY <1>1, <1>2

\* ... or all of one process.
LEMMA SpaceSets ==
  ASSUME NEW p \in Proc, NEW f, f = [a \in VA |-> Cell(p, a)'],
         \A q \in Proc, b \in VA : q # p => Cell(q, b)' = Cell(q, b)
  PROVE  Space' = [Space EXCEPT ![p] = f]
<1>1. Space = [q \in Proc |-> [b \in VA |-> Cell(q, b)]]
  BY Zenon DEF Space
<1>2. Space' = [q \in Proc |-> IF q = p THEN f ELSE [b \in VA |-> Cell(q, b)]]
  BY Zenon, SpaceNext
<1>3. QED
  BY <1>1, <1>2

-----------------------------------------------------------------------------
\* A page of a program is a copy that is being made, or one that its PTE maps.
LEMMA Shows ==
  ASSUME CowAssumption, Control, NEW q \in Proc, NEW b \in VA, ~ Hides(q, b)
  PROVE  /\ Shown(q, b) \in Page
         /\ Fresh(q, b) => new[q] = Shown(q, b)
         /\ ~ Fresh(q, b) => MapsTo(q, b, Shown(q, b))
<1>1. /\ Local(q) /\ Pair(q) /\ new[q] \in Page \cup {NoPage} /\ pte[q][b] \in PTE \cup {NoPte}
      /\ pte[q][b] # NoPte /\ ~ Gone(q) /\ ~ Dead(q, b) /\ loc[q] # "embryo"
  BY Zenon, Here DEF Hides, Gone
<1>2. CASE Fresh(q, b)
  BY Zenon, <1>1, <1>2 DEF Fresh, Shown
<1>3. CASE ~ Fresh(q, b)
  <2>1. pte[q][b].pa \in Page
    BY <1>1 DEF PTE
  <2>2. ASSUME NEW x \in Proc, pagetable[x] = q, va[x] = b,
               loc[x] \in {"push", "clear", "cow_map"}
        PROVE  FALSE
    <3>1. x = q
      BY Zenon, <1>1, <2>2, Here DEF Pair
    <3>2. loc[q] = "cow_map" => new[q] \in Page
      BY Zenon, <1>1 DEF Local, Place, Calling
    <3>3. QED
      BY Zenon, <1>1, <1>3, <2>2, <3>1, <3>2 DEF Fresh, Dead, CowAssumption
  <2>3. ~ Dying(q, b)
    BY Zenon, <2>2 DEF Dying, WorksAt
  <2>4. QED
    BY Zenon, <1>1, <1>3, <2>1, <2>3 DEF Shown, MapsTo
<1>4. QED
  BY Zenon, <1>2, <1>3

\* Nobody sees a page on its way from or to the free list ...
LEMMA NobodySees ==
  ASSUME CowAssumption, Control, Apart, NEW g \in Page, NEW p \in Proc, Transfers(p, g),
         NEW q \in Proc, NEW b \in VA, ~ Hides(q, b)
  PROVE  Shown(q, b) # g
<1>1. ~ Carries(q, g) /\ ~ MapsTo(q, b, g)
  BY Zenon DEF Apart
<1>2. QED
  BY Zenon, <1>1, Shows DEF Carries

\* ... or one that kernel code holds, but the process whose copy it is.
LEMMA HolderSees ==
  ASSUME CowAssumption, Control, Apart, NEW g \in Page, NEW p \in Proc, Carries(p, g),
         NEW q \in Proc, NEW b \in VA, ~ Hides(q, b), Shown(q, b) = g
  PROVE  q = p /\ new[p] = g /\ va[p] = b
<1>1. (Carries(q, g) => q = p) /\ ~ MapsTo(q, b, g)
  BY Zenon DEF Apart
<1>2. QED
  BY Zenon, <1>1, Shows DEF Carries, Fresh

\* A page that one program can write is seen by no other.
LEMMA WriterSees ==
  ASSUME CowAssumption, Control, Apart, NEW g \in Page, NEW p \in Proc, NEW a \in VA,
         MapsTo(p, a, g), pte[p][a].w,
         NEW q \in Proc, NEW b \in VA, ~ Hides(q, b), Shown(q, b) = g
  PROVE  q = p /\ b = a
<1>1. ~ Carries(q, g) /\ (MapsTo(q, b, g) => q = p /\ b = a)
  BY Zenon DEF Apart
<1>2. QED
  BY Zenon, <1>1, Shows DEF Carries

-----------------------------------------------------------------------------
\* Programs see page b of q as before, as far as the variables of q go ...
Alike(q, b) ==
  /\ Gone(q)' <=> Gone(q)
  /\ pte[q][b] # NoPte /\ ~ Gone(q) =>
       /\ Fresh(q, b)' <=> Fresh(q, b)
       /\ Dead(q, b)' <=> Dead(q, b)
       /\ Fresh(q, b) => new'[q] = new[q]

\* ... its PTE ...
PteKept(q, b) ==
  Gone(q) \/ (/\ pte'[q][b] = NoPte <=> pte[q][b] = NoPte
              /\ pte[q][b] # NoPte => pte'[q][b].pa = pte[q][b].pa)

\* ... and the contents of memory.
MemKept(q, b) == ~ Hides(q, b) => mem'[Shown(q, b)] = mem[Shown(q, b)]

\* Then its contents are the same.
LEMMA CellSame ==
  ASSUME NEW q \in Proc, NEW b \in VA, Alike(q, b), PteKept(q, b), MemKept(q, b)
  PROVE  Cell(q, b)' = Cell(q, b)
<1>1. CASE Gone(q)
  BY Zenon, <1>1 DEF Alike, Cell, Hides
<1>2. CASE ~ Gone(q) /\ pte[q][b] = NoPte
  BY Zenon, <1>2 DEF PteKept, Cell, Hides
<1>3. CASE ~ Gone(q) /\ pte[q][b] # NoPte /\ Dead(q, b)
  BY Zenon, <1>3 DEF Alike, Cell, Hides
<1>4. CASE ~ Gone(q) /\ pte[q][b] # NoPte /\ ~ Dead(q, b)
  <2>1. ~ Hides(q, b) /\ ~ Hides(q, b)'
    BY Zenon, <1>4 DEF Alike, PteKept, Hides
  <2>2. Shown(q, b)' = Shown(q, b)
    BY Zenon, <1>4 DEF Alike, PteKept, Shown
  <2>3. QED
    BY Zenon, <2>1, <2>2 DEF MemKept, Cell
<1>5. QED
  BY Zenon, <1>1, <1>2, <1>3, <1>4

\* A process whose variables do not change is seen as before.
LEMMA StillAlike ==
  ASSUME NEW q \in Proc, Still(q)
  PROVE  \A b \in VA : Alike(q, b)
BY Zenon DEF Still, Alike, Gone, Fresh, Dead

\* Where no page of p is being copied or freed.
Plain(p) ==
  new[p] = NoPage /\ (pagetable[p] # p \/ loc[p] \notin {"kfree", "push", "clear"})

\* So is one that goes on without copying or freeing a page of its own.
LEMMA PlainAlike ==
  ASSUME NEW p \in Proc, Gone(p)' <=> Gone(p), Gone(p) \/ (Plain(p) /\ Plain(p)')
  PROVE  \A b \in VA : Alike(p, b)
BY Zenon DEF Alike, Plain, Fresh, Dead

\* A process that is hidden before and after is seen as before.
LEMMA GoneAlike ==
  ASSUME NEW q \in Proc, Gone(q), Gone(q)'
  PROVE  \A b \in VA : Alike(q, b)
BY Zenon DEF Alike

\* What a step shows to programs: nothing, or what AddressSpaces allows.
Seen == Contents' /\ (Space' = Space \/ Private!Next)

\* Unless p forks, what other forks have copied stays copied.
LEMMA MirrorsKeep ==
  ASSUME Control, Contents, NEW p \in Proc, loc[p] # "embryo",
         \A x \in Proc : x # p => Still(x) \/ loc'[x] \notin Copying,
         \A x \in Proc : x \notin {p, pagetable[p]} => pte'[x] = pte[x]
  PROVE  \A x \in Proc : x # p => Mirrors(x)'
<1> SUFFICES ASSUME NEW x \in Proc, x # p, loc'[x] \in Copying
             PROVE  \A a \in VA : a < va'[x] => pte'[pagetable'[x]][a].pa = pte'[x][a].pa
  BY Zenon DEF Mirrors
<1>1. Still(x) /\ loc[x] \in Copying /\ pagetable[x] \in Proc /\ pagetable[p] \in Proc
  BY Zenon, Here DEF Still
<1>2. loc[x] # "embryo" /\ pagetable[x] # x
  BY Zenon, <1>1, Here DEF Local, Place, Copying, Calling
<1>3. pagetable[x] # p /\ pagetable[x] # pagetable[p] /\ x # pagetable[p]
  <2>1. Pair(x) /\ Pair(p)
    BY Zenon, Here
  <2>2. pagetable[x] # p /\ pagetable[x] # pagetable[p]
    BY Zenon, <1>2, <2>1 DEF Pair
  <2>3. x # pagetable[p]
    BY Zenon, <1>2, <2>1 DEF Pair
  <2>4. QED
    BY Zenon, <2>2, <2>3
<1>4. pte'[x] = pte[x] /\ pte'[pagetable[x]] = pte[pagetable[x]]
  BY Zenon, <1>1, <1>3
<1>5. Mirrors(x)
  BY Zenon DEF Contents
<1>6. \A a \in VA : a < va[x] => pte[pagetable[x]][a].pa = pte[x][a].pa
  BY Zenon, <1>1, <1>5 DEF Mirrors
<1>7. va'[x] = va[x] /\ pagetable'[x] = pagetable[x]
  BY Zenon, <1>1 DEF Still
<1>8. QED
  BY Zenon, <1>4, <1>6, <1>7

\* Contents stay contents when p is not in uvmcopy after the step.
LEMMA ContentsKeep ==
  ASSUME Control, Contents, NEW p \in Proc, loc[p] # "embryo", loc'[p] \notin Copying,
         \A x \in Proc : x # p => Still(x) \/ loc'[x] \notin Copying,
         \A x \in Proc : x \notin {p, pagetable[p]} => pte'[x] = pte[x],
         mem' \in [Page -> Value \cup {Zero, Junk}], val' \in [Proc -> Value \cup {NoValue}]
  PROVE  Contents'
<1>1. \A x \in Proc : x # p => Mirrors(x)'
  BY Zenon, MirrorsKeep
<1>2. Mirrors(p)'
  BY Zenon DEF Mirrors
<1>3. QED
  BY Zenon, <1>1, <1>2 DEF Contents

\* No step that changes no PTE, and no contents anybody sees, is seen, if p neither
\* copies nor frees a page of its own.
LEMMA QuietSeen ==
  ASSUME Control, Contents, NEW p \in Proc, loc[p] # "embryo", loc'[p] \notin Copying,
         \A x \in Proc : x # p => Still(x) \/ (Gone(x) /\ Gone(x)' /\ loc'[x] \notin Copying),
         Gone(p)' <=> Gone(p), Gone(p) \/ (Plain(p) /\ Plain(p)'), UNCHANGED pte,
         mem' \in [Page -> Value \cup {Zero, Junk}], val' \in [Proc -> Value \cup {NoValue}],
         \A q \in Proc, b \in VA : MemKept(q, b)
  PROVE  Seen
<1>1. \A q \in Proc, b \in VA : Alike(q, b)
  BY Zenon, StillAlike, GoneAlike, PlainAlike
<1>2. \A q \in Proc, b \in VA : PteKept(q, b)
  BY Zenon DEF PteKept
<1>3. Space' = Space
  BY Zenon, <1>1, <1>2, CellSame, SpaceSame
<1>4. Contents'
  BY Zenon, ContentsKeep
<1>5. QED
  BY Zenon, <1>3, <1>4 DEF Seen

\* In particular when memory does not change.
LEMMA ControlSeen ==
  ASSUME Control, Contents, NEW p \in Proc, loc[p] # "embryo", loc'[p] \notin Copying,
         \A x \in Proc : x # p => Still(x) \/ (Gone(x) /\ Gone(x)' /\ loc'[x] \notin Copying),
         Gone(p)' <=> Gone(p), Gone(p) \/ (Plain(p) /\ Plain(p)'), UNCHANGED <<pte, mem>>,
         val' \in [Proc -> Value \cup {NoValue}]
  PROVE  Seen
<1>1. mem' \in [Page -> Value \cup {Zero, Junk}] /\ \A q \in Proc, b \in VA : MemKept(q, b)
  BY Zenon DEF Contents, MemKept
<1>2. QED
  BY Zenon, <1>1, QuietSeen

\* The contents of a page change that nobody but (p, a) shows.
LEMMA MemSet ==
  ASSUME Contents, NEW g \in Page, NEW v, mem' = [mem EXCEPT ![g] = v]
  PROVE  /\ mem'[g] = v /\ \A h \in Page : h # g => mem'[h] = mem[h]
         /\ v \in Value \cup {Zero, Junk} => mem' \in [Page -> Value \cup {Zero, Junk}]
<1>1. mem \in [Page -> Value \cup {Zero, Junk}]
  BY Zenon DEF Contents
<1>2. QED
  BY <1>1

\* Nobody sees a change of a page that p takes from the free list or puts there, or
\* holds and has not given to its program.
LEMMA UnseenChange ==
  ASSUME CowAssumption, Control, Apart, Contents, NEW p \in Proc, NEW g \in Page,
         Transfers(p, g) \/ (Carries(p, g) /\ new[p] # g),
         NEW v \in Value \cup {Zero, Junk}, mem' = [mem EXCEPT ![g] = v]
  PROVE  /\ mem' \in [Page -> Value \cup {Zero, Junk}] /\ mem'[g] = v
         /\ \A q \in Proc, b \in VA : MemKept(q, b)
<1>1. ASSUME NEW q \in Proc, NEW b \in VA, ~ Hides(q, b) PROVE Shown(q, b) # g
  <2>1. CASE Transfers(p, g)
    BY Zenon, <1>1, <2>1, NobodySees
  <2>2. CASE Carries(p, g) /\ new[p] # g
    BY Zenon, <1>1, <2>2, HolderSees
  <2>3. QED
    BY Zenon, <2>1, <2>2
<1>2. QED
  BY Zenon, <1>1, MemSet, Shows DEF MemKept

-----------------------------------------------------------------------------
\* A step of p inside kfree, on its way from one place to another.
LEMMA FreeingAlike ==
  ASSUME CowAssumption, Control, NEW p \in Proc, loc[p] \in {"kfree", "push"},
         loc'[p] \in {"push", ret[p]}, UNCHANGED <<pagetable, va, after, new>>
  PROVE  (\A b \in VA : Alike(p, b)) /\ loc'[p] \notin Copying
<1>1. /\ ret[p] \in {"clear", "cow_map", "grow_undo"}
      /\ ret[p] = "grow_undo" => pte[p][va[p]] = NoPte
      /\ new[p] \in Page <=> ret[p] = "cow_map"
  BY Zenon, FreeingFacts, Here DEF Local, Place, Calling
<1>2. (Gone(p)' <=> Gone(p)) /\ \A b \in VA : Fresh(p, b)' <=> Fresh(p, b)
  BY Zenon, <1>1 DEF Gone, Fresh
<1>3. ASSUME NEW b \in VA, pte[p][b] # NoPte PROVE Dead(p, b)' <=> Dead(p, b)
  <2>1. CASE va[p] # b \/ ret[p] = "clear"
    BY Zenon, <1>1, <1>2, <2>1 DEF Dead
  <2>2. CASE va[p] = b /\ ret[p] = "cow_map"
    BY Zenon, <1>1, <1>2, <2>2 DEF Dead, Fresh, CowAssumption
  <2>3. QED
    BY Zenon, <1>1, <1>3, <2>1, <2>2
<1>4. QED
  BY Zenon, <1>1, <1>2, <1>3 DEF Alike, Copying

\* User code enters the kernel for a copy of a page ...
LEMMA FaultSeen ==
  ASSUME CowAssumption, Control, Contents, NEW p \in Proc, NEW a \in VA, loc[p] = "user",
         va' = [va EXCEPT ![p] = a], CallKalloc(p, "cow_copy"),
         UNCHANGED <<mem, pte, sz, pagetable, end, after, r, new>>,
         val' \in [Proc -> Value \cup {NoValue}]
  PROVE  Seen
<1>1. loc' = [loc EXCEPT ![p] = "kalloc"] /\ ret' = [ret EXCEPT ![p] = "cow_copy"]
  BY Zenon DEF CallKalloc, Goes
<1>2. loc'[p] = "kalloc" /\ \A x \in Proc : x # p => Still(x)
  BY <1>1 DEF Still, Control, Typed
<1>3. new[p] = NoPage
  BY Zenon, Quiescent, Here
<1>4. Plain(p) /\ Plain(p)' /\ (Gone(p)' <=> Gone(p)) /\ loc'[p] \notin Copying
  BY Zenon, <1>2, <1>3 DEF Plain, Gone, Copying
<1>5. QED
  BY Zenon, <1>2, <1>4, ControlSeen

\* ... or leaves for good.
LEMMA ExitSeen ==
  ASSUME CowAssumption, Control, Contents, NEW p \in Proc, loc[p] # "embryo",
         loc'[p] \in {"halt", "zombie"}, \A x \in Proc : x # p => Still(x),
         UNCHANGED <<mem, pte>>, val' \in [Proc -> Value \cup {NoValue}]
  PROVE  Seen
<1>1. Gone(p)' /\ loc'[p] \notin Copying
  BY Zenon DEF Gone, Copying
<1>2. \A a \in VA : Cell(p, a)' = NoValue
  BY Zenon, <1>1 DEF Cell, Hides
<1>3. [a \in VA |-> NoValue] = [a \in VA |-> Cell(p, a)']
  BY Zenon, <1>2
<1>4. \A q \in Proc, b \in VA : q # p => Cell(q, b)' = Cell(q, b)
  BY Zenon, StillAlike, CellSame DEF PteKept, MemKept
<1>5. Space' = [Space EXCEPT ![p] = [a \in VA |-> NoValue]]
  BY Zenon, <1>3, <1>4, SpaceSets
<1>6. Private!Next
  BY Zenon, <1>5 DEF Private!Next, Private!Exit
<1>7. Contents'
  BY Zenon, <1>1, ContentsKeep DEF Contents
<1>8. QED
  BY Zenon, <1>6, <1>7 DEF Seen

\* The same, as the code does it.
LEMMA LeaveSeen ==
  ASSUME CowAssumption, Control, Contents, NEW p \in Proc, loc[p] = "user", Goes(p, Exited(p)),
         UNCHANGED <<mem, pte, sz, pagetable, va, end, after, r, ret, new>>,
         val' \in [Proc -> Value \cup {NoValue}]
  PROVE  Seen
<1>1. PICK l \in {"halt", "zombie"} : loc' = [loc EXCEPT ![p] = l]
  BY Zenon DEF Exited, Goes
<1>2. loc'[p] = l /\ \A x \in Proc : x # p => Still(x)
  BY <1>1 DEF Still, Control, Typed
<1>3. QED
  BY Zenon, <1>1, <1>2, ExitSeen

\* A store to a page that the program may write.
LEMMA WriteSeen ==
  ASSUME CowAssumption, Control, Apart, Contents, NEW p \in Proc, NEW a \in VA,
         NEW v \in Value, loc[p] = "user", pte[p][a] # NoPte, pte[p][a].w,
         mem' = [mem EXCEPT ![pte[p][a].pa] = v],
         UNCHANGED <<pte, sz, loc, pagetable, va, end, after, r, ret, new, val>>
  PROVE  Seen
<1>1. pte[p][a] \in PTE /\ pagetable[p] = p /\ after[p] = "user" /\ new[p] = NoPage
  BY Zenon, Here, Quiescent
<1>2. PICK g \in Page : g = pte[p][a].pa
  BY <1>1 DEF PTE
<1>3. ~ Fresh(p, a) /\ ~ Hides(p, a) /\ Shown(p, a) = g
  BY Zenon, <1>1, <1>2 DEF Fresh, Hides, Dead, Gone, Shown
<1>4. MapsTo(p, a, g)
  BY Zenon, <1>3, Shows
<1>5. /\ mem' \in [Page -> Value \cup {Zero, Junk}] /\ mem'[g] = v
      /\ \A h \in Page : h # g => mem'[h] = mem[h]
  BY Zenon, <1>2, MemSet
<1>6. \A x \in Proc : Still(x)
  BY Zenon DEF Still
<1>7. \A q \in Proc, b \in VA : Alike(q, b) /\ PteKept(q, b)
  BY Zenon, <1>6, StillAlike DEF PteKept
<1>8. ASSUME NEW q \in Proc, NEW b \in VA, ~ (q = p /\ b = a) PROVE MemKept(q, b)
  <2>1. ASSUME ~ Hides(q, b), Shown(q, b) = g PROVE q = p /\ b = a
    BY Zenon, <1>4, <2>1, WriterSees
  <2>2. QED
    BY Zenon, <1>5, <1>8, <2>1, Shows DEF MemKept
<1>9. \A q \in Proc, b \in VA : ~ (q = p /\ b = a) => Cell(q, b)' = Cell(q, b)
  BY Zenon, <1>7, <1>8, CellSame
<1>10. Cell(p, a) = mem[g] /\ Cell(p, a)' = v
  <2>1. Cell(p, a) = mem[g]
    BY Zenon, <1>3 DEF Cell
  <2>2. ~ Hides(p, a)' /\ Shown(p, a)' = g
    BY Zenon, <1>1, <1>2 DEF Fresh, Hides, Dead, Gone, Shown
  <2>3. QED
    BY Zenon, <1>5, <2>1, <2>2 DEF Cell
<1>11. Space' = [Space EXCEPT ![p][a] = v]
  <2>1. Space' = [Space EXCEPT ![p][a] = Cell(p, a)']
    BY Zenon, <1>9, SpaceSet
  <2>2. QED
    BY Zenon, <1>10, <2>1
<1>12. Private!Mapped(p, a)
  <2>1. Space[p][a] = mem[g]
    BY Zenon, <1>10, SpaceAt
  <2>2. mem[g] # NoValue
    BY Zenon DEF Contents, CowAssumption
  <2>3. QED
    BY Zenon, <2>1, <2>2 DEF Private!Mapped
<1>13. Private!Next
  BY Zenon, <1>11, <1>12 DEF Private!Next, Private!Store
<1>14. loc[p] # "embryo" /\ loc'[p] \notin Copying
  BY Zenon DEF Copying
<1>15. Contents'
  BY Zenon, <1>5, <1>6, <1>14, ContentsKeep DEF Contents
<1>16. QED
  BY Zenon, <1>13, <1>15 DEF Seen

-----------------------------------------------------------------------------
\* A step of p alone, from one place to another, in which no page changes.
LEMMA MoveSeen ==
  ASSUME CowAssumption, Control, Contents, NEW p \in Proc,
         loc[p] \notin {"unused", "embryo", "zombie", "halt", "kfree", "push", "clear"},
         loc'[p] \notin {"unused", "embryo", "zombie", "halt", "kfree", "push", "clear"},
         loc'[p] \notin Copying, after[p] = "user", after'[p] = "user",
         \A x \in Proc : x # p => Still(x), UNCHANGED <<mem, pte, new, val>>, new[p] \notin Page
  PROVE  Seen
<1>1. new[p] = NoPage /\ loc[p] # "embryo" /\ val' \in [Proc -> Value \cup {NoValue}]
  BY Zenon, Here DEF Contents
<1>2. ~ Gone(p) /\ ~ Gone(p)' /\ Plain(p) /\ Plain(p)'
  BY Zenon, <1>1 DEF Gone, Plain
<1>3. QED
  BY Zenon, <1>1, <1>2, ControlSeen

\* A step that changes nothing.
LEMMA SameSeen == ASSUME Contents, UNCHANGED cowvars PROVE Seen
<1>1. UNCHANGED <<mem, pte, sz, loc, pagetable, va, end, after, r, ret, new, val>>
  BY Zenon DEF cowvars, kvars, loop
<1>2. Space' = Space
  <2>1. \A q \in Proc, b \in VA : Alike(q, b) /\ PteKept(q, b) /\ MemKept(q, b)
    BY Zenon, <1>1, StillAlike DEF Still, PteKept, MemKept
  <2>2. QED
    BY Zenon, <2>1, CellSame, SpaceSame
<1>3. Contents'
  BY Zenon, <1>1 DEF Contents, Mirrors
<1>4. QED
  BY Zenon, <1>2, <1>3 DEF Seen

\* Every step of the kernel shows programs what AddressSpaces allows.
LEMMA NextSeen ==
  ASSUME CowAssumption, Control, Apart, Contents, [CowNext]_cowvars PROVE Seen
<1>1. CASE UNCHANGED cowvars
  BY Zenon, <1>1, SameSeen
\* kalloc: the page is nobody's yet.
<1>Kalloc. ASSUME NEW p \in Proc, Kalloc(p) PROVE Seen
  <2>1. loc[p] = "kalloc" /\ UNCHANGED <<mem, pte, sz, pagetable, va, end, after, new, val>>
    BY Zenon, <1>Kalloc DEF Kalloc, At, loop
  <2>2. ret[p] \in {"cow_copy", "grow_map"} /\ new[p] = NoPage
    BY Zenon, <2>1, Here DEF Local, Place, Calling
  <2>3. loc'[p] \in {"cow_copy", "grow_map", "incref"} /\ \A x \in Proc : x # p => Still(x)
    <3>1. CASE Return(p) /\ r' = [r EXCEPT ![p] = NoPage]
      <4>1. loc' = [loc EXCEPT ![p] = ret[p]] /\ ret' = [ret EXCEPT ![p] = "user"]
        BY Zenon, <3>1 DEF Return, Goes
      <4>2. QED
        BY <2>1, <2>2, <3>1, <4>1 DEF Still, Control, Typed
    <3>2. CASE \E g : r' = [r EXCEPT ![p] = g] /\ Goes(p, "incref") /\ UNCHANGED ret
      BY <2>1, <3>2 DEF Still, Control, Typed, Goes
    <3>3. QED
      BY Zenon, <1>Kalloc, <3>1, <3>2 DEF Kalloc
  <2>4. Plain(p) /\ Plain(p)' /\ (Gone(p)' <=> Gone(p)) /\ loc'[p] \notin Copying
    BY Zenon, <2>1, <2>2, <2>3 DEF Plain, Gone, Copying
  <2>5. val' \in [Proc -> Value \cup {NoValue}]
    BY Zenon, <2>1 DEF Contents
  <2>6. QED
    BY Zenon, <2>1, <2>3, <2>4, <2>5, ControlSeen
\* It is filled with junk before it has a reference.
<1>Incref. ASSUME NEW p \in Proc, Increfcnt(p) PROVE Seen
  <2>1. /\ loc[p] = "incref" /\ UNCHANGED <<pte, sz, pagetable, va, end, after, r, new, val>>
        /\ mem' = [mem EXCEPT ![r[p]] = Junk]
        /\ loc' = [loc EXCEPT ![p] = ret[p]] /\ ret' = [ret EXCEPT ![p] = "user"]
    BY Zenon, <1>Incref DEF Increfcnt, At, loop, Return, Goes
  <2>2. ret[p] \in {"cow_copy", "grow_map"} /\ new[p] = NoPage /\ r[p] \in Page
    BY Zenon, <2>1, Here DEF Local, Place, Calling
  <2>3. loc'[p] \in {"cow_copy", "grow_map"} /\ \A x \in Proc : x # p => Still(x)
    BY <2>1, <2>2 DEF Still, Control, Typed
  <2>4. Plain(p) /\ Plain(p)' /\ (Gone(p)' <=> Gone(p)) /\ loc'[p] \notin Copying
    BY Zenon, <2>1, <2>2, <2>3 DEF Plain, Gone, Copying
  <2>5. Transfers(p, r[p])
    BY Zenon, <2>1 DEF Transfers
  <2>6. /\ mem' \in [Page -> Value \cup {Zero, Junk}] /\ \A q \in Proc, b \in VA : MemKept(q, b)
    BY Zenon, <2>1, <2>2, <2>5, UnseenChange
  <2>7. val' \in [Proc -> Value \cup {NoValue}]
    BY Zenon, <2>1 DEF Contents
  <2>8. loc[p] # "embryo"
    BY Zenon, <2>1
  <2>9. QED
    BY Zenon, <2>1, <2>3, <2>4, <2>6, <2>7, <2>8, QuietSeen
\* kfree drops a reference ...
<1>Kfree. ASSUME NEW p \in Proc, Kfree(p) PROVE Seen
  <2>1. loc[p] = "kfree" /\ UNCHANGED <<mem, pte, sz, pagetable, va, end, after, r, new, val>>
    BY Zenon, <1>Kfree DEF Kfree, At, loop
  <2>2. loc'[p] \in {"push", ret[p]} /\ \A x \in Proc : x # p => Still(x)
    <3>1. CASE Return(p)
      BY <2>1, <3>1 DEF Still, Control, Typed, Return, Goes
    <3>2. CASE Goes(p, "push") /\ UNCHANGED ret
      BY <2>1, <3>2 DEF Still, Control, Typed, Goes
    <3>3. QED
      BY Zenon, <1>Kfree, <3>1, <3>2 DEF Kfree
  <2>3. (\A b \in VA : Alike(p, b)) /\ loc'[p] \notin Copying
    BY Zenon, <2>1, <2>2, FreeingAlike
  <2>4. \A q \in Proc, b \in VA : Alike(q, b) /\ PteKept(q, b) /\ MemKept(q, b)
    BY Zenon, <2>1, <2>2, <2>3, StillAlike DEF PteKept, MemKept
  <2>5. Space' = Space
    BY Zenon, <2>4, CellSame, SpaceSame
  <2>6. Contents'
    BY Zenon, <2>1, <2>2, <2>3, ContentsKeep DEF Contents
  <2>7. QED
    BY Zenon, <2>5, <2>6 DEF Seen
\* ... and fills the page with junk when it was the last one.
<1>Push. ASSUME NEW p \in Proc, Push(p) PROVE Seen
  <2>1. /\ loc[p] = "push" /\ UNCHANGED <<pte, sz, pagetable, va, end, after, r, new, val>>
        /\ mem' = [mem EXCEPT ![r[p]] = Junk]
        /\ loc' = [loc EXCEPT ![p] = ret[p]] /\ ret' = [ret EXCEPT ![p] = "user"]
    BY Zenon, <1>Push DEF Push, At, loop, Return, Goes
  <2>2. loc'[p] = ret[p] /\ \A x \in Proc : x # p => Still(x)
    BY <2>1 DEF Still, Control, Typed
  <2>3. (\A b \in VA : Alike(p, b)) /\ loc'[p] \notin Copying
    BY Zenon, <2>1, <2>2, FreeingAlike
  <2>4. r[p] \in Page /\ Transfers(p, r[p])
    BY Zenon, <2>1, FreeingFacts DEF Transfers
  <2>5. /\ mem' \in [Page -> Value \cup {Zero, Junk}] /\ \A q \in Proc, b \in VA : MemKept(q, b)
    BY Zenon, <2>1, <2>4, UnseenChange
  <2>6. \A q \in Proc, b \in VA : Alike(q, b) /\ PteKept(q, b)
    BY Zenon, <2>1, <2>2, <2>3, StillAlike DEF PteKept
  <2>7. Space' = Space
    BY Zenon, <2>5, <2>6, CellSame, SpaceSame
  <2>8. loc[p] # "embryo" /\ val' \in [Proc -> Value \cup {NoValue}]
    BY Zenon, <2>1 DEF Contents
  <2>9. Contents'
    BY Zenon, <2>1, <2>2, <2>3, <2>5, <2>8, ContentsKeep
  <2>10. QED
    BY Zenon, <2>7, <2>9 DEF Seen
\* The copy has the contents of the page it replaces.
<1>CowCopy. ASSUME NEW p \in Proc, CowCopy(p) PROVE Seen
  <2>1. /\ loc[p] = "cow_copy" /\ r[p] # NoPage
        /\ UNCHANGED <<pte, sz, pagetable, va, end, after, val>>
        /\ mem' = [mem EXCEPT ![r[p]] = mem[pte[p][va[p]].pa]]
        /\ loc' = [loc EXCEPT ![p] = "kfree"] /\ ret' = [ret EXCEPT ![p] = "cow_map"]
        /\ new' = [new EXCEPT ![p] = r[p]] /\ r' = [r EXCEPT ![p] = pte[p][va[p]].pa]
    BY Zenon, <1>CowCopy DEF CowCopy, At, loop, CallKfree, Goes
  <2>2. /\ loc'[p] = "kfree" /\ new'[p] = r[p] /\ \A x \in Proc : x # p => Still(x)
    BY <2>1 DEF Still, Control, Typed
  <2>3. /\ va[p] \in VA /\ after[p] = "user" /\ pagetable[p] = p /\ pte[p][va[p]] \in PTE
        /\ pte[p][va[p]] # NoPte
    BY Zenon, <2>1, Quiescent
  <2>4. new[p] = NoPage /\ r[p] \in Page
    BY Zenon, <2>1, Here DEF Local, Place, Calling
  <2>5. pte[p][va[p]].pa \in Page
    BY <2>3 DEF PTE
  <2>6. mem[pte[p][va[p]].pa] \in Value \cup {Zero, Junk}
    BY Zenon, <2>5 DEF Contents
  <2>7. Carries(p, r[p]) /\ new[p] # r[p]
    BY Zenon, <2>1, <2>4 DEF Carries
  <2>8. /\ mem' \in [Page -> Value \cup {Zero, Junk}] /\ mem'[r[p]] = mem[pte[p][va[p]].pa]
        /\ \A q \in Proc, b \in VA : MemKept(q, b)
    BY Zenon, <2>1, <2>4, <2>6, <2>7, UnseenChange
  <2>9. ~ Gone(p) /\ ~ Gone(p)' /\ Plain(p) /\ loc'[p] \notin Copying /\ loc[p] # "embryo"
    BY Zenon, <2>1, <2>2, <2>3, <2>4 DEF Gone, Plain, Copying
  <2>10. Cell(p, va[p])' = Cell(p, va[p])
    <3>1. Cell(p, va[p]) = mem[pte[p][va[p]].pa]
      BY Zenon, <2>3, <2>9 DEF Cell, Hides, Dead, Fresh, Shown, Plain
    <3>2. Fresh(p, va[p])'
      BY Zenon, <2>1, <2>2 DEF Fresh
    <3>3. ~ Hides(p, va[p])' /\ Shown(p, va[p])' = r[p]
      BY Zenon, <2>1, <2>2, <2>3, <2>9, <3>2 DEF Hides, Dead, Shown
    <3>4. QED
      BY Zenon, <2>8, <3>1, <3>3 DEF Cell
  <2>11. ASSUME NEW b \in VA, b # va[p] PROVE Alike(p, b)
    BY Zenon, <2>1, <2>9, <2>11 DEF Alike, Fresh, Dead
  <2>12. \A q \in Proc, b \in VA : Cell(q, b)' = Cell(q, b)
    BY Zenon, <2>1, <2>2, <2>8, <2>10, <2>11, StillAlike, CellSame DEF PteKept
  <2>13. Contents'
    BY Zenon, <2>1, <2>2, <2>8, <2>9, ContentsKeep DEF Contents
  <2>14. QED
    BY Zenon, <2>12, <2>13, SpaceSame DEF Seen
\* There is no page for the copy: the process dies, or copyout returns.
<1>CowFail. ASSUME NEW p \in Proc, CowFail(p) PROVE Seen
  <2>1. /\ loc[p] = "cow_copy" /\ UNCHANGED <<mem, pte, sz, pagetable, end, after, r, ret, new>>
        /\ va' = [va EXCEPT ![p] = 0] /\ val' = [val EXCEPT ![p] = NoValue]
    BY Zenon, <1>CowFail DEF CowFail, At
  <2>2. PICK l \in {"user", "halt", "zombie"} : loc' = [loc EXCEPT ![p] = l]
    BY Zenon, <1>CowFail DEF CowFail, Goes, Exited
  <2>3. loc'[p] = l /\ \A x \in Proc : x # p => Still(x)
    BY <2>1, <2>2 DEF Still, Control, Typed
  <2>4. val' \in [Proc -> Value \cup {NoValue}] /\ loc[p] # "embryo"
    BY <2>1 DEF Contents
  <2>5. CASE l = "user"
    <3>1. new[p] = NoPage
      BY Zenon, <2>1, Here DEF Local, Place, Calling
    <3>2. Plain(p) /\ Plain(p)' /\ (Gone(p)' <=> Gone(p)) /\ loc'[p] \notin Copying
      BY Zenon, <2>1, <2>3, <2>5, <3>1 DEF Plain, Gone, Copying
    <3>3. QED
      BY Zenon, <2>1, <2>3, <2>4, <3>2, ControlSeen
  <2>6. CASE l # "user"
    BY Zenon, <2>1, <2>2, <2>3, <2>4, <2>6, ExitSeen
  <2>7. QED
    BY Zenon, <2>5, <2>6
\* The copy is mapped; copyout writes to it.
<1>CowMap. ASSUME NEW p \in Proc, CowMap(p) PROVE Seen
  <2>1. /\ loc[p] = "cow_map" /\ UNCHANGED <<sz, pagetable, end, after, ret>>
        /\ pte' = [pte EXCEPT ![p][va[p]] = [@ EXCEPT !.pa = new[p], !.w = TRUE, !.cow = FALSE]]
        /\ mem' = IF val[p] = NoValue THEN mem ELSE [mem EXCEPT ![new[p]] = val[p]]
        /\ va' = [va EXCEPT ![p] = 0] /\ r' = [r EXCEPT ![p] = NoPage]
        /\ new' = [new EXCEPT ![p] = NoPage] /\ loc' = [loc EXCEPT ![p] = "user"]
        /\ val' = [val EXCEPT ![p] = NoValue]
    BY Zenon, <1>CowMap DEF CowMap, At, Goes
  <2>2. /\ pagetable[p] = p /\ va[p] \in VA /\ pte[p][va[p]] \in PTE /\ pte[p][va[p]] # NoPte
        /\ after[p] = "user"
    BY Zenon, <2>1, Quiescent
  <2>3. new[p] \in Page
    BY Zenon, <2>1, Here DEF Local, Place, Calling
  <2>4. PICK a \in VA, g \in Page : a = va[p] /\ g = new[p]
    BY Zenon, <2>2, <2>3
  <2> DEFINE e == [pte[p][a] EXCEPT !.pa = g, !.w = TRUE, !.cow = FALSE]
  <2>5. e \in PTE /\ e.pa = g
    BY Zenon, <2>2, <2>4 DEF PTE
  <2>6. /\ pte'[p][a] = e /\ \A z \in Proc : z # p => pte'[z] = pte[z]
        /\ \A z \in Proc, b \in VA : ~ (z = p /\ b = a) => pte'[z][b] = pte[z][b]
    <3>1. pte' = [pte EXCEPT ![p] = [pte[p] EXCEPT ![a] = e]]
      BY Zenon, <2>1, <2>4
    <3>2. pte \in [Proc -> [VA -> PTE \cup {NoPte}]]
      BY Zenon DEF Control, Typed
    <3> HIDE DEF e
    <3>3. QED
      BY <3>1, <3>2
  <2> HIDE DEF e
  <2>7. e # NoPte
    BY Zenon, <2>5 DEF CowAssumption
  <2>8. loc'[p] = "user" /\ new'[p] = NoPage /\ \A x \in Proc : x # p => Still(x)
    BY <2>1 DEF Still, Control, Typed
  <2>9. val' \in [Proc -> Value \cup {NoValue}] /\ val[p] \in Value \cup {NoValue}
    BY <2>1 DEF Contents
  <2>10. ~ Gone(p) /\ ~ Gone(p)' /\ loc'[p] \notin Copying /\ loc[p] # "embryo"
    BY Zenon, <2>1, <2>2, <2>8 DEF Gone, Copying
  <2>11. Cell(p, a) = mem[g] /\ Cell(p, a)' = mem'[g]
    <3>1. Fresh(p, a)
      BY Zenon, <2>3, <2>4 DEF Fresh, CowAssumption
    <3>2. Cell(p, a) = mem[g]
      BY Zenon, <2>2, <2>4, <2>10, <3>1 DEF Cell, Hides, Dead, Shown
    <3>3. ~ Fresh(p, a)' /\ ~ Dead(p, a)'
      BY Zenon, <2>8 DEF Fresh, Dead
    <3>4. Cell(p, a)' = mem'[g]
      BY Zenon, <2>5, <2>6, <2>7, <2>10, <3>3 DEF Cell, Hides, Shown
    <3>5. QED
      BY Zenon, <3>2, <3>4
  <2>12. ASSUME NEW b \in VA, b # a PROVE Alike(p, b)
    BY Zenon, <2>1, <2>4, <2>8, <2>10, <2>12 DEF Alike, Fresh, Dead
  <2>13. \A q \in Proc, b \in VA : ~ (q = p /\ b = a) => Alike(q, b) /\ PteKept(q, b)
    BY Zenon, <2>6, <2>8, <2>12, StillAlike DEF PteKept
  <2>14. CASE val[p] = NoValue
    <3>1. mem' = mem
      BY Zenon, <2>1, <2>14
    <3>2. \A q \in Proc, b \in VA : Cell(q, b)' = Cell(q, b)
      BY Zenon, <2>11, <2>13, <3>1, CellSame DEF MemKept
    <3>3. Contents'
      BY Zenon, <2>2, <2>6, <2>8, <2>9, <2>10, <3>1, ContentsKeep DEF Contents
    <3>4. QED
      BY Zenon, <3>2, <3>3, SpaceSame DEF Seen
  <2>15. CASE val[p] # NoValue
    <3>1. mem' = [mem EXCEPT ![g] = val[p]] /\ val[p] \in Value
      BY Zenon, <2>1, <2>4, <2>9, <2>15
    <3>2. /\ mem' \in [Page -> Value \cup {Zero, Junk}] /\ mem'[g] = val[p]
          /\ \A h \in Page : h # g => mem'[h] = mem[h]
      BY Zenon, <3>1, MemSet
    <3>3. Carries(p, g)
      BY Zenon, <2>4 DEF Carries
    <3>4. ASSUME NEW q \in Proc, NEW b \in VA, ~ (q = p /\ b = a) PROVE MemKept(q, b)
      <4>1. ASSUME ~ Hides(q, b), Shown(q, b) = g PROVE q = p /\ new[p] = g /\ va[p] = b
        BY Zenon, <3>3, <4>1, HolderSees
      <4>2. QED
        BY Zenon, <2>4, <3>2, <3>4, <4>1, Shows DEF MemKept
    <3>5. \A q \in Proc, b \in VA : ~ (q = p /\ b = a) => Cell(q, b)' = Cell(q, b)
      BY Zenon, <2>13, <3>4, CellSame
    <3>6. Space' = [Space EXCEPT ![p][a] = val[p]]
      <4>1. Cell(p, a)' = val[p]
        BY Zenon, <2>11, <3>2
      <4>2. Space' = [Space EXCEPT ![p][a] = Cell(p, a)']
        BY Zenon, <3>5, SpaceSet
      <4>3. QED
        BY Zenon, <4>1, <4>2
    <3>7. Private!Mapped(p, a)
      <4>1. Space[p][a] = mem[g]
        BY Zenon, <2>11, SpaceAt
      <4>2. mem[g] # NoValue
        BY Zenon DEF Contents, CowAssumption
      <4>3. QED
        BY Zenon, <4>1, <4>2 DEF Private!Mapped
    <3>8. Private!Next
      BY Zenon, <3>1, <3>6, <3>7 DEF Private!Next, Private!Store
    <3>9. Contents'
      BY Zenon, <2>2, <2>6, <2>8, <2>9, <2>10, <3>2, ContentsKeep
    <3>10. QED
      BY Zenon, <3>8, <3>9 DEF Seen
  <2>16. QED
    BY Zenon, <2>14, <2>15
\* uvmunmap frees are hidden.
<1>Unmap. ASSUME NEW p \in Proc, Unmap(p) PROVE Seen
  <2>1. /\ loc[p] = "unmap" /\ va[p] < end[p]
        /\ UNCHANGED <<mem, pte, sz, pagetable, va, end, after, new, val>>
        /\ loc' = [loc EXCEPT ![p] = "kfree"] /\ ret' = [ret EXCEPT ![p] = "clear"]
        /\ r' = [r EXCEPT ![p] = pte[pagetable[p]][va[p]].pa]
    BY Zenon, <1>Unmap DEF Unmap, At, loop, CallKfree, Goes
  <2>2. loc'[p] = "kfree" /\ \A x \in Proc : x # p => Still(x)
    BY <2>1 DEF Still, Control, Typed
  <2>3. PICK a \in VA : a = va[p] /\ a <= a
    BY <2>1, Sizes DEF VA
  <2>4. new[p] = NoPage /\ pte[pagetable[p]][a] # NoPte
    BY Zenon, <2>1, <2>3, UnmappingFacts, Here DEF Unmapping
  <2>5. val' \in [Proc -> Value \cup {NoValue}] /\ loc[p] # "embryo" /\ loc'[p] \notin Copying
    BY Zenon, <2>1, <2>2 DEF Contents, Copying
  <2>6. CASE pagetable[p] # p \/ after[p] = "unused"
    <3>1. (Gone(p)' <=> Gone(p)) /\ (Gone(p) \/ (Plain(p) /\ Plain(p)'))
      BY Zenon, <2>1, <2>2, <2>4, <2>6 DEF Gone, Plain
    <3>2. QED
      BY Zenon, <2>1, <2>2, <2>5, <3>1, ControlSeen
  <2>7. CASE pagetable[p] = p /\ after[p] # "unused"
    <3>1. ~ Gone(p) /\ ~ Gone(p)'
      BY Zenon, <2>1, <2>2, <2>7 DEF Gone
    <3>2. Cell(p, a)' = NoValue
      BY Zenon, <2>1, <2>2, <2>3, <2>4, <2>7 DEF Cell, Hides, Dead, Fresh
    <3>3. ~ Hides(p, a)
      BY Zenon, <2>1, <2>3, <2>4, <2>7, <3>1 DEF Hides, Dead
    <3>4. ASSUME NEW b \in VA, b # a PROVE Alike(p, b)
      BY Zenon, <2>1, <2>3, <2>4, <3>1, <3>4 DEF Alike, Fresh, Dead
    <3>5. \A q \in Proc, b \in VA : ~ (q = p /\ b = a) => Cell(q, b)' = Cell(q, b)
      BY Zenon, <2>1, <2>2, <3>4, StillAlike, CellSame DEF PteKept, MemKept
    <3>6. Space' = [Space EXCEPT ![p][a] = NoValue]
      <4>1. Space' = [Space EXCEPT ![p][a] = Cell(p, a)']
        BY Zenon, <3>5, SpaceSet
      <4>2. QED
        BY Zenon, <3>2, <4>1
    <3>7. Private!Mapped(p, a)
      <4>1. Space[p][a] = mem[Shown(p, a)] /\ Shown(p, a) \in Page
        BY Zenon, <3>3, SpaceAt, Shows DEF Cell
      <4>2. QED
        BY Zenon, <4>1 DEF Private!Mapped, Contents, CowAssumption
    <3>8. Private!Next
      BY Zenon, <3>6, <3>7 DEF Private!Next, Private!Shrink
    <3>9. Contents'
      BY Zenon, <2>1, <2>2, <2>5, ContentsKeep DEF Contents
    <3>10. QED
      BY Zenon, <3>8, <3>9 DEF Seen
  <2>8. QED
    BY Zenon, <2>6, <2>7
\* The PTE of a page that is gone is cleared.
<1>Clear. ASSUME NEW p \in Proc, Clear(p) PROVE Seen
  <2>1. /\ loc[p] = "clear" /\ UNCHANGED <<mem, sz, pagetable, end, after, ret, new, val>>
        /\ pte' = [pte EXCEPT ![pagetable[p]][va[p]] = NoPte]
        /\ va' = [va EXCEPT ![p] = @ + 1] /\ r' = [r EXCEPT ![p] = NoPage]
        /\ loc' = [loc EXCEPT ![p] = "unmap"]
    BY Zenon, <1>Clear DEF Clear, At, Goes
  <2>2. PICK q \in Proc : q = pagetable[p]
    BY Zenon, Here
  <2>3. va[p] < end[p] /\ new[p] = NoPage
    BY Zenon, <2>1, UnmappingFacts, Here DEF Unmapping
  <2>4. PICK a \in VA : a = va[p]
    BY <2>3, Sizes DEF VA
  <2>5. loc'[p] = "unmap" /\ \A x \in Proc : x # p => Still(x)
    BY <2>1 DEF Still, Control, Typed
  <2>6. /\ pte'[q][a] = NoPte /\ \A z \in Proc : z # q => pte'[z] = pte[z]
        /\ \A z \in Proc, b \in VA : ~ (z = q /\ b = a) => pte'[z][b] = pte[z][b]
    BY <2>1, <2>2, <2>4 DEF Control, Typed
  <2>7. Gone(p)' <=> Gone(p)
    BY Zenon, <2>1, <2>5 DEF Gone
  <2>8. ASSUME NEW b \in VA, q = p => b # a PROVE Alike(p, b)
    <3>1. ~ Fresh(p, b) /\ ~ Fresh(p, b)' /\ ~ Dead(p, b) /\ ~ Dead(p, b)'
      BY Zenon, <2>1, <2>2, <2>3, <2>4, <2>5, <2>8 DEF Fresh, Dead
    <3>2. QED
      BY Zenon, <2>7, <3>1 DEF Alike
  <2>9. q # p => Gone(q)
    BY Zenon, <2>2, Here DEF Pair, Gone
  <2>10. ASSUME NEW z \in Proc, NEW b \in VA, ~ (z = q /\ b = a) \/ q # p
         PROVE  Cell(z, b)' = Cell(z, b)
    <3>1. PteKept(z, b) /\ MemKept(z, b)
      BY Zenon, <2>1, <2>6, <2>9, <2>10 DEF PteKept, MemKept
    <3>2. Alike(z, b)
      BY Zenon, <2>5, <2>8, <2>10, StillAlike
    <3>3. QED
      BY Zenon, <3>1, <3>2, CellSame
  <2>11. q = p => Cell(p, a)' = NoValue /\ Cell(p, a) = NoValue
    BY Zenon, <2>1, <2>2, <2>3, <2>4, <2>6 DEF Cell, Hides, Dead, Fresh
  <2>12. Space' = Space
    BY Zenon, <2>10, <2>11, SpaceSame
  <2>13. loc[p] # "embryo" /\ loc'[p] \notin Copying
    BY Zenon, <2>1, <2>5 DEF Copying
  <2>14. Contents'
    BY Zenon, <2>1, <2>2, <2>5, <2>6, <2>13, ContentsKeep DEF Contents
  <2>15. QED
    BY Zenon, <2>12, <2>14 DEF Seen
\* uvmunmap is done: sbrk returns, or a slot is free.
<1>Unmapped. ASSUME NEW p \in Proc, Unmapped(p) PROVE Seen
  <2>1. PICK q \in Proc : q = pagetable[p]
    BY Zenon, Here
  <2>2. /\ loc[p] = "unmap" /\ UNCHANGED <<mem, pte, r, ret, new, val>>
        /\ loc' = [loc EXCEPT ![q] = "unused", ![p] = after[p]]
        /\ sz' = IF after[p] = "unused" THEN [sz EXCEPT ![p] = 0] ELSE sz
        /\ pagetable' = [pagetable EXCEPT ![p] = p] /\ va' = [va EXCEPT ![p] = 0]
        /\ end' = [end EXCEPT ![p] = 0] /\ after' = [after EXCEPT ![p] = "user"]
    BY Zenon, <1>Unmapped, <2>1 DEF Unmapped, At
  <2>3. /\ after[p] \in {"user", "unused"} /\ (q # p => loc[q] = "embryo") /\ new[p] = NoPage
    BY Zenon, <2>1, <2>2, Here, UnmappingFacts DEF Pair, Unmapping
  <2>4. ASSUME NEW x \in Proc, x \notin {p, q} PROVE Still(x)
    BY <2>2, <2>4 DEF Still, Control, Typed
  <2>5. loc'[p] = after[p] /\ (q # p => loc'[q] = "unused") /\ after'[p] = "user"
    BY <2>2 DEF Control, Typed
  <2>6. /\ Gone(p)' <=> Gone(p)
        /\ Plain(p) /\ Plain(p)' /\ loc'[p] \notin Copying /\ loc[p] # "embryo"
    BY Zenon, <2>2, <2>3, <2>5 DEF Gone, Plain, Copying
  <2>7. q # p => Gone(q) /\ Gone(q)' /\ loc'[q] \notin Copying
    BY Zenon, <2>3, <2>5 DEF Gone, Copying
  <2>8. \A x \in Proc : x # p => Still(x) \/ (Gone(x) /\ Gone(x)' /\ loc'[x] \notin Copying)
    BY Zenon, <2>4, <2>7
  <2>9. val' \in [Proc -> Value \cup {NoValue}]
    BY Zenon, <2>2 DEF Contents
  <2>10. QED
    BY Zenon, <2>2, <2>6, <2>8, <2>9, ControlSeen
\* growproc begins to shrink ...
<1>Shrink. ASSUME NEW p \in Proc, NEW n \in 0 .. NVA, Shrink(p, n) PROVE Seen
  <2>1. /\ loc[p] = "user" /\ UNCHANGED <<mem, pte, r, ret, new, val>>
        /\ loc' = [loc EXCEPT ![p] = "unmap"] /\ sz' = [sz EXCEPT ![p] = n]
        /\ pagetable' = [pagetable EXCEPT ![p] = p] /\ va' = [va EXCEPT ![p] = n]
        /\ end' = [end EXCEPT ![p] = sz[p]] /\ after' = [after EXCEPT ![p] = "user"]
    BY Zenon, <1>Shrink DEF Shrink, CallUnmap, Goes, At
  <2>2. loc'[p] = "unmap" /\ after'[p] = "user" /\ \A x \in Proc : x # p => Still(x)
    BY <2>1 DEF Still, Control, Typed
  <2>3. after[p] = "user" /\ new[p] \notin Page
    BY Zenon, <2>1, Quiescent
  <2>4. QED
    BY Zenon, <2>1, <2>2, <2>3, MoveSeen DEF Copying
\* ... or to grow ...
<1>Grow. ASSUME NEW p \in Proc, NEW n \in 0 .. NVA, Grow(p, n) PROVE Seen
  <2>1. /\ loc[p] = "user" /\ UNCHANGED <<mem, pte, sz, pagetable, after, r, ret, new, val>>
        /\ loc' = [loc EXCEPT ![p] = "grow"] /\ va' = [va EXCEPT ![p] = sz[p]]
        /\ end' = [end EXCEPT ![p] = n]
    BY Zenon, <1>Grow DEF Grow, Goes, At
  <2>2. loc'[p] = "grow" /\ \A x \in Proc : x # p => Still(x)
    BY <2>1 DEF Still, Control, Typed
  <2>3. after[p] = "user" /\ new[p] \notin Page
    BY Zenon, <2>1, Quiescent
  <2>4. QED
    BY Zenon, <2>1, <2>2, <2>3, MoveSeen DEF Copying
\* ... and goes round its loop.
<1>GrowLoop. ASSUME NEW p \in Proc, GrowLoop(p) PROVE Seen
  <2>1. loc[p] = "grow" /\ UNCHANGED <<mem, pte, pagetable, after, r, new, val>>
    BY Zenon, <1>GrowLoop DEF GrowLoop, At
  <2>2. loc'[p] \in {"kalloc", "user"} /\ \A x \in Proc : x # p => Still(x)
    <3>1. CASE CallKalloc(p, "grow_map") /\ UNCHANGED <<sz, va, end>>
      <4>1. loc' = [loc EXCEPT ![p] = "kalloc"] /\ ret' = [ret EXCEPT ![p] = "grow_map"]
        BY Zenon, <3>1 DEF CallKalloc, Goes
      <4>2. QED
        BY <2>1, <3>1, <4>1 DEF Still, Control, Typed
    <3>2. CASE /\ sz' = [sz EXCEPT ![p] = end[p]] /\ va' = [va EXCEPT ![p] = 0]
               /\ end' = [end EXCEPT ![p] = 0] /\ Goes(p, "user") /\ UNCHANGED ret
      BY <2>1, <3>2 DEF Still, Control, Typed, Goes
    <3>3. QED
      BY Zenon, <1>GrowLoop, <3>1, <3>2 DEF GrowLoop
  <2>3. after[p] = "user" /\ new[p] \notin Page
    BY Zenon, <2>1, GrowingFacts DEF Growing
  <2>4. QED
    BY Zenon, <2>1, <2>2, <2>3, MoveSeen DEF Copying
\* A page of zeroes more.
<1>GrowMap. ASSUME NEW p \in Proc, GrowMap(p) PROVE Seen
  <2>1. /\ loc[p] = "grow_map" /\ r[p] # NoPage /\ UNCHANGED <<sz, pagetable, end, after>>
        /\ UNCHANGED <<ret, new, val>>
        /\ mem' = [mem EXCEPT ![r[p]] = Zero]
        /\ pte' = [pte EXCEPT ![p][va[p]] = UserPte(r[p])]
        /\ va' = [va EXCEPT ![p] = @ + 1] /\ r' = [r EXCEPT ![p] = NoPage]
        /\ loc' = [loc EXCEPT ![p] = "grow"]
    BY Zenon, <1>GrowMap DEF GrowMap, At, Goes
  <2>2. loc'[p] = "grow" /\ \A x \in Proc : x # p => Still(x)
    BY <2>1 DEF Still, Control, Typed
  <2>3. r[p] \in Page /\ new[p] = NoPage /\ after[p] = "user" /\ va[p] < end[p]
        /\ \A a \in VA : pte[p][a] # NoPte <=> a < va[p]
    BY Zenon, <2>1, GrowingFacts, Here DEF Growing
  <2>4. PICK a \in VA : a = va[p] /\ ~ (a < a)
    BY <2>3, Sizes DEF VA
  <2> DEFINE e == UserPte(r[p])
  <2>5. e # NoPte /\ e.pa = r[p] /\ e \in PTE /\ pte' = [pte EXCEPT ![p][a] = e]
    <3>1. e \in PTE /\ e.pa = r[p]
      BY <2>3 DEF UserPte, PTE
    <3>2. QED
      BY Zenon, <2>1, <2>4, <3>1 DEF CowAssumption
  <2> HIDE DEF e
  <2>6. /\ pte'[p][a] = e /\ \A z \in Proc : z # p => pte'[z] = pte[z]
        /\ \A b \in VA : b # a => pte'[p][b] = pte[p][b]
    BY <2>5 DEF Control, Typed
  <2>7. Carries(p, r[p]) /\ new[p] # r[p]
    BY Zenon, <2>1, <2>3 DEF Carries
  <2>8. /\ mem' \in [Page -> Value \cup {Zero, Junk}] /\ mem'[r[p]] = Zero
        /\ \A q \in Proc, b \in VA : MemKept(q, b)
    BY Zenon, <2>1, <2>3, <2>7, UnseenChange
  <2>9. ~ Gone(p) /\ ~ Gone(p)' /\ Plain(p) /\ Plain(p)'
    BY Zenon, <2>1, <2>2, <2>3 DEF Gone, Plain
  <2>10. \A q \in Proc, b \in VA : ~ (q = p /\ b = a) => Cell(q, b)' = Cell(q, b)
    BY Zenon, <2>2, <2>6, <2>8, <2>9, StillAlike, PlainAlike, CellSame DEF PteKept
  <2>11. Cell(p, a) = NoValue /\ Cell(p, a)' = Zero
    <3>1. Cell(p, a) = NoValue
      BY Zenon, <2>3, <2>4 DEF Cell, Hides
    <3>2. ~ Fresh(p, a)' /\ ~ Dead(p, a)'
      BY Zenon, <2>9 DEF Fresh, Dead, Plain
    <3>3. QED
      BY Zenon, <2>5, <2>6, <2>8, <2>9, <3>1, <3>2 DEF Cell, Hides, Shown
  <2>12. Space' = [Space EXCEPT ![p][a] = Zero]
    <3>1. Space' = [Space EXCEPT ![p][a] = Cell(p, a)']
      BY Zenon, <2>10, SpaceSet
    <3>2. QED
      BY Zenon, <2>11, <3>1
  <2>13. ~ Private!Mapped(p, a)
    BY Zenon, <2>11, SpaceAt DEF Private!Mapped
  <2>14. Private!Next
    BY Zenon, <2>12, <2>13 DEF Private!Next, Private!Grow
  <2>15. loc[p] # "embryo" /\ loc'[p] \notin Copying /\ val' \in [Proc -> Value \cup {NoValue}]
    BY Zenon, <2>1, <2>2 DEF Copying, Contents
  <2>16. Contents'
    BY Zenon, <2>2, <2>6, <2>8, <2>15, ContentsKeep
  <2>17. QED
    BY Zenon, <2>14, <2>16 DEF Seen
\* The page that p holds is filled with zeroes and cannot be mapped.
<1>GrowMapFail. ASSUME NEW p \in Proc, GrowMapFail(p) PROVE Seen
  <2>1. /\ loc[p] = "grow_map" /\ r[p] # NoPage
        /\ UNCHANGED <<pte, sz, pagetable, va, end, after, new, val>>
        /\ mem' = [mem EXCEPT ![r[p]] = Zero]
        /\ loc' = [loc EXCEPT ![p] = "kfree"] /\ r' = [r EXCEPT ![p] = r[p]]
        /\ ret' = [ret EXCEPT ![p] = "grow_undo"]
    BY Zenon, <1>GrowMapFail DEF GrowMapFail, At, loop, CallKfree, Goes
  <2>2. loc'[p] = "kfree" /\ \A x \in Proc : x # p => Still(x)
    BY <2>1 DEF Still, Control, Typed
  <2>3. r[p] \in Page /\ new[p] = NoPage /\ after[p] = "user" /\ va[p] < end[p]
        /\ \A a \in VA : pte[p][a] # NoPte <=> a < va[p]
    BY Zenon, <2>1, GrowingFacts, Here DEF Growing
  <2>4. ~ (va[p] < va[p])
    BY Sizes
  <2>5. Carries(p, r[p]) /\ new[p] # r[p]
    BY Zenon, <2>1, <2>3 DEF Carries
  <2>6. mem' \in [Page -> Value \cup {Zero, Junk}] /\ \A q \in Proc, b \in VA : MemKept(q, b)
    BY Zenon, <2>1, <2>3, <2>5, UnseenChange
  <2>7. ASSUME NEW b \in VA PROVE Alike(p, b)
    <3>1. pte[p][b] # NoPte => va[p] # b
      BY Zenon, <2>3, <2>4
    <3>2. ~ Gone(p) /\ ~ Gone(p)'
      BY Zenon, <2>1, <2>2, <2>3 DEF Gone
    <3>3. QED
      BY Zenon, <2>1, <3>1, <3>2 DEF Alike, Fresh, Dead
  <2>8. \A q \in Proc, b \in VA : Cell(q, b)' = Cell(q, b)
    BY Zenon, <2>1, <2>2, <2>6, <2>7, StillAlike, CellSame DEF PteKept
  <2>9. loc[p] # "embryo" /\ loc'[p] \notin Copying /\ val' \in [Proc -> Value \cup {NoValue}]
    BY Zenon, <2>1, <2>2 DEF Copying, Contents
  <2>10. Contents'
    BY Zenon, <2>1, <2>2, <2>6, <2>9, ContentsKeep
  <2>11. QED
    BY Zenon, <2>8, <2>10, SpaceSame DEF Seen
\* What it mapped is given back when there is no memory.
<1>GrowUndo. ASSUME NEW p \in Proc, GrowUndo(p) PROVE Seen
  <2>1. /\ loc[p] \in {"grow_undo", "grow_map"} /\ UNCHANGED <<mem, pte, sz, ret, new, val>>
        /\ loc' = [loc EXCEPT ![p] = "unmap"] /\ r' = [r EXCEPT ![p] = NoPage]
        /\ pagetable' = [pagetable EXCEPT ![p] = p] /\ va' = [va EXCEPT ![p] = sz[p]]
        /\ end' = [end EXCEPT ![p] = va[p]] /\ after' = [after EXCEPT ![p] = "user"]
    BY Zenon, <1>GrowUndo DEF GrowUndo, CallUnmap, Goes, At
  <2>2. loc'[p] = "unmap" /\ after'[p] = "user" /\ \A x \in Proc : x # p => Still(x)
    BY <2>1 DEF Still, Control, Typed
  <2>3. after[p] = "user" /\ new[p] \notin Page
    BY Zenon, <2>1, GrowingFacts DEF Growing
  <2>4. QED
    BY Zenon, <2>1, <2>2, <2>3, MoveSeen DEF Copying
\* fork takes a slot, whose memory is hidden ...
<1>Fork. ASSUME NEW p \in Proc, NEW q \in Proc \ {p}, Fork(p, q) PROVE Seen
  <2>1. /\ loc[p] = "user" /\ loc[q] = "unused"
        /\ UNCHANGED <<mem, pte, sz, va, end, after, r, ret, new, val>>
        /\ loc' = [loc EXCEPT ![p] = "copy", ![q] = "embryo"]
        /\ pagetable' = [pagetable EXCEPT ![p] = q]
    BY Zenon, <1>Fork DEF Fork, At
  <2>2. /\ loc'[p] = "copy" /\ loc'[q] = "embryo" /\ \A x \in Proc : x \notin {p, q} => Still(x)
    BY <2>1 DEF Still, Control, Typed
  <2>3. after[p] = "user" /\ new[p] = NoPage /\ va[p] = 0
    BY Zenon, <2>1, Quiescent, Here
  <2>4. ~ Gone(p) /\ ~ Gone(p)' /\ Plain(p) /\ Plain(p)' /\ Gone(q) /\ Gone(q)'
    BY Zenon, <2>1, <2>2, <2>3 DEF Gone, Plain
  <2>5. \A x \in Proc, b \in VA : Alike(x, b)
    BY Zenon, <2>2, <2>4, StillAlike, GoneAlike, PlainAlike
  <2>6. Space' = Space
    BY Zenon, <2>1, <2>5, CellSame, SpaceSame DEF PteKept, MemKept
  <2>7. \A x \in Proc : x # p => Mirrors(x)'
    <3>1. \A x \in Proc : x # p => Still(x) \/ loc'[x] \notin Copying
      BY Zenon, <2>2 DEF Copying
    <3>2. QED
      BY Zenon, <2>1, <3>1, MirrorsKeep
  <2>8. Mirrors(p)'
    <3>1. va'[p] = 0 /\ \A a \in VA : ~ (a < 0)
      BY <2>1, <2>3 DEF VA
    <3>2. QED
      BY Zenon, <3>1 DEF Mirrors
  <2>9. Contents'
    BY Zenon, <2>1, <2>7, <2>8 DEF Contents
  <2>10. QED
    BY Zenon, <2>6, <2>9 DEF Seen
\* ... shares page after page with it ...
<1>Copy. ASSUME NEW p \in Proc, Copy(p) PROVE Seen
  <2>1. /\ loc[p] = "copy" /\ va[p] < sz[p]
        /\ UNCHANGED <<mem, sz, pagetable, va, end, after, r, ret, new, val>>
        /\ pte' = [pte EXCEPT ![p][va[p]] = CowPte(pte[p][va[p]]),
                              ![pagetable[p]][va[p]] = CowPte(pte[p][va[p]])]
        /\ loc' = [loc EXCEPT ![p] = "copy_ref"]
    BY Zenon, <1>Copy DEF Copy, At, Goes, kvars, loop
  <2>2. PICK q \in Proc : q = pagetable[p]
    BY Zenon, Here
  <2>3. PICK a \in VA : a = va[p] /\ ~ (a < a)
    BY <2>1, Sizes DEF VA
  <2>4. /\ q # p /\ pte[p][a] # NoPte /\ pte[p][a] \in PTE /\ new[p] = NoPage
        /\ loc[q] = "embryo" /\ after[p] = "user"
    <3>1. q # p /\ pte[p][a] # NoPte /\ after[p] = "user" /\ new[p] \notin Page
      BY Zenon, <2>1, <2>2, <2>3, CopyingFacts DEF Copying
    <3>2. loc[q] = "embryo"
      BY Zenon, <2>2, <3>1, Here DEF Pair
    <3>3. QED
      BY Zenon, <3>1, <3>2, Here
  <2> DEFINE e == CowPte(pte[p][a])
  <2>5. e \in PTE /\ e.pa = pte[p][a].pa /\ e # NoPte
    <3>1. e \in PTE /\ e.pa = pte[p][a].pa
      BY Zenon, <2>4 DEF CowPte, PTE
    <3>2. QED
      BY Zenon, <3>1 DEF CowAssumption
  <2>6. /\ pte'[p][a] = e /\ pte'[q][a] = e
        /\ \A z \in Proc : z \notin {p, q} => pte'[z] = pte[z]
        /\ \A z \in Proc, b \in VA : ~ (z \in {p, q} /\ b = a) => pte'[z][b] = pte[z][b]
    <3>1. pte' = [pte EXCEPT ![p][a] = e, ![q][a] = e]
      BY Zenon, <2>1, <2>2, <2>3
    <3>2. pte \in [Proc -> [VA -> PTE \cup {NoPte}]]
      BY Zenon DEF Control, Typed
    <3> HIDE DEF e
    <3>3. QED
      BY <2>4, <3>1, <3>2
  <2> HIDE DEF e
  <2>7. loc'[p] = "copy_ref" /\ \A x \in Proc : x # p => Still(x)
    BY <2>1 DEF Still, Control, Typed
  <2>8. ~ Gone(p) /\ ~ Gone(p)' /\ Plain(p) /\ Plain(p)' /\ Gone(q)
    BY Zenon, <2>1, <2>4, <2>7 DEF Gone, Plain
  <2>9. \A x \in Proc, b \in VA : Alike(x, b)
    BY Zenon, <2>7, <2>8, StillAlike, PlainAlike
  <2>10. ASSUME NEW x \in Proc, NEW b \in VA PROVE PteKept(x, b)
    BY Zenon, <2>4, <2>5, <2>6, <2>8 DEF PteKept
  <2>11. Space' = Space
    BY Zenon, <2>1, <2>9, <2>10, CellSame, SpaceSame DEF MemKept
  <2>12. \A x \in Proc : x # p => Mirrors(x)'
    BY Zenon, <2>1, <2>2, <2>6, <2>7, MirrorsKeep
  <2>13. Mirrors(p)'
    <3>1. Mirrors(p)
      BY Zenon DEF Contents
    <3>2. ASSUME NEW b \in VA, b < a PROVE pte'[q][b].pa = pte'[p][b].pa
      <4>1. b # a /\ pte[q][b].pa = pte[p][b].pa
        BY Zenon, <2>1, <2>2, <2>3, <3>1, <3>2 DEF Mirrors, Copying
      <4>2. pte'[q][b] = pte[q][b] /\ pte'[p][b] = pte[p][b]
        BY Zenon, <2>6, <4>1
      <4>3. QED
        BY Zenon, <4>1, <4>2
    <3>3. QED
      BY Zenon, <2>1, <2>2, <2>3, <3>2 DEF Mirrors
  <2>14. Contents'
    BY Zenon, <2>1, <2>12, <2>13 DEF Contents
  <2>15. QED
    BY Zenon, <2>11, <2>14 DEF Seen
\* ... counts it ...
<1>CopyRef. ASSUME NEW p \in Proc, CopyRef(p) PROVE Seen
  <2>1. /\ loc[p] = "copy_ref" /\ UNCHANGED <<mem, pte, sz, pagetable, end, after, r, ret, new, val>>
        /\ va' = [va EXCEPT ![p] = @ + 1] /\ loc' = [loc EXCEPT ![p] = "copy"]
    BY Zenon, <1>CopyRef DEF CopyRef, At, Goes
  <2>2. loc'[p] = "copy" /\ va'[p] = va[p] + 1 /\ \A x \in Proc : x # p => Still(x)
    BY <2>1 DEF Still, Control, Typed
  <2>3. new[p] = NoPage /\ after[p] = "user"
    BY Zenon, <2>1, CopyingFacts, Here DEF Copying
  <2>4. ~ Gone(p) /\ ~ Gone(p)' /\ Plain(p) /\ Plain(p)' /\ loc[p] # "embryo"
    BY Zenon, <2>1, <2>2, <2>3 DEF Gone, Plain
  <2>5. \A x \in Proc, b \in VA : Alike(x, b)
    BY Zenon, <2>2, <2>4, StillAlike, PlainAlike
  <2>6. Space' = Space
    BY Zenon, <2>1, <2>5, CellSame, SpaceSame DEF PteKept, MemKept
  <2>7. \A x \in Proc : x # p => Mirrors(x)'
    BY Zenon, <2>1, <2>2, <2>4, MirrorsKeep
  <2>8. Mirrors(p)'
    <3>1. /\ \A b \in VA : b < va[p] => pte[pagetable[p]][b].pa = pte[p][b].pa
          /\ pte[pagetable[p]][va[p]].pa = pte[p][va[p]].pa
      BY Zenon, <2>1, Here DEF Contents, Mirrors, Copying, Argument
    <3>2. \A b \in VA : b < va[p] + 1 => b < va[p] \/ b = va[p]
      BY Sizes DEF VA
    <3>3. QED
      BY Zenon, <2>1, <2>2, <3>1, <3>2 DEF Mirrors
  <2>9. Contents'
    BY Zenon, <2>1, <2>7, <2>8 DEF Contents
  <2>10. QED
    BY Zenon, <2>6, <2>9 DEF Seen
\* ... or fails to map it ...
<1>CopyFail. ASSUME NEW p \in Proc, CopyFail(p) PROVE Seen
  <2>1. /\ loc[p] = "copy" /\ va[p] < sz[p] /\ UNCHANGED <<mem, sz, r, ret, new, val>>
        /\ loc' = [loc EXCEPT ![p] = "unmap"] /\ pagetable' = [pagetable EXCEPT ![p] = pagetable[p]]
        /\ va' = [va EXCEPT ![p] = 0] /\ end' = [end EXCEPT ![p] = va[p]]
        /\ after' = [after EXCEPT ![p] = "user"]
        /\ pte' = [pte EXCEPT ![p][va[p]] = CowPte(@)]
    BY Zenon, <1>CopyFail DEF CopyFail, CallUnmap, Goes, At
  <2>2. PICK a \in VA : a = va[p]
    BY <2>1, Sizes DEF VA
  <2>3. pte[p][a] \in PTE /\ pte[p][a] # NoPte /\ new[p] = NoPage /\ after[p] = "user"
    BY Zenon, <2>1, <2>2, CopyingFacts, Here DEF Copying
  <2> DEFINE e == CowPte(pte[p][a])
  <2>4. e \in PTE /\ e.pa = pte[p][a].pa /\ e # NoPte
    <3>1. e \in PTE /\ e.pa = pte[p][a].pa
      BY Zenon, <2>3 DEF CowPte, PTE
    <3>2. QED
      BY Zenon, <3>1 DEF CowAssumption
  <2>5. pte' = [pte EXCEPT ![p][a] = e]
    BY Zenon, <2>1, <2>2
  <2> HIDE DEF e
  <2>6. /\ pte'[p][a] = e /\ \A z \in Proc : z # p => pte'[z] = pte[z]
        /\ \A b \in VA : b # a => pte'[p][b] = pte[p][b]
    BY <2>5 DEF Control, Typed
  <2>7. loc'[p] = "unmap" /\ after'[p] = "user" /\ \A x \in Proc : x # p => Still(x)
    BY <2>1 DEF Still, Control, Typed
  <2>8. ~ Gone(p) /\ ~ Gone(p)' /\ Plain(p) /\ Plain(p)' /\ loc[p] # "embryo" /\ loc'[p] \notin Copying
    BY Zenon, <2>1, <2>3, <2>7 DEF Gone, Plain, Copying
  <2>9. \A x \in Proc, b \in VA : Alike(x, b)
    BY Zenon, <2>7, <2>8, StillAlike, PlainAlike
  <2>10. ASSUME NEW x \in Proc, NEW b \in VA PROVE PteKept(x, b)
    BY Zenon, <2>3, <2>4, <2>6 DEF PteKept
  <2>11. Space' = Space
    BY Zenon, <2>1, <2>9, <2>10, CellSame, SpaceSame DEF MemKept
  <2>12. Contents'
    BY Zenon, <2>1, <2>6, <2>7, <2>8, ContentsKeep DEF Contents
  <2>13. QED
    BY Zenon, <2>11, <2>12 DEF Seen
\* ... and lets the child run with a copy of the parent's memory.
<1>ForkDone. ASSUME NEW p \in Proc, ForkDone(p) PROVE Seen
  <2>1. PICK q \in Proc : q = pagetable[p]
    BY Zenon, Here
  <2>2. /\ loc[p] = "copy" /\ va[p] = sz[p] /\ UNCHANGED <<mem, pte, end, after, r, ret, new, val>>
        /\ loc' = [loc EXCEPT ![p] = "user", ![q] = "user"] /\ sz' = [sz EXCEPT ![q] = sz[p]]
        /\ pagetable' = [pagetable EXCEPT ![p] = p] /\ va' = [va EXCEPT ![p] = 0]
    BY Zenon, <1>ForkDone, <2>1 DEF ForkDone, At
  <2>3. /\ q # p /\ loc[q] = "embryo" /\ new[p] = NoPage /\ after[p] = "user"
        /\ \A a \in VA : pte[p][a] # NoPte <=> a < sz[p]
        /\ \A a \in VA : pte[q][a] # NoPte <=> a < va[p]
    BY Zenon, <2>1, <2>2, CopyingFacts, Here DEF Copying, Pair
  <2>4. new[q] = NoPage /\ after[q] = "user"
    BY Zenon, <2>3, Here DEF Local, Place, Calling, Unmapping
  <2>5. loc'[p] = "user" /\ loc'[q] = "user" /\ \A x \in Proc : x \notin {p, q} => Still(x)
    BY <2>2 DEF Still, Control, Typed
  <2>6. /\ ~ Gone(p) /\ ~ Gone(p)' /\ Plain(p) /\ Plain(p)' /\ Gone(q) /\ ~ Gone(q)' /\ Plain(q)'
        /\ loc[p] # "embryo" /\ loc'[p] \notin Copying
    BY Zenon, <2>2, <2>3, <2>4, <2>5 DEF Gone, Plain, Copying
  <2>7. \A x \in Proc, b \in VA : x # q => Alike(x, b)
    BY Zenon, <2>5, <2>6, StillAlike, PlainAlike
  <2>8. \A x \in Proc, b \in VA : x # q => Cell(x, b)' = Cell(x, b)
    BY Zenon, <2>2, <2>7, CellSame DEF PteKept, MemKept
  <2>9. \A a \in VA : a < va[p] => pte[q][a].pa = pte[p][a].pa
    BY Zenon, <2>1, <2>2 DEF Contents, Mirrors, Copying
  <2>10. ASSUME NEW b \in VA PROVE Cell(q, b)' = Cell(p, b)
    <3>1. ~ Fresh(p, b) /\ ~ Dead(p, b) /\ ~ Fresh(q, b)' /\ ~ Dead(q, b)'
      BY Zenon, <2>6 DEF Fresh, Dead, Plain
    <3>2. CASE pte[p][b] = NoPte
      BY Zenon, <2>2, <2>3, <3>2 DEF Cell, Hides
    <3>3. CASE pte[p][b] # NoPte
      BY Zenon, <2>2, <2>3, <2>6, <2>9, <3>1, <3>3 DEF Cell, Hides, Shown
    <3>4. QED
      BY Zenon, <3>2, <3>3
  <2>11. Space' = [Space EXCEPT ![q] = Space[p]]
    <3>1. Space[p] = [b \in VA |-> Cell(q, b)']
      BY Zenon, <2>10 DEF Space
    <3>2. QED
      BY Zenon, <2>8, <3>1, SpaceSets
  <2>12. \A a \in VA : ~ Private!Mapped(q, a)
    BY Zenon, <2>6, SpaceAt DEF Private!Mapped, Cell, Hides
  <2>13. Private!Next
    BY Zenon, <2>11, <2>12 DEF Private!Next, Private!Fork
  <2>14. \A x \in Proc : x # p => Still(x) \/ loc'[x] \notin Copying
    BY Zenon, <2>5 DEF Copying
  <2>15. Contents'
    BY Zenon, <2>2, <2>6, <2>14, ContentsKeep DEF Contents
  <2>16. QED
    BY Zenon, <2>13, <2>15 DEF Seen
\* wait begins to free the memory of a zombie.
<1>Reap. ASSUME NEW p \in Proc, Reap(p) PROVE Seen
  <2>1. /\ loc[p] = "zombie" /\ UNCHANGED <<mem, pte, sz, r, ret, new, val>>
        /\ loc' = [loc EXCEPT ![p] = "unmap"]
        /\ pagetable' = [pagetable EXCEPT ![p] = p] /\ va' = [va EXCEPT ![p] = 0]
        /\ end' = [end EXCEPT ![p] = sz[p]] /\ after' = [after EXCEPT ![p] = "unused"]
    BY Zenon, <1>Reap DEF Reap, CallUnmap, Goes, At
  <2>2. loc'[p] = "unmap" /\ after'[p] = "unused" /\ \A x \in Proc : x # p => Still(x)
    BY <2>1 DEF Still, Control, Typed
  <2>3. /\ Gone(p) /\ Gone(p)' /\ loc[p] # "embryo" /\ loc'[p] \notin Copying
        /\ val' \in [Proc -> Value \cup {NoValue}]
    BY Zenon, <2>1, <2>2 DEF Gone, Copying, Contents
  <2>4. QED
    BY Zenon, <2>1, <2>2, <2>3, ControlSeen
\* uvmclear changes nothing but who may use the page.
<1>Uvmclear. ASSUME NEW p \in Proc, NEW a \in VA, Uvmclear(p, a) PROVE Seen
  <2>1. /\ loc[p] = "user" /\ pte[p][a] # NoPte
        /\ UNCHANGED <<mem, sz, loc, pagetable, va, end, after, r, ret, new, val>>
        /\ pte' = [pte EXCEPT ![p][a].u = FALSE]
    BY Zenon, <1>Uvmclear DEF Uvmclear, At, kvars, loop
  <2>2. pte[p][a] \in PTE
    BY Zenon, <2>1, Here
  <2> DEFINE e == [pte[p][a] EXCEPT !.u = FALSE]
  <2>3. e \in PTE /\ e.pa = pte[p][a].pa
    BY Zenon, <2>2 DEF PTE
  <2>4. pte' = [pte EXCEPT ![p][a] = e] /\ e # NoPte
    BY Zenon, <2>1, <2>3 DEF CowAssumption
  <2> HIDE DEF e
  <2>5. /\ pte'[p][a] = e /\ \A z \in Proc : z # p => pte'[z] = pte[z]
        /\ \A b \in VA : b # a => pte'[p][b] = pte[p][b]
    BY <2>4 DEF Control, Typed
  <2>6. \A x \in Proc : Still(x)
    BY Zenon, <2>1 DEF Still
  <2>7. ASSUME NEW x \in Proc, NEW b \in VA PROVE PteKept(x, b)
    BY Zenon, <2>1, <2>3, <2>4, <2>5 DEF PteKept
  <2>8. Space' = Space
    BY Zenon, <2>1, <2>6, <2>7, StillAlike, CellSame, SpaceSame DEF MemKept
  <2>9. loc[p] # "embryo" /\ loc'[p] \notin Copying
    BY Zenon, <2>1 DEF Copying
  <2>10. Contents'
    BY Zenon, <2>1, <2>5, <2>6, <2>9, ContentsKeep DEF Contents
  <2>11. QED
    BY Zenon, <2>8, <2>10 DEF Seen
<1>2. ASSUME NEW p \in Proc, Step(p) PROVE Seen
  BY Zenon, <1>2, <1>Kalloc, <1>Incref, <1>Kfree, <1>Push, <1>CowCopy, <1>CowFail,
     <1>CowMap, <1>Unmap, <1>Clear, <1>Unmapped, <1>GrowLoop, <1>GrowMap, <1>GrowMapFail,
     <1>GrowUndo, <1>Copy, <1>CopyRef, <1>CopyFail, <1>ForkDone DEF Step
<1>3. ASSUME NEW p \in Proc, NEW a \in VA, NEW v \in Value, Store(p, a, v) PROVE Seen
  BY Zenon, <1>3, WriteSeen DEF Store, At, Writable, Present, kvars, loop
<1>4. ASSUME NEW p \in Proc, NEW a \in VA, NEW v \in Value, Copyout(p, a, v) PROVE Seen
  <2>1. /\ loc[p] = "user" /\ pte[p][a] # NoPte
        /\ UNCHANGED <<freelist, ref_cnt, pte, sz, pagetable, end, after, r, new>>
    BY Zenon, <1>4 DEF Copyout, At, Present
  <2>2. CASE /\ pte[p][a].w /\ mem' = [mem EXCEPT ![pte[p][a].pa] = v]
             /\ UNCHANGED <<loc, va, ret, val>>
    BY Zenon, <2>1, <2>2, WriteSeen
  <2>3. CASE /\ va' = [va EXCEPT ![p] = a] /\ val' = [val EXCEPT ![p] = v]
             /\ CallKalloc(p, "cow_copy") /\ UNCHANGED mem
    <3>1. val' \in [Proc -> Value \cup {NoValue}]
      BY <2>3 DEF Contents
    <3>2. QED
      BY Zenon, <2>1, <2>3, <3>1, FaultSeen
  <2>4. QED
    BY Zenon, <1>4, <2>2, <2>3 DEF Copyout
<1>5. ASSUME NEW p \in Proc, NEW a \in VA, StoreFault(p, a) PROVE Seen
  <2>1. /\ loc[p] = "user"
        /\ UNCHANGED <<freelist, ref_cnt, mem, pte, sz, pagetable, end, after, r, new, val>>
    BY Zenon, <1>5 DEF StoreFault, At
  <2>2. val' \in [Proc -> Value \cup {NoValue}]
    BY Zenon, <2>1 DEF Contents
  <2>3. CASE va' = [va EXCEPT ![p] = a] /\ CallKalloc(p, "cow_copy")
    BY Zenon, <2>1, <2>2, <2>3, FaultSeen
  <2>4. CASE Goes(p, Exited(p)) /\ UNCHANGED <<va, ret>>
    BY Zenon, <2>1, <2>2, <2>4, LeaveSeen
  <2>5. QED
    BY Zenon, <1>5, <2>3, <2>4 DEF StoreFault
<1>6. ASSUME NEW p \in Proc, ExitProc(p) PROVE Seen
  <2>1. val' \in [Proc -> Value \cup {NoValue}]
    BY Zenon, <1>6 DEF Contents, ExitProc, kvars
  <2>2. QED
    BY Zenon, <1>6, <2>1, LeaveSeen DEF ExitProc, At, kvars, loop
<1>7. QED
  BY Zenon, <1>1, <1>2, <1>3, <1>4, <1>5, <1>6, <1>Uvmclear, <1>Shrink, <1>Grow, <1>Fork,
     <1>Reap DEF CowNext, CowHalted

\* At first there is one process with one page of zeroes.
LEMMA InitSeen == ASSUME CowAssumption, CowInit PROVE Contents /\ Private!Init
<1>1. PICK g \in Page :
        /\ mem = [h \in Page |-> IF h = g THEN Zero ELSE Junk]
        /\ pte = [q \in Proc |-> [a \in VA |-> IF q = first /\ a = 0 THEN UserPte(g) ELSE NoPte]]
        /\ loc = [q \in Proc |-> IF q = first THEN "user" ELSE "unused"]
        /\ after = [q \in Proc |-> "user"] /\ new = [q \in Proc |-> NoPage]
        /\ val = [q \in Proc |-> NoValue]
  BY Zenon DEF CowInit
<1>2. mem \in [Page -> Value \cup {Zero, Junk}] /\ val \in [Proc -> Value \cup {NoValue}]
  BY <1>1
<1>3. first \in Proc /\ 0 \in VA
  BY DEF CowAssumption, VA
<1>4. \A q \in Proc : Mirrors(q)
  BY Zenon, <1>1 DEF Mirrors, Copying
<1>5. UserPte(g) # NoPte /\ UserPte(g).pa = g
  <2>1. UserPte(g) \in PTE /\ UserPte(g).pa = g
    BY DEF UserPte, PTE
  <2>2. QED
    BY Zenon, <2>1 DEF CowAssumption
<1>6. ASSUME NEW q \in Proc, NEW b \in VA
      PROVE  Cell(q, b) = IF q = first /\ b = 0 THEN Zero ELSE NoValue
  <2>1. CASE q = first /\ b = 0
    <3>1. pte[q][b] = UserPte(g) /\ loc[q] = "user" /\ after[q] = "user" /\ new[q] = NoPage
      BY <1>1, <1>3, <2>1
    <3>2. ~ Fresh(q, b) /\ ~ Hides(q, b)
      BY Zenon, <1>5, <3>1 DEF Fresh, Hides, Gone, Dead
    <3>3. Cell(q, b) = mem[g] /\ mem[g] = Zero
      BY Zenon, <1>1, <1>5, <3>1, <3>2 DEF Cell, Shown
    <3>4. QED
      BY Zenon, <2>1, <3>3
  <2>2. CASE ~ (q = first /\ b = 0)
    <3>1. pte[q][b] = NoPte
      BY Zenon, <1>1, <2>2
    <3>2. QED
      BY Zenon, <2>2, <3>1 DEF Cell, Hides
  <2>3. QED
    BY Zenon, <2>1, <2>2
<1>7. Space = [q \in Proc |-> [b \in VA |-> IF q = first /\ b = 0 THEN Zero ELSE NoValue]]
  BY Zenon, <1>6 DEF Space
<1>8. QED
  BY Zenon, <1>2, <1>3, <1>4, <1>7 DEF Contents, Private!Init
=============================================================================
