------------------------------ MODULE CowProofs ------------------------------
(***************************************************************************)
(* Copy-on-write fork, for every number of processes, pages and virtual    *)
(* pages: reference counts are exact at every step, no page is lost or     *)
(* freed twice, a page that can be written has one PTE, and no panic of    *)
(* the page-table code is reachable.                                       *)
(***************************************************************************)
EXTENDS CowControl

\* Its reference is counted.
Counts(q, a, g) == MapsTo(q, a, g) /\ ~ WorksAt(q, a, {"copy_ref"})

\* Page g is counted, free or used, and shared as it should be.  A page that
\* kernel code holds is nobody else's, and fork maps a page at one address only.
Good(g) ==
  /\ ref_cnt[g] = Cardinality(Counted(g)) + Cardinality(Carriers(g)) /\ ref_cnt[g] < REFMOD
  /\ ref_cnt[g] = 0 => \/ g \in freelist /\ InTransit(g) = {}
                       \/ g \notin freelist /\ \E p \in Proc : InTransit(g) = {p}
  /\ ref_cnt[g] # 0 => g \notin freelist /\ InTransit(g) = {}
  /\ \A p \in Carriers(g) : Carriers(g) = {p} /\ PTEs(g) = {}
  /\ \A x, y \in PTEs(g) : x[2] = y[2]
  /\ \A x \in PTEs(g) : pte[x[1]][x[2]].w => PTEs(g) = {x}

Refs == \A g \in Page : Good(g)

\* What the proofs use about numbers of PTEs and of processes.
Counting ==
  /\ Cardinality({}) = 0 /\ \A x : Cardinality({x}) = 1
  /\ \A S \in SUBSET (Proc \X VA) :
       /\ Cardinality(S) \in Nat /\ (Cardinality(S) = 0 <=> S = {})
       /\ \A x \in S : Cardinality(S \ {x}) = Cardinality(S) - 1
       /\ \A x : x \notin S => Cardinality(S \cup {x}) = Cardinality(S) + 1
  /\ \A T \in SUBSET Proc : Cardinality(T) \in Nat /\ (Cardinality(T) = 0 <=> T = {})
  /\ \A a \in VA : \A S \in SUBSET (Proc \X {a}) : Cardinality(S) <= Cardinality(Proc)
  /\ REFMOD \in Nat /\ REFMOD > 1 /\ Cardinality(Proc) \in Nat /\ Cardinality(Proc) < REFMOD
-----------------------------------------------------------------------------
\* The sets, member by member.
LEMMA Members ==
  ASSUME NEW g
  PROVE  /\ PTEs(g) = {x \in Proc \X VA : MapsTo(x[1], x[2], g)}
         /\ Counted(g) = {x \in Proc \X VA : Counts(x[1], x[2], g)}
         /\ Carriers(g) = {p \in Proc : Carries(p, g)}
         /\ InTransit(g) = {p \in Proc : Transfers(p, g)}
<1>1. PTEs(g) = {x \in Proc \X VA : MapsTo(x[1], x[2], g)}
  BY Zenon DEF PTEs, MapsTo
<1>2. Counted(g) = {x \in Proc \X VA : Counts(x[1], x[2], g)}
  BY Zenon, <1>1 DEF Counted, Counts
<1>3. QED
  BY Zenon, <1>1, <1>2 DEF Carriers, Carries, InTransit, Transfers

\* The same in the next state.
LEMMA MembersNext ==
  ASSUME NEW g
  PROVE  /\ PTEs(g)' = {x \in Proc \X VA : MapsTo(x[1], x[2], g)'}
         /\ Counted(g)' = {x \in Proc \X VA : Counts(x[1], x[2], g)'}
         /\ Carriers(g)' = {p \in Proc : Carries(p, g)'}
         /\ InTransit(g)' = {p \in Proc : Transfers(p, g)'}
<1>1. PTEs(g)' = {x \in Proc \X VA : MapsTo(x[1], x[2], g)'}
  BY Zenon DEF PTEs, MapsTo
<1>2. Counted(g)' = {x \in Proc \X VA : Counts(x[1], x[2], g)'}
  BY Zenon, <1>1 DEF Counted, Counts
<1>3. QED
  BY Zenon, <1>1, <1>2 DEF Carriers, Carries, InTransit, Transfers

\* Which PTEs map g, which are counted, who carries g and who transfers it.
LEMMA Pairs ==
  ASSUME NEW g
  PROVE  /\ \A q \in Proc, a \in VA : /\ <<q, a>> \in PTEs(g) <=> MapsTo(q, a, g)
                                      /\ <<q, a>> \in Counted(g) <=> Counts(q, a, g)
         /\ \A x \in PTEs(g) : x[1] \in Proc /\ x[2] \in VA /\ x = <<x[1], x[2]>>
                               /\ MapsTo(x[1], x[2], g)
         /\ Counted(g) \subseteq PTEs(g) /\ PTEs(g) \subseteq Proc \X VA
<1>1. \A q \in Proc, a \in VA : /\ <<q, a>> \in PTEs(g) <=> MapsTo(q, a, g)
                                /\ <<q, a>> \in Counted(g) <=> Counts(q, a, g)
  BY Members
<1>2. PTEs(g) \subseteq Proc \X VA /\ Counted(g) \subseteq PTEs(g)
  BY Zenon DEF PTEs, Counted
<1>3. \A x \in PTEs(g) : x[1] \in Proc /\ x[2] \in VA /\ x = <<x[1], x[2]>>
  BY <1>2
<1>4. \A x \in PTEs(g) : MapsTo(x[1], x[2], g)
  BY Zenon, Members
<1>5. QED
  BY Zenon, <1>1, <1>2, <1>3, <1>4

\* Sets stay the same when their members do ...
LEMMA SetsSame ==
  ASSUME NEW g,
         \A q \in Proc, a \in VA : /\ MapsTo(q, a, g)' <=> MapsTo(q, a, g)
                                   /\ Counts(q, a, g)' <=> Counts(q, a, g)
  PROVE  PTEs(g)' = PTEs(g) /\ Counted(g)' = Counted(g)
<1>1. \A x \in Proc \X VA : x[1] \in Proc /\ x[2] \in VA
  OBVIOUS
<1>2. /\ {x \in Proc \X VA : MapsTo(x[1], x[2], g)'} = {x \in Proc \X VA : MapsTo(x[1], x[2], g)}
      /\ {x \in Proc \X VA : Counts(x[1], x[2], g)'} = {x \in Proc \X VA : Counts(x[1], x[2], g)}
  BY Zenon, <1>1
<1>3. /\ PTEs(g) = {x \in Proc \X VA : MapsTo(x[1], x[2], g)}
      /\ Counted(g) = {x \in Proc \X VA : Counts(x[1], x[2], g)}
  BY Zenon, Members
<1>4. /\ PTEs(g)' = {x \in Proc \X VA : MapsTo(x[1], x[2], g)'}
      /\ Counted(g)' = {x \in Proc \X VA : Counts(x[1], x[2], g)'}
  BY Zenon, MembersNext
<1>5. QED
  BY Zenon, <1>2, <1>3, <1>4

\* The same for who holds a page.
LEMMA HoldersSame ==
  ASSUME NEW g,
         \A x \in Proc : /\ Carries(x, g)' <=> Carries(x, g)
                         /\ Transfers(x, g)' <=> Transfers(x, g)
  PROVE  Carriers(g)' = Carriers(g) /\ InTransit(g)' = InTransit(g)
<1>1. /\ {x \in Proc : Carries(x, g)'} = {x \in Proc : Carries(x, g)}
      /\ {x \in Proc : Transfers(x, g)'} = {x \in Proc : Transfers(x, g)}
  BY Zenon
<1>2. /\ Carriers(g) = {x \in Proc : Carries(x, g)}
      /\ InTransit(g) = {x \in Proc : Transfers(x, g)}
  BY Zenon, Members
<1>3. /\ Carriers(g)' = {x \in Proc : Carries(x, g)'}
      /\ InTransit(g)' = {x \in Proc : Transfers(x, g)'}
  BY Zenon, MembersNext
<1>4. QED
  BY Zenon, <1>1, <1>2, <1>3

\* ... and then the page is as good as it was.
LEMMA GoodSame ==
  ASSUME NEW g, Good(g), PTEs(g)' = PTEs(g), Counted(g)' = Counted(g),
         Carriers(g)' = Carriers(g), InTransit(g)' = InTransit(g),
         ref_cnt'[g] = ref_cnt[g], g \in freelist' <=> g \in freelist,
         \A x \in PTEs(g) : pte'[x[1]][x[2]].w => pte[x[1]][x[2]].w
  PROVE  Good(g)'
  BY Zenon DEF Good

\* The same, from the members.
LEMMA PageSame ==
  ASSUME NEW g \in Page, Good(g), ref_cnt'[g] = ref_cnt[g], g \in freelist' <=> g \in freelist,
         \A q \in Proc, a \in VA : /\ MapsTo(q, a, g)' <=> MapsTo(q, a, g)
                                   /\ Counts(q, a, g)' <=> Counts(q, a, g)
                                   /\ MapsTo(q, a, g) => (pte'[q][a].w => pte[q][a].w),
         \A x \in Proc : /\ Carries(x, g)' <=> Carries(x, g)
                         /\ Transfers(x, g)' <=> Transfers(x, g)
  PROVE  Good(g)'
<1>1. PTEs(g)' = PTEs(g) /\ Counted(g)' = Counted(g)
  BY Zenon, SetsSame
<1>2. Carriers(g)' = Carriers(g) /\ InTransit(g)' = InTransit(g)
  BY Zenon, HoldersSame
<1>3. \A x \in PTEs(g) : pte'[x[1]][x[2]].w => pte[x[1]][x[2]].w
  BY Zenon, Pairs
<1>4. QED
  BY Zenon, <1>1, <1>2, <1>3, GoodSame

\* One process at most works on a page table.
LEMMA OneWorker ==
  ASSUME Control, NEW p \in Proc, loc[p] # "embryo", NEW x \in Proc, loc[x] # "embryo",
         pagetable[x] = pagetable[p]
  PROVE  x = p
<1>1. Pair(p) /\ Pair(x)
  BY Zenon, Here
<1>2. QED
  BY Zenon, <1>1 DEF Pair

\* Where p works, and where others do.
LEMMA Works ==
  ASSUME Control, NEW p \in Proc, loc[p] # "embryo", NEW q \in Proc, q = pagetable[p],
         pagetable'[p] = q, \A x \in Proc : x # p => Still(x), NEW L, "embryo" \notin L
  PROVE  /\ \A a \in VA : WorksAt(q, a, L) <=> va[p] = a /\ loc[p] \in L
         /\ \A a \in VA : WorksAt(q, a, L)' <=> va'[p] = a /\ loc'[p] \in L
         /\ \A z \in Proc, a \in VA : z # q => (WorksAt(z, a, L)' <=> WorksAt(z, a, L))
<1>1. \A x \in Proc : pagetable[x] = q /\ loc[x] \in L => x = p
  BY Zenon, OneWorker
<1>2. \A x \in Proc : pagetable'[x] = q /\ loc'[x] \in L => x = p
  BY Zenon, <1>1 DEF Still
<1>3. \A a \in VA : WorksAt(q, a, L) <=> va[p] = a /\ loc[p] \in L
  BY Zenon, <1>1 DEF WorksAt
<1>4. \A a \in VA : WorksAt(q, a, L)' <=> va'[p] = a /\ loc'[p] \in L
  BY Zenon, <1>2 DEF WorksAt
<1>5. ASSUME NEW z \in Proc, NEW a \in VA, z # q PROVE WorksAt(z, a, L)' <=> WorksAt(z, a, L)
  BY Zenon, <1>5 DEF WorksAt, Still
<1>6. QED
  BY Zenon, <1>3, <1>4, <1>5

-----------------------------------------------------------------------------
\* The parts of Counting.
LEMMA CountsOf ==
  ASSUME Counting
  PROVE  /\ Cardinality({}) = 0 /\ \A x : Cardinality({x}) = 1
         /\ \A S \in SUBSET (Proc \X VA) : \A x \in S : Cardinality(S \ {x}) = Cardinality(S) - 1
         /\ \A S \in SUBSET (Proc \X VA) : \A x :
              x \notin S => Cardinality(S \cup {x}) = Cardinality(S) + 1
<1>1. Cardinality({}) = 0 /\ \A x : Cardinality({x}) = 1
  BY Zenon DEF Counting
<1>2. \A S \in SUBSET (Proc \X VA) : \A x \in S : Cardinality(S \ {x}) = Cardinality(S) - 1
  BY Zenon DEF Counting
<1>3. \A S \in SUBSET (Proc \X VA) : \A x :
        x \notin S => Cardinality(S \cup {x}) = Cardinality(S) + 1
  BY Zenon DEF Counting
<1>4. QED
  BY Zenon, <1>1, <1>2, <1>3

\* No reference of a page that fork shares is forgotten: it was counted before.
LEMMA SomeCounted ==
  ASSUME CowAssumption, Control, NEW g \in Page, PTEs(g) # {} PROVE Counted(g) # {}
<1>1. PICK q \in Proc, a \in VA : MapsTo(q, a, g)
  BY Zenon, Pairs
<1>2. CASE ~ WorksAt(q, a, {"copy_ref"})
  BY Zenon, <1>1, <1>2, Pairs DEF Counts
<1>3. CASE WorksAt(q, a, {"copy_ref"})
  <2>1. PICK p \in Proc : pagetable[p] = q /\ va[p] = a /\ loc[p] = "copy_ref"
    BY Zenon, <1>3 DEF WorksAt
  <2>2. /\ pagetable[p] # p /\ va[p] < sz[p] /\ \A b \in VA : pte[p][b] # NoPte <=> b < sz[p]
    BY Zenon, <2>1, CopyingFacts DEF Copying
  <2>3. pte[p][a] # NoPte /\ pte[p][a].pa = g
    BY Zenon, <1>1, <2>1, <2>2, Here DEF Argument, MapsTo
  <2>4. \A x \in Proc : pagetable[x] # p
    BY Zenon, <2>1, <2>2, Here DEF Pair
  <2>5. Counts(p, a, g)
    BY Zenon, <2>3, <2>4 DEF Counts, MapsTo, Dying, WorksAt
  <2>6. QED
    BY Zenon, <2>5, Pairs
<1>4. QED
  BY Zenon, <1>2, <1>3

\* A page without references ...
LEMMA Unreferenced ==
  ASSUME CowAssumption, Counting, Control, NEW g \in Page, Good(g), ref_cnt[g] = 0
  PROVE  Counted(g) = {} /\ Carriers(g) = {} /\ PTEs(g) = {}
<1>1. Counted(g) \subseteq Proc \X VA /\ Carriers(g) \subseteq Proc
  BY Zenon DEF Counted, PTEs, Carriers
<1>2. /\ Cardinality(Counted(g)) \in Nat /\ (Cardinality(Counted(g)) = 0 <=> Counted(g) = {})
      /\ Cardinality(Carriers(g)) \in Nat /\ (Cardinality(Carriers(g)) = 0 <=> Carriers(g) = {})
  BY Zenon, <1>1 DEF Counting
<1>3. ref_cnt[g] = Cardinality(Counted(g)) + Cardinality(Carriers(g))
  BY Zenon DEF Good
<1>4. Counted(g) = {} /\ Carriers(g) = {}
  BY <1>2, <1>3
<1>5. QED
  BY Zenon, <1>4, SomeCounted

\* ... one that kernel code holds ...
LEMMA Held ==
  ASSUME CowAssumption, Counting, Control, NEW g \in Page, Good(g), NEW p \in Proc, Carries(p, g)
  PROVE  /\ Carriers(g) = {p} /\ PTEs(g) = {} /\ Counted(g) = {} /\ ref_cnt[g] = 1
         /\ g \notin freelist /\ InTransit(g) = {}
<1>1. p \in Carriers(g)
  BY Zenon, Members
<1>2. Carriers(g) = {p} /\ PTEs(g) = {} /\ Counted(g) = {}
  BY Zenon, <1>1, Pairs DEF Good
<1>3. Cardinality(Carriers(g)) = 1 /\ Cardinality(Counted(g)) = 0
  BY Zenon, <1>2, CountsOf
<1>4. ref_cnt[g] = Cardinality(Counted(g)) + Cardinality(Carriers(g))
  BY Zenon DEF Good
<1>5. ref_cnt[g] = 1
  BY <1>3, <1>4
<1>6. ref_cnt[g] # 0
  BY <1>5
<1>7. QED
  BY Zenon, <1>2, <1>5, <1>6 DEF Good

\* ... and one that is mapped.
LEMMA Shared ==
  ASSUME CowAssumption, Counting, Control, NEW g \in Page, Good(g), PTEs(g) # {}
  PROVE  /\ Carriers(g) = {} /\ ref_cnt[g] = Cardinality(Counted(g)) /\ ref_cnt[g] # 0
         /\ Cardinality(Counted(g)) \in Nat /\ Counted(g) \in SUBSET (Proc \X VA)
         /\ g \notin freelist /\ InTransit(g) = {}
<1>1. Carriers(g) = {} /\ Cardinality(Carriers(g)) = 0
  <2>1. Carriers(g) = {}
    BY Zenon DEF Good
  <2>2. QED
    BY Zenon, <2>1 DEF Counting
<1>2. Counted(g) # {} /\ Counted(g) \subseteq Proc \X VA /\ Carriers(g) \subseteq Proc
  BY Zenon, SomeCounted DEF Counted, PTEs, Carriers
<1>3. /\ Cardinality(Counted(g)) \in Nat /\ (Cardinality(Counted(g)) = 0 <=> Counted(g) = {})
  BY Zenon, <1>2 DEF Counting
<1>4. ref_cnt[g] = Cardinality(Counted(g)) + Cardinality(Carriers(g))
  BY Zenon DEF Good
<1>5. ref_cnt[g] = Cardinality(Counted(g)) /\ ref_cnt[g] # 0
  BY <1>1, <1>2, <1>3, <1>4
<1>6. QED
  BY Zenon, <1>1, <1>2, <1>3, <1>5 DEF Good

\* A page that p transfers has no references.
LEMMA Transferred ==
  ASSUME CowAssumption, Counting, Control, NEW g \in Page, Good(g), NEW p \in Proc, Transfers(p, g)
  PROVE  ref_cnt[g] = 0 /\ InTransit(g) = {p} /\ g \notin freelist
<1>1. p \in InTransit(g)
  BY Zenon, Members
<1>2. QED
  BY Zenon, <1>1 DEF Good

\* What programs see depends on no more about references than this.
LEMMA KeptApart ==
  ASSUME CowAssumption, Counting, Control, Refs
  PROVE  Apart
<1> SUFFICES ASSUME NEW g \in Page
             PROVE  /\ \A p \in Proc : Transfers(p, g) =>
                         \A q \in Proc, b \in VA : ~ Carries(q, g) /\ ~ MapsTo(q, b, g)
                    /\ \A p \in Proc : Carries(p, g) =>
                         \A q \in Proc, b \in VA : (Carries(q, g) => q = p) /\ ~ MapsTo(q, b, g)
                    /\ \A p \in Proc, a \in VA : MapsTo(p, a, g) /\ pte[p][a].w =>
                         \A q \in Proc, b \in VA :
                           ~ Carries(q, g) /\ (MapsTo(q, b, g) => q = p /\ b = a)
  BY Zenon DEF Apart
<1>1. /\ Good(g) /\ \A q \in Proc : q \in Carriers(g) <=> Carries(q, g)
      /\ \A q \in Proc, b \in VA : <<q, b>> \in PTEs(g) <=> MapsTo(q, b, g)
  <2>1. Good(g)
    BY Zenon DEF Refs
  <2>2. \A q \in Proc : q \in Carriers(g) <=> Carries(q, g)
    BY Zenon, Members
  <2>3. \A q \in Proc, b \in VA : <<q, b>> \in PTEs(g) <=> MapsTo(q, b, g)
    BY Zenon, Pairs
  <2>4. QED
    BY Zenon, <2>1, <2>2, <2>3
<1>2. ASSUME NEW p \in Proc, Transfers(p, g) PROVE Carriers(g) = {} /\ PTEs(g) = {}
  BY Zenon, <1>1, <1>2, Transferred, Unreferenced
<1>3. ASSUME NEW p \in Proc, Carries(p, g) PROVE Carriers(g) = {p} /\ PTEs(g) = {}
  BY Zenon, <1>1, <1>3, Held
<1>4. ASSUME NEW p \in Proc, NEW a \in VA, MapsTo(p, a, g), pte[p][a].w
      PROVE  Carriers(g) = {} /\ PTEs(g) = {<<p, a>>}
  <2>1. <<p, a>> \in PTEs(g) /\ PTEs(g) # {}
    BY Zenon, <1>1, <1>4
  <2>2. <<p, a>>[1] = p /\ <<p, a>>[2] = a
    OBVIOUS
  <2>3. PTEs(g) = {<<p, a>>}
    BY Zenon, <1>1, <1>4, <2>1, <2>2 DEF Good
  <2>4. QED
    BY Zenon, <1>1, <2>1, <2>3, Shared
<1>5. \A p, q \in Proc, a, b \in VA : <<q, b>> \in {<<p, a>>} => q = p /\ b = a
  OBVIOUS
<1>6. ASSUME NEW p \in Proc, Transfers(p, g), NEW q \in Proc, NEW b \in VA
      PROVE  ~ Carries(q, g) /\ ~ MapsTo(q, b, g)
  BY Zenon, <1>1, <1>2, <1>6
<1>7. ASSUME NEW p \in Proc, Carries(p, g), NEW q \in Proc, NEW b \in VA
      PROVE  (Carries(q, g) => q = p) /\ ~ MapsTo(q, b, g)
  BY Zenon, <1>1, <1>3, <1>7
<1>8. ASSUME NEW p \in Proc, NEW a \in VA, MapsTo(p, a, g), pte[p][a].w,
             NEW q \in Proc, NEW b \in VA
      PROVE  ~ Carries(q, g) /\ (MapsTo(q, b, g) => q = p /\ b = a)
  BY Zenon, <1>1, <1>4, <1>5, <1>8
<1>9. QED
  BY Zenon, <1>6, <1>7, <1>8

-----------------------------------------------------------------------------
\* Where kernel code works on a PTE whose reference is not, or no longer, counted.
Working == {"push", "clear", "cow_map", "copy_ref"}

\* x does nothing that concerns references.
Calm(x) ==
  /\ loc[x] \notin Working /\ loc'[x] \notin Working
  /\ \A g \in Page : /\ Carries(x, g)' <=> Carries(x, g)
                     /\ Transfers(x, g)' <=> Transfers(x, g)

\* A step in which nobody does.
LEMMA QuietStep ==
  ASSUME Refs, UNCHANGED <<freelist, ref_cnt>>, \A x \in Proc : Still(x) \/ Calm(x),
         \A q \in Proc, a \in VA :
           /\ pte'[q][a] # NoPte <=> pte[q][a] # NoPte
           /\ pte[q][a] # NoPte => /\ pte'[q][a].pa = pte[q][a].pa
                                   /\ pte'[q][a].w => pte[q][a].w
  PROVE  Refs'
<1>1. ASSUME NEW x \in Proc, NEW g \in Page
      PROVE  /\ Carries(x, g)' <=> Carries(x, g)
             /\ Transfers(x, g)' <=> Transfers(x, g)
  <2>1. CASE Still(x)
    BY Zenon, <2>1 DEF Still, Carries, Transfers
  <2>2. CASE Calm(x)
    BY Zenon, <2>2 DEF Calm
  <2>3. QED
    BY Zenon, <2>1, <2>2
<1>2. ASSUME NEW q \in Proc, NEW a \in VA, NEW L \in SUBSET Working
      PROVE  WorksAt(q, a, L)' <=> WorksAt(q, a, L)
  <2>1. ASSUME NEW x \in Proc
        PROVE  /\ loc'[x] \in L <=> loc[x] \in L
               /\ loc[x] \in L => pagetable'[x] = pagetable[x] /\ va'[x] = va[x]
    BY Zenon DEF Still, Calm
  <2>2. QED
    BY Zenon, <2>1 DEF WorksAt
<1>3. ASSUME NEW q \in Proc, NEW a \in VA
      PROVE  /\ Dying(q, a)' <=> Dying(q, a)
             /\ WorksAt(q, a, {"copy_ref"})' <=> WorksAt(q, a, {"copy_ref"})
  <2>1. /\ {"push", "clear", "cow_map"} \in SUBSET Working
        /\ {"copy_ref"} \in SUBSET Working
    BY Zenon DEF Working
  <2>2. QED
    BY Zenon, <1>2, <2>1 DEF Dying
<1>4. ASSUME NEW g \in Page, NEW q \in Proc, NEW a \in VA
      PROVE  /\ MapsTo(q, a, g)' <=> MapsTo(q, a, g)
             /\ Counts(q, a, g)' <=> Counts(q, a, g)
             /\ MapsTo(q, a, g) => (pte'[q][a].w => pte[q][a].w)
  <2>1. MapsTo(q, a, g)' <=> MapsTo(q, a, g)
    BY Zenon, <1>3 DEF MapsTo
  <2>2. QED
    BY Zenon, <1>3, <2>1 DEF Counts, MapsTo
<1>5. ASSUME NEW g \in Page PROVE Good(g)'
  <2>1. Good(g) /\ ref_cnt'[g] = ref_cnt[g] /\ (g \in freelist' <=> g \in freelist)
    BY Zenon DEF Refs
  <2>2. QED
    BY Zenon, <1>1, <1>4, <2>1, PageSame
<1>6. QED
  BY Zenon, <1>5 DEF Refs

\* Most steps of p go from and to places where p holds no page.
LEMMA CalmStep ==
  ASSUME NEW x \in Proc, new'[x] = new[x],
         loc[x] \notin Working \cup {"cow_copy", "grow_map", "kfree", "incref"},
         loc'[x] \notin Working \cup {"cow_copy", "grow_map", "kfree", "incref"}
  PROVE  Calm(x)
  BY Zenon DEF Calm, Working, Carries, Transfers

\* The quiet steps that only change the variables of p.
LEMMA QuietOwn ==
  ASSUME Refs, NEW p \in Proc, Calm(p), UNCHANGED <<freelist, ref_cnt, pte>>,
         \A x \in Proc : x # p => Still(x)
  PROVE  Refs'
  BY Zenon, QuietStep

-----------------------------------------------------------------------------
\* A process whose page fault needs a copy calls kalloc.
LEMMA FaultRefs ==
  ASSUME Control, Refs, NEW p \in Proc, NEW a \in VA, loc[p] = "user",
         va' = [va EXCEPT ![p] = a], CallKalloc(p, "cow_copy"),
         UNCHANGED <<freelist, ref_cnt, pte, sz, pagetable, end, after, r, new>>
  PROVE  Refs'
<1>1. loc' = [loc EXCEPT ![p] = "kalloc"] /\ ret' = [ret EXCEPT ![p] = "cow_copy"]
  BY Zenon DEF CallKalloc, Goes
<1>2. loc'[p] = "kalloc" /\ \A x \in Proc : x # p => Still(x)
  BY <1>1 DEF Still, Control, Typed
<1>3. Calm(p)
  BY Zenon, <1>2, CalmStep DEF Working
<1>4. QED
  BY Zenon, <1>2, <1>3, QuietOwn

\* A process exits.
LEMMA ExitRefs ==
  ASSUME Control, Refs, NEW p \in Proc, loc[p] = "user", Goes(p, Exited(p)),
         UNCHANGED <<freelist, ref_cnt, pte, sz, pagetable, va, end, after, r, ret, new>>
  PROVE  Refs'
<1>1. PICK l \in {"halt", "zombie"} : loc' = [loc EXCEPT ![p] = l]
  BY Zenon DEF Exited, Goes
<1>2. loc'[p] = l /\ \A x \in Proc : x # p => Still(x)
  BY <1>1 DEF Still, Control, Typed
<1>3. Calm(p)
  BY Zenon, <1>1, <1>2, CalmStep DEF Working
<1>4. QED
  BY Zenon, <1>2, <1>3, QuietOwn

\* The page that p holds is copied; it is walkcowaddr's now.
LEMMA CowCopyRefs ==
  ASSUME CowAssumption, Control, Refs, NEW p \in Proc, CowCopy(p) PROVE Refs'
<1>1. /\ loc[p] = "cow_copy" /\ r[p] # NoPage
      /\ UNCHANGED <<freelist, ref_cnt, pte, sz, pagetable, va, end, after>>
  BY Zenon DEF CowCopy, At, loop
<1>2. /\ loc' = [loc EXCEPT ![p] = "kfree"] /\ ret' = [ret EXCEPT ![p] = "cow_map"]
      /\ new' = [new EXCEPT ![p] = r[p]] /\ r' = [r EXCEPT ![p] = pte[p][va[p]].pa]
  BY Zenon DEF CowCopy, CallKfree, Goes
<1>3. /\ loc'[p] = "kfree" /\ ret'[p] = "cow_map" /\ new'[p] = r[p]
      /\ \A x \in Proc : x # p => Still(x)
  BY <1>1, <1>2 DEF Still, Control, Typed
<1>4. new[p] \notin Page
  BY Zenon, <1>1, Here DEF Local, Place, Calling
<1>5. Calm(p)
  BY Zenon, <1>1, <1>3, <1>4 DEF Calm, Working, Carries, Transfers
<1>6. QED
  BY Zenon, <1>1, <1>3, <1>5, QuietOwn

\* There is no page.
LEMMA CowFailRefs ==
  ASSUME CowAssumption, Control, Refs, NEW p \in Proc, CowFail(p) PROVE Refs'
<1>1. /\ loc[p] = "cow_copy" /\ r[p] = NoPage
      /\ UNCHANGED <<freelist, ref_cnt, pte, sz, pagetable, end, after>>
      /\ UNCHANGED <<r, ret, new>> /\ va' = [va EXCEPT ![p] = 0]
  BY Zenon DEF CowFail, At
<1>2. PICK l \in {"user", "halt", "zombie"} : loc' = [loc EXCEPT ![p] = l]
  BY Zenon DEF CowFail, Goes, Exited
<1>3. loc'[p] = l /\ \A x \in Proc : x # p => Still(x)
  BY <1>1, <1>2 DEF Still, Control, Typed
<1>4. Calm(p)
  BY Zenon, <1>1, <1>2, <1>3 DEF Calm, Working, Carries, Transfers, CowAssumption
<1>5. QED
  BY Zenon, <1>1, <1>3, <1>4, QuietOwn

\* uvmunmap is about to free a page.
LEMMA UnmapRefs ==
  ASSUME Control, Refs, NEW p \in Proc, Unmap(p) PROVE Refs'
<1>1. loc[p] = "unmap" /\ UNCHANGED <<freelist, ref_cnt, pte, sz, pagetable, va, end, after, new>>
  BY Zenon DEF Unmap, At, loop
<1>2. /\ loc' = [loc EXCEPT ![p] = "kfree"] /\ ret' = [ret EXCEPT ![p] = "clear"]
      /\ r' = [r EXCEPT ![p] = pte[pagetable[p]][va[p]].pa]
  BY Zenon DEF Unmap, CallKfree, Goes
<1>3. /\ loc'[p] = "kfree" /\ ret'[p] = "clear" /\ \A x \in Proc : x # p => Still(x)
  BY <1>1, <1>2 DEF Still, Control, Typed
<1>4. Calm(p)
  BY Zenon, <1>1, <1>3 DEF Calm, Working, Carries, Transfers
<1>5. QED
  BY Zenon, <1>1, <1>3, <1>4, QuietOwn

\* uvmunmap is done.
LEMMA UnmappedRefs ==
  ASSUME Control, Refs, NEW p \in Proc, Unmapped(p) PROVE Refs'
<1>1. PICK q \in Proc : q = pagetable[p]
  BY Zenon, Here
<1>2. /\ loc[p] = "unmap" /\ UNCHANGED <<freelist, ref_cnt, pte, r, ret, new>>
      /\ loc' = [loc EXCEPT ![q] = "unused", ![p] = after[p]]
      /\ sz' = IF after[p] = "unused" THEN [sz EXCEPT ![p] = 0] ELSE sz
      /\ pagetable' = [pagetable EXCEPT ![p] = p] /\ va' = [va EXCEPT ![p] = 0]
      /\ end' = [end EXCEPT ![p] = 0] /\ after' = [after EXCEPT ![p] = "user"]
  BY Zenon, <1>1 DEF Unmapped, At
<1>3. after[p] \in {"user", "unused"} /\ (q # p => loc[q] = "embryo")
  BY Zenon, <1>1, Here DEF Pair
<1>4. ASSUME NEW x \in Proc, x \notin {p, q} PROVE Still(x)
  BY <1>2, <1>4 DEF Still, Control, Typed
<1>5. loc'[p] = after[p] /\ (q # p => loc'[q] = "unused")
  BY <1>2 DEF Control, Typed
<1>6. Calm(p) /\ Calm(q)
  BY Zenon, <1>2, <1>3, <1>5, CalmStep DEF Working
<1>7. QED
  BY Zenon, <1>2, <1>4, <1>6, QuietStep

\* growproc.
LEMMA ShrinkRefs ==
  ASSUME Control, Refs, NEW p \in Proc, NEW n \in 0 .. NVA, Shrink(p, n) PROVE Refs'
<1>1. /\ loc[p] = "user" /\ UNCHANGED <<freelist, ref_cnt, pte, r, ret, new>>
      /\ loc' = [loc EXCEPT ![p] = "unmap"] /\ sz' = [sz EXCEPT ![p] = n]
      /\ pagetable' = [pagetable EXCEPT ![p] = p] /\ va' = [va EXCEPT ![p] = n]
      /\ end' = [end EXCEPT ![p] = sz[p]] /\ after' = [after EXCEPT ![p] = "user"]
  BY Zenon DEF Shrink, CallUnmap, Goes, At
<1>2. loc'[p] = "unmap" /\ \A x \in Proc : x # p => Still(x)
  BY <1>1 DEF Still, Control, Typed
<1>3. Calm(p)
  BY Zenon, <1>1, <1>2, CalmStep DEF Working
<1>4. QED
  BY Zenon, <1>1, <1>2, <1>3, QuietOwn

\* uvmalloc begins ...
LEMMA GrowRefs ==
  ASSUME Control, Refs, NEW p \in Proc, NEW n \in 0 .. NVA, Grow(p, n) PROVE Refs'
<1>1. /\ loc[p] = "user" /\ UNCHANGED <<freelist, ref_cnt, pte, sz, pagetable, after, r, ret, new>>
      /\ loc' = [loc EXCEPT ![p] = "grow"] /\ va' = [va EXCEPT ![p] = sz[p]]
      /\ end' = [end EXCEPT ![p] = n]
  BY Zenon DEF Grow, Goes, At
<1>2. loc'[p] = "grow" /\ \A x \in Proc : x # p => Still(x)
  BY <1>1 DEF Still, Control, Typed
<1>3. Calm(p)
  BY Zenon, <1>1, <1>2, CalmStep DEF Working
<1>4. QED
  BY Zenon, <1>1, <1>2, <1>3, QuietOwn

\* ... goes round its loop ...
LEMMA GrowLoopRefs ==
  ASSUME Control, Refs, NEW p \in Proc, GrowLoop(p) PROVE Refs'
<1>1. loc[p] = "grow" /\ UNCHANGED <<freelist, ref_cnt, pte, pagetable, after, r, new>>
  BY Zenon DEF GrowLoop, At
<1>2. loc'[p] \in {"kalloc", "user"} /\ \A x \in Proc : x # p => Still(x)
  <2>1. CASE CallKalloc(p, "grow_map") /\ UNCHANGED <<sz, va, end>>
    <3>1. loc' = [loc EXCEPT ![p] = "kalloc"] /\ ret' = [ret EXCEPT ![p] = "grow_map"]
      BY Zenon, <2>1 DEF CallKalloc, Goes
    <3>2. QED
      BY <1>1, <2>1, <3>1 DEF Still, Control, Typed
  <2>2. CASE /\ sz' = [sz EXCEPT ![p] = end[p]] /\ va' = [va EXCEPT ![p] = 0]
             /\ end' = [end EXCEPT ![p] = 0] /\ Goes(p, "user") /\ UNCHANGED ret
    BY <1>1, <2>2 DEF Still, Control, Typed, Goes
  <2>3. QED
    BY Zenon, <2>1, <2>2 DEF GrowLoop
<1>3. Calm(p)
  BY Zenon, <1>1, <1>2, CalmStep DEF Working
<1>4. QED
  BY Zenon, <1>1, <1>2, <1>3, QuietOwn

\* ... fails to map the page that p holds ...
LEMMA GrowMapFailRefs ==
  ASSUME Control, Refs, NEW p \in Proc, GrowMapFail(p) PROVE Refs'
<1>1. /\ loc[p] = "grow_map"
      /\ UNCHANGED <<freelist, ref_cnt, pte, sz, pagetable, va, end, after, new>>
      /\ loc' = [loc EXCEPT ![p] = "kfree"] /\ r' = [r EXCEPT ![p] = r[p]]
      /\ ret' = [ret EXCEPT ![p] = "grow_undo"]
  BY Zenon DEF GrowMapFail, At, loop, CallKfree, Goes
<1>2. /\ loc'[p] = "kfree" /\ ret'[p] = "grow_undo" /\ r'[p] = r[p]
      /\ \A x \in Proc : x # p => Still(x)
  BY <1>1 DEF Still, Control, Typed
<1>3. Calm(p)
  BY Zenon, <1>1, <1>2 DEF Calm, Working, Carries, Transfers
<1>4. QED
  BY Zenon, <1>1, <1>2, <1>3, QuietOwn

\* ... or gives back what it mapped.
LEMMA GrowUndoRefs ==
  ASSUME CowAssumption, Control, Refs, NEW p \in Proc, GrowUndo(p) PROVE Refs'
<1>1. /\ loc[p] = "grow_undo" \/ (loc[p] = "grow_map" /\ r[p] = NoPage)
      /\ UNCHANGED <<freelist, ref_cnt, pte, sz, ret, new>>
      /\ loc' = [loc EXCEPT ![p] = "unmap"] /\ r' = [r EXCEPT ![p] = NoPage]
      /\ pagetable' = [pagetable EXCEPT ![p] = p] /\ va' = [va EXCEPT ![p] = sz[p]]
      /\ end' = [end EXCEPT ![p] = va[p]] /\ after' = [after EXCEPT ![p] = "user"]
  BY Zenon DEF GrowUndo, CallUnmap, Goes, At
<1>2. loc'[p] = "unmap" /\ \A x \in Proc : x # p => Still(x)
  BY <1>1 DEF Still, Control, Typed
<1>3. Calm(p)
  BY Zenon, <1>1, <1>2 DEF Calm, Working, Carries, Transfers, CowAssumption
<1>4. QED
  BY Zenon, <1>1, <1>2, <1>3, QuietOwn

\* wait begins to free the memory of a zombie.
LEMMA ReapRefs ==
  ASSUME Control, Refs, NEW p \in Proc, Reap(p) PROVE Refs'
<1>1. /\ loc[p] = "zombie" /\ UNCHANGED <<freelist, ref_cnt, pte, sz, r, ret, new>>
      /\ loc' = [loc EXCEPT ![p] = "unmap"]
      /\ pagetable' = [pagetable EXCEPT ![p] = p] /\ va' = [va EXCEPT ![p] = 0]
      /\ end' = [end EXCEPT ![p] = sz[p]] /\ after' = [after EXCEPT ![p] = "unused"]
  BY Zenon DEF Reap, CallUnmap, Goes, At
<1>2. loc'[p] = "unmap" /\ \A x \in Proc : x # p => Still(x)
  BY <1>1 DEF Still, Control, Typed
<1>3. Calm(p)
  BY Zenon, <1>1, <1>2, CalmStep DEF Working
<1>4. QED
  BY Zenon, <1>1, <1>2, <1>3, QuietOwn

\* fork takes a slot for the child ...
LEMMA ForkRefs ==
  ASSUME Control, Refs, NEW p \in Proc, NEW q \in Proc \ {p}, Fork(p, q) PROVE Refs'
<1>1. /\ loc[p] = "user" /\ loc[q] = "unused"
      /\ UNCHANGED <<freelist, ref_cnt, pte, sz, va, end, after, r, ret, new>>
      /\ loc' = [loc EXCEPT ![p] = "copy", ![q] = "embryo"]
      /\ pagetable' = [pagetable EXCEPT ![p] = q]
  BY Zenon DEF Fork, At
<1>2. /\ loc'[p] = "copy" /\ loc'[q] = "embryo" /\ \A x \in Proc : x \notin {p, q} => Still(x)
  BY <1>1 DEF Still, Control, Typed
<1>3. Calm(p) /\ Calm(q)
  BY Zenon, <1>1, <1>2, CalmStep DEF Working
<1>4. QED
  BY Zenon, <1>1, <1>2, <1>3, QuietStep

\* ... and makes it runnable.
LEMMA ForkDoneRefs ==
  ASSUME Control, Refs, NEW p \in Proc, ForkDone(p) PROVE Refs'
<1>1. PICK q \in Proc : q = pagetable[p]
  BY Zenon, Here
<1>2. /\ loc[p] = "copy" /\ UNCHANGED <<freelist, ref_cnt, pte, end, after, r, ret, new>>
      /\ loc' = [loc EXCEPT ![p] = "user", ![q] = "user"] /\ sz' = [sz EXCEPT ![q] = sz[p]]
      /\ pagetable' = [pagetable EXCEPT ![p] = p] /\ va' = [va EXCEPT ![p] = 0]
  BY Zenon, <1>1 DEF ForkDone, At
<1>3. q # p => loc[q] = "embryo"
  BY Zenon, <1>1, Here DEF Pair
<1>4. loc'[p] = "user" /\ loc'[q] = "user" /\ \A x \in Proc : x \notin {p, q} => Still(x)
  BY <1>2 DEF Still, Control, Typed
<1>5. Calm(p) /\ Calm(q)
  BY Zenon, <1>2, <1>3, <1>4, CalmStep DEF Working
<1>6. QED
  BY Zenon, <1>2, <1>4, <1>5, QuietStep

\* mappages fails: the parent keeps its page, which it cannot write now.
LEMMA CopyFailRefs ==
  ASSUME CowAssumption, Control, Refs, NEW p \in Proc, CopyFail(p) PROVE Refs'
<1>1. /\ loc[p] = "copy" /\ va[p] < sz[p] /\ UNCHANGED <<freelist, ref_cnt, sz, r, ret, new>>
      /\ loc' = [loc EXCEPT ![p] = "unmap"] /\ pagetable' = [pagetable EXCEPT ![p] = pagetable[p]]
      /\ va' = [va EXCEPT ![p] = 0] /\ end' = [end EXCEPT ![p] = va[p]]
      /\ after' = [after EXCEPT ![p] = "user"]
      /\ pte' = [pte EXCEPT ![p][va[p]] = CowPte(@)]
  BY Zenon DEF CopyFail, CallUnmap, Goes, At
<1>2. va[p] \in VA
  BY <1>1, Sizes DEF VA
<1>3. pte[p][va[p]] \in PTE /\ pte[p][va[p]] # NoPte
  BY Zenon, <1>1, <1>2, CopyingFacts, Here DEF Copying
<1>4. /\ CowPte(pte[p][va[p]]) \in PTE /\ ~ CowPte(pte[p][va[p]]).w
      /\ CowPte(pte[p][va[p]]).pa = pte[p][va[p]].pa
  BY Zenon, <1>3 DEF CowPte, PTE
<1>5. /\ pte'[p][va[p]] = CowPte(pte[p][va[p]])
      /\ \A q \in Proc, a \in VA : ~ (q = p /\ a = va[p]) => pte'[q][a] = pte[q][a]
  <2>1. /\ pte' = [pte EXCEPT ![p][va[p]] = CowPte(@)]
        /\ pte \in [Proc -> [VA -> PTE \cup {NoPte}]]
    BY Zenon, <1>1 DEF Control, Typed
  <2>2. QED
    BY <1>2, <2>1
<1>6. loc'[p] = "unmap" /\ \A x \in Proc : x # p => Still(x)
  BY <1>1 DEF Still, Control, Typed
<1>7. Calm(p)
  BY Zenon, <1>1, <1>6, CalmStep DEF Working
<1>8. ASSUME NEW q \in Proc, NEW a \in VA
      PROVE  /\ pte'[q][a] # NoPte <=> pte[q][a] # NoPte
             /\ pte[q][a] # NoPte => /\ pte'[q][a].pa = pte[q][a].pa
                                     /\ pte'[q][a].w => pte[q][a].w
  <2>1. NoPte \notin PTE
    BY Zenon DEF CowAssumption
  <2>2. CASE q = p /\ a = va[p]
    BY Zenon, <2>1, <2>2, <1>3, <1>4, <1>5
  <2>3. CASE ~ (q = p /\ a = va[p])
    <3>1. pte'[q][a] = pte[q][a]
      BY Zenon, <2>3, <1>5
    <3>2. QED
      BY Zenon, <3>1
  <2>4. QED
    BY Zenon, <2>2, <2>3
<1>9. QED
  BY Zenon, <1>1, <1>6, <1>7, <1>8, QuietStep

\* uvmclear changes nothing but who may use the page.
LEMMA UvmclearRefs ==
  ASSUME CowAssumption, Control, Refs, NEW p \in Proc, NEW b \in VA, Uvmclear(p, b) PROVE Refs'
<1>1. /\ pte[p][b] # NoPte /\ UNCHANGED <<freelist, ref_cnt, sz, loc, pagetable, va, end, after>>
      /\ UNCHANGED <<r, ret, new>> /\ pte' = [pte EXCEPT ![p][b].u = FALSE]
  BY Zenon DEF Uvmclear, kvars, loop
<1>2. pte[p][b] \in PTE
  BY Zenon, <1>1, Here
<1> DEFINE e == [pte[p][b] EXCEPT !.u = FALSE]
<1>3. e \in PTE /\ e.w = pte[p][b].w /\ e.pa = pte[p][b].pa
  BY Zenon, <1>2 DEF PTE
<1>4. /\ pte'[p][b] = e
      /\ \A q \in Proc, a \in VA : <<q, a>> # <<p, b>> => pte'[q][a] = pte[q][a]
  BY Zenon, <1>1 DEF Control, Typed
<1> HIDE DEF e
<1>5. ASSUME NEW q \in Proc, NEW a \in VA
      PROVE  /\ pte'[q][a] # NoPte <=> pte[q][a] # NoPte
             /\ pte[q][a] # NoPte => /\ pte'[q][a].pa = pte[q][a].pa
                                     /\ pte'[q][a].w => pte[q][a].w
  BY Zenon, <1>1, <1>3, <1>4 DEF CowAssumption
<1>6. \A x \in Proc : Still(x)
  BY Zenon, <1>1 DEF Still
<1>7. QED
  BY Zenon, <1>1, <1>5, <1>6, QuietStep

-----------------------------------------------------------------------------
\* What other processes hold.
LEMMA OthersHold ==
  ASSUME NEW x \in Proc, Still(x), NEW h
  PROVE  /\ Carries(x, h)' <=> Carries(x, h)
         /\ Transfers(x, h)' <=> Transfers(x, h)
  BY Zenon DEF Still, Carries, Transfers

\* Who holds a page now, and who will.
LEMMA HeldBy ==
  ASSUME NEW h
  PROVE  \A x \in Proc : /\ x \in Carriers(h) <=> Carries(x, h)
                         /\ x \in InTransit(h) <=> Transfers(x, h)
<1>1. /\ Carriers(h) = {x \in Proc : Carries(x, h)}
      /\ InTransit(h) = {x \in Proc : Transfers(x, h)}
  BY Zenon, Members
<1>2. QED
  BY Zenon, <1>1

\* The same in the next state, when nobody does or p alone.
LEMMA HeldNext ==
  ASSUME NEW h, NEW p \in Proc
  PROVE  /\ (\A x \in Proc : ~ Carries(x, h)') => Carriers(h)' = {}
         /\ (\A x \in Proc : Carries(x, h)' <=> x = p) => Carriers(h)' = {p}
         /\ (\A x \in Proc : ~ Transfers(x, h)') => InTransit(h)' = {}
         /\ (\A x \in Proc : Transfers(x, h)' <=> x = p) => InTransit(h)' = {p}
<1>1. /\ Carriers(h)' = {x \in Proc : Carries(x, h)'}
      /\ InTransit(h)' = {x \in Proc : Transfers(x, h)'}
  BY Zenon, MembersNext
<1>2. /\ (\A x \in Proc : ~ Carries(x, h)') => {x \in Proc : Carries(x, h)'} = {}
      /\ (\A x \in Proc : Carries(x, h)' <=> x = p) => {x \in Proc : Carries(x, h)'} = {p}
      /\ (\A x \in Proc : ~ Transfers(x, h)') => {x \in Proc : Transfers(x, h)'} = {}
      /\ (\A x \in Proc : Transfers(x, h)' <=> x = p) => {x \in Proc : Transfers(x, h)'} = {p}
  BY Zenon
<1>3. QED
  BY Zenon, <1>1, <1>2

\* Where p works on PTEs, by the sets of places that matter.
LEMMA Dies ==
  ASSUME Control, NEW p \in Proc, loc[p] # "embryo", NEW q \in Proc, q = pagetable[p],
         pagetable'[p] = q, \A x \in Proc : x # p => Still(x)
  PROVE  /\ \A a \in VA : Dying(q, a) <=> va[p] = a /\ loc[p] \in {"push", "clear", "cow_map"}
         /\ \A a \in VA : Dying(q, a)' <=> va'[p] = a /\ loc'[p] \in {"push", "clear", "cow_map"}
         /\ \A a \in VA : WorksAt(q, a, {"copy_ref"}) <=> va[p] = a /\ loc[p] = "copy_ref"
         /\ \A a \in VA : WorksAt(q, a, {"copy_ref"})' <=> va'[p] = a /\ loc'[p] = "copy_ref"
         /\ \A z \in Proc, a \in VA : z # q =>
              /\ Dying(z, a)' <=> Dying(z, a)
              /\ WorksAt(z, a, {"copy_ref"})' <=> WorksAt(z, a, {"copy_ref"})
<1> DEFINE D == {"push", "clear", "cow_map"}
<1>1. "embryo" \notin D /\ "embryo" \notin {"copy_ref"}
  BY Zenon
<1>2. /\ \A a \in VA : WorksAt(q, a, D) <=> va[p] = a /\ loc[p] \in D
      /\ \A a \in VA : WorksAt(q, a, D)' <=> va'[p] = a /\ loc'[p] \in D
      /\ \A z \in Proc, a \in VA : z # q => (WorksAt(z, a, D)' <=> WorksAt(z, a, D))
  <2> HIDE DEF D
  <2>1. QED
    BY Zenon, <1>1, Works
<1>3. /\ \A a \in VA : WorksAt(q, a, {"copy_ref"}) <=> va[p] = a /\ loc[p] \in {"copy_ref"}
      /\ \A a \in VA : WorksAt(q, a, {"copy_ref"})' <=> va'[p] = a /\ loc'[p] \in {"copy_ref"}
      /\ \A z \in Proc, a \in VA :
           z # q => (WorksAt(z, a, {"copy_ref"})' <=> WorksAt(z, a, {"copy_ref"}))
  BY Zenon, <1>1, Works
<1>4. QED
  BY Zenon, <1>2, <1>3 DEF Dying

\* PTEs of p's page table are as they were if p does not work on one.
LEMMA MapsSame ==
  ASSUME Control, NEW p \in Proc, loc[p] # "embryo", loc[p] \notin Working, loc'[p] \notin Working,
         UNCHANGED <<pte, pagetable>>, \A x \in Proc : x # p => Still(x)
  PROVE  \A h \in Page, z \in Proc, a \in VA :
           /\ MapsTo(z, a, h)' <=> MapsTo(z, a, h)
           /\ Counts(z, a, h)' <=> Counts(z, a, h)
           /\ pte'[z][a].w => pte[z][a].w
<1>1. PICK q \in Proc : q = pagetable[p]
  BY Zenon, Here
<1>2. ASSUME NEW z \in Proc, NEW a \in VA
      PROVE  /\ Dying(z, a)' <=> Dying(z, a)
             /\ WorksAt(z, a, {"copy_ref"})' <=> WorksAt(z, a, {"copy_ref"})
  BY Zenon, <1>1, Dies DEF Working
<1>3. ASSUME NEW h \in Page, NEW z \in Proc, NEW a \in VA
      PROVE  /\ MapsTo(z, a, h)' <=> MapsTo(z, a, h)
             /\ Counts(z, a, h)' <=> Counts(z, a, h)
             /\ pte'[z][a].w => pte[z][a].w
  <2>1. MapsTo(z, a, h)' <=> MapsTo(z, a, h)
    BY Zenon, <1>2 DEF MapsTo
  <2>2. QED
    BY Zenon, <1>2, <2>1 DEF Counts
<1>4. QED
  BY Zenon, <1>3

\* kalloc takes a page from the free list, or fails.
LEMMA KallocRefs ==
  ASSUME CowAssumption, Counting, Control, Refs, NEW p \in Proc, Kalloc(p) PROVE Refs'
<1>1. /\ loc[p] = "kalloc" /\ ret[p] \in {"cow_copy", "grow_map"}
      /\ UNCHANGED <<ref_cnt, pte, sz, pagetable, va, end, after, new>>
  BY Zenon, Here DEF Kalloc, At, Local, loop
<1>2. CASE /\ UNCHANGED freelist /\ r' = [r EXCEPT ![p] = NoPage]
           /\ loc' = [loc EXCEPT ![p] = ret[p]] /\ ret' = [ret EXCEPT ![p] = "user"]
  <2>1. /\ loc'[p] = ret[p] /\ r'[p] = NoPage /\ \A x \in Proc : x # p => Still(x)
    BY <1>1, <1>2 DEF Still, Control, Typed
  <2>2. Calm(p)
    BY Zenon, <1>1, <2>1 DEF Calm, Working, Carries, Transfers, CowAssumption
  <2>3. QED
    BY Zenon, <1>1, <1>2, <2>1, <2>2, QuietOwn
<1>3. CASE \E g \in freelist : /\ freelist' = freelist \ {g} /\ r' = [r EXCEPT ![p] = g]
                               /\ loc' = [loc EXCEPT ![p] = "incref"] /\ UNCHANGED ret
  <2>1. PICK g \in freelist : /\ freelist' = freelist \ {g} /\ r' = [r EXCEPT ![p] = g]
                              /\ loc' = [loc EXCEPT ![p] = "incref"] /\ UNCHANGED ret
    BY Zenon, <1>3
  <2>2. g \in Page /\ Good(g)
    BY Zenon DEF Control, Typed, Refs
  <2>3. /\ loc'[p] = "incref" /\ r'[p] = g /\ \A x \in Proc : x # p => Still(x)
    BY <1>1, <2>1 DEF Still, Control, Typed
  <2>4. \A h \in Page, z \in Proc, a \in VA : /\ MapsTo(z, a, h)' <=> MapsTo(z, a, h)
                                              /\ Counts(z, a, h)' <=> Counts(z, a, h)
                                              /\ pte'[z][a].w => pte[z][a].w
    BY Zenon, <1>1, <2>3, MapsSame DEF Working
  <2>5. ASSUME NEW h \in Page
        PROVE  /\ Carries(p, h)' <=> Carries(p, h)
               /\ Transfers(p, h)' <=> h = g /\ ~ Transfers(p, h)
               /\ ~ Transfers(p, h)
    BY Zenon, <1>1, <2>3 DEF Carries, Transfers
  <2>6. ASSUME NEW h \in Page, h # g PROVE Good(h)'
    <3>1. Good(h) /\ ref_cnt'[h] = ref_cnt[h] /\ (h \in freelist' <=> h \in freelist)
      BY Zenon, <1>1, <2>1, <2>6 DEF Refs
    <3>2. \A x \in Proc : /\ Carries(x, h)' <=> Carries(x, h)
                          /\ Transfers(x, h)' <=> Transfers(x, h)
      BY Zenon, <2>3, <2>5, <2>6, OthersHold
    <3>3. QED
      BY Zenon, <2>4, <3>1, <3>2, PageSame
  <2>7. Good(g)'
    <3>1. PTEs(g)' = PTEs(g) /\ Counted(g)' = Counted(g)
      BY Zenon, <2>2, <2>4, SetsSame
    <3>2. ref_cnt[g] = 0 /\ InTransit(g) = {}
      BY Zenon, <2>2 DEF Good
    <3>3. Carriers(g) = {} /\ PTEs(g) = {}
      BY Zenon, <2>2, <3>2, Unreferenced
    <3>4. \A x \in Proc : ~ Carries(x, g)' /\ (Transfers(x, g)' <=> x = p)
      BY Zenon, <2>2, <2>3, <2>5, <3>2, <3>3, OthersHold, HeldBy
    <3>5. Carriers(g)' = {} /\ InTransit(g)' = {p}
      BY Zenon, <3>4, HeldNext
    <3>6. g \notin freelist' /\ ref_cnt'[g] = ref_cnt[g]
      BY Zenon, <1>1, <2>1
    <3>7. QED
      BY Zenon, <2>2, <3>1, <3>2, <3>3, <3>5, <3>6 DEF Good
  <2>8. QED
    BY Zenon, <2>6, <2>7 DEF Refs
<1>4. QED
  BY Zenon, <1>2, <1>3 DEF Kalloc, Return, Goes

\* Then it counts its own reference.
LEMMA IncrefRefs ==
  ASSUME CowAssumption, Counting, Control, Refs, NEW p \in Proc, Increfcnt(p) PROVE Refs'
<1>1. /\ loc[p] = "incref" /\ ret[p] \in {"cow_copy", "grow_map"} /\ r[p] \in Page
      /\ new[p] \notin Page
      /\ UNCHANGED <<freelist, pte, sz, pagetable, va, end, after, r, new>>
      /\ loc' = [loc EXCEPT ![p] = ret[p]] /\ ret' = [ret EXCEPT ![p] = "user"]
      /\ ref_cnt' = [ref_cnt EXCEPT ![r[p]] = (@ + 1) % REFMOD]
  BY Zenon, Here DEF Increfcnt, At, Local, loop, Return, Goes, Place, Calling
<1>2. PICK g \in Page : g = r[p]
  BY Zenon, <1>1
<1>3. Good(g) /\ Transfers(p, g)
  BY Zenon, <1>1, <1>2 DEF Refs, Transfers
<1>4. ref_cnt[g] = 0 /\ InTransit(g) = {p} /\ g \notin freelist
  BY Zenon, <1>3, Transferred
<1>5. Counted(g) = {} /\ Carriers(g) = {} /\ PTEs(g) = {}
  BY Zenon, <1>3, <1>4, Unreferenced
<1>6. ref_cnt'[g] = (ref_cnt[g] + 1) % REFMOD /\ \A h \in Page : h # g => ref_cnt'[h] = ref_cnt[h]
  BY <1>1, <1>2 DEF Control, Typed
<1>7. ref_cnt'[g] = 1 /\ 1 < REFMOD
  <2>1. 1 % REFMOD = 1 /\ 1 < REFMOD
    BY DEF Counting
  <2>2. 0 + 1 = 1
    OBVIOUS
  <2>3. QED
    BY Zenon, <1>4, <1>6, <2>1, <2>2
<1>8. /\ loc'[p] = ret[p] /\ r'[p] = g /\ new'[p] = new[p] /\ \A x \in Proc : x # p => Still(x)
  BY <1>1, <1>2 DEF Still, Control, Typed
<1>9. \A h \in Page, z \in Proc, a \in VA : /\ MapsTo(z, a, h)' <=> MapsTo(z, a, h)
                                            /\ Counts(z, a, h)' <=> Counts(z, a, h)
                                            /\ pte'[z][a].w => pte[z][a].w
  BY Zenon, <1>1, <1>8, MapsSame DEF Working
<1>10. ASSUME NEW h \in Page
       PROVE  /\ Carries(p, h)' <=> h = g /\ ~ Carries(p, h)
              /\ ~ Carries(p, h)
              /\ ~ Transfers(p, h)'
              /\ Transfers(p, h) <=> h = g
  BY Zenon, <1>1, <1>2, <1>8 DEF Carries, Transfers
<1>11. ASSUME NEW h \in Page, h # g PROVE Good(h)'
  <2>1. Good(h) /\ ref_cnt'[h] = ref_cnt[h] /\ (h \in freelist' <=> h \in freelist)
    BY Zenon, <1>1, <1>6, <1>11 DEF Refs
  <2>2. \A x \in Proc : /\ Carries(x, h)' <=> Carries(x, h)
                        /\ Transfers(x, h)' <=> Transfers(x, h)
    BY Zenon, <1>8, <1>10, <1>11, OthersHold
  <2>3. QED
    BY Zenon, <1>9, <2>1, <2>2, PageSame
<1>12. Good(g)'
  <2>1. PTEs(g)' = {} /\ Counted(g)' = {}
    BY Zenon, <1>5, <1>9, SetsSame
  <2>2. ASSUME NEW x \in Proc PROVE (Carries(x, g)' <=> x = p) /\ ~ Transfers(x, g)'
    <3>1. ~ Carries(x, g) /\ (Transfers(x, g) => x = p)
      BY Zenon, <1>4, <1>5, HeldBy
    <3>2. QED
      BY Zenon, <1>8, <1>10, <3>1, OthersHold
  <2>3. Carriers(g)' = {p} /\ InTransit(g)' = {}
    BY Zenon, <2>2, HeldNext
  <2>4. Cardinality({}) = 0 /\ Cardinality({p}) = 1
    BY Zenon DEF Counting
  <2>5. 1 = 0 + 1 /\ 1 # 0
    OBVIOUS
  <2>6. g \notin freelist'
    BY Zenon, <1>1, <1>4
  <2>7. QED
    BY Zenon, <1>7, <2>1, <2>3, <2>4, <2>5, <2>6 DEF Good
<1>13. QED
  BY Zenon, <1>11, <1>12 DEF Refs

-----------------------------------------------------------------------------
\* A PTE less in the sets of a page.
LEMMA SetsDrop ==
  ASSUME NEW g, NEW x0,
         \A x \in Proc \X VA :
           /\ MapsTo(x[1], x[2], g)' <=> MapsTo(x[1], x[2], g) /\ x # x0
           /\ Counts(x[1], x[2], g)' <=> Counts(x[1], x[2], g) /\ x # x0
  PROVE  PTEs(g)' = PTEs(g) \ {x0} /\ Counted(g)' = Counted(g) \ {x0}
<1>1. /\ {x \in Proc \X VA : MapsTo(x[1], x[2], g)'}
           = {x \in Proc \X VA : MapsTo(x[1], x[2], g)} \ {x0}
      /\ {x \in Proc \X VA : Counts(x[1], x[2], g)'}
           = {x \in Proc \X VA : Counts(x[1], x[2], g)} \ {x0}
  BY Zenon
<1>2. /\ PTEs(g) = {x \in Proc \X VA : MapsTo(x[1], x[2], g)}
      /\ Counted(g) = {x \in Proc \X VA : Counts(x[1], x[2], g)}
  BY Zenon, Members
<1>3. /\ PTEs(g)' = {x \in Proc \X VA : MapsTo(x[1], x[2], g)'}
      /\ Counted(g)' = {x \in Proc \X VA : Counts(x[1], x[2], g)'}
  BY Zenon, MembersNext
<1>4. QED
  BY Zenon, <1>1, <1>2, <1>3

\* The same processes carry a page.
LEMMA CarriersSame ==
  ASSUME NEW g, \A x \in Proc : Carries(x, g)' <=> Carries(x, g)
  PROVE  Carriers(g)' = Carriers(g)
<1>1. {x \in Proc : Carries(x, g)'} = {x \in Proc : Carries(x, g)}
  BY Zenon
<1>2. Carriers(g) = {x \in Proc : Carries(x, g)} /\ Carriers(g)' = {x \in Proc : Carries(x, g)'}
  BY Zenon, Members, MembersNext
<1>3. QED
  BY Zenon, <1>1, <1>2

\* Removing one counted PTE from a page.
LEMMA DropOne ==
  ASSUME CowAssumption, Counting, Control, NEW g \in Page, Good(g), NEW x0 \in Counted(g),
         PTEs(g)' = PTEs(g) \ {x0}, Counted(g)' = Counted(g) \ {x0}, Carriers(g)' = Carriers(g),
         UNCHANGED pte, g \in freelist' <=> g \in freelist,
         ref_cnt'[g] = (ref_cnt[g] - 1) % REFMOD,
         ref_cnt'[g] # 0 => InTransit(g)' = {},
         ref_cnt'[g] = 0 => \E p \in Proc : InTransit(g)' = {p}
  PROVE  Good(g)'
<1>1. x0 \in PTEs(g) /\ PTEs(g) # {}
  BY Zenon, Pairs
<1>2. /\ Carriers(g) = {} /\ ref_cnt[g] = Cardinality(Counted(g)) /\ ref_cnt[g] # 0
      /\ Counted(g) \in SUBSET (Proc \X VA) /\ Cardinality(Counted(g)) \in Nat /\ g \notin freelist
  BY Zenon, <1>1, Shared
<1>3. Cardinality(Counted(g)') = Cardinality(Counted(g)) - 1
  <2>1. Cardinality(Counted(g) \ {x0}) = Cardinality(Counted(g)) - 1
    BY Zenon, <1>2, CountsOf
  <2>2. QED
    BY Zenon, <2>1
<1>4. ref_cnt[g] < REFMOD /\ REFMOD \in Nat
  BY Zenon DEF Good, Counting
<1>5. Cardinality(Carriers(g)') = 0
  BY Zenon, <1>2 DEF Counting
<1>6. ref_cnt'[g] = Cardinality(Counted(g)') + 0 /\ ref_cnt'[g] < REFMOD
  <2>1. \A c, m \in Nat : c # 0 /\ c < m => (c - 1) % m = c - 1 /\ c - 1 < m /\ c - 1 = (c - 1) + 0
    OBVIOUS
  <2>2. QED
    BY Zenon, <1>2, <1>3, <1>4, <2>1
<1>7. \A x, y \in PTEs(g)' : x[2] = y[2]
  BY Zenon DEF Good
<1>8. ASSUME NEW x \in PTEs(g)', pte'[x[1]][x[2]].w PROVE PTEs(g)' = {x}
  BY Zenon, <1>8 DEF Good
<1>9. /\ ref_cnt'[g] = Cardinality(Counted(g)') + Cardinality(Carriers(g)')
      /\ ref_cnt'[g] < REFMOD /\ g \notin freelist' /\ Carriers(g)' = {}
  BY Zenon, <1>2, <1>5, <1>6
<1>10. QED
  BY Zenon, <1>7, <1>8, <1>9 DEF Good

\* kfree: the PTE that gives up its page is not counted any more, and the last
\* one takes the page out of use.
LEMMA KfreeRefs ==
  ASSUME CowAssumption, Counting, Control, Refs, NEW p \in Proc, Kfree(p) PROVE Refs'
<1>1. /\ loc[p] = "kfree" /\ UNCHANGED <<freelist, pte, sz, pagetable, va, end, after, r, new>>
      /\ ref_cnt' = [ref_cnt EXCEPT ![r[p]] = (@ - 1) % REFMOD]
  BY Zenon DEF Kfree, At, loop
<1>2. PICK g \in Page, q \in Proc, a0 \in VA : g = r[p] /\ q = pagetable[p] /\ a0 = va[p]
  BY Zenon, <1>1, FreeingFacts, Here
<1>3. Good(g)
  BY Zenon DEF Refs
<1>4. ref_cnt'[g] = (ref_cnt[g] - 1) % REFMOD /\ \A h \in Page : h # g => ref_cnt'[h] = ref_cnt[h]
  BY <1>1, <1>2 DEF Control, Typed
<1>5. /\ ref_cnt'[g] # 0 => loc'[p] = ret[p]
      /\ ref_cnt'[g] = 0 => loc'[p] = "push"
      /\ \A x \in Proc : x # p => Still(x)
  <2>1. CASE ref_cnt'[g] # 0
    <3>1. loc' = [loc EXCEPT ![p] = ret[p]] /\ ret' = [ret EXCEPT ![p] = "user"]
      BY Zenon, <1>2, <2>1 DEF Kfree, Return, Goes
    <3>2. QED
      BY <1>1, <2>1, <3>1 DEF Still, Control, Typed
  <2>2. CASE ref_cnt'[g] = 0
    <3>1. loc' = [loc EXCEPT ![p] = "push"] /\ ret' = ret
      BY Zenon, <1>2, <2>2 DEF Kfree, Goes
    <3>2. QED
      BY <1>1, <2>2, <3>1 DEF Still, Control, Typed
  <2>3. QED
    BY Zenon, <2>1, <2>2
<1>6. /\ \A a \in VA : ~ Dying(q, a)
      /\ \A a \in VA : Dying(q, a)' <=> a0 = a /\ loc'[p] \in {"push", "clear", "cow_map"}
      /\ \A a \in VA : WorksAt(q, a, {"copy_ref"})' <=> va'[p] = a /\ loc'[p] = "copy_ref"
      /\ \A a \in VA : ~ WorksAt(q, a, {"copy_ref"})
      /\ \A z \in Proc, a \in VA : z # q =>
           /\ Dying(z, a)' <=> Dying(z, a)
           /\ WorksAt(z, a, {"copy_ref"})' <=> WorksAt(z, a, {"copy_ref"})
  <2>1. /\ \A a \in VA : Dying(q, a) <=> va[p] = a /\ loc[p] \in {"push", "clear", "cow_map"}
        /\ \A a \in VA : Dying(q, a)' <=> va'[p] = a /\ loc'[p] \in {"push", "clear", "cow_map"}
        /\ \A a \in VA : WorksAt(q, a, {"copy_ref"}) <=> va[p] = a /\ loc[p] = "copy_ref"
        /\ \A a \in VA : WorksAt(q, a, {"copy_ref"})' <=> va'[p] = a /\ loc'[p] = "copy_ref"
        /\ \A z \in Proc, a \in VA : z # q =>
             /\ Dying(z, a)' <=> Dying(z, a)
             /\ WorksAt(z, a, {"copy_ref"})' <=> WorksAt(z, a, {"copy_ref"})
    <3>1. loc[p] # "embryo" /\ pagetable'[p] = q
      BY Zenon, <1>1, <1>2
    <3>2. QED
      BY Zenon, <1>2, <1>5, <3>1, Dies
  <2>2. va'[p] = a0 /\ va[p] = a0
    BY Zenon, <1>1, <1>2
  <2>3. QED
    BY Zenon, <1>1, <2>1, <2>2
<1>7. \A a \in VA : ~ WorksAt(q, a, {"copy_ref"})'
  BY Zenon, <1>1, <1>5, <1>6, FreeingFacts
<1>8. ASSUME NEW h \in Page, NEW z \in Proc, NEW a \in VA, ~ (z = q /\ a = a0)
      PROVE  /\ MapsTo(z, a, h)' <=> MapsTo(z, a, h)
             /\ Counts(z, a, h)' <=> Counts(z, a, h)
  <2>1. /\ Dying(z, a)' <=> Dying(z, a)
        /\ WorksAt(z, a, {"copy_ref"})' <=> WorksAt(z, a, {"copy_ref"})
    BY Zenon, <1>6, <1>7, <1>8
  <2>2. QED
    BY Zenon, <1>1, <2>1 DEF MapsTo, Counts
<1>9. CASE ret[p] \in {"clear", "cow_map"}
  <2>1. pte[q][a0] # NoPte /\ pte[q][a0].pa = g
    BY Zenon, <1>1, <1>2, <1>9, FreeingFacts, Here DEF Argument
  <2>2. \A h \in Page : /\ MapsTo(q, a0, h) <=> h = g
                        /\ Counts(q, a0, h) <=> h = g
    BY Zenon, <2>1, <1>6 DEF MapsTo, Counts
  <2>3. loc'[p] \in {"push", "clear", "cow_map"}
    BY Zenon, <1>5, <1>9
  <2>4. \A h \in Page : ~ MapsTo(q, a0, h)' /\ ~ Counts(q, a0, h)'
    BY Zenon, <2>3, <1>6 DEF MapsTo, Counts
  <2>5. ASSUME NEW h \in Page
        PROVE  /\ Carries(p, h)' <=> Carries(p, h)
               /\ Transfers(p, h)' <=> h = g /\ loc'[p] = "push"
               /\ ~ Transfers(p, h)
    BY Zenon, <1>1, <1>2, <1>9, <2>3 DEF Carries, Transfers
  <2>6. ASSUME NEW h \in Page, h # g PROVE Good(h)'
    <3>1. Good(h) /\ ref_cnt'[h] = ref_cnt[h] /\ (h \in freelist' <=> h \in freelist)
      BY Zenon, <1>1, <1>4, <2>6 DEF Refs
    <3>2. \A x \in Proc : /\ Carries(x, h)' <=> Carries(x, h)
                          /\ Transfers(x, h)' <=> Transfers(x, h)
      BY Zenon, <1>5, <2>5, <2>6, OthersHold
    <3>3. ASSUME NEW z \in Proc, NEW a \in VA
          PROVE  /\ MapsTo(z, a, h)' <=> MapsTo(z, a, h)
                 /\ Counts(z, a, h)' <=> Counts(z, a, h)
                 /\ pte'[z][a].w => pte[z][a].w
      BY Zenon, <1>1, <1>8, <2>2, <2>4, <2>6
    <3>4. QED
      BY Zenon, <3>1, <3>2, <3>3, PageSame
  <2>7. Good(g)'
    <3>1. <<q, a0>> \in Counted(g) /\ <<q, a0>> \in PTEs(g)
      BY Zenon, <2>2, Pairs
    <3>2. /\ PTEs(g)' = PTEs(g) \ {<<q, a0>>} /\ Counted(g)' = Counted(g) \ {<<q, a0>>}
      <4>1. ASSUME NEW x \in Proc \X VA
            PROVE  /\ MapsTo(x[1], x[2], g)' <=> MapsTo(x[1], x[2], g) /\ x # <<q, a0>>
                   /\ Counts(x[1], x[2], g)' <=> Counts(x[1], x[2], g) /\ x # <<q, a0>>
        <5>1. x[1] \in Proc /\ x[2] \in VA /\ (x = <<q, a0>> <=> x[1] = q /\ x[2] = a0)
          OBVIOUS
        <5>2. CASE x[1] = q /\ x[2] = a0
          BY Zenon, <5>1, <5>2, <2>4
        <5>3. CASE ~ (x[1] = q /\ x[2] = a0)
          BY Zenon, <5>1, <5>3, <1>8
        <5>4. QED
          BY Zenon, <5>2, <5>3
      <4>2. QED
        BY Zenon, <4>1, SetsDrop
    <3>3. Carriers(g)' = Carriers(g)
      <4>1. \A x \in Proc : Carries(x, g)' <=> Carries(x, g)
        BY Zenon, <1>5, <2>5, OthersHold
      <4>2. QED
        BY Zenon, <4>1, CarriersSame
    <3>4. InTransit(g) = {}
      BY Zenon, <1>3, <3>1, Shared
    <3>5. \A x \in Proc : Transfers(x, g)' <=> x = p /\ loc'[p] = "push"
      BY Zenon, <1>5, <2>5, <3>4, OthersHold, HeldBy
    <3>6. /\ ref_cnt'[g] # 0 => InTransit(g)' = {}
          /\ ref_cnt'[g] = 0 => InTransit(g)' = {p}
      <4>1. ref_cnt'[g] # 0 => loc'[p] # "push"
        BY Zenon, <1>5, <1>9
      <4>2. QED
        BY Zenon, <1>5, <3>5, <4>1, HeldNext
    <3>7. QED
      BY Zenon, <1>1, <1>3, <1>4, <3>1, <3>2, <3>3, <3>6, DropOne
  <2>8. QED
    BY Zenon, <2>6, <2>7 DEF Refs
<1>10. CASE ret[p] = "grow_undo"
  <2>1. pte[q][a0] = NoPte /\ new[p] \notin Page
    BY Zenon, <1>1, <1>2, <1>10, FreeingFacts
  <2>2. Carries(p, g)
    BY Zenon, <1>1, <1>2, <1>10 DEF Carries
  <2>3. /\ Carriers(g) = {p} /\ PTEs(g) = {} /\ Counted(g) = {} /\ ref_cnt[g] = 1
        /\ g \notin freelist /\ InTransit(g) = {}
    BY Zenon, <1>3, <2>2, Held
  <2>4. ref_cnt'[g] = 0 /\ loc'[p] = "push" /\ 0 < REFMOD
    <3>1. (1 - 1) % REFMOD = 0 /\ 0 < REFMOD
      BY DEF Counting
    <3>2. QED
      BY Zenon, <1>4, <1>5, <2>3, <3>1
  <2>5. ASSUME NEW h \in Page, NEW z \in Proc, NEW a \in VA
        PROVE  /\ MapsTo(z, a, h)' <=> MapsTo(z, a, h)
               /\ Counts(z, a, h)' <=> Counts(z, a, h)
               /\ pte'[z][a].w => pte[z][a].w
    <3>1. CASE z = q /\ a = a0
      BY Zenon, <1>1, <2>1, <3>1 DEF MapsTo, Counts
    <3>2. CASE ~ (z = q /\ a = a0)
      BY Zenon, <1>1, <1>8, <3>2
    <3>3. QED
      BY Zenon, <3>1, <3>2
  <2>6. ASSUME NEW h \in Page
        PROVE  /\ ~ Carries(p, h)' /\ (Carries(p, h) <=> h = g)
               /\ Transfers(p, h)' <=> h = g
               /\ ~ Transfers(p, h)
    BY Zenon, <1>1, <1>2, <1>10, <2>1, <2>4 DEF Carries, Transfers
  <2>7. ASSUME NEW h \in Page, h # g PROVE Good(h)'
    <3>1. Good(h) /\ ref_cnt'[h] = ref_cnt[h] /\ (h \in freelist' <=> h \in freelist)
      BY Zenon, <1>1, <1>4, <2>7 DEF Refs
    <3>2. \A x \in Proc : /\ Carries(x, h)' <=> Carries(x, h)
                          /\ Transfers(x, h)' <=> Transfers(x, h)
      BY Zenon, <1>5, <2>6, <2>7, OthersHold
    <3>3. QED
      BY Zenon, <2>5, <3>1, <3>2, PageSame
  <2>8. Good(g)'
    <3>1. PTEs(g)' = {} /\ Counted(g)' = {}
      BY Zenon, <2>3, <2>5, SetsSame
    <3>2. \A x \in Proc : ~ Carries(x, g)' /\ (Transfers(x, g)' <=> x = p)
      BY Zenon, <1>5, <2>3, <2>6, OthersHold, HeldBy
    <3>3. Carriers(g)' = {} /\ InTransit(g)' = {p}
      BY Zenon, <3>2, HeldNext
    <3>4. Cardinality({}) = 0 /\ 0 = 0 + 0
      BY DEF Counting
    <3>5. g \notin freelist'
      BY Zenon, <1>1, <2>3
    <3>6. QED
      BY Zenon, <2>4, <3>1, <3>3, <3>4, <3>5 DEF Good
  <2>9. QED
    BY Zenon, <2>7, <2>8 DEF Refs
<1>11. QED
  BY Zenon, <1>1, <1>9, <1>10, FreeingFacts

-----------------------------------------------------------------------------
\* The page goes to the free list.
LEMMA PushRefs ==
  ASSUME CowAssumption, Counting, Control, Refs, NEW p \in Proc, Push(p) PROVE Refs'
<1>1. /\ loc[p] = "push" /\ UNCHANGED <<ref_cnt, pte, sz, pagetable, va, end, after, r, new>>
      /\ freelist' = freelist \cup {r[p]}
      /\ loc' = [loc EXCEPT ![p] = ret[p]] /\ ret' = [ret EXCEPT ![p] = "user"]
  BY Zenon DEF Push, At, loop, Return, Goes
<1>2. PICK g \in Page, q \in Proc, a0 \in VA : g = r[p] /\ q = pagetable[p] /\ a0 = va[p]
  BY Zenon, <1>1, FreeingFacts, Here
<1>3. Good(g) /\ Transfers(p, g)
  BY Zenon, <1>1, <1>2 DEF Refs, Transfers
<1>4. ref_cnt[g] = 0 /\ InTransit(g) = {p}
  BY Zenon, <1>3, Transferred
<1>5. loc'[p] = ret[p] /\ \A x \in Proc : x # p => Still(x)
  BY <1>1 DEF Still, Control, Typed
<1>6. /\ loc'[p] \in {"clear", "cow_map", "grow_undo"}
      /\ loc'[p] = "grow_undo" => pte[q][a0] = NoPte
  BY Zenon, <1>1, <1>2, <1>5, FreeingFacts
<1>7. /\ \A a \in VA : Dying(q, a) <=> va[p] = a /\ loc[p] \in {"push", "clear", "cow_map"}
      /\ \A a \in VA : Dying(q, a)' <=> va'[p] = a /\ loc'[p] \in {"push", "clear", "cow_map"}
      /\ \A a \in VA : WorksAt(q, a, {"copy_ref"}) <=> va[p] = a /\ loc[p] = "copy_ref"
      /\ \A a \in VA : WorksAt(q, a, {"copy_ref"})' <=> va'[p] = a /\ loc'[p] = "copy_ref"
      /\ \A z \in Proc, a \in VA : z # q =>
           /\ Dying(z, a)' <=> Dying(z, a)
           /\ WorksAt(z, a, {"copy_ref"})' <=> WorksAt(z, a, {"copy_ref"})
  <2>1. loc[p] # "embryo" /\ pagetable'[p] = q
    BY Zenon, <1>1, <1>2
  <2>2. QED
    BY Zenon, <1>2, <1>5, <2>1, Dies
<1>8. ASSUME NEW h \in Page, NEW z \in Proc, NEW a \in VA
      PROVE  /\ MapsTo(z, a, h)' <=> MapsTo(z, a, h)
             /\ Counts(z, a, h)' <=> Counts(z, a, h)
             /\ pte'[z][a].w => pte[z][a].w
  <2>1. va'[p] = a0 /\ va[p] = a0
    BY Zenon, <1>1, <1>2
  <2>2. WorksAt(z, a, {"copy_ref"})' <=> WorksAt(z, a, {"copy_ref"})
    BY Zenon, <1>1, <1>6, <1>7
  <2>3. pte[z][a] = NoPte \/ (Dying(z, a)' <=> Dying(z, a))
    <3>1. CASE z = q /\ a = a0
      BY Zenon, <1>1, <1>6, <1>7, <2>1, <3>1
    <3>2. CASE ~ (z = q /\ a = a0)
      BY Zenon, <1>7, <2>1, <3>2
    <3>3. QED
      BY Zenon, <3>1, <3>2
  <2>4. QED
    BY Zenon, <1>1, <2>2, <2>3 DEF MapsTo, Counts
<1>9. ASSUME NEW h \in Page
      PROVE  /\ Carries(p, h)' <=> Carries(p, h)
             /\ ~ Transfers(p, h)' /\ (Transfers(p, h) <=> h = g)
  BY Zenon, <1>1, <1>2, <1>6 DEF Carries, Transfers
<1>10. ASSUME NEW h \in Page, h # g PROVE Good(h)'
  <2>1. Good(h) /\ ref_cnt'[h] = ref_cnt[h] /\ (h \in freelist' <=> h \in freelist)
    BY Zenon, <1>1, <1>2, <1>10 DEF Refs
  <2>2. \A x \in Proc : /\ Carries(x, h)' <=> Carries(x, h)
                        /\ Transfers(x, h)' <=> Transfers(x, h)
    BY Zenon, <1>5, <1>9, <1>10, OthersHold
  <2>3. QED
    BY Zenon, <1>8, <2>1, <2>2, PageSame
<1>11. Good(g)'
  <2>1. Counted(g) = {} /\ Carriers(g) = {} /\ PTEs(g) = {}
    BY Zenon, <1>3, <1>4, Unreferenced
  <2>2. PTEs(g)' = PTEs(g) /\ Counted(g)' = Counted(g)
    BY Zenon, <1>8, SetsSame
  <2>3. \A x \in Proc : ~ Carries(x, g)' /\ ~ Transfers(x, g)'
    BY Zenon, <1>4, <1>5, <1>9, <2>1, OthersHold, HeldBy
  <2>4. Carriers(g)' = {} /\ InTransit(g)' = {}
    BY Zenon, <2>3, HeldNext
  <2>5. g \in freelist' /\ ref_cnt'[g] = ref_cnt[g]
    BY Zenon, <1>1, <1>2
  <2>6. QED
    BY Zenon, <1>3, <1>4, <2>1, <2>2, <2>4, <2>5 DEF Good
<1>12. QED
  BY Zenon, <1>10, <1>11 DEF Refs

\* uvmunmap clears the PTE whose page was given up.
LEMMA ClearRefs ==
  ASSUME CowAssumption, Control, Refs, NEW p \in Proc, Clear(p) PROVE Refs'
<1>1. /\ loc[p] = "clear" /\ UNCHANGED <<freelist, ref_cnt, sz, pagetable, end, after, ret, new>>
      /\ pte' = [pte EXCEPT ![pagetable[p]][va[p]] = NoPte]
      /\ va' = [va EXCEPT ![p] = @ + 1] /\ r' = [r EXCEPT ![p] = NoPage]
      /\ loc' = [loc EXCEPT ![p] = "unmap"]
  BY Zenon DEF Clear, At, Goes
<1>2. PICK q \in Proc : q = pagetable[p]
  BY Zenon, Here
<1>3. va[p] \in VA
  <2>1. va[p] < end[p]
    BY Zenon, <1>1, UnmappingFacts DEF Unmapping
  <2>2. QED
    BY <2>1, Sizes DEF VA
<1>4. PICK a0 \in VA : a0 = va[p]
  BY Zenon, <1>3
<1>5. loc'[p] = "unmap" /\ \A x \in Proc : x # p => Still(x)
  BY <1>1 DEF Still, Control, Typed
<1>6. /\ pte'[q][a0] = NoPte
      /\ \A z \in Proc, a \in VA : ~ (z = q /\ a = a0) => pte'[z][a] = pte[z][a]
  BY <1>1, <1>2, <1>4 DEF Control, Typed
<1>7. /\ \A a \in VA : Dying(q, a) <=> va[p] = a /\ loc[p] \in {"push", "clear", "cow_map"}
      /\ \A a \in VA : Dying(q, a)' <=> va'[p] = a /\ loc'[p] \in {"push", "clear", "cow_map"}
      /\ \A a \in VA : WorksAt(q, a, {"copy_ref"}) <=> va[p] = a /\ loc[p] = "copy_ref"
      /\ \A a \in VA : WorksAt(q, a, {"copy_ref"})' <=> va'[p] = a /\ loc'[p] = "copy_ref"
      /\ \A z \in Proc, a \in VA : z # q =>
           /\ Dying(z, a)' <=> Dying(z, a)
           /\ WorksAt(z, a, {"copy_ref"})' <=> WorksAt(z, a, {"copy_ref"})
  <2>1. loc[p] # "embryo" /\ pagetable'[p] = q
    BY Zenon, <1>1, <1>2
  <2>2. QED
    BY Zenon, <1>2, <1>5, <2>1, Dies
<1>8. ASSUME NEW h \in Page, NEW z \in Proc, NEW a \in VA
      PROVE  /\ MapsTo(z, a, h)' <=> MapsTo(z, a, h)
             /\ Counts(z, a, h)' <=> Counts(z, a, h)
             /\ MapsTo(z, a, h) => (pte'[z][a].w => pte[z][a].w)
  <2>1. CASE z = q /\ a = a0
    <3>1. Dying(z, a) /\ pte'[z][a] = NoPte
      BY Zenon, <1>1, <1>4, <1>6, <1>7, <2>1
    <3>2. QED
      BY Zenon, <3>1 DEF MapsTo, Counts
  <2>2. CASE ~ (z = q /\ a = a0)
    <3>1. /\ Dying(z, a)' <=> Dying(z, a)
          /\ WorksAt(z, a, {"copy_ref"})' <=> WorksAt(z, a, {"copy_ref"})
      BY Zenon, <1>1, <1>4, <1>5, <1>7, <2>2
    <3>2. pte'[z][a] = pte[z][a]
      BY Zenon, <1>6, <2>2
    <3>3. QED
      BY Zenon, <3>1, <3>2 DEF MapsTo, Counts
  <2>3. QED
    BY Zenon, <2>1, <2>2
<1>9. ASSUME NEW h \in Page
      PROVE  /\ Carries(p, h)' <=> Carries(p, h)
             /\ Transfers(p, h)' <=> Transfers(p, h)
  BY Zenon, <1>1, <1>5 DEF Carries, Transfers
<1>10. ASSUME NEW h \in Page PROVE Good(h)'
  <2>1. Good(h) /\ ref_cnt'[h] = ref_cnt[h] /\ (h \in freelist' <=> h \in freelist)
    BY Zenon, <1>1 DEF Refs
  <2>2. \A x \in Proc : /\ Carries(x, h)' <=> Carries(x, h)
                        /\ Transfers(x, h)' <=> Transfers(x, h)
    BY Zenon, <1>5, <1>9, OthersHold
  <2>3. QED
    BY Zenon, <1>8, <2>1, <2>2, PageSame
<1>11. QED
  BY Zenon, <1>10 DEF Refs

\* The page that p holds becomes that of a PTE of p.
LEMMA MapStep ==
  ASSUME CowAssumption, Counting, Control, Refs, NEW p \in Proc, NEW a0 \in VA, NEW g \in Page,
         UNCHANGED <<freelist, ref_cnt>>, \A x \in Proc : x # p => Still(x),
         \A h \in Page : /\ Carries(p, h) <=> h = g
                         /\ ~ Carries(p, h)' /\ ~ Transfers(p, h) /\ ~ Transfers(p, h)'
                         /\ ~ MapsTo(p, a0, h)
                         /\ MapsTo(p, a0, h)' <=> h = g
                         /\ Counts(p, a0, h)' <=> h = g,
         \A h \in Page, z \in Proc, a \in VA : ~ (z = p /\ a = a0) =>
                         /\ MapsTo(z, a, h)' <=> MapsTo(z, a, h)
                         /\ Counts(z, a, h)' <=> Counts(z, a, h)
                         /\ pte'[z][a] = pte[z][a]
  PROVE  Refs'
<1>1. ASSUME NEW h \in Page, h # g PROVE Good(h)'
  <2>1. Good(h) /\ ref_cnt'[h] = ref_cnt[h] /\ (h \in freelist' <=> h \in freelist)
    BY Zenon DEF Refs
  <2>2. \A x \in Proc : /\ Carries(x, h)' <=> Carries(x, h)
                        /\ Transfers(x, h)' <=> Transfers(x, h)
    BY Zenon, <1>1, OthersHold
  <2>3. ASSUME NEW z \in Proc, NEW a \in VA
        PROVE  /\ MapsTo(z, a, h)' <=> MapsTo(z, a, h)
               /\ Counts(z, a, h)' <=> Counts(z, a, h)
               /\ MapsTo(z, a, h) => (pte'[z][a].w => pte[z][a].w)
    <3>1. CASE z = p /\ a = a0
      <4>1. ~ MapsTo(z, a, h) /\ ~ MapsTo(z, a, h)'
        BY Zenon, <1>1, <3>1
      <4>2. QED
        BY Zenon, <4>1 DEF Counts
    <3>2. CASE ~ (z = p /\ a = a0)
      BY Zenon, <3>2
    <3>3. QED
      BY Zenon, <3>1, <3>2
  <2>4. QED
    BY Zenon, <2>1, <2>2, <2>3, PageSame
<1>2. Good(g)'
  <2>1. Good(g) /\ Carries(p, g)
    BY Zenon DEF Refs
  <2>2. /\ Carriers(g) = {p} /\ PTEs(g) = {} /\ Counted(g) = {} /\ ref_cnt[g] = 1
        /\ g \notin freelist /\ InTransit(g) = {}
    BY Zenon, <2>1, Held
  <2>3. ref_cnt[g] < REFMOD
    BY Zenon, <2>1 DEF Good
  <2>4. PTEs(g)' = {<<p, a0>>} /\ Counted(g)' = {<<p, a0>>}
    <3>1. \A z \in Proc, a \in VA : ~ MapsTo(z, a, g) /\ ~ Counts(z, a, g)
      BY Zenon, <2>2, Pairs
    <3>2. ASSUME NEW x \in Proc \X VA
          PROVE  /\ MapsTo(x[1], x[2], g)' <=> x = <<p, a0>>
                 /\ Counts(x[1], x[2], g)' <=> x = <<p, a0>>
      <4>1. x[1] \in Proc /\ x[2] \in VA /\ (x = <<p, a0>> <=> x[1] = p /\ x[2] = a0)
        OBVIOUS
      <4>2. CASE x[1] = p /\ x[2] = a0
        BY Zenon, <4>1, <4>2
      <4>3. CASE ~ (x[1] = p /\ x[2] = a0)
        BY Zenon, <3>1, <4>1, <4>3
      <4>4. QED
        BY Zenon, <4>2, <4>3
    <3>3. <<p, a0>> \in Proc \X VA
      OBVIOUS
    <3>4. /\ {x \in Proc \X VA : MapsTo(x[1], x[2], g)'} = {<<p, a0>>}
          /\ {x \in Proc \X VA : Counts(x[1], x[2], g)'} = {<<p, a0>>}
      BY Zenon, <3>2, <3>3
    <3>5. /\ PTEs(g)' = {x \in Proc \X VA : MapsTo(x[1], x[2], g)'}
          /\ Counted(g)' = {x \in Proc \X VA : Counts(x[1], x[2], g)'}
      BY Zenon, MembersNext
    <3>6. QED
      BY Zenon, <3>4, <3>5
  <2>5. \A x \in Proc : ~ Carries(x, g)' /\ ~ Transfers(x, g)'
    BY Zenon, <2>2, OthersHold, HeldBy
  <2>6. Carriers(g)' = {} /\ InTransit(g)' = {}
    BY Zenon, <2>5, HeldNext
  <2>7. /\ Cardinality({}) = 0 /\ Cardinality({<<p, a0>>}) = 1 /\ 1 = 1 + 0 /\ 1 # 0
    <3>1. Cardinality({}) = 0 /\ Cardinality({<<p, a0>>}) = 1
      BY Zenon DEF Counting
    <3>2. 1 = 1 + 0 /\ 1 # 0
      OBVIOUS
    <3>3. QED
      BY Zenon, <3>1, <3>2
  <2>8. g \notin freelist' /\ ref_cnt'[g] = 1 /\ ref_cnt'[g] < REFMOD
    BY Zenon, <2>2, <2>3
  <2>9. QED
    BY Zenon, <2>4, <2>6, <2>7, <2>8 DEF Good
<1>3. QED
  BY Zenon, <1>1, <1>2 DEF Refs

\* walkcowaddr maps its copy ...
LEMMA CowMapRefs ==
  ASSUME CowAssumption, Counting, Control, Refs, NEW p \in Proc, CowMap(p) PROVE Refs'
<1>1. /\ loc[p] = "cow_map" /\ UNCHANGED <<freelist, ref_cnt, sz, pagetable, end, after, ret>>
      /\ pte' = [pte EXCEPT ![p][va[p]] = [@ EXCEPT !.pa = new[p], !.w = TRUE, !.cow = FALSE]]
      /\ va' = [va EXCEPT ![p] = 0] /\ r' = [r EXCEPT ![p] = NoPage]
      /\ new' = [new EXCEPT ![p] = NoPage] /\ loc' = [loc EXCEPT ![p] = "user"]
  BY Zenon DEF CowMap, At, Goes
<1>2. /\ pagetable[p] = p /\ va[p] \in VA /\ pte[p][va[p]] \in PTE
  BY Zenon, <1>1, Quiescent
<1>3. new[p] \in Page
  BY Zenon, <1>1, Here DEF Local, Place, Calling
<1>4. PICK a0 \in VA, g \in Page : a0 = va[p] /\ g = new[p]
  BY Zenon, <1>2, <1>3
<1> DEFINE e == [pte[p][a0] EXCEPT !.pa = g, !.w = TRUE, !.cow = FALSE]
<1>5. e \in PTE /\ e.pa = g
  BY Zenon, <1>2, <1>4 DEF PTE
<1>6. /\ pte'[p][a0] = e
      /\ \A z \in Proc, a \in VA : ~ (z = p /\ a = a0) => pte'[z][a] = pte[z][a]
  <2>1. pte' = [pte EXCEPT ![p] = [pte[p] EXCEPT ![a0] = e]]
    BY Zenon, <1>1, <1>4
  <2>2. pte \in [Proc -> [VA -> PTE \cup {NoPte}]]
    BY Zenon DEF Control, Typed
  <2> HIDE DEF e
  <2>3. QED
    BY <2>1, <2>2
<1> HIDE DEF e
<1>7. /\ loc'[p] = "user" /\ r'[p] = NoPage /\ new'[p] = NoPage
      /\ \A x \in Proc : x # p => Still(x)
  BY <1>1 DEF Still, Control, Typed
<1>8. /\ \A a \in VA : Dying(p, a) <=> va[p] = a /\ loc[p] \in {"push", "clear", "cow_map"}
      /\ \A a \in VA : Dying(p, a)' <=> va'[p] = a /\ loc'[p] \in {"push", "clear", "cow_map"}
      /\ \A a \in VA : WorksAt(p, a, {"copy_ref"}) <=> va[p] = a /\ loc[p] = "copy_ref"
      /\ \A a \in VA : WorksAt(p, a, {"copy_ref"})' <=> va'[p] = a /\ loc'[p] = "copy_ref"
      /\ \A z \in Proc, a \in VA : z # p =>
           /\ Dying(z, a)' <=> Dying(z, a)
           /\ WorksAt(z, a, {"copy_ref"})' <=> WorksAt(z, a, {"copy_ref"})
  <2>1. loc[p] # "embryo" /\ pagetable'[p] = p /\ p = pagetable[p]
    BY Zenon, <1>1, <1>2
  <2>2. QED
    BY Zenon, <1>7, <2>1, Dies
<1>9. ASSUME NEW h \in Page
      PROVE  /\ Carries(p, h) <=> h = g
             /\ ~ Carries(p, h)' /\ ~ Transfers(p, h) /\ ~ Transfers(p, h)'
             /\ ~ MapsTo(p, a0, h)
             /\ MapsTo(p, a0, h)' <=> h = g
             /\ Counts(p, a0, h)' <=> h = g
  <2>1. (Carries(p, h) <=> h = g) /\ ~ Transfers(p, h) /\ ~ Transfers(p, h)'
    BY Zenon, <1>1, <1>4, <1>7 DEF Carries, Transfers
  <2>2. ~ Carries(p, h)'
    BY Zenon, <1>7 DEF Carries, CowAssumption
  <2>3. Dying(p, a0) /\ ~ Dying(p, a0)' /\ ~ WorksAt(p, a0, {"copy_ref"})'
    BY Zenon, <1>1, <1>4, <1>7, <1>8
  <2>4. pte'[p][a0] # NoPte /\ pte'[p][a0].pa = g
    BY Zenon, <1>5, <1>6 DEF CowAssumption
  <2>5. QED
    BY Zenon, <2>1, <2>2, <2>3, <2>4 DEF MapsTo, Counts
<1>10. ASSUME NEW h \in Page, NEW z \in Proc, NEW a \in VA, ~ (z = p /\ a = a0)
       PROVE  /\ MapsTo(z, a, h)' <=> MapsTo(z, a, h)
              /\ Counts(z, a, h)' <=> Counts(z, a, h)
              /\ pte'[z][a] = pte[z][a]
  <2>1. /\ Dying(z, a)' <=> Dying(z, a)
        /\ WorksAt(z, a, {"copy_ref"})' <=> WorksAt(z, a, {"copy_ref"})
    BY Zenon, <1>1, <1>4, <1>7, <1>8, <1>10
  <2>2. pte'[z][a] = pte[z][a]
    BY Zenon, <1>6, <1>10
  <2>3. QED
    BY Zenon, <2>1, <2>2 DEF MapsTo, Counts
<1>11. UNCHANGED <<freelist, ref_cnt>>
  BY Zenon, <1>1
<1>12. QED
  BY Zenon, <1>7, <1>9, <1>10, <1>11, MapStep

\* ... and uvmalloc its page.
LEMMA GrowMapRefs ==
  ASSUME CowAssumption, Counting, Control, Refs, NEW p \in Proc, GrowMap(p) PROVE Refs'
<1>1. /\ loc[p] = "grow_map" /\ r[p] # NoPage
      /\ UNCHANGED <<freelist, ref_cnt, sz, pagetable, end, after, ret, new>>
      /\ pte' = [pte EXCEPT ![p][va[p]] = UserPte(r[p])]
      /\ va' = [va EXCEPT ![p] = @ + 1] /\ r' = [r EXCEPT ![p] = NoPage]
      /\ loc' = [loc EXCEPT ![p] = "grow"]
  BY Zenon DEF GrowMap, At, Goes
<1>2. /\ pagetable[p] = p /\ new[p] \notin Page /\ va[p] < end[p]
      /\ \A a \in VA : pte[p][a] # NoPte <=> a < va[p]
  BY Zenon, <1>1, GrowingFacts DEF Growing
<1>3. va[p] \in VA /\ ~ (va[p] < va[p])
  BY <1>2, Sizes DEF VA
<1>4. PICK a0 \in VA, g \in Page : a0 = va[p] /\ g = r[p]
  BY Zenon, <1>1, <1>3, Here
<1>5. UserPte(g) \in PTE /\ UserPte(g).pa = g
  BY Zenon DEF UserPte, PTE
<1>6. /\ pte'[p][a0] = UserPte(g) /\ pte[p][a0] = NoPte
      /\ \A z \in Proc, a \in VA : ~ (z = p /\ a = a0) => pte'[z][a] = pte[z][a]
  <2>1. pte \in [Proc -> [VA -> PTE \cup {NoPte}]] /\ pte[p][a0] = NoPte
    BY Zenon, <1>2, <1>3, <1>4 DEF Control, Typed
  <2>2. QED
    BY <1>1, <1>4, <2>1
<1>7. /\ loc'[p] = "grow" /\ r'[p] = NoPage /\ new'[p] = new[p]
      /\ \A x \in Proc : x # p => Still(x)
  BY <1>1 DEF Still, Control, Typed
<1>8. /\ \A a \in VA : Dying(p, a) <=> va[p] = a /\ loc[p] \in {"push", "clear", "cow_map"}
      /\ \A a \in VA : Dying(p, a)' <=> va'[p] = a /\ loc'[p] \in {"push", "clear", "cow_map"}
      /\ \A a \in VA : WorksAt(p, a, {"copy_ref"}) <=> va[p] = a /\ loc[p] = "copy_ref"
      /\ \A a \in VA : WorksAt(p, a, {"copy_ref"})' <=> va'[p] = a /\ loc'[p] = "copy_ref"
      /\ \A z \in Proc, a \in VA : z # p =>
           /\ Dying(z, a)' <=> Dying(z, a)
           /\ WorksAt(z, a, {"copy_ref"})' <=> WorksAt(z, a, {"copy_ref"})
  <2>1. loc[p] # "embryo" /\ pagetable'[p] = p /\ p = pagetable[p]
    BY Zenon, <1>1, <1>2
  <2>2. QED
    BY Zenon, <1>7, <2>1, Dies
<1>9. ASSUME NEW h \in Page
      PROVE  /\ Carries(p, h) <=> h = g
             /\ ~ Carries(p, h)' /\ ~ Transfers(p, h) /\ ~ Transfers(p, h)'
             /\ ~ MapsTo(p, a0, h)
             /\ MapsTo(p, a0, h)' <=> h = g
             /\ Counts(p, a0, h)' <=> h = g
  <2>1. (Carries(p, h) <=> h = g) /\ ~ Transfers(p, h) /\ ~ Transfers(p, h)'
    BY Zenon, <1>1, <1>2, <1>4, <1>7 DEF Carries, Transfers
  <2>2. ~ Carries(p, h)'
    BY Zenon, <1>2, <1>7 DEF Carries, CowAssumption
  <2>3. ~ Dying(p, a0)' /\ ~ WorksAt(p, a0, {"copy_ref"})'
    BY Zenon, <1>7, <1>8
  <2>4. pte'[p][a0] # NoPte /\ pte'[p][a0].pa = g /\ pte[p][a0] = NoPte
    BY Zenon, <1>5, <1>6 DEF CowAssumption
  <2>5. QED
    BY Zenon, <2>1, <2>2, <2>3, <2>4 DEF MapsTo, Counts
<1>10. ASSUME NEW h \in Page, NEW z \in Proc, NEW a \in VA, ~ (z = p /\ a = a0)
       PROVE  /\ MapsTo(z, a, h)' <=> MapsTo(z, a, h)
              /\ Counts(z, a, h)' <=> Counts(z, a, h)
              /\ pte'[z][a] = pte[z][a]
  <2>1. /\ Dying(z, a)' <=> Dying(z, a)
        /\ WorksAt(z, a, {"copy_ref"})' <=> WorksAt(z, a, {"copy_ref"})
    BY Zenon, <1>1, <1>7, <1>8
  <2>2. pte'[z][a] = pte[z][a]
    BY Zenon, <1>6, <1>10
  <2>3. QED
    BY Zenon, <2>1, <2>2 DEF MapsTo, Counts
<1>11. UNCHANGED <<freelist, ref_cnt>>
  BY Zenon, <1>1
<1>12. QED
  BY Zenon, <1>7, <1>9, <1>10, <1>11, MapStep

-----------------------------------------------------------------------------
\* uvmcopy gives the page a second PTE, which is not counted yet.
LEMMA CopyRefs ==
  ASSUME CowAssumption, Counting, Control, Refs, NEW p \in Proc, Copy(p) PROVE Refs'
<1>1. /\ loc[p] = "copy" /\ va[p] < sz[p]
      /\ UNCHANGED <<freelist, ref_cnt, sz, pagetable, va, end, after, r, ret, new>>
      /\ pte' = [pte EXCEPT ![p][va[p]] = CowPte(pte[p][va[p]]),
                            ![pagetable[p]][va[p]] = CowPte(pte[p][va[p]])]
      /\ loc' = [loc EXCEPT ![p] = "copy_ref"]
  BY Zenon DEF Copy, At, Goes, kvars, loop
<1>2. PICK q \in Proc : q = pagetable[p]
  BY Zenon, Here
<1>3. va[p] \in VA /\ ~ (va[p] < va[p])
  BY <1>1, Sizes DEF VA
<1>4. /\ q # p /\ pte[p][va[p]] # NoPte /\ pte[p][va[p]] \in PTE /\ pte[q][va[p]] = NoPte
  BY Zenon, <1>1, <1>2, <1>3, CopyingFacts, Here DEF Copying
<1>5. PICK a0 \in VA, g \in Page : a0 = va[p] /\ g = pte[p][va[p]].pa
  BY Zenon, <1>3, <1>4 DEF PTE
<1> DEFINE e == CowPte(pte[p][a0])
<1>6. e \in PTE /\ e.pa = g /\ ~ e.w /\ e # NoPte
  <2>1. e \in PTE /\ e.pa = g /\ ~ e.w
    BY Zenon, <1>4, <1>5 DEF CowPte, PTE
  <2>2. QED
    BY Zenon, <2>1 DEF CowAssumption
<1>7. /\ pte'[p][a0] = e /\ pte'[q][a0] = e
      /\ \A z \in Proc, a \in VA : ~ (z \in {p, q} /\ a = a0) => pte'[z][a] = pte[z][a]
  <2>1. pte' = [pte EXCEPT ![p][a0] = e, ![q][a0] = e]
    BY Zenon, <1>1, <1>2, <1>5
  <2>2. pte \in [Proc -> [VA -> PTE \cup {NoPte}]]
    BY Zenon DEF Control, Typed
  <2> HIDE DEF e
  <2>3. QED
    BY <1>4, <2>1, <2>2
<1> HIDE DEF e
<1>8. loc'[p] = "copy_ref" /\ \A x \in Proc : x # p => Still(x)
  BY <1>1 DEF Still, Control, Typed
<1>9. /\ \A a \in VA : Dying(q, a) <=> va[p] = a /\ loc[p] \in {"push", "clear", "cow_map"}
      /\ \A a \in VA : Dying(q, a)' <=> va'[p] = a /\ loc'[p] \in {"push", "clear", "cow_map"}
      /\ \A a \in VA : WorksAt(q, a, {"copy_ref"}) <=> va[p] = a /\ loc[p] = "copy_ref"
      /\ \A a \in VA : WorksAt(q, a, {"copy_ref"})' <=> va'[p] = a /\ loc'[p] = "copy_ref"
      /\ \A z \in Proc, a \in VA : z # q =>
           /\ Dying(z, a)' <=> Dying(z, a)
           /\ WorksAt(z, a, {"copy_ref"})' <=> WorksAt(z, a, {"copy_ref"})
  <2>1. loc[p] # "embryo" /\ pagetable'[p] = q
    BY Zenon, <1>1, <1>2
  <2>2. QED
    BY Zenon, <1>2, <1>8, <2>1, Dies
<1>10. va'[p] = a0
  BY Zenon, <1>1, <1>5
<1>11. ASSUME NEW h \in Page, NEW z \in Proc, NEW a \in VA
       PROVE  Counts(z, a, h)' <=> Counts(z, a, h)
  <2>1. CASE z = q /\ a = a0
    <3>1. pte[z][a] = NoPte /\ WorksAt(z, a, {"copy_ref"})'
      BY Zenon, <1>4, <1>5, <1>8, <1>9, <1>10, <2>1
    <3>2. QED
      BY Zenon, <3>1 DEF Counts, MapsTo
  <2>2. CASE ~ (z = q /\ a = a0)
    <3>1. /\ Dying(z, a)' <=> Dying(z, a)
          /\ WorksAt(z, a, {"copy_ref"})' <=> WorksAt(z, a, {"copy_ref"})
      BY Zenon, <1>1, <1>8, <1>9, <1>10, <2>2
    <3>2. /\ pte'[z][a] # NoPte <=> pte[z][a] # NoPte
          /\ pte'[z][a].pa = pte[z][a].pa
      BY Zenon, <1>4, <1>5, <1>6, <1>7, <2>2
    <3>3. QED
      BY Zenon, <3>1, <3>2 DEF Counts, MapsTo
  <2>3. QED
    BY Zenon, <2>1, <2>2
<1>12. ASSUME NEW h \in Page, NEW z \in Proc, NEW a \in VA, h # g \/ ~ (z = q /\ a = a0)
       PROVE  MapsTo(z, a, h)' <=> MapsTo(z, a, h)
  <2>1. CASE z = q /\ a = a0
    BY Zenon, <1>4, <1>5, <1>6, <1>7, <1>12, <2>1 DEF MapsTo
  <2>2. CASE ~ (z = q /\ a = a0)
    <3>1. Dying(z, a)' <=> Dying(z, a)
      BY Zenon, <1>1, <1>8, <1>9, <1>10, <2>2
    <3>2. /\ pte'[z][a] # NoPte <=> pte[z][a] # NoPte
          /\ pte'[z][a].pa = pte[z][a].pa
      BY Zenon, <1>4, <1>5, <1>6, <1>7, <2>2
    <3>3. QED
      BY Zenon, <3>1, <3>2 DEF MapsTo
  <2>3. QED
    BY Zenon, <2>1, <2>2
<1>13. MapsTo(q, a0, g)'
  <2>1. ~ Dying(q, a0)'
    BY Zenon, <1>8, <1>9
  <2>2. QED
    BY Zenon, <1>6, <1>7, <2>1 DEF MapsTo
<1>14. MapsTo(p, a0, g)
  <2>1. \A x \in Proc : pagetable[x] # p
    BY Zenon, <1>1, <1>2, <1>4, Here DEF Pair
  <2>2. QED
    BY Zenon, <1>4, <1>5, <2>1 DEF MapsTo, Dying, WorksAt
<1>15. ASSUME NEW z \in Proc, NEW a \in VA, pte'[z][a].w
       PROVE  pte[z][a].w /\ ~ (z \in {p, q} /\ a = a0)
  BY Zenon, <1>6, <1>7, <1>15
<1>16. ASSUME NEW h \in Page, NEW x \in Proc
       PROVE  /\ Carries(x, h)' <=> Carries(x, h)
              /\ Transfers(x, h)' <=> Transfers(x, h)
  <2>1. CASE x = p
    BY Zenon, <1>1, <1>8, <2>1 DEF Carries, Transfers
  <2>2. CASE x # p
    BY Zenon, <1>8, <2>2, OthersHold
  <2>3. QED
    BY Zenon, <2>1, <2>2
<1>17. ASSUME NEW h \in Page, h # g PROVE Good(h)'
  <2>1. Good(h) /\ ref_cnt'[h] = ref_cnt[h] /\ (h \in freelist' <=> h \in freelist)
    BY Zenon, <1>1 DEF Refs
  <2>2. QED
    BY Zenon, <1>11, <1>12, <1>15, <1>16, <1>17, <2>1, PageSame
<1>18. Good(g)'
  <2>1. Good(g) /\ <<p, a0>> \in PTEs(g)
    BY Zenon, <1>14, Pairs DEF Refs
  <2>2. PTEs(g)' = PTEs(g) \cup {<<q, a0>>}
    <3>1. ASSUME NEW x \in Proc \X VA
          PROVE  MapsTo(x[1], x[2], g)' <=> MapsTo(x[1], x[2], g) \/ x = <<q, a0>>
      <4>1. x[1] \in Proc /\ x[2] \in VA /\ (x = <<q, a0>> <=> x[1] = q /\ x[2] = a0)
        OBVIOUS
      <4>2. CASE x[1] = q /\ x[2] = a0
        BY Zenon, <1>13, <4>1, <4>2
      <4>3. CASE ~ (x[1] = q /\ x[2] = a0)
        BY Zenon, <1>12, <4>1, <4>3
      <4>4. QED
        BY Zenon, <4>2, <4>3
    <3>2. <<q, a0>> \in Proc \X VA
      OBVIOUS
    <3>3. {x \in Proc \X VA : MapsTo(x[1], x[2], g)'}
            = {x \in Proc \X VA : MapsTo(x[1], x[2], g)} \cup {<<q, a0>>}
      BY Zenon, <3>1, <3>2
    <3>4. /\ PTEs(g) = {x \in Proc \X VA : MapsTo(x[1], x[2], g)}
          /\ PTEs(g)' = {x \in Proc \X VA : MapsTo(x[1], x[2], g)'}
      BY Zenon, Members, MembersNext
    <3>5. QED
      BY Zenon, <3>3, <3>4
  <2>3. Counted(g)' = Counted(g)
    <3>1. {x \in Proc \X VA : Counts(x[1], x[2], g)'} = {x \in Proc \X VA : Counts(x[1], x[2], g)}
      <4>1. \A x \in Proc \X VA : x[1] \in Proc /\ x[2] \in VA
        OBVIOUS
      <4>2. QED
        BY Zenon, <1>11, <4>1
    <3>2. /\ Counted(g) = {x \in Proc \X VA : Counts(x[1], x[2], g)}
          /\ Counted(g)' = {x \in Proc \X VA : Counts(x[1], x[2], g)'}
      BY Zenon, Members, MembersNext
    <3>3. QED
      BY Zenon, <3>1, <3>2
  <2>4. Carriers(g)' = Carriers(g) /\ InTransit(g)' = InTransit(g)
    BY Zenon, <1>16, HoldersSame
  <2>5. Carriers(g) = {}
    BY Zenon, <2>1, Shared
  <2>6. \A x \in PTEs(g)' : x[2] = a0
    <3>1. <<p, a0>>[2] = a0 /\ <<q, a0>>[2] = a0
      OBVIOUS
    <3>2. \A x \in PTEs(g) : x[2] = <<p, a0>>[2]
      BY Zenon, <2>1 DEF Good
    <3>3. QED
      BY Zenon, <2>2, <3>1, <3>2
  <2>7. ASSUME NEW x \in PTEs(g)' PROVE ~ pte'[x[1]][x[2]].w
    <3>1. x = <<x[1], x[2]>> /\ x[1] \in Proc /\ x[2] = a0 /\ <<p, a0>> # <<q, a0>>
      <4>1. x \in Proc \X VA
        <5>1. PTEs(g) \subseteq Proc \X VA /\ <<q, a0>> \in Proc \X VA
          BY Pairs
        <5>2. QED
          BY Zenon, <2>2, <5>1
      <4>2. QED
        BY <1>4, <2>6, <4>1
    <3>2. CASE x[1] \in {p, q}
      BY Zenon, <1>6, <1>7, <3>1, <3>2
    <3>3. CASE x[1] \notin {p, q}
      <4>1. x # <<q, a0>> /\ x # <<p, a0>>
        BY <3>1, <3>3
      <4>2. ~ pte[x[1]][x[2]].w
        BY Zenon, <2>1, <2>2, <4>1 DEF Good
      <4>3. QED
        BY Zenon, <1>7, <3>1, <3>3, <4>2
    <3>4. QED
      BY Zenon, <3>2, <3>3
  <2>8. ref_cnt'[g] = ref_cnt[g] /\ (g \in freelist' <=> g \in freelist)
    BY Zenon, <1>1
  <2>9. QED
    BY Zenon, <2>1, <2>3, <2>4, <2>5, <2>6, <2>7, <2>8 DEF Good
<1>19. QED
  BY Zenon, <1>17, <1>18 DEF Refs

\* Then it counts it.
LEMMA CopyRefRefs ==
  ASSUME CowAssumption, Counting, Control, Refs, NEW p \in Proc, CopyRef(p) PROVE Refs'
<1>1. /\ loc[p] = "copy_ref"
      /\ UNCHANGED <<freelist, pte, sz, pagetable, end, after, r, ret, new>>
      /\ ref_cnt' = [ref_cnt EXCEPT ![pte[p][va[p]].pa] = (@ + 1) % REFMOD]
      /\ va' = [va EXCEPT ![p] = @ + 1] /\ loc' = [loc EXCEPT ![p] = "copy"]
  BY Zenon DEF CopyRef, At, Goes
<1>2. PICK q \in Proc : q = pagetable[p]
  BY Zenon, Here
<1>3. va[p] \in VA
  <2>1. va[p] < sz[p]
    BY Zenon, <1>1, CopyingFacts DEF Copying
  <2>2. QED
    BY <2>1, Sizes DEF VA
<1>4. /\ pte[p][va[p]] \in PTE /\ pte[q][va[p]] # NoPte /\ pte[q][va[p]].pa = pte[p][va[p]].pa
  <2>1. /\ va[p] < sz[p] /\ (pte[p][va[p]] # NoPte <=> va[p] < sz[p])
        /\ pte[pagetable[p]][va[p]] # NoPte
    BY Zenon, <1>1, <1>3, CopyingFacts DEF Copying
  <2>2. pte[pagetable[p]][va[p]].pa = pte[p][va[p]].pa /\ pte[p][va[p]] \in PTE \cup {NoPte}
    BY Zenon, <1>1, <1>3, Here DEF Argument
  <2>3. QED
    BY Zenon, <1>2, <2>1, <2>2
<1>5. PICK a0 \in VA, g \in Page : a0 = va[p] /\ g = pte[p][va[p]].pa
  BY Zenon, <1>3, <1>4 DEF PTE
<1>6. ref_cnt'[g] = (ref_cnt[g] + 1) % REFMOD /\ \A h \in Page : h # g => ref_cnt'[h] = ref_cnt[h]
  BY <1>1, <1>5 DEF Control, Typed
<1>7. loc'[p] = "copy" /\ \A x \in Proc : x # p => Still(x)
  BY <1>1 DEF Still, Control, Typed
<1>8. /\ \A a \in VA : Dying(q, a) <=> va[p] = a /\ loc[p] \in {"push", "clear", "cow_map"}
      /\ \A a \in VA : Dying(q, a)' <=> va'[p] = a /\ loc'[p] \in {"push", "clear", "cow_map"}
      /\ \A a \in VA : WorksAt(q, a, {"copy_ref"}) <=> va[p] = a /\ loc[p] = "copy_ref"
      /\ \A a \in VA : WorksAt(q, a, {"copy_ref"})' <=> va'[p] = a /\ loc'[p] = "copy_ref"
      /\ \A z \in Proc, a \in VA : z # q =>
           /\ Dying(z, a)' <=> Dying(z, a)
           /\ WorksAt(z, a, {"copy_ref"})' <=> WorksAt(z, a, {"copy_ref"})
  <2>1. loc[p] # "embryo" /\ pagetable'[p] = q
    BY Zenon, <1>1, <1>2
  <2>2. QED
    BY Zenon, <1>2, <1>7, <2>1, Dies
<1>9. ASSUME NEW h \in Page, NEW z \in Proc, NEW a \in VA
      PROVE  MapsTo(z, a, h)' <=> MapsTo(z, a, h)
  <2>1. Dying(z, a)' <=> Dying(z, a)
    BY Zenon, <1>1, <1>7, <1>8
  <2>2. QED
    BY Zenon, <1>1, <2>1 DEF MapsTo
<1>10. ASSUME NEW h \in Page, NEW z \in Proc, NEW a \in VA, ~ (z = q /\ a = a0)
       PROVE  Counts(z, a, h)' <=> Counts(z, a, h)
  <2>1. WorksAt(z, a, {"copy_ref"})' <=> WorksAt(z, a, {"copy_ref"})
    BY Zenon, <1>5, <1>7, <1>8, <1>10
  <2>2. QED
    BY Zenon, <1>9, <2>1 DEF Counts
<1>11. ASSUME NEW h \in Page
       PROVE  (MapsTo(q, a0, h) <=> h = g) /\ ~ Counts(q, a0, h) /\ (Counts(q, a0, h)' <=> h = g)
  <2>1. ~ Dying(q, a0) /\ WorksAt(q, a0, {"copy_ref"}) /\ ~ WorksAt(q, a0, {"copy_ref"})'
    BY Zenon, <1>1, <1>5, <1>7, <1>8
  <2>2. MapsTo(q, a0, h) <=> h = g
    BY Zenon, <1>4, <1>5, <2>1 DEF MapsTo
  <2>3. QED
    BY Zenon, <1>9, <2>1, <2>2 DEF Counts
<1>12. ASSUME NEW h \in Page, NEW x \in Proc
       PROVE  /\ Carries(x, h)' <=> Carries(x, h)
              /\ Transfers(x, h)' <=> Transfers(x, h)
  <2>1. CASE x = p
    BY Zenon, <1>1, <1>7, <2>1 DEF Carries, Transfers
  <2>2. CASE x # p
    BY Zenon, <1>7, <2>2, OthersHold
  <2>3. QED
    BY Zenon, <2>1, <2>2
<1>13. ASSUME NEW h \in Page, h # g PROVE Good(h)'
  <2>1. Good(h) /\ ref_cnt'[h] = ref_cnt[h] /\ (h \in freelist' <=> h \in freelist)
    BY Zenon, <1>1, <1>6, <1>13 DEF Refs
  <2>2. ASSUME NEW z \in Proc, NEW a \in VA
        PROVE  /\ MapsTo(z, a, h)' <=> MapsTo(z, a, h)
               /\ Counts(z, a, h)' <=> Counts(z, a, h)
               /\ MapsTo(z, a, h) => (pte'[z][a].w => pte[z][a].w)
    BY Zenon, <1>1, <1>9, <1>10, <1>11, <1>13
  <2>3. QED
    BY Zenon, <1>12, <2>1, <2>2, PageSame
<1>14. Good(g)'
  <2>1. Good(g) /\ <<q, a0>> \in PTEs(g) /\ <<q, a0>> \notin Counted(g)
    BY Zenon, <1>11, Pairs DEF Refs
  <2>2. /\ Carriers(g) = {} /\ ref_cnt[g] = Cardinality(Counted(g)) /\ ref_cnt[g] # 0
        /\ Counted(g) \in SUBSET (Proc \X VA) /\ Cardinality(Counted(g)) \in Nat
        /\ g \notin freelist /\ InTransit(g) = {}
    BY Zenon, <2>1, Shared
  <2>3. PTEs(g)' = PTEs(g)
    <3>1. {x \in Proc \X VA : MapsTo(x[1], x[2], g)'} = {x \in Proc \X VA : MapsTo(x[1], x[2], g)}
      <4>1. \A x \in Proc \X VA : x[1] \in Proc /\ x[2] \in VA
        OBVIOUS
      <4>2. QED
        BY Zenon, <1>9, <4>1
    <3>2. /\ PTEs(g) = {x \in Proc \X VA : MapsTo(x[1], x[2], g)}
          /\ PTEs(g)' = {x \in Proc \X VA : MapsTo(x[1], x[2], g)'}
      BY Zenon, Members, MembersNext
    <3>3. QED
      BY Zenon, <3>1, <3>2
  <2>4. Counted(g)' = Counted(g) \cup {<<q, a0>>}
    <3>1. ASSUME NEW x \in Proc \X VA
          PROVE  Counts(x[1], x[2], g)' <=> Counts(x[1], x[2], g) \/ x = <<q, a0>>
      <4>1. x[1] \in Proc /\ x[2] \in VA /\ (x = <<q, a0>> <=> x[1] = q /\ x[2] = a0)
        OBVIOUS
      <4>2. CASE x[1] = q /\ x[2] = a0
        BY Zenon, <1>11, <4>1, <4>2
      <4>3. CASE ~ (x[1] = q /\ x[2] = a0)
        BY Zenon, <1>10, <4>1, <4>3
      <4>4. QED
        BY Zenon, <4>2, <4>3
    <3>2. <<q, a0>> \in Proc \X VA
      OBVIOUS
    <3>3. {x \in Proc \X VA : Counts(x[1], x[2], g)'}
            = {x \in Proc \X VA : Counts(x[1], x[2], g)} \cup {<<q, a0>>}
      BY Zenon, <3>1, <3>2
    <3>4. /\ Counted(g) = {x \in Proc \X VA : Counts(x[1], x[2], g)}
          /\ Counted(g)' = {x \in Proc \X VA : Counts(x[1], x[2], g)'}
      BY Zenon, Members, MembersNext
    <3>5. QED
      BY Zenon, <3>3, <3>4
  <2>5. Carriers(g)' = Carriers(g) /\ InTransit(g)' = InTransit(g)
    BY Zenon, <1>12, HoldersSame
  <2>6. Cardinality(Counted(g)') = Cardinality(Counted(g)) + 1
    <3>1. Cardinality(Counted(g) \cup {<<q, a0>>}) = Cardinality(Counted(g)) + 1
      BY Zenon, <2>1, <2>2, CountsOf
    <3>2. QED
      BY Zenon, <2>4, <3>1
  <2>7. Cardinality(Counted(g)') <= Cardinality(Proc)
    <3>1. Counted(g)' \subseteq Proc \X {a0}
      <4>1. Counted(g)' \subseteq PTEs(g) /\ PTEs(g) \subseteq Proc \X VA
        BY Zenon, <2>1, <2>4, Pairs
      <4>2. \A x \in PTEs(g) : x[2] = a0
        <5>1. <<q, a0>>[2] = a0
          OBVIOUS
        <5>2. \A x \in PTEs(g) : x[2] = <<q, a0>>[2]
          BY Zenon, <2>1 DEF Good
        <5>3. QED
          BY Zenon, <5>1, <5>2
      <4>3. QED
        BY <4>1, <4>2
    <3>2. QED
      BY Zenon, <3>1 DEF Counting
  <2>8. Cardinality(Carriers(g)') = 0
    BY Zenon, <2>2, <2>5 DEF Counting
  <2>9. /\ ref_cnt'[g] = Cardinality(Counted(g)') + Cardinality(Carriers(g)')
        /\ ref_cnt'[g] < REFMOD /\ ref_cnt'[g] # 0
    <3>1. Cardinality(Proc) \in Nat /\ REFMOD \in Nat /\ Cardinality(Proc) < REFMOD
      BY Zenon DEF Counting
    <3>2. \A c, m, n \in Nat : c + 1 <= n /\ n < m =>
            (c + 1) % m = c + 1 /\ c + 1 < m /\ c + 1 # 0 /\ c + 1 = (c + 1) + 0
      OBVIOUS
    <3>3. Cardinality(Counted(g)) + 1 <= Cardinality(Proc)
      BY Zenon, <2>6, <2>7
    <3>4. /\ (ref_cnt[g] + 1) % REFMOD = Cardinality(Counted(g)) + 1
          /\ Cardinality(Counted(g)) + 1 < REFMOD /\ Cardinality(Counted(g)) + 1 # 0
          /\ Cardinality(Counted(g)) + 1 = (Cardinality(Counted(g)) + 1) + 0
      BY Zenon, <2>2, <3>1, <3>2, <3>3
    <3>5. QED
      BY Zenon, <1>6, <2>6, <2>8, <3>4
  <2>10. g \notin freelist' /\ pte' = pte
    BY Zenon, <1>1, <2>2
  <2>11. QED
    BY Zenon, <2>1, <2>2, <2>3, <2>5, <2>9, <2>10 DEF Good
<1>15. QED
  BY Zenon, <1>13, <1>14 DEF Refs

-----------------------------------------------------------------------------
\* Initially one page is mapped, and the others are free.
LEMMA InitRefs ==
  ASSUME CowAssumption, Counting, CowInit PROVE Refs
<1> DEFINE p == first
<1>1. PICK g \in Page :
        /\ freelist = Page \ {g} /\ ref_cnt = [h \in Page |-> IF h = g THEN 1 ELSE 0]
        /\ pte = [q \in Proc |-> [a \in VA |-> IF q = p /\ a = 0 THEN UserPte(g) ELSE NoPte]]
        /\ loc = [q \in Proc |-> IF q = p THEN "user" ELSE "unused"]
        /\ r = [q \in Proc |-> NoPage] /\ new = [q \in Proc |-> NoPage]
  BY Zenon DEF CowInit
<1>2. p \in Proc /\ 0 \in VA
  BY DEF CowAssumption, VA
<1>3. UserPte(g) # NoPte /\ UserPte(g).pa = g
  <2>1. UserPte(g) \in PTE /\ UserPte(g).pa = g
    BY Zenon DEF UserPte, PTE
  <2>2. QED
    BY Zenon, <2>1 DEF CowAssumption
<1>4. \A x \in Proc : loc[x] \in {"user", "unused"} /\ r[x] = NoPage /\ new[x] = NoPage
  BY Zenon, <1>1
<1>5. ASSUME NEW h \in Page, NEW x \in Proc PROVE ~ Carries(x, h) /\ ~ Transfers(x, h)
  BY Zenon, <1>4 DEF Carries, Transfers, CowAssumption
<1>6. ASSUME NEW h \in Page, NEW x \in Proc, NEW a \in VA
      PROVE  /\ MapsTo(x, a, h) <=> h = g /\ x = p /\ a = 0
             /\ Counts(x, a, h) <=> h = g /\ x = p /\ a = 0
  <2>1. ~ Dying(x, a) /\ ~ WorksAt(x, a, {"copy_ref"})
    BY Zenon, <1>4 DEF Dying, WorksAt
  <2>2. pte[x][a] = IF x = p /\ a = 0 THEN UserPte(g) ELSE NoPte
    BY Zenon, <1>1
  <2>3. QED
    BY Zenon, <1>3, <2>1, <2>2 DEF MapsTo, Counts
<1>7. ASSUME NEW h \in Page PROVE Carriers(h) = {} /\ InTransit(h) = {}
  BY Zenon, <1>5, HeldBy DEF Carriers, InTransit
<1>8. Cardinality({}) = 0 /\ Cardinality({<<p, 0>>}) = 1
  BY Zenon DEF Counting
<1>9. 0 = 0 + 0 /\ 1 = 1 + 0 /\ 0 # 1 /\ 0 < REFMOD /\ 1 < REFMOD
  BY DEF Counting
<1>10. ASSUME NEW h \in Page, h # g PROVE Good(h)
  <2>1. PTEs(h) = {} /\ Counted(h) = {}
    BY Zenon, <1>6, <1>10, Pairs
  <2>2. ref_cnt[h] = 0 /\ h \in freelist
    BY Zenon, <1>1, <1>10
  <2>3. QED
    BY Zenon, <1>7, <1>8, <1>9, <2>1, <2>2 DEF Good
<1>11. Good(g)
  <2>1. PTEs(g) = {<<p, 0>>} /\ Counted(g) = {<<p, 0>>}
    <3>1. <<p, 0>> \in PTEs(g) /\ <<p, 0>> \in Counted(g)
      BY Zenon, <1>2, <1>6, Pairs
    <3>2. \A x \in PTEs(g) : x = <<p, 0>>
      <4>1. ASSUME NEW x \in PTEs(g) PROVE x[1] = p /\ x[2] = 0 /\ x = <<x[1], x[2]>>
        <5>1. x[1] \in Proc /\ x[2] \in VA /\ x = <<x[1], x[2]>> /\ MapsTo(x[1], x[2], g)
          BY Zenon, Pairs
        <5>2. QED
          BY Zenon, <1>6, <5>1
      <4>2. QED
        BY Zenon, <4>1
    <3>3. QED
      BY Zenon, <3>1, <3>2, Pairs
  <2>2. ref_cnt[g] = 1 /\ g \notin freelist
    BY Zenon, <1>1
  <2>3. QED
    BY Zenon, <1>7, <1>8, <1>9, <2>1, <2>2 DEF Good
<1>12. QED
  BY Zenon, <1>10, <1>11 DEF Refs

\* Nothing that the invariant speaks of changes.
LEMMA SameRefs ==
  ASSUME Refs,
         UNCHANGED <<freelist, ref_cnt, pte, sz, loc, pagetable, va, end, after, r, ret, new>>
  PROVE  Refs'
<1>1. \A x \in Proc : Still(x)
  BY Zenon DEF Still
<1>2. QED
  BY Zenon, <1>1, QuietStep

\* Every step of Next keeps the references right.
LEMMA NextRefs ==
  ASSUME CowAssumption, Counting, Control, Refs, [CowNext]_cowvars PROVE Refs'
<1>1. CASE UNCHANGED cowvars
  BY Zenon, <1>1, SameRefs DEF cowvars, kvars, loop
<1>2. ASSUME NEW p \in Proc, Step(p) PROVE Refs'
  BY Zenon, <1>2, KallocRefs, IncrefRefs, KfreeRefs, PushRefs, CowCopyRefs, CowFailRefs,
     CowMapRefs, UnmapRefs, ClearRefs, UnmappedRefs, GrowLoopRefs, GrowMapRefs,
     GrowMapFailRefs, GrowUndoRefs, CopyRefs, CopyRefRefs, CopyFailRefs, ForkDoneRefs DEF Step
<1>3. ASSUME NEW p \in Proc, NEW a \in VA, NEW v \in Value, Store(p, a, v) PROVE Refs'
  BY Zenon, <1>3, SameRefs DEF Store, kvars, loop
<1>4. ASSUME NEW p \in Proc, NEW a \in VA, NEW v \in Value, Copyout(p, a, v) PROVE Refs'
  <2>1. /\ loc[p] = "user"
        /\ UNCHANGED <<freelist, ref_cnt, pte, sz, pagetable, end, after, r, new>>
    BY Zenon, <1>4 DEF Copyout, At
  <2>2. CASE UNCHANGED <<loc, va, ret, val>>
    BY Zenon, <2>1, <2>2, SameRefs
  <2>3. CASE va' = [va EXCEPT ![p] = a] /\ CallKalloc(p, "cow_copy")
    BY Zenon, <2>1, <2>3, FaultRefs
  <2>4. QED
    BY Zenon, <1>4, <2>2, <2>3 DEF Copyout
<1>5. ASSUME NEW p \in Proc, NEW a \in VA, StoreFault(p, a) PROVE Refs'
  <2>1. /\ loc[p] = "user"
        /\ UNCHANGED <<freelist, ref_cnt, pte, sz, pagetable, end, after, r, new>>
    BY Zenon, <1>5 DEF StoreFault, At
  <2>2. CASE va' = [va EXCEPT ![p] = a] /\ CallKalloc(p, "cow_copy")
    BY Zenon, <2>1, <2>2, FaultRefs
  <2>3. CASE Goes(p, Exited(p)) /\ UNCHANGED <<va, ret>>
    BY Zenon, <2>1, <2>3, ExitRefs
  <2>4. QED
    BY Zenon, <1>5, <2>2, <2>3 DEF StoreFault
<1>6. ASSUME NEW p \in Proc, ExitProc(p) PROVE Refs'
  BY Zenon, <1>6, ExitRefs DEF ExitProc, At, kvars, loop
<1>7. QED
  BY Zenon, <1>1, <1>2, <1>3, <1>4, <1>5, <1>6, UvmclearRefs, ShrinkRefs, GrowRefs, ForkRefs,
     ReapRefs DEF CowNext, CowHalted
-----------------------------------------------------------------------------
INSTANCE FiniteSetTheorems

\* Sets of PTEs and of processes are finite, and PTEs of one address are not more
\* than there are processes.
LEMMA CountingHolds == ASSUME CowAssumption PROVE Counting
<1>1. IsFiniteSet(VA)
  BY FS_Interval DEF VA, CowAssumption
<1>2. IsFiniteSet(Proc \X VA) /\ IsFiniteSet(Proc)
  BY Zenon, <1>1, FS_Product DEF CowAssumption
<1>3. Cardinality({}) = 0 /\ \A x : Cardinality({x}) = 1
  BY Zenon, FS_EmptySet, FS_Singleton
<1>4. ASSUME NEW S \in SUBSET (Proc \X VA)
      PROVE  /\ Cardinality(S) \in Nat /\ (Cardinality(S) = 0 <=> S = {})
             /\ \A x \in S : Cardinality(S \ {x}) = Cardinality(S) - 1
             /\ \A x : x \notin S => Cardinality(S \cup {x}) = Cardinality(S) + 1
  <2>1. IsFiniteSet(S)
    BY Zenon, <1>2, FS_Subset
  <2>2. QED
    BY Zenon, <2>1, FS_CardinalityType, FS_EmptySet, FS_RemoveElement, FS_AddElement
<1>5. ASSUME NEW T \in SUBSET Proc PROVE Cardinality(T) \in Nat /\ (Cardinality(T) = 0 <=> T = {})
  <2>1. IsFiniteSet(T)
    BY Zenon, <1>2, FS_Subset
  <2>2. QED
    BY Zenon, <2>1, FS_CardinalityType, FS_EmptySet
<1>6. ASSUME NEW a \in VA, NEW S \in SUBSET (Proc \X {a})
      PROVE  Cardinality(S) <= Cardinality(Proc)
  <2>1. IsFiniteSet({a}) /\ Cardinality({a}) = 1
    BY Zenon, FS_Singleton
  <2>2. /\ IsFiniteSet(Proc \X {a})
        /\ Cardinality(Proc \X {a}) = Cardinality(Proc) * Cardinality({a})
    BY Zenon, <1>2, <2>1, FS_Product
  <2>3. Cardinality(S) <= Cardinality(Proc \X {a})
    BY Zenon, <2>2, FS_Subset
  <2>4. Cardinality(Proc) * 1 = Cardinality(Proc)
    BY <1>5
  <2>5. QED
    BY Zenon, <2>1, <2>2, <2>3, <2>4
<1>7. REFMOD \in Nat /\ REFMOD > 1 /\ Cardinality(Proc) \in Nat /\ Cardinality(Proc) < REFMOD
  <2>1. Cardinality(Proc) \in Nat /\ Cardinality(Proc) # 0
    BY Zenon, <1>5 DEF CowAssumption
  <2>2. QED
    BY <2>1 DEF CowAssumption
<1>8. QED
  BY Zenon, <1>3, <1>4, <1>5, <1>6, <1>7 DEF Counting

IInv == Control /\ Refs

\* The invariant is inductive.
THEOREM CowInvariant == CowSpec => []IInv
<1> USE CowConstants
<1>1. CowInit => IInv
  BY Zenon, CountingHolds, InitControl, InitRefs DEF IInv
<1>2. IInv /\ [CowNext]_cowvars => IInv'
  BY Zenon, CountingHolds, NextControl, NextRefs DEF IInv
<1>3. QED
  BY <1>1, <1>2, PTL DEF CowSpec

\* ref_cnt is exact at every step of fork, of the fault handler and of uvmunmap,
\* and it never overflows: there are fewer processes than it can count.
LEMMA CountsAreExact == CowSpec => []CountsExact
<1> USE CowConstants
<1>1. IInv => CountsExact
  BY Zenon DEF IInv, Refs, Good, CountsExact
<1>2. QED
  BY <1>1, CowInvariant, PTL

\* No page is lost, freed twice or handed out while it is used.
LEMMA PagesFreeOrUsed == CowSpec => []FreeOrUsed
<1> USE CowConstants
<1>1. \A p \in Proc : Cardinality({p}) = 1
  BY Zenon, FS_Singleton
<1>2. IInv => FreeOrUsed
  <2> SUFFICES ASSUME IInv, NEW g \in Page
               PROVE  IF ref_cnt[g] = 0
                      THEN \/ g \in freelist /\ InTransit(g) = {}
                           \/ g \notin freelist /\ Cardinality(InTransit(g)) = 1
                      ELSE g \notin freelist /\ InTransit(g) = {}
    BY Zenon DEF FreeOrUsed
  <2>1. Good(g)
    BY Zenon DEF IInv, Refs
  <2>2. QED
    BY Zenon, <1>1, <2>1 DEF Good
<1>3. QED
  BY <1>2, CowInvariant, PTL

\* A page that a program can write has one PTE: nobody sees the store.
THEOREM WritablePagesPrivate == CowSpec => []WritableIsPrivate
<1> USE CowConstants
<1>1. IInv => WritableIsPrivate
  <2> SUFFICES ASSUME IInv, NEW p \in Proc, NEW a \in VA, pte[p][a] # NoPte, pte[p][a].w,
                      ~ Dying(p, a)
               PROVE  PTEs(pte[p][a].pa) = {<<p, a>>}
    BY Zenon DEF WritableIsPrivate
  <2>1. pte[p][a] \in PTE
    BY Zenon, Here DEF IInv
  <2>2. PICK g \in Page : g = pte[p][a].pa
    BY Zenon, <2>1 DEF PTE
  <2>3. Good(g) /\ MapsTo(p, a, g)
    BY Zenon, <2>2 DEF IInv, Refs, MapsTo
  <2>4. <<p, a>> \in PTEs(g)
    BY Zenon, <2>3, Pairs
  <2>5. <<p, a>>[1] = p /\ <<p, a>>[2] = a
    OBVIOUS
  <2>6. QED
    BY Zenon, <2>2, <2>3, <2>4, <2>5 DEF Good
<1>2. QED
  BY <1>1, CowInvariant, PTL

\* All of it, for any number of processes, pages and virtual pages: reference
\* counts are exact, no page is lost, freed twice or handed out while it is used,
\* and no panic is reachable.
THEOREM ReferencesCounted == CowSpec => []RefsExact
<1> USE CowConstants
<1>1. IInv => NoPanic
  BY Zenon, PanicsUnreachable DEF IInv
<1>2. QED
  BY <1>1, CowInvariant, CountsAreExact, PagesFreeOrUsed, PTL DEF RefsExact

\* Copy-on-write fork implements AddressSpaces: every step of fork, of the fault
\* handler, of sbrk, exit and wait, of kalloc and of kfree is, for user programs,
\* a step of a kernel in which nothing is shared, or no step at all.
THEOREM CopyOnWriteIsPrivate == CowSpec => ImplementsAddressSpaces
<1> USE CowConstants
<1>1. CowInit => Contents /\ Private!Init
  BY Zenon, InitSeen
<1>2. IInv /\ Contents /\ [CowNext]_cowvars => Contents' /\ [Private!Next]_Space
  BY Zenon, CountingHolds, KeptApart, NextSeen DEF IInv, Seen
<1>3. CowSpec => []IInv
  BY Zenon, CowInvariant
<1>4. QED
  BY <1>1, <1>2, <1>3, PTL DEF CowSpec, ImplementsAddressSpaces, Private!Spec
=============================================================================
