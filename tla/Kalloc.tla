------------------------------- MODULE Kalloc -------------------------------
(***************************************************************************)
(* The page allocator with one free list per CPU (xv6-lab-locks/kalloc.c). *)
(* A process takes a page from the list of the CPU it runs on, and steals  *)
(* one from the other lists, one lock at a time, when that list is empty.  *)
(* A page goes back to the list of the part of memory it lies in.          *)
(*                                                                         *)
(* Addresses are numbers.  kinit divides the memory from end to PHYSTOP    *)
(* into NCPU parts whose bounds are no page boundaries; end is fixed by    *)
(* the linker, so every value of it is a possible initial state.           *)
(***************************************************************************)
EXTENDS Integers, FiniteSets

CONSTANTS Proc, NCPU, PGSIZE, PHYSTOP,
          Ends   \* possible values of end

Null == -1

\* The remainder of the division by NCPU is smaller than a page.
ASSUME KallocAssumption ==
  /\ NCPU \in Nat \ {0}
  /\ PGSIZE \in Nat
  /\ NCPU <= PGSIZE
  /\ PHYSTOP \in Nat
  /\ PHYSTOP % PGSIZE = 0
  /\ Ends \subseteq 0 .. PHYSTOP

VARIABLES
  end,    \* the first address after the kernel
  kmem,   \* the free list of each CPU
  held,   \* the pages each process has allocated
  pc, cid, id  \* of each process in kalloc

vars == <<end, kmem, held, pc, cid, id>>

Cpu == 0 .. NCPU - 1

\* The addresses of all pages, and of those kfree accepts.
Pages == {a \in 0 .. PHYSTOP - 1 : a % PGSIZE = 0}
Valid == {a \in Pages : a >= end}

chunk == (PHYSTOP - end) \div NCPU

\* The first part that pa lies in; -1 when there is none.
pa2cpuid(pa) ==
  LET ids == {i \in Cpu : /\ end + (i + 1) * chunk <= PHYSTOP
                          /\ pa >= end + i * chunk
                          /\ pa <= end + (i + 1) * chunk}
  IN  IF ids = {} THEN -1 ELSE CHOOSE i \in ids : \A j \in ids : i <= j

\* The pages freerange frees.
freerange(pa_start, pa_end) ==
  {a \in Pages : pa_start <= a /\ a + PGSIZE <= pa_end}

\* kinit frees the whole pages of each part; kfree panics when a page lies in
\* none of them.
Freed ==
  UNION {freerange(end + i * chunk, PHYSTOP - (NCPU - i - 1) * chunk) : i \in Cpu}

Init ==
  /\ end \in Ends
  /\ kmem = [i \in Cpu |-> {a \in Freed : pa2cpuid(a) = i}]
  /\ held = [p \in Proc |-> {}]
  /\ pc = [p \in Proc |-> IF \E a \in Freed : pa2cpuid(a) < 0 THEN "panic"
                          ELSE "idle"]
  /\ cid = [p \in Proc |-> Null]
  /\ id = [p \in Proc |-> 0]

-----------------------------------------------------------------------------
\* kalloc reads the number of its CPU; the process may move to another CPU
\* before it locks the list.
Kalloc(p, c) ==
  /\ pc[p] = "idle"
  /\ pc' = [pc EXCEPT ![p] = "own"]
  /\ cid' = [cid EXCEPT ![p] = c]
  /\ UNCHANGED <<end, kmem, held, id>>

\* kalloc returns with the pages of g.
Return(p, g) ==
  /\ held' = [held EXCEPT ![p] = @ \cup g]
  /\ pc' = [pc EXCEPT ![p] = "idle"]
  /\ cid' = [cid EXCEPT ![p] = Null]
  /\ id' = [id EXCEPT ![p] = 0]

\* The list of its own CPU.
TakeOwn(p) ==
  /\ pc[p] = "own"
  /\ \E a \in kmem[cid[p]] :
       /\ kmem' = [kmem EXCEPT ![cid[p]] = @ \ {a}]
       /\ Return(p, {a})
  /\ UNCHANGED end

OwnEmpty(p) ==
  /\ pc[p] = "own"
  /\ kmem[cid[p]] = {}
  /\ pc' = [pc EXCEPT ![p] = "steal"]
  /\ UNCHANGED <<end, kmem, held, cid, id>>

\* Mutant: the page stays on the list it was stolen from.
StealShared(p) ==
  /\ pc[p] = "steal"
  /\ id[p] < NCPU
  /\ id[p] # cid[p]
  /\ \E a \in kmem[id[p]] : Return(p, {a})
  /\ UNCHANGED <<end, kmem>>

\* find_freepage: the list of another CPU has a page ...
Steal(p) ==
  /\ pc[p] = "steal"
  /\ id[p] < NCPU
  /\ id[p] # cid[p]
  /\ \E a \in kmem[id[p]] :
       /\ kmem' = [kmem EXCEPT ![id[p]] = @ \ {a}]
       /\ Return(p, {a})
  /\ UNCHANGED end

\* ... or is empty, or is its own.
Skip(p) ==
  /\ pc[p] = "steal"
  /\ id[p] < NCPU
  /\ id[p] # cid[p] => kmem[id[p]] = {}
  /\ id' = [id EXCEPT ![p] = @ + 1]
  /\ UNCHANGED <<end, kmem, held, pc, cid>>

\* kalloc returns 0.
Fail(p) ==
  /\ pc[p] = "steal"
  /\ id[p] = NCPU
  /\ pc' = [pc EXCEPT ![p] = "failed"]
  /\ UNCHANGED <<end, kmem, held, cid, id>>

\* The caller goes on without the page.
GiveUp(p) ==
  /\ pc[p] = "failed"
  /\ Return(p, {})
  /\ UNCHANGED <<end, kmem>>

\* kfree of a page that kalloc returned to p.
Kfree(p, a) ==
  LET tid == pa2cpuid(a) IN
  /\ pc[p] = "idle"
  /\ a \in held[p]
  /\ IF tid < 0
     THEN pc' = [pc EXCEPT ![p] = "panic"] /\ UNCHANGED <<kmem, held>>
     ELSE /\ kmem' = [kmem EXCEPT ![tid] = @ \cup {a}]
          /\ held' = [held EXCEPT ![p] = @ \ {a}]
          /\ UNCHANGED pc
  /\ UNCHANGED <<end, cid, id>>

Step(p) ==
  \/ TakeOwn(p) \/ OwnEmpty(p) \/ Steal(p) \/ Skip(p) \/ Fail(p) \/ GiveUp(p)

Next ==
  \E p \in Proc : \/ \E c \in Cpu : Kalloc(p, c)
                  \/ Step(p)
                  \/ \E a \in Pages : Kfree(p, a)

Spec == Init /\ [][Next]_vars
-----------------------------------------------------------------------------
\* Every variable has its type.
TypeOK ==
  /\ end \in Ends
  /\ kmem \in [Cpu -> SUBSET Pages]
  /\ held \in [Proc -> SUBSET Pages]
  /\ pc \in [Proc -> {"idle", "own", "steal", "failed", "panic"}]
  /\ cid \in [Proc -> Cpu \cup {Null}]
  /\ id \in [Proc -> 0 .. NCPU]

\* A page is never on two lists, with two processes, or on a list and with a
\* process: two CPUs that steal at the same time do not get the same page.
NeverShared ==
  /\ \A i, j \in Cpu : i # j => kmem[i] \cap kmem[j] = {}
  /\ \A p, q \in Proc : p # q => held[p] \cap held[q] = {}
  /\ \A i \in Cpu, p \in Proc : kmem[i] \cap held[p] = {}

\* A page that is free is on the list of the part it lies in, wherever it was
\* allocated; kfree never panics.
HomeList ==
  /\ \A i \in Cpu : \A a \in kmem[i] : a \in Valid /\ pa2cpuid(a) = i
  /\ \A p \in Proc : pc[p] # "panic"

\* No page is in two places, and a free one is on the list of its part.
ListsExact == NeverShared /\ HomeList

\* The pages the allocator manages.
Managed == (UNION {kmem[i] : i \in Cpu}) \cup (UNION {held[p] : p \in Proc})

\* kinit loses only pages that lie across the bound of two parts, and after
\* it no page is ever lost.
FewLost == Cardinality(Valid \ Managed) < NCPU
=============================================================================
