------------------------------- MODULE Umalloc -------------------------------
(***************************************************************************)
(* malloc and free of user programs (xv6-lab-pagetables/user/umalloc.c): a *)
(* circular list of free blocks in the order of their addresses.           *)
(*                                                                         *)
(* An address counts headers.  base, a variable of the library, is below   *)
(* the heap; memory that the program gets from sbrk for itself leaves      *)
(* holes in the heap.                                                      *)
(***************************************************************************)
EXTENDS Integers, FiniteSets, FiniteSetsExt

CONSTANTS HEADER,    \* sizeof(Header)
          CHUNK,     \* the least that morecore asks for (4096)
          LIMIT,     \* where sbrk fails
          Requests,  \* the arguments of malloc, in bytes
          Holes      \* the arguments of the program's own sbrk, in headers

Addr == 0 .. LIMIT
base == 0

VARIABLES
  freep,   \* or -1 for null
  header,  \* ptr and size of each header
  used,    \* the blocks that malloc returned
  asked,   \* and for how many bytes
  core,    \* what morecore got
  brk

vars == <<freep, header, used, asked, core, brk>>

Nowhere == [ptr |-> -1, size |-> 0]

Init ==
  /\ freep = -1
  /\ header = [a \in Addr |-> Nowhere]
  /\ used = {} /\ asked = [a \in Addr |-> 0]
  /\ core = {} /\ brk = 1

\* The k-th block along the list h from f on.
Along(h, f) ==
  LET to[k \in 0 .. LIMIT] == IF k = 0 THEN f ELSE h[to[k - 1]].ptr IN to

\* Mutant: no merging with the block below.
freeUpper(h, f, bp) ==
  LET to == Along(h, f)
      Here(p) == \/ bp > p /\ bp < h[p].ptr
                 \/ p >= h[p].ptr /\ (bp > p \/ bp < h[p].ptr)
      p == to[Min({k \in 0 .. LIMIT : Here(to[k])})]
      q == h[p].ptr
      b == IF bp + h[bp].size = q
           THEN [size |-> h[bp].size + h[q].size, ptr |-> h[q].ptr]
           ELSE [size |-> h[bp].size, ptr |-> q]
  IN [freep |-> p, header |-> [h EXCEPT ![bp] = b, ![p].ptr = bp]]

\* The list of header h and freep f after free of the block at bp.
free(h, f, bp) ==
  LET to == Along(h, f)
      Here(p) == \/ bp > p /\ bp < h[p].ptr
                 \/ p >= h[p].ptr /\ (bp > p \/ bp < h[p].ptr)
      p == to[Min({k \in 0 .. LIMIT : Here(to[k])})]
      q == h[p].ptr
      b == IF bp + h[bp].size = q
           THEN [size |-> h[bp].size + h[q].size, ptr |-> h[q].ptr]
           ELSE [size |-> h[bp].size, ptr |-> q]
      g == IF bp + h[bp].size = q THEN [h EXCEPT ![bp] = b, ![q] = Nowhere]
           ELSE [h EXCEPT ![bp] = b]
  IN
  [freep |-> p,
   header |-> IF p + g[p].size = bp
              THEN [g EXCEPT ![p] = [size |-> @.size + b.size, ptr |-> b.ptr], ![bp] = Nowhere]
              ELSE [g EXCEPT ![p].ptr = bp]]

\* The steps along the list after which a block of nunits is found, within a round.
Fits(h, f, nunits) ==
  LET to == Along(h, f)
      round == Min({k \in 1 .. LIMIT : to[k] = f})
  IN {k \in 1 .. round : h[to[k]].size >= nunits}

\* malloc takes the tail of the first block that is large enough, or all of it.
Take(h, f, nunits, nbytes) ==
  LET to   == Along(h, f)
      k    == Min(Fits(h, f, nunits))
      p    == to[k]
      rest == h[p].size - nunits
      bp   == p + rest
      whole == [ptr |-> -1, size |-> nunits]
  IN
  /\ header' = IF rest = 0 THEN [h EXCEPT ![to[k - 1]].ptr = h[p].ptr, ![p] = whole]
               ELSE [h EXCEPT ![p].size = rest, ![bp] = whole]
  /\ freep' = to[k - 1]
  /\ used' = used \cup {bp}
  /\ asked' = [asked EXCEPT ![bp] = nbytes]

malloc(nbytes) ==
  LET nunits == (nbytes + HEADER - 1) \div HEADER + 1
      first  == freep = -1
      h      == IF first THEN [header EXCEPT ![base] = [ptr |-> base, size |-> 0]] ELSE header
      f      == IF first THEN base ELSE freep
      nu     == IF nunits < CHUNK THEN CHUNK ELSE nunits   \* morecore
      more   == free([h EXCEPT ![brk].size = nu], f, brk)
  IN
  \/ /\ Fits(h, f, nunits) # {}
     /\ Take(h, f, nunits, nbytes)
     /\ UNCHANGED <<core, brk>>
  \/ /\ Fits(h, f, nunits) = {} /\ brk + nu > LIMIT
     /\ header' = h /\ freep' = f
     /\ UNCHANGED <<used, asked, core, brk>>
  \/ /\ Fits(h, f, nunits) = {} /\ brk + nu <= LIMIT
     /\ core' = core \cup (brk .. brk + nu - 1)
     /\ brk' = brk + nu
     /\ Take(more.header, more.freep, nunits, nbytes)

Free(bp) ==
  LET m == free(header, freep, bp) IN
  /\ bp \in used
  /\ header' = m.header /\ freep' = m.freep
  /\ used' = used \ {bp}
  /\ asked' = [asked EXCEPT ![bp] = 0]
  /\ UNCHANGED <<core, brk>>

\* The program calls sbrk itself.
Hole(n) ==
  /\ brk + n <= LIMIT
  /\ brk' = brk + n
  /\ UNCHANGED <<freep, header, used, asked, core>>

Next ==
  \/ \E n \in Requests : malloc(n)
  \/ \E bp \in used : Free(bp)
  \/ \E n \in Holes : Hole(n)

Spec == Init /\ [][Next]_vars

-----------------------------------------------------------------------------
\* The blocks on the free list.
Listed == IF freep = -1 THEN {} ELSE {Along(header, freep)[k] : k \in 0 .. LIMIT}

Extent(a) == a .. a + header[a].size - 1

\* Blocks in use and free blocks never overlap and make up all that sbrk gave,
\* and a block in use has the bytes that were asked for after its header.
BlocksTile ==
  LET blocks == used \cup (Listed \ {base}) IN
  /\ used \cap Listed = {}
  /\ UNION {Extent(a) : a \in blocks} = core
  /\ \A a, b \in blocks : a # b => Extent(a) \cap Extent(b) = {}
  /\ \A a \in used : (header[a].size - 1) * HEADER >= asked[a]

\* No two free blocks are neighbours: free merges with both sides, so that memory
\* of which all is freed can be given out in one piece again.
Coalesced ==
  \A a, b \in Listed \ {base} : a + header[a].size # b
=============================================================================
