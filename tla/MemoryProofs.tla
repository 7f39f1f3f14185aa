---------------------------- MODULE MemoryProofs -----------------------------
(***************************************************************************)
(* Copies between the kernel and user memory, for pages and words of any   *)
(* size and any page table; and the page allocator, for any number of CPUs *)
(* and processes, any size of memory and any end of the kernel.            *)
(*                                                                         *)
(* CopyExact is not inductive, since it is about calls that have returned: *)
(* CopyInv says what each loop has copied so far, and where it goes on.    *)
(* Nor is ListsExact: that kfree finds a list for a page which a process   *)
(* holds follows from how kinit divides the memory, so IInv adds where     *)
(* held pages lie.                                                         *)
(***************************************************************************)
EXTENDS Kalloc, UserMemory, WellFoundedInduction, FiniteSetTheorems, TLAPS

\* A set of natural numbers has a smallest element.
LEMMA Smallest ==
  ASSUME NEW S, S \subseteq Nat, S # {}
  PROVE  \E i \in S : \A j \in S : i <= j
<1> DEFINE R == OpToRel(<, Nat)
<1>1. \A i, j \in Nat : <<i, j>> \in R <=> i < j
  BY DEF OpToRel
<1>2. \E i \in S : \A j \in S : <<j, i>> \notin R
  <2> HIDE DEF R
  <2>1. IsWellFoundedOn(R, Nat)
    BY Zenon, NatLessThanWellFounded DEF R
  <2>2. QED BY <2>1, WFMin, Zenon
<1>3. QED
  <2> HIDE DEF R
  <2>1. PICK i \in S : \A j \in S : <<j, i>> \notin R
    BY <1>2
  <2>2. \A j \in S : ~ (j < i)
    BY Zenon, <1>1, <2>1
  <2>3. QED BY <2>2

\* Copies between the kernel and user memory.
CopyOps == {"copyin", "copyout", "copyinstr", "fetchaddr", "memmove"}

\* Buffers and memories.
Bytes(b)  == b = [k \in C!Buffer |-> b[k]]
Frames(m) == m = [f \in C!Frame |-> [o \in C!Offset |-> m[f][o]]]

Jobs == [op : CopyOps \cup {"none"}, pc : {"idle", "loop", "done"}, va : Nat, len : Nat,
         at : Nat, left : Nat, i : Nat, r : {0, -1}]

\* The types; no two pages of a process are in one frame.
CopyTyped ==
  /\ c_pagetable \in [C!Page -> 0 .. c_NPAGE]
  /\ \A v, w \in C!Page : v # w /\ c_pagetable[v] # 0 => c_pagetable[v] # c_pagetable[w]
  /\ c_sz \in Nat
  /\ Frames(c_mem) /\ Bytes(c_buf)
  /\ Frames(c_was.mem) /\ Bytes(c_was.buf)
  /\ c_job \in Jobs

\* Where a loop over pages is: i bytes are done, and the next one is at.
InPlace(j) ==
  /\ j.i + j.left = j.len
  /\ j.left > 0 => j.at = j.va + j.i
  /\ C!Valid(j.va, j.i)

\* The first i bytes from va on are stored in user memory, and nothing else is.
Stored(va, i) ==
  /\ \A a \in C!VA : C!walkaddr(a) # 0 =>
       c_mem[C!walkaddr(a)][a % c_PGSIZE] =
         IF a \in C!Range(va, i) THEN c_buf[a - va] ELSE C!User(a)
  /\ \A f \in C!Frame : (\A v \in C!Page : c_pagetable[v] # f) => c_mem[f] = c_was.mem[f]

\* The bytes of memmove whose numbers are in K are moved.
Moved(dst, src, K) ==
  c_buf = [k \in C!Buffer |-> IF k - dst \in K THEN c_was.buf[src + k - dst] ELSE c_was.buf[k]]

\* The bytes that memmove has moved: the first ones, or the last ones.
Dealt(j) == IF j.va > j.at THEN 0 .. j.len - j.left - 1 ELSE j.left .. j.len - 1

\* The loops.
Looping(j) ==
  /\ j.op \in CopyOps /\ j.r = 0
  /\ j.op # "memmove" => InPlace(j)
  /\ j.op \in {"copyin", "fetchaddr", "copyinstr"} => C!Got(j.va, j.i) /\ c_mem = c_was.mem
  /\ j.op = "fetchaddr" => j.va + j.len <= c_sz
  /\ j.op = "copyinstr" => \A k \in 0 .. j.i - 1 : C!User(j.va + k) # 0
  /\ j.op = "copyout" => Stored(j.va, j.i)
  /\ j.op = "memmove" => /\ j.left <= j.len
                         /\ j.at + j.len <= c_MAXLEN /\ j.va + j.len <= c_MAXLEN
                         /\ Moved(j.at, j.va, Dealt(j))

\* The inductive invariant.
CopyInv ==
  /\ CopyTyped
  /\ c_job.pc = "idle" => c_mem = c_was.mem /\ c_buf = c_was.buf
  /\ c_job.pc = "loop" => Looping(c_job)
  /\ CopyExact

\* Quotients and remainders.
LEMMA Quotient ==
  ASSUME NEW a \in Nat, NEW p \in Nat \ {0}
  PROVE  /\ a \div p \in Nat /\ a % p \in Nat /\ a % p \in 0 .. p - 1
         /\ a = p * (a \div p) + (a % p)
OBVIOUS

\* A product grows with its factors.
LEMMA Grows ==
  ASSUME NEW p \in Nat, NEW m \in Nat, NEW n \in Nat, m <= n
  PROVE  p * m <= p * n
<1>1. PICK d \in Nat : n = m + d
  <2>1. n - m \in Nat /\ n = m + (n - m)
    OBVIOUS
  <2>2. QED BY <2>1
<1>2. p * n = p * m + p * d /\ p * d \in Nat /\ p * m \in Nat
  BY <1>1
<1>3. QED BY <1>2

\* They are unique.
LEMMA QuotientIs ==
  ASSUME NEW a \in Nat, NEW p \in Nat \ {0}, NEW q \in Nat, NEW r \in 0 .. p - 1,
         a = p * q + r
  PROVE  a \div p = q /\ a % p = r
<1> DEFINE q0 == a \div p
           r0 == a % p
<1>1. q0 \in Nat /\ r0 \in 0 .. p - 1 /\ a = p * q0 + r0
  BY Zenon, Quotient
<1> HIDE DEF q0, r0
<1>2. ~ (q + 1 <= q0)
  <2> SUFFICES ASSUME q + 1 <= q0 PROVE FALSE
    OBVIOUS
  <2>1. p * (q + 1) <= p * q0
    BY <1>1, Grows
  <2>2. p * (q + 1) = p * q + p
    OBVIOUS
  <2>3. QED
    <3>1. PICK x \in Int, y \in Int, z \in Int : x = p * q /\ y = p * q0 /\ z = p * (q + 1)
      BY <1>1
    <3>2. QED BY <1>1, <2>1, <2>2, <3>1
<1>3. ~ (q0 + 1 <= q)
  <2> SUFFICES ASSUME q0 + 1 <= q PROVE FALSE
    OBVIOUS
  <2>1. p * (q0 + 1) <= p * q
    BY <1>1, Grows
  <2>2. p * (q0 + 1) = p * q0 + p
    BY <1>1
  <2>3. QED
    <3>1. PICK x \in Int, y \in Int, z \in Int : x = p * q /\ y = p * q0 /\ z = p * (q0 + 1)
      BY <1>1
    <3>2. QED BY <1>1, <2>1, <2>2, <3>1
<1>4. q0 = q
  BY <1>1, <1>2, <1>3
<1>5. p * q \in Int
  OBVIOUS
<1>6. r0 = r
  BY <1>1, <1>4, <1>5
<1>7. QED BY <1>4, <1>6 DEF q0, r0

\* An address is one of the process exactly if its page is.
LEMMA PageOf ==
  ASSUME NEW a \in Nat
  PROVE  /\ a \in C!VA <=> a \div c_PGSIZE \in C!Page
         /\ a % c_PGSIZE \in C!Offset
<1> DEFINE q == a \div c_PGSIZE
           r == a % c_PGSIZE
<1>0. c_PGSIZE \in Nat \ {0} /\ c_NPAGE \in Nat
  BY UserMemoryAssumption
<1>1. q \in Nat /\ r \in 0 .. c_PGSIZE - 1 /\ a = c_PGSIZE * q + r
  BY Zenon, <1>0, Quotient
<1> HIDE DEF q, r
<1>2. ASSUME q <= c_NPAGE - 1 PROVE a <= c_NPAGE * c_PGSIZE - 1
  <2>1. c_PGSIZE * (q + 1) <= c_PGSIZE * c_NPAGE
    BY <1>0, <1>1, <1>2, Grows
  <2>2. c_PGSIZE * (q + 1) = c_PGSIZE * q + c_PGSIZE /\ c_PGSIZE * c_NPAGE = c_NPAGE * c_PGSIZE
    BY <1>0, <1>1
  <2>3. PICK x \in Int, y \in Int : x = c_PGSIZE * q /\ y = c_NPAGE * c_PGSIZE
    BY <1>0, <1>1
  <2>4. QED BY <1>0, <1>1, <2>1, <2>2, <2>3
<1>3. ASSUME c_NPAGE <= q PROVE a >= c_NPAGE * c_PGSIZE
  <2>1. c_PGSIZE * c_NPAGE <= c_PGSIZE * q
    BY <1>0, <1>1, <1>3, Grows
  <2>2. c_PGSIZE * c_NPAGE = c_NPAGE * c_PGSIZE
    BY <1>0
  <2>3. PICK x \in Int, y \in Int : x = c_PGSIZE * q /\ y = c_NPAGE * c_PGSIZE
    BY <1>0, <1>1
  <2>4. QED BY <1>0, <1>1, <2>1, <2>2, <2>3
<1>4. c_NPAGE * c_PGSIZE \in Int
  BY <1>0
<1>5. a \in C!VA <=> q \in C!Page
  <2>1. PICK y \in Int : y = c_NPAGE * c_PGSIZE
    BY <1>4
  <2>2. CASE q <= c_NPAGE - 1
    BY <1>0, <1>1, <1>2, <2>1, <2>2 DEF C!VA, C!Page
  <2>3. CASE c_NPAGE <= q
    BY <1>0, <1>1, <1>3, <2>1, <2>3 DEF C!VA, C!Page
  <2>4. QED BY <1>0, <1>1, <2>2, <2>3
<1>6. r \in C!Offset
  BY <1>1 DEF C!Offset
<1>7. QED BY <1>5, <1>6 DEF q, r

\* The bytes of a chunk are side by side in one frame.
LEMMA Neighbours ==
  ASSUME NEW at \in Nat, NEW c \in Nat, (at % c_PGSIZE) + c < c_PGSIZE
  PROVE  /\ C!walkaddr(at + c) = C!walkaddr(at)
         /\ (at + c) % c_PGSIZE = (at % c_PGSIZE) + c
<1> DEFINE q == at \div c_PGSIZE
           r == at % c_PGSIZE
<1>0. c_PGSIZE \in Nat \ {0}
  BY UserMemoryAssumption
<1>1. q \in Nat /\ r \in 0 .. c_PGSIZE - 1 /\ at = c_PGSIZE * q + r
  BY Zenon, <1>0, Quotient
<1>2. r + c < c_PGSIZE
  OBVIOUS
<1> HIDE DEF q, r
<1>3. at + c \in Nat /\ r + c \in 0 .. c_PGSIZE - 1 /\ at + c = c_PGSIZE * q + (r + c)
  <2>1. PICK x \in Int : x = c_PGSIZE * q
    BY <1>0, <1>1
  <2>2. QED BY <1>0, <1>1, <1>2, <2>1
<1>4. (at + c) \div c_PGSIZE = q /\ (at + c) % c_PGSIZE = r + c
  BY <1>0, <1>1, <1>3, QuotientIs
<1>5. (at + c \in C!VA) <=> (at \in C!VA)
  BY <1>3, <1>4, PageOf DEF q
<1>6. QED BY <1>4, <1>5, Zenon DEF q, r, C!walkaddr

\* PGROUNDDOWN(at) + PGSIZE is the end of the page.
LEMMA NextPage ==
  ASSUME NEW at \in Nat
  PROVE  (at \div c_PGSIZE + 1) * c_PGSIZE = at + (c_PGSIZE - (at % c_PGSIZE))
<1> DEFINE q == at \div c_PGSIZE
           r == at % c_PGSIZE
<1>0. c_PGSIZE \in Nat \ {0}
  BY UserMemoryAssumption
<1>1. q \in Nat /\ r \in 0 .. c_PGSIZE - 1 /\ at = c_PGSIZE * q + r
  BY Zenon, <1>0, Quotient
<1> HIDE DEF q, r
<1>2. (q + 1) * c_PGSIZE = c_PGSIZE * q + c_PGSIZE
  BY <1>0, <1>1
<1>3. PICK x \in Int : x = c_PGSIZE * q
  BY <1>0, <1>1
<1>4. (q + 1) * c_PGSIZE = at + (c_PGSIZE - r)
  BY <1>0, <1>1, <1>2, <1>3
<1>5. QED BY <1>4 DEF q, r

\* The frame of an address.
LEMMA FrameOf ==
  ASSUME CopyTyped, NEW a \in Nat
  PROVE  /\ C!walkaddr(a) \in C!Frame \cup {0}
         /\ a \notin C!VA => C!walkaddr(a) = 0
<1>1. CASE a \in C!VA
  <2>1. a \div c_PGSIZE \in C!Page
    BY <1>1, PageOf
  <2>2. c_pagetable[a \div c_PGSIZE] \in 0 .. c_NPAGE
    BY <2>1, Zenon DEF CopyTyped
  <2>3. QED BY <1>1, <2>2, UserMemoryAssumption DEF C!walkaddr, C!Frame
<1>2. CASE a \notin C!VA
  BY <1>2, Zenon DEF C!walkaddr
<1>3. QED BY <1>1, <1>2, Zenon

\* What a chunk is: some bytes, at most the rest of the page and of the copy.
LEMMA ChunkIs ==
  ASSUME CopyTyped, c_job.left > 0
  PROVE  /\ C!Chunk \in Nat \ {0} /\ C!Chunk <= c_job.left
         /\ (c_job.at % c_PGSIZE) + C!Chunk <= c_PGSIZE
         /\ C!Chunk < c_job.left => C!Chunk = c_PGSIZE - (c_job.at % c_PGSIZE)
<1>1. c_job.left \in Nat /\ c_job.at \in Nat
  BY DEF CopyTyped, Jobs
<1>2. c_PGSIZE \in Nat \ {0} /\ c_job.at % c_PGSIZE \in 0 .. c_PGSIZE - 1
  BY <1>1, UserMemoryAssumption, Quotient
<1>3. PICK r \in 0 .. c_PGSIZE - 1 : r = c_job.at % c_PGSIZE
  BY <1>2
<1>4. QED BY <1>1, <1>2, <1>3 DEF C!Chunk, C!Min2

\* User memory, as it was, stays.
LEMMA UserSame ==
  ASSUME UNCHANGED <<c_pagetable, c_was>>, NEW a
  PROVE  C!walkaddr(a)' = C!walkaddr(a) /\ C!User(a)' = C!User(a)
BY Zenon DEF C!walkaddr, C!User

\* A turn of a loop makes n more bytes valid.
LEMMA MoreValid ==
  ASSUME NEW va \in Nat, NEW i \in Nat, NEW n \in Nat, C!Valid(va, i), C!walkaddr(va + i) # 0,
         ((va + i) % c_PGSIZE) + n <= c_PGSIZE
  PROVE  C!Valid(va, i + n)
<1> SUFFICES ASSUME NEW a \in va .. va + (i + n) - 1 PROVE C!walkaddr(a) # 0
  BY Zenon DEF C!Valid, C!Range
<1>1. CASE a <= va + i - 1
  <2>1. a \in va .. va + i - 1
    BY <1>1
  <2>2. QED BY <2>1, Zenon DEF C!Valid, C!Range
<1>2. CASE a >= va + i
  <2>1. va + i \in Nat /\ a - (va + i) \in Nat /\ a = (va + i) + (a - (va + i)) /\ a - (va + i) < n
    BY <1>2
  <2>2. PICK c \in Nat : c = a - (va + i)
    BY <2>1
  <2>3. (va + i) % c_PGSIZE \in Nat /\ c_PGSIZE \in Nat
    BY <2>1, UserMemoryAssumption, Quotient
  <2>4. PICK r \in Nat : r = (va + i) % c_PGSIZE
    BY <2>3
  <2>5. ((va + i) % c_PGSIZE) + c < c_PGSIZE
    BY <2>1, <2>2, <2>3, <2>4
  <2>6. C!walkaddr((va + i) + c) = C!walkaddr(va + i)
    BY <2>1, <2>5, Neighbours
  <2>7. QED BY <2>1, <2>2, <2>6
<1>3. QED BY <1>1, <1>2

\* The bytes of a chunk are those of user memory.
LEMMA ChunkBytes ==
  ASSUME NEW at \in Nat, NEW n \in Nat, NEW c \in 0 .. n - 1, C!walkaddr(at) # 0,
         (at % c_PGSIZE) + n <= c_PGSIZE
  PROVE  C!User(at + c) = c_was.mem[C!walkaddr(at)][(at % c_PGSIZE) + c]
<1>1. at % c_PGSIZE \in Nat /\ c_PGSIZE \in Nat
  BY UserMemoryAssumption, Quotient
<1>2. PICK r \in Nat : r = at % c_PGSIZE
  BY <1>1
<1>3. c \in Nat /\ (at % c_PGSIZE) + c < c_PGSIZE
  BY <1>1, <1>2
<1>4. C!walkaddr(at + c) = C!walkaddr(at) /\ (at + c) % c_PGSIZE = (at % c_PGSIZE) + c
  BY <1>3, Neighbours
<1>5. QED BY <1>4, Zenon DEF C!User

\* A turn of copyin, and of copyinstr, puts them into the buffer.
LEMMA MoreGot ==
  ASSUME NEW va \in Nat, NEW i \in Nat, NEW n \in Nat, C!Got(va, i), c_mem = c_was.mem,
         C!walkaddr(va + i) # 0, ((va + i) % c_PGSIZE) + n <= c_PGSIZE,
         UNCHANGED <<c_pagetable, c_was>>,
         c_buf' = [k \in C!Buffer |-> IF k \in i .. i + n - 1
                     THEN c_mem[C!walkaddr(va + i)][((va + i) % c_PGSIZE) + k - i] ELSE c_buf[k]]
  PROVE  C!Got(va, i + n)'
<1>1. C!Buffer \subseteq Nat
  BY UserMemoryAssumption DEF C!Buffer
<1>2. PICK r \in Nat : r = (va + i) % c_PGSIZE
  <2>1. va + i \in Nat
    OBVIOUS
  <2>2. (va + i) % c_PGSIZE \in Nat
    BY <2>1, UserMemoryAssumption, Quotient
  <2>3. QED BY <2>2
<1>3. ASSUME NEW k \in C!Buffer
      PROVE  c_buf'[k] = IF k < i + n THEN C!User(va + k) ELSE c_was.buf[k]
  <2>1. k \in Nat
    BY <1>1
  <2>2. c_buf[k] = IF k < i THEN C!User(va + k) ELSE c_was.buf[k]
    BY Zenon DEF C!Got
  <2>3. CASE k \in i .. i + n - 1
    <3>1. k - i \in 0 .. n - 1 /\ (va + i) + (k - i) = va + k /\ va + i \in Nat /\ k < i + n
      BY <2>1, <2>3
    <3>2. PICK c \in 0 .. n - 1 : c = k - i
      BY <3>1
    <3>3. C!User((va + i) + c) = c_was.mem[C!walkaddr(va + i)][((va + i) % c_PGSIZE) + c]
      BY <3>1, ChunkBytes
    <3>4. ((va + i) % c_PGSIZE) + k - i = ((va + i) % c_PGSIZE) + c
      BY <1>2, <2>1, <3>2
    <3>5. c_buf'[k] = c_mem[C!walkaddr(va + i)][((va + i) % c_PGSIZE) + k - i]
      BY <2>3, Zenon
    <3>6. c_buf'[k] = C!User(va + k)
      BY <3>1, <3>2, <3>3, <3>4, <3>5, Zenon
    <3>7. QED BY <3>1, <3>6, Zenon
  <2>4. CASE k \notin i .. i + n - 1
    <3>1. c_buf'[k] = c_buf[k]
      BY <2>4, Zenon
    <3>2. k < i + n <=> k < i
      BY <2>1, <2>4
    <3>3. QED BY <2>2, <3>1, <3>2, Zenon
  <2>5. QED BY <2>3, <2>4, Zenon
<1>4. \A k \in C!Buffer : C!User(va + k)' = C!User(va + k)
  BY Zenon, UserSame
<1>5. c_buf' = [k \in C!Buffer |-> c_buf'[k]]
  BY Zenon
<1>6. c_buf' = [k \in C!Buffer |-> IF k < i + n THEN C!User(va + k)' ELSE c_was'.buf[k]]
  BY <1>3, <1>4, <1>5, Zenon
<1>7. QED BY <1>6, Zenon DEF C!Got

\* Two addresses in one frame are in one page.
LEMMA SamePage ==
  ASSUME CopyTyped, NEW a \in C!VA, NEW b \in C!VA,
         C!walkaddr(a) # 0, C!walkaddr(a) = C!walkaddr(b)
  PROVE  a - b = (a % c_PGSIZE) - (b % c_PGSIZE)
<1>0. c_PGSIZE \in Nat \ {0} /\ a \in Nat /\ b \in Nat
  BY UserMemoryAssumption DEF C!VA
<1>1. a \div c_PGSIZE \in C!Page /\ b \div c_PGSIZE \in C!Page
  BY <1>0, PageOf
<1>2. a \div c_PGSIZE = b \div c_PGSIZE
  BY <1>1, Zenon DEF C!walkaddr, CopyTyped
<1>3. PICK q \in Nat, x \in Nat, y \in Nat :
        /\ q = a \div c_PGSIZE /\ x = a % c_PGSIZE /\ y = b % c_PGSIZE
        /\ a = c_PGSIZE * q + x /\ b = c_PGSIZE * q + y
  <2>1. /\ a \div c_PGSIZE \in Nat /\ a % c_PGSIZE \in Nat
        /\ a = c_PGSIZE * (a \div c_PGSIZE) + (a % c_PGSIZE)
    BY Zenon, <1>0, Quotient
  <2>2. /\ b % c_PGSIZE \in Nat
        /\ b = c_PGSIZE * (b \div c_PGSIZE) + (b % c_PGSIZE)
    BY <1>0, Quotient
  <2>3. QED BY <1>2, <2>1, <2>2, Zenon
<1>4. PICK z \in Int : z = c_PGSIZE * q
  BY <1>0
<1>5. a = z + x /\ b = z + y
  BY <1>3, <1>4, Zenon
<1>6. a - b = x - y
  BY <1>5
<1>7. QED BY <1>3, <1>6, Zenon

\* A turn of copyout stores n more bytes.
LEMMA MoreStored ==
  ASSUME CopyTyped, NEW va \in Nat, NEW i \in Nat, NEW n \in Nat, NEW o,
         Stored(va, i), C!walkaddr(va + i) # 0,
         o = (va + i) % c_PGSIZE, o + n <= c_PGSIZE,
         UNCHANGED <<c_pagetable, c_was, c_buf>>,
         c_mem' = [c_mem EXCEPT ![C!walkaddr(va + i)] = [k \in C!Offset |->
                     IF k \in o .. o + n - 1 THEN c_buf[i + k - o] ELSE @[k]]]
  PROVE  Stored(va, i + n)'
<1> DEFINE f == C!walkaddr(va + i)
<1>0. va + i \in Nat /\ c_PGSIZE \in Nat \ {0}
  BY UserMemoryAssumption
<1>1. f \in C!Frame /\ va + i \in C!VA
  BY <1>0, FrameOf, Zenon
<1>2. o \in Nat
  BY <1>0, Quotient
<1>3. \A g \in C!Frame : g # f => c_mem'[g] = c_mem[g]
  BY Zenon DEF CopyTyped, Frames
<1>4. \A k \in C!Offset : c_mem'[f][k] = IF k \in o .. o + n - 1 THEN c_buf[i + k - o] ELSE c_mem[f][k]
  BY <1>1, Zenon DEF CopyTyped, Frames
<1>5. ASSUME NEW a \in C!VA, C!walkaddr(a) # 0
      PROVE  c_mem'[C!walkaddr(a)][a % c_PGSIZE] =
               IF a \in C!Range(va, i + n) THEN c_buf[a - va] ELSE C!User(a)
  <2>0. a \in Nat
    BY <1>0 DEF C!VA
  <2>1. C!walkaddr(a) \in C!Frame /\ a % c_PGSIZE \in C!Offset
    BY <1>5, <2>0, FrameOf, PageOf, Zenon
  <2>2. c_mem[C!walkaddr(a)][a % c_PGSIZE] = IF a \in C!Range(va, i) THEN c_buf[a - va] ELSE C!User(a)
    BY <1>5, Zenon DEF Stored
  <2>3. CASE C!walkaddr(a) # f
    <3>1. ~ (va + i <= a /\ a <= va + (i + n) - 1)
      <4> SUFFICES ASSUME va + i <= a, a <= va + (i + n) - 1 PROVE FALSE
        OBVIOUS
      <4>1. PICK c \in Nat : a = (va + i) + c /\ c < n
        <5>1. a - (va + i) \in Nat /\ a = (va + i) + (a - (va + i)) /\ a - (va + i) < n
          BY <2>0
        <5>2. QED BY Zenon, <5>1
      <4>2. ((va + i) % c_PGSIZE) + c < c_PGSIZE
        BY <1>0, <1>2, <4>1
      <4>3. QED BY Zenon, <1>0, <2>3, <4>1, <4>2, Neighbours
    <3>2. a \in C!Range(va, i + n) <=> a \in C!Range(va, i)
      BY <2>0, <3>1 DEF C!Range
    <3>3. QED BY <1>3, <2>1, <2>2, <2>3, <3>2, Zenon
  <2>4. CASE C!walkaddr(a) = f
    <3>1. a - (va + i) = (a % c_PGSIZE) - o
      BY <1>1, <1>5, <2>4, SamePage, Zenon
    <3>2. PICK x \in Nat : x = a % c_PGSIZE
      BY Zenon, <1>0, <2>0, Quotient
    <3>3. CASE x \in o .. o + n - 1
      <4>1. a \in C!Range(va, i + n) /\ i + x - o = a - va
        BY <1>0, <1>2, <2>0, <3>1, <3>2, <3>3 DEF C!Range
      <4>2. QED BY <1>4, <2>1, <2>4, <3>2, <3>3, <4>1, Zenon
    <3>4. CASE x \notin o .. o + n - 1
      <4>1. a \in C!Range(va, i + n) <=> a \in C!Range(va, i)
        BY <1>0, <1>2, <2>0, <3>1, <3>2, <3>4 DEF C!Range
      <4>2. QED BY <1>4, <2>1, <2>2, <2>4, <3>2, <3>4, <4>1, Zenon
    <3>5. QED BY <3>3, <3>4
  <2>5. QED BY <2>3, <2>4
<1>6. ASSUME NEW g \in C!Frame, \A v \in C!Page : c_pagetable[v] # g
      PROVE  c_mem'[g] = c_was.mem[g]
  <2>1. g # f
    <3>1. (va + i) \div c_PGSIZE \in C!Page
      BY <1>0, <1>1, PageOf
    <3>2. QED BY <1>1, <1>6, <3>1, Zenon DEF C!walkaddr
  <2>2. QED BY <1>3, <1>6, <2>1, Zenon DEF Stored
<1>7. \A a : C!walkaddr(a)' = C!walkaddr(a) /\ C!User(a)' = C!User(a)
  BY Zenon, UserSame
<1>8. QED BY <1>5, <1>6, <1>7, Zenon DEF Stored

\* A turn of memmove moves one more byte, which was not overwritten before.
LEMMA MoreMoved ==
  ASSUME CopyTyped, NEW dst \in Nat, NEW src \in Nat, NEW K, NEW k \in Nat,
         Moved(dst, src, K), dst + k \in C!Buffer, src + k \in C!Buffer,
         src + k - dst \notin K, c_was' = c_was,
         c_buf' = [c_buf EXCEPT ![dst + k] = c_buf[src + k]]
  PROVE  Moved(dst, src, K \cup {k})'
<1>1. C!Buffer \subseteq Int
  BY UserMemoryAssumption DEF C!Buffer
<1>2. PICK y \in C!Buffer : y = src + k
  BY Zenon
<1>3. y - dst \notin K
  <2>1. y - dst = src + k - dst
    BY <1>2
  <2>2. QED BY <2>1, Zenon
<1>4. c_buf[src + k] = c_was.buf[src + k]
  <2>1. c_buf[y] = IF y - dst \in K THEN c_was.buf[src + y - dst] ELSE c_was.buf[y]
    BY Zenon DEF Moved
  <2>2. QED BY <1>2, <1>3, <2>1, Zenon
<1>5. ASSUME NEW x \in C!Buffer
      PROVE  c_buf'[x] = IF x - dst \in K \cup {k} THEN c_was.buf[src + x - dst] ELSE c_was.buf[x]
  <2>1. CASE x = dst + k
    <3>1. x - dst = k /\ src + x - dst = src + k
      BY <1>1, <2>1
    <3>2. c_buf'[x] = c_buf[src + k]
      BY <2>1, Zenon DEF CopyTyped, Bytes
    <3>3. QED BY <1>4, <3>1, <3>2
  <2>2. CASE x # dst + k
    <3>1. x - dst # k
      BY <1>1, <2>2
    <3>2. c_buf'[x] = c_buf[x]
      BY <2>2, Zenon DEF CopyTyped, Bytes
    <3>3. c_buf[x] = IF x - dst \in K THEN c_was.buf[src + x - dst] ELSE c_was.buf[x]
      BY Zenon DEF Moved
    <3>4. QED BY <3>1, <3>2, <3>3, Zenon
  <2>3. QED BY <2>1, <2>2
<1>6. c_buf' = [x \in C!Buffer |-> c_buf'[x]]
  BY Zenon DEF CopyTyped, Bytes
<1>7. QED BY <1>5, <1>6, Zenon DEF Moved

\* The call goes on, n bytes further.
Turned(n) ==
  /\ n \in Nat /\ c_job.at = c_job.va + c_job.i
  /\ (c_job.at % c_PGSIZE) + n <= c_PGSIZE
  /\ c_job' \in Jobs
  /\ c_job'.i = c_job.i + n
  /\ c_job'.op = c_job.op /\ c_job'.pc = c_job.pc /\ c_job'.va = c_job.va
  /\ c_job'.len = c_job.len /\ c_job'.r = c_job.r
  /\ InPlace(c_job)'

\* That is a turn of a loop over pages.
LEMMA Turn ==
  ASSUME CopyTyped, InPlace(c_job), c_job.left > 0, C!walkaddr(c_job.at) # 0,
         UNCHANGED c_pagetable, NEW n, n = C!Chunk, C!Advance(n)
  PROVE  Turned(n)
<1>1. PICK at \in Nat, left \in Nat, i \in Nat, va \in Nat, len \in Nat :
        /\ at = c_job.at /\ left = c_job.left /\ i = c_job.i /\ va = c_job.va /\ len = c_job.len
  BY DEF CopyTyped, Jobs
<1>2. /\ n \in Nat /\ n <= left /\ (at % c_PGSIZE) + n <= c_PGSIZE
      /\ n < left => n = c_PGSIZE - (at % c_PGSIZE)
  BY <1>1, ChunkIs
<1>3. at = va + i /\ i + left = len /\ C!Valid(va, i)
  BY <1>1 DEF InPlace
<1>4. C!Valid(va, i + n)
  BY <1>1, <1>2, <1>3, MoreValid
<1>5. PICK next \in Nat : next = (at \div c_PGSIZE + 1) * c_PGSIZE
                          /\ next = at + (c_PGSIZE - (at % c_PGSIZE))
  <2>1. at % c_PGSIZE \in 0 .. c_PGSIZE - 1 /\ c_PGSIZE \in Nat
    BY UserMemoryAssumption, Quotient
  <2>2. PICK r \in 0 .. c_PGSIZE - 1 : r = at % c_PGSIZE
    BY <2>1
  <2>3. at + (c_PGSIZE - r) \in Nat
    BY <2>1, <2>2
  <2>4. QED BY <2>2, <2>3, NextPage, Zenon
<1>6. c_job' = [c_job EXCEPT !.left = left - n, !.i = i + n, !.at = next]
  BY <1>1, <1>5, Zenon DEF C!Advance
<1>7. /\ c_job' \in Jobs
      /\ c_job'.i = i + n /\ c_job'.left = left - n /\ c_job'.at = next
      /\ c_job'.op = c_job.op /\ c_job'.pc = c_job.pc /\ c_job'.va = va /\ c_job'.len = len
      /\ c_job'.r = c_job.r
  <2>1. PICK x \in Nat, y \in Nat : x = left - n /\ y = i + n
    <3>1. left - n \in Nat /\ i + n \in Nat
      BY <1>2
    <3>2. QED BY <3>1
  <2>2. c_job \in Jobs /\ c_job' = [c_job EXCEPT !.left = x, !.i = y, !.at = next]
    BY <1>6, <2>1, Zenon DEF CopyTyped
  <2>3. /\ c_job' \in Jobs
        /\ c_job'.i = y /\ c_job'.left = x /\ c_job'.at = next
        /\ c_job'.op = c_job.op /\ c_job'.pc = c_job.pc
        /\ c_job'.va = c_job.va /\ c_job'.len = c_job.len /\ c_job'.r = c_job.r
    BY Zenon, <2>2 DEF Jobs
  <2>4. QED BY <1>1, <2>1, <2>3
<1>8. InPlace(c_job)'
  <2>1. (i + n) + (left - n) = len
    BY <1>2, <1>3
  <2>2. left - n > 0 => next = va + (i + n)
    <3> SUFFICES ASSUME left - n > 0 PROVE next = va + (i + n)
      OBVIOUS
    <3>1. next = at + n
      BY <1>2, <1>5
    <3>2. QED BY <1>2, <1>3, <3>1
  <2>3. \A a : C!walkaddr(a)' = C!walkaddr(a)
    BY Zenon DEF C!walkaddr
  <2>4. C!Valid(c_job.va, c_job.i)'
    BY <1>4, <1>7, <2>3, Zenon DEF C!Valid
  <2>5. QED BY <1>7, <2>1, <2>2, <2>4, Zenon DEF InPlace
<1>9. QED BY <1>1, <1>2, <1>3, <1>7, <1>8, Zenon DEF Turned

\* What is not changed keeps its type.
LEMMA KeptTyped ==
  ASSUME CopyTyped, c_mem' = c_mem, c_buf' = c_buf
  PROVE  Bytes(c_buf)' /\ Frames(c_mem)'
<1>1. Bytes(c_buf) /\ Frames(c_mem)
  BY Zenon DEF CopyTyped
<1>2. Bytes(c_buf)'
  BY <1>1, Zenon DEF Bytes
<1>3. Frames(c_mem)'
  BY <1>1, Zenon DEF Frames
<1>4. QED BY <1>2, <1>3

\* The types of what a turn of a loop leaves alone.
LEMMA TypedStep ==
  ASSUME CopyTyped, UNCHANGED <<c_pagetable, c_sz, c_was>>, Frames(c_mem)', Bytes(c_buf)',
         c_job' \in Jobs
  PROVE  CopyTyped'
BY ZenonT(30) DEF CopyTyped, C!Page, Frames, Bytes, Jobs, C!Frame, C!Offset, C!Buffer

\* A turn of copyin.
LEMMA CopyinTurn ==
  ASSUME CopyInv, C!copyin, c_job.left > 0, C!walkaddr(c_job.at) # 0
  PROVE  CopyInv'
<1>1. /\ c_job.pc = "loop" /\ c_job.op \in {"copyin", "fetchaddr"}
      /\ UNCHANGED <<c_pagetable, c_sz, c_was, c_mem>>
      /\ C!Advance(C!Chunk)
      /\ c_buf' = [k \in C!Buffer |-> IF k \in c_job.i .. c_job.i + C!Chunk - 1
                     THEN c_mem[C!walkaddr(c_job.at)][(c_job.at % c_PGSIZE) + k - c_job.i]
                     ELSE c_buf[k]]
  BY DEF C!copyin, C!InLoop, CopyInv, CopyTyped
<1>2. CopyTyped /\ Looping(c_job)
  BY <1>1, Zenon DEF CopyInv
<1>3. InPlace(c_job) /\ C!Got(c_job.va, c_job.i) /\ c_mem = c_was.mem
  BY <1>1, <1>2 DEF Looping
<1>4. PICK n : n = C!Chunk
  OBVIOUS
<1>5. Turned(n)
  BY <1>1, <1>2, <1>3, <1>4, Turn, Zenon
<1>6. PICK va \in Nat, i \in Nat : va = c_job.va /\ i = c_job.i
  BY <1>2 DEF CopyTyped, Jobs
<1>7. C!Got(va, i + n)'
  BY <1>1, <1>3, <1>4, <1>5, <1>6, MoreGot, Zenon DEF Turned
<1>8. C!Got(c_job.va, c_job.i)'
  BY <1>5, <1>6, <1>7, Zenon DEF C!Got, Turned
<1>9. Bytes(c_buf)' /\ Frames(c_mem)'
  BY <1>1, <1>2, Zenon DEF Bytes, Frames, CopyTyped
<1>10. CopyTyped'
  BY <1>1, <1>2, <1>5, <1>9, TypedStep, Zenon DEF Turned
<1>11. Looping(c_job)'
  BY <1>1, <1>2, <1>3, <1>5, <1>8, Zenon DEF Looping, CopyOps, Turned
<1>12. CopyExact'
  BY <1>1, <1>5 DEF CopyExact, C!CopyExact, Turned
<1>13. QED BY <1>1, <1>5, <1>10, <1>11, <1>12 DEF CopyInv, Turned

\* The end of a call.
Ended(r) ==
  /\ c_job.pc = "loop" /\ c_job'.pc = "done" /\ c_job'.r = r
  /\ c_job'.op = c_job.op /\ c_job'.va = c_job.va /\ c_job'.len = c_job.len
  /\ c_job'.at = c_job.at /\ c_job'.i = c_job.i
  /\ UNCHANGED <<c_mem, c_buf, c_pagetable, c_sz, c_was>>
  /\ \A a : C!walkaddr(a)' = C!walkaddr(a) /\ C!User(a)' = C!User(a)
  /\ \A a, n : C!Valid(a, n)' = C!Valid(a, n) /\ C!Got(a, n)' = C!Got(a, n)

\* That is what Finish does, and the invariant holds if the outcome is exact.
LEMMA Finishes ==
  ASSUME CopyInv, c_job.pc = "loop", NEW r \in {0, -1}, C!Finish(r),
         UNCHANGED <<c_pagetable, c_sz, c_was>>
  PROVE  Ended(r) /\ (CopyExact' => CopyInv')
<1>1. CopyTyped /\ c_job \in Jobs /\ UNCHANGED <<c_mem, c_buf>>
  BY Zenon DEF CopyInv, CopyTyped, C!Finish
<1>2. c_job' = [c_job EXCEPT !.pc = "done", !.r = r]
  BY Zenon DEF C!Finish
<1>3. /\ c_job' \in Jobs
      /\ c_job'.pc = "done" /\ c_job'.r = r
      /\ c_job'.op = c_job.op /\ c_job'.va = c_job.va /\ c_job'.len = c_job.len
      /\ c_job'.at = c_job.at /\ c_job'.i = c_job.i
  BY Zenon, <1>1, <1>2 DEF Jobs
<1>4. \A a : C!walkaddr(a)' = C!walkaddr(a) /\ C!User(a)' = C!User(a)
  BY UserSame, Zenon
<1>5. \A a, n : C!Valid(a, n)' = C!Valid(a, n)
  BY <1>4, Zenon DEF C!Valid
<1>6. \A a, n : C!Got(a, n)' = C!Got(a, n)
  BY <1>1, <1>4, Zenon DEF C!Got
<1>7. Ended(r)
  BY <1>1, <1>3, <1>4, <1>5, <1>6, Zenon DEF Ended
<1>8. Frames(c_mem)' /\ Bytes(c_buf)'
  BY <1>1, KeptTyped, Zenon
<1>9. CopyTyped'
  BY <1>1, <1>3, <1>8, TypedStep, Zenon
<1>10. QED BY <1>3, <1>7, <1>9 DEF CopyInv

\* All bytes of the call are valid exactly if its loop came to the end.
LEMMA AllValid ==
  ASSUME CopyTyped, InPlace(c_job), c_job.left = 0 \/ C!walkaddr(c_job.at) = 0
  PROVE  /\ c_job.left = 0 <=> C!Valid(c_job.va, c_job.len)
         /\ c_job.left = 0 => c_job.i = c_job.len
         /\ c_job.left > 0 => \A n \in Nat : n > c_job.i => ~ C!Valid(c_job.va, n)
<1>1. PICK at \in Nat, left \in Nat, i \in Nat, va \in Nat, len \in Nat :
        /\ at = c_job.at /\ left = c_job.left /\ i = c_job.i /\ va = c_job.va /\ len = c_job.len
  BY DEF CopyTyped, Jobs
<1>2. i + left = len /\ (left > 0 => at = va + i) /\ C!Valid(va, i)
  BY <1>1 DEF InPlace
<1>3. CASE left = 0
  <2>1. i = len
    BY <1>2, <1>3
  <2>2. QED BY <1>1, <1>2, <1>3, <2>1
<1>4. CASE left > 0
  <2>1. C!walkaddr(va + i) = 0
    BY <1>1, <1>2, <1>4
  <2>2. ASSUME NEW n \in Nat, n > i PROVE ~ C!Valid(va, n)
    <3>1. va + i \in va .. va + n - 1
      BY <2>2
    <3>2. QED BY <2>1, <3>1, Zenon DEF C!Valid, C!Range
  <2>3. len > i
    BY <1>2, <1>4
  <2>4. QED BY <1>1, <1>4, <2>2, <2>3
<1>5. QED BY <1>3, <1>4

\* The end of copyin.
LEMMA CopyinEnd ==
  ASSUME CopyInv, C!copyin, c_job.left = 0 \/ C!walkaddr(c_job.at) = 0
  PROVE  CopyInv'
<1>1. PICK r \in {0, -1} : C!Finish(r) /\ (r = 0 <=> c_job.left = 0)
  BY DEF C!copyin, CopyInv, CopyTyped
<1>2. c_job.pc = "loop" /\ c_job.op \in {"copyin", "fetchaddr"} /\ UNCHANGED <<c_pagetable, c_sz, c_was>>
  BY Zenon DEF C!copyin, C!InLoop
<1>3. Ended(r) /\ (CopyExact' => CopyInv')
  BY <1>1, <1>2, Finishes
<1>4. CopyTyped /\ Looping(c_job)
  BY <1>2, Zenon DEF CopyInv
<1>5. /\ InPlace(c_job) /\ C!Got(c_job.va, c_job.i)
      /\ c_job.op = "fetchaddr" => c_job.va + c_job.len <= c_sz
  BY <1>2, <1>4 DEF Looping
<1>6. /\ r = 0 <=> C!Valid(c_job.va, c_job.len)
      /\ r = 0 => C!Got(c_job.va, c_job.len)
  BY <1>1, <1>4, <1>5, AllValid
<1>7. /\ r = 0 <=> C!Valid(c_job.va, c_job.len)'
      /\ r = 0 => C!Got(c_job.va, c_job.len)'
  <2>1. PICK va, len : va = c_job.va /\ len = c_job.len /\ va = c_job'.va /\ len = c_job'.len
    BY <1>3, Zenon DEF Ended
  <2>2. (r = 0 <=> C!Valid(va, len)') /\ (r = 0 => C!Got(va, len)')
    BY <1>3, <1>6, <2>1, Zenon DEF Ended
  <2>3. QED BY <2>1, <2>2, Zenon DEF C!Valid, C!Got
<1>8. (c_job.r = 0)' = C!Valid(c_job.va, c_job.len)'
  BY <1>3, <1>7, Zenon DEF Ended, C!Valid
<1>9. CASE c_job.op = "copyin"
  <2>1. c_job'.op = "copyin" /\ c_job'.r = r
    BY <1>3, <1>9 DEF Ended
  <2>2. CopyExact'
    BY <1>7, <1>8, <2>1, Zenon DEF CopyExact, C!CopyExact
  <2>3. QED BY <1>3, <2>2
<1>10. CASE c_job.op = "fetchaddr"
  <2>1. c_job'.op = "fetchaddr" /\ c_job'.r = r /\ c_job'.va + c_job'.len <= c_sz'
    BY <1>3, <1>5, <1>10 DEF Ended
  <2>2. CopyExact'
    BY <1>7, <1>8, <2>1, Zenon DEF CopyExact, C!CopyExact
  <2>3. QED BY <1>3, <2>2
<1>11. QED BY <1>2, <1>9, <1>10

\* A turn of copyout.
LEMMA CopyoutTurn ==
  ASSUME CopyInv, C!copyout, c_job.left > 0, C!walkaddr(c_job.at) # 0
  PROVE  CopyInv'
<1>1. /\ c_job.pc = "loop" /\ c_job.op = "copyout"
      /\ UNCHANGED <<c_pagetable, c_sz, c_was, c_buf>>
      /\ C!Advance(C!Chunk)
      /\ c_mem' = [c_mem EXCEPT ![C!walkaddr(c_job.at)] = [k \in C!Offset |->
           IF k \in c_job.at % c_PGSIZE .. (c_job.at % c_PGSIZE) + C!Chunk - 1
           THEN c_buf[c_job.i + k - (c_job.at % c_PGSIZE)] ELSE @[k]]]
  BY DEF C!copyout, C!InLoop
<1>2. CopyTyped /\ Looping(c_job)
  BY <1>1, Zenon DEF CopyInv
<1>3. InPlace(c_job) /\ Stored(c_job.va, c_job.i)
  BY <1>1, <1>2 DEF Looping
<1>4. PICK n : n = C!Chunk
  OBVIOUS
<1>5. Turned(n)
  BY <1>1, <1>2, <1>3, <1>4, Turn, Zenon
<1>6. PICK va \in Nat, i \in Nat : va = c_job.va /\ i = c_job.i
  BY <1>2 DEF CopyTyped, Jobs
<1>7. PICK o : o = c_job.at % c_PGSIZE
  OBVIOUS
<1>8. Stored(va, i + n)'
  <2>1. c_mem' = [c_mem EXCEPT ![C!walkaddr(va + i)] = [k \in C!Offset |->
                    IF k \in o .. o + n - 1 THEN c_buf[i + k - o] ELSE @[k]]]
    BY <1>1, <1>4, <1>5, <1>6, <1>7, Zenon DEF Turned
  <2>2. /\ n \in Nat /\ o = (va + i) % c_PGSIZE /\ o + n <= c_PGSIZE
        /\ C!walkaddr(va + i) # 0 /\ Stored(va, i)
    BY <1>3, <1>5, <1>6, <1>7, Zenon DEF Turned
  <2>3. QED BY <1>1, <1>2, <2>1, <2>2, MoreStored, Zenon
<1>9. Stored(c_job.va, c_job.i)'
  <2>1. PICK m : m = i + n
    OBVIOUS
  <2>2. c_job'.va = va /\ c_job'.i = m
    BY <1>5, <1>6, <2>1, Zenon DEF Turned
  <2>3. Stored(va, m)'
    BY <1>8, <2>1, Zenon
  <2>4. QED BY <2>2, <2>3 DEF Stored
<1>10. Bytes(c_buf)' /\ Frames(c_mem)'
  <2>1. Bytes(c_buf)'
    BY <1>1, <1>2, Zenon DEF Bytes, CopyTyped
  <2>2. \A f \in C!Frame : c_mem[f] = [o2 \in C!Offset |-> c_mem[f][o2]]
    BY <1>2, Zenon DEF Frames, CopyTyped
  <2>3. \A f \in C!Frame : c_mem'[f] = [o2 \in C!Offset |-> c_mem'[f][o2]]
    BY <1>1, <1>2, <2>2, Zenon DEF Frames, CopyTyped
  <2>4. DOMAIN c_mem' = C!Frame /\ c_mem' = [f \in DOMAIN c_mem' |-> c_mem'[f]]
    BY <1>1, <1>2, Zenon DEF Frames, CopyTyped
  <2>5. QED BY <2>1, <2>3, <2>4, Zenon DEF Frames
<1>11. CopyTyped'
  BY <1>1, <1>2, <1>5, <1>10, TypedStep, Zenon DEF Turned
<1>12. Looping(c_job)'
  BY <1>1, <1>2, <1>5, <1>9, Zenon DEF Looping, CopyOps, Turned
<1>13. CopyExact'
  BY <1>1, <1>5 DEF CopyExact, C!CopyExact, Turned
<1>14. QED BY <1>1, <1>5, <1>11, <1>12, <1>13 DEF CopyInv, Turned

\* The end of copyout.
LEMMA CopyoutEnd ==
  ASSUME CopyInv, C!copyout, c_job.left = 0 \/ C!walkaddr(c_job.at) = 0
  PROVE  CopyInv'
<1>1. PICK r \in {0, -1} : C!Finish(r) /\ (r = 0 <=> c_job.left = 0)
  BY DEF C!copyout, CopyInv, CopyTyped
<1>2. c_job.pc = "loop" /\ c_job.op = "copyout" /\ UNCHANGED <<c_pagetable, c_sz, c_was>>
  BY Zenon DEF C!copyout, C!InLoop
<1>3. Ended(r) /\ (CopyExact' => CopyInv')
  BY <1>1, <1>2, Finishes
<1>4. CopyTyped /\ Looping(c_job)
  BY <1>2, Zenon DEF CopyInv
<1>5. InPlace(c_job) /\ Stored(c_job.va, c_job.i)
  BY <1>2, <1>4 DEF Looping
<1>6. /\ r = 0 <=> C!Valid(c_job.va, c_job.len)
      /\ r = 0 => c_job.i = c_job.len
  BY <1>1, <1>4, <1>5, AllValid
<1>7. PICK va \in Nat, len \in Nat, i \in Nat :
        va = c_job.va /\ len = c_job.len /\ i = c_job.i /\ va = c_job'.va /\ len = c_job'.len
  BY <1>3, <1>4 DEF Ended, CopyTyped, Jobs
<1>8. i <= len
  BY <1>4, <1>5, <1>7 DEF InPlace, CopyTyped, Jobs
<1>9. (c_job.r = 0)' = C!Valid(c_job.va, c_job.len)'
  <2>1. r = 0 <=> C!Valid(va, len)'
    BY <1>3, <1>6, <1>7, Zenon DEF Ended
  <2>2. QED BY <1>3, <1>7, <2>1, Zenon DEF Ended, C!Valid
<1>10. ASSUME NEW a \in C!VA, C!walkaddr(a) # 0
       PROVE  LET new == c_mem[C!walkaddr(a)][a % c_PGSIZE] IN
              IF r = 0 /\ a \in C!Range(va, len) THEN new = c_buf[a - va]
              ELSE a \notin C!Range(va, len) => new = C!User(a)
  <2>0. Stored(va, i)
    BY <1>5, <1>7, Zenon
  <2>1. c_mem[C!walkaddr(a)][a % c_PGSIZE] = IF a \in C!Range(va, i) THEN c_buf[a - va] ELSE C!User(a)
    BY <1>10, <2>0, Zenon DEF Stored
  <2>2. a \notin C!Range(va, len) => a \notin C!Range(va, i)
    <3>1. a \in Int
      BY UserMemoryAssumption DEF C!VA
    <3>2. QED BY <1>8, <3>1 DEF C!Range
  <2>3. QED BY <1>6, <1>7, <2>1, <2>2, Zenon
<1>11. \A f \in C!Frame : (\A v \in C!Page : c_pagetable[v] # f) => c_mem[f] = c_was.mem[f]
  BY <1>5, Zenon DEF Stored
<1>12. c_job'.op = "copyout" /\ c_job'.r = r
  BY <1>2, <1>3 DEF Ended
<1>13. /\ UNCHANGED <<c_mem, c_buf, c_pagetable, c_sz, c_was>>
       /\ \A a : C!walkaddr(a)' = C!walkaddr(a) /\ C!User(a)' = C!User(a)
  BY <1>3, Zenon DEF Ended
<1>14. CopyExact'
  <2>1. \A a \in C!VA : C!walkaddr(a)' # 0 =>
          LET new == c_mem'[C!walkaddr(a)'][a % c_PGSIZE] IN
          IF c_job'.r = 0 /\ a \in C!Range(c_job'.va, c_job'.len) THEN new = c_buf'[a - c_job'.va]
          ELSE a \notin C!Range(c_job'.va, c_job'.len) => new = C!User(a)'
    BY <1>7, <1>10, <1>12, <1>13, Zenon
  <2>2. \A f \in C!Frame : (\A v \in C!Page : c_pagetable'[v] # f) => c_mem'[f] = c_was'.mem[f]
    BY <1>11, <1>13, Zenon
  <2>3. QED BY <1>9, <1>12, <2>1, <2>2, Zenon DEF CopyExact, C!CopyExact
<1>15. QED BY <1>3, <1>14

\* What a turn of copyinstr finds in the chunk: f is the frame, o the offset.
Nuls(f, o, n) == {k \in 0 .. n - 1 : c_mem[f][o + k] = 0}

\* A chunk without nul: the loop goes on.
LEMMA CopyinstrTurn ==
  ASSUME CopyInv, C!copyinstr, c_job.left > 0, C!walkaddr(c_job.at) # 0,
         Nuls(C!walkaddr(c_job.at), c_job.at % c_PGSIZE, C!Chunk) = {}
  PROVE  CopyInv'
<1>1. PICK f, o, n : f = C!walkaddr(c_job.at) /\ o = c_job.at % c_PGSIZE /\ n = C!Chunk
  BY Zenon
<1>2. {k \in 0 .. C!Chunk - 1 : c_mem[C!walkaddr(c_job.at)][(c_job.at % c_PGSIZE) + k] = 0} = {}
  BY Zenon DEF Nuls
<1>3. /\ c_job.pc = "loop" /\ c_job.op = "copyinstr"
      /\ UNCHANGED <<c_pagetable, c_sz, c_was, c_mem>>
      /\ C!Advance(n)
      /\ c_buf' = [k \in C!Buffer |-> IF k \in c_job.i .. c_job.i + n - 1
                     THEN c_mem[f][o + k - c_job.i] ELSE c_buf[k]]
  BY <1>1, <1>2 DEF C!copyinstr, C!InLoop
<1>4. CopyTyped /\ Looping(c_job)
  BY <1>3, Zenon DEF CopyInv
<1>5. /\ InPlace(c_job) /\ C!Got(c_job.va, c_job.i) /\ c_mem = c_was.mem
      /\ \A k \in 0 .. c_job.i - 1 : C!User(c_job.va + k) # 0
  BY <1>3, <1>4 DEF Looping
<1>6. Turned(n)
  BY <1>1, <1>3, <1>4, <1>5, Turn, Zenon
<1>7. PICK va \in Nat, i \in Nat : va = c_job.va /\ i = c_job.i
  BY <1>4 DEF CopyTyped, Jobs
<1>8. /\ n \in Nat /\ f = C!walkaddr(va + i) /\ f # 0 /\ o = (va + i) % c_PGSIZE
      /\ ((va + i) % c_PGSIZE) + n <= c_PGSIZE
  BY <1>1, <1>6, <1>7, Zenon DEF Turned
<1>9. C!Got(va, i + n)'
  BY <1>3, <1>5, <1>7, <1>8, MoreGot, Zenon
<1>10. C!Got(c_job.va, c_job.i)'
  BY <1>6, <1>7, <1>9, Zenon DEF C!Got, Turned
<1>11. ASSUME NEW k \in 0 .. (i + n) - 1 PROVE C!User(va + k) # 0
  <2>1. CASE k <= i - 1
    <3>1. k \in 0 .. i - 1
      BY <2>1
    <3>2. QED BY <1>5, <1>7, <3>1, Zenon
  <2>2. CASE k >= i
    <3>1. PICK c \in 0 .. n - 1 : va + k = (va + i) + c
      <4>1. k - i \in 0 .. n - 1 /\ va + k = (va + i) + (k - i)
        BY <1>8, <2>2
      <4>2. QED BY <4>1
    <3>2. va + i \in Nat
      OBVIOUS
    <3>3. C!User((va + i) + c) = c_was.mem[C!walkaddr(va + i)][((va + i) % c_PGSIZE) + c]
      BY <1>8, <3>2, ChunkBytes
    <3>4. c_mem[f][o + c] # 0
      BY <1>1, <1>2, Zenon
    <3>5. QED BY <1>5, <1>8, <3>1, <3>3, <3>4, Zenon
  <2>3. QED BY <1>8, <2>1, <2>2
<1>12. \A k \in 0 .. c_job'.i - 1 : C!User(c_job'.va + k) # 0
  BY <1>6, <1>7, <1>11, Zenon DEF Turned
<1>13. \A k \in 0 .. c_job'.i - 1 : C!User(c_job.va + k)' # 0
  BY <1>3, <1>12, Zenon DEF C!User, C!walkaddr
<1>14. Bytes(c_buf)' /\ Frames(c_mem)'
  BY <1>3, <1>4, Zenon DEF Bytes, Frames, CopyTyped
<1>15. CopyTyped'
  BY <1>3, <1>4, <1>6, <1>14, TypedStep, Zenon DEF Turned
<1>16. Looping(c_job)'
  BY <1>3, <1>4, <1>5, <1>6, <1>10, <1>13, Zenon DEF Looping, CopyOps, Turned
<1>17. CopyExact'
  BY <1>3, <1>6 DEF CopyExact, C!CopyExact, Turned
<1>18. QED BY <1>3, <1>6, <1>15, <1>16, <1>17 DEF CopyInv, Turned

\* A chunk with a nul: the string ends there.
LEMMA CopyinstrNul ==
  ASSUME CopyInv, C!copyinstr, c_job.left > 0, C!walkaddr(c_job.at) # 0,
         Nuls(C!walkaddr(c_job.at), c_job.at % c_PGSIZE, C!Chunk) # {}
  PROVE  CopyInv'
<1> DEFINE nuls == {k \in 0 .. C!Chunk - 1 :
                      c_mem[C!walkaddr(c_job.at)][(c_job.at % c_PGSIZE) + k] = 0}
           least == CHOOSE k \in nuls : \A l \in nuls : k <= l
<1>1. PICK f, o, n : f = C!walkaddr(c_job.at) /\ o = c_job.at % c_PGSIZE /\ n = least
  BY Zenon
<1>2. nuls # {}
  BY Zenon DEF Nuls
<1>3. /\ c_job.pc = "loop" /\ c_job.op = "copyinstr"
      /\ UNCHANGED <<c_pagetable, c_sz, c_was, c_mem>>
      /\ c_job' = [c_job EXCEPT !.pc = "done", !.i = @ + n]
      /\ c_buf' = [k \in C!Buffer |-> IF k \in c_job.i .. c_job.i + n - 1
                     THEN c_mem[f][o + k - c_job.i]
                     ELSE IF k = c_job.i + n THEN 0 ELSE c_buf[k]]
  <2>1. c_job.left # 0
    OBVIOUS
  <2>2. QED BY <1>1, <1>2, <2>1, Zenon DEF C!copyinstr, C!InLoop
<1>4. CopyTyped /\ Looping(c_job)
  BY <1>3, Zenon DEF CopyInv
<1>5. /\ InPlace(c_job) /\ C!Got(c_job.va, c_job.i) /\ c_mem = c_was.mem /\ c_job.r = 0
  BY <1>3, <1>4 DEF Looping
<1>6. /\ C!Chunk \in Nat /\ C!Chunk <= c_job.left
      /\ (c_job.at % c_PGSIZE) + C!Chunk <= c_PGSIZE
  BY <1>4, ChunkIs
<1>7. n \in 0 .. C!Chunk - 1 /\ c_mem[f][o + n] = 0
  <2>1. nuls \subseteq Nat
    BY <1>6
  <2> HIDE DEF nuls
  <2>2. \E k \in nuls : \A l \in nuls : k <= l
    BY Zenon, <1>2, <2>1, Smallest
  <2>3. n \in nuls
    BY <1>1, <2>2, Zenon
  <2>4. QED BY <1>1, <2>3, Zenon DEF nuls
<1> HIDE DEF nuls, least
<1>8. PICK va \in Nat, i \in Nat, left \in Nat, len \in Nat :
        va = c_job.va /\ i = c_job.i /\ left = c_job.left /\ len = c_job.len
  BY <1>4 DEF CopyTyped, Jobs
<1>9. /\ i + left = len /\ c_job.at = va + i /\ C!Valid(va, i)
      /\ f = C!walkaddr(va + i) /\ f # 0 /\ o = (va + i) % c_PGSIZE
  BY <1>1, <1>5, <1>8 DEF InPlace
<1>10. PICK m \in Nat : m = n + 1 /\ o + m <= c_PGSIZE /\ i + n \in 0 .. len - 1 /\ i + m = (i + n) + 1
  <2>1. o \in Nat /\ c_PGSIZE \in Nat /\ n \in Nat
    <3>1. va + i \in Nat
      OBVIOUS
    <3>2. QED BY <1>6, <1>7, <1>9, <3>1, UserMemoryAssumption, Quotient
  <2>2. o + C!Chunk <= c_PGSIZE /\ C!Chunk <= left
    BY <1>1, <1>6, <1>8
  <2>3. n + 1 \in Nat /\ o + (n + 1) <= c_PGSIZE /\ i + n \in 0 .. len - 1 /\ i + (n + 1) = (i + n) + 1
    BY <1>6, <1>7, <1>9, <2>1, <2>2
  <2>4. QED BY <2>3
<1>11. c_buf' = [k \in C!Buffer |-> IF k \in i .. i + m - 1
                   THEN c_mem[C!walkaddr(va + i)][((va + i) % c_PGSIZE) + k - i] ELSE c_buf[k]]
  <2>0. n \in Nat /\ o \in Nat
    <3>1. va + i \in Nat
      OBVIOUS
    <3>2. QED BY <1>6, <1>7, <1>9, <3>1, UserMemoryAssumption, Quotient
  <2>1. ASSUME NEW k \in C!Buffer
        PROVE  c_buf'[k] = IF k \in i .. i + m - 1 THEN c_mem[f][o + k - i] ELSE c_buf[k]
    <3>0. k \in Nat
      BY UserMemoryAssumption DEF C!Buffer
    <3>1. c_buf'[k] = IF k \in i .. i + n - 1 THEN c_mem[f][o + k - i]
                      ELSE IF k = i + n THEN 0 ELSE c_buf[k]
      BY <1>3, <1>8, Zenon
    <3>2. CASE k = i + n
      <4>1. k \notin i .. i + n - 1 /\ k \in i .. i + m - 1 /\ o + k - i = o + n
        BY <1>10, <2>0, <3>2
      <4>2. QED BY <1>7, <3>1, <3>2, <4>1, Zenon
    <3>3. CASE k # i + n
      <4>1. k \in i .. i + m - 1 <=> k \in i .. i + n - 1
        BY <1>10, <2>0, <3>0, <3>3
      <4>2. QED BY <3>1, <3>3, <4>1, Zenon
    <3>4. QED BY <3>2, <3>3
  <2>2. c_buf' = [k \in C!Buffer |-> c_buf'[k]]
    BY <1>3, Zenon
  <2>3. QED BY <1>9, <2>1, <2>2, Zenon
<1>12. C!Got(va, i + m)'
  BY ZenonT(30), <1>3, <1>5, <1>8, <1>9, <1>10, <1>11, MoreGot
<1>13. C!Valid(va, i + m)
  BY <1>9, <1>10, MoreValid, Zenon
<1>14. C!User(va + (i + n)) = 0
  <2>1. n \in 0 .. m - 1 /\ va + (i + n) = (va + i) + n /\ va + i \in Nat
    BY <1>7, <1>10
  <2>2. C!User((va + i) + n) = c_was.mem[C!walkaddr(va + i)][((va + i) % c_PGSIZE) + n]
    BY <1>9, <1>10, <2>1, ChunkBytes
  <2>3. QED BY <1>5, <1>7, <1>9, <2>1, <2>2, Zenon
<1>15. PICK e \in Nat : e = i + n
  BY <1>10
<1>16. /\ c_job' \in Jobs /\ c_job'.pc = "done" /\ c_job'.op = "copyinstr" /\ c_job'.r = 0
       /\ c_job'.va = va /\ c_job'.len = len /\ c_job'.i = e
  <2>1. c_job \in Jobs /\ c_job' = [c_job EXCEPT !.pc = "done", !.i = e]
    BY <1>3, <1>4, <1>8, <1>15, Zenon DEF CopyTyped
  <2>2. QED BY Zenon, <1>3, <1>5, <1>8, <2>1 DEF Jobs
<1>17. /\ C!User(va + e)' = 0 /\ C!Valid(va, e + 1)' /\ C!Got(va, e + 1)' /\ e \in 0 .. len - 1
  <2>1. C!Valid(va, i + m)' = C!Valid(va, i + m)
    BY <1>3, Zenon DEF C!Valid, C!walkaddr
  <2>2. QED BY <1>3, <1>10, <1>12, <1>13, <1>14, <1>15, <2>1, UserSame, Zenon
<1>18. CopyExact'
  <2>1. e \in {k \in 0 .. c_job'.len - 1 : C!User(c_job.va + k)' = 0 /\ C!Valid(c_job.va, k + 1)'}
    BY <1>16, <1>17, Zenon DEF C!User, C!Valid, C!walkaddr
  <2>2. C!Got(c_job.va, c_job.i + 1)'
    BY <1>16, <1>17, Zenon DEF C!Got
  <2>3. QED BY <1>16, <2>1, <2>2, Zenon DEF CopyExact, C!CopyExact
<1>19. Bytes(c_buf)' /\ Frames(c_mem)'
  BY <1>3, <1>4, Zenon DEF Bytes, Frames, CopyTyped
<1>20. CopyTyped'
  BY <1>3, <1>4, <1>16, <1>19, TypedStep, Zenon
<1>21. QED BY <1>16, <1>18, <1>20 DEF CopyInv

\* The end of copyinstr without a nul.
LEMMA CopyinstrEnd ==
  ASSUME CopyInv, C!copyinstr, c_job.left = 0 \/ C!walkaddr(c_job.at) = 0
  PROVE  CopyInv'
<1>1. C!Finish(-1)
  <2>1. c_job.left = 0 => ~ (c_job.left > 0)
    OBVIOUS
  <2>2. QED BY <2>1, Zenon DEF C!copyinstr
<1>2. c_job.pc = "loop" /\ c_job.op = "copyinstr" /\ UNCHANGED <<c_pagetable, c_sz, c_was>>
  BY Zenon DEF C!copyinstr, C!InLoop
<1>3. Ended(-1) /\ (CopyExact' => CopyInv')
  BY <1>1, <1>2, Finishes
<1>4. CopyTyped /\ Looping(c_job)
  BY <1>2, Zenon DEF CopyInv
<1>5. InPlace(c_job) /\ \A k \in 0 .. c_job.i - 1 : C!User(c_job.va + k) # 0
  BY <1>2, <1>4 DEF Looping
<1>6. PICK va \in Nat, len \in Nat, i \in Nat, left \in Nat :
        /\ va = c_job.va /\ len = c_job.len /\ i = c_job.i /\ left = c_job.left
        /\ va = c_job'.va /\ len = c_job'.len
  BY <1>3, <1>4 DEF Ended, CopyTyped, Jobs
<1>7. /\ left = 0 => i = len
      /\ left > 0 => \A n \in Nat : n > i => ~ C!Valid(va, n)
  BY <1>4, <1>5, <1>6, AllValid
<1>8. ASSUME NEW k \in 0 .. len - 1, C!User(va + k) = 0, C!Valid(va, k + 1) PROVE FALSE
  <2>1. k \notin 0 .. i - 1
    BY <1>5, <1>6, <1>8, Zenon
  <2>2. k + 1 \in Nat /\ k + 1 > i /\ k < len
    BY <2>1
  <2>3. QED BY <1>7, <1>8, <2>2
<1>9. {k \in 0 .. c_job'.len - 1 : C!User(c_job.va + k)' = 0 /\ C!Valid(c_job.va, k + 1)'} = {}
  <2>1. \A k \in 0 .. len - 1 : ~ (C!User(va + k)' = 0 /\ C!Valid(va, k + 1)')
    BY <1>3, <1>8, Zenon DEF Ended
  <2>2. QED BY <1>6, <2>1, Zenon DEF C!User, C!Valid, C!walkaddr
<1>10. c_job'.op = "copyinstr" /\ c_job'.r # 0
  BY <1>2, <1>3 DEF Ended
<1>11. CopyExact'
  BY <1>9, <1>10, Zenon DEF CopyExact, C!CopyExact
<1>12. QED BY <1>3, <1>11

\* A turn of memmove.
LEMMA MemmoveTurn ==
  ASSUME CopyInv, C!memmove, c_job.left > 0
  PROVE  CopyInv'
<1>1. /\ c_job.pc = "loop" /\ c_job.op = "memmove"
      /\ UNCHANGED <<c_pagetable, c_sz, c_was, c_mem>>
  BY DEF C!memmove, C!InLoop
<1>2. CopyTyped /\ Looping(c_job)
  BY <1>1, Zenon DEF CopyInv
<1>3. PICK src \in Nat, dst \in Nat, left \in Nat, len \in Nat, K \in SUBSET Int :
        /\ src = c_job.va /\ dst = c_job.at /\ left = c_job.left /\ len = c_job.len
        /\ K = IF src > dst THEN 0 .. len - left - 1 ELSE left .. len - 1
  BY <1>2 DEF CopyTyped, Jobs
<1>4. left > 0 /\ left <= len /\ dst + len <= c_MAXLEN /\ src + len <= c_MAXLEN
  BY <1>1, <1>2, <1>3 DEF Looping
<1>5. Moved(dst, src, K)
  BY <1>1, <1>2, <1>3, Zenon DEF Looping, Dealt
<1>6. PICK k \in Nat : /\ k = IF src > dst THEN len - left ELSE left - 1
                       /\ k < len /\ src + k - dst \notin K
                       /\ K \cup {k} = IF src > dst THEN 0 .. len - (left - 1) - 1
                                                    ELSE left - 1 .. len - 1
  <2>1. CASE src > dst
    <3>1. K = 0 .. len - left - 1
      BY <1>3, <2>1
    <3>2. /\ len - left \in Nat /\ len - left < len /\ src + (len - left) - dst > len - left - 1
          /\ src + (len - left) - dst \in Int
      BY <1>4, <2>1
    <3>3. K \cup {len - left} = 0 .. len - (left - 1) - 1
      BY <1>4, <3>1
    <3>4. src + (len - left) - dst \notin K
      BY <3>1, <3>2
    <3>5. QED BY <2>1, <3>2, <3>3, <3>4
  <2>2. CASE ~ (src > dst)
    <3>1. K = left .. len - 1
      BY <1>3, <2>2
    <3>2. /\ left - 1 \in Nat /\ left - 1 < len /\ src + (left - 1) - dst < left
          /\ src + (left - 1) - dst \in Int
      BY <1>4, <2>2
    <3>3. K \cup {left - 1} = left - 1 .. len - 1
      BY <1>4, <3>1
    <3>4. src + (left - 1) - dst \notin K
      BY <3>1, <3>2
    <3>5. QED BY <2>2, <3>2, <3>3, <3>4
  <2>3. QED BY <2>1, <2>2
<1>7. /\ c_buf' = [c_buf EXCEPT ![dst + k] = c_buf[src + k]]
      /\ c_job' = [c_job EXCEPT !.left = @ - 1]
  <2>1. c_job.left # 0
    OBVIOUS
  <2>2. k = IF c_job.va > c_job.at THEN c_job.len - c_job.left ELSE c_job.left - 1
    BY <1>3, <1>6
  <2>3. QED BY <1>3, <2>1, <2>2, Zenon DEF C!memmove
<1>8. dst + k \in C!Buffer /\ src + k \in C!Buffer
  BY <1>4, <1>6, UserMemoryAssumption DEF C!Buffer
<1>9. Moved(dst, src, K \cup {k})'
  BY <1>1, <1>2, <1>5, <1>6, <1>7, <1>8, MoreMoved, Zenon
<1>10. /\ c_job' \in Jobs /\ c_job'.pc = "loop" /\ c_job'.op = "memmove" /\ c_job'.r = 0
       /\ c_job'.va = src /\ c_job'.at = dst /\ c_job'.left = left - 1 /\ c_job'.len = len
  <2>1. c_job \in Jobs /\ c_job.r = 0
    BY <1>2 DEF CopyTyped, Looping
  <2>2. PICK less \in Nat : less = left - 1
    BY <1>4
  <2>3. c_job' = [c_job EXCEPT !.left = less]
    BY <1>3, <1>7, <2>2, Zenon
  <2>4. QED BY <1>1, <1>3, <2>1, <2>2, <2>3 DEF Jobs
<1>11. Moved(c_job.at, c_job.va, Dealt(c_job))'
  <2>1. Dealt(c_job)' = K \cup {k}
    BY <1>6, <1>10, Zenon DEF Dealt
  <2>2. QED BY <1>9, <1>10, <2>1, Zenon DEF Moved
<1>12. Looping(c_job)'
  <2>1. (c_job'.left <= c_job'.len) /\ (c_job'.at + c_job'.len <= c_MAXLEN)
        /\ (c_job'.va + c_job'.len <= c_MAXLEN)
    BY <1>4, <1>10, UserMemoryAssumption
  <2>2. QED BY <1>10, <1>11, <2>1 DEF Looping, CopyOps
<1>13. Bytes(c_buf)' /\ Frames(c_mem)'
  BY <1>1, <1>2, <1>7, Zenon DEF Bytes, Frames, CopyTyped
<1>14. CopyTyped'
  BY <1>1, <1>2, <1>10, <1>13, TypedStep, Zenon
<1>15. CopyExact'
  BY <1>10 DEF CopyExact, C!CopyExact
<1>16. QED BY <1>10, <1>12, <1>14, <1>15 DEF CopyInv

\* Its end.
LEMMA MemmoveEnd ==
  ASSUME CopyInv, C!memmove, c_job.left = 0
  PROVE  CopyInv'
<1>1. C!Finish(0)
  <2>1. ~ (c_job.left > 0)
    OBVIOUS
  <2>2. QED BY <2>1, Zenon DEF C!memmove
<1>2. c_job.pc = "loop" /\ c_job.op = "memmove" /\ UNCHANGED <<c_pagetable, c_sz, c_was>>
  BY Zenon DEF C!memmove, C!InLoop
<1>3. Ended(0) /\ (CopyExact' => CopyInv')
  BY <1>1, <1>2, Finishes
<1>4. CopyTyped /\ Looping(c_job)
  BY <1>2, Zenon DEF CopyInv
<1>5. PICK src \in Nat, dst \in Nat, len \in Nat, K \in SUBSET Int :
        /\ src = c_job.va /\ dst = c_job.at /\ len = c_job.len /\ K = Dealt(c_job)
  BY <1>4 DEF CopyTyped, Jobs, Dealt
<1>6. Moved(dst, src, K)
  BY <1>2, <1>4, <1>5, Zenon DEF Looping
<1>7. K = 0 .. len - 1
  BY <1>5 DEF Dealt
<1>8. \A k \in C!Buffer : k - dst \in K <=> k \in dst .. dst + len - 1
  BY <1>7, UserMemoryAssumption DEF C!Buffer
<1>9. c_buf = [k \in C!Buffer |-> IF k \in C!Range(dst, len) THEN c_was.buf[src + k - dst]
                                 ELSE c_was.buf[k]]
  BY <1>6, <1>8, Zenon DEF Moved, C!Range
<1>10. c_buf' = c_buf /\ c_was' = c_was
  BY <1>1, <1>2, Zenon DEF C!Finish
<1>11. c_job'.op = "memmove" /\ c_job'.va = src /\ c_job'.at = dst /\ c_job'.len = len
  BY <1>2, <1>3, <1>5, Zenon DEF Ended
<1>12. CopyExact'
  BY <1>9, <1>10, <1>11, Zenon DEF CopyExact, C!CopyExact, C!Range
<1>13. QED BY <1>3, <1>12

\* What a call that begins finds.
Fresh(op, va, at, len) ==
  /\ c_job' \in Jobs /\ c_job'.pc = "loop" /\ c_job'.op = op /\ c_job'.r = 0
  /\ c_job'.va = va /\ c_job'.at = at /\ c_job'.len = len /\ c_job'.left = len /\ c_job'.i = 0

\* The start of a call that copies pages.
LEMMA BeginCopy ==
  ASSUME CopyInv, c_job.pc = "idle", UNCHANGED <<c_pagetable, c_sz, c_mem, c_buf, c_was>>,
         NEW op \in CopyOps \ {"memmove"}, NEW va \in Nat, NEW len \in Nat,
         C!Begin(op, va, len), op = "fetchaddr" => va + len <= c_sz
  PROVE  CopyInv'
<1>1. CopyTyped /\ c_mem = c_was.mem /\ c_buf = c_was.buf
  BY DEF CopyInv
<1>2. Fresh(op, va, va, len)
  BY Zenon DEF C!Begin, C!None, Fresh, Jobs, CopyOps
<1>3. \A k \in C!Buffer : ~ (k < 0)
  BY UserMemoryAssumption DEF C!Buffer
<1>4. C!Got(va, 0)'
  <2>1. c_buf = [k \in C!Buffer |-> c_was.buf[k]]
    BY <1>1, Zenon DEF CopyTyped, Bytes
  <2>2. QED BY <1>3, <2>1, Zenon DEF C!Got
<1>5. C!Range(va, 0) = {}
  BY DEF C!Range
<1>6. C!Valid(va, 0)'
  BY <1>5, Zenon DEF C!Valid, C!Range
<1>7. Stored(va, 0)'
  <2>1. Stored(va, 0)
    BY <1>1, <1>5, Zenon DEF Stored, C!User
  <2>2. \A a : C!walkaddr(a)' = C!walkaddr(a) /\ C!User(a)' = C!User(a)
    BY Zenon, UserSame
  <2>3. QED BY <2>1, <2>2, Zenon DEF Stored
<1>8. InPlace(c_job)'
  <2>1. c_job'.i + c_job'.left = c_job'.len /\ c_job'.at = c_job'.va + c_job'.i
    BY <1>2 DEF Fresh
  <2>2. C!Valid(c_job.va, c_job.i)'
    BY <1>2, <1>6, Zenon DEF Fresh, C!Valid, C!Range
  <2>3. QED BY <2>1, <2>2, Zenon DEF InPlace
<1>9. C!Got(c_job.va, c_job.i)'
  BY <1>2, <1>4, Zenon DEF Fresh, C!Got
<1>10. Stored(c_job.va, c_job.i)'
  BY <1>2, <1>7, Zenon DEF Fresh, Stored, C!Range
<1>11. \A k \in 0 .. c_job'.i - 1 : C!User(c_job.va + k)' # 0
  BY <1>2 DEF Fresh
<1>12. Looping(c_job)'
  <2>1. c_job'.op \in CopyOps /\ c_job'.op # "memmove" /\ c_job'.r = 0
        /\ (c_job'.op = "fetchaddr" => c_job'.va + c_job'.len <= c_sz')
    BY <1>2 DEF Fresh
  <2>2. QED BY <1>1, <1>8, <1>9, <1>10, <1>11, <2>1, Zenon DEF Looping
<1>13. c_job' \in Jobs /\ c_job'.pc = "loop"
  BY <1>2 DEF Fresh
<1>14. Bytes(c_buf)' /\ Frames(c_mem)'
  BY <1>1, KeptTyped, Zenon
<1>15. CopyTyped'
  BY <1>1, <1>13, <1>14, TypedStep, Zenon
<1>16. CopyExact'
  BY <1>13 DEF CopyExact, C!CopyExact
<1>17. QED BY <1>12, <1>13, <1>15, <1>16 DEF CopyInv

\* The start of memmove.
LEMMA BeginMove ==
  ASSUME CopyInv, C!Memmove
  PROVE  CopyInv'
<1>1. /\ c_job.pc = "idle" /\ UNCHANGED <<c_pagetable, c_sz, c_mem, c_buf, c_was>>
      /\ \E dst, src \in C!Buffer, n \in 0 .. c_MAXLEN :
           /\ dst + n <= c_MAXLEN /\ src + n <= c_MAXLEN
           /\ c_job' = [C!None EXCEPT !.op = "memmove", !.pc = "loop", !.va = src, !.at = dst,
                                      !.len = n, !.left = n]
  BY Zenon DEF C!Memmove
<1>2. CopyTyped /\ c_mem = c_was.mem /\ c_buf = c_was.buf
  BY <1>1 DEF CopyInv
<1>3. PICK dst \in C!Buffer, src \in C!Buffer, n \in 0 .. c_MAXLEN :
        /\ dst + n <= c_MAXLEN /\ src + n <= c_MAXLEN
        /\ c_job' = [C!None EXCEPT !.op = "memmove", !.pc = "loop", !.va = src, !.at = dst,
                                   !.len = n, !.left = n]
  BY <1>1, Zenon
<1>4. dst \in Nat /\ src \in Nat /\ n \in Nat
  BY UserMemoryAssumption DEF C!Buffer
<1>5. Fresh("memmove", src, dst, n)
  BY Zenon, <1>3, <1>4 DEF C!None, Fresh, Jobs, CopyOps
<1>6. Dealt(c_job)' = {}
  BY <1>4, <1>5 DEF Dealt, Fresh
<1>7. Moved(dst, src, {})'
  BY <1>1, <1>2, Zenon DEF Moved, CopyTyped, Bytes
<1>8. Moved(c_job.at, c_job.va, Dealt(c_job))'
  BY <1>5, <1>6, <1>7, Zenon DEF Fresh, Moved
<1>9. Looping(c_job)'
  BY <1>3, <1>4, <1>5, <1>8 DEF Fresh, Looping, CopyOps
<1>10. c_job' \in Jobs /\ c_job'.pc = "loop"
  BY <1>5 DEF Fresh
<1>11. Bytes(c_buf)' /\ Frames(c_mem)'
  BY <1>1, <1>2, KeptTyped, Zenon
<1>12. CopyTyped'
  BY <1>1, <1>2, <1>10, <1>11, TypedStep, Zenon
<1>13. CopyExact'
  BY <1>10 DEF CopyExact, C!CopyExact
<1>14. QED BY <1>9, <1>10, <1>12, <1>13 DEF CopyInv

\* fetchaddr refuses an address that is not below the process's size.
LEMMA Refused ==
  ASSUME CopyInv, c_job.pc = "idle", UNCHANGED <<c_pagetable, c_sz, c_mem, c_buf, c_was>>,
         NEW addr \in Nat, addr >= c_sz \/ addr + c_WORD > c_sz,
         c_job' = [C!None EXCEPT !.op = "fetchaddr", !.pc = "done", !.va = addr, !.len = c_WORD,
                                 !.r = -1]
  PROVE  CopyInv'
<1>1. CopyTyped
  BY DEF CopyInv
<1>2. /\ c_job' \in Jobs /\ c_job'.pc = "done" /\ c_job'.op = "fetchaddr" /\ c_job'.r = -1
      /\ c_job'.va = addr /\ c_job'.len = c_WORD
  BY Zenon, UserMemoryAssumption DEF C!None, Jobs, CopyOps
<1>3. ~ (c_job'.va + c_job'.len <= c_sz') /\ ~ (c_job'.r = 0)
  BY <1>1, <1>2, UserMemoryAssumption DEF CopyTyped
<1>4. CopyExact'
  <2>1. (c_job.r = 0)' = (C!Valid(c_job.va, c_job.len)' /\ (c_job.va + c_job.len <= c_sz)')
    BY <1>3, Zenon
  <2>2. QED BY <1>2, <1>3, <2>1, Zenon DEF CopyExact, C!CopyExact
<1>5. Bytes(c_buf)' /\ Frames(c_mem)'
  BY <1>1, KeptTyped, Zenon
<1>6. CopyTyped'
  BY <1>1, <1>2, <1>5, TypedStep, Zenon
<1>7. QED BY <1>2, <1>4, <1>6 DEF CopyInv

\* A step without effect.
LEMMA CopyStutters ==
  ASSUME CopyInv, UNCHANGED C!vars
  PROVE  CopyInv'
<1>1. UNCHANGED <<c_pagetable, c_sz, c_mem, c_buf, c_was, c_job>>
  BY Zenon DEF C!vars
<1>2. CopyTyped'
  BY <1>1, Zenon DEF CopyInv, CopyTyped, Frames, Bytes
<1>3. \A a : C!walkaddr(a)' = C!walkaddr(a) /\ C!User(a)' = C!User(a)
  BY <1>1, UserSame, Zenon
<1>4. CopyExact'
  BY <1>1, <1>3, Zenon DEF CopyInv, CopyExact, C!CopyExact, C!Valid, C!Got
<1>5. Looping(c_job) => Looping(c_job)'
  BY <1>1, <1>3, Zenon DEF Looping, InPlace, Stored, Moved, Dealt, C!Valid, C!Got
<1>6. QED BY <1>1, <1>2, <1>4, <1>5, Zenon DEF CopyInv

\* CopyInv holds at first,
LEMMA CopyInitially ==
  ASSUME C!Init
  PROVE  CopyInv
<1>1. c_job = C!None /\ c_was.mem = c_mem /\ c_was.buf = c_buf
  BY DEF C!Init
<1>2. c_job \in Jobs /\ c_job.pc = "idle"
  BY <1>1 DEF C!None, Jobs
<1>3. c_sz \in Nat
  <2>1. c_NPAGE * c_PGSIZE \in Nat /\ c_PGSIZE + 1 \in Nat
    BY UserMemoryAssumption
  <2>2. QED BY <2>1, Zenon DEF C!Init
<1>4. Bytes(c_buf)
  BY Zenon DEF C!Init, C!Fill, Bytes
<1>5. Frames(c_mem)
  BY Zenon DEF C!Init, Frames
<1>6. CopyTyped
  <2>1. /\ c_pagetable \in [C!Page -> 0 .. c_NPAGE]
        /\ \A v, w \in C!Page : v # w /\ c_pagetable[v] # 0 => c_pagetable[v] # c_pagetable[w]
    BY Zenon DEF C!Init
  <2>2. QED BY <1>1, <1>2, <1>3, <1>4, <1>5, <2>1 DEF CopyTyped
<1>7. CopyExact
  BY <1>2 DEF CopyExact, C!CopyExact
<1>8. QED BY <1>1, <1>2, <1>6, <1>7 DEF CopyInv

\* and every step keeps it.
LEMMA CopyStep ==
  ASSUME CopyInv, [C!Next]_(C!vars)
  PROVE  CopyInv'
<1>0. CopyTyped
  BY DEF CopyInv
<1>1. CASE UNCHANGED C!vars
  BY <1>1, CopyStutters
<1>2. c_NPAGE * c_PGSIZE + 1 \in Nat
  BY UserMemoryAssumption
<1>3. CASE C!Call
  <2>1. /\ c_job.pc = "idle" /\ UNCHANGED <<c_pagetable, c_sz, c_mem, c_buf, c_was>>
        /\ \E va \in 0 .. c_NPAGE * c_PGSIZE + 1, len \in 0 .. c_MAXLEN :
             \E op \in {"copyin", "copyout", "copyinstr"} : C!Begin(op, va, len)
    BY <1>3, Zenon DEF C!Call
  <2>2. PICK va \in 0 .. c_NPAGE * c_PGSIZE + 1, len \in 0 .. c_MAXLEN,
             op \in {"copyin", "copyout", "copyinstr"} : C!Begin(op, va, len)
    BY <2>1, Zenon
  <2>3. va \in Nat /\ len \in Nat
    BY <1>2, UserMemoryAssumption
  <2>4. op \in CopyOps \ {"memmove"} /\ op # "fetchaddr"
    BY DEF CopyOps
  <2>5. QED BY <2>1, <2>2, <2>3, <2>4, BeginCopy, Zenon
<1>4. CASE C!fetchaddr
  <2>1. /\ c_job.pc = "idle" /\ UNCHANGED <<c_pagetable, c_sz, c_mem, c_buf, c_was>>
    BY <1>4, Zenon DEF C!fetchaddr
  <2>2. PICK addr \in 0 .. c_NPAGE * c_PGSIZE + 1 :
          IF addr >= c_sz \/ addr + c_WORD > c_sz
          THEN c_job' = [C!None EXCEPT !.op = "fetchaddr", !.pc = "done", !.va = addr,
                                       !.len = c_WORD, !.r = -1]
          ELSE C!Begin("fetchaddr", addr, c_WORD)
    BY <1>4, Zenon DEF C!fetchaddr
  <2>3. addr \in Nat /\ c_WORD \in Nat
    BY <1>2, UserMemoryAssumption
  <2>4. CASE addr >= c_sz \/ addr + c_WORD > c_sz
    BY <2>1, <2>2, <2>3, <2>4, Refused, Zenon
  <2>5. CASE ~ (addr >= c_sz \/ addr + c_WORD > c_sz)
    <3>1. addr + c_WORD <= c_sz
      BY <1>0, <2>3, <2>5 DEF CopyTyped
    <3>2. "fetchaddr" \in CopyOps \ {"memmove"}
      BY DEF CopyOps
    <3>3. QED BY <2>1, <2>2, <2>3, <2>5, <3>1, <3>2, BeginCopy, Zenon
  <2>6. QED BY <2>4, <2>5
<1>5. c_job.left > 0 \/ c_job.left = 0
  BY <1>0 DEF CopyTyped, Jobs
<1>6. CASE C!copyin
  BY <1>5, <1>6, CopyinTurn, CopyinEnd, Zenon
<1>7. CASE C!copyout
  BY <1>5, <1>7, CopyoutTurn, CopyoutEnd, Zenon
<1>8. CASE C!copyinstr
  BY <1>5, <1>8, CopyinstrTurn, CopyinstrNul, CopyinstrEnd, Zenon
<1>9. CASE C!Memmove
  BY <1>9, BeginMove
<1>10. CASE C!memmove
  BY <1>5, <1>10, MemmoveTurn, MemmoveEnd, Zenon
<1>11. CASE C!Over
  BY <1>1, <1>11, Zenon DEF C!Over
<1>12. QED
  BY <1>1, <1>3, <1>4, <1>6, <1>7, <1>8, <1>9, <1>10, <1>11, Zenon DEF C!Next

\* Whatever the sizes, the page table and the areas: copyin, copyout, copyinstr
\* and fetchaddr copy exactly the bytes at the addresses they are given, across
\* pages that lie anywhere, and fail exactly if one is missing; memmove copies
\* what was there before, however the areas overlap.
THEOREM CopiesExact == C!Spec => []CopyExact
<1>1. C!Init => CopyInv
  BY CopyInitially
<1>2. CopyInv /\ [C!Next]_(C!vars) => CopyInv'
  BY CopyStep
<1>3. CopyInv => CopyExact
  BY DEF CopyInv
<1>4. QED BY <1>1, <1>2, <1>3, PTL DEF C!Spec

-----------------------------------------------------------------------------
\* The page allocator.
USE DEF Null

\* The inductive invariant.
IInv ==
  /\ TypeOK
  /\ ListsExact
  /\ \A p \in Proc : \A a \in held[p] : a \in Valid /\ pa2cpuid(a) \in Cpu
  /\ \A p \in Proc : pc[p] \in {"own", "steal"} => cid[p] \in Cpu

\* The parts are as large as the division allows: what it leaves is less than
\* one byte for each CPU.
LEMMA ChunkBounds ==
  ASSUME end \in 0 .. PHYSTOP
  PROVE  /\ chunk \in Nat
         /\ NCPU * chunk <= PHYSTOP - end
         /\ PHYSTOP - end < NCPU * chunk + NCPU
<1> DEFINE d == PHYSTOP - end
<1>1. d \in Nat /\ NCPU \in Nat \ {0}
  BY KallocAssumption
<1>2. d \div NCPU \in Nat /\ NCPU * (d \div NCPU) <= d /\ d < NCPU * (d \div NCPU) + NCPU
  BY <1>1
<1>3. QED BY <1>1, <1>2 DEF chunk

\* pa2cpuid returns a CPU or -1.
LEMMA HomeType ==
  ASSUME NEW a \in Pages
  PROVE  pa2cpuid(a) \in Cpu \cup {-1}
<1> DEFINE ids == {i \in Cpu : /\ end + (i + 1) * chunk <= PHYSTOP
                               /\ a >= end + i * chunk
                               /\ a <= end + (i + 1) * chunk}
<1>1. CASE ids = {}
  BY <1>1, Zenon DEF pa2cpuid
<1>2. CASE ids # {}
  <2>1. \E i \in ids : \A j \in ids : i <= j
    <3>1. ids \subseteq Nat
      BY KallocAssumption DEF Cpu
    <3> HIDE DEF ids
    <3>2. QED BY Zenon, <1>2, <3>1, Smallest
  <2>2. PICK i \in Cpu : i \in ids /\ \A j \in ids : i <= j
    BY <2>1
  <2>3. pa2cpuid(a) = CHOOSE k \in ids : \A j \in ids : k <= j
    BY <1>2, Zenon DEF pa2cpuid
  <2>4. QED
    <3> HIDE DEF ids
    <3>1. (CHOOSE k \in ids : \A j \in ids : k <= j) \in ids
      BY <2>2, Zenon
    <3>2. QED BY <3>1, <2>3 DEF ids
<1>3. QED BY <1>1, <1>2

\* kinit frees only pages that pa2cpuid finds: a page that begins in a part
\* begins before the remainder of the division, which is less than a page.
LEMMA FreedHome ==
  ASSUME end \in 0 .. PHYSTOP, NEW a \in Freed
  PROVE  a \in Valid /\ pa2cpuid(a) \in Cpu
<1>1. PICK i \in Cpu : a \in freerange(end + i * chunk, PHYSTOP - (NCPU - i - 1) * chunk)
  BY DEF Freed
<1>2. /\ a \in Pages /\ end + i * chunk <= a
      /\ a + PGSIZE <= PHYSTOP - (NCPU - i - 1) * chunk
  BY <1>1 DEF freerange
<1>3. /\ chunk \in Nat /\ NCPU * chunk <= PHYSTOP - end
      /\ PHYSTOP - end < NCPU * chunk + NCPU
  BY ChunkBounds
<1>4. /\ i \in Nat /\ a \in Nat /\ end \in Nat /\ PHYSTOP \in Nat /\ PGSIZE \in Nat
      /\ NCPU \in Nat /\ NCPU <= PGSIZE /\ i + 1 <= NCPU
  BY KallocAssumption, <1>2 DEF Cpu, Pages
<1>5. /\ i * chunk \in Nat /\ NCPU * chunk \in Nat
      /\ (i + 1) * chunk = i * chunk + chunk
      /\ (NCPU - i - 1) * chunk = NCPU * chunk - i * chunk - chunk
      /\ (NCPU - i - 1) * chunk >= 0
  BY <1>3, <1>4
<1>6. /\ end + (i + 1) * chunk <= PHYSTOP
      /\ a >= end + i * chunk /\ a <= end + (i + 1) * chunk
  BY <1>2, <1>3, <1>4, <1>5
<1> DEFINE ids == {k \in Cpu : /\ end + (k + 1) * chunk <= PHYSTOP
                               /\ a >= end + k * chunk
                               /\ a <= end + (k + 1) * chunk}
<1>7. i \in ids /\ pa2cpuid(a) # -1
  <2>1. i \in ids
    BY <1>6
  <2>2. ids \subseteq Nat
    BY <1>4 DEF Cpu
  <2>3. pa2cpuid(a) = CHOOSE k \in ids : \A j \in ids : k <= j
    BY <2>1, Zenon DEF pa2cpuid
  <2> HIDE DEF ids
  <2>4. \E k \in ids : \A j \in ids : k <= j
    BY Zenon, <2>1, <2>2, Smallest
  <2>5. pa2cpuid(a) \in ids
    BY <2>3, <2>4, Zenon
  <2>6. QED BY <2>1, <2>2, <2>5
<1>8. a \in Valid
  BY <1>2, <1>4, <1>5 DEF Valid
<1>9. QED BY <1>2, <1>7, <1>8, HomeType

\* Before the first call the lists are exact.
LEMMA InitExact == Init => IInv
<1> SUFFICES ASSUME Init PROVE IInv
  OBVIOUS
<1>1. end \in Ends /\ end \in 0 .. PHYSTOP
  BY KallocAssumption DEF Init
<1>2. \A a \in Freed : a \in Valid /\ pa2cpuid(a) \in Cpu
  BY <1>1, FreedHome
<1>3. Freed \subseteq Pages
  BY <1>2 DEF Valid
<1>4. \A a \in Freed : ~ (pa2cpuid(a) < 0)
  BY <1>2 DEF Cpu
<1>5. /\ kmem = [i \in Cpu |-> {a \in Freed : pa2cpuid(a) = i}]
      /\ held = [p \in Proc |-> {}] /\ pc = [p \in Proc |-> "idle"]
      /\ cid = [p \in Proc |-> -1] /\ id = [p \in Proc |-> 0]
  BY <1>4 DEF Init
<1>6. TypeOK
  BY <1>1, <1>3, <1>5, KallocAssumption DEF TypeOK
<1>7. ListsExact
  BY <1>2, <1>5 DEF ListsExact, NeverShared, HomeList
<1>8. QED BY <1>5, <1>6, <1>7 DEF IInv

\* Nothing moves: a step that changes neither lists nor pages, and does not panic.
LEMMA NothingMoves ==
  ASSUME IInv, UNCHANGED <<end, kmem, held>>,
         TypeOK', \A p \in Proc : pc'[p] # "panic",
         \A p \in Proc : pc'[p] \in {"own", "steal"} => cid'[p] \in Cpu
  PROVE  IInv'
<1>1. \A a : pa2cpuid(a)' = pa2cpuid(a)
  BY DEF pa2cpuid, chunk
<1>2. Valid' = Valid
  BY DEF Valid
<1>3. QED
  BY <1>1, <1>2 DEF IInv, ListsExact, NeverShared, HomeList

\* Page a goes from list i to process p, which is in kalloc.
LEMMA PageTaken ==
  ASSUME IInv, NEW p \in Proc, NEW i \in Cpu, NEW a \in kmem[i],
         kmem' = [kmem EXCEPT ![i] = @ \ {a}], Return(p, {a}), UNCHANGED end
  PROVE  IInv'
<1>1. (\A b : pa2cpuid(b)' = pa2cpuid(b)) /\ Valid' = Valid
  BY DEF pa2cpuid, chunk, Valid
<1>2. /\ held' = [held EXCEPT ![p] = @ \cup {a}]
      /\ pc' = [pc EXCEPT ![p] = "idle"] /\ cid' = [cid EXCEPT ![p] = -1]
      /\ id' = [id EXCEPT ![p] = 0]
  BY DEF Return
<1>3. TypeOK /\ NeverShared /\ HomeList
  BY DEF IInv, ListsExact
<1>4. a \in Pages /\ a \in Valid /\ pa2cpuid(a) = i
  BY <1>3 DEF TypeOK, HomeList
<1>5. TypeOK'
  BY <1>2, <1>3, <1>4, KallocAssumption DEF TypeOK
<1>6. NeverShared'
  BY <1>2, <1>3 DEF TypeOK, NeverShared
<1>7. HomeList'
  BY <1>1, <1>2, <1>3 DEF TypeOK, HomeList
<1>8. \A q \in Proc : \A b \in held'[q] : b \in Valid' /\ pa2cpuid(b)' \in Cpu
  BY <1>1, <1>2, <1>3, <1>4 DEF IInv, TypeOK
<1>9. \A q \in Proc : pc'[q] \in {"own", "steal"} => cid'[q] \in Cpu
  BY <1>2, <1>3 DEF IInv, TypeOK
<1>10. QED BY <1>5, <1>6, <1>7, <1>8, <1>9 DEF IInv, ListsExact

\* kfree puts a page that a process holds on the list of its part, and finds it.
LEMMA KfreeStep ==
  ASSUME IInv, NEW p \in Proc, NEW a \in Pages, Kfree(p, a)
  PROVE  IInv'
<1>1. TypeOK /\ NeverShared /\ HomeList
  BY DEF IInv, ListsExact
<1>2. a \in held[p] /\ a \in Valid /\ pa2cpuid(a) \in Cpu
  BY DEF Kfree, IInv
<1>3. ~ (pa2cpuid(a) < 0)
  BY <1>2 DEF Cpu
<1>4. /\ kmem' = [kmem EXCEPT ![pa2cpuid(a)] = @ \cup {a}]
      /\ held' = [held EXCEPT ![p] = @ \ {a}]
      /\ UNCHANGED <<end, pc, cid, id>>
  BY <1>3 DEF Kfree
<1>5. (\A b : pa2cpuid(b)' = pa2cpuid(b)) /\ Valid' = Valid
  BY <1>4 DEF pa2cpuid, chunk, Valid
<1>6. TypeOK'
  BY <1>1, <1>2, <1>4 DEF TypeOK
<1>7. NeverShared'
  <2> HIDE DEF Null
  <2>1. \A i \in Cpu : a \notin kmem[i]
    BY <1>1, <1>2 DEF NeverShared
  <2>2. \A q \in Proc : q # p => a \notin held[q]
    BY <1>1, <1>2 DEF NeverShared
  <2>3. QED BY <1>1, <1>2, <1>4, <2>1, <2>2 DEF TypeOK, NeverShared
<1>8. HomeList'
  BY <1>1, <1>2, <1>4, <1>5 DEF TypeOK, HomeList
<1>9. \A q \in Proc : \A b \in held'[q] : b \in Valid' /\ pa2cpuid(b)' \in Cpu
  BY <1>1, <1>4, <1>5 DEF IInv, TypeOK
<1>10. QED BY <1>4, <1>6, <1>7, <1>8, <1>9 DEF IInv, ListsExact

\* The list that a process looks at.
LEMMA Looking ==
  ASSUME IInv, NEW p \in Proc
  PROVE  /\ pc[p] \in {"own", "steal"} => cid[p] \in Cpu
         /\ id[p] < NCPU => id[p] \in Cpu
BY KallocAssumption DEF IInv, TypeOK, Cpu

\* Every step of kalloc and kfree keeps the lists exact.
LEMMA NextExact == IInv /\ [Next]_vars => IInv'
<1> SUFFICES ASSUME IInv, [Next]_vars PROVE IInv'
  OBVIOUS
<1>1. TypeOK /\ \A p \in Proc : pc[p] # "panic"
  BY DEF IInv, ListsExact, HomeList
<1>2. CASE UNCHANGED vars
  <2>1. TypeOK'
    BY <1>1, <1>2 DEF TypeOK, vars
  <2>2. QED BY <1>1, <1>2, <2>1, NothingMoves DEF vars, IInv
<1>3. ASSUME NEW p \in Proc, NEW c \in Cpu, Kalloc(p, c) PROVE IInv'
  <2>1. TypeOK'
    BY <1>1, <1>3 DEF TypeOK, Kalloc
  <2>2. \A q \in Proc : pc'[q] \in {"own", "steal"} => cid'[q] \in Cpu
    BY <1>1, <1>3 DEF IInv, TypeOK, Kalloc
  <2>3. QED BY <1>1, <1>3, <2>1, <2>2, NothingMoves DEF Kalloc, TypeOK
<1>4. ASSUME NEW p \in Proc, TakeOwn(p) PROVE IInv'
  <2>1. PICK a \in kmem[cid[p]] : kmem' = [kmem EXCEPT ![cid[p]] = @ \ {a}] /\ Return(p, {a})
    BY Zenon, <1>4 DEF TakeOwn
  <2>2. QED BY Zenon, <1>4, <2>1, Looking, PageTaken DEF TakeOwn
<1>5. ASSUME NEW p \in Proc, OwnEmpty(p) PROVE IInv'
  <2>1. TypeOK'
    BY <1>1, <1>5 DEF TypeOK, OwnEmpty
  <2>2. \A q \in Proc : pc'[q] \in {"own", "steal"} => cid'[q] \in Cpu
    BY <1>1, <1>5 DEF IInv, TypeOK, OwnEmpty
  <2>3. QED BY <1>1, <1>5, <2>1, <2>2, NothingMoves DEF OwnEmpty, TypeOK
<1>6. ASSUME NEW p \in Proc, Steal(p) PROVE IInv'
  <2>1. PICK a \in kmem[id[p]] : kmem' = [kmem EXCEPT ![id[p]] = @ \ {a}] /\ Return(p, {a})
    BY Zenon, <1>6 DEF Steal
  <2>2. QED BY Zenon, <1>6, <2>1, Looking, PageTaken DEF Steal
<1>7. ASSUME NEW p \in Proc, Skip(p) PROVE IInv'
  <2>1. TypeOK'
    BY <1>1, <1>7, KallocAssumption DEF TypeOK, Skip
  <2>2. QED BY <1>1, <1>7, <2>1, NothingMoves DEF Skip, IInv
<1>8. ASSUME NEW p \in Proc, Fail(p) PROVE IInv'
  <2>1. TypeOK'
    BY <1>1, <1>8 DEF TypeOK, Fail
  <2>2. \A q \in Proc : pc'[q] \in {"own", "steal"} => cid'[q] \in Cpu
    BY <1>1, <1>8 DEF IInv, TypeOK, Fail
  <2>3. QED BY <1>1, <1>8, <2>1, <2>2, NothingMoves DEF Fail, TypeOK
<1>9. ASSUME NEW p \in Proc, GiveUp(p) PROVE IInv'
  <2>1. held' = held
    BY <1>1, <1>9 DEF GiveUp, Return, TypeOK
  <2>2. TypeOK'
    BY <1>1, <1>9, <2>1, KallocAssumption DEF TypeOK, GiveUp, Return
  <2>3. \A q \in Proc : pc'[q] \in {"own", "steal"} => cid'[q] \in Cpu
    BY <1>1, <1>9 DEF IInv, TypeOK, GiveUp, Return
  <2>4. QED BY <1>1, <1>9, <2>1, <2>2, <2>3, NothingMoves DEF GiveUp, Return, TypeOK
<1>10. QED
  BY <1>2, <1>3, <1>4, <1>5, <1>6, <1>7, <1>8, <1>9, KfreeStep DEF Next, Step

\* No page is ever in two places, a free page is on the list of the part it lies
\* in, and kfree never panics: however many CPUs steal from each other, and
\* whatever remainder kinit's division leaves.
THEOREM AllocatorExact == Spec => []ListsExact
<1>1. IInv => ListsExact
  BY DEF IInv
<1>2. QED BY <1>1, InitExact, NextExact, PTL DEF Spec

\* The pages managed stay the same if each is somewhere before and after.
LEMMA SameUnion ==
  ASSUME \A b : (\E i \in Cpu : b \in kmem[i]) \/ (\E p \in Proc : b \in held[p])
            <=> (\E i \in Cpu : b \in kmem'[i]) \/ (\E p \in Proc : b \in held'[p])
  PROVE  Managed' = Managed
BY DEF Managed

\* No step loses a page or makes one.
LEMMA ManagedKept == ASSUME IInv, [Next]_vars PROVE Managed' = Managed
<1>1. TypeOK
  BY DEF IInv
<1>2. CASE UNCHANGED <<kmem, held>>
  BY <1>2 DEF Managed
<1>3. ASSUME NEW p \in Proc, NEW i \in Cpu, NEW a \in kmem[i],
             kmem' = [kmem EXCEPT ![i] = @ \ {a}], held' = [held EXCEPT ![p] = @ \cup {a}]
      PROVE  Managed' = Managed
  <2>1. /\ \A j \in Cpu : kmem'[j] = IF j = i THEN kmem[i] \ {a} ELSE kmem[j]
        /\ \A q \in Proc : held'[q] = IF q = p THEN held[p] \cup {a} ELSE held[q]
    BY <1>1, <1>3 DEF TypeOK
  <2>2. \A b : (\E j \in Cpu : b \in kmem[j]) \/ (\E q \in Proc : b \in held[q])
            <=> (\E j \in Cpu : b \in kmem'[j]) \/ (\E q \in Proc : b \in held'[q])
    BY <1>3, <2>1
  <2>3. QED BY Zenon, <2>2, SameUnion
<1>4. ASSUME NEW p \in Proc, NEW a \in Pages, Kfree(p, a) PROVE Managed' = Managed
  <2>1. a \in held[p] /\ pa2cpuid(a) \in Cpu
    BY <1>4 DEF Kfree, IInv
  <2>2. /\ \A j \in Cpu : kmem'[j] = IF j = pa2cpuid(a) THEN kmem[j] \cup {a} ELSE kmem[j]
        /\ \A q \in Proc : held'[q] = IF q = p THEN held[p] \ {a} ELSE held[q]
    <3>1. /\ kmem' = [kmem EXCEPT ![pa2cpuid(a)] = @ \cup {a}]
          /\ held' = [held EXCEPT ![p] = @ \ {a}]
      BY <1>4, <2>1 DEF Kfree, Cpu
    <3>2. QED BY Zenon, <1>1, <2>1, <3>1 DEF TypeOK
  <2>3. \A b : (\E j \in Cpu : b \in kmem[j]) \/ (\E q \in Proc : b \in held[q])
            <=> (\E j \in Cpu : b \in kmem'[j]) \/ (\E q \in Proc : b \in held'[q])
    BY Zenon, <2>1, <2>2
  <2>4. QED BY Zenon, <2>3, SameUnion
<1>5. ASSUME NEW p \in Proc, Step(p) PROVE Managed' = Managed
  <2>1. CASE TakeOwn(p)
    BY Zenon, <1>3, <2>1, Looking DEF TakeOwn, Return
  <2>2. CASE Steal(p)
    BY Zenon, <1>3, <2>2, Looking DEF Steal, Return
  <2>3. CASE GiveUp(p)
    <3>1. held' = held
      BY <1>1, <2>3 DEF GiveUp, Return, TypeOK
    <3>2. QED BY <1>2, <2>3, <3>1 DEF GiveUp
  <2>4. QED
    BY <1>2, <1>5, <2>1, <2>2, <2>3 DEF Step, OwnEmpty, Skip, Fail
<1>6. QED
  BY <1>2, <1>4, <1>5 DEF Next, Kalloc, vars

\* After kinit no page is lost and none appears: what kalloc takes from a list
\* its caller gets, and what kfree is given is on a list.
THEOREM NoPageLost == Spec => [][Managed' = Managed]_vars
<1>1. IInv /\ [Next]_vars => Managed' = Managed
  BY Zenon, ManagedKept
<1>2. QED BY <1>1, InitExact, NextExact, PTL DEF Spec

\* Pages do not overlap, and the last one ends with the memory.
LEMMA PageBounds ==
  ASSUME NEW a \in Pages
  PROVE  /\ a + PGSIZE <= PHYSTOP
         /\ \A b \in Pages : a < b => a + PGSIZE <= b
<1>1. \A m, n \in Nat : m % PGSIZE = 0 /\ n % PGSIZE = 0 /\ m < n => m + PGSIZE <= n
  <2> TAKE m, n \in Nat
  <2> HAVE m % PGSIZE = 0 /\ n % PGSIZE = 0 /\ m < n
  <2> DEFINE i == m \div PGSIZE
             j == n \div PGSIZE
  <2>1. PGSIZE \in Nat \ {0}
    BY KallocAssumption
  <2>2. i \in Nat /\ j \in Nat /\ m = PGSIZE * i /\ n = PGSIZE * j
    BY <2>1
  <2> HIDE DEF i, j
  <2>3. i + 1 <= j
    <3>1. SUFFICES ASSUME j <= i PROVE FALSE
      BY <2>2
    <3>2. PGSIZE * j <= PGSIZE * i
      BY <2>1, <2>2, <3>1
    <3>3. QED BY <2>1, <2>2, <3>2
  <2>4. PGSIZE * (i + 1) <= PGSIZE * j
    BY <2>1, <2>2, <2>3
  <2>5. PGSIZE * (i + 1) = PGSIZE * i + PGSIZE
    BY <2>1, <2>2
  <2>6. QED BY <2>1, <2>2, <2>4, <2>5
<1>2. a \in Nat /\ a % PGSIZE = 0 /\ a < PHYSTOP /\ PHYSTOP \in Nat /\ PHYSTOP % PGSIZE = 0
  BY KallocAssumption DEF Pages
<1>3. \A b \in Pages : b \in Nat /\ b % PGSIZE = 0
  BY KallocAssumption DEF Pages
<1>4. QED BY <1>1, <1>2, <1>3

\* Page a lies across the end of part i.
Across(a, i) == end + i * chunk <= a /\ a < end + (i + 1) * chunk /\ end + (i + 1) * chunk < a + PGSIZE

\* A page that kinit does not free lies across the end of a part.
LEMMA LostAcross ==
  ASSUME end \in 0 .. PHYSTOP, NEW a \in Valid, a \notin Freed
  PROVE  \E i \in 0 .. NCPU - 2 : Across(a, i)
<1>1. /\ chunk \in Nat /\ NCPU * chunk <= PHYSTOP - end
      /\ a \in Nat /\ end \in Nat /\ PHYSTOP \in Nat /\ PGSIZE \in Nat \ {0} /\ NCPU \in Nat \ {0}
      /\ end <= a /\ a \in Pages /\ a + PGSIZE <= PHYSTOP
  BY ChunkBounds, KallocAssumption, PageBounds DEF Valid, Pages
<1>2. ASSUME NEW i \in Cpu, end + i * chunk <= a PROVE PHYSTOP - (NCPU - i - 1) * chunk < a + PGSIZE
  <2>1. a \notin freerange(end + i * chunk, PHYSTOP - (NCPU - i - 1) * chunk)
    BY Zenon DEF Freed
  <2>2. ~ (a + PGSIZE <= PHYSTOP - (NCPU - i - 1) * chunk)
    BY Zenon, <1>1, <1>2, <2>1 DEF freerange
  <2>3. i \in Nat /\ i + 1 <= NCPU
    BY <1>1 DEF Cpu
  <2>4. (NCPU - i - 1) * chunk \in Nat
    BY <1>1, <2>3
  <2>5. QED BY <1>1, <2>2, <2>4
<1> DEFINE k == NCPU - 1
<1>3. ~ (end + k * chunk <= a)
  <2>1. k \in Cpu /\ (NCPU - k - 1) * chunk = 0
    BY <1>1 DEF Cpu
  <2>2. QED BY <1>1, <1>2, <2>1
<1>4. chunk # 0
  BY <1>1, <1>3
<1> DEFINE i == (a - end) \div chunk
<1>5. i \in Nat /\ chunk * i <= a - end /\ a - end < chunk * i + chunk
  BY <1>1, <1>4
<1> HIDE DEF i
<1>6. /\ i * chunk = chunk * i /\ (i + 1) * chunk = chunk * i + chunk
      /\ end + i * chunk <= a /\ a < end + (i + 1) * chunk
  BY <1>1, <1>5
<1>7. i <= NCPU - 2
  <2>1. SUFFICES ASSUME k <= i PROVE FALSE
    BY <1>1, <1>5
  <2>2. k * chunk <= i * chunk
    BY <1>1, <1>5, <2>1
  <2>3. k * chunk \in Nat /\ i * chunk \in Nat
    BY <1>1, <1>5
  <2> HIDE DEF k
  <2>4. QED BY <1>1, <1>3, <1>6, <2>2, <2>3
<1>8. PHYSTOP - (NCPU - i - 1) * chunk < a + PGSIZE
  <2>1. i \in Cpu
    BY <1>1, <1>5, <1>7 DEF Cpu
  <2>2. QED BY <1>2, <1>6, <2>1
<1>9. (NCPU - i - 1) * chunk = NCPU * chunk - (i + 1) * chunk
  BY <1>1, <1>5
<1>10. end + (i + 1) * chunk < a + PGSIZE
  BY <1>1, <1>5, <1>6, <1>8, <1>9
<1>11. i \in 0 .. NCPU - 2
  BY <1>1, <1>5, <1>7
<1>12. QED BY Zenon, <1>6, <1>10, <1>11 DEF Across

\* So there are fewer of them than CPUs.
LEMMA FewNotFreed ==
  ASSUME end \in 0 .. PHYSTOP
  PROVE  Cardinality(Valid \ Freed) < NCPU
<1> DEFINE L == Valid \ Freed
           T == 0 .. NCPU - 2
           f == [a \in L |-> CHOOSE i \in T : Across(a, i)]
<1>1. \A a \in L : f[a] \in T /\ Across(a, f[a])
  BY Zenon, LostAcross
<1>2. ASSUME NEW a \in L, NEW b \in L, f[a] = f[b], a < b PROVE FALSE
  <2>1. a \in Pages /\ b \in Pages /\ a \in Nat /\ b \in Nat /\ PGSIZE \in Nat
    BY KallocAssumption DEF Valid, Pages
  <2>2. a + PGSIZE <= b
    BY Zenon, <1>2, <2>1, PageBounds
  <2>3. PICK i \in T : Across(a, i) /\ Across(b, i)
    BY Zenon, <1>1, <1>2
  <2>4. i \in Nat /\ chunk \in Nat /\ end \in Nat
    BY ChunkBounds, KallocAssumption
  <2>5. (i + 1) * chunk \in Nat
    BY <2>4
  <2>6. QED BY <2>1, <2>2, <2>3, <2>4, <2>5 DEF Across
<1>3. \A a, b \in L : a # b => a < b \/ b < a
  BY DEF Valid, Pages
<1>4. f \in Injection(L, T)
  <2>1. f \in [L -> T]
    BY Zenon, <1>1
  <2>2. \A a, b \in L : f[a] = f[b] => a = b
    BY Zenon, <1>2, <1>3
  <2>3. QED
    BY Zenon, <2>1, <2>2 DEF Injection, IsInjective
<1>5. NCPU \in Nat \ {0} /\ 0 \in Int /\ NCPU - 2 \in Int
  BY KallocAssumption
<1>6. IsFiniteSet(T) /\ Cardinality(T) = IF 0 > NCPU - 2 THEN 0 ELSE NCPU - 2 - 0 + 1
  BY Zenon, <1>5, FS_Interval
<1> HIDE DEF f, T, L
<1>7. Cardinality(L) <= Cardinality(T) /\ IsFiniteSet(L)
  BY Zenon, <1>4, <1>6, FS_Injection
<1>8. Cardinality(L) \in Nat
  BY Zenon, <1>7, FS_CardinalityType
<1>9. Cardinality(L) < NCPU
  BY <1>5, <1>6, <1>7, <1>8
<1>10. QED BY <1>9 DEF L

\* What kinit loses to the division of memory among the CPUs is less than a page
\* for each of them, and no page is lost after it.
THEOREM FewPagesLost == Spec => []FewLost
<1>1. Init => IInv /\ Managed = Freed
  <2>1. SUFFICES ASSUME Init PROVE Managed = Freed
    BY Zenon, InitExact
  <2>2. end \in 0 .. PHYSTOP
    BY <2>1, KallocAssumption DEF Init
  <2>3. \A a \in Freed : a \in Valid /\ pa2cpuid(a) \in Cpu
    BY Zenon, <2>2, FreedHome
  <2>4. \A a \in Freed : ~ (pa2cpuid(a) < 0)
    BY <2>3 DEF Cpu
  <2>5. kmem = [i \in Cpu |-> {a \in Freed : pa2cpuid(a) = i}] /\ held = [p \in Proc |-> {}]
    BY Zenon, <2>1 DEF Init
  <2>6. QED BY <2>3, <2>5 DEF Managed
<1>2. IInv /\ Managed = Freed /\ [Next]_vars => IInv' /\ (Managed = Freed)'
  <2>1. SUFFICES ASSUME IInv, [Next]_vars PROVE Freed' = Freed /\ Managed' = Managed
    BY Zenon, NextExact
  <2>2. end' = end
    BY Zenon, <2>1 DEF Next, Step, Kalloc, TakeOwn, OwnEmpty, Skip, Steal, GiveUp, Fail, Kfree,
       Return, vars
  <2>3. chunk' = chunk
    BY Zenon, <2>2 DEF chunk
  <2>4. Freed' = Freed
    BY <2>2, <2>3 DEF Freed, freerange
  <2>5. QED BY Zenon, <2>1, <2>4, ManagedKept
<1>3. IInv /\ Managed = Freed => FewLost
  <2>1. IInv => end \in 0 .. PHYSTOP
    BY KallocAssumption DEF IInv, TypeOK
  <2>2. QED BY Zenon, <2>1, FewNotFreed DEF FewLost
<1>4. QED BY <1>1, <1>2, <1>3, PTL DEF Spec

HIDE DEF Null
=============================================================================
