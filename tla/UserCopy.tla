------------------------------- MODULE UserCopy ------------------------------
(***************************************************************************)
(* Copying between the kernel and user memory, whose pages lie anywhere in *)
(* physical memory and may be missing: copyin, copyout and copyinstr       *)
(* (xv6-lab-pagetables/kernel/vm.c), the system-call arguments that are    *)
(* fetched with them (syscall.c), and memmove within a program (ulib.c).   *)
(* One turn of a loop is a step.                                           *)
(*                                                                         *)
(* Every byte of user memory and of the kernel's buffer has a value of its *)
(* own, but for one that may be the nul character.                         *)
(***************************************************************************)
EXTENDS Integers

CONSTANTS PGSIZE,
          NPAGE,    \* MAXVA / PGSIZE
          WORD,     \* sizeof(uint64)
          MAXLEN    \* bound on the bytes to copy

VA     == 0 .. NPAGE * PGSIZE - 1
Page   == 0 .. NPAGE - 1
Frame  == 1 .. NPAGE
Offset == 0 .. PGSIZE - 1
Buffer == 0 .. MAXLEN - 1

VARIABLES
  pagetable,  \* the frame of a page that is valid and the user's, or 0
  sz,         \* p->sz
  mem,        \* physical memory
  buf,        \* the kernel's buffer; in memmove, a piece of a program's memory
  was,        \* mem and buf before the call
  job         \* the call, where it is, and its result

vars == <<pagetable, sz, mem, buf, was, job>>

\* Values: 1, 2, ... in user memory, 100, 101, ... in the buffer.
Id(f, o) == (f - 1) * PGSIZE + o + 1
Fill     == [k \in Buffer |-> 100 + k]

None == [op |-> "none", pc |-> "idle", va |-> 0, len |-> 0, at |-> 0, left |-> 0, i |-> 0, r |-> 0]

Init ==
  /\ pagetable \in {t \in [Page -> 0 .. NPAGE] :
                      \A v, w \in Page : v # w /\ t[v] # 0 => t[v] # t[w]}
  /\ sz \in {NPAGE * PGSIZE, PGSIZE + 1}
  /\ \E nul \in 0 .. PGSIZE :   \* in frame 1, which may be any page, or nowhere
       mem = [f \in Frame |-> [o \in Offset |-> IF Id(f, o) = nul THEN 0 ELSE Id(f, o)]]
  /\ buf = Fill
  /\ was = [mem |-> mem, buf |-> buf]
  /\ job = None

\* The physical address of the page of va; none beyond MAXVA.
walkaddr(va) == IF va \in VA THEN pagetable[va \div PGSIZE] ELSE 0

Min2(a, b) == IF a < b THEN a ELSE b

Begin(op, va, len) ==
  job' = [None EXCEPT !.op = op, !.pc = "loop", !.va = va, !.len = len, !.at = va, !.left = len]

\* A call from the kernel with any address; fetchaddr tests it first.
Call ==
  /\ job.pc = "idle"
  /\ \E va \in 0 .. NPAGE * PGSIZE + 1, len \in 0 .. MAXLEN :
       \E op \in {"copyin", "copyout", "copyinstr"} : Begin(op, va, len)
  /\ UNCHANGED <<pagetable, sz, mem, buf, was>>

fetchaddr ==
  /\ job.pc = "idle"
  /\ \E addr \in 0 .. NPAGE * PGSIZE + 1 :
       IF addr >= sz \/ addr + WORD > sz
       THEN job' = [None EXCEPT !.op = "fetchaddr", !.pc = "done", !.va = addr, !.len = WORD,
                                !.r = -1]
       ELSE Begin("fetchaddr", addr, WORD)
  /\ UNCHANGED <<pagetable, sz, mem, buf, was>>

Finish(r) == job' = [job EXCEPT !.pc = "done", !.r = r] /\ UNCHANGED <<mem, buf>>

\* How much a turn of a loop copies.
Chunk == Min2(PGSIZE - (job.at % PGSIZE), job.left)

Advance(n) ==
  job' = [job EXCEPT !.left = @ - n, !.i = @ + n, !.at = (@ \div PGSIZE + 1) * PGSIZE]

InLoop(ops) == job.pc = "loop" /\ job.op \in ops

copyin ==
  LET f == walkaddr(job.at)
      n == Chunk
  IN
  /\ InLoop({"copyin", "fetchaddr"})
  /\ \/ job.left = 0 /\ Finish(0)
     \/ job.left > 0 /\ f = 0 /\ Finish(-1)
     \/ /\ job.left > 0 /\ f # 0
        /\ buf' = [k \in Buffer |-> IF k \in job.i .. job.i + n - 1
                                    THEN mem[f][(job.at % PGSIZE) + k - job.i] ELSE buf[k]]
        /\ Advance(n)
        /\ UNCHANGED mem
  /\ UNCHANGED <<pagetable, sz, was>>

copyout ==
  LET f == walkaddr(job.at)
      n == Chunk
      o == job.at % PGSIZE
  IN
  /\ InLoop({"copyout"})
  /\ \/ job.left = 0 /\ Finish(0)
     \/ job.left > 0 /\ f = 0 /\ Finish(-1)
     \/ /\ job.left > 0 /\ f # 0
        /\ mem' = [mem EXCEPT ![f] = [k \in Offset |->
                     IF k \in o .. o + n - 1 THEN buf[job.i + k - o] ELSE @[k]]]
        /\ Advance(n)
        /\ UNCHANGED buf
  /\ UNCHANGED <<pagetable, sz, was>>

\* The characters of a page up to the nul; the loop ends with it.
copyinstr ==
  LET f == walkaddr(job.at)
      o == job.at % PGSIZE
      nuls == {k \in 0 .. Chunk - 1 : mem[f][o + k] = 0}
      n == IF nuls = {} THEN Chunk ELSE CHOOSE k \in nuls : \A l \in nuls : k <= l
  IN
  /\ InLoop({"copyinstr"})
  /\ \/ job.left = 0 /\ Finish(-1)
     \/ job.left > 0 /\ f = 0 /\ Finish(-1)
     \/ /\ job.left > 0 /\ f # 0
        /\ buf' = [k \in Buffer |->
             IF k \in job.i .. job.i + n - 1 THEN mem[f][o + k - job.i]
             ELSE IF nuls # {} /\ k = job.i + n THEN 0 ELSE buf[k]]
        /\ IF nuls = {} THEN Advance(n) ELSE job' = [job EXCEPT !.pc = "done", !.i = @ + n]
        /\ UNCHANGED mem
  /\ UNCHANGED <<pagetable, sz, was>>

\* memmove from va to at, within buf; it starts at the end unless src > dst.
Memmove ==
  /\ job.pc = "idle"
  /\ \E dst, src \in Buffer, n \in 0 .. MAXLEN :
       /\ dst + n <= MAXLEN /\ src + n <= MAXLEN
       /\ job' = [None EXCEPT !.op = "memmove", !.pc = "loop", !.va = src, !.at = dst,
                              !.len = n, !.left = n]
  /\ UNCHANGED <<pagetable, sz, mem, buf, was>>

\* Mutant: always from the start.
memmoveUp ==
  LET k == job.len - job.left IN
  /\ InLoop({"memmove"})
  /\ \/ job.left = 0 /\ Finish(0)
     \/ /\ job.left > 0
        /\ buf' = [buf EXCEPT ![job.at + k] = buf[job.va + k]]
        /\ job' = [job EXCEPT !.left = @ - 1]
        /\ UNCHANGED mem
  /\ UNCHANGED <<pagetable, sz, was>>

memmove ==
  LET up == job.va > job.at
      k  == IF up THEN job.len - job.left ELSE job.left - 1
  IN
  /\ InLoop({"memmove"})
  /\ \/ job.left = 0 /\ Finish(0)
     \/ /\ job.left > 0
        /\ buf' = [buf EXCEPT ![job.at + k] = buf[job.va + k]]
        /\ job' = [job EXCEPT !.left = @ - 1]
        /\ UNCHANGED mem
  /\ UNCHANGED <<pagetable, sz, was>>

Over == job.pc = "done" /\ UNCHANGED vars

Next == Call \/ fetchaddr \/ copyin \/ copyout \/ copyinstr \/ Memmove \/ memmove \/ Over

Spec == Init /\ [][Next]_vars

-----------------------------------------------------------------------------
\* The byte of user memory at va, or -1.
User(va) == IF walkaddr(va) = 0 THEN -1 ELSE was.mem[walkaddr(va)][va % PGSIZE]

Range(va, n) == va .. va + n - 1
Valid(va, n) == \A a \in Range(va, n) : walkaddr(a) # 0

\* The first n bytes from va on are in the buffer, the rest of which is as it was.
Got(va, n) == buf = [k \in Buffer |-> IF k < n THEN User(va + k) ELSE was.buf[k]]

\* A call copies the bytes at the virtual addresses it was given, in order and
\* across pages that are not neighbours in memory, and no other; it fails exactly
\* if one of them is not mapped, and a string if it has no end within its bound.
\* memmove copies what was there before, however the two areas overlap.
CopyExact ==
  LET va == job.va
      n  == job.len
      ends == {k \in 0 .. n - 1 : User(va + k) = 0 /\ Valid(va, k + 1)}
  IN
  job.pc = "done" =>
    CASE job.op = "copyin" -> (job.r = 0) = Valid(va, n) /\ (job.r = 0 => Got(va, n))
      [] job.op = "fetchaddr" -> /\ (job.r = 0) = (Valid(va, n) /\ va + n <= sz)
                                 /\ job.r = 0 => Got(va, n)
      [] job.op = "copyout" ->
           /\ (job.r = 0) = Valid(va, n)
           /\ \A a \in VA : walkaddr(a) # 0 =>
                LET new == mem[walkaddr(a)][a % PGSIZE] IN
                IF job.r = 0 /\ a \in Range(va, n) THEN new = buf[a - va]
                ELSE a \notin Range(va, n) => new = User(a)
           /\ \A f \in Frame : (\A v \in Page : pagetable[v] # f) => mem[f] = was.mem[f]
      [] job.op = "copyinstr" -> /\ (job.r = 0) = (ends # {})
                                 /\ job.r = 0 => job.i \in ends /\ Got(va, job.i + 1)
      [] job.op = "memmove" ->
           buf = [k \in Buffer |-> IF k \in Range(job.at, n) THEN was.buf[va + k - job.at]
                                   ELSE was.buf[k]]
=============================================================================
