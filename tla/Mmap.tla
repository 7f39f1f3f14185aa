--------------------------------- MODULE Mmap ---------------------------------
(***************************************************************************)
(* Files in memory (xv6-lab-mmap): mmap, munmap and the page faults that   *)
(* read a file's pages in, together with the open files, the inodes behind *)
(* them and the user memory they share with sbrk, read and write.          *)
(*                                                                         *)
(* A step is a system call or a fault: how calls of several processes      *)
(* interleave inside the inode code is FileSys's business.  Addresses,     *)
(* lengths and offsets count pages, a file is a sequence of pages, and     *)
(* there is one directory.  A page holds zeroes (0), what a program stored *)
(* in a private mapping (2), or anything else (1).  fork and exit          *)
(* (proc.c) are not part of this lab's sources: a killed process stops.    *)
(***************************************************************************)
EXTENDS Integers, Sequences, FiniteSets, FiniteSetsExt

CONSTANTS Proc,
          NFILE, NOFILE, VMASIZE,
          NInode,    \* inodes 1 .. NInode
          Name,      \* names in the directory
          Present,   \* the name of a file of one page that is there to begin with
          Frame,     \* physical pages
          NoFrame,
          MAXVA,     \* pages of an address space
          MAXFILE,   \* pages of a file
          MaxMaps,   \* mappings that a program keeps at a time
          Workloads, \* functions from Proc to the calls that the program makes
          MaxOps     \* bound on the steps

Inum == 1 .. NInode
FileNo == 1 .. NFILE
FD   == 0 .. NOFILE - 1
Va   == 0 .. MAXVA - 1
Slot == 0 .. VMASIZE - 1

VARIABLES
  fs,    \* ftable, inode and dir
  vm,    \* the free list and the contents of pages
  proc,  \* ofile, sz, pagetable, vmas and killed of a process
  does,  \* the member of Workloads that runs
  ops,   \* steps so far
  panic

vars == <<fs, vm, proc, does, ops, panic>>

NoPte   == [pa |-> NoFrame, w |-> FALSE]
NoVma   == [used |-> FALSE, addr |-> 0, length |-> 0, w |-> FALSE, shared |-> FALSE, file |-> 0]
NoInode == [alloc |-> FALSE, ref |-> 0, nlink |-> 0, data |-> <<>>]
NoFile  == [ref |-> 0, open |-> FALSE, writable |-> FALSE, ip |-> 0, off |-> 0]

Init ==
  /\ fs = [ftable |-> [f \in FileNo |-> NoFile], 
           inode |-> [i \in Inum |-> IF i = 1 THEN [alloc |-> TRUE, ref |-> 0, nlink |-> 1,
                                                    data |-> <<1>>] ELSE NoInode],
           dir |-> [n \in Name |-> IF n = Present THEN 1 ELSE 0], found |-> 0]
  /\ vm = [free |-> Frame, mem |-> [g \in Frame |-> 0]]
  /\ proc = [p \in Proc |-> [ofile |-> [fd \in FD |-> 0], sz |-> 0,
       pt |-> [a \in Va |-> NoPte], vmas |-> [i \in Slot |-> NoVma], killed |-> FALSE]]
  /\ does \in Workloads
  /\ ops = 0
  /\ panic = ""

Runs(p) == panic = "" /\ ~proc[p].killed /\ ops < MaxOps

Panic(s) == panic' = s /\ UNCHANGED <<fs, vm, proc>>

-----------------------------------------------------------------------------
(* Inodes and the directory *)

\* itrunc, type = 0: what is left of an inode without links and references.
iput(s, i) ==
  [s EXCEPT !.inode[i] = IF @.ref = 1 /\ @.nlink = 0 THEN NoInode
                         ELSE [@ EXCEPT !.ref = @ - 1]]

\* create of a file: the inode that has the name, or a new one; 0 if there is none.
create(s, n) ==
  LET idle == {i \in Inum : ~s.inode[i].alloc}
      i == IF s.dir[n] # 0 THEN s.dir[n] ELSE IF idle = {} THEN 0 ELSE Min(idle)
  IN
  IF s.dir[n] # 0 THEN [s EXCEPT !.inode[i].ref = @ + 1, !.found = i]
  ELSE IF i = 0 THEN [s EXCEPT !.found = 0]
  ELSE [s EXCEPT !.dir[n] = i, !.found = i,
                 !.inode[i] = [alloc |-> TRUE, ref |-> 1, nlink |-> 1, data |-> <<>>]]

\* namei
namei(s, n) ==
  IF s.dir[n] = 0 THEN [s EXCEPT !.found = 0]
  ELSE [s EXCEPT !.found = s.dir[n], !.inode[s.dir[n]].ref = @ + 1]

\* A page of the file; nothing is read past its end, and kalloc's page was cleared.
readi(s, i, off) == IF off < Len(s.inode[i].data) THEN s.inode[i].data[off + 1] ELSE 0

\* The pages vs are written at off.
writei(s, i, off, vs) ==
  [s EXCEPT !.inode[i].data =
    [k \in 1 .. (IF Len(@) > off + Len(vs) THEN Len(@) ELSE off + Len(vs)) |->
       IF k \in off + 1 .. off + Len(vs) THEN vs[k - off] ELSE @[k]]]

-----------------------------------------------------------------------------
(* Open files *)

\* Mutant: not counted.
filedupNot(s, f) == s

filedup(s, f) == [s EXCEPT !.ftable[f].ref = @ + 1]

\* The last reference gives the inode back; the entry keeps its mode.
fileclose(s, f) ==
  LET t == [s EXCEPT !.ftable[f].ref = @ - 1] IN
  IF t.ftable[f].ref > 0 THEN t
  ELSE iput([t EXCEPT !.ftable[f] = [NoFile EXCEPT !.writable = t.ftable[f].writable]],
            t.ftable[f].ip)

\* open: the flags are whether to create, to truncate and to write.
Open(p) ==
  \E n \in Name, mode \in {"rdonly", "rdwr", "create", "trunc"} :
    LET s  == IF mode = "create" THEN create(fs, n) ELSE namei(fs, n)
        i  == s.found
        fs0 == {f \in FileNo : fs.ftable[f].ref = 0}
        fds == {fd \in FD : proc[p].ofile[fd] = 0}
    IN
    /\ Runs(p) /\ i # 0
    /\ IF fs0 = {} \/ fds = {}
       THEN /\ fs' = [iput(s, i) EXCEPT !.found = 0]
            /\ UNCHANGED proc
       ELSE /\ fs' = [s EXCEPT !.found = 0,
                 !.ftable[Min(fs0)] = [ref |-> 1, open |-> TRUE, ip |-> i, off |-> 0,
                                       writable |-> mode # "rdonly"],
                 !.inode[i].data = IF mode = "trunc" THEN <<>> ELSE @]
            /\ proc' = [proc EXCEPT ![p].ofile[Min(fds)] = Min(fs0)]
    /\ UNCHANGED <<vm, panic>>

Dup(p) ==
  \E fd \in FD :
    LET fds == {e \in FD : proc[p].ofile[e] = 0} IN
    /\ Runs(p) /\ proc[p].ofile[fd] # 0 /\ fds # {}
    /\ fs' = filedup(fs, proc[p].ofile[fd])
    /\ proc' = [proc EXCEPT ![p].ofile[Min(fds)] = proc[p].ofile[fd]]
    /\ UNCHANGED <<vm, panic>>

Close(p) ==
  \E fd \in FD :
    /\ Runs(p) /\ proc[p].ofile[fd] # 0
    /\ fs' = fileclose(fs, proc[p].ofile[fd])
    /\ proc' = [proc EXCEPT ![p].ofile[fd] = 0]
    /\ UNCHANGED <<vm, panic>>

\* unlink: the last name goes; an inode nobody has is freed.
Unlink(p) ==
  \E n \in Name :
    LET i == fs.dir[n] IN
    /\ Runs(p) /\ i # 0
    /\ fs' = iput([fs EXCEPT !.dir[n] = 0, !.inode[i].nlink = @ - 1, !.inode[i].ref = @ + 1], i)
    /\ UNCHANGED <<vm, proc, panic>>

\* read(fd, va): copyout fails where no page is present; the kernel takes no fault.
Read(p) ==
  \E fd \in FD, a \in Va :
    LET f == proc[p].ofile[fd]
        e == fs.ftable[f]
        g == proc[p].pt[a].pa
    IN
    /\ Runs(p) /\ f # 0 /\ g # NoFrame
    /\ e.off < Len(fs.inode[e.ip].data)
    /\ vm' = [vm EXCEPT !.mem[g] = readi(fs, e.ip, e.off)]
    /\ fs' = [fs EXCEPT !.ftable[f].off = @ + 1]
    /\ UNCHANGED <<proc, panic>>

\* filewrite of n pages from a on, at the offset of the open file: it stops at
\* the first page that is not present, or too many, and writes none past a hole.
filewrite(s, f, pt, a, n) ==
  LET e  == s.ftable[f]
      ok == {m \in 0 .. n : /\ e.off <= Len(s.inode[e.ip].data)
                            /\ e.off + m <= MAXFILE
                            /\ \A k \in 0 .. m - 1 : pt[a + k].pa # NoFrame}
      m  == IF ok = {} THEN 0 ELSE Max(ok)
  IN
  IF ~e.writable \/ m = 0 THEN s
  ELSE [writei(s, e.ip, e.off, [k \in 1 .. m |-> vm.mem[pt[a + k - 1].pa]])
          EXCEPT !.ftable[f].off = @ + m]

\* The program maps the page at a for itself only.
Private(p, a) ==
  \E i \in Slot : LET v == proc[p].vmas[i] IN
    v.used /\ ~v.shared /\ a \in v.addr .. v.addr + v.length - 1

\* write from anywhere but a private mapping.
Write(p) ==
  \E fd \in FD, a \in Va :
    /\ Runs(p) /\ proc[p].ofile[fd] # 0 /\ ~Private(p, a)
    /\ fs' = filewrite(fs, proc[p].ofile[fd], proc[p].pt, a, 1)
    /\ UNCHANGED <<vm, proc, panic>>

-----------------------------------------------------------------------------
(* User memory *)

\* kalloc, cleared, and mapped at a: mappages may fail for want of a page table.
Map(p, q, a, g, v, w) ==
  /\ vm' = [free |-> vm.free \ {g}, mem |-> [vm.mem EXCEPT ![g] = v]]
  /\ proc' = [proc EXCEPT ![p] = [q EXCEPT !.pt[a] = [pa |-> g, w |-> w]]]

\* uvmunmap of n pages skips those that are not present.
Unmapped(pt, a, n) == [b \in Va |-> IF b \in a .. a + n - 1 THEN NoPte ELSE pt[b]]

Freed(pt, a, n) == {pt[b].pa : b \in Va \cap (a .. a + n - 1)} \ {NoFrame}

\* sbrk(1): growproc, uvmalloc.  It fails when there is no page.
Grow(p) ==
  LET a == proc[p].sz IN
  /\ Runs(p) /\ a < MAXVA
  /\ \/ /\ proc[p].pt[a].pa # NoFrame
        /\ Panic("mappages: remap")
     \/ \E g \in vm.free :
          /\ proc[p].pt[a].pa = NoFrame
          /\ Map(p, [proc[p] EXCEPT !.sz = a + 1], a, g, 0, TRUE)
          /\ UNCHANGED <<fs, panic>>

\* sbrk(-1): uvmdealloc.
Shrink(p) ==
  LET a == proc[p].sz - 1 IN
  /\ Runs(p) /\ a >= 0
  /\ vm' = [vm EXCEPT !.free = @ \cup Freed(proc[p].pt, a, 1)]
  /\ proc' = [proc EXCEPT ![p].sz = a, ![p].pt = Unmapped(@, a, 1)]
  /\ UNCHANGED <<fs, panic>>

\* PROT_WRITE and MAP_SHARED
Modes == {<<FALSE, TRUE>>, <<TRUE, TRUE>>, <<TRUE, FALSE>>}

\* The mapping goes to the first slot that is not used, and on top of the memory.
Mmap(p) ==
  \E fd \in FD, length \in 1 .. 2, <<w, shared>> \in Modes :
    LET f    == proc[p].ofile[fd]
        sz   == proc[p].sz
        idle == {i \in Slot : ~proc[p].vmas[i].used}
    IN
    /\ Runs(p) /\ f # 0
    /\ ~(~fs.ftable[f].writable /\ w /\ shared)
    /\ sz <= MAXVA - length
    /\ idle # {} /\ VMASIZE - Cardinality(idle) < MaxMaps
    /\ fs' = filedup(fs, f)
    /\ proc' = [proc EXCEPT ![p].sz = sz + length, ![p].vmas[Min(idle)] =
         [used |-> TRUE, addr |-> sz, length |-> length, w |-> w, shared |-> shared, file |-> f]]
    /\ UNCHANGED <<vm, panic>>

\* Mutant: every mapping is written back.
MunmapWriting(p) ==
  \E i \in Slot, n \in 1 .. 2 :
    LET v == proc[p].vmas[i]
        a == v.addr
        s == filewrite(fs, v.file, proc[p].pt, a, n)
    IN
    /\ Runs(p) /\ v.used /\ n <= v.length /\ fs.ftable[v.file].open
    /\ fs' = IF v.length = n THEN fileclose(s, v.file) ELSE s
    /\ vm' = [vm EXCEPT !.free = @ \cup Freed(proc[p].pt, a, n)]
    /\ proc' = [proc EXCEPT ![p].pt = Unmapped(@, a, n),
         ![p].vmas[i] = [@ EXCEPT !.addr = a + n, !.length = @ - n,
                                  !.used = v.used /\ v.length # n]]
    /\ UNCHANGED panic

\* munmap by a program of the start of a mapping it has.  The search takes the
\* first slot of which it holds that a is not below its start or below its end.
Munmap(p) ==
  \E i \in Slot, n \in 1 .. 2 :
    LET a == proc[p].vmas[i].addr
        j == Min({k \in Slot : LET u == proc[p].vmas[k] IN a >= u.addr \/ a < u.addr + u.length})
        v == proc[p].vmas[j]
        s == IF v.shared THEN filewrite(fs, v.file, proc[p].pt, a, n) ELSE fs
    IN
    /\ Runs(p) /\ proc[p].vmas[i].used /\ n <= proc[p].vmas[i].length
    /\ v.addr = a
    /\ \/ /\ v.shared /\ fs.ftable[v.file].writable /\ ~fs.ftable[v.file].open
          /\ Panic("filewrite")
       \/ /\ ~(v.shared /\ fs.ftable[v.file].writable /\ ~fs.ftable[v.file].open)
          /\ fs' = IF v.length = n THEN fileclose(s, v.file) ELSE s
          /\ vm' = [vm EXCEPT !.free = @ \cup Freed(proc[p].pt, a, n)]
          /\ proc' = [proc EXCEPT ![p].pt = Unmapped(@, a, n),
               ![p].vmas[j] = [@ EXCEPT !.addr = a + n, !.length = @ - n,
                                        !.used = v.used /\ v.length # n]]
          /\ UNCHANGED panic

\* A load from, or store to, a page that is not present: usertrap reads the
\* page of the mapping it is in.  Outside of every mapping nothing is done, and
\* the fault comes again.
Fault(p) ==
  \E a \in Va :
    LET here == {i \in Slot : /\ proc[p].vmas[i].used
                              /\ a \in proc[p].vmas[i].addr ..
                                        proc[p].vmas[i].addr + proc[p].vmas[i].length - 1}
        v    == proc[p].vmas[Min(here)]
    IN
    /\ Runs(p) /\ proc[p].pt[a].pa = NoFrame
    /\ \/ /\ a >= proc[p].sz
          /\ proc' = [proc EXCEPT ![p].killed = TRUE]
          /\ UNCHANGED vm
       \/ /\ a < proc[p].sz /\ here # {}   \* no page, or no page table
          /\ proc' = [proc EXCEPT ![p].killed = TRUE]
          /\ UNCHANGED vm
       \/ /\ a < proc[p].sz /\ here # {}
          /\ \E g \in vm.free :
               Map(p, proc[p], a, g, readi(fs, fs.ftable[v.file].ip, a - v.addr), v.w)
    /\ UNCHANGED <<fs, panic>>

\* A store to a page that is present and writable: programs do not store to what
\* they map without PROT_WRITE, where the fault would map the page again.
Store(p) ==
  \E a \in Va :
    /\ Runs(p) /\ proc[p].pt[a].w
    /\ vm' = [vm EXCEPT !.mem[proc[p].pt[a].pa] = IF Private(p, a) THEN 2 ELSE 1]
    /\ UNCHANGED <<fs, proc, panic>>

Halted == (\A p \in Proc : ~Runs(p)) /\ UNCHANGED vars

Step(p) ==
  \/ "open" \in does[p] /\ Open(p)
  \/ "dup" \in does[p] /\ Dup(p)
  \/ "close" \in does[p] /\ Close(p)
  \/ "unlink" \in does[p] /\ Unlink(p)
  \/ "read" \in does[p] /\ Read(p)
  \/ "write" \in does[p] /\ Write(p)
  \/ "sbrk" \in does[p] /\ (Grow(p) \/ Shrink(p))
  \/ "mmap" \in does[p] /\ Mmap(p)
  \/ Munmap(p) \/ Fault(p) \/ Store(p)

Next == \/ \E p \in Proc : ops' = ops + 1 /\ UNCHANGED does /\ Step(p)
        \/ Halted

Spec == Init /\ [][Next]_vars

-----------------------------------------------------------------------------
\* An open file lives as long as a descriptor or a mapping has it, and no
\* longer; so does its inode, and the inode's names count as links.
HoldersExact ==
  /\ \A f \in FileNo :
       fs.ftable[f].ref =
         Cardinality({<<p, fd>> \in Proc \X FD : proc[p].ofile[fd] = f})
           + Cardinality({<<p, i>> \in Proc \X Slot :
                            proc[p].vmas[i].used /\ proc[p].vmas[i].file = f})
  /\ \A i \in Inum :
       /\ fs.inode[i].nlink = Cardinality({n \in Name : fs.dir[n] = i})
       /\ fs.inode[i].ref =
            Cardinality({f \in FileNo : fs.ftable[f].open /\ fs.ftable[f].ip = i})
       /\ fs.inode[i].alloc <=> fs.inode[i].nlink + fs.inode[i].ref > 0

\* Every page is free or mapped at one address of one process: munmap, sbrk and
\* faults lose none and share none.
FramesExact ==
  LET ptes == {<<p, a>> \in Proc \X Va : proc[p].pt[a].pa # NoFrame} IN
  /\ Cardinality(ptes) + Cardinality(vm.free) = Cardinality(Frame)
  /\ vm.free \cup {proc[x[1]].pt[x[2]].pa : x \in ptes} = Frame

\* What is stored in a private mapping reaches no file: not when it or another
\* mapping goes, nor through a page that is used again.
PrivateStays ==
  \A i \in Inum, k \in 1 .. MAXFILE : k <= Len(fs.inode[i].data) => fs.inode[i].data[k] # 2

\* panic("filewrite") and panic("mappages: remap") assert that no write is to a
\* file that is closed and no page is mapped twice.
NoPanic == panic = ""
=============================================================================
