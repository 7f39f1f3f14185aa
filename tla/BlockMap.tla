------------------------------ MODULE BlockMap -------------------------------
(***************************************************************************)
(* The blocks of files (xv6-lab-filesystem/fs.c): balloc and bfree, bmap   *)
(* with its direct, indirect and doubly indirect blocks, readi, writei and *)
(* itrunc.  The caller of these holds the inode's lock, so a file has one  *)
(* writei at a time; writei of several files interleave block by block.    *)
(*                                                                         *)
(* Offsets and sizes count blocks.  A block is an array of NINDIRECT words *)
(* and has either block numbers (positive), data (negative) or zeroes; the *)
(* k-th call writes -k.                                                    *)
(***************************************************************************)
EXTENDS Integers, Sequences, FiniteSets, FiniteSetsExt

CONSTANTS Ino,        \* the files
          NDIRECT, NINDIRECT,
          NBLOCK,     \* data blocks of the disk
          Lengths,    \* how many blocks a call of writei may write
          MaxOps      \* bound on the calls of writei and itrunc

ASSUME BlockMapAssumption ==
  /\ NDIRECT \in Nat /\ NINDIRECT \in Nat \ {0} /\ NBLOCK \in Nat
  /\ Lengths \subseteq Nat /\ MaxOps \in Nat

Data    == {-k : k \in 1 .. MaxOps}
MAXFILE == NDIRECT + NINDIRECT + NINDIRECT * NINDIRECT
DBlock  == 1 .. NBLOCK
AddrSlot    == 0 .. NDIRECT + 1
Word    == 0 .. NINDIRECT - 1
Zeroed  == [k \in Word |-> 0]
NoAddrs == [k \in AddrSlot |-> 0]

VARIABLES
  fs,      \* the bitmap, the blocks, the addrs of inodes in memory; addr is a result
  size,    \* ip->size in memory
  dinode,  \* addrs and size on disk
  job,     \* the writei under way on a file
  ops,     \* calls so far
  panic

mapvars == <<fs, size, dinode, job, ops, panic>>

NoJob == [pc |-> "idle", off |-> 0, n |-> 0, v |-> 0]

MapInit ==
  /\ fs = [used |-> {}, data |-> [b \in DBlock |-> Zeroed],
           addrs |-> [f \in Ino |-> NoAddrs], addr |-> 0]
  /\ size = [f \in Ino |-> 0]
  /\ dinode = [f \in Ino |-> [addrs |-> NoAddrs, size |-> 0]]
  /\ job = [f \in Ino |-> NoJob]
  /\ ops = 0
  /\ panic = ""

Halt(s) == panic' = s /\ UNCHANGED <<fs, size, dinode, job, ops>>

-----------------------------------------------------------------------------
\* The first block that is free in the bitmap, zeroed; address 0 if there is none.
balloc(s) ==
  IF s.used = DBlock THEN [s EXCEPT !.addr = 0]
  ELSE LET b == Min(DBlock \ s.used) IN
       [s EXCEPT !.used = @ \cup {b}, !.data[b] = Zeroed, !.addr = b]

\* The block in slot k of the inode, allocated if need be.
InInode(s, f, k) ==
  IF s.addrs[f][k] # 0 THEN [s EXCEPT !.addr = s.addrs[f][k]]
  ELSE LET t == balloc(s) IN [t EXCEPT !.addrs[f][k] = t.addr]

\* The block in word k of the block that was found last.
InBlock(s, k) ==
  LET b == s.addr IN
  CASE b = 0           -> s
    [] b # 0 /\ s.data[b][k] # 0 -> [s EXCEPT !.addr = s.data[b][k]]
    [] OTHER           -> LET t == balloc(s) IN [t EXCEPT !.data[b][k] = t.addr]

\* Mutant: the same index at both levels.
bmapDiv(s, f, bn) ==
  LET n1 == bn - NDIRECT
      n2 == n1 - NINDIRECT
  IN
  CASE n1 < 0         -> InInode(s, f, bn)
    [] n1 >= 0 /\ n2 < 0 -> InBlock(InInode(s, f, NDIRECT), n1)
    [] OTHER          -> InBlock(InBlock(InInode(s, f, NDIRECT + 1), n2 \div NINDIRECT),
                                 n2 \div NINDIRECT)

\* The block map: the address of block bn of file f is left in addr.
bmap(s, f, bn) ==
  LET n1 == bn - NDIRECT
      n2 == n1 - NINDIRECT
  IN
  CASE n1 < 0         -> InInode(s, f, bn)
    [] n1 >= 0 /\ n2 < 0 -> InBlock(InInode(s, f, NDIRECT), n1)
    [] OTHER          -> InBlock(InBlock(InInode(s, f, NDIRECT + 1), n2 \div NINDIRECT),
                                 n2 % NINDIRECT)

\* writei refuses to leave a hole or to pass the largest file.
WriteStart(f) ==
  /\ panic = "" /\ job[f].pc = "idle" /\ ops < MaxOps
  /\ \E off \in 0 .. size[f], n \in Lengths :
       /\ off + n <= MAXFILE
       /\ job' = [job EXCEPT ![f] = [pc |-> "write", off |-> off, n |-> n, v |-> -(ops + 1)]]
  /\ ops' = ops + 1
  /\ UNCHANGED <<fs, size, dinode, panic>>

\* One turn of its loop.  either_copyin may fail, with the block allocated.
WriteBlock(f) ==
  LET t == bmap(fs, f, job[f].off) IN
  /\ panic = "" /\ job[f].pc = "write" /\ job[f].n > 0
  /\ \/ /\ t.addr = 0
        /\ Halt("balloc: out of blocks")
     \/ /\ t.addr # 0
        /\ fs' = [t EXCEPT !.data[t.addr] = [k \in Word |-> job[f].v], !.addr = 0]
        /\ job' = [job EXCEPT ![f].off = @ + 1, ![f].n = @ - 1]
        /\ UNCHANGED <<size, dinode, ops, panic>>
     \/ /\ t.addr # 0
        /\ fs' = [t EXCEPT !.addr = 0]
        /\ job' = [job EXCEPT ![f].n = 0]
        /\ UNCHANGED <<size, dinode, ops, panic>>

\* The size, and the inode to disk: iupdate.
WriteEnd(f) ==
  LET sz == IF job[f].off > size[f] THEN job[f].off ELSE size[f] IN
  /\ panic = "" /\ job[f].pc = "write" /\ job[f].n = 0
  /\ size' = [size EXCEPT ![f] = sz]
  /\ dinode' = [dinode EXCEPT ![f] = [addrs |-> fs.addrs[f], size |-> sz]]
  /\ job' = [job EXCEPT ![f] = NoJob]
  /\ UNCHANGED <<fs, ops, panic>>

\* readi of one block calls bmap too.
ReadBlock(f) ==
  /\ panic = "" /\ job[f].pc = "idle"
  /\ \E off \in 0 .. size[f] - 1 : fs' = [bmap(fs, f, off) EXCEPT !.addr = 0]
  /\ UNCHANGED <<size, dinode, job, ops, panic>>

\* itrunc's blocks: the direct ones, the indirect ones and the block that lists
\* them.  It goes on to read the list of a doubly indirect block through a null
\* pointer, which the kernel does not survive.
Direct(f)   == {fs.addrs[f][k] : k \in 0 .. NDIRECT - 1} \ {0}
\* Mutant: the block that lists the indirect ones is not freed.
IndirectListed(f) ==
  LET b == fs.addrs[f][NDIRECT] IN
  IF b = 0 THEN {} ELSE {fs.data[b][k] : k \in Word} \ {0}

Indirect(f) ==
  LET b == fs.addrs[f][NDIRECT] IN
  IF b = 0 THEN {} ELSE {b} \cup ({fs.data[b][k] : k \in Word} \ {0})

itrunc(f) ==
  LET gone == Direct(f) \cup Indirect(f) IN
  /\ panic = "" /\ job[f].pc = "idle" /\ ops < MaxOps
  /\ \/ /\ fs.addrs[f][NDIRECT + 1] # 0
        /\ Halt("kerneltrap")
     \/ /\ fs.addrs[f][NDIRECT + 1] = 0 /\ ~(gone \subseteq fs.used)
        /\ Halt("freeing free block")
     \/ /\ fs.addrs[f][NDIRECT + 1] = 0 /\ gone \subseteq fs.used
        /\ fs' = [fs EXCEPT !.used = @ \ gone, !.addrs[f] = NoAddrs]
        /\ size' = [size EXCEPT ![f] = 0]
        /\ dinode' = [dinode EXCEPT ![f] = [addrs |-> NoAddrs, size |-> 0]]
        /\ ops' = ops + 1
        /\ UNCHANGED <<job, panic>>

\* The inode leaves the table and is read from disk again.
Reload(f) ==
  /\ panic = "" /\ job[f].pc = "idle"
  /\ fs' = [fs EXCEPT !.addrs[f] = dinode[f].addrs]
  /\ size' = [size EXCEPT ![f] = dinode[f].size]
  /\ UNCHANGED <<dinode, job, ops, panic>>

MapHalted == panic # "" /\ UNCHANGED mapvars

MapNext ==
  \/ \E f \in Ino : \/ WriteStart(f) \/ WriteBlock(f) \/ WriteEnd(f)
                    \/ ReadBlock(f) \/ itrunc(f) \/ Reload(f)
  \/ MapHalted

MapSpec == MapInit /\ [][MapNext]_mapvars

-----------------------------------------------------------------------------
\* A place for a block number is a slot of an inode, or a word of the block whose
\* number is in a place.
InInodes == {1} \X Ino \X AddrSlot
InLists  == {2} \X {x \in InInodes : x[3] \in {NDIRECT, NDIRECT + 1}} \X Word
InDouble == {3} \X {x \in InLists : x[2][3] = NDIRECT + 1} \X Word
Place    == InInodes \cup InLists \cup InDouble

WordOf(s, b, k) == IF b = 0 THEN 0 ELSE s.data[b][k]

Ref1(s, x) == s.addrs[x[2]][x[3]]
Ref2(s, x) == WordOf(s, Ref1(s, x[2]), x[3])
Ref3(s, x) == WordOf(s, Ref2(s, x[2]), x[3])
Ref(s, x)  == IF x[1] = 1 THEN Ref1(s, x) ELSE IF x[1] = 2 THEN Ref2(s, x) ELSE Ref3(s, x)

\* The bitmap is exact and no block is in two places: none leaks when a write
\* fails half-way or a file is cut, and none is another file's, or a list of
\* blocks, as well.
BlocksExact ==
  LET held == {x \in Place : Ref(fs, x) # 0} IN
  /\ fs.used = {Ref(fs, x) : x \in held}
  /\ \A x, y \in held : Ref(fs, x) = Ref(fs, y) => x = y

\* The place of block bn of file f.
Leaf(f, bn) ==
  LET n1 == bn - NDIRECT
      n2 == n1 - NINDIRECT
  IN
  IF n1 < 0 THEN <<1, f, bn>>
  ELSE IF n2 < 0 THEN <<2, <<1, f, NDIRECT>>, n1>>
  ELSE <<3, <<2, <<1, f, NDIRECT + 1>>, n2 \div NINDIRECT>>, n2 % NINDIRECT>>

\* What readi returns for a block, and the blocks a file has: those of a write
\* that is under way are there before the size says so.
Contents(f, bn) == WordOf(fs, Ref(fs, Leaf(f, bn)), 0)

Length(f) == IF job[f].pc = "write" /\ job[f].off > size[f] THEN job[f].off ELSE size[f]

F == INSTANCE Files WITH
  Value <- Data,
  file <- [f \in Ino |-> [bn \in 1 .. Length(f) |-> Contents(f, bn - 1)]]

\* Files are sequences of blocks: a block that was written reads back, whatever
\* the same or another file did, through all levels of the block map and from
\* the inode on disk.
ImplementsFiles == F!Spec

\* "Truncate inode (discard contents)": a file of any size can be truncated.
TruncateWorks == panic # "kerneltrap"
=============================================================================
