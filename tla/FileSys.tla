------------------------------- MODULE FileSys -------------------------------
(***************************************************************************)
(* Inodes, directories, path names and the system calls on them            *)
(* (xv6-lab-filesystem/fs.c and sysfile.c).  Processes interleave wherever *)
(* the code takes a lock: a step holds an inode's sleep-lock from ilock to *)
(* iunlock unless the process takes another lock meanwhile, and touches    *)
(* the inode table (itable.lock) at most once.                             *)
(*                                                                         *)
(* An inode is its type, its link count and, for a directory, its entries; *)
(* the contents of files are BlockMap's business.  The table has room for  *)
(* every inode, so an entry is known by its inode number.  The log of      *)
(* xv6 (log.c, not part of these sources) commits when the last operation  *)
(* that is under way ends; a crash loses whatever is not committed.        *)
(***************************************************************************)
EXTENDS Integers, Sequences, FiniteSets

CONSTANTS Proc,      \* processes
          NoProc,    \* nobody
          Inum,      \* inode numbers: 1 .. sb.ninodes - 1
          File,      \* names other than "." and ".."
          Long,      \* names longer than DIRSIZ, and what is left of them
          NOFILE,    \* open files of a process
          SYMMAX,    \* symbolic links that open follows: 10
          Workloads, \* sets of system calls, each with a bound on the calls made:
                     \* the processes make those of one set
          Starts,    \* sets of processes; those of one run from the start
          NInode,    \* inodes on the disk of a workload
          MaxCrash   \* bound on the crashes

ROOTINO == 1
Name    == File \cup {".", ".."}
FD      == 0 .. NOFILE - 1

VARIABLES
  inode,       \* itable: reference count, sleep-lock and copy of each inode
  disk,        \* the inodes as the buffer cache has them
  committed,   \* the inodes that a restart finds
  outstanding, \* processes between begin_op and end_op
  proc,        \* a process: descriptors, current directory, locals
  panic,       \* what a panic said
  calls,       \* the workload
  scarce,      \* whether files and disk blocks may run out
  made,        \* calls made
  crashes

vars == <<inode, disk, committed, outstanding, proc, panic, calls, scarce, made, crashes>>

NoEntries == [n \in Name |-> 0]

\* lost counts the entries for an inode that went away with the directory they
\* were in; the code keeps no such count.
Free == [type |-> "free", nlink |-> 0, ents |-> NoEntries, target |-> <<>>, lost |-> 0]

\* mkfs made n inodes and the root directory, its own parent.
Mkfs(n) == [i \in Inum |->
  CASE i = ROOTINO -> [Free EXCEPT !.type = "dir", !.nlink = 1,
                         !.ents = [e \in Name |-> IF e \in File THEN 0 ELSE ROOTINO]]
    [] i # ROOTINO /\ i <= n -> Free
    [] i > n -> [Free EXCEPT !.type = "none"]]

Idle == [pc |-> "idle", call |-> [op |-> "none"], r |-> 0,
         ofile |-> [fd \in FD |-> 0], cwd |-> ROOTINO,
         cur |-> 0, ip |-> 0, inum |-> 0, path |-> <<>>, parent |-> FALSE,
         ret |-> "idle", put |-> 0, after |-> "idle", cnt |-> 0]

Empty == [ref |-> 0, valid |-> FALSE, lock |-> NoProc, type |-> "free", nlink |-> 0]

\* Every process that runs has the root as its directory; the others have none.
Booted(live) == [i \in Inum |->
  IF i = ROOTINO THEN [Empty EXCEPT !.ref = Cardinality(live)] ELSE Empty]

Running(live) == [p \in Proc |-> IF p \in live THEN Idle ELSE [Idle EXCEPT !.cwd = 0]]

Live == {p \in Proc : proc[p].cwd # 0}

\* The kernel runs with an empty table, on the disk d.
Boot(live, d) ==
  /\ disk = d
  /\ committed = d
  /\ inode = Booted(live)
  /\ outstanding = {}
  /\ proc = Running(live)
  /\ panic = ""

Init ==
  /\ \E live \in Starts : Boot(live, Mkfs(NInode))
  /\ calls \in Workloads
  /\ scarce = TRUE
  /\ made = 0
  /\ crashes = 0

At(p, l) == panic = "" /\ proc[p].pc = l

Goto(p, l) == proc' = [proc EXCEPT ![p].pc = l]

Panic(s) ==
  /\ panic' = s
  /\ UNCHANGED <<inode, disk, committed, outstanding, proc, calls, scarce, made, crashes>>

\* What every step on inodes leaves alone.
Same == UNCHANGED <<committed, outstanding, panic, calls, scarce, made, crashes>>

-----------------------------------------------------------------------------
(* Inodes in memory *)

\* The table after iget(i): the entry is found, or recycled.
iget(t, i) ==
  [t EXCEPT ![i] = IF @.ref > 0 THEN [@ EXCEPT !.ref = @ + 1]
                                ELSE [@ EXCEPT !.ref = 1, !.valid = FALSE]]

\* The entry once locked: ilock reads it from the disk if it is not valid.
Loaded(i) ==
  IF inode[i].valid THEN inode[i]
  ELSE [inode[i] EXCEPT !.valid = TRUE, !.type = disk[i].type, !.nlink = disk[i].nlink]

CanLock(i) == inode[i].lock = NoProc /\ Loaded(i).type # "free"

\* ilock and, later in the same step, iunlock.
Read(i) == [inode EXCEPT ![i] = Loaded(i)]

ilock(p, i) == [inode EXCEPT ![i] = [Loaded(i) EXCEPT !.lock = p]]

iunlock(t, i) == [t EXCEPT ![i].lock = NoProc]

\* A new link count, in memory and (iupdate) on disk.
SetNlink(t, i, n) == [t EXCEPT ![i].nlink = n]

\* ip->ref--.  What an entry without references still holds is never read.
unref(i) == [inode EXCEPT ![i] =
  IF @.ref = 1 THEN [Empty EXCEPT !.lock = inode[i].lock] ELSE [@ EXCEPT !.ref = @ - 1]]

\* iput(i), then on to l; the pointer x holds is given up.
Put(p, i, l, x) ==
  proc' = [proc EXCEPT ![p] =
    [[@ EXCEPT !.pc = "iput", !.put = i, !.after = l] EXCEPT ![x] = 0]]

\* Mutant: the reference count is not looked at.
IputShared(p) ==
  LET i == proc[p].put
      e == inode[i]
      last == e.valid /\ e.nlink = 0
  IN
  /\ At(p, "iput")
  /\ \/ /\ last /\ e.lock = NoProc
        /\ inode' = [inode EXCEPT ![i].lock = p]
        /\ Goto(p, "itrunc")
        /\ Same /\ UNCHANGED disk
     \/ /\ ~last
        /\ inode' = unref(i)
        /\ proc' = [proc EXCEPT ![p].pc = proc[p].after, ![p].put = 0]
        /\ Same /\ UNCHANGED disk

Iput(p) ==
  LET i == proc[p].put
      e == inode[i]
      last == e.ref = 1 /\ e.valid /\ e.nlink = 0
  IN
  /\ At(p, "iput")
  /\ \/ /\ last /\ e.lock = NoProc
        /\ inode' = [inode EXCEPT ![i].lock = p]
        /\ Goto(p, "itrunc")
        /\ Same /\ UNCHANGED disk
     \/ /\ last /\ e.lock # NoProc   \* asleep with itable.lock held
        /\ Panic("sched locks")
     \/ /\ ~last
        /\ inode' = unref(i)
        /\ proc' = [proc EXCEPT ![p].pc = proc[p].after, ![p].put = 0]
        /\ Same /\ UNCHANGED disk

\* Names in a directory that lead to i.
Entries(d, i) == {n \in File : d.ents[n] = i}

\* itrunc, type = 0, iupdate, valid = 0, releasesleep ...
Itrunc(p) ==
  LET i == proc[p].put IN
  /\ At(p, "itrunc")
  /\ disk' = [j \in Inum |-> IF j = i THEN Free
       ELSE [disk[j] EXCEPT !.lost = @ + Cardinality(Entries(disk[i], j))]]
  /\ inode' = [inode EXCEPT ![i] = [@ EXCEPT !.type = "free", !.valid = FALSE,
                                             !.lock = NoProc]]
  /\ Goto(p, "ref")
  /\ Same

\* ... and the reference, under itable.lock again.
DropRef(p) ==
  /\ At(p, "ref")
  /\ inode' = unref(proc[p].put)
  /\ proc' = [proc EXCEPT ![p].pc = proc[p].after, ![p].put = 0]
  /\ Same /\ UNCHANGED disk

-----------------------------------------------------------------------------
(* Path names.  A path is a sequence of names; the first is "/" if it is   *)
(* absolute.  namex goes on to ret with the inode in cur, or 0.            *)

Namex(p, i, path, parent, ret) ==
  proc' = [proc EXCEPT ![p] =
    [@ EXCEPT !.pc = "namex", !.cur = 0, !.ip = i, !.path = path,
              !.parent = parent, !.ret = ret]]

\* skipelem keeps the first DIRSIZ characters of a name.
skipelem(n) == IF n \in DOMAIN Long THEN Long[n] ELSE n

\* iget of the root, or idup of the current directory.
NamexStart(p) ==
  LET path == proc[p].path
      abs  == path # <<>> /\ Head(path) = "/"
      i    == IF abs THEN ROOTINO ELSE proc[p].cwd
      names == IF abs THEN Tail(path) ELSE path
  IN
  /\ At(p, "namex")
  /\ inode' = iget(inode, i)
  /\ proc' = [proc EXCEPT ![p].pc = "walk", ![p].cur = i,
                          ![p].path = [k \in 1 .. Len(names) |-> skipelem(names[k])]]
  /\ Same /\ UNCHANGED disk

\* The path is used up.
NamexEnd(p) ==
  LET l == proc[p] IN
  /\ At(p, "walk") /\ l.path = <<>>
  /\ IF l.parent THEN Put(p, l.cur, l.ret, "cur") ELSE Goto(p, l.ret)
  /\ Same /\ UNCHANGED <<inode, disk>>

dirlookup(d, n) == disk[d].ents[n]

\* One name: stop early at the parent, fail, or step to the next inode.
NamexStep(p) ==
  LET l    == proc[p]
      i    == l.cur
      dir  == Loaded(i).type = "dir"
      last == l.parent /\ Len(l.path) = 1
      next == dirlookup(i, Head(l.path))
  IN
  /\ At(p, "walk") /\ l.path # <<>>
  /\ CanLock(i)
  /\ \/ /\ dir /\ last
        /\ inode' = Read(i)
        /\ Goto(p, l.ret)
     \/ /\ ~dir \/ (~last /\ next = 0)
        /\ inode' = Read(i)
        /\ Put(p, i, l.ret, "cur")
     \/ /\ dir /\ ~last /\ next # 0
        /\ inode' = iget(Read(i), next)
        /\ proc' = [proc EXCEPT ![p] =
             [@ EXCEPT !.pc = "iput", !.put = i, !.after = "walk", !.cur = next,
                       !.path = Tail(l.path)]]
  /\ Same /\ UNCHANGED disk

\* namei or nameiparent found nothing: the call fails.
Failing == {"open", "follow", "create", "link", "unlink", "symlink", "chdir"}

NotFound(p) ==
  /\ panic = "" /\ proc[p].pc \in Failing /\ proc[p].cur = 0
  /\ Goto(p, "fail")
  /\ Same /\ UNCHANGED <<inode, disk>>

\* p is past namex, at l, and has the inode cur.
Found(p, l) == At(p, l) /\ proc[p].cur # 0

\* ilock(i), then iunlockput(i), and the call fails.
Refuse(p, i, x) ==
  /\ inode' = Read(i)
  /\ Put(p, i, "fail", x)
  /\ UNCHANGED disk

-----------------------------------------------------------------------------
(* A new inode *)

NewType(c) == CASE c.op = "mkdir" -> "dir" [] c.op = "mknod" -> "device"
                [] c.op = "symlink" -> "symlink" [] OTHER -> "file"

\* The first free inode that ialloc finds ...
Ialloc(p) ==
  /\ At(p, "ialloc")
  /\ \/ \E i \in Inum :
          /\ disk[i].type = "free"
          /\ \A j \in Inum : j < i => disk[j].type # "free"
          /\ disk' = [disk EXCEPT ![i] = [Free EXCEPT !.type = NewType(proc[p].call)]]
          /\ proc' = [proc EXCEPT ![p].pc = "iget", ![p].inum = i]
          /\ UNCHANGED inode /\ Same
     \/ /\ \A i \in Inum : disk[i].type # "free"
        /\ Panic("ialloc: no inodes")

\* ... is then looked up in the table.
IallocGet(p) ==
  LET i == proc[p].inum IN
  /\ At(p, "iget")
  /\ inode' = iget(inode, i)
  /\ proc' = [proc EXCEPT ![p].ip = i, ![p].inum = 0,
       ![p].pc = IF proc[p].call.op = "symlink" THEN "target" ELSE "fill"]
  /\ Same /\ UNCHANGED disk

\* create: the directory is locked and searched.
Create(p) ==
  LET l == proc[p]
      d == l.cur
      i == dirlookup(d, Head(l.path))
  IN
  /\ Found(p, "create")
  /\ CanLock(d)
  /\ IF i # 0
     THEN /\ inode' = iget(Read(d), i)
          /\ proc' = [proc EXCEPT ![p] = [@ EXCEPT !.pc = "iput", !.put = d, !.cur = 0,
                                                   !.after = "exists", !.ip = i]]
     ELSE /\ inode' = ilock(p, d)
          /\ Goto(p, "ialloc")
  /\ Same /\ UNCHANGED disk

\* Mutant: the type of what exists is not looked at.
CreateExistsAny(p) ==
  LET i == proc[p].ip IN
  /\ At(p, "exists")
  /\ CanLock(i)
  /\ IF proc[p].call.op = "open"
     THEN inode' = ilock(p, i) /\ Goto(p, "opened") /\ UNCHANGED disk
     ELSE Refuse(p, i, "ip")
  /\ Same

\* create found the name: only a file that is to be opened may exist.
CreateExists(p) ==
  LET i == proc[p].ip IN
  /\ At(p, "exists")
  /\ CanLock(i)
  /\ IF proc[p].call.op = "open" /\ Loaded(i).type \in {"file", "device"}
     THEN inode' = ilock(p, i) /\ Goto(p, "opened") /\ UNCHANGED disk
     ELSE Refuse(p, i, "ip")
  /\ Same

\* create fills the new inode in, enters it in the directory and lets go of that.
CreateFill(p) ==
  LET l   == proc[p]
      d   == l.cur
      i   == l.ip
      dir == l.call.op = "mkdir"
      n   == IF dir THEN inode[d].nlink + 1 ELSE inode[d].nlink
      dots == IF dir THEN [NoEntries EXCEPT !["."] = i, ![".."] = d] ELSE NoEntries
  IN
  /\ At(p, "fill")
  /\ CanLock(i)
  /\ inode' = SetNlink(SetNlink(iunlock(ilock(p, i), d), i, 1), d, n)
  /\ disk' = [disk EXCEPT ![i].nlink = 1, ![i].ents = dots, ![d].nlink = n,
                          ![d].ents[Head(l.path)] = i]
  /\ Put(p, d, IF l.call.op = "open" THEN "opened" ELSE "made", "cur")
  /\ Same

\* mkdir and mknod drop the inode that create returns locked.
Made(p) ==
  /\ At(p, "made")
  /\ inode' = iunlock(inode, proc[p].ip)
  /\ Put(p, proc[p].ip, "done", "ip")
  /\ Same /\ UNCHANGED disk

-----------------------------------------------------------------------------
(* open *)

\* The symbolic link is read and dropped; its target is looked up.
FollowLink(p, i, n) ==
  /\ inode' = Read(i)
  /\ proc' = [proc EXCEPT ![p] =
       [@ EXCEPT !.pc = "iput", !.put = i, !.after = "namex", !.cur = 0, !.cnt = n,
                 !.path = disk[i].target, !.parent = FALSE, !.ret = "follow"]]

\* The inode stays locked; open gets it as ip.
Take(p, i) ==
  /\ inode' = ilock(p, i)
  /\ proc' = [proc EXCEPT ![p] = [@ EXCEPT !.pc = "opened", !.ip = i, !.cur = 0]]

\* open without O_CREATE: O_NOFOLLOW opens the symbolic link itself.
Open(p) ==
  LET i     == proc[p].cur
      omode == proc[p].call.omode
      type  == Loaded(i).type
  IN
  /\ Found(p, "open")
  /\ CanLock(i)
  /\ CASE type = "dir" /\ omode # "rdonly"       -> Refuse(p, i, "cur")
       [] type = "symlink" /\ omode # "nofollow" -> FollowLink(p, i, 0)
       [] OTHER                                  -> Take(p, i)
  /\ Same /\ UNCHANGED disk

\* getsymlink, one turn of its loop.  After SYMMAX turns it gives up, the inode
\* it came to locked and referenced.
Follow(p) ==
  LET i == proc[p].cur
      n == proc[p].cnt + 1
  IN
  /\ Found(p, "follow")
  /\ CanLock(i)
  /\ CASE n = SYMMAX -> /\ inode' = ilock(p, i)
                        /\ proc' = [proc EXCEPT ![p].pc = "fail", ![p].cnt = 0,
                                                ![p].cur = 0]
       [] n < SYMMAX /\ Loaded(i).type = "symlink" -> FollowLink(p, i, n)
       [] OTHER -> Take(p, i)
  /\ Same /\ UNCHANGED disk

\* A descriptor, or none: no file or descriptor is free, or the device has no driver.
Opened(p) ==
  LET i == proc[p].ip IN
  /\ At(p, "opened")
  /\ inode' = iunlock(inode, i)
  /\ \/ \E fd \in FD :
          /\ proc[p].ofile[fd] = 0
          /\ \A e \in 0 .. fd - 1 : proc[p].ofile[e] # 0
          /\ proc' = [proc EXCEPT ![p] = [@ EXCEPT !.pc = "done", !.ip = 0,
                                                   !.ofile[fd] = i]]
     \/ /\ scarce \/ \A fd \in FD : proc[p].ofile[fd] # 0
        /\ Put(p, i, "fail", "ip")
  /\ Same /\ UNCHANGED disk

-----------------------------------------------------------------------------
(* link and symlink *)

\* dirlink by a process that holds no other lock it needs here: the name exists
\* and is looked up for nothing, or it is entered.
Dirlink(p, exists, linked) ==
  LET l == proc[p]
      d == l.cur
      f == dirlookup(d, Head(l.path))
  IN
  /\ CanLock(d)
  /\ IF f # 0
     THEN /\ inode' = iget(ilock(p, d), f)
          /\ proc' = [proc EXCEPT ![p] = [@ EXCEPT !.pc = "iput", !.put = f,
                                                   !.after = exists]]
          /\ UNCHANGED disk
     ELSE /\ inode' = Read(d)
          /\ disk' = [disk EXCEPT ![d].ents[Head(l.path)] = l.ip]
          /\ Put(p, d, linked, "cur")
  /\ Same

\* iunlockput(dp) after dirlink failed.
LeaveDir(p, at, l) ==
  /\ At(p, at)
  /\ inode' = iunlock(inode, proc[p].cur)
  /\ Put(p, proc[p].cur, l, "cur")
  /\ Same /\ UNCHANGED disk

\* nlink changes by n and iupdate; iunlockput(ip).
Count(p, i, n, l) ==
  /\ inode' = iunlock(SetNlink(Read(i), i, Loaded(i).nlink + n), i)
  /\ disk' = SetNlink(disk, i, Loaded(i).nlink + n)
  /\ Put(p, i, l, "ip")
  /\ Same

\* Mutant: the old file stays locked.
LinkLocked(p) ==
  LET i == proc[p].cur
      n == Loaded(i).nlink + 1
  IN
  /\ Found(p, "link")
  /\ CanLock(i)
  /\ IF Loaded(i).type = "dir" THEN Refuse(p, i, "cur")
     ELSE /\ inode' = SetNlink(ilock(p, i), i, n)
          /\ disk' = SetNlink(disk, i, n)
          /\ Namex(p, i, proc[p].call.new, TRUE, "linkdir")
  /\ Same

\* The link count of the old file goes up before the new name is entered.
Link(p) ==
  LET i == proc[p].cur
      n == Loaded(i).nlink + 1
  IN
  /\ Found(p, "link")
  /\ CanLock(i)
  /\ IF Loaded(i).type = "dir" THEN Refuse(p, i, "cur")
     ELSE /\ inode' = SetNlink(Read(i), i, n)
          /\ disk' = SetNlink(disk, i, n)
          /\ Namex(p, i, proc[p].call.new, TRUE, "linkdir")
  /\ Same

LinkNoDir(p) ==
  /\ At(p, "linkdir") /\ proc[p].cur = 0
  /\ Goto(p, "bad")
  /\ Same /\ UNCHANGED <<inode, disk>>

LinkDir(p) == Found(p, "linkdir") /\ Dirlink(p, "linkexists", "linked")

LinkExists(p) == LeaveDir(p, "linkexists", "bad")

\* Mutant: the count stays.
LinkBadCounted(p) ==
  /\ At(p, "bad")
  /\ CanLock(proc[p].ip)
  /\ Count(p, proc[p].ip, 0, "fail")

\* bad: the count goes down again.
LinkBad(p) ==
  /\ At(p, "bad")
  /\ CanLock(proc[p].ip)
  /\ Count(p, proc[p].ip, -1, "fail")

Linked(p) ==
  /\ At(p, "linked")
  /\ Put(p, proc[p].ip, "done", "ip")
  /\ Same /\ UNCHANGED <<inode, disk>>

\* symlink allocates before it locks the directory.
Symlink(p) ==
  /\ Found(p, "symlink")
  /\ Goto(p, "ialloc")
  /\ Same /\ UNCHANGED <<inode, disk>>

\* The target is written, or (writei fails) the inode dropped and then the directory.
SymlinkTarget(p) ==
  LET i == proc[p].ip IN
  /\ At(p, "target")
  /\ CanLock(i)
  /\ \/ /\ inode' = ilock(p, i)
        /\ disk' = [disk EXCEPT ![i].target = proc[p].call.target]
        /\ Goto(p, "symdir")
     \/ /\ scarce
        /\ inode' = Read(i)
        /\ Put(p, i, "nospace", "ip")
        /\ UNCHANGED disk
  /\ Same

SymlinkNoSpace(p) ==
  /\ At(p, "nospace")
  /\ Put(p, proc[p].cur, "fail", "cur")
  /\ Same /\ UNCHANGED <<inode, disk>>

SymlinkDir(p) == At(p, "symdir") /\ Dirlink(p, "symexists", "symlinked")

SymlinkExists(p) == LeaveDir(p, "symexists", "symundo")

SymlinkUndo(p) == At(p, "symundo") /\ Count(p, proc[p].ip, 0, "fail")

Symlinked(p) == At(p, "symlinked") /\ Count(p, proc[p].ip, 1, "done")

-----------------------------------------------------------------------------
(* unlink *)

\* The directory stays locked while the file is looked up and locked.
Unlink(p) ==
  LET l == proc[p]
      d == l.cur
      n == Head(l.path)
      i == dirlookup(d, n)
  IN
  /\ Found(p, "unlink")
  /\ CanLock(d)
  /\ IF n \in {".", ".."} \/ i = 0
     THEN Refuse(p, d, "cur")
     ELSE /\ inode' = iget(ilock(p, d), i)
          /\ proc' = [proc EXCEPT ![p].pc = "unlinkip", ![p].ip = i]
          /\ UNCHANGED disk
  /\ Same

isdirempty(i) == \A n \in File : disk[i].ents[n] = 0

UnlinkIp(p) ==
  LET l   == proc[p]
      d   == l.cur
      i   == l.ip
      dir == Loaded(i).type = "dir"
      n   == IF dir THEN inode[d].nlink - 1 ELSE inode[d].nlink
  IN
  /\ At(p, "unlinkip")
  /\ CanLock(i)
  /\ \/ /\ Loaded(i).nlink < 1
        /\ Panic("unlink: nlink < 1")
     \/ /\ Loaded(i).nlink >= 1 /\ dir /\ ~isdirempty(i)
        /\ inode' = Read(i)
        /\ Put(p, i, "notempty", "ip")
        /\ Same /\ UNCHANGED disk
     \/ /\ Loaded(i).nlink >= 1 /\ ~(dir /\ ~isdirempty(i))
        /\ inode' = SetNlink(iunlock(ilock(p, i), d), d, n)
        /\ disk' = [disk EXCEPT ![d].nlink = n, ![d].ents[Head(l.path)] = 0]
        /\ Put(p, d, "unlinked", "cur")
        /\ Same

UnlinkNotEmpty(p) == LeaveDir(p, "notempty", "fail")

\* The count goes down last.
Unlinked(p) == At(p, "unlinked") /\ Count(p, proc[p].ip, -1, "done")

-----------------------------------------------------------------------------
(* chdir, close; begin_op and end_op; crash and restart *)

\* Mutant: the old directory is not dropped.
ChdirKeeping(p) ==
  LET i == proc[p].cur IN
  /\ Found(p, "chdir")
  /\ CanLock(i)
  /\ IF Loaded(i).type # "dir" THEN Refuse(p, i, "cur")
     ELSE /\ inode' = Read(i)
          /\ proc' = [proc EXCEPT ![p] = [@ EXCEPT !.pc = "done", !.cwd = i, !.cur = 0]]
          /\ UNCHANGED disk
  /\ Same

\* The old directory is dropped.
Chdir(p) ==
  LET i == proc[p].cur IN
  /\ Found(p, "chdir")
  /\ CanLock(i)
  /\ IF Loaded(i).type # "dir" THEN Refuse(p, i, "cur")
     ELSE /\ inode' = Read(i)
          /\ proc' = [proc EXCEPT ![p] = [@ EXCEPT !.pc = "iput", !.put = proc[p].cwd,
                                         !.after = "done", !.cwd = i, !.cur = 0]]
          /\ UNCHANGED disk
  /\ Same

\* The label that follows the lookup of a call's first path.
First(c) == CASE c.op = "open" /\ c.omode # "create" -> "open"
              [] c.op \in {"link", "unlink", "symlink", "chdir"} -> c.op
              [] OTHER -> "create"

\* A system call begins: begin_op, then namei or nameiparent.
Call(p, c) ==
  /\ At(p, "idle") /\ p \in Live
  /\ made' = made + 1
  /\ outstanding' = outstanding \cup {p}
  /\ proc' = [proc EXCEPT ![p] = [@ EXCEPT !.pc = "namex", !.call = c, !.path = c.path,
       !.parent = First(c) \in {"create", "unlink", "symlink"}, !.ret = First(c)]]
  /\ UNCHANGED <<inode, disk, committed, panic, calls, scarce, crashes>>

\* close(fd) of the only descriptor of a file: fileclose drops the inode.
Close(p, fd) ==
  /\ At(p, "idle")
  /\ made' = made + 1
  /\ proc[p].ofile[fd] # 0
  /\ proc' = [proc EXCEPT ![p] = [@ EXCEPT !.pc = "iput", !.put = proc[p].ofile[fd],
                !.after = "done", !.ofile[fd] = 0, !.call = [op |-> "close"]]]
  /\ outstanding' = outstanding \cup {p}
  /\ UNCHANGED <<inode, disk, committed, panic, calls, scarce, crashes>>

\* end_op: the last operation commits what all of them wrote.
Return(p) ==
  /\ panic = "" /\ proc[p].pc \in {"done", "fail"}
  /\ outstanding' = outstanding \ {p}
  /\ committed' = IF outstanding = {p} THEN disk ELSE committed
  /\ proc' = [proc EXCEPT ![p] = [Idle EXCEPT !.ofile = proc[p].ofile, !.cwd = proc[p].cwd,
                                 !.r = IF proc[p].pc = "done" THEN 0 ELSE -1]]
  /\ UNCHANGED <<inode, disk, panic, calls, scarce, made, crashes>>

\* The inode that p's next step locks, or 0.
Wants(p) ==
  LET l == proc[p] IN
  CASE l.pc \in (Failing \ {"symlink"}) \cup {"linkdir", "symdir"} -> l.cur
    [] l.pc = "walk" /\ l.path # <<>> -> l.cur
    [] l.pc \in {"exists", "fill", "bad", "target", "unlinkip"} -> l.ip
    [] OTHER -> 0

\* The machine stops and boots again: memory is lost, the disk is what was committed.
Crash ==
  /\ crashes < MaxCrash
  /\ crashes' = crashes + 1
  /\ disk' = committed
  /\ inode' = Booted(Live)
  /\ outstanding' = {}
  /\ proc' = Running(Live)
  /\ panic' = ""
  /\ UNCHANGED <<committed, calls, scarce, made>>

\* After a panic, or the last call, nothing more happens.
Halted ==
  /\ panic # "" \/ (made = calls.max /\ \A p \in Proc : proc[p].pc = "idle")
  /\ UNCHANGED vars

\* One step of a process inside a system call.
Step(p) ==
  \/ Iput(p) \/ Itrunc(p) \/ DropRef(p)
  \/ NamexStart(p) \/ NamexEnd(p) \/ NamexStep(p) \/ NotFound(p)
  \/ Ialloc(p) \/ IallocGet(p)
  \/ Create(p) \/ CreateExists(p) \/ CreateFill(p) \/ Made(p)
  \/ Open(p) \/ Follow(p) \/ Opened(p)
  \/ Link(p) \/ LinkNoDir(p) \/ LinkDir(p) \/ LinkExists(p) \/ LinkBad(p) \/ Linked(p)
  \/ Symlink(p) \/ SymlinkTarget(p) \/ SymlinkNoSpace(p) \/ SymlinkDir(p)
  \/ SymlinkExists(p) \/ SymlinkUndo(p) \/ Symlinked(p)
  \/ Unlink(p) \/ UnlinkIp(p) \/ UnlinkNotEmpty(p) \/ Unlinked(p)
  \/ Chdir(p) \/ Return(p)

Next ==
  \/ \E p \in Proc : Step(p)
  \/ \E p \in Proc : made < calls.max /\ \E fd \in FD : Close(p, fd)
  \/ \E p \in Proc : made < calls.max /\ \E c \in calls.set : Call(p, c)
  \/ Crash \/ Halted

Spec == Init /\ [][Next]_vars

-----------------------------------------------------------------------------
\* No call panics: an inode that is locked has a type, a name that is removed
\* has a link, and the sleep-lock that iput takes under itable.lock is free.
\* Running out of inodes is a panic the code means.
NoPanic ==
  /\ panic \in {"", "ialloc: no inodes"}
  /\ \A p \in Proc :
       Wants(p) # 0 /\ inode[Wants(p)].lock = NoProc => Loaded(Wants(p)).type # "free"

\* "ip->ref tracks the number of in-memory pointers to the entry": descriptors,
\* current directories and what system calls under way have in their hands.
RefExact ==
  \A i \in Inum :
    inode[i].ref =
      Cardinality({<<p, fd>> \in Proc \X FD : proc[p].ofile[fd] = i})
        + Cardinality({<<p, x>> \in Proc \X {"cwd", "cur", "ip", "put"} : proc[p][x] = i})

\* The links to i: names in directories, and the .. of directories that are not
\* removed (the root is its own parent).
Links(d, i) ==
  {<<j, n>> \in Inum \X (File \cup {".."}) :
     d[j].type = "dir" /\ d[j].ents[n] = i /\ (n = ".." => d[j].nlink > 0)}

\* At every commit, so after every crash, an inode's count is the number of links
\* to it, but for names that were in a directory when that was freed; no name
\* leads to a free inode.
CommittedLinks ==
  \A i \in Inum :
    committed[i].nlink = Cardinality(Links(committed, i)) + committed[i].lost

\* p sleeps on a lock of q.
WaitsFor(p, q) == Wants(p) # 0 /\ inode[Wants(p)].lock = q

\* No two processes sleep on each other's inode locks, and none on its own.
NoLockCycle ==
  \A p, q \in Proc : ~(WaitsFor(p, q) /\ WaitsFor(q, p))

\* "only lock it for short periods": no inode is locked when a call has returned.
Unlocked ==
  \A i \in Inum : inode[i].lock # NoProc => proc[inode[i].lock].pc # "idle"
=============================================================================
