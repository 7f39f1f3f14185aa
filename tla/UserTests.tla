------------------------------ MODULE UserTests ------------------------------
(***************************************************************************)
(* The tests of directories, links and paths in usertests.c, run on the    *)
(* file system of FileSys.  A test is the sequence of its system calls,    *)
(* each with the result that the test insists on; a test that forks does   *)
(* so here, and the children run concurrently.                             *)
(*                                                                         *)
(* Loops over many names run over two or three, and what the tests read    *)
(* and write is left out.  README stands for any file that was there       *)
(* before.  Names: dd, ff, ffff and xx, and dd+ for a name of more than    *)
(* DIRSIZ characters that begins like dd.                                  *)
(***************************************************************************)
EXTENDS FileSys

VARIABLES
  test,    \* the test that runs, or "none"
  todo,    \* the calls that each process still has to make
  want,    \* the result that the last call should have: "ok", "err" or "any"
  zombie   \* children that exited and were not waited for

tvars == <<test, todo, want, zombie>>

open(path, omode) == [op |-> "open", path |-> path, omode |-> omode]
mkdir(path)       == [op |-> "mkdir", path |-> path]
mknod(path)       == [op |-> "mknod", path |-> path]
unlink(path)      == [op |-> "unlink", path |-> path]
chdir(path)       == [op |-> "chdir", path |-> path]
link(old, new)    == [op |-> "link", path |-> old, new |-> new]
symlink(to, path) == [op |-> "symlink", path |-> path, target |-> to]
close(fd)         == [op |-> "close", fd |-> fd]
list(names)       == [op |-> "list", names |-> names]
fork(child)       == [op |-> "fork", child |-> child]
wait              == [op |-> "wait"]
exit              == [op |-> "exit"]

Ok(c)  == [c |-> {c}, want |-> "ok"]
Err(c) == [c |-> {c}, want |-> "err"]
Try(c) == [c |-> {c}, want |-> "any"]
One(cs) == [c |-> cs, want |-> "any"]

Fork(child) == Ok(fork(child \o <<Ok(exit)>>))
Wait        == Ok(wait)

\* fd = open(...) must succeed, then close(fd); or open must fail.
Opens(path, omode) == <<Ok(open(path, omode)), Ok(close(0))>>
Fails(path, omode) == <<Err(open(path, omode))>>

\* close(open(...)).
Closed(path, omode) == <<Try(open(path, omode)), Try(close(0))>>

root == <<"/">>
dd   == <<"dd">>
ff   == <<"ff">>
ffff == <<"ffff">>
xx   == <<"xx">>
none == <<>>
-----------------------------------------------------------------------------
iputtest ==
  <<Ok(mkdir(dd)), Ok(chdir(dd)), Ok(unlink(<<"..", "dd">>)), Ok(chdir(root))>>

exitiputtest == <<Fork(<<Ok(mkdir(dd)), Ok(chdir(dd)), Ok(unlink(<<"..", "dd">>))>>), Wait>>

openiputtest == <<Ok(mkdir(dd)), Fork(Fails(dd, "rdwr")), Ok(unlink(dd)), Wait>>

opentest == Opens(<<"README">>, "rdonly") \o Fails(xx, "rdonly")

createtest ==
  Closed(dd, "create") \o Closed(ff, "create") \o <<Try(unlink(dd)), Try(unlink(ff))>>

dirtest == <<Ok(mkdir(dd)), Ok(chdir(dd)), Ok(chdir(<<"..">>)), Ok(unlink(dd))>>

\* The loop that cleans up takes i for pi in the name of the file: one stays.
createdelete ==
  LET child(kept, gone) ==
        Fork(Opens(kept, "create") \o Opens(gone, "create") \o <<Ok(unlink(gone))>>)
  IN <<child(dd, ff), child(ffff, xx), Wait, Wait>>
       \o Opens(dd, "rdonly") \o Opens(ffff, "rdonly")
       \o Fails(ff, "rdonly") \o Fails(xx, "rdonly")
       \o <<Try(unlink(dd)), Try(unlink(dd)), Try(unlink(xx)), Try(unlink(xx))>>

unlinkread ==
  Opens(dd, "create")
    \o <<Ok(open(dd, "rdwr")), Ok(unlink(dd)), Try(open(dd, "create")), Try(close(1)),
         Try(close(0)), Try(unlink(dd))>>

linktest ==
  <<Try(unlink(dd)), Try(unlink(ff))>> \o Opens(dd, "create")
    \o <<Ok(link(dd, ff)), Try(unlink(dd))>> \o Fails(dd, "rdonly") \o Opens(ff, "rdonly")
    \o <<Err(link(ff, ff)), Try(unlink(ff)), Err(link(ff, dd)), Err(link(<<".">>, dd))>>

\* Parent and child at file i, for i = 0, 1, 2 and 4.
concreate ==
  LET create(f) == Opens(f, "create")
      from(f)   == <<Try(link(dd, f))>>
      look(f)   == Closed(f, "rdonly")
      drop(f)   == <<Try(unlink(f)), Try(unlink(f))>>
      both(child, parent) == <<Fork(child)>> \o parent \o <<Wait>>
  IN <<Try(unlink(dd))>> \o both(create(dd), create(dd))
       \o <<Try(unlink(ff))>> \o both(from(ff), from(ff))
       \o <<Try(unlink(ffff))>> \o both(create(ffff), create(ffff))
       \o <<Try(unlink(xx))>> \o both(create(xx), from(xx))
       \o <<Ok(open(<<".">>, "rdonly")), Ok(list({"dd", "ff", "ffff", "xx"})), Ok(close(0))>>
       \o both(look(dd), drop(dd)) \o both(drop(ff), look(ff))
       \o both(drop(ffff), drop(ffff)) \o both(drop(xx), look(xx))

\* Calls drawn at random by both processes.
linkunlink ==
  LET draw == <<One({open(dd, "create"), link(<<"README">>, dd), unlink(dd)}), Try(close(0))>>
  IN <<Try(unlink(dd)), Fork(draw \o draw)>> \o draw \o draw \o <<Wait>>

bigdir ==
  <<Try(unlink(dd))>> \o Opens(dd, "create")
    \o <<Ok(link(dd, ff)), Ok(link(dd, ffff)), Try(unlink(dd)), Ok(unlink(ff)), Ok(unlink(ffff))>>

subdir ==
  LET dd_ff == <<"dd", "ff">>
      dd_dd == <<"dd", "dd">>
      dd_dd_ff == <<"dd", "dd", "ff">>
      dd_dd_ffff == <<"dd", "dd", "ffff">>
      dd_ff_ff == <<"dd", "ff", "ff">>
      dd_xx_ff == <<"dd", "xx", "ff">>
      dd_dd_xx == <<"dd", "dd", "xx">>
  IN <<Try(unlink(ff)), Ok(mkdir(dd))>> \o Opens(dd_ff, "create") \o <<Err(unlink(dd)),
       Ok(mkdir(<<"/", "dd", "dd">>))>> \o Opens(dd_dd_ff, "create")
       \o Opens(<<"dd", "dd", "..", "ff">>, "rdonly")
       \o <<Ok(link(dd_dd_ff, dd_dd_ffff)), Ok(unlink(dd_dd_ff))>> \o Fails(dd_dd_ff, "rdonly")
       \o <<Ok(chdir(dd)), Ok(chdir(<<"dd", "..", "..", "dd">>)),
            Ok(chdir(<<"dd", "..", "..", "..", "dd">>)), Ok(chdir(<<".", "..">>))>>
       \o Opens(dd_dd_ffff, "rdonly")
       \o Fails(dd_dd_ff, "rdonly") \o Fails(dd_ff_ff, "create") \o Fails(dd_xx_ff, "create")
       \o Fails(dd, "create") \o Fails(dd, "rdwr") \o Fails(dd, "wronly")
       \o <<Err(link(dd_ff_ff, dd_dd_xx)), Err(link(dd_xx_ff, dd_dd_xx)),
            Err(link(dd_ff, dd_dd_ffff)), Err(mkdir(dd_ff_ff)), Err(mkdir(dd_xx_ff)),
            Err(mkdir(dd_dd_ffff)), Err(unlink(dd_xx_ff)), Err(unlink(dd_ff_ff)),
            Err(chdir(dd_ff)), Err(chdir(<<"dd", "xx">>)),
            Ok(unlink(dd_dd_ffff)), Ok(unlink(dd_ff)), Err(unlink(dd)), Ok(unlink(dd_dd)),
            Ok(unlink(dd))>>

\* dd+ is cut to dd wherever it occurs in a path.
fourteen ==
  LET s == "dd"
      l == "dd+"
  IN <<Ok(mkdir(<<s>>)), Ok(mkdir(<<s, l>>))>>
       \o Opens(<<l, l, l>>, "create") \o Opens(<<s, s, s>>, "rdonly")
       \o <<Err(mkdir(<<s, s>>)), Err(mkdir(<<l, s>>)), Try(unlink(<<l, s>>)),
            Try(unlink(<<s, s>>)), Try(unlink(<<s, s, s>>)), Try(unlink(<<l, l, l>>)),
            Try(unlink(<<s, l>>)), Try(unlink(<<s>>))>>

rmdot ==
  <<Ok(mkdir(dd)), Ok(chdir(dd)), Err(unlink(<<".">>)), Err(unlink(<<"..">>)), Ok(chdir(root)),
    Err(unlink(<<"dd", ".">>)), Err(unlink(<<"dd", "..">>)), Ok(unlink(dd))>>

dirfile ==
  LET dd_xx == <<"dd", "xx">> IN
  Opens(dd, "create") \o <<Err(chdir(dd))>> \o Fails(dd_xx, "rdonly") \o Fails(dd_xx, "create")
    \o <<Err(mkdir(dd_xx)), Err(unlink(dd_xx)), Err(link(<<"README">>, dd_xx)), Ok(unlink(dd))>>
    \o Fails(<<".">>, "rdwr") \o <<Try(open(<<".">>, "rdonly")), Try(close(0))>>

iref ==
  LET down == <<Ok(mkdir(dd)), Ok(chdir(dd)), Try(mkdir(none)), Try(link(<<"README">>, none))>>
                \o Closed(none, "create") \o Closed(xx, "create") \o <<Try(unlink(xx))>>
      up   == <<Try(chdir(<<"..">>)), Try(unlink(dd))>>
  IN down \o down \o up \o up \o <<Try(chdir(root))>>

\* What main hands to run.
Script(t) ==
  CASE t = "iputtest" -> iputtest [] t = "exitiputtest" -> exitiputtest
    [] t = "openiputtest" -> openiputtest [] t = "opentest" -> opentest
    [] t = "createtest" -> createtest [] t = "dirtest" -> dirtest
    [] t = "createdelete" -> createdelete [] t = "unlinkread" -> unlinkread
    [] t = "linktest" -> linktest [] t = "concreate" -> concreate
    [] t = "linkunlink" -> linkunlink [] t = "bigdir" -> bigdir [] t = "subdir" -> subdir
    [] t = "fourteen" -> fourteen [] t = "rmdot" -> rmdot [] t = "dirfile" -> dirfile
    [] t = "iref" -> iref

Tests == {"iputtest", "exitiputtest", "openiputtest", "opentest", "createtest", "dirtest",
          "createdelete", "unlinkread", "linktest", "concreate", "linkunlink", "bigdir",
          "subdir", "fourteen", "rmdot", "dirfile", "iref"}

\* Tests that leave files behind.
Leaving == {"createdelete", "linkunlink"}
-----------------------------------------------------------------------------
README == 2

\* mkfs with one file in the root directory.
TestDisk ==
  [Mkfs(Cardinality(Inum)) EXCEPT
     ![ROOTINO].ents["README"] = README, ![README].type = "file", ![README].nlink = 1]

\* run: one process begins the test.
TestInit ==
  /\ test \in Tests
  /\ \E main \in Proc :
       /\ Boot({main}, TestDisk)
       /\ todo = [p \in Proc |-> IF p = main THEN Script(test) ELSE <<>>]
  /\ want = [p \in Proc |-> "any"]
  /\ zombie = {}
  /\ calls = [set |-> {}, max |-> 0] /\ scarce = FALSE /\ made = 0 /\ crashes = 0

\* p is to do c, one of the next things in its script.
Due(p, c) == At(p, "idle") /\ todo[p] # <<>> /\ c \in Head(todo[p]).c

Done(p) ==
  /\ todo' = [todo EXCEPT ![p] = Tail(@)]
  /\ want' = [want EXCEPT ![p] = Head(todo[p]).want]
  /\ UNCHANGED test

CallNext(p, c) ==
  /\ Due(p, c) /\ c.op \notin {"close", "list", "fork", "wait", "exit"}
  /\ Call(p, c)
  /\ Done(p) /\ UNCHANGED zombie

\* argfd fails if the descriptor is not open.
CloseNext(p, c) ==
  /\ Due(p, c) /\ c.op = "close"
  /\ IF proc[p].ofile[c.fd] # 0 THEN Close(p, c.fd)
     ELSE /\ proc' = [proc EXCEPT ![p].r = -1]
          /\ UNCHANGED <<inode, disk>> /\ Same
  /\ Done(p) /\ UNCHANGED zombie

\* All entries of the current directory are read; those of README aside, they are the names.
ListNext(p, c) ==
  LET d == proc[p].cwd
      there == {n \in File : disk[d].ents[n] # 0} \ {"README"}
  IN
  /\ Due(p, c) /\ c.op = "list"
  /\ CanLock(d)
  /\ inode' = Read(d)
  /\ proc' = [proc EXCEPT ![p].r = IF there = c.names THEN 0 ELSE -1]
  /\ Done(p) /\ UNCHANGED <<disk, zombie>> /\ Same

\* The child gets the current directory; no test forks with a file open.
ForkNext(p, c) ==
  /\ Due(p, c) /\ c.op = "fork"
  /\ \E q \in Proc \ (Live \cup zombie) :
       /\ inode' = iget(inode, proc[p].cwd)
       /\ proc' = [proc EXCEPT ![q] = [Idle EXCEPT !.cwd = proc[p].cwd], ![p].r = 0]
       /\ todo' = [todo EXCEPT ![p] = Tail(@), ![q] = c.child]
       /\ want' = [want EXCEPT ![p] = "ok", ![q] = "any"]
  /\ UNCHANGED <<disk, test, zombie>> /\ Same

\* exit closes the files that are open, one operation each ...
ExitClose(p, c) ==
  /\ Due(p, c) /\ c.op = "exit"
  /\ \E fd \in FD : (\A e \in 0 .. fd - 1 : proc[p].ofile[e] = 0) /\ Close(p, fd)
  /\ UNCHANGED tvars

\* ... and gives the current directory up.
ExitNext(p, c) ==
  /\ Due(p, c) /\ c.op = "exit"
  /\ \A fd \in FD : proc[p].ofile[fd] = 0
  /\ outstanding' = outstanding \cup {p}
  /\ Put(p, proc[p].cwd, "done", "cwd")
  /\ zombie' = zombie \cup {p}
  /\ Done(p)
  /\ UNCHANGED <<inode, disk, committed, panic, calls, scarce, made, crashes>>

WaitNext(p, c) ==
  /\ Due(p, c) /\ c.op = "wait"
  /\ \E q \in zombie :
       /\ At(q, "idle")
       /\ zombie' = zombie \ {q}
  /\ proc' = [proc EXCEPT ![p].r = 0]
  /\ Done(p) /\ UNCHANGED <<inode, disk>> /\ Same

Passed == (\A p \in Proc : At(p, "idle") /\ todo[p] = <<>>) /\ zombie = {}

TestNext ==
  \/ \E p \in Proc : Step(p) /\ UNCHANGED tvars
  \/ \E p \in Proc : todo[p] # <<>> /\ \E c \in Head(todo[p]).c :
       \/ CallNext(p, c) \/ CloseNext(p, c) \/ ListNext(p, c)
       \/ ForkNext(p, c) \/ ExitClose(p, c) \/ ExitNext(p, c) \/ WaitNext(p, c)
  \/ Passed /\ UNCHANGED <<vars, tvars>>

-----------------------------------------------------------------------------
\* Every test passes, in every interleaving of its processes: each call returns
\* what the test insists on, and a test that removes what it made leaves the disk
\* and the inode table as it found them; no inode leaks, in memory or on the disk.
TestsPass ==
  /\ \A p \in Proc : At(p, "idle") =>
       /\ want[p] = "ok" => proc[p].r = 0
       /\ want[p] = "err" => proc[p].r = -1
  /\ test \in Tests \ Leaving /\ Passed =>
       /\ disk = TestDisk
       /\ \A i \in Inum : inode[i].ref = IF i = ROOTINO THEN 1 ELSE 0
=============================================================================
