------------------------------ MODULE MCFileSys ------------------------------
(* Processes that call whatever they like, or one of the tests of usertests. *)
EXTENDS UserTests, TLC

CONSTANTS p1, p2, p3

\* A directory that is removed while another process works in it.
Removed ==
  {mkdir(dd), unlink(dd), open(<<"dd", "ff">>, "create"), unlink(<<"/", "dd", "ff">>)}

\* A file that gains and loses names while it is open.
Linked2 ==
  {open(dd, "create"), link(dd, ff), unlink(dd), unlink(ff)}

\* A name that changes its kind while it is followed.
Followed ==
  {symlink(<<"/", "ff">>, dd), open(dd, "rdonly"), open(dd, "nofollow"), mknod(ff),
   link(ff, <<"xx", "dd">>), unlink(dd), unlink(ff)}

\* A current directory, and paths through it.
Current ==
  {mkdir(<<"/", "dd">>), chdir(<<"/", "dd">>), chdir(<<"..">>), unlink(<<"/", "dd">>),
   open(<<".">>, "rdwr"), unlink(<<"..">>)}

\* Up to n calls of the set c.
UpTo(n, c) == [set |-> c, max |-> n]

MCWorkloads == {UpTo(4, Removed), UpTo(4, Linked2), UpTo(3, Followed), UpTo(4, Current)}

\* A symbolic link to itself.
Looped == {UpTo(4, {symlink(dd, dd), open(dd, "rdonly")})}

MCLong == [n \in {"dd+"} |-> "dd"]

Pairs == {s \in SUBSET Proc : Cardinality(s) = 2}

NoTest ==
  /\ test = "none" /\ zombie = {}
  /\ todo = [p \in Proc |-> <<>>] /\ want = [p \in Proc |-> "any"]

InitOne == (Init /\ NoTest) \/ TestInit

NextOne ==
  \/ test = "none" /\ Next /\ UNCHANGED tvars
  \/ test # "none" /\ TestNext

Both == InitOne /\ [][NextOne]_<<vars, tvars>>

\* Without the tests.
Workload == Init /\ NoTest /\ [][Next /\ UNCHANGED tvars]_<<vars, tvars>>

Symmetric == Permutations(Proc)
=============================================================================
