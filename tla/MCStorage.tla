------------------------------ MODULE MCStorage ------------------------------
(***************************************************************************)
(* The buffer cache of the locks lab, and the block map of the file system *)
(* lab.  One of the two runs; the variables of the other keep their        *)
(* initial values.                                                         *)
(***************************************************************************)
EXTENDS Bcache, BlockMap, TLC

CONSTANTS p1, p2, b1, b2, v1, v2

BlockSmall == {0, 1, 2}

VARIABLE part     \* what runs

StartOne == part \in {"bcache", "blockmap"} /\ Init /\ MapInit

RunOne ==
  \/ part = "bcache" /\ Next /\ UNCHANGED <<part, mapvars>>
  \/ part = "blockmap" /\ MapNext /\ UNCHANGED <<part, vars>>

Storage == StartOne /\ [][RunOne]_<<part, vars, mapvars>>

Symmetric == Permutations(Proc) \cup Permutations(Buf) \cup Permutations(Value)
=============================================================================
