-------------------------------- MODULE MCMmap --------------------------------
(* Mmap for TLC: one program that does everything, and two that map files.  *)
EXTENDS Mmap, TLC

CONSTANTS p1, p2, g1, g2

All    == {"open", "dup", "close", "unlink", "read", "write", "sbrk", "mmap"}
Alone  == p1 :> All @@ p2 :> {}
Shared == p1 :> {"open", "close", "mmap"} @@ p2 :> {"open", "unlink", "mmap"}

Programs == {Alone, Shared}

Symmetric == Permutations({g1, g2})
=============================================================================
