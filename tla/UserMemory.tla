----------------------------- MODULE UserMemory ------------------------------
(***************************************************************************)
(* UserCopy beside other parts of the kernel: with constants and variables *)
(* of its own.                                                             *)
(***************************************************************************)
EXTENDS Integers

CONSTANTS c_PGSIZE, c_NPAGE, c_WORD, c_MAXLEN

ASSUME UserMemoryAssumption ==
  c_PGSIZE \in Nat \ {0} /\ c_NPAGE \in Nat /\ c_WORD \in Nat \ {0} /\ c_MAXLEN \in Nat

VARIABLES c_pagetable, c_sz, c_mem, c_buf, c_was, c_job

C == INSTANCE UserCopy WITH
       PGSIZE <- c_PGSIZE, NPAGE <- c_NPAGE, WORD <- c_WORD, MAXLEN <- c_MAXLEN,
       pagetable <- c_pagetable, sz <- c_sz, mem <- c_mem, buf <- c_buf, was <- c_was,
       job <- c_job

\* copyin, copyout, copyinstr, fetchaddr and memmove copy exactly the bytes they
\* are given, and fail exactly if one of them is not there.
CopyExact == C!CopyExact
=============================================================================
