----------------------------- MODULE BlockStore -----------------------------
(***************************************************************************)
(* What the buffer cache promises its callers (the interface comment of    *)
(* xv6-lab-locks/bio.c): a store of blocks in which a process gets a block *)
(* for itself with its latest contents, may change it, and gives it back.  *)
(* Caching, replacement and write-back are invisible.                      *)
(***************************************************************************)
CONSTANTS Proc, Block, Value, NoProc

VARIABLES
  store,   \* latest contents of each block
  user     \* who has the block, between bread and brelse

vars == <<store, user>>

Init ==
  /\ \E v \in Value : store = [k \in Block |-> v]
  /\ user = [k \in Block |-> NoProc]

\* bread returns: nobody else has the block, and it holds what was last put
\* there (store does not change).
Get(p, k) ==
  /\ user[k] = NoProc
  /\ user' = [user EXCEPT ![k] = p]
  /\ UNCHANGED store

\* The holder changes the block.
Put(p, k, v) ==
  /\ user[k] = p
  /\ store' = [store EXCEPT ![k] = v]
  /\ UNCHANGED user

\* brelse gives the block back.
Release(p, k) ==
  /\ user[k] = p
  /\ user' = [user EXCEPT ![k] = NoProc]
  /\ UNCHANGED store

Next ==
  \E p \in Proc, k \in Block :
    \/ Get(p, k)
    \/ \E v \in Value : Put(p, k, v)
    \/ Release(p, k)

Spec == Init /\ [][Next]_vars
=============================================================================
