---------------------------- MODULE AddressSpaces ----------------------------
(***************************************************************************)
(* What fork, sbrk, exit and a store to memory mean to user programs: every *)
(* process has memory of its own, and fork copies it.  Nothing here is      *)
(* shared; the copy-on-write kernel (module Cow) implements it.             *)
(***************************************************************************)
CONSTANTS Proc,      \* slots of the process table
          VA,        \* user virtual pages
          Value,     \* contents of a page
          Zero,      \* the contents of a new page
          Absent     \* marks a page that is not there

VARIABLE space       \* the memory of each process

Init == \E p \in Proc, a \in VA :
          space = [q \in Proc |-> [b \in VA |-> IF q = p /\ b = a THEN Zero
                                                ELSE Absent]]

Mapped(p, a) == space[p][a] # Absent

Store(p, a, v) ==
  /\ Mapped(p, a)
  /\ space' = [space EXCEPT ![p][a] = v]

\* The child starts with a copy of all of the parent's memory.
Fork(p, q) ==
  /\ \A a \in VA : ~ Mapped(q, a)
  /\ space' = [space EXCEPT ![q] = space[p]]

Grow(p, a) ==
  /\ ~ Mapped(p, a)
  /\ space' = [space EXCEPT ![p][a] = Zero]

Shrink(p, a) ==
  /\ Mapped(p, a)
  /\ space' = [space EXCEPT ![p][a] = Absent]

Exit(p) == space' = [space EXCEPT ![p] = [a \in VA |-> Absent]]

Next ==
  \E p \in Proc :
    \/ Exit(p)
    \/ \E q \in Proc : Fork(p, q)
    \/ \E a \in VA : Grow(p, a) \/ Shrink(p, a) \/ \E v \in Value : Store(p, a, v)

Spec == Init /\ [][Next]_space
=============================================================================
