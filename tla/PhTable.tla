------------------------------- MODULE PhTable -------------------------------
(***************************************************************************)
(* The hash table of xv6-lab-multithreading/ph.c, filled by several        *)
(* threads with one lock per bucket, then read by several threads.         *)
(*                                                                         *)
(* A step is one access to shared memory: a thread holds the lock of its   *)
(* bucket while it walks the list and while insert links a new entry, and  *)
(* the new entry's next pointer is the head of the list as it was read     *)
(* when insert was called.  malloc never runs out; its n-th entry has      *)
(* address n.                                                              *)
(***************************************************************************)
EXTENDS Integers, Sequences

CONSTANTS
  NBUCKET, NKEYS,
  nthread,     \* divides NKEYS, as main asserts
  KeyValues    \* what random() may return

Worker == 0 .. nthread - 1
Bucket == 0 .. NBUCKET - 1
Index  == 0 .. NKEYS - 1
Null   == 0

VARIABLES
  keys,       \* the keys, fixed by main
  entry,      \* the entries malloc has returned: key, value and next
  table, locks,
  phase,      \* "put", then "get"
  pc, i, e,   \* each thread's position, loop index and list pointer
  missing     \* keys each thread of the second phase did not find

vars == <<keys, entry, table, locks, phase, pc, i, e, missing>>

b == NKEYS \div nthread

\* The key a thread is working on.
Key(t) == IF phase = "put" THEN keys[b * t + i[t]] ELSE keys[i[t]]
Lock(t) == Key(t) % NBUCKET

\* Every variable has its type, and pointers lead to entries.
TypeOK ==
  LET Pointer == DOMAIN entry \cup {Null} IN
  /\ keys \in [Index -> KeyValues]
  /\ entry \in Seq([key : KeyValues, value : Worker, next : Pointer])
  /\ table \in [Bucket -> Pointer]
  /\ locks \in [Bucket -> Worker \cup {-1}]
  /\ phase \in {"put", "get"}
  /\ pc \in [Worker -> {"loop", "walk", "insert", "unlock", "done"}]
  /\ i \in [Worker -> 0 .. NKEYS]
  /\ e \in [Worker -> Pointer]
  /\ missing \in [Worker -> Nat]

Init ==
  /\ keys \in [Index -> KeyValues]
  /\ entry = <<>>
  /\ table = [k \in Bucket |-> Null]
  /\ locks = [k \in Bucket |-> -1]
  /\ phase = "put"
  /\ pc = [t \in Worker |-> "loop"]
  /\ i = [t \in Worker |-> 0]
  /\ e = [t \in Worker |-> Null]
  /\ missing = [t \in Worker |-> 0]

-----------------------------------------------------------------------------
Loops == IF phase = "put" THEN b ELSE NKEYS

\* put and get take the lock of the key's bucket and read the list's head.
Acquire(t) ==
  /\ pc[t] = "loop" /\ i[t] < Loops
  /\ locks[Lock(t)] = -1
  /\ locks' = [locks EXCEPT ![Lock(t)] = t]
  /\ e' = [e EXCEPT ![t] = table[Lock(t)]]
  /\ pc' = [pc EXCEPT ![t] = "walk"]
  /\ UNCHANGED <<keys, entry, table, phase, i, missing>>

\* Mutant: the first entry of the list is not compared.
WalkFirst(t) ==
  /\ pc[t] = "walk"
  /\ e[t] # Null /\ (entry[e[t]].key # Key(t) \/ e[t] = table[Lock(t)])
  /\ e' = [e EXCEPT ![t] = entry[e[t]].next]
  /\ UNCHANGED <<keys, entry, table, locks, phase, pc, i, missing>>

\* One step of the walk along the list.
Walk(t) ==
  /\ pc[t] = "walk"
  /\ e[t] # Null /\ entry[e[t]].key # Key(t)
  /\ e' = [e EXCEPT ![t] = entry[e[t]].next]
  /\ UNCHANGED <<keys, entry, table, locks, phase, pc, i, missing>>

\* The key is there: put updates its value.
Found(t) ==
  /\ pc[t] = "walk"
  /\ e[t] # Null /\ entry[e[t]].key = Key(t)
  /\ entry' = IF phase = "put" THEN [entry EXCEPT ![e[t]].value = t] ELSE entry
  /\ pc' = [pc EXCEPT ![t] = "unlock"]
  /\ UNCHANGED <<keys, table, locks, phase, i, e, missing>>

\* The key is not there: insert makes an entry in front of the list, or get
\* returns 0.
NotFound(t) ==
  /\ pc[t] = "walk" /\ e[t] = Null
  /\ IF phase = "put"
     THEN /\ entry' = Append(entry, [key |-> Key(t), value |-> t, next |-> table[Lock(t)]])
          /\ e' = [e EXCEPT ![t] = Len(entry) + 1]
          /\ pc' = [pc EXCEPT ![t] = "insert"]
          /\ UNCHANGED missing
     ELSE /\ missing' = [missing EXCEPT ![t] = @ + 1]
          /\ pc' = [pc EXCEPT ![t] = "unlock"]
          /\ UNCHANGED <<entry, e>>
  /\ UNCHANGED <<keys, table, locks, phase, i>>

\* The last statement of insert.
Insert(t) ==
  /\ pc[t] = "insert"
  /\ table' = [table EXCEPT ![Lock(t)] = e[t]]
  /\ pc' = [pc EXCEPT ![t] = "unlock"]
  /\ UNCHANGED <<keys, entry, locks, phase, i, e, missing>>

\* The lock is released, and the thread goes on with its next key.
Release(t) ==
  /\ pc[t] = "unlock"
  /\ locks' = [locks EXCEPT ![Lock(t)] = -1]
  /\ i' = [i EXCEPT ![t] = @ + 1]
  /\ e' = [e EXCEPT ![t] = Null]
  /\ pc' = [pc EXCEPT ![t] = "loop"]
  /\ UNCHANGED <<keys, entry, table, phase, missing>>

Return(t) ==
  /\ pc[t] = "loop" /\ i[t] = Loops
  /\ pc' = [pc EXCEPT ![t] = "done"]
  /\ UNCHANGED <<keys, entry, table, locks, phase, i, e, missing>>

\* main joins the threads that put, and starts those that get.
Join ==
  /\ phase = "put" /\ \A t \in Worker : pc[t] = "done"
  /\ phase' = "get"
  /\ i' = [t \in Worker |-> 0]
  /\ pc' = [t \in Worker |-> "loop"]
  /\ UNCHANGED <<keys, entry, table, locks, e, missing>>

Finished ==
  /\ phase = "get" /\ \A t \in Worker : pc[t] = "done"
  /\ UNCHANGED vars

Step(t) ==
  Acquire(t) \/ Walk(t) \/ Found(t) \/ NotFound(t) \/ Insert(t) \/ Release(t) \/ Return(t)

Next == (\E t \in Worker : Step(t)) \/ Join \/ Finished

Spec == Init /\ [][Next]_vars
-----------------------------------------------------------------------------
\* What contains an entry contains the one after it.
Closed(ent, S) == \A x \in S : ent[x].next \in S \cup {Null}

\* The list that starts at h.
List(ent, h) ==
  {x \in DOMAIN ent :
     \A S \in SUBSET DOMAIN ent : h \in S \cup {Null} /\ Closed(ent, S) => x \in S}

\* The entries in a bucket's list.
InList(k) == List(entry, table[k])

\* get_thread prints the keys that are missing: there are none, however the
\* threads that put were interleaved.
NoneMissing == \A t \in Worker : missing[t] = 0

\* A key that put has returned from is in the list of its bucket, once.
PutOnce ==
  /\ \A k \in Bucket, x, y \in DOMAIN entry :
       x \in InList(k) /\ y \in InList(k) /\ entry[x].key = entry[y].key => x = y
  /\ phase = "put" =>
       \A t \in Worker, n \in Index :
         n < i[t] => \E x \in InList(keys[b * t + n] % NBUCKET) : entry[x].key = keys[b * t + n]
=============================================================================
