---------------------------- MODULE BcacheProofs ----------------------------
(***************************************************************************)
(* The buffer cache, for any number of processes, buffers, blocks, buckets *)
(* and values: its safety invariants, and that it implements the block     *)
(* store.  IInv (module Bcache) is inductive.  First what keeps a          *)
(* reference count exact and what a move of one process leaves alone, then *)
(* one lemma per action: those that change neither a reference count nor a *)
(* list, and those that do.                                                *)
(*                                                                         *)
(* IInv says who may touch a buffer; the refinement needs what is in it    *)
(* too: a valid buffer that is neither in the log nor just changed equals  *)
(* the device, so replacing it loses nothing (Clean).                      *)
(***************************************************************************)
EXTENDS Bcache, FiniteSetTheorems, TLAPS

\* The null values are not names of processes, buffers or blocks.
LEMMA NoNames == NoProc \notin Proc /\ NoBuf \notin Buf /\ NoBlock \notin Block
BY Zenon, BcacheAssumption

\* BUCKET_HASH yields a bucket.
LEMMA HashInBucket ==
  ASSUME NEW k \in Block
  PROVE  BUCKET_HASH(k) \in Bucket
BY BcacheAssumption DEF BUCKET_HASH, Bucket

\* NBUCKET itself, the loop bound of bget, is not a bucket.
LEMMA BucketBound == Bucket \subseteq 0 .. NBUCKET /\ NBUCKET \notin Bucket /\ 0 \in Bucket
BY BcacheAssumption DEF Bucket

-----------------------------------------------------------------------------
(* Reference counts. *)

\* A buffer has finitely many users.
LEMMA RefsFinite ==
  ASSUME NEW b
  PROVE  IsFiniteSet(Refs(b)) /\ Cardinality(Refs(b)) \in Nat
BY Zenon, BcacheAssumption, FS_Subset, FS_CardinalityType DEF Refs

\* A buffer with refcnt 0 has neither a user nor a pin.
LEMMA FreeIsUnused ==
  ASSUME BufTypes, RefcntExact, NEW b \in Buf
  PROVE  /\ refcnt[b] = 0 => Refs(b) = {} /\ ~ Pinned(b)
         /\ Pinned(b) => refcnt[b] >= 1
         /\ Refs(b) # {} => refcnt[b] >= 1
BY RefsFinite, FS_EmptySet DEF RefcntExact, BufTypes

\* The count stays exact when users, pins and refcnt stay as they are ...
LEMMA CountKept ==
  ASSUME RefcntExact, refcnt' = refcnt,
         \A b \in Buf : Refs(b)' = Refs(b) /\ (Pinned(b)' <=> Pinned(b))
  PROVE  RefcntExact'
BY Zenon DEF RefcntExact

\* ... when a buffer gets a new user and refcnt is incremented ...
LEMMA CountUser ==
  ASSUME BufTypes, RefcntExact, NEW p \in Proc, NEW b \in Buf,
         p \notin Refs(b), Refs(b)' = Refs(b) \cup {p},
         refcnt' = [refcnt EXCEPT ![b] = @ + 1],
         \A c \in Buf : (c # b => Refs(c)' = Refs(c))
                          /\ (Pinned(c)' <=> Pinned(c))
  PROVE  RefcntExact'
<1>1. Cardinality(Refs(b)') = Cardinality(Refs(b)) + 1
  BY Zenon, RefsFinite, FS_AddElement
<1>2. ASSUME NEW c \in Buf
      PROVE  refcnt'[c] = Cardinality(Refs(c)') + (IF Pinned(c)' THEN 1 ELSE 0)
  <2>1. CASE c = b
    <3>1. Refs(c)' = Refs(b)' /\ (Pinned(c)' <=> Pinned(b)')
      BY Zenon, <2>1 DEF Refs, Referring, Pinned
    <3>2. refcnt'[c] = refcnt[b] + 1
      BY Zenon, <2>1 DEF BufTypes
    <3>3. refcnt[b] = Cardinality(Refs(b)) + (IF Pinned(b) THEN 1 ELSE 0)
      BY Zenon DEF RefcntExact
    <3>4. Cardinality(Refs(c)') = Cardinality(Refs(b)) + 1
      BY Zenon, <1>1, <3>1
    <3>5. CASE Pinned(b)
      BY Zenon, <3>1, <3>2, <3>3, <3>4, <3>5, RefsFinite
    <3>6. CASE ~ Pinned(b)
      BY <3>1, <3>2, <3>3, <3>4, <3>6, RefsFinite
    <3>7. QED BY Zenon, <3>5, <3>6
  <2>2. CASE c # b
    BY Zenon, <2>2 DEF RefcntExact, BufTypes
  <2>3. QED BY Zenon, <2>1, <2>2
<1>3. QED BY Zenon, <1>2 DEF RefcntExact

\* ... when a user leaves and refcnt is decremented ...
LEMMA UncountUser ==
  ASSUME BufTypes, RefcntExact, NEW p \in Proc, NEW b \in Buf,
         p \in Refs(b), Refs(b)' = Refs(b) \ {p},
         refcnt' = [refcnt EXCEPT ![b] = @ - 1],
         \A c \in Buf : (c # b => Refs(c)' = Refs(c))
                          /\ (Pinned(c)' <=> Pinned(c))
  PROVE  RefcntExact'
<1>1. Cardinality(Refs(b)') = Cardinality(Refs(b)) - 1
  BY Zenon, RefsFinite, FS_RemoveElement
<1>2. ASSUME NEW c \in Buf
      PROVE  refcnt'[c] = Cardinality(Refs(c)') + (IF Pinned(c)' THEN 1 ELSE 0)
  <2>1. CASE c = b
    <3>1. Refs(c)' = Refs(b)' /\ (Pinned(c)' <=> Pinned(b)')
      BY Zenon, <2>1 DEF Refs, Referring, Pinned
    <3>2. refcnt'[c] = refcnt[b] - 1
      BY Zenon, <2>1 DEF BufTypes
    <3>3. refcnt[b] = Cardinality(Refs(b)) + (IF Pinned(b) THEN 1 ELSE 0)
      BY Zenon DEF RefcntExact
    <3>4. Cardinality(Refs(c)') = Cardinality(Refs(b)) - 1
      BY Zenon, <1>1, <3>1
    <3>5. CASE Pinned(b)
      BY <3>1, <3>2, <3>3, <3>4, <3>5, RefsFinite
    <3>6. CASE ~ Pinned(b)
      BY <3>1, <3>2, <3>3, <3>4, <3>6, RefsFinite
    <3>7. QED BY Zenon, <3>5, <3>6
  <2>2. CASE c # b
    BY Zenon, <2>2 DEF RefcntExact, BufTypes
  <2>3. QED BY Zenon, <2>1, <2>2
<1>3. QED BY Zenon, <1>2 DEF RefcntExact

\* ... when the log pins or unpins it ...
LEMMA CountPin ==
  ASSUME BufTypes, RefcntExact, NEW b \in Buf,
         \/ ~ Pinned(b) /\ Pinned(b)' /\ refcnt' = [refcnt EXCEPT ![b] = @ + 1]
         \/ Pinned(b) /\ ~ Pinned(b)' /\ refcnt' = [refcnt EXCEPT ![b] = @ - 1],
         \A c \in Buf : Refs(c)' = Refs(c)
                          /\ (c # b => (Pinned(c)' <=> Pinned(c)))
  PROVE  RefcntExact'
BY RefsFinite DEF RefcntExact, BufTypes

\* ... and when a free buffer is assigned to a block for its first user.
LEMMA CountFirst ==
  ASSUME BufTypes, RefcntExact, NEW p \in Proc, NEW b \in Buf,
         refcnt' = [refcnt EXCEPT ![b] = 1],
         Refs(b)' = {p}, ~ Pinned(b)',
         \A c \in Buf : c # b => Refs(c)' = Refs(c)
                                   /\ (Pinned(c)' <=> Pinned(c))
  PROVE  RefcntExact'
<1>1. Cardinality({p}) = 1
  BY Zenon, FS_Singleton
<1>2. ASSUME NEW c \in Buf
      PROVE  refcnt'[c] = Cardinality(Refs(c)') + (IF Pinned(c)' THEN 1 ELSE 0)
  <2>1. CASE c = b
    <3>1. Refs(c)' = Refs(b)' /\ (Pinned(c)' <=> Pinned(b)')
      BY Zenon, <2>1 DEF Refs, Referring, Pinned
    <3>2. refcnt'[c] = 1
      BY Zenon, <2>1 DEF BufTypes
    <3>3. Cardinality(Refs(c)') = 1
      BY Zenon, <1>1, <3>1
    <3>4. QED BY <3>1, <3>2, <3>3
  <2>2. CASE c # b
    BY Zenon, <2>2 DEF RefcntExact, BufTypes
  <2>3. QED BY Zenon, <2>1, <2>2
<1>3. QED BY Zenon, <1>2 DEF RefcntExact

-----------------------------------------------------------------------------
(* Frames. *)

\* p goes to l, with c as its buffer; the other processes stay.
Move(p, l, c) ==
  /\ pc' = [pc EXCEPT ![p] = l]
  /\ cur' = [cur EXCEPT ![p] = c]
  /\ \A q \in Proc : q # p => /\ want'[q] = want[q]
                              /\ idx'[q] = idx[q]
                              /\ own'[q] = own[q]

\* The lists change only around the label "link".
LEMMA ListsKept ==
  ASSUME ProcTypes, LinkedOnce, OneBufferPerBlock, NEW p \in Proc, NEW l, NEW c,
         Move(p, l, c), pc[p] # "link", l # "link",
         UNCHANGED <<bucket, owner, blockno>>
  PROVE  LinkedOnce' /\ OneBufferPerBlock'
<1>1. \A b \in Buf : Moving(b)' <=> Moving(b)
  BY Zenon DEF ProcTypes, Move, Moving
<1>2. LinkedOnce'
  BY Zenon, <1>1 DEF LinkedOnce
<1>3. QED BY Zenon, <1>2 DEF OneBufferPerBlock

\* A move outside the critical section does not disturb the lock order.
LEMMA OutsideLocks ==
  ASSUME ProcTypes, LockOrder, NEW p \in Proc, NEW l, NEW c,
         Move(p, l, c), pc[p] \notin Critical, l \notin Critical,
         UNCHANGED <<lock, bucket_locks, bucket>>
  PROVE  LockOrder'
BY DEF ProcTypes, Move, LockOrder, Critical

\* ... nor what the other processes know.
LEMMA OutsideKnowledge ==
  ASSUME ProcTypes, Knowledge, NEW p \in Proc, NEW l, NEW c,
         Move(p, l, c), UNCHANGED <<bucket_locks, bucket, blockno>>, Knows(p)'
  PROVE  Knowledge'
<1>1. ASSUME NEW q \in Proc, q # p PROVE Knows(q)'
  <2>1. /\ pc'[q] = pc[q] /\ cur'[q] = cur[q] /\ want'[q] = want[q]
        /\ own'[q] = own[q]
    BY Zenon, <1>1 DEF ProcTypes, Move
  <2>2. Knows(q)
    BY Zenon DEF Knowledge
  <2>3. QED BY Zenon, <2>1, <2>2 DEF Knows, Index
<1>2. QED BY Zenon, <1>1 DEF Knowledge

\* Inside the critical section nobody else knows anything about the lists.
LEMMA CriticalKnowledge ==
  ASSUME ProcTypes, LockOrder, Knowledge, NEW p \in Proc, NEW l, NEW c,
         Move(p, l, c), pc[p] \in Critical, Knows(p)'
  PROVE  Knowledge'
<1>1. ASSUME NEW q \in Proc, q # p PROVE Knows(q)'
  <2>1. /\ pc'[q] = pc[q] /\ cur'[q] = cur[q] /\ want'[q] = want[q]
        /\ own'[q] = own[q]
    BY Zenon, <1>1 DEF ProcTypes, Move
  <2>2. Knows(q) /\ pc[q] \notin Critical
    BY Zenon, <1>1 DEF Knowledge, LockOrder
  <2>3. QED BY Zenon, <2>1, <2>2 DEF Knows, Critical
<1>2. QED BY Zenon, <1>1 DEF Knowledge

\* ... and nobody else has a victim.
LEMMA CriticalVictim ==
  ASSUME ProcTypes, LockOrder, NEW p \in Proc, NEW l, NEW c,
         Move(p, l, c), pc[p] \in Critical,
         l \in {"scan", "link"} /\ c # NoBuf => refcnt'[c] = 0
  PROVE  VictimFree'
BY Zenon DEF ProcTypes, LockOrder, Move, Critical, VictimFree

\* A victim stays free when refcnt changes only where it is not 0.
LEMMA OutsideVictim ==
  ASSUME ProcTypes, BufTypes, VictimFree, NEW p \in Proc, NEW l, NEW c,
         Move(p, l, c), l \notin Critical,
         \A b \in Buf : refcnt[b] = 0 => refcnt'[b] = 0
  PROVE  VictimFree'
BY NoNames DEF ProcTypes, VictimFree, Move, Critical

\* A process without a reference moves: counts and users stay.
LEMMA FreeMove ==
  ASSUME ProcTypes, RefcntExact, BufferIsMine, LogSound,
         NEW p \in Proc, NEW l, NEW c,
         Move(p, l, c), pc[p] \notin Holding, l \notin Holding,
         UNCHANGED <<blockno, holder, refcnt, logged>>
  PROVE  RefcntExact' /\ BufferIsMine' /\ LogSound'
<1> USE DEF Holding
<1>1. \A b \in Buf : Refs(b)' = Refs(b) /\ (Pinned(b)' <=> Pinned(b))
  BY Zenon DEF ProcTypes, Move, Refs, Referring, Pinned
<1>2. RefcntExact'
  BY Zenon, <1>1, CountKept
<1>3. BufferIsMine'
  BY DEF ProcTypes, Move, BufferIsMine, Mine, Referring, Using
<1>4. LogSound'
  BY Zenon DEF ProcTypes, Move, LogSound
<1>5. QED BY Zenon, <1>2, <1>3, <1>4

\* A process keeps its reference and moves: only its own claim to the buffer
\* is left to show.
LEMMA HoldingMove ==
  ASSUME ProcTypes, BufTypes, LockOrder, LinkedOnce, OneBufferPerBlock,
         RefcntExact, Knowledge, VictimFree, LogSound,
         NEW p \in Proc, NEW l,
         Move(p, l, cur[p]), pc[p] \in Holding \ {"unpin"},
         l \in Holding \ {"unpin"}, want'[p] = want[p], own'[p] = own[p],
         UNCHANGED <<lock, bucket_locks, bucket, blockno, owner, refcnt, logged>>
  PROVE  /\ LockOrder' /\ LinkedOnce' /\ OneBufferPerBlock'
         /\ RefcntExact' /\ Knowledge' /\ VictimFree' /\ LogSound'
<1>1. pc[p] \notin Critical \cup {"idle", "look", "big"}
      /\ l \notin Critical \cup {"idle", "look", "big"}
  BY Zenon DEF Holding, Critical
<1>2. LockOrder'
  BY Zenon, <1>1, OutsideLocks
<1>3. LinkedOnce' /\ OneBufferPerBlock'
  BY Zenon, <1>1, ListsKept DEF Critical
<1>4. Knows(p)'
  BY Zenon, <1>1 DEF ProcTypes, Move, Knowledge, Knows, Holding, Critical
<1>5. Knowledge'
  BY Zenon, <1>4, OutsideKnowledge
<1>6. VictimFree'
  BY Zenon, <1>1, OutsideVictim
<1>7. RefcntExact'
  <2>1. \A b \in Buf : Refs(b)' = Refs(b) /\ (Pinned(b)' <=> Pinned(b))
    BY Zenon DEF ProcTypes, Move, Refs, Referring, Pinned, Holding
  <2>2. QED BY Zenon, <2>1, CountKept
<1>8. LogSound'
  BY Zenon DEF ProcTypes, Move, LogSound
<1>9. QED BY Zenon, <1>2, <1>3, <1>5, <1>6, <1>7, <1>8

\* A process that uses its buffer moves and goes on using it.
LEMMA UsingMove ==
  ASSUME ProcTypes, BufferIsMine, NEW p \in Proc, NEW l,
         Move(p, l, cur[p]), Using(p), l \in {"use", "dirty", "unpin"},
         UNCHANGED <<blockno, holder, want>>
  PROVE  BufferIsMine'
<1>1. \A b \in Buf : Referring(p, b)' => Referring(p, b)
  BY Zenon DEF ProcTypes, Move, Referring, Using, Holding
<1>2. cur'[p] = cur[p] /\ pc'[p] = l /\ Mine(p)
  BY Zenon DEF ProcTypes, Move, BufferIsMine
<1>3. Mine(p)'
  BY Zenon, <1>1, <1>2 DEF Mine, Using
<1>4. ASSUME NEW q \in Proc, q # p PROVE Mine(q)'
  <2>1. pc'[q] = pc[q] /\ cur'[q] = cur[q] /\ idx'[q] = idx[q] /\ Mine(q)
    BY Zenon, <1>4 DEF ProcTypes, Move, BufferIsMine
  <2>2. QED BY Zenon, <2>1 DEF Mine, Referring, Using
<1>5. QED BY Zenon, <1>3, <1>4 DEF BufferIsMine

-----------------------------------------------------------------------------
(* One lemma per action. *)

\* bread starts: nothing is known about the block yet.
LEMMA BreadStep ==
  ASSUME LockTypes, BufTypes, ContentTypes, ProcTypes, LockOrder, LinkedOnce,
         OneBufferPerBlock, RefcntExact, BufferIsMine, Knowledge, VictimFree,
         LogSound, NEW p \in Proc, NEW k \in Block, Bread(p, k)
  PROVE  IInv'
<1>1. /\ pc[p] = "idle" /\ Move(p, "look", cur[p]) /\ want'[p] = k
      /\ own' = own /\ want' = [want EXCEPT ![p] = k]
      /\ UNCHANGED <<lock, bucket_locks, bufvars, holder, content, ticks, idx>>
  BY Zenon DEF Bread, At, Goto, Move, ProcTypes
<1>2. LockTypes' /\ BufTypes' /\ ContentTypes' /\ ProcTypes'
  BY Zenon, <1>1
    DEF LockTypes, BufTypes, ContentTypes, ProcTypes, Labels, Move, bufvars,
        content
<1>3. Knows(p)'
  BY Zenon, <1>1 DEF ProcTypes, Move, Knowledge, Knows, Holding
<1>4. RefcntExact' /\ BufferIsMine' /\ LogSound'
  BY Zenon, <1>1, FreeMove DEF Holding, bufvars, content
<1>5. LockOrder'
  BY Zenon, <1>1, OutsideLocks DEF Critical, bufvars
<1>6. LinkedOnce' /\ OneBufferPerBlock'
  BY Zenon, <1>1, ListsKept DEF bufvars
<1>7. Knowledge'
  BY Zenon, <1>1, <1>3, OutsideKnowledge DEF bufvars
<1>8. VictimFree'
  BY Zenon, <1>1, OutsideVictim DEF Critical, bufvars
<1>9. QED BY Zenon, <1>2, <1>4, <1>5, <1>6, <1>7, <1>8 DEF IInv, TypeOK

\* A failed first search changes nothing.
LEMMA LookMissStep ==
  ASSUME LockTypes, BufTypes, ContentTypes, ProcTypes, LockOrder, LinkedOnce,
         OneBufferPerBlock, RefcntExact, BufferIsMine, Knowledge, VictimFree,
         LogSound, NEW p \in Proc, LookMiss(p)
  PROVE  IInv'
<1>1. /\ pc[p] = "look" /\ Move(p, "big", cur[p])
      /\ UNCHANGED <<lock, bucket_locks, bufvars, holder, content, ticks, locals>>
  BY Zenon DEF LookMiss, At, Goto, Move, ProcTypes, locals
<1>2. LockTypes' /\ BufTypes' /\ ContentTypes' /\ ProcTypes'
  BY Zenon, <1>1
    DEF LockTypes, BufTypes, ContentTypes, ProcTypes, Labels, Move, bufvars,
        content, locals
<1>3. Knows(p)'
  BY Zenon, <1>1 DEF ProcTypes, Move, Knowledge, Knows, Holding, locals
<1>4. RefcntExact' /\ BufferIsMine' /\ LogSound'
  BY Zenon, <1>1, FreeMove DEF Holding, bufvars, content
<1>5. LockOrder'
  BY Zenon, <1>1, OutsideLocks DEF Critical, bufvars
<1>6. LinkedOnce' /\ OneBufferPerBlock'
  BY Zenon, <1>1, ListsKept DEF bufvars
<1>7. Knowledge'
  BY Zenon, <1>1, <1>3, OutsideKnowledge DEF bufvars
<1>8. VictimFree'
  BY Zenon, <1>1, OutsideVictim DEF Critical, bufvars
<1>9. QED BY Zenon, <1>2, <1>4, <1>5, <1>6, <1>7, <1>8 DEF IInv, TypeOK

\* bget takes bcache.lock.
LEMMA AcquireBigStep ==
  ASSUME LockTypes, BufTypes, ContentTypes, ProcTypes, LockOrder, LinkedOnce,
         OneBufferPerBlock, RefcntExact, BufferIsMine, Knowledge, VictimFree,
         LogSound, NEW p \in Proc, AcquireBig(p)
  PROVE  IInv'
<1>1. /\ pc[p] = "big" /\ Move(p, "recheck", cur[p]) /\ lock = NoProc /\ lock' = p
      /\ UNCHANGED <<bucket_locks, bufvars, holder, content, ticks, locals>>
  BY Zenon DEF AcquireBig, At, Goto, Move, ProcTypes, locals
<1>2. LockTypes' /\ BufTypes' /\ ContentTypes' /\ ProcTypes'
  BY Zenon, <1>1
    DEF LockTypes, BufTypes, ContentTypes, ProcTypes, Labels, Move, bufvars,
        content, locals
<1>3. Knows(p)'
  BY Zenon, <1>1 DEF ProcTypes, Move, Knowledge, Knows, Holding, locals
<1>4. RefcntExact' /\ BufferIsMine' /\ LogSound'
  BY Zenon, <1>1, FreeMove DEF Holding, bufvars, content
<1>5. LockOrder'
  BY <1>1, NoNames DEF Critical, bufvars, locals, LockOrder, ProcTypes, Move
<1>6. LinkedOnce' /\ OneBufferPerBlock'
  BY Zenon, <1>1, ListsKept DEF bufvars
<1>7. Knowledge'
  BY Zenon, <1>1, <1>3, OutsideKnowledge DEF bufvars
<1>8. VictimFree'
  BY <1>1 DEF VictimFree, ProcTypes, Move, bufvars, locals
<1>9. QED BY Zenon, <1>2, <1>4, <1>5, <1>6, <1>7, <1>8 DEF IInv, TypeOK

\* The second search: its result stays true while bcache.lock is held.
LEMMA RecheckStep ==
  ASSUME LockTypes, BufTypes, ContentTypes, ProcTypes, LockOrder, LinkedOnce,
         OneBufferPerBlock, RefcntExact, BufferIsMine, Knowledge, VictimFree,
         LogSound, NEW p \in Proc, Recheck(p)
  PROVE  IInv'
<1>1. Index(p) \in Bucket /\ want[p] \in Block /\ lock = p /\ pc[p] = "recheck"
  BY Zenon, HashInBucket DEF Recheck, At, Knowledge, Knows, Index, LockOrder, Critical
<1>2. UNCHANGED <<lock, bucket_locks, bufvars, holder, content, ticks, want, idx, own>>
  BY Zenon DEF Recheck
<1>3. PICK l, c : Move(p, l, c)
                  /\ \/ l = "hit" /\ c \in Cached(Index(p), want[p])
                     \/ l = "scan" /\ c = cur[p] /\ Cached(Index(p), want[p]) = {}
  BY Zenon DEF Recheck, Goto, Move, ProcTypes
<1>4. c \in Buf \cup {NoBuf} /\ l \in Labels
  BY Zenon, <1>1, <1>3 DEF Cached, BufTypes, ProcTypes, Labels
<1>5. ProcTypes'
  BY Zenon, <1>2, <1>3, <1>4 DEF ProcTypes, Move
<1>6. LockTypes' /\ BufTypes' /\ ContentTypes'
  BY Zenon, <1>2 DEF LockTypes, BufTypes, ContentTypes, bufvars, content
<1>7. Cached(Index(p), want[p]) = {} => \A b \in Buf : blockno[b] # want[p]
  <2>1. \A b \in Buf : ~ Moving(b)
    BY Zenon, <1>1 DEF LockOrder, Critical, Moving
  <2>2. \A b \in Buf : blockno[b] = want[p] => b \in bucket[owner[b]] /\ owner[b] = Index(p)
    BY <1>1, <2>1, NoNames DEF LinkedOnce, BufTypes, Index
  <2>3. QED BY Zenon, <2>2 DEF Cached
<1>8. Knows(p)'
  <2>1. /\ pc'[p] = l /\ cur'[p] = c /\ want'[p] = want[p] /\ own'[p] = NBUCKET
        /\ bucket' = bucket /\ blockno' = blockno
        /\ (l = "scan" => c = NoBuf)
    BY Zenon, <1>1, <1>2, <1>3 DEF Move, ProcTypes, bufvars, Knowledge, Knows
  <2>2. l = "hit" => c \in bucket[Index(p)] /\ blockno[c] = want[p] /\ c \in Buf
    BY Zenon, <1>1, <1>3 DEF Cached, BufTypes
  <2>3. l = "scan" => \A b \in Buf : blockno[b] # want[p]
    BY Zenon, <1>3, <1>7
  <2>4. QED BY Zenon, <1>1, <1>3, <2>1, <2>2, <2>3, NoNames DEF Knows, Index, Holding
<1>9. RefcntExact' /\ BufferIsMine' /\ LogSound'
  BY Zenon, <1>1, <1>2, <1>3, FreeMove DEF Holding, bufvars, content
<1>10. LockOrder'
  BY <1>1, <1>2, <1>3 DEF LockOrder, Critical, ProcTypes, Move, bufvars
<1>11. LinkedOnce' /\ OneBufferPerBlock'
  BY Zenon, <1>1, <1>2, <1>3, ListsKept DEF bufvars
<1>12. Knowledge'
  BY Zenon, <1>1, <1>3, <1>8, CriticalKnowledge DEF Critical
<1>13. VictimFree'
  <2>1. l = "scan" => c = NoBuf
    BY Zenon, <1>1, <1>3 DEF Knowledge, Knows
  <2>2. QED BY Zenon, <1>1, <1>3, <2>1, CriticalVictim DEF Critical
<1>14. QED BY Zenon, <1>5, <1>6, <1>9, <1>10, <1>11, <1>12, <1>13 DEF IInv, TypeOK

\* A round of the replacement loop keeps the lock of the bucket of the best
\* victim, and so keeps the victim free.
LEMMA ScanStep ==
  ASSUME LockTypes, BufTypes, ContentTypes, ProcTypes, LockOrder, LinkedOnce,
         OneBufferPerBlock, RefcntExact, BufferIsMine, Knowledge, VictimFree,
         LogSound, NEW p \in Proc, Scan(p)
  PROVE  IInv'
<1>1. pc[p] = "scan" /\ lock = p /\ idx[p] \in Nat /\ idx[p] < NBUCKET /\ bucket_locks[idx[p]] = NoProc
  BY DEF Scan, At, LockOrder, Critical, ProcTypes
<1>2. idx[p] \in Bucket /\ idx[p] \in 0 .. NBUCKET /\ idx[p] + 1 \in 0 .. NBUCKET
  BY <1>1, BcacheAssumption DEF Bucket
<1>3. /\ UNCHANGED <<lock, bufvars, holder, content, ticks, pc, want>>
      /\ idx' = [idx EXCEPT ![p] = idx[p] + 1]
  BY Zenon DEF Scan
<1>4. PICK c \in Buf \cup {NoBuf}, o \in 0 .. NBUCKET :
        /\ cur' = [cur EXCEPT ![p] = c] /\ own' = [own EXCEPT ![p] = o]
        /\ \/ /\ c \in bucket[idx[p]] /\ refcnt[c] = 0 /\ o = idx[p]
              /\ bucket_locks' = [j \in Bucket |-> IF j = idx[p] THEN p
                                                   ELSE IF j = own[p] THEN NoProc
                                                   ELSE bucket_locks[j]]
           \/ c = cur[p] /\ o = own[p] /\ bucket_locks' = bucket_locks
  <2>1. CASE \E b \in Oldest(idx[p]) :
               /\ cur' = [cur EXCEPT ![p] = b] /\ own' = [own EXCEPT ![p] = idx[p]]
               /\ bucket_locks' = [j \in Bucket |-> IF j = idx[p] THEN p
                                                    ELSE IF j = own[p] THEN NoProc
                                                    ELSE bucket_locks[j]]
    BY Zenon, <1>2, <2>1 DEF Oldest, BufTypes
  <2>2. CASE UNCHANGED <<cur, own, bucket_locks>>
    <3>1. cur' = [cur EXCEPT ![p] = cur[p]] /\ own' = [own EXCEPT ![p] = own[p]]
      BY Zenon, <2>2 DEF ProcTypes
    <3>2. cur[p] \in Buf \cup {NoBuf} /\ own[p] \in 0 .. NBUCKET
      BY Zenon DEF ProcTypes
    <3>3. QED BY Zenon, <2>2, <3>1, <3>2
  <2>3. QED BY Zenon, <2>1, <2>2 DEF Scan
<1>5. Move(p, "scan", c) /\ pc'[p] = "scan" /\ cur'[p] = c /\ own'[p] = o /\ want'[p] = want[p]
  BY Zenon, <1>1, <1>3, <1>4 DEF Move, ProcTypes
<1>6. ProcTypes' /\ BufTypes' /\ ContentTypes'
  BY Zenon, <1>2, <1>3, <1>4 DEF ProcTypes, BufTypes, ContentTypes, bufvars, content
<1>7. LockTypes'
  BY Zenon, <1>3, <1>4 DEF LockTypes
<1>8. LockOrder'
  BY <1>1, <1>2, <1>3, <1>4, <1>5, NoNames, BucketBound
  DEF LockOrder, Critical, ProcTypes, LockTypes, bufvars, Knowledge, Knows
<1>9. Knows(p)'
  <2>1. Knows(p) /\ c # NoBuf => bucket_locks'[o] = p /\ o \in Bucket /\ c \in bucket[o]
    BY Zenon, <1>1, <1>2, <1>4, NoNames DEF Knows, LockTypes
  <2>2. Knows(p) /\ c = NoBuf => o = NBUCKET
    BY Zenon, <1>1, <1>2, <1>4, NoNames DEF Knows, BufTypes
  <2>3. Knows(p)
    BY Zenon DEF Knowledge
  <2>4. QED BY Zenon, <1>1, <1>3, <1>5, <2>1, <2>2, <2>3
    DEF Knows, Index, Holding, bufvars
<1>10. Knowledge'
  BY Zenon, <1>1, <1>5, <1>9, CriticalKnowledge DEF Critical
<1>11. VictimFree'
  <2>1. c # NoBuf => refcnt'[c] = 0
    BY Zenon, <1>1, <1>3, <1>4 DEF VictimFree, bufvars
  <2>2. QED BY Zenon, <1>1, <1>5, <2>1, CriticalVictim DEF Critical
<1>12. RefcntExact' /\ BufferIsMine' /\ LogSound'
  BY Zenon, <1>1, <1>3, <1>5, FreeMove DEF Holding, bufvars, content
<1>13. LinkedOnce' /\ OneBufferPerBlock'
  BY Zenon, <1>1, <1>3, <1>5, ListsKept DEF bufvars
<1>14. QED BY Zenon, <1>6, <1>7, <1>8, <1>10, <1>11, <1>12, <1>13 DEF IInv, TypeOK

\* The panic of bget leaves everything as it is.
LEMMA NoBufferStep ==
  ASSUME LockTypes, BufTypes, ContentTypes, ProcTypes, LockOrder, LinkedOnce,
         OneBufferPerBlock, RefcntExact, BufferIsMine, Knowledge, VictimFree,
         LogSound, NEW p \in Proc, NoBuffer(p)
  PROVE  IInv'
<1>1. /\ pc[p] = "scan" /\ cur[p] = NoBuf /\ Move(p, "panic", cur[p])
      /\ UNCHANGED <<lock, bucket_locks, bufvars, holder, content, ticks, locals>>
  BY Zenon DEF NoBuffer, At, Goto, Move, ProcTypes, locals
<1>2. LockTypes' /\ BufTypes' /\ ContentTypes' /\ ProcTypes'
  BY Zenon, <1>1
    DEF LockTypes, BufTypes, ContentTypes, ProcTypes, Labels, Move, bufvars,
        content, locals
<1>3. Knows(p)'
  BY Zenon, <1>1 DEF ProcTypes, Move, Knowledge, Knows, Holding, locals
<1>4. RefcntExact' /\ BufferIsMine' /\ LogSound'
  BY Zenon, <1>1, FreeMove DEF Holding, bufvars, content
<1>5. LockOrder'
  BY <1>1, NoNames
    DEF Critical, bufvars, locals, LockOrder, ProcTypes, BufTypes, Move
<1>6. LinkedOnce' /\ OneBufferPerBlock'
  BY Zenon, <1>1, ListsKept DEF bufvars
<1>7. Knowledge'
  BY Zenon, <1>1, <1>3, OutsideKnowledge DEF bufvars
<1>8. VictimFree'
  BY <1>1 DEF VictimFree, ProcTypes, Move, bufvars, locals
<1>9. QED BY Zenon, <1>2, <1>4, <1>5, <1>6, <1>7, <1>8 DEF IInv, TypeOK

\* A process gets the sleeplock of the buffer it has a reference to.
LEMMA AcquireSleepStep ==
  ASSUME LockTypes, BufTypes, ContentTypes, ProcTypes, LockOrder, LinkedOnce,
         OneBufferPerBlock, RefcntExact, BufferIsMine, Knowledge, VictimFree,
         LogSound, NEW p \in Proc, AcquireSleep(p)
  PROVE  IInv'
<1>1. /\ pc[p] = "sleep" /\ Move(p, "load", cur[p])
      /\ holder[cur[p]] = NoProc /\ holder' = [holder EXCEPT ![cur[p]] = p]
      /\ UNCHANGED <<valid, lastuse_time, data, disk, ticks, idx>>
      /\ UNCHANGED <<lock, bucket_locks, bucket, blockno, owner, refcnt, logged, want, own>>
  BY Zenon DEF AcquireSleep, At, Goto, Move, ProcTypes, bufvars, content, locals
<1>2. cur[p] \in Buf /\ blockno[cur[p]] = want[p] /\ want[p] \in Block
  BY Zenon, <1>1 DEF Knowledge, Knows, BufferIsMine, Mine, Referring, Holding
<1>3. /\ LockOrder' /\ LinkedOnce' /\ OneBufferPerBlock'
      /\ RefcntExact' /\ Knowledge' /\ VictimFree' /\ LogSound'
  BY Zenon, <1>1, HoldingMove DEF Holding
<1>4. TypeOK'
  BY Zenon, <1>1, <1>2
    DEF TypeOK, LockTypes, BufTypes, ContentTypes, ProcTypes, Labels, Move
<1>5. BufferIsMine'
  BY <1>1, <1>2, NoNames
    DEF LockTypes, ProcTypes, Move, BufferIsMine, Mine, Referring, Using,
        Holding
<1>6. QED BY Zenon, <1>3, <1>4, <1>5 DEF IInv

\* bread fills a buffer that it has locked.
LEMMA LoadStep ==
  ASSUME LockTypes, BufTypes, ContentTypes, ProcTypes, LockOrder, LinkedOnce,
         OneBufferPerBlock, RefcntExact, BufferIsMine, Knowledge, VictimFree,
         LogSound, NEW p \in Proc, Load(p)
  PROVE  IInv'
<1>1. /\ pc[p] = "load" /\ Move(p, "use", cur[p])
      /\ data' = [data EXCEPT ![cur[p]] = IF valid[cur[p]] THEN @
                                        ELSE disk[blockno[cur[p]]]]
      /\ valid' = [valid EXCEPT ![cur[p]] = TRUE]
      /\ UNCHANGED <<holder, lastuse_time, disk, ticks, idx>>
      /\ UNCHANGED <<lock, bucket_locks, bucket, blockno, owner, refcnt, logged, want, own>>
  BY Zenon DEF Load, At, Goto, Move, ProcTypes, bufvars, content, locals
<1>2. cur[p] \in Buf /\ blockno[cur[p]] = want[p] /\ want[p] \in Block
  BY Zenon, <1>1 DEF Knowledge, Knows, BufferIsMine, Mine, Referring, Holding
<1>3. /\ LockOrder' /\ LinkedOnce' /\ OneBufferPerBlock'
      /\ RefcntExact' /\ Knowledge' /\ VictimFree' /\ LogSound'
  BY Zenon, <1>1, HoldingMove DEF Holding
<1>4. TypeOK'
  BY Zenon, <1>1, <1>2
    DEF TypeOK, LockTypes, BufTypes, ContentTypes, ProcTypes, Labels, Move
<1>5. BufferIsMine'
  BY Zenon, <1>1, UsingMove DEF Using
<1>6. QED BY Zenon, <1>3, <1>4, <1>5 DEF IInv

\* The user of a buffer changes its data.
LEMMA ModifyStep ==
  ASSUME LockTypes, BufTypes, ContentTypes, ProcTypes, LockOrder, LinkedOnce,
         OneBufferPerBlock, RefcntExact, BufferIsMine, Knowledge, VictimFree,
         LogSound, NEW p \in Proc, NEW v \in Value, Modify(p, v)
  PROVE  IInv'
<1>1. /\ pc[p] = "use" /\ Move(p, "dirty", cur[p])
      /\ data' = [data EXCEPT ![cur[p]] = v]
      /\ UNCHANGED <<holder, valid, lastuse_time, disk, ticks, idx>>
      /\ UNCHANGED <<lock, bucket_locks, bucket, blockno, owner, refcnt, logged, want, own>>
  BY Zenon DEF Modify, At, Goto, Move, ProcTypes, bufvars, content, locals
<1>2. cur[p] \in Buf /\ blockno[cur[p]] = want[p] /\ want[p] \in Block
  BY Zenon, <1>1 DEF Knowledge, Knows, BufferIsMine, Mine, Referring, Holding
<1>3. /\ LockOrder' /\ LinkedOnce' /\ OneBufferPerBlock'
      /\ RefcntExact' /\ Knowledge' /\ VictimFree' /\ LogSound'
  BY Zenon, <1>1, HoldingMove DEF Holding
<1>4. TypeOK'
  BY Zenon, <1>1, <1>2
    DEF TypeOK, LockTypes, BufTypes, ContentTypes, ProcTypes, Labels, Move
<1>5. BufferIsMine'
  BY Zenon, <1>1, UsingMove DEF Using
<1>6. QED BY Zenon, <1>3, <1>4, <1>5 DEF IInv

\* bwrite writes a buffer that its caller has locked.
LEMMA BwriteStep ==
  ASSUME LockTypes, BufTypes, ContentTypes, ProcTypes, LockOrder, LinkedOnce,
         OneBufferPerBlock, RefcntExact, BufferIsMine, Knowledge, VictimFree,
         LogSound, NEW p \in Proc, Bwrite(p)
  PROVE  IInv'
<1>1. /\ pc[p] = "dirty" /\ Move(p, "use", cur[p])
      /\ disk' = [disk EXCEPT ![blockno[cur[p]]] = data[cur[p]]]
      /\ UNCHANGED <<holder, valid, lastuse_time, data, ticks, idx>>
      /\ UNCHANGED <<lock, bucket_locks, bucket, blockno, owner, refcnt, logged, want, own>>
  BY Zenon DEF Bwrite, At, Goto, Move, ProcTypes, bufvars, content, locals
<1>2. cur[p] \in Buf /\ blockno[cur[p]] = want[p] /\ want[p] \in Block
  BY Zenon, <1>1 DEF Knowledge, Knows, BufferIsMine, Mine, Referring, Holding
<1>3. /\ LockOrder' /\ LinkedOnce' /\ OneBufferPerBlock'
      /\ RefcntExact' /\ Knowledge' /\ VictimFree' /\ LogSound'
  BY Zenon, <1>1, HoldingMove DEF Holding
<1>4. TypeOK'
  BY Zenon, <1>1, <1>2
    DEF TypeOK, LockTypes, BufTypes, ContentTypes, ProcTypes, Labels, Move
<1>5. BufferIsMine'
  BY Zenon, <1>1, UsingMove DEF Using
<1>6. QED BY Zenon, <1>3, <1>4, <1>5 DEF IInv

\* log_write of a block that the log has already.
LEMMA AbsorbStep ==
  ASSUME LockTypes, BufTypes, ContentTypes, ProcTypes, LockOrder, LinkedOnce,
         OneBufferPerBlock, RefcntExact, BufferIsMine, Knowledge, VictimFree,
         LogSound, NEW p \in Proc, Absorb(p)
  PROVE  IInv'
<1>1. /\ pc[p] = "dirty" /\ Move(p, "use", cur[p])
      /\ UNCHANGED <<holder, valid, lastuse_time, data, disk, ticks, idx>>
      /\ UNCHANGED <<lock, bucket_locks, bucket, blockno, owner, refcnt, logged, want, own>>
  BY Zenon DEF Absorb, At, Goto, Move, ProcTypes, bufvars, content, locals
<1>2. cur[p] \in Buf /\ blockno[cur[p]] = want[p] /\ want[p] \in Block
  BY Zenon, <1>1 DEF Knowledge, Knows, BufferIsMine, Mine, Referring, Holding
<1>3. /\ LockOrder' /\ LinkedOnce' /\ OneBufferPerBlock'
      /\ RefcntExact' /\ Knowledge' /\ VictimFree' /\ LogSound'
  BY Zenon, <1>1, HoldingMove DEF Holding
<1>4. TypeOK'
  BY Zenon, <1>1, <1>2
    DEF TypeOK, LockTypes, BufTypes, ContentTypes, ProcTypes, Labels, Move
<1>5. BufferIsMine'
  BY Zenon, <1>1, UsingMove DEF Using
<1>6. QED BY Zenon, <1>3, <1>4, <1>5 DEF IInv

\* brelse gives up the sleeplock and keeps its reference.
LEMMA BrelseStep ==
  ASSUME LockTypes, BufTypes, ContentTypes, ProcTypes, LockOrder, LinkedOnce,
         OneBufferPerBlock, RefcntExact, BufferIsMine, Knowledge, VictimFree,
         LogSound, NEW p \in Proc, Brelse(p)
  PROVE  IInv'
<1>1. /\ pc[p] = "use" /\ Move(p, "rel", cur[p])
      /\ holder' = [holder EXCEPT ![cur[p]] = NoProc]
      /\ UNCHANGED <<valid, lastuse_time, data, disk, ticks, idx>>
      /\ UNCHANGED <<lock, bucket_locks, bucket, blockno, owner, refcnt, logged, want, own>>
  BY Zenon DEF Brelse, At, Goto, Move, ProcTypes, bufvars, content, locals
<1>2. cur[p] \in Buf /\ blockno[cur[p]] = want[p] /\ want[p] \in Block
  BY Zenon, <1>1 DEF Knowledge, Knows, BufferIsMine, Mine, Referring, Holding
<1>3. /\ LockOrder' /\ LinkedOnce' /\ OneBufferPerBlock'
      /\ RefcntExact' /\ Knowledge' /\ VictimFree' /\ LogSound'
  BY Zenon, <1>1, HoldingMove DEF Holding
<1>4. TypeOK'
  BY Zenon, <1>1, <1>2
    DEF TypeOK, LockTypes, BufTypes, ContentTypes, ProcTypes, Labels, Move
<1>5. BufferIsMine'
  BY <1>1, <1>2
    DEF LockTypes, ProcTypes, Move, BufferIsMine, Mine, Referring, Using,
        Holding
<1>6. QED BY Zenon, <1>3, <1>4, <1>5 DEF IInv

\* brelse reads the block number of a buffer it has only a reference to.
LEMMA BrelseIndexStep ==
  ASSUME LockTypes, BufTypes, ContentTypes, ProcTypes, LockOrder, LinkedOnce,
         OneBufferPerBlock, RefcntExact, BufferIsMine, Knowledge, VictimFree,
         LogSound, NEW p \in Proc, BrelseIndex(p)
  PROVE  IInv'
<1>1. /\ pc[p] = "rel" /\ Move(p, "dec", cur[p])
      /\ idx' = [idx EXCEPT ![p] = BUCKET_HASH(blockno[cur[p]])]
      /\ UNCHANGED <<holder, valid, lastuse_time, data, disk, ticks>>
      /\ UNCHANGED <<lock, bucket_locks, bucket, blockno, owner, refcnt, logged, want, own>>
  BY Zenon DEF BrelseIndex, At, Goto, Move, ProcTypes, bufvars, content, locals
<1>2. cur[p] \in Buf /\ blockno[cur[p]] = want[p] /\ want[p] \in Block
  BY Zenon, <1>1 DEF Knowledge, Knows, BufferIsMine, Mine, Referring, Holding
<1>3. /\ LockOrder' /\ LinkedOnce' /\ OneBufferPerBlock'
      /\ RefcntExact' /\ Knowledge' /\ VictimFree' /\ LogSound'
  BY Zenon, <1>1, HoldingMove DEF Holding
<1>4. TypeOK'
  BY Zenon, <1>1, <1>2, HashInBucket, BucketBound
    DEF TypeOK, LockTypes, BufTypes, ContentTypes, ProcTypes, Labels, Move
<1>5. BufferIsMine'
  BY <1>1, <1>2
    DEF ProcTypes, Move, BufferIsMine, Mine, Referring, Using, Holding
<1>6. QED BY Zenon, <1>3, <1>4, <1>5 DEF IInv
-----------------------------------------------------------------------------
(* Actions that change a reference count or a list. *)

\* A hit of the first search counts a reference under the bucket lock; the
\* buffer found is linked, so it is nobody's victim.
LEMMA LookHitStep ==
  ASSUME LockTypes, BufTypes, ContentTypes, ProcTypes, LockOrder, LinkedOnce,
         OneBufferPerBlock, RefcntExact, BufferIsMine, Knowledge, VictimFree,
         LogSound, NEW p \in Proc, LookHit(p)
  PROVE  IInv'
<1>1. /\ pc[p] = "look" /\ want[p] \in Block /\ Index(p) \in Bucket
      /\ bucket_locks[Index(p)] = NoProc /\ cur[p] = NoBuf
      /\ UNCHANGED <<lock, bucket_locks, bucket, blockno, valid, lastuse_time,
                     owner, holder, data, disk, logged, ticks, want, idx, own>>
  BY Zenon, HashInBucket DEF LookHit, At, Index, Knowledge, Knows, content
<1>2. PICK b \in Buf : /\ b \in bucket[Index(p)] /\ blockno[b] = want[p]
                       /\ refcnt' = [refcnt EXCEPT ![b] = @ + 1]
                       /\ Move(p, "sleep", b)
  BY Zenon, <1>1 DEF LookHit, Cached, Move, BufTypes, ProcTypes, Goto
<1>3. TypeOK'
  BY <1>1, <1>2
    DEF TypeOK, LockTypes, BufTypes, ContentTypes, ProcTypes, Labels, Move
<1>4. LockOrder'
  BY Zenon, <1>1, <1>2, OutsideLocks DEF Critical
<1>5. LinkedOnce' /\ OneBufferPerBlock'
  BY Zenon, <1>1, <1>2, ListsKept
<1>6. Knows(p)'
  BY Zenon, <1>1, <1>2 DEF Knowledge, Knows, Move, ProcTypes, Holding
<1>7. Knowledge'
  BY Zenon, <1>1, <1>2, <1>6, OutsideKnowledge
<1>8. RefcntExact'
  <2>1. p \notin Refs(b) /\ Refs(b)' = Refs(b) \cup {p}
    BY Zenon, <1>1, <1>2 DEF ProcTypes, Move, Refs, Referring, Holding
  <2>2. \A c \in Buf : (c # b => Refs(c)' = Refs(c)) /\ (Pinned(c)' <=> Pinned(c))
    BY Zenon, <1>1, <1>2, NoNames
      DEF ProcTypes, Move, Refs, Referring, Pinned, Holding
  <2>3. QED BY Zenon, <1>2, <2>1, <2>2, CountUser
<1>9. VictimFree'
  <2>1. \A q \in Proc : pc[q] \in {"scan", "link"} /\ cur[q] # NoBuf => cur[q] # b
    BY <1>1, <1>2, NoNames DEF Knowledge, Knows, LinkedOnce, Moving, BufTypes
  <2>2. QED BY <1>1, <1>2, <2>1 DEF VictimFree, ProcTypes, BufTypes, Move
<1>10. BufferIsMine' /\ LogSound'
  BY Zenon, <1>1, <1>2
    DEF ProcTypes, Move, BufferIsMine, Mine, Referring, Using, Holding,
        LogSound
<1>11. QED BY Zenon, <1>3, <1>4, <1>5, <1>7, <1>8, <1>9, <1>10 DEF IInv

\* A hit of the second search counts a reference.
LEMMA HitStep ==
  ASSUME LockTypes, BufTypes, ContentTypes, ProcTypes, LockOrder, LinkedOnce,
         OneBufferPerBlock, RefcntExact, BufferIsMine, Knowledge, VictimFree,
         LogSound, NEW p \in Proc, Hit(p)
  PROVE  IInv'
<1>1. /\ pc[p] = "hit" /\ want[p] \in Block /\ lock = p /\ cur[p] \in Buf
      /\ blockno[cur[p]] = want[p] /\ own[p] = NBUCKET
  BY Zenon DEF Hit, At, Knowledge, Knows, LockOrder, Critical
<1>2. /\ Move(p, "sleep", cur[p]) /\ refcnt' = [refcnt EXCEPT ![cur[p]] = @ + 1]
      /\ lock' = NoProc
      /\ UNCHANGED <<bucket_locks, bucket, blockno, valid, lastuse_time,
                     owner, holder, data, disk, logged, ticks, want, cur, idx, own>>
  BY Zenon DEF Hit, Move, ProcTypes, Goto, content, locals
<1>3. TypeOK'
  BY <1>1, <1>2
    DEF TypeOK, LockTypes, BufTypes, ContentTypes, ProcTypes, Labels, Move
<1>4. LockOrder'
  BY <1>1, <1>2, NoNames DEF Critical, LockOrder, ProcTypes, Move
<1>5. LinkedOnce' /\ OneBufferPerBlock'
  BY Zenon, <1>1, <1>2, ListsKept
<1>6. Knows(p)'
  BY Zenon, <1>1, <1>2 DEF Knows, Move, ProcTypes, Holding
<1>7. Knowledge' /\ VictimFree'
  BY Zenon, <1>1, <1>2, <1>6, CriticalKnowledge, CriticalVictim DEF Critical
<1>8. RefcntExact'
  <2>1. p \notin Refs(cur[p]) /\ Refs(cur[p])' = Refs(cur[p]) \cup {p}
    BY <1>1, <1>2 DEF ProcTypes, Move, Refs, Referring, Holding
  <2>2. \A c \in Buf : (c # cur[p] => Refs(c)' = Refs(c)) /\ (Pinned(c)' <=> Pinned(c))
    BY <1>1, <1>2 DEF ProcTypes, Move, Refs, Referring, Pinned, Holding
  <2>3. QED BY Zenon, <1>1, <1>2, <2>1, <2>2, CountUser
<1>9. BufferIsMine' /\ LogSound'
  BY <1>1, <1>2
    DEF ProcTypes, Move, BufferIsMine, Mine, Referring, Using, Holding,
        LogSound
<1>10. QED BY Zenon, <1>3, <1>4, <1>5, <1>7, <1>8, <1>9 DEF IInv

\* The victim is free, so assigning it to another block takes it from nobody.
LEMMA ReuseHereStep ==
  ASSUME LockTypes, BufTypes, ContentTypes, ProcTypes, LockOrder, LinkedOnce,
         OneBufferPerBlock, RefcntExact, BufferIsMine, Knowledge, VictimFree,
         LogSound, NEW p \in Proc, ReuseHere(p)
  PROVE  IInv'
<1>1. /\ pc[p] = "scan" /\ want[p] \in Block /\ lock = p /\ own[p] = Index(p)
      /\ \A c \in Buf : blockno[c] # want[p]
      /\ own[p] \in Bucket /\ bucket_locks[own[p]] = p /\ idx[p] = NBUCKET
  BY Zenon DEF ReuseHere, At, Knowledge, Knows, LockOrder, Critical
<1>2. PICK b \in Buf :
        /\ b = cur[p] /\ b \in bucket[own[p]] /\ refcnt[b] = 0
        /\ Move(p, "sleep", b)
        /\ blockno' = [blockno EXCEPT ![b] = want[p]]
        /\ refcnt' = [refcnt EXCEPT ![b] = 1]
        /\ valid' = [valid EXCEPT ![b] = FALSE]
        /\ owner' = [owner EXCEPT ![b] = Index(p)]
        /\ bucket_locks' = [bucket_locks EXCEPT ![own[p]] = NoProc]
        /\ lock' = NoProc
        /\ idx' = [idx EXCEPT ![p] = 0] /\ own' = [own EXCEPT ![p] = NBUCKET]
        /\ UNCHANGED <<bucket, lastuse_time, holder, data, disk, logged, ticks, want, cur>>
  <2>1. cur[p] \in Buf /\ cur[p] \in bucket[own[p]] /\ refcnt[cur[p]] = 0
    BY Zenon, <1>1 DEF ReuseHere, Knowledge, Knows, VictimFree, ProcTypes
  <2>2. QED BY Zenon, <2>1
    DEF ReuseHere, Assign, LeaveLoop, Goto, Move, ProcTypes, content
<1>3. TypeOK'
  BY <1>1, <1>2, BucketBound
    DEF TypeOK, LockTypes, BufTypes, ContentTypes, ProcTypes, Labels, Move
<1>4. LockOrder'
  BY <1>1, <1>2, NoNames DEF Critical, LockOrder, ProcTypes, LockTypes, Move
<1>5. \A c \in Buf : ~ Moving(c) /\ ~ Moving(c)'
  BY Zenon, <1>1, <1>2 DEF Moving, ProcTypes, Move, LockOrder, Critical
<1>6. owner[b] = Index(p) /\ owner' = owner
  BY <1>1, <1>2 DEF LinkedOnce, BufTypes
<1>7. LinkedOnce'
  BY <1>1, <1>2, <1>5, <1>6 DEF LinkedOnce, BufTypes, Index
<1>8. OneBufferPerBlock'
  BY Zenon, <1>1, <1>2 DEF OneBufferPerBlock, BufTypes
<1>9. Knows(p)'
  BY Zenon, <1>1, <1>2 DEF Knows, Move, ProcTypes, Holding
<1>10. Knowledge' /\ VictimFree'
  BY Zenon, <1>1, <1>2, <1>9, CriticalKnowledge, CriticalVictim DEF Critical
<1>11. RefcntExact'
  <2>1. Refs(b) = {} /\ ~ Pinned(b)
    BY Zenon, <1>2, FreeIsUnused
  <2>2. Refs(b)' = {p}
    BY <1>2, <2>1 DEF ProcTypes, Move, Refs, Referring, Holding
  <2>3. ~ Pinned(b)'
    BY <1>1, <1>2, <2>1
      DEF ProcTypes, BufTypes, Move, Pinned, LogSound, Refs, Referring, Holding
  <2>4. \A c \in Buf : c # b => Refs(c)' = Refs(c) /\ (Pinned(c)' <=> Pinned(c))
    BY <1>1, <1>2
      DEF ProcTypes, BufTypes, Move, Refs, Referring, Pinned, Holding
  <2>5. QED BY Zenon, <1>2, <2>2, <2>3, <2>4, CountFirst
<1>12. BufferIsMine' /\ LogSound'
  <2>1. \A q \in Proc : ~ Referring(q, b)
    BY Zenon, <1>2, FreeIsUnused DEF Refs
  <2>2. b \in Buf /\ want[p] \in Block /\ ~ Pinned(b)
    BY Zenon, <1>1, <1>2, FreeIsUnused
  <2>3. ASSUME NEW q \in Proc, q # p PROVE Mine(q)'
    <3>1. pc'[q] = pc[q] /\ cur'[q] = cur[q] /\ want'[q] = want[q] /\ idx'[q] = idx[q]
      BY Zenon, <1>2, <2>3 DEF ProcTypes, Move
    <3>2. pc[q] \in Holding => cur[q] \in Buf /\ cur[q] # b
      BY Zenon, <2>1, <2>3 DEF Knowledge, Knows, Referring
    <3>3. Mine(q)
      BY Zenon DEF BufferIsMine
    <3>4. QED BY Zenon, <1>2, <2>2, <3>1, <3>2, <3>3
      DEF BufTypes, Mine, Referring, Using, Holding
  <2>4. Mine(p)'
    BY Zenon, <1>2, <2>2
      DEF ProcTypes, BufTypes, Move, Mine, Referring, Using, Holding
  <2>5. BufferIsMine'
    BY Zenon, <2>3, <2>4 DEF BufferIsMine
  <2>6. LogSound'
    BY <1>2, <2>2 DEF ProcTypes, BufTypes, Move, LogSound, Pinned
  <2>7. QED BY Zenon, <2>5, <2>6
<1>13. QED BY Zenon, <1>3, <1>4, <1>7, <1>8, <1>10, <1>11, <1>12 DEF IInv

\* The moved victim is still free when it is linked and assigned.
LEMMA LinkStep ==
  ASSUME LockTypes, BufTypes, ContentTypes, ProcTypes, LockOrder, LinkedOnce,
         OneBufferPerBlock, RefcntExact, BufferIsMine, Knowledge, VictimFree,
         LogSound, NEW p \in Proc, Link(p)
  PROVE  IInv'
<1>1. /\ pc[p] = "link" /\ want[p] \in Block /\ lock = p
      /\ \A c \in Buf : blockno[c] # want[p]
      /\ own[p] = NBUCKET /\ Index(p) \in Bucket
  BY Zenon, HashInBucket DEF Link, At, Knowledge, Knows, LockOrder, Critical, Index
<1>2. PICK b \in Buf :
        /\ b = cur[p] /\ refcnt[b] = 0
        /\ Move(p, "sleep", b)
        /\ bucket' = [bucket EXCEPT ![Index(p)] = @ \cup {b}]
        /\ blockno' = [blockno EXCEPT ![b] = want[p]]
        /\ refcnt' = [refcnt EXCEPT ![b] = 1]
        /\ valid' = [valid EXCEPT ![b] = FALSE]
        /\ owner' = [owner EXCEPT ![b] = Index(p)]
        /\ lock' = NoProc
        /\ UNCHANGED <<bucket_locks, lastuse_time, holder, data, disk, logged, ticks,
                       want, cur, idx, own>>
  <2>1. cur[p] \in Buf /\ refcnt[cur[p]] = 0
    BY Zenon, <1>1, NoNames DEF Knowledge, Knows, VictimFree
  <2>2. QED BY Zenon, <2>1
    DEF Link, Assign, Goto, Move, ProcTypes, content, locals
<1>3. TypeOK'
  BY <1>1, <1>2, BucketBound
    DEF TypeOK, LockTypes, BufTypes, ContentTypes, ProcTypes, Labels, Move
<1>4. LockOrder'
  BY <1>1, <1>2, NoNames DEF Critical, LockOrder, ProcTypes, LockTypes, Move
<1>5. \A c \in Buf : (Moving(c) <=> c = b) /\ ~ Moving(c)'
  BY Zenon, <1>1, <1>2 DEF Moving, ProcTypes, Move, LockOrder, Critical
<1>6. LinkedOnce'
  BY Zenon, <1>1, <1>2, <1>5 DEF LinkedOnce, BufTypes, Index
<1>8. OneBufferPerBlock'
  BY Zenon, <1>1, <1>2 DEF OneBufferPerBlock, BufTypes
<1>9. Knows(p)'
  BY Zenon, <1>1, <1>2 DEF Knows, Move, ProcTypes, Holding
<1>10. Knowledge' /\ VictimFree'
  BY Zenon, <1>1, <1>2, <1>9, CriticalKnowledge, CriticalVictim DEF Critical
<1>11. RefcntExact'
  <2>1. Refs(b) = {} /\ ~ Pinned(b)
    BY Zenon, <1>2, FreeIsUnused
  <2>2. Refs(b)' = {p}
    BY <1>2, <2>1 DEF ProcTypes, Move, Refs, Referring, Holding
  <2>3. ~ Pinned(b)'
    BY <1>1, <1>2, <2>1
      DEF ProcTypes, BufTypes, Move, Pinned, LogSound, Refs, Referring, Holding
  <2>4. \A c \in Buf : c # b => Refs(c)' = Refs(c) /\ (Pinned(c)' <=> Pinned(c))
    BY <1>1, <1>2
      DEF ProcTypes, BufTypes, Move, Refs, Referring, Pinned, Holding
  <2>5. QED BY Zenon, <1>2, <2>2, <2>3, <2>4, CountFirst
<1>12. BufferIsMine' /\ LogSound'
  <2>1. \A q \in Proc : ~ Referring(q, b)
    BY Zenon, <1>2, FreeIsUnused DEF Refs
  <2>2. b \in Buf /\ want[p] \in Block /\ ~ Pinned(b)
    BY Zenon, <1>1, <1>2, FreeIsUnused
  <2>3. ASSUME NEW q \in Proc, q # p PROVE Mine(q)'
    <3>1. pc'[q] = pc[q] /\ cur'[q] = cur[q] /\ want'[q] = want[q] /\ idx'[q] = idx[q]
      BY Zenon, <1>2, <2>3 DEF ProcTypes, Move
    <3>2. pc[q] \in Holding => cur[q] \in Buf /\ cur[q] # b
      BY Zenon, <2>1, <2>3 DEF Knowledge, Knows, Referring
    <3>3. Mine(q)
      BY Zenon DEF BufferIsMine
    <3>4. QED BY Zenon, <1>2, <2>2, <3>1, <3>2, <3>3
      DEF BufTypes, Mine, Referring, Using, Holding
  <2>4. Mine(p)'
    BY Zenon, <1>2, <2>2
      DEF ProcTypes, BufTypes, Move, Mine, Referring, Using, Holding
  <2>5. BufferIsMine'
    BY Zenon, <2>3, <2>4 DEF BufferIsMine
  <2>6. LogSound'
    BY <1>2, <2>2 DEF ProcTypes, BufTypes, Move, LogSound, Pinned
  <2>7. QED BY Zenon, <2>5, <2>6
<1>13. QED BY Zenon, <1>3, <1>4, <1>6, <1>8, <1>10, <1>11, <1>12 DEF IInv

\* The victim is unlinked under the lock of its bucket.
LEMMA UnlinkStep ==
  ASSUME LockTypes, BufTypes, ContentTypes, ProcTypes, LockOrder, LinkedOnce,
         OneBufferPerBlock, RefcntExact, BufferIsMine, Knowledge, VictimFree,
         LogSound, NEW p \in Proc, Unlink(p)
  PROVE  IInv'
<1>1. /\ pc[p] = "scan" /\ want[p] \in Block /\ lock = p
      /\ own[p] \in Bucket /\ bucket_locks[own[p]] = p /\ idx[p] = NBUCKET
      /\ \A c \in Buf : blockno[c] # want[p]
  BY Zenon DEF Unlink, At, Knowledge, Knows, LockOrder, Critical
<1>2. PICK b \in Buf :
        /\ b = cur[p] /\ b \in bucket[own[p]] /\ refcnt[b] = 0
        /\ Move(p, "link", b)
        /\ bucket' = [bucket EXCEPT ![own[p]] = @ \ {b}]
        /\ bucket_locks' = [bucket_locks EXCEPT ![own[p]] = NoProc]
        /\ idx' = [idx EXCEPT ![p] = 0] /\ own' = [own EXCEPT ![p] = NBUCKET]
        /\ UNCHANGED <<lock, blockno, refcnt, valid, owner, lastuse_time, holder, data, disk,
                       logged, ticks, want, cur>>
  <2>1. cur[p] \in Buf /\ cur[p] \in bucket[own[p]] /\ refcnt[cur[p]] = 0
    BY Zenon, <1>1 DEF Unlink, Knowledge, Knows, VictimFree, ProcTypes
  <2>2. QED BY Zenon, <2>1
    DEF Unlink, LeaveLoop, Goto, Move, ProcTypes, content
<1>3. TypeOK'
  <2>1. LockTypes' /\ BufTypes'
    BY Zenon, <1>1, <1>2 DEF LockTypes, BufTypes
  <2>2. ContentTypes' /\ ProcTypes'
    BY Zenon, <1>1, <1>2, BucketBound DEF ContentTypes, ProcTypes, Labels, Move
  <2>3. QED BY Zenon, <2>1, <2>2 DEF TypeOK
<1>4. LockOrder'
  BY <1>1, <1>2, NoNames DEF Critical, LockOrder, ProcTypes, LockTypes, Move
<1>5. \A c \in Buf : ~ Moving(c) /\ (Moving(c)' <=> c = b)
  BY Zenon, <1>1, <1>2 DEF Moving, ProcTypes, Move, LockOrder, Critical
<1>6. LinkedOnce'
  BY <1>1, <1>2, <1>5 DEF LinkedOnce, BufTypes
<1>7. OneBufferPerBlock'
  BY Zenon, <1>2 DEF OneBufferPerBlock
<1>8. Knows(p)'
  BY Zenon, <1>1, <1>2 DEF Knows, Move, ProcTypes, Holding
<1>9. Knowledge' /\ VictimFree'
  BY Zenon, <1>1, <1>2, <1>8, CriticalKnowledge, CriticalVictim DEF Critical
<1>10. RefcntExact' /\ BufferIsMine' /\ LogSound'
  BY Zenon, <1>1, <1>2, FreeMove DEF Holding
<1>11. QED BY Zenon, <1>3, <1>4, <1>6, <1>7, <1>9, <1>10 DEF IInv

\* bpin counts a reference of the log.
LEMMA BpinStep ==
  ASSUME LockTypes, BufTypes, ContentTypes, ProcTypes, LockOrder, LinkedOnce,
         OneBufferPerBlock, RefcntExact, BufferIsMine, Knowledge, VictimFree,
         LogSound, NEW p \in Proc, Bpin(p)
  PROVE  IInv'
<1>1. /\ pc[p] = "dirty" /\ Move(p, "use", cur[p])
      /\ blockno[cur[p]] \notin logged
      /\ refcnt' = [refcnt EXCEPT ![cur[p]] = @ + 1]
      /\ logged' = logged \cup {blockno[cur[p]]}
      /\ UNCHANGED <<lock, bucket_locks, bucket, blockno, valid, lastuse_time,
                     owner, holder, data, disk, ticks, want, cur, idx, own>>
  BY Zenon DEF Bpin, At, Goto, Move, ProcTypes, bufvars, content, locals
<1>2. /\ cur[p] \in Buf /\ blockno[cur[p]] = want[p] /\ want[p] \in Block
      /\ holder[cur[p]] = p /\ Refs(cur[p]) # {}
  <2>1. cur[p] \in Buf /\ want[p] \in Block /\ Mine(p)
    BY Zenon, <1>1 DEF Knowledge, Knows, Holding, BufferIsMine
  <2>2. QED BY Zenon, <1>1, <2>1 DEF Mine, Referring, Using, Holding, Refs
<1>3. \A q \in Proc : q # p /\ cur[q] = cur[p] => ~ Using(q)
  BY Zenon, <1>2 DEF BufferIsMine, Mine
<1>4. TypeOK'
  BY <1>1, <1>2
    DEF TypeOK, LockTypes, BufTypes, ContentTypes, ProcTypes, Labels, Move
<1>5. LockOrder'
  BY Zenon, <1>1, OutsideLocks DEF Critical
<1>6. LinkedOnce' /\ OneBufferPerBlock'
  BY Zenon, <1>1, ListsKept
<1>7. Knows(p)'
  BY Zenon, <1>1, <1>2 DEF ProcTypes, Move, Knowledge, Knows, Holding
<1>8. Knowledge'
  BY Zenon, <1>1, <1>7, OutsideKnowledge
<1>9. RefcntExact'
  <2>1. ~ Pinned(cur[p]) /\ Pinned(cur[p])'
    BY Zenon, <1>1, <1>2, <1>3 DEF Pinned, Using
  <2>2. \A c \in Buf : Refs(c)' = Refs(c)
    BY Zenon, <1>1 DEF ProcTypes, Move, Refs, Referring, Holding
  <2>3. \A c \in Buf : c # cur[p] => (Pinned(c)' <=> Pinned(c))
    BY <1>1, <1>2, NoNames DEF ProcTypes, Move, Pinned, OneBufferPerBlock
  <2>4. QED BY Zenon, <1>1, <1>2, <2>1, <2>2, <2>3, CountPin
<1>10. VictimFree'
  <2>1. refcnt[cur[p]] >= 1
    BY Zenon, <1>2, FreeIsUnused
  <2>2. refcnt' = [refcnt EXCEPT ![cur[p]] = @ + 1] /\ cur[p] \in Buf
    BY Zenon, <1>1, <1>2
  <2>3. \A b \in Buf : refcnt[b] = 0 => refcnt'[b] = 0
    BY <2>1, <2>2 DEF BufTypes
  <2>4. QED BY Zenon, <1>1, <2>3, OutsideVictim DEF Critical
<1>11. BufferIsMine'
  BY Zenon, <1>1, UsingMove DEF Using
<1>12. LogSound'
  <2>1. ASSUME NEW q \in Proc, pc[q] = "unpin" PROVE want[q] # want[p]
    <3>1. cur[q] \in Buf /\ blockno[cur[q]] = want[q] /\ Using(q) /\ q # p
      BY Zenon, <1>1, <2>1
        DEF Knowledge, Knows, BufferIsMine, Mine, Referring, Using, Holding
    <3>2. cur[q] # cur[p]
      BY Zenon, <1>3, <3>1
    <3>3. QED BY Zenon, <1>2, <3>1, <3>2, NoNames DEF OneBufferPerBlock
  <2>2. QED BY Zenon, <1>1, <1>2, <2>1 DEF ProcTypes, Move, LogSound
<1>13. QED BY Zenon, <1>4, <1>5, <1>6, <1>8, <1>9, <1>10, <1>11, <1>12 DEF IInv

\* The commit forgets the block and keeps the pin until bunpin.
LEMMA InstallStep ==
  ASSUME LockTypes, BufTypes, ContentTypes, ProcTypes, LockOrder, LinkedOnce,
         OneBufferPerBlock, RefcntExact, BufferIsMine, Knowledge, VictimFree,
         LogSound, NEW p \in Proc, Install(p)
  PROVE  IInv'
<1>1. /\ pc[p] = "use" /\ Move(p, "unpin", cur[p])
      /\ blockno[cur[p]] \in logged
      /\ disk' = [disk EXCEPT ![blockno[cur[p]]] = data[cur[p]]]
      /\ logged' = logged \ {blockno[cur[p]]}
      /\ UNCHANGED <<lock, bucket_locks, bucket, blockno, refcnt, valid, lastuse_time,
                     owner, holder, data, ticks, want, cur, idx, own>>
  BY Zenon DEF Install, At, Goto, Move, ProcTypes, bufvars, content, locals
<1>2. /\ cur[p] \in Buf /\ blockno[cur[p]] = want[p] /\ want[p] \in Block
      /\ holder[cur[p]] = p /\ Refs(cur[p]) # {}
  <2>1. cur[p] \in Buf /\ want[p] \in Block /\ Mine(p)
    BY Zenon, <1>1 DEF Knowledge, Knows, Holding, BufferIsMine
  <2>2. QED BY Zenon, <1>1, <2>1 DEF Mine, Referring, Using, Holding, Refs
<1>3. \A q \in Proc : q # p /\ cur[q] = cur[p] => ~ Using(q)
  BY Zenon, <1>2 DEF BufferIsMine, Mine
<1>4. TypeOK'
  BY Zenon, <1>1, <1>2
    DEF TypeOK, LockTypes, BufTypes, ContentTypes, ProcTypes, Labels, Move
<1>5. LockOrder'
  BY Zenon, <1>1, OutsideLocks DEF Critical
<1>6. LinkedOnce' /\ OneBufferPerBlock'
  BY Zenon, <1>1, ListsKept
<1>7. Knows(p)'
  BY Zenon, <1>1, <1>2 DEF ProcTypes, Move, Knowledge, Knows, Holding
<1>8. Knowledge'
  BY Zenon, <1>1, <1>7, OutsideKnowledge
<1>9. RefcntExact'
  <2>1. \A c \in Buf : Refs(c)' = Refs(c)
    BY Zenon, <1>1 DEF ProcTypes, Move, Refs, Referring, Holding
  <2>2. Pinned(cur[p]) /\ Pinned(cur[p])'
    BY Zenon, <1>1, <1>2 DEF ProcTypes, Move, Pinned
  <2>3. \A c \in Buf : c # cur[p] => (Pinned(c)' <=> Pinned(c))
    BY <1>1, <1>2, NoNames DEF ProcTypes, Move, Pinned, OneBufferPerBlock
  <2>4. \A c \in Buf : c = cur[p] => (Pinned(c)' <=> Pinned(c))
    BY Zenon, <1>1, <2>2 DEF Pinned
  <2>5. QED BY Zenon, <1>1, <2>1, <2>3, <2>4, CountKept
<1>10. VictimFree'
  <2>1. refcnt[cur[p]] >= 1
    BY Zenon, <1>2, FreeIsUnused
  <2>2. \A b \in Buf : refcnt[b] = 0 => refcnt'[b] = 0
    BY Zenon, <1>1, <1>2, <2>1 DEF BufTypes
  <2>3. QED BY Zenon, <1>1, <2>2, OutsideVictim DEF Critical
<1>11. BufferIsMine'
  BY Zenon, <1>1, UsingMove DEF Using
<1>12. LogSound'
  BY <1>1, <1>2 DEF ProcTypes, Move, LogSound
<1>13. QED BY Zenon, <1>4, <1>5, <1>6, <1>8, <1>9, <1>10, <1>11, <1>12 DEF IInv

\* bunpin drops the reference of the log.
LEMMA BunpinStep ==
  ASSUME LockTypes, BufTypes, ContentTypes, ProcTypes, LockOrder, LinkedOnce,
         OneBufferPerBlock, RefcntExact, BufferIsMine, Knowledge, VictimFree,
         LogSound, NEW p \in Proc, Bunpin(p)
  PROVE  IInv'
<1>1. /\ pc[p] = "unpin" /\ Move(p, "use", cur[p])
      /\ refcnt' = [refcnt EXCEPT ![cur[p]] = @ - 1]
      /\ UNCHANGED <<lock, bucket_locks, bucket, blockno, valid, lastuse_time,
                     owner, holder, data, disk, logged, ticks, want, cur, idx, own>>
  BY Zenon DEF Bunpin, At, Goto, Move, ProcTypes, bufvars, content, locals
<1>2. /\ cur[p] \in Buf /\ blockno[cur[p]] = want[p] /\ want[p] \in Block
      /\ holder[cur[p]] = p /\ Refs(cur[p]) # {}
  <2>1. cur[p] \in Buf /\ want[p] \in Block /\ Mine(p)
    BY Zenon, <1>1 DEF Knowledge, Knows, Holding, BufferIsMine
  <2>2. QED BY Zenon, <1>1, <2>1 DEF Mine, Referring, Using, Holding, Refs
<1>3. \A q \in Proc : q # p /\ cur[q] = cur[p] => ~ Using(q)
  BY Zenon, <1>2 DEF BufferIsMine, Mine
<1>4. TypeOK'
  <2>1. refcnt[cur[p]] >= 1
    BY Zenon, <1>2, FreeIsUnused
  <2>2. QED BY <1>1, <1>2, <2>1
    DEF TypeOK, LockTypes, BufTypes, ContentTypes, ProcTypes, Labels, Move
<1>5. LockOrder'
  BY Zenon, <1>1, OutsideLocks DEF Critical
<1>6. LinkedOnce' /\ OneBufferPerBlock'
  BY Zenon, <1>1, ListsKept
<1>7. Knows(p)'
  BY Zenon, <1>1, <1>2 DEF ProcTypes, Move, Knowledge, Knows, Holding
<1>8. Knowledge'
  BY Zenon, <1>1, <1>7, OutsideKnowledge
<1>9. RefcntExact'
  <2>1. Pinned(cur[p]) /\ ~ Pinned(cur[p])'
    BY Zenon, <1>1, <1>2, <1>3 DEF ProcTypes, Move, Pinned, Using, LogSound
  <2>2. \A c \in Buf : Refs(c)' = Refs(c)
    BY Zenon, <1>1 DEF ProcTypes, Move, Refs, Referring, Holding
  <2>3. \A c \in Buf : c # cur[p] => (Pinned(c)' <=> Pinned(c))
    BY Zenon, <1>1, <1>2 DEF ProcTypes, Move, Pinned
  <2>4. QED BY Zenon, <1>1, <1>2, <2>1, <2>2, <2>3, CountPin
<1>10. VictimFree'
  <2>1. refcnt[cur[p]] >= 1
    BY Zenon, <1>2, FreeIsUnused
  <2>2. \A b \in Buf : refcnt[b] = 0 => refcnt'[b] = 0
    BY <1>1, <1>2, <2>1 DEF BufTypes
  <2>3. QED BY Zenon, <1>1, <2>2, OutsideVictim DEF Critical
<1>11. BufferIsMine'
  BY Zenon, <1>1, UsingMove DEF Using
<1>12. LogSound'
  BY Zenon, <1>1, <1>2 DEF ProcTypes, Move, LogSound
<1>13. QED BY Zenon, <1>4, <1>5, <1>6, <1>8, <1>9, <1>10, <1>11, <1>12 DEF IInv

\* brelse drops its reference under the lock of the bucket it computed
\* before, which is still the one of the buffer.
LEMMA BrelseDecStep ==
  ASSUME LockTypes, BufTypes, ContentTypes, ProcTypes, LockOrder, LinkedOnce,
         OneBufferPerBlock, RefcntExact, BufferIsMine, Knowledge, VictimFree,
         LogSound, NEW p \in Proc, BrelseDec(p)
  PROVE  IInv'
<1>1. pc[p] = "dec" /\ own[p] = NBUCKET
  BY Zenon DEF BrelseDec, At, Knowledge, Knows
<1>2. PICK b \in Buf :
        /\ b = cur[p] /\ Refs(b) # {}
        /\ Move(p, "idle", NoBuf)
        /\ refcnt' = [refcnt EXCEPT ![b] = @ - 1]
        /\ lastuse_time' = [lastuse_time EXCEPT ![b] = IF refcnt'[b] = 0 THEN ticks
                                                       ELSE @]
        /\ want' = [want EXCEPT ![p] = NoBlock]
        /\ idx' = [idx EXCEPT ![p] = 0]
        /\ UNCHANGED <<lock, bucket_locks, bucket, blockno, valid, owner, holder,
                       data, disk, logged, ticks, own>>
  <2>1. cur[p] \in Buf /\ Refs(cur[p]) # {}
    BY Zenon, <1>1 DEF Knowledge, Knows, Holding, Refs, Referring
  <2>2. QED BY Zenon, <2>1 DEF BrelseDec, Goto, Move, ProcTypes, content
<1>3. refcnt[b] >= 1
  BY Zenon, <1>2, FreeIsUnused
<1>4. TypeOK'
  <2>1. BufTypes'
    BY <1>2, <1>3 DEF BufTypes
  <2>2. lastuse_time' \in [Buf -> Nat]
    BY Zenon, <1>2, <2>1 DEF ContentTypes
  <2>3. LockTypes' /\ ContentTypes'
    BY Zenon, <1>2, <2>2 DEF LockTypes, ContentTypes
  <2>4. ProcTypes'
    BY Zenon, <1>2, BucketBound DEF ProcTypes, Move, Labels
  <2>5. QED BY Zenon, <2>1, <2>3, <2>4 DEF TypeOK
<1>5. LockOrder'
  BY Zenon, <1>1, <1>2, OutsideLocks DEF Critical
<1>6. LinkedOnce' /\ OneBufferPerBlock'
  BY Zenon, <1>1, <1>2, ListsKept
<1>7. Knows(p)'
  BY Zenon, <1>1, <1>2 DEF ProcTypes, Move, Knows, Holding
<1>8. Knowledge'
  BY Zenon, <1>2, <1>7, OutsideKnowledge
<1>9. RefcntExact'
  <2>1. p \in Refs(b) /\ Refs(b)' = Refs(b) \ {p}
    BY Zenon, <1>1, <1>2 DEF ProcTypes, Move, Refs, Referring, Holding
  <2>2. \A c \in Buf : (c # b => Refs(c)' = Refs(c)) /\ (Pinned(c)' <=> Pinned(c))
    BY <1>1, <1>2, NoNames
      DEF ProcTypes, Move, Refs, Referring, Pinned, Holding
  <2>3. QED BY Zenon, <1>2, <2>1, <2>2, UncountUser
<1>10. VictimFree'
  <2>1. \A c \in Buf : refcnt[c] = 0 => refcnt'[c] = 0
    BY <1>2, <1>3 DEF BufTypes
  <2>2. QED BY Zenon, <1>2, <2>1, OutsideVictim DEF Critical
<1>11. BufferIsMine'
  BY <1>1, <1>2
    DEF ProcTypes, Move, BufferIsMine, Mine, Referring, Using, Holding
<1>12. LogSound'
  BY Zenon, <1>2 DEF ProcTypes, Move, LogSound
<1>13. QED BY Zenon, <1>4, <1>5, <1>6, <1>8, <1>9, <1>10, <1>11, <1>12 DEF IInv

-----------------------------------------------------------------------------
\* The clock, a halted machine and stuttering leave the invariant alone.
LEMMA ClockStep ==
  ASSUME IInv, Tick \/ UNCHANGED vars
  PROVE  IInv'
<1>1. UNCHANGED <<lock, bucket_locks, bucket, blockno, refcnt, valid,
                  lastuse_time, owner, holder, data, disk, logged, pc, want,
                  cur, idx, own>>
      /\ (ticks \in Nat => ticks' \in Nat)
  BY DEF Tick, vars, bufvars, content, locals
<1>2. TypeOK'
  BY Zenon, <1>1 DEF IInv, TypeOK, LockTypes, BufTypes, ContentTypes, ProcTypes
<1>3. LockOrder' /\ OneBufferPerBlock' /\ LogSound' /\ VictimFree'
  BY Zenon, <1>1 DEF IInv, LockOrder, OneBufferPerBlock, LogSound, VictimFree
<1>4. LinkedOnce'
  BY Zenon, <1>1 DEF IInv, LinkedOnce, Moving
<1>5. RefcntExact'
  <2>1. \A b \in Buf : Refs(b)' = Refs(b) /\ (Pinned(b)' <=> Pinned(b))
    BY Zenon, <1>1 DEF Refs, Referring, Pinned
  <2>2. QED BY Zenon, <1>1, <2>1, CountKept DEF IInv
<1>6. BufferIsMine'
  BY Zenon, <1>1 DEF IInv, BufferIsMine, Mine, Referring, Using
<1>7. Knowledge'
  BY Zenon, <1>1 DEF IInv, Knowledge, Knows, Index
<1>8. QED BY Zenon, <1>2, <1>3, <1>4, <1>5, <1>6, <1>7 DEF IInv

\* binit establishes the invariant.
LEMMA InitInv == Init => IInv
<1> SUFFICES ASSUME Init PROVE IInv
  BY Zenon
<1>1. TypeOK
  BY BucketBound, BcacheAssumption
    DEF Init, TypeOK, LockTypes, BufTypes, ContentTypes, ProcTypes, Labels
<1>2. LockOrder
  BY Zenon, NoNames DEF Init, LockOrder, Critical
<1>3. OneBufferPerBlock /\ LogSound /\ VictimFree
  BY Zenon DEF Init, OneBufferPerBlock, LogSound, VictimFree
<1>4. BufferIsMine /\ Knowledge
  BY Zenon DEF Init, BufferIsMine, Mine, Referring, Using, Holding, Knowledge, Knows
<1>5. LinkedOnce
  BY Zenon, BucketBound DEF Init, LinkedOnce, Moving
<1>6. RefcntExact
  <2>1. \A b \in Buf : Refs(b) = {} /\ ~ Pinned(b)
    BY Zenon DEF Init, Refs, Referring, Pinned, Holding
  <2>2. Cardinality({}) = 0
    BY Zenon, FS_EmptySet
  <2>3. \A b \in Buf : refcnt[b] = 0 /\ Cardinality(Refs(b)) = 0
    BY Zenon, <2>1, <2>2 DEF Init
  <2>4. QED BY <2>1, <2>3 DEF RefcntExact
<1>7. QED BY Zenon, <1>1, <1>2, <1>3, <1>4, <1>5, <1>6 DEF IInv

\* Every step preserves it.
LEMMA NextInv == IInv /\ [Next]_vars => IInv'
<1> SUFFICES ASSUME IInv, [Next]_vars PROVE IInv'
  BY Zenon
<1>1. CASE Tick \/ Halted \/ UNCHANGED vars
  BY Zenon, <1>1, ClockStep DEF Halted
<1>2. ASSUME NEW p \in Proc, NEW k \in Block, Bread(p, k) PROVE IInv'
  BY Zenon, <1>2, BreadStep DEF IInv, TypeOK
<1>3. ASSUME NEW p \in Proc, BgetStep(p) PROVE IInv'
  BY Zenon, <1>3, LookHitStep, LookMissStep, AcquireBigStep, RecheckStep, HitStep,
     ScanStep, NoBufferStep, ReuseHereStep, UnlinkStep, LinkStep,
     AcquireSleepStep, LoadStep
  DEF IInv, TypeOK, BgetStep
<1>4. ASSUME NEW p \in Proc, UseStep(p) PROVE IInv'
  BY Zenon, <1>4, ModifyStep, BwriteStep, BpinStep, AbsorbStep, InstallStep,
     BunpinStep, BrelseStep, BrelseIndexStep, BrelseDecStep
  DEF IInv, TypeOK, UseStep
<1>5. QED BY Zenon, <1>1, <1>2, <1>3, <1>4 DEF Next


\* IInv holds in every reachable state.
THEOREM Invariance == Spec => []IInv
BY InitInv, NextInv, PTL DEF Spec

\* The variables keep their types; no reference count goes negative.
THEOREM CacheTyped == Spec => []TypeOK
<1>1. IInv => TypeOK
  BY Zenon DEF IInv
<1>2. QED BY <1>1, Invariance, PTL

\* bget never caches a block in two buffers, whatever the interleaving.
THEOREM CacheUnique == Spec => []OneBufferPerBlock
<1>1. IInv => OneBufferPerBlock
  BY Zenon DEF IInv
<1>2. QED BY <1>1, Invariance, PTL

\* refcnt is exactly the number of users of a buffer plus the log's pin.
THEOREM CacheCounts == Spec => []RefcntExact
<1>1. IInv => RefcntExact
  BY Zenon DEF IInv
<1>2. QED BY <1>1, Invariance, PTL

\* A buffer stays assigned to the block its users asked for, and is locked
\* by the process that uses it.
THEOREM CacheStable == Spec => []BufferIsMine
<1>1. IInv => BufferIsMine
  BY Zenon DEF IInv
<1>2. QED BY <1>1, Invariance, PTL

\* Every buffer is linked in exactly the bucket of its block.
THEOREM CacheLinked == Spec => []LinkedOnce
<1>1. IInv => LinkedOnce
  BY Zenon DEF IInv
<1>2. QED BY <1>1, Invariance, PTL

\* A bucket lock is kept across steps only under bcache.lock.
THEOREM CacheLockOrder == Spec => []LockOrder
<1>1. IInv => LockOrder
  BY Zenon DEF IInv
<1>2. QED BY <1>1, Invariance, PTL

-----------------------------------------------------------------------------
(* The refinement. *)

Uses == {"use", "dirty", "unpin"}

Dirty(b) == \E p \in Proc : cur[p] = b /\ pc[p] = "dirty"

Clean ==
  /\ \A b \in Buf : valid[b] /\ blockno[b] \in Block \ logged /\ ~ Dirty(b)
                      => data[b] = disk[blockno[b]]
  /\ \A p \in Proc : pc[p] \in Uses => valid[cur[p]]

-----------------------------------------------------------------------------
(* The refinement mapping, pointwise. *)

StoreIs ==
  /\ Store = [k \in Block |-> Store[k]]
  /\ \A k \in Block :
       /\ \A b \in Buf : valid[b] /\ blockno[b] = k => Store[k] = data[b]
       /\ (\A b \in Buf : ~ (valid[b] /\ blockno[b] = k)) => Store[k] = disk[k]

UserIs ==
  /\ User = [k \in Block |-> User[k]]
  /\ \A k \in Block :
       /\ \A p \in Proc : pc[p] \in Uses /\ want[p] = k => User[k] = p
       /\ (\A p \in Proc : ~ (pc[p] \in Uses /\ want[p] = k)) => User[k] = NoProc

\* A block's contents are in its valid buffer, or on the device.
LEMMA StoreLatest == OneBufferPerBlock => StoreIs
<1> SUFFICES ASSUME OneBufferPerBlock PROVE StoreIs
  BY Zenon
<1>1. Store = [k \in Block |-> Store[k]]
  BY DEF Store
<1>2. ASSUME NEW k \in Block, NEW b \in Buf, valid[b], blockno[b] = k
      PROVE  Store[k] = data[b]
  <2>1. CachedIn(k) = {b}
    BY Zenon, <1>2, NoNames DEF CachedIn, OneBufferPerBlock
  <2>2. QED BY Zenon, <1>2, <2>1 DEF Store
<1>3. ASSUME NEW k \in Block, \A b \in Buf : ~ (valid[b] /\ blockno[b] = k)
      PROVE  Store[k] = disk[k]
  BY Zenon, <1>3 DEF Store, CachedIn
<1>4. QED BY Zenon, <1>1, <1>2, <1>3 DEF StoreIs

\* Two processes never have the same block.
LEMMA OneUser ==
  ASSUME IInv, NEW p \in Proc, NEW q \in Proc, Using(p), Using(q), want[p] = want[q]
  PROVE  p = q
<1>1. /\ cur[p] \in Buf /\ cur[q] \in Buf /\ want[p] \in Block
      /\ holder[cur[p]] = p /\ holder[cur[q]] = q
  BY Zenon DEF IInv, Knowledge, Knows, BufferIsMine, Mine, Using, Holding
<1>2. blockno[cur[p]] = want[p] /\ blockno[cur[q]] = want[q]
  BY Zenon, <1>1 DEF IInv, BufferIsMine, Mine, Referring, Using, Holding
<1>3. QED BY Zenon, <1>1, <1>2, NoNames DEF IInv, OneBufferPerBlock

\* The user of a block is the process that bread gave it to.
LEMMA UserHolds == IInv => UserIs
<1> SUFFICES ASSUME IInv PROVE UserIs
  BY Zenon
<1>1. User = [k \in Block |-> User[k]]
  BY Zenon DEF User
<1>2. ASSUME NEW k \in Block, NEW p \in Proc, pc[p] \in Uses, want[p] = k
      PROVE  User[k] = p
  <2>1. \A q \in Proc : pc[q] \in Uses /\ want[q] = k => q = p
    BY Zenon, <1>2, OneUser DEF Uses, Using
  <2>2. User[k] = CHOOSE q \in Proc : pc[q] \in Uses /\ want[q] = k
    BY Zenon, <1>2 DEF User, Uses
  <2>3. QED BY Zenon, <1>2, <2>1, <2>2
<1>3. ASSUME NEW k \in Block, \A p \in Proc : ~ (pc[p] \in Uses /\ want[p] = k)
      PROVE  User[k] = NoProc
  BY Zenon, <1>3 DEF User, Uses
<1>4. QED BY Zenon, <1>1, <1>2, <1>3 DEF UserIs

\* Both hold in the next state.
LEMMA MappingNext == IInv' => StoreIs' /\ UserIs'
<1>1. IInv => StoreIs /\ UserIs
  BY Zenon, StoreLatest, UserHolds DEF IInv
<1>2. QED BY <1>1, PTL

-----------------------------------------------------------------------------
(* What a process that moves knows about its buffer. *)

\* The buffer of a process that refers to one.
LEMMA MyBuffer ==
  ASSUME IInv, NEW p \in Proc, pc[p] \in Holding
  PROVE  /\ cur[p] \in Buf /\ want[p] \in Block /\ blockno[cur[p]] = want[p]
         /\ \A c \in Buf : c # cur[p] => blockno[c] # want[p]
<1>1. cur[p] \in Buf /\ want[p] \in Block
  BY Zenon DEF IInv, Knowledge, Knows, Holding
<1>2. blockno[cur[p]] = want[p]
  BY Zenon, <1>1 DEF IInv, BufferIsMine, Mine, Referring
<1>3. QED BY Zenon, <1>1, <1>2, NoNames DEF IInv, OneBufferPerBlock

\* The buffer that bget is about to assign: nobody has it, and it is clean.
LEMMA MyVictim ==
  ASSUME IInv, Clean, NEW p \in Proc, pc[p] \in {"scan", "link"}, cur[p] # NoBuf
  PROVE  /\ cur[p] \in Buf /\ want[p] \in Block
         /\ \A q \in Proc : pc[q] \in Holding => cur[q] # cur[p]
         /\ valid[cur[p]] /\ blockno[cur[p]] \in Block
              => data[cur[p]] = disk[blockno[cur[p]]]
         /\ \A b \in Buf : blockno[b] # want[p]
<1>1. cur[p] \in Buf /\ want[p] \in Block /\ \A b \in Buf : blockno[b] # want[p]
  BY Zenon DEF IInv, TypeOK, ProcTypes, Knowledge, Knows
<1>2. refcnt[cur[p]] = 0
  BY Zenon DEF IInv, VictimFree
<1>3. Refs(cur[p]) = {} /\ ~ Pinned(cur[p])
  BY Zenon, <1>1, <1>2, FreeIsUnused DEF IInv, TypeOK
<1>4. \A q \in Proc : pc[q] \in Holding => cur[q] # cur[p]
  BY Zenon, <1>3 DEF Refs, Referring
<1>5. ~ Dirty(cur[p]) /\ blockno[cur[p]] \notin logged
  BY Zenon, <1>3, <1>4 DEF Dirty, Pinned, Holding
<1>6. QED BY Zenon, <1>1, <1>4, <1>5 DEF Clean

\* No block gets or loses its user.
LEMMA SameUser ==
  ASSUME UserIs, UserIs',
         \A p \in Proc : /\ pc'[p] \in Uses <=> pc[p] \in Uses
                         /\ pc[p] \in Uses => want'[p] = want[p]
  PROVE  User' = User
<1>1. ASSUME NEW k \in Block PROVE User'[k] = User[k]
  <2>1. CASE \E p \in Proc : pc[p] \in Uses /\ want[p] = k
    BY <2>1 DEF UserIs
  <2>2. CASE \A p \in Proc : ~ (pc[p] \in Uses /\ want[p] = k)
    BY Zenon, <2>2 DEF UserIs
  <2>3. QED BY Zenon, <2>1, <2>2
<1>2. QED BY Zenon, <1>1 DEF UserIs

\* No block changes: buffers stay where they are and keep what they hold, and the
\* device changes only under a valid buffer.
LEMMA SameStore ==
  ASSUME StoreIs, StoreIs', UNCHANGED <<blockno, valid>>,
         \A b \in Buf : valid[b] => data'[b] = data[b],
         \A k \in Block : disk'[k] = disk[k] \/ \E b \in Buf : valid[b] /\ blockno[b] = k
  PROVE  Store' = Store
<1>1. ASSUME NEW k \in Block PROVE Store'[k] = Store[k]
  <2>1. CASE \E b \in Buf : valid[b] /\ blockno[b] = k
    BY <2>1 DEF StoreIs
  <2>2. CASE \A b \in Buf : ~ (valid[b] /\ blockno[b] = k)
    BY Zenon, <2>2 DEF StoreIs
  <2>3. QED BY Zenon, <2>1, <2>2
<1>2. QED BY Zenon, <1>1 DEF StoreIs

\* The goal of every step: contents stay clean, and the store makes a step or none.
Refines == Clean' /\ [Abstract!Next]_<<Store, User>>

-----------------------------------------------------------------------------
(* One lemma for each kind of step. *)

\* Steps of bget and brelse that move neither data nor users.
LEMMA Quiet ==
  ASSUME IInv, IInv', Clean, UNCHANGED <<valid, blockno, data, disk, logged>>,
         \A p \in Proc : pc[p] \in Uses \/ pc'[p] \in Uses
           => pc'[p] = pc[p] /\ cur'[p] = cur[p] /\ want'[p] = want[p]
  PROVE  Refines
<1>1. StoreIs /\ UserIs /\ StoreIs' /\ UserIs'
  BY Zenon, StoreLatest, UserHolds, MappingNext DEF IInv
<1>2. Store' = Store
  BY Zenon, <1>1, SameStore
<1>3. User' = User
  BY Zenon, <1>1, SameUser
<1>4. \A b \in Buf : Dirty(b)' <=> Dirty(b)
  BY Zenon DEF Dirty, Uses
<1>5. Clean'
  BY Zenon, <1>4 DEF Clean
<1>6. QED BY Zenon, <1>2, <1>3, <1>5 DEF Refines

\* bget assigns a buffer: what it held is on the device.
LEMMA Reassign ==
  ASSUME IInv, IInv', Clean, NEW p \in Proc, pc[p] \in {"scan", "link"}, cur[p] # NoBuf,
         Assign(p, cur[p]), pc' = [pc EXCEPT ![p] = "sleep"],
         UNCHANGED <<data, disk, logged, want, cur>>
  PROVE  Refines
<1> DEFINE b == cur[p]
<1>1. StoreIs /\ UserIs /\ StoreIs' /\ UserIs'
  BY Zenon, StoreLatest, UserHolds, MappingNext DEF IInv
<1>2. /\ b \in Buf /\ want[p] \in Block /\ (\A c \in Buf : blockno[c] # want[p])
      /\ \A q \in Proc : pc[q] \in Holding => cur[q] # b
      /\ valid[b] /\ blockno[b] \in Block => data[b] = disk[blockno[b]]
  BY Zenon, MyVictim
<1>3. /\ pc \in [Proc -> Labels] /\ blockno \in [Buf -> Block \cup {NoBlock}]
      /\ valid \in [Buf -> BOOLEAN]
  BY Zenon DEF IInv, TypeOK, ProcTypes, BufTypes, ContentTypes
<1>4. \A c \in Buf : /\ c # b => blockno'[c] = blockno[c] /\ valid'[c] = valid[c]
                     /\ c = b => blockno'[c] = want[p] /\ valid'[c] = FALSE
  BY Zenon, <1>2, <1>3 DEF Assign
<1>5. \A q \in Proc : /\ pc'[q] \in Uses <=> pc[q] \in Uses
                      /\ pc'[q] = "dirty" <=> pc[q] = "dirty"
  BY Zenon, <1>3 DEF Uses
<1>6. User' = User
  BY Zenon, <1>1, <1>5, SameUser
<1>7. ASSUME NEW k \in Block PROVE Store'[k] = Store[k]
  <2>1. CASE \E c \in Buf : c # b /\ valid[c] /\ blockno[c] = k
    BY <1>1, <1>4, <2>1 DEF StoreIs
  <2>2. CASE \A c \in Buf : ~ (c # b /\ valid[c] /\ blockno[c] = k)
    <3>1. Store'[k] = disk[k]
      BY <1>1, <1>4, <2>2 DEF StoreIs
    <3>2. CASE valid[b] /\ blockno[b] = k
      BY Zenon, <1>1, <1>2, <3>1, <3>2 DEF StoreIs
    <3>3. CASE ~ (valid[b] /\ blockno[b] = k)
      BY <1>1, <2>2, <3>1, <3>3 DEF StoreIs
    <3>4. QED BY Zenon, <3>2, <3>3
  <2>3. QED BY Zenon, <2>1, <2>2
<1>8. Store' = Store
  BY Zenon, <1>1, <1>7 DEF StoreIs
<1>9. \A c \in Buf : Dirty(c)' <=> Dirty(c)
  BY Zenon, <1>5 DEF Dirty
<1>10. Clean'
  <2>1. ASSUME NEW c \in Buf, valid'[c], blockno'[c] \in Block \ logged', ~ Dirty(c)'
        PROVE  data'[c] = disk'[blockno'[c]]
    BY <1>4, <1>9, <2>1 DEF Clean
  <2>2. ASSUME NEW q \in Proc, pc'[q] \in Uses PROVE valid'[cur'[q]]
    <3>1. pc[q] \in Uses /\ pc[q] \in Holding
      BY Zenon, <1>5, <2>2 DEF Uses, Holding
    <3>2. cur[q] \in Buf /\ cur[q] # b /\ valid[cur[q]]
      BY Zenon, <1>2, <3>1, MyBuffer DEF Clean
    <3>3. QED BY Zenon, <1>4, <3>2
  <2>3. QED BY Zenon, <2>1, <2>2 DEF Clean
<1>11. QED BY Zenon, <1>6, <1>8, <1>10 DEF Refines

\* The end of bread: the process gets the block, with its latest contents.
LEMMA LoadRefines ==
  ASSUME IInv, IInv', Clean, NEW p \in Proc, Load(p)
  PROVE  Refines
<1> DEFINE b == cur[p]
           k == want[p]
<1>1. StoreIs /\ UserIs /\ StoreIs' /\ UserIs'
  BY Zenon, StoreLatest, UserHolds, MappingNext DEF IInv
<1>2. /\ b \in Buf /\ k \in Block /\ blockno[b] = k
      /\ \A c \in Buf : c # b => blockno[c] # k
  BY Zenon, MyBuffer DEF Load, At, Holding
<1>3. /\ pc[p] = "load" /\ pc' = [pc EXCEPT ![p] = "use"]
      /\ data' = [data EXCEPT ![b] = IF valid[b] THEN @ ELSE disk[k]]
      /\ valid' = [valid EXCEPT ![b] = TRUE] /\ UNCHANGED <<blockno, disk, logged, want, cur>>
  BY Zenon, <1>2 DEF Load, At, Goto, locals
<1>4. /\ pc \in [Proc -> Labels] /\ valid \in [Buf -> BOOLEAN] /\ data \in [Buf -> Value]
  BY Zenon DEF IInv, TypeOK, ProcTypes, ContentTypes
<1>5. ASSUME NEW j \in Block PROVE Store'[j] = Store[j]
  <2>1. CASE j = k
    <3>1. Store'[k] = data'[b]
      BY Zenon, <1>1, <1>2, <1>3, <1>4 DEF StoreIs
    <3>2. Store[k] = IF valid[b] THEN data[b] ELSE disk[k]
      BY Zenon, <1>1, <1>2 DEF StoreIs
    <3>3. QED BY Zenon, <1>2, <1>3, <1>4, <2>1, <3>1, <3>2
  <2>2. CASE j # k
    <3>1. \A c \in Buf : blockno[c] = j => c # b /\ valid'[c] = valid[c] /\ data'[c] = data[c]
      BY Zenon, <1>2, <1>3, <1>4, <2>2
    <3>2. CASE \E c \in Buf : valid[c] /\ blockno[c] = j
      BY <1>1, <1>3, <3>1, <3>2 DEF StoreIs
    <3>3. CASE \A c \in Buf : ~ (valid[c] /\ blockno[c] = j)
      BY Zenon, <1>1, <1>3, <3>1, <3>3 DEF StoreIs
    <3>4. QED BY Zenon, <3>2, <3>3
  <2>3. QED BY Zenon, <2>1, <2>2
<1>6. Store' = Store
  BY Zenon, <1>1, <1>5 DEF StoreIs
<1>7. User[k] = NoProc
  <2>1. \A q \in Proc : ~ (pc[q] \in Uses /\ want[q] = k)
    BY Zenon, <1>3, OneUser DEF Using, Uses
  <2>2. QED BY Zenon, <1>1, <1>2, <2>1 DEF UserIs
<1>8. User' = [User EXCEPT ![k] = p]
  <2>1. User'[k] = p
    BY Zenon, <1>1, <1>2, <1>3, <1>4 DEF UserIs, Uses
  <2>2. ASSUME NEW j \in Block, j # k PROVE User'[j] = User[j]
    <3>1. \A q \in Proc : want[q] = j => (pc'[q] \in Uses <=> pc[q] \in Uses)
      BY Zenon, <1>3, <1>4, <2>2 DEF Uses
    <3>2. CASE \E q \in Proc : pc[q] \in Uses /\ want[q] = j
      BY <1>1, <1>3, <3>1, <3>2 DEF UserIs
    <3>3. CASE \A q \in Proc : ~ (pc[q] \in Uses /\ want[q] = j)
      BY Zenon, <1>1, <1>3, <3>1, <3>3 DEF UserIs
    <3>4. QED BY Zenon, <3>2, <3>3
  <2>3. QED BY Zenon, <1>1, <2>1, <2>2 DEF UserIs
<1>9. Abstract!Get(p, k)
  BY Zenon, <1>6, <1>7, <1>8 DEF Abstract!Get
<1>10. Clean'
  <2>1. ASSUME NEW c \in Buf, valid'[c], blockno'[c] \in Block \ logged', ~ Dirty(c)'
        PROVE  data'[c] = disk'[blockno'[c]]
    <3>1. ~ Dirty(c)
      BY Zenon, <1>3, <1>4, <2>1 DEF Dirty
    <3>2. QED BY Zenon, <1>2, <1>3, <1>4, <2>1, <3>1 DEF Clean
  <2>2. ASSUME NEW q \in Proc, pc'[q] \in Uses PROVE valid'[cur'[q]]
    <3>1. CASE q = p
      BY Zenon, <1>2, <1>3, <1>4, <3>1
    <3>2. CASE q # p
      <4>1. pc[q] \in Uses /\ pc[q] \in Holding
        BY Zenon, <1>3, <1>4, <2>2, <3>2 DEF Uses, Holding
      <4>2. cur[q] \in Buf /\ valid[cur[q]]
        BY Zenon, <4>1, MyBuffer DEF Clean
      <4>3. QED BY Zenon, <1>3, <1>4, <4>2
    <3>3. QED BY Zenon, <3>1, <3>2
  <2>3. QED BY Zenon, <2>1, <2>2 DEF Clean
<1>11. QED BY Zenon, <1>2, <1>9, <1>10 DEF Refines, Abstract!Next

\* The user changes the block.
LEMMA ModifyRefines ==
  ASSUME IInv, IInv', Clean, NEW p \in Proc, NEW v \in Value, Modify(p, v)
  PROVE  Refines
<1> DEFINE b == cur[p]
           k == want[p]
<1>1. StoreIs /\ UserIs /\ StoreIs' /\ UserIs'
  BY Zenon, StoreLatest, UserHolds, MappingNext DEF IInv
<1>2. /\ b \in Buf /\ k \in Block /\ blockno[b] = k
      /\ \A c \in Buf : c # b => blockno[c] # k
  BY Zenon, MyBuffer DEF Modify, At, Holding
<1>3. /\ pc[p] = "use" /\ pc' = [pc EXCEPT ![p] = "dirty"]
      /\ data' = [data EXCEPT ![b] = v] /\ UNCHANGED <<valid, blockno, disk, logged, want, cur>>
  BY Zenon DEF Modify, At, Goto, bufvars, locals
<1>4. /\ pc \in [Proc -> Labels] /\ data \in [Buf -> Value] /\ valid[b]
  BY Zenon, <1>3 DEF IInv, TypeOK, ProcTypes, ContentTypes, Clean, Uses
<1>5. User' = User /\ User[k] = p
  BY Zenon, <1>1, <1>2, <1>3, <1>4, SameUser DEF Uses, UserIs
<1>6. Store' = [Store EXCEPT ![k] = v]
  <2>1. Store'[k] = v
    BY <1>1, <1>2, <1>3, <1>4 DEF StoreIs
  <2>2. ASSUME NEW j \in Block, j # k PROVE Store'[j] = Store[j]
    <3>1. \A c \in Buf : blockno[c] = j => data'[c] = data[c]
      BY Zenon, <1>2, <1>3, <1>4, <2>2
    <3>2. CASE \E c \in Buf : valid[c] /\ blockno[c] = j
      BY <1>1, <1>3, <3>1, <3>2 DEF StoreIs
    <3>3. CASE \A c \in Buf : ~ (valid[c] /\ blockno[c] = j)
      BY Zenon, <1>1, <1>3, <3>3 DEF StoreIs
    <3>4. QED BY Zenon, <3>2, <3>3
  <2>3. QED BY Zenon, <1>1, <2>1, <2>2 DEF StoreIs
<1>7. Abstract!Put(p, k, v)
  BY Zenon, <1>5, <1>6 DEF Abstract!Put
<1>8. Clean'
  <2>1. ASSUME NEW c \in Buf, valid'[c], blockno'[c] \in Block \ logged', ~ Dirty(c)'
        PROVE  data'[c] = disk'[blockno'[c]]
    <3>1. ~ Dirty(c) /\ c # b
      BY Zenon, <1>3, <1>4, <2>1 DEF Dirty
    <3>2. QED BY Zenon, <1>3, <1>4, <2>1, <3>1 DEF Clean
  <2>2. \A q \in Proc : pc'[q] \in Uses => valid'[cur'[q]]
    BY Zenon, <1>3, <1>4 DEF Clean, Uses
  <2>3. QED BY Zenon, <2>1, <2>2 DEF Clean
<1>9. QED BY Zenon, <1>2, <1>7, <1>8 DEF Refines, Abstract!Next

\* The user writes the buffer to the device, alone or for the log.
LEMMA WriteRefines ==
  ASSUME IInv, IInv', Clean, NEW p \in Proc, pc[p] \in Uses, NEW l \in {"use", "unpin"},
         pc' = [pc EXCEPT ![p] = l], UNCHANGED <<valid, blockno, data, want, cur>>,
         disk' = [disk EXCEPT ![blockno[cur[p]]] = data[cur[p]]],
         \A j \in Block : j \in logged /\ j # want[p] => j \in logged'
  PROVE  Refines
<1> DEFINE b == cur[p]
           k == want[p]
<1>1. StoreIs /\ UserIs /\ StoreIs' /\ UserIs'
  BY Zenon, StoreLatest, UserHolds, MappingNext DEF IInv
<1>2. /\ b \in Buf /\ k \in Block /\ blockno[b] = k
      /\ \A c \in Buf : c # b => blockno[c] # k
  BY Zenon, MyBuffer DEF Uses, Holding
<1>3. pc \in [Proc -> Labels] /\ disk \in [Block -> Value] /\ valid[b]
  BY Zenon DEF IInv, TypeOK, ProcTypes, ContentTypes, Clean
<1>4. User' = User
  BY Zenon, <1>1, <1>3, SameUser DEF Uses
<1>5. Store' = Store
  BY Zenon, <1>1, <1>2, <1>3, SameStore
<1>6. Clean'
  <2>1. ASSUME NEW c \in Buf, valid'[c], blockno'[c] \in Block \ logged', ~ Dirty(c)'
        PROVE  data'[c] = disk'[blockno'[c]]
    <3>1. CASE c = b
      BY Zenon, <1>2, <1>3, <3>1
    <3>2. CASE c # b
      <4>1. ~ Dirty(c) /\ blockno[c] # k /\ blockno[c] \in Block \ logged
        BY Zenon, <1>2, <1>3, <2>1, <3>2 DEF Dirty
      <4>2. QED BY Zenon, <1>2, <1>3, <2>1, <4>1 DEF Clean
    <3>3. QED BY Zenon, <3>1, <3>2
  <2>2. \A q \in Proc : pc'[q] \in Uses => valid'[cur'[q]]
    BY Zenon, <1>3 DEF Clean, Uses
  <2>3. QED BY Zenon, <2>1, <2>2 DEF Clean
<1>7. QED BY Zenon, <1>4, <1>5, <1>6 DEF Refines

\* The user pins the buffer for the log, finds it there, or unpins it.
LEMMA PinRefines ==
  ASSUME IInv, IInv', Clean, NEW p \in Proc, pc[p] \in Uses, pc' = [pc EXCEPT ![p] = "use"],
         UNCHANGED <<valid, blockno, data, disk, want, cur>>,
         logged \subseteq logged', pc[p] = "dirty" => want[p] \in logged'
  PROVE  Refines
<1>1. StoreIs /\ UserIs /\ StoreIs' /\ UserIs'
  BY Zenon, StoreLatest, UserHolds, MappingNext DEF IInv
<1>2. /\ cur[p] \in Buf /\ want[p] \in Block /\ blockno[cur[p]] = want[p]
      /\ pc \in [Proc -> Labels]
  BY Zenon, MyBuffer DEF Uses, Holding, IInv, TypeOK, ProcTypes
<1>3. User' = User
  BY Zenon, <1>1, <1>2, SameUser DEF Uses
<1>4. Store' = Store
  BY Zenon, <1>1, SameStore
<1>5. Clean'
  <2>1. ASSUME NEW c \in Buf, valid'[c], blockno'[c] \in Block \ logged', ~ Dirty(c)'
        PROVE  data'[c] = disk'[blockno'[c]]
    <3>1. ~ Dirty(c) /\ blockno[c] \in Block \ logged
      BY Zenon, <1>2, <2>1 DEF Dirty
    <3>2. QED BY Zenon, <2>1, <3>1 DEF Clean
  <2>2. \A q \in Proc : pc'[q] \in Uses => valid'[cur'[q]]
    BY Zenon, <1>2 DEF Clean, Uses
  <2>3. QED BY Zenon, <2>1, <2>2 DEF Clean
<1>6. QED BY Zenon, <1>3, <1>4, <1>5 DEF Refines

\* The user gives the block back.
LEMMA BrelseRefines ==
  ASSUME IInv, IInv', Clean, NEW p \in Proc, Brelse(p)
  PROVE  Refines
<1> DEFINE k == want[p]
<1>1. StoreIs /\ UserIs /\ StoreIs' /\ UserIs'
  BY Zenon, StoreLatest, UserHolds, MappingNext DEF IInv
<1>2. k \in Block /\ pc \in [Proc -> Labels]
  BY Zenon, MyBuffer DEF Brelse, At, Holding, IInv, TypeOK, ProcTypes
<1>3. /\ pc[p] = "use" /\ pc' = [pc EXCEPT ![p] = "rel"]
      /\ UNCHANGED <<valid, blockno, data, disk, logged, want, cur>>
  BY Zenon DEF Brelse, At, Goto, bufvars, content, locals
<1>4. Store' = Store
  BY Zenon, <1>1, <1>3, SameStore
<1>5. User[k] = p
  BY Zenon, <1>1, <1>2, <1>3 DEF UserIs, Uses
<1>6. User' = [User EXCEPT ![k] = NoProc]
  <2>1. User'[k] = NoProc
    <3>1. \A q \in Proc : ~ (pc'[q] \in Uses /\ want'[q] = k)
      BY Zenon, <1>2, <1>3, OneUser DEF Using, Uses
    <3>2. QED BY Zenon, <1>1, <1>2, <3>1 DEF UserIs
  <2>2. ASSUME NEW j \in Block, j # k PROVE User'[j] = User[j]
    <3>1. \A q \in Proc : want[q] = j => (pc'[q] \in Uses <=> pc[q] \in Uses)
      BY Zenon, <1>2, <1>3, <2>2 DEF Uses
    <3>2. CASE \E q \in Proc : pc[q] \in Uses /\ want[q] = j
      BY <1>1, <1>3, <3>1, <3>2 DEF UserIs
    <3>3. CASE \A q \in Proc : ~ (pc[q] \in Uses /\ want[q] = j)
      BY Zenon, <1>1, <1>3, <3>1, <3>3 DEF UserIs
    <3>4. QED BY Zenon, <3>2, <3>3
  <2>3. QED BY Zenon, <1>1, <2>1, <2>2 DEF UserIs
<1>7. Abstract!Release(p, k)
  BY Zenon, <1>4, <1>5, <1>6 DEF Abstract!Release
<1>8. Clean'
  <2>1. \A c \in Buf : Dirty(c)' <=> Dirty(c)
    BY Zenon, <1>2, <1>3 DEF Dirty
  <2>2. QED BY Zenon, <1>2, <1>3, <2>1 DEF Clean, Uses
<1>9. QED BY Zenon, <1>2, <1>7, <1>8 DEF Refines, Abstract!Next

-----------------------------------------------------------------------------
\* A step of one process from a label outside bread's caller to another.
LEMMA QuietMove ==
  ASSUME IInv, IInv', Clean, UNCHANGED <<valid, blockno, data, disk, logged>>,
         NEW p \in Proc, pc[p] \notin Uses, pc'[p] \notin Uses,
         \A q \in Proc : q # p => pc'[q] = pc[q] /\ cur'[q] = cur[q] /\ want'[q] = want[q]
  PROVE  Refines
BY Zenon, Quiet

\* Every step of bget.
LEMMA BgetRefines ==
  ASSUME IInv, IInv', Clean, NEW p \in Proc, BgetStep(p)
  PROVE  Refines
<1> USE DEF At, Goto, bufvars, content, locals
<1>1. ProcTypes
  BY Zenon DEF IInv, TypeOK
<1>2. CASE LookHit(p)
  BY Zenon, <1>1, <1>2, QuietMove DEF LookHit, ProcTypes, Uses
<1>3. CASE LookMiss(p) \/ AcquireBig(p) \/ NoBuffer(p)
  BY Zenon, <1>1, <1>3, QuietMove DEF LookMiss, AcquireBig, NoBuffer, ProcTypes, Uses
<1>4. CASE Recheck(p)
  BY Zenon, <1>1, <1>4, QuietMove DEF Recheck, ProcTypes, Uses
<1>5. CASE Hit(p)
  BY Zenon, <1>1, <1>5, QuietMove DEF Hit, ProcTypes, Uses
<1>6. CASE Scan(p)
  <2>1. /\ pc[p] = "scan" /\ UNCHANGED <<valid, blockno, data, disk, logged, pc, want>>
        /\ \A q \in Proc : q # p => cur'[q] = cur[q]
    BY Zenon, <1>1, <1>6 DEF Scan, ProcTypes
  <2>2. QED BY Zenon, <2>1, QuietMove DEF Uses
<1>7. CASE Unlink(p)
  BY Zenon, <1>1, <1>7, QuietMove DEF Unlink, LeaveLoop, ProcTypes, Uses
<1>8. CASE AcquireSleep(p)
  BY Zenon, <1>1, <1>8, QuietMove DEF AcquireSleep, ProcTypes, Uses
<1>9. CASE ReuseHere(p)
  BY Zenon, <1>9, Reassign DEF ReuseHere
<1>10. CASE Link(p)
  <2>1. cur[p] # NoBuf
    BY Zenon, <1>10, NoNames DEF Link, IInv, Knowledge, Knows
  <2>2. QED BY Zenon, <1>10, <2>1, Reassign DEF Link
<1>11. QED
  BY Zenon, <1>2, <1>3, <1>4, <1>5, <1>6, <1>7, <1>8, <1>9, <1>10, LoadRefines DEF BgetStep

\* Every step of a process that has the block, up to the end of brelse.
LEMMA UseRefines ==
  ASSUME IInv, IInv', Clean, NEW p \in Proc, UseStep(p)
  PROVE  Refines
<1> USE DEF At, Goto, bufvars, content, locals
<1>1. ProcTypes
  BY Zenon DEF IInv, TypeOK
<1>2. pc[p] \in Holding => blockno[cur[p]] = want[p]
  BY Zenon, MyBuffer
<1>3. CASE Bwrite(p)
  BY Zenon, <1>3, WriteRefines DEF Bwrite, Uses
<1>4. CASE Install(p)
  <2>1. logged' = logged \ {want[p]}
    BY Zenon, <1>2, <1>4 DEF Install, Holding
  <2>2. QED BY Zenon, <1>4, <2>1, WriteRefines DEF Install, Uses
<1>5. CASE Bpin(p)
  <2>1. logged' = logged \cup {want[p]}
    BY Zenon, <1>2, <1>5 DEF Bpin, Holding
  <2>2. QED BY Zenon, <1>5, <2>1, PinRefines DEF Bpin, Uses
<1>6. CASE Absorb(p)
  <2>1. want[p] \in logged
    BY Zenon, <1>2, <1>6 DEF Absorb, Holding
  <2>2. QED BY Zenon, <1>6, <2>1, PinRefines DEF Absorb, Uses
<1>7. CASE Bunpin(p)
  BY Zenon, <1>7, PinRefines DEF Bunpin, Uses
<1>8. CASE BrelseIndex(p)
  BY Zenon, <1>1, <1>8, QuietMove DEF BrelseIndex, ProcTypes, Uses
<1>9. CASE BrelseDec(p)
  BY Zenon, <1>1, <1>9, QuietMove DEF BrelseDec, ProcTypes, Uses
<1>10. QED
  BY Zenon, <1>3, <1>4, <1>5, <1>6, <1>7, <1>8, <1>9, ModifyRefines, BrelseRefines DEF UseStep

\* Every step of the cache.
LEMMA NextRefines == IInv /\ IInv' /\ Clean /\ [Next]_vars => Refines
<1> SUFFICES ASSUME IInv, IInv', Clean, [Next]_vars PROVE Refines
  BY Zenon
<1>1. CASE Tick \/ Halted \/ UNCHANGED vars
  BY Zenon, <1>1, Quiet DEF Tick, Halted, vars, bufvars, content, locals
<1>2. ASSUME NEW p \in Proc, NEW k \in Block, Bread(p, k) PROVE Refines
  BY Zenon, <1>2, QuietMove DEF Bread, At, Goto, bufvars, content, IInv, TypeOK, ProcTypes, Uses
<1>3. QED BY Zenon, <1>1, <1>2, BgetRefines, UseRefines DEF Next

\* The cache starts as a store of which nobody has a block.
LEMMA InitRefines == Init => Clean /\ Abstract!Init
<1> SUFFICES ASSUME Init PROVE Clean /\ Abstract!Init
  BY Zenon
<1>1. IInv
  BY Zenon, InitInv
<1>2. StoreIs /\ UserIs
  BY Zenon, <1>1, StoreLatest, UserHolds DEF IInv
<1>3. Clean
  BY Zenon DEF Init, Clean, Uses
<1>4. PICK v \in Value : disk = [k \in Block |-> v]
  BY Zenon DEF Init
<1>5. \A k \in Block : Store[k] = v
  BY Zenon, <1>2, <1>4 DEF Init, StoreIs
<1>6. \A k \in Block : User[k] = NoProc
  BY Zenon, <1>2 DEF Init, UserIs, Uses
<1>7. QED BY <1>2, <1>3, <1>5, <1>6 DEF StoreIs, UserIs, Abstract!Init

\* The buffer cache implements the block store: bread gives a block, with what
\* was last put there, to one process at a time, although buffers are replaced,
\* read again, pinned and written back.
THEOREM CacheImplements == Spec => ImplementsBlockStore
<1>1. Init => Clean /\ Abstract!Init
  BY Zenon, InitRefines
<1>2. IInv /\ IInv' /\ Clean /\ [Next]_vars => Clean' /\ [Abstract!Next]_(Abstract!vars)
  BY Zenon, NextRefines DEF Refines, Abstract!vars
<1>3. QED
  BY <1>1, <1>2, Invariance, PTL DEF Spec, ImplementsBlockStore, Abstract!Spec
=============================================================================
