------------------------------- MODULE Bcache -------------------------------
(***************************************************************************)
(* The hashed buffer cache of xv6-lab-locks/bio.c.                         *)
(*                                                                         *)
(* Buffers hang on NBUCKET lists, each with its own spinlock; bcache.lock  *)
(* serialises replacement.  Several processes run bread / bwrite / brelse  *)
(* / bpin / bunpin concurrently; a step of the model is one critical       *)
(* section, or the part of one between two lock operations when a second   *)
(* lock is taken inside it.                                                *)
(*                                                                         *)
(* A list is kept as the set of its buffers: its order decides only which  *)
(* of several free buffers with equal lastuse_time is replaced, and that   *)
(* choice is left open.  A block is its number; there is one device.       *)
(* The device (virtio_disk_rw) and the log that pins buffers (log.c) are   *)
(* not in the repository and are modelled from how bio.c is used.          *)
(***************************************************************************)
EXTENDS Naturals, FiniteSets

CONSTANTS
  Proc,       \* processes that use the cache
  Buf,        \* bcache.buf[NBUF]
  Block,      \* block numbers in use
  NBUCKET,    \* number of hash buckets
  Value,      \* contents a block can have
  MaxTicks,   \* bound on the clock
  NoProc, NoBuf, NoBlock

ASSUME BcacheAssumption ==
  /\ IsFiniteSet(Proc)
  /\ NBUCKET \in Nat \ {0}
  /\ MaxTicks \in Nat
  /\ Block \subseteq Nat
  /\ Value # {}
  /\ NoProc \notin Proc
  /\ NoBuf \notin Buf
  /\ NoBlock \notin Block

Bucket == 0 .. NBUCKET - 1

BUCKET_HASH(k) == k % NBUCKET

VARIABLES
  lock,          \* holder of bcache.lock
  bucket_locks,  \* holder of each bucket_locks[i]
  bucket,        \* the buffers linked in each bucket
  blockno,       \* b->dev, b->blockno: the block the buffer is assigned to
  refcnt, valid, lastuse_time,
  owner,         \* b->owner: the bucket recorded in the buffer
  holder,        \* holder of the sleeplock b->lock
  data,          \* b->data
  disk,          \* contents of the device
  logged,        \* blocks whose buffer the log holds pinned
  ticks,
  pc,            \* where each process is
  want,          \* bget's argument blockno
  cur,           \* b, ans: the buffer a process works on
  idx,           \* i of the scan, index of brelse
  own            \* bget's local owner; NBUCKET stands for -1

bufvars  == <<bucket, blockno, refcnt, valid, lastuse_time, owner>>
locals   == <<want, cur, idx, own>>
content  == <<data, disk, logged>>
vars     == <<lock, bucket_locks, bufvars, holder, content, ticks, pc, locals>>

Labels == {"idle", "look", "big", "recheck", "hit", "scan", "link",
           "sleep", "load", "use", "dirty", "unpin", "rel", "dec", "panic"}

LockTypes ==
  /\ lock \in Proc \cup {NoProc}
  /\ bucket_locks \in [Bucket -> Proc \cup {NoProc}]
  /\ holder \in [Buf -> Proc \cup {NoProc}]

BufTypes ==
  /\ bucket \in [Bucket -> SUBSET Buf]
  /\ blockno \in [Buf -> Block \cup {NoBlock}]
  /\ refcnt \in [Buf -> Nat]
  /\ owner \in [Buf -> Bucket]

ContentTypes ==
  /\ valid \in [Buf -> BOOLEAN]
  /\ lastuse_time \in [Buf -> Nat]
  /\ data \in [Buf -> Value]
  /\ disk \in [Block -> Value]
  /\ logged \in SUBSET Block
  /\ ticks \in Nat

ProcTypes ==
  /\ pc \in [Proc -> Labels]
  /\ want \in [Proc -> Block \cup {NoBlock}]
  /\ cur \in [Proc -> Buf \cup {NoBuf}]
  /\ idx \in [Proc -> 0 .. NBUCKET]
  /\ own \in [Proc -> 0 .. NBUCKET]

\* Every variable has its type; in particular no refcnt ever goes negative.
TypeOK == LockTypes /\ BufTypes /\ ContentTypes /\ ProcTypes

\* binit: every buffer is free and linked in bucket 0.  The buffers' memory
\* is zero, so none is assigned to a block of the device; its data is unread.
Init ==
  /\ lock = NoProc
  /\ bucket_locks = [i \in Bucket |-> NoProc]
  /\ bucket = [i \in Bucket |-> IF i = 0 THEN Buf ELSE {}]
  /\ blockno = [b \in Buf |-> NoBlock]
  /\ refcnt = [b \in Buf |-> 0]
  /\ valid = [b \in Buf |-> FALSE]
  /\ lastuse_time = [b \in Buf |-> 0]
  /\ owner = [b \in Buf |-> 0]
  /\ holder = [b \in Buf |-> NoProc]
  /\ \E v \in Value : /\ data = [b \in Buf |-> v]
                      /\ disk = [k \in Block |-> v]
  /\ logged = {}
  /\ ticks = 0
  /\ pc = [p \in Proc |-> "idle"]
  /\ want = [p \in Proc |-> NoBlock]
  /\ cur = [p \in Proc |-> NoBuf]
  /\ idx = [p \in Proc |-> 0]
  /\ own = [p \in Proc |-> NBUCKET]

At(p, l) == pc[p] = l

Goto(p, l) == pc' = [pc EXCEPT ![p] = l]

Index(p) == BUCKET_HASH(want[p])

\* The buffers of bucket i that cache block k.
Cached(i, k) == {b \in bucket[i] : blockno[b] = k}

-----------------------------------------------------------------------------
\* bread(dev, k) is called: bget computes the bucket of the block.
Bread(p, k) ==
  /\ At(p, "idle")
  /\ want' = [want EXCEPT ![p] = k]
  /\ Goto(p, "look")
  /\ UNCHANGED <<lock, bucket_locks, bufvars, holder, content, ticks,
                 cur, idx, own>>

\* The first search, under the lock of the block's bucket.
LookHit(p) ==
  /\ At(p, "look")
  /\ bucket_locks[Index(p)] = NoProc
  /\ \E b \in Cached(Index(p), want[p]) :
       /\ refcnt' = [refcnt EXCEPT ![b] = @ + 1]
       /\ cur' = [cur EXCEPT ![p] = b]
  /\ Goto(p, "sleep")
  /\ UNCHANGED <<lock, bucket_locks, bucket, blockno, valid, lastuse_time,
                 owner, holder, content, ticks, want, idx, own>>

LookMiss(p) ==
  /\ At(p, "look")
  /\ bucket_locks[Index(p)] = NoProc
  /\ Cached(Index(p), want[p]) = {}
  /\ Goto(p, "big")
  /\ UNCHANGED <<lock, bucket_locks, bufvars, holder, content, ticks, locals>>

AcquireBig(p) ==
  /\ At(p, "big")
  /\ lock = NoProc
  /\ lock' = p
  /\ Goto(p, "recheck")
  /\ UNCHANGED <<bucket_locks, bufvars, holder, content, ticks, locals>>

\* Mutant: without the second search.
RecheckSkipped(p) ==
  /\ At(p, "recheck")
  /\ Goto(p, "scan")
  /\ UNCHANGED <<lock, bucket_locks, bufvars, holder, content, ticks, locals>>

\* The second search holds bcache.lock only: lists and block numbers change
\* under that lock alone, so it needs no bucket lock to read them.
Recheck(p) ==
  /\ At(p, "recheck")
  /\ \/ \E b \in Cached(Index(p), want[p]) :
          /\ cur' = [cur EXCEPT ![p] = b]
          /\ Goto(p, "hit")
     \/ /\ Cached(Index(p), want[p]) = {}
        /\ UNCHANGED cur
        /\ Goto(p, "scan")
  /\ UNCHANGED <<lock, bucket_locks, bufvars, holder, content, ticks, want,
                 idx, own>>

\* Mutant: the second search forgets to count the reference.
HitUncounted(p) ==
  /\ At(p, "hit")
  /\ bucket_locks[Index(p)] = NoProc
  /\ lock' = NoProc
  /\ Goto(p, "sleep")
  /\ UNCHANGED <<bucket_locks, bufvars, holder, content, ticks, locals>>

\* Found by the second search: count the reference under the bucket lock.
Hit(p) ==
  /\ At(p, "hit")
  /\ bucket_locks[Index(p)] = NoProc
  /\ refcnt' = [refcnt EXCEPT ![cur[p]] = @ + 1]
  /\ lock' = NoProc
  /\ Goto(p, "sleep")
  /\ UNCHANGED <<bucket_locks, bucket, blockno, valid, lastuse_time, owner,
                 holder, content, ticks, locals>>

\* Free buffers of bucket i that were not used for the longest time.
Oldest(i) ==
  LET free == {b \in bucket[i] : refcnt[b] = 0}
  IN  {b \in free : \A c \in free : lastuse_time[b] <= lastuse_time[c]}

\* Is b a better victim than the one found so far?
Better(p, b) ==
  cur[p] # NoBuf => lastuse_time[b] < lastuse_time[cur[p]]

\* Mutant: the lock of the previous candidate's bucket is not released.
ScanKeeping(p) ==
  LET i == idx[p] IN
  /\ At(p, "scan")
  /\ i < NBUCKET
  /\ bucket_locks[i] = NoProc
  /\ \/ \E b \in Oldest(i) :
          /\ Better(p, b)
          /\ cur' = [cur EXCEPT ![p] = b]
          /\ own' = [own EXCEPT ![p] = i]
          /\ bucket_locks' = [bucket_locks EXCEPT ![i] = p]
     \/ /\ \A b \in Oldest(i) : ~ Better(p, b)
        /\ UNCHANGED <<cur, own, bucket_locks>>
  /\ idx' = [idx EXCEPT ![p] = i + 1]
  /\ UNCHANGED <<lock, bufvars, holder, content, ticks, pc, want>>

\* One round of the replacement loop.  The lock of the bucket that holds the
\* best buffer so far is kept, that of every other bucket is released.
Scan(p) ==
  LET i == idx[p] IN
  /\ At(p, "scan")
  /\ i < NBUCKET
  /\ bucket_locks[i] = NoProc
  /\ \/ \E b \in Oldest(i) :
          /\ Better(p, b)
          /\ cur' = [cur EXCEPT ![p] = b]
          /\ own' = [own EXCEPT ![p] = i]
          /\ bucket_locks' = [j \in Bucket |->
                                IF j = i THEN p
                                ELSE IF j = own[p] THEN NoProc
                                ELSE bucket_locks[j]]
     \/ /\ \A b \in Oldest(i) : ~ Better(p, b)
        /\ UNCHANGED <<cur, own, bucket_locks>>
  /\ idx' = [idx EXCEPT ![p] = i + 1]
  /\ UNCHANGED <<lock, bufvars, holder, content, ticks, pc, want>>

\* The loop ends without a victim.
NoBuffer(p) ==
  /\ At(p, "scan")
  /\ idx[p] = NBUCKET
  /\ cur[p] = NoBuf
  /\ Goto(p, "panic")
  /\ UNCHANGED <<lock, bucket_locks, bufvars, holder, content, ticks, locals>>

\* Mutant: valid is not cleared.
AssignValid(p, b) ==
  /\ blockno' = [blockno EXCEPT ![b] = want[p]]
  /\ refcnt' = [refcnt EXCEPT ![b] = 1]
  /\ owner' = [owner EXCEPT ![b] = Index(p)]
  /\ UNCHANGED valid

\* The buffer is assigned to the wanted block.
Assign(p, b) ==
  /\ blockno' = [blockno EXCEPT ![b] = want[p]]
  /\ refcnt' = [refcnt EXCEPT ![b] = 1]
  /\ valid' = [valid EXCEPT ![b] = FALSE]
  /\ owner' = [owner EXCEPT ![b] = Index(p)]

\* The loop's variables are dead after it.
LeaveLoop(p) ==
  /\ idx' = [idx EXCEPT ![p] = 0]
  /\ own' = [own EXCEPT ![p] = NBUCKET]

\* The victim is already in the right bucket.
ReuseHere(p) ==
  /\ At(p, "scan")
  /\ idx[p] = NBUCKET
  /\ cur[p] # NoBuf
  /\ own[p] = Index(p)
  /\ Assign(p, cur[p])
  /\ bucket_locks' = [bucket_locks EXCEPT ![own[p]] = NoProc]
  /\ lock' = NoProc
  /\ LeaveLoop(p)
  /\ Goto(p, "sleep")
  /\ UNCHANGED <<bucket, lastuse_time, holder, content, ticks, want, cur>>

\* The victim is unlinked from the bucket it was found in ...
Unlink(p) ==
  /\ At(p, "scan")
  /\ idx[p] = NBUCKET
  /\ cur[p] # NoBuf
  /\ own[p] # Index(p)
  /\ bucket' = [bucket EXCEPT ![own[p]] = @ \ {cur[p]}]
  /\ bucket_locks' = [bucket_locks EXCEPT ![own[p]] = NoProc]
  /\ LeaveLoop(p)
  /\ Goto(p, "link")
  /\ UNCHANGED <<lock, blockno, refcnt, valid, lastuse_time, owner, holder,
                 content, ticks, want, cur>>

\* ... and linked into the bucket of the wanted block.
Link(p) ==
  /\ At(p, "link")
  /\ bucket_locks[Index(p)] = NoProc
  /\ bucket' = [bucket EXCEPT ![Index(p)] = @ \cup {cur[p]}]
  /\ Assign(p, cur[p])
  /\ lock' = NoProc
  /\ Goto(p, "sleep")
  /\ UNCHANGED <<bucket_locks, lastuse_time, holder, content, ticks, locals>>

\* acquiresleep at the end of bget.
AcquireSleep(p) ==
  /\ At(p, "sleep")
  /\ holder[cur[p]] = NoProc
  /\ holder' = [holder EXCEPT ![cur[p]] = p]
  /\ Goto(p, "load")
  /\ UNCHANGED <<lock, bucket_locks, bufvars, content, ticks, locals>>

\* bread reads the block unless the buffer holds it already.
Load(p) ==
  LET b == cur[p] IN
  /\ At(p, "load")
  /\ data' = [data EXCEPT ![b] = IF valid[b] THEN @ ELSE disk[blockno[b]]]
  /\ valid' = [valid EXCEPT ![b] = TRUE]
  /\ Goto(p, "use")
  /\ UNCHANGED <<lock, bucket_locks, bucket, blockno, refcnt, lastuse_time,
                 owner, holder, disk, logged, ticks, locals>>

-----------------------------------------------------------------------------
\* The caller of bread changes the data of the buffer it holds.
Modify(p, v) ==
  /\ At(p, "use")
  /\ data' = [data EXCEPT ![cur[p]] = v]
  /\ Goto(p, "dirty")
  /\ UNCHANGED <<lock, bucket_locks, bufvars, holder, disk, logged, ticks,
                 locals>>

\* bwrite of a changed buffer.
Bwrite(p) ==
  /\ At(p, "dirty")
  /\ disk' = [disk EXCEPT ![blockno[cur[p]]] = data[cur[p]]]
  /\ Goto(p, "use")
  /\ UNCHANGED <<lock, bucket_locks, bufvars, holder, data, logged, ticks,
                 locals>>

\* bpin, by log_write, of a changed buffer not yet in the log.
Bpin(p) ==
  LET b == cur[p] IN
  /\ At(p, "dirty")
  /\ blockno[b] \notin logged
  /\ bucket_locks[BUCKET_HASH(blockno[b])] = NoProc
  /\ refcnt' = [refcnt EXCEPT ![b] = @ + 1]
  /\ logged' = logged \cup {blockno[b]}
  /\ Goto(p, "use")
  /\ UNCHANGED <<lock, bucket_locks, bucket, blockno, valid, lastuse_time,
                 owner, holder, data, disk, ticks, locals>>

\* log_write of a block already in the log.
Absorb(p) ==
  /\ At(p, "dirty")
  /\ blockno[cur[p]] \in logged
  /\ Goto(p, "use")
  /\ UNCHANGED <<lock, bucket_locks, bufvars, holder, content, ticks, locals>>

\* The commit installs a logged block: bwrite, then bunpin.
Install(p) ==
  /\ At(p, "use")
  /\ blockno[cur[p]] \in logged
  /\ disk' = [disk EXCEPT ![blockno[cur[p]]] = data[cur[p]]]
  /\ logged' = logged \ {blockno[cur[p]]}
  /\ Goto(p, "unpin")
  /\ UNCHANGED <<lock, bucket_locks, bufvars, holder, data, ticks, locals>>

Bunpin(p) ==
  LET b == cur[p] IN
  /\ At(p, "unpin")
  /\ bucket_locks[BUCKET_HASH(blockno[b])] = NoProc
  /\ refcnt' = [refcnt EXCEPT ![b] = @ - 1]
  /\ Goto(p, "use")
  /\ UNCHANGED <<lock, bucket_locks, bucket, blockno, valid, lastuse_time,
                 owner, holder, content, ticks, locals>>

\* brelse gives the sleeplock up first ...
Brelse(p) ==
  /\ At(p, "use")
  /\ holder' = [holder EXCEPT ![cur[p]] = NoProc]
  /\ Goto(p, "rel")
  /\ UNCHANGED <<lock, bucket_locks, bufvars, content, ticks, locals>>

\* ... then reads the block number of a buffer it no longer has locked ...
BrelseIndex(p) ==
  /\ At(p, "rel")
  /\ idx' = [idx EXCEPT ![p] = BUCKET_HASH(blockno[cur[p]])]
  /\ Goto(p, "dec")
  /\ UNCHANGED <<lock, bucket_locks, bufvars, holder, content, ticks, want,
                 cur, own>>

\* ... and drops the reference under the lock of that bucket.
BrelseDec(p) ==
  LET b == cur[p] IN
  /\ At(p, "dec")
  /\ bucket_locks[idx[p]] = NoProc
  /\ refcnt' = [refcnt EXCEPT ![b] = @ - 1]
  /\ lastuse_time' = [lastuse_time EXCEPT ![b] = IF refcnt'[b] = 0 THEN ticks
                                                 ELSE @]
  /\ cur' = [cur EXCEPT ![p] = NoBuf]
  /\ want' = [want EXCEPT ![p] = NoBlock]
  /\ idx' = [idx EXCEPT ![p] = 0]
  /\ Goto(p, "idle")
  /\ UNCHANGED <<lock, bucket_locks, bucket, blockno, valid, owner, holder,
                 content, ticks, own>>

\* The timer interrupt.
Tick ==
  /\ ticks < MaxTicks
  /\ ticks' = ticks + 1
  /\ UNCHANGED <<lock, bucket_locks, bufvars, holder, content, pc, locals>>

\* A panic stops the machine.
Halted ==
  /\ \E p \in Proc : At(p, "panic")
  /\ UNCHANGED vars

BgetStep(p) ==
  \/ LookHit(p) \/ LookMiss(p) \/ AcquireBig(p) \/ Recheck(p) \/ Hit(p)
  \/ Scan(p) \/ NoBuffer(p) \/ ReuseHere(p) \/ Unlink(p) \/ Link(p)
  \/ AcquireSleep(p) \/ Load(p)

UseStep(p) ==
  \/ \E v \in Value : Modify(p, v)
  \/ Bwrite(p) \/ Bpin(p) \/ Absorb(p) \/ Install(p) \/ Bunpin(p)
  \/ Brelse(p) \/ BrelseIndex(p) \/ BrelseDec(p)

Next ==
  \/ \E p \in Proc, k \in Block : Bread(p, k)
  \/ \E p \in Proc : BgetStep(p) \/ UseStep(p)
  \/ Tick
  \/ Halted

Spec == Init /\ [][Next]_vars
-----------------------------------------------------------------------------
\* A process between the reference count of bget and that of brelse.
Holding == {"sleep", "load", "use", "dirty", "unpin", "rel", "dec"}

Referring(p, b) == cur[p] = b /\ pc[p] \in Holding

\* A process that bread gave the buffer to (or is giving it to).
Using(p) == pc[p] \in {"load", "use", "dirty", "unpin"}

\* The log's own reference: from bpin to the end of bunpin.
Pinned(b) ==
  \/ blockno[b] \in logged
  \/ \E p \in Proc : cur[p] = b /\ pc[p] = "unpin"

\* The processes whose reference b's refcnt counts.
Refs(b) == {p \in Proc : Referring(p, b)}

\* b was unlinked from one bucket and not yet linked into the other.
Moving(b) == \E p \in Proc : pc[p] = "link" /\ cur[p] = b

\* bget's second search is there to prevent one block from being cached in
\* two buffers: no two buffers are ever assigned to the same block.
OneBufferPerBlock ==
  \A b, c \in Buf : blockno[b] = blockno[c] /\ b # c => blockno[b] = NoBlock

\* A buffer's refcnt is the number of processes between bget and brelse that
\* refer to it plus the log's pin, whatever the order of their steps; so a
\* free buffer (refcnt 0) is one that nobody will touch again.
RefcntExact ==
  \A b \in Buf :
    refcnt[b] = Cardinality(Refs(b)) + (IF Pinned(b) THEN 1 ELSE 0)

\* What holds for a process that refers to a buffer.
Mine(p) ==
  /\ \A b \in Buf : Referring(p, b) => blockno[b] = want[p]
  /\ Using(p) => holder[cur[p]] = p
  /\ pc[p] = "dec" => idx[p] = BUCKET_HASH(blockno[cur[p]])

\* From the moment bget counted its reference until brelse dropped it, the
\* buffer stays assigned to the block asked for; it is locked by its user
\* while it is used, so the panics of bwrite and brelse are unreachable.
BufferIsMine == \A p \in Proc : Mine(p)

\* Every buffer is linked in exactly one bucket, the one of its block and
\* the one recorded in b->owner, except the buffer bget is moving, which is
\* linked nowhere and which no search can find.
LinkedOnce ==
  \A b \in Buf, i \in Bucket :
    /\ b \in bucket[i] <=> i = owner[b] /\ ~ Moving(b)
    /\ b \in bucket[i] /\ blockno[b] # NoBlock => i = BUCKET_HASH(blockno[b])

\* Where a process holds bcache.lock.
Critical == {"recheck", "hit", "scan", "link", "panic"}

\* The lock order that excludes deadlock: a bucket lock is kept across steps
\* only by the process that replaces a buffer, which holds bcache.lock, and
\* it keeps exactly the lock of the bucket its victim is in.
LockOrder ==
  \A p \in Proc :
    /\ \A i \in Bucket : bucket_locks[i] = p =>
         lock = p /\ pc[p] = "scan" /\ own[p] = i /\ cur[p] \in bucket[i]
    /\ pc[p] \in Critical <=> lock = p

\* What a process knows at each point about the block it wants and the
\* buffer it works on: in particular, once the second search of bget failed
\* the block stays uncached until the victim is assigned to it.
Knows(p) ==
  /\ pc[p] # "idle" => want[p] \in Block
  /\ pc[p] \in {"idle", "look", "big", "recheck"} => cur[p] = NoBuf
  /\ pc[p] \in {"hit", "link"} \cup Holding => cur[p] \in Buf
  /\ pc[p] = "hit" => /\ blockno[cur[p]] = want[p]
                      /\ cur[p] \in bucket[Index(p)]
  /\ pc[p] \in {"scan", "link"} => \A b \in Buf : blockno[b] # want[p]
  /\ pc[p] = "scan" /\ cur[p] # NoBuf => /\ own[p] \in Bucket
                                         /\ bucket_locks[own[p]] = p
                                         /\ cur[p] \in bucket[own[p]]
  /\ ~ (pc[p] = "scan" /\ cur[p] # NoBuf) => own[p] = NBUCKET

Knowledge == \A p \in Proc : Knows(p)

\* The victim stays free from the moment bget chose it until it is assigned.
VictimFree ==
  \A p \in Proc : pc[p] \in {"scan", "link"} /\ cur[p] # NoBuf
                    => refcnt[cur[p]] = 0

\* The log pins only blocks that are cached, and forgets a block before it
\* unpins its buffer.
LogSound ==
  /\ \A k \in logged : \E b \in Buf : blockno[b] = k
  /\ \A p \in Proc : pc[p] = "unpin" => want[p] \notin logged

\* The inductive invariant.
IInv ==
  /\ TypeOK /\ LockOrder /\ LinkedOnce /\ OneBufferPerBlock
  /\ RefcntExact /\ BufferIsMine /\ Knowledge /\ VictimFree /\ LogSound

\* The block store the cache implements: a block's contents are those of the
\* valid buffer that caches it, and of the device when there is none.
CachedIn(k) == {b \in Buf : blockno[b] = k /\ valid[b]}

Store ==
  [k \in Block |-> IF CachedIn(k) = {} THEN disk[k]
                   ELSE data[CHOOSE b \in CachedIn(k) : TRUE]]

User ==
  [k \in Block |->
     IF \E p \in Proc : pc[p] \in {"use", "dirty", "unpin"} /\ want[p] = k
     THEN CHOOSE p \in Proc : pc[p] \in {"use", "dirty", "unpin"}
                                /\ want[p] = k
     ELSE NoProc]

Abstract == INSTANCE BlockStore WITH store <- Store, user <- User

\* The cache implements the block store: a bread returns the latest contents
\* of the block to one process at a time, although buffers are replaced,
\* re-read, pinned and written back in between.
ImplementsBlockStore == Abstract!Spec
=============================================================================
