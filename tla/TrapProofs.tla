----------------------------- MODULE TrapProofs ------------------------------
(***************************************************************************)
(* What brings a CPU into the kernel.  First the system calls: their       *)
(* numbers, tables and masks, for all five labs, and the scan of sysinfo   *)
(* for any number of slots.  NprocBetween is not inductive: SysInv says    *)
(* what a scan has counted so far.                                         *)
(*                                                                         *)
(* Then the network driver, for rings of any size.  The packets are        *)
(* numbered, so the state of a ring follows from how many packets have     *)
(* passed each of its ends: a descriptor's index is such a number modulo   *)
(* the ring's size.                                                        *)
(*                                                                         *)
(* What is needed of the library's theorems about finite sets (Counting,   *)
(* and that the receive ring can be filled) is assumed where it is used    *)
(* and shown at the end, where the theorems are.                           *)
(***************************************************************************)
EXTENDS Syscall, E1000, TLAPS

Labs == {"syscalls", "traps", "filesystem", "mmap", "pagetables"}

SysType ==
  /\ lab \in Labs
  /\ state \in [Slot -> {"unused", "used", "zombie"}]
  /\ trace_mask \in [Slot -> Argument \cup {{}}]
  /\ asked \in [Slot -> Argument \cup {{}}]
  /\ a7 \in [Slot -> Nat]
  /\ called \in [Slot -> {"none"} \cup usys(lab)]
  /\ scan \in [Slot -> [p : 0 .. NPROC, num : Nat] \cup {NoScan}]
  /\ span \in [Slot -> [all : SUBSET Slot, some : SUBSET Slot]]

\* What a scan has counted of the slots it has been at.
ScanCounts(p) ==
  LET been == 0 .. scan[p].p - 1 IN
  /\ span[p].all \subseteq Existing /\ Existing \subseteq span[p].some
  /\ Cardinality(span[p].all \cap been) <= scan[p].num
  /\ scan[p].num <= Cardinality(span[p].some \cap been)

\* No mask stays in a slot.
Masked == \A p \in Slot : state[p] = "used" => trace_mask[p] = asked[p]

\* A kernel without trace has no masks.
Unmasked == "trace" \notin syscalls(lab) => \A p \in Slot : trace_mask[p] = {}

\* The number of a call under way is that of its stub.
StubNumbers ==
  \A p \in Slot : a7[p] > 0 =>
    /\ a7[p] \in DOMAIN SYS(lab) /\ SYS(lab)[a7[p]] = called[p]
    /\ called[p] \in PLAIN \cup {"fork", "exit", "wait", "trace", "sysinfo"}

\* The inductive invariant.
SysInv ==
  /\ SysType /\ Masked /\ Unmasked /\ StubNumbers
  /\ \A p \in Slot : scan[p] # NoScan => ScanCounts(p)

\* The tables, lab by lab.
LEMMA Tables ==
  /\ SYS("syscalls") = SYS_syscalls /\ SYS("traps") = SYS_traps
  /\ SYS("filesystem") = SYS_filesystem /\ SYS("mmap") = SYS_mmap
  /\ SYS("pagetables") = SYS_pagetables
  /\ usys("syscalls") = usys_syscalls /\ usys("traps") = usys_traps
  /\ usys("filesystem") = usys_filesystem /\ usys("mmap") = usys_mmap
  /\ usys("pagetables") = usys_pagetables
  /\ syscalls("syscalls") = syscalls_syscalls /\ syscalls("traps") = syscalls_traps
  /\ syscalls("filesystem") = syscalls_filesystem /\ syscalls("mmap") = syscalls_mmap
  /\ syscalls("pagetables") = syscalls_pagetables
  /\ NameTable("syscalls") = syscall_names /\ NameTable("pagetables") = syscalls_name
BY SMTT(30) DEF SYS, usys, syscalls, NameTable

\* The numbers of the calls that every lab has.
LEMMA BasicNumbers ==
  /\ BasicCalls = {Basic[n] : n \in 1 .. 21}
  /\ \A m, n \in 1 .. 21 : Basic[m] = Basic[n] => m = n
  /\ \A n \in 1 .. 21 : Basic[n] \notin {"trace", "sysinfo", "sigalarm", "sigreturn", "symlink",
                                         "mmap", "munmap", "connect", "pgaccess", "none"}
<1>1. DOMAIN Basic = 1 .. 21
  BY DEF Basic
<1>2. /\ Basic[1] = "fork" /\ Basic[2] = "exit" /\ Basic[3] = "wait"
      /\ Basic[4] = "pipe" /\ Basic[5] = "read" /\ Basic[6] = "kill"
      /\ Basic[7] = "exec" /\ Basic[8] = "fstat" /\ Basic[9] = "chdir"
      /\ Basic[10] = "dup" /\ Basic[11] = "getpid" /\ Basic[12] = "sbrk"
      /\ Basic[13] = "sleep" /\ Basic[14] = "uptime" /\ Basic[15] = "open"
      /\ Basic[16] = "write" /\ Basic[17] = "mknod" /\ Basic[18] = "unlink"
      /\ Basic[19] = "link" /\ Basic[20] = "mkdir" /\ Basic[21] = "close"
  BY DEF Basic
<1>3. ASSUME NEW n \in 1 .. 21
      PROVE \/ n = 1 \/ n = 2 \/ n = 3 \/ n = 4 \/ n = 5 \/ n = 6 \/ n = 7
          \/ n = 8 \/ n = 9 \/ n = 10 \/ n = 11 \/ n = 12 \/ n = 13 \/ n = 14
          \/ n = 15 \/ n = 16 \/ n = 17 \/ n = 18 \/ n = 19 \/ n = 20 \/ n = 21
  OBVIOUS
<1>4. \A m, n \in 1 .. 21 : Basic[m] = Basic[n] => m = n
  BY <1>2, <1>3
<1>5. \A n \in 1 .. 21 : Basic[n] \notin {"trace", "sysinfo", "sigalarm", "sigreturn", "symlink",
                                         "mmap", "munmap", "connect", "pgaccess", "none"}
  BY SMTT(30), <1>2, <1>3
<1>6. QED BY <1>1, <1>4, <1>5 DEF BasicCalls

\* The syscall.h of the system call lab: the basic calls have the numbers they have in
\* every lab, the lab's own calls follow.
LEMMA Numbers_syscalls ==
  /\ DOMAIN SYS_syscalls = 1 .. 23 /\ \A n \in 1 .. 21 : SYS_syscalls[n] = Basic[n]
  /\ SYS_syscalls[22] = "trace" /\ SYS_syscalls[23] = "sysinfo"
<1>1. DOMAIN SYS_syscalls = 1 .. 23
  BY DEF SYS_syscalls, Basic
<1>2. /\ SYS_syscalls[22] = "trace" /\ SYS_syscalls[23] = "sysinfo"
  BY DEF SYS_syscalls, Basic
<1>3. \A n \in 1 .. 21 : SYS_syscalls[n] = Basic[n]
  BY DEF SYS_syscalls, Basic
<1>4. QED BY <1>1, <1>2, <1>3

\* The syscall.h of the traps lab: the basic calls have the numbers they have in
\* every lab, the lab's own calls follow.
LEMMA Numbers_traps ==
  /\ DOMAIN SYS_traps = 1 .. 23 /\ \A n \in 1 .. 21 : SYS_traps[n] = Basic[n]
  /\ SYS_traps[22] = "sigalarm" /\ SYS_traps[23] = "sigreturn"
<1>1. DOMAIN SYS_traps = 1 .. 23
  BY DEF SYS_traps, Basic
<1>2. /\ SYS_traps[22] = "sigalarm" /\ SYS_traps[23] = "sigreturn"
  BY DEF SYS_traps, Basic
<1>3. \A n \in 1 .. 21 : SYS_traps[n] = Basic[n]
  BY DEF SYS_traps, Basic
<1>4. QED BY <1>1, <1>2, <1>3

\* The syscall.h of the file system lab: the basic calls have the numbers they have in
\* every lab, the lab's own calls follow.
LEMMA Numbers_filesystem ==
  /\ DOMAIN SYS_filesystem = 1 .. 22 /\ \A n \in 1 .. 21 : SYS_filesystem[n] = Basic[n]
  /\ SYS_filesystem[22] = "symlink"
<1>1. DOMAIN SYS_filesystem = 1 .. 22
  BY DEF SYS_filesystem, Basic
<1>2. /\ SYS_filesystem[22] = "symlink"
  BY DEF SYS_filesystem, Basic
<1>3. \A n \in 1 .. 21 : SYS_filesystem[n] = Basic[n]
  BY DEF SYS_filesystem, Basic
<1>4. QED BY <1>1, <1>2, <1>3

\* The syscall.h of the mmap lab: the basic calls have the numbers they have in
\* every lab, the lab's own calls follow.
LEMMA Numbers_mmap ==
  /\ DOMAIN SYS_mmap = 1 .. 23 /\ \A n \in 1 .. 21 : SYS_mmap[n] = Basic[n]
  /\ SYS_mmap[22] = "mmap" /\ SYS_mmap[23] = "munmap"
<1>1. DOMAIN SYS_mmap = 1 .. 23
  BY DEF SYS_mmap, Basic
<1>2. /\ SYS_mmap[22] = "mmap" /\ SYS_mmap[23] = "munmap"
  BY DEF SYS_mmap, Basic
<1>3. \A n \in 1 .. 21 : SYS_mmap[n] = Basic[n]
  BY DEF SYS_mmap, Basic
<1>4. QED BY <1>1, <1>2, <1>3

\* The syscall.h of the page table lab: the basic calls have the numbers they have in
\* every lab, the lab's own calls follow.
LEMMA Numbers_pagetables ==
  /\ DOMAIN SYS_pagetables = 1 .. 30 /\ \A n \in 1 .. 21 : SYS_pagetables[n] = Basic[n]
  /\ SYS_pagetables[22] = "trace" /\ SYS_pagetables[23] = "sysinfo" /\ SYS_pagetables[24] = "sigalarm"
  /\ SYS_pagetables[25] = "sigreturn" /\ SYS_pagetables[26] = "symlink" /\ SYS_pagetables[27] = "mmap"
  /\ SYS_pagetables[28] = "munmap" /\ SYS_pagetables[29] = "connect" /\ SYS_pagetables[30] = "pgaccess"
<1>1. DOMAIN SYS_pagetables = 1 .. 30
  BY DEF SYS_pagetables, Basic
<1>2. /\ SYS_pagetables[22] = "trace" /\ SYS_pagetables[23] = "sysinfo" /\ SYS_pagetables[24] = "sigalarm"
      /\ SYS_pagetables[25] = "sigreturn" /\ SYS_pagetables[26] = "symlink" /\ SYS_pagetables[27] = "mmap"
      /\ SYS_pagetables[28] = "munmap" /\ SYS_pagetables[29] = "connect" /\ SYS_pagetables[30] = "pgaccess"
  BY DEF SYS_pagetables, Basic
<1>3. \A n \in 1 .. 21 : SYS_pagetables[n] = Basic[n]
  BY DEF SYS_pagetables, Basic
<1>4. QED BY <1>1, <1>2, <1>3

\* What the tables of a kernel have in common: no two calls share a number, a
\* stub has one, and a call that is served has a name to print, if the kernel
\* traces calls at all and the call is not pgaccess.
Fit(s, stubs, served, names) ==
  /\ \A m, n \in DOMAIN s : s[m] = s[n] => m = n
  /\ \A n \in DOMAIN s : n \in Nat \ {0} /\ s[n] # "none"
  /\ \A c \in stubs : \E n \in DOMAIN s : s[n] = c
  /\ "trace" \in served => \A n \in DOMAIN s : s[n] \in served => 
       s[n] \in names \/ (n = 30 /\ s[n] = "pgaccess")

\* The tables of every lab fit together.
LEMMA TablesFit ==
  ASSUME NEW l \in Labs
  PROVE  Fit(SYS(l), usys(l), syscalls(l), NameTable(l))
<1>1. CASE l = "syscalls"
  <2>1. ASSUME NEW n \in 1 .. 23 PROVE n \in 1 .. 21 \/ n = 22 \/ n = 23
    OBVIOUS
  <2>2. DOMAIN SYS_syscalls = 1 .. 23
    BY SMTT(30), Numbers_syscalls
  <2>3. \A m, n \in DOMAIN SYS_syscalls : SYS_syscalls[m] = SYS_syscalls[n] => m = n
    BY SMTT(30), <2>1, <2>2, BasicNumbers, Numbers_syscalls
  <2>4. \A n \in DOMAIN SYS_syscalls : n \in Nat \ {0} /\ SYS_syscalls[n] # "none"
    BY SMTT(30), <2>1, <2>2, BasicNumbers, Numbers_syscalls
  <2>5. ASSUME NEW c \in usys_syscalls PROVE \E n \in DOMAIN SYS_syscalls : SYS_syscalls[n] = c
    <3>1. CASE c \in BasicCalls
      <4>1. PICK n \in 1 .. 21 : c = Basic[n]
        BY <3>1, BasicNumbers
      <4>2. n \in DOMAIN SYS_syscalls
        BY <2>2
      <4>3. QED BY SMTT(30), <4>1, <4>2, Numbers_syscalls
    <3>2. CASE c \notin BasicCalls
      BY <2>2, <3>2, Numbers_syscalls DEF usys_syscalls
    <3>3. QED BY <3>1, <3>2
  <2>6. syscalls_syscalls \subseteq syscall_names
    BY DEF syscalls_syscalls, syscall_names
  <2>7. Fit(SYS_syscalls, usys_syscalls, syscalls_syscalls, syscall_names)
    BY <2>3, <2>4, <2>5, <2>6, Zenon DEF Fit
  <2>8. QED BY <1>1, <2>7, Tables
<1>2. CASE l = "traps"
  <2>1. ASSUME NEW n \in 1 .. 23 PROVE n \in 1 .. 21 \/ n = 22 \/ n = 23
    OBVIOUS
  <2>2. DOMAIN SYS_traps = 1 .. 23
    BY SMTT(30), Numbers_traps
  <2>3. \A m, n \in DOMAIN SYS_traps : SYS_traps[m] = SYS_traps[n] => m = n
    BY SMTT(30), <2>1, <2>2, BasicNumbers, Numbers_traps
  <2>4. \A n \in DOMAIN SYS_traps : n \in Nat \ {0} /\ SYS_traps[n] # "none"
    BY <2>1, <2>2, BasicNumbers, Numbers_traps
  <2>5. ASSUME NEW c \in usys_traps PROVE \E n \in DOMAIN SYS_traps : SYS_traps[n] = c
    <3>1. CASE c \in BasicCalls
      <4>1. PICK n \in 1 .. 21 : c = Basic[n]
        BY <3>1, BasicNumbers
      <4>2. n \in DOMAIN SYS_traps
        BY <2>2
      <4>3. QED BY SMTT(30), <4>1, <4>2, Numbers_traps
    <3>2. CASE c \notin BasicCalls
      BY SMTT(30), <2>2, <3>2, Numbers_traps DEF usys_traps
    <3>3. QED BY <3>1, <3>2
  <2>6. "trace" \notin syscalls_traps
    BY BasicNumbers DEF syscalls_traps
  <2>7. Fit(SYS_traps, usys_traps, syscalls_traps, NameTable(l))
    BY <2>3, <2>4, <2>5, <2>6, Zenon DEF Fit
  <2>8. QED BY <1>2, <2>7, Tables
<1>3. CASE l = "filesystem"
  <2>1. ASSUME NEW n \in 1 .. 22 PROVE n \in 1 .. 21 \/ n = 22
    OBVIOUS
  <2>2. DOMAIN SYS_filesystem = 1 .. 22
    BY SMTT(30), Numbers_filesystem
  <2>3. \A m, n \in DOMAIN SYS_filesystem : SYS_filesystem[m] = SYS_filesystem[n] => m = n
    BY SMTT(30), <2>1, <2>2, BasicNumbers, Numbers_filesystem
  <2>4. \A n \in DOMAIN SYS_filesystem : n \in Nat \ {0} /\ SYS_filesystem[n] # "none"
    BY SMTT(30), <2>1, <2>2, BasicNumbers, Numbers_filesystem
  <2>5. ASSUME NEW c \in usys_filesystem PROVE \E n \in DOMAIN SYS_filesystem : SYS_filesystem[n] = c
    <3>1. CASE c \in BasicCalls
      <4>1. PICK n \in 1 .. 21 : c = Basic[n]
        BY <3>1, BasicNumbers
      <4>2. n \in DOMAIN SYS_filesystem
        BY <2>2
      <4>3. QED BY <4>1, <4>2, Numbers_filesystem
    <3>2. CASE c \notin BasicCalls
      BY SMTT(30), <2>2, <3>2, Numbers_filesystem DEF usys_filesystem
    <3>3. QED BY <3>1, <3>2
  <2>6. "trace" \notin syscalls_filesystem
    BY BasicNumbers DEF syscalls_filesystem
  <2>7. Fit(SYS_filesystem, usys_filesystem, syscalls_filesystem, NameTable(l))
    BY <2>3, <2>4, <2>5, <2>6, Zenon DEF Fit
  <2>8. QED BY <1>3, <2>7, Tables
<1>4. CASE l = "mmap"
  <2>1. ASSUME NEW n \in 1 .. 23 PROVE n \in 1 .. 21 \/ n = 22 \/ n = 23
    OBVIOUS
  <2>2. DOMAIN SYS_mmap = 1 .. 23
    BY SMTT(30), Numbers_mmap
  <2>3. \A m, n \in DOMAIN SYS_mmap : SYS_mmap[m] = SYS_mmap[n] => m = n
    BY SMTT(30), <2>1, <2>2, BasicNumbers, Numbers_mmap
  <2>4. \A n \in DOMAIN SYS_mmap : n \in Nat \ {0} /\ SYS_mmap[n] # "none"
    BY <2>1, <2>2, BasicNumbers, Numbers_mmap
  <2>5. ASSUME NEW c \in usys_mmap PROVE \E n \in DOMAIN SYS_mmap : SYS_mmap[n] = c
    <3>1. CASE c \in BasicCalls
      <4>1. PICK n \in 1 .. 21 : c = Basic[n]
        BY <3>1, BasicNumbers
      <4>2. n \in DOMAIN SYS_mmap
        BY <2>2
      <4>3. QED BY <4>1, <4>2, Numbers_mmap
    <3>2. CASE c \notin BasicCalls
      BY <2>2, <3>2, Numbers_mmap DEF usys_mmap
    <3>3. QED BY <3>1, <3>2
  <2>6. "trace" \notin syscalls_mmap
    BY BasicNumbers DEF syscalls_mmap
  <2>7. Fit(SYS_mmap, usys_mmap, syscalls_mmap, NameTable(l))
    BY <2>3, <2>4, <2>5, <2>6, Zenon DEF Fit
  <2>8. QED BY <1>4, <2>7, Tables
<1>5. CASE l = "pagetables"
  <2>1. ASSUME NEW n \in 1 .. 30 PROVE n \in 1 .. 21 \/ n = 22 \/ n = 23 \/ n = 24 \/ n = 25 \/ n = 26 \/ n = 27 \/ n = 28 \/ n = 29 \/ n = 30
    OBVIOUS
  <2>2. DOMAIN SYS_pagetables = 1 .. 30
    BY SMTT(30), Numbers_pagetables
  <2>3. \A m, n \in DOMAIN SYS_pagetables : SYS_pagetables[m] = SYS_pagetables[n] => m = n
    BY SMTT(30), <2>1, <2>2, BasicNumbers, Numbers_pagetables
  <2>4. \A n \in DOMAIN SYS_pagetables : n \in Nat \ {0} /\ SYS_pagetables[n] # "none"
    BY SMTT(30), <2>1, <2>2, BasicNumbers, Numbers_pagetables
  <2>5. ASSUME NEW c \in usys_pagetables PROVE \E n \in DOMAIN SYS_pagetables : SYS_pagetables[n] = c
    <3>1. CASE c \in BasicCalls
      <4>1. PICK n \in 1 .. 21 : c = Basic[n]
        BY <3>1, BasicNumbers
      <4>2. n \in DOMAIN SYS_pagetables
        BY <2>2
      <4>3. QED BY <4>1, <4>2, Numbers_pagetables
    <3>2. CASE c \notin BasicCalls
      BY <2>2, <3>2, Numbers_pagetables DEF usys_pagetables
    <3>3. QED BY <3>1, <3>2
  <2>6. ASSUME NEW n \in DOMAIN SYS_pagetables, SYS_pagetables[n] \in syscalls_pagetables
        PROVE  SYS_pagetables[n] \in syscalls_name \/ (n = 30 /\ SYS_pagetables[n] = "pgaccess")
    <3>1. SYS_pagetables[30] = "pgaccess" /\ 30 \in DOMAIN SYS_pagetables
      BY <2>2, Numbers_pagetables
    <3>2. SYS_pagetables[n] \in syscalls_name \/ SYS_pagetables[n] = "pgaccess"
      BY <2>6 DEF syscalls_pagetables, syscalls_name
    <3>3. QED BY <2>3, <3>1, <3>2, Zenon
  <2>7. Fit(SYS_pagetables, usys_pagetables, syscalls_pagetables, syscalls_name)
    BY <2>3, <2>4, <2>5, <2>6, Zenon DEF Fit
  <2>8. QED BY <1>5, <2>7, Tables
<1>6. QED BY <1>1, <1>2, <1>3, <1>4, <1>5 DEF Labs

\* A number of a lab leads to the call of that number or to none.
LEMMA EntryOf ==
  ASSUME NEW l, NEW table, NEW n \in DOMAIN SYS(l)
  PROVE  /\ Entry(l, table, n) \in {SYS(l)[n], "none"}
         /\ Entry(l, table, n) # "none" =>
              Entry(l, table, n) = SYS(l)[n] /\ SYS(l)[n] \in table
BY Zenon DEF Entry

\* A call has one number in a lab.
LEMMA OneNumber ==
  ASSUME NEW l \in Labs, NEW m \in DOMAIN SYS(l), NEW n \in DOMAIN SYS(l), SYS(l)[m] = SYS(l)[n]
  PROVE  m = n
BY TablesFit, Zenon DEF Fit

\* In a kernel that traces calls, a call that is served has a name to print,
\* unless it is pgaccess.
LEMMA ServedNamed ==
  ASSUME NEW l \in Labs, NEW n \in DOMAIN SYS(l),
         "trace" \in syscalls(l), SYS(l)[n] \in syscalls(l)
  PROVE  SYS(l)[n] \in NameTable(l) \/ (n = 30 /\ SYS(l)[n] = "pgaccess")
BY TablesFit, Zenon DEF Fit

\* The first state.
LEMMA SysInitial == SysInit => SysInv
<1> SUFFICES ASSUME SysInit PROVE SysInv
  OBVIOUS
<1>1. lab \in Labs
  BY SyscallAssumption DEF SysInit, Labs
<1>2. SysType
  <2>1. \A p \in Slot : (IF p = 0 THEN "used" ELSE "unused") \in {"unused", "used", "zombie"}
    OBVIOUS
  <2>2. /\ state \in [Slot -> {"unused", "used", "zombie"}] /\ a7 \in [Slot -> Nat]
        /\ called \in [Slot -> {"none"} \cup usys(lab)] /\ trace_mask \in [Slot -> Argument \cup {{}}]
        /\ asked \in [Slot -> Argument \cup {{}}]
    BY <2>1 DEF SysInit
  <2>3. /\ scan \in [Slot -> [p : 0 .. NPROC, num : Nat] \cup {NoScan}]
        /\ span \in [Slot -> [all : SUBSET Slot, some : SUBSET Slot]]
    BY DEF SysInit
  <2>4. QED BY <1>1, <2>2, <2>3 DEF SysType
<1>3. Masked /\ Unmasked
  BY DEF SysInit, Masked, Unmasked
<1>4. StubNumbers /\ \A p \in Slot : scan[p] = NoScan
  BY DEF SysInit, StubNumbers
<1>5. QED BY <1>2, <1>3, <1>4 DEF SysInv

\* How the members of a set of slots are counted.  CountingHolds shows it at the
\* end, from the theorems about finite sets.
Counting ==
  /\ Cardinality({}) = 0
  /\ \A S \in SUBSET Slot : Cardinality(S) \in Nat
  /\ \A S, T \in SUBSET Slot : S \subseteq T => Cardinality(S) <= Cardinality(T)
  /\ \A S \in SUBSET Slot, q \in Slot : q \notin S => Cardinality(S \cup {q}) = Cardinality(S) + 1

\* A scan goes from a slot to the next one, or to the end.
LEMMA NextSlot ==
  ASSUME NEW q \in Slot
  PROVE  q + 1 \in 0 .. NPROC
BY SyscallAssumption DEF Slot

\* A number that is counted up.
LEMMA NatPlus == \A k \in Nat : k + 1 \in Nat
OBVIOUS

\* The slots that a scan has been at, after another one.
LEMMA OneMore ==
  ASSUME Counting, NEW S \in SUBSET Slot, NEW q \in Slot
  PROVE  /\ q \in S => Cardinality(S \cap (0 .. q)) = Cardinality(S \cap (0 .. q - 1)) + 1
         /\ q \notin S => Cardinality(S \cap (0 .. q)) = Cardinality(S \cap (0 .. q - 1))
<1>1. q \in Int /\ 0 .. q = (0 .. q - 1) \cup {q} /\ q \notin 0 .. q - 1
  BY SyscallAssumption DEF Slot
<1>2. CASE q \in S
  <2>1. S \cap (0 .. q) = (S \cap (0 .. q - 1)) \cup {q} /\ q \notin S \cap (0 .. q - 1)
    BY <1>1, <1>2
  <2>2. S \cap (0 .. q - 1) \in SUBSET Slot
    BY Zenon
  <2>3. Cardinality((S \cap (0 .. q - 1)) \cup {q}) = Cardinality(S \cap (0 .. q - 1)) + 1
    BY Zenon, <2>1, <2>2 DEF Counting
  <2>4. QED BY Zenon, <1>2, <2>1, <2>3
<1>3. CASE q \notin S
  <2>1. S \cap (0 .. q) = S \cap (0 .. q - 1)
    BY <1>1, <1>3
  <2>2. QED BY <1>3, <2>1
<1>4. QED BY <1>2, <1>3

\* A slot that is taken or freed leaves the count of a scan under way right.
LEMMA SeenCounted ==
  ASSUME Counting, SysInv, NEW q \in Slot, NEW exists \in BOOLEAN, Seen(q, exists), UNCHANGED scan,
         Existing' = IF exists THEN Existing \cup {q} ELSE Existing \ {q}
  PROVE  /\ span' \in [Slot -> [all : SUBSET Slot, some : SUBSET Slot]]
         /\ \A p \in Slot : scan'[p] # NoScan => ScanCounts(p)'
<1>1. \A p \in Slot : /\ span[p] \in [all : SUBSET Slot, some : SUBSET Slot]
                      /\ scan[p] \in [p : 0 .. NPROC, num : Nat] \cup {NoScan}
  BY DEF SysInv, SysType
<1>2. ASSUME NEW p \in Slot
      PROVE span'[p] = IF scan[p] = NoScan THEN span[p]
                       ELSE IF exists THEN [span[p] EXCEPT !.some = @ \cup {q}]
                       ELSE [span[p] EXCEPT !.all = @ \ {q}]
  BY DEF Seen
<1>3. span' \in [Slot -> [all : SUBSET Slot, some : SUBSET Slot]]
  <2>1. ASSUME NEW p \in Slot PROVE span'[p] \in [all : SUBSET Slot, some : SUBSET Slot]
    <3>1. CASE scan[p] = NoScan
      BY Zenon, <1>1, <1>2, <3>1
    <3>2. CASE scan[p] # NoScan /\ exists
      <4>1. span'[p] = [all |-> span[p].all, some |-> span[p].some \cup {q}]
        BY <1>1, <1>2, <3>2
      <4>2. QED BY <1>1, <4>1
    <3>3. CASE scan[p] # NoScan /\ ~exists
      <4>1. span'[p] = [all |-> span[p].all \ {q}, some |-> span[p].some]
        BY <1>1, <1>2, <3>3
      <4>2. QED BY <1>1, <4>1
    <3>4. QED BY <3>1, <3>2, <3>3
  <2>2. QED BY Zenon, <2>1 DEF Seen
<1>4. ASSUME NEW p \in Slot, scan'[p] # NoScan PROVE ScanCounts(p)'
  <2> DEFINE been == 0 .. scan[p].p - 1
  <2>1. scan[p] # NoScan /\ ScanCounts(p) /\ scan'[p] = scan[p]
    BY <1>4 DEF SysInv
  <2>2. scan[p].num \in Nat
    BY <1>1, <2>1
  <2>3. CASE exists
    <3>1. span'[p].all = span[p].all /\ span'[p].some = span[p].some \cup {q}
      BY Zenon, <1>1, <1>2, <2>1, <2>3
    <3>2. Cardinality(span[p].some \cap been) <= Cardinality(span'[p].some \cap been)
      <4>1. span[p].some \cap been \subseteq span'[p].some \cap been
        BY <3>1
      <4>2. span'[p].some \cap been \subseteq Slot
        BY <1>1, <3>1
      <4>3. QED BY Zenon, <4>1, <4>2 DEF Counting
    <3>3. Cardinality(span[p].some \cap been) \in Nat /\ Cardinality(span'[p].some \cap been) \in Nat
      <4>1. span[p].some \cap been \subseteq Slot /\ span'[p].some \cap been \subseteq Slot
        BY <1>1, <3>1
      <4>2. QED BY Zenon, <4>1 DEF Counting
    <3>4. scan[p].num <= Cardinality(span'[p].some \cap been)
      BY SMTT(30), <2>1, <2>2, <3>2, <3>3 DEF ScanCounts
    <3>5. QED BY <2>1, <2>3, <3>1, <3>4 DEF ScanCounts
  <2>4. CASE ~exists
    <3>1. span'[p].all = span[p].all \ {q} /\ span'[p].some = span[p].some
      BY ZenonT(30), <1>1, <1>2, <2>1, <2>4
    <3>2. Cardinality(span'[p].all \cap been) <= Cardinality(span[p].all \cap been)
      <4>1. span'[p].all \cap been \subseteq span[p].all \cap been
        BY <3>1
      <4>2. span[p].all \cap been \subseteq Slot
        BY <1>1
      <4>3. QED BY Zenon, <4>1, <4>2 DEF Counting
    <3>3. Cardinality(span[p].all \cap been) \in Nat /\ Cardinality(span'[p].all \cap been) \in Nat
      <4>1. span[p].all \cap been \subseteq Slot /\ span'[p].all \cap been \subseteq Slot
        BY <1>1, <3>1
      <4>2. QED BY Zenon, <4>1 DEF Counting
    <3>4. Cardinality(span'[p].all \cap been) <= scan[p].num
      BY SMTT(30), <2>1, <2>2, <3>2, <3>3 DEF ScanCounts
    <3>5. QED BY <2>1, <2>4, <3>1, <3>4 DEF ScanCounts
  <2>5. QED BY <2>3, <2>4
<1>5. QED BY <1>3, <1>4

\* A step leaves the counts of all scans alone when no slot and no scan changes.
LEMMA SameCounted ==
  ASSUME SysInv, UNCHANGED <<scan, span>>, Existing' = Existing
  PROVE  \A p \in Slot : scan'[p] # NoScan => ScanCounts(p)'
<1> SUFFICES ASSUME NEW p \in Slot, scan[p] # NoScan PROVE ScanCounts(p)'
  OBVIOUS
<1>1. ScanCounts(p)
  BY DEF SysInv
<1>2. QED BY <1>1 DEF ScanCounts

\* Back in user mode no call is under way.
LEMMA Returned ==
  ASSUME SysInv, NEW p \in Slot, SysReturn(p)
  PROVE  /\ lab' \in Labs /\ lab' = lab
         /\ a7' \in [Slot -> Nat] /\ called' \in [Slot -> {"none"} \cup usys(lab')]
         /\ StubNumbers'
<1>1. /\ lab' = lab /\ lab \in Labs
      /\ a7 \in [Slot -> Nat] /\ called \in [Slot -> {"none"} \cup usys(lab)]
  BY DEF SysReturn, SysInv, SysType
<1>2. a7' \in [Slot -> Nat] /\ called' \in [Slot -> {"none"} \cup usys(lab')]
  BY <1>1 DEF SysReturn
<1>3. ASSUME NEW q \in Slot, a7'[q] > 0
      PROVE  a7[q] > 0 /\ a7'[q] = a7[q] /\ called'[q] = called[q]
  BY <1>1, <1>3 DEF SysReturn
<1>4. StubNumbers'
  BY <1>1, <1>3 DEF StubNumbers, SysInv
<1>5. QED BY <1>1, <1>2, <1>4

\* The types of the variables, one by one.
LEMMA SysTyped ==
  ASSUME SysInv
  PROVE  /\ lab \in Labs
         /\ state \in [Slot -> {"unused", "used", "zombie"}]
         /\ trace_mask \in [Slot -> Argument \cup {{}}] /\ asked \in [Slot -> Argument \cup {{}}]
         /\ a7 \in [Slot -> Nat] /\ called \in [Slot -> {"none"} \cup usys(lab)]
         /\ scan \in [Slot -> [p : 0 .. NPROC, num : Nat] \cup {NoScan}]
         /\ span \in [Slot -> [all : SUBSET Slot, some : SUBSET Slot]]
BY DEF SysInv, SysType

\* A stub loads the number of its call.
LEMMA StubKeeps ==
  ASSUME SysInv, NEW p \in Slot, Stub(p)
  PROVE  SysInv'
<1>1. PICK name \in usys(lab) :
        /\ name \in PLAIN \cup {"fork", "exit", "wait", "trace", "sysinfo"}
        /\ called' = [called EXCEPT ![p] = name]
        /\ a7' = [a7 EXCEPT ![p] = CHOOSE n \in DOMAIN SYS(lab) : SYS(lab)[n] = name]
  BY Zenon DEF Stub
<1> DEFINE n == CHOOSE n \in DOMAIN SYS(lab) : SYS(lab)[n] = name
<1>2. n \in DOMAIN SYS(lab) /\ SYS(lab)[n] = name
  <2>1. \E m \in DOMAIN SYS(lab) : SYS(lab)[m] = name
    BY SysTyped, TablesFit DEF Fit
  <2>2. QED BY <2>1, Zenon
<1>3. n \in Nat \ {0}
  BY SysTyped, <1>2, TablesFit DEF Fit
<1>4. UNCHANGED <<lab, state, trace_mask, asked, scan, span>>
  BY DEF Stub
<1> HIDE DEF n
<1>5. a7' \in [Slot -> Nat] /\ called' \in [Slot -> {"none"} \cup usys(lab)]
  BY SysTyped, <1>1, <1>3 DEF n
<1>6. StubNumbers'
  <2> SUFFICES ASSUME NEW q \in Slot, a7'[q] > 0
               PROVE  /\ a7'[q] \in DOMAIN SYS(lab) /\ SYS(lab)[a7'[q]] = called'[q]
                      /\ called'[q] \in PLAIN \cup {"fork", "exit", "wait", "trace", "sysinfo"}
    BY <1>4 DEF StubNumbers
  <2>1. CASE q = p
    BY SMTT(30), SysTyped, <1>1, <1>2, <2>1 DEF n
  <2>2. CASE q # p
    <3>1. a7'[q] = a7[q] /\ called'[q] = called[q]
      BY SMTT(30), SysTyped, <1>1, <2>2
    <3>2. QED BY <3>1 DEF SysInv, StubNumbers
  <2>3. QED BY <2>1, <2>2
<1>7. SysType' /\ Masked' /\ Unmasked'
  BY <1>4, <1>5 DEF SysInv, SysType, Masked, Unmasked
<1>8. \A q \in Slot : scan'[q] # NoScan => ScanCounts(q)'
  BY SMTT(30), <1>4, SameCounted DEF Existing
<1>9. QED BY <1>6, <1>7, <1>8 DEF SysInv

\* A call that is unknown or changes nothing here returns.
LEMMA OtherKeeps ==
  ASSUME SysInv, NEW p \in Slot, Unknown(p) \/ Other(p)
  PROVE  SysInv'
<1>1. SysReturn(p) /\ UNCHANGED <<state, trace_mask, asked, scan, span>>
  BY SMTT(30) DEF Unknown, Other
<1>2. SysType' /\ Masked' /\ Unmasked' /\ StubNumbers'
  BY Zenon, SysTyped, <1>1, Returned DEF SysInv, SysType, Masked, Unmasked
<1>3. \A q \in Slot : scan'[q] # NoScan => ScanCounts(q)'
  BY <1>1, SameCounted DEF Existing
<1>4. QED BY Zenon, <1>2, <1>3 DEF SysInv

\* trace sets the mask that is asked for.
LEMMA TraceKeeps ==
  ASSUME SysInv, NEW p \in Slot, sys_trace(p)
  PROVE  SysInv'
<1>1. PICK mask \in Argument :
        /\ trace_mask' = [trace_mask EXCEPT ![p] = mask]
        /\ asked' = [asked EXCEPT ![p] = mask]
        /\ SysReturn(p)
  BY Zenon DEF sys_trace
<1>2. UNCHANGED <<state, scan, span>>
  BY DEF sys_trace
<1>3. "trace" \in syscalls(lab)
  BY DEF sys_trace, Serve, Entry
<1>4. trace_mask' \in [Slot -> Argument \cup {{}}] /\ asked' \in [Slot -> Argument \cup {{}}]
  BY SysTyped, <1>1
<1>5. Masked'
  BY SysTyped, <1>1, <1>2 DEF SysInv, Masked
<1>6. SysType' /\ Unmasked' /\ StubNumbers'
  BY SMTT(30), SysTyped, <1>1, <1>2, <1>3, <1>4, Returned DEF SysType, Unmasked
<1>7. \A q \in Slot : scan'[q] # NoScan => ScanCounts(q)'
  BY <1>2, SameCounted DEF Existing
<1>8. QED BY <1>5, <1>6, <1>7 DEF SysInv

\* fork passes the mask on, and every scan sees the new process or not.
LEMMA ForkKeeps ==
  ASSUME Counting, SysInv, NEW p \in Slot, sys_fork(p)
  PROVE  SysInv'
<1>1. SysReturn(p) /\ UNCHANGED scan /\ state[p] = "used"
  BY SMTT(30) DEF sys_fork, Serve
<1>2. CASE UNCHANGED <<state, trace_mask, asked, span>>
  <2>1. SysType' /\ Masked' /\ Unmasked' /\ StubNumbers'
    BY ZenonT(30), SysTyped, <1>1, <1>2, Returned DEF SysInv, SysType, Masked, Unmasked
  <2>2. \A q \in Slot : scan'[q] # NoScan => ScanCounts(q)'
    BY SMTT(30), <1>1, <1>2, SameCounted DEF Existing
  <2>3. QED BY Zenon, <2>1, <2>2 DEF SysInv
<1>3. CASE ~ UNCHANGED <<state, trace_mask, asked, span>>
  <2>1. PICK q \in Slot :
          /\ state[q] = "unused"
          /\ state' = [state EXCEPT ![q] = "used"]
          /\ trace_mask' = [trace_mask EXCEPT ![q] = trace_mask[p]]
          /\ asked' = [asked EXCEPT ![q] = asked[p]]
          /\ Seen(q, TRUE)
    BY Zenon, <1>3 DEF sys_fork
  <2>2. /\ state' \in [Slot -> {"unused", "used", "zombie"}]
        /\ trace_mask' \in [Slot -> Argument \cup {{}}]
        /\ asked' \in [Slot -> Argument \cup {{}}]
    BY SysTyped, <2>1
  <2>3. Masked'
    BY SysTyped, <1>1, <2>1 DEF SysInv, Masked
  <2>4. Unmasked'
    BY SysTyped, <1>1, <2>1, Returned DEF SysInv, Unmasked
  <2>5. Existing' = Existing \cup {q}
    BY SysTyped, <2>1 DEF Existing
  <2>6. /\ span' \in [Slot -> [all : SUBSET Slot, some : SUBSET Slot]]
        /\ \A r \in Slot : scan'[r] # NoScan => ScanCounts(r)'
    BY ZenonT(30), <1>1, <2>1, <2>5, SeenCounted
  <2>7. SysType' /\ StubNumbers'
    BY SysTyped, <1>1, <2>2, <2>6, Returned DEF SysType
  <2>8. QED BY <2>3, <2>4, <2>6, <2>7 DEF SysInv
<1>4. QED BY <1>2, <1>3

\* exit leaves a zombie, which a scan still counts.
LEMMA ExitKeeps ==
  ASSUME SysInv, NEW p \in Slot, sys_exit(p)
  PROVE  SysInv'
<1>1. /\ SysReturn(p) /\ UNCHANGED <<trace_mask, scan, span>>
      /\ state[p] = "used" /\ state' = [state EXCEPT ![p] = "zombie"]
      /\ asked' = [asked EXCEPT ![p] = {}]
  BY DEF sys_exit, Serve
<1>2. /\ state' \in [Slot -> {"unused", "used", "zombie"}]
      /\ asked' \in [Slot -> Argument \cup {{}}]
  BY SysTyped, <1>1
<1>3. Masked'
  BY SysTyped, <1>1 DEF SysInv, Masked
<1>4. Existing' = Existing
  BY SMTT(30), SysTyped, <1>1 DEF Existing
<1>5. SysType' /\ Unmasked' /\ StubNumbers'
  BY Zenon, SysTyped, <1>1, <1>2, Returned DEF SysInv, SysType, Unmasked
<1>6. \A q \in Slot : scan'[q] # NoScan => ScanCounts(q)'
  BY <1>1, <1>4, SameCounted
<1>7. QED BY Zenon, <1>3, <1>5, <1>6 DEF SysInv

\* wait frees the slot, which a scan has counted or not.
LEMMA WaitKeeps ==
  ASSUME Counting, SysInv, NEW p \in Slot, sys_wait(p)
  PROVE  SysInv'
<1>1. SysReturn(p) /\ UNCHANGED <<trace_mask, asked, scan>>
  BY SMTT(30) DEF sys_wait
<1>2. CASE UNCHANGED <<state, span>>
  <2>1. SysType' /\ Masked' /\ Unmasked' /\ StubNumbers'
    BY SysTyped, <1>1, <1>2, Returned DEF SysInv, SysType, Masked, Unmasked
  <2>2. \A q \in Slot : scan'[q] # NoScan => ScanCounts(q)'
    <3>1. Existing' = Existing
      BY Zenon, <1>2 DEF Existing
    <3>2. QED BY Zenon, <1>1, <1>2, <3>1, SameCounted
  <2>3. QED BY ZenonT(30), <2>1, <2>2 DEF SysInv
<1>3. CASE ~ UNCHANGED <<state, span>>
  <2>1. PICK q \in Slot : /\ state[q] = "zombie"
                          /\ state' = [state EXCEPT ![q] = "unused"]
                          /\ Seen(q, FALSE)
    BY Zenon, <1>3 DEF sys_wait
  <2>2. state' \in [Slot -> {"unused", "used", "zombie"}]
    BY SysTyped, <2>1
  <2>3. Masked'
    BY SysTyped, <1>1, <2>1 DEF SysInv, Masked
  <2>4. Existing' = Existing \ {q}
    BY SysTyped, <2>1 DEF Existing
  <2>5. /\ span' \in [Slot -> [all : SUBSET Slot, some : SUBSET Slot]]
        /\ \A r \in Slot : scan'[r] # NoScan => ScanCounts(r)'
    BY ZenonT(30), <1>1, <2>1, <2>4, SeenCounted
  <2>6. SysType' /\ Unmasked' /\ StubNumbers'
    BY Zenon, SysTyped, <1>1, <2>2, <2>5, Returned DEF SysInv, SysType, Unmasked
  <2>7. QED BY ZenonT(30), <2>3, <2>5, <2>6 DEF SysInv
<1>4. QED BY <1>2, <1>3

\* The scan of one process changes nothing else.
LEMMA NprocSame ==
  ASSUME SysInv, NEW p \in Slot, NprocStart(p) \/ NprocStep(p) \/ NprocEnd(p)
  PROVE  /\ UNCHANGED <<lab, state, trace_mask, asked>>
         /\ a7' \in [Slot -> Nat] /\ called' \in [Slot -> {"none"} \cup usys(lab')]
         /\ Masked' /\ Unmasked' /\ StubNumbers' /\ Existing' = Existing
         /\ \A q \in Slot \ {p} : scan'[q] = scan[q] /\ span'[q] = span[q]
<1>1. UNCHANGED <<lab, state, trace_mask, asked>>
  BY SMTT(30) DEF NprocStart, NprocStep, NprocEnd, SysReturn
<1>2. \A q \in Slot \ {p} : scan'[q] = scan[q] /\ span'[q] = span[q]
  BY SMTT(30), SysTyped DEF NprocStart, NprocStep, NprocEnd
<1>3. CASE SysReturn(p)
  BY ZenonT(30), <1>1, <1>2, <1>3, Returned DEF SysInv, Masked, Unmasked, Existing
<1>4. CASE UNCHANGED <<a7, called>>
  BY ZenonT(30), SysTyped, <1>1, <1>2, <1>4 DEF SysInv, Masked, Unmasked, StubNumbers, Existing
<1>5. QED BY ZenonT(30), <1>3, <1>4 DEF NprocStart, NprocStep, NprocEnd

\* What is left to show of a step of a scan.
LEMMA NprocFrame ==
  ASSUME SysInv, NEW p \in Slot, NprocStart(p) \/ NprocStep(p) \/ NprocEnd(p),
         scan' \in [Slot -> [p : 0 .. NPROC, num : Nat] \cup {NoScan}],
         span' \in [Slot -> [all : SUBSET Slot, some : SUBSET Slot]],
         scan'[p] # NoScan => ScanCounts(p)'
  PROVE  SysInv'
<1>1. SysType' /\ Masked' /\ Unmasked' /\ StubNumbers'
  BY SysTyped, NprocSame DEF SysType
<1>2. ASSUME NEW q \in Slot, scan'[q] # NoScan PROVE ScanCounts(q)'
  <2>1. CASE q = p
    BY SMTT(30), <1>2, <2>1
  <2>2. CASE q # p
    <3>1. scan'[q] = scan[q] /\ span'[q] = span[q] /\ Existing' = Existing
      BY SMTT(30), NprocSame, <2>2
    <3>2. ScanCounts(q)
      BY <1>2, <3>1 DEF SysInv
    <3>3. QED BY SMTT(30), <3>1, <3>2 DEF ScanCounts
  <2>3. QED BY <2>1, <2>2
<1>3. QED BY ZenonT(30), <1>1, <1>2 DEF SysInv

\* A scan that starts has been at no slot.
LEMMA NprocStartKeeps ==
  ASSUME Counting, SysInv, NEW p \in Slot, NprocStart(p)
  PROVE  SysInv'
<1>1. /\ scan' = [scan EXCEPT ![p] = [p |-> 0, num |-> 0]]
      /\ span' = [span EXCEPT ![p] = [all |-> Existing, some |-> Existing]]
      /\ Existing' = Existing
  BY Zenon, NprocSame DEF NprocStart
<1>2. Existing \in SUBSET Slot /\ 0 \in 0 .. NPROC
  BY SyscallAssumption DEF Existing
<1>3. /\ scan' \in [Slot -> [p : 0 .. NPROC, num : Nat] \cup {NoScan}]
      /\ span' \in [Slot -> [all : SUBSET Slot, some : SUBSET Slot]]
  BY SMTT(30), SysTyped, <1>1, <1>2
<1>4. /\ scan'[p].p = 0 /\ scan'[p].num = 0
      /\ span'[p].all = Existing /\ span'[p].some = Existing
  BY SysTyped, <1>1
<1>5. span'[p].all \cap (0 .. scan'[p].p - 1) = {} /\ span'[p].some \cap (0 .. scan'[p].p - 1) = {}
  BY SMTT(30), <1>4
<1>6. ScanCounts(p)'
  <2>1. Cardinality({}) = 0
    BY Zenon DEF Counting
  <2>2. /\ Cardinality(span'[p].all \cap (0 .. scan'[p].p - 1)) = 0
        /\ Cardinality(span'[p].some \cap (0 .. scan'[p].p - 1)) = 0
    BY Zenon, <1>5, <2>1
  <2>3. 0 <= scan'[p].num /\ scan'[p].num <= 0
    BY <1>4
  <2>4. span'[p].all \subseteq Existing' /\ Existing' \subseteq span'[p].some
    BY Zenon, <1>1, <1>4
  <2>5. QED BY Zenon, <2>2, <2>3, <2>4 DEF ScanCounts
<1>7. QED BY NprocFrame, <1>3, <1>6

\* A scan that goes on has been at one slot more.
LEMMA NprocStepKeeps ==
  ASSUME Counting, SysInv, NEW p \in Slot, NprocStep(p)
  PROVE  SysInv'
<1> DEFINE q == scan[p].p
           n == IF state[q] # "unused" THEN scan[p].num + 1 ELSE scan[p].num
           A == span[p].all
           B == span[p].some
<1>1. /\ q \in Slot /\ scan' = [scan EXCEPT ![p] = [p |-> q + 1, num |-> n]]
      /\ UNCHANGED span
  BY DEF NprocStep
<1>2. scan[p] # NoScan
  BY <1>1 DEF NoScan, Slot
<1>3. scan[p].num \in Nat /\ ScanCounts(p) /\ A \in SUBSET Slot /\ B \in SUBSET Slot
  <2>1. ScanCounts(p)
    BY Zenon, <1>2 DEF SysInv
  <2>2. scan[p].num \in Nat /\ A \in SUBSET Slot /\ B \in SUBSET Slot
    BY SMTT(30), SysTyped, <1>2
  <2>3. QED BY Zenon, <2>1, <2>2
<1>4. q + 1 \in 0 .. NPROC /\ n \in Nat
  <2>1. q + 1 \in 0 .. NPROC
    BY Zenon, <1>1, NextSlot
  <2>2. scan[p].num + 1 \in Nat
    BY Zenon, <1>3, NatPlus
  <2>3. QED BY Zenon, <1>3, <2>1, <2>2
<1>5. scan' \in [Slot -> [p : 0 .. NPROC, num : Nat] \cup {NoScan}]
  BY SMTT(30), SysTyped, <1>1, <1>4
<1>6. scan'[p].p = q + 1 /\ scan'[p].num = n /\ Existing' = Existing
  BY SysTyped, NprocSame, <1>1
<1> DEFINE a == Cardinality(A \cap (0 .. q - 1))
           b == Cardinality(B \cap (0 .. q - 1))
<1>7. a \in Nat /\ b \in Nat
  <2>1. A \cap (0 .. q - 1) \subseteq Slot /\ B \cap (0 .. q - 1) \subseteq Slot
    BY <1>3
  <2>2. QED BY Zenon, <2>1 DEF Counting
<1>8. /\ A \subseteq Existing /\ Existing \subseteq B
      /\ a <= scan[p].num /\ scan[p].num <= b
  BY SMTT(30), <1>3 DEF ScanCounts
<1>9. /\ q \in A => Cardinality(A \cap (0 .. q)) = a + 1
      /\ q \notin A => Cardinality(A \cap (0 .. q)) = a
      /\ q \in B => Cardinality(B \cap (0 .. q)) = b + 1
      /\ q \notin B => Cardinality(B \cap (0 .. q)) = b
  BY <1>1, <1>3, OneMore
<1>10. state[q] # "unused" <=> q \in Existing
  BY SMTT(30), <1>1 DEF Existing
<1> HIDE DEF a, b, A, B
<1>11. Cardinality(A \cap (0 .. q)) <= n /\ n <= Cardinality(B \cap (0 .. q))
  <2>1. CASE q \in Existing
    BY SMTT(30), <1>3, <1>7, <1>8, <1>9, <1>10, <2>1
  <2>2. CASE q \notin Existing
    BY <1>3, <1>7, <1>8, <1>9, <1>10, <2>2
  <2>3. QED BY SMTT(30), <2>1, <2>2
<1>12. ScanCounts(p)'
  <2>1. 0 .. scan'[p].p - 1 = 0 .. q
    <3> HIDE DEF q
    <3>1. scan'[p].p = q + 1 /\ q \in Int
      BY <1>1, <1>6 DEF Slot
    <3>2. QED BY <3>1
  <2>2. span'[p].all = A /\ span'[p].some = B
    BY SMTT(30), <1>1 DEF A, B
  <2>3. QED BY ZenonT(30), <1>6, <1>8, <1>11, <2>1, <2>2 DEF ScanCounts
<1>13. span' \in [Slot -> [all : SUBSET Slot, some : SUBSET Slot]]
  BY SysTyped, <1>1
<1>14. QED BY SMTT(30), NprocFrame, <1>5, <1>12, <1>13

\* A scan ends.
LEMMA NprocEndKeeps ==
  ASSUME SysInv, NEW p \in Slot, NprocEnd(p)
  PROVE  SysInv'
<1>1. /\ scan' = [scan EXCEPT ![p] = NoScan]
      /\ span' = [span EXCEPT ![p] = [all |-> {}, some |-> {}]]
  BY SMTT(30) DEF NprocEnd
<1>2. /\ scan' \in [Slot -> [p : 0 .. NPROC, num : Nat] \cup {NoScan}]
      /\ span' \in [Slot -> [all : SUBSET Slot, some : SUBSET Slot]]
      /\ scan'[p] = NoScan
  BY SysTyped, <1>1
<1>3. QED BY Zenon, NprocFrame, <1>2

\* Every step keeps the invariant.
LEMMA SysStep ==
  ASSUME Counting
  PROVE  SysInv /\ [SysNext]_sysvars => SysInv'
<1> SUFFICES ASSUME SysInv, [SysNext]_sysvars PROVE SysInv'
  OBVIOUS
<1>1. CASE UNCHANGED sysvars
  <2>1. SysType' /\ Masked' /\ Unmasked' /\ StubNumbers'
    BY <1>1 DEF SysInv, SysType, Masked, Unmasked, StubNumbers, sysvars
  <2>2. \A p \in Slot : scan'[p] # NoScan => ScanCounts(p)'
    BY SMTT(30), <1>1, SameCounted DEF sysvars, Existing
  <2>3. QED BY <2>1, <2>2 DEF SysInv
<1>2. QED
  BY Zenon, <1>1, StubKeeps, OtherKeeps, TraceKeeps, ForkKeeps, ExitKeeps, WaitKeeps,
     NprocStartKeeps, NprocStepKeeps, NprocEndKeeps DEF SysNext

\* A scan that has been at all slots has counted right.
LEMMA NprocCounted ==
  ASSUME Counting, SysInv
  PROVE  NprocBetween
<1> SUFFICES ASSUME NEW p \in Slot, scan[p].p = NPROC
             PROVE  scan[p].num \in Cardinality(span[p].all) .. Cardinality(span[p].some)
  BY DEF NprocBetween
<1>1. scan[p] # NoScan
  BY SyscallAssumption DEF NoScan
<1>2. /\ ScanCounts(p) /\ scan[p].num \in Nat
      /\ span[p].all \in SUBSET Slot /\ span[p].some \in SUBSET Slot
  BY <1>1 DEF SysInv, SysType
<1>3. span[p].all \cap (0 .. NPROC - 1) = span[p].all
  BY <1>2 DEF Slot
<1>4. span[p].some \cap (0 .. NPROC - 1) = span[p].some
  BY <1>2 DEF Slot
<1>5. Cardinality(span[p].all) \in Nat /\ Cardinality(span[p].some) \in Nat
  BY Zenon, <1>2 DEF Counting
<1>6. Cardinality(span[p].all) <= scan[p].num /\ scan[p].num <= Cardinality(span[p].some)
  BY Zenon, <1>2, <1>3, <1>4 DEF ScanCounts
<1>7. QED BY SMTT(30), <1>2, <1>5, <1>6

\* The call that p makes reaches the function of its name or none, and the line
\* that is printed is right.
Right(p) ==
  LET f == Entry(lab, syscalls(lab), a7[p]) IN
  /\ f \in {called[p], "none"}
  /\ f # "none" =>
       Line(p) = IF \E n \in asked'[p] : n \in DOMAIN SYS(lab) /\ SYS(lab)[n] = f
                 THEN f ELSE ""

\* A call that returns is served and traced right.
LEMMA CallRight ==
  ASSUME SysInv, SysInv', SysNext,
         NEW p \in Slot, a7[p] > 0, a7'[p] = 0, state'[p] = "used"
  PROVE  Right(p)
<1> DEFINE f == Entry(lab, syscalls(lab), a7[p])
<1>1. lab' = lab /\ lab \in Labs
  BY ZenonT(30) DEF SysNext, Stub, Unknown, Other, sys_trace, sys_fork, sys_exit, sys_wait, NprocStart,
         NprocStep, NprocEnd, SysReturn, SysInv, SysType
<1>2. /\ a7[p] \in DOMAIN SYS(lab) /\ SYS(lab)[a7[p]] = called[p]
      /\ called[p] \in PLAIN \cup {"fork", "exit", "wait", "trace", "sysinfo"}
  BY Zenon DEF SysInv, StubNumbers
<1>3. trace_mask'[p] = asked'[p] /\ trace_mask'[p] \in Argument \cup {{}}
  BY Zenon DEF SysInv, SysType, Masked
<1>4. "trace" \notin syscalls(lab) => trace_mask'[p] = {}
  BY ZenonT(30), <1>1 DEF SysInv, Unmasked
<1>5. f \in {called[p], "none"}
  BY Zenon, <1>2, EntryOf
<1>6. ASSUME f # "none"
      PROVE  Line(p) = IF \E n \in asked'[p] : n \in DOMAIN SYS(lab) /\ SYS(lab)[n] = f
                       THEN f ELSE ""
  <2>1. f = SYS(lab)[a7[p]] /\ f \in syscalls(lab)
    BY Zenon, <1>2, <1>6, EntryOf
  <2>2. CASE a7[p] \in trace_mask'[p]
    <3>1. f \in NameTable(lab) \/ (a7[p] = 30 /\ f = "pgaccess")
      <4>1. "trace" \in syscalls(lab)
        BY Zenon, <1>4, <2>2
      <4>2. SYS(lab)[a7[p]] \in syscalls(lab)
        BY Zenon, <2>1
      <4>3. SYS(lab)[a7[p]] \in NameTable(lab) \/ (a7[p] = 30 /\ SYS(lab)[a7[p]] = "pgaccess")
        BY Zenon, <1>1, <1>2, <4>1, <4>2, ServedNamed
      <4>4. QED BY Zenon, <2>1, <4>3
    <3>2. ~(a7[p] = 30 /\ f = "pgaccess")
      BY ZenonT(30), <1>2, <1>3, <2>1, <2>2, SyscallAssumption
    <3>3. Line(p) = f
      BY ZenonT(30), <1>2, <2>1, <2>2, <3>1, <3>2 DEF Line, Entry
    <3>4. \E n \in asked'[p] : n \in DOMAIN SYS(lab) /\ SYS(lab)[n] = f
      BY Zenon, <1>2, <1>3, <2>1, <2>2
    <3>5. QED BY ZenonT(30), <3>3, <3>4
  <2>3. CASE a7[p] \notin trace_mask'[p]
    <3>1. Line(p) = ""
      BY Zenon, <2>3 DEF Line
    <3>2. ~ \E n \in asked'[p] : n \in DOMAIN SYS(lab) /\ SYS(lab)[n] = f
      <4>1. ASSUME NEW n \in asked'[p], n \in DOMAIN SYS(lab), SYS(lab)[n] = f
            PROVE  n = a7[p]
        BY Zenon, <1>1, <1>2, <2>1, <4>1, OneNumber
      <4>2. QED BY Zenon, <1>3, <2>3, <4>1
    <3>3. QED BY Zenon, <3>1, <3>2
  <2>4. QED BY ZenonT(30), <2>2, <2>3
<1>7. QED BY <1>5, <1>6, Zenon DEF Right

-----------------------------------------------------------------------------
\* The packets of the sequence s are numbered, from d + 1 on.
Counted(s, d) == s \in Seq(Nat) /\ \A k \in 1 .. Len(s) : s[k] = d + k

\* Packets are taken, sent, received and delivered in the order of their numbers.
Numbered ==
  /\ Counted(accepted, 0) /\ Counted(sent, 0)
  /\ Counted(received, MaxTx) /\ Counted(delivered, MaxTx)

\* The packets from Len(sent) to Len(accepted) are in the transmit ring.
Tx(k) == k % TX_RING_SIZE

TxRing ==
  /\ Len(sent) <= Len(accepted) /\ Len(accepted) <= Len(sent) + Backlog
  /\ tdh = Tx(Len(sent)) /\ tdt = Tx(Len(accepted))
  /\ \A k \in Len(sent) .. Len(accepted) - 1 :
       /\ tx_mbufs[Tx(k)] \in Mbuf
       /\ tx_addr[Tx(k)] = tx_mbufs[Tx(k)]
       /\ data[tx_mbufs[Tx(k)]] = k + 1

\* The packets from Len(delivered) to Len(received) are in the receive ring.
\* The tail register is behind while e1000_recv runs: it was written when b
\* packets had been delivered.
Rx(k) == k % RX_RING_SIZE

Behind(b) ==
  /\ Len(received) < b + RX_RING_SIZE
  /\ rdt = Rx(b + RX_RING_SIZE - 1)
  /\ pc = "idle" => b = Len(delivered)

RxRing ==
  /\ Len(delivered) <= Len(received)
  /\ \E b \in 0 .. Len(delivered) : Behind(b)
  /\ rdh = Rx(Len(received))
  /\ pc # "idle" => next_index = Rx(Len(delivered))
  /\ \A k \in Len(delivered) .. Len(delivered) + RX_RING_SIZE - 1 :
       rx_dd[Rx(k)] <=> k < Len(received)
  /\ \A k \in Len(delivered) .. Len(received) - 1 : data[rx_mbufs[Rx(k)]] = MaxTx + k + 1

\* No mbuf is twice in the transmit ring.
TxOnce ==
  \A i, j \in TxIndex : tx_mbufs[i] = tx_mbufs[j] /\ tx_mbufs[i] # Null => i = j

\* Who has which mbuf: inductive without the numbers.
Owners == TypeOK /\ OneOwner /\ TxOnce

\* The inductive invariant.
IInv == Owners /\ Numbered /\ TxRing /\ RxRing
-----------------------------------------------------------------------------
\* Quotient and remainder are unique.
LEMMA ModIs ==
  ASSUME NEW N \in Nat \ {0}, NEW a \in Int, NEW q \in Int, NEW r \in 0 .. N - 1,
         a = N * q + r
  PROVE  a % N = r
<1> DEFINE q0 == a \div N
           r0 == a % N
<1>1. q0 \in Int /\ r0 \in 0 .. N - 1 /\ a = N * q0 + r0
  OBVIOUS
<1> HIDE DEF q0, r0
<1>2. N * (q0 - q) = r - r0
  BY <1>1
<1>3. q0 - q >= 1 => N * (q0 - q) >= N
  BY <1>1
<1>4. q0 - q <= -1 => N * (q0 - q) <= - N
  BY <1>1
<1>5. q0 = q
  BY <1>1, <1>2, <1>3, <1>4
<1>6. r0 = r
  BY <1>1, <1>2, <1>5
<1>7. QED
  BY Zenon, <1>6 DEF r0

\* An index moves with the number it stands for.
LEMMA ModAdd ==
  ASSUME NEW N \in Nat \ {0}, NEW a \in Nat, NEW d \in Nat
  PROVE  a % N \in 0 .. N - 1 /\ ((a % N) + d) % N = (a + d) % N
<1> DEFINE q == a \div N
           r == a % N
           x == r + d
           p == x \div N
           t == x % N
<1>1. q \in Int /\ r \in 0 .. N - 1 /\ a = N * q + r
  OBVIOUS
<1> HIDE DEF q, r
<1>2. x \in Nat
  BY <1>1
<1> HIDE DEF x
<1>3. p \in Int /\ t \in 0 .. N - 1 /\ x = N * p + t
  BY <1>2
<1> HIDE DEF p, t
<1>4. a + d = N * (q + p) + t
  BY <1>1, <1>3 DEF x
<1>5. (a + d) % N = t
  BY <1>1, <1>3, <1>4, ModIs
<1>6. QED
  BY Zenon, <1>1, <1>5 DEF r, t, x

\* A lap later the index is the same.
LEMMA ModLap ==
  ASSUME NEW N \in Nat \ {0}, NEW a \in Nat
  PROVE  (a + N) % N = a % N
<1> DEFINE q == a \div N
           r == a % N
<1>1. q \in Int /\ r \in 0 .. N - 1 /\ a = N * q + r
  OBVIOUS
<1> HIDE DEF q, r
<1>2. a + N = N * (q + 1) + r
  BY <1>1
<1>3. (a + N) % N = r
  BY <1>1, <1>2, ModIs
<1>4. QED
  BY Zenon, <1>3 DEF r

\* Less than a lap later it is another.
LEMMA ModDistinct ==
  ASSUME NEW N \in Nat \ {0}, NEW a \in Nat, NEW b \in Nat, a < b, b < a + N
  PROVE  a % N # b % N
<1> DEFINE q == a \div N
           r == a % N
           p == b \div N
           t == b % N
<1>1. q \in Int /\ r \in 0 .. N - 1 /\ a = N * q + r
  OBVIOUS
<1>2. p \in Int /\ t \in 0 .. N - 1 /\ b = N * p + t
  OBVIOUS
<1> HIDE DEF q, r, p, t
<1>3. b - a = N * (p - q) + (t - r)
  BY <1>1, <1>2
<1>4. p - q >= 1 => N * (p - q) >= N
  BY <1>1, <1>2
<1>5. p - q <= 0 => N * (p - q) <= 0
  BY <1>1, <1>2
<1>6. r # t
  BY <1>1, <1>2, <1>3, <1>4, <1>5
<1>7. QED
  BY Zenon, <1>6 DEF r, t

\* The index before x, computed with unsigned numbers: the word wraps at 0, and
\* the ring's size divides it.
LEMMA ModBefore ==
  ASSUME NEW N \in Nat \ {0}, NEW W \in Nat \ {0}, W % N = 0, NEW x \in 0 .. N - 1
  PROVE  ((x - 1) % W) % N = (x + N - 1) % N
<1> DEFINE q == W \div N
<1>1. q \in Int /\ W = N * q + 0
  OBVIOUS
<1> HIDE DEF q
<1>2. q >= 1 /\ W >= N
  <2>1. q <= 0 => N * q <= 0
    BY <1>1
  <2>2. q >= 1 => N * q >= N
    BY <1>1
  <2>3. QED
    BY <1>1, <2>1, <2>2
<1>3. CASE x = 0
  <2>1. -1 = W * (-1) + (W - 1)
    BY <1>1
  <2>2. (-1) % W = W - 1
    BY <2>1, ModIs
  <2>3. W - 1 = N * (q - 1) + (N - 1)
    BY <1>1
  <2>4. (W - 1) % N = N - 1
    BY <1>1, <2>3, ModIs
  <2>5. N - 1 = N * 0 + (N - 1)
    OBVIOUS
  <2>6. (N - 1) % N = N - 1
    BY <2>5, ModIs
  <2>7. QED
    BY <1>3, <2>2, <2>4, <2>6
<1>4. CASE x > 0
  <2>1. x - 1 = W * 0 + (x - 1) /\ x - 1 = N * 0 + (x - 1) /\ x - 1 \in 0 .. W - 1
    BY <1>2, <1>4
  <2>2. (x - 1) % W = x - 1 /\ (x - 1) % N = x - 1
    BY <1>2, <1>4, <2>1, ModIs
  <2>3. x - 1 \in Nat /\ (x - 1) + N = x + N - 1
    BY <1>4
  <2>4. ((x - 1) + N) % N = (x - 1) % N
    BY Zenon, <2>3, ModLap
  <2>5. QED
    BY Zenon, <2>2, <2>3, <2>4
<1>5. QED
  BY <1>3, <1>4
-----------------------------------------------------------------------------
\* The indices that the driver and the card compute are indices of the rings.
LEMMA Indices ==
  /\ 0 \in TxIndex /\ 0 \in RxIndex /\ RX_RING_SIZE - 1 \in RxIndex
  /\ \A k \in Nat : Tx(k) \in TxIndex /\ Rx(k) \in RxIndex
  /\ \A j \in TxIndex : (j + 1) % TX_RING_SIZE \in TxIndex
  /\ \A j \in RxIndex : /\ (j + 1) % RX_RING_SIZE \in RxIndex
                        /\ ((j - 1) % WORD) % RX_RING_SIZE \in RxIndex
<1>1. \A k \in Nat : Tx(k) \in TxIndex /\ Rx(k) \in RxIndex
  BY Zenon, E1000Assumption, ModAdd DEF Tx, Rx, TxIndex, RxIndex
<1>2. 0 \in TxIndex /\ 0 \in RxIndex /\ RX_RING_SIZE - 1 \in RxIndex
  BY E1000Assumption DEF TxIndex, RxIndex
<1>3. \A j \in TxIndex : (j + 1) % TX_RING_SIZE \in TxIndex
  <2>1. \A j \in TxIndex : j + 1 \in Nat
    BY E1000Assumption DEF TxIndex
  <2>2. QED
    BY Zenon, <1>1, <2>1 DEF Tx
<1>4. \A j \in RxIndex : j + 1 \in Nat /\ (j - 1) % WORD \in Nat
  BY E1000Assumption DEF RxIndex
<1>5. QED
  BY Zenon, <1>1, <1>2, <1>3, <1>4 DEF Rx

\* e1000_init gives each mbuf of the receive ring to one descriptor.
LEMMA InitOwners ==
  ASSUME Injection(RxIndex, Mbuf) # {}
  PROVE  Init => Owners
<1> SUFFICES ASSUME Init PROVE Owners
  BY Zenon
<1>1. rx_mbufs \in Injection(RxIndex, Mbuf)
  BY Zenon DEF Init
<1>2. rx_mbufs \in [RxIndex -> Mbuf] /\ \A i, j \in RxIndex : rx_mbufs[i] = rx_mbufs[j] => i = j
  BY Zenon, <1>1 DEF Injection, IsInjective
<1>3. TypeOK
  BY <1>2, Indices DEF Init, TypeOK
<1>4. \A i \in RxIndex : rx_mbufs[i] \in Range(rx_mbufs)
  BY Zenon, <1>2 DEF Range
<1>5. OneOwner
  <2>1. /\ rx_addr = rx_mbufs /\ free = Mbuf \ Range(rx_mbufs) /\ kept = {}
        /\ \A j \in TxIndex : tx_mbufs[j] = Null
    BY Zenon DEF Init
  <2>2. QED
    BY <1>2, <1>4, <2>1, E1000Assumption DEF OneOwner
<1>6. TxOnce
  BY Zenon DEF Init, TxOnce
<1>7. QED
  BY Zenon, <1>3, <1>5, <1>6 DEF Owners

\* mbufalloc returns a free mbuf.
LEMMA Allocated ==
  ASSUME Owners, free # {}
  PROVE  /\ mbufalloc \in free /\ mbufalloc \in Mbuf /\ mbufalloc \notin kept
         /\ \A i \in RxIndex : mbufalloc # rx_mbufs[i]
         /\ \A j \in TxIndex : mbufalloc # tx_mbufs[j]
<1>1. mbufalloc \in free
  BY Zenon DEF mbufalloc
<1>2. QED
  BY <1>1 DEF Owners, TypeOK, OneOwner

\* e1000_transmit: the new mbuf was free, and the one it replaces is freed.
LEMMA TransmitOwners == Owners /\ Transmit => Owners'
<1> SUFFICES ASSUME Owners, Transmit PROVE Owners'
  BY Zenon
<1> DEFINE m == mbufalloc
           old == {tx_mbufs[tdt]} \ {Null}
<1>1. /\ m \in free /\ m \in Mbuf /\ m \notin kept
      /\ \A i \in RxIndex : m # rx_mbufs[i]
      /\ \A j \in TxIndex : m # tx_mbufs[j]
  BY Zenon, Allocated DEF Transmit
<1> HIDE DEF m
<1>2. CASE UNCHANGED vars
  BY Zenon, <1>2 DEF vars, tx, rx, Owners, TypeOK, OneOwner, TxOnce
<1>3. CASE tx_dd[tdt]
  <2>1. /\ free' = (free \ {m}) \cup old
        /\ data' = Junked([data EXCEPT ![m] = Len(accepted) + 1], old)
        /\ tx_addr' = [tx_addr EXCEPT ![tdt] = m]
        /\ tx_mbufs' = [tx_mbufs EXCEPT ![tdt] = m]
        /\ tdt' = (tdt + 1) % TX_RING_SIZE
        /\ accepted' = Append(accepted, Len(accepted) + 1)
        /\ UNCHANGED <<tdh, tx_dd, sent, rx>>
    BY Zenon, <1>3 DEF Transmit, e1000_transmit, m
  <2>2. tdt \in TxIndex /\ old \subseteq Mbuf /\ Null \notin Mbuf
    BY Zenon, E1000Assumption DEF Owners, TypeOK
  <2>3. data' \in [Mbuf -> Nat]
    BY <2>1 DEF Junked, Owners, TypeOK
  <2>4. accepted' \in Seq(Nat) /\ tdt' \in TxIndex
    BY <2>1, <2>2, Indices DEF Owners, TypeOK
  <2>5. TypeOK'
    BY ZenonT(30), <1>1, <2>1, <2>2, <2>3, <2>4 DEF rx, Owners, TypeOK
  <2>6. OneOwner'
    BY <1>1, <2>1, <2>2 DEF rx, Owners, TypeOK, OneOwner, TxOnce
  <2>7. TxOnce'
    BY Zenon, <1>1, <2>1, <2>2 DEF Owners, TypeOK, TxOnce
  <2>8. QED
    BY Zenon, <2>5, <2>6, <2>7 DEF Owners
<1>4. QED
  BY Zenon, <1>2, <1>3 DEF Transmit, e1000_transmit

\* The card changes registers, descriptors and contents, but no owner.
LEMMA CardOwners == Owners /\ (CardSend \/ CardReceive) => Owners'
<1>1. ASSUME Owners, CardSend PROVE Owners'
  <2>1. tdh' \in TxIndex
    BY Zenon, <1>1, Indices DEF Owners, TypeOK, CardSend
  <2>2. QED
    BY Zenon, <1>1, <2>1 DEF CardSend, rx, Owners, TypeOK, OneOwner, TxOnce
<1>2. ASSUME Owners, CardReceive PROVE Owners'
  <2>1. received' \in Seq(Nat) /\ rdh' \in RxIndex
    BY <1>2, Indices, E1000Assumption DEF Owners, TypeOK, CardReceive
  <2>2. data' \in [Mbuf -> Nat]
    <3>1. data \in [Mbuf -> Nat] /\ received \in Seq(Nat)
      BY Zenon, <1>2 DEF Owners, TypeOK
    <3>2. data' = [data EXCEPT ![rx_addr[rdh]] = MaxTx + Len(received) + 1]
      BY Zenon, <1>2 DEF CardReceive
    <3>3. MaxTx + Len(received) + 1 \in Nat
      BY <3>1, E1000Assumption
    <3>4. QED BY Zenon, <3>1, <3>2, <3>3
  <2>3. QED
    BY Zenon, <1>2, <2>1, <2>2 DEF CardReceive, tx, Owners, TypeOK, OneOwner, TxOnce
<1>3. QED
  BY Zenon, <1>1, <1>2

\* e1000_recv: the mbuf goes to the stack, and a free one takes its place.
LEMMA DriverOwners == Owners /\ Driver => Owners'
<1>1. ASSUME Owners, RecvPacket PROVE Owners'
  <2> DEFINE m == mbufalloc
  <2>1. /\ m \in free /\ m \in Mbuf /\ m \notin kept
        /\ \A i \in RxIndex : m # rx_mbufs[i]
        /\ \A j \in TxIndex : m # tx_mbufs[j]
    BY Zenon, <1>1, Allocated DEF RecvPacket
  <2> HIDE DEF m
  <2>2. /\ free' = free \ {m}
        /\ rx_mbufs' = [rx_mbufs EXCEPT ![next_index] = m]
        /\ rx_addr' = [rx_addr EXCEPT ![next_index] = m]
        /\ kept' = kept \cup {rx_mbufs[next_index]}
        /\ rx_dd' = [rx_dd EXCEPT ![next_index] = FALSE]
        /\ UNCHANGED <<tx, rdh, rdt, icr, pc, received, data>>
    BY Zenon, <1>1 DEF RecvPacket, m
  <2>3. delivered' \in Seq(Nat) /\ next_index' \in RxIndex /\ next_index \in RxIndex
    BY <1>1, Indices DEF Owners, TypeOK, RecvPacket
  <2>4. TypeOK'
    BY Zenon, <1>1, <2>1, <2>2, <2>3 DEF tx, Owners, TypeOK
  <2>5. OneOwner'
    BY <1>1, <2>1, <2>2, <2>3 DEF tx, Owners, TypeOK, OneOwner
  <2>6. QED
    BY Zenon, <1>1, <2>2, <2>4, <2>5 DEF tx, Owners, TxOnce
<1>2. ASSUME Owners, e1000_intr \/ RecvNoMbuf \/ RecvDone PROVE Owners'
  <2>1. /\ next_index' \in RxIndex /\ rdt' \in RxIndex /\ icr' \in BOOLEAN
        /\ pc' \in {"idle", "recv", "panic"}
    BY Zenon, <1>2, Indices DEF Owners, TypeOK, e1000_intr, RecvNoMbuf, RecvDone
  <2>2. UNCHANGED <<tx, rdh, rx_dd, rx_addr, rx_mbufs, kept, received, delivered, data, free>>
    BY Zenon, <1>2 DEF e1000_intr, RecvNoMbuf, RecvDone
  <2>3. QED
    BY Zenon, <1>2, <2>1, <2>2 DEF tx, Owners, TypeOK, OneOwner, TxOnce
<1>3. QED
  BY Zenon, <1>1, <1>2 DEF Driver

\* mbuffree: what the stack frees is in neither ring.
LEMMA FreeOwners == Owners /\ (\E m \in Mbuf : NetFree(m)) => Owners'
<1> SUFFICES ASSUME Owners, NEW m \in Mbuf, NetFree(m) PROVE Owners'
  BY Zenon
<1>1. data' \in [Mbuf -> Nat]
  BY Zenon DEF NetFree, Junked, Owners, TypeOK
<1>2. TypeOK'
  BY ZenonT(30), <1>1 DEF NetFree, tx, Owners, TypeOK
<1>3. QED
  BY ZenonT(30), <1>2 DEF NetFree, tx, Owners, OneOwner, TxOnce

\* No step of the driver, the card or the stack gives an mbuf two owners.
LEMMA NextOwners == Owners /\ [Next]_vars => Owners'
<1>1. Owners /\ UNCHANGED vars => Owners'
  BY DEF vars, tx, rx, Owners, TypeOK, OneOwner, TxOnce
<1>2. QED
  BY ZenonT(30), <1>1, TransmitOwners, CardOwners, DriverOwners, FreeOwners DEF Next

-----------------------------------------------------------------------------
\* How the indices of the transmit ring move.
LEMMA TxFacts ==
  /\ \A k \in Nat : Tx(k) \in TxIndex /\ (Tx(k) + 1) % TX_RING_SIZE = Tx(k + 1)
  /\ \A j, k \in Nat : j < k /\ k < j + TX_RING_SIZE => Tx(j) # Tx(k)
<1>1. ASSUME NEW k \in Nat PROVE (Tx(k) + 1) % TX_RING_SIZE = Tx(k + 1)
  <2>1. \A d \in Nat : ((k % TX_RING_SIZE) + d) % TX_RING_SIZE = (k + d) % TX_RING_SIZE
    BY ZenonT(30), E1000Assumption, ModAdd
  <2>2. QED
    BY Zenon, <2>1 DEF Tx
<1>2. QED
  BY Zenon, <1>1, E1000Assumption, Indices, ModDistinct DEF Tx

\* How those of the receive ring move.
LEMMA RxFacts ==
  /\ \A k \in Nat : /\ Rx(k) \in RxIndex
                    /\ (Rx(k) + 1) % RX_RING_SIZE = Rx(k + 1)
                    /\ Rx(k + RX_RING_SIZE) = Rx(k)
                    /\ ((Rx(k) - 1) % WORD) % RX_RING_SIZE = Rx(k + RX_RING_SIZE - 1)
  /\ \A j, k \in Nat : j < k /\ k < j + RX_RING_SIZE => Rx(j) # Rx(k)
<1>1. ASSUME NEW k \in Nat
      PROVE  ((Rx(k) - 1) % WORD) % RX_RING_SIZE = Rx(k + RX_RING_SIZE - 1)
  <2>1. Rx(k) \in 0 .. RX_RING_SIZE - 1
    BY Zenon, Indices DEF RxIndex
  <2>2. ((Rx(k) - 1) % WORD) % RX_RING_SIZE = (Rx(k) + RX_RING_SIZE - 1) % RX_RING_SIZE
    BY Zenon, <2>1, E1000Assumption, ModBefore
  <2>3. RX_RING_SIZE - 1 \in Nat
    BY E1000Assumption
  <2>4. (Rx(k) + (RX_RING_SIZE - 1)) % RX_RING_SIZE
           = (k + (RX_RING_SIZE - 1)) % RX_RING_SIZE
    BY ZenonT(30), <2>3, E1000Assumption, ModAdd DEF Rx
  <2>5. /\ Rx(k) + (RX_RING_SIZE - 1) = Rx(k) + RX_RING_SIZE - 1
        /\ k + (RX_RING_SIZE - 1) = k + RX_RING_SIZE - 1
    BY Zenon, <2>1, E1000Assumption
  <2>6. QED
    BY Zenon, <2>2, <2>4, <2>5 DEF Rx
<1>2. ASSUME NEW k \in Nat PROVE (Rx(k) + 1) % RX_RING_SIZE = Rx(k + 1)
  <2>1. \A d \in Nat : ((k % RX_RING_SIZE) + d) % RX_RING_SIZE = (k + d) % RX_RING_SIZE
    BY ZenonT(30), E1000Assumption, ModAdd
  <2>2. QED
    BY Zenon, <2>1 DEF Rx
<1>3. \A k \in Nat : Rx(k + RX_RING_SIZE) = Rx(k)
  BY Zenon, E1000Assumption, ModLap DEF Rx
<1>4. QED
  BY ZenonT(30), <1>1, <1>2, <1>3, E1000Assumption, Indices, ModDistinct DEF Rx

\* The rings are empty at the start.
LEMMA InitRings == Init => Numbered /\ TxRing /\ RxRing
<1> SUFFICES ASSUME Init PROVE Numbered /\ TxRing /\ RxRing
  BY Zenon
<1>1. /\ Len(accepted) = 0 /\ Len(sent) = 0 /\ Len(received) = 0 /\ Len(delivered) = 0
      /\ accepted = <<>> /\ sent = <<>> /\ received = <<>> /\ delivered = <<>>
  BY Zenon DEF Init
<1>2. Tx(0) = 0 /\ Rx(0) = 0 /\ Rx(RX_RING_SIZE - 1) = RX_RING_SIZE - 1
  <2>1. 0 = TX_RING_SIZE * 0 + 0 /\ 0 = RX_RING_SIZE * 0 + 0
    BY E1000Assumption
  <2>2. RX_RING_SIZE - 1 = RX_RING_SIZE * 0 + (RX_RING_SIZE - 1)
    BY E1000Assumption
  <2>3. QED
    BY <2>1, <2>2, E1000Assumption, ModIs DEF Tx, Rx
<1>3. Numbered
  BY <1>1 DEF Numbered, Counted
<1>4. TxRing
  BY <1>1, <1>2, E1000Assumption DEF Init, TxRing
<1>5. Behind(0)
  BY <1>1, <1>2, E1000Assumption DEF Init, Behind
<1>6. RxRing
  BY <1>1, <1>2, <1>5, RxFacts, E1000Assumption DEF Init, RxRing
<1>7. QED
  BY Zenon, <1>3, <1>4, <1>6

\* The counts of packets are natural numbers.
LEMMA Counts ==
  ASSUME IInv
  PROVE  /\ Len(accepted) \in Nat /\ Len(sent) \in Nat
         /\ Len(received) \in Nat /\ Len(delivered) \in Nat
  BY DEF IInv, Numbered, Counted

\* A sequence of numbers that is counted on is still numbered.
LEMMA CountOn ==
  ASSUME NEW s, NEW d \in Nat, Counted(s, d), NEW e, e = d + Len(s) + 1
  PROVE  Counted(Append(s, e), d) /\ Len(Append(s, e)) = Len(s) + 1
<1> DEFINE t == Append(s, e)
<1>1. s \in Seq(Nat) /\ Len(s) \in Nat /\ e \in Nat
  BY DEF Counted
<1>2. /\ t \in Seq(Nat) /\ Len(t) = Len(s) + 1
      /\ \A k \in 1 .. Len(s) : t[k] = s[k]
      /\ t[Len(s) + 1] = e
  BY <1>1
<1> HIDE DEF t
<1>3. ASSUME NEW k \in 1 .. Len(t) PROVE t[k] = d + k
  <2>1. CASE k = Len(s) + 1
    BY <1>1, <1>2, <2>1
  <2>2. CASE k # Len(s) + 1
    <3>1. k \in 1 .. Len(s)
      BY <1>1, <1>2, <2>2
    <3>2. QED
      BY Zenon, <1>2, <3>1 DEF Counted
  <2>3. QED
    BY Zenon, <2>1, <2>2
<1>4. QED
  BY Zenon, <1>2, <1>3 DEF Counted, t

\* The packet takes the place after the last one, which is not in use: the stack
\* is less than a ring ahead.
LEMMA TransmitRings ==
  ASSUME Backlog < TX_RING_SIZE, IInv, Transmit
  PROVE  Numbered' /\ TxRing' /\ RxRing'
<1> DEFINE m == mbufalloc
           old == {tx_mbufs[tdt]} \ {Null}
<1>1. /\ m \in Mbuf
      /\ \A i \in RxIndex : m # rx_mbufs[i]
      /\ \A j \in TxIndex : m # tx_mbufs[j]
  BY Zenon, Allocated DEF Transmit, IInv
<1> HIDE DEF m
<1>2. CASE UNCHANGED vars
  BY Zenon, <1>2 DEF vars, tx, rx, IInv, Numbered, TxRing, RxRing, Behind
<1>3. CASE tx_dd[tdt]
  <2>1. /\ data' = Junked([data EXCEPT ![m] = Len(accepted) + 1], old)
        /\ tx_addr' = [tx_addr EXCEPT ![tdt] = m]
        /\ tx_mbufs' = [tx_mbufs EXCEPT ![tdt] = m]
        /\ tdt' = (tdt + 1) % TX_RING_SIZE
        /\ accepted' = Append(accepted, Len(accepted) + 1)
        /\ Len(accepted) - Len(sent) < Backlog
        /\ UNCHANGED <<tdh, tx_dd, sent, rx>>
    BY Zenon, <1>3 DEF Transmit, e1000_transmit, m
  <2>2. /\ Len(accepted) \in Nat /\ Len(sent) \in Nat
        /\ tdt = Tx(Len(accepted)) /\ tdt \in TxIndex
        /\ Backlog \in Nat /\ TX_RING_SIZE \in Nat /\ Null \notin Mbuf
        /\ Counted(accepted', 0) /\ Len(accepted') = Len(accepted) + 1
    <3>1. Counted(accepted, 0) /\ tdt \in TxIndex /\ tdt = Tx(Len(accepted))
      BY Zenon DEF IInv, Owners, TypeOK, Numbered, TxRing
    <3>2. Len(accepted) \in Nat /\ Len(sent) \in Nat
      BY Zenon, Counts
    <3>3. Len(accepted) + 1 = 0 + Len(accepted) + 1
      BY <3>2
    <3>4. Counted(accepted', 0) /\ Len(accepted') = Len(accepted) + 1
      BY Zenon, <2>1, <3>1, <3>3, CountOn
    <3>5. QED
      BY Zenon, <3>1, <3>2, <3>4, E1000Assumption
  <2>3. /\ data'[m] = Len(accepted) + 1
        /\ \A x \in Mbuf : x # m /\ x \notin old => data'[x] = data[x]
    BY Zenon, <1>1, <2>1, <2>2 DEF Junked, IInv, Owners, TypeOK
  <2>4. Numbered'
    BY Zenon, <2>1, <2>2 DEF rx, IInv, Numbered
  <2>5. TxRing'
    <3>1. tdt' = Tx(Len(accepted) + 1)
      BY Zenon, <2>1, <2>2, TxFacts
    <3>2. ASSUME NEW k \in Len(sent) .. Len(accepted) - 1
          PROVE  /\ Tx(k) \in TxIndex /\ Tx(k) # tdt
                 /\ tx_mbufs[Tx(k)] \in Mbuf /\ tx_mbufs[Tx(k)] \notin old
      <4>1. k \in Nat /\ k < Len(accepted) /\ Len(accepted) < k + TX_RING_SIZE
        BY <2>1, <2>2
      <4>2. Tx(k) \in TxIndex /\ Tx(k) # tdt /\ tx_mbufs[Tx(k)] \in Mbuf
        BY Zenon, <2>2, <4>1, TxFacts DEF IInv, TxRing
      <4>3. QED
        BY Zenon, <2>2, <4>2 DEF IInv, Owners, TxOnce
    <3>3. ASSUME NEW k \in Len(sent') .. Len(accepted') - 1
          PROVE  /\ tx_mbufs'[Tx(k)] \in Mbuf
                 /\ tx_addr'[Tx(k)] = tx_mbufs'[Tx(k)]
                 /\ data'[tx_mbufs'[Tx(k)]] = k + 1
      <4>1. CASE k = Len(accepted)
        BY <1>1, <2>1, <2>2, <2>3, <4>1 DEF IInv, Owners, TypeOK
      <4>2. CASE k # Len(accepted)
        <5>1. k \in Len(sent) .. Len(accepted) - 1
          BY <2>1, <2>2, <4>2
        <5>2. tx_mbufs'[Tx(k)] = tx_mbufs[Tx(k)] /\ tx_addr'[Tx(k)] = tx_addr[Tx(k)]
          BY Zenon, <2>1, <3>2, <5>1 DEF IInv, Owners, TypeOK
        <5>3. QED
          BY Zenon, <1>1, <2>3, <3>2, <5>1, <5>2 DEF IInv, TxRing
      <4>3. QED
        BY ZenonT(30), <4>1, <4>2
    <3>4. Len(sent) <= Len(accepted) + 1 /\ Len(accepted) + 1 <= Len(sent) + Backlog
      BY <2>1, <2>2 DEF IInv, TxRing
    <3>5. QED
      BY Zenon, <2>1, <2>2, <3>1, <3>3, <3>4 DEF IInv, TxRing
  <2>6. RxRing'
    <3>1. \A i \in RxIndex : data'[rx_mbufs[i]] = data[rx_mbufs[i]]
      BY Zenon, <1>1, <2>2, <2>3 DEF IInv, Owners, OneOwner, TypeOK
    <3>2. \A k \in Len(delivered) .. Len(received) - 1 : Rx(k) \in RxIndex
      BY RxFacts DEF IInv, Owners, TypeOK
    <3>3. QED
      BY Zenon, <2>1, <3>1, <3>2 DEF rx, IInv, RxRing, Behind
  <2>7. QED
    BY Zenon, <2>4, <2>5, <2>6
<1>4. QED
  BY Zenon, <1>2, <1>3 DEF Transmit, e1000_transmit

\* The card sends the packet whose turn it is.
LEMMA SendRings ==
  ASSUME IInv, CardSend
  PROVE  Numbered' /\ TxRing' /\ RxRing'
<1>1. /\ Len(accepted) \in Nat /\ Len(sent) \in Nat /\ Len(sent) < Len(accepted)
      /\ tdh = Tx(Len(sent)) /\ Counted(sent, 0)
  BY Counts DEF IInv, TxRing, Numbered, CardSend
<1>2. data[tx_addr[tdh]] = Len(sent) + 1
  BY <1>1 DEF IInv, TxRing
<1>3. data[tx_addr[tdh]] = 0 + Len(sent) + 1
  BY <1>1, <1>2
<1>4. Counted(sent', 0) /\ Len(sent') = Len(sent) + 1
  BY Zenon, <1>1, <1>3, CountOn DEF CardSend
<1>5. Numbered'
  BY Zenon, <1>4 DEF CardSend, rx, IInv, Numbered
<1>6. TxRing'
  <2>1. tdh' = Tx(Len(sent) + 1)
    BY Zenon, <1>1, TxFacts DEF CardSend
  <2>2. UNCHANGED <<tdt, tx_addr, tx_mbufs, accepted, data>>
    BY Zenon DEF CardSend
  <2>3. Len(accepted) <= Len(sent) + Backlog /\ Backlog \in Nat
    BY Zenon, E1000Assumption DEF IInv, TxRing, E1000Assumption
  <2>4. Len(sent) + 1 <= Len(accepted) /\ Len(accepted) <= Len(sent) + 1 + Backlog
    BY <1>1, <2>3
  <2>5. \A k \in Len(sent) + 1 .. Len(accepted) - 1 : k \in Len(sent) .. Len(accepted) - 1
    BY <1>1
  <2>6. /\ tdt = Tx(Len(accepted))
        /\ \A k \in Len(sent) .. Len(accepted) - 1 :
             /\ tx_mbufs[Tx(k)] \in Mbuf
             /\ tx_addr[Tx(k)] = tx_mbufs[Tx(k)]
             /\ data[tx_mbufs[Tx(k)]] = k + 1
    BY Zenon DEF IInv, TxRing
  <2>7. /\ tdt' = Tx(Len(accepted))
        /\ \A k \in Len(sent) + 1 .. Len(accepted) - 1 :
             /\ tx_mbufs'[Tx(k)] \in Mbuf
             /\ tx_addr'[Tx(k)] = tx_mbufs'[Tx(k)]
             /\ data'[tx_mbufs'[Tx(k)]] = k + 1
    BY Zenon, <2>2, <2>5, <2>6
  <2>8. QED
    BY Zenon, <1>4, <2>1, <2>2, <2>4, <2>7 DEF TxRing
<1>7. RxRing'
  BY Zenon DEF CardSend, rx, IInv, RxRing, Behind
<1>8. QED
  BY Zenon, <1>5, <1>6, <1>7

\* The card fills the descriptor after the last packet, never the one at the tail.
LEMMA ReceiveRings ==
  ASSUME IInv, CardReceive
  PROVE  Numbered' /\ TxRing' /\ RxRing'
<1> DEFINE R == Len(received)
           D == Len(delivered)
           N == RX_RING_SIZE
<1>1. /\ R \in Nat /\ D \in Nat /\ D <= R /\ N \in Nat \ {0} /\ MaxTx \in Nat
      /\ rdh = Rx(R) /\ Rx(R) \in RxIndex /\ rx_addr[Rx(R)] = rx_mbufs[Rx(R)]
  BY Zenon, Counts, RxFacts, E1000Assumption DEF IInv, RxRing, Owners, OneOwner
<1>2. /\ data' = [data EXCEPT ![rx_mbufs[Rx(R)]] = MaxTx + R + 1]
      /\ rx_dd' = [rx_dd EXCEPT ![Rx(R)] = TRUE]
      /\ rdh' = (Rx(R) + 1) % N /\ rdh # rdt
      /\ received' = Append(received, MaxTx + R + 1)
      /\ UNCHANGED <<tx, rdt, rx_addr, rx_mbufs, kept, pc, next_index, delivered, free>>
  BY Zenon, <1>1 DEF CardReceive
<1>3. Counted(received', MaxTx) /\ Len(received') = R + 1
  BY Zenon, <1>1, <1>2, CountOn DEF IInv, Numbered
<1>4. PICK b \in 0 .. D : Behind(b)
  BY Zenon DEF IInv, RxRing
<1>5. R < b + N - 1
  <2>1. R < b + N /\ R # b + N - 1
    BY Zenon, <1>1, <1>2, <1>4 DEF Behind
  <2>2. QED
    BY <1>1, <2>1
<1>6. Numbered'
  BY Zenon, <1>2, <1>3 DEF tx, IInv, Numbered
<1>7. TxRing'
  <2>1. ASSUME NEW k \in Len(sent) .. Len(accepted) - 1
        PROVE  tx_mbufs[Tx(k)] \in Mbuf /\ tx_mbufs[Tx(k)] # rx_mbufs[Rx(R)]
    <3>1. Tx(k) \in TxIndex
      BY TxFacts, Counts
    <3>2. QED
      BY Zenon, <1>1, <3>1 DEF IInv, TxRing, Owners, OneOwner
  <2>2. QED
    BY Zenon, <1>2, <2>1 DEF tx, IInv, TxRing, Owners, TypeOK
<1>8. RxRing'
  <2>1. rdh' = Rx(R + 1)
    BY Zenon, <1>1, <1>2, RxFacts
  <2>2. Behind(b)'
    BY <1>1, <1>2, <1>3, <1>4, <1>5 DEF Behind
  <2>3. ASSUME NEW k \in D .. D + N - 1, k # R
        PROVE  Rx(k) \in RxIndex /\ Rx(k) # Rx(R)
    <3>1. k \in Nat /\ ((k < R /\ R < k + N) \/ (R < k /\ k < R + N))
      BY <1>1, <1>5, <2>3
    <3>2. QED
      BY Zenon, <1>1, <3>1, RxFacts
  <2>4. ASSUME NEW k \in D .. D + N - 1 PROVE rx_dd'[Rx(k)] <=> k < R + 1
    <3>1. CASE k = R
      <4>1. rx_dd'[Rx(R)] /\ R < R + 1
        BY <1>1, <1>2 DEF IInv, Owners, TypeOK
      <4>2. QED
        BY Zenon, <3>1, <4>1
    <3>2. CASE k # R
      <4>1. rx_dd'[Rx(k)] = rx_dd[Rx(k)]
        BY Zenon, <1>2, <2>3, <3>2 DEF IInv, Owners, TypeOK
      <4>2. rx_dd[Rx(k)] <=> k < R
        BY Zenon DEF IInv, RxRing
      <4>3. k < R + 1 <=> k < R
        BY <1>1, <3>2
      <4>4. QED
        BY Zenon, <4>1, <4>2, <4>3
    <3>3. QED
      BY Zenon, <3>1, <3>2
  <2>5. \A k \in D .. R : data'[rx_mbufs[Rx(k)]] = MaxTx + k + 1
    <3>1. data'[rx_mbufs[Rx(R)]] = MaxTx + R + 1
      BY Zenon, <1>1, <1>2 DEF IInv, Owners, TypeOK
    <3>2. ASSUME NEW k \in D .. R - 1 PROVE data'[rx_mbufs[Rx(k)]] = MaxTx + k + 1
      <4>1. k \in D .. D + N - 1 /\ k # R
        BY <1>1, <1>5
      <4>2. rx_mbufs[Rx(k)] \in Mbuf /\ rx_mbufs[Rx(k)] # rx_mbufs[Rx(R)]
        BY Zenon, <1>1, <2>3, <4>1 DEF IInv, Owners, OneOwner, TypeOK
      <4>3. QED
        BY Zenon, <1>2, <4>2 DEF IInv, RxRing, Owners, TypeOK
    <3>3. \A k \in D .. R : k = R \/ k \in D .. R - 1
      BY <1>1
    <3>4. QED
      BY <3>1, <3>2, <3>3
  <2>6. QED
    BY <1>1, <1>2, <1>3, <2>1, <2>2, <2>4, <2>5 DEF IInv, RxRing
<1>9. QED
  BY Zenon, <1>6, <1>7, <1>8

\* e1000_intr: e1000_recv starts at the packet after the last one delivered.
LEMMA IntrRings ==
  ASSUME IInv, e1000_intr
  PROVE  Numbered' /\ TxRing' /\ RxRing'
<1> DEFINE D == Len(delivered)
<1>1. D \in Nat /\ RX_RING_SIZE \in Nat \ {0}
  BY Zenon, Counts, E1000Assumption
<1>2. Behind(D)
  BY Zenon DEF e1000_intr, IInv, RxRing, Behind
<1>3. next_index' = Rx(D)
  <2>1. rdt = Rx(D + RX_RING_SIZE - 1) /\ D + RX_RING_SIZE - 1 \in Nat
    BY <1>1, <1>2 DEF Behind
  <2>2. (D + RX_RING_SIZE - 1) + 1 = D + RX_RING_SIZE
    BY <1>1
  <2>3. QED
    BY Zenon, <1>1, <2>1, <2>2, RxFacts DEF e1000_intr
<1>4. Behind(D)' /\ D \in 0 .. Len(delivered)
  BY <1>1, <1>2 DEF e1000_intr, Behind
<1>5. RxRing'
  BY Zenon, <1>3, <1>4 DEF e1000_intr, IInv, RxRing
<1>6. Numbered' /\ TxRing'
  BY Zenon DEF e1000_intr, tx, IInv, Numbered, TxRing
<1>7. QED
  BY Zenon, <1>5, <1>6

\* One round of e1000_recv: the descriptor it leaves is free for the packet one
\* lap later, which the card has not received.
LEMMA RecvRings ==
  ASSUME IInv, RecvPacket
  PROVE  Numbered' /\ TxRing' /\ RxRing'
<1> DEFINE R == Len(received)
           D == Len(delivered)
           N == RX_RING_SIZE
           m == mbufalloc
<1>1. /\ R \in Nat /\ D \in Nat /\ N \in Nat \ {0} /\ MaxTx \in Nat
      /\ next_index = Rx(D) /\ Rx(D) \in RxIndex /\ D \in D .. D + N - 1
  <2>1. R \in Nat /\ D \in Nat /\ N \in Nat \ {0} /\ MaxTx \in Nat
    BY Zenon, Counts, E1000Assumption
  <2>2. next_index = Rx(D)
    BY Zenon DEF IInv, RxRing, RecvPacket
  <2>3. QED
    BY <2>1, <2>2, RxFacts
<1>2. D < R
  BY Zenon, <1>1 DEF RecvPacket, IInv, RxRing
<1>3. PICK b \in 0 .. D : Behind(b)
  BY Zenon DEF IInv, RxRing
<1>4. /\ rx_mbufs' = [rx_mbufs EXCEPT ![Rx(D)] = m]
      /\ delivered' = Append(delivered, data[rx_mbufs[Rx(D)]])
      /\ rx_dd' = [rx_dd EXCEPT ![Rx(D)] = FALSE]
      /\ next_index' = (Rx(D) + 1) % N
      /\ UNCHANGED <<tx, rdh, rdt, icr, pc, received, data>>
  BY Zenon, <1>1 DEF RecvPacket
<1>5. Counted(delivered', MaxTx) /\ Len(delivered') = D + 1
  <2>1. data[rx_mbufs[Rx(D)]] = MaxTx + D + 1
    BY <1>1, <1>2 DEF IInv, RxRing
  <2>2. QED
    BY Zenon, <1>1, <1>4, <2>1, CountOn DEF IInv, Numbered
<1>6. Numbered' /\ TxRing'
  BY Zenon, <1>4, <1>5 DEF tx, IInv, Numbered, TxRing
<1>7. RxRing'
  <2>1. next_index' = Rx(D + 1)
    BY Zenon, <1>1, <1>4, RxFacts
  <2>2. Behind(b)' /\ b \in 0 .. D + 1
    BY <1>1, <1>3, <1>4 DEF Behind, RecvPacket
  <2>3. R <= D + N
    BY <1>1, <1>3 DEF Behind
  <2>4. ASSUME NEW k \in D + 1 .. D + N - 1 PROVE Rx(k) \in RxIndex /\ Rx(k) # Rx(D)
    <3>1. k \in Nat /\ D < k /\ k < D + N
      BY <1>1
    <3>2. QED
      BY Zenon, <1>1, <3>1, RxFacts
  <2>5. ASSUME NEW k \in D + 1 .. D + N PROVE rx_dd'[Rx(k)] <=> k < R
    <3>1. CASE k = D + N
      <4>1. Rx(k) = Rx(D)
        BY <1>1, <3>1, RxFacts
      <4>2. rx_dd'[Rx(k)] = FALSE
        BY Zenon, <1>1, <1>4, <4>1 DEF IInv, Owners, TypeOK
      <4>3. ~ (k < R)
        BY <1>1, <2>3, <3>1
      <4>4. QED
        BY Zenon, <4>2, <4>3
    <3>2. CASE k # D + N
      <4>1. k \in D + 1 .. D + N - 1 /\ k \in D .. D + N - 1
        BY <1>1, <3>2
      <4>2. rx_dd'[Rx(k)] = rx_dd[Rx(k)]
        BY Zenon, <1>4, <2>4, <4>1 DEF IInv, Owners, TypeOK
      <4>3. QED
        BY Zenon, <4>1, <4>2 DEF IInv, RxRing
    <3>3. QED
      BY Zenon, <3>1, <3>2
  <2>6. ASSUME NEW k \in D + 1 .. R - 1 PROVE data'[rx_mbufs'[Rx(k)]] = MaxTx + k + 1
    <3>1. k \in D + 1 .. D + N - 1 /\ k \in D .. R - 1
      BY <1>1, <2>3
    <3>2. rx_mbufs'[Rx(k)] = rx_mbufs[Rx(k)]
      BY Zenon, <1>4, <2>4, <3>1 DEF IInv, Owners, TypeOK
    <3>3. QED
      BY Zenon, <1>4, <3>1, <3>2 DEF IInv, RxRing
  <2>7. D + 1 <= R /\ (D + 1) + N - 1 = D + N /\ rdh' = Rx(R) /\ Len(received') = R
    BY <1>1, <1>2, <1>4 DEF IInv, RxRing
  <2>8. QED
    BY Zenon, <1>1, <1>4, <1>5, <2>1, <2>2, <2>5, <2>6, <2>7 DEF RxRing
<1>8. QED
  BY Zenon, <1>6, <1>7

\* The end of e1000_recv: the tail register is set to the last packet delivered,
\* one lap on.
LEMMA DoneRings ==
  ASSUME IInv, RecvDone
  PROVE  Numbered' /\ TxRing' /\ RxRing'
<1> DEFINE R == Len(received)
           D == Len(delivered)
           N == RX_RING_SIZE
<1>1. R \in Nat /\ D \in Nat /\ N \in Nat \ {0} /\ D <= R /\ D \in D .. D + N - 1
  <2>1. R \in Nat /\ D \in Nat /\ N \in Nat \ {0} /\ D <= R
    BY Zenon, Counts, E1000Assumption DEF IInv, RxRing
  <2>2. QED
    BY <2>1
<1>2. next_index = Rx(D)
  BY Zenon DEF RecvDone, IInv, RxRing
<1>3. D = R
  <2>1. ~ (D < R)
    BY Zenon, <1>1, <1>2 DEF RecvDone, IInv, RxRing
  <2>2. QED
    BY <1>1, <2>1
<1>4. rdt' = Rx(D + N - 1)
  BY Zenon, <1>1, <1>2, RxFacts DEF RecvDone
<1>5. Behind(D)' /\ D \in 0 .. Len(delivered)
  BY <1>1, <1>3, <1>4 DEF RecvDone, Behind
<1>6. RxRing'
  BY Zenon, <1>5 DEF RecvDone, IInv, RxRing
<1>7. Numbered' /\ TxRing'
  BY Zenon DEF RecvDone, tx, IInv, Numbered, TxRing
<1>8. QED
  BY Zenon, <1>6, <1>7

\* A driver that stops for want of an mbuf, and an mbuf that the stack frees,
\* change nothing in the rings.
LEMMA OtherRings ==
  ASSUME IInv, RecvNoMbuf \/ \E m \in Mbuf : NetFree(m)
  PROVE  Numbered' /\ TxRing' /\ RxRing'
<1>1. CASE RecvNoMbuf
  <2>1. \A b \in Nat : Behind(b) => Behind(b)'
    BY Zenon, <1>1 DEF RecvNoMbuf, Behind
  <2>2. \E b \in 0 .. Len(delivered) : Behind(b)'
    <3>1. PICK b \in 0 .. Len(delivered) : Behind(b)
      BY Zenon DEF IInv, RxRing
    <3>2. b \in Nat
      BY Counts
    <3>3. QED
      BY Zenon, <2>1, <3>1, <3>2
  <2>3. RxRing'
    BY Zenon, <1>1, <2>2 DEF RecvNoMbuf, IInv, RxRing
  <2>4. QED
    BY Zenon, <1>1, <2>3 DEF RecvNoMbuf, tx, IInv, Numbered, TxRing
<1>2. ASSUME NEW m \in Mbuf, NetFree(m) PROVE Numbered' /\ TxRing' /\ RxRing'
  <2>1. \A x \in Mbuf : x # m => data'[x] = data[x]
    BY Zenon, <1>2 DEF NetFree, Junked
  <2>2. /\ \A j \in RxIndex : rx_mbufs[j] \in Mbuf /\ rx_mbufs[j] # m
        /\ \A j \in TxIndex : tx_mbufs[j] # m
    BY <1>2 DEF NetFree, IInv, Owners, TypeOK, OneOwner
  <2>3. /\ \A k \in Len(sent) .. Len(accepted) - 1 : Tx(k) \in TxIndex
        /\ \A k \in Len(delivered) .. Len(received) - 1 : Rx(k) \in RxIndex
    <3>1. /\ Len(sent) .. Len(accepted) - 1 \subseteq Nat
          /\ Len(delivered) .. Len(received) - 1 \subseteq Nat
      BY Counts
    <3>2. QED
      BY Zenon, <3>1, TxFacts, RxFacts
  <2>4. TxRing'
    BY Zenon, <1>2, <2>1, <2>2, <2>3 DEF NetFree, tx, IInv, TxRing
  <2>5. RxRing'
    BY Zenon, <1>2, <2>1, <2>2, <2>3 DEF NetFree, IInv, RxRing, Behind
  <2>6. QED
    BY Zenon, <1>2, <2>4, <2>5 DEF NetFree, tx, IInv, Numbered
<1>3. QED
  BY Zenon, <1>1, <1>2

\* Every step of the driver, the stack and the card keeps the invariant.
LEMMA NextRings ==
  ASSUME Backlog < TX_RING_SIZE
  PROVE  IInv /\ [Next]_vars => IInv'
<1> SUFFICES ASSUME IInv, [Next]_vars PROVE IInv'
  BY Zenon
<1>1. Owners'
  BY Zenon, NextOwners DEF IInv
<1>2. CASE UNCHANGED vars
  BY Zenon, <1>1, <1>2 DEF vars, tx, rx, IInv, Numbered, TxRing, RxRing, Behind
<1>3. CASE Next
  <2>1. Numbered' /\ TxRing' /\ RxRing'
    BY <1>3, TransmitRings, SendRings, ReceiveRings, IntrRings, RecvRings,
       DoneRings, OtherRings DEF Next, Driver
  <2>2. QED
    BY Zenon, <1>1, <2>1 DEF IInv
<1>4. QED
  BY Zenon, <1>2, <1>3

\* Of two sequences that are numbered alike the shorter is a prefix.
LEMMA CountedPrefix ==
  ASSUME NEW s, NEW t, NEW d \in Nat, Counted(s, d), Counted(t, d), Len(s) <= Len(t)
  PROVE  \E n \in 0 .. Len(t) : s = SubSeq(t, 1, n)
<1>1. s \in Seq(Nat) /\ t \in Seq(Nat) /\ Len(s) \in Nat /\ Len(t) \in Nat
  BY DEF Counted
<1>2. /\ SubSeq(t, 1, Len(s)) \in Seq(Nat) /\ Len(SubSeq(t, 1, Len(s))) = Len(s)
      /\ \A k \in 1 .. Len(s) : SubSeq(t, 1, Len(s))[k] = t[k]
  BY <1>1
<1>3. \A k \in 1 .. Len(s) : SubSeq(t, 1, Len(s))[k] = s[k]
  BY <1>1, <1>2 DEF Counted
<1>4. SubSeq(t, 1, Len(s)) = s /\ Len(s) \in 0 .. Len(t)
  BY <1>1, <1>2, <1>3
<1>5. QED
  BY Zenon, <1>4

\* What has still to be sent is in the ring, and not free.
LEMMA NotFreed ==
  ASSUME IInv
  PROVE  FreedAfterSending
<1>1. ASSUME NEW k \in Len(sent) + 1 .. Len(accepted)
      PROVE  \E j \in TxIndex : /\ tx_mbufs[j] # Null
                                /\ tx_mbufs[j] \notin free
                                /\ data[tx_mbufs[j]] = accepted[k]
  <2>1. k - 1 \in Len(sent) .. Len(accepted) - 1 /\ k - 1 \in Nat /\ k \in 1 .. Len(accepted)
    BY Counts
  <2>2. Tx(k - 1) \in TxIndex
    BY Zenon, <2>1, TxFacts
  <2>3. tx_mbufs[Tx(k - 1)] \in Mbuf /\ data[tx_mbufs[Tx(k - 1)]] = k
    BY <2>1 DEF IInv, TxRing
  <2>4. accepted[k] = k
    BY <2>1 DEF IInv, Numbered, Counted
  <2>5. QED
    BY Zenon, <2>2, <2>3, <2>4, E1000Assumption DEF IInv, Owners, OneOwner
<1>2. QED
  BY Zenon, <1>1 DEF FreedAfterSending

-----------------------------------------------------------------------------
INSTANCE FiniteSetTheorems

\* Slots can be counted, for any number of them.
LEMMA CountingHolds == Counting
<1>1. IsFiniteSet(Slot)
  BY FS_Interval, SyscallAssumption DEF Slot
<1>2. ASSUME NEW S \in SUBSET Slot PROVE IsFiniteSet(S) /\ Cardinality(S) \in Nat
  BY Zenon, <1>1, FS_Subset, FS_CardinalityType
<1>3. ASSUME NEW S \in SUBSET Slot, NEW T \in SUBSET Slot, S \subseteq T
      PROVE  Cardinality(S) <= Cardinality(T)
  BY Zenon, <1>2, <1>3, FS_Subset
<1>4. ASSUME NEW S \in SUBSET Slot, NEW q \in Slot, q \notin S
      PROVE  Cardinality(S \cup {q}) = Cardinality(S) + 1
  BY Zenon, <1>2, <1>4, FS_AddElement
<1>5. Cardinality({}) = 0
  BY Zenon, FS_EmptySet
<1>6. QED BY Zenon, <1>2, <1>3, <1>4, <1>5 DEF Counting

\* The invariant holds in every kernel, with any number of slots.
LEMMA SysAlways == SysSpec => []SysInv
<1>1. SysInv /\ [SysNext]_sysvars => SysInv'
  BY Zenon, CountingHolds, SysStep
<1>2. QED BY <1>1, SysInitial, PTL DEF SysSpec

\* sysinfo: what nproc returns is not less than the number of processes that
\* existed all the time of its scan, nor more than the number of those that
\* existed at some time of it, whatever fork, exit and wait do between its steps.
THEOREM NprocRight == SysSpec => []NprocBetween
<1>1. SysInv => NprocBetween
  BY Zenon, CountingHolds, NprocCounted
<1>2. QED BY <1>1, SysAlways, PTL

\* syscall: a stub reaches the function of its name or none, in every lab, and
\* the line that trace asks for is printed, with that name, exactly if the
\* process or the ancestor it got its mask from asked for it.
THEOREM CallsTraced == SysSpec => CallTraced
<1>1. SysInv /\ SysInv' /\ [SysNext]_sysvars =>
        [\A p \in Slot : a7[p] > 0 /\ a7'[p] = 0 /\ state'[p] = "used" => Right(p)]_sysvars
  BY Zenon, CallRight
<1>2. QED BY <1>1, SysAlways, PTL DEF SysSpec, CallTraced, Right

\* The receive ring can be filled: there are mbufs enough for it.
LEMMA RingFilled == Injection(RxIndex, Mbuf) # {}
<1>1. PICK f : f \in Bijection(1 .. Cardinality(Mbuf), Mbuf)
  BY Zenon, E1000Assumption, FS_CardinalityType DEF ExistsBijection
<1>2. Cardinality(Mbuf) \in Nat
  BY Zenon, E1000Assumption, FS_CardinalityType
<1> DEFINE g == [j \in RxIndex |-> f[j + 1]]
<1>3. \A j \in RxIndex : j + 1 \in 1 .. Cardinality(Mbuf)
  BY <1>2, E1000Assumption DEF RxIndex
<1>4. f \in [1 .. Cardinality(Mbuf) -> Mbuf] /\ IsInjective(f)
  BY Zenon, <1>1 DEF Bijection, Injection
<1>5. g \in [RxIndex -> Mbuf]
  BY Zenon, <1>3, <1>4
<1>6. ASSUME NEW j \in RxIndex, NEW k \in RxIndex, g[j] = g[k] PROVE j = k
  <2>1. j + 1 = k + 1
    BY Zenon, <1>3, <1>4, <1>6 DEF IsInjective
  <2>2. QED
    BY <2>1, E1000Assumption DEF RxIndex
<1>7. g \in Injection(RxIndex, Mbuf)
  BY Zenon, <1>5, <1>6 DEF Injection, IsInjective
<1>8. QED
  BY Zenon, <1>7

\* With rings of any size, and even when the transmit ring is overrun: what the
\* card may write to belongs to the driver alone, and no mbuf is freed twice or
\* given to the stack while it is in a ring.
THEOREM OwnedOnce == Spec => []OneOwner
<1>1. Owners => OneOwner
  BY Zenon DEF Owners
<1>2. Init => Owners
  BY Zenon, RingFilled, InitOwners
<1>3. QED
  BY <1>1, <1>2, NextOwners, PTL DEF Spec

\* The invariant, as long as the stack is less than a ring ahead of the card.
LEMMA Invariance ==
  ASSUME Backlog < TX_RING_SIZE
  PROVE  Spec => []IInv
<1>1. Init => IInv
  BY Zenon, RingFilled, InitOwners, InitRings DEF IInv
<1>2. IInv /\ [Next]_vars => IInv'
  BY Zenon, NextRings
<1>3. QED
  BY <1>1, <1>2, PTL DEF Spec

\* With rings of any size, as long as the stack is less than a ring ahead: the
\* card sends the packets that e1000_transmit accepted, and net_rx is given those
\* the card received, in order, each once and with its contents.
THEOREM PacketsInOrder ==
  ASSUME Backlog < TX_RING_SIZE
  PROVE  Spec => []InOrder
<1>1. IInv => InOrder
  BY Zenon, CountedPrefix, E1000Assumption DEF IInv, Numbered, TxRing, RxRing, InOrder
<1>2. QED
  BY <1>1, Invariance, PTL

\* Under the same condition e1000_transmit frees an mbuf only after the card has
\* sent its packet.
THEOREM FreedInTime ==
  ASSUME Backlog < TX_RING_SIZE
  PROVE  Spec => []FreedAfterSending
<1>1. IInv => FreedAfterSending
  BY Zenon, NotFreed
<1>2. QED
  BY <1>1, Invariance, PTL
=============================================================================
