--------------------------- MODULE BlockMapProofs ----------------------------
(***************************************************************************)
(* The block map of files, for any numbers of files, blocks, words and     *)
(* calls: its blocks make up a forest (Forest, MapInv), which makes the    *)
(* bitmap exact and the files sequences of blocks.                         *)
(***************************************************************************)
EXTENDS BlockMap, WellFoundedInduction, TLAPS

\* Block numbers, and the disk with the inodes in memory.
Num == 0 .. NBLOCK

FS == [used : SUBSET DBlock, data : [DBlock -> [Word -> Int]],
       addrs : [Ino -> [AddrSlot -> Num]], addr : Num]

\* The blocks in use are those in a place, and each is in one place only.
Forest(s) ==
  /\ s \in FS
  /\ \A x \in Place : Ref(s, x) \in Num
  /\ \A b \in DBlock : b \in s.used <=> \E x \in Place : Ref(s, x) = b
  /\ \A x, y \in Place : Ref(s, x) = Ref(s, y) /\ Ref(s, x) # 0 => x = y

\* The places whose blocks are lists of blocks, and the places in such a block.
Lists == {x \in InInodes : x[3] \in {NDIRECT, NDIRECT + 1}}
           \cup {x \in InLists : x[2][3] = NDIRECT + 1}

Below(y, k) == <<y[1] + 1, y, k>>

\* The file a place belongs to.
Owner(x) == IF x[1] = 1 THEN x[2] ELSE IF x[1] = 2 THEN x[2][2] ELSE x[2][2][2]

\* A slot of an inode is a place, and the number in it is that of the inode.
LEMMA RefTop ==
  ASSUME NEW s, NEW f \in Ino, NEW k \in AddrSlot
  PROVE  /\ <<1, f, k>> \in Place
         /\ Ref(s, <<1, f, k>>) = s.addrs[f][k]
         /\ Owner(<<1, f, k>>) = f
         /\ <<1, f, k>> \in Lists <=> k \in {NDIRECT, NDIRECT + 1}
<1>1. <<1, f, k>> \in InInodes
  BY DEF InInodes
<1>2. <<1, f, k>>[1] = 1 /\ <<1, f, k>>[2] = f /\ <<1, f, k>>[3] = k
  OBVIOUS
<1>3. <<1, f, k>> \notin InLists
  BY DEF InLists
<1>4. QED BY <1>1, <1>2, <1>3 DEF Place, Ref, Ref1, Owner, Lists

\* A word of a list is a place, and the number in it is what the list says.
LEMMA RefBelow ==
  ASSUME NEW s, NEW y \in Lists, NEW k \in Word
  PROVE  /\ y \in Place /\ Below(y, k) \in Place
         /\ Ref(s, Below(y, k)) = WordOf(s, Ref(s, y), k)
         /\ Owner(Below(y, k)) = Owner(y)
<1>1. CASE y \in InInodes /\ y[3] \in {NDIRECT, NDIRECT + 1}
  <2>1. y[1] = 1
    BY <1>1 DEF InInodes
  <2>2. Below(y, k) = <<2, y, k>>
    BY <2>1 DEF Below
  <2>3. Below(y, k) \in InLists
    BY <1>1, <2>2 DEF InLists
  <2>4. Below(y, k)[1] = 2 /\ Below(y, k)[2] = y /\ Below(y, k)[3] = k
    BY <2>2
  <2>5. QED BY <1>1, <2>1, <2>3, <2>4 DEF Place, Ref, Ref2, Owner
<1>2. CASE y \in InLists /\ y[2][3] = NDIRECT + 1
  <2>1. y[1] = 2
    BY <1>2 DEF InLists
  <2>2. Below(y, k) = <<3, y, k>>
    BY <2>1 DEF Below
  <2>3. Below(y, k) \in InDouble
    BY <1>2, <2>2 DEF InDouble
  <2>4. Below(y, k)[1] = 3 /\ Below(y, k)[2] = y /\ Below(y, k)[3] = k
    BY <2>2
  <2>5. QED BY <1>2, <2>1, <2>3, <2>4 DEF Place, Ref, Ref3, Owner
<1>3. QED BY <1>1, <1>2 DEF Lists

\* Words of lists are not slots of inodes, and are apart.
LEMMA BelowApart ==
  ASSUME NEW y \in Lists, NEW k
  PROVE  /\ Below(y, k) # y
         /\ \A f, j : Below(y, k) # <<1, f, j>>
         /\ \A z, j : Below(y, k) = Below(z, j) => y = z /\ k = j
<1>1. y[1] \in {1, 2}
  BY DEF Lists, InInodes, InLists
<1>2. Below(y, k)[1] = y[1] + 1
  BY DEF Below
<1>3. QED BY <1>1, <1>2 DEF Below

\* Every place is a slot of an inode or a word of a list.
LEMMA PlaceCases ==
  ASSUME NEW x \in Place
  PROVE  \/ \E f \in Ino, k \in AddrSlot : x = <<1, f, k>>
         \/ \E y \in Lists, k \in Word : x = Below(y, k)
<1>1. CASE x \in InInodes
  BY <1>1 DEF InInodes
<1>2. CASE x \in InLists
  <2>1. PICK y \in InInodes, k \in Word : x = <<2, y, k>> /\ y[3] \in {NDIRECT, NDIRECT + 1}
    BY <1>2 DEF InLists
  <2>2. y[1] = 1
    BY DEF InInodes
  <2>3. QED BY <2>1, <2>2 DEF Lists, Below
<1>3. CASE x \in InDouble
  <2>1. PICK y \in InLists, k \in Word : x = <<3, y, k>> /\ y[2][3] = NDIRECT + 1
    BY <1>3 DEF InDouble
  <2>2. y[1] = 2
    BY DEF InLists
  <2>3. QED BY <2>1, <2>2 DEF Lists, Below
<1>4. QED BY <1>1, <1>2, <1>3 DEF Place

\* What holds of the slots, and of the words of every list it holds of, holds of
\* all places.
LEMMA PlaceInduction ==
  ASSUME NEW S, \A f \in Ino, k \in AddrSlot : <<1, f, k>> \in S,
         \A y \in Lists \cap S, k \in Word : Below(y, k) \in S
  PROVE  Place \subseteq S
<1>1. InInodes \subseteq S
  BY DEF InInodes
<1>2. InLists \subseteq S
  <2> SUFFICES ASSUME NEW x \in InLists PROVE x \in S
    OBVIOUS
  <2>1. PICK y \in InInodes, k \in Word : x = <<2, y, k>> /\ y[3] \in {NDIRECT, NDIRECT + 1}
    BY DEF InLists
  <2>2. y[1] = 1
    BY DEF InInodes
  <2>3. y \in Lists /\ x = Below(y, k)
    BY <2>1, <2>2 DEF Lists, Below
  <2>4. QED BY <1>1, <2>3
<1>3. InDouble \subseteq S
  <2> SUFFICES ASSUME NEW x \in InDouble PROVE x \in S
    OBVIOUS
  <2>1. PICK y \in InLists, k \in Word : x = <<3, y, k>> /\ y[2][3] = NDIRECT + 1
    BY DEF InDouble
  <2>2. y[1] = 2
    BY DEF InLists
  <2>3. y \in Lists /\ x = Below(y, k)
    BY <2>1, <2>2 DEF Lists, Below
  <2>4. QED BY <1>2, <2>3
<1>4. QED BY <1>1, <1>2, <1>3 DEF Place

\* A set of naturals with a member has a smallest one.
LEMMA SmallestIn ==
  ASSUME NEW S, S \subseteq Nat, S # {}
  PROVE  Min(S) \in S
<1> DEFINE R == OpToRel(<, Nat)
<1>1. \A m, j \in Nat : <<m, j>> \in R <=> m < j
  BY DEF OpToRel
<1>2. \E m \in S : \A j \in S : <<j, m>> \notin R
  <2> HIDE DEF R
  <2>1. IsWellFoundedOn(R, Nat)
    BY NatLessThanWellFounded DEF R
  <2>2. QED BY <2>1, WFMin, Zenon
<1>3. \E m \in S : \A j \in S : m <= j
  <2> HIDE DEF R
  <2>1. PICK m \in S : \A j \in S : <<j, m>> \notin R
    BY <1>2
  <2>2. \A j \in S : ~ (j < m)
    BY <1>1, <2>1, Zenon
  <2>3. QED BY <2>2
<1>4. QED BY <1>3, Zenon DEF Min

\* What balloc does: a block that was free, all zeroes; or nothing, and number 0.
Gives(s, t, b) ==
  /\ t \in FS
  /\ b \in (DBlock \ s.used) \cup {0}
  /\ t.addr = b
  /\ t.addrs = s.addrs
  /\ t.used = s.used \cup ({b} \ {0})
  /\ t.data = IF b = 0 THEN s.data ELSE [s.data EXCEPT ![b] = Zeroed]

\* The bitmap's first free block is a free one.
LEMMA BallocGives ==
  ASSUME NEW s \in FS
  PROVE  Gives(s, balloc(s), balloc(s).addr)
<1> DEFINE t == balloc(s)
           b == Min(DBlock \ s.used)
<1>1. Zeroed \in [Word -> Int]
  BY DEF Zeroed
<1>2. CASE s.used = DBlock
  <2>1. t = [s EXCEPT !.addr = 0]
    BY <1>2 DEF balloc
  <2>2. 0 \in Num
    BY BlockMapAssumption DEF Num
  <2>3. QED BY <1>2, <2>1, <2>2 DEF Gives, FS
<1>3. CASE s.used # DBlock
  <2>1. b \in DBlock \ s.used
    <3>1. s.used \subseteq DBlock
      BY DEF FS
    <3>2. DBlock \ s.used # {}
      BY <1>3, <3>1
    <3>3. DBlock \ s.used \subseteq Nat
      BY BlockMapAssumption DEF DBlock
    <3>4. QED BY <3>2, <3>3, SmallestIn
  <2>2. t = [s EXCEPT !.used = s.used \cup {b}, !.data = [s.data EXCEPT ![b] = Zeroed],
                      !.addr = b]
    BY <1>3 DEF balloc
  <2> HIDE DEF b, t
  <2>3. b \in Num /\ b # 0
    BY <2>1, BlockMapAssumption DEF Num, DBlock
  <2>4. t.addr = b /\ t.addrs = s.addrs /\ t.used = s.used \cup {b}
        /\ t.data = [s.data EXCEPT ![b] = Zeroed]
    BY <2>2 DEF FS
  <2>5. t.data \in [DBlock -> [Word -> Int]]
    BY <1>1, <2>1, <2>4 DEF FS
  <2>6. t \in FS
    BY Zenon, <2>1, <2>2, <2>3, <2>4, <2>5 DEF FS
  <2>7. QED BY <2>1, <2>3, <2>4, <2>6 DEF Gives, t
<1>4. QED BY <1>2, <1>3

\* Only place x changes, from 0 to b: what InInode and InBlock do with the block
\* that balloc gave them.
Fills(s, t, x, b) ==
  /\ t \in FS
  /\ b \in (DBlock \ s.used) \cup {0}
  /\ x \in Place /\ Ref(s, x) = 0
  /\ t.used = s.used \cup ({b} \ {0})
  /\ \A f \in Ino, k \in AddrSlot : t.addrs[f][k] = IF x = <<1, f, k>> THEN b ELSE s.addrs[f][k]
  /\ b # 0 => t.data[b] = Zeroed
  /\ \A y \in Lists, k \in Word :
       /\ Ref(s, y) # 0 => t.data[Ref(s, y)][k] = IF x = Below(y, k) THEN b
                                                  ELSE s.data[Ref(s, y)][k]
       /\ Ref(s, y) = 0 => x # Below(y, k)

\* The other places have the numbers they had.
LEMMA FillsOne ==
  ASSUME NEW s, NEW t, NEW x, NEW b, Forest(s), Fills(s, t, x, b)
  PROVE  \A y \in Place : Ref(t, y) = IF y = x THEN b ELSE Ref(s, y)
<1> DEFINE S == {y \in Place : Ref(t, y) = IF y = x THEN b ELSE Ref(s, y)}
<1>1. \A f \in Ino, k \in AddrSlot : <<1, f, k>> \in S
  <2> SUFFICES ASSUME NEW f \in Ino, NEW k \in AddrSlot PROVE <<1, f, k>> \in S
    OBVIOUS
  <2>1. t.addrs[f][k] = IF x = <<1, f, k>> THEN b ELSE s.addrs[f][k]
    BY DEF Fills
  <2>2. <<1, f, k>> \in Place /\ Ref(t, <<1, f, k>>) = t.addrs[f][k]
        /\ Ref(s, <<1, f, k>>) = s.addrs[f][k]
    BY RefTop
  <2>3. QED BY <2>1, <2>2, Zenon
<1>2. ASSUME NEW y \in Lists \cap S, NEW k \in Word PROVE Below(y, k) \in S
  <2> DEFINE z == Below(y, k)
  <2>1. z \in Place /\ Ref(t, z) = WordOf(t, Ref(t, y), k)
        /\ Ref(s, z) = WordOf(s, Ref(s, y), k) /\ y \in Place
    BY RefBelow
  <2>2. CASE y = x
    <3>1. Ref(t, y) = b /\ Ref(s, y) = 0
      BY <2>2 DEF Fills
    <3>2. WordOf(t, b, k) = 0
      BY DEF Fills, WordOf, Zeroed
    <3>3. WordOf(s, 0, k) = 0
      BY DEF WordOf
    <3>4. z # x
      BY <2>2, BelowApart
    <3>5. QED BY <2>1, <3>1, <3>2, <3>3, <3>4, Zenon
  <2>3. CASE y # x
    <3>1. Ref(t, y) = Ref(s, y)
      BY <2>3
    <3>2. CASE Ref(s, y) = 0
      <4>1. x # z
        BY <3>2 DEF Fills
      <4>2. QED BY <2>1, <3>1, <3>2, <4>1, Zenon DEF WordOf
    <3>3. CASE Ref(s, y) # 0
      <4>1. t.data[Ref(s, y)][k] = IF x = z THEN b ELSE s.data[Ref(s, y)][k]
        BY <3>3 DEF Fills
      <4>2. QED BY <2>1, <3>1, <3>3, <4>1, Zenon DEF WordOf
    <3>4. QED BY <3>2, <3>3
  <2>4. QED BY <2>2, <2>3
<1>3. Place \subseteq S
  <2> HIDE DEF S
  <2>1. \A y \in Lists \cap S, k \in Word : Below(y, k) \in S
    BY <1>2
  <2>2. QED BY <1>1, <2>1, PlaceInduction, Zenon
<1>4. QED BY <1>3

\* So the blocks still make up a forest.
LEMMA FillsForest ==
  ASSUME NEW s, NEW t, NEW x, NEW b, Forest(s), Fills(s, t, x, b)
  PROVE  Forest(t)
<1>1. \A y \in Place : Ref(t, y) = IF y = x THEN b ELSE Ref(s, y)
  BY FillsOne
<1>2. b \in Num /\ (b # 0 => b \in DBlock /\ b \notin s.used) /\ t \in FS
  BY BlockMapAssumption DEF Fills, Num, DBlock
<1>3. x \in Place /\ Ref(s, x) = 0
  BY DEF Fills
<1>4. \A y \in Place : Ref(t, y) \in Num
  BY <1>1, <1>2 DEF Forest
<1>5. ASSUME NEW c \in DBlock PROVE c \in t.used <=> \E y \in Place : Ref(t, y) = c
  <2>1. c # 0
    BY DEF DBlock
  <2>2. c \in t.used <=> c \in s.used \/ c = b
    BY <2>1 DEF Fills
  <2>3. c \in s.used <=> \E y \in Place : Ref(s, y) = c
    BY DEF Forest
  <2>4. QED BY <1>1, <1>3, <2>1, <2>2, <2>3, Zenon
<1>6. ASSUME NEW y \in Place, NEW z \in Place, Ref(t, y) = Ref(t, z), Ref(t, y) # 0
      PROVE  y = z
  <2>1. b # 0 => \A w \in Place : Ref(s, w) # b
    BY <1>2 DEF Forest
  <2>2. Ref(s, y) = Ref(s, z) /\ Ref(s, y) # 0 => y = z
    BY DEF Forest
  <2>3. QED BY <1>1, <1>6, <2>1, <2>2, Zenon
<1>7. QED BY <1>2, <1>4, <1>5, <1>6 DEF Forest

\* A forest is one by the numbers in the places and the bitmap.
LEMMA ForestSame ==
  ASSUME NEW s, NEW t, Forest(s), t \in FS, t.used = s.used,
         \A y \in Place : Ref(t, y) = Ref(s, y)
  PROVE  Forest(t)
<1>1. \A y \in Place : Ref(t, y) \in Num
  BY Zenon DEF Forest
<1>2. \A c \in DBlock : c \in t.used <=> \E y \in Place : Ref(t, y) = c
  BY Zenon DEF Forest
<1>3. \A y, z \in Place : Ref(t, y) = Ref(t, z) /\ Ref(t, y) # 0 => y = z
  BY Zenon DEF Forest
<1>4. QED BY <1>1, <1>2, <1>3, Zenon DEF Forest

\* What bmap promises of one level or of all: the number in place x is in addr,
\* and neither the numbers there were nor the contents of files have changed.
Finds(s, t, x, f) ==
  /\ Forest(t)
  /\ x \in Place /\ t.addr = Ref(t, x)
  /\ \A y \in Place : Ref(s, y) # 0 => Ref(t, y) = Ref(s, y)
  /\ \A y \in Place \ Lists : Ref(s, y) # 0 => t.data[Ref(s, y)] = s.data[Ref(s, y)]
  /\ \A g \in Ino \ {f} : t.addrs[g] = s.addrs[g]

\* One level after another.
LEMMA FindsOnward ==
  ASSUME NEW s, NEW t, NEW u, NEW x, NEW y, NEW f, Finds(s, t, x, f), Finds(t, u, y, f)
  PROVE  Finds(s, u, y, f)
BY Zenon DEF Finds

\* The places of a state are those of any other with the same inodes and blocks.
LEMMA RefSame ==
  ASSUME NEW s, NEW t, s.addrs = t.addrs, s.data = t.data
  PROVE  \A x : Ref(s, x) = Ref(t, x)
BY DEF Ref, Ref1, Ref2, Ref3, WordOf

\* A number that is there is found, and nothing changes.
LEMMA FindsPresent ==
  ASSUME NEW s, NEW x \in Place, NEW f \in Ino, Forest(s)
  PROVE  Finds(s, [s EXCEPT !.addr = Ref(s, x)], x, f)
<1> DEFINE t == [s EXCEPT !.addr = Ref(s, x)]
<1>1. s \in FS /\ Ref(s, x) \in Num
  BY DEF Forest
<1>2. t \in FS /\ t.addrs = s.addrs /\ t.data = s.data /\ t.used = s.used /\ t.addr = Ref(s, x)
  BY <1>1, Zenon DEF FS
<1> HIDE DEF t
<1>3. \A y : Ref(t, y) = Ref(s, y)
  BY <1>2, RefSame
<1>4. Forest(t)
  BY <1>2, <1>3, ForestSame, Zenon
<1>5. QED BY <1>2, <1>3, <1>4, Zenon DEF Finds, t

\* The blocks of lists and the block of another place are apart from a block that
\* was free.
LEMMA FillsFinds ==
  ASSUME NEW s, NEW t, NEW x, NEW b, NEW f \in Ino, Forest(s), Fills(s, t, x, b), t.addr = b,
         \A y \in Place \ Lists : Ref(s, y) # 0 => t.data[Ref(s, y)] = s.data[Ref(s, y)],
         \A g \in Ino \ {f} : t.addrs[g] = s.addrs[g]
  PROVE  Finds(s, t, x, f)
<1>1. \A y \in Place : Ref(t, y) = IF y = x THEN b ELSE Ref(s, y)
  BY FillsOne
<1>2. Forest(t)
  BY FillsForest
<1>3. x \in Place /\ Ref(s, x) = 0
  BY DEF Fills
<1>4. QED BY <1>1, <1>2, <1>3, Zenon DEF Finds

\* A slot of an inode.
LEMMA InInodeFinds ==
  ASSUME NEW s, Forest(s), NEW f \in Ino, NEW k \in AddrSlot
  PROVE  Finds(s, InInode(s, f, k), <<1, f, k>>, f)
<1> DEFINE x == <<1, f, k>>
           t == balloc(s)
           b == t.addr
           u == [t EXCEPT !.addrs[f][k] = b]
<1>1. x \in Place /\ Ref(s, x) = s.addrs[f][k] /\ s \in FS
  BY RefTop DEF Forest
<1>2. CASE s.addrs[f][k] # 0
  <2>1. InInode(s, f, k) = [s EXCEPT !.addr = Ref(s, x)]
    BY <1>1, <1>2 DEF InInode
  <2>2. QED BY <1>1, <2>1, FindsPresent
<1>3. CASE s.addrs[f][k] = 0
  <2>1. Gives(s, t, b)
    BY <1>1, BallocGives
  <2>2. InInode(s, f, k) = u
    BY <1>3 DEF InInode
  <2> HIDE DEF t, b
  <2>3. b \in Num /\ t \in FS
    BY <2>1, BlockMapAssumption DEF Gives, Num, DBlock
  <2>4. u \in FS /\ u.addr = t.addr /\ u.used = t.used /\ u.data = t.data
        /\ u.addrs = [t.addrs EXCEPT ![f][k] = b]
    BY <2>3, Zenon DEF FS
  <2>5. t.addrs = s.addrs /\ s.addrs \in [Ino -> [AddrSlot -> Num]] /\ t.addr = b
    BY <1>1, <2>1 DEF FS, Gives
  <2> HIDE DEF u
  <2>6. \A g \in Ino, j \in AddrSlot : u.addrs[g][j] = IF x = <<1, g, j>> THEN b ELSE s.addrs[g][j]
    BY <2>4, <2>5
  <2>7. \A g \in Ino \ {f} : u.addrs[g] = s.addrs[g]
    BY <2>4, <2>5
  <2>8. \A y \in Place : b # 0 => Ref(s, y) # b
    BY <2>1 DEF Gives, Forest
  <2>9. u.data = IF b = 0 THEN s.data ELSE [s.data EXCEPT ![b] = Zeroed]
    BY <2>1, <2>4, Zenon DEF Gives
  <2>10. \A y \in Place : Ref(s, y) # 0 => u.data[Ref(s, y)] = s.data[Ref(s, y)]
    <3> SUFFICES ASSUME NEW y \in Place, Ref(s, y) # 0
                 PROVE  u.data[Ref(s, y)] = s.data[Ref(s, y)]
      OBVIOUS
    <3>1. s.data \in [DBlock -> [Word -> Int]] /\ Ref(s, y) \in DBlock
      BY <1>1, BlockMapAssumption DEF FS, Forest, Num, DBlock
    <3>2. QED BY <2>8, <2>9, <3>1
  <2>11. b # 0 => u.data[b] = Zeroed
    <3>1. s.data \in [DBlock -> [Word -> Int]] /\ b \in DBlock \cup {0}
      BY <1>1, <2>1 DEF FS, Gives
    <3>2. QED BY <2>9, <3>1
  <2>12. ASSUME NEW y \in Lists, NEW j \in Word
         PROVE  /\ Ref(s, y) # 0 => u.data[Ref(s, y)][j] = IF x = Below(y, j) THEN b
                                                           ELSE s.data[Ref(s, y)][j]
                /\ Ref(s, y) = 0 => x # Below(y, j)
    <3>1. y \in Place /\ x # Below(y, j)
      BY RefBelow, BelowApart
    <3>2. QED BY <2>10, <3>1
  <2>13. u.used = s.used \cup ({b} \ {0}) /\ b \in (DBlock \ s.used) \cup {0}
    BY <2>1, <2>4 DEF Gives
  <2>14. Fills(s, u, x, b)
    <3> HIDE DEF x
    <3>1. QED BY <1>1, <1>3, <2>4, <2>6, <2>11, <2>12, <2>13, Zenon DEF Fills
  <2>15. QED
    <3> HIDE DEF x
    <3>1. \A y \in Place \ Lists : Ref(s, y) # 0 => u.data[Ref(s, y)] = s.data[Ref(s, y)]
      BY <2>10
    <3>2. u.addr = b
      BY <2>4, <2>5
    <3>3. Finds(s, u, x, f)
      BY <2>7, <2>14, <3>1, <3>2, FillsFinds
    <3>4. QED BY <2>2, <3>3 DEF x
<1>4. QED BY <1>2, <1>3

\* A word of a list.
LEMMA InBlockFinds ==
  ASSUME NEW s, Forest(s), NEW f \in Ino, NEW w \in Lists, s.addr = Ref(s, w), NEW k \in Word
  PROVE  Finds(s, InBlock(s, k), Below(w, k), f)
<1> DEFINE x == Below(w, k)
           c == s.addr
           t == balloc(s)
           b == t.addr
           u == [t EXCEPT !.data[c][k] = b]
<1>1. x \in Place /\ w \in Place /\ Ref(s, x) = WordOf(s, Ref(s, w), k) /\ s \in FS
  BY RefBelow DEF Forest
<1>2. CASE c = 0
  <2>1. Ref(s, x) = s.addr
    BY <1>1, <1>2 DEF WordOf
  <2>2. InBlock(s, k) = s
    BY <1>2 DEF InBlock
  <2>3. s = [s EXCEPT !.addr = Ref(s, x)]
    BY <1>1, <2>1 DEF FS
  <2>4. QED
    <3> HIDE DEF x, c
    <3>1. Finds(s, [s EXCEPT !.addr = Ref(s, x)], x, f)
      BY <1>1, FindsPresent
    <3>2. Finds(s, s, x, f)
      BY <2>3, <3>1
    <3>3. QED BY <2>2, <3>2 DEF x
<1>3. CASE c # 0 /\ s.data[c][k] # 0
  <2>1. InBlock(s, k) = [s EXCEPT !.addr = Ref(s, x)]
    BY <1>1, <1>3 DEF InBlock, WordOf
  <2>2. QED
    <3> HIDE DEF x
    <3>1. QED BY <1>1, <2>1, FindsPresent DEF x
<1>4. CASE c # 0 /\ s.data[c][k] = 0
  <2>1. Gives(s, t, b)
    BY <1>1, BallocGives
  <2>2. InBlock(s, k) = u
    BY <1>4 DEF InBlock
  <2> HIDE DEF t, b
  <2>3. b \in Num /\ t \in FS /\ b \in Int /\ c \in DBlock
    BY <1>1, <1>4, <2>1, BlockMapAssumption DEF Gives, Num, DBlock, FS
  <2>4. u \in FS /\ u.addr = t.addr /\ u.used = t.used /\ u.addrs = t.addrs
        /\ u.data = [t.data EXCEPT ![c][k] = b]
    BY <2>3, Zenon DEF FS
  <2>5. t.addrs = s.addrs /\ t.addr = b /\ s.data \in [DBlock -> [Word -> Int]]
        /\ t.data \in [DBlock -> [Word -> Int]]
    BY <1>1, <2>1 DEF FS, Gives
  <2> HIDE DEF u
  <2>6. Ref(s, w) = c /\ c # 0 /\ Ref(s, x) = 0
    BY <1>1, <1>4 DEF WordOf
  <2>7. \A y \in Place : b # 0 => Ref(s, y) # b
    BY <2>1 DEF Gives, Forest
  <2> HIDE DEF c, x
  <2>8. t.data = IF b = 0 THEN s.data ELSE [s.data EXCEPT ![b] = Zeroed]
    BY <2>1, Zenon DEF Gives
  <2>9. \A y \in Place : Ref(s, y) # 0 => Ref(s, y) \in DBlock
    BY BlockMapAssumption DEF Forest, Num, DBlock
  <2>10. \A y \in Place : Ref(s, y) # 0 => t.data[Ref(s, y)] = s.data[Ref(s, y)]
    BY <2>5, <2>7, <2>8, <2>9
  <2>11. \A y \in Place : Ref(s, y) = c => y = w
    BY <1>1, <2>6 DEF Forest
  <2>12. \A y \in Place \ Lists : Ref(s, y) # 0 => u.data[Ref(s, y)] = s.data[Ref(s, y)]
    <3> SUFFICES ASSUME NEW y \in Place \ Lists, Ref(s, y) # 0
                 PROVE  u.data[Ref(s, y)] = s.data[Ref(s, y)]
      OBVIOUS
    <3>1. Ref(s, y) # c
      BY <2>11
    <3>2. QED BY <2>3, <2>4, <2>5, <2>9, <2>10, <3>1
  <2>13. b # 0 => u.data[b] = Zeroed
    <3> SUFFICES ASSUME b # 0 PROVE u.data[b] = Zeroed
      OBVIOUS
    <3>1. b \in DBlock /\ b # c
      BY <1>1, <2>1, <2>6, <2>7 DEF Gives
    <3>2. t.data[b] = Zeroed
      BY <2>5, <2>8, <3>1
    <3>3. QED BY <2>3, <2>4, <2>5, <3>1, <3>2
  <2>14. ASSUME NEW y \in Lists, NEW j \in Word
         PROVE  /\ Ref(s, y) # 0 => u.data[Ref(s, y)][j] = IF x = Below(y, j) THEN b
                                                           ELSE s.data[Ref(s, y)][j]
                /\ Ref(s, y) = 0 => x # Below(y, j)
    <3>1. y \in Place
      BY RefBelow
    <3>2. x = Below(y, j) <=> y = w /\ j = k
      BY BelowApart DEF x
    <3>3. Ref(s, y) = 0 => x # Below(y, j)
      BY <2>6, <3>2
    <3>4. ASSUME Ref(s, y) # 0
          PROVE  u.data[Ref(s, y)][j] = IF x = Below(y, j) THEN b ELSE s.data[Ref(s, y)][j]
      <4>1. Ref(s, y) \in DBlock /\ t.data[Ref(s, y)] = s.data[Ref(s, y)]
        BY <2>9, <2>10, <3>1, <3>4
      <4>2. u.data[Ref(s, y)][j] = IF Ref(s, y) = c /\ j = k THEN b ELSE t.data[Ref(s, y)][j]
        BY <2>3, <2>4, <2>5, <4>1
      <4>3. Ref(s, y) = c <=> y = w
        BY <2>6, <2>11, <3>1
      <4>4. QED BY <3>2, <4>1, <4>2, <4>3, Zenon
    <3>5. QED BY <3>3, <3>4
  <2>15. u.used = s.used \cup ({b} \ {0}) /\ b \in (DBlock \ s.used) \cup {0}
    BY <2>1, <2>4 DEF Gives
  <2>16. \A g \in Ino, j \in AddrSlot : u.addrs[g][j] = IF x = <<1, g, j>> THEN b ELSE s.addrs[g][j]
    <3>1. \A g, j : x # <<1, g, j>>
      BY BelowApart DEF x
    <3>2. QED BY <2>4, <2>5, <3>1, Zenon
  <2>17. Fills(s, u, x, b)
    BY <1>1, <2>4, <2>6, <2>13, <2>14, <2>15, <2>16, Zenon DEF Fills
  <2>18. u.addr = b /\ \A g \in Ino \ {f} : u.addrs[g] = s.addrs[g]
    BY <2>4, <2>5
  <2>19. Finds(s, u, x, f)
    BY <2>12, <2>17, <2>18, FillsFinds
  <2>20. QED BY <2>2, <2>19 DEF x
<1>5. QED BY <1>2, <1>3, <1>4

\* Quotient and remainder are words of the two lists.
LEMMA WordsOf ==
  ASSUME NEW m \in 0 .. NINDIRECT * NINDIRECT - 1
  PROVE  /\ m \div NINDIRECT \in Word
         /\ m % NINDIRECT \in Word
         /\ m = NINDIRECT * (m \div NINDIRECT) + (m % NINDIRECT)
<1> DEFINE N == NINDIRECT
<1>0. N \in Nat \ {0}
  BY BlockMapAssumption
<1> HIDE DEF N
<1>1. m \in 0 .. N * N - 1 /\ N * N \in Nat
  BY <1>0 DEF N
<1>2. m % N \in 0 .. N - 1 /\ m \div N \in Int /\ N * (m \div N) \in Int
      /\ m = N * (m \div N) + (m % N)
  BY <1>0, <1>1
<1>3. \A q \in Int : q < 0 => N * q <= -N
  BY <1>0
<1>4. \A q \in Int : q >= N => N * q >= N * N
  BY <1>0
<1>5. m \div N \in 0 .. N - 1
  BY <1>0, <1>1, <1>2, <1>3, <1>4
<1>6. QED BY <1>2, <1>5 DEF N, Word

\* The blocks of a file are in three ranges.
LEMMA BlockCases ==
  ASSUME NEW bn \in 0 .. MAXFILE - 1
  PROVE  \/ bn < NDIRECT
         \/ bn >= NDIRECT /\ bn - NDIRECT < NINDIRECT
         \/ bn - NDIRECT >= NINDIRECT
            /\ (bn - NDIRECT) - NINDIRECT \in 0 .. NINDIRECT * NINDIRECT - 1
<1>1. NINDIRECT * NINDIRECT \in Nat
  BY BlockMapAssumption
<1>2. QED BY <1>1, BlockMapAssumption DEF MAXFILE

\* The place of a file's block is the file's, and its block is no list.
LEMMA LeafPlace ==
  ASSUME NEW f \in Ino, NEW bn \in 0 .. MAXFILE - 1
  PROVE  Leaf(f, bn) \in Place \ Lists /\ Owner(Leaf(f, bn)) = f
<1> DEFINE m == (bn - NDIRECT) - NINDIRECT
           d == <<1, f, NDIRECT + 1>>
           e == <<1, f, NDIRECT>>
<1>0. bn \in Nat /\ NDIRECT \in Nat /\ NINDIRECT \in Nat
  BY BlockMapAssumption DEF MAXFILE
<1>1. CASE bn < NDIRECT
  <2>1. Leaf(f, bn) = <<1, f, bn>> /\ bn \in AddrSlot /\ bn \notin {NDIRECT, NDIRECT + 1}
    BY <1>0, <1>1 DEF Leaf, AddrSlot
  <2>2. QED BY <2>1, RefTop
<1>2. CASE bn >= NDIRECT /\ bn - NDIRECT < NINDIRECT
  <2>1. e \in Lists /\ Owner(e) = f /\ e \in InInodes
    BY <1>0, RefTop DEF AddrSlot, InInodes
  <2>2. bn - NDIRECT \in Word
    BY <1>0, <1>2 DEF Word
  <2>3. Leaf(f, bn) = <<2, e, bn - NDIRECT>>
    BY <1>0, <1>2 DEF Leaf
  <2>4. Leaf(f, bn) = Below(e, bn - NDIRECT)
    BY <2>3 DEF Below
  <2>5. Leaf(f, bn) \in Place /\ Owner(Leaf(f, bn)) = f
    BY <2>1, <2>2, <2>4, RefBelow
  <2>6. Leaf(f, bn) \notin Lists
    BY <1>0, <2>3 DEF Lists, InInodes
  <2>7. QED BY <2>5, <2>6
<1>3. CASE bn - NDIRECT >= NINDIRECT /\ m \in 0 .. NINDIRECT * NINDIRECT - 1
  <2>1. d \in Lists /\ Owner(d) = f /\ d \in InInodes /\ d[3] = NDIRECT + 1
    BY <1>0, RefTop DEF AddrSlot, InInodes
  <2>2. m \div NINDIRECT \in Word /\ m % NINDIRECT \in Word
    BY <1>3, WordsOf
  <2> DEFINE y == <<2, d, m \div NINDIRECT>>
  <2>3. Leaf(f, bn) = <<3, y, m % NINDIRECT>>
    BY <1>0, <1>3 DEF Leaf
  <2> HIDE DEF m, d
  <2>4. y = Below(d, m \div NINDIRECT) /\ Leaf(f, bn) = Below(y, m % NINDIRECT)
    BY <2>3 DEF Below, d
  <2>5. y \in InLists /\ y[2][3] = NDIRECT + 1
    BY <2>1, <2>2 DEF InLists
  <2>6. y \in Lists
    BY <2>5 DEF Lists
  <2>7. Owner(y) = f
    BY <2>1, <2>2, <2>4, RefBelow
  <2> HIDE DEF y
  <2>8. Leaf(f, bn) \in Place /\ Owner(Leaf(f, bn)) = f
    BY <2>2, <2>4, <2>6, <2>7, RefBelow
  <2>9. Leaf(f, bn) \notin Lists
    BY <2>3 DEF Lists, InInodes, InLists
  <2>10. QED BY <2>8, <2>9
<1>4. QED BY <1>1, <1>2, <1>3, BlockCases DEF m

\* Two blocks of files are in two places.
LEMMA LeavesApart ==
  ASSUME NEW f \in Ino, NEW bn \in 0 .. MAXFILE - 1, NEW g \in Ino, NEW j \in 0 .. MAXFILE - 1
  PROVE  Leaf(f, bn) = Leaf(g, j) => f = g /\ bn = j
<1>7. SUFFICES ASSUME Leaf(f, bn) = Leaf(g, j) PROVE f = g /\ bn = j
  OBVIOUS
<1> DEFINE m == (bn - NDIRECT) - NINDIRECT
           n == (j - NDIRECT) - NINDIRECT
<1>0. bn \in Int /\ j \in Int /\ NDIRECT \in Nat /\ NINDIRECT \in Nat
  BY BlockMapAssumption DEF MAXFILE
<1>1. f = g
  BY <1>7, LeafPlace
<1>2. CASE bn < NDIRECT
  BY <1>0, <1>2, <1>7 DEF Leaf
<1>3. CASE bn >= NDIRECT /\ bn - NDIRECT < NINDIRECT
  <2>1. Leaf(f, bn) = <<2, <<1, f, NDIRECT>>, bn - NDIRECT>>
    BY <1>0, <1>3 DEF Leaf
  <2>2. j >= NDIRECT /\ j - NDIRECT < NINDIRECT
    BY <1>0, <1>7, <2>1 DEF Leaf
  <2>3. Leaf(g, j) = <<2, <<1, g, NDIRECT>>, j - NDIRECT>>
    BY <1>0, <2>2 DEF Leaf
  <2>4. bn - NDIRECT = j - NDIRECT
    <3>1. Leaf(f, bn)[3] = bn - NDIRECT /\ Leaf(g, j)[3] = j - NDIRECT
      BY <2>1, <2>3
    <3>2. QED BY <1>7, <3>1, Zenon
  <2>5. QED BY <1>0, <1>1, <2>4
<1>4. CASE bn - NDIRECT >= NINDIRECT /\ m \in 0 .. NINDIRECT * NINDIRECT - 1
  <2>1. Leaf(f, bn) = <<3, <<2, <<1, f, NDIRECT + 1>>, m \div NINDIRECT>>, m % NINDIRECT>>
    BY <1>0, <1>4 DEF Leaf
  <2>2. j - NDIRECT >= NINDIRECT
    BY <1>0, <1>7, <2>1 DEF Leaf
  <2>3. n \in 0 .. NINDIRECT * NINDIRECT - 1
    BY <1>0, <2>2, BlockCases
  <2>4. Leaf(g, j) = <<3, <<2, <<1, g, NDIRECT + 1>>, n \div NINDIRECT>>, n % NINDIRECT>>
    BY <1>0, <2>2 DEF Leaf
  <2>5. m \div NINDIRECT = n \div NINDIRECT /\ m % NINDIRECT = n % NINDIRECT
    <3> HIDE DEF m, n
    <3>1. /\ Leaf(f, bn)[3] = m % NINDIRECT /\ Leaf(f, bn)[2][3] = m \div NINDIRECT
          /\ Leaf(g, j)[3] = n % NINDIRECT /\ Leaf(g, j)[2][3] = n \div NINDIRECT
      BY <2>1, <2>4
    <3>2. QED BY <1>7, <3>1, Zenon
  <2>6. m = NINDIRECT * (m \div NINDIRECT) + (m % NINDIRECT)
        /\ n = NINDIRECT * (n \div NINDIRECT) + (n % NINDIRECT)
    BY <1>4, <2>3, WordsOf
  <2>7. m = n
    <3> HIDE DEF m, n
    <3>1. QED BY <2>5, <2>6, Zenon
  <2>8. QED BY <1>0, <1>1, <2>7
<1>5. QED BY <1>2, <1>3, <1>4, BlockCases DEF m

\* bmap finds or makes the place of every block a file may have.
LEMMA BmapFinds ==
  ASSUME NEW s, Forest(s), NEW f \in Ino, NEW bn \in 0 .. MAXFILE - 1
  PROVE  Finds(s, bmap(s, f, bn), Leaf(f, bn), f)
<1> DEFINE m == (bn - NDIRECT) - NINDIRECT
           d == <<1, f, NDIRECT + 1>>
           e == <<1, f, NDIRECT>>
<1>0. bn \in Nat /\ NDIRECT \in Nat /\ NINDIRECT \in Nat
      /\ NDIRECT \in AddrSlot /\ NDIRECT + 1 \in AddrSlot
  BY BlockMapAssumption DEF MAXFILE, AddrSlot
<1>1. CASE bn < NDIRECT
  <2>1. Leaf(f, bn) = <<1, f, bn>> /\ bn \in AddrSlot /\ bmap(s, f, bn) = InInode(s, f, bn)
    BY <1>0, <1>1 DEF Leaf, AddrSlot, bmap
  <2>2. Finds(s, InInode(s, f, bn), <<1, f, bn>>, f)
    BY <2>1, InInodeFinds
  <2>3. QED BY <2>1, <2>2
<1>2. CASE bn >= NDIRECT /\ bn - NDIRECT < NINDIRECT
  <2> DEFINE t == InInode(s, f, NDIRECT)
             k == bn - NDIRECT
  <2>1. Finds(s, t, e, f)
    BY <1>0, InInodeFinds
  <2>2. e \in Lists /\ k \in Word /\ Leaf(f, bn) = <<2, e, k>>
    BY <1>0, <1>2, RefTop DEF Word, Leaf
  <2>3. Leaf(f, bn) = Below(e, k)
    BY <2>2 DEF Below
  <2>4. bmap(s, f, bn) = InBlock(t, k)
    BY <1>0, <1>2 DEF bmap
  <2> HIDE DEF t, k, e
  <2>5. Forest(t) /\ t.addr = Ref(t, e)
    BY <2>1, Zenon DEF Finds
  <2>6. Finds(t, InBlock(t, k), Below(e, k), f)
    BY <2>2, <2>5, InBlockFinds
  <2>7. QED BY <2>1, <2>3, <2>4, <2>6, FindsOnward
<1>3. CASE bn - NDIRECT >= NINDIRECT /\ m \in 0 .. NINDIRECT * NINDIRECT - 1
  <2> DEFINE q == m \div NINDIRECT
             r == m % NINDIRECT
             y == <<2, d, q>>
             t == InInode(s, f, NDIRECT + 1)
             u == InBlock(t, q)
  <2>1. Finds(s, t, d, f)
    BY <1>0, InInodeFinds
  <2>2. d \in Lists /\ d \in InInodes /\ d[3] = NDIRECT + 1
    BY <1>0, RefTop DEF InInodes
  <2>3. q \in Word /\ r \in Word
    BY <1>3, WordsOf
  <2>4. Leaf(f, bn) = <<3, y, r>> /\ bmap(s, f, bn) = InBlock(u, r)
    BY <1>0, <1>3 DEF Leaf, bmap
  <2> HIDE DEF m, q, r, t, u
  <2>5. y = Below(d, q) /\ Leaf(f, bn) = Below(y, r)
    BY <2>4 DEF Below
  <2>6. y \in Lists
    BY <2>2, <2>3 DEF Lists, InLists
  <2> HIDE DEF y, d
  <2>7. Forest(t) /\ t.addr = Ref(t, d)
    BY <2>1, Zenon DEF Finds
  <2>8. Finds(t, u, y, f)
    BY <2>2, <2>3, <2>5, <2>7, InBlockFinds DEF u
  <2>9. Forest(u) /\ u.addr = Ref(u, y)
    BY <2>8, Zenon DEF Finds
  <2>10. Finds(u, InBlock(u, r), Below(y, r), f)
    BY <2>3, <2>6, <2>9, InBlockFinds
  <2>11. Finds(s, u, y, f)
    BY <2>1, <2>8, FindsOnward
  <2>12. QED BY <2>4, <2>5, <2>10, <2>11, FindsOnward
<1>4. QED BY <1>1, <1>2, <1>3, BlockCases DEF m

\* A block that a file has is found without any change.
LEMMA BmapPresent ==
  ASSUME NEW s, Forest(s), NEW f \in Ino, NEW bn \in 0 .. MAXFILE - 1, Ref(s, Leaf(f, bn)) # 0,
         s.addr = 0
  PROVE  [bmap(s, f, bn) EXCEPT !.addr = 0] = s
<1> DEFINE m == (bn - NDIRECT) - NINDIRECT
           d == <<1, f, NDIRECT + 1>>
           e == <<1, f, NDIRECT>>
<1>0. bn \in Nat /\ NDIRECT \in Nat /\ NINDIRECT \in Nat
      /\ NDIRECT \in AddrSlot /\ NDIRECT + 1 \in AddrSlot
  BY BlockMapAssumption DEF MAXFILE, AddrSlot
<1>1. s \in FS
  BY DEF Forest
<1>2. ASSUME NEW k \in AddrSlot, Ref(s, <<1, f, k>>) # 0
      PROVE  InInode(s, f, k) = [s EXCEPT !.addr = Ref(s, <<1, f, k>>)]
  BY <1>2, RefTop DEF InInode
<1>3. ASSUME NEW w \in Lists, NEW k \in Word, NEW t, t = [s EXCEPT !.addr = Ref(s, w)],
             Ref(s, Below(w, k)) # 0
      PROVE  /\ Ref(s, w) # 0
             /\ InBlock(t, k) = [s EXCEPT !.addr = Ref(s, Below(w, k))]
  <2>1. Ref(s, Below(w, k)) = WordOf(s, Ref(s, w), k)
    BY RefBelow
  <2>2. Ref(s, w) # 0 /\ s.data[Ref(s, w)][k] = Ref(s, Below(w, k))
    BY <1>3, <2>1 DEF WordOf
  <2>3. t.addr = Ref(s, w) /\ t.data = s.data
    BY <1>1, <1>3 DEF FS
  <2>4. InBlock(t, k) = [t EXCEPT !.addr = Ref(s, Below(w, k))]
    BY <1>3, <2>2, <2>3, Zenon DEF InBlock
  <2>5. QED BY <1>1, <1>3, <2>2, <2>4, Zenon DEF FS
<1>4. bmap(s, f, bn) = [s EXCEPT !.addr = Ref(s, Leaf(f, bn))]
  <2>1. CASE bn < NDIRECT
    <3>1. Leaf(f, bn) = <<1, f, bn>> /\ bn \in AddrSlot /\ bmap(s, f, bn) = InInode(s, f, bn)
      BY <1>0, <2>1 DEF Leaf, AddrSlot, bmap
    <3>2. QED BY <1>2, <3>1
  <2>2. CASE bn >= NDIRECT /\ bn - NDIRECT < NINDIRECT
    <3> DEFINE t == InInode(s, f, NDIRECT)
               k == bn - NDIRECT
    <3>1. e \in Lists /\ k \in Word /\ Leaf(f, bn) = <<2, e, k>>
      BY <1>0, <2>2, RefTop DEF Word, Leaf
    <3>2. Leaf(f, bn) = Below(e, k)
      BY <3>1 DEF Below
    <3>3. bmap(s, f, bn) = InBlock(t, k)
      BY <1>0, <2>2 DEF bmap
    <3> HIDE DEF k
    <3>4. Ref(s, e) # 0
      BY <1>3, <3>1, <3>2, Zenon
    <3>5. t = [s EXCEPT !.addr = Ref(s, e)]
      BY <1>0, <1>2, <3>4
    <3> HIDE DEF t, e
    <3>6. QED BY <1>3, <3>1, <3>2, <3>3, <3>5
  <2>3. CASE bn - NDIRECT >= NINDIRECT /\ m \in 0 .. NINDIRECT * NINDIRECT - 1
    <3> DEFINE q == m \div NINDIRECT
               r == m % NINDIRECT
               y == <<2, d, q>>
               t == InInode(s, f, NDIRECT + 1)
               u == InBlock(t, q)
    <3>1. d \in Lists /\ d \in InInodes /\ d[3] = NDIRECT + 1
      BY <1>0, RefTop DEF InInodes
    <3>2. q \in Word /\ r \in Word
      BY <2>3, WordsOf
    <3>3. Leaf(f, bn) = <<3, y, r>> /\ bmap(s, f, bn) = InBlock(u, r)
      BY <1>0, <2>3 DEF Leaf, bmap
    <3> HIDE DEF m, q, r
    <3>4. y = Below(d, q) /\ Leaf(f, bn) = Below(y, r)
      BY <3>3 DEF Below
    <3>5. y \in Lists
      BY <3>1, <3>2 DEF Lists, InLists
    <3> HIDE DEF y
    <3>6. Ref(s, y) # 0
      BY <1>3, <3>2, <3>4, <3>5, Zenon
    <3>7. Ref(s, d) # 0
      <4> HIDE DEF d
      <4>1. QED BY <1>3, <3>1, <3>2, <3>4, <3>6, Zenon
    <3>8. t = [s EXCEPT !.addr = Ref(s, d)]
      BY <1>0, <1>2, <3>7
    <3> HIDE DEF t, d
    <3>9. u = [s EXCEPT !.addr = Ref(s, y)]
      BY <1>3, <3>1, <3>2, <3>4, <3>6, <3>8
    <3> HIDE DEF u
    <3>10. QED BY <1>3, <3>2, <3>3, <3>4, <3>5, <3>9
  <2>4. QED BY <2>1, <2>2, <2>3, BlockCases DEF m
<1>5. QED BY <1>1, <1>4, Zenon DEF FS

\* The block of place x is written: neither the numbers nor other blocks change.
Written(t, u, x, w) ==
  /\ Forest(u) /\ u.addr = 0 /\ u.addrs = t.addrs
  /\ \A y \in Place : Ref(u, y) = Ref(t, y)
  /\ u.data[Ref(t, x)] = w
  /\ \A y \in Place \ {x} : Ref(t, y) # 0 => u.data[Ref(t, y)] = t.data[Ref(t, y)]

\* That is what writei's log_write of a data block does.
LEMMA WriteKeeps ==
  ASSUME NEW t, NEW u, Forest(t), NEW x \in Place \ Lists, Ref(t, x) # 0,
         NEW w \in [Word -> Int]
  PROVE  u = [t EXCEPT !.data[Ref(t, x)] = w, !.addr = 0] => Written(t, u, x, w)
<1>16. SUFFICES ASSUME u = [t EXCEPT !.data[Ref(t, x)] = w, !.addr = 0]
       PROVE  Written(t, u, x, w)
  OBVIOUS
<1> DEFINE b == Ref(t, x)
<1>1. t \in FS /\ b \in DBlock
  BY BlockMapAssumption DEF Forest, Num, DBlock
<1>2. 0 \in Num
  BY BlockMapAssumption DEF Num
<1> HIDE DEF b
<1>3. u = [t EXCEPT !.data[b] = w, !.addr = 0]
  BY <1>16 DEF b
<1>4. u.addr = 0 /\ u.addrs = t.addrs /\ u.used = t.used /\ u.data = [t.data EXCEPT ![b] = w]
  BY <1>1, <1>3, Zenon DEF FS
<1>5. u \in FS
  <2>1. u = [t EXCEPT !.data = [t.data EXCEPT ![b] = w], !.addr = 0]
    BY <1>3
  <2>2. [t.data EXCEPT ![b] = w] \in [DBlock -> [Word -> Int]]
    BY <1>1 DEF FS
  <2>3. QED BY <1>1, <1>2, <2>1, <2>2, Zenon DEF FS
<1>6. t.data \in [DBlock -> [Word -> Int]]
  BY <1>1 DEF FS
<1>7. \A y \in Place : Ref(t, y) # 0 => Ref(t, y) \in DBlock
  BY BlockMapAssumption DEF Forest, Num, DBlock
<1>8. \A y \in Place \ {x} : Ref(t, y) # b
  BY DEF Forest, b
<1>9. \A y \in Place \ {x} : Ref(t, y) # 0 => u.data[Ref(t, y)] = t.data[Ref(t, y)]
  BY <1>1, <1>4, <1>6, <1>7, <1>8
<1> DEFINE S == {y \in Place : Ref(u, y) = Ref(t, y)}
<1>10. \A f \in Ino, k \in AddrSlot : <<1, f, k>> \in S
  <2> SUFFICES ASSUME NEW f \in Ino, NEW k \in AddrSlot PROVE <<1, f, k>> \in S
    OBVIOUS
  <2>1. <<1, f, k>> \in Place /\ Ref(u, <<1, f, k>>) = u.addrs[f][k]
        /\ Ref(t, <<1, f, k>>) = t.addrs[f][k]
    BY RefTop
  <2>2. QED BY <1>4, <2>1, Zenon
<1>11. ASSUME NEW y \in Lists \cap S, NEW k \in Word PROVE Below(y, k) \in S
  <2>1. y \in Place \ {x} /\ Below(y, k) \in Place
        /\ Ref(u, Below(y, k)) = WordOf(u, Ref(u, y), k)
        /\ Ref(t, Below(y, k)) = WordOf(t, Ref(t, y), k)
    BY RefBelow
  <2>2. Ref(u, y) = Ref(t, y)
    OBVIOUS
  <2>3. Ref(t, y) # 0 => u.data[Ref(t, y)] = t.data[Ref(t, y)]
    BY <1>9, <2>1
  <2>4. QED BY <2>1, <2>2, <2>3, Zenon DEF WordOf
<1>12. \A y \in Place : Ref(u, y) = Ref(t, y)
  <2>1. Place \subseteq S
    <3> HIDE DEF S
    <3>1. \A y \in Lists \cap S, k \in Word : Below(y, k) \in S
      BY <1>11
    <3>2. QED BY <1>10, <3>1, PlaceInduction, Zenon
  <2>2. QED BY <2>1
<1>13. Forest(u)
  BY <1>4, <1>5, <1>12, ForestSame, Zenon
<1>14. u.data[b] = w
  BY <1>1, <1>4, <1>6
<1>15. QED BY <1>4, <1>9, <1>12, <1>13, <1>14, Zenon DEF b, Written

\* itrunc gives back exactly the blocks that the file's places hold.
LEMMA GoneExact ==
  ASSUME Forest(fs), NEW f \in Ino, fs.addrs[f][NDIRECT + 1] = 0
  PROVE  \A c : c \in Direct(f) \cup Indirect(f) <=>
                c # 0 /\ \E y \in Place : Owner(y) = f /\ Ref(fs, y) = c
<1> DEFINE e == <<1, f, NDIRECT>>
           d == <<1, f, NDIRECT + 1>>
           b == fs.addrs[f][NDIRECT]
<1>0. NDIRECT \in Nat /\ NDIRECT \in AddrSlot /\ NDIRECT + 1 \in AddrSlot
      /\ 0 .. NDIRECT - 1 \subseteq AddrSlot
  BY BlockMapAssumption DEF AddrSlot
<1>1. e \in Lists /\ e \in Place /\ Owner(e) = f /\ Ref(fs, e) = b
  BY <1>0, RefTop
<1>2. d \in Lists /\ Ref(fs, d) = 0
  BY <1>0, RefTop
<1>3. ASSUME NEW c, c \in Direct(f)
      PROVE  c # 0 /\ \E y \in Place : Owner(y) = f /\ Ref(fs, y) = c
  <2>1. PICK k \in 0 .. NDIRECT - 1 : c = fs.addrs[f][k] /\ c # 0
    BY <1>3 DEF Direct
  <2>2. QED BY <1>0, <2>1, RefTop, Zenon
<1>4. ASSUME NEW c, c \in Indirect(f)
      PROVE  c # 0 /\ \E y \in Place : Owner(y) = f /\ Ref(fs, y) = c
  <2>1. b # 0 /\ (c = b \/ \E k \in Word : c = fs.data[b][k] /\ c # 0)
    BY <1>4 DEF Indirect
  <2>2. CASE c = b
    BY <1>1, <2>1, <2>2
  <2>3. CASE \E k \in Word : c = fs.data[b][k] /\ c # 0
    <3>1. PICK k \in Word : c = fs.data[b][k] /\ c # 0
      BY <2>3
    <3> HIDE DEF e, b
    <3>2. Below(e, k) \in Place /\ Owner(Below(e, k)) = f
          /\ Ref(fs, Below(e, k)) = WordOf(fs, b, k)
      BY <1>1, RefBelow
    <3>3. WordOf(fs, b, k) = c
      BY <2>1, <3>1 DEF WordOf
    <3>4. QED BY <3>1, <3>2, <3>3
  <2>4. QED BY <2>1, <2>2, <2>3
<1>5. ASSUME NEW y \in Place, Owner(y) = f, Ref(fs, y) # 0
      PROVE  Ref(fs, y) \in Direct(f) \cup Indirect(f)
  <2>1. CASE \E g \in Ino, k \in AddrSlot : y = <<1, g, k>>
    <3>1. PICK g \in Ino, k \in AddrSlot : y = <<1, g, k>>
      BY <2>1
    <3>2. g = f /\ Ref(fs, y) = fs.addrs[f][k]
      BY <1>5, <3>1, RefTop
    <3>3. k \in 0 .. NDIRECT - 1 \/ k = NDIRECT \/ k = NDIRECT + 1
      BY <1>0 DEF AddrSlot
    <3>4. CASE k \in 0 .. NDIRECT - 1
      BY <1>5, <3>2, <3>4 DEF Direct
    <3>5. CASE k = NDIRECT
      BY <1>5, <3>2, <3>5 DEF Indirect
    <3>6. CASE k = NDIRECT + 1
      BY <1>5, <3>2, <3>6
    <3>7. QED BY <3>3, <3>4, <3>5, <3>6
  <2>2. CASE \E z \in Lists, k \in Word : y = Below(z, k)
    <3>1. PICK z \in Lists, k \in Word : y = Below(z, k)
      BY <2>2
    <3>2. Ref(fs, y) = WordOf(fs, Ref(fs, z), k) /\ Owner(z) = f /\ z \in Place
      BY <1>5, <3>1, RefBelow
    <3>3. Ref(fs, z) # 0 /\ Ref(fs, y) = fs.data[Ref(fs, z)][k]
      BY <1>5, <3>2 DEF WordOf
    <3>4. z = e
      <4>1. CASE \E g \in Ino, j \in AddrSlot : z = <<1, g, j>>
        <5>1. PICK g \in Ino, j \in AddrSlot : z = <<1, g, j>>
          BY <4>1
        <5>2. g = f /\ j \in {NDIRECT, NDIRECT + 1}
          BY <3>2, <5>1, RefTop
        <5>3. QED BY <1>2, <3>3, <5>1, <5>2
      <4>2. CASE \E v \in Lists, j \in Word : z = Below(v, j)
        <5>1. PICK v \in Lists, j \in Word : z = Below(v, j)
          BY <4>2
        <5>2. z = <<v[1] + 1, v, j>> /\ v[1] \in {1, 2}
          BY <5>1 DEF Below, Lists, InInodes, InLists
        <5>3. z \in InLists /\ z[2][3] = NDIRECT + 1
          BY <5>2 DEF Lists, InInodes
        <5>4. v \in InInodes /\ v[3] = NDIRECT + 1
          BY <5>2, <5>3 DEF InLists
        <5>5. v = <<1, v[2], NDIRECT + 1>> /\ v[2] \in Ino
          BY <5>4 DEF InInodes
        <5>6. Owner(v) = f
          BY <3>2, <5>1, RefBelow
        <5>7. v = d
          BY <1>0, <5>5, <5>6, RefTop
        <5>8. Ref(fs, z) = WordOf(fs, Ref(fs, v), j)
          BY <5>1, RefBelow
        <5>9. Ref(fs, z) = 0
          BY <1>2, <5>7, <5>8 DEF WordOf
        <5>10. QED BY <3>3, <5>9
      <4>3. QED BY <3>2, <4>1, <4>2, PlaceCases
    <3>5. Ref(fs, z) = b
      BY <1>1, <3>4
    <3>6. QED BY <1>5, <3>3, <3>5, Zenon DEF Indirect
  <2>3. QED BY <2>1, <2>2, PlaceCases
<1>6. QED BY <1>3, <1>4, <1>5

\* The file's blocks are given back, and its places empty.
Emptied(f, u) ==
  /\ Direct(f) \cup Indirect(f) \subseteq fs.used
  /\ Forest(u) /\ u.addr = fs.addr /\ u.data = fs.data
  /\ u.addrs[f] = NoAddrs
  /\ \A g \in Ino \ {f} : u.addrs[g] = fs.addrs[g]
  /\ \A y \in Place : Ref(u, y) = IF Owner(y) = f THEN 0 ELSE Ref(fs, y)

\* So they are used blocks, and what is left is a forest again.
LEMMA TruncKeeps ==
  ASSUME Forest(fs), NEW f \in Ino, fs.addrs[f][NDIRECT + 1] = 0, NEW u
  PROVE  u = [fs EXCEPT !.used = fs.used \ (Direct(f) \cup Indirect(f)), !.addrs[f] = NoAddrs]
         => Emptied(f, u)
<1>18. SUFFICES ASSUME u = [fs EXCEPT !.used = fs.used \ (Direct(f) \cup Indirect(f)),
                                    !.addrs[f] = NoAddrs]
       PROVE  Emptied(f, u)
  OBVIOUS
<1> DEFINE gone == Direct(f) \cup Indirect(f)
<1>1. \A c : c \in gone <=> c # 0 /\ \E y \in Place : Owner(y) = f /\ Ref(fs, y) = c
  BY GoneExact
<1> HIDE DEF gone
<1>2. u = [fs EXCEPT !.used = fs.used \ gone, !.addrs[f] = NoAddrs]
  BY <1>18 DEF gone
<1>3. fs \in FS /\ NoAddrs \in [AddrSlot -> Num]
  BY BlockMapAssumption DEF Forest, NoAddrs, Num
<1>4. u.addr = fs.addr /\ u.data = fs.data /\ u.used = fs.used \ gone
      /\ u.addrs = [fs.addrs EXCEPT ![f] = NoAddrs]
  BY <1>2, <1>3, Zenon DEF FS
<1>5. u \in FS
  <2>1. u = [fs EXCEPT !.used = fs.used \ gone, !.addrs = [fs.addrs EXCEPT ![f] = NoAddrs]]
    BY <1>2
  <2>2. [fs.addrs EXCEPT ![f] = NoAddrs] \in [Ino -> [AddrSlot -> Num]]
    BY <1>3 DEF FS
  <2>3. fs.used \ gone \in SUBSET DBlock
    BY <1>3 DEF FS
  <2>4. QED BY <1>3, <2>1, <2>2, <2>3, Zenon DEF FS
<1>6. fs.addrs \in [Ino -> [AddrSlot -> Num]]
  BY <1>3 DEF FS
<1>7. u.addrs[f] = NoAddrs /\ \A g \in Ino \ {f} : u.addrs[g] = fs.addrs[g]
  BY <1>4, <1>6
<1>8. \A y \in Place : Ref(fs, y) # 0 => Ref(fs, y) \in DBlock
  BY BlockMapAssumption DEF Forest, Num, DBlock
<1>9. gone \subseteq fs.used
  BY <1>1, <1>8 DEF Forest
<1> DEFINE S == {y \in Place : Ref(u, y) = IF Owner(y) = f THEN 0 ELSE Ref(fs, y)}
<1>10. ASSUME NEW g \in Ino, NEW k \in AddrSlot PROVE <<1, g, k>> \in S
  <2>1. u.addrs[g][k] = IF g = f THEN 0 ELSE fs.addrs[g][k]
    BY <1>7 DEF NoAddrs
  <2>2. <<1, g, k>> \in Place /\ Ref(u, <<1, g, k>>) = u.addrs[g][k]
        /\ Ref(fs, <<1, g, k>>) = fs.addrs[g][k] /\ Owner(<<1, g, k>>) = g
    BY RefTop
  <2>3. QED BY <2>1, <2>2, Zenon
<1>11. ASSUME NEW y \in Lists \cap S, NEW k \in Word PROVE Below(y, k) \in S
  <2>1. Below(y, k) \in Place /\ Owner(Below(y, k)) = Owner(y)
        /\ Ref(u, Below(y, k)) = WordOf(u, Ref(u, y), k)
        /\ Ref(fs, Below(y, k)) = WordOf(fs, Ref(fs, y), k)
    BY RefBelow
  <2>2. Ref(u, y) = IF Owner(y) = f THEN 0 ELSE Ref(fs, y)
    OBVIOUS
  <2>3. QED BY <1>4, <2>1, <2>2, Zenon DEF WordOf
<1>12. \A y \in Place : Ref(u, y) = IF Owner(y) = f THEN 0 ELSE Ref(fs, y)
  <2>1. Place \subseteq S
    <3> HIDE DEF S
    <3>1. /\ \A y \in Lists \cap S, k \in Word : Below(y, k) \in S
          /\ \A g \in Ino, k \in AddrSlot : <<1, g, k>> \in S
      BY <1>10, <1>11
    <3>2. QED BY <3>1, PlaceInduction, Zenon
  <2>2. QED BY <2>1
<1>13. \A y \in Place : Ref(u, y) \in Num
  BY <1>12, BlockMapAssumption DEF Forest, Num
<1>14. ASSUME NEW c \in DBlock PROVE c \in u.used <=> \E y \in Place : Ref(u, y) = c
  <2>1. c # 0
    BY DEF DBlock
  <2>2. c \in fs.used <=> \E y \in Place : Ref(fs, y) = c
    BY DEF Forest
  <2>3. ASSUME NEW y \in Place, NEW z \in Place, Ref(fs, y) = c, Ref(fs, z) = c PROVE y = z
    BY <2>1, <2>3 DEF Forest
  <2>4. QED BY <1>1, <1>4, <1>12, <2>1, <2>2, <2>3
<1>15. ASSUME NEW y \in Place, NEW z \in Place, Ref(u, y) = Ref(u, z), Ref(u, y) # 0
       PROVE  y = z
  <2>1. Ref(fs, y) = Ref(fs, z) /\ Ref(fs, y) # 0
    BY <1>12, <1>15, Zenon
  <2>2. QED BY <2>1 DEF Forest
<1>16. Forest(u)
  BY <1>5, <1>13, <1>14, <1>15, Zenon DEF Forest
<1>17. QED BY <1>4, <1>7, <1>9, <1>12, <1>16, Zenon DEF gone, Emptied

\* The first word of the block in a place; in a data block all are the same.
First(s, x) == WordOf(s, Ref(s, x), 0)

\* An idle file's inode is on disk; a call of writei stays within the largest file.
JobSound(f) ==
  /\ job[f].pc = "idle" => dinode[f].addrs = fs.addrs[f] /\ dinode[f].size = size[f]
  /\ job[f].pc = "write" => job[f].v \in Data /\ job[f].off + job[f].n <= MAXFILE

\* The types.
MapTyped ==
  /\ size \in [Ino -> 0 .. MAXFILE]
  /\ job \in [Ino -> [pc : {"idle", "write"}, off : Nat, n : Nat, v : Int]]
  /\ dinode \in [Ino -> [addrs : [AddrSlot -> Num], size : 0 .. MAXFILE]]
  /\ ops \in 0 .. MaxOps

\* The inductive invariant: a forest, and every block below a file's length
\* has been written.
MapInv ==
  /\ Forest(fs) /\ fs.addr = 0
  /\ MapTyped
  /\ \A f \in Ino : JobSound(f)
  /\ \A f \in Ino : \A bn \in 0 .. Length(f) - 1 : Contents(f, bn) \in Data

\* The files as BlockMap maps them to Files, and a step of Files on them.
FileBlocks == [f \in Ino |-> [bn \in 1 .. Length(f) |-> Contents(f, bn - 1)]]

FilesStep ==
  \E f \in Ino :
    /\ FileBlocks' \in [Ino -> Seq(Data)]
    /\ \A g \in Ino \ {f} : FileBlocks'[g] = FileBlocks[g]
    /\ \/ /\ Len(FileBlocks'[f]) \in {Len(FileBlocks[f]), Len(FileBlocks[f]) + 1}
          /\ Len(FileBlocks'[f]) <= MAXFILE
          /\ \E bn \in DOMAIN FileBlocks'[f] :
               /\ FileBlocks'[f][bn] \in Data
               /\ \A j \in DOMAIN FileBlocks'[f] \ {bn} :
                    j \in DOMAIN FileBlocks[f] /\ FileBlocks'[f][j] = FileBlocks[f][j]
       \/ FileBlocks'[f] = <<>>

\* MAXFILE is a number, and the data of calls are not 0.
LEMMA MapNumbers ==
  /\ MAXFILE \in Nat /\ NINDIRECT \in Nat \ {0} /\ 0 \in Word
  /\ Data \subseteq Int /\ 0 \notin Data
  /\ \A k \in 0 .. MaxOps : k < MaxOps => -(k + 1) \in Data
<1>1. NINDIRECT * NINDIRECT \in Nat
  BY BlockMapAssumption
<1>2. MAXFILE \in Nat
  BY <1>1, BlockMapAssumption DEF MAXFILE
<1>3. NINDIRECT \in Nat \ {0} /\ 0 \in Word
  BY BlockMapAssumption DEF Word
<1>4. Data \subseteq Int /\ 0 \notin Data
  BY BlockMapAssumption DEF Data
<1>5. ASSUME NEW k \in 0 .. MaxOps, k < MaxOps PROVE -(k + 1) \in Data
  <2>1. k + 1 \in 1 .. MaxOps
    BY <1>5, BlockMapAssumption
  <2>2. QED BY <2>1 DEF Data
<1>6. QED BY <1>2, <1>3, <1>4, <1>5

\* A file's length, and what its blocks read as.
LEMMA LengthFacts ==
  ASSUME MapInv, NEW f \in Ino
  PROVE  /\ Length(f) \in 0 .. MAXFILE
         /\ job[f].pc = "idle" => Length(f) = size[f]
         /\ job[f].pc = "write" => Length(f) = IF job[f].off > size[f] THEN job[f].off ELSE size[f]
         /\ \A bn : Contents(f, bn) = First(fs, Leaf(f, bn))
         /\ \A bn \in 0 .. Length(f) - 1 : First(fs, Leaf(f, bn)) # 0 /\ Ref(fs, Leaf(f, bn)) # 0
<1>1. size[f] \in 0 .. MAXFILE /\ job[f].off \in Nat /\ job[f].n \in Nat
      /\ job[f].pc \in {"idle", "write"}
  BY DEF MapInv, MapTyped
<1>2. job[f].pc = "write" => job[f].off + job[f].n <= MAXFILE
  BY DEF MapInv, JobSound
<1>3. Length(f) \in 0 .. MAXFILE
  BY <1>1, <1>2, MapNumbers DEF Length
<1>4. \A bn : Contents(f, bn) = First(fs, Leaf(f, bn))
  BY DEF Contents, First
<1>5. ASSUME NEW bn \in 0 .. Length(f) - 1
      PROVE  First(fs, Leaf(f, bn)) # 0 /\ Ref(fs, Leaf(f, bn)) # 0
  <2>1. First(fs, Leaf(f, bn)) \in Data
    BY <1>4 DEF MapInv
  <2>2. First(fs, Leaf(f, bn)) # 0
    BY <2>1, MapNumbers
  <2>3. QED BY <2>2 DEF First, WordOf
<1>6. QED BY <1>1, <1>3, <1>4, <1>5 DEF Length

\* The files are the same if their lengths and blocks are.
LEMMA FilesKept ==
  ASSUME \A f \in Ino : Length(f) \in Nat /\ Length(f)' = Length(f),
         \A f \in Ino : \A bn \in 0 .. Length(f) - 1 : Contents(f, bn)' = Contents(f, bn)
  PROVE  FileBlocks' = FileBlocks
<1>1. ASSUME NEW f \in Ino
      PROVE  [bn \in 1 .. Length(f) |-> Contents(f, bn - 1)]'
             = [bn \in 1 .. Length(f) |-> Contents(f, bn - 1)]
  <2>1. Length(f) \in Nat /\ Length(f)' = Length(f)
    OBVIOUS
  <2>2. \A bn \in 1 .. Length(f) : bn - 1 \in 0 .. Length(f) - 1
    BY <2>1
  <2>3. \A bn \in 1 .. Length(f) : Contents(f, bn - 1)' = Contents(f, bn - 1)
    BY <2>2
  <2>4. QED BY <2>1, <2>3, Zenon
<1>2. QED BY <1>1, Zenon DEF FileBlocks

\* What bmap found keeps the blocks of all files.
LEMMA FindsContents ==
  ASSUME NEW s, NEW t, NEW x, NEW f, Finds(s, t, x, f), NEW y \in Place \ Lists, First(s, y) # 0
  PROVE  First(t, y) = First(s, y) /\ Ref(t, y) = Ref(s, y) /\ Ref(s, y) # 0
<1>1. Ref(s, y) # 0
  BY DEF First, WordOf
<1>2. Ref(t, y) = Ref(s, y) /\ t.data[Ref(s, y)] = s.data[Ref(s, y)]
  BY <1>1, Zenon DEF Finds
<1>3. QED BY <1>1, <1>2, Zenon DEF First, WordOf

\* No file has blocks at the start.
LEMMA MapInitInv == MapInit => MapInv /\ FileBlocks = [f \in Ino |-> <<>>]
<1> SUFFICES ASSUME MapInit PROVE MapInv /\ FileBlocks = [f \in Ino |-> <<>>]
  OBVIOUS
<1>1. 0 \in Num /\ MAXFILE \in Nat /\ MaxOps \in Nat
  BY MapNumbers, BlockMapAssumption DEF Num
<1>2. fs \in FS
  <2>1. Zeroed \in [Word -> Int]
    BY DEF Zeroed
  <2>2. NoAddrs \in [AddrSlot -> Num]
    BY <1>1 DEF NoAddrs
  <2>3. QED BY <1>1, <2>1, <2>2 DEF MapInit, FS
<1>3. \A x \in Place : Ref(fs, x) = 0
  <2> DEFINE S == {x \in Place : Ref(fs, x) = 0}
  <2>1. ASSUME NEW f \in Ino, NEW k \in AddrSlot PROVE <<1, f, k>> \in S
    <3>1. fs.addrs[f][k] = 0
      BY DEF MapInit, NoAddrs
    <3>2. <<1, f, k>> \in Place /\ Ref(fs, <<1, f, k>>) = fs.addrs[f][k]
      BY RefTop
    <3>3. QED BY <3>1, <3>2, Zenon
  <2>2. ASSUME NEW y \in Lists \cap S, NEW k \in Word PROVE Below(y, k) \in S
    <3>1. Below(y, k) \in Place /\ Ref(fs, Below(y, k)) = WordOf(fs, Ref(fs, y), k)
      BY RefBelow
    <3>2. Ref(fs, y) = 0
      OBVIOUS
    <3>3. QED BY <3>1, <3>2, Zenon DEF WordOf
  <2>3. Place \subseteq S
    <3> HIDE DEF S
    <3>1. /\ \A f \in Ino, k \in AddrSlot : <<1, f, k>> \in S
          /\ \A y \in Lists \cap S, k \in Word : Below(y, k) \in S
      BY <2>1, <2>2
    <3>2. QED BY <3>1, PlaceInduction, Zenon
  <2>4. QED BY <2>3
<1>4. Forest(fs)
  <2>1. \A b \in DBlock : b # 0
    BY DEF DBlock
  <2>2. fs.used = {}
    BY DEF MapInit
  <2>3. QED BY <1>1, <1>2, <1>3, <2>1, <2>2, Zenon DEF Forest
<1>5. \A f \in Ino : Length(f) = 0
  BY DEF MapInit, NoJob, Length
<1>6. MapTyped
  <2>1. NoAddrs \in [AddrSlot -> Num]
    BY <1>1 DEF NoAddrs
  <2>2. NoJob \in [pc : {"idle", "write"}, off : Nat, n : Nat, v : Int]
    BY DEF NoJob
  <2>3. size \in [Ino -> 0 .. MAXFILE] /\ ops \in 0 .. MaxOps
    <3>1. size = [f \in Ino |-> 0] /\ ops = 0
      BY Zenon DEF MapInit
    <3>2. QED BY <1>1, <3>1
  <2>4. job \in [Ino -> [pc : {"idle", "write"}, off : Nat, n : Nat, v : Int]]
    BY <2>2, Zenon DEF MapInit
  <2>5. dinode \in [Ino -> [addrs : [AddrSlot -> Num], size : 0 .. MAXFILE]]
    <3>1. dinode = [f \in Ino |-> [addrs |-> NoAddrs, size |-> 0]]
      BY Zenon DEF MapInit
    <3>2. 0 \in 0 .. MAXFILE
      BY <1>1
    <3>3. QED BY <2>1, <3>1, <3>2
  <2>6. QED BY <2>3, <2>4, <2>5 DEF MapTyped
<1>7. \A f \in Ino : JobSound(f)
  BY DEF JobSound, MapInit, NoJob
<1>8. \A f \in Ino : \A bn \in 0 .. Length(f) - 1 : Contents(f, bn) \in Data
  BY <1>5
<1>9. fs.addr = 0
  BY DEF MapInit
<1>10. FileBlocks = [f \in Ino |-> <<>>]
  <2>1. \A f \in Ino : [bn \in 1 .. Length(f) |-> Contents(f, bn - 1)] = <<>>
    BY <1>5
  <2>2. QED BY <2>1, Zenon DEF FileBlocks
<1>11. QED BY <1>4, <1>6, <1>7, <1>8, <1>9, <1>10 DEF MapInv

\* One block of one file written, the other files as they were: a step of Files.
LEMMA OneBlockWritten ==
  ASSUME NEW f \in Ino, NEW bn \in 0 .. Length(f)' - 1,
         \A g \in Ino : Length(g) \in Nat /\ Length(g)' \in 0 .. MAXFILE,
         \A g \in Ino \ {f} : Length(g)' = Length(g),
         Length(f)' \in {Length(f), Length(f) + 1},
         \A g \in Ino : \A j \in 0 .. Length(g)' - 1 :
           /\ Contents(g, j)' \in Data
           /\ g # f \/ j # bn => j \in 0 .. Length(g) - 1 /\ Contents(g, j)' = Contents(g, j)
  PROVE  FilesStep
<1> DEFINE old(g) == [j \in 1 .. Length(g) |-> Contents(g, j - 1)]
           new(g) == [j \in 1 .. Length(g)' |-> Contents(g, j - 1)']
<1>1. FileBlocks = [g \in Ino |-> old(g)] /\ FileBlocks' = [g \in Ino |-> new(g)]
  BY Zenon DEF FileBlocks
<1>2. \A g \in Ino : FileBlocks[g] = old(g) /\ FileBlocks'[g] = new(g)
  BY <1>1, Zenon
<1>3. ASSUME NEW g \in Ino
      PROVE  /\ new(g) \in Seq(Data) /\ Len(new(g)) = Length(g)' /\ Len(old(g)) = Length(g)
             /\ DOMAIN new(g) = 1 .. Length(g)' /\ DOMAIN old(g) = 1 .. Length(g)
  <2>1. Length(g) \in Nat /\ Length(g)' \in Nat
    BY MapNumbers
  <2>2. \A j \in 1 .. Length(g)' : j - 1 \in 0 .. Length(g)' - 1
    BY <2>1
  <2>3. \A j \in 1 .. Length(g)' : Contents(g, j - 1)' \in Data
    BY <2>2
  <2>4. new(g) \in Seq(Data) /\ Len(new(g)) = Length(g)'
    BY <2>1, <2>3
  <2>5. QED BY <2>1, <2>4
<1>4. FileBlocks' \in [Ino -> Seq(Data)]
  <2>1. \A g \in Ino : new(g) \in Seq(Data)
    BY <1>3
  <2>2. QED BY <1>1, <2>1, Zenon
<1>5. ASSUME NEW g \in Ino, NEW j \in 1 .. Length(g)', g # f \/ j # bn + 1
      PROVE  j \in 1 .. Length(g) /\ new(g)[j] = old(g)[j]
  <2>1. Length(g) \in Nat /\ Length(g)' \in Nat /\ bn \in Int
    BY MapNumbers
  <2>2. j - 1 \in 0 .. Length(g)' - 1 /\ (g # f \/ j - 1 # bn)
    BY <1>5, <2>1
  <2>3. j - 1 \in 0 .. Length(g) - 1 /\ Contents(g, j - 1)' = Contents(g, j - 1)
    BY <2>2
  <2>4. j \in 1 .. Length(g)
    BY <2>1, <2>3
  <2>5. QED BY <2>3, <2>4, Zenon
<1>6. ASSUME NEW g \in Ino \ {f} PROVE FileBlocks'[g] = FileBlocks[g]
  <2>1. Length(g)' = Length(g) /\ \A j \in 1 .. Length(g) : new(g)[j] = old(g)[j]
    BY <1>5
  <2>2. \A j \in 1 .. Length(g) : Contents(g, j - 1)' = Contents(g, j - 1)
    BY <2>1, Zenon
  <2>3. new(g) = old(g)
    BY <2>1, <2>2, Zenon
  <2>4. QED BY <1>2, <2>3, Zenon
<1>7. bn + 1 \in 1 .. Length(f)' /\ Length(f)' <= MAXFILE
  BY MapNumbers
<1>8. new(f)[bn + 1] \in Data
  <2>1. (bn + 1) - 1 = bn
    OBVIOUS
  <2>2. Contents(f, bn)' \in Data
    OBVIOUS
  <2>3. QED BY <1>7, <2>1, <2>2, Zenon
<1>9. \A j \in DOMAIN new(f) \ {bn + 1} : j \in DOMAIN old(f) /\ new(f)[j] = old(f)[j]
  BY <1>3, <1>5
<1> HIDE DEF new, old
<1>10. /\ Len(FileBlocks'[f]) \in {Len(FileBlocks[f]), Len(FileBlocks[f]) + 1}
       /\ Len(FileBlocks'[f]) <= MAXFILE
       /\ \E k \in DOMAIN FileBlocks'[f] :
            /\ FileBlocks'[f][k] \in Data
            /\ \A j \in DOMAIN FileBlocks'[f] \ {k} :
                 j \in DOMAIN FileBlocks[f] /\ FileBlocks'[f][j] = FileBlocks[f][j]
  <2>1. FileBlocks[f] = old(f) /\ FileBlocks'[f] = new(f)
    BY <1>2
  <2>2. Len(FileBlocks'[f]) = Length(f)' /\ Len(FileBlocks[f]) = Length(f)
        /\ bn + 1 \in DOMAIN FileBlocks'[f]
    BY <1>3, <1>7, <2>1
  <2>3. QED BY <1>7, <1>8, <1>9, <2>1, <2>2
<1>11. QED BY <1>4, <1>6, <1>10, Zenon DEF FilesStep

\* The calls that leave the blocks alone: writei's start.
LEMMA WriteStartStep ==
  ASSUME MapInv, NEW f \in Ino, WriteStart(f)
  PROVE  MapInv' /\ FileBlocks' = FileBlocks
<1>1. PICK off \in 0 .. size[f], n \in Lengths :
        /\ off + n <= MAXFILE
        /\ job' = [job EXCEPT ![f] = [pc |-> "write", off |-> off, n |-> n, v |-> -(ops + 1)]]
  BY Zenon DEF WriteStart
<1>2. ops < MaxOps /\ ops' = ops + 1 /\ fs' = fs /\ size' = size /\ dinode' = dinode
      /\ job[f].pc = "idle"
  BY Zenon DEF WriteStart
<1>3. ops \in 0 .. MaxOps /\ size[f] \in 0 .. MAXFILE /\ MaxOps \in Nat /\ MAXFILE \in Nat
  BY MapNumbers, BlockMapAssumption DEF MapInv, MapTyped
<1>4. -(ops + 1) \in Data /\ -(ops + 1) \in Int /\ ops' \in 0 .. MaxOps
  BY <1>2, <1>3, MapNumbers
<1>5. off \in Nat /\ n \in Nat /\ off <= size[f]
  BY <1>3, BlockMapAssumption
<1> DEFINE e == [pc |-> "write", off |-> off, n |-> n, v |-> -(ops + 1)]
<1>6. e \in [pc : {"idle", "write"}, off : Nat, n : Nat, v : Int]
      /\ e.pc = "write" /\ e.off = off /\ e.n = n /\ e.v = -(ops + 1)
  BY <1>4, <1>5
<1>7. job' = [job EXCEPT ![f] = e]
  BY <1>1
<1> HIDE DEF e
<1>8. job \in [Ino -> [pc : {"idle", "write"}, off : Nat, n : Nat, v : Int]]
  BY DEF MapInv, MapTyped
<1>9. job'[f] = e /\ \A g \in Ino \ {f} : job'[g] = job[g]
  BY <1>7, <1>8
<1>10. job' \in [Ino -> [pc : {"idle", "write"}, off : Nat, n : Nat, v : Int]]
  BY <1>6, <1>7, <1>8
<1>11. MapTyped'
  BY <1>2, <1>4, <1>10 DEF MapInv, MapTyped
<1>12. \A g \in Ino : JobSound(g)'
  BY <1>1, <1>2, <1>4, <1>6, <1>9 DEF MapInv, JobSound
<1>13. \A g \in Ino : Length(g)' = Length(g)
  <2>1. Length(f)' = size[f] /\ Length(f) = size[f]
    BY <1>2, <1>3, <1>5, <1>6, <1>9 DEF Length
  <2>2. \A g \in Ino \ {f} : Length(g)' = Length(g)
    BY <1>2, <1>9, Zenon DEF Length
  <2>3. QED BY <2>1, <2>2, Zenon
<1>14. \A g \in Ino : \A bn \in 0 .. Length(g) - 1 : Contents(g, bn)' = Contents(g, bn)
  BY <1>2, Zenon DEF Contents
<1>15. \A g \in Ino : \A bn \in 0 .. Length(g)' - 1 : Contents(g, bn)' \in Data
  <2>1. ASSUME NEW g \in Ino, NEW bn \in 0 .. Length(g) - 1 PROVE Contents(g, bn)' \in Data
    <3>1. Contents(g, bn) \in Data
      BY Zenon DEF MapInv
    <3>2. QED BY <1>14, <3>1, Zenon
  <2>2. QED BY <1>13, <2>1, Zenon
<1>16. Forest(fs') /\ fs'.addr = 0
  BY <1>2, Zenon DEF MapInv
<1>17. MapInv'
  BY <1>11, <1>12, <1>15, <1>16, Zenon DEF MapInv
<1>18. \A g \in Ino : Length(g) \in Nat
  BY LengthFacts, MapNumbers
<1>19. QED BY <1>13, <1>14, <1>17, <1>18, FilesKept, Zenon

\* Its end: the size and the inode on disk become what the blocks already are.
LEMMA WriteEndStep ==
  ASSUME MapInv, NEW f \in Ino, WriteEnd(f)
  PROVE  MapInv' /\ FileBlocks' = FileBlocks
<1> DEFINE sz == IF job[f].off > size[f] THEN job[f].off ELSE size[f]
<1>1. /\ job[f].pc = "write" /\ job[f].n = 0
      /\ size' = [size EXCEPT ![f] = sz]
      /\ dinode' = [dinode EXCEPT ![f] = [addrs |-> fs.addrs[f], size |-> sz]]
      /\ job' = [job EXCEPT ![f] = NoJob]
      /\ fs' = fs /\ ops' = ops
  BY Zenon DEF WriteEnd
<1>2. sz = Length(f) /\ sz \in 0 .. MAXFILE
  <2>1. sz = Length(f)
    BY <1>1, LengthFacts
  <2>2. QED BY <2>1, LengthFacts
<1> HIDE DEF sz
<1>3. /\ job \in [Ino -> [pc : {"idle", "write"}, off : Nat, n : Nat, v : Int]]
      /\ size \in [Ino -> 0 .. MAXFILE]
      /\ dinode \in [Ino -> [addrs : [AddrSlot -> Num], size : 0 .. MAXFILE]]
      /\ ops \in 0 .. MaxOps /\ fs.addrs[f] \in [AddrSlot -> Num]
  BY DEF MapInv, MapTyped, Forest, FS
<1>4. NoJob \in [pc : {"idle", "write"}, off : Nat, n : Nat, v : Int] /\ NoJob.pc = "idle"
  BY DEF NoJob
<1>5. /\ job' \in [Ino -> [pc : {"idle", "write"}, off : Nat, n : Nat, v : Int]]
      /\ job'[f] = NoJob /\ \A g \in Ino \ {f} : job'[g] = job[g]
  BY <1>1, <1>3, <1>4
<1>6. /\ size' \in [Ino -> 0 .. MAXFILE]
      /\ size'[f] = sz /\ \A g \in Ino \ {f} : size'[g] = size[g]
  BY <1>1, <1>2, <1>3
<1>7. /\ dinode' \in [Ino -> [addrs : [AddrSlot -> Num], size : 0 .. MAXFILE]]
      /\ dinode'[f].addrs = fs.addrs[f] /\ dinode'[f].size = sz
      /\ \A g \in Ino \ {f} : dinode'[g] = dinode[g]
  BY <1>1, <1>2, <1>3
<1>8. MapTyped'
  BY <1>1, <1>3, <1>5, <1>6, <1>7 DEF MapTyped
<1>9. \A g \in Ino : JobSound(g)'
  <2>1. JobSound(f)'
    BY <1>1, <1>4, <1>5, <1>6, <1>7 DEF JobSound
  <2>2. ASSUME NEW g \in Ino \ {f} PROVE JobSound(g)'
    BY <1>1, <1>5, <1>6, <1>7, Zenon DEF JobSound, MapInv
  <2>3. QED BY <2>1, <2>2
<1>10. \A g \in Ino : Length(g)' = Length(g)
  <2>1. Length(f)' = Length(f)
    BY <1>2, <1>4, <1>5, <1>6 DEF Length
  <2>2. \A g \in Ino \ {f} : Length(g)' = Length(g)
    BY <1>5, <1>6, Zenon DEF Length
  <2>3. QED BY <2>1, <2>2, Zenon
<1>11. \A g \in Ino : \A bn \in 0 .. Length(g) - 1 : Contents(g, bn)' = Contents(g, bn)
  BY <1>1, Zenon DEF Contents
<1>12. \A g \in Ino : \A bn \in 0 .. Length(g)' - 1 : Contents(g, bn)' \in Data
  <2>1. ASSUME NEW g \in Ino, NEW bn \in 0 .. Length(g) - 1 PROVE Contents(g, bn)' \in Data
    <3>1. Contents(g, bn) \in Data
      BY Zenon DEF MapInv
    <3>2. QED BY <1>11, <3>1, Zenon
  <2>2. QED BY <1>10, <2>1, Zenon
<1>13. Forest(fs') /\ fs'.addr = 0
  BY <1>1, Zenon DEF MapInv
<1>14. MapInv'
  BY <1>8, <1>9, <1>12, <1>13, Zenon DEF MapInv
<1>15. \A g \in Ino : Length(g) \in Nat
  BY LengthFacts, MapNumbers
<1>16. QED BY <1>10, <1>11, <1>14, <1>15, FilesKept, Zenon

\* Nothing but the panic changes, or nothing at all.
LEMMA StillStep ==
  ASSUME MapInv, fs' = fs, size' = size, dinode' = dinode, job' = job, ops' = ops
  PROVE  MapInv' /\ FileBlocks' = FileBlocks
<1>1. \A f, bn : Length(f)' = Length(f) /\ Contents(f, bn)' = Contents(f, bn)
  BY Zenon DEF Length, Contents
<1>2. MapTyped' /\ \A f \in Ino : JobSound(f)'
  BY DEF MapInv, MapTyped, JobSound
<1>3. Forest(fs') /\ fs'.addr = 0
  BY Zenon DEF MapInv
<1>4. \A f \in Ino : \A bn \in 0 .. Length(f)' - 1 : Contents(f, bn)' \in Data
  <2>1. ASSUME NEW f \in Ino, NEW bn \in 0 .. Length(f) - 1 PROVE Contents(f, bn)' \in Data
    <3>1. Contents(f, bn) \in Data
      BY Zenon DEF MapInv
    <3>2. QED BY <1>1, <3>1, Zenon
  <2>2. QED BY <1>1, <2>1, Zenon
<1>5. \A f \in Ino : Length(f) \in Nat
  BY LengthFacts, MapNumbers
<1>6. MapInv'
  BY <1>2, <1>3, <1>4, Zenon DEF MapInv
<1>7. QED BY <1>1, <1>5, <1>6, FilesKept, Zenon

\* readi finds the block it reads; an inode read again is the one in memory.
LEMMA ReadBlockStep ==
  ASSUME MapInv, NEW f \in Ino, ReadBlock(f)
  PROVE  MapInv' /\ FileBlocks' = FileBlocks
<1>1. PICK off \in 0 .. size[f] - 1 : fs' = [bmap(fs, f, off) EXCEPT !.addr = 0]
  BY Zenon DEF ReadBlock
<1>2. job[f].pc = "idle" /\ size' = size /\ dinode' = dinode /\ job' = job /\ ops' = ops
  BY Zenon DEF ReadBlock
<1>3. size[f] \in 0 .. MAXFILE /\ MAXFILE \in Nat
  BY MapNumbers DEF MapInv, MapTyped
<1>4. Length(f) = size[f]
  BY <1>2, LengthFacts
<1>5. off \in 0 .. Length(f) - 1 /\ off \in 0 .. MAXFILE - 1
  BY <1>3, <1>4
<1>6. Ref(fs, Leaf(f, off)) # 0
  BY <1>5, LengthFacts
<1>7. Forest(fs) /\ fs.addr = 0
  BY Zenon DEF MapInv
<1>8. fs' = fs
  BY <1>1, <1>5, <1>6, <1>7, BmapPresent, Zenon
<1>9. QED BY <1>2, <1>8, StillStep, Zenon

\* Reload puts back what there was.
LEMMA ReloadStep ==
  ASSUME MapInv, NEW f \in Ino, Reload(f)
  PROVE  MapInv' /\ FileBlocks' = FileBlocks
<1>1. /\ job[f].pc = "idle" /\ dinode' = dinode /\ job' = job /\ ops' = ops
      /\ fs' = [fs EXCEPT !.addrs[f] = dinode[f].addrs]
      /\ size' = [size EXCEPT ![f] = dinode[f].size]
  BY Zenon DEF Reload
<1>2. dinode[f].addrs = fs.addrs[f] /\ dinode[f].size = size[f]
  BY <1>1 DEF MapInv, JobSound
<1>3. size' = size
  BY <1>1, <1>2 DEF MapInv, MapTyped
<1>4. fs \in FS
  BY DEF MapInv, Forest
<1>5. fs' = fs
  <2>1. [fs.addrs EXCEPT ![f] = dinode[f].addrs] = fs.addrs
    BY <1>2, <1>4 DEF FS
  <2>2. fs' = [fs EXCEPT !.addrs = [fs.addrs EXCEPT ![f] = dinode[f].addrs]]
    BY <1>1
  <2>3. fs' = [fs EXCEPT !.addrs = fs.addrs]
    BY <2>1, <2>2, Zenon
  <2>4. QED BY <1>4, <2>3 DEF FS
<1>6. QED BY <1>1, <1>3, <1>5, StillStep, Zenon

\* A turn of writei's loop writes the block, or leaves the files as they are.
LEMMA WriteBlockStep ==
  ASSUME MapInv, NEW f \in Ino, WriteBlock(f)
  PROVE  MapInv' /\ (FilesStep \/ FileBlocks' = FileBlocks)
<1>16. PICK bn : bn = job[f].off
  OBVIOUS
<1>17. PICK v : v = job[f].v
  OBVIOUS
<1> DEFINE t == bmap(fs, f, bn)
           x == Leaf(f, bn)
           w == [k \in Word |-> v]
<1>0. job[f].pc = "write" /\ job[f].n > 0
  BY Zenon DEF WriteBlock
<1>1. /\ job \in [Ino -> [pc : {"idle", "write"}, off : Nat, n : Nat, v : Int]]
      /\ size \in [Ino -> 0 .. MAXFILE]
      /\ MAXFILE \in Nat /\ 0 \in Word
  BY MapNumbers DEF MapInv, MapTyped
<1>2. bn \in Nat /\ job[f].n \in Nat /\ v \in Int /\ size[f] \in 0 .. MAXFILE
  BY <1>1, <1>16, <1>17
<1>3. v \in Data /\ bn + job[f].n <= MAXFILE
  BY <1>0, <1>16, <1>17 DEF MapInv, JobSound
<1>4. bn \in 0 .. MAXFILE - 1
  BY <1>0, <1>1, <1>2, <1>3
<1>5. Forest(fs) /\ fs.addr = 0
  BY Zenon DEF MapInv
<1>6. Finds(fs, t, x, f) /\ x \in Place \ Lists
  BY <1>4, <1>5, BmapFinds, LeafPlace
<1>7. Forest(t) /\ t.addr = Ref(t, x) /\ \A g \in Ino \ {f} : t.addrs[g] = fs.addrs[g]
  BY <1>6, Zenon DEF Finds
<1>8. \A g \in Ino : Length(g) \in 0 .. MAXFILE
  BY LengthFacts
<1>9. Length(f) = IF bn > size[f] THEN bn ELSE size[f]
  BY <1>0, <1>16, LengthFacts
<1>10. \/ fs' = fs /\ size' = size /\ dinode' = dinode /\ job' = job /\ ops' = ops
       \/ /\ t.addr # 0
          /\ fs' = [t EXCEPT !.data[t.addr] = w, !.addr = 0]
          /\ job' = [job EXCEPT ![f].off = @ + 1, ![f].n = @ - 1]
          /\ size' = size /\ dinode' = dinode /\ ops' = ops
       \/ /\ t.addr # 0
          /\ fs' = [t EXCEPT !.addr = 0]
          /\ job' = [job EXCEPT ![f].n = 0]
          /\ size' = size /\ dinode' = dinode /\ ops' = ops
  BY <1>16, <1>17, Zenon DEF WriteBlock, Halt
<1> HIDE DEF t, x, w
<1>11. ASSUME NEW g \in Ino, NEW j \in 0 .. Length(g) - 1
       PROVE  /\ Leaf(g, j) \in Place \ Lists
              /\ First(t, Leaf(g, j)) = First(fs, Leaf(g, j))
              /\ Ref(t, Leaf(g, j)) # 0
              /\ First(fs, Leaf(g, j)) = Contents(g, j)
  <2>1. j \in 0 .. MAXFILE - 1
    BY <1>1, <1>8
  <2>2. First(fs, Leaf(g, j)) # 0 /\ First(fs, Leaf(g, j)) = Contents(g, j)
    BY LengthFacts
  <2>3. Leaf(g, j) \in Place \ Lists
    BY <2>1, LeafPlace
  <2>4. QED BY <1>6, <2>2, <2>3, FindsContents
<1>12. CASE fs' = fs /\ size' = size /\ dinode' = dinode /\ job' = job /\ ops' = ops
  BY <1>12, StillStep, Zenon
<1>13. CASE /\ t.addr # 0
            /\ fs' = [t EXCEPT !.data[t.addr] = w, !.addr = 0]
            /\ job' = [job EXCEPT ![f].off = @ + 1, ![f].n = @ - 1]
            /\ size' = size /\ dinode' = dinode /\ ops' = ops
  <2>1. w \in [Word -> Int] /\ w[0] = v
    BY <1>1, <1>2 DEF w
  <2>2. fs' = [t EXCEPT !.data[Ref(t, x)] = w, !.addr = 0] /\ Ref(t, x) # 0
    BY <1>7, <1>13, Zenon
  <2>3. /\ Forest(fs') /\ fs'.addr = 0 /\ fs'.addrs = t.addrs
        /\ \A y \in Place : Ref(fs', y) = Ref(t, y)
        /\ fs'.data[Ref(t, x)] = w
        /\ \A y \in Place \ {x} : Ref(t, y) # 0 => fs'.data[Ref(t, y)] = t.data[Ref(t, y)]
    <3>1. PICK u : u = fs'
      OBVIOUS
    <3>2. u = [t EXCEPT !.data[Ref(t, x)] = w, !.addr = 0]
      BY <2>2, <3>1, Zenon
    <3>3. Written(t, u, x, w)
      BY <1>6, <1>7, <2>1, <2>2, <3>2, WriteKeeps, Zenon
    <3>4. QED BY <3>1, <3>3, Zenon DEF Written
  <2>4. First(fs', x) = v
    BY <1>6, <2>1, <2>2, <2>3, Zenon DEF First, WordOf
  <2>5. ASSUME NEW y \in Place \ {x}, Ref(t, y) # 0 PROVE First(fs', y) = First(t, y)
    BY <2>3, <2>5, Zenon DEF First, WordOf
  <2>6. Contents(f, bn)' = v
    <3>1. Contents(f, bn)' = First(fs', Leaf(f, bn))
      BY Zenon DEF Contents, First, Leaf
    <3>2. QED BY <2>4, <3>1, Zenon DEF x
  <2>7. ASSUME NEW g \in Ino, NEW j \in 0 .. Length(g) - 1, g # f \/ j # bn
        PROVE  Contents(g, j)' = Contents(g, j)
    <3>1. Contents(g, j)' = First(fs', Leaf(g, j))
      BY Zenon DEF Contents, First, Leaf
    <3>2. j \in 0 .. MAXFILE - 1
      BY <1>1, <1>8
    <3>3. Leaf(g, j) # x
      BY <1>4, <2>7, <3>2, LeavesApart DEF x
    <3>4. QED BY <1>11, <2>5, <3>1, <3>3, Zenon
  <2>8. /\ job' \in [Ino -> [pc : {"idle", "write"}, off : Nat, n : Nat, v : Int]]
        /\ job'[f].pc = "write" /\ job'[f].off = bn + 1 /\ job'[f].n = job[f].n - 1
        /\ job'[f].v = v
        /\ \A g \in Ino \ {f} : job'[g] = job[g]
    BY <1>0, <1>1, <1>13, <1>16, <1>17
  <2>9. MapTyped'
    BY <1>13, <2>8 DEF MapInv, MapTyped
  <2>10. \A g \in Ino : JobSound(g)'
    <3>1. JobSound(f)'
      BY <1>1, <1>2, <1>3, <1>4, <2>8 DEF JobSound
    <3>2. ASSUME NEW g \in Ino \ {f} PROVE JobSound(g)'
      <4>1. JobSound(g)
        BY DEF MapInv
      <4>2. fs'.addrs[g] = fs.addrs[g] /\ job'[g] = job[g]
        BY <1>7, <2>3, <2>8
      <4>3. QED BY <1>13, <4>1, <4>2, Zenon DEF JobSound
    <3>3. QED BY <3>1, <3>2
  <2>11. \A g \in Ino \ {f} : Length(g)' = Length(g)
    BY <1>13, <2>8, Zenon DEF Length
  <2>12. Length(f)' = IF bn + 1 > size[f] THEN bn + 1 ELSE size[f]
    BY <1>13, <2>8 DEF Length
  <2>13. /\ Length(f)' \in {Length(f), Length(f) + 1} /\ Length(f)' \in 0 .. MAXFILE
         /\ \A j \in 0 .. Length(f)' - 1 : j # bn => j \in 0 .. Length(f) - 1
         /\ bn \in 0 .. Length(f)' - 1
    BY <1>1, <1>2, <1>4, <1>9, <2>12
  <2>14. ASSUME NEW g \in Ino, NEW j \in 0 .. Length(g)' - 1
         PROVE  /\ Contents(g, j)' \in Data
                /\ g # f \/ j # bn => j \in 0 .. Length(g) - 1 /\ Contents(g, j)' = Contents(g, j)
    <3>1. CASE g = f /\ j = bn
      BY <1>3, <2>6, <3>1, Zenon
    <3>2. CASE g # f \/ j # bn
      <4>1. j \in 0 .. Length(g) - 1
        BY <2>11, <2>13, <3>2
      <4>2. Contents(g, j)' = Contents(g, j)
        BY <2>7, <3>2, <4>1, Zenon
      <4>3. Contents(g, j) \in Data
        BY <4>1, Zenon DEF MapInv
      <4>4. QED BY <3>2, <4>1, <4>2, <4>3, Zenon
    <3>3. QED BY <3>1, <3>2
  <2>15. MapInv'
    BY <2>3, <2>9, <2>10, <2>14, Zenon DEF MapInv
  <2>16. FilesStep
    <3>1. \A g \in Ino : Length(g) \in Nat /\ Length(g)' \in 0 .. MAXFILE
      BY <1>1, <1>8, <2>11, <2>13
    <3>2. QED BY <2>11, <2>13, <2>14, <3>1, OneBlockWritten, Zenon
  <2>17. QED BY <2>15, <2>16
<1>14. CASE /\ t.addr # 0
            /\ fs' = [t EXCEPT !.addr = 0]
            /\ job' = [job EXCEPT ![f].n = 0]
            /\ size' = size /\ dinode' = dinode /\ ops' = ops
  <2>1. t \in FS
    BY <1>7 DEF Forest
  <2>2. fs'.addr = 0 /\ fs'.addrs = t.addrs /\ fs'.data = t.data /\ fs'.used = t.used
    BY <1>14, <2>1, Zenon DEF FS
  <2>3. fs' \in FS
    <3>1. 0 \in Num
      BY BlockMapAssumption DEF Num
    <3>2. QED BY <1>14, <2>1, <3>1, Zenon DEF FS
  <2>4. \A y : Ref(fs', y) = Ref(t, y)
    BY <2>2, RefSame
  <2>5. Forest(fs')
    BY <1>7, <2>2, <2>3, <2>4, ForestSame, Zenon
  <2>6. \A g \in Ino : \A j \in 0 .. Length(g) - 1 : Contents(g, j)' = Contents(g, j)
    <3> SUFFICES ASSUME NEW g \in Ino, NEW j \in 0 .. Length(g) - 1
                 PROVE  Contents(g, j)' = Contents(g, j)
      OBVIOUS
    <3>1. Contents(g, j)' = First(fs', Leaf(g, j))
      BY Zenon DEF Contents, First, Leaf
    <3>2. First(fs', Leaf(g, j)) = First(t, Leaf(g, j))
      <4>1. Ref(fs', Leaf(g, j)) = Ref(t, Leaf(g, j))
        BY <2>4, Zenon
      <4>2. QED BY <2>2, <4>1, Zenon DEF First, WordOf
    <3>3. QED BY <1>11, <3>1, <3>2, Zenon
  <2>7. /\ job' \in [Ino -> [pc : {"idle", "write"}, off : Nat, n : Nat, v : Int]]
        /\ job'[f].pc = "write" /\ job'[f].off = bn /\ job'[f].n = 0 /\ job'[f].v = v
        /\ \A g \in Ino \ {f} : job'[g] = job[g]
    BY <1>0, <1>1, <1>14, <1>16, <1>17
  <2>8. MapTyped'
    BY <1>14, <2>7 DEF MapInv, MapTyped
  <2>9. \A g \in Ino : JobSound(g)'
    <3>1. JobSound(f)'
      BY <1>1, <1>2, <1>3, <1>4, <2>7 DEF JobSound
    <3>2. ASSUME NEW g \in Ino \ {f} PROVE JobSound(g)'
      <4>1. JobSound(g)
        BY DEF MapInv
      <4>2. fs'.addrs[g] = fs.addrs[g] /\ job'[g] = job[g]
        BY <1>7, <2>2, <2>7
      <4>3. QED BY <1>14, <4>1, <4>2, Zenon DEF JobSound
    <3>3. QED BY <3>1, <3>2
  <2>10. \A g \in Ino : Length(g)' = Length(g)
    <3>1. Length(f)' = Length(f)
      BY <1>0, <1>14, <1>16, <2>7 DEF Length
    <3>2. \A g \in Ino \ {f} : Length(g)' = Length(g)
      BY <1>14, <2>7, Zenon DEF Length
    <3>3. QED BY <3>1, <3>2, Zenon
  <2>11. \A g \in Ino : \A j \in 0 .. Length(g)' - 1 : Contents(g, j)' \in Data
    <3>1. ASSUME NEW g \in Ino, NEW j \in 0 .. Length(g) - 1 PROVE Contents(g, j)' \in Data
      <4>1. Contents(g, j) \in Data
        BY Zenon DEF MapInv
      <4>2. QED BY <2>6, <4>1, Zenon
    <3>2. QED BY <2>10, <3>1, Zenon
  <2>12. MapInv'
    BY <2>2, <2>5, <2>8, <2>9, <2>11, Zenon DEF MapInv
  <2>13. \A g \in Ino : Length(g) \in Nat
    BY <1>8, <1>1
  <2>14. QED BY <2>6, <2>10, <2>12, <2>13, FilesKept, Zenon
<1>15. QED BY <1>10, <1>12, <1>13, <1>14

\* itrunc empties the file, in the blocks and as a step of Files.
LEMMA ItruncStep ==
  ASSUME MapInv, NEW f \in Ino, itrunc(f)
  PROVE  MapInv' /\ (FilesStep \/ FileBlocks' = FileBlocks)
<1> DEFINE gone == Direct(f) \cup Indirect(f)
<1>1. /\ job[f].pc = "idle" /\ ops < MaxOps
      /\ \/ fs' = fs /\ size' = size /\ dinode' = dinode /\ job' = job /\ ops' = ops
         \/ /\ fs.addrs[f][NDIRECT + 1] = 0
            /\ fs' = [fs EXCEPT !.used = fs.used \ gone, !.addrs[f] = NoAddrs]
            /\ size' = [size EXCEPT ![f] = 0]
            /\ dinode' = [dinode EXCEPT ![f] = [addrs |-> NoAddrs, size |-> 0]]
            /\ ops' = ops + 1 /\ job' = job
  BY Zenon DEF itrunc, Halt
<1>2. CASE fs' = fs /\ size' = size /\ dinode' = dinode /\ job' = job /\ ops' = ops
  BY <1>2, StillStep, Zenon
<1>3. CASE /\ fs.addrs[f][NDIRECT + 1] = 0
           /\ fs' = [fs EXCEPT !.used = fs.used \ gone, !.addrs[f] = NoAddrs]
           /\ size' = [size EXCEPT ![f] = 0]
           /\ dinode' = [dinode EXCEPT ![f] = [addrs |-> NoAddrs, size |-> 0]]
           /\ ops' = ops + 1 /\ job' = job
  <2>1. Forest(fs) /\ fs.addr = 0
    BY Zenon DEF MapInv
  <2>2. Emptied(f, fs')
    <3>1. PICK u : u = fs'
      OBVIOUS
    <3>2. u = [fs EXCEPT !.used = fs.used \ (Direct(f) \cup Indirect(f)), !.addrs[f] = NoAddrs]
      BY <1>3, <3>1, Zenon
    <3>3. Emptied(f, u)
      BY <1>3, <2>1, <3>2, TruncKeeps, Zenon
    <3>4. QED BY <3>1, <3>3, Zenon
  <2>3. /\ Forest(fs') /\ fs'.addr = 0 /\ fs'.data = fs.data /\ fs'.addrs[f] = NoAddrs
        /\ \A g \in Ino \ {f} : fs'.addrs[g] = fs.addrs[g]
        /\ \A y \in Place : Ref(fs', y) = IF Owner(y) = f THEN 0 ELSE Ref(fs, y)
    BY <2>1, <2>2, Zenon DEF Emptied
  <2>4. /\ size \in [Ino -> 0 .. MAXFILE] /\ ops \in 0 .. MaxOps
        /\ job \in [Ino -> [pc : {"idle", "write"}, off : Nat, n : Nat, v : Int]]
        /\ dinode \in [Ino -> [addrs : [AddrSlot -> Num], size : 0 .. MAXFILE]]
        /\ MAXFILE \in Nat /\ MaxOps \in Nat /\ 0 \in 0 .. MAXFILE
        /\ NoAddrs \in [AddrSlot -> Num]
    BY MapNumbers, BlockMapAssumption DEF MapInv, MapTyped, NoAddrs, Num
  <2>5. /\ size' \in [Ino -> 0 .. MAXFILE]
        /\ size'[f] = 0 /\ \A g \in Ino \ {f} : size'[g] = size[g]
    BY <1>3, <2>4
  <2>6. /\ dinode' \in [Ino -> [addrs : [AddrSlot -> Num], size : 0 .. MAXFILE]]
        /\ dinode'[f].addrs = NoAddrs /\ dinode'[f].size = 0
        /\ \A g \in Ino \ {f} : dinode'[g] = dinode[g]
    BY <1>3, <2>4
  <2>7. ops' \in 0 .. MaxOps /\ job' = job
    BY <1>1, <1>3, <2>4
  <2>8. MapTyped'
    BY <2>4, <2>5, <2>6, <2>7, Zenon DEF MapTyped
  <2>9. \A g \in Ino : JobSound(g)'
    <3>1. JobSound(f)'
      BY <1>1, <2>3, <2>5, <2>6, <2>7 DEF JobSound
    <3>2. ASSUME NEW g \in Ino \ {f} PROVE JobSound(g)'
      <4>1. JobSound(g)
        BY DEF MapInv
      <4>2. fs'.addrs[g] = fs.addrs[g] /\ dinode'[g] = dinode[g] /\ size'[g] = size[g]
        BY <2>3, <2>5, <2>6
      <4>3. QED BY <2>7, <4>1, <4>2, Zenon DEF JobSound
    <3>3. QED BY <3>1, <3>2
  <2>10. Length(f)' = 0
    BY <1>1, <2>5, <2>7 DEF Length
  <2>11. \A g \in Ino \ {f} : Length(g)' = Length(g)
    BY <2>5, <2>7, Zenon DEF Length
  <2>12. ASSUME NEW g \in Ino \ {f}, NEW j \in 0 .. Length(g) - 1
         PROVE  Contents(g, j)' = Contents(g, j)
    <3>1. Contents(g, j)' = First(fs', Leaf(g, j)) /\ Contents(g, j) = First(fs, Leaf(g, j))
      BY Zenon DEF Contents, First, Leaf
    <3>2. j \in 0 .. MAXFILE - 1
      BY <2>4, LengthFacts
    <3>3. Leaf(g, j) \in Place /\ Owner(Leaf(g, j)) # f
      BY <3>2, LeafPlace
    <3>4. Ref(fs', Leaf(g, j)) = Ref(fs, Leaf(g, j))
      BY <2>3, <3>3, Zenon
    <3>5. QED BY <2>3, <3>1, <3>4, Zenon DEF First, WordOf
  <2>13. ASSUME NEW g \in Ino, NEW j \in 0 .. Length(g)' - 1 PROVE Contents(g, j)' \in Data
    <3>1. g # f
      BY <2>10
    <3>2. j \in 0 .. Length(g) - 1
      BY <2>11, <3>1
    <3>3. Contents(g, j) \in Data
      BY <3>2, Zenon DEF MapInv
    <3>4. QED BY <2>12, <3>1, <3>2, <3>3
  <2>14. MapInv'
    BY <2>3, <2>8, <2>9, <2>13, Zenon DEF MapInv
  <2>15. \A g \in Ino : Length(g) \in Nat
    BY <2>4, LengthFacts
  <2> DEFINE old(g) == [j \in 1 .. Length(g) |-> Contents(g, j - 1)]
             new(g) == [j \in 1 .. Length(g)' |-> Contents(g, j - 1)']
  <2>16. FileBlocks = [g \in Ino |-> old(g)] /\ FileBlocks' = [g \in Ino |-> new(g)]
    BY Zenon DEF FileBlocks
  <2>17. new(f) = <<>>
    BY <2>10
  <2>18. ASSUME NEW g \in Ino \ {f} PROVE new(g) = old(g)
    <3>1. \A j \in 1 .. Length(g) : j - 1 \in 0 .. Length(g) - 1
      BY <2>15
    <3>2. \A j \in 1 .. Length(g) : Contents(g, j - 1)' = Contents(g, j - 1)
      BY <2>12, <3>1
    <3>3. QED BY <2>11, <3>2, Zenon
  <2>19. ASSUME NEW g \in Ino PROVE new(g) \in Seq(Data)
    <3>1. Length(g)' \in Nat
      BY <2>10, <2>11, <2>15
    <3>2. \A j \in 1 .. Length(g)' : j - 1 \in 0 .. Length(g)' - 1
      BY <3>1
    <3>3. \A j \in 1 .. Length(g)' : Contents(g, j - 1)' \in Data
      BY <2>13, <3>2
    <3>4. QED BY <3>1, <3>3
  <2> HIDE DEF old, new
  <2>20. FilesStep
    <3>1. FileBlocks' \in [Ino -> Seq(Data)] /\ FileBlocks'[f] = <<>>
      BY <2>16, <2>17, <2>19
    <3>2. \A g \in Ino \ {f} : FileBlocks'[g] = FileBlocks[g]
      BY <2>16, <2>18
    <3>3. QED BY <3>1, <3>2, Zenon DEF FilesStep
  <2>21. QED BY <2>14, <2>20
<1>4. QED BY <1>1, <1>2, <1>3

\* Every step keeps the invariant and is a step of Files, or no change of them.
LEMMA MapStep == MapInv /\ [MapNext]_mapvars => MapInv' /\ (FilesStep \/ FileBlocks' = FileBlocks)
<1> SUFFICES ASSUME MapInv, [MapNext]_mapvars
             PROVE  MapInv' /\ (FilesStep \/ FileBlocks' = FileBlocks)
  OBVIOUS
<1>1. ASSUME UNCHANGED mapvars PROVE MapInv' /\ FileBlocks' = FileBlocks
  <2>1. fs' = fs /\ size' = size /\ dinode' = dinode /\ job' = job /\ ops' = ops
    BY <1>1 DEF mapvars
  <2>2. QED BY <2>1, StillStep, Zenon
<1>2. ASSUME NEW f \in Ino,
             WriteStart(f) \/ WriteBlock(f) \/ WriteEnd(f) \/ ReadBlock(f) \/ itrunc(f) \/ Reload(f)
      PROVE  MapInv' /\ (FilesStep \/ FileBlocks' = FileBlocks)
  BY <1>2, WriteStartStep, WriteBlockStep, WriteEndStep, ReadBlockStep, ItruncStep, ReloadStep,
     Zenon
<1>3. QED BY <1>1, <1>2, Zenon DEF MapNext, MapHalted

\* The invariant says what BlocksExact says.
LEMMA ForestExact == MapInv => BlocksExact
<1> SUFFICES ASSUME MapInv PROVE BlocksExact
  OBVIOUS
<1>1. Forest(fs)
  BY Zenon DEF MapInv
<1>2. fs.used \subseteq DBlock
  BY <1>1 DEF Forest, FS
<1>3. \A x \in Place : Ref(fs, x) # 0 => Ref(fs, x) \in DBlock
  BY <1>1, BlockMapAssumption DEF Forest, Num, DBlock
<1>4. \A b \in DBlock : b # 0
  BY DEF DBlock
<1>5. fs.used = {Ref(fs, x) : x \in {y \in Place : Ref(fs, y) # 0}}
  BY <1>1, <1>2, <1>3, <1>4 DEF Forest
<1>6. \A x, y \in {z \in Place : Ref(fs, z) # 0} : Ref(fs, x) = Ref(fs, y) => x = y
  BY <1>1, Zenon DEF Forest
<1>7. QED BY <1>5, <1>6, Zenon DEF BlocksExact

\* The bitmap of balloc and bfree is exact at all times, for any numbers of files,
\* blocks and words: every used block is in exactly one place of one file.
THEOREM BlocksAccounted == MapSpec => []BlocksExact
<1>1. MapInv /\ [MapNext]_mapvars => MapInv'
  BY MapStep
<1>2. MapInit => MapInv
  BY MapInitInv
<1>3. QED BY <1>1, <1>2, ForestExact, PTL DEF MapSpec

\* writei, readi and itrunc over the three levels of bmap implement files that are
\* sequences of blocks.
THEOREM BlockMapIsFiles == MapSpec => ImplementsFiles
<1>1. MapInv /\ [MapNext]_mapvars => MapInv'
  BY MapStep
<1>2. MapInit => MapInv /\ F!Init
  BY MapInitInv, Zenon DEF F!Init, FileBlocks
<1>3. FilesStep => F!Next
  BY Zenon DEF FilesStep, F!Next, F!Write, F!Truncate, FileBlocks
<1>4. MapInv /\ [MapNext]_mapvars => [F!Next]_FileBlocks
  BY <1>3, MapStep, Zenon
<1>5. QED
  BY <1>1, <1>2, <1>4, PTL DEF MapSpec, ImplementsFiles, F!Spec, FileBlocks
=============================================================================
