----------------------------- MODULE DiskProofs -----------------------------
(***************************************************************************)
(* What is true of every disk a call of FileSystem may leave, also one     *)
(* that the power failed in the middle of: DiskOk, which is a conjunction  *)
(* over the inodes.  Each lemma about a disk is about one log_write(), the *)
(* unit that a power failure does not divide: a link count that is         *)
(* changed, an inode that is blanked, a name that is taken out or put in.  *)
(*                                                                         *)
(* An inode needs a link for every name it has in some directory and for   *)
(* every directory in it, whose ".." counts.  Only this sum is inductive:  *)
(* unlink of a directory takes a link from its parent, which must not be   *)
(* one that a name of the parent needs.                                    *)
(*                                                                         *)
(* The first part is about least numbers, and induction over sets of       *)
(* numbers.  The induction theorems of the library range over predicates,  *)
(* which these provers cannot instantiate; a set they can.                 *)
(***************************************************************************)
EXTENDS FileSystem, FiniteSetTheorems, WellFoundedInduction, TLAPS

\* < is a well-founded relation on the natural numbers.
LEMMA NaturalsWellFounded ==
  \E R : /\ IsWellFoundedOn(R, Nat)
         /\ \A k \in Nat, n \in Nat : k < n => <<k, n>> \in R
<1>1. IsWellFoundedOn(OpToRel(<, Nat), Nat)
  BY NatLessThanWellFounded
<1>2. \A k \in Nat, n \in Nat : k < n => <<k, n>> \in OpToRel(<, Nat)
  BY DEF OpToRel
<1> QED BY <1>1, <1>2, Zenon

\* A set of natural numbers that is not empty has a least element.
LEMMA LeastNatural ==
  ASSUME NEW T, T \subseteq Nat, T # {}
  PROVE  \E n \in T : \A k \in T : n <= k
<1>1. PICK R : /\ IsWellFoundedOn(R, Nat)
               /\ \A k \in Nat, n \in Nat : k < n => <<k, n>> \in R
  BY NaturalsWellFounded
<1>2. PICK S : S = Nat
  OBVIOUS
<1>3. IsWellFoundedOn(R, S) /\ T \subseteq S
  BY <1>1, <1>2, Zenon
<1>4. PICK n \in T : \A k \in T : ~(<<k, n>> \in R)
  <2> HIDE <1>1
  <2> QED BY <1>3, WFMin, Zenon
<1>5. ASSUME NEW k \in T PROVE n <= k
  <2>1. k \in Nat /\ n \in Nat
    OBVIOUS
  <2>2. ~(k < n)
    BY <1>1, <1>4, <2>1, Zenon
  <2> QED BY <2>1, <2>2
<1> QED BY <1>5

\* A set with 0 and with the successor of every number in it has every number.
LEMMA NaturalInduction ==
  ASSUME NEW S, 0 \in S, \A n \in Nat : n \in S => n + 1 \in S
  PROVE  Nat \subseteq S
<1> SUFFICES ASSUME ~(Nat \subseteq S) PROVE FALSE
  OBVIOUS
<1> DEFINE T == {n \in Nat : n \notin S}
<1>1. T \subseteq Nat /\ T # {}
  OBVIOUS
<1> HIDE DEF T
<1>2. PICK n \in T : \A k \in T : n <= k
  BY <1>1, LeastNatural
<1>3. n \in Nat /\ n \notin S
  BY <1>2 DEF T
<1>4. n # 0 /\ n - 1 \in Nat
  BY <1>3
<1>5. n - 1 \notin T
  BY <1>1, <1>2, <1>4
<1>6. n - 1 \in S
  BY <1>4, <1>5 DEF T
<1> QED BY <1>3, <1>4, <1>6
-----------------------------------------------------------------------------
(* Disks. *)

FileTypes == {"free", "file", "dir"}

DiskInode == [type : FileTypes, nlink : Int, ents : [DirNames -> 0 .. NINODES],
              head : SUBSET DirNames, emptied : BOOLEAN]
DiskType == [Inums -> DiskInode]

\* The names that lead to an inode; the names in it that lead to directories.
Pointing(d, i) == {e \in Inums \X Names : d[e[1]].ents[e[2]] = i}
Subdirs(d, i) == {n \in Names : d[i].ents[n] # 0 /\ d[d[i].ents[n]].type = "dir"}
Needed(d, i) == Cardinality(Pointing(d, i)) + Cardinality(Subdirs(d, i))

\* The directory i has a name in up, and says so.
DotsAre(d, i, up) == d[i].ents["."] = i /\ d[i].ents[".."] = up

\* No directory has itself under a name other than "." and ".."; no inode has
\* less links than it needs, nor a link without a type; a directory with a name
\* is complete, if no program has truncated it.
InodeOk(d, i) ==
  /\ \A n \in Names : d[i].ents[n] # i
  /\ Needed(d, i) <= d[i].nlink
  /\ d[i].type = "free" => d[i].nlink = 0
  /\ d[i].type = "dir" /\ d[i].emptied = FALSE =>
       \A e \in Pointing(d, i) : DotsAre(d, i, e[1])
DiskOk(d) == \A i \in Inums : InodeOk(d, i)

\* An inode has a link that no name needs.
Spare(d, i) == Needed(d, i) + 1 <= d[i].nlink

\* A disk with the inode i replaced.
WithInode(d, i, e) == [d EXCEPT ![i] = e]

\* Only the inode i is another one; or it has also been freed, if anything.
OnlyInode(d, e, i) == \A j \in Inums \ {i} : e[j] = d[j]
FreesAtMost(d, e, i) ==
  /\ OnlyInode(d, e, i)
  /\ e[i] = d[i] \/ (d[i].nlink = 0 /\ e[i].nlink = 0 /\ e[i].ents = NoEntries)

\* The entry called name of the directory i has become t, and no other entry nor
\* type is different.
OneEntry(d, e, i, name, t) ==
  /\ \A j \in Inums : e[j].type = d[j].type
  /\ \A j \in Inums, n \in DirNames :
       <<j, n>> # <<i, name>> => e[j].ents[n] = d[j].ents[n]
  /\ e[i].ents[name] = t
  /\ \A j \in Inums \ {i} : Subdirs(e, j) = Subdirs(d, j)

\* The entry called name of the directory i may become t: it is cleared, or it is
\* made where there was none.
MayName(d, i, name, t) ==
  \/ name \in Names /\ t = 0 /\ d[i].ents[name] \in Inums
  \/ name \in {".", ".."} /\ d[i].ents[name] = 0 /\ d[i].type = "dir"
  \/ /\ name \in Names /\ d[i].ents[name] = 0
     /\ t \in Inums \ {i} /\ d[t].type # "free" /\ Spare(d, t)
     /\ d[t].type = "dir" => Spare(d, i) /\ DotsAre(d, t, i)

\* What the constants are.
LEMMA Constants ==
  /\ NINODE \in Nat \ {0} /\ NINODES \in Nat /\ NINODES >= 3
  /\ Inums \subseteq 0 .. NINODES /\ Inums \subseteq Nat /\ 0 \notin Inums
  /\ Islots \subseteq Nat /\ Inums = 0 .. NINODES \ {0}
  /\ NULL \notin Islots
  /\ ROOTINO \in Inums
BY FileSystemAssumption DEF Inums, Islots, NULL, ROOTINO

\* A directory without entries.
LEMMA NoEntriesType ==
  NoEntries \in [DirNames -> 0 .. NINODES] /\ \A n \in Names : NoEntries[n] = 0
BY Constants DEF NoEntries, DirNames

\* The names of an inode are finitely many, and so are its directories.
LEMMA Counted ==
  ASSUME NEW d, NEW i
  PROVE  /\ IsFiniteSet(Pointing(d, i)) /\ Cardinality(Pointing(d, i)) \in Nat
         /\ IsFiniteSet(Subdirs(d, i)) /\ Cardinality(Subdirs(d, i)) \in Nat
         /\ Needed(d, i) \in Nat
<1>1. IsFiniteSet(Inums \X Names)
  <2>1. IsFiniteSet(Inums)
    BY Constants, FS_Interval DEF Inums
  <2>2. IsFiniteSet(Names)
    BY FileSystemAssumption
  <2> QED BY <2>1, <2>2, FS_Product
<1>2. Pointing(d, i) \in SUBSET (Inums \X Names) /\ Subdirs(d, i) \in SUBSET Names
  BY DEF Pointing, Subdirs
<1>3. IsFiniteSet(Pointing(d, i))
  BY <1>1, <1>2, FS_Subset
<1>4. IsFiniteSet(Subdirs(d, i))
  BY <1>2, FS_Subset, FileSystemAssumption
<1>5. Cardinality(Pointing(d, i)) \in Nat /\ Cardinality(Subdirs(d, i)) \in Nat
  BY <1>3, <1>4, FS_CardinalityType
<1> QED BY <1>3, <1>4, <1>5 DEF Needed

\* With fewer names an inode needs fewer links.
LEMMA Fewer ==
  ASSUME NEW d, NEW e, NEW i,
         Pointing(e, i) \subseteq Pointing(d, i), Subdirs(e, i) \subseteq Subdirs(d, i)
  PROVE  Needed(e, i) <= Needed(d, i)
<1>1. /\ IsFiniteSet(Pointing(d, i)) /\ IsFiniteSet(Subdirs(d, i))
      /\ Cardinality(Pointing(d, i)) \in Nat /\ Cardinality(Subdirs(d, i)) \in Nat
      /\ Cardinality(Pointing(e, i)) \in Nat /\ Cardinality(Subdirs(e, i)) \in Nat
  BY Counted
<1>2. /\ Cardinality(Pointing(e, i)) <= Cardinality(Pointing(d, i))
      /\ Cardinality(Subdirs(e, i)) <= Cardinality(Subdirs(d, i))
  BY <1>1, FS_Subset
<1> QED BY <1>1, <1>2 DEF Needed

\* An inode without links has no name, and no directory has a name in it.
LEMMA Nameless ==
  ASSUME NEW d \in DiskType, DiskOk(d), NEW i \in Inums, d[i].nlink = 0
  PROVE  Pointing(d, i) = {} /\ Subdirs(d, i) = {} /\ Needed(d, i) = 0
<1>1. /\ IsFiniteSet(Pointing(d, i)) /\ IsFiniteSet(Subdirs(d, i))
      /\ Cardinality(Pointing(d, i)) \in Nat /\ Cardinality(Subdirs(d, i)) \in Nat
  BY Counted
<1>2. Cardinality(Pointing(d, i)) + Cardinality(Subdirs(d, i)) <= 0
  BY DEF DiskOk, InodeOk, Needed
<1>3. Cardinality(Pointing(d, i)) = 0 /\ Cardinality(Subdirs(d, i)) = 0
  BY <1>1, <1>2
<1> QED BY <1>1, <1>3, FS_EmptySet DEF Needed

\* A link count is changed, to what is needed at least.
LEMMA LinkChanged ==
  ASSUME NEW d \in DiskType, DiskOk(d), NEW e, NEW i \in Inums,
         OnlyInode(d, e, i), e[i].type = d[i].type, e[i].ents = d[i].ents,
         e[i].emptied = d[i].emptied,
         e[i].nlink = d[i].nlink \/ (Needed(d, i) <= e[i].nlink /\ d[i].type # "free")
  PROVE  DiskOk(e) /\ \A j \in Inums : Needed(e, j) = Needed(d, j)
<1>1. \A j \in Inums : /\ e[j].type = d[j].type /\ e[j].ents = d[j].ents
                       /\ e[j].emptied = d[j].emptied
  BY DEF OnlyInode
<1>2. ASSUME NEW j \in Inums
      PROVE  Pointing(e, j) = Pointing(d, j) /\ Needed(e, j) = Needed(d, j)
  <2>1. Pointing(e, j) = Pointing(d, j)
    BY <1>1 DEF Pointing
  <2>2. \A n \in Names : e[j].ents[n] # 0 /\ e[e[j].ents[n]].type = "dir"
                          <=> d[j].ents[n] # 0 /\ d[d[j].ents[n]].type = "dir"
    <3> SUFFICES ASSUME NEW n \in Names, d[j].ents[n] # 0
                 PROVE  e[d[j].ents[n]].type = d[d[j].ents[n]].type
      BY <1>1
    <3>1. d[j].ents[n] \in 0 .. NINODES
      BY DEF DiskType, DiskInode, DirNames
    <3> QED BY <1>1, <3>1, Constants
  <2> QED BY <2>1, <2>2 DEF Subdirs, Needed
<1>3. ASSUME NEW j \in Inums PROVE InodeOk(e, j)
  <2>1. InodeOk(d, j)
    BY DEF DiskOk
  <2>2. j # i => e[j].nlink = d[j].nlink
    BY DEF OnlyInode
  <2>3. Needed(e, j) <= e[j].nlink /\ (e[j].type = "free" => e[j].nlink = 0)
    BY <1>1, <1>2, <2>1, <2>2 DEF InodeOk
  <2> QED BY <1>1, <1>2, <2>1, <2>3 DEF InodeOk, DotsAre
<1> QED BY <1>2, <1>3 DEF DiskOk

\* An inode without links loses its names, and perhaps its type.
LEMMA Blanked ==
  ASSUME NEW d \in DiskType, DiskOk(d), NEW e, NEW i \in Inums, d[i].nlink = 0,
         OnlyInode(d, e, i), e[i].nlink = 0, e[i].ents = NoEntries
  PROVE  /\ DiskOk(e)
         /\ \A j \in Inums : Needed(e, j) <= Needed(d, j)
<1>1. Pointing(d, i) = {} /\ Subdirs(d, i) = {} /\ Needed(d, i) = 0
  BY Nameless
<1>2. \A j \in Inums \ {i} : e[j] = d[j]
  BY DEF OnlyInode
<1>3. \A n \in Names : e[i].ents[n] = 0
  BY NoEntriesType
<1>4. ASSUME NEW j \in Inums
      PROVE  Pointing(e, j) \subseteq Pointing(d, j) /\ Subdirs(e, j) \subseteq Subdirs(d, j)
  <2>1. ASSUME NEW x \in Inums, NEW n \in Names, e[x].ents[n] = j
        PROVE  d[x].ents[n] = j
    BY <1>2, <1>3, <2>1, Constants
  <2>2. Pointing(e, j) \subseteq Pointing(d, j)
    BY <2>1 DEF Pointing
  <2>3. ASSUME NEW n \in Names, e[j].ents[n] # 0, e[e[j].ents[n]].type = "dir"
        PROVE  d[j].ents[n] # 0 /\ d[d[j].ents[n]].type = "dir"
    <3>1. j # i /\ e[j] = d[j]
      BY <1>2, <1>3, <2>3
    <3>2. d[j].ents[n] \in 0 .. NINODES
      BY DEF DiskType, DiskInode, DirNames
    <3>3. d[j].ents[n] # i
      <4>1. <<j, n>> \notin Pointing(d, i)
        BY <1>1
      <4> QED BY <4>1 DEF Pointing
    <3>4. d[j].ents[n] \in Inums \ {i}
      BY <2>3, <3>1, <3>2, <3>3, Constants
    <3> QED BY <1>2, <2>3, <3>1, <3>4
  <2>4. Subdirs(e, j) \subseteq Subdirs(d, j)
    BY <2>3 DEF Subdirs
  <2> QED BY <2>2, <2>4
<1>5. ASSUME NEW j \in Inums PROVE Needed(e, j) <= Needed(d, j)
  BY <1>4, Fewer
<1>6. ASSUME NEW j \in Inums PROVE InodeOk(e, j)
  <2>1. InodeOk(d, j) /\ Needed(e, j) <= Needed(d, j) /\ Pointing(e, j) \subseteq Pointing(d, j)
    BY <1>4, <1>5 DEF DiskOk
  <2>2. CASE j = i
    <3>1. \A n \in Names : e[j].ents[n] # j
      BY <1>3, <2>2, Constants
    <3>2. Pointing(e, j) = {} /\ Needed(e, j) <= e[j].nlink
      BY <1>1, <2>1, <2>2
    <3> QED BY <2>2, <3>1, <3>2 DEF InodeOk
  <2>3. CASE j # i
    <3>1. e[j] = d[j]
      BY <1>2, <2>3
    <3>2. Needed(e, j) <= d[j].nlink
      <4>1. Needed(e, j) \in Nat /\ Needed(d, j) \in Nat /\ d[j].nlink \in Int
        BY Counted DEF DiskType, DiskInode
      <4> QED BY <2>1, <4>1 DEF InodeOk
    <3> QED BY <2>1, <3>1, <3>2 DEF InodeOk, DotsAre
  <2> QED BY <2>2, <2>3
<1> QED BY <1>5, <1>6 DEF DiskOk

\* What is freed takes no link from the others, and leaves none without a name
\* short of one.
LEMMA FreeingLeaves ==
  ASSUME NEW d \in DiskType, DiskOk(d), NEW e, NEW i \in Inums, FreesAtMost(d, e, i)
  PROVE  /\ DiskOk(e)
         /\ \A j \in Inums : Needed(e, j) <= Needed(d, j)
<1>1. CASE e[i] = d[i]
  <2>1. /\ OnlyInode(d, e, i) /\ e[i].type = d[i].type /\ e[i].ents = d[i].ents
        /\ e[i].nlink = d[i].nlink
    BY <1>1 DEF FreesAtMost
  <2> e[i].emptied = d[i].emptied
    BY <1>1
  <2>2. DiskOk(e) /\ \A j \in Inums : Needed(e, j) = Needed(d, j)
    BY <2>1, LinkChanged
  <2>3. \A j \in Inums : Needed(d, j) \in Nat
    BY Counted
  <2> QED BY <2>2, <2>3
<1>2. CASE e[i] # d[i]
  <2>1. /\ OnlyInode(d, e, i) /\ d[i].nlink = 0 /\ e[i].nlink = 0
        /\ e[i].ents = NoEntries
    BY <1>2 DEF FreesAtMost
  <2> QED BY <2>1, Blanked
<1> QED BY <1>1, <1>2

\* What one name more or less leaves as it was.
LEMMA OtherNames ==
  ASSUME NEW d \in DiskType, NEW e, NEW i \in Inums, OnlyInode(d, e, i),
         e[i].type = d[i].type, NEW name \in DirNames, NEW t,
         e[i].ents = [d[i].ents EXCEPT ![name] = t]
  PROVE  OneEntry(d, e, i, name, t)
<1>1. \A j \in Inums \ {i} : e[j] = d[j]
  BY DEF OnlyInode
<1>2. \A j \in Inums : e[j].type = d[j].type
  BY <1>1
<1>3. d[i].ents \in [DirNames -> 0 .. NINODES]
  BY DEF DiskType, DiskInode
<1>4. e[i].ents[name] = t /\ \A n \in DirNames \ {name} : e[i].ents[n] = d[i].ents[n]
  BY <1>3
<1>5. \A j \in Inums, n \in DirNames :
        <<j, n>> # <<i, name>> => e[j].ents[n] = d[j].ents[n]
  BY <1>1, <1>4
<1>6. ASSUME NEW j \in Inums \ {i} PROVE Subdirs(e, j) = Subdirs(d, j)
  <2>1. e[j] = d[j]
    BY <1>1
  <2>2. ASSUME NEW n \in Names, d[j].ents[n] # 0
        PROVE  e[d[j].ents[n]].type = d[d[j].ents[n]].type
    <3>1. d[j].ents[n] \in 0 .. NINODES
      BY DEF DiskType, DiskInode, DirNames
    <3>2. d[j].ents[n] \in Inums
      BY <2>2, <3>1, Constants
    <3> QED BY <1>2, <3>2
  <2> QED BY <2>1, <2>2 DEF Subdirs
<1> QED BY <1>2, <1>4, <1>5, <1>6 DEF OneEntry

\* A name is taken out of a directory: what it led to, and the directory when
\* that was one, need a link less than they have.
LEMMA NameCleared ==
  ASSUME NEW d \in DiskType, DiskOk(d), NEW e, NEW i \in Inums, NEW name \in Names,
         OnlyInode(d, e, i), e[i].type = d[i].type, e[i].nlink = d[i].nlink,
         e[i].emptied = d[i].emptied,
         e[i].ents = [d[i].ents EXCEPT ![name] = 0],
         NEW t \in Inums, d[i].ents[name] = t
  PROVE  /\ DiskOk(e) /\ t # i
         /\ Spare(e, t)
         /\ e[t].type = "dir" => Spare(e, i)
<1>1. /\ \A j \in Inums : e[j].type = d[j].type
      /\ \A j \in Inums, n \in DirNames :
           <<j, n>> # <<i, name>> => e[j].ents[n] = d[j].ents[n]
      /\ e[i].ents[name] = 0
      /\ \A j \in Inums \ {i} : Subdirs(e, j) = Subdirs(d, j)
  <2>1. name \in DirNames
    BY DEF DirNames
  <2>2. OneEntry(d, e, i, name, 0)
    BY <2>1, OtherNames
  <2> QED BY <2>2 DEF OneEntry
<1>2. \A j \in Inums : /\ e[j].nlink = d[j].nlink /\ e[j].nlink \in Int
                       /\ e[j].emptied = d[j].emptied
  BY DEF OnlyInode, DiskType, DiskInode
<1>3. t # i
  BY DEF DiskOk, InodeOk
<1>4. ASSUME NEW j \in Inums
      PROVE  Pointing(e, j) = Pointing(d, j) \ {<<i, name>>}
  <2>1. \A x \in Inums, n \in Names :
          e[x].ents[n] = j <=> d[x].ents[n] = j /\ <<x, n>> # <<i, name>>
    BY <1>1, Constants DEF DirNames
  <2> QED BY <2>1 DEF Pointing
<1>5. <<i, name>> \in Pointing(d, t)
  BY DEF Pointing
<1>6. ASSUME NEW n \in Names
      PROVE  n \in Subdirs(e, i) <=> n # name /\ n \in Subdirs(d, i)
  <2>1. d[i].ents[n] \in 0 .. NINODES
    BY DEF DiskType, DiskInode, DirNames
  <2>2. n # name => e[i].ents[n] = d[i].ents[n]
    BY <1>1 DEF DirNames
  <2>3. d[i].ents[n] # 0 => e[d[i].ents[n]].type = d[d[i].ents[n]].type
    BY <1>1, <2>1, Constants
  <2> QED BY <1>1, <2>2, <2>3 DEF Subdirs
<1>7. Subdirs(e, i) = Subdirs(d, i) \ {name}
  BY <1>6 DEF Subdirs
<1>8. e[t].type = "dir" => name \in Subdirs(d, i)
  BY <1>1, Constants DEF Subdirs
<1>9. \A j \in Inums : /\ Pointing(e, j) \subseteq Pointing(d, j)
                       /\ Subdirs(e, j) \subseteq Subdirs(d, j)
  BY <1>1, <1>4, <1>7
<1>10. \A j \in Inums : Needed(e, j) <= Needed(d, j)
  BY <1>9, Fewer
<1>11. Needed(e, t) + 1 = Needed(d, t)
  <2>1. IsFiniteSet(Pointing(d, t)) /\ Cardinality(Pointing(d, t)) \in Nat
        /\ Cardinality(Subdirs(d, t)) \in Nat
    BY Counted
  <2>2. Cardinality(Pointing(e, t)) = Cardinality(Pointing(d, t)) - 1
    BY <1>4, <1>5, <2>1, FS_RemoveElement
  <2>3. Subdirs(e, t) = Subdirs(d, t)
    BY <1>1, <1>3
  <2> QED BY <2>1, <2>2, <2>3 DEF Needed
<1>12. ASSUME e[t].type = "dir" PROVE Needed(e, i) + 1 <= Needed(d, i)
  <2>1. IsFiniteSet(Pointing(d, i)) /\ IsFiniteSet(Subdirs(d, i))
        /\ Cardinality(Pointing(d, i)) \in Nat /\ Cardinality(Subdirs(d, i)) \in Nat
        /\ Cardinality(Pointing(e, i)) \in Nat
    BY Counted
  <2>2. Cardinality(Subdirs(e, i)) = Cardinality(Subdirs(d, i)) - 1
    BY <1>7, <1>8, <1>12, <2>1, FS_RemoveElement
  <2>3. Cardinality(Pointing(e, i)) <= Cardinality(Pointing(d, i))
    BY <1>9, <2>1, FS_Subset
  <2> QED BY <2>1, <2>2, <2>3 DEF Needed
<1>13. \A j \in Inums : InodeOk(d, j) /\ Needed(e, j) \in Nat /\ Needed(d, j) \in Nat
  BY Counted DEF DiskOk
<1>14. ASSUME NEW j \in Inums PROVE InodeOk(e, j)
  <2>1. \A n \in Names : e[j].ents[n] # j
    <3>1. \A n \in Names : d[j].ents[n] # j
      BY <1>13 DEF InodeOk
    <3> QED BY <1>1, <3>1, Constants DEF DirNames
  <2>2. Needed(e, j) <= e[j].nlink /\ (e[j].type = "free" => e[j].nlink = 0)
    BY <1>1, <1>2, <1>10, <1>13 DEF InodeOk
  <2>3. ASSUME e[j].type = "dir", e[j].emptied = FALSE, NEW x \in Pointing(e, j)
        PROVE  DotsAre(e, j, x[1])
    <3>1. DotsAre(d, j, x[1])
      BY <1>1, <1>2, <1>9, <1>13, <2>3 DEF InodeOk
    <3>2. \A n \in {".", ".."} : e[j].ents[n] = d[j].ents[n]
      BY <1>1, FileSystemAssumption DEF DirNames
    <3> QED BY <3>1, <3>2 DEF DotsAre
  <2> QED BY <2>1, <2>2, <2>3 DEF InodeOk
<1>15. Needed(e, t) + 1 <= e[t].nlink
  BY <1>2, <1>11, <1>13 DEF InodeOk
<1>16. e[t].type = "dir" => Needed(e, i) + 1 <= e[i].nlink
  BY <1>2, <1>12, <1>13 DEF InodeOk
<1> QED BY <1>3, <1>14, <1>15, <1>16 DEF DiskOk, Spare

\* A name is put into a directory, for an inode that has a link to spare, as has
\* the directory when that is one.
LEMMA NameMade ==
  ASSUME NEW d \in DiskType, DiskOk(d), NEW e, NEW i \in Inums, NEW name \in Names,
         NEW t \in Inums, t # i, d[i].ents[name] = 0,
         OnlyInode(d, e, i), e[i].type = d[i].type, e[i].nlink = d[i].nlink,
         e[i].emptied = d[i].emptied,
         e[i].ents = [d[i].ents EXCEPT ![name] = t],
         d[t].type # "free", Spare(d, t),
         d[t].type = "dir" => Spare(d, i) /\ DotsAre(d, t, i)
  PROVE  DiskOk(e)
<1>1. /\ \A j \in Inums : e[j].type = d[j].type
      /\ \A j \in Inums, n \in DirNames :
           <<j, n>> # <<i, name>> => e[j].ents[n] = d[j].ents[n]
      /\ e[i].ents[name] = t
      /\ \A j \in Inums \ {i} : Subdirs(e, j) = Subdirs(d, j)
  <2>1. name \in DirNames
    BY DEF DirNames
  <2>2. OneEntry(d, e, i, name, t)
    BY <2>1, OtherNames
  <2> QED BY <2>2 DEF OneEntry
<1>2. \A j \in Inums : /\ e[j].nlink = d[j].nlink /\ e[j].nlink \in Int
                       /\ e[j].emptied = d[j].emptied
  BY DEF OnlyInode, DiskType, DiskInode
<1>3. ASSUME NEW j \in Inums
      PROVE  Pointing(e, j) = IF j = t THEN Pointing(d, t) \cup {<<i, name>>}
                              ELSE Pointing(d, j)
  <2>1. \A x \in Inums, n \in Names :
          e[x].ents[n] = j <=> d[x].ents[n] = j \/ (j = t /\ <<x, n>> = <<i, name>>)
    BY <1>1, Constants DEF DirNames
  <2>2. j # t => Pointing(e, j) = Pointing(d, j)
    BY <2>1 DEF Pointing
  <2>3. ASSUME j = t PROVE Pointing(e, j) = Pointing(d, t) \cup {<<i, name>>}
    <3>1. <<i, name>> \in Inums \X Names
      OBVIOUS
    <3> QED BY <2>1, <2>3, <3>1 DEF Pointing
  <2> QED BY <2>2, <2>3
<1>4. <<i, name>> \notin Pointing(d, t)
  BY Constants DEF Pointing
<1>5. ASSUME NEW n \in Names
      PROVE  n \in Subdirs(e, i) <=> n \in Subdirs(d, i) \/ (n = name /\ d[t].type = "dir")
  <2>1. d[i].ents[n] \in 0 .. NINODES
    BY DEF DiskType, DiskInode, DirNames
  <2>2. n # name => e[i].ents[n] = d[i].ents[n]
    BY <1>1 DEF DirNames
  <2>3. d[i].ents[n] # 0 => e[d[i].ents[n]].type = d[d[i].ents[n]].type
    BY <1>1, <2>1, Constants
  <2> QED BY <1>1, <2>2, <2>3, Constants DEF Subdirs
<1>6. Subdirs(e, i) = IF d[t].type = "dir" THEN Subdirs(d, i) \cup {name} ELSE Subdirs(d, i)
  BY <1>5 DEF Subdirs
<1>7. name \notin Subdirs(d, i)
  BY DEF Subdirs
<1>8. \A j \in Inums :
        /\ IsFiniteSet(Pointing(d, j)) /\ IsFiniteSet(Subdirs(d, j))
        /\ Cardinality(Pointing(d, j)) \in Nat /\ Cardinality(Subdirs(d, j)) \in Nat
        /\ InodeOk(d, j)
  BY Counted DEF DiskOk
<1>9. Needed(e, t) = Needed(d, t) + 1
  <2>1. Cardinality(Pointing(e, t)) = Cardinality(Pointing(d, t)) + 1
    <3>1. Pointing(e, t) = Pointing(d, t) \cup {<<i, name>>} /\ IsFiniteSet(Pointing(d, t))
      BY <1>3, <1>8
    <3>2. Cardinality(Pointing(d, t) \cup {<<i, name>>}) = Cardinality(Pointing(d, t)) + 1
      BY <1>4, <3>1, FS_AddElement
    <3> QED BY <3>1, <3>2
  <2>2. Subdirs(e, t) = Subdirs(d, t)
    BY <1>1
  <2> QED BY <1>8, <2>1, <2>2 DEF Needed
<1>10. Needed(e, i) = IF d[t].type = "dir" THEN Needed(d, i) + 1 ELSE Needed(d, i)
  <2>1. Cardinality(Pointing(e, i)) = Cardinality(Pointing(d, i))
    BY <1>3
  <2>2. Cardinality(Subdirs(e, i)) = IF d[t].type = "dir" THEN Cardinality(Subdirs(d, i)) + 1
                                     ELSE Cardinality(Subdirs(d, i))
    <3>1. IsFiniteSet(Subdirs(d, i))
      BY <1>8
    <3>2. Cardinality(Subdirs(d, i) \cup {name}) = Cardinality(Subdirs(d, i)) + 1
      BY <1>7, <3>1, FS_AddElement
    <3> QED BY <1>6, <3>2
  <2> QED BY <1>8, <2>1, <2>2 DEF Needed
<1>11. \A j \in Inums \ {i, t} : Needed(e, j) = Needed(d, j)
  BY <1>1, <1>3 DEF Needed
<1>12. ASSUME NEW j \in Inums PROVE InodeOk(e, j)
  <2>1. \A n \in Names : e[j].ents[n] # j
    <3>1. \A n \in Names : d[j].ents[n] # j
      BY <1>8 DEF InodeOk
    <3> QED BY <1>1, <3>1 DEF DirNames
  <2>2. Needed(e, j) <= e[j].nlink
    BY <1>2, <1>8, <1>9, <1>10, <1>11 DEF InodeOk, Spare
  <2>3. e[j].type = "free" => e[j].nlink = 0
    BY <1>1, <1>2, <1>8 DEF InodeOk
  <2>4. ASSUME e[j].type = "dir", e[j].emptied = FALSE, NEW x \in Pointing(e, j)
        PROVE  DotsAre(e, j, x[1])
    <3>1. DotsAre(d, j, x[1])
      BY <1>1, <1>2, <1>3, <1>8, <2>4 DEF InodeOk
    <3>2. \A n \in {".", ".."} : e[j].ents[n] = d[j].ents[n]
      BY <1>1, FileSystemAssumption DEF DirNames
    <3> QED BY <3>1, <3>2 DEF DotsAre
  <2> QED BY <2>1, <2>2, <2>3, <2>4 DEF InodeOk
<1> QED BY <1>12 DEF DiskOk

\* A directory gets a "." or ".." that it did not have; it has no name then, or
\* has been truncated.
LEMMA DotMade ==
  ASSUME NEW d \in DiskType, DiskOk(d), NEW e, NEW i \in Inums, NEW name \in {".", ".."},
         NEW t, d[i].ents[name] = 0, d[i].type = "dir",
         OnlyInode(d, e, i), e[i].type = d[i].type, e[i].nlink = d[i].nlink,
         e[i].emptied = d[i].emptied,
         e[i].ents = [d[i].ents EXCEPT ![name] = t]
  PROVE  /\ DiskOk(e)
         /\ \A j \in Inums : Needed(e, j) = Needed(d, j)
<1>1. name \in DirNames /\ name \notin Names
  BY FileSystemAssumption DEF DirNames
<1>2. /\ \A j \in Inums : e[j].type = d[j].type
      /\ \A j \in Inums, n \in DirNames :
           <<j, n>> # <<i, name>> => e[j].ents[n] = d[j].ents[n]
      /\ \A j \in Inums \ {i} : Subdirs(e, j) = Subdirs(d, j)
  <2>1. OneEntry(d, e, i, name, t)
    BY <1>1, OtherNames
  <2> QED BY <2>1 DEF OneEntry
<1>3. \A j \in Inums : e[j].nlink = d[j].nlink /\ e[j].emptied = d[j].emptied
  BY DEF OnlyInode
<1>4. \A j \in Inums, n \in Names : e[j].ents[n] = d[j].ents[n]
  BY <1>1, <1>2 DEF DirNames
<1>5. \A j \in Inums : Pointing(e, j) = Pointing(d, j)
  BY <1>4 DEF Pointing
<1>6. Subdirs(e, i) = Subdirs(d, i)
  <2>1. ASSUME NEW n \in Names, d[i].ents[n] # 0
        PROVE  e[d[i].ents[n]].type = d[d[i].ents[n]].type
    <3>1. d[i].ents[n] \in 0 .. NINODES
      BY DEF DiskType, DiskInode, DirNames
    <3> QED BY <1>2, <2>1, <3>1, Constants
  <2> QED BY <1>4, <2>1 DEF Subdirs
<1>7. \A j \in Inums : Needed(e, j) = Needed(d, j)
  BY <1>2, <1>5, <1>6 DEF Needed
<1>8. d[i].emptied = FALSE => Pointing(d, i) = {}
  <2> SUFFICES ASSUME d[i].emptied = FALSE, NEW x \in Pointing(d, i) PROVE FALSE
    OBVIOUS
  <2>1. x[1] \in Inums /\ DotsAre(d, i, x[1])
    BY DEF Pointing, DiskOk, InodeOk
  <2> QED BY <2>1, Constants DEF DotsAre
<1>9. ASSUME NEW j \in Inums PROVE InodeOk(e, j)
  <2>1. InodeOk(d, j)
    BY DEF DiskOk
  <2>2. CASE j = i
    BY <1>2, <1>3, <1>4, <1>5, <1>7, <1>8, <2>1, <2>2 DEF InodeOk
  <2>3. CASE j # i
    <3>1. \A n \in {".", ".."} : e[j].ents[n] = d[j].ents[n]
      BY <1>2, <2>3 DEF DirNames
    <3>2. \A u : DotsAre(d, j, u) => DotsAre(e, j, u)
      BY <3>1 DEF DotsAre
    <3> QED BY <1>2, <1>3, <1>4, <1>5, <1>7, <2>1, <3>2 DEF InodeOk
  <2> QED BY <2>2, <2>3
<1> QED BY <1>7, <1>9 DEF DiskOk

\* A directory is truncated, or a file: it loses its names and keeps its links.
LEMMA NamesGone ==
  ASSUME NEW d \in DiskType, DiskOk(d), NEW e, NEW i \in Inums,
         OnlyInode(d, e, i), e[i].type = d[i].type, e[i].nlink = d[i].nlink,
         e[i].ents = NoEntries, d[i].type = "dir" => e[i].emptied = TRUE
  PROVE  /\ DiskOk(e)
         /\ \A j \in Inums : Needed(e, j) <= Needed(d, j)
<1>1. /\ \A j \in Inums \ {i} : e[j] = d[j]
      /\ \A j \in Inums : e[j].type = d[j].type /\ e[j].nlink = d[j].nlink
  BY DEF OnlyInode
<1>2. \A n \in Names : e[i].ents[n] = 0
  BY NoEntriesType
<1>3. \A j \in Inums, n \in Names : e[j].ents[n] # 0 => e[j].ents[n] = d[j].ents[n]
  BY <1>1, <1>2
<1>4. ASSUME NEW j \in Inums
      PROVE  Pointing(e, j) \subseteq Pointing(d, j) /\ Subdirs(e, j) \subseteq Subdirs(d, j)
  <2>1. \A x \in Inums, n \in Names : e[x].ents[n] = j => d[x].ents[n] = j
    BY <1>3, Constants
  <2>2. Pointing(e, j) \subseteq Pointing(d, j)
    BY <2>1 DEF Pointing
  <2>3. ASSUME NEW n \in Names, e[j].ents[n] # 0, e[e[j].ents[n]].type = "dir"
        PROVE  d[j].ents[n] # 0 /\ d[d[j].ents[n]].type = "dir"
    <3>1. d[j].ents[n] = e[j].ents[n] /\ d[j].ents[n] \in 0 .. NINODES
      BY <1>3, <2>3 DEF DiskType, DiskInode, DirNames
    <3>2. d[j].ents[n] \in Inums
      BY <2>3, <3>1, Constants
    <3> QED BY <1>1, <2>3, <3>1, <3>2
  <2>4. Subdirs(e, j) \subseteq Subdirs(d, j)
    BY <2>3 DEF Subdirs
  <2> QED BY <2>2, <2>4
<1>5. ASSUME NEW j \in Inums PROVE Needed(e, j) <= Needed(d, j)
  BY <1>4, Fewer
<1>6. ASSUME NEW j \in Inums PROVE InodeOk(e, j)
  <2>1. InodeOk(d, j) /\ Needed(e, j) <= Needed(d, j) /\ Pointing(e, j) \subseteq Pointing(d, j)
    BY <1>4, <1>5 DEF DiskOk
  <2>2. \A n \in Names : e[j].ents[n] # j
    BY <1>3, <2>1, Constants DEF InodeOk
  <2>3. Needed(e, j) <= e[j].nlink
    <3>1. Needed(e, j) \in Nat /\ Needed(d, j) \in Nat /\ d[j].nlink \in Int
      BY Counted DEF DiskType, DiskInode
    <3> QED BY <1>1, <2>1, <3>1 DEF InodeOk
  <2>4. e[j].type = "dir" /\ e[j].emptied = FALSE =>
          \A x \in Pointing(e, j) : DotsAre(e, j, x[1])
    <3>1. CASE j = i
      BY <1>1, <3>1
    <3>2. CASE j # i
      BY <1>1, <2>1, <3>2 DEF InodeOk, DotsAre
    <3> QED BY <3>1, <3>2
  <2> QED BY <1>1, <2>1, <2>2, <2>3, <2>4 DEF InodeOk
<1> QED BY <1>5, <1>6 DEF DiskOk

\* A write of one inode.
LEMMA OneInode ==
  ASSUME NEW d \in DiskType, NEW i \in Inums, NEW e \in DiskInode
  PROVE  LET f == WithInode(d, i, e) IN
         /\ f \in DiskType /\ OnlyInode(d, f, i) /\ f[i] = e
BY DEF DiskType, WithInode, OnlyInode

\* An entry is set.
LEMMA EntrySet ==
  ASSUME NEW d \in DiskType, DiskOk(d), NEW e, NEW i \in Inums, NEW name, NEW t,
         MayName(d, i, name, t),
         OnlyInode(d, e, i), e[i].type = d[i].type, e[i].nlink = d[i].nlink,
         e[i].emptied = d[i].emptied,
         e[i].ents = [d[i].ents EXCEPT ![name] = t]
  PROVE  DiskOk(e)
<1>1. CASE name \in Names /\ t = 0 /\ d[i].ents[name] \in Inums
  BY <1>1, NameCleared
<1>2. CASE name \in {".", ".."} /\ d[i].ents[name] = 0 /\ d[i].type = "dir"
  BY <1>2, DotMade
<1>3. CASE /\ name \in Names /\ d[i].ents[name] = 0
           /\ t \in Inums \ {i} /\ d[t].type # "free" /\ Spare(d, t)
           /\ d[t].type = "dir" => Spare(d, i) /\ DotsAre(d, t, i)
  BY <1>3, NameMade
<1> QED BY <1>1, <1>2, <1>3 DEF MayName
=============================================================================
