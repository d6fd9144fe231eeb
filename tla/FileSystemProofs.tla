------------------------- MODULE FileSystemProofs --------------------------
(***************************************************************************)
(* FileSystem is correct for every size of the inode cache, of the disk    *)
(* and of the descriptor tables, every set of processes, names and paths:  *)
(* reference counts are exact, every lock is released, the cache agrees    *)
(* with the disk, what is open stays what it is, and no failure of the     *)
(* power leaves an inode with more names than links, or a directory that   *)
(* has a name and is not complete.                                         *)
(*                                                                         *)
(* The invariant, Inv, is that the machine is Settled: the references owed *)
(* are those of the descriptors, of the current directory and of the       *)
(* processes that are gone, and no inode is locked.  InodeProofs has what  *)
(* the functions do; here are the system calls, each of which starts from  *)
(* a settled machine and is done with a settled one (CallDone), the        *)
(* counting of descriptors that takes, and the steps of the machine.       *)
(***************************************************************************)
EXTENDS InodeProofs

\* Tables of descriptors, the descriptors that point to a slot, and one that is
\* set.
FilesType == [Procs -> [Fds -> SlotOrNull]]
HeldIn(fs, s) == {h \in Procs \X Fds : fs[h[1]][h[2]] = s}
WithFd(fs, p, f, s) == [fs EXCEPT ![p] = [fs[p] EXCEPT ![f] = s]]

\* The references that descriptors owe, and e that nobody can put back.
Owes(fs, e) == [s \in Islots |-> Cardinality(HeldIn(fs, s)) + e[s]]
Settled(k, e) == Rests(k, Owes(k.ofiles, e), {})

\* s is the current directory, or a descriptor's, before and after.
StaysOpen(k, r, s) ==
  \/ k.cwd = s /\ r.cwd = s
  \/ \E p \in Procs, f \in Fds : k.ofiles[p][f] = s /\ r.ofiles[p][f] = s

\* A call from k has ended in r, or halted.
CallDone(k, r, e) ==
  /\ Settled(r, e)
  /\ Ok(r) => /\ Ok(k)
              /\ \A s \in Islots : StaysOpen(k, r, s) => KeepsSlot(k, r, s)

\* What holds between the steps of the machine.
Inv ==
  /\ disk \in DiskType /\ DiskOk(disk)
  /\ icache \in [Islots -> SlotType]
  /\ ofiles \in FilesType
  /\ cwd \in SlotOrNull
  /\ lost \in [Islots -> Nat]
  /\ halted \in Allowed \cup {"off"}
  /\ halted = "no" => Settled(Kernel, lost)

\* A slot that stays open keeps its inode, and the type of that inode.
OpenSlotsKept ==
  \A s \in Islots :
    LET i == icache[s].inum IN
    /\ halted = "no" /\ halted' = "no"
    /\ \/ cwd = s /\ cwd' = s
       \/ \E p \in Procs, f \in Fds : ofiles[p][f] = s /\ ofiles'[p][f] = s
    => /\ icache'[s].inum = i
       /\ disk[i].type # "free" => disk'[i].type = disk[i].type

-----------------------------------------------------------------------------
(* Counting descriptors. *)

\* The descriptors that point to a slot are finitely many.
LEMMA HoldersFinite ==
  ASSUME NEW fs, NEW s
  PROVE  /\ IsFiniteSet(HeldIn(fs, s)) /\ Cardinality(HeldIn(fs, s)) \in Nat
         /\ IsFiniteSet(Fds)
<1>1. IsFiniteSet(Fds)
  <2>1. 0 \in Int /\ NOFILE - 1 \in Int
    BY FileSystemAssumption
  <2> QED BY <2>1, FS_Interval DEF Fds
<1>2. IsFiniteSet(Procs)
  BY FileSystemAssumption
<1>3. IsFiniteSet(Procs \X Fds)
  BY <1>1, <1>2, FS_Product
<1>4. HeldIn(fs, s) \in SUBSET (Procs \X Fds)
  BY DEF HeldIn
<1>5. IsFiniteSet(HeldIn(fs, s))
  BY <1>3, <1>4, FS_Subset
<1> QED BY <1>1, <1>5, FS_CardinalityType

\* What is owed is a number of references, and more than none for a slot that a
\* descriptor points to.
LEMMA OwesType ==
  ASSUME NEW fs, NEW e \in [Islots -> Nat]
  PROVE  /\ Owes(fs, e) \in Owed
         /\ \A s \in Islots : HeldIn(fs, s) # {} => Owes(fs, e)[s] > 0
<1>1. \A s \in Islots : Cardinality(HeldIn(fs, s)) \in Nat
  BY HoldersFinite
<1>2. \A s \in Islots : HeldIn(fs, s) # {} => Cardinality(HeldIn(fs, s)) # 0
  BY HoldersFinite, FS_EmptySet
<1> QED BY <1>1, <1>2 DEF Owes, Owed

\* A table of descriptors with one of them set.
LEMMA WithFdType ==
  ASSUME NEW fs \in FilesType, NEW p \in Procs, NEW f \in Fds, NEW s \in SlotOrNull
  PROVE  /\ WithFd(fs, p, f, s) \in FilesType
         /\ \A q \in Procs, g \in Fds :
              WithFd(fs, p, f, s)[q][g] = IF q = p /\ g = f THEN s ELSE fs[q][g]
<1>1. fs[p] \in [Fds -> SlotOrNull]
  BY DEF FilesType
<1> DEFINE row == [fs[p] EXCEPT ![f] = s]
<1>2. row \in [Fds -> SlotOrNull] /\ \A g \in Fds : row[g] = IF g = f THEN s ELSE fs[p][g]
  BY <1>1
<1> HIDE DEF row
<1>3. WithFd(fs, p, f, s) = [fs EXCEPT ![p] = row]
  BY DEF WithFd, row
<1> QED BY <1>2, <1>3 DEF FilesType

\* A descriptor's new contents are owed instead of its old ones.
LEMMA SetFdOwes ==
  ASSUME NEW fs \in FilesType, NEW e \in [Islots -> Nat], NEW p \in Procs,
         NEW f \in Fds, NEW s \in SlotOrNull
  PROVE  More(Owes(WithFd(fs, p, f, s), e), fs[p][f]) = More(Owes(fs, e), s)
<1> DEFINE g == WithFd(fs, p, f, s)
           old == fs[p][f]
           h == <<p, f>>
<1>1. \A q \in Procs, i \in Fds : g[q][i] = IF q = p /\ i = f THEN s ELSE fs[q][i]
  BY WithFdType
<1>2. h \in Procs \X Fds /\ h[1] = p /\ h[2] = f
  OBVIOUS
<1>3. \A t : HeldIn(g, t) \ {h} = HeldIn(fs, t) \ {h}
  <2> SUFFICES ASSUME NEW t, NEW x \in (Procs \X Fds) \ {h}
               PROVE  g[x[1]][x[2]] = fs[x[1]][x[2]]
    BY DEF HeldIn
  <2>1. x[1] \in Procs /\ x[2] \in Fds /\ x = <<x[1], x[2]>>
    OBVIOUS
  <2> HIDE DEF g
  <2> QED BY <1>1, <2>1
<1>4. \A t : (h \in HeldIn(g, t) <=> t = s) /\ (h \in HeldIn(fs, t) <=> t = old)
  <2> HIDE DEF g
  <2> QED BY <1>1, <1>2 DEF HeldIn
<1> HIDE DEF g, h, old
<1>5. ASSUME NEW t \in Islots
      PROVE  Cardinality(HeldIn(g, t)) + (IF t = old THEN 1 ELSE 0)
               = Cardinality(HeldIn(fs, t)) + (IF t = s THEN 1 ELSE 0)
  <2> DEFINE rest == HeldIn(g, t) \ {h}
  <2>1. /\ Cardinality(rest) = IF h \in HeldIn(g, t) THEN Cardinality(HeldIn(g, t)) - 1
                               ELSE Cardinality(HeldIn(g, t))
        /\ Cardinality(HeldIn(g, t)) \in Nat
    BY HoldersFinite, FS_RemoveElement
  <2>2. rest = HeldIn(fs, t) \ {h}
    BY <1>3
  <2>3. /\ Cardinality(HeldIn(fs, t) \ {h}) =
             IF h \in HeldIn(fs, t) THEN Cardinality(HeldIn(fs, t)) - 1
             ELSE Cardinality(HeldIn(fs, t))
        /\ Cardinality(HeldIn(fs, t)) \in Nat
    BY HoldersFinite, FS_RemoveElement
  <2> HIDE DEF rest
  <2> QED BY <1>4, <2>1, <2>2, <2>3
<1>6. \A t \in Islots : Cardinality(HeldIn(g, t)) \in Nat /\ Cardinality(HeldIn(fs, t)) \in Nat
  BY HoldersFinite
<1>7. ASSUME NEW t \in Islots
      PROVE  More(Owes(g, e), old)[t] = More(Owes(fs, e), s)[t]
  BY <1>5, <1>6 DEF More, Owes
<1>8. More(Owes(g, e), old) = More(Owes(fs, e), s)
  BY <1>7 DEF More
<1> QED BY <1>8 DEF g, old

\* The same when a whole table is replaced, and what was in it is given up.
LEMMA TableOwes ==
  ASSUME NEW fs \in FilesType, NEW q \in Procs, NEW fds \in [Fds -> SlotOrNull],
         NEW e \in [Islots -> Nat], NEW d \in [Islots -> Nat],
         \A s \in Islots : d[s] = e[s] + Cardinality(FdsOn(fs[q], s))
  PROVE  \A s \in Islots :
           Owes([fs EXCEPT ![q] = fds], d)[s]
             = Owes(fs, e)[s] + Cardinality(FdsOn(fds, s))
<1> DEFINE g == [fs EXCEPT ![q] = fds]
<1>1. g \in FilesType /\ \A p \in Procs : g[p] = IF p = q THEN fds ELSE fs[p]
  BY DEF FilesType
<1> HIDE DEF g
<1> SUFFICES ASSUME NEW s \in Islots
             PROVE  Owes(g, d)[s] = Owes(fs, e)[s] + Cardinality(FdsOn(fds, s))
  BY DEF g
<1> DEFINE Row(k) == {q} \X FdsOn(k[q], s)
           Rest(k) == HeldIn(k, s) \ Row(k)
<1>2. ASSUME NEW k
      PROVE  /\ Cardinality(HeldIn(k, s)) = Cardinality(Rest(k)) + Cardinality(FdsOn(k[q], s))
             /\ Cardinality(Rest(k)) \in Nat /\ Cardinality(FdsOn(k[q], s)) \in Nat
  <2>1. FdsOn(k[q], s) \in SUBSET Fds
    BY DEF FdsOn
  <2>2. IsFiniteSet(FdsOn(k[q], s)) /\ Cardinality(FdsOn(k[q], s)) \in Nat
    BY <2>1, HoldersFinite, FS_Subset, FS_CardinalityType
  <2>3. IsFiniteSet({q}) /\ Cardinality({q}) = 1
    BY FS_Singleton
  <2>4. IsFiniteSet(Row(k)) /\ Cardinality(Row(k)) = 1 * Cardinality(FdsOn(k[q], s))
    BY <2>2, <2>3, FS_Product
  <2>5. IsFiniteSet(Rest(k)) /\ Cardinality(Rest(k)) \in Nat
    BY HoldersFinite, FS_Difference, FS_CardinalityType
  <2>6. Row(k) \subseteq HeldIn(k, s)
    BY DEF FdsOn, HeldIn
  <2>7. HeldIn(k, s) = Rest(k) \cup Row(k) /\ Rest(k) \cap Row(k) = {}
    BY <2>6
  <2> HIDE DEF Row, Rest
  <2>8. Cardinality(HeldIn(k, s)) = Cardinality(Rest(k)) + Cardinality(Row(k)) - Cardinality({})
    BY <2>4, <2>5, <2>7, FS_Union
  <2> QED BY <2>2, <2>4, <2>5, <2>8, FS_EmptySet
<1>3. Rest(g) = Rest(fs)
  <2>1. ASSUME NEW k PROVE Rest(k) = {h \in Procs \X Fds : h[1] # q /\ k[h[1]][h[2]] = s}
    <3> SUFFICES ASSUME NEW h \in Procs \X Fds
                 PROVE  (h \in HeldIn(k, s) /\ h \notin Row(k))
                          <=> (h[1] # q /\ k[h[1]][h[2]] = s)
      BY DEF HeldIn
    <3>1. h = <<h[1], h[2]>> /\ h[1] \in Procs /\ h[2] \in Fds
      OBVIOUS
    <3>2. h \in HeldIn(k, s) <=> k[h[1]][h[2]] = s
      BY DEF HeldIn
    <3>3. h \in Row(k) <=> h[1] = q /\ k[q][h[2]] = s
      BY <3>1 DEF FdsOn
    <3> HIDE DEF Row
    <3> QED BY <3>2, <3>3
  <2> HIDE DEF Rest
  <2>2. \A h \in Procs \X Fds : h[1] # q => g[h[1]][h[2]] = fs[h[1]][h[2]]
    BY <1>1
  <2> QED BY <2>1, <2>2
<1> HIDE DEF Row, Rest
<1>4. g[q] = fds
  BY <1>1
<1>5. /\ Owes(g, d)[s] = Cardinality(HeldIn(g, s)) + d[s]
      /\ Owes(fs, e)[s] = Cardinality(HeldIn(fs, s)) + e[s]
      /\ d[s] = e[s] + Cardinality(FdsOn(fs[q], s)) /\ e[s] \in Nat
  BY DEF Owes
<1>6. /\ Cardinality(HeldIn(g, s)) = Cardinality(Rest(g)) + Cardinality(FdsOn(g[q], s))
      /\ Cardinality(Rest(g)) \in Nat /\ Cardinality(FdsOn(g[q], s)) \in Nat
      /\ Cardinality(HeldIn(fs, s)) = Cardinality(Rest(fs)) + Cardinality(FdsOn(fs[q], s))
      /\ Cardinality(FdsOn(fs[q], s)) \in Nat
  BY <1>2
<1> QED BY <1>3, <1>4, <1>5, <1>6

\* A slot that a descriptor points to is owed a reference.
LEMMA HolderOwed ==
  ASSUME NEW fs, NEW e \in [Islots -> Nat], NEW p \in Procs, NEW f \in Fds,
         NEW s \in Islots, fs[p][f] = s
  PROVE  Owes(fs, e)[s] > 0
<1>1. <<p, f>> \in HeldIn(fs, s)
  BY DEF HeldIn
<1> QED BY <1>1, OwesType

\* A call that leaves the descriptors alone.
LEMMA DoneOnNames ==
  ASSUME NEW k, NEW r, NEW e \in [Islots -> Nat],
         Rests(r, Owes(k.ofiles, e), {}), NStep(k, r, Owes(k.ofiles, e))
  PROVE  CallDone(k, r, e)
<1> DEFINE b == Owes(k.ofiles, e)
<1>1. r.ofiles = k.ofiles
  BY DEF NStep
<1>2. Settled(r, e)
  BY <1>1 DEF Settled
<1>3. b \in Owed
  BY OwesType
<1>4. ASSUME Ok(r), NEW s \in Islots, StaysOpen(k, r, s) PROVE KeepsSlot(k, r, s)
  <2>1. Keeps(k, r, More(b, k.cwd))
    BY <1>4 DEF NStep
  <2>2. CASE k.cwd = s
    <3>1. More(b, k.cwd)[s] > 0
      <4> HIDE DEF b
      <4> QED BY <1>3, <2>2, MoreFacts
    <3> QED BY <2>1, <3>1 DEF Keeps
  <2>3. CASE \E p \in Procs, f \in Fds : k.ofiles[p][f] = s
    <3>1. b[s] > 0
      BY <2>3, HolderOwed
    <3>2. More(b, k.cwd)[s] > 0
      <4> HIDE DEF b
      <4> QED BY <1>3, <3>1, MoreFacts
    <3> QED BY <2>1, <3>2 DEF Keeps
  <2> QED BY <1>4, <2>2, <2>3 DEF StaysOpen
<1> QED BY <1>2, <1>4 DEF CallDone, NStep

\* A call that keeps what is open after it.
LEMMA DoneOnFds ==
  ASSUME NEW k, NEW r, NEW e \in [Islots -> Nat],
         Rests(r, Owes(r.ofiles, e), {}), r.cwd = k.cwd,
         NEW q, Ok(r) => Ok(k) /\ Keeps(k, r, q),
         \A s \in Islots : StaysOpen(k, r, s) => q[s] > 0
  PROVE  CallDone(k, r, e)
BY DEF CallDone, Settled, Keeps

\* A descriptor is set, and nothing of the inode cache is touched.
LEMMA OfilesOnly ==
  ASSUME NEW k, NEW o, NEW L, At(k, o, L),
         NEW p \in Procs, NEW f \in Fds, NEW s \in SlotOrNull
  PROVE  LET r == SetFd(k, p, f, s) IN
         /\ At(r, o, L) /\ (Ok(r) <=> Ok(k)) /\ Keeps(k, r, o)
         /\ r.ofiles = WithFd(k.ofiles, p, f, s)
         /\ r.cwd = k.cwd /\ r.ip = k.ip /\ r.ret = k.ret
         /\ r.disk = k.disk /\ r.icache = k.icache
<1> DEFINE r == SetFd(k, p, f, s)
           g == WithFd(k.ofiles, p, f, s)
<1>1. k \in KernelType /\ k.ofiles \in FilesType
  BY DEF At, Safe, KernelType, FilesType
<1>2. g \in FilesType
  BY <1>1, WithFdType
<1>3. r = [k EXCEPT !.ofiles = g]
  BY <1>1 DEF SetFd, WithFd
<1> HIDE DEF g, r
<1>4. /\ r \in KernelType /\ r.ofiles = g
      /\ r.disk = k.disk /\ r.icache = k.icache /\ r.cwd = k.cwd
      /\ r.ip = k.ip /\ r.halted = k.halted /\ r.ret = k.ret /\ r.images = k.images
  BY <1>1, <1>2, <1>3 DEF KernelType, FilesType
<1>5. At(r, o, L)
  BY <1>4 DEF At, Safe, Ok, RefsAre, LocksAre, LockIs, SlotsOk, SlotOk
<1>6. Keeps(k, r, o)
  BY <1>4 DEF Keeps, KeepsSlot
<1> QED BY <1>4, <1>5, <1>6 DEF Ok, r, g

\* A call that starts with steps on names.
LEMMA DoneAfter ==
  ASSUME NEW k, NEW u, NEW r, NEW e \in [Islots -> Nat],
         NStep(k, u, Owes(k.ofiles, e)), CallDone(u, r, e)
  PROVE  CallDone(k, r, e)
<1> DEFINE b == Owes(k.ofiles, e)
<1>1. b \in Owed
  BY OwesType
<1>2. ASSUME Ok(r), NEW s \in Islots, StaysOpen(k, r, s) PROVE KeepsSlot(k, r, s)
  <2>1. /\ Ok(u) /\ u.ofiles = k.ofiles /\ Keeps(k, u, More(b, k.cwd))
        /\ k.cwd # NULL => u.cwd = k.cwd
    BY <1>2 DEF CallDone, NStep
  <2>2. StaysOpen(u, r, s)
    BY <1>2, <2>1, Constants DEF StaysOpen
  <2>3. KeepsSlot(u, r, s)
    BY <1>2, <2>2 DEF CallDone
  <2>4. More(b, k.cwd)[s] > 0
    <3>1. b[s] > 0 \/ k.cwd = s
      BY <1>2, HolderOwed DEF StaysOpen
    <3> HIDE DEF b
    <3> QED BY <1>1, <3>1, MoreFacts
  <2>5. KeepsSlot(k, u, s)
    BY <2>1, <2>4 DEF Keeps
  <2> QED BY <2>3, <2>5 DEF KeepsSlot
<1> QED BY <1>2 DEF CallDone, NStep

-----------------------------------------------------------------------------
(* open. *)

\* An inode that is locked is perhaps truncated, and unlocked.
LEMMA TruncatingAndUnlocking ==
  ASSUME NEW a, NEW b \in Owed, NEW ip \in Islots, Holds(a, b, ip, {ip}),
         Ok(a) => a.icache[ip].valid = TRUE, NEW trunc \in BOOLEAN
  PROVE  LET u == iunlock(IF trunc THEN Truncate(a, ip) ELSE a, ip) IN
         Holds(u, b, ip, {}) /\ NStep(a, u, b)
<1> DEFINE q == More(b, a.cwd)
           o == More(q, ip)
           one == {ip}
           m == IF trunc THEN Truncate(a, ip) ELSE a
           u == iunlock(m, ip)
<1>1. /\ q \in Owed /\ o \in Owed /\ o[ip] > 0 /\ At(a, o, one)
      /\ ip \in one /\ one \ {ip} = {}
      /\ \A t \in Islots : q[t] > 0 => o[t] > 0
  BY MoreFacts DEF Holds
<1> HIDE DEF o, one
<1>2. At(m, o, one) /\ Step(a, m, o)
  <2>1. CASE trunc
    <3>1. m = Truncate(a, ip)
      BY <2>1
    <3> HIDE DEF m
    <3> QED BY <1>1, <3>1, Truncating
  <2>2. CASE ~trunc
    BY <1>1, <2>2, StepRefl
  <2> QED BY <2>1, <2>2
<1> HIDE DEF m
<1>3. At(u, o, one \ {ip}) /\ Step(m, u, o)
  BY <1>1, <1>2, Iunlock
<1> HIDE DEF u
<1>4. Step(a, u, o)
  BY <1>2, <1>3, StepTrans
<1>5. NStep(a, u, b) /\ u.cwd = a.cwd
  BY <1>1, <1>4, StepLess
<1>6. Holds(u, b, ip, {})
  BY <1>1, <1>3, <1>5 DEF Holds, o
<1> QED BY <1>5, <1>6 DEF u, m

\* An inode that nothing but this call holds goes into a descriptor.
LEMMA Handing ==
  ASSUME NEW u, NEW e \in [Islots -> Nat], NEW ip \in Islots,
         Holds(u, Owes(u.ofiles, e), ip, {}), NEW p \in Procs,
         NEW r,
         r = IF ~Ok(u) THEN u
             ELSE IF FreeFds(u, p) = {} THEN Return(iput(u, ip), -1)
             ELSE Return(SetFd(u, p, Min(FreeFds(u, p)), ip), Min(FreeFds(u, p)))
  PROVE  CallDone(u, r, e)
<1> DEFINE b == Owes(u.ofiles, e)
<1>1. /\ b \in Owed /\ {} \subseteq Islots /\ -1 \in Int
      /\ u.ofiles \in FilesType
  BY OwesType DEF Holds, At, Safe, KernelType, FilesType
<1>2. CASE ~Ok(u)
  <2>1. r = u /\ Safe(u)
    BY <1>2 DEF Holds, At
  <2>2. Rests(r, b, {}) /\ NStep(u, r, b)
    <3> HIDE DEF b
    <3> QED BY <1>1, <1>2, <2>1, HaltedAnyway
  <2> QED BY <2>2, DoneOnNames
<1>3. CASE Ok(u) /\ FreeFds(u, p) = {}
  <2> DEFINE q == More(b, u.cwd)
             m == iput(u, ip)
  <2>1. r = Return(m, -1)
    BY <1>3
  <2>2. q \in Owed /\ At(u, More(q, ip), {}) /\ ip \notin {}
    <3> HIDE DEF b
    <3> QED BY <1>1, MoreFacts DEF Holds, b
  <2> HIDE DEF q
  <2>3. At(m, q, {}) /\ Step(u, m, q)
    BY <2>2, Iput
  <2> HIDE DEF m
  <2>4. Rests(m, b, {}) /\ NStep(u, m, b)
    <3> HIDE DEF b
    <3> QED BY <1>1, <2>3, RestsAgain DEF q
  <2>5. Rests(r, b, {}) /\ NStep(m, r, b)
    <3> HIDE DEF b
    <3> QED BY <1>1, <2>1, <2>4, Ending
  <2>6. NStep(u, r, b)
    <3> HIDE DEF b
    <3> QED BY <1>1, <2>4, <2>5, NStepTrans
  <2> QED BY <2>5, <2>6, DoneOnNames
<1>4. CASE Ok(u) /\ FreeFds(u, p) # {}
  <2> DEFINE f == Min(FreeFds(u, p))
             m == SetFd(u, p, f, ip)
             g == WithFd(u.ofiles, p, f, ip)
             c == Owes(g, e)
             o == More(More(b, u.cwd), ip)
  <2>1. r = Return(m, f)
    BY <1>4
  <2>2. f \in FreeFds(u, p)
    <3>1. FreeFds(u, p) \subseteq Nat
      BY FileSystemAssumption DEF FreeFds
    <3> QED BY <1>4, <3>1, MinIn
  <2> HIDE DEF f
  <2>3. f \in Fds /\ f \in Int /\ u.ofiles[p][f] = NULL /\ ip \in SlotOrNull
    BY <2>2, FileSystemAssumption DEF FreeFds, Fds, SlotOrNull
  <2>4. c = More(b, ip)
    <3>1. More(c, NULL) = More(b, ip)
      BY <1>1, <2>3, SetFdOwes
    <3>2. c \in Owed
      BY OwesType
    <3> HIDE DEF c, b
    <3> QED BY <3>1, <3>2, MoreFacts
  <2>5. o = More(c, u.cwd)
    <3> HIDE DEF b, c
    <3> QED BY <1>1, <2>4, MoreFacts
  <2>6. At(u, o, {})
    BY DEF Holds
  <2> HIDE DEF o
  <2>7. /\ At(m, o, {}) /\ (Ok(m) <=> Ok(u)) /\ Keeps(u, m, o)
        /\ m.ofiles = g /\ m.cwd = u.cwd
        /\ m.disk = u.disk /\ m.icache = u.icache
    BY <2>3, <2>6, OfilesOnly
  <2> HIDE DEF m
  <2>8. /\ At(r, o, {}) /\ (Ok(r) <=> Ok(m)) /\ Step(m, r, o)
        /\ r.ofiles = m.ofiles /\ r.cwd = m.cwd
        /\ r.disk = m.disk /\ r.icache = m.icache
    <3> DEFINE none == {}
    <3>1. At(m, o, none) /\ f \in Int
      BY <2>3, <2>7
    <3> HIDE DEF none
    <3> DEFINE x == Return(m, f)
    <3>2. /\ At(x, o, none) /\ (Ok(x) <=> Ok(m)) /\ Step(m, x, o)
          /\ x.cwd = m.cwd /\ x.ofiles = m.ofiles
          /\ x.disk = m.disk /\ x.icache = m.icache
      BY <3>1, RetOnly
    <3>3. r = x
      BY <2>1
    <3> HIDE DEF x
    <3> QED BY <3>2, <3>3 DEF none
  <2>9. Rests(r, Owes(r.ofiles, e), {})
    <3>1. r.ofiles = g /\ r.cwd = u.cwd
      BY <2>7, <2>8
    <3> HIDE DEF g
    <3> QED BY <2>5, <2>8, <3>1 DEF Rests
  <2>10. \A s \in Islots : KeepsSlot(u, r, s)
    BY <2>7, <2>8 DEF KeepsSlot
  <2> QED BY <1>4, <2>9, <2>10 DEF CallDone, Settled
<1> QED BY <1>2, <1>3, <1>4

\* open leaves one reference, in the descriptor it returns, or none.
LEMMA Opening ==
  ASSUME NEW k, NEW e \in [Islots -> Nat], Settled(k, e), NEW p \in Procs,
         NEW path, path.elems \in Seq(DirNames),
         NEW creat \in BOOLEAN, NEW trunc \in BOOLEAN
  PROVE  CallDone(k, Open(k, p, path, creat, trunc), e)
<1> DEFINE b == Owes(k.ofiles, e)
           a == IF creat THEN xv6fs_create(k, path, "file") ELSE namei(k, path)
           ip == a.ip
           l == ilock(a, ip)
           u == IF creat THEN iunlock(IF trunc THEN Truncate(a, ip) ELSE a, ip)
                ELSE IF trunc THEN iunlock(Truncate(l, ip), ip) ELSE a
           r == Open(k, p, path, creat, trunc)
<1>1. r = IF ~Ok(a) THEN a
          ELSE IF a.ip = NULL THEN Return(a, -1)
          ELSE IF ~Ok(u) THEN u
          ELSE IF FreeFds(u, p) = {} THEN Return(iput(u, ip), -1)
          ELSE Return(SetFd(u, p, Min(FreeFds(u, p)), ip), Min(FreeFds(u, p)))
  BY DEF Open
<1> HIDE DEF r
<1>2. b \in Owed /\ Rests(k, b, {}) /\ -1 \in Int
  BY OwesType DEF Settled
<1> HIDE DEF b
<1>3. /\ NStep(k, a, b)
      /\ creat => Locked(a, b)
      /\ ~creat => Holds(a, b, a.ip, {})
      /\ Safe(a)
  <2>1. CASE creat
    <3>1. a = xv6fs_create(k, path, "file") /\ "file" \in {"file", "dir"}
      BY <2>1
    <3> HIDE DEF a
    <3> QED BY <1>2, <2>1, <3>1, Creating DEF Locked, Holds, At
  <2>2. CASE ~creat
    <3>1. a = namei(k, path)
      BY <2>2
    <3> HIDE DEF a
    <3> QED BY <1>2, <2>2, <3>1, NameI DEF Holds, At
  <2> QED BY <2>1, <2>2
<1> HIDE DEF a
<1>4. CASE ~Ok(a)
  <2>1. r = a /\ {} \subseteq Islots /\ a.ofiles = k.ofiles
    BY <1>1, <1>3, <1>4 DEF NStep
  <2>2. Rests(r, b, {}) /\ NStep(k, r, b)
    BY <1>2, <1>3, <1>4, <2>1, HaltedAnyway
  <2> QED BY <2>2, DoneOnNames DEF b, r
<1>5. CASE Ok(a) /\ a.ip = NULL
  <2>1. r = Return(a, -1)
    BY <1>1, <1>5
  <2>2. More(More(b, a.cwd), a.ip) = More(b, a.cwd) /\ {a.ip} \ {NULL} = {}
    BY <1>2, <1>5, MoreFacts
  <2>3. Rests(a, b, {})
    BY <1>3, <2>2 DEF Locked, Holds, Rests
  <2>4. Rests(r, b, {}) /\ NStep(a, r, b)
    BY <1>2, <2>1, <2>3, Ending
  <2>5. NStep(k, r, b)
    BY <1>2, <1>3, <2>4, NStepTrans
  <2> QED BY <2>4, <2>5, DoneOnNames DEF b, r
<1>6. CASE Ok(a) /\ a.ip # NULL
  <2>1. ip \in Islots
    BY <1>3, <1>6 DEF Safe, KernelType, SlotOrNull
  <2>2. /\ creat => /\ Holds(a, b, ip, {ip})
                    /\ a.icache[ip].valid = TRUE
        /\ ~creat => Holds(a, b, ip, {})
    <3>1. {a.ip} \ {NULL} = {a.ip}
      BY <1>6
    <3> QED BY <1>3, <1>6, <3>1 DEF Locked
  <2> HIDE DEF ip
  <2>3. Holds(u, b, ip, {}) /\ NStep(a, u, b)
    <3>1. CASE creat
      <4>1. u = iunlock(IF trunc THEN Truncate(a, ip) ELSE a, ip)
        BY <3>1
      <4> HIDE DEF u
      <4> QED BY <1>2, <2>1, <2>2, <3>1, <4>1, TruncatingAndUnlocking
    <3>2. CASE ~creat /\ trunc
      <4>1. u = iunlock(IF TRUE THEN Truncate(l, ip) ELSE l, ip)
        BY <3>2
      <4>2. /\ Holds(l, b, ip, {ip}) /\ NStep(a, l, b)
            /\ Ok(l) => l.icache[ip].valid = TRUE
        BY <1>2, <2>1, <2>2, <3>2, LockNamed
      <4> HIDE DEF u, l
      <4>3. Holds(u, b, ip, {}) /\ NStep(l, u, b)
        BY <1>2, <2>1, <4>1, <4>2, TruncatingAndUnlocking
      <4>4. NStep(a, u, b)
        BY <1>2, <4>2, <4>3, NStepTrans
      <4> QED BY <4>3, <4>4
    <3>3. CASE ~creat /\ ~trunc
      <4>1. u = a
        BY <3>3
      <4> QED BY <2>2, <3>3, <4>1, NStepRefl
    <3> QED BY <3>1, <3>2, <3>3
  <2> HIDE DEF u
  <2>4. NStep(k, u, b)
    BY <1>2, <1>3, <2>3, NStepTrans
  <2>5. u.ofiles = k.ofiles
    BY <2>4 DEF NStep
  <2>6. CallDone(u, r, e)
    <3>1. Holds(u, Owes(u.ofiles, e), ip, {})
      BY <2>3, <2>5 DEF b
    <3>2. r = IF ~Ok(u) THEN u
              ELSE IF FreeFds(u, p) = {} THEN Return(iput(u, ip), -1)
              ELSE Return(SetFd(u, p, Min(FreeFds(u, p)), ip), Min(FreeFds(u, p)))
      BY <1>1, <1>6
    <3> QED BY <2>1, <3>1, <3>2, Handing
  <2> QED BY <2>4, <2>6, DoneAfter DEF b, r
<1> QED BY <1>4, <1>5, <1>6

-----------------------------------------------------------------------------
(* close, read, write, lseek. *)

\* close gives back the reference of its descriptor.
LEMMA Closing ==
  ASSUME NEW k, NEW e \in [Islots -> Nat], Settled(k, e), Ok(k),
         NEW p \in Procs, NEW f \in Fds, k.ofiles[p][f] # NULL
  PROVE  CallDone(k, Close(k, p, f), e)
<1> DEFINE s == k.ofiles[p][f]
           g == WithFd(k.ofiles, p, f, NULL)
           c == Owes(g, e)
           q == More(c, k.cwd)
           m == iput(k, s)
           n == SetFd(m, p, f, NULL)
           r == Return(n, 0)
<1>1. /\ k.ofiles \in FilesType /\ NULL \in SlotOrNull /\ 0 \in Int /\ s \in Islots
  BY DEF Settled, Rests, At, Safe, KernelType, FilesType, SlotOrNull
<1>2. Close(k, p, f) = r
  BY DEF Close
<1>3. At(k, More(q, s), {}) /\ q \in Owed
  <2>1. More(c, s) = More(Owes(k.ofiles, e), NULL)
    BY <1>1, SetFdOwes
  <2>2. c \in Owed /\ Owes(k.ofiles, e) \in Owed
    BY OwesType
  <2>3. More(c, s) = Owes(k.ofiles, e)
    BY <2>1, <2>2, MoreFacts
  <2> HIDE DEF c, s
  <2>4. More(q, s) = More(More(c, s), k.cwd) /\ q \in Owed
    BY <2>2, MoreFacts
  <2> QED BY <2>3, <2>4 DEF Settled, Rests
<1> HIDE DEF s
<1>4. s \notin {}
  OBVIOUS
<1>5. At(m, q, {}) /\ Step(k, m, q)
  <2> HIDE DEF q
  <2> QED BY <1>1, <1>3, <1>4, Iput
<1> HIDE DEF m
<1>6. m.ofiles = k.ofiles /\ m.cwd = k.cwd
  BY <1>5 DEF Step
<1>7. /\ At(n, q, {}) /\ (Ok(n) <=> Ok(m)) /\ Keeps(m, n, q)
      /\ n.ofiles = g /\ n.cwd = k.cwd
      /\ n.disk = m.disk /\ n.icache = m.icache
  <2> HIDE DEF q
  <2> QED BY <1>1, <1>5, <1>6, OfilesOnly
<1> HIDE DEF n
<1>8. /\ At(r, q, {}) /\ (Ok(r) <=> Ok(n)) /\ r.ofiles = n.ofiles /\ r.cwd = n.cwd
      /\ r.disk = n.disk /\ r.icache = n.icache
  <2> HIDE DEF q
  <2> QED BY <1>1, <1>7, RetOnly
<1> HIDE DEF r
<1>9. r.ofiles = g /\ r.cwd = k.cwd
  BY <1>7, <1>8
<1> HIDE DEF g
<1>10. Rests(r, Owes(r.ofiles, e), {})
  BY <1>8, <1>9 DEF Rests
<1>11. Ok(r) => Ok(k) /\ Keeps(k, r, q)
  BY <1>5, <1>7, <1>8 DEF Step, Keeps, KeepsSlot
<1>12. ASSUME NEW t \in Islots, StaysOpen(k, r, t) PROVE q[t] > 0
  <2>1. c[t] > 0 \/ k.cwd = t
    BY <1>9, <1>12, HolderOwed DEF StaysOpen
  <2>2. c \in Owed
    BY OwesType
  <2> HIDE DEF c
  <2> QED BY <2>1, <2>2, MoreFacts
<1> HIDE DEF q
<1>13. CallDone(k, r, e)
  BY <1>9, <1>10, <1>11, <1>12, DoneOnFds
<1> QED BY <1>2, <1>13

\* A call that locks an inode it has open, and perhaps saves it.
LEMMA Using ==
  ASSUME NEW k, NEW e \in [Islots -> Nat], Settled(k, e),
         NEW p \in Procs, NEW f \in Fds, k.ofiles[p][f] # NULL, NEW save \in BOOLEAN,
         NEW r,
         r = LET s == k.ofiles[p][f]
                 l == ilock(k, s)
             IN iunlock(IF save THEN iupdate(l, s) ELSE l, s)
  PROVE  CallDone(k, r, e)
<1> DEFINE b == Owes(k.ofiles, e)
           q == More(b, k.cwd)
           s == k.ofiles[p][f]
           none == {}
           l == ilock(k, s)
           m == IF save THEN iupdate(l, s) ELSE l
           u == iunlock(m, s)
<1>1. r = u
  OBVIOUS
<1>2. s \in Islots
  BY DEF Settled, Rests, At, Safe, KernelType, SlotOrNull
<1>3. b \in Owed /\ b[s] > 0
  BY <1>2, OwesType, HolderOwed
<1>4. /\ q \in Owed /\ q[s] > 0 /\ At(k, q, none)
      /\ s \notin none /\ s \in none \cup {s} /\ (none \cup {s}) \ {s} = none
  <2>1. At(k, q, none)
    BY DEF Settled, Rests
  <2>2. s \notin none /\ s \in none \cup {s} /\ (none \cup {s}) \ {s} = none
    OBVIOUS
  <2> HIDE DEF b, none, s
  <2>3. q \in Owed /\ q[s] > 0
    BY <1>2, <1>3, MoreFacts
  <2> QED BY <2>1, <2>2, <2>3
<1> HIDE DEF s, q, none
<1> DEFINE one == none \cup {s}
<1>5. /\ At(l, q, one) /\ Step(k, l, q)
      /\ Ok(l) => l.icache[s].valid = TRUE
  BY <1>2, <1>4, Ilock
<1> HIDE DEF l, one
<1>6. At(m, q, one) /\ Step(l, m, q)
  <2>1. CASE save
    <3>1. m = iupdate(l, s)
      BY <2>1
    <3> HIDE DEF m
    <3> QED BY <1>2, <1>4, <1>5, <3>1, Update
  <2>2. CASE ~save
    BY <1>5, <2>2, StepRefl
  <2> QED BY <2>1, <2>2
<1> HIDE DEF m
<1>7. s \in one /\ one \ {s} = none
  BY <1>4 DEF one
<1>8. At(u, q, one \ {s}) /\ Step(m, u, q)
  BY <1>4, <1>6, <1>7, Iunlock
<1> HIDE DEF u
<1>9. Step(k, m, q)
  BY <1>5, <1>6, StepTrans
<1>10. Step(k, u, q)
  BY <1>8, <1>9, StepTrans
<1>11. Rests(u, b, {}) /\ NStep(k, u, b)
  <2> HIDE DEF b
  <2> QED BY <1>3, <1>7, <1>8, <1>10, RestsAgain DEF q, none
<1> QED BY <1>1, <1>11, DoneOnNames

\* The descriptor f comes to hold s, which is held already.
LEMMA Sharing ==
  ASSUME NEW m, NEW e \in [Islots -> Nat], NEW p \in Procs, NEW f \in Fds,
         NEW s \in Islots,
         NEW c, c = Owes(WithFd(m.ofiles, p, f, NULL), e),
         At(m, More(c, m.cwd), {}), c[s] > 0
  PROVE  LET r == idup(SetFd(m, p, f, s), s) IN
         /\ Rests(r, Owes(r.ofiles, e), {}) /\ r.cwd = m.cwd
         /\ r.ofiles = WithFd(m.ofiles, p, f, s)
         /\ Ok(r) => Ok(m) /\ Keeps(m, r, More(c, m.cwd))
<1> DEFINE g == WithFd(m.ofiles, p, f, s)
           h == WithFd(m.ofiles, p, f, NULL)
           d == Owes(g, e)
           q == More(c, m.cwd)
           n == SetFd(m, p, f, s)
           r == idup(n, s)
<1>1. m.ofiles \in FilesType /\ NULL \in SlotOrNull /\ s \in SlotOrNull
  BY DEF At, Safe, KernelType, FilesType, SlotOrNull
<1>2. /\ h \in FilesType /\ g \in FilesType /\ h[p][f] = NULL
      /\ WithFd(h, p, f, s) = g
  <2>1. h \in FilesType /\ g \in FilesType /\ h[p][f] = NULL
    BY <1>1, WithFdType
  <2>2. WithFd(h, p, f, s) \in FilesType
    BY <1>1, <2>1, WithFdType
  <2>3. \A i \in Procs, j \in Fds : WithFd(h, p, f, s)[i][j] = g[i][j]
    BY <1>1, <2>1, WithFdType
  <2> DEFINE x == WithFd(h, p, f, s)
  <2> HIDE DEF x, g, h
  <2>4. x \in FilesType /\ \A i \in Procs, j \in Fds : x[i][j] = g[i][j]
    BY <2>2, <2>3 DEF x
  <2>5. \A i \in Procs : x[i] = g[i]
    <3> SUFFICES ASSUME NEW i \in Procs PROVE x[i] = g[i]
      OBVIOUS
    <3>1. x[i] \in [Fds -> SlotOrNull] /\ g[i] \in [Fds -> SlotOrNull]
      BY <2>1, <2>4 DEF FilesType
    <3> QED BY <2>4, <3>1
  <2>6. x = g
    BY <2>1, <2>4, <2>5 DEF FilesType
  <2> QED BY <2>1, <2>6 DEF x
<1>3. c \in Owed /\ d \in Owed /\ d = More(c, s)
  <2>1. More(d, NULL) = More(Owes(h, e), s)
    BY <1>1, <1>2, SetFdOwes
  <2>2. d \in Owed /\ Owes(h, e) \in Owed
    BY OwesType
  <2> HIDE DEF d
  <2> QED BY <2>1, <2>2, MoreFacts
<1> HIDE DEF d
<1>4. More(q, s) = More(d, m.cwd) /\ q[s] > 0 /\ q \in Owed
  BY <1>3, MoreFacts
<1>5. At(m, q, {})
  OBVIOUS
<1> HIDE DEF q
<1>6. /\ At(n, q, {}) /\ (Ok(n) <=> Ok(m)) /\ Keeps(m, n, q)
      /\ n.ofiles = g /\ n.cwd = m.cwd
  BY <1>1, <1>5, OfilesOnly
<1> HIDE DEF n
<1>7. At(r, More(q, s), {}) /\ Step(n, r, q)
  BY <1>4, <1>6, Idup
<1> HIDE DEF r, g
<1>8. r.ofiles = g /\ r.cwd = m.cwd
  BY <1>6, <1>7 DEF Step
<1>9. Rests(r, Owes(r.ofiles, e), {})
  BY <1>4, <1>7, <1>8 DEF Rests, d
<1>10. Ok(r) => Ok(m) /\ Keeps(m, r, q)
  BY <1>6, <1>7 DEF Step, Keeps, KeepsSlot
<1> QED BY <1>8, <1>9, <1>10 DEF r, n, g, q

\* What is open before and after f has got s is owed before, without f.
LEMMA StillOwed ==
  ASSUME NEW k, NEW r, NEW e \in [Islots -> Nat], k.ofiles \in FilesType,
         NEW p \in Procs, NEW old \in Fds, NEW f \in Fds, old # f,
         r.ofiles = WithFd(k.ofiles, p, f, k.ofiles[p][old]),
         NEW t \in Islots, StaysOpen(k, r, t)
  PROVE  More(Owes(WithFd(k.ofiles, p, f, NULL), e), k.cwd)[t] > 0
<1> DEFINE h == WithFd(k.ofiles, p, f, NULL)
           c == Owes(h, e)
           s == k.ofiles[p][old]
<1>1. NULL \in SlotOrNull /\ s \in SlotOrNull
  BY DEF SlotOrNull, FilesType
<1>2. c \in Owed
  BY OwesType
<1>3. CASE k.cwd = t
  <2> HIDE DEF c
  <2>1. More(c, k.cwd)[t] > 0
    BY <1>2, <1>3, MoreFacts
  <2> QED BY <2>1 DEF c
<1>4. CASE \E i \in Procs, j \in Fds : k.ofiles[i][j] = t /\ r.ofiles[i][j] = t
  <2>1. PICK i \in Procs, j \in Fds : k.ofiles[i][j] = t /\ r.ofiles[i][j] = t
    BY <1>4
  <2>2. \E i2 \in Procs, j2 \in Fds : h[i2][j2] = t
    <3>1. CASE i = p /\ j = f
      <4>1. r.ofiles[i][j] = s
        BY <1>1, <3>1, WithFdType
      <4>2. h[p][old] = k.ofiles[p][old]
        BY <1>1, WithFdType
      <4> QED BY <2>1, <4>1, <4>2
    <3>2. CASE ~(i = p /\ j = f)
      <4>1. h[i][j] = k.ofiles[i][j]
        BY <1>1, <3>2, WithFdType
      <4> QED BY <2>1, <4>1
    <3> QED BY <3>1, <3>2
  <2> HIDE DEF h
  <2>3. c[t] > 0
    BY <2>2, HolderOwed
  <2> HIDE DEF c
  <2>4. More(c, k.cwd)[t] > 0
    BY <1>2, <2>3, MoreFacts
  <2> QED BY <2>4 DEF c, h
<1> QED BY <1>3, <1>4 DEF StaysOpen

-----------------------------------------------------------------------------
(* dup and dup2, chdir. *)

\* A call that does nothing.
LEMMA ReturnDone ==
  ASSUME NEW k, NEW e \in [Islots -> Nat], Settled(k, e), NEW v \in Int
  PROVE  CallDone(k, Return(k, v), e)
<1> DEFINE b == Owes(k.ofiles, e)
<1>1. b \in Owed /\ Rests(k, b, {})
  BY OwesType DEF Settled
<1>2. Rests(Return(k, v), b, {}) /\ NStep(k, Return(k, v), b)
  <2> HIDE DEF b
  <2> QED BY <1>1, Ending
<1> QED BY <1>2, DoneOnNames

\* dup leaves one reference more, in the descriptor it returns, or none.
LEMMA Duping ==
  ASSUME NEW k, NEW e \in [Islots -> Nat], Settled(k, e), Ok(k),
         NEW p \in Procs, NEW old \in Fds, k.ofiles[p][old] # NULL
  PROVE  CallDone(k, Dup(k, p, old), e)
<1> DEFINE s == k.ofiles[p][old]
           n == Min(FreeFds(k, p))
           c == Owes(WithFd(k.ofiles, p, n, NULL), e)
           r == idup(SetFd(k, p, n, s), s)
<1>1. Dup(k, p, old) = IF FreeFds(k, p) = {} THEN Return(k, -1) ELSE r
  BY DEF Dup
<1>2. CASE FreeFds(k, p) = {}
  <2>1. -1 \in Int
    OBVIOUS
  <2> QED BY <1>1, <1>2, <2>1, ReturnDone
<1>3. CASE FreeFds(k, p) # {}
  <2>1. n \in FreeFds(k, p)
    <3>1. FreeFds(k, p) \subseteq Nat
      BY FileSystemAssumption DEF FreeFds
    <3> QED BY <1>3, <3>1, MinIn
  <2> HIDE DEF n
  <2>2. n \in Fds /\ k.ofiles[p][n] = NULL /\ old # n
    BY <2>1, FileSystemAssumption DEF FreeFds, Fds
  <2>3. /\ k.ofiles \in FilesType /\ NULL \in SlotOrNull /\ s \in Islots
    BY DEF Settled, Rests, At, Safe, KernelType, FilesType, SlotOrNull
  <2>4. WithFd(k.ofiles, p, n, NULL) = k.ofiles
    BY <2>2, <2>3 DEF WithFd, FilesType
  <2>5. At(k, More(c, k.cwd), {}) /\ c[s] > 0
    BY <2>3, <2>4, HolderOwed DEF Settled, Rests
  <2> HIDE DEF c
  <2>6. /\ Rests(r, Owes(r.ofiles, e), {}) /\ r.cwd = k.cwd
        /\ r.ofiles = WithFd(k.ofiles, p, n, s)
        /\ Ok(r) => Ok(k) /\ Keeps(k, r, More(c, k.cwd))
    BY <2>2, <2>3, <2>5, Sharing DEF c
  <2> HIDE DEF r
  <2>7. \A t \in Islots : StaysOpen(k, r, t) => More(c, k.cwd)[t] > 0
    BY <2>2, <2>3, <2>6, StillOwed DEF c
  <2>8. CallDone(k, r, e)
    BY <2>6, <2>7, DoneOnFds
  <2> QED BY <1>1, <1>3, <2>8
<1> QED BY <1>2, <1>3

\* dup2 gives back the reference of the descriptor it replaces.
LEMMA Duping2 ==
  ASSUME NEW k, NEW e \in [Islots -> Nat], Settled(k, e), Ok(k),
         NEW p \in Procs, NEW old \in Fds, NEW new \in Fds, k.ofiles[p][old] # NULL
  PROVE  CallDone(k, Dup2(k, p, old, new), e)
<1> DEFINE s == k.ofiles[p][old]
           x == k.ofiles[p][new]
           h == WithFd(k.ofiles, p, new, NULL)
           c == Owes(h, e)
           q == More(c, k.cwd)
           m == IF x # NULL THEN iput(k, x) ELSE k
           r == idup(SetFd(m, p, new, s), s)
<1>1. Dup2(k, p, old, new) = IF old = new THEN Return(k, new) ELSE r
  BY DEF Dup2
<1> HIDE DEF r
<1>2. CASE old = new
  <2>1. new \in Int
    BY DEF Fds
  <2> QED BY <1>1, <1>2, <2>1, ReturnDone
<1>3. CASE old # new
  <2>1. /\ k.ofiles \in FilesType /\ NULL \in SlotOrNull /\ s \in Islots
        /\ x \in SlotOrNull
    BY DEF Settled, Rests, At, Safe, KernelType, FilesType, SlotOrNull
  <2>2. h[p][old] = s
    BY <1>3, <2>1, WithFdType
  <2> HIDE DEF h
  <2>3. c \in Owed /\ c[s] > 0
    BY <2>1, <2>2, OwesType, HolderOwed
  <2>4. More(c, x) = Owes(k.ofiles, e)
    <3>1. More(c, x) = More(Owes(k.ofiles, e), NULL)
      BY <2>1, SetFdOwes DEF h
    <3>2. Owes(k.ofiles, e) \in Owed
      BY OwesType
    <3> HIDE DEF c, x
    <3> QED BY <3>1, <3>2, MoreFacts
  <2> HIDE DEF x, c
  <2>5. q \in Owed /\ At(k, More(q, x), {})
    <3>1. At(k, More(More(c, x), k.cwd), {})
      BY <2>4 DEF Settled, Rests
    <3> QED BY <2>3, <3>1, MoreFacts
  <2> HIDE DEF q
  <2>6. At(m, q, {}) /\ Step(k, m, q)
    <3>1. CASE x = NULL
      <4>1. More(q, x) = q
        BY <2>5, <3>1, MoreFacts
      <4> QED BY <2>5, <3>1, <4>1, StepRefl
    <3>2. CASE x # NULL
      <4>1. x \in Islots /\ x \notin {} /\ m = iput(k, x)
        BY <2>1, <3>2 DEF SlotOrNull
      <4> HIDE DEF m
      <4> QED BY <2>5, <4>1, Iput
    <3> QED BY <3>1, <3>2
  <2> HIDE DEF m, s
  <2>7. m.ofiles = k.ofiles /\ m.cwd = k.cwd
    BY <2>6 DEF Step
  <2>8. /\ Rests(r, Owes(r.ofiles, e), {}) /\ r.cwd = m.cwd
        /\ r.ofiles = WithFd(m.ofiles, p, new, s)
        /\ Ok(r) => Ok(m) /\ Keeps(m, r, More(c, m.cwd))
    <3>1. c = Owes(WithFd(m.ofiles, p, new, NULL), e)
      BY <2>7 DEF c, h
    <3>2. At(m, More(c, m.cwd), {})
      BY <2>6, <2>7 DEF q
    <3> QED BY <2>1, <2>3, <3>1, <3>2, Sharing DEF r
  <2>9. r.cwd = k.cwd /\ r.ofiles = WithFd(k.ofiles, p, new, k.ofiles[p][old])
    BY <2>7, <2>8 DEF s
  <2>10. Ok(r) => Ok(k) /\ Keeps(k, r, q)
    BY <2>6, <2>7, <2>8 DEF q, Step, Keeps, KeepsSlot
  <2>11. \A t \in Islots : StaysOpen(k, r, t) => q[t] > 0
    BY <1>3, <2>1, <2>9, StillOwed DEF q, c, h
  <2>12. CallDone(k, r, e)
    BY <2>8, <2>9, <2>10, <2>11, DoneOnFds
  <2> QED BY <1>1, <1>3, <2>12
<1> QED BY <1>2, <1>3

\* The new current directory is held, and the old one is put back.
LEMMA EnteringDirectory ==
  ASSUME NEW l, NEW b \in Owed, NEW ip \in Islots, Holds(l, b, ip, {ip}), Ok(l),
         l.icache[ip].type = "dir"
  PROVE  LET r == SetCwd(myproc(iunlock(l, ip)), ip) IN
         /\ Rests(r, b, {}) /\ r.ofiles = l.ofiles
         /\ Ok(r) => Keeps(l, r, b) /\ r.cwd = ip /\ KeepsSlot(l, r, ip)
<1> DEFINE d == More(b, ip)
           u == iunlock(IF FALSE THEN iupdate(l, ip) ELSE l, ip)
           m == myproc(u)
           n == iput(m, m.cwd)
           r == SetCwd(m, ip)
<1>1. u = iunlock(l, ip)
  OBVIOUS
<1>2. d \in Owed /\ d[ip] > 0 /\ \A t \in Islots : b[t] > 0 => d[t] > 0
  BY MoreFacts
<1> DEFINE q == More(More(b, l.cwd), ip)
           one == {ip}
<1>3. /\ At(l, q, one) /\ q \in Owed /\ q[ip] > 0 /\ ip \in one /\ one \ {ip} = {}
      /\ \A t \in Islots : b[t] > 0 => q[t] > 0
  BY MoreFacts DEF Holds
<1> HIDE DEF one, u, q
<1>4. At(u, q, one \ {ip}) /\ Step(l, u, q)
  BY <1>1, <1>3, Iunlock
<1>5. u.cwd = l.cwd /\ u.ofiles = l.ofiles
  BY <1>4 DEF Step
<1>6. Rests(u, d, {})
  <2>1. q = More(d, u.cwd)
    BY <1>5, MoreFacts DEF q
  <2> QED BY <1>3, <1>4, <2>1 DEF Rests
<1> HIDE DEF d
<1>7. /\ Rests(m, d, {}) /\ NStep(u, m, d)
      /\ Ok(m) => m.cwd \in Islots
  BY <1>2, <1>6, Myproc
<1> HIDE DEF m
<1>8. r = IF Ok(m) THEN [n EXCEPT !.cwd = ip] ELSE m
  BY DEF SetCwd
<1> HIDE DEF r
<1>9. CASE ~Ok(m)
  <2>1. r = m /\ Safe(m) /\ {} \subseteq Islots /\ m.ofiles = l.ofiles
    BY <1>5, <1>7, <1>8, <1>9 DEF Rests, At, NStep
  <2>2. Rests(r, b, {})
    BY <1>9, <2>1, HaltedAnyway
  <2> QED BY <1>1, <1>9, <2>1, <2>2 DEF r, m
<1>10. CASE Ok(m)
  <2>1. m.cwd \in Islots /\ m.cwd \notin {} /\ At(m, More(d, m.cwd), {})
    BY <1>7, <1>10 DEF Rests
  <2>2. At(n, d, {}) /\ Step(m, n, d)
    BY <1>2, <2>1, Iput
  <2> HIDE DEF n
  <2>3. ip \in SlotOrNull
    BY DEF SlotOrNull
  <2>4. /\ At(r, d, {}) /\ (Ok(r) <=> Ok(n)) /\ Keeps(n, r, d)
        /\ r.cwd = ip /\ r.ofiles = n.ofiles
    BY <1>8, <1>10, <2>2, <2>3, CwdOnly
  <2>5. r.ofiles = l.ofiles
    BY <1>5, <1>7, <2>2, <2>4 DEF Step, NStep
  <2>6. Rests(r, b, {})
    BY <2>4 DEF Rests, d
  <2>7. ASSUME Ok(r), NEW t \in Islots, d[t] > 0, q[t] > 0 PROVE KeepsSlot(l, r, t)
    <3>1. Ok(n) /\ Keeps(l, u, q) /\ Keeps(u, m, More(d, u.cwd)) /\ Keeps(m, n, d)
      BY <1>4, <1>7, <2>2, <2>4, <2>7 DEF Step, NStep
    <3>2. More(d, u.cwd)[t] > 0
      BY <1>2, <2>7, MoreFacts
    <3>3. /\ KeepsSlot(l, u, t) /\ KeepsSlot(u, m, t)
          /\ KeepsSlot(m, n, t) /\ KeepsSlot(n, r, t)
      BY <2>4, <2>7, <3>1, <3>2 DEF Keeps
    <3> QED BY <3>3 DEF KeepsSlot
  <2>8. Ok(r) => Keeps(l, r, b) /\ KeepsSlot(l, r, ip)
    BY <1>2, <1>3, <2>7 DEF Keeps
  <2> QED BY <1>1, <2>4, <2>5, <2>6, <2>8 DEF r, m
<1> QED BY <1>9, <1>10

\* chdir holds the new current directory and puts the old one back.
LEMMA Chdiring ==
  ASSUME NEW k, NEW e \in [Islots -> Nat], Settled(k, e),
         NEW path, path.elems \in Seq(DirNames)
  PROVE  CallDone(k, Chdir(k, path), e)
<1> DEFINE b == Owes(k.ofiles, e)
           a == namei(k, path)
           ip == a.ip
           l == ilock(a, ip)
           r == Chdir(k, path)
<1>1. r = IF ~Ok(a) THEN a
          ELSE IF ip = NULL THEN Return(a, -1)
          ELSE IF ~Ok(l) THEN l
          ELSE IF l.icache[ip].type # "dir" THEN Return(iunlockput(l, ip), -1)
          ELSE SetCwd(myproc(iunlock(l, ip)), ip)
  BY DEF Chdir, EnterDirectory, Inode
<1> HIDE DEF r
<1>2. b \in Owed /\ Rests(k, b, {}) /\ -1 \in Int /\ {} \subseteq Islots
  BY OwesType DEF Settled
<1> HIDE DEF b
<1>3. /\ Holds(a, b, ip, {}) /\ NStep(k, a, b)
      /\ Ok(a) /\ ip # NULL => ip \in Islots
  BY <1>2, NameI
<1> HIDE DEF a
<1>4. CASE ~Ok(a)
  <2>1. r = a /\ Safe(a) /\ a.ofiles = k.ofiles
    BY <1>1, <1>3, <1>4 DEF NStep, Holds, At
  <2>2. Rests(r, b, {}) /\ NStep(k, r, b)
    BY <1>2, <1>4, <2>1, HaltedAnyway
  <2> QED BY <2>2, DoneOnNames DEF b, r
<1>5. CASE Ok(a) /\ ip = NULL
  <2>1. r = Return(a, -1)
    BY <1>1, <1>5
  <2>2. More(More(b, a.cwd), ip) = More(b, a.cwd)
    BY <1>2, <1>5, MoreFacts
  <2>3. Rests(a, b, {})
    BY <1>3, <2>2 DEF Holds, Rests
  <2>4. Rests(r, b, {}) /\ NStep(a, r, b)
    BY <1>2, <2>1, <2>3, Ending
  <2>5. NStep(k, r, b)
    BY <1>2, <1>3, <2>4, NStepTrans
  <2> QED BY <2>4, <2>5, DoneOnNames DEF b, r
<1>6. CASE Ok(a) /\ ip # NULL
  <2>1. ip \in Islots
    BY <1>3, <1>6
  <2> HIDE DEF ip
  <2>2. Holds(l, b, ip, {ip}) /\ NStep(a, l, b)
    BY <1>2, <1>3, <2>1, LockNamed
  <2> HIDE DEF l
  <2>3. NStep(k, l, b)
    BY <1>2, <1>3, <2>2, NStepTrans
  <2>4. CASE ~Ok(l)
    <3>1. r = l /\ Safe(l) /\ l.ofiles = k.ofiles
      BY <1>1, <1>6, <2>2, <2>3, <2>4 DEF NStep, Holds, At
    <3>2. Rests(r, b, {}) /\ NStep(k, r, b)
      BY <1>2, <2>4, <3>1, HaltedAnyway
    <3> QED BY <3>2, DoneOnNames DEF b, r
  <2>5. CASE Ok(l) /\ l.icache[ip].type # "dir"
    <3> DEFINE u == iunlockput(l, ip)
               one == {ip}
    <3>1. r = Return(u, -1)
      BY <1>1, <1>6, <2>5
    <3>2. Holds(l, b, ip, one) /\ ip \in one /\ one \ {ip} = {}
      BY <2>2
    <3> HIDE DEF one
    <3>3. Rests(u, b, one \ {ip}) /\ NStep(l, u, b)
      BY <1>2, <3>2, UnlockAndPutBack
    <3> HIDE DEF u
    <3>4. Rests(u, b, {}) /\ NStep(k, u, b)
      BY <1>2, <2>3, <3>2, <3>3, NStepTrans
    <3>5. Rests(r, b, {}) /\ NStep(u, r, b)
      BY <1>2, <3>1, <3>4, Ending
    <3>6. NStep(k, r, b)
      BY <1>2, <3>4, <3>5, NStepTrans
    <3> QED BY <3>5, <3>6, DoneOnNames DEF b, r
  <2>6. CASE Ok(l) /\ l.icache[ip].type = "dir"
    <3>1. r = SetCwd(myproc(iunlock(l, ip)), ip)
      BY <1>1, <1>6, <2>6
    <3>2. /\ Rests(r, b, {}) /\ r.ofiles = l.ofiles
          /\ Ok(r) => Keeps(l, r, b) /\ r.cwd = ip /\ KeepsSlot(l, r, ip)
      BY <1>2, <2>1, <2>2, <2>6, <3>1, EnteringDirectory
    <3>3. r.ofiles = k.ofiles /\ Ok(k) /\ Keeps(k, l, More(b, k.cwd))
      BY <2>3, <2>6, <3>2 DEF NStep
    <3>4. ASSUME Ok(r), NEW t \in Islots, StaysOpen(k, r, t) PROVE KeepsSlot(k, r, t)
      <4>1. b[t] > 0 \/ (k.cwd = t /\ t = ip)
        BY <3>2, <3>4, HolderOwed DEF StaysOpen, b
      <4>2. More(b, k.cwd)[t] > 0
        BY <1>2, <4>1, MoreFacts
      <4>3. KeepsSlot(k, l, t)
        BY <3>3, <4>2 DEF Keeps
      <4>4. KeepsSlot(l, r, t)
        BY <3>2, <3>4, <4>1 DEF Keeps
      <4> QED BY <4>3, <4>4 DEF KeepsSlot
    <3>5. Settled(r, e)
      BY <3>2, <3>3 DEF Settled, b
    <3> QED BY <3>3, <3>4, <3>5 DEF CallDone, r
  <2> QED BY <2>4, <2>5, <2>6
<1> QED BY <1>4, <1>5, <1>6

-----------------------------------------------------------------------------
(* execve. *)

\* A new process shares the first descriptors of its parent; the references that
\* its slot held are lost.
LEMMA Inheriting ==
  ASSUME NEW k, NEW e \in [Islots -> Nat], NEW d \in [Islots -> Nat],
         Settled(k, e), Ok(k), NEW p \in Procs, NEW q \in Procs,
         \A s \in Islots : d[s] = e[s] + Cardinality(FdsOn(k.ofiles[q], s))
  PROVE  LET r == Inherit(k, p, q) IN
         /\ Settled(r, d) /\ Ok(r) /\ r.cwd = k.cwd
         /\ \A s \in Islots : KeepsSlot(k, r, s)
<1> DEFINE fds == Inherited(k, p)
           c == [s \in Islots |-> [k.icache[s] EXCEPT !.ref = @ + Cardinality(FdsOn(fds, s))]]
           fs == [k.ofiles EXCEPT ![q] = fds]
           b == Owes(k.ofiles, e)
           o == Owes(fs, d)
           r == Inherit(k, p, q)
<1>1. r = [k EXCEPT !.ofiles = fs, !.icache = c]
  BY DEF Inherit
<1>2. /\ k \in KernelType /\ k.ofiles \in FilesType /\ b \in Owed
      /\ RefsAre(k, More(b, k.cwd)) /\ LocksAre(k, {}) /\ SlotsOk(k) /\ Safe(k)
  BY OwesType DEF Settled, Rests, At, Safe, KernelType, FilesType
<1>3. fds \in [Fds -> SlotOrNull]
  <2>1. k.ofiles[p] \in [Fds -> SlotOrNull] /\ NULL \in SlotOrNull
    BY <1>2 DEF FilesType, SlotOrNull
  <2> QED BY <2>1 DEF Inherited
<1>4. fs \in FilesType
  BY <1>2, <1>3 DEF FilesType
<1>5. ASSUME NEW s \in Islots
      PROVE  /\ Cardinality(FdsOn(fds, s)) \in Nat
             /\ FdsOn(fds, s) # {} => b[s] > 0
             /\ FdsOn(fds, s) = {} => Cardinality(FdsOn(fds, s)) = 0
  <2>1. FdsOn(fds, s) \in SUBSET Fds
    BY DEF FdsOn
  <2>2. Cardinality(FdsOn(fds, s)) \in Nat
    BY <2>1, HoldersFinite, FS_Subset, FS_CardinalityType
  <2>3. ASSUME FdsOn(fds, s) # {} PROVE b[s] > 0
    <3>1. PICK f \in Fds : fds[f] = s
      BY <2>3 DEF FdsOn
    <3>2. k.ofiles[p][f] = s
      BY <3>1, Constants DEF Inherited
    <3> QED BY <3>2, HolderOwed
  <2> QED BY <2>2, <2>3, FS_EmptySet
<1> DEFINE n == [s \in Islots |-> Cardinality(FdsOn(fds, s))]
<1>6. \A s \in Islots : n[s] \in Nat /\ (n[s] > 0 => b[s] > 0)
  BY <1>5
<1>7. \A s \in Islots : o[s] = b[s] + n[s]
  <2> HIDE DEF fds
  <2> QED BY <1>2, <1>3, TableOwes
<1>8. \A s \in Islots : c[s] = [k.icache[s] EXCEPT !.ref = k.icache[s].ref + n[s]]
  OBVIOUS
<1>9. c \in [Islots -> SlotType]
  <2> SUFFICES ASSUME NEW s \in Islots PROVE c[s] \in SlotType
    OBVIOUS
  <2>1. k.icache[s] \in SlotType
    BY <1>2 DEF KernelType
  <2> DEFINE v == k.icache[s].ref + n[s]
  <2> HIDE DEF n, c
  <2>2. v \in Int /\ c[s] = [k.icache[s] EXCEPT !.ref = v]
    BY <1>6, <1>8, <2>1 DEF SlotType
  <2> HIDE DEF v
  <2> QED BY <2>1, <2>2 DEF SlotType
<1> HIDE DEF n, c, fds, fs, r
<1>10. /\ r \in KernelType /\ r.ofiles = fs /\ r.icache = c /\ r.disk = k.disk
       /\ r.images = k.images /\ r.cwd = k.cwd /\ r.halted = k.halted
  BY <1>1, <1>2, <1>4, <1>9 DEF KernelType, FilesType
<1>11. ASSUME NEW s \in Islots
       PROVE  /\ r.icache[s].ref = k.icache[s].ref + n[s]
              /\ r.icache[s].locked = k.icache[s].locked
              /\ r.icache[s].inum = k.icache[s].inum
              /\ r.icache[s].valid = k.icache[s].valid
              /\ r.icache[s].type = k.icache[s].type
              /\ r.icache[s].nlink = k.icache[s].nlink
  <2>1. k.icache[s] \in SlotType
    BY <1>2 DEF KernelType
  <2> QED BY <1>6, <1>8, <1>10, <2>1 DEF SlotType
<1>12. o \in Owed
  <2> HIDE DEF o
  <2>1. o = Owes(fs, d)
    BY DEF o
  <2> QED BY <2>1, OwesType
<1> HIDE DEF b, o
<1>13. \A s \in Islots : More(o, r.cwd)[s] = More(b, k.cwd)[s] + n[s]
  BY <1>2, <1>6, <1>7, <1>10 DEF More, Owed
<1>14. RefsAre(r, More(o, r.cwd))
  BY <1>2, <1>11, <1>13 DEF RefsAre
<1>15. LocksAre(r, {})
  BY <1>2, <1>11 DEF LocksAre, LockIs
<1>16. ASSUME NEW s \in Islots, r.icache[s].ref > 0 PROVE k.icache[s].ref > 0
  <2>1. k.icache[s].ref = More(b, k.cwd)[s]
    BY <1>2 DEF RefsAre
  <2>2. k.icache[s].ref \in Nat
    BY <1>2, <2>1, MoreFacts DEF Owed
  <2>3. CASE n[s] > 0
    BY <1>2, <1>6, <2>1, <2>3, MoreFacts
  <2>4. CASE n[s] = 0
    BY <1>11, <1>16, <2>2, <2>4
  <2> QED BY <1>6, <2>3, <2>4
<1>17. SlotsOk(r)
  <2> SUFFICES ASSUME NEW s \in Islots, r.icache[s].ref > 0 PROVE SlotOk(r, s)
    BY DEF SlotsOk
  <2>1. SlotOk(k, s)
    BY <1>2, <1>16 DEF SlotsOk
  <2> QED BY <1>10, <1>11, <1>16, <2>1 DEF SlotOk
<1>18. Safe(r)
  BY <1>2, <1>10 DEF Safe
<1>19. At(r, More(o, r.cwd), {})
  BY <1>12, <1>14, <1>15, <1>17, <1>18, MoreFacts DEF At
<1>20. Settled(r, d)
  BY <1>10, <1>19 DEF Settled, Rests, o
<1>21. \A s \in Islots : KeepsSlot(k, r, s)
  BY <1>10, <1>11 DEF KeepsSlot
<1> QED BY <1>10, <1>20, <1>21 DEF Ok, r

\* unlink, mkdir and the reading of a program leave the descriptors alone.
LEMMA NamesDone ==
  ASSUME NEW k, NEW e \in [Islots -> Nat], Settled(k, e),
         NEW path, path.elems \in Seq(DirNames)
  PROVE  /\ CallDone(k, xv6fs_unlink(k, path), e)
         /\ CallDone(k, Mkdir(k, path), e)
         /\ CallDone(k, ReadProgram(k, path), e)
<1> DEFINE b == Owes(k.ofiles, e)
<1>1. b \in Owed /\ Rests(k, b, {})
  BY OwesType DEF Settled
<1> HIDE DEF b
<1>2. /\ Rests(xv6fs_unlink(k, path), b, {}) /\ NStep(k, xv6fs_unlink(k, path), b)
      /\ Rests(Mkdir(k, path), b, {}) /\ NStep(k, Mkdir(k, path), b)
      /\ Rests(ReadProgram(k, path), b, {}) /\ NStep(k, ReadProgram(k, path), b)
  BY <1>1, Unlinking, Mkdiring, ReadingProgram
<1> QED BY <1>2, DoneOnNames DEF b

\* A program is read, and a process made for it.
LEMMA Spawning ==
  ASSUME NEW k, NEW e \in [Islots -> Nat], NEW d \in [Islots -> Nat],
         Settled(k, e), NEW p \in Procs, NEW q \in Procs,
         \A s \in Islots : d[s] = e[s] + Cardinality(FdsOn(k.ofiles[q], s)),
         NEW path, path.elems \in Seq(DirNames), Ok(ReadProgram(k, path))
  PROVE  CallDone(k, Inherit(ReadProgram(k, path), p, q), d)
<1> DEFINE b == Owes(k.ofiles, e)
           m == ReadProgram(k, path)
           r == Inherit(m, p, q)
<1>1. b \in Owed /\ Rests(k, b, {})
  BY OwesType DEF Settled
<1> HIDE DEF b
<1>2. Rests(m, b, {}) /\ NStep(k, m, b)
  BY <1>1, ReadingProgram
<1>3. Ok(m)
  OBVIOUS
<1> HIDE DEF m
<1>4. m.ofiles = k.ofiles /\ Settled(m, e)
  BY <1>2 DEF NStep, Settled, b
<1>5. /\ Settled(r, d) /\ Ok(r) /\ r.cwd = m.cwd
      /\ \A s \in Islots : KeepsSlot(m, r, s)
  BY <1>3, <1>4, Inheriting
<1> HIDE DEF r
<1>6. CallDone(k, m, e) /\ Ok(k) /\ (k.cwd # NULL => m.cwd = k.cwd)
  BY <1>2, <1>3, DoneOnNames DEF b, NStep
<1>7. ASSUME NEW s \in Islots, StaysOpen(k, r, s) PROVE KeepsSlot(k, r, s)
  <2>1. StaysOpen(k, m, s)
    BY <1>4, <1>6, <1>7, Constants DEF StaysOpen
  <2>2. KeepsSlot(k, m, s)
    BY <1>3, <1>6, <2>1 DEF CallDone
  <2> QED BY <1>5, <2>2 DEF KeepsSlot
<1> QED BY <1>5, <1>6, <1>7 DEF CallDone, r, m

-----------------------------------------------------------------------------
(* The steps of the machine. *)

\* What has been checked of the inode cache holds of what is kept of it.
LEMMA Kept ==
  ASSUME NEW k, NEW e \in [Islots -> Nat], Settled(k, e), Ok(k)
  PROVE  LET c == [s \in Islots |-> LiveFields(k.icache[s])]
             n == [disk |-> k.disk, icache |-> c, ofiles |-> k.ofiles,
                   cwd |-> k.cwd, halted |-> k.halted, ip |-> NULL,
                   ret |-> 0, images |-> {}] IN
         /\ Settled(n, e)
         /\ \A s \in Islots : k.icache[s].ref > 0 => c[s].inum = k.icache[s].inum
<1> DEFINE c == [s \in Islots |-> LiveFields(k.icache[s])]
           n == [disk |-> k.disk, icache |-> c, ofiles |-> k.ofiles,
                 cwd |-> k.cwd, halted |-> k.halted, ip |-> NULL,
                 ret |-> 0, images |-> {}]
           o == More(Owes(k.ofiles, e), k.cwd)
<1>1. /\ k \in KernelType /\ DiskOk(k.disk) /\ o \in Owed
      /\ RefsAre(k, o) /\ LocksAre(k, {}) /\ SlotsOk(k)
  BY DEF Settled, Rests, At, Safe
<1>2. \A s \in Islots : c[s] = LiveFields(k.icache[s])
  OBVIOUS
<1>3. ASSUME NEW s \in Islots
      PROVE  /\ c[s] \in SlotType /\ c[s].ref = k.icache[s].ref
             /\ c[s].locked = FALSE
             /\ k.icache[s].ref > 0 => /\ c[s].inum = k.icache[s].inum
                                       /\ c[s].valid = k.icache[s].valid
             /\ k.icache[s].ref > 0 /\ c[s].valid = TRUE => c[s] = k.icache[s]
  <2>1. k.icache[s] \in SlotType /\ k.icache[s].locked = FALSE
    BY <1>1 DEF KernelType, LocksAre, LockIs
  <2>2. CASE k.icache[s].ref = 0
    <3>1. c[s] = EmptySlot
      BY <1>2, <2>2 DEF LiveFields
    <3> HIDE DEF c
    <3> QED BY <2>2, <3>1, Constants DEF SlotType, EmptySlot, FileTypes
  <2>3. CASE k.icache[s].ref # 0 /\ k.icache[s].valid
    <3>1. c[s] = k.icache[s]
      BY <1>2, <2>3 DEF LiveFields
    <3> HIDE DEF c
    <3> QED BY <2>1, <2>3, <3>1
  <2>4. CASE k.icache[s].ref # 0 /\ ~k.icache[s].valid
    <3>1. c[s] = [k.icache[s] EXCEPT !.type = "free", !.nlink = 0]
      BY <1>2, <2>4 DEF LiveFields
    <3> DEFINE x == k.icache[s]
               y == [x EXCEPT !.type = "free"]
    <3>2. x \in SlotType /\ c[s] = [y EXCEPT !.nlink = 0]
      BY <2>1, <3>1
    <3>3. x.locked = FALSE /\ x.ref # 0 /\ x.valid = FALSE
      BY <2>1, <2>4 DEF SlotType
    <3> HIDE DEF c, x
    <3>4. /\ y \in SlotType /\ y.ref = x.ref /\ y.locked = x.locked
          /\ y.inum = x.inum /\ y.valid = x.valid
      BY <3>2 DEF SlotType, FileTypes
    <3> HIDE DEF y
    <3>5. /\ c[s] \in SlotType /\ c[s].ref = x.ref /\ c[s].locked = x.locked
          /\ c[s].inum = x.inum /\ c[s].valid = x.valid
      BY <3>2, <3>4 DEF SlotType
    <3> QED BY <3>3, <3>5 DEF x
  <2> QED BY <2>2, <2>3, <2>4
<1>4. c \in [Islots -> SlotType]
  BY <1>3
<1> HIDE DEF c
<1>5. n \in KernelType
  BY <1>1, <1>4, Constants DEF KernelType, SlotOrNull
<1>6. /\ n.disk = k.disk /\ n.icache = c /\ n.ofiles = k.ofiles /\ n.cwd = k.cwd
      /\ n.halted = k.halted /\ n.images = {}
  OBVIOUS
<1> HIDE DEF n, o
<1>7. Safe(n)
  BY <1>1, <1>5, <1>6 DEF Safe
<1>8. RefsAre(n, o) /\ LocksAre(n, {})
  BY <1>1, <1>3, <1>6 DEF RefsAre, LocksAre, LockIs
<1>9. SlotsOk(n)
  <2> SUFFICES ASSUME NEW s \in Islots, n.icache[s].ref > 0 PROVE SlotOk(n, s)
    BY DEF SlotsOk
  <2>1. k.icache[s].ref > 0 /\ SlotOk(k, s)
    BY <1>1, <1>3, <1>6 DEF SlotsOk
  <2>2. c[s].valid = TRUE => c[s] = k.icache[s]
    BY <1>3, <2>1
  <2>3. \A t \in Islots : c[t].ref > 0 => k.icache[t].ref > 0 /\ c[t].inum = k.icache[t].inum
    BY <1>3
  <2>4. c[s].inum = k.icache[s].inum
    BY <1>3, <2>1
  <2> QED BY <1>6, <2>1, <2>2, <2>3, <2>4 DEF SlotOk
<1>10. At(n, o, {})
  BY <1>1, <1>7, <1>8, <1>9 DEF At
<1>11. Settled(n, e)
  BY <1>6, <1>10 DEF Settled, Rests, o
<1> QED BY <1>3, <1>11 DEF n, c

\* After a power failure, or a panic, only the disk matters.
LEMMA MachineStops ==
  ASSUME disk' \in DiskType, DiskOk(disk)', icache' = EmptyCache,
         ofiles' = NoFiles, cwd' = NULL, lost' = NoneLost,
         halted' \in Allowed \cup {"off"}, halted' # "no"
  PROVE  Inv' /\ OpenSlotsKept
<1>1. EmptyCache \in [Islots -> SlotType]
  BY Constants DEF EmptyCache, EmptySlot, SlotType, FileTypes
<1>2. NoFiles \in FilesType /\ NULL \in SlotOrNull /\ NoneLost \in [Islots -> Nat]
  BY DEF NoFiles, FilesType, SlotOrNull, NoneLost
<1> QED BY <1>1, <1>2 DEF Inv, OpenSlotsKept

\* The kernel state r is what the variables are set to.
LEMMA Finished ==
  ASSUME NEW r, NEW e \in [Islots -> Nat], Settled(r, e), Ok(r), Finishes(r),
         lost' = e
  PROVE  /\ Inv'
         /\ \A s \in Islots : r.icache[s].ref > 0 => icache'[s].inum = r.icache[s].inum
<1> DEFINE c == [s \in Islots |-> LiveFields(r.icache[s])]
           n == [disk |-> r.disk, icache |-> c, ofiles |-> r.ofiles,
                 cwd |-> r.cwd, halted |-> r.halted, ip |-> NULL,
                 ret |-> 0, images |-> {}]
<1>1. /\ Settled(n, e)
      /\ \A s \in Islots : r.icache[s].ref > 0 => c[s].inum = r.icache[s].inum
  BY Kept
<1>2. /\ disk' = r.disk /\ halted' = r.halted /\ icache' = c
      /\ ofiles' = r.ofiles /\ cwd' = r.cwd /\ halted' = "no"
  BY DEF Finishes, Ok
<1> HIDE DEF c
<1>3. Kernel' = n
  BY <1>2 DEF Kernel
<1>4. n \in KernelType /\ DiskOk(n.disk)
  BY <1>1 DEF Settled, Rests, At, Safe
<1>5. /\ n.disk = disk' /\ n.icache = icache' /\ n.ofiles = ofiles' /\ n.cwd = cwd'
  BY <1>2
<1> HIDE DEF n
<1>6. /\ disk' \in DiskType /\ DiskOk(disk)' /\ icache' \in [Islots -> SlotType]
      /\ ofiles' \in FilesType /\ cwd' \in SlotOrNull
  BY <1>4, <1>5 DEF KernelType, FilesType, DiskOk
<1>7. Settled(Kernel, lost)'
  <2>1. Settled(Kernel', lost')
    BY <1>1, <1>3
  <2> QED BY <2>1
<1>8. Inv'
  BY <1>2, <1>6, <1>7 DEF Inv, Allowed
<1> QED BY <1>1, <1>2, <1>8

\* A call that ends in the kernel state r.
LEMMA Finishing ==
  ASSUME Inv, halted = "no", NEW r, NEW e \in [Islots -> Nat],
         CallDone(Kernel, r, e), Ok(r), Finishes(r), lost' = e
  PROVE  Inv' /\ OpenSlotsKept
<1>1. Settled(r, e)
  BY DEF CallDone
<1>2. /\ Inv'
      /\ \A s \in Islots : r.icache[s].ref > 0 => icache'[s].inum = r.icache[s].inum
  BY <1>1, Finished
<1>3. disk' = r.disk /\ ofiles' = r.ofiles /\ cwd' = r.cwd
  BY DEF Finishes
<1>4. OpenSlotsKept
  <2> SUFFICES ASSUME NEW s \in Islots,
                      \/ cwd = s /\ cwd' = s
                      \/ \E p \in Procs, f \in Fds : ofiles[p][f] = s /\ ofiles'[p][f] = s
               PROVE  /\ icache'[s].inum = icache[s].inum
                      /\ disk[icache[s].inum].type # "free" =>
                           disk'[icache[s].inum].type = disk[icache[s].inum].type
    BY DEF OpenSlotsKept
  <2>1. StaysOpen(Kernel, r, s)
    BY <1>3 DEF StaysOpen, Kernel
  <2>2. KeepsSlot(Kernel, r, s)
    BY <2>1 DEF CallDone
  <2>3. r.icache[s].ref > 0
    <3> DEFINE b == Owes(r.ofiles, e)
    <3>1. b \in Owed
      BY OwesType
    <3>2. b[s] > 0 \/ r.cwd = s
      BY <2>1, HolderOwed DEF StaysOpen
    <3>3. r.icache[s].ref = More(b, r.cwd)[s]
      BY <1>1 DEF Settled, Rests, At, RefsAre
    <3> HIDE DEF b
    <3> QED BY <3>1, <3>2, <3>3, MoreFacts
  <2>4. icache'[s].inum = r.icache[s].inum
    BY <1>2, <2>3
  <2> QED BY <1>3, <2>2, <2>4 DEF KeepsSlot, Kernel
<1> QED BY <1>2, <1>4

\* The power fails during a call, or between two.
LEMMA PoweringOff ==
  ASSUME NEW k, k.images \subseteq DiskType, \A d \in k.images : DiskOk(d),
         PowerFails(k)
  PROVE  Inv' /\ OpenSlotsKept
<1>1. disk' \in DiskType /\ DiskOk(disk')
  BY DEF PowerFails
<1>2. DiskOk(disk)'
  BY <1>1 DEF DiskOk
<1> QED BY <1>1, <1>2, MachineStops DEF PowerFails

\* Every outcome of a call that started in a settled state.
LEMMA Calling ==
  ASSUME Inv, halted = "no", NEW r, CallDone(Kernel, r, lost), Call(r)
  PROVE  Inv' /\ OpenSlotsKept
<1>1. Safe(r) /\ lost \in [Islots -> Nat]
  BY DEF CallDone, Settled, Rests, At, Inv
<1>2. r \in KernelType /\ DiskOk(r.disk)
  BY <1>1 DEF Safe
<1>3. CASE Finishes(r) /\ Ok(r) /\ UNCHANGED <<alive, lost>>
  BY <1>1, <1>3, Finishing
<1>4. CASE Finishes(r) /\ ~Ok(r) /\ alive' = {} /\ lost' = NoneLost
  <2>1. /\ disk' = r.disk /\ halted' = r.halted
        /\ icache' = EmptyCache /\ ofiles' = NoFiles /\ cwd' = NULL
    BY <1>4 DEF Finishes
  <2>2. disk' \in DiskType /\ halted' \in Allowed /\ halted' # "no"
    BY <1>2, <1>4, <2>1 DEF KernelType, Ok
  <2>3. DiskOk(disk)'
    BY <1>2, <2>1 DEF DiskOk
  <2> QED BY <1>4, <2>1, <2>2, <2>3, MachineStops
<1>5. CASE PowerFails(r)
  <2>1. r.images \subseteq DiskType /\ \A d \in r.images : DiskOk(d)
    BY <1>1, <1>2 DEF Safe, KernelType
  <2> QED BY <1>5, <2>1, PoweringOff
<1> QED BY <1>3, <1>4, <1>5 DEF Call

\* A machine that has been switched on holds nothing.
LEMMA PoweredOnSettled ==
  ASSUME Inv
  PROVE  Settled(PoweredOn, NoneLost)
<1> DEFINE k == [disk |-> disk, icache |-> EmptyCache, ofiles |-> NoFiles,
                 cwd |-> NULL, halted |-> "no", ip |-> NULL, ret |-> 0,
                 images |-> {}]
           b == Owes(NoFiles, NoneLost)
<1>1. PoweredOn = k
  BY DEF PoweredOn
<1>2. /\ EmptyCache \in [Islots -> SlotType]
      /\ \A s \in Islots : EmptyCache[s].ref = 0 /\ EmptyCache[s].locked = FALSE
  BY Constants DEF EmptyCache, EmptySlot, SlotType, FileTypes
<1>3. NoFiles \in FilesType /\ NULL \in SlotOrNull /\ NoneLost \in [Islots -> Nat]
  BY DEF NoFiles, FilesType, SlotOrNull, NoneLost
<1>4. b \in Owed
  BY <1>3, OwesType
<1>5. \A s \in Islots : b[s] = 0
  <2> SUFFICES ASSUME NEW s \in Islots PROVE b[s] = 0
    OBVIOUS
  <2>1. HeldIn(NoFiles, s) = {}
    BY Constants DEF HeldIn, NoFiles
  <2> QED BY <2>1, FS_EmptySet DEF Owes, NoneLost
<1>6. k \in KernelType
  <2>1. disk \in DiskType
    BY DEF Inv
  <2>2. "no" \in Allowed
    BY DEF Allowed
  <2>3. NoFiles \in [Procs -> [Fds -> SlotOrNull]]
    BY <1>3 DEF FilesType
  <2> QED BY <1>2, <1>3, <2>1, <2>2, <2>3 DEF KernelType
<1>7. /\ k.disk = disk /\ k.icache = EmptyCache /\ k.ofiles = NoFiles
      /\ k.cwd = NULL /\ k.images = {}
  OBVIOUS
<1> HIDE DEF k, b
<1>8. Safe(k)
  BY <1>6, <1>7 DEF Safe, Inv
<1>9. More(b, k.cwd) = b
  BY <1>4, <1>7, MoreFacts
<1>10. RefsAre(k, b) /\ LocksAre(k, {}) /\ SlotsOk(k)
  BY <1>2, <1>5, <1>7 DEF RefsAre, LocksAre, LockIs, SlotsOk
<1>11. At(k, More(b, k.cwd), {})
  BY <1>4, <1>8, <1>9, <1>10 DEF At
<1> QED BY <1>1, <1>7, <1>11 DEF Settled, Rests, b

\* boot calls mkdir and reads a file before anything is held.
LEMMA Booting ==
  ASSUME Inv, boot
  PROVE  Inv' /\ OpenSlotsKept
<1> DEFINE k == PoweredOn
           m == Mkdir(k, Absolute(MkfsDir))
           r == ReadProgram(m, Absolute(Readme))
<1>1. Settled(k, NoneLost) /\ NoneLost \in [Islots -> Nat]
  BY PoweredOnSettled DEF NoneLost
<1>2. /\ Absolute(MkfsDir).elems \in Seq(DirNames)
      /\ Absolute(Readme).elems \in Seq(DirNames)
  BY FileSystemAssumption DEF Absolute, DirNames
<1> HIDE DEF k
<1>3. Settled(m, NoneLost)
  BY <1>1, <1>2, NamesDone DEF CallDone
<1> HIDE DEF m
<1>4. Settled(r, NoneLost)
  BY <1>1, <1>2, <1>3, NamesDone DEF CallDone
<1>5. halted # "no" /\ Booted(r)
  BY DEF boot, r, m, k
<1> HIDE DEF r
<1>6. Safe(r) /\ r \in KernelType
  BY <1>4 DEF Settled, Rests, At, Safe
<1>7. OpenSlotsKept
  BY <1>5 DEF OpenSlotsKept
<1>8. CASE Finishes(r) /\ Ok(r) /\ lost' = NoneLost
  BY <1>1, <1>4, <1>7, <1>8, Finished
<1>9. CASE Finishes(r) /\ ~Ok(r) /\ lost' = NoneLost
  <2>1. /\ disk' = r.disk /\ halted' = r.halted
        /\ icache' = EmptyCache /\ ofiles' = NoFiles /\ cwd' = NULL
    BY <1>9 DEF Finishes
  <2>2. disk' \in DiskType /\ halted' \in Allowed /\ halted' # "no"
    BY <1>6, <1>9, <2>1 DEF KernelType, Ok
  <2>3. DiskOk(disk)'
    BY <1>6, <2>1 DEF Safe, DiskOk
  <2> QED BY <1>9, <2>1, <2>2, <2>3, MachineStops
<1>10. CASE PowerFails(r)
  <2>1. r.images \subseteq DiskType /\ \A d \in r.images : DiskOk(d)
    BY <1>6 DEF Safe, KernelType
  <2> QED BY <1>10, <2>1, PoweringOff
<1> QED BY <1>5, <1>8, <1>9, <1>10 DEF Booted

\* A process exits, and its slot is used again: what it held is lost.
LEMMA LostType ==
  ASSUME NEW fs, NEW q, NEW e \in [Islots -> Nat]
  PROVE  [s \in Islots |-> e[s] + Cardinality(FdsOn(fs[q], s))] \in [Islots -> Nat]
<1>1. ASSUME NEW s \in Islots PROVE Cardinality(FdsOn(fs[q], s)) \in Nat
  <2>1. FdsOn(fs[q], s) \in SUBSET Fds
    BY DEF FdsOn
  <2> QED BY <2>1, HoldersFinite, FS_Subset, FS_CardinalityType
<1> QED BY <1>1

\* The disk as mkfs left it: the root, an empty directory and a file, which have
\* a name each, unless it is the same, when the directory has none.
LEMMA Mkfs == MkfsImage \in DiskType /\ DiskOk(MkfsImage)
<1> DEFINE Dots(self, up) == [NoEntries EXCEPT !["."] = self, ![".."] = up]
           root == [Dots(1, 1) EXCEPT ![MkfsDir] = 2, ![Readme] = 3]
           Dir(nlink, ents) == [type |-> "dir", nlink |-> nlink, ents |-> ents,
                                head |-> {".", ".."}, emptied |-> FALSE]
           file == [FreeInode EXCEPT !.type = "file", !.nlink = 1]
<1>1. /\ {1, 2, 3} \subseteq 0 .. NINODES /\ 0 \in 0 .. NINODES
      /\ {1, 2, 3} \subseteq Inums
      /\ {MkfsDir, Readme} \subseteq Names /\ Names \subseteq DirNames
      /\ "." \notin Names /\ ".." \notin Names
      /\ "." \in DirNames /\ ".." \in DirNames /\ "." # ".."
  BY FileSystemAssumption DEF DirNames, Inums
<1>2. ASSUME NEW self \in 0 .. NINODES, NEW up \in 0 .. NINODES
      PROVE  /\ Dots(self, up) \in [DirNames -> 0 .. NINODES]
             /\ \A n \in Names : Dots(self, up)[n] = 0
             /\ Dots(self, up)["."] = self /\ Dots(self, up)[".."] = up
  <2>1. NoEntries \in [DirNames -> 0 .. NINODES] /\ \A n \in Names : NoEntries[n] = 0
    BY NoEntriesType
  <2> QED BY <1>1, <2>1
<1>3. /\ root \in [DirNames -> 0 .. NINODES]
      /\ \A n \in Names : root[n] = IF n = Readme THEN 3 ELSE IF n = MkfsDir THEN 2 ELSE 0
  <2> DEFINE d == Dots(1, 1)
  <2>1. d \in [DirNames -> 0 .. NINODES] /\ \A n \in Names : d[n] = 0
    BY <1>1, <1>2
  <2> HIDE DEF d
  <2>2. root = [d EXCEPT ![MkfsDir] = 2, ![Readme] = 3]
    BY DEF d
  <2> HIDE DEF root
  <2> QED BY <1>1, <2>1, <2>2
<1> HIDE DEF root
<1> DEFINE m == MkfsImage
<1>4. \A i \in Inums :
        m[i] =
          CASE i = 1 -> Dir(3, root)
            [] i = 2 -> Dir(2, Dots(2, 1))
            [] i = 3 -> file
            [] OTHER -> FreeInode
  BY DEF MkfsImage, ROOTINO, root
<1>5. m = [i \in Inums |-> m[i]]
  BY DEF MkfsImage
<1>6. /\ NoEntries \in [DirNames -> 0 .. NINODES] /\ \A n \in Names : NoEntries[n] = 0
      /\ Dots(2, 1) \in [DirNames -> 0 .. NINODES] /\ \A n \in Names : Dots(2, 1)[n] = 0
      /\ Dots(2, 1)["."] = 2 /\ Dots(2, 1)[".."] = 1
  BY <1>1, <1>2, NoEntriesType
<1> DEFINE two == Dots(2, 1)
<1> HIDE DEF Dots, m
<1> DEFINE first == Dir(3, root)
           second == Dir(2, two)
<1>6a. /\ m[1] = first /\ m[2] = second /\ m[3] = file
      /\ \A i \in Inums \ {1, 2, 3} : m[i] = FreeInode
  <2>1. first = Dir(3, root) /\ second = Dir(2, two)
    OBVIOUS
  <2> HIDE DEF first, second, file, Dir
  <2> QED BY <1>1, <1>4, <2>1
<1> HIDE DEF two
<1>7. /\ m[1].type = "dir" /\ m[1].nlink = 3 /\ m[1].ents = root
      /\ m[2].type = "dir" /\ m[2].nlink = 2 /\ m[2].ents = two
      /\ m[3].type = "file" /\ m[3].nlink = 1 /\ m[3].ents = NoEntries
      /\ \A i \in Inums \ {1, 2, 3} : /\ m[i].type = "free" /\ m[i].nlink = 0
                                      /\ m[i].ents = NoEntries
  <2>1. first.type = "dir" /\ first.nlink = 3 /\ first.ents = root
    OBVIOUS
  <2>2. second.type = "dir" /\ second.nlink = 2 /\ second.ents = two
    OBVIOUS
  <2>3. FreeInode.type = "free" /\ FreeInode.nlink = 0 /\ FreeInode.ents = NoEntries
    BY DEF FreeInode
  <2>4. file.type = "file" /\ file.nlink = 1 /\ file.ents = NoEntries
    BY DEF FreeInode
  <2> HIDE DEF first, second, file
  <2> QED BY <1>6a, <2>1, <2>2, <2>3, <2>4
<1>8. \A i \in Inums : m[i] \in DiskInode
  <2>1. first \in DiskInode
    BY <1>1, <1>3 DEF DiskInode, FileTypes
  <2>2. second \in DiskInode
    BY <1>1, <1>6 DEF DiskInode, FileTypes, two
  <2>3. FreeInode \in DiskInode
    BY <1>6 DEF DiskInode, FileTypes, FreeInode
  <2>4. file \in DiskInode
    <3> DEFINE x == [FreeInode EXCEPT !.type = "file"]
    <3>1. "file" \in FileTypes /\ 1 \in Int
      BY DEF FileTypes
    <3>2. x \in DiskInode
      BY <2>3, <3>1 DEF DiskInode
    <3>3. file = [x EXCEPT !.nlink = 1]
      OBVIOUS
    <3> HIDE DEF x, file
    <3> QED BY <3>1, <3>2, <3>3 DEF DiskInode
  <2> HIDE DEF first, second, file
  <2> QED BY <1>6a, <2>1, <2>2, <2>3, <2>4
<1> HIDE DEF first, second, file, Dir
<1>9. m \in DiskType
  BY <1>5, <1>8 DEF DiskType
<1>10. \A i \in Inums \ {1}, n \in Names : m[i].ents[n] = 0
  BY <1>6, <1>7 DEF two
<1>11. \A n \in Names : m[1].ents[n] = IF n = Readme THEN 3 ELSE IF n = MkfsDir THEN 2 ELSE 0
  BY <1>3, <1>7
<1>12. ASSUME NEW i \in Inums
       PROVE  Pointing(m, i) \subseteq IF i = 2 THEN {<<1, MkfsDir>>}
                                       ELSE IF i = 3 THEN {<<1, Readme>>} ELSE {}
  <2>1. i # 0
    BY Constants
  <2> QED BY <1>10, <1>11, <2>1 DEF Pointing
<1>13. ASSUME NEW i \in Inums
       PROVE  Subdirs(m, i) \subseteq IF i = 1 THEN {MkfsDir} ELSE {}
  <2>1. m[3].type = "file"
    BY <1>7
  <2> QED BY <1>10, <1>11, <2>1 DEF Subdirs
<1>14. ASSUME NEW i \in Inums PROVE Needed(m, i) <= m[i].nlink
  <2>1. /\ Cardinality(Pointing(m, i)) \in Nat /\ Cardinality(Subdirs(m, i)) \in Nat
    BY Counted
  <2>2. \A x : IsFiniteSet({x}) /\ Cardinality({x}) = 1
    BY FS_Singleton
  <2>3. Cardinality({}) = 0
    BY FS_EmptySet
  <2>4. ASSUME NEW x, Pointing(m, i) \subseteq {x} PROVE Cardinality(Pointing(m, i)) <= 1
    <3>1. Pointing(m, i) \in SUBSET {x} /\ IsFiniteSet({x}) /\ Cardinality({x}) = 1
      BY <2>2, <2>4
    <3>2. Cardinality(Pointing(m, i)) <= Cardinality({x})
      BY <3>1, FS_Subset
    <3> QED BY <3>1, <3>2
  <2>5. ASSUME NEW x, Subdirs(m, i) \subseteq {x} PROVE Cardinality(Subdirs(m, i)) <= 1
    <3>1. Subdirs(m, i) \in SUBSET {x} /\ IsFiniteSet({x}) /\ Cardinality({x}) = 1
      BY <2>2, <2>5
    <3>2. Cardinality(Subdirs(m, i)) <= Cardinality({x})
      BY <3>1, FS_Subset
    <3> QED BY <3>1, <3>2
  <2>6. /\ i \notin {2, 3} => Cardinality(Pointing(m, i)) = 0
        /\ i \in {2, 3} => Cardinality(Pointing(m, i)) <= 1
    <3>1. i \notin {2, 3} => Pointing(m, i) = {}
      BY <1>12
    <3> QED BY <1>12, <2>3, <2>4, <3>1
  <2>7. /\ i # 1 => Cardinality(Subdirs(m, i)) = 0
        /\ i = 1 => Cardinality(Subdirs(m, i)) <= 1
    <3>1. i # 1 => Subdirs(m, i) = {}
      BY <1>13
    <3> QED BY <1>13, <2>3, <2>5, <3>1
  <2>8. m[i].nlink = IF i = 1 THEN 3 ELSE IF i = 2 THEN 2 ELSE IF i = 3 THEN 1 ELSE 0
    BY <1>7
  <2> QED BY <2>1, <2>6, <2>7, <2>8 DEF Needed
<1>15. ASSUME NEW i \in Inums PROVE InodeOk(m, i)
  <2>1. \A n \in Names : m[i].ents[n] # i
    BY <1>10, <1>11, Constants
  <2>2. m[i].type = "free" => m[i].nlink = 0
    BY <1>7
  <2>3. ASSUME m[i].type = "dir", NEW e \in Pointing(m, i)
        PROVE  DotsAre(m, i, e[1])
    <3>1. i = 2 /\ e = <<1, MkfsDir>>
      BY <1>7, <1>12, <2>3
    <3>2. m[2].ents["."] = 2 /\ m[2].ents[".."] = 1
      BY <1>6, <1>7 DEF two
    <3> QED BY <3>1, <3>2 DEF DotsAre
  <2> QED BY <1>14, <2>1, <2>2, <2>3 DEF InodeOk
<1> QED BY <1>9, <1>15 DEF DiskOk, m

\* The machine is off, and the disk is as mkfs left it.
LEMMA InitInv == Init => Inv
<1>1. EmptyCache \in [Islots -> SlotType]
  BY Constants DEF EmptyCache, EmptySlot, SlotType, FileTypes
<1>2. NoFiles \in FilesType /\ NULL \in SlotOrNull /\ NoneLost \in [Islots -> Nat]
  BY DEF NoFiles, FilesType, SlotOrNull, NoneLost
<1> QED BY <1>1, <1>2, Mkfs DEF Init, Inv

\* open, by a running process.
LEMMA OpenStep ==
  ASSUME Inv, NEW p \in Procs, Running(p),
         NEW path \in Paths, NEW creat \in BOOLEAN, NEW trunc \in BOOLEAN,
         open(p, path, creat, trunc)
  PROVE  Inv' /\ OpenSlotsKept
<1> DEFINE k == Kernel
<1>1. /\ halted = "no" /\ Settled(k, lost) /\ lost \in [Islots -> Nat]
      /\ Ok(k) /\ k.ofiles = ofiles
  BY DEF Running, Inv, Kernel, Ok
<1>2. \A x \in Paths : x.elems \in Seq(DirNames)
  BY FileSystemAssumption DEF DirNames
<1> HIDE DEF k
<1> QED
  <2>1. CallDone(k, Open(k, p, path, creat, trunc), lost)
    BY <1>1, <1>2, Opening
  <2> QED BY <1>1, <2>1, Calling DEF open, k

\* The calls on a descriptor.
LEMMA DescriptorStep ==
  ASSUME Inv, NEW p \in Procs, Running(p),
         NEW f \in Fds,
         \/ close(p, f) \/ read(p, f) \/ lseek(p, f) \/ write(p, f)
         \/ dup(p, f) \/ \E new \in Fds : dup2(p, f, new)
  PROVE  Inv' /\ OpenSlotsKept
<1> DEFINE k == Kernel
<1>1. /\ halted = "no" /\ Settled(k, lost) /\ lost \in [Islots -> Nat]
      /\ Ok(k) /\ k.ofiles = ofiles
  BY DEF Running, Inv, Kernel, Ok
<1>2. \A x \in Paths : x.elems \in Seq(DirNames)
  BY FileSystemAssumption DEF DirNames
<1> HIDE DEF k
<1> QED
  <2>1. k.ofiles[p][f] # NULL
    BY <1>1 DEF close, read, lseek, write, dup, dup2, IsOpen
  <2>2. CASE close(p, f)
    <3>1. CallDone(k, Close(k, p, f), lost)
      BY <1>1, <2>1, Closing
    <3> QED BY <1>1, <2>2, <3>1, Calling DEF close, k
  <2>3. CASE read(p, f) \/ lseek(p, f)
    <3> DEFINE r == ReadOrSeek(k, p, f)
    <3>1. r = LET s == k.ofiles[p][f]
                  l == ilock(k, s)
              IN iunlock(IF FALSE THEN iupdate(l, s) ELSE l, s)
      BY DEF ReadOrSeek
    <3> HIDE DEF r
    <3>2. CallDone(k, r, lost)
      BY <1>1, <2>1, <3>1, Using
    <3> QED BY <1>1, <2>3, <3>2, Calling DEF read, lseek, k, r
  <2>4. CASE write(p, f)
    <3> DEFINE r == Write(k, p, f)
    <3>1. r = LET s == k.ofiles[p][f]
                  l == ilock(k, s)
              IN iunlock(IF TRUE THEN iupdate(l, s) ELSE l, s)
      BY DEF Write
    <3> HIDE DEF r
    <3>2. CallDone(k, r, lost)
      BY <1>1, <2>1, <3>1, Using
    <3> QED BY <1>1, <2>4, <3>2, Calling DEF write, k, r
  <2>5. CASE dup(p, f)
    <3>1. CallDone(k, Dup(k, p, f), lost)
      BY <1>1, <2>1, Duping
    <3> QED BY <1>1, <2>5, <3>1, Calling DEF dup, k
  <2>6. ASSUME NEW new \in Fds, dup2(p, f, new) PROVE Inv' /\ OpenSlotsKept
    <3>1. CallDone(k, Dup2(k, p, f, new), lost)
      BY <1>1, <2>1, Duping2
    <3> QED BY <1>1, <2>6, <3>1, Calling DEF dup2, k
  <2> QED BY <2>2, <2>3, <2>4, <2>5, <2>6

\* The other calls on a path.
LEMMA PathStep ==
  ASSUME Inv, NEW p \in Procs, Running(p),
         NEW path \in Paths,
         \/ chdir(p, path) \/ mkdir(p, path) \/ unlink(p, path)
         \/ ExecveRefused(p, path)
         \/ \E q \in Procs : ExecveSpawns(p, path, q)
  PROVE  Inv' /\ OpenSlotsKept
<1> DEFINE k == Kernel
<1>1. /\ halted = "no" /\ Settled(k, lost) /\ lost \in [Islots -> Nat]
      /\ Ok(k) /\ k.ofiles = ofiles
  BY DEF Running, Inv, Kernel, Ok
<1>2. \A x \in Paths : x.elems \in Seq(DirNames)
  BY FileSystemAssumption DEF DirNames
<1> HIDE DEF k
<1> QED
  <2>1. /\ CallDone(k, Chdir(k, path), lost)
        /\ CallDone(k, Mkdir(k, path), lost)
        /\ CallDone(k, xv6fs_unlink(k, path), lost)
        /\ CallDone(k, ReadProgram(k, path), lost)
    BY <1>1, <1>2, Chdiring, NamesDone
  <2>2. CASE chdir(p, path)
    BY <1>1, <2>1, <2>2, Calling DEF chdir, k
  <2>3. CASE mkdir(p, path)
    BY <1>1, <2>1, <2>3, Calling DEF mkdir, k
  <2>4. CASE unlink(p, path)
    BY <1>1, <2>1, <2>4, Calling DEF unlink, k
  <2>5. CASE ExecveRefused(p, path)
    BY <1>1, <2>1, <2>5, Calling DEF ExecveRefused, k
  <2>6. ASSUME NEW q \in Procs, ExecveSpawns(p, path, q) PROVE Inv' /\ OpenSlotsKept
    <3> DEFINE m == ReadProgram(k, path)
               r == Inherit(m, p, q)
               d == [s \in Islots |-> lost[s] + Cardinality(FdsOn(k.ofiles[q], s))]
    <3>1. Spawns(m, p, q)
      BY <2>6 DEF ExecveSpawns, k
    <3>2. Ok(m) /\ lost' = d /\ Finishes(r)
      BY <1>1, <3>1 DEF Spawns
    <3>3. d \in [Islots -> Nat]
      BY <1>1, LostType
    <3>4. CallDone(k, r, d)
      BY <1>1, <1>2, <3>2, <3>3, Spawning
    <3> HIDE DEF d, m
    <3>5. Ok(r)
      <4>1. Ok(k)
        BY <1>1
      <4> QED BY <3>2 DEF Inherit, Ok
    <3> QED BY <1>1, <3>2, <3>3, <3>4, <3>5, Finishing DEF k
  <2> QED BY <2>2, <2>3, <2>4, <2>5, <2>6

\* exit touches none of it.
LEMMA Stuttering ==
  ASSUME Inv, UNCHANGED <<disk, icache, ofiles, cwd, halted, lost>>
  PROVE  Inv' /\ OpenSlotsKept
<1>1. Kernel' = Kernel
  BY DEF Kernel
<1>2. Settled(Kernel, lost)' <=> Settled(Kernel, lost)
  <2>1. Settled(Kernel', lost') <=> Settled(Kernel, lost)
    BY <1>1
  <2> QED BY <2>1
<1>3. DiskOk(disk)' <=> DiskOk(disk)
  BY DEF DiskOk
<1> QED BY <1>2, <1>3 DEF Inv, OpenSlotsKept

\* Every step keeps the invariant and what is open.
LEMMA NextInv ==
  ASSUME Inv, [Next]_vars
  PROVE  Inv' /\ OpenSlotsKept
<1>1. CASE boot
  BY <1>1, Booting
<1>2. CASE PowerCut
  <2> DEFINE k == [Kernel EXCEPT !.images = {disk}]
  <2>1. k.images = {disk} /\ PowerFails(k)
    BY <1>2 DEF PowerCut, Kernel
  <2>2. k.images \subseteq DiskType /\ \A d \in k.images : DiskOk(d)
    BY <2>1 DEF Inv
  <2> HIDE DEF k
  <2> QED BY <2>1, <2>2, PoweringOff
<1>3. ASSUME NEW p \in Procs, NEW o \in Opens,
             open(p, o.path, o.creat, o.trunc)
      PROVE  Inv' /\ OpenSlotsKept
  <2>1. o.path \in Paths /\ o.creat \in BOOLEAN /\ o.trunc \in BOOLEAN
    BY FileSystemAssumption
  <2> QED BY <1>3, <2>1, OpenStep DEF open
<1>4. ASSUME NEW p \in Procs, NEW f \in Fds,
             \/ close(p, f) \/ read(p, f) \/ lseek(p, f) \/ write(p, f)
             \/ dup(p, f) \/ \E new \in Fds : dup2(p, f, new)
      PROVE  Inv' /\ OpenSlotsKept
  <2>1. Running(p)
    BY <1>4 DEF close, read, lseek, write, dup, dup2, IsOpen
  <2> QED BY <1>4, <2>1, DescriptorStep
<1>5. ASSUME NEW p \in Procs, NEW path \in Paths,
             \/ chdir(p, path) \/ mkdir(p, path) \/ unlink(p, path)
             \/ ExecveRefused(p, path)
             \/ \E q \in Procs : ExecveSpawns(p, path, q)
      PROVE  Inv' /\ OpenSlotsKept
  <2>1. Running(p)
    BY <1>5 DEF chdir, mkdir, unlink, ExecveRefused, ExecveSpawns
  <2> QED BY <1>5, <2>1, PathStep
<1>6. ASSUME NEW p \in Procs, exit(p) PROVE Inv' /\ OpenSlotsKept
  BY <1>6, Stuttering DEF exit
<1>7. CASE UNCHANGED vars
  BY <1>7, Stuttering DEF vars
<1> QED BY <1>1, <1>2, <1>3, <1>4, <1>5, <1>6, <1>7 DEF Next

\* The invariant holds throughout.
LEMMA SpecInv == Spec => []Inv
<1>1. Init => Inv
  BY InitInv
<1>2. Inv /\ [Next]_vars => Inv'
  BY NextInv
<1> QED BY <1>1, <1>2, PTL DEF Spec

-----------------------------------------------------------------------------
(* The theorems. *)

\* Between calls, an inode's ref counts the descriptors that point to it, the
\* current directory, and the references lost with exit() and a failed execve:
\* iget(), idup() and iput() are balanced on every path of every call.
THEOREM ReferencesExact == Spec => []RefsExact
<1>1. Inv => RefsExact
  <2> SUFFICES ASSUME Inv, halted = "no", NEW s \in Islots
               PROVE  icache[s].ref = Cardinality(Holders(s)) + lost[s]
                                        + (IF cwd = s THEN 1 ELSE 0)
    BY DEF RefsExact
  <2> DEFINE b == Owes(ofiles, lost)
  <2>1. b \in Owed
    BY OwesType DEF Inv
  <2>2. icache[s].ref = More(b, cwd)[s]
    BY DEF Inv, Settled, Rests, At, RefsAre, Kernel, Ok
  <2>3. b[s] = Cardinality(Holders(s)) + lost[s]
    BY DEF Owes, HeldIn, Holders
  <2> HIDE DEF b
  <2>4. b[s] \in Nat /\ More(b, cwd)[s] = b[s] + (IF cwd = s THEN 1 ELSE 0)
    BY <2>1 DEF More, Owed
  <2> QED BY <2>2, <2>3, <2>4
<1> QED BY <1>1, SpecInv, PTL

\* Between calls no inode is locked, and no call locks an inode twice, unlocks
\* one that is not locked, or looks a name up in what is not a directory: the
\* machine never halts in acquiresleep(), releasesleep(), ilock(), iunlock() or
\* dirlookup().
THEOREM LocksReleased == Spec => []LockDiscipline
<1>1. Inv => LockDiscipline
  <2> SUFFICES ASSUME Inv PROVE LockDiscipline
    OBVIOUS
  <2>1. ASSUME halted = "no", NEW s \in Islots PROVE ~icache[s].locked
    <3>1. LocksAre(Kernel, {})
      BY <2>1 DEF Inv, Settled, Rests, At, Kernel, Ok
    <3> QED BY <3>1 DEF LocksAre, LockIs, Kernel
  <2>2. halted \in Allowed \cup {"off"}
    BY DEF Inv
  <2> QED BY <2>1, <2>2 DEF LockDiscipline, Allowed
<1> QED BY <1>1, SpecInv, PTL

\* Between calls an inode has one slot in the cache, and a valid slot holds what
\* iupdate() has written: no call leaves a change behind in memory.
THEOREM CacheAgrees == Spec => []CacheCoherent
<1>1. Inv => CacheCoherent
  <2> SUFFICES ASSUME Inv, halted = "no", NEW s \in Islots, icache[s].ref > 0
               PROVE  /\ \A t \in Islots \ {s} :
                           icache[t].ref > 0 => icache[t].inum # icache[s].inum
                      /\ icache[s].valid => /\ icache[s].type = disk[icache[s].inum].type
                                            /\ icache[s].nlink = disk[icache[s].inum].nlink
    BY DEF CacheCoherent
  <2>1. SlotsOk(Kernel)
    BY DEF Inv, Settled, Rests, At, Kernel, Ok
  <2>2. icache[s].valid \in BOOLEAN
    BY DEF Inv, SlotType
  <2> QED BY <2>1, <2>2 DEF SlotsOk, SlotOk, Kernel
<1> QED BY <1>1, SpecInv, PTL

\* No inode ever has more names on disk than links, wherever the power has failed:
\* a link is written before the name, and the name goes before the link.
THEOREM NamesCounted == Spec => []NlinkNeverUndercounts
<1>1. Inv => NlinkNeverUndercounts
  <2> SUFFICES ASSUME Inv, NEW i \in Inums
               PROVE  Cardinality(NamesOf(i)) <= disk[i].nlink
    BY DEF NlinkNeverUndercounts
  <2>1. NamesOf(i) = Pointing(disk, i)
    BY DEF NamesOf, Pointing
  <2>2. /\ Cardinality(Pointing(disk, i)) \in Nat /\ Cardinality(Subdirs(disk, i)) \in Nat
        /\ disk[i].nlink \in Int
    BY Counted DEF Inv, DiskType, DiskInode
  <2> QED BY <2>1, <2>2 DEF Inv, DiskOk, InodeOk, Needed
<1> QED BY <1>1, SpecInv, PTL

\* A directory that has a name on disk names itself and its parent, wherever the
\* power has failed and whichever other directories have been truncated: both
\* entries are written before the name, and only O_TRUNC takes them away.
THEOREM DirectoriesComplete == Spec => []DotDotNamesParent
<1>1. Inv => DotDotNamesParent
  <2> SUFFICES ASSUME Inv, NEW i \in Inums, disk[i].type = "dir", ~disk[i].emptied,
                      NEW e \in NamesOf(i)
               PROVE  disk[i].ents["."] = i /\ disk[i].ents[".."] = e[1]
    BY DEF DotDotNamesParent
  <2>1. e \in Pointing(disk, i)
    BY DEF NamesOf, Pointing
  <2>2. disk[i].emptied = FALSE
    <3>1. disk[i].emptied \in BOOLEAN
      BY DEF Inv, DiskType, DiskInode
    <3> QED BY <3>1
  <2> QED BY <2>1, <2>2 DEF Inv, DiskOk, InodeOk, DotsAre
<1> QED BY <1>1, SpecInv, PTL

\* What a descriptor, or the current directory, stands for is neither freed nor
\* handed out for something else while it stays open, whatever is unlinked.
THEOREM OpenFilesKept == Spec => OpenFilesKeepTheirInode
<1>1. Inv /\ [Next]_vars => OpenSlotsKept
  BY NextInv
<1>2. Spec => [][OpenSlotsKept]_vars
  BY <1>1, SpecInv, PTL DEF Spec
<1> QED BY <1>2 DEF OpenFilesKeepTheirInode, OpenSlotsKept
=============================================================================
