---------------------------- MODULE InodeProofs ----------------------------
(***************************************************************************)
(* What the functions of FileSystem do with the inode cache, for every     *)
(* size of the cache and the disk and every set of names: which references *)
(* they take and put back, which locks they hold when they return, and     *)
(* what they may do to an inode that somebody else holds.                  *)
(*                                                                         *)
(* Each function is an operator from a kernel state k to the one it leaves *)
(* behind, so a lemma about it reads like a Hoare triple.  Its             *)
(* precondition, At(k, o, L), says that the references owed are o, one     *)
(* number for each slot, that the locked slots are those of L, and that    *)
(* the cache is coherent; its postcondition says the same of the state     *)
(* after it, with the references it has taken (More) or put back, together *)
(* with Step or NStep: an inode for which a reference is owed all along is *)
(* not freed, and its slot is not given away.                              *)
(*                                                                         *)
(* A state in which the machine has halted owes nothing.  What it promises *)
(* is that it halted for want of a slot or an inode, or on an inode with   *)
(* no type, and that its disk, and every disk a power failure may leave,   *)
(* has the types of a disk and is in order (DiskOk).  That no directory    *)
(* has a name for itself is what keeps namex() and the calls on a name and *)
(* its parent from locking an inode twice; that each write leaves the disk *)
(* in order is an obligation of the functions that write: iupdate() takes  *)
(* no link that is needed, and dirlink() is called when there is a link to *)
(* spare (MayName).                                                        *)
(***************************************************************************)
EXTENDS DiskProofs

-----------------------------------------------------------------------------
(* Types.  A link count is only said to be an integer: that it stays in   *)
(* what a short holds is not the business of these proofs.                 *)

SlotType == [inum : 0 .. NINODES, ref : Int, valid : BOOLEAN,
             type : FileTypes, nlink : Int, locked : BOOLEAN]
SlotOrNull == Islots \cup {NULL}

\* What the machine may have halted with.
Allowed == {"no", "iget: no inodes", "ialloc: no inodes", "ilock: no type"}

KernelType == [disk : DiskType, icache : [Islots -> SlotType],
               ofiles : [Procs -> [Fds -> SlotOrNull]], cwd : SlotOrNull,
               halted : Allowed, ip : SlotOrNull, ret : Int,
               images : SUBSET DiskType]

-----------------------------------------------------------------------------
(* The states between two functions. *)

\* What holds of the kernel whether or not it has halted.
Safe(k) ==
  /\ k \in KernelType
  /\ DiskOk(k.disk)
  /\ \A d \in k.images : DiskOk(d)

\* The reference counts are those owed, and the locks those of L.
RefsAre(k, o) == \A s \in Islots : k.icache[s].ref = o[s]
LockIs(c, s, L) == (s \in L => c.locked = TRUE) /\ (s \notin L => c.locked = FALSE)
LocksAre(k, L) == \A s \in Islots : LockIs(k.icache[s], s, L)

\* A slot in use has an inode of its own, and what it holds is on disk.
SlotOk(k, s) ==
  /\ k.icache[s].inum \in Inums
  /\ \A t \in Islots \ {s} :
       k.icache[t].ref > 0 => k.icache[t].inum # k.icache[s].inum
  /\ k.icache[s].valid = TRUE =>
       /\ k.icache[s].type = k.disk[k.icache[s].inum].type
       /\ k.icache[s].nlink = k.disk[k.icache[s].inum].nlink
       /\ k.icache[s].type # "free"
SlotsOk(k) == \A s \in Islots : k.icache[s].ref > 0 => SlotOk(k, s)

\* The references owed for each slot, and one more of them; More(o, NULL) is o.
Owed == [Islots -> Nat]
More(o, s) == [t \in Islots |-> IF t = s THEN o[t] + 1 ELSE o[t]]

At(k, o, L) ==
  /\ Safe(k)
  /\ o \in Owed
  /\ L \subseteq Islots
  /\ Ok(k) => RefsAre(k, o) /\ LocksAre(k, L) /\ SlotsOk(k)

\* Between calls on names, and inside one that has the inode in s: b references
\* of descriptors, the one of the current directory, the one to s.
Rests(k, b, L) == At(k, More(b, k.cwd), L)
Holds(k, b, s, L) == At(k, More(More(b, k.cwd), s), L)

\* A call that comes back with an inode locked, or with NULL.
Locked(k, b) ==
  /\ Holds(k, b, k.ip, {k.ip} \ {NULL})
  /\ Ok(k) /\ k.ip # NULL => k.ip \in Islots /\ k.icache[k.ip].valid = TRUE

-----------------------------------------------------------------------------
(* What a function, from the state k to the state r, may do. *)

\* The slot keeps its inode, and the inode its type unless it was free.
KeepsSlot(k, r, t) ==
  /\ r.icache[t].inum = k.icache[t].inum
  /\ \/ k.disk[k.icache[t].inum].type = "free"
     \/ r.disk[k.icache[t].inum].type = k.disk[k.icache[t].inum].type
Keeps(k, r, o) == \A t \in Islots : o[t] > 0 => KeepsSlot(k, r, t)

\* o are the references owed throughout.
Step(k, r, o) ==
  /\ r.ofiles = k.ofiles
  /\ r.cwd = k.cwd
  /\ Ok(r) => Ok(k) /\ Keeps(k, r, o)

\* The current directory is owed its reference as well, and is set at most once.
NStep(k, r, b) ==
  /\ r.ofiles = k.ofiles
  /\ Ok(r) => /\ Ok(k)
              /\ k.cwd # NULL => r.cwd = k.cwd
              /\ Keeps(k, r, More(b, k.cwd))

\* What is left alone, of a slot, of all or some of them, and of the rest.
Same(k, r, t) ==
  /\ r.icache[t].inum = k.icache[t].inum
  /\ r.icache[t].valid = k.icache[t].valid
  /\ r.icache[t].type = k.icache[t].type
SameAll(k, r) == \A t \in Islots : Same(k, r, t)
SameBut(k, r, s) == \A t \in Islots \ {s} : Same(k, r, t)
SameHeld(k, r, o) == \A t \in Islots : o[t] > 0 => Same(k, r, t)
SameEnts(k, r) == \A j \in Inums : r.disk[j].ents = k.disk[j].ents
Quiet(k, r) == r.disk = k.disk /\ r.ip = k.ip /\ r.ret = k.ret

-----------------------------------------------------------------------------
(* What single lemmas are about. *)

\* A slot of the cache with new contents, that fit what is on disk.
Replaced(k, s, c) == [k EXCEPT !.icache[s] = c]
SlotFits(k, s, c) ==
  /\ c \in SlotType /\ c.inum = k.icache[s].inum /\ c.ref \in Nat
  /\ c.valid = TRUE => /\ c.type = k.disk[c.inum].type
                       /\ c.nlink = k.disk[c.inum].nlink
                       /\ c.type # "free"
WithRef(o, s, n) == [t \in Islots |-> IF t = s THEN n ELSE o[t]]
WithLock(L, s, b) == {t \in Islots : IF t = s THEN b = TRUE ELSE t \in L}

\* What iupdate() makes of an inode, and the same with another link count.
Saved(k, s) ==
  [k.disk[k.icache[s].inum] EXCEPT !.type = k.icache[s].type, !.nlink = k.icache[s].nlink]
Relinked(d, e, i, v) ==
  /\ OnlyInode(d, e, i)
  /\ e[i].nlink = v /\ e[i].type = d[i].type /\ e[i].ents = d[i].ents
  /\ \A j \in Inums : Needed(e, j) = Needed(d, j)

\* m is k but for the link count of the slot s, which iupdate() is to write, and
\* which is not less than the names need.
OnlyNlink(k, m, s) ==
  /\ Safe(m) /\ Ok(m) /\ Quiet(k, m) /\ m.ofiles = k.ofiles /\ m.cwd = k.cwd
  /\ \A t \in Islots \ {s} : m.icache[t] = k.icache[t]
  /\ Same(k, m, s) /\ m.icache[s].ref = k.icache[s].ref
  /\ m.icache[s].locked = k.icache[s].locked
  /\ Needed(k.disk, k.icache[s].inum) <= m.icache[s].nlink

\* The function that WalkAll() defines by recursion.
IsWalk(f, k, elems) ==
  f = [n \in 0 .. Len(elems) |-> IF n = 0 THEN k ELSE Walk(f[n - 1], elems[n])]

\* ialloc() has taken a slot for an inode that was free on the disk.
Allotted(k, r, o, L, type) ==
  /\ At(r, More(o, r.ip), L) /\ Step(k, r, o)
  /\ Ok(r) => /\ r.ip \in Islots /\ r.icache[r.ip].inum \in Inums
              /\ k.disk[r.icache[r.ip].inum].type = "free"
              /\ \A j \in Inums \ {r.icache[r.ip].inum} : r.disk[j] = k.disk[j]
              /\ r.disk[r.icache[r.ip].inum].type = type
              /\ r.disk[r.icache[r.ip].inum].ents = NoEntries
              /\ r.disk[r.icache[r.ip].inum].nlink = 0
              /\ SameHeld(k, r, o)

\* What dirlookup() comes back with from the directory in dp, which is locked.
LookedUp(l, f, b, dp, name) ==
  /\ At(f, More(More(More(b, l.cwd), f.ip), dp), {dp})
  /\ Step(l, f, More(More(b, l.cwd), dp))
  /\ f.cwd = l.cwd /\ NStep(l, f, b)
  /\ Ok(f) => /\ f.disk = l.disk /\ f.ret = l.ret
              /\ f.icache[dp].valid = TRUE /\ f.icache[dp].type = "dir"
              /\ f.icache[dp].inum = l.icache[dp].inum
              /\ f.ip \in Islots \/ f.ip = NULL
              /\ f.ip = NULL => f.disk[f.icache[dp].inum].ents[name] = 0
              /\ f.ip # NULL =>
                   f.icache[f.ip].inum = f.disk[f.icache[dp].inum].ents[name]

\* The directory in s has no entry called name, and may get one for inum.
CanLink(k, s, name, inum) ==
  /\ k.icache[s].type = "dir"
  /\ k.disk[k.icache[s].inum].ents[name] = 0
  /\ MayName(k.disk, k.icache[s].inum, name, inum)

\* Of the directory i nothing but the entry called name has been set, and
\* nothing of the other inodes.
EntryIs(d, e, i, name, inum) ==
  /\ OnlyInode(d, e, i)
  /\ e[i].type = d[i].type /\ e[i].nlink = d[i].nlink /\ e[i].emptied = d[i].emptied
  /\ e[i].ents = [d[i].ents EXCEPT ![name] = inum]

\* dirlink() has made the entry, and nothing else has changed.
Entered(k, r, o, L, s, name, inum) ==
  /\ At(r, o, L) /\ Step(k, r, o) /\ Ok(r) /\ r.ret = 0 /\ SameAll(k, r)
  /\ EntryIs(k.disk, r.disk, k.icache[s].inum, name, inum)

\* The same, and no inode needs another number of links for it.
Dotted(k, r, o, L, s, name, inum) ==
  /\ Entered(k, r, o, L, s, name, inum)
  /\ \A j \in Inums : /\ Needed(r.disk, j) = Needed(k.disk, j)
                      /\ r.disk[j].type = k.disk[j].type
                      /\ r.disk[j].nlink = k.disk[j].nlink

\* The parent in dp and the new inode in ip, both locked, before the new inode
\* is named: it has the link that the name needs.
Ready(k, dp, ip, name) ==
  /\ Ok(k)
  /\ k.icache[dp].valid = TRUE /\ k.icache[dp].type = "dir"
  /\ k.icache[ip].valid = TRUE
  /\ k.icache[dp].inum \in Inums /\ k.icache[ip].inum \in Inums
  /\ k.icache[dp].inum # k.icache[ip].inum
  /\ k.disk[k.icache[dp].inum].ents[name] = 0
  /\ k.disk[k.icache[dp].inum].type = "dir"
  /\ k.disk[k.icache[ip].inum].type # "free"
  /\ Spare(k.disk, k.icache[ip].inum)

-----------------------------------------------------------------------------
(* Setting the fields of a kernel state. *)

\* What the fields of a kernel state are after one of them has been set: the
\* message it halted with.
LEMMA SetHalted ==
  ASSUME NEW k \in KernelType, NEW v \in Allowed
  PROVE  LET r == [k EXCEPT !.halted = v] IN
         /\ r \in KernelType /\ r.halted = v
         /\ r.disk = k.disk /\ r.icache = k.icache /\ r.ofiles = k.ofiles
         /\ r.cwd = k.cwd /\ r.ip = k.ip /\ r.ret = k.ret /\ r.images = k.images
BY DEF KernelType

\* The inode a function returns.
LEMMA SetIp ==
  ASSUME NEW k \in KernelType, NEW v \in SlotOrNull
  PROVE  LET r == ReturnIp(k, v) IN
         /\ r \in KernelType /\ r.ip = v
         /\ r.disk = k.disk /\ r.icache = k.icache /\ r.ofiles = k.ofiles
         /\ r.cwd = k.cwd /\ r.halted = k.halted /\ r.ret = k.ret /\ r.images = k.images
BY DEF KernelType, ReturnIp

\* The number a function returns.
LEMMA SetRet ==
  ASSUME NEW k \in KernelType, NEW v \in Int
  PROVE  LET r == Return(k, v) IN
         /\ r \in KernelType /\ r.ret = v
         /\ r.disk = k.disk /\ r.icache = k.icache /\ r.ofiles = k.ofiles
         /\ r.cwd = k.cwd /\ r.halted = k.halted /\ r.ip = k.ip /\ r.images = k.images
BY DEF KernelType, Return

\* A slot of the inode cache.
LEMMA SetSlot ==
  ASSUME NEW k \in KernelType, NEW s \in Islots, NEW c \in SlotType
  PROVE  LET r == [k EXCEPT !.icache[s] = c] IN
         /\ r \in KernelType
         /\ r.icache \in [Islots -> SlotType]
         /\ \A t \in Islots : r.icache[t] = IF t = s THEN c ELSE k.icache[t]
         /\ r.disk = k.disk /\ r.ofiles = k.ofiles /\ r.ret = k.ret
         /\ r.cwd = k.cwd /\ r.halted = k.halted /\ r.ip = k.ip /\ r.images = k.images
BY DEF KernelType

\* An update of the reference count alone is an update of the slot.
LEMMA SetRef ==
  ASSUME NEW k \in KernelType, NEW s \in Islots, NEW v \in Int
  PROVE  [k EXCEPT !.icache[s].ref = v] = [k EXCEPT !.icache[s] = [k.icache[s] EXCEPT !.ref = v]]
OBVIOUS

\* The disk, by one log_write().
LEMMA SetDisk ==
  ASSUME NEW k \in KernelType, NEW d \in DiskType, Ok(k)
  PROVE  LET r == WriteDisk(k, d) IN
         /\ r \in KernelType /\ r.disk = d /\ r.images = k.images \cup {d}
         /\ r.icache = k.icache /\ r.ofiles = k.ofiles /\ r.ret = k.ret
         /\ r.cwd = k.cwd /\ r.halted = k.halted /\ r.ip = k.ip
BY DEF KernelType, WriteDisk, Ok

-----------------------------------------------------------------------------
(* Constants, halting, and steps that change one slot. *)

\* The first of some numbers is one of them.
LEMMA MinIn ==
  ASSUME NEW S, S \subseteq Nat, S # {}
  PROVE  Min(S) \in S
<1>1. \E x \in S : \A y \in S : x <= y
  BY LeastNatural
<1> QED BY <1>1, Zenon DEF Min

\* A machine that halts keeps the disk and the tables it has.
LEMMA Halting ==
  ASSUME NEW k, Safe(k), NEW why \in Allowed, why # "no"
  PROVE  LET r == Halt(k, why) IN
         /\ Safe(r) /\ ~Ok(r) /\ r.ofiles = k.ofiles /\ r.cwd = k.cwd
<1> DEFINE r == Halt(k, why)
<1>1. k \in KernelType
  BY DEF Safe
<1>2. CASE Ok(k)
  <2>1. r = [k EXCEPT !.halted = why]
    BY <1>2 DEF Halt
  <2> QED BY <1>1, <2>1, SetHalted DEF Safe, Ok
<1>3. CASE ~Ok(k)
  BY <1>3 DEF Halt
<1> QED BY <1>2, <1>3

\* A slot that is held is given contents that fit: what is owed and locked changes
\* with its ref and its lock.
LEMMA SlotStep ==
  ASSUME NEW k, NEW o, NEW L, At(k, o, L), Ok(k), NEW s \in Islots, o[s] > 0,
         NEW c, SlotFits(k, s, c)
  PROVE  /\ At(Replaced(k, s, c), WithRef(o, s, c.ref), WithLock(L, s, c.locked))
         /\ Step(k, Replaced(k, s, c), WithRef(o, s, c.ref))
         /\ Ok(Replaced(k, s, c))
         /\ Replaced(k, s, c).disk = k.disk /\ Replaced(k, s, c).ip = k.ip
         /\ Replaced(k, s, c).ret = k.ret
         /\ \A t \in Islots :
              Replaced(k, s, c).icache[t] = IF t = s THEN c ELSE k.icache[t]
<1> DEFINE r == Replaced(k, s, c)
           p == WithRef(o, s, c.ref)
           M == WithLock(L, s, c.locked)
<1>1. k \in KernelType /\ k.icache \in [Islots -> SlotType] /\ c \in SlotType
  BY DEF At, Safe, KernelType, SlotFits
<1>2. /\ r \in KernelType
      /\ \A t \in Islots : r.icache[t] = IF t = s THEN c ELSE k.icache[t]
      /\ r.disk = k.disk /\ r.ofiles = k.ofiles /\ r.ip = k.ip /\ r.ret = k.ret
      /\ r.cwd = k.cwd /\ r.halted = k.halted /\ r.images = k.images
  BY <1>1, SetSlot DEF Replaced
<1> HIDE DEF r
<1>3. Safe(r) /\ Ok(r)
  BY <1>2 DEF At, Safe, Ok
<1>4. o \in Owed /\ p \in Owed /\ M \subseteq Islots
  BY DEF At, Owed, SlotFits, WithRef, WithLock
<1>5. RefsAre(r, p)
  BY <1>2 DEF At, RefsAre, WithRef
<1>6. LocksAre(r, M)
  <2>1. c.locked \in BOOLEAN
    BY <1>1 DEF SlotType
  <2> QED BY <1>2, <2>1 DEF At, LocksAre, LockIs, WithLock
<1>7. SlotsOk(r)
  <2> SUFFICES ASSUME NEW t \in Islots, r.icache[t].ref > 0 PROVE SlotOk(r, t)
    BY DEF SlotsOk
  <2>1. k.icache[s].ref > 0
    BY DEF At, RefsAre
  <2>2. \A u \in Islots : /\ r.icache[u].ref > 0 => k.icache[u].ref > 0
                          /\ r.icache[u].inum = k.icache[u].inum
    BY <1>2, <2>1 DEF SlotFits
  <2>3. SlotOk(k, t)
    BY <2>2 DEF At, SlotsOk
  <2> QED BY <1>2, <2>2, <2>3 DEF SlotOk, SlotFits
<1>8. Keeps(k, r, p)
  BY <1>2 DEF Keeps, KeepsSlot, SlotFits
<1> HIDE DEF p, M
<1> QED BY <1>2, <1>3, <1>4, <1>5, <1>6, <1>7, <1>8 DEF At, Step, r, p, M

\* The inode a function returns says nothing about what it has done.
LEMMA IpOnly ==
  ASSUME NEW k, NEW o, NEW L, At(k, o, L), NEW v \in SlotOrNull
  PROVE  LET r == ReturnIp(k, v) IN
         /\ At(r, o, L) /\ (Ok(r) <=> Ok(k)) /\ Step(k, r, o)
         /\ r.ip = v /\ r.ret = k.ret
         /\ r.disk = k.disk /\ r.icache = k.icache /\ r.ofiles = k.ofiles
         /\ r.cwd = k.cwd /\ r.images = k.images
<1> DEFINE r == ReturnIp(k, v)
<1>1. k \in KernelType
  BY DEF At, Safe
<1>2. /\ r \in KernelType /\ r.ip = v
      /\ r.disk = k.disk /\ r.icache = k.icache /\ r.ofiles = k.ofiles
      /\ r.cwd = k.cwd /\ r.halted = k.halted /\ r.ret = k.ret /\ r.images = k.images
  BY <1>1, SetIp
<1> HIDE DEF r
<1>3. At(r, o, L)
  BY <1>2 DEF At, Safe, Ok, RefsAre, LocksAre, LockIs, SlotsOk, SlotOk
<1>4. Step(k, r, o)
  BY <1>2 DEF Step, Keeps, KeepsSlot, Ok
<1> QED BY <1>2, <1>3, <1>4 DEF Ok, r

\* Nor does the number it returns.
LEMMA RetOnly ==
  ASSUME NEW k, NEW o, NEW L, At(k, o, L), NEW v \in Int
  PROVE  LET r == Return(k, v) IN
         /\ At(r, o, L) /\ (Ok(r) <=> Ok(k)) /\ Step(k, r, o)
         /\ r.ret = v /\ r.ip = k.ip
         /\ r.disk = k.disk /\ r.icache = k.icache /\ r.ofiles = k.ofiles
         /\ r.cwd = k.cwd /\ r.images = k.images
<1> DEFINE r == Return(k, v)
<1>1. k \in KernelType
  BY DEF At, Safe
<1>2. /\ r \in KernelType /\ r.ret = v
      /\ r.disk = k.disk /\ r.icache = k.icache /\ r.ofiles = k.ofiles
      /\ r.cwd = k.cwd /\ r.halted = k.halted /\ r.ip = k.ip /\ r.images = k.images
  BY <1>1, SetRet
<1> HIDE DEF r
<1>3. At(r, o, L)
  BY <1>2 DEF At, Safe, Ok, RefsAre, LocksAre, LockIs, SlotsOk, SlotOk
<1>4. Step(k, r, o)
  BY <1>2 DEF Step, Keeps, KeepsSlot, Ok
<1> QED BY <1>2, <1>3, <1>4 DEF Ok, r

\* Frames compose, as long as the references that count are held throughout.
LEMMA StepTrans ==
  ASSUME NEW k, NEW m, NEW r, NEW o, NEW p, NEW q,
         Step(k, m, o), Step(m, r, p),
         \A t \in Islots : q[t] > 0 => o[t] > 0 /\ p[t] > 0
  PROVE  Step(k, r, q)
<1>1. Ok(r) => Ok(m) /\ Ok(k)
  BY DEF Step
<1>2. ASSUME Ok(r) PROVE Keeps(k, r, q)
  <2>1. Keeps(k, m, o) /\ Keeps(m, r, p)
    BY <1>1, <1>2 DEF Step
  <2> SUFFICES ASSUME NEW t \in Islots, q[t] > 0 PROVE KeepsSlot(k, r, t)
    BY DEF Keeps
  <2>2. KeepsSlot(k, m, t) /\ KeepsSlot(m, r, t)
    BY <2>1 DEF Keeps
  <2> QED BY <2>2 DEF KeepsSlot
<1> QED BY <1>1, <1>2 DEF Step

\* One more reference to a slot that has one.
LEMMA OneMore ==
  ASSUME NEW k, NEW o, NEW L, At(k, o, L), Ok(k),
         NEW s \in Islots, o[s] > 0
  PROVE  LET r == ReturnIp([k EXCEPT !.icache[s].ref = @ + 1], s) IN
         /\ At(r, More(o, s), L) /\ Step(k, r, o) /\ Ok(r)
         /\ r.disk = k.disk /\ r.ip = s /\ r.ret = k.ret
         /\ \A t \in Islots : Same(k, r, t)
<1> DEFINE c == [k.icache[s] EXCEPT !.ref = k.icache[s].ref + 1]
           m == Replaced(k, s, c)
           r == ReturnIp([k EXCEPT !.icache[s].ref = @ + 1], s)
<1>1. k \in KernelType /\ k.icache \in [Islots -> SlotType] /\ o \in Owed /\ L \subseteq Islots
  BY DEF At, Safe, KernelType
<1>2. /\ c \in SlotType /\ c.ref = k.icache[s].ref + 1
      /\ c.inum = k.icache[s].inum /\ c.valid = k.icache[s].valid
      /\ c.type = k.icache[s].type /\ c.nlink = k.icache[s].nlink
      /\ c.locked = k.icache[s].locked
  BY <1>1 DEF SlotType
<1>3. r = ReturnIp(m, s)
  BY DEF Replaced
<1> HIDE DEF c
<1>4. k.icache[s].ref = o[s] /\ SlotOk(k, s) /\ LockIs(k.icache[s], s, L)
  BY DEF At, RefsAre, LocksAre, LockIs, SlotsOk
<1>5. c.ref \in Nat /\ More(o, s) = WithRef(o, s, c.ref)
  BY <1>1, <1>2, <1>4 DEF More, Owed, WithRef
<1>6. L = WithLock(L, s, c.locked)
  BY <1>1, <1>2, <1>4 DEF WithLock, LockIs
<1>7. SlotFits(k, s, c)
  BY <1>2, <1>4, <1>5 DEF SlotOk, SlotFits
<1>8. /\ At(m, More(o, s), L) /\ Step(k, m, More(o, s)) /\ Ok(m)
      /\ m.disk = k.disk /\ m.ip = k.ip /\ m.ret = k.ret
      /\ \A t \in Islots : m.icache[t] = IF t = s THEN c ELSE k.icache[t]
  BY <1>5, <1>6, <1>7, SlotStep
<1> HIDE DEF m
<1>9. s \in SlotOrNull
  BY DEF SlotOrNull
<1>10. /\ At(r, More(o, s), L) /\ Ok(r) /\ Step(m, r, More(o, s))
       /\ r.disk = m.disk /\ r.icache = m.icache /\ r.ip = s /\ r.ret = m.ret
  BY <1>3, <1>8, <1>9, IpOnly
<1>11. Step(k, r, o)
  BY <1>8, <1>10, <1>1, StepTrans DEF More, Owed
<1> HIDE DEF r
<1> QED BY <1>2, <1>8, <1>10, <1>11 DEF Same, r

-----------------------------------------------------------------------------
(* fs.c: the inode cache. *)

\* A slot without references that iget() takes for the inode inum.
LEMMA NewSlot ==
  ASSUME NEW k, NEW o, NEW L, At(k, o, L), Ok(k), NEW inum \in Inums,
         Cached(k, inum) = {}, NEW s \in Unused(k),
         NEW r, r = ReturnIp(Replaced(k, s, Taken(k.icache[s], inum)), s)
  PROVE  /\ At(r, More(o, s), L) /\ Step(k, r, o) /\ Ok(r)
         /\ r.disk = k.disk /\ r.ip = s /\ r.ret = k.ret
         /\ r.icache[s].inum = inum /\ SameHeld(k, r, o)
         /\ \A t \in Islots \ {s} : Same(k, r, t)
<1> DEFINE c == Taken(k.icache[s], inum)
           m == Replaced(k, s, c)
<1>1. k \in KernelType /\ k.icache \in [Islots -> SlotType] /\ o \in Owed /\ L \subseteq Islots
  BY DEF At, Safe, KernelType
<1>2. s \in Islots /\ k.icache[s].ref = 0 /\ o[s] = 0 /\ s \in SlotOrNull
  BY DEF Unused, At, RefsAre, SlotOrNull
<1>3. /\ c \in SlotType /\ c.ref = 1 /\ c.inum = inum /\ c.valid = FALSE
      /\ c.locked = k.icache[s].locked
  <2>1. k.icache[s] \in SlotType /\ inum \in 0 .. NINODES
    BY <1>1, <1>2, Constants
  <2>2. c \in SlotType
    BY <2>1 DEF SlotType, Taken
  <2> QED BY <2>2 DEF Taken
<1>4. /\ m \in KernelType
      /\ \A t \in Islots : m.icache[t] = IF t = s THEN c ELSE k.icache[t]
      /\ m.disk = k.disk /\ m.ofiles = k.ofiles /\ m.ret = k.ret
      /\ m.cwd = k.cwd /\ m.halted = k.halted /\ m.images = k.images
  BY <1>1, <1>2, <1>3, SetSlot DEF Replaced
<1> HIDE DEF c
<1>5. r = ReturnIp(m, s)
  BY DEF c
<1> HIDE DEF m
<1>6. /\ r \in KernelType /\ r.ip = s
      /\ \A t \in Islots : r.icache[t] = IF t = s THEN c ELSE k.icache[t]
      /\ r.disk = k.disk /\ r.ofiles = k.ofiles /\ r.ret = k.ret
      /\ r.cwd = k.cwd /\ r.halted = k.halted /\ r.images = k.images
  BY <1>2, <1>4, <1>5, SetIp
<1>7. Safe(r) /\ Ok(r)
  BY <1>6 DEF At, Safe, Ok
<1>8. More(o, s) \in Owed
  BY <1>1 DEF More, Owed
<1>9. RefsAre(r, More(o, s)) /\ LocksAre(r, L)
  BY <1>2, <1>3, <1>6 DEF At, RefsAre, LocksAre, LockIs, More
<1>10. SlotsOk(r)
  <2> SUFFICES ASSUME NEW t \in Islots, r.icache[t].ref > 0 PROVE SlotOk(r, t)
    BY DEF SlotsOk
  <2>1. \A u \in Islots : k.icache[u].ref > 0 => k.icache[u].inum # inum
    BY DEF Cached
  <2>2. CASE t = s
    BY <1>3, <1>6, <2>1, <2>2 DEF SlotOk
  <2>3. CASE t # s
    <3>1. SlotOk(k, t) /\ k.icache[t].ref > 0
      BY <1>6, <2>3 DEF At, SlotsOk
    <3> QED BY <1>3, <1>6, <2>1, <2>3, <3>1 DEF SlotOk
  <2> QED BY <2>2, <2>3
<1>11. \A t \in Islots \ {s} : Same(k, r, t)
  BY <1>6 DEF Same
<1>12. SameHeld(k, r, o)
  BY <1>2, <1>11 DEF SameHeld
<1>13. Step(k, r, o)
  BY <1>2, <1>6, <1>7 DEF Step, Keeps, KeepsSlot
<1>14. At(r, More(o, s), L)
  BY <1>1, <1>7, <1>8, <1>9, <1>10 DEF At
<1>15. r.icache[s].inum = inum
  BY <1>2, <1>3, <1>6
<1> QED BY <1>6, <1>7, <1>11, <1>12, <1>13, <1>14, <1>15

\* iget() gives its caller one reference more, to the inode asked for.
LEMMA Iget ==
  ASSUME NEW k, NEW o, NEW L, At(k, o, L), NEW inum \in Inums
  PROVE  LET r == iget(k, inum) IN
         /\ At(r, More(o, r.ip), L) /\ Step(k, r, o)
         /\ Ok(r) => /\ r.ip \in Islots /\ r.icache[r.ip].inum = inum
                     /\ r.disk = k.disk /\ r.ret = k.ret /\ SameHeld(k, r, o)
                     /\ Cached(k, inum) # {} => r.ip \in Cached(k, inum) /\ Same(k, r, r.ip)
                     /\ \A t \in Islots \ {r.ip} : Same(k, r, t)
<1> DEFINE r == iget(k, inum)
<1>1. o \in Owed /\ k \in KernelType
  BY DEF At, Safe
<1>2. ASSUME ~Ok(r), Safe(r), r.ofiles = k.ofiles, r.cwd = k.cwd
      PROVE  At(r, More(o, r.ip), L) /\ Step(k, r, o)
  <2>1. More(o, r.ip) \in Owed
    BY <1>1 DEF More, Owed
  <2> HIDE DEF r
  <2> QED BY <1>2, <2>1 DEF At, Step
<1>3. CASE ~Ok(k)
  BY <1>2, <1>3 DEF iget, At
<1>4. CASE Ok(k) /\ Cached(k, inum) # {}
  <2> DEFINE s == Min(Cached(k, inum))
  <2>1. s \in Cached(k, inum)
    BY <1>4, MinIn, Constants DEF Cached
  <2> HIDE DEF s
  <2>2. s \in Islots /\ k.icache[s].ref > 0 /\ k.icache[s].inum = inum /\ o[s] > 0
    BY <1>4, <2>1 DEF Cached, At, RefsAre
  <2>3. r = ReturnIp([k EXCEPT !.icache[s].ref = @ + 1], s)
    BY <1>4 DEF iget, s
  <2> HIDE DEF r
  <2>4. /\ At(r, More(o, s), L) /\ Step(k, r, o) /\ Ok(r)
        /\ r.disk = k.disk /\ r.ip = s /\ r.ret = k.ret
        /\ \A t \in Islots : Same(k, r, t)
    BY <1>4, <2>2, <2>3, OneMore
  <2> QED BY <2>1, <2>2, <2>4 DEF SameHeld, Same, r
<1>5. CASE Ok(k) /\ Cached(k, inum) = {} /\ Unused(k) # {}
  <2> DEFINE s == Min(Unused(k))
  <2>1. s \in Unused(k)
    BY <1>5, MinIn, Constants DEF Unused
  <2> HIDE DEF s
  <2>2. r = ReturnIp(Replaced(k, s, Taken(k.icache[s], inum)), s)
    BY <1>5 DEF iget, s, Replaced
  <2> HIDE DEF r
  <2>3. /\ At(r, More(o, s), L) /\ Step(k, r, o) /\ Ok(r)
        /\ r.disk = k.disk /\ r.ip = s /\ r.ret = k.ret
        /\ r.icache[s].inum = inum /\ SameHeld(k, r, o)
        /\ \A t \in Islots \ {s} : Same(k, r, t)
    BY <1>5, <2>1, <2>2, NewSlot
  <2>4. s \in Islots
    BY <2>1 DEF Unused
  <2> QED BY <1>5, <2>3, <2>4 DEF r
<1>6. CASE Ok(k) /\ Cached(k, inum) = {} /\ Unused(k) = {}
  <2>1. r = Halt(k, "iget: no inodes")
    BY <1>6 DEF iget
  <2>2. "iget: no inodes" \in Allowed /\ "iget: no inodes" # "no" /\ Safe(k)
    BY DEF Allowed, At
  <2>3. Safe(r) /\ ~Ok(r) /\ r.ofiles = k.ofiles /\ r.cwd = k.cwd
    BY <2>1, <2>2, Halting
  <2> HIDE DEF r
  <2> QED BY <2>3, <1>2 DEF r
<1> QED BY <1>3, <1>4, <1>5, <1>6

\* Doing nothing is a step.
LEMMA StepRefl ==
  ASSUME NEW k, NEW o
  PROVE  Step(k, k, o) /\ Quiet(k, k) /\ SameAll(k, k)
BY DEF Step, Keeps, KeepsSlot, Quiet, SameAll, Same

\* idup() gives its caller one reference more.
LEMMA Idup ==
  ASSUME NEW k, NEW o, NEW L, At(k, o, L), NEW s \in Islots, o[s] > 0
  PROVE  LET r == idup(k, s) IN
         /\ At(r, More(o, s), L) /\ Step(k, r, o)
         /\ Ok(r) => r.ip = s
<1>1. CASE Ok(k)
  <2>1. idup(k, s) = ReturnIp([k EXCEPT !.icache[s].ref = @ + 1], s)
    BY <1>1 DEF idup
  <2> QED BY <1>1, <2>1, OneMore
<1>2. CASE ~Ok(k)
  <2>1. idup(k, s) = k /\ More(o, s) \in Owed
    BY <1>2 DEF idup, More, At, Owed
  <2> QED BY <1>2, <2>1, StepRefl DEF At
<1> QED BY <1>1, <1>2

\* The lock of a slot that is held is set or cleared.
LEMMA SetLocked ==
  ASSUME NEW k, NEW o, NEW L, At(k, o, L), Ok(k), NEW s \in Islots, o[s] > 0,
         NEW b \in BOOLEAN
  PROVE  LET r == [k EXCEPT !.icache[s].locked = b] IN
         /\ At(r, o, WithLock(L, s, b)) /\ Step(k, r, o) /\ Ok(r)
         /\ Quiet(k, r) /\ SameAll(k, r)
<1> DEFINE c == [k.icache[s] EXCEPT !.locked = b]
           m == Replaced(k, s, c)
<1>1. k.icache \in [Islots -> SlotType] /\ o \in Owed
  BY DEF At, Safe, KernelType
<1>2. /\ c \in SlotType /\ c.ref = k.icache[s].ref
      /\ c.inum = k.icache[s].inum /\ c.valid = k.icache[s].valid
      /\ c.type = k.icache[s].type /\ c.nlink = k.icache[s].nlink
      /\ c.locked = b
  BY <1>1 DEF SlotType
<1>3. [k EXCEPT !.icache[s].locked = b] = m
  BY DEF Replaced
<1> HIDE DEF c
<1>4. k.icache[s].ref = o[s] /\ SlotOk(k, s)
  BY DEF At, RefsAre, SlotsOk
<1>5. c.ref \in Nat /\ o = WithRef(o, s, c.ref)
  BY <1>1, <1>2, <1>4 DEF Owed, WithRef
<1>6. SlotFits(k, s, c)
  BY <1>2, <1>4, <1>5 DEF SlotOk, SlotFits
<1>7. /\ At(m, o, WithLock(L, s, b)) /\ Step(k, m, o) /\ Ok(m)
      /\ m.disk = k.disk /\ m.ip = k.ip /\ m.ret = k.ret
      /\ \A t \in Islots : m.icache[t] = IF t = s THEN c ELSE k.icache[t]
  BY <1>2, <1>5, <1>6, SlotStep
<1> HIDE DEF m
<1>8. Quiet(k, m) /\ SameAll(k, m)
  BY <1>2, <1>7 DEF Quiet, SameAll, Same
<1> QED BY <1>3, <1>7, <1>8

\* acquiresleep() on an inode that is not locked does not halt.
LEMMA Acquire ==
  ASSUME NEW k, NEW o, NEW L, At(k, o, L), NEW s \in Islots, o[s] > 0, s \notin L
  PROVE  LET r == acquiresleep(k, s) IN
         /\ At(r, o, L \cup {s}) /\ Step(k, r, o)
         /\ Ok(r) => Quiet(k, r) /\ SameAll(k, r)
         /\ Ok(k) => Ok(r)
<1>1. L \cup {s} \subseteq Islots /\ L \cup {s} = WithLock(L, s, TRUE)
  BY DEF At, WithLock
<1>2. CASE Ok(k)
  <2>1. k.icache[s].locked = FALSE
    BY <1>2 DEF At, LocksAre, LockIs
  <2> DEFINE m == [k EXCEPT !.icache[s].locked = TRUE]
  <2>2. acquiresleep(k, s) = m
    BY <1>2, <2>1 DEF acquiresleep, Inode
  <2>3. /\ At(m, o, WithLock(L, s, TRUE)) /\ Step(k, m, o) /\ Ok(m)
        /\ Quiet(k, m) /\ SameAll(k, m)
    BY <1>1, <1>2, SetLocked
  <2> HIDE DEF m
  <2> QED BY <1>1, <2>2, <2>3
<1>3. CASE ~Ok(k)
  <2>1. acquiresleep(k, s) = k
    BY <1>3 DEF acquiresleep
  <2> QED BY <1>1, <1>3, <2>1, StepRefl DEF At
<1> QED BY <1>2, <1>3

\* releasesleep() on an inode that is locked does not halt.
LEMMA Release ==
  ASSUME NEW k, NEW o, NEW L, At(k, o, L), NEW s \in L, o[s] > 0
  PROVE  LET r == releasesleep(k, s) IN
         /\ At(r, o, L \ {s}) /\ Step(k, r, o)
         /\ Ok(r) => Quiet(k, r) /\ SameAll(k, r)
         /\ Ok(k) => Ok(r)
<1>1. s \in Islots /\ L \ {s} \subseteq Islots /\ L \ {s} = WithLock(L, s, FALSE)
  BY DEF At, WithLock
<1>2. CASE Ok(k)
  <2>1. k.icache[s].locked = TRUE
    BY <1>1, <1>2 DEF At, LocksAre, LockIs
  <2> DEFINE m == [k EXCEPT !.icache[s].locked = FALSE]
  <2>2. releasesleep(k, s) = m
    BY <1>2, <2>1 DEF releasesleep, Inode
  <2>3. /\ At(m, o, WithLock(L, s, FALSE)) /\ Step(k, m, o) /\ Ok(m)
        /\ Quiet(k, m) /\ SameAll(k, m)
    BY <1>1, <1>2, SetLocked
  <2> HIDE DEF m
  <2> QED BY <1>1, <2>2, <2>3
<1>3. CASE ~Ok(k)
  <2>1. releasesleep(k, s) = k
    BY <1>3 DEF releasesleep
  <2> QED BY <1>1, <1>3, <2>1, StepRefl DEF At
<1> QED BY <1>2, <1>3

\* iunlock() of an inode that is held and locked does not halt.
LEMMA Iunlock ==
  ASSUME NEW k, NEW o, NEW L, At(k, o, L), NEW s \in L, o[s] > 0
  PROVE  LET r == iunlock(k, s) IN
         /\ At(r, o, L \ {s}) /\ Step(k, r, o)
         /\ Ok(r) => Quiet(k, r) /\ SameAll(k, r)
         /\ Ok(k) => Ok(r)
<1>1. s \in Islots
  BY DEF At
<1>2. CASE Ok(k)
  <2>1. k.icache[s].locked = TRUE /\ ~(k.icache[s].ref < 1)
    BY <1>1, <1>2 DEF At, LocksAre, LockIs, RefsAre, Owed
  <2>2. iunlock(k, s) = releasesleep(k, s)
    BY <1>2, <2>1 DEF iunlock, Inode
  <2> QED BY <2>2, Release
<1>3. CASE ~Ok(k)
  <2>1. iunlock(k, s) = k
    BY <1>3 DEF iunlock
  <2> QED BY <1>3, <2>1, StepRefl DEF At
<1> QED BY <1>2, <1>3

\* An inode that ilock() loads is valid, or has no type and the machine halts.
LEMMA Loading ==
  ASSUME NEW k, NEW o, NEW L, At(k, o, L), NEW s \in Islots, o[s] > 0
  PROVE  LET r == Loaded(k, s) IN
         /\ At(r, o, L) /\ Step(k, r, o)
         /\ Ok(r) => /\ Quiet(k, r) /\ SameBut(k, r, s)
                     /\ r.icache[s].valid = TRUE
                     /\ r.icache[s].inum = k.icache[s].inum
                     /\ k.icache[s].valid = TRUE => SameAll(k, r)
<1>1. CASE ~Ok(k) \/ k.icache[s].valid = TRUE
  <2>1. Loaded(k, s) = k
    BY <1>1 DEF Loaded, Inode
  <2> QED BY <1>1, <2>1, StepRefl DEF Step, SameBut, SameAll
<1>2. CASE Ok(k) /\ ~(k.icache[s].valid = TRUE)
  <2> DEFINE d == k.disk[k.icache[s].inum]
             c == [inum |-> k.icache[s].inum, ref |-> k.icache[s].ref,
                   valid |-> TRUE, type |-> d.type, nlink |-> d.nlink,
                   locked |-> k.icache[s].locked]
             f == Replaced(k, s, c)
             r == Loaded(k, s)
  <2>1. /\ k \in KernelType /\ k.icache \in [Islots -> SlotType]
        /\ k.disk \in DiskType /\ o \in Owed /\ L \subseteq Islots
    BY DEF At, Safe, KernelType
  <2>2. /\ k.icache[s].ref = o[s] /\ SlotOk(k, s)
        /\ LockIs(k.icache[s], s, L) /\ k.icache[s].inum \in Inums
    BY <1>2 DEF At, RefsAre, LocksAre, LockIs, SlotsOk, SlotOk
  <2>3. d.type \in FileTypes /\ d.nlink \in Int
    BY <2>1, <2>2 DEF DiskType, DiskInode
  <2>4. k.icache[s].valid = FALSE
    BY <1>2, <2>1 DEF SlotType
  <2>5. r = IF d.type = "free" THEN Halt(f, "ilock: no type") ELSE f
    BY <1>2, <2>4 DEF Loaded, Inode, Replaced
  <2> HIDE DEF d
  <2>6. c \in SlotType
    BY <2>1, <2>3 DEF SlotType
  <2>7. /\ c.inum = k.icache[s].inum /\ c.ref = o[s] /\ LockIs(c, s, L)
        /\ c.valid = TRUE /\ c.type = d.type /\ c.nlink = d.nlink
    BY <2>2 DEF LockIs
  <2> HIDE DEF c, r
  <2>8. CASE d.type = "free"
    <3>1. Safe(f) /\ f.ofiles = k.ofiles /\ f.cwd = k.cwd
      BY <2>1, <2>6, SetSlot DEF At, Safe, Replaced
    <3>2. "ilock: no type" \in Allowed /\ "ilock: no type" # "no"
      BY DEF Allowed
    <3> HIDE DEF f
    <3>3. r = Halt(f, "ilock: no type")
      BY <2>5, <2>8
    <3>4. Safe(r) /\ ~Ok(r) /\ r.ofiles = f.ofiles /\ r.cwd = f.cwd
      BY <3>1, <3>2, <3>3, Halting
    <3> QED BY <2>1, <3>1, <3>4 DEF At, Step, r
  <2>9. CASE d.type # "free"
    <3>1. c.ref \in Nat /\ o = WithRef(o, s, c.ref)
      BY <2>1, <2>7 DEF Owed, WithRef
    <3>2. L = WithLock(L, s, c.locked)
      BY <2>1, <2>7 DEF WithLock, LockIs
    <3>3. SlotFits(k, s, c)
      BY <2>6, <2>7, <2>9, <3>1 DEF SlotFits, d
    <3>4. /\ At(f, o, L) /\ Step(k, f, o) /\ Ok(f)
          /\ f.disk = k.disk /\ f.ip = k.ip /\ f.ret = k.ret
          /\ \A t \in Islots : f.icache[t] = IF t = s THEN c ELSE k.icache[t]
      BY <1>2, <3>1, <3>2, <3>3, SlotStep
    <3>5. r = f
      BY <2>5, <2>9
    <3> HIDE DEF f
    <3>6. Quiet(k, r) /\ SameBut(k, r, s) /\ r.icache[s] = c
      BY <3>4, <3>5 DEF Quiet, SameBut, Same
    <3> QED BY <2>4, <2>7, <3>4, <3>5, <3>6 DEF r
  <2> QED BY <2>8, <2>9
<1> QED BY <1>1, <1>2

\* ilock() of an inode that is held and not locked halts for no other reason.
LEMMA Ilock ==
  ASSUME NEW k, NEW o, NEW L, At(k, o, L), NEW s \in Islots, o[s] > 0, s \notin L
  PROVE  LET r == ilock(k, s) IN
         /\ At(r, o, L \cup {s}) /\ Step(k, r, o)
         /\ Ok(r) => /\ Quiet(k, r) /\ SameBut(k, r, s)
                     /\ r.icache[s].valid = TRUE
                     /\ r.icache[s].inum = k.icache[s].inum
                     /\ k.icache[s].valid = TRUE => SameAll(k, r)
<1>1. CASE Ok(k)
  <2> DEFINE m == acquiresleep(k, s)
             r == Loaded(m, s)
  <2>1. ~(k.icache[s].ref < 1)
    BY <1>1 DEF At, RefsAre, Owed
  <2>2. ilock(k, s) = r
    BY <1>1, <2>1 DEF ilock, Inode
  <2>3. /\ At(m, o, L \cup {s}) /\ Step(k, m, o)
        /\ Ok(m) /\ Quiet(k, m) /\ SameAll(k, m)
    BY <1>1, Acquire
  <2> HIDE DEF m
  <2>4. /\ At(r, o, L \cup {s}) /\ Step(m, r, o)
        /\ Ok(r) => /\ Quiet(m, r) /\ SameBut(m, r, s)
                    /\ r.icache[s].valid = TRUE
                    /\ r.icache[s].inum = m.icache[s].inum
                    /\ m.icache[s].valid = TRUE => SameAll(m, r)
    BY <2>3, Loading
  <2> HIDE DEF r
  <2>5. Step(k, r, o)
    BY <2>3, <2>4, StepTrans
  <2> QED BY <2>2, <2>3, <2>4, <2>5 DEF Quiet, SameAll, SameBut, Same
<1>2. CASE ~Ok(k)
  <2>1. ilock(k, s) = k
    BY <1>2 DEF ilock
  <2>2. L \cup {s} \subseteq Islots
    BY DEF At
  <2> QED BY <1>2, <2>1, <2>2, StepRefl DEF At
<1> QED BY <1>1, <1>2

-----------------------------------------------------------------------------
(* fs.c: inodes on disk. *)

\* One write of an inode, whether or not the machine has halted.
LEMMA WriteInode ==
  ASSUME NEW k, Safe(k), Ok(k), NEW i \in Inums, NEW e \in DiskInode,
         DiskOk(WithInode(k.disk, i, e))
  PROVE  LET r == WriteDisk(k, WithInode(k.disk, i, e)) IN
         /\ Safe(r) /\ Ok(r)
         /\ \A j \in Inums : r.disk[j] = IF j = i THEN e ELSE k.disk[j]
         /\ r.icache = k.icache /\ r.ofiles = k.ofiles /\ r.cwd = k.cwd
         /\ r.ip = k.ip /\ r.ret = k.ret
<1> DEFINE d == WithInode(k.disk, i, e)
           r == WriteDisk(k, d)
<1>1. k \in KernelType /\ k.disk \in DiskType
  BY DEF Safe, KernelType
<1>2. d \in DiskType /\ \A j \in Inums : d[j] = IF j = i THEN e ELSE k.disk[j]
  BY <1>1 DEF DiskType, WithInode
<1>3. DiskOk(d)
  OBVIOUS
<1> HIDE DEF d
<1>4. /\ r \in KernelType /\ r.disk = d /\ r.images = k.images \cup {d}
      /\ r.icache = k.icache /\ r.ofiles = k.ofiles /\ r.ret = k.ret
      /\ r.cwd = k.cwd /\ r.halted = k.halted /\ r.ip = k.ip
  BY <1>1, <1>2, SetDisk
<1> HIDE DEF r
<1>5. Safe(r) /\ Ok(r)
  BY <1>3, <1>4 DEF Safe, Ok
<1> QED BY <1>2, <1>4, <1>5 DEF r, d

\* itrunc() takes all names out of an inode.
LEMMA Itrunc ==
  ASSUME NEW k, Safe(k), Ok(k), NEW s \in Islots, k.icache[s].inum \in Inums,
         k.disk[k.icache[s].inum].nlink = 0
  PROVE  LET r == itrunc(k, s)
             i == k.icache[s].inum IN
         /\ Safe(r) /\ Ok(r)
         /\ \A j \in Inums \ {i} : r.disk[j] = k.disk[j]
         /\ r.disk[i].ents = NoEntries /\ r.disk[i].nlink = 0
         /\ r.icache = k.icache /\ r.ofiles = k.ofiles /\ r.cwd = k.cwd
         /\ r.ip = k.ip /\ r.ret = k.ret
<1> DEFINE i == k.icache[s].inum
           e == NoNames(k.disk[i], FALSE)
           r == itrunc(k, s)
<1>1. k.disk \in DiskType /\ k.disk[i] \in DiskInode
  BY DEF Safe, KernelType, DiskType
<1>2. e \in DiskInode /\ e.ents = NoEntries /\ e.nlink = 0
  BY <1>1, NoEntriesType DEF DiskInode, NoNames
<1>3. r = WriteDisk(k, WithInode(k.disk, i, e))
  BY DEF itrunc, Inode, WithInode
<1> HIDE DEF e, r
<1>4. DiskOk(WithInode(k.disk, i, e))
  <2> DEFINE f == WithInode(k.disk, i, e)
  <2>1. OnlyInode(k.disk, f, i) /\ f[i] = e
    BY <1>1, <1>2, OneInode
  <2> HIDE DEF f
  <2>2. f[i].nlink = 0 /\ f[i].ents = NoEntries /\ DiskOk(k.disk)
    BY <1>2, <2>1 DEF Safe
  <2>3. DiskOk(f)
    BY <1>1, <2>1, <2>2, Blanked
  <2> QED BY <2>3 DEF f
<1> HIDE DEF i
<1>5. i \in Inums
  BY DEF i
<1> QED BY <1>2, <1>3, <1>4, <1>5, WriteInode DEF r, i

\* iupdate() writes the type and link count of a slot.
LEMMA Iupdate ==
  ASSUME NEW k, Safe(k), Ok(k), NEW s \in Islots, k.icache[s].inum \in Inums,
         DiskOk(WithInode(k.disk, k.icache[s].inum, Saved(k, s)))
  PROVE  LET r == iupdate(k, s)
             i == k.icache[s].inum IN
         /\ Safe(r) /\ Ok(r)
         /\ \A j \in Inums \ {i} : r.disk[j] = k.disk[j]
         /\ r.disk[i].ents = k.disk[i].ents /\ r.disk[i].emptied = k.disk[i].emptied
         /\ r.disk[i].type = k.icache[s].type /\ r.disk[i].nlink = k.icache[s].nlink
         /\ r.icache = k.icache /\ r.ofiles = k.ofiles /\ r.cwd = k.cwd
         /\ r.ip = k.ip /\ r.ret = k.ret
<1> DEFINE i == k.icache[s].inum
           c == k.icache[s]
           e == [k.disk[i] EXCEPT !.type = c.type, !.nlink = c.nlink]
           r == iupdate(k, s)
<1>1. k.disk \in DiskType /\ k.disk[i] \in DiskInode /\ c \in SlotType
  BY DEF Safe, KernelType, DiskType
<1>2. e \in DiskInode
  BY <1>1 DEF DiskInode, SlotType
<1>3. r = WriteDisk(k, WithInode(k.disk, i, e))
  BY DEF iupdate, Inode, WithInode
<1>4. DiskOk(WithInode(k.disk, i, e))
  BY DEF Saved
<1>5. /\ e.ents = k.disk[i].ents /\ e.type = c.type /\ e.nlink = c.nlink
      /\ e.emptied = k.disk[i].emptied
  BY <1>1 DEF DiskInode
<1> HIDE DEF e, r, i, c
<1>6. i \in Inums
  BY DEF i
<1> QED BY <1>2, <1>3, <1>4, <1>5, <1>6, WriteInode DEF r, i, c

\* A slot is given other contents, whatever is owed.
LEMMA SafeSlot ==
  ASSUME NEW k, Safe(k), Ok(k), NEW s \in Islots, NEW c \in SlotType
  PROVE  LET r == Replaced(k, s, c) IN
         /\ Safe(r) /\ Ok(r) /\ Quiet(k, r)
         /\ r.ofiles = k.ofiles /\ r.cwd = k.cwd
         /\ \A t \in Islots : r.icache[t] = IF t = s THEN c ELSE k.icache[t]
<1> DEFINE r == Replaced(k, s, c)
<1>1. k \in KernelType
  BY DEF Safe
<1>2. /\ r \in KernelType
      /\ \A t \in Islots : r.icache[t] = IF t = s THEN c ELSE k.icache[t]
      /\ r.disk = k.disk /\ r.ofiles = k.ofiles /\ r.ret = k.ret
      /\ r.cwd = k.cwd /\ r.halted = k.halted /\ r.ip = k.ip /\ r.images = k.images
  BY <1>1, SetSlot DEF Replaced
<1> HIDE DEF r
<1> QED BY <1>2 DEF Safe, Ok, Quiet, r

\* What iput() does with the last reference to an inode without links.
LEMMA Freeing ==
  ASSUME NEW k, NEW o, NEW L, At(k, o, L), Ok(k), NEW s \in Islots, o[s] = 1,
         k.icache[s].valid = TRUE, k.icache[s].nlink = 0,
         NEW q, q[s] = 0, \A t \in Islots : q[t] > 0 => o[t] > 0
  PROVE  LET r == Freed(k, s) IN
         /\ At(r, o, L) /\ Step(k, r, q) /\ Ok(r)
         /\ r.ip = k.ip /\ r.ret = k.ret /\ SameBut(k, r, s)
         /\ FreesAtMost(k.disk, r.disk, k.icache[s].inum)
<1> DEFINE i == k.icache[s].inum
           a == itrunc(k, s)
           b == Replaced(a, s, [a.icache[s] EXCEPT !.type = "free"])
           c == iupdate(b, s)
           r == Replaced(c, s, [c.icache[s] EXCEPT !.valid = FALSE])
<1>1. Freed(k, s) = r
  BY DEF Freed, Replaced
<1>2. /\ Safe(k) /\ i \in Inums /\ k.icache[s].ref = 1 /\ k.disk[i].nlink = 0
      /\ \A t \in Islots \ {s} : k.icache[t].ref > 0 => k.icache[t].inum # i
  BY DEF At, RefsAre, SlotsOk, SlotOk
<1>3. /\ Safe(a) /\ Ok(a)
      /\ \A j \in Inums \ {i} : a.disk[j] = k.disk[j]
      /\ a.disk[i].ents = NoEntries /\ a.disk[i].nlink = 0
      /\ a.icache = k.icache /\ a.ofiles = k.ofiles /\ a.cwd = k.cwd
      /\ a.ip = k.ip /\ a.ret = k.ret
  BY <1>2, Itrunc
<1> HIDE DEF a
<1> DEFINE c1 == [a.icache[s] EXCEPT !.type = "free"]
<1>4. /\ c1 \in SlotType /\ c1.inum = i /\ c1.ref = 1
      /\ c1.type = "free" /\ c1.nlink = 0
      /\ c1.locked = k.icache[s].locked
  <2>1. a.icache[s] \in SlotType
    BY <1>3 DEF Safe, KernelType
  <2> QED BY <1>2, <1>3, <2>1 DEF SlotType, FileTypes
<1> HIDE DEF c1, i
<1>5. /\ Safe(b) /\ Ok(b) /\ Quiet(a, b)
      /\ b.ofiles = a.ofiles /\ b.cwd = a.cwd
      /\ \A t \in Islots : b.icache[t] = IF t = s THEN c1 ELSE a.icache[t]
  BY <1>3, <1>4, SafeSlot DEF c1
<1> HIDE DEF b
<1>6. /\ b.icache[s].inum = i /\ b.icache[s] = c1
      /\ DiskOk(WithInode(b.disk, i, Saved(b, s)))
  <2> DEFINE e == Saved(b, s)
             f == WithInode(b.disk, i, e)
  <2>1. b.icache[s].inum = i /\ b.icache[s] = c1 /\ b.disk = a.disk
    BY <1>4, <1>5 DEF Quiet
  <2>2. b.disk \in DiskType /\ DiskOk(b.disk) /\ NoEntries \in [DirNames -> 0 .. NINODES]
    BY <1>5, NoEntriesType DEF Safe, KernelType
  <2> b.disk[i] \in DiskInode
    BY <1>2, <2>2 DEF DiskType
  <2>3. e.nlink = 0 /\ e.ents = NoEntries
    BY <1>3, <1>4, <2>1 DEF Saved, DiskInode
  <2>4. e \in DiskInode
    BY <1>4, <2>1 DEF Saved, DiskInode, SlotType
  <2> HIDE DEF e
  <2>5. OnlyInode(b.disk, f, i) /\ f[i] = e
    BY <1>2, <2>2, <2>4, OneInode
  <2> HIDE DEF f
  <2>6. f[i].nlink = 0 /\ f[i].ents = NoEntries /\ b.disk[i].nlink = 0
    BY <1>3, <2>1, <2>3, <2>5
  <2>7. DiskOk(f)
    BY <1>2, <2>2, <2>5, <2>6, Blanked
  <2> QED BY <2>1, <2>7 DEF f, e
<1>7. /\ Safe(c) /\ Ok(c)
      /\ \A j \in Inums \ {i} : c.disk[j] = b.disk[j]
      /\ c.disk[i].ents = b.disk[i].ents /\ c.disk[i].nlink = b.icache[s].nlink
      /\ c.icache = b.icache /\ c.ofiles = b.ofiles /\ c.cwd = b.cwd
      /\ c.ip = b.ip /\ c.ret = b.ret
  BY <1>2, <1>5, <1>6, Iupdate
<1> HIDE DEF c
<1> DEFINE c2 == [c.icache[s] EXCEPT !.valid = FALSE]
<1>8. /\ c2 \in SlotType /\ c2.inum = i /\ c2.ref = 1
      /\ c2.valid = FALSE /\ c2.locked = k.icache[s].locked
  <2>1. c.icache[s] = c1
    BY <1>5, <1>7
  <2> QED BY <1>4, <2>1 DEF SlotType
<1>9. r = Replaced(c, s, c2)
  OBVIOUS
<1> HIDE DEF c2, r
<1>10. /\ Safe(r) /\ Ok(r) /\ Quiet(c, r)
      /\ r.ofiles = c.ofiles /\ r.cwd = c.cwd
      /\ \A t \in Islots : r.icache[t] = IF t = s THEN c2 ELSE c.icache[t]
  BY <1>7, <1>8, <1>9, SafeSlot
<1>11. /\ \A t \in Islots : r.icache[t] = IF t = s THEN c2 ELSE k.icache[t]
       /\ \A j \in Inums \ {i} : r.disk[j] = k.disk[j]
       /\ r.disk[i].nlink = 0 /\ r.disk[i].ents = NoEntries
       /\ r.ofiles = k.ofiles /\ r.cwd = k.cwd /\ r.ip = k.ip /\ r.ret = k.ret
  BY <1>3, <1>4, <1>5, <1>6, <1>7, <1>10 DEF Quiet
<1>12. RefsAre(r, o) /\ LocksAre(r, L)
  BY <1>2, <1>8, <1>11 DEF At, RefsAre, LocksAre, LockIs
<1>13. SlotsOk(r)
  <2> SUFFICES ASSUME NEW t \in Islots, r.icache[t].ref > 0 PROVE SlotOk(r, t)
    BY DEF SlotsOk
  <2>1. \A u \in Islots : /\ r.icache[u].ref > 0 => k.icache[u].ref > 0
                          /\ r.icache[u].inum = k.icache[u].inum
    BY <1>2, <1>8, <1>11 DEF i
  <2>2. SlotOk(k, t)
    BY <2>1 DEF At, SlotsOk
  <2>3. CASE t = s
    BY <1>8, <1>11, <2>1, <2>2, <2>3 DEF SlotOk
  <2>4. CASE t # s
    <3>1. k.icache[t].inum \in Inums \ {i}
      BY <1>2, <2>1, <2>2, <2>4 DEF SlotOk
    <3> QED BY <1>11, <2>1, <2>2, <2>4, <3>1 DEF SlotOk
  <2> QED BY <2>3, <2>4
<1>14. Keeps(k, r, q)
  <2> SUFFICES ASSUME NEW t \in Islots, q[t] > 0 PROVE KeepsSlot(k, r, t)
    BY DEF Keeps
  <2>1. t # s /\ o[t] > 0 /\ k.icache[t].ref > 0 /\ SlotOk(k, t)
    BY DEF At, RefsAre, SlotsOk
  <2>2. k.icache[t].inum \in Inums \ {i}
    BY <1>2, <2>1 DEF SlotOk
  <2> QED BY <1>11, <2>1, <2>2 DEF KeepsSlot
<1>15. SameBut(k, r, s)
  BY <1>11 DEF SameBut, Same
<1>16. At(r, o, L) /\ Step(k, r, q)
  BY <1>10, <1>11, <1>12, <1>13, <1>14 DEF At, Step
<1>17. FreesAtMost(k.disk, r.disk, i)
  BY <1>2, <1>11 DEF FreesAtMost, OnlyInode
<1> QED BY <1>1, <1>10, <1>11, <1>15, <1>16, <1>17 DEF i

\* One reference less, when what goes with the last one has been done.
LEMMA Dropping ==
  ASSUME NEW k, NEW o, NEW L, NEW s \in Islots, o \in Owed, At(k, More(o, s), L)
  PROVE  LET r == DropRef(k, s) IN
         /\ At(r, o, L) /\ Step(k, r, o)
         /\ Ok(r) => Quiet(k, r) /\ SameAll(k, r)
         /\ Ok(k) => Ok(r)
<1>1. CASE ~Ok(k)
  <2>1. DropRef(k, s) = k
    BY <1>1 DEF DropRef
  <2> QED BY <1>1, <2>1, StepRefl DEF At
<1>2. CASE Ok(k)
  <2> DEFINE c == [k.icache[s] EXCEPT !.ref = k.icache[s].ref - 1]
             m == Replaced(k, s, c)
  <2>1. k.icache \in [Islots -> SlotType] /\ L \subseteq Islots
    BY DEF At, Safe, KernelType
  <2>2. /\ c \in SlotType /\ c.ref = k.icache[s].ref - 1
        /\ c.inum = k.icache[s].inum /\ c.valid = k.icache[s].valid
        /\ c.type = k.icache[s].type /\ c.nlink = k.icache[s].nlink
        /\ c.locked = k.icache[s].locked
    BY <2>1 DEF SlotType
  <2>3. DropRef(k, s) = m
    BY <1>2 DEF DropRef, Replaced
  <2> HIDE DEF c
  <2>4. /\ k.icache[s].ref = o[s] + 1 /\ More(o, s)[s] > 0 /\ SlotOk(k, s)
        /\ LockIs(k.icache[s], s, L)
    BY <1>2 DEF At, RefsAre, LocksAre, SlotsOk, More, Owed
  <2>5. c.ref \in Nat /\ o = WithRef(More(o, s), s, c.ref)
    BY <2>2, <2>4 DEF More, Owed, WithRef
  <2>6. L = WithLock(L, s, c.locked)
    BY <2>1, <2>2, <2>4 DEF WithLock, LockIs
  <2>7. SlotFits(k, s, c)
    BY <2>2, <2>4, <2>5 DEF SlotOk, SlotFits
  <2>8. /\ At(m, o, L) /\ Step(k, m, o) /\ Ok(m)
        /\ m.disk = k.disk /\ m.ip = k.ip /\ m.ret = k.ret
        /\ \A t \in Islots : m.icache[t] = IF t = s THEN c ELSE k.icache[t]
    BY <1>2, <2>4, <2>5, <2>6, <2>7, SlotStep
  <2> HIDE DEF m
  <2>9. Quiet(k, m) /\ SameAll(k, m)
    BY <2>2, <2>8 DEF Quiet, SameAll, Same
  <2> QED BY <2>3, <2>8, <2>9
<1> QED BY <1>1, <1>2

\* A reference is given back, and nobody else notices.
LEMMA Iput ==
  ASSUME NEW k, NEW o, NEW L, NEW s \in Islots, o \in Owed, At(k, More(o, s), L),
         s \notin L
  PROVE  LET r == iput(k, s) IN
         /\ At(r, o, L) /\ Step(k, r, o)
         /\ Ok(k) => Ok(r)
         /\ Ok(r) => /\ r.ip = k.ip /\ r.ret = k.ret /\ SameBut(k, r, s)
                     /\ FreesAtMost(k.disk, r.disk, k.icache[s].inum)
<1> DEFINE p == More(o, s)
           a == acquiresleep(k, s)
           b == FreedIfLast(a, s)
           c == releasesleep(b, s)
           r == DropRef(c, s)
<1>1. iput(k, s) = r
  BY DEF iput
<1>2. p \in Owed /\ p[s] > 0 /\ p[s] = o[s] + 1 /\ \A t \in Islots : o[t] > 0 => p[t] > 0
  BY DEF More, Owed
<1>3. /\ At(a, p, L \cup {s}) /\ Step(k, a, p)
      /\ Ok(a) => Quiet(k, a) /\ SameAll(k, a)
      /\ Ok(k) => Ok(a)
  BY <1>2, Acquire
<1> HIDE DEF a
<1>4. /\ At(b, p, L \cup {s}) /\ Step(a, b, o)
      /\ Ok(b) => /\ b.ip = a.ip /\ b.ret = a.ret /\ SameBut(a, b, s)
                  /\ FreesAtMost(a.disk, b.disk, a.icache[s].inum)
      /\ Ok(a) => Ok(b)
  <2>1. CASE Ok(a) /\ a.icache[s].valid /\ a.icache[s].nlink = 0 /\ a.icache[s].ref = 1
    <3>1. b = Freed(a, s)
      BY <2>1 DEF FreedIfLast, Inode
    <3>2. p[s] = 1 /\ o[s] = 0
      BY <1>2, <1>3, <2>1 DEF At, RefsAre, Owed
    <3>3. a.icache[s].valid = TRUE
      BY <1>3, <2>1 DEF At, Safe, KernelType, SlotType
    <3> HIDE DEF b
    <3> QED BY <1>2, <1>3, <2>1, <3>1, <3>2, <3>3, Freeing
  <2>2. CASE ~(Ok(a) /\ a.icache[s].valid /\ a.icache[s].nlink = 0 /\ a.icache[s].ref = 1)
    <3>1. b = a
      BY <2>2 DEF FreedIfLast, Inode
    <3> QED BY <1>3, <3>1, StepRefl
            DEF Quiet, SameAll, SameBut, Same, FreesAtMost, OnlyInode
  <2> QED BY <2>1, <2>2
<1> HIDE DEF b
<1>5. s \in L \cup {s} /\ (L \cup {s}) \ {s} = L
  OBVIOUS
<1>6. /\ At(c, p, L) /\ Step(b, c, p)
      /\ Ok(c) => Quiet(b, c) /\ SameAll(b, c)
      /\ Ok(b) => Ok(c)
  BY <1>2, <1>4, <1>5, Release
<1> HIDE DEF c
<1>7. /\ At(r, o, L) /\ Step(c, r, o)
      /\ Ok(r) => Quiet(c, r) /\ SameAll(c, r)
      /\ Ok(c) => Ok(r)
  BY <1>6, Dropping
<1> HIDE DEF r
<1>8. Step(k, b, o)
  BY <1>2, <1>3, <1>4, StepTrans
<1>9. Step(k, c, o)
  BY <1>2, <1>6, <1>8, StepTrans
<1>10. Step(k, r, o)
  BY <1>7, <1>9, StepTrans
<1>11. Ok(r) => Ok(c) /\ Ok(b) /\ Ok(a)
  BY <1>4, <1>6, <1>7 DEF Step
<1>12. Ok(r) => r.ip = k.ip /\ r.ret = k.ret /\ SameBut(k, r, s)
  BY <1>3, <1>4, <1>6, <1>7, <1>11 DEF Quiet, SameAll, SameBut, Same
<1>13. Ok(r) => FreesAtMost(k.disk, r.disk, k.icache[s].inum)
  BY <1>3, <1>4, <1>6, <1>7, <1>11 DEF Quiet, SameAll, Same
<1> QED BY <1>1, <1>3, <1>4, <1>6, <1>7, <1>10, <1>12, <1>13

\* iunlockput() unlocks an inode and takes one reference back.
LEMMA Iunlockput ==
  ASSUME NEW k, NEW o, NEW L, NEW s \in L, o \in Owed, At(k, More(o, s), L)
  PROVE  LET r == iunlockput(k, s) IN
         /\ At(r, o, L \ {s}) /\ Step(k, r, o)
         /\ Ok(k) => Ok(r)
         /\ Ok(r) => /\ r.ip = k.ip /\ r.ret = k.ret /\ SameBut(k, r, s)
                     /\ FreesAtMost(k.disk, r.disk, k.icache[s].inum)
<1> DEFINE m == iunlock(k, s)
           r == iput(m, s)
<1>1. iunlockput(k, s) = r /\ s \in Islots
  BY DEF iunlockput, At
<1>2. More(o, s)[s] > 0 /\ \A t \in Islots : o[t] > 0 => More(o, s)[t] > 0
  BY <1>1 DEF More, Owed
<1>3. /\ At(m, More(o, s), L \ {s}) /\ Step(k, m, More(o, s))
      /\ Ok(m) => Quiet(k, m) /\ SameAll(k, m)
      /\ Ok(k) => Ok(m)
  BY <1>2, Iunlock
<1> HIDE DEF m
<1>4. /\ At(r, o, L \ {s}) /\ Step(m, r, o)
      /\ Ok(m) => Ok(r)
      /\ Ok(r) => /\ r.ip = m.ip /\ r.ret = m.ret /\ SameBut(m, r, s)
                  /\ FreesAtMost(m.disk, r.disk, m.icache[s].inum)
  BY <1>1, <1>3, Iput
<1> HIDE DEF r
<1>5. Step(k, r, o)
  BY <1>2, <1>3, <1>4, StepTrans
<1>6. Ok(r) => Ok(m)
  BY <1>4 DEF Step
<1> QED BY <1>1, <1>3, <1>4, <1>5, <1>6 DEF Quiet, SameAll, SameBut, Same

\* A slot written to the disk, whose link count may have been changed before.
LEMMA Saving ==
  ASSUME NEW k, NEW o, NEW L, At(k, o, L), Ok(k), NEW s \in Islots, o[s] > 0,
         k.icache[s].valid = TRUE,
         NEW m, OnlyNlink(k, m, s)
  PROVE  LET r == iupdate(m, s) IN
         /\ At(r, o, L) /\ Step(k, r, o) /\ Ok(r) /\ SameAll(k, r) /\ SameEnts(k, r)
         /\ r.ip = k.ip /\ r.ret = k.ret /\ r.icache = m.icache
         /\ Relinked(k.disk, r.disk, k.icache[s].inum, m.icache[s].nlink)
<1> DEFINE i == k.icache[s].inum
           r == iupdate(m, s)
<1>1. SlotOk(k, s) /\ i \in Inums /\ k.icache[s].ref = o[s] /\ o \in Owed /\ L \subseteq Islots
  BY DEF At, RefsAre, SlotsOk, SlotOk
<1>2. /\ m.icache[s].inum = i /\ m.disk = k.disk /\ Safe(m) /\ Ok(m) /\ Quiet(k, m)
      /\ m.ofiles = k.ofiles /\ m.cwd = k.cwd
      /\ \A t \in Islots \ {s} : m.icache[t] = k.icache[t]
      /\ Same(k, m, s) /\ m.icache[s].ref = k.icache[s].ref
      /\ m.icache[s].locked = k.icache[s].locked
      /\ Needed(k.disk, i) <= m.icache[s].nlink
  BY DEF Same, Quiet, OnlyNlink
<1> DEFINE j0 == m.icache[s].inum
<1>3. /\ Safe(r) /\ Ok(r)
      /\ \A j \in Inums \ {j0} : r.disk[j] = m.disk[j]
      /\ r.disk[j0].ents = m.disk[j0].ents /\ r.disk[j0].emptied = m.disk[j0].emptied
      /\ r.disk[j0].type = m.icache[s].type /\ r.disk[j0].nlink = m.icache[s].nlink
      /\ r.icache = m.icache /\ r.ofiles = m.ofiles /\ r.cwd = m.cwd
      /\ r.ip = m.ip /\ r.ret = m.ret
  <2>1. Safe(m) /\ Ok(m) /\ m.icache[s].inum \in Inums
    BY <1>1, <1>2
  <2> DEFINE e == Saved(m, s)
             f == WithInode(m.disk, i, e)
  <2>2. /\ m.disk \in DiskType /\ DiskOk(m.disk) /\ m.disk[i] \in DiskInode
        /\ m.icache[s] \in SlotType
    BY <1>1, <1>2 DEF Safe, KernelType, DiskType
  <2>3. /\ e \in DiskInode /\ e.type = m.icache[s].type /\ e.nlink = m.icache[s].nlink
        /\ e.ents = m.disk[i].ents /\ e.emptied = m.disk[i].emptied
    BY <1>2, <2>2 DEF Saved, DiskInode, SlotType
  <2>4. m.icache[s].type = m.disk[i].type /\ m.disk[i].type # "free"
    BY <1>1, <1>2 DEF SlotOk, Same
  <2> HIDE DEF e, i
  <2>5. OnlyInode(m.disk, f, i) /\ f[i] = e
    BY <1>1, <2>2, <2>3, OneInode
  <2> HIDE DEF f
  <2>6. /\ Needed(m.disk, i) <= f[i].nlink /\ f[i].type = m.disk[i].type
        /\ f[i].ents = m.disk[i].ents /\ f[i].emptied = m.disk[i].emptied
    BY <1>2, <2>3, <2>4, <2>5
  <2>7. DiskOk(f)
    BY <1>1, <2>2, <2>4, <2>5, <2>6, LinkChanged
  <2>8. DiskOk(WithInode(m.disk, m.icache[s].inum, Saved(m, s)))
    BY <1>2, <2>7 DEF f, e, i
  <2> QED BY <2>1, <2>8, Iupdate
<1> HIDE DEF r
<1>4. /\ Safe(r) /\ Ok(r)
      /\ \A j \in Inums \ {i} : r.disk[j] = k.disk[j]
      /\ r.disk[i].ents = k.disk[i].ents /\ r.disk[i].emptied = k.disk[i].emptied
      /\ r.disk[i].type = m.icache[s].type /\ r.disk[i].nlink = m.icache[s].nlink
      /\ r.icache = m.icache /\ r.ofiles = m.ofiles /\ r.cwd = m.cwd
      /\ r.ip = m.ip /\ r.ret = m.ret
  BY <1>2, <1>3
<1>5. \A t \in Islots : /\ Same(k, r, t) /\ r.icache[t].ref = k.icache[t].ref
                        /\ r.icache[t].locked = k.icache[t].locked
                        /\ t # s => r.icache[t].nlink = k.icache[t].nlink
  BY <1>2, <1>4 DEF Same
<1>6. r.disk[i].type = k.disk[i].type
  BY <1>1, <1>2, <1>4 DEF SlotOk, Same
<1> HIDE DEF i
<1>7. RefsAre(r, o) /\ LocksAre(r, L)
  BY <1>5 DEF At, RefsAre, LocksAre, LockIs
<1>8. SlotsOk(r)
  <2> SUFFICES ASSUME NEW t \in Islots, r.icache[t].ref > 0 PROVE SlotOk(r, t)
    BY DEF SlotsOk
  <2>1. \A u \in Islots : /\ r.icache[u].ref = k.icache[u].ref
                          /\ r.icache[u].inum = k.icache[u].inum
    BY <1>5 DEF Same
  <2>2. SlotOk(k, t)
    BY <2>1 DEF At, SlotsOk
  <2>3. CASE t = s
    <3>1. r.icache[s].inum = i /\ r.icache[s].nlink = r.disk[i].nlink
          /\ r.icache[s].type = r.disk[i].type /\ r.icache[s].type # "free"
      BY <1>1, <1>2, <1>4, <1>5 DEF SlotOk, Same
    <3> QED BY <1>1, <2>1, <2>2, <2>3, <3>1 DEF SlotOk
  <2>4. CASE t # s
    <3>1. k.icache[t].inum \in Inums \ {i}
      BY <1>1, <2>2, <2>1, <2>4, o[s] > 0 DEF SlotOk, i
    <3>2. r.disk[k.icache[t].inum] = k.disk[k.icache[t].inum]
      BY <1>4, <3>1
    <3>3. /\ r.icache[t].inum = k.icache[t].inum /\ r.icache[t].valid = k.icache[t].valid
          /\ r.icache[t].type = k.icache[t].type /\ r.icache[t].nlink = k.icache[t].nlink
      BY <1>5, <2>4 DEF Same
    <3> QED BY <2>1, <2>2, <2>4, <3>2, <3>3 DEF SlotOk
  <2> QED BY <2>3, <2>4
<1>9. \A j \in Inums : r.disk[j].type = k.disk[j].type /\ r.disk[j].ents = k.disk[j].ents
  BY <1>4, <1>6
<1>10. Keeps(k, r, o)
  <2> SUFFICES ASSUME NEW t \in Islots, o[t] > 0 PROVE KeepsSlot(k, r, t)
    BY DEF Keeps
  <2>1. k.icache[t].inum \in Inums
    BY DEF At, RefsAre, SlotsOk, SlotOk
  <2> QED BY <1>5, <1>9, <2>1 DEF KeepsSlot, Same
<1>11. At(r, o, L)
  BY <1>1, <1>4, <1>7, <1>8 DEF At
<1>12. Step(k, r, o) /\ r.ip = k.ip /\ r.ret = k.ret
  BY <1>2, <1>4, <1>10 DEF Step, Quiet
<1>13. Relinked(k.disk, r.disk, i, m.icache[s].nlink)
  <2>1. /\ OnlyInode(k.disk, r.disk, i) /\ r.disk[i].type = k.disk[i].type
        /\ r.disk[i].ents = k.disk[i].ents /\ r.disk[i].emptied = k.disk[i].emptied
        /\ Needed(k.disk, i) <= r.disk[i].nlink
    BY <1>2, <1>4, <1>6 DEF OnlyInode
  <2>2. k.disk \in DiskType /\ DiskOk(k.disk) /\ k.disk[i].type # "free"
    BY <1>1 DEF At, Safe, KernelType, SlotOk, i
  <2>3. \A j \in Inums : Needed(r.disk, j) = Needed(k.disk, j)
    BY <1>1, <2>1, <2>2, LinkChanged
  <2> QED BY <1>4, <2>1, <2>3 DEF Relinked
<1> QED BY <1>4, <1>5, <1>9, <1>11, <1>12, <1>13 DEF SameAll, SameEnts, r, i

\* iupdate() of an inode that is held and valid writes what the disk has.
LEMMA Update ==
  ASSUME NEW k, NEW o, NEW L, At(k, o, L), NEW s \in Islots, o[s] > 0,
         Ok(k) => k.icache[s].valid = TRUE
  PROVE  LET r == iupdate(k, s) IN
         /\ At(r, o, L) /\ Step(k, r, o) /\ (Ok(k) => Ok(r))
         /\ Ok(r) => /\ SameAll(k, r) /\ SameEnts(k, r)
                     /\ r.ip = k.ip /\ r.ret = k.ret
<1>1. CASE Ok(k)
  <2>1. Needed(k.disk, k.icache[s].inum) <= k.icache[s].nlink
    <3>1. SlotOk(k, s)
      BY <1>1 DEF At, RefsAre, SlotsOk
    <3> QED BY <1>1, <3>1 DEF At, Safe, SlotOk, DiskOk, InodeOk
  <2>2. OnlyNlink(k, k, s)
    BY <1>1, <2>1 DEF At, Quiet, Same, OnlyNlink
  <2> QED BY <1>1, <2>2, Saving
<1>2. CASE ~Ok(k)
  <2>1. iupdate(k, s) = k
    BY <1>2 DEF iupdate, WriteDisk
  <2> QED BY <1>2, <2>1, StepRefl
<1> QED BY <1>1, <1>2

\* iupdate() after a change of the link count.
LEMMA SetNlink ==
  ASSUME NEW k, NEW o, NEW L, At(k, o, L), NEW s \in Islots, o[s] > 0,
         Ok(k), k.icache[s].valid = TRUE, NEW v \in Int,
         Needed(k.disk, k.icache[s].inum) <= v
  PROVE  LET r == iupdate([k EXCEPT !.icache[s].nlink = v], s) IN
         /\ At(r, o, L) /\ Step(k, r, o) /\ Ok(r) /\ SameAll(k, r) /\ SameEnts(k, r)
         /\ r.ip = k.ip /\ r.ret = k.ret
         /\ Relinked(k.disk, r.disk, k.icache[s].inum, v)
<1> DEFINE c == [k.icache[s] EXCEPT !.nlink = v]
           m == Replaced(k, s, c)
<1>1. k.icache \in [Islots -> SlotType] /\ Safe(k)
  BY DEF At, Safe, KernelType
<1>2. /\ c \in SlotType /\ c.ref = k.icache[s].ref
      /\ c.inum = k.icache[s].inum /\ c.valid = k.icache[s].valid
      /\ c.type = k.icache[s].type /\ c.locked = k.icache[s].locked
      /\ c.nlink = v
  BY <1>1 DEF SlotType
<1>3. [k EXCEPT !.icache[s].nlink = v] = m
  BY DEF Replaced
<1> HIDE DEF c
<1>4. /\ Safe(m) /\ Ok(m) /\ Quiet(k, m) /\ m.ofiles = k.ofiles /\ m.cwd = k.cwd
      /\ \A t \in Islots : m.icache[t] = IF t = s THEN c ELSE k.icache[t]
  BY <1>1, <1>2, SafeSlot
<1> HIDE DEF m
<1>5. /\ \A t \in Islots \ {s} : m.icache[t] = k.icache[t]
      /\ Same(k, m, s) /\ m.icache[s].ref = k.icache[s].ref
      /\ m.icache[s].locked = k.icache[s].locked /\ m.icache[s].nlink = v
  BY <1>2, <1>4 DEF Same
<1>6. OnlyNlink(k, m, s)
  BY <1>4, <1>5 DEF OnlyNlink
<1> DEFINE r == iupdate(m, s)
<1>7. /\ At(r, o, L) /\ Step(k, r, o) /\ Ok(r) /\ SameAll(k, r) /\ SameEnts(k, r)
      /\ r.ip = k.ip /\ r.ret = k.ret
      /\ Relinked(k.disk, r.disk, k.icache[s].inum, m.icache[s].nlink)
  BY <1>6, Saving
<1> QED BY <1>3, <1>5, <1>7

\* O_TRUNC takes all names out of an inode that is held and valid, and keeps its
\* type and links.
LEMMA Truncating ==
  ASSUME NEW k, NEW o, NEW L, At(k, o, L), NEW s \in Islots, o[s] > 0,
         Ok(k) => k.icache[s].valid = TRUE
  PROVE  LET r == Truncate(k, s) IN
         /\ At(r, o, L) /\ Step(k, r, o)
<1>1. CASE ~Ok(k)
  <2>1. Truncate(k, s) = k
    BY <1>1 DEF Truncate, WriteDisk
  <2> QED BY <1>1, <2>1, StepRefl
<1>2. CASE Ok(k)
  <2> DEFINE i == k.icache[s].inum
             c == k.icache[s]
             b == (k.disk[i].emptied \/ c.type = "dir")
             e == [NoNames(k.disk[i], b) EXCEPT !.type = c.type, !.nlink = c.nlink]
             r == Truncate(k, s)
  <2>1. /\ Safe(k) /\ k.disk \in DiskType /\ i \in Inums /\ k.disk[i] \in DiskInode
        /\ o \in Owed /\ L \subseteq Islots
        /\ c.type = k.disk[i].type /\ c.nlink = k.disk[i].nlink
    BY <1>2 DEF At, RefsAre, SlotsOk, SlotOk, Safe, KernelType, DiskType
  <2>2. b \in BOOLEAN /\ (c.type = "dir" => b = TRUE)
    OBVIOUS
  <2>3. r = WriteDisk(k, WithInode(k.disk, i, e))
    BY DEF Truncate, Inode, WithInode
  <2> HIDE DEF b
  <2>4. /\ e \in DiskInode /\ e.type = k.disk[i].type /\ e.nlink = k.disk[i].nlink
        /\ e.ents = NoEntries /\ e.emptied = b
    BY <2>1, <2>2, NoEntriesType DEF DiskInode, NoNames
  <2> HIDE DEF e, r
  <2>5. DiskOk(WithInode(k.disk, i, e))
    <3> DEFINE f == WithInode(k.disk, i, e)
    <3>1. OnlyInode(k.disk, f, i) /\ f[i] = e
      BY <2>1, <2>4, OneInode
    <3> HIDE DEF f
    <3>2. /\ f[i].type = k.disk[i].type /\ f[i].nlink = k.disk[i].nlink
          /\ f[i].ents = NoEntries
          /\ k.disk[i].type = "dir" => f[i].emptied = TRUE
      BY <2>1, <2>2, <2>4, <3>1
    <3>3. DiskOk(k.disk)
      BY <2>1 DEF Safe
    <3>4. DiskOk(f)
      BY <2>1, <3>1, <3>2, <3>3, NamesGone
    <3> QED BY <3>4 DEF f
  <2> HIDE DEF i, c
  <2>6. /\ Safe(r) /\ Ok(r)
        /\ \A j \in Inums : r.disk[j] = IF j = i THEN e ELSE k.disk[j]
        /\ r.icache = k.icache /\ r.ofiles = k.ofiles /\ r.cwd = k.cwd
        /\ r.ip = k.ip /\ r.ret = k.ret
    BY <1>2, <2>1, <2>3, <2>4, <2>5, WriteInode
  <2>7. \A j \in Inums : /\ r.disk[j].type = k.disk[j].type
                         /\ r.disk[j].nlink = k.disk[j].nlink
    BY <2>4, <2>6
  <2>8. RefsAre(r, o) /\ LocksAre(r, L)
    BY <1>2, <2>6 DEF At, RefsAre, LocksAre, LockIs
  <2>9. SlotsOk(r)
    <3> SUFFICES ASSUME NEW t \in Islots, r.icache[t].ref > 0 PROVE SlotOk(r, t)
      BY DEF SlotsOk
    <3>1. SlotOk(k, t)
      BY <1>2, <2>6 DEF At, SlotsOk
    <3> QED BY <2>6, <2>7, <3>1 DEF SlotOk
  <2>10. Keeps(k, r, o)
    <3> SUFFICES ASSUME NEW t \in Islots, o[t] > 0 PROVE KeepsSlot(k, r, t)
      BY DEF Keeps
    <3>1. k.icache[t].inum \in Inums
      BY <1>2 DEF At, RefsAre, SlotsOk, SlotOk
    <3> QED BY <2>6, <2>7, <3>1 DEF KeepsSlot
  <2>11. At(r, o, L)
    BY <2>1, <2>6, <2>8, <2>9 DEF At
  <2>12. Step(k, r, o)
    BY <1>2, <2>6, <2>10 DEF Step
  <2> QED BY <2>11, <2>12 DEF r
<1> QED BY <1>1, <1>2

\* A name in a directory, set or cleared.
LEMMA Naming ==
  ASSUME NEW k, NEW o, NEW L, At(k, o, L), NEW s \in Islots, o[s] > 0,
         NEW name \in DirNames, NEW inum \in 0 .. NINODES,
         Ok(k) => MayName(k.disk, k.icache[s].inum, name, inum)
  PROVE  LET r == SetEntry(k, s, name, inum)
             i == k.icache[s].inum IN
         /\ At(r, o, L) /\ Step(k, r, o) /\ (Ok(k) => Ok(r))
         /\ Ok(r) => /\ r.icache = k.icache /\ r.ip = k.ip /\ r.ret = k.ret
                     /\ SameAll(k, r)
                     /\ EntryIs(k.disk, r.disk, i, name, inum)
<1>1. CASE ~Ok(k)
  <2>1. SetEntry(k, s, name, inum) = k
    BY <1>1 DEF SetEntry, WriteDisk
  <2> QED BY <1>1, <2>1, StepRefl
<1>2. CASE Ok(k)
  <2> DEFINE i == k.icache[s].inum
             e == WithName(k.disk[i], name, inum)
             r == SetEntry(k, s, name, inum)
  <2>1. Safe(k) /\ k.disk \in DiskType /\ i \in Inums /\ k.disk[i] \in DiskInode
        /\ o \in Owed /\ L \subseteq Islots
    BY <1>2 DEF At, RefsAre, SlotsOk, SlotOk, Safe, KernelType, DiskType
  <2>2. /\ e \in DiskInode /\ e.type = k.disk[i].type /\ e.nlink = k.disk[i].nlink
        /\ e.emptied = k.disk[i].emptied
    <3>1. FirstTwo(k.disk[i].head, name, inum) \in SUBSET DirNames
      BY <2>1 DEF DiskInode, FirstTwo
    <3> QED BY <2>1, <3>1 DEF DiskInode, WithName
  <2>3. e.ents = [k.disk[i].ents EXCEPT ![name] = inum]
    BY <2>1 DEF DiskInode, WithName
  <2>4. r = WriteDisk(k, WithInode(k.disk, i, e))
    BY DEF SetEntry, Inode, WithInode
  <2> HIDE DEF e, r
  <2>5. DiskOk(WithInode(k.disk, i, e))
    <3> DEFINE f == WithInode(k.disk, i, e)
    <3>1. OnlyInode(k.disk, f, i) /\ f[i] = e
      BY <2>1, <2>2, OneInode
    <3> HIDE DEF f
    <3>2. /\ f[i].type = k.disk[i].type /\ f[i].nlink = k.disk[i].nlink
          /\ f[i].emptied = k.disk[i].emptied
          /\ f[i].ents = [k.disk[i].ents EXCEPT ![name] = inum]
      BY <2>2, <2>3, <3>1
    <3>3. DiskOk(k.disk) /\ MayName(k.disk, i, name, inum)
      BY <1>2, <2>1 DEF Safe
    <3>4. DiskOk(f)
      BY <2>1, <3>1, <3>2, <3>3, EntrySet
    <3> QED BY <3>4 DEF f
  <2> HIDE DEF i
  <2>6. /\ Safe(r) /\ Ok(r)
        /\ \A j \in Inums : r.disk[j] = IF j = i THEN e ELSE k.disk[j]
        /\ r.icache = k.icache /\ r.ofiles = k.ofiles /\ r.cwd = k.cwd
        /\ r.ip = k.ip /\ r.ret = k.ret
    BY <1>2, <2>1, <2>2, <2>4, <2>5, WriteInode
  <2>7. \A j \in Inums : /\ r.disk[j].type = k.disk[j].type
                         /\ r.disk[j].nlink = k.disk[j].nlink
    BY <2>2, <2>6
  <2>8. RefsAre(r, o) /\ LocksAre(r, L)
    BY <1>2, <2>6 DEF At, RefsAre, LocksAre, LockIs
  <2>9. SlotsOk(r)
    <3> SUFFICES ASSUME NEW t \in Islots, r.icache[t].ref > 0 PROVE SlotOk(r, t)
      BY DEF SlotsOk
    <3>1. SlotOk(k, t)
      BY <1>2, <2>6 DEF At, SlotsOk
    <3> QED BY <2>6, <2>7, <3>1 DEF SlotOk
  <2>10. Keeps(k, r, o)
    <3> SUFFICES ASSUME NEW t \in Islots, o[t] > 0 PROVE KeepsSlot(k, r, t)
      BY DEF Keeps
    <3>1. k.icache[t].inum \in Inums
      BY <1>2 DEF At, RefsAre, SlotsOk, SlotOk
    <3> QED BY <2>6, <2>7, <3>1 DEF KeepsSlot
  <2>11. SameAll(k, r)
    BY <2>6 DEF SameAll, Same
  <2>12. At(r, o, L)
    BY <2>1, <2>6, <2>8, <2>9 DEF At
  <2>13. Step(k, r, o)
    BY <1>2, <2>6, <2>10 DEF Step
  <2>14. EntryIs(k.disk, r.disk, i, name, inum)
    BY <2>1, <2>2, <2>3, <2>6, <2>7 DEF EntryIs, OnlyInode
  <2> QED BY <2>6, <2>11, <2>12, <2>13, <2>14 DEF r, i
<1> QED BY <1>1, <1>2

-----------------------------------------------------------------------------
(* fs.c: inodes and names found and made. *)

\* One reference more is owed, or none when it is to NULL; the order in which
\* references are taken does not matter.
LEMMA MoreFacts ==
  ASSUME NEW o \in Owed, NEW a
  PROVE  /\ More(o, a) \in Owed
         /\ \A t \in Islots : o[t] > 0 => More(o, a)[t] > 0
         /\ a \in Islots => More(o, a)[a] > 0
         /\ a = NULL => More(o, a) = o
         /\ \A c : More(More(o, a), c) = More(More(o, c), a)
<1>1. More(o, a) \in Owed
  BY DEF More, Owed
<1>2. \A t \in Islots : o[t] > 0 => More(o, a)[t] > 0
  BY DEF More, Owed
<1>3. a \in Islots => More(o, a)[a] > 0
  BY DEF More, Owed
<1>4. a = NULL => More(o, a) = o
  BY Constants DEF More, Owed
<1>5. ASSUME NEW c PROVE More(More(o, a), c) = More(More(o, c), a)
  <2>1. \A t \in Islots : More(More(o, a), c)[t] = More(More(o, c), a)[t]
    BY DEF More, Owed
  <2>2. /\ DOMAIN More(More(o, a), c) = Islots /\ DOMAIN More(More(o, c), a) = Islots
        /\ More(More(o, a), c) = [t \in Islots |-> More(More(o, a), c)[t]]
        /\ More(More(o, c), a) = [t \in Islots |-> More(More(o, c), a)[t]]
    BY DEF More
  <2> QED BY <2>1, <2>2
<1> QED BY <1>1, <1>2, <1>3, <1>4, <1>5

\* ialloc() takes an inode that is free on the disk.
LEMMA Ialloc ==
  ASSUME NEW k, NEW o, NEW L, At(k, o, L), NEW type \in {"file", "dir"}
  PROVE  Allotted(k, ialloc(k, type), o, L, type)
<1> DEFINE free == {i \in Inums : k.disk[i].type = "free"}
           r == ialloc(k, type)
<1>1. Safe(k) /\ o \in Owed /\ More(o, r.ip) \in Owed /\ L \subseteq Islots
  BY MoreFacts DEF At
<1>2. CASE free = {}
  <2>1. r = Halt(k, "ialloc: no inodes")
    BY <1>2 DEF ialloc
  <2>2. "ialloc: no inodes" \in Allowed /\ "ialloc: no inodes" # "no"
    BY DEF Allowed
  <2> HIDE DEF r
  <2>3. Safe(r) /\ ~Ok(r) /\ r.ofiles = k.ofiles /\ r.cwd = k.cwd
    BY <1>1, <2>1, <2>2, Halting
  <2>4. At(r, More(o, r.ip), L) /\ Step(k, r, o)
    BY <1>1, <2>3 DEF At, Step
  <2> QED BY <2>3, <2>4 DEF r, Allotted
<1>3. CASE free # {}
  <2> DEFINE i == Min(free)
             e == [FreeInode EXCEPT !.type = type]
             m == WriteDisk(k, WithInode(k.disk, i, e))
  <2>1. i \in free
    BY <1>3, MinIn, Constants
  <2> HIDE DEF i
  <2>2. r = iget(m, i)
    BY <1>3 DEF ialloc, WithInode, i
  <2>3. e \in DiskInode /\ e.type = type /\ e.ents = NoEntries /\ e.nlink = 0
    <3>1. FreeInode \in DiskInode
      BY NoEntriesType DEF DiskInode, FreeInode, FileTypes
    <3>2. FreeInode.ents = NoEntries /\ FreeInode.nlink = 0 /\ type \in FileTypes
      BY DEF FreeInode, FileTypes
    <3> QED BY <3>1, <3>2 DEF DiskInode
  <2>4. i \in Inums /\ k.disk[i].type = "free"
    BY <2>1
  <2> HIDE DEF e, free, r
  <2>5. CASE ~Ok(k)
    <3>1. m = k
      BY <2>5 DEF WriteDisk
    <3>2. r = k
      BY <2>2, <2>5, <3>1 DEF iget
    <3>3. At(r, More(o, r.ip), L)
      BY <1>1, <2>5, <3>2 DEF At
    <3> QED BY <2>5, <3>2, <3>3, StepRefl DEF r, Allotted
  <2>6. CASE Ok(k)
    <3>1. /\ Safe(m) /\ Ok(m)
          /\ \A j \in Inums : m.disk[j] = IF j = i THEN e ELSE k.disk[j]
          /\ m.icache = k.icache /\ m.ofiles = k.ofiles /\ m.cwd = k.cwd
          /\ m.ip = k.ip /\ m.ret = k.ret
      <4> DEFINE f == WithInode(k.disk, i, e)
      <4>1. /\ k.disk \in DiskType /\ DiskOk(k.disk)
            /\ k.disk[i].nlink = 0
        BY <1>1, <2>4 DEF Safe, KernelType, DiskOk, InodeOk
      <4>2. OnlyInode(k.disk, f, i) /\ f[i] = e
        BY <2>3, <2>4, <4>1, OneInode
      <4> HIDE DEF f
      <4>3. DiskOk(f)
        BY <2>3, <2>4, <4>1, <4>2, Blanked
      <4>4. DiskOk(WithInode(k.disk, i, e))
        BY <4>3 DEF f
      <4> QED BY <1>1, <2>3, <2>4, <2>6, <4>4, WriteInode
    <3> HIDE DEF m
    <3>2. RefsAre(m, o) /\ LocksAre(m, L)
      BY <2>6, <3>1 DEF At, RefsAre, LocksAre, LockIs
    <3>3. SlotsOk(m)
      <4> SUFFICES ASSUME NEW t \in Islots, m.icache[t].ref > 0 PROVE SlotOk(m, t)
        BY DEF SlotsOk
      <4>1. SlotOk(k, t)
        BY <2>6, <3>1 DEF At, SlotsOk
      <4>2. CASE k.icache[t].inum = i
        BY <2>4, <3>1, <4>1, <4>2 DEF SlotOk
      <4>3. CASE k.icache[t].inum # i
        BY <3>1, <4>1, <4>3 DEF SlotOk
      <4> QED BY <4>2, <4>3
    <3>4. Keeps(k, m, o)
      <4> SUFFICES ASSUME NEW t \in Islots, o[t] > 0 PROVE KeepsSlot(k, m, t)
        BY DEF Keeps
      <4>1. k.icache[t].inum \in Inums
        BY <2>6 DEF At, RefsAre, SlotsOk, SlotOk
      <4> QED BY <2>4, <3>1, <4>1 DEF KeepsSlot
    <3>5. At(m, o, L) /\ Step(k, m, o)
      BY <1>1, <2>6, <3>1, <3>2, <3>3, <3>4 DEF At, Step
    <3>6. /\ At(r, More(o, r.ip), L) /\ Step(m, r, o)
          /\ Ok(r) => /\ r.ip \in Islots /\ r.icache[r.ip].inum = i
                      /\ r.disk = m.disk /\ SameHeld(m, r, o)
      BY <2>2, <2>4, <3>5, Iget
    <3>7. Step(k, r, o)
      BY <3>5, <3>6, StepTrans
    <3>8. Ok(r) => SameHeld(k, r, o)
      BY <3>1, <3>6 DEF SameHeld, Same
    <3>9. Allotted(k, r, o, L, type)
      BY <2>3, <2>4, <3>1, <3>6, <3>7, <3>8 DEF Allotted
    <3> QED BY <3>9 DEF r
  <2> QED BY <2>5, <2>6
<1> QED BY <1>2, <1>3

\* dirlookup() in a directory gives its caller one reference more, to the inode
\* that the entry names, or returns NULL.
LEMMA Dirlookup ==
  ASSUME NEW k, NEW o, NEW L, At(k, o, L), NEW s \in Islots, o[s] > 0,
         Ok(k) => k.icache[s].type = "dir", NEW name \in DirNames
  PROVE  LET r == dirlookup(k, s, name)
             inum == k.disk[k.icache[s].inum].ents[name] IN
         /\ At(r, More(o, r.ip), L) /\ Step(k, r, o)
         /\ Ok(r) => /\ r.disk = k.disk /\ r.ret = k.ret /\ SameHeld(k, r, o)
                     /\ r.ip \in Islots \/ r.ip = NULL
                     /\ r.ip = NULL => inum = 0
                     /\ r.ip # NULL => r.icache[r.ip].inum = inum
<1> DEFINE r == dirlookup(k, s, name)
           i == k.icache[s].inum
           inum == k.disk[i].ents[name]
<1>1. o \in Owed
  BY DEF At
<1>2. CASE ~Ok(k)
  <2>1. r = k
    BY <1>2 DEF dirlookup
  <2>2. At(r, More(o, r.ip), L)
    BY <1>1, <1>2, <2>1, MoreFacts DEF At
  <2> QED BY <1>2, <2>1, <2>2, StepRefl
<1>3. CASE Ok(k)
  <2>1. i \in Inums /\ inum \in 0 .. NINODES
    BY <1>3 DEF At, RefsAre, SlotsOk, SlotOk, Safe, KernelType, DiskType, DiskInode
  <2>2. r = IF inum = 0 THEN ReturnIp(k, NULL) ELSE iget(k, inum)
    BY <1>3 DEF dirlookup, Inode
  <2> HIDE DEF r
  <2>3. CASE inum = 0
    <3>1. NULL \in SlotOrNull /\ r = ReturnIp(k, NULL)
      BY <2>2, <2>3 DEF SlotOrNull
    <3>2. /\ At(r, o, L) /\ (Ok(r) <=> Ok(k)) /\ Step(k, r, o)
          /\ r.ip = NULL /\ r.ret = k.ret /\ r.disk = k.disk /\ r.icache = k.icache
      BY <3>1, IpOnly
    <3>3. More(o, r.ip) = o
      BY <1>1, <3>2, MoreFacts
    <3>4. SameHeld(k, r, o)
      BY <3>2 DEF SameHeld, Same
    <3> QED BY <2>3, <3>2, <3>3, <3>4 DEF r
  <2>4. CASE inum # 0
    <3>1. inum \in Inums /\ r = iget(k, inum)
      BY <2>1, <2>2, <2>4, Constants
    <3> HIDE DEF inum
    <3>2. /\ At(r, More(o, r.ip), L) /\ Step(k, r, o)
          /\ Ok(r) => /\ r.ip \in Islots /\ r.icache[r.ip].inum = inum
                      /\ r.disk = k.disk /\ r.ret = k.ret /\ SameHeld(k, r, o)
      BY <3>1, Iget
    <3>3. NULL \notin Islots
      BY Constants
    <3> QED BY <3>2, <3>3 DEF r, inum
  <2> QED BY <2>3, <2>4
<1> QED BY <1>2, <1>3

\* dirlink() of a name that the directory does not have makes the entry.
LEMMA Dirlink ==
  ASSUME NEW k, NEW o, NEW L, At(k, o, L), NEW s \in Islots, o[s] > 0,
         NEW name \in DirNames, NEW inum \in Inums,
         Ok(k) => CanLink(k, s, name, inum)
  PROVE  LET r == dirlink(k, s, name, inum)
             i == k.icache[s].inum IN
         /\ At(r, o, L) /\ Step(k, r, o) /\ (Ok(k) => Ok(r))
         /\ Ok(r) => /\ r.ret = 0 /\ SameAll(k, r)
                     /\ EntryIs(k.disk, r.disk, i, name, inum)
<1> DEFINE i == k.icache[s].inum
           r == dirlink(k, s, name, inum)
<1>1. CASE ~Ok(k)
  <2>1. r = k
    BY <1>1 DEF dirlink, dirlookup
  <2> QED BY <1>1, <2>1, StepRefl
<1>2. CASE Ok(k)
  <2> DEFINE m == ReturnIp(k, NULL)
             n == SetEntry(m, s, name, inum)
  <2>1. NULL \in SlotOrNull /\ 0 \in Int /\ inum \in 0 .. NINODES
    BY Constants DEF SlotOrNull
  <2>2. /\ At(m, o, L) /\ (Ok(m) <=> Ok(k)) /\ Step(k, m, o)
        /\ m.ip = NULL /\ m.disk = k.disk /\ m.icache = k.icache
    BY <2>1, IpOnly
  <2>3. dirlookup(k, s, name) = m
    BY <1>2 DEF dirlookup, Inode, CanLink
  <2> HIDE DEF m
  <2>4. r = Return(n, 0)
    BY <1>2, <2>2, <2>3 DEF dirlink
  <2>5. m.icache[s].inum = i
    BY <2>2
  <2>6. MayName(m.disk, m.icache[s].inum, name, inum)
    BY <1>2, <2>2 DEF CanLink
  <2>7. /\ At(n, o, L) /\ Step(m, n, o) /\ Ok(n)
        /\ SameAll(m, n)
        /\ EntryIs(m.disk, n.disk, m.icache[s].inum, name, inum)
    BY <1>2, <2>1, <2>2, <2>6, Naming
  <2> HIDE DEF n, r
  <2>8. /\ At(r, o, L) /\ (Ok(r) <=> Ok(n)) /\ Step(n, r, o)
        /\ r.ret = 0 /\ r.disk = n.disk /\ r.icache = n.icache
    BY <2>1, <2>4, <2>7, RetOnly
  <2>9. Step(k, n, o)
    BY <2>2, <2>7, StepTrans
  <2>10. Step(k, r, o)
    BY <2>8, <2>9, StepTrans
  <2>11. SameAll(k, r)
    BY <2>2, <2>7, <2>8 DEF SameAll, Same
  <2>12. EntryIs(k.disk, r.disk, i, name, inum)
    BY <2>2, <2>5, <2>7, <2>8
  <2>13. At(r, o, L) /\ Ok(r) /\ r.ret = 0
    BY <2>7, <2>8
  <2> HIDE DEF i
  <2> QED BY <2>10, <2>11, <2>12, <2>13 DEF r, i
<1> QED BY <1>1, <1>2

-----------------------------------------------------------------------------
(* fs.c: paths. *)

\* A step that keeps the current directory and all that is owed besides.
LEMMA StepLess ==
  ASSUME NEW k, NEW r, NEW b \in Owed, NEW q,
         Step(k, r, q), \A t \in Islots : More(b, k.cwd)[t] > 0 => q[t] > 0
  PROVE  NStep(k, r, b) /\ r.cwd = k.cwd
BY DEF Step, NStep, Keeps

\* Doing nothing to names is a step.
LEMMA NStepRefl ==
  ASSUME NEW k, NEW b
  PROVE  NStep(k, k, b)
BY DEF NStep, Keeps, KeepsSlot

\* Two steps on names, one after the other, are one.
LEMMA NStepTrans ==
  ASSUME NEW k, NEW m, NEW r, NEW b \in Owed, NStep(k, m, b), NStep(m, r, b)
  PROVE  NStep(k, r, b)
<1>1. CASE ~Ok(r)
  BY <1>1 DEF NStep
<1>2. CASE Ok(r)
  <2>1. /\ Ok(m) /\ Ok(k) /\ r.ofiles = k.ofiles
        /\ k.cwd # NULL => m.cwd = k.cwd /\ r.cwd = k.cwd
        /\ Keeps(k, m, More(b, k.cwd)) /\ Keeps(m, r, More(b, m.cwd))
    BY <1>2 DEF NStep
  <2>2. \A t \in Islots : More(b, k.cwd)[t] > 0 => More(b, m.cwd)[t] > 0
    <3>1. CASE k.cwd = NULL
      <4>1. More(b, k.cwd) = b
        BY <3>1, MoreFacts
      <4> QED BY <4>1, MoreFacts
    <3>2. CASE k.cwd # NULL
      BY <2>1, <3>2
    <3> QED BY <3>1, <3>2
  <2>3. Keeps(k, r, More(b, k.cwd))
    <3> SUFFICES ASSUME NEW t \in Islots, More(b, k.cwd)[t] > 0
                 PROVE  KeepsSlot(k, r, t)
      BY DEF Keeps
    <3>1. KeepsSlot(k, m, t) /\ KeepsSlot(m, r, t)
      BY <2>1, <2>2 DEF Keeps
    <3> QED BY <3>1 DEF KeepsSlot
  <2> QED BY <2>1, <2>3 DEF NStep
<1> QED BY <1>1, <1>2

\* Nothing but the shared current directory changes.
LEMMA CwdOnly ==
  ASSUME NEW k, NEW o, NEW L, At(k, o, L), NEW v \in SlotOrNull
  PROVE  LET r == [k EXCEPT !.cwd = v] IN
         /\ At(r, o, L) /\ (Ok(r) <=> Ok(k)) /\ Keeps(k, r, o)
         /\ r.cwd = v /\ r.ip = k.ip /\ r.ret = k.ret
         /\ r.disk = k.disk /\ r.icache = k.icache /\ r.ofiles = k.ofiles
<1> DEFINE r == [k EXCEPT !.cwd = v]
<1>1. k \in KernelType
  BY DEF At, Safe
<1>2. /\ r \in KernelType /\ r.cwd = v
      /\ r.disk = k.disk /\ r.icache = k.icache /\ r.ofiles = k.ofiles
      /\ r.ip = k.ip /\ r.halted = k.halted /\ r.ret = k.ret /\ r.images = k.images
  BY <1>1 DEF KernelType
<1> HIDE DEF r
<1>3. At(r, o, L)
  BY <1>2 DEF At, Safe, Ok, RefsAre, LocksAre, LockIs, SlotsOk, SlotOk
<1>4. Keeps(k, r, o)
  BY <1>2 DEF Keeps, KeepsSlot
<1> QED BY <1>2, <1>3, <1>4 DEF Ok, r

\* myproc() sets the current directory, and holds it, if nobody has.
LEMMA Myproc ==
  ASSUME NEW k, NEW b \in Owed, NEW L, Rests(k, b, L)
  PROVE  LET r == myproc(k) IN
         /\ Rests(r, b, L) /\ NStep(k, r, b)
         /\ Ok(r) => r.cwd \in Islots
<1>1. CASE k.cwd # NULL \/ ~Ok(k)
  <2>1. myproc(k) = k
    BY <1>1 DEF myproc
  <2>2. Ok(k) => k.cwd \in Islots
    BY <1>1 DEF Rests, At, Safe, KernelType, SlotOrNull
  <2> QED BY <2>1, <2>2, NStepRefl
<1>2. CASE k.cwd = NULL /\ Ok(k)
  <2> DEFINE g == iget(k, ROOTINO)
             r == myproc(k)
  <2>1. More(b, k.cwd) = b
    BY <1>2, MoreFacts
  <2>2. /\ At(g, More(b, g.ip), L) /\ Step(k, g, b)
        /\ Ok(g) => g.ip \in Islots
    BY <2>1, Constants, Iget DEF Rests
  <2> HIDE DEF g
  <2>3. r = IF Ok(g) THEN [g EXCEPT !.cwd = g.ip] ELSE g
    BY <1>2 DEF myproc, g
  <2> HIDE DEF r
  <2>4. CASE ~Ok(g)
    <3>1. At(r, More(b, r.cwd), L)
      BY <2>2, <2>3, <2>4, MoreFacts DEF At
    <3>2. NStep(k, r, b)
      BY <2>3, <2>4, <2>2, <2>1, StepLess
    <3> QED BY <2>3, <2>4, <3>1, <3>2 DEF Rests, r
  <2>5. CASE Ok(g)
    <3>1. g.ip \in SlotOrNull /\ g.ip \in Islots
      BY <2>2, <2>5 DEF SlotOrNull
    <3>2. /\ At(r, More(b, g.ip), L) /\ Ok(r) /\ Keeps(g, r, More(b, g.ip))
          /\ r.cwd = g.ip /\ r.ofiles = g.ofiles
      BY <2>2, <2>3, <2>5, <3>1, CwdOnly
    <3>3. g.ofiles = k.ofiles /\ Keeps(k, g, b)
      BY <2>2, <2>5 DEF Step
    <3>4. Keeps(k, r, b)
      <4> SUFFICES ASSUME NEW t \in Islots, b[t] > 0 PROVE KeepsSlot(k, r, t)
        BY DEF Keeps
      <4>1. KeepsSlot(k, g, t) /\ KeepsSlot(g, r, t)
        BY <3>2, <3>3, MoreFacts DEF Keeps
      <4> QED BY <4>1 DEF KeepsSlot
    <3>5. NStep(k, r, b)
      BY <1>2, <2>1, <3>2, <3>3, <3>4 DEF NStep
    <3> QED BY <3>1, <3>2, <3>5 DEF Rests, r
  <2> QED BY <2>4, <2>5
<1> QED BY <1>1, <1>2

\* A walk starts with a reference to the root or to the current directory.
LEMMA StartOfPath ==
  ASSUME NEW k, NEW b \in Owed, Rests(k, b, {}), NEW path
  PROVE  LET r == PathStart(k, path) IN
         /\ Holds(r, b, r.ip, {}) /\ NStep(k, r, b)
         /\ Ok(r) => r.ip \in Islots
<1> DEFINE r == PathStart(k, path)
<1>1. CASE path.abs
  <2>1. r = iget(k, ROOTINO)
    BY <1>1 DEF PathStart
  <2> HIDE DEF r
  <2>2. /\ At(r, More(More(b, k.cwd), r.ip), {}) /\ Step(k, r, More(b, k.cwd))
        /\ Ok(r) => r.ip \in Islots
    BY <2>1, Constants, Iget DEF Rests
  <2>3. NStep(k, r, b) /\ r.cwd = k.cwd
    BY <2>2, StepLess
  <2> QED BY <2>2, <2>3 DEF Holds, r
<1>2. CASE ~path.abs
  <2> DEFINE m == myproc(k)
  <2>1. r = idup(m, m.cwd)
    BY <1>2 DEF PathStart
  <2>2. /\ Rests(m, b, {}) /\ NStep(k, m, b)
        /\ Ok(m) => m.cwd \in Islots
    BY Myproc
  <2> HIDE DEF m, r
  <2>3. CASE ~Ok(m)
    <3>1. r = m
      BY <2>1, <2>3 DEF idup
    <3>2. More(b, r.cwd) \in Owed /\ More(More(b, r.cwd), r.ip) \in Owed
      BY MoreFacts
    <3>3. Holds(r, b, r.ip, {})
      BY <2>2, <2>3, <3>1, <3>2 DEF Holds, Rests, At
    <3> QED BY <2>2, <2>3, <3>1, <3>3 DEF r
  <2>4. CASE Ok(m)
    <3>1. m.cwd \in Islots /\ More(b, m.cwd)[m.cwd] > 0
      BY <2>2, <2>4, MoreFacts
    <3>2. /\ At(r, More(More(b, m.cwd), m.cwd), {}) /\ Step(m, r, More(b, m.cwd))
          /\ Ok(r) => r.ip = m.cwd
      BY <2>1, <2>2, <3>1, Idup DEF Rests
    <3>3. NStep(m, r, b) /\ r.cwd = m.cwd
      BY <3>2, StepLess
    <3>4. NStep(k, r, b)
      BY <2>2, <3>3, NStepTrans
    <3>5. Holds(r, b, r.ip, {})
      <4>1. More(b, r.cwd) \in Owed /\ More(More(b, r.cwd), r.ip) \in Owed
        BY MoreFacts
      <4> QED BY <3>2, <3>3, <4>1 DEF Holds, At
    <3> QED BY <3>1, <3>2, <3>4, <3>5 DEF r
  <2> QED BY <2>3, <2>4
<1> QED BY <1>1, <1>2

\* The directory in dp is unlocked and put back, and n.ip is the result.
LEMMA Leaving ==
  ASSUME NEW n, NEW q \in Owed, NEW dp \in Islots,
         At(n, More(More(q, n.ip), dp), {dp})
  PROVE  LET r == ReturnIp(iunlockput(n, dp), n.ip) IN
         /\ At(r, More(q, r.ip), {}) /\ Step(n, r, q) /\ r.ip = n.ip
<1> DEFINE u == iunlockput(n, dp)
           r == ReturnIp(u, n.ip)
           o == More(q, n.ip)
<1>1. o \in Owed /\ dp \in {dp} /\ {dp} \ {dp} = {} /\ \A t \in Islots : q[t] > 0 => o[t] > 0
  BY MoreFacts
<1> HIDE DEF o
<1>2. At(n, More(o, dp), {dp}) /\ n.ip \in SlotOrNull
  BY DEF o, At, Safe, KernelType
<1>3. At(u, o, {}) /\ Step(n, u, o)
  BY <1>1, <1>2, Iunlockput
<1> HIDE DEF u
<1>4. At(r, o, {}) /\ Step(u, r, o) /\ r.ip = n.ip
  BY <1>2, <1>3, IpOnly
<1> HIDE DEF r
<1>5. Step(n, r, q)
  BY <1>1, <1>3, <1>4, StepTrans
<1> QED BY <1>4, <1>5 DEF o, r, u

\* One turn of the loop of namex() trades its reference for one to the next inode.
LEMMA Walking ==
  ASSUME NEW k, NEW b \in Owed, Holds(k, b, k.ip, {}), NEW e \in DirNames
  PROVE  LET r == Walk(k, e) IN Holds(r, b, r.ip, {}) /\ NStep(k, r, b)
<1>1. CASE ~Ok(k) \/ k.ip = NULL
  <2>1. Walk(k, e) = k
    BY <1>1 DEF Walk
  <2> QED BY <2>1, NStepRefl
<1>2. CASE Ok(k) /\ k.ip # NULL
  <2> DEFINE dp == k.ip
             q == More(b, k.cwd)
             l == ilock(k, dp)
             n == IF l.icache[dp].type # "dir" THEN ReturnIp(l, NULL)
                  ELSE dirlookup(l, dp, e)
             r == Walk(k, e)
  <2>1. dp \in Islots
    BY <1>2 DEF Holds, At, Safe, KernelType, SlotOrNull
  <2> HIDE DEF dp
  <2>2. q \in Owed /\ More(q, dp) \in Owed /\ More(q, dp)[dp] > 0
        /\ \A t \in Islots : q[t] > 0 => More(q, dp)[t] > 0
    BY <2>1, MoreFacts
  <2>3. At(k, More(q, dp), {}) /\ dp \notin {} /\ {} \cup {dp} = {dp}
    BY DEF Holds, dp
  <2> HIDE DEF q
  <2>4. At(l, More(q, dp), {dp}) /\ Step(k, l, More(q, dp))
    <3> DEFINE none == {}
    <3>1. At(k, More(q, dp), none) /\ dp \notin none /\ none \cup {dp} = {dp}
      BY <2>3
    <3> HIDE DEF none
    <3>2. At(l, More(q, dp), none \cup {dp}) /\ Step(k, l, More(q, dp))
      BY <2>1, <2>2, <3>1, Ilock
    <3> QED BY <3>1, <3>2
  <2>5. r = IF ~Ok(l) THEN l ELSE ReturnIp(iunlockput(n, dp), n.ip)
    BY <1>2 DEF Walk, Inode, dp
  <2> HIDE DEF l, r
  <2>6. CASE ~Ok(l)
    <3>1. r = l /\ r.cwd = k.cwd
      BY <2>4, <2>5, <2>6 DEF Step
    <3>2. More(b, r.cwd) \in Owed /\ More(More(b, r.cwd), r.ip) \in Owed
      BY MoreFacts
    <3>3. Holds(r, b, r.ip, {})
      BY <2>4, <2>6, <3>1, <3>2 DEF Holds, At
    <3>4. NStep(k, r, b)
      BY <2>2, <2>4, <3>1, StepLess DEF q
    <3> QED BY <3>3, <3>4 DEF r
  <2>7. CASE Ok(l)
    <3>1. At(n, More(More(q, n.ip), dp), {dp}) /\ Step(l, n, More(q, dp))
      <4>1. CASE l.icache[dp].type # "dir"
        <5>1. n = ReturnIp(l, NULL) /\ NULL \in SlotOrNull
          BY <4>1 DEF SlotOrNull
        <5> HIDE DEF n
        <5>2. At(n, More(q, dp), {dp}) /\ Step(l, n, More(q, dp)) /\ n.ip = NULL
          BY <2>4, <5>1, IpOnly
        <5>3. More(q, n.ip) = q
          BY <2>2, <5>2, MoreFacts
        <5> QED BY <5>2, <5>3
      <4>2. CASE l.icache[dp].type = "dir"
        <5>1. n = dirlookup(l, dp, e)
          BY <4>2
        <5> HIDE DEF n
        <5>2. At(n, More(More(q, dp), n.ip), {dp}) /\ Step(l, n, More(q, dp))
          BY <2>1, <2>2, <2>4, <4>2, <5>1, Dirlookup
        <5>3. More(More(q, dp), n.ip) = More(More(q, n.ip), dp)
          BY <2>2, MoreFacts
        <5> QED BY <5>2, <5>3
      <4> QED BY <4>1, <4>2
    <3> HIDE DEF n
    <3>2. r = ReturnIp(iunlockput(n, dp), n.ip)
      BY <2>5, <2>7
    <3>3. At(r, More(q, r.ip), {}) /\ Step(n, r, q)
      BY <2>1, <2>2, <3>1, <3>2, Leaving
    <3>4. Step(k, n, q)
      BY <2>2, <2>4, <3>1, StepTrans
    <3>5. Step(k, r, q)
      BY <3>3, <3>4, StepTrans
    <3>6. NStep(k, r, b) /\ r.cwd = k.cwd
      BY <3>5, StepLess DEF q
    <3> QED BY <3>3, <3>6 DEF Holds, q, r
  <2> QED BY <2>6, <2>7
<1> QED BY <1>1, <1>2

\* The function that WalkAll() defines by recursion exists.
LEMMA WalkExists ==
  ASSUME NEW k, NEW elems, Len(elems) \in Nat
  PROVE  \E f : IsWalk(f, k, elems)
<1> DEFINE F(f, m) == [n \in 0 .. m |-> IF n = 0 THEN k ELSE Walk(f[n - 1], elems[n])]
           S == {m \in Nat : \E f : f = F(f, m)}
<1>1. 0 \in S
  <2> DEFINE f == [n \in 0 .. 0 |-> k]
  <2>1. F(f, 0) = f
    OBVIOUS
  <2>2. \E g : g = F(g, 0)
    <3> HIDE DEF F, f
    <3> QED BY <2>1
  <2> HIDE DEF F
  <2> QED BY <2>2
<1>2. ASSUME NEW m \in Nat, m \in S PROVE m + 1 \in S
  <2>1. PICK f : f = F(f, m)
    BY <1>2
  <2> DEFINE g == [n \in 0 .. m + 1 |->
                     IF n <= m THEN f[n] ELSE Walk(f[m], elems[m + 1])]
  <2>2. ASSUME NEW n \in 0 .. m + 1
        PROVE  g[n] = IF n = 0 THEN k ELSE Walk(g[n - 1], elems[n])
    <3>1. CASE n <= m
      <4>1. n \in 0 .. m /\ g[n] = f[n]
        BY <3>1
      <4>2. f[n] = IF n = 0 THEN k ELSE Walk(f[n - 1], elems[n])
        <5>1. f[n] = F(f, m)[n]
          BY <2>1, Zenon
        <5> QED BY <4>1, <5>1
      <4>3. n # 0 => n - 1 \in 0 .. m + 1 /\ n - 1 <= m /\ g[n - 1] = f[n - 1]
        BY <3>1
      <4> QED BY <4>1, <4>2, <4>3
    <3>2. CASE n = m + 1
      <4>1. n # 0 /\ n - 1 = m /\ ~(n <= m) /\ m \in 0 .. m + 1
        BY <3>2
      <4>2. g[m] = f[m] /\ g[n] = Walk(f[m], elems[n])
        BY <3>2, <4>1
      <4> QED BY <4>1, <4>2
    <3> QED BY <3>1, <3>2
  <2>3. g = F(g, m + 1)
    <3>1. F(g, m + 1) = [n \in 0 .. m + 1 |-> g[n]]
      BY <2>2
    <3> QED BY <3>1
  <2>4. \E h : h = F(h, m + 1)
    <3> HIDE DEF F, g
    <3> QED BY <2>3
  <2> HIDE DEF F
  <2> QED BY <2>4
<1> HIDE DEF S
<1>3. Nat \subseteq S
  BY <1>1, <1>2, NaturalInduction
<1>4. Len(elems) \in S
  BY <1>3
<1>5. PICK f : f = F(f, Len(elems))
  BY <1>4 DEF S
<1>6. IsWalk(f, k, elems)
  BY <1>5 DEF IsWalk
<1> QED BY <1>6

\* namex() ends with one reference, to the inode it found, or with none.
LEMMA WalkingAll ==
  ASSUME NEW k, NEW b \in Owed, Holds(k, b, k.ip, {}), NEW elems \in Seq(DirNames)
  PROVE  LET r == WalkAll(k, elems) IN Holds(r, b, r.ip, {}) /\ NStep(k, r, b)
<1> DEFINE F(f) == [n \in 0 .. Len(elems) |->
                      IF n = 0 THEN k ELSE Walk(f[n - 1], elems[n])]
           walk == CHOOSE f : f = F(f)
           Good(r) == Holds(r, b, r.ip, {}) /\ NStep(k, r, b)
           S == {m \in Nat : m <= Len(elems) => Good(walk[m])}
<1>1. Len(elems) \in Nat /\ \A n \in 1 .. Len(elems) : elems[n] \in DirNames
  OBVIOUS
<1>2. walk = F(walk)
  <2>1. \E f : f = F(f)
    <3>1. Len(elems) \in Nat
      BY <1>1
    <3>2. PICK g : IsWalk(g, k, elems)
      BY <3>1, WalkExists
    <3>3. g = F(g)
      BY <3>2 DEF IsWalk
    <3> HIDE DEF F
    <3> QED BY <3>3
  <2> HIDE DEF F
  <2> QED BY <2>1, Zenon
<1>3. WalkAll(k, elems) = walk[Len(elems)]
  BY DEF WalkAll
<1> HIDE DEF walk
<1>4. ASSUME NEW n \in 0 .. Len(elems)
      PROVE  walk[n] = IF n = 0 THEN k ELSE Walk(walk[n - 1], elems[n])
  <2>1. walk[n] = F(walk)[n]
    BY <1>2, Zenon
  <2> QED BY <2>1
<1>5. 0 \in S
  <2>1. walk[0] = k
    BY <1>1, <1>4
  <2>2. Good(walk[0])
    BY <2>1, NStepRefl
  <2> HIDE DEF Good
  <2> QED BY <2>2
<1>6. ASSUME NEW m \in Nat, m \in S PROVE m + 1 \in S
  <2> SUFFICES ASSUME m + 1 <= Len(elems) PROVE Good(walk[m + 1])
    <3> HIDE DEF Good
    <3> QED OBVIOUS
  <2>1. m <= Len(elems) /\ m + 1 \in 1 .. Len(elems) /\ (m + 1) - 1 = m /\ m + 1 # 0
    BY <1>1
  <2>2. Good(walk[m])
    <3> HIDE DEF Good
    <3> QED BY <1>6, <2>1
  <2>3. walk[m + 1] = Walk(walk[m], elems[m + 1]) /\ elems[m + 1] \in DirNames
    BY <1>1, <1>4, <2>1
  <2> DEFINE r == Walk(walk[m], elems[m + 1])
  <2>4. Holds(r, b, r.ip, {}) /\ NStep(walk[m], r, b)
    BY <2>2, <2>3, Walking
  <2> HIDE DEF r
  <2>5. NStep(k, r, b)
    BY <2>2, <2>4, NStepTrans
  <2> QED BY <2>3, <2>4, <2>5 DEF r
<1> HIDE DEF S
<1>7. Nat \subseteq S
  BY <1>5, <1>6, NaturalInduction
<1>8. Len(elems) \in S /\ Len(elems) <= Len(elems)
  BY <1>1, <1>7
<1>9. Good(walk[Len(elems)])
  <2> HIDE DEF Good
  <2> QED BY <1>8 DEF S
<1> QED BY <1>3, <1>9

\* Nothing is claimed of a machine that has halted but that its disk is safe.
LEMMA HaltedAnyway ==
  ASSUME NEW k, NEW r, NEW b \in Owed, NEW L, L \subseteq Islots,
         Safe(r), ~Ok(r), r.ofiles = k.ofiles
  PROVE  /\ Rests(r, b, L) /\ NStep(k, r, b)
         /\ \A s : Holds(r, b, s, L)
<1>1. More(b, r.cwd) \in Owed /\ \A s : More(More(b, r.cwd), s) \in Owed
  BY MoreFacts
<1> QED BY <1>1 DEF Rests, Holds, At, NStep

\* namei() gives its caller a reference to what it returns.
LEMMA NameI ==
  ASSUME NEW k, NEW b \in Owed, Rests(k, b, {}),
         NEW path, path.elems \in Seq(DirNames)
  PROVE  LET r == namei(k, path) IN
         /\ Holds(r, b, r.ip, {}) /\ NStep(k, r, b)
         /\ Ok(r) /\ r.ip # NULL => r.ip \in Islots
<1> DEFINE m == PathStart(k, path)
           r == namei(k, path)
<1>1. r = WalkAll(m, path.elems)
  BY DEF namei
<1>2. Holds(m, b, m.ip, {}) /\ NStep(k, m, b)
  BY StartOfPath
<1> HIDE DEF m, r
<1>3. Holds(r, b, r.ip, {}) /\ NStep(m, r, b)
  BY <1>1, <1>2, WalkingAll
<1>4. NStep(k, r, b)
  BY <1>2, <1>3, NStepTrans
<1>5. Ok(r) /\ r.ip # NULL => r.ip \in Islots
  BY <1>3 DEF Holds, At, Safe, KernelType, SlotOrNull
<1> QED BY <1>3, <1>4, <1>5 DEF r

\* A reference to s is put back, and the result is v.
LEMMA PutBack ==
  ASSUME NEW w, NEW b \in Owed, NEW s \in Islots, NEW L, s \notin L,
         Holds(w, b, s, L), NEW v \in SlotOrNull
  PROVE  LET r == ReturnIp(iput(w, s), v) IN
         /\ Rests(r, b, L) /\ NStep(w, r, b) /\ r.ip = v
<1> DEFINE q == More(b, w.cwd)
           u == iput(w, s)
           r == ReturnIp(u, v)
<1>1. q \in Owed /\ At(w, More(q, s), L)
  BY MoreFacts DEF Holds
<1> HIDE DEF q
<1>2. At(u, q, L) /\ Step(w, u, q)
  BY <1>1, Iput
<1> HIDE DEF u
<1>3. At(r, q, L) /\ Step(u, r, q) /\ r.ip = v
  BY <1>2, IpOnly
<1> HIDE DEF r
<1>4. Step(w, r, q)
  BY <1>2, <1>3, StepTrans
<1>5. NStep(w, r, b) /\ r.cwd = w.cwd
  BY <1>4, StepLess DEF q
<1> QED BY <1>3, <1>5 DEF Rests, q, r, u

\* The same for an inode that is locked.
LEMMA UnlockAndPutBack ==
  ASSUME NEW w, NEW b \in Owed, NEW L, NEW s \in L, Holds(w, b, s, L)
  PROVE  LET r == iunlockput(w, s) IN
         /\ Rests(r, b, L \ {s}) /\ NStep(w, r, b)
         /\ Ok(w) => Ok(r)
         /\ Ok(r) => r.ip = w.ip /\ r.ret = w.ret /\ r.cwd = w.cwd /\ SameBut(w, r, s)
<1> DEFINE q == More(b, w.cwd)
           r == iunlockput(w, s)
<1>1. q \in Owed /\ At(w, More(q, s), L)
  BY MoreFacts DEF Holds
<1> HIDE DEF q
<1>2. /\ At(r, q, L \ {s}) /\ Step(w, r, q)
      /\ Ok(w) => Ok(r)
      /\ Ok(r) => r.ip = w.ip /\ r.ret = w.ret /\ SameBut(w, r, s)
  BY <1>1, Iunlockput
<1> HIDE DEF r
<1>3. \A t \in Islots : More(b, w.cwd)[t] > 0 => q[t] > 0
  BY DEF q
<1>4. Step(w, r, q)
  BY <1>2
<1>5. NStep(w, r, b) /\ r.cwd = w.cwd
  BY <1>3, <1>4, StepLess
<1>6. Rests(r, b, L \ {s})
  BY <1>2, <1>5 DEF Rests, q
<1> QED BY <1>2, <1>5, <1>6 DEF r

\* Lock what the path has led to.
LEMMA LockNamed ==
  ASSUME NEW w, NEW b \in Owed, NEW s \in Islots, Holds(w, b, s, {})
  PROVE  LET r == ilock(w, s) IN
         /\ Holds(r, b, s, {s}) /\ NStep(w, r, b) /\ r.cwd = w.cwd
         /\ Ok(r) => /\ Quiet(w, r) /\ r.icache[s].valid = TRUE
                     /\ r.icache[s].inum = w.icache[s].inum
                     /\ w.icache[s].valid = TRUE => SameAll(w, r)
<1> DEFINE q == More(b, w.cwd)
           none == {}
           r == ilock(w, s)
<1>1. /\ More(q, s) \in Owed /\ At(w, More(q, s), none) /\ More(q, s)[s] > 0
      /\ \A t \in Islots : q[t] > 0 => More(q, s)[t] > 0
      /\ s \notin none /\ none \cup {s} = {s}
  BY MoreFacts DEF Holds
<1> HIDE DEF q, none
<1>2. /\ At(r, More(q, s), none \cup {s}) /\ Step(w, r, More(q, s))
      /\ Ok(r) => /\ Quiet(w, r) /\ r.icache[s].valid = TRUE
                  /\ r.icache[s].inum = w.icache[s].inum
                  /\ w.icache[s].valid = TRUE => SameAll(w, r)
  BY <1>1, Ilock
<1> HIDE DEF r
<1>3. NStep(w, r, b) /\ r.cwd = w.cwd
  BY <1>1, <1>2, StepLess DEF q
<1> QED BY <1>1, <1>2, <1>3 DEF Holds, q, r

\* nameiparent() gives its caller a reference to a directory that has been loaded.
LEMMA NameIParent ==
  ASSUME NEW k, NEW b \in Owed, Rests(k, b, {}),
         NEW path, path.elems \in Seq(DirNames)
  PROVE  LET r == nameiparent(k, path) IN
         /\ Holds(r, b, r.ip, {}) /\ NStep(k, r, b)
         /\ Ok(r) /\ r.ip # NULL =>
              /\ r.ip \in Islots /\ path.elems # <<>>
              /\ r.icache[r.ip].valid = TRUE /\ r.icache[r.ip].type = "dir"
<1> DEFINE front == Front(path.elems)
           m == PathStart(k, path)
           w == WalkAll(m, front)
           r == nameiparent(k, path)
<1>1. front \in Seq(DirNames)
  BY DEF Front
<1>2. Holds(m, b, m.ip, {}) /\ NStep(k, m, b)
  BY StartOfPath
<1> HIDE DEF m, front
<1>3. Holds(w, b, w.ip, {}) /\ NStep(m, w, b)
  BY <1>1, <1>2, WalkingAll
<1>4. NStep(k, w, b)
  BY <1>2, <1>3, NStepTrans
<1> DEFINE l == ilock(w, w.ip)
<1>5. r = IF ~Ok(w) \/ w.ip = NULL THEN w
          ELSE IF path.elems = <<>> THEN ReturnIp(iput(w, w.ip), NULL)
          ELSE IF Ok(l) /\ Inode(l, l.ip).type # "dir"
               THEN ReturnIp(iunlockput(l, l.ip), NULL)
          ELSE iunlock(l, l.ip)
  BY DEF nameiparent, m, front
<1> HIDE DEF w, r
<1>6. CASE ~Ok(w) \/ w.ip = NULL
  <2>1. r = w
    BY <1>5, <1>6
  <2> QED BY <1>3, <1>4, <1>6, <2>1 DEF r
<1>7. CASE Ok(w) /\ w.ip # NULL
  <2> DEFINE s == w.ip
  <2>1. s \in Islots /\ NULL \in SlotOrNull
    BY <1>3, <1>7 DEF Holds, At, Safe, KernelType, SlotOrNull
  <2>2. CASE path.elems = <<>>
    <3>1. r = ReturnIp(iput(w, s), NULL)
      BY <1>5, <1>7, <2>2
    <3> HIDE DEF s
    <3>2. s \notin {} /\ Holds(w, b, s, {})
      BY <1>3 DEF s
    <3>3. Rests(r, b, {}) /\ NStep(w, r, b) /\ r.ip = NULL
      BY <2>1, <3>1, <3>2, PutBack
    <3>4. More(More(b, r.cwd), r.ip) = More(b, r.cwd)
      BY <3>3, MoreFacts
    <3>5. Holds(r, b, r.ip, {})
      BY <3>3, <3>4 DEF Holds, Rests
    <3>6. NStep(k, r, b)
      BY <1>4, <3>3, NStepTrans
    <3> QED BY <3>3, <3>5, <3>6 DEF r
  <2>3. CASE path.elems # <<>>
    <3>1. /\ Holds(l, b, s, {s}) /\ NStep(w, l, b) /\ l.cwd = w.cwd
          /\ Ok(l) => Quiet(w, l) /\ l.icache[s].valid = TRUE
      BY <1>3, <2>1, LockNamed
    <3>2. r = IF Ok(l) /\ l.icache[l.ip].type # "dir"
              THEN ReturnIp(iunlockput(l, l.ip), NULL)
              ELSE iunlock(l, l.ip)
      BY <1>5, <1>7, <2>3 DEF Inode
    <3> HIDE DEF l
    <3>3. NStep(k, l, b)
      BY <1>4, <3>1, NStepTrans
    <3>4. CASE ~Ok(l)
      <4>1. r = l
        BY <3>2, <3>4 DEF iunlock
      <4>2. Safe(l) /\ {} \subseteq Islots
        BY <3>1 DEF Holds, At
      <4>3. Holds(r, b, r.ip, {})
        BY <3>4, <4>1, <4>2, HaltedAnyway
      <4> QED BY <3>3, <3>4, <4>1, <4>3 DEF r
    <3>5. CASE Ok(l)
      <4>1. l.ip = s
        BY <3>1, <3>5 DEF Quiet
      <4> HIDE DEF s
      <4>2. CASE l.icache[s].type # "dir"
        <5> DEFINE u == iunlockput(l, s)
        <5>1. r = ReturnIp(u, NULL)
          BY <3>2, <3>5, <4>1, <4>2
        <5>2. s \in {s} /\ {s} \ {s} = {}
          OBVIOUS
        <5>3. Rests(u, b, {}) /\ NStep(l, u, b)
          BY <3>1, <5>2, UnlockAndPutBack
        <5> HIDE DEF u
        <5>4. /\ At(r, More(b, u.cwd), {}) /\ Step(u, r, More(b, u.cwd))
              /\ r.ip = NULL /\ r.cwd = u.cwd
          BY <2>1, <5>1, <5>3, IpOnly DEF Rests
        <5>5. More(More(b, r.cwd), r.ip) = More(b, r.cwd)
          BY <5>4, MoreFacts
        <5>6. Holds(r, b, r.ip, {})
          BY <5>4, <5>5 DEF Holds
        <5>7. NStep(u, r, b)
          BY <5>4, StepLess
        <5>8. NStep(k, u, b)
          BY <3>3, <5>3, NStepTrans
        <5>9. NStep(k, r, b)
          BY <5>7, <5>8, NStepTrans
        <5> QED BY <5>4, <5>6, <5>9 DEF r
      <4>3. CASE l.icache[s].type = "dir"
        <5> DEFINE q == More(b, l.cwd)
        <5>1. r = iunlock(l, s)
          BY <3>2, <3>5, <4>1, <4>3
        <5>2. /\ More(q, s) \in Owed /\ At(l, More(q, s), {s}) /\ More(q, s)[s] > 0
              /\ \A t \in Islots : q[t] > 0 => More(q, s)[t] > 0
          BY <2>1, <3>1, MoreFacts DEF Holds
        <5> DEFINE one == {s}
        <5> HIDE DEF q
        <5>3. At(l, More(q, s), one) /\ s \in one /\ one \ {s} = {}
          BY <5>2
        <5> HIDE DEF one
        <5>4. /\ At(r, More(q, s), one \ {s}) /\ Step(l, r, More(q, s))
              /\ Ok(r) => Quiet(l, r) /\ SameAll(l, r)
              /\ Ok(l) => Ok(r)
          BY <2>1, <5>1, <5>2, <5>3, Iunlock
        <5>5. NStep(l, r, b) /\ r.cwd = l.cwd
          BY <5>2, <5>4, StepLess DEF q
        <5>6. r.ip = s /\ Ok(r)
          BY <3>5, <4>1, <5>4 DEF Quiet
        <5>7. Holds(r, b, r.ip, {})
          BY <5>3, <5>4, <5>5, <5>6 DEF Holds, q
        <5>8. NStep(k, r, b)
          BY <3>3, <5>5, NStepTrans
        <5>9. r.icache[s].valid = TRUE /\ r.icache[s].type = "dir"
          BY <2>1, <3>1, <3>5, <4>3, <5>4, <5>6 DEF SameAll, Same
        <5> QED BY <2>1, <2>3, <5>6, <5>7, <5>8, <5>9 DEF r
      <4> QED BY <4>2, <4>3
    <3> QED BY <3>4, <3>5
  <2> QED BY <2>2, <2>3
<1> QED BY <1>6, <1>7

-----------------------------------------------------------------------------
(* xv6fs_ops.c: create. *)

\* The lemma Dirlink, as one fact.
LEMMA Entering ==
  ASSUME NEW k, NEW o, NEW L, At(k, o, L), NEW s \in Islots, o[s] > 0,
         NEW name \in DirNames, NEW inum \in Inums, Ok(k),
         CanLink(k, s, name, inum)
  PROVE  Entered(k, dirlink(k, s, name, inum), o, L, s, name, inum)
BY Dirlink DEF Entered

\* The first entry of a new directory, and the second, which no link is needed
\* for.
LEMMA Dotting ==
  ASSUME NEW k, NEW o, NEW L, At(k, o, L), NEW s \in Islots, o[s] > 0,
         NEW name \in {".", ".."}, NEW inum \in Inums, Ok(k),
         k.icache[s].type = "dir", k.icache[s].valid = TRUE,
         k.disk[k.icache[s].inum].ents[name] = 0
  PROVE  Dotted(k, dirlink(k, s, name, inum), o, L, s, name, inum)
<1> DEFINE i == k.icache[s].inum
           r == dirlink(k, s, name, inum)
<1>1. /\ i \in Inums /\ k.disk[i].type = "dir" /\ k.disk[i].ents[name] = 0
      /\ k.disk \in DiskType /\ DiskOk(k.disk) /\ name \in DirNames
  BY DEF At, RefsAre, SlotsOk, SlotOk, Safe, KernelType, DirNames
<1>2. CanLink(k, s, name, inum)
  BY <1>1 DEF CanLink, MayName
<1>3. Entered(k, r, o, L, s, name, inum)
  BY <1>1, <1>2, Entering
<1>4. EntryIs(k.disk, r.disk, i, name, inum)
  BY <1>3 DEF Entered
<1> HIDE DEF i, r
<1>5. /\ OnlyInode(k.disk, r.disk, i) /\ r.disk[i].type = k.disk[i].type
      /\ r.disk[i].nlink = k.disk[i].nlink /\ r.disk[i].emptied = k.disk[i].emptied
      /\ r.disk[i].ents = [k.disk[i].ents EXCEPT ![name] = inum]
  BY <1>4 DEF EntryIs
<1>6. \A j \in Inums : Needed(r.disk, j) = Needed(k.disk, j)
  BY <1>1, <1>5, DotMade
<1>7. \A j \in Inums : /\ r.disk[j].type = k.disk[j].type
                       /\ r.disk[j].nlink = k.disk[j].nlink
  BY <1>5 DEF OnlyInode
<1> QED BY <1>3, <1>6, <1>7 DEF r, Dotted

\* The parent and the new inode stay ready when neither is touched.
LEMMA ReadyKept ==
  ASSUME NEW k, NEW r, NEW dp \in Islots, NEW ip \in Islots, NEW name,
         Ready(k, dp, ip, name), Ok(r), SameAll(k, r),
         r.disk[k.icache[dp].inum].ents = k.disk[k.icache[dp].inum].ents,
         \A j \in Inums : r.disk[j].type = k.disk[j].type,
         Spare(r.disk, k.icache[ip].inum)
  PROVE  Ready(r, dp, ip, name)
BY DEF Ready, SameAll, Same

\* A new directory gets its two entries, and its parent one link more, which it
\* has to spare as long as the new directory has no name.
LEMMA SelfLinking ==
  ASSUME NEW k, NEW o, NEW L, At(k, o, L), NEW dp \in Islots, NEW ip \in Islots,
         o[dp] > 0, o[ip] > 0, NEW name, Ready(k, dp, ip, name),
         k.icache[ip].type = "dir", k.disk[k.icache[ip].inum].ents = NoEntries
  PROVE  LET r == SelfLinks(k, ip, dp) IN
         /\ At(r, o, L) /\ Step(k, r, o) /\ Ready(r, dp, ip, name)
         /\ r.ret = 0 /\ SameAll(k, r)
         /\ Spare(r.disk, k.icache[dp].inum)
         /\ DotsAre(r.disk, k.icache[ip].inum, k.icache[dp].inum)
<1> DEFINE i == k.icache[ip].inum
           d == k.icache[dp].inum
           v == k.icache[dp].nlink + 1
           x == iupdate([k EXCEPT !.icache[dp].nlink = v], dp)
           y == dirlink(x, ip, ".", i)
           z == dirlink(y, ip, "..", d)
           r == SelfLinks(k, ip, dp)
<1>1. /\ Ok(k) /\ i \in Inums /\ d \in Inums /\ i # d
      /\ k.icache[dp].valid = TRUE /\ k.icache[ip].valid = TRUE /\ v \in Int
  BY DEF Ready, At, Safe, KernelType, SlotType
<1>2. x = iupdate([k EXCEPT !.icache[dp].nlink = @ + 1], dp)
  OBVIOUS
<1>3. r = IF y.ret < 0 THEN y ELSE z
  BY DEF SelfLinks, AlsoLink, Inode
<1>4. Needed(k.disk, d) + 1 <= v /\ Needed(k.disk, d) <= v
  <2>1. SlotOk(k, dp) /\ InodeOk(k.disk, d) /\ k.icache[dp].nlink \in Int
    BY <1>1 DEF At, RefsAre, SlotsOk, Safe, KernelType, SlotType, DiskOk
  <2>2. Needed(k.disk, d) \in Nat
    BY Counted
  <2> QED BY <1>1, <2>1, <2>2 DEF SlotOk, InodeOk
<1> HIDE DEF v
<1>5. /\ At(x, o, L) /\ Step(k, x, o) /\ Ok(x) /\ SameAll(k, x) /\ SameEnts(k, x)
      /\ Relinked(k.disk, x.disk, d, v)
  BY <1>1, <1>4, SetNlink
<1> HIDE DEF x
<1>6. Spare(x.disk, d) /\ Spare(x.disk, i) /\ \A j \in Inums : x.disk[j].type = k.disk[j].type
  BY <1>1, <1>4, <1>5 DEF Relinked, OnlyInode, Spare, Ready
<1>7. Ready(x, dp, ip, name)
  BY <1>1, <1>5, <1>6, ReadyKept DEF SameEnts
<1>8. /\ x.icache[ip].type = "dir" /\ x.icache[ip].inum = i /\ x.icache[dp].inum = d
      /\ x.icache[ip].valid = TRUE /\ x.disk[i].ents = NoEntries
  BY <1>1, <1>5 DEF SameAll, Same, SameEnts
<1>9. /\ "." \in DirNames /\ ".." \in DirNames /\ ".." # "."
      /\ NoEntries["."] = 0 /\ NoEntries[".."] = 0
  BY DEF DirNames, NoEntries
<1> HIDE DEF i, d
<1>10. Dotted(x, y, o, L, ip, ".", i)
  BY <1>1, <1>5, <1>8, <1>9, Dotting
<1> HIDE DEF y
<1>11. /\ At(y, o, L) /\ Step(x, y, o) /\ Ok(y) /\ y.ret = 0 /\ SameAll(x, y)
       /\ \A j \in Inums \ {i} : y.disk[j] = x.disk[j]
       /\ y.disk[i].ents = [NoEntries EXCEPT !["."] = i]
  BY <1>8, <1>10 DEF Dotted, Entered, EntryIs, OnlyInode
<1>12. /\ Spare(y.disk, d) /\ Spare(y.disk, i)
       /\ \A j \in Inums : y.disk[j].type = x.disk[j].type
  BY <1>1, <1>6, <1>10 DEF Spare, Dotted
<1>13. /\ y.disk[i].ents[".."] = 0 /\ y.disk[i].ents["."] = i
  BY <1>9, <1>11 DEF NoEntries
<1>14. /\ y.icache[ip].type = "dir" /\ y.icache[ip].inum = i /\ y.icache[dp].inum = d
       /\ y.icache[ip].valid = TRUE
  BY <1>8, <1>11 DEF SameAll, Same
<1>15. Ready(y, dp, ip, name)
  BY <1>1, <1>7, <1>8, <1>11, <1>12, ReadyKept
<1>16. Dotted(y, z, o, L, ip, "..", d)
  BY <1>1, <1>11, <1>13, <1>14, Dotting
<1> HIDE DEF z
<1>17. /\ At(z, o, L) /\ Step(y, z, o) /\ Ok(z) /\ z.ret = 0 /\ SameAll(y, z)
       /\ \A j \in Inums \ {i} : z.disk[j] = y.disk[j]
       /\ z.disk[i].ents = [y.disk[i].ents EXCEPT ![".."] = d]
  BY <1>14, <1>16 DEF Dotted, Entered, EntryIs, OnlyInode
<1>18. /\ Spare(z.disk, d) /\ Spare(z.disk, i)
       /\ \A j \in Inums : z.disk[j].type = y.disk[j].type
  BY <1>1, <1>12, <1>16 DEF Spare, Dotted
<1>19. DotsAre(z.disk, i, d)
  BY <1>9, <1>11, <1>17 DEF DotsAre, NoEntries
<1>20. Ready(z, dp, ip, name)
  BY <1>1, <1>14, <1>15, <1>17, <1>18, ReadyKept
<1>21. Step(k, y, o)
  BY <1>5, <1>11, StepTrans
<1>22. Step(k, z, o)
  BY <1>17, <1>21, StepTrans
<1>23. SameAll(k, z)
  BY <1>5, <1>11, <1>17 DEF SameAll, Same
<1>24. r = z
  BY <1>3, <1>11
<1> HIDE DEF r
<1> QED BY <1>17, <1>18, <1>19, <1>20, <1>22, <1>23, <1>24 DEF r, i, d

\* A new inode gets its links, none of which fails.
LEMMA Linking ==
  ASSUME NEW k, NEW o, NEW L, At(k, o, L), NEW dp \in Islots, NEW ip \in Islots,
         o[dp] > 0, o[ip] > 0, NEW name \in DirNames, Ready(k, dp, ip, name),
         NEW type, k.icache[ip].type = type,
         k.disk[k.icache[ip].inum].ents = NoEntries
  PROVE  LET r == Links(k, ip, dp, name, type) IN
         /\ At(r, o, L) /\ Step(k, r, o) /\ Ok(r)
         /\ r.ret = 0 /\ SameAll(k, r)
<1> DEFINE i == k.icache[ip].inum
           d == k.icache[dp].inum
           m == IF type = "dir" THEN SelfLinks(k, ip, dp) ELSE Return(k, 0)
           n == dirlink(m, dp, name, i)
           r == Links(k, ip, dp, name, type)
<1>1. r = IF m.ret < 0 THEN m ELSE n
  BY DEF Links, AlsoLink, Inode
<1> HIDE DEF r
<1>2. /\ At(m, o, L) /\ Step(k, m, o) /\ Ready(m, dp, ip, name)
      /\ m.ret = 0 /\ SameAll(k, m)
      /\ type = "dir" => Spare(m.disk, d) /\ DotsAre(m.disk, i, d)
  <2>1. CASE type = "dir"
    <3>1. m = SelfLinks(k, ip, dp)
      BY <2>1
    <3> HIDE DEF m
    <3> QED BY <2>1, <3>1, SelfLinking
  <2>2. CASE type # "dir"
    <3>1. m = Return(k, 0) /\ 0 \in Int
      BY <2>2
    <3> HIDE DEF m
    <3>2. /\ At(m, o, L) /\ (Ok(m) <=> Ok(k)) /\ Step(k, m, o)
          /\ m.ret = 0 /\ m.disk = k.disk /\ m.icache = k.icache
      BY <3>1, RetOnly
    <3> QED BY <2>2, <3>2 DEF Ready, SameAll, Same
  <2> QED BY <2>1, <2>2
<1> HIDE DEF m
<1>3. /\ i \in Inums \ {d} /\ Ok(m)
      /\ m.icache[dp].type = "dir" /\ m.icache[dp].inum = d
      /\ m.disk[d].ents[name] = 0 /\ m.disk[d].type = "dir"
      /\ m.disk[i].type # "free" /\ Spare(m.disk, i)
  BY <1>2 DEF Ready, SameAll, Same
<1>4. m.disk[i].type = type
  <2>1. SlotOk(m, ip) /\ m.icache[ip].inum = i
    BY <1>2, <1>3 DEF At, RefsAre, SlotsOk, SameAll, Same
  <2> QED BY <1>2, <2>1 DEF SlotOk, Ready, SameAll, Same
<1> HIDE DEF i, d
<1>5. MayName(m.disk, d, name, i)
  BY <1>2, <1>3, <1>4 DEF MayName, DirNames
<1>6. CanLink(m, dp, name, i)
  BY <1>3, <1>5 DEF CanLink
<1>7. /\ At(n, o, L) /\ Step(m, n, o) /\ Ok(n) /\ n.ret = 0 /\ SameAll(m, n)
  <2>1. Entered(m, n, o, L, dp, name, i)
    BY <1>2, <1>3, <1>6, Entering
  <2> QED BY <2>1 DEF Entered
<1> HIDE DEF n
<1>8. r = n
  BY <1>1, <1>2
<1>9. Step(k, n, o)
  BY <1>2, <1>7, StepTrans
<1>10. SameAll(k, n)
  BY <1>2, <1>7 DEF SameAll, Same
<1> QED BY <1>7, <1>8, <1>9, <1>10 DEF r

\* The lemma HaltedAnyway, for a call that returns a locked inode.
LEMMA HaltedLocked ==
  ASSUME NEW k, NEW r, NEW b \in Owed, Safe(r), ~Ok(r), r.ofiles = k.ofiles
  PROVE  Locked(r, b) /\ NStep(k, r, b)
<1>1. {r.ip} \ {NULL} \subseteq Islots
  BY DEF Safe, KernelType, SlotOrNull
<1> QED BY <1>1, HaltedAnyway DEF Locked

\* NULL is a result that nothing is held for.
LEMMA NothingLocked ==
  ASSUME NEW k, NEW b \in Owed, Rests(k, b, {}), k.ip = NULL
  PROVE  Locked(k, b)
<1>1. More(More(b, k.cwd), k.ip) = More(b, k.cwd)
  BY MoreFacts
<1>2. {k.ip} \ {NULL} = {}
  OBVIOUS
<1> QED BY <1>1, <1>2 DEF Locked, Holds, Rests

\* The half of xv6fs_create() that makes an inode returns it locked, and its
\* parent unlocked and put back.
LEMMA NewInodes ==
  ASSUME NEW k, NEW b \in Owed, NEW dp \in Islots, Holds(k, b, dp, {dp}), Ok(k),
         k.icache[dp].valid = TRUE, k.icache[dp].type = "dir",
         NEW name \in DirNames, k.disk[k.icache[dp].inum].ents[name] = 0,
         NEW type \in {"file", "dir"}
  PROVE  LET r == NewInode(k, dp, name, type) IN Locked(r, b) /\ NStep(k, r, b)
<1> DEFINE q == More(b, k.cwd)
           o == More(q, dp)
           d == k.icache[dp].inum
           a == ialloc(k, type)
           ip == a.ip
           p == More(o, ip)
           l == ilock(a, ip)
           c == iupdate([l EXCEPT !.icache[ip].nlink = 1], ip)
           n == Links(c, ip, dp, name, type)
           r == NewInode(k, dp, name, type)
<1>1. r = IF ~Ok(a) THEN a
          ELSE IF ~Ok(l) THEN l
          ELSE IF n.ret < 0 THEN ReturnIp(BothPut(n, ip, dp), NULL)
          ELSE ReturnIp(iunlockput(n, dp), ip)
  BY DEF NewInode
<1> HIDE DEF r, n
<1>2. /\ q \in Owed /\ o \in Owed /\ o[dp] > 0 /\ p \in Owed
      /\ At(k, o, {dp})
      /\ \A t \in Islots : q[t] > 0 => o[t] > 0
      /\ \A t \in Islots : o[t] > 0 => p[t] > 0
  BY MoreFacts DEF Holds
<1>3. d \in Inums /\ k.disk[d].type = "dir"
  BY <1>2 DEF At, RefsAre, SlotsOk, SlotOk
<1>4. /\ At(a, More(o, a.ip), {dp}) /\ Step(k, a, o)
      /\ Ok(a) => /\ ip \in Islots /\ a.icache[ip].inum \in Inums
                  /\ k.disk[a.icache[ip].inum].type = "free"
                  /\ \A j \in Inums \ {a.icache[ip].inum} : a.disk[j] = k.disk[j]
                  /\ a.disk[a.icache[ip].inum].type = type
                  /\ a.disk[a.icache[ip].inum].ents = NoEntries
                  /\ a.disk[a.icache[ip].inum].nlink = 0
                  /\ SameHeld(k, a, o)
  <2> DEFINE one == {dp}
  <2>1. At(k, o, one)
    BY <1>2
  <2> HIDE DEF one, o
  <2>2. Allotted(k, a, o, one, type)
    BY <2>1, Ialloc
  <2> QED BY <2>2 DEF one, Allotted
<1> HIDE DEF a, o
<1>5. CASE ~Ok(a)
  <2>1. r = a /\ Safe(a) /\ a.ofiles = k.ofiles
    BY <1>1, <1>4, <1>5 DEF At, Step
  <2> QED BY <1>5, <2>1, HaltedLocked DEF r
<1>6. CASE Ok(a)
  <2> DEFINE i == a.icache[ip].inum
  <2>1. /\ ip \in Islots /\ i \in Inums /\ i # d
        /\ a.icache[dp].inum = d /\ a.icache[dp].valid = TRUE
        /\ a.icache[dp].type = "dir" /\ a.disk[d] = k.disk[d]
    BY <1>2, <1>3, <1>4, <1>6 DEF SameHeld, Same
  <2>2. ip # dp
    BY <2>1
  <2> HIDE DEF i, d
  <2>3. p[ip] > 0 /\ p[dp] > 0 /\ p = More(o, ip) /\ p \in Owed
    BY <1>2, <2>1, MoreFacts
  <2> HIDE DEF p
  <2>4. /\ At(l, p, {dp} \cup {ip}) /\ Step(a, l, p)
        /\ Ok(l) => /\ Quiet(a, l) /\ SameBut(a, l, ip)
                    /\ l.icache[ip].valid = TRUE
                    /\ l.icache[ip].inum = a.icache[ip].inum
    <3> DEFINE one == {dp}
    <3>1. At(a, p, one) /\ ip \notin one
      BY <1>4, <2>2, <2>3
    <3> HIDE DEF one, ip
    <3>2. /\ At(l, p, one \cup {ip}) /\ Step(a, l, p)
          /\ Ok(l) => /\ Quiet(a, l) /\ SameBut(a, l, ip)
                      /\ l.icache[ip].valid = TRUE
                      /\ l.icache[ip].inum = a.icache[ip].inum
      BY <2>1, <2>3, <3>1, Ilock
    <3> QED BY <3>2 DEF one
  <2> HIDE DEF ip, l
  <2>5. Step(k, l, o)
    BY <1>2, <1>4, <2>4, StepTrans
  <2>6. CASE ~Ok(l)
    <3>1. r = l /\ Safe(l) /\ l.ofiles = k.ofiles
      BY <1>1, <1>6, <2>4, <2>5, <2>6 DEF At, Step
    <3> QED BY <2>6, <3>1, HaltedLocked DEF r
  <2>7. CASE Ok(l)
    <3> DEFINE L == {dp} \cup {ip}
    <3>1. /\ l.icache[dp].inum = d /\ l.icache[dp].valid = TRUE
          /\ l.icache[dp].type = "dir" /\ l.icache[ip].inum = i
          /\ l.disk[i].type = type /\ l.disk[i].ents = NoEntries
          /\ l.disk[i].nlink = 0
          /\ l.disk[d].ents[name] = 0 /\ l.disk[d].type = "dir"
      BY <1>3, <1>4, <1>6, <2>1, <2>2, <2>4, <2>7 DEF SameBut, Same, Quiet, i, d
    <3>2. l.icache[ip].type = type
      BY <2>1, <2>3, <2>4, <2>7, <3>1 DEF At, RefsAre, SlotsOk, SlotOk
    <3>3. Needed(l.disk, i) = 0
      <4>1. l.disk \in DiskType /\ DiskOk(l.disk)
        BY <2>4 DEF At, Safe, KernelType
      <4> QED BY <2>1, <3>1, <4>1, Nameless
    <3> HIDE DEF L
    <3>4. At(l, p, L) /\ 1 \in Int
      BY <2>4 DEF L
    <3>5. /\ At(c, p, L) /\ Step(l, c, p) /\ Ok(c) /\ SameAll(l, c) /\ SameEnts(l, c)
          /\ Relinked(l.disk, c.disk, i, 1)
      <4>1. l.icache[ip].inum = i /\ Needed(l.disk, i) <= 1
        BY <3>1, <3>3
      <4> QED BY <2>1, <2>3, <2>4, <2>7, <3>4, <4>1, SetNlink
    <3> HIDE DEF c
    <3>6. /\ c.icache[ip].type = type /\ c.icache[ip].valid = TRUE
          /\ c.icache[ip].inum = i /\ c.icache[dp].inum = d
          /\ c.icache[dp].valid = TRUE /\ c.icache[dp].type = "dir"
          /\ c.disk[i].ents = NoEntries /\ c.disk[d].ents[name] = 0
      BY <1>3, <2>1, <2>4, <2>7, <3>1, <3>2, <3>5 DEF SameAll, Same, SameEnts
    <3>7. /\ Spare(c.disk, i) /\ c.disk[i].type # "free" /\ c.disk[d].type = "dir"
      BY <1>3, <2>1, <3>1, <3>3, <3>5 DEF Relinked, OnlyInode, Spare
    <3>8. Ready(c, dp, ip, name)
      BY <1>3, <2>1, <3>5, <3>6, <3>7 DEF Ready
    <3>9. /\ At(n, p, L) /\ Step(c, n, p) /\ Ok(n)
          /\ n.ret = 0 /\ SameAll(c, n)
      BY <2>1, <2>3, <3>5, <3>6, <3>8, Linking DEF n
    <3>10. Step(k, c, o)
      BY <1>2, <2>3, <2>5, <3>5, StepTrans DEF p
    <3>11. Step(k, n, o)
      BY <1>2, <2>3, <3>9, <3>10, StepTrans DEF p
    <3> DEFINE u == iunlockput(n, dp)
    <3>12. r = ReturnIp(u, ip)
      BY <1>1, <1>6, <2>7, <3>9
    <3>13. p = More(More(q, ip), dp) /\ More(q, ip) \in Owed
           /\ (\A t \in Islots : q[t] > 0 => More(q, ip)[t] > 0)
           /\ dp \in L /\ L \ {dp} = {ip}
      BY <1>2, <2>2, <2>3, MoreFacts DEF o, L
    <3> DEFINE s == More(q, ip)
    <3> HIDE DEF q, s
    <3>14. /\ At(u, s, {ip}) /\ Step(n, u, s)
           /\ Ok(n) => Ok(u)
           /\ Ok(u) => SameBut(n, u, dp)
      <4>1. At(n, More(s, dp), L) /\ s \in Owed
        BY <3>9, <3>13 DEF s
      <4> QED BY <3>13, <4>1, Iunlockput
    <3> HIDE DEF u
    <3>15. ip \in SlotOrNull
      BY <2>1 DEF SlotOrNull
    <3>16. /\ At(r, s, {ip}) /\ Step(u, r, s) /\ Ok(r)
           /\ r.ip = ip /\ r.icache = u.icache
      BY <3>9, <3>12, <3>14, <3>15, IpOnly
    <3>17. Step(k, u, q)
      BY <1>2, <3>11, <3>13, <3>14, StepTrans DEF s
    <3>18. Step(k, r, q)
      BY <3>13, <3>16, <3>17, StepTrans DEF s
    <3>19. NStep(k, r, b) /\ r.cwd = k.cwd
      BY <3>18, StepLess DEF q
    <3>20. r.icache[ip].valid = TRUE
      BY <2>1, <2>2, <2>4, <2>7, <3>5, <3>9, <3>14, <3>16 DEF SameAll, SameBut, Same
    <3>21. {ip} \ {NULL} = {ip}
      BY <2>1, Constants
    <3>22. Holds(r, b, r.ip, {r.ip} \ {NULL})
      BY <3>16, <3>19, <3>21 DEF Holds, q, s
    <3> QED BY <2>1, <3>16, <3>19, <3>20, <3>22 DEF Locked, r
  <2> QED BY <2>6, <2>7
<1> QED BY <1>5, <1>6

\* The last element of a path with a parent is a name.
LEMMA LastName ==
  ASSUME NEW elems \in Seq(DirNames), elems # <<>>
  PROVE  Last(elems) \in DirNames
BY DEF Last

\* dirlookup() in a directory dp that is locked, within a call on names.
LEMMA LookingUp ==
  ASSUME NEW l, NEW b \in Owed, NEW dp \in Islots, Holds(l, b, dp, {dp}),
         Ok(l), l.icache[dp].valid = TRUE, l.icache[dp].type = "dir",
         NEW name \in DirNames
  PROVE  LookedUp(l, dirlookup(l, dp, name), b, dp, name)
<1> DEFINE q == More(b, l.cwd)
           o == More(q, dp)
           one == {dp}
           f == dirlookup(l, dp, name)
<1>1. /\ q \in Owed /\ o \in Owed /\ o[dp] > 0 /\ At(l, o, one)
      /\ \A t \in Islots : q[t] > 0 => o[t] > 0
  BY MoreFacts DEF Holds
<1> HIDE DEF o, one
<1>2. /\ At(f, More(o, f.ip), one) /\ Step(l, f, o)
      /\ Ok(f) => /\ f.disk = l.disk /\ f.ret = l.ret /\ SameHeld(l, f, o)
                  /\ f.ip \in Islots \/ f.ip = NULL
                  /\ f.ip = NULL => l.disk[l.icache[dp].inum].ents[name] = 0
                  /\ f.ip # NULL =>
                       f.icache[f.ip].inum = l.disk[l.icache[dp].inum].ents[name]
  BY <1>1, Dirlookup
<1> HIDE DEF f
<1>3. More(o, f.ip) = More(More(q, f.ip), dp)
  BY <1>1, MoreFacts DEF o
<1>4. NStep(l, f, b) /\ f.cwd = l.cwd
  BY <1>1, <1>2, StepLess
<1>5. Ok(f) => /\ f.icache[dp].valid = TRUE /\ f.icache[dp].type = "dir"
               /\ f.icache[dp].inum = l.icache[dp].inum
  BY <1>1, <1>2 DEF SameHeld, Same
<1> QED BY <1>2, <1>3, <1>4, <1>5 DEF f, o, one, LookedUp

\* An inode is found under the name: dp is left, and ip is locked.
LEMMA FoundInode ==
  ASSUME NEW f, NEW b \in Owed, NEW dp \in Islots, NEW ip \in Islots,
         At(f, More(More(More(b, f.cwd), ip), dp), {dp})
  PROVE  LET g == ilock(iunlockput(f, dp), ip) IN
         /\ Holds(g, b, ip, {ip}) /\ NStep(f, g, b)
         /\ Ok(g) => g.icache[ip].valid = TRUE
<1> DEFINE q == More(b, f.cwd)
           s == More(q, ip)
           one == {dp}
           u == iunlockput(f, dp)
           g == ilock(u, ip)
<1>1. /\ q \in Owed /\ s \in Owed /\ At(f, More(s, dp), one)
      /\ dp \in one /\ one \ {dp} = {}
      /\ \A t \in Islots : q[t] > 0 => s[t] > 0
  BY MoreFacts
<1> HIDE DEF s, one
<1>2. At(u, s, one \ {dp}) /\ Step(f, u, s)
  BY <1>1, Iunlockput
<1> HIDE DEF u
<1>3. NStep(f, u, b) /\ u.cwd = f.cwd
  BY <1>1, <1>2, StepLess
<1>4. Holds(u, b, ip, {})
  BY <1>1, <1>2, <1>3 DEF Holds, s
<1>5. /\ Holds(g, b, ip, {ip}) /\ NStep(u, g, b)
      /\ Ok(g) => g.icache[ip].valid = TRUE
  BY <1>4, LockNamed
<1> HIDE DEF g
<1>6. NStep(f, g, b)
  BY <1>3, <1>5, NStepTrans
<1> QED BY <1>5, <1>6 DEF g, u

\* iunlockput() and a result of NULL.
LEMMA GivingUp ==
  ASSUME NEW g, NEW b \in Owed, NEW ip \in Islots, Holds(g, b, ip, {ip})
  PROVE  LET r == ReturnIp(iunlockput(g, ip), NULL) IN
         /\ Rests(r, b, {}) /\ NStep(g, r, b) /\ r.ip = NULL
<1> DEFINE one == {ip}
           u == iunlockput(g, ip)
           r == ReturnIp(u, NULL)
<1>1. ip \in one /\ one \ {ip} = {} /\ Holds(g, b, ip, one)
  BY Zenon
<1> HIDE DEF one
<1>2. Rests(u, b, one \ {ip}) /\ NStep(g, u, b)
  BY <1>1, UnlockAndPutBack
<1> HIDE DEF u
<1>3. At(u, More(b, u.cwd), {}) /\ NULL \in SlotOrNull
  BY <1>1, <1>2 DEF Rests, SlotOrNull
<1>4. /\ At(r, More(b, u.cwd), {}) /\ Step(u, r, More(b, u.cwd))
      /\ r.ip = NULL /\ r.cwd = u.cwd
  BY <1>3, IpOnly
<1> HIDE DEF r
<1>5. NStep(u, r, b)
  BY <1>4, StepLess
<1>6. NStep(g, r, b)
  BY <1>2, <1>5, NStepTrans
<1> QED BY <1>4, <1>6 DEF Rests, r, u

\* xv6fs_create() returns an inode locked and held, or NULL and nothing locked.
LEMMA Creating ==
  ASSUME NEW k, NEW b \in Owed, Rests(k, b, {}),
         NEW path, path.elems \in Seq(DirNames), NEW type \in {"file", "dir"}
  PROVE  LET r == xv6fs_create(k, path, type) IN Locked(r, b) /\ NStep(k, r, b)
<1> DEFINE name == Last(path.elems)
           p == nameiparent(k, path)
           dp == p.ip
           l == ilock(p, dp)
           f == dirlookup(l, dp, name)
           ip == f.ip
           g == ilock(iunlockput(f, dp), ip)
           r == xv6fs_create(k, path, type)
<1>1. r = IF ~Ok(p) \/ dp = NULL THEN p
          ELSE IF ~Ok(f) THEN f
          ELSE IF ip = NULL THEN NewInode(f, dp, name, type)
          ELSE IF ~Ok(g) THEN g
          ELSE IF type = "file" /\ g.icache[ip].type = "file" THEN ReturnIp(g, ip)
          ELSE ReturnIp(iunlockput(g, ip), NULL)
  BY DEF xv6fs_create, Inode
<1> HIDE DEF r
<1>2. /\ Holds(p, b, dp, {}) /\ NStep(k, p, b)
      /\ Ok(p) /\ dp # NULL =>
           /\ dp \in Islots /\ path.elems # <<>>
           /\ p.icache[dp].valid = TRUE /\ p.icache[dp].type = "dir"
  BY NameIParent
<1> HIDE DEF p
<1>3. CASE ~Ok(p)
  <2>1. r = p /\ Safe(p) /\ p.ofiles = k.ofiles
    BY <1>1, <1>2, <1>3 DEF Holds, At, NStep
  <2> QED BY <1>3, <2>1, HaltedLocked DEF r
<1>4. CASE Ok(p) /\ dp = NULL
  <2>1. r = p
    BY <1>1, <1>4
  <2>2. More(More(b, p.cwd), dp) = More(b, p.cwd)
    BY <1>4, MoreFacts
  <2>3. Rests(p, b, {})
    BY <1>2, <2>2 DEF Holds, Rests
  <2>4. Locked(p, b)
    BY <1>4, <2>3, NothingLocked
  <2> QED BY <1>2, <2>1, <2>4 DEF r
<1>5. CASE Ok(p) /\ dp # NULL
  <2>1. /\ dp \in Islots /\ name \in DirNames
        /\ p.icache[dp].valid = TRUE /\ p.icache[dp].type = "dir"
    BY <1>2, <1>5, LastName
  <2> HIDE DEF dp, name
  <2>2. /\ Holds(l, b, dp, {dp}) /\ NStep(p, l, b)
        /\ Ok(l) => l.icache[dp].valid = TRUE /\ SameAll(p, l)
    BY <1>2, <2>1, LockNamed
  <2> HIDE DEF l
  <2>3. NStep(k, l, b)
    BY <1>2, <2>2, NStepTrans
  <2>4. CASE ~Ok(l)
    <3>1. f = l
      BY <2>4 DEF dirlookup
    <3>2. r = l /\ Safe(l) /\ l.ofiles = k.ofiles
      BY <1>1, <1>5, <2>2, <2>3, <2>4, <3>1 DEF Holds, At, NStep
    <3> QED BY <2>4, <3>2, HaltedLocked DEF r
  <2>5. CASE Ok(l)
    <3>1. l.icache[dp].valid = TRUE /\ l.icache[dp].type = "dir"
      BY <2>1, <2>2, <2>5 DEF SameAll, Same
    <3>2. /\ At(f, More(More(More(b, l.cwd), f.ip), dp), {dp})
          /\ f.cwd = l.cwd /\ NStep(l, f, b)
          /\ Ok(f) => /\ f.icache[dp].valid = TRUE /\ f.icache[dp].type = "dir"
                      /\ f.ip \in Islots \/ f.ip = NULL
                      /\ f.ip = NULL => f.disk[f.icache[dp].inum].ents[name] = 0
      <4>1. LookedUp(l, f, b, dp, name)
        BY <2>1, <2>2, <2>5, <3>1, LookingUp
      <4> QED BY <4>1 DEF LookedUp
    <3> HIDE DEF f
    <3>3. NStep(k, f, b)
      BY <2>3, <3>2, NStepTrans
    <3>4. CASE ~Ok(f)
      <4>1. r = f /\ Safe(f) /\ f.ofiles = k.ofiles
        BY <1>1, <1>5, <3>2, <3>3, <3>4 DEF At, NStep
      <4> QED BY <3>4, <4>1, HaltedLocked DEF r
    <3>5. CASE Ok(f) /\ ip = NULL
      <4>1. r = NewInode(f, dp, name, type)
        BY <1>1, <1>5, <3>5
      <4>2. More(More(b, l.cwd), f.ip) = More(b, f.cwd)
        BY <3>2, <3>5, MoreFacts
      <4>3. Holds(f, b, dp, {dp})
        BY <3>2, <4>2 DEF Holds
      <4>4. Locked(r, b) /\ NStep(f, r, b)
        BY <2>1, <3>2, <3>5, <4>1, <4>3, NewInodes
      <4>5. NStep(k, r, b)
        BY <3>3, <4>4, NStepTrans
      <4> QED BY <4>4, <4>5 DEF r
    <3>6. CASE Ok(f) /\ ip # NULL
      <4>1. ip \in Islots /\ At(f, More(More(More(b, f.cwd), ip), dp), {dp})
        BY <3>2, <3>6
      <4> HIDE DEF ip
      <4>2. /\ Holds(g, b, ip, {ip}) /\ NStep(f, g, b)
            /\ Ok(g) => g.icache[ip].valid = TRUE
        BY <2>1, <4>1, FoundInode
      <4> HIDE DEF g
      <4>3. NStep(k, g, b)
        BY <3>3, <4>2, NStepTrans
      <4>4. CASE ~Ok(g)
        <5>1. r = g /\ Safe(g) /\ g.ofiles = k.ofiles
          BY <1>1, <1>5, <3>6, <4>2, <4>3, <4>4 DEF Holds, At, NStep
        <5> QED BY <4>4, <5>1, HaltedLocked DEF r
      <4>5. CASE Ok(g) /\ type = "file" /\ g.icache[ip].type = "file"
        <5> DEFINE q == More(b, g.cwd)
                   one == {ip}
        <5>1. r = ReturnIp(g, ip)
          BY <1>1, <1>5, <3>6, <4>5
        <5>2. ip \in SlotOrNull
          BY <4>1 DEF SlotOrNull
        <5>3. At(g, More(q, ip), one)
          BY <4>2 DEF Holds
        <5> DEFINE o == More(q, ip)
        <5> HIDE DEF one, q
        <5>4. q \in Owed /\ \A t \in Islots : q[t] > 0 => o[t] > 0
          BY MoreFacts DEF q
        <5>5. At(g, o, one)
          BY <5>3
        <5> HIDE DEF o
        <5>6. /\ At(r, o, one) /\ Step(g, r, o)
              /\ r.ip = ip /\ r.icache = g.icache /\ r.cwd = g.cwd
          BY <5>1, <5>2, <5>5, IpOnly
        <5>7. NStep(g, r, b)
          BY <5>4, <5>6, StepLess DEF q
        <5>8. NStep(k, r, b)
          BY <4>3, <5>7, NStepTrans
        <5>9. one = {r.ip} \ {NULL}
          BY <4>1, <5>6, Constants DEF one
        <5>10. Holds(r, b, r.ip, {r.ip} \ {NULL})
          BY <5>6, <5>9 DEF Holds, q, o
        <5> QED BY <4>1, <4>2, <4>5, <5>6, <5>8, <5>10 DEF Locked, r
      <4>6. CASE Ok(g) /\ ~(type = "file" /\ g.icache[ip].type = "file")
        <5>1. r = ReturnIp(iunlockput(g, ip), NULL)
          BY <1>1, <1>5, <3>6, <4>6
        <5>2. Rests(r, b, {}) /\ NStep(g, r, b) /\ r.ip = NULL
          BY <4>1, <4>2, <5>1, GivingUp
        <5>3. NStep(k, r, b)
          BY <4>3, <5>2, NStepTrans
        <5> QED BY <5>2, <5>3, NothingLocked DEF r
      <4> QED BY <4>4, <4>5, <4>6
    <3> QED BY <3>4, <3>5, <3>6
  <2> QED BY <2>4, <2>5
<1> QED BY <1>3, <1>4, <1>5

-----------------------------------------------------------------------------
(* xv6fs_ops.c: unlink; mkdir and the reading of a program. *)

\* A link that can be spared is taken away on disk.
LEMMA DroppingLink ==
  ASSUME NEW k, NEW o, NEW L, At(k, o, L), NEW s \in Islots, o[s] > 0,
         Ok(k), k.icache[s].valid = TRUE, Spare(k.disk, k.icache[s].inum)
  PROVE  LET r == DropLink(k, s) IN
         /\ At(r, o, L) /\ Step(k, r, o) /\ Ok(r) /\ SameAll(k, r)
         /\ Relinked(k.disk, r.disk, k.icache[s].inum, k.icache[s].nlink - 1)
<1> DEFINE v == k.icache[s].nlink - 1
           m == iupdate([k EXCEPT !.icache[s].nlink = v], s)
<1>1. v \in Int
  BY DEF At, Safe, KernelType, SlotType
<1>2. DropLink(k, s) = m
  BY DEF DropLink
<1>3. Needed(k.disk, k.icache[s].inum) <= v
  <2>1. SlotOk(k, s) /\ k.icache[s].nlink \in Int
    BY DEF At, RefsAre, SlotsOk, Safe, KernelType, SlotType
  <2>2. Needed(k.disk, k.icache[s].inum) \in Nat
    BY Counted
  <2> QED BY <2>1, <2>2 DEF SlotOk, Spare
<1> HIDE DEF v
<1>4. /\ At(m, o, L) /\ Step(k, m, o) /\ Ok(m) /\ SameAll(k, m)
      /\ Relinked(k.disk, m.disk, k.icache[s].inum, v)
  BY <1>1, <1>3, SetNlink
<1> QED BY <1>2, <1>4 DEF v

\* The directory dp and the inode ip it names, both locked, are put back.
LEMMA PuttingBoth ==
  ASSUME NEW k, NEW q \in Owed, NEW dp \in Islots, NEW ip \in Islots, dp # ip,
         At(k, More(More(q, ip), dp), {dp} \cup {ip})
  PROVE  LET r == BothPut(k, ip, dp) IN At(r, q, {}) /\ Step(k, r, q)
<1> DEFINE L == {dp} \cup {ip}
           one == L \ {ip}
           s == More(q, dp)
           u == iunlockput(k, ip)
           r == iunlockput(u, dp)
<1>1. /\ More(More(q, ip), dp) = More(s, ip) /\ s \in Owed
      /\ \A t \in Islots : q[t] > 0 => s[t] > 0
  BY MoreFacts
<1>2. ip \in L /\ dp \in one /\ one \ {dp} = {}
  OBVIOUS
<1>3. BothPut(k, ip, dp) = r
  BY DEF BothPut
<1>4. At(k, More(s, ip), L)
  BY <1>1
<1> HIDE DEF s, L
<1>5. At(u, s, one) /\ Step(k, u, s)
  BY <1>1, <1>2, <1>4, Iunlockput
<1> HIDE DEF u, one
<1>6. At(r, q, one \ {dp}) /\ Step(u, r, q)
  BY <1>2, <1>5, Iunlockput DEF s
<1> HIDE DEF r
<1>7. Step(k, r, q)
  BY <1>1, <1>5, <1>6, StepTrans
<1> QED BY <1>2, <1>3, <1>6, <1>7

\* The half of xv6fs_unlink() that removes a name puts both inodes back.  The
\* name's link, and that of the directory's "..", can be spared once the name is
\* gone, and the freeing of the parent, had it no link, takes away no other.
LEMMA Removing ==
  ASSUME NEW k, NEW q \in Owed, NEW dp \in Islots, NEW ip \in Islots, dp # ip,
         At(k, More(More(q, ip), dp), {dp} \cup {ip}), Ok(k),
         k.icache[dp].valid = TRUE, k.icache[ip].valid = TRUE,
         NEW name \in Names,
         k.icache[ip].inum = k.disk[k.icache[dp].inum].ents[name]
  PROVE  LET r == Unlinked(k, dp, ip, name) IN At(r, q, {}) /\ Step(k, r, q)
<1> DEFINE L == {dp} \cup {ip}
           one == L \ {dp}
           s == More(q, ip)
           o == More(s, dp)
           i == k.icache[ip].inum
           d == k.icache[dp].inum
           c == SetEntry(k, dp, name, 0)
           u == IF k.icache[ip].type = "dir" THEN DropLink(c, dp) ELSE c
           v == iunlockput(u, dp)
           w == DropLink(v, ip)
           r == iunlockput(w, ip)
<1>1. /\ s \in Owed /\ s[ip] > 0 /\ o \in Owed /\ o[dp] > 0 /\ o[ip] > 0 /\ At(k, o, L)
      /\ \A t \in Islots : q[t] > 0 => s[t] > 0
      /\ \A t \in Islots : s[t] > 0 => o[t] > 0
  BY MoreFacts
<1>2. dp \in L /\ ip \in one /\ one \ {ip} = {}
  OBVIOUS
<1>3. Unlinked(k, dp, ip, name) = r
  BY DEF Unlinked, Inode
<1> HIDE DEF o, L
<1>4. /\ 0 \in 0 .. NINODES /\ name \in DirNames /\ i \in Inums /\ d \in Inums
      /\ k.disk \in DiskType /\ DiskOk(k.disk) /\ k.icache[ip].type = k.disk[i].type
  BY <1>1, Constants DEF At, RefsAre, SlotsOk, SlotOk, Safe, KernelType, DirNames
<1>5. MayName(k.disk, d, name, 0)
  BY <1>4 DEF MayName
<1>6. /\ At(c, o, L) /\ Step(k, c, o) /\ Ok(c) /\ SameAll(k, c)
      /\ EntryIs(k.disk, c.disk, d, name, 0)
  BY <1>1, <1>4, <1>5, Naming
<1> HIDE DEF c
<1>7. /\ c.icache[dp].valid = TRUE /\ c.icache[ip].valid = TRUE
      /\ c.icache[dp].inum = d /\ c.icache[ip].inum = i
  BY <1>6 DEF SameAll, Same
<1>8. /\ i # d /\ Spare(c.disk, i)
      /\ k.icache[ip].type = "dir" => Spare(c.disk, d)
  <2>1. /\ OnlyInode(k.disk, c.disk, d) /\ c.disk[d].type = k.disk[d].type
        /\ c.disk[d].nlink = k.disk[d].nlink /\ c.disk[d].emptied = k.disk[d].emptied
        /\ c.disk[d].ents = [k.disk[d].ents EXCEPT ![name] = 0]
        /\ k.disk[d].ents[name] = i
    BY <1>6 DEF EntryIs
  <2>2. c.disk[i].type = k.disk[i].type
    BY <1>4, <2>1 DEF OnlyInode
  <2> HIDE DEF i, d
  <2>3. /\ i # d /\ Spare(c.disk, i)
        /\ c.disk[i].type = "dir" => Spare(c.disk, d)
    BY <1>4, <2>1, NameCleared
  <2> QED BY <1>4, <2>2, <2>3
<1> HIDE DEF i, d
<1>9. /\ At(u, o, L) /\ Step(c, u, o) /\ Ok(u) /\ SameAll(c, u) /\ Spare(u.disk, i)
  <2>1. CASE k.icache[ip].type = "dir"
    <3>1. /\ At(u, o, L) /\ Step(c, u, o) /\ Ok(u) /\ SameAll(c, u)
          /\ Relinked(c.disk, u.disk, d, c.icache[dp].nlink - 1)
      BY <1>1, <1>6, <1>7, <1>8, <2>1, DroppingLink
    <3> QED BY <1>4, <1>8, <3>1 DEF Relinked, OnlyInode, Spare
  <2>2. CASE k.icache[ip].type # "dir"
    BY <1>6, <1>8, <2>2, StepRefl
  <2> QED BY <2>1, <2>2
<1> HIDE DEF u, s
<1>10. u.icache[ip].valid = TRUE /\ u.icache[ip].inum = i /\ u.icache[dp].inum = d
  BY <1>7, <1>9 DEF SameAll, Same
<1>11. /\ At(v, s, one) /\ Step(u, v, s) /\ Ok(v) /\ SameBut(u, v, dp)
       /\ FreesAtMost(u.disk, v.disk, d)
  BY <1>1, <1>2, <1>9, <1>10, Iunlockput DEF o
<1> HIDE DEF v, one
<1>12. v.icache[ip].valid = TRUE /\ v.icache[ip].inum = i
  BY <1>10, <1>11 DEF SameBut, Same
<1>13. Spare(v.disk, i)
  <2>1. u.disk \in DiskType /\ DiskOk(u.disk)
    BY <1>9 DEF At, Safe, KernelType
  <2>2. Needed(v.disk, i) <= Needed(u.disk, i)
    BY <1>4, <1>11, <2>1, FreeingLeaves
  <2>3. v.disk[i].nlink = u.disk[i].nlink /\ u.disk[i].nlink \in Int
    BY <1>4, <1>8, <1>11, <2>1 DEF FreesAtMost, OnlyInode, DiskType, DiskInode
  <2>4. Needed(v.disk, i) \in Nat /\ Needed(u.disk, i) \in Nat
    BY Counted
  <2> QED BY <1>9, <2>2, <2>3, <2>4 DEF Spare
<1>14. /\ At(w, s, one) /\ Step(v, w, s)
  BY <1>1, <1>11, <1>12, <1>13, DroppingLink
<1> HIDE DEF w
<1>15. /\ At(r, q, one \ {ip}) /\ Step(w, r, q)
  BY <1>2, <1>14, Iunlockput DEF s
<1> HIDE DEF r
<1>16. Step(k, u, o)
  BY <1>6, <1>9, StepTrans
<1>17. Step(k, v, s)
  BY <1>1, <1>11, <1>16, StepTrans
<1>18. Step(k, w, s)
  BY <1>14, <1>17, StepTrans
<1>19. Step(k, r, q)
  BY <1>1, <1>15, <1>18, StepTrans
<1> QED BY <1>2, <1>3, <1>15, <1>19

\* What a call on names ends with: only its result is set.
LEMMA Ending ==
  ASSUME NEW k, NEW b \in Owed, Rests(k, b, {}), NEW v \in Int
  PROVE  LET r == Return(k, v) IN
         /\ Rests(r, b, {}) /\ NStep(k, r, b) /\ (Ok(r) <=> Ok(k))
<1> DEFINE q == More(b, k.cwd)
           r == Return(k, v)
<1>1. At(k, q, {})
  BY DEF Rests
<1> HIDE DEF q
<1>2. /\ At(r, q, {}) /\ (Ok(r) <=> Ok(k)) /\ Step(k, r, q) /\ r.cwd = k.cwd
  BY <1>1, RetOnly
<1> HIDE DEF r
<1>3. NStep(k, r, b)
  BY <1>2, StepLess DEF q
<1> QED BY <1>2, <1>3 DEF Rests, q, r

\* A step that gives back all that it took.
LEMMA RestsAgain ==
  ASSUME NEW k, NEW r, NEW b \in Owed, At(r, More(b, k.cwd), {}),
         Step(k, r, More(b, k.cwd))
  PROVE  Rests(r, b, {}) /\ NStep(k, r, b)
<1>1. r.cwd = k.cwd /\ NStep(k, r, b)
  BY StepLess
<1> QED BY <1>1 DEF Rests

\* xv6fs_unlink() unlocks and puts back all it takes, on every path.
LEMMA Unlinking ==
  ASSUME NEW k, NEW b \in Owed, Rests(k, b, {}),
         NEW path, path.elems \in Seq(DirNames)
  PROVE  LET r == xv6fs_unlink(k, path) IN Rests(r, b, {}) /\ NStep(k, r, b)
<1> DEFINE name == Last(path.elems)
           p == nameiparent(k, path)
           dp == p.ip
           l == ilock(p, dp)
           f == dirlookup(l, dp, name)
           ip == f.ip
           g == ilock(f, ip)
           r == xv6fs_unlink(k, path)
<1>1. r = IF ~Ok(p) THEN p
          ELSE IF dp = NULL THEN Return(p, -1)
          ELSE IF ~Ok(l) THEN l
          ELSE IF name \in {".", ".."} THEN Return(iunlockput(l, dp), -1)
          ELSE IF ~Ok(f) THEN f
          ELSE IF ip = NULL THEN Return(iunlockput(f, dp), -1)
          ELSE IF ~Ok(g) THEN g
          ELSE IF ~Removable(g, ip) THEN Return(BothPut(g, ip, dp), -1)
          ELSE Return(Unlinked(g, dp, ip, name), 0)
  BY DEF xv6fs_unlink, Inode
<1>2. -1 \in Int /\ 0 \in Int
  OBVIOUS
<1> HIDE DEF r
<1>3. /\ Holds(p, b, dp, {}) /\ NStep(k, p, b)
      /\ Ok(p) /\ dp # NULL =>
           /\ dp \in Islots /\ path.elems # <<>>
           /\ p.icache[dp].valid = TRUE /\ p.icache[dp].type = "dir"
  BY NameIParent
<1> HIDE DEF p
<1>4. CASE ~Ok(p)
  <2>1. r = p /\ Safe(p) /\ p.ofiles = k.ofiles /\ {} \subseteq Islots
    BY <1>1, <1>3, <1>4 DEF Holds, At, NStep
  <2> QED BY <1>4, <2>1, HaltedAnyway DEF r
<1>5. CASE Ok(p) /\ dp = NULL
  <2>1. r = Return(p, -1)
    BY <1>1, <1>5
  <2>2. More(More(b, p.cwd), dp) = More(b, p.cwd)
    BY <1>5, MoreFacts
  <2>3. Rests(p, b, {})
    BY <1>3, <2>2 DEF Holds, Rests
  <2>4. Rests(r, b, {}) /\ NStep(p, r, b)
    BY <1>2, <2>1, <2>3, Ending
  <2>5. NStep(k, r, b)
    BY <1>3, <2>4, NStepTrans
  <2> QED BY <2>4, <2>5 DEF r
<1>6. CASE Ok(p) /\ dp # NULL
  <2>1. /\ dp \in Islots /\ name \in DirNames
        /\ p.icache[dp].valid = TRUE /\ p.icache[dp].type = "dir"
    BY <1>3, <1>6, LastName
  <2> HIDE DEF dp, name
  <2>2. /\ Holds(l, b, dp, {dp}) /\ NStep(p, l, b)
        /\ Ok(l) => l.icache[dp].valid = TRUE /\ SameAll(p, l)
    BY <1>3, <2>1, LockNamed
  <2> HIDE DEF l
  <2>3. NStep(k, l, b)
    BY <1>3, <2>2, NStepTrans
  <2>4. CASE ~Ok(l)
    <3>1. r = l /\ Safe(l) /\ l.ofiles = k.ofiles /\ {} \subseteq Islots
      BY <1>1, <1>6, <2>2, <2>3, <2>4 DEF Holds, At, NStep
    <3> QED BY <2>4, <3>1, HaltedAnyway DEF r
  <2>5. CASE Ok(l) /\ name \in {".", ".."}
    <3> DEFINE u == iunlockput(l, dp)
               one == {dp}
    <3>1. r = Return(u, -1)
      BY <1>1, <1>6, <2>5
    <3>2. Holds(l, b, dp, one) /\ dp \in one /\ one \ {dp} = {}
      BY <2>2
    <3> HIDE DEF one
    <3>3. Rests(u, b, one \ {dp}) /\ NStep(l, u, b)
      BY <3>2, UnlockAndPutBack
    <3> HIDE DEF u
    <3>4. Rests(u, b, {}) /\ NStep(k, u, b)
      BY <2>3, <3>2, <3>3, NStepTrans
    <3>5. Rests(r, b, {}) /\ NStep(u, r, b)
      BY <1>2, <3>1, <3>4, Ending
    <3>6. NStep(k, r, b)
      BY <3>4, <3>5, NStepTrans
    <3> QED BY <3>5, <3>6 DEF r
  <2>6. CASE Ok(l) /\ name \notin {".", ".."}
    <3>1. l.icache[dp].type = "dir" /\ l.icache[dp].valid = TRUE /\ name \in Names
      BY <2>1, <2>2, <2>6 DEF SameAll, Same, DirNames
    <3>2. LookedUp(l, f, b, dp, name)
      BY <2>1, <2>2, <2>6, <3>1, LookingUp
    <3> HIDE DEF f
    <3>3. NStep(k, f, b)
      BY <2>3, <3>2, NStepTrans DEF LookedUp
    <3>4. CASE ~Ok(f)
      <4>1. r = f /\ Safe(f) /\ f.ofiles = k.ofiles /\ {} \subseteq Islots
        BY <1>1, <1>6, <2>6, <3>2, <3>3, <3>4 DEF LookedUp, At, NStep
      <4> QED BY <3>4, <4>1, HaltedAnyway DEF r
    <3>5. CASE Ok(f) /\ ip = NULL
      <4> DEFINE u == iunlockput(f, dp)
                 one == {dp}
      <4>1. r = Return(u, -1)
        BY <1>1, <1>6, <2>6, <3>5
      <4>2. More(More(b, l.cwd), f.ip) = More(b, f.cwd)
        BY <3>2, <3>5, MoreFacts DEF LookedUp
      <4>3. Holds(f, b, dp, one) /\ dp \in one /\ one \ {dp} = {}
        BY <3>2, <4>2 DEF Holds, LookedUp
      <4> HIDE DEF one
      <4>4. Rests(u, b, one \ {dp}) /\ NStep(f, u, b)
        BY <4>3, UnlockAndPutBack
      <4> HIDE DEF u
      <4>5. Rests(u, b, {}) /\ NStep(k, u, b)
        BY <3>3, <4>3, <4>4, NStepTrans
      <4>6. Rests(r, b, {}) /\ NStep(u, r, b)
        BY <1>2, <4>1, <4>5, Ending
      <4>7. NStep(k, r, b)
        BY <4>5, <4>6, NStepTrans
      <4> QED BY <4>6, <4>7 DEF r
    <3>6. CASE Ok(f) /\ ip # NULL
      <4> DEFINE q == More(b, f.cwd)
                 s == More(q, ip)
                 o == More(s, dp)
                 one == {dp}
      <4>1. /\ ip \in Islots /\ At(f, o, one)
            /\ f.icache[dp].inum \in Inums
            /\ f.icache[ip].inum = f.disk[f.icache[dp].inum].ents[name]
            /\ f.icache[dp].valid = TRUE
        <5>1. /\ ip \in Islots /\ At(f, o, one)
              /\ f.icache[ip].inum = f.disk[f.icache[dp].inum].ents[name]
              /\ f.icache[dp].valid = TRUE
          BY <3>2, <3>6 DEF LookedUp
        <5>2. o[dp] > 0
          BY <2>1, MoreFacts
        <5> HIDE DEF o
        <5> QED BY <2>1, <3>6, <5>1, <5>2 DEF At, RefsAre, SlotsOk, SlotOk
      <4>2. dp # ip
        BY <3>1, <4>1 DEF At, Safe, DiskOk, InodeOk
      <4>3. /\ q \in Owed /\ s \in Owed /\ o \in Owed
            /\ \A t \in Islots : q[t] > 0 => s[t] > 0
            /\ \A t \in Islots : s[t] > 0 => o[t] > 0
            /\ o[ip] > 0 /\ ip \notin one
        BY <4>1, <4>2, MoreFacts
      <4> HIDE DEF o, one, ip
      <4>4. /\ At(g, o, one \cup {ip}) /\ Step(f, g, o)
            /\ Ok(g) => /\ SameBut(f, g, ip) /\ g.icache[ip].valid = TRUE
                        /\ g.icache[ip].inum = f.icache[ip].inum /\ Quiet(f, g)
        BY <4>1, <4>3, Ilock
      <4> HIDE DEF g
      <4>5. g.cwd = f.cwd /\ g.ofiles = k.ofiles
        BY <3>3, <4>4 DEF Step, NStep
      <4>6. CASE ~Ok(g)
        <5>1. r = g /\ Safe(g) /\ {} \subseteq Islots
          BY <1>1, <1>6, <2>6, <3>6, <4>4, <4>6 DEF At
        <5> QED BY <4>5, <4>6, <5>1, HaltedAnyway DEF r
      <4>7. CASE Ok(g)
        <5> DEFINE m == IF Removable(g, ip) THEN Unlinked(g, dp, ip, name)
                        ELSE BothPut(g, ip, dp)
                   v == IF Removable(g, ip) THEN 0 ELSE -1
        <5>1. r = Return(m, v) /\ v \in Int
          BY <1>2, <1>1, <1>6, <2>6, <3>6, <4>7
        <5>2. /\ g.icache[dp].valid = TRUE /\ g.icache[ip].valid = TRUE
              /\ g.icache[ip].inum = g.disk[g.icache[dp].inum].ents[name]
          BY <2>1, <4>1, <4>2, <4>4, <4>7 DEF SameBut, Same, Quiet
        <5>3. At(g, More(More(q, ip), dp), {dp} \cup {ip})
          BY <4>4 DEF one, o
        <5> HIDE DEF q
        <5>4. At(m, q, {}) /\ Step(g, m, q)
          <6>1. CASE Removable(g, ip)
            BY <2>1, <3>1, <4>1, <4>2, <4>3, <4>7, <5>2, <5>3, <6>1, Removing
          <6>2. CASE ~Removable(g, ip)
            BY <2>1, <4>1, <4>2, <4>3, <5>3, <6>2, PuttingBoth
          <6> QED BY <6>1, <6>2
        <5> HIDE DEF m, v
        <5>5. Step(f, m, q)
          BY <4>3, <4>4, <5>4, StepTrans
        <5>6. Rests(m, b, {}) /\ NStep(f, m, b)
          BY <5>4, <5>5, RestsAgain DEF q
        <5>7. NStep(k, m, b)
          BY <3>3, <5>6, NStepTrans
        <5>8. Rests(r, b, {}) /\ NStep(m, r, b)
          BY <5>1, <5>6, Ending
        <5>9. NStep(k, r, b)
          BY <5>7, <5>8, NStepTrans
        <5> QED BY <5>8, <5>9 DEF r
      <4> QED BY <4>6, <4>7
    <3> QED BY <3>4, <3>5, <3>6
  <2> QED BY <2>4, <2>5, <2>6
<1> QED BY <1>4, <1>5, <1>6

\* mkdir puts the new directory back.
LEMMA Mkdiring ==
  ASSUME NEW k, NEW b \in Owed, Rests(k, b, {}),
         NEW path, path.elems \in Seq(DirNames)
  PROVE  LET r == Mkdir(k, path) IN Rests(r, b, {}) /\ NStep(k, r, b)
<1> DEFINE a == xv6fs_create(k, path, "dir")
           ip == a.ip
           u == iunlockput(a, ip)
           r == Mkdir(k, path)
<1>1. r = IF Ok(a) /\ ip # NULL THEN Return(u, 0) ELSE Return(a, -1)
  BY DEF Mkdir
<1> HIDE DEF r
<1>2. Locked(a, b) /\ NStep(k, a, b)
  BY Creating
<1> HIDE DEF a
<1>3. -1 \in Int /\ 0 \in Int /\ {} \subseteq Islots
  OBVIOUS
<1>4. CASE ~Ok(a)
  <2> DEFINE o == More(More(b, a.cwd), ip)
             L == {ip} \ {NULL}
  <2>1. At(a, o, L) /\ r = Return(a, -1)
    BY <1>1, <1>2, <1>4 DEF Locked, Holds
  <2> HIDE DEF o, L
  <2>2. At(r, o, L) /\ (Ok(r) <=> Ok(a)) /\ r.ofiles = a.ofiles
    BY <1>3, <2>1, RetOnly
  <2>3. Safe(r) /\ ~Ok(r) /\ r.ofiles = k.ofiles
    BY <1>2, <1>4, <2>2 DEF At, NStep
  <2> QED BY <1>3, <2>3, HaltedAnyway DEF r
<1>5. CASE Ok(a) /\ ip = NULL
  <2>1. r = Return(a, -1) /\ {NULL} \ {NULL} = {}
    BY <1>1, <1>5
  <2>2. More(b, a.cwd) \in Owed
    BY MoreFacts
  <2>3. More(More(b, a.cwd), ip) = More(b, a.cwd)
    BY <1>5, <2>2, MoreFacts
  <2>4. Rests(a, b, {})
    BY <1>2, <1>5, <2>1, <2>3 DEF Locked, Holds, Rests
  <2>5. Rests(r, b, {}) /\ NStep(a, r, b)
    BY <1>3, <2>1, <2>4, Ending
  <2> QED BY <1>2, <2>5, NStepTrans DEF r
<1>6. CASE Ok(a) /\ ip # NULL
  <2> DEFINE one == {ip}
  <2>1. ip \in Islots /\ ip \in one /\ one \ {ip} = {} /\ r = Return(u, 0)
    BY <1>1, <1>2, <1>6 DEF Locked
  <2>2. Holds(a, b, ip, one)
    <3>1. {ip} \ {NULL} = one
      BY <1>6
    <3> QED BY <1>2, <3>1 DEF Locked
  <2> HIDE DEF one, ip
  <2>3. Rests(u, b, one \ {ip}) /\ NStep(a, u, b)
    BY <2>1, <2>2, UnlockAndPutBack
  <2> HIDE DEF u
  <2>4. Rests(u, b, {}) /\ NStep(k, u, b)
    BY <1>2, <2>1, <2>3, NStepTrans
  <2>5. Rests(r, b, {}) /\ NStep(u, r, b)
    BY <1>3, <2>1, <2>4, Ending
  <2> QED BY <2>4, <2>5, NStepTrans DEF r
<1> QED BY <1>4, <1>5, <1>6

\* execve and boot put the file they have read back.
LEMMA ReadingProgram ==
  ASSUME NEW k, NEW b \in Owed, Rests(k, b, {}),
         NEW path, path.elems \in Seq(DirNames)
  PROVE  LET r == ReadProgram(k, path) IN Rests(r, b, {}) /\ NStep(k, r, b)
<1> DEFINE a == namei(k, path)
           ip == a.ip
           l == ilock(a, ip)
           r == ReadProgram(k, path)
<1>1. r = IF Ok(a) /\ ip # NULL THEN iunlockput(l, ip) ELSE a
  BY DEF ReadProgram
<1> HIDE DEF r
<1>2. /\ Holds(a, b, ip, {}) /\ NStep(k, a, b)
      /\ Ok(a) /\ ip # NULL => ip \in Islots
  BY NameI
<1> HIDE DEF a
<1>3. {} \subseteq Islots
  OBVIOUS
<1>4. CASE ~Ok(a)
  <2>1. r = a /\ Safe(r) /\ ~Ok(r) /\ r.ofiles = k.ofiles
    BY <1>1, <1>2, <1>4 DEF Holds, At, NStep
  <2> QED BY <1>3, <2>1, HaltedAnyway DEF r
<1>5. CASE Ok(a) /\ ip = NULL
  <2>1. r = a
    BY <1>1, <1>5
  <2>2. More(b, a.cwd) \in Owed
    BY MoreFacts
  <2>3. More(More(b, a.cwd), ip) = More(b, a.cwd)
    BY <1>5, <2>2, MoreFacts
  <2> QED BY <1>2, <2>1, <2>3 DEF Holds, Rests, r
<1>6. CASE Ok(a) /\ ip # NULL
  <2> DEFINE one == {ip}
  <2>1. ip \in Islots /\ ip \in one /\ one \ {ip} = {} /\ r = iunlockput(l, ip)
    BY <1>1, <1>2, <1>6
  <2> HIDE DEF ip
  <2>2. Holds(l, b, ip, one) /\ NStep(a, l, b)
    BY <1>2, <2>1, LockNamed
  <2> HIDE DEF one, l
  <2>3. Rests(r, b, one \ {ip}) /\ NStep(l, r, b)
    BY <2>1, <2>2, UnlockAndPutBack
  <2>4. NStep(k, l, b)
    BY <1>2, <2>2, NStepTrans
  <2> QED BY <2>1, <2>3, <2>4, NStepTrans DEF r
<1> QED BY <1>4, <1>5, <1>6
=============================================================================
