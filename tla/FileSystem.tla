----------------------------- MODULE FileSystem -----------------------------
(***************************************************************************)
(* Inodes, directories and open files: the inode and name layers of        *)
(* xv6fs/fs.c, create and unlink of Xjail/xv6/xv6fs_ops.c, the locks and   *)
(* the one current directory of Xjail/xv6/xv6fs_bridge.c, and the file     *)
(* system calls of syscall.c.                                              *)
(*                                                                         *)
(* A system call runs with interrupts off, so it is one action.  Inside    *)
(* it, every C function is an operator from a kernel state k to the kernel *)
(* state it leaves, with its result in k.ip (an inode cache slot or NULL)  *)
(* or k.ret; a function that finds the machine halted does nothing.  The   *)
(* order of the disk writes is kept in k.images, the disks a power failure *)
(* during the call may leave behind: the buffer cache writes through and   *)
(* begin_op/end_op do nothing, so there is no journal.                     *)
(*                                                                         *)
(* Left to other modules: file contents, sizes and blocks.  A restriction  *)
(* on what programs do: the code does not refuse to write a directory      *)
(* through a descriptor, which may put any bytes where its entries are,    *)
(* and the programs modelled here do not.  They do truncate directories.   *)
(***************************************************************************)
EXTENDS Integers, FiniteSets, SequencesExt

CONSTANTS NINODE,     \* slots of the inode cache (50 in param.h)
          NINODES,    \* the last inode ialloc() hands out
          Names,      \* file names, besides "." and ".."
          Paths,      \* the paths programs use: [abs |-> BOOLEAN, elems |-> Seq]
          Opens,      \* how they open: [path : Paths, creat, trunc : BOOLEAN]
          Procs,      \* process slots; Boot is the first process
          Boot,
          NOFILE,     \* descriptors per process (16)
          NSTD,       \* the first of them are inherited, never handed out (3)
          MkfsDir,    \* the directory mkfs puts into the root and boot ensures
          Readme,     \* the file mkfs puts into the root and boot reads
          MaxLost     \* bound on the references lost with processes

ASSUME FileSystemAssumption ==
  /\ NINODE \in Nat \ {0} /\ NINODES \in Nat /\ NINODES >= 3
  /\ IsFiniteSet(Procs) /\ Boot \in Procs
  /\ IsFiniteSet(Names) /\ {MkfsDir, Readme} \subseteq Names
  /\ Names \cap {".", ".."} = {}
  /\ \A path \in Paths :
       path.abs \in BOOLEAN /\ path.elems \in Seq(Names \cup {".", ".."})
  /\ Opens \subseteq [path : Paths, creat : BOOLEAN, trunc : BOOLEAN]
  /\ NSTD \in Nat /\ NOFILE \in Nat /\ NSTD < NOFILE
  /\ MaxLost \in Nat

NULL == -1
ROOTINO == 1
Inums == 1 .. NINODES
Islots == 0 .. NINODE - 1
Fds == 0 .. NOFILE - 1
DirNames == Names \cup {".", ".."}

VARIABLES disk,     \* the inodes on disk: type, nlink, directory entries (ents),
                    \* the names in a directory's first two entries (head),
                    \* and whether a program has truncated it (emptied)
          icache,   \* the inode cache: inum, ref, valid, type, nlink, locked
          ofiles,   \* per process and descriptor, a slot of the cache or NULL
          cwd,      \* the current directory all processes share, NULL: not set
          alive,    \* the processes that can make system calls
          halted,   \* "no", or the panic or halt message
          lost      \* per cache slot, references no process can drop any more

vars == <<disk, icache, ofiles, cwd, alive, halted, lost>>

NoEntries == [n \in DirNames |-> 0]
FreeInode == [type |-> "free", nlink |-> 0, ents |-> NoEntries, head |-> {},
              emptied |-> FALSE]
EmptySlot == [inum |-> 0, ref |-> 0, valid |-> FALSE, type |-> "free",
              nlink |-> 0, locked |-> FALSE]

Kernel == [disk |-> disk, icache |-> icache, ofiles |-> ofiles, cwd |-> cwd,
           halted |-> halted, ip |-> NULL, ret |-> 0, images |-> {}]

-----------------------------------------------------------------------------
(* What the functions are made of. *)

Ok(k) == k.halted = "no"
Halt(k, why) == IF Ok(k) THEN [k EXCEPT !.halted = why] ELSE k
Return(k, v) == [k EXCEPT !.ret = v]
ReturnIp(k, s) == [k EXCEPT !.ip = s]

\* One log_write(): the disk becomes d, and d is what a crash may leave.
WriteDisk(k, d) ==
  IF Ok(k) THEN [k EXCEPT !.disk = d, !.images = @ \cup {d}] ELSE k

Inode(k, s) == k.icache[s]

-----------------------------------------------------------------------------
(* fs.c: the inode cache *)

Cached(k, inum) ==
  {s \in Islots : k.icache[s].ref > 0 /\ k.icache[s].inum = inum}
Unused(k) == {s \in Islots : k.icache[s].ref = 0}

\* A slot that is taken for another inode, which is still to be loaded.
Taken(c, inum) ==
  [inum |-> inum, ref |-> 1, valid |-> FALSE, type |-> c.type,
   nlink |-> c.nlink, locked |-> c.locked]

\* Mutant: the search stops at the first free slot.
iget_StopsAtFree(k, inum) ==
  IF ~Ok(k) THEN k
  ELSE IF \E s \in Cached(k, inum) : \A t \in Unused(k) : s < t
  THEN LET s == Min(Cached(k, inum)) IN
       ReturnIp([k EXCEPT !.icache[s].ref = @ + 1], s)
  ELSE IF Unused(k) = {} THEN Halt(k, "iget: no inodes")
  ELSE LET s == Min(Unused(k)) IN
       ReturnIp([k EXCEPT !.icache[s] = Taken(@, inum)], s)

\* iget(): the slot that already has the inode, or else the first free one.
iget(k, inum) ==
  IF ~Ok(k) THEN k
  ELSE IF Cached(k, inum) # {}
  THEN LET s == Min(Cached(k, inum)) IN
       ReturnIp([k EXCEPT !.icache[s].ref = @ + 1], s)
  ELSE IF Unused(k) = {} THEN Halt(k, "iget: no inodes")
  ELSE LET s == Min(Unused(k)) IN
       ReturnIp([k EXCEPT !.icache[s] = Taken(@, inum)], s)

idup(k, s) ==
  IF Ok(k) THEN ReturnIp([k EXCEPT !.icache[s].ref = @ + 1], s) ELSE k

\* acquiresleep() halts on a lock that is held: nobody could release it.
acquiresleep(k, s) ==
  IF ~Ok(k) THEN k
  ELSE IF Inode(k, s).locked THEN Halt(k, "acquiresleep")
  ELSE [k EXCEPT !.icache[s].locked = TRUE]

releasesleep(k, s) ==
  IF ~Ok(k) THEN k
  ELSE IF ~Inode(k, s).locked THEN Halt(k, "releasesleep")
  ELSE [k EXCEPT !.icache[s].locked = FALSE]

\* Fill the slot from disk on the first lock after iget().
Loaded(k, s) ==
  LET d == k.disk[Inode(k, s).inum]
      f == [k EXCEPT !.icache[s] =
              [inum |-> @.inum, ref |-> @.ref, valid |-> TRUE, type |-> d.type,
               nlink |-> d.nlink, locked |-> @.locked]]
  IN IF ~Ok(k) \/ Inode(k, s).valid THEN k
     ELSE IF d.type = "free" THEN Halt(f, "ilock: no type") ELSE f

ilock(k, s) ==
  IF ~Ok(k) THEN k
  ELSE IF Inode(k, s).ref < 1 THEN Halt(k, "ilock")
  ELSE Loaded(acquiresleep(k, s), s)

iunlock(k, s) ==
  IF ~Ok(k) THEN k
  ELSE IF ~Inode(k, s).locked \/ Inode(k, s).ref < 1 THEN Halt(k, "iunlock")
  ELSE releasesleep(k, s)

iupdate(k, s) ==
  LET ip == Inode(k, s) IN
  WriteDisk(k, [k.disk EXCEPT ![ip.inum] =
                  [@ EXCEPT !.type = ip.type, !.nlink = ip.nlink]])

\* A directory of size 0.  Its old entries do not come back when it grows: each
\* one is overwritten as the size passes it.
NoNames(i, emptied) ==
  [i EXCEPT !.ents = NoEntries, !.head = {}, !.emptied = emptied]

\* itrunc(), of which the names of a directory are what matters here.
itrunc(k, s) ==
  WriteDisk(k, [k.disk EXCEPT ![Inode(k, s).inum] = NoNames(@, FALSE)])

\* What iput() does to free an inode, and leaves to be loaded again.
Freed(k, s) ==
  [iupdate([itrunc(k, s) EXCEPT !.icache[s].type = "free"], s)
     EXCEPT !.icache[s].valid = FALSE]

\* Mutant: the reference count is not looked at before the inode is freed.
FreedIfLast_IgnoresRef(k, s) ==
  IF Ok(k) /\ Inode(k, s).valid /\ Inode(k, s).nlink = 0 THEN Freed(k, s) ELSE k

\* The last reference to an inode without links frees it.
FreedIfLast(k, s) ==
  IF Ok(k) /\ Inode(k, s).valid /\ Inode(k, s).nlink = 0 /\ Inode(k, s).ref = 1
  THEN Freed(k, s) ELSE k

DropRef(k, s) == IF Ok(k) THEN [k EXCEPT !.icache[s].ref = @ - 1] ELSE k

iput(k, s) == DropRef(releasesleep(FreedIfLast(acquiresleep(k, s), s), s), s)

iunlockput(k, s) == iput(iunlock(k, s), s)

\* ialloc(): the first free inode of the disk, zeroed but for its type.
ialloc(k, type) ==
  LET free == {i \in Inums : k.disk[i].type = "free"} IN
  IF free = {} THEN Halt(k, "ialloc: no inodes")
  ELSE iget(WriteDisk(k, [k.disk EXCEPT
                            ![Min(free)] = [FreeInode EXCEPT !.type = type]]),
            Min(free))

-----------------------------------------------------------------------------
(* fs.c: directories and paths *)

dirlookup(k, s, name) ==
  IF ~Ok(k) THEN k
  ELSE IF Inode(k, s).type # "dir" THEN Halt(k, "dirlookup not DIR")
  ELSE LET inum == k.disk[Inode(k, s).inum].ents[name] IN
       IF inum = 0 THEN ReturnIp(k, NULL) ELSE iget(k, inum)

\* A name that is made takes the first free entry, or a new one behind the last.
FirstTwo(head, name, inum) ==
  IF inum = 0 THEN head \ {name}
  ELSE IF Cardinality(head) < 2 THEN head \cup {name} ELSE head

WithName(i, name, inum) ==
  [i EXCEPT !.ents[name] = inum, !.head = FirstTwo(i.head, name, inum)]

SetEntry(k, s, name, inum) ==
  WriteDisk(k, [k.disk EXCEPT ![Inode(k, s).inum] = WithName(@, name, inum)])

dirlink(k, s, name, inum) ==
  LET Found(l) == IF ~Ok(l) THEN l
                  ELSE IF l.ip # NULL THEN Return(iput(l, l.ip), -1)
                  ELSE Return(SetEntry(l, s, name, inum), 0)
  IN Found(dirlookup(k, s, name))

\* myproc(): the current directory is the root until the first chdir.
myproc(k) ==
  LET Set(g) == IF Ok(g) THEN [g EXCEPT !.cwd = g.ip] ELSE g
  IN IF k.cwd # NULL \/ ~Ok(k) THEN k ELSE Set(iget(k, ROOTINO))

\* One turn of namex()'s loop: from the directory in k.ip to the element e.
\* The result is the next inode, or NULL when the walk has failed.
Walk(k, e) ==
  LET dp == k.ip
      Leave(n) == ReturnIp(iunlockput(n, dp), n.ip)
      Enter(l) == IF ~Ok(l) THEN l
                  ELSE IF Inode(l, dp).type # "dir" THEN Leave(ReturnIp(l, NULL))
                  ELSE Leave(dirlookup(l, dp, e))
  IN IF ~Ok(k) \/ dp = NULL THEN k ELSE Enter(ilock(k, dp))

PathStart(k, path) ==
  LET Cwd(m) == idup(m, m.cwd)
  IN IF path.abs THEN iget(k, ROOTINO) ELSE Cwd(myproc(k))

\* namex()'s loop over the elements of a path.
WalkAll(k, elems) ==
  LET walk[n \in 0 .. Len(elems)] ==
        IF n = 0 THEN k ELSE Walk(walk[n - 1], elems[n])
  IN walk[Len(elems)]

namei(k, path) == WalkAll(PathStart(k, path), path.elems)

\* The walk stops at the last element, whose parent must be a directory.  A
\* path without elements has none.
nameiparent(k, path) ==
  LET Checked(l) == IF Ok(l) /\ Inode(l, l.ip).type # "dir"
                    THEN ReturnIp(iunlockput(l, l.ip), NULL)
                    ELSE iunlock(l, l.ip)
      Parent(w) == IF ~Ok(w) \/ w.ip = NULL THEN w
                   ELSE IF path.elems = <<>> THEN ReturnIp(iput(w, w.ip), NULL)
                   ELSE Checked(ilock(w, w.ip))
  IN Parent(WalkAll(PathStart(k, path), Front(path.elems)))

-----------------------------------------------------------------------------
(* xv6fs_ops.c *)

BothPut(k, ip, dp) == iunlockput(iunlockput(k, ip), dp)

\* A dirlink() that is only tried when what came before it did not fail.
AlsoLink(k, s, name, inum) == IF k.ret < 0 THEN k ELSE dirlink(k, s, name, inum)

\* The links a new directory gets before it is named: its parent counts one
\* more, then "." and "..".
SelfLinks(k, ip, dp) ==
  AlsoLink(dirlink(iupdate([k EXCEPT !.icache[dp].nlink = @ + 1], dp),
                   ip, ".", Inode(k, ip).inum),
           ip, "..", Inode(k, dp).inum)

\* Mutant: the new directory is named before it has its "." and "..".
Links_NamedFirst(k, ip, dp, name, type) ==
  LET Rest(e) == IF type = "dir" THEN SelfLinks(e, ip, dp) ELSE e
  IN Rest(dirlink(Return(k, 0), dp, name, Inode(k, ip).inum))

Links(k, ip, dp, name, type) ==
  AlsoLink(IF type = "dir" THEN SelfLinks(k, ip, dp) ELSE Return(k, 0),
           dp, name, Inode(k, ip).inum)

\* The half of xv6fs_create() that makes a new inode, with dp locked.
NewInode(k, dp, name, type) ==
  LET Linked(d, ip) == IF d.ret < 0 THEN ReturnIp(BothPut(d, ip, dp), NULL)
                       ELSE ReturnIp(iunlockput(d, dp), ip)
      Counted(b, ip) ==
        IF ~Ok(b) THEN b
        ELSE Linked(Links(iupdate([b EXCEPT !.icache[ip].nlink = 1], ip),
                          ip, dp, name, type), ip)
      Allocated(a) == IF ~Ok(a) THEN a ELSE Counted(ilock(a, a.ip), a.ip)
  IN Allocated(ialloc(k, type))

\* xv6fs_create(): the inode comes back locked.  A name that is taken is an
\* error, except that opening an existing file with O_CREAT opens it.
xv6fs_create(k, path, type) ==
  LET name == Last(path.elems)
      Existing(g, ip) ==
        IF ~Ok(g) THEN g
        ELSE IF type = "file" /\ Inode(g, ip).type = "file" THEN ReturnIp(g, ip)
        ELSE ReturnIp(iunlockput(g, ip), NULL)
      Looked(f, dp) ==
        IF ~Ok(f) THEN f
        ELSE IF f.ip = NULL THEN NewInode(f, dp, name, type)
        ELSE Existing(ilock(iunlockput(f, dp), f.ip), f.ip)
      InParent(p) ==
        IF ~Ok(p) \/ p.ip = NULL THEN p
        ELSE Looked(dirlookup(ilock(p, p.ip), p.ip, name), p.ip)
  IN InParent(nameiparent(k, path))

\* Only the names from the third entry on count: the first two are "." and "..",
\* unless the directory has been truncated and got other names since.
IsEmptyDir(k, ip) ==
  LET i == k.disk[Inode(k, ip).inum] IN \A n \in DirNames \ i.head : i.ents[n] = 0

\* Mutant: a directory that still has names in it may be removed.
Removable_NonEmptyToo(k, ip) == Inode(k, ip).nlink >= 1

Removable(k, ip) ==
  /\ Inode(k, ip).nlink >= 1
  /\ Inode(k, ip).type = "dir" => IsEmptyDir(k, ip)

DropLink(k, s) == iupdate([k EXCEPT !.icache[s].nlink = @ - 1], s)

\* Mutant: the link count goes down before the name is gone.
Unlinked_CountFirst(k, dp, ip, name) ==
  LET c == SetEntry(DropLink(k, ip), dp, name, 0)
      u == IF Inode(k, ip).type = "dir" THEN DropLink(c, dp) ELSE c
  IN iunlockput(iunlockput(u, dp), ip)

\* Mutant: a directory's "." is counted down instead of its parent's "..".
Unlinked_CountsDot(k, dp, ip, name) ==
  LET c == SetEntry(k, dp, name, 0)
      u == IF Inode(k, ip).type = "dir" THEN DropLink(c, ip) ELSE c
  IN iunlockput(DropLink(iunlockput(u, dp), ip), ip)

\* The half of xv6fs_unlink() that removes the name, with dp and ip locked: the
\* name, the parent's count, the inode's count, and with it perhaps the inode.
Unlinked(k, dp, ip, name) ==
  LET c == SetEntry(k, dp, name, 0)
      u == IF Inode(k, ip).type = "dir" THEN DropLink(c, dp) ELSE c
  IN iunlockput(DropLink(iunlockput(u, dp), ip), ip)

xv6fs_unlink(k, path) ==
  LET name == Last(path.elems)
      Found(g, dp, ip) ==
        IF ~Ok(g) THEN g
        ELSE IF ~Removable(g, ip) THEN Return(BothPut(g, ip, dp), -1)
        ELSE Return(Unlinked(g, dp, ip, name), 0)
      Looked(f, dp) ==
        IF ~Ok(f) THEN f
        ELSE IF f.ip = NULL THEN Return(iunlockput(f, dp), -1)
        ELSE Found(ilock(f, f.ip), dp, f.ip)
      InParent(l, dp) ==
        IF ~Ok(l) THEN l
        ELSE IF name \in {".", ".."} THEN Return(iunlockput(l, dp), -1)
        ELSE Looked(dirlookup(l, dp, name), dp)
      Walked(p) ==
        IF ~Ok(p) THEN p
        ELSE IF p.ip = NULL THEN Return(p, -1)
        ELSE InParent(ilock(p, p.ip), p.ip)
  IN Walked(nameiparent(k, path))

-----------------------------------------------------------------------------
(* syscall.c: each call as an operator on the kernel state *)

FreeFds(k, p) == {f \in NSTD .. NOFILE - 1 : k.ofiles[p][f] = NULL}
SetFd(k, p, f, s) == [k EXCEPT !.ofiles[p][f] = s]

\* O_TRUNC writes the inode back with size 0, whatever type it has.
Truncate(k, s) ==
  LET ip == Inode(k, s)
      Emptied(i) == i.emptied \/ ip.type = "dir"
  IN WriteDisk(k, [k.disk EXCEPT ![ip.inum] =
       [NoNames(@, Emptied(@)) EXCEPT !.type = ip.type, !.nlink = ip.nlink]])

\* open: O_CREAT creates or opens, and comes back with the inode locked.  A full
\* table drops the inode.
Open(k, p, path, creat, trunc) ==
  LET Handed(u, ip) ==
        IF ~Ok(u) THEN u
        ELSE IF FreeFds(u, p) = {} THEN Return(iput(u, ip), -1)
        ELSE Return(SetFd(u, p, Min(FreeFds(u, p)), ip), Min(FreeFds(u, p)))
      Unlocked(a, ip) ==
        IF creat THEN iunlock(IF trunc THEN Truncate(a, ip) ELSE a, ip)
        ELSE IF trunc THEN iunlock(Truncate(ilock(a, ip), ip), ip) ELSE a
      Got(a) ==
        IF ~Ok(a) THEN a
        ELSE IF a.ip = NULL THEN Return(a, -1)
        ELSE Handed(Unlocked(a, a.ip), a.ip)
  IN Got(IF creat THEN xv6fs_create(k, path, "file") ELSE namei(k, path))

Close(k, p, f) == Return(SetFd(iput(k, k.ofiles[p][f]), p, f, NULL), 0)

\* read, write and lseek lock the inode they use; write saves it as well.
ReadOrSeek(k, p, f) == LET s == k.ofiles[p][f] IN iunlock(ilock(k, s), s)
Write(k, p, f) ==
  LET s == k.ofiles[p][f] IN iunlock(iupdate(ilock(k, s), s), s)

Dup(k, p, f) ==
  IF FreeFds(k, p) = {} THEN Return(k, -1)
  ELSE LET n == Min(FreeFds(k, p)) IN
       idup(SetFd(k, p, n, k.ofiles[p][f]), k.ofiles[p][f])

\* Mutant: what the new descriptor held is not released.
Dup2_KeepsOld(k, p, old, new) ==
  IF old = new THEN Return(k, new)
  ELSE idup(SetFd(k, p, new, k.ofiles[p][old]), k.ofiles[p][old])

Dup2(k, p, old, new) ==
  LET c == IF k.ofiles[p][new] # NULL THEN iput(k, k.ofiles[p][new]) ELSE k IN
  IF old = new THEN Return(k, new)
  ELSE idup(SetFd(c, p, new, k.ofiles[p][old]), k.ofiles[p][old])

\* xv6fs_bridge_set_cwd(), which drops the directory that was current.
SetCwd(m, ip) == IF Ok(m) THEN [iput(m, m.cwd) EXCEPT !.cwd = ip] ELSE m

\* Mutant: a path that names a file is left locked when chdir gives up.
EnterDirectory_LeavesLocked(l, ip) ==
  IF ~Ok(l) THEN l
  ELSE IF Inode(l, ip).type # "dir" THEN Return(l, -1)
  ELSE SetCwd(myproc(iunlock(l, ip)), ip)

\* The inode of the path, locked, becomes the current directory if it is one.
EnterDirectory(l, ip) ==
  IF ~Ok(l) THEN l
  ELSE IF Inode(l, ip).type # "dir" THEN Return(iunlockput(l, ip), -1)
  ELSE SetCwd(myproc(iunlock(l, ip)), ip)

Chdir(k, path) ==
  LET Got(a) == IF ~Ok(a) THEN a
                ELSE IF a.ip = NULL THEN Return(a, -1)
                ELSE EnterDirectory(ilock(a, a.ip), a.ip)
  IN Got(namei(k, path))

Mkdir(k, path) ==
  LET Made(a) == IF Ok(a) /\ a.ip # NULL THEN Return(iunlockput(a, a.ip), 0)
                 ELSE Return(a, -1)
  IN Made(xv6fs_create(k, path, "dir"))

\* The part of execve that reads the program: the inode is locked, read and
\* put back whatever the file turns out to be.
ReadProgram(k, path) ==
  LET Got(a) == IF Ok(a) /\ a.ip # NULL THEN iunlockput(ilock(a, a.ip), a.ip)
                ELSE a
  IN Got(namei(k, path))

\* The child's descriptors: the first NSTD are the parent's, each one with a
\* reference of its own.  What the slot held before is overwritten.
Inherited(k, p) ==
  [f \in Fds |-> IF f < NSTD THEN k.ofiles[p][f] ELSE NULL]
FdsOn(fds, s) == {f \in Fds : fds[f] = s}
Inherit(k, p, q) ==
  LET fds == Inherited(k, p)
      More(s) == [k.icache[s] EXCEPT !.ref = @ + Cardinality(FdsOn(fds, s))]
  IN [k EXCEPT !.ofiles[q] = fds, !.icache = [s \in Islots |-> More(s)]]

-----------------------------------------------------------------------------
(* The machine *)

NoFiles == [p \in Procs |-> [f \in Fds |-> NULL]]
NoneLost == [s \in Islots |-> 0]
EmptyCache == [s \in Islots |-> EmptySlot]

\* What mkfs writes: the root, an empty directory and a file in it.
MkfsImage ==
  LET Dots(self, up) == [NoEntries EXCEPT !["."] = self, ![".."] = up]
      Dir(nlink, ents) == [type |-> "dir", nlink |-> nlink, ents |-> ents,
                           head |-> {".", ".."}, emptied |-> FALSE]
  IN
  [i \in Inums |->
     CASE i = ROOTINO -> Dir(3, [Dots(ROOTINO, ROOTINO) EXCEPT
                                   ![MkfsDir] = 2, ![Readme] = 3])
       [] i = 2       -> Dir(2, Dots(2, ROOTINO))
       [] i = 3       -> [FreeInode EXCEPT !.type = "file", !.nlink = 1]
       [] OTHER       -> FreeInode]

Init ==
  /\ disk = MkfsImage
  /\ icache = EmptyCache /\ ofiles = NoFiles /\ cwd = NULL
  /\ alive = {} /\ lost = NoneLost
  /\ halted = "off"

\* The fields of a slot that are still read: iget() gives an unused slot a new
\* inum, and ilock() gives one that is not valid its type and link count.
LiveFields(c) ==
  IF c.ref = 0 THEN EmptySlot
  ELSE IF c.valid THEN c ELSE [c EXCEPT !.type = "free", !.nlink = 0]

\* A call that runs to its end, or to a panic, after which nothing but the disk
\* and the message matters.
Finishes(k) ==
  /\ disk' = k.disk /\ halted' = k.halted
  /\ IF Ok(k)
     THEN /\ icache' = [s \in Islots |-> LiveFields(k.icache[s])]
          /\ ofiles' = k.ofiles /\ cwd' = k.cwd
     ELSE icache' = EmptyCache /\ ofiles' = NoFiles /\ cwd' = NULL

\* The power fails during the call, after one of its disk writes.
PowerFails(k) ==
  /\ disk' \in k.images
  /\ icache' = EmptyCache /\ ofiles' = NoFiles /\ cwd' = NULL
  /\ alive' = {} /\ lost' = NoneLost
  /\ halted' = "off"

Call(k) ==
  \/ /\ Finishes(k)
     /\ IF Ok(k) THEN UNCHANGED <<alive, lost>> ELSE alive' = {} /\ lost' = NoneLost
  \/ PowerFails(k)

\* Power on, or the reset button after a panic: mount, make the default
\* directory if it is missing, read a file of the root, start init.
Absolute(n) == [abs |-> TRUE, elems |-> <<n>>]
PoweredOn ==
  [disk |-> disk, icache |-> EmptyCache, ofiles |-> NoFiles, cwd |-> NULL,
   halted |-> "no", ip |-> NULL, ret |-> 0, images |-> {}]
Booted(k) ==
  \/ Finishes(k) /\ alive' = {Boot} /\ lost' = NoneLost
  \/ PowerFails(k)
boot ==
  /\ halted # "no"
  /\ Booted(ReadProgram(Mkdir(PoweredOn, Absolute(MkfsDir)), Absolute(Readme)))

\* The power fails between two calls.
PowerCut == halted = "no" /\ PowerFails([Kernel EXCEPT !.images = {disk}])

Running(p) == halted = "no" /\ p \in alive

open(p, path, creat, trunc) == Running(p) /\ Call(Open(Kernel, p, path, creat, trunc))

IsOpen(p, f) == Running(p) /\ ofiles[p][f] # NULL

close(p, f) == IsOpen(p, f) /\ Call(Close(Kernel, p, f))
read(p, f) ==
  IsOpen(p, f) /\ (f = 0 \/ f >= NSTD) /\ Call(ReadOrSeek(Kernel, p, f))
lseek(p, f) == IsOpen(p, f) /\ f >= NSTD /\ Call(ReadOrSeek(Kernel, p, f))

\* restriction: no program writes a directory through a descriptor.
write(p, f) ==
  /\ IsOpen(p, f) /\ f # 0
  /\ disk[icache[ofiles[p][f]].inum].type # "dir"
  /\ Call(Write(Kernel, p, f))
dup(p, f) == IsOpen(p, f) /\ f >= NSTD /\ Call(Dup(Kernel, p, f))
dup2(p, old, new) == IsOpen(p, old) /\ Call(Dup2(Kernel, p, old, new))
chdir(p, path) == Running(p) /\ Call(Chdir(Kernel, path))
mkdir(p, path) == Running(p) /\ Call(Mkdir(Kernel, path))
unlink(p, path) == Running(p) /\ Call(xv6fs_unlink(Kernel, path))

\* execve of something that is no program, or with no process slot free.
ExecveRefused(p, path) == Running(p) /\ Call(ReadProgram(Kernel, path))

\* execve of a program, and create_process() has made the process: q's slot was
\* free, and the references its last owner held when it exited are lost.  The
\* program may still fail to load: then q never runs, and the references it got
\* stay with its slot.
Spawns(k, p, q) ==
  /\ Ok(k) /\ k.ip # NULL /\ Inode(k, k.ip).type = "file"
  /\ lost' = [s \in Islots |-> lost[s] + Cardinality(FdsOn(ofiles[q], s))]
  /\ \A s \in Islots : lost'[s] <= MaxLost
  /\ Finishes(Inherit(k, p, q))
  /\ alive' \in {alive, alive \cup {q}}
ExecveSpawns(p, path, q) ==
  /\ Running(p) /\ q \in Procs \ alive
  /\ Spawns(ReadProgram(Kernel, path), p, q)

\* exit closes nothing.
exit(p) ==
  /\ Running(p)
  /\ alive' = alive \ {p}
  /\ UNCHANGED <<disk, icache, ofiles, cwd, halted, lost>>

Next ==
  \/ boot \/ PowerCut
  \/ \E p \in Procs :
       \/ \E o \in Opens : open(p, o.path, o.creat, o.trunc)
       \/ \E f \in Fds : \/ close(p, f) \/ read(p, f) \/ lseek(p, f)
                        \/ write(p, f) \/ dup(p, f)
       \/ \E old, new \in Fds : dup2(p, old, new)
       \/ \E path \in Paths : chdir(p, path) \/ mkdir(p, path) \/ unlink(p, path)
       \/ \E path \in Paths : ExecveRefused(p, path)
       \/ \E path \in Paths, q \in Procs : ExecveSpawns(p, path, q)
       \/ exit(p)

Spec == Init /\ [][Next]_vars

-----------------------------------------------------------------------------
(* Properties *)

InodeOnDisk == [type : {"free", "file", "dir"}, nlink : 0 .. 2 * NINODES + 2,
                ents : [DirNames -> 0 .. NINODES], head : SUBSET DirNames,
                emptied : BOOLEAN]
CachedInode == [inum : 0 .. NINODES, ref : Nat, valid : BOOLEAN,
                type : {"free", "file", "dir"}, nlink : 0 .. 2 * NINODES + 2,
                locked : BOOLEAN]

\* The types of the variables: descriptors and the current directory are
\* slots of the inode cache, directory entries are inode numbers, and no
\* sequence of calls brings a link count, a short, below zero.
TypeOK ==
  /\ disk \in [Inums -> InodeOnDisk]
  /\ icache \in [Islots -> CachedInode]
  /\ ofiles \in [Procs -> [Fds -> Islots \cup {NULL}]]
  /\ cwd \in Islots \cup {NULL}
  /\ alive \subseteq Procs
  /\ lost \in [Islots -> 0 .. MaxLost]

Holders(s) == {h \in Procs \X Fds : ofiles[h[1]][h[2]] = s}

\* iget(), idup() and iput() are balanced on every path of every call, the
\* failing ones too: between calls, an inode's ref counts the descriptors that
\* point to it, the current directory, and the references that exit() and a
\* failed execve have left behind for good.
RefsExact ==
  halted = "no" =>
    \A s \in Islots :
      icache[s].ref = Cardinality(Holders(s)) + lost[s] + (IF cwd = s THEN 1 ELSE 0)

\* Every path of every call unlocks what it has locked, and no call locks an
\* inode twice (a path through "." or "..", a parent that is its own child):
\* acquiresleep() has nobody to wait for and would halt the machine.
LockDiscipline ==
  /\ halted = "no" => \A s \in Islots : ~icache[s].locked
  /\ halted \notin {"acquiresleep", "releasesleep", "iunlock", "ilock",
                    "dirlookup not DIR"}

\* An inode has one slot in the cache, and a slot that is in use and valid
\* holds what is on disk: no call leaves a change of type or link count behind
\* in memory.
CacheCoherent ==
  halted = "no" =>
    \A s \in Islots : icache[s].ref > 0 =>
      /\ \A t \in Islots \ {s} : icache[t].ref > 0 => icache[t].inum # icache[s].inum
      /\ icache[s].valid => /\ icache[s].type = disk[icache[s].inum].type
                            /\ icache[s].nlink = disk[icache[s].inum].nlink

NamesOf(i) == {e \in Inums \X Names : disk[e[1]].ents[e[2]] = i}

\* Without a journal, the order of the writes has to see to it that the disk is
\* never left with more names for an inode than links: the next unlink would
\* free an inode that still has a name.  A free inode has no links, so no name
\* leads to it.  The power may have failed after any write of any call.
NlinkNeverUndercounts ==
  \A i \in Inums : Cardinality(NamesOf(i)) <= disk[i].nlink

\* A directory that has a name is complete, until a program truncates it: it names
\* itself and the directory it is in, even if the power failed while it was being
\* made, and whatever was done to the directories around it.
DotDotNamesParent ==
  \A i \in Inums : disk[i].type = "dir" /\ ~disk[i].emptied =>
    \A e \in NamesOf(i) : disk[i].ents["."] = i /\ disk[i].ents[".."] = e[1]

\* What a descriptor, or the current directory, stands for does not change
\* while it stays open, whoever unlinks the file or its directory: the inode is
\* neither freed nor handed out for something else.
OpenFilesKeepTheirInode ==
  [][\A s \in Islots :
       LET i == icache[s].inum IN
       /\ halted = "no" /\ halted' = "no"
       /\ \/ cwd = s /\ cwd' = s
          \/ \E p \in Procs, f \in Fds : ofiles[p][f] = s /\ ofiles'[p][f] = s
       => /\ icache'[s].inum = i
          /\ disk[i].type # "free" => disk'[i].type = disk[i].type]_vars

\* The directories of a disk d that can be reached from the root by their names,
\* not counting those of cut nor what only they lead to.
Below(d, cut, ds) ==
  ds \cup {i \in UNION {{d[j].ents[n] : n \in Names} : j \in ds} \ ({0} \cup cut) :
             d[i].type = "dir"}
Tree(d, cut) ==
  LET ds[n \in 0 .. NINODES] ==
        IF n = 0 THEN {ROOTINO} \ cut ELSE Below(d, cut, ds[n - 1])
  IN ds[NINODES]
TreeNames(d, cut) ==
  UNION {{j} \X {n \in Names : d[j].ents[n] # 0} : j \in Tree(d, cut)}
EmptiedDirs(d) == {i \in Inums : d[i].emptied}

\* No call, completed or cut short by a power failure, takes more than one name
\* out of the tree, and none makes a name stand for another inode: unlink never
\* takes away what a directory holds along with the directory.  Left out are the
\* directories that the call or an earlier one truncates, which takes all names
\* of a directory at once.
AtMostOneNameGoes ==
  [][disk' # disk =>
       \E cut \in {EmptiedDirs(disk) \cup EmptiedDirs(disk')} :
       \E was \in {TreeNames(disk, cut)}, now \in {TreeNames(disk', cut)} :
         /\ Cardinality(was \ now) <= 1
         /\ \A e \in was \cap now :
              disk'[e[1]].ents[e[2]] = disk[e[1]].ents[e[2]]]_vars

\* ilock() asserts that an inode somebody holds a number of is allocated:
\* panic("ilock: no type").
LockedInodesHaveAType == halted # "ilock: no type"

\* mkfs counts two links for a directory, "." and the entry in the parent (and
\* one for each directory in it).
DirLinksAsMkfsCounts ==
  \A i \in Tree(disk, {}) \ {ROOTINO} :
    disk[i].nlink >= 2 + Cardinality({j \in Tree(disk, {}) : disk[j].ents[".."] = i})
=============================================================================
