----------------------------- MODULE FileBlocks -----------------------------
(***************************************************************************)
(* The blocks of files (fs.c: balloc, bfree, bmap, itrunc, readi, writei,  *)
(* ialloc, iupdate), the buffer cache under them (xv6fs_bridge.c) and the  *)
(* files mkfs.c puts on the disk. FileSystem has the names; here a file is *)
(* its inode, and what matters is which block holds what.                  *)
(*                                                                         *)
(* A block is W words; a bitmap word holds WB bits. A file is counted in   *)
(* blocks, and a data block holds one value, in its first word. Every C    *)
(* function is an operator from a kernel state k to the one it leaves. A   *)
(* pointer to a buffer is its place in the pool, as in the code: it says   *)
(* nothing about which block the buffer holds when it is used.             *)
(*                                                                         *)
(* The disk is written only by bwrite(), at once. k.images collects the    *)
(* disk after every write, so the power may fail at each.                  *)
(***************************************************************************)
EXTENDS Integers, FiniteSets, FiniteSetsExt, SequencesExt

CONSTANTS
    NFiles,      \* inodes, one to a block
    NDIRECT,     \* block numbers in an inode
    NINDIRECT,   \* block numbers in a block
    WB,          \* bits in a word of the bitmap
    FSSIZE,      \* blocks of the disk
    Machines,    \* number of buffers, magic number of the disk and length of
                 \* the file mkfs has put on it, with bounds on what programs
                 \* do: longest, the length of each file; count, the blocks a
                 \* call moves
    Values,      \* what programs write into a block, never 0
    MaxStops,    \* bound: how often the machine stops and is switched on
    MkfsValue    \* what mkfs has written into every block of its file

(* A dinode: type, link count, size, direct, indirect, doubly indirect.    *)
Type == 0
Nlink == 1
Size == 2
Addr(i) == 3 + i

W == Addr(NDIRECT + 2)
MAXFILE == NDIRECT + NINDIRECT + NINDIRECT * NINDIRECT

Words == 0 .. W - 1
Blocks == 0 .. FSSIZE - 1
Files == 1 .. NFiles

XV6_MAGIC == 1

(* Layout: boot block, superblock, inodes, bitmap, the root directory.     *)
IBLOCK(f) == 1 + f
bmapstart == 2 + NFiles
dirblock == bmapstart + 1
nmeta == dirblock + 1
BPB == W * WB
BBLOCK(b) == b \div BPB + bmapstart

ASSUME FileBlocksAssumption ==
    /\ NFiles \in Nat \ {0} /\ NDIRECT \in Nat \ {0} /\ NINDIRECT \in 1 .. W
    /\ FSSIZE \in nmeta + 1 .. BPB      \* one bitmap block is enough
    /\ FSSIZE < 2 ^ WB                  \* a word holds a block number
    /\ MaxStops \in Nat
    /\ Values \subseteq Nat \ {0} /\ MkfsValue \in Nat \ ({0} \union Values)
    /\ \A m \in Machines : /\ m.nbuf \in Nat \ {0}
                           /\ m.longest \in [Files -> 1 .. MAXFILE]
                           /\ m.count \subseteq Nat \ {0}
                           /\ m.mkfs \in 0 .. m.longest[1]
                           /\ m.magic \in Nat

VARIABLES
    machine,   \* the machine of this run, never changed
    disk,      \* contents of every block
    mounted,   \* xv6fs_mounted
    pool,      \* bcache_pool
    next,      \* bcache_next_victim
    ip,        \* inodes in core
    valid,     \* which of them are valid
    content,   \* what each file should hold, a sequence of values
    why,       \* why the machine last stopped by itself
    stops      \* how often it has stopped in the middle of a call

vars == <<machine, disk, mounted, pool, next, ip, valid, content, why, stops>>

NBUF == machine.nbuf
MaxSize(f) == machine.longest[f]

ZeroBlock == [i \in Words |-> 0]

---------------------------------------------------------------------------
(* xv6fs_bridge.c                                                          *)

Ok(k) == k.halt = "no"
Halt(k, reason) == IF Ok(k) THEN [k EXCEPT !.halt = reason] ELSE k

EmptyBuf == [valid |-> FALSE, dirty |-> FALSE, blockno |-> 0,
             data |-> ZeroBlock]

ahci_write_sectors(k, b, data) ==
    [k EXCEPT !.disk[b] = data,
              !.images = @ \union {[k.disk EXCEPT ![b] = data]}]

Holds(k, b) == {i \in DOMAIN k.pool : k.pool[i].valid /\ k.pool[i].blockno = b}

(* Mutant: the victim index is not wrapped.                                *)
Evicted_NoWrap(k, v, b) ==
    [k EXCEPT !.pool[v].blockno = b, !.pool[v].valid = FALSE, !.next = v + 1]

Evicted(k, v, b) ==
    LET Written(kk) ==
          IF kk.pool[v].valid /\ kk.pool[v].dirty
          THEN ahci_write_sectors(kk, kk.pool[v].blockno, kk.pool[v].data)
          ELSE kk
    IN  [Written(k) EXCEPT !.pool[v].blockno = b,
                           !.pool[v].valid = FALSE,
                           !.pool[v].dirty = FALSE,
                           !.next = (v + 1) % NBUF]

bcache_get(k, b) ==
    IF Holds(k, b) # {} THEN [k |-> k, bp |-> Min(Holds(k, b))]
    ELSE [k |-> Evicted(k, k.next, b), bp |-> k.next]

Filled(r, b) ==
    IF r.k.pool[r.bp].valid THEN r
    ELSE IF b \notin Blocks THEN [r EXCEPT !.k = Halt(@, "AHCI read error")]
    ELSE [r EXCEPT !.k.pool[r.bp].data = r.k.disk[b],
                   !.k.pool[r.bp].valid = TRUE]

bread(k, b) == IF Ok(k) THEN Filled(bcache_get(k, b), b) ELSE [k |-> k, bp |-> 0]

Data(k, bp) == k.pool[bp].data

Put(k, bp, i, v) == IF Ok(k) THEN [k EXCEPT !.pool[bp].data[i] = v] ELSE k

PutBlock(k, bp, data) == IF Ok(k) THEN [k EXCEPT !.pool[bp].data = data] ELSE k

bwrite(k, bp) ==
    IF Ok(k)
    THEN [ahci_write_sectors(k, k.pool[bp].blockno, k.pool[bp].data)
            EXCEPT !.pool[bp].dirty = FALSE]
    ELSE k

(* Mutant: the write is put off until the buffer is evicted.               *)
log_write_Delayed(k, bp) ==
    IF Ok(k) THEN [k EXCEPT !.pool[bp].dirty = TRUE] ELSE k

log_write(k, bp) ==
    IF Ok(k) THEN bwrite([k EXCEPT !.pool[bp].dirty = TRUE], bp) ELSE k

---------------------------------------------------------------------------
(* fs.c: the bitmap                                                        *)

Bit(data, b) == (data[(b % BPB) \div WB] \div 2 ^ (b % WB)) % 2

bzero(k, b) ==
    LET Zeroed(r) == log_write(PutBlock(r.k, r.bp, ZeroBlock), r.bp)
    IN  Zeroed(bread(k, b))

(* Mutant: the bitmap is changed in the buffer and not written.            *)
balloc_NotLogged(k) ==
    LET Take(kk, bp, b) ==
          [k |-> bzero(Put(kk, bp, b \div WB,
                           Data(kk, bp)[b \div WB] + 2 ^ (b % WB)), b),
           addr |-> b]
        Free(r) == {b \in Blocks : Bit(Data(r.k, r.bp), b) = 0}
        Scan(r) == IF ~Ok(r.k) THEN [k |-> r.k, addr |-> 0]
                   ELSE IF Free(r) = {}
                   THEN [k |-> Halt(r.k, "balloc: out of blocks"), addr |-> 0]
                   ELSE Take(r.k, r.bp, Min(Free(r)))
    IN  IF k.mounted THEN Scan(bread(k, BBLOCK(0)))
        ELSE [k |-> Halt(k, "balloc() with no valid superblock"), addr |-> 0]

balloc(k) ==
    LET Take(kk, bp, b) ==
          [k |-> bzero(log_write(Put(kk, bp, b \div WB,
                                     Data(kk, bp)[b \div WB] + 2 ^ (b % WB)),
                                 bp), b),
           addr |-> b]
        Free(r) == {b \in Blocks : Bit(Data(r.k, r.bp), b) = 0}
        Scan(r) == IF ~Ok(r.k) THEN [k |-> r.k, addr |-> 0]
                   ELSE IF Free(r) = {}
                   THEN [k |-> Halt(r.k, "balloc: out of blocks"), addr |-> 0]
                   ELSE Take(r.k, r.bp, Min(Free(r)))
    IN  IF k.mounted THEN Scan(bread(k, BBLOCK(0)))
        ELSE [k |-> Halt(k, "balloc() with no valid superblock"), addr |-> 0]

bfree(k, b) ==
    LET w == (b % BPB) \div WB
        Clear(r) ==
          IF ~Ok(r.k) THEN r.k
          ELSE IF Bit(Data(r.k, r.bp), b) = 0
          THEN Halt(r.k, "freeing free block")
          ELSE log_write(Put(r.k, r.bp, w,
                             Data(r.k, r.bp)[w] - 2 ^ (b % WB)), r.bp)
    IN  Clear(bread(k, BBLOCK(b)))

---------------------------------------------------------------------------
(* fs.c: inodes                                                            *)

iupdate(k, f) ==
    LET Copied(r) == log_write(PutBlock(r.k, r.bp, r.k.ip[f]), r.bp)
    IN  Copied(bread(k, IBLOCK(f)))

ilock(k, f) ==
    LET Loaded(r) == IF ~Ok(r.k) THEN r.k
                     ELSE [r.k EXCEPT !.ip[f] = Data(r.k, r.bp),
                                      !.valid = @ \union {f}]
    IN  IF f \in k.valid THEN k ELSE Loaded(bread(k, IBLOCK(f)))

SetIp(k, f, i, v) == [k EXCEPT !.ip[f][i] = v]

(* A block number in the inode, allocated when there is none.              *)
InInode(k, f, i) ==
    LET Set(r) == IF Ok(r.k) THEN [r EXCEPT !.k = SetIp(@, f, Addr(i), r.addr)]
                  ELSE r
    IN  IF k.ip[f][Addr(i)] # 0 THEN [k |-> k, addr |-> k.ip[f][Addr(i)]]
        ELSE Set(balloc(k))

(* A block number in the block addr: the buffer is read, then balloc()     *)
(* reads others, and then the buffer is written.                           *)
InBlock(r, i) ==
    LET Set(bp, a) == [a EXCEPT !.k = log_write(Put(@, bp, i, a.addr), bp)]
        Look(s) == IF ~Ok(s.k) THEN [k |-> s.k, addr |-> 0]
                   ELSE IF Data(s.k, s.bp)[i] # 0
                   THEN [k |-> s.k, addr |-> Data(s.k, s.bp)[i]]
                   ELSE Set(s.bp, balloc(s.k))
    IN  IF Ok(r.k) THEN Look(bread(r.k, r.addr)) ELSE r

bmap(k, f, bn) ==
    LET b1 == bn - NDIRECT
        b2 == bn - NDIRECT - NINDIRECT
    IN  IF bn < NDIRECT THEN InInode(k, f, bn)
        ELSE IF b1 < NINDIRECT THEN InBlock(InInode(k, f, NDIRECT), b1)
        ELSE InBlock(InBlock(InInode(k, f, NDIRECT + 1), b2 \div NINDIRECT),
                     b2 % NINDIRECT)

(* Frees what a block of numbers names. The block is read once; each word  *)
(* is read from its buffer after the bfree() before.                       *)
FreeEach(k, addr, Free(_, _, _)) ==
    LET Each(r) ==
          FoldLeft(LAMBDA kk, j : IF ~Ok(kk) \/ Data(kk, r.bp)[j] = 0 THEN kk
                                  ELSE Free(kk, r.bp, j),
                   r.k, [j \in 1 .. NINDIRECT |-> j - 1])
    IN  Each(bread(k, addr))

FreeWord(k, bp, j) == bfree(k, Data(k, bp)[j])

(* The word is read again after what it names has been freed.              *)
FreeIndirectWord(k, bp, j) ==
    FreeWord(FreeEach(k, Data(k, bp)[j], FreeWord), bp, j)

(* Mutant: the indirect block itself is not freed.                         *)
FreeIndirect_KeepsBlock(k, addr) == FreeEach(k, addr, FreeWord)

FreeIndirect(k, addr) == bfree(FreeEach(k, addr, FreeWord), addr)

itrunc(k, f) ==
    LET Direct(kk) ==
          FoldLeft(LAMBDA s, i : IF s.ip[f][Addr(i)] = 0 THEN s
                                 ELSE SetIp(bfree(s, s.ip[f][Addr(i)]),
                                            f, Addr(i), 0),
                   kk, [i \in 1 .. NDIRECT |-> i - 1])
        Indirect(kk, i, Free(_, _)) ==
          IF kk.ip[f][Addr(i)] = 0 THEN kk
          ELSE SetIp(Free(kk, kk.ip[f][Addr(i)]), f, Addr(i), 0)
        Double(kk, addr) == bfree(FreeEach(kk, addr, FreeIndirectWord), addr)
    IN  iupdate(SetIp(Indirect(Indirect(Direct(k), NDIRECT, FreeIndirect),
                               NDIRECT + 1, Double), f, Size, 0), f)

(* One block of readi() and writei().                                      *)
ReadBlock(r, f, bn) ==
    LET Get(s) == IF ~Ok(s.k) THEN [k |-> s.k, got |-> <<>>]
                  ELSE [k |-> s.k, got |-> Append(r.got, Data(s.k, s.bp)[0])]
        At(a) == IF Ok(a.k) THEN Get(bread(a.k, a.addr))
                 ELSE [k |-> a.k, got |-> <<>>]
    IN  IF Ok(r.k) THEN At(bmap(r.k, f, bn)) ELSE r

WriteBlock(k, f, bn, v) ==
    LET Set(s) == log_write(Put(s.k, s.bp, 0, v), s.bp)
        At(a) == IF Ok(a.k) THEN Set(bread(a.k, a.addr)) ELSE a.k
    IN  IF Ok(k) THEN At(bmap(k, f, bn)) ELSE k

(* Mutant: the count is not cut off at the end of the file.                *)
readi_PastTheEnd(k, f, off, n) ==
    FoldLeft(LAMBDA r, i : ReadBlock(r, f, off + i - 1), [k |-> k, got |-> <<>>],
             [i \in 1 .. n |-> i])

readi(k, f, off, n) ==
    FoldLeft(LAMBDA r, i : ReadBlock(r, f, off + i - 1), [k |-> k, got |-> <<>>],
             [i \in 1 .. Min({n, k.ip[f][Size] - off}) |-> i])

(* Mutant: the size is written before the blocks.                          *)
writei_SizeFirst(k, f, off, n, v) ==
    LET Grown(kk) == IF off + n <= kk.ip[f][Size] THEN kk
                     ELSE iupdate(SetIp(kk, f, Size, off + n), f)
    IN  IF off > k.ip[f][Size] \/ off + n > MAXFILE THEN k
        ELSE FoldLeft(LAMBDA kk, i : WriteBlock(kk, f, off + i - 1, v),
                      Grown(k), [i \in 1 .. n |-> i])

writei(k, f, off, n, v) ==
    LET Grown(kk) == IF ~Ok(kk) \/ off + n <= kk.ip[f][Size] THEN kk
                     ELSE iupdate(SetIp(kk, f, Size, off + n), f)
    IN  IF off > k.ip[f][Size] \/ off + n > MAXFILE THEN k
        ELSE Grown(FoldLeft(LAMBDA kk, i : WriteBlock(kk, f, off + i - 1, v),
                            k, [i \in 1 .. n |-> i]))

---------------------------------------------------------------------------
(* mkfs.c: blocks are taken one after the other, and the bitmap is written *)
(* at the end. The image has one file of n blocks, and the root directory. *)

MkfsInDin(s, i) ==
    IF s.din[Addr(i)] # 0 THEN [s |-> s, x |-> s.din[Addr(i)]]
    ELSE [s |-> [s EXCEPT !.din[Addr(i)] = s.free, !.free = @ + 1],
          x |-> s.free]

MkfsInSector(r, i) ==
    IF r.s.disk[r.x][i] # 0 THEN [r EXCEPT !.x = r.s.disk[r.x][i]]
    ELSE [s |-> [r.s EXCEPT !.disk[r.x][i] = r.s.free, !.free = @ + 1],
          x |-> r.s.free]

iappend(s, fbn) ==
    LET b1 == fbn - NDIRECT
        b2 == fbn - NDIRECT - NINDIRECT
        Written(r) == [r.s EXCEPT !.disk[r.x][0] = MkfsValue,
                                  !.din[Size] = fbn + 1]
    IN  Written(IF fbn < NDIRECT THEN MkfsInDin(s, fbn)
                ELSE IF b1 < NINDIRECT
                THEN MkfsInSector(MkfsInDin(s, NDIRECT), b1)
                ELSE MkfsInSector(MkfsInSector(MkfsInDin(s, NDIRECT + 1),
                                               b2 \div NINDIRECT),
                                  b2 % NINDIRECT))

balloc_mark_used(used) ==
    [i \in Words |->
       SumSet({2 ^ j : j \in {b \in 0 .. WB - 1 : i * WB + b < used}})]

MkfsDisk(n, magic) ==
    LET Finish(s) == [s.disk EXCEPT ![IBLOCK(1)] = s.din,
                                    ![bmapstart] = balloc_mark_used(s.free),
                                    ![1][0] = magic]
    IN  Finish(FoldLeft(iappend,
                 [disk |-> [b \in Blocks |-> ZeroBlock], free |-> nmeta,
                  din |-> [ZeroBlock EXCEPT ![Type] = 1, ![Nlink] = 1]],
                 [i \in 1 .. n |-> i - 1]))

---------------------------------------------------------------------------
EmptyPool == [i \in 0 .. NBUF - 1 |-> EmptyBuf]

(* The kernel once it has read the superblock of the disk d.               *)
xv6fs_iinit(d) ==
    LET Mount(r) == [r.k EXCEPT !.mounted = Data(r.k, r.bp)[0] = XV6_MAGIC]
    IN  Mount(bread([disk |-> d, pool |-> EmptyPool, next |-> 0,
                     ip |-> [f \in Files |-> ZeroBlock], valid |-> {},
                     mounted |-> FALSE, halt |-> "no", images |-> {}], 1))

Init ==
    /\ machine \in Machines
    /\ \E k \in {xv6fs_iinit(MkfsDisk(machine.mkfs, machine.magic))} :
         /\ disk = k.disk /\ mounted = k.mounted
         /\ pool = k.pool /\ next = k.next
         /\ ip = k.ip /\ valid = k.valid
    /\ why = "no"
    /\ stops = 0
    /\ content = [f \in Files |-> [i \in 1 .. IF f = 1 THEN machine.mkfs ELSE 0
                                      |-> MkfsValue]]

K == [disk |-> disk, pool |-> pool, next |-> next, ip |-> ip, valid |-> valid,
      mounted |-> mounted, halt |-> "no", images |-> {}]

(* What the blocks of an inode hold on the disk d, by a plain walk.        *)
Peek(d, b) == IF b \in Blocks \ {0} THEN d[b] ELSE ZeroBlock

BlockAt(d, din, bn) ==
    LET b1 == bn - NDIRECT
        b2 == bn - NDIRECT - NINDIRECT
    IN  IF bn < NDIRECT THEN din[Addr(bn)]
        ELSE IF b1 < NINDIRECT THEN Peek(d, din[Addr(NDIRECT)])[b1]
        ELSE Peek(d, Peek(d, din[Addr(NDIRECT + 1)])[b2 \div NINDIRECT])
                 [b2 % NINDIRECT]

Contents(d, f) ==
    [i \in 1 .. d[IBLOCK(f)][Size] |->
       Peek(d, BlockAt(d, d[IBLOCK(f)], i - 1))[0]]

(* The call returns: the file f holds new. An inode that is not valid is   *)
(* loaded before it is used.                                               *)
Returns(k, f, new) ==
    /\ Ok(k)
    /\ disk' = k.disk /\ pool' = k.pool /\ next' = k.next
    /\ valid' = k.valid
    /\ ip' = [g \in Files |-> IF g \in k.valid THEN k.ip[g] ELSE ZeroBlock]
    /\ content' = [content EXCEPT ![f] = new]
    /\ UNCHANGED <<machine, mounted, why, stops>>

(* What a call that was cut off may leave of a file: the old or the new    *)
(* length, and the old or the new value in each block.                     *)
Between(old, new) ==
    {c \in UNION {[1 .. n -> Values \union {MkfsValue}] : n \in {Len(old), Len(new)}} :
        \A i \in DOMAIN c : \/ (i \in DOMAIN old /\ c[i] = old[i])
                            \/ (i \in DOMAIN new /\ c[i] = new[i])}

(* The machine stops with the disk d, and is switched on again.            *)
Stops(d, f, new) ==
    /\ stops < MaxStops
    /\ \E k \in {xv6fs_iinit(d)} :
         /\ disk' = k.disk /\ mounted' = k.mounted
         /\ pool' = k.pool /\ next' = k.next
         /\ ip' = k.ip /\ valid' = k.valid
    /\ content' = [content EXCEPT ![f] =
                     IF Contents(d, f) \in Between(@, new) THEN Contents(d, f)
                     ELSE @]
    /\ stops' = stops + 1
    /\ UNCHANGED machine

(* One call on the file f: it returns, or the power fails after one of its *)
(* writes, or it halts the machine.                                        *)
Call(k, f, new) ==
    \/ Returns(k, f, new)
    \/ \E d \in k.images : Stops(d, f, new) /\ why' = "no"
    \/ ~Ok(k) /\ Stops(k.disk, f, new) /\ why' = k.halt

InUse(f) == disk[IBLOCK(f)][Type] # 0

(* A program has the file open, or can open it by its name.                *)
Usable(f) == InUse(f) /\ (disk[IBLOCK(f)][Nlink] > 0 \/ f \in valid)

(* ialloc() takes the first inode without a type; xv6fs_create() loads it  *)
(* and counts the name.                                                    *)
create(f) ==
    LET Typed(r) == log_write(PutBlock(r.k, r.bp,
                                [ZeroBlock EXCEPT ![Type] = 1]), r.bp)
        Counted(k) == iupdate(SetIp(k, f, Nlink, 1), f)
        Scan == FoldLeft(LAMBDA r, g : bread(r.k, IBLOCK(g)),
                         [k |-> K, bp |-> 0], [g \in 1 .. f |-> g])
    IN  /\ ~InUse(f) /\ \A g \in 1 .. f - 1 : InUse(g)
        /\ Call(IF mounted THEN Counted(ilock(Typed(Scan), f))
                ELSE Halt(K, "ialloc() with no valid superblock"), f, <<>>)

(* write: writei() and another iupdate().                                  *)
write(f, off, n, v) ==
    /\ Usable(f)
    /\ Call(iupdate(writei(ilock(K, f), f, off, n, v), f), f,
            IF off > Len(content[f]) \/ off + n > MAXFILE THEN content[f]
            ELSE [i \in 1 .. Max({off + n, Len(content[f])}) |->
                    IF i \in off + 1 .. off + n THEN v ELSE content[f][i]])

read(f, off, n) ==
    /\ Usable(f)
    /\ off < Len(content[f])
    /\ Call(readi(ilock(K, f), f, off, n).k, f, content[f])

(* Mutant: O_TRUNC frees the first block and keeps its number.             *)
truncate_FreesBlocks(f) ==
    LET Freed(k) == IF k.ip[f][Addr(0)] = 0 THEN k
                    ELSE bfree(k, k.ip[f][Addr(0)])
    IN  /\ InUse(f) /\ disk[IBLOCK(f)][Nlink] > 0
        /\ Call(iupdate(SetIp(Freed(ilock(K, f)), f, Size, 0), f), f, <<>>)

(* open with O_TRUNC: the size goes, the blocks stay.                      *)
truncate(f) ==
    /\ InUse(f) /\ disk[IBLOCK(f)][Nlink] > 0
    /\ Call(iupdate(SetIp(ilock(K, f), f, Size, 0), f), f, <<>>)

unlink(f) ==
    /\ InUse(f) /\ disk[IBLOCK(f)][Nlink] > 0
    /\ Call(LET Uncount(k) == iupdate(SetIp(k, f, Nlink, k.ip[f][Nlink] - 1), f)
            IN  Uncount(ilock(K, f)), f, content[f])

(* The last iput(), or the slot of the inode is taken for another.         *)
iput(f) ==
    LET Freed(k) == iupdate(SetIp(itrunc(k, f), f, Type, 0), f)
        Forget(k) == [k EXCEPT !.valid = @ \ {f}]
    IN  /\ f \in valid
        /\ IF ip[f][Nlink] = 0 THEN Call(Forget(Freed(K)), f, <<>>)
           ELSE Call(Forget(K), f, content[f])

(* namei() reads the directory.                                            *)
namei == Call(bread(K, dirblock).k, 1, content[1])

Next ==
    \/ \E f \in Files : create(f) \/ truncate(f) \/ unlink(f) \/ iput(f)
    \/ \E f \in Files, n \in machine.count, v \in Values :
         \E off \in 0 .. MaxSize(f) - n : write(f, off, n, v)
    \/ \E f \in Files, n \in machine.count :
         \E off \in 0 .. MaxSize(f) - n : read(f, off, n)
    \/ namei

Spec == Init /\ [][Next]_vars

---------------------------------------------------------------------------
Named == {f \in Files : InUse(f) /\ disk[IBLOCK(f)][Nlink] > 0}

(* Where the inodes S keep block numbers: in themselves, in their indirect *)
(* blocks, in the doubly indirect one and in those it names.               *)
At(p) == Peek(disk, p[1])[p[2]]

Refs(S) ==
    LET Set(P) == {p \in P : At(p) # 0}
        Below(P) == Set({At(p) : p \in P} \X (0 .. NINDIRECT - 1))
        Own(I) == Set({IBLOCK(f) : f \in S} \X {Addr(i) : i \in I})
    IN  UNION {Own(0 .. NDIRECT + 1), Below(Own({NDIRECT})),
               Below(Own({NDIRECT + 1})), Below(Below(Own({NDIRECT + 1})))}

Marked == {b \in Blocks : Bit(disk[bmapstart], b) = 1}

TypeOK ==
    /\ machine \in Machines
    /\ mounted \in BOOLEAN
    /\ disk \in [Blocks -> [Words -> 0 .. 2 ^ WB - 1]]
    /\ pool \in [0 .. NBUF - 1 -> [valid : BOOLEAN, dirty : BOOLEAN,
                                   blockno : Blocks,
                                   data : [Words -> 0 .. 2 ^ WB - 1]]]
    /\ next \in 0 .. NBUF - 1
    /\ ip \in [Files -> [Words -> 0 .. 2 ^ WB - 1]]
    /\ valid \subseteq Files
    /\ stops \in 0 .. MaxStops
    /\ \A f \in Files : content[f] \in Seq(Values \union {MkfsValue})

(* Whatever a power failure has interrupted, and however often: a block of *)
(* a file that has a name is marked in the bitmap, so that balloc() will   *)
(* not hand it out, and is in one place of one file.                       *)
BlocksOwnedOnce ==
    /\ {At(p) : p \in Refs(Named)} \subseteq Marked \ (0 .. nmeta - 1)
    /\ \A p, q \in Refs(Named) : At(p) = At(q) => p = q

(* No block is lost unless the machine was stopped in the middle of a      *)
(* call: what is marked is reached from some inode. open with O_TRUNC      *)
(* keeps the blocks of a file for later writes.                            *)
NothingLeaks ==
    stops > 0 \/ Marked = (0 .. nmeta - 1) \union
                           {At(p) : p \in Refs({f \in Files : InUse(f)})}

(* A file holds what was written to it last, and a call that was cut off   *)
(* leaves the old or the new length and in each block the old or the new   *)
(* value: writei() writes the blocks before the size.                      *)
FilesReadBack ==
    \A f \in Named \union {g \in valid : InUse(g)} :
        Contents(disk, f) = content[f]

(* A buffer holds its block, there is one buffer for a block, and an inode *)
(* in core is the one on the disk: nothing waits to be written.            *)
CacheIsDisk ==
    /\ \A i \in DOMAIN pool : pool[i].valid =>
         /\ ~pool[i].dirty
         /\ pool[i].data = disk[pool[i].blockno]
         /\ \A j \in DOMAIN pool :
              pool[j].valid /\ pool[j].blockno = pool[i].blockno => i = j
    /\ \A f \in valid : ip[f] = disk[IBLOCK(f)]

(* The machine halts by itself only for want of blocks: bfree() never      *)
(* meets a free block and no block number leads off the disk.              *)
HaltsOnlyWhenFull == why \in {"no", "balloc: out of blocks"}

(* Reading allocates nothing: bmap() finds every block below the size.     *)
ReadsDoNotWrite ==
    [][\A f \in Files, n \in machine.count : \A off \in 0 .. MaxSize(f) :
         read(f, off, n) => disk' = disk]_vars

(* What mkfs has put into its file, and no program has overwritten, is     *)
(* still read from it.                                                     *)
MkfsFileReadsBack ==
    stops > 0 \/ 1 \notin Named \/
      \A i \in DOMAIN content[1] : content[1][i] = MkfsValue =>
        i \in DOMAIN Contents(disk, 1) /\ Contents(disk, 1)[i] = MkfsValue

(* A disk without the magic number in its superblock is left untouched,    *)
(* as fs.c (xv6fs_mounted), xv6fs_full_init() and kernel() say.            *)
ForeignDiskUntouched ==
    mounted \/ disk = MkfsDisk(machine.mkfs, machine.magic)
=============================================================================
