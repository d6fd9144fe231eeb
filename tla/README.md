# A TLA+ model of the notux kernel

notux is a small x86-64 kernel: one CPU, a round-robin scheduler driven by a
100 Hz timer, `int 0x80` system calls, an AHCI disk with a file system derived
from xv6, a PS/2 keyboard and a framebuffer console. This directory holds TLA+
modules that model its core, the TLC configurations that check them on small
instances, and proofs that TLAPS checks for every instance.

`PROJECT.json` lists the components, the runs, the mutants (small changes of a
definition that a property has to notice), the source lines behind each
definition, the hazards and the theorems.

## The system

| Component | State | Operations | What is hard | Correct means |
|---|---|---|---|---|
| Process table, scheduler (`process.c`, `timer.asm`, `syscalls.asm`) | `processes[8]`, `current_process_idx`, `next_pid`; TSS.RSP0, CR3, one kernel stack per slot | create, activate, schedule, exit; execve, wait4, getpid, fork | ticks between any two calls; slots reused while a zombie still halts on its stack; frames on the wrong stack | a program resumes with its own registers, stack and address space; exit codes go to the creator, once; nobody starves |
| ELF loader (`onion.c`, `syscall.c`) | page tables of the new process, one static load buffer, one static area for arguments | load, set entry, set arguments | failure half way; the area shared by all children | a failed load gives the slot back |
| Descriptors (`syscall.c`) | `ofiles[16]` per process | open, close, read, write, lseek, dup, dup2, inheritance over execve | references lost in exit and in error paths | reference counts are exact |
| Inodes, directories, paths (`fs.c`, `xv6fs_ops.c`, `xv6fs_bridge.c`) | `icache[50]`, disk inodes, one current directory for all processes | iget/iput/ilock, create, unlink, namei, chdir, mkdir | unlink of what is open or current; no journal; locks that halt instead of wait | open files keep their inode; names never dangle, also after a power failure |
| Blocks (`fs.c`) | bitmap, direct and indirect block numbers | balloc, bfree, bmap, itrunc, readi, writei | failure between the bitmap and the inode | no block in two files |
| Buffer cache (`xv6fs_bridge.c`) | pool of buffers, next victim | bread, bwrite, brelse, eviction | a buffer evicted while it is held | one buffer per block, writes reach the disk |
| AHCI (`onahci.c`) | command slots, port registers | init, start, stop, read and write with polling | late completion after a timeout | a buffer is not reused under a running command |
| Memory (`pmm.c`, `vmm.c`, brk in `syscall.c`) | page bitmap, page tables, heap bounds | alloc, map, unmap, split, brk | running out half way; silent failure of `vmm_map_page` | no page in two places; the heap is mapped |
| Keyboard (`keyboard.c`) | 64-byte ring, prefix and Shift flags | interrupt, `kgetc`, `kflush` | full ring, prefixes, Shift | a bounded queue; Shift never stuck |
| Mount gate (`fs.c`, `onion.c`) | `xv6fs_mounted` | mount, every write path | paths that do not check it | a foreign disk is not written |
| Console, interrupt tables, PCI, serial, panic, RAM file system, boot | cursor; tables written once | drawing, set-up | little | not modelled, see the end |

The parts interact by calls. A system call enters through `syscalls.asm` on the
stack TSS.RSP0 names, runs to its end with interrupts off (both gates are
interrupt gates) and returns through the same stack; execve calls into the file
system for the program and into the process table for the slot, and hands over
descriptors 0 to 2. The timer calls `schedule()`. Only two places enable
interrupts inside the kernel, and both halt there: the end of
`exit_current_process()` and the end of `schedule()` when nothing can run. So a
system call, a tick and a keyboard interrupt are atomic with respect to each
other, and what interleaves are whole calls of different processes, ticks and
interrupts. That is why each is one action in the modules.

## Modules

### ProcessLifecycle, ProcessTable, MCProcessTable, ProcessTableProofs

`ProcessTable` has one function variable for each field of `process_t` and one
variable for each register that can be wrong: `rsp0`, `cr3`, the owner of the
registers (`cpu`) and the owner of the frame saved on each stack (`kstack`).
`mode` says where the CPU is: in the boot halt loop, in a program, or in one of
the two kernel halt loops; `nest` counts the frames the halt loop has piled up.
An address space is named by the pid it was made for, a stack by its slot.

The actions are the system calls `getpid`, `fork` (always -1), execve in its
three outcomes (`ExecveRefused` before the table changes, `ExecveLoadFails`
after `create_process()`, `ExecveSpawns`), `exit_current_process`, wait4 in its
two outcomes, and `Tick` in the three branches of `schedule()`. The scan for
the next process is stated by `Distance`, the number of steps the loop needs
from the current slot.

`ProcessLifecycle` says what a program may rely on, in terms of pids only:
status, parent, exit code, and the result of the last call. `ProcessTable`
implements it with the mapping at the end of the module (a pid that was handed
out and is in no slot is "gone").

### FileSystem, MCFileSystem, DiskProofs, InodeProofs, FileSystemProofs

One action per system call. Inside an action every C function is an operator
with the C name that takes a kernel state and gives the kernel state it leaves,
so that the order of locks, references and disk writes is the order of the code;
after a panic the rest of a call does nothing. `k.images` collects the disk
after every `log_write()`: `begin_op`/`end_op` are empty and the buffer cache
writes through, so each of these may be what a power failure leaves, and the
action `PowerFails` picks one. A write error of the disk halts the machine in
`bwrite()` with the same disks. `boot` powers the machine on: mount, ensure the
default directory, read the file in the root, start init. The initial disk is
the image of `mkfs.c`, reduced to one directory and one file.

The disk maps inode numbers to type, link count and entries. `head` has the names
in the first two entries of a directory, which are the ones xv6fs_unlink() skips
when it asks whether a directory is empty, and `emptied` says that a program has
truncated it: open with `O_TRUNC` sets the size of whatever it finds to 0, and a
directory then keeps its name and its inode but loses every entry, "." and ".."
included (`Truncate`). The cache has
`inum`, `ref`, `valid`, `type`, `nlink` and the lock. Fields that are written
before they are read again (an unused slot, a slot that is not valid) are
blanked at the end of a call. `lost` is a history variable: the references that
no process can drop any more, because exit closes nothing and
`create_process()` clears the descriptors of the slot it takes.

Choices: contents, sizes and blocks are in `FileBlocks`; paths are sequences of
names. Which process slot execve takes is left open, since the process table
decides it.

One restriction on what programs do: none writes into a directory through a
descriptor, although `write` (`syscall.c:532-575`) does not refuse it. The bytes
would be arbitrary entries, and no property of names survives that. Whatever is
said about names, link counts and locks is said of programs that change
directories by mkdir, open, unlink and truncation.

### Memory, MCMemory, Loops, MemoryProofs

Physical memory is a function from frames to words, and page tables live in it.
The kernel has no separate window on physical memory: a table or a new page is
filled through its physical address, under whatever CR3 is loaded. So every
access of the kernel (`Read`, `Write`, `WritePage`) goes through `Walk`, the
translation of the hardware, from the current `cr3`; an access that leads nowhere
sets `fault`. `used` is the bitmap of `pmm.c`; `pmm_alloc_page`,
`get_next_level`, `split_huge_pde`, `vmm_map_page`, `vmm_unmap_page` and
`create_user_pml4` have the names of the code. The actions are
`ahci_find_controller` and `ahci_port_init` (the two users of the kernel's own
tables, at boot), `Spawn` (execve, or `kernel()` for the first program: page
tables, then the ELF loader, either of which may run out of pages or meet a bad
file), `Switch`, `Exit`, brk in three forms, and `Store`, a program that
writes to a page it owns. `expected` is a history variable, what each program
last saw in its pages; `dropped` remembers what `vmm_map_page()` could not map,
because the function returns nothing.

`PAGE_ALIGN_UP` is computed in the width of an address (`AddressSpace`), as in
the code. `sys_brk()` has no upper limit, so a program may ask for the last
address there is (`LastBreak`): rounded up it is 0, which makes the call one that
shrinks the heap, and the loop unmaps from page 0 through the identity map that
the kernel itself runs on. That is `BrkWraps`. The loop ends where the machine
does: when an access of the kernel has no translation, or its own image is not
where it was (`Stopped`). Only when no frame is left for the page tables that this
takes does it get through. `wrapped` is a history variable that says that such a
call has been made; the invariants of address spaces are about states before it.

The loops over the page directories that are copied and over the pages of a
program, a heap or a port are recursive functions. `Loops` belongs to the proofs:
`Loop(p, x, n)` is the rounds 1 to n from x, each loop of the kernel is shown to
be an instance, and the induction on n is proved there, once.

Choices: a table has `Fan` entries instead of 512; the flags of an entry other
than present and huge are left out (all pages are user pages, CR0.WP is off);
the TLB is left out (`vmm_unmap_page` and CR3 loads flush it). A program is a row
of pages from `LinkPage` on, at least one of them, each in one segment: programs
with two PT_LOAD segments in one page or with other addresses are left out, and so
are breaks between the heap's first page directory and the last address.

### FileBlocks, MCFileBlocks

The layer below `FileSystem`: a file is its inode, and the question is which
block holds what. A block is a few words, a bitmap word a few bits, a file is
counted in blocks. `balloc`, `bfree`, `bzero`, `bmap` with both indirect levels,
`itrunc`, `readi`, `writei`, `ialloc` (in `create`) and `iupdate` work through
`bread`, `bcache_get` and `log_write` on the buffer pool, and a pointer to a
buffer is its place in the pool, as in the code, so that a buffer that is
evicted while it is held shows. `mounted` is `xv6fs_mounted`, asked by `balloc`
and `create` only. The initial disk is what `iappend` and `balloc_mark_used` of
`mkfs.c` write. Each action is one call on one file (create, write, read, open
with `O_TRUNC`, unlink, the last `iput`, a lookup); it returns, or the power
fails after any of its disk writes (`k.images`), or it halts the machine, and
then the machine is switched on again. `content` is what each file should hold.

A constant `Machines` lists the machines of a run (buffers, magic number, file
of mkfs, bounds): one run can then have a small cache and a large file without
having both in one instance.

### SectorStore, Ahci, MCAhci, AhciProofs

`Ahci` has the driver and the controller side by side. Every step of the driver
reads one register and does what follows from it, so the controller may act
between any two: its engines follow ST and FRE, it moves the data of a command,
clears its bit in `ci`, raises an error, or never does anything again. It is
external, and behaves as the AHCI specification and the driver's use of it say.
`ahci_init()` goes through the ports (absent, refusing to stop or start, out of
pages half way) and keeps one entry of `g_devices` for each that worked;
`ahci_do_rw()` is `Prepare`, `WaitNotBusy`, `WaitDone` and `CheckError`. The file
system is one caller that halts the machine on an error, as `bread()` and
`bwrite()` do. Command lists and tables are pages, found by the controller
through its registers and not through the driver's variables.

`SectorStore` is the promise: one request at a time, served at most once, and
answered with success only after it was served; after a failure it may still be
served, but nobody asks again. Without the halt of the file system this would
not hold: after a timeout the slot of the old command stays in use and its data
may land in the buffer later.

### TypeAhead, Keyboard, KeyboardProofs

`Keyboard` has the variables of `keyboard.c` plus the bytes under way (`wire`)
and the Shift keys held down. The keyboard itself is external: ordinary keys
send one byte, extended keys a prefix and any byte. `ScanCode` has the tests of
`irqhandler()` in their order. `TypeAhead` is a bounded queue; `Waiting` maps
the ring onto it. Both have `event`, the last character typed, read or flush, as
what an observer sees: without it, a full ring that overflows to empty could not
be told from a flush, and a character dropped for no reason from one not typed.

## Runs

| Run | Instance | Distinct states | Shows |
|---|---|---|---|
| `process_safety` | 3 slots, 5 pids, 2 exit codes | 136 000 | the scheduler's safety properties, round robin, that the table implements `ProcessLifecycle`, and that a ready process runs in the end |
| `file_tree` | 4 inodes, 3 cache slots, 1 process, 7 paths; open of two of them with no flag or with `O_CREAT` and `O_TRUNC`, and of the directory "a" with `O_TRUNC` | 180 000 | locks, cache coherence, link counts and names after power failures, open files keep their inode, unlink takes one name |
| `descriptors` | 3 inodes, 2 cache slots, 2 processes with 3 descriptors, open with all flags | 57 000 | exact reference counts over dup, dup2, inheritance and exit |
| `memory` | 2 processes, 24 frames of which 6 are the kernel's, tables of 4, 3 heap sizes and the last address | 87 000 | kernel pointers mean what they say in every address space; a frame has one use; nothing changes a program's pages but the program; silent failures only when memory is full |
| `file_blocks` | 14 blocks, 2 files, 1 crash; 2 buffers and direct blocks, or 14 buffers and all three levels | 84 000 | blocks owned once and never lost, contents after crashes, the cache agrees with the disk, no halt but for a full disk, reads do not write |
| `ahci` | 2 ports, 2 slots, 2 sectors, 2 turns of each polling loop, 0, 3, 5 or 8 free pages | 317 000 | devices that count are ready, the driver always returns, and is a `SectorStore` |
| `keyboard` | ring of 3, 3 bytes under way | 1 906 000 | the ring is a queue; Shift is never stuck |
| `ilock_no_type` | as `file_tree`, 4 cache slots | violation | finding 1 |
| `mkfs_links` | as `file_tree` | violation | finding 2 |
| `link_address` | as `memory`, programs linked below the end of RAM | violation | finding 3 |
| `held_buffer` | 4 buffers, files with an indirect block | violation | finding 4 |
| `mount` | a disk with another magic number | violation | finding 5 |

Why the bounds are enough. Three slots give a current process, one that waits
and one that is free or a zombie, and slot reuse with a wrapped scan; five pids
let slots be reused twice. `MaxNest` only distinguishes one frame from more. In
`file_tree` three cache slots are exceeded by a deep path from a current
directory, so "iget: no inodes" happens; four inodes let a directory in a
directory be made, and numbers be reused after a removal; the paths include the
root, ".", ".." and a name relative to a removed directory. The directory "a" may
be truncated, empty or not, current or not, made by mkfs or by mkdir; the other
directories are truncated in the proofs only, which have no bound on `Opens`.
`descriptors` truncates the directory as well. It has a
descriptor that is inherited and two that are not. A ring of three wraps round
and is full with two characters; three bytes hold a prefix pair and one more.

In `memory` 24 frames are enough for two programs and a third `Spawn` that fails
at each of its allocations, for a heap that runs out of frames half way, and for
a heap page whose table cannot be had; the break 3 ends inside a page and 383 is
the last address, with and without frames left for the tables that unmapping the
kernel takes. The registers of the controller share a
page directory with the programs, so the split of a huge page is copied into
every process. In `file_blocks` the first machine has as few buffers as one
call can use, so every access evicts; the second has a file with a direct block,
two indirect ones and two doubly indirect ones beside a short file, on a disk
that they fill. The longer a file the more evictions are needed to reach finding
4, which is why these are two machines: a small cache with indirect blocks
violates nearly everything (`held_buffer`). `VIEW` identifies states that the
code cannot tell apart: the places of buffers in a cache that never evicts, and
the contents of blocks that no usable file names, which `balloc()` clears before
they are read. In `ahci` 3 and 5 free pages stop a port in the middle of its
tables, or the second port after the first; two turns of a loop are one that
waits and one that gives up.

Fairness. `FairSpec` of `ProcessTable` assumes weak fairness of `Tick`. The
timer is programmed at boot and never stopped, programs run with interrupts on
and so do the two halt loops, so a tick is always enabled and comes. Nothing is
assumed of programs: they may never call or exit. `Spec` of `Ahci` assumes weak
fairness of the driver, which is the CPU executing its code; nothing is assumed
of the controller, so `NeverHangs` holds with one that never answers.

Deadlock is checked in all runs but three. A machine with no program left still
ticks; a halted file system can be switched off and on. `memory` and
`link_address` stop when the first program cannot be loaded or the last has
exited, and `ahci` when a request has failed or there is no disk; there the
machine really halts.

## Findings

1. `ilock()` panics on an inode without a type (`fs.c:208`), which is meant to
   be impossible. Removing the current directory and then its parent is allowed,
   and the next use of ".." locks the freed parent. The trace of
   `ilock_no_type` is eight legal calls of one program.
2. `mkfs.c:232` counts two links for a directory, `xv6fs_ops.c:35` one. A
   directory made by mkfs keeps one link after unlink and is never freed.

3. The makefile links programs at 0x400000, which is also a physical address
   that the allocator hands out. Once it does (frames are never freed, so some
   fifty execve calls are enough), tables and program pages that the kernel
   fills through their physical addresses under the caller's CR3 are the
   caller's own pages: the caller is overwritten and the new program gets
   pages that were never written. `memory` has the same instance with programs
   linked above RAM, where all properties hold.
4. `bmap()` holds the buffer of an indirect block across `balloc()`, and nothing
   pins a buffer: with 64 buffers and FIFO eviction, a file that grows by some
   64 blocks beyond the direct ones makes `balloc()` evict it, and the block
   number goes into the bitmap or the new block. In the run a file of mkfs loses
   its contents, without any crash.
5. Comments in three files say that every write path refuses to run without a
   mount. Only `balloc()` and `ialloc()` do: opening an existing file with
   `O_TRUNC`, unlink, and writes into blocks that exist go through to a disk
   that is not notux's.

A comment at `syscall.c:624` says that the blocks of a file truncated by
`O_TRUNC` leak. `NothingLeaks` shows that they do not: their numbers stay in the
inode, later writes use them again, and the last `iput()` after an unlink frees
them.

Two more things the code does, which no comment, test or document denies, and for
which there is therefore no run that expects a violation:

- `open` with `O_TRUNC` and without `O_CREAT` asks for no type
  (`syscall.c:644-651`). One call empties a directory: what it held keeps its
  links and loses its names. `DotDotNamesParent` and `AtMostOneNameGoes` are about
  the directories that this is not done to.
- `brk` near 2^64 (`syscall.c:360-416`, see `BrkWraps`) takes the kernel's memory
  out of the address space it runs in, and the machine stops.

## Proofs

`ProcessTableProofs` proves, for any number of slots, pids and exit codes:

- `TypeCorrect`: `Spec => []TypeOK`.
- `SchedulerCorrect`: `Spec => []SchedulerInv`, the inductive invariant. The
  properties are not inductive alone: that the program on the CPU has its own
  registers needs the frames of suspended programs to be intact, which needs
  RSP0 to name the current slot and no other slot to be filled on the same
  stack, which needs slots in use to be told apart by pid. `CpuInv` ties the
  registers and the mode to the current slot, `SlotInv` says what
  `create_process()` set up stays right, `PidsUnambiguous` is the third part.
- `ContextSafety`: the five safety invariants of the run follow; `FramesSafe`,
  `PidsSafe`, `CurrentSlotSafe` and `IdleSafe` state four of them one by one.
- `RoundRobin`: `EveryTickComesCloser`, from an arithmetic lemma on `Distance`.

The last part proves `LifecycleImplemented`, that `ProcessTable` implements
`ProcessLifecycle`, for any number of slots, pids and exit codes. The mapping
looks up the slot of a pid with CHOOSE; `Mapped` says what it finds without, and
needs `PidsUnambiguous`, since with two slots of one pid there would be two
answers. Then each action is compared with the abstract one pid by pid: the
two failing forms of execve waste a pid or nothing, ticks change no life.

`KeyboardProofs` proves for every buffer size that head and tail stay within the
buffer (`TypeCorrect`) and that the ring implements the queue (`RingIsQueue`).
The extra invariant is that the cells between tail and head hold typed
characters; the two lemmas `EnqueueAppends` and `GetTakesHead` turn indices
modulo the size into `Append`, `Head` and `Tail`, and a ring without a free cell
is shown to hold exactly KB_BUF_SIZE - 1 characters. `ShiftSafe` proves
`ShiftNeverStuck` for any number of bytes under way: `ShiftInv` says that a
prefix is followed by its byte and by no other prefix, and that when no Shift key
is held the last Shift byte under way is a release, or there is none and the flag
is off. `OneByte`, `TwoBytes` and `ByteRead` are its three kinds of step.

`AhciProofs` proves, for any number of ports, slots, sectors, pages and polls:

- `TypeCorrect` and `DriverCorrect`: `TypeOK` and the inductive invariant
  `DriverInv`. It has three parts, each needed by the others: `DeviceInv` (the
  entries that count are set up on ports of their own that `ahci_init()` has
  passed), `BootInv` (the port in hand will be the next entry) and `RequestInv`
  (the only command issued is the one in hand, its header and table say what was
  asked, and it leaves `ci` only with its data moved).
- `DevicesSafe`: `DevicesReady`, from `DeviceInv`.
- `SectorStoreImplemented`: every step of driver and controller is a step of
  `SectorStore` or none of its business. This is where a command that outlives
  its timeout matters: it may still be served once, and nobody asks again.

`FileSystemProofs` proves six properties of `FileSystem` for every size of the
cache, the disk and the descriptor tables, every finite set of processes and of
names, and every set of paths: `ReferencesExact` (`RefsExact`), `LocksReleased`
(`LockDiscipline`), `CacheAgrees` (`CacheCoherent`), `OpenFilesKept`
(`OpenFilesKeepTheirInode`), and of the disk, wherever the power may have failed,
`NamesCounted` (`NlinkNeverUndercounts`) and `DirectoriesComplete`
(`DotDotNamesParent`, of directories that no program has truncated). The argument has four layers:

- `DiskProofs` has the invariant of the disk, `DiskOk`, and a lemma for every kind
  of write. The two properties of the disk are not inductive alone. Removing a
  directory takes a link from its parent, for the ".." that is gone; that this
  link is not one that a name of the parent needs is only known if the
  directories in it are counted as well. So `DiskOk` says that an inode has as
  many links as it has names and directories in it (`Needed`), that a free inode
  has no link (or `ialloc()` would make a file of one that has a name), that a
  directory with a name has its "." and ".." unless it is `emptied`, and that no directory has itself
  under a name other than these two. A name may be put in when its inode, and for
  a directory the parent too, has a link to spare (`Spare`, `MayName`), and once a
  name is taken out there is one. A write that a power failure does not divide
  takes a disk that is in order to another; nothing ever has to be repaired.
- `InodeProofs` has one lemma per C function, which reads like a Hoare triple.
  `At(k, o, L)` says that slot s of the cache has `o[s]` references, that exactly
  the slots in L are locked, that the cache is coherent, and that the disk and all
  disks a power failure may have left since the call began are in order; a
  function that starts there ends there with what it took or put back. `Step` and
  `NStep` say what it may do meanwhile to an inode that somebody else holds: not
  free it, nor give its slot away. After a panic nothing is owed. This is where
  the order of the code counts: `SelfLinking` raises the parent's count and makes
  "." and "..", and only then has `Linking` what it needs to make the name;
  `Removing` clears the name, and only then can the counts go down.
- Locks need `DiskOk` too. `namex()`, `create()` and `unlink()` lock a parent and
  then the inode they found in it, and would wait for themselves if the two were
  one.
- The invariant `Inv` between calls is that the machine is `Settled`: the
  references owed are those of the descriptors, of the current directory and of
  the history variable `lost`, and no lock is held. Each system call takes a
  settled machine to a settled one (`CallDone`), which is a matter of counting:
  a descriptor that is set or cleared changes the cardinality of the
  descriptors of one slot by one.

All of this holds of machines that have not halted; `Allowed` lists the panics
there can be, which are a full cache, a full disk and an inode without a type
(finding 1). So the proofs also show that the other panics ("ilock", "iunlock",
"acquiresleep", "dirlookup not DIR" and so on) never happen. Paths have any
length: `WalkAll` is a recursive function over the elements, and its lemma is
shown by induction on a set of lengths (`NaturalInduction` in `DiskProofs`),
because the induction theorems of the library take a predicate as a parameter.

`MemoryProofs` proves, for every size of memory, tables, heaps and programs and
any set of slots:

- `TypeCorrect`: `Spec => []TypeOK`, without a condition, whatever the kernel's
  pointers lead to. `TypeInv` adds what the types rest on: words with a pointer
  point to frames, a huge page lies in the identity map as a whole, and live
  slots have roots of their own that are allocated.
- `KernelReached`, `PagesKept` and `OneUse`: as long as `LinkFree(used, dma)`,
  `KernelReachable`, `MemoryKept` and `FramesExclusive` hold. `LinkFree` says that
  no frame in use, but for those of the boot module, is one where programs are
  linked, nor are registers near there. It has to be a condition: the address
  spaces do not have the identity map there, and `link_address` shows what happens
  once the allocator has come so far (finding 3). The bitmap only grows, so the
  condition holds until then and never again.

`KernelReachable`, `MemoryKept` and `FramesExclusive` say "until a break wraps", so
the invariant behind them is `KeptInv`, which is `AddressInv` below until
then; `BrkWraps` itself is followed only as far as types need it, and after it
nothing is claimed but `TypeOK`.

The three need each other. A function of `vmm.c` does what it says only if the
kernel reaches the tables it writes; that it does is a fact about tables written
by earlier calls, and about what has not been written over since. So there is one
invariant, `AddressInv`, for all of them: some function `own` gives every frame
its place (level, root and the indices that lead there, or that it hangs nowhere),
every entry of a table is as its label wants it (`EntryOk`), and so no frame hangs
in two places; `Whole` says of a root that it has the identity map, with what the
driver had split before the root was made, so that the kernel reaches what it
means under it (`Identity`). `own` is computed by no code and is in no state: each
lemma takes one and gives one. `Step` and `Change` say what a function may do to
what hangs elsewhere, and a lemma for each, from `get_next_level` and
`split_huge_pde` up to the ELF loader and brk, says what it does, with and without
a frame left. `Has` is what `MemoryKept` says of one page. Slots enter only at the
end: roots are told apart by `CpuInv`, and `HeapBelow` (a program has seen no heap
page above its break) is why a page that brk maps anew was nobody's before. Loops
are proved with `LoopKeeps` of `Loops`, by an instance that names the round and
what is true before each.

Assumptions: `ConstantsAssumption` (at least one slot and one pid),
`PidWidthAssumption` (pids below 2^31, where the cast to `int` is harmless; no
proof uses it), `KeyboardAssumption` (a buffer of at least two cells; no other
key is a Shift key or the prefix), `AhciAssumption` (at least one port and slot,
a sector, and a value for "no request" that is not a request) and
`FileSystemAssumption` (at least one cache slot and three inodes, which the image
of `mkfs.c` uses; finitely many processes, one of which boots; finitely many
names, which are DIRSIZ bytes long in the code, and none is "." or ".."; fewer
inherited descriptors than there are). The last has no bound on how many names
there are, on the length of paths or on `MaxLost`. `MemoryAssumption`:
tables have at least two entries and the identity map fits in one page directory
table; the static tables are in the kernel's image, the image in RAM, and RAM, the
registers and the place of programs in the identity map, as `boot.asm` builds it;
registers are above RAM; breaks fit in the page directory of the heap or are the
last address. The
assumption of `FileBlocks` says which instances make sense and is evaluated by its
run.

Only model-checked:

- liveness (`ReadyEventuallyRuns`, `NeverHangs`), which is out of TLAPS's reach;
- of `FileSystem`, `TypeOK` (that a link count stays below its bound needs a
  count of all names, unreachable directories included) and `AtMostOneNameGoes`,
  whose tree is a recursive definition over data;
- of `Memory`, `MappedUnlessFull`: the invariant says which pages are mapped and
  where, but not that no others are (`Step` lets a function fill empty entries);
- everything in `FileBlocks`. Its contents are folds over files and blocks, its
  bitmap is arithmetic with powers of two, and its properties hold for caches
  whose buffers are not evicted while they are held (finding 4), which is a
  property of the instance.

## Plan

Done: all modules; the proofs of `ProcessTable`, `Keyboard` and `Ahci` with their
refinements; references, locks, cache, open files and the disk of `FileSystem`;
`Memory` but for `MappedUnlessFull`.

1. Proofs: `MappedUnlessFull`, with a `Step` that says which entries are filled.
2. Proofs: `FileBlocks`, blocks owned once, for a cache that does not evict.
3. Models: offsets of descriptors with their widths (`lseek` computes in 64 bits
   and stores 32), and the argument area shared by all spawned programs.

## Not modelled

Console, fonts, framebuffer and panic screen (drawing; their only state is the
cursor); PCI, GPU and serial (port I/O without state); interrupt, segment and
page tables set up once at boot (what matters of them is in the actions of
`ProcessTable` and the initial state of `Memory`); the RAM file system, for which
no image is ever installed; `user.c`, a sample program. Of the modelled parts:
the argument strings of execve, the offsets of descriptors, page flags and the
TLB, device inodes, and the options and file input of `mkfs.c`.
