------------------------------- MODULE Memory -------------------------------
(***************************************************************************)
(* Physical pages (pmm.c), page tables (vmm.c, paging.c), the address      *)
(* space of a new process (create_user_pml4, load_elf_into_process) and    *)
(* the heap (sys_brk).                                                     *)
(*                                                                         *)
(* Memory is a function from frames to words, and page tables live in it.  *)
(* The kernel has no window on physical memory: it uses the physical       *)
(* address of a table or of a new page as a pointer, so every access goes  *)
(* through the address space CR3 names, which during a system call is that *)
(* of the calling program (At).                                            *)
(*                                                                         *)
(* System calls run with interrupts off, so each is one action; inside it  *)
(* every C function is an operator from a memory state k to the one it     *)
(* leaves, with the pointer it returns (0 is the null pointer).            *)
(***************************************************************************)
EXTENDS Integers, FiniteSets, FiniteSetsExt

CONSTANTS
    Fan,          \* entries of a table, and pages a table maps (512)
    NPD,          \* page directories of the identity map (4)
    MAX_PAGES,    \* frames the allocator knows
    KernelPages,  \* frames of the kernel image, from frame 0
    ModulePages,  \* frames of the boot module, the program of init
    Procs,        \* slots of the process table
    LinkPage,     \* first page of a program: user programs are linked there
    ImagePages,   \* most pages of a program
    Breaks,       \* bound: the breaks programs ask for, in bytes above the heap's
                  \* start
    MmioPage,     \* the registers of the disk controller, above RAM
    NPorts,       \* bound: most AHCI ports brought up at boot
    PortPages     \* pages of one port

Index == 0 .. Fan - 1

(* Frames the identity map reaches; RAM ends at MAX_PAGES.                 *)
Frames == 0 .. NPD * Fan * Fan - 1

(* Addresses are as wide as the four indexes of a page make them, like the *)
(* 64 bits of the code; two bytes to a page, so that a break may be inside *)
(* a page. LastBreak is the last address there is, above the heap's start. *)
PAGE_SIZE == 2
LowPages == Fan * Fan * Fan           \* pages below the heap
heap_start == PAGE_SIZE * LowPages
AddressSpace == PAGE_SIZE * (Fan * LowPages)
LastBreak == AddressSpace - 1 - heap_start

ASSUME MemoryAssumption ==
    /\ Fan \in Nat \ {0, 1} /\ NPD \in 1 .. Fan
    /\ MAX_PAGES \in Nat /\ KernelPages \in (3 + NPD) .. MAX_PAGES
    /\ MAX_PAGES - 1 \in Frames
    /\ LinkPage + ImagePages - 1 \in Frames
    /\ MmioPage \in Frames /\ MmioPage >= MAX_PAGES
    /\ LinkPage \in Nat /\ ImagePages \in Nat
    /\ ModulePages \subseteq 0 .. MAX_PAGES - 1
    /\ NPorts \in Nat /\ PortPages \in Nat
    /\ {"boot", "halted"} \intersect Procs = {}
    /\ 0 \in Breaks      \* one page directory, but for the last address
    /\ Breaks \subseteq 0 .. PAGE_SIZE * Fan * Fan \union {LastBreak}

VARIABLES
    used,      \* frames whose bit is set in the bitmap
    mem,       \* contents of every frame
    cr3,       \* root of the address space the CPU uses
    fault,     \* the kernel has touched an address that is not mapped
    dropped,   \* pages vmm_map_page has silently not mapped, by root
    dma,       \* registers and frames the disk driver works on
    ports,     \* AHCI ports brought up
    cur,       \* running process, or Boot, or Halted
    live,      \* processes that have not exited
    pml4,      \* root of each process, 0 when it never had one
    heap_end,  \* end of each heap in bytes above heap_start
    expected,  \* what each process last saw in each page it owns
    wrapped    \* a break has gone round the end of the address space

vars == <<used, mem, cr3, fault, dropped, dma, ports, cur, live, pml4,
          heap_end, expected, wrapped>>

---------------------------------------------------------------------------
(* A word is an entry of a table, or data; the data of the model never     *)
(* looks like an entry. The flags of an entry are left out except present  *)
(* and huge: all pages are user pages and CR0.WP is off.                   *)
Word == [p : BOOLEAN, h : BOOLEAN, to : Nat]

Zero == [p |-> FALSE, h |-> FALSE, to |-> 0]
Entry(f) == [p |-> TRUE, h |-> FALSE, to |-> f]
Huge(f) == [p |-> TRUE, h |-> TRUE, to |-> f]
Fill(d) == [i \in Index |-> [p |-> FALSE, h |-> FALSE, to |-> d]]
ZeroPage == [i \in Index |-> Zero]

(* A virtual page by its four indexes; page n of the low range; page n of  *)
(* a heap, and for n < 0 the pages below it.                               *)
VA == Index \X Index \X Index \X Index
Low(n) == <<0, n \div (Fan * Fan), (n \div Fan) % Fan, n % Fan>>
HeapPage(n) == IF n < 0 THEN Low(LowPages + n) ELSE <<1, 0, n \div Fan, n % Fan>>

NoFrame == -1

(* The walk of the hardware, which is also vmm_virt_to_phys().             *)
Below(m, e, i) == IF e.p THEN m[e.to][i] ELSE Zero

Walk(m, root, va) ==
    LET Leaf(pde) == IF pde.h THEN pde.to + va[4]
                     ELSE IF ~Below(m, pde, va[4]).p THEN NoFrame
                     ELSE Below(m, pde, va[4]).to
    IN  Leaf(Below(m, Below(m, m[root][va[1]], va[2]), va[3]))

(* Where an access of the kernel to the frame f really goes.               *)
At(k, f) == Walk(k.mem, k.cr3, Low(f))

Read(k, f, i) == IF At(k, f) = NoFrame THEN Zero ELSE k.mem[At(k, f)][i]

Write(k, f, i, w) ==
    IF At(k, f) = NoFrame THEN [k EXCEPT !.fault = TRUE]
    ELSE [k EXCEPT !.mem[At(k, f)][i] = w]

WritePage(k, f, page) ==
    IF At(k, f) = NoFrame THEN [k EXCEPT !.fault = TRUE]
    ELSE [k EXCEPT !.mem[At(k, f)] = page]

---------------------------------------------------------------------------
(* pmm.c                                                                   *)

(* The bitmap at boot: the kernel image, and the pages of the module.      *)
pmm_init == 0 .. KernelPages - 1

pmm_reserve_region(bitmap) == bitmap \union ModulePages

\* Mutant: the scan goes one bit too far.
pmm_alloc_page_OneMore(k) ==
    LET free == (0 .. MAX_PAGES) \ k.used
    IN  [k |-> [k EXCEPT !.used = @ \union {Min(free)}], ptr |-> Min(free)]

\* Mutant: the bit is not set.
pmm_alloc_page_KeepsBit(k) ==
    LET free == (0 .. MAX_PAGES - 1) \ k.used
    IN  [k |-> k, ptr |-> IF free = {} THEN 0 ELSE Min(free)]

pmm_alloc_page(k) ==
    LET free == (0 .. MAX_PAGES - 1) \ k.used IN
    IF free = {} THEN [k |-> k, ptr |-> 0]
    ELSE [k |-> [k EXCEPT !.used = @ \union {Min(free)}], ptr |-> Min(free)]

---------------------------------------------------------------------------
(* vmm.c                                                                   *)

NewTable(r, t, i) ==
    IF r.ptr = 0 THEN r
    ELSE [k |-> Write(WritePage(r.k, r.ptr, ZeroPage), t, i, Entry(r.ptr)),
          ptr |-> r.ptr]

get_next_level(k, t, i, allocate) ==
    IF Read(k, t, i).p
    THEN [k |-> k, ptr |-> IF Read(k, t, i).h THEN 0 ELSE Read(k, t, i).to]
    ELSE IF ~allocate THEN [k |-> k, ptr |-> 0]
    ELSE NewTable(pmm_alloc_page(k), t, i)

\* Mutant: every page of the table is the first page of the huge one.
split_huge_pde_SamePage(k, t, i) ==
    LET Split(r) ==
          IF r.ptr = 0 THEN r
          ELSE [k |-> Write(WritePage(r.k, r.ptr,
                                [j \in Index |-> Entry(Read(k, t, i).to)]),
                            t, i, Entry(r.ptr)),
                ptr |-> r.ptr]
    IN  Split(pmm_alloc_page(k))

(* The table maps what the huge entry mapped.                              *)
split_huge_pde(k, t, i) ==
    LET Split(r) ==
          IF r.ptr = 0 THEN r
          ELSE [k |-> Write(WritePage(r.k, r.ptr,
                                [j \in Index |-> Entry(Read(k, t, i).to + j)]),
                            t, i, Entry(r.ptr)),
                ptr |-> r.ptr]
    IN  Split(pmm_alloc_page(k))

(* The page table behind an entry of a page directory.                     *)
PageTable(k, t, i, allocate) ==
    IF Read(k, t, i).p /\ Read(k, t, i).h THEN split_huge_pde(k, t, i)
    ELSE get_next_level(k, t, i, allocate)

(* The function returns nothing: a page that cannot be mapped is only      *)
(* remembered here, in the history variable dropped.                       *)
vmm_map_page(k, root, va, f) ==
    LET Drop(kk) == [kk EXCEPT !.dropped = @ \union {<<root, va>>}]
        Pt(r)  == IF r.ptr = 0 THEN Drop(r.k)
                  ELSE Write([r.k EXCEPT !.dropped = @ \ {<<root, va>>}],
                             r.ptr, va[4], Entry(f))
        Pd(r)  == IF r.ptr = 0 THEN Drop(r.k)
                  ELSE Pt(PageTable(r.k, r.ptr, va[3], TRUE))
        Pdp(r) == IF r.ptr = 0 THEN Drop(r.k)
                  ELSE Pd(get_next_level(r.k, r.ptr, va[2], TRUE))
    IN  Pdp(get_next_level(k, root, va[1], TRUE))

vmm_unmap_page(k, root, va) ==
    LET Pt(r)  == IF r.ptr = 0 THEN r.k ELSE Write(r.k, r.ptr, va[4], Zero)
        Pd(r)  == IF r.ptr = 0 THEN r.k
                  ELSE Pt(PageTable(r.k, r.ptr, va[3], FALSE))
        Pdp(r) == IF r.ptr = 0 THEN r.k
                  ELSE Pd(get_next_level(r.k, r.ptr, va[2], FALSE))
    IN  Pdp(get_next_level(k, root, va[1], FALSE))

(* The kernel's tables are static: pml4_table, pdp_table and pd_tables are *)
(* the frames 1, 2 and 3 .. of the image.                                  *)
kernel_pml4 == 1
kernel_pdp == 2
kernel_pd(n) == 3 + n

\* Mutant: the directories are shared with the kernel instead of copied.
create_user_pml4_Shares(k) ==
    LET Root(a) ==
          IF a.ptr = 0 THEN [k |-> a.k, ptr |-> 0, pdp |-> 0]
          ELSE [k |-> WritePage(a.k, a.ptr,
                        [i \in Index |-> Read(a.k, kernel_pml4, i)]),
                ptr |-> a.ptr, pdp |-> kernel_pdp]
    IN  Root(pmm_alloc_page(k))

(* A new page directory for the entry n of the new table r.pdp, with what  *)
(* the kernel's has in it.                                                 *)
copy_pd(r, n) ==
    LET Copy(kk, pd) ==
          WritePage(kk, pd, [i \in Index |-> Read(kk, kernel_pd(n), i)])
        Linked(a) ==
          IF a.ptr = 0 THEN [r EXCEPT !.k = a.k, !.ptr = 0]
          ELSE [r EXCEPT !.k = Copy(NewTable(a, r.pdp, n).k, a.ptr)]
    IN  IF r.ptr = 0 THEN r ELSE Linked(pmm_alloc_page(r.k))

(* A process gets its own copy of the directories of the identity map; the *)
(* page tables below them, if the kernel has split an entry, are shared.   *)
create_user_pml4(k) ==
    LET Pds(r) ==
          LET pds[n \in 0 .. NPD] == IF n = 0 THEN r
                                     ELSE copy_pd(pds[n - 1], n - 1)
          IN  pds[NPD]
        Rest(r) ==
          IF r.ptr = 0 THEN r
          ELSE [r EXCEPT !.k = WritePage(r.k, r.ptr,
                  [i \in Index |-> Read(r.k, IF i = 0 THEN r.ptr
                                             ELSE kernel_pml4, i)])]
        Pdp(root, a) ==
          IF a.ptr = 0 THEN [k |-> a.k, ptr |-> 0, pdp |-> 0]
          ELSE Rest(Pds([k |-> NewTable(a, root, 0).k, ptr |-> root,
                         pdp |-> a.ptr]))
        Root(a) ==
          IF a.ptr = 0 THEN [k |-> a.k, ptr |-> 0, pdp |-> 0]
          ELSE Pdp(a.ptr, pmm_alloc_page(WritePage(a.k, a.ptr, ZeroPage)))
    IN  Root(pmm_alloc_page(k))

---------------------------------------------------------------------------
K == [used |-> used, mem |-> mem, cr3 |-> cr3, fault |-> fault,
      dropped |-> dropped]

Becomes(k) ==
    /\ used' = k.used
    /\ mem' = k.mem
    /\ fault' = k.fault
    /\ dropped' = k.dropped

Boot == "boot"
Halted == "halted"

(* kernel(): the bitmap, the identity map, CR3.                            *)
Init ==
    /\ used = pmm_reserve_region(pmm_init)
    /\ mem = [f \in Frames |->
                CASE f = kernel_pml4 ->
                       [i \in Index |-> IF i = 0 THEN Entry(kernel_pdp) ELSE Zero]
                  [] f = kernel_pdp ->
                       [i \in Index |-> IF i < NPD THEN Entry(kernel_pd(i))
                                        ELSE Zero]
                  [] f \in {kernel_pd(n) : n \in 0 .. NPD - 1} ->
                       [i \in Index |-> Huge(((f - 3) * Fan + i) * Fan)]
                  [] OTHER -> ZeroPage]
    /\ cr3 = kernel_pml4
    /\ fault = FALSE
    /\ dropped = {}
    /\ dma = {}
    /\ ports = 0
    /\ cur = Boot
    /\ live = {}
    /\ pml4 = [p \in Procs |-> 0]
    /\ heap_end = [p \in Procs |-> 0]
    /\ expected = [p \in Procs |-> <<>>]
    /\ wrapped = FALSE

alloc_mapped_page(r) ==
    LET Mapped(a) ==
          IF a.ptr = 0 THEN [k |-> a.k, got |-> r.got]
          ELSE [k |-> WritePage(vmm_map_page(a.k, kernel_pml4, Low(a.ptr), a.ptr),
                                a.ptr, ZeroPage),
                got |-> r.got \union {a.ptr}]
    IN  Mapped(pmm_alloc_page(r.k))

(* The registers of the controller are mapped before anything else.        *)
ahci_find_controller ==
    /\ cur = Boot /\ dma = {}
    /\ dma' = {MmioPage}
    /\ Becomes(vmm_map_page(K, kernel_pml4, Low(MmioPage), MmioPage))
    /\ UNCHANGED <<cr3, ports, cur, live, pml4, heap_end, expected, wrapped>>

(* The pages of one AHCI port, before the first process is made.           *)
ahci_port_init ==
    /\ cur = Boot /\ dma # {} /\ ports < NPorts
    /\ ports' = ports + 1
    /\ LET pages[n \in 0 .. PortPages] ==
             IF n = 0 THEN [k |-> K, got |-> {}]
             ELSE alloc_mapped_page(pages[n - 1])
       IN  /\ Becomes(pages[PortPages].k)
           /\ dma' = dma \union pages[PortPages].got
    /\ UNCHANGED <<cr3, cur, live, pml4, heap_end, expected, wrapped>>

(* One page of a program: it is taken, cleared, mapped and filled.         *)
load_page(root, r, i) ==
    LET Filled(a) ==
          IF a.ptr = 0 THEN [k |-> a.k, ok |-> FALSE]
          ELSE [k |-> WritePage(
                        vmm_map_page(WritePage(a.k, a.ptr, ZeroPage),
                                     root, Low(LinkPage + i), a.ptr),
                        a.ptr, Fill(1)),
                ok |-> TRUE]
    IN  IF r.ok THEN Filled(pmm_alloc_page(r.k)) ELSE r

(* The loader, for a program of n pages, of which the file may turn out to *)
(* be bad after them; after 0 pages, when its header is.                   *)
load_elf_into_process(k, root, n, bad) ==
    LET load[i \in 0 .. n] == IF i = 0 THEN [k |-> k, ok |-> TRUE]
                              ELSE load_page(root, load[i - 1], i - 1)
    IN  [load[n] EXCEPT !.ok = @ /\ ~bad]

(* execve, or kernel() for init: make an address space in the slot s and   *)
(* load a program. A failure leaves the slot free and keeps the frames;    *)
(* kernel() panics.                                                        *)
Spawn(s, n, bad) ==
    /\ s \notin live
    /\ cur # Halted
    /\ n = 0 => bad            \* bound: a program has a page
    /\ LET c == create_user_pml4(K)
           l == load_elf_into_process(c.k, c.ptr, n, bad)
       IN  \/ /\ c.ptr = 0
              /\ Becomes(c.k)
              /\ cur' = IF cur = Boot THEN Halted ELSE cur
              /\ UNCHANGED <<cr3, live, pml4, heap_end, expected>>
           \/ /\ c.ptr # 0
              /\ Becomes(l.k)
              /\ pml4' = [pml4 EXCEPT ![s] = c.ptr]
              /\ heap_end' = [heap_end EXCEPT ![s] = 0]
              /\ expected' = [expected EXCEPT ![s] =
                    IF l.ok THEN [va \in {Low(LinkPage + i) : i \in 0 .. n - 1}
                                        |-> 1]
                    ELSE <<>>]
              /\ live' = IF l.ok THEN live \union {s} ELSE live
              /\ cur' = IF cur # Boot THEN cur
                        ELSE IF l.ok THEN s ELSE Halted
              /\ cr3' = IF cur = Boot /\ l.ok THEN c.ptr ELSE cr3
    /\ UNCHANGED <<dma, ports, wrapped>>

(* schedule(): activate_process() loads CR3.                               *)
Switch(p) ==
    /\ cur \in Procs
    /\ p \in live \ {cur}
    /\ cur' = p
    /\ cr3' = pml4[p]
    /\ UNCHANGED <<used, mem, fault, dropped, dma, ports, live, pml4, heap_end,
                   expected, wrapped>>

(* exit, and the switch to another process: the slot may be taken again,   *)
(* nothing is freed. After the last exit the CPU halts where it is.        *)
Exit ==
    /\ cur \in Procs
    /\ live' = live \ {cur}
    /\ \/ \E p \in live \ {cur} : cur' = p /\ cr3' = pml4[p]
       \/ live = {cur} /\ cur' = Halted /\ cr3' = cr3
    /\ UNCHANGED <<used, mem, fault, dropped, dma, ports, pml4, heap_end,
                   expected, wrapped>>

(* A program writes to a page that it owns and that is mapped: 2, which    *)
(* differs from what the loader has put there.                             *)
Store(va) ==
    /\ cur \in Procs
    /\ va \in DOMAIN expected[cur]
    /\ Walk(mem, cr3, va) # NoFrame
    /\ mem' = [mem EXCEPT ![Walk(mem, cr3, va)] = Fill(2)]
    /\ expected' = [expected EXCEPT ![cur][va] = 2]
    /\ UNCHANGED <<used, cr3, fault, dropped, dma, ports, cur, live, pml4,
                   heap_end, wrapped>>

---------------------------------------------------------------------------
(* brk. The end of a break in pages of the heap: rounding up goes round    *)
(* the end of the address space, and then page 0 is the end.               *)
PAGE_ALIGN_UP(x) == ((x + PAGE_SIZE - 1) % AddressSpace) \div PAGE_SIZE
PageEnd(b) == PAGE_ALIGN_UP(heap_start + b) - LowPages

(* Unknown contents: brk does not clear what it maps.                      *)
Unseen == 0

(* The heap page n is taken and mapped.                                    *)
grow_page(root, r, n) ==
    LET Mapped(a) ==
          IF a.ptr = 0 THEN [k |-> a.k, ok |-> FALSE]
          ELSE [k |-> vmm_map_page(a.k, root, HeapPage(n), a.ptr), ok |-> TRUE]
    IN  IF r.ok THEN Mapped(pmm_alloc_page(r.k)) ELSE r

Grow(k, root, from, to) ==
    LET grow[i \in 0 .. to - from] ==
          IF i = 0 THEN [k |-> k, ok |-> TRUE]
          ELSE grow_page(root, grow[i - 1], from + i - 1)
    IN  grow[to - from]

(* The kernel no longer runs: it has touched an address that is not mapped,*)
(* or its image is not there to execute.                                   *)
Stopped(k) == k.fault \/ \E f \in 0 .. KernelPages - 1 : At(k, f) # f

\* Mutant: the last page stays mapped.
Shrink_OneLess(k, root, from, to) ==
    LET shrink[i \in 0 .. from - to] ==
          IF i = 0 THEN k
          ELSE LET kk == shrink[i - 1] IN
               IF i = from - to \/ Stopped(kk) THEN kk
               ELSE vmm_unmap_page(kk, root, HeapPage(to + i - 1))
    IN  shrink[from - to]

Shrink(k, root, from, to) ==
    LET shrink[i \in 0 .. from - to] ==
          IF i = 0 THEN k
          ELSE LET kk == shrink[i - 1] IN
               IF Stopped(kk) THEN kk
               ELSE vmm_unmap_page(kk, root, HeapPage(to + i - 1))
    IN  shrink[from - to]

HeapOf(p) == {HeapPage(n) : n \in 0 .. PageEnd(heap_end[p]) - 1}

(* The heap grows: when the frames run out half way the break stays where  *)
(* it was and the pages already mapped stay mapped.                        *)
BrkGrows(new) ==
    /\ cur \in Procs
    /\ new # heap_end[cur] /\ PageEnd(new) >= PageEnd(heap_end[cur])
    /\ LET r == Grow(K, pml4[cur], PageEnd(heap_end[cur]), PageEnd(new))
           fresh == {HeapPage(n) :
                       n \in PageEnd(heap_end[cur]) .. PageEnd(new) - 1}
       IN  /\ Becomes(r.k)
           /\ heap_end' = IF r.ok THEN [heap_end EXCEPT ![cur] = new] ELSE heap_end
           /\ expected' = IF r.ok
                          THEN [expected EXCEPT ![cur] =
                                  [va \in DOMAIN @ \union fresh |->
                                     IF va \in fresh THEN Unseen ELSE @[va]]]
                          ELSE expected
    /\ UNCHANGED <<cr3, dma, ports, cur, live, pml4, wrapped>>

(* The heap shrinks: the pages are unmapped and their frames are lost.     *)
BrkShrinks(new) ==
    /\ cur \in Procs
    /\ 0 <= PageEnd(new) /\ PageEnd(new) < PageEnd(heap_end[cur])
    /\ LET gone == {HeapPage(n) :
                      n \in PageEnd(new) .. PageEnd(heap_end[cur]) - 1}
       IN  /\ Becomes(Shrink(K, pml4[cur], PageEnd(heap_end[cur]), PageEnd(new)))
           /\ heap_end' = [heap_end EXCEPT ![cur] = new]
           /\ expected' = [expected EXCEPT ![cur] =
                             [va \in DOMAIN @ \ gone |-> @[va]]]
    /\ UNCHANGED <<cr3, dma, ports, cur, live, pml4, wrapped>>

(* A break in the last page: the loop starts at page 0, and the machine    *)
(* stops when it has unmapped a page of the kernel. It comes out of the    *)
(* loop only if no frame was left for the page tables that splitting the   *)
(* identity map takes.                                                     *)
BrkWraps(new) ==
    /\ cur \in Procs
    /\ PageEnd(new) < 0 /\ PageEnd(new) < PageEnd(heap_end[cur])
    /\ LET r == Shrink(K, pml4[cur], PageEnd(heap_end[cur]), PageEnd(new))
       IN  /\ Becomes(r)
           /\ \/ /\ Stopped(r)
                 /\ cur' = Halted /\ live' = {}
                 /\ UNCHANGED <<heap_end, expected>>
              \/ /\ ~Stopped(r)
                 /\ heap_end' = [heap_end EXCEPT ![cur] = new]
                 /\ expected' = [expected EXCEPT ![cur] = <<>>]
                 /\ UNCHANGED <<cur, live>>
    /\ wrapped' = TRUE
    /\ UNCHANGED <<cr3, dma, ports, pml4>>

(* Where the heaps may reach.                                              *)
HeapPages == {n \in 0 .. Fan * Fan - 1 : \E b \in Breaks : n < PageEnd(b)}

Pages == {Low(LinkPage + i) : i \in 0 .. ImagePages - 1}
           \union {HeapPage(n) : n \in HeapPages}

Next ==
    \/ ahci_find_controller
    \/ ahci_port_init
    \/ \E s \in Procs, n \in 0 .. ImagePages, bad \in BOOLEAN : Spawn(s, n, bad)
    \/ \E p \in Procs : Switch(p)
    \/ Exit
    \/ \E va \in Pages : Store(va)
    \/ \E new \in Breaks : BrkGrows(new) \/ BrkShrinks(new) \/ BrkWraps(new)

Spec == Init /\ [][Next]_vars

---------------------------------------------------------------------------
(* The tables a root reaches.                                              *)
Kids(S) == {w.to : w \in {mem[f][i] : f \in S, i \in Index}
                            \intersect {Entry(f) : f \in Frames}}

Tables(root) ==
    LET Level(S) == S \union Kids(S)
    IN  Level(Level(Level({root})))

(* What the kernel reaches through pointers: its image, the registers and  *)
(* pages of the disk controller, and the tables of every process.          *)
KernelOwned ==
    (0 .. KernelPages - 1) \union dma
      \union UNION {Tables(pml4[p]) : p \in live}

Owned(p) == {va \in DOMAIN expected[p] : <<pml4[p], va>> \notin dropped}

Full == used = 0 .. MAX_PAGES - 1

(* No frame that is in use, but for those of the boot module, lies where   *)
(* programs are linked, and the disk driver has no page near them. It is   *)
(* so until the allocator gets there, and then no longer.                  *)
LinkFrames == {LinkPage + i : i \in 0 .. ImagePages - 1}

LinkFree(U, D) ==
    \A n \in LinkFrames :
        /\ n \notin (0 .. KernelPages - 1) \union (U \ ModulePages)
        /\ \A f \in D : f \div Fan # n \div Fan

TypeOK ==
    /\ used \subseteq 0 .. MAX_PAGES - 1
    /\ mem \in [Frames -> [Index -> Word]]
    /\ cr3 \in Frames
    /\ fault \in BOOLEAN
    /\ dropped \subseteq used \X VA
    /\ dma \subseteq Frames
    /\ ports \in 0 .. NPorts
    /\ cur \in Procs \union {Boot, Halted}
    /\ live \subseteq Procs
    /\ pml4 \in [Procs -> Frames]
    /\ heap_end \in [Procs -> Breaks]
    /\ \A p \in Procs : /\ DOMAIN expected[p] \subseteq VA
                        /\ \A va \in DOMAIN expected[p] :
                              expected[p][va] \in 0 .. 2
    /\ wrapped \in BOOLEAN

(* The kernel uses physical addresses as pointers. In the address space of *)
(* every process, whichever is current when a system call or an interrupt  *)
(* comes, they name the frames they mean: page tables and stacks are never *)
(* read or written in the wrong place (vmm.c: create_user_pml4 copies the  *)
(* identity map, onahci.c has changed it before). A brk to the last page   *)
(* of the address space takes the map away (BrkWraps), and the next two    *)
(* properties rest on it: all three are about runs without one.            *)
KernelReachable ==
    ~wrapped =>
    \A p \in live, f \in KernelOwned : Walk(mem, pml4[p], Low(f)) = f

(* Nobody but the program itself changes the pages of a program: not the   *)
(* loader of another program, not a brk, not the allocator giving out a    *)
(* frame or a table twice, not a slot that is taken again. As above, until *)
(* a break wraps.                                                          *)
MemoryKept ==
    ~wrapped =>
    \A p \in live : \A va \in Owned(p) :
        LET f == Walk(mem, pml4[p], va) IN
        /\ f # NoFrame
        /\ expected[p][va] # Unseen => mem[f] = Fill(expected[p][va])

(* A frame has one use: the pages of all programs are in different frames, *)
(* and none is a table or belongs to the kernel or to the disk driver. As  *)
(* above, until a break wraps.                                             *)
FramesExclusive ==
    ~wrapped =>
    \A p \in live : \A va \in Owned(p) :
        LET f == Walk(mem, pml4[p], va) IN
        /\ f \in used \ KernelOwned
        /\ \A q \in live : \A vb \in Owned(q) :
              Walk(mem, pml4[q], vb) = f => p = q /\ va = vb

(* Only when all frames are given out does vmm_map_page() fail silently,   *)
(* so that the loader or brk() reports success for a page that is not      *)
(* there, or sys_brk() return half way. Until then every page of a loaded  *)
(* program is mapped, and the heap pages that are mapped are exactly those *)
(* below the break.                                                        *)
MappedUnlessFull ==
    \/ Full
    \/ /\ dropped = {}
       /\ \A p \in live, n \in HeapPages :
            Walk(mem, pml4[p], HeapPage(n)) # NoFrame
              <=> HeapPage(n) \in HeapOf(p)
=============================================================================
