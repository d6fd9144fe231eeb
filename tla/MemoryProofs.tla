---------------------------- MODULE MemoryProofs ----------------------------
(***************************************************************************)
(* Proofs about the physical pages and the address spaces (Memory).        *)
(*                                                                         *)
(* First the types.  Then what keeps the address spaces apart: a function  *)
(* own, which no code computes, says of every frame where it hangs in the  *)
(* tables (Lab); EntryOk says for every entry of a table what may be in    *)
(* it, by the label of the table.  Fine says of a state of the kernel that *)
(* it is labelled so, Whole of a root that it has all of the identity map; *)
(* then the kernel finds what it means at its physical address (Identity), *)
(* so that what a function does is what it says it does.  Step and Change  *)
(* are what a function leaves as it is.  The lemmas go up the calls of     *)
(* vmm.c to the actions, which keep AddressInv.                            *)
(*                                                                         *)
(* All this is under LinkFree: the kernel uses no frame that lies where    *)
(* programs are linked, for there the address spaces do not have the       *)
(* identity map; and until a break wraps, which takes that map away        *)
(* (KeptInv).                                                              *)
(*                                                                         *)
(* The loops of the kernel (over the page directories it copies, the pages *)
(* of a program, of the heap and of an AHCI port) are instances of Loops,  *)
(* one for each loop and each thing it keeps.                              *)
(***************************************************************************)
EXTENDS Memory, TLAPS

-----------------------------------------------------------------------------
\* A number is quotient times divisor and remainder.
LEMMA DivMod ==
  ASSUME NEW n \in Nat, NEW F \in Nat \ {0}
  PROVE  /\ n \div F \in Nat /\ n % F \in 0 .. F - 1
         /\ n = F * (n \div F) + (n % F)
<1>1. n \div F \in Int /\ n % F \in 0 .. F - 1
  OBVIOUS
<1>2. n = F * (n \div F) + (n % F)
  OBVIOUS
<1>3. n \div F >= 0
  OBVIOUS
<1> QED BY <1>1, <1>2, <1>3

\* Quotient and remainder are the only ones.
LEMMA DivUnique ==
  ASSUME NEW F \in Nat \ {0}, NEW q \in Nat, NEW r \in 0 .. F - 1
  PROVE  (q * F + r) \div F = q /\ (q * F + r) % F = r
<1> DEFINE n == q * F + r
<1>1. q * F \in Nat /\ n \in Nat
  OBVIOUS
<1> DEFINE Q == n \div F
           R == n % F
<1>2. Q \in Nat /\ R \in 0 .. F - 1 /\ n = F * Q + R
  BY <1>1, DivMod
<1> HIDE DEF Q, R
<1>3. F * Q + R = F * q + r
  BY <1>2
<1> HIDE DEF n
<1>4. Q = q
  <2>1. CASE Q >= q + 1
    <3>1. F * Q >= F * (q + 1)
      BY <1>2, <2>1
    <3>2. F * (q + 1) = F * q + F
      OBVIOUS
    <3>3. F * Q \in Int /\ F * q \in Int
      BY <1>2
    <3> QED BY <1>2, <1>3, <3>1, <3>2, <3>3
  <2>2. CASE q >= Q + 1
    <3>1. F * q >= F * (Q + 1)
      BY <1>2, <2>2
    <3>2. F * (Q + 1) = F * Q + F
      BY <1>2
    <3>3. F * Q \in Int /\ F * q \in Int
      BY <1>2
    <3> QED BY <1>2, <1>3, <3>1, <3>2, <3>3
  <2> QED BY <1>2, <2>1, <2>2
<1>5. R = r
  <2>1. F * q \in Int
    OBVIOUS
  <2> QED BY <1>2, <1>3, <1>4, <2>1
<1> QED BY <1>4, <1>5 DEF Q, R, n
-----------------------------------------------------------------------------
\* The frame that the identity map has at the entries b, c and d.
Nth(b, c, d) == (b * Fan + c) * Fan + d

\* The sizes of the tables and of memory, from the assumptions.
LEMMA Sizes ==
  /\ Fan \in Nat \ {0, 1} /\ Fan \in Nat \ {0} /\ NPD \in 1 .. Fan /\ NPD \in Nat
  /\ 0 \in Index /\ 1 \in Index /\ Index \subseteq Nat
  /\ Frames = 0 .. NPD * Fan * Fan - 1 /\ NPD * Fan * Fan \in Nat
  /\ \A b \in 0 .. NPD - 1 : b \in Index
  /\ KernelPages \in Nat /\ MAX_PAGES \in Nat /\ 3 + NPD <= KernelPages
  /\ KernelPages <= MAX_PAGES /\ 0 .. MAX_PAGES - 1 \subseteq Frames
  /\ 0 .. KernelPages - 1 \subseteq 0 .. MAX_PAGES - 1
  /\ MmioPage \in Frames /\ MmioPage \notin 0 .. MAX_PAGES - 1
<1>1. Fan \in Nat \ {0, 1} /\ Fan \in Nat \ {0} /\ NPD \in 1 .. Fan /\ NPD \in Nat
  BY MemoryAssumption
<1>2. NPD * Fan \in Nat
  BY <1>1
<1>3. NPD * Fan * Fan \in Nat
  BY <1>1, <1>2
<1>4. /\ KernelPages \in 3 + NPD .. MAX_PAGES
      /\ MAX_PAGES - 1 \in Frames
      /\ MmioPage \in Frames /\ MmioPage >= MAX_PAGES
  BY MemoryAssumption
<1>5. Frames = 0 .. NPD * Fan * Fan - 1
  BY DEF Frames
<1> DEFINE all == NPD * Fan * Fan
<1> HIDE DEF all
<1>6. all \in Nat /\ Frames = 0 .. all - 1
  BY <1>3, <1>5 DEF all
<1>7. MAX_PAGES \in Nat
  BY MemoryAssumption
<1>8. /\ KernelPages \in Nat /\ MAX_PAGES \in Nat /\ 3 + NPD <= KernelPages
      /\ KernelPages <= MAX_PAGES /\ 0 .. MAX_PAGES - 1 \subseteq Frames
      /\ 0 .. KernelPages - 1 \subseteq 0 .. MAX_PAGES - 1
      /\ MmioPage \in Frames /\ MmioPage \notin 0 .. MAX_PAGES - 1
  BY <1>1, <1>4, <1>6, <1>7
<1>9. /\ 0 \in Index /\ 1 \in Index /\ Index \subseteq Nat
      /\ \A b \in 0 .. NPD - 1 : b \in Index
  BY <1>1 DEF Index
<1> QED BY <1>1, <1>3, <1>5, <1>8, <1>9

\* Low() takes the number of a frame apart.
LEMMA LowOfNth ==
  ASSUME NEW b \in 0 .. NPD - 1, NEW c \in Index, NEW d \in Index
  PROVE  /\ Nth(b, c, d) \in Frames
         /\ Low(Nth(b, c, d)) = <<0, b, c, d>>
         /\ Nth(b, c, d) \div Fan = b * Fan + c
<1>1. /\ Fan \in Nat \ {0} /\ b \in Nat /\ c \in 0 .. Fan - 1 /\ d \in 0 .. Fan - 1
      /\ NPD \in Nat /\ b + 1 <= NPD
  BY Sizes DEF Index
<1> DEFINE q == b * Fan + c
           n == q * Fan + d
<1>2. q \in Nat /\ q + 1 <= NPD * Fan
  <2>1. (b + 1) * Fan = b * Fan + Fan /\ b * Fan \in Nat
    BY <1>1
  <2>2. (b + 1) * Fan <= NPD * Fan
    BY <1>1
  <2>3. NPD * Fan \in Nat
    BY <1>1
  <2> QED BY <1>1, <2>1, <2>2, <2>3
<1> HIDE DEF q
<1>3. n \in Nat /\ n + 1 <= NPD * Fan * Fan
  <2> DEFINE N == NPD * Fan
  <2>0. N \in Nat /\ q + 1 <= N
    BY <1>1, <1>2
  <2> HIDE DEF N
  <2>1. (q + 1) * Fan = q * Fan + Fan /\ q * Fan \in Nat
    BY <1>1, <1>2
  <2>2. (q + 1) * Fan <= N * Fan
    BY <1>1, <1>2, <2>0
  <2>3. N * Fan \in Nat
    BY <1>1, <2>0
  <2>4. n + 1 <= N * Fan
    BY <1>1, <1>2, <2>1, <2>2, <2>3
  <2> QED BY <1>1, <1>2, <2>1, <2>4 DEF N
<1>4. n \div Fan = q /\ n % Fan = d
  BY <1>1, <1>2, DivUnique
<1>5. q \div Fan = b /\ q % Fan = c
  BY <1>1, DivUnique DEF q
<1>6. n \div (Fan * Fan) = b
  <2> DEFINE F2 == Fan * Fan
             r == c * Fan + d
  <2>1. F2 \in Nat \ {0}
    BY <1>1
  <2>2. r \in 0 .. F2 - 1
    <3>1. c * Fan \in Nat /\ (c + 1) * Fan = c * Fan + Fan
      BY <1>1
    <3>2. (c + 1) * Fan <= Fan * Fan
      BY <1>1
    <3> QED BY <1>1, <2>1, <3>1, <3>2
  <2>3. n = b * F2 + r
    <3>1. q * Fan = (b * Fan) * Fan + c * Fan
      BY <1>1 DEF q
    <3>2. (b * Fan) * Fan = b * (Fan * Fan)
      BY <1>1
    <3>3. b * (Fan * Fan) \in Int /\ c * Fan \in Int
      BY <1>1
    <3> QED BY <1>1, <3>1, <3>2, <3>3
  <2> HIDE DEF F2, r, n
  <2>4. (b * F2 + r) \div F2 = b
    BY <1>1, <2>1, <2>2, DivUnique
  <2> QED BY <2>3, <2>4 DEF F2
<1>7. n \in Frames
  <2> HIDE DEF n
  <2> QED BY <1>3, Sizes
<1>8. n = Nth(b, c, d)
  BY DEF Nth, q
<1> HIDE DEF n
<1> QED BY <1>4, <1>5, <1>6, <1>7, <1>8 DEF Low, q

\* Every frame is in the identity map, once.
LEMMA NthOfFrame ==
  ASSUME NEW n \in Frames
  PROVE  \E b \in 0 .. NPD - 1, c \in Index, d \in Index : n = Nth(b, c, d)
<1>1. Fan \in Nat \ {0} /\ NPD \in Nat /\ n \in Nat /\ n + 1 <= NPD * Fan * Fan
  BY Sizes
<1> DEFINE q == n \div Fan
           d == n % Fan
           b == q \div Fan
           c == q % Fan
<1>2. q \in Nat /\ d \in 0 .. Fan - 1 /\ n = Fan * q + d
  BY <1>1, DivMod
<1> HIDE DEF q, d
<1>3. b \in Nat /\ c \in 0 .. Fan - 1 /\ q = Fan * b + c
  BY <1>1, <1>2, DivMod
<1> HIDE DEF b, c
<1>4. n = Nth(b, c, d)
  BY <1>1, <1>2, <1>3 DEF Nth
<1>5. b <= NPD - 1
  <2> SUFFICES ASSUME b >= NPD PROVE FALSE
    BY <1>1, <1>3
  <2>1. Fan * b >= Fan * NPD
    BY <1>1, <1>3
  <2>2. q >= Fan * NPD
    <3>1. Fan * b \in Int /\ Fan * NPD \in Int
      BY <1>1, <1>3
    <3> QED BY <1>1, <1>3, <2>1, <3>1
  <2> DEFINE N == Fan * NPD
  <2>3. N \in Nat
    BY <1>1
  <2> HIDE DEF N
  <2>4. Fan * q >= Fan * N
    BY <1>1, <1>2, <2>2, <2>3 DEF N
  <2>5. Fan * N = NPD * Fan * Fan
    <3>1. NPD * Fan = Fan * NPD
      BY <1>1
    <3>2. NPD * Fan * Fan = N * Fan
      BY <3>1 DEF N
    <3> QED BY <1>1, <2>3, <3>2
  <2>6. Fan * q \in Int /\ Fan * N \in Int
    BY <1>1, <1>2, <2>3
  <2> QED BY <1>1, <1>2, <2>4, <2>5, <2>6
<1> QED BY <1>1, <1>2, <1>3, <1>4, <1>5 DEF Index

\* The entries of a frame are its own.
LEMMA NthUnique ==
  ASSUME NEW b \in 0 .. NPD - 1, NEW c \in Index, NEW d \in Index,
         NEW b2 \in 0 .. NPD - 1, NEW c2 \in Index, NEW d2 \in Index,
         Nth(b, c, d) = Nth(b2, c2, d2)
  PROVE  b = b2 /\ c = c2 /\ d = d2
<1>1. <<0, b, c, d>> = <<0, b2, c2, d2>>
  BY LowOfNth
<1> QED BY <1>1

-----------------------------------------------------------------------------
(* Types.                                                                  *)

\* An entry that is present leads to a frame; a huge one to as many as a table.
GoodWord == {w \in Word : /\ w.p => w.to \in Frames
                          /\ w.h => w.p /\ w.to + (Fan - 1) \in Frames}

Mems == [Frames -> [Index -> GoodWord]]

KStates == [used : SUBSET (0 .. MAX_PAGES - 1), mem : Mems, cr3 : Frames,
            fault : BOOLEAN, dropped : SUBSET (Frames \X VA)]

Image == 0 .. KernelPages - 1

Typed(k) == /\ k \in KStates
            /\ Image \union ModulePages \subseteq k.used
            /\ k.dropped \subseteq k.used \X VA

\* What every function of the kernel keeps.
TStep(k, r) == Typed(r) /\ k.used \subseteq r.used /\ r.cr3 = k.cr3

\* TStep is reflexive and transitive.
LEMMA TStepRefl == ASSUME NEW k, Typed(k) PROVE TStep(k, k)
BY DEF TStep

\* What is kept by two steps is kept by both.
LEMMA TStepTrans ==
  ASSUME NEW k, NEW l, NEW r, TStep(k, l), TStep(l, r) PROVE TStep(k, r)
BY DEF TStep

\* The words the kernel writes, and the parts of a word.
LEMMA GoodWords ==
  /\ Zero \in GoodWord
  /\ \A f \in Frames : Entry(f) \in GoodWord
  /\ \A d \in Nat : [p |-> FALSE, h |-> FALSE, to |-> d] \in GoodWord
  /\ \A w \in GoodWord : /\ w.p \in BOOLEAN /\ w.h \in BOOLEAN /\ w.to \in Nat
                         /\ w = [p |-> w.p, h |-> w.h, to |-> w.to]
                         /\ w.p => w.to \in Frames
                         /\ w.h => w.p /\ w.to + (Fan - 1) \in Frames
<1>1. Frames \subseteq Nat
  BY Sizes
<1>2. Zero \in GoodWord
  BY 0 \in Nat DEF GoodWord, Word, Zero
<1>3. \A f \in Frames : Entry(f) \in GoodWord
  BY <1>1 DEF GoodWord, Word, Entry
<1>4. \A d \in Nat : [p |-> FALSE, h |-> FALSE, to |-> d] \in GoodWord
  BY DEF GoodWord, Word
<1>5. ASSUME NEW w \in GoodWord
      PROVE  /\ w.p \in BOOLEAN /\ w.h \in BOOLEAN /\ w.to \in Nat
             /\ w = [p |-> w.p, h |-> w.h, to |-> w.to]
             /\ w.p => w.to \in Frames
             /\ w.h => w.p /\ w.to + (Fan - 1) \in Frames
  BY DEF GoodWord, Word
<1> QED BY <1>2, <1>3, <1>4, <1>5

\* No frame is no frame; the null pointer is the number of one.
LEMMA NoFrameIsNone == NoFrame \notin Frames /\ Frames \subseteq Nat /\ 0 \in Frames
<1>1. 0 \in 0 .. MAX_PAGES - 1
  BY Sizes
<1> QED BY <1>1, Sizes DEF NoFrame

\* Four entries are a virtual page, and its parts are entries.
LEMMA VaMember ==
  ASSUME NEW a \in Index, NEW b \in Index, NEW c \in Index, NEW d \in Index
  PROVE  <<a, b, c, d>> \in VA
BY DEF VA

\* The pages below the heap are four entries.
LEMMA LowVA ==
  /\ Fan * Fan \in Nat \ {0} /\ LowPages \in Nat /\ LowPages = (Fan * Fan) * Fan
  /\ \A n \in 0 .. LowPages - 1 : Low(n) \in VA
<1>1. Fan \in Nat \ {0} /\ Index = 0 .. Fan - 1 /\ 0 \in Index
  BY Sizes DEF Index
<1>2. PICK S : S = Fan * Fan
  OBVIOUS
<1>3. S \in Nat \ {0} /\ S * Fan \in Nat /\ LowPages = S * Fan
  BY <1>1, <1>2 DEF LowPages
<1>4. ASSUME NEW n \in 0 .. LowPages - 1 PROVE Low(n) \in VA
  <2>1. n \in Nat /\ n + 1 <= S * Fan
    BY <1>3
  <2>2. n % Fan \in Index /\ (n \div Fan) % Fan \in Index
    <3>1. n \div Fan \in Nat /\ n % Fan \in 0 .. Fan - 1
      BY <1>1, <2>1, DivMod
    <3> QED BY <1>1, <3>1, DivMod
  <2> DEFINE q == n \div S
  <2>3. q \in Nat /\ n >= S * q
    <3> DEFINE r == n % S
    <3>1. q \in Nat /\ r \in 0 .. S - 1 /\ n = S * q + r
      BY <1>3, <2>1, DivMod
    <3> HIDE DEF q, r
    <3>2. S * q \in Int
      BY <1>3, <3>1
    <3> QED BY <1>3, <3>1, <3>2
  <2> HIDE DEF q
  <2>4. ~(q >= Fan)
    <3> SUFFICES ASSUME q >= Fan PROVE FALSE
      OBVIOUS
    <3>1. S * q >= S * Fan /\ S * q \in Int
      BY <1>1, <1>3, <2>3
    <3> QED BY <1>3, <2>1, <2>3, <3>1
  <2>5. q \in Index
    BY <1>1, <2>3, <2>4
  <2>6. Low(n) = <<0, q, (n \div Fan) % Fan, n % Fan>>
    BY <1>2 DEF Low, q
  <2> QED BY <1>1, <2>2, <2>5, <2>6, VaMember
<1> QED BY <1>2, <1>3, <1>4

\* Pages of programs are four entries.
LEMMA MappingVA ==
  /\ Pages \subseteq VA
  /\ \A n \in Frames : Low(n) \in VA
  /\ \A i \in 0 .. ImagePages - 1 :
       LinkPage + i \in Frames /\ Low(LinkPage + i) \in Pages
  /\ \A n \in HeapPages :
       /\ HeapPage(n) \in Pages
       /\ n \div Fan \in Index /\ n % Fan \in Index
       /\ HeapPage(n) = <<1, 0, n \div Fan, n % Fan>>
<1>1. ASSUME NEW n \in Frames PROVE Low(n) \in VA
  <2>1. PICK b \in 0 .. NPD - 1, c \in Index, d \in Index : n = Nth(b, c, d)
    BY NthOfFrame
  <2>2. Low(n) = <<0, b, c, d>>
    BY <2>1, LowOfNth
  <2> QED BY <2>2, Sizes, VaMember
<1>2. ASSUME NEW i \in 0 .. ImagePages - 1 PROVE LinkPage + i \in Frames
  <2>1. LinkPage \in Nat /\ ImagePages \in Nat /\ LinkPage + ImagePages - 1 \in Frames
    BY MemoryAssumption
  <2>2. Frames = 0 .. NPD * Fan * Fan - 1 /\ NPD * Fan * Fan \in Nat
    BY Sizes
  <2> QED BY <2>1, <2>2
<1>3. ASSUME NEW n \in HeapPages
      PROVE  n \in Nat /\ n \div Fan \in Index /\ n % Fan \in Index
  <2>1. n \in 0 .. Fan * Fan - 1 /\ Fan \in Nat \ {0}
    BY Sizes DEF HeapPages
  <2>2. Fan * Fan \in Nat
    BY <2>1
  <2>3. n \in Nat /\ n + 1 <= Fan * Fan
    BY <2>1, <2>2
  <2> DEFINE q == n \div Fan
             r == n % Fan
  <2>4. q \in Nat /\ r \in 0 .. Fan - 1 /\ n = Fan * q + r
    BY <2>1, <2>3, DivMod
  <2> HIDE DEF q, r
  <2>5. ~(q >= Fan)
    <3> SUFFICES ASSUME q >= Fan PROVE FALSE
      OBVIOUS
    <3>1. Fan * q >= Fan * Fan /\ Fan * q \in Int
      BY <2>1, <2>4
    <3> QED BY <2>1, <2>2, <2>3, <2>4, <3>1
  <2> QED BY <2>1, <2>3, <2>4, <2>5 DEF Index, q, r
<1>4. ASSUME NEW n \in HeapPages
      PROVE  HeapPage(n) = <<1, 0, n \div Fan, n % Fan>> /\ HeapPage(n) \in VA
  <2>1. n \in Nat /\ n \div Fan \in Index /\ n % Fan \in Index
    BY <1>3
  <2>2. HeapPage(n) = <<1, 0, n \div Fan, n % Fan>>
    BY <2>1 DEF HeapPage
  <2> QED BY <2>1, <2>2, Sizes, VaMember
<1>5. \A i \in 0 .. ImagePages - 1 : Low(LinkPage + i) \in Pages
  BY DEF Pages
<1>6. \A n \in HeapPages : HeapPage(n) \in Pages
  BY DEF Pages
<1>7. Pages \subseteq VA
  BY <1>1, <1>2, <1>4 DEF Pages
<1> QED BY <1>1, <1>2, <1>3, <1>4, <1>5, <1>6, <1>7

\* The parts of a virtual page are entries.
LEMMA VaParts ==
  ASSUME NEW va \in VA
  PROVE  va[1] \in Index /\ va[2] \in Index /\ va[3] \in Index /\ va[4] \in Index
BY DEF VA

\* An entry that is present has words below it.
LEMMA BelowTyped ==
  ASSUME NEW m \in Mems, NEW e \in GoodWord, NEW i \in Index
  PROVE  Below(m, e, i) \in GoodWord
BY GoodWords DEF Below, Mems

\* The hardware finds a frame or none.
LEMMA WalkTyped ==
  ASSUME NEW m \in Mems, NEW root \in Frames, NEW va \in VA
  PROVE  Walk(m, root, va) \in Frames \union {NoFrame}
<1>1. va[1] \in Index /\ va[2] \in Index /\ va[3] \in Index /\ va[4] \in Index
  BY VaParts
<1> DEFINE e1 == m[root][va[1]]
           e2 == Below(m, e1, va[2])
           e3 == Below(m, e2, va[3])
           e4 == Below(m, e3, va[4])
<1>2. e1 \in GoodWord
  BY <1>1 DEF Mems
<1> HIDE DEF e1
<1>3. e2 \in GoodWord
  BY <1>1, <1>2, BelowTyped
<1> HIDE DEF e2
<1>4. e3 \in GoodWord
  BY <1>1, <1>3, BelowTyped
<1> HIDE DEF e3
<1>5. e4 \in GoodWord
  BY <1>1, <1>4, BelowTyped
<1> HIDE DEF e4
<1>6. Walk(m, root, va) = IF e3.h THEN e3.to + va[4]
                          ELSE IF ~e4.p THEN NoFrame ELSE e4.to
  BY DEF Walk, e1, e2, e3, e4
<1>7. CASE e3.h
  <2>1. e3.to \in Frames /\ e3.to + (Fan - 1) \in Frames
    BY <1>4, <1>7, GoodWords
  <2>2. Frames = 0 .. NPD * Fan * Fan - 1 /\ NPD * Fan * Fan \in Nat
    BY Sizes
  <2>3. va[4] \in 0 .. Fan - 1 /\ Fan \in Nat
    BY <1>1, Sizes DEF Index
  <2> DEFINE N == NPD * Fan * Fan
  <2> HIDE DEF N
  <2>4. Frames = 0 .. N - 1 /\ N \in Nat
    BY <2>2 DEF N
  <2>5. e3.to + va[4] \in Frames
    BY <2>1, <2>3, <2>4
  <2> QED BY <1>6, <1>7, <2>5
<1>8. CASE ~e3.h
  BY <1>5, <1>6, <1>8, GoodWords
<1> QED BY <1>7, <1>8
-----------------------------------------------------------------------------
(* Every function of the kernel keeps the types and gives no frame back.   *)

\* One word of the memory, or a page of it, is replaced.
LEMMA MemPut ==
  ASSUME NEW m \in Mems, NEW f \in Frames, NEW i \in Index, NEW w \in GoodWord
  PROVE  LET n == [m EXCEPT ![f][i] = w]
         IN  /\ n \in Mems
             /\ \A g \in Frames \ {f} : n[g] = m[g]
             /\ \A j \in Index \ {i} : n[f][j] = m[f][j]
             /\ n[f][i] = w
<1> DEFINE row == [m[f] EXCEPT ![i] = w]
           n == [m EXCEPT ![f] = row]
<1>1. row \in [Index -> GoodWord] /\ row[i] = w /\ \A j \in Index \ {i} : row[j] = m[f][j]
  BY DEF Mems
<1> HIDE DEF row
<1>2. n \in Mems /\ n[f] = row /\ \A g \in Frames \ {f} : n[g] = m[g]
  BY <1>1 DEF Mems
<1>3. [m EXCEPT ![f][i] = w] = n
  BY DEF row
<1> HIDE DEF n
<1> QED BY <1>1, <1>2, <1>3

\* A page of the memory is replaced.
LEMMA MemPutPage ==
  ASSUME NEW m \in Mems, NEW f \in Frames, NEW page \in [Index -> GoodWord]
  PROVE  LET n == [m EXCEPT ![f] = page]
         IN  /\ n \in Mems
             /\ \A g \in Frames \ {f} : n[g] = m[g]
             /\ n[f] = page
BY DEF Mems

\* The parts of a state.
LEMMA StateParts ==
  ASSUME NEW k, Typed(k)
  PROVE  /\ k \in KStates /\ k.mem \in Mems /\ k.cr3 \in Frames
         /\ k.used \subseteq 0 .. MAX_PAGES - 1 /\ k.fault \in BOOLEAN
         /\ k.used \subseteq Frames
         /\ k.dropped \subseteq Frames \X VA
BY Sizes DEF Typed, KStates

\* A state with another memory.
LEMMA NewMem ==
  ASSUME NEW k, Typed(k), NEW m \in Mems
  PROVE  LET r == [k EXCEPT !.mem = m]
         IN  TStep(k, r) /\ r.mem = m /\ r.used = k.used /\ r.dropped = k.dropped
BY DEF Typed, TStep, KStates

\* A state in which the kernel has gone astray.
LEMMA NewFault ==
  ASSUME NEW k, Typed(k)
  PROVE  TStep(k, [k EXCEPT !.fault = TRUE])
BY DEF Typed, TStep, KStates

\* Where an access goes, and what it reads.
LEMMA AtTyped ==
  ASSUME NEW k, Typed(k), NEW f \in Frames
  PROVE  At(k, f) \in Frames \union {NoFrame}
<1>1. Low(f) \in VA
  BY MappingVA
<1> QED BY <1>1, StateParts, WalkTyped DEF At

\* What is read is a word.
LEMMA ReadTyped ==
  ASSUME NEW k, Typed(k), NEW f \in Frames, NEW i \in Index
  PROVE  Read(k, f, i) \in GoodWord
<1>1. k.mem \in [Frames -> [Index -> GoodWord]]
  BY StateParts DEF Mems
<1> QED BY <1>1, AtTyped, GoodWords DEF Read

\* A write changes the memory or is a fault.
LEMMA WriteTyped ==
  ASSUME NEW k, Typed(k), NEW f \in Frames, NEW i \in Index, NEW w \in GoodWord
  PROVE  TStep(k, Write(k, f, i, w))
<1>1. CASE At(k, f) = NoFrame
  BY <1>1, NewFault DEF Write
<1>2. CASE At(k, f) # NoFrame
  <2>1. At(k, f) \in Frames
    BY <1>2, AtTyped
  <2>2. [k.mem EXCEPT ![At(k, f)][i] = w] \in Mems
    BY <2>1, StateParts, MemPut
  <2>3. TStep(k, [k EXCEPT !.mem = [k.mem EXCEPT ![At(k, f)][i] = w]])
    BY <2>2, NewMem
  <2> QED BY <1>2, <2>3 DEF Write
<1> QED BY <1>1, <1>2

\* A page is written, or it is a fault.
LEMMA WritePageTyped ==
  ASSUME NEW k, Typed(k), NEW f \in Frames, NEW page \in [Index -> GoodWord]
  PROVE  TStep(k, WritePage(k, f, page))
<1>1. CASE At(k, f) = NoFrame
  BY <1>1, NewFault DEF WritePage
<1>2. CASE At(k, f) # NoFrame
  <2>1. At(k, f) \in Frames
    BY <1>2, AtTyped
  <2>2. [k.mem EXCEPT ![At(k, f)] = page] \in Mems
    BY <2>1, StateParts, MemPutPage
  <2>3. TStep(k, [k EXCEPT !.mem = [k.mem EXCEPT ![At(k, f)] = page]])
    BY <2>2, NewMem
  <2> QED BY <1>2, <2>3 DEF WritePage
<1> QED BY <1>1, <1>2

\* Pages of data.
LEMMA PagesTyped ==
  /\ ZeroPage \in [Index -> GoodWord]
  /\ \A d \in Nat : Fill(d) \in [Index -> GoodWord]
BY GoodWords DEF ZeroPage, Fill

-----------------------------------------------------------------------------
(* The loops of the kernel, and what is true of the types before each of   *)
(* their rounds.                                                           *)

\* The root of a new address space.
RootPage(k) == pmm_alloc_page(k)

\* Round i of each loop.
CopyRound(p, r, i) == copy_pd(r, i - 1)
LoadRound(p, r, i) == load_page(p.root, r, i - 1)
GrowRound(p, r, i) == grow_page(p.root, r, p.from + i - 1)
ShrinkRound(p, r, i) == IF Stopped(r) THEN r
                        ELSE vmm_unmap_page(r, p.root, HeapPage(p.to + i - 1))
PortRound(p, r, i) == alloc_mapped_page(r)

CopyTyped(p, r, i) ==
  /\ r = [k |-> r.k, ptr |-> r.ptr, pdp |-> r.pdp]
  /\ TStep(p, r.k) /\ r.ptr \in r.k.used \union {0} /\ r.pdp \in Frames
  /\ r.ptr \in {0, RootPage(p).ptr}
LoadTyped(p, r, i) ==
  /\ r = [k |-> r.k, ok |-> r.ok] /\ r.ok \in BOOLEAN
  /\ TStep(p.k, r.k)
ShrinkTyped(p, r, i) == TStep(p.k, r)
PortTyped(p, r, i) ==
  /\ r = [k |-> r.k, got |-> r.got] /\ TStep(p, r.k)
  /\ r.got \subseteq r.k.used

CopyT == INSTANCE Loops WITH Round <- CopyRound, Good <- CopyTyped
LoadT == INSTANCE Loops WITH Round <- LoadRound, Good <- LoadTyped
GrowT == INSTANCE Loops WITH Round <- GrowRound, Good <- LoadTyped
ShrinkT == INSTANCE Loops WITH Round <- ShrinkRound, Good <- ShrinkTyped
PortT == INSTANCE Loops WITH Round <- PortRound, Good <- PortTyped

\* The least number of a set that is not empty is in it.
LEMMA LeastIsThere ==
  ASSUME NEW T, T \subseteq Nat, T # {}
  PROVE  Min(T) \in T
<1>1. \E n \in T : \A j \in T : n <= j
  BY CopyT!LeastNatural
<1> QED BY <1>1 DEF Min

\* The allocator gives a frame that is not in use, never the frame 0, or the
\* null pointer when there is none.
LEMMA Allocating ==
  ASSUME NEW k, Typed(k)
  PROVE  LET r == pmm_alloc_page(k)
         IN  /\ TStep(k, r.k)
             /\ r.ptr \in Frames
             /\ r.k.mem = k.mem /\ r.k.dropped = k.dropped
             /\ \/ r.ptr = 0 /\ r.k = k /\ k.used = 0 .. MAX_PAGES - 1
                \/ /\ r.ptr # 0 /\ r.ptr \in 0 .. MAX_PAGES - 1
                   /\ r.ptr \notin k.used /\ r.k.used = k.used \union {r.ptr}
<1> DEFINE free == (0 .. MAX_PAGES - 1) \ k.used
           r == pmm_alloc_page(k)
<1>1. CASE free = {}
  <2>1. r = [k |-> k, ptr |-> 0]
    BY <1>1 DEF pmm_alloc_page
  <2>2. k.used = 0 .. MAX_PAGES - 1
    BY <1>1, StateParts
  <2> QED BY <2>1, <2>2, TStepRefl, NoFrameIsNone
<1>2. CASE free # {}
  <2> DEFINE f == Min(free)
  <2>1. free \subseteq Nat
    BY Sizes
  <2>2. f \in free
    BY <1>2, <2>1, LeastIsThere
  <2>3. 0 \in k.used
    BY Sizes DEF Typed, Image
  <2>4. r = [k |-> [k EXCEPT !.used = @ \union {f}], ptr |-> f]
    BY <1>2 DEF pmm_alloc_page
  <2> HIDE DEF f, r
  <2>5. r.ptr = f /\ r.k = [k EXCEPT !.used = @ \union {f}]
    BY <2>4
  <2>6. f \in 0 .. MAX_PAGES - 1 /\ f \notin k.used /\ f # 0 /\ f \in Frames
    BY <2>2, <2>3, Sizes
  <2>7. /\ r.k.used = k.used \union {f} /\ r.k.mem = k.mem /\ r.k.cr3 = k.cr3
        /\ r.k.dropped = k.dropped /\ r.k \in KStates
    BY <2>5, <2>6, StateParts DEF KStates
  <2>8. TStep(k, r.k)
    BY <2>7 DEF Typed, TStep
  <2> QED BY <2>5, <2>6, <2>7, <2>8 DEF r
<1> QED BY <1>1, <1>2
\* A function that gives a pointer.
RStep(k, r) == TStep(k, r.k) /\ r.ptr \in Frames

\* A table is made, cleared and linked.
LEMMA NewTableTyped ==
  ASSUME NEW k, NEW r, RStep(k, r), NEW t \in Frames, NEW i \in Index
  PROVE  RStep(k, NewTable(r, t, i)) /\ NewTable(r, t, i).ptr = r.ptr
<1>1. CASE r.ptr = 0
  BY <1>1 DEF NewTable
<1>2. CASE r.ptr # 0
  <2> DEFINE l == WritePage(r.k, r.ptr, ZeroPage)
             n == Write(l, t, i, Entry(r.ptr))
  <2>1. Typed(r.k) /\ r.ptr \in Frames
    BY DEF RStep, TStep
  <2>2. TStep(r.k, l)
    BY <2>1, PagesTyped, WritePageTyped
  <2> HIDE DEF l
  <2>3. TStep(l, n)
    BY <2>1, <2>2, GoodWords, WriteTyped DEF TStep
  <2> HIDE DEF n
  <2>4. NewTable(r, t, i) = [k |-> n, ptr |-> r.ptr]
    BY <1>2 DEF NewTable, l, n
  <2>5. TStep(k, n)
    BY <2>2, <2>3, TStepTrans DEF RStep
  <2> QED BY <2>1, <2>4, <2>5 DEF RStep
<1> QED BY <1>1, <1>2

\* The next level of the tables is found or made.
LEMMA NextLevelTyped ==
  ASSUME NEW k, Typed(k), NEW t \in Frames, NEW i \in Index, NEW allocate \in BOOLEAN
  PROVE  RStep(k, get_next_level(k, t, i, allocate))
<1> DEFINE w == Read(k, t, i)
           g == get_next_level(k, t, i, allocate)
           a == pmm_alloc_page(k)
<1>1. w \in GoodWord
  BY ReadTyped
<1>2. RStep(k, a)
  BY Allocating DEF RStep
<1>3. RStep(k, NewTable(a, t, i))
  BY <1>2, NewTableTyped
<1> HIDE DEF a
<1>4. g = IF w.p THEN [k |-> k, ptr |-> IF w.h THEN 0 ELSE w.to]
          ELSE IF ~allocate THEN [k |-> k, ptr |-> 0] ELSE NewTable(a, t, i)
  BY DEF get_next_level, a
<1> HIDE DEF w, g
<1>5. CASE w.p
  <2>1. g = [k |-> k, ptr |-> IF w.h THEN 0 ELSE w.to]
    BY <1>4, <1>5
  <2>2. (IF w.h THEN 0 ELSE w.to) \in Frames
    BY <1>1, <1>5, GoodWords, NoFrameIsNone
  <2> QED BY <2>1, <2>2, TStepRefl DEF RStep, g
<1>6. CASE ~w.p /\ ~allocate
  <2>1. g = [k |-> k, ptr |-> 0]
    BY <1>4, <1>6
  <2> QED BY <2>1, NoFrameIsNone, TStepRefl DEF RStep, g
<1>7. CASE ~w.p /\ allocate
  BY <1>3, <1>4, <1>7 DEF g
<1> QED BY <1>5, <1>6, <1>7

\* A huge entry is split.
LEMMA SplitTyped ==
  ASSUME NEW k, Typed(k), NEW t \in Frames, NEW i \in Index, Read(k, t, i).h
  PROVE  RStep(k, split_huge_pde(k, t, i))
<1> DEFINE w == Read(k, t, i)
           a == pmm_alloc_page(k)
           page == [j \in Index |-> Entry(w.to + j)]
           l == WritePage(a.k, a.ptr, page)
           n == Write(l, t, i, Entry(a.ptr))
<1>1. w \in GoodWord
  BY ReadTyped
<1>2. page \in [Index -> GoodWord]
  <2>1. w.to \in Frames /\ w.to + (Fan - 1) \in Frames
    BY <1>1, GoodWords
  <2> HIDE DEF w
  <2> DEFINE N == NPD * Fan * Fan
  <2>2. Frames = 0 .. N - 1 /\ N \in Nat
    BY Sizes
  <2> HIDE DEF N
  <2>3. \A j \in Index : w.to + j \in Frames
    BY <2>1, <2>2, Sizes DEF Index
  <2>4. \A j \in Index : Entry(w.to + j) \in GoodWord
    BY <2>3, GoodWords
  <2> QED BY <2>4
<1>3. split_huge_pde(k, t, i) = IF a.ptr = 0 THEN a ELSE [k |-> n, ptr |-> a.ptr]
  BY DEF split_huge_pde
<1>4. RStep(k, a)
  BY Allocating DEF RStep
<1>5. Typed(a.k) /\ a.ptr \in Frames
  BY <1>4 DEF RStep, TStep
<1> HIDE DEF w, a, page
<1>6. TStep(a.k, l)
  BY <1>2, <1>5, WritePageTyped
<1> HIDE DEF l
<1>7. TStep(l, n)
  BY <1>5, <1>6, GoodWords, WriteTyped DEF TStep
<1> HIDE DEF n
<1>8. TStep(k, n)
  BY <1>4, <1>6, <1>7, TStepTrans DEF RStep
<1> QED BY <1>3, <1>4, <1>5, <1>8 DEF RStep

\* The page table of an address is found or made.
LEMMA PageTableTyped ==
  ASSUME NEW k, Typed(k), NEW t \in Frames, NEW i \in Index, NEW allocate \in BOOLEAN
  PROVE  RStep(k, PageTable(k, t, i, allocate))
BY NextLevelTyped, SplitTyped DEF PageTable

\* A function that gives a pointer after one that keeps the types.
LEMMA RStepTrans ==
  ASSUME NEW k, NEW l, NEW r, TStep(k, l), RStep(l, r) PROVE RStep(k, r)
BY TStepTrans DEF RStep

\* A page of a root is remembered as dropped, or no more.
LEMMA NewDropped ==
  ASSUME NEW k, Typed(k), NEW root \in k.used, NEW va \in VA
  PROVE  /\ TStep(k, [k EXCEPT !.dropped = @ \union {<<root, va>>}])
         /\ TStep(k, [k EXCEPT !.dropped = @ \ {<<root, va>>}])
<1>1. k \in KStates /\ root \in Frames /\ k.dropped \subseteq k.used \X VA
  BY StateParts DEF Typed
<1>2. k.dropped \in SUBSET (Frames \X VA)
  BY <1>1, StateParts
<1> DEFINE D1 == k.dropped \union {<<root, va>>}
           D2 == k.dropped \ {<<root, va>>}
<1>3. /\ D1 \subseteq k.used \X VA /\ D1 \in SUBSET (Frames \X VA)
      /\ D2 \subseteq k.used \X VA /\ D2 \in SUBSET (Frames \X VA)
  BY <1>1, <1>2
<1> HIDE DEF D1, D2
<1>4. ASSUME NEW D, D \subseteq k.used \X VA, D \in SUBSET (Frames \X VA)
      PROVE  TStep(k, [k EXCEPT !.dropped = D])
  BY <1>4 DEF Typed, TStep, KStates
<1>5. TStep(k, [k EXCEPT !.dropped = D1]) /\ TStep(k, [k EXCEPT !.dropped = D2])
  BY <1>3, <1>4
<1> QED BY <1>5 DEF D1, D2

\* The steps of vmm_map_page(), each of which may fail for want of a frame.
MapPdp(k, root, va) == get_next_level(k, root, va[1], TRUE)
MapPd(k, root, va) == LET r == MapPdp(k, root, va)
                      IN  get_next_level(r.k, r.ptr, va[2], TRUE)
MapPt(k, root, va) == LET r == MapPd(k, root, va)
                      IN  PageTable(r.k, r.ptr, va[3], TRUE)
Dropping(k, root, va) == [k EXCEPT !.dropped = @ \union {<<root, va>>}]
Undropping(k, root, va) == [k EXCEPT !.dropped = @ \ {<<root, va>>}]

\* vmm_map_page() by its steps.
LEMMA MapSteps ==
  ASSUME NEW k, NEW root, NEW va, NEW f
  PROVE  vmm_map_page(k, root, va, f) =
           LET r1 == MapPdp(k, root, va)
               r2 == MapPd(k, root, va)
               r3 == MapPt(k, root, va)
           IN  IF r1.ptr = 0 THEN Dropping(r1.k, root, va)
               ELSE IF r2.ptr = 0 THEN Dropping(r2.k, root, va)
               ELSE IF r3.ptr = 0 THEN Dropping(r3.k, root, va)
               ELSE Write(Undropping(r3.k, root, va), r3.ptr, va[4], Entry(f))
BY DEF vmm_map_page, MapPdp, MapPd, MapPt, Dropping, Undropping

\* vmm_map_page() keeps the types.
LEMMA MapTyped ==
  ASSUME NEW k, Typed(k), NEW root \in k.used, NEW va \in VA, NEW f \in Frames
  PROVE  TStep(k, vmm_map_page(k, root, va, f))
<1> DEFINE r1 == MapPdp(k, root, va)
           r2 == MapPd(k, root, va)
           r3 == MapPt(k, root, va)
<1>1. /\ va[1] \in Index /\ va[2] \in Index /\ va[3] \in Index /\ va[4] \in Index
      /\ root \in Frames
  BY MappingVA, VaParts, StateParts
<1>2. RStep(k, r1)
  BY <1>1, NextLevelTyped DEF MapPdp
<1>3. RStep(r1.k, r2)
  BY <1>1, <1>2, NextLevelTyped DEF MapPd, RStep, TStep
<1>4. RStep(r2.k, r3)
  BY <1>1, <1>3, PageTableTyped DEF MapPt, RStep, TStep
<1> HIDE DEF r1, r2, r3
<1>5. RStep(k, r2) /\ RStep(k, r3)
  BY <1>2, <1>3, <1>4, RStepTrans DEF RStep
<1>6. ASSUME NEW l, TStep(k, l)
      PROVE  TStep(k, Dropping(l, root, va)) /\ TStep(k, Undropping(l, root, va))
  <2>1. root \in l.used /\ Typed(l)
    BY <1>6 DEF TStep
  <2> QED BY <1>6, <2>1, NewDropped, TStepTrans DEF Dropping, Undropping
<1>7. /\ TStep(k, Dropping(r1.k, root, va)) /\ TStep(k, Dropping(r2.k, root, va))
      /\ TStep(k, Dropping(r3.k, root, va)) /\ TStep(k, Undropping(r3.k, root, va))
  BY <1>2, <1>5, <1>6 DEF RStep
<1> DEFINE u == Undropping(r3.k, root, va)
<1>8. TStep(k, u)
  BY <1>7
<1> HIDE DEF u
<1>9. TStep(k, Write(u, r3.ptr, va[4], Entry(f)))
  <2>1. Typed(u) /\ r3.ptr \in Frames /\ Entry(f) \in GoodWord
    BY <1>5, <1>8, GoodWords DEF RStep, TStep
  <2>2. TStep(u, Write(u, r3.ptr, va[4], Entry(f)))
    BY <1>1, <2>1, WriteTyped
  <2> QED BY <1>8, <2>2, TStepTrans
<1> QED BY <1>7, <1>9, MapSteps DEF r1, r2, r3, u

UnmapPdp(k, root, va) == get_next_level(k, root, va[1], FALSE)
UnmapPd(k, root, va) == LET r == UnmapPdp(k, root, va)
                        IN  get_next_level(r.k, r.ptr, va[2], FALSE)
UnmapPt(k, root, va) == LET r == UnmapPd(k, root, va)
                        IN  PageTable(r.k, r.ptr, va[3], FALSE)

\* vmm_unmap_page() by its steps.
LEMMA UnmapSteps ==
  ASSUME NEW k, NEW root, NEW va
  PROVE  vmm_unmap_page(k, root, va) =
           LET r1 == UnmapPdp(k, root, va)
               r2 == UnmapPd(k, root, va)
               r3 == UnmapPt(k, root, va)
           IN  IF r1.ptr = 0 THEN r1.k
               ELSE IF r2.ptr = 0 THEN r2.k
               ELSE IF r3.ptr = 0 THEN r3.k
               ELSE Write(r3.k, r3.ptr, va[4], Zero)
BY DEF vmm_unmap_page, UnmapPdp, UnmapPd, UnmapPt

\* vmm_unmap_page() keeps the types.
LEMMA UnmapTyped ==
  ASSUME NEW k, Typed(k), NEW root \in Frames, NEW va \in VA
  PROVE  TStep(k, vmm_unmap_page(k, root, va))
<1> DEFINE r1 == UnmapPdp(k, root, va)
           r2 == UnmapPd(k, root, va)
           r3 == UnmapPt(k, root, va)
<1>1. /\ va[1] \in Index /\ va[2] \in Index /\ va[3] \in Index /\ va[4] \in Index
  BY MappingVA, VaParts
<1>2. RStep(k, r1)
  BY <1>1, NextLevelTyped DEF UnmapPdp
<1>3. RStep(r1.k, r2)
  BY <1>1, <1>2, NextLevelTyped DEF UnmapPd, RStep, TStep
<1>4. RStep(r2.k, r3)
  BY <1>1, <1>3, PageTableTyped DEF UnmapPt, RStep, TStep
<1> HIDE DEF r1, r2, r3
<1>5. RStep(k, r2) /\ RStep(k, r3)
  BY <1>2, <1>3, <1>4, RStepTrans DEF RStep
<1>6. TStep(k, Write(r3.k, r3.ptr, va[4], Zero))
  <2>1. Typed(r3.k) /\ r3.ptr \in Frames /\ Zero \in GoodWord
    BY <1>5, GoodWords DEF RStep, TStep
  <2>2. TStep(r3.k, Write(r3.k, r3.ptr, va[4], Zero))
    BY <1>1, <2>1, WriteTyped
  <2> QED BY <1>5, <2>2, TStepTrans DEF RStep
<1> QED BY <1>2, <1>5, <1>6, UnmapSteps DEF r1, r2, r3, RStep
-----------------------------------------------------------------------------
(* The loops of the kernel keep the types.                                 *)

\* The allocator keeps the types.
LEMMA PageAllocTyped ==
  ASSUME NEW k, Typed(k)
  PROVE  RStep(k, pmm_alloc_page(k))
BY Allocating DEF RStep

\* A page directory is copied.
LEMMA CopyRoundTyped ==
  ASSUME NEW p, NEW r, NEW i, CopyTyped(p, r, i - 1), i - 1 \in 0 .. NPD - 1
  PROVE  CopyTyped(p, CopyRound(p, r, i), i)
<1> DEFINE n == i - 1
           a == pmm_alloc_page(r.k)
           t == NewTable(a, r.pdp, n)
           page == [j \in Index |-> Read(t.k, kernel_pd(n), j)]
           c == WritePage(t.k, a.ptr, page)
<1>1. /\ r = [k |-> r.k, ptr |-> r.ptr, pdp |-> r.pdp]
      /\ TStep(p, r.k) /\ r.ptr \in r.k.used \union {0} /\ r.pdp \in Frames
      /\ r.ptr \in {0, RootPage(p).ptr}
  BY DEF CopyTyped
<1>2. CASE r.ptr = 0
  BY <1>1, <1>2 DEF CopyTyped, CopyRound, copy_pd
<1>3. CASE r.ptr # 0
  <2>1. CopyRound(p, r, i) = IF a.ptr = 0 THEN [r EXCEPT !.k = a.k, !.ptr = 0]
                             ELSE [r EXCEPT !.k = c]
    BY <1>3 DEF CopyRound, copy_pd
  <2>2. RStep(r.k, a) /\ Typed(a.k) /\ n \in Index
    BY <1>1, PageAllocTyped, Sizes DEF TStep, RStep
  <2> HIDE DEF a, n
  <2>3. RStep(r.k, t)
    BY <1>1, <2>2, NewTableTyped
  <2> HIDE DEF t
  <2>4. kernel_pd(n) \in Frames
    BY Sizes DEF kernel_pd, n
  <2>5. page \in [Index -> GoodWord]
    BY <2>3, <2>4, ReadTyped DEF RStep, TStep
  <2> HIDE DEF page
  <2>6. TStep(t.k, c)
    BY <2>2, <2>3, <2>5, WritePageTyped DEF RStep, TStep
  <2> HIDE DEF c
  <2>7. TStep(r.k, c) /\ TStep(r.k, a.k)
    BY <2>2, <2>3, <2>6, TStepTrans DEF RStep
  <2>8. TStep(p, c) /\ TStep(p, a.k) /\ r.k.used \subseteq c.used
    BY <1>1, <2>7, TStepTrans DEF TStep
  <2>9. CASE a.ptr = 0
    <3>1. CopyRound(p, r, i) = [k |-> a.k, ptr |-> 0, pdp |-> r.pdp]
      BY <1>1, <2>1, <2>9
    <3> HIDE DEF CopyRound
    <3> QED BY <1>1, <2>8, <3>1 DEF CopyTyped
  <2>10. CASE a.ptr # 0
    <3>1. CopyRound(p, r, i) = [k |-> c, ptr |-> r.ptr, pdp |-> r.pdp]
      BY <1>1, <2>1, <2>10
    <3> HIDE DEF CopyRound
    <3> QED BY <1>1, <2>8, <3>1 DEF CopyTyped
  <2> QED BY <2>9, <2>10
<1> QED BY <1>2, <1>3

\* create_user_pml4(), up to the loop and after it.
PdpPage(k) == pmm_alloc_page(WritePage(RootPage(k).k, RootPage(k).ptr, ZeroPage))
CopyStart(k) == [k |-> NewTable(PdpPage(k), RootPage(k).ptr, 0).k,
                 ptr |-> RootPage(k).ptr, pdp |-> PdpPage(k).ptr]
Copied(k) == CopyT!Loop(k, CopyStart(k), NPD)
RestOfRoot(r) == [i \in Index |-> Read(r.k, IF i = 0 THEN r.ptr ELSE kernel_pml4, i)]

\* create_user_pml4() by its steps.
LEMMA CreateSteps ==
  ASSUME NEW k
  PROVE  create_user_pml4(k) =
           IF RootPage(k).ptr = 0 THEN [k |-> RootPage(k).k, ptr |-> 0, pdp |-> 0]
           ELSE IF PdpPage(k).ptr = 0 THEN [k |-> PdpPage(k).k, ptr |-> 0, pdp |-> 0]
           ELSE IF Copied(k).ptr = 0 THEN Copied(k)
           ELSE [Copied(k) EXCEPT
                   !.k = WritePage(Copied(k).k, Copied(k).ptr, RestOfRoot(Copied(k)))]
BY DEF create_user_pml4, RootPage, PdpPage, CopyStart, Copied, RestOfRoot,
       CopyT!Loop, CopyRound

\* What create_user_pml4() and the loader leave.
LEMMA CreateTyped ==
  ASSUME NEW k, Typed(k)
  PROVE  LET c == create_user_pml4(k)
         IN  /\ TStep(k, c.k) /\ c.ptr \in c.k.used \union {0}
             /\ c.ptr \notin k.used \/ c.ptr = 0
<1> DEFINE a == RootPage(k)
           l == WritePage(a.k, a.ptr, ZeroPage)
           b == PdpPage(k)
           s == CopyStart(k)
           r == Copied(k)
           e == WritePage(r.k, r.ptr, RestOfRoot(r))
<1>1. /\ RStep(k, a) /\ Typed(a.k) /\ a.ptr \in a.k.used \union {0}
      /\ a.ptr \notin k.used \/ a.ptr = 0
  BY Allocating DEF RootPage, RStep, TStep
<1>2. TStep(a.k, l)
  BY <1>1, PagesTyped, WritePageTyped DEF RStep, TStep
<1>3. RStep(l, b) /\ b = pmm_alloc_page(l)
  BY <1>2, PageAllocTyped DEF PdpPage, TStep
<1>4. RStep(l, NewTable(b, a.ptr, 0))
  BY <1>1, <1>3, NewTableTyped, Sizes DEF RStep
<1> HIDE DEF a, l, b
<1>5. TStep(k, b.k) /\ TStep(a.k, NewTable(b, a.ptr, 0).k)
  BY <1>1, <1>2, <1>3, <1>4, TStepTrans DEF RStep
<1>6. TStep(k, NewTable(b, a.ptr, 0).k)
  BY <1>1, <1>5, TStepTrans DEF RStep
<1>7. CopyTyped(k, s, 0)
  <2> DEFINE x == NewTable(b, a.ptr, 0).k
  <2>1. s = [k |-> x, ptr |-> a.ptr, pdp |-> b.ptr]
    BY DEF CopyStart, a, b
  <2>2. /\ TStep(k, x) /\ a.ptr \in x.used \union {0} /\ b.ptr \in Frames
        /\ a.ptr = RootPage(k).ptr
    BY <1>1, <1>3, <1>5, <1>6 DEF TStep, RStep, a
  <2> HIDE DEF x, s
  <2> QED BY <2>1, <2>2 DEF CopyTyped
<1>8. CopyTyped(k, r, NPD)
  <2>1. NPD \in Nat /\ \A i \in 1 .. NPD : i - 1 \in 0 .. NPD - 1
    BY Sizes
  <2> HIDE DEF s
  <2>2. \A i \in 1 .. NPD : \A x : CopyTyped(k, x, i - 1) => CopyTyped(k, CopyRound(k, x, i), i)
    BY <2>1, CopyRoundTyped
  <2> QED BY <1>7, <2>1, <2>2, CopyT!LoopKeeps DEF Copied, s
<1> HIDE DEF s, r
<1>9. /\ r = [k |-> r.k, ptr |-> r.ptr, pdp |-> r.pdp] /\ TStep(k, r.k)
      /\ r.ptr \in r.k.used \union {0} /\ r.ptr \in {0, a.ptr}
  BY <1>8 DEF CopyTyped, a
<1>10. TStep(k, e) /\ r.ptr \in e.used \union {0}
  <2>1. Typed(r.k) /\ r.ptr \in Frames /\ kernel_pml4 \in Frames
    <3>1. Typed(r.k) /\ r.ptr \in r.k.used \union {0}
      BY <1>9 DEF TStep
    <3>2. r.ptr \in Frames
      BY <3>1, StateParts, NoFrameIsNone
    <3>3. kernel_pml4 \in 0 .. MAX_PAGES - 1
      BY Sizes DEF kernel_pml4
    <3> QED BY <3>1, <3>2, <3>3, Sizes
  <2>2. RestOfRoot(r) \in [Index -> GoodWord]
    BY <2>1, ReadTyped DEF RestOfRoot
  <2>3. TStep(r.k, e)
    BY <2>1, <2>2, WritePageTyped
  <2> HIDE DEF e
  <2> QED BY <1>9, <2>3, TStepTrans DEF TStep
<1> HIDE DEF e
<1>11. create_user_pml4(k) =
         IF a.ptr = 0 THEN [k |-> a.k, ptr |-> 0, pdp |-> 0]
         ELSE IF b.ptr = 0 THEN [k |-> b.k, ptr |-> 0, pdp |-> 0]
         ELSE IF r.ptr = 0 THEN r
         ELSE [k |-> e, ptr |-> r.ptr, pdp |-> r.pdp]
  BY <1>9, CreateSteps DEF a, b, r, e
<1> QED BY <1>1, <1>5, <1>9, <1>10, <1>11 DEF RStep

\* The pages the kernel and a program fill.
LEMMA FunctionsTyped ==
  /\ Fill(1) \in [Index -> GoodWord] /\ Fill(2) \in [Index -> GoodWord]
  /\ ZeroPage \in [Index -> GoodWord]
BY PagesTyped

\* A page of a program is loaded, and so all of them.
LEMMA LoadRoundTyped ==
  ASSUME NEW p, NEW r, NEW i, LoadTyped(p, r, i - 1), p.root \in p.k.used,
         i - 1 \in 0 .. ImagePages - 1
  PROVE  LoadTyped(p, LoadRound(p, r, i), i)
<1> DEFINE n == i - 1
           a == pmm_alloc_page(r.k)
           z == WritePage(a.k, a.ptr, ZeroPage)
           m == vmm_map_page(z, p.root, Low(LinkPage + n), a.ptr)
           w == WritePage(m, a.ptr, Fill(1))
<1>1. r = [k |-> r.k, ok |-> r.ok] /\ r.ok \in BOOLEAN /\ TStep(p.k, r.k)
  BY DEF LoadTyped
<1>2. LoadRound(p, r, i) = IF ~r.ok THEN r
                           ELSE IF a.ptr = 0 THEN [k |-> a.k, ok |-> FALSE]
                           ELSE [k |-> w, ok |-> TRUE]
  BY DEF LoadRound, load_page
<1>3. RStep(r.k, a)
  BY <1>1, PageAllocTyped DEF TStep
<1> HIDE DEF a
<1>4. TStep(a.k, z)
  BY <1>3, FunctionsTyped, WritePageTyped DEF RStep, TStep
<1> HIDE DEF z
<1>5. TStep(z, m)
  <2>1. p.root \in z.used
    BY <1>1, <1>3, <1>4 DEF RStep, TStep
  <2>2. Low(LinkPage + n) \in VA
    BY MappingVA DEF n
  <2> HIDE DEF n
  <2> QED BY <1>3, <1>4, <2>1, <2>2, MapTyped DEF RStep, TStep
<1> HIDE DEF m
<1>6. TStep(m, w)
  BY <1>3, <1>5, FunctionsTyped, WritePageTyped DEF RStep, TStep
<1> HIDE DEF w
<1>7. TStep(p.k, a.k) /\ TStep(p.k, w)
  BY <1>1, <1>3, <1>4, <1>5, <1>6, TStepTrans DEF RStep
<1>8. CASE ~r.ok
  BY <1>1, <1>2, <1>8 DEF LoadTyped
<1>9. CASE r.ok /\ a.ptr = 0
  <2>1. LoadRound(p, r, i) = [k |-> a.k, ok |-> FALSE]
    BY <1>2, <1>9
  <2> QED BY <1>7, <2>1 DEF LoadTyped
<1>10. CASE r.ok /\ a.ptr # 0
  <2>1. LoadRound(p, r, i) = [k |-> w, ok |-> TRUE]
    BY <1>2, <1>10
  <2> QED BY <1>7, <2>1 DEF LoadTyped
<1> QED BY <1>1, <1>8, <1>9, <1>10

\* All the pages of a program are loaded.
LEMMA LoadTypes ==
  ASSUME NEW k, Typed(k), NEW root \in k.used, NEW n \in 0 .. ImagePages,
         NEW bad \in BOOLEAN
  PROVE  LET l == load_elf_into_process(k, root, n, bad)
         IN  TStep(k, l.k) /\ l.ok \in BOOLEAN
<1> DEFINE p == [root |-> root, k |-> k]
           s == [k |-> k, ok |-> TRUE]
           r == LoadT!Loop(p, s, n)
<1>0. load_elf_into_process(k, root, n, bad) = [r EXCEPT !.ok = @ /\ ~bad]
  BY DEF load_elf_into_process, LoadT!Loop, LoadRound
<1>1. LoadTyped(p, s, 0)
  BY TStepRefl DEF LoadTyped
<1>2. n \in Nat /\ \A i \in 1 .. n : i - 1 \in 0 .. ImagePages - 1
  BY MemoryAssumption
<1>3. p.root \in p.k.used
  OBVIOUS
<1> HIDE DEF p, s
<1>4. \A i \in 1 .. n : \A x : LoadTyped(p, x, i - 1) => LoadTyped(p, LoadRound(p, x, i), i)
  BY <1>2, <1>3, LoadRoundTyped
<1>5. LoadTyped(p, r, n)
  BY <1>1, <1>2, <1>4, LoadT!LoopKeeps
<1> HIDE DEF r
<1>6. r = [k |-> r.k, ok |-> r.ok] /\ r.ok \in BOOLEAN /\ TStep(k, r.k)
  BY <1>5 DEF LoadTyped, p
<1> QED BY <1>0, <1>6

\* The end of a break is in the heap, and of the last address it is page 0.
LEMMA PageEnds ==
  ASSUME NEW b \in Breaks
  PROVE  /\ PageEnd(b) \in Int /\ -LowPages <= PageEnd(b) /\ PageEnd(b) <= Fan * Fan
         /\ PageEnd(b) >= 0 <=> b # LastBreak
         /\ LastBreak # 0
         /\ \A n \in 0 .. PageEnd(b) - 1 : n \in HeapPages
<1>1. PICK F, S, T, U : F = Fan /\ S = F * F /\ T = F * S /\ U = F * T
  OBVIOUS
<1>2. F \in Nat /\ F >= 2
  BY <1>1, Sizes
<1>3. S \in Nat /\ S >= 2 * F
  BY <1>1, <1>2
<1>4. T \in Nat /\ T >= 2 * S
  BY <1>1, <1>2, <1>3
<1>5. U \in Nat /\ U >= 2 * T
  BY <1>1, <1>2, <1>4
<1>6. /\ LowPages = T /\ heap_start = 2 * T /\ AddressSpace = 2 * U
      /\ LastBreak = 2 * U - 1 - 2 * T /\ Fan * Fan = S
      /\ PAGE_SIZE * Fan * Fan = 2 * S
  <2>1. Fan * Fan * Fan = F * S
    BY <1>1, <1>2, <1>3
  <2>2. PAGE_SIZE * Fan * Fan = 2 * (Fan * Fan)
    BY <1>1, <1>2 DEF PAGE_SIZE
  <2> QED BY <1>1, <2>1, <2>2 DEF LowPages, heap_start, AddressSpace, LastBreak, PAGE_SIZE
<1>7. b \in 0 .. 2 * S \union {2 * U - 1 - 2 * T}
  BY <1>6, MemoryAssumption
<1>8. PageEnd(b) = (((2 * T + b + 1) % (2 * U)) \div 2) - T
  BY <1>3, <1>4, <1>5, <1>6, <1>7 DEF PageEnd, PAGE_ALIGN_UP, PAGE_SIZE
<1>9. 2 * U - 1 - 2 * T # 0
  BY <1>2, <1>3, <1>4, <1>5
<1>10. CASE b = 2 * U - 1 - 2 * T
  <2>1. 2 * T + b + 1 = 2 * U
    BY <1>4, <1>5, <1>10
  <2>2. (2 * U) % (2 * U) = 0
    <3>1. U # 0
      BY <1>2, <1>3, <1>4, <1>5
    <3> QED BY <1>5, <3>1
  <2>3. PageEnd(b) = -T
    BY <1>4, <1>8, <2>1, <2>2
  <2>4. T > 0
    BY <1>2, <1>3, <1>4
  <2> QED BY <1>3, <1>4, <1>6, <1>10, <1>9, <2>3, <2>4
<1>11. CASE b \in 0 .. 2 * S
  <2>1. 2 * T + b + 1 \in 0 .. 2 * U - 1 /\ b # 2 * U - 1 - 2 * T
    BY <1>2, <1>3, <1>4, <1>5, <1>11
  <2>2. PICK m : m = 2 * T + b + 1
    OBVIOUS
  <2>3. m % (2 * U) = m
    BY <1>5, <2>1, <2>2
  <2>4. PageEnd(b) = (m \div 2) - T
    BY <1>8, <2>2, <2>3
  <2>5. PageEnd(b) \in 0 .. S
    BY <1>3, <1>4, <1>11, <2>2, <2>4
  <2>6. \A n \in 0 .. PageEnd(b) - 1 : n \in 0 .. Fan * Fan - 1 /\ n < PageEnd(b)
    BY <1>3, <1>6, <2>5
  <2>7. \A n \in 0 .. PageEnd(b) - 1 : n \in HeapPages
    BY <2>6 DEF HeapPages
  <2> QED BY <1>3, <1>4, <1>6, <1>9, <2>1, <2>5, <2>7
<1> QED BY <1>7, <1>10, <1>11

\* The pages between two ends are four entries.
LEMMA BetweenEnds ==
  ASSUME NEW b \in Breaks, NEW c \in Breaks,
         NEW n \in PageEnd(b) .. PageEnd(c) - 1
  PROVE  HeapPage(n) \in VA
<1>1. /\ PageEnd(b) \in Int /\ -LowPages <= PageEnd(b) /\ PageEnd(c) \in Int
      /\ \A m \in 0 .. PageEnd(c) - 1 : m \in HeapPages
  BY PageEnds
<1>2. LowPages \in Nat
  BY LowVA
<1>3. CASE n >= 0
  BY <1>1, <1>3, MappingVA
<1>4. CASE n < 0
  <2>1. LowPages + n \in 0 .. LowPages - 1
    BY <1>1, <1>2, <1>4
  <2> QED BY <1>4, <2>1, LowVA DEF HeapPage
<1> QED BY <1>1, <1>3, <1>4

\* The heap grows by a page, and so by many.
LEMMA GrowRoundTyped ==
  ASSUME NEW p, NEW r, NEW i, LoadTyped(p, r, i - 1), p.root \in p.k.used,
         HeapPage(p.from + i - 1) \in VA
  PROVE  LoadTyped(p, GrowRound(p, r, i), i)
<1> DEFINE n == p.from + i - 1
           a == pmm_alloc_page(r.k)
           m == vmm_map_page(a.k, p.root, HeapPage(n), a.ptr)
<1>1. r = [k |-> r.k, ok |-> r.ok] /\ r.ok \in BOOLEAN /\ TStep(p.k, r.k)
  BY DEF LoadTyped
<1>2. GrowRound(p, r, i) = IF ~r.ok THEN r
                           ELSE IF a.ptr = 0 THEN [k |-> a.k, ok |-> FALSE]
                           ELSE [k |-> m, ok |-> TRUE]
  BY DEF GrowRound, grow_page
<1>3. RStep(r.k, a)
  BY <1>1, PageAllocTyped DEF TStep
<1> HIDE DEF a
<1>4. TStep(a.k, m)
  <2>1. p.root \in a.k.used
    BY <1>1, <1>3 DEF RStep, TStep
  <2>2. HeapPage(n) \in VA
    BY DEF n
  <2> HIDE DEF n
  <2> QED BY <1>3, <2>1, <2>2, MapTyped DEF RStep, TStep
<1> HIDE DEF m
<1>5. TStep(p.k, a.k) /\ TStep(p.k, m)
  BY <1>1, <1>3, <1>4, TStepTrans DEF RStep
<1>8. CASE ~r.ok
  BY <1>1, <1>2, <1>8 DEF LoadTyped
<1>9. CASE r.ok /\ a.ptr = 0
  <2>1. GrowRound(p, r, i) = [k |-> a.k, ok |-> FALSE]
    BY <1>2, <1>9
  <2> QED BY <1>5, <2>1 DEF LoadTyped
<1>10. CASE r.ok /\ a.ptr # 0
  <2>1. GrowRound(p, r, i) = [k |-> m, ok |-> TRUE]
    BY <1>2, <1>10
  <2> QED BY <1>5, <2>1 DEF LoadTyped
<1> QED BY <1>1, <1>8, <1>9, <1>10

\* The heap grows by any number of pages.
LEMMA GrowTypes ==
  ASSUME NEW k, Typed(k), NEW root \in k.used, NEW from \in Int, NEW to \in Int,
         from <= to, \A n \in from .. to - 1 : HeapPage(n) \in VA
  PROVE  LET r == Grow(k, root, from, to) IN TStep(k, r.k) /\ r.ok \in BOOLEAN
<1> DEFINE p == [root |-> root, k |-> k, from |-> from]
           s == [k |-> k, ok |-> TRUE]
           r == GrowT!Loop(p, s, to - from)
<1>0. Grow(k, root, from, to) = r
  BY DEF Grow, GrowT!Loop, GrowRound
<1>1. LoadTyped(p, s, 0)
  BY TStepRefl DEF LoadTyped
<1>2. /\ to - from \in Nat
      /\ \A i \in 1 .. to - from : HeapPage(p.from + i - 1) \in VA
  <2>1. \A i \in 1 .. to - from : from + i - 1 \in from .. to - 1
    OBVIOUS
  <2> QED BY <2>1
<1>3. p.root \in p.k.used
  OBVIOUS
<1> HIDE DEF p, s
<1>4. \A i \in 1 .. to - from : \A x : LoadTyped(p, x, i - 1) => LoadTyped(p, GrowRound(p, x, i), i)
  BY <1>2, <1>3, GrowRoundTyped
<1>5. LoadTyped(p, r, to - from)
  BY <1>1, <1>2, <1>4, GrowT!LoopKeeps
<1> HIDE DEF r
<1>6. r.ok \in BOOLEAN /\ TStep(k, r.k)
  BY <1>5 DEF LoadTyped, p
<1> QED BY <1>0, <1>6

\* The heap shrinks.
LEMMA ShrinkTypes ==
  ASSUME NEW k, Typed(k), NEW root \in Frames, NEW from \in Int, NEW to \in Int,
         to <= from, \A n \in to .. from - 1 : HeapPage(n) \in VA
  PROVE  TStep(k, Shrink(k, root, from, to))
<1> DEFINE p == [root |-> root, k |-> k, to |-> to]
           r == ShrinkT!Loop(p, k, from - to)
<1>0. Shrink(k, root, from, to) = r
  BY DEF Shrink, ShrinkT!Loop, ShrinkRound
<1>1. ShrinkTyped(p, k, 0)
  BY TStepRefl DEF ShrinkTyped
<1>2. from - to \in Nat
  OBVIOUS
<1>3. ASSUME NEW i \in 1 .. from - to, NEW x, ShrinkTyped(p, x, i - 1)
      PROVE  ShrinkTyped(p, ShrinkRound(p, x, i), i)
  <2>1. TStep(k, x) /\ Typed(x)
    BY <1>3 DEF ShrinkTyped, TStep
  <2>2. HeapPage(to + i - 1) \in VA
    <3>1. to + i - 1 \in to .. from - 1
      OBVIOUS
    <3> QED BY <3>1
  <2>3. TStep(x, vmm_unmap_page(x, root, HeapPage(to + i - 1)))
    BY <2>1, <2>2, UnmapTyped
  <2>4. TStep(k, vmm_unmap_page(x, root, HeapPage(to + i - 1)))
    BY <2>1, <2>3, TStepTrans
  <2> QED BY <2>1, <2>4 DEF ShrinkTyped, ShrinkRound
<1> HIDE DEF p
<1>4. ShrinkTyped(p, r, from - to)
  BY <1>1, <1>2, <1>3, ShrinkT!LoopKeeps
<1> QED BY <1>0, <1>4 DEF ShrinkTyped, p

\* A page of a port is brought up.
LEMMA PortRoundTyped ==
  ASSUME NEW p, NEW r, NEW i, PortTyped(p, r, i - 1)
  PROVE  PortTyped(p, PortRound(p, r, i), i)
<1> DEFINE a == pmm_alloc_page(r.k)
           m == vmm_map_page(a.k, kernel_pml4, Low(a.ptr), a.ptr)
           w == WritePage(m, a.ptr, ZeroPage)
<1>1. /\ r = [k |-> r.k, got |-> r.got] /\ TStep(p, r.k)
      /\ r.got \subseteq r.k.used
  BY DEF PortTyped
<1>2. PortRound(p, r, i) = IF a.ptr = 0 THEN [k |-> a.k, got |-> r.got]
                           ELSE [k |-> w, got |-> r.got \union {a.ptr}]
  BY DEF PortRound, alloc_mapped_page
<1>3. RStep(r.k, a) /\ a.ptr \in a.k.used \union {0}
  BY <1>1, Allocating DEF TStep, RStep
<1> HIDE DEF a
<1>4. TStep(a.k, m)
  <2>1. kernel_pml4 \in a.k.used
    <3>1. kernel_pml4 \in Image
      BY Sizes DEF Image, kernel_pml4
    <3> QED BY <1>3, <3>1 DEF RStep, TStep, Typed
  <2> QED BY <1>3, <2>1, MappingVA, MapTyped DEF RStep, TStep
<1> HIDE DEF m
<1>5. TStep(m, w)
  BY <1>3, <1>4, FunctionsTyped, WritePageTyped DEF RStep, TStep
<1> HIDE DEF w
<1>6. TStep(p, a.k) /\ TStep(p, w)
  BY <1>1, <1>3, <1>4, <1>5, TStepTrans DEF RStep
<1>7. r.got \subseteq a.k.used /\ r.got \subseteq w.used /\ a.k.used \subseteq w.used
  BY <1>1, <1>3, <1>4, <1>5 DEF RStep, TStep
<1> QED BY <1>2, <1>3, <1>6, <1>7 DEF PortTyped
-----------------------------------------------------------------------------
(* Type correctness of the specification.                                  *)

Seen == UNION {[S -> 0 .. 2] : S \in SUBSET VA}

\* The CPU runs in the address space of a process that has not exited, and no
\* two of them have one root.
CpuInv ==
  /\ cur \in Procs \union {Boot, Halted}
  /\ live \subseteq Procs
  /\ cur \in Procs => cur \in live /\ cr3 = pml4[cur]
  /\ cur = Boot => live = {} /\ cr3 = kernel_pml4
  /\ cur = Halted => live = {}
  /\ \A p \in live : pml4[p] \in used
  /\ \A p, q \in live : pml4[p] = pml4[q] => p = q

TypeInv ==
  /\ Typed(K)
  /\ CpuInv
  /\ dma \subseteq used \union {MmioPage}
  /\ ports \in 0 .. NPorts
  /\ pml4 \in [Procs -> Frames]
  /\ heap_end \in [Procs -> Breaks]
  /\ expected \in [Procs -> Seen]
  /\ wrapped \in BOOLEAN

\* The names of what the CPU does beside running a process.
LEMMA CpuNames == Boot # Halted /\ Boot \notin Procs /\ Halted \notin Procs
BY MemoryAssumption DEF Boot, Halted

\* The invariant of the types implies what the runs check.
LEMMA TypeInvOK == TypeInv => TypeOK
<1> SUFFICES ASSUME TypeInv PROVE TypeOK
  OBVIOUS
<1>1. K \in KStates /\ dropped \subseteq used \X VA /\ used \subseteq Frames
  BY StateParts DEF TypeInv, Typed, K
<1>2. /\ used \subseteq 0 .. MAX_PAGES - 1 /\ mem \in Mems /\ cr3 \in Frames
      /\ fault \in BOOLEAN
  BY <1>1 DEF KStates, K
<1>3. mem \in [Frames -> [Index -> Word]]
  <2>1. GoodWord \subseteq Word
    BY DEF GoodWord
  <2> QED BY <1>2, <2>1 DEF Mems
<1>4. dma \subseteq Frames
  BY <1>1, Sizes DEF TypeInv
<1>5. ASSUME NEW p \in Procs
      PROVE  /\ DOMAIN expected[p] \subseteq VA
             /\ \A va \in DOMAIN expected[p] : expected[p][va] \in 0 .. 2
  <2>1. expected[p] \in Seen
    BY DEF TypeInv
  <2>2. PICK S \in SUBSET VA : expected[p] \in [S -> 0 .. 2]
    BY <2>1 DEF Seen
  <2> QED BY <2>2
<1> QED BY <1>1, <1>2, <1>3, <1>4, <1>5 DEF TypeOK, TypeInv, CpuInv

\* The state of the kernel after a call.
LEMMA AfterCall ==
  ASSUME TypeInv, NEW k, TStep(K, k), Becomes(k), cr3' \in Frames
  PROVE  /\ Typed(K)' /\ used \subseteq used'
         /\ cr3' = cr3 => K' = k
<1>1. Typed(k) /\ used \subseteq k.used
  BY DEF TStep, K
<1>2. k = [used |-> k.used, mem |-> k.mem, cr3 |-> k.cr3, fault |-> k.fault,
           dropped |-> k.dropped]
  BY <1>1 DEF Typed, KStates
<1>3. K' = [used |-> k.used, mem |-> k.mem, cr3 |-> cr3', fault |-> k.fault,
            dropped |-> k.dropped]
  BY DEF K, Becomes
<1>4. K' \in KStates
  BY <1>1, <1>3 DEF Typed, KStates
<1>5. Typed(K')
  BY <1>1, <1>3, <1>4 DEF Typed
<1>6. k.cr3 = cr3
  BY DEF TStep, K
<1> QED BY <1>1, <1>2, <1>3, <1>5, <1>6 DEF Typed, K, Becomes

\* The boot state has the types.
LEMMA TypeInit == Init => TypeInv
<1> SUFFICES ASSUME Init PROVE TypeInv
  OBVIOUS
<1>1. used = Image \union ModulePages
  BY DEF Init, pmm_reserve_region, pmm_init, Image
<1>2. used \subseteq 0 .. MAX_PAGES - 1
  <2>1. ModulePages \subseteq 0 .. MAX_PAGES - 1
    BY MemoryAssumption
  <2> QED BY <1>1, <2>1, Sizes DEF Image
<1>3. mem \in Mems
  <2> DEFINE r1 == [i \in Index |-> IF i = 0 THEN Entry(kernel_pdp) ELSE Zero]
             r2 == [i \in Index |-> IF i < NPD THEN Entry(kernel_pd(i)) ELSE Zero]
             r3(f) == [i \in Index |-> Huge(((f - 3) * Fan + i) * Fan)]
             pds == {kernel_pd(n) : n \in 0 .. NPD - 1}
             row(f) == CASE f = kernel_pml4 -> r1
                         [] f = kernel_pdp -> r2
                         [] f \in pds -> r3(f)
                         [] OTHER -> ZeroPage
  <2>1. mem = [f \in Frames |-> row(f)]
    BY DEF Init
  <2>2. \A n \in 0 .. NPD - 1 : kernel_pd(n) \in Frames
    BY Sizes DEF kernel_pd
  <2>3. kernel_pdp \in Frames
    BY Sizes DEF kernel_pdp
  <2>4. r1 \in [Index -> GoodWord]
    BY <2>3, GoodWords
  <2>5. r2 \in [Index -> GoodWord]
    <3>1. \A i \in Index : i < NPD => i \in 0 .. NPD - 1
      BY Sizes
    <3> QED BY <2>2, <3>1, GoodWords
  <2>6. ASSUME NEW n \in 0 .. NPD - 1 PROVE r3(kernel_pd(n)) \in [Index -> GoodWord]
    <3>1. kernel_pd(n) - 3 = n
      BY DEF kernel_pd
    <3>2. ASSUME NEW i \in Index PROVE Huge((n * Fan + i) * Fan) \in GoodWord
      <4>1. Nth(n, i, 0) \in Frames /\ Nth(n, i, Fan - 1) \in Frames /\ Fan - 1 \in Index
        <5>1. 0 \in Index /\ Fan - 1 \in Index
          BY Sizes DEF Index
        <5> QED BY <5>1, LowOfNth
      <4>2. (n * Fan + i) * Fan \in Nat
        <5>1. n * Fan \in Nat
          BY Sizes
        <5> QED BY <5>1, Sizes
      <4>3. Nth(n, i, 0) = (n * Fan + i) * Fan
        BY <4>2 DEF Nth
      <4>4. Nth(n, i, Fan - 1) = Nth(n, i, 0) + (Fan - 1)
        BY <4>3, Sizes DEF Nth
      <4> QED BY <4>1, <4>2, <4>3, <4>4 DEF GoodWord, Huge, Word
    <3> QED BY <3>1, <3>2
  <2>7. /\ kernel_pml4 # kernel_pdp /\ kernel_pml4 \notin pds
        /\ kernel_pdp \notin pds
    BY DEF kernel_pml4, kernel_pdp, kernel_pd
  <2>8. ASSUME NEW f \in pds PROVE r3(f) \in [Index -> GoodWord]
    <3>1. PICK n \in 0 .. NPD - 1 : f = kernel_pd(n)
      OBVIOUS
    <3> HIDE DEF r3, pds
    <3> QED BY <2>6, <3>1
  <2> HIDE DEF r1, r2, r3, pds
  <2>9. ASSUME NEW f \in Frames PROVE row(f) \in [Index -> GoodWord]
    <3>1. CASE f = kernel_pml4
      BY <2>4, <2>7, <3>1
    <3>2. CASE f = kernel_pdp
      BY <2>5, <2>7, <3>2
    <3>3. CASE f \in pds
      BY <2>7, <2>8, <3>3
    <3>4. CASE f # kernel_pml4 /\ f # kernel_pdp /\ f \notin pds
      <4>1. row(f) = ZeroPage
        BY <3>4
      <4> QED BY <4>1, PagesTyped
    <3> QED BY <3>1, <3>2, <3>3, <3>4
  <2> HIDE DEF row
  <2> QED BY <2>1, <2>9 DEF Mems
<1>4. cr3 \in Frames
  BY Sizes DEF Init, kernel_pml4
<1>5. K \in KStates
  BY <1>2, <1>3, <1>4 DEF Init, K, KStates
<1>6. Typed(K)
  <2>1. dropped = {} /\ K.used = used /\ K.dropped = dropped
    BY DEF Init, K
  <2> QED BY <1>1, <1>5, <2>1 DEF Typed
<1>7. heap_end \in [Procs -> Breaks] /\ pml4 \in [Procs -> Frames]
  BY MemoryAssumption, NoFrameIsNone DEF Init
<1>8. expected \in [Procs -> Seen]
  <2>1. <<>> \in [{} -> 0 .. 2]
    OBVIOUS
  <2>2. <<>> \in Seen
    BY <2>1 DEF Seen
  <2> QED BY <2>2 DEF Init
<1>9. ports \in 0 .. NPorts
  BY MemoryAssumption DEF Init
<1>10. CpuInv
  BY CpuNames DEF Init, CpuInv
<1> QED BY <1>6, <1>7, <1>8, <1>9, <1>10 DEF TypeInv, Init

\* A step that changes nothing keeps the types.
LEMMA TypeStutter == ASSUME TypeInv, UNCHANGED vars PROVE TypeInv'
<1>1. K' = K
  BY DEF K, vars
<1>2. CpuInv'
  BY DEF TypeInv, CpuInv, vars
<1> QED BY <1>1, <1>2 DEF TypeInv, vars

\* The registers of the disk controller are mapped.
LEMMA TypeController == ASSUME TypeInv, ahci_find_controller PROVE TypeInv'
<1> DEFINE k == vmm_map_page(K, kernel_pml4, Low(MmioPage), MmioPage)
<1>1. TStep(K, k)
  <2>1. kernel_pml4 \in Image
    BY Sizes DEF Image, kernel_pml4
  <2>2. Typed(K) /\ kernel_pml4 \in K.used
    BY <2>1 DEF TypeInv, Typed
  <2> QED BY <2>2, Sizes, MappingVA, MapTyped
<1>2. Becomes(k) /\ cr3' = cr3
  BY DEF ahci_find_controller
<1> HIDE DEF k
<1>3. Typed(K)' /\ used \subseteq used'
  BY <1>1, <1>2, AfterCall, StateParts DEF TypeInv, K
<1>4. CpuInv'
  BY <1>3 DEF TypeInv, CpuInv, ahci_find_controller
<1> QED BY <1>3, <1>4 DEF TypeInv, ahci_find_controller

\* An AHCI port is brought up.
LEMMA TypePort == ASSUME TypeInv, ahci_port_init PROVE TypeInv'
<1> DEFINE s == [k |-> K, got |-> {}]
           r == PortT!Loop(K, s, PortPages)
<1>1. r = LET pages[n \in 0 .. PortPages] ==
                IF n = 0 THEN [k |-> K, got |-> {}]
                ELSE alloc_mapped_page(pages[n - 1])
          IN  pages[PortPages]
  BY DEF PortT!Loop, PortRound
<1>2. PortTyped(K, s, 0)
  BY TStepRefl DEF PortTyped, TypeInv
<1>3. PortPages \in Nat
  BY MemoryAssumption
<1>4. PortTyped(K, r, PortPages)
  <2> HIDE DEF s
  <2>1. \A i \in 1 .. PortPages : \A x : PortTyped(K, x, i - 1) => PortTyped(K, PortRound(K, x, i), i)
    BY PortRoundTyped
  <2> QED BY <1>2, <1>3, <2>1, PortT!LoopKeeps
<1>5. /\ Becomes(r.k) /\ dma' = dma \union r.got
      /\ ports < NPorts /\ ports' = ports + 1
      /\ UNCHANGED <<cr3, cur, live, pml4, heap_end, expected, wrapped>>
  BY <1>1 DEF ahci_port_init
<1> HIDE DEF r
<1>6. TStep(K, r.k) /\ r.got \subseteq r.k.used
  BY <1>4 DEF PortTyped
<1>7. Typed(K)' /\ used \subseteq used' /\ used' = r.k.used
  BY <1>5, <1>6, AfterCall, StateParts DEF TypeInv, K, Becomes
<1>8. CpuInv'
  BY <1>5, <1>7 DEF TypeInv, CpuInv
<1>9. dma' \subseteq used' \union {MmioPage}
  BY <1>5, <1>6, <1>7 DEF TypeInv
<1>10. ports' \in 0 .. NPorts
  BY <1>5, MemoryAssumption DEF TypeInv
<1> QED BY <1>5, <1>7, <1>8, <1>9, <1>10 DEF TypeInv

\* What a process has seen of its pages.
LEMMA SeenMember ==
  ASSUME NEW S, S \subseteq VA, NEW g, g \in [S -> 0 .. 2]
  PROVE  g \in Seen
BY DEF Seen

\* A program is spawned, or fails to be.
LEMMA TypeSpawn ==
  ASSUME TypeInv, NEW s \in Procs, NEW n \in 0 .. ImagePages, NEW bad \in BOOLEAN,
         Spawn(s, n, bad)
  PROVE  TypeInv'
<1> DEFINE c == create_user_pml4(K)
           l == load_elf_into_process(c.k, c.ptr, n, bad)
<1>1. s \notin live /\ cur # Halted /\ UNCHANGED <<dma, ports, wrapped>> /\ Typed(K)
  BY DEF Spawn, TypeInv
<1>2. TStep(K, c.k) /\ c.ptr \in Frames
  <2>1. TStep(K, c.k) /\ c.ptr \in c.k.used \union {0}
    BY <1>1, CreateTyped
  <2> HIDE DEF c
  <2> QED BY <2>1, StateParts, NoFrameIsNone DEF TStep
<1>3. CASE /\ c.ptr = 0
           /\ Becomes(c.k)
           /\ cur' = IF cur = Boot THEN Halted ELSE cur
           /\ UNCHANGED <<cr3, live, pml4, heap_end, expected>>
  <2> HIDE DEF c
  <2>1. Typed(K)' /\ used \subseteq used'
    BY <1>2, <1>3, AfterCall, StateParts DEF TypeInv, K
  <2>2. CpuInv'
    BY <1>3, <2>1, CpuNames DEF TypeInv, CpuInv
  <2> QED BY <1>1, <1>3, <2>1, <2>2 DEF TypeInv
<1>4. CASE /\ c.ptr # 0
           /\ Becomes(l.k)
           /\ pml4' = [pml4 EXCEPT ![s] = c.ptr]
           /\ heap_end' = [heap_end EXCEPT ![s] = 0]
           /\ expected' = [expected EXCEPT ![s] =
                 IF l.ok THEN [va \in {Low(LinkPage + i) : i \in 0 .. n - 1} |-> 1]
                 ELSE <<>>]
           /\ live' = IF l.ok THEN live \union {s} ELSE live
           /\ cur' = IF cur # Boot THEN cur ELSE IF l.ok THEN s ELSE Halted
           /\ cr3' = IF cur = Boot /\ l.ok THEN c.ptr ELSE cr3
  <2>1. c.ptr \notin K.used /\ c.ptr \in c.k.used
    BY <1>1, <1>4, CreateTyped
  <2>2. TStep(c.k, l.k) /\ l.ok \in BOOLEAN
    BY <1>2, <2>1, LoadTypes DEF TStep
  <2>3. TStep(K, l.k)
    BY <1>2, <2>2, TStepTrans
  <2> HIDE DEF c, l
  <2>4. Typed(K)' /\ used \subseteq used' /\ used' = l.k.used
    <3>1. cr3' \in Frames
      BY <1>1, <1>2, <1>4, StateParts DEF K
    <3> QED BY <1>4, <2>3, <3>1, AfterCall DEF Becomes
  <2>5. c.ptr \in used' /\ c.ptr \notin used
    BY <2>1, <2>2, <2>4 DEF TStep, K
  <2>6. CpuInv'
    <3> USE DEF TypeInv
    <3>1. pml4 \in [Procs -> Frames] /\ CpuInv
      OBVIOUS
    <3>2. pml4'[s] = c.ptr /\ \A p \in Procs \ {s} : pml4'[p] = pml4[p]
      BY <1>4, <3>1
    <3>3. \A p \in live : p \in Procs \ {s} /\ pml4'[p] = pml4[p] /\ pml4[p] \in used
      BY <1>1, <3>1, <3>2 DEF CpuInv
    <3>4. live' \subseteq live \union {s} /\ live \subseteq live'
      BY <1>4
    <3>5. \A p \in live' : pml4'[p] \in used'
      BY <2>4, <2>5, <3>2, <3>3, <3>4
    <3>6. \A p, q \in live' : pml4'[p] = pml4'[q] => p = q
      BY <2>5, <3>1, <3>2, <3>3, <3>4 DEF CpuInv
    <3>7. live' \subseteq Procs
      BY <3>1, <3>4 DEF CpuInv
    <3>8. CASE cur = Boot /\ l.ok
      BY <1>4, <3>2, <3>5, <3>6, <3>7, <3>8, CpuNames DEF CpuInv
    <3>9. CASE cur = Boot /\ ~l.ok
      <4>1. cur' = Halted /\ live' = live /\ live = {}
        BY <1>4, <3>1, <3>9 DEF CpuInv
      <4> QED BY <4>1, CpuNames DEF CpuInv
    <3>10. CASE cur # Boot
      <4>1. cur' = cur /\ cr3' = cr3 /\ cur \in Procs
        BY <1>1, <1>4, <3>1, <3>10 DEF CpuInv
      <4>2. cur \in live /\ cr3 = pml4[cur]
        BY <3>1, <4>1 DEF CpuInv
      <4>3. cur' \in live' /\ cr3' = pml4'[cur']
        BY <3>3, <3>4, <4>1, <4>2
      <4>4. cur' # Boot /\ cur' # Halted
        BY <4>1, CpuNames
      <4> QED BY <3>5, <3>6, <3>7, <4>1, <4>3, <4>4 DEF CpuInv
    <3> QED BY <3>8, <3>9, <3>10, <2>2
  <2>7. expected' \in [Procs -> Seen]
    <3> DEFINE S == {Low(LinkPage + i) : i \in 0 .. n - 1}
               g == IF l.ok THEN [va \in S |-> 1] ELSE <<>>
    <3>1. S \subseteq VA
      <4>1. \A i \in 0 .. n - 1 : i \in 0 .. ImagePages - 1
        BY MemoryAssumption
      <4> QED BY <4>1, MappingVA
    <3> HIDE DEF S
    <3>2. [va \in S |-> 1] \in [S -> 0 .. 2] /\ <<>> \in [{} -> 0 .. 2]
      OBVIOUS
    <3>3. [va \in S |-> 1] \in Seen /\ <<>> \in Seen
      BY <3>1, <3>2, SeenMember
    <3>4. g \in Seen
      BY <3>3
    <3>5. expected' = [expected EXCEPT ![s] = g]
      BY <1>4 DEF S
    <3> HIDE DEF g
    <3> QED BY <3>4, <3>5 DEF TypeInv
  <2>8. heap_end' \in [Procs -> Breaks] /\ pml4' \in [Procs -> Frames]
    BY <1>2, <1>4, MemoryAssumption DEF TypeInv
  <2>9. dma' \subseteq used' \union {MmioPage} /\ ports' \in 0 .. NPorts
    BY <1>1, <2>4 DEF TypeInv
  <2> QED BY <1>1, <2>4, <2>6, <2>7, <2>8, <2>9 DEF TypeInv
<1>5. QED BY <1>3, <1>4 DEF Spawn

\* The scheduler switches to another process.
LEMMA TypeSwitch == ASSUME TypeInv, NEW p \in Procs, Switch(p) PROVE TypeInv'
<1>1. /\ cur \in Procs /\ p \in live /\ cur' = p /\ cr3' = pml4[p]
      /\ UNCHANGED <<used, mem, fault, dropped, dma, ports, live, pml4, heap_end,
                     expected, wrapped>>
  BY DEF Switch
<1>2. cr3' \in Frames /\ Becomes(K)
  BY <1>1 DEF TypeInv, Becomes, K
<1>3. Typed(K)'
  <2>1. TStep(K, K)
    BY TStepRefl DEF TypeInv
  <2> QED BY <1>2, <2>1, AfterCall
<1>4. CpuInv'
  BY <1>1, CpuNames DEF TypeInv, CpuInv
<1> QED BY <1>1, <1>3, <1>4 DEF TypeInv

\* A process exits.
LEMMA TypeExit == ASSUME TypeInv, Exit PROVE TypeInv'
<1>1. /\ cur \in Procs /\ live' = live \ {cur}
      /\ UNCHANGED <<used, mem, fault, dropped, dma, ports, pml4, heap_end, expected,
                     wrapped>>
  BY DEF Exit
<1>2. \/ \E p \in live \ {cur} : cur' = p /\ cr3' = pml4[p]
      \/ live = {cur} /\ cur' = Halted /\ cr3' = cr3
  BY DEF Exit
<1>3. cr3' \in Frames /\ Becomes(K)
  <2>1. live \subseteq Procs /\ cr3 \in Frames
    BY StateParts DEF TypeInv, CpuInv, K
  <2> QED BY <1>1, <1>2, <2>1 DEF TypeInv, Becomes, K
<1>4. Typed(K)'
  <2>1. TStep(K, K)
    BY TStepRefl DEF TypeInv
  <2> QED BY <1>3, <2>1, AfterCall
<1>5. CpuInv'
  <2>1. CpuInv
    BY DEF TypeInv
  <2>2. live' \subseteq live /\ live \subseteq Procs /\ pml4' = pml4 /\ used' = used
    BY <1>1, <2>1 DEF CpuInv
  <2>3. CASE \E p \in live \ {cur} : cur' = p /\ cr3' = pml4[p]
    <3>1. cur' \in live' /\ cr3' = pml4'[cur'] /\ cur' \in Procs
      BY <1>1, <2>2, <2>3
    <3> QED BY <2>1, <2>2, <3>1, CpuNames DEF CpuInv
  <2>4. CASE live = {cur} /\ cur' = Halted
    <3>1. live' = {}
      BY <1>1, <2>4
    <3> QED BY <2>1, <2>2, <2>4, <3>1, CpuNames DEF CpuInv
  <2> QED BY <1>2, <2>3, <2>4
<1> QED BY <1>1, <1>4, <1>5 DEF TypeInv

\* A program writes to its memory.
LEMMA TypeStore == ASSUME TypeInv, NEW va \in Pages, Store(va) PROVE TypeInv'
<1> DEFINE f == Walk(mem, cr3, va)
           k == [K EXCEPT !.mem = [mem EXCEPT ![f] = Fill(2)]]
<1>1. /\ cur \in Procs /\ va \in DOMAIN expected[cur] /\ f # NoFrame
      /\ mem' = [mem EXCEPT ![f] = Fill(2)]
      /\ expected' = [expected EXCEPT ![cur][va] = 2]
      /\ UNCHANGED <<used, cr3, fault, dropped, dma, ports, cur, live, pml4,
                     heap_end, wrapped>>
  BY DEF Store
<1>2. Typed(K) /\ K.mem = mem /\ K.cr3 = cr3
  BY DEF TypeInv, K
<1>3. f \in Frames
  <2>1. va \in VA
    BY MappingVA
  <2> QED BY <1>1, <1>2, <2>1, StateParts, WalkTyped
<1>4. [mem EXCEPT ![f] = Fill(2)] \in Mems
  BY <1>2, <1>3, FunctionsTyped, MemPutPage, StateParts
<1>5. TStep(K, k)
  BY <1>2, <1>4, NewMem
<1>6. Becomes(k)
  BY <1>1, <1>2 DEF Becomes, K
<1> HIDE DEF f, k
<1>7. Typed(K)'
  BY <1>1, <1>2, <1>5, <1>6, AfterCall, StateParts
<1>8. CpuInv'
  BY <1>1 DEF TypeInv, CpuInv
<1>9. expected' \in [Procs -> Seen]
  <2>1. expected \in [Procs -> Seen] /\ expected[cur] \in Seen
    BY <1>1 DEF TypeInv
  <2>2. PICK S \in SUBSET VA : expected[cur] \in [S -> 0 .. 2]
    BY <2>1 DEF Seen
  <2>3. [expected[cur] EXCEPT ![va] = 2] \in [S -> 0 .. 2]
    <3>1. PICK T : T = 0 .. 2
      OBVIOUS
    <3>2. 2 \in T /\ expected[cur] \in [S -> T]
      BY <2>2, <3>1
    <3>3. [expected[cur] EXCEPT ![va] = 2] \in [S -> T]
      BY <3>2, Zenon
    <3> QED BY <3>1, <3>3
  <2> DEFINE g == [expected[cur] EXCEPT ![va] = 2]
  <2>4. g \in Seen
    BY <2>2, <2>3, SeenMember
  <2>5. expected' = [expected EXCEPT ![cur] = g]
    BY <1>1
  <2> HIDE DEF g
  <2> QED BY <1>1, <2>1, <2>4, <2>5
<1> QED BY <1>1, <1>7, <1>8, <1>9 DEF TypeInv

\* A heap grows.
LEMMA TypeGrows == ASSUME TypeInv, NEW new \in Breaks, BrkGrows(new) PROVE TypeInv'
<1> DEFINE from == PageEnd(heap_end[cur])
           to == PageEnd(new)
           fresh == {HeapPage(n) : n \in from .. to - 1}
           r == Grow(K, pml4[cur], from, to)
           g == [va \in DOMAIN expected[cur] \union fresh |->
                   IF va \in fresh THEN Unseen ELSE expected[cur][va]]
<1>1. /\ cur \in Procs /\ from <= to /\ Becomes(r.k)
      /\ heap_end' = IF r.ok THEN [heap_end EXCEPT ![cur] = new] ELSE heap_end
      /\ expected' = IF r.ok THEN [expected EXCEPT ![cur] = g] ELSE expected
      /\ UNCHANGED <<cr3, dma, ports, cur, live, pml4, wrapped>>
  BY DEF BrkGrows
<1>2. heap_end[cur] \in Breaks
  BY <1>1 DEF TypeInv
<1>3. /\ from \in Int /\ to \in Int /\ from <= to
      /\ \A n \in from .. to - 1 : HeapPage(n) \in VA
  BY <1>1, <1>2, PageEnds, BetweenEnds
<1> HIDE DEF from, to
<1>4. TStep(K, r.k) /\ r.ok \in BOOLEAN
  <2>1. pml4[cur] \in K.used /\ Typed(K)
    BY <1>1 DEF TypeInv, CpuInv, K
  <2> QED BY <1>3, <2>1, GrowTypes
<1> HIDE DEF r
<1>5. Typed(K)' /\ used \subseteq used'
  BY <1>1, <1>4, AfterCall, StateParts DEF TypeInv, K
<1>6. CpuInv'
  BY <1>1, <1>5 DEF TypeInv, CpuInv
<1>7. g \in Seen
  <2>1. fresh \subseteq VA
    BY <1>3
  <2> HIDE DEF fresh
  <2>2. expected[cur] \in Seen
    BY <1>1 DEF TypeInv
  <2>3. PICK S \in SUBSET VA : expected[cur] \in [S -> 0 .. 2]
    BY <2>2 DEF Seen
  <2>4. g \in [S \union fresh -> 0 .. 2]
    BY <2>3 DEF Unseen
  <2> HIDE DEF g
  <2> QED BY <2>1, <2>4, SeenMember
<1> HIDE DEF g
<1>8. expected' \in [Procs -> Seen] /\ heap_end' \in [Procs -> Breaks]
  BY <1>1, <1>4, <1>7 DEF TypeInv
<1>9. dma' \subseteq used' \union {MmioPage}
  BY <1>1, <1>5 DEF TypeInv
<1> QED BY <1>1, <1>5, <1>6, <1>8, <1>9 DEF TypeInv

\* A heap shrinks.
LEMMA TypeShrinks == ASSUME TypeInv, NEW new \in Breaks, BrkShrinks(new) PROVE TypeInv'
<1> DEFINE from == PageEnd(heap_end[cur])
           to == PageEnd(new)
           gone == {HeapPage(n) : n \in to .. from - 1}
           k == Shrink(K, pml4[cur], from, to)
           g == [va \in DOMAIN expected[cur] \ gone |-> expected[cur][va]]
<1>1. /\ cur \in Procs /\ to < from /\ Becomes(k)
      /\ heap_end' = [heap_end EXCEPT ![cur] = new]
      /\ expected' = [expected EXCEPT ![cur] = g]
      /\ UNCHANGED <<cr3, dma, ports, cur, live, pml4, wrapped>>
  BY DEF BrkShrinks
<1>2. heap_end[cur] \in Breaks
  BY <1>1 DEF TypeInv
<1>3. /\ from \in Int /\ to \in Int /\ to <= from
      /\ \A n \in to .. from - 1 : HeapPage(n) \in VA
  BY <1>1, <1>2, PageEnds, BetweenEnds
<1> HIDE DEF from, to
<1>4. TStep(K, k)
  <2>1. pml4[cur] \in Frames /\ Typed(K)
    BY <1>1 DEF TypeInv
  <2> QED BY <1>3, <2>1, ShrinkTypes
<1> HIDE DEF k
<1>5. Typed(K)' /\ used \subseteq used'
  BY <1>1, <1>4, AfterCall, StateParts DEF TypeInv, K
<1>6. CpuInv'
  BY <1>1, <1>5 DEF TypeInv, CpuInv
<1>7. g \in Seen
  <2> HIDE DEF gone
  <2>1. expected[cur] \in Seen
    BY <1>1 DEF TypeInv
  <2>2. PICK S \in SUBSET VA : expected[cur] \in [S -> 0 .. 2]
    BY <2>1 DEF Seen
  <2>3. g \in [S \ gone -> 0 .. 2] /\ S \ gone \subseteq VA
    BY <2>2
  <2> HIDE DEF g
  <2> QED BY <2>3, SeenMember
<1> HIDE DEF g
<1>8. expected' \in [Procs -> Seen] /\ heap_end' \in [Procs -> Breaks]
  BY <1>1, <1>7 DEF TypeInv
<1>9. dma' \subseteq used' \union {MmioPage}
  BY <1>1, <1>5 DEF TypeInv
<1> QED BY <1>1, <1>5, <1>6, <1>8, <1>9 DEF TypeInv

\* A break goes round the end of the address space.
LEMMA TypeWraps == ASSUME TypeInv, NEW new \in Breaks, BrkWraps(new) PROVE TypeInv'
<1> DEFINE from == PageEnd(heap_end[cur])
           to == PageEnd(new)
           k == Shrink(K, pml4[cur], from, to)
<1>1. /\ cur \in Procs /\ to < from /\ Becomes(k) /\ wrapped' = TRUE
      /\ \/ cur' = Halted /\ live' = {} /\ UNCHANGED <<heap_end, expected>>
         \/ /\ heap_end' = [heap_end EXCEPT ![cur] = new]
            /\ expected' = [expected EXCEPT ![cur] = <<>>]
            /\ UNCHANGED <<cur, live>>
      /\ UNCHANGED <<cr3, dma, ports, pml4>>
  BY DEF BrkWraps
<1>2. heap_end[cur] \in Breaks
  BY <1>1 DEF TypeInv
<1>3. /\ from \in Int /\ to \in Int /\ to <= from
      /\ \A n \in to .. from - 1 : HeapPage(n) \in VA
  BY <1>1, <1>2, PageEnds, BetweenEnds
<1> HIDE DEF from, to
<1>4. TStep(K, k)
  <2>1. pml4[cur] \in Frames /\ Typed(K)
    BY <1>1 DEF TypeInv
  <2> QED BY <1>3, <2>1, ShrinkTypes
<1> HIDE DEF k
<1>5. Typed(K)' /\ used \subseteq used'
  BY <1>1, <1>4, AfterCall, StateParts DEF TypeInv, K
<1>6. CpuInv'
  <2>1. CASE cur' = Halted /\ live' = {}
    BY <2>1, CpuNames DEF CpuInv
  <2>2. CASE UNCHANGED <<cur, live>>
    BY <1>1, <1>5, <2>2 DEF TypeInv, CpuInv
  <2> QED BY <1>1, <2>1, <2>2
<1>7. expected' \in [Procs -> Seen] /\ heap_end' \in [Procs -> Breaks]
  <2>1. <<>> \in [{} -> 0 .. 2]
    OBVIOUS
  <2>2. <<>> \in Seen
    BY <2>1, SeenMember
  <2> QED BY <1>1, <2>2 DEF TypeInv
<1>8. dma' \subseteq used' \union {MmioPage}
  BY <1>1, <1>5 DEF TypeInv
<1> QED BY <1>1, <1>5, <1>6, <1>7, <1>8 DEF TypeInv

\* Every step keeps the types, whatever the kernel does to its tables.
LEMMA TypeStep == TypeInv /\ [Next]_vars => TypeInv'
<1> SUFFICES ASSUME TypeInv, [Next]_vars PROVE TypeInv'
  OBVIOUS
<1>1. CASE UNCHANGED vars
  BY <1>1, TypeStutter
<1>2. CASE ahci_find_controller
  BY <1>2, TypeController
<1>3. CASE ahci_port_init
  BY <1>3, TypePort
<1>4. ASSUME NEW s \in Procs, NEW n \in 0 .. ImagePages, NEW bad \in BOOLEAN,
             Spawn(s, n, bad)
      PROVE  TypeInv'
  BY <1>4, TypeSpawn
<1>5. ASSUME NEW p \in Procs, Switch(p) PROVE TypeInv'
  BY <1>5, TypeSwitch
<1>6. CASE Exit
  BY <1>6, TypeExit
<1>7. ASSUME NEW va \in Pages, Store(va) PROVE TypeInv'
  BY <1>7, TypeStore
<1>8. ASSUME NEW new \in Breaks, BrkGrows(new) PROVE TypeInv'
  BY <1>8, TypeGrows
<1>9. ASSUME NEW new \in Breaks, BrkShrinks(new) PROVE TypeInv'
  BY <1>9, TypeShrinks
<1>10. ASSUME NEW new \in Breaks, BrkWraps(new) PROVE TypeInv'
  BY <1>10, TypeWraps
<1> QED BY <1>1, <1>2, <1>3, <1>4, <1>5, <1>6, <1>7, <1>8, <1>9, <1>10 DEF Next

\* The invariant of the types holds always.
LEMMA TypeAlways == Spec => []TypeInv
BY TypeInit, TypeStep, PTL DEF Spec

\* TypeOK holds always: the bitmap, the tables and the pages programs see
\* have their types, whatever the kernel has mapped over its own tables.
THEOREM TypeCorrect == Spec => []TypeOK
BY TypeAlways, TypeInvOK, PTL

-----------------------------------------------------------------------------
(* What every frame is for. A label says where a frame hangs in the tables *)
(* of a root r: the table of level l behind the entries a, b, c, or, at    *)
(* level 5, the page behind a, b, c and d. Level 6 is a page table of the  *)
(* kernel, which all roots share; level 0 is none of these.                *)

Lab(l, r, a, b, c, d) == [l |-> l, r |-> r, a |-> a, b |-> b, c |-> c, d |-> d]

\* Tables of the identity map are below the first NPD entries.
Labels == {x \in [l : 0 .. 6, r : Frames, a : Index, b : Index, c : Index, d : Index] :
             x.l = 6 \/ (x.l \in {3, 4} /\ x.a = 0) => x.b \in 0 .. NPD - 1}

Root(r) == Lab(1, r, 0, 0, 0, 0)
Shared(b, c) == Lab(6, 0, 0, b, c, 0)
Leaf(r, va) == Lab(5, r, va[1], va[2], va[3], va[4])

\* What hangs from the entry i of a table.
Child(x, i) == IF x.l = 1 THEN Lab(2, x.r, i, 0, 0, 0)
               ELSE IF x.l = 2 THEN Lab(3, x.r, x.a, i, 0, 0)
               ELSE IF x.l = 3 THEN Lab(4, x.r, x.a, x.b, i, 0)
               ELSE Lab(5, x.r, x.a, x.b, x.c, i)

Leads(e, own, y) == e.p /\ ~e.h /\ e.to \in Frames /\ own[e.to] = y

\* What an entry of a table may be when it does not lead on: in a copy of the
\* identity map what the kernel has, elsewhere nothing.
Plain(m, x, i, e) ==
  IF x.l = 6 \/ (x.l = 4 /\ x.a = 0) THEN e = Entry(Nth(x.b, x.c, i))
  ELSE IF x.l = 3 /\ x.a = 0 THEN e = m[kernel_pd(x.b)][i]
  ELSE ~e.p

\* Only the pages programs are linked at are mapped in place of the identity.
Onward(own, x, i, e) ==
  /\ x.l # 6 /\ Leads(e, own, Child(x, i))
  /\ x.l = 4 /\ x.a = 0 => Nth(x.b, x.c, i) \in LinkFrames

EntryOk(m, own, x, i, e) ==
  x.l \in {1, 2, 3, 4, 6} => Plain(m, x, i, e) \/ Onward(own, x, i, e)

EntriesOk(m, own) ==
  \A t \in Frames, i \in Index : EntryOk(m, own, own[t], i, m[t][i])

\* The tables of the kernel map the identity, by huge pages but where the disk
\* driver has had one split.
KernelTop(m) ==
  /\ m[kernel_pml4] = [i \in Index |-> IF i = 0 THEN Entry(kernel_pdp) ELSE Zero]
  /\ m[kernel_pdp] = [i \in Index |-> IF i < NPD THEN Entry(kernel_pd(i)) ELSE Zero]

KernelPds(m, own, D) ==
  \A b \in 0 .. NPD - 1, c \in Index :
    LET e == m[kernel_pd(b)][c] IN
    \/ e = Huge(Nth(b, c, 0))
    \/ Leads(e, own, Shared(b, c)) /\ \E f \in D : f \div Fan = b * Fan + c

\* The allocator has given out what has a label, once.
Owners(own, U, D) ==
  \A f \in Frames : own[f].l # 0 => f \in U /\ f \notin Image \union ModulePages \union D

Sound(k, D, own) ==
  /\ own \in [Frames -> Labels]
  /\ EntriesOk(k.mem, own)
  /\ KernelTop(k.mem)
  /\ KernelPds(k.mem, own, D)
  /\ Owners(own, k.used, D)
  /\ D \subseteq k.used \union {MmioPage}

\* A root that has all of the identity map.
Whole(m, own, r) ==
  /\ r \in Frames /\ own[r] = Root(r)
  /\ Leads(m[r][0], own, Lab(2, r, 0, 0, 0, 0))
  /\ \A b \in 0 .. NPD - 1 : Leads(m[m[r][0].to][b], own, Lab(3, r, 0, b, 0, 0))

Active(k, own) == k.cr3 = kernel_pml4 \/ Whole(k.mem, own, k.cr3)

Fine(k, D, own) ==
  /\ Typed(k) /\ Sound(k, D, own) /\ Active(k, own) /\ LinkFree(k.used, D)

\* What labels are.
LEMMA LabelParts ==
  ASSUME NEW x \in Labels
  PROVE  /\ x.l \in 0 .. 6 /\ x.r \in Frames /\ x.a \in Index /\ x.b \in Index
         /\ x.c \in Index /\ x.d \in Index
         /\ x.l = 6 \/ (x.l \in {3, 4} /\ x.a = 0) => x.b \in 0 .. NPD - 1
BY DEF Labels

\* Equal labels have equal parts.
LEMMA LabEq ==
  ASSUME NEW l, NEW r, NEW a, NEW b, NEW c, NEW d,
         NEW l2, NEW r2, NEW a2, NEW b2, NEW c2, NEW d2,
         Lab(l, r, a, b, c, d) = Lab(l2, r2, a2, b2, c2, d2)
  PROVE  l = l2 /\ r = r2 /\ a = a2 /\ b = b2 /\ c = c2 /\ d = d2
BY DEF Lab

\* The parts of a label.
LEMMA LabFields ==
  ASSUME NEW l, NEW r, NEW a, NEW b, NEW c, NEW d
  PROVE  LET x == Lab(l, r, a, b, c, d)
         IN  x.l = l /\ x.r = r /\ x.a = a /\ x.b = b /\ x.c = c /\ x.d = d
BY DEF Lab

\* What hangs from a table has a label, one level below.
LEMMA ChildOf ==
  ASSUME NEW x \in Labels, NEW i \in Index, x.l \in 1 .. 4,
         x.l = 2 /\ x.a = 0 => i \in 0 .. NPD - 1
  PROVE  /\ Child(x, i) \in Labels /\ Child(x, i).l = x.l + 1 /\ Child(x, i).r = x.r
         /\ x.l # 1 => Child(x, i).a = x.a
<1>0. /\ x.r \in Frames /\ x.a \in Index /\ x.b \in Index /\ x.c \in Index
      /\ x.l \in {3, 4} /\ x.a = 0 => x.b \in 0 .. NPD - 1
      /\ 0 \in Index
  BY LabelParts, Sizes
<1>1. CASE x.l = 1
  <2>1. Child(x, i) = Lab(2, x.r, i, 0, 0, 0)
    BY <1>1 DEF Child
  <2>2. Lab(2, x.r, i, 0, 0, 0) \in Labels
    BY <1>0 DEF Lab, Labels
  <2> QED BY <1>1, <2>1, <2>2 DEF Lab
<1>2. CASE x.l = 2
  <2>1. Child(x, i) = Lab(3, x.r, x.a, i, 0, 0)
    BY <1>2 DEF Child
  <2>2. Lab(3, x.r, x.a, i, 0, 0) \in Labels
    BY <1>0, <1>2 DEF Lab, Labels
  <2> QED BY <1>2, <2>1, <2>2 DEF Lab
<1>3. CASE x.l = 3
  <2>1. Child(x, i) = Lab(4, x.r, x.a, x.b, i, 0)
    BY <1>3 DEF Child
  <2>2. Lab(4, x.r, x.a, x.b, i, 0) \in Labels
    BY <1>0, <1>3 DEF Lab, Labels
  <2> QED BY <1>3, <2>1, <2>2 DEF Lab
<1>4. CASE x.l = 4
  <2>1. Child(x, i) = Lab(5, x.r, x.a, x.b, x.c, i)
    BY <1>4 DEF Child
  <2>2. Lab(5, x.r, x.a, x.b, x.c, i) \in Labels
    BY <1>0, <1>4 DEF Lab, Labels
  <2> QED BY <1>4, <2>1, <2>2 DEF Lab
<1> QED BY <1>1, <1>2, <1>3, <1>4

\* What is in use is not where programs are linked.
LEMMA NotAtLink ==
  ASSUME NEW U, NEW D, LinkFree(U, D), NEW f,
         f \in Image \/ f \in U \ ModulePages \/ f \in D
  PROVE  f \notin LinkFrames
BY DEF LinkFree, Image

\* Less in use is as good.
LEMMA LinkFreeLess ==
  ASSUME NEW U, NEW V, NEW D, NEW E, LinkFree(V, E), U \subseteq V, D \subseteq E
  PROVE  LinkFree(U, D)
BY DEF LinkFree

\* The last two levels of a walk.
Final(m, e, d) == IF e.h THEN e.to + d
                  ELSE IF ~Below(m, e, d).p THEN NoFrame ELSE Below(m, e, d).to

\* A walk, one entry after the other.
LEMMA WalkIs ==
  ASSUME NEW m, NEW root, NEW a, NEW b, NEW c, NEW d
  PROVE  Walk(m, root, <<a, b, c, d>>) =
           Final(m, Below(m, Below(m, m[root][a], b), c), d)
BY DEF Walk, Final

\* An entry that leads on is followed.
LEMMA BelowLeads ==
  ASSUME NEW m, NEW e, NEW i, NEW own, NEW y, Leads(e, own, y)
  PROVE  Below(m, e, i) = m[e.to][i]
BY DEF Below, Leads

\* Behind an entry of a kernel page directory is the identity.
LEMMA KernelFinal ==
  ASSUME NEW m, NEW own, NEW D, EntriesOk(m, own), KernelPds(m, own, D),
         NEW b \in 0 .. NPD - 1, NEW c \in Index, NEW d \in Index
  PROVE  Final(m, m[kernel_pd(b)][c], d) = Nth(b, c, d)
<1> DEFINE e == m[kernel_pd(b)][c]
<1>1. CASE e = Huge(Nth(b, c, 0))
  <2>1. e.h /\ e.to = Nth(b, c, 0)
    BY <1>1 DEF Huge
  <2> DEFINE q == (b * Fan + c) * Fan
  <2>2. q \in Int
    BY Sizes
  <2>3. Nth(b, c, 0) = q + 0 /\ Nth(b, c, d) = q + d
    BY DEF Nth
  <2> HIDE DEF q, e
  <2>4. d \in Int
    BY Sizes
  <2> QED BY <2>1, <2>2, <2>3, <2>4 DEF Final, e
<1>2. CASE Leads(e, own, Shared(b, c))
  <2> DEFINE t == e.to
  <2>1. e.p /\ ~e.h /\ t \in Frames /\ own[t] = Shared(b, c)
    BY <1>2 DEF Leads
  <2>2. EntryOk(m, own, own[t], d, m[t][d])
    BY <2>1 DEF EntriesOk
  <2>3. own[t].l = 6 /\ own[t].b = b /\ own[t].c = c
    BY <2>1 DEF Shared, Lab
  <2>4. m[t][d] = Entry(Nth(b, c, d))
    BY <2>2, <2>3 DEF EntryOk, Plain, Onward
  <2>5. m[t][d].p /\ m[t][d].to = Nth(b, c, d)
    BY <2>4 DEF Entry
  <2>6. Below(m, e, d) = m[t][d]
    BY <1>2, BelowLeads
  <2> HIDE DEF e, t
  <2> QED BY <2>1, <2>5, <2>6 DEF Final, e
<1> QED BY <1>1, <1>2 DEF KernelPds

\* The kernel's own tables map every frame to itself.
LEMMA KernelWalk ==
  ASSUME NEW m, NEW own, NEW D, EntriesOk(m, own), KernelTop(m), KernelPds(m, own, D),
         NEW n \in Frames
  PROVE  Walk(m, kernel_pml4, Low(n)) = n
<1>1. PICK b \in 0 .. NPD - 1, c \in Index, d \in Index : n = Nth(b, c, d)
  BY NthOfFrame
<1>2. Low(n) = <<0, b, c, d>>
  BY <1>1, LowOfNth
<1>3. m[kernel_pml4][0] = Entry(kernel_pdp)
  BY Sizes DEF KernelTop
<1>4. m[kernel_pdp][b] = Entry(kernel_pd(b))
  <2>1. b \in Index /\ b < NPD
    BY Sizes
  <2> QED BY <2>1 DEF KernelTop
<1>5. Below(m, Entry(kernel_pdp), b) = m[kernel_pdp][b]
  BY DEF Below, Entry
<1>6. Below(m, Entry(kernel_pd(b)), c) = m[kernel_pd(b)][c]
  BY DEF Below, Entry
<1>7. Walk(m, kernel_pml4, <<0, b, c, d>>) = Final(m, m[kernel_pd(b)][c], d)
  BY <1>3, <1>4, <1>5, <1>6, WalkIs
<1> QED BY <1>1, <1>2, <1>7, KernelFinal

\* And so do those of a program, but for the frames where programs are linked.
LEMMA WholeWalk ==
  ASSUME NEW m, NEW own, NEW D, EntriesOk(m, own), KernelPds(m, own, D),
         NEW r, Whole(m, own, r), NEW n \in Frames, n \notin LinkFrames
  PROVE  Walk(m, r, Low(n)) = n
<1>1. PICK b \in 0 .. NPD - 1, c \in Index, d \in Index : n = Nth(b, c, d)
  BY NthOfFrame
<1>2. Low(n) = <<0, b, c, d>> /\ b \in Index
  BY <1>1, LowOfNth, Sizes
<1> DEFINE e1 == m[r][0]
           e2 == m[e1.to][b]
           t3 == e2.to
           e3 == m[t3][c]
<1>3. Leads(e1, own, Lab(2, r, 0, 0, 0, 0)) /\ Leads(e2, own, Lab(3, r, 0, b, 0, 0))
  BY DEF Whole
<1>4. Below(m, e1, b) = e2 /\ Below(m, e2, c) = e3
  BY <1>3, BelowLeads
<1>5. Walk(m, r, <<0, b, c, d>>) = Final(m, e3, d)
  BY <1>4, WalkIs
<1>6. t3 \in Frames /\ own[t3] = Lab(3, r, 0, b, 0, 0)
  BY <1>3 DEF Leads
<1> HIDE DEF e1, e2, t3
<1>7. EntryOk(m, own, own[t3], c, e3)
  BY <1>6 DEF EntriesOk
<1>8. own[t3].l = 3 /\ own[t3].a = 0 /\ own[t3].b = b /\ own[t3].r = r
  BY <1>6 DEF Lab
<1>9. \/ e3 = m[kernel_pd(b)][c]
      \/ Leads(e3, own, Lab(4, r, 0, b, c, 0))
  BY <1>7, <1>8 DEF EntryOk, Plain, Onward, Child
<1>10. CASE e3 = m[kernel_pd(b)][c]
  BY <1>1, <1>2, <1>5, <1>10, KernelFinal
<1>11. CASE Leads(e3, own, Lab(4, r, 0, b, c, 0))
  <2> DEFINE t4 == e3.to
  <2>1. e3.p /\ ~e3.h /\ t4 \in Frames /\ own[t4] = Lab(4, r, 0, b, c, 0)
    BY <1>11 DEF Leads
  <2>2. EntryOk(m, own, own[t4], d, m[t4][d])
    BY <2>1 DEF EntriesOk
  <2>3. /\ own[t4].l = 4 /\ own[t4].a = 0 /\ own[t4].b = b /\ own[t4].c = c
    BY <2>1 DEF Lab
  <2>4. m[t4][d] = Entry(n)
    BY <1>1, <2>2, <2>3 DEF EntryOk, Plain, Onward
  <2>5. Below(m, e3, d) = m[t4][d]
    BY <1>11, BelowLeads
  <2>6. m[t4][d].p /\ m[t4][d].to = n
    BY <2>4 DEF Entry
  <2> HIDE DEF e3, t4
  <2> QED BY <1>2, <1>5, <2>1, <2>5, <2>6 DEF Final
<1> QED BY <1>9, <1>10, <1>11

\* The kernel's pointers name what they mean.
LEMMA Identity ==
  ASSUME NEW k, NEW D, NEW own, Fine(k, D, own), NEW f \in Frames, f \notin LinkFrames
  PROVE  At(k, f) = f
BY KernelWalk, WholeWalk DEF Fine, Sound, Active, At

\* So the kernel reads and writes the frame it means.
LEMMA Access ==
  ASSUME NEW k, NEW D, NEW own, Fine(k, D, own), NEW f \in Frames, f \notin LinkFrames
  PROVE  /\ \A i \in Index : Read(k, f, i) = k.mem[f][i]
         /\ \A i \in Index, w \in GoodWord :
              Write(k, f, i, w) = [k EXCEPT !.mem = [k.mem EXCEPT ![f][i] = w]]
         /\ \A page : WritePage(k, f, page) = [k EXCEPT !.mem = [k.mem EXCEPT ![f] = page]]
<1>1. At(k, f) = f /\ f # NoFrame
  BY Identity, NoFrameIsNone
<1>2. \A i \in Index : Read(k, f, i) = k.mem[f][i]
  BY <1>1 DEF Read
<1>3. \A i \in Index, w \in GoodWord :
        Write(k, f, i, w) = [k EXCEPT !.mem = [k.mem EXCEPT ![f][i] = w]]
  BY <1>1 DEF Write
<1>4. \A page : WritePage(k, f, page) = [k EXCEPT !.mem = [k.mem EXCEPT ![f] = page]]
  BY <1>1 DEF WritePage
<1> QED BY <1>2, <1>3, <1>4
-----------------------------------------------------------------------------
(* What the functions of the kernel keep of the tables that are there.     *)

\* Labels stay; pages keep their contents and entries that lead on are kept,
\* except the pages in X and the entries that lead to them.
Step(k, own, r, own2, X) ==
  \A t \in Frames : own[t].l # 0 =>
    /\ own2[t] = own[t]
    /\ own[t].l = 5 /\ own[t] \notin X => r.mem[t] = k.mem[t]
    /\ own[t].l \in 1 .. 4 =>
         \A i \in Index :
           Leads(k.mem[t][i], own, Child(own[t], i)) /\ Child(own[t], i) \notin X
             => r.mem[t][i] = k.mem[t][i]

Leaves == {x \in Labels : x.l = 5}

\* What hangs from a table has a label, of a page only below a page table.
LEMMA ChildLevel == \A x, i : Child(x, i).l # 0 /\ (x.l \in 1 .. 3 => Child(x, i).l # 5)
<1> SUFFICES ASSUME NEW x, NEW i
             PROVE  Child(x, i).l # 0 /\ (x.l \in 1 .. 3 => Child(x, i).l # 5)
  OBVIOUS
<1>1. CASE x.l = 1
  BY <1>1 DEF Child, Lab
<1>2. CASE x.l # 1 /\ x.l = 2
  BY <1>2 DEF Child, Lab
<1>3. CASE x.l # 1 /\ x.l # 2 /\ x.l = 3
  BY <1>3 DEF Child, Lab
<1>4. CASE x.l # 1 /\ x.l # 2 /\ x.l # 3
  BY <1>4 DEF Child, Lab
<1> QED BY <1>1, <1>2, <1>3, <1>4

\* Doing nothing keeps everything.
LEMMA StepRefl == ASSUME NEW k, NEW own, NEW X PROVE Step(k, own, k, own, X)
BY DEF Step

\* An entry that leads on leads on after a step.
LEMMA LeadsKept ==
  ASSUME NEW k, NEW own, NEW r, NEW own2, NEW X, Step(k, own, r, own2, X),
         NEW e, NEW y, y.l # 0, Leads(e, own, y)
  PROVE  Leads(e, own2, y)
BY DEF Step, Leads

\* One step after another.
LEMMA StepTrans ==
  ASSUME NEW k, NEW own, NEW l, NEW own1, NEW r, NEW own2, NEW X, NEW Y,
         Step(k, own, l, own1, X), Step(l, own1, r, own2, Y)
  PROVE  Step(k, own, r, own2, X \union Y)
<1> SUFFICES ASSUME NEW t \in Frames, own[t].l # 0
             PROVE  /\ own2[t] = own[t]
                    /\ own[t].l = 5 /\ own[t] \notin X \union Y => r.mem[t] = k.mem[t]
                    /\ own[t].l \in 1 .. 4 =>
                         \A i \in Index :
                           Leads(k.mem[t][i], own, Child(own[t], i))
                             /\ Child(own[t], i) \notin X \union Y
                             => r.mem[t][i] = k.mem[t][i]
  BY DEF Step
<1>1. own1[t] = own[t] /\ own2[t] = own[t]
  BY DEF Step
<1>2. own[t].l = 5 /\ own[t] \notin X \union Y => r.mem[t] = k.mem[t]
  BY <1>1 DEF Step
<1>3. ASSUME own[t].l \in 1 .. 4, NEW i \in Index,
             Leads(k.mem[t][i], own, Child(own[t], i)), Child(own[t], i) \notin X \union Y
      PROVE  r.mem[t][i] = k.mem[t][i]
  <2>1. l.mem[t][i] = k.mem[t][i]
    BY <1>3 DEF Step
  <2>2. Leads(l.mem[t][i], own1, Child(own1[t], i))
    BY <1>1, <1>3, <2>1, ChildLevel, LeadsKept
  <2>3. r.mem[t][i] = l.mem[t][i]
    BY <1>1, <1>3, <2>2 DEF Step
  <2> QED BY <2>1, <2>3
<1>4. own[t].l \in 1 .. 4 =>
         \A i \in Index :
           Leads(k.mem[t][i], own, Child(own[t], i))
             /\ Child(own[t], i) \notin X \union Y
             => r.mem[t][i] = k.mem[t][i]
  BY <1>3
<1> QED BY <1>1, <1>2, <1>4, Zenon

\* The tables of the kernel are in its image.
LEMMA KernelFrames ==
  /\ kernel_pml4 \in Image /\ kernel_pdp \in Image
  /\ \A b \in 0 .. NPD - 1 : kernel_pd(b) \in Image
  /\ Image \subseteq Frames
<1>1. KernelPages \in Nat /\ NPD \in Nat /\ NPD >= 1 /\ 3 + NPD <= KernelPages
  BY Sizes
<1>2. Image \subseteq Frames
  BY Sizes DEF Image
<1> QED BY <1>1, <1>2 DEF Image, kernel_pml4, kernel_pdp, kernel_pd

\* The root of a program stays whole.
LEMMA WholeKept ==
  ASSUME NEW k, NEW own, NEW r, NEW own2, NEW X, Step(k, own, r, own2, X),
         \A x \in X : x.l = 5, NEW root, Whole(k.mem, own, root)
  PROVE  Whole(r.mem, own2, root)
<1> DEFINE e1 == k.mem[root][0]
           t2 == e1.to
<1>1. root \in Frames /\ own[root] = Root(root) /\ 0 \in Index
  BY Sizes DEF Whole
<1>2. own[root].l = 1 /\ own[root].r = root /\ Child(own[root], 0) = Lab(2, root, 0, 0, 0, 0)
  BY <1>1 DEF Root, Lab, Child
<1>3. Leads(e1, own, Lab(2, root, 0, 0, 0, 0))
  BY DEF Whole
<1>4. own2[root] = own[root] /\ Lab(2, root, 0, 0, 0, 0).l = 2
  BY <1>1, <1>2 DEF Step, Lab
<1>5. r.mem[root][0] = e1
  BY <1>1, <1>2, <1>3, <1>4 DEF Step
<1>6. Leads(e1, own2, Lab(2, root, 0, 0, 0, 0))
  BY <1>3, <1>4, LeadsKept
<1>7. t2 \in Frames /\ own[t2] = Lab(2, root, 0, 0, 0, 0)
  BY <1>3 DEF Leads
<1> HIDE DEF e1
<1>8. ASSUME NEW b \in 0 .. NPD - 1
      PROVE  Leads(r.mem[t2][b], own2, Lab(3, root, 0, b, 0, 0))
  <2>1. Leads(k.mem[t2][b], own, Lab(3, root, 0, b, 0, 0))
    BY DEF Whole, e1
  <2>2. own[t2].l = 2 /\ own[t2].r = root /\ own[t2].a = 0
    BY <1>7 DEF Lab
  <2>3. Child(own[t2], b) = Lab(3, root, 0, b, 0, 0) /\ Lab(3, root, 0, b, 0, 0).l = 3
    BY <2>2 DEF Child, Lab
  <2>4. b \in Index
    BY Sizes
  <2>5. r.mem[t2][b] = k.mem[t2][b]
    BY <1>7, <2>1, <2>2, <2>3, <2>4 DEF Step
  <2> QED BY <2>1, <2>3, <2>5, LeadsKept
<1> QED BY <1>1, <1>4, <1>5, <1>6, <1>8 DEF Whole

\* The tables stay sound when the new entries are right.
LEMMA SoundKept ==
  ASSUME NEW k, NEW D, NEW own, Sound(k, D, own), NEW r, NEW own2 \in [Frames -> Labels],
         \A t \in Frames : own[t].l # 0 => own2[t] = own[t],
         \A g \in Image : r.mem[g] = k.mem[g],
         \A t \in Frames, i \in Index :
           own2[t].l \in {1, 2, 3, 4, 6} =>
             \/ own2[t] = own[t] /\ r.mem[t][i] = k.mem[t][i]
             \/ EntryOk(r.mem, own2, own2[t], i, r.mem[t][i]),
         Owners(own2, r.used, D), k.used \subseteq r.used
  PROVE  Sound(r, D, own2)
<1>1. \A e, y : y.l # 0 /\ Leads(e, own, y) => Leads(e, own2, y)
  BY DEF Leads
<1>2. EntriesOk(r.mem, own2)
  <2> SUFFICES ASSUME NEW t \in Frames, NEW i \in Index, own2[t].l \in {1, 2, 3, 4, 6},
                      own2[t] = own[t], r.mem[t][i] = k.mem[t][i]
               PROVE  EntryOk(r.mem, own2, own2[t], i, r.mem[t][i])
    BY DEF EntriesOk, EntryOk
  <2> DEFINE x == own[t]
             e == k.mem[t][i]
  <2>1. EntryOk(k.mem, own, x, i, e)
    BY DEF Sound, EntriesOk
  <2>2. x \in Labels
    BY DEF Sound
  <2>3. x.l = 3 /\ x.a = 0 => r.mem[kernel_pd(x.b)] = k.mem[kernel_pd(x.b)]
    BY <2>2, KernelFrames, LabelParts
  <2> HIDE DEF x, e
  <2>4. Plain(k.mem, x, i, e) => Plain(r.mem, x, i, e)
    BY <2>3 DEF Plain
  <2>5. Onward(own, x, i, e) => Onward(own2, x, i, e)
    BY <1>1, ChildLevel DEF Onward
  <2>6. EntryOk(r.mem, own2, x, i, e)
    BY <2>1, <2>4, <2>5 DEF EntryOk
  <2> QED BY <2>6 DEF x, e
<1>3. KernelTop(r.mem)
  BY KernelFrames DEF Sound, KernelTop
<1>4. KernelPds(r.mem, own2, D)
  <2> SUFFICES ASSUME NEW b \in 0 .. NPD - 1, NEW c \in Index
               PROVE  LET e == r.mem[kernel_pd(b)][c]
                      IN  \/ e = Huge(Nth(b, c, 0))
                          \/ /\ Leads(e, own2, Shared(b, c))
                             /\ \E f \in D : f \div Fan = b * Fan + c
    BY DEF KernelPds
  <2>1. r.mem[kernel_pd(b)] = k.mem[kernel_pd(b)]
    BY KernelFrames
  <2>2. Shared(b, c).l # 0
    BY DEF Shared, Lab
  <2>3. \/ k.mem[kernel_pd(b)][c] = Huge(Nth(b, c, 0))
        \/ /\ Leads(k.mem[kernel_pd(b)][c], own, Shared(b, c))
           /\ \E f \in D : f \div Fan = b * Fan + c
    BY DEF Sound, KernelPds
  <2> QED BY <1>1, <2>1, <2>2, <2>3
<1> QED BY <1>2, <1>3, <1>4 DEF Sound

\* A state is as good after a step that leaves the image, keeps the entries of
\* tables or replaces them by others that may be there.
LEMMA FineKept ==
  ASSUME NEW k, NEW D, NEW own, Fine(k, D, own), NEW r, NEW own2 \in [Frames -> Labels],
         NEW X, Step(k, own, r, own2, X), X \subseteq Leaves,
         \A g \in Image : r.mem[g] = k.mem[g],
         \A t \in Frames, i \in Index :
           own2[t].l \in {1, 2, 3, 4, 6} =>
             \/ own2[t] = own[t] /\ r.mem[t][i] = k.mem[t][i]
             \/ EntryOk(r.mem, own2, own2[t], i, r.mem[t][i]),
         Owners(own2, r.used, D), TStep(k, r), LinkFree(r.used, D)
  PROVE  Fine(r, D, own2)
<1>1. k.used \subseteq r.used /\ r.cr3 = k.cr3 /\ Typed(r)
  BY DEF TStep
<1>2. Sound(r, D, own2)
  <2>1. \A t \in Frames : own[t].l # 0 => own2[t] = own[t]
    BY DEF Step
  <2>2. Sound(k, D, own)
    BY DEF Fine
  <2> QED BY <1>1, <2>1, <2>2, SoundKept
<1>3. Active(r, own2)
  <2>1. \A x \in X : x.l = 5
    BY DEF Leaves
  <2> QED BY <1>1, <2>1, WholeKept DEF Fine, Active
<1> QED BY <1>1, <1>2, <1>3 DEF Fine

\* A frame that has no label may be written to.
LEMMA WriteNone ==
  ASSUME NEW k, NEW D, NEW own, Fine(k, D, own),
         NEW f \in Frames, own[f].l = 0, f \notin Image, f \notin LinkFrames,
         NEW page \in [Index -> GoodWord]
  PROVE  LET r == WritePage(k, f, page)
         IN  /\ Fine(r, D, own) /\ Step(k, own, r, own, {}) /\ TStep(k, r)
             /\ r.mem[f] = page /\ r.used = k.used /\ r.dropped = k.dropped
             /\ \A g \in Frames \ {f} : r.mem[g] = k.mem[g]
<1> DEFINE m == [k.mem EXCEPT ![f] = page]
           r == [k EXCEPT !.mem = m]
<1>1. WritePage(k, f, page) = r
  BY Access
<1>2. Typed(k) /\ own \in [Frames -> Labels] /\ Owners(own, k.used, D)
      /\ LinkFree(k.used, D)
  BY DEF Fine, Sound
<1>3. m \in Mems /\ m[f] = page /\ \A g \in Frames \ {f} : m[g] = k.mem[g]
  BY <1>2, StateParts, MemPutPage
<1> HIDE DEF m
<1>4. TStep(k, r) /\ r.mem = m /\ r.used = k.used /\ r.dropped = k.dropped
  BY <1>2, <1>3, NewMem
<1> HIDE DEF r
<1>5. Step(k, own, r, own, {})
  BY <1>3, <1>4 DEF Step
<1>6. \A g \in Image : r.mem[g] = k.mem[g]
  BY <1>3, <1>4, KernelFrames
<1>7. \A t \in Frames, i \in Index :
        own[t].l \in {1, 2, 3, 4, 6} => own[t] = own[t] /\ r.mem[t][i] = k.mem[t][i]
  BY <1>3, <1>4
<1>8. Fine(r, D, own)
  BY <1>2, <1>4, <1>5, <1>6, <1>7, FineKept
<1> QED BY <1>1, <1>3, <1>4, <1>5, <1>8

\* A program's page may be written to.
LEMMA WriteLeaf ==
  ASSUME NEW k, NEW D, NEW own, Fine(k, D, own),
         NEW f \in Frames, own[f].l = 5,
         NEW page \in [Index -> GoodWord]
  PROVE  LET r == [k EXCEPT !.mem = [k.mem EXCEPT ![f] = page]]
         IN  /\ Fine(r, D, own) /\ Step(k, own, r, own, {own[f]}) /\ TStep(k, r)
             /\ r.mem[f] = page /\ r.used = k.used /\ r.dropped = k.dropped
             /\ \A g \in Frames \ {f} : r.mem[g] = k.mem[g]
<1> DEFINE m == [k.mem EXCEPT ![f] = page]
           r == [k EXCEPT !.mem = m]
<1>2. Typed(k) /\ own \in [Frames -> Labels] /\ Owners(own, k.used, D)
      /\ LinkFree(k.used, D)
  BY DEF Fine, Sound
<1>3. m \in Mems /\ m[f] = page /\ \A g \in Frames \ {f} : m[g] = k.mem[g]
  BY <1>2, StateParts, MemPutPage
<1> HIDE DEF m
<1>4. TStep(k, r) /\ r.mem = m /\ r.used = k.used /\ r.dropped = k.dropped
  BY <1>2, <1>3, NewMem
<1> HIDE DEF r
<1>5. Step(k, own, r, own, {own[f]})
  BY <1>3, <1>4 DEF Step
<1>6. \A g \in Image : r.mem[g] = k.mem[g]
  <2>1. f \notin Image
    BY <1>2 DEF Owners
  <2> QED BY <1>3, <1>4, <2>1, KernelFrames
<1>7. \A t \in Frames, i \in Index :
        own[t].l \in {1, 2, 3, 4, 6} => own[t] = own[t] /\ r.mem[t][i] = k.mem[t][i]
  BY <1>3, <1>4
<1>8. {own[f]} \subseteq Leaves
  BY <1>2 DEF Leaves
<1>9. Fine(r, D, own)
  BY <1>2, <1>4, <1>5, <1>6, <1>7, <1>8, FineKept
<1> QED BY <1>3, <1>4, <1>5, <1>9 DEF r, m

\* A frame taken by the allocator is nobody's.
LEMMA AllocFine ==
  ASSUME NEW k, NEW D, NEW own, Fine(k, D, own), LinkFree(pmm_alloc_page(k).k.used, D)
  PROVE  LET a == pmm_alloc_page(k)
         IN  /\ Fine(a.k, D, own) /\ Step(k, own, a.k, own, {}) /\ TStep(k, a.k)
             /\ a.k.mem = k.mem /\ a.k.dropped = k.dropped /\ a.ptr \in Frames
             /\ a.ptr = 0 => a.k = k /\ k.used = 0 .. MAX_PAGES - 1
             /\ a.ptr # 0 => /\ a.ptr \notin k.used /\ a.ptr \in a.k.used
                             /\ a.k.used = k.used \union {a.ptr}
                             /\ own[a.ptr].l = 0 /\ a.ptr \notin LinkFrames
                             /\ a.ptr \notin Image \union ModulePages \union D
<1> DEFINE a == pmm_alloc_page(k)
<1>1. Typed(k) /\ own \in [Frames -> Labels] /\ Owners(own, k.used, D)
      /\ D \subseteq k.used \union {MmioPage}
  BY DEF Fine, Sound
<1>2. /\ TStep(k, a.k) /\ a.ptr \in Frames
      /\ a.k.mem = k.mem /\ a.k.dropped = k.dropped
      /\ \/ a.ptr = 0 /\ a.k = k /\ k.used = 0 .. MAX_PAGES - 1
         \/ /\ a.ptr # 0 /\ a.ptr \in 0 .. MAX_PAGES - 1
            /\ a.ptr \notin k.used /\ a.k.used = k.used \union {a.ptr}
  BY <1>1, Allocating
<1>3. LinkFree(a.k.used, D)
  OBVIOUS
<1> HIDE DEF a
<1>4. k.used \subseteq a.k.used
  BY <1>2 DEF TStep
<1>5. Step(k, own, a.k, own, {})
  BY <1>2 DEF Step
<1>6. Owners(own, a.k.used, D)
  BY <1>1, <1>4 DEF Owners
<1>7. Fine(a.k, D, own)
  BY <1>1, <1>2, <1>3, <1>5, <1>6, FineKept
<1>8. CASE a.ptr # 0
  <2>1. a.ptr \notin Image \union ModulePages \union D
    BY <1>1, <1>2, <1>8, Sizes DEF Typed
  <2>2. a.ptr \in a.k.used \ ModulePages
    BY <1>2, <1>8, <2>1
  <2>3. a.ptr \notin LinkFrames
    BY <1>3, <2>2, NotAtLink
  <2>4. own[a.ptr].l = 0
    BY <1>1, <1>2, <1>8 DEF Owners
  <2> QED BY <1>2, <1>5, <1>7, <1>8, <2>1, <2>2, <2>3, <2>4 DEF a
<1> QED BY <1>2, <1>5, <1>7, <1>8 DEF a

\* One word of a frame that has no label.
LEMMA WriteNoneWord ==
  ASSUME NEW k, NEW D, NEW own, Fine(k, D, own),
         NEW f \in Frames, own[f].l = 0, f \notin Image, f \notin LinkFrames,
         NEW i \in Index, NEW w \in GoodWord
  PROVE  LET r == Write(k, f, i, w)
         IN  /\ Fine(r, D, own) /\ Step(k, own, r, own, {}) /\ TStep(k, r)
             /\ r.mem[f] = [k.mem[f] EXCEPT ![i] = w]
             /\ r.used = k.used /\ r.dropped = k.dropped
             /\ \A g \in Frames \ {f} : r.mem[g] = k.mem[g]
<1> DEFINE page == [k.mem[f] EXCEPT ![i] = w]
<1>1. Write(k, f, i, w) = [k EXCEPT !.mem = [k.mem EXCEPT ![f][i] = w]]
  BY Access
<1>2. WritePage(k, f, page) = [k EXCEPT !.mem = [k.mem EXCEPT ![f] = page]]
  BY Access
<1>3. [k.mem EXCEPT ![f][i] = w] = [k.mem EXCEPT ![f] = page]
  OBVIOUS
<1>4. page \in [Index -> GoodWord]
  <2>1. k.mem \in Mems
    BY StateParts DEF Fine
  <2> QED BY <2>1 DEF Mems
<1>5. Write(k, f, i, w) = WritePage(k, f, page)
  BY <1>1, <1>2, <1>3
<1> HIDE DEF page
<1> QED BY <1>4, <1>5, WriteNone DEF page

\* A frame with a label is in use, and is nothing of what others use.
LEMMA Labelled ==
  ASSUME NEW k, NEW D, NEW own, Fine(k, D, own), NEW t \in Frames, own[t].l # 0
  PROVE  /\ t \notin Image /\ t \notin LinkFrames /\ t \in k.used /\ t \notin D
         /\ t \notin ModulePages /\ t # 0
<1>1. t \in k.used /\ t \notin Image \union ModulePages \union D
  BY DEF Fine, Sound, Owners
<1>2. t \notin LinkFrames
  BY <1>1, NotAtLink DEF Fine
<1>3. 0 \in Image
  BY Sizes DEF Image
<1> QED BY <1>1, <1>2, <1>3

\* A frame that is nobody's can be hung from the entry i of the table t: the
\* entry is free, and what is in the frame is what may be below it.
CanHang(k, D, own, t, i, f) ==
  /\ own[t].l \in 1 .. 4
  /\ own[t].l = 2 /\ own[t].a = 0 => i \in 0 .. NPD - 1
  /\ own[t].l = 4 /\ own[t].a = 0 => Nth(own[t].b, own[t].c, i) \in LinkFrames
  /\ own[t].l # 4 => ~Leads(k.mem[t][i], own, Child(own[t], i))
  /\ own[f].l = 0 /\ f \in k.used /\ f \notin Image \union ModulePages \union D
  /\ own[t].l # 4 => \A j \in Index : Plain(k.mem, Child(own[t], i), j, k.mem[f][j])

Hung(k, D, own, t, i, f, X, r, own2) ==
  /\ Fine(r, D, own2) /\ Step(k, own, r, own2, X) /\ TStep(k, r)
  /\ own2[f] = Child(own[t], i) /\ own2[t] = own[t]
  /\ Leads(r.mem[t][i], own2, Child(own[t], i)) /\ r.mem[t][i] = Entry(f)
  /\ r.used = k.used /\ r.dropped = k.dropped
  /\ \A g \in Frames \ {f} : own2[g] = own[g]
  /\ \A g \in Frames \ {t} : r.mem[g] = k.mem[g]
  /\ \A j \in Index \ {i} : r.mem[t][j] = k.mem[t][j]

\* A frame without a label is hung from an entry of a table.
LEMMA Graft ==
  ASSUME NEW k, NEW D, NEW own, Fine(k, D, own), NEW t \in Frames, NEW i \in Index,
         NEW f \in Frames, CanHang(k, D, own, t, i, f),
         NEW X, X \subseteq Leaves, own[t].l = 4 => Child(own[t], i) \in X
  PROVE  Hung(k, D, own, t, i, f, X, Write(k, t, i, Entry(f)),
              [own EXCEPT ![f] = Child(own[t], i)])
<1> USE DEF CanHang
<1> DEFINE m == [k.mem EXCEPT ![t][i] = Entry(f)]
           r == [k EXCEPT !.mem = m]
           y == Child(own[t], i)
           own2 == [own EXCEPT ![f] = y]
<1>1. Write(k, t, i, Entry(f)) = r
  <2>1. t \notin LinkFrames
    BY Labelled
  <2>2. Entry(f) \in GoodWord
    BY GoodWords
  <2> QED BY <2>1, <2>2, Access
<1>2. Typed(k) /\ own \in [Frames -> Labels] /\ Owners(own, k.used, D)
      /\ LinkFree(k.used, D) /\ EntriesOk(k.mem, own)
  BY DEF Fine, Sound
<1>3. /\ m \in Mems /\ \A g \in Frames \ {t} : m[g] = k.mem[g]
      /\ \A j \in Index \ {i} : m[t][j] = k.mem[t][j]
      /\ m[t][i] = Entry(f)
  BY <1>2, StateParts, GoodWords, MemPut
<1> HIDE DEF m
<1>4. TStep(k, r) /\ r.mem = m /\ r.used = k.used /\ r.dropped = k.dropped
  BY <1>2, <1>3, NewMem
<1> HIDE DEF r
<1>5. /\ y \in Labels /\ y.l = own[t].l + 1 /\ y.l # 0
      /\ own[t] \in Labels
  BY <1>2, ChildOf
<1>6. /\ own2 \in [Frames -> Labels] /\ own2[f] = y
      /\ \A g \in Frames \ {f} : own2[g] = own[g]
  BY <1>2, <1>5
<1>7. t # f
  OBVIOUS
<1> HIDE DEF y, own2
<1>8. Leads(m[t][i], own2, y)
  BY <1>3, <1>6 DEF Leads, Entry
<1>9. Step(k, own, r, own2, X)
  <2> SUFFICES ASSUME NEW s \in Frames, own[s].l # 0
               PROVE  /\ own2[s] = own[s]
                      /\ own[s].l = 5 /\ own[s] \notin X => r.mem[s] = k.mem[s]
                      /\ own[s].l \in 1 .. 4 =>
                           \A j \in Index :
                             Leads(k.mem[s][j], own, Child(own[s], j))
                               /\ Child(own[s], j) \notin X
                               => r.mem[s][j] = k.mem[s][j]
    BY DEF Step
  <2>1. own2[s] = own[s]
    BY <1>6
  <2>2. own[s].l = 5 => r.mem[s] = k.mem[s]
    BY <1>3, <1>4
  <2>3. ASSUME NEW j \in Index, own[s].l \in 1 .. 4,
               Leads(k.mem[s][j], own, Child(own[s], j)), Child(own[s], j) \notin X
        PROVE  r.mem[s][j] = k.mem[s][j]
    <3>1. CASE s = t /\ j = i
      BY <2>3, <3>1 DEF y
    <3>2. CASE ~(s = t /\ j = i)
      BY <1>3, <1>4, <3>2
    <3> QED BY <3>1, <3>2
  <2> QED BY <2>1, <2>2, <2>3
<1>10. \A g \in Image : r.mem[g] = k.mem[g]
  <2>1. t \notin Image
    BY Labelled
  <2> QED BY <1>3, <1>4, <2>1, KernelFrames
<1>11. ASSUME NEW s \in Frames, NEW j \in Index, own2[s].l \in {1, 2, 3, 4, 6}
       PROVE  \/ own2[s] = own[s] /\ r.mem[s][j] = k.mem[s][j]
              \/ EntryOk(r.mem, own2, own2[s], j, r.mem[s][j])
  <2>1. CASE s = t /\ j = i
    <3>1. own2[t] = own[t]
      BY <1>6, <1>7
    <3>2. Onward(own2, own[t], i, r.mem[t][i])
      BY <1>4, <1>8 DEF Onward, y
    <3> QED BY <2>1, <3>1, <3>2 DEF EntryOk
  <2>2. CASE s = f
    <3>1. own[t].l # 4 /\ own2[f] = y
      BY <1>5, <1>6, <2>2, <1>11
    <3>2. Plain(k.mem, y, j, k.mem[f][j])
      BY <3>1 DEF y
    <3>3. r.mem[f] = k.mem[f]
      BY <1>3, <1>4, <1>7
    <3>4. y.l = 3 /\ y.a = 0 => r.mem[kernel_pd(y.b)] = k.mem[kernel_pd(y.b)]
      BY <1>5, <1>10, KernelFrames, LabelParts
    <3>5. Plain(r.mem, y, j, r.mem[f][j])
      BY <3>2, <3>3, <3>4 DEF Plain
    <3> QED BY <2>2, <3>1, <3>5 DEF EntryOk
  <2>3. CASE s # f /\ ~(s = t /\ j = i)
    BY <1>3, <1>4, <1>6, <2>3
  <2> QED BY <2>1, <2>2, <2>3
<1>12. Owners(own2, r.used, D)
  BY <1>2, <1>4, <1>6 DEF Owners
<1>13. Fine(r, D, own2)
  BY <1>2, <1>4, <1>6, <1>9, <1>10, <1>11, <1>12, FineKept
<1>14. Hung(k, D, own, t, i, f, X, r, own2)
  BY <1>3, <1>4, <1>6, <1>7, <1>8, <1>9, <1>13 DEF Hung, y
<1> QED BY <1>1, <1>14 DEF y, own2
-----------------------------------------------------------------------------
(* The tables of a program grow.                                           *)

\* Labels of frames that were in use before stay as they were.
Old(U, own, own2) == \A g \in Frames : g \in U => own2[g] = own[g]

\* The table r.ptr is found or made behind the entry i of t.
LevelPost(k, D, own, r, own2, t, i) ==
  /\ Fine(r.k, D, own2) /\ Step(k, own, r.k, own2, {}) /\ TStep(k, r.k)
  /\ Old(k.used, own, own2) /\ r.k.dropped = k.dropped /\ own2 \in [Frames -> Labels]
  /\ r.ptr = 0 => r.k.used = 0 .. MAX_PAGES - 1
  /\ r.ptr # 0 => /\ Leads(r.k.mem[t][i], own2, Child(own[t], i))
                  /\ r.k.mem[t][i].to = r.ptr

\* A new table, or page, is hung from an entry that led nowhere.
LEMMA NewTableFine ==
  ASSUME NEW k, NEW D, NEW own, Fine(k, D, own), NEW t \in Frames, NEW i \in Index,
         own[t].l \in 1 .. 3, own[t].l = 2 /\ own[t].a = 0 => i \in 0 .. NPD - 1,
         ~Leads(k.mem[t][i], own, Child(own[t], i)),
         LinkFree(pmm_alloc_page(k).k.used, D),
         NEW page \in [Index -> GoodWord],
         \A j \in Index : Plain(k.mem, Child(own[t], i), j, page[j]),
         pmm_alloc_page(k).ptr # 0
  PROVE  LET a == pmm_alloc_page(k)
             r == [k |-> Write(WritePage(a.k, a.ptr, page), t, i, Entry(a.ptr)),
                   ptr |-> a.ptr]
         IN  \E own2 : LevelPost(k, D, own, r, own2, t, i)
<1> DEFINE a == pmm_alloc_page(k)
           f == a.ptr
           l == WritePage(a.k, f, page)
           n == Write(l, t, i, Entry(f))
           own2 == [own EXCEPT ![f] = Child(own[t], i)]
<1>1. /\ Fine(a.k, D, own) /\ Step(k, own, a.k, own, {}) /\ TStep(k, a.k)
      /\ a.k.mem = k.mem /\ a.k.dropped = k.dropped /\ f \in Frames
      /\ f # 0 /\ f \notin k.used /\ f \in a.k.used /\ own[f].l = 0
      /\ f \notin LinkFrames /\ f \notin Image \union ModulePages \union D
  BY AllocFine
<1> HIDE DEF a, f
<1>2. /\ Fine(l, D, own) /\ Step(a.k, own, l, own, {}) /\ TStep(a.k, l)
      /\ l.mem[f] = page /\ l.used = a.k.used /\ l.dropped = a.k.dropped
      /\ \A g \in Frames \ {f} : l.mem[g] = a.k.mem[g]
  BY <1>1, WriteNone
<1> HIDE DEF l
<1>3. t # f /\ own \in [Frames -> Labels]
  BY <1>1 DEF Fine, Sound
<1>4. l.mem[t] = k.mem[t]
  BY <1>1, <1>2, <1>3
<1>5. ~Leads(l.mem[t][i], own, Child(own[t], i))
  BY <1>4
<1>6. \A j \in Index : Plain(l.mem, Child(own[t], i), j, l.mem[f][j])
  <2>1. Child(own[t], i) \in Labels
    BY <1>3, ChildOf
  <2> DEFINE y == Child(own[t], i)
  <2>2. y.l = 3 /\ y.a = 0 => l.mem[kernel_pd(y.b)] = k.mem[kernel_pd(y.b)]
    <3> SUFFICES ASSUME y.l = 3, y.a = 0
                 PROVE  l.mem[kernel_pd(y.b)] = k.mem[kernel_pd(y.b)]
      OBVIOUS
    <3>1. kernel_pd(y.b) \in Image /\ kernel_pd(y.b) \in Frames
      BY <2>1, KernelFrames, LabelParts
    <3> HIDE DEF y
    <3> QED BY <1>1, <1>2, <3>1
  <2> HIDE DEF y
  <2>3. \A j \in Index : Plain(k.mem, y, j, page[j])
    BY DEF y
  <2>4. \A j \in Index : Plain(l.mem, y, j, l.mem[f][j])
    BY <1>2, <2>2, <2>3 DEF Plain
  <2> QED BY <2>4 DEF y
<1>7. f \in l.used
  BY <1>1, <1>2
<1>8. Hung(l, D, own, t, i, f, {}, n, own2)
  <2>1. own[t].l # 4 /\ own[t].l \in 1 .. 4 /\ {} \subseteq Leaves
    OBVIOUS
  <2>2. CanHang(l, D, own, t, i, f)
    BY <1>1, <1>5, <1>6, <1>7, <2>1 DEF CanHang
  <2> QED BY <1>1, <1>2, <2>1, <2>2, Graft
<1> HIDE DEF n, own2
<1> USE DEF Hung
<1>9. TStep(k, n)
  BY <1>1, <1>2, <1>8, TStepTrans
<1>10. Step(k, own, n, own2, {})
  <2>1. Step(k, own, l, own, {} \union {})
    BY <1>1, <1>2, StepTrans
  <2>2. Step(k, own, n, own2, ({} \union {}) \union {})
    BY <1>8, <2>1, StepTrans
  <2>3. ({} \union {}) \union {} = {}
    OBVIOUS
  <2> QED BY <2>2, <2>3
<1>11. Old(k.used, own, own2)
  BY <1>1, <1>8 DEF Old
<1>12. n.mem[t][i].to = f
  BY <1>8 DEF Entry
<1>13. own2 \in [Frames -> Labels]
  BY <1>8 DEF Fine, Sound
<1> DEFINE r == [k |-> n, ptr |-> f]
<1>14. LevelPost(k, D, own, r, own2, t, i)
  BY <1>1, <1>2, <1>8, <1>9, <1>10, <1>11, <1>12, <1>13 DEF LevelPost
<1> HIDE DEF r
<1>15. \E o : LevelPost(k, D, own, r, o, t, i)
  BY <1>14
<1> QED BY <1>15 DEF r, n, l, f, a

\* Nothing is left to take.
LEMMA NoTable ==
  ASSUME NEW k, NEW D, NEW own, Fine(k, D, own), NEW t, NEW i,
         pmm_alloc_page(k).ptr = 0, LinkFree(pmm_alloc_page(k).k.used, D)
  PROVE  \E own2 : LevelPost(k, D, own, pmm_alloc_page(k), own2, t, i)
<1> DEFINE a == pmm_alloc_page(k)
<1>1. a.k = k /\ k.used = 0 .. MAX_PAGES - 1 /\ a.ptr = 0
  BY AllocFine
<1>2. own \in [Frames -> Labels] /\ Typed(k)
  BY DEF Fine, Sound
<1> HIDE DEF a
<1>3. LevelPost(k, D, own, a, own, t, i)
  BY <1>1, <1>2, StepRefl, TStepRefl DEF LevelPost, Old
<1> QED BY <1>3 DEF a

\* An entry that leads on is followed.
LEMMA Follow ==
  ASSUME NEW k, NEW D, NEW own, Fine(k, D, own), NEW t \in Frames, NEW i \in Index,
         own[t].l # 0, NEW e, e = k.mem[t][i], Leads(e, own, Child(own[t], i))
  PROVE  \E own2 : LevelPost(k, D, own, [k |-> k, ptr |-> e.to], own2, t, i)
<1> DEFINE r == [k |-> k, ptr |-> e.to]
<1>1. own[e.to].l # 0 /\ e.to \in Frames
  BY ChildLevel DEF Leads
<1>2. e.to # 0
  BY <1>1, Labelled
<1>3. own \in [Frames -> Labels] /\ Typed(k)
  BY DEF Fine, Sound
<1>4. r.k = k /\ r.ptr = e.to
  OBVIOUS
<1> HIDE DEF r
<1>5. LevelPost(k, D, own, r, own, t, i)
  BY <1>2, <1>3, <1>4, StepRefl, TStepRefl DEF LevelPost, Old
<1> QED BY <1>5 DEF r

\* get_next_level() finds the table, or makes it.
LEMMA Level ==
  ASSUME NEW k, NEW D, NEW own, Fine(k, D, own), NEW t \in Frames, NEW i \in Index,
         own[t].l \in 1 .. 3,
         Leads(k.mem[t][i], own, Child(own[t], i)) \/ own[t].l = 1 \/ own[t].a # 0,
         LinkFree(get_next_level(k, t, i, TRUE).k.used, D)
  PROVE  \E own2 : LevelPost(k, D, own, get_next_level(k, t, i, TRUE), own2, t, i)
<1> DEFINE e == k.mem[t][i]
           g == get_next_level(k, t, i, TRUE)
<1>1. Read(k, t, i) = e
  BY Labelled, Access
<1>2. CASE Leads(e, own, Child(own[t], i))
  <2>1. g = [k |-> k, ptr |-> e.to]
    BY <1>1, <1>2 DEF get_next_level, Leads
  <2>2. \E own2 : LevelPost(k, D, own, [k |-> k, ptr |-> e.to], own2, t, i)
    BY <1>2, Follow
  <2> HIDE DEF g, e
  <2> QED BY <2>1, <2>2 DEF g
<1>3. CASE ~Leads(e, own, Child(own[t], i))
  <2>1. ~e.p
    <3>1. EntryOk(k.mem, own, own[t], i, e)
      BY DEF Fine, Sound, EntriesOk
    <3> QED BY <1>3, <3>1 DEF EntryOk, Plain, Onward
  <2>2. g = NewTable(pmm_alloc_page(k), t, i)
    BY <1>1, <2>1 DEF get_next_level
  <2>3. CASE pmm_alloc_page(k).ptr = 0
    <3>1. g = pmm_alloc_page(k)
      BY <2>2, <2>3 DEF NewTable
    <3> QED BY <2>3, <3>1, NoTable
  <2>4. CASE pmm_alloc_page(k).ptr # 0
    <3> DEFINE a == pmm_alloc_page(k)
               r == [k |-> Write(WritePage(a.k, a.ptr, ZeroPage), t, i, Entry(a.ptr)),
                     ptr |-> a.ptr]
    <3>1. g = r
      BY <2>2, <2>4 DEF NewTable
    <3>2. LinkFree(a.k.used, D)
      <4>1. Typed(k) /\ a.ptr \in Frames
        BY Allocating DEF Fine
      <4>2. Typed(a.k)
        BY <4>1, Allocating DEF TStep
      <4> HIDE DEF a
      <4>3. TStep(a.k, WritePage(a.k, a.ptr, ZeroPage))
        BY <4>1, <4>2, PagesTyped, WritePageTyped
      <4>4. TStep(WritePage(a.k, a.ptr, ZeroPage), r.k)
        BY <4>1, <4>3, GoodWords, WriteTyped DEF TStep
      <4>5. a.k.used \subseteq r.k.used
        BY <4>3, <4>4 DEF TStep
      <4> HIDE DEF r
      <4> QED BY <3>1, <4>5, LinkFreeLess
    <3>3. \A j \in Index : Plain(k.mem, Child(own[t], i), j, ZeroPage[j])
      <4>1. \A j \in Index : ~ZeroPage[j].p
        BY DEF ZeroPage, Zero
      <4>2. own \in [Frames -> Labels]
        BY DEF Fine, Sound
      <4>3. Child(own[t], i).l \in 2 .. 4
        <5>1. CASE own[t].l = 1
          BY <5>1 DEF Child, Lab
        <5>2. CASE own[t].l = 2
          BY <5>2 DEF Child, Lab
        <5>3. CASE own[t].l = 3
          BY <5>3 DEF Child, Lab
        <5> QED BY <5>1, <5>2, <5>3
      <4>4. Child(own[t], i).l # 2 => Child(own[t], i).a # 0
        <5>1. CASE own[t].l = 1
          BY <5>1 DEF Child, Lab
        <5>2. CASE own[t].l = 2
          BY <1>3, <5>2 DEF Child, Lab
        <5>3. CASE own[t].l = 3
          BY <1>3, <5>3 DEF Child, Lab
        <5> QED BY <5>1, <5>2, <5>3
      <4> QED BY <4>1, <4>3, <4>4 DEF Plain
    <3>4. own[t].l = 2 /\ own[t].a = 0 => i \in 0 .. NPD - 1
      BY <1>3
    <3>5. ZeroPage \in [Index -> GoodWord]
      BY PagesTyped
    <3>6. \E own2 : LevelPost(k, D, own, r, own2, t, i)
      BY <1>3, <2>4, <3>2, <3>3, <3>4, <3>5, NewTableFine
    <3> QED BY <3>1, <3>6
  <2> QED BY <2>3, <2>4
<1> QED BY <1>2, <1>3

\* Hanging a frame takes no more than the frame.
LEMMA HangTyped ==
  ASSUME NEW k, Typed(k), NEW page \in [Index -> GoodWord], NEW t \in Frames, NEW i \in Index
  PROVE  LET a == pmm_alloc_page(k)
         IN  TStep(a.k, Write(WritePage(a.k, a.ptr, page), t, i, Entry(a.ptr)))
<1> DEFINE a == pmm_alloc_page(k)
<1>1. Typed(a.k) /\ a.ptr \in Frames
  BY Allocating DEF TStep
<1> HIDE DEF a
<1>2. TStep(a.k, WritePage(a.k, a.ptr, page))
  BY <1>1, WritePageTyped
<1>3. TStep(WritePage(a.k, a.ptr, page),
            Write(WritePage(a.k, a.ptr, page), t, i, Entry(a.ptr)))
  BY <1>1, <1>2, GoodWords, WriteTyped, SMTT(15) DEF TStep
<1>4. TStep(a.k, Write(WritePage(a.k, a.ptr, page), t, i, Entry(a.ptr)))
  BY <1>2, <1>3, TStepTrans
<1> QED BY <1>4 DEF a

\* The page table of an address is found or made, by a split if need be.
LEMMA Table ==
  ASSUME NEW k, NEW D, NEW own, Fine(k, D, own), NEW t \in Frames, NEW i \in Index,
         own[t].l = 3,
         \/ Leads(k.mem[t][i], own, Child(own[t], i))
         \/ own[t].a # 0
         \/ own[t].a = 0 /\ k.mem[t][i] = Huge(Nth(own[t].b, i, 0)),
         LinkFree(PageTable(k, t, i, TRUE).k.used, D)
  PROVE  \E own2 : LevelPost(k, D, own, PageTable(k, t, i, TRUE), own2, t, i)
<1> DEFINE e == k.mem[t][i]
<1>1. Read(k, t, i) = e
  BY Labelled, Access
<1>2. own[t] \in Labels /\ Typed(k)
  BY DEF Fine, Sound
<1>3. CASE ~(e.p /\ e.h)
  <2>1. PageTable(k, t, i, TRUE) = get_next_level(k, t, i, TRUE)
    BY <1>1, <1>3 DEF PageTable
  <2>2. Leads(e, own, Child(own[t], i)) \/ own[t].a # 0
    BY <1>3 DEF Huge
  <2> HIDE DEF e
  <2>3. own[t].l \in 1 .. 3
    OBVIOUS
  <2> QED BY <2>1, <2>2, <2>3, Level DEF e
<1>4. CASE e.p /\ e.h
  <2>1. ~Leads(e, own, Child(own[t], i))
    BY <1>4 DEF Leads
  <2>2. own[t].a = 0 /\ e = Huge(Nth(own[t].b, i, 0))
    <3>1. EntryOk(k.mem, own, own[t], i, e)
      BY DEF Fine, Sound, EntriesOk
    <3> QED BY <1>4, <2>1, <3>1 DEF EntryOk, Plain, Onward
  <2> DEFINE a == pmm_alloc_page(k)
             page == [j \in Index |-> Entry(e.to + j)]
             r == [k |-> Write(WritePage(a.k, a.ptr, page), t, i, Entry(a.ptr)),
                   ptr |-> a.ptr]
  <2>3. PageTable(k, t, i, TRUE) = IF a.ptr = 0 THEN a ELSE r
    BY <1>1, <1>4 DEF PageTable, split_huge_pde
  <2>4. own[t].b \in 0 .. NPD - 1 /\ own[t].b \in Index
    BY <1>2, <2>2, LabelParts
  <2>5. \A j \in Index : e.to + j = Nth(own[t].b, i, j)
    <3> DEFINE q == (own[t].b * Fan + i) * Fan
    <3>1. q \in Int
      BY <2>4, Sizes
    <3>2. e.to = q + 0 /\ \A j \in Index : Nth(own[t].b, i, j) = q + j
      BY <2>2 DEF Nth, Huge
    <3> HIDE DEF q, e
    <3> QED BY <3>1, <3>2, Sizes
  <2>6. page \in [Index -> GoodWord]
    <3>1. \A j \in Index : Nth(own[t].b, i, j) \in Frames
      BY <2>4, LowOfNth
    <3>2. \A j \in Index : Entry(e.to + j) \in GoodWord
      BY <2>5, <3>1, GoodWords
    <3> HIDE DEF e
    <3> QED BY <3>2
  <2>7. \A j \in Index : Plain(k.mem, Child(own[t], i), j, page[j])
    <3>1. Child(own[t], i) = Lab(4, own[t].r, own[t].a, own[t].b, i, 0)
      BY DEF Child
    <3>2. /\ Child(own[t], i).l = 4 /\ Child(own[t], i).a = 0
          /\ Child(own[t], i).b = own[t].b /\ Child(own[t], i).c = i
      BY <2>2, <3>1 DEF Lab
    <3>3. \A j \in Index : page[j] = Entry(Nth(own[t].b, i, j))
      BY <2>5
    <3> HIDE DEF page
    <3> QED BY <3>2, <3>3 DEF Plain
  <2>8. CASE a.ptr = 0
    <3>1. PageTable(k, t, i, TRUE) = a
      BY <2>3, <2>8
    <3> QED BY <2>8, <3>1, NoTable
  <2>9. CASE a.ptr # 0
    <3>1. PageTable(k, t, i, TRUE) = r
      BY <2>3, <2>9
    <3>2. LinkFree(a.k.used, D)
      <4>1. TStep(a.k, r.k)
        <5> HIDE DEF page
        <5> QED BY <1>2, <2>6, HangTyped
      <4> HIDE DEF r, a
      <4>2. LinkFree(r.k.used, D) /\ a.k.used \subseteq r.k.used
        BY <3>1, <4>1 DEF TStep
      <4> QED BY <4>2, LinkFreeLess
    <3>3. \E own2 : LevelPost(k, D, own, r, own2, t, i)
      <4> HIDE DEF page, e
      <4>1. own[t].l \in 1 .. 3 /\ (own[t].l = 2 /\ own[t].a = 0 => i \in 0 .. NPD - 1)
        OBVIOUS
      <4> QED BY <2>1, <2>6, <2>7, <2>9, <3>2, <4>1, NewTableFine DEF e
    <3> HIDE DEF r
    <3> QED BY <3>1, <3>3
  <2> QED BY <2>8, <2>9
<1> QED BY <1>3, <1>4

\* A page of a program is where the hardware finds it.
MappedTo(m, own, root, va, f) ==
  LET e1 == m[root][va[1]]
      e2 == m[e1.to][va[2]]
      e3 == m[e2.to][va[3]]
      e4 == m[e3.to][va[4]]
  IN  /\ root \in Frames /\ own[root] = Root(root)
      /\ Leads(e1, own, Lab(2, root, va[1], 0, 0, 0))
      /\ Leads(e2, own, Lab(3, root, va[1], va[2], 0, 0))
      /\ Leads(e3, own, Lab(4, root, va[1], va[2], va[3], 0))
      /\ Leads(e4, own, Leaf(root, va))
      /\ e4.to = f

\* The hardware finds it there.
LEMMA MappedWalk ==
  ASSUME NEW m, NEW own, NEW root, NEW va, NEW f, MappedTo(m, own, root, va, f)
  PROVE  Walk(m, root, va) = f /\ f \in Frames /\ own[f] = Leaf(root, va) /\ own[f].l = 5
<1>1. Leaf(root, va).l = 5
  BY DEF Leaf, Lab
<1> QED BY <1>1 DEF MappedTo, Leads, Walk, Below

\* An entry that leads to a table is kept.
LEMMA EntryKept ==
  ASSUME NEW k, NEW own, NEW r, NEW own2, NEW X, X \subseteq Leaves,
         Step(k, own, r, own2, X), NEW t \in Frames, NEW i \in Index,
         own[t].l \in 1 .. 3, Leads(k.mem[t][i], own, Child(own[t], i))
  PROVE  /\ r.mem[t][i] = k.mem[t][i] /\ own2[t] = own[t]
         /\ Leads(r.mem[t][i], own2, Child(own[t], i))
<1>1. Child(own[t], i).l # 5 /\ Child(own[t], i).l # 0
  BY ChildLevel
<1>2. Child(own[t], i) \notin X
  BY <1>1 DEF Leaves
<1>3. r.mem[t][i] = k.mem[t][i] /\ own2[t] = own[t]
  BY <1>2 DEF Step
<1> QED BY <1>1, <1>3, LeadsKept

\* And so a page that is not concerned stays mapped, with what is in it.
LEMMA MappedKept ==
  ASSUME NEW k, NEW own, NEW r, NEW own2, NEW X, X \subseteq Leaves,
         Step(k, own, r, own2, X), NEW root, NEW va \in VA, NEW f,
         MappedTo(k.mem, own, root, va, f), Leaf(root, va) \notin X
  PROVE  MappedTo(r.mem, own2, root, va, f) /\ r.mem[f] = k.mem[f]
<1>0. va[1] \in Index /\ va[2] \in Index /\ va[3] \in Index /\ va[4] \in Index
  BY VaParts
<1> DEFINE e1 == k.mem[root][va[1]]
           t2 == e1.to
           e2 == k.mem[t2][va[2]]
           t3 == e2.to
           e3 == k.mem[t3][va[3]]
           t4 == e3.to
           e4 == k.mem[t4][va[4]]
<1>1. /\ root \in Frames /\ own[root] = Root(root)
      /\ Leads(e1, own, Lab(2, root, va[1], 0, 0, 0))
      /\ Leads(e2, own, Lab(3, root, va[1], va[2], 0, 0))
      /\ Leads(e3, own, Lab(4, root, va[1], va[2], va[3], 0))
      /\ Leads(e4, own, Leaf(root, va)) /\ e4.to = f
  BY DEF MappedTo
<1>2. /\ t2 \in Frames /\ own[t2] = Lab(2, root, va[1], 0, 0, 0)
      /\ t3 \in Frames /\ own[t3] = Lab(3, root, va[1], va[2], 0, 0)
      /\ t4 \in Frames /\ own[t4] = Lab(4, root, va[1], va[2], va[3], 0)
      /\ f \in Frames /\ own[f] = Leaf(root, va)
  BY <1>1 DEF Leads
<1> HIDE DEF e1, t2, e2, t3, e3, t4, e4
<1>3. /\ own[root].l = 1 /\ own[t2].l = 2 /\ own[t3].l = 3 /\ own[t4].l = 4
      /\ own[f].l = 5
      /\ Child(own[root], va[1]) = Lab(2, root, va[1], 0, 0, 0)
      /\ Child(own[t2], va[2]) = Lab(3, root, va[1], va[2], 0, 0)
      /\ Child(own[t3], va[3]) = Lab(4, root, va[1], va[2], va[3], 0)
      /\ Child(own[t4], va[4]) = Leaf(root, va)
  BY <1>1, <1>2 DEF Root, Leaf, Lab, Child
<1>4. /\ r.mem[root][va[1]] = e1 /\ own2[root] = own[root]
      /\ Leads(e1, own2, Lab(2, root, va[1], 0, 0, 0))
  BY <1>0, <1>1, <1>3, EntryKept DEF e1
<1>5. r.mem[t2][va[2]] = e2 /\ Leads(e2, own2, Lab(3, root, va[1], va[2], 0, 0))
  BY <1>0, <1>1, <1>2, <1>3, EntryKept DEF e2
<1>6. r.mem[t3][va[3]] = e3 /\ Leads(e3, own2, Lab(4, root, va[1], va[2], va[3], 0))
  BY <1>0, <1>1, <1>2, <1>3, EntryKept DEF e3
<1>7. r.mem[t4][va[4]] = e4 /\ r.mem[f] = k.mem[f]
  BY <1>0, <1>1, <1>2, <1>3 DEF Step, e4
<1>8. Leads(e4, own2, Leaf(root, va))
  BY <1>1, <1>2, <1>3, LeadsKept
<1> QED BY <1>1, <1>4, <1>5, <1>6, <1>7, <1>8 DEF MappedTo, t2, t3, t4
-----------------------------------------------------------------------------
(* vmm_map_page() for a page of a program.                                 *)

DroppedPost(k, D, own, root, va) ==
  /\ Fine(Dropping(k, root, va), D, own) /\ Fine(Undropping(k, root, va), D, own)
  /\ Dropping(k, root, va).mem = k.mem /\ Undropping(k, root, va).mem = k.mem
  /\ Dropping(k, root, va).used = k.used /\ Undropping(k, root, va).used = k.used
  /\ Dropping(k, root, va).dropped = k.dropped \union {<<root, va>>}
  /\ Undropping(k, root, va).dropped = k.dropped \ {<<root, va>>}
  /\ TStep(k, Dropping(k, root, va)) /\ TStep(k, Undropping(k, root, va))

\* Remembering a page as dropped changes no table.
LEMMA FineDropped ==
  ASSUME NEW k, NEW D, NEW own, Fine(k, D, own), NEW root, root \in k.used,
         NEW va \in VA
  PROVE  DroppedPost(k, D, own, root, va)
<1>1. /\ TStep(k, Dropping(k, root, va)) /\ TStep(k, Undropping(k, root, va))
  BY NewDropped DEF Fine, Dropping, Undropping
<1>2. k \in KStates
  BY DEF Fine, Typed
<1>3. /\ Dropping(k, root, va).mem = k.mem /\ Undropping(k, root, va).mem = k.mem
      /\ Dropping(k, root, va).used = k.used /\ Undropping(k, root, va).used = k.used
      /\ Dropping(k, root, va).cr3 = k.cr3 /\ Undropping(k, root, va).cr3 = k.cr3
      /\ Dropping(k, root, va).dropped = k.dropped \union {<<root, va>>}
      /\ Undropping(k, root, va).dropped = k.dropped \ {<<root, va>>}
  BY <1>2 DEF Dropping, Undropping, KStates
<1>4. Fine(Dropping(k, root, va), D, own) /\ Fine(Undropping(k, root, va), D, own)
  <2> HIDE DEF Dropping, Undropping
  <2> QED BY <1>1, <1>3 DEF Fine, Sound, Active, TStep
<1> QED BY <1>1, <1>3, <1>4 DEF DroppedPost

\* The states on the way take no more than the last one.
LEMMA MapUsed ==
  ASSUME NEW k, Typed(k), NEW root \in k.used, NEW va \in VA, NEW f \in Frames
  PROVE  LET r1 == MapPdp(k, root, va)
             r2 == MapPd(k, root, va)
             r3 == MapPt(k, root, va)
             r == vmm_map_page(k, root, va, f)
         IN  /\ RStep(k, r1) /\ RStep(r1.k, r2) /\ RStep(r2.k, r3)
             /\ r1.k.used \subseteq r.used
             /\ r1.ptr # 0 => r2.k.used \subseteq r.used
             /\ r1.ptr # 0 /\ r2.ptr # 0 => r3.k.used \subseteq r.used
<1> DEFINE r1 == MapPdp(k, root, va)
           r2 == MapPd(k, root, va)
           r3 == MapPt(k, root, va)
           r == vmm_map_page(k, root, va, f)
<1>1. /\ va[1] \in Index /\ va[2] \in Index /\ va[3] \in Index /\ va[4] \in Index
      /\ root \in Frames
  BY MappingVA, VaParts, StateParts
<1>2. RStep(k, r1)
  BY <1>1, NextLevelTyped DEF MapPdp
<1>3. RStep(r1.k, r2)
  BY <1>1, <1>2, NextLevelTyped DEF MapPd, RStep, TStep
<1>4. RStep(r2.k, r3)
  BY <1>1, <1>3, PageTableTyped DEF MapPt, RStep, TStep
<1> DEFINE u == Undropping(r3.k, root, va)
           w == Write(u, r3.ptr, va[4], Entry(f))
<1>5. r = IF r1.ptr = 0 THEN Dropping(r1.k, root, va)
          ELSE IF r2.ptr = 0 THEN Dropping(r2.k, root, va)
          ELSE IF r3.ptr = 0 THEN Dropping(r3.k, root, va) ELSE w
  BY MapSteps
<1> HIDE DEF r1, r2, r3, r
<1>6. r1.k.used \subseteq r2.k.used /\ r2.k.used \subseteq r3.k.used
  BY <1>3, <1>4 DEF RStep, TStep
<1>7. /\ Dropping(r1.k, root, va).used = r1.k.used /\ Dropping(r2.k, root, va).used = r2.k.used
      /\ Dropping(r3.k, root, va).used = r3.k.used
      /\ u.used = r3.k.used /\ TStep(r3.k, u)
  <2>1. /\ Typed(r1.k) /\ Typed(r2.k) /\ Typed(r3.k)
        /\ root \in r1.k.used /\ root \in r2.k.used /\ root \in r3.k.used
    BY <1>2, <1>3, <1>4, <1>6 DEF RStep, TStep
  <2>2. r1.k \in KStates /\ r2.k \in KStates /\ r3.k \in KStates
    BY <2>1 DEF Typed
  <2>3. TStep(r3.k, u)
    BY <2>1, NewDropped DEF Undropping
  <2> QED BY <2>2, <2>3 DEF Dropping, Undropping, KStates
<1> HIDE DEF u
<1>8. u.used \subseteq w.used
  <2>1. Typed(u) /\ r3.ptr \in Frames /\ Entry(f) \in GoodWord
    BY <1>4, <1>7, GoodWords DEF RStep, TStep
  <2>2. TStep(u, w)
    BY <1>1, <2>1, WriteTyped
  <2> QED BY <2>2 DEF TStep
<1> HIDE DEF w
<1> QED BY <1>2, <1>3, <1>4, <1>5, <1>6, <1>7, <1>8 DEF r1, r2, r3, r

\* Pages of programs are where programs are linked, or in the heap.
LEMMA PagesKinds ==
  ASSUME NEW va \in Pages
  PROVE  \/ \E b \in 0 .. NPD - 1, c \in Index, d \in Index :
              va = <<0, b, c, d>> /\ Nth(b, c, d) \in LinkFrames
         \/ va[1] = 1
<1>1. CASE \E i \in 0 .. ImagePages - 1 : va = Low(LinkPage + i)
  <2>1. PICK i \in 0 .. ImagePages - 1 : va = Low(LinkPage + i)
    BY <1>1
  <2>2. LinkPage + i \in Frames /\ LinkPage + i \in LinkFrames
    BY MappingVA DEF LinkFrames
  <2>3. PICK b \in 0 .. NPD - 1, c \in Index, d \in Index : LinkPage + i = Nth(b, c, d)
    BY <2>2, NthOfFrame
  <2>4. va = <<0, b, c, d>>
    BY <2>1, <2>3, LowOfNth
  <2> QED BY <2>2, <2>3, <2>4
<1>2. CASE \E n \in HeapPages : va = HeapPage(n)
  BY <1>2, MappingVA
<1> QED BY <1>1, <1>2 DEF Pages

\* The kernel has not split the huge pages where programs are linked.
LEMMA HugeAtLink ==
  ASSUME NEW k, NEW D, NEW own, Fine(k, D, own), NEW b \in 0 .. NPD - 1,
         NEW c \in Index, NEW d \in Index, Nth(b, c, d) \in LinkFrames
  PROVE  k.mem[kernel_pd(b)][c] = Huge(Nth(b, c, 0))
<1>1. Nth(b, c, d) \div Fan = b * Fan + c
  BY LowOfNth
<1>2. \A f \in D : f \div Fan # b * Fan + c
  BY <1>1 DEF Fine, LinkFree
<1> QED BY <1>2 DEF Fine, Sound, KernelPds

MapPost(k, D, own, root, va, f, r, own2) ==
  /\ Fine(r, D, own2) /\ Step(k, own, r, own2, {Leaf(root, va)}) /\ TStep(k, r)
  /\ own2 \in [Frames -> Labels]
  /\ \A g \in Frames : g \in k.used /\ g # f => own2[g] = own[g]
  /\ \/ /\ r.dropped = k.dropped \union {<<root, va>>}
        /\ own2[f] = own[f] /\ r.used = 0 .. MAX_PAGES - 1
     \/ /\ r.dropped = k.dropped \ {<<root, va>>}
        /\ own2[f] = Leaf(root, va) /\ MappedTo(r.mem, own2, root, va, f)

\* A step that touches less is one that may touch more.
LEMMA StepMore ==
  ASSUME NEW k, NEW own, NEW r, NEW own2, NEW X, Step(k, own, r, own2, X),
         NEW Y, X \subseteq Y
  PROVE  Step(k, own, r, own2, Y)
BY DEF Step

\* Two calls after each other.
LEMMA StepThen ==
  ASSUME NEW k, NEW own, NEW l, NEW own1, NEW r, NEW own2, NEW X,
         Step(k, own, l, own1, {}), Step(l, own1, r, own2, X)
  PROVE  Step(k, own, r, own2, X)
<1>1. {} \union X = X
  OBVIOUS
<1> QED BY <1>1, StepTrans

\* The page could not be mapped for want of a table.
LEMMA MapDropped ==
  ASSUME NEW k, NEW D, NEW own, NEW root \in k.used, NEW va \in VA,
         NEW f \in Frames, f \in k.used,
         NEW l, NEW own1, Fine(l, D, own1), Step(k, own, l, own1, {}), TStep(k, l),
         Old(k.used, own, own1), l.dropped = k.dropped, own1 \in [Frames -> Labels],
         l.used = 0 .. MAX_PAGES - 1
  PROVE  \E own2 : MapPost(k, D, own, root, va, f, Dropping(l, root, va), own2)
<1> DEFINE r == Dropping(l, root, va)
<1>1. root \in l.used
  BY DEF TStep
<1>2. /\ Fine(r, D, own1) /\ r.mem = l.mem /\ r.used = l.used /\ TStep(l, r)
      /\ r.dropped = l.dropped \union {<<root, va>>}
  <2>1. DroppedPost(l, D, own1, root, va)
    BY <1>1, FineDropped
  <2> QED BY <2>1 DEF DroppedPost
<1> HIDE DEF r
<1>3. Step(l, own1, r, own1, {Leaf(root, va)})
  BY <1>2 DEF Step
<1>4. Step(k, own, r, own1, {Leaf(root, va)})
  BY <1>3, StepThen
<1>5. TStep(k, r)
  BY <1>2, TStepTrans
<1>6. MapPost(k, D, own, root, va, f, r, own1)
  BY <1>2, <1>4, <1>5 DEF MapPost, Old
<1> QED BY <1>6 DEF r

\* One page of a program: it is where the hardware finds it, or is dropped.
LEMMA MapUser ==
  ASSUME NEW k, NEW D, NEW own, Fine(k, D, own), NEW root, Whole(k.mem, own, root),
         NEW va \in Pages, NEW f \in Frames, own[f].l = 0, f \in k.used,
         f \notin Image \union ModulePages \union D,
         LinkFree(vmm_map_page(k, root, va, f).used, D)
  PROVE  \E own2 : MapPost(k, D, own, root, va, f, vmm_map_page(k, root, va, f), own2)
<1> DEFINE r1 == MapPdp(k, root, va)
           r2 == MapPd(k, root, va)
           r3 == MapPt(k, root, va)
           r == vmm_map_page(k, root, va, f)
           a == va[1]
           b == va[2]
           c == va[3]
           d == va[4]
           y2 == Lab(2, root, a, 0, 0, 0)
           y3 == Lab(3, root, a, b, 0, 0)
           y4 == Lab(4, root, a, b, c, 0)
           y5 == Leaf(root, va)
<1>1. /\ a \in Index /\ b \in Index /\ c \in Index /\ d \in Index
      /\ va \in VA /\ Typed(k)
  BY MappingVA, VaParts DEF Fine
<1>2. root \in Frames /\ own[root] = Root(root) /\ own[root].l = 1
  BY DEF Whole, Root, Lab
<1>3. root \in k.used
  BY <1>2, Labelled
<1>4. /\ RStep(k, r1) /\ RStep(r1.k, r2) /\ RStep(r2.k, r3)
      /\ r1.k.used \subseteq r.used
      /\ r1.ptr # 0 => r2.k.used \subseteq r.used
      /\ r1.ptr # 0 /\ r2.ptr # 0 => r3.k.used \subseteq r.used
  BY <1>1, <1>3, MapUsed
<1>5. r = IF r1.ptr = 0 THEN Dropping(r1.k, root, va)
          ELSE IF r2.ptr = 0 THEN Dropping(r2.k, root, va)
          ELSE IF r3.ptr = 0 THEN Dropping(r3.k, root, va)
          ELSE Write(Undropping(r3.k, root, va), r3.ptr, d, Entry(f))
  BY MapSteps
<1>6. /\ r1 = get_next_level(k, root, a, TRUE)
      /\ r2 = get_next_level(r1.k, r1.ptr, b, TRUE)
      /\ r3 = PageTable(r2.k, r2.ptr, c, TRUE)
  BY DEF MapPdp, MapPd, MapPt
<1>7. LinkFree(r.used, D)
  OBVIOUS
<1>8. \/ /\ a = 0 /\ b \in 0 .. NPD - 1 /\ Nth(b, c, d) \in LinkFrames
      \/ a # 0
  BY PagesKinds
<1>9. /\ Child(Root(root), a) = y2 /\ Child(y2, b) = y3 /\ Child(y3, c) = y4
      /\ Child(y4, d) = y5
      /\ y2.l = 2 /\ y2.a = a /\ y3.l = 3 /\ y3.a = a /\ y3.b = b
      /\ y4.l = 4 /\ y4.a = a /\ y4.b = b /\ y4.c = c /\ y5.l = 5
  BY DEF Root, Lab, Child, Leaf
<1> HIDE DEF r1, r2, r3, r, a, b, c, d, y2, y3, y4, y5
\* The directory pointers.
<1>10. PICK own1 : LevelPost(k, D, own, r1, own1, root, a)
  <2>1. LinkFree(r1.k.used, D)
    BY <1>4, <1>7, LinkFreeLess
  <2>2. own[root].l \in 1 .. 3
    BY <1>2
  <2>4. LinkFree(get_next_level(k, root, a, TRUE).k.used, D)
    BY <1>6, <2>1, Zenon
  <2>3. \E o : LevelPost(k, D, own, get_next_level(k, root, a, TRUE), o, root, a)
    BY <1>1, <1>2, <2>2, <2>4, Level
  <2> QED BY <1>6, <2>3
<1>11. CASE r1.ptr = 0
  <2>1. r = Dropping(r1.k, root, va)
    BY <1>5, <1>11
  <2>2. \E own2 : MapPost(k, D, own, root, va, f, Dropping(r1.k, root, va), own2)
    BY <1>1, <1>3, <1>10, <1>11, MapDropped DEF LevelPost
  <2> QED BY <2>1, <2>2 DEF r
<1>12. CASE r1.ptr # 0
  <2> DEFINE t2 == r1.ptr
  <2>1. /\ Leads(r1.k.mem[root][a], own1, y2) /\ r1.k.mem[root][a].to = t2
        /\ Fine(r1.k, D, own1) /\ Step(k, own, r1.k, own1, {}) /\ TStep(k, r1.k)
        /\ Old(k.used, own, own1) /\ r1.k.dropped = k.dropped
    BY <1>2, <1>9, <1>10, <1>12 DEF LevelPost
  <2>2. t2 \in Frames /\ own1[t2] = y2
    BY <2>1 DEF Leads
  <2>3. own1[root] = Root(root) /\ Whole(r1.k.mem, own1, root)
    <3>1. \A x \in {} : x.l = 5
      OBVIOUS
    <3>2. Whole(r1.k.mem, own1, root)
      BY <2>1, <3>1, WholeKept
    <3> QED BY <3>2 DEF Whole
  <2> HIDE DEF t2
  <2>4. PICK own2 : LevelPost(r1.k, D, own1, r2, own2, t2, b)
    <3>1. LinkFree(r2.k.used, D)
      BY <1>4, <1>7, <1>12, LinkFreeLess
    <3>2. own1[t2].l \in 1 .. 3
      BY <1>9, <2>2
    <3>3. Leads(r1.k.mem[t2][b], own1, Child(own1[t2], b)) \/ own1[t2].a # 0
      <4>1. CASE a = 0
        <5>1. b \in 0 .. NPD - 1
          BY <1>8, <4>1
        <5>2. Leads(r1.k.mem[t2][b], own1, Lab(3, root, 0, b, 0, 0))
          BY <2>1, <2>3, <4>1, <5>1 DEF Whole
        <5> QED BY <1>9, <2>2, <4>1, <5>2 DEF y3
      <4>2. CASE a # 0
        BY <1>9, <2>2, <4>2
      <4> QED BY <4>1, <4>2
    <3>4. r2 = get_next_level(r1.k, t2, b, TRUE)
      BY <1>6 DEF t2
    <3> QED BY <1>1, <2>1, <2>2, <3>1, <3>2, <3>3, <3>4, Level
  <2>5. /\ Fine(r2.k, D, own2) /\ Step(r1.k, own1, r2.k, own2, {}) /\ TStep(r1.k, r2.k)
        /\ Old(r1.k.used, own1, own2) /\ r2.k.dropped = r1.k.dropped
        /\ own2 \in [Frames -> Labels]
        /\ r2.ptr = 0 => r2.k.used = 0 .. MAX_PAGES - 1
    BY <2>4 DEF LevelPost
  <2>6. /\ Step(k, own, r2.k, own2, {}) /\ TStep(k, r2.k) /\ Old(k.used, own, own2)
        /\ r2.k.dropped = k.dropped
    <3>1. Step(k, own, r2.k, own2, {}) /\ TStep(k, r2.k)
      BY <2>1, <2>5, StepThen, TStepTrans
    <3>2. k.used \subseteq r1.k.used
      BY <2>1 DEF TStep
    <3> QED BY <2>1, <2>5, <3>1, <3>2 DEF Old
  <2>7. CASE r2.ptr = 0
    <3>1. r = Dropping(r2.k, root, va)
      BY <1>5, <1>12, <2>7
    <3>2. \E o : MapPost(k, D, own, root, va, f, Dropping(r2.k, root, va), o)
      BY <1>1, <1>3, <2>5, <2>6, <2>7, MapDropped
    <3> QED BY <3>1, <3>2 DEF r
  <2>8. CASE r2.ptr # 0
    <3> DEFINE t3 == r2.ptr
    <3>1. Leads(r2.k.mem[t2][b], own2, y3) /\ r2.k.mem[t2][b].to = t3
      BY <1>9, <2>2, <2>4, <2>8 DEF LevelPost
    <3>2. t3 \in Frames /\ own2[t3] = y3
      BY <3>1 DEF Leads
    <3> HIDE DEF t3
    <3>3. PICK own3 : LevelPost(r2.k, D, own2, r3, own3, t3, c)
      <4>1. LinkFree(r3.k.used, D)
        BY <1>4, <1>7, <1>12, <2>8, LinkFreeLess
      <4>2. own2[t3].l = 3
        BY <1>9, <3>2
      <4>3. \/ Leads(r2.k.mem[t3][c], own2, Child(own2[t3], c))
            \/ own2[t3].a # 0
            \/ own2[t3].a = 0 /\ r2.k.mem[t3][c] = Huge(Nth(own2[t3].b, c, 0))
        <5>1. CASE a = 0
          <6>1. EntryOk(r2.k.mem, own2, own2[t3], c, r2.k.mem[t3][c])
            BY <1>1, <2>5, <3>2 DEF Fine, Sound, EntriesOk
          <6>2. own2[t3].l = 3 /\ own2[t3].a = 0 /\ own2[t3].b = b
            BY <1>9, <3>2, <5>1
          <6>3. \/ r2.k.mem[t3][c] = r2.k.mem[kernel_pd(b)][c]
                \/ Leads(r2.k.mem[t3][c], own2, Child(own2[t3], c))
            BY <6>1, <6>2 DEF EntryOk, Plain, Onward
          <6>4. r2.k.mem[kernel_pd(b)][c] = Huge(Nth(b, c, 0))
            <7>1. /\ b \in 0 .. NPD - 1 /\ c \in Index /\ d \in Index
                  /\ Nth(b, c, d) \in LinkFrames
              BY <1>1, <1>8, <5>1
            <7>2. Fine(r2.k, D, own2)
              BY <2>5
            <7> QED BY <7>1, <7>2, HugeAtLink
          <6> QED BY <6>2, <6>3, <6>4
        <5>2. CASE a # 0
          BY <1>9, <3>2, <5>2
        <5> QED BY <5>1, <5>2
      <4>4. r3 = PageTable(r2.k, t3, c, TRUE)
        BY <1>6 DEF t3
      <4> QED BY <1>1, <2>5, <3>2, <4>1, <4>2, <4>3, <4>4, Table
    <3>4. /\ Fine(r3.k, D, own3) /\ Step(r2.k, own2, r3.k, own3, {}) /\ TStep(r2.k, r3.k)
          /\ Old(r2.k.used, own2, own3) /\ r3.k.dropped = r2.k.dropped
          /\ own3 \in [Frames -> Labels]
          /\ r3.ptr = 0 => r3.k.used = 0 .. MAX_PAGES - 1
      BY <3>3 DEF LevelPost
    <3>5. /\ Step(k, own, r3.k, own3, {}) /\ TStep(k, r3.k) /\ Old(k.used, own, own3)
          /\ r3.k.dropped = k.dropped
      <4>1. Step(k, own, r3.k, own3, {}) /\ TStep(k, r3.k)
        BY <2>6, <3>4, StepThen, TStepTrans
      <4>2. k.used \subseteq r2.k.used
        BY <2>6 DEF TStep
      <4> QED BY <2>6, <3>4, <4>1, <4>2 DEF Old
    <3>6. CASE r3.ptr = 0
      <4>1. r = Dropping(r3.k, root, va)
        BY <1>5, <1>12, <2>8, <3>6
      <4>2. \E o : MapPost(k, D, own, root, va, f, Dropping(r3.k, root, va), o)
        BY <1>1, <1>3, <3>4, <3>5, <3>6, MapDropped
      <4> QED BY <4>1, <4>2 DEF r
    <3>7. CASE r3.ptr # 0
      <4> DEFINE t4 == r3.ptr
                 u == Undropping(r3.k, root, va)
                 own4 == [own3 EXCEPT ![f] = y5]
      <4>1. Leads(r3.k.mem[t3][c], own3, y4) /\ r3.k.mem[t3][c].to = t4
        BY <1>9, <3>2, <3>3, <3>7 DEF LevelPost
      <4>2. t4 \in Frames /\ own3[t4] = y4
        BY <4>1 DEF Leads
      <4>3. r = Write(u, t4, d, Entry(f))
        BY <1>5, <1>12, <2>8, <3>7
      <4>4. /\ Fine(u, D, own3) /\ u.mem = r3.k.mem /\ u.used = r3.k.used
            /\ u.dropped = r3.k.dropped \ {<<root, va>>} /\ TStep(r3.k, u)
        <5>1. root \in r3.k.used
          BY <1>3, <3>5 DEF TStep
        <5>2. DroppedPost(r3.k, D, own3, root, va)
          BY <1>1, <3>4, <5>1, FineDropped
        <5> QED BY <5>2 DEF DroppedPost
      <4> HIDE DEF t4, u
      <4>5. CanHang(u, D, own3, t4, d, f)
        <5>1. own3[t4].l = 4 /\ own3[t4].a = a /\ own3[t4].b = b /\ own3[t4].c = c
          BY <1>9, <4>2
        <5>2. own3[f].l = 0
          BY <3>5 DEF Old
        <5>3. f \in u.used
          BY <3>5, <4>4 DEF TStep
        <5> QED BY <1>8, <5>1, <5>2, <5>3 DEF CanHang
      <4>6. {y5} \subseteq Leaves
        <5>1. Child(own3[t4], d) \in Labels
          <6>1. own3[t4] \in Labels /\ own3[t4].l = 4
            BY <1>9, <3>4, <4>2
          <6> QED BY <1>1, <6>1, ChildOf
        <5> QED BY <1>9, <4>2, <5>1 DEF Leaves
      <4>7. Hung(u, D, own3, t4, d, f, {y5}, r, own4)
        <5>1. Child(own3[t4], d) = y5
          BY <1>9, <4>2
        <5>2. Hung(u, D, own3, t4, d, f, {y5}, Write(u, t4, d, Entry(f)),
                   [own3 EXCEPT ![f] = Child(own3[t4], d)])
          BY <1>1, <4>2, <4>4, <4>5, <4>6, <5>1, Graft
        <5> QED BY <4>3, <5>1, <5>2
      <4> HIDE DEF own4
      <4>8. /\ Fine(r, D, own4) /\ Step(u, own3, r, own4, {y5}) /\ TStep(u, r)
            /\ own4[f] = y5 /\ r.mem[t4][d] = Entry(f) /\ Leads(Entry(f), own4, y5)
            /\ r.dropped = u.dropped /\ \A g \in Frames \ {f} : own4[g] = own3[g]
        BY <1>9, <4>2, <4>7 DEF Hung
      <4>9. Step(r3.k, own3, r, own4, {y5})
        <5>1. Step(r3.k, own3, u, own3, {})
          BY <4>4 DEF Step
        <5> QED BY <4>8, <5>1, StepThen
      <4>10. Step(k, own, r, own4, {y5}) /\ TStep(k, r) /\ TStep(r3.k, r)
        <5>1. TStep(r3.k, r)
          BY <4>4, <4>8, TStepTrans
        <5> QED BY <3>5, <4>9, <5>1, StepThen, TStepTrans
      <4>11. MappedTo(r.mem, own4, root, va, f)
        <5>1. /\ r3.k.mem[t3][c] = r.mem[t3][c] /\ Leads(r.mem[t3][c], own4, y4)
              /\ own3[t3] = y3
          <6>1. own3[t3] = y3
            BY <1>9, <3>2, <3>4 DEF Step
          <6>2. own3[t3].l \in 1 .. 3 /\ Child(own3[t3], c) = y4
            BY <1>9, <6>1
          <6> QED BY <1>1, <3>2, <4>1, <4>6, <4>9, <6>1, <6>2, EntryKept
        <5>2. r2.k.mem[t2][b] = r.mem[t2][b] /\ Leads(r.mem[t2][b], own4, y3)
          <6>1. own2[t2] = y2
            BY <1>9, <2>2, <2>5 DEF Step
          <6>2. own2[t2].l \in 1 .. 3 /\ Child(own2[t2], b) = y3
            BY <1>9, <6>1
          <6>3. Step(r2.k, own2, r, own4, {y5})
            BY <3>4, <4>9, StepThen
          <6> QED BY <1>1, <2>2, <3>1, <4>6, <6>1, <6>2, <6>3, EntryKept
        <5>3. r1.k.mem[root][a] = r.mem[root][a] /\ Leads(r.mem[root][a], own4, y2)
              /\ own4[root] = Root(root)
          <6>1. own1[root].l \in 1 .. 3 /\ Child(own1[root], a) = y2
            BY <1>2, <1>9, <2>3
          <6>2. Step(r1.k, own1, r, own4, {y5})
            BY <2>5, <3>4, <4>9, StepThen
          <6> QED BY <1>1, <1>2, <2>1, <2>3, <4>6, <6>1, <6>2, EntryKept
        <5>4. r.mem[root][a].to = t2 /\ r.mem[t2][b].to = t3 /\ r.mem[t3][c].to = t4
          BY <2>1, <3>1, <4>1, <5>1, <5>2, <5>3
        <5>5. r.mem[t4][d] = Entry(f) /\ Entry(f).to = f
          BY <4>8 DEF Entry
        <5> QED BY <1>2, <4>8, <5>1, <5>2, <5>3, <5>4, <5>5
                DEF MappedTo, a, b, c, d, y2, y3, y4, y5
      <4>12. \A g \in Frames : g \in k.used /\ g # f => own4[g] = own[g]
        BY <3>5, <4>8 DEF Old
      <4>13. own4 \in [Frames -> Labels]
        BY <4>8 DEF Fine, Sound
      <4>14. r.dropped = k.dropped \ {<<root, va>>}
        BY <3>5, <4>4, <4>8
      <4>15. MapPost(k, D, own, root, va, f, r, own4)
        BY <4>8, <4>10, <4>11, <4>12, <4>13, <4>14 DEF MapPost, y5
      <4> QED BY <4>15 DEF r
    <3> QED BY <3>6, <3>7
  <2> QED BY <2>7, <2>8
<1> QED BY <1>11, <1>12
-----------------------------------------------------------------------------
(* vmm_unmap_page() for a page of a heap.                                  *)

\* The table behind the entry i of t, if there is one.
FoundPost(k, own, t, i, g) ==
  /\ g.k = k
  /\ g.ptr # 0 => Leads(k.mem[t][i], own, Child(own[t], i)) /\ k.mem[t][i].to = g.ptr

\* An entry is followed or leads nowhere.
LEMMA Look ==
  ASSUME NEW k, NEW D, NEW own, Fine(k, D, own), NEW t \in Frames, NEW i \in Index,
         own[t].l \in 1 .. 3, own[t].l = 1 \/ own[t].a # 0
  PROVE  /\ PageTable(k, t, i, FALSE) = get_next_level(k, t, i, FALSE)
         /\ FoundPost(k, own, t, i, get_next_level(k, t, i, FALSE))
<1> DEFINE e == k.mem[t][i]
<1>1. Read(k, t, i) = e
  BY Labelled, Access
<1>2. EntryOk(k.mem, own, own[t], i, e)
  BY DEF Fine, Sound, EntriesOk
<1>3. ~e.p \/ Leads(e, own, Child(own[t], i))
  BY <1>2 DEF EntryOk, Plain, Onward
<1>4. ~(e.p /\ e.h)
  BY <1>3 DEF Leads
<1> HIDE DEF e
<1>5. PageTable(k, t, i, FALSE) = get_next_level(k, t, i, FALSE)
  BY <1>1, <1>4 DEF PageTable
<1>6. CASE e.p
  <2>1. get_next_level(k, t, i, FALSE) = [k |-> k, ptr |-> e.to]
    BY <1>1, <1>4, <1>6 DEF get_next_level
  <2>2. FoundPost(k, own, t, i, [k |-> k, ptr |-> e.to])
    BY <1>3, <1>6 DEF FoundPost, e
  <2> QED BY <1>5, <2>1, <2>2
<1>7. CASE ~e.p
  <2>1. get_next_level(k, t, i, FALSE) = [k |-> k, ptr |-> 0]
    BY <1>1, <1>7 DEF get_next_level
  <2>2. FoundPost(k, own, t, i, [k |-> k, ptr |-> 0])
    BY DEF FoundPost
  <2> QED BY <1>5, <2>1, <2>2
<1> QED BY <1>6, <1>7

\* An entry that leads to a page of a heap is cleared.
LEMMA Clear ==
  ASSUME NEW k, NEW D, NEW own, Fine(k, D, own), NEW t \in Frames, NEW i \in Index,
         own[t].l = 4, own[t].a # 0
  PROVE  LET r == Write(k, t, i, Zero)
         IN  /\ Fine(r, D, own) /\ Step(k, own, r, own, {Child(own[t], i)}) /\ TStep(k, r)
             /\ r.used = k.used /\ r.dropped = k.dropped
<1> DEFINE m == [k.mem EXCEPT ![t][i] = Zero]
           r == [k EXCEPT !.mem = m]
<1>1. Write(k, t, i, Zero) = r
  <2>1. t \notin LinkFrames /\ Zero \in GoodWord
    BY Labelled, GoodWords
  <2> QED BY <2>1, Access
<1>2. Typed(k) /\ own \in [Frames -> Labels] /\ Owners(own, k.used, D)
      /\ LinkFree(k.used, D)
  BY DEF Fine, Sound
<1>3. /\ m \in Mems /\ \A g \in Frames \ {t} : m[g] = k.mem[g]
      /\ \A j \in Index \ {i} : m[t][j] = k.mem[t][j]
      /\ m[t][i] = Zero
  <2>1. k.mem \in Mems /\ Zero \in GoodWord
    BY <1>2, StateParts, GoodWords
  <2> QED BY <2>1, MemPut
<1> HIDE DEF m
<1>4. TStep(k, r) /\ r.mem = m /\ r.used = k.used /\ r.dropped = k.dropped
  BY <1>2, <1>3, NewMem
<1> HIDE DEF r
<1> DEFINE X == {Child(own[t], i)}
<1>5. Step(k, own, r, own, X)
  <2> SUFFICES ASSUME NEW s \in Frames, own[s].l # 0
               PROVE  /\ own[s].l = 5 /\ own[s] \notin X => r.mem[s] = k.mem[s]
                      /\ own[s].l \in 1 .. 4 =>
                           \A j \in Index :
                             Leads(k.mem[s][j], own, Child(own[s], j))
                               /\ Child(own[s], j) \notin X
                               => r.mem[s][j] = k.mem[s][j]
    BY DEF Step
  <2>1. own[s].l = 5 => r.mem[s] = k.mem[s]
    BY <1>3, <1>4
  <2>2. ASSUME NEW j \in Index, own[s].l \in 1 .. 4, Child(own[s], j) \notin X
        PROVE  r.mem[s][j] = k.mem[s][j]
    <3>1. ~(s = t /\ j = i)
      BY <2>2
    <3> QED BY <1>3, <1>4, <3>1
  <2> QED BY <2>1, <2>2
<1>6. X \subseteq Leaves
  <2>1. own[t] \in Labels /\ own[t].l \in 1 .. 4
    BY <1>2
  <2>2. Child(own[t], i) \in Labels /\ Child(own[t], i).l = 5
    BY <2>1, ChildOf
  <2> QED BY <2>2 DEF Leaves
<1> HIDE DEF X
<1>7. \A g \in Image : r.mem[g] = k.mem[g]
  <2>1. t \notin Image
    BY Labelled
  <2> QED BY <1>3, <1>4, <2>1, KernelFrames
<1>8. ASSUME NEW s \in Frames, NEW j \in Index, own[s].l \in {1, 2, 3, 4, 6}
      PROVE  \/ own[s] = own[s] /\ r.mem[s][j] = k.mem[s][j]
             \/ EntryOk(r.mem, own, own[s], j, r.mem[s][j])
  <2>1. CASE s = t /\ j = i
    <3>1. ~r.mem[s][j].p
      BY <1>3, <1>4, <2>1 DEF Zero
    <3> QED BY <2>1, <3>1 DEF EntryOk, Plain
  <2>2. CASE ~(s = t /\ j = i)
    BY <1>3, <1>4, <2>2
  <2> QED BY <2>1, <2>2
<1>9. Owners(own, r.used, D) /\ LinkFree(r.used, D)
  BY <1>2, <1>4
<1>10. Fine(r, D, own)
  BY <1>2, <1>4, <1>5, <1>6, <1>7, <1>8, <1>9, FineKept
<1> QED BY <1>1, <1>4, <1>5, <1>10 DEF X

\* Only the page that is unmapped goes.
LEMMA UnmapUser ==
  ASSUME NEW k, NEW D, NEW own, Fine(k, D, own), NEW root, Whole(k.mem, own, root),
         NEW va \in Pages, va[1] # 0
  PROVE  LET r == vmm_unmap_page(k, root, va)
         IN  /\ Fine(r, D, own) /\ Step(k, own, r, own, {Leaf(root, va)}) /\ TStep(k, r)
             /\ r.used = k.used /\ r.dropped = k.dropped
<1> DEFINE r1 == UnmapPdp(k, root, va)
           r2 == UnmapPd(k, root, va)
           r3 == UnmapPt(k, root, va)
           r == vmm_unmap_page(k, root, va)
           a == va[1]
           b == va[2]
           c == va[3]
           d == va[4]
           y2 == Lab(2, root, a, 0, 0, 0)
           y3 == Lab(3, root, a, b, 0, 0)
           y4 == Lab(4, root, a, b, c, 0)
           y5 == Leaf(root, va)
<1>1. a \in Index /\ b \in Index /\ c \in Index /\ d \in Index /\ a # 0
  BY MappingVA, VaParts
<1>2. root \in Frames /\ own[root] = Root(root) /\ own[root].l = 1
  BY DEF Whole, Root, Lab
<1>3. r = IF r1.ptr = 0 THEN r1.k ELSE IF r2.ptr = 0 THEN r2.k
          ELSE IF r3.ptr = 0 THEN r3.k ELSE Write(r3.k, r3.ptr, d, Zero)
  BY UnmapSteps
<1>4. /\ r1 = get_next_level(k, root, a, FALSE)
      /\ r2 = get_next_level(r1.k, r1.ptr, b, FALSE)
      /\ r3 = PageTable(r2.k, r2.ptr, c, FALSE)
  BY DEF UnmapPdp, UnmapPd, UnmapPt
<1>5. /\ Child(Root(root), a) = y2 /\ Child(y2, b) = y3 /\ Child(y3, c) = y4
      /\ Child(y4, d) = y5
      /\ y2.l = 2 /\ y2.a = a /\ y3.l = 3 /\ y3.a = a
      /\ y4.l = 4 /\ y4.a = a
  BY DEF Root, Lab, Child, Leaf
<1>6. Typed(k) /\ own \in [Frames -> Labels]
  BY DEF Fine, Sound
<1> HIDE DEF r1, r2, r3, r, a, b, c, d, y2, y3, y4, y5
<1> DEFINE Done(rr) == /\ Fine(rr, D, own) /\ Step(k, own, rr, own, {y5}) /\ TStep(k, rr)
                       /\ rr.used = k.used /\ rr.dropped = k.dropped
<1>7. Done(k)
  <2>1. Step(k, own, k, own, {y5})
    BY StepRefl
  <2> QED BY <1>6, <2>1, TStepRefl
<1>8. /\ r1.k = k
      /\ r1.ptr # 0 => r1.ptr \in Frames /\ own[r1.ptr] = y2
  <2>1. own[root].l \in 1 .. 3 /\ own[root].l = 1
    BY <1>2
  <2>2. FoundPost(k, own, root, a, r1)
    BY <1>1, <1>2, <1>4, <2>1, Look
  <2> QED BY <1>2, <1>5, <2>2 DEF Leads, FoundPost
<1>9. CASE r1.ptr = 0
  BY <1>3, <1>7, <1>8, <1>9 DEF r, y5
<1>10. CASE r1.ptr # 0
  <2>1. /\ r2.k = k
        /\ r2.ptr # 0 => r2.ptr \in Frames /\ own[r2.ptr] = y3
    <3> DEFINE t == r1.ptr
    <3>1. own[t] = y2 /\ own[t].l \in 1 .. 3 /\ own[t].a # 0 /\ t \in Frames
      BY <1>1, <1>5, <1>8, <1>10
    <3>2. r2 = get_next_level(k, t, b, FALSE)
      BY <1>4, <1>8
    <3> HIDE DEF t
    <3>3. FoundPost(k, own, t, b, r2)
      BY <1>1, <3>1, <3>2, Look
    <3> QED BY <1>5, <3>1, <3>3 DEF Leads, FoundPost
  <2>2. CASE r2.ptr = 0
    BY <1>3, <1>7, <1>10, <2>1, <2>2 DEF r, y5
  <2>3. CASE r2.ptr # 0
    <3>1. /\ r3.k = k
          /\ r3.ptr # 0 => r3.ptr \in Frames /\ own[r3.ptr] = y4
      <4> DEFINE t == r2.ptr
      <4>1. own[t] = y3 /\ own[t].l \in 1 .. 3 /\ own[t].a # 0 /\ t \in Frames
        BY <1>1, <1>5, <2>1, <2>3
      <4>2. r3 = PageTable(k, t, c, FALSE)
        BY <1>4, <2>1
      <4> HIDE DEF t
      <4>3. FoundPost(k, own, t, c, r3)
        BY <1>1, <4>1, <4>2, Look
      <4> QED BY <1>5, <4>1, <4>3 DEF Leads, FoundPost
    <3>2. CASE r3.ptr = 0
      BY <1>3, <1>7, <1>10, <2>3, <3>1, <3>2 DEF r, y5
    <3>3. CASE r3.ptr # 0
      <4> DEFINE t == r3.ptr
      <4>1. t \in Frames /\ own[t] = y4 /\ own[t].l = 4 /\ own[t].a # 0
            /\ Child(own[t], d) = y5
        BY <1>1, <1>5, <3>1, <3>3
      <4>2. r = Write(k, t, d, Zero)
        BY <1>3, <1>10, <2>3, <3>1, <3>3
      <4> HIDE DEF t
      <4>3. Done(Write(k, t, d, Zero))
        BY <1>1, <4>1, Clear
      <4> QED BY <4>2, <4>3 DEF r, y5
    <3> QED BY <3>2, <3>3
  <2> QED BY <2>2, <2>3
<1> QED BY <1>9, <1>10
-----------------------------------------------------------------------------
(* create_user_pml4(): until it is complete, nothing of the new address    *)
(* space has a label.                                                      *)

\* A frame that is in use and is nobody's.
Loose(k, D, own, f) ==
  /\ f \in Frames /\ f \in k.used /\ own[f].l = 0
  /\ f \notin Image \union ModulePages \union D /\ f \notin LinkFrames

\* The root, the directory pointers, and the first n directories of the copy.
CopyOf(k, D, own, root, pdp, n) ==
  /\ Loose(k, D, own, root) /\ Loose(k, D, own, pdp) /\ root # pdp
  /\ k.mem[root] = [i \in Index |-> IF i = 0 THEN Entry(pdp) ELSE Zero]
  /\ \A j \in Index : j >= n => k.mem[pdp][j] = Zero
  /\ \A j \in 0 .. NPD - 1 : j < n =>
       LET g == k.mem[pdp][j].to IN
       /\ k.mem[pdp][j] = Entry(g) /\ Loose(k, D, own, g) /\ g # root /\ g # pdp
       /\ k.mem[g] = k.mem[kernel_pd(j)]
       /\ \A i \in 0 .. NPD - 1 : i < n /\ i # j => k.mem[pdp][i].to # g

\* What is true before every round of the loop over the directories.
CopySound(p, r, i) ==
  /\ r = [k |-> r.k, ptr |-> r.ptr, pdp |-> p.pdp]
  /\ TStep(p.k, r.k) /\ r.ptr \in {0, p.root}
  /\ LinkFree(r.k.used, p.D) =>
       /\ Fine(r.k, p.D, p.own) /\ Step(p.k, p.own, r.k, p.own, {})
       /\ r.k.dropped = p.k.dropped
       /\ r.ptr # 0 => CopyOf(r.k, p.D, p.own, p.root, p.pdp, i)

\* A directory is copied.
LEMMA CopyRoundSound ==
  ASSUME NEW p, NEW r, NEW i \in 1 .. NPD, CopySound(p, r, i - 1), p.pdp \in Frames
  PROVE  CopySound(p, CopyRound(p, r, i), i)
<1> DEFINE n == i - 1
           a == pmm_alloc_page(r.k)
           f == a.ptr
           l == WritePage(a.k, f, ZeroPage)
           t == Write(l, p.pdp, n, Entry(f))
           page == [j \in Index |-> Read(t, kernel_pd(n), j)]
           c == WritePage(t, f, page)
           D == p.D
           own == p.own
<1>1. /\ r = [k |-> r.k, ptr |-> r.ptr, pdp |-> p.pdp]
      /\ TStep(p.k, r.k) /\ r.ptr \in {0, p.root} /\ Typed(r.k)
  BY DEF CopySound, TStep
<1>2. n \in Index /\ n \in 0 .. NPD - 1 /\ n \in Nat /\ kernel_pd(n) \in Image
      /\ kernel_pd(n) \in Frames /\ n + 1 = i
  <2>1. i \in Int /\ n \in Index /\ n + 1 = i
    BY Sizes
  <2>2. n \in 0 .. NPD - 1 /\ n \in Nat
    BY Sizes
  <2> QED BY <2>1, <2>2, KernelFrames
<1>3. CASE r.ptr = 0
  <2>1. CopyRound(p, r, i) = r
    BY <1>3 DEF CopyRound, copy_pd
  <2> QED BY <1>3, <2>1 DEF CopySound
<1>4. CASE r.ptr # 0
  <2>1. CopyRound(p, r, i) = IF f = 0 THEN [r EXCEPT !.k = a.k, !.ptr = 0]
                             ELSE [r EXCEPT !.k = c]
    BY <1>1, <1>4 DEF CopyRound, copy_pd, NewTable
  <2>2. CASE f = 0
    <3>1. TStep(p.k, a.k) /\ a.k = r.k
      BY <1>1, <2>2, Allocating
    <3> HIDE DEF a
    <3>2. CopyRound(p, r, i) = [k |-> a.k, ptr |-> 0, pdp |-> r.pdp]
      BY <1>1, <2>1, <2>2
    <3> HIDE DEF CopyRound
    <3>3. r.pdp = p.pdp
      BY <1>1
    <3> QED BY <1>1, <3>1, <3>2, <3>3 DEF CopySound
  <2>3. CASE f # 0
    <3>1. CopyRound(p, r, i) = [k |-> c, ptr |-> r.ptr, pdp |-> p.pdp]
      BY <1>1, <2>1, <2>3
    <3>2. TStep(r.k, a.k) /\ f \in Frames
      BY <1>1, Allocating
    <3>3. TStep(a.k, t)
      BY <1>1, <1>2, PagesTyped, HangTyped
    <3>4. TStep(t, c)
      <4>1. Typed(t)
        BY <3>3 DEF TStep
      <4> HIDE DEF t
      <4>2. page \in [Index -> GoodWord]
        BY <1>2, <4>1, ReadTyped
      <4> HIDE DEF page, f
      <4> QED BY <3>2, <4>1, <4>2, WritePageTyped
    <3> HIDE DEF c, t, l
    <3>5. TStep(r.k, c) /\ TStep(a.k, c) /\ TStep(p.k, c)
      BY <1>1, <3>2, <3>3, <3>4, TStepTrans
    <3>6. ASSUME LinkFree(c.used, D)
          PROVE  /\ Fine(c, D, own) /\ Step(p.k, own, c, own, {})
                 /\ c.dropped = p.k.dropped
                 /\ CopyOf(c, D, own, p.root, p.pdp, i)
      <4>1. LinkFree(a.k.used, D) /\ LinkFree(r.k.used, D)
        BY <3>2, <3>5, <3>6, LinkFreeLess DEF TStep
      <4>2. /\ Fine(r.k, D, own) /\ Step(p.k, own, r.k, own, {})
            /\ r.k.dropped = p.k.dropped
            /\ CopyOf(r.k, D, own, p.root, p.pdp, n)
        BY <1>4, <4>1 DEF CopySound
      <4>3. /\ Fine(a.k, D, own) /\ Step(r.k, own, a.k, own, {})
            /\ a.k.mem = r.k.mem /\ a.k.dropped = r.k.dropped
            /\ f \notin r.k.used /\ f \in a.k.used /\ own[f].l = 0 /\ f \notin LinkFrames
            /\ f \notin Image \union ModulePages \union D
            /\ a.k.used = r.k.used \union {f}
        BY <2>3, <4>1, <4>2, AllocFine
      <4> HIDE DEF a, f
      <4>4. /\ Fine(l, D, own) /\ Step(a.k, own, l, own, {})
            /\ l.mem[f] = ZeroPage /\ l.used = a.k.used /\ l.dropped = a.k.dropped
            /\ \A g \in Frames \ {f} : l.mem[g] = a.k.mem[g]
        BY <3>2, <4>3, PagesTyped, WriteNone DEF l
      <4>5. p.pdp # f /\ Loose(l, D, own, p.pdp)
        BY <4>2, <4>3, <4>4 DEF CopyOf, Loose
      <4>6. /\ Fine(t, D, own) /\ Step(l, own, t, own, {})
            /\ t.mem[p.pdp] = [l.mem[p.pdp] EXCEPT ![n] = Entry(f)]
            /\ t.used = l.used /\ t.dropped = l.dropped
            /\ \A g \in Frames \ {p.pdp} : t.mem[g] = l.mem[g]
        <5>1. Entry(f) \in GoodWord
          BY <3>2, GoodWords
        <5>2. /\ p.pdp \in Frames /\ own[p.pdp].l = 0 /\ p.pdp \notin Image
              /\ p.pdp \notin LinkFrames
          BY <4>5 DEF Loose
        <5> QED BY <1>2, <4>4, <5>1, <5>2, WriteNoneWord DEF t
      <4>7. page = t.mem[kernel_pd(n)] /\ page \in [Index -> GoodWord]
        <5>1. kernel_pd(n) \notin LinkFrames
          BY <1>2, <4>1, NotAtLink
        <5>2. \A j \in Index : Read(t, kernel_pd(n), j) = t.mem[kernel_pd(n)][j]
          BY <1>2, <4>6, <5>1, Access
        <5>3. t.mem[kernel_pd(n)] \in [Index -> GoodWord]
          <6>1. t.mem \in Mems
            BY <4>6, StateParts DEF Fine
          <6> QED BY <1>2, <6>1 DEF Mems
        <5>4. page = [j \in Index |-> t.mem[kernel_pd(n)][j]]
          BY <5>2
        <5> HIDE DEF page
        <5> QED BY <5>3, <5>4
      <4> HIDE DEF page
      <4>8. /\ Fine(c, D, own) /\ Step(t, own, c, own, {})
            /\ c.mem[f] = page /\ c.used = t.used /\ c.dropped = t.dropped
            /\ \A g \in Frames \ {f} : c.mem[g] = t.mem[g]
        BY <3>2, <4>3, <4>6, <4>7, WriteNone DEF c
      <4>9. Step(p.k, own, c, own, {})
        <5>1. Step(p.k, own, a.k, own, {})
          BY <4>2, <4>3, StepThen
        <5>2. Step(p.k, own, l, own, {})
          BY <4>4, <5>1, StepThen
        <5>3. Step(p.k, own, t, own, {})
          BY <4>6, <5>2, StepThen
        <5> QED BY <4>8, <5>3, StepThen
      <4>10. CopyOf(c, D, own, p.root, p.pdp, i)
        <5>1. c.used = r.k.used \union {f}
          BY <4>3, <4>4, <4>6, <4>8
        <5>2. \A g \in Frames \ {f, p.pdp} : c.mem[g] = r.k.mem[g]
          BY <4>3, <4>4, <4>6, <4>8
        <5>3. c.mem[p.pdp] = [r.k.mem[p.pdp] EXCEPT ![n] = Entry(f)]
          <6>1. p.pdp \in Frames \ {f}
            BY <4>5
          <6>2. c.mem[p.pdp] = t.mem[p.pdp] /\ l.mem[p.pdp] = r.k.mem[p.pdp]
            BY <4>3, <4>4, <4>8, <6>1
          <6> QED BY <4>6, <6>2
        <5>4. c.mem[f] = r.k.mem[kernel_pd(n)] /\ Loose(c, D, own, f)
          <6>1. kernel_pd(n) # f /\ kernel_pd(n) # p.pdp
            BY <1>2, <4>3, <4>5 DEF Loose
          <6>2. t.mem[kernel_pd(n)] = r.k.mem[kernel_pd(n)]
            BY <1>2, <4>3, <4>4, <4>6, <6>1
          <6>3. Loose(c, D, own, f)
            BY <3>2, <4>3, <5>1 DEF Loose
          <6> QED BY <4>7, <4>8, <6>2, <6>3
        <5>5. r.k.mem[p.pdp] \in [Index -> GoodWord]
          <6>1. r.k.mem \in Mems
            BY <1>1, StateParts
          <6> QED BY <6>1 DEF Mems
        <5> DEFINE m0 == r.k.mem
                   m1 == c.mem
                   q == p.pdp
        <5>6. /\ m1[q][n] = Entry(f)
              /\ \A j \in Index \ {n} : m1[q][j] = m0[q][j]
          BY <1>2, <5>3, <5>5
        <5>7. /\ Loose(c, D, own, p.root) /\ Loose(c, D, own, q) /\ p.root # q
              /\ m1[p.root] = [j \in Index |-> IF j = 0 THEN Entry(q) ELSE Zero]
          <6>1. Loose(r.k, D, own, p.root) /\ Loose(r.k, D, own, q) /\ p.root # q
                /\ m0[p.root] = [j \in Index |-> IF j = 0 THEN Entry(q) ELSE Zero]
            BY <4>2 DEF CopyOf
          <6>2. p.root # f /\ p.root \in Frames
            BY <4>3, <6>1 DEF Loose
          <6> QED BY <5>1, <5>2, <6>1, <6>2 DEF Loose
        <5>8. \A j \in Index : j >= i => m1[q][j] = Zero
          <6> SUFFICES ASSUME NEW j \in Index, j >= i PROVE m1[q][j] = Zero
            OBVIOUS
          <6>1. j # n /\ j >= n
            BY <1>2, Sizes
          <6>2. m0[q][j] = Zero
            BY <4>2, <6>1 DEF CopyOf
          <6> QED BY <5>6, <6>1, <6>2
        <5>9. ASSUME NEW j \in 0 .. NPD - 1, j < n
              PROVE  LET g == m0[q][j].to
                     IN  /\ m1[q][j] = Entry(g) /\ m1[q][j] = m0[q][j]
                         /\ Loose(c, D, own, g) /\ g # p.root /\ g # q /\ g # f
                         /\ m1[g] = m1[kernel_pd(j)]
          <6> DEFINE g == m0[q][j].to
          <6>1. /\ m0[q][j] = Entry(g) /\ Loose(r.k, D, own, g) /\ g # p.root /\ g # q
                /\ m0[g] = m0[kernel_pd(j)]
            BY <4>2, <5>9 DEF CopyOf
          <6>2. j # n /\ j \in Index
            BY <1>2, <5>9, Sizes
          <6>3. m1[q][j] = m0[q][j]
            BY <5>6, <6>2
          <6> HIDE DEF g
          <6>4. g # f /\ g \in Frames /\ Loose(c, D, own, g)
            BY <4>3, <5>1, <6>1 DEF Loose
          <6>5. m1[g] = m0[g]
            BY <5>2, <6>1, <6>4
          <6>6. m1[kernel_pd(j)] = m0[kernel_pd(j)]
            <7>1. kernel_pd(j) \in Image /\ kernel_pd(j) \in Frames
              BY KernelFrames
            <7>2. kernel_pd(j) # f /\ kernel_pd(j) # q
              BY <4>3, <5>7, <7>1 DEF Loose
            <7> QED BY <5>2, <7>1, <7>2
          <6> QED BY <6>1, <6>3, <6>4, <6>5, <6>6 DEF g
        <5>10. m1[kernel_pd(n)] = m0[kernel_pd(n)]
          <6>1. kernel_pd(n) # f /\ kernel_pd(n) # q
            BY <1>2, <4>3, <5>7 DEF Loose
          <6> QED BY <1>2, <5>2, <6>1
        <5>11. f # p.root /\ f # q
          BY <4>3, <4>5, <4>2 DEF CopyOf, Loose
        <5>12. Entry(f).to = f
          BY DEF Entry
        <5> HIDE DEF m0, m1, q
        <5>13. ASSUME NEW j \in 0 .. NPD - 1, j < i
               PROVE  LET g == m1[q][j].to IN
                      /\ m1[q][j] = Entry(g) /\ Loose(c, D, own, g) /\ g # p.root /\ g # q
                      /\ m1[g] = m1[kernel_pd(j)]
          <6>1. CASE j = n
            BY <5>4, <5>6, <5>10, <5>11, <5>12, <6>1 DEF m0, m1
          <6>2. CASE j # n
            <7>1. j < n
              BY <1>2, <5>13, <6>2
            <7> QED BY <5>9, <7>1
          <6> QED BY <6>1, <6>2
        <5>14. ASSUME NEW j \in 0 .. NPD - 1, j < i, NEW h \in 0 .. NPD - 1, h < i, h # j
               PROVE  m1[q][h].to # m1[q][j].to
          <6>1. (j # n => j < n) /\ (h # n => h < n)
            BY <1>2, <5>14
          <6>2. CASE j = n
            <7>1. m1[q][h].to # f /\ m1[q][j].to = f
              BY <5>6, <5>9, <5>12, <5>14, <6>1, <6>2
            <7> QED BY <7>1
          <6>3. CASE h = n
            <7>1. m1[q][j].to # f /\ m1[q][h].to = f
              BY <5>6, <5>9, <5>12, <5>14, <6>1, <6>3
            <7> QED BY <7>1
          <6>4. CASE j # n /\ h # n
            <7>1. m0[q][h].to # m0[q][j].to
              BY <4>2, <5>14, <6>1, <6>4 DEF CopyOf, m0, q
            <7>2. m1[q][h] = m0[q][h] /\ m1[q][j] = m0[q][j]
              BY <5>9, <6>1, <6>4
            <7> QED BY <7>1, <7>2
          <6> QED BY <6>2, <6>3, <6>4
        <5> QED BY <5>7, <5>8, <5>13, <5>14 DEF CopyOf, m1, q
      <4>11. c.dropped = p.k.dropped
        BY <4>2, <4>3, <4>4, <4>6, <4>8
      <4> QED BY <4>8, <4>9, <4>10, <4>11
    <3> DEFINE x == [k |-> c, ptr |-> r.ptr, pdp |-> p.pdp]
    <3>7. CopySound(p, x, i)
      BY <1>1, <3>5, <3>6 DEF CopySound
    <3> HIDE DEF x
    <3> QED BY <3>1, <3>7 DEF x
  <2> QED BY <2>2, <2>3
<1> QED BY <1>3, <1>4

\* A copy that is complete is given its labels.
LEMMA Adopt ==
  ASSUME NEW k, NEW D, NEW own, Fine(k, D, own), NEW root, NEW pdp,
         CopyOf(k, D, own, root, pdp, NPD)
  PROVE  \E own2 \in [Frames -> Labels] :
           Fine(k, D, own2) /\ Step(k, own, k, own2, {}) /\ Whole(k.mem, own2, root)
<1> DEFINE m == k.mem
           G(j) == m[pdp][j].to
           y2 == Lab(2, root, 0, 0, 0, 0)
           y3(j) == Lab(3, root, 0, j, 0, 0)
           Is(f, j) == f = G(j)
           At3(f) == CHOOSE j \in 0 .. NPD - 1 : Is(f, j)
           own2 == [f \in Frames |-> IF f = root THEN Root(root)
                                     ELSE IF f = pdp THEN y2
                                     ELSE IF \E j \in 0 .. NPD - 1 : Is(f, j)
                                     THEN y3(At3(f)) ELSE own[f]]
<1>1. Typed(k) /\ own \in [Frames -> Labels] /\ Owners(own, k.used, D)
      /\ LinkFree(k.used, D)
  BY DEF Fine, Sound
<1>2. /\ Loose(k, D, own, root) /\ Loose(k, D, own, pdp) /\ root # pdp
      /\ m[root] = [i \in Index |-> IF i = 0 THEN Entry(pdp) ELSE Zero]
      /\ \A j \in Index : j >= NPD => m[pdp][j] = Zero
  BY DEF CopyOf
<1>3. ASSUME NEW j \in 0 .. NPD - 1
      PROVE  /\ m[pdp][j] = Entry(G(j)) /\ Loose(k, D, own, G(j))
             /\ G(j) # root /\ G(j) # pdp /\ m[G(j)] = m[kernel_pd(j)]
             /\ \A i \in 0 .. NPD - 1 : i # j => ~Is(G(j), i)
  <2>1. j < NPD /\ \A i \in 0 .. NPD - 1 : i < NPD
    BY Sizes
  <2> QED BY <2>1 DEF CopyOf
<1>4. /\ root \in Frames /\ pdp \in Frames /\ own[root].l = 0 /\ own[pdp].l = 0
      /\ 0 \in Index /\ 0 \in Frames
  BY <1>2, Sizes, NoFrameIsNone DEF Loose
<1>5. own2[root] = Root(root) /\ own2[pdp] = y2
  BY <1>2, <1>4
<1>6. ASSUME NEW j \in 0 .. NPD - 1
      PROVE  own2[G(j)] = y3(j) /\ G(j) \in Frames /\ own[G(j)].l = 0
  <2>1. G(j) \in Frames /\ G(j) # root /\ G(j) # pdp /\ own[G(j)].l = 0
    BY <1>3 DEF Loose
  <2>2. At3(G(j)) = j
    <3>1. \A i \in 0 .. NPD - 1 : Is(G(j), i) => i = j
      BY <1>3
    <3>2. Is(G(j), j)
      OBVIOUS
    <3> HIDE DEF Is, G
    <3> QED BY <3>1, <3>2
  <2>3. \E i \in 0 .. NPD - 1 : Is(G(j), i)
    OBVIOUS
  <2> HIDE DEF Is, G, At3, y3, y2
  <2> QED BY <2>1, <2>2, <2>3
<1>7. ASSUME NEW f \in Frames, f # root, f # pdp, \A j \in 0 .. NPD - 1 : f # G(j)
      PROVE  own2[f] = own[f]
  BY <1>7
<1>8. \A f \in Frames : own[f].l # 0 => own2[f] = own[f]
  BY <1>4, <1>6, <1>7
<1>9. /\ Root(root) \in Labels /\ y2 \in Labels
      /\ \A j \in 0 .. NPD - 1 : y3(j) \in Labels
  <2>1. \A j \in 0 .. NPD - 1 : j \in Index
    BY Sizes
  <2> QED BY <1>4, <2>1 DEF Root, Lab, Labels
<1> HIDE DEF y2, y3, G, own2
<1>10. ASSUME NEW f \in Frames
       PROVE  \/ f = root \/ f = pdp \/ \E j \in 0 .. NPD - 1 : f = G(j)
              \/ own2[f] = own[f]
  BY <1>7
<1>11. own2 \in [Frames -> Labels]
  <2>1. own2 = [f \in Frames |-> own2[f]]
    BY DEF own2
  <2>2. \A f \in Frames : own2[f] \in Labels
    BY <1>1, <1>5, <1>6, <1>9, <1>10
  <2> QED BY <2>1, <2>2
<1>12. Step(k, own, k, own2, {})
  BY <1>8 DEF Step
<1>13. ASSUME NEW f \in Frames, own2[f] # own[f]
       PROVE  \A i \in Index : EntryOk(m, own2, own2[f], i, m[f][i])
  <2>1. CASE f = root
    <3> SUFFICES ASSUME NEW i \in Index PROVE EntryOk(m, own2, own2[f], i, m[f][i])
      OBVIOUS
    <3>1. own2[f] = Root(root) /\ Root(root).l = 1 /\ Child(Root(root), 0) = y2
      BY <1>5, <2>1 DEF Root, Lab, Child, y2
    <3>2. CASE i = 0
      <4>1. m[f][i] = Entry(pdp)
        BY <1>2, <2>1, <3>2
      <4>2. Leads(Entry(pdp), own2, y2)
        BY <1>4, <1>5 DEF Leads, Entry
      <4> QED BY <3>1, <3>2, <4>1, <4>2 DEF EntryOk, Onward
    <3>3. CASE i # 0
      <4>1. m[f][i] = Zero
        BY <1>2, <2>1, <3>3
      <4>2. ~m[f][i].p
        BY <4>1 DEF Zero
      <4> QED BY <3>1, <4>2 DEF EntryOk, Plain
    <3> QED BY <3>2, <3>3
  <2>2. CASE f = pdp
    <3> SUFFICES ASSUME NEW i \in Index PROVE EntryOk(m, own2, own2[f], i, m[f][i])
      OBVIOUS
    <3>1. own2[f] = y2 /\ y2.l = 2 /\ Child(y2, i) = y3(i)
      BY <1>5, <2>2 DEF Lab, Child, y2, y3
    <3>2. CASE i \in 0 .. NPD - 1
      <4>1. m[f][i] = Entry(G(i))
        BY <1>3, <2>2, <3>2
      <4>2. Leads(Entry(G(i)), own2, y3(i))
        BY <1>6, <3>2 DEF Leads, Entry
      <4> QED BY <3>1, <4>1, <4>2 DEF EntryOk, Onward
    <3>3. CASE i \notin 0 .. NPD - 1
      <4>0. i >= NPD
        BY <3>3, Sizes
      <4>1. m[f][i] = Zero
        BY <1>2, <2>2, <4>0
      <4>2. ~m[f][i].p
        BY <4>1 DEF Zero
      <4> QED BY <3>1, <4>2 DEF EntryOk, Plain
    <3> QED BY <3>2, <3>3
  <2>3. CASE \E j \in 0 .. NPD - 1 : f = G(j)
    <3>1. PICK j \in 0 .. NPD - 1 : f = G(j)
      BY <2>3
    <3>2. own2[f] = y3(j) /\ y3(j).l = 3 /\ y3(j).a = 0 /\ y3(j).b = j
      BY <1>6, <3>1 DEF Lab, y3
    <3>3. m[f] = m[kernel_pd(j)]
      BY <1>3, <3>1
    <3> QED BY <3>2, <3>3 DEF EntryOk, Plain
  <2> QED BY <1>10, <1>13, <2>1, <2>2, <2>3
<1>14. Owners(own2, k.used, D)
  <2>1. \A j \in 0 .. NPD - 1 : Loose(k, D, own, G(j))
    BY <1>3
  <2>2. ASSUME NEW f \in Frames, f = root \/ f = pdp \/ \E j \in 0 .. NPD - 1 : f = G(j)
        PROVE  f \in k.used /\ f \notin Image \union ModulePages \union D
    BY <1>2, <2>1, <2>2 DEF Loose
  <2> QED BY <1>1, <1>10, <2>2 DEF Owners
<1>15. Fine(k, D, own2)
  <2>1. {} \subseteq Leaves
    OBVIOUS
  <2>2. \A t \in Frames, i \in Index :
           own2[t].l \in {1, 2, 3, 4, 6} =>
             \/ own2[t] = own[t] /\ k.mem[t][i] = k.mem[t][i]
             \/ EntryOk(k.mem, own2, own2[t], i, k.mem[t][i])
    BY <1>13
  <2>3. TStep(k, k)
    BY <1>1, TStepRefl
  <2> HIDE DEF m
  <2> QED BY <1>1, <1>11, <1>12, <1>14, <2>1, <2>2, <2>3, FineKept
<1>16. Whole(m, own2, root)
  <2>1. m[root][0] = Entry(pdp) /\ Entry(pdp).to = pdp
    BY <1>2, <1>4 DEF Entry
  <2>2. Leads(Entry(pdp), own2, y2)
    BY <1>4, <1>5 DEF Leads, Entry
  <2>3. \A b \in 0 .. NPD - 1 : Leads(m[pdp][b], own2, y3(b))
    <3> SUFFICES ASSUME NEW b \in 0 .. NPD - 1 PROVE Leads(m[pdp][b], own2, y3(b))
      OBVIOUS
    <3>1. m[pdp][b] = Entry(G(b))
      BY <1>3
    <3> QED BY <1>6, <3>1 DEF Leads, Entry
  <2> QED BY <1>4, <1>5, <2>1, <2>2, <2>3 DEF Whole, y2, y3
<1> QED BY <1>11, <1>12, <1>15, <1>16

CopyS == INSTANCE Loops WITH Round <- CopyRound, Good <- CopySound

\* What create_user_pml4() leaves.
CreatePost(k, D, own, r, own2) ==
  /\ own2 \in [Frames -> Labels]
  /\ Fine(r.k, D, own2) /\ Step(k, own, r.k, own2, {}) /\ r.k.dropped = k.dropped
  /\ r.ptr # 0 => Whole(r.k.mem, own2, r.ptr)

\* create_user_pml4() leaves all that was there, and its root is whole.
LEMMA CreateSound ==
  ASSUME NEW k, NEW D, NEW own, Fine(k, D, own), LinkFree(create_user_pml4(k).k.used, D)
  PROVE  \E own2 : CreatePost(k, D, own, create_user_pml4(k), own2)
<1> DEFINE a == RootPage(k)
           l == WritePage(a.k, a.ptr, ZeroPage)
           b == PdpPage(k)
           l2 == WritePage(b.k, b.ptr, ZeroPage)
           t == NewTable(b, a.ptr, 0)
           s == CopyStart(k)
           r == Copied(k)
           e == WritePage(r.k, r.ptr, RestOfRoot(r))
           c == create_user_pml4(k)
           p == [k |-> k, D |-> D, own |-> own, root |-> a.ptr, pdp |-> b.ptr]
<1>1. Typed(k) /\ own \in [Frames -> Labels]
  BY DEF Fine, Sound
<1>2. TStep(k, a.k) /\ a.ptr \in Frames /\ Typed(a.k)
  BY <1>1, Allocating DEF RootPage, TStep
<1>3. TStep(a.k, l) /\ Typed(l)
  <2> HIDE DEF a
  <2> QED BY <1>2, PagesTyped, WritePageTyped DEF TStep
<1>4. b = pmm_alloc_page(l)
  BY DEF PdpPage
<1>5. TStep(l, b.k) /\ b.ptr \in Frames /\ Typed(b.k)
  <2> HIDE DEF l, b
  <2> QED BY <1>3, <1>4, Allocating DEF TStep
<1>6. CASE a.ptr = 0
  <2>1. c = [k |-> k, ptr |-> 0, pdp |-> 0]
    BY <1>1, <1>6, Allocating, CreateSteps DEF RootPage
  <2> DEFINE x == [k |-> k, ptr |-> 0, pdp |-> 0]
  <2>2. CreatePost(k, D, own, x, own)
    BY <1>1, StepRefl DEF CreatePost
  <2> HIDE DEF x, c
  <2>3. c = x
    BY <2>1 DEF x
  <2> QED BY <2>2, <2>3 DEF c
<1>7. CASE a.ptr # 0 /\ b.ptr = 0
  <2>1. c = [k |-> b.k, ptr |-> 0, pdp |-> 0]
    BY <1>7, CreateSteps
  <2>2. b.k = l
    BY <1>3, <1>4, <1>7, Allocating
  <2>3. LinkFree(a.k.used, D)
    <3>1. LinkFree(l.used, D)
      BY <2>1, <2>2
    <3> HIDE DEF l, a
    <3> QED BY <1>3, <3>1, LinkFreeLess DEF TStep
  <2>4. /\ Fine(a.k, D, own) /\ Step(k, own, a.k, own, {}) /\ a.k.dropped = k.dropped
        /\ own[a.ptr].l = 0 /\ a.ptr \notin LinkFrames /\ a.ptr \notin Image
    BY <1>7, <2>3, AllocFine DEF RootPage
  <2>5. /\ Fine(l, D, own) /\ Step(a.k, own, l, own, {}) /\ l.dropped = a.k.dropped
    <3> HIDE DEF a
    <3> QED BY <1>2, <2>4, PagesTyped, WriteNone
  <2> DEFINE x == [k |-> l, ptr |-> 0, pdp |-> 0]
  <2>6. CreatePost(k, D, own, x, own)
    <3>1. Step(k, own, l, own, {})
      BY <2>4, <2>5, StepThen
    <3> HIDE DEF l
    <3> QED BY <1>1, <2>4, <2>5, <3>1 DEF CreatePost
  <2> HIDE DEF x, c
  <2>7. c = x
    BY <2>1, <2>2 DEF x
  <2> QED BY <2>6, <2>7 DEF c
<1>8. CASE a.ptr # 0 /\ b.ptr # 0
  <2>1. c = IF r.ptr = 0 THEN r ELSE [r EXCEPT !.k = e]
    BY <1>8, CreateSteps
  <2>2. t = [k |-> Write(l2, a.ptr, 0, Entry(b.ptr)), ptr |-> b.ptr]
    BY <1>8 DEF NewTable
  <2>3. s = [k |-> t.k, ptr |-> a.ptr, pdp |-> b.ptr]
    BY DEF CopyStart
  <2>4. 0 \in Index /\ NPD \in Nat
    BY Sizes
  <2>5. TStep(b.k, t.k)
    <3> HIDE DEF b, a
    <3>1. TStep(b.k, l2)
      BY <1>5, PagesTyped, WritePageTyped
    <3>2. TStep(l2, t.k)
      BY <1>2, <1>5, <2>2, <2>4, <3>1, GoodWords, WriteTyped DEF TStep
    <3> QED BY <3>1, <3>2, TStepTrans
  <2> HIDE DEF t
  <2>6. TStep(k, b.k) /\ TStep(k, t.k) /\ TStep(a.k, b.k)
    <3> HIDE DEF a, b, l
    <3> QED BY <1>2, <1>3, <1>5, <2>5, TStepTrans
  <2>7. ASSUME LinkFree(t.k.used, D)
        PROVE  /\ Fine(t.k, D, own) /\ Step(k, own, t.k, own, {})
               /\ t.k.dropped = k.dropped
               /\ CopyOf(t.k, D, own, a.ptr, b.ptr, 0)
    <3>1. LinkFree(a.k.used, D) /\ LinkFree(b.k.used, D)
      <4> HIDE DEF a, b
      <4> QED BY <2>5, <2>6, <2>7, LinkFreeLess DEF TStep
    <3>2. /\ Fine(a.k, D, own) /\ Step(k, own, a.k, own, {}) /\ a.k.dropped = k.dropped
          /\ own[a.ptr].l = 0 /\ a.ptr \notin LinkFrames /\ a.ptr \in a.k.used
          /\ a.ptr \notin Image \union ModulePages \union D
      BY <1>8, <3>1, AllocFine DEF RootPage
    <3> HIDE DEF a
    <3>3. /\ Fine(l, D, own) /\ Step(a.k, own, l, own, {}) /\ l.dropped = a.k.dropped
          /\ l.mem[a.ptr] = ZeroPage /\ l.used = a.k.used
      BY <1>2, <3>2, PagesTyped, WriteNone
    <3> HIDE DEF l
    <3>4. /\ Fine(b.k, D, own) /\ Step(l, own, b.k, own, {}) /\ b.k.dropped = l.dropped
          /\ own[b.ptr].l = 0 /\ b.ptr \notin LinkFrames /\ b.ptr \in b.k.used
          /\ b.ptr \notin Image \union ModulePages \union D
          /\ b.ptr \notin l.used /\ b.k.mem = l.mem
          /\ b.k.used = l.used \union {b.ptr}
      <4>1. LinkFree(pmm_alloc_page(l).k.used, D) /\ pmm_alloc_page(l).ptr # 0
        BY <1>4, <1>8, <3>1
      <4> HIDE DEF b
      <4> QED BY <1>4, <3>3, <4>1, AllocFine
    <3> HIDE DEF b
    <3>5. /\ Fine(l2, D, own) /\ Step(b.k, own, l2, own, {}) /\ l2.dropped = b.k.dropped
          /\ l2.mem[b.ptr] = ZeroPage /\ l2.used = b.k.used
          /\ \A g \in Frames \ {b.ptr} : l2.mem[g] = b.k.mem[g]
      BY <1>5, <3>4, PagesTyped, WriteNone
    <3> HIDE DEF l2
    <3>6. /\ Fine(t.k, D, own) /\ Step(l2, own, t.k, own, {}) /\ t.k.dropped = l2.dropped
          /\ t.k.mem[a.ptr] = [l2.mem[a.ptr] EXCEPT ![0] = Entry(b.ptr)]
          /\ t.k.used = l2.used
          /\ \A g \in Frames \ {a.ptr} : t.k.mem[g] = l2.mem[g]
      <4>1. Entry(b.ptr) \in GoodWord
        BY <1>5, GoodWords
      <4>2. t.k = Write(l2, a.ptr, 0, Entry(b.ptr))
        BY <2>2
      <4>3. a.ptr \notin Image
        BY <3>2
      <4> QED BY <1>2, <2>4, <3>2, <3>5, <4>1, <4>2, <4>3, WriteNoneWord
    <3>7. Step(k, own, t.k, own, {})
      <4>1. Step(k, own, l, own, {})
        BY <3>2, <3>3, StepThen
      <4>2. Step(k, own, b.k, own, {})
        BY <3>4, <4>1, StepThen
      <4>3. Step(k, own, l2, own, {})
        BY <3>5, <4>2, StepThen
      <4> QED BY <3>6, <4>3, StepThen
    <3>8. a.ptr # b.ptr
      BY <3>2, <3>3, <3>4
    <3>9. l2.mem[a.ptr] = ZeroPage
      <4>1. a.ptr \in Frames \ {b.ptr}
        BY <1>2, <3>8
      <4> QED BY <3>3, <3>4, <3>5, <4>1
    <3>10. t.k.mem[a.ptr] = [i \in Index |-> IF i = 0 THEN Entry(b.ptr) ELSE Zero]
      BY <2>4, <3>6, <3>9 DEF ZeroPage
    <3>11. t.k.mem[b.ptr] = ZeroPage
      <4>1. b.ptr \in Frames \ {a.ptr}
        BY <1>5, <3>8
      <4> QED BY <3>5, <3>6, <4>1
    <3>12. t.k.used = a.k.used \union {b.ptr}
      BY <3>3, <3>4, <3>5, <3>6
    <3>13. CopyOf(t.k, D, own, a.ptr, b.ptr, 0)
      <4>1. Loose(t.k, D, own, a.ptr) /\ Loose(t.k, D, own, b.ptr)
        BY <1>2, <1>5, <3>2, <3>4, <3>12 DEF Loose
      <4>2. \A j \in Index : t.k.mem[b.ptr][j] = Zero
        BY <3>11 DEF ZeroPage
      <4>3. \A j \in 0 .. NPD - 1 : ~(j < 0)
        OBVIOUS
      <4> QED BY <3>8, <3>10, <4>1, <4>2, <4>3 DEF CopyOf
    <3>14. t.k.dropped = k.dropped
      BY <3>2, <3>3, <3>4, <3>5, <3>6
    <3> QED BY <3>6, <3>7, <3>13, <3>14
  <2>8. CopySound(p, s, 0)
    <3> HIDE DEF a, b
    <3>1. /\ p.k = k /\ p.D = D /\ p.own = own /\ p.root = a.ptr /\ p.pdp = b.ptr
      OBVIOUS
    <3>2. s.k = t.k /\ s.ptr = a.ptr /\ s = [k |-> s.k, ptr |-> s.ptr, pdp |-> b.ptr]
      BY <2>3
    <3> HIDE DEF p, s
    <3> QED BY <2>6, <2>7, <3>1, <3>2 DEF CopySound
  <2>9. CopySound(p, r, NPD)
    <3>1. r = CopyS!Loop(p, s, NPD)
      BY DEF Copied, CopyT!Loop, CopyS!Loop, CopyRound
    <3>2. p.pdp \in Frames
      BY <1>5
    <3> HIDE DEF p, s, r
    <3>3. \A i \in 1 .. NPD : \A x : CopySound(p, x, i - 1) => CopySound(p, CopyRound(p, x, i), i)
      BY <3>2, CopyRoundSound
    <3>4. CopySound(p, CopyS!Loop(p, s, NPD), NPD)
      BY <2>4, <2>8, <3>3, CopyS!LoopKeeps
    <3> QED BY <3>1, <3>4
  <2>10. /\ r = [k |-> r.k, ptr |-> r.ptr, pdp |-> b.ptr]
         /\ TStep(k, r.k) /\ r.ptr \in {0, a.ptr}
         /\ LinkFree(r.k.used, D) =>
              /\ Fine(r.k, D, own) /\ Step(k, own, r.k, own, {})
              /\ r.k.dropped = k.dropped
              /\ r.ptr # 0 => CopyOf(r.k, D, own, a.ptr, b.ptr, NPD)
    <3>1. /\ p.k = k /\ p.D = D /\ p.own = own /\ p.root = a.ptr /\ p.pdp = b.ptr
      OBVIOUS
    <3> HIDE DEF p, r
    <3> QED BY <2>9, <3>1 DEF CopySound
  <2> HIDE DEF r, s
  <2>11. CASE r.ptr = 0
    <3>1. CreatePost(k, D, own, r, own)
      BY <1>1, <2>1, <2>10, <2>11 DEF CreatePost
    <3>2. c = r
      BY <2>1, <2>11
    <3> QED BY <3>1, <3>2
  <2>12. CASE r.ptr # 0
    <3>1. c.k = e /\ c.ptr = r.ptr /\ r.ptr = a.ptr
      BY <2>1, <2>10, <2>12
    <3>2. TStep(r.k, e)
      <4>0. a.ptr \in Frames
        BY <1>2
      <4> HIDE DEF a, b
      <4>1. Typed(r.k) /\ kernel_pml4 \in Frames /\ r.ptr \in Frames
        <5>1. Typed(r.k)
          BY <2>10 DEF TStep
        <5>2. kernel_pml4 \in Frames
          BY KernelFrames
        <5>3. r.ptr \in Frames
          BY <3>1, <4>0
        <5> QED BY <5>1, <5>2, <5>3
      <4>2. RestOfRoot(r) \in [Index -> GoodWord]
        BY <4>1, ReadTyped DEF RestOfRoot
      <4> QED BY <4>1, <4>2, WritePageTyped
    <3>3. LinkFree(r.k.used, D)
      <4> HIDE DEF e
      <4> QED BY <3>1, <3>2, LinkFreeLess DEF TStep
    <3>4. /\ Fine(r.k, D, own) /\ Step(k, own, r.k, own, {})
          /\ r.k.dropped = k.dropped
          /\ CopyOf(r.k, D, own, a.ptr, b.ptr, NPD)
      BY <2>10, <2>12, <3>3
    <3> HIDE DEF a, b
    <3>5. /\ Loose(r.k, D, own, a.ptr)
          /\ r.k.mem[a.ptr] = [i \in Index |-> IF i = 0 THEN Entry(b.ptr) ELSE Zero]
      BY <3>4 DEF CopyOf
    <3>6. a.ptr \in Frames /\ a.ptr \notin Image /\ a.ptr \notin LinkFrames /\ own[a.ptr].l = 0
      BY <3>5 DEF Loose
    <3>7. RestOfRoot(r) = r.k.mem[a.ptr]
      <4>1. kernel_pml4 \notin LinkFrames /\ kernel_pml4 \in Frames
        BY <3>3, KernelFrames, NotAtLink
      <4>2. r.k.mem[kernel_pml4] =
              [i \in Index |-> IF i = 0 THEN Entry(kernel_pdp) ELSE Zero]
        BY <3>4 DEF Fine, Sound, KernelTop
      <4>3. \A i \in Index : Read(r.k, kernel_pml4, i) = r.k.mem[kernel_pml4][i]
        BY <3>4, <4>1, Access
      <4>4. \A i \in Index : Read(r.k, a.ptr, i) = r.k.mem[a.ptr][i]
        BY <3>4, <3>6, Access
      <4>5. \A i \in Index : Read(r.k, IF i = 0 THEN r.ptr ELSE kernel_pml4, i)
                               = IF i = 0 THEN Entry(b.ptr) ELSE Zero
        <5> SUFFICES ASSUME NEW i \in Index
                     PROVE  Read(r.k, IF i = 0 THEN r.ptr ELSE kernel_pml4, i)
                              = IF i = 0 THEN Entry(b.ptr) ELSE Zero
          OBVIOUS
        <5>1. CASE i = 0
          BY <3>1, <3>5, <4>4, <5>1
        <5>2. CASE i # 0
          BY <4>2, <4>3, <5>2
        <5> QED BY <5>1, <5>2
      <4> QED BY <3>5, <4>5 DEF RestOfRoot
    <3>8. r.k.mem[a.ptr] \in [Index -> GoodWord]
      <4>1. r.k.mem \in Mems
        BY <3>4, StateParts DEF Fine
      <4> QED BY <3>6, <4>1 DEF Mems
    <3>9. /\ Fine(e, D, own) /\ Step(r.k, own, e, own, {})
          /\ e.mem[a.ptr] = r.k.mem[a.ptr] /\ e.used = r.k.used /\ e.dropped = r.k.dropped
          /\ \A g \in Frames \ {a.ptr} : e.mem[g] = r.k.mem[g]
      BY <3>1, <3>4, <3>6, <3>7, <3>8, WriteNone
    <3>10. CopyOf(e, D, own, a.ptr, b.ptr, NPD)
      <4>1. \A g \in Frames : e.mem[g] = r.k.mem[g]
        BY <3>9
      <4>2. \A g : Loose(r.k, D, own, g) => Loose(e, D, own, g) /\ g \in Frames
        BY <3>9 DEF Loose
      <4>3. \A j \in 0 .. NPD - 1 : kernel_pd(j) \in Frames
        BY KernelFrames
      <4> HIDE DEF e
      <4> QED BY <3>4, <4>1, <4>2, <4>3, SMTT(15) DEF CopyOf
    <3> HIDE DEF e
    <3>11. PICK own2 \in [Frames -> Labels] :
             Fine(e, D, own2) /\ Step(e, own, e, own2, {}) /\ Whole(e.mem, own2, a.ptr)
      BY <3>9, <3>10, Adopt
    <3>12. Step(k, own, e, own2, {})
      <4>1. Step(k, own, e, own, {})
        BY <3>4, <3>9, StepThen
      <4> QED BY <3>11, <4>1, StepThen
    <3> HIDE DEF c
    <3>13. CreatePost(k, D, own, c, own2)
      BY <3>1, <3>4, <3>9, <3>11, <3>12 DEF CreatePost
    <3> QED BY <3>13 DEF c
  <2> QED BY <2>11, <2>12
<1> QED BY <1>6, <1>7, <1>8
-----------------------------------------------------------------------------
(* What a call of the kernel does to the address spaces that are there: it *)
(* touches nothing of them but the pages whose labels are in X.            *)

SameDropped(k, own, r, X) ==
  \A root \in Frames, va \in Pages :
    own[root].l # 0 /\ Leaf(root, va) \notin X =>
      (<<root, va>> \in r.dropped <=> <<root, va>> \in k.dropped)

Change(k, own, r, D, own2, X) ==
  /\ own2 \in [Frames -> Labels]
  /\ Fine(r, D, own2) /\ Step(k, own, r, own2, X)
  /\ SameDropped(k, own, r, X)

\* A page of an address space has a label.
LEMMA LeafLabel ==
  ASSUME NEW root \in Frames, NEW va \in VA
  PROVE  Leaf(root, va) \in Leaves /\ Leaf(root, va).l = 5
<1>1. va[1] \in Index /\ va[2] \in Index /\ va[3] \in Index /\ va[4] \in Index
  BY VaParts
<1>2. Lab(5, root, va[1], va[2], va[3], va[4]) \in Labels
  BY <1>1 DEF Lab, Labels
<1> QED BY <1>2, LabFields DEF Leaf, Leaves

\* Two pages have two labels.
LEMMA LeafUnique ==
  ASSUME NEW root, NEW va \in VA, NEW root2, NEW vb \in VA, Leaf(root, va) = Leaf(root2, vb)
  PROVE  root = root2 /\ va = vb
<1>1. /\ root = root2 /\ va[1] = vb[1] /\ va[2] = vb[2] /\ va[3] = vb[3] /\ va[4] = vb[4]
  BY LabEq DEF Leaf
<1>2. PICK a \in Index, b \in Index, c \in Index, d \in Index : va = <<a, b, c, d>>
  BY DEF VA
<1>3. PICK a2 \in Index, b2 \in Index, c2 \in Index, d2 \in Index : vb = <<a2, b2, c2, d2>>
  BY DEF VA
<1>4. a = a2 /\ b = b2 /\ c = c2 /\ d = d2
  BY <1>1, <1>2, <1>3
<1> QED BY <1>1, <1>2, <1>3, <1>4

\* Nothing happens.
LEMMA ChangeNone ==
  ASSUME NEW k, NEW D, NEW own \in [Frames -> Labels], Fine(k, D, own), NEW X
  PROVE  Change(k, own, k, D, own, X)
BY StepRefl DEF Change, SameDropped

\* A function that drops no page and unmaps none.
LEMMA ChangeIs ==
  ASSUME NEW k, NEW own, NEW r, NEW D, NEW own2 \in [Frames -> Labels], NEW X, NEW Y,
         Fine(r, D, own2), Step(k, own, r, own2, X), X \subseteq Y, r.dropped = k.dropped
  PROVE  Change(k, own, r, D, own2, Y)
BY StepMore DEF Change, SameDropped

\* One call after another.
LEMMA ChangeThen ==
  ASSUME NEW k, NEW own, NEW l, NEW E, NEW own1, NEW r, NEW D, NEW own2, NEW X,
         Change(k, own, l, E, own1, X), Change(l, own1, r, D, own2, X)
  PROVE  Change(k, own, r, D, own2, X)
<1>1. Step(k, own, r, own2, X)
  <2>1. Step(k, own, r, own2, X \union X)
    BY StepTrans DEF Change
  <2>2. X \union X = X
    OBVIOUS
  <2> QED BY <2>1, <2>2
<1>2. \A root \in Frames : own[root].l # 0 => own1[root] = own[root]
  BY DEF Change, Step
<1>3. SameDropped(k, own, r, X)
  BY <1>2 DEF Change, SameDropped
<1> QED BY <1>1, <1>3 DEF Change

\* What a process has in its address space g: all the pages that were not
\* dropped, with what it has last seen there.
Has(k, own, root, va, x) ==
  <<root, va>> \notin k.dropped =>
    \E f : /\ MappedTo(k.mem, own, root, va, f)
           /\ x # Unseen => k.mem[f] = Fill(x)

Holds(k, own, root, g) ==
  /\ Whole(k.mem, own, root)
  /\ \A va \in DOMAIN g : Has(k, own, root, va, g[va])

\* A call leaves the pages it does not touch.
LEMMA HasKept ==
  ASSUME NEW k, NEW own, NEW r, NEW D, NEW own2, NEW X, X \subseteq Leaves,
         Change(k, own, r, D, own2, X), NEW root, Whole(k.mem, own, root),
         NEW va \in Pages, Leaf(root, va) \notin X, NEW x, Has(k, own, root, va, x)
  PROVE  Has(r, own2, root, va, x)
<1> SUFFICES ASSUME <<root, va>> \notin r.dropped
             PROVE  \E f : /\ MappedTo(r.mem, own2, root, va, f)
                           /\ x # Unseen => r.mem[f] = Fill(x)
  BY DEF Has
<1>1. root \in Frames /\ own[root].l # 0
  <2>1. own[root] = Root(root) /\ root \in Frames
    BY DEF Whole
  <2> QED BY <2>1, LabFields DEF Root
<1>2. <<root, va>> \notin k.dropped
  BY <1>1 DEF Change, SameDropped
<1>3. PICK f : MappedTo(k.mem, own, root, va, f) /\ (x # Unseen => k.mem[f] = Fill(x))
  BY <1>2 DEF Has
<1>4. va \in VA
  BY MappingVA
<1>5. Step(k, own, r, own2, X)
  BY DEF Change
<1>6. MappedTo(r.mem, own2, root, va, f) /\ r.mem[f] = k.mem[f]
  BY <1>3, <1>4, <1>5, MappedKept
<1> QED BY <1>3, <1>6

\* A process has what it had, when a call touches nothing of it.
LEMMA HoldsKept ==
  ASSUME NEW k, NEW own, NEW r, NEW D, NEW own2, NEW X, X \subseteq Leaves,
         Change(k, own, r, D, own2, X), NEW root, NEW g, Holds(k, own, root, g),
         DOMAIN g \subseteq Pages, \A va \in DOMAIN g : Leaf(root, va) \notin X
  PROVE  Holds(r, own2, root, g)
<1>1. Whole(k.mem, own, root)
  BY DEF Holds
<1>2. Whole(r.mem, own2, root)
  <2>1. \A x \in X : x.l = 5
    BY DEF Leaves
  <2>2. Step(k, own, r, own2, X)
    BY DEF Change
  <2> QED BY <1>1, <2>1, <2>2, WholeKept
<1>3. ASSUME NEW va \in DOMAIN g PROVE Has(r, own2, root, va, g[va])
  <2>1. Has(k, own, root, va, g[va]) /\ va \in Pages /\ Leaf(root, va) \notin X
    BY DEF Holds
  <2> QED BY <1>1, <2>1, HasKept
<1> QED BY <1>2, <1>3 DEF Holds

\* Writing to a page changes no table.
LEMMA MappedSame ==
  ASSUME NEW m, NEW own, NEW root, NEW va, NEW f, MappedTo(m, own, root, va, f),
         NEW m2, \A g \in Frames \ {f} : m2[g] = m[g], own[f].l = 5
  PROVE  MappedTo(m2, own, root, va, f)
<1> DEFINE e1 == m[root][va[1]]
           e2 == m[e1.to][va[2]]
           e3 == m[e2.to][va[3]]
<1>1. /\ root \in Frames /\ own[root] = Root(root)
      /\ Leads(e1, own, Lab(2, root, va[1], 0, 0, 0))
      /\ Leads(e2, own, Lab(3, root, va[1], va[2], 0, 0))
      /\ Leads(e3, own, Lab(4, root, va[1], va[2], va[3], 0))
  BY DEF MappedTo
<1> HIDE DEF e1, e2, e3
<1>2. root # f
  <2>1. own[root].l = 1
    BY <1>1 DEF Root, Lab
  <2> QED BY <2>1
<1>3. e1.to # f /\ e1.to \in Frames
  <2>1. own[e1.to] = Lab(2, root, va[1], 0, 0, 0) /\ e1.to \in Frames
    BY <1>1 DEF Leads
  <2>2. own[e1.to].l = 2
    BY <2>1 DEF Lab
  <2> QED BY <2>1, <2>2
<1>4. e2.to # f /\ e2.to \in Frames
  <2>1. own[e2.to] = Lab(3, root, va[1], va[2], 0, 0) /\ e2.to \in Frames
    BY <1>1 DEF Leads
  <2>2. own[e2.to].l = 3
    BY <2>1 DEF Lab
  <2> QED BY <2>1, <2>2
<1>5. e3.to # f /\ e3.to \in Frames
  <2>1. own[e3.to] = Lab(4, root, va[1], va[2], va[3], 0) /\ e3.to \in Frames
    BY <1>1 DEF Leads
  <2>2. own[e3.to].l = 4
    BY <2>1 DEF Lab
  <2> QED BY <2>1, <2>2
<1>6. m2[root] = m[root] /\ m2[e1.to] = m[e1.to] /\ m2[e2.to] = m[e2.to] /\ m2[e3.to] = m[e3.to]
  BY <1>1, <1>2, <1>3, <1>4, <1>5
<1> QED BY <1>6 DEF MappedTo, e1, e2, e3
-----------------------------------------------------------------------------
(* The loops over pages.                                                   *)

\* vmm_map_page() touches one page of one address space.
MapChange(k, D, own, root, va, f, r, own2) ==
  /\ Change(k, own, r, D, own2, {Leaf(root, va)})
  /\ \/ own2[f] = own[f] /\ <<root, va>> \in r.dropped
     \/ <<root, va>> \notin r.dropped /\ MappedTo(r.mem, own2, root, va, f)

\* The function does that.
LEMMA MapChanges ==
  ASSUME NEW k, NEW D, NEW own, Fine(k, D, own), NEW root, Whole(k.mem, own, root),
         NEW va \in Pages, NEW f \in Frames, own[f].l = 0, f \in k.used,
         f \notin Image \union ModulePages \union D,
         LinkFree(vmm_map_page(k, root, va, f).used, D)
  PROVE  \E own2 : MapChange(k, D, own, root, va, f, vmm_map_page(k, root, va, f), own2)
<1> DEFINE r == vmm_map_page(k, root, va, f)
<1>1. PICK own2 : MapPost(k, D, own, root, va, f, r, own2)
  BY MapUser
<1> HIDE DEF r
<1>2. /\ Fine(r, D, own2) /\ Step(k, own, r, own2, {Leaf(root, va)})
      /\ own2 \in [Frames -> Labels]
      /\ \/ r.dropped = k.dropped \union {<<root, va>>} /\ own2[f] = own[f]
         \/ /\ r.dropped = k.dropped \ {<<root, va>>}
            /\ MappedTo(r.mem, own2, root, va, f)
  BY <1>1 DEF MapPost
<1>3. SameDropped(k, own, r, {Leaf(root, va)})
  <2> SUFFICES ASSUME NEW root2 \in Frames, NEW vb \in Pages,
                      Leaf(root2, vb) \notin {Leaf(root, va)}
               PROVE  <<root2, vb>> \in r.dropped <=> <<root2, vb>> \in k.dropped
    BY DEF SameDropped
  <2>1. <<root2, vb>> # <<root, va>>
    OBVIOUS
  <2> QED BY <1>2, <2>1
<1>4. \/ own2[f] = own[f] /\ <<root, va>> \in r.dropped
      \/ <<root, va>> \notin r.dropped /\ MappedTo(r.mem, own2, root, va, f)
  BY <1>2
<1>5. MapChange(k, D, own, root, va, f, r, own2)
  BY <1>2, <1>3, <1>4 DEF MapChange, Change
<1> QED BY <1>5 DEF r

\* A page of the heap is taken and mapped.
LEMMA GrowPage ==
  ASSUME NEW k, NEW D, NEW own \in [Frames -> Labels], Fine(k, D, own), NEW root,
         Whole(k.mem, own, root), NEW va \in Pages, NEW a, a = pmm_alloc_page(k),
         a.ptr # 0, NEW r, r = vmm_map_page(a.k, root, va, a.ptr), LinkFree(r.used, D)
  PROVE  \E own2 : /\ Change(k, own, r, D, own2, {Leaf(root, va)})
                   /\ Has(r, own2, root, va, Unseen)
<1>1. Typed(k) /\ root \in k.used /\ root \in Frames
  <2>1. Typed(k) /\ root \in Frames /\ own[root].l = 1
    BY DEF Fine, Whole, Root, Lab
  <2>2. root \in k.used
    BY <2>1, Labelled
  <2> QED BY <2>1, <2>2
<1>2. RStep(k, a)
  BY <1>1, PageAllocTyped
<1>3. TStep(a.k, r)
  <2>1. Typed(a.k) /\ root \in a.k.used /\ a.ptr \in Frames
    BY <1>1, <1>2 DEF RStep, TStep
  <2> QED BY <2>1, MappingVA, MapTyped
<1>4. LinkFree(a.k.used, D)
  BY <1>3, LinkFreeLess DEF TStep
<1>5. /\ Fine(a.k, D, own) /\ Step(k, own, a.k, own, {})
      /\ a.k.mem = k.mem /\ a.k.dropped = k.dropped /\ a.ptr \in Frames
      /\ a.ptr \in a.k.used /\ own[a.ptr].l = 0
      /\ a.ptr \notin Image \union ModulePages \union D
  BY <1>4, AllocFine
<1>6. Change(k, own, a.k, D, own, {Leaf(root, va)})
  BY <1>5, ChangeIs
<1>7. PICK own2 : MapChange(a.k, D, own, root, va, a.ptr, r, own2)
  <2>1. Whole(a.k.mem, own, root)
    BY <1>5
  <2> QED BY <1>5, <2>1, MapChanges
<1>8. Change(k, own, r, D, own2, {Leaf(root, va)})
  BY <1>6, <1>7, ChangeThen DEF MapChange
<1>9. Has(r, own2, root, va, Unseen)
  BY <1>7 DEF MapChange, Has
<1> QED BY <1>8, <1>9

\* The kernel writes to a page of a program.
LeafPost(k, D, own, f, page, r) ==
  /\ Fine(r, D, own) /\ Step(k, own, r, own, {own[f]}) /\ TStep(k, r)
  /\ r.mem[f] = page /\ r.used = k.used /\ r.dropped = k.dropped
  /\ \A g \in Frames \ {f} : r.mem[g] = k.mem[g]

\* It does that.
LEMMA WriteLeafPage ==
  ASSUME NEW k, NEW D, NEW own, Fine(k, D, own),
         NEW f \in Frames, own[f].l = 5,
         NEW page \in [Index -> GoodWord]
  PROVE  LeafPost(k, D, own, f, page, [k EXCEPT !.mem = [k.mem EXCEPT ![f] = page]])
BY WriteLeaf DEF LeafPost

\* A page of a program is taken, cleared, mapped and filled.
LEMMA LoadPage ==
  ASSUME NEW k, NEW D, NEW own \in [Frames -> Labels], Fine(k, D, own), NEW root,
         Whole(k.mem, own, root), NEW va \in Pages, NEW a, a = pmm_alloc_page(k),
         a.ptr # 0, NEW z, z = WritePage(a.k, a.ptr, ZeroPage),
         NEW m, m = vmm_map_page(z, root, va, a.ptr),
         NEW w, w = WritePage(m, a.ptr, Fill(1)), LinkFree(w.used, D)
  PROVE  \E own2 : /\ Change(k, own, w, D, own2, {Leaf(root, va)})
                   /\ Has(w, own2, root, va, 1)
<1> DEFINE X == {Leaf(root, va)}
<1>1. Typed(k) /\ root \in k.used /\ root \in Frames
  <2>1. Typed(k) /\ root \in Frames /\ own[root].l = 1
    BY DEF Fine, Whole, Root, Lab
  <2>2. root \in k.used
    BY <2>1, Labelled
  <2> QED BY <2>1, <2>2
<1>2. RStep(k, a)
  BY <1>1, PageAllocTyped
<1>3. TStep(a.k, z)
  BY <1>2, FunctionsTyped, WritePageTyped DEF RStep, TStep
<1>4. TStep(z, m)
  <2>1. Typed(z) /\ root \in z.used /\ a.ptr \in Frames
    BY <1>1, <1>2, <1>3 DEF RStep, TStep
  <2> QED BY <2>1, MappingVA, MapTyped
<1>5. TStep(m, w)
  <2>1. Typed(m) /\ a.ptr \in Frames
    BY <1>2, <1>4 DEF RStep, TStep
  <2> QED BY <2>1, FunctionsTyped, WritePageTyped
<1>6. LinkFree(a.k.used, D) /\ LinkFree(m.used, D)
  <2>1. m.used \subseteq w.used /\ a.k.used \subseteq w.used /\ D \subseteq D
    BY <1>3, <1>4, <1>5 DEF TStep
  <2> QED BY <2>1, LinkFreeLess
<1>7. /\ Fine(a.k, D, own) /\ Step(k, own, a.k, own, {})
      /\ a.k.mem = k.mem /\ a.k.dropped = k.dropped /\ a.ptr \in Frames
      /\ a.ptr \in a.k.used /\ own[a.ptr].l = 0 /\ a.ptr \notin LinkFrames
      /\ a.ptr \notin Image \union ModulePages \union D
  BY <1>6, AllocFine
<1>8. Change(k, own, a.k, D, own, X)
  BY <1>7, ChangeIs
<1>9. /\ Fine(z, D, own) /\ Step(a.k, own, z, own, {}) /\ z.dropped = a.k.dropped
      /\ z.used = a.k.used
  <2>1. a.ptr \notin Image
    BY <1>7
  <2> QED BY <1>7, <2>1, FunctionsTyped, WriteNone
<1>10. Change(k, own, z, D, own, X)
  <2>1. Change(a.k, own, z, D, own, X)
    BY <1>9, ChangeIs
  <2> QED BY <1>8, <2>1, ChangeThen
<1>11. PICK own2 : MapChange(z, D, own, root, va, a.ptr, m, own2)
  <2>1. Whole(a.k.mem, own, root)
    BY <1>7
  <2>2. Whole(z.mem, own, root)
    <3>1. \A x \in {} : x.l = 5
      OBVIOUS
    <3> QED BY <1>9, <2>1, <3>1, WholeKept
  <2>3. a.ptr \in z.used
    BY <1>7, <1>9
  <2> QED BY <1>6, <1>7, <1>9, <2>2, <2>3, MapChanges
<1>12. Fine(m, D, own2) /\ own2 \in [Frames -> Labels] /\ Change(z, own, m, D, own2, X)
  BY <1>11 DEF MapChange, Change
<1>13. Change(k, own, m, D, own2, X)
  BY <1>10, <1>12, ChangeThen
<1>14. CASE own2[a.ptr] = own[a.ptr] /\ <<root, va>> \in m.dropped
  <2>1. Fine(w, D, own2) /\ Step(m, own2, w, own2, {}) /\ w.dropped = m.dropped
    <3>1. own2[a.ptr].l = 0 /\ a.ptr \notin Image
      BY <1>7, <1>14
    <3> QED BY <1>7, <1>12, <3>1, FunctionsTyped, WriteNone
  <2>2. Change(m, own2, w, D, own2, X)
    BY <1>12, <2>1, ChangeIs
  <2>3. Change(k, own, w, D, own2, X)
    BY <1>13, <2>2, ChangeThen
  <2>4. Has(w, own2, root, va, 1)
    BY <1>14, <2>1 DEF Has
  <2> QED BY <2>3, <2>4
<1>15. CASE <<root, va>> \notin m.dropped /\ MappedTo(m.mem, own2, root, va, a.ptr)
  <2>1. own2[a.ptr] = Leaf(root, va) /\ own2[a.ptr].l = 5
    BY <1>15, MappedWalk
  <2>2. w = [m EXCEPT !.mem = [m.mem EXCEPT ![a.ptr] = Fill(1)]]
    BY <1>7, <1>12, Access
  <2>3. /\ Fine(w, D, own2) /\ Step(m, own2, w, own2, {own2[a.ptr]})
        /\ w.mem[a.ptr] = Fill(1) /\ w.dropped = m.dropped
        /\ \A g \in Frames \ {a.ptr} : w.mem[g] = m.mem[g]
    <3>1. Fill(1) \in [Index -> GoodWord]
      BY FunctionsTyped
    <3>2. Fine(m, D, own2) /\ a.ptr \in Frames /\ own2[a.ptr].l = 5
      BY <1>7, <1>12, <2>1
    <3>3. LeafPost(m, D, own2, a.ptr, Fill(1),
                   [m EXCEPT !.mem = [m.mem EXCEPT ![a.ptr] = Fill(1)]])
      BY <3>1, <3>2, WriteLeafPage
    <3>4. LeafPost(m, D, own2, a.ptr, Fill(1), w)
      BY <2>2, <3>3
    <3> QED BY <3>4 DEF LeafPost
  <2>4. Change(m, own2, w, D, own2, X)
    BY <1>12, <2>1, <2>3, ChangeIs
  <2>5. Change(k, own, w, D, own2, X)
    BY <1>13, <2>4, ChangeThen
  <2>6. MappedTo(w.mem, own2, root, va, a.ptr)
    BY <1>15, <2>1, <2>3, MappedSame
  <2>7. Has(w, own2, root, va, 1)
    BY <2>3, <2>6 DEF Has
  <2> QED BY <2>5, <2>7
<1> QED BY <1>11, <1>14, <1>15 DEF MapChange
-----------------------------------------------------------------------------
\* The pages of one address space, and its heap pages from the page n on.
LeavesOf(root) == {Leaf(root, va) : va \in Pages}
HeapFrom(root, n) == {Leaf(root, HeapPage(j)) : j \in {h \in HeapPages : h >= n}}

\* A change of less is one of more.
LEMMA ChangeMore ==
  ASSUME NEW k, NEW own, NEW r, NEW D, NEW own2, NEW X, NEW Y,
         Change(k, own, r, D, own2, X), X \subseteq Y
  PROVE  Change(k, own, r, D, own2, Y)
BY StepMore DEF Change, SameDropped

\* The root of an address space is in use.
LEMMA WholeUsed ==
  ASSUME NEW k, NEW D, NEW own, Fine(k, D, own), NEW root, Whole(k.mem, own, root)
  PROVE  root \in k.used /\ root \in Frames /\ own[root].l = 1 /\ root \notin Image
<1>1. root \in Frames /\ own[root].l = 1
  BY DEF Fine, Whole, Root, Lab
<1> QED BY <1>1, Labelled

\* A root stays whole in a change of its pages, or of others.
LEMMA WholeChange ==
  ASSUME NEW k, NEW own, NEW r, NEW D, NEW own2, NEW X, X \subseteq Leaves,
         Change(k, own, r, D, own2, X), NEW root, Whole(k.mem, own, root)
  PROVE  Whole(r.mem, own2, root)
<1>1. \A x \in X : x.l = 5
  BY DEF Leaves
<1>2. Step(k, own, r, own2, X)
  BY DEF Change
<1> QED BY <1>1, <1>2, WholeKept

\* Two frames are two pages.
LEMMA LowUnique ==
  ASSUME NEW n \in Frames, NEW m \in Frames, Low(n) = Low(m)
  PROVE  n = m
<1>1. PICK b \in 0 .. NPD - 1, c \in Index, d \in Index : n = Nth(b, c, d)
  BY NthOfFrame
<1>2. PICK b2 \in 0 .. NPD - 1, c2 \in Index, d2 \in Index : m = Nth(b2, c2, d2)
  BY NthOfFrame
<1>3. <<0, b, c, d>> = <<0, b2, c2, d2>>
  BY <1>1, <1>2, LowOfNth
<1>4. b = b2 /\ c = c2 /\ d = d2
  BY <1>3
<1> QED BY <1>1, <1>2, <1>4

\* Two pages of a heap have two numbers.
LEMMA HeapPageUnique ==
  ASSUME NEW n \in HeapPages, NEW m \in HeapPages, HeapPage(n) = HeapPage(m)
  PROVE  n = m
<1>1. n \in Nat /\ m \in Nat /\ Fan \in Nat \ {0}
  <2>1. Fan * Fan \in Nat
    BY Sizes
  <2> QED BY <2>1, Sizes DEF HeapPages
<1>2. <<1, 0, n \div Fan, n % Fan>> = <<1, 0, m \div Fan, m % Fan>>
  BY MappingVA
<1>3. n \div Fan = m \div Fan /\ n % Fan = m % Fan
  BY <1>2
<1>4. n = Fan * (n \div Fan) + (n % Fan) /\ m = Fan * (m \div Fan) + (m % Fan)
  BY <1>1, DivMod
<1> QED BY <1>3, <1>4

\* These are labels of pages.
LEMMA LeavesThere ==
  ASSUME NEW root \in Frames
  PROVE  /\ LeavesOf(root) \subseteq Leaves
         /\ \A n : HeapFrom(root, n) \subseteq LeavesOf(root)
         /\ \A va \in Pages : {Leaf(root, va)} \subseteq LeavesOf(root)
<1>1. LeavesOf(root) \subseteq Leaves
  BY MappingVA, LeafLabel DEF LeavesOf
<1>2. \A n : HeapFrom(root, n) \subseteq LeavesOf(root)
  BY MappingVA DEF HeapFrom, LeavesOf
<1> QED BY <1>1, <1>2 DEF LeavesOf

\* The pages of other address spaces are not among them.
LEMMA OtherLeaves ==
  ASSUME NEW root, NEW root2, root # root2, NEW va \in Pages
  PROVE  Leaf(root2, va) \notin LeavesOf(root)
<1> SUFFICES ASSUME NEW vb \in Pages, Leaf(root2, va) = Leaf(root, vb) PROVE FALSE
  BY DEF LeavesOf
<1>1. va \in VA /\ vb \in VA
  BY MappingVA
<1> QED BY <1>1, LeafUnique

\* What is true before every round of the loader.
LoadSound(p, r, i) ==
  /\ LoadTyped(p, r, i)
  /\ LinkFree(r.k.used, p.D) =>
       \E own2 :
         /\ Change(p.k, p.own, r.k, p.D, own2, LeavesOf(p.root))
         /\ r.ok => \A j \in 0 .. i - 1 : Has(r.k, own2, p.root, Low(LinkPage + j), 1)

\* A page is loaded, and those loaded before it stay.
LEMMA LoadRoundSound ==
  ASSUME NEW p, p.own \in [Frames -> Labels], Fine(p.k, p.D, p.own),
         Whole(p.k.mem, p.own, p.root),
         NEW r, NEW i \in 1 .. ImagePages, LoadSound(p, r, i - 1)
  PROVE  LoadSound(p, LoadRound(p, r, i), i)
<1> DEFINE n == i - 1
           va == Low(LinkPage + n)
           a == pmm_alloc_page(r.k)
           z == WritePage(a.k, a.ptr, ZeroPage)
           m == vmm_map_page(z, p.root, va, a.ptr)
           w == WritePage(m, a.ptr, Fill(1))
           x == LoadRound(p, r, i)
           X == LeavesOf(p.root)
<1>0. p.root \in p.k.used /\ p.root \in Frames
  BY WholeUsed
<1>1. n \in 0 .. ImagePages - 1 /\ n \in Nat /\ i \in Int /\ ImagePages \in Int
  BY MemoryAssumption
<1>2. LoadTyped(p, r, i - 1)
  BY DEF LoadSound
<1>3. LoadTyped(p, x, i)
  BY <1>0, <1>1, <1>2, LoadRoundTyped
<1>4. x = IF ~r.ok THEN r
          ELSE IF a.ptr = 0 THEN [k |-> a.k, ok |-> FALSE]
          ELSE [k |-> w, ok |-> TRUE]
  BY DEF LoadRound, load_page
<1>5. va \in Pages /\ LinkPage + n \in Frames
  BY <1>1, MappingVA
<1>6. X \subseteq Leaves /\ {Leaf(p.root, va)} \subseteq X
  BY <1>0, <1>5, LeavesThere
<1>7. r = [k |-> r.k, ok |-> r.ok] /\ r.ok \in BOOLEAN /\ TStep(p.k, r.k)
  BY <1>2 DEF LoadTyped
<1> SUFFICES ASSUME LinkFree(x.k.used, p.D)
             PROVE  \E own2 :
                      /\ Change(p.k, p.own, x.k, p.D, own2, X)
                      /\ x.ok => \A j \in 0 .. i - 1 :
                                   Has(x.k, own2, p.root, Low(LinkPage + j), 1)
  BY <1>3 DEF LoadSound
<1>8. CASE ~r.ok
  <2>1. x = r
    BY <1>4, <1>8
  <2> HIDE DEF x
  <2> QED BY <1>8, <2>1 DEF LoadSound
<1>9. CASE r.ok /\ a.ptr = 0
  <2>1. a.k = r.k
    BY <1>7, <1>9, Allocating DEF TStep
  <2>2. x = [k |-> a.k, ok |-> FALSE]
    BY <1>4, <1>9
  <2> HIDE DEF x, a
  <2>3. x.k = r.k /\ ~x.ok
    BY <2>1, <2>2
  <2> QED BY <2>3 DEF LoadSound
<1>10. CASE r.ok /\ a.ptr # 0
  <2>1. x.k = w /\ x.ok
    BY <1>4, <1>10
  <2>2. RStep(r.k, a)
    BY <1>7, PageAllocTyped DEF TStep
  <2>3. TStep(r.k, w)
    <3> HIDE DEF va
    <3> HIDE DEF a
    <3>1. TStep(a.k, z)
      BY <2>2, FunctionsTyped, WritePageTyped DEF RStep, TStep
    <3> HIDE DEF z
    <3>2. TStep(z, m)
      <4>1. p.root \in z.used
        BY <1>0, <1>7, <2>2, <3>1 DEF RStep, TStep
      <4>2. va \in VA
        BY <1>5, MappingVA
      <4> QED BY <2>2, <3>1, <4>1, <4>2, MapTyped DEF RStep, TStep
    <3> HIDE DEF m
    <3>3. TStep(m, w)
      BY <2>2, <3>2, FunctionsTyped, WritePageTyped DEF RStep, TStep
    <3> QED BY <2>2, <3>1, <3>2, <3>3 DEF RStep, TStep
  <2> HIDE DEF x
  <2>4. LinkFree(w.used, p.D) /\ LinkFree(r.k.used, p.D)
    <3>1. LinkFree(w.used, p.D)
      BY <2>1
    <3> HIDE DEF w
    <3>2. r.k.used \subseteq w.used /\ p.D \subseteq p.D
      BY <2>3 DEF TStep
    <3> QED BY <3>1, <3>2, LinkFreeLess
  <2>5. PICK own1 :
          /\ Change(p.k, p.own, r.k, p.D, own1, X)
          /\ \A j \in 0 .. n - 1 : Has(r.k, own1, p.root, Low(LinkPage + j), 1)
    BY <1>10, <2>4 DEF LoadSound
  <2>6. own1 \in [Frames -> Labels] /\ Fine(r.k, p.D, own1)
    BY <2>5 DEF Change
  <2>7. Whole(r.k.mem, own1, p.root)
    BY <1>6, <2>5, WholeChange
  <2> HIDE DEF X
  <2>8. PICK own2 : /\ Change(r.k, own1, w, p.D, own2, {Leaf(p.root, va)})
                    /\ Has(w, own2, p.root, va, 1)
    <3> HIDE DEF va
    <3> QED BY <1>5, <1>10, <2>4, <2>6, <2>7, LoadPage
  <2>9. Change(p.k, p.own, w, p.D, own2, X)
    <3>1. Change(r.k, own1, w, p.D, own2, X)
      BY <1>6, <2>8, ChangeMore
    <3> QED BY <2>5, <3>1, ChangeThen
  <2>10. ASSUME NEW j \in 0 .. i - 1 PROVE Has(w, own2, p.root, Low(LinkPage + j), 1)
    <3>1. CASE j = n
      BY <2>8, <3>1
    <3>2. CASE j # n
      <4>1. j \in 0 .. n - 1 /\ j \in 0 .. ImagePages - 1
        BY <1>1, <3>2
      <4>2. LinkPage + j \in Frames /\ Low(LinkPage + j) \in Pages
        BY <4>1, MappingVA
      <4>3. Low(LinkPage + j) # va
        <5>1. LinkPage + j # LinkPage + n
          BY <3>2, MemoryAssumption
        <5> QED BY <1>5, <4>2, <5>1, LowUnique
      <4>4. Leaf(p.root, Low(LinkPage + j)) # Leaf(p.root, va)
        <5>1. Low(LinkPage + j) \in VA /\ va \in VA
          BY <1>5, <4>2, MappingVA
        <5> QED BY <4>3, <5>1, LeafUnique
      <4>5. Has(r.k, own1, p.root, Low(LinkPage + j), 1)
        BY <2>5, <4>1
      <4>6. {Leaf(p.root, va)} \subseteq Leaves
        BY <1>6
      <4>7. Leaf(p.root, Low(LinkPage + j)) \notin {Leaf(p.root, va)}
        BY <4>4
      <4> HIDE DEF va, w
      <4> QED BY <2>7, <2>8, <4>2, <4>5, <4>6, <4>7, HasKept
    <3> QED BY <3>1, <3>2
  <2> QED BY <2>1, <2>9, <2>10
<1> QED BY <1>7, <1>8, <1>9, <1>10

LoadS == INSTANCE Loops WITH Round <- LoadRound, Good <- LoadSound

\* A program is loaded into an address space that is whole.
LEMMA LoadSounds ==
  ASSUME NEW k, NEW D, NEW own \in [Frames -> Labels], Fine(k, D, own), NEW root,
         Whole(k.mem, own, root), NEW n \in 0 .. ImagePages, NEW bad \in BOOLEAN,
         NEW l, l = load_elf_into_process(k, root, n, bad), LinkFree(l.k.used, D)
  PROVE  \E own2 :
           /\ Change(k, own, l.k, D, own2, LeavesOf(root))
           /\ l.ok => \A j \in 0 .. n - 1 : Has(l.k, own2, root, Low(LinkPage + j), 1)
<1> DEFINE p == [root |-> root, k |-> k, D |-> D, own |-> own]
           s == [k |-> k, ok |-> TRUE]
           r == LoadS!Loop(p, s, n)
<1>0. l = [r EXCEPT !.ok = @ /\ ~bad]
  BY DEF load_elf_into_process, LoadS!Loop, LoadRound
<1>1. LoadSound(p, s, 0)
  <2>1. LoadTyped(p, s, 0)
    BY TStepRefl DEF LoadTyped, Fine
  <2>2. Change(k, own, k, D, own, LeavesOf(root))
    BY ChangeNone
  <2>3. \A j \in 0 .. 0 - 1 : Has(k, own, root, Low(LinkPage + j), 1)
    OBVIOUS
  <2> QED BY <2>1, <2>2, <2>3 DEF LoadSound
<1>2. n \in Nat /\ \A i \in 1 .. n : i \in 1 .. ImagePages
  BY MemoryAssumption
<1>3. p.root = root /\ p.k = k /\ p.D = D /\ p.own = own
  OBVIOUS
<1> HIDE DEF p, s
<1>4. \A i \in 1 .. n : \A x : LoadSound(p, x, i - 1) => LoadSound(p, LoadRound(p, x, i), i)
  BY <1>2, <1>3, LoadRoundSound
<1>5. LoadSound(p, r, n)
  BY <1>1, <1>2, <1>4, LoadS!LoopKeeps
<1> HIDE DEF r
<1>6. r = [k |-> r.k, ok |-> r.ok] /\ r.ok \in BOOLEAN
  BY <1>5 DEF LoadSound, LoadTyped
<1>7. l.k = r.k /\ (l.ok => r.ok)
  BY <1>0, <1>6
<1>8. LinkFree(r.k.used, D)
  BY <1>7
<1> QED BY <1>3, <1>5, <1>7, <1>8 DEF LoadSound

\* What is true before every round of the loop that grows the heap.
GrowSound(p, r, i) ==
  /\ LoadTyped(p, r, i)
  /\ LinkFree(r.k.used, p.D) =>
       \E own2 :
         /\ Change(p.k, p.own, r.k, p.D, own2, HeapFrom(p.root, p.from))
         /\ r.ok => \A j \in 0 .. i - 1 :
                      Has(r.k, own2, p.root, HeapPage(p.from + j), Unseen)

\* The heap grows by a page, and those before it stay.
LEMMA GrowRoundSound ==
  ASSUME NEW p, p.own \in [Frames -> Labels], Fine(p.k, p.D, p.own),
         Whole(p.k.mem, p.own, p.root), p.from \in Nat,
         NEW i \in Nat \ {0}, \A j \in 0 .. i - 1 : p.from + j \in HeapPages,
         NEW r, GrowSound(p, r, i - 1)
  PROVE  GrowSound(p, GrowRound(p, r, i), i)
<1> DEFINE n == p.from + i - 1
           va == HeapPage(n)
           a == pmm_alloc_page(r.k)
           m == vmm_map_page(a.k, p.root, va, a.ptr)
           x == GrowRound(p, r, i)
           X == HeapFrom(p.root, p.from)
<1>0. p.root \in p.k.used /\ p.root \in Frames
  BY WholeUsed
<1>1. n \in HeapPages /\ n >= p.from
  <2>1. i - 1 \in 0 .. i - 1 /\ p.from + (i - 1) = n
    OBVIOUS
  <2>2. p.from + (i - 1) \in HeapPages
    BY <2>1
  <2> QED BY <2>1, <2>2
<1>2. LoadTyped(p, r, i - 1)
  BY DEF GrowSound
<1>3. LoadTyped(p, x, i)
  <2>1. HeapPage(p.from + i - 1) \in VA
    BY <1>1, MappingVA
  <2> QED BY <1>0, <1>2, <2>1, GrowRoundTyped
<1>4. x = IF ~r.ok THEN r
          ELSE IF a.ptr = 0 THEN [k |-> a.k, ok |-> FALSE]
          ELSE [k |-> m, ok |-> TRUE]
  BY DEF GrowRound, grow_page
<1>5. va \in Pages
  BY <1>1, MappingVA
<1>6. X \subseteq Leaves /\ {Leaf(p.root, va)} \subseteq X
  <2>1. Leaf(p.root, va) \in X
    BY <1>1 DEF HeapFrom
  <2> QED BY <1>0, <2>1, LeavesThere
<1>7. r = [k |-> r.k, ok |-> r.ok] /\ r.ok \in BOOLEAN /\ TStep(p.k, r.k)
  BY <1>2 DEF LoadTyped
<1> SUFFICES ASSUME LinkFree(x.k.used, p.D)
             PROVE  \E own2 :
                      /\ Change(p.k, p.own, x.k, p.D, own2, X)
                      /\ x.ok => \A j \in 0 .. i - 1 :
                                   Has(x.k, own2, p.root, HeapPage(p.from + j), Unseen)
  BY <1>3 DEF GrowSound
<1>8. CASE ~r.ok
  <2>1. x = r
    BY <1>4, <1>8
  <2> HIDE DEF x
  <2> QED BY <1>8, <2>1 DEF GrowSound
<1>9. CASE r.ok /\ a.ptr = 0
  <2>1. a.k = r.k
    BY <1>7, <1>9, Allocating DEF TStep
  <2>2. x = [k |-> a.k, ok |-> FALSE]
    BY <1>4, <1>9
  <2> HIDE DEF x, a
  <2>3. x.k = r.k /\ ~x.ok
    BY <2>1, <2>2
  <2> QED BY <2>3 DEF GrowSound
<1>10. CASE r.ok /\ a.ptr # 0
  <2>1. x.k = m /\ x.ok
    BY <1>4, <1>10
  <2>2. RStep(r.k, a)
    BY <1>7, PageAllocTyped DEF TStep
  <2>3. TStep(r.k, m)
    <3> HIDE DEF va
    <3> HIDE DEF a
    <3>1. p.root \in a.k.used
      BY <1>0, <1>7, <2>2 DEF RStep, TStep
    <3>2. va \in VA
      BY <1>5, MappingVA
    <3>3. TStep(a.k, m)
      BY <2>2, <3>1, <3>2, MapTyped DEF RStep, TStep
    <3> HIDE DEF m
    <3> QED BY <2>2, <3>3 DEF RStep, TStep
  <2> HIDE DEF x
  <2>4. LinkFree(m.used, p.D) /\ LinkFree(r.k.used, p.D)
    <3>1. LinkFree(m.used, p.D)
      BY <2>1
    <3> HIDE DEF m
    <3>2. r.k.used \subseteq m.used /\ p.D \subseteq p.D
      BY <2>3 DEF TStep
    <3> QED BY <3>1, <3>2, LinkFreeLess
  <2>5. PICK own1 :
          /\ Change(p.k, p.own, r.k, p.D, own1, X)
          /\ \A j \in 0 .. (i - 1) - 1 :
               Has(r.k, own1, p.root, HeapPage(p.from + j), Unseen)
    BY <1>10, <2>4 DEF GrowSound
  <2>6. own1 \in [Frames -> Labels] /\ Fine(r.k, p.D, own1)
    BY <2>5 DEF Change
  <2>7. Whole(r.k.mem, own1, p.root)
    BY <1>6, <2>5, WholeChange
  <2> HIDE DEF X
  <2>8. PICK own2 : /\ Change(r.k, own1, m, p.D, own2, {Leaf(p.root, va)})
                    /\ Has(m, own2, p.root, va, Unseen)
    <3> HIDE DEF va
    <3> QED BY <1>5, <1>10, <2>4, <2>6, <2>7, GrowPage
  <2>9. Change(p.k, p.own, m, p.D, own2, X)
    <3>1. Change(r.k, own1, m, p.D, own2, X)
      BY <1>6, <2>8, ChangeMore
    <3> QED BY <2>5, <3>1, ChangeThen
  <2>10. ASSUME NEW j \in 0 .. i - 1
         PROVE  Has(m, own2, p.root, HeapPage(p.from + j), Unseen)
    <3>1. CASE j = i - 1
      <4>1. p.from + j = n
        BY <3>1
      <4> QED BY <2>8, <4>1
    <3>2. CASE j # i - 1
      <4>1. j \in 0 .. (i - 1) - 1 /\ p.from + j # n
        BY <3>2
      <4>2. p.from + j \in HeapPages
        OBVIOUS
      <4>3. HeapPage(p.from + j) # va /\ HeapPage(p.from + j) \in Pages
        <5> HIDE DEF n
        <5>1. HeapPage(p.from + j) \in Pages
          BY <4>2, MappingVA
        <5>2. HeapPage(p.from + j) # HeapPage(n)
          BY <1>1, <4>1, <4>2, HeapPageUnique
        <5> QED BY <5>1, <5>2
      <4>4. Leaf(p.root, HeapPage(p.from + j)) \notin {Leaf(p.root, va)}
        <5>1. HeapPage(p.from + j) \in VA /\ va \in VA
          BY <1>5, <4>3, MappingVA
        <5> HIDE DEF va
        <5> QED BY <4>3, <5>1, LeafUnique
      <4>5. Has(r.k, own1, p.root, HeapPage(p.from + j), Unseen)
        BY <2>5, <4>1
      <4>6. {Leaf(p.root, va)} \subseteq Leaves
        BY <1>6
      <4> HIDE DEF va, m
      <4> QED BY <2>7, <2>8, <4>3, <4>4, <4>5, <4>6, HasKept
    <3> QED BY <3>1, <3>2
  <2> QED BY <2>1, <2>9, <2>10
<1> QED BY <1>7, <1>8, <1>9, <1>10

GrowS == INSTANCE Loops WITH Round <- GrowRound, Good <- GrowSound

\* The heap grows by any number of pages.
LEMMA GrowSounds ==
  ASSUME NEW k, NEW D, NEW own \in [Frames -> Labels], Fine(k, D, own), NEW root,
         Whole(k.mem, own, root), NEW from \in Nat, NEW to \in Nat, from <= to,
         \A n \in 0 .. to - 1 : n \in HeapPages,
         NEW r, r = Grow(k, root, from, to), LinkFree(r.k.used, D)
  PROVE  \E own2 :
           /\ Change(k, own, r.k, D, own2, HeapFrom(root, from))
           /\ r.ok => \A n \in from .. to - 1 : Has(r.k, own2, root, HeapPage(n), Unseen)
<1> DEFINE p == [root |-> root, k |-> k, from |-> from, D |-> D, own |-> own]
           s == [k |-> k, ok |-> TRUE]
           l == GrowS!Loop(p, s, to - from)
<1>0. r = l
  BY DEF Grow, GrowS!Loop, GrowRound
<1>1. GrowSound(p, s, 0)
  <2>1. LoadTyped(p, s, 0)
    BY TStepRefl DEF LoadTyped, Fine
  <2>2. Change(k, own, k, D, own, HeapFrom(root, from))
    BY ChangeNone
  <2>3. \A j \in 0 .. 0 - 1 : Has(k, own, root, HeapPage(from + j), Unseen)
    OBVIOUS
  <2> QED BY <2>1, <2>2, <2>3 DEF GrowSound
<1>2. /\ to - from \in Nat
      /\ \A i \in 1 .. to - from : /\ i \in Nat \ {0}
                                   /\ \A j \in 0 .. i - 1 : from + j \in HeapPages
  OBVIOUS
<1>3. p.root = root /\ p.k = k /\ p.D = D /\ p.own = own /\ p.from = from
  OBVIOUS
<1> HIDE DEF p, s
<1>4. ASSUME NEW i \in 1 .. to - from, NEW x, GrowSound(p, x, i - 1)
      PROVE  GrowSound(p, GrowRound(p, x, i), i)
  <2>1. i \in Nat \ {0} /\ \A j \in 0 .. i - 1 : p.from + j \in HeapPages
    BY <1>2, <1>3
  <2>2. p.from \in Nat /\ p.own \in [Frames -> Labels] /\ Fine(p.k, p.D, p.own)
    BY <1>3
  <2>3. Whole(p.k.mem, p.own, p.root)
    BY <1>3
  <2> HIDE <1>3
  <2> QED BY <1>4, <2>1, <2>2, <2>3, GrowRoundSound
<1>5. GrowSound(p, l, to - from)
  BY <1>1, <1>2, <1>4, GrowS!LoopKeeps
<1> HIDE DEF l
<1>6. PICK own2 :
        /\ Change(k, own, l.k, D, own2, HeapFrom(root, from))
        /\ l.ok => \A j \in 0 .. (to - from) - 1 :
                     Has(l.k, own2, root, HeapPage(from + j), Unseen)
  BY <1>0, <1>3, <1>5 DEF GrowSound
<1>7. ASSUME l.ok, NEW n \in from .. to - 1 PROVE Has(l.k, own2, root, HeapPage(n), Unseen)
  <2>1. n - from \in 0 .. (to - from) - 1 /\ from + (n - from) = n
    OBVIOUS
  <2>2. Has(l.k, own2, root, HeapPage(from + (n - from)), Unseen)
    BY <1>6, <1>7, <2>1
  <2> QED BY <2>1, <2>2
<1> QED BY <1>0, <1>6, <1>7

\* What is true before every round of the loop that shrinks the heap.
ShrinkSound(p, r, i) == Fine(r, p.D, p.own) /\ Change(p.k, p.own, r, p.D, p.own, HeapFrom(p.root, p.to))

ShrinkS == INSTANCE Loops WITH Round <- ShrinkRound, Good <- ShrinkSound

\* The heap shrinks: the pages above the new end are gone, the others stay.
LEMMA ShrinkSounds ==
  ASSUME NEW k, NEW D, NEW own \in [Frames -> Labels], Fine(k, D, own), NEW root,
         Whole(k.mem, own, root), NEW from \in Nat, NEW to \in Nat, to <= from,
         \A n \in 0 .. from - 1 : n \in HeapPages
  PROVE  Change(k, own, Shrink(k, root, from, to), D, own, HeapFrom(root, to))
<1> DEFINE p == [root |-> root, k |-> k, to |-> to, D |-> D, own |-> own]
           r == ShrinkS!Loop(p, k, from - to)
           X == HeapFrom(root, to)
<1>0. Shrink(k, root, from, to) = r
  BY DEF Shrink, ShrinkS!Loop, ShrinkRound
<1>1. ShrinkSound(p, k, 0)
  BY ChangeNone DEF ShrinkSound
<1>2. from - to \in Nat
  OBVIOUS
<1>3. ASSUME NEW i \in 1 .. from - to, NEW x, ShrinkSound(p, x, i - 1)
      PROVE  ShrinkSound(p, ShrinkRound(p, x, i), i)
  <2> DEFINE n == to + i - 1
             va == HeapPage(n)
             y == vmm_unmap_page(x, root, va)
  <2>1. Fine(x, D, own) /\ Change(k, own, x, D, own, X)
    BY <1>3 DEF ShrinkSound
  <2>2. n \in HeapPages /\ n >= to
    OBVIOUS
  <2>3. va \in Pages /\ va[1] # 0
    <3>1. va = <<1, 0, n \div Fan, n % Fan>>
      BY <2>2, MappingVA
    <3> HIDE DEF n
    <3>2. va[1] = 1
      BY <3>1
    <3> QED BY <2>2, <3>2, MappingVA
  <2>4. X \subseteq Leaves /\ {Leaf(root, va)} \subseteq X
    <3>1. root \in Frames
      BY DEF Whole
    <3>2. Leaf(root, va) \in X
      BY <2>2 DEF HeapFrom
    <3> QED BY <3>1, <3>2, LeavesThere
  <2> HIDE DEF n, va, X
  <2>5. Whole(x.mem, own, root)
    BY <2>1, <2>4, WholeChange
  <2>6. /\ Fine(y, D, own) /\ Step(x, own, y, own, {Leaf(root, va)})
        /\ y.dropped = x.dropped
    BY <2>1, <2>3, <2>5, UnmapUser
  <2> HIDE DEF y
  <2>7. Change(x, own, y, D, own, X)
    BY <2>4, <2>6, ChangeIs
  <2>8. Change(k, own, y, D, own, X)
    BY <2>1, <2>7, ChangeThen
  <2> QED BY <2>1, <2>6, <2>8 DEF ShrinkSound, ShrinkRound, y, va, n, X
<1> HIDE DEF p
<1>4. ShrinkSound(p, r, from - to)
  BY <1>1, <1>2, <1>3, ShrinkS!LoopKeeps
<1> QED BY <1>0, <1>4 DEF ShrinkSound, p
-----------------------------------------------------------------------------
(* What the disk driver does at boot, when there is no address space but   *)
(* the kernel's own.                                                       *)

Bare(own) == \A f \in Frames : own[f].l \in {0, 6}

\* A frame that nobody has labelled becomes one of the driver's.
LEMMA WithFrame ==
  ASSUME NEW k, NEW D, NEW own, Fine(k, D, own), NEW f \in Frames, own[f].l = 0,
         f \in k.used \union {MmioPage}, LinkFree(k.used, D \union {f})
  PROVE  Fine(k, D \union {f}, own)
<1> DEFINE E == D \union {f}
<1>1. /\ own \in [Frames -> Labels] /\ EntriesOk(k.mem, own) /\ KernelTop(k.mem)
      /\ KernelPds(k.mem, own, D) /\ Owners(own, k.used, D)
      /\ D \subseteq k.used \union {MmioPage} /\ Typed(k) /\ Active(k, own)
  BY DEF Fine, Sound
<1>2. KernelPds(k.mem, own, E)
  BY <1>1 DEF KernelPds
<1>3. Owners(own, k.used, E)
  BY <1>1 DEF Owners
<1> QED BY <1>1, <1>2, <1>3 DEF Fine, Sound

SplitPost(k, D, r, own2, b, c, f) ==
  /\ own2 \in [Frames -> Labels] /\ Fine(r, D, own2) /\ Bare(own2)
  /\ r.mem[kernel_pd(b)][c] = Entry(f) /\ f \in Frames /\ own2[f] = Shared(b, c)

\* The kernel splits one of its own huge pages.
LEMMA KernelSplit ==
  ASSUME NEW k, NEW D, NEW own \in [Frames -> Labels], Fine(k, D, own), Bare(own),
         k.cr3 = kernel_pml4, NEW b \in 0 .. NPD - 1, NEW c \in Index,
         \E f \in D : f \div Fan = b * Fan + c,
         NEW a, a = pmm_alloc_page(k), a.ptr # 0, NEW page,
         page = [j \in Index |-> Entry(Nth(b, c, j))],
         NEW r, r = Write(WritePage(a.k, a.ptr, page), kernel_pd(b), c, Entry(a.ptr)),
         LinkFree(r.used, D)
  PROVE  \E own2 : SplitPost(k, D, r, own2, b, c, a.ptr)
<1> DEFINE t == kernel_pd(b)
           l == WritePage(a.k, a.ptr, page)
           m == [l.mem EXCEPT ![t][c] = Entry(a.ptr)]
           own2 == [own EXCEPT ![a.ptr] = Shared(b, c)]
<1>1. t \in Frames /\ t \in Image
  BY KernelFrames
<1>2. page \in [Index -> GoodWord]
  <2>1. \A j \in Index : Nth(b, c, j) \in Frames
    BY LowOfNth
  <2> QED BY <2>1, GoodWords
<1>3. Typed(k) /\ RStep(k, a)
  BY PageAllocTyped DEF Fine
<1>4. Entry(a.ptr) \in GoodWord /\ a.ptr \in Frames
  BY <1>3, GoodWords DEF RStep
<1>5. TStep(a.k, l)
  BY <1>2, <1>3, WritePageTyped DEF RStep, TStep
<1>6. TStep(l, r)
  <2>1. r = Write(l, t, c, Entry(a.ptr))
    OBVIOUS
  <2> HIDE DEF l, t
  <2> QED BY <1>1, <1>4, <1>5, <2>1, WriteTyped DEF TStep
<1>7. LinkFree(a.k.used, D)
  <2> HIDE DEF l
  <2>1. a.k.used \subseteq r.used /\ D \subseteq D
    BY <1>5, <1>6 DEF TStep
  <2> QED BY <2>1, LinkFreeLess
<1>8. /\ Fine(a.k, D, own) /\ a.k.mem = k.mem /\ a.ptr \in Frames
      /\ a.ptr \in a.k.used /\ own[a.ptr].l = 0 /\ a.ptr \notin LinkFrames
      /\ a.ptr \notin Image \union ModulePages \union D
  BY <1>7, AllocFine
<1>9. /\ Fine(l, D, own) /\ l.mem[a.ptr] = page /\ l.used = a.k.used
      /\ TStep(a.k, l) /\ \A g \in Frames \ {a.ptr} : l.mem[g] = a.k.mem[g]
  BY <1>2, <1>8, WriteNone, SMTT(15)
<1>10. r = [l EXCEPT !.mem = m]
  <2>1. t \notin LinkFrames
    BY <1>1, <1>7, NotAtLink
  <2>2. r = Write(l, t, c, Entry(a.ptr))
    OBVIOUS
  <2> HIDE DEF l, t
  <2>3. Write(l, t, c, Entry(a.ptr)) = [l EXCEPT !.mem = [l.mem EXCEPT ![t][c] = Entry(a.ptr)]]
    <3>1. Fine(l, D, own) /\ t \in Frames
      BY <1>1, <1>9
    <3>2. \A i \in Index, w \in GoodWord :
            Write(l, t, i, w) = [l EXCEPT !.mem = [l.mem EXCEPT ![t][i] = w]]
      BY <2>1, <3>1, Access
    <3> QED BY <1>4, <3>2
  <2> QED BY <2>2, <2>3
<1> HIDE DEF l
<1>11. Typed(l) /\ l.mem \in Mems
  BY <1>9, StateParts DEF Fine
<1>12. m \in Mems /\ (\A g \in Frames \ {t} : m[g] = l.mem[g])
       /\ (\A j \in Index \ {c} : m[t][j] = l.mem[t][j]) /\ m[t][c] = Entry(a.ptr)
  BY <1>1, <1>4, <1>11, MemPut
<1> HIDE DEF m
<1>13. r.mem = m /\ r.used = l.used /\ TStep(l, r)
  <2>1. Typed(l) /\ m \in Mems
    BY <1>11, <1>12
  <2> DEFINE l2 == [l EXCEPT !.mem = m]
  <2>2. TStep(l, l2) /\ l2.mem = m /\ l2.used = l.used
    BY <2>1, NewMem
  <2>3. r = l2
    BY <1>10
  <2> HIDE DEF l2
  <2> QED BY <2>2, <2>3
<1>14. own2 \in [Frames -> Labels] /\ own2[a.ptr] = Shared(b, c)
       /\ \A g \in Frames \ {a.ptr} : own2[g] = own[g]
  <2>1. Shared(b, c) \in Labels
    <3>1. 0 \in Frames /\ 0 \in Index /\ b \in Index
      BY Sizes, NoFrameIsNone
    <3> QED BY <3>1 DEF Shared, Lab, Labels
  <2> QED BY <1>8, <2>1
<1>15. a.ptr # t
  BY <1>1, <1>8
<1> HIDE DEF own2, t
<1>16. /\ EntriesOk(l.mem, own) /\ KernelTop(l.mem) /\ KernelPds(l.mem, own, D)
       /\ Owners(own, l.used, D) /\ D \subseteq l.used \union {MmioPage}
  BY <1>9 DEF Fine, Sound
<1>17. Shared(b, c).l = 6 /\ Shared(b, c).b = b /\ Shared(b, c).c = c
  BY DEF Shared, Lab
<1>18. EntriesOk(m, own2)
  <2> SUFFICES ASSUME NEW g \in Frames, NEW i \in Index, own2[g].l \in {1, 2, 3, 4, 6}
               PROVE  Plain(m, own2[g], i, m[g][i])
    BY DEF EntriesOk, EntryOk
  <2>1. CASE g = a.ptr
    <3>1. m[g] = page
      BY <1>9, <1>12, <1>15, <2>1
    <3>2. m[g][i] = Entry(Nth(b, c, i))
      BY <3>1
    <3> QED BY <1>14, <1>17, <2>1, <3>2 DEF Plain
  <2>2. CASE g # a.ptr
    <3>1. own2[g] = own[g] /\ own[g].l \in {0, 6} /\ own[g].l # 0
      BY <1>14, <2>2 DEF Bare
    <3>2. own[g].l = 6 /\ g \notin Image
      BY <1>16, <3>1 DEF Owners
    <3>3. m[g] = l.mem[g]
      BY <1>1, <1>12, <3>2
    <3>4. EntryOk(l.mem, own, own[g], i, l.mem[g][i])
      BY <1>16 DEF EntriesOk
    <3>5. l.mem[g][i] = Entry(Nth(own[g].b, own[g].c, i))
      BY <3>2, <3>4 DEF EntryOk, Plain, Onward
    <3> QED BY <3>1, <3>2, <3>3, <3>5 DEF Plain
  <2> QED BY <2>1, <2>2
<1>19. KernelTop(m)
  <2>1. kernel_pml4 # t /\ kernel_pdp # t
    BY Sizes DEF t, kernel_pml4, kernel_pdp, kernel_pd
  <2>2. m[kernel_pml4] = l.mem[kernel_pml4] /\ m[kernel_pdp] = l.mem[kernel_pdp]
    BY <1>12, <2>1, KernelFrames
  <2> QED BY <1>16, <2>2 DEF KernelTop
<1>20. KernelPds(m, own2, D)
  <2> SUFFICES ASSUME NEW b2 \in 0 .. NPD - 1, NEW c2 \in Index
               PROVE  \/ m[kernel_pd(b2)][c2] = Huge(Nth(b2, c2, 0))
                      \/ /\ Leads(m[kernel_pd(b2)][c2], own2, Shared(b2, c2))
                         /\ \E f \in D : f \div Fan = b2 * Fan + c2
    BY DEF KernelPds
  <2>1. CASE b2 = b /\ c2 = c
    <3>1. m[kernel_pd(b2)][c2] = Entry(a.ptr)
      BY <1>12, <2>1 DEF t
    <3>2. Leads(Entry(a.ptr), own2, Shared(b, c))
      BY <1>8, <1>14 DEF Leads, Entry
    <3> QED BY <2>1, <3>1, <3>2
  <2>2. CASE ~(b2 = b /\ c2 = c)
    <3>1. kernel_pd(b2) \in Frames
      BY KernelFrames
    <3>2. kernel_pd(b2) = t => b2 = b
      BY Sizes DEF t, kernel_pd
    <3>3. m[kernel_pd(b2)][c2] = l.mem[kernel_pd(b2)][c2]
      BY <1>12, <2>2, <3>1, <3>2
    <3>4. \/ l.mem[kernel_pd(b2)][c2] = Huge(Nth(b2, c2, 0))
          \/ /\ Leads(l.mem[kernel_pd(b2)][c2], own, Shared(b2, c2))
             /\ \E f \in D : f \div Fan = b2 * Fan + c2
      BY <1>16 DEF KernelPds
    <3>5. ASSUME Leads(l.mem[kernel_pd(b2)][c2], own, Shared(b2, c2))
          PROVE  Leads(l.mem[kernel_pd(b2)][c2], own2, Shared(b2, c2))
      <4> DEFINE e == l.mem[kernel_pd(b2)][c2]
      <4>1. e.p /\ ~e.h /\ e.to \in Frames /\ own[e.to] = Shared(b2, c2)
        BY <3>5 DEF Leads
      <4> HIDE DEF e
      <4>2. own[e.to].l = 6
        BY <4>1 DEF Shared, Lab
      <4>3. e.to # a.ptr
        BY <1>8, <4>2
      <4>4. own2[e.to] = own[e.to]
        BY <1>14, <4>1, <4>3
      <4>5. Leads(e, own2, Shared(b2, c2))
        BY <4>1, <4>4 DEF Leads
      <4> QED BY <4>5 DEF e
    <3> QED BY <3>3, <3>4, <3>5
  <2> QED BY <2>1, <2>2
<1>21. Owners(own2, r.used, D)
  <2> SUFFICES ASSUME NEW g \in Frames, own2[g].l # 0
               PROVE  g \in r.used /\ g \notin Image \union ModulePages \union D
    BY DEF Owners
  <2>1. CASE g = a.ptr
    BY <1>8, <1>9, <1>13, <2>1
  <2>2. CASE g # a.ptr
    BY <1>13, <1>14, <1>16, <2>2 DEF Owners
  <2> QED BY <2>1, <2>2
<1>22. Typed(r) /\ r.cr3 = kernel_pml4
  BY <1>3, <1>9, <1>13 DEF TStep, RStep
<1>23. Fine(r, D, own2)
  <2>1. Sound(r, D, own2)
    BY <1>13, <1>14, <1>16, <1>18, <1>19, <1>20, <1>21 DEF Sound
  <2> QED BY <1>22, <2>1 DEF Fine, Active
<1>24. Bare(own2)
  <2> SUFFICES ASSUME NEW g \in Frames PROVE own2[g].l \in {0, 6}
    BY DEF Bare
  <2>1. CASE g = a.ptr
    BY <1>14, <1>17, <2>1
  <2>2. CASE g # a.ptr
    BY <1>14, <2>2 DEF Bare
  <2> QED BY <2>1, <2>2
<1>25. SplitPost(k, D, r, own2, b, c, a.ptr)
  BY <1>8, <1>12, <1>13, <1>14, <1>23, <1>24 DEF SplitPost, t
<1> QED BY <1>25

\* A shared table already has the entries the driver asks for.
LEMMA SharedWrite ==
  ASSUME NEW k, NEW D, NEW own, Fine(k, D, own), NEW t \in Frames,
         NEW b \in 0 .. NPD - 1, NEW c \in Index, NEW d \in Index, own[t] = Shared(b, c)
  PROVE  Write(k, t, d, Entry(Nth(b, c, d))) = k
<1> DEFINE w == Entry(Nth(b, c, d))
<1>1. own[t].l = 6 /\ own[t].b = b /\ own[t].c = c
  BY DEF Shared, Lab
<1>2. k.mem[t][d] = w
  <2>1. EntryOk(k.mem, own, own[t], d, k.mem[t][d])
    BY DEF Fine, Sound, EntriesOk
  <2> QED BY <1>1, <2>1 DEF EntryOk, Plain, Onward
<1>3. w \in GoodWord
  BY LowOfNth, GoodWords
<1>4. t \notin LinkFrames
  <2>1. own[t].l # 0
    BY <1>1
  <2> QED BY <2>1, Labelled
<1> HIDE DEF w
<1>5. Write(k, t, d, w) = [k EXCEPT !.mem = [k.mem EXCEPT ![t][d] = w]]
  BY <1>3, <1>4, Access
<1>6. k \in KStates /\ k.mem \in Mems
  BY StateParts DEF Fine
<1>7. [k.mem EXCEPT ![t][d] = w] = k.mem
  <2> DEFINE n == [k.mem EXCEPT ![t][d] = w]
  <2>1. /\ n \in Mems /\ \A g \in Frames \ {t} : n[g] = k.mem[g]
        /\ \A j \in Index \ {d} : n[t][j] = k.mem[t][j]
        /\ n[t][d] = w
    BY <1>3, <1>6, MemPut
  <2> HIDE DEF n
  <2>2. n[t] = k.mem[t]
    <3>1. n[t] \in [Index -> GoodWord] /\ k.mem[t] \in [Index -> GoodWord]
      BY <1>6, <2>1 DEF Mems
    <3>2. \A j \in Index : n[t][j] = k.mem[t][j]
      BY <1>2, <2>1
    <3> QED BY <3>1, <3>2
  <2>3. \A g \in Frames : n[g] = k.mem[g]
    BY <2>1, <2>2
  <2>4. n = k.mem
    BY <1>6, <2>1, <2>3 DEF Mems
  <2> QED BY <2>4 DEF n
<1>8. [k EXCEPT !.mem = k.mem] = k
  BY <1>6 DEF KStates
<1> QED BY <1>5, <1>7, <1>8 DEF w

KernelPost(D, r, own2) == own2 \in [Frames -> Labels] /\ Fine(r, D, own2) /\ Bare(own2)

\* The kernel maps a frame of the driver to itself, where it was already.
LEMMA KernelMap ==
  ASSUME NEW k, NEW D, NEW own \in [Frames -> Labels], Fine(k, D, own), Bare(own),
         k.cr3 = kernel_pml4, NEW f \in Frames, f \in D,
         NEW r, r = vmm_map_page(k, kernel_pml4, Low(f), f), LinkFree(r.used, D)
  PROVE  \E own2 : KernelPost(D, r, own2)
<1> DEFINE root == kernel_pml4
<1>1. PICK b \in 0 .. NPD - 1, c \in Index, d \in Index : f = Nth(b, c, d)
  BY NthOfFrame
<1>2. PICK va : va = Low(f)
  OBVIOUS
<1>3. va[1] = 0 /\ va[2] = b /\ va[3] = c /\ va[4] = d /\ b \in Index /\ 0 \in Index
  <2>1. va = <<0, b, c, d>>
    BY <1>1, <1>2, LowOfNth
  <2> QED BY <2>1, Sizes
<1>4. va \in VA
  BY <1>2, MappingVA
<1> DEFINE t == kernel_pd(b)
           e == k.mem[t][c]
           r3 == PageTable(k, t, c, TRUE)
<1>5. /\ KernelTop(k.mem) /\ KernelPds(k.mem, own, D) /\ Typed(k) /\ LinkFree(k.used, D)
      /\ k.mem \in Mems
  BY StateParts DEF Fine, Sound
<1>6. root \in Image /\ root \in Frames /\ root \in k.used /\ root \notin LinkFrames
  BY <1>5, KernelFrames, NotAtLink DEF Typed
<1>7. kernel_pdp \in Frames /\ kernel_pdp \notin LinkFrames /\ kernel_pdp # 0
  <2>1. kernel_pdp \in Image
    BY KernelFrames
  <2> QED BY <1>5, <2>1, KernelFrames, NotAtLink DEF kernel_pdp
<1>8. t \in Frames /\ t \notin LinkFrames /\ t # 0
  <2>1. t \in Image
    BY KernelFrames
  <2>2. t # 0
    BY Sizes DEF kernel_pd
  <2> QED BY <1>5, <2>1, <2>2, KernelFrames, NotAtLink
<1>9. MapPdp(k, root, va) = [k |-> k, ptr |-> kernel_pdp]
  <2>1. Read(k, root, 0) = Entry(kernel_pdp)
    <3>1. Read(k, root, 0) = k.mem[root][0]
      BY <1>3, <1>6, Access
    <3> QED BY <1>3, <1>5, <3>1 DEF KernelTop
  <2>2. MapPdp(k, root, va) = get_next_level(k, root, 0, TRUE)
    BY <1>3 DEF MapPdp
  <2>3. Entry(kernel_pdp).p /\ ~Entry(kernel_pdp).h /\ Entry(kernel_pdp).to = kernel_pdp
    BY DEF Entry
  <2> QED BY <2>1, <2>2, <2>3 DEF get_next_level
<1>10. MapPd(k, root, va) = [k |-> k, ptr |-> t]
  <2>1. Read(k, kernel_pdp, b) = Entry(t)
    <3>1. Read(k, kernel_pdp, b) = k.mem[kernel_pdp][b]
      BY <1>3, <1>7, Access
    <3>2. b < NPD
      BY Sizes
    <3> QED BY <1>3, <1>5, <3>1, <3>2 DEF KernelTop
  <2>2. MapPd(k, root, va) = get_next_level(k, kernel_pdp, b, TRUE)
    BY <1>3, <1>9 DEF MapPd
  <2>3. Entry(t).p /\ ~Entry(t).h /\ Entry(t).to = t
    BY DEF Entry
  <2> HIDE DEF t
  <2> QED BY <2>1, <2>2, <2>3 DEF get_next_level
<1>11. MapPt(k, root, va) = r3
  BY <1>3, <1>10 DEF MapPt
<1> HIDE DEF r3
<1>12. r = IF r3.ptr = 0 THEN Dropping(r3.k, root, va)
           ELSE Write(Undropping(r3.k, root, va), r3.ptr, d, Entry(f))
  <2>1. r = vmm_map_page(k, root, va, f)
    BY <1>2
  <2> HIDE DEF t
  <2> QED BY <1>3, <1>7, <1>8, <1>9, <1>10, <1>11, <2>1, MapSteps
<1>13. Read(k, t, c) = e
  BY <1>8, Access
<1>14. \E g \in D : g \div Fan = b * Fan + c
  BY <1>1, LowOfNth
<1>15. RStep(k, r3)
  BY <1>5, <1>8, PageTableTyped DEF r3
<1>16. r3.k.used \subseteq r.used
  <2>1. root \in r3.k.used /\ Typed(r3.k) /\ r3.ptr \in Frames
    BY <1>6, <1>15 DEF RStep, TStep
  <2>2. TStep(r3.k, Dropping(r3.k, root, va)) /\ TStep(r3.k, Undropping(r3.k, root, va))
    BY <1>4, <2>1, NewDropped DEF Dropping, Undropping
  <2>3. TStep(Undropping(r3.k, root, va), Write(Undropping(r3.k, root, va), r3.ptr, d, Entry(f)))
    <3>1. Typed(Undropping(r3.k, root, va)) /\ Entry(f) \in GoodWord
      BY <2>2, GoodWords DEF TStep
    <3>2. \A u : Typed(u) => TStep(u, Write(u, r3.ptr, d, Entry(f)))
      BY <2>1, <3>1, WriteTyped
    <3> QED BY <3>1, <3>2
  <2> QED BY <1>12, <2>2, <2>3 DEF TStep
<1>17. LinkFree(r3.k.used, D)
  BY <1>16, LinkFreeLess
<1>18. ASSUME NEW own2 \in [Frames -> Labels], Fine(r3.k, D, own2), Bare(own2),
              r3.ptr # 0 => own2[r3.ptr] = Shared(b, c)
       PROVE  KernelPost(D, r, own2)
  <2>1. DroppedPost(r3.k, D, own2, root, va)
    <3>1. root \in r3.k.used
      BY <1>6, <1>15 DEF RStep, TStep
    <3> QED BY <1>4, <1>18, <3>1, FineDropped
  <2>2. CASE r3.ptr = 0
    <3>1. r = Dropping(r3.k, root, va)
      BY <1>12, <2>2
    <3> QED BY <1>18, <2>1, <3>1 DEF DroppedPost, KernelPost
  <2>3. CASE r3.ptr # 0
    <3>1. r3.ptr \in Frames
      BY <1>15 DEF RStep
    <3>2. Fine(Undropping(r3.k, root, va), D, own2)
      BY <2>1 DEF DroppedPost
    <3>3. PICK u : u = Undropping(r3.k, root, va)
      OBVIOUS
    <3>4. Write(u, r3.ptr, d, Entry(Nth(b, c, d))) = u
      <4>1. own2[r3.ptr] = Shared(b, c) /\ Fine(u, D, own2)
        BY <1>18, <2>3, <3>2, <3>3
      <4> HIDE <3>2, <3>3
      <4> QED BY <3>1, <4>1, SharedWrite
    <3>5. r = u
      BY <1>1, <1>12, <2>3, <3>3, <3>4
    <3> QED BY <1>18, <3>2, <3>3, <3>5 DEF KernelPost
  <2> QED BY <2>2, <2>3
<1>19. CASE Leads(e, own, Shared(b, c))
  <2>1. e.p /\ ~e.h /\ own[e.to] = Shared(b, c)
    BY <1>19 DEF Leads
  <2> HIDE DEF e
  <2>2. r3 = [k |-> k, ptr |-> e.to]
    BY <1>13, <2>1 DEF r3, PageTable, get_next_level
  <2>3. r3.k = k /\ r3.ptr = e.to
    BY <2>2
  <2> QED BY <1>18, <2>1, <2>3
<1>20. CASE e = Huge(Nth(b, c, 0))
  <2> DEFINE a == pmm_alloc_page(k)
             page == [j \in Index |-> Entry(e.to + j)]
             s == Write(WritePage(a.k, a.ptr, page), t, c, Entry(a.ptr))
  <2>1. e.p /\ e.h /\ e.to = Nth(b, c, 0)
    BY <1>20 DEF Huge
  <2>2. page = [j \in Index |-> Entry(Nth(b, c, j))]
    <3>1. \A j \in Index : e.to + j = Nth(b, c, j)
      <4>1. (b * Fan + c) * Fan \in Int /\ Index \subseteq Int
        BY Sizes
      <4> HIDE DEF e
      <4> QED BY <2>1, <4>1 DEF Nth
    <3> HIDE DEF e
    <3> QED BY <3>1
  <2>3. r3 = IF a.ptr = 0 THEN a ELSE [k |-> s, ptr |-> a.ptr]
    <3> HIDE DEF e
    <3> QED BY <1>13, <2>1 DEF r3, PageTable, split_huge_pde
  <2> HIDE DEF a, page, e
  <2>4. CASE a.ptr = 0
    <3>1. r3 = pmm_alloc_page(k)
      BY <2>3, <2>4 DEF a
    <3>2. Fine(r3.k, D, own)
      BY <1>17, <3>1, AllocFine
    <3>3. r3.ptr = 0
      BY <2>3, <2>4
    <3> QED BY <1>18, <3>2, <3>3
  <2>5. CASE a.ptr # 0
    <3>1. r3.k = s /\ r3.ptr = a.ptr
      BY <2>3, <2>5
    <3>2. LinkFree(s.used, D)
      BY <1>17, <3>1
    <3>3. PICK own2 : SplitPost(k, D, s, own2, b, c, a.ptr)
      <4>1. a = pmm_alloc_page(k)
        BY DEF a
      <4>2. PICK s2 : s2 = s
        OBVIOUS
      <4>3. s2 = Write(WritePage(a.k, a.ptr, page), kernel_pd(b), c, Entry(a.ptr))
        BY <4>2
      <4>4. LinkFree(s2.used, D)
        BY <3>2, <4>2
      <4> HIDE DEF s
      <4>5. \E own2 : SplitPost(k, D, s2, own2, b, c, a.ptr)
        BY <1>14, <2>2, <2>5, <4>1, <4>3, <4>4, KernelSplit
      <4> QED BY <4>2, <4>5
    <3> HIDE DEF s
    <3>4. /\ own2 \in [Frames -> Labels] /\ Fine(r3.k, D, own2) /\ Bare(own2)
          /\ own2[r3.ptr] = Shared(b, c)
      BY <3>1, <3>3 DEF SplitPost
    <3> QED BY <1>18, <3>4
  <2> QED BY <2>4, <2>5
<1> QED BY <1>5, <1>19, <1>20 DEF KernelPds

\* What is true before every round of the loop over the pages of a port.
PortSound(p, r, i) ==
  /\ PortTyped(p.k, r, i)
  /\ LinkFree(r.k.used, p.D \union r.got) =>
       \E own : KernelPost(p.D \union r.got, r.k, own)

\* A page of a port is brought up.
LEMMA PortRoundSound ==
  ASSUME NEW p, p.k.cr3 = kernel_pml4, NEW r, NEW i, PortSound(p, r, i - 1)
  PROVE  PortSound(p, PortRound(p, r, i), i)
<1> DEFINE a == pmm_alloc_page(r.k)
           f == a.ptr
           m == vmm_map_page(a.k, kernel_pml4, Low(f), f)
           w == WritePage(m, f, ZeroPage)
           x == PortRound(p, r, i)
           D == p.D \union r.got
           E == D \union {f}
<1>1. PortTyped(p.k, r, i - 1)
  BY DEF PortSound
<1>2. PortTyped(p.k, x, i)
  <2>1. PortTyped(p.k, PortRound(p.k, r, i), i)
    BY <1>1, PortRoundTyped
  <2> QED BY <2>1 DEF PortRound
<1>3. x = IF f = 0 THEN [k |-> a.k, got |-> r.got] ELSE [k |-> w, got |-> r.got \union {f}]
  BY DEF PortRound, alloc_mapped_page
<1>4. r = [k |-> r.k, got |-> r.got] /\ TStep(p.k, r.k)
  BY <1>1 DEF PortTyped
<1>5. RStep(r.k, a)
  BY <1>4, PageAllocTyped DEF TStep
<1> SUFFICES ASSUME LinkFree(x.k.used, p.D \union x.got)
             PROVE  \E own : KernelPost(p.D \union x.got, x.k, own)
  BY <1>2 DEF PortSound
<1>6. CASE f = 0
  <2>1. a.k = r.k
    BY <1>4, <1>6, Allocating DEF TStep
  <2>2. x = [k |-> a.k, got |-> r.got]
    BY <1>3, <1>6
  <2> HIDE DEF x, a
  <2>3. x.k = r.k /\ x.got = r.got
    BY <2>1, <2>2
  <2> QED BY <2>3 DEF PortSound
<1>7. CASE f # 0
  <2>1. x.k = w /\ x.got = r.got \union {f} /\ p.D \union x.got = E
    BY <1>3, <1>7
  <2> HIDE DEF x
  <2>2. kernel_pml4 \in a.k.used /\ kernel_pml4 \in Image
    <3> HIDE DEF a
    <3> QED BY <1>4, <1>5, KernelFrames DEF RStep, TStep, Typed
  <2>3. TStep(a.k, m)
    <3> HIDE DEF a
    <3> QED BY <1>5, <2>2, MappingVA, MapTyped DEF RStep, TStep
  <2>4. TStep(m, w)
    <3> HIDE DEF a
    <3> HIDE DEF m
    <3> QED BY <1>5, <2>3, FunctionsTyped, WritePageTyped DEF RStep, TStep
  <2>5. LinkFree(m.used, E) /\ LinkFree(a.k.used, E) /\ LinkFree(a.k.used, D)
        /\ LinkFree(r.k.used, D)
    <3>1. LinkFree(w.used, E)
      BY <2>1
    <3>2. r.k.used \subseteq a.k.used /\ a.k.used \subseteq m.used /\ m.used \subseteq w.used
      <4> HIDE DEF w
      <4> HIDE DEF m
      <4> HIDE DEF a
      <4> QED BY <1>5, <2>3, <2>4 DEF RStep, TStep
    <3>3. D \subseteq E /\ E \subseteq E
      OBVIOUS
    <3> HIDE DEF w
    <3> HIDE DEF m
    <3> HIDE DEF a
    <3> HIDE DEF E, D
    <3>4. a.k.used \subseteq w.used /\ r.k.used \subseteq w.used
      BY <3>2
    <3> QED BY <3>1, <3>2, <3>3, <3>4, LinkFreeLess
  <2>6. PICK own : KernelPost(D, r.k, own)
    BY <2>5 DEF PortSound
  <2>7. own \in [Frames -> Labels] /\ Fine(r.k, D, own) /\ Bare(own)
    BY <2>6 DEF KernelPost
  <2> HIDE DEF D
  <2>8. /\ Fine(a.k, D, own) /\ f \in Frames /\ f \in a.k.used
        /\ own[f].l = 0 /\ f \notin LinkFrames /\ f \notin Image
    BY <1>7, <2>5, <2>7, AllocFine
  <2>9. Fine(a.k, E, own)
    <3> HIDE DEF a
    <3> QED BY <2>5, <2>8, WithFrame
  <2>10. a.k.cr3 = kernel_pml4
    BY <1>4, <1>5 DEF RStep, TStep
  <2>11. PICK own2 : KernelPost(E, m, own2)
    <3>1. PICK m2 : m2 = m
      OBVIOUS
    <3>2. m2 = vmm_map_page(a.k, kernel_pml4, Low(f), f) /\ LinkFree(m2.used, E)
      BY <2>5, <3>1
    <3>3. f \in E
      OBVIOUS
    <3>4. \E own2 : KernelPost(E, m2, own2)
      <4> HIDE DEF m, E
      <4> HIDE DEF a
      <4> HIDE <3>1
      <4> QED BY <2>7, <2>8, <2>9, <2>10, <3>2, <3>3, KernelMap
    <3> QED BY <3>1, <3>4
  <2> HIDE DEF w
  <2> HIDE DEF m
  <2>12. own2 \in [Frames -> Labels] /\ Fine(m, E, own2) /\ Bare(own2)
    BY <2>11 DEF KernelPost
  <2>13. own2[f].l = 0
    <3>1. Owners(own2, m.used, E)
      BY <2>12 DEF Fine, Sound
    <3> QED BY <2>8, <3>1 DEF Owners
  <2>14. Fine(w, E, own2)
    <3> HIDE DEF E
    <3> HIDE DEF a
    <3> QED BY <2>8, <2>12, <2>13, FunctionsTyped, WriteNone DEF w
  <2>15. KernelPost(E, w, own2)
    BY <2>12, <2>14 DEF KernelPost
  <2> QED BY <2>1, <2>15
<1> QED BY <1>6, <1>7

PortS == INSTANCE Loops WITH Round <- PortRound, Good <- PortSound

\* A port is brought up.
LEMMA PortSounds ==
  ASSUME NEW k, NEW D, NEW own \in [Frames -> Labels], Fine(k, D, own), Bare(own),
         k.cr3 = kernel_pml4,
         NEW r, r = PortT!Loop(k, [k |-> k, got |-> {}], PortPages),
         LinkFree(r.k.used, D \union r.got)
  PROVE  \E own2 : KernelPost(D \union r.got, r.k, own2)
<1> DEFINE p == [k |-> k, D |-> D]
           s == [k |-> k, got |-> {}]
           l == PortS!Loop(p, s, PortPages)
<1>0. r = l
  BY DEF PortT!Loop, PortS!Loop, PortRound
<1>1. PortSound(p, s, 0)
  <2>1. PortTyped(k, s, 0)
    BY TStepRefl DEF PortTyped, Fine
  <2>2. KernelPost(D \union {}, k, own)
    BY DEF KernelPost
  <2> QED BY <2>1, <2>2 DEF PortSound
<1>2. PortPages \in Nat
  BY MemoryAssumption
<1>3. p.k.cr3 = kernel_pml4 /\ p.D = D
  OBVIOUS
<1> HIDE DEF p, s
<1>4. \A i \in 1 .. PortPages : \A x : PortSound(p, x, i - 1) => PortSound(p, PortRound(p, x, i), i)
  BY <1>3, PortRoundSound
<1>5. PortSound(p, l, PortPages)
  BY <1>1, <1>2, <1>4, PortS!LoopKeeps
<1> HIDE DEF l
<1> QED BY <1>0, <1>3, <1>5 DEF PortSound
-----------------------------------------------------------------------------
(* The invariant, and that every step keeps it.                            *)

\* The pages of a process are pages of its program or of its heap, which is
\* below the break, and the break is not the last address.
HeapBelow ==
  \A p \in Procs :
    /\ heap_end[p] # LastBreak
    /\ DOMAIN expected[p] \subseteq Pages
    /\ \A n \in HeapPages :
         HeapPage(n) \in DOMAIN expected[p] => n < PageEnd(heap_end[p])

Built(own) ==
  /\ own \in [Frames -> Labels]
  /\ Fine(K, dma, own)
  /\ cur = Boot => Bare(own)
  /\ \A p \in live : Holds(K, own, pml4[p], expected[p])

AddressInv ==
  /\ TypeInv
  /\ HeapBelow
  /\ LinkFree(used, dma) => \E own : Built(own)

\* The CPU changes to another address space.
LEMMA NewCpu ==
  ASSUME NEW k, NEW D, NEW own, Fine(k, D, own), NEW r, Typed(r), r.mem = k.mem,
         r.used = k.used, r.cr3 = k.cr3 \/ Whole(k.mem, own, r.cr3)
  PROVE  Fine(r, D, own)
<1>1. Sound(r, D, own)
  BY DEF Fine, Sound
<1>2. Active(r, own)
  BY DEF Fine, Active
<1> QED BY <1>1, <1>2 DEF Fine

\* A state with the same memory has the same pages.
LEMMA HoldsSame ==
  ASSUME NEW k, NEW own, NEW root, NEW g, Holds(k, own, root, g),
         NEW r, r.mem = k.mem, r.dropped = k.dropped
  PROVE  Holds(r, own, root, g)
BY DEF Holds, Has

\* K after a call.
LEMMA CallParts ==
  ASSUME TypeInv, NEW k, TStep(K, k), Becomes(k), cr3' \in Frames
  PROVE  /\ Typed(K)' /\ K'.mem = k.mem /\ K'.dropped = k.dropped /\ K'.used = k.used
         /\ K'.cr3 = cr3' /\ used' = k.used /\ used \subseteq used' /\ k.cr3 = cr3
BY AfterCall DEF K, Becomes, TStep

\* At boot no frame has a label.
LEMMA BuiltAtBoot ==
  ASSUME Init, TypeInv, LinkFree(used, dma)
  PROVE  \E own : Built(own)
<1> DEFINE own == [f \in Frames |-> Lab(0, 0, 0, 0, 0, 0)]
<1>1. own \in [Frames -> Labels] /\ \A f \in Frames : own[f].l = 0
  <2>1. Lab(0, 0, 0, 0, 0, 0) \in Labels /\ Lab(0, 0, 0, 0, 0, 0).l = 0
    <3>1. 0 \in Frames /\ 0 \in Index
      BY Sizes, NoFrameIsNone
    <3> QED BY <3>1 DEF Lab, Labels
  <2> QED BY <2>1
<1> HIDE DEF own
<1>2. Typed(K) /\ K.mem = mem /\ K.used = used /\ K.cr3 = kernel_pml4
  BY DEF TypeInv, K, Init
<1>3. EntriesOk(mem, own) /\ Owners(own, used, dma) /\ Bare(own)
  BY <1>1 DEF EntriesOk, EntryOk, Owners, Bare
<1>4. mem = [f \in Frames |->
                CASE f = kernel_pml4 ->
                       [i \in Index |-> IF i = 0 THEN Entry(kernel_pdp) ELSE Zero]
                  [] f = kernel_pdp ->
                       [i \in Index |-> IF i < NPD THEN Entry(kernel_pd(i)) ELSE Zero]
                  [] f \in {kernel_pd(n) : n \in 0 .. NPD - 1} ->
                       [i \in Index |-> Huge(((f - 3) * Fan + i) * Fan)]
                  [] OTHER -> ZeroPage]
  BY DEF Init
<1>5. KernelTop(mem)
  <2>1. kernel_pml4 \in Frames /\ kernel_pdp \in Frames
    BY KernelFrames
  <2>2. /\ kernel_pml4 # kernel_pdp
        /\ kernel_pml4 \notin {kernel_pd(n) : n \in 0 .. NPD - 1}
        /\ kernel_pdp \notin {kernel_pd(n) : n \in 0 .. NPD - 1}
    BY DEF kernel_pml4, kernel_pdp, kernel_pd
  <2>3. mem[kernel_pml4] = [i \in Index |-> IF i = 0 THEN Entry(kernel_pdp) ELSE Zero]
    BY <1>4, <2>1, <2>2, Zenon
  <2>4. mem[kernel_pdp] = [i \in Index |-> IF i < NPD THEN Entry(kernel_pd(i)) ELSE Zero]
    BY <1>4, <2>1, <2>2
  <2> QED BY <2>3, <2>4 DEF KernelTop
<1>6. KernelPds(mem, own, dma)
  <2> SUFFICES ASSUME NEW b \in 0 .. NPD - 1, NEW c \in Index
               PROVE  mem[kernel_pd(b)][c] = Huge(Nth(b, c, 0))
    BY DEF KernelPds
  <2> DEFINE t == kernel_pd(b)
             pds == {kernel_pd(n) : n \in 0 .. NPD - 1}
  <2>1. t \in Frames /\ t \in pds
    BY KernelFrames
  <2>2. t # kernel_pml4 /\ t # kernel_pdp /\ t - 3 = b
    BY DEF kernel_pml4, kernel_pdp, kernel_pd
  <2>3. (b * Fan + c) * Fan = Nth(b, c, 0)
    <3>1. (b * Fan + c) * Fan \in Int
      BY Sizes
    <3> QED BY <3>1 DEF Nth
  <2> HIDE DEF t, pds
  <2>4. mem[t] = [i \in Index |-> Huge(((t - 3) * Fan + i) * Fan)]
    BY <1>4, <2>1, <2>2 DEF pds
  <2>5. mem[t][c] = Huge((b * Fan + c) * Fan)
    BY <2>2, <2>4
  <2> QED BY <2>3, <2>5 DEF t
<1>7. Fine(K, dma, own)
  <2>1. dma = {}
    BY DEF Init
  <2>2. Sound(K, dma, own)
    BY <1>1, <1>2, <1>3, <1>5, <1>6, <2>1 DEF Sound
  <2> QED BY <1>2, <2>2 DEF Fine, Active
<1>8. live = {}
  BY DEF Init
<1> QED BY <1>1, <1>3, <1>7, <1>8 DEF Built

\* The break a heap starts with is not the last address.
LEMMA StartIsLow == 0 \in Breaks /\ 0 # LastBreak
BY MemoryAssumption, PageEnds

\* The invariant holds at boot.
LEMMA AddressInit == Init => AddressInv
<1> SUFFICES ASSUME Init PROVE AddressInv
  OBVIOUS
<1>1. TypeInv
  BY TypeInit
<1>2. HeapBelow
  <2>1. \A p \in Procs : expected[p] = <<>> /\ heap_end[p] = 0
    BY DEF Init
  <2>2. DOMAIN <<>> = {}
    OBVIOUS
  <2> QED BY <2>1, <2>2, StartIsLow DEF HeapBelow
<1>3. LinkFree(used, dma) => \E own : Built(own)
  BY <1>1, BuiltAtBoot
<1> QED BY <1>1, <1>2, <1>3 DEF AddressInv

\* It holds when nothing happens.
LEMMA AddressStutter == ASSUME AddressInv, UNCHANGED vars PROVE AddressInv'
<1>1. TypeInv' /\ K' = K
  BY TypeStutter DEF AddressInv, K, vars
<1>2. HeapBelow'
  BY DEF AddressInv, HeapBelow, vars
<1>3. ASSUME NEW own, Built(own) PROVE Built(own)'
  BY <1>1, <1>3 DEF Built, vars
<1>4. (LinkFree(used, dma) => \E own : Built(own))'
  BY <1>3 DEF AddressInv, vars
<1> QED BY <1>1, <1>2, <1>4 DEF AddressInv

\* A step that leaves the pages of all processes: what is in the heap is not
\* touched by it.
LEMMA HeapSame ==
  ASSUME HeapBelow, UNCHANGED <<heap_end, expected>>
  PROVE  HeapBelow'
BY DEF HeapBelow

\* The registers of the disk controller are mapped.
LEMMA AddressController == ASSUME AddressInv, ahci_find_controller PROVE AddressInv'
<1> DEFINE k == vmm_map_page(K, kernel_pml4, Low(MmioPage), MmioPage)
<1>1. /\ cur = Boot /\ dma = {} /\ dma' = {MmioPage} /\ Becomes(k)
      /\ UNCHANGED <<cr3, ports, cur, live, pml4, heap_end, expected>>
  BY DEF ahci_find_controller
<1>2. TypeInv /\ TypeInv'
  BY TypeController DEF AddressInv
<1>3. HeapBelow'
  BY <1>1, HeapSame DEF AddressInv
<1>4. ASSUME LinkFree(used', dma') PROVE \E own : Built(own)'
  <2>1. Typed(K) /\ kernel_pml4 \in K.used /\ MmioPage \in Frames /\ K.cr3 = kernel_pml4
    BY <1>1, <1>2, KernelFrames, Sizes DEF TypeInv, CpuInv, Typed, K
  <2>2. TStep(K, k)
    BY <2>1, MappingVA, MapTyped
  <2> HIDE DEF k
  <2>3. K' = k /\ used' = k.used /\ used \subseteq used'
    <3>1. cr3' \in Frames
      BY <1>1, <1>2, StateParts DEF TypeInv, K
    <3> QED BY <1>1, <1>2, <2>2, <3>1, AfterCall DEF Becomes
  <2>4. LinkFree(used, dma) /\ LinkFree(K.used, dma')
    <3>1. dma \subseteq dma' /\ dma' \subseteq dma' /\ K.used = used
      BY <1>1 DEF K
    <3> QED BY <1>4, <2>3, <3>1, LinkFreeLess
  <2>5. PICK own : Built(own)
    BY <2>4 DEF AddressInv
  <2>6. own \in [Frames -> Labels] /\ Fine(K, dma, own) /\ Bare(own)
    BY <1>1, <2>5 DEF Built
  <2>7. own[MmioPage].l = 0
    <3>1. MmioPage \notin K.used
      BY <2>1, StateParts, Sizes
    <3> QED BY <2>1, <2>6, <3>1 DEF Fine, Sound, Owners
  <2>8. Fine(K, dma', own)
    <3>1. dma' = dma \union {MmioPage}
      BY <1>1
    <3> QED BY <2>1, <2>4, <2>6, <2>7, <3>1, WithFrame
  <2>9. PICK own2 : KernelPost(dma', k, own2)
    <3>1. MmioPage \in dma' /\ LinkFree(k.used, dma')
      BY <1>1, <1>4, <2>3
    <3> QED BY <2>1, <2>6, <2>8, <3>1, KernelMap DEF k
  <2>10. own2 \in [Frames -> Labels] /\ Fine(K', dma', own2) /\ Bare(own2)
    BY <2>3, <2>9 DEF KernelPost
  <2>11. live' = {}
    BY <1>1, <1>2 DEF TypeInv, CpuInv
  <2>12. Built(own2)'
    BY <2>10, <2>11 DEF Built
  <2> QED BY <2>12
<1> QED BY <1>2, <1>3, <1>4 DEF AddressInv

\* A port is brought up.
LEMMA AddressPort == ASSUME AddressInv, ahci_port_init PROVE AddressInv'
<1> DEFINE s == [k |-> K, got |-> {}]
           r == PortT!Loop(K, s, PortPages)
<1>1. r = LET pages[n \in 0 .. PortPages] ==
                IF n = 0 THEN [k |-> K, got |-> {}]
                ELSE alloc_mapped_page(pages[n - 1])
          IN  pages[PortPages]
  BY DEF PortT!Loop, PortRound
<1>2. /\ cur = Boot /\ Becomes(r.k) /\ dma' = dma \union r.got
      /\ UNCHANGED <<cr3, cur, live, pml4, heap_end, expected>>
  BY <1>1 DEF ahci_port_init
<1>3. TypeInv /\ TypeInv'
  BY TypePort DEF AddressInv
<1>4. HeapBelow'
  BY <1>2, HeapSame DEF AddressInv
<1>5. TStep(K, r.k)
  <2>1. PortTyped(K, s, 0)
    BY <1>3, TStepRefl DEF PortTyped, TypeInv
  <2>2. PortTyped(K, r, PortPages)
    <3> HIDE DEF s
    <3>1. \A i \in 1 .. PortPages : \A x : PortTyped(K, x, i - 1) => PortTyped(K, PortRound(K, x, i), i)
      BY PortRoundTyped
    <3>2. PortPages \in Nat
      BY MemoryAssumption
    <3> QED BY <2>1, <3>1, <3>2, PortT!LoopKeeps
  <2> HIDE DEF r
  <2> QED BY <2>2 DEF PortTyped
<1>6. PICK q : q = r
  OBVIOUS
<1>7. q = PortT!Loop(K, [k |-> K, got |-> {}], PortPages)
  BY <1>6
<1> HIDE DEF r
<1>8. ASSUME LinkFree(used', dma') PROVE \E own : Built(own)'
  <2>1. K' = r.k /\ used' = r.k.used /\ used \subseteq used'
    <3>1. cr3' \in Frames
      BY <1>2, <1>3, StateParts DEF TypeInv, K
    <3> QED BY <1>2, <1>3, <1>5, <3>1, AfterCall DEF Becomes
  <2>2. LinkFree(used, dma)
    <3>1. dma \subseteq dma'
      BY <1>2
    <3> QED BY <1>8, <2>1, <3>1, LinkFreeLess
  <2>3. PICK own : Built(own)
    BY <2>2 DEF AddressInv
  <2>4. own \in [Frames -> Labels] /\ Fine(K, dma, own) /\ Bare(own) /\ K.cr3 = kernel_pml4
    BY <1>2, <1>3, <2>3 DEF Built, TypeInv, CpuInv, K
  <2>5. LinkFree(q.k.used, dma \union q.got)
    BY <1>2, <1>6, <1>8, <2>1
  <2>6. PICK own2 : KernelPost(dma \union q.got, q.k, own2)
    BY <1>7, <2>4, <2>5, PortSounds
  <2>7. own2 \in [Frames -> Labels] /\ Fine(K', dma', own2) /\ Bare(own2)
    BY <1>2, <1>6, <2>1, <2>6 DEF KernelPost
  <2>8. live' = {}
    BY <1>2, <1>3 DEF TypeInv, CpuInv
  <2>9. Built(own2)'
    BY <2>7, <2>8 DEF Built
  <2> QED BY <2>9
<1> QED BY <1>3, <1>4, <1>8 DEF AddressInv

\* It is enough to look at the process whose heap or pages change.
LEMMA BelowKept ==
  ASSUME HeapBelow, NEW s \in Procs,
         \A p \in Procs \ {s} : expected'[p] = expected[p] /\ heap_end'[p] = heap_end[p],
         heap_end'[s] # LastBreak, DOMAIN expected'[s] \subseteq Pages,
         \A n \in HeapPages :
           HeapPage(n) \in DOMAIN expected'[s] => n < PageEnd(heap_end'[s])
  PROVE  HeapBelow'
<1> SUFFICES ASSUME NEW p \in Procs
             PROVE  /\ heap_end'[p] # LastBreak
                    /\ DOMAIN expected'[p] \subseteq Pages
                    /\ \A n \in HeapPages :
                         HeapPage(n) \in DOMAIN expected'[p] => n < PageEnd(heap_end'[p])
  BY DEF HeapBelow, PageEnd, PAGE_ALIGN_UP
<1>1. CASE p = s
  BY <1>1
<1>2. CASE p # s
  BY <1>2 DEF HeapBelow
<1> QED BY <1>1, <1>2

\* The pages a process has seen are pages.
LEMMA SeenPages ==
  ASSUME HeapBelow, NEW p \in Procs
  PROVE  DOMAIN expected[p] \subseteq Pages
BY DEF HeapBelow

\* An address space is made, or cannot be made.
LEMMA CreateChange ==
  ASSUME NEW k, NEW D, NEW own \in [Frames -> Labels], Fine(k, D, own),
         NEW c, c = create_user_pml4(k), LinkFree(c.k.used, D)
  PROVE  \E own2 : /\ Change(k, own, c.k, D, own2, {})
                   /\ c.ptr # 0 => Whole(c.k.mem, own2, c.ptr)
<1>1. PICK own2 : CreatePost(k, D, own, c, own2)
  BY CreateSound
<1>2. Change(k, own, c.k, D, own2, {})
  BY <1>1, ChangeIs DEF CreatePost
<1> QED BY <1>1, <1>2 DEF CreatePost

\* A process is made, or cannot be made.
LEMMA AddressSpawn ==
  ASSUME AddressInv, NEW s \in Procs, NEW n \in 0 .. ImagePages, NEW bad \in BOOLEAN,
         Spawn(s, n, bad)
  PROVE  AddressInv'
<1> DEFINE c == create_user_pml4(K)
           l == load_elf_into_process(c.k, c.ptr, n, bad)
           S == {Low(LinkPage + i) : i \in 0 .. n - 1}
           g == IF l.ok THEN [va \in S |-> 1] ELSE <<>>
<1>1. s \notin live /\ cur # Halted /\ UNCHANGED <<dma, ports>>
  BY DEF Spawn
<1>2. TypeInv /\ TypeInv' /\ Typed(K) /\ HeapBelow
  BY TypeSpawn DEF AddressInv, TypeInv
<1>3. TStep(K, c.k) /\ c.ptr \in c.k.used \union {0} /\ (c.ptr \notin K.used \/ c.ptr = 0)
  BY <1>2, CreateTyped
<1>4. cr3' \in Frames
  BY <1>2, StateParts DEF TypeInv, K
<1>5. CASE /\ c.ptr = 0
           /\ Becomes(c.k)
           /\ cur' = IF cur = Boot THEN Halted ELSE cur
           /\ UNCHANGED <<cr3, live, pml4, heap_end, expected>>
  <2>1. PICK c2 : c2 = c
    OBVIOUS
  <2>2. c2 = create_user_pml4(K)
    BY <2>1
  <2> HIDE DEF c
  <2>3. HeapBelow'
    BY <1>2, <1>5, HeapSame
  <2>4. ASSUME LinkFree(used', dma') PROVE \E own : Built(own)'
    <3>1. K' = c.k /\ used' = c.k.used /\ used \subseteq used'
      BY <1>2, <1>3, <1>4, <1>5, AfterCall DEF Becomes
    <3>2. LinkFree(used, dma)
      <4>1. dma \subseteq dma'
        BY <1>1
      <4> QED BY <2>4, <3>1, <4>1, LinkFreeLess
    <3>3. PICK own : Built(own)
      BY <3>2 DEF AddressInv
    <3>4. own \in [Frames -> Labels] /\ Fine(K, dma, own)
          /\ \A p \in live : Holds(K, own, pml4[p], expected[p])
      BY <3>3 DEF Built
    <3>5. LinkFree(c2.k.used, dma)
      BY <1>1, <2>1, <2>4, <3>1
    <3>6. PICK own2 : Change(K, own, c2.k, dma, own2, {})
      BY <2>2, <3>4, <3>5, CreateChange
    <3>7. Change(K, own, K', dma, own2, {})
      BY <2>1, <3>1, <3>6
    <3>8. own2 \in [Frames -> Labels] /\ Fine(K', dma', own2)
      BY <1>1, <3>7 DEF Change
    <3>9. ASSUME NEW p \in live' PROVE Holds(K', own2, pml4'[p], expected'[p])
      <4>1. p \in live /\ p \in Procs /\ pml4'[p] = pml4[p] /\ expected'[p] = expected[p]
        BY <1>2, <1>5, <3>9 DEF TypeInv, CpuInv
      <4>2. DOMAIN expected[p] \subseteq Pages
        BY <1>2, <4>1, SeenPages
      <4>3. Holds(K, own, pml4[p], expected[p])
        BY <3>4, <4>1
      <4>4. {} \subseteq Leaves
        OBVIOUS
      <4> QED BY <3>7, <4>1, <4>2, <4>3, <4>4, HoldsKept
    <3>10. cur' # Boot
      BY <1>5, CpuNames
    <3>11. Built(own2)'
      BY <3>8, <3>9, <3>10 DEF Built
    <3> QED BY <3>11
  <2> QED BY <1>2, <2>3, <2>4 DEF AddressInv
<1>6. CASE /\ c.ptr # 0
           /\ Becomes(l.k)
           /\ pml4' = [pml4 EXCEPT ![s] = c.ptr]
           /\ heap_end' = [heap_end EXCEPT ![s] = 0]
           /\ expected' = [expected EXCEPT ![s] = g]
           /\ live' = IF l.ok THEN live \union {s} ELSE live
           /\ cur' = IF cur # Boot THEN cur ELSE IF l.ok THEN s ELSE Halted
           /\ cr3' = IF cur = Boot /\ l.ok THEN c.ptr ELSE cr3
  <2>1. PICK c2 : c2 = c
    OBVIOUS
  <2>2. c2 = create_user_pml4(K)
    BY <2>1
  <2>3. PICK l2 : l2 = load_elf_into_process(c2.k, c2.ptr, n, bad)
    OBVIOUS
  <2>4. l2 = l
    BY <2>1, <2>3
  <2>5. /\ c2.ptr # 0 /\ c2.ptr \notin K.used /\ c2.ptr \in c2.k.used
        /\ TStep(K, c2.k)
    BY <1>3, <1>6, <2>1
  <2>6. TStep(c2.k, l2.k) /\ l2.ok \in BOOLEAN
    <3>1. Typed(c2.k)
      BY <2>5 DEF TStep
    <3> QED BY <2>3, <2>5, <3>1, LoadTypes
  <2>7. TStep(K, l2.k)
    BY <2>5, <2>6, TStepTrans
  <2> HIDE DEF c
  <2> HIDE DEF l
  <2> HIDE DEF g
  <2>8. /\ Becomes(l2.k)
        /\ pml4' = [pml4 EXCEPT ![s] = c2.ptr]
        /\ heap_end' = [heap_end EXCEPT ![s] = 0]
        /\ expected' = [expected EXCEPT ![s] = g]
        /\ live' = IF l2.ok THEN live \union {s} ELSE live
        /\ cur' = IF cur # Boot THEN cur ELSE IF l2.ok THEN s ELSE Halted
        /\ cr3' = IF cur = Boot /\ l2.ok THEN c2.ptr ELSE cr3
    BY <1>6, <2>1, <2>4
  <2>9. g = IF l2.ok THEN [va \in S |-> 1] ELSE <<>>
    BY <2>4 DEF g
  <2>10. /\ Typed(K)' /\ K'.mem = l2.k.mem /\ K'.dropped = l2.k.dropped
         /\ K'.used = l2.k.used /\ K'.cr3 = cr3' /\ used' = l2.k.used
         /\ used \subseteq used' /\ l2.k.cr3 = cr3
    BY <1>2, <1>4, <2>7, <2>8, CallParts
  <2>11. /\ pml4'[s] = c2.ptr /\ expected'[s] = g
         /\ \A p \in Procs \ {s} : /\ pml4'[p] = pml4[p] /\ expected'[p] = expected[p]
                                   /\ heap_end'[p] = heap_end[p]
    BY <1>2, <2>8 DEF TypeInv
  <2>12. DOMAIN g \subseteq S
    BY <2>9
  <2>13. \A va \in S : va \in Pages /\ va[1] = 0
    <3>1. \A i \in 0 .. n - 1 : i \in 0 .. ImagePages - 1
      BY MemoryAssumption
    <3>2. \A i : Low(i)[1] = 0
      BY DEF Low
    <3> QED BY <3>1, <3>2, MappingVA
  <2> HIDE DEF S
  <2>14. HeapBelow'
    <3>1. ASSUME NEW h \in HeapPages PROVE HeapPage(h) \notin S
      <4>1. HeapPage(h)[1] = 1
        BY MappingVA
      <4> QED BY <2>13, <4>1
    <3>2. heap_end'[s] # LastBreak
      BY <1>2, <2>8, StartIsLow DEF TypeInv
    <3>3. DOMAIN expected'[s] \subseteq S /\ S \subseteq Pages
      BY <2>11, <2>12, <2>13
    <3> QED BY <1>2, <2>11, <3>1, <3>2, <3>3, BelowKept
  <2>15. ASSUME LinkFree(used', dma') PROVE \E own : Built(own)'
    <3>1. LinkFree(used, dma) /\ LinkFree(c2.k.used, dma) /\ LinkFree(l2.k.used, dma)
      <4>1. dma \subseteq dma' /\ c2.k.used \subseteq used' /\ l2.k.used \subseteq used'
        BY <1>1, <2>6, <2>10 DEF TStep
      <4> QED BY <2>10, <2>15, <4>1, LinkFreeLess
    <3>2. PICK own : Built(own)
      BY <3>1 DEF AddressInv
    <3>3. own \in [Frames -> Labels] /\ Fine(K, dma, own)
          /\ \A p \in live : Holds(K, own, pml4[p], expected[p])
      BY <3>2 DEF Built
    <3>4. PICK own1 : /\ Change(K, own, c2.k, dma, own1, {})
                      /\ Whole(c2.k.mem, own1, c2.ptr)
      BY <2>2, <2>5, <3>1, <3>3, CreateChange
    <3>5. own1 \in [Frames -> Labels] /\ Fine(c2.k, dma, own1) /\ c2.ptr \in Frames
      BY <3>4 DEF Change, Whole
    <3>6. PICK own2 :
            /\ Change(c2.k, own1, l2.k, dma, own2, LeavesOf(c2.ptr))
            /\ l2.ok => \A j \in 0 .. n - 1 : Has(l2.k, own2, c2.ptr, Low(LinkPage + j), 1)
      BY <2>3, <3>1, <3>4, <3>5, LoadSounds
    <3>7. LeavesOf(c2.ptr) \subseteq Leaves /\ {} \subseteq Leaves
      BY <3>5, LeavesThere
    <3>8. Whole(l2.k.mem, own2, c2.ptr)
      BY <3>4, <3>6, <3>7, WholeChange
    <3>9. own2 \in [Frames -> Labels] /\ Fine(l2.k, dma, own2)
      BY <3>6 DEF Change
    <3>10. Fine(K', dma', own2)
      <4>1. K'.cr3 = l2.k.cr3 \/ Whole(l2.k.mem, own2, K'.cr3)
        BY <2>8, <2>10, <3>8
      <4> QED BY <1>1, <2>10, <3>9, <4>1, NewCpu
    <3>11. ASSUME NEW p \in live, p # s
           PROVE  Holds(l2.k, own2, pml4[p], expected[p])
      <4>1. p \in Procs /\ pml4[p] \in K.used
        BY <1>2, <3>11 DEF TypeInv, CpuInv, K
      <4>2. pml4[p] # c2.ptr
        BY <2>5, <4>1
      <4>3. DOMAIN expected[p] \subseteq Pages
        BY <1>2, <4>1, SeenPages
      <4>4. Holds(K, own, pml4[p], expected[p])
        BY <3>3
      <4>5. Holds(c2.k, own1, pml4[p], expected[p])
        BY <3>4, <3>7, <4>3, <4>4, HoldsKept
      <4>6. \A va \in DOMAIN expected[p] : Leaf(pml4[p], va) \notin LeavesOf(c2.ptr)
        BY <4>2, <4>3, OtherLeaves
      <4> QED BY <3>6, <3>7, <4>3, <4>5, <4>6, HoldsKept
    <3>12. ASSUME l2.ok PROVE Holds(l2.k, own2, c2.ptr, g)
      <4>1. g = [va \in S |-> 1]
        BY <2>9, <3>12
      <4>2. ASSUME NEW va \in S PROVE Has(l2.k, own2, c2.ptr, va, 1)
        BY <3>6, <3>12 DEF S
      <4>3. DOMAIN g = S /\ \A va \in S : g[va] = 1
        BY <4>1
      <4> QED BY <3>8, <4>2, <4>3 DEF Holds
    <3>13. ASSUME NEW p \in live' PROVE Holds(K', own2, pml4'[p], expected'[p])
      <4>1. CASE p = s
        <5>1. l2.ok
          BY <1>1, <2>8, <3>13, <4>1
        <5>2. Holds(l2.k, own2, c2.ptr, g)
          BY <3>12, <5>1
        <5> QED BY <2>10, <2>11, <4>1, <5>2, HoldsSame
      <4>2. CASE p # s
        <5>1. p \in live /\ p \in Procs
          BY <1>2, <2>8, <3>13, <4>2 DEF TypeInv, CpuInv
        <5>2. Holds(l2.k, own2, pml4[p], expected[p])
          BY <3>11, <4>2, <5>1
        <5> QED BY <2>10, <2>11, <4>2, <5>1, <5>2, HoldsSame
      <4> QED BY <4>1, <4>2
    <3>14. cur' # Boot
      BY <2>8, CpuNames
    <3>15. Built(own2)'
      BY <3>9, <3>10, <3>13, <3>14 DEF Built
    <3> QED BY <3>15
  <2> QED BY <1>2, <2>14, <2>15 DEF AddressInv
<1> QED BY <1>5, <1>6 DEF Spawn

\* Another process runs.
LEMMA AddressCpu ==
  ASSUME AddressInv, TypeInv', \E p \in live : cr3' = pml4[p] \/ cr3' = cr3,
         live' \subseteq live, cur \in Procs, cur' # Boot,
         UNCHANGED <<used, mem, fault, dropped, dma, ports, pml4, heap_end, expected>>
  PROVE  AddressInv'
<1>1. HeapBelow'
  BY HeapSame DEF AddressInv
<1>2. ASSUME LinkFree(used', dma') PROVE \E own : Built(own)'
  <2>1. PICK own : Built(own)
    BY <1>2 DEF AddressInv
  <2>2. own \in [Frames -> Labels] /\ Fine(K, dma, own)
        /\ \A p \in live : Holds(K, own, pml4[p], expected[p])
    BY <2>1 DEF Built
  <2>3. Typed(K)' /\ K'.mem = K.mem /\ K'.used = K.used /\ K'.dropped = K.dropped
        /\ K'.cr3 = cr3' /\ K.cr3 = cr3
    BY DEF TypeInv, K
  <2>4. K'.cr3 = K.cr3 \/ Whole(K.mem, own, K'.cr3)
    BY <2>2, <2>3 DEF Holds
  <2>5. Fine(K', dma', own)
    BY <2>2, <2>3, <2>4, NewCpu
  <2>6. \A p \in live' : Holds(K', own, pml4'[p], expected'[p])
    BY <2>2, <2>3, HoldsSame
  <2>7. Built(own)'
    BY <2>2, <2>5, <2>6 DEF Built
  <2> QED BY <2>7
<1> QED BY <1>1, <1>2 DEF AddressInv

\* The scheduler changes to another process.
LEMMA AddressSwitch == ASSUME AddressInv, NEW p \in Procs, Switch(p) PROVE AddressInv'
<1>1. TypeInv'
  BY TypeSwitch DEF AddressInv
<1>2. /\ cur \in Procs /\ p \in live /\ cur' = p /\ cr3' = pml4[p] /\ live' = live
      /\ UNCHANGED <<used, mem, fault, dropped, dma, ports, pml4, heap_end, expected>>
  BY DEF Switch
<1>3. cur' # Boot
  BY <1>2, CpuNames
<1> QED BY <1>1, <1>2, <1>3, AddressCpu

\* A process exits.
LEMMA AddressExit == ASSUME AddressInv, Exit PROVE AddressInv'
<1>1. TypeInv /\ TypeInv'
  BY TypeExit DEF AddressInv
<1>2. /\ cur \in Procs /\ live' = live \ {cur}
      /\ UNCHANGED <<used, mem, fault, dropped, dma, ports, pml4, heap_end, expected>>
  BY DEF Exit
<1>3. \/ \E p \in live \ {cur} : cur' = p /\ cr3' = pml4[p]
      \/ live = {cur} /\ cur' = Halted /\ cr3' = cr3
  BY DEF Exit
<1>4. cur' # Boot
  BY <1>1, <1>3, CpuNames DEF TypeInv, CpuInv
<1>5. \E p \in live : cr3' = pml4[p] \/ cr3' = cr3
  BY <1>3
<1> QED BY <1>1, <1>2, <1>4, <1>5, AddressCpu

\* What a program finds at its pages: its own page, or nothing, or, where the
\* page its loader asked for was not mapped, the frame of that number, which
\* nobody uses.
LEMMA UserWalk ==
  ASSUME NEW k, NEW D, NEW own, Fine(k, D, own), NEW root, Whole(k.mem, own, root),
         NEW va \in Pages
  PROVE  LET f == Walk(k.mem, root, va)
         IN  \/ f = NoFrame
             \/ f \in Frames /\ own[f] = Leaf(root, va)
             \/ f \in LinkFrames /\ f \in Frames /\ own[f].l = 0 /\ f \notin Image
<1> DEFINE m == k.mem
           f == Walk(m, root, va)
           e1 == m[root][va[1]]
           e2 == Below(m, e1, va[2])
           e3 == Below(m, e2, va[3])
           e4 == Below(m, e3, va[4])
<1>1. /\ EntriesOk(m, own) /\ KernelPds(m, own, D) /\ LinkFree(k.used, D)
  BY DEF Fine, Sound
<1>2. va[1] \in Index /\ va[2] \in Index /\ va[3] \in Index /\ va[4] \in Index
  BY MappingVA, VaParts
<1>3. f = Final(m, e3, va[4])
  BY DEF Walk, Final
<1>4. root \in Frames /\ own[root] = Root(root)
  BY DEF Whole
<1>5. Zero.p = FALSE /\ Zero.h = FALSE
  BY DEF Zero
<1>6. ASSUME ~e3.p, ~e3.h PROVE f = NoFrame
  BY <1>3, <1>5, <1>6 DEF Final, Below
<1>7. ASSUME ~e3.h, ~e4.p PROVE f = NoFrame
  BY <1>3, <1>7 DEF Final
<1>8. ASSUME ~e3.h, Leads(e4, own, Leaf(root, va))
      PROVE  f \in Frames /\ own[f] = Leaf(root, va)
  BY <1>3, <1>8 DEF Final, Leads
<1>9. ASSUME f \in LinkFrames, f \in Frames
      PROVE  own[f].l = 0 /\ f \notin Image
  BY <1>1, <1>9, Labelled, NotAtLink
<1>10. ASSUME Leads(e3, own, Lab(4, root, va[1], va[2], va[3], 0))
       PROVE  /\ ~e3.h /\ e4 = m[e3.to][va[4]] /\ e3.to \in Frames
              /\ own[e3.to] = Lab(4, root, va[1], va[2], va[3], 0)
              /\ EntryOk(m, own, own[e3.to], va[4], e4)
  <2> HIDE DEF e3
  <2>1. ~e3.h /\ e3.p /\ e3.to \in Frames /\ own[e3.to] = Lab(4, root, va[1], va[2], va[3], 0)
    BY <1>10 DEF Leads
  <2>2. e4 = m[e3.to][va[4]]
    BY <2>1 DEF Below
  <2> QED BY <1>1, <1>2, <2>1, <2>2 DEF EntriesOk
<1> HIDE DEF f, m
<1>11. CASE \E b \in 0 .. NPD - 1, c \in Index, d \in Index :
              va = <<0, b, c, d>> /\ Nth(b, c, d) \in LinkFrames
  <2>1. PICK b \in 0 .. NPD - 1, c \in Index, d \in Index :
          va = <<0, b, c, d>> /\ Nth(b, c, d) \in LinkFrames
    BY <1>11
  <2>2. va[1] = 0 /\ va[2] = b /\ va[3] = c /\ va[4] = d /\ Nth(b, c, d) \in Frames
    BY <2>1, LowOfNth
  <2>3. /\ Leads(m[root][0], own, Lab(2, root, 0, 0, 0, 0))
        /\ Leads(m[m[root][0].to][b], own, Lab(3, root, 0, b, 0, 0))
    BY DEF Whole, m
  <2>4. e1 = m[root][0] /\ e2 = m[m[root][0].to][b]
    BY <2>2, <2>3, BelowLeads
  <2>5. e2.p /\ e2.to \in Frames /\ own[e2.to] = Lab(3, root, 0, b, 0, 0)
    BY <2>3, <2>4 DEF Leads
  <2> HIDE DEF e2
  <2>6. e3 = m[e2.to][c]
    BY <2>2, <2>5 DEF Below
  <2>7. EntryOk(m, own, own[e2.to], c, e3)
    BY <1>1, <2>5, <2>6 DEF EntriesOk
  <2>8. own[e2.to].l = 3 /\ own[e2.to].a = 0 /\ own[e2.to].b = b /\ own[e2.to].r = root
    BY <2>5 DEF Lab
  <2> HIDE DEF e3
  <2>9. \/ e3 = m[kernel_pd(b)][c]
        \/ Leads(e3, own, Lab(4, root, 0, b, c, 0))
    BY <2>7, <2>8 DEF EntryOk, Plain, Onward, Child
  <2>10. CASE e3 = m[kernel_pd(b)][c]
    <3>1. f = Nth(b, c, d)
      BY <1>1, <1>3, <2>2, <2>10, KernelFinal
    <3> QED BY <1>9, <2>1, <2>2, <3>1 DEF f, m
  <2>11. CASE Leads(e3, own, Lab(4, root, 0, b, c, 0))
    <3>1. /\ ~e3.h /\ own[e3.to] = Lab(4, root, 0, b, c, 0)
          /\ EntryOk(m, own, own[e3.to], d, e4)
      BY <1>10, <2>2, <2>11
    <3>2. /\ own[e3.to].l = 4 /\ own[e3.to].a = 0 /\ own[e3.to].b = b
          /\ own[e3.to].c = c /\ own[e3.to].r = root
      BY <3>1 DEF Lab
    <3> HIDE DEF e4
    <3>3. e4 = Entry(Nth(b, c, d)) \/ Leads(e4, own, Child(own[e3.to], d))
      BY <3>1, <3>2 DEF EntryOk, Plain, Onward
    <3>4. CASE e4 = Entry(Nth(b, c, d))
      <4>1. f = Nth(b, c, d)
        <5>1. e4.p /\ e4.to = Nth(b, c, d)
          BY <3>4 DEF Entry
        <5> QED BY <1>3, <3>1, <5>1 DEF Final, e4
      <4> QED BY <1>9, <2>1, <2>2, <4>1 DEF f, m
    <3>5. CASE Leads(e4, own, Child(own[e3.to], d))
      <4>1. Child(own[e3.to], d) = Leaf(root, va)
        BY <2>2, <3>2 DEF Child, Leaf
      <4> QED BY <1>8, <3>1, <3>5, <4>1 DEF f, m
    <3> QED BY <3>3, <3>4, <3>5
  <2> QED BY <2>9, <2>10, <2>11
<1>12. CASE va[1] = 1
  <2>1. EntryOk(m, own, own[root], va[1], e1)
    BY <1>1, <1>2, <1>4 DEF EntriesOk
  <2>2. own[root].l = 1 /\ own[root].r = root
    BY <1>4 DEF Root, Lab
  <2> HIDE DEF e1
  <2>3. ~e1.p \/ Leads(e1, own, Lab(2, root, va[1], 0, 0, 0))
    BY <2>1, <2>2 DEF EntryOk, Plain, Onward, Child
  <2>4. CASE ~e1.p
    <3>1. e2 = Zero
      BY <2>4 DEF Below
    <3>2. e3 = Zero
      BY <1>5, <3>1 DEF Below
    <3> QED BY <1>5, <1>6, <3>2 DEF f, m
  <2>5. CASE Leads(e1, own, Lab(2, root, va[1], 0, 0, 0))
    <3>1. e1.p /\ e1.to \in Frames /\ own[e1.to] = Lab(2, root, va[1], 0, 0, 0)
      BY <2>5 DEF Leads
    <3>2. e2 = m[e1.to][va[2]]
      BY <3>1 DEF Below
    <3>3. EntryOk(m, own, own[e1.to], va[2], e2)
      BY <1>1, <1>2, <3>1, <3>2 DEF EntriesOk
    <3>4. own[e1.to].l = 2 /\ own[e1.to].r = root /\ own[e1.to].a = va[1]
      BY <3>1 DEF Lab
    <3> HIDE DEF e2
    <3>5. ~e2.p \/ Leads(e2, own, Lab(3, root, va[1], va[2], 0, 0))
      BY <3>3, <3>4 DEF EntryOk, Plain, Onward, Child
    <3>6. CASE ~e2.p
      <4>1. e3 = Zero
        BY <3>6 DEF Below
      <4> QED BY <1>5, <1>6, <4>1 DEF f, m
    <3>7. CASE Leads(e2, own, Lab(3, root, va[1], va[2], 0, 0))
      <4>1. e2.p /\ e2.to \in Frames /\ own[e2.to] = Lab(3, root, va[1], va[2], 0, 0)
        BY <3>7 DEF Leads
      <4>2. e3 = m[e2.to][va[3]]
        BY <4>1 DEF Below
      <4>3. EntryOk(m, own, own[e2.to], va[3], e3)
        BY <1>1, <1>2, <4>1, <4>2 DEF EntriesOk
      <4>4. /\ own[e2.to].l = 3 /\ own[e2.to].r = root /\ own[e2.to].a = va[1]
            /\ own[e2.to].b = va[2]
        BY <4>1 DEF Lab
      <4>5. ~e3.p \/ Leads(e3, own, Lab(4, root, va[1], va[2], va[3], 0))
        <5> HIDE DEF e3
        <5> QED BY <1>12, <4>3, <4>4 DEF EntryOk, Plain, Onward, Child
      <4>6. CASE ~e3.p
        <5>1. ~e3.h
          <6>1. k.mem \in Mems
            BY StateParts DEF Fine
          <6>2. m[e2.to] \in [Index -> GoodWord]
            BY <4>1, <6>1 DEF Mems, m
          <6>3. e3 \in GoodWord
            BY <1>2, <4>2, <6>2
          <6> QED BY <4>6, <6>3, GoodWords
        <5> QED BY <1>6, <4>6, <5>1 DEF f, m
      <4>7. CASE Leads(e3, own, Lab(4, root, va[1], va[2], va[3], 0))
        <5>1. /\ ~e3.h /\ own[e3.to] = Lab(4, root, va[1], va[2], va[3], 0)
              /\ EntryOk(m, own, own[e3.to], va[4], e4)
          BY <1>10, <4>7
        <5>2. /\ own[e3.to].l = 4 /\ own[e3.to].a = va[1] /\ own[e3.to].b = va[2]
              /\ own[e3.to].c = va[3] /\ own[e3.to].r = root
          BY <5>1 DEF Lab
        <5> HIDE DEF e4, e3
        <5>3. ~e4.p \/ Leads(e4, own, Child(own[e3.to], va[4]))
          BY <1>12, <5>1, <5>2 DEF EntryOk, Plain, Onward
        <5>4. Child(own[e3.to], va[4]) = Leaf(root, va)
          BY <5>2 DEF Child, Leaf
        <5> QED BY <1>7, <1>8, <5>1, <5>3, <5>4 DEF f, m, e4, e3
      <4> QED BY <4>5, <4>6, <4>7
    <3> QED BY <3>5, <3>6, <3>7
  <2> QED BY <2>3, <2>4, <2>5
<1> QED BY <1>11, <1>12, PagesKinds DEF f, m

\* A frame that has no label is written to without the help of the kernel.
LEMMA PutNone ==
  ASSUME NEW k, NEW D, NEW own, Fine(k, D, own),
         NEW f \in Frames, own[f].l = 0, f \notin Image,
         NEW page \in [Index -> GoodWord]
  PROVE  LET r == [k EXCEPT !.mem = [k.mem EXCEPT ![f] = page]]
         IN  /\ Fine(r, D, own) /\ Step(k, own, r, own, {})
             /\ r.dropped = k.dropped
<1> DEFINE m == [k.mem EXCEPT ![f] = page]
           r == [k EXCEPT !.mem = m]
<1>2. Typed(k) /\ own \in [Frames -> Labels] /\ Owners(own, k.used, D)
      /\ LinkFree(k.used, D)
  BY DEF Fine, Sound
<1>3. m \in Mems /\ m[f] = page /\ \A g \in Frames \ {f} : m[g] = k.mem[g]
  BY <1>2, StateParts, MemPutPage
<1> HIDE DEF m
<1>4. TStep(k, r) /\ r.mem = m /\ r.used = k.used /\ r.dropped = k.dropped
  BY <1>2, <1>3, NewMem
<1> HIDE DEF r
<1>5. Step(k, own, r, own, {})
  BY <1>3, <1>4 DEF Step
<1>6. \A g \in Image : r.mem[g] = k.mem[g]
  BY <1>3, <1>4, KernelFrames
<1>7. \A t \in Frames, i \in Index :
        own[t].l \in {1, 2, 3, 4, 6} => own[t] = own[t] /\ r.mem[t][i] = k.mem[t][i]
  BY <1>3, <1>4
<1>8. Fine(r, D, own)
  BY <1>2, <1>4, <1>5, <1>6, <1>7, FineKept
<1> QED BY <1>4, <1>5, <1>8 DEF r, m

\* After a call the process still has what it had and what the call gave it.
LEMMA StillHolds ==
  ASSUME NEW k, NEW own, NEW r, NEW D, NEW own2, NEW X, X \subseteq Leaves,
         Change(k, own, r, D, own2, X), NEW root, NEW g, Holds(k, own, root, g),
         NEW g2, DOMAIN g2 \subseteq Pages,
         \A va \in DOMAIN g2 :
           \/ va \in DOMAIN g /\ g2[va] = g[va] /\ Leaf(root, va) \notin X
           \/ Has(r, own2, root, va, g2[va])
  PROVE  Holds(r, own2, root, g2)
<1>1. Whole(k.mem, own, root)
  BY DEF Holds
<1>2. Whole(r.mem, own2, root)
  BY <1>1, WholeChange
<1>3. ASSUME NEW va \in DOMAIN g2 PROVE Has(r, own2, root, va, g2[va])
  <2>1. CASE va \in DOMAIN g /\ g2[va] = g[va] /\ Leaf(root, va) \notin X
    <3>1. Has(k, own, root, va, g2[va]) /\ va \in Pages /\ Leaf(root, va) \notin X
      BY <2>1 DEF Holds
    <3> QED BY <1>1, <3>1, HasKept
  <2> QED BY <2>1
<1> QED BY <1>2, <1>3 DEF Holds

\* A call of the running process, which changes pages of its own only.
LEMMA CallBuilt ==
  ASSUME TypeInv, HeapBelow, cur \in Procs, NEW own, Built(own), NEW own2, NEW X,
         X \subseteq LeavesOf(pml4[cur]), Change(K, own, K', dma, own2, X),
         UNCHANGED <<dma, cur, live, pml4>>,
         \A p \in Procs \ {cur} : expected'[p] = expected[p],
         Holds(K', own2, pml4[cur], expected'[cur])
  PROVE  Built(own2)'
<1>1. own2 \in [Frames -> Labels] /\ Fine(K', dma', own2)
  BY DEF Change
<1>2. cur' # Boot
  BY CpuNames
<1>3. cur \in live /\ pml4[cur] \in Frames
  BY DEF TypeInv, CpuInv
<1>4. X \subseteq Leaves
  BY <1>3, LeavesThere
<1>5. ASSUME NEW p \in live' PROVE Holds(K', own2, pml4'[p], expected'[p])
  <2>1. p \in live /\ p \in Procs /\ pml4'[p] = pml4[p]
    BY DEF TypeInv, CpuInv
  <2>2. CASE p = cur
    BY <2>1, <2>2
  <2>3. CASE p # cur
    <3>1. pml4[p] # pml4[cur]
      BY <1>3, <2>1, <2>3 DEF TypeInv, CpuInv
    <3>2. DOMAIN expected[p] \subseteq Pages /\ expected'[p] = expected[p]
      BY <2>1, <2>3, SeenPages
    <3>3. \A va \in DOMAIN expected[p] : Leaf(pml4[p], va) \notin X
      BY <3>1, <3>2, OtherLeaves
    <3>4. Holds(K, own, pml4[p], expected[p])
      BY <2>1 DEF Built
    <3>5. Holds(K', own2, pml4[p], expected[p])
      BY <1>4, <3>2, <3>3, <3>4, HoldsKept
    <3> QED BY <2>1, <3>2, <3>5
  <2> QED BY <2>2, <2>3
<1> QED BY <1>1, <1>2, <1>5 DEF Built

\* A program writes to one of its pages: it changes that page, or a frame
\* nobody uses.
LEMMA StoreChange ==
  ASSUME NEW k, NEW D, NEW own \in [Frames -> Labels], Fine(k, D, own), NEW root,
         Whole(k.mem, own, root), NEW va \in Pages, NEW f, f = Walk(k.mem, root, va),
         f # NoFrame, NEW x, Has(k, own, root, va, x),
         NEW r, r = [k EXCEPT !.mem = [k.mem EXCEPT ![f] = Fill(2)]]
  PROVE  Change(k, own, r, D, own, {Leaf(root, va)}) /\ Has(r, own, root, va, 2)
<1>0. Fill(2) \in [Index -> GoodWord]
  BY FunctionsTyped
<1>1. CASE f \in Frames /\ own[f] = Leaf(root, va)
  <2>1. own[f].l = 5
    <3>1. Leaf(root, va).l = 5
      BY DEF Leaf, Lab
    <3> QED BY <1>1, <3>1
  <2>2. LeafPost(k, D, own, f, Fill(2), r)
    BY <1>0, <1>1, <2>1, WriteLeafPage
  <2>3. /\ Fine(r, D, own) /\ Step(k, own, r, own, {Leaf(root, va)})
        /\ r.mem[f] = Fill(2) /\ r.dropped = k.dropped
        /\ \A g \in Frames \ {f} : r.mem[g] = k.mem[g]
    BY <1>1, <2>2 DEF LeafPost
  <2>4. Change(k, own, r, D, own, {Leaf(root, va)})
    BY <2>3, ChangeIs
  <2>5. ASSUME <<root, va>> \notin r.dropped
        PROVE  MappedTo(r.mem, own, root, va, f)
    <3>1. PICK g : MappedTo(k.mem, own, root, va, g)
      BY <2>3, <2>5 DEF Has
    <3>2. g = f
      BY <3>1, MappedWalk
    <3>3. MappedTo(k.mem, own, root, va, f)
      BY <3>1, <3>2
    <3>4. PICK m2 : m2 = r.mem
      OBVIOUS
    <3>5. \A h \in Frames \ {f} : m2[h] = k.mem[h]
      BY <2>3, <3>4
    <3>6. MappedTo(m2, own, root, va, f)
      BY <2>1, <3>3, <3>5, MappedSame
    <3> QED BY <3>4, <3>6
  <2>6. Has(r, own, root, va, 2)
    BY <2>3, <2>5 DEF Has
  <2> QED BY <2>4, <2>6
<1>2. CASE f \in LinkFrames /\ f \in Frames /\ own[f].l = 0 /\ f \notin Image
  <2>1. Fine(r, D, own) /\ Step(k, own, r, own, {}) /\ r.dropped = k.dropped
    BY <1>0, <1>2, PutNone
  <2>2. Change(k, own, r, D, own, {Leaf(root, va)})
    <3>1. {} \subseteq {Leaf(root, va)}
      OBVIOUS
    <3>2. PICK y : y = r
      OBVIOUS
    <3>3. Fine(y, D, own) /\ Step(k, own, y, own, {}) /\ y.dropped = k.dropped
      BY <2>1, <3>2
    <3>4. Change(k, own, y, D, own, {Leaf(root, va)})
      BY <3>1, <3>3, ChangeIs
    <3> QED BY <3>2, <3>4
  <2>3. <<root, va>> \in r.dropped
    <3> SUFFICES ASSUME <<root, va>> \notin k.dropped PROVE FALSE
      BY <2>1
    <3>1. PICK g : MappedTo(k.mem, own, root, va, g)
      BY DEF Has
    <3>2. g = f /\ own[g].l = 5
      BY <3>1, MappedWalk
    <3> QED BY <1>2, <3>2
  <2>4. Has(r, own, root, va, 2)
    BY <2>3 DEF Has
  <2> QED BY <2>2, <2>4
<1> QED BY <1>1, <1>2, UserWalk

\* A program writes to its memory.
LEMMA AddressStore == ASSUME AddressInv, NEW va \in Pages, Store(va) PROVE AddressInv'
<1> DEFINE root == pml4[cur]
           f == Walk(mem, cr3, va)
           k == [K EXCEPT !.mem = [mem EXCEPT ![f] = Fill(2)]]
<1>1. /\ cur \in Procs /\ va \in DOMAIN expected[cur] /\ f # NoFrame
      /\ mem' = [mem EXCEPT ![f] = Fill(2)]
      /\ expected' = [expected EXCEPT ![cur][va] = 2]
      /\ UNCHANGED <<used, cr3, fault, dropped, dma, ports, cur, live, pml4,
                     heap_end>>
  BY DEF Store
<1>2. TypeInv /\ TypeInv' /\ HeapBelow
  BY TypeStore DEF AddressInv
<1>3. cur \in live /\ cr3 = root /\ K.mem = mem
  BY <1>1, <1>2 DEF TypeInv, CpuInv, K
<1>4. K' = k
  BY <1>1 DEF K
<1>5. PICK q : q = f
  OBVIOUS
<1>6. q = Walk(K.mem, root, va) /\ q # NoFrame
      /\ K' = [K EXCEPT !.mem = [K.mem EXCEPT ![q] = Fill(2)]]
  BY <1>1, <1>3, <1>4, <1>5
<1> HIDE DEF f, k
<1>7. /\ DOMAIN expected'[cur] = DOMAIN expected[cur] /\ expected'[cur][va] = 2
      /\ \A vb \in DOMAIN expected[cur] \ {va} : expected'[cur][vb] = expected[cur][vb]
      /\ \A p \in Procs \ {cur} : expected'[p] = expected[p]
  <2>1. expected' = [expected EXCEPT ![cur] = [expected[cur] EXCEPT ![va] = 2]]
    BY <1>1
  <2>2. cur \in DOMAIN expected /\ DOMAIN expected = Procs
    BY <1>1, <1>2 DEF TypeInv
  <2> QED BY <1>1, <2>1, <2>2
<1>8. HeapBelow'
  BY <1>1, <1>2, <1>7 DEF HeapBelow
<1>9. ASSUME LinkFree(used', dma') PROVE \E own : Built(own)'
  <2>1. PICK own : Built(own)
    BY <1>1, <1>9 DEF AddressInv
  <2>2. own \in [Frames -> Labels] /\ Fine(K, dma, own) /\ Holds(K, own, root, expected[cur])
    BY <1>3, <2>1 DEF Built
  <2>3. Whole(K.mem, own, root) /\ Has(K, own, root, va, expected[cur][va])
    BY <1>1, <2>2 DEF Holds
  <2>4. Change(K, own, K', dma, own, {Leaf(root, va)}) /\ Has(K', own, root, va, 2)
    BY <1>6, <2>2, <2>3, StoreChange
  <2>5. DOMAIN expected[cur] \subseteq Pages /\ root \in Frames
    BY <1>1, <1>2, SeenPages DEF TypeInv
  <2>6. {Leaf(root, va)} \subseteq LeavesOf(root) /\ {Leaf(root, va)} \subseteq Leaves
    BY <2>5, LeavesThere
  <2>7. ASSUME NEW vb \in DOMAIN expected[cur], vb # va
        PROVE  Leaf(root, vb) \notin {Leaf(root, va)}
    <3>1. vb \in VA /\ va \in VA
      BY <2>5, MappingVA
    <3> QED BY <2>7, <3>1, LeafUnique
  <2>8. Holds(K', own, root, expected'[cur])
    <3> HIDE DEF root
    <3>1. ASSUME NEW vb \in DOMAIN expected'[cur]
          PROVE  \/ /\ vb \in DOMAIN expected[cur] /\ expected'[cur][vb] = expected[cur][vb]
                    /\ Leaf(root, vb) \notin {Leaf(root, va)}
                 \/ Has(K', own, root, vb, expected'[cur][vb])
      BY <1>7, <2>4, <2>7
    <3>2. DOMAIN expected'[cur] \subseteq Pages
      BY <1>7, <2>5
    <3> QED BY <2>2, <2>4, <2>6, <3>1, <3>2, StillHolds
  <2>9. Built(own)'
    BY <1>1, <1>2, <1>7, <2>1, <2>4, <2>6, <2>8, CallBuilt
  <2> QED BY <2>9
<1> QED BY <1>2, <1>8, <1>9 DEF AddressInv

\* What a process has of its heap is below the break.
LEMMA BelowBreak ==
  ASSUME TypeInv, HeapBelow, NEW p \in Procs, NEW va \in DOMAIN expected[p], NEW root,
         NEW n \in Int, n >= PageEnd(heap_end[p])
  PROVE  Leaf(root, va) \notin HeapFrom(root, n)
<1> SUFFICES ASSUME NEW j \in HeapPages, j >= n, Leaf(root, va) = Leaf(root, HeapPage(j))
             PROVE  FALSE
  BY DEF HeapFrom
<1>1. va \in VA /\ HeapPage(j) \in VA
  BY SeenPages, MappingVA
<1>2. va = HeapPage(j)
  BY <1>1, LeafUnique
<1>3. j < PageEnd(heap_end[p])
  BY <1>2 DEF HeapBelow
<1>4. j \in Int /\ PageEnd(heap_end[p]) \in Int
  <2>1. heap_end[p] \in Breaks
    BY DEF TypeInv
  <2> QED BY <2>1, PageEnds DEF HeapPages
<1> QED BY <1>3, <1>4

\* A heap grows.
LEMMA AddressGrows ==
  ASSUME AddressInv, NEW new \in Breaks, BrkGrows(new)
  PROVE  AddressInv'
<1> DEFINE root == pml4[cur]
           from == PageEnd(heap_end[cur])
           to == PageEnd(new)
           fresh == {HeapPage(n) : n \in from .. to - 1}
           r == Grow(K, root, from, to)
           g == [va \in DOMAIN expected[cur] \union fresh |->
                   IF va \in fresh THEN Unseen ELSE expected[cur][va]]
           X == HeapFrom(root, from)
<1>1. /\ cur \in Procs /\ from <= to /\ Becomes(r.k)
      /\ heap_end' = IF r.ok THEN [heap_end EXCEPT ![cur] = new] ELSE heap_end
      /\ expected' = IF r.ok THEN [expected EXCEPT ![cur] = g] ELSE expected
      /\ UNCHANGED <<cr3, dma, ports, cur, live, pml4, wrapped>>
  BY DEF BrkGrows
<1>2. TypeInv /\ TypeInv' /\ HeapBelow
  BY TypeGrows DEF AddressInv
<1>3. heap_end[cur] \in Breaks /\ heap_end[cur] # LastBreak
  BY <1>1, <1>2 DEF TypeInv, HeapBelow
<1>4. /\ from \in Nat /\ to \in Nat /\ from <= to /\ new # LastBreak
      /\ \A n \in 0 .. to - 1 : n \in HeapPages
  <2>1. /\ from \in Int /\ to \in Int /\ from >= 0
        /\ to >= 0 <=> new # LastBreak
        /\ \A n \in 0 .. to - 1 : n \in HeapPages
    BY <1>3, PageEnds
  <2> HIDE DEF from, to
  <2> QED BY <1>1, <2>1
<1>5. PICK q : q = r
  OBVIOUS
<1>6. cur \in live /\ Typed(K) /\ root \in K.used /\ root \in Frames
  BY <1>1, <1>2 DEF TypeInv, CpuInv, K
<1>7. \A n \in from .. to - 1 : n \in HeapPages /\ HeapPage(n) \in Pages
  <2>1. \A n \in from .. to - 1 : n \in 0 .. to - 1
    BY <1>4
  <2> QED BY <1>4, <2>1, MappingVA
<1>8. \A va \in DOMAIN expected[cur] : Leaf(root, va) \notin X
  BY <1>1, <1>2, <1>4, BelowBreak
<1>9. from = PageEnd(heap_end[cur]) /\ to = PageEnd(new)
  OBVIOUS
<1> HIDE DEF from, to
<1>10. q = Grow(K, root, from, to)
  BY <1>5
<1> HIDE DEF r, X
<1>11. TStep(K, q.k) /\ q.ok \in BOOLEAN
  <2>1. \A n \in from .. to - 1 : HeapPage(n) \in VA
    BY <1>7, MappingVA
  <2> HIDE DEF root, fresh, g
  <2> QED BY <1>4, <1>6, <1>10, <2>1, GrowTypes
<1>12. /\ DOMAIN g = DOMAIN expected[cur] \union fresh
       /\ \A va \in fresh : g[va] = Unseen
       /\ \A va \in DOMAIN expected[cur] \ fresh : g[va] = expected[cur][va]
  OBVIOUS
<1>13. /\ fresh \subseteq Pages
       /\ \A va \in fresh : \E n \in from .. to - 1 : va = HeapPage(n)
  BY <1>7
<1> HIDE DEF fresh, g
<1>14. /\ expected'[cur] = IF q.ok THEN g ELSE expected[cur]
       /\ heap_end'[cur] = IF q.ok THEN new ELSE heap_end[cur]
       /\ \A p \in Procs \ {cur} : expected'[p] = expected[p] /\ heap_end'[p] = heap_end[p]
  BY <1>1, <1>2, <1>5 DEF TypeInv
<1>15. HeapBelow'
  <2>1. DOMAIN expected[cur] \subseteq Pages
    BY <1>1, <1>2, SeenPages
  <2>2. heap_end'[cur] # LastBreak /\ DOMAIN expected'[cur] \subseteq Pages
    BY <1>3, <1>4, <1>12, <1>13, <1>14, <2>1
  <2> SUFFICES ASSUME NEW n \in HeapPages, HeapPage(n) \in DOMAIN expected'[cur]
               PROVE  n < PageEnd(heap_end'[cur])
    BY <1>1, <1>2, <1>14, <2>2, BelowKept
  <2>3. CASE ~q.ok
    BY <1>1, <1>2, <1>14, <2>3 DEF HeapBelow
  <2>4. CASE q.ok
    <3>1. PageEnd(heap_end'[cur]) = to /\ n \in Int
      BY <1>9, <1>14, <2>4 DEF HeapPages
    <3>2. CASE HeapPage(n) \in DOMAIN expected[cur]
      <4>1. n < from
        BY <1>1, <1>2, <1>9, <3>2 DEF HeapBelow
      <4> QED BY <1>4, <3>1, <4>1
    <3>3. CASE HeapPage(n) \in fresh
      <4>1. PICK j \in from .. to - 1 : HeapPage(n) = HeapPage(j)
        BY <1>13, <3>3
      <4>2. n = j
        BY <1>7, <4>1, HeapPageUnique
      <4> QED BY <1>4, <3>1, <4>2
    <3> QED BY <1>12, <1>14, <2>4, <3>2, <3>3
  <2> QED BY <2>3, <2>4
<1>16. ASSUME LinkFree(used', dma') PROVE \E own : Built(own)'
  <2>1. K' = q.k /\ used' = q.k.used /\ used \subseteq used'
    <3>1. cr3' \in Frames /\ Becomes(q.k)
      BY <1>1, <1>2, <1>5, StateParts DEF TypeInv, K
    <3> QED BY <1>1, <1>2, <1>11, <3>1, AfterCall DEF Becomes
  <2>2. LinkFree(used, dma) /\ LinkFree(q.k.used, dma)
    <3>1. dma \subseteq dma'
      BY <1>1
    <3> QED BY <1>1, <1>16, <2>1, <3>1, LinkFreeLess
  <2>3. PICK own : Built(own)
    BY <2>2 DEF AddressInv
  <2>4. own \in [Frames -> Labels] /\ Fine(K, dma, own) /\ Holds(K, own, root, expected[cur])
    BY <1>6, <2>3 DEF Built
  <2>5. Whole(K.mem, own, root)
    BY <2>4 DEF Holds
  <2>6. PICK own2 :
          /\ Change(K, own, q.k, dma, own2, X)
          /\ q.ok => \A n \in from .. to - 1 : Has(q.k, own2, root, HeapPage(n), Unseen)
    <3> HIDE DEF root
    <3>1. \E own2 :
            /\ Change(K, own, q.k, dma, own2, HeapFrom(root, from))
            /\ q.ok => \A n \in from .. to - 1 : Has(q.k, own2, root, HeapPage(n), Unseen)
      BY <1>4, <1>10, <2>2, <2>4, <2>5, GrowSounds
    <3> QED BY <3>1 DEF X
  <2>7. X \subseteq LeavesOf(root) /\ X \subseteq Leaves
    BY <1>6, LeavesThere DEF X
  <2> HIDE DEF root
  <2>8. DOMAIN expected[cur] \subseteq Pages
    BY <1>1, <1>2, SeenPages
  <2>9. Holds(q.k, own2, root, expected'[cur])
    <3>1. DOMAIN expected'[cur] \subseteq Pages
      BY <1>12, <1>13, <1>14, <2>8
    <3>2. ASSUME NEW va \in DOMAIN expected'[cur]
          PROVE  \/ /\ va \in DOMAIN expected[cur] /\ expected'[cur][va] = expected[cur][va]
                    /\ Leaf(root, va) \notin X
                 \/ Has(q.k, own2, root, va, expected'[cur][va])
      <4>1. CASE q.ok /\ va \in fresh
        <5>1. PICK n \in from .. to - 1 : va = HeapPage(n)
          BY <1>13, <4>1
        <5>2. Has(q.k, own2, root, va, Unseen)
          BY <2>6, <4>1, <5>1
        <5> QED BY <1>12, <1>14, <4>1, <5>2
      <4>2. CASE q.ok /\ va \notin fresh
        BY <1>8, <1>12, <1>14, <4>2
      <4>3. CASE ~q.ok
        BY <1>8, <1>14, <4>3
      <4> QED BY <4>1, <4>2, <4>3
    <3> QED BY <2>4, <2>6, <2>7, <3>1, <3>2, StillHolds
  <2>10. Built(own2)'
    <3>1. Change(K, own, K', dma, own2, X) /\ Holds(K', own2, pml4[cur], expected'[cur])
      BY <2>1, <2>6, <2>9 DEF root
    <3>2. X \subseteq LeavesOf(pml4[cur])
      BY <2>7 DEF root
    <3> QED BY <1>1, <1>2, <1>14, <2>3, <3>1, <3>2, CallBuilt
  <2> QED BY <2>10
<1> QED BY <1>2, <1>15, <1>16 DEF AddressInv

\* A heap shrinks.
LEMMA AddressShrinks ==
  ASSUME AddressInv, NEW new \in Breaks, BrkShrinks(new)
  PROVE  AddressInv'
<1> DEFINE root == pml4[cur]
           from == PageEnd(heap_end[cur])
           to == PageEnd(new)
           gone == {HeapPage(n) : n \in to .. from - 1}
           k == Shrink(K, root, from, to)
           g == [va \in DOMAIN expected[cur] \ gone |-> expected[cur][va]]
           X == HeapFrom(root, to)
<1>1. /\ cur \in Procs /\ 0 <= to /\ to < from /\ Becomes(k)
      /\ heap_end' = [heap_end EXCEPT ![cur] = new]
      /\ expected' = [expected EXCEPT ![cur] = g]
      /\ UNCHANGED <<cr3, dma, ports, cur, live, pml4, wrapped>>
  BY DEF BrkShrinks
<1>2. TypeInv /\ TypeInv' /\ HeapBelow
  BY TypeShrinks DEF AddressInv
<1>3. heap_end[cur] \in Breaks
  BY <1>1, <1>2 DEF TypeInv
<1>4. /\ from \in Nat /\ to \in Nat /\ to <= from /\ new # LastBreak
      /\ \A n \in 0 .. from - 1 : n \in HeapPages
      /\ \A n \in to .. from - 1 : HeapPage(n) \in VA
  <2>1. /\ from \in Int /\ to \in Int
        /\ to >= 0 <=> new # LastBreak
        /\ \A n \in 0 .. from - 1 : n \in HeapPages
        /\ \A n \in to .. from - 1 : HeapPage(n) \in VA
    BY <1>3, PageEnds, BetweenEnds
  <2> HIDE DEF from, to
  <2> QED BY <1>1, <2>1
<1>5. cur \in live /\ Typed(K) /\ root \in K.used /\ root \in Frames
  BY <1>1, <1>2 DEF TypeInv, CpuInv, K
<1>6. from = PageEnd(heap_end[cur]) /\ to = PageEnd(new)
  OBVIOUS
<1> HIDE DEF from, to
<1>7. PICK q : q = k
  OBVIOUS
<1>8. q = Shrink(K, root, from, to)
  BY <1>7
<1>9. TStep(K, q)
  <2> HIDE DEF root, k
  <2>1. /\ Typed(K) /\ root \in Frames /\ from \in Int /\ to \in Int /\ to <= from
        /\ \A n \in to .. from - 1 : HeapPage(n) \in VA
    BY <1>4, <1>5
  <2>2. TStep(K, Shrink(K, root, from, to))
    BY <2>1, ShrinkTypes
  <2> QED BY <1>8, <2>2
<1> HIDE DEF k
<1>10. /\ DOMAIN g = DOMAIN expected[cur] \ gone
       /\ \A va \in DOMAIN expected[cur] \ gone : g[va] = expected[cur][va]
  OBVIOUS
<1> HIDE DEF g
<1>11. /\ expected'[cur] = g /\ heap_end'[cur] = new
       /\ \A p \in Procs \ {cur} : expected'[p] = expected[p] /\ heap_end'[p] = heap_end[p]
  BY <1>1, <1>2 DEF TypeInv
<1>12. ASSUME NEW n \in HeapPages, HeapPage(n) \in DOMAIN g PROVE n < to
  <2>1. n < from /\ n \in Int
    BY <1>1, <1>2, <1>6, <1>10, <1>12 DEF HeapBelow, HeapPages
  <2>2. n \notin to .. from - 1
    BY <1>10, <1>12
  <2> QED BY <1>4, <2>1, <2>2
<1>13. HeapBelow'
  <2>1. DOMAIN expected'[cur] \subseteq Pages
    BY <1>1, <1>2, <1>10, <1>11, SeenPages
  <2> QED BY <1>1, <1>2, <1>4, <1>6, <1>11, <1>12, <2>1, BelowKept
<1> HIDE DEF gone
<1>14. ASSUME LinkFree(used', dma') PROVE \E own : Built(own)'
  <2>1. K' = q /\ used' = q.used /\ used \subseteq used'
    <3>1. cr3' \in Frames /\ Becomes(q)
      BY <1>1, <1>2, <1>7, StateParts DEF TypeInv, K
    <3> QED BY <1>1, <1>2, <1>9, <3>1, AfterCall DEF Becomes
  <2>2. LinkFree(used, dma)
    <3>1. dma \subseteq dma'
      BY <1>1
    <3> QED BY <1>14, <2>1, <3>1, LinkFreeLess
  <2>3. PICK own : Built(own)
    BY <2>2 DEF AddressInv
  <2>4. own \in [Frames -> Labels] /\ Fine(K, dma, own) /\ Holds(K, own, root, expected[cur])
    BY <1>5, <2>3 DEF Built
  <2>5. Whole(K.mem, own, root)
    BY <2>4 DEF Holds
  <2>6. Change(K, own, q, dma, own, X)
    <3> HIDE DEF root
    <3>1. Change(K, own, Shrink(K, root, from, to), dma, own, HeapFrom(root, to))
      BY <1>4, <2>4, <2>5, ShrinkSounds
    <3> QED BY <1>8, <3>1
  <2> HIDE DEF X
  <2>7. X \subseteq LeavesOf(root) /\ X \subseteq Leaves
    BY <1>5, LeavesThere DEF X
  <2>8. DOMAIN g \subseteq Pages
    BY <1>1, <1>2, <1>10, SeenPages
  <2>9. ASSUME NEW va \in DOMAIN g PROVE Leaf(root, va) \notin X
    <3> SUFFICES ASSUME NEW j \in HeapPages, j >= to, Leaf(root, va) = Leaf(root, HeapPage(j))
                 PROVE  FALSE
      BY DEF X, HeapFrom
    <3> HIDE DEF root
    <3>1. va \in VA /\ HeapPage(j) \in VA
      BY <2>8, MappingVA
    <3>2. va = HeapPage(j)
      BY <3>1, LeafUnique
    <3>3. j < to /\ j \in Int
      BY <1>12, <3>2 DEF HeapPages
    <3> QED BY <1>4, <3>3
  <2> HIDE DEF root
  <2>10. Holds(q, own, root, expected'[cur])
    <3>1. \A va \in DOMAIN g :
            va \in DOMAIN expected[cur] /\ g[va] = expected[cur][va] /\ Leaf(root, va) \notin X
      BY <1>10, <2>9
    <3>2. Holds(q, own, root, g)
      BY <2>4, <2>6, <2>7, <2>8, <3>1, StillHolds
    <3> QED BY <1>11, <3>2
  <2>11. Built(own)'
    <3>1. Change(K, own, K', dma, own, X) /\ Holds(K', own, pml4[cur], expected'[cur])
      BY <2>1, <2>6, <2>10 DEF root
    <3>2. X \subseteq LeavesOf(pml4[cur])
      BY <2>7 DEF root
    <3> QED BY <1>1, <1>2, <1>11, <2>3, <3>1, <3>2, CallBuilt
  <2> QED BY <2>11
<1> QED BY <1>2, <1>13, <1>14 DEF AddressInv

\* Every step keeps the address spaces as the kernel has built them, but for a
\* break that wraps.
LEMMA AddressStep == AddressInv /\ [Next]_vars /\ ~wrapped' => AddressInv'
<1> SUFFICES ASSUME AddressInv, [Next]_vars, ~wrapped' PROVE AddressInv'
  OBVIOUS
<1>1. CASE UNCHANGED vars
  BY <1>1, AddressStutter
<1>2. CASE ahci_find_controller
  BY <1>2, AddressController
<1>3. CASE ahci_port_init
  BY <1>3, AddressPort
<1>4. ASSUME NEW s \in Procs, NEW n \in 0 .. ImagePages, NEW bad \in BOOLEAN,
             Spawn(s, n, bad)
      PROVE  AddressInv'
  BY <1>4, AddressSpawn
<1>5. ASSUME NEW p \in Procs, Switch(p) PROVE AddressInv'
  BY <1>5, AddressSwitch
<1>6. CASE Exit
  BY <1>6, AddressExit
<1>7. ASSUME NEW va \in Pages, Store(va) PROVE AddressInv'
  BY <1>7, AddressStore
<1>8. ASSUME NEW new \in Breaks, BrkGrows(new) PROVE AddressInv'
  BY <1>8, AddressGrows
<1>9. ASSUME NEW new \in Breaks, BrkShrinks(new) PROVE AddressInv'
  BY <1>9, AddressShrinks
<1>10. ASSUME NEW new \in Breaks PROVE ~BrkWraps(new)
  BY DEF BrkWraps
<1> QED BY <1>1, <1>2, <1>3, <1>4, <1>5, <1>6, <1>7, <1>8, <1>9, <1>10 DEF Next

\* A break that has wrapped stays so.
LEMMA WrappedStays == [Next]_vars /\ ~wrapped' => ~wrapped
<1> SUFFICES ASSUME [Next]_vars, ~wrapped' PROVE ~wrapped
  OBVIOUS
<1>1. CASE UNCHANGED vars
  BY <1>1 DEF vars
<1>2. CASE ahci_find_controller
  BY <1>2 DEF ahci_find_controller
<1>3. CASE ahci_port_init
  BY <1>3 DEF ahci_port_init
<1>4. ASSUME NEW s \in Procs, NEW n \in 0 .. ImagePages, NEW bad \in BOOLEAN,
             Spawn(s, n, bad)
      PROVE  ~wrapped
  BY <1>4 DEF Spawn
<1>5. ASSUME NEW p \in Procs, Switch(p) PROVE ~wrapped
  BY <1>5 DEF Switch
<1>6. CASE Exit
  BY <1>6 DEF Exit
<1>7. ASSUME NEW va \in Pages, Store(va) PROVE ~wrapped
  BY <1>7 DEF Store
<1>8. ASSUME NEW new \in Breaks, BrkGrows(new) \/ BrkShrinks(new) PROVE ~wrapped
  BY <1>8 DEF BrkGrows, BrkShrinks
<1>9. ASSUME NEW new \in Breaks PROVE ~BrkWraps(new)
  BY DEF BrkWraps
<1> QED BY <1>1, <1>2, <1>3, <1>4, <1>5, <1>6, <1>7, <1>8, <1>9 DEF Next

\* The invariant of the address spaces, until a break wraps.
KeptInv == ~wrapped => AddressInv

\* It holds always.
LEMMA AddressAlways == Spec => []KeptInv
<1>1. Init => KeptInv
  BY AddressInit DEF KeptInv
<1>2. KeptInv /\ [Next]_vars => KeptInv'
  BY AddressStep, WrappedStays DEF KeptInv
<1> QED BY <1>1, <1>2, PTL DEF Spec
-----------------------------------------------------------------------------
(* What follows from the invariant.                                        *)

\* A frame an entry of a table leads to is a table of the next level, or one
\* of the page tables of the kernel.
LEMMA NextTable ==
  ASSUME NEW k, NEW D, NEW own, Fine(k, D, own), NEW t \in Frames, NEW i \in Index,
         own[t].l \in 1 .. 3, NEW x \in Frames, k.mem[t][i] = Entry(x)
  PROVE  own[x].l = own[t].l + 1 \/ (own[t].l = 3 /\ own[x].l = 6)
<1> DEFINE y == own[t]
           e == k.mem[t][i]
<1>1. EntryOk(k.mem, own, y, i, e) /\ KernelPds(k.mem, own, D) /\ y \in Labels
  BY DEF Fine, Sound, EntriesOk
<1>2. e.p /\ ~e.h /\ e.to = x
  BY DEF Entry
<1>3. CASE Leads(e, own, Child(y, i))
  <2>1. own[x] = Child(y, i)
    BY <1>2, <1>3 DEF Leads
  <2>2. Child(y, i).l = y.l + 1
    <3>1. CASE y.l = 1
      BY <3>1 DEF Child, Lab
    <3>2. CASE y.l = 2
      BY <3>2 DEF Child, Lab
    <3>3. CASE y.l = 3
      BY <3>3 DEF Child, Lab
    <3> QED BY <3>1, <3>2, <3>3
  <2> QED BY <2>1, <2>2
<1>4. CASE Plain(k.mem, y, i, e)
  <2> HIDE DEF e
  <2>1. y.l = 3 /\ y.a = 0 /\ e = k.mem[kernel_pd(y.b)][i]
    BY <1>2, <1>4 DEF Plain
  <2>2. y.b \in 0 .. NPD - 1
    BY <1>1, <2>1 DEF Labels
  <2>3. e = Huge(Nth(y.b, i, 0)) \/ Leads(e, own, Shared(y.b, i))
    BY <1>1, <2>1, <2>2 DEF KernelPds
  <2>4. Leads(e, own, Shared(y.b, i))
    BY <1>2, <2>3 DEF Huge
  <2>5. Shared(y.b, i).l = 6
    BY DEF Shared, Lab
  <2>6. own[x].l = 6
    BY <1>2, <2>4, <2>5 DEF Leads
  <2> QED BY <2>1, <2>6
<1> QED BY <1>1, <1>3, <1>4 DEF EntryOk, Onward

\* One level more of the tables.
LEMMA NextTables ==
  ASSUME NEW own, Fine(K, dma, own), NEW n \in 1 .. 3, NEW S,
         \A x \in S : x \in Frames /\ own[x].l \in 1 .. n,
         NEW t \in S \union Kids(S)
  PROVE  t \in Frames /\ (own[t].l \in 1 .. n + 1 \/ (n = 3 /\ own[t].l = 6))
<1>1. CASE t \in S
  <2>1. t \in Frames /\ own[t].l \in 1 .. n
    BY <1>1
  <2> QED BY <2>1
<1>2. CASE t \in Kids(S)
  <2>1. PICK w \in {mem[f][i] : f \in S, i \in Index} \intersect {Entry(f) : f \in Frames} :
          t = w.to
    BY <1>2 DEF Kids
  <2>2. PICK g \in Frames : w = Entry(g)
    BY <2>1
  <2>3. t = g
    BY <2>1, <2>2 DEF Entry
  <2>4. PICK f \in S, i \in Index : mem[f][i] = Entry(t)
    BY <2>1, <2>2, <2>3
  <2>5. f \in Frames /\ own[f].l \in 1 .. n /\ own[f].l \in 1 .. 3 /\ K.mem = mem
    BY <2>4 DEF K
  <2>6. own[t].l = own[f].l + 1 \/ (own[f].l = 3 /\ own[t].l = 6)
    BY <2>2, <2>3, <2>4, <2>5, NextTable
  <2> QED BY <2>2, <2>3, <2>5, <2>6
<1> QED BY <1>1, <1>2

\* The tables below a root have the labels of tables.
LEMMA TablesLabels ==
  ASSUME NEW own, Fine(K, dma, own), NEW root \in Frames, own[root].l = 1,
         NEW t \in Tables(root)
  PROVE  t \in Frames /\ own[t].l \in {1, 2, 3, 4, 6}
<1> DEFINE S1 == {root}
           S2 == S1 \union Kids(S1)
           S3 == S2 \union Kids(S2)
           S4 == S3 \union Kids(S3)
<1>1. t \in S4
  BY DEF Tables
<1> HIDE DEF S4
<1>2. \A x \in S1 : x \in Frames /\ own[x].l \in 1 .. 1
  OBVIOUS
<1> HIDE DEF S1
<1>3. \A x \in S2 : x \in Frames /\ own[x].l \in 1 .. 1 + 1
  BY <1>2, NextTables
<1> HIDE DEF S2
<1>4. \A x \in S3 : x \in Frames /\ own[x].l \in 1 .. 2 + 1
  BY <1>3, NextTables
<1> HIDE DEF S3
<1>5. t \in Frames /\ (own[t].l \in 1 .. 3 + 1 \/ own[t].l = 6)
  BY <1>1, <1>4, NextTables DEF S4
<1> QED BY <1>5

\* What the kernel reaches by pointers is not where programs are linked, and
\* is no page of a program.
LEMMA KernelKinds ==
  ASSUME TypeInv, NEW own, Built(own), NEW f \in KernelOwned
  PROVE  f \in Frames /\ f \notin LinkFrames /\ own[f].l # 5
<1>1. /\ Fine(K, dma, own) /\ Typed(K) /\ LinkFree(used, dma) /\ K.used = used
      /\ Owners(own, used, dma)
  BY DEF Built, Fine, Sound, K
<1>2. CASE f \in Image \/ f \in dma
  <2>1. f \in Frames
    <3>1. Image \subseteq Frames /\ dma \subseteq used \union {MmioPage}
      BY Sizes, MemoryAssumption DEF TypeInv, Image, Frames
    <3>2. used \subseteq Frames /\ MmioPage \in Frames
      BY <1>1, StateParts, Sizes
    <3> QED BY <1>2, <3>1, <3>2
  <2>2. f \notin LinkFrames
    BY <1>1, <1>2, NotAtLink
  <2>3. own[f].l = 0
    BY <1>1, <1>2, <2>1 DEF Owners
  <2> QED BY <2>1, <2>2, <2>3
<1>3. ASSUME NEW p \in live, f \in Tables(pml4[p])
      PROVE  f \in Frames /\ f \notin LinkFrames /\ own[f].l # 5
  <2>1. Whole(K.mem, own, pml4[p])
    BY DEF Built, Holds
  <2>2. pml4[p] \in Frames /\ own[pml4[p]].l = 1
    BY <1>1, <2>1, WholeUsed
  <2>3. f \in Frames /\ own[f].l \in {1, 2, 3, 4, 6}
    BY <1>1, <1>3, <2>2, TablesLabels
  <2> QED BY <1>1, <2>3, Labelled
<1> QED BY <1>2, <1>3 DEF KernelOwned, Image

\* The page of a program that was not dropped.
LEMMA OwnedPage ==
  ASSUME TypeInv, HeapBelow, NEW own, Built(own), NEW p \in live, NEW va \in Owned(p)
  PROVE  LET f == Walk(mem, pml4[p], va)
         IN  /\ f \in Frames /\ own[f] = Leaf(pml4[p], va) /\ own[f].l = 5
             /\ expected[p][va] # Unseen => mem[f] = Fill(expected[p][va])
             /\ va \in VA
<1>1. va \in DOMAIN expected[p] /\ <<pml4[p], va>> \notin K.dropped /\ K.mem = mem
  BY DEF Owned, K
<1>2. Has(K, own, pml4[p], va, expected[p][va])
  BY <1>1 DEF Built, Holds
<1>3. PICK f : /\ MappedTo(mem, own, pml4[p], va, f)
               /\ expected[p][va] # Unseen => mem[f] = Fill(expected[p][va])
  BY <1>1, <1>2 DEF Has
<1>4. Walk(mem, pml4[p], va) = f /\ f \in Frames /\ own[f] = Leaf(pml4[p], va) /\ own[f].l = 5
  BY <1>3, MappedWalk
<1>5. va \in VA
  BY <1>1, SeenPages, MappingVA DEF TypeInv, CpuInv
<1> QED BY <1>3, <1>4, <1>5

\* In the address space of every process the kernel finds what it reaches by
\* its physical address.
LEMMA AddressReachable ==
  ASSUME AddressInv, LinkFree(used, dma) PROVE KernelReachable
<1>1. PICK own : Built(own)
  BY DEF AddressInv
<1>2. TypeInv /\ EntriesOk(mem, own) /\ KernelPds(mem, own, dma)
  BY <1>1 DEF AddressInv, Built, Fine, Sound, K
<1> SUFFICES ASSUME NEW p \in live, NEW f \in KernelOwned
             PROVE  Walk(mem, pml4[p], Low(f)) = f
  BY DEF KernelReachable
<1>3. f \in Frames /\ f \notin LinkFrames
  BY <1>1, <1>2, KernelKinds
<1>4. Whole(mem, own, pml4[p])
  BY <1>1 DEF Built, Holds, K
<1> QED BY <1>2, <1>3, <1>4, WholeWalk

\* The programs keep what they have written.
LEMMA AddressKept ==
  ASSUME AddressInv, LinkFree(used, dma) PROVE MemoryKept
<1>1. PICK own : Built(own)
  BY DEF AddressInv
<1> SUFFICES ASSUME NEW p \in live, NEW va \in Owned(p)
             PROVE  LET f == Walk(mem, pml4[p], va)
                    IN  /\ f # NoFrame
                        /\ expected[p][va] # Unseen => mem[f] = Fill(expected[p][va])
  BY DEF MemoryKept
<1>2. NoFrame \notin Frames
  BY NoFrameIsNone
<1> QED BY <1>1, <1>2, OwnedPage DEF AddressInv

\* No two pages are one frame.
LEMMA AddressExclusive ==
  ASSUME AddressInv, LinkFree(used, dma) PROVE FramesExclusive
<1>1. PICK own : Built(own)
  BY DEF AddressInv
<1>2. TypeInv /\ HeapBelow /\ Owners(own, used, dma)
  BY <1>1 DEF AddressInv, Built, Fine, Sound, K
<1> SUFFICES ASSUME NEW p \in live, NEW va \in Owned(p)
             PROVE  LET f == Walk(mem, pml4[p], va)
                    IN  /\ f \in used \ KernelOwned
                        /\ \A q \in live : \A vb \in Owned(q) :
                             Walk(mem, pml4[q], vb) = f => p = q /\ va = vb
  BY DEF FramesExclusive
<1>3. PICK f : f = Walk(mem, pml4[p], va)
  OBVIOUS
<1>4. f \in Frames /\ own[f] = Leaf(pml4[p], va) /\ own[f].l = 5 /\ va \in VA
  BY <1>1, <1>2, <1>3, OwnedPage
<1>5. f \in used \ KernelOwned
  <2>1. f \notin KernelOwned
    BY <1>1, <1>2, <1>4, KernelKinds
  <2>2. own[f].l # 0
    BY <1>4
  <2> QED BY <1>2, <1>4, <2>1, <2>2 DEF Owners
<1>6. ASSUME NEW q \in live, NEW vb \in Owned(q), Walk(mem, pml4[q], vb) = f
      PROVE  p = q /\ va = vb
  <2>1. own[f] = Leaf(pml4[q], vb) /\ vb \in VA
    BY <1>1, <1>2, <1>6, OwnedPage
  <2>2. pml4[p] = pml4[q] /\ va = vb
    <3>1. PICK a, b : a = pml4[p] /\ b = pml4[q]
      OBVIOUS
    <3>2. va \in VA /\ vb \in VA /\ Leaf(a, va) = Leaf(b, vb)
      BY <1>4, <2>1, <3>1
    <3>3. a = b /\ va = vb
      BY <3>2, LeafUnique
    <3> QED BY <3>1, <3>3
  <2> QED BY <1>2, <2>2 DEF TypeInv, CpuInv
<1> QED BY <1>3, <1>5, <1>6

\* KernelReachable holds as long as no frame the kernel uses lies where
\* programs are linked: in the address space of every process the physical
\* address of a page table, of a stack, of a register or page of the disk
\* driver leads to it, whatever was mapped, split, copied or unmapped before,
\* unless a brk to the end of the address space has unmapped the kernel.
THEOREM KernelReached == Spec => [](LinkFree(used, dma) => KernelReachable)
<1>1. KeptInv => (LinkFree(used, dma) => KernelReachable)
  BY AddressReachable DEF KeptInv, KernelReachable
<1> QED BY <1>1, AddressAlways, PTL

\* MemoryKept holds as long: no loader, no brk of another process, no frame or
\* table given out by the allocator and no slot that is taken again changes
\* what a program has written.
THEOREM PagesKept == Spec => [](LinkFree(used, dma) => MemoryKept)
<1>1. KeptInv => (LinkFree(used, dma) => MemoryKept)
  BY AddressKept DEF KeptInv, MemoryKept
<1> QED BY <1>1, AddressAlways, PTL

\* FramesExclusive holds as long: every page of every program is a frame of its
\* own, which the allocator has given out and which is neither a table nor the
\* kernel's nor the disk driver's.
THEOREM OneUse == Spec => [](LinkFree(used, dma) => FramesExclusive)
<1>1. KeptInv => (LinkFree(used, dma) => FramesExclusive)
  BY AddressExclusive DEF KeptInv, FramesExclusive
<1> QED BY <1>1, AddressAlways, PTL
=============================================================================
