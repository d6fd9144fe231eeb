--------------------------- MODULE KeyboardProofs ---------------------------
(***************************************************************************)
(* The ring buffer of keyboard.c implements the bounded queue of TypeAhead *)
(* for every size of the buffer.  The invariant needed is only that head   *)
(* and tail are indices of the buffer and that the cells between them hold *)
(* characters; the argument is about indices modulo the size.  The second  *)
(* part is about the flags: what the bytes under way will make of them.    *)
(***************************************************************************)
EXTENDS Keyboard, SequenceTheorems, TLAPS

\* Between tail and head there are characters, never the initial filling.
CellsTyped == \A i \in 1 .. Count : kb_buf[(kb_tail + i - 1) % KB_BUF_SIZE] \in Chars

\* The successor of an index, without the remainder.
LEMMA NextIndexIs ==
  ASSUME NEW i \in Indices
  PROVE  /\ NextIndex(i) \in Indices
         /\ NextIndex(i) = IF i + 1 = KB_BUF_SIZE THEN 0 ELSE i + 1
  BY KeyboardAssumption DEF NextIndex, Indices

\* The i-th cell from an index t on, without the remainder.
LEMMA CellIs ==
  ASSUME NEW t \in Indices, NEW i \in 1 .. KB_BUF_SIZE
  PROVE  /\ (t + i - 1) % KB_BUF_SIZE \in Indices
         /\ (t + i - 1) % KB_BUF_SIZE =
              IF t + i - 1 < KB_BUF_SIZE THEN t + i - 1 ELSE t + i - 1 - KB_BUF_SIZE
<1>1. CASE t + i - 1 < KB_BUF_SIZE
  BY <1>1, KeyboardAssumption DEF Indices
<1>2. CASE t + i - 1 >= KB_BUF_SIZE
  <2> DEFINE r == t + i - 1 - KB_BUF_SIZE
  <2>1. r \in Int /\ 0 <= r /\ r < KB_BUF_SIZE
    BY <1>2, KeyboardAssumption DEF Indices
  <2>2. (r + KB_BUF_SIZE) % KB_BUF_SIZE = r
    BY <2>1, KeyboardAssumption
  <2>3. t + i - 1 = r + KB_BUF_SIZE
    BY KeyboardAssumption DEF Indices
  <2> QED BY <1>2, <2>1, <2>2, <2>3, KeyboardAssumption DEF Indices
<1> QED BY <1>1, <1>2, KeyboardAssumption DEF Indices

\* Whatever happens with a character, or with none, leaves an event.
LEMMA HappensTypeOK ==
  ASSUME TypeOK, NEW op \in {"typed", "read", "flushed"},
         NEW c \in Chars \cup {Nothing}, Happens(op, c)
  PROVE  event' \in Events
<1> DEFINE C == Chars \cup {Nothing}
<1> HIDE DEF C
<1>1. event.turn \in {0, 1} /\ c \in C
  BY DEF TypeOK, Events, C
<1>2. 1 - event.turn \in {0, 1}
  BY <1>1
<1>3. event' \in [op : {"typed", "read", "flushed"}, char : C, turn : {0, 1}]
  BY <1>1, <1>2 DEF Happens
<1> QED BY <1>3 DEF Events, C

\* The buffer starts empty, with head and tail at its first cell.
LEMMA InitTypeOK == Init => TypeOK
<1> SUFFICES ASSUME Init PROVE TypeOK
  OBVIOUS
<1>1. 0 \in Indices
  BY KeyboardAssumption DEF Indices
<1>2. wire \in Seq(ScanCodes \cup {E0})
  BY DEF Init
<1>3. down \subseteq Shifts
  BY DEF Init
<1>4. event \in Events
  BY DEF Init, Events
<1> QED BY <1>1, <1>2, <1>3, <1>4 DEF Init, TypeOK

\* Putting a character keeps head and tail within the buffer.
LEMMA EnqueueTypeOK ==
  ASSUME TypeOK, NEW c \in Chars, Enqueue(c)
  PROVE  /\ kb_buf' \in [Indices -> Chars \cup {Nothing}]
         /\ kb_head' \in Indices /\ kb_tail' \in Indices
  BY NextIndexIs DEF TypeOK, Enqueue, ring

\* Every byte, key and read keeps the types.
LEMMA NextTypeOK == TypeOK /\ [Next]_vars => TypeOK'
<1> SUFFICES ASSUME TypeOK, [Next]_vars PROVE TypeOK'
  OBVIOUS
<1>1. ASSUME NEW bytes \in Seq(ScanCodes \cup {E0}), Sends(bytes), down' \subseteq Shifts
      PROVE  TypeOK'
  BY <1>1 DEF TypeOK, Sends, ring
<1>2. CASE OrdinaryKey
  <2> PICK k \in Keys \cup Mute, m \in BOOLEAN :
        Sends(<<[key |-> k, make |-> m]>>) /\ UNCHANGED down
    BY <1>2 DEF OrdinaryKey
  <2>1. [key |-> k, make |-> m] \in ScanCodes
    BY DEF ScanCodes, AnyKey
  <2>2. <<[key |-> k, make |-> m]>> \in Seq(ScanCodes \cup {E0})
    BY <2>1
  <2> QED BY <1>1, <2>2 DEF TypeOK
<1>3. CASE ShiftKey
  <2> PICK k \in Shifts, m \in BOOLEAN :
        /\ Sends(<<[key |-> k, make |-> m]>>)
        /\ down' = IF m THEN down \cup {k} ELSE down \ {k}
    BY <1>3 DEF ShiftKey
  <2>1. [key |-> k, make |-> m] \in ScanCodes
    BY DEF ScanCodes, AnyKey
  <2>2. down' \subseteq Shifts
    BY DEF TypeOK
  <2>3. <<[key |-> k, make |-> m]>> \in Seq(ScanCodes \cup {E0})
    BY <2>1
  <2> QED BY <1>1, <2>2, <2>3
<1>4. CASE ExtendedKey
  <2> PICK b \in ScanCodes : Sends(<<E0, b>>) /\ UNCHANGED down
    BY <1>4 DEF ExtendedKey
  <2>1. <<E0, b>> \in Seq(ScanCodes \cup {E0})
    OBVIOUS
  <2> QED BY <1>1, <2>1 DEF TypeOK
<1>5. CASE irqhandler
  <2> DEFINE b == Head(wire)
  <2>1. b \in ScanCodes \cup {E0} /\ Tail(wire) \in Seq(ScanCodes \cup {E0})
    BY <1>5 DEF irqhandler, TypeOK
  <2>2. wire' \in Seq(ScanCodes \cup {E0}) /\ down' \subseteq Shifts
    BY <1>5, <2>1 DEF irqhandler, TypeOK
  <2>3. b # E0 => b.make \in BOOLEAN
    BY <2>1 DEF ScanCodes
  <2>4. e0_prefix' \in BOOLEAN /\ shift_pressed' \in BOOLEAN
    BY <1>5, <2>3, Zenon DEF irqhandler, ScanCode, TypeOK
  <2>5. UNCHANGED <<ring, event>> \/ \E c \in Chars : CharTyped(c)
    <3>1. b.key \in Keys => [key |-> b.key, shifted |-> shift_pressed] \in Chars
      BY DEF Chars, TypeOK
    <3> QED BY <1>5, <3>1, Zenon DEF irqhandler, ScanCode
  <2>6. /\ kb_buf' \in [Indices -> Chars \cup {Nothing}]
        /\ kb_head' \in Indices /\ kb_tail' \in Indices
    BY <2>5, EnqueueTypeOK DEF TypeOK, ring, CharTyped
  <2>7. event' \in Events
    BY <2>5, HappensTypeOK DEF TypeOK, CharTyped
  <2> QED BY <2>2, <2>4, <2>6, <2>7 DEF TypeOK
<1>6. CASE kgetc
  <2>1. event' \in Events
    <3>1. kb_buf[kb_tail] \in Chars \cup {Nothing}
      BY DEF TypeOK
    <3> QED BY <1>6, <3>1, HappensTypeOK DEF kgetc
  <2> QED BY <1>6, <2>1, NextIndexIs DEF kgetc, TypeOK
<1>7. CASE kflush
  BY <1>7, HappensTypeOK DEF kflush, TypeOK
<1>8. CASE UNCHANGED vars
  BY <1>8 DEF vars, ring, TypeOK
<1> QED BY <1>2, <1>3, <1>4, <1>5, <1>6, <1>7, <1>8 DEF Next

\* For every size of the buffer, head and tail stay within it.
THEOREM TypeCorrect == Spec => []TypeOK
  BY InitTypeOK, NextTypeOK, PTL DEF Spec

-----------------------------------------------------------------------------
(* The refinement *)

\* The number of waiting characters, and the queue as a sequence of them.
LEMMA WaitingIs ==
  ASSUME TypeOK
  PROVE  /\ Count \in 0 .. KB_BUF_SIZE - 1
         /\ Waiting \in Seq(Chars \cup {Nothing})
         /\ Len(Waiting) = Count
         /\ \A i \in 1 .. Count :
              Waiting[i] = kb_buf[(kb_tail + i - 1) % KB_BUF_SIZE]
<1>1. Count \in 0 .. KB_BUF_SIZE - 1
  BY KeyboardAssumption DEF TypeOK, Count, Indices
<1>2. \A i \in 1 .. Count :
        kb_buf[(kb_tail + i - 1) % KB_BUF_SIZE] \in Chars \cup {Nothing}
  BY <1>1, CellIs, KeyboardAssumption DEF TypeOK
<1>3. Waiting \in [1 .. Count -> Chars \cup {Nothing}]
  BY <1>2 DEF Waiting
<1> QED BY <1>1, <1>3 DEF Waiting

\* Putting a character into a ring that is not full appends it to the queue.
LEMMA EnqueueAppends ==
  ASSUME TypeOK, CellsTyped, NEW c \in Chars, Enqueue(c),
         NextIndex(kb_head) # kb_tail
  PROVE  /\ Len(Waiting) < KB_BUF_SIZE - 1
         /\ Waiting' = Append(Waiting, c)
         /\ CellsTyped'
<1>0. /\ kb_head \in Indices /\ kb_tail \in Indices
      /\ kb_tail' = kb_tail /\ kb_head' # kb_tail
      /\ kb_head' = IF kb_head + 1 = KB_BUF_SIZE THEN 0 ELSE kb_head + 1
  BY NextIndexIs DEF Enqueue, TypeOK
<1>1. Count \in 0 .. KB_BUF_SIZE - 2 /\ Count' = Count + 1
  BY <1>0, KeyboardAssumption DEF Count, Indices
<1>2. kb_tail' = kb_tail /\ kb_buf' = [kb_buf EXCEPT ![kb_head] = c]
  BY DEF Enqueue
<1> DEFINE at(i) == (kb_tail + i - 1) % KB_BUF_SIZE
<1>3. \A i \in 1 .. Count : at(i) \in Indices /\ at(i) # kb_head
  BY <1>1, CellIs, KeyboardAssumption DEF Count, TypeOK, Indices
<1>4. at(Count + 1) = kb_head
  BY <1>1, CellIs, KeyboardAssumption DEF Count, TypeOK, Indices
<1>5. \A i \in 1 .. Count : kb_buf'[at(i)] = kb_buf[at(i)]
  BY <1>2, <1>3 DEF TypeOK
<1>6. kb_buf'[at(Count + 1)] = c
  BY <1>2, <1>4 DEF TypeOK
<1>7. Waiting' = [i \in 1 .. Count + 1 |-> kb_buf'[at(i)]]
  BY <1>1, <1>2 DEF Waiting
<1>8. CellsTyped'
  <2> SUFFICES ASSUME NEW i \in 1 .. Count + 1 PROVE kb_buf'[at(i)] \in Chars
    BY <1>1, <1>2 DEF CellsTyped
  <2>1. CASE i \in 1 .. Count
    BY <2>1, <1>5 DEF CellsTyped
  <2>2. CASE i = Count + 1
    BY <2>2, <1>6
  <2> QED BY <2>1, <2>2, <1>1
<1>9. Waiting' = Append(Waiting, c)
  <2> HIDE DEF at
  <2> DEFINE S == Chars \cup {Nothing}
  <2>1. Waiting \in Seq(S) /\ Len(Waiting) = Count
        /\ \A i \in 1 .. Count : Waiting[i] = kb_buf[at(i)]
    BY WaitingIs DEF at
  <2>2. /\ Append(Waiting, c) \in Seq(S)
        /\ Len(Append(Waiting, c)) = Count + 1
        /\ \A i \in 1 .. Count : Append(Waiting, c)[i] = Waiting[i]
        /\ Append(Waiting, c)[Count + 1] = c
    BY <2>1, AppendProperties
  <2>3. /\ Waiting' \in Seq(S) /\ Len(Waiting') = Count + 1
        /\ \A i \in 1 .. Count + 1 : Waiting'[i] = kb_buf'[at(i)]
    <3>1. \A i \in 1 .. Count + 1 : kb_buf'[at(i)] \in S
      BY <1>1, <1>2, <1>8 DEF CellsTyped, at
    <3>2. Waiting' \in [1 .. Count + 1 -> S]
      BY <1>7, <3>1
    <3> QED BY <1>1, <1>7, <3>2
  <2>4. \A i \in 1 .. Count + 1 : Waiting'[i] = Append(Waiting, c)[i]
    BY <2>1, <2>2, <2>3, <1>1, <1>5, <1>6
  <2> HIDE DEF S
  <2> QED BY <2>2, <2>3, <2>4, SeqEqual
<1> QED BY <1>1, <1>8, <1>9, WaitingIs, KeyboardAssumption

\* kgetc() takes the head of the queue, and says so when there is none.
LEMMA GetTakesHead ==
  ASSUME TypeOK, TypeOK', CellsTyped, kgetc, kb_head # kb_tail
  PROVE  /\ Waiting # <<>>
         /\ Happens("read", Head(Waiting))
         /\ Waiting' = Tail(Waiting)
         /\ CellsTyped'
<1> DEFINE S == Chars \cup {Nothing}
<1>0. /\ kb_tail \in Indices /\ kb_head \in Indices /\ kb_tail' \in Indices
      /\ kb_head' = kb_head /\ kb_tail' = NextIndex(kb_tail)
      /\ kb_tail' = IF kb_tail + 1 = KB_BUF_SIZE THEN 0 ELSE kb_tail + 1
  BY NextIndexIs DEF kgetc, TypeOK
<1>1. Count \in 1 .. KB_BUF_SIZE - 1 /\ Count' = Count - 1
  BY <1>0, KeyboardAssumption DEF Count, Indices
<1>2. Waiting \in Seq(S) /\ Len(Waiting) = Count
      /\ \A i \in 1 .. Count : Waiting[i] = kb_buf[(kb_tail + i - 1) % KB_BUF_SIZE]
  BY WaitingIs
<1>3. Waiting # <<>>
  BY <1>1, <1>2, EmptySeq
<1>4. Happens("read", Head(Waiting))
  <2>1. (kb_tail + 1 - 1) % KB_BUF_SIZE = kb_tail
    <3>1. 1 \in 1 .. KB_BUF_SIZE /\ kb_tail \in Int /\ kb_tail + 1 - 1 = kb_tail
      BY <1>0, KeyboardAssumption DEF Indices
    <3> QED BY <1>0, <3>1, KeyboardAssumption DEF Indices
  <2>2. Head(Waiting) = Waiting[1]
    BY <1>2, <1>3
  <2> QED BY <1>1, <1>2, <2>1, <2>2 DEF kgetc
<1>5. kb_buf' = kb_buf /\ kb_tail' = NextIndex(kb_tail)
  BY DEF kgetc
<1>6. \A i \in 1 .. Count - 1 :
        (kb_tail' + i - 1) % KB_BUF_SIZE = (kb_tail + (i + 1) - 1) % KB_BUF_SIZE
  <2> SUFFICES ASSUME NEW i \in 1 .. Count - 1
               PROVE  (kb_tail' + i - 1) % KB_BUF_SIZE
                        = (kb_tail + (i + 1) - 1) % KB_BUF_SIZE
    OBVIOUS
  <2>1. i \in 1 .. KB_BUF_SIZE /\ i + 1 \in 1 .. KB_BUF_SIZE
    BY <1>1, KeyboardAssumption
  <2>2. (kb_tail' + i - 1) % KB_BUF_SIZE =
          IF kb_tail' + i - 1 < KB_BUF_SIZE THEN kb_tail' + i - 1
          ELSE kb_tail' + i - 1 - KB_BUF_SIZE
    BY <1>0, <2>1, CellIs
  <2>3. (kb_tail + (i + 1) - 1) % KB_BUF_SIZE =
          IF kb_tail + (i + 1) - 1 < KB_BUF_SIZE THEN kb_tail + (i + 1) - 1
          ELSE kb_tail + (i + 1) - 1 - KB_BUF_SIZE
    BY <1>0, <2>1, CellIs
  <2> QED BY <1>0, <2>1, <2>2, <2>3, KeyboardAssumption DEF Indices
<1>7. Waiting' \in Seq(S) /\ Len(Waiting') = Count - 1
      /\ \A i \in 1 .. Count - 1 :
           Waiting'[i] = kb_buf[(kb_tail + (i + 1) - 1) % KB_BUF_SIZE]
  <2>1. \A i \in 1 .. Count - 1 :
          kb_buf[(kb_tail + (i + 1) - 1) % KB_BUF_SIZE] \in S
    <3> SUFFICES ASSUME NEW i \in 1 .. Count - 1
                 PROVE  kb_buf[(kb_tail + (i + 1) - 1) % KB_BUF_SIZE] \in S
      OBVIOUS
    <3>1. i + 1 \in 1 .. KB_BUF_SIZE
      BY <1>1, KeyboardAssumption
    <3>2. (kb_tail + (i + 1) - 1) % KB_BUF_SIZE \in Indices
      BY <3>1, CellIs DEF TypeOK
    <3> QED BY <3>2 DEF TypeOK
  <2>2. Waiting' = [i \in 1 .. Count - 1 |->
                      kb_buf[(kb_tail + (i + 1) - 1) % KB_BUF_SIZE]]
    BY <1>1, <1>5, <1>6 DEF Waiting
  <2>3. Waiting' \in [1 .. Count - 1 -> S]
    BY <2>1, <2>2
  <2> QED BY <1>1, <2>2, <2>3
<1>8. /\ Tail(Waiting) \in Seq(S) /\ Len(Tail(Waiting)) = Count - 1
      /\ \A i \in 1 .. Count - 1 : Tail(Waiting)[i] = Waiting[i + 1]
  <2>1. /\ Tail(Waiting) \in Seq(S) /\ Len(Tail(Waiting)) = Len(Waiting) - 1
        /\ \A i \in 1 .. Len(Tail(Waiting)) : Tail(Waiting)[i] = Waiting[i + 1]
    <3> HIDE DEF S
    <3> QED BY <1>2, <1>3, HeadTailProperties
  <2> QED BY <1>2, <2>1
<1>9. \A i \in 1 .. Count - 1 : Waiting'[i] = Tail(Waiting)[i]
  <2> SUFFICES ASSUME NEW i \in 1 .. Count - 1
               PROVE  Waiting'[i] = Tail(Waiting)[i]
    OBVIOUS
  <2>1. i + 1 \in 1 .. Count
    BY <1>1
  <2>2. Waiting[i + 1] = kb_buf[(kb_tail + (i + 1) - 1) % KB_BUF_SIZE]
    BY <1>2, <2>1
  <2>3. Waiting'[i] = kb_buf[(kb_tail + (i + 1) - 1) % KB_BUF_SIZE]
    BY <1>7
  <2>4. Tail(Waiting)[i] = Waiting[i + 1]
    BY <1>8
  <2> QED BY <2>2, <2>3, <2>4
<1>10. Waiting' = Tail(Waiting)
  <2> HIDE DEF S
  <2> QED BY <1>7, <1>8, <1>9, SeqEqual
<1>11. CellsTyped'
  <2> SUFFICES ASSUME NEW i \in 1 .. Count - 1
               PROVE  kb_buf[(kb_tail' + i - 1) % KB_BUF_SIZE] \in Chars
    BY <1>1, <1>5 DEF CellsTyped
  <2>1. i + 1 \in 1 .. Count
    BY <1>1
  <2> QED BY <1>6, <2>1 DEF CellsTyped
<1> QED BY <1>3, <1>4, <1>10, <1>11

\* What a step does to the ring: nothing, one character more, one less or none
\* left, with the event that belongs to it.
LEMMA StepRefines ==
  ASSUME TypeOK, TypeOK', CellsTyped, [Next]_vars
  PROVE  CellsTyped' /\ [Queue!Next]_<<Waiting, event>>
<1>1. ASSUME UNCHANGED ring, UNCHANGED event
      PROVE  CellsTyped' /\ UNCHANGED <<Waiting, event>>
  BY <1>1 DEF ring, CellsTyped, Waiting, Count
<1>2. ASSUME NEW c \in Chars, CharTyped(c)
      PROVE  CellsTyped' /\ [Queue!Next]_<<Waiting, event>>
  <2>1. CASE NextIndex(kb_head) = kb_tail
    <3>1. UNCHANGED ring
      BY <1>2, <2>1 DEF CharTyped, Enqueue
    <3>2. CellsTyped' /\ Waiting' = Waiting
      BY <3>1 DEF ring, CellsTyped, Waiting, Count
    <3>3. Count = KB_BUF_SIZE - 1
      <4>1. /\ kb_head \in Indices /\ kb_tail \in Indices
            /\ kb_tail = IF kb_head + 1 = KB_BUF_SIZE THEN 0 ELSE kb_head + 1
        BY <2>1, NextIndexIs DEF TypeOK
      <4> QED BY <4>1, KeyboardAssumption DEF Count, Indices
    <3>4. ~(Len(Waiting) < KB_BUF_SIZE - 1)
      BY <3>3, WaitingIs, KeyboardAssumption
    <3> QED BY <1>2, <3>2, <3>4
            DEF CharTyped, Happens, Queue!Next, Queue!Typed, Queue!Happens
  <2>2. CASE NextIndex(kb_head) # kb_tail
    <3>1. Len(Waiting) < KB_BUF_SIZE - 1 /\ Waiting' = Append(Waiting, c) /\ CellsTyped'
      BY <1>2, <2>2, EnqueueAppends DEF CharTyped
    <3> QED BY <1>2, <3>1
            DEF CharTyped, Happens, Queue!Next, Queue!Typed, Queue!Happens
  <2> QED BY <2>1, <2>2
<1>3. CASE OrdinaryKey \/ ShiftKey \/ ExtendedKey
  BY <1>1, <1>3 DEF OrdinaryKey, ShiftKey, ExtendedKey, Sends
<1>4. CASE irqhandler
  <2> DEFINE b == Head(wire)
  <2>1. b.key \in Keys => [key |-> b.key, shifted |-> shift_pressed] \in Chars
    BY DEF Chars, TypeOK
  <2>2. UNCHANGED <<ring, event>> \/ \E c \in Chars : CharTyped(c)
    BY <1>4, <2>1, Zenon DEF irqhandler, ScanCode
  <2> QED BY <1>1, <1>2, <2>2
<1>5. CASE kgetc
  <2>1. CASE kb_head = kb_tail
    <3>1. Count = 0
      BY <2>1, KeyboardAssumption DEF Count, TypeOK, Indices
    <3>2. Waiting = <<>>
      BY <3>1, WaitingIs, EmptySeq
    <3>3. UNCHANGED ring /\ Happens("read", Nothing)
      BY <1>5, <2>1 DEF kgetc, ring
    <3>4. CellsTyped' /\ Waiting' = Waiting
      BY <3>3 DEF ring, CellsTyped, Waiting, Count
    <3> QED BY <3>2, <3>3, <3>4
            DEF Happens, Queue!Next, Queue!ReadNothing, Queue!Happens
  <2>2. CASE kb_head # kb_tail
    BY <1>5, <2>2, GetTakesHead
       DEF Happens, Queue!Next, Queue!Read, Queue!Happens
  <2> QED BY <2>1, <2>2
<1>6. CASE kflush
  <2>1. Count' = 0
    BY <1>6, KeyboardAssumption DEF kflush, Count, TypeOK, Indices
  <2>2. CellsTyped'
    BY <2>1 DEF CellsTyped
  <2>3. Waiting' = <<>>
    BY <2>1 DEF Waiting
  <2> QED BY <1>6, <2>2, <2>3
          DEF kflush, Happens, Queue!Next, Queue!Discarded, Queue!Happens
<1>7. CASE UNCHANGED vars
  BY <1>1, <1>7 DEF vars
<1> QED BY <1>3, <1>4, <1>5, <1>6, <1>7 DEF Next

\* For every size of the buffer, the ring of keyboard.c is a queue that holds up
\* to KB_BUF_SIZE - 1 characters: nothing is reordered, read twice or
\* overwritten, and only what comes to a full buffer is lost.
THEOREM RingIsQueue == Spec => ImplementsTypeAhead
<1>1. Init => CellsTyped /\ Queue!Init
  <2> SUFFICES ASSUME Init PROVE CellsTyped /\ Queue!Init
    OBVIOUS
  <2>1. Count = 0
    BY DEF Init, Count
  <2> QED BY <2>1 DEF Init, CellsTyped, Waiting, Queue!Init
<1>2. TypeOK /\ TypeOK' /\ CellsTyped /\ [Next]_vars
        => CellsTyped' /\ [Queue!Next]_<<Waiting, event>>
  BY StepRefines
<1> QED BY <1>1, <1>2, TypeCorrect, PTL DEF Spec, ImplementsTypeAhead, Queue!Spec

-----------------------------------------------------------------------------
\* A byte of a Shift key that does not belong to an extended key.
ShiftByte(bytes, prefix, i) ==
  /\ bytes[i].key \in Shifts
  /\ IF i = 1 THEN prefix = FALSE ELSE bytes[i - 1] # E0

\* Once these bytes are read Shift is off: the last Shift byte is a release, or
\* there is none and Shift is off already.
EndsOff(bytes, prefix, pressed) ==
  /\ (\A i \in 1 .. Len(bytes) : ~ShiftByte(bytes, prefix, i)) => pressed = FALSE
  /\ \A i \in 1 .. Len(bytes) :
       /\ ShiftByte(bytes, prefix, i)
       /\ \A j \in i + 1 .. Len(bytes) : ~ShiftByte(bytes, prefix, j)
       => bytes[i].make = FALSE

\* A prefix, read or under way, is followed by its byte and by no other prefix.
Paired(bytes, prefix) ==
  /\ bytes = <<>> => prefix = FALSE
  /\ bytes # <<>> => bytes[Len(bytes)] # E0
  /\ bytes # <<>> /\ prefix = TRUE => bytes[1] # E0
  /\ \A i \in 1 .. Len(bytes) - 1 : bytes[i] = E0 => bytes[i + 1] # E0

\* The inductive invariant behind ShiftNeverStuck.
ShiftInv ==
  /\ Paired(wire, e0_prefix)
  /\ down = {} => EndsOff(wire, e0_prefix, shift_pressed)

\* A prefix is no scan code of a key, and no key of a prefix is a Shift key.
LEMMA PrefixIsNoKey ==
  /\ E0 \notin ScanCodes
  /\ E0.key \notin Shifts
  /\ \A k \in Keys \cup Mute : k \notin Shifts
<1>1. E0.key = "E0" /\ "E0" \notin Shifts
  BY DEF E0, Shifts
<1>2. "E0" \notin AnyKey
  BY <1>1, KeyboardAssumption DEF AnyKey
<1>3. \A b \in ScanCodes : b.key \in AnyKey
  BY DEF ScanCodes
<1> QED BY <1>1, <1>2, <1>3, KeyboardAssumption

\* One byte more, which is no prefix: what was sent before counts as before, and
\* the new byte is not the second byte of an extended key.
LEMMA OneByte ==
  ASSUME TypeOK, ShiftInv, NEW b \in ScanCodes, Sends(<<b>>),
         b.key \in Shifts => (down' = {} => b.make = FALSE),
         b.key \notin Shifts => down' = down
  PROVE  ShiftInv'
<1> DEFINE Old(i) == ShiftByte(wire, e0_prefix, i)
           New(i) == ShiftByte(wire', e0_prefix', i)
<1> PICK n \in Nat : n = Len(wire)
  BY DEF TypeOK
<1>1. /\ Len(wire') = n + 1 /\ wire' # <<>>
      /\ wire'[n + 1] = b /\ \A i \in 1 .. n : wire'[i] = wire[i]
  BY DEF TypeOK, Sends
<1>2. e0_prefix' = e0_prefix /\ shift_pressed' = shift_pressed
  BY DEF Sends
<1>3. wire = <<>> <=> n = 0
  BY DEF TypeOK
<1>4. b # E0
  BY PrefixIsNoKey
<1>5. \A i \in 1 .. n : New(i) <=> Old(i)
  BY <1>1, <1>2 DEF ShiftByte
<1>6. New(n + 1) <=> b.key \in Shifts
  <2>1. CASE n = 0
    BY <1>1, <1>2, <1>3, <2>1 DEF ShiftByte, ShiftInv, Paired
  <2>2. CASE n # 0
    <3>1. wire'[n] # E0 /\ n + 1 # 1 /\ (n + 1) - 1 = n
      BY <1>1, <1>3, <2>2 DEF ShiftInv, Paired
    <3> QED BY <1>1, <3>1 DEF ShiftByte
  <2> QED BY <2>1, <2>2
<1>7. Paired(wire', e0_prefix')
  <2>1. \A i \in 1 .. n : wire'[i] = E0 => wire'[i + 1] # E0
    <3> TAKE i \in 1 .. n
    <3>1. CASE i = n
      BY <1>1, <1>4, <3>1
    <3>2. CASE i # n
      <4>1. i \in 1 .. n - 1 /\ i + 1 \in 1 .. n
        BY <3>2
      <4> QED BY <1>1, <4>1 DEF ShiftInv, Paired
    <3> QED BY <3>1, <3>2
  <2>2. e0_prefix' = TRUE => wire'[1] # E0
    BY <1>1, <1>2, <1>3, <1>4 DEF ShiftInv, Paired
  <2> QED BY <1>1, <1>4, <2>1, <2>2 DEF Paired
<1>8. ASSUME down' = {}
      PROVE  EndsOff(wire', e0_prefix', shift_pressed')
  <2>1. CASE b.key \in Shifts
    <3>1. New(n + 1) /\ wire'[n + 1].make = FALSE /\ n + 1 \in 1 .. Len(wire')
      BY <1>1, <1>6, <1>8, <2>1
    <3>2. \A i \in 1 .. Len(wire') : i = n + 1 \/ n + 1 \in i + 1 .. Len(wire')
      BY <1>1
    <3> QED BY <3>1, <3>2 DEF EndsOff
  <2>2. CASE b.key \notin Shifts
    <3>1. EndsOff(wire, e0_prefix, shift_pressed) /\ ~New(n + 1)
      BY <1>6, <1>8, <2>2 DEF ShiftInv
    <3> HIDE DEF New, Old
    <3>2. (\A i \in 1 .. n + 1 : ~New(i)) => shift_pressed' = FALSE
      BY <1>2, <1>5, <3>1 DEF EndsOff, Old
    <3>3. ASSUME NEW i \in 1 .. n + 1, New(i), \A j \in i + 1 .. n + 1 : ~New(j)
          PROVE  wire'[i].make = FALSE
      <4>1. i \in 1 .. n /\ Old(i)
        BY <1>5, <3>1, <3>3
      <4>2. \A j \in i + 1 .. n : j \in 1 .. n /\ ~Old(j)
        BY <1>5, <3>3
      <4> QED BY <1>1, <3>1, <4>1, <4>2 DEF EndsOff, Old
    <3> QED BY <1>1, <3>2, <3>3 DEF EndsOff, New
  <2> QED BY <2>1, <2>2
<1> QED BY <1>7, <1>8 DEF ShiftInv

\* The two bytes of an extended key: neither is a Shift byte.
LEMMA TwoBytes ==
  ASSUME TypeOK, ShiftInv, NEW b \in ScanCodes, Sends(<<E0, b>>), down' = down
  PROVE  ShiftInv'
<1> DEFINE Old(i) == ShiftByte(wire, e0_prefix, i)
           New(i) == ShiftByte(wire', e0_prefix', i)
<1> PICK n \in Nat : n = Len(wire)
  BY DEF TypeOK
<1>1. /\ Len(wire') = n + 2 /\ wire' # <<>>
      /\ wire'[n + 1] = E0 /\ wire'[n + 2] = b
      /\ \A i \in 1 .. n : wire'[i] = wire[i]
  <2>1. <<E0, b>> \in Seq(ScanCodes \cup {E0}) /\ Len(<<E0, b>>) = 2
    OBVIOUS
  <2> QED BY <2>1 DEF TypeOK, Sends
<1>2. e0_prefix' = e0_prefix /\ shift_pressed' = shift_pressed
  BY DEF Sends
<1>3. wire = <<>> <=> n = 0
  BY DEF TypeOK
<1>4. b # E0
  BY PrefixIsNoKey
<1>5. \A i \in 1 .. n : New(i) <=> Old(i)
  BY <1>1, <1>2 DEF ShiftByte
<1>6. ~New(n + 1) /\ ~New(n + 2)
  <2>1. n + 2 # 1 /\ (n + 2) - 1 = n + 1
    OBVIOUS
  <2> QED BY <1>1, <2>1, PrefixIsNoKey DEF ShiftByte
<1>7. Paired(wire', e0_prefix')
  <2>1. \A i \in 1 .. n + 1 : wire'[i] = E0 => wire'[i + 1] # E0
    <3> TAKE i \in 1 .. n + 1
    <3>1. CASE i = n + 1
      <4>1. i + 1 = n + 2
        BY <3>1
      <4> QED BY <1>1, <1>4, <4>1
    <3>2. CASE i = n
      BY <1>1, <1>3, <3>2 DEF ShiftInv, Paired
    <3>3. CASE i \in 1 .. n - 1
      <4>1. i + 1 \in 1 .. n
        BY <3>3
      <4> QED BY <1>1, <3>3, <4>1 DEF ShiftInv, Paired
    <3> QED BY <3>1, <3>2, <3>3
  <2>2. e0_prefix' = TRUE => wire'[1] # E0
    BY <1>1, <1>2, <1>3 DEF ShiftInv, Paired
  <2> QED BY <1>1, <1>4, <2>1, <2>2 DEF Paired
<1>8. ASSUME down' = {}
      PROVE  EndsOff(wire', e0_prefix', shift_pressed')
  <2>1. EndsOff(wire, e0_prefix, shift_pressed)
    BY <1>8 DEF ShiftInv
  <2> HIDE DEF New, Old
  <2>2. (\A i \in 1 .. n + 2 : ~New(i)) => shift_pressed' = FALSE
    BY <1>2, <1>5, <2>1 DEF EndsOff, Old
  <2>3. ASSUME NEW i \in 1 .. n + 2, New(i), \A j \in i + 1 .. n + 2 : ~New(j)
        PROVE  wire'[i].make = FALSE
    <3>1. i \in 1 .. n /\ Old(i)
      BY <1>5, <1>6, <2>3
    <3>2. \A j \in i + 1 .. n : j \in 1 .. n /\ ~Old(j)
      BY <1>5, <2>3
    <3> QED BY <1>1, <2>1, <3>1, <3>2 DEF EndsOff, Old
  <2> QED BY <1>1, <2>2, <2>3 DEF EndsOff, New
<1> QED BY <1>7, <1>8 DEF ShiftInv

\* irqhandler() reads a byte: the rest of the bytes counts as before, and the
\* flags take over what the byte said.
LEMMA ByteRead ==
  ASSUME TypeOK, ShiftInv, irqhandler
  PROVE  ShiftInv'
<1> DEFINE Old(i) == ShiftByte(wire, e0_prefix, i)
           New(i) == ShiftByte(wire', e0_prefix', i)
           b == wire[1]
<1> PICK n \in Nat : n = Len(wire')
  BY DEF TypeOK, irqhandler
<1>1. /\ Len(wire) = n + 1 /\ wire # <<>>
      /\ \A i \in 1 .. n : wire'[i] = wire[i + 1]
      /\ b = Head(wire) /\ down' = down
  BY DEF TypeOK, irqhandler
<1>2. wire' = <<>> <=> n = 0
  <2>1. wire' \in Seq(ScanCodes \cup {E0})
    BY DEF TypeOK, irqhandler
  <2> QED BY <2>1
<1>3. e0_prefix \in BOOLEAN
  BY DEF TypeOK
<1>4. (e0_prefix' = TRUE /\ b = E0) \/ (e0_prefix' = FALSE /\ b # E0)
  <2>1. CASE b = E0
    BY <1>1, <2>1 DEF irqhandler, ScanCode
  <2>2. CASE b # E0
    BY <1>1, <1>3, <2>2, Zenon DEF irqhandler, ScanCode
  <2> QED BY <2>1, <2>2
<1>5. \A i \in 1 .. n : New(i) <=> Old(i + 1)
  <2> TAKE i \in 1 .. n
  <2>1. i + 1 # 1 /\ (i + 1) - 1 = i
    OBVIOUS
  <2>2. CASE i = 1
    BY <1>1, <1>4, <2>1, <2>2 DEF ShiftByte
  <2>3. CASE i # 1
    <3>1. i - 1 \in 1 .. n /\ (i - 1) + 1 = i
      BY <2>3
    <3>2. wire'[i - 1] = wire[i]
      BY <1>1, <3>1
    <3> QED BY <1>1, <2>1, <2>3, <3>2 DEF ShiftByte
  <2> QED BY <2>2, <2>3
<1>6. Paired(wire', e0_prefix')
  <2>1. \A i \in 1 .. n - 1 : wire'[i] = E0 => wire'[i + 1] # E0
    <3> TAKE i \in 1 .. n - 1
    <3>1. i + 1 \in 1 .. n /\ i \in 1 .. n /\ i + 1 \in 1 .. Len(wire) - 1
      BY <1>1
    <3> QED BY <1>1, <3>1 DEF ShiftInv, Paired
  <2>2. n # 0 => wire'[n] # E0
    BY <1>1 DEF ShiftInv, Paired
  <2>3. n # 0 /\ e0_prefix' = TRUE => wire'[1] # E0
    BY <1>1, <1>4 DEF ShiftInv, Paired
  <2>4. n = 0 => e0_prefix' = FALSE
    BY <1>1, <1>4 DEF ShiftInv, Paired
  <2> QED BY <1>2, <2>1, <2>2, <2>3, <2>4 DEF Paired
<1>7. ASSUME down' = {}
      PROVE  EndsOff(wire', e0_prefix', shift_pressed')
  <2>1. EndsOff(wire, e0_prefix, shift_pressed)
    BY <1>1, <1>7 DEF ShiftInv
  <2>2. IF Old(1) THEN shift_pressed' = b.make ELSE shift_pressed' = shift_pressed
    <3>1. Old(1) <=> (b.key \in Shifts /\ e0_prefix = FALSE)
      BY DEF ShiftByte
    <3>2. b = E0 => b.key \notin Shifts
      BY PrefixIsNoKey
    <3> HIDE DEF Old
    <3> QED BY <1>1, <1>3, <3>1, <3>2, Zenon DEF irqhandler, ScanCode
  <2> HIDE DEF New, Old
  <2>3. (\A i \in 1 .. n : ~New(i)) => shift_pressed' = FALSE
    <3> SUFFICES ASSUME \A i \in 1 .. n : ~New(i)
                 PROVE  shift_pressed' = FALSE
      OBVIOUS
    <3>1. ASSUME NEW i \in 2 .. n + 1 PROVE ~Old(i)
      <4>1. i - 1 \in 1 .. n /\ (i - 1) + 1 = i
        OBVIOUS
      <4>2. New(i - 1) <=> Old((i - 1) + 1)
        BY <1>5, <4>1
      <4> QED BY <4>1, <4>2
    <3>2. CASE Old(1)
      <4>1. 1 \in 1 .. n + 1 /\ 1 + 1 = 2
        OBVIOUS
      <4> QED BY <1>1, <2>1, <2>2, <3>1, <3>2, <4>1 DEF EndsOff, Old
    <3>3. CASE ~Old(1)
      <4>1. \A i \in 1 .. n + 1 : ~Old(i)
        BY <3>1, <3>3
      <4> QED BY <1>1, <2>1, <2>2, <3>3, <4>1 DEF EndsOff, Old
    <3> QED BY <3>2, <3>3
  <2>4. ASSUME NEW i \in 1 .. n, New(i), \A j \in i + 1 .. n : ~New(j)
        PROVE  wire'[i].make = FALSE
    <3>1. i + 1 \in 1 .. n + 1 /\ Old(i + 1)
      BY <1>5, <2>4
    <3>2. ASSUME NEW j \in (i + 1) + 1 .. n + 1 PROVE ~Old(j)
      <4>1. j - 1 \in i + 1 .. n /\ j - 1 \in 1 .. n /\ (j - 1) + 1 = j
        OBVIOUS
      <4>2. New(j - 1) <=> Old((j - 1) + 1)
        BY <1>5, <4>1
      <4> QED BY <2>4, <4>1, <4>2
    <3> QED BY <1>1, <2>1, <3>1, <3>2 DEF EndsOff, Old
  <2> QED BY <2>3, <2>4 DEF EndsOff, New
<1> QED BY <1>6, <1>7 DEF ShiftInv

\* Whatever is typed while nobody reads: when all bytes are read and no Shift key
\* is held, irqhandler() has left Shift off and waits for no second byte.
THEOREM ShiftSafe == Spec => []ShiftNeverStuck
<1>1. Init => ShiftInv
  <2> SUFFICES ASSUME Init PROVE ShiftInv
    OBVIOUS
  <2>1. Len(wire) = 0
    BY DEF Init
  <2> QED BY <2>1 DEF Init, ShiftInv, Paired, EndsOff
<1>2. TypeOK /\ ShiftInv /\ [Next]_vars => ShiftInv'
  <2> SUFFICES ASSUME TypeOK, ShiftInv, [Next]_vars PROVE ShiftInv'
    OBVIOUS
  <2>1. CASE OrdinaryKey
    <3> PICK k \in Keys \cup Mute, m \in BOOLEAN :
          Sends(<<[key |-> k, make |-> m]>>) /\ UNCHANGED down
      BY <2>1 DEF OrdinaryKey
    <3> DEFINE b == [key |-> k, make |-> m]
    <3>1. b \in ScanCodes /\ b.key = k
      BY DEF ScanCodes, AnyKey
    <3>2. b.key \notin Shifts
      BY <3>1, PrefixIsNoKey
    <3> HIDE DEF b
    <3>3. Sends(<<b>>) /\ down' = down
      BY DEF b
    <3> QED BY <3>1, <3>2, <3>3, OneByte
  <2>2. CASE ShiftKey
    <3> PICK k \in Shifts, m \in BOOLEAN :
          /\ Sends(<<[key |-> k, make |-> m]>>)
          /\ down' = IF m THEN down \cup {k} ELSE down \ {k}
      BY <2>2 DEF ShiftKey
    <3> DEFINE b == [key |-> k, make |-> m]
    <3>1. b \in ScanCodes /\ b.key = k /\ b.make = m
      BY DEF ScanCodes, AnyKey
    <3>2. down' = {} => m = FALSE
      OBVIOUS
    <3> HIDE DEF b
    <3>3. Sends(<<b>>)
      BY DEF b
    <3> QED BY <3>1, <3>2, <3>3, OneByte
  <2>3. CASE ExtendedKey
    BY <2>3, TwoBytes DEF ExtendedKey
  <2>4. CASE irqhandler
    BY <2>4, ByteRead
  <2>5. CASE kgetc \/ kflush \/ UNCHANGED vars
    <3>1. UNCHANGED <<wire, e0_prefix, shift_pressed, down>>
      BY <2>5 DEF kgetc, kflush, vars
    <3> QED BY <3>1 DEF ShiftInv
  <2> QED BY <2>1, <2>2, <2>3, <2>4, <2>5 DEF Next
<1>3. TypeOK /\ ShiftInv => ShiftNeverStuck
  <2> SUFFICES ASSUME TypeOK, ShiftInv, wire = <<>>
               PROVE  e0_prefix = FALSE /\ (down = {} => shift_pressed = FALSE)
    BY Zenon DEF ShiftNeverStuck
  <2>1. Len(wire) = 0
    OBVIOUS
  <2> QED BY <2>1 DEF ShiftInv, Paired, EndsOff
<1> QED BY <1>1, <1>2, <1>3, TypeCorrect, PTL DEF Spec
=============================================================================
