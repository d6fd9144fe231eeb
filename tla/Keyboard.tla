------------------------------ MODULE Keyboard ------------------------------
(***************************************************************************)
(* The keyboard interrupt and its ring buffer: keyboard.c.  The keyboard   *)
(* itself is outside the kernel: it sends scan codes, one byte for each    *)
(* interrupt, in the order the keys move.  A key of the extended block     *)
(* sends 0xE0 first, and the byte after it may equal that of an ordinary   *)
(* key or of Shift.                                                        *)
(*                                                                         *)
(* irqhandler(), kgetc() and kflush() all run with interrupts off: each is *)
(* one action.  A character is the key and whether Shift was on, which is  *)
(* what the table scancode_ascii and the switch on the shifted characters  *)
(* compute it from.                                                        *)
(***************************************************************************)
EXTENDS Integers, Sequences

CONSTANTS KB_BUF_SIZE,   \* 64 in keyboard.c
          Keys,          \* keys with a character
          Mute,          \* keys without one: Ctrl, Alt, function keys
          MaxWire        \* bound on the bytes the keyboard has yet to send

Shifts == {"left shift", "right shift"}

ASSUME KeyboardAssumption ==
  /\ KB_BUF_SIZE \in Nat /\ KB_BUF_SIZE >= 2 /\ MaxWire \in Nat
  /\ (Keys \cup Mute) \cap (Shifts \cup {"E0"}) = {}

AnyKey == Keys \cup Mute \cup Shifts
E0 == [key |-> "E0", make |-> TRUE]
ScanCodes == [key : AnyKey, make : BOOLEAN]
Chars == [key : Keys, shifted : BOOLEAN]
Nothing == [key |-> "none", shifted |-> FALSE]
Events == [op : {"typed", "read", "flushed"}, char : Chars \cup {Nothing},
           turn : {0, 1}]

VARIABLES kb_buf, kb_head, kb_tail, e0_prefix, shift_pressed,
          wire,    \* the bytes sent and not yet read from port 0x60
          down,    \* the Shift keys that are held down
          event    \* the last character typed, kgetc() with its result, or
                   \* kflush(); turn alternates from one to the next

ring == <<kb_buf, kb_head, kb_tail>>
vars == <<ring, e0_prefix, shift_pressed, wire, down, event>>

Indices == 0 .. KB_BUF_SIZE - 1

Init ==
  /\ kb_buf = [i \in Indices |-> Nothing]
  /\ kb_head = 0 /\ kb_tail = 0
  /\ e0_prefix = FALSE /\ shift_pressed = FALSE
  /\ wire = <<>> /\ down = {}
  /\ event = [op |-> "flushed", char |-> Nothing, turn |-> 0]

Happens(op, c) == event' = [op |-> op, char |-> c, turn |-> 1 - event.turn]

-----------------------------------------------------------------------------
(* The keyboard *)

Sends(bytes) ==
  /\ Len(wire) + Len(bytes) <= MaxWire
  /\ wire' = wire \o bytes
  /\ UNCHANGED <<ring, e0_prefix, shift_pressed, event>>

OrdinaryKey ==
  \E k \in Keys \cup Mute, m \in BOOLEAN :
    Sends(<<[key |-> k, make |-> m]>>) /\ UNCHANGED down

ShiftKey ==
  \E k \in Shifts, m \in BOOLEAN :
    /\ m # (k \in down)
    /\ Sends(<<[key |-> k, make |-> m]>>)
    /\ down' = IF m THEN down \cup {k} ELSE down \ {k}

ExtendedKey ==
  \E b \in ScanCodes : Sends(<<E0, b>>) /\ UNCHANGED down

-----------------------------------------------------------------------------
(* keyboard.c *)

\* Mutant: the index does not wrap round.
NextIndex_NoWrap(i) == i + 1

NextIndex(i) == (i + 1) % KB_BUF_SIZE

\* Mutant: a full ring is not noticed.
Enqueue_NoFullTest(c) ==
  /\ kb_buf' = [kb_buf EXCEPT ![kb_head] = c]
  /\ kb_head' = NextIndex(kb_head)
  /\ UNCHANGED kb_tail

Enqueue(c) ==
  IF NextIndex(kb_head) # kb_tail
  THEN /\ kb_buf' = [kb_buf EXCEPT ![kb_head] = c]
       /\ kb_head' = NextIndex(kb_head)
       /\ UNCHANGED kb_tail
  ELSE UNCHANGED ring

CharTyped(c) == Enqueue(c) /\ Happens("typed", c)

\* Mutant: the Shift keys are looked for before the prefix.
ScanCode_ShiftFirst(b) ==
  IF b = E0
  THEN e0_prefix' = TRUE /\ UNCHANGED <<shift_pressed, ring, event>>
  ELSE IF b.key \in Shifts
  THEN shift_pressed' = b.make /\ e0_prefix' = FALSE /\ UNCHANGED <<ring, event>>
  ELSE IF e0_prefix
  THEN e0_prefix' = FALSE /\ UNCHANGED <<shift_pressed, ring, event>>
  ELSE /\ UNCHANGED <<e0_prefix, shift_pressed>>
       /\ IF b.make /\ b.key \in Keys
          THEN CharTyped([key |-> b.key, shifted |-> shift_pressed])
          ELSE UNCHANGED <<ring, event>>

\* The tests of irqhandler() on one scan code, in their order.
ScanCode(b) ==
  IF b = E0
  THEN e0_prefix' = TRUE /\ UNCHANGED <<shift_pressed, ring, event>>
  ELSE IF e0_prefix
  THEN e0_prefix' = FALSE /\ UNCHANGED <<shift_pressed, ring, event>>
  ELSE IF b.key \in Shifts
  THEN shift_pressed' = b.make /\ UNCHANGED <<e0_prefix, ring, event>>
  ELSE /\ UNCHANGED <<e0_prefix, shift_pressed>>
       /\ IF b.make /\ b.key \in Keys
          THEN CharTyped([key |-> b.key, shifted |-> shift_pressed])
          ELSE UNCHANGED <<ring, event>>

irqhandler ==
  /\ wire # <<>>
  /\ wire' = Tail(wire)
  /\ ScanCode(Head(wire))
  /\ UNCHANGED down

kgetc ==
  /\ IF kb_head = kb_tail
     THEN Happens("read", Nothing) /\ UNCHANGED kb_tail
     ELSE Happens("read", kb_buf[kb_tail]) /\ kb_tail' = NextIndex(kb_tail)
  /\ UNCHANGED <<kb_buf, kb_head, e0_prefix, shift_pressed, wire, down>>

\* After a successful execve.
kflush ==
  /\ kb_tail' = kb_head
  /\ Happens("flushed", Nothing)
  /\ UNCHANGED <<kb_buf, kb_head, e0_prefix, shift_pressed, wire, down>>

Next ==
  \/ OrdinaryKey \/ ShiftKey \/ ExtendedKey
  \/ irqhandler \/ kgetc \/ kflush

Spec == Init /\ [][Next]_vars

-----------------------------------------------------------------------------
(* Properties *)

\* The indices stay within kb_buf, and what is on the wire are scan codes.
TypeOK ==
  /\ kb_buf \in [Indices -> Chars \cup {Nothing}]
  /\ kb_head \in Indices /\ kb_tail \in Indices
  /\ e0_prefix \in BOOLEAN /\ shift_pressed \in BOOLEAN
  /\ wire \in Seq(ScanCodes \cup {E0}) /\ down \subseteq Shifts
  /\ event \in Events

\* The characters from the tail to the head, round the end of the buffer.
Count == IF kb_head >= kb_tail THEN kb_head - kb_tail
         ELSE kb_head - kb_tail + KB_BUF_SIZE
Waiting == [i \in 1 .. Count |-> kb_buf[(kb_tail + i - 1) % KB_BUF_SIZE]]

Queue == INSTANCE TypeAhead WITH Capacity <- KB_BUF_SIZE - 1, queue <- Waiting

\* The ring behaves as a queue of KB_BUF_SIZE - 1 characters wherever head and
\* tail are: a burst of typing while a program holds the CPU loses only what
\* comes to a full buffer, and never what is already in it.
ImplementsTypeAhead == Queue!Spec

\* Once the keyboard has nothing more to send and no Shift key is held, Shift is
\* off and no prefix is pending, whatever extended keys came in between: Shift
\* is never stuck.
ShiftNeverStuck ==
  wire = <<>> => /\ ~e0_prefix
                 /\ down = {} => ~shift_pressed
=============================================================================
