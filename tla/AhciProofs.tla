----------------------------- MODULE AhciProofs -----------------------------
(***************************************************************************)
(* Proofs about Ahci, for any number of ports, slots, sectors and pages    *)
(* and any patience of the driver.                                         *)
(*                                                                         *)
(* DriverInv has three parts.  DeviceInv says of the entries that count    *)
(* more than DevicesReady does: which pages their lists and tables are on, *)
(* so that setting up one port cannot touch another.  BootInv says it of   *)
(* the entry in hand.  RequestInv ties the command in hand to its slot,    *)
(* header and table and to whether its data has been moved; without it     *)
(* the driver could report a command done that the device never started.   *)
(***************************************************************************)
EXTENDS Ahci, TLAPS

\* The slots of a port, and the ports, are numbers from 0 on.
LEMMA NumbersOK ==
  /\ Slots \subseteq Nat /\ 0 \in Slots
  /\ Ports \subseteq Nat /\ 0 \in Ports
  /\ AHCI_MAX_PORTS \in Nat /\ NSlots \in Nat /\ PortPages \in Nat
  /\ AHCI_IO_TIMEOUT \in Nat
  BY AhciAssumption DEF Slots, Ports, PortPages

\* The pages of one port end before those of the next begin.
LEMMA PagesApart ==
  ASSUME NEW p \in Nat, NEW q \in Nat, p < q
  PROVE  p * PortPages + PortPages <= q * PortPages
<1>1. PICK n \in Nat : n = PortPages
  BY NumbersOK
<1>2. p * n + n = (p + 1) * n
  BY <1>1
<1>3. (p + 1) * n <= q * n
  BY <1>1
<1> QED BY <1>1, <1>2, <1>3

\* Every page that ahci_port_init() takes for a port is a page.
LEMMA PortPagesArePages ==
  ASSUME NEW p \in Ports
  PROVE  /\ p * PortPages + 1 \in Pages \ {0}
         /\ \A s \in Slots : p * PortPages + 1 + 2 + s \in Pages \ {0}
<1>1. p * PortPages + PortPages <= AHCI_MAX_PORTS * PortPages
  BY PagesApart, NumbersOK DEF Ports
<1>2. p * PortPages \in Nat
  BY NumbersOK
<1>3. AHCI_MAX_PORTS * PortPages \in Nat
  BY NumbersOK
<1>4. \A s \in Slots : s \in Nat /\ 2 + s < PortPages
  BY NumbersOK DEF Slots, PortPages
<1>5. 2 < PortPages
  BY <1>4, NumbersOK
<1> QED BY <1>1, <1>2, <1>3, <1>4, <1>5, NumbersOK DEF Pages
\* The firmware's state and the driver's empty tables are of their types.
LEMMA InitTypeOK == Init => TypeOK
<1> SUFFICES ASSUME Init PROVE TypeOK
  OBVIOUS
<1> USE NumbersOK
<1>1. 0 \in Pages
  <2>1. AHCI_MAX_PORTS * PortPages \in Nat
    OBVIOUS
  <2> QED BY <2>1 DEF Pages
<1>2. RegsTypeOK
  BY <1>1 DEF Init, RegsTypeOK, Flags
<1>3. NoCommand \in Requests
  BY AhciAssumption DEF NoCommand, Requests
<1>4. MemoryTypeOK
  <2>1. free \in Nat /\ disk \in [Ports -> [Lbas -> Values]]
    BY AhciAssumption DEF Init
  <2>2. hdr \in [Pages -> [Slots -> [ctba : Pages, w : BOOLEAN]]]
    BY <1>1 DEF Init, NoHeader
  <2> QED BY <1>3, <2>1, <2>2 DEF Init, MemoryTypeOK
<1>5. DriverTypeOK
  <2>1. g_devices \in [Ports -> [port : Ports, clb : Pages, ctba : [Slots -> Pages]]]
    BY <1>1 DEF Init, NoDevice
  <2> QED BY <2>1 DEF Init, DriverTypeOK, Labels
<1> QED BY <1>2, <1>4, <1>5 DEF TypeOK

\* While nothing is issued the slot that ahci_find_free_slot() finds is slot 0.
LEMMA FirstSlot ==
  ASSUME NEW p \in Ports, ci[p] = {}
  PROVE  ahci_find_free_slot(p) = {0}
<1>1. Min(Slots) = 0
  <2>1. \E x \in Slots : \A y \in Slots : x <= y
    <3>1. 0 \in Slots /\ \A y \in Slots : 0 <= y
      BY NumbersOK
    <3> QED BY <3>1
  <2>2. Min(Slots) \in Slots /\ \A y \in Slots : Min(Slots) <= y
    BY <2>1, Zenon DEF Min
  <2>3. PICK m \in Slots : m = Min(Slots) /\ \A y \in Slots : m <= y
    BY <2>2
  <2>4. m = 0
    BY <2>3, NumbersOK
  <2> QED BY <2>3, <2>4
<1>2. Slots \ ci[p] = Slots /\ Slots # {}
  BY NumbersOK
<1> QED BY <1>1, <1>2 DEF ahci_find_free_slot

\* Before a command is issued, nothing is.
LEMMA PreparesSlotZero ==
  ASSUME TypeOK, DriverInv, pc = "prepare"
  PROVE  ahci_find_free_slot(dev.port) = {0}
<1>1. dev.port \in Ports
  BY NumbersOK DEF TypeOK, DriverTypeOK, dev
<1>2. ci[dev.port] = {}
  BY <1>1 DEF DriverInv, RequestInv
<1> QED BY <1>1, <1>2, FirstSlot

-----------------------------------------------------------------------------
(* Types.  The parts of the state that the driver's steps share first.       *)

\* Every way the driver goes on keeps the types of its control.
LEMMA ControlTypeOK ==
  ASSUME TypeOK, DriverInv
  PROVE  /\ \A l \in Labels : Goto(l) =>
              /\ pc' \in Labels /\ spins' \in 0 .. AHCI_IO_TIMEOUT
              /\ UNCHANGED <<port_num, g_device_count, args>>
         /\ Again => /\ pc' \in Labels /\ spins' \in 0 .. AHCI_IO_TIMEOUT
                     /\ UNCHANGED <<port_num, g_device_count, args>>
         /\ (NextPort(TRUE) \/ NextPort(FALSE)) /\ port_num \in Ports =>
              /\ pc' \in Labels /\ spins' \in 0 .. AHCI_IO_TIMEOUT
              /\ port_num' \in 0 .. AHCI_MAX_PORTS
              /\ g_device_count' \in 0 .. AHCI_MAX_PORTS
              /\ args' = args
         /\ Return(TRUE) \/ Return(FALSE) =>
              /\ pc' \in Labels /\ spins' \in 0 .. AHCI_IO_TIMEOUT
              /\ args' \in Requests \union {NoRequest}
              /\ UNCHANGED <<port_num, g_device_count>>
<1>1. /\ pc \in Labels
      /\ g_device_count \in 0 .. AHCI_MAX_PORTS /\ port_num \in 0 .. AHCI_MAX_PORTS
      /\ spins \in 0 .. AHCI_IO_TIMEOUT
      /\ args \in Requests \union {NoRequest}
  BY DEF TypeOK, DriverTypeOK
<1>2. "probe" \in Labels /\ "idle" \in Labels /\ "halted" \in Labels
  BY DEF Labels
<1>3. 0 \in 0 .. AHCI_IO_TIMEOUT
  BY NumbersOK
<1>4. ASSUME NEW l \in Labels, Goto(l)
      PROVE  /\ pc' \in Labels /\ spins' \in 0 .. AHCI_IO_TIMEOUT
             /\ UNCHANGED <<port_num, g_device_count, args>>
  BY <1>3, <1>4 DEF Goto
<1>5. ASSUME Again
      PROVE  /\ pc' \in Labels /\ spins' \in 0 .. AHCI_IO_TIMEOUT
             /\ UNCHANGED <<port_num, g_device_count, args>>
  BY <1>1, <1>5, NumbersOK DEF Again, ctl
<1>6. ASSUME NextPort(TRUE) \/ NextPort(FALSE), port_num \in Ports
      PROVE  /\ pc' \in Labels /\ spins' \in 0 .. AHCI_IO_TIMEOUT
             /\ port_num' \in 0 .. AHCI_MAX_PORTS
             /\ g_device_count' \in 0 .. AHCI_MAX_PORTS
             /\ args' = args
  <2>1. g_device_count <= port_num
    BY DEF DriverInv, DeviceInv
  <2>2. /\ pc' = "probe" /\ spins' = 0 /\ port_num' = port_num + 1 /\ args' = args
        /\ g_device_count' = g_device_count + 1 \/ g_device_count' = g_device_count
    BY <1>6 DEF NextPort
  <2>3. port_num < AHCI_MAX_PORTS /\ port_num \in Nat
    BY <1>6, NumbersOK DEF Ports
  <2>4. /\ port_num + 1 \in 0 .. AHCI_MAX_PORTS
        /\ g_device_count + 1 \in 0 .. AHCI_MAX_PORTS
    BY <1>1, <2>1, <2>3, NumbersOK
  <2> QED BY <1>1, <1>2, <1>3, <2>2, <2>4
<1>7. ASSUME Return(TRUE) \/ Return(FALSE)
      PROVE  /\ pc' \in Labels /\ spins' \in 0 .. AHCI_IO_TIMEOUT
             /\ args' \in Requests \union {NoRequest}
             /\ UNCHANGED <<port_num, g_device_count>>
  <2>1. /\ pc' = "idle" \/ pc' = "halted"
        /\ args' = NoRequest \/ args' = args
        /\ spins' = 0 /\ UNCHANGED <<port_num, g_device_count>>
    BY <1>7 DEF Return
  <2> QED BY <1>1, <1>2, <1>3, <2>1
<1> QED BY <1>4, <1>5, <1>6, <1>7
\* What the boot steps write to tables and registers is of its type.
LEMMA BootsTypeOK == TypeOK /\ DriverInv /\ Boots => TypeOK'
<1> SUFFICES ASSUME TypeOK, DriverInv, Boots PROVE TypeOK'
  OBVIOUS
<1> DEFINE Entry == [port : Ports, clb : Pages, ctba : [Slots -> Pages]]
<1>1. UNCHANGED <<present, disk, moved, buf>>
  BY DEF Boots
<1>2. /\ g_devices \in [Ports -> Entry] /\ slot \in Slots
      /\ port_num \in 0 .. AHCI_MAX_PORTS
      /\ g_device_count \in 0 .. AHCI_MAX_PORTS /\ args \in Requests \union {NoRequest}
  BY DEF TypeOK, DriverTypeOK
<1>3. pc \in {"stop", "alloc", "start"} => port_num \in present /\ port_num \in Ports
  BY DEF DriverInv, BootInv, TypeOK, RegsTypeOK
<1>4. /\ "stop" \in Labels /\ "alloc" \in Labels /\ "start" \in Labels
      /\ "idle" \in Labels /\ "no disk" \in Labels
  BY DEF Labels
<1>5. CASE ProbeAbsent
  <2>1. UNCHANGED <<pc, spins, args, devs, slot, regs, memory>>
    BY <1>5 DEF ProbeAbsent
  <2>2. port_num' \in 0 .. AHCI_MAX_PORTS
    BY <1>5, NumbersOK DEF ProbeAbsent, Ports
  <2>3. RegsTypeOK' /\ MemoryTypeOK'
    BY <1>1, <2>1 DEF TypeOK, RegsTypeOK, MemoryTypeOK, regs, memory
  <2>4. DriverTypeOK'
    BY <2>1, <2>2 DEF TypeOK, DriverTypeOK, devs
  <2> QED BY <2>3, <2>4 DEF TypeOK
<1>6. CASE ProbePresent
  <2>1. UNCHANGED <<slot, ci, tfes, bsy, clb, memory>> /\ Goto("stop")
    BY <1>6 DEF ProbePresent
  <2>2. port_num \in Ports
    BY <1>6 DEF ProbePresent, TypeOK, RegsTypeOK
  <2>3. g_devices' \in [Ports -> Entry]
    BY <1>2, <1>6, <2>2 DEF ProbePresent
  <2>4. cmd' \in [Ports -> SUBSET Flags]
    BY <1>6 DEF ProbePresent, TypeOK, RegsTypeOK
  <2>5. RegsTypeOK' /\ MemoryTypeOK'
    BY <1>1, <2>1, <2>4 DEF TypeOK, RegsTypeOK, MemoryTypeOK, memory
  <2>6. DriverTypeOK'
    BY <1>2, <1>4, <2>1, <2>3, ControlTypeOK DEF DriverTypeOK
  <2> QED BY <2>5, <2>6 DEF TypeOK
<1>7. CASE ahci_port_stop
  <2>1. UNCHANGED <<g_devices, slot, regs, memory>>
    BY <1>7 DEF ahci_port_stop
  <2>2. Goto("alloc") \/ Again \/ NextPort(FALSE)
    BY <1>7 DEF ahci_port_stop
  <2>3. port_num \in Ports
    BY <1>3, <1>7 DEF ahci_port_stop
  <2>4. RegsTypeOK' /\ MemoryTypeOK'
    BY <1>1, <2>1 DEF TypeOK, RegsTypeOK, MemoryTypeOK, regs, memory
  <2>5. DriverTypeOK'
    BY <1>2, <1>4, <2>1, <2>2, <2>3, ControlTypeOK DEF DriverTypeOK
  <2> QED BY <2>4, <2>5 DEF TypeOK
<1>8. CASE ahci_port_init
  <2>1. UNCHANGED <<slot, cmd, ci, tfes, bsy, tbl>> /\ (Goto("start") \/ NextPort(FALSE))
    BY <1>8 DEF ahci_port_init
  <2>2. port_num \in Ports
    BY <1>3, <1>8 DEF ahci_port_init
  <2>3. PICK first \in Pages : first = port_num * PortPages + 1
    BY <2>2, PortPagesArePages
  <2>4. \A s \in Slots : first + 2 + s \in Pages
    BY <2>2, <2>3, PortPagesArePages
  <2>5. 0 \in Pages
    BY <2>3, NumbersOK DEF Pages
  <2>6. \/ /\ g_devices' = [g_devices EXCEPT ![g_device_count] =
                  [port |-> @.port, clb |-> first, ctba |-> [s \in Slots |->
                      IF free >= 3 + s
                      THEN IF free >= 3 + s THEN first + 2 + s ELSE 0
                      ELSE @.ctba[s]]]]
           /\ clb' = [clb EXCEPT ![port_num] = first]
           /\ hdr' = [hdr EXCEPT ![first] = [s \in Slots |->
                  [ctba |-> IF free >= 3 + s THEN first + 2 + s ELSE 0, w |-> FALSE]]]
        \/ UNCHANGED <<g_devices, clb, hdr>>
    BY <1>8, <2>3 DEF ahci_port_init
  <2>7. g_devices' \in [Ports -> Entry]
    BY <1>2, <2>4, <2>5, <2>6
  <2>8. clb' \in [Ports -> Pages]
    BY <2>6 DEF TypeOK, RegsTypeOK
  <2>9. hdr' \in [Pages -> [Slots -> [ctba : Pages, w : BOOLEAN]]]
    <3>1. [s \in Slots |->
             [ctba |-> IF free >= 3 + s THEN first + 2 + s ELSE 0, w |-> FALSE]]
             \in [Slots -> [ctba : Pages, w : BOOLEAN]]
      BY <2>4, <2>5
    <3> QED BY <2>6, <3>1 DEF TypeOK, MemoryTypeOK
  <2>10. free' \in Nat
    <3>1. free' = Max({0, free - PortPages})
      BY <1>8 DEF ahci_port_init
    <3>2. PICK d \in Int : d = free - PortPages
      BY NumbersOK DEF TypeOK, MemoryTypeOK
    <3>3. \E x \in {0, d} : \A y \in {0, d} : x >= y
      BY <3>2
    <3>4. Max({0, d}) \in {0, d} /\ \A y \in {0, d} : Max({0, d}) >= y
      BY <3>3, Zenon DEF Max
    <3>5. PICK m \in {0, d} : m = Max({0, d}) /\ m >= 0
      BY <3>4
    <3> QED BY <3>1, <3>2, <3>5
  <2>11. RegsTypeOK'
    BY <1>1, <2>1, <2>8 DEF TypeOK, RegsTypeOK
  <2>12. MemoryTypeOK'
    BY <1>1, <2>1, <2>9, <2>10 DEF TypeOK, MemoryTypeOK
  <2>13. DriverTypeOK'
    BY <1>2, <1>4, <2>1, <2>2, <2>7, ControlTypeOK DEF DriverTypeOK
  <2> QED BY <2>11, <2>12, <2>13 DEF TypeOK
<1>9. CASE ahci_port_start
  <2>1. /\ UNCHANGED <<g_devices, slot, ci, tfes, bsy, clb, memory>>
        /\ NextPort(TRUE) \/ NextPort(FALSE) \/ Again
    BY <1>9 DEF ahci_port_start
  <2>2. port_num \in Ports
    BY <1>3, <1>9 DEF ahci_port_start
  <2>3. cmd' \in [Ports -> SUBSET Flags]
    BY <1>9, <2>2 DEF ahci_port_start, TypeOK, RegsTypeOK, Flags
  <2>4. RegsTypeOK' /\ MemoryTypeOK'
    BY <1>1, <2>1, <2>3 DEF TypeOK, RegsTypeOK, MemoryTypeOK, memory
  <2>5. DriverTypeOK'
    BY <1>2, <2>1, <2>2, ControlTypeOK DEF DriverTypeOK
  <2> QED BY <2>4, <2>5 DEF TypeOK
<1>10. CASE InitDone
  <2>1. /\ UNCHANGED <<g_devices, slot, regs, memory>>
        /\ Goto("idle") \/ Goto("no disk")
    BY <1>10 DEF InitDone
  <2>2. RegsTypeOK' /\ MemoryTypeOK'
    BY <1>1, <2>1 DEF TypeOK, RegsTypeOK, MemoryTypeOK, regs, memory
  <2>3. DriverTypeOK'
    BY <1>2, <1>4, <2>1, ControlTypeOK DEF DriverTypeOK
  <2> QED BY <2>2, <2>3 DEF TypeOK
<1> QED BY <1>5, <1>6, <1>7, <1>8, <1>9, <1>10 DEF Boots

\* So is what a request writes.
LEMMA RequestsTypeOK == TypeOK /\ DriverInv /\ ahci_do_rw => TypeOK'
<1> SUFFICES ASSUME TypeOK, DriverInv, ahci_do_rw PROVE TypeOK'
  OBVIOUS
<1>1. UNCHANGED <<present, disk, moved, g_devices, buf>>
  BY DEF ahci_do_rw
<1>2. /\ g_devices \in [Ports -> [port : Ports, clb : Pages, ctba : [Slots -> Pages]]]
      /\ slot \in Slots
      /\ port_num \in 0 .. AHCI_MAX_PORTS /\ spins \in 0 .. AHCI_IO_TIMEOUT
      /\ g_device_count \in 0 .. AHCI_MAX_PORTS /\ args \in Requests \union {NoRequest}
  BY DEF TypeOK, DriverTypeOK
<1>3. "not busy" \in Labels /\ "wait" \in Labels /\ "check" \in Labels
  BY DEF Labels
<1>4. dev.port \in Ports /\ dev.clb \in Pages /\ dev.ctba \in [Slots -> Pages]
  BY <1>2, NumbersOK DEF dev
<1>5. CASE Prepare
  <2>1. ahci_find_free_slot(dev.port) = {0}
    BY <1>5, PreparesSlotZero DEF Prepare
  <2>2. PICK s \in Slots :
          /\ slot' = s
          /\ hdr' = [hdr EXCEPT ![dev.clb][s] = Header(@, args.write)]
          /\ tbl' = [tbl EXCEPT ![dev.ctba[s]] = args]
          /\ Goto("not busy")
          /\ UNCHANGED <<regs, free>>
    BY <1>5, <2>1, NumbersOK DEF Prepare
  <2>3. args \in Requests /\ args.write \in BOOLEAN
    <3>1. args # NoRequest
      BY <1>5 DEF Prepare, DriverInv, RequestInv
    <3> QED BY <1>2, <3>1 DEF Requests
  <2>4. hdr' \in [Pages -> [Slots -> [ctba : Pages, w : BOOLEAN]]]
    BY <1>4, <2>2, <2>3 DEF Header, TypeOK, MemoryTypeOK
  <2>5. tbl' \in [Pages -> Requests]
    BY <2>2, <2>3 DEF TypeOK, MemoryTypeOK
  <2>6. RegsTypeOK'
    BY <1>1, <2>2 DEF TypeOK, RegsTypeOK, regs
  <2>7. MemoryTypeOK'
    BY <1>1, <2>2, <2>4, <2>5 DEF TypeOK, MemoryTypeOK
  <2>8. DriverTypeOK'
    BY <1>1, <1>2, <1>3, <2>2, ControlTypeOK DEF DriverTypeOK
  <2> QED BY <2>6, <2>7, <2>8 DEF TypeOK
<1>6. CASE WaitNotBusy
  <2>1. UNCHANGED <<slot, cmd, tfes, bsy, clb, memory>>
    BY <1>6 DEF WaitNotBusy
  <2>2. Goto("wait") \/ Again \/ Return(FALSE)
    BY <1>6 DEF WaitNotBusy
  <2>3. ci' \in [Ports -> SUBSET Slots]
    <3>1. ci' = ci \/ ci' = [ci EXCEPT ![dev.port] = @ \union {slot}]
      BY <1>6 DEF WaitNotBusy
    <3>2. ci \in [Ports -> SUBSET Slots]
      BY DEF TypeOK, RegsTypeOK
    <3> QED BY <1>2, <1>4, <3>1, <3>2
  <2>4. RegsTypeOK' /\ MemoryTypeOK'
    BY <1>1, <2>1, <2>3 DEF TypeOK, RegsTypeOK, MemoryTypeOK, memory
  <2>5. DriverTypeOK'
    BY <1>1, <1>2, <1>3, <2>1, <2>2, ControlTypeOK DEF DriverTypeOK
  <2> QED BY <2>4, <2>5 DEF TypeOK
<1>7. CASE WaitDone
  <2>1. UNCHANGED <<slot, regs, memory>>
    BY <1>7 DEF WaitDone
  <2>2. \/ pc' = "check" /\ UNCHANGED <<spins, port_num, g_device_count, args>>
        \/ Return(TRUE)
    BY <1>7 DEF WaitDone
  <2>3. RegsTypeOK' /\ MemoryTypeOK'
    BY <1>1, <2>1 DEF TypeOK, RegsTypeOK, MemoryTypeOK, regs, memory
  <2>4. DriverTypeOK'
    BY <1>1, <1>2, <1>3, <2>1, <2>2, ControlTypeOK DEF DriverTypeOK
  <2> QED BY <2>3, <2>4 DEF TypeOK
<1>8. CASE CheckError
  <2>1. UNCHANGED <<slot, regs, memory>>
    BY <1>8 DEF CheckError
  <2>2. \/ /\ pc' = "wait" /\ spins' = spins + 1 /\ ~GivesUp
           /\ UNCHANGED <<port_num, g_device_count, args>>
        \/ Return(FALSE)
    BY <1>8 DEF CheckError
  <2>3. RegsTypeOK' /\ MemoryTypeOK'
    BY <1>1, <2>1 DEF TypeOK, RegsTypeOK, MemoryTypeOK, regs, memory
  <2>4. ~GivesUp => spins + 1 \in 0 .. AHCI_IO_TIMEOUT
    BY <1>2, NumbersOK DEF GivesUp
  <2>5. DriverTypeOK'
    BY <1>1, <1>2, <1>3, <2>1, <2>2, <2>4, ControlTypeOK DEF DriverTypeOK
  <2> QED BY <2>3, <2>5 DEF TypeOK
<1> QED BY <1>5, <1>6, <1>7, <1>8 DEF ahci_do_rw

\* And what the controller does.
LEMMA DevicesTypeOK == TypeOK /\ (\E p \in present : Device(p)) => TypeOK'
<1> SUFFICES ASSUME TypeOK, NEW p \in present, Device(p) PROVE TypeOK'
  OBVIOUS
<1>1. UNCHANGED <<present, memory, devs, pc, port_num, spins, slot, args>>
  BY DEF Device
<1>2. DriverTypeOK'
  BY <1>1 DEF TypeOK, DriverTypeOK, devs
<1>3. p \in Ports
  BY DEF TypeOK, RegsTypeOK
<1>4. CASE EngineFollows(p)
  <2>1. UNCHANGED <<tfes, bsy, clb, disk, moved, buf>>
    BY <1>4 DEF EngineFollows
  <2>2. cmd' = Flag(p, "CR", "ST" \in cmd[p]) \/ cmd' = Flag(p, "FR", "FRE" \in cmd[p])
    BY <1>4 DEF EngineFollows
  <2>3. cmd' \in [Ports -> SUBSET Flags]
    BY <2>2 DEF Flag, Flags, TypeOK, RegsTypeOK
  <2>4. ci' \in [Ports -> SUBSET Slots]
    BY <1>4 DEF EngineFollows, TypeOK, RegsTypeOK
  <2> QED BY <1>1, <1>2, <2>1, <2>3, <2>4
          DEF TypeOK, RegsTypeOK, MemoryTypeOK, memory
<1>5. CASE BecomesReady(p)
  BY <1>1, <1>2, <1>5 DEF BecomesReady, TypeOK, RegsTypeOK, MemoryTypeOK, memory
<1>6. CASE Errs(p)
  BY <1>1, <1>2, <1>6 DEF Errs, TypeOK, RegsTypeOK, MemoryTypeOK, memory
<1>7. ASSUME NEW s \in Slots, Transfers(p, s) PROVE TypeOK'
  <2>1. UNCHANGED regs /\ moved' = TRUE
    BY <1>7 DEF Transfers
  <2>2. PICK t \in Requests : /\ \/ disk' = [disk EXCEPT ![p][t.lba] = buf]
                                 \/ disk' = disk
                              /\ buf' = disk[p][t.lba] \/ buf' = buf
    <3>1. clb[p] \in Pages
      BY <1>3 DEF TypeOK, RegsTypeOK
    <3>2. hdr[clb[p]][s].ctba \in Pages
      BY <3>1 DEF TypeOK, MemoryTypeOK
    <3>3. tbl[hdr[clb[p]][s].ctba] \in Requests
      BY <3>2 DEF TypeOK, MemoryTypeOK
    <3> QED BY <1>7, <3>3 DEF Transfers
  <2>3. t.lba \in Lbas
    BY DEF Requests
  <2>4. disk' \in [Ports -> [Lbas -> Values]] /\ buf' \in Values
    <3>1. disk \in [Ports -> [Lbas -> Values]] /\ buf \in Values
      BY DEF TypeOK, MemoryTypeOK
    <3>2. PICK l \in Lbas : l = t.lba
      BY <2>3
    <3>3. [disk EXCEPT ![p][l] = buf] \in [Ports -> [Lbas -> Values]]
      BY <1>3, <3>1
    <3> QED BY <1>3, <2>2, <3>1, <3>2, <3>3
  <2>5. RegsTypeOK'
    BY <1>1, <2>1 DEF TypeOK, RegsTypeOK, regs
  <2>6. MemoryTypeOK'
    BY <1>1, <2>1, <2>4 DEF TypeOK, MemoryTypeOK, memory
  <2> QED BY <1>2, <2>5, <2>6 DEF TypeOK
<1>8. ASSUME NEW s \in Slots, Completes(p, s) PROVE TypeOK'
  BY <1>1, <1>2, <1>8 DEF Completes, TypeOK, RegsTypeOK, MemoryTypeOK, memory
<1> QED BY <1>4, <1>5, <1>6, <1>7, <1>8 DEF Device

\* Every step keeps the types.
LEMMA NextTypeOK == TypeOK /\ DriverInv /\ [Next]_vars => TypeOK'
<1> SUFFICES ASSUME TypeOK, DriverInv, [Next]_vars PROVE TypeOK'
  OBVIOUS
<1>1. ASSUME NEW r \in Requests, NEW v \in Values, Request(r, v) PROVE TypeOK'
  <2>1. UNCHANGED <<present, regs, memory, disk, devs, port_num, spins, slot>>
    BY <1>1 DEF Request
  <2>2. pc' = "prepare" /\ args' = r /\ moved' = FALSE /\ (buf' = v \/ buf' = buf)
    BY <1>1 DEF Request
  <2>3. RegsTypeOK'
    BY <2>1 DEF TypeOK, RegsTypeOK, regs
  <2>4. MemoryTypeOK'
    BY <2>1, <2>2 DEF TypeOK, MemoryTypeOK, memory
  <2>5. "prepare" \in Labels
    BY DEF Labels
  <2>6. DriverTypeOK'
    BY <2>1, <2>2, <2>5 DEF TypeOK, DriverTypeOK, devs
  <2> QED BY <2>3, <2>4, <2>6 DEF TypeOK
<1>2. CASE UNCHANGED vars
  BY <1>2 DEF vars, regs, memory, devs, TypeOK, RegsTypeOK, MemoryTypeOK, DriverTypeOK
<1> QED BY <1>1, <1>2, BootsTypeOK, RequestsTypeOK, DevicesTypeOK DEF Next, Driver
-----------------------------------------------------------------------------
(* The inductive invariant.                                                  *)

\* The entries that count are entries of the table.
LEMMA CountedEntries ==
  ASSUME TypeOK, NEW d \in 0 .. g_device_count - 1
  PROVE  /\ d \in Ports /\ g_devices[d].port \in Ports
         /\ g_devices[d].clb \in Pages
  BY NumbersOK DEF TypeOK, DriverTypeOK, Ports

\* What is set up stays so while its list, its port and its entry are left alone.
LEMMA SetUpKept ==
  ASSUME NEW d, SetUp(d), g_devices'[d] = g_devices[d],
         clb'[g_devices[d].port] = clb[g_devices[d].port],
         \A s \in Slots : hdr'[g_devices[d].clb][s].ctba = hdr[g_devices[d].clb][s].ctba
  PROVE  SetUp(d)'
  BY DEF SetUp

\* A step that leaves the entries, the lists and ST and FRE alone keeps them.
LEMMA DevicesKept ==
  ASSUME TypeOK, TypeOK', DeviceInv, UNCHANGED <<g_devices, g_device_count, clb>>,
         port_num <= port_num',
         \A g \in Pages, s \in Slots : hdr'[g][s].ctba = hdr[g][s].ctba,
         \A p \in Ports : {"ST", "FRE"} \subseteq cmd[p] => {"ST", "FRE"} \subseteq cmd'[p]
  PROVE  DeviceInv'
<1>1. port_num \in Int /\ port_num' \in Int /\ g_device_count \in Int
  BY DEF TypeOK, DriverTypeOK
<1>2. g_device_count' <= port_num'
  BY <1>1 DEF DeviceInv
<1>3. ASSUME NEW d \in 0 .. g_device_count - 1
      PROVE  /\ SetUp(d)'
             /\ {"ST", "FRE"} \subseteq cmd'[g_devices[d].port]
             /\ g_devices[d].port < port_num'
             /\ \A e \in 0 .. g_device_count - 1 :
                  g_devices[e].port = g_devices[d].port => d = e
  <2>1. g_devices[d].port \in Ports /\ g_devices[d].clb \in Pages
    BY CountedEntries
  <2>2. /\ SetUp(d)
        /\ {"ST", "FRE"} \subseteq cmd[g_devices[d].port]
        /\ g_devices[d].port < port_num
        /\ \A e \in 0 .. g_device_count - 1 :
             g_devices[e].port = g_devices[d].port => d = e
    BY DEF DeviceInv
  <2>3. SetUp(d)'
    BY <2>1, <2>2, SetUpKept
  <2>4. g_devices[d].port < port_num'
    <3>1. PICK q \in Nat : q = g_devices[d].port
      BY <2>1, NumbersOK
    <3>2. q < port_num
      BY <2>2, <3>1
    <3>3. q < port_num'
      BY <1>1, <3>2
    <3> QED BY <3>1, <3>3
  <2> QED BY <2>1, <2>2, <2>3, <2>4
<1> QED BY <1>2, <1>3 DEF DeviceInv

\* During ahci_init() there is neither a request nor a command.
LEMMA BootHasNoRequest ==
  ASSUME DriverInv, pc \in {"probe", "stop", "alloc", "start"},
         UNCHANGED <<args, ci>>,
         \/ pc' \in {"probe", "stop", "alloc", "start", "no disk"}
         \/ pc' = "idle" /\ g_device_count' > 0
  PROVE  RequestInv'
<1>1. args = NoRequest /\ \A p \in Ports : ci[p] = {}
  BY DEF DriverInv, RequestInv
<1>2. args' = NoRequest /\ \A p \in Ports : ci'[p] = {}
  BY <1>1
<1> QED BY <1>2 DEF RequestInv

\* ahci_init() keeps the invariant: a port that fails leaves its entry to the
\* next one and disturbs none of those that run.
LEMMA BootsDriverInv == TypeOK /\ TypeOK' /\ DriverInv /\ Boots => DriverInv'
<1> SUFFICES ASSUME TypeOK, TypeOK', DriverInv, Boots PROVE DriverInv'
  OBVIOUS
<1>1. /\ UNCHANGED present
      /\ port_num \in 0 .. AHCI_MAX_PORTS /\ g_device_count \in 0 .. AHCI_MAX_PORTS
      /\ DeviceInv /\ BootInv /\ g_device_count <= port_num
  BY DEF Boots, DriverInv, DeviceInv, TypeOK, DriverTypeOK
<1>2. pc \in {"stop", "alloc", "start"} =>
        /\ port_num \in present /\ port_num \in Ports
        /\ g_devices[g_device_count].port = port_num
        /\ g_device_count \in Ports
  <2>1. present \subseteq Ports
    BY DEF TypeOK, RegsTypeOK
  <2> QED BY <1>1, <2>1, NumbersOK DEF BootInv, Ports
<1>3. CASE ProbeAbsent
  <2>1. /\ pc = "probe" /\ pc' = "probe" /\ port_num' = port_num + 1
        /\ UNCHANGED <<args, ci, cmd, clb, hdr, g_devices, g_device_count>>
    BY <1>3 DEF ProbeAbsent, regs, memory, devs
  <2>2. DeviceInv'
    BY <1>1, <2>1, NumbersOK, DevicesKept
  <2>3. BootInv'
    BY <2>1 DEF BootInv
  <2>4. RequestInv'
    BY <2>1, BootHasNoRequest
  <2> QED BY <2>2, <2>3, <2>4 DEF DriverInv
<1>4. CASE ProbePresent
  <2>1. /\ pc = "probe" /\ pc' = "stop" /\ port_num \in present
        /\ g_devices' = [g_devices EXCEPT ![g_device_count] =
                           [port |-> port_num, clb |-> @.clb, ctba |-> @.ctba]]
        /\ cmd' = [cmd EXCEPT ![port_num] = @ \ {"ST", "FRE"}]
        /\ UNCHANGED <<port_num, g_device_count, args, ci, clb, hdr>>
    BY <1>4 DEF ProbePresent, Goto, memory
  <2>2. port_num \in Ports /\ g_device_count \in Ports
    <3>1. port_num \in Ports
      BY <2>1 DEF TypeOK, RegsTypeOK
    <3> QED BY <1>1, <3>1, NumbersOK DEF Ports
  <2>3. g_devices'[g_device_count].port = port_num
    BY <2>1, <2>2 DEF TypeOK, DriverTypeOK
  <2>4. ASSUME NEW d \in 0 .. g_device_count - 1
        PROVE  /\ SetUp(d)' /\ g_devices'[d] = g_devices[d]
               /\ {"ST", "FRE"} \subseteq cmd'[g_devices[d].port]
    <3>1. d \in Ports /\ g_devices[d].port \in Ports /\ d # g_device_count
      BY <1>1, CountedEntries, NumbersOK
    <3>2. g_devices'[d] = g_devices[d]
      BY <2>1, <3>1 DEF TypeOK, DriverTypeOK
    <3>3. SetUp(d) /\ {"ST", "FRE"} \subseteq cmd[g_devices[d].port]
          /\ g_devices[d].port < port_num
      BY <1>1 DEF DeviceInv
    <3>4. g_devices[d].port # port_num
      BY <2>2, <3>1, <3>3, NumbersOK
    <3>5. cmd'[g_devices[d].port] = cmd[g_devices[d].port]
      BY <2>1, <3>1, <3>4 DEF TypeOK, RegsTypeOK
    <3>6. SetUp(d)'
      BY <2>1, <3>2, <3>3, SetUpKept
    <3> QED BY <3>2, <3>3, <3>5, <3>6
  <2>5. DeviceInv'
    BY <1>1, <2>1, <2>4 DEF DeviceInv
  <2>6. BootInv'
    BY <1>1, <2>1, <2>3 DEF BootInv
  <2>7. RequestInv'
    BY <2>1, BootHasNoRequest
  <2> QED BY <2>5, <2>6, <2>7 DEF DriverInv
<1>5. CASE ahci_port_stop
  <2>1. /\ pc = "stop" /\ UNCHANGED <<args, ci, cmd, clb, hdr, g_devices, g_device_count>>
        /\ \/ pc' \in {"stop", "alloc"} /\ port_num' = port_num
           \/ pc' = "probe" /\ port_num' = port_num + 1
    BY <1>5 DEF ahci_port_stop, Goto, Again, NextPort, ctl, regs, memory
  <2>2. DeviceInv'
    BY <1>1, <2>1, NumbersOK, DevicesKept
  <2>3. BootInv'
    BY <1>1, <1>2, <2>1 DEF BootInv
  <2>4. RequestInv'
    BY <2>1, BootHasNoRequest
  <2> QED BY <2>2, <2>3, <2>4 DEF DriverInv
<1>6. CASE ahci_port_init
  <2>1. port_num \in Ports /\ g_device_count \in Ports /\ port_num \in present
        /\ g_devices[g_device_count].port = port_num
    BY <1>2, <1>6 DEF ahci_port_init
  <2>2. PICK first \in Pages : first = port_num * PortPages + 1
    BY <2>1, PortPagesArePages
  <2>3. /\ pc = "alloc" /\ UNCHANGED <<args, ci, cmd, g_device_count>>
        /\ \/ pc' = "start" /\ port_num' = port_num /\ free >= PortPages
           \/ pc' = "probe" /\ port_num' = port_num + 1
    BY <1>6 DEF ahci_port_init, Goto, NextPort
  <2>4. \/ /\ g_devices' = [g_devices EXCEPT ![g_device_count] =
                  [port |-> @.port, clb |-> first, ctba |-> [s \in Slots |->
                      IF free >= 3 + s
                      THEN IF free >= 3 + s THEN first + 2 + s ELSE 0
                      ELSE @.ctba[s]]]]
           /\ clb' = [clb EXCEPT ![port_num] = first]
           /\ hdr' = [hdr EXCEPT ![first] = [s \in Slots |->
                  [ctba |-> IF free >= 3 + s THEN first + 2 + s ELSE 0, w |-> FALSE]]]
        \/ UNCHANGED <<g_devices, clb, hdr>> /\ ~(free >= 1)
    BY <1>6, <2>2 DEF ahci_port_init
  <2>5. g_devices'[g_device_count].port = port_num
    BY <2>1, <2>4 DEF TypeOK, DriverTypeOK
  <2>6. ASSUME NEW d \in 0 .. g_device_count - 1
        PROVE  /\ SetUp(d)' /\ g_devices'[d] = g_devices[d]
               /\ {"ST", "FRE"} \subseteq cmd'[g_devices[d].port]
    <3>1. /\ d \in Ports /\ g_devices[d].port \in Ports /\ d # g_device_count
          /\ g_devices[d].clb \in Pages
      BY <1>1, CountedEntries, NumbersOK
    <3>2. g_devices'[d] = g_devices[d]
      BY <2>4, <3>1 DEF TypeOK, DriverTypeOK
    <3>3. SetUp(d) /\ {"ST", "FRE"} \subseteq cmd[g_devices[d].port]
          /\ g_devices[d].port < port_num
      BY <1>1 DEF DeviceInv
    <3>4. g_devices[d].port # port_num
      BY <2>1, <3>1, <3>3, NumbersOK
    <3>5. g_devices[d].clb # first
      <4>1. g_devices[d].clb = g_devices[d].port * PortPages + 1
        BY <3>3 DEF SetUp
      <4>2. PICK p \in Nat, q \in Nat : p = g_devices[d].port /\ q = port_num /\ p < q
        BY <2>1, <3>1, <3>3, NumbersOK
      <4>3. p * PortPages + PortPages <= q * PortPages
        BY <4>2, PagesApart
      <4>4. PICK a \in Nat, b \in Nat : a = p * PortPages /\ b = q * PortPages
        BY <4>2, NumbersOK
      <4>5. PortPages \in Nat /\ PortPages > 0
        BY NumbersOK DEF PortPages
      <4>6. a + PortPages <= b
        BY <4>3, <4>4
      <4>7. a + 1 # b + 1
        BY <4>4, <4>5, <4>6
      <4> QED BY <2>2, <4>1, <4>2, <4>4, <4>7
    <3>6. /\ clb'[g_devices[d].port] = clb[g_devices[d].port]
          /\ hdr'[g_devices[d].clb] = hdr[g_devices[d].clb]
      BY <2>4, <3>1, <3>4, <3>5 DEF TypeOK, RegsTypeOK, MemoryTypeOK
    <3>7. SetUp(d)'
      BY <3>2, <3>3, <3>6, SetUpKept
    <3> QED BY <2>3, <3>2, <3>3, <3>7
  <2>7. DeviceInv'
    <3>1. g_device_count' <= port_num' /\ port_num <= port_num'
      BY <1>1, <2>3, NumbersOK
    <3>2. ASSUME NEW d \in 0 .. g_device_count - 1
          PROVE  /\ g_devices[d].port < port_num'
                 /\ \A e \in 0 .. g_device_count - 1 :
                      g_devices[e].port = g_devices[d].port => d = e
      <4>1. g_devices[d].port \in Ports
        BY CountedEntries
      <4>2. /\ g_devices[d].port < port_num
            /\ \A e \in 0 .. g_device_count - 1 :
                      g_devices[e].port = g_devices[d].port => d = e
        BY <1>1 DEF DeviceInv
      <4>3. PICK q \in Nat : q = g_devices[d].port
        BY <4>1, NumbersOK
      <4>4. q < port_num'
        BY <1>1, <2>3, <4>2, <4>3, NumbersOK
      <4> QED BY <4>2, <4>3, <4>4
    <3> QED BY <2>3, <2>6, <3>1, <3>2 DEF DeviceInv
  <2>8. pc' = "start" => SetUp(g_device_count)'
    <3> SUFFICES ASSUME pc' = "start" PROVE SetUp(g_device_count)'
      OBVIOUS
    <3>1. free >= PortPages /\ free \in Nat
      BY <2>3 DEF TypeOK, MemoryTypeOK
    <3>2. free >= 1 /\ \A s \in Slots : free >= 3 + s
      BY <3>1, NumbersOK DEF PortPages, Slots
    <3>3. /\ g_devices'[g_device_count] =
               [port |-> port_num, clb |-> first, ctba |-> [s \in Slots |-> first + 2 + s]]
          /\ clb'[port_num] = first
          /\ \A s \in Slots : hdr'[first][s].ctba = first + 2 + s
      <4>1. g_devices'[g_device_count] =
              [port |-> port_num, clb |-> first, ctba |-> [s \in Slots |->
                      IF free >= 3 + s
                      THEN IF free >= 3 + s THEN first + 2 + s ELSE 0
                      ELSE g_devices[g_device_count].ctba[s]]]
        BY <2>1, <2>4, <3>2 DEF TypeOK, DriverTypeOK
      <4>2. [s \in Slots |->
                      IF free >= 3 + s
                      THEN IF free >= 3 + s THEN first + 2 + s ELSE 0
                      ELSE g_devices[g_device_count].ctba[s]]
            = [s \in Slots |-> first + 2 + s]
        BY <3>2
      <4>3. hdr'[first] = [s \in Slots |->
              [ctba |-> IF free >= 3 + s THEN first + 2 + s ELSE 0, w |-> FALSE]]
        BY <2>4, <3>2 DEF TypeOK, MemoryTypeOK
      <4>4. \A s \in Slots : hdr'[first][s].ctba = first + 2 + s
        BY <3>2, <4>3
      <4>5. clb'[port_num] = first
        BY <2>1, <2>4, <3>2 DEF TypeOK, RegsTypeOK
      <4> QED BY <4>1, <4>2, <4>4, <4>5
    <3> QED BY <2>2, <2>3, <3>3 DEF SetUp
  <2>9. BootInv'
    BY <1>1, <2>1, <2>3, <2>5, <2>8 DEF BootInv
  <2>10. RequestInv'
    BY <2>3, BootHasNoRequest
  <2> QED BY <2>7, <2>9, <2>10 DEF DriverInv
<1>7. CASE ahci_port_start
  <2>1. pc = "start" /\ UNCHANGED <<args, ci, clb, hdr, g_devices>>
    BY <1>7 DEF ahci_port_start, Again, NextPort, ctl, memory
  <2>2. port_num \in Ports /\ g_device_count \in Ports /\ SetUp(g_device_count)
        /\ g_devices[g_device_count].port = port_num
    BY <1>1, <1>2, <2>1 DEF BootInv
  <2>3. CASE NextPort(TRUE) /\ cmd' = [cmd EXCEPT ![port_num] = @ \union {"FRE", "ST"}]
    <3>1. /\ pc' = "probe" /\ port_num' = port_num + 1
          /\ g_device_count' = g_device_count + 1
      BY <2>3 DEF NextPort
    <3>2. ASSUME NEW d \in 0 .. g_device_count
          PROVE  /\ SetUp(d) /\ g_devices[d].port \in Ports
                 /\ {"ST", "FRE"} \subseteq cmd'[g_devices[d].port]
                 /\ g_devices[d].port < port_num'
                 /\ d < g_device_count => g_devices[d].port < port_num
      <4>1. CASE d = g_device_count
        BY <2>2, <2>3, <3>1, <4>1, NumbersOK DEF TypeOK, RegsTypeOK
      <4>2. CASE d \in 0 .. g_device_count - 1
        <5>1. g_devices[d].port \in Ports
          BY <4>2, CountedEntries
        <5>2. SetUp(d) /\ {"ST", "FRE"} \subseteq cmd[g_devices[d].port]
              /\ g_devices[d].port < port_num
          BY <1>1, <4>2 DEF DeviceInv
        <5>3. {"ST", "FRE"} \subseteq cmd'[g_devices[d].port]
          BY <2>2, <2>3, <5>1, <5>2 DEF TypeOK, RegsTypeOK
        <5>4. g_devices[d].port < port_num'
          <6>1. PICK q \in Nat : q = g_devices[d].port
            BY <5>1, NumbersOK
          <6>2. q < port_num /\ port_num \in Nat
            BY <2>2, <5>2, <6>1, NumbersOK
          <6>3. q < port_num'
            BY <3>1, <6>2
          <6> QED BY <6>1, <6>3
        <5> QED BY <5>1, <5>2, <5>3, <5>4
      <4> QED BY <1>1, <4>1, <4>2, NumbersOK
    <3>3. ASSUME NEW d \in 0 .. g_device_count, NEW e \in 0 .. g_device_count,
                 g_devices[e].port = g_devices[d].port
          PROVE  d = e
      <4>1. CASE d < g_device_count /\ e < g_device_count
        <5>1. d \in 0 .. g_device_count - 1 /\ e \in 0 .. g_device_count - 1
          BY <1>1, <4>1, NumbersOK
        <5> QED BY <1>1, <3>3, <5>1 DEF DeviceInv
      <4>2. \A k \in 0 .. g_device_count :
              k < g_device_count => g_devices[k].port # port_num
        BY <2>2, <3>2, NumbersOK
      <4> QED BY <1>1, <2>2, <3>3, <4>1, <4>2, NumbersOK
    <3>4. DeviceInv'
      <4>1. 0 .. g_device_count' - 1 = 0 .. g_device_count
        BY <1>1, <3>1, NumbersOK
      <4>2. \A d \in 0 .. g_device_count : SetUp(d)'
        BY <2>1, <3>2, SetUpKept
      <4>3. g_device_count' <= port_num'
        BY <1>1, <3>1, NumbersOK
      <4> QED BY <2>1, <3>2, <3>3, <4>1, <4>2, <4>3 DEF DeviceInv
    <3>5. BootInv'
      BY <3>1 DEF BootInv
    <3>6. RequestInv'
      BY <2>1, <3>1, BootHasNoRequest
    <3> QED BY <3>4, <3>5, <3>6 DEF DriverInv
  <2>4. CASE (Again \/ NextPort(FALSE)) /\ UNCHANGED cmd
    <3>1. /\ UNCHANGED g_device_count
          /\ \/ pc' = "start" /\ port_num' = port_num
             \/ pc' = "probe" /\ port_num' = port_num + 1
      BY <2>1, <2>4 DEF Again, NextPort, ctl
    <3>2. DeviceInv'
      BY <1>1, <2>1, <2>4, <3>1, NumbersOK, DevicesKept
    <3>3. BootInv'
      <4>1. PICK c \in Ports : c = g_device_count
        BY <2>2
      <4>2. SetUp(c)'
        BY <2>1, <2>2, <4>1, SetUpKept
      <4>3. SetUp(g_device_count)'
        BY <3>1, <4>1, <4>2 DEF SetUp
      <4> QED BY <1>1, <1>2, <2>1, <3>1, <4>3 DEF BootInv
    <3>4. RequestInv'
      BY <2>1, <3>1, BootHasNoRequest
    <3> QED BY <3>2, <3>3, <3>4 DEF DriverInv
  <2> QED BY <1>7, <2>3, <2>4 DEF ahci_port_start
<1>8. CASE InitDone
  <2>1. /\ pc = "probe"
        /\ UNCHANGED <<args, ci, cmd, clb, hdr, g_devices, g_device_count, port_num>>
        /\ \/ pc' = "idle" /\ g_device_count > 0
           \/ pc' = "no disk"
    BY <1>8 DEF InitDone, Goto, regs, memory
  <2>2. DeviceInv'
    <3>1. port_num' = port_num
      BY <2>1
    <3>2. port_num \in Int
      BY <1>1
    <3>3. port_num <= port_num'
      BY <3>1, <3>2
    <3> QED BY <1>1, <2>1, <3>3, DevicesKept
  <2>3. BootInv'
    BY <2>1 DEF BootInv
  <2>4. RequestInv'
    BY <2>1, BootHasNoRequest
  <2> QED BY <2>2, <2>3, <2>4 DEF DriverInv
<1> QED BY <1>3, <1>4, <1>5, <1>6, <1>7, <1>8 DEF Boots

\* A request keeps the invariant: the command is built in the slot in hand, and
\* is given up or reported done only as the device left it.
LEMMA RequestsDriverInv == TypeOK /\ TypeOK' /\ DriverInv /\ ahci_do_rw => DriverInv'
<1> SUFFICES ASSUME TypeOK, TypeOK', DriverInv, ahci_do_rw PROVE DriverInv'
  OBVIOUS
<1>1. UNCHANGED <<present, moved, g_devices>> /\ DeviceInv /\ RequestInv
  BY DEF ahci_do_rw, DriverInv
<1>2. /\ dev' = dev /\ dev.port \in Ports /\ dev.clb \in Pages
      /\ dev.ctba \in [Slots -> Pages] /\ slot \in Slots /\ port_num \in Int
  BY <1>1, NumbersOK DEF dev, TypeOK, DriverTypeOK
<1>3. CASE Prepare
  <2>1. ahci_find_free_slot(dev.port) = {0}
    BY <1>3, PreparesSlotZero DEF Prepare
  <2>2. PICK s \in Slots :
          /\ slot' = s
          /\ hdr' = [hdr EXCEPT ![dev.clb][s] = Header(@, args.write)]
          /\ tbl' = [tbl EXCEPT ![dev.ctba[s]] = args]
          /\ pc' = "not busy"
          /\ UNCHANGED <<cmd, ci, clb, port_num, g_device_count, args>>
    BY <1>3, <2>1, NumbersOK DEF Prepare, Goto, regs
  <2>3. args # NoRequest /\ moved = FALSE /\ (\A p \in Ports : ci[p] = {})
        /\ g_device_count > 0
    BY <1>1, <1>3 DEF Prepare, RequestInv
  <2>4. \A g \in Pages, t \in Slots : hdr'[g][t].ctba = hdr[g][t].ctba
    BY <1>2, <2>2 DEF Header, TypeOK, MemoryTypeOK
  <2>5. hdr'[dev.clb][s].w = args.write
    BY <1>2, <2>2 DEF Header, TypeOK, MemoryTypeOK
  <2>6. tbl'[dev.ctba[s]] = args
    BY <1>2, <2>2 DEF TypeOK, MemoryTypeOK
  <2>7. DeviceInv'
    <3>1. port_num' = port_num
      BY <2>2
    <3>2. port_num <= port_num'
      BY <1>2, <3>1
    <3> QED BY <1>1, <2>2, <2>4, <3>2, DevicesKept
  <2>8. BootInv'
    BY <2>2 DEF BootInv
  <2>9. RequestInv'
    BY <1>1, <1>2, <2>2, <2>3, <2>5, <2>6 DEF RequestInv
  <2> QED BY <2>7, <2>8, <2>9 DEF DriverInv
<1>4. ASSUME UNCHANGED <<cmd, clb, port_num, g_device_count, hdr>>,
             pc' \in {"not busy", "wait", "check", "halted", "idle"}
      PROVE  DeviceInv' /\ BootInv'
  <2>1. DeviceInv'
    <3>1. port_num' = port_num
      BY <1>4
    <3>2. port_num <= port_num'
      BY <1>2, <3>1
    <3> QED BY <1>1, <1>4, <3>2, DevicesKept
  <2> QED BY <1>4, <2>1 DEF BootInv
<1>5. CASE WaitNotBusy
  <2>1. /\ UNCHANGED <<slot, cmd, clb, hdr, tbl, port_num, g_device_count, args>>
        /\ pc = "not busy"
        /\ \/ pc' = "wait" /\ ci' = [ci EXCEPT ![dev.port] = @ \union {slot}]
           \/ pc' \in {"not busy", "halted"} /\ ci' = ci
    BY <1>5 DEF WaitNotBusy, Goto, Again, Return, ctl, memory
  <2>2. /\ args # NoRequest /\ moved = FALSE /\ (\A p \in Ports : ci[p] = {})
        /\ g_device_count > 0
        /\ hdr[dev.clb][slot].w = args.write /\ tbl[dev.ctba[slot]] = args
    BY <1>1, <2>1 DEF RequestInv
  <2>3. /\ \A p \in Ports : \A s \in ci'[p] : p = dev.port /\ s = slot
        /\ pc' = "wait" => slot \in ci'[dev.port]
        /\ pc' # "wait" => \A p \in Ports : ci'[p] = {}
    <3>1. ci \in [Ports -> SUBSET Slots]
      BY DEF TypeOK, RegsTypeOK
    <3>2. CASE pc' = "wait" /\ ci' = [ci EXCEPT ![dev.port] = @ \union {slot}]
      BY <1>2, <2>2, <3>1, <3>2
    <3>3. CASE pc' \in {"not busy", "halted"} /\ ci' = ci
      BY <2>2, <3>3
    <3> QED BY <2>1, <3>2, <3>3
  <2>4. RequestInv'
    BY <1>1, <1>2, <2>1, <2>2, <2>3 DEF RequestInv
  <2> QED BY <1>4, <2>1, <2>4 DEF DriverInv
<1>6. CASE WaitDone
  <2>1. /\ UNCHANGED <<slot, cmd, clb, hdr, tbl, ci, port_num, g_device_count>>
        /\ pc = "wait"
        /\ \/ pc' = "check" /\ args' = args
           \/ pc' = "idle" /\ args' = NoRequest /\ slot \notin ci[dev.port]
    BY <1>6 DEF WaitDone, Return, regs, memory
  <2>2. /\ args # NoRequest /\ g_device_count > 0
        /\ \A p \in Ports : \A s \in ci[p] : p = dev.port /\ s = slot
        /\ slot \in ci[dev.port] \/ moved = TRUE
        /\ hdr[dev.clb][slot].w = args.write /\ tbl[dev.ctba[slot]] = args
    BY <1>1, <2>1 DEF RequestInv
  <2>3. slot \notin ci[dev.port] => \A p \in Ports : ci[p] = {}
    BY <2>2
  <2>4. RequestInv'
    BY <1>1, <1>2, <2>1, <2>2, <2>3 DEF RequestInv
  <2> QED BY <1>4, <2>1, <2>4 DEF DriverInv
<1>7. CASE CheckError
  <2>1. /\ UNCHANGED <<slot, cmd, clb, hdr, tbl, ci, port_num, g_device_count, args>>
        /\ pc = "check" /\ pc' \in {"wait", "halted"}
    BY <1>7 DEF CheckError, Return, regs, memory
  <2>2. /\ args # NoRequest /\ g_device_count > 0
        /\ \A p \in Ports : \A s \in ci[p] : p = dev.port /\ s = slot
        /\ slot \in ci[dev.port] \/ moved = TRUE
        /\ hdr[dev.clb][slot].w = args.write /\ tbl[dev.ctba[slot]] = args
    BY <1>1, <2>1 DEF RequestInv
  <2>3. RequestInv'
    BY <1>1, <1>2, <2>1, <2>2 DEF RequestInv
  <2> QED BY <1>4, <2>1, <2>3 DEF DriverInv
<1> QED BY <1>3, <1>5, <1>6, <1>7 DEF ahci_do_rw

\* The controller keeps the invariant: a command leaves ci when its data has been
\* moved, and the port of a device that counts is not stopped.
LEMMA DevicesDriverInv ==
  TypeOK /\ TypeOK' /\ DriverInv /\ (\E p \in present : Device(p)) => DriverInv'
<1> SUFFICES ASSUME TypeOK, TypeOK', DriverInv, NEW p \in present, Device(p)
             PROVE  DriverInv'
  OBVIOUS
<1>1. /\ UNCHANGED <<present, hdr, tbl, g_devices, g_device_count, pc, port_num, slot, args>>
      /\ DeviceInv /\ BootInv /\ RequestInv /\ p \in Ports
  BY DEF Device, DriverInv, memory, devs, TypeOK, RegsTypeOK
<1>2. clb' = clb
  BY DEF Device, EngineFollows, BecomesReady, Errs, Transfers, Completes, regs
<1>3. \A q \in Ports : {"ST", "FRE"} \subseteq cmd[q] => {"ST", "FRE"} \subseteq cmd'[q]
  <2>1. CASE EngineFollows(p)
    <3>1. cmd' = Flag(p, "CR", "ST" \in cmd[p]) \/ cmd' = Flag(p, "FR", "FRE" \in cmd[p])
      BY <2>1 DEF EngineFollows
    <3>2. \A q \in Ports : cmd[q] \ {"CR", "FR"} \subseteq cmd'[q]
      BY <3>1 DEF Flag, TypeOK, RegsTypeOK
    <3> QED BY <3>2
  <2>2. CASE UNCHANGED cmd
    BY <2>2
  <2> QED BY <2>1, <2>2 DEF Device, BecomesReady, Errs, Transfers, Completes, regs
<1>4. DeviceInv'
  <2>1. port_num <= port_num'
    BY <1>1 DEF TypeOK, DriverTypeOK
  <2> QED BY <1>1, <1>2, <1>3, <2>1, DevicesKept
<1>5. BootInv'
  BY <1>1, <1>2 DEF BootInv, SetUp
<1>6. /\ moved = TRUE => moved' = TRUE
      /\ \A q \in Ports : ci'[q] \subseteq ci[q]
      /\ pc \in {"wait", "check"} =>
           (slot \in ci[dev.port] => slot \in ci'[dev.port] \/ moved' = TRUE)
  <2>1. CASE UNCHANGED <<ci, moved>>
    BY <2>1
  <2>2. ASSUME NEW s \in Slots, Transfers(p, s)
        PROVE  moved' = TRUE /\ UNCHANGED ci
    BY <2>2 DEF Transfers, regs
  <2>3. ASSUME NEW s \in Slots, Completes(p, s)
        PROVE  /\ moved = TRUE /\ moved' = moved
               /\ \A q \in Ports : ci'[q] \subseteq ci[q]
    <3>1. moved \in BOOLEAN /\ moved
      BY <2>3 DEF Completes, TypeOK, MemoryTypeOK
    <3>2. moved = TRUE
      BY <3>1, Zenon
    <3>3. moved' = moved /\ ci' = [ci EXCEPT ![p] = @ \ {s}]
      BY <2>3 DEF Completes
    <3> QED BY <3>2, <3>3 DEF TypeOK, RegsTypeOK
  <2>4. CASE EngineFollows(p)
    <3>1. /\ moved' = moved
          /\ \/ ci' = ci
             \/ ci' = [ci EXCEPT ![p] = IF "ST" \in cmd[p] THEN @ ELSE {}]
      BY <2>4 DEF EngineFollows
    <3>2. \A q \in Ports : ci'[q] \subseteq ci[q]
      BY <3>1 DEF TypeOK, RegsTypeOK
    <3>3. pc \in {"wait", "check"} => "ST" \in cmd[dev.port] /\ dev.port \in Ports
      <4> SUFFICES ASSUME pc \in {"wait", "check"}
                   PROVE  "ST" \in cmd[dev.port] /\ dev.port \in Ports
        OBVIOUS
      <4>1. g_device_count > 0
        BY <1>1 DEF RequestInv
      <4>2. 0 \in 0 .. g_device_count - 1
        BY <4>1 DEF TypeOK, DriverTypeOK
      <4>3. g_devices[0].port \in Ports /\ {"ST", "FRE"} \subseteq cmd[g_devices[0].port]
        BY <1>1, <4>2, CountedEntries DEF DeviceInv
      <4> QED BY <4>3 DEF dev
    <3>4. pc \in {"wait", "check"} => ci'[dev.port] = ci[dev.port]
      BY <3>1, <3>3 DEF TypeOK, RegsTypeOK
    <3> QED BY <3>1, <3>2, <3>4
  <2>5. CASE BecomesReady(p) \/ Errs(p)
    BY <2>1, <2>5 DEF BecomesReady, Errs
  <2> QED BY <2>2, <2>3, <2>4, <2>5 DEF Device
<1>7. dev' = dev /\ dev.port \in Ports
  BY <1>1, NumbersOK DEF dev, TypeOK, DriverTypeOK
<1>8. pc \in {"prepare", "not busy"} => moved' = FALSE
  <2> SUFFICES ASSUME pc \in {"prepare", "not busy"} PROVE moved' = FALSE
    OBVIOUS
  <2>1. moved = FALSE /\ \A q \in Ports : ci[q] = {}
    BY <1>1 DEF RequestInv
  <2>2. ~(\E s \in Slots : Transfers(p, s))
    BY <1>1, <2>1 DEF Transfers
  <2>3. moved' = moved
    BY <2>2 DEF Device, EngineFollows, BecomesReady, Errs, Completes
  <2> QED BY <2>1, <2>3
<1>9. RequestInv'
  BY <1>1, <1>6, <1>7, <1>8 DEF RequestInv
<1> QED BY <1>4, <1>5, <1>9 DEF DriverInv

\* kernel() starts the driver with no device, no request and no command.
LEMMA InitDriverInv == Init => DriverInv
<1> SUFFICES ASSUME Init PROVE DriverInv
  OBVIOUS
<1>1. DeviceInv
  BY DEF Init, DeviceInv
<1>2. BootInv
  BY DEF Init, BootInv
<1>3. RequestInv
  BY DEF Init, RequestInv
<1> QED BY <1>1, <1>2, <1>3 DEF DriverInv

\* Every step keeps the invariant.
LEMMA NextDriverInv == TypeOK /\ TypeOK' /\ DriverInv /\ [Next]_vars => DriverInv'
<1> SUFFICES ASSUME TypeOK, TypeOK', DriverInv, [Next]_vars PROVE DriverInv'
  OBVIOUS
<1>1. ASSUME NEW r \in Requests, NEW v \in Values, Request(r, v) PROVE DriverInv'
  <2>1. /\ UNCHANGED <<cmd, ci, clb, hdr, g_devices, g_device_count, port_num>>
        /\ pc = "idle" /\ pc' = "prepare" /\ args' = r /\ moved' = FALSE
    BY <1>1 DEF Request, regs, memory, devs
  <2>2. DeviceInv /\ RequestInv /\ port_num <= port_num'
    BY <2>1 DEF DriverInv, TypeOK, DriverTypeOK
  <2>3. DeviceInv'
    BY <2>1, <2>2, DevicesKept
  <2>4. BootInv'
    BY <2>1 DEF BootInv
  <2>5. g_device_count > 0 /\ (\A p \in Ports : ci[p] = {}) /\ r # NoRequest
    BY <2>1, <2>2, AhciAssumption DEF RequestInv
  <2>6. RequestInv'
    BY <2>1, <2>5 DEF RequestInv
  <2> QED BY <2>3, <2>4, <2>6 DEF DriverInv
<1>2. CASE UNCHANGED vars
  <2>1. UNCHANGED <<present, regs, memory, devs, moved, pc, port_num, slot, args>>
    BY <1>2 DEF vars
  <2>2. UNCHANGED <<cmd, ci, clb, hdr, tbl, g_devices, g_device_count>>
    BY <2>1 DEF regs, memory, devs
  <2>3. UNCHANGED dev
    BY <2>2 DEF dev
  <2>4. \A d : SetUp(d) => SetUp(d)'
    BY <2>1, <2>2 DEF SetUp, regs, memory, devs
  <2>5. DeviceInv'
    BY <2>1, <2>2, <2>4 DEF DriverInv, DeviceInv
  <2>6. BootInv'
    BY <2>1, <2>2, <2>4 DEF DriverInv, BootInv
  <2>7. RequestInv'
    BY <2>1, <2>2, <2>3 DEF DriverInv, RequestInv
  <2> QED BY <2>5, <2>6, <2>7 DEF DriverInv
<1> QED BY <1>1, <1>2, BootsDriverInv, RequestsDriverInv, DevicesDriverInv DEF Next, Driver

-----------------------------------------------------------------------------
\* Registers, memory and driver keep their types, for any number of ports, slots,
\* sectors and pages and any patience.
THEOREM TypeCorrect == Spec => []TypeOK
  BY InitTypeOK, InitDriverInv, NextTypeOK, NextDriverInv, PTL DEF Spec

\* The inductive invariant holds in every reachable state.
THEOREM DriverCorrect == Spec => []DriverInv
  BY InitTypeOK, InitDriverInv, NextTypeOK, NextDriverInv, PTL DEF Spec

\* Whichever ports fail in whichever of their steps, and wherever the allocator
\* runs out of pages: every device that counts has a port of its own, running,
\* with the command list of its entry and a table for every slot.
THEOREM DevicesSafe == Spec => []DevicesReady
<1>1. TypeOK /\ DriverInv => DevicesReady
  <2> SUFFICES ASSUME TypeOK, DriverInv, NEW d \in 0 .. g_device_count - 1
               PROVE  LET v == g_devices[d] IN
                      /\ {"ST", "FRE"} \subseteq cmd[v.port]
                      /\ clb[v.port] = v.clb
                      /\ \A s \in Slots : hdr[v.clb][s].ctba = v.ctba[s] /\ v.ctba[s] # 0
                      /\ \A e \in 0 .. g_device_count - 1 : g_devices[e].port = v.port => d = e
    BY DEF DevicesReady
  <2>1. g_devices[d].port \in Ports
    BY CountedEntries
  <2>2. /\ SetUp(d)
        /\ {"ST", "FRE"} \subseteq cmd[g_devices[d].port]
        /\ \A e \in 0 .. g_device_count - 1 : g_devices[e].port = g_devices[d].port => d = e
    BY DEF DriverInv, DeviceInv
  <2>3. \A s \in Slots : g_devices[d].ctba[s] # 0
    BY <2>1, <2>2, PortPagesArePages DEF SetUp
  <2> QED BY <2>2, <2>3 DEF SetUp
<1> QED BY <1>1, TypeCorrect, DriverCorrect, PTL

-----------------------------------------------------------------------------
(* The refinement of SectorStore.                                            *)

\* The phases of a request, without CASE.
LEMMA Phases ==
  /\ pc \in {"prepare", "not busy", "wait", "check"} => Phase = "asked"
  /\ pc = "halted" => Phase = "stopped"
  /\ pc \notin {"prepare", "not busy", "wait", "check", "halted"} => Phase = "idle"
  BY DEF Phase

\* The same after a step.
LEMMA PhasesNext ==
  /\ pc' \in {"prepare", "not busy", "wait", "check"} => Phase' = "asked"
  /\ pc' = "halted" => Phase' = "stopped"
  /\ pc' \notin {"prepare", "not busy", "wait", "check", "halted"} => Phase' = "idle"
  BY DEF Phase

\* Nothing has been asked when the driver starts.
LEMMA InitStore == Init => Store!Init
<1> SUFFICES ASSUME Init PROVE Store!Init
  OBVIOUS
<1>1. disk \in [Ports -> [Lbas -> Values]] /\ buf \in Values
  BY InitTypeOK DEF TypeOK, MemoryTypeOK
<1>2. Contents \in [Sectors -> Values]
  BY <1>1 DEF Contents, Sectors
<1>3. Asked = NoRequest /\ Served = FALSE /\ Phase = "idle"
  BY Phases DEF Init, Asked, Served
<1> QED BY <1>1, <1>2, <1>3 DEF Store!Init

\* While there is no request the boot of the driver cannot be seen.
LEMMA BootsInvisible ==
  ASSUME DriverInv, Boots
  PROVE  UNCHANGED <<Contents, buf, Asked, Served, Phase>>
<1>1. /\ pc \in {"probe", "stop", "alloc", "start"}
      /\ pc' \in {"probe", "stop", "alloc", "start", "idle", "no disk"}
      /\ UNCHANGED <<disk, moved, buf, args>>
  BY DEF Boots, ProbeAbsent, ProbePresent, ahci_port_stop, ahci_port_init,
         ahci_port_start, InitDone, Goto, Again, NextPort, ctl
<1>2. args = NoRequest
  BY <1>1 DEF DriverInv, RequestInv
<1>3. Phase = "idle" /\ Phase' = "idle"
  BY <1>1, Phases, PhasesNext
<1>4. Contents' = Contents
  BY <1>1 DEF Contents
<1>5. Asked' = Asked /\ Served' = Served
  BY <1>1, <1>2 DEF Asked, Served
<1> QED BY <1>1, <1>3, <1>4, <1>5

\* A request of the file system is an Ask.
LEMMA RequestIsAsk ==
  ASSUME TypeOK, DriverInv, NEW r \in Requests, NEW v \in Values, Request(r, v)
  PROVE  \E q \in Store!Requests : Store!Ask(q, v)
<1>1. /\ pc = "idle" /\ pc' = "prepare" /\ args' = r /\ moved' = FALSE
      /\ buf' = (IF r.write THEN v ELSE buf)
      /\ UNCHANGED <<disk, g_devices>>
  BY DEF Request, devs
<1>2. args = NoRequest /\ r # NoRequest
  BY <1>1, AhciAssumption DEF DriverInv, RequestInv
<1>3. Served = FALSE /\ Served' = FALSE
  BY <1>1, <1>2 DEF Served
<1>4. dev' = dev /\ dev.port \in Ports /\ r.lba \in Lbas /\ r.write \in BOOLEAN
  BY <1>1, NumbersOK DEF dev, TypeOK, DriverTypeOK, Requests
<1>5. PICK q : q = [write |-> r.write, sector |-> <<dev.port, r.lba>>]
  OBVIOUS
<1>6. q \in Store!Requests /\ q.write = r.write
  BY <1>4, <1>5 DEF Store!Requests, Sectors
<1>7. Asked' = q
  BY <1>1, <1>2, <1>4, <1>5 DEF Asked
<1>8. Contents' = Contents
  BY <1>1 DEF Contents
<1>9. Phase = "idle" /\ Phase' = "asked"
  BY <1>1, Phases, PhasesNext
<1>10. buf' = (IF q.write THEN v ELSE buf)
  BY <1>1, <1>6
<1> QED BY <1>3, <1>6, <1>7, <1>8, <1>9, <1>10 DEF Store!Ask

\* What the driver does for a request is invisible, or reports a failure, or
\* reports success after the data has been moved.
LEMMA DriverSucceedsOrFails ==
  ASSUME TypeOK, DriverInv, ahci_do_rw
  PROVE  \/ Store!Succeed \/ Store!Fail
         \/ UNCHANGED <<Contents, buf, Asked, Served, Phase>>
<1>1. UNCHANGED <<disk, moved, g_devices, buf>>
  BY DEF ahci_do_rw
<1>2. Contents' = Contents
  BY <1>1 DEF Contents
<1>3. dev' = dev
  BY <1>1 DEF dev
<1>4. pc \in {"prepare", "not busy", "wait", "check"} /\ Phase = "asked"
  <2>1. pc \in {"prepare", "not busy", "wait", "check"}
    BY DEF ahci_do_rw, Prepare, WaitNotBusy, WaitDone, CheckError
  <2> QED BY <2>1, Phases
<1>5. ASSUME args' = args, pc' \in {"prepare", "not busy", "wait", "check"}
      PROVE  UNCHANGED <<Contents, buf, Asked, Served, Phase>>
  <2>1. Asked' = Asked /\ Served' = Served
    BY <1>1, <1>3, <1>5 DEF Asked, Served
  <2> QED BY <1>1, <1>2, <1>4, <1>5, <2>1, PhasesNext
<1>6. ASSUME args' = args, pc' = "halted"
      PROVE  Store!Fail
  <2>1. Asked' = Asked /\ Served' = Served
    BY <1>1, <1>3, <1>6 DEF Asked, Served
  <2>2. Phase' = "stopped"
    BY <1>6, PhasesNext
  <2> QED BY <1>1, <1>2, <1>4, <2>1, <2>2 DEF Store!Fail
<1>7. CASE pc = "wait" /\ slot \notin ci[dev.port] /\ Return(TRUE)
  <2>1. args # NoRequest /\ moved = TRUE
    BY <1>7 DEF DriverInv, RequestInv
  <2>2. args' = NoRequest /\ pc' = "idle"
    BY <1>7 DEF Return
  <2>3. Served = TRUE /\ Served' = FALSE /\ Asked' = NoRequest
    BY <2>1, <2>2 DEF Served, Asked
  <2>4. Phase' = "idle"
    BY <2>2, PhasesNext
  <2> QED BY <1>1, <1>2, <1>4, <2>3, <2>4 DEF Store!Succeed
<1>8. CASE args' = args /\ pc' \in {"prepare", "not busy", "wait", "check", "halted"}
  BY <1>5, <1>6, <1>8
<1>9. CASE Prepare
  BY <1>8, <1>9 DEF Prepare, Return, Goto
<1>10. CASE WaitNotBusy
  BY <1>8, <1>10 DEF WaitNotBusy, Return, Goto, Again, ctl
<1>11. CASE WaitDone
  BY <1>7, <1>8, <1>11 DEF WaitDone
<1>12. CASE CheckError
  BY <1>8, <1>12 DEF CheckError, Return
<1> QED BY <1>9, <1>10, <1>11, <1>12 DEF ahci_do_rw

\* The device serves what was asked, once, or does something invisible.
LEMMA DeviceServes ==
  ASSUME TypeOK, TypeOK', DriverInv, NEW p \in present, Device(p)
  PROVE  Store!Serve \/ UNCHANGED <<Contents, buf, Asked, Served, Phase>>
<1>1. UNCHANGED <<g_devices, pc, args>> /\ p \in Ports
  BY DEF Device, devs, TypeOK, RegsTypeOK
<1>2. dev' = dev /\ Phase' = Phase
  BY <1>1 DEF dev, Phase
<1>3. Asked' = Asked
  BY <1>1, <1>2 DEF Asked
<1>4. CASE UNCHANGED <<disk, moved, buf>>
  <2>1. Contents' = Contents /\ Served' = Served
    BY <1>1, <1>4 DEF Contents, Served
  <2> QED BY <1>2, <1>3, <1>4, <2>1
<1>5. ASSUME NEW s \in Slots, Transfers(p, s)
      PROVE  Store!Serve
  <2>1. s \in ci[p] /\ moved' = TRUE /\ moved = FALSE
    <3>1. s \in ci[p] /\ moved' = TRUE /\ ~moved /\ moved \in BOOLEAN
      BY <1>5 DEF Transfers, TypeOK, MemoryTypeOK
    <3>2. moved = FALSE
      BY <3>1, Zenon
    <3> QED BY <3>1, <3>2
  <2>2. pc \in {"wait", "check", "halted"}
    BY <1>1, <2>1 DEF DriverInv, RequestInv
  <2>3. /\ p = dev.port /\ s = slot /\ args # NoRequest /\ g_device_count > 0
        /\ hdr[dev.clb][slot].w = args.write /\ tbl[dev.ctba[slot]] = args
    BY <1>1, <2>1, <2>2 DEF DriverInv, RequestInv
  <2>4. clb[p] = dev.clb /\ hdr[dev.clb][s].ctba = dev.ctba[s]
    <3>1. 0 \in 0 .. g_device_count - 1
      BY <2>3 DEF TypeOK, DriverTypeOK
    <3>2. SetUp(0)
      BY <3>1 DEF DriverInv, DeviceInv
    <3> QED BY <2>3, <3>2 DEF SetUp, dev
  <2>5. PICK r \in Requests : r = args
    BY <2>3 DEF TypeOK, DriverTypeOK
  <2>6. PICK l \in Lbas, b \in BOOLEAN : l = r.lba /\ b = r.write
    BY DEF Requests
  <2>7. hdr[clb[p]][s].w = b /\ tbl[hdr[clb[p]][s].ctba] = r
    BY <2>3, <2>4, <2>5, <2>6
  <2>8. /\ disk' = (IF b = TRUE THEN [disk EXCEPT ![p][l] = buf] ELSE disk)
        /\ buf' = (IF b = FALSE THEN disk[p][l] ELSE buf)
    <3>1. /\ disk' = (IF r.write /\ hdr[clb[p]][s].w
                      THEN [disk EXCEPT ![p][r.lba] = buf] ELSE disk)
          /\ buf' = (IF ~r.write /\ ~hdr[clb[p]][s].w THEN disk[p][r.lba] ELSE buf)
      BY <1>5, <2>7 DEF Transfers
    <3>2. CASE b = TRUE
      BY <2>6, <2>7, <3>1, <3>2
    <3>3. CASE b = FALSE
      BY <2>6, <2>7, <3>1, <3>3
    <3> QED BY <3>2, <3>3
  <2>9. PICK x \in Sectors : x = <<p, l>>
    BY <1>1 DEF Sectors
  <2>10. Asked = [write |-> b, sector |-> x]
    BY <2>3, <2>5, <2>6, <2>9 DEF Asked
  <2>11. Asked # NoRequest /\ Asked.write = b /\ Asked.sector = x
    <3>1. Asked.write = b /\ Asked.sector = x
      BY <2>10
    <3>2. Asked \in [write : BOOLEAN, sector : Ports \X Lbas]
      BY <2>10 DEF Sectors
    <3> QED BY <3>1, <3>2, AhciAssumption
  <2>12. Served = FALSE /\ Served' = TRUE
    BY <1>1, <2>1, <2>3 DEF Served
  <2>13. Contents[x] = disk[p][l]
    BY <2>9 DEF Contents
  <2>14. b = FALSE => Contents' = Contents /\ buf' = Contents[x]
    BY <2>8, <2>13 DEF Contents
  <2>15. b = TRUE => Contents' = [Contents EXCEPT ![x] = buf] /\ buf' = buf
    <3> SUFFICES ASSUME b = TRUE
                 PROVE  Contents' = [Contents EXCEPT ![x] = buf] /\ buf' = buf
      OBVIOUS
    <3>1. disk' = [disk EXCEPT ![p][l] = buf] /\ buf' = buf
      BY <2>8
    <3>2. disk \in [Ports -> [Lbas -> Values]]
      BY DEF TypeOK, MemoryTypeOK
    <3>3. ASSUME NEW q \in Ports, NEW k \in Lbas
          PROVE  disk'[q][k] = IF q = p /\ k = l THEN buf ELSE disk[q][k]
      BY <1>1, <3>1, <3>2
    <3>4. ASSUME NEW y \in Sectors
          PROVE  Contents'[y] = IF y = x THEN buf ELSE Contents[y]
      <4>1. PICK q \in Ports, k \in Lbas : y = <<q, k>>
        BY DEF Sectors
      <4>2. y = x <=> (q = p /\ k = l)
        BY <2>9, <4>1
      <4>3. Contents'[y] = disk'[q][k] /\ Contents[y] = disk[q][k]
        BY <4>1 DEF Contents
      <4> QED BY <3>3, <4>2, <4>3
    <3>5. /\ Contents' = [y \in Sectors |-> Contents'[y]]
          /\ Contents = [y \in Sectors |-> Contents[y]]
      BY DEF Contents
    <3>6. Contents' = [Contents EXCEPT ![x] = buf]
      BY <3>4, <3>5
    <3> QED BY <3>1, <3>6
  <2>16. CASE b = TRUE
    BY <1>2, <1>3, <2>11, <2>12, <2>15, <2>16 DEF Store!Serve
  <2>17. CASE b = FALSE
    BY <1>2, <1>3, <2>11, <2>12, <2>14, <2>17 DEF Store!Serve
  <2> QED BY <2>16, <2>17
<1>6. CASE \A s \in Slots : ~Transfers(p, s)
  <2>1. UNCHANGED <<disk, moved, buf>>
    BY <1>6 DEF Device, EngineFollows, BecomesReady, Errs, Completes
  <2> QED BY <1>4, <2>1
<1> QED BY <1>5, <1>6

\* Every step of driver and controller is a step of the store or invisible.
LEMMA NextStore ==
  TypeOK /\ TypeOK' /\ DriverInv /\ [Next]_vars
    => [Store!Next]_<<Contents, buf, Asked, Served, Phase>>
<1> SUFFICES ASSUME TypeOK, TypeOK', DriverInv, [Next]_vars
             PROVE  [Store!Next]_<<Contents, buf, Asked, Served, Phase>>
  OBVIOUS
<1>1. CASE Boots
  BY <1>1, BootsInvisible
<1>2. CASE ahci_do_rw
  BY <1>2, DriverSucceedsOrFails DEF Store!Next
<1>3. ASSUME NEW r \in Requests, NEW v \in Values, Request(r, v)
      PROVE  Store!Next
  BY <1>3, RequestIsAsk DEF Store!Next
<1>4. ASSUME NEW p \in present, Device(p)
      PROVE  Store!Next \/ UNCHANGED <<Contents, buf, Asked, Served, Phase>>
  BY <1>4, DeviceServes DEF Store!Next
<1>5. CASE UNCHANGED vars
  <2>1. UNCHANGED <<disk, moved, g_devices, pc, args, buf>>
    BY <1>5 DEF vars, devs
  <2> QED BY <2>1 DEF Contents, Asked, Served, Phase, dev
<1> QED BY <1>1, <1>2, <1>3, <1>4, <1>5 DEF Next, Driver

\* The driver with its device implements SectorStore, for any number of ports,
\* slots, sectors and pages: success is reported only when the data of this
\* request has been moved, in its direction, between its sector and its buffer,
\* once, whatever the controller does between two reads of its registers.
THEOREM SectorStoreImplemented == Spec => ImplementsSectorStore
<1>1. Spec => [][Store!Next]_<<Contents, buf, Asked, Served, Phase>>
  BY TypeCorrect, DriverCorrect, NextStore, PTL DEF Spec
<1> QED
  BY <1>1, InitStore, PTL DEF Spec, ImplementsSectorStore, Store!Spec
=============================================================================
