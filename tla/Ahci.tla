-------------------------------- MODULE Ahci --------------------------------
(***************************************************************************)
(* The disk driver (ahci/onahci.c) beside the controller it polls. A step  *)
(* of the driver reads one register, so the controller may act between any *)
(* two of them; it follows the AHCI specification, or never acts again.    *)
(* The file system (xv6fs_bridge.c) makes one request at a time and halts  *)
(* the machine when one fails.                                             *)
(***************************************************************************)
EXTENDS Integers, FiniteSets, FiniteSetsExt

CONSTANTS
    AHCI_MAX_PORTS,
    NSlots,            \* command slots of a port
    AHCI_IO_TIMEOUT,
    Lbas, Values,
    Disks,             \* what the disks may hold at first
    FreePages,         \* how many pages the allocator may have left
    NoRequest

Ports == 0 .. AHCI_MAX_PORTS - 1
Slots == 0 .. NSlots - 1

(* Pages: 0 is none. A port takes one for the command list, one for        *)
(* received FISes and one for the table of every slot.                     *)
PortPages == 2 + NSlots
Pages == 0 .. AHCI_MAX_PORTS * PortPages

Requests == [write : BOOLEAN, lba : Lbas]

ASSUME AhciAssumption ==
    /\ AHCI_MAX_PORTS \in Nat \ {0} /\ NSlots \in Nat \ {0}
    /\ AHCI_IO_TIMEOUT \in Nat
    /\ Lbas # {}
    /\ FreePages \subseteq Nat
    /\ Disks \subseteq [Ports -> [Lbas -> Values]]
    /\ NoRequest \notin Requests
    /\ NoRequest \notin [write : BOOLEAN, sector : Ports \X Lbas]

VARIABLES
    present,          \* ports with a device (pi, ssts)
    cmd,              \* per port: which of ST, FRE, CR, FR are set
    ci,               \* per port: slots with a command issued
    tfes,             \* ports whose task file error bit is set
    bsy,              \* ports whose device is busy (tfd)
    clb,              \* per port: page of its command list
    hdr,              \* per page, as a command list: the header of every slot
    tbl,              \* per page, as a command table: the command
    disk,             \* per port: what its sectors hold
    moved,            \* the device has moved the data of the command
    g_devices, g_device_count,
    pc, port_num,     \* where the driver is, and ahci_init's port
    spins, slot, free,
    args,             \* the request in hand
    buf               \* its buffer

regs == <<cmd, ci, tfes, bsy, clb>>
memory == <<hdr, tbl, free>>
devs == <<g_devices, g_device_count>>
vars == <<present, regs, memory, disk, moved, devs, pc, port_num, spins, slot,
          args, buf>>

Flags == {"ST", "FRE", "CR", "FR"}
Labels == {"probe", "stop", "alloc", "start", "idle", "prepare", "not busy",
           "wait", "check", "halted", "no disk"}
NoDevice == [port |-> 0, clb |-> 0, ctba |-> [s \in Slots |-> 0]]
NoHeader == [ctba |-> 0, w |-> FALSE]
NoCommand == [write |-> FALSE, lba |-> CHOOSE l \in Lbas : TRUE]

(* The firmware may have left ports running, an error bit set, a device    *)
(* busy.                                                                   *)
Init ==
    /\ present \in SUBSET Ports
    /\ cmd \in [Ports -> {{}, Flags}]
    /\ ci = [p \in Ports |-> {}]
    /\ tfes \in SUBSET present
    /\ bsy \in SUBSET present
    /\ clb = [p \in Ports |-> 0]
    /\ hdr = [g \in Pages |-> [s \in Slots |-> NoHeader]]
    /\ tbl = [g \in Pages |-> NoCommand]
    /\ disk \in Disks
    /\ moved = FALSE
    /\ g_devices = [d \in Ports |-> NoDevice]
    /\ g_device_count = 0
    /\ pc = "probe" /\ port_num = 0 /\ spins = 0 /\ slot = 0
    /\ free \in FreePages
    /\ args = NoRequest
    /\ buf \in Values

---------------------------------------------------------------------------
(* The driver's control: where it goes next.                               *)

ctl == <<pc, port_num, g_device_count, args>>

Goto(label) ==
    /\ pc' = label
    /\ spins' = 0
    /\ UNCHANGED <<port_num, g_device_count, args>>

(* Mutant: the loop does not count its turns.                              *)
Again_Uncounted == UNCHANGED <<spins, ctl>>

(* Mutant: the loop does not test the count.                               *)
Again_Unlimited == spins' = spins + 1 /\ UNCHANGED ctl

(* One more turn of a polling loop, or no more (++spins > TIMEOUT).        *)
Again == spins < AHCI_IO_TIMEOUT /\ spins' = spins + 1 /\ UNCHANGED ctl
GivesUp == spins >= AHCI_IO_TIMEOUT

(* Mutant: an entry counts although its port failed.                       *)
NextPort_CountsAll(ok) ==
    /\ pc' = "probe"
    /\ spins' = 0
    /\ port_num' = port_num + 1
    /\ g_device_count' = g_device_count + 1
    /\ UNCHANGED args

(* The loop of ahci_init() goes on: an entry of g_devices counts only when *)
(* its port was set up, or else the next port takes it.                    *)
NextPort(ok) ==
    /\ pc' = "probe"
    /\ spins' = 0
    /\ port_num' = port_num + 1
    /\ g_device_count' = IF ok THEN g_device_count + 1 ELSE g_device_count
    /\ UNCHANGED args

---------------------------------------------------------------------------
(* ahci_init()                                                             *)

ProbeAbsent ==
    /\ pc = "probe" /\ port_num \in Ports \ present
    /\ port_num' = port_num + 1
    /\ UNCHANGED <<pc, spins, args, devs, slot, regs, memory>>

(* The entry is taken, and ahci_port_stop() clears ST and FRE.             *)
ProbePresent ==
    /\ pc = "probe" /\ port_num \in present
    /\ g_devices' = [g_devices EXCEPT ![g_device_count] =
                        [port |-> port_num, clb |-> @.clb, ctba |-> @.ctba]]
    /\ cmd' = [cmd EXCEPT ![port_num] = @ \ {"ST", "FRE"}]
    /\ Goto("stop")
    /\ UNCHANGED <<slot, ci, tfes, bsy, clb, memory>>

ahci_port_stop ==
    /\ pc = "stop"
    /\ IF cmd[port_num] \intersect {"FR", "CR"} = {} THEN Goto("alloc")
       ELSE Again \/ (GivesUp /\ NextPort(FALSE))
    /\ UNCHANGED <<g_devices, slot, regs, memory>>

(* The pages come one after the other, the command list first; what the    *)
(* port got before the allocator ran out it keeps.                         *)
ahci_port_init ==
    LET first == port_num * PortPages + 1
        Got(n) == free >= n
        Table(s) == IF Got(3 + s) THEN first + 2 + s ELSE 0
    IN  /\ pc = "alloc"
        /\ free' = Max({0, free - PortPages})
        /\ IF Got(1)
           THEN /\ g_devices' = [g_devices EXCEPT ![g_device_count] =
                     [port |-> @.port, clb |-> first, ctba |-> [s \in Slots |->
                         IF Got(3 + s) THEN Table(s) ELSE @.ctba[s]]]]
                /\ clb' = [clb EXCEPT ![port_num] = first]
                /\ hdr' = [hdr EXCEPT ![first] = [s \in Slots |->
                             [ctba |-> Table(s), w |-> FALSE]]]
           ELSE UNCHANGED <<g_devices, clb, hdr>>
        /\ IF Got(PortPages) THEN Goto("start") ELSE NextPort(FALSE)
        /\ UNCHANGED <<slot, cmd, ci, tfes, bsy, tbl>>

ahci_port_start ==
    /\ pc = "start"
    /\ \/ /\ "CR" \notin cmd[port_num]
          /\ cmd' = [cmd EXCEPT ![port_num] = @ \union {"FRE", "ST"}]
          /\ NextPort(TRUE)
       \/ /\ "CR" \in cmd[port_num]
          /\ Again \/ (GivesUp /\ NextPort(FALSE))
          /\ UNCHANGED cmd
    /\ UNCHANGED <<g_devices, slot, ci, tfes, bsy, clb, memory>>

(* ahci_init() returns; without a disk nobody makes requests.              *)
InitDone ==
    /\ pc = "probe" /\ port_num = AHCI_MAX_PORTS
    /\ Goto(IF g_device_count > 0 THEN "idle" ELSE "no disk")
    /\ UNCHANGED <<g_devices, slot, regs, memory>>

Boots ==
    /\ \/ ProbeAbsent \/ ProbePresent \/ ahci_port_stop \/ ahci_port_init
       \/ ahci_port_start \/ InitDone
    /\ UNCHANGED <<present, disk, moved, buf>>

---------------------------------------------------------------------------
(* ahci_do_rw() on the device ahci_get_device(0), for bread() and bwrite().*)

dev == g_devices[0]

(* bread() and bwrite() halt the machine when the request fails.           *)
Return(ok) ==
    /\ pc' = IF ok THEN "idle" ELSE "halted"
    /\ args' = IF ok THEN NoRequest ELSE args
    /\ spins' = 0
    /\ UNCHANGED <<port_num, g_device_count>>

Request(r, v) ==
    /\ pc = "idle"
    /\ pc' = "prepare"
    /\ args' = r
    /\ buf' = IF r.write THEN v ELSE buf
    /\ moved' = FALSE
    /\ UNCHANGED <<present, regs, memory, disk, devs, port_num, spins, slot>>

(* No command uses sact.                                                   *)
ahci_find_free_slot(p) ==
    LET idle == Slots \ ci[p] IN IF idle = {} THEN {} ELSE {Min(idle)}

(* Mutant: the direction of the last command in the slot is kept.          *)
Header_KeepsDirection(h, write) == h

Header(h, write) == [ctba |-> h.ctba, w |-> write]

Prepare ==
    /\ pc = "prepare"
    /\ \/ /\ ahci_find_free_slot(dev.port) = {}
          /\ Return(FALSE)
          /\ UNCHANGED <<slot, hdr, tbl>>
       \/ \E s \in ahci_find_free_slot(dev.port) :
            /\ slot' = s
            /\ hdr' = [hdr EXCEPT ![dev.clb][s] = Header(@, args.write)]
            /\ tbl' = [tbl EXCEPT ![dev.ctba[s]] = args]
            /\ Goto("not busy")
    /\ UNCHANGED <<regs, free>>

WaitNotBusy ==
    /\ pc = "not busy"
    /\ \/ /\ dev.port \notin bsy
          /\ ci' = [ci EXCEPT ![dev.port] = @ \union {slot}]
          /\ Goto("wait")
       \/ /\ dev.port \in bsy
          /\ Again \/ (GivesUp /\ Return(FALSE))
          /\ UNCHANGED ci
    /\ UNCHANGED <<slot, cmd, tfes, bsy, clb, memory>>

(* while (port->ci & (1u << slot)): the loop reads ci, and then is.        *)
WaitDone ==
    /\ pc = "wait"
    /\ IF slot \in ci[dev.port]
       THEN pc' = "check" /\ UNCHANGED <<spins, port_num, g_device_count, args>>
       ELSE Return(TRUE)
    /\ UNCHANGED <<slot, regs, memory>>

CheckError ==
    /\ pc = "check"
    /\ \/ dev.port \in tfes /\ Return(FALSE)
       \/ /\ dev.port \notin tfes
          /\ \/ GivesUp /\ Return(FALSE)
             \/ /\ ~GivesUp
                /\ pc' = "wait" /\ spins' = spins + 1
                /\ UNCHANGED <<port_num, g_device_count, args>>
    /\ UNCHANGED <<slot, regs, memory>>

ahci_do_rw ==
    /\ Prepare \/ WaitNotBusy \/ WaitDone \/ CheckError
    /\ UNCHANGED <<present, disk, moved, g_devices, buf>>

---------------------------------------------------------------------------
(* The controller and its devices.                                         *)

Flag(p, f, on) == [cmd EXCEPT ![p] = IF on THEN @ \union {f} ELSE @ \ {f}]

(* CR follows ST, FR follows FRE; a stopped port forgets its commands.     *)
EngineFollows(p) ==
    \/ /\ ("ST" \in cmd[p]) # ("CR" \in cmd[p])
       /\ cmd' = Flag(p, "CR", "ST" \in cmd[p])
       /\ ci' = [ci EXCEPT ![p] = IF "ST" \in cmd[p] THEN @ ELSE {}]
       /\ UNCHANGED <<tfes, bsy, clb, disk, moved, buf>>
    \/ /\ ("FRE" \in cmd[p]) # ("FR" \in cmd[p])
       /\ cmd' = Flag(p, "FR", "FRE" \in cmd[p])
       /\ UNCHANGED <<ci, tfes, bsy, clb, disk, moved, buf>>

BecomesReady(p) ==
    /\ p \in bsy
    /\ bsy' = bsy \ {p}
    /\ UNCHANGED <<cmd, ci, tfes, clb, disk, moved, buf>>

(* The header gives the direction of the transfer, the command what the    *)
(* disk does; when they disagree no data moves.                            *)
Transfers(p, s) ==
    LET h == hdr[clb[p]][s]
        t == tbl[h.ctba]
    IN  /\ "CR" \in cmd[p] /\ s \in ci[p] /\ ~moved
        /\ moved' = TRUE
        /\ disk' = IF t.write /\ h.w THEN [disk EXCEPT ![p][t.lba] = buf] ELSE disk
        /\ buf' = IF ~t.write /\ ~h.w THEN disk[p][t.lba] ELSE buf
        /\ UNCHANGED regs

Completes(p, s) ==
    /\ s \in ci[p] /\ moved
    /\ ci' = [ci EXCEPT ![p] = @ \ {s}]
    /\ UNCHANGED <<cmd, tfes, bsy, clb, disk, moved, buf>>

(* A command that fails stays in ci.                                       *)
Errs(p) ==
    /\ ci[p] # {}
    /\ p \notin tfes
    /\ tfes' = tfes \union {p}
    /\ UNCHANGED <<cmd, ci, bsy, clb, disk, moved, buf>>

Device(p) ==
    /\ \/ EngineFollows(p) \/ BecomesReady(p) \/ Errs(p)
       \/ \E s \in Slots : Transfers(p, s) \/ Completes(p, s)
    /\ UNCHANGED <<present, memory, devs, pc, port_num, spins, slot, args>>

---------------------------------------------------------------------------
Driver == Boots \/ ahci_do_rw

Next ==
    \/ Driver
    \/ \E r \in Requests, v \in Values : Request(r, v)
    \/ \E p \in present : Device(p)

(* Nothing is asked of the controller: only the CPU goes on.               *)
Spec == Init /\ [][Next]_vars /\ WF_vars(Driver)

---------------------------------------------------------------------------
RegsTypeOK ==
    /\ present \subseteq Ports /\ tfes \subseteq present /\ bsy \subseteq present
    /\ cmd \in [Ports -> SUBSET Flags]
    /\ ci \in [Ports -> SUBSET Slots]
    /\ clb \in [Ports -> Pages]

MemoryTypeOK ==
    /\ hdr \in [Pages -> [Slots -> [ctba : Pages, w : BOOLEAN]]]
    /\ tbl \in [Pages -> Requests]
    /\ free \in Nat
    /\ disk \in [Ports -> [Lbas -> Values]]
    /\ moved \in BOOLEAN
    /\ buf \in Values

DriverTypeOK ==
    /\ g_devices \in [Ports -> [port : Ports, clb : Pages, ctba : [Slots -> Pages]]]
    /\ g_device_count \in 0 .. AHCI_MAX_PORTS
    /\ pc \in Labels
    /\ port_num \in 0 .. AHCI_MAX_PORTS
    /\ spins \in 0 .. AHCI_IO_TIMEOUT
    /\ slot \in Slots
    /\ args \in Requests \union {NoRequest}

(* Registers, memory and the driver's own state keep their types: no loop  *)
(* of ahci_init() leaves the table of ports, no page is outside memory.    *)
TypeOK == RegsTypeOK /\ MemoryTypeOK /\ DriverTypeOK

(* Whichever ports have failed and left their entry to the next: every     *)
(* device that counts has a port of its own, set running with the command  *)
(* list of the entry, and a table of its own for every slot.               *)
DevicesReady ==
    \A d \in 0 .. g_device_count - 1 :
        LET v == g_devices[d] IN
        /\ {"ST", "FRE"} \subseteq cmd[v.port]
        /\ clb[v.port] = v.clb
        /\ \A s \in Slots : hdr[v.clb][s].ctba = v.ctba[s] /\ v.ctba[s] # 0
        /\ \A e \in 0 .. g_device_count - 1 : g_devices[e].port = v.port => d = e

(* What ahci_port_init() gives the entry d of g_devices: a command list on *)
(* a page of its port's own, known to the port, and a table for each slot. *)
SetUp(d) ==
    LET v == g_devices[d] IN
    /\ v.clb = v.port * PortPages + 1
    /\ \A s \in Slots : v.ctba[s] = v.clb + 2 + s
    /\ clb[v.port] = v.clb
    /\ \A s \in Slots : hdr[v.clb][s].ctba = v.ctba[s]

(* The entries that count are set up and run, on ports that ahci_init() has*)
(* passed, each on its own.                                                *)
DeviceInv ==
    /\ g_device_count <= port_num
    /\ \A d \in 0 .. g_device_count - 1 :
          /\ SetUp(d)
          /\ {"ST", "FRE"} \subseteq cmd[g_devices[d].port]
          /\ g_devices[d].port < port_num
          /\ \A e \in 0 .. g_device_count - 1 :
                g_devices[e].port = g_devices[d].port => d = e

(* The port in hand is one with a device, and its entry is the next one.   *)
BootInv ==
    /\ pc \in {"stop", "alloc", "start"} =>
          port_num \in present /\ g_devices[g_device_count].port = port_num
    /\ pc = "start" => SetUp(g_device_count)

(* The only command there can be is the one in hand, in the slot in hand,  *)
(* on the first device; it leaves ci only when its data has been moved;    *)
(* header and table say what was asked for, whatever slot and tables were  *)
(* used for before.                                                        *)
RequestInv ==
    /\ args = NoRequest <=>
          pc \notin {"prepare", "not busy", "wait", "check", "halted"}
    /\ pc \in {"idle", "prepare", "not busy", "wait", "check", "halted"} =>
          g_device_count > 0
    /\ pc \notin {"wait", "check", "halted"} => \A p \in Ports : ci[p] = {}
    /\ pc \in {"prepare", "not busy"} => moved = FALSE
    /\ \A p \in Ports : \A s \in ci[p] : p = dev.port /\ s = slot
    /\ pc \in {"wait", "check"} => slot \in ci[dev.port] \/ moved = TRUE
    /\ pc \in {"not busy", "wait", "check", "halted"} =>
          hdr[dev.clb][slot].w = args.write /\ tbl[dev.ctba[slot]] = args

(* The inductive invariant behind DevicesReady and the refinement.         *)
DriverInv == DeviceInv /\ BootInv /\ RequestInv

(* A request always returns, with success or with an error, and ahci_init()*)
(* too, even when the device never answers (the comment on                 *)
(* AHCI_IO_TIMEOUT: "instead of hanging forever").                         *)
NeverHangs == []<>(pc \in {"idle", "halted", "no disk"})

(* The refinement mapping onto SectorStore.                                *)
Sectors == Ports \X Lbas
Contents == [x \in Sectors |-> disk[x[1]][x[2]]]
Asked == IF args = NoRequest THEN NoRequest
         ELSE [write |-> args.write, sector |-> <<dev.port, args.lba>>]
Served == moved = TRUE /\ args # NoRequest
Phase == CASE pc \in {"prepare", "not busy", "wait", "check"} -> "asked"
           [] pc = "halted" -> "stopped"
           [] OTHER -> "idle"

Store == INSTANCE SectorStore WITH
    store <- Contents, req <- Asked, served <- Served, phase <- Phase

(* The driver with its device is a SectorStore: success is reported only   *)
(* when the data of this request has been moved, between its sector and    *)
(* its buffer, in its direction, once; after an error nobody uses the      *)
(* buffer that the device may still write to.                              *)
ImplementsSectorStore == Store!Spec
=============================================================================
