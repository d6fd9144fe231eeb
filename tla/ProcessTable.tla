---------------------------- MODULE ProcessTable ----------------------------
(***************************************************************************)
(* The process table, the round-robin scheduler and the process system     *)
(* calls: process.c, the timer entry timer.asm, the system call entry      *)
(* syscalls.asm, and the execve, exit, wait4, getpid and fork cases of     *)
(* syscall.c.                                                              *)
(*                                                                         *)
(* Both the int 0x80 gate and the timer gate are interrupt gates, so a     *)
(* system call and a timer tick each run to their end with interrupts off: *)
(* each is one action.  The two places where the kernel itself enables     *)
(* interrupts and halts, at the end of exit_current_process() and of       *)
(* schedule(), are the modes "exit" and "idle".                            *)
(*                                                                         *)
(* Kernel stacks and address spaces are kept, since a mix-up of either is  *)
(* what goes wrong here: a stack is named by its slot (BootStack is        *)
(* boot.asm's own stack) and holds one saved register frame, named by the  *)
(* pid it belongs to; an address space is named by the pid whose           *)
(* create_process() made it.                                               *)
(***************************************************************************)
EXTENDS Integers

CONSTANTS MAX_PROCESSES,   \* slots in the table (8 in process.h)
          MaxPid,          \* the last pid a behaviour may hand out
          ExitCodes,       \* the exit codes programs use
          MaxNest          \* frames counted on a kernel stack; stands for "or more"

ASSUME ConstantsAssumption ==
  /\ MAX_PROCESSES \in Nat /\ MAX_PROCESSES >= 1
  /\ MaxPid \in Nat /\ MaxPid >= 1
  /\ MaxNest \in Nat /\ MaxNest >= 2
  /\ ExitCodes \subseteq Int /\ 0 \in ExitCodes

\* create_process() returns the pid as an int, and its callers take a negative
\* one for a failure: below 2^31 the conversion keeps the pid.
ASSUME PidWidthAssumption == MaxPid <= 2147483647

Slots == 0 .. MAX_PROCESSES - 1
BootStack == MAX_PROCESSES
Stacks == 0 .. MAX_PROCESSES
Pids == 1 .. MaxPid
PidOrNone == 0 .. MaxPid

READY == "READY"
RUNNING == "RUNNING"
ZOMBIE == "ZOMBIE"
TERMINATED == "TERMINATED"
States == {READY, RUNNING, ZOMBIE, TERMINATED}
Modes == {"boot", "user", "exit", "idle"}
SystemCalls == {"none", "getpid", "fork", "execve", "wait4"}

VARIABLES
  \* the fields of processes[], each a function of the slot
  pid, ppid, exit_code, state,
  esp,                  \* the stack the saved frame is on
  kernel_stack,
  pml4,                 \* the address space (0: none)
  \* the scheduler
  current_process_idx, next_pid,
  \* the CPU
  rsp0,                 \* TSS.RSP0: the stack the next entry from ring 3 uses
  cr3,                  \* the address space in force (0: the kernel's)
  kstack,               \* the owner of the frame saved on each stack
  cpu,                  \* the owner of the registers the CPU executes with
  mode,                 \* where the CPU is: boot, user, exit or idle
  nest,                 \* frames on the stack the halted kernel is on
  result                \* what the last system call gave to which program

creation == <<esp, kernel_stack, pml4>>
processes == <<pid, ppid, exit_code, state, creation>>
vars == <<processes, current_process_idx, next_pid, rsp0, cr3, kstack, cpu,
          mode, nest, result>>

-----------------------------------------------------------------------------
(* kernel(): scheduler_init() frees every slot; create_process(0) fills slot *)
(* 0 with pid 1 and no parent; the explicit vmm_switch_pml4() and            *)
(* set_kernel_stack() for it; then sti and the halt loop on the boot stack.  *)

Init ==
  /\ pid = [i \in Slots |-> IF i = 0 THEN 1 ELSE 0]
  /\ ppid = [i \in Slots |-> 0]
  /\ exit_code = [i \in Slots |-> 0]
  /\ state = [i \in Slots |-> IF i = 0 THEN READY ELSE TERMINATED]
  /\ esp = [i \in Slots |-> IF i = 0 THEN 0 ELSE BootStack]
  /\ kernel_stack = [i \in Slots |-> IF i = 0 THEN 0 ELSE BootStack]
  /\ pml4 = [i \in Slots |-> IF i = 0 THEN 1 ELSE 0]
  /\ current_process_idx = 0
  /\ next_pid = 2
  /\ rsp0 = 0
  /\ cr3 = 1
  /\ kstack = [s \in Stacks |-> IF s = 0 THEN 1 ELSE 0]
  /\ cpu = 0
  /\ mode = "boot"
  /\ nest = 0
  /\ result = [caller |-> 0, call |-> "none", rax |-> 0, status |-> 0]

-----------------------------------------------------------------------------
(* System calls.  Only the program on the CPU makes them; the entry stub     *)
(* pushes its registers onto the stack RSP0 names, and pops them on return.  *)

EnterKernel == [kstack EXCEPT ![rsp0] = cpu]

\* The call c returns v in the saved rax and st in *status: the frame popped at
\* the end is the one on the stack the call entered on.
ReturnsWith(c, v, st, ks) ==
  /\ result' = [caller |-> ks[rsp0], call |-> c, rax |-> v, status |-> st]
  /\ kstack' = ks
  /\ cpu' = ks[rsp0]
  /\ UNCHANGED <<current_process_idx, rsp0, cr3, mode, nest>>

SyscallReturns(c, v, ks) == ReturnsWith(c, v, result.status, ks)

getpid ==
  /\ mode = "user"
  /\ SyscallReturns("getpid", pid[current_process_idx], EnterKernel)
  /\ UNCHANGED <<processes, next_pid>>

fork ==
  /\ mode = "user"
  /\ SyscallReturns("fork", -1, EnterKernel)
  /\ UNCHANGED <<processes, next_pid>>

\* execve that stops before create_process() has changed the table: no such
\* file, a size or a header that is refused, no free slot, no page for the
\* page tables.  The fallback, spawn_from_ramfs(), fails too: nothing ever
\* installs a ramfs image.
ExecveRefused ==
  /\ mode = "user"
  /\ SyscallReturns("execve", -1, EnterKernel)
  /\ UNCHANGED <<processes, next_pid>>

\* The slot create_process() takes: the first free one.
IsFreeSlot(i) ==
  /\ state[i] = TERMINATED
  /\ \A j \in Slots : j < i => state[j] # TERMINATED

\* Mutant: "no parent" is stored as -1.
ParentPid_MinusOne ==
  IF state[current_process_idx] = RUNNING THEN -1 ELSE 0

ParentPid ==
  IF state[current_process_idx] = RUNNING THEN pid[current_process_idx] ELSE 0

\* create_process() in the slot i, but for the state: the next pid, an initial
\* frame for the slot's own kernel stack and an address space of its own.
FillSlot(i) ==
  /\ pid' = [pid EXCEPT ![i] = next_pid]
  /\ ppid' = [ppid EXCEPT ![i] = ParentPid]
  /\ exit_code' = [exit_code EXCEPT ![i] = 0]
  /\ esp' = [esp EXCEPT ![i] = i]
  /\ kernel_stack' = [kernel_stack EXCEPT ![i] = i]
  /\ pml4' = [pml4 EXCEPT ![i] = next_pid]
  /\ next_pid' = next_pid + 1

CreatedStates(i) == [state EXCEPT ![i] = READY]

\* Mutant: no initial frame is written.
CreatedStacks_NoFrame(i) == EnterKernel

CreatedStacks(i) == [EnterKernel EXCEPT ![i] = next_pid]

\* The slot get_process_by_pid(p) finds: the first one in use with this pid.
IsProcessByPid(pids, states, p, i) ==
  /\ pids[i] = p /\ states[i] # TERMINATED
  /\ \A j \in Slots : j < i => ~(pids[j] = p /\ states[j] # TERMINATED)

\* execve whose load_elf_into_process() fails (bad program header, no page):
\* the slot is given back, the pid is not.
ExecveLoadFails ==
  /\ mode = "user" /\ next_pid <= MaxPid
  /\ \E i, j \in Slots :
       /\ IsFreeSlot(i)
       /\ FillSlot(i)
       /\ IsProcessByPid(pid', CreatedStates(i), next_pid, j)
       /\ state' = [CreatedStates(i) EXCEPT ![j] = TERMINATED]
       /\ SyscallReturns("execve", -1, CreatedStacks(i))

\* Mutant: the pid of the parent is given to the child.
ExecveSpawns_SamePid ==
  /\ mode = "user" /\ next_pid <= MaxPid
  /\ \E i \in Slots :
       /\ IsFreeSlot(i)
       /\ pid' = [pid EXCEPT ![i] = pid[current_process_idx]]
       /\ ppid' = [ppid EXCEPT ![i] = ParentPid]
       /\ state' = CreatedStates(i)
       /\ SyscallReturns("execve", next_pid, EnterKernel)
  /\ UNCHANGED <<exit_code, creation, next_pid>>

ExecveSpawns ==
  /\ mode = "user" /\ next_pid <= MaxPid
  /\ \E i \in Slots :
       /\ IsFreeSlot(i)
       /\ FillSlot(i)
       /\ state' = CreatedStates(i)
       /\ SyscallReturns("execve", next_pid, CreatedStacks(i))

\* Mutant: the slot is given back at once instead of waiting for wait4.
exit_current_process_FreesSlot(c) ==
  /\ mode = "user"
  /\ exit_code' = [exit_code EXCEPT ![current_process_idx] = c]
  /\ state' = [state EXCEPT ![current_process_idx] = TERMINATED]
  /\ kstack' = EnterKernel
  /\ mode' = "exit"
  /\ nest' = 1
  /\ UNCHANGED <<pid, ppid, creation, current_process_idx, next_pid, rsp0, cr3,
                 cpu, result>>

\* exit: the slot keeps the code as a zombie, and the kernel halts with
\* interrupts on, still on the process's stack and in its address space.
exit_current_process(c) ==
  /\ mode = "user"
  /\ exit_code' = [exit_code EXCEPT ![current_process_idx] = c]
  /\ state' = [state EXCEPT ![current_process_idx] = ZOMBIE]
  /\ kstack' = EnterKernel
  /\ mode' = "exit"
  /\ nest' = 1
  /\ UNCHANGED <<pid, ppid, creation, current_process_idx, next_pid, rsp0, cr3,
                 cpu, result>>

\* Mutant: any zombie will do.
IsZombieChild_AnyParent(i) == state[i] = ZOMBIE

\* The slot wait4 finds: the first zombie child of the caller.
IsZombieChild(i) == state[i] = ZOMBIE /\ ppid[i] = pid[current_process_idx]
IsFirstZombieChild(i) ==
  IsZombieChild(i) /\ \A j \in Slots : j < i => ~IsZombieChild(j)

Wait4Reaps ==
  /\ mode = "user"
  /\ \E i \in Slots :
       /\ IsFirstZombieChild(i)
       /\ state' = [state EXCEPT ![i] = TERMINATED]
       /\ pid' = [pid EXCEPT ![i] = 0]
       /\ ppid' = [ppid EXCEPT ![i] = 0]
       /\ exit_code' = [exit_code EXCEPT ![i] = 0]
       /\ ReturnsWith("wait4", pid[i], exit_code[i], EnterKernel)
  /\ UNCHANGED <<creation, next_pid>>

Wait4FindsNone ==
  /\ mode = "user"
  /\ \A i \in Slots : ~IsZombieChild(i)
  /\ SyscallReturns("wait4", -1, EnterKernel)
  /\ UNCHANGED <<processes, next_pid>>

-----------------------------------------------------------------------------
(* The timer: timer_handler_asm pushes a frame and calls schedule(), which   *)
(* returns the stack to pop the next frame from.                             *)

\* The frame goes to RSP0's stack from ring 3.  In the halt loops the kernel is
\* already deeper on its stack, and the frames it holds stay.
TickStacks == IF mode = "user" THEN EnterKernel ELSE kstack

\* schedule() stores the interrupted stack pointer for a running process only.
InterruptedEsp ==
  IF state[current_process_idx] = RUNNING
  THEN [esp EXCEPT ![current_process_idx] = rsp0]
  ELSE esp

\* How many slots after c the scan from c + 1, modulo MAX_PROCESSES, meets i.
Distance(c, i) == IF i > c THEN i - c ELSE i - c + MAX_PROCESSES

\* Mutant: the scan starts from slot 0 every time.
IsNextReady_FromSlotZero(i) ==
  /\ i # current_process_idx /\ state[i] = READY
  /\ \A j \in Slots \ {current_process_idx} : state[j] = READY => i <= j

\* The slot the scan picks: the first READY one after the current slot.
IsNextReady(i) ==
  /\ i # current_process_idx /\ state[i] = READY
  /\ \A j \in Slots \ {current_process_idx} :
       state[j] = READY =>
         Distance(current_process_idx, i) <= Distance(current_process_idx, j)

\* Mutant: the scan does not wrap round at the end of the table.
NoOtherReady_NoWrap ==
  \A j \in Slots : j > current_process_idx => state[j] # READY

NoOtherReady ==
  \A j \in Slots \ {current_process_idx} : state[j] # READY

\* A running process goes back to READY when another one is picked.
DemotedStates ==
  IF state[current_process_idx] = RUNNING
  THEN [state EXCEPT ![current_process_idx] = READY]
  ELSE state

\* Mutant: the stack of the previous process stays in TSS.RSP0.
activate_process_KeepsStack(i) ==
  /\ current_process_idx' = i
  /\ state' = [DemotedStates EXCEPT ![i] = RUNNING]
  /\ cr3' = IF pml4[i] # 0 THEN pml4[i] ELSE cr3
  /\ UNCHANGED rsp0

\* activate_process(i): RUNNING and current, with its stack and address space.
activate_process(i) ==
  /\ current_process_idx' = i
  /\ state' = [DemotedStates EXCEPT ![i] = RUNNING]
  /\ rsp0' = kernel_stack[i]
  /\ cr3' = IF pml4[i] # 0 THEN pml4[i] ELSE cr3

TickSwitches ==
  /\ \E i \in Slots :
       /\ IsNextReady(i)
       /\ activate_process(i)
       /\ cpu' = TickStacks[InterruptedEsp[i]]
  /\ esp' = InterruptedEsp
  /\ kstack' = TickStacks
  /\ mode' = "user"
  /\ nest' = 0
  /\ UNCHANGED <<pid, ppid, exit_code, kernel_stack, pml4, next_pid, result>>

\* Nobody else is READY: the current process goes on.  This is also how the
\* first process starts.
TickResumes ==
  /\ NoOtherReady
  /\ state[current_process_idx] \notin {TERMINATED, ZOMBIE}
  /\ state' = [state EXCEPT ![current_process_idx] = RUNNING]
  /\ esp' = InterruptedEsp
  /\ kstack' = TickStacks
  /\ cpu' = TickStacks[InterruptedEsp[current_process_idx]]
  /\ mode' = "user"
  /\ nest' = 0
  /\ UNCHANGED <<pid, ppid, exit_code, kernel_stack, pml4, current_process_idx,
                 next_pid, rsp0, cr3, result>>

\* Nothing can run: schedule() halts inside the handler and never returns, so
\* every further tick leaves one more frame on the same stack.
TickIdles ==
  /\ NoOtherReady
  /\ state[current_process_idx] \in {TERMINATED, ZOMBIE}
  /\ mode' = "idle"
  /\ nest' = IF nest < MaxNest THEN nest + 1 ELSE nest
  /\ UNCHANGED <<processes, current_process_idx, next_pid, rsp0, cr3, kstack,
                 cpu, result>>

Tick == TickSwitches \/ TickResumes \/ TickIdles

-----------------------------------------------------------------------------
Next ==
  \/ getpid \/ fork
  \/ ExecveRefused \/ ExecveLoadFails \/ ExecveSpawns
  \/ \E c \in ExitCodes : exit_current_process(c)
  \/ Wait4Reaps \/ Wait4FindsNone
  \/ Tick

Spec == Init /\ [][Next]_vars

\* The timer runs at 100 Hz from boot on and every mode has interrupts on, so a
\* tick always comes; no program is obliged to do anything.
FairSpec == Spec /\ WF_vars(Tick)

-----------------------------------------------------------------------------
(* Properties *)

TableTypeOK ==
  /\ pid \in [Slots -> PidOrNone]
  /\ ppid \in [Slots -> PidOrNone]
  /\ exit_code \in [Slots -> ExitCodes]
  /\ state \in [Slots -> States]
  /\ esp \in [Slots -> Stacks]
  /\ kernel_stack \in [Slots -> Stacks]
  /\ pml4 \in [Slots -> PidOrNone]
  /\ current_process_idx \in Slots
  /\ next_pid \in 1 .. MaxPid + 1

CpuTypeOK ==
  /\ rsp0 \in Stacks
  /\ cr3 \in PidOrNone
  /\ kstack \in [Stacks -> PidOrNone]
  /\ cpu \in PidOrNone
  /\ mode \in Modes
  /\ nest \in 0 .. MaxNest

Results == [caller : PidOrNone, call : SystemCalls,
            rax : PidOrNone \cup {-1}, status : ExitCodes]

\* Every field of the table and every register keeps its type: no slot, stack
\* or pid is ever out of range (all of process.c).
TypeOK == TableTypeOK /\ CpuTypeOK /\ result \in Results

\* Whatever ticks, exits and spawns came before, a program runs with its own
\* registers, in its own address space, and its next kernel entry lands on its
\* own kernel stack (activate_process(); gdt.c tells of the time when all
\* entries landed on one shared stack and clobbered each other's frames).
RunsInOwnContext ==
  mode = "user" =>
    /\ state[current_process_idx] = RUNNING
    /\ cpu = pid[current_process_idx]
    /\ cr3 = pid[current_process_idx]
    /\ rsp0 = current_process_idx

\* A process that waits for the CPU has its frame intact on its own kernel
\* stack and its own address space, so that resuming it resumes what it was
\* doing, whichever system calls other processes made meanwhile (schedule(),
\* create_process(), the entry stubs).
SuspendedFrameIntact ==
  \A i \in Slots :
    state[i] = READY => esp[i] = i /\ kstack[i] = pid[i] /\ pml4[i] = pid[i]

\* No two slots in use share a pid, and a creator is older than what it
\* created: get_process_by_pid() and wait4's comparison of ppid are unambiguous
\* however often slots are reused.
PidsUnambiguous ==
  \A i \in Slots :
    state[i] # TERMINATED =>
      /\ 0 < pid[i] /\ pid[i] < next_pid
      /\ ppid[i] < pid[i]
      /\ \A j \in Slots \ {i} : state[j] # TERMINATED => pid[i] # pid[j]

\* The slot whose stack and page tables the CPU is using is never freed: a
\* process that is halting in exit_current_process() is reaped, and its slot
\* reused, only after the scheduler has left it.
CurrentSlotNeverFree == state[current_process_idx] # TERMINATED

\* The machine halts in schedule(), piling up timer frames on a stack of fixed
\* size, only when there is nothing left to run.
IdleOnlyWhenNothingRuns ==
  nest > 1 => \A i \in Slots : state[i] \notin {READY, RUNNING}

\* The registers and the mode agree with the table.
CpuInv ==
  /\ rsp0 = current_process_idx
  /\ cr3 = pid[current_process_idx]
  /\ mode = "boot" => state[current_process_idx] = READY
  /\ mode = "user" => /\ state[current_process_idx] = RUNNING
                      /\ cpu = pid[current_process_idx]
  /\ mode \in {"exit", "idle"} => state[current_process_idx] = ZOMBIE
  /\ mode = "idle" => \A i \in Slots : state[i] # READY
  /\ nest > 1 => mode = "idle"

\* What create_process() set up for a slot stays right while it is in use.
SlotInv ==
  \A i \in Slots :
    /\ state[i] = RUNNING => i = current_process_idx /\ mode = "user"
    /\ state[i] # TERMINATED =>
         kernel_stack[i] = i /\ esp[i] = i /\ pml4[i] = pid[i]
    /\ state[i] = READY => kstack[i] = pid[i]

\* The inductive invariant behind the properties above.
SchedulerInv == CpuInv /\ SlotInv /\ PidsUnambiguous

\* Round robin: every tick that leaves a process waiting brings the scheduler
\* strictly nearer to it, so that it waits at most MAX_PROCESSES - 1 ticks,
\* whatever is spawned, exits or is reaped meanwhile (schedule()'s scan).
EveryTickComesCloser ==
  [][\A i \in Slots :
       (state[i] = READY /\ Tick /\ state'[i] = READY) =>
         Distance(current_process_idx', i) < Distance(current_process_idx, i)]_vars

\* No process waits for the CPU for ever (schedule(), the timer).
ReadyEventuallyRuns ==
  \A i \in Slots : state[i] = READY ~> state[i] = RUNNING

-----------------------------------------------------------------------------
(* The refinement mapping onto ProcessLifecycle: a pid is where the table    *)
(* has it, and a pid that has been handed out but is in no slot is gone.     *)

InSlot(p, i) == state[i] # TERMINATED /\ pid[i] = p
HasSlot(p) == \E i \in Slots : InSlot(p, i)
SlotOf(p) == CHOOSE i \in Slots : InSlot(p, i)

LifeStatus(p) ==
  IF p >= next_pid THEN "unborn"
  ELSE IF ~HasSlot(p) THEN "gone"
  ELSE IF state[SlotOf(p)] = ZOMBIE THEN "zombie" ELSE "alive"

LifeStatuses == [p \in Pids |-> LifeStatus(p)]
Parents == [p \in Pids |-> IF HasSlot(p) THEN ppid[SlotOf(p)] ELSE 0]
Codes == [p \in Pids |-> IF HasSlot(p) THEN exit_code[SlotOf(p)] ELSE 0]

Lifecycle ==
  INSTANCE ProcessLifecycle
    WITH status <- LifeStatuses, parent <- Parents, code <- Codes

\* The table implements the life cycle: pids are never reused, an exit code is
\* delivered once, by wait4, to the creator and to no other, wait4 fails only
\* when there is nothing to collect, and ticks change no process's life.
ImplementsLifecycle == Lifecycle!Spec
=============================================================================
