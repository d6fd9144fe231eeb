------------------------- MODULE ProcessTableProofs -------------------------
(***************************************************************************)
(* Proofs about ProcessTable, for any number of slots, pids and exit codes.*)
(*                                                                         *)
(* The properties are not inductive one by one: that the program on the    *)
(* CPU owns its registers depends on the frames of the suspended programs  *)
(* being intact, which depends on RSP0 naming the current slot, which      *)
(* depends on no slot being handed out twice.  SchedulerInv puts them      *)
(* together.  ImplementsLifecycle comes last.                              *)
(***************************************************************************)
EXTENDS ProcessTable, TLAPS

\* kernel() starts the scheduler with every field in its type.
LEMMA InitTypeOK == Init => TypeOK
  BY ConstantsAssumption
  DEF Init, TypeOK, TableTypeOK, CpuTypeOK, Results, Slots, Stacks, BootStack,
      PidOrNone, States, Modes, SystemCalls, READY, TERMINATED

\* Every slot of the table has a kernel stack of the same number.
LEMMA SlotsAreStacks == Slots \subseteq Stacks
  BY ConstantsAssumption DEF Slots, Stacks

\* The four PROCESS_STATE_ values are states.
LEMMA StatesInStates ==
  READY \in States /\ RUNNING \in States /\ ZOMBIE \in States /\ TERMINATED \in States
  BY DEF States

\* 0 stands for "no pid" and is the exit code of a fresh slot.
LEMMA ZeroInPidOrNone == 0 \in PidOrNone /\ 0 \in ExitCodes
  BY ConstantsAssumption DEF PidOrNone

\* Every system call and every tick keeps the types, action by action.
LEMMA NextTypeOK == TypeOK /\ [Next]_vars => TypeOK'
<1> SUFFICES ASSUME TypeOK, [Next]_vars
             PROVE  TypeOK'
  OBVIOUS
<1> USE SlotsAreStacks, StatesInStates, ZeroInPidOrNone
    DEF TypeOK, TableTypeOK, CpuTypeOK
<1>1. EnterKernel \in [Stacks -> PidOrNone]
  BY DEF EnterKernel
<1>2. next_pid <= MaxPid => next_pid \in PidOrNone /\ next_pid + 1 \in 1 .. MaxPid + 1
  BY ConstantsAssumption DEF PidOrNone
<1>3. ASSUME next_pid <= MaxPid, NEW i \in Slots, FillSlot(i)
      PROVE  /\ pid' \in [Slots -> PidOrNone]
             /\ ppid' \in [Slots -> PidOrNone]
             /\ exit_code' \in [Slots -> ExitCodes]
             /\ esp' \in [Slots -> Stacks]
             /\ kernel_stack' \in [Slots -> Stacks]
             /\ pml4' \in [Slots -> PidOrNone]
             /\ next_pid' \in 1 .. MaxPid + 1
             /\ CreatedStates(i) \in [Slots -> States]
             /\ CreatedStacks(i) \in [Stacks -> PidOrNone]
  BY <1>1, <1>2, <1>3 DEF FillSlot, CreatedStates, CreatedStacks, ParentPid
<1>4. ASSUME NEW c \in SystemCalls, NEW v \in PidOrNone \cup {-1},
             NEW st \in ExitCodes, NEW ks \in [Stacks -> PidOrNone],
             ReturnsWith(c, v, st, ks)
      PROVE  /\ CpuTypeOK'
             /\ result' \in Results
             /\ current_process_idx' \in Slots
  BY <1>4 DEF ReturnsWith, Results
<1>5. ASSUME NEW c \in SystemCalls, NEW v \in PidOrNone \cup {-1},
             NEW ks \in [Stacks -> PidOrNone], SyscallReturns(c, v, ks)
      PROVE  /\ CpuTypeOK'
             /\ result' \in Results
             /\ current_process_idx' \in Slots
  <2>1. result.status \in ExitCodes
    BY DEF Results
  <2> QED BY <1>4, <1>5, <2>1 DEF SyscallReturns
<1>6. /\ "getpid" \in SystemCalls /\ "fork" \in SystemCalls
      /\ "execve" \in SystemCalls /\ "wait4" \in SystemCalls
  BY DEF SystemCalls
<1>7. TickStacks \in [Stacks -> PidOrNone]
  BY <1>1 DEF TickStacks
<1>8. /\ InterruptedEsp \in [Slots -> Stacks]
      /\ DemotedStates \in [Slots -> States]
  BY DEF InterruptedEsp, DemotedStates
<1>9. "user" \in Modes /\ "exit" \in Modes /\ "idle" \in Modes
  BY DEF Modes
<1>10. 0 \in 0 .. MaxNest /\ 1 \in 0 .. MaxNest
       /\ (nest < MaxNest => nest + 1 \in 0 .. MaxNest)
  BY ConstantsAssumption
<1>11. CASE getpid
  BY <1>11, <1>1, <1>5, <1>6 DEF getpid, processes, creation
<1>12. CASE fork
  BY <1>12, <1>1, <1>5, <1>6 DEF fork, processes, creation
<1>13. CASE ExecveRefused
  BY <1>13, <1>1, <1>5, <1>6 DEF ExecveRefused, processes, creation
<1>14. CASE ExecveLoadFails
  <2>1. PICK i \in Slots, j \in Slots :
          /\ next_pid <= MaxPid
          /\ FillSlot(i)
          /\ state' = [CreatedStates(i) EXCEPT ![j] = TERMINATED]
          /\ SyscallReturns("execve", -1, CreatedStacks(i))
    BY <1>14 DEF ExecveLoadFails
  <2>2. state' \in [Slots -> States]
    BY <1>3, <2>1
  <2> QED BY <1>3, <1>5, <1>6, <2>1, <2>2
<1>15. CASE ExecveSpawns
  BY <1>15, <1>2, <1>3, <1>5, <1>6 DEF ExecveSpawns
<1>16. CASE \E c \in ExitCodes : exit_current_process(c)
  BY <1>16, <1>1, <1>9, <1>10 DEF exit_current_process, creation
<1>17. CASE Wait4Reaps
  BY <1>17, <1>1, <1>4, <1>6 DEF Wait4Reaps, creation
<1>18. CASE Wait4FindsNone
  BY <1>18, <1>1, <1>5, <1>6 DEF Wait4FindsNone, processes, creation
<1>19. CASE TickSwitches
  BY <1>19, <1>7, <1>8, <1>9, <1>10 DEF TickSwitches, activate_process
<1>20. CASE TickResumes
  BY <1>20, <1>7, <1>8, <1>9, <1>10 DEF TickResumes
<1>21. CASE TickIdles
  BY <1>21, <1>9, <1>10 DEF TickIdles, processes, creation
<1>22. CASE UNCHANGED vars
  BY <1>22 DEF vars, processes, creation
<1> QED
  BY <1>11, <1>12, <1>13, <1>14, <1>15, <1>16, <1>17, <1>18, <1>19, <1>20,
     <1>21, <1>22 DEF Next, Tick

\* Every field of the table and every register keeps its type, for any number
\* of slots and pids.
THEOREM TypeCorrect == Spec => []TypeOK
  BY InitTypeOK, NextTypeOK, PTL DEF Spec

-----------------------------------------------------------------------------
\* The table kernel() leaves to the first tick satisfies the invariant.
LEMMA InitSchedulerInv == Init => SchedulerInv
<1> USE ConstantsAssumption
    DEF READY, RUNNING, ZOMBIE, TERMINATED, Slots, Stacks
<1> SUFFICES ASSUME Init PROVE SchedulerInv
  OBVIOUS
<1>1. CpuInv
  BY DEF Init, CpuInv
<1>2. SlotInv
  BY DEF Init, SlotInv
<1>3. PidsUnambiguous
  BY DEF Init, PidsUnambiguous
<1> QED BY <1>1, <1>2, <1>3 DEF SchedulerInv

\* Slots and pids are integers, which is all the arithmetic below needs.
LEMMA SlotsAreInts == Slots \subseteq Int /\ PidOrNone \subseteq Int
  BY ConstantsAssumption DEF Slots, PidOrNone

\* A system call that leaves the table alone leaves the caller's frame on the
\* caller's own stack.
LEMMA QuietSyscall ==
  ASSUME TypeOK, SchedulerInv, mode = "user", NEW c, NEW v,
         SyscallReturns(c, v, EnterKernel), UNCHANGED <<processes, next_pid>>
  PROVE  SchedulerInv'
<1> USE DEF READY, RUNNING, ZOMBIE, TERMINATED
<1>1. /\ kstack' = [kstack EXCEPT ![current_process_idx] = pid[current_process_idx]]
      /\ cpu' = pid[current_process_idx]
      /\ UNCHANGED <<current_process_idx, rsp0, cr3, mode, nest>>
  BY SlotsAreStacks DEF TypeOK, TableTypeOK, CpuTypeOK, SchedulerInv, CpuInv,
     EnterKernel, SyscallReturns, ReturnsWith
<1>2. UNCHANGED <<pid, ppid, state, esp, kernel_stack, pml4, next_pid>>
  BY DEF processes, creation
<1>3. CpuInv'
  BY <1>1, <1>2 DEF SchedulerInv, CpuInv
<1>4. SlotInv'
  BY <1>1, <1>2, SlotsAreStacks
  DEF SchedulerInv, SlotInv, TypeOK, TableTypeOK, CpuTypeOK
<1>5. PidsUnambiguous'
  BY <1>2 DEF SchedulerInv, PidsUnambiguous
<1> QED BY <1>3, <1>4, <1>5 DEF SchedulerInv

\* create_process() in a free slot gives it a pid that nothing else has, and
\* touches neither the caller's slot nor the caller's frame.
LEMMA FillFreeSlot ==
  ASSUME TypeOK, SchedulerInv, mode = "user", next_pid <= MaxPid,
         NEW i \in Slots, IsFreeSlot(i), FillSlot(i), NEW c, NEW v,
         SyscallReturns(c, v, CreatedStacks(i))
  PROVE  /\ i # current_process_idx
         /\ CreatedStacks(i) =
              [kstack EXCEPT ![current_process_idx] = pid[current_process_idx],
                             ![i] = next_pid]
         /\ kstack' = CreatedStacks(i)
         /\ cpu' = pid[current_process_idx]
         /\ ppid'[i] < pid'[i]
         /\ UNCHANGED <<current_process_idx, rsp0, cr3, mode, nest>>
<1> USE DEF READY, RUNNING, ZOMBIE, TERMINATED
<1>1. i # current_process_idx
  BY DEF IsFreeSlot, SchedulerInv, CpuInv
<1>2. CreatedStacks(i) =
        [kstack EXCEPT ![current_process_idx] = pid[current_process_idx],
                       ![i] = next_pid]
  BY DEF CreatedStacks, EnterKernel, SchedulerInv, CpuInv
<1>3. ParentPid = pid[current_process_idx] /\ ParentPid < next_pid
  BY DEF ParentPid, SchedulerInv, CpuInv, PidsUnambiguous, TypeOK, TableTypeOK
<1>4. ppid'[i] < pid'[i]
  BY <1>3 DEF FillSlot, TypeOK, TableTypeOK
<1>5. /\ kstack' = CreatedStacks(i)
      /\ cpu' = CreatedStacks(i)[rsp0]
      /\ UNCHANGED <<current_process_idx, rsp0, cr3, mode, nest>>
  BY DEF SyscallReturns, ReturnsWith
<1>6. cpu' = pid[current_process_idx]
  BY <1>1, <1>2, <1>5, SlotsAreStacks
  DEF SchedulerInv, CpuInv, TypeOK, TableTypeOK, CpuTypeOK
<1> QED BY <1>1, <1>2, <1>4, <1>5, <1>6

\* Every system call and every tick keeps the inductive invariant: the registers
\* agree with the table, what create_process() set up stays right while a slot is
\* in use, and pids are unambiguous.
LEMMA NextSchedulerInv == TypeOK /\ SchedulerInv /\ [Next]_vars => SchedulerInv'
<1> SUFFICES ASSUME TypeOK, SchedulerInv, [Next]_vars
             PROVE  SchedulerInv'
  OBVIOUS
<1> USE DEF READY, RUNNING, ZOMBIE, TERMINATED
<1>1. CASE getpid
  BY <1>1, QuietSyscall DEF getpid
<1>2. CASE fork
  BY <1>2, QuietSyscall DEF fork
<1>3. CASE ExecveRefused
  BY <1>3, QuietSyscall DEF ExecveRefused
<1>4. CASE ExecveLoadFails
  <2>1. PICK i \in Slots, j \in Slots :
          /\ mode = "user" /\ next_pid <= MaxPid
          /\ IsFreeSlot(i)
          /\ FillSlot(i)
          /\ IsProcessByPid(pid', CreatedStates(i), next_pid, j)
          /\ state' = [CreatedStates(i) EXCEPT ![j] = TERMINATED]
          /\ SyscallReturns("execve", -1, CreatedStacks(i))
    BY <1>4 DEF ExecveLoadFails
  <2>2. i # current_process_idx /\ state[i] = TERMINATED
    BY <2>1, FillFreeSlot DEF IsFreeSlot
  <2>3. i = j
    <3>1. pid'[j] = next_pid /\ CreatedStates(i)[j] # TERMINATED
      BY <2>1 DEF IsProcessByPid
    <3>2. j # i => state[j] # TERMINATED /\ pid[j] = next_pid
      BY <2>1, <3>1 DEF FillSlot, CreatedStates, TypeOK, TableTypeOK
    <3> QED
      BY <3>2, SlotsAreInts DEF SchedulerInv, PidsUnambiguous, TypeOK, TableTypeOK
  <2>4. state' = state
    BY <2>1, <2>2, <2>3 DEF CreatedStates, TypeOK, TableTypeOK
  <2>5. \A k \in Slots \ {i} :
          /\ pid'[k] = pid[k] /\ ppid'[k] = ppid[k] /\ esp'[k] = esp[k]
          /\ kernel_stack'[k] = kernel_stack[k] /\ pml4'[k] = pml4[k]
    BY <2>1 DEF FillSlot, TypeOK, TableTypeOK
  <2>6. \A k \in Slots \ {i} :
          kstack'[k] = IF k = current_process_idx THEN pid[k] ELSE kstack[k]
    BY <2>1, FillFreeSlot, SlotsAreStacks
    DEF TypeOK, TableTypeOK, CpuTypeOK
  <2>7. next_pid' = next_pid + 1
    BY <2>1 DEF FillSlot
  <2>8. CpuInv'
    BY <2>1, <2>2, <2>4, <2>5, FillFreeSlot
    DEF SchedulerInv, CpuInv, TypeOK, TableTypeOK
  <2>9. SlotInv'
    <3>1. UNCHANGED <<current_process_idx, mode>>
      BY <2>1, FillFreeSlot
    <3>2. \A k \in Slots : state'[k] # TERMINATED => k # i
      BY <2>2, <2>4
    <3> QED BY <2>4, <2>5, <2>6, <3>1, <3>2 DEF SchedulerInv, SlotInv
  <2>10. PidsUnambiguous'
    <3>1. \A k \in Slots : state'[k] # TERMINATED => k # i
      BY <2>2, <2>4
    <3>2. \A k \in Slots : pid[k] \in Int
      BY SlotsAreInts DEF TypeOK, TableTypeOK
    <3>3. next_pid \in Int
      BY ConstantsAssumption DEF TypeOK, TableTypeOK
    <3>4. \A k \in Slots : state'[k] # TERMINATED =>
            /\ 0 < pid'[k] /\ pid'[k] < next_pid' /\ ppid'[k] < pid'[k]
            /\ pid'[k] = pid[k] /\ state[k] # TERMINATED
      BY <2>4, <2>5, <2>7, <3>1, <3>2, <3>3 DEF SchedulerInv, PidsUnambiguous
    <3> QED BY <3>4 DEF SchedulerInv, PidsUnambiguous
  <2> QED BY <2>8, <2>9, <2>10 DEF SchedulerInv
<1>5. CASE ExecveSpawns
  <2>1. PICK i \in Slots :
          /\ mode = "user" /\ next_pid <= MaxPid
          /\ IsFreeSlot(i)
          /\ FillSlot(i)
          /\ state' = CreatedStates(i)
          /\ SyscallReturns("execve", next_pid, CreatedStacks(i))
    BY <1>5 DEF ExecveSpawns
  <2>2. i # current_process_idx /\ state[i] = TERMINATED
    BY <2>1, FillFreeSlot DEF IsFreeSlot
  <2>3. /\ state'[i] = READY /\ pid'[i] = next_pid /\ esp'[i] = i
        /\ kernel_stack'[i] = i /\ pml4'[i] = next_pid /\ kstack'[i] = next_pid
    <3>1. kstack' =
            [kstack EXCEPT ![current_process_idx] = pid[current_process_idx],
                           ![i] = next_pid]
      BY <2>1, FillFreeSlot
    <3>2. kstack'[i] = next_pid
      BY <3>1, SlotsAreStacks DEF TypeOK, CpuTypeOK
    <3> QED BY <2>1, <3>2 DEF FillSlot, CreatedStates, TypeOK, TableTypeOK
  <2>4. \A k \in Slots \ {i} :
          /\ state'[k] = state[k]
          /\ pid'[k] = pid[k] /\ ppid'[k] = ppid[k] /\ esp'[k] = esp[k]
          /\ kernel_stack'[k] = kernel_stack[k] /\ pml4'[k] = pml4[k]
    BY <2>1 DEF FillSlot, CreatedStates, TypeOK, TableTypeOK
  <2>5. \A k \in Slots \ {i} :
          kstack'[k] = IF k = current_process_idx THEN pid[k] ELSE kstack[k]
    BY <2>1, FillFreeSlot, SlotsAreStacks
    DEF TypeOK, TableTypeOK, CpuTypeOK
  <2>6. next_pid' = next_pid + 1 /\ ppid'[i] < pid'[i]
    BY <2>1, FillFreeSlot DEF FillSlot
  <2>7. CpuInv'
    BY <2>1, <2>2, <2>4, FillFreeSlot
    DEF SchedulerInv, CpuInv, TypeOK, TableTypeOK
  <2>8. SlotInv'
    BY <2>1, <2>2, <2>3, <2>4, <2>5, FillFreeSlot DEF SchedulerInv, SlotInv
  <2>9. PidsUnambiguous'
    <3>1. \A k \in Slots : pid[k] \in Int
      BY SlotsAreInts DEF TypeOK, TableTypeOK
    <3>2. next_pid \in Int /\ next_pid > 0
      BY ConstantsAssumption DEF TypeOK, TableTypeOK
    <3>3. \A k \in Slots : state'[k] # TERMINATED =>
            0 < pid'[k] /\ pid'[k] < next_pid' /\ ppid'[k] < pid'[k]
      BY <2>3, <2>4, <2>6, <3>1, <3>2 DEF SchedulerInv, PidsUnambiguous
    <3>4. \A k \in Slots \ {i} : state[k] # TERMINATED => pid[k] < next_pid
      BY DEF SchedulerInv, PidsUnambiguous
    <3>5. \A k, m \in Slots : (k # m /\ state'[k] # TERMINATED
            /\ state'[m] # TERMINATED) => pid'[k] # pid'[m]
      BY <2>3, <2>4, <3>1, <3>2, <3>4 DEF SchedulerInv, PidsUnambiguous
    <3> QED BY <3>3, <3>5 DEF PidsUnambiguous
  <2> QED BY <2>7, <2>8, <2>9 DEF SchedulerInv
<1>6. CASE \E c \in ExitCodes : exit_current_process(c)
  <2>1. /\ mode = "user" /\ mode' = "exit" /\ nest' = 1
        /\ state' = [state EXCEPT ![current_process_idx] = ZOMBIE]
        /\ kstack' = [kstack EXCEPT ![rsp0] = cpu]
        /\ UNCHANGED <<pid, ppid, esp, kernel_stack, pml4, current_process_idx,
                       next_pid, rsp0, cr3, cpu>>
    BY <1>6 DEF exit_current_process, EnterKernel, creation
  <2>2. CpuInv'
    BY <2>1 DEF SchedulerInv, CpuInv, TypeOK, TableTypeOK
  <2>3. SlotInv'
    BY <2>1, SlotsAreStacks
    DEF SchedulerInv, SlotInv, CpuInv, TypeOK, TableTypeOK, CpuTypeOK
  <2>4. PidsUnambiguous'
    BY <2>1 DEF SchedulerInv, CpuInv, PidsUnambiguous, TypeOK, TableTypeOK
  <2> QED BY <2>2, <2>3, <2>4 DEF SchedulerInv
<1>7. CASE Wait4Reaps
  <2>1. PICK i \in Slots :
          /\ mode = "user"
          /\ state[i] = ZOMBIE
          /\ state' = [state EXCEPT ![i] = TERMINATED]
          /\ pid' = [pid EXCEPT ![i] = 0]
          /\ ppid' = [ppid EXCEPT ![i] = 0]
          /\ kstack' = [kstack EXCEPT ![rsp0] = cpu]
          /\ cpu' = kstack'[rsp0]
          /\ UNCHANGED <<esp, kernel_stack, pml4, current_process_idx, next_pid,
                         rsp0, cr3, mode, nest>>
    BY <1>7 DEF Wait4Reaps, IsFirstZombieChild, IsZombieChild, ReturnsWith,
                EnterKernel, creation
  <2>2. i # current_process_idx
    BY <2>1 DEF SchedulerInv, CpuInv
  <2>3. CpuInv'
    BY <2>1, <2>2, SlotsAreStacks
    DEF SchedulerInv, CpuInv, TypeOK, TableTypeOK, CpuTypeOK
  <2>4. SlotInv'
    BY <2>1, <2>2, SlotsAreStacks
    DEF SchedulerInv, SlotInv, CpuInv, TypeOK, TableTypeOK, CpuTypeOK
  <2>5. PidsUnambiguous'
    BY <2>1, <2>2 DEF SchedulerInv, PidsUnambiguous, TypeOK, TableTypeOK
  <2> QED BY <2>3, <2>4, <2>5 DEF SchedulerInv
<1>8. CASE Wait4FindsNone
  BY <1>8, QuietSyscall DEF Wait4FindsNone
<1>9. CASE TickSwitches
  <2>1. PICK i \in Slots :
          /\ IsNextReady(i)
          /\ activate_process(i)
          /\ cpu' = TickStacks[InterruptedEsp[i]]
          /\ esp' = InterruptedEsp
          /\ kstack' = TickStacks
          /\ mode' = "user" /\ nest' = 0
          /\ UNCHANGED <<pid, ppid, kernel_stack, pml4, next_pid>>
    BY <1>9 DEF TickSwitches
  <2>2. i # current_process_idx /\ state[i] = READY
    BY <2>1 DEF IsNextReady
  <2>3. /\ esp' = esp
        /\ \A k \in Slots : kstack'[k] = IF mode = "user" /\ k = current_process_idx
                                         THEN pid[k] ELSE kstack[k]
    BY <2>1, SlotsAreStacks
    DEF InterruptedEsp, TickStacks, EnterKernel, SchedulerInv, CpuInv, SlotInv,
        TypeOK, TableTypeOK, CpuTypeOK
  <2>4. /\ state'[i] = RUNNING
        /\ state[current_process_idx] = RUNNING => state'[current_process_idx] = READY
        /\ state[current_process_idx] # RUNNING =>
             state'[current_process_idx] = state[current_process_idx]
        /\ \A k \in Slots \ {i, current_process_idx} : state'[k] = state[k]
    BY <2>1, <2>2 DEF activate_process, DemotedStates, TypeOK, TableTypeOK
  <2>5. current_process_idx' = i /\ rsp0' = i /\ cr3' = pid[i] /\ cpu' = pid[i]
    <3>1. kernel_stack[i] = i /\ pml4[i] = pid[i] /\ pid[i] # 0 /\ esp[i] = i
          /\ kstack[i] = pid[i]
      BY <2>2, SlotsAreInts DEF SchedulerInv, SlotInv, PidsUnambiguous, TypeOK, TableTypeOK
    <3>2. cpu' = kstack'[esp'[i]]
      BY <2>1
    <3> QED BY <2>1, <2>2, <2>3, <3>1, <3>2 DEF activate_process
  <2>6. \A k \in Slots : (state'[k] = TERMINATED) <=> (state[k] = TERMINATED)
    BY <2>2, <2>4
  <2>7. CpuInv'
    BY <2>1, <2>4, <2>5 DEF CpuInv
  <2>8. SlotInv'
    BY <2>1, <2>2, <2>3, <2>4, <2>5, <2>6 DEF SchedulerInv, SlotInv, CpuInv
  <2>9. PidsUnambiguous'
    BY <2>1, <2>6 DEF SchedulerInv, PidsUnambiguous
  <2> QED BY <2>7, <2>8, <2>9 DEF SchedulerInv
<1>10. CASE TickResumes
  <2>1. /\ state[current_process_idx] \notin {TERMINATED, ZOMBIE}
        /\ state' = [state EXCEPT ![current_process_idx] = RUNNING]
        /\ esp' = InterruptedEsp
        /\ kstack' = TickStacks
        /\ cpu' = kstack'[esp'[current_process_idx]]
        /\ mode' = "user" /\ nest' = 0
        /\ UNCHANGED <<pid, ppid, kernel_stack, pml4, current_process_idx,
                       next_pid, rsp0, cr3>>
    BY <1>10 DEF TickResumes
  <2>2. /\ esp' = esp
        /\ \A k \in Slots : kstack'[k] = IF mode = "user" /\ k = current_process_idx
                                         THEN pid[k] ELSE kstack[k]
    BY <2>1, SlotsAreStacks
    DEF InterruptedEsp, TickStacks, EnterKernel, SchedulerInv, CpuInv, SlotInv,
        TypeOK, TableTypeOK, CpuTypeOK
  <2>3. cpu' = pid[current_process_idx]
    BY <2>1, <2>2
    DEF SchedulerInv, CpuInv, SlotInv, TypeOK, TableTypeOK, CpuTypeOK, Modes
  <2>4. CpuInv'
    BY <2>1, <2>3 DEF SchedulerInv, CpuInv, TypeOK, TableTypeOK
  <2>5. SlotInv'
    BY <2>1, <2>2 DEF SchedulerInv, SlotInv, CpuInv, TypeOK, TableTypeOK
  <2>6. PidsUnambiguous'
    BY <2>1 DEF SchedulerInv, PidsUnambiguous, TypeOK, TableTypeOK
  <2> QED BY <2>4, <2>5, <2>6 DEF SchedulerInv
<1>11. CASE TickIdles
  <2>1. /\ NoOtherReady /\ state[current_process_idx] \in {TERMINATED, ZOMBIE}
        /\ mode' = "idle"
        /\ UNCHANGED <<pid, ppid, state, esp, kernel_stack, pml4,
                       current_process_idx, next_pid, rsp0, cr3, kstack, cpu>>
    BY <1>11 DEF TickIdles, processes, creation
  <2>2. mode # "user" /\ state[current_process_idx] = ZOMBIE
    BY <2>1 DEF SchedulerInv, CpuInv, TypeOK, CpuTypeOK, Modes
  <2>3. CpuInv'
    BY <2>1, <2>2 DEF SchedulerInv, CpuInv, NoOtherReady
  <2>4. SlotInv'
    BY <2>1, <2>2 DEF SchedulerInv, SlotInv
  <2>5. PidsUnambiguous'
    BY <2>1 DEF SchedulerInv, PidsUnambiguous
  <2> QED BY <2>3, <2>4, <2>5 DEF SchedulerInv
<1>12. CASE UNCHANGED vars
  BY <1>12 DEF vars, processes, creation, SchedulerInv, CpuInv, SlotInv,
               PidsUnambiguous
<1> QED
  BY <1>1, <1>2, <1>3, <1>4, <1>5, <1>6, <1>7, <1>8, <1>9, <1>10, <1>11, <1>12
  DEF Next, Tick

\* The inductive invariant holds in every reachable state, for any number of
\* slots, pids and exit codes.
THEOREM SchedulerCorrect == Spec => []SchedulerInv
  BY InitTypeOK, NextTypeOK, InitSchedulerInv, NextSchedulerInv, PTL DEF Spec

\* The promises made to programs, all of which follow from the invariant: a
\* program runs with its own registers, address space and kernel stack; the
\* frame of a suspended program is intact; pids are unambiguous; the current
\* slot is not free; the machine idles only when nothing can run.
THEOREM ContextSafety ==
  Spec => [](/\ RunsInOwnContext /\ SuspendedFrameIntact /\ PidsUnambiguous
             /\ CurrentSlotNeverFree /\ IdleOnlyWhenNothingRuns)
<1>1. TypeOK /\ SchedulerInv =>
        /\ RunsInOwnContext /\ SuspendedFrameIntact /\ PidsUnambiguous
        /\ CurrentSlotNeverFree /\ IdleOnlyWhenNothingRuns
  <2> SUFFICES ASSUME TypeOK, SchedulerInv
               PROVE  /\ RunsInOwnContext /\ SuspendedFrameIntact
                      /\ PidsUnambiguous /\ CurrentSlotNeverFree
                      /\ IdleOnlyWhenNothingRuns
    OBVIOUS
  <2> USE DEF SchedulerInv, CpuInv, SlotInv, READY, RUNNING, ZOMBIE, TERMINATED
  <2>1. RunsInOwnContext
    BY DEF RunsInOwnContext
  <2>2. SuspendedFrameIntact
    BY DEF SuspendedFrameIntact
  <2>3. CurrentSlotNeverFree
    BY DEF CurrentSlotNeverFree, TypeOK, CpuTypeOK, Modes
  <2>4. IdleOnlyWhenNothingRuns
    BY DEF IdleOnlyWhenNothingRuns
  <2> QED BY <2>1, <2>2, <2>3, <2>4
<1> QED
  BY <1>1, TypeCorrect, SchedulerCorrect, PTL

\* A suspended program's frame is on its own kernel stack and is its own:
\* no interrupt of another program and no reuse of a slot overwrites it.
COROLLARY FramesSafe == Spec => []SuspendedFrameIntact
  BY ContextSafety, PTL

\* Slots in use have different pids and a creator is older than what it created,
\* so wait4() and get_process_by_pid() find at most one process.
COROLLARY PidsSafe == Spec => []PidsUnambiguous
  BY ContextSafety, PTL

\* create_process() never takes the slot whose stack the CPU is on, not even
\* when its process is a zombie that halts there.
COROLLARY CurrentSlotSafe == Spec => []CurrentSlotNeverFree
  BY ContextSafety, PTL

\* Timer frames pile up in the halt loop of schedule() only when no process can
\* run.
COROLLARY IdleSafe == Spec => []IdleOnlyWhenNothingRuns
  BY ContextSafety, PTL

-----------------------------------------------------------------------------
(* The scan of schedule() goes round the table: what it passes over on the   *)
(* way to the slot it picks, it need not pass over again.                    *)

\* Going round the table from c, a slot i met before j is nearer, and from i on
\* the way that is left to j is shorter than the whole way was from c.
LEMMA DistanceShrinks ==
  ASSUME NEW c \in Slots, NEW i \in Slots, NEW k \in Slots, i # k, i # c,
         k # c => Distance(c, i) <= Distance(c, k)
  PROVE  Distance(i, k) < Distance(c, k)
  BY ConstantsAssumption DEF Distance, Slots

\* Whatever the number of slots, every tick that leaves a process READY brings
\* the scheduler strictly closer to it, so that nothing can starve it.
THEOREM RoundRobin == Spec => EveryTickComesCloser
<1> DEFINE Closer ==
      \A i \in Slots :
        (state[i] = READY /\ Tick /\ state'[i] = READY) =>
          Distance(current_process_idx', i) < Distance(current_process_idx, i)
<1>1. TypeOK => [Closer]_vars
  <2> SUFFICES ASSUME TypeOK, NEW k \in Slots,
                      state[k] = READY, Tick, state'[k] = READY
               PROVE  Distance(current_process_idx', k)
                        < Distance(current_process_idx, k)
    OBVIOUS
  <2> USE DEF READY, RUNNING, ZOMBIE, TERMINATED
  <2>1. CASE TickSwitches
    <3>1. PICK i \in Slots : IsNextReady(i) /\ activate_process(i)
      BY <2>1 DEF TickSwitches
    <3>2. current_process_idx' = i /\ state'[i] = RUNNING
      BY <3>1 DEF activate_process, DemotedStates, TypeOK, TableTypeOK
    <3>3. i # k /\ i # current_process_idx
      BY <3>1, <3>2 DEF IsNextReady
    <3>4. k # current_process_idx =>
            Distance(current_process_idx, i) <= Distance(current_process_idx, k)
      BY <3>1 DEF IsNextReady
    <3> QED
      BY <3>2, <3>3, <3>4, DistanceShrinks DEF TypeOK, TableTypeOK
  <2>2. CASE TickResumes
    BY <2>2 DEF TickResumes, NoOtherReady, TypeOK, TableTypeOK
  <2>3. CASE TickIdles
    BY <2>3 DEF TickIdles, NoOtherReady, TypeOK, TableTypeOK
  <2> QED BY <2>1, <2>2, <2>3 DEF Tick
<1> QED
  BY <1>1, TypeCorrect, PTL DEF EveryTickComesCloser
-----------------------------------------------------------------------------
(***************************************************************************)
(* ProcessTable implements ProcessLifecycle.                               *)
(*                                                                         *)
(* The mapping looks a pid up in the table with CHOOSE; Mapped says what   *)
(* it finds without CHOOSE.  It rests on PidsUnambiguous: with two slots   *)
(* of one pid there would be two answers.  Every step is then compared pid *)
(* by pid.                                                                 *)
(***************************************************************************)

\* What the abstract variables are: a pid not handed out yet is unborn, one in a
\* slot is as the slot says, any other one is gone.
Mapped ==
  /\ \A p \in Pids : p >= next_pid =>
       LifeStatuses[p] = "unborn" /\ Parents[p] = 0 /\ Codes[p] = 0
  /\ \A i \in Slots : state[i] # TERMINATED =>
       /\ pid[i] \in Pids /\ pid[i] < next_pid
       /\ LifeStatuses[pid[i]] = (IF state[i] = ZOMBIE THEN "zombie" ELSE "alive")
       /\ Parents[pid[i]] = ppid[i]
       /\ Codes[pid[i]] = exit_code[i]
  /\ \A p \in Pids : p < next_pid /\ ~HasSlot(p) =>
       LifeStatuses[p] = "gone" /\ Parents[p] = 0 /\ Codes[p] = 0
  /\ LifeStatuses = [p \in Pids |-> LifeStatuses[p]]
  /\ Parents = [p \in Pids |-> Parents[p]]
  /\ Codes = [p \in Pids |-> Codes[p]]

\* The slot that CHOOSE finds for a pid in use is the one that has it.
LEMMA SlotOfPid ==
  ASSUME TypeOK, PidsUnambiguous, NEW i \in Slots, state[i] # TERMINATED
  PROVE  HasSlot(pid[i]) /\ SlotOf(pid[i]) = i
<1>1. InSlot(pid[i], i)
  BY DEF InSlot
<1>2. \A j \in Slots : InSlot(pid[i], j) => j = i
  BY DEF InSlot, PidsUnambiguous
<1> QED BY <1>1, <1>2 DEF HasSlot, SlotOf

\* The mapping without CHOOSE.
LEMMA TableMapped == TypeOK /\ PidsUnambiguous => Mapped
<1> SUFFICES ASSUME TypeOK, PidsUnambiguous PROVE Mapped
  OBVIOUS
<1>1. next_pid \in Int /\ \A i \in Slots : pid[i] \in 0 .. MaxPid
  BY ConstantsAssumption DEF TypeOK, TableTypeOK, PidOrNone
<1>2. ASSUME NEW p \in Pids, p >= next_pid
      PROVE  ~HasSlot(p)
  BY <1>1, <1>2 DEF HasSlot, InSlot, PidsUnambiguous, Pids
<1>3. \A p \in Pids : p >= next_pid =>
        LifeStatuses[p] = "unborn" /\ Parents[p] = 0 /\ Codes[p] = 0
  BY <1>2 DEF LifeStatuses, LifeStatus, Parents, Codes
<1>4. ASSUME NEW i \in Slots, state[i] # TERMINATED
      PROVE  /\ pid[i] \in Pids /\ pid[i] < next_pid
             /\ LifeStatuses[pid[i]] = (IF state[i] = ZOMBIE THEN "zombie" ELSE "alive")
             /\ Parents[pid[i]] = ppid[i]
             /\ Codes[pid[i]] = exit_code[i]
  <2>1. pid[i] \in Pids /\ pid[i] < next_pid
    BY <1>1, <1>4 DEF PidsUnambiguous, Pids
  <2>2. HasSlot(pid[i]) /\ SlotOf(pid[i]) = i
    BY <1>4, SlotOfPid
  <2>3. ~(pid[i] >= next_pid)
    BY <1>1, <2>1 DEF Pids
  <2> QED BY <2>1, <2>2, <2>3 DEF LifeStatuses, LifeStatus, Parents, Codes
<1>5. ASSUME NEW p \in Pids, p < next_pid, ~HasSlot(p)
      PROVE  LifeStatuses[p] = "gone" /\ Parents[p] = 0 /\ Codes[p] = 0
  <2>1. ~(p >= next_pid)
    BY <1>1, <1>5 DEF Pids
  <2> QED BY <1>5, <2>1 DEF LifeStatuses, LifeStatus, Parents, Codes
<1>6. /\ LifeStatuses = [p \in Pids |-> LifeStatuses[p]]
      /\ Parents = [p \in Pids |-> Parents[p]]
      /\ Codes = [p \in Pids |-> Codes[p]]
  BY DEF LifeStatuses, Parents, Codes
<1> QED BY <1>3, <1>4, <1>5, <1>6 DEF Mapped

\* The same after a step.
LEMMA TableMappedNext == TypeOK' /\ PidsUnambiguous' => Mapped'
  BY TableMapped, PTL

\* A step that moves no pid and makes or reaps no zombie changes no life.
LEMMA SameLives ==
  ASSUME TypeOK, Mapped, Mapped', UNCHANGED <<pid, ppid, exit_code, next_pid>>,
         \A i \in Slots : /\ state'[i] = TERMINATED <=> state[i] = TERMINATED
                          /\ state'[i] = ZOMBIE <=> state[i] = ZOMBIE
  PROVE  UNCHANGED <<LifeStatuses, Parents, Codes>>
<1>1. next_pid \in Int /\ Pids \subseteq Int
  BY ConstantsAssumption DEF TypeOK, TableTypeOK, Pids
<1>2. ASSUME NEW p \in Pids
      PROVE  /\ LifeStatuses'[p] = LifeStatuses[p]
             /\ Parents'[p] = Parents[p] /\ Codes'[p] = Codes[p]
  <2>1. CASE p >= next_pid
    BY <2>1 DEF Mapped
  <2>2. CASE HasSlot(p)
    <3> PICK i \in Slots : state[i] # TERMINATED /\ pid[i] = p
      BY <2>2 DEF HasSlot, InSlot
    <3> QED BY DEF Mapped
  <2>3. CASE p < next_pid /\ ~HasSlot(p)
    <3>1. ~HasSlot(p)'
      BY <2>3 DEF HasSlot, InSlot
    <3> QED BY <2>3, <3>1 DEF Mapped
  <2> QED BY <1>1, <2>1, <2>2, <2>3
<1> QED BY <1>2 DEF Mapped

\* The program that makes a system call: it is alive, and the result is its own.
LEMMA CallerAlive ==
  ASSUME TypeOK, SchedulerInv, Mapped, mode = "user"
  PROVE  /\ pid[current_process_idx] \in Pids
         /\ LifeStatuses[pid[current_process_idx]] = "alive"
         /\ EnterKernel[rsp0] = pid[current_process_idx]
         /\ current_process_idx \in Slots /\ rsp0 = current_process_idx
         /\ state[current_process_idx] = RUNNING
<1> USE DEF RUNNING, ZOMBIE, TERMINATED
<1>1. /\ current_process_idx \in Slots /\ rsp0 = current_process_idx
      /\ state[current_process_idx] = RUNNING
      /\ cpu = pid[current_process_idx]
  BY DEF SchedulerInv, CpuInv, TypeOK, TableTypeOK
<1>2. EnterKernel[rsp0] = cpu
  BY <1>1, SlotsAreStacks DEF EnterKernel, TypeOK, CpuTypeOK
<1>3. /\ pid[current_process_idx] \in Pids
      /\ LifeStatuses[pid[current_process_idx]] = "alive"
  BY <1>1 DEF Mapped
<1> QED BY <1>1, <1>2, <1>3

\* The next pid is the next pid: those before it have been handed out.
LEMMA NextPidIsNext ==
  ASSUME TypeOK, Mapped, next_pid <= MaxPid
  PROVE  next_pid \in Pids /\ Lifecycle!IsNextPid(next_pid)
<1>1. next_pid \in Pids /\ next_pid \in Int /\ Pids \subseteq Int
  BY ConstantsAssumption DEF TypeOK, TableTypeOK, Pids
<1>2. LifeStatuses[next_pid] = "unborn"
  BY <1>1 DEF Mapped
<1>3. ASSUME NEW p \in Pids, p < next_pid
      PROVE  LifeStatuses[p] # "unborn"
  <2>1. CASE HasSlot(p)
    <3> PICK i \in Slots : state[i] # TERMINATED /\ pid[i] = p
      BY <2>1 DEF HasSlot, InSlot
    <3> QED BY DEF Mapped
  <2> QED BY <1>3, <2>1 DEF Mapped
<1>4. Lifecycle!Pids = Pids
  BY DEF Lifecycle!Pids, Pids
<1> QED BY <1>1, <1>2, <1>3, <1>4 DEF Lifecycle!IsNextPid

\* A system call that leaves the table alone.
LEMMA QuietCall ==
  ASSUME TypeOK, SchedulerInv, Mapped, Mapped', mode = "user", NEW c, NEW v,
         SyscallReturns(c, v, EnterKernel), UNCHANGED <<processes, next_pid>>
  PROVE  /\ UNCHANGED <<LifeStatuses, Parents, Codes>>
         /\ Lifecycle!Returns(pid[current_process_idx], c, v)
<1>1. UNCHANGED <<pid, ppid, exit_code, state, next_pid>>
  BY DEF processes
<1>2. UNCHANGED <<LifeStatuses, Parents, Codes>>
  BY <1>1, SameLives
<1>3. result' = [caller |-> EnterKernel[rsp0], call |-> c, rax |-> v,
                 status |-> result.status]
  BY DEF SyscallReturns, ReturnsWith
<1> QED BY <1>2, <1>3, CallerAlive DEF Lifecycle!Returns

\* create_process() hands out the pid next_pid and moves no other: those that
\* live go on, and the slot it takes had none.
LEMMA OthersUnmoved ==
  ASSUME TypeOK, Mapped, Mapped', NEW i \in Slots, state[i] = TERMINATED,
         FillSlot(i), next_pid <= MaxPid, state' \in [Slots -> States],
         \A k \in Slots \ {i} : state'[k] = state[k],
         NEW p \in Pids, p # next_pid
  PROVE  /\ LifeStatuses'[p] = LifeStatuses[p]
         /\ Parents'[p] = Parents[p] /\ Codes'[p] = Codes[p]
<1>1. next_pid \in Int /\ Pids \subseteq Int /\ next_pid' = next_pid + 1
  BY ConstantsAssumption DEF TypeOK, TableTypeOK, Pids, FillSlot
<1>2. /\ pid'[i] = next_pid
      /\ \A k \in Slots \ {i} : /\ pid'[k] = pid[k] /\ ppid'[k] = ppid[k]
                                 /\ exit_code'[k] = exit_code[k]
  BY DEF FillSlot, TypeOK, TableTypeOK
<1>3. CASE p >= next_pid
  BY <1>1, <1>3 DEF Mapped
<1>4. CASE HasSlot(p)
  <2> PICK k \in Slots : state[k] # TERMINATED /\ pid[k] = p
    BY <1>4 DEF HasSlot, InSlot
  <2>1. k # i
    OBVIOUS
  <2> QED BY <1>2, <2>1 DEF Mapped
<1>5. CASE p < next_pid /\ ~HasSlot(p)
  <2>1. ~HasSlot(p)'
    BY <1>2, <1>5 DEF HasSlot, InSlot
  <2> QED BY <1>1, <1>5, <2>1 DEF Mapped
<1> QED BY <1>1, <1>3, <1>4, <1>5

-----------------------------------------------------------------------------
(* Step by step.                                                             *)

\* kernel() starts with the first process alive and every other pid unborn.
LEMMA InitLifecycle == Init => Lifecycle!Init
<1> SUFFICES ASSUME Init PROVE Lifecycle!Init
  OBVIOUS
<1>1. TypeOK /\ PidsUnambiguous
  BY InitTypeOK, InitSchedulerInv DEF SchedulerInv
<1>2. Mapped
  BY <1>1, TableMapped
<1>3. 0 \in Slots /\ Pids \subseteq Int /\ Lifecycle!Pids = Pids
  BY ConstantsAssumption DEF Slots, Pids, Lifecycle!Pids
<1>4. state[0] = READY /\ pid[0] = 1 /\ ppid[0] = 0 /\ exit_code[0] = 0 /\ next_pid = 2
  BY <1>3 DEF Init
<1>5. LifeStatuses[1] = "alive" /\ Parents[1] = 0 /\ Codes[1] = 0
  BY <1>2, <1>3, <1>4 DEF Mapped, READY, ZOMBIE, TERMINATED
<1>6. \A p \in Pids : p # 1 => p >= next_pid
  BY <1>4 DEF Pids
<1>7. \A p \in Pids : p # 1 =>
        LifeStatuses[p] = "unborn" /\ Parents[p] = 0 /\ Codes[p] = 0
  BY <1>2, <1>6 DEF Mapped
<1>8. LifeStatuses = [p \in Pids |-> IF p = 1 THEN "alive" ELSE "unborn"]
  BY <1>2, <1>5, <1>7 DEF Mapped
<1>9. Parents = [p \in Pids |-> 0] /\ Codes = [p \in Pids |-> 0]
  BY <1>2, <1>5, <1>7 DEF Mapped
<1> QED BY <1>3, <1>8, <1>9 DEF Lifecycle!Init, Init

\* An execve that fails after create_process() wastes the next pid.
LEMMA LoadFailureWastes ==
  ASSUME TypeOK, SchedulerInv, Mapped, TypeOK', Mapped', ExecveLoadFails
  PROVE  Lifecycle!SpawnWastes(pid[current_process_idx], next_pid) /\ next_pid \in Pids
<1> USE DEF READY, RUNNING, ZOMBIE, TERMINATED
<1>1. PICK i \in Slots, j \in Slots :
        /\ mode = "user" /\ next_pid <= MaxPid
        /\ IsFreeSlot(i)
        /\ FillSlot(i)
        /\ IsProcessByPid(pid', CreatedStates(i), next_pid, j)
        /\ state' = [CreatedStates(i) EXCEPT ![j] = TERMINATED]
        /\ SyscallReturns("execve", -1, CreatedStacks(i))
  BY DEF ExecveLoadFails
<1>2. i # current_process_idx /\ state[i] = TERMINATED
  BY <1>1, FillFreeSlot DEF IsFreeSlot
<1>3. i = j
  <2>1. pid'[j] = next_pid /\ CreatedStates(i)[j] # TERMINATED
    BY <1>1 DEF IsProcessByPid
  <2>2. j # i => state[j] # TERMINATED /\ pid[j] = next_pid
    BY <1>1, <2>1 DEF FillSlot, CreatedStates, TypeOK, TableTypeOK
  <2> QED
    BY <2>2, SlotsAreInts DEF SchedulerInv, PidsUnambiguous, TypeOK, TableTypeOK
<1>4. state' = state
  BY <1>1, <1>2, <1>3 DEF CreatedStates, TypeOK, TableTypeOK
<1>5. next_pid \in Pids /\ Lifecycle!IsNextPid(next_pid)
  BY <1>1, NextPidIsNext
<1>6. \A p \in Pids : p # next_pid =>
        /\ LifeStatuses'[p] = LifeStatuses[p]
        /\ Parents'[p] = Parents[p] /\ Codes'[p] = Codes[p]
  BY <1>1, <1>2, <1>4, OthersUnmoved DEF TypeOK, TableTypeOK
<1>7. /\ LifeStatuses'[next_pid] = "gone"
      /\ Parents'[next_pid] = 0 /\ Codes'[next_pid] = 0
  <2>1. next_pid < next_pid' /\ next_pid \in Int
    BY <1>1, ConstantsAssumption DEF FillSlot, TypeOK, TableTypeOK
  <2>2. \A k \in Slots : state'[k] # TERMINATED =>
          k # i /\ pid'[k] = pid[k] /\ pid[k] # next_pid
    <3>1. \A k \in Slots : pid[k] \in Int
      BY SlotsAreInts DEF TypeOK, TableTypeOK
    <3> QED BY <1>1, <1>2, <1>4, <2>1, <3>1
            DEF FillSlot, TypeOK, TableTypeOK, SchedulerInv, PidsUnambiguous
  <2>3. \A k \in Slots : ~(state'[k] # TERMINATED /\ pid'[k] = next_pid)
    BY <2>2
  <2>4. \A p \in Pids :
          (/\ p < next_pid'
           /\ ~(\E k \in Slots : state'[k] # TERMINATED /\ pid'[k] = p)) =>
          LifeStatuses'[p] = "gone" /\ Parents'[p] = 0 /\ Codes'[p] = 0
    BY DEF Mapped, HasSlot, InSlot
  <2> QED BY <1>5, <2>1, <2>3, <2>4
<1>8. Parents[next_pid] = 0 /\ Codes[next_pid] = 0
  BY <1>5 DEF Mapped, Pids
<1>9. LifeStatuses' = [LifeStatuses EXCEPT ![next_pid] = "gone"]
  BY <1>5, <1>6, <1>7 DEF Mapped
<1>10. Parents' = Parents /\ Codes' = Codes
  BY <1>5, <1>6, <1>7, <1>8 DEF Mapped
<1>11. CreatedStacks(i)[rsp0] = pid[current_process_idx]
  BY <1>1, FillFreeSlot DEF SyscallReturns, ReturnsWith
<1>12. Lifecycle!Returns(pid[current_process_idx], "execve", -1)
  BY <1>1, <1>11 DEF SyscallReturns, ReturnsWith, Lifecycle!Returns
<1> QED
  BY <1>1, <1>5, <1>9, <1>10, <1>12, CallerAlive DEF Lifecycle!SpawnWastes

\* An execve that succeeds makes the next pid alive, a child of the caller.
LEMMA ExecveIsSpawn ==
  ASSUME TypeOK, SchedulerInv, Mapped, TypeOK', Mapped', ExecveSpawns
  PROVE  Lifecycle!Spawn(pid[current_process_idx], next_pid) /\ next_pid \in Pids
<1> USE DEF READY, RUNNING, ZOMBIE, TERMINATED
<1>1. PICK i \in Slots :
        /\ mode = "user" /\ next_pid <= MaxPid
        /\ IsFreeSlot(i)
        /\ FillSlot(i)
        /\ state' = CreatedStates(i)
        /\ SyscallReturns("execve", next_pid, CreatedStacks(i))
  BY DEF ExecveSpawns
<1>2. i # current_process_idx /\ state[i] = TERMINATED
  BY <1>1, FillFreeSlot DEF IsFreeSlot
<1>3. state'[i] = READY /\ \A k \in Slots \ {i} : state'[k] = state[k]
  BY <1>1 DEF CreatedStates, TypeOK, TableTypeOK
<1>4. next_pid \in Pids /\ Lifecycle!IsNextPid(next_pid)
  BY <1>1, NextPidIsNext
<1>5. \A p \in Pids : p # next_pid =>
        /\ LifeStatuses'[p] = LifeStatuses[p]
        /\ Parents'[p] = Parents[p] /\ Codes'[p] = Codes[p]
  BY <1>1, <1>2, <1>3, OthersUnmoved DEF TypeOK, TableTypeOK
<1>6. /\ pid'[i] = next_pid /\ exit_code'[i] = 0
      /\ ppid'[i] = pid[current_process_idx]
  <2>1. ParentPid = pid[current_process_idx]
    BY <1>1 DEF ParentPid, SchedulerInv, CpuInv
  <2> QED BY <1>1, <2>1 DEF FillSlot, TypeOK, TableTypeOK
<1>7. /\ LifeStatuses'[next_pid] = "alive"
      /\ Parents'[next_pid] = pid[current_process_idx] /\ Codes'[next_pid] = 0
  BY <1>3, <1>6 DEF Mapped
<1>8. Codes[next_pid] = 0
  BY <1>4 DEF Mapped, Pids
<1>9. LifeStatuses' = [LifeStatuses EXCEPT ![next_pid] = "alive"]
  BY <1>4, <1>5, <1>7 DEF Mapped
<1>10. Parents' = [Parents EXCEPT ![next_pid] = pid[current_process_idx]]
  BY <1>4, <1>5, <1>7 DEF Mapped
<1>11. Codes' = Codes
  BY <1>4, <1>5, <1>7, <1>8 DEF Mapped
<1>12. CreatedStacks(i)[rsp0] = pid[current_process_idx]
  BY <1>1, FillFreeSlot DEF SyscallReturns, ReturnsWith
<1>13. Lifecycle!Returns(pid[current_process_idx], "execve", next_pid)
  BY <1>1, <1>12 DEF SyscallReturns, ReturnsWith, Lifecycle!Returns
<1> QED
  BY <1>1, <1>4, <1>9, <1>10, <1>11, <1>13, CallerAlive DEF Lifecycle!Spawn

\* exit makes the caller a zombie that keeps its code, and moves nobody else.
LEMMA ExitIsExit ==
  ASSUME TypeOK, SchedulerInv, Mapped, TypeOK', Mapped', NEW c \in ExitCodes,
         exit_current_process(c)
  PROVE  Lifecycle!Exit(pid[current_process_idx], c)
<1> USE DEF READY, RUNNING, ZOMBIE, TERMINATED
<1>1. mode = "user"
  BY DEF exit_current_process
<1>2. PICK i \in Slots : i = current_process_idx /\ state[i] = RUNNING
  BY <1>1, CallerAlive
<1>3. pid[i] \in Pids /\ LifeStatuses[pid[i]] = "alive"
  BY <1>1, <1>2, CallerAlive
<1>4. /\ state'[i] = ZOMBIE /\ exit_code'[i] = c
      /\ \A k \in Slots \ {i} : state'[k] = state[k] /\ exit_code'[k] = exit_code[k]
      /\ UNCHANGED <<pid, ppid, next_pid, result>>
  BY <1>2 DEF exit_current_process, TypeOK, TableTypeOK
<1>5. /\ LifeStatuses'[pid[i]] = "zombie" /\ Codes'[pid[i]] = c
      /\ Parents'[pid[i]] = Parents[pid[i]]
  BY <1>2, <1>4 DEF Mapped
<1>6. next_pid \in Int /\ Pids \subseteq Int
  BY ConstantsAssumption DEF TypeOK, TableTypeOK, Pids
<1>7. ASSUME NEW p \in Pids, p # pid[i]
      PROVE  /\ LifeStatuses'[p] = LifeStatuses[p]
             /\ Parents'[p] = Parents[p] /\ Codes'[p] = Codes[p]
  <2>1. CASE p >= next_pid
    BY <1>4, <2>1 DEF Mapped
  <2>2. CASE HasSlot(p)
    <3> PICK k \in Slots : state[k] # TERMINATED /\ pid[k] = p
      BY <2>2 DEF HasSlot, InSlot
    <3>1. k # i
      BY <1>7
    <3> QED BY <1>4, <3>1 DEF Mapped
  <2>3. CASE p < next_pid /\ ~HasSlot(p)
    <3>1. ~HasSlot(p)'
      BY <1>2, <1>4, <2>3 DEF HasSlot, InSlot
    <3> QED BY <1>4, <2>3, <3>1 DEF Mapped
  <2> QED BY <1>6, <2>1, <2>2, <2>3
<1>8. LifeStatuses' = [LifeStatuses EXCEPT ![pid[i]] = "zombie"]
  BY <1>3, <1>5, <1>7 DEF Mapped
<1>9. Codes' = [Codes EXCEPT ![pid[i]] = c]
  BY <1>3, <1>5, <1>7 DEF Mapped
<1>10. Parents' = Parents
  BY <1>3, <1>5, <1>7 DEF Mapped
<1> QED BY <1>2, <1>3, <1>4, <1>8, <1>9, <1>10 DEF Lifecycle!Exit

\* wait4 collects a zombie child of the caller, whose code it delivers.
LEMMA Wait4IsReap ==
  ASSUME TypeOK, SchedulerInv, Mapped, TypeOK', Mapped', Wait4Reaps
  PROVE  \E q \in Pids : Lifecycle!Reap(pid[current_process_idx], q)
<1> USE DEF READY, RUNNING, ZOMBIE, TERMINATED
<1>1. PICK i \in Slots :
        /\ mode = "user"
        /\ state[i] = ZOMBIE /\ ppid[i] = pid[current_process_idx]
        /\ state' = [state EXCEPT ![i] = TERMINATED]
        /\ pid' = [pid EXCEPT ![i] = 0]
        /\ ppid' = [ppid EXCEPT ![i] = 0]
        /\ exit_code' = [exit_code EXCEPT ![i] = 0]
        /\ ReturnsWith("wait4", pid[i], exit_code[i], EnterKernel)
        /\ UNCHANGED next_pid
  BY DEF Wait4Reaps, IsFirstZombieChild, IsZombieChild
<1>2. /\ pid[i] \in Pids /\ pid[i] < next_pid /\ LifeStatuses[pid[i]] = "zombie"
      /\ Parents[pid[i]] = pid[current_process_idx] /\ Codes[pid[i]] = exit_code[i]
  BY <1>1 DEF Mapped
<1>3. /\ state'[i] = TERMINATED
      /\ \A k \in Slots \ {i} : /\ state'[k] = state[k] /\ pid'[k] = pid[k]
                                 /\ ppid'[k] = ppid[k] /\ exit_code'[k] = exit_code[k]
  BY <1>1 DEF TypeOK, TableTypeOK
<1>4. \A k \in Slots \ {i} : state[k] # TERMINATED => pid[k] # pid[i]
  BY <1>1 DEF SchedulerInv, PidsUnambiguous
<1>5. LifeStatuses'[pid[i]] = "gone" /\ Parents'[pid[i]] = 0 /\ Codes'[pid[i]] = 0
  <2>1. \A k \in Slots : ~(state'[k] # TERMINATED /\ pid'[k] = pid[i])
    BY <1>3, <1>4
  <2>2. \A p \in Pids :
          (/\ p < next_pid'
           /\ ~(\E k \in Slots : state'[k] # TERMINATED /\ pid'[k] = p)) =>
          LifeStatuses'[p] = "gone" /\ Parents'[p] = 0 /\ Codes'[p] = 0
    BY DEF Mapped, HasSlot, InSlot
  <2> QED BY <1>1, <1>2, <2>1, <2>2
<1>6. next_pid \in Int /\ Pids \subseteq Int
  BY ConstantsAssumption DEF TypeOK, TableTypeOK, Pids
<1>7. ASSUME NEW p \in Pids, p # pid[i]
      PROVE  /\ LifeStatuses'[p] = LifeStatuses[p]
             /\ Parents'[p] = Parents[p] /\ Codes'[p] = Codes[p]
  <2>1. CASE p >= next_pid
    BY <1>1, <2>1 DEF Mapped
  <2>2. CASE HasSlot(p)
    <3> PICK k \in Slots : state[k] # TERMINATED /\ pid[k] = p
      BY <2>2 DEF HasSlot, InSlot
    <3>1. k # i
      BY <1>7
    <3> QED BY <1>3, <3>1 DEF Mapped
  <2>3. CASE p < next_pid /\ ~HasSlot(p)
    <3>1. ~HasSlot(p)'
      BY <1>3, <2>3 DEF HasSlot, InSlot
    <3> QED BY <1>1, <2>3, <3>1 DEF Mapped
  <2> QED BY <1>6, <2>1, <2>2, <2>3
<1>8. LifeStatuses' = [LifeStatuses EXCEPT ![pid[i]] = "gone"]
  BY <1>2, <1>5, <1>7 DEF Mapped
<1>9. Parents' = [Parents EXCEPT ![pid[i]] = 0]
  BY <1>2, <1>5, <1>7 DEF Mapped
<1>10. Codes' = [Codes EXCEPT ![pid[i]] = 0]
  BY <1>2, <1>5, <1>7 DEF Mapped
<1>11. result' = [caller |-> pid[current_process_idx], call |-> "wait4",
                  rax |-> pid[i], status |-> Codes[pid[i]]]
  BY <1>1, <1>2, CallerAlive DEF ReturnsWith
<1>12. Lifecycle!Reap(pid[current_process_idx], pid[i])
  BY <1>1, <1>2, <1>8, <1>9, <1>10, <1>11, CallerAlive DEF Lifecycle!Reap
<1> QED BY <1>2, <1>12

\* wait4 that finds nothing: no zombie anywhere is a child of the caller.
LEMMA Wait4IsReapsNone ==
  ASSUME TypeOK, SchedulerInv, Mapped, Mapped', Wait4FindsNone
  PROVE  Lifecycle!ReapsNone(pid[current_process_idx])
<1>1. mode = "user" /\ \A i \in Slots : ~IsZombieChild(i)
  BY DEF Wait4FindsNone
<1>2. /\ UNCHANGED <<LifeStatuses, Parents, Codes>>
      /\ Lifecycle!Returns(pid[current_process_idx], "wait4", -1)
  BY QuietCall DEF Wait4FindsNone
<1>3. ASSUME NEW q \in Pids, LifeStatuses[q] = "zombie"
      PROVE  Parents[q] # pid[current_process_idx]
  <2>1. next_pid \in Int /\ Pids \subseteq Int
    BY ConstantsAssumption DEF TypeOK, TableTypeOK, Pids
  <2>2. HasSlot(q)
    BY <1>3, <2>1 DEF Mapped
  <2>3. PICK i \in Slots : state[i] # TERMINATED /\ pid[i] = q
    BY <2>2 DEF HasSlot, InSlot
  <2>4. state[i] = ZOMBIE /\ Parents[q] = ppid[i]
    BY <1>3, <2>3 DEF Mapped
  <2> QED BY <1>1, <2>4 DEF IsZombieChild
<1>4. Lifecycle!Pids = Pids
  BY DEF Lifecycle!Pids, Pids
<1> QED BY <1>1, <1>2, <1>3, <1>4, CallerAlive DEF Lifecycle!ReapsNone

\* A tick moves processes between READY and RUNNING only.
LEMMA TickChangesNoLife ==
  ASSUME TypeOK, Mapped, Mapped', Tick
  PROVE  UNCHANGED <<LifeStatuses, Parents, Codes, result>>
<1> USE DEF READY, RUNNING, ZOMBIE, TERMINATED
<1>1. UNCHANGED <<pid, ppid, exit_code, next_pid, result>>
  BY DEF Tick, TickSwitches, TickResumes, TickIdles, processes
<1>2. \A i \in Slots : /\ state'[i] = TERMINATED <=> state[i] = TERMINATED
                       /\ state'[i] = ZOMBIE <=> state[i] = ZOMBIE
  <2>1. CASE TickSwitches
    <3>1. PICK i \in Slots : IsNextReady(i) /\ activate_process(i)
      BY <2>1 DEF TickSwitches
    <3> QED BY <3>1 DEF IsNextReady, activate_process, DemotedStates, TypeOK, TableTypeOK
  <2>2. CASE TickResumes
    BY <2>2 DEF TickResumes, TypeOK, TableTypeOK
  <2>3. CASE TickIdles
    BY <2>3 DEF TickIdles, processes
  <2> QED BY <2>1, <2>2, <2>3 DEF Tick
<1> QED BY <1>1, <1>2, SameLives

\* Every system call is a step of the life of a pid, and every tick a stutter.
LEMMA NextLifecycle ==
  TypeOK /\ SchedulerInv /\ TypeOK' /\ SchedulerInv' /\ [Next]_vars
    => [Lifecycle!Next]_(Lifecycle!lifeVars)
<1> SUFFICES ASSUME TypeOK, SchedulerInv, TypeOK', SchedulerInv', [Next]_vars
             PROVE  [Lifecycle!Next]_(Lifecycle!lifeVars)
  OBVIOUS
<1>1. Mapped /\ Mapped'
  BY TableMapped, TableMappedNext DEF SchedulerInv
<1>2. Lifecycle!Pids = Pids
  BY DEF Lifecycle!Pids, Pids
<1>3. mode = "user" => /\ pid[current_process_idx] \in Pids
                       /\ LifeStatuses[pid[current_process_idx]] = "alive"
  BY <1>1, CallerAlive
<1>4. CASE getpid
  <2>1. Lifecycle!Identify(pid[current_process_idx])
    BY <1>1, <1>3, <1>4, QuietCall DEF getpid, Lifecycle!Identify
  <2> QED BY <1>2, <1>3, <1>4, <2>1 DEF getpid, Lifecycle!Next
<1>5. CASE fork
  <2>1. Lifecycle!Refused(pid[current_process_idx])
    BY <1>1, <1>3, <1>5, QuietCall DEF fork, Lifecycle!Refused
  <2> QED BY <1>2, <1>3, <1>5, <2>1 DEF fork, Lifecycle!Next
<1>6. CASE ExecveRefused
  <2>1. Lifecycle!Refused(pid[current_process_idx])
    BY <1>1, <1>3, <1>6, QuietCall DEF ExecveRefused, Lifecycle!Refused
  <2> QED BY <1>2, <1>3, <1>6, <2>1 DEF ExecveRefused, Lifecycle!Next
<1>7. CASE ExecveLoadFails
  <2>1. Lifecycle!SpawnWastes(pid[current_process_idx], next_pid) /\ next_pid \in Pids
    BY <1>1, <1>7, LoadFailureWastes
  <2> QED BY <1>2, <1>3, <1>7, <2>1 DEF ExecveLoadFails, Lifecycle!Next
<1>8. CASE ExecveSpawns
  <2>1. Lifecycle!Spawn(pid[current_process_idx], next_pid) /\ next_pid \in Pids
    BY <1>1, <1>8, ExecveIsSpawn
  <2> QED BY <1>2, <1>3, <1>8, <2>1 DEF ExecveSpawns, Lifecycle!Next
<1>9. ASSUME NEW c \in ExitCodes, exit_current_process(c)
      PROVE  Lifecycle!Next
  <2>1. Lifecycle!Exit(pid[current_process_idx], c)
    BY <1>1, <1>9, ExitIsExit
  <2> QED BY <1>2, <1>3, <1>9, <2>1 DEF exit_current_process, Lifecycle!Next
<1>10. CASE Wait4Reaps
  <2>1. \E q \in Pids : Lifecycle!Reap(pid[current_process_idx], q)
    BY <1>1, <1>10, Wait4IsReap
  <2> QED BY <1>2, <1>3, <1>10, <2>1 DEF Wait4Reaps, Lifecycle!Next
<1>11. CASE Wait4FindsNone
  <2>1. Lifecycle!ReapsNone(pid[current_process_idx])
    BY <1>1, <1>11, Wait4IsReapsNone
  <2> QED BY <1>2, <1>3, <1>11, <2>1 DEF Wait4FindsNone, Lifecycle!Next
<1>12. CASE Tick
  BY <1>1, <1>12, TickChangesNoLife DEF Lifecycle!lifeVars
<1>13. CASE UNCHANGED vars
  <2>1. UNCHANGED <<pid, ppid, exit_code, state, next_pid, result>>
    BY <1>13 DEF vars, processes
  <2> QED BY <1>1, <2>1, SameLives DEF Lifecycle!lifeVars
<1> QED
  BY <1>4, <1>5, <1>6, <1>7, <1>8, <1>9, <1>10, <1>11, <1>12, <1>13 DEF Next

\* The process table implements the life cycle, for any number of slots, pids
\* and exit codes: pids are never reused, wait4 delivers every exit code at most
\* once and only to the creator, it fails only when there is nothing to collect,
\* and what the timer does is invisible.
THEOREM LifecycleImplemented == Spec => ImplementsLifecycle
<1>1. Spec => [][Lifecycle!Next]_(Lifecycle!lifeVars)
  BY TypeCorrect, SchedulerCorrect, NextLifecycle, PTL DEF Spec
<1> QED
  BY <1>1, InitLifecycle, PTL DEF Spec, ImplementsLifecycle, Lifecycle!Spec
=============================================================================
