-------------------------- MODULE ProcessLifecycle --------------------------
(***************************************************************************)
(* What the process table promises to user programs, without slots,        *)
(* scheduler, stacks or page tables: the life of every pid.                *)
(*                                                                         *)
(* A pid is unborn, then alive, then a zombie that keeps its exit code     *)
(* until its creator collects it with wait4, then gone for ever.  Pids are *)
(* handed out in order and never twice.  A spawn that fails after taking   *)
(* a pid wastes that pid: it is gone without ever having been alive.       *)
(***************************************************************************)
EXTENDS Integers

CONSTANTS MaxPid,      \* the last pid a behaviour may hand out
          ExitCodes    \* the exit codes programs use

Pids == 1 .. MaxPid

VARIABLES status,      \* [Pids -> {"unborn", "alive", "zombie", "gone"}]
          parent,      \* the creator of a pid that is alive or a zombie, else 0
          code,        \* the exit code of a zombie, else 0
          result       \* what the last system call returned to its caller

lifeVars == <<status, parent, code, result>>

\* The pid that the next spawn takes: every smaller one has been taken.
IsNextPid(q) ==
  /\ status[q] = "unborn"
  /\ \A p \in Pids : p < q => status[p] # "unborn"

\* The program p gets v from its system call c; *status stays as it was.
Returns(p, c, v) ==
  result' = [caller |-> p, call |-> c, rax |-> v, status |-> result.status]

Init ==
  /\ status = [p \in Pids |-> IF p = 1 THEN "alive" ELSE "unborn"]
  /\ parent = [p \in Pids |-> 0]
  /\ code = [p \in Pids |-> 0]
  /\ result = [caller |-> 0, call |-> "none", rax |-> 0, status |-> 0]

\* p asks for its own pid.
Identify(p) ==
  /\ status[p] = "alive"
  /\ Returns(p, "getpid", p)
  /\ UNCHANGED <<status, parent, code>>

\* p creates q.
Spawn(p, q) ==
  /\ status[p] = "alive"
  /\ IsNextPid(q)
  /\ status' = [status EXCEPT ![q] = "alive"]
  /\ parent' = [parent EXCEPT ![q] = p]
  /\ Returns(p, "execve", q)
  /\ UNCHANGED code

\* p fails to create a process, having taken the pid q for it ...
SpawnWastes(p, q) ==
  /\ status[p] = "alive"
  /\ IsNextPid(q)
  /\ status' = [status EXCEPT ![q] = "gone"]
  /\ Returns(p, "execve", -1)
  /\ UNCHANGED <<parent, code>>

\* ... or without having taken one.
Refused(p) ==
  /\ status[p] = "alive"
  /\ \E c \in {"execve", "fork"} : Returns(p, c, -1)
  /\ UNCHANGED <<status, parent, code>>

Exit(p, c) ==
  /\ status[p] = "alive"
  /\ status' = [status EXCEPT ![p] = "zombie"]
  /\ code' = [code EXCEPT ![p] = c]
  /\ UNCHANGED <<parent, result>>

\* p collects its zombie child q, and with it q's exit code.
Reap(p, q) ==
  /\ status[p] = "alive"
  /\ status[q] = "zombie" /\ parent[q] = p
  /\ status' = [status EXCEPT ![q] = "gone"]
  /\ parent' = [parent EXCEPT ![q] = 0]
  /\ code' = [code EXCEPT ![q] = 0]
  /\ result' = [caller |-> p, call |-> "wait4", rax |-> q, status |-> code[q]]

\* p is told that it has nothing to collect, and this is so.
ReapsNone(p) ==
  /\ status[p] = "alive"
  /\ \A q \in Pids : ~(status[q] = "zombie" /\ parent[q] = p)
  /\ Returns(p, "wait4", -1)
  /\ UNCHANGED <<status, parent, code>>

Next ==
  \E p \in Pids :
     \/ Identify(p)
     \/ Refused(p)
     \/ ReapsNone(p)
     \/ \E q \in Pids : Spawn(p, q) \/ SpawnWastes(p, q) \/ Reap(p, q)
     \/ \E c \in ExitCodes : Exit(p, c)

Spec == Init /\ [][Next]_lifeVars
=============================================================================
