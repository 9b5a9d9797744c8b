--------------------------- MODULE ProcessManager ---------------------------
(* The background processes of the tool host: tools.ProcessManager. A       *)
(* process is started outside the manager's lock, entered in its map,       *)
(* waited for by a goroutine of its own, and killed, with its process       *)
(* group, by a Process call or by Close. The read-only actions list, poll   *)
(* and logs change nothing and are left out.                                *)
EXTENDS Naturals, FiniteSets

CONSTANTS
    Users,          \* goroutines that call the Process tool
    Closer,         \* the goroutine that closes the manager
    MaxProcs        \* bound: processes ever spawned

Processes == 1 .. MaxProcs

ASSUME ProcessAssumption == Closer \notin Users /\ MaxProcs \in Nat

VARIABLES
    procs,          \* the manager's map: the processes it can still find
    spawned,        \* the manager's sequence number
    hostEnded,      \* the manager's context has been cancelled
    process,        \* process -> its ProcessRecord and operating system state
    user            \* goroutine -> where it is in an operation
procVars == <<procs, spawned, hostEnded, process, user>>

(* shell is the process itself, child what it has started in its group: an  *)
(* "attached" child holds the output pipe open, a "detached" one does not.  *)
(* waiter is the goroutine of spawnProcess; cmd is whether p.cmd is set;    *)
(* signalled is whether the group has been sent SIGKILL.                    *)
Unstarted ==
    [status |-> "running", shell |-> "none", child |-> "none", cmd |-> TRUE,
     waiter |-> "none", signalled |-> FALSE]

NotInUse == [pc |-> "idle", id |-> 0, left |-> {}]

ProcInit ==
    /\ procs = {} /\ spawned = 0 /\ hostEnded = FALSE
    /\ process = [i \in Processes |-> Unstarted]
    /\ user = [u \in Users \cup {Closer} |-> NotInUse]

At(u, pc) == user[u].pc = pc

-----------------------------------------------------------------------------
(* spawnProcess: number, start, register, wait *)

SpawnNumber(u) ==
    /\ At(u, "idle") /\ spawned < MaxProcs
    /\ spawned' = spawned + 1
    /\ user' = [user EXCEPT ![u] = [NotInUse EXCEPT !.pc = "start", !.id = spawned + 1]]
    /\ UNCHANGED <<procs, hostEnded, process>>

(* Start refuses a context that is already cancelled, and may fail anyway;  *)
(* the process is then reported and never registered.                       *)
SpawnStart(u) ==
    LET i == user[u].id IN
    /\ At(u, "start")
    /\ \/ /\ process' = [process EXCEPT ![i].status = "error"]
          /\ user' = [user EXCEPT ![u] = NotInUse]
       \/ /\ ~hostEnded
          /\ \E c \in {"none", "attached", "detached"} :
                process' = [process EXCEPT ![i].shell = "live", ![i].child = c]
          /\ user' = [user EXCEPT ![u].pc = "register"]
    /\ UNCHANGED <<procs, spawned, hostEnded>>

SpawnRegister(u) ==
    LET i == user[u].id IN
    /\ At(u, "register")
    /\ procs' = procs \cup {i}
    /\ process' = [process EXCEPT ![i].waiter = "created"]
    /\ user' = [user EXCEPT ![u] = NotInUse]
    /\ UNCHANGED <<spawned, hostEnded>>

(* The goroutine reads p.cmd when it first runs, without the record's lock: *)
(* a kill may have set it to nil, and Wait on nil panics.                   *)
WaitBegin(i) ==
    /\ process[i].waiter = "created"
    /\ process' = [process EXCEPT ![i].waiter = IF process[i].cmd THEN "waiting"
                                                ELSE "panicked"]
    /\ UNCHANGED <<procs, spawned, hostEnded, user>>

(* Wait also waits for the goroutines that copy the output, which go on     *)
(* until every holder of the pipe is gone.                                  *)
WaitReturns(i) ==
    /\ process[i].waiter = "waiting"
    /\ process[i].shell = "dead" /\ process[i].child # "attached"
    /\ process' = [process EXCEPT ![i].waiter = "returned"]
    /\ UNCHANGED <<procs, spawned, hostEnded, user>>

WaitRecords(i) ==
    /\ process[i].waiter = "returned"
    /\ \E s \in {"done", "error"} :
          process' = [process EXCEPT ![i].waiter = "finished", ![i].status = s,
                                     ![i].cmd = FALSE]
    /\ UNCHANGED <<procs, spawned, hostEnded, user>>

-----------------------------------------------------------------------------
(* The operating system *)

ShellExits(i) ==
    /\ process[i].shell = "live"
    /\ process' = [process EXCEPT ![i].shell = "dead"]
    /\ UNCHANGED <<procs, spawned, hostEnded, user>>

ChildExits(i) ==
    /\ process[i].child # "none"
    /\ process' = [process EXCEPT ![i].child = "none"]
    /\ UNCHANGED <<procs, spawned, hostEnded, user>>

(* exec.CommandContext kills the shell, and only the shell, when the        *)
(* context is cancelled.                                                    *)
ContextKills(i) ==
    /\ hostEnded /\ process[i].shell = "live"
    /\ process' = [process EXCEPT ![i].shell = "dead"]
    /\ UNCHANGED <<procs, spawned, hostEnded, user>>

(* taskKillTree: SIGKILL to the group.                                      *)
KillTree(p) ==
    [p EXCEPT !.shell = "dead", !.child = "none", !.signalled = TRUE]

-----------------------------------------------------------------------------
(* killProcess and Close *)

(* A process not in the map is reported as not found.                       *)
KillLookup(u) ==
    /\ At(u, "idle")
    /\ \E i \in procs :
          /\ procs' = procs \ {i}
          /\ user' = [user EXCEPT ![u] = [NotInUse EXCEPT !.pc = "kill", !.id = i]]
    /\ UNCHANGED <<spawned, hostEnded, process>>

KillProcess(u) ==
    LET i == user[u].id IN
    /\ At(u, "kill")
    /\ process' = [process EXCEPT ![i] =
          [IF @.cmd THEN KillTree(@) ELSE @ EXCEPT !.status = "killed", !.cmd = FALSE]]
    /\ user' = [user EXCEPT ![u] = NotInUse]
    /\ UNCHANGED <<procs, spawned, hostEnded>>

CloseCancel ==
    /\ At(Closer, "idle")
    /\ hostEnded' = TRUE
    /\ user' = [user EXCEPT ![Closer].pc = "collect"]
    /\ UNCHANGED <<procs, spawned, process>>

CloseCollect ==
    /\ At(Closer, "collect")
    /\ procs' = {}
    /\ user' = [user EXCEPT ![Closer] = [@ EXCEPT !.pc = "close", !.left = procs]]
    /\ UNCHANGED <<spawned, hostEnded, process>>

CloseKill ==
    /\ At(Closer, "close")
    /\ \E i \in user[Closer].left :
          /\ process' = [process EXCEPT ![i] = IF @.cmd THEN KillTree(@) ELSE @]
          /\ user' = [user EXCEPT ![Closer].left = @ \ {i}]
    /\ UNCHANGED <<procs, spawned, hostEnded>>

(* Close may be called again.                                               *)
CloseReturns ==
    /\ At(Closer, "close") /\ user[Closer].left = {}
    /\ user' = [user EXCEPT ![Closer] = NotInUse]
    /\ UNCHANGED <<procs, spawned, hostEnded, process>>

-----------------------------------------------------------------------------
Spawn(u) == SpawnStart(u) \/ SpawnRegister(u)
Wait(i) == WaitBegin(i) \/ WaitReturns(i) \/ WaitRecords(i)
Close == CloseCollect \/ CloseKill \/ CloseReturns

(* A panic in the goroutine ends the program.                               *)
Running == \A i \in Processes : process[i].waiter # "panicked"

ProcNext ==
    /\ Running
    /\ \/ \E u \in Users : SpawnNumber(u) \/ Spawn(u) \/ KillLookup(u) \/ KillProcess(u)
       \/ \E i \in Processes :
             Wait(i) \/ ShellExits(i) \/ ChildExits(i) \/ ContextKills(i)
       \/ CloseCancel \/ Close

-----------------------------------------------------------------------------
(* A process is never lost: while its goroutine has not seen it end, it is  *)
(* in the map, in the hands of a spawn, kill or Close under way, or its     *)
(* group has been killed. The steps of spawn, kill and Close are made under *)
(* different locks, and a process between two of them is easily forgotten.  *)
ProcessesAccountedFor ==
    \A i \in Processes :
        (process[i].shell # "none" /\ process[i].waiter \notin {"returned", "finished"}) =>
            \/ i \in procs
            \/ \E u \in Users : user[u].id = i /\ user[u].pc \in {"register", "kill"}
            \/ i \in user[Closer].left
            \/ process[i].signalled

(* The goroutine that waits for a process never finds its command gone. Kill *)
(* accepts any process in the map, and one is in the map before its          *)
(* goroutine has started.                                                    *)
WaitHasCommand == Running
=============================================================================
