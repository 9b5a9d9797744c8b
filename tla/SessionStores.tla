--------------------------- MODULE SessionStores ---------------------------
(***************************************************************************)
(* The two session stores, sessions.InMemoryStore and sessions/sqlite      *)
(* Store, driven in lock-step by the same calls on one session.            *)
(*                                                                         *)
(* The memory store keeps both directions of every task dependency, on the *)
(* two tasks it joins, and looks for cycles with a depth-first search.     *)
(* The SQLite store keeps one edge row and looks for cycles with a         *)
(* recursive query.  Both must give the same answers and keep the same     *)
(* graph.  Each operator below takes the store's state and returns         *)
(* [verdict, st]: a failed call returns the state it was given, because    *)
(* the memory store edits a clone and the SQLite store rolls back.         *)
(*                                                                         *)
(* Texts, metadata and times are left out; the statuses other than         *)
(* "deleted" are one value, "open", because no rule tells them apart.      *)
(***************************************************************************)
EXTENDS Naturals, FiniteSets, FiniteSetsExt

CONSTANTS
    MaxTask,      \* bound on the tasks one session may create
    MaxMessages,  \* bound on the messages one session may append
    MaxEnds       \* bound on the edge ends one patch names

ASSUME BoundsAssumption == MaxTask \in Nat /\ MaxMessages \in Nat /\ MaxEnds \in Nat

VARIABLES
    mem,          \* the memory store's view of the session
    sql           \* the SQLite store's rows of the session

vars == <<mem, sql>>

Ids == 1..MaxTask
Statuses == {"absent", "open", "deleted"}

\* A core.TaskPatch.  An identifier outside Ids is one no task has.
Patches ==
    [status : {"keep", "open", "deleted"},
     addBlocks : SUBSET (0..MaxTask), removeBlocks : SUBSET Ids,
     addBlockedBy : SUBSET (0..MaxTask), removeBlockedBy : SUBSET Ids]

\* The status a patch leaves: Delete is applied after Status.
Patched(status, patch) == IF patch.status = "keep" THEN status ELSE patch.status

-----------------------------------------------------------------------------
\* The memory store

MemTask == [status : Statuses, blocks : SUBSET Ids, blockedBy : SUBSET Ids]
NoTask == [status |-> "absent", blocks |-> {}, blockedBy |-> {}]

NewMem == [exists |-> FALSE, messages |-> 0, skills |-> FALSE, counter |-> 0,
           tasks |-> [t \in Ids |-> NoTask]]

Reply(verdict, st) == [verdict |-> verdict, st |-> st]

MemCreate(st) == Reply("ok", [st EXCEPT !.exists = TRUE])

\* Sequence numbers continue from the number of messages already stored.  The
\* session row need not exist: the messages are kept under its id all the same.
MemAppend(st, n) == Reply("ok", [st EXCEPT !.messages = @ + n])

MemSetSkills(st) == Reply("ok", [st EXCEPT !.skills = TRUE])

MemUpdateMeta(st) == Reply(IF st.exists THEN "ok" ELSE "error", st)

MemDelete(st) == Reply("ok", NewMem)

MemCreateTask(st) ==
    LET n == st.counter + 1
    IN  Reply("ok", [st EXCEPT !.counter = n,
                               !.tasks[n] = [NoTask EXCEPT !.status = "open"]])

Task(status, blocks, blockedBy) == [status |-> status, blocks |-> blocks, blockedBy |-> blockedBy]

\* The list entry of task t on a neighbour, when the condition holds.
Entry(t, condition) == IF condition THEN {t} ELSE {}

\* Mutant: detachTask forgets the tasks that were blocked by t.
DetachTaskOneWay(tasks, t) ==
    [x \in Ids |->
        IF x = t THEN Task(tasks[t].status, {}, {})
        ELSE Task(tasks[x].status, tasks[x].blocks \ Entry(t, x \in tasks[t].blockedBy),
                  tasks[x].blockedBy)]

\* detachTask: the task leaves the lists of its neighbours, then empties its own.
DetachTask(tasks, t) ==
    [x \in Ids |->
        IF x = t THEN Task(tasks[t].status, {}, {})
        ELSE Task(tasks[x].status,
                  tasks[x].blocks \ Entry(t, x \in tasks[t].blockedBy),
                  tasks[x].blockedBy \ Entry(t, x \in tasks[t].blocks))]

\* applyTaskEdges, its four loops in order: add, then remove, in each direction.
ApplyTaskEdges(tasks, t, patch) ==
    [x \in Ids |->
        IF x = t
        THEN Task(tasks[t].status,
                  (tasks[t].blocks \cup patch.addBlocks) \ patch.removeBlocks,
                  (tasks[t].blockedBy \cup patch.addBlockedBy) \ patch.removeBlockedBy)
        ELSE Task(tasks[x].status,
                  (tasks[x].blocks \cup Entry(t, x \in patch.addBlockedBy))
                      \ Entry(t, x \in patch.removeBlockedBy),
                  (tasks[x].blockedBy \cup Entry(t, x \in patch.addBlocks))
                      \ Entry(t, x \in patch.removeBlocks))]

\* An added end of an edge must be another task that exists and is not deleted.
MemBadEnd(tasks, t, patch) ==
    \E x \in patch.addBlocks \cup patch.addBlockedBy :
        x \notin Ids \ {t} \/ tasks[x].status # "open"

\* hasTaskCycle's graph: what each task that is not deleted blocks.
Successors(tasks) == [x \in Ids |-> IF tasks[x].status = "open" THEN tasks[x].blocks ELSE {}]

\* Its loops over tasks: visit each of `todo`, below the path `visiting`, until a
\* cycle is met; `visited` are the tasks finished without meeting one.
VisitAll(visit, todo, visiting, visited) ==
    FoldSet(LAMBDA next, acc : IF acc.cycle THEN acc ELSE visit[<<next, visiting, acc.visited>>],
            [cycle |-> FALSE, visited |-> visited], todo)

\* hasTaskCycle: depth-first search from every task that is not deleted.
HasTaskCycle(tasks) ==
    LET graph == Successors(tasks)
        visit[p \in Ids \X (SUBSET Ids) \X (SUBSET Ids)] ==
            LET below == VisitAll(visit, graph[p[1]], p[2] \cup {p[1]}, p[3])
            IN  IF p[1] \in p[2] \cup p[3] THEN [cycle |-> p[1] \in p[2], visited |-> p[3]]
                ELSE IF below.cycle THEN below
                ELSE [below EXCEPT !.visited = @ \cup {p[1]}]
    IN  VisitAll(visit, {x \in Ids : tasks[x].status = "open"}, {}, {}).cycle

MemUpdateTask(st, t, patch) ==
    LET status == Patched(st.tasks[t].status, patch)
        tasks1 == [st.tasks EXCEPT ![t].status = status]
        linked == ApplyTaskEdges(tasks1, t, patch)
    IN  IF st.tasks[t].status = "absent" THEN Reply("not_found", st)
        ELSE IF status = "deleted" THEN Reply("ok", [st EXCEPT !.tasks = DetachTask(tasks1, t)])
        ELSE IF MemBadEnd(tasks1, t, patch) THEN Reply("error", st)
        ELSE IF HasTaskCycle(linked) THEN Reply("error", st)
        ELSE Reply("ok", [st EXCEPT !.tasks = linked])

MemDeleteTask(st, t) ==
    IF st.tasks[t].status = "absent" THEN Reply("not_found", st)
    ELSE Reply("ok", [st EXCEPT !.tasks = [DetachTask(st.tasks, t) EXCEPT ![t] = NoTask]])

-----------------------------------------------------------------------------
\* The SQLite store

NewSql == [exists |-> FALSE, messages |-> {}, skills |-> FALSE, counter |-> 0,
           status |-> [t \in Ids |-> "absent"], edges |-> {}]

SqlCreate(st) == Reply("ok", [st EXCEPT !.exists = TRUE])

\* ensureSessionTx inserts the session row when it is missing; the next
\* sequence number is MAX(seq) + 1.
SqlAppend(st, n) ==
    LET maxSeq == IF st.messages = {} THEN 0 ELSE Max(st.messages)
    IN  Reply("ok", [st EXCEPT !.exists = TRUE,
                               !.messages = @ \cup (maxSeq + 1)..(maxSeq + n)])

SqlSetSkills(st) == Reply("ok", [st EXCEPT !.exists = TRUE, !.skills = TRUE])

SqlUpdateMeta(st) == Reply(IF st.exists THEN "ok" ELSE "error", st)

\* Every table cascades from sessions.
SqlDelete(st) == Reply("ok", IF st.exists THEN NewSql ELSE st)

SqlCreateTask(st) ==
    LET n == st.counter + 1
    IN  Reply("ok", [st EXCEPT !.exists = TRUE, !.counter = n, !.status[n] = "open"])

Blocks(edges, t) == {b \in Ids : <<t, b>> \in edges}

\* Mutant: the removals of both directions come before the additions.
SqlEdgeChangesReordered(edges, t, patch) ==
    ((edges \ ({t} \X patch.removeBlocks)) \ (patch.removeBlockedBy \X {t}))
        \cup {t} \X patch.addBlocks \cup patch.addBlockedBy \X {t}

\* A task as loadTasksTx and loadTaskEdgesTx read it back.
SqlTask(st, t) == Task(st.status[t], Blocks(st.edges, t), {a \in Ids : <<a, t>> \in st.edges})

\* applyTaskEdgesTx: activeTaskExistsTx counts the rows not deleted.
SqlBadEnd(status, t, patch) ==
    \E x \in patch.addBlocks \cup patch.addBlockedBy :
        x \notin Ids \ {t} \/ status[x] # "open"

\* applyTaskEdgeChangesTx: the row inserts and deletes, in their order.
SqlEdgeChanges(edges, t, patch) ==
    LET out == (edges \cup {t} \X patch.addBlocks) \ ({t} \X patch.removeBlocks)
    IN  (out \cup patch.addBlockedBy \X {t}) \ (patch.removeBlockedBy \X {t})

\* Mutant: the recursive query stops after its first hop.
TaskPathExistsOneHop(status, edges, from, to) == from = to \/ to \in Blocks(edges, from)

\* taskPathExistsTx: the least set the recursive query closes.  Its first hop
\* takes every edge, the later ones only edges to tasks not deleted.
TaskPathExists(status, edges, from, to) ==
    \/ from = to
    \/ \A R \in SUBSET Ids :
          (/\ Blocks(edges, from) \subseteq R
           /\ \A x \in R : \A y \in Blocks(edges, x) : status[y] # "deleted" => y \in R)
          => to \in R

SqlUpdateTask(st, t, patch) ==
    LET status == [st.status EXCEPT ![t] = Patched(st.status[t], patch)]
        linked == SqlEdgeChanges(st.edges, t, patch)
    IN  IF st.status[t] = "absent" THEN Reply("not_found", st)
        ELSE IF status[t] = "deleted"
          THEN Reply("ok", [st EXCEPT !.status = status,
                                      !.edges = {e \in st.edges : t \notin {e[1], e[2]}}])
        ELSE IF \/ SqlBadEnd(status, t, patch)
                \/ \E b \in Blocks(linked, t) : TaskPathExists(status, linked, b, t)
          THEN Reply("error", st)
        ELSE Reply("ok", [st EXCEPT !.status = status, !.edges = linked])

SqlDeleteTask(st, t) ==
    IF st.status[t] = "absent" THEN Reply("not_found", st)
    ELSE Reply("ok", [st EXCEPT !.status[t] = "absent",
                                !.edges = {e \in st.edges : t \notin {e[1], e[2]}}])

-----------------------------------------------------------------------------
\* The same call on both stores

Both(m, s) == mem' = m.st /\ sql' = s.st

Init == mem = NewMem /\ sql = NewSql

Create == Both(MemCreate(mem), SqlCreate(sql))

AppendMessages(n) ==
    /\ mem.messages + n <= MaxMessages
    /\ Both(MemAppend(mem, n), SqlAppend(sql, n))

SetInvokedSkills == Both(MemSetSkills(mem), SqlSetSkills(sql))

UpdateMeta == Both(MemUpdateMeta(mem), SqlUpdateMeta(sql))

Delete == Both(MemDelete(mem), SqlDelete(sql))

CreateTask ==
    /\ mem.counter < MaxTask /\ sql.counter < MaxTask
    /\ Both(MemCreateTask(mem), SqlCreateTask(sql))

UpdateTask(t, patch) == Both(MemUpdateTask(mem, t, patch), SqlUpdateTask(sql, t, patch))

DeleteTask(t) == Both(MemDeleteTask(mem, t), SqlDeleteTask(sql, t))

\* The patches offered: all of those that name at most MaxEnds edge ends.
OfferedPatches ==
    {p \in Patches : Cardinality(p.addBlocks) + Cardinality(p.removeBlocks)
                       + Cardinality(p.addBlockedBy) + Cardinality(p.removeBlockedBy)
                     <= MaxEnds}

Next ==
    \/ Create \/ SetInvokedSkills \/ UpdateMeta \/ Delete \/ CreateTask
    \/ \E n \in 1..2 : AppendMessages(n)
    \/ \E t \in Ids : DeleteTask(t) \/ \E patch \in OfferedPatches : UpdateTask(t, patch)

Spec == Init /\ [][Next]_vars

-----------------------------------------------------------------------------
\* Properties

TypeOK ==
    /\ mem \in [exists : BOOLEAN, messages : Nat, skills : BOOLEAN, counter : 0..MaxTask,
                tasks : [Ids -> MemTask]]
    /\ sql \in [exists : BOOLEAN, messages : SUBSET Nat, skills : BOOLEAN, counter : 0..MaxTask,
                status : [Ids -> Statuses], edges : SUBSET (Ids \X Ids)]

SqlOpen == {t \in Ids : sql.status[t] = "open"}

\* The memory store writes every dependency twice (applyTaskEdges, detachTask):
\* after any sequence of edits the two directions mirror each other, and no
\* edge touches a task that is absent or deleted, or joins a task to itself.
Mirrored ==
    \A a, b \in Ids :
        /\ b \in mem.tasks[a].blocks <=> a \in mem.tasks[b].blockedBy
        /\ b \in mem.tasks[a].blocks =>
               a # b /\ mem.tasks[a].status = "open" /\ mem.tasks[b].status = "open"

\* The two stores keep the same session: statuses, dependency edges in both
\* directions, id counter, gap-free message numbers and invoked skills.  Only
\* the session row may differ: the SQLite store inserts it on the first write.
StoresAgree ==
    /\ \A t \in Ids : mem.tasks[t] = SqlTask(sql, t)
    /\ mem.counter = sql.counter
    /\ sql.messages = 1..mem.messages
    /\ mem.skills = sql.skills
    /\ mem.exists => sql.exists

SqlGraph == INSTANCE TaskGraph WITH open <- SqlOpen, edges <- sql.edges

\* The SQLite store implements the task graph a session promises: every call
\* edits the edges of one task, keeps the graph acyclic, or clears it.
SqlKeepsGraph == SqlGraph!GraphSpec
=============================================================================
