---------------------------- MODULE RecordsProofs ----------------------------
(***************************************************************************)
(* Proofs about what is stored. SessionStores: for every bound, the SQLite *)
(* store implements the task graph (no cycle, no edge of an absent or      *)
(* deleted task), the memory store keeps the two directions of every       *)
(* dependency equal, and both keep the same session: the depth-first       *)
(* search of one and the recursive query of the other refuse the same      *)
(* edits. ProtectedSessions: for any callers and actors, both inner stores *)
(* and any number of messages, a session is its owner's.                   *)
(* TenantRecords: for any tenants, ids, groups, periods and classes.       *)
(* StorageProtection: for any processes, keys and documents.               *)
(* ObservationIntake: for any events, handlers, rules and bounds.          *)
(***************************************************************************)
EXTENDS SessionStores, ProtectedSessions, StorageProtection, TenantRecords,
        ObservationIntake, Induction

-----------------------------------------------------------------------------
\* The session stores

\* What the proof needs to know of the SQLite rows.
SqlShape ==
    /\ sql = [exists |-> sql.exists, messages |-> sql.messages, skills |-> sql.skills,
              counter |-> sql.counter, status |-> sql.status, edges |-> sql.edges]
    /\ sql.counter \in Nat
    /\ sql.status \in [Ids -> Statuses]
    /\ sql.edges \subseteq SqlOpen \X SqlOpen

SqlInv == SqlShape /\ SqlGraph!Acyclic(sql.edges)

-----------------------------------------------------------------------------
\* Graphs

\* Removing edges closes no cycle.
LEMMA SubgraphAcyclic ==
    ASSUME NEW E, NEW F \in SUBSET E, SqlGraph!Acyclic(E)
    PROVE  SqlGraph!Acyclic(F)
BY DEF SqlGraph!Acyclic

\* Two graphs that differ only in edges at t: when the first has no cycle and
\* the second has a set that holds the successors of t, is closed under its
\* edges and does not hold t, the second has no cycle either.
LEMMA NoCycleThrough ==
    ASSUME NEW t \in Ids, NEW E \in SUBSET (Ids \X Ids), NEW F \in SUBSET (Ids \X Ids),
           SqlGraph!Acyclic(E),
           \A e \in F \ E : t \in {e[1], e[2]},
           NEW R \in SUBSET Ids, t \notin R,
           \A b \in Ids : <<t, b>> \in F => b \in R,
           \A x \in R : \A y \in Ids : <<x, y>> \in F => y \in R
    PROVE  SqlGraph!Acyclic(F)
<1> SUFFICES ASSUME NEW S \in (SUBSET Ids) \ {{}},
                    \A a \in S : \E b \in S : <<a, b>> \in F
             PROVE  FALSE
  BY DEF SqlGraph!Acyclic
<1>1. CASE S \cap R # {}
  <2>1. \A a \in S \cap R : \E b \in S \cap R : <<a, b>> \in E
    <3>1. TAKE a \in S \cap R
    <3>2. PICK b \in S : <<a, b>> \in F
      OBVIOUS
    <3>3. b \in R /\ a # t /\ b # t
      BY <3>2
    <3>4. <<a, b>> \in E
      BY <3>2, <3>3
    <3>5. QED
      BY <3>3, <3>4
  <2>2. S \cap R \in (SUBSET Ids) \ {{}}
    BY <1>1
  <2>3. QED
    BY <2>1, <2>2 DEF SqlGraph!Acyclic
<1>2. CASE S \cap R = {}
  <2>1. t \notin S
    BY <1>2
  <2>2. \A a \in S : \E b \in S : <<a, b>> \in E
    BY <2>1
  <2>3. QED
    BY <2>2 DEF SqlGraph!Acyclic
<1>3. QED
  BY <1>1, <1>2

-----------------------------------------------------------------------------
\* One step of the SQLite store

GraphVars == <<SqlOpen, sql.edges>>

\* Calls that touch neither the tasks nor their edges.
LEMMA SqlOtherCalls ==
    ASSUME SqlInv,
           \/ Create \/ SetInvokedSkills \/ UpdateMeta \/ \E n \in 1..2 : AppendMessages(n)
           \/ UNCHANGED vars
    PROVE  SqlInv' /\ UNCHANGED GraphVars
<1>1. /\ sql'.status = sql.status /\ sql'.edges = sql.edges /\ sql'.counter = sql.counter
      /\ sql' = [exists |-> sql'.exists, messages |-> sql'.messages, skills |-> sql'.skills,
                 counter |-> sql'.counter, status |-> sql'.status, edges |-> sql'.edges]
  <2>1. CASE Create
    BY <2>1 DEF Create, Both, SqlCreate, Reply, SqlInv, SqlShape
  <2>2. CASE SetInvokedSkills
    BY <2>2 DEF SetInvokedSkills, Both, SqlSetSkills, Reply, SqlInv, SqlShape
  <2>3. CASE UpdateMeta
    BY <2>3 DEF UpdateMeta, Both, SqlUpdateMeta, Reply, SqlInv, SqlShape
  <2>4. ASSUME NEW n \in 1..2, AppendMessages(n)
        PROVE  <1>1
    <3> DEFINE top == IF sql.messages = {} THEN 0 ELSE Max(sql.messages)
    <3> HIDE DEF top
    <3>1. sql' = [sql EXCEPT !.exists = TRUE, !.messages = @ \cup (top + 1)..(top + n)]
      BY <2>4 DEF AppendMessages, Both, SqlAppend, Reply, top
    <3>2. QED
      BY <3>1 DEF SqlInv, SqlShape
  <2>5. CASE UNCHANGED vars
    BY <2>5 DEF vars, SqlInv, SqlShape
  <2>6. QED
    BY <2>1, <2>2, <2>3, <2>4, <2>5
<1>2. SqlOpen' = SqlOpen
  BY <1>1 DEF SqlOpen
<1>3. QED
  BY <1>1, <1>2 DEF SqlInv, SqlShape, GraphVars

\* Deleting the session clears the graph; a missing session is left alone.
LEMMA SqlDeleteStep ==
    ASSUME SqlInv, Delete
    PROVE  SqlInv' /\ (SqlGraph!Clear \/ UNCHANGED GraphVars)
<1>1. CASE sql.exists
  <2>1. sql' = NewSql
    BY <1>1 DEF Delete, Both, SqlDelete, Reply
  <2>2. SqlOpen' = {}
    BY <2>1 DEF SqlOpen, NewSql
  <2>3. SqlShape'
    BY <2>1, <2>2 DEF SqlShape, NewSql, Statuses
  <2>4. SqlGraph!Acyclic({})
    BY DEF SqlGraph!Acyclic
  <2>5. QED
    BY <2>1, <2>2, <2>3, <2>4 DEF SqlInv, NewSql, SqlGraph!Clear
<1>2. CASE ~sql.exists
  <2>1. sql' = sql
    BY <1>2 DEF Delete, Both, SqlDelete, Reply
  <2>2. QED
    BY <2>1 DEF SqlInv, SqlShape, SqlOpen, GraphVars
<1>3. QED
  BY <1>1, <1>2

\* A new task opens its own node and adds no edge.
LEMMA SqlCreateTaskStep ==
    ASSUME SqlInv, CreateTask
    PROVE  SqlInv' /\ \E t \in Ids : SqlGraph!Edit(t)
<1> DEFINE n == sql.counter + 1
<1>1. n \in Ids
  BY BoundsAssumption DEF CreateTask, SqlInv, SqlShape, Ids
<1>2. sql' = [sql EXCEPT !.exists = TRUE, !.counter = n, !.status[n] = "open"]
  BY DEF CreateTask, Both, SqlCreateTask, Reply
<1>3. /\ sql'.status = [sql.status EXCEPT ![n] = "open"]
      /\ sql'.edges = sql.edges
      /\ sql'.counter = n
      /\ sql' = [exists |-> sql'.exists, messages |-> sql'.messages, skills |-> sql'.skills,
                 counter |-> sql'.counter, status |-> sql'.status, edges |-> sql'.edges]
  BY <1>2 DEF SqlInv, SqlShape
<1> HIDE DEF n
<1>4. SqlOpen' = SqlOpen \cup {n}
  BY <1>1, <1>3 DEF SqlOpen, SqlInv, SqlShape
<1>5. n \in Nat
  BY <1>1 DEF Ids
<1>6. SqlShape'
  BY <1>1, <1>3, <1>4, <1>5 DEF SqlInv, SqlShape, Statuses
<1>7. SqlGraph!Edit(n)
  BY <1>3, <1>4 DEF SqlGraph!Edit, SqlInv, SqlShape
<1>8. QED
  BY <1>1, <1>3, <1>6, <1>7 DEF SqlInv

\* An operation that closes task t: its edges go with it.
LEMMA SqlCloseStep ==
    ASSUME SqlInv, NEW t \in Ids, NEW s \in {"absent", "deleted"},
           sql' = [sql EXCEPT !.status = [sql.status EXCEPT ![t] = s],
                              !.edges = {e \in sql.edges : t \notin {e[1], e[2]}}]
    PROVE  SqlInv' /\ SqlGraph!Edit(t)
<1>1. /\ sql'.status = [sql.status EXCEPT ![t] = s]
      /\ sql'.edges = {e \in sql.edges : t \notin {e[1], e[2]}}
      /\ sql'.counter = sql.counter
      /\ sql' = [exists |-> sql'.exists, messages |-> sql'.messages, skills |-> sql'.skills,
                 counter |-> sql'.counter, status |-> sql'.status, edges |-> sql'.edges]
  BY DEF SqlInv, SqlShape
<1>2. SqlOpen' = SqlOpen \ {t}
  BY <1>1 DEF SqlOpen, SqlInv, SqlShape
<1>3. sql'.edges \subseteq SqlOpen' \X SqlOpen'
  BY <1>1, <1>2 DEF SqlInv, SqlShape
<1>4. SqlShape'
  BY <1>1, <1>3 DEF SqlInv, SqlShape, Statuses
<1>5. SqlGraph!Acyclic(sql'.edges)
  BY <1>1, SubgraphAcyclic DEF SqlInv
<1>6. SqlGraph!Edit(t)
  BY <1>1, <1>2, <1>3, <1>5 DEF SqlGraph!Edit
<1>7. QED
  BY <1>4, <1>5, <1>6 DEF SqlInv

\* The edges an accepted update leaves join open tasks and close no cycle: what
\* the recursive query cannot reach from the edited task's successors is closed
\* under the new edges and does not hold the edited task.
LEMMA SqlLinkedGraph ==
    ASSUME SqlInv, NEW t \in Ids, NEW patch \in Patches,
           NEW status \in [Ids -> Statuses],
           status = [sql.status EXCEPT ![t] = "open"],
           ~SqlBadEnd(status, t, patch),
           NEW linked, linked = SqlEdgeChanges(sql.edges, t, patch),
           \A b \in Blocks(linked, t) : ~TaskPathExists(status, linked, b, t)
    PROVE  /\ linked \subseteq {x \in Ids : status[x] = "open"} \X {x \in Ids : status[x] = "open"}
           /\ \A e \in (sql.edges \ linked) \cup (linked \ sql.edges) : t \in {e[1], e[2]}
           /\ SqlGraph!Acyclic(linked)
<1> DEFINE O == {x \in Ids : status[x] = "open"}
<1>1. \A x \in patch.addBlocks \cup patch.addBlockedBy : x \in Ids /\ status[x] = "open"
  BY DEF SqlBadEnd
<1>2. sql.edges \subseteq O \X O
  BY DEF SqlInv, SqlShape, SqlOpen
<1>3. t \in O
  BY DEF SqlInv, SqlShape
<1>4. linked \subseteq O \X O
  BY <1>1, <1>2, <1>3 DEF SqlEdgeChanges
<1>5. \A e \in (sql.edges \ linked) \cup (linked \ sql.edges) : t \in {e[1], e[2]}
  BY DEF SqlEdgeChanges
<1>6. SqlGraph!Acyclic(linked)
  <2> DEFINE R == {x \in Ids : ~TaskPathExists(status, linked, x, t)}
  <2>1. t \notin R
    BY DEF TaskPathExists
  <2>2. \A b \in Ids : <<t, b>> \in linked => b \in R
    BY DEF Blocks
  <2>3. \A x \in R : \A y \in Ids : <<x, y>> \in linked => y \in R
    <3> SUFFICES ASSUME NEW x \in R, NEW y \in Ids, <<x, y>> \in linked
                 PROVE  ~TaskPathExists(status, linked, y, t)
      OBVIOUS
    <3>1. PICK Q \in SUBSET Ids :
            /\ Blocks(linked, x) \subseteq Q
            /\ \A v \in Q : \A w \in Blocks(linked, v) : status[w] # "deleted" => w \in Q
            /\ t \notin Q
      BY DEF TaskPathExists
    <3>2. y \in Q
      BY <3>1 DEF Blocks
    <3>3. \A w \in Blocks(linked, y) : status[w] # "deleted"
      BY <1>4 DEF Blocks
    <3>4. Blocks(linked, y) \subseteq Q
      BY <3>1, <3>2, <3>3
    <3>5. QED
      BY <3>1, <3>2, <3>4 DEF TaskPathExists
  <2>4. R \in SUBSET Ids
    OBVIOUS
  <2>5. sql.edges \in SUBSET (Ids \X Ids) /\ linked \in SUBSET (Ids \X Ids)
    BY <1>2, <1>4
  <2> HIDE DEF R
  <2>6. SqlGraph!Acyclic(sql.edges) /\ \A e \in linked \ sql.edges : t \in {e[1], e[2]}
    BY <1>5 DEF SqlInv
  <2>7. QED
    BY <2>1, <2>2, <2>3, <2>4, <2>5, <2>6, NoCycleThrough
<1>7. QED
  BY <1>4, <1>5, <1>6

LEMMA SqlUpdateTaskStep ==
    ASSUME SqlInv, NEW t \in Ids, NEW patch \in Patches, UpdateTask(t, patch)
    PROVE  SqlInv' /\ (SqlGraph!Edit(t) \/ UNCHANGED GraphVars)
<1> DEFINE status == [sql.status EXCEPT ![t] = Patched(sql.status[t], patch)]
           linked == SqlEdgeChanges(sql.edges, t, patch)
           refused == \/ SqlBadEnd(status, t, patch)
                      \/ \E b \in Blocks(linked, t) : TaskPathExists(status, linked, b, t)
<1>1. sql' = SqlUpdateTask(sql, t, patch).st
  BY DEF UpdateTask, Both
<1>2. CASE sql.status[t] = "absent" \/ (status[t] # "deleted" /\ refused)
  <2>1. sql' = sql
    BY <1>1, <1>2 DEF SqlUpdateTask, Reply, SqlInv, SqlShape
  <2>2. QED
    BY <2>1 DEF SqlInv, SqlShape, SqlOpen, GraphVars
<1>3. CASE sql.status[t] # "absent" /\ status[t] = "deleted"
  <2>1. sql' = [sql EXCEPT !.status = status, !.edges = {e \in sql.edges : t \notin {e[1], e[2]}}]
    BY <1>1, <1>3 DEF SqlUpdateTask, Reply
  <2>2. status = [sql.status EXCEPT ![t] = "deleted"]
    BY <1>3 DEF SqlInv, SqlShape
  <2>3. QED
    BY <2>1, <2>2, SqlCloseStep
<1>4. CASE sql.status[t] # "absent" /\ status[t] # "deleted" /\ ~refused
  <2>1. sql' = [sql EXCEPT !.status = status, !.edges = linked]
    BY <1>1, <1>4 DEF SqlUpdateTask, Reply
  <2>2. status = [sql.status EXCEPT ![t] = "open"] /\ status \in [Ids -> Statuses]
    BY <1>4 DEF SqlInv, SqlShape, Patched, Patches, Statuses
  <2> DEFINE O == {x \in Ids : status[x] = "open"}
  <2>3. /\ linked \subseteq O \X O
        /\ \A e \in (sql.edges \ linked) \cup (linked \ sql.edges) : t \in {e[1], e[2]}
        /\ SqlGraph!Acyclic(linked)
    <3> HIDE DEF status, linked
    <3>1. linked = SqlEdgeChanges(sql.edges, t, patch)
      BY DEF linked
    <3>2. QED
      BY <1>4, <2>2, <3>1, SqlLinkedGraph
  <2> HIDE DEF status, linked, refused
  <2>4. /\ sql'.status = status /\ sql'.edges = linked /\ sql'.counter = sql.counter
        /\ sql' = [exists |-> sql'.exists, messages |-> sql'.messages, skills |-> sql'.skills,
                   counter |-> sql'.counter, status |-> sql'.status, edges |-> sql'.edges]
    BY <2>1 DEF SqlInv, SqlShape
  <2>5. SqlOpen' = O /\ O = SqlOpen \cup {t}
    BY <2>2, <2>4 DEF SqlOpen, SqlInv, SqlShape
  <2>6. SqlShape'
    BY <2>2, <2>3, <2>4, <2>5 DEF SqlInv, SqlShape
  <2>7. SqlGraph!Edit(t)
    BY <2>3, <2>4, <2>5 DEF SqlGraph!Edit
  <2>8. QED
    BY <2>3, <2>4, <2>6, <2>7 DEF SqlInv
<1>5. QED
  BY <1>2, <1>3, <1>4

LEMMA SqlStep ==
    ASSUME SqlInv, [Next]_vars
    PROVE  SqlInv' /\ [SqlGraph!GraphNext]_GraphVars
<1>1. CASE \/ Create \/ SetInvokedSkills \/ UpdateMeta \/ \E n \in 1..2 : AppendMessages(n)
           \/ UNCHANGED vars
  BY <1>1, SqlOtherCalls
<1>2. CASE Delete
  BY <1>2, SqlDeleteStep DEF SqlGraph!GraphNext
<1>3. CASE CreateTask
  BY <1>3, SqlCreateTaskStep DEF SqlGraph!GraphNext
<1>4. ASSUME NEW t \in Ids, DeleteTask(t)
      PROVE  SqlInv' /\ [SqlGraph!GraphNext]_GraphVars
  <2>1. CASE sql.status[t] = "absent"
    <3>1. sql' = sql
      BY <1>4, <2>1 DEF DeleteTask, Both, SqlDeleteTask, Reply
    <3>2. QED
      BY <3>1 DEF SqlInv, SqlShape, SqlOpen, GraphVars
  <2>2. CASE sql.status[t] # "absent"
    <3>1. sql' = [sql EXCEPT !.status = [sql.status EXCEPT ![t] = "absent"],
                             !.edges = {e \in sql.edges : t \notin {e[1], e[2]}}]
      BY <1>4, <2>2 DEF DeleteTask, Both, SqlDeleteTask, Reply
    <3>2. QED
      BY <3>1, SqlCloseStep DEF SqlGraph!GraphNext
  <2>3. QED
    BY <2>1, <2>2
<1>5. ASSUME NEW t \in Ids, NEW patch \in OfferedPatches, UpdateTask(t, patch)
      PROVE  SqlInv' /\ [SqlGraph!GraphNext]_GraphVars
  <2>1. patch \in Patches
    BY DEF OfferedPatches
  <2>2. QED
    BY <1>5, <2>1, SqlUpdateTaskStep DEF SqlGraph!GraphNext
<1>6. QED
  BY <1>1, <1>2, <1>3, <1>4, <1>5 DEF Next

\* Whatever the calls, the SQLite store keeps an acyclic graph over the open
\* tasks and each call edits one task or clears the session
\* (sessions/sqlite/store.go UpdateTask, DeleteTask, taskPathExistsTx).
THEOREM SqlImplementsTaskGraph == Spec => SqlKeepsGraph
<1>1. Init => SqlInv /\ SqlGraph!GraphInit
  <2> SUFFICES ASSUME Init
               PROVE  SqlInv /\ SqlGraph!GraphInit
    OBVIOUS
  <2>1. sql = NewSql
    BY DEF Init
  <2>2. SqlOpen = {} /\ sql.edges = {}
    BY <2>1 DEF SqlOpen, NewSql
  <2>3. SqlShape
    BY <2>1, <2>2 DEF SqlShape, NewSql, Statuses
  <2>4. QED
    BY <2>2, <2>3 DEF SqlInv, SqlGraph!GraphInit, SqlGraph!Acyclic
<1>2. SqlInv /\ [Next]_vars => SqlInv' /\ [SqlGraph!GraphNext]_<<SqlOpen, sql.edges>>
  BY SqlStep DEF GraphVars
<1>3. QED
  BY <1>1, <1>2, PTL DEF Spec, SqlKeepsGraph, SqlGraph!GraphSpec

-----------------------------------------------------------------------------
\* The memory store

MemShape ==
    /\ mem = [exists |-> mem.exists, messages |-> mem.messages, skills |-> mem.skills,
              counter |-> mem.counter, tasks |-> mem.tasks]
    /\ mem.counter \in Nat
    /\ mem.tasks \in [Ids -> MemTask]
    /\ \A t \in Ids : t > mem.counter => mem.tasks[t].status = "absent"

MemInv == MemShape /\ Mirrored

\* Mirrored, of a map of tasks.
MirroredTasks(tasks) ==
    \A a, b \in Ids :
        /\ b \in tasks[a].blocks <=> a \in tasks[b].blockedBy
        /\ b \in tasks[a].blocks => a # b /\ tasks[a].status = "open" /\ tasks[b].status = "open"

LEMMA TaskTyped ==
    ASSUME NEW status \in Statuses, NEW blocks \in SUBSET Ids, NEW blockedBy \in SUBSET Ids
    PROVE  Task(status, blocks, blockedBy) \in MemTask
BY DEF Task, MemTask

\* detachTask leaves a task without edges, whatever status it was given.
LEMMA DetachMirrored ==
    ASSUME NEW tasks \in [Ids -> MemTask], NEW base \in [Ids -> MemTask], NEW t \in Ids,
           MirroredTasks(base),
           \A x \in Ids \ {t} : tasks[x] = base[x],
           tasks[t].blocks = base[t].blocks, tasks[t].blockedBy = base[t].blockedBy,
           NEW new, new = DetachTask(tasks, t)
    PROVE  /\ new \in [Ids -> MemTask]
           /\ MirroredTasks(new)
           /\ \A x \in Ids : /\ new[x].status = tasks[x].status
                             /\ t \notin new[x].blocks /\ t \notin new[x].blockedBy
           /\ new[t].blocks = {} /\ new[t].blockedBy = {}
<1>1. /\ new[t].status = tasks[t].status /\ new[t].blocks = {} /\ new[t].blockedBy = {}
      /\ new[t] = Task(tasks[t].status, {}, {})
  BY DEF DetachTask, Task
<1>2. ASSUME NEW x \in Ids \ {t}
      PROVE  /\ new[x].status = base[x].status
             /\ new[x].blocks = base[x].blocks \ Entry(t, x \in base[t].blockedBy)
             /\ new[x].blockedBy = base[x].blockedBy \ Entry(t, x \in base[t].blocks)
             /\ new[x] = Task(base[x].status,
                             base[x].blocks \ Entry(t, x \in base[t].blockedBy),
                             base[x].blockedBy \ Entry(t, x \in base[t].blocks))
  BY DEF DetachTask, Task
<1>3. \A x \in Ids : /\ base[x].status \in Statuses /\ tasks[x].status \in Statuses
                     /\ base[x].blocks \in SUBSET Ids /\ base[x].blockedBy \in SUBSET Ids
  BY DEF MemTask
<1>4. new \in [Ids -> MemTask]
  <2>1. new[t] \in MemTask
    BY <1>1, <1>3 DEF MemTask, Task
  <2>2. ASSUME NEW x \in Ids \ {t}
        PROVE  new[x] \in MemTask
    <3>1. /\ base[x].status \in Statuses
          /\ base[x].blocks \ Entry(t, x \in base[t].blockedBy) \in SUBSET Ids
          /\ base[x].blockedBy \ Entry(t, x \in base[t].blocks) \in SUBSET Ids
      BY <1>3
    <3>2. Task(base[x].status, base[x].blocks \ Entry(t, x \in base[t].blockedBy),
               base[x].blockedBy \ Entry(t, x \in base[t].blocks)) \in MemTask
      BY <3>1, TaskTyped
    <3>3. QED
      BY <1>2, <3>2
  <2>3. QED
    BY <2>1, <2>2 DEF DetachTask
<1>5. ASSUME NEW x \in Ids \ {t}
      PROVE  t \notin new[x].blocks /\ t \notin new[x].blockedBy
  <2>1. (t \in base[x].blocks <=> x \in base[t].blockedBy)
        /\ (t \in base[x].blockedBy <=> x \in base[t].blocks)
    BY DEF MirroredTasks
  <2>2. QED
    BY <1>2, <2>1 DEF Entry
<1>6. \A x, y \in Ids \ {t} : (y \in new[x].blocks <=> y \in base[x].blocks)
                             /\ (y \in new[x].blockedBy <=> y \in base[x].blockedBy)
  BY <1>2 DEF Entry
<1>7. MirroredTasks(new)
  <2> SUFFICES ASSUME NEW a \in Ids, NEW b \in Ids
               PROVE  /\ b \in new[a].blocks <=> a \in new[b].blockedBy
                      /\ b \in new[a].blocks =>
                            new[a].status = "open" /\ new[b].status = "open" /\ a # b
    BY DEF MirroredTasks
  <2>1. CASE a = t \/ b = t
    BY <1>1, <1>5, <2>1
  <2>2. CASE a # t /\ b # t
    <3>1. /\ b \in base[a].blocks <=> a \in base[b].blockedBy
          /\ b \in base[a].blocks => base[a].status = "open" /\ base[b].status = "open" /\ a # b
      BY DEF MirroredTasks
    <3>2. new[a].status = base[a].status /\ new[b].status = base[b].status
      BY <1>2, <2>2
    <3>3. QED
      BY <1>6, <2>2, <3>1, <3>2
  <2>3. QED
    BY <2>1, <2>2
<1>8. QED
  BY <1>1, <1>2, <1>4, <1>5, <1>7

\* applyTaskEdges with valid ends keeps the two directions equal.
LEMMA ApplyMirrored ==
    ASSUME NEW tasks \in [Ids -> MemTask], NEW base \in [Ids -> MemTask], NEW t \in Ids,
           NEW patch \in Patches,
           MirroredTasks(base),
           \A x \in Ids \ {t} : tasks[x] = base[x],
           tasks[t].blocks = base[t].blocks, tasks[t].blockedBy = base[t].blockedBy,
           tasks[t].status = "open",
           ~MemBadEnd(tasks, t, patch),
           NEW new, new = ApplyTaskEdges(tasks, t, patch)
    PROVE  /\ new \in [Ids -> MemTask]
           /\ MirroredTasks(new)
           /\ \A x \in Ids : new[x].status = tasks[x].status
<1>1. LET blocks == (base[t].blocks \cup patch.addBlocks) \ patch.removeBlocks
          blockedBy == (base[t].blockedBy \cup patch.addBlockedBy) \ patch.removeBlockedBy
      IN  /\ new[t].status = "open" /\ new[t].blocks = blocks /\ new[t].blockedBy = blockedBy
          /\ new[t] = Task("open", blocks, blockedBy)
  BY DEF ApplyTaskEdges, Task
<1>2. ASSUME NEW x \in Ids \ {t}
      PROVE  LET blocks == (base[x].blocks \cup Entry(t, x \in patch.addBlockedBy))
                           \ Entry(t, x \in patch.removeBlockedBy)
                 blockedBy == (base[x].blockedBy \cup Entry(t, x \in patch.addBlocks))
                              \ Entry(t, x \in patch.removeBlocks)
             IN  /\ new[x].status = base[x].status /\ new[x].blocks = blocks
                 /\ new[x].blockedBy = blockedBy
                 /\ new[x] = Task(base[x].status, blocks, blockedBy)
  BY DEF ApplyTaskEdges, Task
<1>3. /\ patch.addBlocks \subseteq Ids \ {t} /\ patch.addBlockedBy \subseteq Ids \ {t}
      /\ \A x \in patch.addBlocks \cup patch.addBlockedBy : tasks[x].status = "open"
      /\ patch.removeBlocks \subseteq Ids /\ patch.removeBlockedBy \subseteq Ids
  BY DEF MemBadEnd, Patches
<1>4. \A x \in Ids : /\ base[x].status \in Statuses /\ tasks[x].status \in Statuses
                     /\ base[x].blocks \in SUBSET Ids /\ base[x].blockedBy \in SUBSET Ids
  BY DEF MemTask
<1>5. new \in [Ids -> MemTask]
  <2>1. new[t] \in MemTask
    BY <1>1, <1>3, <1>4 DEF MemTask, Task, Statuses
  <2>2. ASSUME NEW x \in Ids \ {t}
        PROVE  new[x] \in MemTask
    <3> DEFINE blocks == (base[x].blocks \cup Entry(t, x \in patch.addBlockedBy))
                         \ Entry(t, x \in patch.removeBlockedBy)
               blockedBy == (base[x].blockedBy \cup Entry(t, x \in patch.addBlocks))
                            \ Entry(t, x \in patch.removeBlocks)
    <3>1. base[x].status \in Statuses /\ blocks \in SUBSET Ids /\ blockedBy \in SUBSET Ids
      BY <1>4 DEF Entry
    <3>2. new[x] = Task(base[x].status, blocks, blockedBy)
      BY <1>2
    <3> HIDE DEF blocks, blockedBy
    <3>3. QED
      BY <3>1, <3>2, TaskTyped
  <2>3. QED
    BY <2>1, <2>2 DEF ApplyTaskEdges
<1>6. \A x \in Ids : new[x].status = tasks[x].status
  BY <1>1, <1>2
<1>7. ASSUME NEW x \in Ids \ {t}, NEW y \in Ids \ {t}
      PROVE  /\ y \in new[x].blocks <=> y \in base[x].blocks
             /\ y \in new[x].blockedBy <=> y \in base[x].blockedBy
  BY <1>2 DEF Entry
<1>8. ASSUME NEW x \in Ids \ {t}
      PROVE  /\ t \in new[x].blocks
                  <=> (t \in base[x].blocks \/ x \in patch.addBlockedBy) /\ x \notin patch.removeBlockedBy
             /\ t \in new[x].blockedBy
                  <=> (t \in base[x].blockedBy \/ x \in patch.addBlocks) /\ x \notin patch.removeBlocks
  BY <1>2 DEF Entry
<1>9. \A a, b \in Ids : /\ b \in base[a].blocks <=> a \in base[b].blockedBy
                        /\ b \in base[a].blocks =>
                              base[a].status = "open" /\ base[b].status = "open" /\ a # b
  BY DEF MirroredTasks
<1>10. MirroredTasks(new)
  <2> SUFFICES ASSUME NEW a \in Ids, NEW b \in Ids
               PROVE  /\ b \in new[a].blocks <=> a \in new[b].blockedBy
                      /\ b \in new[a].blocks =>
                            new[a].status = "open" /\ new[b].status = "open" /\ a # b
    BY DEF MirroredTasks
  <2>1. CASE a = t /\ b = t
    BY <1>1, <1>3, <1>9, <2>1
  <2>2. CASE a = t /\ b # t
    <3>1. b \in new[t].blocks <=> t \in new[b].blockedBy
      BY <1>1, <1>8, <1>9, <2>2
    <3>2. b \in new[t].blocks => tasks[b].status = "open"
      BY <1>1, <1>3, <1>9, <2>2
    <3>3. QED
      BY <1>1, <1>6, <2>2, <3>1, <3>2
  <2>3. CASE a # t /\ b = t
    <3>1. t \in new[a].blocks <=> a \in new[t].blockedBy
      BY <1>1, <1>8, <1>9, <2>3
    <3>2. t \in new[a].blocks => tasks[a].status = "open"
      BY <1>3, <1>8, <1>9, <2>3
    <3>3. QED
      BY <1>1, <1>6, <2>3, <3>1, <3>2
  <2>4. CASE a # t /\ b # t
    BY <1>6, <1>7, <1>9, <2>4
  <2>5. QED
    BY <2>1, <2>2, <2>3, <2>4
<1>11. QED
  BY <1>5, <1>6, <1>10

LEMMA MemStep ==
    ASSUME MemInv, [Next]_vars
    PROVE  MemInv'
<1> DEFINE Same == /\ mem'.tasks = mem.tasks /\ mem'.counter = mem.counter
                   /\ mem' = [exists |-> mem'.exists, messages |-> mem'.messages,
                              skills |-> mem'.skills, counter |-> mem'.counter,
                              tasks |-> mem'.tasks]
<1>0. Same => MemInv'
  BY DEF MemInv, MemShape, Mirrored
<1>1. CASE Create
  BY <1>0, <1>1 DEF Create, Both, MemCreate, Reply, MemInv, MemShape
<1>2. CASE SetInvokedSkills
  BY <1>0, <1>2 DEF SetInvokedSkills, Both, MemSetSkills, Reply, MemInv, MemShape
<1>3. CASE UpdateMeta
  BY <1>0, <1>3 DEF UpdateMeta, Both, MemUpdateMeta, Reply, MemInv, MemShape
<1>4. ASSUME NEW n \in 1..2, AppendMessages(n)
      PROVE  MemInv'
  BY <1>0, <1>4 DEF AppendMessages, Both, MemAppend, Reply, MemInv, MemShape
<1>5. CASE Delete
  <2>1. mem' = NewMem
    BY <1>5 DEF Delete, Both, MemDelete, Reply
  <2>2. QED
    BY <2>1 DEF MemInv, MemShape, Mirrored, NewMem, NoTask, MemTask, Statuses
<1>6. CASE CreateTask
  <2> DEFINE n == mem.counter + 1
  <2>1. n \in Ids /\ n \in Nat /\ mem.tasks[n].status = "absent"
    BY <1>6, BoundsAssumption DEF CreateTask, MemInv, MemShape, Ids
  <2>2. mem' = [mem EXCEPT !.counter = n, !.tasks[n] = [NoTask EXCEPT !.status = "open"]]
    BY <1>6 DEF CreateTask, Both, MemCreateTask, Reply
  <2>3. [NoTask EXCEPT !.status = "open"] = Task("open", {}, {})
    BY DEF NoTask, Task
  <2>4. /\ mem'.tasks = [mem.tasks EXCEPT ![n] = Task("open", {}, {})]
        /\ mem'.counter = n
        /\ mem' = [exists |-> mem'.exists, messages |-> mem'.messages, skills |-> mem'.skills,
                   counter |-> mem'.counter, tasks |-> mem'.tasks]
    BY <2>2, <2>3 DEF MemInv, MemShape
  <2>5. Task("open", {}, {}) \in MemTask
    BY DEF Task, MemTask, Statuses
  <2>6. /\ mem'.tasks[n].status = "open" /\ mem'.tasks[n].blocks = {}
        /\ mem'.tasks[n].blockedBy = {}
        /\ \A x \in Ids \ {n} : mem'.tasks[x] = mem.tasks[x]
    BY <2>1, <2>4 DEF Task, MemInv, MemShape
  <2>7. MemShape'
    <3>1. \A x \in Ids : x > n => mem'.tasks[x].status = "absent"
      BY <2>1, <2>6 DEF MemInv, MemShape, Ids
    <3> HIDE DEF n
    <3>2. QED
      BY <2>1, <2>4, <2>5, <3>1 DEF MemInv, MemShape
  <2> HIDE DEF n
  <2>8. \A x \in Ids : n \notin mem.tasks[x].blocks /\ n \notin mem.tasks[x].blockedBy
    BY <2>1 DEF MemInv, Mirrored
  <2>9. Mirrored'
    <3> SUFFICES ASSUME NEW a \in Ids, NEW b \in Ids
                 PROVE  /\ b \in mem'.tasks[a].blocks <=> a \in mem'.tasks[b].blockedBy
                        /\ b \in mem'.tasks[a].blocks => /\ a # b
                                                         /\ mem'.tasks[a].status = "open"
                                                         /\ mem'.tasks[b].status = "open"
      BY DEF Mirrored
    <3>1. CASE a = n \/ b = n
      BY <2>6, <2>8, <3>1
    <3>2. CASE a # n /\ b # n
      BY <2>6, <3>2 DEF MemInv, Mirrored
    <3>3. QED
      BY <3>1, <3>2
  <2>10. QED
    BY <2>7, <2>9 DEF MemInv
<1>7. ASSUME NEW t \in Ids, NEW patch \in OfferedPatches, UpdateTask(t, patch)
      PROVE  MemInv'
  <2> DEFINE status == Patched(mem.tasks[t].status, patch)
             tasks == [mem.tasks EXCEPT ![t].status = status]
             linked == ApplyTaskEdges(tasks, t, patch)
             detached == DetachTask(tasks, t)
             refused == MemBadEnd(tasks, t, patch) \/ HasTaskCycle(linked)
  <2>0. patch \in Patches /\ mem.tasks \in [Ids -> MemTask] /\ MirroredTasks(mem.tasks)
    BY DEF OfferedPatches, MemInv, MemShape, Mirrored, MirroredTasks
  <2>1. mem' = MemUpdateTask(mem, t, patch).st
    BY <1>7 DEF UpdateTask, Both
  <2>2. /\ tasks \in [Ids -> MemTask]
        /\ \A x \in Ids \ {t} : tasks[x] = mem.tasks[x]
        /\ tasks[t].blocks = mem.tasks[t].blocks /\ tasks[t].blockedBy = mem.tasks[t].blockedBy
        /\ tasks[t].status = status
    <3>1. status \in Statuses
      BY <2>0 DEF Patched, Patches, MemTask, Statuses
    <3>2. mem.tasks[t] \in MemTask
      BY <2>0
    <3> HIDE DEF status
    <3>3. tasks[t] \in MemTask
      BY <2>0, <3>1, <3>2 DEF MemTask
    <3>4. QED
      BY <2>0, <3>2, <3>3 DEF MemTask
  <2>3. CASE mem.tasks[t].status = "absent" \/ (status # "deleted" /\ refused)
    <3>1. mem' = mem
      BY <2>1, <2>3 DEF MemUpdateTask, Reply
    <3>2. QED
      BY <3>1 DEF MemInv, MemShape, Mirrored
  <2>4. ASSUME NEW new \in [Ids -> MemTask], MirroredTasks(new),
               \A x \in Ids : new[x].status = tasks[x].status,
               mem.tasks[t].status # "absent",
               mem' = [mem EXCEPT !.tasks = new]
        PROVE  MemInv'
    <3>1. /\ mem'.tasks = new /\ mem'.counter = mem.counter
          /\ mem' = [exists |-> mem'.exists, messages |-> mem'.messages, skills |-> mem'.skills,
                     counter |-> mem'.counter, tasks |-> mem'.tasks]
      BY <2>4 DEF MemInv, MemShape
    <3>2. \A x \in Ids : x > mem.counter => new[x].status = "absent"
      BY <2>2, <2>4 DEF MemInv, MemShape
    <3>3. MemShape'
      BY <2>4, <3>1, <3>2 DEF MemInv, MemShape
    <3>4. QED
      BY <2>4, <3>1, <3>3 DEF MemInv, Mirrored, MirroredTasks
  <2>5. CASE mem.tasks[t].status # "absent" /\ status = "deleted"
    <3>1. mem' = [mem EXCEPT !.tasks = detached]
      BY <2>1, <2>5 DEF MemUpdateTask, Reply
    <3> HIDE DEF tasks
    <3>2. /\ detached \in [Ids -> MemTask] /\ MirroredTasks(detached)
          /\ \A x \in Ids : detached[x].status = tasks[x].status
      <4> HIDE DEF status
      <4> DEFINE base == mem.tasks
      <4>1. detached = DetachTask(tasks, t)
        OBVIOUS
      <4>2. /\ tasks \in [Ids -> MemTask] /\ base \in [Ids -> MemTask]
            /\ MirroredTasks(base)
            /\ \A x \in Ids \ {t} : tasks[x] = base[x]
            /\ tasks[t].blocks = base[t].blocks
            /\ tasks[t].blockedBy = base[t].blockedBy
        BY <2>0, <2>2
      <4> HIDE DEF detached, base
      <4>3. detached \in [Ids -> MemTask] /\ MirroredTasks(detached)
        BY <4>1, <4>2, DetachMirrored
      <4>4. \A x \in Ids : detached[x].status = tasks[x].status
        BY <4>1 DEF DetachTask, Task
      <4>5. QED
        BY <4>3, <4>4
    <3> HIDE DEF detached
    <3>3. QED
      BY <2>4, <2>5, <3>1, <3>2
  <2>6. CASE mem.tasks[t].status # "absent" /\ status # "deleted" /\ ~refused
    <3>1. mem' = [mem EXCEPT !.tasks = linked]
      BY <2>1, <2>6 DEF MemUpdateTask, Reply
    <3>2. tasks[t].status = "open"
      BY <2>0, <2>2, <2>6 DEF Patched, Patches, MemTask, Statuses
    <3> HIDE DEF tasks
    <3>3. /\ linked \in [Ids -> MemTask] /\ MirroredTasks(linked)
          /\ \A x \in Ids : linked[x].status = tasks[x].status
      BY <2>0, <2>2, <2>6, <3>2, ApplyMirrored
    <3> HIDE DEF linked, refused
    <3>4. QED
      BY <2>4, <2>6, <3>1, <3>3
  <2>7. QED
    BY <2>3, <2>5, <2>6
<1>8. ASSUME NEW t \in Ids, DeleteTask(t)
      PROVE  MemInv'
  <2>1. CASE mem.tasks[t].status = "absent"
    <3>1. mem' = mem
      BY <1>8, <2>1 DEF DeleteTask, Both, MemDeleteTask, Reply
    <3>2. QED
      BY <3>1 DEF MemInv, MemShape, Mirrored
  <2>2. CASE mem.tasks[t].status # "absent"
    <3> DEFINE detached == DetachTask(mem.tasks, t)
               new == [detached EXCEPT ![t] = NoTask]
    <3>1. mem' = [mem EXCEPT !.tasks = new]
      BY <1>8, <2>2 DEF DeleteTask, Both, MemDeleteTask, Reply
    <3>2. mem.tasks \in [Ids -> MemTask] /\ MirroredTasks(mem.tasks)
      BY DEF MemInv, MemShape, Mirrored, MirroredTasks
    <3>3. /\ detached \in [Ids -> MemTask] /\ MirroredTasks(detached)
          /\ \A x \in Ids : /\ detached[x].status = mem.tasks[x].status
                            /\ t \notin detached[x].blocks /\ t \notin detached[x].blockedBy
      BY <3>2, DetachMirrored
    <3> HIDE DEF detached
    <3>4. NoTask \in MemTask
      BY DEF NoTask, MemTask, Statuses
    <3>5. /\ new \in [Ids -> MemTask]
          /\ \A x \in Ids \ {t} : new[x] = detached[x]
          /\ new[t].status = "absent" /\ new[t].blocks = {} /\ new[t].blockedBy = {}
      BY <3>3, <3>4 DEF NoTask
    <3> HIDE DEF new
    <3>6. MirroredTasks(new)
      <4> SUFFICES ASSUME NEW a \in Ids, NEW b \in Ids
                   PROVE  /\ b \in new[a].blocks <=> a \in new[b].blockedBy
                          /\ b \in new[a].blocks =>
                                a # b /\ new[a].status = "open" /\ new[b].status = "open"
        BY DEF MirroredTasks
      <4>1. CASE a = t \/ b = t
        BY <3>3, <3>5, <4>1
      <4>2. CASE a # t /\ b # t
        BY <3>3, <3>5, <4>2 DEF MirroredTasks
      <4>3. QED
        BY <4>1, <4>2
    <3>7. /\ mem'.tasks = new /\ mem'.counter = mem.counter
          /\ mem' = [exists |-> mem'.exists, messages |-> mem'.messages, skills |-> mem'.skills,
                     counter |-> mem'.counter, tasks |-> mem'.tasks]
      BY <3>1 DEF MemInv, MemShape
    <3>8. \A x \in Ids : x > mem.counter => new[x].status = "absent"
      BY <3>3, <3>5 DEF MemInv, MemShape
    <3>9. MemShape'
      BY <3>5, <3>7, <3>8 DEF MemInv, MemShape
    <3>10. QED
      BY <3>6, <3>7, <3>9 DEF MemInv, Mirrored, MirroredTasks
  <2>3. QED
    BY <2>1, <2>2
<1>9. CASE UNCHANGED vars
  BY <1>0, <1>9 DEF vars, MemInv, MemShape
<1>10. QED
  BY <1>1, <1>2, <1>3, <1>4, <1>5, <1>6, <1>7, <1>8, <1>9 DEF Next

\* Every sequence of calls leaves the two directions of every dependency of the
\* memory store equal, and no edge at a task that is absent, deleted or itself
\* (sessions/memory.go UpdateTask, DeleteTask, detachTask, applyTaskEdges).
THEOREM MemoryStaysMirrored == Spec => []Mirrored
<1>1. Init => MemInv
  BY DEF Init, NewMem, NoTask, MemInv, MemShape, Mirrored, MemTask, Statuses
<1>2. MemInv /\ [Next]_vars => MemInv'
  BY MemStep
<1>3. MemInv => Mirrored
  BY DEF MemInv
<1>4. QED
  BY <1>1, <1>2, <1>3, PTL DEF Spec

-----------------------------------------------------------------------------
\* The depth-first search

Visits == Ids \X (SUBSET Ids) \X (SUBSET Ids)
Found == [cycle : BOOLEAN, visited : SUBSET Ids]

\* What `visit` does with one task, given itself for the tasks below.
Visited(graph, visit, p) ==
    LET below == VisitAll(visit, graph[p[1]], p[2] \cup {p[1]}, p[3])
    IN  IF p[1] \in p[2] \cup p[3] THEN [cycle |-> p[1] \in p[2], visited |-> p[3]]
        ELSE IF below.cycle THEN below
        ELSE [below EXCEPT !.visited = @ \cup {p[1]}]

\* The loop of hasTaskCycle, by the set of tasks it has dealt with.
Loop(g, visit, todo, visiting, visited) ==
    \A s \in SUBSET todo :
        g[s] = IF s = {} THEN [cycle |-> FALSE, visited |-> visited]
               ELSE IF g[s \ {Some(s)}].cycle THEN g[s \ {Some(s)}]
               ELSE visit[<<Some(s), visiting, g[s \ {Some(s)}].visited>>]

LEMMA IdsFinite == IsFiniteSet(Ids) /\ Cardinality(Ids) \in Nat
<1>1. IsFiniteSet(1..MaxTask)
  BY BoundsAssumption, FS_Interval
<1>2. QED
  BY <1>1, FS_CardinalityType DEF Ids

\* Two searches agree on what the loop may ask of them.
Agree(other, visit, todo, visiting) ==
    \A x \in todo : \A W \in SUBSET Ids : other[<<x, visiting, W>>] = visit[<<x, visiting, W>>]

\* The loop of these two and of every search that agrees with it.
LoopOf(g, visit, todo, visiting, visited) ==
    /\ Loop(g, visit, todo, visiting, visited)
    /\ \A other : Agree(other, visit, todo, visiting)
                    => g[todo] = VisitAll(other, todo, visiting, visited)

LEMMA LoopExists ==
    ASSUME NEW visit \in [Visits -> Found], NEW todo \in SUBSET Ids,
           NEW visiting \in SUBSET Ids, NEW visited \in SUBSET Ids
    PROVE  \E g \in [SUBSET todo -> Found] : LoopOf(g, visit, todo, visiting, visited)
<1> DEFINE base == [cycle |-> FALSE, visited |-> visited]
           F == [x \in todo |-> [acc \in Found |->
                   IF acc.cycle THEN acc ELSE visit[<<x, visiting, acc.visited>>]]]
<1>1. IsFiniteSet(todo)
  BY IdsFinite, FS_Subset
<1>2. base \in Found /\ F \in [todo -> [Found -> Found]]
  <2>1. \A x \in todo : \A acc \in Found : <<x, visiting, acc.visited>> \in Visits
    BY DEF Visits, Found
  <2>2. QED
    BY <2>1 DEF Found
<1>3. PICK g \in [SUBSET todo -> Found] : IsSetFold(g, todo, base, F)
  <2> HIDE DEF base, F
  <2>1. \E g \in [SUBSET todo -> Found] : IsSetFold(g, todo, base, F)
    BY ONLY <1>1, <1>2, SetFoldExists
  <2>2. QED
    BY <2>1
<1>4. \A s \in SUBSET todo : s # {} => Some(s) \in todo /\ s \ {Some(s)} \in SUBSET todo
  BY <1>1, SubsetMeasure
<1>5. \A s \in SUBSET todo :
          g[s] = IF s = {} THEN base
                 ELSE IF g[s \ {Some(s)}].cycle THEN g[s \ {Some(s)}]
                 ELSE visit[<<Some(s), visiting, g[s \ {Some(s)}].visited>>]
  BY <1>3, <1>4 DEF IsSetFold
<1>6. ASSUME NEW other, Agree(other, visit, todo, visiting)
      PROVE  g[todo] = VisitAll(other, todo, visiting, visited)
  <2> DEFINE iter == CHOOSE h : h = [s \in SUBSET todo |->
                       IF s = {} THEN base
                       ELSE IF h[s \ {Some(s)}].cycle THEN h[s \ {Some(s)}]
                       ELSE other[<<Some(s), visiting, h[s \ {Some(s)}].visited>>]]
             T == {s \in SUBSET todo : iter[s] = g[s]}
  <2>1. \A s \in SUBSET todo : s # {} =>
            other[<<Some(s), visiting, g[s \ {Some(s)}].visited>>]
              = visit[<<Some(s), visiting, g[s \ {Some(s)}].visited>>]
    <3>1. \A s \in SUBSET todo : s # {} => g[s \ {Some(s)}].visited \in SUBSET Ids
      BY <1>4 DEF Found
    <3>2. QED
      BY <1>4, <1>6, <3>1 DEF Agree
  <2>2. g = [s \in SUBSET todo |->
               IF s = {} THEN base
               ELSE IF g[s \ {Some(s)}].cycle THEN g[s \ {Some(s)}]
               ELSE other[<<Some(s), visiting, g[s \ {Some(s)}].visited>>]]
    <3> HIDE DEF base, F
    <3>1. QED
      BY <1>5, <2>1
  <2>3. iter = [s \in SUBSET todo |->
                  IF s = {} THEN base
                  ELSE IF iter[s \ {Some(s)}].cycle THEN iter[s \ {Some(s)}]
                  ELSE other[<<Some(s), visiting, iter[s \ {Some(s)}].visited>>]]
    <3> HIDE DEF base, F
    <3>1. QED
      BY ONLY <2>2
  <2>4. iter[todo] = VisitAll(other, todo, visiting, visited)
    BY DEF VisitAll, FoldSet, MapThenFoldSet, Some
  <2> HIDE DEF iter, base, F
  <2>5. {} \in T
    BY <2>2, <2>3
  <2>6. \A s \in SUBSET todo : s # {} /\ s \ {Some(s)} \in T => s \in T
    BY <2>2, <2>3
  <2>7. SUBSET todo \subseteq T
    <3> HIDE DEF T
    <3>1. QED
      BY ONLY <1>1, <2>5, <2>6, SubsetInduction
  <2>8. QED
    BY <2>4, <2>7
<1>7. Loop(g, visit, todo, visiting, visited)
  BY <1>5 DEF Loop
<1>8. LoopOf(g, visit, todo, visiting, visited)
  BY <1>6, <1>7 DEF LoopOf
<1>9. QED
  BY <1>8

LEMMA LoopsAgree ==
    ASSUME NEW visit \in [Visits -> Found], NEW todo \in SUBSET Ids,
           NEW visiting \in SUBSET Ids, NEW visited \in SUBSET Ids,
           NEW other, Agree(other, visit, todo, visiting)
    PROVE  /\ VisitAll(visit, todo, visiting, visited) \in Found
           /\ VisitAll(other, todo, visiting, visited) = VisitAll(visit, todo, visiting, visited)
<1>1. PICK g \in [SUBSET todo -> Found] : LoopOf(g, visit, todo, visiting, visited)
  BY LoopExists
<1>2. Agree(visit, visit, todo, visiting)
  BY DEF Agree
<1>3. QED
  BY <1>1, <1>2 DEF LoopOf

-----------------------------------------------------------------------------
\* The search is the search for a set of tasks each of which blocks another.

Feeds(graph, S) == S # {} /\ \A x \in S : graph[x] \cap S # {}
HasLoop(graph) == \E S \in SUBSET Ids : Feeds(graph, S)

\* Finished tasks: nothing leads out of them and no cycle is among them.
Settled(graph, V) ==
    /\ V \in SUBSET Ids
    /\ \A x \in V : graph[x] \subseteq V
    /\ \A S \in SUBSET V : ~Feeds(graph, S)

\* The path leads to the task: each of its tasks blocks another or that one.
Leads(graph, visiting, id) == \A x \in visiting : graph[x] \cap (visiting \cup {id}) # {}

SearchSound(graph, p, r) ==
    /\ r.cycle /\ Leads(graph, p[2], p[1]) => HasLoop(graph)
    /\ ~r.cycle /\ Settled(graph, p[3])
         => Settled(graph, r.visited) /\ p[3] \subseteq r.visited /\ p[1] \in r.visited

\* The searches a loop may ask for are sound.
Searched(graph, visit, todo, visiting) ==
    \A x \in todo : \A W \in SUBSET Ids :
        SearchSound(graph, <<x, visiting, W>>, visit[<<x, visiting, W>>])

\* What a loop that ended with r has found.
LoopFinds(graph, todo, visiting, visited, r) ==
    /\ r \in Found
    /\ r.cycle /\ (\A x \in todo : Leads(graph, visiting, x)) => HasLoop(graph)
    /\ ~r.cycle /\ Settled(graph, visited)
         => Settled(graph, r.visited) /\ visited \subseteq r.visited /\ todo \subseteq r.visited

LEMMA LoopSound ==
    ASSUME NEW graph, NEW visit \in [Visits -> Found], NEW todo \in SUBSET Ids,
           NEW visiting \in SUBSET Ids, NEW visited \in SUBSET Ids,
           Searched(graph, visit, todo, visiting),
           NEW r, r = VisitAll(visit, todo, visiting, visited)
    PROVE  LoopFinds(graph, todo, visiting, visited, r)
<1> DEFINE Sound(s, q) ==
             /\ q.cycle /\ (\A x \in todo : Leads(graph, visiting, x)) => HasLoop(graph)
             /\ ~q.cycle /\ Settled(graph, visited)
                  => Settled(graph, q.visited) /\ visited \subseteq q.visited /\ s \subseteq q.visited
<1>1. PICK g \in [SUBSET todo -> Found] : LoopOf(g, visit, todo, visiting, visited)
  BY LoopExists
<1>2. Agree(visit, visit, todo, visiting)
  BY DEF Agree
<1>3. r = g[todo]
  BY <1>1, <1>2 DEF LoopOf
<1>4. IsFiniteSet(todo)
  BY IdsFinite, FS_Subset
<1> DEFINE T == {s \in SUBSET todo : Sound(s, g[s])}
<1>5. {} \in T
  <2>1. g[{}] = [cycle |-> FALSE, visited |-> visited]
    BY <1>1 DEF LoopOf, Loop
  <2>2. QED
    BY <2>1
<1>6. ASSUME NEW s \in SUBSET todo, s # {}, s \ {Some(s)} \in T
      PROVE  s \in T
  <2> DEFINE x == Some(s)
             q == g[s \ {Some(s)}]
  <2>1. x \in s /\ s \ {x} \in SUBSET todo /\ q \in Found
    BY <1>4, <1>6, SubsetMeasure
  <2>2. Sound(s \ {x}, q)
    BY <1>6
  <2>3. g[s] = IF q.cycle THEN q ELSE visit[<<x, visiting, q.visited>>]
    BY <1>1, <1>6 DEF LoopOf, Loop
  <2>4. SearchSound(graph, <<x, visiting, q.visited>>, visit[<<x, visiting, q.visited>>])
    BY <2>1 DEF Found, Searched
  <2> HIDE DEF x, q
  <2>5. CASE q.cycle
    BY <2>1, <2>2, <2>3, <2>5
  <2>6. CASE ~q.cycle
    <3> DEFINE v == visit[<<x, visiting, q.visited>>]
    <3>1. /\ v.cycle /\ Leads(graph, visiting, x) => HasLoop(graph)
          /\ ~v.cycle /\ Settled(graph, q.visited)
               => Settled(graph, v.visited) /\ q.visited \subseteq v.visited /\ x \in v.visited
      BY <2>4 DEF SearchSound
    <3>2. g[s] = v
      BY <2>3, <2>6
    <3> HIDE DEF v
    <3>3. Sound(s, v)
      BY <2>1, <2>2, <2>6, <3>1
    <3>4. QED
      BY <3>2, <3>3
  <2>7. QED
    BY <2>5, <2>6
<1>7. SUBSET todo \subseteq T
  <2> HIDE DEF T
  <2>1. QED
    BY ONLY <1>4, <1>5, <1>6, SubsetInduction
<1>8. QED
  BY <1>3, <1>7 DEF LoopFinds

LEMMA VisitedSound ==
    ASSUME NEW graph \in [Ids -> SUBSET Ids], NEW visit \in [Visits -> Found], NEW p \in Visits,
           p[1] \notin p[2] => Searched(graph, visit, Ids, p[2] \cup {p[1]})
    PROVE  SearchSound(graph, p, Visited(graph, visit, p))
<1> DEFINE id == p[1]
           path == p[2] \cup {id}
           below == VisitAll(visit, graph[id], path, p[3])
<1>1. id \in Ids /\ p[2] \in SUBSET Ids /\ p[3] \in SUBSET Ids
  BY DEF Visits
<1>2. CASE id \in p[2]
  <2>1. Visited(graph, visit, p) = [cycle |-> TRUE, visited |-> p[3]]
    BY <1>2 DEF Visited
  <2>2. ASSUME Leads(graph, p[2], id)
        PROVE  HasLoop(graph)
    <3>1. p[2] \cup {id} = p[2]
      BY <1>2
    <3>2. Feeds(graph, p[2])
      BY <1>2, <2>2, <3>1 DEF Leads, Feeds
    <3>3. QED
      BY <1>1, <3>2 DEF HasLoop
  <2>3. QED
    BY <2>1, <2>2 DEF SearchSound
<1>3. CASE id \notin p[2] /\ id \in p[3]
  <2>1. Visited(graph, visit, p) = [cycle |-> FALSE, visited |-> p[3]]
    <3>1. (id \in p[2]) = FALSE
      BY <1>3
    <3>2. Visited(graph, visit, p) = [cycle |-> id \in p[2], visited |-> p[3]]
      BY <1>3 DEF Visited
    <3>3. QED
      BY <3>1, <3>2
  <2>2. QED
    BY <1>3, <2>1 DEF SearchSound
<1>4. CASE id \notin p[2] /\ id \notin p[3]
  <2>1. Visited(graph, visit, p)
          = IF below.cycle THEN below ELSE [below EXCEPT !.visited = @ \cup {id}]
    BY <1>4 DEF Visited
  <2>2. graph[id] \in SUBSET Ids /\ path \in SUBSET Ids
    BY <1>1
  <2>3. LoopFinds(graph, graph[id], path, p[3], below)
    <3>1. Searched(graph, visit, graph[id], path)
      BY <1>4, <2>2 DEF Searched
    <3>2. visit \in [Visits -> Found] /\ p[3] \in SUBSET Ids /\ below = VisitAll(visit, graph[id], path, p[3])
      BY <1>1
    <3> HIDE DEF path, id, below
    <3>3. QED
      BY ONLY <2>2, <3>1, <3>2, LoopSound
  <2>4. Leads(graph, p[2], id) => \A x \in graph[id] : Leads(graph, path, x)
    BY DEF Leads
  <2> HIDE DEF below
  <2>5. CASE below.cycle
    BY <2>1, <2>3, <2>4, <2>5 DEF SearchSound, LoopFinds
  <2>6. CASE ~below.cycle
    <3> DEFINE V == below.visited \cup {id}
    <3>1. Visited(graph, visit, p).cycle = FALSE /\ Visited(graph, visit, p).visited = V
      BY <2>1, <2>3, <2>6 DEF Found, LoopFinds
    <3>2. ASSUME Settled(graph, p[3])
          PROVE  Settled(graph, V) /\ p[3] \subseteq V
      <4>1. Settled(graph, below.visited) /\ p[3] \subseteq below.visited
                  /\ graph[id] \subseteq below.visited
        BY <2>3, <2>6, <3>2 DEF LoopFinds
      <4>2. V \in SUBSET Ids /\ \A x \in V : graph[x] \subseteq V
        BY <1>1, <4>1 DEF Settled
      <4>3. ASSUME NEW S \in SUBSET V, Feeds(graph, S)
            PROVE  FALSE
        <5> DEFINE Q == S \cap below.visited
        <5>1. \A x \in Q : graph[x] \cap Q # {}
          BY <4>1, <4>3 DEF Settled, Feeds
        <5>2. Q # {}
          BY <4>1, <4>3 DEF Feeds
        <5>3. QED
          BY <4>1, <5>1, <5>2 DEF Settled, Feeds
      <4>4. QED
        BY <4>1, <4>2, <4>3 DEF Settled
    <3> HIDE DEF V
    <3>3. id \in V
      BY DEF V
    <3>4. QED
      BY <3>1, <3>2, <3>3 DEF SearchSound
  <2>7. QED
    BY <2>5, <2>6
<1>5. QED
  BY <1>2, <1>3, <1>4

\* The depth of a visit: how many tasks are not on the path to it.
Depth == [p \in Visits |-> Cardinality(Ids \ p[2])]

LEMMA DepthFalls ==
    /\ Depth \in [Visits -> 0..Cardinality(Ids)]
    /\ \A p \in Visits : \A x \in Ids : \A W \in SUBSET Ids :
          /\ <<x, p[2] \cup {p[1]}, W>> \in Visits
          /\ p[1] \notin p[2] => Depth[<<x, p[2] \cup {p[1]}, W>>] < Depth[p]
<1>1. ASSUME NEW p \in Visits
      PROVE  /\ p[1] \in Ids /\ p[2] \in SUBSET Ids
             /\ IsFiniteSet(Ids \ p[2])
             /\ Cardinality(Ids \ p[2]) \in Nat /\ Cardinality(Ids \ p[2]) <= Cardinality(Ids)
  <2>1. p[1] \in Ids /\ p[2] \in SUBSET Ids /\ Ids \ p[2] \in SUBSET Ids
    BY DEF Visits
  <2>2. QED
    BY <2>1, IdsFinite, FS_Subset, FS_CardinalityType
<1>2. ASSUME NEW p \in Visits, NEW x \in Ids, NEW W \in SUBSET Ids
      PROVE  /\ <<x, p[2] \cup {p[1]}, W>> \in Visits
             /\ p[1] \notin p[2] => Depth[<<x, p[2] \cup {p[1]}, W>>] < Depth[p]
  <2> DEFINE q == <<x, p[2] \cup {p[1]}, W>>
  <2>1. q \in Visits
    BY <1>1 DEF Visits
  <2>2. ASSUME p[1] \notin p[2]
        PROVE  Cardinality(Ids \ (p[2] \cup {p[1]})) < Cardinality(Ids \ p[2])
    <3>1. Ids \ (p[2] \cup {p[1]}) = (Ids \ p[2]) \ {p[1]}
      OBVIOUS
    <3>2. p[1] \in Ids \ p[2]
      BY <1>1, <2>2
    <3>3. Cardinality((Ids \ p[2]) \ {p[1]}) = Cardinality(Ids \ p[2]) - 1
      BY <1>1, <3>2, FS_RemoveElement
    <3>4. \A c \in Nat : c - 1 < c
      OBVIOUS
    <3>5. QED
      BY <1>1, <3>1, <3>3, <3>4
  <2>3. Depth[q] = Cardinality(Ids \ (p[2] \cup {p[1]})) /\ Depth[p] = Cardinality(Ids \ p[2])
    BY <2>1 DEF Depth
  <2>4. QED
    BY <2>1, <2>2, <2>3
<1>3. Depth \in [Visits -> 0..Cardinality(Ids)]
  <2>1. \A p \in Visits : Cardinality(Ids \ p[2]) \in 0..Cardinality(Ids)
    <3>1. \A c, n \in Nat : c <= n => c \in 0..n
      OBVIOUS
    <3>2. QED
      BY <1>1, <3>1, IdsFinite
  <2>2. QED
    BY <2>1 DEF Depth
<1>4. QED
  BY <1>2, <1>3

\* What one visit finds, of two searches that agree on the visits below.
LEMMA VisitedAgree ==
    ASSUME NEW graph \in [Ids -> SUBSET Ids], NEW visit \in [Visits -> Found], NEW other,
           NEW p \in Visits,
           \A q \in Visits : Depth[q] < Depth[p] => other[q] = visit[q]
    PROVE  /\ Visited(graph, visit, p) \in Found
           /\ Visited(graph, other, p) = Visited(graph, visit, p)
<1>1. p[1] \in Ids /\ p[2] \in SUBSET Ids /\ p[3] \in SUBSET Ids /\ graph[p[1]] \in SUBSET Ids
  BY DEF Visits
<1>2. CASE p[1] \in p[2] \cup p[3]
  BY <1>1, <1>2 DEF Visited, Found
<1>3. CASE p[1] \notin p[2] \cup p[3]
  <2> DEFINE path == p[2] \cup {p[1]}
  <2>1. Agree(other, visit, graph[p[1]], path)
    BY <1>1, <1>3, DepthFalls DEF Agree
  <2>2. path \in SUBSET Ids
    BY <1>1
  <2> HIDE DEF path
  <2>3. /\ VisitAll(visit, graph[p[1]], path, p[3]) \in Found
        /\ VisitAll(other, graph[p[1]], path, p[3]) = VisitAll(visit, graph[p[1]], path, p[3])
    BY <1>1, <2>1, <2>2, LoopsAgree
  <2> DEFINE below == VisitAll(visit, graph[p[1]], path, p[3])
  <2>4. Visited(graph, visit, p)
          = IF below.cycle THEN below ELSE [below EXCEPT !.visited = @ \cup {p[1]}]
    BY <1>3 DEF Visited, path
  <2>5. Visited(graph, other, p)
          = IF below.cycle THEN below ELSE [below EXCEPT !.visited = @ \cup {p[1]}]
    BY <1>3, <2>3 DEF Visited, path
  <2> HIDE DEF below
  <2>6. QED
    <3>1. below \in Found
      BY <2>3 DEF below
    <3>2. QED
      BY <1>1, <3>1, <2>4, <2>5 DEF Found
<1>4. QED
  BY <1>2, <1>3

\* The recursion of hasTaskCycle has one solution, a function that is sound.
LEMMA SearchExists ==
    ASSUME NEW graph \in [Ids -> SUBSET Ids],
           NEW visit, visit = CHOOSE v : v = [p \in Visits |-> Visited(graph, v, p)]
    PROVE  /\ visit \in [Visits -> Found]
           /\ \A p \in Visits : SearchSound(graph, p, visit[p])
<1> DEFINE F == [v \in [Visits -> Found] |-> [p \in Visits |-> Visited(graph, v, p)]]
<1>1. Found # {}
  <2>1. [cycle |-> FALSE, visited |-> {}] \in Found
    BY DEF Found
  <2>2. QED
    BY <2>1
<1>2. F \in [[Visits -> Found] -> [Visits -> Found]]
  <2>1. \A v \in [Visits -> Found] : \A p \in Visits : Visited(graph, v, p) \in Found
    BY VisitedAgree
  <2>2. QED
    BY <2>1
<1>3. Descends(F, Visits, Found, Depth)
  <2> SUFFICES ASSUME NEW v \in [Visits -> Found], NEW w \in [Visits -> Found], NEW p \in Visits,
                      \A q \in Visits : Depth[q] < Depth[p] => v[q] = w[q]
               PROVE  F[v][p] = F[w][p]
    BY DEF Descends
  <2>1. Visited(graph, v, p) = Visited(graph, w, p)
    BY VisitedAgree
  <2>2. QED
    BY <2>1
<1>4. Depth \in [Visits -> Nat]
  BY DepthFalls, IdsFinite
<1>5. PICK v \in [Visits -> Found] : Solves(v, F)
  <2> HIDE DEF F
  <2>1. \E v \in [Visits -> Found] : Solves(v, F)
    BY ONLY <1>1, <1>2, <1>3, <1>4, RecursionExists
  <2>2. QED
    BY <2>1
<1>6. v = [p \in Visits |-> Visited(graph, v, p)]
  BY <1>5 DEF Solves
<1>7. visit = [p \in Visits |-> Visited(graph, visit, p)]
  BY <1>6
<1>8. visit = v
  <2> DEFINE T == {p \in Visits : visit[p] = v[p]}
  <2>1. ASSUME NEW p \in Visits, \A q \in Visits : Depth[q] < Depth[p] => q \in T
        PROVE  p \in T
    <3>1. Visited(graph, visit, p) = Visited(graph, v, p)
      BY <2>1, VisitedAgree
    <3>2. QED
      BY <1>6, <1>7, <3>1
  <2>2. Visits \subseteq T
    <3> HIDE DEF T
    <3>1. QED
      BY ONLY <1>4, <2>1, MeasureInduction
  <2>3. \A p \in Visits : visit[p] = v[p]
    BY <2>2
  <2>4. QED
    BY <1>6, <1>7, <2>3
<1> DEFINE T == {p \in Visits : SearchSound(graph, p, v[p])}
<1>9. ASSUME NEW p \in Visits, \A q \in Visits : Depth[q] < Depth[p] => q \in T
      PROVE  p \in T
  <2>1. p[1] \notin p[2] => Searched(graph, v, Ids, p[2] \cup {p[1]})
    BY <1>9, DepthFalls DEF Searched
  <2>2. SearchSound(graph, p, Visited(graph, v, p))
    BY <2>1, VisitedSound
  <2>3. QED
    BY <1>6, <2>2
<1>10. Visits \subseteq T
  <2> HIDE DEF T
  <2>1. QED
    BY ONLY <1>4, <1>9, MeasureInduction
<1>11. QED
  BY <1>8, <1>10

\* hasTaskCycle finds a cycle exactly when there is one.
LEMMA CycleIsFound ==
    ASSUME NEW tasks \in [Ids -> MemTask]
    PROVE  HasTaskCycle(tasks) <=> HasLoop(Successors(tasks))
<1> DEFINE graph == Successors(tasks)
           visit == CHOOSE v : v = [p \in Visits |-> Visited(graph, v, p)]
           roots == {x \in Ids : tasks[x].status = "open"}
           r == VisitAll(visit, roots, {}, {})
<1>1. graph \in [Ids -> SUBSET Ids]
  BY DEF Successors, MemTask
<1>2. HasTaskCycle(tasks) = r.cycle
  BY DEF HasTaskCycle, Visited, Visits
<1>3. visit \in [Visits -> Found] /\ \A p \in Visits : SearchSound(graph, p, visit[p])
  <2> HIDE DEF graph
  <2>1. QED
    BY <1>1, SearchExists
<1> HIDE DEF visit, graph
<1>4. Searched(graph, visit, roots, {})
  BY <1>3 DEF Visits, Searched
<1>5. LoopFinds(graph, roots, {}, {}, r)
  <2>1. roots \in SUBSET Ids /\ {} \in SUBSET Ids
    OBVIOUS
  <2> HIDE DEF roots
  <2>2. QED
    BY <1>3, <1>4, <2>1, LoopSound
<1>6. Settled(graph, {}) /\ \A x \in roots : Leads(graph, {}, x)
  BY DEF Settled, Feeds, Leads
<1>7. ASSUME NEW S \in SUBSET Ids, Feeds(graph, S)
      PROVE  S \subseteq roots
  BY <1>7 DEF Feeds, graph, Successors
<1> HIDE DEF roots, r
<1>8. CASE r.cycle
  BY <1>2, <1>5, <1>6, <1>8 DEF graph, LoopFinds
<1>9. CASE ~r.cycle
  <2>1. \A S \in SUBSET Ids : ~Feeds(graph, S)
    BY <1>5, <1>6, <1>7, <1>9 DEF Settled, LoopFinds
  <2>2. QED
    BY <1>2, <1>9, <2>1 DEF HasLoop, graph
<1>10. QED
  BY <1>5, <1>8, <1>9 DEF Found, LoopFinds

-----------------------------------------------------------------------------
\* Both stores

\* What the recursive query reaches from a task's successor is on a cycle when it
\* is that task.
LEMMA PathIsCycle ==
    ASSUME NEW status, NEW edges \in SUBSET (Ids \X Ids), NEW t \in Ids,
           NEW b \in Blocks(edges, t), TaskPathExists(status, edges, b, t)
    PROVE  ~SqlGraph!Acyclic(edges)
<1> DEFINE S == {x \in Ids : TaskPathExists(status, edges, x, t)}
<1>1. t \in S /\ b \in S /\ <<t, b>> \in edges
  BY DEF TaskPathExists, Blocks
<1>2. ASSUME NEW x \in S, x # t
      PROVE  \E y \in S : <<x, y>> \in edges
  <2> SUFFICES ASSUME \A y \in S : <<x, y>> \notin edges
               PROVE  FALSE
    OBVIOUS
  <2> DEFINE Closed(y, R) == /\ Blocks(edges, y) \subseteq R
                             /\ \A v \in R : \A w \in Blocks(edges, v) :
                                    status[w] # "deleted" => w \in R
             R == {v \in Ids : \E y \in Blocks(edges, x) : \E P \in SUBSET Ids :
                                  Closed(y, P) /\ t \notin P /\ v \in P \cup {y}}
  <2>1. \A y \in Blocks(edges, x) : y # t /\ \E P \in SUBSET Ids : Closed(y, P) /\ t \notin P
    <3>1. TAKE y \in Blocks(edges, x)
    <3>2. y \in Ids /\ <<x, y>> \in edges
      BY DEF Blocks
    <3>3. ~TaskPathExists(status, edges, y, t)
      BY <3>2
    <3>4. QED
      BY <3>3 DEF TaskPathExists
  <2>2. R \in SUBSET Ids /\ t \notin R
    <3> HIDE DEF Closed
    <3>1. QED
      BY <2>1
  <2>3. Blocks(edges, x) \subseteq R
    <3> SUFFICES ASSUME NEW y \in Blocks(edges, x) PROVE y \in R
      OBVIOUS
    <3>1. PICK P \in SUBSET Ids : Closed(y, P) /\ t \notin P
      BY <2>1
    <3> HIDE DEF Closed
    <3>2. \E z \in Blocks(edges, x) : \E Q \in SUBSET Ids : Closed(z, Q) /\ t \notin Q /\ y \in Q \cup {z}
      BY <3>1
    <3>3. y \in Ids
      BY DEF Blocks
    <3>4. QED
      BY <3>2, <3>3
  <2>4. \A v \in R : \A w \in Blocks(edges, v) : status[w] # "deleted" => w \in R
    <3> SUFFICES ASSUME NEW v \in R, NEW w \in Blocks(edges, v), status[w] # "deleted"
                 PROVE  w \in R
      OBVIOUS
    <3> HIDE DEF Closed
    <3>1. PICK y \in Blocks(edges, x), P \in SUBSET Ids :
            Closed(y, P) /\ t \notin P /\ v \in P \cup {y}
      OBVIOUS
    <3>2. w \in P
      <4> USE DEF Closed
      <4>1. CASE v = y
        BY <3>1, <4>1
      <4>2. CASE v \in P
        BY <3>1, <4>2
      <4>3. QED
        BY <3>1, <4>1, <4>2
    <3>3. \E z \in Blocks(edges, x) : \E Q \in SUBSET Ids : Closed(z, Q) /\ t \notin Q /\ w \in Q \cup {z}
      BY <3>1, <3>2
    <3>4. w \in Ids
      BY DEF Blocks
    <3>5. QED
      BY <3>3, <3>4
  <2> HIDE DEF R
  <2>5. ~TaskPathExists(status, edges, x, t)
    BY <1>2, <2>2, <2>3, <2>4 DEF TaskPathExists
  <2>6. QED
    BY <2>5
<1> HIDE DEF S
<1>3. \A x \in S : \E y \in S : <<x, y>> \in edges
  BY <1>1, <1>2
<1>4. S \in (SUBSET Ids) \ {{}}
  BY <1>1 DEF S
<1>5. QED
  BY <1>3, <1>4 DEF SqlGraph!Acyclic

\* A memory store that holds the tasks the rows say sees the graph of the rows.
LEMMA LoopIsCycle ==
    ASSUME NEW tasks \in [Ids -> MemTask], NEW edges \in SUBSET (Ids \X Ids),
           \A x \in Ids : tasks[x].blocks = Blocks(edges, x),
           \A e \in edges : tasks[e[1]].status = "open"
    PROVE  HasLoop(Successors(tasks)) <=> ~SqlGraph!Acyclic(edges)
<1>1. \A x, y \in Ids : y \in Successors(tasks)[x] <=> <<x, y>> \in edges
  BY DEF Successors, Blocks
<1>2. \A x \in Ids : Successors(tasks)[x] \in SUBSET Ids
  BY DEF Successors, MemTask
<1>3. \A S \in SUBSET Ids : Feeds(Successors(tasks), S)
                             <=> S # {} /\ \A x \in S : \E y \in S : <<x, y>> \in edges
  BY <1>1 DEF Feeds
<1>4. QED
  BY <1>3 DEF HasLoop, SqlGraph!Acyclic

\* A task's lists are those of the rows.
Lists(tasks, status, edges) ==
    \A x \in Ids : tasks[x] = Task(status[x], Blocks(edges, x), {a \in Ids : <<a, x>> \in edges})

LEMMA ListsAre ==
    ASSUME NEW tasks, NEW status, NEW edges, Lists(tasks, status, edges)
    PROVE  \A x \in Ids : /\ tasks[x].status = status[x] /\ tasks[x].blocks = Blocks(edges, x)
                          /\ tasks[x].blockedBy = {a \in Ids : <<a, x>> \in edges}
<1> TAKE x \in Ids
<1> DEFINE in == {a \in Ids : <<a, x>> \in edges}
           out == Blocks(edges, x)
<1>1. tasks[x] = Task(status[x], out, in)
  BY DEF Lists
<1> HIDE DEF in, out
<1>2. tasks[x].status = status[x] /\ tasks[x].blocks = out /\ tasks[x].blockedBy = in
  BY <1>1 DEF Task
<1>3. QED
  BY <1>2 DEF in, out

\* applyTaskEdges does to the lists what applyTaskEdgeChangesTx does to the rows.
LEMMA ApplyAgrees ==
    ASSUME NEW tasks, NEW status, NEW edges \in SUBSET (Ids \X Ids),
           Lists(tasks, status, edges), NEW t \in Ids, <<t, t>> \notin edges,
           NEW patch \in Patches, ~SqlBadEnd(status, t, patch)
    PROVE  Lists(ApplyTaskEdges(tasks, t, patch), status, SqlEdgeChanges(edges, t, patch))
<1> DEFINE linked == SqlEdgeChanges(edges, t, patch)
           lists == ApplyTaskEdges(tasks, t, patch)
<1>1. /\ patch.addBlocks \subseteq Ids \ {t} /\ patch.addBlockedBy \subseteq Ids \ {t}
      /\ patch.removeBlocks \subseteq Ids /\ patch.removeBlockedBy \subseteq Ids
  BY DEF SqlBadEnd, Patches
<1>2. \A x \in Ids : /\ tasks[x].status = status[x] /\ tasks[x].blocks = Blocks(edges, x)
                     /\ tasks[x].blockedBy = {a \in Ids : <<a, x>> \in edges}
  BY ListsAre
<1>3. \A a, b \in Ids : <<a, b>> \in linked <=>
          \/ <<a, b>> \in edges /\ ~(a = t /\ b \in patch.removeBlocks)
                                /\ ~(b = t /\ a \in patch.removeBlockedBy)
          \/ a = t /\ b \in patch.addBlocks /\ b \notin patch.removeBlocks
          \/ b = t /\ a \in patch.addBlockedBy /\ a \notin patch.removeBlockedBy
  BY <1>1 DEF SqlEdgeChanges
<1> HIDE DEF linked
<1>4. ASSUME NEW x \in Ids
      PROVE  lists[x] = Task(status[x], Blocks(linked, x), {a \in Ids : <<a, x>> \in linked})
  <2>1. CASE x = t
    <3>1. lists[x] = Task(tasks[t].status,
                  (tasks[t].blocks \cup patch.addBlocks) \ patch.removeBlocks,
                  (tasks[t].blockedBy \cup patch.addBlockedBy) \ patch.removeBlockedBy)
      BY <2>1 DEF ApplyTaskEdges
    <3>2. (tasks[t].blocks \cup patch.addBlocks) \ patch.removeBlocks = Blocks(linked, x)
      BY <1>1, <1>2, <1>3, <2>1 DEF Blocks
    <3>3. (tasks[t].blockedBy \cup patch.addBlockedBy) \ patch.removeBlockedBy
            = {a \in Ids : <<a, x>> \in linked}
      BY <1>1, <1>2, <1>3, <2>1
    <3>4. QED
      BY <1>2, <2>1, <3>1, <3>2, <3>3
  <2>2. CASE x # t
    <3>1. lists[x] = Task(tasks[x].status,
                  (tasks[x].blocks \cup Entry(t, x \in patch.addBlockedBy))
                      \ Entry(t, x \in patch.removeBlockedBy),
                  (tasks[x].blockedBy \cup Entry(t, x \in patch.addBlocks))
                      \ Entry(t, x \in patch.removeBlocks))
      BY <2>2 DEF ApplyTaskEdges
    <3>2. (tasks[x].blocks \cup Entry(t, x \in patch.addBlockedBy))
                      \ Entry(t, x \in patch.removeBlockedBy) = Blocks(linked, x)
      BY <1>1, <1>2, <1>3, <2>2 DEF Blocks, Entry
    <3>3. (tasks[x].blockedBy \cup Entry(t, x \in patch.addBlocks))
                      \ Entry(t, x \in patch.removeBlocks) = {a \in Ids : <<a, x>> \in linked}
      BY <1>1, <1>2, <1>3, <2>2 DEF Entry
    <3>4. QED
      BY <1>2, <3>1, <3>2, <3>3
  <2>3. QED
    BY <2>1, <2>2
<1>5. QED
  BY <1>4 DEF Lists, linked

\* detachTask does to the lists what the deletion of its edges does to the rows.
LEMMA DetachAgrees ==
    ASSUME NEW tasks, NEW status, NEW edges \in SUBSET (Ids \X Ids),
           Lists(tasks, status, edges), NEW t \in Ids
    PROVE  Lists(DetachTask(tasks, t), status, {e \in edges : t \notin {e[1], e[2]}})
<1> DEFINE left == {e \in edges : t \notin {e[1], e[2]}}
           lists == DetachTask(tasks, t)
<1>1. \A x \in Ids : /\ tasks[x].status = status[x] /\ tasks[x].blocks = Blocks(edges, x)
                     /\ tasks[x].blockedBy = {a \in Ids : <<a, x>> \in edges}
  BY ListsAre
<1>2. \A a, b \in Ids : <<a, b>> \in left <=> <<a, b>> \in edges /\ a # t /\ b # t
  OBVIOUS
<1> HIDE DEF left
<1>3. ASSUME NEW x \in Ids
      PROVE  lists[x] = Task(status[x], Blocks(left, x), {a \in Ids : <<a, x>> \in left})
  <2>1. CASE x = t
    <3>1. Blocks(left, x) = {} /\ {a \in Ids : <<a, x>> \in left} = {}
      BY <1>2, <2>1 DEF Blocks
    <3>2. QED
      BY <1>1, <2>1, <3>1 DEF DetachTask
  <2>2. CASE x # t
    <3>1. tasks[x].blocks \ Entry(t, x \in tasks[t].blockedBy) = Blocks(left, x)
      BY <1>1, <1>2, <2>2 DEF Blocks, Entry
    <3>2. tasks[x].blockedBy \ Entry(t, x \in tasks[t].blocks) = {a \in Ids : <<a, x>> \in left}
      BY <1>1, <1>2, <2>2 DEF Blocks, Entry
    <3>3. QED
      BY <1>1, <2>2, <3>1, <3>2 DEF DetachTask
  <2>3. QED
    BY <2>1, <2>2
<1>4. QED
  BY <1>3 DEF Lists, left

\* UpdateTask writes the status first, in both.
LEMMA StatusAgrees ==
    ASSUME NEW tasks \in [Ids -> MemTask], NEW status \in [Ids -> Statuses], NEW edges,
           Lists(tasks, status, edges), NEW t \in Ids, NEW v \in Statuses
    PROVE  /\ [tasks EXCEPT ![t].status = v] \in [Ids -> MemTask]
           /\ [status EXCEPT ![t] = v] \in [Ids -> Statuses]
           /\ Lists([tasks EXCEPT ![t].status = v], [status EXCEPT ![t] = v], edges)
<1> DEFINE tasks1 == [tasks EXCEPT ![t].status = v]
           status1 == [status EXCEPT ![t] = v]
<1>1. tasks1 \in [Ids -> MemTask] /\ status1 \in [Ids -> Statuses]
  BY DEF MemTask
<1>2. ASSUME NEW x \in Ids
      PROVE  tasks1[x] = Task(status1[x], Blocks(edges, x), {a \in Ids : <<a, x>> \in edges})
  <2> DEFINE in == {a \in Ids : <<a, x>> \in edges}
             out == Blocks(edges, x)
  <2>1. tasks[x] = Task(status[x], out, in)
    BY DEF Lists
  <2> HIDE DEF in, out
  <2>2. tasks1[x] = Task(status1[x], out, in)
    BY <2>1 DEF Task
  <2>3. QED
    BY <2>2 DEF in, out
<1> HIDE DEF tasks1, status1
<1>3. Lists(tasks1, status1, edges)
  BY <1>2 DEF Lists
<1>4. QED
  BY <1>1, <1>3 DEF tasks1, status1

-----------------------------------------------------------------------------
\* The rows of a session exist from the first write on, and are its contents.
Agreed ==
    /\ Lists(mem.tasks, sql.status, sql.edges)
    /\ mem.counter = sql.counter
    /\ mem.messages \in Nat /\ sql.messages = 1..mem.messages
    /\ mem.skills = sql.skills
    /\ mem.exists => sql.exists
    /\ ~sql.exists => sql = NewSql

AgreeInv == SqlInv /\ MemInv /\ Agreed

LEMMA MessagesAgree ==
    ASSUME AgreeInv, NEW n \in 1..2, AppendMessages(n)
    PROVE  Agreed'
<1> DEFINE m == mem.messages
           last == IF sql.messages = {} THEN 0 ELSE Max(sql.messages)
<1>1. m \in Nat /\ n \in Nat /\ sql.messages = 1..m
  BY DEF AgreeInv, Agreed
<1>2. last = m
  <2>1. CASE m = 0
    <3>1. 1..m = {}
      BY <2>1
    <3>2. QED
      BY <1>1, <2>1, <3>1
  <2>2. CASE m # 0
    <3>1. m \in Nat \ {0}
      BY <1>1, <2>2
    <3>2. 1..m # {} /\ Max(1..m) = m
      BY <3>1, GreatestOfInterval
    <3>3. QED
      BY <1>1, <3>2
  <2>3. QED
    BY <2>1, <2>2
<1>3. sql.messages \cup (last + 1)..(last + n) = 1..(m + n) /\ m + n \in Nat
  <2> HIDE DEF last, m
  <2>1. QED
    BY <1>1, <1>2
<1>4. /\ mem' = [mem EXCEPT !.messages = m + n]
      /\ sql' = [sql EXCEPT !.exists = TRUE, !.messages = sql.messages \cup (last + 1)..(last + n)]
  BY DEF AppendMessages, Both, MemAppend, SqlAppend, Reply
<1> HIDE DEF last, m
<1>5. /\ mem'.tasks = mem.tasks /\ mem'.counter = mem.counter /\ mem'.skills = mem.skills
      /\ mem'.exists = mem.exists /\ mem'.messages = m + n
  BY <1>4 DEF AgreeInv, MemInv, MemShape
<1>6. /\ sql'.status = sql.status /\ sql'.edges = sql.edges /\ sql'.counter = sql.counter
      /\ sql'.skills = sql.skills /\ sql'.exists = TRUE
      /\ sql'.messages = sql.messages \cup (last + 1)..(last + n)
  BY <1>4 DEF AgreeInv, SqlInv, SqlShape
<1>7. QED
  BY <1>3, <1>5, <1>6 DEF AgreeInv, Agreed

LEMMA CreateTaskAgrees ==
    ASSUME AgreeInv, CreateTask
    PROVE  Agreed'
<1> DEFINE n == sql.counter + 1
           new == Task("open", {}, {})
<1>1. n \in Ids /\ n > mem.counter /\ n = mem.counter + 1
  BY BoundsAssumption DEF CreateTask, Ids, AgreeInv, SqlInv, SqlShape, Agreed
<1>2. mem.tasks[n].status = "absent"
  BY <1>1 DEF AgreeInv, MemInv, MemShape
<1>3. sql.status[n] = "absent"
  BY <1>1, <1>2, ListsAre DEF AgreeInv, Agreed
<1>4. n \notin SqlOpen
  BY <1>3 DEF SqlOpen
<1>5. sql.edges \subseteq SqlOpen \X SqlOpen
  BY DEF AgreeInv, SqlInv, SqlShape
<1>6. Blocks(sql.edges, n) = {} /\ {a \in Ids : <<a, n>> \in sql.edges} = {}
  BY <1>4, <1>5 DEF Blocks
<1>7. /\ mem' = [mem EXCEPT !.counter = n, !.tasks[n] = new]
      /\ sql' = [sql EXCEPT !.exists = TRUE, !.counter = n, !.status[n] = "open"]
  <2>1. new = [NoTask EXCEPT !.status = "open"]
    BY DEF NoTask, Task
  <2>2. mem.counter + 1 = n
    BY <1>1
  <2> HIDE DEF new
  <2>3. mem' = [mem EXCEPT !.counter = n, !.tasks[n] = new]
    BY <2>1, <2>2 DEF CreateTask, Both, MemCreateTask, Reply
  <2>4. sql' = [sql EXCEPT !.exists = TRUE, !.counter = n, !.status[n] = "open"]
    BY DEF CreateTask, Both, SqlCreateTask, Reply
  <2>5. QED
    BY <2>3, <2>4
<1> HIDE DEF n, new
<1>8. /\ mem'.tasks = [mem.tasks EXCEPT ![n] = new] /\ mem'.counter = n
      /\ mem'.skills = mem.skills /\ mem'.exists = mem.exists /\ mem'.messages = mem.messages
  BY <1>7 DEF AgreeInv, MemInv, MemShape
<1>9. /\ sql'.status = [sql.status EXCEPT ![n] = "open"] /\ sql'.edges = sql.edges
      /\ sql'.counter = n /\ sql'.skills = sql.skills /\ sql'.exists = TRUE
      /\ sql'.messages = sql.messages
  BY <1>7 DEF AgreeInv, SqlInv, SqlShape
<1>10. Lists(mem'.tasks, sql'.status, sql'.edges)
  <2> SUFFICES ASSUME NEW x \in Ids
               PROVE  mem'.tasks[x] = Task(sql'.status[x], Blocks(sql.edges, x),
                                           {a \in Ids : <<a, x>> \in sql.edges})
    BY <1>9 DEF Lists
  <2>1. CASE x = n
    <3>1. Blocks(sql.edges, x) = {} /\ {a \in Ids : <<a, x>> \in sql.edges} = {}
      BY <1>6, <2>1
    <3>2. mem'.tasks[x] = new /\ sql'.status[x] = "open"
      BY <1>1, <1>8, <1>9, <2>1 DEF AgreeInv, MemInv, MemShape, SqlInv, SqlShape
    <3>3. QED
      BY <3>1, <3>2 DEF new
  <2>2. CASE x # n
    <3>1. mem'.tasks[x] = mem.tasks[x] /\ sql'.status[x] = sql.status[x]
      BY <1>8, <1>9, <2>2 DEF AgreeInv, MemInv, MemShape, SqlInv, SqlShape
    <3>2. QED
      BY <3>1 DEF AgreeInv, Agreed, Lists
  <2>3. QED
    BY <2>1, <2>2
<1>11. QED
  BY <1>8, <1>9, <1>10 DEF AgreeInv, Agreed

\* A call that leaves everything but the tasks alone.
LEMMA TasksAgree ==
    ASSUME AgreeInv, NEW tasks, NEW status, NEW edges, NEW t \in Ids, sql.status[t] # "absent",
           mem' = [mem EXCEPT !.tasks = tasks],
           sql' = [sql EXCEPT !.status = status, !.edges = edges],
           Lists(tasks, status, edges)
    PROVE  Agreed'
<1>1. /\ mem'.tasks = tasks /\ mem'.counter = mem.counter /\ mem'.skills = mem.skills
      /\ mem'.exists = mem.exists /\ mem'.messages = mem.messages
  BY DEF AgreeInv, MemInv, MemShape
<1>2. /\ sql'.status = status /\ sql'.edges = edges /\ sql'.counter = sql.counter
      /\ sql'.skills = sql.skills /\ sql'.exists = sql.exists /\ sql'.messages = sql.messages
  BY DEF AgreeInv, SqlInv, SqlShape
<1>3. sql.exists
  BY DEF AgreeInv, Agreed, NewSql
<1>4. QED
  BY <1>1, <1>2, <1>3 DEF AgreeInv, Agreed

LEMMA DeleteTaskAgrees ==
    ASSUME AgreeInv, NEW t \in Ids, DeleteTask(t)
    PROVE  Agreed'
<1> DEFINE left == {e \in sql.edges : t \notin {e[1], e[2]}}
           tasks == [DetachTask(mem.tasks, t) EXCEPT ![t] = NoTask]
           status == [sql.status EXCEPT ![t] = "absent"]
<1>1. mem.tasks[t].status = sql.status[t]
  BY ListsAre DEF AgreeInv, Agreed
<1>2. CASE sql.status[t] = "absent"
  <2>1. mem' = mem /\ sql' = sql
    BY <1>1, <1>2 DEF DeleteTask, Both, MemDeleteTask, SqlDeleteTask, Reply
  <2>2. QED
    BY <2>1 DEF AgreeInv, Agreed
<1>3. CASE sql.status[t] # "absent"
  <2>1. mem' = [mem EXCEPT !.tasks = tasks]
    BY <1>1, <1>3 DEF DeleteTask, Both, MemDeleteTask, Reply
  <2>2. sql' = [sql EXCEPT !.status = status, !.edges = left]
    BY <1>3 DEF DeleteTask, Both, SqlDeleteTask, Reply
  <2>3. sql.edges \in SUBSET (Ids \X Ids) /\ sql.status \in [Ids -> Statuses]
    BY DEF AgreeInv, SqlInv, SqlShape, SqlOpen
  <2>4. Lists(DetachTask(mem.tasks, t), sql.status, left)
    BY <2>3, DetachAgrees DEF AgreeInv, Agreed
  <2>5. Lists(tasks, status, left)
    <3> SUFFICES ASSUME NEW x \in Ids
                 PROVE  tasks[x] = Task(status[x], Blocks(left, x), {a \in Ids : <<a, x>> \in left})
      BY DEF Lists
    <3>1. CASE x = t
      <4>1. Blocks(left, x) = {} /\ {a \in Ids : <<a, x>> \in left} = {}
        BY <3>1 DEF Blocks
      <4>2. tasks[x] = NoTask /\ status[x] = "absent"
        BY <2>3, <3>1 DEF DetachTask
      <4>3. QED
        BY <4>1, <4>2 DEF NoTask, Task
    <3>2. CASE x # t
      <4>1. tasks[x] = DetachTask(mem.tasks, t)[x] /\ status[x] = sql.status[x]
        BY <2>3, <3>2 DEF DetachTask
      <4> HIDE DEF left, tasks, status
      <4>2. QED
        BY <2>4, <4>1 DEF Lists
    <3>3. QED
      BY <3>1, <3>2
  <2> HIDE DEF left, tasks, status
  <2>6. QED
    BY <1>3, <2>1, <2>2, <2>5, TasksAgree
<1>4. QED
  BY <1>2, <1>3

\* Both stores judge the edges of an edit alike: the search of the memory store
\* finds a cycle exactly when the query reaches the edited task again.
LEMMA JudgedAlike ==
    ASSUME SqlInv, NEW t \in Ids, NEW patch \in Patches,
           NEW status \in [Ids -> Statuses], status = [sql.status EXCEPT ![t] = "open"],
           NEW tasks \in [Ids -> MemTask], Lists(tasks, status, sql.edges),
           ~SqlBadEnd(status, t, patch),
           NEW linked, linked = SqlEdgeChanges(sql.edges, t, patch),
           NEW lists, lists = ApplyTaskEdges(tasks, t, patch)
    PROVE  /\ Lists(lists, status, linked)
           /\ HasTaskCycle(lists) <=> \E b \in Blocks(linked, t) : TaskPathExists(status, linked, b, t)
<1>1. /\ sql.edges \in SUBSET (Ids \X Ids)
      /\ \A e \in sql.edges : e \in Ids \X Ids /\ sql.status[e[1]] = "open" /\ sql.status[e[2]] = "open"
      /\ SqlGraph!Acyclic(sql.edges)
  BY DEF SqlInv, SqlShape, SqlOpen
<1>2. <<t, t>> \notin sql.edges
  <2>1. {t} \in (SUBSET Ids) \ {{}}
    OBVIOUS
  <2>2. QED
    BY <1>1, <2>1 DEF SqlGraph!Acyclic
<1>3. Lists(lists, status, linked)
  BY <1>1, <1>2, ApplyAgrees
<1>4. \A e \in linked : e \in Ids \X Ids /\ status[e[1]] = "open"
  <2>1. /\ patch.addBlocks \subseteq Ids /\ patch.addBlockedBy \subseteq Ids
        /\ \A x \in patch.addBlockedBy : status[x] = "open"
    BY DEF SqlBadEnd
  <2>2. \A e \in sql.edges : e \in Ids \X Ids /\ status[e[1]] = "open"
    BY <1>1
  <2>3. QED
    BY <2>1, <2>2 DEF SqlEdgeChanges, SqlInv, SqlShape
<1>5. linked \in SUBSET (Ids \X Ids)
  BY <1>4
<1>6. lists \in [Ids -> MemTask] /\ \A x \in Ids : lists[x].blocks = Blocks(linked, x) /\ lists[x].status = status[x]
  <2>1. \A x \in Ids : lists[x] = Task(status[x], Blocks(linked, x), {a \in Ids : <<a, x>> \in linked})
    BY <1>3 DEF Lists
  <2>2. \A x \in Ids : lists[x] \in MemTask
    <3>1. TAKE x \in Ids
    <3> DEFINE in == {a \in Ids : <<a, x>> \in linked}
    <3>2. Blocks(linked, x) \in SUBSET Ids /\ in \in SUBSET Ids /\ status[x] \in Statuses
      BY DEF Blocks
    <3>3. lists[x] = Task(status[x], Blocks(linked, x), in)
      BY <2>1
    <3> HIDE DEF in
    <3>4. QED
      BY <3>2, <3>3, TaskTyped
  <2>3. lists = [x \in Ids |-> lists[x]]
    BY DEF ApplyTaskEdges
  <2>4. QED
    BY <1>3, <2>2, <2>3, ListsAre
<1>7. HasTaskCycle(lists) <=> ~SqlGraph!Acyclic(linked)
  <2>1. \A e \in linked : lists[e[1]].status = "open"
    BY <1>4, <1>6
  <2>2. QED
    BY <1>5, <1>6, <2>1, CycleIsFound, LoopIsCycle
<1>8. (\E b \in Blocks(linked, t) : TaskPathExists(status, linked, b, t)) => ~SqlGraph!Acyclic(linked)
  BY <1>5, PathIsCycle
<1>9. ~(\E b \in Blocks(linked, t) : TaskPathExists(status, linked, b, t)) => SqlGraph!Acyclic(linked)
  BY SqlLinkedGraph
<1>10. QED
  BY <1>3, <1>7, <1>8, <1>9

LEMMA UpdateTaskAgrees ==
    ASSUME AgreeInv, NEW t \in Ids, NEW patch \in Patches, UpdateTask(t, patch)
    PROVE  Agreed'
<1> DEFINE v == Patched(sql.status[t], patch)
           status == [sql.status EXCEPT ![t] = v]
           tasks1 == [mem.tasks EXCEPT ![t].status = v]
           linked == SqlEdgeChanges(sql.edges, t, patch)
           lists == ApplyTaskEdges(tasks1, t, patch)
           left == {e \in sql.edges : t \notin {e[1], e[2]}}
           refused == \E b \in Blocks(linked, t) : TaskPathExists(status, linked, b, t)
<1>1. mem.tasks[t].status = sql.status[t]
  BY ListsAre DEF AgreeInv, Agreed
<1>2. /\ sql.edges \in SUBSET (Ids \X Ids) /\ sql.status \in [Ids -> Statuses]
      /\ mem.tasks \in [Ids -> MemTask] /\ Lists(mem.tasks, sql.status, sql.edges)
  BY DEF AgreeInv, Agreed, SqlInv, SqlShape, SqlOpen, MemInv, MemShape
<1>3. mem' = MemUpdateTask(mem, t, patch).st /\ sql' = SqlUpdateTask(sql, t, patch).st
  BY DEF UpdateTask, Both
<1>4. CASE sql.status[t] = "absent"
  <2>1. mem' = mem /\ sql' = sql
    BY <1>1, <1>3, <1>4 DEF MemUpdateTask, SqlUpdateTask, Reply
  <2>2. QED
    BY <2>1 DEF AgreeInv, Agreed
<1>5. CASE sql.status[t] # "absent"
  <2>1. v \in Statuses /\ v # "absent"
    BY <1>2, <1>5 DEF Patched, Patches, Statuses
  <2>2. tasks1 \in [Ids -> MemTask] /\ status \in [Ids -> Statuses] /\ Lists(tasks1, status, sql.edges)
    <3> HIDE DEF v
    <3>1. QED
      BY <1>2, <2>1, StatusAgrees
  <2>3. status[t] = v
    BY <1>2
  <2>4. CASE v = "deleted"
    <3>1. mem' = [mem EXCEPT !.tasks = DetachTask(tasks1, t)]
      BY <1>1, <1>3, <1>5, <2>4 DEF MemUpdateTask, Reply
    <3>2. sql' = [sql EXCEPT !.status = status, !.edges = left]
      BY <1>3, <1>5, <2>3, <2>4 DEF SqlUpdateTask, Reply
    <3> HIDE DEF status, tasks1
    <3>3. Lists(DetachTask(tasks1, t), status, left)
      BY <1>2, <2>2, DetachAgrees
    <3> HIDE DEF left
    <3>4. QED
      BY <1>5, <3>1, <3>2, <3>3, TasksAgree
  <2>5. CASE v # "deleted"
    <3>1. MemBadEnd(tasks1, t, patch) <=> SqlBadEnd(status, t, patch)
      <4>1. \A x \in Ids : tasks1[x].status = status[x]
        <5> HIDE DEF tasks1, status
        <5>1. QED
          BY <2>2, ListsAre
      <4> HIDE DEF tasks1, status
      <4>2. QED
        BY <4>1 DEF MemBadEnd, SqlBadEnd
    <3>2. ~SqlBadEnd(status, t, patch) =>
             Lists(lists, status, linked) /\ (HasTaskCycle(lists) <=> refused)
      <4>1. status = [sql.status EXCEPT ![t] = "open"]
        BY <2>1, <2>5 DEF Statuses
      <4>2. SqlInv
        BY DEF AgreeInv
      <4> DEFINE l == linked
                 m == lists
      <4>3. l = SqlEdgeChanges(sql.edges, t, patch) /\ m = ApplyTaskEdges(tasks1, t, patch)
        OBVIOUS
      <4> HIDE DEF tasks1, status, l, m
      <4>4. ~SqlBadEnd(status, t, patch) =>
              /\ Lists(m, status, l)
              /\ HasTaskCycle(m) <=> \E b \in Blocks(l, t) : TaskPathExists(status, l, b, t)
        BY <2>2, <4>1, <4>2, <4>3, JudgedAlike
      <4>5. QED
        BY <4>4 DEF l, m
    <3> DEFINE badMem == MemBadEnd(tasks1, t, patch)
               badSql == SqlBadEnd(status, t, patch)
               cycle == HasTaskCycle(lists)
    <3>3. mem' = IF badMem \/ cycle THEN mem ELSE [mem EXCEPT !.tasks = lists]
      BY <1>1, <1>3, <1>5, <2>5 DEF MemUpdateTask, Reply
    <3>4. sql' = IF badSql \/ refused THEN sql
                 ELSE [sql EXCEPT !.status = status, !.edges = linked]
      BY <1>3, <1>5, <2>3, <2>5 DEF SqlUpdateTask, Reply
    <3> HIDE DEF status, tasks1, linked, lists, refused, badMem, cycle, badSql
    <3>5. CASE badSql \/ refused
      <4>1. mem' = mem /\ sql' = sql
        BY <3>1, <3>2, <3>3, <3>4, <3>5 DEF badMem, badSql, cycle
      <4>2. QED
        BY <4>1 DEF AgreeInv, Agreed
    <3>6. CASE ~(badSql \/ refused)
      <4>1. /\ mem' = [mem EXCEPT !.tasks = lists]
            /\ sql' = [sql EXCEPT !.status = status, !.edges = linked]
            /\ Lists(lists, status, linked)
        BY <3>1, <3>2, <3>3, <3>4, <3>6 DEF badMem, badSql, cycle
      <4>2. QED
        BY <1>5, <4>1, TasksAgree
    <3>7. QED
      BY <3>5, <3>6
  <2>6. QED
    BY <2>4, <2>5
<1>6. QED
  BY <1>4, <1>5

LEMMA AgreeStep ==
    ASSUME AgreeInv, [Next]_vars
    PROVE  AgreeInv'
<1>1. SqlInv' /\ MemInv'
  BY SqlStep, MemStep DEF AgreeInv
<1>2. CASE Create
  <2>1. mem' = [mem EXCEPT !.exists = TRUE] /\ sql' = [sql EXCEPT !.exists = TRUE]
    BY <1>2 DEF Create, Both, MemCreate, SqlCreate, Reply
  <2>2. /\ mem'.tasks = mem.tasks /\ mem'.counter = mem.counter /\ mem'.skills = mem.skills
        /\ mem'.messages = mem.messages
    BY <2>1 DEF AgreeInv, MemInv, MemShape
  <2>3. /\ sql'.status = sql.status /\ sql'.edges = sql.edges /\ sql'.counter = sql.counter
        /\ sql'.skills = sql.skills /\ sql'.exists = TRUE /\ sql'.messages = sql.messages
    BY <2>1 DEF AgreeInv, SqlInv, SqlShape
  <2>4. QED
    BY <1>1, <2>2, <2>3 DEF AgreeInv, Agreed
<1>3. CASE SetInvokedSkills
  <2>1. mem' = [mem EXCEPT !.skills = TRUE] /\ sql' = [sql EXCEPT !.exists = TRUE, !.skills = TRUE]
    BY <1>3 DEF SetInvokedSkills, Both, MemSetSkills, SqlSetSkills, Reply
  <2>2. /\ mem'.tasks = mem.tasks /\ mem'.counter = mem.counter /\ mem'.skills = TRUE
        /\ mem'.messages = mem.messages
    BY <2>1 DEF AgreeInv, MemInv, MemShape
  <2>3. /\ sql'.status = sql.status /\ sql'.edges = sql.edges /\ sql'.counter = sql.counter
        /\ sql'.skills = TRUE /\ sql'.exists = TRUE /\ sql'.messages = sql.messages
    BY <2>1 DEF AgreeInv, SqlInv, SqlShape
  <2>4. QED
    BY <1>1, <2>2, <2>3 DEF AgreeInv, Agreed
<1>4. CASE UpdateMeta \/ UNCHANGED vars
  <2>1. mem' = mem /\ sql' = sql
    BY <1>4 DEF UpdateMeta, Both, MemUpdateMeta, SqlUpdateMeta, Reply, vars
  <2>2. QED
    BY <2>1, <1>1 DEF AgreeInv, Agreed
<1>5. CASE Delete
  <2>1. mem' = NewMem /\ sql' = NewSql
    BY <1>5 DEF Delete, Both, MemDelete, SqlDelete, Reply, AgreeInv, Agreed
  <2>2. Agreed'
    <3>1. \A x \in Ids : NoTask = Task("absent", Blocks({}, x), {a \in Ids : <<a, x>> \in {}})
      BY DEF NoTask, Task, Blocks
    <3>2. Lists(NewMem.tasks, NewSql.status, NewSql.edges)
      BY <3>1 DEF Lists, NewMem, NewSql
    <3>3. QED
      BY <2>1, <3>2 DEF Agreed, NewMem, NewSql
  <2>3. QED
    BY <1>1, <2>2 DEF AgreeInv
<1>6. CASE CreateTask
  BY <1>1, <1>6, CreateTaskAgrees DEF AgreeInv
<1>7. ASSUME NEW n \in 1..2, AppendMessages(n)
      PROVE  Agreed'
  BY <1>7, MessagesAgree
<1>8. ASSUME NEW t \in Ids, DeleteTask(t)
      PROVE  Agreed'
  BY <1>8, DeleteTaskAgrees
<1>9. ASSUME NEW t \in Ids, NEW patch \in OfferedPatches, UpdateTask(t, patch)
      PROVE  Agreed'
  BY <1>9, UpdateTaskAgrees DEF OfferedPatches
<1>10. QED
  BY <1>1, <1>2, <1>3, <1>4, <1>5, <1>6, <1>7, <1>8, <1>9 DEF Next, AgreeInv

\* The memory store and the SQLite store keep the same session, whatever calls are
\* made: in particular hasTaskCycle, a depth-first search over lists, and
\* taskPathExistsTx, a recursive query over rows, refuse the same edits
\* (sessions/memory.go:408, sessions/sqlite/store.go).
THEOREM StoresStayEqual == Spec => []StoresAgree
<1>1. Init => AgreeInv
  <2> SUFFICES ASSUME Init PROVE AgreeInv
    OBVIOUS
  <2>1. mem = NewMem /\ sql = NewSql
    BY DEF Init
  <2>2. MemInv
    BY <2>1 DEF NewMem, NoTask, MemInv, MemShape, Mirrored, MemTask, Statuses
  <2>3. SqlInv
    BY <2>1 DEF NewSql, SqlInv, SqlShape, SqlOpen, SqlGraph!Acyclic, Statuses
  <2>4. Agreed
    <3>1. \A x \in Ids : NoTask = Task("absent", Blocks({}, x), {a \in Ids : <<a, x>> \in {}})
      BY DEF NoTask, Task, Blocks
    <3>2. Lists(NewMem.tasks, NewSql.status, NewSql.edges)
      BY <3>1 DEF Lists, NewMem, NewSql
    <3>3. QED
      BY <2>1, <3>2 DEF Agreed, NewMem, NewSql
  <2>5. QED
    BY <2>2, <2>3, <2>4 DEF AgreeInv
<1>2. AgreeInv /\ [Next]_vars => AgreeInv'
  BY AgreeStep
<1>3. AgreeInv => StoresAgree
  BY DEF AgreeInv, Agreed, StoresAgree, Lists, SqlTask
<1>4. QED
  BY <1>1, <1>2, <1>3, PTL DEF Spec

-----------------------------------------------------------------------------
\* The protected store

Actors == {ActorOf[c] : c \in Clients}
Payloads == Actors \cup {NoActor}
Calls == {Idle} \cup [phase : {"authorized", "read"}, op : Ops]

RowType ==
    [exists : BOOLEAN, owner : Payloads, meta : Payloads, skills : Payloads, task : Payloads,
     messages : Seq(Payloads)]

\* What BoundToOwner says of the row.
BoundRow(row) ==
    /\ {row.meta, row.skills, row.task} \subseteq {row.owner, NoActor}
    /\ \A i \in DOMAIN row.messages : row.messages[i] = row.owner
    /\ row.exists = (row.owner # NoActor)

\* A session that does not exist has no messages, which BoundToOwner leaves to
\* the fact that nobody writes NoActor's.
ProtectedInv ==
    /\ inner \in RowType
    /\ client \in [Clients -> Calls]
    /\ raced \in BOOLEAN
    /\ ~raced => /\ BoundRow(inner)
                 /\ ~inner.exists => inner.messages = <<>>
                 /\ \A c \in Clients : client[c] # Idle => inner.owner = ActorOf[c]

LEMMA NoRowType == NoRow \in RowType /\ BoundRow(NoRow) /\ NoRow.messages = <<>> /\ ~NoRow.exists
<1>1. <<>> \in Seq(Payloads) /\ DOMAIN <<>> = {}
  OBVIOUS
<1>2. NoRow \in RowType
  BY <1>1 DEF NoRow, RowType, Payloads
<1>3. BoundRow(NoRow)
  BY <1>1 DEF NoRow, BoundRow
<1>4. QED
  BY <1>2, <1>3 DEF NoRow

LEMMA ProtectedInit == PInit => ProtectedInv
<1> SUFFICES ASSUME PInit
             PROVE  ProtectedInv
  OBVIOUS
<1>1. Idle \in Calls
  BY DEF Idle, Calls
<1>2. QED
  BY <1>1, NoRowType DEF PInit, ProtectedInv

\* What the inner store holds after the second call of an operation of a caller
\* who owns the session.
LEMMA EffectBound ==
    ASSUME NEW c \in Clients, NEW op \in Ops, inner \in RowType, BoundRow(inner),
           inner.owner = ActorOf[c], inner.exists
    PROVE  /\ BoundRow(Effect(c, op))
           /\ op # "delete" => Effect(c, op).owner = ActorOf[c] /\ Effect(c, op).exists
<1>1. ActorOf[c] \in Actors /\ ActorOf[c] # NoActor
  BY ActorsAssumption DEF Actors
<1>2. CASE op = "append"
  <2>1. inner.messages \in Seq(Payloads)
    BY DEF RowType
  <2>2. \A i \in DOMAIN Append(inner.messages, ActorOf[c]) :
           Append(inner.messages, ActorOf[c])[i] = ActorOf[c]
    BY <2>1, <1>1 DEF BoundRow
  <2>3. Effect(c, op) = AppendMessagesEffect(c)
    BY <1>2 DEF Effect
  <2>4. QED
    BY <2>2, <2>3, <1>1, <1>2 DEF AppendMessagesEffect, Ensured, Protected, BoundRow, RowType
<1>3. CASE op \in {"loadMessages", "getTask"}
  BY <1>3, <1>1 DEF Effect
<1>4. CASE op = "updateMeta"
  BY <1>4, <1>1 DEF Effect, UpdateMetaEffect, Protected, BoundRow, RowType
<1>5. CASE op = "setSkills"
  BY <1>5, <1>1 DEF Effect, SetInvokedSkillsEffect, Ensured, Protected, BoundRow, RowType
<1>6. CASE op = "delete"
  BY <1>6, NoRowType DEF Effect
<1>7. CASE op = "createTask"
  BY <1>7, <1>1 DEF Effect, CreateTaskEffect, Ensured, Protected, BoundRow, RowType
<1>8. CASE op = "updateTask"
  BY <1>8, <1>1 DEF Effect, UpdateTaskEffect, Protected, BoundRow, RowType
<1>9. CASE op = "deleteTask"
  BY <1>9, <1>1 DEF Effect, BoundRow, RowType
<1>10. QED
  BY <1>2, <1>3, <1>4, <1>5, <1>6, <1>7, <1>8, <1>9 DEF Ops

LEMMA EffectType ==
    ASSUME NEW c \in Clients, NEW op \in Ops, inner \in RowType
    PROVE  Effect(c, op) \in RowType
<1>1. ActorOf[c] \in Payloads /\ NoActor \in Payloads
  BY DEF Payloads, Actors
<1>2. CASE op = "append"
  <2>1. Append(inner.messages, ActorOf[c]) \in Seq(Payloads)
    BY <1>1 DEF RowType
  <2>2. Effect(c, op) = AppendMessagesEffect(c)
    BY <1>2 DEF Effect
  <2>3. QED
    BY <2>1, <2>2 DEF AppendMessagesEffect, Ensured, Protected, RowType
<1>3. CASE op \in {"loadMessages", "getTask"}
  BY <1>3 DEF Effect
<1>4. CASE op = "updateMeta"
  BY <1>4, <1>1 DEF Effect, UpdateMetaEffect, Protected, RowType
<1>5. CASE op = "setSkills"
  BY <1>5, <1>1 DEF Effect, SetInvokedSkillsEffect, Ensured, Protected, RowType
<1>6. CASE op = "delete"
  BY <1>6, NoRowType DEF Effect
<1>7. CASE op = "createTask"
  BY <1>7, <1>1 DEF Effect, CreateTaskEffect, Ensured, Protected, RowType
<1>8. CASE op = "updateTask"
  BY <1>8, <1>1 DEF Effect, UpdateTaskEffect, Protected, RowType
<1>9. CASE op = "deleteTask"
  BY <1>9, <1>1 DEF Effect, RowType
<1>10. QED
  BY <1>2, <1>3, <1>4, <1>5, <1>6, <1>7, <1>8, <1>9 DEF Ops

LEMMA ProtectedNext == ProtectedInv /\ [PNext]_pvars => ProtectedInv'
<1> SUFFICES ASSUME ProtectedInv, [PNext]_pvars
             PROVE  ProtectedInv'
  OBVIOUS
<1> USE DEF ProtectedInv
<1>0. Idle \in Calls /\ Idle.phase = "idle"
  BY DEF Idle, Calls
<1>1. ASSUME NEW c \in Clients, PCreate(c)
      PROVE  ProtectedInv'
  <2>1. CASE inner.exists
    BY <1>1, <2>1 DEF PCreate
  <2>2. CASE ~inner.exists
    <3>1. ActorOf[c] \in Payloads /\ ActorOf[c] # NoActor
      BY ActorsAssumption DEF Payloads, Actors
    <3>2. inner' = [inner EXCEPT !.exists = TRUE, !.owner = ActorOf[c], !.meta = ActorOf[c]]
      BY <1>1, <2>2 DEF PCreate, Protected
    <3>3. inner' \in RowType
      BY <3>1, <3>2 DEF RowType
    <3>4. ~raced => inner.owner = NoActor /\ inner.messages = <<>>
      BY <2>2 DEF BoundRow
    <3>5. ~raced => inner.skills = NoActor /\ inner.task = NoActor
      BY <3>4 DEF BoundRow
    <3>6. ~raced => BoundRow(inner')
      <4>1. /\ inner'.exists = TRUE /\ inner'.owner = ActorOf[c] /\ inner'.meta = ActorOf[c]
            /\ inner'.skills = inner.skills /\ inner'.task = inner.task
            /\ inner'.messages = inner.messages
        BY <3>2 DEF RowType
      <4>2. ~raced => inner'.messages = <<>> /\ DOMAIN inner'.messages = {}
        BY <3>4, <4>1
      <4>3. QED
        BY <3>1, <3>5, <4>1, <4>2 DEF BoundRow
    <3>7. \A d \in Clients : ~raced => client[d] = Idle
      BY <3>4, ActorsAssumption
    <3>8. inner'.exists
      BY <3>2 DEF RowType
    <3>9. QED
      BY <1>1, <3>3, <3>6, <3>7, <3>8 DEF PCreate
  <2>3. QED
    BY <2>1, <2>2
<1>2. ASSUME NEW c \in Clients, NEW op \in Ops, Authorize(c, op)
      PROVE  ProtectedInv'
  <2>1. [phase |-> "authorized", op |-> op] \in Calls
    BY DEF Calls
  <2>2. inner.owner = ActorOf[c]
    BY <1>2 DEF Authorize, DecodesRecord
  <2>3. QED
    BY <1>2, <2>1, <2>2 DEF Authorize
<1>3. ASSUME NEW c \in Clients, ReadTask(c)
      PROVE  ProtectedInv'
  <2>1. [phase |-> "read", op |-> "updateTask"] \in Calls
    BY DEF Calls, Ops
  <2>2. client[c] # Idle
    BY <1>3 DEF ReadTask, Idle
  <2>3. client' \in [Clients -> Calls] /\ \A d \in Clients : client'[d] # Idle => client[d] # Idle
    BY <1>0, <1>3, <2>1, <2>2 DEF ReadTask
  <2>4. UNCHANGED <<inner, raced>>
    BY <1>3 DEF ReadTask
  <2>5. QED
    BY <2>3, <2>4
<1>4. ASSUME NEW c \in Clients, Act(c)
      PROVE  ProtectedInv'
  <2> DEFINE op == client[c].op
  <2>1. /\ inner' = Effect(c, op)
        /\ client' = [client EXCEPT ![c] = Idle]
        /\ raced' = (raced \/ (op = "delete" /\ \E d \in Clients \ {c} : client[d] # Idle))
        /\ client[c].phase \in {"authorized", "read"}
    BY <1>4 DEF Act
  <2>2. client[c] # Idle
    BY <2>1, <1>0
  <2>3. op \in Ops
    BY <2>2 DEF Calls
  <2>4. QED
    <3>1. inner' \in RowType
      BY <2>1, <2>3, EffectType
    <3>2. ASSUME ~raced'
          PROVE  /\ BoundRow(inner')
                 /\ ~inner'.exists => inner'.messages = <<>>
                 /\ \A d \in Clients : client'[d] # Idle => inner'.owner = ActorOf[d]
      <4>1. ~raced /\ (op = "delete" => \A d \in Clients \ {c} : client[d] = Idle)
        BY <2>1, <3>2
      <4>2. inner.owner = ActorOf[c] /\ BoundRow(inner)
        BY <4>1, <2>2
      <4>3. inner.exists
        BY <4>2, ActorsAssumption DEF BoundRow
      <4>4. BoundRow(inner') /\ (op # "delete" => inner'.owner = ActorOf[c] /\ inner'.exists)
        BY <2>1, <2>3, <4>2, <4>3, EffectBound
      <4>5. CASE op = "delete"
        <5>1. inner' = NoRow
          BY <2>1, <4>5 DEF Effect
        <5>2. QED
          BY <5>1, <4>1, <4>4, <4>5, <2>1, NoRowType
      <4>6. CASE op # "delete"
        BY <4>1, <4>2, <4>4, <4>6, <2>1
      <4>7. QED
        BY <4>5, <4>6
    <3>3. client' \in [Clients -> Calls] /\ raced' \in BOOLEAN
      BY <2>1, <1>0
    <3>4. QED
      BY <3>1, <3>2, <3>3
<1>5. CASE UNCHANGED pvars
  BY <1>5 DEF pvars
<1>6. QED
  BY <1>1, <1>2, <1>3, <1>4, <1>5 DEF PNext

\* Operations check the owner in one call of the inner store and act in
\* another. Unless a deletion overlaps them, what a session holds is always
\* bound to its owner, whoever calls what (sessions/protected.go).
THEOREM SessionsStayBound == PSpec => []BoundToOwner
<1>1. ProtectedInv => BoundToOwner
  BY DEF ProtectedInv, BoundRow, BoundToOwner
<1>2. QED
  BY ProtectedInit, ProtectedNext, <1>1, PTL DEF PSpec

-----------------------------------------------------------------------------
\* The records of the tenants

\* Classes whose documents are finished by their tenant.
Finishing == {"execution", "demonstration", "approval", "outbox"}

\* The row of a document of class c, and what its tenant expects of it. The
\* time of a demonstration that still records is that of its last event.
Matches(c, s, m) ==
    /\ DOMAIN s = {"tenant", "group", "status", "since", "gone"}
    /\ DOMAIN m = {"tenant", "group", "status", "at"}
    /\ m.tenant = s.tenant /\ m.group = s.group /\ m.status = s.status
    /\ m.tenant \in Tenants /\ m.group \in Groups /\ m.status \in Phases
    /\ s.since \in Nat /\ m.at \in Nat /\ s.gone \in BOOLEAN
    /\ c # "demonstration" \/ m.status = "done" => m.at = s.since

\* Both adapters hold the document a tenant expects, the table until its purge.
Kept(id) ==
    \/ shelf[id] = {} /\ memory[id] = {} /\ table[id] = {}
    \/ \E s, m : /\ shelf[id] = {s} /\ memory[id] = {m} /\ Matches(class, s, m)
                 /\ table[id] = IF s.gone THEN {} ELSE {m}

\* A save that was not refused has stored what it was called with.
ReplySound ==
    /\ reply.memory = reply.table
    /\ reply.table = "stored" =>
          \A id \in reply.id :
             /\ id \in DocIds
             /\ \E row \in table[id] : {row.tenant} = reply.tenant /\ {row.group} = reply.group

RecordsInv ==
    /\ class \in RecordClasses /\ sealed \in BOOLEAN /\ clock \in Nat
    /\ DOMAIN memory = DocIds /\ DOMAIN table = DocIds /\ DOMAIN shelf = DocIds
    /\ memory = [id \in DocIds |-> memory[id]] /\ table = [id \in DocIds |-> table[id]]
    /\ shelf = [id \in DocIds |-> shelf[id]]
    /\ \A id \in DocIds : Kept(id)
    /\ ReplySound

-----------------------------------------------------------------------------
\* What the adapters are

AdapterFacts(a) ==
    /\ a.memory.duplicate = "replaced" \/ a.memory.duplicate = a.table.duplicate
    /\ a.memory.duplicate = "replaced" <=> class = "approval"
    /\ a.table.duplicate \in {"conflict", "ignored", "same"}
    /\ a.table.duplicate = "ignored" => class = "audit"
    /\ a.table.foreign \in {"denied", "absent", "none"} /\ a.memory.foreign = a.table.foreign
    /\ a.table.decodes \in {"own", "all"}
    /\ \A statuses \in a.table.lists : statuses \subseteq Phases

LEMMA WhatAdaptersAre == class \in RecordClasses => AdapterFacts(Adapters)
<1> USE DEF AdapterFacts, Adapters, Each, Whole, Phases
<1>1. CASE class = "execution"
  BY <1>1 DEF MemoryExecutionStore, executionStore
<1>2. CASE class = "demonstration"
  BY <1>2 DEF MemoryDemonstrations, demonstrationStore
<1>3. CASE class = "approval"
  BY <1>3 DEF MemoryApprovalStore, approvalStore
<1>4. CASE class = "audit"
  BY <1>4 DEF MemoryAudit, auditStore
<1>5. CASE class = "outbox"
  BY <1>5 DEF MemoryOutbox, auditOutbox
<1>6. CASE class = "report"
  BY <1>6 DEF MemoryEvaluations, evaluationStore
<1>7. CASE class = "agent report"
  BY <1>7 DEF MemoryAgentStore, agentEvaluationStore
<1>8. CASE class = "extractor report"
  BY <1>8 DEF MemoryExtractorStore, extractorEvaluationStore
<1>9. CASE class = "feedback"
  BY <1>9 DEF MemoryFeedbackStore, feedbackStore
<1>10. CASE class = "review"
  BY <1>10 DEF MemoryReviewStore, reviewStore
<1>11. QED
  BY <1>1, <1>2, <1>3, <1>4, <1>5, <1>6, <1>7, <1>8, <1>9, <1>10 DEF RecordClasses

-----------------------------------------------------------------------------
\* Steps

LEMMA KeptSame ==
    ASSUME NEW id, Kept(id), class' = class, shelf'[id] = shelf[id],
           memory'[id] = memory[id], table'[id] = table[id]
    PROVE  Kept(id)'
BY DEF Kept

LEMMA KeptNow ==
    ASSUME NEW id, NEW s, NEW m, Matches(class', s, m), shelf'[id] = {s}, memory'[id] = {m},
           table'[id] = IF s.gone THEN {} ELSE {m}
    PROVE  Kept(id)'
BY DEF Kept

LEMMA RecordsInitHolds == RecordsInit => RecordsInv
<1> SUFFICES ASSUME RecordsInit PROVE RecordsInv
  OBVIOUS
<1>1. \A id \in DocIds : Kept(id)
  BY DEF RecordsInit, Kept
<1>2. ReplySound
  BY DEF RecordsInit, ReplySound, NoReply
<1>3. class \in RecordClasses
  BY RecordsAssumption DEF RecordsInit
<1>4. QED
  BY <1>1, <1>2, <1>3 DEF RecordsInit, RecordsInv

LEMMA TimePassesKeeps == RecordsInv /\ TimePasses => RecordsInv'
<1> SUFFICES ASSUME RecordsInv, TimePasses PROVE RecordsInv'
  OBVIOUS
<1>1. UNCHANGED <<class, sealed, memory, table, shelf>> /\ clock' \in Nat
  BY DEF TimePasses, RecordsInv
<1>2. \A id \in DocIds : Kept(id)'
  BY <1>1, KeptSame DEF RecordsInv
<1>3. ReplySound'
  BY DEF TimePasses, ReplySound, NoReply
<1>4. QED
  BY <1>1, <1>2, <1>3 DEF RecordsInv

LEMMA NewDocument ==
    ASSUME RecordsInv, NEW t \in Tenants, NEW id \in DocIds, NEW group \in Groups,
           Save(t, id, group)
    PROVE  RecordsInv'
<1> DEFINE new == [tenant |-> t, group |-> group, status |-> "open", at |-> clock]
           entry == [tenant |-> t, group |-> group, status |-> "open",
                     since |-> clock, gone |-> FALSE]
           ram == Adapters.memory
           tab == Adapters.table
<1>1. /\ ItsOwnId(t, id, group) /\ UNCHANGED <<class, sealed, clock>>
      /\ reply' = [memory |-> Put(ram, memory, id, new), table |-> Put(tab, table, id, new),
                   tenant |-> {t}, id |-> {id}, group |-> {group}]
      /\ memory' = Placed(ram, memory, id, new) /\ table' = Placed(tab, table, id, new)
      /\ shelf' = IF shelf[id] # {} THEN shelf ELSE [shelf EXCEPT ![id] = {entry}]
  BY DEF Save
<1>2. /\ ram.duplicate = "replaced" \/ ram.duplicate = tab.duplicate
      /\ ram.duplicate = "replaced" => class = "approval"
      /\ tab.duplicate \in {"conflict", "ignored", "same"}
      /\ tab.duplicate = "ignored" => class = "audit"
  BY WhatAdaptersAre DEF RecordsInv, AdapterFacts
<1>3. /\ DOMAIN new = {"tenant", "group", "status", "at"} /\ new.tenant = t /\ new.group = group
      /\ new.status = "open" /\ new.at = clock
      /\ DOMAIN entry = {"tenant", "group", "status", "since", "gone"} /\ entry.tenant = t
      /\ entry.group = group /\ entry.status = "open" /\ entry.since = clock /\ entry.gone = FALSE
  OBVIOUS
<1> HIDE DEF new, entry, ram, tab
<1>4. Kept(id) /\ DOMAIN memory = DocIds /\ DOMAIN table = DocIds /\ DOMAIN shelf = DocIds
      /\ memory = [i \in DocIds |-> memory[i]] /\ table = [i \in DocIds |-> table[i]]
      /\ shelf = [i \in DocIds |-> shelf[i]]
  BY DEF RecordsInv
<1>5. CASE shelf[id] = {}
  <2>1. memory[id] = {} /\ table[id] = {}
    BY <1>4, <1>5 DEF Kept
  <2>2. /\ memory' = [memory EXCEPT ![id] = {new}] /\ table' = [table EXCEPT ![id] = {new}]
        /\ shelf' = [shelf EXCEPT ![id] = {entry}]
        /\ reply' = [memory |-> "stored", table |-> "stored",
                     tenant |-> {t}, id |-> {id}, group |-> {group}]
    BY <1>1, <1>5, <2>1 DEF Placed, Put
  <2>3. /\ DOMAIN memory' = DocIds /\ DOMAIN table' = DocIds /\ DOMAIN shelf' = DocIds
        /\ memory' = [i \in DocIds |-> memory'[i]] /\ table' = [i \in DocIds |-> table'[i]]
        /\ shelf' = [i \in DocIds |-> shelf'[i]]
        /\ memory'[id] = {new} /\ table'[id] = {new} /\ shelf'[id] = {entry}
        /\ \A i \in DocIds : i # id =>
              memory'[i] = memory[i] /\ table'[i] = table[i] /\ shelf'[i] = shelf[i]
    BY <1>4, <2>2
  <2>4. Kept(id)'
    <3>1. class' = class /\ clock \in Nat
      BY <1>1 DEF RecordsInv
    <3>2. Matches(class, entry, new)
      BY <1>3, <3>1 DEF Matches, Phases
    <3>3. QED
      BY <1>3, <2>3, <3>1, <3>2, KeptNow
  <2>5. \A i \in DocIds : Kept(i)'
    BY <1>1, <2>3, <2>4, KeptSame DEF RecordsInv
  <2>6. ReplySound'
    BY <1>3, <2>2, <2>3 DEF ReplySound
  <2>7. QED
    BY <1>1, <2>3, <2>5, <2>6 DEF RecordsInv
<1>6. CASE shelf[id] # {}
  <2>1. PICK s, m :
          /\ shelf[id] = {s} /\ memory[id] = {m} /\ m.tenant = s.tenant /\ m.group = s.group
          /\ s.gone \in BOOLEAN /\ table[id] = IF s.gone THEN {} ELSE {m}
    BY <1>4, <1>6 DEF Kept, Matches
  <2>2. /\ table[id] = {m} /\ class # "approval"
        /\ (class = "audit" => s.tenant = t /\ s.group = group)
    BY <1>1, <1>6, <2>1 DEF ItsOwnId
  <2>3. memory' = memory /\ table' = table /\ shelf' = shelf
    BY <1>1, <1>2, <1>6, <2>1, <2>2 DEF Placed
  <2>4. Put(ram, memory, id, new) = Put(tab, table, id, new)
    BY <1>2, <2>1, <2>2 DEF Put
  <2>5. Put(tab, table, id, new) = "stored" => m.tenant = t /\ m.group = group
    <3>1. ASSUME tab.duplicate = "same",
                 \A row \in table[id] : row.tenant = new.tenant /\ row.group = new.group
          PROVE  m.tenant = t /\ m.group = group
      BY <1>3, <2>2, <3>1
    <3>2. CASE tab.duplicate = "ignored"
      BY <1>2, <2>1, <2>2, <3>2
    <3>3. QED
      BY <1>2, <2>2, <3>1, <3>2 DEF Put
  <2>6. ReplySound'
    <3>1. /\ reply'.memory = reply'.table /\ reply'.id = {id} /\ reply'.tenant = {t}
          /\ reply'.group = {group} /\ reply'.table = Put(tab, table, id, new)
      BY <1>1, <2>4
    <3>2. table'[id] = {m}
      BY <2>2, <2>3
    <3>3. QED
      BY <2>5, <3>1, <3>2 DEF ReplySound
  <2>7. \A i \in DocIds : Kept(i)'
    BY <1>1, <2>3, KeptSame DEF RecordsInv
  <2>8. QED
    BY <1>1, <2>3, <2>6, <2>7 DEF RecordsInv
<1>7. QED
  BY <1>5, <1>6

LEMMA ChangedDocument ==
    ASSUME RecordsInv, NEW t \in Tenants, NEW id \in DocIds, NEW status \in Phases, NEW event,
           Change(t, id, status, event)
    PROVE  RecordsInv'
<1>1. PICK m : m \in memory[id] /\ m.status = "open"
  BY DEF Change
<1>2. /\ Kept(id) /\ clock \in Nat /\ DOMAIN memory = DocIds /\ DOMAIN table = DocIds
      /\ DOMAIN shelf = DocIds /\ class \in Finishing /\ event \in 0 .. clock
      /\ UNCHANGED <<class, sealed, clock>>
  BY DEF RecordsInv, Change, Finishing
<1>3. PICK s : /\ shelf[id] = {s} /\ memory[id] = {m} /\ Matches(class, s, m)
               /\ table[id] = IF s.gone THEN {} ELSE {m}
  BY <1>1, <1>2 DEF Kept
<1> DEFINE changed(row) == [row EXCEPT !.status = status, !.at = UpdatedAt(row, status, event)]
           expect(e) == [e EXCEPT !.status = status,
                                  !.since = IF class = "outbox" THEN @ ELSE clock]
           new == changed(m)
           entry == expect(s)
<1>4. /\ memory' = [memory EXCEPT ![id] = {changed(row) : row \in memory[id]}]
      /\ table' = [table EXCEPT ![id] = {changed(row) : row \in table[id]}]
      /\ shelf' = [shelf EXCEPT ![id] = {expect(e) : e \in shelf[id]}]
      /\ reply' = NoReply
  BY DEF Change
<1>5. /\ {changed(row) : row \in memory[id]} = {new} /\ {expect(e) : e \in shelf[id]} = {entry}
      /\ {changed(row) : row \in table[id]} = IF s.gone THEN {} ELSE {new}
  <2> HIDE DEF changed, expect
  <2>1. {changed(row) : row \in {m}} = {changed(m)} /\ {changed(row) : row \in {}} = {}
        /\ {expect(e) : e \in {s}} = {expect(s)}
    OBVIOUS
  <2>2. QED
    BY <1>3, <2>1
<1>6. /\ DOMAIN new = {"tenant", "group", "status", "at"} /\ new.tenant = m.tenant
      /\ new.group = m.group /\ new.status = status /\ new.at = UpdatedAt(m, status, event)
      /\ DOMAIN entry = {"tenant", "group", "status", "since", "gone"} /\ entry.tenant = s.tenant
      /\ entry.group = s.group /\ entry.status = status /\ entry.gone = s.gone
      /\ entry.since = IF class = "outbox" THEN s.since ELSE clock
  BY <1>3 DEF Matches
<1> HIDE DEF changed, expect, new, entry
<1>7. /\ UpdatedAt(m, status, event) \in Nat
      /\ class = "outbox" => UpdatedAt(m, status, event) = s.since
      /\ class # "outbox" /\ (class # "demonstration" \/ status = "done") =>
            UpdatedAt(m, status, event) = clock
  BY <1>2, <1>3 DEF UpdatedAt, Matches, Phases
<1>8. Matches(class', entry, new)
  <2>1. entry.since \in Nat
    BY <1>2, <1>3, <1>6 DEF Matches
  <2>2. class # "demonstration" \/ new.status = "done" => new.at = entry.since
    BY <1>6, <1>7
  <2>3. QED
    BY <1>2, <1>3, <1>6, <1>7, <2>1, <2>2 DEF Matches
<1>9. /\ DOMAIN memory' = DocIds /\ DOMAIN table' = DocIds /\ DOMAIN shelf' = DocIds
      /\ memory' = [i \in DocIds |-> memory'[i]] /\ table' = [i \in DocIds |-> table'[i]]
      /\ shelf' = [i \in DocIds |-> shelf'[i]]
      /\ memory'[id] = {new} /\ shelf'[id] = {entry} /\ table'[id] = IF s.gone THEN {} ELSE {new}
      /\ \A i \in DocIds : i # id =>
            memory'[i] = memory[i] /\ table'[i] = table[i] /\ shelf'[i] = shelf[i]
  BY <1>2, <1>4, <1>5 DEF RecordsInv
<1>10. Kept(id)'
  BY <1>6, <1>8, <1>9, KeptNow
<1>11. \A i \in DocIds : Kept(i)'
  BY <1>2, <1>9, <1>10, KeptSame DEF RecordsInv
<1>12. ReplySound'
  BY <1>4 DEF ReplySound, NoReply
<1>13. QED
  BY <1>2, <1>9, <1>11, <1>12 DEF RecordsInv

LEMMA PurgeKeeps ==
    ASSUME RecordsInv, NEW t \in Tenants, NEW period, PurgeExpired(t, period)
    PROVE  RecordsInv'
<1> DEFINE purged(e) == [e EXCEPT !.gone = TRUE]
           expired == Expired(t, period)
<1>1. /\ UNCHANGED <<class, sealed, clock, memory>> /\ reply' = NoReply
      /\ table' = [id \in DocIds |-> IF id \in expired THEN {} ELSE table[id]]
      /\ shelf' = [id \in DocIds |-> IF id \notin expired THEN shelf[id]
                                     ELSE {purged(e) : e \in shelf[id]}]
  BY DEF PurgeExpired
<1>2. \A id \in expired : table[id] # {}
  BY DEF Expired
<1> HIDE DEF purged, expired
<1>3. /\ DOMAIN table' = DocIds /\ DOMAIN shelf' = DocIds
      /\ table' = [i \in DocIds |-> table'[i]] /\ shelf' = [i \in DocIds |-> shelf'[i]]
      /\ \A i \in DocIds : i \notin expired => table'[i] = table[i] /\ shelf'[i] = shelf[i]
      /\ \A i \in DocIds : i \in expired => table'[i] = {} /\ shelf'[i] = {purged(e) : e \in shelf[i]}
  BY <1>1
<1>4. ASSUME NEW i \in DocIds PROVE Kept(i)'
  <2>1. Kept(i) /\ memory'[i] = memory[i]
    BY <1>1 DEF RecordsInv
  <2>2. CASE i \notin expired
    BY <1>1, <1>3, <2>1, <2>2, KeptSame
  <2>3. CASE i \in expired
    <3>1. PICK s, m : /\ shelf[i] = {s} /\ memory[i] = {m} /\ Matches(class, s, m)
                      /\ table[i] = IF s.gone THEN {} ELSE {m}
      BY <1>2, <2>1, <2>3 DEF Kept
    <3> DEFINE entry == purged(s)
    <3>2. shelf'[i] = {entry}
      <4>1. {purged(e) : e \in {s}} = {purged(s)}
        OBVIOUS
      <4>2. QED
        BY <1>3, <2>3, <3>1, <4>1
    <3>3. /\ DOMAIN entry = {"tenant", "group", "status", "since", "gone"} /\ entry.tenant = s.tenant
          /\ entry.group = s.group /\ entry.status = s.status /\ entry.gone = TRUE
          /\ entry.since = s.since
      BY <3>1 DEF purged, Matches
    <3> HIDE DEF entry
    <3>4. Matches(class', entry, m)
      BY <1>1, <3>1, <3>3 DEF Matches
    <3>5. table'[i] = IF entry.gone THEN {} ELSE {m}
      BY <1>3, <2>3, <3>3
    <3>6. QED
      BY <2>1, <3>1, <3>2, <3>4, <3>5, KeptNow
  <2>4. QED
    BY <2>2, <2>3
<1>5. ReplySound'
  BY <1>1 DEF ReplySound, NoReply
<1>6. QED
  BY <1>1, <1>3, <1>4, <1>5 DEF RecordsInv

LEMMA RecordsNextHolds == RecordsInv /\ [RecordsNext]_recordVars => RecordsInv'
<1> SUFFICES ASSUME RecordsInv, [RecordsNext]_recordVars PROVE RecordsInv'
  OBVIOUS
<1>1. CASE UNCHANGED recordVars
  <2>1. \A id \in DocIds : Kept(id)'
    BY <1>1, KeptSame DEF RecordsInv, recordVars
  <2>2. QED
    BY <1>1, <2>1 DEF RecordsInv, recordVars, ReplySound
<1>2. CASE RecordsNext
  BY <1>2, TimePassesKeeps, NewDocument, ChangedDocument, PurgeKeeps DEF RecordsNext
<1>3. QED
  BY <1>1, <1>2

-----------------------------------------------------------------------------
\* Theorems about the tenants' records

LEMMA RecordsInvHolds == RecordsSpec => []RecordsInv
<1>1. RecordsInv /\ [RecordsNext]_recordVars => RecordsInv'
  BY RecordsNextHolds
<1>2. QED
  BY RecordsInitHolds, <1>1, PTL DEF RecordsSpec

\* A row that disappears was found by a purge of its tenant: it was finished,
\* if its class can be, and older than the period.
LEMMA PurgedIsOld ==
    ASSUME RecordsInv, NEW t \in Tenants, NEW p \in Periods, NEW id \in DocIds,
           NEW row \in table[id], id \in Expired(t, p)
    PROVE  /\ row.tenant = t
           /\ class \in Finishing => row.status = "done"
           /\ \A s \in shelf[id] : clock - s.since > p - 2
<1>1. PICK s, m : /\ shelf[id] = {s} /\ Matches(class, s, m)
                  /\ table[id] = IF s.gone THEN {} ELSE {m}
  BY DEF RecordsInv, Kept
<1>2. row = m
  BY <1>1
<1>3. /\ row.tenant = t /\ (class \in Finishing => row.status = "done")
      /\ Earlier(row.at, clock - p)
  BY <1>1, <1>2 DEF Expired, Finishing
<1>4. row.at = s.since /\ s.since \in Nat
  BY <1>1, <1>2, <1>3 DEF Matches, Finishing
<1>5. clock \in Nat /\ p \in Nat
  BY RecordsAssumption DEF RecordsInv
<1>6. clock - s.since > p - 2
  BY <1>3, <1>4, <1>5 DEF Earlier
<1>7. QED
  BY <1>1, <1>3, <1>6

LEMMA StepKeepsPeriod ==
    ASSUME RecordsInv, [RecordsNext]_recordVars, NEW id \in DocIds, NEW row \in table[id],
           table'[id] = {}
    PROVE  /\ class \in Finishing => row.status = "done"
           /\ \E p \in Periods :
                 PurgeExpired(row.tenant, p) /\ \A s \in shelf[id] : clock - s.since > p - 2
<1>1. table[id] # {} /\ table'[id] # table[id]
  OBVIOUS
<1>2. DOMAIN table = DocIds
  BY DEF RecordsInv
<1>3. ASSUME TimePasses \/ UNCHANGED recordVars
      PROVE  FALSE
  BY <1>1, <1>3 DEF TimePasses, recordVars
<1>4. ASSUME NEW t \in Tenants, NEW i \in DocIds, NEW g \in Groups, Save(t, i, g)
      PROVE  FALSE
  <2> DEFINE new == [tenant |-> t, group |-> g, status |-> "open", at |-> clock]
  <2>1. table' = Placed(Adapters.table, table, i, new)
    BY <1>4 DEF Save
  <2> HIDE DEF new
  <2>2. table' = [table EXCEPT ![i] = {new}] \/ table' = table
    BY <2>1 DEF Placed
  <2>3. QED
    BY <1>1, <1>2, <2>2
<1>5. ASSUME NEW t \in Tenants, NEW i \in DocIds, NEW st \in Phases, NEW e \in 0..MaxClock,
             Change(t, i, st, e)
      PROVE  FALSE
  <2> DEFINE changed(r) == [r EXCEPT !.status = st, !.at = UpdatedAt(r, st, e)]
  <2>1. table' = [table EXCEPT ![i] = {changed(r) : r \in table[i]}]
    BY <1>5 DEF Change
  <2> HIDE DEF changed
  <2>2. QED
    BY <1>1, <1>2, <2>1
<1>6. ASSUME NEW t \in Tenants, NEW p \in Periods, PurgeExpired(t, p)
      PROVE  /\ class \in Finishing => row.status = "done"
             /\ \E q \in Periods :
                   PurgeExpired(row.tenant, q) /\ \A s \in shelf[id] : clock - s.since > q - 2
  <2>1. table' = [i \in DocIds |-> IF i \in Expired(t, p) THEN {} ELSE table[i]]
    BY <1>6 DEF PurgeExpired
  <2>2. id \in Expired(t, p)
    BY <1>1, <2>1
  <2>3. /\ row.tenant = t /\ (class \in Finishing => row.status = "done")
        /\ \A s \in shelf[id] : clock - s.since > p - 2
    BY <2>2, PurgedIsOld
  <2>4. PurgeExpired(row.tenant, p)
    BY <1>6, <2>3 DEF PurgeExpired, Expired
  <2>5. QED
    BY <2>3, <2>4
<1>7. QED
  BY <1>3, <1>4, <1>5, <1>6 DEF RecordsNext

\* A row leaves its table only by a purge of its own tenant, finished, and
\* finished for longer than a period of retention less one second.
THEOREM RetentionIsKept == RecordsSpec => KeptForItsPeriod
<1>1. RecordsInv /\ [RecordsNext]_recordVars =>
        [\A id \in DocIds : \A row \in table[id] : table'[id] = {} =>
          /\ class \in {"execution", "demonstration", "approval", "outbox"} => row.status = "done"
          /\ \E p \in Periods :
                PurgeExpired(row.tenant, p) /\ \A s \in shelf[id] : clock - s.since > p - 2]_recordVars
  BY StepKeepsPeriod DEF Finishing
<1>2. QED
  BY RecordsInvHolds, <1>1, PTL DEF RecordsSpec, KeptForItsPeriod

-----------------------------------------------------------------------------
\* What a tenant reads

\* What a tenant may expect of one document.
ExpectedOf(id, t, purged) ==
    {Seen(id, s) : s \in {q \in shelf[id] : q.tenant = t /\ (q.gone => purged)}}

LEMMA ExpectedOfOne ==
    ASSUME NEW t, NEW id \in DocIds, NEW purged, RecordsInv
    PROVE  {v \in Expect(t, Groups, Phases, purged) : v.id = id} = ExpectedOf(id, t, purged)
<1>1. \A i \in DocIds : \A q \in shelf[i] : q.group \in Groups /\ q.status \in Phases
  BY DEF RecordsInv, Kept, Matches
<1>2. \A i, q : Seen(i, q).id = i
  BY DEF Seen
<1>3. QED
  BY <1>1, <1>2 DEF Expect, ExpectedOf

\* What an adapter finds for a tenant by the id.
LEMMA MemoryGetIsOwn ==
    ASSUME RecordsInv, NEW t \in Tenants, NEW id \in DocIds
    PROVE  Get(Adapters.memory, memory, t, id).found =
              {v \in Expect(t, Groups, Phases, TRUE) : v.id = id}
<1> DEFINE own == ExpectedOf(id, t, TRUE)
           a == Adapters.memory
<1>1. own = {v \in Expect(t, Groups, Phases, TRUE) : v.id = id}
  BY ExpectedOfOne
<1> HIDE DEF a
<1>2. CASE shelf[id] = {} /\ memory[id] = {}
  BY <1>1, <1>2 DEF Get, Answered, ExpectedOf
<1>3. ASSUME NEW s, NEW m, shelf[id] = {s}, memory[id] = {m}, Matches(class, s, m)
      PROVE  Get(a, memory, t, id).found = own
  <2>1. m.tenant = s.tenant /\ Seen(id, m) = Seen(id, s)
    BY <1>3 DEF Matches, Seen
  <2>2. CASE m.tenant = t
    BY <1>3, <2>1, <2>2 DEF Get, Answered, ExpectedOf, TenantAllowed
  <2>3. CASE m.tenant # t
    BY <1>3, <2>1, <2>3 DEF Get, Answered, ExpectedOf, TenantAllowed, Refused
  <2>4. QED
    BY <2>2, <2>3
<1>4. QED
  BY <1>1, <1>2, <1>3 DEF RecordsInv, Kept, a

LEMMA TableGetIsOwn ==
    ASSUME RecordsInv, NEW t \in Tenants, NEW id \in DocIds
    PROVE  TableGet(t, id).found = {v \in Expect(t, Groups, Phases, FALSE) : v.id = id}
<1> DEFINE own == ExpectedOf(id, t, FALSE)
           a == Adapters.table
<1>1. own = {v \in Expect(t, Groups, Phases, FALSE) : v.id = id}
  BY ExpectedOfOne
<1>2. TableGet(t, id) = IF \A row \in table[id] : a.foreign = "absent" \/ Opens(t, row)
                        THEN Get(a, table, t, id) ELSE Refused
  BY DEF TableGet
<1> HIDE DEF a
<1>3. CASE table[id] = {} /\ \A s \in shelf[id] : s.gone = TRUE
  <2>1. {q \in shelf[id] : q.tenant = t /\ (q.gone => FALSE)} = {}
    BY <1>3
  <2>2. own = {}
    BY <2>1 DEF ExpectedOf
  <2>3. TableGet(t, id).found = {}
    BY <1>2, <1>3 DEF Get, Answered
  <2>4. QED
    BY <1>1, <2>2, <2>3
<1>4. ASSUME NEW s, NEW m, shelf[id] = {s}, table[id] = {m}, Matches(class, s, m),
             s.gone = FALSE
      PROVE  TableGet(t, id).found = own
  <2>1. m.tenant = s.tenant /\ Seen(id, m) = Seen(id, s)
    BY <1>4 DEF Matches, Seen
  <2>2. CASE m.tenant = t
    <3>1. TableGet(t, id) = Get(a, table, t, id)
      BY <1>2, <1>4, <2>2 DEF Opens
    <3>2. TableGet(t, id).found = {Seen(id, m)}
      BY <1>4, <2>2, <3>1 DEF Get, Answered, TenantAllowed
    <3>3. {q \in shelf[id] : q.tenant = t /\ (q.gone => FALSE)} = {s}
      BY <1>4, <2>1, <2>2
    <3>4. own = {Seen(id, s)}
      BY <3>3 DEF ExpectedOf
    <3>5. QED
      BY <1>1, <2>1, <3>2, <3>4
  <2>3. CASE m.tenant # t
    BY <1>2, <1>4, <2>1, <2>3 DEF Get, Answered, ExpectedOf, TenantAllowed, Refused
  <2>4. QED
    BY <2>2, <2>3
<1>5. QED
  <2>1. CASE shelf[id] = {} /\ table[id] = {}
    BY <1>1, <1>3, <2>1
  <2>2. ASSUME NEW s, NEW m, shelf[id] = {s}, Matches(class, s, m),
               table[id] = IF s.gone THEN {} ELSE {m}
        PROVE  TableGet(t, id).found = own
    <3>1. s.gone \in BOOLEAN
      BY <2>2 DEF Matches
    <3>2. QED
      BY <1>1, <1>3, <1>4, <2>2, <3>1
  <2>3. QED
    BY <1>1, <2>1, <2>2 DEF RecordsInv, Kept

\* What an adapter lists for a tenant.
LEMMA MemoryListIsOwn ==
    ASSUME RecordsInv, NEW t \in Tenants, NEW groups, NEW statuses
    PROVE  MemoryList(t, groups, statuses) = Answered(Expect(t, groups, statuses, TRUE))
<1> DEFINE found == UNION {{Seen(id, r) : r \in {q \in memory[id] : TenantAllowed(t, q)}} :
                              id \in Selected(memory, groups, statuses)}
           own(id) == {Seen(id, s) : s \in {q \in shelf[id] : q.tenant = t /\ q.group \in groups
                                              /\ q.status \in statuses /\ (q.gone => TRUE)}}
           listed(id) == {Seen(id, r) : r \in {q \in memory[id] : TenantAllowed(t, q)}}
<1>1. \A id \in DocIds : (id \in Selected(memory, groups, statuses) => listed(id) = own(id))
                         /\ (id \notin Selected(memory, groups, statuses) => own(id) = {})
  <2> SUFFICES ASSUME NEW id \in DocIds
               PROVE  /\ id \in Selected(memory, groups, statuses) => listed(id) = own(id)
                      /\ id \notin Selected(memory, groups, statuses) => own(id) = {}
    OBVIOUS
  <2>1. CASE shelf[id] = {} /\ memory[id] = {}
    BY <2>1 DEF Selected
  <2>2. ASSUME NEW s, NEW m, shelf[id] = {s}, memory[id] = {m}, Matches(class, s, m)
        PROVE  /\ id \in Selected(memory, groups, statuses) => listed(id) = own(id)
               /\ id \notin Selected(memory, groups, statuses) => own(id) = {}
    <3>1. m.tenant = s.tenant /\ m.group = s.group /\ m.status = s.status
          /\ Seen(id, m) = Seen(id, s)
      BY <2>2 DEF Matches, Seen
    <3>2. id \in Selected(memory, groups, statuses) <=> s.group \in groups /\ s.status \in statuses
      BY <2>2, <3>1 DEF Selected
    <3>3. QED
      BY <2>2, <3>1, <3>2 DEF TenantAllowed
  <2>3. QED
    BY <2>1, <2>2 DEF RecordsInv, Kept
<1>2. Selected(memory, groups, statuses) \subseteq DocIds
  BY DEF Selected
<1>3. /\ Expect(t, groups, statuses, TRUE) = UNION {own(id) : id \in DocIds}
      /\ found = UNION {listed(id) : id \in Selected(memory, groups, statuses)}
      /\ MemoryList(t, groups, statuses) = Answered(found)
  BY DEF Expect, MemoryList
<1> HIDE DEF own, listed, found
<1>4. found = UNION {own(id) : id \in DocIds}
  <2>1. \A v \in found : v \in UNION {own(id) : id \in DocIds}
    BY <1>1, <1>2, <1>3
  <2>2. \A v \in UNION {own(id) : id \in DocIds} : v \in found
    <3> SUFFICES ASSUME NEW id \in DocIds, NEW v \in own(id) PROVE v \in found
      OBVIOUS
    <3>1. id \in Selected(memory, groups, statuses) /\ v \in listed(id)
      BY <1>1
    <3>2. QED
      BY <1>3, <3>1
  <2>3. QED
    BY <2>1, <2>2
<1>5. QED
  BY <1>3, <1>4

LEMMA TableListIsOwn ==
    ASSUME RecordsInv, NEW t \in Tenants, NEW groups, NEW statuses
    PROVE  \/ TableList(t, groups, statuses) = Answered(Expect(t, groups, statuses, FALSE))
           \/ Adapters.table.decodes = "all" /\ TableList(t, groups, statuses) = Refused
<1> DEFINE sel == Selected(table, groups, statuses)
           rows == UNION {{<<id, r>> : r \in table[id]} : id \in sel}
           mine == {p \in rows : p[2].tenant = t}
           read == IF Adapters.table.decodes = "all" THEN rows ELSE mine
           found == {Seen(p[1], p[2]) : p \in {q \in read : TenantAllowed(t, q[2])}}
           expected == Expect(t, groups, statuses, FALSE)
<1>1. TableList(t, groups, statuses) =
         IF \A p \in read : Opens(t, p[2]) THEN Answered(found) ELSE Refused
  BY DEF TableList
<1>2. Adapters.table.decodes \in {"own", "all"}
  BY WhatAdaptersAre DEF RecordsInv, AdapterFacts
<1>3. Adapters.table.decodes = "own" => \A p \in read : Opens(t, p[2])
  BY DEF Opens
<1>4. {q \in read : TenantAllowed(t, q[2])} = mine
  BY DEF TenantAllowed
<1>5. found = {Seen(p[1], p[2]) : p \in mine}
  BY <1>4
<1>6. \A p \in mine : \E id \in DocIds : \E r \in table[id] :
         p = <<id, r>> /\ p[1] = id /\ p[2] = r /\ r.tenant = t /\ id \in sel
  BY DEF Selected
<1>7. \A id \in sel : \A r \in table[id] : r.tenant = t => <<id, r>> \in mine
  OBVIOUS
<1> HIDE DEF read
<1>8. found = expected
  <2>1. ASSUME NEW v \in found
        PROVE  v \in expected
    <3>1. PICK id \in DocIds : \E r \in table[id] : r.tenant = t /\ id \in sel /\ v = Seen(id, r)
      BY <1>5, <1>6, <2>1
    <3>2. PICK r \in table[id] : r.tenant = t /\ id \in sel /\ v = Seen(id, r)
      BY <3>1
    <3>3. PICK s, m : /\ shelf[id] = {s} /\ Matches(class, s, m)
                      /\ table[id] = IF s.gone THEN {} ELSE {m}
      BY <3>2 DEF RecordsInv, Kept
    <3>4. r = m /\ table[id] = {r} /\ s.gone # TRUE
      BY <3>2, <3>3
    <3>5. r.group \in groups /\ r.status \in statuses
      BY <3>2, <3>4 DEF Selected
    <3>6. /\ s.tenant = t /\ s.group \in groups /\ s.status \in statuses
          /\ (s.gone => FALSE) /\ v = Seen(id, s)
      BY <3>2, <3>3, <3>4, <3>5 DEF Matches, Seen
    <3>7. QED
      BY <3>3, <3>6 DEF Expect
  <2>2. ASSUME NEW v \in expected
        PROVE  v \in found
    <3>1. PICK id \in DocIds : \E s \in shelf[id] :
             /\ s.tenant = t /\ s.group \in groups /\ s.status \in statuses
             /\ ~s.gone /\ v = Seen(id, s)
      BY <2>2 DEF Expect
    <3>2. PICK s, m : /\ shelf[id] = {s} /\ Matches(class, s, m)
                      /\ table[id] = IF s.gone THEN {} ELSE {m}
      BY <3>1 DEF RecordsInv, Kept
    <3>3. /\ s.tenant = t /\ s.group \in groups /\ s.status \in statuses
          /\ ~s.gone /\ v = Seen(id, s)
      BY <3>1, <3>2
    <3>4. m \in table[id] /\ m.tenant = t /\ v = Seen(id, m) /\ id \in sel
      BY <3>2, <3>3 DEF Matches, Seen, Selected
    <3>5. <<id, m>> \in mine /\ Seen(<<id, m>>[1], <<id, m>>[2]) = v
      BY <1>7, <3>4
    <3>6. QED
      BY <1>5, <3>5
  <2>3. QED
    BY <2>1, <2>2
<1>9. QED
  BY <1>1, <1>2, <1>3, <1>8

\* Whatever other tenants store, change or purge, a tenant reads from either
\* adapter what it stored, as it left it, and nothing else; a save that was
\* not refused has stored its document.
THEOREM TenantsAreKeptApart == RecordsSpec => []TenantsSeeTheirOwn
<1>1. RecordsInv => TenantsSeeTheirOwn
  <2> SUFFICES ASSUME RecordsInv PROVE TenantsSeeTheirOwn
    OBVIOUS
  <2>1. \A t \in Tenants, id \in DocIds :
           LET own(purged) == {v \in Expect(t, Groups, Phases, purged) : v.id = id}
           IN  /\ Get(Adapters.memory, memory, t, id).found = own(TRUE)
               /\ TableGet(t, id).found = own(FALSE)
    BY MemoryGetIsOwn, TableGetIsOwn
  <2>2. \A t \in Tenants, groups \in {Groups} \cup {{g} : g \in Groups},
           statuses \in Adapters.table.lists :
          /\ MemoryList(t, groups, statuses) = Answered(Expect(t, groups, statuses, TRUE))
          /\ \/ TableList(t, groups, statuses) = Answered(Expect(t, groups, statuses, FALSE))
             \/ Adapters.table.decodes = "all" /\ TableList(t, groups, statuses) = Refused
    BY MemoryListIsOwn, TableListIsOwn
  <2>3. ReplySound
    BY DEF RecordsInv
  <2>4. QED
    BY <2>1, <2>2, <2>3 DEF TenantsSeeTheirOwn, ReplySound
<1>2. QED
  BY RecordsInvHolds, <1>1, PTL

-----------------------------------------------------------------------------
\* The protection of the database

\* A document in one envelope, or in none.
Wraps == {<<>>} \cup {<<k>> : k \in Keys}

PendingType == [doc : Documents, read : SUBSET Wraps, wraps : Wraps]
ProcType ==
    [at : {"down", "opening", "up"}, protector : BOOLEAN, allow : BOOLEAN, seen : Int,
     pending : SUBSET PendingType]
RingType == [keys : SUBSET Keys, current : Keys]
DbType == [version : Int, applied : SUBSET Int, marked : BOOLEAN]

\* What a process has encoded and not yet written is in an envelope if the
\* process has a protector, and only an open store has encoded something.
PendingSound(p) ==
    \A row \in proc[p].pending : Up(p) /\ (proc[p].protector => row.wraps # <<>>)

\* An open store with a protector has left the marker, which keeps every later
\* store without one from opening.
MarkerLeft(p) == HasProtector(p) => db.marked

StorageType ==
    /\ db \in DbType
    /\ docs \in [Documents -> SUBSET Wraps]
    /\ proc \in [Processes -> ProcType]
    /\ keyring \in [Processes -> RingType]
    /\ migrated \in BOOLEAN

AllProtected == db.marked /\ \A p \in Processes : Up(p) => proc[p].protector

StorageInv ==
    /\ StorageType
    /\ \A p \in Processes : PendingSound(p) /\ MarkerLeft(p)
    /\ migrated => AllProtected
    /\ NoPlaintextLeft

LEMMA DownType == Down \in ProcType /\ Down.at = "down" /\ Down.pending = {}
  BY DEF Down, ProcType

LEMMA StorageInitHolds == StorageInit => StorageInv
<1> SUFFICES ASSUME StorageInit
             PROVE  StorageInv
  OBVIOUS
<1>1. PICK k \in Keys : keyring = [p \in Processes |-> FirstKey(k)]
  BY DEF StorageInit
<1>2. FirstKey(k) \in RingType
  BY DEF FirstKey, RingType
<1>3. db \in DbType /\ docs \in [Documents -> SUBSET Wraps] /\ migrated = FALSE
  BY DEF StorageInit, DbType
<1>4. proc = [p \in Processes |-> Down]
  BY DEF StorageInit
<1>5. \A p \in Processes : PendingSound(p) /\ MarkerLeft(p)
  BY <1>4, DownType DEF PendingSound, MarkerLeft, HasProtector, Up
<1>6. StorageType
  BY <1>1, <1>2, <1>3, <1>4, DownType DEF StorageType
<1>7. QED
  BY <1>3, <1>5, <1>6 DEF StorageInv, NoPlaintextLeft

\* A step of one process that writes no document.
LEMMA ProcessMoves ==
    ASSUME StorageInv, NEW p \in Processes, NEW r \in ProcType, proc' = [proc EXCEPT ![p] = r],
           UNCHANGED <<docs, migrated>>, keyring' \in [Processes -> RingType],
           db' \in DbType, db.marked => db'.marked,
           r.at = "up" /\ r.protector => db'.marked,
           r.at = "up" /\ migrated => r.protector,
           \A row \in r.pending : r.at = "up" /\ (r.protector => row.wraps # <<>>)
    PROVE  StorageInv'
<1>1. \A q \in Processes : proc'[q] = IF q = p THEN r ELSE proc[q]
  BY DEF StorageInv, StorageType
<1>2. StorageType'
  BY DEF StorageInv, StorageType
<1>3. \A q \in Processes : PendingSound(q)' /\ MarkerLeft(q)'
  BY <1>1 DEF StorageInv, PendingSound, MarkerLeft, HasProtector, Up
<1>4. migrated' => AllProtected'
  BY <1>1 DEF StorageInv, AllProtected, Up
<1>5. NoPlaintextLeft'
  BY DEF StorageInv, NoPlaintextLeft
<1>6. QED
  BY <1>2, <1>3, <1>4, <1>5 DEF StorageInv

LEMMA OpenKeeps ==
    ASSUME StorageInv, NEW p \in Processes, NEW protector \in BOOLEAN, NEW allow \in BOOLEAN,
           Open(p, protector, allow)
    PROVE  StorageInv'
<1> DEFINE r == [Down EXCEPT !.at = "opening", !.protector = protector,
                             !.allow = allow, !.seen = db.version]
<1>1. r \in ProcType /\ r.at = "opening" /\ r.pending = {}
  BY DEF StorageInv, StorageType, DbType, Down, ProcType
<1>2. proc' = [proc EXCEPT ![p] = r] /\ UNCHANGED <<db, docs, keyring, migrated>>
  BY DEF Open
<1> HIDE DEF r
<1>3. QED
  BY <1>1, <1>2, ProcessMoves DEF StorageInv, StorageType

LEMMA StopKeeps ==
    ASSUME StorageInv, NEW p \in Processes, proc' = [proc EXCEPT ![p] = Down],
           UNCHANGED <<db, docs, keyring, migrated>>
    PROVE  StorageInv'
BY DownType, ProcessMoves DEF StorageInv, StorageType

LEMMA MigrateKeeps ==
    ASSUME StorageInv, NEW p \in Processes, Migrate(p)
    PROVE  StorageInv'
<1> DEFINE n == proc[p].seen + 1
           r == [proc[p] EXCEPT !.seen = n]
<1>1. proc[p] \in ProcType /\ proc[p].at = "opening" /\ PendingSound(p)
  BY DEF StorageInv, StorageType, Migrate
<1>2. n \in Int
  BY <1>1 DEF ProcType
<1>3. r \in ProcType /\ r.at = "opening" /\ r.pending = {}
  BY <1>1, <1>2 DEF ProcType, PendingSound, Up
<1>4. db' = [db EXCEPT !.version = n, !.applied = db.applied \cup {n}]
  BY DEF Migrate
<1>5. db' \in DbType /\ db'.marked = db.marked
  BY <1>2, <1>4 DEF StorageInv, StorageType, DbType
<1>6. proc' = [proc EXCEPT ![p] = r] /\ UNCHANGED <<docs, keyring, migrated>>
  BY DEF Migrate
<1> HIDE DEF r
<1>7. QED
  BY <1>3, <1>5, <1>6, ProcessMoves DEF StorageInv, StorageType

\* A store without a protector does not open a marked database, and one with a
\* protector marks it.
LEMMA ConfigureProtectionKeeps ==
    ASSUME StorageInv, NEW p \in Processes, ConfigureProtection(p)
    PROVE  StorageInv'
<1>1. proc[p] \in ProcType /\ PendingSound(p) /\ proc[p].at = "opening" /\ db \in DbType
  BY DEF StorageInv, StorageType, ConfigureProtection
<1>2. db' = [db EXCEPT !.marked = db.marked \/ proc[p].protector]
  BY DEF ConfigureProtection
<1>3. db' \in DbType /\ (db'.marked <=> db.marked \/ proc[p].protector)
  <2>1. (db.marked \/ proc[p].protector) \in BOOLEAN
    OBVIOUS
  <2>2. \A b \in BOOLEAN : LET e == [db EXCEPT !.marked = b] IN e \in DbType /\ e.marked = b
    BY <1>1 DEF DbType
  <2>3. QED
    BY <1>2, <2>1, <2>2
<1>4. UNCHANGED <<docs, keyring, migrated>>
  BY DEF ConfigureProtection
<1>5. CASE RefusesMarked(p)
  <2>1. proc' = [proc EXCEPT ![p] = Down]
    BY <1>5 DEF ConfigureProtection
  <2>2. QED
    BY <2>1, <1>3, <1>4, DownType, ProcessMoves DEF StorageInv, StorageType
<1>6. CASE ~RefusesMarked(p)
  <2> DEFINE r == [proc[p] EXCEPT !.at = "up"]
  <2>1. proc' = [proc EXCEPT ![p] = r]
    BY <1>6 DEF ConfigureProtection
  <2>2. r \in ProcType /\ r.at = "up" /\ r.pending = {} /\ r.protector = proc[p].protector
    BY <1>1 DEF ProcType, PendingSound, Up
  <2>3. migrated => r.protector
    BY <2>2, <1>6 DEF RefusesMarked, StorageInv, AllProtected
  <2> HIDE DEF r
  <2>4. QED
    BY <2>1, <2>2, <2>3, <1>3, <1>4, ProcessMoves DEF StorageInv, StorageType
<1>7. QED
  BY <1>5, <1>6

-----------------------------------------------------------------------------
\* Documents

LEMMA MarshalSound ==
    ASSUME StorageInv, NEW p \in Processes
    PROVE  Marshal(p) \in Wraps /\ (proc[p].protector => Marshal(p) # <<>>)
<1>1. keyring[p].current \in Keys
  BY DEF StorageInv, StorageType, RingType
<1>2. QED
  BY <1>1 DEF Marshal, Wraps

LEMMA EncodeKeeps ==
    ASSUME StorageInv, NEW p \in Processes, Up(p), NEW d \in Documents,
           NEW read \in SUBSET Wraps,
           proc' = [proc EXCEPT ![p].pending = {[doc |-> d, read |-> read, wraps |-> Marshal(p)]}],
           UNCHANGED <<db, docs, keyring, migrated>>
    PROVE  StorageInv'
<1> DEFINE row == [doc |-> d, read |-> read, wraps |-> Marshal(p)]
           r == [proc[p] EXCEPT !.pending = {row}]
<1>1. proc[p] \in ProcType /\ proc[p].at = "up" /\ MarkerLeft(p)
  BY DEF StorageInv, StorageType, Up
<1>2. row \in PendingType /\ (proc[p].protector => row.wraps # <<>>)
  BY MarshalSound DEF PendingType
<1> HIDE DEF row
<1>3. /\ r \in ProcType /\ r.at = "up" /\ r.pending = {row}
      /\ r.protector = proc[p].protector
  BY <1>1, <1>2 DEF ProcType
<1>4. proc' = [proc EXCEPT ![p] = r]
  BY DEF row
<1>5. migrated => r.protector
  BY <1>1, <1>3 DEF StorageInv, AllProtected, Up
<1>6. r.protector => db.marked
  BY <1>1, <1>3 DEF MarkerLeft, HasProtector, Up
<1>7. \A x \in r.pending : r.at = "up" /\ (r.protector => x.wraps # <<>>)
  BY <1>2, <1>3
<1>8. db' \in DbType /\ keyring' \in [Processes -> RingType] /\ db'.marked = db.marked
  BY DEF StorageInv, StorageType
<1> HIDE DEF r
<1>9. QED
  BY <1>3, <1>4, <1>5, <1>6, <1>7, <1>8, ProcessMoves

\* A step that writes documents and leaves the stores as they are.
LEMMA DocumentsWritten ==
    ASSUME StorageInv, docs' \in [Documents -> SUBSET Wraps], UNCHANGED <<db, proc>>,
           keyring' \in [Processes -> RingType],
           migrated' \in BOOLEAN, migrated' => AllProtected,
           migrated' => \A d \in Documents : <<>> \notin docs'[d]
    PROVE  StorageInv'
<1>1. StorageType'
  BY DEF StorageInv, StorageType
<1>2. \A q \in Processes : PendingSound(q)' /\ MarkerLeft(q)'
  BY DEF StorageInv, PendingSound, MarkerLeft, HasProtector, Up
<1>3. migrated' => AllProtected'
  BY DEF AllProtected, Up
<1>4. NoPlaintextLeft'
  BY DEF NoPlaintextLeft
<1>5. QED
  BY <1>1, <1>2, <1>3, <1>4 DEF StorageInv

\* A row that was encoded before the migration and is written after it comes
\* from a store that was open then, and had its protector.
LEMMA CommitKeeps ==
    ASSUME StorageInv, NEW p \in Processes, Commit(p)
    PROVE  StorageInv'
<1>1. PICK row \in proc[p].pending :
         /\ docs' = IF docs[row.doc] = row.read THEN [docs EXCEPT ![row.doc] = {row.wraps}]
                                                ELSE docs
         /\ proc' = [proc EXCEPT ![p].pending = {}]
         /\ UNCHANGED <<db, keyring, gone, migrated>>
  BY DEF Commit
<1> DEFINE r == [proc[p] EXCEPT !.pending = {}]
<1>2. proc[p] \in ProcType /\ PendingSound(p) /\ MarkerLeft(p)
  BY DEF StorageInv, StorageType
<1>3. row \in PendingType /\ proc[p].at = "up" /\ (proc[p].protector => row.wraps # <<>>)
  BY <1>1, <1>2 DEF ProcType, PendingSound, Up
<1>4. docs' \in [Documents -> SUBSET Wraps]
  BY <1>1, <1>3 DEF StorageInv, StorageType, PendingType
<1>5. migrated => proc[p].protector
  BY <1>3 DEF StorageInv, AllProtected, Up
<1>6. migrated' => \A d \in Documents : <<>> \notin docs'[d]
  BY <1>1, <1>3, <1>5 DEF StorageInv, StorageType, NoPlaintextLeft
<1>7. \A q \in Processes : proc'[q] = IF q = p THEN r ELSE proc[q]
  BY <1>1 DEF StorageInv, StorageType
<1>8. r \in ProcType /\ r.at = proc[p].at /\ r.pending = {} /\ r.protector = proc[p].protector
  BY <1>2 DEF ProcType
<1>9. proc' = [proc EXCEPT ![p] = r]
  BY <1>1
<1> HIDE DEF r
<1>10. StorageType'
  BY <1>1, <1>4, <1>8, <1>9 DEF StorageInv, StorageType
<1>11. \A q \in Processes : PendingSound(q)' /\ MarkerLeft(q)'
  BY <1>1, <1>7, <1>8 DEF StorageInv, PendingSound, MarkerLeft, HasProtector, Up
<1>12. migrated' => AllProtected'
  BY <1>1, <1>7, <1>8 DEF StorageInv, AllProtected, Up
<1>13. QED
  BY <1>6, <1>10, <1>11, <1>12 DEF StorageInv, NoPlaintextLeft

LEMMA ProtectKeeps ==
    ASSUME StorageInv, NEW p \in Processes, ProtectExistingDocuments(p)
    PROVE  StorageInv'
<1>1. keyring[p].current \in Keys
  BY DEF StorageInv, StorageType, RingType
<1>2. \A wraps \in Wraps : ProtectedForm(p, wraps) \in Wraps \ {<<>>}
  BY <1>1 DEF ProtectedForm, Wraps
<1>3. /\ docs' = [d \in Documents |-> {ProtectedForm(p, wraps) : wraps \in docs[d]}]
      /\ migrated' = (migrated \/ \A q \in Processes : Up(q) => HasProtector(q))
      /\ HasProtector(p) /\ UNCHANGED <<db, proc, keyring>>
  BY DEF ProtectExistingDocuments
<1>4. \A d \in Documents : docs[d] \subseteq Wraps
  BY DEF StorageInv, StorageType
<1>5. \A d \in Documents : docs'[d] \subseteq Wraps /\ <<>> \notin docs'[d]
  BY <1>2, <1>3, <1>4
<1>6. docs' \in [Documents -> SUBSET Wraps]
  BY <1>3, <1>5
<1>7. migrated' \in BOOLEAN
  BY <1>3 DEF StorageInv, StorageType
<1>8. migrated' => AllProtected
  BY <1>3 DEF StorageInv, AllProtected, HasProtector, MarkerLeft
<1>9. QED
  BY <1>3, <1>5, <1>6, <1>7, <1>8, DocumentsWritten DEF StorageInv, StorageType

LEMMA RotateDocumentsKeeps ==
    ASSUME StorageInv, NEW p \in Processes, RotateProtectedDocuments(p)
    PROVE  StorageInv'
<1>1. keyring[p].current \in Keys
  BY DEF StorageInv, StorageType, RingType
<1> DEFINE Again(wraps) == <<keyring[p].current>> \o Tail(wraps)
<1>2. \A wraps \in Wraps \ {<<>>} : Again(wraps) = <<keyring[p].current>>
  <2> SUFFICES ASSUME NEW k \in Keys
               PROVE  Again(<<k>>) = <<keyring[p].current>>
    BY DEF Wraps
  <2>1. Tail(<<k>>) = <<>>
    OBVIOUS
  <2>2. QED
    BY <2>1
<1>3. /\ docs' = [d \in Documents |-> {Again(wraps) : wraps \in docs[d]}]
      /\ \A d \in Documents : \A wraps \in docs[d] : wraps # <<>>
      /\ UNCHANGED <<db, proc, keyring, migrated>>
  BY DEF RotateProtectedDocuments
<1>4. \A d \in Documents : docs[d] \subseteq Wraps \ {<<>>}
  BY <1>3 DEF StorageInv, StorageType
<1> HIDE DEF Again
<1>5. \A d \in Documents : docs'[d] \subseteq {<<keyring[p].current>>}
  BY <1>2, <1>3, <1>4
<1>6. <<keyring[p].current>> \in Wraps \ {<<>>}
  BY <1>1 DEF Wraps
<1>7. docs' \in [Documents -> SUBSET Wraps]
  BY <1>3, <1>5, <1>6
<1>8. \A d \in Documents : <<>> \notin docs'[d]
  BY <1>5, <1>6
<1>9. QED
  BY <1>3, <1>7, <1>8, DocumentsWritten DEF StorageInv, StorageType

LEMMA KeysKeep ==
    ASSUME StorageInv,
           \/ \E p \in Processes, k \in Keys : Rotate(p, k)
           \/ \E k \in Keys : Retire(k)
    PROVE  StorageInv'
<1>1. keyring' \in [Processes -> RingType] /\ UNCHANGED <<db, docs, proc, migrated>>
  <2>1. ASSUME NEW p \in Processes, NEW k \in Keys, Rotate(p, k)
        PROVE  keyring' \in [Processes -> RingType] /\ UNCHANGED <<db, docs, proc, migrated>>
    <3>1. keyring' = [keyring EXCEPT ![p].keys = keyring[p].keys \cup {k}, ![p].current = k]
      BY <2>1 DEF Rotate
    <3>2. keyring \in [Processes -> RingType]
      BY DEF StorageInv, StorageType
    <3>3. QED
      BY <2>1, <3>1, <3>2 DEF Rotate, RingType
  <2>2. ASSUME NEW k \in Keys, Retire(k)
        PROVE  keyring' \in [Processes -> RingType] /\ UNCHANGED <<db, docs, proc, migrated>>
    BY <2>2 DEF Retire, StorageInv, StorageType, RingType
  <2>3. QED
    BY <2>1, <2>2
<1>2. QED
  BY <1>1, DocumentsWritten DEF StorageInv, StorageType, NoPlaintextLeft

-----------------------------------------------------------------------------
LEMMA StorageNextHolds == StorageInv /\ [StorageNext]_storageVars => StorageInv'
<1> SUFFICES ASSUME StorageInv, [StorageNext]_storageVars
             PROVE  StorageInv'
  OBVIOUS
<1>1. ASSUME NEW p \in Processes,
             \/ \E protector, allow \in BOOLEAN : Open(p, protector, allow)
             \/ Migrate(p) \/ MigrationFails(p) \/ ConfigureProtection(p) \/ Stop(p)
      PROVE  StorageInv'
  BY <1>1, OpenKeeps, MigrateKeeps, ConfigureProtectionKeeps, StopKeeps DEF MigrationFails, Stop
<1>2. ASSUME NEW p \in Processes, NEW d \in Documents, EncodeInsert(p, d) \/ EncodeUpdate(p, d)
      PROVE  StorageInv'
  <2>1. CASE EncodeInsert(p, d)
    BY <2>1, EncodeKeeps DEF EncodeInsert
  <2>2. CASE EncodeUpdate(p, d)
    <3>1. PICK wraps \in docs[d] :
             proc' = [proc EXCEPT ![p].pending =
                         {[doc |-> d, read |-> {wraps}, wraps |-> Marshal(p)]}]
      BY <2>2 DEF EncodeUpdate
    <3>2. {wraps} \in SUBSET Wraps
      BY <3>1 DEF StorageInv, StorageType
    <3>3. QED
      BY <2>2, <3>1, <3>2, EncodeKeeps DEF EncodeUpdate
  <2>3. QED
    BY <1>2, <2>1, <2>2
<1>3. ASSUME NEW p \in Processes,
             Commit(p) \/ ProtectExistingDocuments(p) \/ RotateProtectedDocuments(p)
      PROVE  StorageInv'
  BY <1>3, CommitKeeps, ProtectKeeps, RotateDocumentsKeeps
<1>4. CASE \/ \E p \in Processes, k \in Keys : Rotate(p, k)
           \/ \E k \in Keys : Retire(k)
  BY <1>4, KeysKeep
<1>5. CASE UNCHANGED storageVars
  BY <1>5 DEF storageVars, StorageInv, StorageType, PendingSound, MarkerLeft, HasProtector, Up,
      AllProtected, NoPlaintextLeft
<1>6. QED
  BY <1>1, <1>2, <1>3, <1>4, <1>5 DEF StorageNext

\* Whatever mixture of openings, migrations, rotations and writers with other
\* keys handles a database, no document is in two envelopes; and none is in
\* plaintext after a migration made while every open store had its protector,
\* documents encoded before it and written after it included
\* (storage/sqlite/protection_migration.go, store.go configureProtection).
THEOREM EnvelopesStayWhole == StorageSpec => []EnvelopesWhole
<1>1. StorageInv => EnvelopesWhole
  <2>1. ASSUME NEW wraps \in Wraps
        PROVE  Len(wraps) <= 1
    <3>1. CASE wraps = <<>>
      <4>1. Len(wraps) = 0
        BY <3>1
      <4>2. QED
        BY <4>1
    <3>2. CASE wraps # <<>>
      <4>1. PICK k \in Keys : wraps = <<k>>
        BY <3>2 DEF Wraps
      <4>2. Len(<<k>>) = 1
        OBVIOUS
      <4>3. QED
        BY <4>1, <4>2
    <3>3. QED
      BY <3>1, <3>2
  <2>2. QED
    BY <2>1 DEF StorageInv, StorageType, EnvelopesWhole, SingleEnvelope
<1>2. QED
  BY StorageInitHolds, StorageNextHolds, <1>1, PTL DEF StorageSpec

-----------------------------------------------------------------------------
\* Redaction. A path, then what is under it.

LEMMA PrefixIs ==
    ASSUME NEW p, NEW q, IsPath(p), IsPath(q)
    PROVE  IsPrefix(p, q) <=> Len(p) <= Len(q) /\ \A k \in 1..Len(p) : p[k] = q[k]
<1>1. Len(p) \in Nat /\ Len(q) \in Nat
  BY DEF IsPath
<1>2. SubSeq(p, 1, Len(p)) = [k \in 1..Len(p) |-> p[k]]
  BY DEF IsPath
<1>3. Len(p) <= Len(q) => SubSeq(q, 1, Len(p)) = [k \in 1..Len(p) |-> q[k]]
  BY <1>1 DEF IsPath
<1>4. QED
  BY <1>2, <1>3 DEF IsPrefix

LEMMA PrefixOrder ==
    ASSUME NEW p, NEW q, NEW r, IsPath(p), IsPath(q), IsPath(r)
    PROVE  /\ IsPrefix(p, p)
           /\ IsPrefix(p, q) /\ IsPrefix(q, r) => IsPrefix(p, r)
           /\ IsPrefix(p, q) /\ Len(p) = Len(q) => p = q
           /\ IsPrefix(p, q) /\ IsPrefix(q, p) => p = q
<1>1. Len(p) \in Nat /\ Len(q) \in Nat /\ Len(r) \in Nat
  BY DEF IsPath
<1>2. Len(p) = Len(q) /\ (\A k \in 1..Len(p) : p[k] = q[k]) => p = q
  BY DEF IsPath
<1>3. QED
  BY <1>1, <1>2, PrefixIs

\* What a set R of rules leaves of a payload, in whatever order they are applied.

Paths(tree) == {n.path : n \in tree}
HitBy(R, tree) == UNION {Hits(r, tree) : r \in R}
Drops(R) == {r \in R : r.action = "drop"}

\* Under a hit, or hit itself.
UnderHit(R, tree, path) == \E p \in HitBy(R, tree) : IsPrefix(p, path)

\* A mask stays where no rule drops the value and none hits above it.
MaskStays(R, tree, path) ==
    /\ path \in HitBy(R, tree) /\ path \notin HitBy(Drops(R), tree)
    /\ \A p \in HitBy(R, tree) : IsPrefix(p, path) => p = path

Redacted(R, tree) ==
    {n \in tree : ~UnderHit(R, tree, n.path)}
        \cup {[path |-> p, kind |-> "masked"] : p \in {q \in Paths(tree) : MaskStays(R, tree, q)}}

LEMMA HitsArePaths ==
    ASSUME NEW tree, NEW r \in Rules
    PROVE  Hits(r, tree) \subseteq Paths(tree)
BY DEF Hits, Paths

\* The paths of what is left.
LEMMA RedactedPaths ==
    ASSUME NEW R \in SUBSET Rules, NEW tree, NEW path
    PROVE  path \in Paths(Redacted(R, tree)) <=>
              path \in Paths(tree) /\ (UnderHit(R, tree, path) => MaskStays(R, tree, path))
<1>1. ASSUME path \in Paths(Redacted(R, tree))
      PROVE  path \in Paths(tree) /\ (UnderHit(R, tree, path) => MaskStays(R, tree, path))
  BY <1>1 DEF Paths, Redacted
<1>2. ASSUME path \in Paths(tree), MaskStays(R, tree, path)
      PROVE  path \in Paths(Redacted(R, tree))
  <2>1. [path |-> path, kind |-> "masked"] \in Redacted(R, tree)
    BY <1>2 DEF Redacted
  <2>2. QED
    BY <2>1 DEF Paths
<1>3. ASSUME path \in Paths(tree), ~UnderHit(R, tree, path)
      PROVE  path \in Paths(Redacted(R, tree))
  BY <1>3 DEF Paths, Redacted
<1>4. QED
  BY <1>1, <1>2, <1>3

\* A rule hits of what is left what it hit before.
LEMMA HitsOfRedacted ==
    ASSUME NEW R \in SUBSET Rules, NEW tree, IsPayload(tree), NEW r \in Rules
    PROVE  Hits(r, Redacted(R, tree)) = Hits(r, tree) \cap Paths(Redacted(R, tree))
<1> DEFINE x == Redacted(R, tree)
<1>1. Paths(x) \subseteq Paths(tree)
  BY RedactedPaths
<1>2. CASE ~r.star
  BY <1>1, <1>2 DEF Hits, Paths
<1>3. CASE r.star /\ Len(r.path) = 1
  BY <1>1, <1>3 DEF Hits, Paths
<1>4. CASE r.star /\ Len(r.path) # 1
  <2> DEFINE object == [path |-> r.path, kind |-> "object"]
  <2>1. object \in x => object \in tree
    BY DEF Redacted
  <2>2. CASE object \in x
    BY <1>1, <1>4, <2>1, <2>2 DEF Hits, Paths
  <2>3. CASE object \notin tree
    BY <1>4, <2>1, <2>3 DEF Hits
  <2>4. CASE object \in tree /\ object \notin x
    <3>1. UnderHit(R, tree, r.path)
      <4>1. object.path = r.path
        OBVIOUS
      <4>2. QED
        BY <2>4, <4>1 DEF Redacted
    <3>2. PICK h \in HitBy(R, tree) : IsPrefix(h, r.path)
      BY <3>1 DEF UnderHit
    <3>3. Hits(r, x) = {}
      BY <1>4, <2>4 DEF Hits
    <3>4. ASSUME NEW p \in Hits(r, tree), p \in Paths(x) PROVE FALSE
      <4>1. p \in Paths(tree) /\ IsPrefix(r.path, p) /\ Len(p) = Len(r.path) + 1
        BY <1>4, <3>4 DEF Hits, Paths
      <4>2. h \in Paths(tree)
        BY HitsArePaths DEF HitBy
      <4>3. IsPath(p) /\ IsPath(h) /\ IsPath(r.path)
        BY <4>1, <4>2, RulesAssumption DEF IsPayload, Paths
      <4>4. IsPrefix(h, p) /\ h # p
        <5>1. IsPrefix(h, p)
          BY <3>2, <4>1, <4>3, PrefixOrder
        <5>2. Len(h) <= Len(r.path) /\ Len(h) \in Nat /\ Len(r.path) \in Nat
          BY <3>2, <4>3 DEF IsPrefix, IsPath
        <5>3. QED
          BY <5>1, <5>2, <4>1
      <4>5. UnderHit(R, tree, p) /\ ~MaskStays(R, tree, p)
        BY <4>4 DEF UnderHit, MaskStays
      <4>6. QED
        BY <3>4, <4>5, RedactedPaths
    <3>5. QED
      BY <3>3, <3>4
  <2>5. QED
    BY <2>2, <2>3, <2>4
<1>5. QED
  BY <1>2, <1>3, <1>4

\* The hits of one rule are equally long.
LEMMA HitsAreEqual ==
    ASSUME NEW tree, NEW r \in Rules, NEW p \in Hits(r, tree), NEW q \in Hits(r, tree),
           IsPayload(tree), IsPrefix(p, q)
    PROVE  p = q
<1>1. p \in Paths(tree) /\ q \in Paths(tree)
  BY HitsArePaths
<1>2. IsPath(p) /\ IsPath(q)
  BY <1>1 DEF IsPayload, Paths
<1>3. Len(p) = Len(q)
  BY DEF Hits
<1>4. QED
  BY <1>2, <1>3, PrefixOrder

\* One rule more, applied to what the others have left.
LEMMA RedactedByOneMore ==
    ASSUME NEW R \in SUBSET Rules, NEW r \in Rules, NEW tree, IsPayload(tree)
    PROVE  ApplyRedaction(Redacted(R, tree), r) = Redacted(R \cup {r}, tree)
<1> DEFINE x == Redacted(R, tree)
           hits == Hits(r, x)
           All == R \cup {r}
<1>1. \A p \in Paths(tree) : IsPath(p)
  BY DEF IsPayload, Paths
<1>2. Paths(x) \subseteq Paths(tree) /\ HitBy(R, tree) \subseteq Paths(tree)
      /\ Hits(r, tree) \subseteq Paths(tree)
  BY RedactedPaths, HitsArePaths DEF HitBy
<1>3. HitBy(All, tree) = HitBy(R, tree) \cup Hits(r, tree)
  BY DEF HitBy
<1>4. hits = Hits(r, tree) \cap Paths(x)
  BY HitsOfRedacted
<1>5. \A p \in Paths(tree) : IsPrefix(p, p)
  BY <1>1, PrefixOrder
<1>t. \A p, q, o \in Paths(tree) : IsPrefix(p, q) /\ IsPrefix(q, o) => IsPrefix(p, o)
  BY <1>1, PrefixOrder
<1>a. \A p, q \in Paths(tree) : IsPrefix(p, q) /\ IsPrefix(q, p) => p = q
  BY <1>1, PrefixOrder
<1>6. \A p \in Paths(tree) : ~UnderHit(R, tree, p) => p \in Paths(x)
  BY RedactedPaths
<1>7. ASSUME NEW n \in tree, ~UnderHit(R, tree, n.path)
      PROVE  (\E p \in hits : IsPrefix(p, n.path)) <=> UnderHit(All, tree, n.path)
  <2>1. ASSUME NEW p \in Hits(r, tree), IsPrefix(p, n.path) PROVE p \in hits
    <3>1. ~UnderHit(R, tree, p)
      <4>1. ASSUME NEW q \in HitBy(R, tree), IsPrefix(q, p) PROVE FALSE
        <5>1. q \in Paths(tree) /\ p \in Paths(tree) /\ n.path \in Paths(tree)
          BY <1>2, <2>1 DEF Paths
        <5>2. IsPrefix(q, n.path)
          BY <4>1, <2>1, <5>1, <1>t
        <5>3. QED
          BY <5>2, <1>7 DEF UnderHit
      <4>2. QED
        BY <4>1 DEF UnderHit
    <3>2. QED
      BY <3>1, <1>2, <1>4, <1>6, <2>1
  <2>2. QED
    BY <2>1, <1>3, <1>4, <1>7 DEF UnderHit
<1>8. ASSUME NEW p \in Paths(tree)
      PROVE  MaskStays(All, tree, p) <=>
                \/ MaskStays(R, tree, p) /\ ~\E h \in hits : IsPrefix(h, p)
                \/ r.action = "mask" /\ p \in hits
  <2>1. r.action = "mask" => HitBy(Drops(All), tree) = HitBy(Drops(R), tree)
    BY DEF HitBy, Drops
  <2>2. r.action = "drop" => HitBy(Drops(All), tree) = HitBy(Drops(R), tree) \cup Hits(r, tree)
    BY DEF HitBy, Drops
  <2>3. HitBy(Drops(R), tree) \subseteq HitBy(R, tree)
    BY DEF HitBy, Drops
  <2>4. ASSUME MaskStays(R, tree, p), ~\E h \in hits : IsPrefix(h, p) PROVE MaskStays(All, tree, p)
    <3>1. ASSUME NEW h \in Hits(r, tree), IsPrefix(h, p) PROVE FALSE
      <4>1. h \notin Paths(x) /\ h \in Paths(tree)
        BY <2>4, <3>1, <1>2, <1>4
      <4>2. UnderHit(R, tree, h) /\ ~MaskStays(R, tree, h)
        BY <4>1, RedactedPaths
      <4>3. PICK q \in HitBy(R, tree) : IsPrefix(q, h)
        BY <4>2 DEF UnderHit
      <4>4. IsPrefix(q, p)
        BY <4>3, <4>1, <3>1, <1>2, <1>t
      <4>5. q = p
        BY <4>4, <2>4 DEF MaskStays
      <4>6. h = p
        BY <4>5, <4>3, <3>1, <4>1, <1>2, <1>a
      <4>7. QED
        BY <4>6, <4>2, <2>4
    <3>2. p \notin Hits(r, tree)
      BY <3>1, <1>5, p \in Paths(tree)
    <3>3. QED
      BY <3>1, <3>2, <2>1, <2>2, <2>4, <1>3, RulesAssumption DEF MaskStays
  <2>5. ASSUME r.action = "mask", p \in hits PROVE MaskStays(All, tree, p)
    <3>1. UnderHit(R, tree, p) => MaskStays(R, tree, p)
      BY <2>5, <1>4, RedactedPaths
    <3>2. p \notin HitBy(Drops(R), tree)
      <4>1. p \in HitBy(R, tree) => UnderHit(R, tree, p)
        BY <1>5 DEF UnderHit
      <4>2. QED
        BY <4>1, <3>1, <2>3 DEF MaskStays
    <3>3. \A q \in HitBy(R, tree) : IsPrefix(q, p) => q = p
      BY <3>1 DEF UnderHit, MaskStays
    <3>4. \A q \in Hits(r, tree) : IsPrefix(q, p) => q = p
      BY <2>5, <1>4, HitsAreEqual
    <3>5. QED
      BY <3>2, <3>3, <3>4, <2>1, <2>5, <1>3, <1>4 DEF MaskStays
  <2>6. ASSUME MaskStays(All, tree, p)
        PROVE  \/ MaskStays(R, tree, p) /\ ~\E h \in hits : IsPrefix(h, p)
               \/ r.action = "mask" /\ p \in hits
    <3>1. \A q \in HitBy(R, tree) \cup Hits(r, tree) : IsPrefix(q, p) => q = p
      BY <2>6, <1>3 DEF MaskStays
    <3>2. p \notin HitBy(Drops(R), tree) /\ (r.action = "drop" => p \notin Hits(r, tree))
      BY <2>6, <2>1, <2>2, RulesAssumption DEF MaskStays
    <3>3. CASE p \in Hits(r, tree)
      <4>1. r.action = "mask"
        BY <3>2, <3>3, RulesAssumption
      <4>2. UnderHit(R, tree, p) => MaskStays(R, tree, p)
        BY <3>1, <3>2 DEF UnderHit, MaskStays
      <4>3. QED
        BY <4>1, <4>2, <3>3, <1>4, RedactedPaths
    <3>4. CASE p \notin Hits(r, tree)
      <4>1. MaskStays(R, tree, p)
        BY <3>1, <3>2, <3>4, <2>6, <1>3 DEF MaskStays
      <4>2. QED
        BY <4>1, <3>1, <3>4, <1>4
    <3>5. QED
      BY <3>3, <3>4
  <2>7. QED
    BY <2>4, <2>5, <2>6
<1> DEFINE Mask(p) == [path |-> p, kind |-> "masked"]
           left == {n \in tree : ~UnderHit(R, tree, n.path)}
           masks == {p \in Paths(tree) : MaskStays(R, tree, p)}
           below(t) == {n \in t : \E p \in hits : IsPrefix(p, n.path)}
<1>9. x = left \cup {Mask(p) : p \in masks}
  BY DEF Redacted
<1>10. ApplyRedaction(x, r) =
          (x \ below(x)) \cup IF r.action = "drop" THEN {} ELSE {Mask(p) : p \in hits}
  BY DEF ApplyRedaction
<1>11. left \ below(x) = {n \in tree : ~UnderHit(All, tree, n.path)}
  <2>1. \A n \in tree : UnderHit(R, tree, n.path) => UnderHit(All, tree, n.path)
    BY <1>3 DEF UnderHit
  <2>2. QED
    BY <2>1, <1>7, <1>9
<1>12. {Mask(p) : p \in masks} \ below(x) =
          {Mask(p) : p \in {q \in masks : ~\E h \in hits : IsPrefix(h, q)}}
  BY <1>9
<1>13. {Mask(p) : p \in {q \in masks : ~\E h \in hits : IsPrefix(h, q)}}
          \cup (IF r.action = "drop" THEN {} ELSE {Mask(p) : p \in hits})
       = {Mask(p) : p \in {q \in Paths(tree) : MaskStays(All, tree, q)}}
  <2>1. hits \subseteq Paths(tree)
    BY <1>2, <1>4
  <2>2. r.action \in {"drop", "mask"}
    BY RulesAssumption
  <2> HIDE DEF hits, All
  <2>3. QED
    BY <2>1, <2>2, <1>8
<1>14. QED
  BY <1>9, <1>10, <1>11, <1>12, <1>13 DEF Redacted
\* The payload after each of the first n rules of an order.
IsStaged(stage, n, order, tree) ==
    /\ stage[0] = tree /\ stage[n] = SanitizeMap(tree, order)
    /\ \A k \in 1..n : stage[k] = ApplyRedaction(stage[k - 1], order[k])

LEMMA SanitizeStages ==
    ASSUME NEW Trees, \A x \in Trees : \A r \in Rules : ApplyRedaction(x, r) \in Trees,
           NEW n \in Nat, NEW order \in [1..n -> Rules], NEW tree \in Trees
    PROVE  \E stage \in [0..n -> Trees] : IsStaged(stage, n, order, tree)
<1> DEFINE Eq(f) == [s \in SUBSET (1..n) |->
                       IF s = {} THEN tree
                       ELSE ApplyRedaction(f[s \ {Max(s)}], order[Max(s)])]
           iter == CHOOSE f : f = Eq(f)
           F == [k \in 1..n |-> [x \in Trees |-> ApplyRedaction(x, order[k])]]
<1>1. SanitizeMap(tree, order) = iter[1..n]
  <2>1. DOMAIN order = 1..n
    OBVIOUS
  <2>2. QED
    BY <2>1, Zenon DEF SanitizeMap, FoldLeft, MapThenFoldSet
<1>2. iter = Eq(iter)
  <2>1. F \in [1..n -> [Trees -> Trees]]
    OBVIOUS
  <2>2. PICK g \in [SUBSET (1..n) -> Trees] : IsFold(g, n, tree, F)
    <3> HIDE DEF F
    <3>1. QED
      BY ONLY <2>1, n \in Nat, tree \in Trees, FoldExists
  <2>3. \A s \in SUBSET (1..n) : s # {} => Max(s) \in 1..n /\ s \ {Max(s)} \in SUBSET (1..n)
    BY GreatestExists
  <2>4. g = Eq(g)
    BY <2>2, <2>3 DEF IsFold
  <2>5. QED
    BY <2>4
<1>3. \A k \in 1..n : iter[1..k] = ApplyRedaction(iter[1..k - 1], order[k])
  <2> SUFFICES ASSUME NEW k \in 1..n PROVE iter[1..k] = ApplyRedaction(iter[1..k - 1], order[k])
    OBVIOUS
  <2> HIDE DEF iter
  <2>1. iter[1..k] = Eq(iter)[1..k]
    BY <1>2
  <2>2. 1..k \in SUBSET (1..n) /\ 1..k # {} /\ Max(1..k) = k /\ (1..k) \ {Max(1..k)} = 1..k - 1
    <3>1. k \in Nat \ {0} /\ 1..k \in SUBSET (1..n)
      OBVIOUS
    <3>2. QED
      BY ONLY <3>1, GreatestOfInterval
  <2>3. QED
    BY <2>1, <2>2
<1>4. iter[1..0] = tree
  <2> HIDE DEF iter
  <2>1. 1..0 = {}
    OBVIOUS
  <2>2. QED
    BY <1>2, <2>1
<1>5. \A k \in 0..n : iter[1..k] \in Trees
  <2> DEFINE T == {k \in 0..n : iter[1..k] \in Trees}
  <2> HIDE DEF iter
  <2>1. 0 \in T
    BY <1>4
  <2>2. \A k \in 0..n - 1 : k \in T => k + 1 \in T
    <3> SUFFICES ASSUME NEW k \in 0..n - 1, iter[1..k] \in Trees PROVE k + 1 \in T
      OBVIOUS
    <3>1. k + 1 \in 1..n /\ (k + 1) - 1 = k
      OBVIOUS
    <3>2. iter[1..k + 1] = ApplyRedaction(iter[1..k], order[k + 1])
      BY <1>3, <3>1
    <3>3. order[k + 1] \in Rules
      BY <3>1
    <3>4. QED
      BY <3>1, <3>2, <3>3
  <2>3. 0..n \subseteq T
    <3> HIDE DEF T
    <3>1. QED
      BY ONLY <2>1, <2>2, n \in Nat, SetInduction
  <2>4. QED
    BY <2>3
<1>6. QED
  <2> DEFINE stage == [k \in 0..n |-> iter[1..k]]
  <2> HIDE DEF iter
  <2>1. stage \in [0..n -> Trees]
    BY <1>5
  <2>2. stage[0] = tree /\ stage[n] = SanitizeMap(tree, order)
    BY <1>1, <1>4
  <2>3. \A k \in 1..n : stage[k] = ApplyRedaction(stage[k - 1], order[k])
    BY <1>3
  <2> HIDE DEF stage
  <2>4. QED
    BY <2>1, <2>2, <2>3 DEF IsStaged

LEMMA RedactedByNone ==
    ASSUME NEW tree
    PROVE  Redacted({}, tree) = tree
BY DEF Redacted, UnderHit, MaskStays, HitBy

\* Whatever the order of the rules, the sanitizer leaves what all of them leave.
LEMMA SanitizedIsRedacted ==
    ASSUME NEW tree, IsPayload(tree), NEW order \in Orders
    PROVE  SanitizeMap(tree, order) = Redacted(Rules, tree)
<1> DEFINE n == Cardinality(Rules)
           First(k) == {order[j] : j \in 1..k}
           Nodes == tree \cup {[path |-> p, kind |-> "masked"] : p \in Paths(tree)}
           Trees == SUBSET Nodes
<1>1. n \in Nat /\ order \in [1..n -> Rules] /\ \A i, j \in 1..n : i # j => order[i] # order[j]
  BY RulesAssumption, FS_CardinalityType DEF Orders, SetToSeqs
<1>2. First(n) = Rules
  <2>1. IsInjective(order)
    BY <1>1 DEF IsInjective
  <2>2. Cardinality(1..n) = n /\ IsFiniteSet(1..n)
    BY <1>1, FS_Interval
  <2>3. \A y \in Rules : \E x \in 1..n : order[x] = y
    <3> SUFFICES ASSUME NEW y \in Rules, \A x \in 1..n : order[x] # y PROVE FALSE
      OBVIOUS
    <3>1. order \in Injection(1..n, Rules \ {y})
      BY <1>1 DEF Injection, IsInjective
    <3>2. IsFiniteSet(Rules \ {y}) /\ Cardinality(Rules \ {y}) = n - 1
      BY RulesAssumption, FS_RemoveElement
    <3>3. n <= n - 1
      BY <3>1, <3>2, <2>2, FS_Injection
    <3>4. QED
      BY <3>3, <1>1
  <2>4. QED
    BY <2>3, <1>1
<1>3. \A x \in Trees : \A r \in Rules : ApplyRedaction(x, r) \in Trees
  <2> SUFFICES ASSUME NEW x \in Trees, NEW r \in Rules PROVE ApplyRedaction(x, r) \in Trees
    OBVIOUS
  <2>1. Paths(x) \subseteq Paths(tree)
    BY DEF Paths
  <2>2. Hits(r, x) \subseteq Paths(tree)
    BY <2>1, HitsArePaths
  <2>3. QED
    BY <2>2 DEF ApplyRedaction
<1>4. PICK stage \in [0..n -> Trees] : IsStaged(stage, n, order, tree)
  <2>1. tree \in Trees
    OBVIOUS
  <2> HIDE DEF Trees, n
  <2>2. QED
    BY <1>1, <1>3, <2>1, SanitizeStages
<1>5. \A k \in 0..n : stage[k] = Redacted(First(k), tree)
  <2> DEFINE T == {k \in 0..n : stage[k] = Redacted(First(k), tree)}
  <2> HIDE DEF n
  <2>1. 0 \in T
    <3>1. First(0) = {}
      OBVIOUS
    <3>2. 0 \in 0..n
      BY <1>1
    <3> HIDE DEF First
    <3>3. QED
      BY <3>1, <3>2, <1>4, RedactedByNone DEF IsStaged
  <2>2. \A k \in 0..n - 1 : k \in T => k + 1 \in T
    <3> SUFFICES ASSUME NEW k \in 0..n - 1, stage[k] = Redacted(First(k), tree) PROVE k + 1 \in T
      OBVIOUS
    <3>1. k + 1 \in 1..n /\ (k + 1) - 1 = k
      BY <1>1
    <3>2. stage[k + 1] = ApplyRedaction(Redacted(First(k), tree), order[k + 1])
      BY <3>1, <1>4 DEF IsStaged
    <3>3. First(k + 1) = First(k) \cup {order[k + 1]} /\ First(k) \in SUBSET Rules
          /\ order[k + 1] \in Rules
      BY <3>1, <1>1
    <3> HIDE DEF First
    <3>4. stage[k + 1] = Redacted(First(k + 1), tree)
      BY <3>2, <3>3, RedactedByOneMore
    <3>5. QED
      BY <3>1, <3>4
  <2>3. 0..n \subseteq T
    <3> HIDE DEF T
    <3>1. QED
      BY <1>1, <2>1, <2>2, SetInduction
  <2>4. QED
    BY <2>3
<1>6. QED
  BY <1>1, <1>2, <1>4, <1>5 DEF IsStaged

\* Of a payload, nothing a rule covers is left in the clear.

\* The start of a path of a payload is the path of a node of it.
LEMMA StartsArePaths ==
    ASSUME NEW tree, IsPayload(tree), NEW n \in tree, NEW k \in 2..Len(n.path)
    PROVE  SubSeq(n.path, 1, k) \in Paths(tree)
<1>1. CASE k = Len(n.path)
  <2>1. SubSeq(n.path, 1, k) = n.path
    BY <1>1 DEF IsPayload, IsPath
  <2>2. QED
    BY <2>1 DEF Paths
<1>2. CASE k # Len(n.path)
  <2>1. k \in 2..Len(n.path) - 1
    BY <1>2 DEF IsPayload, IsPath
  <2>2. QED
    BY <2>1 DEF IsPayload, Paths
<1>3. QED
  BY <1>1, <1>2

LEMMA CoveredIsHit ==
    ASSUME NEW tree, IsPayload(tree), NEW n \in tree, Item \notin Range(n.path), Covered(n.path)
    PROVE  UnderHit(Rules, tree, n.path)
<1>1. PICK r \in Rules : IsPrefix(r.path, n.path) /\ (r.star => Len(n.path) > Len(r.path))
  BY DEF Covered
<1>2. IsPath(n.path) /\ Len(n.path) > 1 /\ IsPath(r.path) /\ Len(r.path) > IF r.star THEN 0 ELSE 1
  BY RulesAssumption DEF IsPayload
<1>3. Len(n.path) \in Nat /\ Len(r.path) \in Nat /\ Len(r.path) <= Len(n.path)
  BY <1>1, <1>2, PrefixIs DEF IsPath
<1>4. r.path = SubSeq(n.path, 1, Len(r.path))
  BY <1>1, <1>2 DEF IsPrefix, IsPath
<1>5. CASE ~r.star
  <2>1. Len(r.path) \in 2..Len(n.path)
    BY <1>2, <1>3, <1>5
  <2>a. r.path \in Paths(tree)
    BY <2>1, <1>4, StartsArePaths
  <2>2. r.path \in Hits(r, tree)
    BY <2>a, <1>5 DEF Hits, Paths
  <2>3. QED
    BY <2>2, <1>1 DEF UnderHit, HitBy
<1>6. CASE r.star
  <2> DEFINE m == Len(r.path) + 1
             p == SubSeq(n.path, 1, m)
  <2>1. m \in 2..Len(n.path) /\ Len(r.path) \in 1..Len(n.path)
    BY <1>1, <1>2, <1>3, <1>6
  <2>2. p \in Paths(tree)
    BY <2>1, StartsArePaths
  <2>3. IsPath(p) /\ Len(p) = m /\ \A k \in 1..m : p[k] = n.path[k]
    <3>1. IsPath(p)
      BY <2>2 DEF IsPayload, Paths
    <3>2. QED
      BY <3>1, <2>1, <1>2 DEF IsPath
  <2> HIDE DEF p, m
  <2>4. IsPrefix(p, n.path)
    <3>1. Len(p) <= Len(n.path) /\ IsPath(p) /\ IsPath(n.path)
      BY <2>1, <2>3, <1>2
    <3>2. \A k \in 1..Len(p) : p[k] = n.path[k]
      BY <2>3
    <3>3. QED
      BY <3>1, <3>2, PrefixIs
  <2>5. IsPrefix(r.path, p)
    <3>1. \A k \in 1..Len(r.path) : r.path[k] = n.path[k]
      BY <1>1, <1>2, PrefixIs
    <3>2. Len(r.path) <= Len(p) /\ \A k \in 1..Len(r.path) : p[k] = n.path[k]
      BY <2>3, <1>3 DEF m
    <3>3. QED
      BY <3>1, <3>2, <2>3, <1>2, PrefixIs
  <2>6. Len(r.path) = 1 \/ [path |-> r.path, kind |-> "object"] \in tree
    <3> SUFFICES ASSUME Len(r.path) # 1 PROVE [path |-> r.path, kind |-> "object"] \in tree
      OBVIOUS
    <3>a. Len(r.path) + 1 <= Len(n.path) /\ 1 <= Len(r.path)
      BY <2>1 DEF m
    <3>1. Len(r.path) \in 2..Len(n.path) - 1
      <4>1. \A a, b \in Nat : 1 <= a /\ a # 1 /\ a + 1 <= b => a \in 2..b - 1
        OBVIOUS
      <4>2. QED
        BY <3>a, <1>3, <4>1
    <3>2. n.path[Len(r.path) + 1] # Item
      BY <2>1, <1>2 DEF Range, IsPath, m
    <3>3. PICK o \in tree : o.path = SubSeq(n.path, 1, Len(r.path)) /\ o.kind = "object"
      BY <3>1, <3>2 DEF IsPayload
    <3>4. o = [path |-> o.path, kind |-> o.kind]
      BY DEF IsPayload
    <3>5. QED
      BY <3>3, <3>4, <1>4
  <2>7. p \in Hits(r, tree)
    BY <2>2, <2>3, <2>5, <2>6, <1>6 DEF Hits, Paths, m
  <2>8. QED
    BY <2>4, <2>7 DEF UnderHit, HitBy
<1>7. QED
  BY <1>5, <1>6

LEMMA SanitizedIsClean ==
    ASSUME NEW tree, IsPayload(tree), NEW order \in Orders
    PROVE  Clean(SanitizeMap(tree, order))
<1> SUFFICES ASSUME NEW n \in Redacted(Rules, tree), n.kind = "raw", Item \notin Range(n.path)
             PROVE  ~Covered(n.path)
  BY SanitizedIsRedacted DEF Clean
<1>1. n \in tree /\ ~UnderHit(Rules, tree, n.path)
  BY DEF Redacted
<1>2. QED
  BY <1>1, CoveredIsHit

\* A payload without replay keys has none when it has been sanitized.
LEMMA SanitizedHasNoReplay ==
    ASSUME NEW tree, IsPayload(tree), ~RejectReplayData(tree), NEW order \in Orders,
           NEW n \in SanitizeMap(tree, order)
    PROVE  Range(n.path) \cap ReplayKeys = {}
<1>1. n.path \in Paths(tree)
  BY SanitizedIsRedacted DEF Redacted, Paths
<1>2. PICK m \in tree : n.path = m.path
  BY <1>1 DEF Paths
<1>3. IsPath(m.path) /\ Len(m.path) > 1 /\ Head(m.path) \notin ReplayKeys
  BY DEF IsPayload
<1>4. \A k \in 2..Len(m.path) : m.path[k] \notin ReplayKeys
  BY DEF RejectReplayData
<1>5. \A k \in 1..Len(m.path) : m.path[k] \notin ReplayKeys
  BY <1>3, <1>4 DEF IsPath
<1>6. DOMAIN m.path = 1..Len(m.path)
  BY <1>3 DEF IsPath
<1>7. QED
  BY <1>2, <1>5, <1>6 DEF Range

-----------------------------------------------------------------------------
\* What is captured of observed events

\* The browser adapter refuses replay keys.
Admitted == {e \in Events : e.via = "browser" => ~RejectReplayData(e.tree)}

\* What the recorder hands to the store of an event: the same but for its payload.
Captured ==
    UNION {{[e EXCEPT !.tree = SanitizeMap(e.tree, order)] : order \in Orders} : e \in Admitted}

\* What a demonstration shows of a payload: nothing yet, or what the redactor left.
Shows(tree, payload) == tree = {} \/ \E order \in Orders : tree = SanitizeMap(payload, order)

\* A request that is being served, on its way to the trace or not.
RequestSound(s) ==
    /\ s.event \in Admitted
    /\ s.at = "append" =>
          s.stored \in Captured /\ s.stored.id = s.event.id /\ s.stored.tenant = Tenant

TraceSound(events) ==
    /\ events \in Seq(Captured)
    /\ \A k \in DOMAIN events :
          /\ events[k].tenant = Tenant
          /\ \A j \in 1 .. k - 1 :
                events[j].id # events[k].id /\ events[j].time <= events[k].time
          /\ events[k].corrects \subseteq {events[j].id : j \in 1 .. k - 1}

IntakeInv ==
    /\ DOMAIN demonstration = {"status", "events", "initial", "final"}
    /\ TraceSound(demonstration.events)
    /\ Shows(demonstration.initial, InitialContext) /\ Shows(demonstration.final, FinalResult)
    /\ \A request \in sent : request.event \in Admitted
    /\ DOMAIN serving = Handlers
    /\ \A h \in Handlers : \A s \in serving[h] : RequestSound(s)
    /\ \A r \in replies : r[2] = 201 => r[1] \in EventIds(demonstration.events)

\* Redaction changes nothing but the payload.
LEMMA CapturedFields ==
    ASSUME NEW e \in Events, NEW tree
    PROVE  LET x == [e EXCEPT !.tree = tree]
           IN  /\ x.id = e.id /\ x.tenant = e.tenant /\ x.time = e.time /\ x.corrects = e.corrects
BY IntakeAssumption

LEMMA CapturedTime == \A x \in Captured : x.time \in Nat
<1> SUFFICES ASSUME NEW x \in Captured PROVE x.time \in Nat
  OBVIOUS
<1>1. PICK e \in Admitted : x \in {[e EXCEPT !.tree = SanitizeMap(e.tree, order)] : order \in Orders}
  BY DEF Captured
<1>2. PICK order \in Orders : x = [e EXCEPT !.tree = SanitizeMap(e.tree, order)]
  BY <1>1
<1>3. QED
  BY <1>2, CapturedFields, IntakeAssumption DEF Admitted

LEMMA AppendedSequence ==
    ASSUME NEW S, NEW s \in Seq(S), NEW x \in S
    PROVE  /\ Len(s) \in Nat /\ DOMAIN s = 1 .. Len(s)
           /\ Append(s, x) \in Seq(S) /\ DOMAIN Append(s, x) = 1 .. Len(s) + 1
           /\ Append(s, x)[Len(s) + 1] = x
           /\ \A k \in 1 .. Len(s) : Append(s, x)[k] = s[k]
OBVIOUS

\* What the store adds to a trace keeps it sound.
LEMMA AppendSound ==
    ASSUME NEW events, NEW x \in Captured
    PROVE  TraceSound(events) /\ x.tenant = Tenant /\ ValidateAppend(events, x) = "" =>
              /\ TraceSound(Append(events, x))
              /\ EventIds(events) \cup {x.id} \subseteq EventIds(Append(events, x))
<1>a. SUFFICES ASSUME TraceSound(events), x.tenant = Tenant, ValidateAppend(events, x) = ""
               PROVE  /\ TraceSound(Append(events, x))
                      /\ EventIds(events) \cup {x.id} \subseteq EventIds(Append(events, x))
  OBVIOUS
<1> DEFINE n == Len(events)
           longer == Append(events, x)
<1>0. events \in Seq(Captured)
  BY <1>a DEF TraceSound
<1>1. events \in Seq(Captured) /\ n \in Nat /\ DOMAIN events = 1 .. n
  BY <1>0, AppendedSequence
<1>2. /\ longer \in Seq(Captured) /\ DOMAIN longer = 1 .. n + 1 /\ longer[n + 1] = x
      /\ \A k \in 1 .. n : longer[k] = events[k]
  BY <1>0, AppendedSequence
<1>3. /\ x.id \notin EventIds(events) /\ x.corrects \subseteq EventIds(events)
      /\ (events # <<>> => ~(x.time < events[n].time))
  BY <1>a DEF ValidateAppend, Last
<1>4. EventIds(events) = {events[j].id : j \in 1 .. n}
  BY <1>1 DEF EventIds, Range
<1> HIDE DEF n, longer
<1>5. EventIds(events) \cup {x.id} \subseteq EventIds(longer)
  BY <1>1, <1>2, <1>4 DEF EventIds, Range
<1>6. \A j \in 1 .. n : events[j].time <= x.time
  <2> SUFFICES ASSUME NEW j \in 1 .. n PROVE events[j].time <= x.time
    OBVIOUS
  <2>1. events # <<>> /\ n \in 1 .. n
    BY <1>1 DEF n
  <2>2. events[n].time <= x.time
    BY <1>1, <1>3, <2>1, CapturedTime DEF n
  <2>3. events[j].time <= events[n].time
    <3>1. CASE j = n
      BY <1>1, <3>1, CapturedTime
    <3>2. CASE j # n
      <4>1. j \in 1 .. n - 1
        BY <1>1, <3>2
      <4>2. QED
        BY <1>a, <1>1, <2>1, <4>1 DEF TraceSound
    <3>3. QED
      BY <3>1, <3>2
  <2>4. events[j].time \in Nat /\ events[n].time \in Nat /\ x.time \in Nat
    BY <1>1, <2>1, CapturedTime
  <2>5. QED
    BY <2>2, <2>3, <2>4
<1>7. ASSUME NEW k \in 1 .. n + 1
      PROVE  /\ longer[k].tenant = Tenant
             /\ \A j \in 1 .. k - 1 :
                   longer[j].id # longer[k].id /\ longer[j].time <= longer[k].time
             /\ longer[k].corrects \subseteq {longer[j].id : j \in 1 .. k - 1}
  <2>1. CASE k = n + 1
    <3>1. \A j \in 1 .. k - 1 : j \in 1 .. n /\ longer[j] = events[j]
      BY <1>1, <1>2, <2>1
    <3>2. \A j \in 1 .. n : events[j].id # x.id
      BY <1>3, <1>4
    <3>3. {longer[j].id : j \in 1 .. k - 1} = {events[j].id : j \in 1 .. n}
      BY <1>1, <2>1, <3>1
    <3>4. QED
      BY <1>a, <1>2, <1>3, <1>4, <1>6, <2>1, <3>1, <3>2, <3>3
  <2>2. CASE k # n + 1
    <3>1. k \in 1 .. n /\ \A j \in 1 .. k - 1 : j \in 1 .. n
      BY <1>1, <2>2
    <3>2. {longer[j].id : j \in 1 .. k - 1} = {events[j].id : j \in 1 .. k - 1}
      BY <1>2, <3>1
    <3>3. QED
      BY <1>a, <1>1, <1>2, <3>1, <3>2 DEF TraceSound
  <2>3. QED
    BY <2>1, <2>2
<1>8. TraceSound(longer)
  BY <1>2, <1>7 DEF TraceSound
<1>9. QED
  BY <1>5, <1>8 DEF longer

\* A step of one handler that leaves the trace alone.
LEMMA HandlerMoves ==
    ASSUME IntakeInv, NEW h \in Handlers, NEW now_serving,
           serving' = [serving EXCEPT ![h] = now_serving],
           \A s \in now_serving : RequestSound(s),
           sent' = sent, demonstration' = demonstration,
           \A r \in replies' : r \in replies \/ r[2] # 201
    PROVE  IntakeInv'
BY DEF IntakeInv

LEMMA RespondMoves ==
    ASSUME IntakeInv, NEW h \in Handlers, NEW e, NEW code, code # 201, Respond(h, e, code),
           UNCHANGED <<sent, demonstration>>
    PROVE  IntakeInv'
<1>1. /\ serving' = [serving EXCEPT ![h] = {}]
      /\ \A r \in replies' : r \in replies \/ r = <<e.id, code>>
  BY DEF Respond
<1>2. <<e.id, code>>[2] = code
  OBVIOUS
<1>3. QED
  <2>1. \A r \in replies' : r \in replies \/ r[2] # 201
    BY <1>1, <1>2
  <2> DEFINE nothing == {}
  <2>2. serving' = [serving EXCEPT ![h] = nothing] /\ \A s \in nothing : RequestSound(s)
    BY <1>1
  <2> HIDE DEF nothing
  <2>3. QED
    BY <2>1, <2>2, HandlerMoves

LEMMA RefusalCode ==
    \A refusal \in {"conflict", "validation", "permission", "notfound"} : Response(refusal) # 201
BY DEF Response

LEMMA ArriveKeeps ==
    ASSUME IntakeInv, NEW h \in Handlers, NEW request \in sent, Arrive(h, request)
    PROVE  IntakeInv'
<1>1. UNCHANGED <<sent, demonstration>> /\ request.event \in Admitted
  BY DEF Arrive, IntakeInv
<1>2. \/ Respond(h, request.event, 401) \/ Respond(h, request.event, 400)
      \/ /\ serving' = [serving EXCEPT ![h] = {[at |-> "lookup", event |-> request.event]}]
         /\ UNCHANGED replies
  BY DEF Arrive
<1> DEFINE waiting == {[at |-> "lookup", event |-> request.event]}
<1>3. \A s \in waiting : RequestSound(s)
  BY <1>1 DEF RequestSound
<1>4. CASE serving' = [serving EXCEPT ![h] = waiting] /\ UNCHANGED replies
  <2>1. \A r \in replies' : r \in replies \/ r[2] # 201
    BY <1>4
  <2> HIDE DEF waiting
  <2>2. QED
    BY <1>1, <1>3, <1>4, <2>1, HandlerMoves
<1>5. CASE ~(serving' = [serving EXCEPT ![h] = waiting] /\ UNCHANGED replies)
  BY <1>1, <1>2, <1>5, RespondMoves
<1>6. QED
  BY <1>4, <1>5

LEMMA BrowserCaptureKeeps ==
    ASSUME IntakeInv, NEW h \in Handlers, NEW e \in Events, BrowserCapture(h, e)
    PROVE  IntakeInv'
<1>1. UNCHANGED <<sent, demonstration>>
  BY DEF BrowserCapture
<1>2. \/ Respond(h, e, 400)
      \/ /\ e \in Admitted
         /\ serving' = [serving EXCEPT ![h] = {[at |-> "lookup", event |-> e]}] /\ UNCHANGED replies
  BY DEF BrowserCapture, Admitted
<1> DEFINE waiting == {[at |-> "lookup", event |-> e]}
<1>4. CASE e \in Admitted /\ serving' = [serving EXCEPT ![h] = waiting] /\ UNCHANGED replies
  <2>a. \A s \in waiting : RequestSound(s)
    BY <1>4 DEF RequestSound
  <2>1. \A r \in replies' : r \in replies \/ r[2] # 201
    BY <1>4
  <2> HIDE DEF waiting
  <2>2. QED
    BY <1>1, <2>a, <1>4, <2>1, HandlerMoves
<1>5. CASE ~(e \in Admitted /\ serving' = [serving EXCEPT ![h] = waiting] /\ UNCHANGED replies)
  BY <1>1, <1>2, <1>5, RespondMoves
<1>6. QED
  BY <1>4, <1>5

LEMMA LookupKeeps ==
    ASSUME IntakeInv, NEW h \in Handlers, Lookup(h)
    PROVE  IntakeInv'
<1>1. PICK s \in serving[h] :
         /\ s.at = "lookup"
         /\ IF LookupRefusal(s.event) # ""
            THEN Respond(h, s.event, Response(LookupRefusal(s.event)))
            ELSE \E order \in Orders :
                    /\ serving' = [serving EXCEPT ![h] =
                         {[at |-> "append", event |-> s.event,
                           stored |-> [s.event EXCEPT !.tree = SanitizeMap(s.event.tree, order)]]}]
                    /\ UNCHANGED replies
         /\ UNCHANGED <<now, secret, sent, demonstration>>
  BY DEF Lookup
<1>2. s.event \in Admitted
  BY DEF IntakeInv, RequestSound
<1>3. CASE LookupRefusal(s.event) # ""
  <2> DEFINE code == Response(LookupRefusal(s.event))
  <2>1. LookupRefusal(s.event) \in {"conflict", "validation", "permission", "notfound"}
    BY <1>3 DEF LookupRefusal, ValidateAppend
  <2>2. code # 201
    BY <2>1, RefusalCode
  <2>3. Respond(h, s.event, code) /\ UNCHANGED <<sent, demonstration>>
    BY <1>1, <1>3
  <2> HIDE DEF code
  <2>4. QED
    BY <2>2, <2>3, RespondMoves
<1>4. CASE LookupRefusal(s.event) = ""
  <2>1. PICK order \in Orders :
           /\ serving' = [serving EXCEPT ![h] =
                {[at |-> "append", event |-> s.event,
                  stored |-> [s.event EXCEPT !.tree = SanitizeMap(s.event.tree, order)]]}]
           /\ UNCHANGED <<replies, sent, demonstration>>
    BY <1>1, <1>4
  <2> DEFINE x == [s.event EXCEPT !.tree = SanitizeMap(s.event.tree, order)]
             r == [at |-> "append", event |-> s.event, stored |-> x]
  <2>2. x \in Captured
    BY <1>2 DEF Captured
  <2>3. x.id = s.event.id /\ x.tenant = s.event.tenant
    BY <1>2, CapturedFields DEF Admitted
  <2>4. s.event.tenant = Tenant
    BY <1>4 DEF LookupRefusal
  <2>5. r.event = s.event /\ r.stored = x
    OBVIOUS
  <2> DEFINE waiting == {r}
  <2>6. serving' = [serving EXCEPT ![h] = waiting]
    BY <2>1
  <2> HIDE DEF x, r
  <2>7. \A s1 \in waiting : RequestSound(s1)
    BY <1>2, <2>2, <2>3, <2>4, <2>5 DEF RequestSound
  <2> HIDE DEF waiting
  <2>8. \A q \in replies' : q \in replies \/ q[2] # 201
    BY <2>1
  <2>9. QED
    BY <2>1, <2>6, <2>7, <2>8, HandlerMoves
<1>5. QED
  BY <1>3, <1>4

LEMMA AppendEventKeeps ==
    ASSUME IntakeInv, NEW h \in Handlers, AppendEvent(h)
    PROVE  IntakeInv'
<1>1. PICK s \in serving[h] :
         /\ s.at = "append"
         /\ IF AppendRefusal(s.stored) # ""
            THEN /\ Respond(h, s.event, Response(AppendRefusal(s.stored)))
                 /\ UNCHANGED demonstration
            ELSE /\ demonstration' = [demonstration EXCEPT !.events = Append(demonstration.events, s.stored)]
                 /\ Respond(h, s.event, 201)
         /\ UNCHANGED <<now, secret, sent>>
  BY DEF AppendEvent
<1>2. /\ s.stored \in Captured /\ s.stored.id = s.event.id /\ s.stored.tenant = Tenant
  BY <1>1 DEF IntakeInv, RequestSound
<1>3. CASE AppendRefusal(s.stored) # ""
  <2> DEFINE code == Response(AppendRefusal(s.stored))
  <2>1. AppendRefusal(s.stored) \in {"conflict", "validation", "permission", "notfound"}
    BY <1>3 DEF AppendRefusal, ValidateAppend
  <2>2. code # 201
    BY <2>1, RefusalCode
  <2>3. Respond(h, s.event, code) /\ UNCHANGED <<sent, demonstration>>
    BY <1>1, <1>3
  <2> HIDE DEF code
  <2>4. QED
    BY <2>2, <2>3, RespondMoves
<1>4. CASE AppendRefusal(s.stored) = ""
  <2> DEFINE events == demonstration.events
             longer == Append(events, s.stored)
  <2>1. /\ demonstration' = [demonstration EXCEPT !.events = longer]
        /\ serving' = [serving EXCEPT ![h] = {}] /\ sent' = sent
        /\ \A r \in replies' : r \in replies \/ r = <<s.event.id, 201>>
    BY <1>1, <1>4 DEF Respond
  <2>2. ValidateAppend(events, s.stored) = ""
    BY <1>4 DEF AppendRefusal
  <2>3. TraceSound(longer) /\ EventIds(events) \cup {s.stored.id} \subseteq EventIds(longer)
    BY <1>2, <2>2, AppendSound DEF IntakeInv
  <2> HIDE DEF longer
  <2>4. demonstration'.events = longer /\ demonstration'.initial = demonstration.initial
        /\ demonstration'.final = demonstration.final /\ DOMAIN demonstration' = {"status", "events", "initial", "final"}
    BY <2>1 DEF IntakeInv
  <2>5. \A r \in replies' : r[2] = 201 => r[1] \in EventIds(longer)
    <3>1. <<s.event.id, 201>>[1] = s.stored.id
      BY <1>2
    <3>2. QED
      BY <2>1, <2>3, <3>1 DEF IntakeInv
  <2>6. DOMAIN serving' = Handlers /\ \A g \in Handlers : serving'[g] \subseteq serving[g]
    BY <2>1 DEF IntakeInv
  <2>7. QED
    BY <2>1, <2>3, <2>4, <2>5, <2>6 DEF IntakeInv
<1>5. QED
  BY <1>3, <1>4

LEMMA IntakeInitHolds == IntakeInit => IntakeInv
BY DEF IntakeInit, IntakeInv, TraceSound, Shows

LEMMA IntakeNextHolds == IntakeInv /\ [IntakeNext]_intakeVars => IntakeInv'
<1> SUFFICES ASSUME IntakeInv, [IntakeNext]_intakeVars PROVE IntakeInv'
  OBVIOUS
<1>1. ASSUME UNCHANGED <<serving, replies>>, demonstration'.events = demonstration.events,
             Shows(demonstration'.initial, InitialContext),
             Shows(demonstration'.final, FinalResult),
             DOMAIN demonstration' = {"status", "events", "initial", "final"},
             \A request \in sent' : request.event \in Admitted
      PROVE  IntakeInv'
  BY <1>1 DEF IntakeInv
<1>2. ASSUME StartRecording \/ Complete PROVE IntakeInv'
  <2>1. CASE StartRecording
    <3>1. PICK order \in Orders :
             demonstration' = [demonstration EXCEPT !.status = "recording",
                                  !.initial = SanitizeMap(InitialContext, order)]
      BY <2>1 DEF StartRecording
    <3>2. /\ demonstration'.events = demonstration.events
          /\ demonstration'.final = demonstration.final
          /\ demonstration'.initial = SanitizeMap(InitialContext, order)
          /\ DOMAIN demonstration' = {"status", "events", "initial", "final"}
      BY <3>1 DEF IntakeInv
    <3>3. QED
      BY <1>1, <2>1, <3>2 DEF StartRecording, IntakeInv, Shows
  <2>2. CASE Complete
    <3>1. PICK order \in Orders :
             demonstration' = [demonstration EXCEPT !.status = "completed",
                                  !.final = SanitizeMap(FinalResult, order)]
      BY <2>2 DEF Complete
    <3>2. /\ demonstration'.events = demonstration.events
          /\ demonstration'.initial = demonstration.initial
          /\ demonstration'.final = SanitizeMap(FinalResult, order)
          /\ DOMAIN demonstration' = {"status", "events", "initial", "final"}
      BY <3>1 DEF IntakeInv
    <3>3. QED
      BY <1>1, <2>2, <3>2 DEF Complete, IntakeInv, Shows
  <2>3. QED
    BY <1>2, <2>1, <2>2
<1>3. CASE Tick \/ \E t \in SecretTenants : RotateSecret(t)
  BY <1>1, <1>3 DEF Tick, RotateSecret, IntakeInv
<1>4. ASSUME NEW e \in Events, Sign(e) PROVE IntakeInv'
  BY <1>1, <1>4 DEF Sign, IntakeInv, Admitted
<1>5. ASSUME NEW request \in sent, Lose(request) PROVE IntakeInv'
  BY <1>1, <1>5 DEF Lose, IntakeInv
<1>6. ASSUME NEW h \in Handlers, RequestCanceled(h) PROVE IntakeInv'
  BY <1>6, RespondMoves DEF RequestCanceled
<1>7. CASE UNCHANGED intakeVars
  BY <1>1, <1>7 DEF intakeVars, IntakeInv
<1>8. QED
  BY <1>2, <1>3, <1>4, <1>5, <1>6, <1>7, ArriveKeeps, BrowserCaptureKeeps, LookupKeeps,
     AppendEventKeeps DEF IntakeNext

LEMMA IntakeInvImplies == IntakeInv => CapturedOnce
<1> SUFFICES ASSUME IntakeInv PROVE CapturedOnce
  OBVIOUS
<1> DEFINE events == demonstration.events
           id == [k \in DOMAIN events |-> events[k].id]
<1>1. TraceSound(events) /\ \A r \in replies : r[2] = 201 => r[1] \in EventIds(events)
  BY DEF IntakeInv
<1>2. IsInjective(id)
  <2> SUFFICES ASSUME NEW a \in DOMAIN events, NEW b \in DOMAIN events,
                      events[a].id = events[b].id
               PROVE  a = b
    BY DEF IsInjective
  <2>1. a \in Nat /\ b \in Nat /\ a >= 1 /\ b >= 1
    BY <1>1 DEF TraceSound
  <2>2. ~(a < b) /\ ~(b < a)
    BY <1>1, <2>1 DEF TraceSound
  <2>3. QED
    BY <2>1, <2>2
<1>3. QED
  BY <1>1, <1>2 DEF CapturedOnce, TraceSound

\* What the demonstration shows has been through the redactor.
LEMMA IntakeInvIsClean == IntakeInv => TracesClean
<1> SUFFICES ASSUME IntakeInv PROVE TracesClean
  OBVIOUS
<1>1. \A tree, payload : IsPayload(payload) /\ Shows(tree, payload) => Clean(tree)
  BY SanitizedIsClean DEF Shows, Clean
<1>2. Clean(demonstration.initial) /\ Clean(demonstration.final)
  BY <1>1, PayloadAssumption DEF IntakeInv
<1>3. ASSUME NEW k \in DOMAIN demonstration.events
      PROVE  LET e == demonstration.events[k]
             IN  /\ Clean(e.tree)
                 /\ e.via = "browser" => \A n \in e.tree : Range(n.path) \cap ReplayKeys = {}
                 /\ \E original \in Events :
                       /\ e = [original EXCEPT !.tree = e.tree]
                       /\ \A order \in Orders : e.tree = SanitizeMap(original.tree, order)
  <2> DEFINE e == demonstration.events[k]
  <2>1. e \in Captured
    BY DEF IntakeInv, TraceSound
  <2>2. PICK original \in Admitted :
           e \in {[original EXCEPT !.tree = SanitizeMap(original.tree, order)] : order \in Orders}
    BY <2>1 DEF Captured
  <2>3. PICK order \in Orders : e = [original EXCEPT !.tree = SanitizeMap(original.tree, order)]
    BY <2>2
  <2>4. original \in Events /\ IsPayload(original.tree)
    BY PayloadAssumption DEF Admitted
  <2>5. e.tree = SanitizeMap(original.tree, order) /\ e.via = original.via
    BY <2>3, <2>4, IntakeAssumption
  <2>6. \A other \in Orders : SanitizeMap(original.tree, other) = SanitizeMap(original.tree, order)
    BY <2>4, SanitizedIsRedacted
  <2>7. e.via = "browser" => ~RejectReplayData(original.tree)
    BY <2>5 DEF Admitted
  <2> HIDE DEF e
  <2>8. Clean(e.tree)
    BY <2>4, <2>5, SanitizedIsClean
  <2>9. e.via = "browser" => \A n \in e.tree : Range(n.path) \cap ReplayKeys = {}
    BY <2>4, <2>5, <2>7, SanitizedHasNoReplay
  <2>10. e = [original EXCEPT !.tree = e.tree]
    BY <2>3, <2>5
  <2>11. QED
    BY <2>4, <2>5, <2>6, <2>8, <2>9, <2>10 DEF e
<1>4. QED
  BY <1>2, <1>3 DEF TracesClean

\* Whatever is retried, repeated, delayed or served twice at once, and whenever
\* the demonstration is completed: an event is in its trace at most once, after
\* what it corrects and in the order in which events happened, the trace is of
\* one tenant, and an event answered with 201 is there.
THEOREM EventsAreCapturedOnce == IntakeSpec => []CapturedOnce
<1>1. IntakeInv => CapturedOnce
  BY IntakeInvImplies
<1>2. QED
  BY IntakeInitHolds, IntakeNextHolds, <1>1, PTL DEF IntakeSpec

\* And whatever order the map of rules is walked in, each time another: nothing a
\* rule covers is in a trace in the clear, no replay key of a browser event is in
\* it at all, and what is stored is the same in any order of the rules.
THEOREM IntakeIsSound == IntakeSpec => []IntakeSound
<1>1. IntakeInv => IntakeSound
  BY IntakeInvImplies, IntakeInvIsClean DEF IntakeSound
<1>2. QED
  BY IntakeInitHolds, IntakeNextHolds, <1>1, PTL DEF IntakeSpec
=============================================================================
