---------------------------- MODULE TenantRecords ----------------------------
(* What several tenants keep side by side: executions, demonstrations,      *)
(* approvals, audit events and deliveries, evaluation reports, feedback and *)
(* reviews, each in its memory adapter and in its SQLite table, and the     *)
(* retention an operator of a tenant applies to the tables. A behaviour     *)
(* follows one class of documents; the classes share no rows.               *)
(*                                                                          *)
(* A store is described by what it does where the stores differ:            *)
(*   duplicate  its answer to a document whose id is taken: a conflict, or  *)
(*              "same" when the same content again is no error, or          *)
(*              "ignored" when nothing is compared;                         *)
(*   foreign    its answer to Get of another tenant's document; "none" when *)
(*              it has no Get;                                              *)
(*   decodes    the rows List decodes: the tenant's own, or all;            *)
(*   lists      the statuses a List may be restricted to, in single sets.   *)
(* Callers are authenticated, documents carry the tenant of their caller    *)
(* and the time of their save, and ids are not used again after a purge.    *)
(* Validation, the order of lists and their limits are left out. Time is in *)
(* half seconds.                                                            *)
EXTENDS Integers, FiniteSets

CONSTANTS
    Tenants, DocIds,
    Groups,                 \* what a List selects by: a workflow, an execution, a suite
    Classes,                \* the classes of documents to follow
    Periods,                \* retention periods, in half seconds; 0 keeps a class
    MaxClock                \* bound on the clock

RecordClasses == {"execution", "demonstration", "approval", "audit", "outbox", "report",
                  "agent report", "extractor report", "feedback", "review"}

ASSUME RecordsAssumption == Classes \subseteq RecordClasses /\ Periods \subseteq Nat

VARIABLES
    class,      \* the class followed
    sealed,     \* the documents are protected with the keys of their tenant
    clock,
    memory,     \* id |-> {} or {row}: the memory adapter
    table,      \* id |-> {} or {row}: the SQLite table
    reply,      \* the answers to the last step, if it saved
    shelf       \* history: id |-> {} or {what its tenant may expect}
recordVars == <<class, sealed, clock, memory, table, reply, shelf>>

Phases == {"open", "done"}
NoReply == [memory |-> "", table |-> "", tenant |-> {}, id |-> {}, group |-> {}]

-----------------------------------------------------------------------------
(* The stores *)

Whole == {Phases}
Each == {Phases, {"open"}, {"done"}}

executionStore == [duplicate |-> "conflict", foreign |-> "denied", decodes |-> "own", lists |-> Each]
MemoryExecutionStore == executionStore

demonstrationStore ==
    [duplicate |-> "conflict", foreign |-> "denied", decodes |-> "own", lists |-> Whole]
MemoryDemonstrations == demonstrationStore

approvalStore == [duplicate |-> "conflict", foreign |-> "denied", decodes |-> "own", lists |-> Each]
MemoryApprovalStore == [approvalStore EXCEPT !.duplicate = "replaced"]

auditStore == [duplicate |-> "ignored", foreign |-> "none", decodes |-> "own", lists |-> Whole]
MemoryAudit == auditStore

(* Pending lists what is neither delivered nor a dead letter. Enqueue takes *)
(* the same event again; "same" is what reads back equal, so that SQLite's, *)
(* which compares with the decoded row, calls an event a conflict that does *)
(* not survive its own encoding.                                            *)
auditOutbox == [duplicate |-> "same", foreign |-> "none", decodes |-> "own", lists |-> {{"open"}}]
MemoryOutbox == auditOutbox

(* The lists of reports select by workflow or suite, never by tenant.       *)
evaluationStore == [duplicate |-> "conflict", foreign |-> "denied", decodes |-> "all", lists |-> Whole]
agentEvaluationStore ==
    [duplicate |-> "conflict", foreign |-> "denied", decodes |-> "all", lists |-> Whole]
extractorEvaluationStore ==
    [duplicate |-> "conflict", foreign |-> "denied", decodes |-> "all", lists |-> Whole]
MemoryEvaluations ==
    [duplicate |-> "conflict", foreign |-> "denied", decodes |-> "own", lists |-> Whole]
MemoryAgentStore == [duplicate |-> "conflict", foreign |-> "denied", decodes |-> "own", lists |-> Whole]
MemoryExtractorStore ==
    [duplicate |-> "conflict", foreign |-> "denied", decodes |-> "own", lists |-> Whole]

(* Feedback of another tenant is not found.                                 *)
feedbackStore == [duplicate |-> "conflict", foreign |-> "absent", decodes |-> "own", lists |-> Whole]
MemoryFeedbackStore ==
    [duplicate |-> "conflict", foreign |-> "absent", decodes |-> "own", lists |-> Whole]

reviewStore == [duplicate |-> "conflict", foreign |-> "denied", decodes |-> "own", lists |-> Whole]
MemoryReviewStore ==
    [duplicate |-> "conflict", foreign |-> "denied", decodes |-> "own", lists |-> Whole]

Adapters ==
    CASE class = "execution" -> [memory |-> MemoryExecutionStore, table |-> executionStore]
      [] class = "demonstration" -> [memory |-> MemoryDemonstrations, table |-> demonstrationStore]
      [] class = "approval" -> [memory |-> MemoryApprovalStore, table |-> approvalStore]
      [] class = "audit" -> [memory |-> MemoryAudit, table |-> auditStore]
      [] class = "outbox" -> [memory |-> MemoryOutbox, table |-> auditOutbox]
      [] class = "report" -> [memory |-> MemoryEvaluations, table |-> evaluationStore]
      [] class = "agent report" -> [memory |-> MemoryAgentStore, table |-> agentEvaluationStore]
      [] class = "extractor report" ->
           [memory |-> MemoryExtractorStore, table |-> extractorEvaluationStore]
      [] class = "feedback" -> [memory |-> MemoryFeedbackStore, table |-> feedbackStore]
      [] class = "review" -> [memory |-> MemoryReviewStore, table |-> reviewStore]

-----------------------------------------------------------------------------
(* Reads *)

Answered(found) == [error |-> FALSE, found |-> found]
Refused == [error |-> TRUE, found |-> {}]
Seen(id, row) == [id |-> id, group |-> row.group, status |-> row.status]

(* tenantAllowed, for a document that names its tenant.                     *)
TenantAllowed(t, row) == row.tenant = t

(* unmarshal: only its own tenant's keys open a protected document.         *)
Opens(t, row) == sealed => row.tenant = t

Get(store, rows, t, id) ==
    IF \A row \in rows[id] : store.foreign = "absent" /\ row.tenant # t THEN Answered({})
    ELSE IF \A row \in rows[id] : TenantAllowed(t, row) THEN Answered({Seen(id, r) : r \in rows[id]})
    ELSE Refused

TableGet(t, id) ==
    IF \A row \in table[id] : Adapters.table.foreign = "absent" \/ Opens(t, row)
    THEN Get(Adapters.table, table, t, id) ELSE Refused

Selected(rows, groups, statuses) ==
    {id \in DocIds : \E row \in rows[id] : row.group \in groups /\ row.status \in statuses}

MemoryList(t, groups, statuses) ==
    Answered(UNION {{Seen(id, r) : r \in {q \in memory[id] : TenantAllowed(t, q)}} :
                      id \in Selected(memory, groups, statuses)})

TableList(t, groups, statuses) ==
    LET rows == UNION {{<<id, r>> : r \in table[id]} : id \in Selected(table, groups, statuses)}
        read == IF Adapters.table.decodes = "all" THEN rows ELSE {p \in rows : p[2].tenant = t}
    IN  IF \A p \in read : Opens(t, p[2])
        THEN Answered({Seen(p[1], p[2]) : p \in {q \in read : TenantAllowed(t, q[2])}})
        ELSE Refused

-----------------------------------------------------------------------------
(* Writes *)

RecordsInit ==
    /\ class \in Classes /\ sealed \in BOOLEAN /\ clock = 0
    /\ memory = [id \in DocIds |-> {}] /\ table = [id \in DocIds |-> {}]
    /\ shelf = [id \in DocIds |-> {}] /\ reply = NoReply

TimePasses ==
    /\ clock < MaxClock
    /\ clock' = clock + 1 /\ reply' = NoReply
    /\ UNCHANGED <<class, sealed, memory, table, shelf>>

(* What the caller is told.                                                 *)
Put(store, rows, id, new) ==
    IF \/ rows[id] = {} \/ store.duplicate \in {"replaced", "ignored"}
       \/ store.duplicate = "same" /\ \A row \in rows[id] : row.tenant = new.tenant /\ row.group = new.group
    THEN "stored" ELSE "refused"

(* Mutant: INSERT OR REPLACE.                                               *)
PlacedOver(store, rows, id, new) == [rows EXCEPT ![id] = {new}]
Placed(store, rows, id, new) ==
    IF rows[id] = {} \/ store.duplicate = "replaced" THEN [rows EXCEPT ![id] = {new}] ELSE rows

(* Approvals and audit events get their random id from the store or from    *)
(* the code that makes them; an audit event comes again when it is          *)
(* delivered again, with its content. The other ids are the caller's.       *)
ItsOwnId(t, id, group) ==
    /\ \A s \in shelf[id] : ~s.gone
    /\ class = "approval" => shelf[id] = {}
    /\ class = "audit" => \A s \in shelf[id] : s.tenant = t /\ s.group = group

(* Create, Request, Append, Enqueue or Save, on both adapters.              *)
Save(t, id, group) ==
    LET new == [tenant |-> t, group |-> group, status |-> "open", at |-> clock]
    IN  /\ ItsOwnId(t, id, group)
        /\ reply' = [memory |-> Put(Adapters.memory, memory, id, new),
                     table |-> Put(Adapters.table, table, id, new),
                     tenant |-> {t}, id |-> {id}, group |-> {group}]
        /\ memory' = Placed(Adapters.memory, memory, id, new)
        /\ table' = Placed(Adapters.table, table, id, new)
        /\ shelf' = IF shelf[id] # {} THEN shelf
                    ELSE [shelf EXCEPT ![id] = {[tenant |-> t, group |-> group, status |-> "open",
                                                 since |-> clock, gone |-> FALSE]}]
        /\ UNCHANGED <<class, sealed, clock>>

(* The column the retention looks at: a demonstration that still records    *)
(* has the time of its last event, a delivery keeps that of its creation.   *)
(* Mutant: deciding or completing leaves the column alone.                  *)
UpdatedAtOnce(row, status, event) == row.at
UpdatedAt(row, status, event) ==
    IF class = "outbox" THEN row.at
    ELSE IF class = "demonstration" /\ status = "open" THEN event
    ELSE clock

(* An Update, Append, Complete, decision or delivery of a tenant's own open *)
(* document; everything else is refused and changes nothing.                *)
Change(t, id, status, event) ==
    LET changed(row) == [row EXCEPT !.status = status, !.at = UpdatedAt(row, status, event)]
    IN  /\ class \in {"execution", "demonstration", "approval", "outbox"}
        /\ status = "open" => class \in {"execution", "demonstration"}
        /\ event \in 0..clock
        /\ \E row \in memory[id] : row.tenant = t /\ row.status = "open"
        /\ memory' = [memory EXCEPT ![id] = {changed(r) : r \in memory[id]}]
        /\ table' = [table EXCEPT ![id] = {changed(r) : r \in table[id]}]
        /\ shelf' = [shelf EXCEPT ![id] = {[s EXCEPT !.status = status,
                        !.since = IF class = "outbox" THEN @ ELSE clock] : s \in shelf[id]}]
        /\ reply' = NoReply
        /\ UNCHANGED <<class, sealed, clock>>

-----------------------------------------------------------------------------
(* Retention *)

(* Text of RFC3339Nano: the fraction is left out when it is zero, and "Z"   *)
(* comes after "." in the order of texts.                                   *)
Earlier(a, b) ==
    \/ a \div 2 < b \div 2
    \/ a \div 2 = b \div 2 /\ a % 2 = 1 /\ b % 2 = 0

(* What a tenant's purge deletes: what is finished, where finishing exists. *)
Expired(t, period) ==
    {id \in DocIds : \E row \in table[id] :
        /\ row.tenant = t
        /\ class \in {"execution", "demonstration", "approval", "outbox"} => row.status = "done"
        /\ Earlier(row.at, clock - period)}

(* PurgeExpired, of one class; the memory adapters have none.               *)
PurgeExpired(t, period) ==
    /\ period > 0 /\ Expired(t, period) # {}
    /\ table' = [id \in DocIds |-> IF id \in Expired(t, period) THEN {} ELSE table[id]]
    /\ shelf' = [id \in DocIds |-> IF id \notin Expired(t, period) THEN shelf[id]
                                ELSE {[s EXCEPT !.gone = TRUE] : s \in shelf[id]}]
    /\ reply' = NoReply
    /\ UNCHANGED <<class, sealed, clock, memory>>

RecordsNext ==
    \/ TimePasses
    \/ \E t \in Tenants, id \in DocIds, g \in Groups : Save(t, id, g)
    \/ \E t \in Tenants, id \in DocIds, s \in Phases, e \in 0..MaxClock : Change(t, id, s, e)
    \/ \E t \in Tenants, p \in Periods : PurgeExpired(t, p)

RecordsSpec == RecordsInit /\ [][RecordsNext]_recordVars

-----------------------------------------------------------------------------
(* Properties *)

Expect(t, groups, statuses, purged) ==
    UNION {{Seen(id, s) : s \in {q \in shelf[id] : q.tenant = t /\ q.group \in groups
                                   /\ q.status \in statuses /\ (q.gone => purged)}} : id \in DocIds}

(* Whatever the others store, change or purge in the same tables and maps,  *)
(* a tenant that reads gets from either adapter what it stored, in the      *)
(* state it left it, and nothing else; and a save that was not refused has  *)
(* stored the caller's document.                                            *)
TenantsSeeTheirOwn ==
    /\ \A t \in Tenants, id \in DocIds :
          LET own(purged) == {v \in Expect(t, Groups, Phases, purged) : v.id = id}
          IN  Adapters.table.foreign # "none" =>
                /\ Get(Adapters.memory, memory, t, id).found = own(TRUE)
                /\ TableGet(t, id).found = own(FALSE)
    /\ \A t \in Tenants, groups \in {Groups} \cup {{g} : g \in Groups},
          statuses \in Adapters.table.lists :
          /\ MemoryList(t, groups, statuses) = Answered(Expect(t, groups, statuses, TRUE))
          /\ \/ TableList(t, groups, statuses) = Answered(Expect(t, groups, statuses, FALSE))
             \/ Adapters.table.decodes = "all" /\ TableList(t, groups, statuses) = Refused
    /\ reply.memory = reply.table
    /\ reply.table = "stored" =>
          \A id \in reply.id : \E row \in table[id] : {row.tenant} = reply.tenant /\ {row.group} = reply.group

(* A row disappears only when a purge of its own tenant finds it finished,  *)
(* and finished for longer than some period of retention; the comparison of *)
(* texts may shorten the period by less than a second. A delivery counts    *)
(* from its creation.                                                       *)
KeptForItsPeriod ==
    [][\A id \in DocIds : \A row \in table[id] : table'[id] = {} =>
          /\ class \in {"execution", "demonstration", "approval", "outbox"} => row.status = "done"
          /\ \E p \in Periods :
                PurgeExpired(row.tenant, p) /\ \A s \in shelf[id] : clock - s.since > p - 2]_recordVars

(* docs/EVALUATION.md: storage/sqlite.Store exposes Evaluations(),          *)
(* AgentEvaluations() and ExtractorEvaluations() "for durable,              *)
(* tenant-isolated report and human-review history": the reports of one     *)
(* tenant do not keep another from its own.                                 *)
ReportsServeEveryTenant ==
    \A t \in Tenants : ~TableList(t, Groups, Phases).error
=============================================================================
