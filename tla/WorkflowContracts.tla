------------------------- MODULE WorkflowContracts -------------------------
(* The data of a workflow execution: which contracts, references and inputs *)
(* the preflight accepts, and what the steps then find when they resolve    *)
(* their references (validate.go, references.go, runtime.go). Leases,       *)
(* approvals and retries of the same steps are WorkflowExecutor's.          *)
(*                                                                          *)
(* A JSON value is a record with its kind; a contract is a record with one  *)
(* field for each keyword of the supported JSON Schema subset, where {}     *)
(* stands for an absent sub-schema. A reference is the sequence of its      *)
(* segments. A set of at most one element is "found" or "not found".        *)
(* Schemas and Values are the documents with all their parts; what is said  *)
(* of a document recursively is a function over them.                       *)
EXTENDS Integers, Sequences, FiniteSets, SequencesExt

CONSTANTS
    Schemas, Values,    \* the contracts and the JSON values
    Height(_),          \* how deep a contract nests
    MaxNesting,         \* the deepest contract that is accepted
    Position,           \* the segments strconv.Atoi reads, with their numbers
    Versions,           \* the workflow versions
    Inputs, Contexts,   \* what the task is given
    Results             \* what a tool may return

Untyped == "untyped"
NoSchema == [type |-> Untyped, properties |-> <<>>, required |-> {}, additional |-> {},
             closed |-> FALSE, items |-> {}, enum |-> {}]
Kinds == {"object", "array", "string", "integer"}

VARIABLES
    job,                \* [version, input, context]: what Execute is given
    state,              \* execution.State: step number |-> output
    next,               \* NextStep
    status,             \* new, rejected, running, completed, failed, recovery_required
    called,             \* tool calls made so far
    missing             \* the references whose absence failed the execution
contractVars == <<job, state, next, status, called, missing>>

ContractsStart(version, input, context) ==
    /\ job = [version |-> version, input |-> input, context |-> context]
    /\ state = <<>> /\ next = 1 /\ status = "new" /\ called = 0 /\ missing = {}

ContractsInit ==
    \E version \in Versions, input \in Inputs, context \in Contexts :
        ContractsStart(version, input, context)

-----------------------------------------------------------------------------
(* Contracts *)

SubSchemas(s) == {s.properties[n] : n \in DOMAIN s.properties} \cup s.additional \cup s.items

(* A contract at a depth, the whole contract at depth 0.                    *)
AcceptableSchema[p \in Schemas \X (0 .. MaxNesting + 1)] ==
    LET s == p[1]  depth == p[2]
    IN  \/ s = NoSchema
        \/ /\ depth <= MaxNesting
           /\ s.type \in Kinds \cup {Untyped}
           /\ \A child \in SubSchemas(s) : AcceptableSchema[<<child, depth + 1>>]

ValidateContractSchema(s, root) ==
    /\ root /\ s # NoSchema => s.type \in {Untyped, "object"}
    /\ AcceptableSchema[<<s, 0>>]

(* The parts of a value that are checked against a sub-schema.              *)
(* Mutant: additionalProperties is only read when it is a boolean.          *)
CheckedDeclaredOnly(s, v) ==
    CASE s.type = "object" ->
           {<<s.properties[n], v.fields[n]>> : n \in DOMAIN s.properties \cap DOMAIN v.fields}
      [] s.type = "array" -> {<<child, v.items[k]>> : child \in s.items, k \in DOMAIN v.items}
      [] OTHER -> {}

Checked(s, v) ==
    CASE s.type = "object" ->
           {<<s.properties[n], v.fields[n]>> : n \in DOMAIN s.properties \cap DOMAIN v.fields}
              \cup {<<child, v.fields[n]>> : child \in s.additional,
                                             n \in DOMAIN v.fields \ DOMAIN s.properties}
      [] s.type = "array" -> {<<child, v.items[k]>> : child \in s.items, k \in DOMAIN v.items}
      [] OTHER -> {}

(* Everything but enum hangs on the type: a schema that names none accepts  *)
(* every value, whatever its other keywords say.                            *)
AcceptedValue[p \in Schemas \X Values] ==
    LET s == p[1]  v == p[2]
    IN  \/ s = NoSchema
        \/ /\ s.enum = {} \/ v \in s.enum
           /\ s.type \in {Untyped, v.kind}
           /\ s.type = "object" =>
                 /\ s.required \subseteq DOMAIN v.fields
                 /\ s.closed => DOMAIN v.fields \subseteq DOMAIN s.properties
           /\ \A part \in Checked(s, v) : AcceptedValue[part]

ValidateContractValue(s, v) == AcceptedValue[<<s, v>>]

Below(s, segment) ==
    IF s.type = "array" THEN IF segment \in DOMAIN Position THEN s.items ELSE {}
    ELSE IF segment \in DOMAIN s.properties THEN {s.properties[segment]} ELSE s.additional

SchemaAt(s, path) ==
    FoldLeft(LAMBDA found, segment : UNION {Below(f, segment) : f \in found}, {s}, path)

ReferenceSchemaPathExists(s, path) == s # NoSchema /\ SchemaAt(s, path) # {}

-----------------------------------------------------------------------------
(* Data *)

Member(v, segment) ==
    CASE v.kind = "object" /\ segment \in DOMAIN v.fields -> {v.fields[segment]}
      [] v.kind = "array" /\ segment \in DOMAIN Position ->
            {v.items[k] : k \in {Position[segment] + 1} \cap DOMAIN v.items}
      [] OTHER -> {}

ValueAt(v, path) ==
    FoldLeft(LAMBDA found, segment : UNION {Member(f, segment) : f \in found}, {v}, path)

(* A reference to a step is <<"steps", its number, "output", ...>>.         *)
ResolveRef(ref) ==
    CASE Head(ref) = "input" -> ValueAt(job.input, Tail(ref))
      [] Head(ref) = "context" -> ValueAt(job.context, Tail(ref))
      [] Head(ref) = "steps" /\ Len(ref) > 2 ->
            UNION {ValueAt(state[k], SubSeq(ref, 4, Len(ref))) :
                     k \in {n \in DOMAIN state : job.version.steps[n].id = ref[2]}}
      [] OTHER -> {}

ResolveValue(value) == IF value.ref = <<>> THEN {value.literal} ELSE ResolveRef(value.ref)

(* Results: {} is an error, otherwise {TRUE} or {FALSE}. A comparison with  *)
(* a value that is not there is false, whatever the operator.               *)
EvaluateCondition(c) ==
    LET left == ResolveValue(c.left)
        right == ResolveValue(c.right)
    IN IF c.operator = "exists" THEN {left # {}}
       ELSE IF c.operator = "not_exists" THEN {left = {}}
       ELSE IF left = {} \/ right = {} THEN {FALSE}
       ELSE CASE c.operator = "eq" -> {left = right}
              [] c.operator = "ne" -> {left # right}
              [] c.operator = "gte" ->
                    {l.number >= r.number : l \in {x \in left : x.kind = "integer"},
                                            r \in {x \in right : x.kind = "integer"}}

-----------------------------------------------------------------------------
(* Preflight *)

ReferencedValues(step) ==
    step.arguments \cup step.key \cup UNION {{c.left, c.right} : c \in step.when \cup step.condition}

References(step) == {value.ref : value \in ReferencedValues(step)} \ {<<>>}

ValidateCondition(c) ==
    IF c.operator \in {"exists", "not_exists"} THEN c.left.ref # <<>> ELSE TRUE

ValidateStep(step) ==
    /\ \A c \in step.when \cup step.condition : ValidateCondition(c)
    /\ step.kind = "tool" => step.condition = {}
    /\ step.kind = "validation" => step.condition # {} /\ step.arguments \cup step.key = {}
    /\ step.kind = "approval" => step.condition \cup step.arguments \cup step.key = {}

(* Documents are finite and come with their parts.                          *)
ASSUME ContractsAssumption ==
    /\ MaxNesting \in Nat
    /\ \A s \in Schemas :
          /\ Height(s) \in Nat
          /\ \A child \in SubSchemas(s) : child \in Schemas /\ Height(child) < Height(s)
    /\ \A v \in Values :
          /\ \A n \in DOMAIN v.fields : v.fields[n] \in Values
          /\ \A k \in DOMAIN v.items : v.items[k] \in Values
    /\ Inputs \cup Contexts \cup Results \subseteq Values
    /\ \A version \in Versions :
          /\ version.inputSchema \in Schemas /\ version.contextSchema \in Schemas
          /\ version.steps \in Seq(Range(version.steps))
          /\ \A step \in Range(version.steps) :
                step.output \in Schemas /\ \A ref \in References(step) : ref \in Seq(Range(ref))

Validate(version) ==
    /\ version.steps # <<>>
    /\ ValidateContractSchema(version.inputSchema, TRUE)
    /\ ValidateContractSchema(version.contextSchema, TRUE)
    /\ \A k \in DOMAIN version.steps :
          /\ ValidateStep(version.steps[k])
          /\ \A j \in 1 .. k - 1 : version.steps[j].id # version.steps[k].id

ValidateReference(version, k, ref) ==
    \/ /\ Head(ref) = "input" /\ Len(ref) > 1
       /\ ReferenceSchemaPathExists(version.inputSchema, Tail(ref))
    \/ /\ Head(ref) = "context" /\ Len(ref) > 1
       /\ ReferenceSchemaPathExists(version.contextSchema, Tail(ref))
    \/ /\ Head(ref) = "steps" /\ Len(ref) > 2
       /\ ref[3] = "output"
       /\ \E j \in 1 .. k - 1 :
             /\ version.steps[j].id = ref[2] /\ version.steps[j].kind = "tool"
             /\ ReferenceSchemaPathExists(version.steps[j].output, SubSeq(ref, 4, Len(ref)))

ValidateReferences(version) ==
    /\ \A k \in DOMAIN version.steps :
          /\ ValidateContractSchema(version.steps[k].output, FALSE)
          /\ \A ref \in References(version.steps[k]) : ValidateReference(version, k, ref)

ValidateInputs(j) ==
    /\ ValidateContractValue(j.version.inputSchema, j.input)
    /\ ValidateContractValue(j.version.contextSchema, j.context)
    /\ \A k \in DOMAIN j.version.steps : \A ref \in References(j.version.steps[k]) :
          /\ Head(ref) = "input" => ValueAt(j.input, Tail(ref)) # {}
          /\ Head(ref) = "context" => ValueAt(j.context, Tail(ref)) # {}

Preflight ==
    /\ status = "new"
    /\ status' = IF Validate(job.version) /\ ValidateReferences(job.version) /\ ValidateInputs(job)
                 THEN "running" ELSE "rejected"
    /\ UNCHANGED <<job, state, next, called, missing>>

-----------------------------------------------------------------------------
(* The run *)

Step == job.version.steps[next]
Running == status = "running" /\ next \in DOMAIN job.version.steps
Due == Running /\ \A c \in Step.when : EvaluateCondition(c) = {TRUE}

Advance == next' = next + 1 /\ UNCHANGED <<job, status, missing>>
Fail(refs) == status' = "failed" /\ missing' = refs /\ UNCHANGED <<job, state, next>>

SkipStep ==
    /\ Running /\ \E c \in Step.when : EvaluateCondition(c) = {FALSE}
    /\ Advance /\ UNCHANGED <<state, called>>

(* A comparison by order finds something that is no number.                 *)
ConditionFails ==
    /\ Running
    /\ \/ \E c \in Step.when : EvaluateCondition(c) = {}
       \/ Due /\ \E c \in Step.condition : EvaluateCondition(c) # {TRUE}
    /\ Fail({}) /\ UNCHANGED called

StepPasses ==
    /\ Due /\ Step.kind \in {"validation", "approval"}
    /\ \A c \in Step.condition : EvaluateCondition(c) = {TRUE}
    /\ Advance /\ UNCHANGED <<state, called>>

Absent == {value.ref : value \in {x \in Step.arguments \cup Step.key : ResolveValue(x) = {}}}

ArgumentMissing ==
    /\ Due /\ Step.kind = "tool" /\ Absent # {}
    /\ Fail(Absent) /\ UNCHANGED called

(* The tool is called, and its output checked before it enters the state. A *)
(* result that breaks the contract of an effect asks for recovery.          *)
CallTool(output) ==
    /\ Due /\ Step.kind = "tool" /\ Absent = {}
    /\ called' = called + 1
    /\ IF ValidateContractValue(Step.output, output)
       THEN Advance /\ state' = [k \in DOMAIN state \cup {next} |->
                                    IF k = next THEN output ELSE state[k]]
       ELSE IF Step.effect
            THEN status' = "recovery_required" /\ UNCHANGED <<job, state, next, missing>>
            ELSE Fail({})

Complete ==
    /\ status = "running" /\ next > Len(job.version.steps)
    /\ status' = "completed" /\ UNCHANGED <<job, state, next, called, missing>>

ContractsNext ==
    \/ Preflight \/ SkipStep \/ ConditionFails \/ StepPasses \/ ArgumentMissing
    \/ \E output \in Results : CallTool(output)
    \/ Complete

ContractsSpec == ContractsInit /\ [][ContractsNext]_contractVars

-----------------------------------------------------------------------------
(* What a contract means: JSON Schema's own reading, in which a keyword     *)
(* applies to every value it can apply to.                                  *)
Conforming[p \in Schemas \X Values] ==
    LET s == p[1]  v == p[2]
    IN  /\ s.type # Untyped => v.kind = s.type
        /\ s.enum # {} => v \in s.enum
        /\ v.kind = "object" =>
              /\ \A n \in s.required : n \in DOMAIN v.fields
              /\ \A n \in DOMAIN v.fields \cap DOMAIN s.properties :
                    Conforming[<<s.properties[n], v.fields[n]>>]
              /\ \A n \in DOMAIN v.fields \ DOMAIN s.properties :
                    ~s.closed /\ \A child \in s.additional : Conforming[<<child, v.fields[n]>>]
        /\ v.kind = "array" =>
              \A k \in DOMAIN v.items, child \in s.items : Conforming[<<child, v.items[k]>>]

Conforms(s, v) == Conforming[<<s, v>>]

(* Every part of a contract that says something names its type.             *)
TypedSchema[s \in Schemas] ==
    /\ s.type = Untyped => [s EXCEPT !.enum = {}] = NoSchema
    /\ \A child \in SubSchemas(s) : TypedSchema[child]

Typed(s) == TypedSchema[s]

(* Every reference to the task's input or context that a step resolves is   *)
(* there: the preflight has seen each of them, in arguments, keys and       *)
(* conditions alike, before the first side effect (references.go            *)
(* ValidateInputs).                                                         *)
ExternalReferencesResolve ==
    /\ \A ref \in missing : Head(ref) = "steps"
    /\ Running => \A ref \in References(Step) :
                     Head(ref) \in {"input", "context"} => ResolveRef(ref) # {}

(* What a step finds at a reference has the shape the contract declares at  *)
(* that place, in JSON Schema's reading: the path that was checked against  *)
(* the schema and the value that was checked against it lead to the same    *)
(* spot, for properties, additional properties and array items, as long as  *)
(* every part of the contract names its type (references.go,                *)
(* referenceSchemaPathExists against validateContractValue).                *)
Contract(ref) ==
    CASE Head(ref) = "input" -> {<<job.version.inputSchema, Tail(ref)>>}
      [] Head(ref) = "context" -> {<<job.version.contextSchema, Tail(ref)>>}
      [] Head(ref) = "steps" ->
            {<<job.version.steps[j].output, SubSeq(ref, 4, Len(ref))>> :
                j \in {k \in 1 .. next - 1 : job.version.steps[k].id = ref[2]}}

ResolvedAsDeclared ==
    Running => \A ref \in References(Step) : \A c \in Contract(ref) :
       Typed(c[1]) => \A v \in ResolveRef(ref), s \in SchemaAt(c[1], c[2]) : Conforms(s, v)

(* Both: what the preflight accepts is there, and is what it was taken for. *)
ContractsSound == ExternalReferencesResolve /\ ResolvedAsDeclared

(* No reference turns out to be invalid after a tool has been called.       *)
NoLateReference == missing # {} => called = 0
=============================================================================
