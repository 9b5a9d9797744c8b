----------------------------- MODULE MCRelease -----------------------------
(***************************************************************************)
(* TLC instance of the way of a workflow: from demonstrations to a         *)
(* published version and its tasks (ReleaseLifecycle), and through the     *)
(* contracts of its steps (WorkflowContracts). To the lifecycle a version  *)
(* is a row with a status, to the contracts it is a list of steps: they    *)
(* share no state, and the rigid variable focus says which of them moves.  *)
(*                                                                         *)
(* Three callers follow one of eight scripts, each over the part of the    *)
(* lifecycle whose calls it lets race. A workflow is a lookup, guarded or  *)
(* not, whose output the second step uses, guards, keys or checks: every   *)
(* contract below for the input and the lookup, every value below for the  *)
(* task and the result.                                                    *)
(***************************************************************************)
EXTENDS ReleaseLifecycle, WorkflowContracts

CONSTANTS a, b, c, w1, w2, d1, d2

VARIABLE focus

-----------------------------------------------------------------------------
(* The scripts *)

People == {a, b, c}

Script0 == [backend |-> "sqlite",
            demos |-> [d \in {d1, d2} |-> "completed"],
            candidates |-> [w \in {w1, w2} |-> 0],
            vetted |-> TRUE,
            ops |-> [x \in People |-> {}],
            calls |-> [x \in People |-> 0],
            contracts |-> 0]

(* Two adapters deliver events while the demonstration is completed and    *)
(* learned from.                                                           *)
Recording == [Script0 EXCEPT
    !.backend = "memory", !.demos[d1] = "none",
    !.ops = [x \in People |-> IF x = c THEN {"record", "learn"} ELSE {"record"}],
    !.calls = [x \in People |-> IF x = c THEN 3 ELSE 2]]

(* Two callers learn the same workflow.                                    *)
Learning == [Script0 EXCEPT
    !.ops = [x \in People |-> IF x = b THEN {} ELSE {"learn"}],
    !.calls = [x \in People |-> IF x = b THEN 0 ELSE 2]]

(* A workflow is learned, vetted and published while the contracts of its  *)
(* tools change.                                                           *)
Vetting == [Script0 EXCEPT
    !.ops[a] = {"learn", "publish"}, !.ops[b] = {"evaluate", "review"},
    !.calls[a] = 2, !.calls[b] = 2, !.contracts = 1]

(* Two publications race evaluations and reviews.                          *)
Releasing == [Script0 EXCEPT
    !.candidates[w1] = 2,
    !.ops = [x \in People |-> IF x = b THEN {"review", "evaluate"} ELSE {"publish"}],
    !.calls = [x \in People |-> IF x = b THEN 2 ELSE 1]]

(* Routes are read, saved and deleted while their targets are published.   *)
Routing == [Script0 EXCEPT
    !.candidates = [w \in {w1, w2} |-> IF w = w1 THEN 2 ELSE 1],
    !.ops = [x \in People |-> IF x = a THEN {"publish"} ELSE {"read_route", "route", "unroute"}],
    !.calls = [x \in People |-> IF x = a THEN 2 ELSE 3]]

(* Tasks are executed while new versions are published.                    *)
Executing(backend) == [Script0 EXCEPT
    !.backend = backend, !.candidates[w1] = 2,
    !.ops[a] = {"publish"}, !.ops[b] = {"route", "execute"}, !.ops[c] = {"execute"},
    !.calls[a] = 2, !.calls[b] = 2, !.calls[c] = 1]

(* Executions are labelled, and the labels lead to an improved candidate.  *)
Improving == [Script0 EXCEPT
    !.backend = "memory", !.candidates[w1] = 1,
    !.ops[a] = {"publish"}, !.ops[c] = {"execute", "feedback", "improve"},
    !.calls[a] = 1, !.calls[c] = 4]

MCScripts == {Recording, Learning, Vetting, Releasing, Routing, Improving}
                \cup {Executing(s) : s \in {"memory", "sqlite"}}

-----------------------------------------------------------------------------
(* The contracts *)

MCPosition == "0" :> 0 @@ "1" :> 1 @@ "-1" :> -1

Value(kind, fields, items, number) ==
    [kind |-> kind, fields |-> fields, items |-> items, number |-> number]
Num(n) == Value("integer", <<>>, <<>>, n)
Str == Value("string", <<>>, <<>>, 0)
Obj(fields) == Value("object", fields, <<>>, 0)
Arr(items) == Value("array", <<>>, items, 0)

MCValues == {Obj(<<>>), Obj("id" :> Num(1)), Obj("id" :> Str), Obj("id" :> Num(1) @@ "x" :> Str),
             Obj("x" :> Num(0)), Obj("id" :> Arr(<<Num(1)>>)), Obj("id" :> Arr(<<>>)),
             Obj("id" :> Obj("id" :> Num(1))), Arr(<<Obj("id" :> Num(0))>>), Num(0)}

Of(type) == [NoSchema EXCEPT !.type = type]
Holding(id) == [Of("object") EXCEPT !.properties = "id" :> id]
MCSchemas ==
    {NoSchema, Of("object"), Holding(Of("integer")), Holding(NoSchema),
     [Holding(Of("integer")) EXCEPT !.required = {"id"}, !.closed = TRUE],
     [Holding(Of("integer")) EXCEPT !.additional = {Of("string")}],
     [Of("object") EXCEPT !.additional = {Of("integer")}],
     Holding([Of("array") EXCEPT !.items = {Of("integer")}]),
     Holding(Holding(Of("integer"))),
     Holding([Of("integer") EXCEPT !.enum = {Num(1)}]),
     [NoSchema EXCEPT !.properties = "id" :> Of("integer"), !.required = {"id"}],
     [Of("array") EXCEPT !.items = {Holding(Of("integer"))}],
     Holding(Of("date")),
     Holding(Holding(Holding(Of("integer"))))}

RECURSIVE MCHeight(_)
MCHeight(s) == IF SubSchemas(s) = {} THEN 0 ELSE 1 + Max({MCHeight(child) : child \in SubSchemas(s)})

RECURSIVE PartsOf(_)
PartsOf(s) == {s} \cup UNION {PartsOf(child) : child \in SubSchemas(s)}
MCAllSchemas == UNION {PartsOf(s) : s \in MCSchemas}
MCAllValues == MCValues \cup {Num(1), Str, Arr(<<Num(1)>>), Arr(<<>>), Obj("id" :> Num(0))}

Ref(path) == [ref |-> path, literal |-> Num(0)]
Literal == [ref |-> <<>>, literal |-> Num(0)]
Paths == {<<"id">>, <<"x">>, <<"id", "0">>, <<"id", "-1">>, <<"id", "id">>, <<"0", "id">>}
Roots == {<<"input">>, <<"steps", "look", "output">>}
MCRefs == {Ref(root \o path) : root \in Roots, path \in Paths}
             \cup {Ref(<<"steps", "look", "output">>), Ref(<<"input">>), Ref(<<"steps", "act", "output">>)}

Cond(value, operator) == [left |-> value, operator |-> operator, right |-> Literal]
MCSteps(ref, output, skip) ==
    LET look == [id |-> "look", kind |-> "tool", output |-> output, effect |-> FALSE,
                 arguments |-> {Literal}, key |-> {}, condition |-> {},
                 when |-> IF skip THEN {Cond(Ref(<<"input", "x">>), "gte")} ELSE {}]
        act == [look EXCEPT !.id = "act", !.output = NoSchema, !.effect = TRUE,
                            !.arguments = {}, !.when = {}]
    IN {<<look, [act EXCEPT !.arguments = {ref}]>>,
        <<look, [act EXCEPT !.key = {ref}]>>,
        <<[look EXCEPT !.effect = TRUE],
          [act EXCEPT !.kind = "validation", !.condition = {Cond(ref, "eq")}]>>,
        <<look, [act EXCEPT !.when = {Cond(ref, "not_exists")}]>>,
        <<[look EXCEPT !.kind = "approval", !.arguments = {}], [act EXCEPT !.arguments = {ref}]>>}

MCVersions ==
    {[steps |-> steps, inputSchema |-> inputSchema, contextSchema |-> NoSchema] :
        steps \in UNION {MCSteps(ref, output, skip) :
                            ref \in MCRefs, output \in MCSchemas, skip \in BOOLEAN},
        inputSchema \in MCSchemas}
MCInputs == {v \in MCValues : v.kind = "object"}
MCContexts == {Obj(<<>>)}

-----------------------------------------------------------------------------

MCInit ==
    \/ /\ focus = "lifecycle" /\ Init
       /\ ContractsStart(CHOOSE v \in MCVersions : TRUE, Obj(<<>>), Obj(<<>>))
    \/ /\ focus = "contracts" /\ ContractsInit
       /\ script = Recording /\ Init

MCNext ==
    /\ UNCHANGED focus
    /\ \/ focus = "lifecycle" /\ Next /\ UNCHANGED contractVars
       \/ focus = "contracts" /\ ContractsNext /\ UNCHANGED vars

MCSpec == MCInit /\ [][MCNext]_<<vars, contractVars, focus>>
=============================================================================
