------------------------ MODULE WorkflowExecutorProofs ------------------------
(***************************************************************************)
(* Proofs about WorkflowExecutor, for any workflow, deployment, processes, *)
(* lease duration and bounds: types, the order of effects, approval before *)
(* a call; the immutability of what is finished; that the store takes what *)
(* the owner of an execution saves; and, when every claimed snapshot is    *)
(* looked at again, that nothing is replayed without a decision, that one  *)
(* call of a step is made at a time and, without faults, that a call of    *)
(* unknown outcome is not filed as a failure.                              *)
(*                                                                         *)
(* What a document must satisfy is said with everything it depends on as a *)
(* parameter: the workflow wf, the document, the approvals, the calls made *)
(* and the steps confirmed.  It holds of the stored row and of the copy of *)
(* every process alike, which is why it does not matter whose save wins.   *)
(***************************************************************************)
EXTENDS WorkflowExecutor, TLAPS

Finished == {"completed", "skipped"}

Doc(n) ==
    [rev : Nat, status : ExecutionStatus, next : 1 .. n + 1,
     pending : Nat, approved : SUBSET (1 .. n),
     steps : [1 .. n -> [status : StepStatus, attempts : Nat]]]

ApprovalType ==
    [status : {"pending", "granted", "rejected", "expired", "canceled"},
     step : Nat, expires : Nat]

GrantedIn(apps, i) ==
    \E id \in DOMAIN apps : apps[id].step = i /\ apps[id].status = "granted"

Awaits(wf, doc) == NeedsApproval(wf[doc.next]) /\ doc.next \notin doc.approved

\* Every step before the next one is finished; a completed one was called and
\* approved as it needs to be, or confirmed; recorded approvals were granted;
\* and a pending one is of the next step, which still awaits it.
DocSound(wf, doc, apps, cs, conf) ==
    /\ \A j \in 1 .. Len(wf) : j < doc.next => doc.steps[j].status \in Finished
    /\ \A i \in 1 .. Len(wf) :
          doc.steps[i].status = "completed" /\ i \notin conf =>
             /\ wf[i].kind = "tool" => cs[i] > 0
             /\ NeedsApproval(wf[i]) => GrantedIn(apps, i)
    /\ \A i \in doc.approved : GrantedIn(apps, i)
    /\ doc.pending # 0 =>
          /\ doc.pending \in DOMAIN apps /\ apps[doc.pending].step = doc.next
          /\ doc.next \in 1 .. Len(wf)
          /\ wf[doc.next].when /\ Awaits(wf, doc)

\* The equivalence every stored document satisfies.
Settled(doc) == (doc.status = "awaiting_approval") <=> (doc.pending # 0)

\* Where a process still works from a document as it was stored.
ReadLabels == DOMAIN AcquireTargets \cup {"claimed", "interrupted", "resume", "recover_op"}
ApprovedLabels == {"attempt", "called", "tool", "record", "complete"}
StepLabels == {"step", "request"} \cup ApprovedLabels

\* What each label of a process says of its document.  One that is about to
\* release may hold what the store has refused.
LocalSound(wf, label, doc, apps, cs, conf) ==
    /\ label # "release" => DocSound(wf, doc, apps, cs, conf)
    /\ label \in ReadLabels => Settled(doc)
    /\ label \in StepLabels => doc.next \in 1 .. Len(wf) /\ wf[doc.next].when
    /\ label = "request" => Awaits(wf, doc)
    /\ label \in ApprovedLabels => ~Awaits(wf, doc)
    /\ (label \in {"tool", "record"} \/ (label = "complete" /\ wf[doc.next].kind = "tool"))
          => cs[doc.next] > 0

LeaseTypes ==
    /\ now \in Nat
    /\ lease \in Lease /\ fence \in Nat
    /\ claim \in [Procs -> Lease]
    /\ live \in [Procs -> BOOLEAN]
    /\ try \in [Procs -> Nat]

Types ==
    /\ deployment \in Deployments
    /\ LeaseTypes
    /\ row \in Doc(N) /\ ValidCheckpoint(row, NoApproval)
    /\ approvals \in Seq(ApprovalType)
    /\ pc \in [Procs -> Labels]
    /\ ex \in [Procs -> Doc(N)]
    /\ calls \in [Steps -> Nat] /\ confirmed \subseteq Steps

\* A call is made of the next step of a stored document, with its approval.
CallsSound(wf, doc, apps, cs) ==
    \A i \in 1 .. Len(wf) :
        cs[i] > 0 =>
           /\ \A j \in 1 .. i - 1 : doc.steps[j].status \in Finished
           /\ NeedsApproval(wf[i]) => GrantedIn(apps, i)

ExecInv ==
    /\ Types
    /\ row.rev = 0 => row = NoExecution /\ \A i \in Steps : calls[i] = 0
    /\ DocSound(Workflow, row, approvals, calls, confirmed)
    /\ CallsSound(Workflow, row, approvals, calls)
    /\ \A p \in Procs : LocalSound(Workflow, pc[p], ex[p], approvals, calls, confirmed)

-----------------------------------------------------------------------------
\* Documents

LEMMA WorkflowType ==
    ASSUME deployment \in Deployments
    PROVE  /\ Workflow \in Seq(Step) /\ N \in Nat \ {0} /\ N = Len(Workflow)
           /\ Steps = 1 .. Len(Workflow) /\ Workflow # <<>>
           /\ WorkerOf \in [Procs -> Workers \cup {NoWorker}]
           /\ Deadline \in Nat /\ deployment.ttl \in Nat
<1>1. deployment \in Deployment /\ deployment.workflow # <<>>
  BY DeploymentsAssumption
<1>2. deployment.workflow \in Seq(Step)
  BY <1>1 DEF Deployment
<1>3. Len(deployment.workflow) \in Nat /\ Len(deployment.workflow) # 0
  BY <1>1, <1>2
<1>4. QED
  BY <1>1, <1>2, <1>3 DEF Deployment, Workflow, N, Steps, WorkerOf, Deadline

\* A document whose step was given a status.
LEMMA WithStepFacts ==
    ASSUME NEW n \in Nat, NEW doc \in Doc(n), NEW s \in StepStatus
    PROVE  LET d == WithStep(doc, s) IN
           /\ d \in Doc(n)
           /\ d.rev = doc.rev /\ d.status = doc.status /\ d.next = doc.next
           /\ d.pending = doc.pending /\ d.approved = doc.approved
           /\ \A i \in 1 .. n : d.steps[i].status = IF i = doc.next THEN s ELSE doc.steps[i].status
<1> DEFINE d == WithStep(doc, s)
           t == [doc.steps EXCEPT ![doc.next].status = s]
<1>1. doc.steps \in [1 .. n -> [status : StepStatus, attempts : Nat]]
  BY DEF Doc
<1>2. t \in [1 .. n -> [status : StepStatus, attempts : Nat]]
  BY <1>1
<1>3. \A i \in 1 .. n : t[i].status = IF i = doc.next THEN s ELSE doc.steps[i].status
  BY <1>1
<1>4. d = [doc EXCEPT !.steps = t]
  BY DEF WithStep
<1> HIDE DEF t
<1>5. d \in Doc(n) /\ d.steps = t
  BY <1>2, <1>4 DEF Doc
<1>6. /\ d.rev = doc.rev /\ d.status = doc.status /\ d.next = doc.next
      /\ d.pending = doc.pending /\ d.approved = doc.approved
  BY <1>4 DEF Doc
<1>7. QED
  BY <1>3, <1>5, <1>6

\* A document whose next step is passed.
LEMMA PassedFacts ==
    ASSUME NEW n \in Nat, NEW doc \in Doc(n), NEW s \in StepStatus, doc.next \in 1 .. n
    PROVE  LET d == Passed(doc, s) IN
           /\ d \in Doc(n)
           /\ d.rev = doc.rev /\ d.status = doc.status /\ d.next = doc.next + 1
           /\ d.pending = doc.pending /\ d.approved = doc.approved
           /\ \A i \in 1 .. n : d.steps[i].status = IF i = doc.next THEN s ELSE doc.steps[i].status
<1> DEFINE w == WithStep(doc, s)
<1>1. /\ w \in Doc(n) /\ w.next = doc.next
      /\ w.rev = doc.rev /\ w.status = doc.status
      /\ w.pending = doc.pending /\ w.approved = doc.approved
      /\ \A i \in 1 .. n : w.steps[i].status = IF i = doc.next THEN s ELSE doc.steps[i].status
  BY WithStepFacts
<1>2. Passed(doc, s) = [w EXCEPT !.next = w.next + 1]
  BY DEF Passed
<1> HIDE DEF w
<1>3. w.next + 1 \in 1 .. n + 1
  BY <1>1
<1>4. QED
  BY <1>1, <1>2, <1>3 DEF Doc

\* What a process does to its document without passing a step: fields that the
\* order of effects does not see, and the status of a step, but to completed.
LEMMA EditedSound ==
    ASSUME NEW wf, NEW doc, NEW d, NEW apps, NEW cs, NEW conf,
           DocSound(wf, doc, apps, cs, conf),
           d.next = doc.next, d.approved = doc.approved, d.pending \in {doc.pending, 0},
           \A i \in 1 .. Len(wf) : i # doc.next => d.steps[i].status = doc.steps[i].status,
           \A i \in 1 .. Len(wf) : d.steps[i].status = "completed" => doc.steps[i].status = "completed",
           doc.next \in Nat, Len(wf) \in Nat
    PROVE  DocSound(wf, d, apps, cs, conf)
BY DEF DocSound, Awaits

LEMMA PassedSound ==
    ASSUME NEW wf, NEW doc, NEW d, NEW apps, NEW cs, NEW conf, NEW s \in Finished,
           DocSound(wf, doc, apps, cs, conf),
           doc.next \in 1 .. Len(wf), Len(wf) \in Nat,
           d.next = doc.next + 1, d.approved = doc.approved, d.pending = 0,
           \A i \in 1 .. Len(wf) :
              d.steps[i].status = IF i = doc.next THEN s ELSE doc.steps[i].status,
           s = "completed" /\ doc.next \notin conf =>
              /\ wf[doc.next].kind = "tool" => cs[doc.next] > 0
              /\ NeedsApproval(wf[doc.next]) => GrantedIn(apps, doc.next)
    PROVE  DocSound(wf, d, apps, cs, conf)
BY DEF DocSound, Finished

\* Approvals are only added and granted, calls only made, steps only confirmed.
Grows(apps, apps2, cs, cs2, conf, conf2, n) ==
    /\ DOMAIN apps \subseteq DOMAIN apps2
    /\ \A id \in DOMAIN apps :
          /\ apps2[id].step = apps[id].step
          /\ apps[id].status = "granted" => apps2[id].status = "granted"
    /\ \A i \in 1 .. n : cs[i] > 0 => cs2[i] > 0
    /\ conf \subseteq conf2

LEMMA GrantedGrows ==
    ASSUME NEW apps, NEW apps2, NEW cs, NEW cs2, NEW conf, NEW conf2, NEW n,
           Grows(apps, apps2, cs, cs2, conf, conf2, n), NEW i, GrantedIn(apps, i)
    PROVE  GrantedIn(apps2, i)
BY DEF Grows, GrantedIn

LEMMA SoundGrows ==
    ASSUME NEW wf, NEW doc, NEW apps, NEW apps2, NEW cs, NEW cs2, NEW conf, NEW conf2,
           Grows(apps, apps2, cs, cs2, conf, conf2, Len(wf)),
           DocSound(wf, doc, apps, cs, conf)
    PROVE  DocSound(wf, doc, apps2, cs2, conf2)
<1>1. \A i : GrantedIn(apps, i) => GrantedIn(apps2, i)
  BY GrantedGrows
<1>2. QED
  BY <1>1 DEF DocSound, Grows

LEMMA LocalGrows ==
    ASSUME NEW wf, NEW label, NEW doc, NEW apps, NEW apps2, NEW cs, NEW cs2, NEW conf, NEW conf2,
           Grows(apps, apps2, cs, cs2, conf, conf2, Len(wf)),
           LocalSound(wf, label, doc, apps, cs, conf)
    PROVE  LocalSound(wf, label, doc, apps2, cs2, conf2)
<1>1. label # "release" => DocSound(wf, doc, apps2, cs2, conf2)
  BY SoundGrows DEF LocalSound
<1>2. label \in StepLabels /\ cs[doc.next] > 0 => cs2[doc.next] > 0
  BY DEF LocalSound, Grows
<1>3. QED
  BY <1>1, <1>2 DEF LocalSound, StepLabels, ApprovedLabels

-----------------------------------------------------------------------------
\* What each kind of step preserves

LEMMA SameWorkflow ==
    ASSUME deployment' = deployment
    PROVE  Workflow' = Workflow /\ N' = N /\ Steps' = Steps /\ NoExecution' = NoExecution
BY DEF Workflow, N, Steps, NoExecution, NoApproval

LEMMA ReleaseSound ==
    ASSUME NEW wf, NEW doc, NEW apps, NEW cs, NEW conf
    PROVE  LocalSound(wf, "release", doc, apps, cs, conf)
BY DEF LocalSound, ReadLabels, AcquireTargets, StepLabels, ApprovedLabels

\* Labels that ask nothing more of a document than that it is sound.
PlainLabels ==
    {"idle", "expire_pending", "reject", "cancel", "cancel_save", "expire", "run_expire",
     "run_cancel_save", "run", "await", "save_incomplete", "recovery", "fail"}

LEMMA PlainSound ==
    ASSUME NEW wf, NEW label \in PlainLabels, NEW doc, NEW apps, NEW cs, NEW conf,
           DocSound(wf, doc, apps, cs, conf)
    PROVE  LocalSound(wf, label, doc, apps, cs, conf)
BY DEF LocalSound, PlainLabels, ReadLabels, AcquireTargets, StepLabels, ApprovedLabels

\* One process moves; whatever it changed of what is shared only grows.
LEMMA OneMoves ==
    ASSUME ExecInv, NEW p \in Procs, NEW label \in Labels, NEW doc \in Doc(N),
           pc' = [pc EXCEPT ![p] = label], ex' = [ex EXCEPT ![p] = doc],
           deployment' = deployment, LeaseTypes',
           approvals' \in Seq(ApprovalType), calls' \in [Steps -> Nat], confirmed' \subseteq Steps,
           Grows(approvals, approvals', calls, calls', confirmed, confirmed', N),
           row' \in Doc(N), ValidCheckpoint(row', NoApproval),
           row'.rev = 0 => row' = NoExecution /\ \A i \in Steps : calls'[i] = 0,
           DocSound(Workflow, row', approvals', calls', confirmed'),
           CallsSound(Workflow, row', approvals', calls'),
           LocalSound(Workflow, label, doc, approvals', calls', confirmed')
    PROVE  ExecInv'
<1>1. Workflow' = Workflow /\ N' = N /\ Steps' = Steps /\ NoExecution' = NoExecution
  BY SameWorkflow
<1>2. pc' \in [Procs -> Labels] /\ ex' \in [Procs -> Doc(N)]
  BY DEF ExecInv, Types
<1>3. Types'
  BY <1>1, <1>2 DEF ExecInv, Types, NoApproval
<1>4. N = Len(Workflow)
  BY DEF N
<1>5. ASSUME NEW q \in Procs
      PROVE  LocalSound(Workflow, pc'[q], ex'[q], approvals', calls', confirmed')
  <2>1. CASE q = p
    <3>1. pc'[p] = label /\ ex'[p] = doc
      BY DEF ExecInv, Types
    <3>2. QED
      BY <2>1, <3>1
  <2>2. CASE q # p
    <3>1. pc'[q] = pc[q] /\ ex'[q] = ex[q]
      BY <2>2 DEF ExecInv, Types
    <3>2. LocalSound(Workflow, pc[q], ex[q], approvals, calls, confirmed)
      BY DEF ExecInv
    <3>3. QED
      BY <3>1, <3>2, <1>4, LocalGrows
  <2>3. QED
    BY <2>1, <2>2
<1>6. QED
  BY <1>1, <1>3, <1>5 DEF ExecInv

LEMMA GrowsSame ==
    ASSUME NEW apps, NEW cs, NEW conf, NEW n
    PROVE  Grows(apps, apps, cs, cs, conf, conf, n)
BY DEF Grows

\* Nothing shared changes but leases.
LEMMA QuietMove ==
    ASSUME ExecInv, NEW p \in Procs, NEW label \in Labels, NEW doc \in Doc(N),
           pc' = [pc EXCEPT ![p] = label], ex' = [ex EXCEPT ![p] = doc],
           UNCHANGED <<deployment, row, approvals, calls, confirmed>>, LeaseTypes',
           LocalSound(Workflow, label, doc, approvals, calls, confirmed)
    PROVE  ExecInv'
<1>1. Grows(approvals, approvals, calls, calls, confirmed, confirmed, N)
  BY GrowsSame
<1>2. /\ approvals \in Seq(ApprovalType) /\ calls \in [Steps -> Nat] /\ confirmed \subseteq Steps
      /\ row \in Doc(N) /\ ValidCheckpoint(row, NoApproval)
      /\ row.rev = 0 => row = NoExecution /\ \A i \in Steps : calls[i] = 0
      /\ DocSound(Workflow, row, approvals, calls, confirmed)
      /\ CallsSound(Workflow, row, approvals, calls)
  BY DEF ExecInv, Types
<1>3. QED
  BY <1>1, <1>2, OneMoves

LEMMA LeaseTypesSame ==
    ASSUME LeaseTypes, UNCHANGED <<now, lease, fence, claim, live, try>>
    PROVE  LeaseTypes'
BY DEF LeaseTypes

LEMMA Jump ==
    ASSUME ExecInv, NEW p \in Procs, NEW label \in Labels, Goto(p, label),
           LocalSound(Workflow, label, ex[p], approvals, calls, confirmed)
    PROVE  ExecInv'
<1>1. /\ pc' = [pc EXCEPT ![p] = label]
      /\ UNCHANGED <<deployment, now, row, lease, fence, approvals, ex, claim, live, try,
                     calls, confirmed>>
  BY DEF Goto, world, store, history
<1>2. ex[p] \in Doc(N) /\ ex' = [ex EXCEPT ![p] = ex[p]]
  BY <1>1 DEF ExecInv, Types
<1>3. LeaseTypes'
  BY <1>1, LeaseTypesSame DEF ExecInv, Types
<1>4. QED
  BY <1>1, <1>2, <1>3, QuietMove

LEMMA ReleaseJump ==
    ASSUME ExecInv, NEW p \in Procs, Goto(p, "release")
    PROVE  ExecInv'
<1>1. "release" \in Labels
  BY DEF Labels
<1>2. QED
  BY <1>1, Jump, ReleaseSound

LEMMA PlainJump ==
    ASSUME ExecInv, NEW p \in Procs, NEW label \in PlainLabels, Goto(p, label),
           pc[p] # "release"
    PROVE  ExecInv'
<1>1. label \in Labels
  BY DEF Labels, PlainLabels
<1>2. DocSound(Workflow, ex[p], approvals, calls, confirmed)
  BY DEF ExecInv, LocalSound
<1>3. QED
  BY <1>1, <1>2, Jump, PlainSound

-----------------------------------------------------------------------------
\* Saves

\* The revision says nothing of the order of effects.
LEMMA Revised ==
    ASSUME NEW wf, NEW label, NEW doc, NEW d, NEW apps, NEW cs, NEW conf,
           d.next = doc.next, d.approved = doc.approved, d.pending = doc.pending,
           d.steps = doc.steps, d.status = doc.status
    PROVE  /\ DocSound(wf, doc, apps, cs, conf) => DocSound(wf, d, apps, cs, conf)
           /\ LocalSound(wf, label, doc, apps, cs, conf) => LocalSound(wf, label, d, apps, cs, conf)
<1>1. DocSound(wf, doc, apps, cs, conf) => DocSound(wf, d, apps, cs, conf)
  BY DEF DocSound, Awaits
<1>2. QED
  BY <1>1 DEF LocalSound, Settled, Awaits

\* What a new revision leaves as it was.
LEMMA FinishedStays ==
    ASSUME NEW n \in Nat, NEW before \in Doc(n), NEW after \in Doc(n),
           ValidUpdate(before, after), NEW i \in 1 .. n,
           before.steps[i].status \in Finished
    PROVE  after.steps[i].status = before.steps[i].status
<1>1. i \in DOMAIN before.steps
  BY DEF Doc
<1>2. AllowedStepTransition(before.steps[i].status, after.steps[i].status)
  BY <1>1 DEF ValidUpdate
<1>3. QED
  BY <1>2 DEF AllowedStepTransition, StepSuccessors, Finished

\* The store took the document: the row and the memory of the process are it.
LEMMA Saved ==
    ASSUME ExecInv, NEW p \in Procs, NEW label \in Labels, NEW doc \in Doc(N),
           Accepts(p, doc), row' = [doc EXCEPT !.rev = @ + 1],
           pc' = [pc EXCEPT ![p] = label], ex' = [ex EXCEPT ![p] = row'],
           UNCHANGED <<deployment, approvals>>, LeaseTypes',
           calls' \in [Steps -> Nat], confirmed' \subseteq Steps,
           Grows(approvals, approvals, calls, calls', confirmed, confirmed', N),
           \A i \in Steps : calls'[i] > 0 /\ ~(calls[i] > 0) =>
              i = doc.next /\ ~Awaits(Workflow, doc),
           DocSound(Workflow, doc, approvals, calls', confirmed'),
           LocalSound(Workflow, label, doc, approvals, calls', confirmed')
    PROVE  ExecInv'
<1>1. /\ N = Len(Workflow) /\ N \in Nat /\ Steps = 1 .. N
      /\ row \in Doc(N) /\ approvals \in Seq(ApprovalType)
  BY WorkflowType DEF ExecInv, Types
<1>2. /\ row' \in Doc(N) /\ row'.rev = doc.rev + 1
      /\ row'.next = doc.next /\ row'.approved = doc.approved /\ row'.pending = doc.pending
      /\ row'.steps = doc.steps /\ row'.status = doc.status
  BY DEF Doc
<1>3. ValidCheckpoint(doc, NoApproval) /\ ValidUpdate(row, doc)
  BY DEF Accepts
<1>4. ValidCheckpoint(row', NoApproval)
  BY <1>2, <1>3 DEF ValidCheckpoint
<1>5. row'.rev # 0
  BY <1>2 DEF Doc
<1>6. /\ DocSound(Workflow, row', approvals, calls', confirmed')
      /\ LocalSound(Workflow, label, row', approvals, calls', confirmed')
  BY <1>2, Revised
<1>7. CallsSound(Workflow, row', approvals, calls')
  <2> SUFFICES ASSUME NEW i \in 1 .. Len(Workflow), calls'[i] > 0
      PROVE  /\ \A j \in 1 .. i - 1 : row'.steps[j].status \in Finished
             /\ NeedsApproval(Workflow[i]) => GrantedIn(approvals, i)
    BY DEF CallsSound
  <2>1. CASE calls[i] > 0
    <3>1. /\ \A j \in 1 .. i - 1 : row.steps[j].status \in Finished
          /\ NeedsApproval(Workflow[i]) => GrantedIn(approvals, i)
      BY <2>1 DEF ExecInv, CallsSound
    <3>2. \A j \in 1 .. i - 1 : row'.steps[j].status = row.steps[j].status
      BY <1>1, <1>2, <1>3, <3>1, FinishedStays
    <3>3. QED
      BY <3>1, <3>2
  <2>2. CASE ~(calls[i] > 0)
    <3>1. i = doc.next /\ ~Awaits(Workflow, doc)
      BY <1>1, <2>2
    <3>2. \A j \in 1 .. i - 1 : row'.steps[j].status \in Finished
      BY <3>1, <1>1, <1>2 DEF DocSound
    <3>3. NeedsApproval(Workflow[i]) => GrantedIn(approvals, i)
      BY <3>1 DEF DocSound, Awaits
    <3>4. QED
      BY <3>2, <3>3
  <2>3. QED
    BY <2>1, <2>2
<1>8. QED
  BY <1>1, <1>2, <1>4, <1>5, <1>6, <1>7, OneMoves

LEMMA SaveCases ==
    ASSUME NEW p, NEW doc, NEW detached, NEW onOk, NEW onErr,
           Save(p, doc, detached, onOk, onErr)
    PROVE  \/ /\ Accepts(p, doc) /\ row' = [doc EXCEPT !.rev = @ + 1]
              /\ ex' = [ex EXCEPT ![p] = row'] /\ pc' = [pc EXCEPT ![p] = onOk]
           \/ row' = row /\ ex' = [ex EXCEPT ![p] = doc] /\ pc' = [pc EXCEPT ![p] = onErr]
BY DEF Save

\* A save that makes no call keeps the invariant if its document is sound.
LEMMA SavesKeep ==
    ASSUME ExecInv, NEW p \in Procs, NEW doc \in Doc(N), NEW detached,
           NEW onOk \in Labels, NEW onErr \in Labels,
           Saves(p, doc, detached, onOk, onErr),
           DocSound(Workflow, doc, approvals, calls, confirmed),
           LocalSound(Workflow, onOk, doc, approvals, calls, confirmed),
           LocalSound(Workflow, onErr, doc, approvals, calls, confirmed)
    PROVE  ExecInv'
<1>1. /\ UNCHANGED <<deployment, now, lease, fence, approvals, claim, live, try, calls, confirmed>>
      /\ Save(p, doc, detached, onOk, onErr)
  BY DEF Saves, world, history
<1>2. LeaseTypes' /\ calls \in [Steps -> Nat] /\ confirmed \subseteq Steps
  BY <1>1, LeaseTypesSame DEF ExecInv, Types
<1>3. Grows(approvals, approvals, calls, calls, confirmed, confirmed, N)
  BY GrowsSame
<1>4. CASE /\ Accepts(p, doc) /\ row' = [doc EXCEPT !.rev = @ + 1]
           /\ ex' = [ex EXCEPT ![p] = row'] /\ pc' = [pc EXCEPT ![p] = onOk]
  BY <1>1, <1>2, <1>3, <1>4, Saved
<1>5. CASE row' = row /\ ex' = [ex EXCEPT ![p] = doc] /\ pc' = [pc EXCEPT ![p] = onErr]
  BY <1>1, <1>2, <1>5, QuietMove
<1>6. QED
  BY <1>1, <1>4, <1>5, SaveCases

LEMMA PlainSave ==
    ASSUME ExecInv, NEW p \in Procs, NEW doc \in Doc(N), NEW detached,
           NEW onOk \in PlainLabels \cup {"release"}, NEW onErr \in PlainLabels \cup {"release"},
           Saves(p, doc, detached, onOk, onErr),
           DocSound(Workflow, doc, approvals, calls, confirmed)
    PROVE  ExecInv'
<1>1. onOk \in Labels /\ onErr \in Labels
  BY DEF Labels, PlainLabels
<1>2. /\ LocalSound(Workflow, onOk, doc, approvals, calls, confirmed)
      /\ LocalSound(Workflow, onErr, doc, approvals, calls, confirmed)
  BY PlainSound, ReleaseSound
<1>3. QED
  BY <1>1, <1>2, SavesKeep

-----------------------------------------------------------------------------
\* Entry and acquisition

LEMMA FirstDocument ==
    ASSUME NEW n \in Nat \ {0}, NEW r \in Nat,
           NEW steps \in [1 .. n -> [status : StepStatus, attempts : Nat]]
    PROVE  [rev |-> r, status |-> "running", next |-> 1, pending |-> 0,
            approved |-> {}, steps |-> steps] \in Doc(n)
<1>1. 1 \in 1 .. n + 1 /\ "running" \in ExecutionStatus
  BY DEF ExecutionStatus
<1>2. QED
  BY <1>1 DEF Doc

LEMMA EmptyDocument ==
    ASSUME deployment \in Deployments, NEW apps, NEW cs, NEW conf, NEW r \in Nat,
           NEW d, d = [NoExecution EXCEPT !.rev = r]
    PROVE  /\ d \in Doc(N) /\ d.rev = r /\ d.status = "running"
           /\ d.next = 1 /\ d.pending = 0 /\ d.approved = {}
           /\ \A i \in Steps : d.steps[i].status = "pending"
           /\ ValidCheckpoint(d, NoApproval)
           /\ DocSound(Workflow, d, apps, cs, conf)
           /\ Settled(d)
<1>1. N = Len(Workflow) /\ N \in Nat \ {0} /\ Steps = 1 .. N
  BY WorkflowType
<1> DEFINE steps == [i \in Steps |-> [status |-> "pending", attempts |-> 0]]
<1>2. /\ d.rev = r /\ d.status = "running" /\ d.next = 1 /\ d.pending = 0
      /\ d.approved = {} /\ d.steps = steps
      /\ DOMAIN d = {"rev", "status", "next", "pending", "approved", "steps"}
  BY DEF NoExecution, NoApproval
<1>3. steps \in [1 .. N -> [status : StepStatus, attempts : Nat]]
  BY <1>1 DEF StepStatus
<1>4. \A i \in Steps : steps[i].status = "pending"
  OBVIOUS
<1>5. DOMAIN steps = 1 .. N /\ steps \in Seq([status : StepStatus, attempts : Nat])
  BY <1>1, <1>3
<1>6. Len(steps) = N
  BY <1>1, <1>5
<1> HIDE DEF steps
<1>7. d \in Doc(N)
  <2>1. d = [rev |-> r, status |-> "running", next |-> 1, pending |-> 0,
             approved |-> {}, steps |-> steps]
    BY DEF NoExecution, NoApproval, steps
  <2>2. N \in Nat \ {0}
    BY <1>1
  <2>3. [rev |-> r, status |-> "running", next |-> 1, pending |-> 0,
         approved |-> {}, steps |-> steps] \in Doc(N)
    BY <2>2, <1>3, FirstDocument
  <2>4. QED
    BY <2>1, <2>3, Zenon
<1>8. ValidCheckpoint(d, NoApproval)
  <2>1. d.status \in ExecutionStatus /\ d.next \in 1 .. (Len(d.steps) + 1)
    BY <1>1, <1>2, <1>6 DEF ExecutionStatus
  <2>2. (d.status = "awaiting_approval") <=> (d.pending # NoApproval)
    BY <1>2 DEF NoApproval
  <2>3. \A i \in DOMAIN d.steps : d.steps[i].status \in StepStatus
    BY <1>1, <1>2, <1>4, <1>5 DEF StepStatus
  <2>4. QED
    BY <2>1, <2>2, <2>3 DEF ValidCheckpoint
<1>9. DocSound(Workflow, d, apps, cs, conf)
  BY <1>1, <1>2, <1>4 DEF DocSound
<1>10. QED
  BY <1>1, <1>2, <1>4, <1>7, <1>8, <1>9 DEF Settled

LEMMA ProcessFacts ==
    ASSUME ExecInv, NEW p \in Procs
    PROVE  /\ ex[p] \in Doc(N) /\ pc[p] \in Labels
           /\ LocalSound(Workflow, pc[p], ex[p], approvals, calls, confirmed)
           /\ pc[p] # "release" => DocSound(Workflow, ex[p], approvals, calls, confirmed)
           /\ N = Len(Workflow) /\ N \in Nat /\ Steps = 1 .. N
           /\ deployment \in Deployments
<1>1. deployment \in Deployments
  BY DEF ExecInv, Types
<1>2. QED
  BY <1>1, WorkflowType DEF ExecInv, Types, LocalSound

LEMMA ReadSound ==
    ASSUME NEW wf, NEW label \in ReadLabels \cup PlainLabels, NEW doc, NEW apps, NEW cs, NEW conf,
           DocSound(wf, doc, apps, cs, conf), Settled(doc)
    PROVE  LocalSound(wf, label, doc, apps, cs, conf)
BY DEF LocalSound, PlainLabels, ReadLabels, AcquireTargets, StepLabels, ApprovedLabels

LEMMA RowRead ==
    ASSUME ExecInv, NEW label \in ReadLabels \cup PlainLabels
    PROVE  LocalSound(Workflow, label, row, approvals, calls, confirmed)
<1>1. Settled(row)
  BY DEF ExecInv, Types, ValidCheckpoint, Settled, NoApproval
<1>2. QED
  BY <1>1, ReadSound DEF ExecInv

LEMMA ReadIsLabel ==
    ASSUME NEW label \in ReadLabels \cup PlainLabels
    PROVE  label \in Labels
BY DEF ReadLabels, PlainLabels, Labels

LEMMA ExecuteKeeps ==
    ASSUME ExecInv, NEW p \in Procs, Execute(p)
    PROVE  ExecInv'
<1>1. /\ row.rev = 0 /\ row' = [NoExecution EXCEPT !.rev = 1]
      /\ ex' = [ex EXCEPT ![p] = row'] /\ pc' = [pc EXCEPT ![p] = "acquire_run"]
      /\ UNCHANGED <<deployment, now, lease, fence, approvals, claim, live, try, calls, confirmed>>
  BY DEF Execute, world, history
<1>2. deployment \in Deployments
  BY DEF ExecInv, Types
<1>3. /\ row' \in Doc(N) /\ row'.rev = 1 /\ ValidCheckpoint(row', NoApproval)
      /\ DocSound(Workflow, row', approvals, calls, confirmed) /\ Settled(row')
  BY <1>1, <1>2, EmptyDocument
<1>4. N = Len(Workflow) /\ Steps = 1 .. N
  BY <1>2, WorkflowType
<1>5. CallsSound(Workflow, row', approvals, calls)
  BY <1>1, <1>4 DEF ExecInv, CallsSound
<1>6. "acquire_run" \in ReadLabels /\ "acquire_run" \in Labels
  BY DEF ReadLabels, Labels, AcquireTargets
<1>7. LocalSound(Workflow, "acquire_run", row', approvals, calls, confirmed)
  BY <1>3, <1>6, ReadSound
<1>8. /\ LeaseTypes' /\ calls \in [Steps -> Nat] /\ confirmed \subseteq Steps
      /\ approvals \in Seq(ApprovalType)
  BY <1>1, LeaseTypesSame DEF ExecInv, Types
<1>9. Grows(approvals, approvals, calls, calls, confirmed, confirmed, N)
  BY GrowsSame
<1>10. row'.rev # 0
  BY <1>3
<1>11. QED
  BY <1>1, <1>3, <1>5, <1>6, <1>7, <1>8, <1>9, <1>10, OneMoves

\* The document a process starts from is the stored one.
LEMMA RowTaken ==
    ASSUME ExecInv, NEW p \in Procs, NEW label \in ReadLabels \cup PlainLabels,
           ex' = [ex EXCEPT ![p] = row], pc' = [pc EXCEPT ![p] = label],
           UNCHANGED <<deployment, row, approvals, calls, confirmed>>, LeaseTypes'
    PROVE  ExecInv'
<1>1. row \in Doc(N)
  BY DEF ExecInv, Types
<1>2. QED
  BY <1>1, RowRead, ReadIsLabel, QuietMove

LEMMA CallsKeep ==
    ASSUME ExecInv, NEW p \in Procs, ResumeStored(p) \/ CancelCall(p) \/ RecoverCall(p)
    PROVE  ExecInv'
<1>1. PICK label \in {"acquire_interrupted", "acquire_resume", "acquire_cancel", "acquire_recover"} :
        /\ ex' = [ex EXCEPT ![p] = row] /\ pc' = [pc EXCEPT ![p] = label]
        /\ UNCHANGED <<deployment, now, row, lease, fence, approvals, claim, live, try, calls, confirmed>>
  BY DEF ResumeStored, CancelCall, RecoverCall, world, store, history
<1>2. label \in ReadLabels
  BY DEF ReadLabels, AcquireTargets
<1>3. LeaseTypes'
  BY <1>1, LeaseTypesSame DEF ExecInv, Types
<1>4. QED
  BY <1>1, <1>2, <1>3, RowTaken

LEMMA AcquireKeeps ==
    ASSUME ExecInv, NEW p \in Procs, Acquire(p)
    PROVE  ExecInv'
<1> DEFINE target == AcquireTargets[pc[p]]
<1>1. pc[p] \in ReadLabels /\ target \in ReadLabels \cup PlainLabels
  BY DEF Acquire, ReadLabels, PlainLabels, AcquireTargets
<1>2. DocSound(Workflow, ex[p], approvals, calls, confirmed) /\ Settled(ex[p])
  <2>1. pc[p] # "release"
    BY <1>1 DEF ReadLabels, AcquireTargets
  <2>2. QED
    BY <1>1, <2>1, ProcessFacts DEF LocalSound
<1>3. CASE Goto(p, target)
  BY <1>1, <1>2, <1>3, ReadSound, ReadIsLabel, Jump
<1>4. CASE Goto(p, "release")
  BY <1>4, ReleaseJump
<1>5. CASE /\ WorkerOf[p] # NoWorker
           /\ lease' = Grant(lease, WorkerOf[p], now, fence)
           /\ fence' = IF lease'.token > fence THEN lease'.token ELSE fence
           /\ claim' = [claim EXCEPT ![p] = lease']
           /\ ex' = [ex EXCEPT ![p] = row] /\ pc' = [pc EXCEPT ![p] = target]
           /\ UNCHANGED <<deployment, now, row, approvals, live, try, calls, confirmed>>
  <2>1. WorkerOf[p] \in Workers
    BY <1>5, ProcessFacts, WorkflowType
  <2>2. lease' \in Lease /\ fence' \in Nat
    BY <1>5, <2>1, LeaseDurationAssumption DEF ExecInv, Types, LeaseTypes, Lease, Grant, Unexpired
  <2>3. LeaseTypes'
    BY <1>5, <2>2 DEF ExecInv, Types, LeaseTypes
  <2>4. QED
    BY <1>1, <1>5, <2>3, RowTaken
<1>6. QED
  BY <1>3, <1>4, <1>5 DEF Acquire, world, history

LEMMA RunOnceKeeps ==
    ASSUME ExecInv, NEW p \in Procs, RunOnce(p)
    PROVE  ExecInv'
<1>1. /\ WorkerOf[p] # NoWorker
      /\ lease' = [owner |-> WorkerOf[p], token |-> fence + 1, until |-> now + LeaseDuration]
      /\ fence' = fence + 1 /\ claim' = [claim EXCEPT ![p] = lease']
      /\ ex' = [ex EXCEPT ![p] = row] /\ pc' = [pc EXCEPT ![p] = "claimed"]
      /\ UNCHANGED <<deployment, now, row, approvals, live, try, calls, confirmed>>
  BY DEF RunOnce, world, history
<1>2. WorkerOf[p] \in Workers
  BY <1>1, ProcessFacts, WorkflowType
<1>3. lease' \in Lease /\ fence' \in Nat
  BY <1>1, <1>2, LeaseDurationAssumption DEF ExecInv, Types, LeaseTypes, Lease
<1>4. LeaseTypes'
  BY <1>1, <1>3 DEF ExecInv, Types, LeaseTypes
<1>5. "claimed" \in ReadLabels
  BY DEF ReadLabels
<1>6. QED
  BY <1>1, <1>4, <1>5, RowTaken

LEMMA NoLeaseType == NoLease \in Lease
BY DEF NoLease, Lease

LEMMA ResumeClaimedKeeps ==
    ASSUME ExecInv, NEW p \in Procs, ResumeClaimed(p)
    PROVE  ExecInv'
<1>1. pc[p] = "claimed" /\ pc[p] \in ReadLabels
  BY DEF ResumeClaimed, ReadLabels
<1>2. DocSound(Workflow, ex[p], approvals, calls, confirmed) /\ Settled(ex[p])
  BY <1>1, ProcessFacts DEF LocalSound
<1>3. ASSUME NEW label \in {"interrupted", "resume"}, Goto(p, label)
      PROVE  ExecInv'
  <2>1. label \in ReadLabels
    BY DEF ReadLabels
  <2>2. QED
    BY <1>2, <1>3, <2>1, ReadSound, ReadIsLabel, Jump
<1>4. CASE Goto(p, "release")
  BY <1>4, ReleaseJump
<1>5. CASE /\ pc' = [pc EXCEPT ![p] = "idle"] /\ claim' = [claim EXCEPT ![p] = NoLease]
           /\ live' = [live EXCEPT ![p] = TRUE]
           /\ UNCHANGED <<deployment, now, row, lease, fence, approvals, ex, try, calls, confirmed>>
  <2>1. LeaseTypes'
    BY <1>5, NoLeaseType DEF ExecInv, Types, LeaseTypes
  <2>2. ex[p] \in Doc(N) /\ ex' = [ex EXCEPT ![p] = ex[p]]
    BY <1>5 DEF ExecInv, Types
  <2>3. "idle" \in PlainLabels
    BY DEF PlainLabels
  <2>4. LocalSound(Workflow, "idle", ex[p], approvals, calls, confirmed)
    BY <1>2, <2>3, PlainSound
  <2>5. QED
    BY <1>5, <2>1, <2>2, <2>3, <2>4, ReadIsLabel, QuietMove
<1>6. QED
  BY <1>3, <1>4, <1>5 DEF ResumeClaimed, world, store, history

\* A fault, or a failure before a call: only where the process goes changes.
LEMMA FaultKeeps ==
    ASSUME ExecInv, NEW p \in Procs, PreflightFault(p) \/ PreCallFault(p)
    PROVE  ExecInv'
<1>1. PICK label \in {"release", "fail"} :
        /\ pc' = [pc EXCEPT ![p] = label]
        /\ UNCHANGED <<deployment, now, row, lease, fence, approvals, ex, claim, live, try, calls, confirmed>>
        /\ label = "fail" => pc[p] # "release"
  BY DEF PreflightFault, PreCallFault, Continues, AtLoopTop, world, store, history
<1>2. LocalSound(Workflow, label, ex[p], approvals, calls, confirmed) /\ label \in Labels
  <2>1. "fail" \in PlainLabels /\ "release" \in Labels /\ "fail" \in Labels
    BY DEF PlainLabels, Labels
  <2>2. QED
    BY <1>1, <2>1, ProcessFacts, PlainSound, ReleaseSound
<1>3. ex[p] \in Doc(N) /\ ex' = [ex EXCEPT ![p] = ex[p]]
  BY <1>1 DEF ExecInv, Types
<1>4. LeaseTypes'
  BY <1>1, LeaseTypesSame DEF ExecInv, Types
<1>5. QED
  BY <1>1, <1>2, <1>3, <1>4, QuietMove

-----------------------------------------------------------------------------
\* Approvals change

LEMMA CallsGrow ==
    ASSUME NEW wf, NEW doc, NEW apps, NEW apps2, NEW cs, NEW conf,
           Grows(apps, apps2, cs, cs, conf, conf, Len(wf)), CallsSound(wf, doc, apps, cs)
    PROVE  CallsSound(wf, doc, apps2, cs)
<1>1. \A i : GrantedIn(apps, i) => GrantedIn(apps2, i)
  BY GrantedGrows
<1>2. QED
  BY <1>1 DEF CallsSound

\* Only the approvals change, and only grow.
LEMMA ApprovalMove ==
    ASSUME ExecInv, NEW p \in Procs, NEW label \in Labels, NEW doc \in Doc(N),
           pc' = [pc EXCEPT ![p] = label], ex' = [ex EXCEPT ![p] = doc],
           UNCHANGED <<deployment, row, calls, confirmed>>, LeaseTypes',
           approvals' \in Seq(ApprovalType),
           Grows(approvals, approvals', calls, calls, confirmed, confirmed, N),
           LocalSound(Workflow, label, doc, approvals', calls, confirmed)
    PROVE  ExecInv'
<1>1. N = Len(Workflow)
  BY DEF N
<1>2. /\ calls \in [Steps -> Nat] /\ confirmed \subseteq Steps
      /\ row \in Doc(N) /\ ValidCheckpoint(row, NoApproval)
      /\ row.rev = 0 => row = NoExecution /\ \A i \in Steps : calls[i] = 0
      /\ DocSound(Workflow, row, approvals, calls, confirmed)
      /\ CallsSound(Workflow, row, approvals, calls)
  BY DEF ExecInv, Types
<1>3. DocSound(Workflow, row, approvals', calls, confirmed)
  BY <1>1, <1>2, SoundGrows
<1>4. CallsSound(Workflow, row, approvals', calls)
  BY <1>1, <1>2, CallsGrow
<1>5. QED
  BY <1>2, <1>3, <1>4, OneMoves

\* A transition of an approval: a decided one keeps its outcome.
LEMMA SetGrows ==
    ASSUME approvals \in Seq(ApprovalType), NEW id,
           NEW status \in {"granted", "rejected", "expired", "canceled"},
           Decidable(id, status), SetApproval(id, status), NEW cs, NEW conf, NEW n
    PROVE  /\ approvals' \in Seq(ApprovalType)
           /\ Grows(approvals, approvals', cs, cs, conf, conf, n)
<1>1. approvals' = [approvals EXCEPT ![id].status = status] /\ approvals[id].status = "pending"
  BY DEF SetApproval, Decidable
<1>2. \A j \in DOMAIN approvals : approvals[j] \in ApprovalType
  OBVIOUS
<1>3. CASE id \in DOMAIN approvals
  <2> DEFINE a == [approvals[id] EXCEPT !.status = status]
  <2>1. a \in ApprovalType /\ a.step = approvals[id].step
    BY <1>2, <1>3 DEF ApprovalType
  <2>2. approvals' = [approvals EXCEPT ![id] = a]
    BY <1>1
  <2> HIDE DEF a
  <2>3. approvals' \in Seq(ApprovalType)
    BY <1>3, <2>1, <2>2
  <2>4. DOMAIN approvals' = DOMAIN approvals
    BY <2>2
  <2>5. \A j \in DOMAIN approvals : approvals'[j] = IF j = id THEN a ELSE approvals[j]
    BY <2>2
  <2>6. Grows(approvals, approvals', cs, cs, conf, conf, n)
    BY <1>1, <2>1, <2>4, <2>5 DEF Grows
  <2>7. QED
    BY <2>3, <2>6
<1>4. CASE id \notin DOMAIN approvals
  <2>1. approvals' = approvals
    BY <1>1, <1>4
  <2>2. QED
    BY <2>1, GrowsSame
<1>5. QED
  BY <1>3, <1>4

LEMMA RefersTo ==
    ASSUME NEW n \in Nat, NEW doc \in Doc(n), NEW pend \in {doc.pending, 0}
    PROVE  LET d == [doc EXCEPT !.pending = pend] IN
           /\ d \in Doc(n) /\ d.next = doc.next /\ d.approved = doc.approved
           /\ d.pending = pend /\ d.steps = doc.steps
<1>1. pend \in Nat
  BY DEF Doc
<1>2. QED
  BY <1>1 DEF Doc

\* A process transitions an approval and goes on with what it had of the
\* document, with or without the reference to it.
LEMMA SetMove ==
    ASSUME ExecInv, NEW p \in Procs, NEW label \in PlainLabels, NEW id,
           NEW status \in {"granted", "rejected", "expired", "canceled"},
           Decidable(id, status), SetApproval(id, status),
           NEW pend \in {ex[p].pending, 0}, ex' = [ex EXCEPT ![p].pending = pend],
           pc[p] # "release", pc' = [pc EXCEPT ![p] = label],
           UNCHANGED <<deployment, now, row, lease, fence, claim, live, try, calls, confirmed>>
    PROVE  ExecInv'
<1>1. /\ approvals' \in Seq(ApprovalType)
      /\ Grows(approvals, approvals', calls, calls, confirmed, confirmed, N)
  BY SetGrows DEF ExecInv, Types
<1>2. /\ ex[p] \in Doc(N) /\ N = Len(Workflow) /\ N \in Nat
      /\ DocSound(Workflow, ex[p], approvals, calls, confirmed)
  BY ProcessFacts
<1> DEFINE d == [ex[p] EXCEPT !.pending = pend]
<1>3. ex' = [ex EXCEPT ![p] = d]
  BY DEF ExecInv, Types
<1>4. /\ d \in Doc(N) /\ d.next = ex[p].next /\ d.approved = ex[p].approved
      /\ d.pending = pend /\ d.steps = ex[p].steps
  BY <1>2, RefersTo
<1>5. ex[p].next \in Nat
  BY <1>2 DEF Doc
<1> HIDE DEF d
<1>6. DocSound(Workflow, d, approvals, calls, confirmed)
  BY <1>2, <1>4, <1>5, EditedSound
<1>7. LocalSound(Workflow, label, d, approvals', calls, confirmed)
  BY <1>1, <1>2, <1>6, SoundGrows, PlainSound
<1>8. LeaseTypes'
  BY LeaseTypesSame DEF ExecInv, Types
<1>9. QED
  BY <1>1, <1>3, <1>4, <1>7, <1>8, ReadIsLabel, ApprovalMove

LEMMA ExpirePendingKeeps ==
    ASSUME ExecInv, NEW p \in Procs, ExpirePending(p)
    PROVE  ExecInv'
<1>1. pc[p] = "expire_pending" /\ "reject" \in PlainLabels
  BY DEF ExpirePending, PlainLabels
<1>2. CASE Goto(p, "release")
  BY <1>2, ReleaseJump
<1>3. CASE /\ Decidable(ex[p].pending, "expired") /\ SetApproval(ex[p].pending, "expired")
           /\ pc' = [pc EXCEPT ![p] = "reject"]
           /\ UNCHANGED <<deployment, now, row, lease, fence, ex, claim, live, try, calls, confirmed>>
  <2>1. ex' = [ex EXCEPT ![p].pending = ex[p].pending]
    <3>1. ex[p] \in Doc(N) /\ ex \in [Procs -> Doc(N)]
      BY DEF ExecInv, Types
    <3>2. [ex[p] EXCEPT !.pending = ex[p].pending] = ex[p]
      BY <3>1 DEF Doc
    <3>3. QED
      BY <1>3, <3>1, <3>2
  <2>2. QED
    BY <1>1, <1>3, <2>1, SetMove
<1>4. QED
  BY <1>2, <1>3 DEF ExpirePending, world, store, history

LEMMA CloseKeeps ==
    ASSUME ExecInv, NEW p \in Procs, NEW status \in {"expired", "canceled"},
           NEW detached \in BOOLEAN, NEW label \in PlainLabels, pc[p] # "release",
           CloseApproval(p, status, detached, label)
    PROVE  ExecInv'
<1>1. CASE Goto(p, label)
  BY <1>1, PlainJump
<1>2. CASE Goto(p, "release")
  BY <1>2, ReleaseJump
<1>3. CASE /\ Decidable(ex[p].pending, status) /\ SetApproval(ex[p].pending, status)
           /\ ex' = [ex EXCEPT ![p].pending = 0]
           /\ pc' = [pc EXCEPT ![p] = label]
           /\ UNCHANGED <<deployment, now, row, lease, fence, claim, live, try, calls, confirmed>>
  BY <1>3, SetMove
<1>4. QED
  BY <1>1, <1>2, <1>3 DEF CloseApproval, NoApproval, world, store, history

LEMMA CancelKeeps ==
    ASSUME ExecInv, NEW p \in Procs, Cancel(p) \/ ExpireExecution(p)
    PROVE  ExecInv'
<1>1. "cancel_save" \in PlainLabels /\ "run_cancel_save" \in PlainLabels
  BY DEF PlainLabels
<1>2. pc[p] # "release"
  BY DEF Cancel, ExpireExecution
<1>3. PICK status \in {"expired", "canceled"}, detached \in BOOLEAN,
           label \in {"cancel_save", "run_cancel_save"} :
        CloseApproval(p, status, detached, label)
  BY DEF Cancel, ExpireExecution
<1>4. QED
  BY <1>1, <1>2, <1>3, CloseKeeps

-----------------------------------------------------------------------------
\* Checkpoints

\* The step is given a status other than completed, the execution a status.
LEMMA StepEdited ==
    ASSUME NEW wf, NEW doc, NEW apps, NEW cs, NEW conf, Len(wf) \in Nat,
           doc \in Doc(Len(wf)), DocSound(wf, doc, apps, cs, conf),
           NEW s \in StepStatus \ {"completed"}, NEW st \in ExecutionStatus,
           NEW d, d = [WithStep(doc, s) EXCEPT !.status = st]
    PROVE  d \in Doc(Len(wf)) /\ DocSound(wf, d, apps, cs, conf)
<1> DEFINE w == WithStep(doc, s)
<1>1. /\ w \in Doc(Len(wf)) /\ w.next = doc.next
      /\ w.pending = doc.pending /\ w.approved = doc.approved
      /\ \A i \in 1 .. Len(wf) : w.steps[i].status = IF i = doc.next THEN s ELSE doc.steps[i].status
  BY WithStepFacts
<1>2. d = [w EXCEPT !.status = st]
  OBVIOUS
<1> HIDE DEF w
<1>3. /\ d \in Doc(Len(wf)) /\ d.next = doc.next
      /\ d.pending = doc.pending /\ d.approved = doc.approved /\ d.steps = w.steps
  BY <1>1, <1>2 DEF Doc
<1>4. doc.next \in Nat
  BY DEF Doc
<1>5. DocSound(wf, d, apps, cs, conf)
  BY <1>1, <1>3, <1>4, EditedSound
<1>6. QED
  BY <1>3, <1>5

\* The reference to an approval is dropped.
LEMMA PendingDropped ==
    ASSUME NEW wf, NEW doc, NEW apps, NEW cs, NEW conf, Len(wf) \in Nat,
           doc \in Doc(Len(wf)), DocSound(wf, doc, apps, cs, conf),
           NEW d, d = [doc EXCEPT !.pending = 0]
    PROVE  d \in Doc(Len(wf)) /\ DocSound(wf, d, apps, cs, conf)
<1>1. /\ d \in Doc(Len(wf)) /\ d.next = doc.next
      /\ d.pending = 0 /\ d.approved = doc.approved /\ d.steps = doc.steps
  BY DEF Doc
<1>2. doc.next \in Nat
  BY DEF Doc
<1>3. QED
  BY <1>1, <1>2, EditedSound

LEMMA ResumeInterruptedKeeps ==
    ASSUME ExecInv, NEW p \in Procs, ResumeInterrupted(p)
    PROVE  ExecInv'
<1>1. pc[p] = "interrupted" /\ "run" \in PlainLabels
  BY DEF ResumeInterrupted, PlainLabels
<1>2. CASE Goto(p, "run")
  BY <1>1, <1>2, PlainJump
<1>3. CASE Saves(p, RecoveryRequired(ex[p]), TRUE, "release", "release")
  <2>1. "recovery_required" \in StepStatus \ {"completed"} /\ "recovery_required" \in ExecutionStatus
    BY DEF StepStatus, ExecutionStatus
  <2>2. /\ RecoveryRequired(ex[p]) \in Doc(N)
        /\ DocSound(Workflow, RecoveryRequired(ex[p]), approvals, calls, confirmed)
    BY <1>1, <2>1, ProcessFacts, StepEdited DEF RecoveryRequired
  <2>3. QED
    BY <1>3, <2>2, PlainSave
<1>4. QED
  BY <1>2, <1>3 DEF ResumeInterrupted

LEMMA GrantedSound ==
    ASSUME NEW wf, NEW doc, NEW apps, NEW cs, NEW conf, Len(wf) \in Nat,
           doc \in Doc(Len(wf)), DocSound(wf, doc, apps, cs, conf),
           doc.pending # 0, apps[doc.pending].status = "granted"
    PROVE  Granted(doc) \in Doc(Len(wf)) /\ DocSound(wf, Granted(doc), apps, cs, conf)
<1> DEFINE d == Granted(doc)
<1>1. doc.next \in 1 .. Len(wf) /\ GrantedIn(apps, doc.next)
  BY DEF DocSound, GrantedIn
<1>2. /\ d.next = doc.next /\ d.approved = doc.approved \cup {doc.next}
      /\ d.pending = 0 /\ d.steps = doc.steps
  BY DEF Granted, NoApproval, Doc
<1>3. d \in Doc(Len(wf))
  BY <1>1 DEF Granted, NoApproval, Doc, ExecutionStatus
<1> HIDE DEF d
<1>4. DocSound(wf, d, apps, cs, conf)
  BY <1>1, <1>2 DEF DocSound
<1>5. QED
  BY <1>3, <1>4 DEF d

LEMMA ResumeKeeps ==
    ASSUME ExecInv, NEW p \in Procs, Resume(p)
    PROVE  ExecInv'
<1>1. pc[p] = "resume" /\ pc[p] \in ReadLabels
  BY DEF Resume, ReadLabels
<1>2. ASSUME NEW label \in {"expire", "expire_pending", "reject"}, Goto(p, label)
      PROVE  ExecInv'
  <2>1. label \in PlainLabels
    BY DEF PlainLabels
  <2>2. QED
    BY <1>1, <1>2, <2>1, PlainJump
<1>3. CASE Goto(p, "release")
  BY <1>3, ReleaseJump
<1>4. CASE /\ ex[p].status = "awaiting_approval"
           /\ approvals[ex[p].pending].status = "granted"
           /\ Saves(p, Granted(ex[p]), FALSE, "run", "release")
  <2>1. DocSound(Workflow, ex[p], approvals, calls, confirmed) /\ Settled(ex[p])
    BY <1>1, ProcessFacts DEF LocalSound
  <2>2. /\ Granted(ex[p]) \in Doc(N)
        /\ DocSound(Workflow, Granted(ex[p]), approvals, calls, confirmed)
    BY <1>4, <2>1, ProcessFacts, GrantedSound DEF Settled
  <2>3. "run" \in PlainLabels
    BY DEF PlainLabels
  <2>4. QED
    BY <1>4, <2>2, <2>3, PlainSave
<1>5. QED
  BY <1>2, <1>3, <1>4 DEF Resume

LEMMA FailedSound ==
    ASSUME ExecInv, NEW p \in Procs, pc[p] # "release"
    PROVE  /\ Failed(ex[p]) \in Doc(N)
           /\ DocSound(Workflow, Failed(ex[p]), approvals, calls, confirmed)
<1>1. "failed" \in StepStatus \ {"completed"} /\ "failed" \in ExecutionStatus
  BY DEF StepStatus, ExecutionStatus
<1>2. QED
  BY <1>1, ProcessFacts, StepEdited DEF Failed

LEMMA RejectKeeps ==
    ASSUME ExecInv, NEW p \in Procs, Reject(p)
    PROVE  ExecInv'
<1> DEFINE d == [Failed(ex[p]) EXCEPT !.pending = 0]
<1>1. Saves(p, d, FALSE, "release", "release") /\ pc[p] # "release"
  BY DEF Reject, NoApproval
<1>2. d \in Doc(N) /\ DocSound(Workflow, d, approvals, calls, confirmed)
  BY <1>1, FailedSound, ProcessFacts, PendingDropped
<1> HIDE DEF d
<1>3. QED
  BY <1>1, <1>2, PlainSave

LEMMA FailKeeps ==
    ASSUME ExecInv, NEW p \in Procs, Fail(p)
    PROVE  ExecInv'
<1>1. Saves(p, Failed(ex[p]), TRUE, "release", "release") /\ pc[p] # "release"
  BY DEF Fail
<1>2. QED
  BY <1>1, FailedSound, PlainSave

LEMMA CanceledSound ==
    ASSUME deployment \in Deployments, NEW doc \in Doc(N), NEW apps, NEW cs, NEW conf,
           DocSound(Workflow, doc, apps, cs, conf)
    PROVE  Canceled(doc) \in Doc(N) /\ DocSound(Workflow, Canceled(doc), apps, cs, conf)
<1>1. N = Len(Workflow) /\ N \in Nat /\ Steps = 1 .. N
  BY WorkflowType
<1> DEFINE closed(i) == /\ i = doc.next
                        /\ doc.steps[i].status \in {"pending", "running", "awaiting_approval",
                                                     "recovery_required"}
           steps == [i \in Steps |-> IF closed(i) THEN [doc.steps[i] EXCEPT !.status = "canceled"]
                                     ELSE doc.steps[i]]
<1>2. Canceled(doc) = [doc EXCEPT !.status = "canceled", !.steps = steps]
  BY DEF Canceled
<1>3. ASSUME NEW i \in 1 .. N
      PROVE  /\ steps[i] \in [status : StepStatus, attempts : Nat]
             /\ steps[i].status \in {doc.steps[i].status, "canceled"}
             /\ i # doc.next => steps[i] = doc.steps[i]
  <2>1. doc.steps[i] \in [status : StepStatus, attempts : Nat]
    BY DEF Doc
  <2>2. "canceled" \in StepStatus
    BY DEF StepStatus
  <2>3. steps[i] = IF closed(i) THEN [doc.steps[i] EXCEPT !.status = "canceled"] ELSE doc.steps[i]
    BY <1>1
  <2>4. QED
    BY <2>1, <2>2, <2>3
<1>4. steps \in [1 .. N -> [status : StepStatus, attempts : Nat]]
  BY <1>1, <1>3
<1> HIDE DEF steps
<1>5. /\ Canceled(doc) \in Doc(N) /\ Canceled(doc).steps = steps
      /\ Canceled(doc).next = doc.next /\ Canceled(doc).pending = doc.pending
      /\ Canceled(doc).approved = doc.approved
  BY <1>2, <1>4 DEF Doc, ExecutionStatus
<1>6. \A i \in 1 .. N :
        /\ i # doc.next => Canceled(doc).steps[i].status = doc.steps[i].status
        /\ Canceled(doc).steps[i].status = "completed" => doc.steps[i].status = "completed"
  BY <1>3, <1>5
<1>7. doc.next \in Nat
  BY <1>1 DEF Doc
<1>8. DocSound(Workflow, Canceled(doc), apps, cs, conf)
  BY <1>1, <1>5, <1>6, <1>7, EditedSound
<1>9. QED
  BY <1>5, <1>8

LEMMA CancelCheckpointKeeps ==
    ASSUME ExecInv, NEW p \in Procs, CancelCheckpoint(p)
    PROVE  ExecInv'
<1>1. PICK detached \in BOOLEAN : Saves(p, Canceled(ex[p]), detached, "release", "release")
  BY DEF CancelCheckpoint
<1>2. pc[p] # "release"
  BY DEF CancelCheckpoint
<1>3. QED
  BY <1>1, <1>2, ProcessFacts, CanceledSound, PlainSave

-----------------------------------------------------------------------------
\* The run loop

LEMMA LoopLeaves ==
    ASSUME ExecInv, NEW p \in Procs, RunExpired(p) \/ RunAborted(p) \/ Refuse(p)
    PROVE  ExecInv'
<1>1. PICK label \in {"run_expire", "run_cancel_save", "fail"} :
        Goto(p, label) /\ pc[p] # "release"
  BY DEF RunExpired, RunAborted, Refuse, AtLoopTop
<1>2. label \in PlainLabels
  BY DEF PlainLabels
<1>3. QED
  BY <1>1, <1>2, PlainJump

\* What holds at the top of the loop.
LEMMA LoopFacts ==
    ASSUME ExecInv, NEW p \in Procs, Continues(p)
    PROVE  /\ ex[p] \in Doc(N) /\ ex[p].next \in 1 .. N
           /\ DocSound(Workflow, ex[p], approvals, calls, confirmed)
<1>1. pc[p] # "release" /\ ex[p].next <= N
  BY DEF Continues, AtLoopTop
<1>2. QED
  BY <1>1, ProcessFacts DEF Doc

LEMMA RunSkipKeeps ==
    ASSUME ExecInv, NEW p \in Procs, RunSkip(p)
    PROVE  ExecInv'
<1> DEFINE d == Passed(ex[p], "skipped")
<1>1. /\ ex[p] \in Doc(N) /\ ex[p].next \in 1 .. N /\ N = Len(Workflow) /\ N \in Nat
      /\ DocSound(Workflow, ex[p], approvals, calls, confirmed)
  BY LoopFacts, ProcessFacts DEF RunSkip
<1>2. ~Workflow[ex[p].next].when /\ Saves(p, d, FALSE, "run", "release")
  BY DEF RunSkip, StepOf
<1>3. "skipped" \in StepStatus /\ "skipped" \in Finished /\ "run" \in PlainLabels
  BY DEF StepStatus, Finished, PlainLabels
<1>4. /\ d \in Doc(N) /\ d.next = ex[p].next + 1
      /\ d.pending = ex[p].pending /\ d.approved = ex[p].approved
      /\ \A i \in 1 .. N : d.steps[i].status = IF i = ex[p].next THEN "skipped" ELSE ex[p].steps[i].status
  BY <1>1, <1>3, PassedFacts
<1> HIDE DEF d
<1>5. ex[p].pending = 0
  BY <1>1, <1>2 DEF DocSound
<1>6. DocSound(Workflow, d, approvals, calls, confirmed)
  BY <1>1, <1>3, <1>4, <1>5, PassedSound
<1>7. QED
  BY <1>2, <1>3, <1>4, <1>6, PlainSave

LEMMA RunStartKeeps ==
    ASSUME ExecInv, NEW p \in Procs, RunStart(p)
    PROVE  ExecInv'
<1> DEFINE d == WithStep(ex[p], "running")
<1>1. /\ ex[p] \in Doc(N) /\ ex[p].next \in 1 .. N /\ N = Len(Workflow) /\ N \in Nat
      /\ DocSound(Workflow, ex[p], approvals, calls, confirmed)
  BY LoopFacts, ProcessFacts DEF RunStart
<1>2. Workflow[ex[p].next].when /\ Saves(p, d, FALSE, "step", "release")
  BY DEF RunStart, StepOf
<1>3. "running" \in StepStatus /\ "step" \in Labels /\ "release" \in Labels
  BY DEF StepStatus, Labels
<1>4. /\ d \in Doc(N) /\ d.next = ex[p].next
      /\ d.pending = ex[p].pending /\ d.approved = ex[p].approved
      /\ \A i \in 1 .. N : d.steps[i].status = IF i = ex[p].next THEN "running" ELSE ex[p].steps[i].status
  BY <1>1, <1>3, WithStepFacts
<1> HIDE DEF d
<1>5. DocSound(Workflow, d, approvals, calls, confirmed)
  BY <1>1, <1>4, EditedSound
<1>6. LocalSound(Workflow, "step", d, approvals, calls, confirmed)
  BY <1>1, <1>2, <1>4, <1>5 DEF LocalSound, ReadLabels, AcquireTargets, ApprovedLabels
<1>7. QED
  BY <1>2, <1>3, <1>4, <1>5, <1>6, ReleaseSound, SavesKeep

LEMMA RunFinishKeeps ==
    ASSUME ExecInv, NEW p \in Procs, RunFinish(p)
    PROVE  ExecInv'
<1> DEFINE d == [ex[p] EXCEPT !.status = "completed"]
<1>1. pc[p] # "release" /\ Saves(p, d, FALSE, "release", "release")
  BY DEF RunFinish
<1>2. /\ ex[p] \in Doc(N) /\ N = Len(Workflow) /\ N \in Nat /\ ex[p].next \in Nat
      /\ DocSound(Workflow, ex[p], approvals, calls, confirmed)
  BY <1>1, ProcessFacts DEF Doc
<1>3. /\ d \in Doc(N) /\ d.next = ex[p].next /\ d.steps = ex[p].steps
      /\ d.pending = ex[p].pending /\ d.approved = ex[p].approved
  BY <1>2 DEF Doc, ExecutionStatus
<1> HIDE DEF d
<1>4. DocSound(Workflow, d, approvals, calls, confirmed)
  BY <1>2, <1>3, EditedSound
<1>5. QED
  BY <1>1, <1>3, <1>4, PlainSave

-----------------------------------------------------------------------------
\* Steps

\* What holds inside a step.
LEMMA StepFacts ==
    ASSUME ExecInv, NEW p \in Procs, pc[p] \in StepLabels
    PROVE  /\ ex[p] \in Doc(N) /\ ex[p].next \in 1 .. N
           /\ N = Len(Workflow) /\ N \in Nat
           /\ DocSound(Workflow, ex[p], approvals, calls, confirmed)
           /\ Workflow[ex[p].next].when
           /\ pc[p] \in ApprovedLabels => ~Awaits(Workflow, ex[p])
           /\ pc[p] # "release"
<1>1. pc[p] # "release"
  BY DEF StepLabels, ApprovedLabels
<1>2. QED
  BY <1>1, ProcessFacts DEF LocalSound

LEMMA ProceedKeeps ==
    ASSUME ExecInv, NEW p \in Procs, Proceed(p)
    PROVE  ExecInv'
<1>1. pc[p] = "step" /\ pc[p] \in StepLabels
  BY DEF Proceed, StepLabels
<1>2. PICK label \in {"request", "attempt", "complete"} :
        /\ label = "request" <=> Awaits(Workflow, ex[p])
        /\ label = "complete" => Workflow[ex[p].next].kind # "tool"
        /\ pc' = [pc EXCEPT ![p] = label]
        /\ try' = [try EXCEPT ![p] = IF label = "attempt" THEN 1 ELSE @]
        /\ UNCHANGED <<deployment, now, row, lease, fence, approvals, ex, claim, live, calls, confirmed>>
  BY DEF Proceed, AwaitsApproval, Approved, StepOf, Awaits, world, store, history
<1>3. label \in Labels
  BY DEF Labels
<1>4. LocalSound(Workflow, label, ex[p], approvals, calls, confirmed)
  BY <1>1, <1>2, StepFacts DEF LocalSound, ReadLabels, AcquireTargets, StepLabels, ApprovedLabels
<1>5. LeaseTypes'
  BY <1>2 DEF ExecInv, Types, LeaseTypes
<1>6. ex[p] \in Doc(N) /\ ex' = [ex EXCEPT ![p] = ex[p]]
  BY <1>2 DEF ExecInv, Types
<1>7. QED
  BY <1>2, <1>3, <1>4, <1>5, <1>6, QuietMove

LEMMA RequestApprovalKeeps ==
    ASSUME ExecInv, NEW p \in Procs, RequestApproval(p)
    PROVE  ExecInv'
<1>1. /\ pc[p] = "request" /\ pc[p] \in StepLabels
      /\ "fail" \in PlainLabels /\ "await" \in PlainLabels
  BY DEF RequestApproval, StepLabels, PlainLabels
<1>2. CASE Goto(p, "fail")
  BY <1>1, <1>2, PlainJump
<1> DEFINE id == Len(approvals) + 1
           asked == [status |-> "pending", step |-> ex[p].next, expires |-> ExpiresAt]
           w == WithStep(ex[p], "awaiting_approval")
           d == [w EXCEPT !.pending = id, !.status = "awaiting_approval"]
<1>3. CASE /\ approvals' = Append(approvals, asked)
           /\ ex' = [ex EXCEPT ![p] = d] /\ pc' = [pc EXCEPT ![p] = "await"]
           /\ UNCHANGED <<deployment, now, row, lease, fence, claim, live, try, calls, confirmed>>
  <2>1. /\ ex[p] \in Doc(N) /\ ex[p].next \in 1 .. N /\ N = Len(Workflow) /\ N \in Nat
        /\ DocSound(Workflow, ex[p], approvals, calls, confirmed)
        /\ Workflow[ex[p].next].when /\ Awaits(Workflow, ex[p])
        /\ approvals \in Seq(ApprovalType) /\ now \in Nat
    BY <1>1, StepFacts DEF ExecInv, Types, LeaseTypes, LocalSound
  <2>2. asked \in ApprovalType
    <3>1. ExpiresAt \in Nat /\ ex[p].next \in Nat
      BY <2>1, ProcessFacts, WorkflowType DEF ExpiresAt
    <3>2. QED
      BY <3>1 DEF ApprovalType
  <2>3. asked.step = ex[p].next
    OBVIOUS
  <2> HIDE DEF asked
  <2>4. /\ approvals' \in Seq(ApprovalType) /\ id \in Nat /\ id # 0
        /\ DOMAIN approvals' = 1 .. id /\ DOMAIN approvals = 1 .. id - 1
        /\ approvals'[id] = asked
        /\ \A j \in DOMAIN approvals : approvals'[j] = approvals[j]
    BY <1>3, <2>1, <2>2
  <2>5. Grows(approvals, approvals', calls, calls, confirmed, confirmed, N)
    BY <2>4 DEF Grows
  <2>6. "awaiting_approval" \in StepStatus /\ "awaiting_approval" \in ExecutionStatus
    BY DEF StepStatus, ExecutionStatus
  <2>7. /\ w \in Doc(N) /\ w.next = ex[p].next /\ w.approved = ex[p].approved
        /\ \A i \in 1 .. N :
              w.steps[i].status = IF i = ex[p].next THEN "awaiting_approval" ELSE ex[p].steps[i].status
    BY <2>1, <2>6, WithStepFacts
  <2> HIDE DEF w
  <2>8. /\ d \in Doc(N) /\ d.next = ex[p].next /\ d.approved = ex[p].approved
        /\ d.pending = id /\ d.steps = w.steps
    BY <2>4, <2>6, <2>7 DEF Doc
  <2> HIDE DEF d
  <2>9. DocSound(Workflow, ex[p], approvals', calls, confirmed)
    BY <2>1, <2>5, SoundGrows
  <2>10. DocSound(Workflow, d, approvals', calls, confirmed)
    BY <2>1, <2>3, <2>4, <2>7, <2>8, <2>9 DEF DocSound, Awaits
  <2>11. LocalSound(Workflow, "await", d, approvals', calls, confirmed)
    BY <1>1, <2>10, PlainSound
  <2>12. LeaseTypes'
    BY <1>3, LeaseTypesSame DEF ExecInv, Types
  <2>13. QED
    BY <1>1, <1>3, <2>4, <2>5, <2>8, <2>11, <2>12, ReadIsLabel, ApprovalMove
<1>4. QED
  <2>1. ex[p] = [ex EXCEPT ![p] = ex[p]][p]
    BY DEF ExecInv, Types
  <2>2. \/ Goto(p, "fail")
        \/ /\ approvals' = Append(approvals, asked)
           /\ ex' = [ex EXCEPT ![p] = d] /\ pc' = [pc EXCEPT ![p] = "await"]
           /\ UNCHANGED <<deployment, now, row, lease, fence, claim, live, try, calls, confirmed>>
    BY DEF RequestApproval, world, store, history, ExecInv, Types
  <2>3. QED
    BY <1>2, <1>3, <2>2

\* The document as it is in memory is saved: requireApproval and run.
LEMMA AwaitKeeps ==
    ASSUME ExecInv, NEW p \in Procs, AwaitApproval(p) \/ SaveIncomplete(p)
    PROVE  ExecInv'
<1>1. PICK onOk \in {"save_incomplete", "release"}, onErr \in {"fail", "release"} :
        Saves(p, ex[p], FALSE, onOk, onErr) /\ pc[p] # "release"
  BY DEF AwaitApproval, SaveIncomplete
<1>2. onOk \in PlainLabels \cup {"release"} /\ onErr \in PlainLabels \cup {"release"}
  BY DEF PlainLabels
<1>3. QED
  BY <1>1, <1>2, ProcessFacts, PlainSave

LEMMA AttemptKeeps ==
    ASSUME ExecInv, NEW p \in Procs, Attempt(p)
    PROVE  ExecInv'
<1> DEFINE i == ex[p].next
           run == [ex[p].steps[i] EXCEPT !.attempts = try[p]]
           steps == [ex[p].steps EXCEPT ![i] = run]
           d == [ex[p] EXCEPT !.steps = steps]
<1>1. pc[p] = "attempt" /\ pc[p] \in StepLabels /\ pc[p] \in ApprovedLabels
  BY DEF Attempt, StepLabels, ApprovedLabels
<1>2. /\ ex[p] \in Doc(N) /\ i \in 1 .. N /\ N = Len(Workflow) /\ N \in Nat
      /\ DocSound(Workflow, ex[p], approvals, calls, confirmed)
      /\ Workflow[i].when /\ ~Awaits(Workflow, ex[p])
  BY <1>1, StepFacts
<1>3. /\ ex[p].steps \in [1 .. N -> [status : StepStatus, attempts : Nat]]
      /\ try[p] \in Nat /\ i \in Nat
  BY <1>2 DEF Doc, ExecInv, Types, LeaseTypes
<1>4. run \in [status : StepStatus, attempts : Nat] /\ run.status = ex[p].steps[i].status
  BY <1>2, <1>3
<1>5. Saves(p, d, FALSE, "called", "fail")
  BY DEF Attempt
<1> HIDE DEF run
<1>6. /\ steps \in [1 .. N -> [status : StepStatus, attempts : Nat]]
      /\ \A j \in 1 .. N : steps[j].status = ex[p].steps[j].status
  BY <1>2, <1>3, <1>4
<1> HIDE DEF steps
<1>7. /\ d \in Doc(N) /\ d.next = i /\ d.approved = ex[p].approved
      /\ d.pending = ex[p].pending /\ d.steps = steps
  BY <1>2, <1>6 DEF Doc
<1> HIDE DEF d
<1>8. DocSound(Workflow, d, approvals, calls, confirmed)
  BY <1>2, <1>3, <1>6, <1>7, EditedSound
<1>9. ~Awaits(Workflow, d)
  BY <1>2, <1>7 DEF Awaits
<1>10. LocalSound(Workflow, "called", d, approvals, calls, confirmed)
  BY <1>2, <1>7, <1>8, <1>9 DEF LocalSound, ReadLabels, AcquireTargets
<1>11. "called" \in Labels /\ "fail" \in Labels /\ "fail" \in PlainLabels
  BY DEF Labels, PlainLabels
<1>12. LocalSound(Workflow, "fail", d, approvals, calls, confirmed)
  BY <1>8, <1>11, PlainSound
<1>13. QED
  BY <1>5, <1>7, <1>8, <1>10, <1>11, <1>12, SavesKeep

LEMMA CallToolKeeps ==
    ASSUME ExecInv, NEW p \in Procs, CallTool(p)
    PROVE  ExecInv'
<1> DEFINE i == ex[p].next
<1>1. pc[p] = "called" /\ pc[p] \in StepLabels /\ pc[p] \in ApprovedLabels
  BY DEF CallTool, StepLabels, ApprovedLabels
<1>2. /\ ex[p] \in Doc(N) /\ i \in 1 .. N /\ N = Len(Workflow) /\ N \in Nat /\ Steps = 1 .. N
      /\ DocSound(Workflow, ex[p], approvals, calls, confirmed)
      /\ Workflow[i].when /\ ~Awaits(Workflow, ex[p])
      /\ calls \in [Steps -> Nat] /\ confirmed \subseteq Steps /\ pc \in [Procs -> Labels]
  BY <1>1, StepFacts, ProcessFacts DEF ExecInv, Types
<1>3. /\ UNCHANGED <<deployment, now, lease, fence, approvals, claim, live, try, confirmed>>
      /\ Save(p, ex[p], FALSE, "tool", "fail")
      /\ calls' = IF pc'[p] = "tool" THEN [calls EXCEPT ![i] = @ + 1] ELSE calls
  BY DEF CallTool, world
<1>4. LeaseTypes'
  BY <1>3, LeaseTypesSame DEF ExecInv, Types
<1>5. "tool" \in Labels /\ "fail" \in Labels /\ "fail" \in PlainLabels
  BY DEF Labels, PlainLabels
<1>6. CASE /\ Accepts(p, ex[p]) /\ row' = [ex[p] EXCEPT !.rev = @ + 1]
           /\ ex' = [ex EXCEPT ![p] = row'] /\ pc' = [pc EXCEPT ![p] = "tool"]
  <2>1. calls' = [calls EXCEPT ![i] = @ + 1]
    BY <1>2, <1>3, <1>6
  <2>2. /\ calls' \in [Steps -> Nat] /\ calls'[i] > 0
        /\ \A j \in Steps : j # i => calls'[j] = calls[j]
    BY <1>2, <2>1
  <2>3. Grows(approvals, approvals, calls, calls', confirmed, confirmed', N)
    BY <1>2, <1>3, <2>2 DEF Grows
  <2>4. DocSound(Workflow, ex[p], approvals, calls', confirmed')
    BY <1>2, <2>3, SoundGrows
  <2>5. LocalSound(Workflow, "tool", ex[p], approvals, calls', confirmed')
    BY <1>2, <2>2, <2>4 DEF LocalSound, ReadLabels, AcquireTargets
  <2>6. confirmed' \subseteq Steps
    BY <1>2, <1>3
  <2>7. \A j \in Steps : calls'[j] > 0 /\ ~(calls[j] > 0) => j = i /\ ~Awaits(Workflow, ex[p])
    BY <1>2, <2>2
  <2>8. QED
    <3>1. UNCHANGED <<deployment, approvals>>
      BY <1>3
    <3>2. QED
      BY <3>1, <1>2, <1>4, <1>5, <1>6, <2>2, <2>3, <2>4, <2>5, <2>6, <2>7, Saved
<1>7. CASE row' = row /\ ex' = [ex EXCEPT ![p] = ex[p]] /\ pc' = [pc EXCEPT ![p] = "fail"]
  <2>1. calls' = calls
    BY <1>2, <1>3, <1>7
  <2>2. LocalSound(Workflow, "fail", ex[p], approvals, calls, confirmed)
    BY <1>2, <1>5, PlainSound
  <2>3. QED
    BY <1>2, <1>3, <1>4, <1>5, <1>7, <2>1, <2>2, QuietMove
<1>8. QED
  BY <1>3, <1>6, <1>7 DEF Save

LEMMA ToolEnds ==
    ASSUME ExecInv, NEW p \in Procs, ToolOutputRejected(p) \/ ToolFails(p)
    PROVE  ExecInv'
<1>1. PICK label \in {"recovery", "fail"} : Goto(p, label) /\ pc[p] # "release"
  BY DEF ToolOutputRejected, ToolFails
<1>2. label \in PlainLabels
  BY DEF PlainLabels
<1>3. QED
  BY <1>1, <1>2, PlainJump

LEMMA ToolSucceedsKeeps ==
    ASSUME ExecInv, NEW p \in Procs, ToolSucceeds(p)
    PROVE  ExecInv'
<1>1. pc[p] = "tool" /\ Goto(p, "record") /\ "record" \in Labels
  BY DEF ToolSucceeds, Labels
<1>2. LocalSound(Workflow, "record", ex[p], approvals, calls, confirmed)
  BY <1>1, ProcessFacts DEF LocalSound, ReadLabels, AcquireTargets, StepLabels, ApprovedLabels
<1>3. QED
  BY <1>1, <1>2, Jump

LEMMA ToolRetriesKeeps ==
    ASSUME ExecInv, NEW p \in Procs, ToolRetries(p)
    PROVE  ExecInv'
<1>1. pc[p] = "tool" /\ "attempt" \in Labels /\ "fail" \in PlainLabels
  BY DEF ToolRetries, Labels, PlainLabels
<1>2. CASE Goto(p, "fail")
  BY <1>1, <1>2, PlainJump
<1>3. CASE /\ pc' = [pc EXCEPT ![p] = "attempt"] /\ try' = [try EXCEPT ![p] = @ + 1]
           /\ UNCHANGED <<deployment, now, row, lease, fence, approvals, ex, claim, live, calls, confirmed>>
  <2>1. LocalSound(Workflow, "attempt", ex[p], approvals, calls, confirmed)
    BY <1>1, ProcessFacts DEF LocalSound, ReadLabels, AcquireTargets, StepLabels, ApprovedLabels
  <2>2. LeaseTypes'
    BY <1>3 DEF ExecInv, Types, LeaseTypes
  <2>3. ex[p] \in Doc(N) /\ ex' = [ex EXCEPT ![p] = ex[p]]
    BY <1>3 DEF ExecInv, Types
  <2>4. QED
    BY <1>1, <1>3, <2>1, <2>2, <2>3, QuietMove
<1>4. QED
  BY <1>2, <1>3 DEF ToolRetries, world, store, history

LEMMA RecordResultKeeps ==
    ASSUME ExecInv, NEW p \in Procs, RecordResult(p)
    PROVE  ExecInv'
<1>1. pc[p] = "record" /\ pc[p] # "release"
  BY DEF RecordResult
<1>2. PICK onErr \in {"recovery", "fail"} : Saves(p, ex[p], TRUE, "complete", onErr)
  BY DEF RecordResult
<1>3. "complete" \in Labels /\ onErr \in Labels /\ onErr \in PlainLabels
  BY DEF Labels, PlainLabels
<1>4. LocalSound(Workflow, "complete", ex[p], approvals, calls, confirmed)
  BY <1>1, ProcessFacts DEF LocalSound, ReadLabels, AcquireTargets, StepLabels, ApprovedLabels
<1>5. QED
  BY <1>1, <1>2, <1>3, <1>4, ProcessFacts, PlainSound, SavesKeep

LEMMA RequireRecoveryKeeps ==
    ASSUME ExecInv, NEW p \in Procs, RequireRecovery(p)
    PROVE  ExecInv'
<1>1. pc[p] # "release" /\ Saves(p, RecoveryRequired(ex[p]), TRUE, "save_incomplete", "fail")
  BY DEF RequireRecovery
<1>2. "recovery_required" \in StepStatus \ {"completed"} /\ "recovery_required" \in ExecutionStatus
  BY DEF StepStatus, ExecutionStatus
<1>3. /\ RecoveryRequired(ex[p]) \in Doc(N)
      /\ DocSound(Workflow, RecoveryRequired(ex[p]), approvals, calls, confirmed)
  BY <1>1, <1>2, ProcessFacts, StepEdited DEF RecoveryRequired
<1>4. "save_incomplete" \in PlainLabels /\ "fail" \in PlainLabels
  BY DEF PlainLabels
<1>5. QED
  BY <1>1, <1>3, <1>4, PlainSave

LEMMA CompleteStepKeeps ==
    ASSUME ExecInv, NEW p \in Procs, CompleteStep(p)
    PROVE  ExecInv'
<1> DEFINE i == ex[p].next
           d == Passed(ex[p], "completed")
<1>1. pc[p] = "complete" /\ pc[p] \in StepLabels /\ pc[p] \in ApprovedLabels
  BY DEF CompleteStep, StepLabels, ApprovedLabels
<1>2. /\ ex[p] \in Doc(N) /\ i \in 1 .. N /\ N = Len(Workflow) /\ N \in Nat
      /\ DocSound(Workflow, ex[p], approvals, calls, confirmed) /\ ~Awaits(Workflow, ex[p])
  BY <1>1, StepFacts
<1>3. Workflow[i].kind = "tool" => calls[i] > 0
  BY <1>1, ProcessFacts DEF LocalSound
<1>4. NeedsApproval(Workflow[i]) => GrantedIn(approvals, i)
  BY <1>2 DEF Awaits, DocSound
<1>5. ex[p].pending = 0
  BY <1>2 DEF DocSound
<1>6. "completed" \in StepStatus /\ "completed" \in Finished /\ "run" \in PlainLabels
  BY DEF StepStatus, Finished, PlainLabels
<1>7. /\ d \in Doc(N) /\ d.next = i + 1
      /\ d.pending = ex[p].pending /\ d.approved = ex[p].approved
      /\ \A j \in 1 .. N : d.steps[j].status = IF j = i THEN "completed" ELSE ex[p].steps[j].status
  BY <1>2, <1>6, PassedFacts
<1>8. Saves(p, d, FALSE, "run", "release")
  BY DEF CompleteStep
<1> HIDE DEF d
<1>9. DocSound(Workflow, d, approvals, calls, confirmed)
  BY <1>2, <1>3, <1>4, <1>5, <1>6, <1>7, PassedSound
<1>10. QED
  BY <1>6, <1>7, <1>8, <1>9, PlainSave

-----------------------------------------------------------------------------
\* Recovery

\* What a recoverable document is.
LEMMA RecoverFacts ==
    ASSUME ExecInv, NEW p \in Procs, pc[p] = "recover_op", Recoverable(ex[p])
    PROVE  /\ ex[p] \in Doc(N) /\ ex[p].next \in 1 .. N
           /\ N = Len(Workflow) /\ N \in Nat /\ Steps = 1 .. N
           /\ DocSound(Workflow, ex[p], approvals, calls, confirmed)
           /\ ex[p].pending = 0 /\ pc[p] # "release"
<1>1. pc[p] \in ReadLabels /\ pc[p] # "release"
  BY DEF ReadLabels
<1>2. Settled(ex[p]) /\ ex[p] \in Doc(N) /\ N \in Nat
  BY <1>1, ProcessFacts DEF LocalSound
<1>3. ex[p].pending = 0 /\ ex[p].next <= N
  BY <1>2 DEF Settled, Recoverable
<1>4. QED
  BY <1>1, <1>2, <1>3, ProcessFacts DEF Doc

LEMMA RecoverCompletedKeeps ==
    ASSUME ExecInv, NEW p \in Procs, RecoverCompleted(p)
    PROVE  ExecInv'
<1> DEFINE i == ex[p].next
           w == Passed(ex[p], "completed")
           d == [w EXCEPT !.status = "running"]
<1>1. /\ ex[p] \in Doc(N) /\ i \in 1 .. N /\ N = Len(Workflow) /\ N \in Nat /\ Steps = 1 .. N
      /\ DocSound(Workflow, ex[p], approvals, calls, confirmed) /\ ex[p].pending = 0
  BY RecoverFacts DEF RecoverCompleted
<1>2. /\ UNCHANGED <<deployment, now, lease, fence, approvals, claim, live, try, calls>>
      /\ confirmed' = IF pc'[p] = "run" THEN confirmed \cup {i} ELSE confirmed
      /\ Save(p, d, FALSE, "run", "release")
  BY DEF RecoverCompleted, world
<1>3. "completed" \in StepStatus /\ "completed" \in Finished
  BY DEF StepStatus, Finished
<1>4. /\ w \in Doc(N) /\ w.next = i + 1 /\ w.pending = 0 /\ w.approved = ex[p].approved
      /\ \A j \in 1 .. N : w.steps[j].status = IF j = i THEN "completed" ELSE ex[p].steps[j].status
  BY <1>1, <1>3, PassedFacts
<1> HIDE DEF w
<1>5. /\ d \in Doc(N) /\ d.next = i + 1 /\ d.pending = 0 /\ d.approved = ex[p].approved
      /\ d.steps = w.steps
  BY <1>4 DEF Doc, ExecutionStatus
<1> HIDE DEF d
<1>6. /\ LeaseTypes' /\ pc \in [Procs -> Labels]
      /\ calls \in [Steps -> Nat] /\ confirmed \subseteq Steps
  BY <1>2, LeaseTypesSame DEF ExecInv, Types
<1>7. "run" \in Labels /\ "release" \in Labels /\ "run" \in PlainLabels
  BY DEF Labels, PlainLabels
<1>8. CASE /\ Accepts(p, d) /\ row' = [d EXCEPT !.rev = @ + 1]
           /\ ex' = [ex EXCEPT ![p] = row'] /\ pc' = [pc EXCEPT ![p] = "run"]
  <2>1. confirmed' = confirmed \cup {i} /\ confirmed' \subseteq Steps
    BY <1>1, <1>2, <1>6, <1>8
  <2>2. Grows(approvals, approvals, calls, calls', confirmed, confirmed', N)
    BY <1>2, <2>1 DEF Grows
  <2>3. DocSound(Workflow, ex[p], approvals, calls', confirmed')
    BY <1>1, <2>2, SoundGrows
  <2>4. i \in confirmed'
    BY <2>1
  <2>5. DocSound(Workflow, d, approvals, calls', confirmed')
    BY <1>1, <1>3, <1>4, <1>5, <2>3, <2>4, PassedSound
  <2>6. LocalSound(Workflow, "run", d, approvals, calls', confirmed')
    BY <1>7, <2>5, PlainSound
  <2>7. calls' \in [Steps -> Nat] /\ UNCHANGED <<deployment, approvals>>
    BY <1>2, <1>6
  <2>8. \A j \in Steps : calls'[j] > 0 /\ ~(calls[j] > 0) => j = d.next /\ ~Awaits(Workflow, d)
    BY <1>2
  <2>9. QED
    BY <1>5, <1>6, <1>7, <1>8, <2>1, <2>2, <2>5, <2>6, <2>7, <2>8, Saved
<1>9. CASE row' = row /\ ex' = [ex EXCEPT ![p] = d] /\ pc' = [pc EXCEPT ![p] = "release"]
  <2>1. confirmed' = confirmed
    BY <1>2, <1>6, <1>9
  <2>2. QED
    BY <1>2, <1>5, <1>6, <1>7, <1>9, <2>1, ReleaseSound, QuietMove
<1>10. QED
  BY <1>2, <1>8, <1>9 DEF Save

LEMMA RecoverNotRunKeeps ==
    ASSUME ExecInv, NEW p \in Procs, RecoverNotRun(p)
    PROVE  ExecInv'
<1> DEFINE d == [WithStep(ex[p], "running") EXCEPT !.status = "running"]
<1>1. /\ ex[p] \in Doc(N) /\ N = Len(Workflow) /\ N \in Nat
      /\ DocSound(Workflow, ex[p], approvals, calls, confirmed)
  BY RecoverFacts DEF RecoverNotRun
<1>2. /\ UNCHANGED <<deployment, now, lease, fence, approvals, claim, live, try, calls, confirmed>>
      /\ Save(p, d, FALSE, "run", "release")
  BY DEF RecoverNotRun, world
<1>3. "running" \in StepStatus \ {"completed"} /\ "running" \in ExecutionStatus
  BY DEF StepStatus, ExecutionStatus
<1>4. d \in Doc(N) /\ DocSound(Workflow, d, approvals, calls, confirmed)
  BY <1>1, <1>3, StepEdited
<1> HIDE DEF d
<1>5. /\ LeaseTypes' /\ calls \in [Steps -> Nat] /\ confirmed \subseteq Steps
  BY <1>2, LeaseTypesSame DEF ExecInv, Types
<1>6. "run" \in Labels /\ "release" \in Labels /\ "run" \in PlainLabels
  BY DEF Labels, PlainLabels
<1>7. LocalSound(Workflow, "run", d, approvals, calls, confirmed)
  BY <1>4, <1>6, PlainSound
<1>8. CASE /\ Accepts(p, d) /\ row' = [d EXCEPT !.rev = @ + 1]
           /\ ex' = [ex EXCEPT ![p] = row'] /\ pc' = [pc EXCEPT ![p] = "run"]
  BY <1>2, <1>4, <1>5, <1>6, <1>7, <1>8, GrowsSame, Saved
<1>9. CASE row' = row /\ ex' = [ex EXCEPT ![p] = d] /\ pc' = [pc EXCEPT ![p] = "release"]
  BY <1>2, <1>4, <1>5, <1>6, <1>9, ReleaseSound, QuietMove
<1>10. QED
  BY <1>2, <1>8, <1>9 DEF Save

LEMMA RecoverClosedKeeps ==
    ASSUME ExecInv, NEW p \in Procs, RecoverClosed(p)
    PROVE  ExecInv'
<1>1. PICK st \in {"failed", "canceled"} :
        Saves(p, [WithStep(ex[p], "failed") EXCEPT !.status = st], FALSE, "release", "release")
  BY DEF RecoverClosed
<1> DEFINE d == [WithStep(ex[p], "failed") EXCEPT !.status = st]
<1>2. "failed" \in StepStatus \ {"completed"} /\ st \in ExecutionStatus
  BY DEF StepStatus, ExecutionStatus
<1>3. /\ ex[p] \in Doc(N) /\ N = Len(Workflow) /\ N \in Nat
      /\ DocSound(Workflow, ex[p], approvals, calls, confirmed)
  BY RecoverFacts DEF RecoverClosed
<1>4. d \in Doc(N) /\ DocSound(Workflow, d, approvals, calls, confirmed)
  BY <1>2, <1>3, StepEdited
<1> HIDE DEF d
<1>5. Saves(p, d, FALSE, "release", "release")
  BY <1>1 DEF d
<1>6. QED
  BY <1>4, <1>5, PlainSave

-----------------------------------------------------------------------------
\* Leases, crashes, approvers and the clock

LEMMA EndsKeep ==
    ASSUME ExecInv, NEW p \in Procs, Release(p) \/ Crash(p)
    PROVE  ExecInv'
<1>1. /\ pc' = [pc EXCEPT ![p] = "idle"] /\ ex' = [ex EXCEPT ![p] = NoExecution]
      /\ claim' = [claim EXCEPT ![p] = NoLease] /\ live' = [live EXCEPT ![p] = TRUE]
      /\ try' = [try EXCEPT ![p] = 0]
      /\ lease' \in {lease, Freed(lease)}
      /\ UNCHANGED <<deployment, now, row, fence, approvals, calls, confirmed>>
  BY DEF Release, Crash, world, store, history
<1>2. Freed(lease) \in Lease
  BY DEF Freed, Lease, ExecInv, Types, LeaseTypes
<1>3. LeaseTypes'
  BY <1>1, <1>2, NoLeaseType DEF ExecInv, Types, LeaseTypes
<1>4. deployment \in Deployments
  BY DEF ExecInv, Types
<1>5. NoExecution = [NoExecution EXCEPT !.rev = 0]
  BY DEF NoExecution
<1>6. NoExecution \in Doc(N) /\ DocSound(Workflow, NoExecution, approvals, calls, confirmed)
  BY <1>4, <1>5, EmptyDocument
<1>7. "idle" \in PlainLabels
  BY DEF PlainLabels
<1>8. QED
  BY <1>1, <1>3, <1>6, <1>7, PlainSound, ReadIsLabel, QuietMove

\* No process moves; leases, contexts and approvals may change.
LEMMA NoneMoves ==
    ASSUME ExecInv, UNCHANGED <<deployment, row, pc, ex, calls, confirmed>>, LeaseTypes',
           approvals' \in Seq(ApprovalType),
           Grows(approvals, approvals', calls, calls, confirmed, confirmed, N)
    PROVE  ExecInv'
<1>1. Workflow' = Workflow /\ N' = N /\ Steps' = Steps /\ NoExecution' = NoExecution
  BY SameWorkflow
<1>2. N = Len(Workflow)
  BY DEF N
<1>3. Types'
  BY <1>1 DEF ExecInv, Types, NoApproval
<1>4. /\ DocSound(Workflow, row, approvals', calls, confirmed)
      /\ CallsSound(Workflow, row, approvals', calls)
  BY <1>2, SoundGrows, CallsGrow DEF ExecInv
<1>5. \A q \in Procs : LocalSound(Workflow, pc[q], ex[q], approvals', calls, confirmed)
  BY <1>2, LocalGrows DEF ExecInv
<1>6. QED
  BY <1>1, <1>3, <1>4, <1>5 DEF ExecInv

LEMMA LeasesKeep ==
    ASSUME ExecInv, NEW p \in Procs, Renew(p) \/ LeaseLost(p) \/ Shutdown(p)
    PROVE  ExecInv'
<1>1. /\ UNCHANGED <<deployment, now, row, fence, approvals, pc, ex, claim, try, calls, confirmed>>
      /\ lease' \in {lease, Renewed(lease, now)}
      /\ live' = live \/ live' = [live EXCEPT ![p] = FALSE]
  BY DEF Renew, LeaseLost, Shutdown, world, store, locals, history
<1>2. Renewed(lease, now) \in Lease
  <2>1. lease \in Lease /\ now + LeaseDuration \in Nat
    BY LeaseDurationAssumption DEF ExecInv, Types, LeaseTypes
  <2>2. QED
    BY <2>1 DEF Renewed, Lease
<1>3. LeaseTypes'
  BY <1>1, <1>2 DEF ExecInv, Types, LeaseTypes
<1>4. approvals' \in Seq(ApprovalType)
  BY <1>1 DEF ExecInv, Types
<1>5. Grows(approvals, approvals', calls, calls, confirmed, confirmed, N)
  BY <1>1, GrowsSame
<1>6. QED
  BY <1>1, <1>3, <1>4, <1>5, NoneMoves

LEMMA TickKeeps ==
    ASSUME ExecInv, Tick
    PROVE  ExecInv'
<1>1. /\ UNCHANGED <<deployment, row, lease, fence, approvals, pc, ex, claim, live, try, calls, confirmed>>
      /\ now' = now + 1
  BY DEF Tick, store, locals, history
<1>2. LeaseTypes'
  BY <1>1 DEF ExecInv, Types, LeaseTypes
<1>3. approvals' \in Seq(ApprovalType)
  BY <1>1 DEF ExecInv, Types
<1>4. Grows(approvals, approvals', calls, calls, confirmed, confirmed, N)
  BY <1>1, GrowsSame
<1>5. QED
  BY <1>1, <1>2, <1>3, <1>4, NoneMoves

LEMMA DecideKeeps ==
    ASSUME ExecInv, NEW id, Decide(id)
    PROVE  ExecInv'
<1>1. PICK status \in {"granted", "rejected", "canceled"} :
        /\ Decidable(id, status) /\ SetApproval(id, status)
        /\ UNCHANGED <<deployment, now, row, lease, fence, pc, ex, claim, live, try, calls, confirmed>>
  BY DEF Decide, world, store, locals, history
<1>2. /\ approvals' \in Seq(ApprovalType)
      /\ Grows(approvals, approvals', calls, calls, confirmed, confirmed, N)
  BY <1>1, SetGrows DEF ExecInv, Types
<1>3. LeaseTypes'
  BY <1>1, LeaseTypesSame DEF ExecInv, Types
<1>4. QED
  BY <1>1, <1>2, <1>3, NoneMoves

-----------------------------------------------------------------------------
\* The theorems

LEMMA InitHolds ==
    ASSUME Init
    PROVE  ExecInv
<1>1. deployment \in Deployments
  BY DEF Init
<1>2. PICK r \in {0, 1} : row = [NoExecution EXCEPT !.rev = r]
  BY DEF Init
<1>3. NoExecution = [NoExecution EXCEPT !.rev = 0]
  BY DEF NoExecution
<1>4. calls = [i \in Steps |-> 0] /\ confirmed = {} /\ approvals = <<>>
  BY DEF Init
<1>5. /\ row \in Doc(N) /\ row.rev = r /\ ValidCheckpoint(row, NoApproval)
      /\ DocSound(Workflow, row, approvals, calls, confirmed)
  BY <1>1, <1>2, EmptyDocument
<1>6. NoExecution \in Doc(N) /\ DocSound(Workflow, NoExecution, approvals, calls, confirmed)
  BY <1>1, <1>3, EmptyDocument
<1>7. "idle" \in PlainLabels /\ "idle" \in Labels
  BY DEF PlainLabels, Labels
<1>8. \A p \in Procs : pc[p] = "idle" /\ ex[p] = NoExecution
  BY DEF Init
<1>9. \A p \in Procs : LocalSound(Workflow, pc[p], ex[p], approvals, calls, confirmed)
  BY <1>6, <1>7, <1>8, PlainSound
<1>10. LeaseTypes
  BY NoLeaseType DEF Init, LeaseTypes
<1>11. Types
  <2>1. pc \in [Procs -> Labels] /\ ex \in [Procs -> Doc(N)]
    BY <1>6, <1>7 DEF Init
  <2>2. approvals \in Seq(ApprovalType) /\ calls \in [Steps -> Nat] /\ confirmed \subseteq Steps
    BY <1>4
  <2>3. QED
    BY <1>1, <1>5, <1>10, <2>1, <2>2 DEF Types
<1>12. N = Len(Workflow) /\ Steps = 1 .. N
  BY <1>1, WorkflowType
<1>13. CallsSound(Workflow, row, approvals, calls)
  BY <1>4, <1>12 DEF CallsSound
<1>14. row.rev = 0 => row = NoExecution /\ \A i \in Steps : calls[i] = 0
  BY <1>2, <1>3, <1>4, <1>5
<1>15. QED
  BY <1>5, <1>9, <1>11, <1>13, <1>14 DEF ExecInv

LEMMA StutterKeeps ==
    ASSUME ExecInv, UNCHANGED vars
    PROVE  ExecInv'
<1>1. UNCHANGED <<deployment, now, row, lease, fence, approvals, pc, ex, claim, live, try, calls, confirmed>>
  BY DEF vars, world, store, locals, history
<1>2. LeaseTypes' /\ approvals' \in Seq(ApprovalType)
  BY <1>1, LeaseTypesSame DEF ExecInv, Types
<1>3. Grows(approvals, approvals', calls, calls, confirmed, confirmed, N)
  BY <1>1, GrowsSame
<1>4. QED
  BY <1>1, <1>2, <1>3, NoneMoves

LEMMA NextKeeps ==
    ASSUME ExecInv, [Next]_vars
    PROVE  ExecInv'
<1>1. CASE Tick
  BY <1>1, TickKeeps
<1>2. ASSUME NEW id \in DOMAIN approvals, Decide(id) PROVE ExecInv'
  BY <1>2, DecideKeeps
<1>3. ASSUME NEW p \in Procs, Enter(p) PROVE ExecInv'
  BY <1>3, ExecuteKeeps, CallsKeep, RunOnceKeeps DEF Enter
<1>4. ASSUME NEW p \in Procs, Continue(p) PROVE ExecInv'
  <2>1. CASE Acquire(p) \/ ResumeClaimed(p) \/ PreflightFault(p) \/ ResumeInterrupted(p) \/ Resume(p)
    BY <2>1, AcquireKeeps, ResumeClaimedKeeps, FaultKeeps, ResumeInterruptedKeeps, ResumeKeeps
  <2>2. CASE ExpirePending(p) \/ Reject(p) \/ Cancel(p) \/ ExpireExecution(p) \/ CancelCheckpoint(p)
    BY <2>2, ExpirePendingKeeps, RejectKeeps, CancelKeeps, CancelCheckpointKeeps
  <2>3. CASE RunExpired(p) \/ RunAborted(p) \/ RunSkip(p) \/ RunStart(p) \/ RunFinish(p)
    BY <2>3, LoopLeaves, RunSkipKeeps, RunStartKeeps, RunFinishKeeps
  <2>4. CASE Refuse(p) \/ PreCallFault(p) \/ Proceed(p) \/ RequestApproval(p)
    BY <2>4, LoopLeaves, FaultKeeps, ProceedKeeps, RequestApprovalKeeps
  <2>5. CASE AwaitApproval(p) \/ SaveIncomplete(p) \/ Attempt(p) \/ CallTool(p)
    BY <2>5, AwaitKeeps, AttemptKeeps, CallToolKeeps
  <2>6. CASE ToolSucceeds(p) \/ ToolOutputRejected(p) \/ ToolFails(p) \/ ToolRetries(p)
    BY <2>6, ToolSucceedsKeeps, ToolEnds, ToolRetriesKeeps
  <2>7. CASE RecordResult(p) \/ RequireRecovery(p) \/ CompleteStep(p) \/ Fail(p)
    BY <2>7, RecordResultKeeps, RequireRecoveryKeeps, CompleteStepKeeps, FailKeeps
  <2>8. CASE RecoverRefused(p) \/ Release(p)
    BY <2>8, ReleaseJump, EndsKeep DEF RecoverRefused
  <2>9. CASE RecoverCompleted(p) \/ RecoverNotRun(p) \/ RecoverClosed(p)
    BY <2>9, RecoverCompletedKeeps, RecoverNotRunKeeps, RecoverClosedKeeps
  <2>10. QED
    BY <1>4, <2>1, <2>2, <2>3, <2>4, <2>5, <2>6, <2>7, <2>8, <2>9 DEF Continue
<1>5. ASSUME NEW p \in Procs, Environment(p) PROVE ExecInv'
  BY <1>5, LeasesKeep, EndsKeep DEF Environment
<1>6. CASE UNCHANGED vars
  BY <1>6, StutterKeeps
<1>7. QED
  BY <1>1, <1>2, <1>3, <1>4, <1>5, <1>6 DEF Next

LEMMA ExecInvHolds == Spec => []ExecInv
<1>1. Init => ExecInv
  BY InitHolds
<1>2. ExecInv /\ [Next]_vars => ExecInv'
  BY NextKeeps
<1>3. QED
  BY <1>1, <1>2, PTL DEF Spec

\* The stored and the in-memory documents keep their shape, and what is stored
\* passes ValidateCheckpoint, for any workflow, hosts and bounds.
THEOREM TypesHold == Spec => []TypeOK
<1>1. ExecInv => TypeOK
  <2> SUFFICES ASSUME ExecInv PROVE TypeOK
    OBVIOUS
  <2>2. deployment \in Deployments
    BY DEF ExecInv, Types
  <2>3. Document = Doc(N)
    BY <2>2, WorkflowType DEF Document, Doc
  <2>4. QED
    BY <2>3 DEF ExecInv, Types, LeaseTypes, TypeOK
<1>2. QED
  BY <1>1, ExecInvHolds, PTL

\* Effects follow the order of the steps and of their approvals, whatever
\* crashes, lease losses, faults and decisions come in between: no call before
\* what precedes it is stored as finished, none without its own approval.
THEOREM EffectsStayInOrder == Spec => []EffectsInOrder
<1>1. ExecInv => EffectsFollowStepOrder
  <2> SUFFICES ASSUME ExecInv PROVE EffectsFollowStepOrder
    OBVIOUS
  <2>2. /\ Steps = 1 .. Len(Workflow) /\ calls \in [Steps -> Nat]
        /\ DocSound(Workflow, row, approvals, calls, confirmed)
        /\ CallsSound(Workflow, row, approvals, calls)
    BY WorkflowType DEF ExecInv, Types
  <2>3. QED
    BY <2>2 DEF EffectsFollowStepOrder, DocSound, CallsSound, Finished
<1>2. ExecInv => ApprovedBeforeCall
  <2> SUFFICES ASSUME ExecInv PROVE ApprovedBeforeCall
    OBVIOUS
  <2>2. /\ Steps = 1 .. Len(Workflow) /\ calls \in [Steps -> Nat]
        /\ DocSound(Workflow, row, approvals, calls, confirmed)
        /\ CallsSound(Workflow, row, approvals, calls)
    BY WorkflowType DEF ExecInv, Types
  <2>3. QED
    BY <2>2 DEF ApprovedBeforeCall, DocSound, CallsSound, GrantedIn, NoApproval
<1>3. QED
  BY <1>1, <1>2, ExecInvHolds, PTL DEF EffectsInOrder

-----------------------------------------------------------------------------
\* Copies of the row, and what a current copy says of the calls

\* Nothing is done ahead of the next step, and the next step is not done.
Ordered(n, doc) ==
    /\ \A j \in 1 .. n : j > doc.next => doc.steps[j].status = "pending"
    /\ doc.next <= n => doc.steps[doc.next].status \notin Finished

\* A copy no newer than the stored document r; of the same revision, it differs
\* from r in its next step and in the fields of the execution only.
Descends(n, doc, r) ==
    /\ doc.rev <= r.rev
    /\ doc.rev = r.rev =>
          /\ doc.next = r.next
          /\ \A j \in 1 .. n : j # r.next => doc.steps[j] = r.steps[j]

\* The hosts with a worker id enter through coordinators only: the others do not
\* look at the snapshot again that the claim gives them.
SnapshotsChecked ==
    \A p \in Procs : WorkerOf[p] # NoWorker => Entries \cap {"execute", "resume_stored"} = {}

\* A step that is closed or in recovery closes the execution or puts it there,
\* and an execution awaits an approval exactly where its step does.
Consistent(n, doc) ==
    /\ doc.next <= n /\ doc.steps[doc.next].status \in {"recovery_required", "failed", "canceled"}
          => doc.status \notin {"running", "awaiting_approval"}
    /\ doc.status = "awaiting_approval" =>
          doc.next <= n /\ doc.steps[doc.next].status = "awaiting_approval"

\* The calls that decisions have paid for.
Paid(wf, nr, i) == wf[i].attempts * nr[i]

\* A step that was not started has made no call that is not paid for; one that
\* was, those of one run.
Slack(wf, doc, i) ==
    IF doc.steps[i].status \in {"pending", "awaiting_approval"} THEN 0 ELSE wf[i].attempts

Counted(wf, doc, cs, nr) ==
    \A i \in 1 .. Len(wf) :
        SideEffecting(wf[i]) => cs[i] <= Paid(wf, nr, i) + Slack(wf, doc, i)

Ready(wf, doc, cs, nr) ==
    doc.next <= Len(wf) /\ SideEffecting(wf[doc.next]) =>
        cs[doc.next] <= Paid(wf, nr, doc.next)

RunningLabels ==
    {"acquire_run", "acquire_interrupted", "interrupted", "run"} \cup StepLabels
ReadyLabels == {"acquire_run", "run", "step", "request"}
CallLabels == {"attempt", "called", "tool"}

\* What each label says of a document that is current.
LabelStatus(wf, label, doc, r, t, cs, nr) ==
    /\ label \in ReadLabels => doc = r
    /\ label \in RunningLabels => doc.status = "running"
    /\ label \in StepLabels => doc.steps[doc.next].status = "running"
    /\ label \in ReadyLabels => Ready(wf, doc, cs, nr)
    /\ label \in CallLabels =>
          /\ wf[doc.next].kind = "tool" /\ t \in 1 .. wf[doc.next].attempts
          /\ SideEffecting(wf[doc.next]) =>
                cs[doc.next] + (IF label = "tool" THEN 0 ELSE 1) <= Paid(wf, nr, doc.next) + t

DocStatus(wf, doc, cs, nr) == Consistent(Len(wf), doc) /\ Counted(wf, doc, cs, nr)

\* Copies of the row.
CopyInv ==
    /\ notRun \in [Steps -> Nat]
    /\ Ordered(N, row)
    /\ \A p \in Procs : pc[p] # "release" => Ordered(N, ex[p]) /\ Descends(N, ex[p], row)

CurrentSound(p) ==
    pc[p] # "release" /\ ex[p].rev = row.rev =>
        /\ DocStatus(Workflow, ex[p], calls, notRun)
        /\ LabelStatus(Workflow, pc[p], ex[p], row, try[p], calls, notRun)

\* While p is in a call no other process is in one of the same step, nor about
\* to store that it starts one.
Alone(p, q) ==
    /\ pc[p] = "tool" /\ pc[q] \in CallLabels /\ p # q
    /\ ex[p].next = ex[q].next
    /\ SideEffecting(StepOf(ex[p])) /\ notRun[ex[p].next] = 0
    => pc[q] # "tool" /\ ex[q].rev # row.rev

ReplayInv ==
    /\ \A i \in Steps : calls[i] > 0 => Workflow[i].kind = "tool"
    /\ DocStatus(Workflow, row, calls, notRun)
    /\ \A p \in Procs : CurrentSound(p)
    /\ \A p \in Procs : pc[p] \in {"acquire_run", "acquire_interrupted"} => WorkerOf[p] = NoWorker
    /\ \A p, q \in Procs : Alone(p, q)

FlightInv == CopyInv /\ (SnapshotsChecked => ReplayInv)

-----------------------------------------------------------------------------
\* Copies and calls: what an edit of a document preserves

\* What a process makes of its document before it saves it: it touches the next
\* step only, and goes past it only to finish it.
Edits(n, doc, d) ==
    /\ d \in Doc(n) /\ d.rev = doc.rev
    /\ \A j \in 1 .. n : j # doc.next => d.steps[j] = doc.steps[j]
    /\ \/ d.next = doc.next /\ (d.next <= n => d.steps[d.next].status \notin Finished)
       \/ d.next = doc.next + 1

LEMMA EditsOrdered ==
    ASSUME NEW n \in Nat, NEW doc \in Doc(n), NEW d, Edits(n, doc, d), Ordered(n, doc)
    PROVE  Ordered(n, d)
<1>1. doc.next \in 1 .. n + 1 /\ d.next \in 1 .. n + 1
  BY DEF Edits, Doc
<1>2. CASE d.next = doc.next /\ (d.next <= n => d.steps[d.next].status \notin Finished)
  BY <1>1, <1>2 DEF Edits, Ordered
<1>3. CASE d.next = doc.next + 1
  <2>1. \A j \in 1 .. n : j >= d.next => d.steps[j].status = "pending"
    BY <1>1, <1>3 DEF Edits, Ordered
  <2>2. "pending" \notin Finished
    BY DEF Finished
  <2>3. QED
    BY <1>1, <2>1, <2>2 DEF Ordered
<1>4. QED
  BY <1>2, <1>3 DEF Edits

LEMMA EditsDescends ==
    ASSUME NEW n \in Nat, NEW doc \in Doc(n), NEW d, NEW r,
           Edits(n, doc, d), d.next = doc.next, Descends(n, doc, r)
    PROVE  Descends(n, d, r)
BY DEF Edits, Descends

\* The store takes an edited copy: it is current, the finished steps of the row
\* stay what they are, and a terminal row stays.
LEMMA EditsStand ==
    ASSUME NEW n \in Nat, NEW doc \in Doc(n), NEW d, NEW r \in Doc(n),
           Edits(n, doc, d), Descends(n, doc, r), Ordered(n, r), ValidUpdate(r, d)
    PROVE  /\ doc.rev = r.rev /\ r.status \notin TerminalStatus
           /\ \A i \in 1 .. n : r.steps[i].status \in Finished => d.steps[i] = r.steps[i]
<1>1. doc.rev = r.rev /\ r.status \notin TerminalStatus
  BY DEF Edits, ValidUpdate
<1>2. doc.next = r.next /\ \A j \in 1 .. n : j # r.next => d.steps[j] = r.steps[j]
  BY <1>1 DEF Edits, Descends
<1>3. \A i \in 1 .. n : i = r.next => r.steps[i].status \notin Finished
  BY DEF Ordered, Doc
<1>4. QED
  BY <1>1, <1>2, <1>3

LEMMA StepEdits ==
    ASSUME NEW n \in Nat, NEW doc \in Doc(n), NEW s \in StepStatus \ Finished,
           NEW st \in ExecutionStatus
    PROVE  LET d == [WithStep(doc, s) EXCEPT !.status = st] IN
           /\ Edits(n, doc, d) /\ d.next = doc.next /\ d.status = st
           /\ d.pending = doc.pending /\ d.approved = doc.approved
           /\ \A i \in 1 .. n : d.steps[i].status = IF i = doc.next THEN s ELSE doc.steps[i].status
<1> DEFINE w == WithStep(doc, s)
           d == [w EXCEPT !.status = st]
<1>1. /\ w \in Doc(n) /\ w.rev = doc.rev /\ w.next = doc.next
      /\ w.pending = doc.pending /\ w.approved = doc.approved
      /\ \A i \in 1 .. n : w.steps[i].status = IF i = doc.next THEN s ELSE doc.steps[i].status
  BY WithStepFacts
<1>2. \A j \in 1 .. n : j # doc.next => w.steps[j] = doc.steps[j]
  BY DEF WithStep, Doc
<1>3. d = [w EXCEPT !.status = st]
  OBVIOUS
<1> HIDE DEF w, d
<1>4. /\ d \in Doc(n) /\ d.rev = doc.rev /\ d.next = doc.next /\ d.status = st
      /\ d.pending = doc.pending /\ d.approved = doc.approved /\ d.steps = w.steps
  BY <1>1, <1>3 DEF Doc
<1>5. doc.next \in 1 .. n + 1
  BY DEF Doc
<1>6. /\ Edits(n, doc, d)
      /\ \A i \in 1 .. n : d.steps[i].status = IF i = doc.next THEN s ELSE doc.steps[i].status
  BY <1>1, <1>2, <1>4, <1>5 DEF Edits
<1>7. QED
  BY <1>4, <1>6 DEF w, d

LEMMA PassedEdits ==
    ASSUME NEW n \in Nat, NEW doc \in Doc(n), NEW s \in Finished, doc.next \in 1 .. n,
           NEW st \in ExecutionStatus
    PROVE  LET d == [Passed(doc, s) EXCEPT !.status = st] IN
           /\ Edits(n, doc, d) /\ d.next = doc.next + 1 /\ d.status = st
           /\ d.pending = doc.pending /\ d.approved = doc.approved
           /\ \A i \in 1 .. n : d.steps[i].status = IF i = doc.next THEN s ELSE doc.steps[i].status
<1> DEFINE w == Passed(doc, s)
           d == [w EXCEPT !.status = st]
<1>1. s \in StepStatus
  BY DEF Finished, StepStatus
<1>2. /\ w \in Doc(n) /\ w.rev = doc.rev /\ w.next = doc.next + 1
      /\ w.pending = doc.pending /\ w.approved = doc.approved
      /\ \A i \in 1 .. n : w.steps[i].status = IF i = doc.next THEN s ELSE doc.steps[i].status
  BY <1>1, PassedFacts
<1>3. \A j \in 1 .. n : j # doc.next => w.steps[j] = doc.steps[j]
  BY DEF Passed, WithStep, Doc
<1>4. d = [w EXCEPT !.status = st]
  OBVIOUS
<1> HIDE DEF w, d
<1>5. /\ d \in Doc(n) /\ d.rev = doc.rev /\ d.next = doc.next + 1 /\ d.status = st
      /\ d.pending = doc.pending /\ d.approved = doc.approved /\ d.steps = w.steps
  BY <1>2, <1>4 DEF Doc
<1>6. /\ Edits(n, doc, d)
      /\ \A i \in 1 .. n : d.steps[i].status = IF i = doc.next THEN s ELSE doc.steps[i].status
  BY <1>2, <1>3, <1>5 DEF Edits
<1>7. QED
  BY <1>5, <1>6 DEF w, d

\* An edit of other fields than those of the steps.
LEMMA FieldEdits ==
    ASSUME NEW n \in Nat, NEW doc \in Doc(n), NEW d \in Doc(n), Ordered(n, doc),
           d.rev = doc.rev, d.next = doc.next, d.steps = doc.steps
    PROVE  Edits(n, doc, d)
BY DEF Edits, Ordered

LEMMA SameStatus ==
    ASSUME NEW n, NEW doc \in Doc(n)
    PROVE  [doc EXCEPT !.status = doc.status] = doc
BY DEF Doc

-----------------------------------------------------------------------------
\* Counting calls

LEMMA WithinBound ==
    ASSUME NEW c \in Nat, NEW paid \in Nat, NEW t \in Nat, NEW bound \in Nat,
           c <= paid + t, t <= bound
    PROVE  c <= paid + bound
OBVIOUS

LEMMA OneMore ==
    ASSUME NEW c \in Nat, NEW paid \in Nat, NEW t \in Nat, c + 0 <= paid + t
    PROVE  c + 1 <= paid + (t + 1)
OBVIOUS

LEMMA PaidType ==
    ASSUME NEW wf \in Seq(Step), NEW nr \in [1 .. Len(wf) -> Nat], NEW i \in 1 .. Len(wf)
    PROVE  /\ Paid(wf, nr, i) \in Nat /\ wf[i].attempts \in 1 .. 3
           /\ nr[i] = 0 => Paid(wf, nr, i) = 0
<1>1. wf[i] \in Step /\ nr[i] \in Nat
  OBVIOUS
<1>2. wf[i].attempts \in 1 .. 3
  BY <1>1 DEF Step
<1>3. wf[i].attempts = 1 \/ wf[i].attempts = 2 \/ wf[i].attempts = 3
  BY <1>2
<1>4. Paid(wf, nr, i) \in Nat /\ (nr[i] = 0 => Paid(wf, nr, i) = 0)
  BY <1>1, <1>3 DEF Paid
<1>5. QED
  BY <1>2, <1>4

LEMMA PaidMore ==
    ASSUME NEW wf \in Seq(Step), NEW nr, NEW nr2, NEW i \in 1 .. Len(wf),
           nr[i] \in Nat, nr2[i] = nr[i] + 1
    PROVE  Paid(wf, nr2, i) = Paid(wf, nr, i) + wf[i].attempts
<1>1. wf[i] \in Step
  OBVIOUS
<1>2. wf[i].attempts = 1 \/ wf[i].attempts = 2 \/ wf[i].attempts = 3
  BY <1>1 DEF Step
<1>3. QED
  BY <1>2 DEF Paid

\* An edit whose status of the next step is not one of a step to be started.
LEMMA EditCounted ==
    ASSUME NEW wf \in Seq(Step), NEW cs \in [1 .. Len(wf) -> Nat], NEW nr \in [1 .. Len(wf) -> Nat],
           NEW doc, NEW d, Counted(wf, doc, cs, nr),
           \A i \in 1 .. Len(wf) : i # doc.next => d.steps[i].status = doc.steps[i].status,
           doc.next \in 1 .. Len(wf) =>
              \/ d.steps[doc.next].status \notin {"pending", "awaiting_approval"}
              \/ d.steps[doc.next].status = doc.steps[doc.next].status
              \/ SideEffecting(wf[doc.next]) => cs[doc.next] <= Paid(wf, nr, doc.next)
    PROVE  Counted(wf, d, cs, nr)
<1> SUFFICES ASSUME NEW i \in 1 .. Len(wf), SideEffecting(wf[i])
    PROVE  cs[i] <= Paid(wf, nr, i) + Slack(wf, d, i)
  BY DEF Counted
<1>1. /\ cs[i] \in Nat /\ Paid(wf, nr, i) \in Nat /\ wf[i].attempts \in 1 .. 3
      /\ cs[i] <= Paid(wf, nr, i) + Slack(wf, doc, i)
  BY PaidType DEF Counted
<1>2. QED
  BY <1>1 DEF Slack

\* A step that is still to be started has made no call that is not paid for.
LEMMA UnstartedReady ==
    ASSUME NEW wf \in Seq(Step), NEW cs \in [1 .. Len(wf) -> Nat], NEW nr \in [1 .. Len(wf) -> Nat],
           NEW doc, Counted(wf, doc, cs, nr), doc.next \in 1 .. Len(wf) + 1,
           doc.next <= Len(wf) => doc.steps[doc.next].status \in {"pending", "awaiting_approval"}
    PROVE  Ready(wf, doc, cs, nr)
<1> SUFFICES ASSUME doc.next \in 1 .. Len(wf), SideEffecting(wf[doc.next])
    PROVE  cs[doc.next] <= Paid(wf, nr, doc.next)
  BY DEF Ready
<1>1. Paid(wf, nr, doc.next) \in Nat /\ cs[doc.next] \in Nat
  BY PaidType
<1>2. Slack(wf, doc, doc.next) = 0
  BY DEF Slack
<1>3. QED
  BY <1>1, <1>2 DEF Counted

-----------------------------------------------------------------------------
\* What each kind of step preserves of the copies and the calls

\* A finished step of the row is immutable, and so is a terminal row.
RowStands ==
    /\ row.status \in TerminalStatus => row' = row
    /\ \A i \in Steps : row.steps[i].status \in {"completed", "skipped"} =>
          row'.steps[i] = row.steps[i]

Kept == FlightInv' /\ RowStands /\ deployment' = deployment

\* The process p, about to have doc as its document, is in the way of a call in
\* progress of the same step.
InTheWay(p, doc, nr) ==
    \E q \in Procs : /\ q # p /\ pc[q] = "tool" /\ ex[q].next = doc.next
                     /\ SideEffecting(StepOf(doc)) /\ nr[doc.next] = 0

LEMMA SameHosts ==
    ASSUME deployment' = deployment
    PROVE  /\ Workflow' = Workflow /\ N' = N /\ Steps' = Steps /\ WorkerOf' = WorkerOf
           /\ SnapshotsChecked' = SnapshotsChecked
BY DEF Workflow, N, Steps, WorkerOf, Entries, SnapshotsChecked

LEMMA RowSame ==
    ASSUME row' = row
    PROVE  RowStands
BY DEF RowStands

\* No process moves.
LEMMA Stays ==
    ASSUME FlightInv, UNCHANGED <<deployment, row, pc, ex, try, calls, notRun>>
    PROVE  Kept
<1>1. /\ Workflow' = Workflow /\ N' = N /\ Steps' = Steps /\ WorkerOf' = WorkerOf
      /\ SnapshotsChecked' = SnapshotsChecked
  BY SameHosts
<1>2. CopyInv'
  BY <1>1 DEF FlightInv, CopyInv
<1>3. ASSUME SnapshotsChecked PROVE ReplayInv'
  <2>1. ReplayInv
    BY <1>3 DEF FlightInv
  <2>2. \A p \in Procs : CurrentSound(p)'
    BY <1>1, <2>1 DEF ReplayInv, CurrentSound
  <2>3. \A p, q \in Procs : Alone(p, q)'
    BY <1>1, <2>1 DEF ReplayInv, Alone, StepOf
  <2>4. QED
    BY <1>1, <2>1, <2>2, <2>3 DEF ReplayInv
<1>4. QED
  BY <1>1, <1>2, <1>3, RowSame DEF FlightInv, Kept

\* One process moves and the row stays.
LEMMA Moves ==
    ASSUME ExecInv, FlightInv, NEW p \in Procs, NEW label \in Labels \ {"tool"}, NEW doc \in Doc(N),
           pc' = [pc EXCEPT ![p] = label], ex' = [ex EXCEPT ![p] = doc],
           UNCHANGED <<deployment, row, calls, notRun>>,
           \A q \in Procs : q # p => try'[q] = try[q],
           label # "release" => Ordered(N, doc) /\ Descends(N, doc, row),
           SnapshotsChecked =>
              /\ label # "release" /\ doc.rev = row.rev =>
                    /\ DocStatus(Workflow, doc, calls, notRun)
                    /\ LabelStatus(Workflow, label, doc, row, try'[p], calls, notRun)
              /\ label \in {"acquire_run", "acquire_interrupted"} => WorkerOf[p] = NoWorker
              /\ label \in CallLabels /\ InTheWay(p, doc, notRun) => doc.rev # row.rev
    PROVE  Kept
<1>1. /\ Workflow' = Workflow /\ N' = N /\ Steps' = Steps /\ WorkerOf' = WorkerOf
      /\ SnapshotsChecked' = SnapshotsChecked
  BY SameHosts
<1>2. /\ pc'[p] = label /\ ex'[p] = doc
      /\ \A q \in Procs : q # p => pc'[q] = pc[q] /\ ex'[q] = ex[q]
  BY DEF ExecInv, Types
<1>3. CopyInv'
  BY <1>1, <1>2 DEF FlightInv, CopyInv
<1>4. ASSUME SnapshotsChecked PROVE ReplayInv'
  <2>1. ReplayInv
    BY <1>4 DEF FlightInv
  <2>2. ASSUME NEW q \in Procs PROVE CurrentSound(q)'
    <3>1. CASE q = p
      BY <1>1, <1>2, <1>4, <3>1 DEF CurrentSound
    <3>2. CASE q # p
      BY <1>1, <1>2, <2>1, <3>2 DEF ReplayInv, CurrentSound
    <3>3. QED
      BY <3>1, <3>2
  <2>3. ASSUME NEW a \in Procs, NEW b \in Procs PROVE Alone(a, b)'
    <3>1. CASE a = p
      BY <1>2, <3>1 DEF Alone
    <3>2. CASE a # p /\ b = p
      BY <1>1, <1>2, <1>4, <3>2 DEF Alone, InTheWay, StepOf
    <3>3. CASE a # p /\ b # p
      BY <1>1, <1>2, <2>1, <3>3 DEF ReplayInv, Alone, StepOf
    <3>4. QED
      BY <3>1, <3>2, <3>3
  <2>4. \A q \in Procs : pc'[q] \in {"acquire_run", "acquire_interrupted"} => WorkerOf'[q] = NoWorker
    BY <1>1, <1>2, <1>4, <2>1 DEF ReplayInv
  <2>5. QED
    BY <1>1, <2>1, <2>2, <2>3, <2>4 DEF ReplayInv
<1>5. QED
  BY <1>1, <1>3, <1>4, RowSame DEF FlightInv, Kept

\* The revision says nothing of the status.
LEMMA StatusRevised ==
    ASSUME NEW wf, NEW doc, NEW d, NEW cs, NEW nr, DocStatus(wf, doc, cs, nr),
           d.next = doc.next, d.steps = doc.steps, d.status = doc.status
    PROVE  DocStatus(wf, d, cs, nr)
BY DEF DocStatus, Consistent, Counted, Slack

\* The store takes the document of p: whoever else works has a stale copy now.
LEMMA Stores ==
    ASSUME ExecInv, FlightInv, NEW p \in Procs, NEW label \in Labels \ ReadLabels, NEW doc,
           pc[p] # "release", Edits(N, ex[p], doc),
           ValidUpdate(row, doc), row' = [doc EXCEPT !.rev = @ + 1],
           pc' = [pc EXCEPT ![p] = label], ex' = [ex EXCEPT ![p] = row'],
           UNCHANGED <<deployment, try>>, notRun' \in [Steps -> Nat],
           \A i \in Steps : notRun'[i] = 0 => notRun[i] = 0,
           SnapshotsChecked /\ ex[p].rev = row.rev =>
              /\ \A i \in Steps : calls'[i] > 0 => calls[i] > 0 \/ Workflow[i].kind = "tool"
              /\ DocStatus(Workflow, doc, calls', notRun')
              /\ label # "release" => LabelStatus(Workflow, label, doc, row, try[p], calls', notRun')
              /\ label \in CallLabels => ~InTheWay(p, doc, notRun')
    PROVE  Kept
<1>1. /\ Workflow' = Workflow /\ N' = N /\ Steps' = Steps /\ WorkerOf' = WorkerOf
      /\ SnapshotsChecked' = SnapshotsChecked
  BY SameHosts
<1>2. /\ ex[p] \in Doc(N) /\ N \in Nat /\ Steps = 1 .. N /\ N = Len(Workflow)
      /\ row \in Doc(N) /\ doc \in Doc(N)
  BY ProcessFacts DEF ExecInv, Types, Edits
<1>3. /\ pc'[p] = label /\ ex'[p] = row'
      /\ \A q \in Procs : q # p => pc'[q] = pc[q] /\ ex'[q] = ex[q]
  BY DEF ExecInv, Types
<1>4. /\ row'.rev = doc.rev + 1 /\ row'.next = doc.next /\ row'.steps = doc.steps
      /\ row'.status = doc.status
  BY <1>2 DEF Doc
<1>5. /\ ex[p].rev = row.rev /\ row.status \notin TerminalStatus
      /\ \A i \in 1 .. N : row.steps[i].status \in Finished => doc.steps[i] = row.steps[i]
  <2>1. Descends(N, ex[p], row) /\ Ordered(N, row)
    BY DEF FlightInv, CopyInv
  <2>2. QED
    BY <1>2, <2>1, EditsStand
<1>6. RowStands
  BY <1>2, <1>4, <1>5 DEF RowStands, Finished
<1>7. row'.rev = row.rev + 1 /\ row.rev \in Nat
  BY <1>2, <1>4, <1>5 DEF Edits, Doc
<1>8. Ordered(N, row')
  <2>1. Ordered(N, doc)
    BY <1>2, EditsOrdered DEF FlightInv, CopyInv
  <2>2. QED
    BY <1>4, <2>1 DEF Ordered
<1>9. Descends(N, row', row')
  BY <1>7 DEF Descends
<1>10. ASSUME NEW q \in Procs, q # p, pc[q] # "release"
       PROVE  Ordered(N, ex[q]) /\ Descends(N, ex[q], row') /\ ex[q].rev # row'.rev
  <2>1. Ordered(N, ex[q]) /\ Descends(N, ex[q], row)
    BY <1>10 DEF FlightInv, CopyInv
  <2>2. ex[q].rev \in Nat
    BY <1>10, ProcessFacts DEF Doc
  <2>3. QED
    BY <1>7, <2>1, <2>2 DEF Descends
<1>11. CopyInv'
  BY <1>1, <1>3, <1>8, <1>9, <1>10 DEF CopyInv
<1>12. ASSUME SnapshotsChecked PROVE ReplayInv'
  <2>1. ReplayInv
    BY <1>12 DEF FlightInv
  <2>2. DocStatus(Workflow, row', calls', notRun')
    BY <1>4, <1>5, <1>12, StatusRevised
  <2>3. ASSUME label # "release"
        PROVE  LabelStatus(Workflow, label, row', row', try[p], calls', notRun')
    <3>1. LabelStatus(Workflow, label, doc, row, try[p], calls', notRun')
      BY <1>5, <1>12, <2>3
    <3>2. label \notin ReadLabels
      OBVIOUS
    <3>3. QED
      BY <1>4, <3>1, <3>2 DEF LabelStatus, Ready
  <2>4. ASSUME NEW q \in Procs PROVE CurrentSound(q)'
    <3>1. CASE q = p
      BY <1>1, <1>3, <2>2, <2>3, <3>1 DEF CurrentSound
    <3>2. CASE q # p
      BY <1>1, <1>3, <1>10, <3>2 DEF CurrentSound
    <3>3. QED
      BY <3>1, <3>2
  <2>5. label \in CallLabels => ~InTheWay(p, doc, notRun')
    BY <1>5, <1>12
  <2>6. ASSUME NEW q \in Procs, q # p, pc[q] = "tool", label \in CallLabels,
               ex[q].next = row'.next, SideEffecting(Workflow[row'.next]), notRun'[row'.next] = 0
        PROVE  FALSE
    BY <1>4, <2>5, <2>6 DEF InTheWay, StepOf
  <2>7. ASSUME NEW a \in Procs, NEW b \in Procs PROVE Alone(a, b)'
    <3> SUFFICES ASSUME pc'[a] = "tool", pc'[b] \in CallLabels, a # b,
                        ex'[a].next = ex'[b].next, SideEffecting(Workflow[ex'[a].next]),
                        notRun'[ex'[a].next] = 0
        PROVE  pc'[b] # "tool" /\ ex'[b].rev # row'.rev
      BY <1>1 DEF Alone, StepOf
    <3>1. CASE a = p
      <4>1. pc[b] \in CallLabels /\ pc[b] # "release"
        BY <1>3, <3>1 DEF CallLabels
      <4>2. pc[b] # "tool"
        BY <1>3, <2>6, <3>1 DEF CallLabels
      <4>3. b # p /\ pc'[b] = pc[b] /\ ex'[b] = ex[b]
        BY <1>3, <3>1
      <4>4. ex[b].rev # row'.rev
        BY <1>10, <4>1, <4>3
      <4>5. QED
        BY <4>2, <4>3, <4>4
    <3>2. CASE a # p /\ b = p
      <4>1. pc[a] = "tool" /\ label \in CallLabels /\ ex[a].next = row'.next
        BY <1>3, <3>2
      <4>2. SideEffecting(Workflow[row'.next]) /\ notRun'[row'.next] = 0
        BY <1>3, <3>2, <4>1
      <4>3. FALSE
        BY <2>6, <3>2, <4>1, <4>2
      <4>4. QED
        BY <4>3
    <3>3. CASE a # p /\ b # p
      <4>1. pc[a] = "tool" /\ pc[b] \in CallLabels /\ pc[b] # "release" /\ ex[a].next = ex[b].next
        BY <1>3, <3>3 DEF CallLabels
      <4>2. ex[a].next \in Steps
        <5>1. pc[a] \in StepLabels
          BY <4>1 DEF StepLabels, ApprovedLabels
        <5>2. QED
          BY <1>2, <5>1, StepFacts
      <4>3. notRun[ex[a].next] = 0 /\ SideEffecting(StepOf(ex[a]))
        BY <1>3, <3>3, <4>2 DEF StepOf
      <4>4. pc[b] # "tool"
        BY <2>1, <4>1, <4>3 DEF ReplayInv, Alone
      <4>5. QED
        BY <1>3, <1>10, <3>3, <4>1, <4>4
    <3>4. QED
      BY <3>1, <3>2, <3>3
  <2>8. \A q \in Procs : pc'[q] \in {"acquire_run", "acquire_interrupted"} => WorkerOf'[q] = NoWorker
    <3>1. label \notin {"acquire_run", "acquire_interrupted"}
      BY DEF ReadLabels, AcquireTargets
    <3>2. QED
      BY <1>1, <1>3, <2>1, <3>1 DEF ReplayInv
  <2>9. \A i \in Steps : calls'[i] > 0 => Workflow[i].kind = "tool"
    BY <1>5, <1>12, <2>1 DEF ReplayInv
  <2>10. QED
    BY <1>1, <2>2, <2>4, <2>7, <2>8, <2>9 DEF ReplayInv
<1>13. QED
  BY <1>1, <1>6, <1>11, <1>12 DEF FlightInv, Kept

-----------------------------------------------------------------------------
\* Moves and saves of the operations

\* Labels that say nothing more of the status of a current document.
QuietLabels ==
    {"idle", "expire_pending", "reject", "cancel", "cancel_save", "expire", "run_expire",
     "run_cancel_save", "await", "save_incomplete", "recovery", "fail"}

LEMMA QuietStatus ==
    ASSUME NEW label \in QuietLabels, NEW wf, NEW doc, NEW r, NEW t, NEW cs, NEW nr
    PROVE  /\ label \in Labels \ {"tool", "release"} /\ label \notin ReadLabels
           /\ label \notin CallLabels
           /\ label \notin {"acquire_run", "acquire_interrupted"}
           /\ LabelStatus(wf, label, doc, r, t, cs, nr)
BY DEF QuietLabels, Labels, ReadLabels, AcquireTargets, CallLabels, RunningLabels, ReadyLabels,
       StepLabels, ApprovedLabels, LabelStatus

LEMMA FlightFacts ==
    ASSUME ExecInv, FlightInv, NEW p \in Procs, pc[p] # "release"
    PROVE  /\ ex[p] \in Doc(N) /\ ex[p].next \in 1 .. N + 1 /\ N \in Nat
           /\ N = Len(Workflow) /\ Steps = 1 .. N
           /\ Workflow \in Seq(Step)
           /\ calls \in [1 .. Len(Workflow) -> Nat] /\ notRun \in [1 .. Len(Workflow) -> Nat]
           /\ try[p] \in Nat
           /\ Ordered(N, ex[p]) /\ Descends(N, ex[p], row)
           /\ SnapshotsChecked /\ ex[p].rev = row.rev =>
                 /\ Consistent(N, ex[p]) /\ Counted(Workflow, ex[p], calls, notRun)
                 /\ LabelStatus(Workflow, pc[p], ex[p], row, try[p], calls, notRun)
<1>1. /\ ex[p] \in Doc(N) /\ deployment \in Deployments /\ calls \in [Steps -> Nat]
      /\ try[p] \in Nat
  BY DEF ExecInv, Types, LeaseTypes
<1>2. /\ N \in Nat /\ N = Len(Workflow) /\ Steps = 1 .. Len(Workflow) /\ Workflow \in Seq(Step)
  BY <1>1, WorkflowType
<1>3. Ordered(N, ex[p]) /\ Descends(N, ex[p], row) /\ notRun \in [Steps -> Nat]
  BY DEF FlightInv, CopyInv
<1>4. SnapshotsChecked /\ ex[p].rev = row.rev =>
         /\ Consistent(N, ex[p]) /\ Counted(Workflow, ex[p], calls, notRun)
         /\ LabelStatus(Workflow, pc[p], ex[p], row, try[p], calls, notRun)
  BY <1>2 DEF FlightInv, ReplayInv, CurrentSound, DocStatus
<1>5. QED
  BY <1>1, <1>2, <1>3, <1>4 DEF Doc

\* A process goes on with the document it has.
LEMMA GoesOn ==
    ASSUME ExecInv, FlightInv, NEW p \in Procs, NEW label \in Labels \ {"tool", "release"},
           pc[p] # "release", pc' = [pc EXCEPT ![p] = label],
           UNCHANGED <<deployment, row, ex, calls, notRun>>,
           \A q \in Procs : q # p => try'[q] = try[q],
           SnapshotsChecked =>
              /\ ex[p].rev = row.rev =>
                    LabelStatus(Workflow, label, ex[p], row, try'[p], calls, notRun)
              /\ label \in {"acquire_run", "acquire_interrupted"} => WorkerOf[p] = NoWorker
              /\ label \in CallLabels /\ InTheWay(p, ex[p], notRun) => ex[p].rev # row.rev
    PROVE  Kept
<1>1. ex[p] \in Doc(N) /\ ex' = [ex EXCEPT ![p] = ex[p]]
  BY DEF ExecInv, Types
<1>2. /\ Ordered(N, ex[p]) /\ Descends(N, ex[p], row)
      /\ SnapshotsChecked /\ ex[p].rev = row.rev => DocStatus(Workflow, ex[p], calls, notRun)
  BY FlightFacts DEF DocStatus
<1>3. label \in Labels \ {"tool"}
  OBVIOUS
<1>4. QED
  BY <1>1, <1>2, <1>3, Moves

LEMMA GoesQuiet ==
    ASSUME ExecInv, FlightInv, NEW p \in Procs, NEW label \in QuietLabels, pc[p] # "release",
           pc' = [pc EXCEPT ![p] = label],
           UNCHANGED <<deployment, row, ex, try, calls, notRun>>
    PROVE  Kept
<1>1. /\ label \in Labels \ {"tool", "release"} /\ label \notin CallLabels
      /\ label \notin {"acquire_run", "acquire_interrupted"}
      /\ LabelStatus(Workflow, label, ex[p], row, try'[p], calls, notRun)
  BY QuietStatus
<1>2. QED
  BY <1>1, GoesOn

LEMMA GoesToRelease ==
    ASSUME ExecInv, FlightInv, NEW p \in Procs, NEW doc \in Doc(N),
           pc' = [pc EXCEPT ![p] = "release"], ex' = [ex EXCEPT ![p] = doc],
           UNCHANGED <<deployment, row, try, calls, notRun>>
    PROVE  Kept
<1>1. "release" \in Labels \ {"tool"} /\ "release" \notin CallLabels
  BY DEF Labels, CallLabels
<1>2. QED
  BY <1>1, Moves

LEMMA Jumps ==
    ASSUME ExecInv, FlightInv, NEW p \in Procs, NEW label \in QuietLabels \cup {"release"},
           pc[p] # "release", Goto(p, label)
    PROVE  Kept
<1>1. /\ pc' = [pc EXCEPT ![p] = label]
      /\ UNCHANGED <<deployment, row, ex, try, calls, notRun>>
  BY DEF Goto, world, store, history
<1>2. CASE label = "release"
  <2>1. ex[p] \in Doc(N) /\ ex' = [ex EXCEPT ![p] = ex[p]]
    BY <1>1 DEF ExecInv, Types
  <2>2. QED
    BY <1>1, <1>2, <2>1, GoesToRelease
<1>3. QED
  BY <1>1, <1>2, GoesQuiet

\* A process keeps an edit of its document that does not go past the step.
LEMMA EditsQuietly ==
    ASSUME ExecInv, FlightInv, NEW p \in Procs, NEW label \in QuietLabels, NEW doc,
           pc[p] # "release", Edits(N, ex[p], doc), doc.next = ex[p].next,
           pc' = [pc EXCEPT ![p] = label], ex' = [ex EXCEPT ![p] = doc],
           UNCHANGED <<deployment, row, try, calls, notRun>>,
           SnapshotsChecked /\ ex[p].rev = row.rev => DocStatus(Workflow, doc, calls, notRun)
    PROVE  Kept
<1>1. /\ label \in Labels \ {"tool"} /\ label \notin CallLabels
      /\ label \notin {"acquire_run", "acquire_interrupted"}
      /\ LabelStatus(Workflow, label, doc, row, try'[p], calls, notRun)
  BY QuietStatus
<1>2. ex[p] \in Doc(N) /\ N \in Nat /\ Ordered(N, ex[p]) /\ Descends(N, ex[p], row)
  BY FlightFacts
<1>3. Ordered(N, doc) /\ Descends(N, doc, row)
  BY <1>2, EditsOrdered, EditsDescends
<1>4. doc \in Doc(N) /\ doc.rev = ex[p].rev
  BY DEF Edits
<1>5. QED
  BY <1>1, <1>3, <1>4, Moves

\* What follows of a save that may also count a call or a decision.
LEMMA SaveHolds ==
    ASSUME ExecInv, FlightInv, NEW p \in Procs, NEW doc, NEW detached,
           NEW onOk \in Labels \ ReadLabels, NEW onErr \in QuietLabels \cup {"release"},
           Save(p, doc, detached, onOk, onErr),
           pc[p] # "release", Edits(N, ex[p], doc), onErr # "release" => doc.next = ex[p].next,
           UNCHANGED <<deployment, try>>,
           pc'[p] = onErr /\ row' = row => UNCHANGED <<calls, notRun>>,
           notRun' \in [Steps -> Nat],
           \A i \in Steps : notRun'[i] = 0 => notRun[i] = 0,
           SnapshotsChecked /\ ex[p].rev = row.rev =>
              /\ DocStatus(Workflow, doc, calls, notRun)
              /\ pc'[p] = onOk =>
                   /\ \A i \in Steps : calls'[i] > 0 => calls[i] > 0 \/ Workflow[i].kind = "tool"
                   /\ DocStatus(Workflow, doc, calls', notRun')
                   /\ onOk # "release" => LabelStatus(Workflow, onOk, doc, row, try[p], calls', notRun')
                   /\ onOk \in CallLabels => ~InTheWay(p, doc, notRun')
    PROVE  Kept
<1>1. doc \in Doc(N) /\ pc \in [Procs -> Labels]
  BY DEF Edits, ExecInv, Types
<1>2. CASE row' = row /\ ex' = [ex EXCEPT ![p] = doc] /\ pc' = [pc EXCEPT ![p] = onErr]
  <2>0. UNCHANGED <<calls, notRun>>
    BY <1>1, <1>2
  <2>1. CASE onErr = "release"
    BY <1>1, <1>2, <2>0, <2>1, GoesToRelease
  <2>2. CASE onErr # "release"
    BY <1>2, <2>0, <2>2, EditsQuietly
  <2>3. QED
    BY <2>1, <2>2
<1>3. CASE /\ Accepts(p, doc) /\ row' = [doc EXCEPT !.rev = @ + 1]
           /\ ex' = [ex EXCEPT ![p] = row'] /\ pc' = [pc EXCEPT ![p] = onOk]
  <2>1. ValidUpdate(row, doc)
    BY <1>3 DEF Accepts
  <2>2. pc'[p] = onOk
    BY <1>1, <1>3
  <2>3. QED
    BY <1>3, <2>1, <2>2, Stores
<1>4. QED
  BY <1>2, <1>3, SaveCases

LEMMA SavesHold ==
    ASSUME ExecInv, FlightInv, NEW p \in Procs, NEW doc, NEW detached,
           NEW onOk \in Labels \ ReadLabels, NEW onErr \in QuietLabels \cup {"release"},
           Saves(p, doc, detached, onOk, onErr),
           pc[p] # "release", Edits(N, ex[p], doc), onErr # "release" => doc.next = ex[p].next,
           SnapshotsChecked /\ ex[p].rev = row.rev =>
              /\ DocStatus(Workflow, doc, calls, notRun)
              /\ onOk # "release" => LabelStatus(Workflow, onOk, doc, row, try[p], calls, notRun)
              /\ onOk \in CallLabels => ~InTheWay(p, doc, notRun)
    PROVE  Kept
<1>1. Save(p, doc, detached, onOk, onErr) /\ UNCHANGED <<deployment, try, calls, notRun>>
  BY DEF Saves, world, history
<1>2. notRun \in [Steps -> Nat]
  BY DEF FlightInv, CopyInv
<1>3. QED
  BY <1>1, <1>2, SaveHolds

LEMMA SavesQuietly ==
    ASSUME ExecInv, FlightInv, NEW p \in Procs, NEW doc, NEW detached,
           NEW onOk \in QuietLabels \cup {"release"}, NEW onErr \in QuietLabels \cup {"release"},
           Saves(p, doc, detached, onOk, onErr),
           pc[p] # "release", Edits(N, ex[p], doc), doc.next = ex[p].next,
           SnapshotsChecked /\ ex[p].rev = row.rev => DocStatus(Workflow, doc, calls, notRun)
    PROVE  Kept
<1>1. onOk \in Labels \ ReadLabels /\ onOk \notin CallLabels
  BY QuietStatus DEF Labels, ReadLabels, AcquireTargets, CallLabels
<1>2. onOk # "release" => LabelStatus(Workflow, onOk, doc, row, try[p], calls, notRun)
  BY QuietStatus
<1>3. QED
  BY <1>1, <1>2, SavesHold

-----------------------------------------------------------------------------
\* Entry and acquisition: no copy is older than it looks

\* The document a process starts from is the stored one.
LEMMA TakesRow ==
    ASSUME ExecInv, FlightInv, NEW p \in Procs,
           NEW label \in ReadLabels \cup {"cancel", "run"},
           ex' = [ex EXCEPT ![p] = row], pc' = [pc EXCEPT ![p] = label],
           UNCHANGED <<deployment, row, try, calls, notRun>>,
           SnapshotsChecked =>
              /\ label \notin {"acquire_run", "run"}
              /\ label \in {"acquire_interrupted", "interrupted"} => row.status = "running"
              /\ label = "acquire_interrupted" => WorkerOf[p] = NoWorker
    PROVE  Kept
<1>1. label \in Labels \ {"tool"} /\ label \notin CallLabels
  BY DEF Labels, ReadLabels, AcquireTargets, CallLabels
<1>2. /\ row \in Doc(N) /\ Ordered(N, row)
      /\ SnapshotsChecked => DocStatus(Workflow, row, calls, notRun)
  BY DEF ExecInv, Types, FlightInv, CopyInv, ReplayInv
<1>3. Descends(N, row, row)
  BY <1>2 DEF Descends, Doc
<1>4. SnapshotsChecked => LabelStatus(Workflow, label, row, row, try'[p], calls, notRun)
  BY DEF LabelStatus, ReadLabels, AcquireTargets, RunningLabels, StepLabels, ApprovedLabels,
         ReadyLabels, CallLabels
<1>5. QED
  BY <1>1, <1>2, <1>3, <1>4, Moves

LEMMA ExecuteFlies ==
    ASSUME ExecInv, FlightInv, NEW p \in Procs, Execute(p)
    PROVE  Kept
<1>1. /\ row.rev = 0 /\ row' = [NoExecution EXCEPT !.rev = 1] /\ "execute" \in Entries
      /\ ex' = [ex EXCEPT ![p] = row'] /\ pc' = [pc EXCEPT ![p] = "acquire_run"]
      /\ UNCHANGED <<deployment, try, calls, notRun>>
  BY DEF Execute, world, history
<1>2. /\ Workflow' = Workflow /\ N' = N /\ Steps' = Steps /\ WorkerOf' = WorkerOf
      /\ SnapshotsChecked' = SnapshotsChecked
  BY <1>1, SameHosts
<1>3. /\ N = Len(Workflow) /\ N \in Nat /\ Steps = 1 .. N /\ Workflow \in Seq(Step)
      /\ deployment \in Deployments
      /\ calls \in [Steps -> Nat] /\ notRun \in [Steps -> Nat]
      /\ row = NoExecution /\ \A i \in Steps : calls[i] = 0
  BY <1>1, WorkflowType DEF ExecInv, Types, FlightInv, CopyInv
<1>4. /\ row' \in Doc(N) /\ row'.rev = 1 /\ row'.status = "running" /\ row'.next = 1
      /\ \A i \in Steps : row'.steps[i].status = "pending"
  <2>0. deployment \in Deployments
    BY <1>3
  <2>1. /\ row' \in Doc(N) /\ row'.rev = 1 /\ ValidCheckpoint(row', NoApproval)
        /\ DocSound(Workflow, row', approvals, calls, confirmed) /\ Settled(row')
    BY <1>1, <2>0, EmptyDocument
  <2>2. row'.status = "running" /\ row'.next = 1 /\ row'.steps = NoExecution.steps
    BY <1>1 DEF NoExecution
  <2>3. \A i \in Steps : NoExecution.steps[i].status = "pending"
    BY DEF NoExecution
  <2>4. QED
    BY <2>1, <2>2, <2>3
<1>5. /\ row.status = "running" /\ \A i \in Steps : row.steps[i].status = "pending"
  BY <1>3 DEF NoExecution
<1>6. RowStands
  BY <1>5 DEF RowStands, TerminalStatus
<1>7. Ordered(N, row') /\ Descends(N, row', row')
  BY <1>3, <1>4 DEF Ordered, Descends, Finished
<1>8. /\ pc'[p] = "acquire_run" /\ ex'[p] = row'
      /\ \A q \in Procs : q # p => pc'[q] = pc[q] /\ ex'[q] = ex[q]
  BY <1>1 DEF ExecInv, Types
<1>9. ASSUME NEW q \in Procs, q # p, pc[q] # "release"
      PROVE  Ordered(N, ex[q]) /\ Descends(N, ex[q], row') /\ ex[q].rev # row'.rev
  <2>1. Ordered(N, ex[q]) /\ Descends(N, ex[q], row) /\ ex[q].rev \in Nat
    BY <1>9, FlightFacts DEF Doc
  <2>2. QED
    BY <1>1, <1>4, <2>1 DEF Descends
<1>10. CopyInv'
  BY <1>1, <1>2, <1>3, <1>7, <1>8, <1>9 DEF CopyInv
<1>11. ASSUME SnapshotsChecked PROVE ReplayInv'
  <2>1. ReplayInv /\ WorkerOf[p] = NoWorker
    BY <1>1, <1>11 DEF FlightInv, SnapshotsChecked
  <2>2. Counted(Workflow, row', calls, notRun)
    <3> SUFFICES ASSUME NEW i \in 1 .. Len(Workflow)
        PROVE  calls[i] <= Paid(Workflow, notRun, i) + Slack(Workflow, row', i)
      BY DEF Counted
    <3>1. Paid(Workflow, notRun, i) \in Nat /\ calls[i] = 0
      BY <1>3, PaidType
    <3>2. Slack(Workflow, row', i) = 0
      BY <1>3, <1>4 DEF Slack
    <3>3. QED
      BY <3>1, <3>2
  <2>3. DocStatus(Workflow, row', calls, notRun)
    BY <1>3, <1>4, <2>2 DEF DocStatus, Consistent
  <2>4. Ready(Workflow, row', calls, notRun)
    BY <1>3, <1>4, <2>2, UnstartedReady
  <2>5. LabelStatus(Workflow, "acquire_run", row', row', try[p], calls, notRun)
    BY <1>4, <2>4 DEF LabelStatus, StepLabels, ApprovedLabels, CallLabels
  <2>6. ASSUME NEW q \in Procs PROVE CurrentSound(q)'
    BY <1>1, <1>2, <1>8, <1>9, <2>3, <2>5 DEF CurrentSound
  <2>7. ASSUME NEW a \in Procs PROVE pc'[a] # "tool"
    <3> SUFFICES ASSUME pc'[a] = "tool" PROVE FALSE
      OBVIOUS
    <3>1. pc[a] = "tool"
      BY <1>8
    <3>2. pc[a] \in StepLabels
      BY <3>1 DEF StepLabels, ApprovedLabels
    <3>3. ex[a].next \in Steps /\ calls[ex[a].next] > 0
      BY <1>3, <3>1, <3>2, StepFacts, ProcessFacts DEF LocalSound
    <3>4. QED
      BY <1>3, <3>3
  <2>8. \A a, b \in Procs : Alone(a, b)'
    BY <2>7 DEF Alone
  <2>9. \A q \in Procs : pc'[q] \in {"acquire_run", "acquire_interrupted"} => WorkerOf'[q] = NoWorker
    BY <1>2, <1>8, <2>1 DEF ReplayInv
  <2>10. \A i \in Steps : calls[i] > 0 => Workflow[i].kind = "tool"
    BY <2>1 DEF ReplayInv
  <2>11. QED
    BY <1>1, <1>2, <2>3, <2>6, <2>8, <2>9, <2>10 DEF ReplayInv
<1>12. QED
  BY <1>1, <1>2, <1>6, <1>10, <1>11 DEF FlightInv, Kept

LEMMA EntersFly ==
    ASSUME ExecInv, FlightInv, NEW p \in Procs,
           ResumeStored(p) \/ CancelCall(p) \/ RecoverCall(p) \/ RunOnce(p)
    PROVE  Kept
<1>1. PICK label \in {"acquire_interrupted", "acquire_resume", "acquire_cancel", "acquire_recover",
                      "claimed"} :
        /\ ex' = [ex EXCEPT ![p] = row] /\ pc' = [pc EXCEPT ![p] = label]
        /\ UNCHANGED <<deployment, row, try, calls, notRun>>
        /\ label = "acquire_interrupted" => row.status = "running" /\ "resume_stored" \in Entries
  BY DEF ResumeStored, CancelCall, RecoverCall, RunOnce, world, store, history
<1>2. label \in ReadLabels
  BY DEF ReadLabels, AcquireTargets
<1>3. SnapshotsChecked /\ label = "acquire_interrupted" => WorkerOf[p] = NoWorker
  BY <1>1 DEF SnapshotsChecked
<1>4. QED
  BY <1>1, <1>2, <1>3, TakesRow

LEMMA AcquireFlies ==
    ASSUME ExecInv, FlightInv, NEW p \in Procs, Acquire(p)
    PROVE  Kept
<1> DEFINE target == AcquireTargets[pc[p]]
<1>1. pc[p] \in DOMAIN AcquireTargets /\ pc[p] # "release" /\ pc[p] \in ReadLabels
  BY DEF Acquire, AcquireTargets, ReadLabels
<1>2. /\ pc[p] = "acquire_run" <=> target = "run"
      /\ pc[p] = "acquire_interrupted" <=> target = "interrupted"
      /\ target \in {"run", "interrupted", "resume", "cancel", "recover_op"}
  BY <1>1 DEF AcquireTargets
<1> HIDE DEF target
<1>3. CASE WorkerOf[p] = NoWorker /\ Goto(p, target)
  <2>1. /\ pc' = [pc EXCEPT ![p] = target]
        /\ UNCHANGED <<deployment, row, ex, try, calls, notRun>>
    BY <1>3 DEF Goto, world, store, history
  <2>2. SnapshotsChecked /\ ex[p].rev = row.rev =>
          LabelStatus(Workflow, target, ex[p], row, try[p], calls, notRun)
    <3> SUFFICES ASSUME SnapshotsChecked, ex[p].rev = row.rev
        PROVE  LabelStatus(Workflow, target, ex[p], row, try[p], calls, notRun)
      OBVIOUS
    <3>1. LabelStatus(Workflow, pc[p], ex[p], row, try[p], calls, notRun)
      BY <1>1, FlightFacts
    <3>2. ex[p] = row
      BY <1>1, <3>1 DEF LabelStatus
    <3>3. /\ target = "run" => ex[p].status = "running" /\ Ready(Workflow, ex[p], calls, notRun)
          /\ target = "interrupted" => ex[p].status = "running"
      BY <1>2, <3>1 DEF LabelStatus, RunningLabels, ReadyLabels
    <3>4. QED
      BY <1>2, <3>2, <3>3 DEF LabelStatus, RunningLabels, ReadyLabels, StepLabels, ApprovedLabels,
                              CallLabels
  <2>3. /\ target \in Labels \ {"tool", "release"} /\ target \notin CallLabels
        /\ target \notin {"acquire_run", "acquire_interrupted"}
    BY <1>2 DEF Labels, CallLabels
  <2>4. QED
    BY <1>1, <2>1, <2>2, <2>3, GoesOn
<1>4. CASE Goto(p, "release")
  BY <1>1, <1>4, Jumps
<1>5. CASE /\ WorkerOf[p] # NoWorker
           /\ ex' = [ex EXCEPT ![p] = row] /\ pc' = [pc EXCEPT ![p] = target]
           /\ UNCHANGED <<deployment, row, try, calls, notRun>>
  <2>1. SnapshotsChecked => target \notin {"run", "interrupted"}
    BY <1>2, <1>5 DEF FlightInv, ReplayInv
  <2>2. target \in ReadLabels \cup {"cancel", "run"}
    BY <1>2 DEF ReadLabels
  <2>3. target \notin {"acquire_run", "acquire_interrupted"}
    BY <1>2
  <2>4. QED
    BY <1>5, <2>1, <2>2, <2>3, TakesRow
<1>6. QED
  BY <1>3, <1>4, <1>5 DEF Acquire, target, world, history

LEMMA ResumeClaimedFlies ==
    ASSUME ExecInv, FlightInv, NEW p \in Procs, ResumeClaimed(p)
    PROVE  Kept
<1>1. pc[p] = "claimed" /\ pc[p] # "release" /\ pc[p] \in ReadLabels
  BY DEF ResumeClaimed, ReadLabels
<1>2. ASSUME NEW label \in {"interrupted", "resume"}, Goto(p, label),
             label = "interrupted" => row.status = "running"
      PROVE  Kept
  <2>1. /\ pc' = [pc EXCEPT ![p] = label]
        /\ UNCHANGED <<deployment, row, ex, try, calls, notRun>>
    BY <1>2 DEF Goto, world, store, history
  <2>2. SnapshotsChecked /\ ex[p].rev = row.rev =>
          LabelStatus(Workflow, label, ex[p], row, try[p], calls, notRun)
    <3> SUFFICES ASSUME SnapshotsChecked, ex[p].rev = row.rev
        PROVE  LabelStatus(Workflow, label, ex[p], row, try[p], calls, notRun)
      OBVIOUS
    <3>1. ex[p] = row
      BY <1>1, FlightFacts DEF LabelStatus
    <3>2. QED
      BY <1>2, <3>1 DEF LabelStatus, RunningLabels, ReadyLabels, StepLabels, ApprovedLabels, CallLabels
  <2>3. /\ label \in Labels \ {"tool", "release"} /\ label \notin CallLabels
        /\ label \notin {"acquire_run", "acquire_interrupted"}
    BY DEF Labels, CallLabels
  <2>4. QED
    BY <1>1, <2>1, <2>2, <2>3, GoesOn
<1>3. CASE Goto(p, "release")
  BY <1>1, <1>3, Jumps
<1>4. CASE pc' = [pc EXCEPT ![p] = "idle"] /\ UNCHANGED <<deployment, row, ex, try, calls, notRun>>
  <2>1. "idle" \in QuietLabels
    BY DEF QuietLabels
  <2>2. QED
    BY <1>1, <1>4, <2>1, GoesQuiet
<1>5. QED
  BY <1>2, <1>3, <1>4 DEF ResumeClaimed, world, store, history

\* A fault, a refusal, an expiry or an abort: where the process goes says nothing.
LEMMA LeavesFly ==
    ASSUME ExecInv, FlightInv, NEW p \in Procs,
           \/ PreflightFault(p) \/ PreCallFault(p) \/ RunExpired(p) \/ RunAborted(p) \/ Refuse(p)
           \/ ToolOutputRejected(p) \/ ToolFails(p) \/ RecoverRefused(p)
    PROVE  Kept
<1>1. PICK label \in {"release", "fail", "run_expire", "run_cancel_save", "recovery"} :
        /\ pc' = [pc EXCEPT ![p] = label] /\ pc[p] # "release"
        /\ UNCHANGED <<deployment, row, ex, try, calls, notRun>>
  BY DEF PreflightFault, PreCallFault, RunExpired, RunAborted, Refuse, ToolOutputRejected, ToolFails,
         RecoverRefused, Continues, AtLoopTop, Goto, world, store, history
<1>2. CASE label = "release"
  <2>1. ex[p] \in Doc(N) /\ ex' = [ex EXCEPT ![p] = ex[p]]
    BY <1>1 DEF ExecInv, Types
  <2>2. QED
    BY <1>1, <1>2, <2>1, GoesToRelease
<1>3. CASE label # "release"
  <2>1. label \in QuietLabels
    BY <1>3 DEF QuietLabels
  <2>2. QED
    BY <1>1, <2>1, GoesQuiet
<1>4. QED
  BY <1>2, <1>3

-----------------------------------------------------------------------------
\* Resuming, cancelling, the run loop

\* An edit that closes the step and the execution, or puts both in recovery, or
\* changes neither.
LEMMA ClosingStatus ==
    ASSUME NEW wf \in Seq(Step), NEW cs \in [1 .. Len(wf) -> Nat], NEW nr \in [1 .. Len(wf) -> Nat],
           NEW doc, NEW d, DocStatus(wf, doc, cs, nr), d.next = doc.next,
           \A i \in 1 .. Len(wf) : i # doc.next => d.steps[i].status = doc.steps[i].status,
           doc.next \in 1 .. Len(wf) => \/ d.steps[doc.next].status \notin {"pending", "awaiting_approval"}
                                        \/ d.steps[doc.next].status = doc.steps[doc.next].status,
           d.status \notin {"running", "awaiting_approval"}
    PROVE  DocStatus(wf, d, cs, nr)
BY EditCounted DEF DocStatus, Consistent

LEMMA ClosedStatus ==
    ASSUME ExecInv, FlightInv, NEW p \in Procs, pc[p] # "release", NEW d,
           NEW s \in {"recovery_required", "failed"}, d.next = ex[p].next,
           d.status \notin {"running", "awaiting_approval"},
           \A i \in 1 .. N : d.steps[i].status = IF i = ex[p].next THEN s ELSE ex[p].steps[i].status,
           SnapshotsChecked, ex[p].rev = row.rev
    PROVE  DocStatus(Workflow, d, calls, notRun)
<1>1. /\ Workflow \in Seq(Step) /\ DocStatus(Workflow, ex[p], calls, notRun)
      /\ calls \in [1 .. Len(Workflow) -> Nat] /\ notRun \in [1 .. Len(Workflow) -> Nat]
      /\ N = Len(Workflow)
  BY FlightFacts DEF DocStatus
<1>2. QED
  BY <1>1, ClosingStatus

LEMMA StepClosed ==
    ASSUME ExecInv, FlightInv, NEW p \in Procs, pc[p] # "release",
           NEW s \in {"recovery_required", "failed"},
           NEW st \in {"recovery_required", "failed", "canceled"}
    PROVE  LET d == [WithStep(ex[p], s) EXCEPT !.status = st] IN
           /\ Edits(N, ex[p], d) /\ d.next = ex[p].next
           /\ SnapshotsChecked /\ ex[p].rev = row.rev => DocStatus(Workflow, d, calls, notRun)
<1> DEFINE d == [WithStep(ex[p], s) EXCEPT !.status = st]
<1>1. s \in StepStatus \ Finished /\ st \in ExecutionStatus
  BY DEF StepStatus, Finished, ExecutionStatus
<1>2. ex[p] \in Doc(N) /\ N \in Nat
  BY FlightFacts
<1>3. /\ Edits(N, ex[p], d) /\ d.next = ex[p].next /\ d.status = st
      /\ \A i \in 1 .. N : d.steps[i].status = IF i = ex[p].next THEN s ELSE ex[p].steps[i].status
  BY <1>1, <1>2, StepEdits
<1> HIDE DEF d
<1>4. SnapshotsChecked /\ ex[p].rev = row.rev => DocStatus(Workflow, d, calls, notRun)
  BY <1>3, ClosedStatus
<1>5. QED
  BY <1>3, <1>4 DEF d

LEMMA ResumeInterruptedFlies ==
    ASSUME ExecInv, FlightInv, NEW p \in Procs, ResumeInterrupted(p)
    PROVE  Kept
<1>1. pc[p] = "interrupted" /\ pc[p] # "release"
  BY DEF ResumeInterrupted
<1>2. CASE Saves(p, RecoveryRequired(ex[p]), TRUE, "release", "release")
  <2> DEFINE d == RecoveryRequired(ex[p])
  <2>1. /\ Edits(N, ex[p], d) /\ d.next = ex[p].next
        /\ SnapshotsChecked /\ ex[p].rev = row.rev => DocStatus(Workflow, d, calls, notRun)
    BY <1>1, StepClosed DEF RecoveryRequired
  <2> HIDE DEF d
  <2>2. Saves(p, d, TRUE, "release", "release")
    BY <1>2 DEF d
  <2>3. QED
    BY <1>1, <2>1, <2>2, SavesQuietly
<1>3. CASE ~InterruptedInFlight(ex[p]) /\ Goto(p, "run")
  <2>1. /\ pc' = [pc EXCEPT ![p] = "run"]
        /\ UNCHANGED <<deployment, row, ex, try, calls, notRun>>
    BY <1>3 DEF Goto, world, store, history
  <2>2. ASSUME SnapshotsChecked, ex[p].rev = row.rev
        PROVE  LabelStatus(Workflow, "run", ex[p], row, try[p], calls, notRun)
    <3>1. /\ LabelStatus(Workflow, pc[p], ex[p], row, try[p], calls, notRun)
          /\ Consistent(N, ex[p]) /\ Counted(Workflow, ex[p], calls, notRun)
          /\ Ordered(N, ex[p]) /\ ex[p] \in Doc(N) /\ N = Len(Workflow) /\ N \in Nat
          /\ ex[p].next \in 1 .. N + 1 /\ Workflow \in Seq(Step) /\ Steps = 1 .. N
          /\ calls \in [1 .. Len(Workflow) -> Nat] /\ notRun \in [1 .. Len(Workflow) -> Nat]
      BY <1>1, <2>2, FlightFacts
    <3>2. ex[p].status = "running"
      BY <1>1, <3>1 DEF LabelStatus, RunningLabels
    <3>3. Ready(Workflow, ex[p], calls, notRun)
      <4>1. CASE ex[p].next > N \/ ~SideEffecting(Workflow[ex[p].next])
        BY <3>1, <4>1 DEF Ready
      <4>2. CASE ex[p].next <= N /\ Workflow[ex[p].next].kind # "tool"
        <5>1. ex[p].next \in Steps /\ calls[ex[p].next] \in Nat
          BY <3>1, <4>2
        <5>2. ~(calls[ex[p].next] > 0)
          BY <2>2, <4>2, <5>1 DEF FlightInv, ReplayInv
        <5>3. Paid(Workflow, notRun, ex[p].next) \in Nat
          BY <3>1, <5>1, PaidType
        <5>4. QED
          BY <5>1, <5>2, <5>3 DEF Ready
      <4>3. CASE ex[p].next <= N /\ RunOf(ex[p]).status # "running"
        <5>1. ex[p].steps[ex[p].next].status \in StepStatus
          BY <3>1, <4>3 DEF Doc
        <5>2. ex[p].steps[ex[p].next].status \in {"pending", "awaiting_approval"}
          BY <3>1, <3>2, <4>3, <5>1 DEF Ordered, Consistent, RunOf, StepStatus, Finished
        <5>3. QED
          BY <3>1, <5>2, UnstartedReady
      <4>4. QED
        BY <1>3, <3>1, <4>1, <4>2, <4>3 DEF InterruptedInFlight, StepOf
    <3>4. QED
      BY <3>2, <3>3 DEF LabelStatus, ReadLabels, AcquireTargets, RunningLabels, StepLabels,
                        ApprovedLabels, CallLabels
  <2>3. "run" \in Labels \ {"tool", "release"} /\ "run" \notin CallLabels
    BY DEF Labels, CallLabels
  <2>4. QED
    BY <1>1, <2>1, <2>2, <2>3, GoesOn
<1>4. QED
  BY <1>2, <1>3 DEF ResumeInterrupted

LEMMA RunIsLabel ==
    /\ {"run", "step", "called", "tool", "complete"} \subseteq Labels \ ReadLabels
    /\ "run" \notin CallLabels /\ "step" \notin CallLabels /\ "complete" \notin CallLabels
BY DEF Labels, ReadLabels, AcquireTargets, CallLabels

\* What is asked of a document the loop goes on with.
LEMMA RunStatus ==
    ASSUME NEW wf, NEW doc, NEW r, NEW t, NEW cs, NEW nr,
           doc.status = "running", Ready(wf, doc, cs, nr)
    PROVE  LabelStatus(wf, "run", doc, r, t, cs, nr)
BY DEF LabelStatus, ReadLabels, AcquireTargets, StepLabels, ApprovedLabels, CallLabels

LEMMA GrantedFlies ==
    ASSUME ExecInv, FlightInv, NEW p \in Procs, pc[p] = "resume",
           ex[p].status = "awaiting_approval", approvals[ex[p].pending].status = "granted",
           Saves(p, Granted(ex[p]), FALSE, "run", "release")
    PROVE  Kept
<1> DEFINE d == Granted(ex[p])
<1>1. pc[p] # "release" /\ pc[p] \in ReadLabels
  BY DEF ReadLabels
<1>2. /\ ex[p] \in Doc(N) /\ N \in Nat /\ N = Len(Workflow) /\ Ordered(N, ex[p])
      /\ ex[p].next \in 1 .. N + 1
  BY <1>1, FlightFacts
<1>3. d \in Doc(N)
  <2>1. DocSound(Workflow, ex[p], approvals, calls, confirmed) /\ Settled(ex[p])
    BY <1>1, ProcessFacts DEF LocalSound
  <2>2. QED
    BY <1>2, <2>1, GrantedSound DEF Settled
<1>4. d.rev = ex[p].rev /\ d.next = ex[p].next /\ d.steps = ex[p].steps /\ d.status = "running"
  BY <1>2 DEF Granted, Doc
<1>5. Saves(p, d, FALSE, "run", "release")
  OBVIOUS
<1> HIDE DEF d
<1>6. Edits(N, ex[p], d)
  BY <1>2, <1>3, <1>4, FieldEdits
<1>7. ASSUME SnapshotsChecked, ex[p].rev = row.rev
      PROVE  /\ DocStatus(Workflow, d, calls, notRun)
             /\ LabelStatus(Workflow, "run", d, row, try[p], calls, notRun)
  <2>1. /\ Consistent(N, ex[p]) /\ Counted(Workflow, ex[p], calls, notRun)
        /\ Workflow \in Seq(Step)
        /\ calls \in [1 .. Len(Workflow) -> Nat] /\ notRun \in [1 .. Len(Workflow) -> Nat]
    BY <1>1, <1>7, FlightFacts
  <2>2. d.next <= N /\ d.steps[d.next].status = "awaiting_approval"
    BY <1>4, <2>1 DEF Consistent
  <2>3. Counted(Workflow, d, calls, notRun)
    BY <1>4, <2>1 DEF Counted, Slack
  <2>4. Ready(Workflow, d, calls, notRun)
    BY <1>2, <1>4, <2>1, <2>2, <2>3, UnstartedReady
  <2>5. Consistent(N, d)
    BY <1>4, <2>2 DEF Consistent
  <2>6. QED
    BY <1>2, <1>4, <2>3, <2>4, <2>5, RunStatus DEF DocStatus
<1>8. QED
  BY <1>1, <1>5, <1>6, <1>7, RunIsLabel, SavesHold

LEMMA ResumeFlies ==
    ASSUME ExecInv, FlightInv, NEW p \in Procs, Resume(p)
    PROVE  Kept
<1>1. pc[p] = "resume" /\ pc[p] # "release"
  BY DEF Resume
<1>2. ASSUME NEW label \in {"expire", "expire_pending", "reject", "release"}, Goto(p, label)
      PROVE  Kept
  <2>1. label \in QuietLabels \cup {"release"}
    BY DEF QuietLabels
  <2>2. QED
    BY <1>1, <1>2, <2>1, Jumps
<1>3. CASE /\ ex[p].status = "awaiting_approval"
           /\ approvals[ex[p].pending].status = "granted"
           /\ Saves(p, Granted(ex[p]), FALSE, "run", "release")
  BY <1>1, <1>3, GrantedFlies
<1>4. QED
  BY <1>2, <1>3 DEF Resume

\* The reference to an approval is dropped: an edit like any other.
LEMMA DropFlies ==
    ASSUME ExecInv, FlightInv, NEW p \in Procs, NEW label \in QuietLabels, pc[p] # "release",
           ex' = [ex EXCEPT ![p].pending = 0], pc' = [pc EXCEPT ![p] = label],
           UNCHANGED <<deployment, row, try, calls, notRun>>
    PROVE  Kept
<1> DEFINE d == [ex[p] EXCEPT !.pending = 0]
<1>1. ex' = [ex EXCEPT ![p] = d]
  BY DEF ExecInv, Types
<1>2. ex[p] \in Doc(N) /\ N \in Nat /\ N = Len(Workflow) /\ Ordered(N, ex[p])
  BY FlightFacts
<1>3. /\ d \in Doc(N) /\ d.rev = ex[p].rev /\ d.next = ex[p].next /\ d.steps = ex[p].steps
      /\ d.status = ex[p].status
  BY <1>2 DEF Doc
<1> HIDE DEF d
<1>4. Edits(N, ex[p], d)
  BY <1>2, <1>3, FieldEdits
<1>5. SnapshotsChecked /\ ex[p].rev = row.rev => DocStatus(Workflow, d, calls, notRun)
  <2>1. SnapshotsChecked /\ ex[p].rev = row.rev => DocStatus(Workflow, ex[p], calls, notRun)
    BY <1>2, FlightFacts DEF DocStatus
  <2>2. QED
    BY <1>3, <2>1, StatusRevised
<1>6. QED
  BY <1>1, <1>3, <1>4, <1>5, EditsQuietly

LEMMA ExpirePendingFlies ==
    ASSUME ExecInv, FlightInv, NEW p \in Procs, ExpirePending(p)
    PROVE  Kept
<1>1. pc[p] # "release" /\ "reject" \in QuietLabels
  BY DEF ExpirePending, QuietLabels
<1>2. CASE Goto(p, "release")
  BY <1>1, <1>2, Jumps
<1>3. CASE /\ pc' = [pc EXCEPT ![p] = "reject"]
           /\ UNCHANGED <<deployment, row, ex, try, calls, notRun>>
  BY <1>1, <1>3, GoesQuiet
<1>4. QED
  BY <1>2, <1>3 DEF ExpirePending, world, store, history

LEMMA CloseFlies ==
    ASSUME ExecInv, FlightInv, NEW p \in Procs, NEW status, NEW detached,
           NEW label \in QuietLabels, pc[p] # "release",
           CloseApproval(p, status, detached, label)
    PROVE  Kept
<1>1. CASE Goto(p, label) \/ Goto(p, "release")
  BY <1>1, Jumps
<1>2. CASE /\ ex' = [ex EXCEPT ![p].pending = 0] /\ pc' = [pc EXCEPT ![p] = label]
           /\ UNCHANGED <<deployment, row, try, calls, notRun>>
  BY <1>2, DropFlies
<1>3. QED
  BY <1>1, <1>2 DEF CloseApproval, NoApproval, world, store, history

LEMMA CancelFlies ==
    ASSUME ExecInv, FlightInv, NEW p \in Procs, Cancel(p) \/ ExpireExecution(p)
    PROVE  Kept
<1>1. PICK status \in {"expired", "canceled"}, detached \in BOOLEAN,
           label \in {"cancel_save", "run_cancel_save"} :
        CloseApproval(p, status, detached, label) /\ pc[p] # "release"
  BY DEF Cancel, ExpireExecution
<1>2. label \in QuietLabels
  BY DEF QuietLabels
<1>3. QED
  BY <1>1, <1>2, CloseFlies

LEMMA RejectFlies ==
    ASSUME ExecInv, FlightInv, NEW p \in Procs, Reject(p)
    PROVE  Kept
<1> DEFINE f == Failed(ex[p])
           d == [f EXCEPT !.pending = 0]
<1>1. Saves(p, d, FALSE, "release", "release") /\ pc[p] # "release"
  BY DEF Reject, NoApproval
<1>2. /\ Edits(N, ex[p], f) /\ f.next = ex[p].next
      /\ SnapshotsChecked /\ ex[p].rev = row.rev => DocStatus(Workflow, f, calls, notRun)
  BY <1>1, StepClosed DEF Failed
<1> HIDE DEF f
<1>3. /\ d \in Doc(N) /\ d.rev = f.rev /\ d.next = f.next /\ d.steps = f.steps
      /\ d.status = f.status
  BY <1>2 DEF Edits, Doc
<1> HIDE DEF d
<1>4. Edits(N, ex[p], d)
  BY <1>2, <1>3 DEF Edits
<1>5. SnapshotsChecked /\ ex[p].rev = row.rev => DocStatus(Workflow, d, calls, notRun)
  BY <1>2, <1>3, StatusRevised
<1>6. QED
  BY <1>1, <1>2, <1>3, <1>4, <1>5, SavesQuietly

LEMMA FailFlies ==
    ASSUME ExecInv, FlightInv, NEW p \in Procs, Fail(p)
    PROVE  Kept
<1> DEFINE d == Failed(ex[p])
<1>1. Saves(p, d, TRUE, "release", "release") /\ pc[p] # "release"
  BY DEF Fail
<1>2. /\ Edits(N, ex[p], d) /\ d.next = ex[p].next
      /\ SnapshotsChecked /\ ex[p].rev = row.rev => DocStatus(Workflow, d, calls, notRun)
  BY <1>1, StepClosed DEF Failed
<1> HIDE DEF d
<1>3. QED
  BY <1>1, <1>2, SavesQuietly

LEMMA RequireRecoveryFlies ==
    ASSUME ExecInv, FlightInv, NEW p \in Procs, RequireRecovery(p)
    PROVE  Kept
<1> DEFINE d == RecoveryRequired(ex[p])
<1>1. Saves(p, d, TRUE, "save_incomplete", "fail") /\ pc[p] # "release"
  BY DEF RequireRecovery
<1>2. /\ Edits(N, ex[p], d) /\ d.next = ex[p].next
      /\ SnapshotsChecked /\ ex[p].rev = row.rev => DocStatus(Workflow, d, calls, notRun)
  BY <1>1, StepClosed DEF RecoveryRequired
<1>3. "save_incomplete" \in QuietLabels /\ "fail" \in QuietLabels
  BY DEF QuietLabels
<1> HIDE DEF d
<1>4. QED
  BY <1>1, <1>2, <1>3, SavesQuietly

LEMMA RecoverClosedFlies ==
    ASSUME ExecInv, FlightInv, NEW p \in Procs, RecoverClosed(p)
    PROVE  Kept
<1>1. PICK st \in {"failed", "canceled"} :
        Saves(p, [WithStep(ex[p], "failed") EXCEPT !.status = st], FALSE, "release", "release")
  BY DEF RecoverClosed
<1>2. pc[p] # "release"
  BY DEF RecoverClosed
<1> DEFINE d == [WithStep(ex[p], "failed") EXCEPT !.status = st]
<1>3. /\ Edits(N, ex[p], d) /\ d.next = ex[p].next
      /\ SnapshotsChecked /\ ex[p].rev = row.rev => DocStatus(Workflow, d, calls, notRun)
  BY <1>2, StepClosed
<1> HIDE DEF d
<1>4. Saves(p, d, FALSE, "release", "release")
  BY <1>1 DEF d
<1>5. QED
  BY <1>2, <1>3, <1>4, SavesQuietly

LEMMA CancelCheckpointFlies ==
    ASSUME ExecInv, FlightInv, NEW p \in Procs, CancelCheckpoint(p)
    PROVE  Kept
<1> DEFINE d == Canceled(ex[p])
           k == ex[p].next
           closed(i) == /\ i = k
                        /\ ex[p].steps[i].status \in {"pending", "running", "awaiting_approval",
                                                       "recovery_required"}
           steps == [i \in Steps |-> IF closed(i) THEN [ex[p].steps[i] EXCEPT !.status = "canceled"]
                                     ELSE ex[p].steps[i]]
<1>1. PICK detached \in BOOLEAN : Saves(p, d, detached, "release", "release")
  BY DEF CancelCheckpoint
<1>2. pc[p] # "release"
  BY DEF CancelCheckpoint
<1>3. /\ ex[p] \in Doc(N) /\ N \in Nat /\ N = Len(Workflow) /\ Steps = 1 .. N
      /\ Ordered(N, ex[p]) /\ deployment \in Deployments /\ k \in 1 .. N + 1
      /\ DocSound(Workflow, ex[p], approvals, calls, confirmed)
  BY <1>2, FlightFacts, ProcessFacts
<1>4. d = [ex[p] EXCEPT !.status = "canceled", !.steps = steps]
  BY DEF Canceled
<1>5. d \in Doc(N)
  BY <1>3, CanceledSound
<1>6. /\ d.rev = ex[p].rev /\ d.next = k /\ d.steps = steps /\ d.status = "canceled"
  BY <1>3, <1>4 DEF Doc
<1>7. \A i \in 1 .. N :
        /\ ~closed(i) => steps[i] = ex[p].steps[i]
        /\ closed(i) => steps[i].status = "canceled"
  <2> SUFFICES ASSUME NEW i \in 1 .. N
      PROVE  /\ ~closed(i) => steps[i] = ex[p].steps[i]
             /\ closed(i) => steps[i].status = "canceled"
    OBVIOUS
  <2>1. ex[p].steps[i] \in [status : StepStatus, attempts : Nat]
    BY <1>3 DEF Doc
  <2>2. steps[i] = IF closed(i) THEN [ex[p].steps[i] EXCEPT !.status = "canceled"] ELSE ex[p].steps[i]
    BY <1>3
  <2>3. QED
    BY <2>1, <2>2
<1> HIDE DEF d, steps
<1>8. /\ \A i \in 1 .. N : i # k => d.steps[i] = ex[p].steps[i]
      /\ k \in 1 .. N => d.steps[k].status \in {"canceled", ex[p].steps[k].status}
  BY <1>6, <1>7
<1>9. Edits(N, ex[p], d)
  BY <1>3, <1>5, <1>6, <1>8 DEF Edits, Ordered, Finished
<1>10. SnapshotsChecked /\ ex[p].rev = row.rev => DocStatus(Workflow, d, calls, notRun)
  <2> SUFFICES ASSUME SnapshotsChecked, ex[p].rev = row.rev
      PROVE  DocStatus(Workflow, d, calls, notRun)
    OBVIOUS
  <2>1. /\ Workflow \in Seq(Step) /\ DocStatus(Workflow, ex[p], calls, notRun)
        /\ calls \in [1 .. Len(Workflow) -> Nat] /\ notRun \in [1 .. Len(Workflow) -> Nat]
    BY <1>2, FlightFacts DEF DocStatus
  <2>2. QED
    BY <1>3, <1>6, <1>8, <2>1, ClosingStatus
<1>11. QED
  BY <1>1, <1>2, <1>6, <1>9, <1>10, SavesQuietly

-----------------------------------------------------------------------------
\* The run loop, steps and calls

\* A finished step is passed: the next one has not been started.
LEMMA PassedStatus ==
    ASSUME ExecInv, FlightInv, NEW p \in Procs, pc[p] # "release", ex[p].next \in 1 .. N,
           NEW d, Edits(N, ex[p], d), d.next = ex[p].next + 1, d.status = "running",
           NEW s \in Finished,
           \A i \in 1 .. N : d.steps[i].status = IF i = ex[p].next THEN s ELSE ex[p].steps[i].status,
           SnapshotsChecked, ex[p].rev = row.rev
    PROVE  /\ DocStatus(Workflow, d, calls, notRun)
           /\ LabelStatus(Workflow, "run", d, row, try[p], calls, notRun)
<1>1. /\ Workflow \in Seq(Step) /\ Counted(Workflow, ex[p], calls, notRun)
      /\ calls \in [1 .. Len(Workflow) -> Nat] /\ notRun \in [1 .. Len(Workflow) -> Nat]
      /\ N = Len(Workflow) /\ N \in Nat /\ Ordered(N, ex[p])
  BY FlightFacts
<1>2. /\ \A i \in 1 .. Len(Workflow) : i # ex[p].next => d.steps[i].status = ex[p].steps[i].status
      /\ d.steps[ex[p].next].status \notin {"pending", "awaiting_approval"}
  BY <1>1 DEF Finished
<1>3. Counted(Workflow, d, calls, notRun)
  BY <1>1, <1>2, EditCounted
<1>4. d.next \in 1 .. N + 1 /\ (d.next <= N => d.steps[d.next].status = "pending")
  <2>1. ex[p].next \in Nat /\ d.next > ex[p].next /\ d.next \in 1 .. N + 1 /\ d.next # ex[p].next
    BY <1>1
  <2>2. ASSUME d.next <= N PROVE d.steps[d.next].status = "pending"
    <3>1. d.next \in 1 .. N
      BY <1>1, <2>1, <2>2
    <3>2. ex[p].steps[d.next].status = "pending"
      BY <1>1, <2>1, <3>1 DEF Ordered
    <3>3. QED
      BY <2>1, <3>1, <3>2
  <2>3. QED
    BY <2>1, <2>2
<1>5. Ready(Workflow, d, calls, notRun)
  BY <1>1, <1>3, <1>4, UnstartedReady
<1>6. Consistent(N, d)
  BY <1>4 DEF Consistent
<1>7. QED
  BY <1>1, <1>3, <1>5, <1>6, RunStatus DEF DocStatus

LEMMA PassFlies ==
    ASSUME ExecInv, FlightInv, NEW p \in Procs, pc[p] # "release", ex[p].next \in 1 .. N,
           NEW s \in Finished, NEW d, d = Passed(ex[p], s), Saves(p, d, FALSE, "run", "release"),
           SnapshotsChecked /\ ex[p].rev = row.rev => ex[p].status = "running"
    PROVE  Kept
<1>1. ex[p] \in Doc(N) /\ N \in Nat /\ ex[p].status \in ExecutionStatus
  BY FlightFacts DEF Doc
<1>2. s \in StepStatus
  BY DEF Finished, StepStatus
<1>3. Passed(ex[p], s) \in Doc(N) /\ Passed(ex[p], s).status = ex[p].status
  BY <1>1, <1>2, PassedFacts
<1> DEFINE e == [Passed(ex[p], s) EXCEPT !.status = ex[p].status]
<1>4. e = d
  BY <1>1, <1>3, SameStatus
<1>5. /\ Edits(N, ex[p], e) /\ e.next = ex[p].next + 1 /\ e.status = ex[p].status
      /\ \A i \in 1 .. N : e.steps[i].status = IF i = ex[p].next THEN s ELSE ex[p].steps[i].status
  BY <1>1, PassedEdits
<1> HIDE DEF e
<1>6. SnapshotsChecked /\ ex[p].rev = row.rev =>
        /\ DocStatus(Workflow, d, calls, notRun)
        /\ LabelStatus(Workflow, "run", d, row, try[p], calls, notRun)
  BY <1>4, <1>5, PassedStatus
<1>7. QED
  BY <1>4, <1>5, <1>6, RunIsLabel, SavesHold

\* What the loop knows of a current document.
LEMMA LoopStatus ==
    ASSUME ExecInv, FlightInv, NEW p \in Procs, AtLoopTop(p)
    PROVE  /\ pc[p] # "release" /\ ex[p].next \in 1 .. N
           /\ SnapshotsChecked /\ ex[p].rev = row.rev =>
                 ex[p].status = "running" /\ Ready(Workflow, ex[p], calls, notRun)
<1>1. pc[p] = "run" /\ pc[p] # "release" /\ ex[p].next <= N
  BY DEF AtLoopTop
<1>2. pc[p] \in RunningLabels /\ pc[p] \in ReadyLabels
  BY <1>1 DEF RunningLabels, ReadyLabels
<1>3. QED
  BY <1>1, <1>2, FlightFacts DEF LabelStatus

LEMMA RunSkipFlies ==
    ASSUME ExecInv, FlightInv, NEW p \in Procs, RunSkip(p)
    PROVE  Kept
<1>1. AtLoopTop(p) /\ Saves(p, Passed(ex[p], "skipped"), FALSE, "run", "release")
  BY DEF RunSkip, Continues
<1>2. "skipped" \in Finished
  BY DEF Finished
<1>3. QED
  BY <1>1, <1>2, LoopStatus, PassFlies

LEMMA RunStartFlies ==
    ASSUME ExecInv, FlightInv, NEW p \in Procs, RunStart(p)
    PROVE  Kept
<1> DEFINE d == WithStep(ex[p], "running")
<1>1. AtLoopTop(p) /\ Saves(p, d, FALSE, "step", "release")
  BY DEF RunStart, Continues
<1>2. /\ ex[p] \in Doc(N) /\ N \in Nat /\ N = Len(Workflow) /\ ex[p].status \in ExecutionStatus
      /\ pc[p] # "release" /\ ex[p].next \in 1 .. N
  BY <1>1, LoopStatus, FlightFacts DEF Doc
<1>3. "running" \in StepStatus \ Finished
  BY DEF StepStatus, Finished
<1>4. d \in Doc(N) /\ d.status = ex[p].status
  BY <1>2, <1>3, WithStepFacts
<1>5. [d EXCEPT !.status = ex[p].status] = d
  BY <1>2, <1>4, SameStatus
<1>6. /\ Edits(N, ex[p], [d EXCEPT !.status = ex[p].status])
      /\ d.next = ex[p].next
      /\ \A i \in 1 .. N : d.steps[i].status = IF i = ex[p].next THEN "running" ELSE ex[p].steps[i].status
  BY <1>2, <1>3, StepEdits, WithStepFacts
<1> HIDE DEF d
<1>7. Edits(N, ex[p], d)
  BY <1>5, <1>6
<1>8. ASSUME SnapshotsChecked, ex[p].rev = row.rev
      PROVE  /\ DocStatus(Workflow, d, calls, notRun)
             /\ LabelStatus(Workflow, "step", d, row, try[p], calls, notRun)
  <2>1. /\ Workflow \in Seq(Step) /\ Counted(Workflow, ex[p], calls, notRun)
        /\ calls \in [1 .. Len(Workflow) -> Nat] /\ notRun \in [1 .. Len(Workflow) -> Nat]
    BY <1>2, <1>8, FlightFacts
  <2>2. d.status = "running" /\ Ready(Workflow, d, calls, notRun)
    BY <1>1, <1>4, <1>6, <1>8, LoopStatus DEF Ready
  <2>3. Counted(Workflow, d, calls, notRun)
    BY <1>2, <1>6, <2>1, EditCounted
  <2>4. Consistent(N, d) /\ d.steps[d.next].status = "running"
    BY <1>2, <1>6, <2>2 DEF Consistent
  <2>5. LabelStatus(Workflow, "step", d, row, try[p], calls, notRun)
    BY <2>2, <2>4 DEF LabelStatus, ReadLabels, AcquireTargets, CallLabels
  <2>6. QED
    BY <1>2, <2>3, <2>4, <2>5 DEF DocStatus
<1>9. QED
  BY <1>1, <1>2, <1>7, <1>8, RunIsLabel, SavesHold

LEMMA RunFinishFlies ==
    ASSUME ExecInv, FlightInv, NEW p \in Procs, RunFinish(p)
    PROVE  Kept
<1> DEFINE d == [ex[p] EXCEPT !.status = "completed"]
<1>1. pc[p] # "release" /\ Saves(p, d, FALSE, "release", "release") /\ ex[p].next > N
  BY DEF RunFinish
<1>2. ex[p] \in Doc(N) /\ N \in Nat /\ N = Len(Workflow) /\ Ordered(N, ex[p])
  BY <1>1, FlightFacts
<1>3. /\ d \in Doc(N) /\ d.rev = ex[p].rev /\ d.next = ex[p].next /\ d.steps = ex[p].steps
      /\ d.status = "completed"
  BY <1>2 DEF Doc, ExecutionStatus
<1> HIDE DEF d
<1>4. Edits(N, ex[p], d)
  BY <1>2, <1>3, FieldEdits
<1>5. ASSUME SnapshotsChecked, ex[p].rev = row.rev PROVE DocStatus(Workflow, d, calls, notRun)
  <2>1. /\ Workflow \in Seq(Step) /\ DocStatus(Workflow, ex[p], calls, notRun)
        /\ calls \in [1 .. Len(Workflow) -> Nat] /\ notRun \in [1 .. Len(Workflow) -> Nat]
    BY <1>1, <1>5, FlightFacts DEF DocStatus
  <2>2. QED
    BY <1>2, <1>3, <2>1, ClosingStatus
<1>6. QED
  BY <1>1, <1>3, <1>4, <1>5, SavesQuietly

\* What a step knows of a current document.
LEMMA StepStatusHolds ==
    ASSUME ExecInv, FlightInv, NEW p \in Procs, pc[p] \in StepLabels
    PROVE  /\ pc[p] # "release" /\ ex[p].next \in 1 .. N
           /\ SnapshotsChecked /\ ex[p].rev = row.rev =>
                 ex[p].status = "running" /\ ex[p].steps[ex[p].next].status = "running"
<1>1. pc[p] # "release" /\ ex[p].next \in 1 .. N
  BY StepFacts
<1>2. pc[p] \in RunningLabels
  BY DEF RunningLabels
<1>3. QED
  BY <1>1, <1>2, FlightFacts DEF LabelStatus

\* A process in a call has counted it.
LEMMA InTheWayCounted ==
    ASSUME ExecInv, NEW p \in Procs, ex[p].next \in 1 .. N, InTheWay(p, ex[p], notRun)
    PROVE  /\ calls[ex[p].next] > 0 /\ SideEffecting(Workflow[ex[p].next])
           /\ notRun[ex[p].next] = 0
<1>1. PICK q \in Procs : /\ pc[q] = "tool" /\ ex[q].next = ex[p].next
                         /\ SideEffecting(StepOf(ex[p])) /\ notRun[ex[p].next] = 0
  BY DEF InTheWay
<1>2. calls[ex[q].next] > 0
  BY <1>1, ProcessFacts DEF LocalSound
<1>3. QED
  BY <1>1, <1>2 DEF StepOf

\* A process about to call from a current document is in nobody's way, nor is one
\* that is in its call.
LEMMA FirstInLine ==
    ASSUME ExecInv, FlightInv, SnapshotsChecked, NEW p \in Procs,
           pc[p] \in CallLabels, pc[p] = "tool" \/ ex[p].rev = row.rev,
           NEW d, d.next = ex[p].next
    PROVE  ~InTheWay(p, d, notRun)
<1> SUFFICES ASSUME NEW q \in Procs, q # p, pc[q] = "tool", ex[q].next = d.next,
                    SideEffecting(StepOf(d)), notRun[d.next] = 0
    PROVE FALSE
  BY DEF InTheWay
<1>1. Alone(q, p)
  BY DEF FlightInv, ReplayInv
<1>2. QED
  BY <1>1 DEF Alone, StepOf

LEMMA ProceedFlies ==
    ASSUME ExecInv, FlightInv, NEW p \in Procs, Proceed(p)
    PROVE  Kept
<1>1. /\ pc[p] = "step" /\ pc[p] \in StepLabels /\ pc[p] \in ReadyLabels /\ pc[p] # "release"
  BY DEF Proceed, StepLabels, ReadyLabels
<1>2. PICK label \in {"request", "attempt", "complete"} :
        /\ label = "attempt" => Workflow[ex[p].next].kind = "tool"
        /\ pc' = [pc EXCEPT ![p] = label]
        /\ try' = [try EXCEPT ![p] = IF label = "attempt" THEN 1 ELSE @]
        /\ UNCHANGED <<deployment, row, ex, calls, notRun>>
  BY DEF Proceed, StepOf, world, store, history
<1>3. label \in Labels \ {"tool", "release"} /\ label \notin {"acquire_run", "acquire_interrupted"}
  BY DEF Labels
<1>4. \A q \in Procs : q # p => try'[q] = try[q]
  BY <1>2 DEF ExecInv, Types, LeaseTypes
<1>5. label = "attempt" => try'[p] = 1
  BY <1>2 DEF ExecInv, Types, LeaseTypes
<1>6. /\ ex[p].next \in 1 .. N /\ N = Len(Workflow) /\ Workflow \in Seq(Step)
      /\ calls \in [1 .. Len(Workflow) -> Nat] /\ notRun \in [1 .. Len(Workflow) -> Nat]
  BY <1>1, FlightFacts, StepFacts
<1>7. /\ Paid(Workflow, notRun, ex[p].next) \in Nat /\ Workflow[ex[p].next].attempts \in 1 .. 3
      /\ calls[ex[p].next] \in Nat
      /\ notRun[ex[p].next] = 0 => Paid(Workflow, notRun, ex[p].next) = 0
  BY <1>6, PaidType
<1>8. ASSUME SnapshotsChecked, ex[p].rev = row.rev
      PROVE  Ready(Workflow, ex[p], calls, notRun)
  BY <1>1, <1>8, FlightFacts DEF LabelStatus
<1>9. ASSUME SnapshotsChecked, ex[p].rev = row.rev
      PROVE  LabelStatus(Workflow, label, ex[p], row, try'[p], calls, notRun)
  <2>1. ex[p].status = "running" /\ ex[p].steps[ex[p].next].status = "running"
    BY <1>1, <1>9, StepStatusHolds
  <2>2. label \in CallLabels => label = "attempt"
    BY DEF CallLabels
  <2>3. label = "attempt" =>
          /\ Workflow[ex[p].next].kind = "tool" /\ try'[p] \in 1 .. Workflow[ex[p].next].attempts
          /\ SideEffecting(Workflow[ex[p].next]) =>
                calls[ex[p].next] + 1 <= Paid(Workflow, notRun, ex[p].next) + try'[p]
    BY <1>2, <1>5, <1>6, <1>7, <1>8, <1>9 DEF Ready
  <2>4. QED
    BY <1>8, <1>9, <2>1, <2>2, <2>3 DEF LabelStatus, ReadLabels, AcquireTargets
<1>10. SnapshotsChecked /\ InTheWay(p, ex[p], notRun) => ex[p].rev # row.rev
  BY <1>6, <1>7, <1>8, InTheWayCounted DEF Ready
<1>11. QED
  BY <1>1, <1>2, <1>3, <1>4, <1>9, <1>10, GoesOn

LEMMA RequestApprovalFlies ==
    ASSUME ExecInv, FlightInv, NEW p \in Procs, RequestApproval(p)
    PROVE  Kept
<1>1. /\ pc[p] = "request" /\ pc[p] \in StepLabels /\ pc[p] # "release" /\ pc[p] \in ReadyLabels
      /\ "fail" \in QuietLabels /\ "await" \in QuietLabels
  BY DEF RequestApproval, StepLabels, ReadyLabels, QuietLabels
<1>2. CASE Goto(p, "fail")
  BY <1>1, <1>2, Jumps
<1> DEFINE id == Len(approvals) + 1
           w == [WithStep(ex[p], "awaiting_approval") EXCEPT !.status = "awaiting_approval"]
           d == [w EXCEPT !.pending = id]
<1>3. CASE /\ ex' = [ex EXCEPT ![p] = d] /\ pc' = [pc EXCEPT ![p] = "await"]
           /\ UNCHANGED <<deployment, row, try, calls, notRun>>
  <2>1. /\ ex[p] \in Doc(N) /\ ex[p].next \in 1 .. N /\ N = Len(Workflow) /\ N \in Nat
        /\ approvals \in Seq(ApprovalType)
    BY <1>1, StepFacts DEF ExecInv, Types
  <2>2. "awaiting_approval" \in StepStatus \ Finished /\ "awaiting_approval" \in ExecutionStatus
    BY DEF StepStatus, ExecutionStatus, Finished
  <2>3. /\ Edits(N, ex[p], w) /\ w.next = ex[p].next /\ w.status = "awaiting_approval"
        /\ \A i \in 1 .. N :
              w.steps[i].status = IF i = ex[p].next THEN "awaiting_approval" ELSE ex[p].steps[i].status
    BY <2>1, <2>2, StepEdits
  <2>4. id \in Nat
    BY <2>1
  <2> HIDE DEF w, id
  <2>5. /\ d \in Doc(N) /\ d.rev = w.rev /\ d.next = w.next /\ d.steps = w.steps
        /\ d.status = w.status
    BY <2>3, <2>4 DEF Edits, Doc
  <2> HIDE DEF d
  <2>6. Edits(N, ex[p], d)
    BY <2>3, <2>5 DEF Edits
  <2>7. ASSUME SnapshotsChecked, ex[p].rev = row.rev
        PROVE  DocStatus(Workflow, d, calls, notRun)
    <3>1. /\ Workflow \in Seq(Step) /\ Counted(Workflow, ex[p], calls, notRun)
          /\ calls \in [1 .. Len(Workflow) -> Nat] /\ notRun \in [1 .. Len(Workflow) -> Nat]
          /\ Ready(Workflow, ex[p], calls, notRun)
      BY <1>1, <2>7, FlightFacts DEF LabelStatus
    <3>2. SideEffecting(Workflow[ex[p].next]) =>
             calls[ex[p].next] <= Paid(Workflow, notRun, ex[p].next)
      BY <2>1, <3>1 DEF Ready
    <3>3. Counted(Workflow, d, calls, notRun)
      <4>1. \A i \in 1 .. Len(Workflow) : i # ex[p].next => d.steps[i].status = ex[p].steps[i].status
        BY <2>1, <2>3, <2>5
      <4>2. QED
        BY <3>1, <3>2, <4>1, EditCounted
    <3>4. Consistent(N, d)
      BY <2>1, <2>3, <2>5 DEF Consistent
    <3>5. QED
      BY <2>1, <3>3, <3>4 DEF DocStatus
  <2>8. d.next = ex[p].next
    BY <2>3, <2>5
  <2>9. QED
    BY <1>1, <1>3, <2>6, <2>7, <2>8, EditsQuietly
<1>4. QED
  <2>1. \/ Goto(p, "fail")
        \/ /\ ex' = [ex EXCEPT ![p] = [WithStep(ex[p], "awaiting_approval") EXCEPT
                                         !.pending = id, !.status = "awaiting_approval"]]
           /\ pc' = [pc EXCEPT ![p] = "await"]
           /\ UNCHANGED <<deployment, row, try, calls, notRun>>
    BY DEF RequestApproval, world, store, history, ExecInv, Types
  <2>2. [WithStep(ex[p], "awaiting_approval") EXCEPT !.pending = id, !.status = "awaiting_approval"] = d
    <3>1. ex[p] \in Doc(N) /\ N \in Nat
      BY <1>1, FlightFacts
    <3>2. WithStep(ex[p], "awaiting_approval") \in Doc(N)
      BY <3>1, WithStepFacts DEF StepStatus
    <3>3. QED
      BY <3>2 DEF Doc
  <2>3. QED
    BY <1>2, <1>3, <2>1, <2>2

LEMMA AwaitFlies ==
    ASSUME ExecInv, FlightInv, NEW p \in Procs, AwaitApproval(p) \/ SaveIncomplete(p)
    PROVE  Kept
<1>1. PICK onOk \in {"save_incomplete", "release"}, onErr \in {"fail", "release"} :
        Saves(p, ex[p], FALSE, onOk, onErr) /\ pc[p] # "release"
  BY DEF AwaitApproval, SaveIncomplete
<1>2. onOk \in QuietLabels \cup {"release"} /\ onErr \in QuietLabels \cup {"release"}
  BY DEF QuietLabels
<1>3. /\ ex[p] \in Doc(N) /\ N \in Nat /\ Ordered(N, ex[p])
      /\ SnapshotsChecked /\ ex[p].rev = row.rev => DocStatus(Workflow, ex[p], calls, notRun)
  BY <1>1, FlightFacts DEF DocStatus
<1>4. Edits(N, ex[p], ex[p])
  BY <1>3, FieldEdits
<1>5. QED
  BY <1>1, <1>2, <1>3, <1>4, SavesQuietly

\* The number of the attempt is stored before the call.
LEMMA AttemptFlies ==
    ASSUME ExecInv, FlightInv, NEW p \in Procs, Attempt(p)
    PROVE  Kept
<1> DEFINE i == ex[p].next
           run == [ex[p].steps[i] EXCEPT !.attempts = try[p]]
           steps == [ex[p].steps EXCEPT ![i] = run]
           d == [ex[p] EXCEPT !.steps = steps]
<1>1. /\ pc[p] = "attempt" /\ pc[p] \in StepLabels /\ pc[p] \in CallLabels /\ pc[p] # "release"
      /\ Saves(p, d, FALSE, "called", "fail")
  BY DEF Attempt, StepLabels, ApprovedLabels, CallLabels
<1>2. /\ ex[p] \in Doc(N) /\ i \in 1 .. N /\ N = Len(Workflow) /\ N \in Nat
      /\ try[p] \in Nat /\ Ordered(N, ex[p])
  BY <1>1, StepFacts, FlightFacts
<1>3. ex[p].steps \in [1 .. N -> [status : StepStatus, attempts : Nat]] /\ i \in Nat
  BY <1>2 DEF Doc
<1>4. run \in [status : StepStatus, attempts : Nat] /\ run.status = ex[p].steps[i].status
  BY <1>2, <1>3
<1> HIDE DEF run
<1>5. /\ steps \in [1 .. N -> [status : StepStatus, attempts : Nat]]
      /\ \A j \in 1 .. N : steps[j].status = ex[p].steps[j].status
      /\ \A j \in 1 .. N : j # i => steps[j] = ex[p].steps[j]
  BY <1>2, <1>3, <1>4
<1> HIDE DEF steps
<1>6. /\ d \in Doc(N) /\ d.rev = ex[p].rev /\ d.next = i /\ d.status = ex[p].status
      /\ d.steps = steps
  BY <1>2, <1>5 DEF Doc
<1> HIDE DEF d
<1>7. /\ \A j \in 1 .. N : d.steps[j].status = ex[p].steps[j].status
      /\ \A j \in 1 .. N : j # ex[p].next => d.steps[j] = ex[p].steps[j]
  BY <1>5, <1>6
<1>8. Edits(N, ex[p], d)
  BY <1>2, <1>6, <1>7 DEF Edits, Ordered
<1>9. ASSUME SnapshotsChecked, ex[p].rev = row.rev
      PROVE  /\ DocStatus(Workflow, d, calls, notRun)
             /\ LabelStatus(Workflow, "called", d, row, try[p], calls, notRun)
             /\ ~InTheWay(p, d, notRun)
  <2>1. /\ Workflow \in Seq(Step) /\ Consistent(N, ex[p]) /\ Counted(Workflow, ex[p], calls, notRun)
        /\ calls \in [1 .. Len(Workflow) -> Nat] /\ notRun \in [1 .. Len(Workflow) -> Nat]
        /\ LabelStatus(Workflow, pc[p], ex[p], row, try[p], calls, notRun)
    BY <1>1, <1>9, FlightFacts
  <2>2. Counted(Workflow, d, calls, notRun)
    BY <1>2, <1>7, <2>1, EditCounted
  <2>3. Consistent(N, d)
    BY <1>2, <1>6, <1>7, <2>1 DEF Consistent
  <2>4. d.status = "running" /\ d.steps[d.next].status = "running"
    BY <1>1, <1>2, <1>6, <1>7, <1>9, StepStatusHolds
  <2>5. LabelStatus(Workflow, "called", d, row, try[p], calls, notRun)
    BY <1>1, <1>6, <2>1, <2>4 DEF LabelStatus, ReadLabels, AcquireTargets, ReadyLabels, CallLabels
  <2>6. ~InTheWay(p, d, notRun)
    BY <1>1, <1>6, <1>9, FirstInLine
  <2>7. QED
    BY <1>2, <2>2, <2>3, <2>5, <2>6 DEF DocStatus
<1>10. "called" \in Labels \ ReadLabels /\ "fail" \in QuietLabels
  BY RunIsLabel DEF QuietLabels
<1>11. QED
  BY <1>1, <1>6, <1>8, <1>9, <1>10, SavesHold

\* The call that is counted is one more of the attempts of this run.
LEMMA CallToolFlies ==
    ASSUME ExecInv, FlightInv, NEW p \in Procs, CallTool(p)
    PROVE  Kept
<1> DEFINE i == ex[p].next
<1>1. /\ pc[p] = "called" /\ pc[p] \in StepLabels /\ pc[p] \in CallLabels /\ pc[p] # "release"
  BY DEF CallTool, StepLabels, ApprovedLabels, CallLabels
<1>2. /\ ex[p] \in Doc(N) /\ i \in 1 .. N /\ N = Len(Workflow) /\ N \in Nat /\ Steps = 1 .. N
      /\ Workflow \in Seq(Step) /\ Ordered(N, ex[p]) /\ try[p] \in Nat
      /\ calls \in [1 .. Len(Workflow) -> Nat] /\ notRun \in [1 .. Len(Workflow) -> Nat]
      /\ ex[p].steps[i].status \in StepStatus
  BY <1>1, StepFacts, FlightFacts DEF Doc
<1>3. /\ UNCHANGED <<deployment, try, notRun>>
      /\ Save(p, ex[p], FALSE, "tool", "fail")
      /\ calls' = IF pc'[p] = "tool" THEN [calls EXCEPT ![i] = @ + 1] ELSE calls
  BY DEF CallTool, world
<1>4. Edits(N, ex[p], ex[p])
  BY <1>2, FieldEdits
<1>5. "tool" \in Labels \ ReadLabels /\ "fail" \in QuietLabels
  BY RunIsLabel DEF QuietLabels
<1>6. pc'[p] = "fail" /\ row' = row => UNCHANGED <<calls, notRun>>
  BY <1>3
<1>7. ASSUME SnapshotsChecked, ex[p].rev = row.rev
      PROVE  /\ DocStatus(Workflow, ex[p], calls, notRun)
             /\ pc'[p] = "tool" =>
                  /\ \A j \in Steps : calls'[j] > 0 => calls[j] > 0 \/ Workflow[j].kind = "tool"
                  /\ DocStatus(Workflow, ex[p], calls', notRun')
                  /\ LabelStatus(Workflow, "tool", ex[p], row, try[p], calls', notRun')
                  /\ ~InTheWay(p, ex[p], notRun')
  <2>1. /\ Consistent(N, ex[p]) /\ Counted(Workflow, ex[p], calls, notRun)
        /\ LabelStatus(Workflow, pc[p], ex[p], row, try[p], calls, notRun)
    BY <1>1, <1>7, FlightFacts
  <2>2. ex[p].status = "running" /\ ex[p].steps[i].status = "running"
    BY <1>1, <1>7, StepStatusHolds
  <2>3. /\ Workflow[i].kind = "tool" /\ try[p] \in 1 .. Workflow[i].attempts
        /\ SideEffecting(Workflow[i]) => calls[i] + 1 <= Paid(Workflow, notRun, i) + try[p]
    BY <1>1, <2>1 DEF LabelStatus
  <2>4. ASSUME pc'[p] = "tool"
        PROVE  /\ Counted(Workflow, ex[p], calls', notRun)
               /\ LabelStatus(Workflow, "tool", ex[p], row, try[p], calls', notRun)
    <3>1. /\ calls'[i] = calls[i] + 1
          /\ \A j \in 1 .. Len(Workflow) : j # i => calls'[j] = calls[j]
      BY <1>2, <1>3, <2>4
    <3>2. /\ Paid(Workflow, notRun, i) \in Nat /\ calls[i] \in Nat
          /\ Workflow[i].attempts \in 1 .. 3
      BY <1>2, PaidType
    <3>3. SideEffecting(Workflow[i]) => calls'[i] <= Paid(Workflow, notRun, i) + try[p]
      BY <2>3, <3>1
    <3>4. Slack(Workflow, ex[p], i) = Workflow[i].attempts
      BY <2>2 DEF Slack
    <3>5. SideEffecting(Workflow[i]) =>
             calls'[i] <= Paid(Workflow, notRun, i) + Slack(Workflow, ex[p], i)
      <4>1. calls'[i] \in Nat /\ try[p] \in Nat /\ try[p] <= Workflow[i].attempts
        BY <2>3, <3>1, <3>2
      <4>2. QED
        BY <3>2, <3>3, <3>4, <4>1, WithinBound
    <3>6. Counted(Workflow, ex[p], calls', notRun)
      BY <2>1, <3>1, <3>5 DEF Counted
    <3>7. LabelStatus(Workflow, "tool", ex[p], row, try[p], calls', notRun)
      <4>1. calls'[i] + 0 = calls'[i]
        BY <3>1, <3>2
      <4>2. QED
        BY <2>2, <2>3, <3>3, <4>1 DEF LabelStatus, ReadLabels, AcquireTargets, ReadyLabels
    <3>8. QED
      BY <3>6, <3>7
  <2>5. ~InTheWay(p, ex[p], notRun)
    BY <1>1, <1>7, FirstInLine
  <2>6. \A j \in Steps : calls'[j] > 0 => calls[j] > 0 \/ Workflow[j].kind = "tool"
    BY <1>2, <1>3, <2>3
  <2>7. QED
    BY <1>2, <1>3, <2>1, <2>4, <2>5, <2>6 DEF DocStatus
<1>8. QED
  BY <1>1, <1>2, <1>3, <1>4, <1>5, <1>6, <1>7, SaveHolds

LEMMA ToolSucceedsFlies ==
    ASSUME ExecInv, FlightInv, NEW p \in Procs, ToolSucceeds(p)
    PROVE  Kept
<1>1. /\ pc[p] = "tool" /\ pc[p] \in StepLabels /\ pc[p] # "release"
      /\ pc' = [pc EXCEPT ![p] = "record"]
      /\ UNCHANGED <<deployment, row, ex, try, calls, notRun>>
  BY DEF ToolSucceeds, Goto, world, store, history, StepLabels, ApprovedLabels
<1>2. "record" \in Labels \ {"tool", "release"} /\ "record" \notin CallLabels
  BY DEF Labels, CallLabels
<1>3. ASSUME SnapshotsChecked, ex[p].rev = row.rev
      PROVE  LabelStatus(Workflow, "record", ex[p], row, try[p], calls, notRun)
  BY <1>1, <1>3, StepStatusHolds DEF LabelStatus, ReadLabels, AcquireTargets, ReadyLabels, CallLabels
<1>4. QED
  BY <1>1, <1>2, <1>3, GoesOn

LEMMA ToolRetriesFlies ==
    ASSUME ExecInv, FlightInv, NEW p \in Procs, ToolRetries(p)
    PROVE  Kept
<1>1. /\ pc[p] = "tool" /\ pc[p] \in StepLabels /\ pc[p] \in CallLabels /\ pc[p] # "release"
      /\ try[p] < Workflow[ex[p].next].attempts
  BY DEF ToolRetries, MayRetry, StepOf, StepLabels, ApprovedLabels, CallLabels
<1>2. CASE Goto(p, "fail")
  BY <1>1, <1>2, Jumps DEF QuietLabels
<1>3. CASE /\ pc' = [pc EXCEPT ![p] = "attempt"] /\ try' = [try EXCEPT ![p] = @ + 1]
           /\ UNCHANGED <<deployment, row, ex, calls, notRun>>
  <2>1. "attempt" \in Labels \ {"tool", "release"}
    BY DEF Labels
  <2>2. try'[p] = try[p] + 1 /\ \A q \in Procs : q # p => try'[q] = try[q]
    BY <1>3 DEF ExecInv, Types, LeaseTypes
  <2>3. /\ ex[p].next \in 1 .. N /\ N = Len(Workflow) /\ Workflow \in Seq(Step) /\ try[p] \in Nat
        /\ calls \in [1 .. Len(Workflow) -> Nat] /\ notRun \in [1 .. Len(Workflow) -> Nat]
    BY <1>1, StepFacts, FlightFacts
  <2>4. /\ Paid(Workflow, notRun, ex[p].next) \in Nat /\ Workflow[ex[p].next].attempts \in 1 .. 3
        /\ calls[ex[p].next] \in Nat
    BY <2>3, PaidType
  <2>5. ASSUME SnapshotsChecked, ex[p].rev = row.rev
        PROVE  LabelStatus(Workflow, "attempt", ex[p], row, try'[p], calls, notRun)
    <3>1. ex[p].status = "running" /\ ex[p].steps[ex[p].next].status = "running"
      BY <1>1, <2>5, StepStatusHolds
    <3>2. /\ Workflow[ex[p].next].kind = "tool"
          /\ SideEffecting(Workflow[ex[p].next]) =>
                calls[ex[p].next] + 0 <= Paid(Workflow, notRun, ex[p].next) + try[p]
      BY <1>1, <2>5, FlightFacts DEF LabelStatus
    <3>3. /\ try'[p] \in 1 .. Workflow[ex[p].next].attempts
          /\ SideEffecting(Workflow[ex[p].next]) =>
                calls[ex[p].next] + 1 <= Paid(Workflow, notRun, ex[p].next) + try'[p]
      <4>1. try[p] < Workflow[ex[p].next].attempts
        BY <1>1
      <4>2. try'[p] \in 1 .. Workflow[ex[p].next].attempts
        BY <2>2, <2>3, <2>4, <4>1
      <4>3. ASSUME SideEffecting(Workflow[ex[p].next])
            PROVE  calls[ex[p].next] + 1 <= Paid(Workflow, notRun, ex[p].next) + (try[p] + 1)
        BY <2>3, <2>4, <3>2, <4>3, OneMore
      <4>4. QED
        BY <2>2, <4>2, <4>3
    <3>4. QED
      BY <3>1, <3>2, <3>3 DEF LabelStatus, ReadLabels, AcquireTargets, ReadyLabels
  <2>6. SnapshotsChecked => ~InTheWay(p, ex[p], notRun)
    BY <1>1, FirstInLine
  <2>7. QED
    BY <1>1, <1>3, <2>1, <2>2, <2>5, <2>6, GoesOn
<1>4. QED
  BY <1>2, <1>3 DEF ToolRetries, world, store, history

LEMMA RecordResultFlies ==
    ASSUME ExecInv, FlightInv, NEW p \in Procs, RecordResult(p)
    PROVE  Kept
<1>1. PICK onErr \in {"recovery", "fail"} :
        /\ Saves(p, ex[p], TRUE, "complete", onErr)
        /\ pc[p] \in StepLabels /\ pc[p] # "release"
  BY DEF RecordResult, StepLabels, ApprovedLabels
<1>2. onErr \in QuietLabels \cup {"release"} /\ onErr # "release"
  BY DEF QuietLabels
<1>3. /\ ex[p] \in Doc(N) /\ N \in Nat /\ Ordered(N, ex[p])
      /\ SnapshotsChecked /\ ex[p].rev = row.rev => DocStatus(Workflow, ex[p], calls, notRun)
  BY <1>1, FlightFacts DEF DocStatus
<1>4. Edits(N, ex[p], ex[p])
  BY <1>3, FieldEdits
<1>5. ASSUME SnapshotsChecked, ex[p].rev = row.rev
      PROVE  LabelStatus(Workflow, "complete", ex[p], row, try[p], calls, notRun)
  BY <1>1, <1>5, StepStatusHolds DEF LabelStatus, ReadLabels, AcquireTargets, ReadyLabels, CallLabels
<1>6. QED
  BY <1>1, <1>2, <1>3, <1>4, <1>5, RunIsLabel, SavesHold

LEMMA CompleteStepFlies ==
    ASSUME ExecInv, FlightInv, NEW p \in Procs, CompleteStep(p)
    PROVE  Kept
<1>1. pc[p] \in StepLabels /\ Saves(p, Passed(ex[p], "completed"), FALSE, "run", "release")
  BY DEF CompleteStep, StepLabels, ApprovedLabels
<1>2. "completed" \in Finished
  BY DEF Finished
<1>3. QED
  BY <1>1, <1>2, StepStatusHolds, PassFlies

-----------------------------------------------------------------------------
\* Recovery decisions

LEMMA RecoverCompletedFlies ==
    ASSUME ExecInv, FlightInv, NEW p \in Procs, RecoverCompleted(p)
    PROVE  Kept
<1> DEFINE d == [Passed(ex[p], "completed") EXCEPT !.status = "running"]
<1>1. /\ ex[p] \in Doc(N) /\ ex[p].next \in 1 .. N /\ N \in Nat /\ pc[p] # "release"
      /\ notRun \in [Steps -> Nat]
  BY RecoverFacts, FlightFacts DEF RecoverCompleted, FlightInv, CopyInv
<1>2. Save(p, d, FALSE, "run", "release") /\ UNCHANGED <<deployment, try, calls, notRun>>
  BY DEF RecoverCompleted, world
<1>3. "completed" \in Finished /\ "running" \in ExecutionStatus
  BY DEF Finished, ExecutionStatus
<1>4. /\ Edits(N, ex[p], d) /\ d.next = ex[p].next + 1 /\ d.status = "running"
      /\ \A i \in 1 .. N :
            d.steps[i].status = IF i = ex[p].next THEN "completed" ELSE ex[p].steps[i].status
  BY <1>1, <1>3, PassedEdits
<1> HIDE DEF d
<1>5. ASSUME SnapshotsChecked, ex[p].rev = row.rev
      PROVE  /\ DocStatus(Workflow, d, calls, notRun)
             /\ LabelStatus(Workflow, "run", d, row, try[p], calls, notRun)
  BY <1>1, <1>3, <1>4, <1>5, PassedStatus
<1>6. QED
  BY <1>1, <1>2, <1>4, <1>5, RunIsLabel, SaveHolds

\* A confirmation that a call was not executed pays for the attempts of a run.
LEMMA RecoverNotRunFlies ==
    ASSUME ExecInv, FlightInv, NEW p \in Procs, RecoverNotRun(p)
    PROVE  Kept
<1> DEFINE i == ex[p].next
           d == [WithStep(ex[p], "running") EXCEPT !.status = "running"]
<1>1. /\ ex[p] \in Doc(N) /\ i \in 1 .. N /\ N \in Nat /\ N = Len(Workflow)
      /\ pc[p] # "release" /\ Steps = 1 .. N
  BY RecoverFacts DEF RecoverNotRun
<1>2. /\ Save(p, d, FALSE, "run", "release") /\ UNCHANGED <<deployment, try, calls>>
      /\ notRun' = IF pc'[p] = "run" THEN [notRun EXCEPT ![i] = @ + 1] ELSE notRun
  BY DEF RecoverNotRun, world
<1>3. "running" \in StepStatus \ Finished /\ "running" \in ExecutionStatus
  BY DEF Finished, StepStatus, ExecutionStatus
<1>4. /\ Edits(N, ex[p], d) /\ d.next = ex[p].next /\ d.status = "running"
      /\ \A j \in 1 .. N :
            d.steps[j].status = IF j = ex[p].next THEN "running" ELSE ex[p].steps[j].status
  BY <1>1, <1>3, StepEdits
<1> HIDE DEF d
<1>5. /\ Workflow \in Seq(Step)
      /\ calls \in [1 .. Len(Workflow) -> Nat] /\ notRun \in [1 .. Len(Workflow) -> Nat]
      /\ SnapshotsChecked /\ ex[p].rev = row.rev => Counted(Workflow, ex[p], calls, notRun)
  BY <1>1, FlightFacts
<1>6. /\ notRun' \in [Steps -> Nat]
      /\ \A j \in Steps : notRun'[j] = 0 => notRun[j] = 0
  BY <1>1, <1>2, <1>5
<1>7. pc'[p] = "release" /\ row' = row => UNCHANGED <<calls, notRun>>
  BY <1>2
<1>8. ASSUME SnapshotsChecked, ex[p].rev = row.rev
      PROVE  /\ DocStatus(Workflow, d, calls, notRun)
             /\ pc'[p] = "run" =>
                  /\ DocStatus(Workflow, d, calls, notRun')
                  /\ LabelStatus(Workflow, "run", d, row, try[p], calls, notRun')
  <2>1. Consistent(N, d)
    BY <1>1, <1>4 DEF Consistent
  <2>2. Counted(Workflow, d, calls, notRun)
    BY <1>1, <1>4, <1>5, <1>8, EditCounted
  <2>3. ASSUME pc'[p] = "run"
        PROVE  Counted(Workflow, d, calls, notRun') /\ Ready(Workflow, d, calls, notRun')
    <3>1. /\ notRun'[i] = notRun[i] + 1 /\ notRun[i] \in Nat /\ calls[i] \in Nat
          /\ \A j \in 1 .. Len(Workflow) : j # i => notRun'[j] = notRun[j]
      BY <1>1, <1>2, <1>5, <2>3
    <3>2. /\ Paid(Workflow, notRun', i) = Paid(Workflow, notRun, i) + Workflow[i].attempts
          /\ Paid(Workflow, notRun, i) \in Nat /\ Workflow[i].attempts \in 1 .. 3
      <4>1. i \in 1 .. Len(Workflow)
        BY <1>1
      <4>2. Paid(Workflow, notRun', i) = Paid(Workflow, notRun, i) + Workflow[i].attempts
        <5> DEFINE nr == notRun'
        <5>1. nr[i] = notRun[i] + 1
          BY <3>1
        <5> HIDE DEF nr
        <5>2. Workflow \in Seq(Step) /\ notRun[i] \in Nat
          BY <1>5, <3>1
        <5>3. Paid(Workflow, nr, i) = Paid(Workflow, notRun, i) + Workflow[i].attempts
          BY <4>1, <5>1, <5>2, PaidMore
        <5>4. QED
          BY <5>3 DEF nr
      <4>3. QED
        BY <1>5, <4>1, <4>2, PaidType
    <3>3. Slack(Workflow, d, i) = Workflow[i].attempts
      BY <1>1, <1>4 DEF Slack
    <3>4. SideEffecting(Workflow[i]) => calls[i] <= Paid(Workflow, notRun, i) + Workflow[i].attempts
      BY <1>1, <2>2, <3>3 DEF Counted
    <3>5. Ready(Workflow, d, calls, notRun')
      BY <1>4, <3>1, <3>2, <3>4 DEF Ready
    <3>6. SideEffecting(Workflow[i]) =>
             calls[i] <= Paid(Workflow, notRun', i) + Slack(Workflow, d, i)
      BY <3>1, <3>2, <3>3, <3>4
    <3>7. Counted(Workflow, d, calls, notRun')
      <4> SUFFICES ASSUME NEW j \in 1 .. Len(Workflow), SideEffecting(Workflow[j])
          PROVE  calls[j] <= Paid(Workflow, notRun', j) + Slack(Workflow, d, j)
        BY DEF Counted
      <4>1. CASE j = i
        BY <3>6, <4>1
      <4>2. CASE j # i
        <5>1. Paid(Workflow, notRun', j) = Paid(Workflow, notRun, j)
          BY <3>1, <4>2 DEF Paid
        <5>2. QED
          BY <2>2, <5>1 DEF Counted
      <4>3. QED
        BY <4>1, <4>2
    <3>8. QED
      BY <3>5, <3>7
  <2>4. pc'[p] = "run" => LabelStatus(Workflow, "run", d, row, try[p], calls, notRun')
    BY <1>4, <2>3, RunStatus
  <2>5. QED
    BY <1>1, <2>1, <2>2, <2>3, <2>4 DEF DocStatus
<1>9. QED
  BY <1>1, <1>2, <1>4, <1>6, <1>7, <1>8, RunIsLabel, SaveHolds

-----------------------------------------------------------------------------
\* The end of an operation, and every step

LEMMA EndsFly ==
    ASSUME ExecInv, FlightInv, NEW p \in Procs, Release(p) \/ Crash(p)
    PROVE  Kept
<1>1. /\ pc' = [pc EXCEPT ![p] = "idle"] /\ ex' = [ex EXCEPT ![p] = NoExecution]
      /\ try' = [try EXCEPT ![p] = 0]
      /\ UNCHANGED <<deployment, row, calls, notRun>>
  BY DEF Release, Crash, world, store, history
<1>2. deployment \in Deployments /\ row \in Doc(N) /\ (row.rev = 0 => row = NoExecution)
  BY DEF ExecInv, Types
<1>3. NoExecution = [NoExecution EXCEPT !.rev = 0]
  BY DEF NoExecution
<1>4. NoExecution \in Doc(N) /\ DocSound(Workflow, NoExecution, approvals, calls, confirmed)
  BY <1>2, <1>3, EmptyDocument
<1>5. NoExecution.next = 1 /\ NoExecution.rev = 0
      /\ \A j \in 1 .. N : NoExecution.steps[j].status = "pending"
  BY DEF NoExecution, Steps
<1>6. Ordered(N, NoExecution)
  <2>1. "pending" \notin Finished
    BY DEF Finished
  <2>2. 1 <= N => 1 \in 1 .. N
    OBVIOUS
  <2>3. QED
    BY <1>2, <1>5, <2>1, WorkflowType DEF Ordered
<1>7. Descends(N, NoExecution, row)
  BY <1>2, <1>5 DEF Descends, Doc
<1>8. SnapshotsChecked /\ NoExecution.rev = row.rev => DocStatus(Workflow, NoExecution, calls, notRun)
  BY <1>2, <1>5 DEF FlightInv, ReplayInv
<1>9. /\ "idle" \in Labels \ {"tool"} /\ "idle" \notin CallLabels
      /\ "idle" \notin {"acquire_run", "acquire_interrupted"}
      /\ LabelStatus(Workflow, "idle", NoExecution, row, try'[p], calls, notRun)
  BY QuietStatus DEF QuietLabels
<1>10. \A q \in Procs : q # p => try'[q] = try[q]
  BY <1>1 DEF ExecInv, Types, LeaseTypes
<1>11. QED
  BY <1>1, <1>4, <1>6, <1>7, <1>8, <1>9, <1>10, Moves

LEMMA InitFlies ==
    ASSUME Init
    PROVE  FlightInv
<1>1. ExecInv
  BY InitHolds
<1>2. /\ deployment \in Deployments /\ N \in Nat /\ N = Len(Workflow) /\ Steps = 1 .. N
      /\ Workflow \in Seq(Step) /\ row \in Doc(N)
  BY <1>1, WorkflowType DEF ExecInv, Types
<1>3. /\ NoExecution.next = 1 /\ NoExecution.rev = 0 /\ NoExecution.status = "running"
      /\ \A j \in 1 .. N : NoExecution.steps[j].status = "pending"
  BY DEF NoExecution, Steps
<1>4. /\ row.next = 1 /\ row.rev \in {0, 1} /\ row.status = "running"
      /\ row.steps = NoExecution.steps
      /\ row.rev = 0 => row = NoExecution
  <2>1. row.rev = 0 => row = NoExecution
    BY <1>1 DEF ExecInv
  <2>2. QED
    BY <1>3, <2>1 DEF Init, NoExecution
<1>5. \A p \in Procs : pc[p] = "idle" /\ ex[p] = NoExecution
  BY DEF Init
<1>6. notRun = [i \in Steps |-> 0] /\ calls = [i \in Steps |-> 0]
  BY DEF Init
<1>7. "pending" \notin Finished
  BY DEF Finished
<1>8. Ordered(N, row) /\ Ordered(N, NoExecution)
  BY <1>2, <1>3, <1>4, <1>7 DEF Ordered
<1>9. Descends(N, NoExecution, row)
  BY <1>2, <1>3, <1>4 DEF Descends
<1>10. CopyInv
  BY <1>5, <1>6, <1>8, <1>9 DEF CopyInv
<1>11. DocStatus(Workflow, row, calls, notRun)
  <2>1. Consistent(N, row)
    BY <1>2, <1>3, <1>4 DEF Consistent
  <2>2. Counted(Workflow, row, calls, notRun)
    <3> SUFFICES ASSUME NEW i \in 1 .. Len(Workflow)
        PROVE  calls[i] <= Paid(Workflow, notRun, i) + Slack(Workflow, row, i)
      BY DEF Counted
    <3>1. calls[i] = 0 /\ notRun \in [1 .. Len(Workflow) -> Nat]
      BY <1>2, <1>6
    <3>2. Paid(Workflow, notRun, i) \in Nat
      BY <1>2, <3>1, PaidType
    <3>3. Slack(Workflow, row, i) = 0
      BY <1>2, <1>3, <1>4 DEF Slack
    <3>4. QED
      BY <3>1, <3>2, <3>3
  <2>3. QED
    BY <1>2, <2>1, <2>2 DEF DocStatus
<1>12. ReplayInv
  <2>1. \A p \in Procs : CurrentSound(p)
    <3> SUFFICES ASSUME NEW p \in Procs, NoExecution.rev = row.rev
        PROVE  /\ DocStatus(Workflow, NoExecution, calls, notRun)
               /\ LabelStatus(Workflow, "idle", NoExecution, row, try[p], calls, notRun)
      BY <1>5 DEF CurrentSound
    <3>1. row = NoExecution
      BY <1>3, <1>4
    <3>2. QED
      BY <1>11, <3>1, QuietStatus DEF QuietLabels
  <2>2. \A p, q \in Procs : Alone(p, q)
    BY <1>5 DEF Alone
  <2>3. \A i \in Steps : ~(calls[i] > 0)
    BY <1>6
  <2>4. \A p \in Procs : pc[p] \notin {"acquire_run", "acquire_interrupted"}
    BY <1>5
  <2>5. QED
    BY <1>11, <2>1, <2>2, <2>3, <2>4 DEF ReplayInv
<1>13. QED
  BY <1>10, <1>12 DEF FlightInv

LEMMA NextFlies ==
    ASSUME ExecInv, FlightInv, [Next]_vars
    PROVE  Kept
<1>1. CASE Tick
  <2>1. UNCHANGED <<deployment, row, pc, ex, try, calls, notRun>>
    BY <1>1 DEF Tick, store, locals, history
  <2>2. QED
    BY <2>1, Stays
<1>2. ASSUME NEW id \in DOMAIN approvals, Decide(id) PROVE Kept
  <2>1. UNCHANGED <<deployment, row, pc, ex, try, calls, notRun>>
    BY <1>2 DEF Decide, world, store, locals, history
  <2>2. QED
    BY <2>1, Stays
<1>3. ASSUME NEW p \in Procs, Enter(p) PROVE Kept
  BY <1>3, ExecuteFlies, EntersFly DEF Enter
<1>4. ASSUME NEW p \in Procs, Continue(p) PROVE Kept
  <2>1. CASE Acquire(p) \/ ResumeClaimed(p) \/ PreflightFault(p) \/ ResumeInterrupted(p) \/ Resume(p)
    BY <2>1, AcquireFlies, ResumeClaimedFlies, LeavesFly, ResumeInterruptedFlies, ResumeFlies
  <2>2. CASE ExpirePending(p) \/ Reject(p) \/ Cancel(p) \/ ExpireExecution(p) \/ CancelCheckpoint(p)
    BY <2>2, ExpirePendingFlies, RejectFlies, CancelFlies, CancelCheckpointFlies
  <2>3. CASE RunExpired(p) \/ RunAborted(p) \/ RunSkip(p) \/ RunStart(p) \/ RunFinish(p)
    BY <2>3, LeavesFly, RunSkipFlies, RunStartFlies, RunFinishFlies
  <2>4. CASE Refuse(p) \/ PreCallFault(p) \/ Proceed(p) \/ RequestApproval(p)
    BY <2>4, LeavesFly, ProceedFlies, RequestApprovalFlies
  <2>5. CASE AwaitApproval(p) \/ SaveIncomplete(p) \/ Attempt(p) \/ CallTool(p)
    BY <2>5, AwaitFlies, AttemptFlies, CallToolFlies
  <2>6. CASE ToolSucceeds(p) \/ ToolOutputRejected(p) \/ ToolFails(p) \/ ToolRetries(p)
    BY <2>6, ToolSucceedsFlies, LeavesFly, ToolRetriesFlies
  <2>7. CASE RecordResult(p) \/ RequireRecovery(p) \/ CompleteStep(p) \/ Fail(p)
    BY <2>7, RecordResultFlies, RequireRecoveryFlies, CompleteStepFlies, FailFlies
  <2>8. CASE RecoverRefused(p) \/ Release(p)
    BY <2>8, LeavesFly, EndsFly
  <2>9. CASE RecoverCompleted(p) \/ RecoverNotRun(p) \/ RecoverClosed(p)
    BY <2>9, RecoverCompletedFlies, RecoverNotRunFlies, RecoverClosedFlies
  <2>10. QED
    BY <1>4, <2>1, <2>2, <2>3, <2>4, <2>5, <2>6, <2>7, <2>8, <2>9 DEF Continue
<1>5. ASSUME NEW p \in Procs, Environment(p) PROVE Kept
  <2>1. CASE Renew(p) \/ LeaseLost(p) \/ Shutdown(p)
    <3>1. UNCHANGED <<deployment, row, pc, ex, try, calls, notRun>>
      BY <2>1 DEF Renew, LeaseLost, Shutdown, world, store, locals, history
    <3>2. QED
      BY <3>1, Stays
  <2>2. CASE Crash(p)
    BY <2>2, EndsFly
  <2>3. QED
    BY <1>5, <2>1, <2>2 DEF Environment
<1>6. CASE UNCHANGED vars
  <2>1. UNCHANGED <<deployment, row, pc, ex, try, calls, notRun>>
    BY <1>6 DEF vars, world, store, locals, history
  <2>2. QED
    BY <2>1, Stays
<1>7. QED
  BY <1>1, <1>2, <1>3, <1>4, <1>5, <1>6 DEF Next

LEMMA FlightHolds == Spec => [](ExecInv /\ FlightInv)
<1>1. Init => ExecInv /\ FlightInv
  BY InitHolds, InitFlies
<1>2. ExecInv /\ FlightInv /\ [Next]_vars => (ExecInv /\ FlightInv)'
  BY NextKeeps, NextFlies DEF Kept
<1>3. QED
  BY <1>1, <1>2, PTL DEF Spec

\* The hosts do not change what they perform.
LEMMA CheckedFlightHolds == Spec /\ SnapshotsChecked => [](ExecInv /\ FlightInv /\ SnapshotsChecked)
<1>1. SnapshotsChecked /\ ExecInv /\ FlightInv /\ [Next]_vars => SnapshotsChecked'
  BY NextFlies, SameHosts DEF Kept
<1>2. QED
  BY <1>1, FlightHolds, PTL DEF Spec

-----------------------------------------------------------------------------

\* Finished steps and terminal executions are immutable, whoever works from
\* whichever copy: the action property of FinishedIsImmutable.
THEOREM FinishedStaysFinished == Spec => FinishedIsImmutable
<1>1. ExecInv /\ FlightInv /\ [Next]_vars => RowStands
  BY NextFlies DEF Kept
<1>2. Spec => [][RowStands]_vars
  BY <1>1, FlightHolds, PTL DEF Spec
<1>3. QED
  BY <1>2 DEF RowStands, FinishedIsImmutable

\* A side-effecting tool is called no more often than one run may try, unless
\* somebody confirmed that a call was not executed, through crashes, lease
\* losses and takeovers.
THEOREM NoReplay == Spec /\ SnapshotsChecked => []NoReplayWithoutDecision
<1>1. ExecInv /\ FlightInv /\ SnapshotsChecked => NoReplayWithoutDecision
  <2> SUFFICES ASSUME ExecInv, FlightInv, SnapshotsChecked, NEW i \in Steps,
                      SideEffecting(Workflow[i])
      PROVE  calls[i] <= Workflow[i].attempts * (1 + notRun[i])
    BY DEF NoReplayWithoutDecision
  <2>1. /\ deployment \in Deployments /\ Workflow \in Seq(Step) /\ Steps = 1 .. Len(Workflow)
        /\ calls \in [Steps -> Nat] /\ notRun \in [Steps -> Nat]
        /\ Counted(Workflow, row, calls, notRun)
    BY WorkflowType DEF ExecInv, Types, FlightInv, CopyInv, ReplayInv, DocStatus
  <2>2. /\ Paid(Workflow, notRun, i) \in Nat /\ Workflow[i].attempts \in 1 .. 3
        /\ notRun[i] \in Nat /\ calls[i] \in Nat
    BY <2>1, PaidType
  <2>3. calls[i] <= Paid(Workflow, notRun, i) + Workflow[i].attempts
    BY <2>1, <2>2 DEF Counted, Slack
  <2>4. Paid(Workflow, notRun, i) + Workflow[i].attempts = Workflow[i].attempts * (1 + notRun[i])
    <3>1. Workflow[i].attempts = 1 \/ Workflow[i].attempts = 2 \/ Workflow[i].attempts = 3
      BY <2>2
    <3>2. QED
      BY <2>2, <3>1 DEF Paid
  <2>5. QED
    BY <2>3, <2>4
<1>2. QED
  BY <1>1, CheckedFlightHolds, PTL

\* Two processes are never inside a side-effecting call of the same step, and
\* every document keeps its shape.
THEOREM OneCallAtATime == Spec /\ SnapshotsChecked => []ExecutorSound
<1>1. ExecInv /\ FlightInv /\ SnapshotsChecked => SingleFlight
  <2> SUFFICES ASSUME FlightInv, SnapshotsChecked, NEW p \in Procs, NEW q \in Procs,
                      pc[p] = "tool", pc[q] = "tool", ex[p].next = ex[q].next,
                      SideEffecting(StepOf(ex[p])), notRun[ex[p].next] = 0, p # q
      PROVE  FALSE
    BY DEF SingleFlight
  <2>1. Alone(p, q)
    BY DEF FlightInv, ReplayInv
  <2>2. QED
    BY <2>1 DEF Alone, CallLabels
<1>2. QED
  BY <1>1, CheckedFlightHolds, TypesHold, PTL DEF ExecutorSound

-----------------------------------------------------------------------------

\* Where a process has made something of its document that is not stored yet.
EditedLabels == {"await", "cancel_save", "run_cancel_save", "fail"}
BusyLabels == StepLabels \cup {"recovery"}

\* An execution that can go on: its next step is not closed.
OpenDoc(n, doc) ==
    /\ doc.status \notin TerminalStatus
    /\ doc.next <= n => doc.steps[doc.next].status \notin {"failed", "canceled"}

\* What the document of a process is to the row r, if it is current: the row
\* itself, or what one operation makes of it before it saves it.
Current(label, doc, r) ==
    /\ r.status \notin TerminalStatus
    /\ label \notin EditedLabels => doc = r
    /\ label = "await" =>
          /\ r.steps[doc.next].status = "running"
          /\ doc.steps[doc.next].attempts = r.steps[doc.next].attempts
    /\ label \in {"cancel_save", "run_cancel_save"} => doc.steps = r.steps

\* A process is about to save an execution that is open; it works on a step that
\* is running, asks for an approval it has an id for, and closes what awaits none.
Draft(n, label, doc, r, alive) ==
    label \notin {"idle", "release"} =>
        /\ OpenDoc(n, doc)
        /\ label \in BusyLabels => doc.next <= n /\ doc.steps[doc.next].status = "running"
        /\ label = "recovery" => doc.pending = 0
        /\ label = "await" =>
              /\ doc.next <= n /\ doc.steps[doc.next].status = "awaiting_approval"
              /\ doc.status = "awaiting_approval" /\ doc.pending # 0
        /\ label = "fail" => doc.next <= n
        /\ label = "cancel_save" => doc.pending = 0
        /\ label = "run_cancel_save" => doc.pending = 0 \/ ~alive
        /\ doc.rev = r.rev => Current(label, doc, r)

Budgets == [crashes : Nat, faults : Nat, decisions : Nat, shutdowns : Nat]

OpenRow == row.status \notin TerminalStatus => OpenDoc(N, row)

DraftInv ==
    /\ budget \in Budgets
    /\ OpenRow
    /\ \A p \in Procs : Draft(N, pc[p], ex[p], row, live[p])

-----------------------------------------------------------------------------
\* Drafts of documents

LEMMA DraftFacts ==
    ASSUME ExecInv, FlightInv, DraftInv, NEW p \in Procs, pc[p] \notin {"idle", "release"}
    PROVE  /\ ex[p] \in Doc(N) /\ ex[p].next \in 1 .. N + 1 /\ N \in Nat /\ N = Len(Workflow)
           /\ row \in Doc(N) /\ row.rev \in Nat /\ ValidCheckpoint(row, NoApproval)
           /\ Ordered(N, ex[p]) /\ Descends(N, ex[p], row)
           /\ OpenDoc(N, ex[p]) /\ Draft(N, pc[p], ex[p], row, live[p])
           /\ LocalSound(Workflow, pc[p], ex[p], approvals, calls, confirmed)
           /\ DocSound(Workflow, ex[p], approvals, calls, confirmed)
<1>1. Draft(N, pc[p], ex[p], row, live[p])
  BY DEF DraftInv
<1>2. row \in Doc(N) /\ ValidCheckpoint(row, NoApproval)
  BY DEF ExecInv, Types
<1>3. OpenDoc(N, ex[p])
  BY <1>1 DEF Draft
<1>4. row.rev \in Nat
  BY <1>2 DEF Doc
<1>5. QED
  BY <1>1, <1>2, <1>3, <1>4, FlightFacts, ProcessFacts

\* A process goes on with a document that it has not edited.
LEMMA CarriesOn ==
    ASSUME NEW n, NEW label, NEW next, NEW doc, NEW r, NEW alive,
           Draft(n, label, doc, r, alive), label \notin EditedLabels \cup {"idle", "release"},
           next \notin {"await", "cancel_save", "run_cancel_save"},
           next \in BusyLabels => label \in BusyLabels,
           next = "recovery" => doc.pending = 0,
           next = "fail" => doc.next <= n
    PROVE  Draft(n, next, doc, r, alive)
BY DEF Draft, Current, EditedLabels

\* A canceled context breaks no draft.
LEMMA DraftOff ==
    ASSUME NEW n, NEW label, NEW doc, NEW r, NEW alive, Draft(n, label, doc, r, alive)
    PROVE  Draft(n, label, doc, r, FALSE)
BY DEF Draft

LEMMA NoDraft ==
    ASSUME NEW n, NEW label \in {"idle", "release"}, NEW doc, NEW r, NEW alive
    PROVE  Draft(n, label, doc, r, alive)
BY DEF Draft

\* One process moves and the row stays.
LEMMA DraftMoves ==
    ASSUME ExecInv, DraftInv, NEW p \in Procs, NEW label, NEW doc,
           pc' = [pc EXCEPT ![p] = label], ex' = [ex EXCEPT ![p] = doc],
           \A q \in Procs : q # p => live'[q] = live[q],
           UNCHANGED <<deployment, row>>, budget' \in Budgets,
           Draft(N, label, doc, row, live'[p])
    PROVE  DraftInv'
<1>1. N' = N
  BY SameWorkflow
<1>2. /\ pc'[p] = label /\ ex'[p] = doc
      /\ \A q \in Procs : q # p => pc'[q] = pc[q] /\ ex'[q] = ex[q]
  BY DEF ExecInv, Types
<1>3. ASSUME NEW q \in Procs PROVE Draft(N, pc'[q], ex'[q], row, live'[q])
  BY <1>2 DEF DraftInv
<1>4. OpenRow'
  BY <1>1 DEF DraftInv, OpenRow
<1>5. QED
  BY <1>1, <1>3, <1>4 DEF DraftInv

\* The store takes a document: the copies of the others are stale now.
LEMMA DraftStores ==
    ASSUME ExecInv, FlightInv, DraftInv, NEW p \in Procs, NEW label, label \notin EditedLabels,
           NEW doc \in Doc(N), doc.rev = row.rev, row' = [doc EXCEPT !.rev = @ + 1],
           pc' = [pc EXCEPT ![p] = label], ex' = [ex EXCEPT ![p] = row'],
           UNCHANGED <<deployment, live>>, budget' \in Budgets,
           doc.status \notin TerminalStatus => OpenDoc(N, doc),
           label # "release" =>
              /\ OpenDoc(N, doc) /\ label # "recovery"
              /\ label \in BusyLabels => doc.next <= N /\ doc.steps[doc.next].status = "running"
    PROVE  DraftInv'
<1>1. N' = N
  BY SameWorkflow
<1>2. /\ pc'[p] = label /\ ex'[p] = row'
      /\ \A q \in Procs : q # p => pc'[q] = pc[q] /\ ex'[q] = ex[q]
  BY DEF ExecInv, Types
<1>3. /\ row'.rev = row.rev + 1 /\ row'.next = doc.next /\ row'.status = doc.status
      /\ row'.steps = doc.steps /\ row.rev \in Nat
  BY DEF Doc
<1>4. OpenDoc(N, doc) => OpenDoc(N, row')
  BY <1>3 DEF OpenDoc
<1>5. Draft(N, label, row', row', live[p])
  BY <1>3, <1>4 DEF Draft, Current, EditedLabels, OpenDoc
<1>6. ASSUME NEW q \in Procs, q # p PROVE Draft(N, pc[q], ex[q], row', live[q])
  <2>1. Draft(N, pc[q], ex[q], row, live[q])
    BY DEF DraftInv
  <2>2. CASE pc[q] = "release"
    BY <2>2 DEF Draft
  <2>3. CASE pc[q] # "release"
    <3>1. ex[q].rev <= row.rev /\ ex[q].rev \in Nat
      BY <2>3, ProcessFacts DEF FlightInv, CopyInv, Descends, Doc
    <3>2. ex[q].rev # row'.rev
      BY <1>3, <3>1
    <3>3. QED
      BY <2>1, <3>2 DEF Draft
  <2>4. QED
    BY <2>2, <2>3
<1>7. OpenRow'
  BY <1>1, <1>3, <1>4 DEF OpenRow
<1>8. \A q \in Procs : Draft(N, pc'[q], ex'[q], row', live'[q])
  BY <1>2, <1>5, <1>6
<1>9. QED
  BY <1>1, <1>7, <1>8 DEF DraftInv

\* What follows of a save.
LEMMA DraftSave ==
    ASSUME ExecInv, FlightInv, DraftInv, NEW p \in Procs, NEW doc \in Doc(N), NEW detached,
           NEW onOk, NEW onErr, onOk \notin EditedLabels, Save(p, doc, detached, onOk, onErr),
           UNCHANGED <<deployment, live>>,
           doc.status \notin TerminalStatus => OpenDoc(N, doc),
           onOk # "release" =>
              /\ OpenDoc(N, doc) /\ onOk # "recovery"
              /\ onOk \in BusyLabels => doc.next <= N /\ doc.steps[doc.next].status = "running",
           onErr # "release" => Draft(N, onErr, doc, row, live[p])
    PROVE  DraftInv'
<1>1. budget' \in Budgets
  BY DEF Save, DraftInv, Budgets
<1>2. CASE row' = row /\ ex' = [ex EXCEPT ![p] = doc] /\ pc' = [pc EXCEPT ![p] = onErr]
  <2>1. Draft(N, onErr, doc, row, live'[p])
    BY NoDraft
  <2>2. QED
    BY <1>1, <1>2, <2>1, DraftMoves
<1>3. CASE /\ Accepts(p, doc) /\ row' = [doc EXCEPT !.rev = @ + 1]
           /\ ex' = [ex EXCEPT ![p] = row'] /\ pc' = [pc EXCEPT ![p] = onOk]
  <2>1. doc.rev = row.rev
    BY <1>3 DEF Accepts, ValidUpdate
  <2>2. QED
    BY <1>1, <1>3, <2>1, DraftStores
<1>4. QED
  BY <1>2, <1>3, SaveCases

\* A save after which the process releases the execution, stored or not.
LEMMA DraftLast ==
    ASSUME ExecInv, FlightInv, DraftInv, NEW p \in Procs, NEW doc \in Doc(N), NEW detached,
           Saves(p, doc, detached, "release", "release"),
           doc.status \notin TerminalStatus => OpenDoc(N, doc)
    PROVE  DraftInv'
<1>1. Save(p, doc, detached, "release", "release") /\ UNCHANGED <<deployment, live>>
  BY DEF Saves, world
<1>2. "release" \notin EditedLabels
  BY DEF EditedLabels
<1>3. QED
  BY <1>1, <1>2, DraftSave

\* A process goes elsewhere and nothing else happens.
LEMMA DraftGoto ==
    ASSUME ExecInv, DraftInv, NEW p \in Procs, NEW label,
           pc' = [pc EXCEPT ![p] = label], UNCHANGED <<deployment, row, ex, live>>,
           budget' \in Budgets, Draft(N, label, ex[p], row, live[p])
    PROVE  DraftInv'
<1>1. ex' = [ex EXCEPT ![p] = ex[p]]
  BY DEF ExecInv, Types
<1>2. QED
  BY <1>1, DraftMoves

LEMMA DraftJump ==
    ASSUME ExecInv, DraftInv, NEW p \in Procs, NEW label,
           Goto(p, label), Draft(N, label, ex[p], row, live[p])
    PROVE  DraftInv'
BY DraftGoto DEF Goto, world, store, DraftInv

LEMMA DraftLeave ==
    ASSUME ExecInv, DraftInv, NEW p \in Procs, Goto(p, "release")
    PROVE  DraftInv'
BY NoDraft, DraftJump

-----------------------------------------------------------------------------
\* The drafts of each operation

\* A process takes the row as its document.
LEMMA DraftTaken ==
    ASSUME ExecInv, DraftInv, NEW p \in Procs, NEW label,
           row.status \notin TerminalStatus,
           label \notin EditedLabels \cup BusyLabels,
           pc' = [pc EXCEPT ![p] = label], ex' = [ex EXCEPT ![p] = row],
           UNCHANGED <<deployment, row, live>>, budget' \in Budgets
    PROVE  DraftInv'
<1>1. Draft(N, label, row, row, live[p])
  BY DEF Draft, Current, DraftInv, OpenRow, EditedLabels, BusyLabels
<1>2. QED
  BY <1>1, DraftMoves

LEMMA ExecuteDraft ==
    ASSUME ExecInv, FlightInv, DraftInv, NEW p \in Procs, Execute(p)
    PROVE  DraftInv'
<1>1. /\ N \in Nat \ {0} /\ Steps = 1 .. N
  BY WorkflowType DEF ExecInv, Types
<1>2. NoExecution \in Doc(N) /\ OpenDoc(N, NoExecution)
  BY <1>1 DEF NoExecution, NoApproval, Doc, OpenDoc, ExecutionStatus, StepStatus, TerminalStatus
<1>3. NoExecution.rev = 0
  BY DEF NoExecution
<1>4. /\ row.rev = 0 /\ row' = [NoExecution EXCEPT !.rev = 1]
      /\ ex' = [ex EXCEPT ![p] = row'] /\ pc' = [pc EXCEPT ![p] = "acquire_run"]
      /\ UNCHANGED <<deployment, live>> /\ budget' \in Budgets
  BY DEF Execute, world, DraftInv
<1>5. row' = [NoExecution EXCEPT !.rev = @ + 1]
  BY <1>3, <1>4
<1>6. "acquire_run" \notin EditedLabels \cup BusyLabels
  BY DEF EditedLabels, BusyLabels, StepLabels, ApprovedLabels
<1>7. QED
  BY <1>2, <1>3, <1>4, <1>5, <1>6, DraftStores

LEMMA EntersDraft ==
    ASSUME ExecInv, FlightInv, DraftInv, NEW p \in Procs,
           ResumeStored(p) \/ CancelCall(p) \/ RecoverCall(p) \/ RunOnce(p)
    PROVE  DraftInv'
<1> DEFINE entered == {"acquire_interrupted", "acquire_resume", "acquire_cancel",
                       "acquire_recover", "claimed"}
<1>1. row.status \notin TerminalStatus
  BY DEF ResumeStored, CancelCall, RecoverCall, RunOnce, TerminalStatus
<1>2. budget' \in Budgets
  BY DEF ResumeStored, CancelCall, RecoverCall, RunOnce, DraftInv, Budgets
<1>3. PICK label \in entered : pc' = [pc EXCEPT ![p] = label]
  BY DEF ResumeStored, CancelCall, RecoverCall, RunOnce
<1>4. label \notin EditedLabels \cup BusyLabels
  BY DEF EditedLabels, BusyLabels, StepLabels, ApprovedLabels
<1>5. ex' = [ex EXCEPT ![p] = row] /\ UNCHANGED <<deployment, row, live>>
  BY DEF ResumeStored, CancelCall, RecoverCall, RunOnce, world, store
<1>6. QED
  BY <1>1, <1>2, <1>3, <1>4, <1>5, DraftTaken

LEMMA AcquireDraft ==
    ASSUME ExecInv, FlightInv, DraftInv, NEW p \in Procs, Acquire(p)
    PROVE  DraftInv'
<1> DEFINE label == AcquireTargets[pc[p]]
<1>1. /\ label \in {"run", "interrupted", "resume", "cancel", "recover_op"}
      /\ pc[p] \notin EditedLabels \cup {"idle", "release"}
  BY DEF Acquire, AcquireTargets, EditedLabels
<1>2. label \notin EditedLabels \cup BusyLabels \cup {"recovery"}
  BY <1>1 DEF EditedLabels, BusyLabels, StepLabels, ApprovedLabels
<1>3. \/ Goto(p, label) \/ Goto(p, "release")
      \/ /\ row.status \notin TerminalStatus
         /\ ex' = [ex EXCEPT ![p] = row] /\ pc' = [pc EXCEPT ![p] = label]
         /\ UNCHANGED <<deployment, row, live, budget>>
  BY DEF Acquire, world
<1> HIDE DEF label
<1>4. CASE Goto(p, label)
  <2>1. Draft(N, pc[p], ex[p], row, live[p])
    BY DEF DraftInv
  <2>2. label \notin {"await", "cancel_save", "run_cancel_save", "fail", "recovery"}
    BY <1>2 DEF EditedLabels
  <2>3. Draft(N, label, ex[p], row, live[p])
    BY <1>1, <1>2, <2>1, <2>2, CarriesOn
  <2>4. QED
    BY <1>4, <2>3, DraftJump
<1>5. CASE Goto(p, "release")
  BY <1>5, DraftLeave
<1>6. CASE /\ row.status \notin TerminalStatus
           /\ ex' = [ex EXCEPT ![p] = row] /\ pc' = [pc EXCEPT ![p] = label]
           /\ UNCHANGED <<deployment, row, live, budget>>
  <2>1. budget' \in Budgets
    BY <1>6 DEF DraftInv
  <2>2. QED
    BY <1>2, <1>6, <2>1, DraftTaken
<1>7. QED
  BY <1>3, <1>4, <1>5, <1>6

\* A jump to a label that asks no more than the one it leaves.
LEMMA DraftGoesOn ==
    ASSUME ExecInv, FlightInv, DraftInv, NEW p \in Procs, NEW label,
           Goto(p, label), pc[p] \notin EditedLabels \cup {"idle", "release"},
           label \notin {"await", "cancel_save", "run_cancel_save"},
           label \in BusyLabels => pc[p] \in BusyLabels,
           label = "recovery" => ex[p].pending = 0,
           label = "fail" => ex[p].next <= N
    PROVE  DraftInv'
<1>1. Draft(N, pc[p], ex[p], row, live[p])
  BY DEF DraftInv
<1>2. Draft(N, label, ex[p], row, live[p])
  BY <1>1, CarriesOn
<1>3. QED
  BY <1>2, DraftJump

LEMMA ResumeClaimedDraft ==
    ASSUME ExecInv, FlightInv, DraftInv, NEW p \in Procs, ResumeClaimed(p)
    PROVE  DraftInv'
<1>1. pc[p] = "claimed"
  BY DEF ResumeClaimed
<1>2. CASE Goto(p, "interrupted") \/ Goto(p, "resume") \/ Goto(p, "release")
  BY <1>1, <1>2, DraftGoesOn DEF EditedLabels, BusyLabels, StepLabels, ApprovedLabels
<1>3. CASE /\ pc' = [pc EXCEPT ![p] = "idle"] /\ live' = [live EXCEPT ![p] = TRUE]
           /\ UNCHANGED <<deployment, row, ex, budget>>
  <2>1. ex' = [ex EXCEPT ![p] = ex[p]] /\ budget' \in Budgets
    BY <1>3 DEF ExecInv, Types, DraftInv
  <2>2. \A q \in Procs : q # p => live'[q] = live[q]
    BY <1>3
  <2>3. Draft(N, "idle", ex[p], row, live'[p])
    BY NoDraft
  <2>4. QED
    BY <1>3, <2>1, <2>2, <2>3, DraftMoves
<1>4. QED
  BY <1>2, <1>3 DEF ResumeClaimed, world, store

\* Faults before a call.
LEMMA FaultDraft ==
    ASSUME ExecInv, FlightInv, DraftInv, NEW p \in Procs, PreflightFault(p) \/ PreCallFault(p)
    PROVE  DraftInv'
<1>1. budget' \in Budgets /\ UNCHANGED <<deployment, row, ex, live>>
  BY DEF PreflightFault, PreCallFault, DraftInv, Budgets, world, store
<1>2. Draft(N, pc[p], ex[p], row, live[p])
  BY DEF DraftInv
<1>3. CASE PreflightFault(p)
  BY <1>1, <1>3, NoDraft, DraftGoto DEF PreflightFault
<1>4. CASE PreCallFault(p)
  <2>1. ex[p].next <= N /\ pc[p] \in {"run", "step", "request"}
    BY <1>2, <1>4 DEF PreCallFault, Continues, AtLoopTop, Draft, BusyLabels, StepLabels
  <2>2. pc[p] \notin EditedLabels \cup {"idle", "release"}
    BY <2>1 DEF EditedLabels
  <2>3. Draft(N, "fail", ex[p], row, live[p])
    BY <1>2, <2>1, <2>2, CarriesOn DEF BusyLabels, StepLabels, ApprovedLabels
  <2>4. QED
    BY <1>1, <1>4, <2>3, DraftGoto DEF PreCallFault
<1>5. QED
  BY <1>3, <1>4

\* A document whose next step was given a status, and the execution another.
LEMMA StepShape ==
    ASSUME NEW n \in Nat, NEW doc \in Doc(n), NEW s \in StepStatus, NEW st \in ExecutionStatus
    PROVE  LET d == [WithStep(doc, s) EXCEPT !.status = st] IN
           /\ d \in Doc(n) /\ d.rev = doc.rev /\ d.next = doc.next
           /\ d.status = st /\ d.pending = doc.pending
           /\ \A i \in 1 .. n :
                 /\ d.steps[i].status = IF i = doc.next THEN s ELSE doc.steps[i].status
                 /\ d.steps[i].attempts = doc.steps[i].attempts
<1> DEFINE w == WithStep(doc, s)
           d == [w EXCEPT !.status = st]
<1>1. /\ w \in Doc(n) /\ w.rev = doc.rev /\ w.next = doc.next /\ w.pending = doc.pending
      /\ \A i \in 1 .. n : w.steps[i].status = IF i = doc.next THEN s ELSE doc.steps[i].status
  BY WithStepFacts
<1>2. \A i \in 1 .. n : w.steps[i].attempts = doc.steps[i].attempts
  BY DEF WithStep, Doc
<1>3. d = [w EXCEPT !.status = st]
  OBVIOUS
<1> HIDE DEF w, d
<1>4. /\ d \in Doc(n) /\ d.rev = w.rev /\ d.next = w.next /\ d.status = st
      /\ d.pending = w.pending /\ d.steps = w.steps
  BY <1>1, <1>3 DEF Doc
<1>5. /\ d \in Doc(n) /\ d.rev = doc.rev /\ d.next = doc.next
      /\ d.status = st /\ d.pending = doc.pending
      /\ \A i \in 1 .. n :
            /\ d.steps[i].status = IF i = doc.next THEN s ELSE doc.steps[i].status
            /\ d.steps[i].attempts = doc.steps[i].attempts
  BY <1>1, <1>2, <1>4
<1>6. QED
  BY <1>5 DEF w, d

\* The same, when the step is passed.
LEMMA PassedShape ==
    ASSUME NEW n \in Nat, NEW doc \in Doc(n), NEW s \in Finished, doc.next \in 1 .. n,
           NEW st \in ExecutionStatus
    PROVE  LET d == [Passed(doc, s) EXCEPT !.status = st] IN
           /\ d \in Doc(n) /\ d.rev = doc.rev /\ d.next = doc.next + 1
           /\ d.status = st /\ d.pending = doc.pending
           /\ \A i \in 1 .. n :
                 /\ d.steps[i].status = IF i = doc.next THEN s ELSE doc.steps[i].status
                 /\ d.steps[i].attempts = doc.steps[i].attempts
<1> DEFINE w == Passed(doc, s)
           d == [w EXCEPT !.status = st]
<1>1. s \in StepStatus
  BY DEF Finished, StepStatus
<1>2. /\ w \in Doc(n) /\ w.rev = doc.rev /\ w.next = doc.next + 1 /\ w.pending = doc.pending
      /\ \A i \in 1 .. n : w.steps[i].status = IF i = doc.next THEN s ELSE doc.steps[i].status
  BY <1>1, PassedFacts
<1>3. \A i \in 1 .. n : w.steps[i].attempts = doc.steps[i].attempts
  BY DEF Passed, WithStep, Doc
<1>4. d = [w EXCEPT !.status = st]
  OBVIOUS
<1> HIDE DEF w, d
<1>5. /\ d \in Doc(n) /\ d.rev = w.rev /\ d.next = w.next /\ d.status = st
      /\ d.pending = w.pending /\ d.steps = w.steps
  BY <1>2, <1>4 DEF Doc
<1>6. /\ d \in Doc(n) /\ d.rev = doc.rev /\ d.next = doc.next + 1
      /\ d.status = st /\ d.pending = doc.pending
      /\ \A i \in 1 .. n :
            /\ d.steps[i].status = IF i = doc.next THEN s ELSE doc.steps[i].status
            /\ d.steps[i].attempts = doc.steps[i].attempts
  BY <1>2, <1>3, <1>5
<1>7. QED
  BY <1>6 DEF w, d

\* A document in the same status as before is itself.
LEMMA SameShape ==
    ASSUME NEW n \in Nat, NEW d \in Doc(n)
    PROVE  d = [d EXCEPT !.status = d.status]
BY DEF Doc

LEMMA CanceledShape ==
    ASSUME ExecInv, NEW doc \in Doc(N), DocSound(Workflow, doc, approvals, calls, confirmed)
    PROVE  LET d == Canceled(doc) IN
           /\ d \in Doc(N) /\ d.rev = doc.rev /\ d.next = doc.next
           /\ d.status = "canceled" /\ d.pending = doc.pending
           /\ \A i \in 1 .. N :
                 /\ d.steps[i].status \in {doc.steps[i].status, "canceled"}
                 /\ d.steps[i].status = doc.steps[i].status
                    \/ doc.steps[i].status \in {"pending", "running", "awaiting_approval",
                                                "recovery_required"}
                 /\ d.steps[i].attempts = doc.steps[i].attempts
<1> DEFINE d == Canceled(doc)
           closed(i) == /\ i = doc.next
                        /\ doc.steps[i].status \in {"pending", "running", "awaiting_approval",
                                                    "recovery_required"}
           steps == [i \in Steps |-> IF closed(i) THEN [doc.steps[i] EXCEPT !.status = "canceled"]
                                     ELSE doc.steps[i]]
<1>1. deployment \in Deployments /\ Steps = 1 .. N /\ N \in Nat
  BY WorkflowType DEF ExecInv, Types
<1>2. d \in Doc(N)
  BY <1>1, CanceledSound
<1>3. d = [doc EXCEPT !.status = "canceled", !.steps = steps]
  BY DEF Canceled
<1>4. /\ d.rev = doc.rev /\ d.next = doc.next /\ d.status = "canceled"
      /\ d.pending = doc.pending /\ d.steps = steps
  BY <1>3 DEF Doc
<1> HIDE DEF d
<1>5. ASSUME NEW i \in 1 .. N
      PROVE  /\ steps[i].status \in {doc.steps[i].status, "canceled"}
             /\ steps[i].status = doc.steps[i].status
                \/ doc.steps[i].status \in {"pending", "running", "awaiting_approval",
                                            "recovery_required"}
             /\ steps[i].attempts = doc.steps[i].attempts
  <2>1. doc.steps[i] \in [status : StepStatus, attempts : Nat]
    BY DEF Doc
  <2>2. CASE closed(i)
    BY <1>1, <2>1, <2>2
  <2>3. CASE ~closed(i)
    BY <1>1, <2>1, <2>3
  <2>4. QED
    BY <2>2, <2>3
<1> HIDE DEF steps
<1>6. QED
  BY <1>2, <1>4, <1>5 DEF d

\* The counter of the attempts of the next step.
LEMMA AttemptShape ==
    ASSUME NEW n \in Nat, NEW doc \in Doc(n), NEW t \in Nat
    PROVE  LET d == [doc EXCEPT !.steps[doc.next].attempts = t] IN
           /\ d \in Doc(n) /\ d.rev = doc.rev /\ d.next = doc.next
           /\ d.status = doc.status /\ d.pending = doc.pending
           /\ \A i \in 1 .. n :
                 /\ d.steps[i].status = doc.steps[i].status
                 /\ d.steps[i].attempts = IF i = doc.next THEN t ELSE doc.steps[i].attempts
<1> DEFINE steps == [doc.steps EXCEPT ![doc.next].attempts = t]
           d == [doc EXCEPT !.steps[doc.next].attempts = t]
<1>1. doc.steps \in [1 .. n -> [status : StepStatus, attempts : Nat]]
  BY DEF Doc
<1>2. /\ steps \in [1 .. n -> [status : StepStatus, attempts : Nat]]
      /\ \A i \in 1 .. n :
            /\ steps[i].status = doc.steps[i].status
            /\ steps[i].attempts = IF i = doc.next THEN t ELSE doc.steps[i].attempts
  BY <1>1
<1>3. d = [doc EXCEPT !.steps = steps]
  OBVIOUS
<1> HIDE DEF steps, d
<1>4. /\ d \in Doc(n) /\ d.rev = doc.rev /\ d.next = doc.next
      /\ d.status = doc.status /\ d.pending = doc.pending /\ d.steps = steps
  BY <1>2, <1>3 DEF Doc
<1>5. QED
  BY <1>2, <1>4 DEF d

-----------------------------------------------------------------------------
\* Saves

\* A label that a process leaves or goes to, by its kind.
LEMMA LabelKinds ==
    /\ \A label \in {"run", "interrupted", "resume", "expire", "expire_pending", "reject",
                     "cancel", "run_expire", "save_incomplete", "recover_op"} :
          label \notin EditedLabels \cup BusyLabels \cup {"idle", "release"}
    /\ \A label \in {"step", "request", "attempt", "called", "tool", "record", "complete",
                     "recovery"} :
          label \in BusyLabels /\ label \notin EditedLabels \cup {"idle", "release"}
    /\ \A label \in EditedLabels : label \notin BusyLabels \cup {"idle", "release"}
    /\ "release" \notin EditedLabels \cup BusyLabels
BY DEF EditedLabels, BusyLabels, StepLabels, ApprovedLabels

\* A current document that was not edited.
LEMMA Unedited ==
    ASSUME ExecInv, FlightInv, DraftInv, NEW p \in Procs,
           pc[p] \notin EditedLabels \cup {"idle", "release"}
    PROVE  ex[p].rev = row.rev => ex[p] = row /\ row.status \notin TerminalStatus
BY DEF DraftInv, Draft, Current

\* A process at work on a step: the step is running and, past its approval, no
\* approval is pending.
LEMMA Busy ==
    ASSUME ExecInv, FlightInv, DraftInv, NEW p \in Procs, pc[p] \in BusyLabels
    PROVE  /\ ex[p].next \in 1 .. N /\ ex[p].steps[ex[p].next].status = "running"
           /\ pc[p] \in {"attempt", "called", "tool", "record", "complete", "recovery"} =>
                 ex[p].pending = 0
<1>1. pc[p] \notin {"idle", "release"}
  BY DEF BusyLabels, StepLabels, ApprovedLabels
<1>2. /\ ex[p].next \in 1 .. N + 1 /\ N \in Nat /\ Draft(N, pc[p], ex[p], row, live[p])
      /\ LocalSound(Workflow, pc[p], ex[p], approvals, calls, confirmed)
      /\ DocSound(Workflow, ex[p], approvals, calls, confirmed)
  BY <1>1, DraftFacts
<1>3. ex[p].next \in 1 .. N /\ ex[p].steps[ex[p].next].status = "running"
  BY <1>1, <1>2 DEF Draft
<1>4. CASE pc[p] \in ApprovedLabels
  BY <1>2, <1>3, <1>4 DEF LocalSound, DocSound
<1>5. CASE pc[p] = "recovery"
  BY <1>1, <1>2, <1>3, <1>5 DEF Draft
<1>6. QED
  BY <1>3, <1>4, <1>5 DEF ApprovedLabels

LEMMA ResumeInterruptedDraft ==
    ASSUME ExecInv, FlightInv, DraftInv, NEW p \in Procs, ResumeInterrupted(p)
    PROVE  DraftInv'
<1>1. pc[p] = "interrupted" /\ pc[p] \notin EditedLabels \cup {"idle", "release"}
  BY LabelKinds DEF ResumeInterrupted
<1>2. CASE Goto(p, "run")
  BY <1>1, <1>2, LabelKinds, DraftGoesOn
<1>3. CASE Saves(p, RecoveryRequired(ex[p]), TRUE, "release", "release")
  <2> DEFINE d == RecoveryRequired(ex[p])
  <2>1. ex[p] \in Doc(N) /\ N \in Nat
    BY <1>1, DraftFacts
  <2>2. "recovery_required" \in StepStatus /\ "recovery_required" \in ExecutionStatus
    BY DEF StepStatus, ExecutionStatus
  <2>3. /\ d \in Doc(N) /\ d.next = ex[p].next /\ d.status = "recovery_required"
        /\ \A i \in 1 .. N :
              d.steps[i].status = IF i = ex[p].next THEN "recovery_required" ELSE ex[p].steps[i].status
    BY <2>1, <2>2, StepShape DEF RecoveryRequired
  <2> HIDE DEF d
  <2>4. OpenDoc(N, d)
    BY <2>1, <2>3 DEF OpenDoc, TerminalStatus, Doc
  <2>5. QED
    BY <1>3, <2>3, <2>4, DraftLast DEF d
<1>4. QED
  BY <1>2, <1>3 DEF ResumeInterrupted

LEMMA ResumeDraft ==
    ASSUME ExecInv, FlightInv, DraftInv, NEW p \in Procs, Resume(p)
    PROVE  DraftInv'
<1>1. pc[p] = "resume" /\ pc[p] \notin EditedLabels \cup {"idle", "release"}
  BY LabelKinds DEF Resume
<1>2. ASSUME NEW label \in {"expire", "expire_pending", "reject", "release"}, Goto(p, label)
      PROVE  DraftInv'
  BY <1>1, <1>2, LabelKinds, DraftGoesOn
<1>3. CASE /\ ex[p].status = "awaiting_approval"
           /\ approvals[ex[p].pending].status = "granted"
           /\ Saves(p, Granted(ex[p]), FALSE, "run", "release")
  <2> DEFINE d == Granted(ex[p])
  <2>1. /\ ex[p] \in Doc(N) /\ N \in Nat /\ N = Len(Workflow) /\ OpenDoc(N, ex[p])
        /\ DocSound(Workflow, ex[p], approvals, calls, confirmed)
        /\ LocalSound(Workflow, pc[p], ex[p], approvals, calls, confirmed)
    BY <1>1, DraftFacts
  <2>2. ex[p].pending # 0
    BY <1>1, <1>3, <2>1 DEF LocalSound, ReadLabels, Settled
  <2>3. d \in Doc(N)
    BY <1>3, <2>1, <2>2, GrantedSound
  <2>4. d.next = ex[p].next /\ d.steps = ex[p].steps /\ d.status = "running"
    BY <2>1 DEF Granted, Doc
  <2> HIDE DEF d
  <2>5. OpenDoc(N, d)
    BY <2>1, <2>4 DEF OpenDoc, TerminalStatus
  <2>6. Save(p, d, FALSE, "run", "release") /\ UNCHANGED <<deployment, live>>
    BY <1>3 DEF d, Saves, world
  <2>7. "run" \notin EditedLabels \cup BusyLabels /\ "run" # "recovery"
    BY LabelKinds
  <2>8. QED
    BY <2>3, <2>5, <2>6, <2>7, DraftSave
<1>4. QED
  BY <1>2, <1>3 DEF Resume

LEMMA ExpirePendingDraft ==
    ASSUME ExecInv, FlightInv, DraftInv, NEW p \in Procs, ExpirePending(p)
    PROVE  DraftInv'
<1>1. pc[p] \notin EditedLabels \cup {"idle", "release"}
  BY LabelKinds DEF ExpirePending
<1>2. CASE Goto(p, "release")
  BY <1>2, DraftLeave
<1>3. CASE pc' = [pc EXCEPT ![p] = "reject"] /\ UNCHANGED <<deployment, row, ex, live, budget>>
  <2>1. Draft(N, "reject", ex[p], row, live[p])
    BY <1>1, LabelKinds, CarriesOn DEF DraftInv
  <2>2. budget' \in Budgets
    BY <1>3 DEF DraftInv
  <2>3. QED
    BY <1>3, <2>1, <2>2, DraftGoto
<1>4. QED
  BY <1>2, <1>3 DEF ExpirePending, world, store

LEMMA CancelDraft ==
    ASSUME ExecInv, FlightInv, DraftInv, NEW p \in Procs, Cancel(p) \/ ExpireExecution(p)
    PROVE  DraftInv'
<1>1. PICK status \in {"expired", "canceled"}, detached \in BOOLEAN,
           label \in {"cancel_save", "run_cancel_save"} :
        /\ CloseApproval(p, status, detached, label)
        /\ pc[p] \in {"cancel", "expire", "run_expire"}
  BY DEF Cancel, ExpireExecution
<1>2. pc[p] \notin EditedLabels \cup {"idle", "release"}
  BY <1>1, LabelKinds
<1>3. /\ Draft(N, pc[p], ex[p], row, live[p]) /\ ex[p] \in Doc(N) /\ N \in Nat
      /\ OpenDoc(N, ex[p])
      /\ ex[p].rev = row.rev => ex[p] = row /\ row.status \notin TerminalStatus
      /\ label \in EditedLabels /\ label \notin BusyLabels
  BY <1>2, DraftFacts, Unedited, LabelKinds DEF EditedLabels
<1>4. CASE ex[p].pending = 0 /\ Goto(p, label)
  <2>1. Draft(N, label, ex[p], row, live[p])
    BY <1>3, <1>4 DEF Draft, Current
  <2>2. QED
    BY <1>4, <2>1, DraftJump
<1>5. CASE /\ ex' = [ex EXCEPT ![p].pending = 0] /\ pc' = [pc EXCEPT ![p] = label]
           /\ UNCHANGED <<deployment, row, live, budget>>
  <2> DEFINE d == [ex[p] EXCEPT !.pending = 0]
  <2>1. ex' = [ex EXCEPT ![p] = d]
    BY <1>5
  <2>2. /\ d.rev = ex[p].rev /\ d.next = ex[p].next /\ d.steps = ex[p].steps
        /\ d.status = ex[p].status /\ d.pending = 0
    BY <1>3 DEF Doc
  <2> HIDE DEF d
  <2>3. Draft(N, label, d, row, live'[p])
    BY <1>3, <2>2 DEF Draft, Current, OpenDoc
  <2>4. budget' \in Budgets /\ \A q \in Procs : q # p => live'[q] = live[q]
    BY <1>5 DEF DraftInv
  <2>5. QED
    BY <1>5, <2>1, <2>3, <2>4, DraftMoves
<1>6. CASE Goto(p, "release")
  BY <1>6, DraftLeave
<1>7. QED
  BY <1>1, <1>4, <1>5, <1>6 DEF CloseApproval, NoApproval, world, store

\* Saves that close the execution, or store it as it is, and release it.
LEMMA ClosingDraft ==
    ASSUME ExecInv, FlightInv, DraftInv, NEW p \in Procs,
           \/ Reject(p) \/ Fail(p) \/ CancelCheckpoint(p) \/ RunFinish(p)
           \/ SaveIncomplete(p) \/ RecoverClosed(p)
    PROVE  DraftInv'
<1>1. pc[p] \notin {"idle", "release"}
  BY DEF Reject, Fail, CancelCheckpoint, RunFinish, SaveIncomplete, RecoverClosed
<1>2. /\ ex[p] \in Doc(N) /\ N \in Nat /\ OpenDoc(N, ex[p])
      /\ DocSound(Workflow, ex[p], approvals, calls, confirmed)
  BY <1>1, DraftFacts
<1>3. {"failed", "canceled", "completed"} \subseteq TerminalStatus
      /\ {"failed", "canceled", "completed"} \subseteq ExecutionStatus
      /\ "failed" \in StepStatus
  BY DEF TerminalStatus, ExecutionStatus, StepStatus
<1>4. Failed(ex[p]) \in Doc(N) /\ Failed(ex[p]).status = "failed"
  BY <1>2, <1>3, StepShape DEF Failed
<1>5. ASSUME NEW d \in Doc(N), NEW detached, d.status \in TerminalStatus,
             Saves(p, d, detached, "release", "release")
      PROVE  DraftInv'
  BY <1>5, DraftLast
<1>6. CASE Reject(p)
  <2> DEFINE d == [Failed(ex[p]) EXCEPT !.pending = 0]
  <2>1. d \in Doc(N) /\ d.status = "failed"
    BY <1>4 DEF Doc
  <2>2. Saves(p, d, FALSE, "release", "release")
    BY <1>6 DEF Reject, NoApproval
  <2>3. QED
    BY <1>3, <1>5, <2>1, <2>2
<1>7. CASE Fail(p)
  BY <1>3, <1>4, <1>5, <1>7 DEF Fail
<1>8. CASE CancelCheckpoint(p)
  <2>1. Canceled(ex[p]) \in Doc(N) /\ Canceled(ex[p]).status = "canceled"
    BY <1>2, CanceledShape
  <2>2. QED
    BY <1>3, <1>5, <1>8, <2>1 DEF CancelCheckpoint
<1>9. CASE RunFinish(p)
  <2> DEFINE d == [ex[p] EXCEPT !.status = "completed"]
  <2>1. d \in Doc(N) /\ d.status = "completed"
    BY <1>2, <1>3 DEF Doc
  <2>2. Saves(p, d, FALSE, "release", "release")
    BY <1>9 DEF RunFinish
  <2>3. QED
    BY <1>3, <1>5, <2>1, <2>2
<1>10. CASE SaveIncomplete(p)
  BY <1>2, <1>10, DraftLast DEF SaveIncomplete
<1>11. CASE RecoverClosed(p)
  <2>1. PICK st \in {"failed", "canceled"} :
          Saves(p, [WithStep(ex[p], "failed") EXCEPT !.status = st], FALSE, "release", "release")
    BY <1>11 DEF RecoverClosed
  <2> DEFINE d == [WithStep(ex[p], "failed") EXCEPT !.status = st]
  <2>2. d \in Doc(N) /\ d.status = st
    BY <1>2, <1>3, StepShape
  <2>3. st \in TerminalStatus
    BY <1>3
  <2>4. QED
    BY <1>5, <2>1, <2>2, <2>3
<1>12. QED
  BY <1>6, <1>7, <1>8, <1>9, <1>10, <1>11

\* The loop turns to a deadline, to a canceled context or to a refusal.
LEMMA LoopDraft ==
    ASSUME ExecInv, FlightInv, DraftInv, NEW p \in Procs,
           RunExpired(p) \/ RunAborted(p) \/ Refuse(p)
    PROVE  DraftInv'
<1>1. CASE RunExpired(p)
  BY <1>1, LabelKinds, DraftGoesOn DEF RunExpired, AtLoopTop
<1>2. CASE RunAborted(p)
  <2>1. pc[p] = "run" /\ ~live[p] /\ Goto(p, "run_cancel_save")
    BY <1>2 DEF RunAborted, AtLoopTop
  <2>2. pc[p] \notin EditedLabels \cup {"idle", "release"} /\ "run_cancel_save" \in EditedLabels
        /\ "run_cancel_save" \notin BusyLabels
    BY <2>1, LabelKinds DEF EditedLabels
  <2>3. Draft(N, pc[p], ex[p], row, live[p])
    BY DEF DraftInv
  <2>4. Draft(N, "run_cancel_save", ex[p], row, live[p])
    BY <2>1, <2>2, <2>3 DEF Draft, Current
  <2>5. QED
    BY <2>1, <2>4, DraftJump
<1>3. CASE Refuse(p)
  <2>1. pc[p] = "step" /\ Goto(p, "fail")
    BY <1>3 DEF Refuse
  <2>2. ex[p].next <= N
    BY <2>1, LabelKinds, Busy
  <2>3. "fail" \notin BusyLabels
    BY LabelKinds DEF EditedLabels
  <2>4. QED
    BY <2>1, <2>2, <2>3, LabelKinds, DraftGoesOn
<1>4. QED
  BY <1>1, <1>2, <1>3

\* The same, when the attempt counter changes.
LEMMA TryDraft ==
    ASSUME ExecInv, FlightInv, DraftInv, NEW p \in Procs, Proceed(p) \/ ToolRetries(p)
    PROVE  DraftInv'
<1>1. pc[p] \in {"step", "tool"} /\ pc[p] \notin EditedLabels \cup {"idle", "release"}
      /\ pc[p] \in BusyLabels
  BY LabelKinds DEF Proceed, ToolRetries
<1>2. PICK label \in {"request", "attempt", "complete", "fail"} : pc' = [pc EXCEPT ![p] = label]
  BY DEF Proceed, ToolRetries, Goto
<1>3. UNCHANGED <<deployment, row, ex, live, budget>>
  BY DEF Proceed, ToolRetries, Goto, world, store
<1>4. Draft(N, pc[p], ex[p], row, live[p]) /\ ex[p].next <= N
  BY <1>1, Busy DEF DraftInv
<1>5. Draft(N, label, ex[p], row, live[p])
  BY <1>1, <1>4, LabelKinds, CarriesOn
<1>6. budget' \in Budgets
  BY <1>3 DEF DraftInv
<1>7. QED
  BY <1>2, <1>3, <1>5, <1>6, DraftGoto

\* The call ends, well or not.
LEMMA ToolDraft ==
    ASSUME ExecInv, FlightInv, DraftInv, NEW p \in Procs,
           ToolSucceeds(p) \/ ToolOutputRejected(p) \/ ToolFails(p)
    PROVE  DraftInv'
<1>1. pc[p] = "tool"
  BY DEF ToolSucceeds, ToolOutputRejected, ToolFails
<1>2. PICK label \in {"record", "recovery", "fail"} : Goto(p, label)
  BY DEF ToolSucceeds, ToolOutputRejected, ToolFails
<1>3. ex[p].next <= N /\ ex[p].pending = 0
  BY <1>1, LabelKinds, Busy
<1>4. QED
  BY <1>1, <1>2, <1>3, LabelKinds, DraftGoesOn

\* A passed step leaves the execution open: the next one was not started.
LEMMA PassedOpen ==
    ASSUME NEW n \in Nat, NEW doc \in Doc(n), NEW s \in Finished, doc.next \in 1 .. n,
           NEW st \in ExecutionStatus \ TerminalStatus, Ordered(n, doc)
    PROVE  LET d == [Passed(doc, s) EXCEPT !.status = st] IN d \in Doc(n) /\ OpenDoc(n, d)
<1> DEFINE d == [Passed(doc, s) EXCEPT !.status = st]
<1>1. /\ d \in Doc(n) /\ d.next = doc.next + 1 /\ d.status = st
      /\ \A i \in 1 .. n :
            d.steps[i].status = IF i = doc.next THEN s ELSE doc.steps[i].status
  BY PassedShape
<1> HIDE DEF d
<1>2. d.next <= n => d.steps[d.next].status = "pending"
  BY <1>1 DEF Ordered
<1>3. d \in Doc(n) /\ OpenDoc(n, d)
  BY <1>1, <1>2 DEF OpenDoc
<1>4. QED
  BY <1>3 DEF d

LEMMA PassDraft ==
    ASSUME ExecInv, FlightInv, DraftInv, NEW p \in Procs,
           RunSkip(p) \/ CompleteStep(p) \/ RecoverCompleted(p)
    PROVE  DraftInv'
<1>1. /\ pc[p] \notin {"idle", "release"} /\ ex[p].next \in 1 .. N
      /\ UNCHANGED <<deployment, live>>
  <2>1. CASE RunSkip(p)
    BY <2>1, LoopFacts DEF RunSkip, Saves, Continues, AtLoopTop, world
  <2>2. CASE CompleteStep(p)
    BY <2>2, LabelKinds, Busy DEF CompleteStep, Saves, world
  <2>3. CASE RecoverCompleted(p)
    BY <2>3, RecoverFacts DEF RecoverCompleted, world
  <2>4. QED
    BY <2>1, <2>2, <2>3
<1>2. ex[p] \in Doc(N) /\ N \in Nat /\ OpenDoc(N, ex[p]) /\ Ordered(N, ex[p])
  BY <1>1, DraftFacts
<1>3. "skipped" \in Finished /\ "completed" \in Finished
      /\ "running" \in ExecutionStatus \ TerminalStatus
      /\ ex[p].status \in ExecutionStatus \ TerminalStatus
  BY <1>2 DEF Finished, ExecutionStatus, TerminalStatus, OpenDoc, Doc
<1>4. "run" \notin EditedLabels \cup BusyLabels /\ "run" # "recovery"
  BY LabelKinds
<1>5. ASSUME NEW s \in Finished, NEW st \in ExecutionStatus \ TerminalStatus,
             Save(p, [Passed(ex[p], s) EXCEPT !.status = st], FALSE, "run", "release")
      PROVE  DraftInv'
  <2> DEFINE d == [Passed(ex[p], s) EXCEPT !.status = st]
  <2>1. d \in Doc(N) /\ OpenDoc(N, d)
    BY <1>1, <1>2, PassedOpen
  <2>2. Save(p, d, FALSE, "run", "release")
    BY <1>5
  <2> HIDE DEF d
  <2>3. QED
    BY <1>1, <1>4, <2>1, <2>2, DraftSave
<1>6. ASSUME NEW s \in Finished, Save(p, Passed(ex[p], s), FALSE, "run", "release")
      PROVE  DraftInv'
  <2> DEFINE w == Passed(ex[p], s)
  <2>1. s \in StepStatus
    BY DEF Finished, StepStatus
  <2>2. w \in Doc(N) /\ w.status = ex[p].status
    BY <1>1, <1>2, <2>1, PassedFacts
  <2>3. w = [w EXCEPT !.status = ex[p].status]
    BY <1>2, <2>2, SameShape
  <2>4. Save(p, [w EXCEPT !.status = ex[p].status], FALSE, "run", "release")
    BY <1>6, <2>3
  <2>5. QED
    BY <1>3, <1>5, <2>4
<1>7. CASE RunSkip(p)
  BY <1>3, <1>6, <1>7 DEF RunSkip, Saves
<1>8. CASE CompleteStep(p)
  BY <1>3, <1>6, <1>8 DEF CompleteStep, Saves
<1>9. CASE RecoverCompleted(p)
  BY <1>3, <1>5, <1>9 DEF RecoverCompleted
<1>10. QED
  BY <1>7, <1>8, <1>9

\* The next step is started, or handed back to the loop to be.
LEMMA StartDraft ==
    ASSUME ExecInv, FlightInv, DraftInv, NEW p \in Procs, RunStart(p) \/ RecoverNotRun(p)
    PROVE  DraftInv'
<1>1. /\ pc[p] \notin {"idle", "release"} /\ ex[p].next \in 1 .. N
      /\ UNCHANGED <<deployment, live>>
  <2>1. CASE RunStart(p)
    BY <2>1, LoopFacts DEF RunStart, Saves, Continues, AtLoopTop, world
  <2>2. CASE RecoverNotRun(p)
    BY <2>2, RecoverFacts DEF RecoverNotRun, world
  <2>3. QED
    BY <2>1, <2>2
<1>2. ex[p] \in Doc(N) /\ N \in Nat /\ OpenDoc(N, ex[p])
  BY <1>1, DraftFacts
<1>3. "running" \in StepStatus /\ "running" \in ExecutionStatus \ TerminalStatus
      /\ ex[p].status \in ExecutionStatus \ TerminalStatus
  BY <1>2 DEF StepStatus, ExecutionStatus, TerminalStatus, OpenDoc, Doc
<1>4. ASSUME NEW label \in {"run", "step"}, NEW st \in ExecutionStatus \ TerminalStatus,
             Save(p, [WithStep(ex[p], "running") EXCEPT !.status = st], FALSE, label, "release")
      PROVE  DraftInv'
  <2> DEFINE d == [WithStep(ex[p], "running") EXCEPT !.status = st]
  <2>1. /\ d \in Doc(N) /\ d.next = ex[p].next /\ d.status = st
        /\ \A i \in 1 .. N :
              d.steps[i].status = IF i = ex[p].next THEN "running" ELSE ex[p].steps[i].status
    BY <1>2, <1>3, StepShape
  <2>2. Save(p, d, FALSE, label, "release")
    BY <1>4
  <2> HIDE DEF d
  <2>3. d.next <= N /\ d.steps[d.next].status = "running" /\ OpenDoc(N, d)
    BY <1>1, <2>1 DEF OpenDoc
  <2>4. label \notin EditedLabels /\ label # "recovery"
    BY LabelKinds
  <2>5. QED
    BY <1>1, <2>1, <2>2, <2>3, <2>4, DraftSave
<1>5. CASE RunStart(p)
  <2> DEFINE w == WithStep(ex[p], "running")
  <2>1. w \in Doc(N) /\ w.status = ex[p].status
    BY <1>2, <1>3, WithStepFacts
  <2>2. w = [w EXCEPT !.status = ex[p].status]
    BY <1>2, <2>1, SameShape
  <2>3. Save(p, w, FALSE, "step", "release")
    BY <1>5 DEF RunStart, Saves
  <2>4. Save(p, [w EXCEPT !.status = ex[p].status], FALSE, "step", "release")
    BY <2>2, <2>3
  <2>5. QED
    BY <1>3, <1>4, <2>4
<1>6. CASE RecoverNotRun(p)
  BY <1>3, <1>4, <1>6 DEF RecoverNotRun
<1>7. QED
  BY <1>5, <1>6

\* An approval is asked for: the document says so, the row not yet.
LEMMA RequestDraft ==
    ASSUME ExecInv, FlightInv, DraftInv, NEW p \in Procs, RequestApproval(p)
    PROVE  DraftInv'
<1>1. pc[p] = "request" /\ pc[p] \in BusyLabels
      /\ pc[p] \notin EditedLabels \cup {"idle", "release"}
  BY LabelKinds DEF RequestApproval
<1>2. /\ ex[p] \in Doc(N) /\ N \in Nat /\ ex[p].next \in 1 .. N
      /\ ex[p].steps[ex[p].next].status = "running"
      /\ ex[p].rev = row.rev => ex[p] = row /\ row.status \notin TerminalStatus
  BY <1>1, DraftFacts, Busy, Unedited
<1>3. CASE Goto(p, "fail")
  BY <1>1, <1>2, <1>3, LabelKinds, DraftGoesOn DEF EditedLabels
<1>4. CASE /\ ex' = [ex EXCEPT ![p] = [WithStep(@, "awaiting_approval") EXCEPT
                        !.pending = Len(approvals) + 1, !.status = "awaiting_approval"]]
           /\ pc' = [pc EXCEPT ![p] = "await"]
           /\ UNCHANGED <<deployment, row, live, budget>>
  <2> DEFINE w == [WithStep(ex[p], "awaiting_approval") EXCEPT !.status = "awaiting_approval"]
             d == [w EXCEPT !.pending = Len(approvals) + 1]
  <2>1. "awaiting_approval" \in StepStatus
        /\ "awaiting_approval" \in ExecutionStatus \ TerminalStatus
    BY DEF StepStatus, ExecutionStatus, TerminalStatus
  <2>2. /\ w \in Doc(N) /\ w.rev = ex[p].rev /\ w.next = ex[p].next
        /\ w.status = "awaiting_approval"
        /\ \A i \in 1 .. N :
              /\ w.steps[i].status = IF i = ex[p].next THEN "awaiting_approval"
                                     ELSE ex[p].steps[i].status
              /\ w.steps[i].attempts = ex[p].steps[i].attempts
    BY <1>2, <2>1, StepShape
  <2>3. ex' = [ex EXCEPT ![p] = d]
    BY <1>4 DEF ExecInv, Types
  <2>4. d = [w EXCEPT !.pending = Len(approvals) + 1]
    OBVIOUS
  <2> HIDE DEF w, d
  <2>5. Len(approvals) \in Nat
    BY DEF ExecInv, Types
  <2>6. /\ d.rev = w.rev /\ d.next = w.next /\ d.status = w.status
        /\ d.steps = w.steps /\ d.pending = Len(approvals) + 1
    BY <2>2, <2>4 DEF Doc
  <2>7. d.pending # 0
    BY <2>5, <2>6
  <2>8. OpenDoc(N, d)
    BY <1>2, <2>1, <2>2, <2>6 DEF OpenDoc
  <2>9. d.rev = row.rev => Current("await", d, row)
    BY <1>2, <2>2, <2>6 DEF Current, EditedLabels
  <2>10. "await" \notin BusyLabels
    BY LabelKinds DEF EditedLabels
  <2>11. Draft(N, "await", d, row, live'[p])
    BY <1>2, <2>2, <2>6, <2>7, <2>8, <2>9, <2>10 DEF Draft
  <2>12. budget' \in Budgets
    BY <1>4 DEF DraftInv
  <2>13. QED
    BY <1>4, <2>3, <2>11, <2>12, DraftMoves
<1>5. QED
  BY <1>3, <1>4 DEF RequestApproval, world, store

\* A save of an edited step, or of the document as it is, within a step.
LEMMA StepSavesDraft ==
    ASSUME ExecInv, FlightInv, DraftInv, NEW p \in Procs,
           AwaitApproval(p) \/ Attempt(p) \/ CallTool(p) \/ RecordResult(p) \/ RequireRecovery(p)
    PROVE  DraftInv'
<1>1. /\ pc[p] \in {"await", "attempt", "called", "record", "recovery"}
      /\ pc[p] \notin {"idle", "release"}
      /\ UNCHANGED <<deployment, live>>
  BY DEF AwaitApproval, Attempt, CallTool, RecordResult, RequireRecovery, Saves, world
<1>2. /\ ex[p] \in Doc(N) /\ N \in Nat /\ OpenDoc(N, ex[p]) /\ ex[p].next \in 1 .. N + 1
      /\ Draft(N, pc[p], ex[p], row, live[p])
  BY <1>1, DraftFacts
<1>3. "fail" \in EditedLabels /\ "fail" \notin BusyLabels
  BY LabelKinds DEF EditedLabels
<1>4. pc[p] # "await" =>
         /\ pc[p] \in BusyLabels /\ pc[p] \notin EditedLabels
         /\ ex[p].next \in 1 .. N /\ ex[p].steps[ex[p].next].status = "running"
         /\ ex[p].pending = 0
         /\ ex[p].rev = row.rev => ex[p] = row /\ row.status \notin TerminalStatus
  BY <1>1, LabelKinds, Busy, Unedited
<1>5. CASE AwaitApproval(p)
  <2>1. pc[p] = "await" /\ Save(p, ex[p], FALSE, "save_incomplete", "fail")
    BY <1>5 DEF AwaitApproval, Saves
  <2>2. Draft(N, "fail", ex[p], row, live[p])
    BY <1>2, <1>3, <2>1 DEF Draft, Current
  <2>3. "save_incomplete" \notin EditedLabels \cup BusyLabels /\ "save_incomplete" # "recovery"
    BY LabelKinds
  <2>4. QED
    BY <1>1, <1>2, <2>1, <2>2, <2>3, DraftSave
<1>6. CASE Attempt(p)
  <2> DEFINE d == [ex[p] EXCEPT !.steps[ex[p].next].attempts = try[p]]
  <2>1. pc[p] # "await" /\ Save(p, d, FALSE, "called", "fail")
    BY <1>6 DEF Attempt, Saves
  <2>2. try[p] \in Nat
    BY DEF ExecInv, Types, LeaseTypes
  <2>3. /\ d \in Doc(N) /\ d.rev = ex[p].rev /\ d.next = ex[p].next
        /\ d.status = ex[p].status
        /\ \A i \in 1 .. N : d.steps[i].status = ex[p].steps[i].status
    BY <1>2, <2>2, AttemptShape
  <2> HIDE DEF d
  <2>4. OpenDoc(N, d) /\ d.next <= N /\ d.steps[d.next].status = "running"
    BY <1>2, <1>4, <2>1, <2>3 DEF OpenDoc
  <2>5. Draft(N, "fail", d, row, live[p])
    BY <1>3, <1>4, <2>1, <2>3, <2>4 DEF Draft, Current
  <2>6. "called" \notin EditedLabels /\ "called" # "recovery"
    BY LabelKinds
  <2>7. QED
    BY <1>1, <2>1, <2>3, <2>4, <2>5, <2>6, DraftSave
<1>7. CASE CallTool(p)
  <2>1. pc[p] # "await" /\ Save(p, ex[p], FALSE, "tool", "fail")
    BY <1>7 DEF CallTool
  <2>2. Draft(N, "fail", ex[p], row, live[p])
    BY <1>1, <1>2, <1>3, <1>4, <2>1, CarriesOn
  <2>3. "tool" \notin EditedLabels /\ "tool" # "recovery"
    BY LabelKinds
  <2>4. ex[p].next <= N /\ ex[p].steps[ex[p].next].status = "running"
    BY <1>2, <1>4, <2>1
  <2>5. QED
    BY <1>1, <1>2, <2>1, <2>2, <2>3, <2>4, DraftSave
<1>8. CASE RecordResult(p)
  <2>1. PICK label \in {"recovery", "fail"} : Save(p, ex[p], TRUE, "complete", label)
    BY <1>8 DEF RecordResult, Saves
  <2>2. pc[p] # "await"
    BY <1>8 DEF RecordResult
  <2>3. Draft(N, label, ex[p], row, live[p])
    BY <1>1, <1>2, <1>4, <2>2, CarriesOn
  <2>4. "complete" \notin EditedLabels /\ "complete" # "recovery"
    BY LabelKinds
  <2>5. ex[p].next <= N /\ ex[p].steps[ex[p].next].status = "running"
    BY <1>2, <1>4, <2>2
  <2>6. QED
    BY <1>1, <1>2, <2>1, <2>3, <2>4, <2>5, DraftSave
<1>9. CASE RequireRecovery(p)
  <2> DEFINE d == RecoveryRequired(ex[p])
  <2>1. pc[p] # "await" /\ Save(p, d, TRUE, "save_incomplete", "fail")
    BY <1>9 DEF RequireRecovery, Saves
  <2>2. "recovery_required" \in StepStatus
        /\ "recovery_required" \in ExecutionStatus \ TerminalStatus
    BY DEF StepStatus, ExecutionStatus, TerminalStatus
  <2>3. /\ d \in Doc(N) /\ d.rev = ex[p].rev /\ d.next = ex[p].next
        /\ d.status = "recovery_required"
        /\ \A i \in 1 .. N :
              d.steps[i].status = IF i = ex[p].next THEN "recovery_required"
                                  ELSE ex[p].steps[i].status
    BY <1>2, <2>2, StepShape DEF RecoveryRequired
  <2> HIDE DEF d
  <2>4. OpenDoc(N, d) /\ d.next <= N
    BY <1>2, <1>4, <2>1, <2>2, <2>3 DEF OpenDoc
  <2>5. Draft(N, "fail", d, row, live[p])
    BY <1>3, <1>4, <2>1, <2>3, <2>4 DEF Draft, Current
  <2>6. "save_incomplete" \notin EditedLabels \cup BusyLabels /\ "save_incomplete" # "recovery"
    BY LabelKinds
  <2>7. QED
    BY <1>1, <2>1, <2>3, <2>4, <2>5, <2>6, DraftSave
<1>10. QED
  BY <1>5, <1>6, <1>7, <1>8, <1>9

LEMMA EndsDraft ==
    ASSUME ExecInv, FlightInv, DraftInv, NEW p \in Procs, Release(p) \/ Crash(p)
    PROVE  DraftInv'
<1>1. /\ pc' = [pc EXCEPT ![p] = "idle"] /\ ex' = [ex EXCEPT ![p] = NoExecution]
      /\ live' = [live EXCEPT ![p] = TRUE] /\ UNCHANGED <<deployment, row>>
  BY DEF Release, Crash, world, store
<1>2. budget' \in Budgets
  BY DEF Release, Crash, DraftInv, Budgets
<1>3. \A q \in Procs : q # p => live'[q] = live[q]
  BY <1>1 DEF ExecInv, Types, LeaseTypes
<1>4. Draft(N, "idle", NoExecution, row, live'[p])
  BY NoDraft
<1>5. QED
  BY <1>1, <1>2, <1>3, <1>4, DraftMoves

\* No process moves; a context may be canceled.
LEMMA DraftStays ==
    ASSUME ExecInv, DraftInv, UNCHANGED <<deployment, row, pc, ex>>, budget' \in Budgets,
           \A p \in Procs : live'[p] \in {live[p], FALSE}
    PROVE  DraftInv'
<1>1. N' = N
  BY SameWorkflow
<1>2. ASSUME NEW p \in Procs PROVE Draft(N, pc[p], ex[p], row, live'[p])
  <2>1. Draft(N, pc[p], ex[p], row, live[p])
    BY DEF DraftInv
  <2>2. CASE live'[p] = live[p]
    BY <2>1, <2>2
  <2>3. CASE live'[p] = FALSE
    BY <2>1, <2>3, DraftOff
  <2>4. QED
    BY <2>2, <2>3
<1>3. OpenRow'
  BY <1>1 DEF DraftInv, OpenRow
<1>4. \A p \in Procs : Draft(N', pc'[p], ex'[p], row', live'[p])
  BY <1>1, <1>2
<1>5. QED
  BY <1>3, <1>4 DEF DraftInv

LEMMA QuietDraft ==
    ASSUME ExecInv, FlightInv, DraftInv,
           \/ UNCHANGED vars \/ Tick \/ \E id \in DOMAIN approvals : Decide(id)
           \/ \E p \in Procs : Renew(p) \/ LeaseLost(p) \/ Shutdown(p)
    PROVE  DraftInv'
<1>1. UNCHANGED <<deployment, row, pc, ex>>
  BY DEF vars, Tick, Decide, Renew, LeaseLost, Shutdown, world, store, locals, history
<1>2. budget' \in Budgets
  BY DEF vars, Tick, Decide, Renew, LeaseLost, Shutdown, locals, DraftInv, Budgets
<1>3. live \in [Procs -> BOOLEAN]
  BY DEF ExecInv, Types, LeaseTypes
<1>4. \A p \in Procs : live'[p] \in {live[p], FALSE}
  <2>1. CASE live' = live
    BY <2>1
  <2>2. CASE \E p \in Procs : live' = [live EXCEPT ![p] = FALSE]
    BY <1>3, <2>2
  <2>3. QED
    BY <2>1, <2>2 DEF vars, Tick, Decide, Renew, LeaseLost, Shutdown, locals
<1>5. QED
  BY <1>1, <1>2, <1>4, DraftStays

LEMMA InitDraft ==
    ASSUME Init
    PROVE  DraftInv
<1>1. deployment \in Deployment /\ deployment \in Deployments
  BY DeploymentsAssumption DEF Init
<1>2. budget \in Budgets
  BY <1>1 DEF Init, Deployment, Budgets
<1>3. \A p \in Procs : Draft(N, pc[p], ex[p], row, live[p])
  BY DEF Init, Draft
<1>4. OpenRow
  <2>1. N \in Nat \ {0} /\ Steps = 1 .. N
    BY <1>1, WorkflowType
  <2>2. /\ row.next = 1 /\ row.status = "running"
        /\ row.steps = [i \in Steps |-> [status |-> "pending", attempts |-> 0]]
    BY DEF Init, NoExecution
  <2>3. row.steps[1].status = "pending"
    BY <2>1, <2>2
  <2>4. QED
    BY <2>2, <2>3 DEF OpenRow, OpenDoc, TerminalStatus
<1>5. QED
  BY <1>2, <1>3, <1>4 DEF DraftInv

LEMMA NextDraft ==
    ASSUME ExecInv, FlightInv, DraftInv, [Next]_vars
    PROVE  DraftInv'
<1>1. CASE \/ UNCHANGED vars \/ Tick \/ \E id \in DOMAIN approvals : Decide(id)
           \/ \E p \in Procs : Renew(p) \/ LeaseLost(p) \/ Shutdown(p)
  BY <1>1, QuietDraft
<1>2. ASSUME NEW p \in Procs, Enter(p) PROVE DraftInv'
  BY <1>2, ExecuteDraft, EntersDraft DEF Enter
<1>3. ASSUME NEW p \in Procs, Continue(p) PROVE DraftInv'
  <2>1. CASE Acquire(p) \/ ResumeClaimed(p) \/ PreflightFault(p) \/ PreCallFault(p)
             \/ ResumeInterrupted(p) \/ Resume(p)
    BY <2>1, AcquireDraft, ResumeClaimedDraft, FaultDraft, ResumeInterruptedDraft, ResumeDraft
  <2>2. CASE ExpirePending(p) \/ Cancel(p) \/ ExpireExecution(p)
    BY <2>2, ExpirePendingDraft, CancelDraft
  <2>3. CASE Reject(p) \/ Fail(p) \/ CancelCheckpoint(p) \/ RunFinish(p)
             \/ SaveIncomplete(p) \/ RecoverClosed(p)
    BY <2>3, ClosingDraft
  <2>4. CASE RunExpired(p) \/ RunAborted(p) \/ Refuse(p) \/ Proceed(p) \/ ToolRetries(p)
    BY <2>4, LoopDraft, TryDraft
  <2>5. CASE RunSkip(p) \/ CompleteStep(p) \/ RecoverCompleted(p)
             \/ RunStart(p) \/ RecoverNotRun(p)
    BY <2>5, PassDraft, StartDraft
  <2>6. CASE AwaitApproval(p) \/ Attempt(p) \/ CallTool(p) \/ RecordResult(p) \/ RequireRecovery(p)
    BY <2>6, StepSavesDraft
  <2>7. CASE RequestApproval(p) \/ ToolSucceeds(p) \/ ToolOutputRejected(p) \/ ToolFails(p)
    BY <2>7, RequestDraft, ToolDraft
  <2>8. CASE RecoverRefused(p) \/ Release(p)
    BY <2>8, DraftLeave, EndsDraft DEF RecoverRefused
  <2>9. QED
    BY <1>3, <2>1, <2>2, <2>3, <2>4, <2>5, <2>6, <2>7, <2>8 DEF Continue
<1>4. ASSUME NEW p \in Procs, Environment(p) PROVE DraftInv'
  BY <1>1, <1>4, EndsDraft DEF Environment
<1>5. QED
  BY <1>1, <1>2, <1>3, <1>4 DEF Next

LEMMA DraftHolds == Spec => [](ExecInv /\ FlightInv /\ DraftInv)
<1>1. Init => ExecInv /\ FlightInv /\ DraftInv
  BY InitHolds, InitFlies, InitDraft
<1>2. ExecInv /\ FlightInv /\ DraftInv /\ [Next]_vars => (ExecInv /\ FlightInv /\ DraftInv)'
  BY NextKeeps, NextFlies, NextDraft DEF Kept
<1>3. QED
  BY <1>1, <1>2, PTL DEF Spec

\* What an owner that is in an operation knows of the row.
LEMMA OwnerFacts ==
    ASSUME ExecInv, FlightInv, DraftInv, NEW p \in Procs, Owns(p), pc[p] \notin {"idle", "release"}
    PROVE  /\ ex[p] \in Doc(N) /\ row \in Doc(N) /\ N \in Nat
           /\ ex[p].rev = row.rev /\ ex[p].next = row.next /\ row.next \in 1 .. N + 1
           /\ \A i \in 1 .. N : i # row.next => ex[p].steps[i] = row.steps[i]
           /\ Settled(row) /\ row.status \in ExecutionStatus \ TerminalStatus
           /\ row.next <= N => row.steps[row.next].status \in
                 {"pending", "running", "awaiting_approval", "recovery_required"}
           /\ Current(pc[p], ex[p], row) /\ Draft(N, pc[p], ex[p], row, live[p]) /\ live[p]
           /\ DocSound(Workflow, ex[p], approvals, calls, confirmed)
<1>1. /\ ex[p] \in Doc(N) /\ row \in Doc(N) /\ N \in Nat /\ ex[p].next \in 1 .. N + 1
      /\ ValidCheckpoint(row, NoApproval) /\ Descends(N, ex[p], row)
      /\ Draft(N, pc[p], ex[p], row, live[p])
      /\ DocSound(Workflow, ex[p], approvals, calls, confirmed)
  BY DraftFacts
<1>2. ex[p].rev = row.rev /\ live[p]
  BY DEF Owns
<1>3. /\ ex[p].next = row.next /\ row.next \in 1 .. N + 1
      /\ \A i \in 1 .. N : i # row.next => ex[p].steps[i] = row.steps[i]
  BY <1>1, <1>2 DEF Descends
<1>4. Current(pc[p], ex[p], row)
  BY <1>1, <1>2 DEF Draft
<1>5. row.status \in ExecutionStatus \ TerminalStatus
  BY <1>1, <1>4 DEF Current, Doc
<1>6. Settled(row)
  BY <1>1 DEF ValidCheckpoint, Settled, NoApproval
<1>7. row.next <= N => row.steps[row.next].status \in
         {"pending", "running", "awaiting_approval", "recovery_required"}
  <2>1. OpenDoc(N, row) /\ Ordered(N, row)
    BY <1>5 DEF DraftInv, OpenRow, FlightInv, CopyInv
  <2>2. row.next <= N => row.next \in 1 .. N
    BY <1>1, <1>3
  <2>3. row.next <= N => row.steps[row.next].status \in StepStatus
    BY <1>1, <2>2 DEF Doc
  <2>4. QED
    BY <2>1, <2>3 DEF OpenDoc, Ordered, StepStatus, Finished
<1>8. QED
  BY <1>1, <1>2, <1>3, <1>4, <1>5, <1>6, <1>7

\* The store takes a document that changes the next step of the row as it allows.
LEMMA StoreTakes ==
    ASSUME NEW n \in Nat, NEW r \in Doc(n), NEW d \in Doc(n),
           d.rev = r.rev, r.status \notin TerminalStatus, Settled(d),
           AllowedExecutionTransition(r.status, d.status),
           d.next \in {r.next, r.next + 1},
           \A i \in 1 .. n : i # r.next =>
              /\ d.steps[i].status = r.steps[i].status
              /\ d.steps[i].attempts = r.steps[i].attempts,
           r.next <= n =>
              /\ AllowedStepTransition(r.steps[r.next].status, d.steps[r.next].status)
              /\ d.steps[r.next].attempts >= r.steps[r.next].attempts
    PROVE  ValidUpdate(r, d) /\ ValidCheckpoint(d, NoApproval)
<1>1. /\ r.steps \in [1 .. n -> [status : StepStatus, attempts : Nat]]
      /\ d.steps \in [1 .. n -> [status : StepStatus, attempts : Nat]]
      /\ d.status \in ExecutionStatus /\ d.next \in 1 .. n + 1 /\ r.next \in 1 .. n + 1
  BY DEF Doc
<1>2. DOMAIN r.steps = 1 .. n /\ DOMAIN d.steps = 1 .. n /\ Len(d.steps) = n
  BY <1>1
<1>3. ASSUME NEW i \in 1 .. n
      PROVE  /\ d.steps[i].attempts >= r.steps[i].attempts
             /\ AllowedStepTransition(r.steps[i].status, d.steps[i].status)
             /\ d.steps[i].status \in StepStatus
  <2>1. /\ r.steps[i].attempts \in Nat /\ d.steps[i].status \in StepStatus
    BY <1>1
  <2>2. CASE i = r.next
    BY <2>1, <2>2
  <2>3. CASE i # r.next
    BY <2>1, <2>3 DEF AllowedStepTransition
  <2>4. QED
    BY <2>2, <2>3
<1>4. ValidUpdate(r, d)
  BY <1>2, <1>3 DEF ValidUpdate
<1>5. ValidCheckpoint(d, NoApproval)
  BY <1>1, <1>2, <1>3 DEF ValidCheckpoint, Settled, NoApproval
<1>6. QED
  BY <1>4, <1>5

\* The owner saves such a document: the row has a new revision, unless the
\* storage fails.
LEMMA OwnerSaves ==
    ASSUME DraftInv, NEW p \in Procs, Owns(p), NEW d \in Doc(N), NEW detached, NEW onOk, NEW onErr,
           Save(p, d, detached, onOk, onErr), budget' = budget,
           ValidUpdate(row, d), ValidCheckpoint(d, NoApproval)
    PROVE  row'.rev = row.rev + 1
<1>1. Accepts(p, d) /\ live[p] /\ d.rev = row.rev
  BY DEF Owns, Accepts, UpdatePermitted, ValidUpdate
<1>2. budget.faults \in Nat /\ DOMAIN budget = {"crashes", "faults", "decisions", "shutdowns"}
  BY DEF DraftInv, Budgets
<1>3. budget # [budget EXCEPT !.faults = @ - 1]
  BY <1>2
<1>4. row' = [d EXCEPT !.rev = @ + 1]
  BY <1>1, <1>3 DEF Save
<1>5. QED
  BY <1>1, <1>4 DEF Doc

\* What the store allows of an execution and of a step that are open.
LEMMA OpenMoves ==
    /\ \A st \in ExecutionStatus \ TerminalStatus :
          /\ \A closed \in {"failed", "canceled", st} : AllowedExecutionTransition(st, closed)
          /\ st # "awaiting_approval" => AllowedExecutionTransition(st, "recovery_required")
          /\ st # "recovery_required" => AllowedExecutionTransition(st, "awaiting_approval")
    /\ \A s \in {"pending", "running", "awaiting_approval", "recovery_required"} :
          \A closed \in {"failed", "canceled", s} : AllowedStepTransition(s, closed)
    /\ \A s \in {"awaiting_approval", "recovery_required", "completed"} :
          AllowedStepTransition("running", s)
BY DEF ExecutionStatus, TerminalStatus, AllowedExecutionTransition, ExecutionSuccessors,
       AllowedStepTransition, StepSuccessors

-----------------------------------------------------------------------------
\* Each save of the owner

LEMMA OwnerFails ==
    ASSUME ExecInv, FlightInv, DraftInv, NEW p \in Procs, Owns(p), budget' = budget,
           \/ Reject(p)
           \/ /\ Fail(p) /\ ex[p].pending = 0
              /\ RunOf(ex[p]).attempts >= RunOf(row).attempts
    PROVE  row'.rev = row.rev + 1
<1>1. pc[p] \in {"reject", "fail"} /\ pc[p] \notin {"idle", "release"}
  BY DEF Reject, Fail
<1> DEFINE w == Failed(ex[p])
           d == [w EXCEPT !.pending = 0]
<1>2. /\ ex[p] \in Doc(N) /\ row \in Doc(N) /\ N \in Nat
      /\ ex[p].rev = row.rev /\ ex[p].next = row.next /\ row.next \in 1 .. N + 1
      /\ \A i \in 1 .. N : i # row.next => ex[p].steps[i] = row.steps[i]
      /\ row.status \in ExecutionStatus \ TerminalStatus
      /\ row.next <= N => row.steps[row.next].status \in
            {"pending", "running", "awaiting_approval", "recovery_required"}
      /\ Current(pc[p], ex[p], row) /\ Draft(N, pc[p], ex[p], row, live[p])
  BY <1>1, OwnerFacts
<1>3. "failed" \in StepStatus /\ "failed" \in ExecutionStatus
  BY DEF StepStatus, ExecutionStatus
<1>4. /\ w \in Doc(N) /\ w.rev = ex[p].rev /\ w.next = ex[p].next
      /\ w.status = "failed" /\ w.pending = ex[p].pending
      /\ \A i \in 1 .. N :
            /\ w.steps[i].status = IF i = ex[p].next THEN "failed" ELSE ex[p].steps[i].status
            /\ w.steps[i].attempts = ex[p].steps[i].attempts
  BY <1>2, <1>3, StepShape DEF Failed
<1>5. d = [w EXCEPT !.pending = 0]
  OBVIOUS
<1> HIDE DEF w, d
<1>6. /\ d \in Doc(N) /\ d.rev = w.rev /\ d.next = w.next /\ d.status = w.status
      /\ d.pending = 0 /\ d.steps = w.steps
  BY <1>4, <1>5 DEF Doc
<1>7. row.next <= N => row.next \in 1 .. N /\ d.steps[row.next].attempts >= row.steps[row.next].attempts
  <2>1. CASE Reject(p)
    <3>1. ex[p] = row
      BY <1>2, <2>1, LabelKinds DEF Current, Reject
    <3>2. row.next <= N => row.next \in 1 .. N /\ row.steps[row.next].attempts \in Nat
      BY <1>2 DEF Doc
    <3>3. QED
      BY <1>2, <1>4, <1>6, <3>1, <3>2
  <2>2. CASE Fail(p) /\ RunOf(ex[p]).attempts >= RunOf(row).attempts
    BY <1>2, <1>4, <1>6, <2>2 DEF RunOf
  <2>3. QED
    BY <2>1, <2>2
<1>8. Settled(d)
  BY <1>4, <1>6 DEF Settled
<1>9. /\ AllowedExecutionTransition(row.status, d.status)
      /\ row.next <= N => AllowedStepTransition(row.steps[row.next].status, d.steps[row.next].status)
  BY <1>2, <1>4, <1>6, <1>7, OpenMoves
<1>10. \A i \in 1 .. N : i # row.next =>
          d.steps[i].status = row.steps[i].status /\ d.steps[i].attempts = row.steps[i].attempts
  BY <1>2, <1>4, <1>6
<1>11. ValidUpdate(row, d) /\ ValidCheckpoint(d, NoApproval)
  BY <1>2, <1>4, <1>6, <1>7, <1>8, <1>9, <1>10, StoreTakes
<1>12. \E detached \in BOOLEAN : Save(p, d, detached, "release", "release")
  <2>1. CASE Reject(p)
    BY <2>1 DEF Reject, Saves, NoApproval, d, w
  <2>2. CASE Fail(p) /\ ex[p].pending = 0
    <3>1. d = w
      BY <1>4, <1>5, <2>2 DEF Doc
    <3>2. Save(p, w, TRUE, "release", "release")
      BY <2>2 DEF Fail, Saves, w
    <3>3. QED
      BY <3>1, <3>2
  <2>3. QED
    BY <2>1, <2>2
<1>13. QED
  BY <1>6, <1>11, <1>12, OwnerSaves

LEMMA OwnerCancels ==
    ASSUME ExecInv, FlightInv, DraftInv, NEW p \in Procs, Owns(p), budget' = budget,
           CancelCheckpoint(p)
    PROVE  row'.rev = row.rev + 1
<1>1. pc[p] \in {"cancel_save", "run_cancel_save"} /\ pc[p] \notin {"idle", "release"}
  BY DEF CancelCheckpoint
<1> DEFINE d == Canceled(ex[p])
<1>2. /\ ex[p] \in Doc(N) /\ row \in Doc(N) /\ N \in Nat
      /\ ex[p].rev = row.rev /\ ex[p].next = row.next /\ row.next \in 1 .. N + 1
      /\ row.status \in ExecutionStatus \ TerminalStatus
      /\ row.next <= N => row.steps[row.next].status \in
            {"pending", "running", "awaiting_approval", "recovery_required"}
      /\ Current(pc[p], ex[p], row) /\ Draft(N, pc[p], ex[p], row, live[p]) /\ live[p]
      /\ DocSound(Workflow, ex[p], approvals, calls, confirmed)
  BY <1>1, OwnerFacts
<1>3. ex[p].pending = 0 /\ ex[p].steps = row.steps
  BY <1>1, <1>2 DEF Draft, Current
<1>4. /\ d \in Doc(N) /\ d.rev = ex[p].rev /\ d.next = ex[p].next
      /\ d.status = "canceled" /\ d.pending = ex[p].pending
      /\ \A i \in 1 .. N :
            /\ d.steps[i].status \in {row.steps[i].status, "canceled"}
            /\ d.steps[i].status = row.steps[i].status
               \/ row.steps[i].status \in {"pending", "running", "awaiting_approval",
                                           "recovery_required"}
            /\ d.steps[i].attempts = row.steps[i].attempts
  BY <1>2, <1>3, CanceledShape
<1>5. \E detached \in BOOLEAN : Save(p, d, detached, "release", "release")
  BY DEF CancelCheckpoint, Saves
<1> HIDE DEF d
<1>6. Settled(d)
  BY <1>3, <1>4 DEF Settled
<1>7. DOMAIN row.steps = 1 .. N /\ DOMAIN d.steps = 1 .. N /\ Len(d.steps) = N
      /\ \A i \in 1 .. N : d.steps[i].status \in StepStatus /\ row.steps[i].attempts \in Nat
  <2>1. d.steps \in [1 .. N -> [status : StepStatus, attempts : Nat]]
        /\ row.steps \in [1 .. N -> [status : StepStatus, attempts : Nat]]
    BY <1>2, <1>4 DEF Doc
  <2>2. QED
    BY <1>2, <2>1
<1>8. AllowedExecutionTransition(row.status, d.status)
  BY <1>2, <1>4, OpenMoves
<1>9. \A i \in 1 .. N :
        /\ d.steps[i].attempts >= row.steps[i].attempts
        /\ AllowedStepTransition(row.steps[i].status, d.steps[i].status)
  <2> SUFFICES ASSUME NEW i \in 1 .. N
      PROVE  /\ d.steps[i].attempts >= row.steps[i].attempts
             /\ AllowedStepTransition(row.steps[i].status, d.steps[i].status)
    OBVIOUS
  <2>1. d.steps[i].attempts >= row.steps[i].attempts
    BY <1>4, <1>7
  <2>2. CASE d.steps[i].status = row.steps[i].status
    BY <2>1, <2>2 DEF AllowedStepTransition
  <2>3. CASE d.steps[i].status # row.steps[i].status
    BY <1>4, <2>1, <2>3, OpenMoves
  <2>4. QED
    BY <2>2, <2>3
<1>10. ValidUpdate(row, d)
  BY <1>2, <1>4, <1>7, <1>8, <1>9 DEF ValidUpdate
<1>11. ValidCheckpoint(d, NoApproval)
  BY <1>2, <1>4, <1>6, <1>7 DEF ValidCheckpoint, Settled, NoApproval, Doc
<1>12. QED
  BY <1>4, <1>5, <1>10, <1>11, OwnerSaves

\* The row itself, saved once more or with another attempt number.
LEMMA OwnerRepeats ==
    ASSUME ExecInv, FlightInv, DraftInv, NEW p \in Procs, Owns(p), budget' = budget,
           \/ SaveIncomplete(p) \/ CallTool(p) \/ RecordResult(p)
           \/ Attempt(p) /\ ~(try[p] < RunOf(row).attempts)
    PROVE  row'.rev = row.rev + 1
<1>1. pc[p] \in {"save_incomplete", "called", "record", "attempt"}
      /\ pc[p] \notin {"idle", "release"} /\ pc[p] \notin EditedLabels
  BY LabelKinds DEF SaveIncomplete, CallTool, RecordResult, Attempt
<1>2. /\ row \in Doc(N) /\ N \in Nat /\ row.next \in 1 .. N + 1 /\ Settled(row)
      /\ row.status \in ExecutionStatus \ TerminalStatus
      /\ Current(pc[p], ex[p], row)
  BY <1>1, OwnerFacts
<1>3. ex[p] = row
  BY <1>1, <1>2 DEF Current
<1>4. ASSUME NEW d \in Doc(N), NEW detached, NEW onOk, NEW onErr,
             Save(p, d, detached, onOk, onErr),
             d.rev = row.rev, d.next = row.next, d.status = row.status, d.pending = row.pending,
             \A i \in 1 .. N :
                /\ d.steps[i].status = row.steps[i].status
                /\ i # row.next => d.steps[i].attempts = row.steps[i].attempts
                /\ i = row.next => d.steps[i].attempts >= row.steps[i].attempts
      PROVE  row'.rev = row.rev + 1
  <2>1. Settled(d) /\ AllowedExecutionTransition(row.status, d.status)
    BY <1>2, <1>4 DEF Settled, AllowedExecutionTransition
  <2>2. row.next <= N =>
          /\ AllowedStepTransition(row.steps[row.next].status, d.steps[row.next].status)
          /\ d.steps[row.next].attempts >= row.steps[row.next].attempts
    BY <1>2, <1>4 DEF AllowedStepTransition
  <2>3. ValidUpdate(row, d) /\ ValidCheckpoint(d, NoApproval)
    BY <1>2, <1>4, <2>1, <2>2, StoreTakes
  <2>4. QED
    BY <1>4, <2>3, OwnerSaves
<1>5. CASE SaveIncomplete(p) \/ CallTool(p) \/ RecordResult(p)
  <2>1. \E detached \in BOOLEAN, onOk, onErr \in Labels : Save(p, row, detached, onOk, onErr)
    BY <1>3, <1>5 DEF SaveIncomplete, CallTool, RecordResult, Saves, Labels
  <2>2. \A i \in 1 .. N : row.steps[i].attempts \in Nat
    BY <1>2 DEF Doc
  <2>3. \A i \in 1 .. N : row.steps[i].attempts >= row.steps[i].attempts
    BY <2>2
  <2>4. QED
    BY <1>2, <1>4, <2>1, <2>3
<1>6. CASE Attempt(p) /\ ~(try[p] < RunOf(row).attempts)
  <2> DEFINE d == [row EXCEPT !.steps[row.next].attempts = try[p]]
  <2>1. pc[p] = "attempt" /\ Save(p, d, FALSE, "called", "fail")
    BY <1>3, <1>6 DEF Attempt, Saves
  <2>2. try[p] \in Nat /\ row.next \in 1 .. N
    BY <1>3, <2>1, LabelKinds, Busy DEF ExecInv, Types, LeaseTypes
  <2>3. /\ d \in Doc(N) /\ d.rev = row.rev /\ d.next = row.next
        /\ d.status = row.status /\ d.pending = row.pending
        /\ \A i \in 1 .. N :
              /\ d.steps[i].status = row.steps[i].status
              /\ d.steps[i].attempts = IF i = row.next THEN try[p] ELSE row.steps[i].attempts
    BY <1>2, <2>2, AttemptShape
  <2> HIDE DEF d
  <2>4. row.steps[row.next].attempts \in Nat
    BY <1>2, <2>2 DEF Doc
  <2>5. try[p] >= row.steps[row.next].attempts
    BY <1>6, <2>2, <2>4 DEF RunOf
  <2>6. QED
    BY <1>4, <2>1, <2>3, <2>5
<1>7. QED
  BY <1>5, <1>6

\* The step is passed, handed to recovery or to an approver.
LEMMA OwnerMovesOn ==
    ASSUME ExecInv, FlightInv, DraftInv, NEW p \in Procs, Owns(p), budget' = budget,
           \/ CompleteStep(p) \/ RequireRecovery(p)
           \/ AwaitApproval(p) /\ row.status # "recovery_required"
    PROVE  row'.rev = row.rev + 1
<1>1. pc[p] \in {"complete", "recovery", "await"} /\ pc[p] \notin {"idle", "release"}
  BY DEF CompleteStep, RequireRecovery, AwaitApproval
<1>2. /\ ex[p] \in Doc(N) /\ row \in Doc(N) /\ N \in Nat
      /\ ex[p].rev = row.rev /\ ex[p].next = row.next /\ row.next \in 1 .. N + 1
      /\ \A i \in 1 .. N : i # row.next => ex[p].steps[i] = row.steps[i]
      /\ Settled(row) /\ row.status \in ExecutionStatus \ TerminalStatus
      /\ Current(pc[p], ex[p], row) /\ Draft(N, pc[p], ex[p], row, live[p])
  BY <1>1, OwnerFacts
<1>3. /\ row.next \in 1 .. N /\ row.steps[row.next].status = "running"
      /\ row.steps[row.next].attempts \in Nat
      /\ ex[p].steps[row.next].attempts = row.steps[row.next].attempts
      /\ pc[p] # "await" => ex[p] = row /\ ex[p].pending = 0
  <2>1. CASE pc[p] = "await"
    BY <1>2, <2>1 DEF Draft, Current, Doc
  <2>2. CASE pc[p] # "await"
    <3>1. pc[p] \in BusyLabels /\ pc[p] \notin EditedLabels
      BY <1>1, <2>2, LabelKinds
    <3>2. ex[p] = row
      BY <1>2, <3>1 DEF Current
    <3>3. row.next \in 1 .. N /\ row.steps[row.next].status = "running" /\ ex[p].pending = 0
      BY <1>1, <2>2, <3>1, <3>2, Busy
    <3>4. QED
      BY <1>2, <3>2, <3>3 DEF Doc
  <2>3. QED
    BY <2>1, <2>2
<1>4. ASSUME NEW d \in Doc(N), NEW detached, NEW onOk, NEW onErr,
             Save(p, d, detached, onOk, onErr),
             d.rev = row.rev, d.next \in {row.next, row.next + 1}, Settled(d),
             AllowedExecutionTransition(row.status, d.status),
             d.steps[row.next].status \in {"awaiting_approval", "recovery_required", "completed"},
             \A i \in 1 .. N :
                /\ i # row.next => d.steps[i].status = row.steps[i].status
                /\ d.steps[i].attempts = row.steps[i].attempts
      PROVE  row'.rev = row.rev + 1
  <2>1. /\ AllowedStepTransition(row.steps[row.next].status, d.steps[row.next].status)
        /\ d.steps[row.next].attempts >= row.steps[row.next].attempts
    BY <1>3, <1>4, OpenMoves
  <2>2. ValidUpdate(row, d) /\ ValidCheckpoint(d, NoApproval)
    BY <1>2, <1>4, <2>1, StoreTakes
  <2>3. QED
    BY <1>4, <2>2, OwnerSaves
<1>5. CASE CompleteStep(p)
  <2> DEFINE w == Passed(row, "completed")
             d == [w EXCEPT !.status = row.status]
  <2>1. ex[p] = row /\ Save(p, w, FALSE, "run", "release")
    <3>1. pc[p] = "complete" /\ Save(p, Passed(ex[p], "completed"), FALSE, "run", "release")
      BY <1>5 DEF CompleteStep, Saves
    <3>2. ex[p] = row
      BY <1>3, <3>1
    <3>3. QED
      BY <3>1, <3>2
  <2>2. "completed" \in Finished /\ "completed" \in StepStatus
    BY DEF Finished, StepStatus
  <2>3. w \in Doc(N) /\ w.status = row.status
    BY <1>2, <1>3, <2>2, PassedFacts
  <2>4. d = w
    BY <1>2, <2>3, SameShape
  <2>5. /\ d \in Doc(N) /\ d.rev = row.rev /\ d.next = row.next + 1
        /\ d.status = row.status /\ d.pending = row.pending
        /\ \A i \in 1 .. N :
              /\ d.steps[i].status = IF i = row.next THEN "completed" ELSE row.steps[i].status
              /\ d.steps[i].attempts = row.steps[i].attempts
    BY <1>2, <1>3, <2>2, PassedShape
  <2> HIDE DEF w, d
  <2>6. Settled(d) /\ AllowedExecutionTransition(row.status, d.status)
    BY <1>2, <2>5 DEF Settled, AllowedExecutionTransition
  <2>7. Save(p, d, FALSE, "run", "release")
    BY <2>1, <2>4
  <2>8. QED
    BY <1>3, <1>4, <2>5, <2>6, <2>7
<1>6. CASE RequireRecovery(p)
  <2> DEFINE d == RecoveryRequired(row)
  <2>1. ex[p] = row /\ row.pending = 0 /\ Save(p, d, TRUE, "save_incomplete", "fail")
    <3>1. /\ pc[p] = "recovery"
          /\ Save(p, RecoveryRequired(ex[p]), TRUE, "save_incomplete", "fail")
      BY <1>6 DEF RequireRecovery, Saves
    <3>2. ex[p] = row /\ ex[p].pending = 0
      BY <1>3, <3>1
    <3>3. QED
      BY <3>1, <3>2
  <2>2. "recovery_required" \in StepStatus /\ "recovery_required" \in ExecutionStatus
    BY DEF StepStatus, ExecutionStatus
  <2>3. /\ d \in Doc(N) /\ d.rev = row.rev /\ d.next = row.next
        /\ d.status = "recovery_required" /\ d.pending = row.pending
        /\ \A i \in 1 .. N :
              /\ d.steps[i].status = IF i = row.next THEN "recovery_required"
                                     ELSE row.steps[i].status
              /\ d.steps[i].attempts = row.steps[i].attempts
    BY <1>2, <2>2, StepShape DEF RecoveryRequired
  <2> HIDE DEF d
  <2>4. row.status # "awaiting_approval"
    BY <1>2, <2>1 DEF Settled
  <2>5. Settled(d) /\ AllowedExecutionTransition(row.status, d.status)
    BY <1>2, <2>1, <2>3, <2>4, OpenMoves DEF Settled
  <2>6. QED
    BY <1>3, <1>4, <2>1, <2>3, <2>5
<1>7. CASE AwaitApproval(p) /\ row.status # "recovery_required"
  <2>1. pc[p] = "await" /\ Save(p, ex[p], FALSE, "save_incomplete", "fail")
    BY <1>7 DEF AwaitApproval, Saves
  <2>2. /\ ex[p].status = "awaiting_approval" /\ ex[p].pending # 0
        /\ ex[p].steps[row.next].status = "awaiting_approval"
    BY <1>2, <2>1 DEF Draft
  <2>3. Settled(ex[p]) /\ AllowedExecutionTransition(row.status, ex[p].status)
    BY <1>2, <1>7, <2>2, OpenMoves DEF Settled
  <2>4. QED
    BY <1>2, <1>3, <1>4, <2>1, <2>2, <2>3
<1>8. QED
  BY <1>5, <1>6, <1>7

\* A step of an operation moves no other.
LEMMA OwnMoves ==
    ASSUME NEW q, NEW p, p # q, p \in DOMAIN pc,
           Enter(q) \/ Continue(q) \/ Environment(q)
    PROVE  pc'[p] = pc[p]
<1>1. ASSUME NEW label, pc' = [pc EXCEPT ![q] = label] PROVE pc'[p] = pc[p]
  BY <1>1
<1>2. CASE Enter(q)
  BY <1>1, <1>2 DEF Enter, Execute, ResumeStored, RunOnce, CancelCall, RecoverCall
<1>3. ASSUME NEW d, NEW detached, NEW onOk, NEW onErr,
             Save(q, d, detached, onOk, onErr)
      PROVE  pc'[p] = pc[p]
  BY <1>1, <1>3, SaveCases
<1>4. CASE Continue(q)
  <2>1. CASE Acquire(q) \/ ResumeClaimed(q) \/ PreflightFault(q) \/ ExpirePending(q)
             \/ Cancel(q) \/ ExpireExecution(q) \/ RunExpired(q) \/ RunAborted(q)
    BY <1>1, <2>1 DEF Acquire, ResumeClaimed, PreflightFault, ExpirePending, Cancel,
                      ExpireExecution, CloseApproval, RunExpired, RunAborted, Goto
  <2>2. CASE Refuse(q) \/ PreCallFault(q) \/ Proceed(q) \/ RequestApproval(q)
             \/ ToolSucceeds(q) \/ ToolOutputRejected(q) \/ ToolFails(q) \/ ToolRetries(q)
             \/ RecoverRefused(q) \/ Release(q)
    BY <1>1, <2>2 DEF Refuse, PreCallFault, Proceed, RequestApproval, ToolSucceeds,
                      ToolOutputRejected, ToolFails, ToolRetries, RecoverRefused, Release, Goto
  <2>3. CASE ResumeInterrupted(q) \/ Resume(q)
    BY <1>1, <1>3, <2>3 DEF ResumeInterrupted, Resume, Saves, Goto
  <2>4. CASE Reject(q) \/ CancelCheckpoint(q) \/ RunSkip(q) \/ RunStart(q) \/ RunFinish(q)
             \/ AwaitApproval(q) \/ SaveIncomplete(q) \/ Attempt(q) \/ CallTool(q)
    BY <1>3, <2>4 DEF Reject, CancelCheckpoint, RunSkip, RunStart, RunFinish, AwaitApproval,
                      SaveIncomplete, Attempt, CallTool, Saves
  <2>5. CASE RecordResult(q) \/ RequireRecovery(q) \/ CompleteStep(q) \/ Fail(q)
             \/ RecoverCompleted(q) \/ RecoverNotRun(q) \/ RecoverClosed(q)
    BY <1>3, <2>5 DEF RecordResult, RequireRecovery, CompleteStep, Fail, RecoverCompleted,
                      RecoverNotRun, RecoverClosed, Saves
  <2>6. QED
    BY <1>4, <2>1, <2>2, <2>3, <2>4, <2>5 DEF Continue
<1>5. CASE Environment(q)
  BY <1>1, <1>5 DEF Environment, Renew, LeaseLost, Shutdown, Crash, locals
<1>6. QED
  BY <1>2, <1>4, <1>5

\* What moves a process that is about to save, if nothing fails around it.
LEMMA SavesOfLabels ==
    ASSUME ExecInv, DraftInv, NEW p \in Procs, pc[p] \in SavingLabels, pc'[p] # pc[p],
           budget' = budget, [Next]_vars
    PROVE  \/ Reject(p) \/ CancelCheckpoint(p) \/ AwaitApproval(p) \/ SaveIncomplete(p)
           \/ Attempt(p) \/ CallTool(p) \/ RecordResult(p) \/ RequireRecovery(p)
           \/ CompleteStep(p) \/ Fail(p)
<1>1. p \in DOMAIN pc
  BY DEF ExecInv, Types
<1>2. ~UNCHANGED vars /\ ~Tick /\ \A id \in DOMAIN approvals : ~Decide(id)
  BY DEF vars, Tick, Decide, locals
<1>3. Enter(p) \/ Continue(p) \/ Environment(p)
  BY <1>1, <1>2, OwnMoves DEF Next
<1>4. ~Enter(p)
  BY DEF Enter, Execute, ResumeStored, RunOnce, CancelCall, RecoverCall, SavingLabels
<1>5. budget # [budget EXCEPT !.crashes = @ - 1] /\ budget # [budget EXCEPT !.faults = @ - 1]
  BY DEF DraftInv, Budgets
<1>6. ~Environment(p)
  BY <1>5 DEF Environment, Renew, LeaseLost, Shutdown, Crash, locals
<1>7. ~PreflightFault(p) /\ ~PreCallFault(p)
  BY <1>5 DEF PreflightFault, PreCallFault
<1>8. /\ ~Acquire(p) /\ ~ResumeClaimed(p) /\ ~ResumeInterrupted(p) /\ ~Resume(p)
      /\ ~ExpirePending(p) /\ ~Cancel(p) /\ ~ExpireExecution(p) /\ ~RunExpired(p)
      /\ ~RunAborted(p) /\ ~RunSkip(p) /\ ~RunStart(p) /\ ~RunFinish(p)
  BY DEF Acquire, AcquireTargets, ResumeClaimed, ResumeInterrupted, Resume, ExpirePending, Cancel,
         ExpireExecution, RunExpired, RunAborted, RunSkip, RunStart, RunFinish, Continues,
         AtLoopTop, SavingLabels
<1>9. /\ ~Refuse(p) /\ ~Proceed(p) /\ ~RequestApproval(p) /\ ~ToolSucceeds(p)
      /\ ~ToolOutputRejected(p) /\ ~ToolFails(p) /\ ~ToolRetries(p)
      /\ ~RecoverRefused(p) /\ ~RecoverCompleted(p) /\ ~RecoverNotRun(p) /\ ~RecoverClosed(p)
      /\ ~Release(p)
  BY DEF Refuse, Proceed, RequestApproval, ToolSucceeds, ToolOutputRejected, ToolFails,
         ToolRetries, RecoverRefused, RecoverCompleted, RecoverNotRun, RecoverClosed, Release,
         SavingLabels
<1>10. Continue(p)
  BY <1>3, <1>4, <1>6
<1>11. QED
  BY <1>7, <1>8, <1>9, <1>10 DEF Continue

LEMMA OwnerSavesOrRefusable ==
    ASSUME ExecInv, FlightInv, DraftInv, [Next]_vars, NEW p \in Procs,
           pc[p] \in SavingLabels, Owns(p), pc'[p] # pc[p], budget' = budget
    PROVE  row'.rev = row.rev + 1 \/ Refusable(p)
<1>1. CASE Reject(p)
  BY <1>1, OwnerFails
<1>2. CASE Fail(p)
  <2>1. pc[p] = "fail" /\ pc[p] \notin {"idle", "release"}
    BY <1>2 DEF Fail
  <2>2. /\ ex[p] \in Doc(N) /\ row \in Doc(N) /\ ex[p].next = row.next /\ row.next \in 1 .. N
    BY <2>1, OwnerFacts DEF Draft
  <2>3. RunOf(ex[p]).attempts \in Nat /\ RunOf(row).attempts \in Nat
    BY <2>2 DEF RunOf, Doc
  <2>4. CASE ex[p].pending = 0 /\ RunOf(ex[p]).attempts >= RunOf(row).attempts
    BY <1>2, <2>4, OwnerFails
  <2>5. CASE ex[p].pending # 0 \/ RunOf(ex[p]).attempts < RunOf(row).attempts
    BY <2>1, <2>5 DEF Refusable, NoApproval
  <2>6. QED
    BY <2>3, <2>4, <2>5
<1>3. CASE Attempt(p)
  BY <1>3, OwnerRepeats DEF Attempt, Refusable
<1>4. CASE AwaitApproval(p)
  BY <1>4, OwnerMovesOn DEF AwaitApproval, Refusable
<1>5. CASE CancelCheckpoint(p)
  BY <1>5, OwnerCancels
<1>6. CASE SaveIncomplete(p) \/ CallTool(p) \/ RecordResult(p)
  BY <1>6, OwnerRepeats
<1>7. CASE CompleteStep(p) \/ RequireRecovery(p)
  BY <1>7, OwnerMovesOn
<1>8. QED
  BY <1>1, <1>2, <1>3, <1>4, <1>5, <1>6, <1>7, SavesOfLabels

\* What is finished stays, and the owner of the execution is refused a checkpoint
\* only in the three cases named: whatever other hosts, approvers and faults did
\* before, what an operation is about to save is what the store allows.
THEOREM OwnerIsNotLockedOut == Spec => OwnerStands
<1> DEFINE Heard ==
        \A p \in Procs :
           /\ pc[p] \in SavingLabels /\ Owns(p)
           /\ pc'[p] # pc[p] /\ budget' = budget
           => row'.rev = row.rev + 1 \/ Refusable(p)
<1>1. ExecInv /\ FlightInv /\ DraftInv /\ [Next]_vars => Heard
  BY OwnerSavesOrRefusable
<1> HIDE DEF Heard
<1>2. Spec => [][Heard]_vars
  BY <1>1, DraftHolds, PTL DEF Spec
<1>3. Spec => OwnerIsHeard
  BY <1>2 DEF Heard, OwnerIsHeard
<1>4. QED
  BY <1>3, FinishedStaysFinished DEF OwnerStands

-----------------------------------------------------------------------------
\* Calls whose outcome cannot be known

\* No fault of a store, a policy engine or a preflight ever happens.
NoFaults == deployment.budget.faults = 0

Unattended == Entries \cap {"cancel", "recover"} = {}

\* The next step of the document is none whose outcome may be unknown.
Untouched(wf, doc, cs) ==
    doc.next <= Len(wf) /\ UncertainAfterFailure(wf[doc.next]) => cs[doc.next] = 0

\* No called step of unknown outcome is filed as failed or canceled.
NothingFiled(wf, doc, cs) ==
    \A i \in 1 .. Len(wf) :
        cs[i] > 0 /\ UncertainAfterFailure(wf[i]) =>
            doc.steps[i].status \notin {"failed", "canceled"}

\* Where a process goes on to close the execution, and where it has called.
ClosingLabels ==
    {"reject", "expire_pending", "expire", "cancel_save", "run_expire", "run_cancel_save"}
DoubtLabels == {"tool", "record", "recovery", "fail"}
AttendedLabels == {"acquire_cancel", "cancel", "acquire_recover", "recover_op"}

\* The store refuses whatever a process with the claim c saves, and will.
Shut(c, l, t) == Held(l) /\ ~StillGranted(c, l, t)

\* The process with the claim c owns the execution.
Grasps(c, l, t) == Held(c) /\ StillGranted(c, l, t)

\* What each label says where nobody attends: a current document is closed only
\* if the call was not made, or in vain.
Discreet(wf, worker, label, doc, r, cs, shut) ==
    /\ label \notin AttendedLabels
    /\ label \in DOMAIN AcquireTargets => worker = NoWorker
    /\ label \in CallLabels => ~RetryForbidden(wf[doc.next])
    /\ label \in ClosingLabels /\ doc.rev = r.rev => Untouched(wf, doc, cs)
    /\ label = "fail" /\ doc.rev = r.rev => Untouched(wf, doc, cs) \/ shut

\* A current document with a call of unknown outcome.
Exposed(wf, label, doc, r, cs) ==
    label \in DoubtLabels /\ doc.rev = r.rev /\ ~Untouched(wf, doc, cs)

\* A process that has just claimed the row as it is.
Watches(label, doc, r) == label \in {"claimed", "interrupted"} /\ doc.rev = r.rev

\* A token is granted once.
TokensInv ==
    /\ lease.token <= fence
    /\ \A p \in Procs : claim[p].token <= fence
    /\ \A p, q \in Procs :
          p # q /\ Held(claim[p]) /\ Held(claim[q]) => claim[p].token # claim[q].token

\* While a call of unknown outcome is with one process, another that owns the
\* execution is about to find it in flight.
Guarded(p, q) ==
    p # q /\ Exposed(Workflow, pc[p], ex[p], row, calls) /\ Grasps(claim[q], lease, now)
       => Watches(pc[q], ex[q], row)

DoubtInv ==
    /\ budget.faults = 0
    /\ \A i \in Steps : notRun[i] = 0
    /\ TokensInv
    /\ NothingFiled(Workflow, row, calls)
    /\ \A p \in Procs :
          Discreet(Workflow, WorkerOf[p], pc[p], ex[p], row, calls, Shut(claim[p], lease, now))
    /\ \A p, q \in Procs : Guarded(p, q)

Given == SnapshotsChecked /\ NoFaults /\ Unattended
Before == ExecInv /\ FlightInv /\ DraftInv /\ Given /\ DoubtInv

-----------------------------------------------------------------------------
LEMMA DoubtFacts ==
    ASSUME Before, NEW p \in Procs
    PROVE  /\ ExecInv /\ FlightInv /\ DraftInv /\ SnapshotsChecked /\ DoubtInv /\ ReplayInv
           /\ pc \in [Procs -> Labels] /\ ex \in [Procs -> Doc(N)] /\ ex[p] \in Doc(N)
           /\ claim \in [Procs -> Lease] /\ lease \in Lease /\ fence \in Nat /\ now \in Nat
           /\ calls \in [Steps -> Nat] /\ Steps = 1 .. N /\ N = Len(Workflow) /\ N \in Nat
           /\ row \in Doc(N) /\ row.rev \in Nat /\ row.next \in 1 .. N + 1
           /\ Discreet(Workflow, WorkerOf[p], pc[p], ex[p], row, calls, Shut(claim[p], lease, now))
<1>1. /\ pc \in [Procs -> Labels] /\ ex \in [Procs -> Doc(N)] /\ row \in Doc(N)
      /\ claim \in [Procs -> Lease] /\ lease \in Lease /\ fence \in Nat /\ now \in Nat
      /\ calls \in [Steps -> Nat] /\ deployment \in Deployments
  BY DEF Before, ExecInv, Types, LeaseTypes
<1>2. Steps = 1 .. N /\ N = Len(Workflow) /\ N \in Nat
  BY <1>1, WorkflowType
<1>3. row.rev \in Nat /\ row.next \in 1 .. N + 1
  BY <1>1 DEF Doc
<1>4. ReplayInv
  BY DEF Before, Given, FlightInv
<1>5. Discreet(Workflow, WorkerOf[p], pc[p], ex[p], row, calls, Shut(claim[p], lease, now))
  BY DEF Before, DoubtInv
<1>6. ex[p] \in Doc(N)
  BY <1>1
<1>7. QED
  BY <1>1, <1>2, <1>3, <1>4, <1>5, <1>6 DEF Before, Given

\* One process moves, and neither the row nor any lease does.
LEMMA DoubtMoves ==
    ASSUME Before, NEW p \in Procs, NEW label, NEW doc,
           pc' = [pc EXCEPT ![p] = label], ex' = [ex EXCEPT ![p] = doc],
           UNCHANGED <<deployment, now, row, lease, fence, claim, calls, notRun>>,
           budget'.faults = 0,
           Discreet(Workflow, WorkerOf[p], label, doc, row, calls, Shut(claim[p], lease, now)),
           Exposed(Workflow, label, doc, row, calls) =>
              Exposed(Workflow, pc[p], ex[p], row, calls),
           Grasps(claim[p], lease, now) /\ pc[p] \in {"claimed", "interrupted"} =>
              \A q \in Procs : Exposed(Workflow, pc[q], ex[q], row, calls) =>
                 q = p \/ Watches(label, doc, row)
    PROVE  DoubtInv'
<1>1. /\ pc'[p] = label /\ ex'[p] = doc
      /\ \A q \in Procs : q # p => pc'[q] = pc[q] /\ ex'[q] = ex[q]
  BY DoubtFacts
<1>2. Workflow' = Workflow /\ Steps' = Steps /\ WorkerOf' = WorkerOf
  BY SameHosts
<1>3. TokensInv' /\ NothingFiled(Workflow', row', calls') /\ (\A i \in Steps' : notRun'[i] = 0)
  BY <1>2, DoubtFacts DEF DoubtInv, TokensInv, Before
<1>4. ASSUME NEW q \in Procs
      PROVE  Discreet(Workflow', WorkerOf'[q], pc'[q], ex'[q], row', calls', Shut(claim'[q], lease', now'))
  BY <1>1, <1>2, DoubtFacts
<1>5. ASSUME NEW q \in Procs, NEW r \in Procs PROVE Guarded(q, r)'
  <2> SUFFICES ASSUME q # r, Exposed(Workflow, pc'[q], ex'[q], row, calls),
                      Grasps(claim[r], lease, now)
               PROVE  Watches(pc'[r], ex'[r], row)
    BY <1>2 DEF Guarded
  <2>1. Exposed(Workflow, pc[q], ex[q], row, calls)
    BY <1>1
  <2>2. Watches(pc[r], ex[r], row)
    BY <2>1 DEF Before, DoubtInv, Guarded
  <2>3. CASE r # p
    BY <1>1, <2>2, <2>3
  <2>4. CASE r = p
    BY <1>1, <2>1, <2>2, <2>4 DEF Watches
  <2>5. QED
    BY <2>3, <2>4
<1>6. QED
  BY <1>3, <1>4, <1>5 DEF DoubtInv

LEMMA DoubtGoto ==
    ASSUME Before, NEW p \in Procs, NEW label, Goto(p, label),
           Discreet(Workflow, WorkerOf[p], label, ex[p], row, calls, Shut(claim[p], lease, now)),
           label \in DoubtLabels =>
              Untouched(Workflow, ex[p], calls) \/ pc[p] \in DoubtLabels \/ ex[p].rev # row.rev,
           Grasps(claim[p], lease, now) /\ pc[p] \in {"claimed", "interrupted"} =>
              \A q \in Procs : Exposed(Workflow, pc[q], ex[q], row, calls) =>
                 q = p \/ Watches(label, ex[p], row)
    PROVE  DoubtInv'
<1>1. ex' = [ex EXCEPT ![p] = ex[p]]
  BY DoubtFacts DEF Goto
<1>2. /\ pc' = [pc EXCEPT ![p] = label] /\ budget' = budget
      /\ UNCHANGED <<deployment, now, row, lease, fence, claim, calls, notRun>>
  BY DEF Goto, world, store, history
<1>3. budget'.faults = 0
  BY <1>2 DEF Before, DoubtInv
<1>4. Exposed(Workflow, label, ex[p], row, calls) => Exposed(Workflow, pc[p], ex[p], row, calls)
  BY DEF Exposed
<1>5. QED
  BY <1>1, <1>2, <1>3, <1>4, DoubtMoves

LEMMA DoubtLeaves ==
    ASSUME Before, NEW p \in Procs, Goto(p, "release"), pc[p] \notin {"claimed", "interrupted"}
    PROVE  DoubtInv'
<1>1. Discreet(Workflow, WorkerOf[p], "release", ex[p], row, calls, Shut(claim[p], lease, now))
  BY DEF Discreet, AttendedLabels, AcquireTargets, CallLabels, ClosingLabels
<1>2. "release" \notin DoubtLabels
  BY DEF DoubtLabels
<1>3. QED
  BY <1>1, <1>2, DoubtGoto

\* The store takes a document: the copies of the others are stale now.
LEMMA DoubtStores ==
    ASSUME Before, NEW p \in Procs, NEW label, NEW doc \in Doc(N), doc.rev = row.rev,
           row' = [doc EXCEPT !.rev = @ + 1],
           pc' = [pc EXCEPT ![p] = label], ex' = [ex EXCEPT ![p] = row'],
           UNCHANGED <<deployment, now, lease, fence, claim, notRun>>,
           budget'.faults = 0, calls' \in [Steps -> Nat],
           label \notin AttendedLabels \cup ClosingLabels \cup {"fail"},
           label \in DOMAIN AcquireTargets => WorkerOf[p] = NoWorker,
           label \in CallLabels => ~RetryForbidden(Workflow[doc.next]),
           label \in DoubtLabels =>
              \A q \in Procs : q # p => ~Grasps(claim[q], lease, now),
           NothingFiled(Workflow, doc, calls')
    PROVE  DoubtInv'
<1>1. /\ pc'[p] = label /\ ex'[p] = row'
      /\ \A q \in Procs : q # p => pc'[q] = pc[q] /\ ex'[q] = ex[q]
  BY DoubtFacts
<1>2. Workflow' = Workflow /\ Steps' = Steps /\ WorkerOf' = WorkerOf
  BY SameHosts
<1>3. row'.rev = row.rev + 1 /\ row'.next = doc.next /\ row'.steps = doc.steps /\ row.rev \in Nat
  BY DoubtFacts DEF Doc
<1>4. TokensInv' /\ NothingFiled(Workflow', row', calls') /\ (\A i \in Steps' : notRun'[i] = 0)
  BY <1>2, <1>3, DoubtFacts DEF DoubtInv, TokensInv, NothingFiled
<1>5. ASSUME NEW q \in Procs, q # p, pc[q] # "release"
      PROVE  ex'[q].rev # row'.rev
  <2>1. ex[q].rev <= row.rev /\ ex[q].rev \in Nat
    BY <1>5, DoubtFacts DEF FlightInv, CopyInv, Descends, Doc
  <2>2. QED
    BY <1>1, <1>3, <1>5, <2>1
<1>6. ASSUME NEW q \in Procs
      PROVE  Discreet(Workflow', WorkerOf'[q], pc'[q], ex'[q], row', calls', Shut(claim'[q], lease', now'))
  <2>1. CASE q = p
    BY <1>1, <1>2, <1>3, <2>1 DEF Discreet
  <2>2. CASE q # p
    <3>1. Discreet(Workflow, WorkerOf[q], pc[q], ex[q], row, calls, Shut(claim[q], lease, now))
      BY DoubtFacts
    <3>2. pc[q] \in ClosingLabels \cup {"fail"} => ex'[q].rev # row'.rev
      BY <1>5, <2>2 DEF ClosingLabels
    <3>3. QED
      BY <1>1, <1>2, <2>2, <3>1, <3>2 DEF Discreet
  <2>3. QED
    BY <2>1, <2>2
<1>7. ASSUME NEW q \in Procs, NEW r \in Procs PROVE Guarded(q, r)'
  <2> SUFFICES ASSUME q # r, Exposed(Workflow, pc'[q], ex'[q], row', calls'),
                      Grasps(claim[r], lease, now)
               PROVE  FALSE
    BY <1>2 DEF Guarded
  <2>1. CASE q # p
    BY <1>1, <1>5, <2>1 DEF Exposed, DoubtLabels
  <2>2. CASE q = p
    BY <1>1, <2>2 DEF Exposed
  <2>3. QED
    BY <2>1, <2>2
<1>8. QED
  BY <1>4, <1>6, <1>7 DEF DoubtInv

\* What follows of a save.
LEMMA DoubtSaves ==
    ASSUME Before, NEW p \in Procs, NEW doc \in Doc(N), NEW detached, NEW onOk, NEW onErr,
           Saves(p, doc, detached, onOk, onErr),
           onOk \notin AttendedLabels \cup ClosingLabels \cup DoubtLabels \cup DOMAIN AcquireTargets,
           onOk \in CallLabels => ~RetryForbidden(Workflow[doc.next]),
           Accepts(p, doc) => NothingFiled(Workflow, doc, calls),
           ~Accepts(p, doc) \/ (~detached /\ ~live[p]) =>
              /\ Discreet(Workflow, WorkerOf[p], onErr, doc, row, calls, Shut(claim[p], lease, now))
              /\ Exposed(Workflow, onErr, doc, row, calls) =>
                    Exposed(Workflow, pc[p], ex[p], row, calls)
              /\ Grasps(claim[p], lease, now) /\ pc[p] \in {"claimed", "interrupted"} =>
                    \A q \in Procs : Exposed(Workflow, pc[q], ex[q], row, calls) =>
                       q = p \/ Watches(onErr, doc, row)
    PROVE  DoubtInv'
<1>1. UNCHANGED <<deployment, now, lease, fence, claim, calls, notRun>>
  BY DEF Saves, world, history
<1>2. budget.faults = 0
  BY DEF Before, DoubtInv
<1>3. CASE /\ Accepts(p, doc) /\ row' = [doc EXCEPT !.rev = @ + 1] /\ budget' = budget
           /\ ex' = [ex EXCEPT ![p] = row'] /\ pc' = [pc EXCEPT ![p] = onOk]
  <2>1. doc.rev = row.rev
    BY <1>3 DEF Accepts, ValidUpdate
  <2>2. calls' \in [Steps -> Nat] /\ NothingFiled(Workflow, doc, calls')
    BY <1>1, <1>3, DoubtFacts
  <2>3. onOk \notin AttendedLabels \cup ClosingLabels \cup {"fail"} /\ onOk \notin DoubtLabels
    BY DEF DoubtLabels
  <2>4. QED
    BY <1>1, <1>2, <1>3, <2>1, <2>2, <2>3, DoubtStores
<1>4. CASE /\ ~((detached \/ live[p]) /\ Accepts(p, doc)) /\ row' = row /\ budget' = budget
           /\ ex' = [ex EXCEPT ![p] = doc] /\ pc' = [pc EXCEPT ![p] = onErr]
  BY <1>1, <1>2, <1>4, DoubtMoves
<1>5. QED
  BY <1>2, <1>3, <1>4 DEF Saves, Save

\* A save after which, if it is refused, the process releases the execution.
LEMMA DoubtSaveOrLeave ==
    ASSUME Before, NEW p \in Procs, NEW doc \in Doc(N), NEW detached, NEW onOk,
           Saves(p, doc, detached, onOk, "release"), pc[p] \notin {"claimed", "interrupted"},
           onOk \notin AttendedLabels \cup ClosingLabels \cup DoubtLabels \cup DOMAIN AcquireTargets,
           onOk \notin CallLabels,
           Accepts(p, doc) => NothingFiled(Workflow, doc, calls)
    PROVE  DoubtInv'
<1>1. /\ Discreet(Workflow, WorkerOf[p], "release", doc, row, calls, Shut(claim[p], lease, now))
      /\ ~Exposed(Workflow, "release", doc, row, calls)
  BY DEF Discreet, AttendedLabels, AcquireTargets, CallLabels, ClosingLabels, Exposed, DoubtLabels
<1>2. QED
  BY <1>1, DoubtSaves

\* An accepted edit files nothing unless it files the next step.
LEMMA EditFiles ==
    ASSUME Before, NEW p \in Procs, pc[p] \notin {"idle", "release"}, NEW doc \in Doc(N),
           Accepts(p, doc), doc.rev = ex[p].rev,
           \A i \in 1 .. N : i # ex[p].next => doc.steps[i].status = ex[p].steps[i].status,
           ex[p].next <= N => \/ doc.steps[ex[p].next].status \notin {"failed", "canceled"}
                              \/ Untouched(Workflow, ex[p], calls)
    PROVE  NothingFiled(Workflow, doc, calls)
<1>1. ex[p].rev = row.rev
  BY DEF Accepts, ValidUpdate
<1>2. /\ ex[p].next = row.next
      /\ \A j \in 1 .. N : j # row.next => ex[p].steps[j] = row.steps[j]
  BY <1>1, DoubtFacts, FlightFacts DEF Descends
<1>3. N = Len(Workflow) /\ calls \in [1 .. N -> Nat]
  BY DoubtFacts
<1>4. NothingFiled(Workflow, row, calls)
  BY DEF Before, DoubtInv
<1>5. \A i \in 1 .. N : i # ex[p].next => doc.steps[i].status = row.steps[i].status
  BY <1>2
<1>6. ASSUME NEW i \in 1 .. N, i = ex[p].next, calls[i] > 0, UncertainAfterFailure(Workflow[i])
      PROVE  doc.steps[i].status \notin {"failed", "canceled"}
  BY <1>3, <1>6 DEF Untouched
<1>7. QED
  BY <1>3, <1>4, <1>5, <1>6 DEF NothingFiled

-----------------------------------------------------------------------------
\* What the counts of calls say where nobody decides

LEMMA NothingPaid ==
    ASSUME Before, NEW p \in Procs, NEW i \in 1 .. N, UncertainAfterFailure(Workflow[i])
    PROVE  /\ SideEffecting(Workflow[i]) /\ Paid(Workflow, notRun, i) = 0 /\ calls[i] \in Nat
           /\ Workflow[i].attempts \in 1 .. 3
           /\ ~RetryForbidden(Workflow[i]) => Workflow[i].attempts = 1
<1>1. /\ Steps = 1 .. N /\ N = Len(Workflow) /\ Workflow \in Seq(Step)
      /\ notRun \in [Steps -> Nat] /\ calls \in [Steps -> Nat]
  BY DoubtFacts, WorkflowType DEF ExecInv, Types, FlightInv, CopyInv
<1>2. notRun[i] = 0
  BY <1>1 DEF Before, DoubtInv
<1>3. Paid(Workflow, notRun, i) = 0 /\ Workflow[i].attempts \in 1 .. 3
  BY <1>1, <1>2, PaidType
<1>4. SideEffecting(Workflow[i])
  BY DEF UncertainAfterFailure, SideEffecting
<1>5. ~RetryForbidden(Workflow[i]) => Workflow[i].attempts = 1
  BY <1>3 DEF UncertainAfterFailure, RetryForbidden
<1>6. QED
  BY <1>1, <1>3, <1>4, <1>5

LEMMA NotStartedUntouched ==
    ASSUME Before, NEW p \in Procs, NEW doc \in Doc(N), Counted(Workflow, doc, calls, notRun),
           doc.next <= N => doc.steps[doc.next].status \in {"pending", "awaiting_approval"}
    PROVE  Untouched(Workflow, doc, calls)
<1>1. N = Len(Workflow) /\ doc.next \in 1 .. N + 1 /\ N \in Nat
  BY DoubtFacts DEF Doc
<1>2. SUFFICES ASSUME doc.next <= N, UncertainAfterFailure(Workflow[doc.next])
               PROVE  calls[doc.next] = 0
  BY <1>1 DEF Untouched
<1>3. doc.next \in 1 .. N
  BY <1>1, <1>2
<1>4. calls[doc.next] <= 0 + 0 /\ calls[doc.next] \in Nat
  BY <1>1, <1>2, <1>3, NothingPaid DEF Counted, Slack
<1>5. QED
  BY <1>4

LEMMA AwaitingUntouched ==
    ASSUME Before, NEW p \in Procs, pc[p] # "release", ex[p].rev = row.rev,
           ex[p].status = "awaiting_approval"
    PROVE  Untouched(Workflow, ex[p], calls)
<1>1. Consistent(N, ex[p]) /\ Counted(Workflow, ex[p], calls, notRun)
  BY DoubtFacts, FlightFacts
<1>2. ex[p].steps[ex[p].next].status = "awaiting_approval"
  BY <1>1 DEF Consistent
<1>3. QED
  BY <1>1, <1>2, DoubtFacts, NotStartedUntouched

LEMMA ReadyUntouched ==
    ASSUME Before, NEW p \in Procs, pc[p] \in ReadyLabels, ex[p].rev = row.rev
    PROVE  Untouched(Workflow, ex[p], calls)
<1>1. pc[p] # "release"
  BY DEF ReadyLabels
<1>2. /\ Ready(Workflow, ex[p], calls, notRun) /\ N = Len(Workflow) /\ N \in Nat
      /\ ex[p].next \in 1 .. N + 1
  BY <1>1, DoubtFacts, FlightFacts DEF LabelStatus
<1>3. SUFFICES ASSUME ex[p].next <= N, UncertainAfterFailure(Workflow[ex[p].next])
               PROVE  calls[ex[p].next] = 0
  BY <1>2 DEF Untouched
<1>4. ex[p].next \in 1 .. N
  BY <1>2, <1>3
<1>5. calls[ex[p].next] <= 0 /\ calls[ex[p].next] \in Nat
  BY <1>2, <1>3, <1>4, NothingPaid DEF Ready
<1>6. QED
  BY <1>5

\* A step whose outcome may be unknown is called in the first attempt.
LEMMA FirstAttempt ==
    ASSUME Before, NEW p \in Procs, pc[p] \in CallLabels, ex[p].rev = row.rev
    PROVE  /\ UncertainAfterFailure(StepOf(ex[p])) => ~MayRetry(p)
           /\ pc[p] # "tool" => Untouched(Workflow, ex[p], calls)
<1>1. pc[p] # "release" /\ pc[p] \in StepLabels
  BY DEF CallLabels, StepLabels, ApprovedLabels
<1>2. /\ LabelStatus(Workflow, pc[p], ex[p], row, try[p], calls, notRun)
      /\ N = Len(Workflow) /\ N \in Nat /\ ex[p].next \in 1 .. N /\ try[p] \in Nat
  BY <1>1, DoubtFacts, FlightFacts, ProcessFacts DEF LocalSound
<1>3. ~RetryForbidden(Workflow[ex[p].next])
  BY DoubtFacts DEF Discreet
<1>4. try[p] \in 1 .. Workflow[ex[p].next].attempts
  BY <1>2 DEF LabelStatus
<1>5. ASSUME UncertainAfterFailure(Workflow[ex[p].next])
      PROVE  /\ ~(try[p] < Workflow[ex[p].next].attempts)
             /\ pc[p] # "tool" => calls[ex[p].next] = 0
  <2>1. Workflow[ex[p].next].attempts = 1 /\ SideEffecting(Workflow[ex[p].next])
        /\ Paid(Workflow, notRun, ex[p].next) = 0 /\ calls[ex[p].next] \in Nat
    BY <1>2, <1>3, <1>5, NothingPaid
  <2>2. try[p] = 1
    BY <1>4, <2>1
  <2>3. pc[p] # "tool" => calls[ex[p].next] + 1 <= 0 + 1
    BY <1>2, <2>1, <2>2 DEF LabelStatus
  <2>4. QED
    BY <2>1, <2>2, <2>3
<1>6. QED
  BY <1>5 DEF MayRetry, StepOf, Untouched

\* While a call of unknown outcome is with a process that is current, the row
\* says that it is running.
LEMMA ExposedRow ==
    ASSUME Before, NEW p \in Procs, Exposed(Workflow, pc[p], ex[p], row, calls)
    PROVE  /\ row.next \in 1 .. N /\ row.next = ex[p].next
           /\ Workflow[row.next].kind = "tool" /\ SideEffecting(Workflow[row.next])
           /\ row.status \in {"running", "recovery_required"}
           /\ row.status = "running" => row.steps[row.next].status = "running"
<1>1. /\ pc[p] \in DoubtLabels /\ ex[p].rev = row.rev /\ pc[p] \notin {"idle", "release"}
      /\ ex[p].next <= N /\ UncertainAfterFailure(Workflow[ex[p].next]) /\ calls[ex[p].next] # 0
  BY DoubtFacts DEF Exposed, Untouched, DoubtLabels
<1>2. /\ ex[p].next = row.next /\ row.status \notin TerminalStatus
      /\ N = Len(Workflow) /\ N \in Nat /\ ex[p].next \in 1 .. N + 1
  BY <1>1, DoubtFacts, DraftFacts DEF Draft, Current, Descends
<1>3. row.next \in 1 .. N
  BY <1>1, <1>2
<1> DEFINE i == row.next
<1>4. /\ SideEffecting(Workflow[i]) /\ Paid(Workflow, notRun, i) = 0 /\ calls[i] \in Nat
  BY <1>1, <1>2, <1>3, NothingPaid
<1>5. Workflow[i].kind = "tool"
  BY <1>1, <1>2, <1>3, <1>4, DoubtFacts DEF ReplayInv
<1>6. Consistent(N, row) /\ Counted(Workflow, row, calls, notRun) /\ Ordered(N, row)
  BY <1>2, DoubtFacts DEF ReplayInv, DocStatus, FlightInv, CopyInv
<1>7. row.steps[i].status \notin {"pending", "awaiting_approval"}
  <2>1. calls[i] <= 0 + Slack(Workflow, row, i)
    BY <1>2, <1>3, <1>4, <1>6 DEF Counted
  <2>2. QED
    BY <1>1, <1>2, <1>4, <2>1 DEF Slack
<1>8. row.steps[i].status \in StepStatus /\ row.status \in ExecutionStatus
  BY <1>3, DoubtFacts DEF Doc
<1>9. row.steps[i].status \notin Finished
  BY <1>3, <1>6 DEF Ordered
<1>10. row.status # "awaiting_approval"
  BY <1>3, <1>6, <1>7 DEF Consistent
<1>11. row.status = "running" => row.steps[i].status \notin {"recovery_required", "failed", "canceled"}
  BY <1>3, <1>6 DEF Consistent
<1>12. QED
  BY <1>2, <1>3, <1>4, <1>5, <1>7, <1>8, <1>9, <1>10, <1>11
     DEF StepStatus, ExecutionStatus, TerminalStatus, Finished

\* A step that is running can always be put into recovery by who may save it.
LEMMA RecoveryIsTaken ==
    ASSUME Before, NEW p \in Procs, NEW doc \in Doc(N), doc = row, doc.next \in 1 .. N,
           doc.status \in {"running", "recovery_required"}, doc.pending = 0,
           doc.steps[doc.next].status = "running",
           UpdatePermitted(claim[p], lease, now)
    PROVE  Accepts(p, RecoveryRequired(doc))
<1> DEFINE d == RecoveryRequired(doc)
<1>1. "recovery_required" \in StepStatus /\ "recovery_required" \in ExecutionStatus /\ N \in Nat
  BY DoubtFacts DEF StepStatus, ExecutionStatus
<1>2. /\ d \in Doc(N) /\ d.rev = doc.rev /\ d.next = doc.next
      /\ d.status = "recovery_required" /\ d.pending = doc.pending
      /\ \A i \in 1 .. N :
            /\ d.steps[i].status = IF i = doc.next THEN "recovery_required" ELSE doc.steps[i].status
            /\ d.steps[i].attempts = doc.steps[i].attempts
  BY <1>1, StepShape DEF RecoveryRequired
<1> HIDE DEF d
<1>3. Settled(d)
  BY <1>2 DEF Settled
<1>4. AllowedExecutionTransition(row.status, d.status) /\ row.status \notin TerminalStatus
  BY <1>2 DEF AllowedExecutionTransition, ExecutionSuccessors, TerminalStatus
<1>5. AllowedStepTransition("running", "recovery_required")
  BY DEF AllowedStepTransition, StepSuccessors
<1>6. \A i \in 1 .. N : doc.steps[i].attempts \in Nat
  BY DEF Doc
<1>7. ValidUpdate(row, d) /\ ValidCheckpoint(d, NoApproval)
  <2>1. \A i \in 1 .. N : i # row.next =>
              /\ d.steps[i].status = row.steps[i].status
              /\ d.steps[i].attempts = row.steps[i].attempts
    BY <1>2
  <2>2. /\ AllowedStepTransition(row.steps[row.next].status, d.steps[row.next].status)
        /\ d.steps[row.next].attempts >= row.steps[row.next].attempts
    BY <1>2, <1>5, <1>6
  <2>3. d.rev = row.rev /\ d.next \in {row.next, row.next + 1} /\ row \in Doc(N)
    BY <1>2, DoubtFacts
  <2>4. QED
    BY ONLY <1>1, <1>2, <1>3, <1>4, <2>1, <2>2, <2>3, StoreTakes
<1>8. QED
  BY <1>7 DEF Accepts, d

-----------------------------------------------------------------------------
\* The steps that move no document

\* The labels that say nothing of the calls.
MuteLabels ==
    {"idle", "claimed", "interrupted", "resume", "run", "step", "request", "await",
     "save_incomplete", "complete", "record", "recovery", "release"}

LEMMA MuteDiscreet ==
    ASSUME NEW label \in MuteLabels, NEW wf, NEW worker, NEW doc, NEW r, NEW cs, NEW shut
    PROVE  /\ Discreet(wf, worker, label, doc, r, cs, shut)
           /\ label \notin AttendedLabels \cup ClosingLabels \cup DOMAIN AcquireTargets \cup CallLabels
           /\ label \notin {"record", "recovery"} => label \notin DoubtLabels
BY DEF MuteLabels, Discreet, AttendedLabels, AcquireTargets, CallLabels, ClosingLabels, DoubtLabels

\* No process moves and no lease is granted: what was refused stays refused.
LEMMA DoubtStays ==
    ASSUME Before, UNCHANGED <<deployment, row, pc, ex, claim, fence, calls, notRun>>,
           budget'.faults = 0, lease'.owner = lease.owner, lease'.token = lease.token,
           \A p \in Procs : StillGranted(claim[p], lease', now') => StillGranted(claim[p], lease, now)
    PROVE  DoubtInv'
<1>1. Workflow' = Workflow /\ Steps' = Steps /\ WorkerOf' = WorkerOf
  BY SameHosts
<1>2. TokensInv' /\ NothingFiled(Workflow', row', calls') /\ (\A i \in Steps' : notRun'[i] = 0)
  BY <1>1 DEF Before, DoubtInv, TokensInv
<1>3. ASSUME NEW p \in Procs
      PROVE  Discreet(Workflow', WorkerOf'[p], pc'[p], ex'[p], row', calls', Shut(claim'[p], lease', now'))
  <2>1. Shut(claim[p], lease, now) => Shut(claim'[p], lease', now')
    BY DEF Shut, Held
  <2>2. Discreet(Workflow, WorkerOf[p], pc[p], ex[p], row, calls, Shut(claim[p], lease, now))
    BY DoubtFacts
  <2>3. QED
    BY <1>1, <2>1, <2>2 DEF Discreet
<1>4. ASSUME NEW p \in Procs, NEW q \in Procs PROVE Guarded(p, q)'
  <2>1. Grasps(claim'[q], lease', now') => Grasps(claim[q], lease, now)
    BY DEF Grasps
  <2>2. Guarded(p, q)
    BY DEF Before, DoubtInv
  <2>3. QED
    BY <1>1, <2>1, <2>2 DEF Guarded
<1>5. QED
  BY <1>2, <1>3, <1>4 DEF DoubtInv

LEMMA QuietDoubt ==
    ASSUME Before,
           \/ UNCHANGED vars \/ Tick \/ \E id \in DOMAIN approvals : Decide(id)
           \/ \E p \in Procs : Renew(p) \/ LeaseLost(p) \/ Shutdown(p)
    PROVE  DoubtInv'
<1>1. UNCHANGED <<deployment, row, pc, ex, claim, fence, calls, notRun>>
  BY DEF vars, Tick, Decide, Renew, LeaseLost, Shutdown, world, store, locals, history
<1>2. budget.faults = 0 /\ budget \in Budgets
  BY DEF Before, DoubtInv, DraftInv
<1>3. budget' = budget \/ budget' = [budget EXCEPT !.shutdowns = @ - 1]
  BY DEF vars, Tick, Decide, Renew, LeaseLost, Shutdown, locals
<1>4. budget'.faults = 0
  BY <1>2, <1>3 DEF Budgets
<1>5. /\ lease \in Lease /\ now \in Nat
      /\ \A p \in Procs : claim[p] \in Lease
  BY DEF Before, ExecInv, Types, LeaseTypes
<1>6. CASE Tick
  <2>1. lease' = lease /\ now' = now + 1
    BY <1>6 DEF Tick, store
  <2>2. QED
    BY <1>1, <1>4, <1>5, <2>1, DoubtStays DEF StillGranted, Unexpired, Lease
<1>7. CASE \E p \in Procs : Renew(p)
  <2>1. PICK p \in Procs : Renew(p)
    BY <1>7
  <2>2. Unexpired(lease, now) /\ lease' = Renewed(lease, now) /\ now' = now
    BY <2>1 DEF Renew, StillGranted, world
  <2>3. lease'.owner = lease.owner /\ lease'.token = lease.token
    BY <1>5, <2>2 DEF Renewed, Lease
  <2>4. QED
    BY <1>1, <1>4, <2>2, <2>3, DoubtStays DEF StillGranted, SameGrant
<1>8. CASE UNCHANGED <<lease, now>>
  BY <1>1, <1>4, <1>8, DoubtStays
<1>9. QED
  BY <1>6, <1>7, <1>8 DEF vars, Decide, LeaseLost, Shutdown, world, store

\* A process ends: if it frees the lease, nothing of unknown outcome is current.
LEMMA DoubtEnds ==
    ASSUME Before, NEW p \in Procs,
           pc' = [pc EXCEPT ![p] = "idle"], claim' = [claim EXCEPT ![p] = NoLease],
           \A q \in Procs : q # p => ex'[q] = ex[q],
           UNCHANGED <<deployment, now, row, fence, calls, notRun>>, budget'.faults = 0,
           \/ lease' = lease
           \/ pc[p] = "release" /\ Grasps(claim[p], lease, now) /\ lease' = Freed(lease)
    PROVE  DoubtInv'
<1>1. /\ pc'[p] = "idle" /\ claim'[p] = NoLease
      /\ \A q \in Procs : q # p => pc'[q] = pc[q] /\ claim'[q] = claim[q]
  BY DoubtFacts
<1>2. Workflow' = Workflow /\ Steps' = Steps /\ WorkerOf' = WorkerOf
  BY SameHosts
<1>3. ~Held(NoLease) /\ NoLease.token = 0 /\ fence \in Nat /\ lease \in Lease
  BY DoubtFacts DEF Held, NoLease
<1>4. TokensInv'
  <2>1. TokensInv
    BY DEF Before, DoubtInv
  <2>2. lease'.token = lease.token
    BY <1>3 DEF Freed
  <2>3. \A q \in Procs : claim'[q].token <= fence
    BY <1>1, <1>3, <2>1 DEF TokensInv
  <2>4. \A q, r \in Procs : q # r /\ Held(claim'[q]) /\ Held(claim'[r]) =>
           claim'[q].token # claim'[r].token
    BY <1>1, <1>3, <2>1 DEF TokensInv
  <2>5. QED
    BY <2>1, <2>2, <2>3, <2>4 DEF TokensInv
<1>5. NothingFiled(Workflow', row', calls') /\ (\A i \in Steps' : notRun'[i] = 0)
  BY <1>2 DEF Before, DoubtInv
<1>6. ASSUME NEW q \in Procs
      PROVE  Discreet(Workflow', WorkerOf'[q], pc'[q], ex'[q], row', calls', Shut(claim'[q], lease', now'))
  <2>1. CASE q = p
    BY <1>1, <2>1, MuteDiscreet DEF MuteLabels
  <2>2. CASE q # p
    <3>1. Discreet(Workflow, WorkerOf[q], pc[q], ex[q], row, calls, Shut(claim[q], lease, now))
      BY DoubtFacts
    <3>2. pc'[q] = pc[q] /\ ex'[q] = ex[q] /\ claim'[q] = claim[q]
      BY <1>1, <2>2
    <3>3. CASE lease' = lease
      BY <1>2, <3>1, <3>2, <3>3
    <3>4. CASE pc[p] = "release" /\ Grasps(claim[p], lease, now)
      <4>1. ~Exposed(Workflow, pc[q], ex[q], row, calls)
        BY <2>2, <3>4 DEF Before, DoubtInv, Guarded, Watches
      <4>2. pc[q] = "fail" /\ ex[q].rev = row.rev => Untouched(Workflow, ex[q], calls)
        BY <4>1 DEF Exposed, DoubtLabels
      <4>3. QED
        BY <1>2, <3>1, <3>2, <4>2 DEF Discreet
    <3>5. QED
      BY <3>3, <3>4
  <2>3. QED
    BY <2>1, <2>2
<1>7. ASSUME NEW q \in Procs, NEW r \in Procs PROVE Guarded(q, r)'
  <2> SUFFICES ASSUME q # r, Exposed(Workflow, pc'[q], ex'[q], row, calls),
                      Grasps(claim'[r], lease', now)
               PROVE  Watches(pc'[r], ex'[r], row)
    BY <1>2 DEF Guarded
  <2>1. r # p
    BY <1>1, <1>3 DEF Grasps
  <2>2. q # p
    BY <1>1 DEF Exposed, DoubtLabels
  <2>3. lease' = lease
    <3>1. Freed(lease).owner = NoWorker
      BY DEF Freed
    <3>2. QED
      BY <3>1 DEF Grasps, StillGranted, SameGrant, Held
  <2>4. Guarded(q, r)
    BY DEF Before, DoubtInv
  <2>5. QED
    BY <1>1, <2>1, <2>2, <2>3, <2>4 DEF Guarded
<1>8. QED
  BY <1>4, <1>5, <1>6, <1>7 DEF DoubtInv

LEMMA EndsDoubt ==
    ASSUME Before, NEW p \in Procs, Release(p) \/ Crash(p)
    PROVE  DoubtInv'
<1>1. /\ pc' = [pc EXCEPT ![p] = "idle"] /\ claim' = [claim EXCEPT ![p] = NoLease]
      /\ UNCHANGED <<deployment, now, row, fence, calls, notRun>>
  BY DEF Release, Crash, world, store, history
<1>2. \A q \in Procs : q # p => ex'[q] = ex[q]
  BY DoubtFacts DEF Release, Crash
<1>3. budget'.faults = 0
  BY DEF Release, Crash, Before, DoubtInv, DraftInv, Budgets
<1>4. \/ lease' = lease
      \/ pc[p] = "release" /\ Grasps(claim[p], lease, now) /\ lease' = Freed(lease)
  BY DEF Release, Crash, store, Grasps
<1>5. QED
  BY <1>1, <1>2, <1>3, <1>4, DoubtEnds

-----------------------------------------------------------------------------
\* Entering

\* The coordinator's claim: whoever held the execution has lost it.
LEMMA ClaimDoubt ==
    ASSUME Before, NEW p \in Procs, RunOnce(p)
    PROVE  DoubtInv'
<1>1. /\ WorkerOf[p] # NoWorker /\ fence' = fence + 1 /\ lease'.owner = WorkerOf[p]
      /\ lease'.token = fence + 1
      /\ claim' = [claim EXCEPT ![p] = lease'] /\ ex' = [ex EXCEPT ![p] = row]
      /\ pc' = [pc EXCEPT ![p] = "claimed"]
      /\ UNCHANGED <<deployment, now, row, budget, calls, notRun>>
  BY DEF RunOnce, world, history
<1>2. /\ pc'[p] = "claimed" /\ ex'[p] = row /\ claim'[p] = lease' /\ fence \in Nat
      /\ \A q \in Procs : claim[q].token \in Nat
      /\ \A q \in Procs : q # p => pc'[q] = pc[q] /\ ex'[q] = ex[q] /\ claim'[q] = claim[q]
  BY <1>1, DoubtFacts DEF Lease
<1>3. Workflow' = Workflow /\ Steps' = Steps /\ WorkerOf' = WorkerOf
  BY <1>1, SameHosts
<1>4. TokensInv
  BY DEF Before, DoubtInv
<1>5. \A q \in Procs : q # p => claim'[q].token <= fence /\ claim'[q].token # fence + 1
  BY <1>2, <1>4 DEF TokensInv
<1>6. TokensInv'
  <2>1. lease'.token <= fence' /\ \A q \in Procs : claim'[q].token <= fence'
    BY <1>1, <1>2, <1>5
  <2>2. \A q, r \in Procs : q # r /\ Held(claim'[q]) /\ Held(claim'[r]) =>
           claim'[q].token # claim'[r].token
    BY <1>1, <1>2, <1>4, <1>5 DEF TokensInv
  <2>3. QED
    BY <2>1, <2>2 DEF TokensInv
<1>7. NothingFiled(Workflow', row', calls') /\ (\A i \in Steps' : notRun'[i] = 0) /\ budget'.faults = 0
  BY <1>1, <1>3 DEF Before, DoubtInv
<1>8. \A q \in Procs : q # p => ~SameGrant(claim'[q], lease')
  BY <1>1, <1>5 DEF SameGrant
<1>9. ASSUME NEW q \in Procs
      PROVE  Discreet(Workflow', WorkerOf'[q], pc'[q], ex'[q], row', calls', Shut(claim'[q], lease', now'))
  <2>1. CASE q = p
    BY <1>2, <2>1, MuteDiscreet DEF MuteLabels
  <2>2. CASE q # p
    <3>1. Shut(claim'[q], lease', now')
      BY <1>1, <1>8, <2>2 DEF Shut, Held, StillGranted
    <3>2. Discreet(Workflow, WorkerOf[q], pc[q], ex[q], row, calls, Shut(claim[q], lease, now))
      BY DoubtFacts
    <3>3. QED
      BY <1>1, <1>2, <1>3, <2>2, <3>1, <3>2 DEF Discreet
  <2>3. QED
    BY <2>1, <2>2
<1>10. ASSUME NEW q \in Procs, NEW r \in Procs PROVE Guarded(q, r)'
  <2> SUFFICES ASSUME Grasps(claim'[r], lease', now') PROVE Watches(pc'[r], ex'[r], row')
    BY DEF Guarded
  <2>1. r = p
    BY <1>8 DEF Grasps, StillGranted
  <2>2. QED
    BY <1>1, <1>2, <2>1 DEF Watches
<1>11. QED
  BY <1>6, <1>7, <1>9, <1>10 DEF DoubtInv

LEMMA EntersDoubt ==
    ASSUME Before, NEW p \in Procs, Enter(p)
    PROVE  DoubtInv'
<1>1. SnapshotsChecked /\ Unattended /\ budget.faults = 0
  BY DEF Before, Given, DoubtInv
<1>2. CASE Execute(p)
  <2>1. /\ row.rev = 0 /\ "execute" \in Entries /\ row' = [NoExecution EXCEPT !.rev = 1]
        /\ pc' = [pc EXCEPT ![p] = "acquire_run"] /\ ex' = [ex EXCEPT ![p] = row']
        /\ UNCHANGED <<deployment, now, lease, fence, claim, notRun, calls, budget>>
    BY <1>2 DEF Execute, world, history
  <2>2. NoExecution \in Doc(N) /\ NoExecution.rev = 0
        /\ \A i \in 1 .. N : NoExecution.steps[i].status = "pending"
    <3>1. N \in Nat \ {0} /\ Steps = 1 .. N
      BY WorkflowType DEF Before, ExecInv, Types
    <3>2. QED
      BY <3>1 DEF NoExecution, NoApproval, Doc, ExecutionStatus, StepStatus
  <2>3. row' = [NoExecution EXCEPT !.rev = @ + 1]
    BY <2>1, <2>2
  <2>4. WorkerOf[p] = NoWorker
    BY <1>1, <2>1 DEF SnapshotsChecked
  <2>5. NothingFiled(Workflow, NoExecution, calls') /\ calls' \in [Steps -> Nat]
    BY <2>1, <2>2, DoubtFacts DEF NothingFiled
  <2>6. "acquire_run" \notin AttendedLabels \cup ClosingLabels \cup {"fail"}
        /\ "acquire_run" \notin CallLabels /\ "acquire_run" \notin DoubtLabels
    BY DEF AttendedLabels, ClosingLabels, CallLabels, DoubtLabels
  <2>7. QED
    BY <1>1, <2>1, <2>2, <2>3, <2>4, <2>5, <2>6, DoubtStores
<1>3. CASE ResumeStored(p)
  <2>1. PICK label \in {"acquire_interrupted", "acquire_resume"} : pc' = [pc EXCEPT ![p] = label]
    BY <1>3 DEF ResumeStored
  <2>2. /\ "resume_stored" \in Entries /\ pc[p] = "idle" /\ ex' = [ex EXCEPT ![p] = row]
        /\ UNCHANGED <<deployment, now, row, lease, fence, claim, notRun, calls, budget>>
    BY <1>3 DEF ResumeStored, world, store, history
  <2>3. WorkerOf[p] = NoWorker
    BY <1>1, <2>2 DEF SnapshotsChecked
  <2>4. Discreet(Workflow, WorkerOf[p], label, row, row, calls, Shut(claim[p], lease, now))
    BY <2>3 DEF Discreet, AttendedLabels, CallLabels, ClosingLabels
  <2>5. ~Exposed(Workflow, label, row, row, calls)
    BY DEF Exposed, DoubtLabels
  <2>6. QED
    BY <1>1, <2>1, <2>2, <2>4, <2>5, DoubtMoves
<1>4. CASE RunOnce(p)
  BY <1>4, ClaimDoubt
<1>5. ~CancelCall(p) /\ ~RecoverCall(p)
  BY <1>1 DEF CancelCall, RecoverCall, Unattended
<1>6. QED
  BY <1>2, <1>3, <1>4, <1>5 DEF Enter

-----------------------------------------------------------------------------
\* Resuming

\* A process goes on with its document to a label that says nothing of the calls.
LEMMA DoubtMutes ==
    ASSUME Before, NEW p \in Procs, NEW label \in MuteLabels, Goto(p, label),
           label \in {"record", "recovery"} => pc[p] \in DoubtLabels,
           pc[p] \notin {"claimed", "interrupted"}
    PROVE  DoubtInv'
<1>1. /\ Discreet(Workflow, WorkerOf[p], label, ex[p], row, calls, Shut(claim[p], lease, now))
      /\ label \in DoubtLabels => pc[p] \in DoubtLabels
  BY MuteDiscreet
<1>2. QED
  BY <1>1, DoubtGoto

LEMMA AcquireDoubt ==
    ASSUME Before, NEW p \in Procs, Acquire(p)
    PROVE  DoubtInv'
<1>1. Discreet(Workflow, WorkerOf[p], pc[p], ex[p], row, calls, Shut(claim[p], lease, now))
  BY DoubtFacts
<1>2. pc[p] \in {"acquire_run", "acquire_interrupted", "acquire_resume"} /\ WorkerOf[p] = NoWorker
  BY <1>1 DEF Acquire, Discreet, AttendedLabels, AcquireTargets
<1>3. AcquireTargets[pc[p]] \in {"run", "interrupted", "resume"}
  BY <1>2 DEF AcquireTargets
<1>4. Goto(p, AcquireTargets[pc[p]])
  BY <1>2 DEF Acquire
<1>5. QED
  BY <1>2, <1>3, <1>4, DoubtMutes DEF MuteLabels

\* What a process that has claimed the execution sees while a call of unknown
\* outcome is with another: that the call is in flight.
LEMMA SeenInFlight ==
    ASSUME Before, NEW p \in Procs, NEW q \in Procs, q # p, pc[p] \in {"claimed", "interrupted"},
           Grasps(claim[p], lease, now), Exposed(Workflow, pc[q], ex[q], row, calls)
    PROVE  /\ ex[p] = row /\ row.status \in {"running", "recovery_required"}
           /\ row.next \in 1 .. N
           /\ pc[p] = "interrupted" =>
                 /\ row.status = "running" /\ row.steps[row.next].status = "running"
                 /\ InterruptedInFlight(ex[p])
<1>1. Guarded(q, p)
  BY DEF Before, DoubtInv
<1>2. ex[p].rev = row.rev
  BY <1>1 DEF Guarded, Watches
<1>3. pc[p] # "release" /\ pc[p] \in ReadLabels /\ (pc[p] = "interrupted" => pc[p] \in RunningLabels)
  BY DEF ReadLabels, RunningLabels
<1>4. ex[p] = row /\ (pc[p] = "interrupted" => ex[p].status = "running")
  BY <1>2, <1>3, DoubtFacts, FlightFacts DEF LabelStatus
<1>5. /\ row.next \in 1 .. N /\ Workflow[row.next].kind = "tool"
      /\ SideEffecting(Workflow[row.next])
      /\ row.status \in {"running", "recovery_required"}
      /\ row.status = "running" => row.steps[row.next].status = "running"
  BY ExposedRow
<1>6. QED
  BY <1>4, <1>5, DoubtFacts DEF InterruptedInFlight, StepOf, RunOf

LEMMA ResumeClaimedDoubt ==
    ASSUME Before, NEW p \in Procs, ResumeClaimed(p)
    PROVE  DoubtInv'
<1>1. pc[p] = "claimed" /\ budget.faults = 0
  BY DEF ResumeClaimed, Before, DoubtInv
<1>2. \/ row.status = "running" /\ Goto(p, "interrupted")
      \/ row.status \notin {"running", "recovery_required"} /\ (Goto(p, "resume") \/ Goto(p, "release"))
      \/ /\ pc' = [pc EXCEPT ![p] = "idle"] /\ claim' = [claim EXCEPT ![p] = NoLease]
         /\ UNCHANGED <<world, store, ex, budget, history>>
  BY DEF ResumeClaimed
<1>3. CASE Goto(p, "interrupted")
  <2>1. Grasps(claim[p], lease, now) =>
           \A q \in Procs : Exposed(Workflow, pc[q], ex[q], row, calls) =>
              q = p \/ Watches("interrupted", ex[p], row)
    BY <1>1, SeenInFlight DEF Watches
  <2>2. /\ Discreet(Workflow, WorkerOf[p], "interrupted", ex[p], row, calls, Shut(claim[p], lease, now))
        /\ "interrupted" \notin DoubtLabels
    BY MuteDiscreet DEF MuteLabels
  <2>3. QED
    BY <1>3, <2>1, <2>2, DoubtGoto
<1>4. ASSUME NEW label \in {"resume", "release"}, Goto(p, label),
             row.status \notin {"running", "recovery_required"}
      PROVE  DoubtInv'
  <2>1. Grasps(claim[p], lease, now) =>
           \A q \in Procs : Exposed(Workflow, pc[q], ex[q], row, calls) => q = p
    BY <1>1, <1>4, SeenInFlight
  <2>2. /\ Discreet(Workflow, WorkerOf[p], label, ex[p], row, calls, Shut(claim[p], lease, now))
        /\ label \notin DoubtLabels
    BY MuteDiscreet DEF MuteLabels
  <2>3. QED
    BY <1>4, <2>1, <2>2, DoubtGoto
<1>5. CASE /\ pc' = [pc EXCEPT ![p] = "idle"] /\ claim' = [claim EXCEPT ![p] = NoLease]
           /\ UNCHANGED <<world, store, ex, budget, history>>
  BY <1>1, <1>5, DoubtEnds DEF world, store, history
<1>6. QED
  BY <1>2, <1>3, <1>4, <1>5

LEMMA ResumeInterruptedDoubt ==
    ASSUME Before, NEW p \in Procs, ResumeInterrupted(p)
    PROVE  DoubtInv'
<1> DEFINE d == RecoveryRequired(ex[p])
<1>1. /\ pc[p] = "interrupted" /\ pc[p] \notin {"idle", "release"} /\ pc[p] \notin DoubtLabels
      /\ ex[p] \in Doc(N) /\ N \in Nat
  BY DoubtFacts DEF ResumeInterrupted, DoubtLabels
<1>2. CASE Goto(p, "run") /\ ~InterruptedInFlight(ex[p])
  <2>1. Grasps(claim[p], lease, now) =>
           \A q \in Procs : Exposed(Workflow, pc[q], ex[q], row, calls) => q = p
    BY <1>1, <1>2, SeenInFlight
  <2>2. /\ Discreet(Workflow, WorkerOf[p], "run", ex[p], row, calls, Shut(claim[p], lease, now))
        /\ "run" \notin DoubtLabels
    BY MuteDiscreet DEF MuteLabels
  <2>3. QED
    BY <1>2, <2>1, <2>2, DoubtGoto
<1>3. CASE Saves(p, d, TRUE, "release", "release")
  <2>1. "recovery_required" \in StepStatus /\ "recovery_required" \in ExecutionStatus
    BY DEF StepStatus, ExecutionStatus
  <2>2. /\ d \in Doc(N) /\ d.rev = ex[p].rev /\ d.next = ex[p].next
        /\ \A i \in 1 .. N :
              d.steps[i].status = IF i = ex[p].next THEN "recovery_required" ELSE ex[p].steps[i].status
    BY <1>1, <2>1, StepShape DEF RecoveryRequired
  <2>3. ~Accepts(p, d) /\ Grasps(claim[p], lease, now) =>
           \A q \in Procs : Exposed(Workflow, pc[q], ex[q], row, calls) => q = p
    <3> SUFFICES ASSUME Grasps(claim[p], lease, now), NEW q \in Procs, q # p,
                        Exposed(Workflow, pc[q], ex[q], row, calls)
                 PROVE  Accepts(p, d)
      OBVIOUS
    <3>1. /\ ex[p] = row /\ row.status = "running" /\ row.next \in 1 .. N
          /\ row.steps[row.next].status = "running"
      BY <1>1, SeenInFlight
    <3>2. UpdatePermitted(claim[p], lease, now)
      BY DEF Grasps, UpdatePermitted
    <3>3. row.pending = 0
      BY <3>1 DEF Before, ExecInv, Types, ValidCheckpoint, NoApproval
    <3>4. QED
      BY <1>1, <3>1, <3>2, <3>3, RecoveryIsTaken
  <2> HIDE DEF d
  <2>4. Accepts(p, d) => NothingFiled(Workflow, d, calls)
    <3>1. ex[p].next <= N => d.steps[ex[p].next].status \notin {"failed", "canceled"}
      BY <1>1, <2>2, DoubtFacts DEF Doc
    <3>2. QED
      BY <1>1, <2>2, <3>1, EditFiles
  <2>5. /\ Discreet(Workflow, WorkerOf[p], "release", d, row, calls, Shut(claim[p], lease, now))
        /\ "release" \notin AttendedLabels \cup ClosingLabels \cup DOMAIN AcquireTargets
        /\ "release" \notin CallLabels /\ "release" \notin DoubtLabels
    BY MuteDiscreet DEF MuteLabels
  <2>6. ~Exposed(Workflow, "release", d, row, calls)
    BY <2>5 DEF Exposed
  <2>7. QED
    BY <1>3, <2>2, <2>3, <2>4, <2>5, <2>6, DoubtSaves DEF d
<1>4. QED
  BY <1>2, <1>3 DEF ResumeInterrupted

\* Open documents: a save that leaves the steps as they are files nothing.
LEMMA OpenFiles ==
    ASSUME Before, NEW p \in Procs, pc[p] \notin {"idle", "release"}, NEW doc \in Doc(N),
           Accepts(p, doc), doc.rev = ex[p].rev,
           \A i \in 1 .. N : \/ doc.steps[i].status = ex[p].steps[i].status
                             \/ i = ex[p].next /\ doc.steps[i].status \notin {"failed", "canceled"}
    PROVE  NothingFiled(Workflow, doc, calls)
<1>1. ex[p].next \in 1 .. N + 1 /\ N \in Nat /\ OpenDoc(N, ex[p])
  BY DoubtFacts, DraftFacts
<1>2. ex[p].next <= N => doc.steps[ex[p].next].status \notin {"failed", "canceled"}
  BY <1>1 DEF OpenDoc
<1>3. QED
  BY <1>2, EditFiles

\* A save that files nothing, after which, if it is refused, the process releases.
LEMMA OpenSaves ==
    ASSUME Before, NEW p \in Procs, pc[p] \notin {"idle", "release", "claimed", "interrupted"},
           NEW doc \in Doc(N), NEW detached, NEW label \in MuteLabels \ {"record", "recovery"},
           Saves(p, doc, detached, label, "release"), doc.rev = ex[p].rev,
           \A i \in 1 .. N : \/ doc.steps[i].status = ex[p].steps[i].status
                             \/ i = ex[p].next /\ doc.steps[i].status \notin {"failed", "canceled"}
    PROVE  DoubtInv'
<1>1. Accepts(p, doc) => NothingFiled(Workflow, doc, calls)
  BY OpenFiles
<1>2. /\ label \notin AttendedLabels \cup ClosingLabels \cup DoubtLabels \cup DOMAIN AcquireTargets
      /\ label \notin CallLabels
  BY MuteDiscreet
<1>3. QED
  BY <1>1, <1>2, DoubtSaveOrLeave

LEMMA ResumeDoubt ==
    ASSUME Before, NEW p \in Procs, Resume(p)
    PROVE  DoubtInv'
<1>1. pc[p] = "resume" /\ pc[p] \notin {"idle", "release", "claimed", "interrupted"}
  BY DEF Resume
<1>2. CASE Goto(p, "release")
  BY <1>1, <1>2, DoubtLeaves
<1>3. ASSUME NEW label \in {"expire", "expire_pending", "reject"}, Goto(p, label),
             ex[p].status = "awaiting_approval"
      PROVE  DoubtInv'
  <2>1. ex[p].rev = row.rev => Untouched(Workflow, ex[p], calls)
    BY <1>1, <1>3, AwaitingUntouched
  <2>2. /\ Discreet(Workflow, WorkerOf[p], label, ex[p], row, calls, Shut(claim[p], lease, now))
        /\ label \notin DoubtLabels
    BY <2>1 DEF Discreet, AttendedLabels, AcquireTargets, CallLabels, ClosingLabels, DoubtLabels
  <2>3. QED
    BY <1>1, <1>3, <2>2, DoubtGoto
<1>4. CASE /\ ex[p].status = "awaiting_approval"
           /\ approvals[ex[p].pending].status = "granted"
           /\ Saves(p, Granted(ex[p]), FALSE, "run", "release")
  <2> DEFINE d == Granted(ex[p])
  <2>1. /\ ex[p] \in Doc(N) /\ N \in Nat /\ N = Len(Workflow)
        /\ DocSound(Workflow, ex[p], approvals, calls, confirmed)
        /\ LocalSound(Workflow, pc[p], ex[p], approvals, calls, confirmed)
    BY <1>1, DoubtFacts, DraftFacts
  <2>2. ex[p].pending # 0
    BY <1>1, <1>4, <2>1 DEF LocalSound, ReadLabels, Settled
  <2>3. d \in Doc(N)
    BY <1>4, <2>1, <2>2, DoubtFacts, GrantedSound
  <2>4. d.rev = ex[p].rev /\ d.steps = ex[p].steps
    BY <2>1 DEF Granted, Doc
  <2>5. Saves(p, d, FALSE, "run", "release") /\ "run" \in MuteLabels \ {"record", "recovery"}
    BY <1>4 DEF MuteLabels
  <2> HIDE DEF d
  <2>6. QED
    BY <1>1, <2>3, <2>4, <2>5, OpenSaves
<1>5. QED
  BY <1>1, <1>2, <1>3, <1>4 DEF Resume

-----------------------------------------------------------------------------
\* Closing, and the loop

LEMMA ExpirePendingDoubt ==
    ASSUME Before, NEW p \in Procs, ExpirePending(p)
    PROVE  DoubtInv'
<1>1. pc[p] = "expire_pending" /\ budget.faults = 0
  BY DEF ExpirePending, Before, DoubtInv
<1>2. CASE Goto(p, "release")
  BY <1>1, <1>2, DoubtLeaves
<1>3. CASE /\ pc' = [pc EXCEPT ![p] = "reject"]
           /\ UNCHANGED <<world, store, ex, claim, live, try, budget, history>>
  <2>1. Discreet(Workflow, WorkerOf[p], pc[p], ex[p], row, calls, Shut(claim[p], lease, now))
    BY DoubtFacts
  <2>2. /\ Discreet(Workflow, WorkerOf[p], "reject", ex[p], row, calls, Shut(claim[p], lease, now))
        /\ "reject" \notin DoubtLabels
    BY <1>1, <2>1 DEF Discreet, AttendedLabels, AcquireTargets, CallLabels, ClosingLabels, DoubtLabels
  <2>3. ex' = [ex EXCEPT ![p] = ex[p]]
    BY <1>3, DoubtFacts
  <2>4. ~Exposed(Workflow, "reject", ex[p], row, calls)
    BY <2>2 DEF Exposed
  <2>5. QED
    BY <1>1, <1>3, <2>2, <2>3, <2>4, DoubtMoves DEF world, store, history
<1>4. QED
  BY <1>2, <1>3 DEF ExpirePending

LEMMA ExpireExecutionDoubt ==
    ASSUME Before, NEW p \in Procs, ExpireExecution(p)
    PROVE  DoubtInv'
<1>1. PICK detached \in BOOLEAN, label \in {"cancel_save", "run_cancel_save"} :
        CloseApproval(p, "expired", detached, label) /\ pc[p] \in {"expire", "run_expire"}
  BY DEF ExpireExecution
<1>2. /\ Discreet(Workflow, WorkerOf[p], pc[p], ex[p], row, calls, Shut(claim[p], lease, now))
      /\ ex[p] \in Doc(N) /\ budget.faults = 0
  BY DoubtFacts DEF DoubtInv
<1>3. ASSUME NEW d, d.rev = ex[p].rev, d.next = ex[p].next
      PROVE  /\ Discreet(Workflow, WorkerOf[p], label, d, row, calls, Shut(claim[p], lease, now))
             /\ ~Exposed(Workflow, label, d, row, calls)
  BY <1>1, <1>2, <1>3 DEF Discreet, AttendedLabels, AcquireTargets, CallLabels, ClosingLabels,
       DoubtLabels, Exposed, Untouched
<1>4. CASE Goto(p, label)
  <2>1. label \notin DoubtLabels
    BY <1>1 DEF DoubtLabels
  <2>2. QED
    BY <1>1, <1>3, <1>4, <2>1, DoubtGoto
<1>5. CASE /\ ex' = [ex EXCEPT ![p].pending = NoApproval] /\ pc' = [pc EXCEPT ![p] = label]
           /\ UNCHANGED <<world, store, claim, live, try, budget, history>>
  <2> DEFINE d == [ex[p] EXCEPT !.pending = NoApproval]
  <2>1. ex' = [ex EXCEPT ![p] = d]
    BY <1>5
  <2>2. d.rev = ex[p].rev /\ d.next = ex[p].next
    BY <1>2 DEF Doc
  <2> HIDE DEF d
  <2>3. QED
    BY <1>1, <1>2, <1>3, <1>5, <2>1, <2>2, DoubtMoves DEF world, store, history
<1>6. CASE Goto(p, "release")
  BY <1>1, <1>6, DoubtLeaves
<1>7. QED
  BY <1>1, <1>4, <1>5, <1>6 DEF CloseApproval

\* What was not called, or is not current, may be closed.
LEMMA ClosesUntouched ==
    ASSUME Before, NEW p \in Procs, pc[p] \notin {"idle", "release", "claimed", "interrupted"},
           NEW doc \in Doc(N), NEW detached, Saves(p, doc, detached, "release", "release"),
           doc.rev = ex[p].rev,
           Accepts(p, doc) => Untouched(Workflow, ex[p], calls),
           \A i \in 1 .. N : i # ex[p].next => doc.steps[i].status = ex[p].steps[i].status
    PROVE  DoubtInv'
<1>1. Accepts(p, doc) => NothingFiled(Workflow, doc, calls)
  BY EditFiles
<1>2. /\ "release" \notin AttendedLabels \cup ClosingLabels \cup DoubtLabels \cup DOMAIN AcquireTargets
      /\ "release" \notin CallLabels
  BY MuteDiscreet DEF MuteLabels
<1>3. QED
  BY <1>1, <1>2, DoubtSaveOrLeave

LEMMA ClosingDoubt ==
    ASSUME Before, NEW p \in Procs, Reject(p) \/ Fail(p) \/ CancelCheckpoint(p)
    PROVE  DoubtInv'
<1>1. /\ pc[p] \in {"reject", "fail", "cancel_save", "run_cancel_save"}
      /\ pc[p] \notin {"idle", "release", "claimed", "interrupted"}
  BY DEF Reject, Fail, CancelCheckpoint
<1>2. /\ ex[p] \in Doc(N) /\ N \in Nat /\ ExecInv
      /\ DocSound(Workflow, ex[p], approvals, calls, confirmed)
      /\ Discreet(Workflow, WorkerOf[p], pc[p], ex[p], row, calls, Shut(claim[p], lease, now))
  BY <1>1, DoubtFacts, DraftFacts
<1>3. ASSUME NEW d, Accepts(p, d), d.rev = ex[p].rev
      PROVE  Untouched(Workflow, ex[p], calls)
  <2>1. ex[p].rev = row.rev /\ ~Shut(claim[p], lease, now)
    BY <1>3 DEF Accepts, ValidUpdate, UpdatePermitted, Shut
  <2>2. QED
    BY <1>1, <1>2, <2>1 DEF Discreet, ClosingLabels
<1>4. /\ Failed(ex[p]) \in Doc(N) /\ Failed(ex[p]).rev = ex[p].rev
      /\ \A i \in 1 .. N : i # ex[p].next => Failed(ex[p]).steps[i].status = ex[p].steps[i].status
  <2>1. "failed" \in StepStatus /\ "failed" \in ExecutionStatus
    BY DEF StepStatus, ExecutionStatus, TerminalStatus
  <2>2. QED
    BY <1>2, <2>1, StepShape DEF Failed
<1>5. CASE Reject(p)
  <2> DEFINE d == [Failed(ex[p]) EXCEPT !.pending = NoApproval]
  <2>1. d \in Doc(N) /\ d.rev = ex[p].rev /\ d.steps = Failed(ex[p]).steps
    BY <1>4 DEF Doc, NoApproval
  <2>2. Saves(p, d, FALSE, "release", "release")
    BY <1>5 DEF Reject
  <2> HIDE DEF d
  <2>3. \A i \in 1 .. N : i # ex[p].next => d.steps[i].status = ex[p].steps[i].status
    BY <1>4, <2>1
  <2>4. QED
    BY <1>1, <1>3, <2>1, <2>2, <2>3, ClosesUntouched
<1>6. CASE Fail(p)
  <2>1. Saves(p, Failed(ex[p]), TRUE, "release", "release")
    BY <1>6 DEF Fail
  <2>2. QED
    BY <1>1, <1>3, <1>4, <2>1, ClosesUntouched
<1>7. CASE CancelCheckpoint(p)
  <2> DEFINE d == Canceled(ex[p])
  <2>1. /\ d \in Doc(N) /\ d.rev = ex[p].rev
    BY <1>2, CanceledShape
  <2>2. \A i \in 1 .. N : i # ex[p].next => d.steps[i].status = ex[p].steps[i].status
    BY <1>2, DoubtFacts DEF Canceled, Doc
  <2>3. Saves(p, d, pc[p] = "run_cancel_save", "release", "release")
    BY <1>7 DEF CancelCheckpoint
  <2> HIDE DEF d
  <2>4. QED
    BY <1>1, <1>3, <2>1, <2>2, <2>3, ClosesUntouched
<1>8. QED
  BY <1>5, <1>6, <1>7

\* The loop turns to a deadline, to a canceled context or to a refusal: nothing
\* was called since the step was started.
LEMMA LoopDoubt ==
    ASSUME Before, NEW p \in Procs, RunExpired(p) \/ RunAborted(p) \/ Refuse(p)
    PROVE  DoubtInv'
<1>1. PICK label \in {"run_expire", "run_cancel_save", "fail"} : Goto(p, label)
  BY DEF RunExpired, RunAborted, Refuse
<1>2. pc[p] \in {"run", "step"} /\ pc[p] \in ReadyLabels
  BY DEF RunExpired, RunAborted, Refuse, AtLoopTop, ReadyLabels
<1>3. ex[p].rev = row.rev => Untouched(Workflow, ex[p], calls)
  BY <1>2, ReadyUntouched
<1>4. Discreet(Workflow, WorkerOf[p], label, ex[p], row, calls, Shut(claim[p], lease, now))
  BY <1>3 DEF Discreet, AttendedLabels, AcquireTargets, CallLabels, ClosingLabels
<1>5. QED
  BY <1>1, <1>2, <1>3, <1>4, DoubtGoto

LEMMA PassDoubt ==
    ASSUME Before, NEW p \in Procs, RunSkip(p) \/ CompleteStep(p)
    PROVE  DoubtInv'
<1>1. PICK s \in Finished : Saves(p, Passed(ex[p], s), FALSE, "run", "release")
  BY DEF RunSkip, CompleteStep, Finished
<1> DEFINE d == Passed(ex[p], s)
<1>2. pc[p] \in {"run", "complete"}
      /\ pc[p] \notin {"idle", "release", "claimed", "interrupted"}
  BY DEF RunSkip, CompleteStep, Continues, AtLoopTop
<1>3. ex[p] \in Doc(N) /\ N \in Nat /\ ex[p].next \in 1 .. N
  <2>1. pc[p] = "complete" => pc[p] \in BusyLabels
    BY DEF BusyLabels, StepLabels, ApprovedLabels
  <2>2. pc[p] = "run" => ex[p].next <= N
    BY DEF RunSkip, CompleteStep, Continues, AtLoopTop
  <2>3. QED
    BY <1>2, <2>1, <2>2, DoubtFacts, DraftFacts, Busy
<1>4. s \in StepStatus /\ s \notin {"failed", "canceled"}
  BY DEF Finished, StepStatus
<1>5. /\ d \in Doc(N) /\ d.rev = ex[p].rev
      /\ \A i \in 1 .. N : d.steps[i].status = IF i = ex[p].next THEN s ELSE ex[p].steps[i].status
  BY <1>3, <1>4, PassedFacts
<1>6. "run" \in MuteLabels \ {"record", "recovery"}
  BY DEF MuteLabels
<1>7. Saves(p, d, FALSE, "run", "release")
  BY <1>1
<1> HIDE DEF d
<1>8. \A i \in 1 .. N : \/ d.steps[i].status = ex[p].steps[i].status
                        \/ i = ex[p].next /\ d.steps[i].status \notin {"failed", "canceled"}
  BY <1>4, <1>5
<1>9. QED
  BY <1>2, <1>5, <1>6, <1>7, <1>8, OpenSaves

LEMMA LoopSavesDoubt ==
    ASSUME Before, NEW p \in Procs, RunStart(p) \/ RunFinish(p) \/ SaveIncomplete(p)
    PROVE  DoubtInv'
<1>1. pc[p] \notin {"idle", "release", "claimed", "interrupted"}
  BY DEF RunStart, RunFinish, SaveIncomplete, Continues, AtLoopTop
<1>2. ex[p] \in Doc(N) /\ N \in Nat
  BY DoubtFacts
<1>3. {"step", "release"} \subseteq MuteLabels \ {"record", "recovery"}
  BY DEF MuteLabels
<1>4. CASE RunStart(p)
  <2> DEFINE d == WithStep(ex[p], "running")
  <2>1. "running" \in StepStatus
    BY DEF StepStatus
  <2>2. /\ d \in Doc(N) /\ d.rev = ex[p].rev
        /\ \A i \in 1 .. N : d.steps[i].status = IF i = ex[p].next THEN "running"
                                                 ELSE ex[p].steps[i].status
    BY <1>2, <2>1, WithStepFacts
  <2>3. Saves(p, d, FALSE, "step", "release")
    BY <1>4 DEF RunStart
  <2> HIDE DEF d
  <2>4. QED
    BY <1>1, <1>3, <2>2, <2>3, OpenSaves
<1>5. CASE RunFinish(p)
  <2> DEFINE d == [ex[p] EXCEPT !.status = "completed"]
  <2>1. d \in Doc(N) /\ d.rev = ex[p].rev /\ d.steps = ex[p].steps
    BY <1>2 DEF Doc, ExecutionStatus, TerminalStatus
  <2>2. Saves(p, d, FALSE, "release", "release")
    BY <1>5 DEF RunFinish
  <2> HIDE DEF d
  <2>3. QED
    BY <1>1, <1>3, <2>1, <2>2, OpenSaves
<1>6. CASE SaveIncomplete(p)
  <2>1. Saves(p, ex[p], FALSE, "release", "release")
    BY <1>6 DEF SaveIncomplete
  <2>2. QED
    BY <1>1, <1>2, <1>3, <2>1, OpenSaves
<1>7. QED
  BY <1>4, <1>5, <1>6

-----------------------------------------------------------------------------
\* Steps and calls

\* A process that has made a call, or is about to, and goes to fail: the call was
\* of a tool whose failure says that nothing happened.
LEMMA FailsKnown ==
    ASSUME Before, NEW p \in Procs, Goto(p, "fail"), pc[p] \notin {"claimed", "interrupted"},
           ex[p].rev = row.rev => Untouched(Workflow, ex[p], calls)
    PROVE  DoubtInv'
<1>1. Discreet(Workflow, WorkerOf[p], "fail", ex[p], row, calls, Shut(claim[p], lease, now))
  BY DEF Discreet, AttendedLabels, AcquireTargets, CallLabels, ClosingLabels
<1>2. QED
  BY <1>1, DoubtGoto

LEMMA ProceedDoubt ==
    ASSUME Before, NEW p \in Procs, Proceed(p)
    PROVE  DoubtInv'
<1>1. pc[p] = "step" /\ ~Refused(ex[p]) /\ budget.faults = 0
  BY DEF Proceed, Before, DoubtInv
<1>2. PICK label \in {"request", "attempt", "complete"} :
        /\ pc' = [pc EXCEPT ![p] = label]
        /\ label = "attempt" => ~AwaitsApproval(ex[p]) /\ StepOf(ex[p]).kind = "tool"
  BY DEF Proceed
<1>3. UNCHANGED <<world, store, ex, claim, budget, history>>
  BY DEF Proceed
<1>4. label = "attempt" => ~RetryForbidden(Workflow[ex[p].next])
  BY <1>1, <1>2 DEF Refused, StepOf
<1>5. Discreet(Workflow, WorkerOf[p], label, ex[p], row, calls, Shut(claim[p], lease, now))
  BY <1>4 DEF Discreet, AttendedLabels, AcquireTargets, CallLabels, ClosingLabels
<1>6. ex' = [ex EXCEPT ![p] = ex[p]]
  BY <1>3, DoubtFacts
<1>7. ~Exposed(Workflow, label, ex[p], row, calls)
  BY DEF Exposed, DoubtLabels
<1>8. QED
  BY <1>1, <1>2, <1>3, <1>5, <1>6, <1>7, DoubtMoves DEF world, store, history

LEMMA RequestDoubt ==
    ASSUME Before, NEW p \in Procs, RequestApproval(p)
    PROVE  DoubtInv'
<1>1. pc[p] = "request" /\ pc[p] \in ReadyLabels /\ budget.faults = 0
  BY DEF RequestApproval, ReadyLabels, Before, DoubtInv
<1>2. CASE Goto(p, "fail")
  BY <1>1, <1>2, ReadyUntouched, FailsKnown
<1>3. CASE /\ pc' = [pc EXCEPT ![p] = "await"]
           /\ \E doc : ex' = [ex EXCEPT ![p] = doc]
           /\ UNCHANGED <<world, store, claim, live, try, budget, history>>
  <2>1. PICK doc : ex' = [ex EXCEPT ![p] = doc]
    BY <1>3
  <2>2. /\ Discreet(Workflow, WorkerOf[p], "await", doc, row, calls, Shut(claim[p], lease, now))
        /\ ~Exposed(Workflow, "await", doc, row, calls)
    BY MuteDiscreet DEF MuteLabels, Exposed
  <2>3. QED
    BY <1>1, <1>3, <2>1, <2>2, DoubtMoves DEF world, store, history
<1>4. CASE ex' = [ex EXCEPT ![p] =
                 [WithStep(@, "awaiting_approval") EXCEPT
                    !.pending = Len(approvals) + 1,
                    !.status = "awaiting_approval"]]
  <2> DEFINE doc == [WithStep(ex[p], "awaiting_approval") EXCEPT
                       !.pending = Len(approvals) + 1, !.status = "awaiting_approval"]
  <2>1. ex' = [ex EXCEPT ![p] = doc]
    BY <1>4
  <2>2. \E d : ex' = [ex EXCEPT ![p] = d]
    BY <2>1
  <2>3. QED
    BY <1>2, <1>3, <2>2 DEF RequestApproval
<1>5. QED
  BY <1>2, <1>4 DEF RequestApproval

LEMMA AwaitDoubt ==
    ASSUME Before, NEW p \in Procs, AwaitApproval(p)
    PROVE  DoubtInv'
<1>1. /\ pc[p] = "await" /\ pc[p] \notin {"idle", "release", "claimed", "interrupted"}
      /\ Saves(p, ex[p], FALSE, "save_incomplete", "fail")
  BY DEF AwaitApproval
<1>2. ex[p] \in Doc(N) /\ N \in Nat /\ Draft(N, pc[p], ex[p], row, live[p])
  BY <1>1, DoubtFacts, DraftFacts
<1>3. Accepts(p, ex[p]) => NothingFiled(Workflow, ex[p], calls)
  BY <1>1, <1>2, OpenFiles
<1>4. ex[p].rev = row.rev => Untouched(Workflow, ex[p], calls)
  <2>1. ex[p].next <= N => ex[p].steps[ex[p].next].status = "awaiting_approval"
    BY <1>1, <1>2 DEF Draft
  <2>2. ex[p].rev = row.rev => Counted(Workflow, ex[p], calls, notRun)
    BY <1>1, DoubtFacts, FlightFacts
  <2>3. QED
    BY <1>2, <2>1, <2>2, NotStartedUntouched
<1>5. Discreet(Workflow, WorkerOf[p], "fail", ex[p], row, calls, Shut(claim[p], lease, now))
  BY <1>4 DEF Discreet, AttendedLabels, AcquireTargets, CallLabels, ClosingLabels
<1>6. ~Exposed(Workflow, "fail", ex[p], row, calls)
  BY <1>4 DEF Exposed
<1>7. /\ "save_incomplete" \notin AttendedLabels \cup ClosingLabels \cup DoubtLabels
                                  \cup DOMAIN AcquireTargets
      /\ "save_incomplete" \notin CallLabels
  BY MuteDiscreet DEF MuteLabels
<1>8. QED
  BY <1>1, <1>2, <1>3, <1>5, <1>6, <1>7, DoubtSaves

\* An attempt that cannot be saved fails before its call.
LEMMA AttemptDoubt ==
    ASSUME Before, NEW p \in Procs, Attempt(p)
    PROVE  DoubtInv'
<1> DEFINE d == [ex[p] EXCEPT !.steps[ex[p].next].attempts = try[p]]
<1>1. /\ pc[p] = "attempt" /\ pc[p] \notin {"idle", "release", "claimed", "interrupted"}
      /\ Saves(p, d, FALSE, "called", "fail") /\ pc[p] \in CallLabels
  BY DEF Attempt, CallLabels
<1>2. ex[p] \in Doc(N) /\ N \in Nat /\ try[p] \in Nat
      /\ Discreet(Workflow, WorkerOf[p], pc[p], ex[p], row, calls, Shut(claim[p], lease, now))
  BY DoubtFacts DEF ExecInv, Types, LeaseTypes
<1>3. /\ d \in Doc(N) /\ d.rev = ex[p].rev /\ d.next = ex[p].next
      /\ \A i \in 1 .. N : d.steps[i].status = ex[p].steps[i].status
  BY <1>2, AttemptShape
<1> HIDE DEF d
<1>4. Accepts(p, d) => NothingFiled(Workflow, d, calls)
  BY <1>1, <1>3, OpenFiles
<1>5. d.rev = row.rev => Untouched(Workflow, d, calls)
  BY <1>1, <1>3, FirstAttempt DEF Untouched
<1>6. Discreet(Workflow, WorkerOf[p], "fail", d, row, calls, Shut(claim[p], lease, now))
  BY <1>5 DEF Discreet, AttendedLabels, AcquireTargets, CallLabels, ClosingLabels
<1>7. ~Exposed(Workflow, "fail", d, row, calls)
  BY <1>5 DEF Exposed
<1>8. "called" \notin AttendedLabels \cup ClosingLabels \cup DoubtLabels \cup DOMAIN AcquireTargets
  BY DEF AttendedLabels, ClosingLabels, DoubtLabels, AcquireTargets
<1>9. ~RetryForbidden(Workflow[d.next])
  BY <1>1, <1>2, <1>3 DEF Discreet
<1>10. QED
  BY <1>1, <1>3, <1>4, <1>6, <1>7, <1>8, <1>9, DoubtSaves

\* The call: who may save it owns the execution, alone.
LEMMA CallToolDoubt ==
    ASSUME Before, NEW p \in Procs, CallTool(p)
    PROVE  DoubtInv'
<1>1. /\ pc[p] = "called" /\ pc[p] \in CallLabels /\ pc[p] \in BusyLabels
      /\ pc[p] \notin EditedLabels \cup {"idle", "release"} /\ budget.faults = 0
  BY LabelKinds DEF CallTool, CallLabels, Before, DoubtInv
<1>2. /\ Save(p, ex[p], FALSE, "tool", "fail")
      /\ calls' = IF pc'[p] = "tool" THEN [calls EXCEPT ![ex[p].next] = @ + 1] ELSE calls
      /\ UNCHANGED <<deployment, now, lease, fence, claim, notRun>>
  BY DEF CallTool, world
<1>3. /\ ex[p] \in Doc(N) /\ ex[p].next \in 1 .. N /\ ex[p].steps[ex[p].next].status = "running"
      /\ Steps = 1 .. N /\ N = Len(Workflow) /\ calls \in [Steps -> Nat] /\ pc \in [Procs -> Labels]
      /\ Discreet(Workflow, WorkerOf[p], pc[p], ex[p], row, calls, Shut(claim[p], lease, now))
  BY <1>1, DoubtFacts, Busy
<1>4. CASE /\ Accepts(p, ex[p]) /\ row' = [ex[p] EXCEPT !.rev = @ + 1] /\ budget' = budget
           /\ ex' = [ex EXCEPT ![p] = row'] /\ pc' = [pc EXCEPT ![p] = "tool"]
  <2>1. ex[p].rev = row.rev /\ UpdatePermitted(claim[p], lease, now)
    BY <1>4 DEF Accepts, ValidUpdate
  <2>2. ex[p] = row
    BY <1>1, <2>1, DoubtFacts, Unedited
  <2>3. calls' = [calls EXCEPT ![row.next] = @ + 1] /\ calls' \in [Steps -> Nat]
    BY <1>2, <1>3, <1>4, <2>2
  <2>4. NothingFiled(Workflow, ex[p], calls')
    <3>1. NothingFiled(Workflow, row, calls)
      BY DEF Before, DoubtInv
    <3>2. QED
      BY <1>3, <2>2, <2>3, <3>1 DEF NothingFiled
  <2>5. ASSUME NEW q \in Procs, q # p PROVE ~Grasps(claim[q], lease, now)
    <3> SUFFICES ASSUME Grasps(claim[q], lease, now) PROVE FALSE
      OBVIOUS
    <3>1. /\ Held(claim[q]) /\ claim[q].owner = lease.owner /\ claim[q].token = lease.token
      BY DEF Grasps, StillGranted, SameGrant
    <3>2. Held(lease)
      BY <3>1 DEF Held
    <3>3. claim[p].owner = lease.owner /\ claim[p].token = lease.token
      BY <2>1, <3>2 DEF UpdatePermitted, StillGranted, SameGrant
    <3>4. TokensInv /\ Held(claim[p])
      BY <3>2, <3>3 DEF Before, DoubtInv, Held
    <3>5. QED
      BY <2>5, <3>1, <3>3, <3>4 DEF TokensInv
  <2>6. ~RetryForbidden(Workflow[ex[p].next])
    BY <1>1, <1>3 DEF Discreet
  <2>7. "tool" \notin AttendedLabels \cup ClosingLabels \cup {"fail"}
        /\ "tool" \notin DOMAIN AcquireTargets
    BY DEF AttendedLabels, ClosingLabels, AcquireTargets
  <2>8. budget'.faults = 0
    BY <1>1, <1>4
  <2>9. QED
    BY <1>2, <1>3, <1>4, <2>1, <2>3, <2>4, <2>5, <2>6, <2>7, <2>8, DoubtStores
<1>5. CASE /\ row' = row /\ budget' = budget
           /\ ex' = [ex EXCEPT ![p] = ex[p]] /\ pc' = [pc EXCEPT ![p] = "fail"]
  <2>1. calls' = calls
    BY <1>2, <1>3, <1>5
  <2>2. ex[p].rev = row.rev => Untouched(Workflow, ex[p], calls)
    BY <1>1, FirstAttempt
  <2>3. /\ Discreet(Workflow, WorkerOf[p], "fail", ex[p], row, calls, Shut(claim[p], lease, now))
        /\ ~Exposed(Workflow, "fail", ex[p], row, calls)
    BY <2>2 DEF Discreet, AttendedLabels, AcquireTargets, CallLabels, ClosingLabels, Exposed
  <2>4. budget'.faults = 0
    BY <1>1, <1>5
  <2>5. QED
    BY <1>1, <1>2, <1>5, <2>1, <2>3, <2>4, DoubtMoves
<1>6. QED
  BY <1>1, <1>2, <1>4, <1>5 DEF Save

LEMMA ToolDoubt ==
    ASSUME Before, NEW p \in Procs,
           ToolSucceeds(p) \/ ToolOutputRejected(p) \/ ToolFails(p) \/ ToolRetries(p)
    PROVE  DoubtInv'
<1>1. /\ pc[p] = "tool" /\ pc[p] \in CallLabels /\ pc[p] \in DoubtLabels
      /\ pc[p] \notin {"claimed", "interrupted"} /\ budget.faults = 0
  BY DEF ToolSucceeds, ToolOutputRejected, ToolFails, ToolRetries, CallLabels, DoubtLabels,
         Before, DoubtInv
<1>2. ASSUME Goto(p, "record") \/ Goto(p, "recovery") PROVE DoubtInv'
  BY <1>1, <1>2, DoubtMutes DEF MuteLabels
<1>3. ASSUME Goto(p, "fail"), ex[p].rev = row.rev => ~UncertainAfterFailure(StepOf(ex[p]))
      PROVE  DoubtInv'
  <2>1. ex[p].rev = row.rev => Untouched(Workflow, ex[p], calls)
    BY <1>3 DEF Untouched, StepOf
  <2>2. QED
    BY <1>1, <1>3, <2>1, FailsKnown
<1>4. CASE ToolSucceeds(p)
  BY <1>2, <1>4 DEF ToolSucceeds
<1>5. CASE ToolOutputRejected(p)
  <2>1. ~SideEffecting(StepOf(ex[p])) => ~UncertainAfterFailure(StepOf(ex[p]))
    BY DEF SideEffecting, UncertainAfterFailure
  <2>2. QED
    BY <1>2, <1>3, <1>5, <2>1 DEF ToolOutputRejected
<1>6. CASE ToolFails(p)
  BY <1>2, <1>3, <1>6 DEF ToolFails
<1>7. CASE ToolRetries(p)
  <2>1. ex[p].rev = row.rev => ~UncertainAfterFailure(StepOf(ex[p]))
    BY <1>1, <1>7, FirstAttempt DEF ToolRetries
  <2>2. CASE Goto(p, "fail")
    BY <1>3, <2>1, <2>2
  <2>3. CASE /\ pc' = [pc EXCEPT ![p] = "attempt"]
             /\ UNCHANGED <<world, store, approvals, ex, claim, live, budget, history>>
    <3>1. Discreet(Workflow, WorkerOf[p], pc[p], ex[p], row, calls, Shut(claim[p], lease, now))
      BY DoubtFacts
    <3>2. /\ Discreet(Workflow, WorkerOf[p], "attempt", ex[p], row, calls, Shut(claim[p], lease, now))
          /\ ~Exposed(Workflow, "attempt", ex[p], row, calls)
      BY <1>1, <3>1 DEF Discreet, AttendedLabels, AcquireTargets, CallLabels, ClosingLabels,
           Exposed, DoubtLabels
    <3>3. ex' = [ex EXCEPT ![p] = ex[p]]
      BY <2>3, DoubtFacts
    <3>4. QED
      BY <1>1, <2>3, <3>2, <3>3, DoubtMoves DEF world, store, history
  <2>4. QED
    BY <1>7, <2>2, <2>3 DEF ToolRetries
<1>8. QED
  BY <1>4, <1>5, <1>6, <1>7

\* A result that cannot be saved, of a tool with side effects, needs recovery.
LEMMA RecordResultDoubt ==
    ASSUME Before, NEW p \in Procs, RecordResult(p)
    PROVE  DoubtInv'
<1> DEFINE label == IF SideEffecting(StepOf(ex[p])) THEN "recovery" ELSE "fail"
<1>1. /\ pc[p] = "record" /\ pc[p] \in DoubtLabels
      /\ pc[p] \notin {"idle", "release", "claimed", "interrupted"}
      /\ Saves(p, ex[p], TRUE, "complete", label)
  BY DEF RecordResult, DoubtLabels
<1>2. ex[p] \in Doc(N) /\ N \in Nat
  BY DoubtFacts
<1>3. Accepts(p, ex[p]) => NothingFiled(Workflow, ex[p], calls)
  BY <1>1, <1>2, OpenFiles
<1>4. Discreet(Workflow, WorkerOf[p], label, ex[p], row, calls, Shut(claim[p], lease, now))
  <2>1. CASE SideEffecting(StepOf(ex[p]))
    BY <2>1, MuteDiscreet DEF MuteLabels
  <2>2. CASE ~SideEffecting(StepOf(ex[p]))
    <3>1. Untouched(Workflow, ex[p], calls)
      BY <2>2 DEF Untouched, UncertainAfterFailure, SideEffecting, StepOf
    <3>2. Discreet(Workflow, WorkerOf[p], "fail", ex[p], row, calls, Shut(claim[p], lease, now))
      BY <3>1 DEF Discreet, AttendedLabels, AcquireTargets, CallLabels, ClosingLabels
    <3>3. QED
      BY <2>2, <3>2
  <2>3. QED
    BY <2>1, <2>2
<1>5. Exposed(Workflow, label, ex[p], row, calls) => Exposed(Workflow, pc[p], ex[p], row, calls)
  BY <1>1 DEF Exposed
<1>6. /\ "complete" \notin AttendedLabels \cup ClosingLabels \cup DoubtLabels \cup DOMAIN AcquireTargets
      /\ "complete" \notin CallLabels
  BY MuteDiscreet DEF MuteLabels
<1> HIDE DEF label
<1>7. QED
  BY <1>1, <1>2, <1>3, <1>4, <1>5, <1>6, DoubtSaves

\* A recovery that the store refuses to who is current: whatever the process
\* saves afterwards is refused as well.
LEMMA RequireRecoveryDoubt ==
    ASSUME Before, NEW p \in Procs, RequireRecovery(p)
    PROVE  DoubtInv'
<1> DEFINE d == RecoveryRequired(ex[p])
<1>1. /\ pc[p] = "recovery" /\ pc[p] \in DoubtLabels /\ pc[p] \in BusyLabels
      /\ pc[p] \notin EditedLabels \cup {"idle", "release"}
      /\ pc[p] \notin {"claimed", "interrupted"}
      /\ Saves(p, d, TRUE, "save_incomplete", "fail")
  BY LabelKinds DEF RequireRecovery, DoubtLabels
<1>2. /\ ex[p] \in Doc(N) /\ N \in Nat /\ ex[p].next \in 1 .. N /\ ex[p].pending = 0
      /\ ex[p].steps[ex[p].next].status = "running"
      /\ ex[p].rev = row.rev => ex[p] = row
  BY <1>1, DoubtFacts, Busy, Unedited
<1>3. /\ d \in Doc(N) /\ d.rev = ex[p].rev /\ d.next = ex[p].next
      /\ \A i \in 1 .. N :
            d.steps[i].status = IF i = ex[p].next THEN "recovery_required" ELSE ex[p].steps[i].status
  <2>1. "recovery_required" \in StepStatus /\ "recovery_required" \in ExecutionStatus
    BY DEF StepStatus, ExecutionStatus
  <2>2. QED
    BY <1>2, <2>1, StepShape DEF RecoveryRequired
<1>4. ~Accepts(p, d) /\ d.rev = row.rev => Untouched(Workflow, d, calls) \/ Shut(claim[p], lease, now)
  <2> SUFFICES ASSUME ~Accepts(p, d), d.rev = row.rev, ~Untouched(Workflow, d, calls)
               PROVE  Shut(claim[p], lease, now)
    OBVIOUS
  <2>1. ex[p] = row /\ ~Untouched(Workflow, ex[p], calls)
    BY <1>2, <1>3 DEF Untouched
  <2>2. row.status \in {"running", "recovery_required"}
    BY <1>1, <2>1, ExposedRow DEF Exposed
  <2>3. ~UpdatePermitted(claim[p], lease, now)
    BY <1>2, <2>1, <2>2, RecoveryIsTaken
  <2>4. QED
    BY <2>3 DEF UpdatePermitted, Shut
<1>5. Exposed(Workflow, "fail", d, row, calls) => Exposed(Workflow, pc[p], ex[p], row, calls)
  BY <1>1, <1>3 DEF Exposed, Untouched
<1>6. /\ "save_incomplete" \notin AttendedLabels \cup ClosingLabels \cup DoubtLabels
                                  \cup DOMAIN AcquireTargets
      /\ "save_incomplete" \notin CallLabels
  BY MuteDiscreet DEF MuteLabels
<1> HIDE DEF d
<1>7. Accepts(p, d) => NothingFiled(Workflow, d, calls)
  <2>1. \A i \in 1 .. N : \/ d.steps[i].status = ex[p].steps[i].status
                          \/ i = ex[p].next /\ d.steps[i].status \notin {"failed", "canceled"}
    BY <1>3
  <2>2. QED
    BY <1>1, <1>3, <2>1, OpenFiles
<1>8. ~Accepts(p, d) =>
        Discreet(Workflow, WorkerOf[p], "fail", d, row, calls, Shut(claim[p], lease, now))
  BY <1>4 DEF Discreet, AttendedLabels, AcquireTargets, CallLabels, ClosingLabels
<1>9. QED
  BY <1>1, <1>3, <1>5, <1>6, <1>7, <1>8, DoubtSaves

-----------------------------------------------------------------------------
\* Every step

LEMMA InitDoubt ==
    ASSUME Init, Given
    PROVE  DoubtInv
<1>1. /\ deployment \in Deployments /\ deployment \in Deployment
      /\ pc = [p \in Procs |-> "idle"] /\ claim = [p \in Procs |-> NoLease]
      /\ lease = NoLease /\ fence = 0 /\ calls = [i \in Steps |-> 0] /\ notRun = [i \in Steps |-> 0]
      /\ budget.faults = 0
  BY DeploymentsAssumption DEF Init, Given, NoFaults
<1>2. Steps = 1 .. Len(Workflow)
  BY <1>1, WorkflowType
<1>3. ~Held(NoLease) /\ NoLease.token = 0
  BY DEF Held, NoLease
<1>4. TokensInv
  BY <1>1, <1>3 DEF TokensInv
<1>5. NothingFiled(Workflow, row, calls)
  BY <1>1, <1>2 DEF NothingFiled
<1>6. ASSUME NEW p \in Procs
      PROVE  Discreet(Workflow, WorkerOf[p], pc[p], ex[p], row, calls, Shut(claim[p], lease, now))
  BY <1>1, MuteDiscreet DEF MuteLabels
<1>7. ASSUME NEW p \in Procs, NEW q \in Procs PROVE Guarded(p, q)
  BY <1>1 DEF Guarded, Exposed, DoubtLabels
<1>8. QED
  BY <1>1, <1>4, <1>5, <1>6, <1>7 DEF DoubtInv

LEMMA NextDoubt ==
    ASSUME Before, [Next]_vars
    PROVE  DoubtInv'
<1>1. CASE \/ UNCHANGED vars \/ Tick \/ \E id \in DOMAIN approvals : Decide(id)
           \/ \E p \in Procs : Renew(p) \/ LeaseLost(p) \/ Shutdown(p)
  BY <1>1, QuietDoubt
<1>2. ASSUME NEW p \in Procs, Enter(p) PROVE DoubtInv'
  BY <1>2, EntersDoubt
<1>3. ASSUME NEW p \in Procs, Continue(p) PROVE DoubtInv'
  <2>1. budget.faults = 0 /\ pc[p] \notin AttendedLabels
    BY DoubtFacts DEF DoubtInv, Discreet
  <2>2. /\ ~PreflightFault(p) /\ ~PreCallFault(p) /\ ~Cancel(p)
        /\ ~RecoverRefused(p) /\ ~RecoverCompleted(p) /\ ~RecoverNotRun(p) /\ ~RecoverClosed(p)
    <3>1. ~(budget.faults > 0) /\ pc[p] # "cancel" /\ pc[p] # "recover_op"
      BY <2>1 DEF AttendedLabels
    <3>2. ~PreflightFault(p) /\ ~PreCallFault(p)
      BY <3>1, Zenon DEF PreflightFault, PreCallFault
    <3>3. /\ ~Cancel(p)
          /\ ~RecoverRefused(p) /\ ~RecoverCompleted(p) /\ ~RecoverNotRun(p) /\ ~RecoverClosed(p)
      BY <3>1, Zenon DEF Cancel, RecoverRefused, RecoverCompleted, RecoverNotRun, RecoverClosed
    <3>4. QED
      BY <3>2, <3>3
  <2>3. CASE Acquire(p) \/ ResumeClaimed(p) \/ ResumeInterrupted(p) \/ Resume(p)
    BY <2>3, AcquireDoubt, ResumeClaimedDoubt, ResumeInterruptedDoubt, ResumeDoubt
  <2>4. CASE ExpirePending(p) \/ ExpireExecution(p) \/ Reject(p) \/ Fail(p) \/ CancelCheckpoint(p)
    BY <2>4, ExpirePendingDoubt, ExpireExecutionDoubt, ClosingDoubt
  <2>5. CASE \/ RunExpired(p) \/ RunAborted(p) \/ Refuse(p) \/ RunSkip(p) \/ CompleteStep(p)
             \/ RunStart(p) \/ RunFinish(p) \/ SaveIncomplete(p)
    BY <2>5, LoopDoubt, PassDoubt, LoopSavesDoubt
  <2>6. CASE Proceed(p) \/ RequestApproval(p) \/ AwaitApproval(p) \/ Attempt(p) \/ CallTool(p)
    BY <2>6, ProceedDoubt, RequestDoubt, AwaitDoubt, AttemptDoubt, CallToolDoubt
  <2>7. CASE ToolSucceeds(p) \/ ToolOutputRejected(p) \/ ToolFails(p) \/ ToolRetries(p)
             \/ RecordResult(p) \/ RequireRecovery(p)
    BY <2>7, ToolDoubt, RecordResultDoubt, RequireRecoveryDoubt
  <2>8. CASE Release(p)
    BY <2>8, EndsDoubt
  <2>9. QED
    BY <1>3, <2>2, <2>3, <2>4, <2>5, <2>6, <2>7, <2>8 DEF Continue
<1>4. ASSUME NEW p \in Procs, Environment(p) PROVE DoubtInv'
  BY <1>1, <1>4, EndsDoubt DEF Environment
<1>5. QED
  BY <1>1, <1>2, <1>3, <1>4 DEF Next

LEMMA DoubtHolds == Spec /\ Given => []Before
<1>1. Init /\ Given => Before
  BY InitHolds, InitFlies, InitDraft, InitDoubt DEF Before
<1>2. Before /\ [Next]_vars => Before'
  <2> SUFFICES ASSUME Before, [Next]_vars PROVE Before'
    OBVIOUS
  <2>1. ExecInv' /\ FlightInv' /\ deployment' = deployment
    BY NextKeeps, NextFlies DEF Before, Kept
  <2>2. DraftInv' /\ DoubtInv'
    BY NextDraft, NextDoubt DEF Before
  <2>3. Given'
    BY <2>1, SameHosts DEF Before, Given, NoFaults, Unattended, Entries
  <2>4. QED
    BY <2>1, <2>2, <2>3 DEF Before
<1>3. QED
  BY <1>1, <1>2, PTL DEF Spec

LEMMA AttendedStays ==
    Spec => [](ExecInv /\ FlightInv) /\ (~Unattended => []~Unattended)
<1>1. Init => ExecInv /\ FlightInv
  BY InitHolds, InitFlies
<1>2. ExecInv /\ FlightInv /\ [Next]_vars => (ExecInv /\ FlightInv)'
  BY NextKeeps, NextFlies DEF Kept
<1>3. ~Unattended /\ ExecInv /\ FlightInv /\ [Next]_vars => ~Unattended'
  BY NextFlies DEF Kept, Unattended, Entries
<1>4. QED
  BY <1>1, <1>2, <1>3, PTL DEF Spec

(* UncertainCallNotHidden, where no fault of a store, a policy engine or a  *)
(* preflight comes between a call and the checkpoint of its outcome, and    *)
(* the snapshot a claim gives is looked at again: a call whose outcome      *)
(* cannot be known is not filed as failed or canceled, through any crashes, *)
(* lost leases, takeovers, deadlines and shutdowns.                         *)
THEOREM UncertaintyIsKept ==
    Spec /\ SnapshotsChecked /\ NoFaults => []UncertainCallNotHidden
<1>1. Before => UncertainCallNotHidden
  <2> SUFFICES ASSUME Before PROVE UncertainCallNotHidden
    OBVIOUS
  <2>1. NothingFiled(Workflow, row, calls) /\ Steps = 1 .. Len(Workflow)
    BY WorkflowType DEF Before, DoubtInv, ExecInv, Types
  <2>2. QED
    BY <2>1 DEF UncertainCallNotHidden, NothingFiled, UncertainAfterFailure
<1>2. ~Unattended => UncertainCallNotHidden
  BY DEF Unattended, UncertainCallNotHidden
<1>3. Given <=> SnapshotsChecked /\ NoFaults /\ Unattended
  BY DEF Given
<1>4. QED
  BY <1>1, <1>2, <1>3, DoubtHolds, AttendedStays, PTL

===============================================================================
