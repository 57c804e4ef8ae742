---------------------------- MODULE ForgeControl ----------------------------
(***************************************************************************)
(* Forge processes (CLI or MCP, each with its own mode) over one record    *)
(* store and one working tree.  Every mutating operation observes the tree *)
(* and the history, asks the state machine, observes again for the record  *)
(* it builds or runs a workflow, and only then commits: the store's        *)
(* expected generation is read by the commit itself, not by the            *)
(* authorization.  The tree may be edited between any two of these.        *)
(***************************************************************************)
EXTENDS NativeLifecycle

CONSTANTS Procs,       \* Forge processes
          Mode,        \* the mode each was started in
          Native,      \* the processes that selected the native adapter
          MaxHistory,  \* bound: operations start only on a shorter history
          MaxAfterSelection, \* bound: or on so many records more, one being a selection
          MaxEdits,    \* bound: edits of the working tree
          Restore      \* whether an edit may bring back an earlier identity

\* The identity an inspection asks about a candidate that is yet to be made.
prospective == "prospective-candidate-identity"

\* Identities are digests: no content is an authority, and none is prospective.
ASSUME ControlConstants ==
    /\ Contents \cap Auths = {} /\ prospective \notin Contents
    /\ Mode \in [Procs -> {"development", "evaluator"}]
    /\ Native \subseteq Procs
    /\ {MaxHistory, MaxAfterSelection, MaxEdits} \subseteq Nat /\ Restore \in BOOLEAN

VARIABLES tree,      \* the working tree: candidate, authority, policy, plan files
          used,      \* contents and authorities the tree has had
          edits,
          history,   \* the record store; its length is the store generation
          pc, op,
          named,     \* the epoch and candidate the caller names
          seen,      \* what the running operation observed of the tree
          draft,     \* the record it is going to commit
          gen,       \* the generation its commit expects
          reported   \* evaluation records whose run returned to its caller

env    == <<tree, used, edits>>
locals == <<named, seen, draft, gen>>
vars   == <<env, history, pc, op, locals, reported>>

DevelopmentOps == {"begin_epoch", "register", "refresh", "check", "selected",
                   "rejected", "freeze", "bundle"}
EvaluatorOps == {"evaluate", "bundle"}
OpsOf(p) == IF Mode[p] = "development" THEN DevelopmentOps ELSE EvaluatorOps

Names == [epoch : SUBSET Nat, cand : SUBSET Contents]
NoNames == [epoch |-> {}, cand |-> {}]

Init ==
    /\ tree \in View
    /\ used = {tree.content, tree.auth}
    /\ edits = 0
    /\ history = <<>>
    /\ pc = [p \in Procs |-> "idle"]
    /\ op = [p \in Procs |-> "none"]
    /\ named = [p \in Procs |-> NoNames]
    /\ seen = [p \in Procs |-> {}]
    /\ draft = [p \in Procs |-> {}]
    /\ gen = [p \in Procs |-> 0]
    /\ reported = {}

-----------------------------------------------------------------------------
\* The developer, a tool or a generator changes one kind of file.
Edit ==
    /\ edits < MaxEdits
    /\ edits' = edits + 1
    /\ \E v \in View :
         /\ \E k \in DOMAIN v : v[k] # tree[k] /\ \A j \in DOMAIN v \ {k} : v[j] = tree[j]
         /\ Restore \/ ({v.content, v.auth} \ {tree.content, tree.auth}) \cap used = {}
         /\ tree' = v
         /\ used' = used \cup {v.content, v.auth}
    /\ UNCHANGED <<history, pc, op, locals, reported>>

\* The operation returns or raises; nothing of it is left but the store.
End(p) ==
    /\ pc' = [pc EXCEPT ![p] = "idle"]
    /\ op' = [op EXCEPT ![p] = "none"]
    /\ named' = [named EXCEPT ![p] = NoNames]
    /\ seen' = [seen EXCEPT ![p] = {}]
    /\ draft' = [draft EXCEPT ![p] = {}]
    /\ gen' = [gen EXCEPT ![p] = 0]

\* refresh returns the existing candidate when it still matches the content.
RefreshNeeded == CurrentId(history) # {} /\ CurrentId(history) # {tree.content}

\* The epoch or candidate a call of o names, as an inspection shows it; a check
\* or a bundle may leave the candidate to Forge.
NamesOf(o) ==
    IF o = "begin_epoch" THEN {[epoch |-> ActiveEpoch(history), cand |-> {}]}
    ELSE IF o = "evaluate" THEN {NoNames}
    ELSE IF o \in {"check", "bundle"}
      THEN {[epoch |-> {}, cand |-> c] : c \in {{}, CurrentId(history)}}
    ELSE {[epoch |-> {}, cand |-> CurrentId(history)]}

Selections == {n \in Positions(history, "disposition") : history[n].disposition = "selected"}
Room == Len(history) < MaxHistory + (IF Selections = {} THEN 0 ELSE MaxAfterSelection)

\* A call starts by observing the policy, the plan and the candidate content.
Call(p, o) ==
    /\ pc[p] = "idle" /\ o \in OpsOf(p)
    /\ Room
    /\ o = "refresh" => RefreshNeeded
    /\ o \in {"selected", "rejected", "freeze"} => CurrentId(history) # {}
    /\ pc' = [pc EXCEPT ![p] = "authorize"]
    /\ op' = [op EXCEPT ![p] = o]
    /\ \E n \in NamesOf(o) : named' = [named EXCEPT ![p] = n]
    /\ seen' = [seen EXCEPT ![p] = {tree}]
    /\ UNCHANGED <<env, history, draft, gen, reported>>

\* The transition authority's answer to operation o.
Authorized(o, m, h, v, a) ==
    \/ o = "begin_epoch" /\ AuthorizeEpochBegin(h, a.epoch)
    \/ o \in {"register", "refresh"} /\ AuthorizeCandidateRegister(h, v, a.cand, v.content)
    \/ o = "check" /\ AuthorizeDevelopmentWork(h, v, a.cand)
    \/ o \in {"selected", "rejected"} /\ AuthorizeCandidateDisposition(h, v, a.cand, o)
    \/ o = "freeze" /\ AuthorizeCandidateFreeze(h, v, a.cand, v.plan)
    \/ o = "evaluate" /\ AuthorizeEvaluatorEntry(h, v, a.cand)
    \/ o = "bundle" /\ m = "development" /\ ~Ambiguous(h) /\ RequireCandidate(h, v, a.cand)
    \/ o = "bundle" /\ m = "evaluator" /\ AuthorizeEvaluatorEntry(h, v, a.cand)

\* Its answer when it runs under the native adapter.
NativeAuthorized(o, m, h, v, a, p) ==
    \/ o = "begin_epoch" /\ NativeEpochBegin(h, v, p, a.epoch)
    \/ o \in {"register", "refresh"} /\ NativeCandidateRegister(h, v, p, a.cand, v.content)
    \/ o = "check" /\ NativeDevelopmentWork(h, v, p, a.cand)
    \/ o \in {"selected", "rejected"} /\ NativeCandidateDisposition(h, v, p, a.cand, o)
    \/ o = "freeze" /\ NativeCandidateFreeze(h, v, p, a.cand, v.plan)
    \/ o = "evaluate" /\ NativeEvaluatorEntry(h, v, p, a.cand)
    \/ o = "bundle" /\ NativeBundle(h, v, p, a.cand, m)

MachineAuthorizes(p, h, v) ==
    IF p \in Native THEN NativeAuthorized(op[p], Mode[p], h, v, named[p],
                                            NativeProjection(h, v))
                    ELSE Authorized(op[p], Mode[p], h, v, named[p])

\* The record an authorized operation prepares from history h and view v.
Drafts(o, h, v) ==
    IF o = "begin_epoch"
      THEN {[kind |-> "epoch", parent |-> ActiveEpoch(h), auth |-> v.auth]}
    ELSE IF o \in {"register", "refresh"}
      THEN {[kind |-> "candidate", cand |-> v.content, epoch |-> e,
             parent |-> CurrentId(h)] : e \in ActiveEpoch(h)}
    ELSE IF o = "check"
      THEN {[kind |-> "result", cand |-> c, workflow |-> w, status |-> "UNKNOWN"] : c \in CurrentId(h), w \in Workflows}
    ELSE IF o \in {"selected", "rejected"}
      THEN {[kind |-> "disposition", cand |-> h[n].cand, disposition |-> o,
             policy |-> v.policy,
             evidence |-> ReadinessStatus(h, n, Required[v.policy], v)]
                : n \in CurrentCandidate(h)}
    ELSE IF o = "freeze"
      THEN {[kind |-> "freeze", cand |-> h[d].cand, auth |-> v.auth, plan |-> v.plan,
             selection |-> d] : d \in Disposition(h)}
    ELSE IF o = "evaluate"
      THEN {[kind |-> "evaluation", cand |-> h[f].cand, status |-> "UNKNOWN",
             freeze |-> f, ran |-> v.content, ranAuth |-> v.auth] : f \in Freeze(h)}
    ELSE {[kind |-> "bundle", cand |-> c] : c \in CurrentId(h)}

AfterAuthorize(o) == IF o \in {"begin_epoch", "freeze", "evaluate"} THEN "observe"
                     ELSE IF o \in {"check", "bundle"} THEN "execute" ELSE "commit"

\* What machine() has observed of the tree; s: what the call observed first.
MachineView(p, s) ==
    [content |-> s.content, auth |-> tree.auth, policy |-> s.policy,
     plan |-> IF op[p] = "freeze" THEN s.plan ELSE tree.plan]

\* machine() reads the history and then the authority; the state machine answers.
\* The changed files of a registration and the rights evidence of a selection
\* may be refused on top of that.
Authorize(p) ==
    /\ pc[p] = "authorize"
    /\ \E s \in seen[p] :
         LET v == MachineView(p, s)
         IN \/ /\ MachineAuthorizes(p, history, v)
               /\ \E d \in Drafts(op[p], history, v) : draft' = [draft EXCEPT ![p] = {d}]
               /\ pc' = [pc EXCEPT ![p] = AfterAuthorize(op[p])]
               /\ UNCHANGED <<op, named, seen, gen>>
            \/ /\ \/ op[p] \in {"register", "refresh", "selected"}
                  \/ ~MachineAuthorizes(p, history, v)
               /\ End(p)
    /\ UNCHANGED <<env, history, reported>>

\* begin_epoch and freeze observe the identities they record a second time;
\* an evaluation observes what it will compare with after the run.
Observe(p) ==
    /\ pc[p] = "observe"
    /\ \E d \in draft[p] :
         IF d.kind = "evaluation"
           THEN /\ seen' = [seen EXCEPT ![p] = {tree}]
                /\ pc' = [pc EXCEPT ![p] = "execute"]
                /\ UNCHANGED draft
           ELSE /\ draft' = [draft EXCEPT ![p] =
                       {IF d.kind = "freeze"
                          THEN With(d, [auth |-> tree.auth, plan |-> tree.plan])
                          ELSE With(d, [auth |-> tree.auth])}]
                /\ pc' = [pc EXCEPT ![p] = "commit"]
                /\ UNCHANGED seen
    /\ UNCHANGED <<env, history, op, named, gen, reported>>

\* The declared command runs on the tree as it is now and ends with any
\* status, or with an error that leaves no result.
Execute(p) ==
    /\ pc[p] = "execute"
    /\ \/ /\ \E d \in draft[p], s \in Statuses :
              draft' = [draft EXCEPT ![p] =
                {IF d.kind = "result" THEN With(d, [status |-> s])
                 ELSE IF d.kind = "evaluation"
                   THEN With(d, [status |-> s, ran |-> tree.content, ranAuth |-> tree.auth])
                 ELSE d}]
          /\ pc' = [pc EXCEPT ![p] = "commit"]
          /\ UNCHANGED <<op, named, seen, gen>>
       \/ End(p)
    /\ UNCHANGED <<env, history, reported>>

\* _commit_record: expected = self.store.current_generation.
ReadGeneration(p) ==
    /\ pc[p] = "commit"
    /\ gen' = [gen EXCEPT ![p] = Len(history)]
    /\ pc' = [pc EXCEPT ![p] = "put"]
    /\ UNCHANGED <<env, history, op, named, seen, draft, reported>>

\* Bug: the store overwrites or repeats a bound identity.
IdentityConflict_Ignored(h, d) == FALSE

\* The Store refuses a candidate identity it already binds: registered_at
\* differs, so the content does.  Every other identity is a digest of a
\* timestamped record and is new.
IdentityConflict(h, d) ==
    d.kind = "candidate" /\ \E n \in Positions(h, "candidate") : h[n].cand = d.cand

\* A check of several workflows goes on with the candidate authorized for the
\* first one.
NextWorkflow(p, d) ==
    /\ d.kind = "result" /\ Room
    /\ \E w \in Workflows : draft' = [draft EXCEPT ![p] = {With(d, [workflow |-> w])}]
    /\ pc' = [pc EXCEPT ![p] = "execute"]
    /\ UNCHANGED <<op, named, seen, gen>>

\* put_bound_object: STALE_GENERATION, IDENTITY_CONFLICT or one more record.
Put(p) ==
    /\ pc[p] = "put"
    /\ \E d \in draft[p] :
         IF gen[p] # Len(history) \/ IdentityConflict(history, d)
           THEN End(p) /\ UNCHANGED history
           ELSE /\ history' = Append(history, d)
                /\ IF d.kind = "evaluation"
                     THEN /\ pc' = [pc EXCEPT ![p] = "verify"]
                          /\ UNCHANGED <<op, named, seen, draft, gen>>
                     ELSE End(p) \/ NextWorkflow(p, d)
    /\ UNCHANGED <<env, reported>>

\* Bug: the freeze is not verified again after the run.
Undrifted_SinceStart(p) ==
    \A s \in seen[p] : s.auth = tree.auth /\ s.content = tree.content

\* After the evaluation is recorded: authority and candidate are compared with
\* those before the run and the freeze is verified again.  If nothing drifted
\* the next workflow of the call runs, or the results are returned.
Undrifted(p) ==
    /\ \A s \in seen[p] : s.auth = tree.auth /\ s.content = tree.content
    /\ MachineAuthorizes(p, history, tree)
    /\ \A d \in draft[p] : Freeze(history) = {d.freeze}

VerifyEvaluation(p) ==
    /\ pc[p] = "verify"
    /\ reported' = IF Undrifted(p) THEN reported \cup {gen[p] + 1} ELSE reported
    /\ \/ End(p)
       \/ /\ Undrifted(p) /\ Room
          /\ pc' = [pc EXCEPT ![p] = "observe"]
          /\ UNCHANGED <<op, named, seen, draft, gen>>
    /\ UNCHANGED <<env, history>>

Next ==
    \/ Edit
    \/ \E p \in Procs : \/ \E o \in DevelopmentOps \cup EvaluatorOps : Call(p, o)
                        \/ Authorize(p) \/ Observe(p) \/ Execute(p)
                        \/ ReadGeneration(p) \/ Put(p) \/ VerifyEvaluation(p)

Spec == Init /\ [][Next]_vars

-----------------------------------------------------------------------------
\* Every variable has its type; in particular whatever is committed is one of
\* the record forms the authorizers read (a readiness status is PASS, FAIL or
\* UNKNOWN, a disposition names its policy, a freeze its selection).
TypeOK ==
    /\ tree \in View
    /\ used \subseteq Contents \cup Auths
    /\ edits \in 0..MaxEdits
    /\ history \in Seq(ForgeRecord)
    /\ pc \in [Procs -> {"idle", "authorize", "observe", "execute", "commit", "put", "verify"}]
    /\ op \in [Procs -> DevelopmentOps \cup EvaluatorOps \cup {"none"}]
    /\ named \in [Procs -> Names]
    /\ seen \in [Procs -> SUBSET View]
    /\ draft \in [Procs -> SUBSET ForgeRecord]
    /\ gen \in [Procs -> Nat]
    /\ reported \in SUBSET Nat

\* A selection rests on evidence: its policy requires something, and for every
\* required workflow a PASS of the same, already registered candidate precedes
\* it in the history, whatever other processes committed since it was authorized.
SelectionBacked ==
    \A n \in Positions(history, "disposition") :
        history[n].disposition = "selected" =>
            /\ history[n].evidence = "PASS"
            /\ Required[history[n].policy] # {}
            /\ \A w \in Required[history[n].policy] :
                 \E m \in Evidence(history, history[n].cand, w) :
                     m < n /\ history[m].status = "PASS"
            /\ \E m \in Positions(history, "candidate") :
                 m < n /\ history[m].cand = history[n].cand

\* A freeze binds a selection of the same candidate that precedes it, never a
\* rejection and never a selection another process has yet to commit.
FreezeBacked ==
    \A n \in Positions(history, "freeze") :
        /\ history[n].selection \in Earlier(Positions(history, "disposition"), n)
        /\ history[history[n].selection].disposition = "selected"
        /\ history[history[n].selection].cand = history[n].cand

\* With one development process the history stays unambiguous: one epoch
\* lineage, one candidate lineage, one disposition and one freeze a candidate.
NeverAmbiguous == ~Ambiguous(history)

\* A freeze ends development of its candidate and of its epoch: no later
\* candidate joins the epoch, no later result or disposition binds the candidate.
FreezeIsFinal ==
    \A f \in Positions(history, "freeze") : \A n \in f + 1 .. Len(history) :
        /\ history[n].kind \in {"result", "disposition", "freeze"}
             => history[n].cand # history[f].cand
        /\ history[n].kind = "candidate" =>
             \A c \in Positions(history, "candidate") :
                 history[c].cand = history[f].cand => history[c].epoch # history[n].epoch

\* FAIL > UNKNOWN > PASS at selection: no result of a required workflow recorded
\* before the selection says anything but PASS.
SelectionClean ==
    \A n \in Positions(history, "disposition") :
        history[n].disposition = "selected" =>
            \A w \in Required[history[n].policy] :
                \A m \in Evidence(history, history[n].cand, w) :
                    m < n => history[m].status = "PASS"

\* A candidate identity is registered once in the life of the store.
CandidateOnce ==
    \A m, n \in Positions(history, "candidate") :
        history[m].cand = history[n].cand => m = n

\* An evaluation that was reported to its caller ran on the frozen content and
\* authority, if the tree never returns to an identity it had before.
ReportedEvaluationSound ==
    \A n \in reported :
        /\ history[n].ran = history[n].cand
        /\ \E f \in Positions(history, "freeze") :
             /\ history[f].cand = history[n].cand
             /\ history[f].auth = history[n].ranAuth

-----------------------------------------------------------------------------
(* The native adapter against the compatibility rules.                     *)

\* inspect probes the authorizers without the preflight.  It names what is
\* current and knows neither the content nor the plan that will be submitted: it
\* asks for a placeholder identity and for the evidence the policy requires.
inspect_transition(o, m, h, v, q) ==
    LET u == With(q, [preflight |-> FALSE])
    IN \/ /\ o \in {"register", "refresh"}
          /\ NativeCandidateRegister(h, v, u, CurrentId(h), prospective)
       \/ o = "freeze" /\ NativeCandidateFreeze(h, v, u, CurrentId(h), v.policy)
       \/ /\ o \notin {"register", "refresh", "freeze"}
          /\ NativeAuthorized(o, m, h, v, [epoch |-> ActiveEpoch(h), cand |-> CurrentId(h)], u)

\* What a call decides that an inspection cannot know: the caller names what is
\* current, a candidate has new content, and a plan is valid, within the bounds
\* of the envelopes and satisfied by the evidence.
SubmissionFits(o, h, v, a) ==
    /\ o = "begin_epoch" => a.epoch = ActiveEpoch(h)
    /\ o \in {"register", "refresh"} => a.cand = CurrentId(h) /\ v.content \notin CurrentId(h)
    /\ o \in {"check", "selected", "rejected", "freeze", "evaluate", "bundle"}
         => a.cand \in {{}, CurrentId(h)}
    /\ o = "freeze" => /\ ReadinessBounded(h, Required[v.plan])
                      /\ \A n \in CurrentCandidate(h) : Ready(h, n, Required[v.plan], v)

\* "A semantically mismatching native result fails closed", and inspection tells
\* the truth: a process with the native adapter is granted an operation exactly
\* when an inspection of the same history and tree lists it as allowed and the
\* submission fits, so the preflight that inspection leaves out refuses nothing
\* it promised; and what is granted the compatibility rules allow.  In particular
\* a kernel stage that replaces the host's never hides an ambiguity two
\* processes produced.
NativeFailsClosed ==
    \A p \in Procs : pc[p] = "authorize" => \A s \in seen[p] :
        LET v == MachineView(p, s)
            q == NativeProjection(history, v)
            granted == NativeAuthorized(op[p], Mode[p], history, v, named[p], q)
        IN /\ granted <=> /\ SubmissionFits(op[p], history, v, named[p])
                          /\ inspect_transition(op[p], Mode[p], history, v, q)
           /\ granted => Authorized(op[p], Mode[p], history, v, named[p])

\* Record n arrived while its candidate was the current one, results before its
\* freeze, and no earlier evaluation of the candidate is recorded.
InOrder(h, n) ==
    LET g == SubSeq(h, 1, n - 1)
    IN h[n].kind \in {"result", "disposition", "freeze", "evaluation"} =>
         /\ h[n].cand \in CurrentId(g)
         /\ h[n].kind = "result" => Freeze(g) = {}
         /\ h[n].kind = "evaluation" => OfCurrent(g, "evaluation") = {}

WithinBounds(h, v, p) ==
    /\ p.event_count <= EventBound
    /\ ReadinessBounded(h, Required[v.policy]) /\ ReadinessBounded(h, Required[v.plan])

\* The native adapter adds no refusal of its own to a history whose records
\* arrived in order, within the bounds of the envelopes: kernel projection,
\* readiness and preflight agree with every authorization of the host, and the
\* evidence status a disposition records is the same.
NativeAgrees ==
    \A p \in Procs : pc[p] = "authorize" => \A s \in seen[p] :
        LET v == MachineView(p, s)
            q == NativeProjection(history, v)
            req == Required[v.policy]
        IN (/\ Authorized(op[p], Mode[p], history, v, named[p])
            /\ WithinBounds(history, v, q)
            /\ \A n \in 1..Len(history) : InOrder(history, n)) =>
             /\ NativeAuthorized(op[p], Mode[p], history, v, named[p], q)
             /\ \A n \in CurrentCandidate(history) :
                  NativeReadinessStatus(history, n, req, v)
                      = {ReadinessStatus(history, n, req, v)}

\* FAIL > UNKNOWN > PASS over all results of the candidate, none of them left out
\* or counted twice, however the fold over the categories is arranged.
ReconcileSound ==
    \A c \in CurrentId(history) :
        LET R == {n \in Positions(history, "result") : history[n].cand = c}
            answers == native_reconciliation(history, c)
        IN /\ ReconciliationBounded(history, c) => answers # {}
           /\ \A r \in answers :
                /\ r.status = Summary({history[n].status : n \in R})
                /\ r.conflicting_category_count = 0 <=>
                     \A m, n \in R : history[m].workflow = history[n].workflow
                                       => history[m].status = history[n].status

\* "enter evaluator: current coherent freeze and selection; frozen candidate and
\* authority identities unchanged": nothing else keeps an evaluator out.
EvaluatorEntryKept ==
    AuthorizeEvaluatorEntry(history, tree, {}) =>
        NativeEvaluatorEntry(history, tree, NativeProjection(history, tree), {})

=============================================================================
