--------------------------- MODULE NativeLifecycle ---------------------------
(***************************************************************************)
(* The lifecycle decisions of a process that selected the native adapter:  *)
(* the kernels lifecycle.mncs, readiness.mncs, reconciliation.mncs and     *)
(* bundle.mncs, the adapter calls of mncs_native.py that reach them and    *)
(* the places where state_machine.py lets their answers replace its own.   *)
(*                                                                         *)
(* A digest is a set with at most one identity; the zero digest is {}.  A  *)
(* call that raises ForgeError refuses the operation that made it.         *)
(***************************************************************************)
EXTENDS Lifecycle, FiniteSets, SequencesExt

CONSTANTS EventBound,        \* events lifecycle_projection takes (32)
          ObservationBound,  \* records of a requirement or category (8)
          RequirementBound   \* requirements or categories of a call (16)

ASSUME NativeBounds == {EventBound, ObservationBound, RequirementBound} \subseteq Nat

\* The workflows are those of a configuration file.
ASSUME DeclaredWorkflows == IsFiniteSet(Workflows)

Zero == {}

\* The record r with the fields that changes names.
With(r, changes) == [x \in DOMAIN r |-> IF x \in DOMAIN changes THEN changes[x] ELSE r[x]]

\* mncs.core.lineage: a root has no parent, a successor names what is current.
valid_root_or_successor(parent, current) == parent = current

\* mncs.core.status: FAIL > UNKNOWN > PASS over the observed statuses S.
Summary(S) == IF "FAIL" \in S THEN "FAIL"
              ELSE IF "UNKNOWN" \in S \/ S = {} THEN "UNKNOWN" ELSE "PASS"
dominate(a, b) == Summary({a, b})

-----------------------------------------------------------------------------
(* The history projection.                                                 *)

Event(kind, epoch, parent_epoch, candidate, parent_candidate, status) ==
    [kind |-> kind, epoch |-> epoch, parent_epoch |-> parent_epoch,
     candidate |-> candidate, parent_candidate |-> parent_candidate, status |-> status]

EmptyEvent == Event("Empty", Zero, Zero, Zero, Zero, "UNKNOWN")

\* The event record n of the history is reduced to; req: the required evidence.
history_event(h, n, req) ==
    LET r == h[n]
        bound(kind, status) == Event(kind, Zero, Zero, {r.cand}, Zero, status)
    IN CASE r.kind = "epoch" -> Event("EpochStarted", {n}, r.parent, Zero, Zero, "UNKNOWN")
         [] r.kind = "candidate" ->
              Event("CandidateRegistered", {r.epoch}, Zero, {r.cand}, r.parent, "UNKNOWN")
         [] r.kind = "result" /\ r.workflow \in req -> bound("EvidenceObserved", r.status)
         [] r.kind = "disposition" ->
              bound(IF r.disposition = "selected" THEN "CandidateSelected"
                    ELSE "CandidateRejected", "UNKNOWN")
         [] r.kind = "freeze" -> bound("CandidateFrozen", "UNKNOWN")
         [] r.kind = "evaluation" -> bound("EvaluationRecorded", r.status)
         [] OTHER -> EmptyEvent

\* In ledger order; Empty stands for a record that makes no event.
native_history_events(h, req) == [n \in 1..Len(h) |-> history_event(h, n, req)]

projection_initial ==
    [active_epoch |-> Zero, parent_epoch |-> Zero, current_candidate |-> Zero,
     parent_candidate |-> Zero, evidence |-> "UNKNOWN", disposition |-> "undisposed",
     lineage_ok |-> TRUE, evidence_count |-> 0, frozen |-> FALSE, evaluated |-> FALSE]

\* The event is not applied and the history stays ambiguous for good.
invalid_projection(s) == With(s, [lineage_ok |-> FALSE])

project_epoch(s, e) ==
    IF e.epoch # Zero /\ valid_root_or_successor(e.parent_epoch, s.active_epoch)
      THEN With(projection_initial, [active_epoch |-> e.epoch, parent_epoch |-> e.parent_epoch,
                                     lineage_ok |-> s.lineage_ok])
      ELSE invalid_projection(s)

candidate_registered(s, e) ==
    With(s, [current_candidate |-> e.candidate, parent_candidate |-> e.parent_candidate,
             evidence |-> "UNKNOWN", disposition |-> "undisposed", evidence_count |-> 0,
             frozen |-> FALSE, evaluated |-> FALSE])

\* Bug: a candidate of a superseded epoch joins the active one.
project_candidate_AnyEpoch(s, e) ==
    IF s.active_epoch # Zero /\ e.candidate # Zero
       /\ valid_root_or_successor(e.parent_candidate, s.current_candidate)
      THEN candidate_registered(s, e)
      ELSE invalid_projection(s)

project_candidate(s, e) ==
    IF s.active_epoch # Zero /\ e.epoch = s.active_epoch /\ e.candidate # Zero
       /\ e.parent_candidate # e.candidate
       /\ valid_root_or_successor(e.parent_candidate, s.current_candidate)
      THEN candidate_registered(s, e)
      ELSE invalid_projection(s)

join_evidence(s, observed) ==
    IF s.evidence_count = 0 THEN observed ELSE dominate(s.evidence, observed)

\* Evidence may still come after the disposition, not after the freeze.
project_evidence(s, e) ==
    IF s.current_candidate # Zero /\ e.candidate = s.current_candidate
       /\ ~s.frozen /\ ~s.evaluated
      THEN With(s, [evidence |-> join_evidence(s, e.status),
                    evidence_count |-> s.evidence_count + 1])
      ELSE invalid_projection(s)

project_selected(s, e) ==
    IF e.candidate = s.current_candidate /\ s.disposition = "undisposed"
      THEN With(s, [disposition |-> "selected"])
      ELSE invalid_projection(s)

project_rejected(s, e) ==
    IF e.candidate = s.current_candidate /\ s.disposition = "undisposed"
      THEN With(s, [disposition |-> "rejected", evidence |-> "FAIL"])
      ELSE invalid_projection(s)

project_frozen(s, e) ==
    IF e.candidate = s.current_candidate /\ s.disposition = "selected" /\ ~s.frozen
      THEN With(s, [frozen |-> TRUE])
      ELSE invalid_projection(s)

project_evaluation(s, e) ==
    IF e.candidate = s.current_candidate /\ s.disposition = "selected"
       /\ s.frozen /\ ~s.evaluated
      THEN With(s, [evidence |-> join_evidence(s, e.status), evaluated |-> TRUE])
      ELSE invalid_projection(s)

project_event(s, e) ==
    CASE e.kind = "EpochStarted" -> project_epoch(s, e)
      [] e.kind = "CandidateRegistered" -> project_candidate(s, e)
      [] e.kind = "EvidenceObserved" -> project_evidence(s, e)
      [] e.kind = "CandidateSelected" -> project_selected(s, e)
      [] e.kind = "CandidateRejected" -> project_rejected(s, e)
      [] e.kind = "CandidateFrozen" -> project_frozen(s, e)
      [] e.kind = "EvaluationRecorded" -> project_evaluation(s, e)
      [] OTHER -> s

\* Bug: one PASS more than the policy requires is expected.
undisposed_stage_OneMore(s, required) ==
    IF s.evidence_count = 0 THEN "CandidateRegistered"
    ELSE IF s.evidence = "PASS" /\ s.evidence_count > required
      THEN "CandidateReady" ELSE "EvidenceIncomplete"

undisposed_stage(s, required) ==
    IF s.evidence_count = 0 THEN "CandidateRegistered"
    ELSE IF s.evidence = "PASS" /\ s.evidence_count >= required
      THEN "CandidateReady" ELSE "EvidenceIncomplete"

project_stage(s, required, bundled) ==
    IF ~s.lineage_ok THEN "AmbiguousHistory"
    ELSE IF s.active_epoch = Zero THEN "NoEpoch"
    ELSE IF s.current_candidate = Zero THEN "EpochActive"
    ELSE IF bundled THEN "BundleComplete"
    ELSE IF s.evaluated THEN "EvaluationComplete"
    ELSE IF s.frozen THEN "CandidateFrozen"
    ELSE IF s.disposition = "selected" THEN "CandidateSelected"
    ELSE IF s.disposition = "rejected" THEN "CandidateRejected"
    ELSE undisposed_stage(s, required)

project_freshness(s, content) ==
    IF s.current_candidate = Zero THEN "NotApplicable"
    ELSE IF s.current_candidate = {content} THEN "Current" ELSE "Stale"

\* The events applied in ledger order.
project_events(events) ==
    LET after[k \in 0..Len(events)] ==
            IF k = 0 THEN projection_initial ELSE project_event(after[k - 1], events[k])
    IN after[Len(events)]

\* Stage and freshness are derived at the end.
project(events, content, required, bundled) ==
    LET s == project_events(events)
    IN [projection |-> s, preflight |-> TRUE,
        event_count |-> Cardinality({n \in DOMAIN events : events[n].kind # "Empty"}),
        freshness |-> project_freshness(s, content), stage |-> project_stage(s, required, bundled)]

-----------------------------------------------------------------------------
(* Readiness: one requirement from its records, then the counts.           *)

\* What the host observes of the records of requirement w for the candidate at
\* n: the statuses, whether they are current and whether the authority matches.
normalized(h, n, w, v) ==
    LET R == Evidence(h, h[n].cand, w)
    IN [statuses |-> {h[m].status : m \in R},
        count |-> Cardinality(R),
        freshness |-> IF R = {} \/ h[n].cand = v.content THEN "Current" ELSE "Unknown",
        authority_match |-> \A e \in Positions(h, "epoch") :
                                e = h[n].epoch => h[e].auth = v.auth]

\* The kernel's answer for one requirement.
classify_requirement(q, noncomparable) ==
    IF q.count = 0 THEN "Missing"
    ELSE IF "FAIL" \in q.statuses THEN "Failed"
    ELSE IF "UNKNOWN" \in q.statuses THEN "Unknown"
    ELSE IF noncomparable THEN "NonComparable" ELSE "Present"

requirement(q) ==
    LET noncomparable == q.freshness = "Unknown" \/ ~q.authority_match
    IN [classification |-> classify_requirement(q, noncomparable),
        observed_count |-> q.count, noncomparable |-> noncomparable]

\* The fold over the requirements r: how many are in each class.
add_requirements(r) ==
    LET in(c) == Cardinality({w \in DOMAIN r : r[w].classification = c})
    IN [missing_count |-> in("Missing"), failed_count |-> in("Failed"),
        unknown_count |-> in("Unknown"),
        noncomparable_count |-> Cardinality({w \in DOMAIN r : r[w].noncomparable})]

readiness_status(ready, failed_count) ==
    IF ready THEN "PASS" ELSE IF failed_count > 0 THEN "FAIL" ELSE "UNKNOWN"

\* Ready: a valid policy, and nothing is missing, failed, unknown or incomparable.
readiness_project(r, policy_valid) ==
    LET n == add_requirements(r)
        ready == policy_valid /\ \A k \in DOMAIN n : n[k] = 0
    IN [counts |-> n, ready |-> ready, status |-> readiness_status(ready, n.failed_count)]

\* What the adapter expects of the answer to q: NATIVE_READINESS_MISMATCH if not.
requirement_expected(q, a) ==
    /\ a.observed_count = q.count
    /\ a.noncomparable = (q.freshness # "Current" \/ ~q.authority_match)

\* readiness_projection raises on an envelope beyond its bounds.
ReadinessBounded(h, req) ==
    /\ Cardinality(req) <= RequirementBound
    /\ \A n \in CurrentCandidate(h), w \in req :
         Cardinality(Evidence(h, h[n].cand, w)) <= ObservationBound

\* The readiness of the candidate at n, or {} if the adapter refuses the answer.
readiness_projection(h, n, req, v, policy_valid) ==
    LET q == [w \in req |-> normalized(h, n, w, v)]
        r == [w \in req |-> requirement(q[w])]
    IN IF ReadinessBounded(h, req) /\ \A w \in req : requirement_expected(q[w], r[w])
         THEN {readiness_project(r, policy_valid)} ELSE {}

\* A required set that is empty stands for a policy error.
NativeReady(h, n, req, v) ==
    \E r \in readiness_projection(h, n, req, v, req # {}) : r.ready
NativeReadinessStatus(h, n, req, v) ==
    {r.status : r \in readiness_projection(h, n, req, v, req # {})}

-----------------------------------------------------------------------------
(* What _project makes of them.                                            *)

\* The native answer a machine() is built from; the authorizers below take it
\* as p.
NativeProjection(h, v) ==
    project(native_history_events(h, Required[v.policy]), v.content,
            Cardinality(Required[v.policy]), OfCurrent(h, "bundle") # {})

\* NATIVE_LIFECYCLE_MISMATCH: the identities the kernel projects are compared
\* with the host's.
Mismatch(h, s) ==
    \/ ActiveEpoch(h) # {} /\ s.active_epoch # ActiveEpoch(h)
    \/ CurrentId(h) # {} /\ s.current_candidate # CurrentId(h)
    \/ \E e \in ActiveEpoch(h) : s.parent_epoch \notin {Zero, h[e].parent}
    \/ \E n \in CurrentCandidate(h) : s.parent_candidate \notin {Zero, h[n].parent}

\* machine() answers at all: every envelope is within its bound, nothing disagrees.
Projects(h, v, p) ==
    /\ ReadinessBounded(h, Required[v.policy])
    /\ \A n \in CurrentCandidate(h) :
         readiness_projection(h, n, Required[v.policy], v, TRUE) # {}
    /\ p.event_count <= EventBound
    /\ ~Mismatch(h, p.projection)

NativeUnambiguous(h, v, p) == Projects(h, v, p) /\ p.stage # "AmbiguousHistory"

\* lifecycle.mncs apply on the stage: next stage, status and reason.
apply(stage, operation, evidence) ==
    LET rejected(reason) == [stage |-> stage, status |-> "FAIL", reason |-> reason]
        outcome(next, status, reason) ==
            [stage |-> next, status |-> status, reason |-> reason]
    IN CASE stage = "AmbiguousHistory" -> rejected(90)
         [] operation = "BeginEpoch" ->
              IF stage = "NoEpoch" THEN outcome("EpochActive", "PASS", 0) ELSE rejected(2)
         [] operation = "RegisterCandidate" ->
              IF stage = "EpochActive" THEN outcome("CandidateRegistered", "UNKNOWN", 0)
              ELSE rejected(4)
         [] operation = "SelectCandidate" ->
              IF stage = "CandidateReady" /\ evidence = "PASS"
              THEN outcome("CandidateSelected", "PASS", 0) ELSE rejected(8)
         [] operation = "RejectCandidate" ->
              IF stage \in {"CandidateRegistered", "EvidenceIncomplete", "CandidateReady"}
              THEN outcome("CandidateRejected", "FAIL", 9) ELSE rejected(10)
         [] operation = "FreezeCandidate" ->
              IF stage = "CandidateSelected" THEN outcome("CandidateFrozen", "PASS", 0)
              ELSE rejected(11)

\* core.mncs builds a state with synthetic identities and applies the operation.
lifecycle_preflight(stage, operation, evidence) == apply(stage, operation, evidence)

\* _native_transition: no preflight for inspection, and none for the stage the
\* kernel has no transition from.
native_transition(p, operation, evidence, next, status, reason) ==
    p.preflight /\ p.stage # "BundleComplete" =>
        lifecycle_preflight(p.stage, operation, evidence)
            = [stage |-> next, status |-> status, reason |-> reason]

-----------------------------------------------------------------------------
(* The authorizers under a native adapter.                                 *)

NativeRequireCandidate(h, p, cand) ==
    /\ CurrentId(h) # {} /\ cand \in {{}, CurrentId(h)}
    /\ p.freshness = "Current"

NativeEpochBegin(h, v, p, epoch) ==
    /\ NativeUnambiguous(h, v, p)
    /\ epoch = ActiveEpoch(h)
    /\ ActiveEpoch(h) = {} =>
         native_transition(p, "BeginEpoch", "UNKNOWN", "EpochActive", "PASS", 0)

NativeCandidateRegister(h, v, p, parent, proposed) ==
    /\ NativeUnambiguous(h, v, p)
    /\ \E e \in ActiveEpoch(h) : h[e].auth = v.auth
    /\ Freeze(h) = {}
    /\ parent = CurrentId(h) /\ proposed \notin parent
    /\ CurrentId(h) = {} =>
         native_transition(p, "RegisterCandidate", "UNKNOWN",
                           "CandidateRegistered", "UNKNOWN", 0)

NativeDevelopmentWork(h, v, p, cand) ==
    NativeUnambiguous(h, v, p) /\ Freeze(h) = {} /\ NativeRequireCandidate(h, p, cand)

NativeCandidateDisposition(h, v, p, cand, disposition) ==
    /\ NativeUnambiguous(h, v, p)
    /\ NativeRequireCandidate(h, p, cand)
    /\ p.projection.disposition = "undisposed"
    /\ \A n \in CurrentCandidate(h) :
         IF disposition = "selected"
         THEN /\ NativeReady(h, n, Required[v.policy], v)
              /\ native_transition(p, "SelectCandidate", "PASS",
                                   "CandidateSelected", "PASS", 0)
         ELSE \E s \in NativeReadinessStatus(h, n, Required[v.policy], v) :
                native_transition(p, "RejectCandidate", s, "CandidateRejected", "FAIL", 9)

NativeCandidateFreeze(h, v, p, cand, plan) ==
    /\ NativeUnambiguous(h, v, p)
    /\ NativeRequireCandidate(h, p, cand)
    /\ \A e \in ActiveEpoch(h) : h[e].auth = v.auth
    /\ p.projection.disposition = "selected" /\ Disposition(h) # {}
    /\ Freeze(h) = {}
    /\ \A n \in CurrentCandidate(h) : NativeReady(h, n, Required[v.policy], v)
    /\ \A d \in Disposition(h) : h[d].policy = v.policy /\ h[d].evidence = "PASS"
    /\ \A n \in CurrentCandidate(h) : NativeReady(h, n, Required[plan], v)
    /\ native_transition(p, "FreezeCandidate", "PASS", "CandidateFrozen", "PASS", 0)

NativeEvaluatorEntry(h, v, p, cand) ==
    /\ NativeUnambiguous(h, v, p)
    /\ \E f \in Freeze(h) :
         /\ cand \subseteq {h[f].cand}
         /\ FreezeDrift(h, f, v) = {}
         /\ NativeRequireCandidate(h, p, {h[f].cand})
         /\ p.projection.disposition = "selected"
         /\ Disposition(h) = {h[f].selection}

\* bundle.mncs project: the reason is Ready.
bundle_preconditions(h, v, p, cand, mode) ==
    /\ NativeRequireCandidate(h, p, cand)
    /\ mode = "evaluator" =>
         /\ Freeze(h) # {}
         /\ Disposition(h) # {} /\ p.projection.disposition = "selected"
         /\ \A f \in Freeze(h) : FreezeDrift(h, f, v) = {}

NativeBundle(h, v, p, cand, mode) ==
    NativeUnambiguous(h, v, p) /\ bundle_preconditions(h, v, p, cand, mode)

-----------------------------------------------------------------------------
(* Reconciliation of the results of a candidate; a workflow stands for its *)
(* category.                                                               *)

\* reconciliation_projection raises on an envelope beyond its bounds.
ReconciliationBounded(h, c) ==
    LET counts == [w \in Workflows |-> Cardinality(Evidence(h, c, w))]
    IN /\ Cardinality({w \in Workflows : counts[w] > 0}) <= RequirementBound
       /\ \A w \in Workflows : counts[w] <= ObservationBound

\* One category: joined status, whether statuses conflict, records observed.
category(h, c, w) ==
    LET R == Evidence(h, c, w)
        S == {h[m].status : m \in R}
    IN [status |-> Summary(S), conflict |-> Cardinality(S) > 1,
        observed_count |-> Cardinality(R)]

combine_category(current, incoming, has_previous) ==
    IF has_previous THEN dominate(current, incoming) ELSE incoming

\* Bug: the last category alone decides whether there is a conflict.
add_category_LastConflict(s, p) ==
    [status |-> combine_category(s.status, p.status, s.category_count > 0),
     category_count |-> s.category_count + 1,
     conflicting_category_count |-> IF p.conflict THEN 1 ELSE 0,
     observed_count |-> s.observed_count + p.observed_count]

add_category(s, p) ==
    [status |-> combine_category(s.status, p.status, s.category_count > 0),
     category_count |-> s.category_count + 1,
     conflicting_category_count |-> s.conflicting_category_count
                                        + (IF p.conflict THEN 1 ELSE 0),
     observed_count |-> s.observed_count + p.observed_count]

initial == [status |-> "UNKNOWN", category_count |-> 0,
            conflicting_category_count |-> 0, observed_count |-> 0]

\* The categories the candidate has results of.
Categories(h, c) == {w \in Workflows : Evidence(h, c, w) # {}}

reconcile(h, c) ==
    LET cats == SetToSeq(Categories(h, c))
        after[k \in 0..Len(cats)] ==
            IF k = 0 THEN initial ELSE add_category(after[k - 1], category(h, c, cats[k]))
    IN after[Len(cats)]

\* The adapter's answer, {} when it raises.
reconciliation_projection(h, c) ==
    IF ReconciliationBounded(h, c) THEN {reconcile(h, c)} ELSE {}

\* The host compares the counts with its own records.
native_reconciliation(h, c) ==
    {r \in reconciliation_projection(h, c) :
        r.observed_count = Cardinality({n \in Positions(h, "result") : h[n].cand = c})}
=============================================================================
