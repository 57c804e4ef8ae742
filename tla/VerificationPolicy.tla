-------------------------- MODULE VerificationPolicy --------------------------
(***************************************************************************)
(* The native decisions of continuous verification: the functions of       *)
(* core.mncs that route an event to triggers, admit and dispose of         *)
(* verification work and aggregate its statuses, and the adapters of       *)
(* mncs_native.py that encode facts for them.  An optional value is a set  *)
(* with at most one element; {} returned by an adapter is a raised         *)
(* ForgeError.  The native step may fail whatever it is asked (returned).  *)
(***************************************************************************)
EXTENDS Integers, Sequences, FiniteSets

Status == {"PASS", "FAIL", "UNKNOWN"}

-----------------------------------------------------------------------------
(* Admission of the verifiers of one event.                                *)

\* The first bound verifiers are selected, the others deferred.
verification_queue_admit(total, bound) ==
    LET selected == IF total < bound THEN total ELSE bound
    IN  [selected |-> selected, deferred |-> total - selected]

\* The adapter refuses counts that do not add up.
Native_verification_queue_admit(total, bound) ==
    {d \in {verification_queue_admit(total, bound)} : d.selected + d.deferred = total}

verification_cost_admit(tier, maximum) ==
    tier \in 0..2 /\ maximum \in 0..2 /\ tier <= maximum

\* The adapter encodes the names of the tiers; an undeclared one is -1.
Tier(cost) == CASE cost = "low" -> 0 [] cost = "medium" -> 1 [] cost = "high" -> 2 [] OTHER -> -1
Native_verification_cost_admit(cost, maximum) ==
    verification_cost_admit(Tier(cost), Tier(maximum))

-----------------------------------------------------------------------------
(* Statuses.                                                               *)

\* FAIL dominates UNKNOWN dominates PASS; nothing observed is UNKNOWN.
status_aggregate(statuses) ==
    CASE "FAIL" \in statuses -> "FAIL"
      [] statuses = {"PASS"} -> "PASS"
      [] OTHER -> "UNKNOWN"

\* An unresolved obligation counts as one more UNKNOWN.
verification_status_aggregate(statuses, unresolved) ==
    status_aggregate(statuses \cup (IF unresolved > 0 THEN {"UNKNOWN"} ELSE {}))

Decision(s, escalate) == [status |-> s, escalate |-> escalate]

verification_status_decide(statuses, unresolved, stale, required) ==
    LET aggregate == verification_status_aggregate(statuses, unresolved)
        nothing == statuses = {} /\ unresolved = 0
    IN  CASE required /\ nothing -> Decision("UNKNOWN", TRUE)
          [] ~nothing /\ stale /\ aggregate = "PASS" -> Decision("UNKNOWN", TRUE)
          [] ~required /\ nothing -> Decision("PASS", FALSE)
          [] OTHER -> Decision(aggregate, aggregate # "PASS")

\* The adapter: STALE is an UNKNOWN that was seen to be stale.
Native_verification_status_decide(statuses, unresolved, required) ==
    verification_status_decide({IF s = "STALE" THEN "UNKNOWN" ELSE s : s \in statuses},
                               unresolved, "STALE" \in statuses, required)

-----------------------------------------------------------------------------
(* What becomes of one obligation.                                         *)

Dispositions == {"Run", "RemainPending", "RemainPendingAndDeferRemaining", "Resolve",
                 "CancelStale", "DiscardStale", "EscalateUnknown"}

Transition(d, rest) ==
    [disposition |-> d,
     retain |-> d \in {"RemainPending", "RemainPendingAndDeferRemaining"},
     deferRemaining |-> rest,
     cancel |-> d = "CancelStale"]

verification_resource_outcome_resolved(o) == o \in {"Pass", "Fail"}
verification_resource_outcome_requires_pending(o) ==
    o \notin {"Pass", "Fail", "Cancelled", "Stale"}

\* Retained if there is room, escalated otherwise; the queue behind it waits.
RetainOrEscalate(s) ==
    LET rest == s.queue > 0
    IN  CASE ~(s.pendingExists \/ s.pendingCount < s.capacity) ->
                 Transition("EscalateUnknown", rest)
          [] OTHER -> IF rest THEN Transition("RemainPendingAndDeferRemaining", TRUE)
                              ELSE Transition("RemainPending", FALSE)

\* A stale obligation is cancelled or discarded before anything else is asked; one
\* of the current generation runs if nothing is known of it, unless the gate is closed.
verification_resource_transition(s) ==
    LET stale == s.work < s.current \/ ~s.identityMatches
        ahead == ~stale /\ s.work > s.current
        due == ~stale /\ ~ahead
        resolved == /\ s.evidence \in {"Pass", "Fail"}
                    /\ ~s.observed \/ verification_resource_outcome_resolved(s.outcome)
        open == /\ s.hasOutcome /\ ~resolved
                /\ \/ verification_resource_outcome_requires_pending(s.outcome)
                   \/ s.evidence = "Unknown"
                   \/ ~(s.pendingExists \/ s.pendingCount < s.capacity)
    IN  CASE stale /\ s.inFlight -> Transition("CancelStale", FALSE)
          [] stale /\ ~s.inFlight -> Transition("DiscardStale", FALSE)
          [] ahead -> Transition("EscalateUnknown", FALSE)
          [] due /\ ~s.hasOutcome /\ ~s.gateClosed -> Transition("Run", FALSE)
          [] due /\ (open \/ (~s.hasOutcome /\ s.gateClosed)) -> RetainOrEscalate(s)
          [] due /\ s.hasOutcome /\ ~open -> Transition("Resolve", FALSE)

\* The adapter, from what the host observed: an outcome that was not observed is
\* encoded as Unknown, no result yet as NotRun without an outcome.
Native_verification_resource_transition(s) ==
    verification_resource_transition(
        [k \in DOMAIN s \cup {"hasOutcome", "observed"} |->
            CASE k = "hasOutcome" -> s.evidence # "NotRun"
              [] k = "observed" -> s.outcome # {}
              [] k = "outcome" -> IF s.outcome = {} THEN "Unknown" ELSE CHOOSE o \in s.outcome : TRUE
              [] OTHER -> s[k]])

-----------------------------------------------------------------------------
(* Trigger routing.  A pattern is [valid, hits]: whether it is well formed *)
(* (non-empty, one terminal star at most) and the identities it matches.   *)

continuous_intersects(configured, observed) ==
    configured = {} \/ configured \cap observed # {}

continuous_patterns_valid(patterns) == \A p \in patterns : p.valid

continuous_pattern_hits(patterns, candidates) ==
    patterns = {} \/ \E p \in patterns : p.hits \cap candidates # {}

\* Only an impact node of kind contract counts for a contract pattern.
continuous_contract_match(patterns, nodes) ==
    patterns = {} \/ \E n \in nodes : n.kind = "contract" /\ continuous_pattern_hits(patterns, {n.id})

continuous_security_boundary_changed(ev) ==
    "effect_capability" \in ev.changes \/ "effect_semantics" \in ev.risks

\* The event kinds a trigger may name, derived from the facts of the event.
continuous_event_kind_active(ev, kind) ==
    CASE kind = "source_changed" -> TRUE
      [] kind = "diagnostic_added" -> ev.diagAdded # {}
      [] kind = "diagnostic_resolved" -> ev.diagResolved # {}
      [] kind = "semantic_subject_changed" -> ev.subjects # {}
      [] kind = "obligation_changed" -> ev.obligations # {}
      [] kind = "security_boundary_changed" -> continuous_security_boundary_changed(ev)
      [] kind = "public_contract_changed" -> "public_contract" \in ev.changes
      [] kind = "workspace_reconciled" -> ev.reconciled
      [] OTHER -> FALSE

continuous_trigger_valid(t) ==
    continuous_patterns_valid(t.contracts \cup t.obligations \cup t.diagnostics)

continuous_trigger_matches(t, ev) ==
    /\ t.kinds = {} \/ \E k \in t.kinds : continuous_event_kind_active(ev, k)
    /\ continuous_intersects(t.changes, ev.changes)
    /\ continuous_intersects(t.domains, ev.domains)
    /\ continuous_intersects(t.risks, ev.risks)
    /\ continuous_intersects(t.subjectKinds, {n.kind : n \in ev.nodes})
    /\ continuous_contract_match(t.contracts, ev.nodes)
    /\ continuous_pattern_hits(t.obligations, ev.obligations)
    /\ continuous_pattern_hits(t.diagnostics, ev.diagAdded \cup ev.diagResolved)
    /\ t.security => continuous_security_boundary_changed(ev) \/ ev.reconciled

\* The adapter: {} if the native step failed or a pattern is malformed.
Native_continuous_trigger_matches(t, ev, returned) ==
    IF returned /\ continuous_trigger_valid(t) THEN {continuous_trigger_matches(t, ev)} ELSE {}

=============================================================================
