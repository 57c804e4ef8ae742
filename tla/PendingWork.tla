------------------------------ MODULE PendingWork ------------------------------
(***************************************************************************)
(* What the continuous supervisor does with one workspace event: Safe      *)
(* repairs, selected verification and micro-verifiers run one after the    *)
(* other while files keep changing and the ingress thread may supersede    *)
(* the event; verifiers that reach no result become pending obligations in *)
(* a bounded table, which the status file carries over a restart.          *)
(* ContinuousSupervisor has the event stream itself.                       *)
(***************************************************************************)
EXTENDS VerificationPolicy, VerifierEvidence, SequencesExt

CONSTANTS Uris,
          Facts,        \* what the compiler may say of a change
          Triggers,     \* the configured triggers, in their order
          Cost,         \* the declared cost tier of each verifier
          Envelope,     \* the documents each verifier's provider declares to depend on
          Configs,      \* the configurations Forge may be started with
          Batch,        \* verifiers selected for one event (16)
          Capacity,     \* CONTINUOUS_PENDING_CAPACITY
          Attention,    \* CONTINUOUS_ATTENTION_CAPACITY
          MaxEvents, MaxStarts, MaxCrashes \* bounds

Actions == {"doctor_safe", "verification_plan", "micro_verifier"}
Policies == {"attention", "unknown", "silent"}
ChangeClasses == {"implementation", "public_contract", "shared_type", "parser_semantics",
                  "serialization_format", "effect_semantics", "abi_boundary",
                  "cross_repository_contract"}

ASSUME PendingConstants ==
    /\ {Batch, Capacity, Attention} \subseteq Nat \ {0}
    /\ {MaxEvents, MaxStarts, MaxCrashes} \subseteq Nat
    /\ Configs # {}
    /\ DOMAIN Envelope = DOMAIN Cost
    /\ \A v \in DOMAIN Envelope : Envelope[v].paths \subseteq Uris /\ Envelope[v].complete \in BOOLEAN
    /\ Len(Triggers) \in Nat /\ DOMAIN Triggers = 1..Len(Triggers)
    /\ \A k \in DOMAIN Triggers :
         /\ Triggers[k].action \in Actions /\ Triggers[k].policy \in Policies
         /\ Triggers[k].verifiers \in Seq(DOMAIN Cost)

VARIABLES log,       \* the service's events; a generation is an index of it
          source,    \* the identity of each document
          ledger,    \* the recorded results of each verifier that may be used again
          saved,     \* status.json: cursor and pending obligations
          config,    \* the configuration of the running Forge
          pc,
          cursor, generation,  \* current_cursor, current_generation
          pending,   \* the pending obligations, by PendingKey
          attention, \* the reasons reported, oldest first
          ev,        \* the cursor of the event being processed
          todo,      \* positions of the matched triggers left
          queue,     \* selected verifiers left
          later,     \* verifiers deferred for capacity
          unresolved, found,   \* the micro-verifier job's count and statuses
          acts, repaired,      \* the statuses of the event's finished jobs
          starts, crashes,
          got,       \* verifiers of this event with a result
          told,      \* verifiers of this event that could not be retained: reported one by
                     \* one, or an UNKNOWN of the ledger used again
          owed,      \* obligations an acknowledged event left behind
          verdict    \* how the last event was settled, until the next one's jobs begin

work == <<ev, todo, queue, later, unresolved, found, acts, repaired>>
ghosts == <<got, told, owed, verdict>>
vars == <<log, source, ledger, saved, config, pc, cursor, generation, pending, attention, work,
          starts, crashes, ghosts>>

Verifiers == DOMAIN Cost
NoVerdict == [status |-> "none", missing |-> {}]
NoSaved == [cursor |-> 0, pending |-> {}]
Idle == /\ ev' = 0 /\ todo' = {} /\ queue' = <<>> /\ later' = <<>> /\ unresolved' = 0
        /\ found' = {} /\ acts' = {} /\ repaired' = FALSE

Init ==
    /\ log = <<>> /\ source = [u \in Uris |-> 0]
    /\ ledger = [v \in Verifiers |-> {}]
    /\ saved = NoSaved /\ config \in Configs
    /\ pc = "down" /\ cursor = 0 /\ generation = 0
    /\ pending = {} /\ attention = <<>>
    /\ ev = 0 /\ todo = {} /\ queue = <<>> /\ later = <<>> /\ unresolved = 0
    /\ found = {} /\ acts = {} /\ repaired = FALSE
    /\ starts = 0 /\ crashes = 0
    /\ got = {} /\ told = {} /\ owed = {} /\ verdict = NoVerdict

Event == log[ev]

\* Jobs run one after the other: repairs first, then as configured.
Repairs(k) == Triggers[k].action = "doctor_safe"
Before == [k \in DOMAIN Triggers |->
             {j \in DOMAIN Triggers : IF Repairs(j) = Repairs(k) THEN j < k ELSE Repairs(j)}]
Turn == CHOOSE k \in todo : Before[k] \cap todo = {}
Trigger == Triggers[Turn]

Larger(m, n) == IF m < n THEN n ELSE m

-----------------------------------------------------------------------------
(* The Language Service.                                                   *)

\* A document is edited, or reconciled with its identity unchanged.
Edit(u, identity, f) ==
    /\ Len(log) < MaxEvents
    /\ source' = [source EXCEPT ![u] = identity]
    /\ log' = Append(log, [uri |-> u, identity |-> identity, facts |-> f])
    /\ UNCHANGED <<ledger, saved, config, pc, cursor, generation, pending, attention, work, starts,
                   crashes, ghosts>>

-----------------------------------------------------------------------------
(* Attention.                                                              *)

\* _attention: a bounded list without duplicates that evicts its oldest entry.
WithAttention(list, entry) ==
    CASE entry \in Range(list) -> list
      [] Len(list) < Attention /\ entry \notin Range(list) -> Append(list, entry)
      [] OTHER -> Append(Tail(list), entry)

\* _escalate, subject to the trigger's policy.
Reported(t, status) == t.policy = "attention" \/ (t.policy = "unknown" /\ status = "UNKNOWN")
Escalated(list, t, why, status) ==
    IF Reported(t, status) THEN WithAttention(list, <<ev, why>>) ELSE list

-----------------------------------------------------------------------------
(* The pending table.                                                      *)

PendingKey(p) == <<p.generation, p.verifier>>
HasPending(table, v) == \E p \in table : PendingKey(p) = <<ev, v>>

\* _resolve_micro_pending.
Resolve(table, v) == {p \in table : PendingKey(p) # <<ev, v>>}

\* _remember_pending: a known obligation is replaced, a new one taken while
\* there is room.
Remember(table, v) ==
    IF HasPending(table, v) \/ Cardinality(table) < Capacity
    THEN Resolve(table, v) \cup {[generation |-> ev, verifier |-> v, uri |-> Event.uri,
                                  identity |-> Event.identity]}
    ELSE table

\* _native_resource_transition for a verifier of the current event.
Dispose(table, v, evidence, outcome, remaining, gateClosed) ==
    Native_verification_resource_transition(
        [work |-> ev, current |-> generation, identityMatches |-> TRUE, inFlight |-> FALSE,
         evidence |-> evidence, outcome |-> outcome, pendingExists |-> HasPending(table, v),
         pendingCount |-> Cardinality(table), capacity |-> Capacity, queue |-> remaining,
         gateClosed |-> gateClosed])

\* _native_completed_freshness: work on the current event is over, and the service
\* has been seen at a generation.
_native_completed_freshness(observed) ==
    Native_verification_resource_transition(
        [work |-> ev, current |-> observed, identityMatches |-> TRUE, inFlight |-> FALSE,
         evidence |-> "NotRun", outcome |-> {}, pendingExists |-> FALSE,
         pendingCount |-> Cardinality(pending), capacity |-> Capacity, queue |-> 0,
         gateClosed |-> FALSE])
Stale(observed) == _native_completed_freshness(observed).disposition = "DiscardStale"

\* Bug: an obligation of the document survives the document's next event.
KeptPending_All(e, current) == pending

\* _cancel_superseded_pending: obligations of the document that are of an older
\* generation or of another source identity are dropped.
KeptPending(e, current) ==
    {p \in pending : p.uri = log[e].uri =>
        Native_verification_resource_transition(
            [work |-> p.generation, current |-> current,
             identityMatches |-> p.identity = log[e].identity, inFlight |-> FALSE,
             evidence |-> "Unknown", outcome |-> {}, pendingExists |-> TRUE,
             pendingCount |-> Cardinality(pending), capacity |-> Capacity, queue |-> 0,
             gateClosed |-> FALSE]).disposition # "DiscardStale"}

\* _defer_micro_verifiers: the table, the attention, the unresolved count and
\* who was reported after vs were deferred one by one.
DeferState(table, list, n, seen) == [table |-> table, list |-> list, n |-> n, told |-> seen]
DeferOne(t, s, v, remaining) ==
    LET d == Dispose(s.table, v, "NotRun", {}, remaining, TRUE)
    IN  CASE d.retain -> DeferState(Remember(s.table, v), s.list, s.n + 1, s.told)
          [] d.disposition = "EscalateUnknown" ->
                 DeferState(s.table, Escalated(s.list, t, "deferred", "UNKNOWN"), s.n + 1,
                            s.told \cup {v})
          [] OTHER -> s
DeferMicroVerifiers(t, s, vs) ==
    LET after[k \in 0..Len(vs)] ==
            IF k = 0 THEN s ELSE DeferOne(t, after[k - 1], vs[k], Len(vs) - k)
    IN  after[Len(vs)]

-----------------------------------------------------------------------------
(* Starting and stopping.                                                  *)

\* _write_status.
Write(c, table) == saved' = [cursor |-> c, pending |-> table]

\* Bug: the obligations of the previous run are not taken over.
Start_Forgetful ==
    /\ pc = "down" /\ starts < MaxStarts
    /\ starts' = starts + 1
    /\ cursor' = saved.cursor /\ generation' = 0 /\ pending' = {} /\ attention' = <<>>
    /\ pc' = "idle" /\ config' \in Configs
    /\ UNCHANGED <<log, source, ledger, saved, work, crashes, ghosts>>

\* run(): the durable cursor and the pending obligations are restored (both lists
\* are cut at the capacity, which no table exceeds); the attention list is not.
Start ==
    /\ pc = "down" /\ starts < MaxStarts
    /\ starts' = starts + 1
    /\ cursor' = saved.cursor /\ generation' = 0 /\ attention' = <<>>
    /\ pending' = saved.pending
    /\ pc' = "idle" /\ config' \in Configs
    /\ UNCHANGED <<log, source, ledger, saved, work, crashes, ghosts>>

\* The run ends after it wrote its status.
Stop(table) ==
    /\ Write(cursor, table)
    /\ pc' = "down" /\ cursor' = 0 /\ generation' = 0 /\ pending' = {} /\ attention' = <<>>
    /\ Idle
    /\ got' = {} /\ told' = {}

\* A one-shot run is through, or the host asked it to stop.
Finish ==
    /\ pc = "idle"
    /\ Stop(pending)
    /\ UNCHANGED <<log, source, ledger, config, starts, crashes, owed, verdict>>

\* The event stays unacknowledged (owner_retry_required).
DispatchFailed(table) == Stop(table) /\ UNCHANGED <<owed, verdict>>

Crash ==
    /\ pc # "down" /\ crashes < MaxCrashes
    /\ crashes' = crashes + 1
    /\ pc' = "down" /\ cursor' = 0 /\ generation' = 0 /\ pending' = {} /\ attention' = <<>>
    /\ Idle
    /\ got' = {} /\ told' = {}
    /\ UNCHANGED <<log, source, ledger, config, saved, starts, owed, verdict>>

\* A native decision or a service request fails in the middle of the event.
Abandon ==
    /\ pc \in {"jobs", "doctor", "dry", "apply", "plan", "admit", "micro"}
    /\ DispatchFailed(pending)
    /\ UNCHANGED <<log, source, ledger, config, starts, crashes>>

-----------------------------------------------------------------------------
(* _process_event.                                                         *)

\* _matches: the facts of an event as trigger routing takes them; what became of
\* an obligation does not matter, and only impact nodes have a kind.
_matches(t, e) ==
    Native_continuous_trigger_matches(t,
        [changes |-> e.facts.impact.change_kinds, domains |-> e.facts.impact.guarantee_domains,
         risks |-> e.facts.impact.risk_flags, nodes |-> e.facts.impact.nodes,
         diagAdded |-> e.facts.diagnostics.added,
         diagResolved |-> e.facts.diagnostics.resolved, subjects |-> e.facts.subjects,
         obligations |-> e.facts.obligations.added \cup e.facts.obligations.resolved
                         \cup e.facts.obligations.status_changed,
         reconciled |-> e.facts.reconciled], TRUE)

\* The positions of the triggers the event matches.
Matched(e) == {k \in DOMAIN Triggers : TRUE \in _matches(Triggers[k], log[e])}

\* Every verifier a micro-verifier trigger of the event asks for.
Wanted(e) ==
    UNION {Range(Triggers[k].verifiers) :
             k \in {j \in Matched(e) : Triggers[j].action = "micro_verifier"}}

\* A verifier that declares what it depends on has passed on that as it is now.
Supported(v) ==
    Envelope[v].complete =>
        \E r \in ledger[v] :
            /\ r.status = "PASS"
            /\ \A u \in Envelope[v].paths :
                 r.dependency_envelope.path_identities[u] = source[u]

\* The event is acknowledged with a status if it is the next one.  What it
\* leaves behind: wanted verifiers without a result nobody was told of.
Acknowledge(status, table) ==
    IF ev = cursor + 1
    THEN /\ cursor' = ev
         /\ verdict' = [status |-> status, missing |-> {v \in Wanted(ev) : v \notin got \/ ~Supported(v)}]
         /\ owed' = owed \cup (IF status = "FAIL" THEN {<<ev, v>> : v \in (Wanted(ev) \ got) \ told} ELSE {})
         /\ pending' = table
         /\ pc' = "idle"
         /\ Idle /\ got' = {} /\ told' = {}
         /\ UNCHANGED <<saved, generation, attention>>
    ELSE DispatchFailed(table)

\* Ghost: the document's next event takes over what is owed for the document.
StillOwed(e) == {o \in owed : log[o[1]].uri # log[e].uri \/ o[1] = e}

\* An event older than the newest of its page is STALE; the triggers of another
\* cannot be decided, or its jobs are lined up, repairs first.
Begin ==
    /\ pc = "idle" /\ cursor < Len(log)
    /\ \E newest \in cursor + 1..Len(log) :
       LET e == cursor + 1
           current == Larger(generation, newest)
       IN \/ /\ e < current
             /\ generation' = current /\ cursor' = e
             /\ verdict' = [status |-> "STALE", missing |-> {}]
             /\ UNCHANGED <<saved, pc, pending, attention, work, got, told, owed>>
          \/ /\ e = current
             /\ generation' = current
             /\ pending' = KeptPending(e, current)
             /\ owed' = StillOwed(e)
             /\ \A k \in DOMAIN Triggers : _matches(Triggers[k], log[e]) # {}
             /\ ev' = e /\ pc' = "jobs"
             /\ todo' = Matched(e)
             /\ verdict' = NoVerdict
             /\ UNCHANGED <<saved, cursor, attention, queue, later, unresolved, found, acts,
                            repaired, got, told>>
    /\ UNCHANGED <<log, source, ledger, config, starts, crashes>>

\* The triggers cannot be decided (a malformed pattern, a failed native step).
Undecided ==
    /\ pc = "idle" /\ cursor < Len(log) /\ generation <= cursor + 1
    /\ Stop(KeptPending(cursor + 1, cursor + 1))
    /\ owed' = StillOwed(cursor + 1)
    /\ UNCHANGED <<log, source, ledger, config, starts, crashes, verdict>>

\* _job_scope: the next job starts, unless a repair ends the event; its status is
\* written.
StartJob ==
    /\ pc = "jobs" /\ todo # {}
    /\ ~(repaired /\ ~Repairs(Turn))
    /\ Write(cursor, pending)
    /\ pc' = CASE Trigger.action = "doctor_safe" -> "doctor"
               [] Trigger.action = "verification_plan" -> "plan"
               [] Trigger.action = "micro_verifier" -> "admit"
    /\ UNCHANGED <<log, source, ledger, config, cursor, generation, pending, attention, work, starts,
                   crashes, ghosts>>

\* The job ends with a status; the status file is written.
EndJob(status, list, table) ==
    /\ acts' = acts \cup {status}
    /\ todo' = todo \ {Turn}
    /\ queue' = <<>> /\ later' = <<>> /\ unresolved' = 0 /\ found' = {}
    /\ attention' = list /\ pending' = table
    /\ Write(cursor, table)
    /\ pc' = "jobs"

\* _cancel_active_for_event, in the ingress thread: a newer event supersedes the
\* running job.
Supersede(e) ==
    /\ pc \in {"doctor", "dry", "apply", "plan", "admit", "micro"}
    /\ e \in ev + 1..Len(log) /\ e > generation
    /\ generation' = e /\ cursor' = Larger(cursor, e)
    /\ UNCHANGED <<log, source, ledger, config, saved, pc, pending, attention, work, starts, crashes,
                   ghosts>>

-----------------------------------------------------------------------------
(* Safe repair.                                                            *)

Refused(why) == EndJob("UNKNOWN", Escalated(attention, Trigger, why, "UNKNOWN"), pending)

\* No command, a source outside the project, or another identity than the
\* event's refuses the repair.
DoctorCheck ==
    /\ pc = "doctor"
    /\ \/ Refused("refused") /\ UNCHANGED repaired
       \/ /\ source[Event.uri] = Event.identity
          /\ pc' = "dry"
          /\ UNCHANGED <<saved, pending, attention, todo, queue, later, unresolved, found, acts,
                         repaired>>
    /\ UNCHANGED <<log, source, ledger, config, cursor, generation, ev, starts, crashes, ghosts>>

\* The dry run plans nothing, plans a repair, or has no usable report.
DoctorDryRun ==
    /\ pc = "dry"
    /\ \/ Refused("malformed") /\ UNCHANGED repaired
       \/ EndJob("PASS", attention, pending) /\ UNCHANGED repaired
       \/ /\ pc' = "apply"
          /\ UNCHANGED <<saved, pending, attention, todo, queue, later, unresolved, found, acts,
                         repaired>>
    /\ UNCHANGED <<log, source, ledger, config, cursor, generation, ev, starts, crashes, ghosts>>

\* The doctor rewrites the document, which the service publishes as one more
\* event; the repair is recorded with the identity found afterwards, if any.
\* Without a report there is no repair.
DoctorApply(identity) ==
    /\ pc = "apply"
    /\ \/ /\ Refused("malformed")
          /\ UNCHANGED <<log, source, repaired>>
       \/ /\ Len(log) < MaxEvents
          /\ source' = [source EXCEPT ![Event.uri] = identity]
          /\ log' = Append(log, [uri |-> Event.uri, identity |-> identity, facts |-> Event.facts])
          /\ repaired' = TRUE
          /\ EndJob("PASS", attention, pending) \/ Refused("unpublished")
    /\ UNCHANGED <<ledger, config, cursor, generation, ev, starts, crashes, ghosts>>

-----------------------------------------------------------------------------
(* Selected verification.                                                  *)

\* _ravel_plan: the classes of change RAVEL may plan tests for.  Without roots of
\* the compiler's there is no plan; the first change kind is the class if it is one.
_ravel_plan(e) ==
    {IF kind \in ChangeClasses THEN kind ELSE "implementation" :
        kind \in IF e.impact.roots = {} THEN {}
                 ELSE IF e.impact.change_kinds = {} THEN {"implementation"}
                 ELSE e.impact.change_kinds}

\* The impact is incomplete, or no test manifest is configured.
SelectedIncomplete ==
    /\ pc = "plan"
    /\ Refused("incomplete")
    /\ UNCHANGED <<log, source, ledger, config, cursor, generation, ev, repaired, starts, crashes, ghosts>>

Complete == Event.facts.complete /\ Event.facts.impact.complete

\* There is no plan or its failure loop raised: STALE if the service answers that
\* it has moved on, UNKNOWN otherwise.
SelectedRaised ==
    /\ pc = "plan" /\ Complete
    /\ \/ Refused("raised")
       \/ Stale(Len(log)) /\ EndJob("STALE", attention, pending)
    /\ UNCHANGED <<log, source, ledger, config, cursor, generation, ev, repaired, starts, crashes, ghosts>>

\* The loop over the planned tests is through: STALE if the service has moved on
\* meanwhile, its verdict otherwise.
SelectedFinished ==
    /\ pc = "plan" /\ Complete /\ _ravel_plan(Event.facts) # {}
    /\ IF Stale(Len(log)) THEN EndJob("STALE", attention, pending)
       ELSE \E s \in Status :
              EndJob(s, IF s = "PASS" THEN attention
                        ELSE Escalated(attention, Trigger, "selected", s), pending)
    /\ UNCHANGED <<log, source, ledger, config, cursor, generation, ev, repaired, starts, crashes, ghosts>>

-----------------------------------------------------------------------------
(* Micro-verifiers.                                                        *)

\* _micro admits the verifiers of the trigger to its queue.
Admit ==
    /\ pc = "admit"
    /\ \E d \in Native_verification_queue_admit(Len(Trigger.verifiers), Batch) :
         /\ queue' = SubSeq(Trigger.verifiers, 1, d.selected)
         /\ later' = SubSeq(Trigger.verifiers, d.selected + 1, d.selected + d.deferred)
    /\ pc' = "micro"
    /\ UNCHANGED <<log, source, ledger, config, saved, cursor, generation, pending, attention, ev, todo,
                   unresolved, found, acts, repaired, starts, crashes, ghosts>>

\* A verifier above the trigger's cost boundary is UNKNOWN and not retained.
CostRefused ==
    /\ pc = "micro" /\ queue # <<>>
    /\ ~Native_verification_cost_admit(Cost[Head(queue)], Trigger.maximum)
    /\ attention' = Escalated(attention, Trigger, "cost", "UNKNOWN")
    /\ told' = told \cup {Head(queue)}
    /\ found' = found \cup {"UNKNOWN"}
    /\ queue' = Tail(queue)
    /\ UNCHANGED <<log, source, ledger, config, saved, pc, cursor, generation, pending, ev, todo, later,
                   unresolved, acts, repaired, starts, crashes, got, owed, verdict>>

\* What the disposition d of the head verifier does: the obligation is resolved,
\* retained or reported, and the verifiers behind it go on, are deferred too, or
\* are dropped with the superseded event.
Settle(d, status, list, escalates) ==
    LET v == Head(queue)
        stale == d.disposition \in {"CancelStale", "DiscardStale"}
        report == escalates /\ d.disposition = "EscalateUnknown"
        table == CASE d.retain -> Remember(pending, v)
                   [] d.disposition = "Resolve" -> Resolve(pending, v)
                   [] OTHER -> pending
        s0 == DeferState(table,
                         IF report THEN Escalated(list, Trigger, "unretained", "UNKNOWN") ELSE list,
                         unresolved, IF d.disposition = "EscalateUnknown" THEN told \cup {v} ELSE told)
        s == IF d.deferRemaining
             THEN DeferMicroVerifiers(Trigger, s0, Tail(queue) \o later) ELSE s0
    IN  /\ pending' = s.table /\ attention' = s.list /\ unresolved' = s.n /\ told' = s.told
        /\ found' = found \cup {status}
        /\ got' = IF d.disposition = "Resolve" THEN got \cup {v} ELSE got
        /\ owed' = IF d.disposition = "Resolve" THEN owed \ {<<ev, v>>} ELSE owed
        /\ queue' = IF d.deferRemaining \/ stale THEN <<>> ELSE Tail(queue)
        /\ later' = IF d.deferRemaining THEN <<>> ELSE later
        /\ UNCHANGED <<log, source, saved, config, pc, cursor, generation, ev, todo, acts, repaired,
                       starts, crashes, verdict>>

Evidence(status) == CASE status = "PASS" -> "Pass" [] status = "FAIL" -> "Fail" [] OTHER -> "Unknown"
Behind == Len(queue) - 1 + Len(later)
Runnable == pc = "micro" /\ queue # <<>> /\ Native_verification_cost_admit(Cost[Head(queue)], Trigger.maximum)

\* The tree of the configured candidate.
Candidate == [u \in Uris |-> 0]

\* verifier_run records a result.  One without a complete envelope is never used
\* again, and the latest of those with the same basis hides the earlier ones.
Recorded(results, r) ==
    IF r.dependency_envelope.complete
    THEN {x \in results : Basis(x) # Basis(r)} \cup {r} ELSE results

\* _reusable_result: the result of the verifier that is still current.  A recorded
\* UNKNOWN is reused too, and then not reported when it cannot be retained.
Reusable(v) ==
    {r \in ledger[v] : /\ r.material = _material_identities(config)
                       /\ r.dependency_envelope.complete
                       /\ _freshness(r, config, Candidate, source) = "CURRENT"}
Reuse ==
    /\ Runnable
    /\ \E r \in Reusable(Head(queue)) :
         Settle(Dispose(pending, Head(queue), Evidence(r.status), {}, Behind, FALSE),
                r.status, attention, FALSE)
    /\ UNCHANGED ledger

\* verifier_run: a recorded result, which counts as UNKNOWN if the event has been
\* superseded, or if the trigger asks for a complete envelope and there is none.
Run(answered, answer, outcome) ==
    /\ Runnable /\ Reusable(Head(queue)) = {}
    /\ LET v == Head(queue)
           r == Executed(answered, answer, Envelope[v], config, source)
           status == IF Trigger.complete /\ ~r.dependency_envelope.complete
                     THEN "UNKNOWN" ELSE r.status
           d == Dispose(pending, v, Evidence(status), outcome, Behind, FALSE)
           stale == d.disposition = "DiscardStale"
       IN  /\ Settle(d, IF stale THEN "UNKNOWN" ELSE status, attention, TRUE)
           /\ ledger' = [ledger EXCEPT ![v] = Recorded(@, r)]

\* verifier_run raised: reported, and disposed of as an unknown result.
RunFails(outcome) ==
    /\ Runnable /\ Reusable(Head(queue)) = {}
    /\ Settle(Dispose(pending, Head(queue), "Unknown", outcome, Behind, TRUE), "UNKNOWN",
              Escalated(attention, Trigger, "error", "UNKNOWN"), TRUE)
    /\ UNCHANGED ledger

\* The verifiers beyond the batch are deferred and the job's status decided.
CloseMicro ==
    /\ pc = "micro" /\ queue = <<>>
    /\ LET s == DeferMicroVerifiers(Trigger, DeferState(pending, attention, unresolved, told), later)
           d == IF Trigger.verifiers = <<>> THEN Decision("UNKNOWN", TRUE)
                ELSE Native_verification_status_decide(found, s.n, TRUE)
       IN  /\ EndJob(d.status, IF d.escalate THEN Escalated(s.list, Trigger, "micro", d.status)
                               ELSE s.list, s.table)
           /\ told' = s.told
    /\ UNCHANGED <<log, source, ledger, config, cursor, generation, ev, repaired, starts, crashes, got, owed,
                   verdict>>

-----------------------------------------------------------------------------
\* All jobs are done: a FAIL is acknowledged as it is, UNKNOWN is not, and what
\* passed is STALE if the service has moved on.
SettleEvent ==
    /\ pc = "jobs" /\ todo = {} /\ ~repaired
    /\ LET d == Native_verification_status_decide(acts, 0, FALSE)
       IN  CASE d.status = "UNKNOWN" -> DispatchFailed(pending)
             [] d.status = "FAIL" -> Acknowledge("FAIL", pending)
             [] OTHER -> Acknowledge(IF Stale(Len(log)) THEN "STALE" ELSE "PASS", pending)
    /\ UNCHANGED <<log, source, ledger, config, starts, crashes>>

\* A repaired event is through; the event of the repair follows.
SettleRepaired ==
    /\ pc = "jobs" /\ repaired
    /\ todo = {} \/ ~Repairs(Turn)
    /\ Acknowledge("REBOUND", pending)
    /\ UNCHANGED <<log, source, ledger, config, starts, crashes>>

Identities == 0..1
RunOutcomes == {<<TRUE, "PASS", {}>>, <<TRUE, "PASS", {"Pass"}>>, <<TRUE, "FAIL", {}>>,
                <<TRUE, "UNKNOWN", {}>>, <<FALSE, "UNKNOWN", {"Timeout"}>>}

Micro == Admit \/ CostRefused \/ Reuse \/ CloseMicro
         \/ (\E r \in RunOutcomes : Run(r[1], r[2], r[3])) \/ (\E o \in {{}, {"ResourcePressure"}} : RunFails(o))

Next == \/ \E u \in Uris, i \in Identities, f \in Facts : Edit(u, i, f)
        \/ Start \/ Finish \/ Crash \/ Abandon \/ Begin \/ Undecided \/ StartJob
        \/ \E e \in 1..MaxEvents : Supersede(e)
        \/ DoctorCheck \/ DoctorDryRun \/ (\E i \in Identities : DoctorApply(i))
        \/ SelectedIncomplete \/ SelectedRaised \/ SelectedFinished
        \/ Micro \/ SettleEvent \/ SettleRepaired

Spec == Init /\ [][Next]_vars

-----------------------------------------------------------------------------
\* Every variable has its type; each pending list is within its capacity.
TypeOK ==
    /\ DOMAIN source = Uris
    /\ cursor \in 0..Len(log) /\ generation \in 0..Len(log) /\ ev \in 0..Len(log)
    /\ pc \in {"down", "idle", "jobs", "doctor", "dry", "apply", "plan", "admit", "micro"}
    /\ Cardinality(pending) <= Capacity /\ Len(attention) <= Attention
    /\ \A p, q \in pending : PendingKey(p) = PendingKey(q) => p = q
    /\ acts \subseteq Status \cup {"STALE"} /\ found \subseteq Status
    /\ saved.cursor \in 0..Len(log) /\ Cardinality(saved.pending) <= Capacity

\* "host_must_not publish_superseded_work_as_pass": an event is reported PASS
\* only if every verifier its triggers asked for was settled for it and has passed
\* on the documents it declares to depend on as they are, whatever was superseded, deferred
\* or reused while the event was processed.
PassMeansVerified == verdict.status = "PASS" => verdict.missing = {}

\* "Retain ... pending obligations by exact identity": when an event is
\* acknowledged as FAIL, each of its verifiers without a result is pending until
\* the document's next event, across crashes and restarts, unless it could not
\* be retained and that was reported.
NothingForgotten ==
    LET table == IF pc = "down" THEN saved.pending ELSE pending
        acknowledged == IF pc = "down" THEN saved.cursor ELSE cursor
    IN  \A o \in owed : o[1] <= acknowledged => \E p \in table : PendingKey(p) = o

\* Pending work is never superseded work: all obligations of a document are of
\* one generation and one source identity.
OneGenerationPerDocument ==
    \A p, q \in pending :
        p.uri = q.uri => p.generation = q.generation /\ p.identity = q.identity

=============================================================================
