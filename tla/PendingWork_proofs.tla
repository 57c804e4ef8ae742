-------------------------- MODULE PendingWork_proofs --------------------------
(***************************************************************************)
(* Theorems about PendingWork, for every list of triggers, every number of *)
(* events, edits, restarts and crashes and every capacity and batch: an    *)
(* event the supervisor acknowledges PASS has current evidence of every    *)
(* verifier it wanted, an event it acknowledges FAIL leaves each verifier  *)
(* without a result pending or escalated, in memory and in the status file *)
(* a restart reads, and a document's obligations are of one generation.    *)
(*                                                                         *)
(* The inductive invariant follows an event through its jobs: what the     *)
(* micro-verifier jobs that are over have settled (Covered, Passing), what *)
(* the running one has left in its queues, and what the tables hold.       *)
(***************************************************************************)
EXTENDS PendingWork, FiniteSetTheorems, TLAPS

\* An entry of _pending_verification.
Obligation == [generation : Nat, verifier : Verifiers, uri : Uris, identity : Identities]

\* A table that has not outgrown its capacity.
Bounded(table) == IsFiniteSet(table) /\ Cardinality(table) <= Capacity

\* Obligations of the events of a log up to a generation, each document's of one
\* event.
TableOf(events, table, last) ==
    /\ table \subseteq Obligation /\ Bounded(table)
    /\ \A p \in table :
         /\ p.generation \in 1..Len(events) /\ p.generation <= last
         /\ p.uri = events[p.generation].uri /\ p.identity = events[p.generation].identity
    /\ \A p, q \in table : p.uri = q.uri => p.generation = q.generation

\* And one in which the document of event e has obligations of e only.
OwnTable(events, e, table, last) ==
    TableOf(events, table, last) /\ \A p \in table : p.uri = events[e].uri => p.generation = e

\* An event is being processed; Ours: and it can still be acknowledged, because
\* _cancel_active_for_event has not moved the cursor past it.
Busy == pc \notin {"down", "idle"}
Ours == Busy /\ cursor + 1 = ev
\* The micro-verifier jobs of the event that are over, and the verifiers the
\* running one still has to serve.
MicroOver == {k \in Matched(ev) \ todo : Triggers[k].action = "micro_verifier"}
Waiting == Range(queue) \cup Range(later)

\* What the table in memory and the one of the status file contain.  Once a job
\* has ended, _record_status has made them equal.
Tables ==
    /\ TableOf(log, pending, cursor + 1) /\ TableOf(log, saved.pending, saved.cursor + 1)
    /\ Busy => OwnTable(log, ev, pending, cursor + 1)
    /\ pc = "jobs" /\ acts # {} => saved.pending = pending

\* Where the run loop is, against the event, the generation and the jobs.
Progress ==
    /\ pc \in {"down", "idle"} => acts = {}
    /\ Busy => ev \in 1..Len(log) /\ ev <= cursor + 1 /\ ev <= generation
    /\ Ours => generation = ev
    /\ pc \notin {"down", "idle", "jobs"} => todo # {}
    /\ pc \in {"doctor", "dry", "apply", "plan"} => Trigger.action # "micro_verifier"

\* The types.
WorkspaceEvent == [uri : Uris, identity : Identities, facts : Facts]
Logged == log \in Seq(WorkspaceEvent)
Causes == {"deferred", "unretained", "cost", "error", "micro", "selected", "incomplete", "raised",
           "refused", "malformed", "unpublished"}
Reasons == {q \in Seq(Nat \X Causes) : Len(q) <= Attention}

Types ==
    /\ Logged
    /\ DOMAIN ledger = Verifiers
    /\ pc \in {"down", "idle", "jobs", "doctor", "dry", "apply", "plan", "admit", "micro"}
    /\ {cursor, generation, unresolved, saved.cursor} \subseteq Nat
    /\ attention \in Reasons /\ told \subseteq Verifiers
    /\ todo \subseteq DOMAIN Triggers /\ {queue, later} \subseteq Seq(Verifiers)

\* Every obligation owed since an acknowledged FAIL is pending, and restorable.
Held(table, o) == \E p \in table : PendingKey(p) = o
Kept ==
    \A o \in owed : Held(saved.pending, o) /\ (pc # "down" => Held(pending, o))

\* The event's finished jobs have accounted for each of their verifiers: it has a
\* result, the attention list tells of it, or it is pending.  The running job
\* has, but for those in its queues.
Accounted(v) == v \in got \/ v \in told \/ HasPending(pending, v)
Covered ==
    Ours => /\ \A k \in MicroOver : \A v \in Range(Triggers[k].verifiers) : Accounted(v)
            /\ pc = "micro" => \A v \in Range(Trigger.verifiers) : Accounted(v) \/ v \in Waiting

\* While only PASS was reported, each verifier of a finished job has a result
\* and, unless the source has moved on, one that _reusable_result accepts now.
Backed(v) == \E r \in Reusable(v) : r.status = "PASS"
Passed(v) == v \in got /\ (Len(log) = ev /\ Envelope[v].complete => Backed(v))
Passing ==
    Ours => /\ acts \subseteq {"PASS"} =>
                 \A k \in MicroOver : \A v \in Range(Triggers[k].verifiers) : Passed(v)
            /\ pc = "micro" /\ found \subseteq {"PASS"} /\ unresolved = 0 =>
                 \A v \in Range(Trigger.verifiers) : Passed(v) \/ v \in Waiting

\* A recorded result lists the identities of the verifier's declared paths.
Declared ==
    \A v \in Verifiers : \A r \in ledger[v] :
        DOMAIN r.dependency_envelope.path_identities = Envelope[v].paths

IInv == Types /\ Tables /\ Progress /\ Kept /\ Covered /\ Passing /\ Declared /\ PassMeansVerified

-----------------------------------------------------------------------------
(* The native dispositions.                                                *)

\* The fields _native_resource_transition passes to the kernel.
Asked == {"work", "current", "identityMatches", "inFlight", "evidence", "outcome",
          "pendingExists", "pendingCount", "capacity", "queue", "gateClosed"}

\* The fields of a transition.
Is(r, n) ==
    /\ r.disposition = n
    /\ r.retain <=> n \in {"RemainPending", "RemainPendingAndDeferRemaining"}
    /\ n \in {"DiscardStale", "Resolve", "Run"} => ~r.deferRemaining

\* Dispositions that ask for no deferral of the rest.
LEMMA TransitionOver ==
    ASSUME NEW r, NEW n, r = Transition(n, FALSE)
    PROVE  Is(r, n)
  BY DEF Transition, Is

\* Dispositions for which the rest may be deferred.
LEMMA TransitionRest ==
    ASSUME NEW r, NEW n, n \notin {"DiscardStale", "Resolve", "Run"}, NEW rest, r = Transition(n, rest)
    PROVE  Is(r, n)
  BY DEF Transition, Is

\* verification_resource_transition: work behind its document is discarded.
LEMMA StaleTransition ==
    ASSUME NEW x, NEW d, d = verification_resource_transition(x), ~x.inFlight,
           x.work < x.current \/ ~x.identityMatches
    PROVE  d = Transition("DiscardStale", FALSE)
  BY DEF verification_resource_transition

\* Work ahead of the current generation is escalated.
LEMMA AheadTransition ==
    ASSUME NEW x, NEW d, d = verification_resource_transition(x),
           ~(x.work < x.current), x.identityMatches, x.work > x.current
    PROVE  d = Transition("EscalateUnknown", FALSE)
  BY DEF verification_resource_transition

\* Work of the current generation runs, is resolved, or is retained or escalated.
LEMMA DueTransition ==
    ASSUME NEW x, NEW d, d = verification_resource_transition(x),
           ~(x.work < x.current), x.identityMatches, ~(x.work > x.current)
    PROVE  /\ ~x.hasOutcome => d = RetainOrEscalate(x) \/ (~x.gateClosed /\ d = Transition("Run", FALSE))
           /\ x.hasOutcome => d = RetainOrEscalate(x) \/ d = Transition("Resolve", FALSE)
           /\ x.hasOutcome /\ x.evidence = "Pass" /\ (~x.observed \/ x.outcome = "Pass") =>
                d = Transition("Resolve", FALSE)
  <1>1. CASE ~x.hasOutcome
    BY <1>1 DEF verification_resource_transition
  <1>2. CASE x.hasOutcome
    BY <1>2 DEF verification_resource_transition, verification_resource_outcome_resolved,
       verification_resource_outcome_requires_pending
  <1> QED
    BY <1>1, <1>2

\* Work is retained only where the table holds it or has room.
LEMMA RetainTransition ==
    ASSUME NEW x, NEW d, d = RetainOrEscalate(x)
    PROVE  \/ d = Transition("EscalateUnknown", x.queue > 0)
           \/ /\ \/ d = Transition("RemainPendingAndDeferRemaining", TRUE)
                 \/ d = Transition("RemainPending", FALSE)
              /\ x.pendingExists \/ x.pendingCount < x.capacity
  BY DEF RetainOrEscalate

\* The kernel's answers, for work that is not in flight.
LEMMA NativeDisposition ==
    ASSUME NEW x, NEW d, d = verification_resource_transition(x), ~x.inFlight
    PROVE  /\ x.work < x.current \/ ~x.identityMatches => Is(d, "DiscardStale")
           /\ ~(x.work < x.current) /\ x.identityMatches =>
                \/ Is(d, "EscalateUnknown")
                \/ ~x.hasOutcome /\ ~x.gateClosed /\ Is(d, "Run")
                \/ x.hasOutcome /\ Is(d, "Resolve")
                \/ /\ Is(d, "RemainPendingAndDeferRemaining") \/ Is(d, "RemainPending")
                   /\ x.pendingExists \/ x.pendingCount < x.capacity
           /\ /\ ~(x.work < x.current) /\ x.identityMatches /\ ~(x.work > x.current)
              /\ x.hasOutcome /\ x.evidence = "Pass" /\ (~x.observed \/ x.outcome = "Pass")
              => Is(d, "Resolve")
  <1>1. ASSUME NEW n, d = Transition(n, FALSE) PROVE Is(d, n)
    BY <1>1, TransitionOver
  <1>2. ASSUME x.work < x.current \/ ~x.identityMatches PROVE Is(d, "DiscardStale")
    BY <1>1, <1>2, StaleTransition
  <1>3. ASSUME d = RetainOrEscalate(x)
        PROVE  \/ Is(d, "EscalateUnknown")
               \/ /\ Is(d, "RemainPendingAndDeferRemaining") \/ Is(d, "RemainPending")
                  /\ x.pendingExists \/ x.pendingCount < x.capacity
    <2>1. ASSUME d = Transition("EscalateUnknown", x.queue > 0) PROVE Is(d, "EscalateUnknown")
      BY <2>1, TransitionRest
    <2>2. ASSUME d = Transition("RemainPendingAndDeferRemaining", TRUE)
          PROVE  Is(d, "RemainPendingAndDeferRemaining")
      BY <2>2, TransitionRest
    <2> QED
      BY <1>1, <1>3, <2>1, <2>2, RetainTransition
  <1>4. ASSUME ~(x.work < x.current), x.identityMatches, x.work > x.current
        PROVE  Is(d, "EscalateUnknown")
    BY <1>1, <1>4, AheadTransition
  <1>5. ASSUME ~(x.work < x.current), x.identityMatches, ~(x.work > x.current)
        PROVE  /\ ~x.hasOutcome => d = RetainOrEscalate(x) \/ (~x.gateClosed /\ Is(d, "Run"))
               /\ x.hasOutcome => d = RetainOrEscalate(x) \/ Is(d, "Resolve")
               /\ x.hasOutcome /\ x.evidence = "Pass" /\ (~x.observed \/ x.outcome = "Pass") => Is(d, "Resolve")
    BY <1>1, <1>5, DueTransition
  <1> QED
    BY <1>2, <1>3, <1>4, <1>5

\* _native_resource_transition: the answers for the request as the supervisor
\* states it, with an absent outcome encoded as Unknown and not observed.
LEMMA Disposition ==
    ASSUME NEW s, DOMAIN s = Asked, s.work \in Int, s.current \in Int, ~s.inFlight,
           NEW d, d = Native_verification_resource_transition(s)
    PROVE  /\ s.work < s.current \/ ~s.identityMatches => Is(d, "DiscardStale")
           /\ s.work >= s.current /\ s.identityMatches =>
                \/ Is(d, "EscalateUnknown")
                \/ s.evidence = "NotRun" /\ ~s.gateClosed /\ Is(d, "Run")
                \/ s.evidence # "NotRun" /\ Is(d, "Resolve")
                \/ /\ Is(d, "RemainPendingAndDeferRemaining") \/ Is(d, "RemainPending")
                   /\ s.pendingExists \/ s.pendingCount < s.capacity
           /\ s.work = s.current /\ s.identityMatches /\ s.evidence = "Pass" /\ s.outcome \in {{}, {"Pass"}} =>
                Is(d, "Resolve")
  <1> DEFINE x == [k \in DOMAIN s \cup {"hasOutcome", "observed"} |->
              CASE k = "hasOutcome" -> s.evidence # "NotRun"
                [] k = "observed" -> s.outcome # {}
                [] k = "outcome" -> IF s.outcome = {} THEN "Unknown" ELSE CHOOSE o \in s.outcome : TRUE
                [] OTHER -> s[k]]
  <1>1. /\ x.work = s.work /\ x.current = s.current
        /\ x.identityMatches <=> s.identityMatches
        /\ ~x.inFlight
        /\ x.evidence = s.evidence /\ x.pendingCount = s.pendingCount /\ x.capacity = s.capacity
        /\ x.pendingExists <=> s.pendingExists
        /\ x.gateClosed <=> s.gateClosed
        /\ x.hasOutcome <=> s.evidence # "NotRun"
        /\ x.observed <=> s.outcome # {}
        /\ s.outcome # {} => x.outcome = CHOOSE o \in s.outcome : TRUE
    BY DEF Asked
  <1>2. d = verification_resource_transition(x)
    BY DEF Native_verification_resource_transition
  <1>3. s.outcome = {"Pass"} => x.outcome = "Pass"
    BY <1>1
  <1> HIDE DEF x
  <1>4. /\ x.work < x.current <=> s.work < s.current
        /\ x.work > x.current <=> s.work > s.current
        /\ x.pendingCount < x.capacity <=> s.pendingCount < s.capacity
    BY <1>1
  <1> QED
    BY <1>1, <1>2, <1>3, <1>4, NativeDisposition

-----------------------------------------------------------------------------
(* The pending table.                                                      *)

\* _native_completed_freshness: an event that is not stale is not behind what
\* was observed.
LEMMA StaleMeans ==
    ASSUME ev \in Nat, NEW observed \in Nat, ~Stale(observed)
    PROVE  ev >= observed
  <1> DEFINE d == _native_completed_freshness(observed)
             s == [work |-> ev, current |-> observed, identityMatches |-> TRUE, inFlight |-> FALSE,
                   evidence |-> "NotRun", outcome |-> {}, pendingExists |-> FALSE,
                   pendingCount |-> Cardinality(pending), capacity |-> Capacity, queue |-> 0,
                   gateClosed |-> FALSE]
  <1>1. d = Native_verification_resource_transition(s)
    BY DEF _native_completed_freshness
  <1>2. d.disposition # "DiscardStale"
    BY DEF Stale
  <1>3. DOMAIN s = Asked /\ s.work = ev /\ s.current = observed /\ ~s.inFlight
    BY DEF Asked
  <1> HIDE DEF d, s
  <1>4. ev < observed => Is(d, "DiscardStale")
    BY <1>1, <1>3, Disposition
  <1> QED
    BY <1>2, <1>4 DEF Is

\* The disposition of a verifier of the running event.
LEMMA DisposeIs ==
    ASSUME ev \in Nat, generation \in Nat, NEW table, NEW v, NEW evidence, NEW outcome, NEW remaining,
           NEW gate \in BOOLEAN, NEW d, d = Dispose(table, v, evidence, outcome, remaining, gate)
    PROVE  /\ generation > ev => Is(d, "DiscardStale")
           /\ generation <= ev =>
                \/ Is(d, "EscalateUnknown")
                \/ evidence = "NotRun" /\ ~gate /\ Is(d, "Run")
                \/ evidence # "NotRun" /\ Is(d, "Resolve")
                \/ /\ Is(d, "RemainPendingAndDeferRemaining") \/ Is(d, "RemainPending")
                   /\ HasPending(table, v) \/ Cardinality(table) < Capacity
           /\ generation = ev /\ evidence = "Pass" /\ outcome \in {{}, {"Pass"}} =>
                Is(d, "Resolve")
  <1> DEFINE s == [work |-> ev, current |-> generation, identityMatches |-> TRUE, inFlight |-> FALSE,
                   evidence |-> evidence, outcome |-> outcome, pendingExists |-> HasPending(table, v),
                   pendingCount |-> Cardinality(table), capacity |-> Capacity, queue |-> remaining,
                   gateClosed |-> gate]
  <1>1. d = Native_verification_resource_transition(s)
    BY DEF Dispose
  <1>2. /\ DOMAIN s = Asked /\ s.work = ev /\ s.current = generation /\ ~s.inFlight
        /\ s.identityMatches /\ s.evidence = evidence /\ s.outcome = outcome
        /\ s.pendingExists <=> HasPending(table, v)
        /\ s.pendingCount = Cardinality(table) /\ s.capacity = Capacity
        /\ s.gateClosed <=> gate
    BY DEF Asked, HasPending
  <1> HIDE DEF s
  <1> QED
    BY <1>1, <1>2, Disposition

\* _cancel_superseded_pending keeps the obligations of other documents, and those
\* of this document that are not behind the event and have its identity.
LEMMA KeptPendingIs ==
    ASSUME NEW e, NEW current \in Nat, pending \subseteq Obligation
    PROVE  KeptPending(e, current) =
             {p \in pending : p.uri = log[e].uri =>
                                p.generation >= current /\ p.identity = log[e].identity}
  <1> DEFINE s(p) == [work |-> p.generation, current |-> current,
                      identityMatches |-> p.identity = log[e].identity, inFlight |-> FALSE,
                      evidence |-> "Unknown", outcome |-> {}, pendingExists |-> TRUE,
                      pendingCount |-> Cardinality(pending), capacity |-> Capacity, queue |-> 0,
                      gateClosed |-> FALSE]
             d(p) == Native_verification_resource_transition(s(p))
  <1>1. KeptPending(e, current) =
            {p \in pending : p.uri = log[e].uri => d(p).disposition # "DiscardStale"}
    BY DEF KeptPending
  <1>2. ASSUME NEW p \in pending
        PROVE  d(p).disposition # "DiscardStale" <=>
                 p.generation >= current /\ p.identity = log[e].identity
    <2> DEFINE x == s(p)
               c == d(p)
    <2>1. /\ DOMAIN x = Asked /\ x.work = p.generation /\ x.current = current /\ ~x.inFlight
          /\ x.identityMatches <=> p.identity = log[e].identity
          /\ x.evidence = "Unknown"
      BY DEF Asked
    <2>2. p.generation \in Nat
      BY DEF Obligation
    <2>3. c = Native_verification_resource_transition(x)
      OBVIOUS
    <2> HIDE DEF x, c
    <2>4. /\ p.generation < current \/ p.identity # log[e].identity => Is(c, "DiscardStale")
          /\ p.generation >= current /\ p.identity = log[e].identity =>
               \/ Is(c, "EscalateUnknown") \/ Is(c, "Resolve")
               \/ Is(c, "RemainPendingAndDeferRemaining") \/ Is(c, "RemainPending")
      BY <2>1, <2>2, <2>3, Disposition
    <2>5. c.disposition # "DiscardStale" <=>
                 p.generation >= current /\ p.identity = log[e].identity
      BY <2>2, <2>4 DEF Is
    <2> QED
      BY <2>5 DEF c, x
  <1> QED
    BY <1>1, <1>2

\* A table that only loses obligations, and the empty one.
LEMMA BoundedParts ==
    /\ Bounded({})
    /\ \A table : Bounded(table) => \A part \in SUBSET table : Bounded(part)
  <1>1. Bounded({})
    BY FS_EmptySet, PendingConstants DEF Bounded
  <1>2. ASSUME NEW table, Bounded(table), NEW part \in SUBSET table PROVE Bounded(part)
    <2>1. /\ IsFiniteSet(part) /\ Cardinality(part) <= Cardinality(table)
          /\ Cardinality(part) \in Nat /\ Cardinality(table) \in Nat
      BY <1>2, FS_Subset, FS_CardinalityType DEF Bounded
    <2> QED
      BY <1>2, <2>1, PendingConstants DEF Bounded
  <1> QED
    BY <1>1, <1>2

\* _remember_pending: a known obligation is replaced, a new one needs room.
LEMMA RememberBounded ==
    ASSUME NEW table, Bounded(table), NEW v
    PROVE  Bounded(Remember(table, v))
  <1> DEFINE new == [generation |-> ev, verifier |-> v, uri |-> Event.uri, identity |-> Event.identity]
             rest == Resolve(table, v)
  <1>1. /\ rest \subseteq table /\ IsFiniteSet(rest) /\ Cardinality(rest) <= Cardinality(table)
        /\ Cardinality(rest) \in Nat /\ Cardinality(table) \in Nat /\ Cardinality(table) <= Capacity
        /\ Capacity \in Nat
    <2>1. rest \subseteq table
      BY DEF Resolve
    <2>2. IsFiniteSet(table) /\ Cardinality(table) <= Capacity
      BY DEF Bounded
    <2> HIDE DEF rest
    <2> QED
      BY <2>1, <2>2, FS_Subset, FS_CardinalityType, PendingConstants
  <1>2. HasPending(table, v) => Cardinality(rest) < Cardinality(table)
    <2> SUFFICES ASSUME HasPending(table, v) PROVE Cardinality(rest) # Cardinality(table)
      BY <1>1
    <2>1. rest # table
      BY DEF HasPending, Resolve
    <2>2. IsFiniteSet(table)
      BY DEF Bounded
    <2> HIDE DEF rest
    <2> QED
      BY <1>1, <2>1, <2>2, FS_Subset
  <1>3. Remember(table, v) = IF HasPending(table, v) \/ Cardinality(table) < Capacity
                            THEN rest \cup {new} ELSE table
    BY DEF Remember
  <1> HIDE DEF rest, new
  <1>4. IsFiniteSet(rest \cup {new}) /\ Cardinality(rest \cup {new}) <= Cardinality(rest) + 1
        /\ Cardinality(rest \cup {new}) \in Nat
    BY <1>1, FS_AddElement, FS_CardinalityType
  <1>5. CASE HasPending(table, v) \/ Cardinality(table) < Capacity
    BY <1>1, <1>2, <1>3, <1>4, <1>5 DEF Bounded
  <1>6. CASE ~(HasPending(table, v) \/ Cardinality(table) < Capacity)
    BY <1>3, <1>6
  <1> QED
    BY <1>5, <1>6

\* An event of the log is being processed.
During == Logged /\ ev \in 1..Len(log) /\ generation \in Nat

\* _remember_pending: the verifier is pending afterwards, no obligation is lost,
\* and the table stays one of the event's document.
LEMMA RememberKeeps ==
    ASSUME During, NEW v \in Verifiers, NEW table, table \subseteq Obligation,
           HasPending(table, v) \/ Cardinality(table) < Capacity
    PROVE  /\ Remember(table, v) \subseteq Obligation
           /\ HasPending(Remember(table, v), v)
           /\ \A o : Held(table, o) => Held(Remember(table, v), o)
           /\ \A last \in Nat : OwnTable(log, ev, table, last) /\ ev <= last => OwnTable(log, ev, Remember(table, v), last)
  <1> DEFINE new == [generation |-> ev, verifier |-> v, uri |-> Event.uri, identity |-> Event.identity]
             T == Remember(table, v)
  <1>1. Event \in WorkspaceEvent
    BY DEF During, Logged, Event
  <1>2. new \in Obligation /\ PendingKey(new) = <<ev, v>>
    BY <1>1 DEF Obligation, WorkspaceEvent, During, PendingKey
  <1>3. T = Resolve(table, v) \cup {new}
    BY DEF Remember
  <1>4. \A p \in T : p = new \/ p \in table
    BY <1>3 DEF Resolve
  <1>5. \A p \in table : p \in T \/ PendingKey(p) = <<ev, v>>
    BY <1>3 DEF Resolve
  <1>6. new \in T
    BY <1>3
  <1>7. /\ new.generation = ev /\ new.uri = log[ev].uri /\ new.identity = log[ev].identity
    BY DEF Event
  <1> HIDE DEF T, new
  <1>8. T \subseteq Obligation
    BY <1>2, <1>4
  <1>9. HasPending(T, v)
    BY <1>2, <1>6 DEF HasPending
  <1>10. ASSUME NEW o, Held(table, o) PROVE Held(T, o)
    BY <1>2, <1>5, <1>6, <1>10 DEF Held
  <1>11. ASSUME NEW last \in Nat, OwnTable(log, ev, table, last), ev <= last PROVE OwnTable(log, ev, T, last)
    <2>1. Bounded(T)
      BY <1>11, RememberBounded DEF OwnTable, TableOf, T
    <2> QED
      BY <1>4, <1>7, <1>8, <1>11, <2>1 DEF OwnTable, TableOf, During, Event
  <1> QED
    BY <1>8, <1>9, <1>10, <1>11 DEF T

\* _resolve_micro_pending: only the verifier's own obligation leaves the table.
LEMMA ResolveKeeps ==
    ASSUME NEW v, NEW table
    PROVE  /\ Resolve(table, v) \subseteq table
           /\ \A o : Held(table, o) /\ o # <<ev, v>> => Held(Resolve(table, v), o)
           /\ \A last : OwnTable(log, ev, table, last) => OwnTable(log, ev, Resolve(table, v), last)
  <1>1. Resolve(table, v) \subseteq table
    BY DEF Resolve
  <1>2. ASSUME NEW o, Held(table, o), o # <<ev, v>> PROVE Held(Resolve(table, v), o)
    BY <1>2 DEF Held, Resolve
  <1>3. ASSUME NEW last, OwnTable(log, ev, table, last) PROVE OwnTable(log, ev, Resolve(table, v), last)
    BY <1>1, <1>3, BoundedParts DEF OwnTable, TableOf
  <1> QED
    BY <1>1, <1>2, <1>3

-----------------------------------------------------------------------------
(* Deferring.                                                              *)

\* The state of _defer_micro_verifiers between two verifiers.
Deferrals == [table : SUBSET Obligation, list : Reasons, n : Nat, told : SUBSET Verifiers]

\* The attention list of a new run.
LEMMA NoReasons == <<>> \in Reasons
  BY PendingConstants DEF Reasons

\* _escalate adds a reason to the bounded attention list, and drops the oldest.
LEMMA AttentionTypes ==
    ASSUME NEW list \in Reasons, ev \in Nat, NEW why \in Causes, NEW status, NEW t
    PROVE  Escalated(list, t, why, status) \in Reasons
  <1>1. Attention \in Nat \ {0}
    BY PendingConstants
  <1>2. <<ev, why>> \in Nat \X Causes
    OBVIOUS
  <1>3. CASE Len(list) < Attention
    BY <1>1, <1>2, <1>3 DEF Escalated, WithAttention, Reasons
  <1>4. CASE ~(Len(list) < Attention)
    <2>1. list # <<>>
      BY <1>1, <1>4
    <2>2. Append(Tail(list), <<ev, why>>) \in Reasons
      BY <1>2, <2>1 DEF Reasons
    <2> QED
      BY <1>4, <2>2 DEF Escalated, WithAttention
  <1> QED
    BY <1>3, <1>4

\* r is what s may become when the verifiers of vs are deferred.
Defers(s, r, vs) ==
    /\ r \in Deferrals
    /\ \A last \in Nat : OwnTable(log, ev, s.table, last) /\ ev <= last => OwnTable(log, ev, r.table, last)
    /\ \A o : Held(s.table, o) => Held(r.table, o)
    /\ s.told \subseteq r.told
    /\ r.n >= s.n
    /\ generation = ev => \A v \in vs : (v \in r.told \/ HasPending(r.table, v)) /\ r.n > s.n

\* One turn of the loop of _defer_micro_verifiers: the verifier becomes pending or
\* is escalated, and counted.
LEMMA DeferOneStep ==
    ASSUME During, NEW t, NEW s \in Deferrals, NEW v \in Verifiers, NEW remaining
    PROVE  Defers(s, DeferOne(t, s, v, remaining), {v})
  <1> DEFINE d == Dispose(s.table, v, "NotRun", {}, remaining, TRUE)
             r == DeferOne(t, s, v, remaining)
  <1>0. ev \in Nat /\ generation \in Nat
    BY DEF During, Logged
  <1>1. /\ generation > ev => Is(d, "DiscardStale")
        /\ generation <= ev =>
             \/ Is(d, "EscalateUnknown")
             \/ /\ Is(d, "RemainPendingAndDeferRemaining") \/ Is(d, "RemainPending")
                /\ HasPending(s.table, v) \/ Cardinality(s.table) < Capacity
    <2>1. PICK c : c = d
      OBVIOUS
    <2> HIDE DEF d
    <2>3. c = Dispose(s.table, v, "NotRun", {}, remaining, TRUE)
      BY <2>1 DEF d
    <2> QED
      BY <1>0, <2>1, <2>3, DisposeIs
  <1>2. r = CASE d.retain -> DeferState(Remember(s.table, v), s.list, s.n + 1, s.told)
              [] d.disposition = "EscalateUnknown" ->
                   DeferState(s.table, Escalated(s.list, t, "deferred", "UNKNOWN"), s.n + 1,
                              s.told \cup {v})
              [] OTHER -> s
    BY DEF DeferOne
  <1> SUFFICES Defers(s, r, {v})
    OBVIOUS
  <1> HIDE DEF d, r
  <1>3. s.table \subseteq Obligation /\ s.list \in Reasons /\ s.n \in Nat /\ s.told \subseteq Verifiers
    BY DEF Deferrals
  <1>4. CASE generation > ev
    <2>1. r = s
      BY <1>1, <1>2, <1>4 DEF Is
    <2> QED
      BY <1>0, <1>3, <1>4, <2>1 DEF Defers
  <1>5. CASE generation <= ev /\ Is(d, "EscalateUnknown")
    <2>1. r = DeferState(s.table, Escalated(s.list, t, "deferred", "UNKNOWN"), s.n + 1, s.told \cup {v})
      BY <1>2, <1>5 DEF Is
    <2>2. Escalated(s.list, t, "deferred", "UNKNOWN") \in Reasons
      <3>1. "deferred" \in Causes
        BY DEF Causes
      <3> QED
        BY <1>0, <1>3, <3>1, AttentionTypes
    <2>3. r.table = s.table /\ r.n = s.n + 1 /\ r.told = s.told \cup {v} /\ r \in Deferrals
      BY <1>3, <2>1, <2>2 DEF DeferState, Deferrals
    <2> QED
      BY <1>0, <1>3, <2>3 DEF Defers
  <1>6. CASE /\ generation <= ev
             /\ Is(d, "RemainPendingAndDeferRemaining") \/ Is(d, "RemainPending")
             /\ HasPending(s.table, v) \/ Cardinality(s.table) < Capacity
    <2>1. r = DeferState(Remember(s.table, v), s.list, s.n + 1, s.told)
      BY <1>2, <1>6 DEF Is
    <2>2. /\ Remember(s.table, v) \subseteq Obligation
          /\ HasPending(Remember(s.table, v), v)
          /\ \A o : Held(s.table, o) => Held(Remember(s.table, v), o)
          /\ \A last \in Nat : OwnTable(log, ev, s.table, last) /\ ev <= last => OwnTable(log, ev, Remember(s.table, v), last)
      BY <1>3, <1>6, RememberKeeps
    <2>3. r.table = Remember(s.table, v) /\ r.n = s.n + 1 /\ r.told = s.told /\ r \in Deferrals
      BY <1>3, <2>1, <2>2 DEF DeferState, Deferrals
    <2> QED
      BY <1>0, <1>3, <2>2, <2>3 DEF Defers
  <1> QED
    BY <1>0, <1>1, <1>4, <1>5, <1>6

-----------------------------------------------------------------------------
\* Induction over the natural numbers, for a set.
LEMMA Induction ==
    ASSUME NEW S, 0 \in S, \A n \in Nat : n \in S => n + 1 \in S
    PROVE  \A n \in Nat : n \in S
  <1> SUFFICES ASSUME NEW m \in Nat, m \notin S PROVE FALSE
    OBVIOUS
  <1> DEFINE A == S \cap (0..m)
             B == A \ {0}
             f == [x \in A |-> x + 1]
  <1>1. IsFiniteSet(0..m)
    BY FS_Interval
  <1>2. IsFiniteSet(A)
    BY <1>1, FS_Subset
  <1>3. 0 \in A /\ \A x \in A : x + 1 \in B
    OBVIOUS
  <1>4. IsFiniteSet(B) /\ Cardinality(B) = Cardinality(A) - 1 /\ Cardinality(A) \in Nat
    <2> HIDE DEF A
    <2> QED
      BY <1>2, <1>3, FS_RemoveElement, FS_CardinalityType
  <1>5. f \in [A -> B]
    <2> HIDE DEF A, B
    <2> QED
      BY <1>3
  <1>6. \E x, y \in A : x # y /\ f[x] = f[y]
    <2> HIDE DEF A, B, f
    <2> QED
      BY <1>2, <1>4, <1>5, FS_PigeonHole
  <1> QED
    BY <1>6

\* f is the run of n steps from a.
Iterates(f, n, X, a, step) ==
    /\ f \in [0..n -> X]
    /\ f[0] = a
    /\ \A k \in 1..n : f[k] = step[k][f[k - 1]]

\* There is a run of n steps from a.
LEMMA Recursion ==
    ASSUME NEW n \in Nat, NEW X, NEW a \in X, NEW step \in [1..n -> [X -> X]]
    PROVE  \E f : Iterates(f, n, X, a, step)
  <1> DEFINE S == {m \in Nat : m <= n => \E f : Iterates(f, m, X, a, step)}
  <1>1. 0 \in S
    <2> DEFINE f == [k \in 0..0 |-> a]
    <2>1. Iterates(f, 0, X, a, step)
      BY DEF Iterates
    <2> QED
      BY <2>1, Zenon
  <1>2. \A m \in Nat : m \in S => m + 1 \in S
    <2> SUFFICES ASSUME NEW m \in Nat, m \in S, m + 1 <= n
                 PROVE  \E f : Iterates(f, m + 1, X, a, step)
      OBVIOUS
    <2>1. PICK f : Iterates(f, m, X, a, step)
      OBVIOUS
    <2> DEFINE g == [k \in 0..m + 1 |-> IF k <= m THEN f[k] ELSE step[m + 1][f[m]]]
    <2> HIDE DEF S
    <2>2. f[m] \in X /\ step[m + 1] \in [X -> X]
      BY <2>1 DEF Iterates
    <2>3. g \in [0..m + 1 -> X]
      BY <2>1, <2>2 DEF Iterates
    <2>4. \A k \in 1..m + 1 : g[k] = step[k][g[k - 1]]
      BY <2>1 DEF Iterates
    <2>5. Iterates(g, m + 1, X, a, step)
      BY <2>1, <2>3, <2>4 DEF Iterates
    <2> QED
      BY <2>5
  <1>3. n \in S
    <2> HIDE DEF S
    <2> QED
      BY <1>1, <1>2, Induction
  <1> QED
    BY <1>3

\* Deferring vs and then v defers both.
LEMMA DefersOn ==
    ASSUME NEW s \in Deferrals, NEW q, NEW r, NEW vs, NEW v, Defers(s, q, vs), Defers(q, r, {v})
    PROVE  Defers(s, r, vs \cup {v})
  <1>1. s.n \in Nat /\ q.n \in Nat /\ r.n \in Nat
    BY DEF Defers, Deferrals
  <1>2. ASSUME NEW w, HasPending(q.table, w) PROVE HasPending(r.table, w)
    BY <1>2 DEF Defers, HasPending, Held
  <1>3. ASSUME generation = ev, NEW w \in vs \cup {v}
        PROVE  (w \in r.told \/ HasPending(r.table, w)) /\ r.n > s.n
    BY <1>1, <1>2, <1>3 DEF Defers
  <1> QED
    BY <1>1, <1>3 DEF Defers

\* The verifiers of vs are deferred one by one.
LEMMA DeferAll ==
    ASSUME During, NEW t, NEW s \in Deferrals, NEW vs \in Seq(Verifiers)
    PROVE  Defers(s, DeferMicroVerifiers(t, s, vs), Range(vs))
  <1> DEFINE n == Len(vs)
             step == [k \in 1..n |-> [x \in Deferrals |-> DeferOne(t, x, vs[k], n - k)]]
             Run_(a) == a = [k \in 0..n |-> IF k = 0 THEN s ELSE DeferOne(t, a[k - 1], vs[k], n - k)]
             after == CHOOSE a : Run_(a)
  <1>1. n \in Nat /\ \A k \in 1..n : vs[k] \in Verifiers
    OBVIOUS
  <1>2. \A k \in 1..n : \A x \in Deferrals : Defers(x, DeferOne(t, x, vs[k], n - k), {vs[k]})
    BY <1>1, DeferOneStep
  <1>3. step \in [1..n -> [Deferrals -> Deferrals]]
    BY <1>2 DEF Defers
  <1>4. PICK f : Iterates(f, n, Deferrals, s, step)
    <2> HIDE DEF step, n
    <2> QED
      BY <1>1, <1>3, Recursion
  <1>5. Run_(f)
    <2>1. f \in [0..n -> Deferrals] /\ f[0] = s /\ \A k \in 1..n : f[k] = step[k][f[k - 1]]
      BY <1>4 DEF Iterates
    <2>2. \A k \in 1..n : f[k] = DeferOne(t, f[k - 1], vs[k], n - k)
      BY <1>1, <2>1
    <2> QED
      BY <1>1, <2>1, <2>2
  <1>6. Run_(after)
    BY <1>5
  <1>7. DeferMicroVerifiers(t, s, vs) = after[n]
    BY DEF DeferMicroVerifiers
  <1> DEFINE Done(k) == {vs[j] : j \in 1..k}
             S == {k \in Nat : k <= n => Defers(s, after[k], Done(k))}
  <1>8. after[0] = s /\ \A k \in 1..n : after[k] = DeferOne(t, after[k - 1], vs[k], n - k)
    <2> HIDE DEF after
    <2> QED
      BY <1>1, <1>6
  <1> HIDE DEF after, step
  <1>9. 0 \in S
    <2>1. Defers(s, s, Done(0))
      BY DEF Defers, Deferrals
    <2> QED
      BY <1>8, <2>1
  <1>10. ASSUME NEW k \in Nat, k + 1 <= n, Defers(s, after[k], Done(k))
         PROVE  Defers(s, after[k + 1], Done(k + 1))
    <2>1. after[k] \in Deferrals
      BY <1>10 DEF Defers
    <2>2. PICK m : m = k + 1
      OBVIOUS
    <2>3. m \in 1..n /\ m - 1 = k
      BY <1>1, <1>10, <2>2
    <2>4. Done(m) = Done(k) \cup {vs[m]}
      BY <1>1, <2>2
    <2> HIDE DEF Done, n
    <2>5. after[m] = DeferOne(t, after[k], vs[m], n - m)
      BY <1>8, <2>3
    <2>6. Defers(after[k], after[m], {vs[m]})
      BY <1>2, <2>1, <2>3, <2>5
    <2>7. Defers(s, after[m], Done(m))
      <3>1. Defers(s, after[m], Done(k) \cup {vs[m]})
        BY <1>10, <2>6, DefersOn
      <3> QED
        BY <2>4, <3>1
    <2> QED
      BY <2>2, <2>7
  <1>11. n \in S
    <2>1. \A k \in Nat : k \in S => k + 1 \in S
      <3> HIDE DEF Done, n
      <3> QED
        BY <1>1, <1>10
    <2> HIDE DEF S, n
    <2> QED
      BY <1>1, <1>9, <2>1, Induction
  <1>12. Done(n) = Range(vs)
    BY <1>1 DEF Range
  <1>13. Defers(s, after[n], Done(n))
    BY <1>1, <1>11
  <1> QED
    BY <1>7, <1>12, <1>13

-----------------------------------------------------------------------------
(* Queues and turns.                                                       *)

\* The elements of a sequence.
LEMMA InRange ==
    ASSUME NEW S, NEW q \in Seq(S)
    PROVE  \A x : x \in Range(q) <=> \E k \in 1..Len(q) : x = q[k]
  BY DEF Range

\* A sequence of members of a set has its elements there.
LEMMA RangeIn ==
    ASSUME NEW S, NEW q \in Seq(S), NEW T, \A k \in 1..Len(q) : q[k] \in T
    PROVE  Range(q) \subseteq T
  BY InRange

\* The head of a queue and what remains hold what the queue held.
LEMMA HeadAndTail ==
    ASSUME NEW S, NEW q \in Seq(S), q # <<>>
    PROVE  /\ Head(q) \in S /\ Tail(q) \in Seq(S) /\ Len(Tail(q)) = Len(q) - 1
           /\ Range(q) = {Head(q)} \cup Range(Tail(q))
  <1>1. Head(q) \in S /\ Tail(q) \in Seq(S) /\ Len(Tail(q)) = Len(q) - 1 /\ Len(q) \in Nat \ {0}
    OBVIOUS
  <1>2. ASSUME NEW k \in 1..Len(q) PROVE q[k] \in {Head(q)} \cup Range(Tail(q))
    <2>1. CASE k = 1
      BY <2>1
    <2>2. CASE k # 1
      <3>1. k - 1 \in 1..Len(Tail(q)) /\ Tail(q)[k - 1] = q[k]
        BY <1>1, <2>2
      <3> QED
        BY <3>1 DEF Range
    <2> QED
      BY <2>1, <2>2
  <1>3. Head(q) \in Range(q)
    BY <1>1 DEF Range
  <1>4. ASSUME NEW k \in 1..Len(Tail(q)) PROVE Tail(q)[k] \in Range(q)
    <2>1. k + 1 \in 1..Len(q) /\ Tail(q)[k] = q[k + 1]
      BY <1>1
    <2> QED
      BY <2>1 DEF Range
  <1>5. Range(q) \subseteq {Head(q)} \cup Range(Tail(q))
    BY <1>2, RangeIn
  <1>6. Range(Tail(q)) \subseteq Range(q)
    BY <1>1, <1>4, RangeIn
  <1>7. Range(q) = {Head(q)} \cup Range(Tail(q))
    BY <1>3, <1>5, <1>6
  <1> QED
    BY <1>1, <1>7

\* Two queues in one.
Joined(p, q) == p \o q

\* Joining two queues loses and invents no verifier.
LEMMA BothQueues ==
    ASSUME NEW S, NEW p \in Seq(S), NEW q \in Seq(S)
    PROVE  Joined(p, q) \in Seq(S) /\ Range(Joined(p, q)) = Range(p) \cup Range(q)
  <1>1. p \o q \in Seq(S) /\ Len(p \o q) = Len(p) + Len(q)
    OBVIOUS
  <1>2. ASSUME NEW k \in 1..Len(p \o q) PROVE (p \o q)[k] \in Range(p) \cup Range(q)
    <2>1. CASE k <= Len(p)
      BY <1>1, <2>1 DEF Range
    <2>2. CASE k > Len(p)
      <3>1. k - Len(p) \in 1..Len(q) /\ (p \o q)[k] = q[k - Len(p)]
        BY <1>1, <2>2
      <3> QED
        BY <3>1 DEF Range
    <2> QED
      BY <1>1, <2>1, <2>2
  <1>3. ASSUME NEW k \in 1..Len(p) PROVE p[k] \in Range(p \o q)
    <2>1. k \in 1..Len(p \o q) /\ (p \o q)[k] = p[k]
      BY <1>1
    <2> QED
      BY <1>1, <2>1 DEF Range
  <1>4. ASSUME NEW k \in 1..Len(q) PROVE q[k] \in Range(p \o q)
    <2>1. k + Len(p) \in 1..Len(p \o q) /\ (p \o q)[k + Len(p)] = q[k]
      BY <1>1
    <2> QED
      BY <1>1, <2>1 DEF Range
  <1>5. PICK r : r = p \o q
    OBVIOUS
  <1>6. r \in Seq(S) /\ \A k \in 1..Len(r) : r[k] \in Range(p) \cup Range(q)
    BY <1>1, <1>2, <1>5
  <1>7. Range(p) \subseteq Range(r) /\ Range(q) \subseteq Range(r)
    BY <1>3, <1>4, <1>5, InRange
  <1>8. Range(r) \subseteq Range(p) \cup Range(q)
    BY <1>6, InRange
  <1> QED
    BY <1>5, <1>6, <1>7, <1>8 DEF Joined

\* Nor does cutting one, where admission does.
LEMMA CutInTwo ==
    ASSUME NEW S, NEW q \in Seq(S), NEW i \in 0..Len(q)
    PROVE  LET p == SubSeq(q, 1, i)
               r == SubSeq(q, i + 1, Len(q))
           IN  /\ p \in Seq(S) /\ r \in Seq(S)
               /\ Range(q) = Range(p) \cup Range(r)
  <1> DEFINE p == SubSeq(q, 1, i)
             r == SubSeq(q, i + 1, Len(q))
  <1>1. p \in Seq(S) /\ r \in Seq(S) /\ Len(p) = i /\ Len(r) = Len(q) - i
    OBVIOUS
  <1>2. \A k \in 1..i : p[k] = q[k]
    OBVIOUS
  <1>3. \A k \in 1..Len(q) - i : r[k] = q[k + i]
    OBVIOUS
  <1> HIDE DEF p, r
  <1>4. Len(q) \in Nat /\ i \in Nat /\ i <= Len(q)
    OBVIOUS
  <1>5. ASSUME NEW k \in 1..Len(q) PROVE q[k] \in Range(p) \cup Range(r)
    <2>1. CASE k <= i
      <3>1. k \in 1..Len(p) /\ p[k] = q[k]
        BY <1>1, <1>2, <1>4, <2>1
      <3> QED
        BY <1>1, <3>1, InRange
    <2>2. CASE k > i
      <3>1. PICK m : m = k - i
        OBVIOUS
      <3>2. m \in 1..Len(q) - i /\ m + i = k
        BY <1>4, <2>2, <3>1
      <3>3. m \in 1..Len(r) /\ r[m] = q[k]
        BY <1>1, <1>3, <3>2
      <3> QED
        BY <1>1, <3>3, InRange
    <2> QED
      BY <1>4, <2>1, <2>2
  <1>6. ASSUME NEW k \in 1..Len(p) PROVE p[k] \in Range(q)
    <2>1. k \in 1..Len(q) /\ p[k] = q[k]
      BY <1>1, <1>2, <1>4
    <2> QED
      BY <2>1, InRange
  <1>7. ASSUME NEW k \in 1..Len(r) PROVE r[k] \in Range(q)
    <2>1. k + i \in 1..Len(q) /\ r[k] = q[k + i]
      BY <1>1, <1>3, <1>4
    <2> QED
      BY <2>1, InRange
  <1>8. Range(q) \subseteq Range(p) \cup Range(r)
    BY <1>5, RangeIn
  <1>9. Range(p) \subseteq Range(q) /\ Range(r) \subseteq Range(q)
    <2>1. Range(p) \subseteq Range(q)
      BY <1>1, <1>6, RangeIn
    <2>2. Range(r) \subseteq Range(q)
      BY <1>1, <1>7, RangeIn
    <2> QED
      BY <2>1, <2>2
  <1>10. p \in Seq(S) /\ r \in Seq(S) /\ Range(q) = Range(p) \cup Range(r)
    BY <1>1, <1>8, <1>9
  <1> QED
    BY <1>10 DEF p, r

\* A set of numbers has a least one.
LEMMA Least ==
    ASSUME NEW S, S \subseteq Nat, S # {}
    PROVE  \E k \in S : \A j \in S : k <= j
  <1> SUFFICES ASSUME \A k \in S : \E j \in S : j < k PROVE FALSE
    <2>1. CASE \A k \in S : \E j \in S : j < k
      BY <2>1
    <2>2. CASE ~(\A k \in S : \E j \in S : j < k)
      <3>1. PICK k \in S : \A j \in S : ~(j < k)
        BY <2>2
      <3>2. \A j \in S : k <= j
        BY <3>1
      <3> QED
        BY <3>1, <3>2
    <2> QED
      BY <2>1, <2>2
  <1> DEFINE A == {n \in Nat : \A k \in S : k > n}
  <1>1. 0 \in A
    OBVIOUS
  <1>2. ASSUME NEW n \in Nat, n \in A PROVE n + 1 \in A
    <2> SUFFICES ASSUME NEW k \in S, ~(k > n + 1) PROVE FALSE
      OBVIOUS
    <2>1. k > n
      BY <1>2
    <2>2. PICK j \in S : j < k
      OBVIOUS
    <2>3. j > n
      BY <1>2
    <2> QED
      BY <2>1, <2>2, <2>3
  <1>3. \A n \in Nat : n \in A
    <2> HIDE DEF A
    <2> QED
      BY <1>1, <1>2, Induction
  <1>4. PICK k : k \in S
    OBVIOUS
  <1>5. k \in A
    BY <1>3, <1>4
  <1> QED
    BY <1>4, <1>5

\* There is a next job while jobs are left.
LEMMA TurnIsLeft ==
    ASSUME todo \subseteq DOMAIN Triggers, todo # {}
    PROVE  Turn \in todo
  <1>1. todo \subseteq Nat
    BY PendingConstants
  <1> DEFINE R == {k \in todo : Repairs(k)}
  <1>2. \E k \in todo : \A j \in todo : ~(IF Repairs(j) = Repairs(k) THEN j < k ELSE Repairs(j))
    <2>1. CASE R # {}
      <3>1. PICK k \in R : \A j \in R : k <= j
        BY <1>1, <2>1, Least
      <3> QED
        BY <1>1, <3>1 DEF Repairs
    <2>2. CASE R = {}
      <3>1. PICK k \in todo : \A j \in todo : k <= j
        BY <1>1, Least
      <3> QED
        BY <1>1, <2>2, <3>1 DEF Repairs
    <2> QED
      BY <2>1, <2>2
  <1>3. PICK k \in todo : Before[k] \cap todo = {}
    BY <1>2 DEF Before
  <1> QED
    BY <1>3 DEF Turn

-----------------------------------------------------------------------------
(* Steps within an event.                                                  *)

\* The workspace log grows by at most one event.
LogGrows == log' = log \/ \E x \in WorkspaceEvent : log' = Append(log, x)

\* Growth leaves the events of the log as they are.
LEMMA GrownLog ==
    ASSUME Logged, LogGrows
    PROVE  /\ Logged' /\ Len(log) \in Nat /\ Len(log') \in Nat /\ Len(log') >= Len(log)
           /\ \A g \in 1..Len(log) : g \in 1..Len(log') /\ log'[g] = log[g]
           /\ Len(log') = Len(log) => log' = log
  <1>1. CASE log' = log
    BY <1>1 DEF Logged
  <1>2. CASE \E x \in WorkspaceEvent : log' = Append(log, x)
    BY <1>2 DEF Logged
  <1> QED
    BY <1>1, <1>2 DEF LogGrows

\* And a table of obligations one of obligations, also of later events.
LEMMA GrownTable ==
    ASSUME Logged, LogGrows, NEW table, NEW last \in Nat, NEW after \in Nat, last <= after
    PROVE  /\ TableOf(log, table, last) => TableOf(log', table, after)
           /\ \A e \in 1..Len(log) : OwnTable(log, e, table, last) => OwnTable(log', e, table, after)
  <1>1. /\ Len(log) \in Nat /\ Len(log') \in Nat
        /\ \A g \in 1..Len(log) : g \in 1..Len(log') /\ log'[g] = log[g]
    BY GrownLog
  <1>2. ASSUME TableOf(log, table, last) PROVE TableOf(log', table, after)
    <2>1. \A p \in table : p.generation \in Nat
      BY <1>2 DEF TableOf, Obligation
    <2> QED
      BY <1>1, <1>2, <2>1 DEF TableOf
  <1> QED
    BY <1>1, <1>2 DEF OwnTable

\* What every step within an event does.
Working ==
    /\ Busy /\ Busy' /\ LogGrows
    /\ ev' = ev /\ verdict' = verdict /\ owed' \subseteq owed
    /\ log' = log => \A v \in Verifiers : Backed(v) => Backed(v)'
    /\ cursor' >= cursor /\ generation' >= generation
    /\ Ours' => cursor' = cursor /\ generation' = generation
    /\ saved' = saved \/ saved' = [cursor |-> cursor', pending |-> pending']
    /\ got \subseteq got' /\ told \subseteq told' /\ acts \subseteq acts' /\ todo' \subseteq todo
    /\ OwnTable(log, ev, pending', cursor + 1)
    /\ \A o : Held(pending, o) =>
                Held(pending', o) \/ (o \notin owed' /\ \A v : o = <<ev, v>> => v \in got')
    /\ pc' = "jobs" /\ acts' # {} => saved'.pending = pending'
    /\ pc' # "jobs" => todo' # {}
    /\ pc' \in {"doctor", "dry", "apply", "plan"} => Trigger'.action # "micro_verifier"

\* What it must see to: the job that ends and the verifiers that are left.
JobDone ==
    Ours' => \A k \in todo \ todo' : Triggers[k].action = "micro_verifier" =>
               \A v \in Range(Triggers[k].verifiers) :
                 Accounted(v)' /\ (acts' \subseteq {"PASS"} => Passed(v)')
Left ==
    Ours' /\ pc' = "micro" =>
        \A v \in Range(Trigger'.verifiers) :
          /\ Accounted(v)' \/ v \in Waiting'
          /\ found' \subseteq {"PASS"} /\ unresolved' = 0 => Passed(v)' \/ v \in Waiting'

\* The running job is one that is left, and its verifiers are known.
LEMMA TriggerTyped ==
    ASSUME IInv
    PROVE  /\ \A k \in DOMAIN Triggers : Range(Triggers[k].verifiers) \subseteq Verifiers
           /\ pc \notin {"down", "idle", "jobs"} =>
                /\ Trigger.verifiers \in Seq(Verifiers) /\ Range(Trigger.verifiers) \subseteq Verifiers
                /\ Turn \in todo
  <1>1. pc \notin {"down", "idle", "jobs"} => Turn \in todo /\ Turn \in DOMAIN Triggers
    BY TurnIsLeft DEF IInv, Types, Progress
  <1>2. \A k \in DOMAIN Triggers : Triggers[k].verifiers \in Seq(Verifiers)
    BY PendingConstants DEF Verifiers
  <1>3. ASSUME NEW q \in Seq(Verifiers) PROVE Range(q) \subseteq Verifiers
    BY DEF Range
  <1> QED
    BY <1>1, <1>2, <1>3 DEF Trigger

\* Within an event, what is accounted for or has passed stays so.
LEMMA WorkingFacts ==
    ASSUME IInv, Working
    PROVE  /\ During /\ (Ours' => Ours)
           /\ \A v : Accounted(v) => Accounted(v)'
           /\ \A v \in Verifiers : Passed(v) => Passed(v)'
           /\ Matched(ev') = Matched(ev)' /\ Matched(ev)' = Matched(ev)
  <1>1. During /\ ev \in 1..Len(log) /\ ev \in Nat /\ cursor \in Nat
    BY DEF IInv, Types, Progress, Working, During, Logged
  <1>2. Ours' => Ours
    BY DEF Ours, Working
  <1>3. ASSUME NEW v, Accounted(v) PROVE Accounted(v)'
    <2>1. CASE v \in got \/ v \in told
      BY <2>1 DEF Working, Accounted
    <2>2. CASE HasPending(pending, v)
      <3>1. Held(pending, <<ev, v>>)
        BY <2>2 DEF HasPending, Held
      <3>2. Held(pending', <<ev, v>>) \/ v \in got'
        BY <3>1 DEF Working
      <3> QED
        BY <3>2 DEF HasPending, Held, Accounted, Working
    <2> QED
      BY <1>3, <2>1, <2>2 DEF Accounted
  <1>4. ASSUME NEW v \in Verifiers, Passed(v) PROVE Passed(v)'
    <2>1. v \in got'
      BY <1>4 DEF Passed, Working
    <2>2. ASSUME Len(log') = ev', Envelope[v].complete PROVE Backed(v)'
      <3>1. log' = log
        BY <1>1, <2>2, GrownLog DEF Working, During
      <3>2. Backed(v)
        BY <1>4, <2>2, <3>1 DEF Passed, Working
      <3> QED
        BY <3>1, <3>2 DEF Working
    <2> QED
      BY <2>1, <2>2 DEF Passed
  <1>5. log'[ev] = log[ev]
    BY <1>1, GrownLog DEF Working, During
  <1>6. Matched(ev') = Matched(ev)' /\ Matched(ev)' = Matched(ev)
    BY <1>5 DEF Matched, Working
  <1> QED
    BY <1>1, <1>2, <1>3, <1>4, <1>6

\* Arithmetic on cursors.
LEMMA Successors ==
    \A m, n \in Nat : m <= n =>
      m + 1 \in Nat /\ n + 1 \in Nat /\ m + 1 <= n + 1 /\ \A k \in Nat : k <= m + 1 => k <= n + 1
  OBVIOUS

\* A step within an event that sees to what it ends keeps the invariant.
LEMMA WorkingKeeps ==
    ASSUME IInv, Working, Types', Declared', JobDone, Left
    PROVE  IInv'
  <1>1. /\ During /\ (Ours' => Ours)
        /\ \A v : Accounted(v) => Accounted(v)'
        /\ \A v \in Verifiers : Passed(v) => Passed(v)'
        /\ Matched(ev)' = Matched(ev)
    BY WorkingFacts
  <1>2. /\ cursor \in Nat /\ cursor' \in Nat /\ generation \in Nat /\ generation' \in Nat
        /\ saved.cursor \in Nat /\ ev \in 1..Len(log) /\ ev \in Nat /\ Logged
        /\ cursor' >= cursor /\ generation' >= generation
    BY DEF IInv, Types, Progress, Working, Logged
  <1>0. ev' = ev /\ LogGrows /\ OwnTable(log, ev, pending', cursor + 1) /\ todo' \subseteq todo
    BY DEF Working
  <1>3. Tables'
    <2>1. OwnTable(log', ev', pending', cursor' + 1)
      <3>1. cursor + 1 \in Nat /\ cursor' + 1 \in Nat /\ cursor + 1 <= cursor' + 1
        BY <1>2, Successors
      <3>2. OwnTable(log', ev, pending', cursor' + 1)
        BY <1>0, <1>2, <3>1, GrownTable
      <3> QED
        BY <1>0, <3>2
    <2>2. TableOf(log', pending', cursor' + 1)
      BY <2>1 DEF OwnTable
    <2>3. TableOf(log', saved'.pending, saved'.cursor + 1)
      <3>1. CASE saved' = saved
        BY <1>2, <3>1, GrownTable DEF IInv, Tables, Working
      <3>2. CASE saved' = [cursor |-> cursor', pending |-> pending']
        BY <2>2, <3>2
      <3> QED
        BY <3>1, <3>2 DEF Working
    <2> QED
      BY <2>1, <2>2, <2>3 DEF Tables, Working
  <1>4. Progress'
    <2>1. ev' \in 1..Len(log')
      BY <1>0, <1>2, GrownLog
    <2>2. ev' <= cursor' + 1 /\ ev' <= generation'
      <3>1. ev <= cursor + 1 /\ ev <= generation
        BY DEF IInv, Progress, Working
      <3>2. ev <= cursor' + 1
        BY <1>2, <3>1, Successors
      <3>3. ev <= generation'
        BY <1>2, <3>1
      <3> QED
        BY <1>0, <3>2, <3>3
    <2>3. ASSUME Ours' PROVE generation' = ev'
      <3>1. Ours /\ generation' = generation
        BY <1>1, <2>3 DEF Working
      <3> QED
        BY <1>0, <3>1 DEF IInv, Progress
    <2> QED
      BY <2>1, <2>2, <2>3 DEF Progress, Working, Busy
  <1>5. Kept'
    <2> SUFFICES ASSUME NEW o \in owed' PROVE Held(saved'.pending, o) /\ Held(pending', o)
      BY DEF Kept
    <2>1. Held(saved.pending, o) /\ Held(pending, o)
      BY DEF IInv, Kept, Working, Busy
    <2>2. Held(pending', o)
      BY <2>1 DEF Working
    <2>3. Held(saved'.pending, o)
      BY <2>1, <2>2 DEF Working
    <2> QED
      BY <2>2, <2>3
  <1>6. MicroOver' = {k \in Matched(ev) \ todo' : Triggers[k].action = "micro_verifier"}
    BY <1>1 DEF MicroOver
  <1>7. Covered'
    <2> SUFFICES ASSUME Ours' PROVE Covered'
      BY DEF Covered
    <2>1. ASSUME NEW k \in MicroOver', NEW v \in Range(Triggers[k].verifiers) PROVE Accounted(v)'
      <3>1. CASE k \in todo
        <4>1. k \in todo \ todo' /\ Triggers[k].action = "micro_verifier"
          BY <1>6, <2>1, <3>1
        <4> QED
          BY <2>1, <4>1 DEF JobDone
      <3>2. CASE k \notin todo
        <4>1. k \in MicroOver /\ Ours
          BY <1>1, <1>6, <2>1, <3>2 DEF MicroOver
        <4>2. Accounted(v)
          BY <2>1, <4>1 DEF IInv, Covered
        <4> QED
          BY <1>1, <4>2
      <3> QED
        BY <3>1, <3>2
    <2> QED
      BY <2>1 DEF Covered, Left
  <1>8. Passing'
    <2> SUFFICES ASSUME Ours' PROVE Passing'
      BY DEF Passing
    <2>1. ASSUME acts' \subseteq {"PASS"}, NEW k \in MicroOver', NEW v \in Range(Triggers[k].verifiers)
          PROVE  Passed(v)'
      <3>1. CASE k \in todo
        <4>1. k \in todo \ todo' /\ Triggers[k].action = "micro_verifier"
          BY <1>6, <2>1, <3>1
        <4> QED
          BY <2>1, <4>1 DEF JobDone
      <3>2. CASE k \notin todo
        <4>1. k \in MicroOver /\ Ours /\ acts \subseteq {"PASS"}
          BY <1>1, <1>6, <2>1, <3>2 DEF MicroOver, Working
        <4>2. Passed(v) /\ v \in Verifiers
          BY <2>1, <4>1, TriggerTyped DEF IInv, Passing, MicroOver, Matched
        <4> QED
          BY <1>1, <4>2
      <3> QED
        BY <3>1, <3>2
    <2> QED
      BY <2>1 DEF Passing, Left
  <1> QED
    BY <1>3, <1>4, <1>5, <1>7, <1>8 DEF IInv, PassMeansVerified, Working

\* The run is over, for whatever reason.
Down ==
    /\ pc' = "down" /\ log' = log /\ ledger' = ledger /\ verdict' = verdict
    /\ Idle /\ pending' = {} /\ cursor' = 0 /\ generation' = 0 /\ attention' = <<>>
    /\ got' = {} /\ told' = {}

\* The supervisor ends keeping the invariant if the status file it leaves holds
\* what is owed.
LEMMA DownKeeps ==
    ASSUME IInv, Down, saved'.cursor \in Nat, TableOf(log, saved'.pending, saved'.cursor + 1),
           \A o \in owed' : Held(saved'.pending, o)
    PROVE  IInv'
  <1>1. Types'
    BY NoReasons DEF IInv, Types, Down, Idle, Logged
  <1>2. Tables'
    BY BoundedParts DEF Tables, Down, Busy, TableOf, Idle
  <1>3. Progress' /\ Kept' /\ Covered' /\ Passing'
    BY DEF Progress, Kept, Covered, Passing, Ours, Busy, Down, Idle
  <1>4. Declared' /\ PassMeansVerified'
    BY DEF IInv, Declared, PassMeansVerified, Down
  <1> QED
    BY <1>1, <1>2, <1>3, <1>4 DEF IInv

-----------------------------------------------------------------------------
(* The steps.                                                              *)

\* A supervisor that has never run satisfies the invariant.
LEMMA InitInv == Init => IInv
  <1> SUFFICES ASSUME Init PROVE IInv
    OBVIOUS
  <1>1. Types
    BY NoReasons DEF Init, Types, Logged, NoSaved
  <1>2. Tables
    BY BoundedParts DEF Init, Tables, TableOf, Busy, NoSaved
  <1>3. Progress /\ Kept /\ Covered /\ Passing /\ Declared /\ PassMeansVerified
    BY DEF Init, Progress, Kept, Covered, Passing, Declared, PassMeansVerified, NoVerdict, Ours, Busy
  <1> QED
    BY <1>1, <1>2, <1>3 DEF IInv

\* The invariant's facts a step needs first.
LEMMA Situation ==
    ASSUME IInv
    PROVE  /\ cursor \in Nat /\ saved.cursor \in Nat /\ generation \in Nat /\ Logged /\ Len(log) \in Nat
           /\ TableOf(log, pending, cursor + 1) /\ TableOf(log, saved.pending, saved.cursor + 1)
           /\ Busy => /\ During /\ ev \in Nat /\ ev <= cursor + 1 /\ OwnTable(log, ev, pending, cursor + 1)
                      /\ (Ours => generation = ev)
  <1>1. /\ cursor \in Nat /\ saved.cursor \in Nat /\ generation \in Nat /\ Logged
        /\ TableOf(log, pending, cursor + 1) /\ TableOf(log, saved.pending, saved.cursor + 1)
    BY DEF IInv, Types, Tables
  <1>2. Len(log) \in Nat
    BY <1>1 DEF Logged
  <1>3. Busy => /\ ev \in 1..Len(log) /\ ev <= cursor + 1 /\ OwnTable(log, ev, pending, cursor + 1)
                /\ (Ours => generation = ev)
    BY DEF IInv, Tables, Progress
  <1> QED
    BY <1>1, <1>2, <1>3 DEF During

\* A result accepted for reuse is accepted until source, ledger or
\* configuration change.
LEMMA BackedOn ==
    ASSUME ledger' = ledger, config' = config, source' = source
    PROVE  \A v : Backed(v) => Backed(v)'
  BY DEF Backed, Reusable

\* An edit appends an event: the running event is no longer the newest.
LEMMA EditStep ==
    ASSUME IInv, NEW u \in Uris, NEW i \in Identities, NEW f \in Facts, Edit(u, i, f)
    PROVE  IInv'
  <1> DEFINE x == [uri |-> u, identity |-> i, facts |-> f]
  <1>1. x \in WorkspaceEvent /\ log' = Append(log, x)
    BY DEF Edit, WorkspaceEvent
  <1>2. LogGrows /\ Logged'
    BY <1>1, GrownLog, Situation DEF LogGrows
  <1>3. /\ UNCHANGED <<ledger, saved, config, pc, cursor, generation, pending, attention, ev, todo, queue,
                       later, unresolved, found, acts, repaired, got, told, owed, verdict>>
        /\ log' # log
    BY <1>1, Situation DEF Edit, work, ghosts, Logged
  <1>4. Types' /\ Declared'
    BY <1>2, <1>3 DEF IInv, Types, Declared
  <1>5. CASE Busy
    <2>1. Working
      <3>1. OwnTable(log, ev, pending', cursor + 1)
        BY <1>3, <1>5, Situation
      <3>2. Trigger' = Trigger
        BY <1>3 DEF Trigger, Turn
      <3> QED
        BY <1>2, <1>3, <1>5, <3>1, <3>2, Situation DEF Working, Busy, IInv, Tables, Progress
    <2>2. JobDone
      BY <1>3 DEF JobDone
    <2>3. Left
      BY <1>3, <2>1, WorkingFacts, TriggerTyped DEF Left, IInv, Covered, Passing, Waiting, Trigger, Turn
    <2> QED
      BY <1>4, <2>1, <2>2, <2>3, WorkingKeeps
  <1>6. CASE ~Busy
    <2>1. ~Busy'
      BY <1>3, <1>6 DEF Busy
    <2>2. Tables'
      <3>1. cursor + 1 \in Nat /\ saved.cursor + 1 \in Nat
        BY Situation
      <3>2. TableOf(log', pending, cursor + 1) /\ TableOf(log', saved.pending, saved.cursor + 1)
        BY <1>2, <3>1, GrownTable, Situation
      <3> QED
        BY <1>3, <1>6, <2>1, <3>2 DEF Tables, Busy
    <2>3. Progress' /\ Kept' /\ Covered' /\ Passing'
      BY <1>3, <1>6, <2>1 DEF IInv, Progress, Kept, Covered, Passing, Ours, Busy
    <2> QED
      BY <1>3, <1>4, <2>2, <2>3 DEF IInv, PassMeansVerified
  <1> QED
    BY <1>5, <1>6

\* _restore_pending takes back what the status file holds.
LEMMA StartStep ==
    ASSUME IInv, Start
    PROVE  IInv'
  <1>1. /\ UNCHANGED <<log, source, ledger, saved, ev, todo, queue, later, unresolved, found, acts, repaired,
                       got, told, owed, verdict>>
        /\ pc = "down" /\ pc' = "idle" /\ cursor' = saved.cursor /\ generation' = 0 /\ pending' = saved.pending
        /\ attention' = <<>>
    BY DEF Start, work, ghosts
  <1>2. Types' /\ Declared'
    BY <1>1, NoReasons DEF IInv, Types, Declared, Logged
  <1>3. Tables'
    BY <1>1, Situation DEF Tables, Busy
  <1>4. Progress' /\ Kept' /\ Covered' /\ Passing'
    BY <1>1 DEF IInv, Progress, Kept, Covered, Passing, Ours, Busy
  <1> QED
    BY <1>1, <1>2, <1>3, <1>4 DEF IInv, PassMeansVerified

\* run() stops and writes the status file with what is pending.
LEMMA StopStep ==
    ASSUME IInv, NEW table, Stop(table), UNCHANGED <<log, ledger, verdict>>,
           TableOf(log, table, cursor + 1), \A o \in owed' : Held(table, o)
    PROVE  IInv'
  <1>1. Down /\ saved' = [cursor |-> cursor, pending |-> table]
    BY DEF Stop, Down, Write
  <1>2. saved'.cursor = cursor /\ saved'.pending = table
    BY <1>1
  <1> QED
    BY <1>1, <1>2, DownKeeps, Situation

\* The supervisor finishes, abandons the event, or dies at a status write.
LEMMA EndStep ==
    ASSUME IInv, Finish \/ Abandon \/ Crash
    PROVE  IInv'
  <1>1. ASSUME Finish \/ Abandon PROVE IInv'
    <2>1. Stop(pending) /\ UNCHANGED <<log, ledger, verdict, owed>> /\ pc # "down"
      BY <1>1 DEF Finish, Abandon, DispatchFailed
    <2> QED
      BY <2>1, StopStep, Situation DEF IInv, Kept
  <1>2. ASSUME Crash PROVE IInv'
    <2>1. Down /\ saved' = saved /\ owed' = owed
      BY <1>2 DEF Crash, Down
    <2> QED
      BY <2>1, DownKeeps, Situation DEF IInv, Kept
  <1> QED
    BY <1>1, <1>2

\* What the table keeps when the next event of a document begins.
LEMMA KeptOwed ==
    ASSUME IInv, pc = "idle", cursor < Len(log), NEW e, e = cursor + 1
    PROVE  /\ e \in 1..Len(log) /\ OwnTable(log, e, KeptPending(e, e), e)
           /\ \A o \in StillOwed(e) : Held(KeptPending(e, e), o)
           /\ StillOwed(e) \subseteq owed
  <1>1. /\ cursor \in Nat /\ Len(log) \in Nat /\ e \in 1..Len(log) /\ e \in Nat /\ e <= e
        /\ TableOf(log, pending, e) /\ pending \subseteq Obligation
    BY Situation DEF TableOf
  <1> DEFINE T == KeptPending(e, e)
  <1>2. T = {p \in pending : p.uri = log[e].uri => p.generation >= e /\ p.identity = log[e].identity}
    BY <1>1, KeptPendingIs
  <1>3. ASSUME NEW p \in T, p.uri = log[e].uri PROVE p.generation = e
    <2>1. p \in pending /\ p.generation >= e
      BY <1>2, <1>3
    <2>2. p.generation \in Nat /\ p.generation <= e
      BY <1>1, <2>1 DEF TableOf, Obligation
    <2> QED
      BY <1>1, <2>1, <2>2
  <1>4. OwnTable(log, e, T, e)
    BY <1>1, <1>2, <1>3, BoundedParts DEF OwnTable, TableOf
  <1>5. ASSUME NEW o \in StillOwed(e) PROVE Held(T, o)
    <2>1. o \in owed /\ (log[o[1]].uri # log[e].uri \/ o[1] = e)
      BY DEF StillOwed
    <2>2. PICK p \in pending : PendingKey(p) = o
      BY <2>1 DEF IInv, Kept, Held
    <2>3. o[1] = p.generation /\ p.uri = log[p.generation].uri /\ p.identity = log[p.generation].identity
      BY <1>1, <2>2 DEF TableOf, PendingKey
    <2>4. p \in T
      BY <1>1, <1>2, <2>1, <2>2, <2>3
    <2> QED
      BY <2>2, <2>4 DEF Held
  <1> QED
    BY <1>1, <1>4, <1>5 DEF StillOwed

\* The triggers of the event cannot be decided: the run stops.
LEMMA UndecidedStep ==
    ASSUME IInv, Undecided
    PROVE  IInv'
  <1> DEFINE e == cursor + 1
  <1>1. pc = "idle" /\ cursor < Len(log) /\ Stop(KeptPending(e, e)) /\ owed' = StillOwed(e)
    BY DEF Undecided
  <1>2. OwnTable(log, e, KeptPending(e, e), e) /\ \A o \in owed' : Held(KeptPending(e, e), o)
    BY <1>1, KeptOwed
  <1> QED
    BY <1>1, <1>2, StopStep DEF OwnTable, Undecided

\* The larger of two numbers.
LEMMA LargerBounds ==
    ASSUME NEW m \in Nat, NEW n \in Nat
    PROVE  Larger(m, n) \in Nat /\ m <= Larger(m, n) /\ n <= Larger(m, n)
  BY DEF Larger

\* _process_event begins: a STALE event is acknowledged as such, the jobs of
\* another are lined up and superseded obligations leave the table.
LEMMA BeginStep ==
    ASSUME IInv, Begin
    PROVE  IInv'
  <1> DEFINE e == cursor + 1
  <1>0. PICK newest \in e..Len(log) :
           LET current == Larger(generation, newest)
           IN \/ /\ e < current
                 /\ generation' = current /\ cursor' = e
                 /\ verdict' = [status |-> "STALE", missing |-> {}]
                 /\ UNCHANGED <<saved, pc, pending, attention, work, got, told, owed>>
              \/ /\ e = current
                 /\ generation' = current
                 /\ pending' = KeptPending(e, current)
                 /\ owed' = StillOwed(e)
                 /\ ev' = e /\ pc' = "jobs"
                 /\ todo' = Matched(e)
                 /\ verdict' = NoVerdict
                 /\ UNCHANGED <<saved, cursor, attention, queue, later, unresolved, found, acts,
                                repaired, got, told>>
    BY DEF Begin
  <1> DEFINE current == Larger(generation, newest)
  <1>1. pc = "idle" /\ cursor < Len(log) /\ UNCHANGED <<log, source, ledger, config, starts, crashes>>
    BY DEF Begin
  <1>2. /\ cursor \in Nat /\ saved.cursor \in Nat /\ generation \in Nat /\ Logged /\ Len(log) \in Nat
        /\ TableOf(log, pending, e) /\ TableOf(log, saved.pending, saved.cursor + 1)
    BY Situation
  <1>3. e \in Nat /\ e <= e + 1 /\ e \in 1..Len(log) /\ current \in Nat /\ newest \in Nat
    BY <1>1, <1>2, <1>0, LargerBounds
  <1>4. CASE /\ e < current
             /\ generation' = current /\ cursor' = e
             /\ verdict' = [status |-> "STALE", missing |-> {}]
             /\ UNCHANGED <<saved, pc, pending, attention, work, got, told, owed>>
    <2>1. Types' /\ Declared'
      BY <1>1, <1>3, <1>4 DEF IInv, Types, Declared, Logged, work
    <2>2. TableOf(log, pending, e + 1)
      BY <1>2, <1>3 DEF TableOf, Obligation
    <2>3. Tables'
      BY <1>1, <1>2, <1>4, <2>2 DEF Tables, Busy
    <2>4. Progress' /\ Kept' /\ Covered' /\ Passing' /\ PassMeansVerified'
      BY <1>1, <1>4 DEF IInv, Progress, Kept, Covered, Passing, Ours, Busy, PassMeansVerified, work
    <2> QED
      BY <2>1, <2>3, <2>4 DEF IInv
  <1>5. CASE /\ e = current
             /\ generation' = current
             /\ pending' = KeptPending(e, current)
             /\ owed' = StillOwed(e)
             /\ ev' = e /\ pc' = "jobs"
             /\ todo' = Matched(e)
             /\ verdict' = NoVerdict
             /\ UNCHANGED <<saved, cursor, attention, queue, later, unresolved, found, acts,
                            repaired, got, told>>
    <2>0. /\ OwnTable(log, e, pending', e) /\ owed' \subseteq owed
          /\ \A o \in owed' : Held(pending', o)
      BY <1>1, <1>5, KeptOwed
    <2>1. Types' /\ Declared'
      BY <1>1, <1>3, <1>5 DEF IInv, Types, Declared, Logged, Matched
    <2>2. acts' = {}
      BY <1>1, <1>5 DEF IInv, Progress
    <2>3. Tables'
      BY <1>1, <1>2, <1>5, <2>0, <2>2 DEF Tables, Busy, OwnTable
    <2>4. Progress'
      BY <1>1, <1>3, <1>5 DEF Progress, Busy, Ours
    <2>5. Kept' /\ PassMeansVerified'
      BY <1>1, <1>5, <2>0 DEF IInv, Kept, PassMeansVerified, NoVerdict
    <2>6. MicroOver' = {}
      BY <1>1, <1>5 DEF MicroOver, Matched
    <2>7. Covered' /\ Passing'
      BY <1>5, <2>6 DEF Covered, Passing
    <2> QED
      BY <2>1, <2>3, <2>4, <2>5, <2>7 DEF IInv
  <1> QED
    BY <1>0, <1>4, <1>5

\* _job_scope: a job starts.
LEMMA StartJobStep ==
    ASSUME IInv, StartJob
    PROVE  IInv'
  <1>1. /\ pc = "jobs" /\ todo # {} /\ saved' = [cursor |-> cursor, pending |-> pending]
        /\ UNCHANGED <<log, source, ledger, config, cursor, generation, pending, attention, ev, todo, queue,
                       later, unresolved, found, acts, got, told, owed, verdict>>
    BY DEF StartJob, Write, work, ghosts
  <1>2. Turn \in DOMAIN Triggers
    BY <1>1, TurnIsLeft DEF IInv, Types
  <1>3. Trigger.action \in Actions /\ Trigger' = Trigger
    BY <1>1, <1>2, PendingConstants DEF Trigger, Turn
  <1>4. pc' \in {"doctor", "plan", "admit"} /\ (pc' # "admit" => Trigger'.action # "micro_verifier")
    <2>1. pc' = CASE Trigger.action = "doctor_safe" -> "doctor"
                  [] Trigger.action = "verification_plan" -> "plan"
                  [] Trigger.action = "micro_verifier" -> "admit"
      BY DEF StartJob
    <2> QED
      BY <1>3, <2>1 DEF Actions
  <1>5. Types' /\ Declared'
    BY <1>1, <1>4 DEF IInv, Types, Declared, Logged
  <1>6. Working
    <2>1. /\ Busy /\ Busy' /\ LogGrows /\ OwnTable(log, ev, pending', cursor + 1)
          /\ cursor \in Nat /\ generation \in Nat
          /\ cursor' >= cursor /\ generation' >= generation
      BY <1>1, <1>4, Situation DEF Busy, LogGrows
    <2>2. \A v : Backed(v) => Backed(v)'
      BY <1>1, BackedOn
    <2> QED
      BY <1>1, <1>4, <2>1, <2>2 DEF Working
  <1>7. JobDone /\ Left
    BY <1>1, <1>4 DEF JobDone, Left
  <1> QED
    BY <1>5, <1>6, <1>7, WorkingKeeps

\* _cancel_active_for_event moves the cursor and the generation past the running
\* event, which can no longer be acknowledged.
LEMMA SupersedeStep ==
    ASSUME IInv, NEW e, Supersede(e)
    PROVE  IInv'
  <1>1. /\ pc \in {"doctor", "dry", "apply", "plan", "admit", "micro"}
        /\ e \in ev + 1..Len(log) /\ e > generation
        /\ generation' = e /\ cursor' = Larger(cursor, e)
        /\ UNCHANGED <<log, source, ledger, config, saved, pc, pending, attention, ev, todo, queue,
                       later, unresolved, found, acts, got, told, owed, verdict>>
    BY DEF Supersede, work, ghosts
  <1>2. Busy /\ Busy' /\ cursor \in Nat /\ generation \in Nat /\ ev \in Nat /\ Len(log) \in Nat
    BY <1>1, Situation DEF Busy
  <1>3. e \in Nat /\ e > ev
    BY <1>1, <1>2
  <1>4. cursor' \in Nat /\ cursor' >= cursor /\ cursor' >= e
    BY <1>1, <1>2, <1>3, LargerBounds
  <1>5. ~Ours'
    <2>1. ~(cursor' + 1 = ev)
      <3>1. \A c, g, n \in Nat : c >= g /\ g > n => ~(c + 1 = n)
        OBVIOUS
      <3> QED
        BY <1>2, <1>3, <1>4, <3>1
    <2> QED
      BY <1>1, <2>1 DEF Ours
  <1>6. Types' /\ Declared'
    BY <1>1, <1>3, <1>4 DEF IInv, Types, Declared, Logged
  <1>7. Working
    <2>1. LogGrows /\ OwnTable(log, ev, pending', cursor + 1) /\ generation' >= generation
      BY <1>1, <1>2, <1>3, Situation DEF LogGrows
    <2>2. \A v : Backed(v) => Backed(v)'
      BY <1>1, BackedOn
    <2>3. todo # {} /\ (pc \in {"doctor", "dry", "apply", "plan"} => Trigger'.action # "micro_verifier")
      BY <1>1 DEF IInv, Progress, Trigger, Turn
    <2> QED
      BY <1>1, <1>2, <1>4, <1>5, <2>1, <2>2, <2>3 DEF Working
  <1> QED
    BY <1>5, <1>6, <1>7, WorkingKeeps DEF JobDone, Left

-----------------------------------------------------------------------------
(* Jobs other than micro-verifiers.                                        *)

\* The labels of the jobs that serve no micro-verifier.
Other == {"doctor", "dry", "apply", "plan"}

\* The job goes on, or ends and leaves the pending obligations alone.
LEMMA OtherStep ==
    ASSUME IInv, pc \in Other, LogGrows, log' = log => source' = source,
           UNCHANGED <<ledger, config, cursor, generation, ev, got, told, owed, verdict>>,
           \/ /\ pc' \in Other
              /\ UNCHANGED <<saved, pending, attention, todo, queue, later, unresolved, found, acts>>
           \/ \E status, list : list \in Reasons /\ EndJob(status, list, pending)
    PROVE  IInv'
  <1>1. /\ Busy /\ cursor \in Nat /\ generation \in Nat /\ ev \in Nat /\ Logged /\ During
        /\ OwnTable(log, ev, pending, cursor + 1)
        /\ Trigger.action # "micro_verifier"
    BY Situation DEF Busy, Other, IInv, Progress
  <1>0. todo # {}
    BY DEF IInv, Progress, Other
  <1>2. Logged' /\ Busy'
    BY <1>1, GrownLog DEF Busy, Other, EndJob
  <1>3. log' = log => \A v : Backed(v) => Backed(v)'
    BY BackedOn
  <1>4. CASE /\ pc' \in Other
             /\ UNCHANGED <<saved, pending, attention, todo, queue, later, unresolved, found, acts>>
    <2>1. Types' /\ Declared'
      BY <1>2, <1>4 DEF IInv, Types, Declared, Other
    <2>2. Trigger' = Trigger
      BY <1>4 DEF Trigger, Turn
    <2>3. Working
      BY <1>0, <1>1, <1>2, <1>3, <1>4, <2>2 DEF Working, Other
    <2>4. JobDone /\ Left
      BY <1>4 DEF JobDone, Left, Other
    <2> QED
      BY <2>1, <2>3, <2>4, WorkingKeeps
  <1>5. ASSUME NEW status, NEW list \in Reasons, EndJob(status, list, pending) PROVE IInv'
    <2>1. /\ acts' = acts \cup {status} /\ todo' = todo \ {Turn}
          /\ queue' = <<>> /\ later' = <<>> /\ unresolved' = 0 /\ found' = {}
          /\ attention' = list /\ pending' = pending /\ pc' = "jobs"
          /\ saved' = [cursor |-> cursor, pending |-> pending]
      BY <1>5 DEF EndJob, Write
    <2>2. saved'.cursor = cursor /\ saved'.pending = pending'
      BY <2>1
    <2>3. Types' /\ Declared'
      BY <1>1, <1>2, <1>5, <2>1, <2>2 DEF IInv, Types, Declared
    <2>4. Working
      BY <1>1, <1>2, <1>3, <2>1, <2>2 DEF Working
    <2>5. \A k \in todo \ todo' : Triggers[k].action # "micro_verifier"
      BY <1>1, <2>1 DEF Trigger
    <2>6. JobDone /\ Left
      BY <2>1, <2>5 DEF JobDone, Left
    <2> QED
      BY <2>3, <2>4, <2>6, WorkingKeeps
  <1> QED
    BY <1>4, <1>5

\* The attention list after an escalation.
LEMMA RefusedStep ==
    ASSUME IInv, NEW why \in Causes, NEW status
    PROVE  Busy => Escalated(attention, Trigger, why, status) \in Reasons
  BY AttentionTypes, Situation DEF IInv, Types

\* _doctor_safe and _selected_verification.
LEMMA OtherSteps ==
    ASSUME IInv, \/ DoctorCheck \/ DoctorDryRun \/ \E i \in Identities : DoctorApply(i)
                 \/ SelectedIncomplete \/ SelectedRaised \/ SelectedFinished
    PROVE  IInv'
  <1> DEFINE Ends == \E status, list : list \in Reasons /\ EndJob(status, list, pending)
  <1>1. pc \in Other
    BY DEF Other, DoctorCheck, DoctorDryRun, DoctorApply, SelectedIncomplete, SelectedRaised, SelectedFinished
  <1>2. Busy /\ attention \in Reasons
    BY <1>1 DEF Other, Busy, IInv, Types
  <1>3. \A why \in Causes : \A status : Escalated(attention, Trigger, why, status) \in Reasons
    BY <1>2, RefusedStep
  <1>4. \A status : EndJob(status, attention, pending) => Ends
    BY <1>2
  <1>5. \A why \in Causes : Refused(why) => Ends
    BY <1>3 DEF Refused
  <1>6. {"refused", "malformed", "unpublished", "incomplete", "raised", "selected"} \subseteq Causes
    BY DEF Causes
  <1>7. ASSUME DoctorCheck PROVE IInv'
    <2>1. /\ \/ Refused("refused")
             \/ pc' = "dry" /\ UNCHANGED <<saved, pending, attention, todo, queue, later, unresolved, found, acts>>
          /\ UNCHANGED <<log, source, ledger, config, cursor, generation, ev, got, told, owed, verdict>>
      BY <1>7 DEF DoctorCheck, ghosts
    <2> QED
      BY <1>1, <1>5, <1>6, <2>1, OtherStep DEF Other, LogGrows
  <1>8. ASSUME DoctorDryRun PROVE IInv'
    <2>1. /\ \/ Refused("malformed") \/ EndJob("PASS", attention, pending)
             \/ pc' = "apply" /\ UNCHANGED <<saved, pending, attention, todo, queue, later, unresolved, found, acts>>
          /\ UNCHANGED <<log, source, ledger, config, cursor, generation, ev, got, told, owed, verdict>>
      BY <1>8 DEF DoctorDryRun, ghosts
    <2> QED
      BY <1>1, <1>4, <1>5, <1>6, <2>1, OtherStep DEF Other, LogGrows
  <1>9. ASSUME NEW i \in Identities, DoctorApply(i) PROVE IInv'
    <2>1. /\ UNCHANGED <<ledger, config, cursor, generation, ev, got, told, owed, verdict>>
          /\ \/ Refused("malformed") /\ UNCHANGED <<log, source>>
             \/ /\ log' = Append(log, [uri |-> Event.uri, identity |-> i, facts |-> Event.facts])
                /\ EndJob("PASS", attention, pending) \/ Refused("unpublished")
      BY <1>9 DEF DoctorApply, ghosts
    <2>2. Ends
      BY <1>4, <1>5, <1>6, <2>1
    <2>3. CASE UNCHANGED <<log, source>>
      BY <1>1, <2>1, <2>2, <2>3, OtherStep DEF LogGrows
    <2>4. CASE log' = Append(log, [uri |-> Event.uri, identity |-> i, facts |-> Event.facts])
      <3>1. Event \in WorkspaceEvent /\ Logged
        BY <1>2, Situation DEF Event, During, Logged
      <3>2. [uri |-> Event.uri, identity |-> i, facts |-> Event.facts] \in WorkspaceEvent
        BY <3>1 DEF WorkspaceEvent
      <3>3. LogGrows /\ log' # log
        BY <2>4, <3>1, <3>2 DEF LogGrows, Logged
      <3> QED
        BY <1>1, <2>1, <2>2, <3>3, OtherStep
    <2> QED
      BY <2>1, <2>3, <2>4
  <1>10. ASSUME SelectedIncomplete \/ SelectedRaised \/ SelectedFinished PROVE IInv'
    <2>1. UNCHANGED <<log, source, ledger, config, cursor, generation, ev, got, told, owed, verdict>>
      BY <1>10 DEF SelectedIncomplete, SelectedRaised, SelectedFinished, ghosts
    <2>2. Ends
      <3>1. CASE SelectedIncomplete
        BY <1>5, <1>6, <3>1 DEF SelectedIncomplete
      <3>2. CASE SelectedRaised
        BY <1>4, <1>5, <1>6, <3>2 DEF SelectedRaised
      <3>3. CASE SelectedFinished
        BY <1>2, <1>3, <1>6, <3>3 DEF SelectedFinished
      <3> QED
        BY <1>10, <3>1, <3>2, <3>3
    <2> QED
      BY <1>1, <2>1, <2>2, OtherStep DEF LogGrows
  <1> QED
    BY <1>7, <1>8, <1>9, <1>10

-----------------------------------------------------------------------------
(* Micro-verifiers.                                                        *)

\* Queue admission selects and defers all it is given.
LEMMA QueueAdmitted ==
    ASSUME NEW n \in Nat, NEW d \in Native_verification_queue_admit(n, Batch)
    PROVE  d.selected \in 0..n /\ d.selected + d.deferred = n
  <1>1. d = verification_queue_admit(n, Batch) /\ d.selected + d.deferred = n
    BY DEF Native_verification_queue_admit
  <1>2. Batch \in Nat
    BY PendingConstants
  <1> QED
    BY <1>1, <1>2 DEF verification_queue_admit

\* _micro divides the job's verifiers into those admitted and those deferred.
LEMMA AdmitStep ==
    ASSUME IInv, Admit
    PROVE  IInv'
  <1> DEFINE vs == Trigger.verifiers
  <1>1. PICK d \in Native_verification_queue_admit(Len(vs), Batch) :
           /\ queue' = SubSeq(vs, 1, d.selected)
           /\ later' = SubSeq(vs, d.selected + 1, d.selected + d.deferred)
    BY DEF Admit
  <1>2. /\ pc = "admit" /\ pc' = "micro"
        /\ UNCHANGED <<log, source, ledger, config, saved, cursor, generation, pending, attention, ev, todo,
                       unresolved, found, acts, got, told, owed, verdict>>
    BY DEF Admit, ghosts
  <1>3. vs \in Seq(Verifiers) /\ todo # {} /\ Len(vs) \in Nat
    BY <1>2, TriggerTyped
  <1>4. d.selected \in 0..Len(vs) /\ d.selected + d.deferred = Len(vs)
    BY <1>3, QueueAdmitted
  <1> HIDE DEF vs
  <1>5. queue' \in Seq(Verifiers) /\ later' \in Seq(Verifiers) /\ Range(vs) = Waiting'
    BY <1>1, <1>3, <1>4, CutInTwo DEF Waiting
  <1>6. Types' /\ Declared'
    BY <1>2, <1>5 DEF IInv, Types, Declared, Logged
  <1>7. Trigger' = Trigger
    BY <1>2 DEF Trigger, Turn
  <1>8. Working
    <2>1. /\ Busy /\ Busy' /\ LogGrows /\ OwnTable(log, ev, pending', cursor + 1)
          /\ cursor' >= cursor /\ generation' >= generation
      BY <1>2, Situation DEF Busy, LogGrows
    <2>2. \A v : Backed(v) => Backed(v)'
      BY <1>2, BackedOn
    <2> QED
      BY <1>2, <1>3, <2>1, <2>2 DEF Working
  <1>9. JobDone /\ Left
    BY <1>2, <1>5, <1>7 DEF JobDone, Left, vs
  <1> QED
    BY <1>6, <1>8, <1>9, WorkingKeeps

\* A verifier above the trigger's cost bound: it and the rest are deferred or
\* escalated.
LEMMA CostRefusedStep ==
    ASSUME IInv, CostRefused
    PROVE  IInv'
  <1> DEFINE v == Head(queue)
  <1>1. /\ pc = "micro" /\ queue # <<>>
        /\ attention' = Escalated(attention, Trigger, "cost", "UNKNOWN")
        /\ told' = told \cup {v} /\ found' = found \cup {"UNKNOWN"} /\ queue' = Tail(queue)
        /\ UNCHANGED <<log, source, ledger, config, saved, pc, cursor, generation, pending, ev, todo, later,
                       unresolved, acts, got, owed, verdict>>
    BY DEF CostRefused
  <1>2. queue \in Seq(Verifiers) /\ later \in Seq(Verifiers) /\ todo # {} /\ Busy /\ Busy'
    BY <1>1 DEF IInv, Types, Progress, Busy
  <1>3. v \in Verifiers /\ Tail(queue) \in Seq(Verifiers) /\ Range(queue) = {v} \cup Range(Tail(queue))
    BY <1>1, <1>2, HeadAndTail
  <1>4. attention' \in Reasons
    <2>1. "cost" \in Causes
      BY DEF Causes
    <2> QED
      BY <1>1, <1>2, <2>1, RefusedStep
  <1>5. Types' /\ Declared'
    BY <1>1, <1>2, <1>3, <1>4 DEF IInv, Types, Declared, Logged
  <1>6. Trigger' = Trigger
    BY <1>1 DEF Trigger, Turn
  <1>7. Working
    <2>1. /\ LogGrows /\ OwnTable(log, ev, pending', cursor + 1)
          /\ cursor' >= cursor /\ generation' >= generation
      BY <1>1, <1>2, Situation DEF LogGrows
    <2>2. \A w : Backed(w) => Backed(w)'
      BY <1>1, BackedOn
    <2> QED
      BY <1>1, <1>2, <2>1, <2>2 DEF Working
  <1>8. JobDone
    BY <1>1 DEF JobDone
  <1>9. Left
    <2> SUFFICES ASSUME Ours', NEW w \in Range(Trigger.verifiers)
                 PROVE  Accounted(w)' \/ w \in Waiting'
      BY <1>1, <1>6 DEF Left
    <2>1. Accounted(w) \/ w \in Waiting
      BY <1>1, <1>7, WorkingFacts DEF IInv, Covered
    <2>2. w \in Waiting => w = v \/ w \in Waiting'
      BY <1>1, <1>3 DEF Waiting
    <2>3. v \in told'
      BY <1>1
    <2> QED
      BY <1>7, <2>1, <2>2, <2>3, WorkingFacts DEF Accounted
  <1> QED
    BY <1>5, <1>7, <1>8, <1>9, WorkingKeeps

\* The statuses a job or an event is decided from.
Seen(statuses) == {IF s = "STALE" THEN "UNKNOWN" ELSE s : s \in statuses}
Weighed(statuses, n) == status_aggregate(Seen(statuses) \cup (IF n > 0 THEN {"UNKNOWN"} ELSE {}))

\* What the status of a job or of an event says of the statuses it is decided from.
LEMMA StatusDecided ==
    ASSUME NEW statuses, NEW n \in Nat,
           NEW d,
           \/ d = Decision("UNKNOWN", TRUE)
           \/ d = Decision("PASS", FALSE) /\ Seen(statuses) = {} /\ n = 0
           \/ d.status = Weighed(statuses, n)
    PROVE  /\ d.status \in Status
           /\ d.status = "PASS" => statuses \subseteq {"PASS"} /\ n = 0
           /\ d.status = "FAIL" => statuses # {}
  <1> DEFINE seen == Seen(statuses)
             all == seen \cup (IF n > 0 THEN {"UNKNOWN"} ELSE {})
             a == status_aggregate(all)
  <1>1. /\ \A s \in statuses : (s = "STALE" /\ "UNKNOWN" \in seen) \/ s \in seen
        /\ statuses = {} => seen = {}
    BY DEF Seen
  <1>2. Weighed(statuses, n) = a
    BY DEF Weighed
  <1> HIDE DEF seen
  <1>3. /\ a \in Status
        /\ a = "PASS" => all = {"PASS"}
        /\ a = "FAIL" => "FAIL" \in all
    BY DEF status_aggregate, Status
  <1>4. /\ all = {"PASS"} => seen \subseteq {"PASS"} /\ n = 0
        /\ "FAIL" \in all => seen # {}
    OBVIOUS
  <1> HIDE DEF all, a
  <1>5. d.status = "UNKNOWN" \/ (d.status = "PASS" /\ seen = {} /\ n = 0) \/ d.status = a
    BY <1>2 DEF Decision, seen
  <1>6. seen \subseteq {"PASS"} => statuses \subseteq {"PASS"}
    BY <1>1
  <1>7. "UNKNOWN" \in Status /\ "PASS" \in Status
    BY DEF Status
  <1> QED
    BY <1>1, <1>3, <1>4, <1>5, <1>6, <1>7

\* The job closes: what is left is deferred.
LEMMA CloseStep ==
    ASSUME IInv, CloseMicro
    PROVE  IInv'
  <1> DEFINE s0 == DeferState(pending, attention, unresolved, told)
             s == DeferMicroVerifiers(Trigger, s0, later)
             d == IF Trigger.verifiers = <<>> THEN Decision("UNKNOWN", TRUE)
                  ELSE Native_verification_status_decide(found, s.n, TRUE)
             list == IF d.escalate THEN Escalated(s.list, Trigger, "micro", d.status) ELSE s.list
  <1>1. pc = "micro" /\ queue = <<>> /\ EndJob(d.status, list, s.table) /\ told' = s.told
    BY DEF CloseMicro
  <1>2. UNCHANGED <<log, source, ledger, config, cursor, generation, ev, got, owed, verdict>>
    BY DEF CloseMicro
  <1>3. /\ Busy /\ During /\ ev \in Nat /\ cursor \in Nat /\ cursor + 1 \in Nat /\ ev <= cursor + 1
        /\ OwnTable(log, ev, pending, cursor + 1) /\ (Ours => generation = ev)
    BY <1>1, Situation DEF Busy
  <1>4. s0 \in Deferrals /\ s0.table = pending /\ s0.n = unresolved /\ s0.told = told
    BY <1>3 DEF DeferState, Deferrals, OwnTable, TableOf, IInv, Types
  <1>5. later \in Seq(Verifiers)
    BY DEF IInv, Types
  <1> HIDE DEF s0
  <1>6. Defers(s0, s, Range(later))
    BY <1>3, <1>4, <1>5, DeferAll
  <1> HIDE DEF s
  <1>7. /\ s.list \in Reasons /\ s.n \in Nat /\ s.told \subseteq Verifiers /\ told \subseteq s.told
        /\ s.n >= unresolved /\ unresolved \in Nat
        /\ \A o : Held(pending, o) => Held(s.table, o)
        /\ generation = ev => \A v \in Range(later) : (v \in s.told \/ HasPending(s.table, v)) /\ s.n > unresolved
        /\ OwnTable(log, ev, s.table, cursor + 1)
    BY <1>3, <1>4, <1>6 DEF Defers, Deferrals, IInv, Types
  <1>8. list \in Reasons
    <2>1. "micro" \in Causes
      BY DEF Causes
    <2>2. Escalated(s.list, Trigger, "micro", d.status) \in Reasons
      <3> HIDE DEF d
      <3> QED
        BY <1>3, <1>7, <2>1, AttentionTypes
    <2> QED
      BY <1>7, <2>2
  <1>9. d.status = "PASS" => found \subseteq {"PASS"} /\ s.n = 0
    <2>1. CASE Trigger.verifiers = <<>>
      BY <2>1 DEF Decision
    <2>2. CASE Trigger.verifiers # <<>>
      <3>1. PICK c : c = Native_verification_status_decide(found, s.n, TRUE)
        OBVIOUS
      <3>2. \/ c = Decision("UNKNOWN", TRUE)
            \/ c = Decision("PASS", FALSE) /\ Seen(found) = {} /\ s.n = 0
            \/ c.status = Weighed(found, s.n)
        BY <3>1 DEF Native_verification_status_decide, verification_status_decide,
           verification_status_aggregate, Seen, Weighed, Decision
      <3>3. c.status = "PASS" => found \subseteq {"PASS"} /\ s.n = 0
        BY <1>7, <3>2, StatusDecided
      <3> QED
        BY <2>2, <3>1, <3>3
    <2> QED
      BY <2>1, <2>2
  <1> HIDE DEF d, list
  <1>10. /\ acts' = acts \cup {d.status} /\ todo' = todo \ {Turn}
         /\ queue' = <<>> /\ later' = <<>> /\ unresolved' = 0
         /\ attention' = list /\ pending' = s.table /\ pc' = "jobs"
         /\ saved' = [cursor |-> cursor, pending |-> s.table]
    BY <1>1 DEF EndJob, Write
  <1>11. saved'.cursor = cursor /\ saved'.pending = pending'
    BY <1>10
  <1>12. Types' /\ Declared'
    BY <1>1, <1>2, <1>3, <1>7, <1>8, <1>10, <1>11 DEF IInv, Types, Declared, Logged
  <1>13. Working
    <2>1. /\ LogGrows /\ Busy' /\ cursor' >= cursor /\ generation' >= generation
      BY <1>2, <1>3, <1>10 DEF LogGrows, Busy, During
    <2>2. \A w : Backed(w) => Backed(w)'
      BY <1>2, BackedOn
    <2> QED
      BY <1>1, <1>2, <1>3, <1>7, <1>10, <1>11, <2>1, <2>2 DEF Working
  <1>14. ASSUME Ours', NEW v \in Range(Trigger.verifiers)
         PROVE  Accounted(v)' /\ (acts' \subseteq {"PASS"} => Passed(v)')
    <2>1. Ours /\ generation = ev
      BY <1>3, <1>13, <1>14, WorkingFacts
    <2>2. Waiting = Range(later)
      BY <1>1 DEF Waiting, Range
    <2>3. v \in Range(later) => Accounted(v)'
      BY <1>1, <1>2, <1>7, <1>10, <2>1 DEF Accounted, HasPending
    <2>4. Accounted(v)'
      BY <1>1, <1>13, <2>1, <2>2, <2>3, WorkingFacts DEF IInv, Covered
    <2>5. ASSUME acts' \subseteq {"PASS"} PROVE Passed(v)'
      <3>1. found \subseteq {"PASS"} /\ s.n = 0
        BY <1>9, <1>10, <2>5
      <3>2. unresolved = 0 /\ v \notin Range(later)
        BY <1>7, <2>1, <3>1
      <3>3. Passed(v)
        BY <1>1, <2>1, <2>2, <3>1, <3>2 DEF IInv, Passing
      <3> QED
        BY <1>1, <1>13, <1>14, <3>3, WorkingFacts, TriggerTyped
    <2> QED
      BY <2>4, <2>5
  <1>15. JobDone
    <2>1. \A k \in todo \ todo' : Triggers[k] = Trigger
      BY <1>10 DEF Trigger
    <2> QED
      BY <1>14, <2>1 DEF JobDone
  <1>16. Left
    BY <1>10 DEF Left
  <1> QED
    BY <1>12, <1>13, <1>15, <1>16, WorkingKeeps

\* A disposition is settled: which obligations the table then has, who was told, and
\* who is left.
LEMMA SettleStep ==
    ASSUME IInv, pc = "micro", queue # <<>>, NEW v, v = Head(queue),
           NEW evidence, evidence # "NotRun", NEW outcome, NEW gate \in BOOLEAN,
           NEW d, d = Dispose(pending, v, evidence, outcome, Behind, gate),
           NEW status, NEW list \in Reasons, NEW escalates \in BOOLEAN, Settle(d, status, list, escalates),
           DOMAIN ledger' = Verifiers, Declared', \A w \in Verifiers : Backed(w) => Backed(w)',
           status = "PASS" => /\ evidence = "Pass" /\ outcome \in {{}, {"Pass"}}
                              /\ Envelope[v].complete => Backed(v)'
    PROVE  IInv'
  <1> DEFINE rest == Tail(queue) \o later
             stale == d.disposition \in {"CancelStale", "DiscardStale"}
             report == escalates /\ d.disposition = "EscalateUnknown"
             table == CASE d.retain -> Remember(pending, v)
                        [] d.disposition = "Resolve" -> Resolve(pending, v)
                        [] OTHER -> pending
             said == IF report THEN Escalated(list, Trigger, "unretained", "UNKNOWN") ELSE list
             seen == IF d.disposition = "EscalateUnknown" THEN told \cup {v} ELSE told
             s0 == DeferState(table, said, unresolved, seen)
             s == IF d.deferRemaining THEN DeferMicroVerifiers(Trigger, s0, rest) ELSE s0
             R == IF d.deferRemaining THEN Range(rest) ELSE {}
  <1>1. /\ pending' = s.table /\ attention' = s.list /\ unresolved' = s.n /\ told' = s.told
        /\ found' = found \cup {status}
        /\ got' = (IF d.disposition = "Resolve" THEN got \cup {v} ELSE got)
        /\ owed' = (IF d.disposition = "Resolve" THEN owed \ {<<ev, v>>} ELSE owed)
        /\ queue' = (IF d.deferRemaining \/ stale THEN <<>> ELSE Tail(queue))
        /\ later' = (IF d.deferRemaining THEN <<>> ELSE later)
        /\ UNCHANGED <<log, source, saved, config, pc, cursor, generation, ev, todo, acts, verdict>>
    BY DEF Settle
  <1>2. /\ Busy /\ Busy' /\ During /\ ev \in Nat /\ generation \in Nat /\ cursor \in Nat /\ cursor + 1 \in Nat
        /\ ev <= cursor + 1 /\ ev <= generation
        /\ OwnTable(log, ev, pending, cursor + 1) /\ (Ours => generation = ev)
        /\ todo # {} /\ pending \subseteq Obligation /\ unresolved \in Nat /\ told \subseteq Verifiers
    <2>1. Busy /\ Busy'
      BY <1>1 DEF Busy
    <2> QED
      BY <2>1, Situation DEF IInv, Types, Progress, OwnTable, TableOf
  <1>3. /\ v \in Verifiers /\ rest \in Seq(Verifiers) /\ Tail(queue) \in Seq(Verifiers)
        /\ Waiting = {v} \cup Range(rest) /\ Range(rest) = Range(Tail(queue)) \cup Range(later)
        /\ later \in Seq(Verifiers)
    <2>1. queue \in Seq(Verifiers) /\ later \in Seq(Verifiers)
      BY DEF IInv, Types
    <2>2. v \in Verifiers /\ Tail(queue) \in Seq(Verifiers) /\ Range(queue) = {v} \cup Range(Tail(queue))
      BY <2>1, HeadAndTail
    <2>3. rest \in Seq(Verifiers) /\ Range(rest) = Range(Tail(queue)) \cup Range(later)
      <3>1. rest = Joined(Tail(queue), later)
        BY DEF Joined
      <3> HIDE DEF rest
      <3> QED
        BY <2>1, <2>2, <3>1, BothQueues
    <2> HIDE DEF rest
    <2> QED
      BY <2>1, <2>2, <2>3 DEF Waiting
  <1>4. /\ generation > ev => Is(d, "DiscardStale")
        /\ generation <= ev =>
             \/ Is(d, "EscalateUnknown")
             \/ Is(d, "Resolve")
             \/ /\ Is(d, "RemainPendingAndDeferRemaining") \/ Is(d, "RemainPending")
                /\ HasPending(pending, v) \/ Cardinality(pending) < Capacity
        /\ generation = ev /\ status = "PASS" => Is(d, "Resolve")
    BY <1>2, DisposeIs
  <1> HIDE DEF rest
\* The table that the verifier itself leaves.
  <1>5. /\ table \subseteq Obligation /\ OwnTable(log, ev, table, cursor + 1)
        /\ \A o : Held(pending, o) => Held(table, o) \/ (d.disposition = "Resolve" /\ o = <<ev, v>>)
        /\ \/ generation > ev
           \/ v \in seen \/ HasPending(table, v) \/ d.disposition = "Resolve"
    <2>1. CASE generation > ev
      <3>1. table = pending
        BY <1>4, <2>1 DEF Is
      <3> HIDE DEF table, seen
      <3> QED
        BY <1>2, <2>1, <3>1
    <2>2. CASE Is(d, "EscalateUnknown")
      <3>1. table = pending /\ v \in seen
        BY <2>2 DEF Is
      <3> HIDE DEF table, seen
      <3> QED
        BY <1>2, <3>1
    <2>3. CASE Is(d, "Resolve")
      <3>1. table = Resolve(pending, v) /\ d.disposition = "Resolve"
        BY <2>3 DEF Is
      <3> HIDE DEF table, seen
      <3> QED
        BY <1>2, <3>1, ResolveKeeps DEF OwnTable, TableOf
    <2>4. CASE /\ Is(d, "RemainPendingAndDeferRemaining") \/ Is(d, "RemainPending")
               /\ HasPending(pending, v) \/ Cardinality(pending) < Capacity
      <3>1. table = Remember(pending, v)
        BY <2>4 DEF Is
      <3> HIDE DEF table, seen
      <3> QED
        BY <1>2, <1>3, <2>4, <3>1, RememberKeeps
    <2> QED
      BY <1>2, <1>4, <2>1, <2>2, <2>3, <2>4
  <1>6. said \in Reasons /\ seen \subseteq Verifiers /\ told \subseteq seen
    <2>1. "unretained" \in Causes
      BY DEF Causes
    <2>2. Escalated(list, Trigger, "unretained", "UNKNOWN") \in Reasons
      BY <1>2, <2>1, AttentionTypes
    <2> QED
      BY <1>2, <1>3, <2>2
  <1> HIDE DEF table, said, seen
  <1>7. s0 \in Deferrals /\ s0.table = table /\ s0.n = unresolved /\ s0.told = seen
    BY <1>2, <1>5, <1>6 DEF DeferState, Deferrals
  <1> HIDE DEF s0
  <1>8. Defers(s0, s, R)
    <2>1. CASE d.deferRemaining
      BY <1>2, <1>3, <1>7, <2>1, DeferAll
    <2>2. CASE ~d.deferRemaining
      BY <1>7, <2>2 DEF Defers, Deferrals
    <2> QED
      BY <2>1, <2>2
  <1> HIDE DEF s
  <1>9. /\ pending' \subseteq Obligation /\ attention' \in Reasons /\ unresolved' \in Nat /\ told' \subseteq Verifiers
        /\ told \subseteq told' /\ seen \subseteq told' /\ unresolved' >= unresolved
        /\ \A o : Held(table, o) => Held(pending', o)
        /\ generation = ev => \A w \in R : (w \in told' \/ HasPending(pending', w)) /\ unresolved' > unresolved
        /\ OwnTable(log, ev, pending', cursor + 1)
    BY <1>1, <1>2, <1>5, <1>6, <1>7, <1>8 DEF Defers, Deferrals
  <1>10. queue' \in Seq(Verifiers) /\ later' \in Seq(Verifiers)
    BY <1>1, <1>3
  <1>11. Types'
    BY <1>1, <1>2, <1>9, <1>10 DEF IInv, Types, Logged
  <1>12. Working
    <2>1. /\ LogGrows /\ cursor' >= cursor /\ generation' >= generation /\ got \subseteq got' /\ owed' \subseteq owed
      BY <1>1, <1>2 DEF LogGrows
    <2>2. ASSUME NEW o, Held(pending, o)
          PROVE  Held(pending', o) \/ (o \notin owed' /\ \A w : o = <<ev, w>> => w \in got')
      BY <1>1, <1>5, <1>9, <2>2
    <2> QED
      BY <1>1, <1>2, <1>9, <2>1, <2>2 DEF Working
  <1>13. JobDone
    BY <1>1 DEF JobDone
  <1>14. ASSUME Ours'
         PROVE  /\ Ours /\ generation = ev
                /\ \A w \in Waiting : w = v \/ w \in R \/ w \in Waiting'
                /\ Accounted(v)' /\ (status = "PASS" => Passed(v)')
    <2>1. Ours /\ generation = ev
      BY <1>2, <1>12, <1>14, WorkingFacts
    <2>2. ~(generation > ev) /\ generation <= ev
      BY <1>2, <2>1
    <2>3. ~stale
      BY <1>4, <2>2 DEF Is
    <2>4. \A w \in Waiting : w = v \/ w \in R \/ w \in Waiting'
      BY <1>1, <1>3, <2>3 DEF Waiting
    <2>5. Accounted(v)'
      <3>1. HasPending(table, v) => HasPending(pending', v)
        BY <1>9 DEF HasPending, Held
      <3> QED
        BY <1>1, <1>5, <1>9, <2>2, <3>1 DEF Accounted, HasPending
    <2>6. status = "PASS" => Passed(v)'
      BY <1>1, <1>4, <2>1 DEF Passed, Is
    <2> QED
      BY <2>1, <2>4, <2>5, <2>6
  <1>15. Left
    <2> SUFFICES ASSUME Ours', NEW w \in Range(Trigger.verifiers)
                 PROVE  /\ Accounted(w)' \/ w \in Waiting'
                        /\ found' \subseteq {"PASS"} /\ unresolved' = 0 => Passed(w)' \/ w \in Waiting'
      BY <1>1 DEF Left, Trigger, Turn
    <2>1. w \in R => Accounted(w)'
      BY <1>1, <1>9, <1>14 DEF Accounted, HasPending
    <2>2. Accounted(w) \/ w \in Waiting
      BY <1>14 DEF IInv, Covered
    <2>3. ASSUME found' \subseteq {"PASS"}, unresolved' = 0 PROVE Passed(w)' \/ w \in Waiting'
      <3>1. unresolved = 0 /\ R = {}
        BY <1>2, <1>9, <1>14, <2>3
      <3>2. status = "PASS" /\ found \subseteq {"PASS"}
        BY <1>1, <2>3
      <3>3. Passed(w) \/ w \in Waiting
        BY <1>14, <3>1, <3>2 DEF IInv, Passing
      <3>4. w \in Verifiers
        BY TriggerTyped
      <3> QED
        BY <1>12, <1>14, <3>1, <3>2, <3>3, <3>4, WorkingFacts
    <2>4. Accounted(w)' \/ w \in Waiting'
      BY <1>12, <1>14, <2>1, <2>2, WorkingFacts
    <2> QED
      BY <2>3, <2>4
  <1> QED
    BY <1>11, <1>12, <1>13, <1>15, WorkingKeeps

\* The evidence a status is.
LEMMA EvidenceOf ==
    ASSUME NEW status
    PROVE  Evidence(status) # "NotRun" /\ (status = "PASS" => Evidence(status) = "Pass")
  BY DEF Evidence

\* A recorded result is reused.
LEMMA ReuseStep ==
    ASSUME IInv, Reuse
    PROVE  IInv'
  <1>1. pc = "micro" /\ queue # <<>> /\ ledger' = ledger
    BY DEF Reuse, Runnable
  <1>2. PICK v, r : /\ v = Head(queue) /\ r \in Reusable(v)
                    /\ Settle(Dispose(pending, v, Evidence(r.status), {}, Behind, FALSE),
                              r.status, attention, FALSE)
    BY DEF Reuse
  <1>3. UNCHANGED <<source, config>>
    BY <1>2 DEF Settle
  <1>4. \A w : Backed(w) => Backed(w)'
    BY <1>1, <1>3, BackedOn
  <1>5. attention \in Reasons /\ DOMAIN ledger' = Verifiers /\ Declared'
    BY <1>1 DEF IInv, Types, Declared
  <1>6. r.status = "PASS" => Backed(v)'
    BY <1>2, <1>4 DEF Backed
  <1> QED
    BY <1>1, <1>2, <1>4, <1>5, <1>6, EvidenceOf, SettleStep

\* The verifier raised: its outcome is UNKNOWN.
LEMMA RunFailsStep ==
    ASSUME IInv, NEW outcome, RunFails(outcome)
    PROVE  IInv'
  <1>1. pc = "micro" /\ queue # <<>> /\ ledger' = ledger
    BY DEF RunFails, Runnable
  <1> DEFINE list == Escalated(attention, Trigger, "error", "UNKNOWN")
  <1>2. PICK v, status :
            /\ v = Head(queue) /\ status = "UNKNOWN"
            /\ Settle(Dispose(pending, v, "Unknown", outcome, Behind, TRUE), status, list, TRUE)
    BY DEF RunFails
  <1>3. UNCHANGED <<source, config>>
    BY <1>2 DEF Settle
  <1>4. \A w : Backed(w) => Backed(w)'
    BY <1>1, <1>3, BackedOn
  <1>5. DOMAIN ledger' = Verifiers /\ Declared'
    BY <1>1 DEF IInv, Types, Declared
  <1>6. list \in Reasons
    <2>1. "error" \in Causes /\ Busy
      BY <1>1 DEF Causes, Busy
    <2> QED
      BY <2>1, RefusedStep
  <1> HIDE DEF list
  <1>7. status # "PASS" /\ "Unknown" # "NotRun"
    BY <1>2
  <1> QED
    BY <1>7, <1>1, <1>2, <1>4, <1>5, <1>6, SettleStep

\* What a run of v records.
LEMMA RunRecords ==
    ASSUME NEW v, NEW o \in RunOutcomes, NEW r, r = Executed(o[1], o[2], Envelope[v], config, source)
    PROVE  /\ r.dependency_envelope.complete =>
                DOMAIN r.dependency_envelope.path_identities = Envelope[v].paths
           /\ r.status = "PASS" =>
                /\ o[3] \in {{}, {"Pass"}}
                /\ Envelope[v].complete =>
                     /\ r.dependency_envelope.complete
                     /\ r.material = _material_identities(config)
                     /\ _freshness(r, config, Candidate, source) = "CURRENT"
  <1>0. \/ o = <<TRUE, "PASS", {}>>
        \/ o = <<TRUE, "PASS", {"Pass"}>>
        \/ o = <<TRUE, "FAIL", {}>>
        \/ o = <<TRUE, "UNKNOWN", {}>>
        \/ o = <<FALSE, "UNKNOWN", {"Timeout"}>>
    BY DEF RunOutcomes
  <1>1. o[3] = {} \/ o[3] = {"Pass"} \/ o[2] = "UNKNOWN"
    <2>1. ASSUME NEW a, NEW b, NEW c, o = <<a, b, c>> PROVE o[2] = b /\ o[3] = c
      BY <2>1
    <2> QED
      BY <1>0, <2>1
  <1>2. o[2] = "PASS" => o[3] \in {{}, {"Pass"}}
    BY <1>1
  <1>3. CASE o[1]
    <2> DEFINE e == _dependency_envelope(Envelope[v], source)
    <2>1. /\ e.path_identities = [u \in Envelope[v].paths |-> source[u]]
          /\ e.complete <=> Envelope[v].complete
      BY DEF _dependency_envelope
    <2> HIDE DEF e
    <2>2. r = Result(o[2], e, config)
      BY <1>3 DEF Executed, e
    <2>3. /\ r.status = o[2] /\ r.dependency_envelope = e
          /\ r.material = _material_identities(config)
      BY <2>2 DEF Result
    <2>4. Envelope[v].complete => _freshness(r, config, Candidate, source) = "CURRENT"
      BY <2>1, <2>3 DEF _freshness
    <2> QED
      BY <1>2, <2>1, <2>3, <2>4
  <1>4. CASE ~o[1]
    <2>1. r.status = "UNKNOWN" /\ ~r.dependency_envelope.complete
      BY <1>4 DEF Executed, Result, NoEnvelope, _dependency_envelope
    <2> QED
      BY <2>1
  <1> QED
    BY <1>3, <1>4

\* The verifier ran, and its result was recorded.
LEMMA RunStep ==
    ASSUME IInv, NEW o \in RunOutcomes, Run(o[1], o[2], o[3])
    PROVE  IInv'
  <1>1. pc = "micro" /\ queue # <<>> /\ Reusable(Head(queue)) = {}
    BY DEF Run, Runnable
  <1>2. PICK v, r, known, status :
           /\ v = Head(queue) /\ r = Executed(o[1], o[2], Envelope[v], config, source)
           /\ known = "PASS" => r.status = "PASS"
           /\ status = "PASS" => known = "PASS"
           /\ Settle(Dispose(pending, v, Evidence(known), o[3], Behind, FALSE), status, attention, TRUE)
           /\ ledger' = [ledger EXCEPT ![v] = Recorded(@, r)]
    <2> DEFINE v == Head(queue)
               r == Executed(o[1], o[2], Envelope[v], config, source)
               known == IF Trigger.complete /\ ~r.dependency_envelope.complete THEN "UNKNOWN" ELSE r.status
               d == Dispose(pending, v, Evidence(known), o[3], Behind, FALSE)
               status == IF d.disposition = "DiscardStale" THEN "UNKNOWN" ELSE known
    <2>1. known = "PASS" => r.status = "PASS"
      OBVIOUS
    <2>2. status = "PASS" => known = "PASS"
      OBVIOUS
    <2>3. Settle(d, status, attention, TRUE) /\ ledger' = [ledger EXCEPT ![v] = Recorded(@, r)]
      BY DEF Run
    <2> QED
      BY <2>1, <2>2, <2>3, Zenon
  <1>3. UNCHANGED <<source, config>>
    BY <1>2 DEF Settle
  <1>4. v \in Verifiers /\ DOMAIN ledger = Verifiers /\ attention \in Reasons
    <2>1. queue \in Seq(Verifiers)
      BY DEF IInv, Types
    <2> QED
      BY <1>1, <1>2, <2>1, HeadAndTail DEF IInv, Types
  <1>5. /\ DOMAIN ledger' = Verifiers /\ \A w \in Verifiers \ {v} : ledger'[w] = ledger[w]
        /\ \A x \in ledger'[v] : x \in ledger[v] \/ (x = r /\ r.dependency_envelope.complete)
        /\ r.dependency_envelope.complete => r \in ledger'[v]
    BY <1>2, <1>4 DEF Recorded
  <1>6. Declared'
    BY <1>2, <1>4, <1>5, RunRecords DEF IInv, Declared
  <1>7. \A w \in Verifiers : Backed(w) => Backed(w)'
    BY <1>1, <1>2, <1>3, <1>5 DEF Backed, Reusable
  <1>8. known = "PASS" /\ Envelope[v].complete => Backed(v)'
    <2>1. SUFFICES ASSUME known = "PASS", Envelope[v].complete PROVE Backed(v)'
      OBVIOUS
    <2>2. r.status = "PASS" /\ r = Executed(o[1], o[2], Envelope[v], config, source)
      BY <1>2, <2>1
    <2>3. /\ r.dependency_envelope.complete
          /\ r.material = _material_identities(config)
          /\ _freshness(r, config, Candidate, source) = "CURRENT"
      BY <2>1, <2>2, RunRecords
    <2> QED
      BY <1>3, <1>5, <2>2, <2>3 DEF Backed, Reusable
  <1>9. /\ known = "PASS" => o[3] \in {{}, {"Pass"}} /\ Evidence(known) = "Pass"
        /\ Evidence(known) # "NotRun"
    BY <1>2, EvidenceOf, RunRecords
  <1>10. status = "PASS" => /\ Evidence(known) = "Pass" /\ o[3] \in {{}, {"Pass"}}
                            /\ Envelope[v].complete => Backed(v)'
    BY <1>2, <1>8, <1>9
  <1>11. DOMAIN ledger' = Verifiers /\ attention \in Reasons
    BY <1>4, <1>5
  <1>12. PICK evidence, outcome :
           /\ evidence = Evidence(known) /\ outcome = o[3]
           /\ Settle(Dispose(pending, v, evidence, outcome, Behind, FALSE), status, attention, TRUE)
    BY <1>2
  <1>13. v = Head(queue) /\ evidence # "NotRun"
    BY <1>2, <1>9, <1>12
  <1>14. status = "PASS" => /\ evidence = "Pass" /\ outcome \in {{}, {"Pass"}}
                            /\ Envelope[v].complete => Backed(v)'
    BY <1>10, <1>12
  <1>15. PICK gate \in BOOLEAN : gate = FALSE
    OBVIOUS
  <1>16. PICK escalates \in BOOLEAN : escalates = TRUE
    OBVIOUS
  <1>17. PICK d : d = Dispose(pending, v, evidence, outcome, Behind, gate)
    OBVIOUS
  <1>18. Dispose(pending, v, evidence, outcome, Behind, FALSE) = Dispose(pending, v, evidence, outcome, Behind, gate)
    BY <1>15
  <1>19. Settle(d, status, attention, TRUE)
    BY <1>12, <1>17, <1>18
  <1>20. Settle(d, status, attention, escalates)
    BY <1>19, <1>16
  <1> QED
    BY <1>1, <1>6, <1>7, <1>11, <1>13, <1>14, <1>17, <1>20, SettleStep

-----------------------------------------------------------------------------
(* The end of an event.                                                    *)

\* The event is acknowledged: PASS with current evidence of all it wanted, FAIL
\* with the rest pending in memory and in the status file.
LEMMA AcknowledgeStep ==
    ASSUME IInv, pc = "jobs", NEW status, Acknowledge(status, pending), UNCHANGED <<log, ledger>>,
           ev = cursor + 1 =>
             /\ status = "PASS" => \A v \in Wanted(ev) : v \in got /\ Supported(v)
             /\ status = "FAIL" => \A v \in (Wanted(ev) \ got) \ told :
                                      Held(pending, <<ev, v>>) /\ Held(saved.pending, <<ev, v>>)
    PROVE  IInv'
  <1>1. /\ Busy /\ ev \in Nat /\ ev \in 1..Len(log) /\ TableOf(log, pending, cursor + 1)
        /\ cursor \in Nat /\ generation \in Nat
        /\ saved.cursor \in Nat /\ TableOf(log, saved.pending, saved.cursor + 1)
    BY Situation DEF Busy, During
  <1>2. CASE ev = cursor + 1
    <2> DEFINE missing == {v \in Wanted(ev) : v \notin got \/ ~Supported(v)}
               left == IF status = "FAIL" THEN {<<ev, v>> : v \in (Wanted(ev) \ got) \ told} ELSE {}
    <2>1. /\ cursor' = ev /\ verdict' = [status |-> status, missing |-> missing]
          /\ owed' = owed \cup left /\ pending' = pending /\ pc' = "idle"
          /\ Idle /\ got' = {} /\ told' = {} /\ UNCHANGED <<saved, generation, attention>>
      BY <1>2 DEF Acknowledge
    <2>2. Types' /\ Declared'
      BY <1>1, <2>1 DEF IInv, Types, Declared, Logged, Idle
    <2>3. TableOf(log, pending, ev + 1)
      <3>1. TableOf(log, pending, ev)
        BY <1>1, <1>2
      <3> QED
        BY <1>1, <3>1 DEF TableOf, Obligation
    <2>4. Tables'
      BY <1>1, <2>1, <2>3 DEF Tables, Busy
    <2>5. Progress' /\ Covered' /\ Passing'
      BY <2>1 DEF Progress, Covered, Passing, Ours, Busy, Idle
    <2>6. Kept'
      <3>1. \A o \in left : Held(pending, o) /\ Held(saved.pending, o)
        BY <1>2
      <3> HIDE DEF left
      <3> QED
        BY <1>1, <2>1, <3>1 DEF IInv, Kept, Busy
    <2>7. PassMeansVerified'
      <3>1. status = "PASS" => missing = {}
        BY <1>2
      <3> HIDE DEF missing
      <3> QED
        BY <2>1, <3>1 DEF PassMeansVerified
    <2> QED
      BY <2>2, <2>4, <2>5, <2>6, <2>7 DEF IInv
  <1>3. CASE ev # cursor + 1
    <2>1. Stop(pending) /\ UNCHANGED <<owed, verdict>>
      BY <1>3 DEF Acknowledge, DispatchFailed
    <2> QED
      BY <1>1, <2>1, StopStep DEF IInv, Kept, Busy
  <1> QED
    BY <1>2, <1>3

\* When no job is left, every wanted verifier is one of a finished job.
LEMMA WantedOver ==
    ASSUME todo = {}, NEW v \in Wanted(ev)
    PROVE  \E k \in MicroOver : v \in Range(Triggers[k].verifiers)
  BY DEF Wanted, MicroOver

\* A PASS that _reusable_result accepts is a PASS of the declared paths as they
\* are now.
LEMMA BackedIsSupport ==
    ASSUME Declared, NEW v \in Verifiers, Backed(v)
    PROVE  Supported(v)
  <1>1. PICK r \in Reusable(v) : r.status = "PASS"
    BY DEF Backed
  <1>2. r \in ledger[v] /\ _freshness(r, config, Candidate, source) = "CURRENT"
    BY <1>1 DEF Reusable
  <1>3. \A u \in DOMAIN r.dependency_envelope.path_identities :
          source[u] = r.dependency_envelope.path_identities[u]
    BY <1>2 DEF _freshness
  <1>4. DOMAIN r.dependency_envelope.path_identities = Envelope[v].paths
    BY <1>2 DEF Declared
  <1> QED
    BY <1>1, <1>2, <1>3, <1>4 DEF Supported

\* All jobs are over: the statuses are weighed and the event acknowledged, kept
\* back or found stale.
LEMMA SettleEventStep ==
    ASSUME IInv, SettleEvent
    PROVE  IInv'
  <1>1. /\ pc = "jobs" /\ todo = {} /\ UNCHANGED <<log, source, ledger, config>>
    BY DEF SettleEvent
  <1> DEFINE n == Native_verification_status_decide(acts, 0, FALSE)
  <1>2. PICK d : d = n
    OBVIOUS
  <1>3. /\ d.status = "UNKNOWN" => DispatchFailed(pending)
        /\ d.status = "FAIL" => Acknowledge("FAIL", pending)
        /\ d.status = "PASS" => Acknowledge(IF Stale(Len(log)) THEN "STALE" ELSE "PASS", pending)
    BY <1>2 DEF SettleEvent
  <1>4. /\ d.status \in Status
        /\ d.status = "PASS" => acts \subseteq {"PASS"}
        /\ d.status = "FAIL" => acts # {}
    <2>1. \/ d = Decision("UNKNOWN", TRUE)
          \/ d = Decision("PASS", FALSE) /\ Seen(acts) = {} /\ 0 = 0
          \/ d.status = Weighed(acts, 0)
      BY <1>2 DEF Native_verification_status_decide, verification_status_decide,
         verification_status_aggregate, Seen, Weighed, Decision
    <2> QED
      BY <2>1, StatusDecided
  <1> HIDE DEF n
  <1>5. /\ Busy /\ During /\ ev \in Nat /\ ev \in 1..Len(log) /\ Len(log) \in Nat
        /\ TableOf(log, pending, cursor + 1) /\ (ev = cursor + 1 => Ours)
    BY <1>1, Situation DEF Busy, Ours, During
  <1>6. ASSUME d.status = "UNKNOWN" PROVE IInv'
    <2>1. Stop(pending) /\ UNCHANGED <<owed, verdict>>
      BY <1>3, <1>6 DEF DispatchFailed
    <2> QED
      BY <1>1, <1>5, <2>1, StopStep DEF IInv, Kept
  <1>7. ASSUME d.status = "FAIL" PROVE IInv'
    <2>1. Acknowledge("FAIL", pending)
      BY <1>3, <1>7
    <2>2. ASSUME ev = cursor + 1, NEW v \in (Wanted(ev) \ got) \ told
          PROVE  Held(pending, <<ev, v>>) /\ Held(saved.pending, <<ev, v>>)
      <3>1. Accounted(v)
        BY <1>1, <1>5, <2>2, WantedOver DEF IInv, Covered
      <3>2. Held(pending, <<ev, v>>)
        BY <2>2, <3>1 DEF Accounted, HasPending, Held
      <3>3. saved.pending = pending
        BY <1>1, <1>4, <1>7 DEF IInv, Tables
      <3> QED
        BY <3>2, <3>3
    <2>3. "FAIL" # "PASS"
      OBVIOUS
    <2> QED
      BY <1>1, <2>1, <2>2, <2>3, AcknowledgeStep
  <1>8. ASSUME d.status = "PASS" PROVE IInv'
    <2> DEFINE status == IF Stale(Len(log)) THEN "STALE" ELSE "PASS"
    <2>1. Acknowledge(status, pending)
      BY <1>3, <1>8
    <2>2. ASSUME ev = cursor + 1, status = "PASS", NEW v \in Wanted(ev)
          PROVE  v \in got /\ Supported(v)
      <3>1. PICK k \in MicroOver : v \in Range(Triggers[k].verifiers)
        BY <1>1, <2>2, WantedOver
      <3>2. Passed(v) /\ v \in Verifiers
        BY <1>4, <1>5, <1>8, <2>2, <3>1, TriggerTyped DEF IInv, Passing, MicroOver, Matched
      <3>3. Len(log) = ev
        BY <1>5, <2>2, StaleMeans
      <3>4. Envelope[v].complete => Backed(v)
        BY <3>2, <3>3 DEF Passed
      <3>5. Supported(v)
        <4>1. CASE Envelope[v].complete
          BY <3>2, <3>4, <4>1, BackedIsSupport DEF IInv
        <4>2. CASE ~Envelope[v].complete
          BY <4>2 DEF Supported
        <4> QED
          BY <4>1, <4>2
      <3> QED
        BY <3>2, <3>5 DEF Passed
    <2>3. status # "FAIL"
      OBVIOUS
    <2> HIDE DEF status
    <2> QED
      BY <1>1, <2>1, <2>2, <2>3, AcknowledgeStep
  <1> QED
    BY <1>4, <1>6, <1>7, <1>8 DEF Status

\* A repair was published: its rebind is awaited, the event is acknowledged.
LEMMA SettleRepairedStep ==
    ASSUME IInv, SettleRepaired
    PROVE  IInv'
  <1>1. PICK status : status = "REBOUND" /\ Acknowledge(status, pending)
    BY DEF SettleRepaired
  <1>2. pc = "jobs" /\ UNCHANGED <<log, ledger>>
    BY DEF SettleRepaired
  <1>3. status # "PASS" /\ status # "FAIL"
    BY <1>1
  <1> QED
    BY <1>1, <1>2, <1>3, AcknowledgeStep

-----------------------------------------------------------------------------
\* Every step keeps the invariant.
LEMMA NextInv == IInv /\ [Next]_vars => IInv'
  <1> SUFFICES ASSUME IInv, [Next]_vars PROVE IInv'
    OBVIOUS
  <1>1. CASE Next
    <2>1. CASE \E u \in Uris, i \in Identities, f \in Facts : Edit(u, i, f)
      BY <2>1, EditStep
    <2>2. CASE Start
      BY <2>2, StartStep
    <2>3. CASE Finish \/ Crash \/ Abandon
      BY <2>3, EndStep
    <2>4. CASE Begin \/ Undecided
      BY <2>4, BeginStep, UndecidedStep
    <2>5. CASE StartJob
      BY <2>5, StartJobStep
    <2>6. CASE \E e \in 1..MaxEvents : Supersede(e)
      BY <2>6, SupersedeStep
    <2>7. CASE \/ DoctorCheck \/ DoctorDryRun \/ \E i \in Identities : DoctorApply(i)
               \/ SelectedIncomplete \/ SelectedRaised \/ SelectedFinished
      BY <2>7, OtherSteps
    <2>8. CASE Admit \/ CostRefused \/ Reuse \/ CloseMicro
      BY <2>8, AdmitStep, CostRefusedStep, ReuseStep, CloseStep
    <2>9. CASE \E r \in RunOutcomes : Run(r[1], r[2], r[3])
      BY <2>9, RunStep
    <2>10. CASE \E o \in {{}, {"ResourcePressure"}} : RunFails(o)
      BY <2>10, RunFailsStep
    <2>11. CASE SettleEvent \/ SettleRepaired
      BY <2>11, SettleEventStep, SettleRepairedStep
    <2> QED
      BY <1>1, <2>1, <2>2, <2>3, <2>4, <2>5, <2>6, <2>7, <2>8, <2>9, <2>10, <2>11 DEF Next, Micro
  <1>2. CASE UNCHANGED vars
    <2>1. UNCHANGED <<log, source, ledger, saved, config, pc, cursor, generation, pending, attention, ev, todo,
                      queue, later, unresolved, found, acts, repaired, got, told, owed, verdict>>
      BY <1>2 DEF vars, work, ghosts
    <2>2. Types' /\ Declared' /\ Kept' /\ PassMeansVerified'
      BY <2>1 DEF IInv, Types, Declared, Kept, PassMeansVerified, Logged
    <2>3. Tables' /\ Progress'
      BY <2>1 DEF IInv, Tables, Progress, Busy, Ours, Trigger, Turn
    <2>4. Covered' /\ Passing'
      BY <2>1 DEF IInv, Covered, Passing, Ours, Busy, MicroOver, Matched, Accounted, HasPending, Passed,
         Backed, Reusable, Waiting, Trigger, Turn
    <2> QED
      BY <2>2, <2>3, <2>4 DEF IInv
  <1> QED
    BY <1>1, <1>2

-----------------------------------------------------------------------------
(* The type invariant.                                                     *)

\* What it says beyond the invariant: cursors and generations are of the log, and
\* statuses are the three statuses, but for a stale job.
Within ==
    /\ DOMAIN source = Uris
    /\ {cursor, generation, ev, saved.cursor} \subseteq 0..Len(log)
    /\ acts \subseteq Status \cup {"STALE"} /\ found \subseteq Status
    /\ \A v \in Verifiers : \A r \in ledger[v] : r.status \in Status

\* Steps that reset positions to zero or leave them, and report one of the three statuses.
LEMMA WithinFrame ==
    ASSUME IInv, Within, LogGrows, DOMAIN source' = DOMAIN source, UNCHANGED ledger,
           {cursor', generation', ev', saved'.cursor} \subseteq {cursor, generation, ev, saved.cursor, 0},
           acts' \subseteq acts \cup Status \cup {"STALE"}, found' \subseteq found \cup Status
    PROVE  Within'
  <1>1. Len(log) \in Nat /\ Len(log') \in Nat /\ Len(log') >= Len(log)
    BY GrownLog DEF IInv, Types
  <1>2. {cursor', generation', ev', saved'.cursor} \subseteq 0..Len(log')
    BY <1>1 DEF Within
  <1> QED
    BY <1>2 DEF Within

LEMMA StopWithin ==
    ASSUME IInv, Within, NEW table, Stop(table), UNCHANGED <<log, source, ledger>>
    PROVE  Within'
  <1>1. /\ cursor' = 0 /\ generation' = 0 /\ ev' = 0 /\ saved'.cursor = cursor /\ acts' = {} /\ found' = {}
    BY DEF Stop, Idle, Write
  <1> QED
    BY <1>1, WithinFrame DEF LogGrows

LEMMA EndJobWithin ==
    ASSUME IInv, Within, NEW status \in Status \cup {"STALE"}, NEW list, NEW table, EndJob(status, list, table),
           LogGrows, DOMAIN source' = DOMAIN source, UNCHANGED <<ledger, cursor, generation, ev>>
    PROVE  Within'
  <1>1. acts' = acts \cup {status} /\ found' = {} /\ saved'.cursor = cursor
    BY DEF EndJob, Write
  <1> QED
    BY <1>1, WithinFrame

\* The status of a job or of an event is one of the three.
LEMMA DecidedStatus ==
    ASSUME NEW statuses, NEW n, NEW required,
           NEW d, d = Native_verification_status_decide(statuses, n, required)
    PROVE  d.status \in Status
  <1>1. PICK seen, stale : d = verification_status_decide(seen, n, stale, required)
    BY DEF Native_verification_status_decide
  <1>2. PICK aggregate : aggregate = verification_status_aggregate(seen, n)
    OBVIOUS
  <1>3. aggregate \in Status /\ "UNKNOWN" \in Status /\ "PASS" \in Status
    BY <1>2 DEF verification_status_aggregate, status_aggregate, Status
  <1>4. \/ d = Decision("UNKNOWN", TRUE)
        \/ d = Decision("PASS", FALSE)
        \/ d = Decision(aggregate, aggregate # "PASS")
    BY <1>1, <1>2 DEF verification_status_decide
  <1> QED
    BY <1>3, <1>4 DEF Decision

\* A verifier's disposition is settled with one of the three.
LEMMA SettleWithin ==
    ASSUME IInv, Within, NEW d, NEW status \in Status, NEW list, NEW escalates, Settle(d, status, list, escalates),
           \A v \in Verifiers : \A r \in ledger'[v] : r.status \in Status
    PROVE  Within'
  <1>1. /\ found' = found \cup {status}
        /\ UNCHANGED <<log, source, saved, cursor, generation, ev, acts>>
    BY DEF Settle
  <1> QED
    BY <1>1 DEF Within

\* A step of the run loop or of the ingress thread that ends no job.
LEMMA QuietWithin ==
    ASSUME IInv, Within, DOMAIN source' = DOMAIN source, LogGrows, UNCHANGED <<ledger, acts, found>>,
           UNCHANGED ev \/ ev' \in 1..Len(log), {cursor', generation', saved'.cursor} \subseteq 0..Len(log)
    PROVE  Within'
  <1>1. Len(log) \in Nat /\ Len(log') \in Nat /\ Len(log') >= Len(log)
    BY GrownLog DEF IInv, Types
  <1>2. ev \in 0..Len(log) /\ ev' \in 0..Len(log')
    BY <1>1 DEF Within
  <1>3. {cursor', generation', saved'.cursor} \subseteq 0..Len(log')
    BY <1>1
  <1> QED
    BY <1>2, <1>3 DEF Within

\* The run loop and the ingress thread.
LEMMA LoopWithin ==
    ASSUME IInv, Within,
           \/ \E u \in Uris, i \in Identities, f \in Facts : Edit(u, i, f)
           \/ Start \/ Finish \/ Crash \/ Abandon \/ Begin \/ Undecided \/ StartJob
           \/ \E e \in 1..MaxEvents : Supersede(e)
    PROVE  Within'
  <1>1. Len(log) \in Nat /\ {cursor, generation, saved.cursor} \subseteq 0..Len(log)
    BY GrownLog DEF IInv, Types, Within, Logged
  <1>2. ASSUME NEW u \in Uris, NEW i \in Identities, NEW f \in Facts, Edit(u, i, f) PROVE Within'
    <2>1. LogGrows /\ DOMAIN source' = DOMAIN source
      BY <1>2 DEF Edit, LogGrows, WorkspaceEvent
    <2>2. UNCHANGED <<ledger, saved, cursor, generation, ev, acts, found>>
      BY <1>2 DEF Edit, work
    <2> QED
      BY <1>1, <2>1, <2>2, QuietWithin
  <1>3. CASE Start
    <2>1. UNCHANGED <<log, source, ledger, saved, ev, acts, found>> /\ cursor' = saved.cursor /\ generation' = 0
      BY <1>3 DEF Start, work
    <2> QED
      BY <1>1, <2>1, QuietWithin DEF LogGrows
  <1>4. CASE Finish \/ Abandon \/ Undecided
    BY <1>4, StopWithin DEF Finish, Abandon, Undecided, DispatchFailed
  <1>5. CASE Crash
    <2>1. /\ UNCHANGED <<log, source, ledger, saved>>
          /\ cursor' = 0 /\ generation' = 0 /\ ev' = 0 /\ acts' = {} /\ found' = {}
      BY <1>5 DEF Crash, Idle
    <2> QED
      BY <2>1, WithinFrame DEF LogGrows
  <1>6. CASE Begin
    <2>1. UNCHANGED <<log, source, ledger, saved>> /\ cursor < Len(log)
      BY <1>6 DEF Begin
    <2>2. PICK newest \in cursor + 1..Len(log) :
            /\ generation' = Larger(generation, newest)
            /\ UNCHANGED <<acts, found>>
            /\ \/ cursor' = cursor + 1 /\ UNCHANGED ev
               \/ UNCHANGED cursor /\ ev' = cursor + 1
      <3>1. PICK newest \in cursor + 1..Len(log) :
              /\ generation' = Larger(generation, newest)
              /\ \/ cursor' = cursor + 1 /\ UNCHANGED work
                 \/ cursor' = cursor /\ ev' = cursor + 1 /\ UNCHANGED <<found, acts>>
        BY <1>6 DEF Begin
      <3> QED
        BY <3>1 DEF work
    <2>3. Larger(generation, newest) \in 0..Len(log)
      BY <1>1, <2>2 DEF Larger
    <2> QED
      BY <1>1, <2>1, <2>2, <2>3, QuietWithin DEF LogGrows
  <1>7. CASE StartJob
    <2>1. UNCHANGED <<log, source, ledger, cursor, generation, ev, acts, found>> /\ saved'.cursor = cursor
      BY <1>7 DEF StartJob, work, Write
    <2> QED
      BY <1>1, <2>1, QuietWithin DEF LogGrows
  <1>8. ASSUME NEW e \in 1..MaxEvents, Supersede(e) PROVE Within'
    <2>1. /\ UNCHANGED <<log, source, ledger, saved, ev, acts, found>>
          /\ e \in ev + 1..Len(log) /\ generation' = e /\ cursor' = Larger(cursor, e)
      BY <1>8 DEF Supersede, work
    <2>2. ev \in Nat /\ {cursor', generation'} \subseteq 0..Len(log)
      BY <1>1, <2>1 DEF Larger, Within
    <2> QED
      BY <1>1, <2>1, <2>2, QuietWithin DEF LogGrows
  <1> QED
    BY <1>2, <1>3, <1>4, <1>5, <1>6, <1>7, <1>8

\* Repairs and selected verification.
LEMMA JobsWithin ==
    ASSUME IInv, Within,
           \/ DoctorCheck \/ DoctorDryRun \/ \E i \in Identities : DoctorApply(i)
           \/ SelectedIncomplete \/ SelectedRaised \/ SelectedFinished
    PROVE  Within'
  <1> DEFINE Ends == \E status \in Status \cup {"STALE"} : \E list : EndJob(status, list, pending)
             Rests == UNCHANGED <<saved, acts, found>>
  <1>1. UNCHANGED <<ledger, cursor, generation, ev>>
    BY DEF DoctorCheck, DoctorDryRun, DoctorApply, SelectedIncomplete, SelectedRaised, SelectedFinished
  <1>2. \A why : Refused(why) => Ends
    BY DEF Refused, Status
  <1>3. \A list : EndJob("PASS", list, pending) \/ EndJob("STALE", list, pending) => Ends
    BY DEF Status
  <1>4. CASE \E i \in Identities : DoctorApply(i)
    <2>1. PICK i \in Identities : DoctorApply(i)
      BY <1>4
    <2>2. Ends
      BY <1>2, <1>3, <2>1 DEF DoctorApply
    <2>3. LogGrows /\ DOMAIN source' = DOMAIN source
      <3>1. pc = "apply"
        BY <2>1 DEF DoctorApply
      <3>2. Event \in WorkspaceEvent
        BY <3>1, Situation DEF Event, During, Logged, Busy
      <3>3. [uri |-> Event.uri, identity |-> i, facts |-> Event.facts] \in WorkspaceEvent
        BY <3>2 DEF WorkspaceEvent
      <3> QED
        BY <2>1, <3>3 DEF DoctorApply, LogGrows
    <2> QED
      BY <1>1, <2>2, <2>3, EndJobWithin
  <1>5. CASE DoctorCheck \/ DoctorDryRun
    <2>1. UNCHANGED <<log, source>> /\ (Ends \/ Rests)
      BY <1>2, <1>3, <1>5 DEF DoctorCheck, DoctorDryRun
    <2>2. CASE Ends
      BY <1>1, <2>1, <2>2, EndJobWithin DEF LogGrows
    <2>3. CASE Rests
      BY <1>1, <2>1, <2>3 DEF Within
    <2> QED
      BY <2>1, <2>2, <2>3
  <1>6. CASE SelectedIncomplete \/ SelectedRaised \/ SelectedFinished
    <2>1. ASSUME SelectedIncomplete PROVE Ends
      BY <1>2, <2>1 DEF SelectedIncomplete
    <2>2. ASSUME SelectedRaised PROVE Ends
      BY <1>2, <1>3, <2>2 DEF SelectedRaised
    <2>3. ASSUME SelectedFinished PROVE Ends
      BY <1>3, <2>3 DEF SelectedFinished
    <2>4. Ends /\ UNCHANGED <<log, source>>
      BY <1>6, <2>1, <2>2, <2>3 DEF SelectedIncomplete, SelectedRaised, SelectedFinished
    <2> QED
      BY <1>1, <2>4, EndJobWithin DEF LogGrows
  <1> QED
    BY <1>4, <1>5, <1>6

\* A recorded result has one of the three statuses.
LEMMA RunStatus ==
    ASSUME NEW o \in RunOutcomes, NEW declared, NEW r, r = Executed(o[1], o[2], declared, config, source)
    PROVE  r.status \in Status
  <1>1. o[2] \in Status /\ "UNKNOWN" \in Status
    <2>1. ASSUME NEW a, NEW b, NEW c, o = <<a, b, c>> PROVE o[2] = b
      BY <2>1
    <2> QED
      BY <2>1 DEF RunOutcomes, Status
  <1>2. CASE o[1]
    BY <1>1, <1>2 DEF Executed, Result
  <1>3. CASE ~o[1]
    BY <1>1, <1>3 DEF Executed, Result
  <1> QED
    BY <1>2, <1>3

\* Micro-verifiers.
LEMMA MicroWithin == IInv /\ Within /\ Micro => Within'
  <1> SUFFICES ASSUME IInv, Within, Micro PROVE Within'
    OBVIOUS
  <1>1. "UNKNOWN" \in Status
    BY DEF Status
  <1>2. CASE Admit
    BY <1>2 DEF Admit, Within
  <1>3. CASE CostRefused
    BY <1>1, <1>3 DEF CostRefused, Within
  <1>4. CASE Reuse
    <2>1. Head(queue) \in Verifiers
      <3>1. queue \in Seq(Verifiers) /\ queue # <<>>
        BY <1>4 DEF IInv, Types, Reuse, Runnable
      <3> QED
        BY <3>1, HeadAndTail
    <2>2. PICK status, d, list, escalates : status \in Status /\ Settle(d, status, list, escalates)
      <3>1. PICK r \in Reusable(Head(queue)) :
               \E d : Settle(d, r.status, attention, FALSE)
        BY <1>4 DEF Reuse
      <3>2. r.status \in Status
        BY <2>1, <3>1 DEF Reusable, Within
      <3> QED
        BY <3>1, <3>2
    <2>3. UNCHANGED ledger
      BY <1>4 DEF Reuse
    <2> QED
      BY <2>2, <2>3, SettleWithin DEF Within
  <1>5. CASE CloseMicro
    <2>1. PICK status, list, table : status \in Status /\ EndJob(status, list, table)
      <3> DEFINE s == DeferMicroVerifiers(Trigger, DeferState(pending, attention, unresolved, told), later)
                 d == IF Trigger.verifiers = <<>> THEN Decision("UNKNOWN", TRUE)
                      ELSE Native_verification_status_decide(found, s.n, TRUE)
      <3>1. \E list, table : EndJob(d.status, list, table)
        BY <1>5 DEF CloseMicro
      <3>2. d.status \in Status
        <4>1. CASE Trigger.verifiers = <<>>
          BY <1>1, <4>1 DEF Decision
        <4>2. CASE Trigger.verifiers # <<>>
          <5>1. PICK n : n = s.n
            OBVIOUS
          <5>2. PICK required : required = TRUE
            OBVIOUS
          <5>3. d = Native_verification_status_decide(found, n, required)
            BY <4>2, <5>1, <5>2
          <5> QED
            BY <5>3, DecidedStatus
        <4> QED
          BY <4>1, <4>2
      <3> QED
        BY <3>1, <3>2
    <2>2. UNCHANGED <<log, source, ledger, cursor, generation, ev>>
      BY <1>5 DEF CloseMicro
    <2> QED
      BY <2>1, <2>2, EndJobWithin DEF LogGrows
  <1>6. ASSUME NEW o \in RunOutcomes, Run(o[1], o[2], o[3]) PROVE Within'
    <2>1. PICK r : r = Executed(o[1], o[2], Envelope[Head(queue)], config, source)
      OBVIOUS
    <2>2. r.status \in Status
      BY <2>1, RunStatus
    <2>3. \E status \in Status : \E d : Settle(d, status, attention, TRUE)
      BY <1>1, <1>6, <2>1, <2>2 DEF Run
    <2>4. \A v \in Verifiers : \A x \in ledger'[v] : x \in ledger[v] \/ x = r
      BY <1>6, <2>1 DEF Run, Recorded, IInv, Types
    <2> QED
      BY <2>2, <2>3, <2>4, SettleWithin DEF Within
  <1>7. ASSUME NEW o \in {{}, {"ResourcePressure"}}, RunFails(o) PROVE Within'
    <2>1. UNCHANGED ledger /\ \E d, list : Settle(d, "UNKNOWN", list, TRUE)
      BY <1>7 DEF RunFails
    <2> QED
      BY <1>1, <2>1, SettleWithin DEF Within
  <1> QED
    BY <1>2, <1>3, <1>4, <1>5, <1>6, <1>7 DEF Micro

\* An acknowledged event, or one that has to be dispatched again.
LEMMA AcknowledgeWithin ==
    ASSUME IInv, Within, NEW status, Acknowledge(status, pending), UNCHANGED <<log, source, ledger>>
    PROVE  Within'
  <1>1. CASE ev = cursor + 1
    <2>1. cursor' = ev /\ ev' = 0 /\ acts' = {} /\ found' = {} /\ UNCHANGED <<saved, generation>>
      BY <1>1 DEF Acknowledge, Idle
    <2> QED
      BY <2>1, WithinFrame DEF LogGrows
  <1>2. CASE ev # cursor + 1
    BY <1>2, StopWithin DEF Acknowledge, DispatchFailed
  <1> QED
    BY <1>1, <1>2

\* Every step keeps the types.
LEMMA NextWithin == IInv /\ Within /\ [Next]_vars => Within'
  <1> SUFFICES ASSUME IInv, Within, [Next]_vars PROVE Within'
    OBVIOUS
  <1>1. CASE SettleEvent \/ SettleRepaired
    <2>1. UNCHANGED <<log, source, ledger>>
      BY <1>1 DEF SettleEvent, SettleRepaired
    <2>2. DispatchFailed(pending) \/ \E status : Acknowledge(status, pending)
      BY <1>1 DEF SettleEvent, SettleRepaired
    <2> QED
      BY <2>1, <2>2, AcknowledgeWithin, StopWithin DEF DispatchFailed
  <1>2. CASE UNCHANGED vars
    BY <1>2 DEF vars, work, ghosts, Within
  <1> QED
    BY <1>1, <1>2, LoopWithin, JobsWithin, MicroWithin DEF Next

LEMMA InitWithin == Init => Within
  <1> SUFFICES ASSUME Init PROVE Within
    OBVIOUS
  <1>1. log = <<>> /\ saved.cursor = 0 /\ cursor = 0 /\ generation = 0 /\ ev = 0
    BY DEF Init, NoSaved
  <1> QED
    BY <1>1 DEF Init, Within

\* PendingWork's inductive invariant, through supersession, restarts and crashes:
\* what is pending, restorable, accounted for and passed at every point of an event.
THEOREM PendingInvariant == Spec => []IInv
  BY InitInv, NextInv, PTL DEF Spec

\* The variables have their types; _pending_verification and the attention list
\* never outgrow their capacities, in memory or in the status file, and an
\* obligation has one entry.
THEOREM PendingTypes == Spec => []TypeOK
  <1>1. IInv /\ Within => TypeOK
    <2> SUFFICES ASSUME IInv, Within PROVE TypeOK
      OBVIOUS
    <2>1. /\ Cardinality(pending) <= Capacity /\ Cardinality(saved.pending) <= Capacity
          /\ Len(attention) <= Attention
      BY DEF IInv, Types, Tables, TableOf, Bounded, Reasons
    <2>2. ASSUME NEW p \in pending, NEW q \in pending, PendingKey(p) = PendingKey(q) PROVE p = q
      <3>1. /\ p \in Obligation /\ q \in Obligation
            /\ p.uri = log[p.generation].uri /\ p.identity = log[p.generation].identity
            /\ q.uri = log[q.generation].uri /\ q.identity = log[q.generation].identity
        BY DEF IInv, Tables, TableOf
      <3>2. p.generation = q.generation /\ p.verifier = q.verifier
        BY <2>2 DEF PendingKey
      <3> QED
        BY <3>1, <3>2 DEF Obligation
    <2> QED
      BY <2>1, <2>2 DEF TypeOK, IInv, Types, Within
  <1> QED
    BY <1>1, InitInv, NextInv, InitWithin, NextWithin, PTL DEF Spec

\* An event is acknowledged PASS only when every verifier its triggers asked for was
\* settled for it and has passed on its declared documents as they are.
THEOREM PassIsVerified == Spec => []PassMeansVerified
  <1>1. IInv => PassMeansVerified
    BY DEF IInv
  <1> QED
    BY <1>1, PendingInvariant, PTL

\* A verifier without a result in an event acknowledged FAIL is pending until the
\* document's next event, in memory and in the status file a restart reads, unless
\* _defer_micro_verifiers or _escalate has told of it.
THEOREM OwedIsPending == Spec => []NothingForgotten
  <1>1. IInv => NothingForgotten
    BY DEF IInv, Kept, Held, NothingForgotten
  <1> QED
    BY <1>1, PendingInvariant, PTL

\* _pending_verification never holds obligations of two generations or two source
\* identities of one document.
THEOREM PendingIsCurrent == Spec => []OneGenerationPerDocument
  <1>1. IInv => OneGenerationPerDocument
    BY DEF IInv, Tables, TableOf, OneGenerationPerDocument
  <1> QED
    BY <1>1, PendingInvariant, PTL
=============================================================================
