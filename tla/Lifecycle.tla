----------------------------- MODULE Lifecycle -----------------------------
(***************************************************************************)
(* The lifecycle projection and the transition rules of state_machine.py   *)
(* (the compatibility classification, used when no native adapter is       *)
(* selected), as operators on a record history.                            *)
(*                                                                         *)
(* A history is a sequence of records; an epoch, a disposition and a       *)
(* freeze are named by their position in it, a candidate by its content    *)
(* identity, which is what candidate_id is.  An optional value is a set    *)
(* with at most one element: None is {}.  A view is what one machine() has *)
(* observed of the working tree: content, authority, policy and plan.      *)
(***************************************************************************)
EXTENDS Naturals, Sequences

CONSTANTS Contents,    \* content identities of the candidate paths
          Auths,       \* states of the protected authority files
          Policies,    \* states of the selection policy file
          Plans,       \* states of the required evidence plan file
          Workflows,   \* declared candidate workflows
          Required     \* the workflows a policy or plan requires; {}: invalid

ASSUME RequiredType == Required \in [Policies \cup Plans -> SUBSET Workflows]

Statuses == {"PASS", "FAIL", "UNKNOWN"}

EpochRecord == [kind : {"epoch"}, parent : SUBSET Nat, auth : Auths]
CandidateRecord == [kind : {"candidate"}, cand : Contents, epoch : Nat,
                    parent : SUBSET Contents]
ResultRecord == [kind : {"result"}, cand : Contents, workflow : Workflows,
                 status : Statuses]
DispositionRecord == [kind : {"disposition"}, cand : Contents,
                      disposition : {"selected", "rejected"},
                      policy : Policies, evidence : Statuses]
FreezeRecord == [kind : {"freeze"}, cand : Contents, auth : Auths, plan : Plans,
                 selection : Nat]
\* freeze: the freeze the evaluator was admitted for; ran, ranAuth: content and
\* authority of its workspace (none of them is recorded).
EvaluationRecord == [kind : {"evaluation"}, cand : Contents, status : Statuses,
                     freeze : Nat, ran : Contents, ranAuth : Auths]
BundleRecord == [kind : {"bundle"}, cand : Contents]

ForgeRecord == EpochRecord \cup CandidateRecord \cup ResultRecord \cup DispositionRecord
               \cup FreezeRecord \cup EvaluationRecord \cup BundleRecord

View == [content : Contents, auth : Auths, policy : Policies, plan : Plans]

-----------------------------------------------------------------------------
Positions(h, k) == {n \in 1..Len(h) : h[n].kind = k}

\* The greatest element of a set of positions, if there is one.
Latest(S) == {n \in S : \A m \in S : m <= n}

Earlier(S, n) == {m \in S : m < n}

ActiveEpoch(h) == Latest(Positions(h, "epoch"))

\* The epochs form one unbranched parent lineage.
EpochsCoherent(h) ==
    LET E == Positions(h, "epoch")
    IN \A n \in E : h[n].parent = Latest(Earlier(E, n))

\* A candidate was recorded after the active epoch began, against another one.
EpochSuperseded(h) ==
    \E e \in ActiveEpoch(h), n \in Positions(h, "candidate") : n > e /\ h[n].epoch # e

ActiveCandidates(h) ==
    {n \in Positions(h, "candidate") : h[n].epoch \in ActiveEpoch(h)}

\* The active epoch's candidates form one lineage, each naming its predecessor.
CandidatesCoherent(h) ==
    LET A == ActiveCandidates(h)
    IN \A n \in A : /\ h[n].parent = {h[m].cand : m \in Latest(Earlier(A, n))}
                    /\ h[n].cand \notin h[n].parent

CurrentCandidate(h) == Latest(ActiveCandidates(h))

\* The identity of the current candidate, if there is one.
CurrentId(h) == {h[n].cand : n \in CurrentCandidate(h)}

\* The records of kind k that bind the current candidate.
OfCurrent(h, k) == {n \in Positions(h, k) : h[n].cand \in CurrentId(h)}

AtMostOne(S) == \A m, n \in S : m = n

\* Historical ambiguity: limitations that block every prospective mutation.
Ambiguous(h) ==
    \/ ~EpochsCoherent(h)
    \/ EpochSuperseded(h)
    \/ ~CandidatesCoherent(h)
    \/ ~AtMostOne(OfCurrent(h, "disposition"))
    \/ ~AtMostOne(OfCurrent(h, "freeze"))

\* The projected disposition and freeze: present only when there is exactly one.
OnlyOne(S) == IF AtMostOne(S) THEN S ELSE {}
Disposition(h) == OnlyOne(OfCurrent(h, "disposition"))
Freeze(h) == OnlyOne(OfCurrent(h, "freeze"))

DispositionStatus(h) ==
    IF ~AtMostOne(OfCurrent(h, "disposition")) THEN "conflict"
    ELSE IF OfCurrent(h, "disposition") = {} THEN "undisposed"
    ELSE h[CHOOSE n \in Disposition(h) : TRUE].disposition

-----------------------------------------------------------------------------
\* The results of workflow w that bind candidate c.
Evidence(h, c, w) ==
    {n \in Positions(h, "result") : h[n].cand = c /\ h[n].workflow = w}

\* EvidenceReadiness of the candidate at position n for the workflows in req.
Missing(h, n, req) == {w \in req : Evidence(h, h[n].cand, w) = {}}

\* Bug: a requirement fails only when all of its results do.
Failed_All(h, n, req) ==
    {w \in req \ Missing(h, n, req) :
        \A m \in Evidence(h, h[n].cand, w) : h[m].status = "FAIL"}

Failed(h, n, req) ==
    {w \in req : \E m \in Evidence(h, h[n].cand, w) : h[m].status = "FAIL"}

Unknown(h, n, req) ==
    {w \in req : \E m \in Evidence(h, h[n].cand, w) : h[m].status = "UNKNOWN"}
        \ Failed(h, n, req)

\* Evidence is not comparable once the content or the epoch's authority moved.
Noncomparable(h, n, req, v) ==
    {w \in req \ Missing(h, n, req) :
        \/ h[n].cand # v.content
        \/ \E e \in Positions(h, "epoch") : e = h[n].epoch /\ h[e].auth # v.auth}

\* Bug: evidence nobody produced does not block.
Ready_WithoutEvidence(h, n, req, v) ==
    /\ req # {}
    /\ Failed(h, n, req) = {} /\ Unknown(h, n, req) = {}
    /\ Noncomparable(h, n, req, v) = {}

Ready(h, n, req, v) ==
    /\ req # {}
    /\ Missing(h, n, req) = {} /\ Failed(h, n, req) = {} /\ Unknown(h, n, req) = {}
    /\ Noncomparable(h, n, req, v) = {}

ReadinessStatus(h, n, req, v) ==
    IF Failed(h, n, req) # {} THEN "FAIL"
    ELSE IF Ready(h, n, req, v) THEN "PASS" ELSE "UNKNOWN"

\* Names of the identities a freeze binds that differ from the view.
FreezeDrift(h, f, v) ==
    {x \in {"candidate", "authority", "plan"} :
        \/ x = "candidate" /\ h[f].cand # v.content
        \/ x = "authority" /\ h[f].auth # v.auth
        \/ x = "plan" /\ h[f].plan # v.plan}

-----------------------------------------------------------------------------
(* The authorizers.  epoch and cand are what the caller names.             *)

\* _require_candidate: there is a current candidate, it is the one the caller
\* names (if any) and it matches the content.
RequireCandidate(h, v, cand) ==
    CurrentId(h) = {v.content} /\ cand \in {{}, CurrentId(h)}

AuthorizeEpochBegin(h, epoch) == ~Ambiguous(h) /\ epoch = ActiveEpoch(h)

AuthorizeCandidateRegister(h, v, parent, proposed) ==
    /\ ~Ambiguous(h)
    /\ \E e \in ActiveEpoch(h) : h[e].auth = v.auth
    /\ Freeze(h) = {}
    /\ parent = CurrentId(h)
    /\ proposed \notin parent

\* Bug: candidate work goes on after the freeze.
AuthorizeDevelopmentWork_AfterFreeze(h, v, cand) ==
    ~Ambiguous(h) /\ RequireCandidate(h, v, cand)

AuthorizeDevelopmentWork(h, v, cand) ==
    ~Ambiguous(h) /\ Freeze(h) = {} /\ RequireCandidate(h, v, cand)

\* Bug: a candidate may be disposed again.
AuthorizeCandidateDisposition_Again(h, v, cand, disposition) ==
    /\ ~Ambiguous(h)
    /\ RequireCandidate(h, v, cand)
    /\ disposition = "selected" =>
         \A n \in CurrentCandidate(h) : Ready(h, n, Required[v.policy], v)

AuthorizeCandidateDisposition(h, v, cand, disposition) ==
    /\ ~Ambiguous(h)
    /\ RequireCandidate(h, v, cand)
    /\ DispositionStatus(h) = "undisposed"
    /\ disposition = "selected" =>
         \A n \in CurrentCandidate(h) : Ready(h, n, Required[v.policy], v)

\* Bug: any disposition with PASS evidence can be frozen.
AuthorizeCandidateFreeze_AnyDisposition(h, v, cand, plan) ==
    /\ ~Ambiguous(h)
    /\ RequireCandidate(h, v, cand)
    /\ \A e \in ActiveEpoch(h) : h[e].auth = v.auth
    /\ Freeze(h) = {}
    /\ \A n \in CurrentCandidate(h) : Ready(h, n, Required[v.policy], v)
    /\ \A d \in Disposition(h) : h[d].policy = v.policy /\ h[d].evidence = "PASS"
    /\ \A n \in CurrentCandidate(h) : Ready(h, n, Required[plan], v)

AuthorizeCandidateFreeze(h, v, cand, plan) ==
    /\ ~Ambiguous(h)
    /\ RequireCandidate(h, v, cand)
    /\ \A e \in ActiveEpoch(h) : h[e].auth = v.auth
    /\ DispositionStatus(h) = "selected"
    /\ Freeze(h) = {}
    /\ \A n \in CurrentCandidate(h) : Ready(h, n, Required[v.policy], v)
    /\ \A d \in Disposition(h) : h[d].policy = v.policy /\ h[d].evidence = "PASS"
    /\ \A n \in CurrentCandidate(h) : Ready(h, n, Required[plan], v)

AuthorizeEvaluatorEntry(h, v, cand) ==
    /\ ~Ambiguous(h)
    /\ \E f \in Freeze(h) :
         /\ cand \subseteq {h[f].cand}
         /\ FreezeDrift(h, f, v) = {}
         /\ RequireCandidate(h, v, {h[f].cand})
         /\ DispositionStatus(h) = "selected"
         /\ Disposition(h) = {h[f].selection}
=============================================================================
