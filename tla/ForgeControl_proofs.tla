-------------------------- MODULE ForgeControl_proofs --------------------------
(***************************************************************************)
(* Theorems about the Forge processes, any of them under any adapter: what *)
(* a selection, a freeze and a reported evaluation rest on, that the       *)
(* native adapter admits nothing the host refuses, its reconciliation is   *)
(* the worst of all results.  With one development process: the history    *)
(* stays unambiguous, a freeze is final and the native adapter refuses     *)
(* nothing of its own.                                                     *)
(***************************************************************************)
EXTENDS ForgeControl, SequenceTheorems, FiniteSetTheorems, TLAPS

Ops == DevelopmentOps \cup EvaluatorOps
PCs == {"idle", "authorize", "observe", "execute", "commit", "put", "verify"}

\* The parts of a draft that its run, its second observation and the next
\* workflow leave as they were authorized.
SameDraft(e, d) ==
    /\ e.kind = d.kind
    /\ d.kind \in {"candidate", "disposition", "bundle"} => e = d
    /\ d.kind = "epoch" => e.parent = d.parent
    /\ d.kind = "result" => e.cand = d.cand
    /\ d.kind = "freeze" => e.cand = d.cand /\ e.selection = d.selection
    /\ d.kind = "evaluation" => e.cand = d.cand /\ e.freeze = d.freeze

\* Process p is authorized to draft e.
Authorizes(p, e) ==
    /\ pc[p] = "authorize" /\ op[p] \in OpsOf(p)
    /\ \E v \in View : MachineAuthorizes(p, history, v) /\ e \in Drafts(op[p], history, v)

\* Process p appends its draft d.
Commits(p, d) ==
    /\ pc[p] = "put" /\ gen[p] = Len(history)
    /\ d \in draft[p] /\ ~IdentityConflict(history, d)
    /\ history' = Append(history, d)
    /\ \A q \in Procs \ {p} : draft'[q] = draft[q]
    /\ \A e \in draft'[p] : d.kind \in {"result", "evaluation"} /\ SameDraft(e, d)

\* There is at most one development process.
OneDevelopment == \A p, q \in Procs : Mode[p] = "development" /\ Mode[q] = "development" => p = q

\* The kind of record an operation makes.
KindOf(o) ==
    IF o = "begin_epoch" THEN "epoch"
    ELSE IF o \in {"register", "refresh"} THEN "candidate"
    ELSE IF o = "check" THEN "result"
    ELSE IF o \in {"selected", "rejected"} THEN "disposition"
    ELSE IF o = "freeze" THEN "freeze"
    ELSE IF o = "evaluate" THEN "evaluation"
    ELSE IF o = "bundle" THEN "bundle" ELSE "none"

\* A process drafts one record, of the kind its operation makes.
Shaped ==
    \A p \in Procs :
        /\ \A d \in draft[p] : d.kind = KindOf(op[p])
        /\ \A d, e \in draft[p] : d = e
        /\ pc[p] \in {"idle", "authorize"} => draft[p] = {}
        /\ pc[p] # "idle" => op[p] \in OpsOf(p)
        /\ pc[p] = "observe" => op[p] \in {"begin_epoch", "freeze", "evaluate"}
        /\ pc[p] = "verify" => op[p] = "evaluate"

-----------------------------------------------------------------------------
(* The parts of the inductive invariants.  Each says of the record a       *)
(* process is going to commit what it will have to be when it is.          *)

\* The selection d has its evidence in h.
Selects(h, d) ==
    d.kind = "disposition" /\ d.disposition = "selected" =>
        /\ d.evidence = "PASS"
        /\ Required[d.policy] # {}
        /\ \A w \in Required[d.policy] :
             \E m \in Evidence(h, d.cand, w) : h[m].status = "PASS"
        /\ \E m \in Positions(h, "candidate") : h[m].cand = d.cand

\* The freeze d names a selection of its candidate in h.
Freezes(h, d) ==
    d.kind = "freeze" =>
        /\ d.selection \in Positions(h, "disposition")
        /\ h[d.selection].disposition = "selected"
        /\ h[d.selection].cand = d.cand

\* d fits h: it extends the lineages h shows.
Fits(h, d) ==
    /\ d.kind = "epoch" => d.parent = ActiveEpoch(h)
    /\ d.kind = "candidate" =>
         /\ ActiveEpoch(h) = {d.epoch}
         /\ d.parent = CurrentId(h) /\ d.cand \notin d.parent
    /\ d.kind \in {"disposition", "freeze"} => OfCurrent(h, d.kind) = {}

\* d continues h: nothing was committed since it was authorized that it could
\* contradict.
Continues(h, d) ==
    /\ Fits(h, d)
    /\ d.kind \in {"candidate", "result", "disposition", "freeze"} => OfCurrent(h, "freeze") = {}
    /\ d.kind \in {"result", "disposition", "freeze"} => d.cand \in CurrentId(h)
    /\ d.kind = "disposition" /\ d.disposition = "selected" =>
         \A w \in Required[d.policy] : \A m \in Evidence(h, d.cand, w) : h[m].status = "PASS"

\* A candidate belongs to a recorded epoch.
EpochsKnown(h) ==
    \A n \in Positions(h, "candidate") : h[n].epoch \in Positions(h, "epoch")

\* The records that bind a candidate.
Binding == {"result", "disposition", "freeze", "evaluation"}

\* d binds a registered candidate.
Binds(h, d) ==
    d.kind \in Binding => \E c \in Positions(h, "candidate") : h[c].cand = d.cand

\* What binds a candidate comes after its registration.
Registered(h) ==
    \A n \in 1..Len(h) : h[n].kind \in Binding =>
        \E c \in Positions(h, "candidate") : c < n /\ h[c].cand = h[n].cand

\* A frozen candidate is the last of its epoch.
FrozenLast(h) ==
    \A f \in Positions(h, "freeze") : \A b, c \in Positions(h, "candidate") :
        h[c].cand = h[f].cand /\ h[b].epoch = h[c].epoch => b <= c

\* No later record of the candidate's development binds a frozen candidate.
FrozenAlone(h) ==
    \A f \in Positions(h, "freeze") : \A n \in f + 1 .. Len(h) :
        h[n].kind \in {"result", "disposition", "freeze"} => h[n].cand # h[f].cand

\* The evaluation d was admitted for a freeze of its candidate.
Admitted(h, d) ==
    d.kind = "evaluation" => d.freeze \in Positions(h, "freeze") /\ h[d.freeze].cand = d.cand

\* What an evaluation observed is past once the tree has left it, and what it
\* ran on was there at the same time.
Witnessed(p) ==
    op[p] = "evaluate" =>
        /\ \A s \in seen[p] : s.content \in used /\ s.auth \in used
        /\ pc[p] \in {"commit", "put", "verify"} => \A s \in seen[p], d \in draft[p] :
             /\ s.content = tree.content => d.ran = tree.content
             /\ s.auth = tree.auth => d.ranAuth = tree.auth
        /\ pc[p] \in {"observe", "execute", "commit", "put", "verify"} => seen[p] # {}

\* An evaluation that is being verified is the record its process committed.
Recorded(p) ==
    pc[p] = "verify" =>
        /\ draft[p] # {} /\ gen[p] + 1 \in 1..Len(history)
        /\ \A d \in draft[p] : history[gen[p] + 1] = d

\* A recorded evaluation was admitted for an earlier freeze of its candidate.
AdmittedEvaluations(h) ==
    \A n \in Positions(h, "evaluation") :
        /\ h[n].freeze \in Earlier(Positions(h, "freeze"), n)
        /\ h[h[n].freeze].cand = h[n].cand

BindingInvariant ==
    /\ \A p \in Procs : \A d \in draft[p] : Binds(history, d) /\ Admitted(history, d)
    /\ Registered(history) /\ AdmittedEvaluations(history)

SelectionInvariant ==
    /\ \A p \in Procs : \A d \in draft[p] : Selects(history, d)
    /\ SelectionBacked /\ CandidateOnce

FreezeInvariant ==
    /\ \A p \in Procs : \A d \in draft[p] : Freezes(history, d)
    /\ FreezeBacked

LineageInvariant ==
    /\ \A p \in Procs : \A d \in draft[p] : Continues(history, d)
    /\ NeverAmbiguous /\ SelectionClean
    /\ EpochsKnown(history) /\ FrozenLast(history) /\ FrozenAlone(history)

EvaluationInvariant ==
    /\ \A p \in Procs : \A d \in draft[p] : Admitted(history, d)
    /\ \A p \in Procs : Witnessed(p) /\ Recorded(p)
    /\ reported \subseteq 1..Len(history) /\ ReportedEvaluationSound
    /\ tree.content \in used /\ tree.auth \in used

-----------------------------------------------------------------------------
(* Records and histories.                                                  *)

LEMMA RecordForms ==
    ASSUME NEW d \in ForgeRecord
    PROVE  /\ d.kind = "epoch" => d \in EpochRecord
           /\ d.kind = "candidate" => d \in CandidateRecord
           /\ d.kind = "result" => d \in ResultRecord
           /\ d.kind = "disposition" => d \in DispositionRecord
           /\ d.kind = "freeze" => d \in FreezeRecord
           /\ d.kind = "evaluation" => d \in EvaluationRecord
           /\ d.kind = "bundle" => d \in BundleRecord
           /\ d.kind \in {"epoch", "candidate", "result", "disposition", "freeze", "evaluation",
                          "bundle"}
  BY DEF ForgeRecord, EpochRecord, CandidateRecord, ResultRecord, DispositionRecord, FreezeRecord,
         EvaluationRecord, BundleRecord

LEMMA RecordTypes ==
    /\ EpochRecord \subseteq ForgeRecord /\ CandidateRecord \subseteq ForgeRecord
    /\ ResultRecord \subseteq ForgeRecord /\ DispositionRecord \subseteq ForgeRecord
    /\ FreezeRecord \subseteq ForgeRecord /\ EvaluationRecord \subseteq ForgeRecord
    /\ BundleRecord \subseteq ForgeRecord
  BY DEF ForgeRecord

\* g is h with one record more: d.
Grows(g, h, d) ==
    /\ g \in Seq(ForgeRecord) /\ Len(h) \in Nat /\ Len(g) = Len(h) + 1
    /\ g[Len(h) + 1] = d
    /\ \A n \in 1..Len(h) : g[n] = h[n]
    /\ \A k : Positions(g, k) = Positions(h, k) \cup (IF d.kind = k THEN {Len(h) + 1} ELSE {})
    /\ \A k, n : n \in Positions(h, k) => n \in 1..Len(h) /\ n \in Positions(g, k) /\ g[n] = h[n]
    /\ \A c, w, n : n \in Evidence(h, c, w) =>
          n \in 1..Len(h) /\ n \in Evidence(g, c, w) /\ g[n] = h[n]

LEMMA Appended ==
    ASSUME NEW h \in Seq(ForgeRecord), NEW d \in ForgeRecord
    PROVE  Grows(Append(h, d), h, d)
<1> DEFINE g == Append(h, d)
<1>1. /\ g \in Seq(ForgeRecord) /\ Len(h) \in Nat /\ Len(g) = Len(h) + 1
      /\ g[Len(h) + 1] = d
      /\ \A n \in 1..Len(h) : g[n] = h[n]
  OBVIOUS
<1> HIDE DEF g
<1>2. ASSUME NEW k PROVE Positions(g, k) = Positions(h, k)
                                             \cup (IF d.kind = k THEN {Len(h) + 1} ELSE {})
  BY <1>1 DEF Positions
<1>3. ASSUME NEW k, NEW n, n \in Positions(h, k)
      PROVE  n \in 1..Len(h) /\ n \in Positions(g, k) /\ g[n] = h[n]
  BY <1>1, <1>2, <1>3 DEF Positions
<1>4. ASSUME NEW c, NEW w, NEW n, n \in Evidence(h, c, w)
      PROVE  n \in 1..Len(h) /\ n \in Evidence(g, c, w) /\ g[n] = h[n]
  BY <1>3, <1>4 DEF Evidence
<1>5. Grows(g, h, d)
  BY <1>1, <1>2, <1>3, <1>4 DEF Grows
<1> QED
  BY <1>5 DEF g

LEMMA HistoryTypes ==
    ASSUME NEW h \in Seq(ForgeRecord)
    PROVE  /\ \A k : Positions(h, k) \subseteq 1..Len(h)
           /\ \A k, n : n \in Positions(h, k) => n \in 1..Len(h) /\ h[n] \in ForgeRecord /\ h[n].kind = k
  BY DEF Positions

LEMMA LatestIn ==
    ASSUME NEW S
    PROVE  Latest(S) \subseteq S
  BY DEF Latest

\* Kinds of what the projection shows.
LEMMA ProjectionTypes ==
    ASSUME NEW h \in Seq(ForgeRecord)
    PROVE  /\ ActiveEpoch(h) \subseteq Positions(h, "epoch")
           /\ CurrentCandidate(h) \subseteq Positions(h, "candidate")
           /\ CurrentId(h) \subseteq Contents
           /\ Disposition(h) \subseteq Positions(h, "disposition")
           /\ Freeze(h) \subseteq Positions(h, "freeze")
           /\ \A n \in Disposition(h) \cup Freeze(h) : h[n].cand \in CurrentId(h)
<1>1. ActiveEpoch(h) \subseteq Positions(h, "epoch")
  BY LatestIn DEF ActiveEpoch
<1>2. CurrentCandidate(h) \subseteq Positions(h, "candidate")
  BY LatestIn DEF CurrentCandidate, ActiveCandidates
<1>3. \A n \in CurrentCandidate(h) : h[n].cand \in Contents
  BY <1>2, HistoryTypes, RecordForms DEF CandidateRecord
<1>4. CurrentId(h) \subseteq Contents
  BY <1>3 DEF CurrentId
<1>5. /\ Disposition(h) \subseteq OfCurrent(h, "disposition")
      /\ Freeze(h) \subseteq OfCurrent(h, "freeze")
  BY DEF Disposition, Freeze, OnlyOne
<1> QED
  BY <1>1, <1>2, <1>4, <1>5 DEF OfCurrent

LEMMA DraftsAreRecords ==
    ASSUME NEW h \in Seq(ForgeRecord), NEW v \in View, NEW o
    PROVE  Drafts(o, h, v) \subseteq ForgeRecord
<1> SUFFICES ASSUME NEW d \in Drafts(o, h, v) PROVE d \in ForgeRecord
  OBVIOUS
<1>v. v.content \in Contents /\ v.auth \in Auths /\ v.policy \in Policies /\ v.plan \in Plans
  BY DEF View
<1>t. Positions(h, "epoch") \subseteq Nat /\ Positions(h, "disposition") \subseteq Nat
      /\ Positions(h, "freeze") \subseteq Nat
  BY DEF Positions
<1>1. CASE o = "begin_epoch"
  <2>1. d = [kind |-> "epoch", parent |-> ActiveEpoch(h), auth |-> v.auth]
    BY <1>1 DEF Drafts
  <2> QED
    BY <1>v, <1>t, <2>1, ProjectionTypes, RecordTypes DEF EpochRecord
<1>2. CASE o \in {"register", "refresh"}
  <2>1. PICK e \in ActiveEpoch(h) : d = [kind |-> "candidate", cand |-> v.content, epoch |-> e,
                                         parent |-> CurrentId(h)]
    BY <1>2 DEF Drafts
  <2>2. e \in Nat /\ CurrentId(h) \subseteq Contents
    BY <1>t, ProjectionTypes
  <2> QED
    BY <1>v, <2>1, <2>2, RecordTypes DEF CandidateRecord
<1>3. CASE o = "check"
  <2>1. PICK c \in CurrentId(h), w \in Workflows :
           d = [kind |-> "result", cand |-> c, workflow |-> w, status |-> "UNKNOWN"]
    BY <1>3 DEF Drafts
  <2> QED
    BY <2>1, ProjectionTypes, RecordTypes DEF ResultRecord, Statuses
<1>4. CASE o \in {"selected", "rejected"}
  <2>1. PICK n \in CurrentCandidate(h) :
           d = [kind |-> "disposition", cand |-> h[n].cand, disposition |-> o,
                policy |-> v.policy, evidence |-> ReadinessStatus(h, n, Required[v.policy], v)]
    BY <1>4 DEF Drafts
  <2>2. h[n].cand \in Contents
    BY ProjectionTypes DEF CurrentId
  <2>3. ReadinessStatus(h, n, Required[v.policy], v) \in Statuses
    BY DEF ReadinessStatus, Statuses
  <2> QED
    BY <1>4, <1>v, <2>1, <2>2, <2>3, RecordTypes DEF DispositionRecord
<1>5. CASE o = "freeze"
  <2>1. PICK n \in Disposition(h) :
           d = [kind |-> "freeze", cand |-> h[n].cand, auth |-> v.auth, plan |-> v.plan,
                selection |-> n]
    BY <1>5 DEF Drafts
  <2>2. n \in Nat /\ h[n].cand \in Contents
    BY <1>t, ProjectionTypes
  <2> QED
    BY <1>v, <2>1, <2>2, RecordTypes DEF FreezeRecord
<1>6. CASE o = "evaluate"
  <2>1. PICK f \in Freeze(h) :
           d = [kind |-> "evaluation", cand |-> h[f].cand, status |-> "UNKNOWN",
                freeze |-> f, ran |-> v.content, ranAuth |-> v.auth]
    BY <1>6 DEF Drafts
  <2>2. f \in Nat /\ h[f].cand \in Contents
    BY <1>t, ProjectionTypes
  <2> QED
    BY <1>v, <2>1, <2>2, RecordTypes DEF EvaluationRecord, Statuses
<1>7. CASE o \notin {"begin_epoch", "register", "refresh", "check", "selected", "rejected",
                     "freeze", "evaluate"}
  <2>1. PICK c \in CurrentId(h) : d = [kind |-> "bundle", cand |-> c]
    BY <1>7 DEF Drafts
  <2> QED
    BY <2>1, ProjectionTypes, RecordTypes DEF BundleRecord
<1> QED
  BY <1>1, <1>2, <1>3, <1>4, <1>5, <1>6, <1>7

LEMMA DraftKinds ==
    ASSUME NEW h, NEW v, NEW o \in Ops, NEW d \in Drafts(o, h, v)
    PROVE  d.kind = KindOf(o)
  BY DEF Drafts, KindOf, Ops, DevelopmentOps, EvaluatorOps

-----------------------------------------------------------------------------
(* Type correctness.                                                       *)

\* A process that returns keeps nothing.
LEMMA EndShaped ==
    ASSUME TypeOK, Shaped, NEW p \in Procs, End(p)
    PROVE  Shaped'
<1>1. /\ pc'[p] = "idle" /\ draft'[p] = {}
      /\ \A q \in Procs \ {p} : pc'[q] = pc[q] /\ draft'[q] = draft[q] /\ op'[q] = op[q]
  BY DEF TypeOK, End
<1> QED
  BY <1>1 DEF Shaped

LEMMA EndTypes ==
    ASSUME TypeOK, NEW p \in Procs, End(p)
    PROVE  /\ pc' \in [Procs -> PCs] /\ op' \in [Procs -> Ops \cup {"none"}]
           /\ named' \in [Procs -> Names] /\ seen' \in [Procs -> SUBSET View]
           /\ draft' \in [Procs -> SUBSET ForgeRecord] /\ gen' \in [Procs -> Nat]
<1>1. NoNames \in Names
  BY DEF NoNames, Names
<1> QED
  BY <1>1 DEF TypeOK, End, PCs, Ops

LEMMA MachineViews ==
    ASSUME NEW s \in View, tree \in View, NEW p
    PROVE  MachineView(p, s) \in View
  BY DEF MachineView, View

LEMMA NamesTypes ==
    ASSUME history \in Seq(ForgeRecord), NEW o
    PROVE  NamesOf(o) \subseteq Names
<1>1. /\ ActiveEpoch(history) \subseteq Nat
      /\ CurrentId(history) \subseteq Contents
  BY ProjectionTypes DEF Positions
<1> QED
  BY <1>1 DEF NamesOf, Names, NoNames

\* What the run and the second observation make of a record is a record.
LEMMA ChangedRecords ==
    ASSUME NEW d \in ForgeRecord, tree \in View
    PROVE  /\ d.kind = "epoch" => With(d, [auth |-> tree.auth]) \in EpochRecord
           /\ d.kind = "freeze" => With(d, [auth |-> tree.auth, plan |-> tree.plan]) \in FreezeRecord
           /\ \A s \in Statuses : /\ d.kind = "result" => With(d, [status |-> s]) \in ResultRecord
                                  /\ d.kind = "evaluation" =>
                                       With(d, [status |-> s, ran |-> tree.content,
                                                ranAuth |-> tree.auth]) \in EvaluationRecord
           /\ \A w \in Workflows : d.kind = "result" => With(d, [workflow |-> w]) \in ResultRecord
<1>v. tree.content \in Contents /\ tree.auth \in Auths /\ tree.plan \in Plans
  BY DEF View
<1>1. ASSUME d \in EpochRecord PROVE With(d, [auth |-> tree.auth]) \in EpochRecord
  BY <1>1, <1>v DEF EpochRecord, With
<1>2. ASSUME d \in FreezeRecord
      PROVE  With(d, [auth |-> tree.auth, plan |-> tree.plan]) \in FreezeRecord
  BY <1>2, <1>v DEF FreezeRecord, With
<1>3. ASSUME d \in ResultRecord, NEW s \in Statuses PROVE With(d, [status |-> s]) \in ResultRecord
  BY <1>3 DEF ResultRecord, With
<1>4. ASSUME d \in EvaluationRecord, NEW s \in Statuses
      PROVE  With(d, [status |-> s, ran |-> tree.content, ranAuth |-> tree.auth]) \in EvaluationRecord
  BY <1>4, <1>v DEF EvaluationRecord, With
<1>5. ASSUME d \in ResultRecord, NEW w \in Workflows
      PROVE  With(d, [workflow |-> w]) \in ResultRecord
  BY <1>5 DEF ResultRecord, With
<1> QED
  BY <1>1, <1>2, <1>3, <1>4, <1>5, RecordForms

LEMMA EditTypes ==
    ASSUME TypeOK, Shaped, Edit
    PROVE  TypeOK' /\ Shaped'
<1>1. PICK v \in View : tree' = v /\ used' = used \cup {v.content, v.auth}
  BY DEF Edit
<1>2. v.content \in Contents /\ v.auth \in Auths
  BY DEF View
<1>3. edits' \in 0..MaxEdits
  BY ControlConstants DEF Edit, TypeOK
<1>4. tree' \in View /\ used' \subseteq Contents \cup Auths
  BY <1>1, <1>2 DEF TypeOK
<1>5. UNCHANGED <<history, pc, op, named, seen, draft, gen, reported>>
  BY DEF Edit, locals
<1>6. Shaped'
  BY <1>5 DEF Shaped
<1> QED
  BY <1>3, <1>4, <1>5, <1>6 DEF TypeOK

LEMMA CallTypes ==
    ASSUME TypeOK, Shaped, NEW p \in Procs, NEW o \in Ops, Call(p, o)
    PROVE  TypeOK' /\ Shaped'
<1>1. PICK n \in NamesOf(o) : named' = [named EXCEPT ![p] = n]
  BY DEF Call
<1>2. n \in Names
  BY <1>1, NamesTypes DEF TypeOK
<1>3. named' \in [Procs -> Names]
  BY <1>1, <1>2 DEF TypeOK
<1>4. seen' \in [Procs -> SUBSET View]
  BY DEF TypeOK, Call
<1>5. pc' \in [Procs -> PCs] /\ op' \in [Procs -> Ops \cup {"none"}]
  BY DEF TypeOK, Call, PCs, Ops
<1>6. UNCHANGED <<tree, used, edits, history, draft, gen, reported>>
  BY DEF Call, env
<1>7. /\ pc[p] = "idle" /\ pc'[p] = "authorize" /\ op'[p] \in OpsOf(p)
      /\ \A q \in Procs \ {p} : pc'[q] = pc[q] /\ op'[q] = op[q]
  BY DEF TypeOK, Call
<1>8. Shaped'
  BY <1>6, <1>7 DEF Shaped
<1> QED
  BY <1>3, <1>4, <1>5, <1>6, <1>8 DEF TypeOK, PCs, Ops

LEMMA AuthorizeTypes ==
    ASSUME TypeOK, Shaped, NEW p \in Procs, Authorize(p)
    PROVE  TypeOK' /\ Shaped'
<1>u. UNCHANGED <<tree, used, edits, history, reported>>
  BY DEF Authorize, env
<1>1. CASE End(p)
  BY <1>1, <1>u, EndTypes, EndShaped DEF TypeOK, PCs, Ops
<1>2. CASE ~End(p)
  <2>1. PICK s \in seen[p] :
          /\ \E d \in Drafts(op[p], history, MachineView(p, s)) : draft' = [draft EXCEPT ![p] = {d}]
          /\ pc' = [pc EXCEPT ![p] = AfterAuthorize(op[p])]
          /\ UNCHANGED <<op, named, seen, gen>>
    BY <1>2 DEF Authorize
  <2>2. s \in View /\ MachineView(p, s) \in View
    BY <2>1, MachineViews DEF TypeOK
  <2>3. PICK d \in Drafts(op[p], history, MachineView(p, s)) : draft' = [draft EXCEPT ![p] = {d}]
    BY <2>1
  <2>4. d \in ForgeRecord
    BY <2>2, <2>3, DraftsAreRecords DEF TypeOK
  <2>5. draft' \in [Procs -> SUBSET ForgeRecord]
    BY <2>3, <2>4 DEF TypeOK
  <2>6. pc' \in [Procs -> PCs]
    BY <2>1 DEF TypeOK, AfterAuthorize, PCs
  <2>7. TypeOK'
    BY <1>u, <2>1, <2>5, <2>6 DEF TypeOK, PCs
  <2>8. pc[p] = "authorize" /\ pc \in [Procs -> PCs] /\ draft \in [Procs -> SUBSET ForgeRecord]
        /\ op \in [Procs -> Ops \cup {"none"}]
    BY DEF TypeOK, Authorize, PCs, Ops
  <2>9. op[p] \in Ops
    BY <2>8 DEF Shaped, OpsOf, Ops
  <2>10. d.kind = KindOf(op[p])
    BY <2>3, <2>9, DraftKinds
  <2>11. /\ op' = op /\ draft'[p] = {d} /\ pc'[p] = AfterAuthorize(op[p])
         /\ \A q \in Procs \ {p} : pc'[q] = pc[q] /\ draft'[q] = draft[q]
    BY <2>1, <2>3, <2>8
  <2>12. /\ AfterAuthorize(op[p]) \notin {"idle", "authorize", "verify"}
         /\ AfterAuthorize(op[p]) = "observe" => op[p] \in {"begin_epoch", "freeze", "evaluate"}
    BY DEF AfterAuthorize
  <2>13. Shaped'
    BY <2>8, <2>10, <2>11, <2>12 DEF Shaped
  <2> QED
    BY <2>7, <2>13
<1> QED
  BY <1>1, <1>2

LEMMA ObserveTypes ==
    ASSUME TypeOK, Shaped, NEW p \in Procs, Observe(p)
    PROVE  TypeOK' /\ Shaped'
<1>u. UNCHANGED <<tree, used, edits, history, op, named, gen, reported>>
  BY DEF Observe, env
<1>t. /\ tree \in View /\ pc \in [Procs -> PCs] /\ op \in [Procs -> Ops \cup {"none"}]
      /\ seen \in [Procs -> SUBSET View] /\ draft \in [Procs -> SUBSET ForgeRecord]
  BY DEF TypeOK, PCs, Ops
<1>s. /\ op[p] \in {"begin_epoch", "freeze", "evaluate"}
      /\ \A d \in draft[p] : d.kind \in {"epoch", "freeze", "evaluation"}
  BY DEF Observe, Shaped, KindOf
<1>1. PICK d \in draft[p] :
         IF d.kind = "evaluation"
           THEN /\ seen' = [seen EXCEPT ![p] = {tree}]
                /\ pc' = [pc EXCEPT ![p] = "execute"]
                /\ UNCHANGED draft
           ELSE /\ draft' = [draft EXCEPT ![p] =
                       {IF d.kind = "freeze"
                          THEN With(d, [auth |-> tree.auth, plan |-> tree.plan])
                          ELSE With(d, [auth |-> tree.auth])}]
                /\ pc' = [pc EXCEPT ![p] = "commit"]
                /\ UNCHANGED seen
  BY DEF Observe
<1>2. d \in ForgeRecord
  BY <1>t
<1>3. CASE d.kind = "evaluation"
  <2>1. /\ seen' \in [Procs -> SUBSET View] /\ pc' \in [Procs -> PCs]
        /\ draft' = draft /\ pc'[p] = "execute" /\ \A q \in Procs \ {p} : pc'[q] = pc[q]
    BY <1>t, <1>1, <1>3 DEF PCs
  <2>2. TypeOK'
    BY <1>u, <1>t, <2>1 DEF TypeOK, PCs
  <2>3. Shaped'
    BY <1>u, <2>1 DEF Shaped
  <2> QED
    BY <2>2, <2>3
<1>4. CASE d.kind # "evaluation"
  <2> DEFINE e == IF d.kind = "freeze" THEN With(d, [auth |-> tree.auth, plan |-> tree.plan])
                                       ELSE With(d, [auth |-> tree.auth])
  <2>1. e \in ForgeRecord /\ e.kind = d.kind
    <3>1. CASE d.kind = "freeze"
      <4>1. e \in FreezeRecord
        BY <1>2, <1>t, <3>1, ChangedRecords
      <4> QED
        BY <3>1, <4>1, RecordTypes DEF FreezeRecord
    <3>2. CASE d.kind = "epoch"
      <4>1. e \in EpochRecord
        BY <1>2, <1>t, <3>2, ChangedRecords
      <4> QED
        BY <3>2, <4>1, RecordTypes DEF EpochRecord
    <3> QED
      BY <1>s, <1>4, <3>1, <3>2
  <2> HIDE DEF e
  <2>2. draft' = [draft EXCEPT ![p] = {e}] /\ pc' = [pc EXCEPT ![p] = "commit"] /\ seen' = seen
    BY <1>1, <1>4 DEF e
  <2>3. draft' \in [Procs -> SUBSET ForgeRecord] /\ pc' \in [Procs -> PCs]
    BY <1>t, <2>1, <2>2 DEF PCs
  <2>4. TypeOK'
    BY <1>u, <1>t, <2>2, <2>3 DEF TypeOK, PCs
  <2>5. /\ draft'[p] = {e} /\ pc'[p] = "commit"
        /\ \A q \in Procs \ {p} : draft'[q] = draft[q] /\ pc'[q] = pc[q]
    BY <1>t, <2>2
  <2>6. e.kind = KindOf(op[p])
    BY <2>1 DEF Shaped
  <2>7. Shaped'
    BY <1>u, <2>5, <2>6 DEF Shaped
  <2> QED
    BY <2>4, <2>7
<1> QED
  BY <1>3, <1>4

LEMMA ExecuteTypes ==
    ASSUME TypeOK, Shaped, NEW p \in Procs, Execute(p)
    PROVE  TypeOK' /\ Shaped'
<1>u. UNCHANGED <<tree, used, edits, history, reported>>
  BY DEF Execute, env
<1>1. CASE End(p)
  BY <1>1, <1>u, EndTypes, EndShaped DEF TypeOK, PCs, Ops
<1>2. CASE ~End(p)
  <2>t. /\ tree \in View /\ pc \in [Procs -> PCs] /\ op \in [Procs -> Ops \cup {"none"}]
        /\ draft \in [Procs -> SUBSET ForgeRecord]
    BY DEF TypeOK, PCs, Ops
  <2>1. PICK d \in draft[p], s \in Statuses :
          draft' = [draft EXCEPT ![p] =
            {IF d.kind = "result" THEN With(d, [status |-> s])
             ELSE IF d.kind = "evaluation"
               THEN With(d, [status |-> s, ran |-> tree.content, ranAuth |-> tree.auth])
             ELSE d}]
    BY <1>2 DEF Execute
  <2>2. pc[p] = "execute" /\ pc' = [pc EXCEPT ![p] = "commit"] /\ UNCHANGED <<op, named, seen, gen>>
    BY <1>2 DEF Execute
  <2> DEFINE e == IF d.kind = "result" THEN With(d, [status |-> s])
                  ELSE IF d.kind = "evaluation"
                    THEN With(d, [status |-> s, ran |-> tree.content, ranAuth |-> tree.auth])
                  ELSE d
  <2>3. e \in ForgeRecord /\ e.kind = d.kind
    <3>0. d \in ForgeRecord
      BY <2>t
    <3>1. CASE d.kind = "result"
      <4>1. e \in ResultRecord
        BY <2>t, <3>0, <3>1, ChangedRecords
      <4> QED
        BY <3>1, <4>1, RecordTypes DEF ResultRecord
    <3>2. CASE d.kind = "evaluation"
      <4>1. e \in EvaluationRecord
        BY <2>t, <3>0, <3>2, ChangedRecords
      <4> QED
        BY <3>2, <4>1, RecordTypes DEF EvaluationRecord
    <3> QED
      BY <3>0, <3>1, <3>2
  <2> HIDE DEF e
  <2>4. draft' = [draft EXCEPT ![p] = {e}]
    BY <2>1 DEF e
  <2>5. draft' \in [Procs -> SUBSET ForgeRecord] /\ pc' \in [Procs -> PCs]
    BY <2>t, <2>2, <2>3, <2>4 DEF PCs
  <2>6. TypeOK'
    BY <1>u, <2>2, <2>5 DEF TypeOK, PCs
  <2>7. /\ draft'[p] = {e} /\ pc'[p] = "commit" /\ op' = op
        /\ \A q \in Procs \ {p} : draft'[q] = draft[q] /\ pc'[q] = pc[q]
    BY <2>t, <2>2, <2>4
  <2>8. e.kind = KindOf(op[p]) /\ op[p] \in OpsOf(p)
    BY <2>2, <2>3 DEF Shaped
  <2>9. Shaped'
    BY <2>7, <2>8 DEF Shaped
  <2> QED
    BY <2>6, <2>9
<1> QED
  BY <1>1, <1>2

LEMMA ReadGenerationTypes ==
    ASSUME TypeOK, Shaped, NEW p \in Procs, ReadGeneration(p)
    PROVE  TypeOK' /\ Shaped'
<1>1. UNCHANGED <<tree, used, edits, history, reported, op, named, seen, draft>>
  BY DEF ReadGeneration, env
<1>2. Len(history) \in Nat
  BY DEF TypeOK
<1>3. gen' \in [Procs -> Nat] /\ pc' \in [Procs -> PCs]
  BY <1>2 DEF TypeOK, ReadGeneration, PCs
<1>4. TypeOK'
  BY <1>1, <1>3 DEF TypeOK, PCs
<1>5. /\ pc[p] = "commit" /\ pc'[p] = "put"
      /\ \A q \in Procs \ {p} : pc'[q] = pc[q]
  BY DEF TypeOK, ReadGeneration
<1>6. Shaped'
  BY <1>1, <1>5 DEF Shaped
<1> QED
  BY <1>4, <1>6

LEMMA PutTypes ==
    ASSUME TypeOK, Shaped, NEW p \in Procs, Put(p)
    PROVE  TypeOK' /\ Shaped'
<1>u. UNCHANGED <<tree, used, edits, reported>>
  BY DEF Put, env
<1>t. /\ pc \in [Procs -> PCs] /\ op \in [Procs -> Ops \cup {"none"}]
      /\ draft \in [Procs -> SUBSET ForgeRecord] /\ history \in Seq(ForgeRecord)
      /\ named \in [Procs -> Names] /\ seen \in [Procs -> SUBSET View] /\ gen \in [Procs -> Nat]
  BY DEF TypeOK, PCs, Ops
<1>1. PICK d \in draft[p] :
         IF gen[p] # Len(history) \/ IdentityConflict(history, d)
           THEN End(p) /\ UNCHANGED history
           ELSE /\ history' = Append(history, d)
                /\ IF d.kind = "evaluation"
                     THEN /\ pc' = [pc EXCEPT ![p] = "verify"]
                          /\ UNCHANGED <<op, named, seen, draft, gen>>
                     ELSE End(p) \/ NextWorkflow(p, d)
  BY DEF Put
<1>d. d \in ForgeRecord /\ d.kind = KindOf(op[p]) /\ pc[p] = "put" /\ op[p] \in OpsOf(p)
      /\ \A e \in draft[p] : e = d
  BY <1>t, <1>1 DEF Shaped, Put
<1>h. history' \in Seq(ForgeRecord)
  <2>1. Append(history, d) \in Seq(ForgeRecord)
    BY <1>t, <1>d
  <2>2. history' = history \/ history' = Append(history, d)
    BY <1>1
  <2> QED
    BY <1>t, <2>1, <2>2
<1>2. CASE End(p)
  BY <1>2, <1>u, <1>h, EndTypes, EndShaped DEF TypeOK, PCs, Ops
<1>3. CASE d.kind = "evaluation" /\ ~End(p)
  <2>1. pc' = [pc EXCEPT ![p] = "verify"] /\ UNCHANGED <<op, named, seen, draft, gen>>
    BY <1>1, <1>3
  <2>2. pc' \in [Procs -> PCs]
    BY <1>t, <2>1 DEF PCs
  <2>3. TypeOK'
    BY <1>u, <1>t, <1>h, <2>1, <2>2 DEF TypeOK, PCs, Ops
  <2>4. op[p] = "evaluate"
    BY <1>3, <1>d DEF KindOf
  <2>5. pc'[p] = "verify" /\ \A q \in Procs \ {p} : pc'[q] = pc[q]
    BY <1>t, <2>1
  <2>6. Shaped'
    BY <1>d, <2>1, <2>4, <2>5 DEF Shaped
  <2> QED
    BY <2>3, <2>6
<1>4. CASE d.kind # "evaluation" /\ ~End(p)
  <2>1. NextWorkflow(p, d)
    BY <1>1, <1>4
  <2>2. PICK w \in Workflows : draft' = [draft EXCEPT ![p] = {With(d, [workflow |-> w])}]
    BY <2>1 DEF NextWorkflow
  <2>3. d.kind = "result" /\ pc' = [pc EXCEPT ![p] = "execute"] /\ UNCHANGED <<op, named, seen, gen>>
    BY <2>1 DEF NextWorkflow
  <2> DEFINE e == With(d, [workflow |-> w])
  <2>4. e \in ResultRecord
    BY <1>d, <2>2, <2>3, ChangedRecords DEF TypeOK
  <2>5. e \in ForgeRecord /\ e.kind = d.kind
    BY <2>3, <2>4, RecordTypes DEF ResultRecord
  <2>6. draft' = [draft EXCEPT ![p] = {e}]
    BY <2>2
  <2> HIDE DEF e
  <2>7. draft' \in [Procs -> SUBSET ForgeRecord] /\ pc' \in [Procs -> PCs]
    BY <1>t, <2>3, <2>5, <2>6 DEF PCs
  <2>8. TypeOK'
    BY <1>u, <1>t, <1>h, <2>3, <2>7 DEF TypeOK, PCs, Ops
  <2>9. /\ draft'[p] = {e} /\ pc'[p] = "execute"
        /\ \A q \in Procs \ {p} : draft'[q] = draft[q] /\ pc'[q] = pc[q]
    BY <1>t, <2>3, <2>6
  <2>10. Shaped'
    BY <1>d, <2>3, <2>5, <2>9 DEF Shaped
  <2> QED
    BY <2>8, <2>10
<1> QED
  BY <1>2, <1>3, <1>4

LEMMA VerifyEvaluationTypes ==
    ASSUME TypeOK, Shaped, NEW p \in Procs, VerifyEvaluation(p)
    PROVE  TypeOK' /\ Shaped'
<1>u. UNCHANGED <<tree, used, edits, history>>
  BY DEF VerifyEvaluation, env
<1>r. reported' \in SUBSET Nat
  <2>1. gen[p] + 1 \in Nat /\ reported \in SUBSET Nat
    BY DEF TypeOK
  <2>2. reported' = reported \cup {gen[p] + 1} \/ reported' = reported
    BY DEF VerifyEvaluation
  <2> QED
    BY <2>1, <2>2
<1>1. CASE End(p)
  BY <1>1, <1>u, <1>r, EndTypes, EndShaped DEF TypeOK, PCs, Ops
<1>2. CASE ~End(p)
  <2>1. pc[p] = "verify" /\ pc' = [pc EXCEPT ![p] = "observe"] /\ UNCHANGED <<op, named, seen, draft, gen>>
    BY <1>2 DEF VerifyEvaluation
  <2>2. pc' \in [Procs -> PCs]
    BY <2>1 DEF TypeOK, PCs
  <2>3. TypeOK'
    BY <1>u, <1>r, <2>1, <2>2 DEF TypeOK, PCs
  <2>4. pc'[p] = "observe" /\ \A q \in Procs \ {p} : pc'[q] = pc[q]
    BY <2>1 DEF TypeOK
  <2>5. Shaped'
    BY <2>1, <2>4 DEF Shaped
  <2> QED
    BY <2>3, <2>5
<1> QED
  BY <1>1, <1>2

\* Every variable keeps its type and a process drafts one record of the kind its
\* operation makes, so whatever an edit or another process does between two
\* steps of an operation, only a well-formed record is ever committed.
THEOREM ControlTypes == Spec => [](TypeOK /\ Shaped)
<1>1. ASSUME Init PROVE TypeOK /\ Shaped
  <2>1. NoNames \in Names
    BY DEF NoNames, Names
  <2>2. tree.content \in Contents /\ tree.auth \in Auths
    BY <1>1 DEF Init, View
  <2>3. /\ <<>> \in Seq(ForgeRecord) /\ 0 \in 0..MaxEdits
    BY ControlConstants
  <2>4. TypeOK
    BY <1>1, <2>1, <2>2, <2>3 DEF Init, TypeOK
  <2>5. Shaped
    BY <1>1 DEF Init, Shaped
  <2> QED
    BY <2>4, <2>5
<1>2. ASSUME TypeOK /\ Shaped, [Next]_vars PROVE (TypeOK /\ Shaped)'
  <2>0. TypeOK /\ Shaped
    BY <1>2
  <2>1. CASE Edit
    BY <2>0, <2>1, EditTypes
  <2>2. ASSUME NEW p \in Procs, NEW o \in DevelopmentOps \cup EvaluatorOps, Call(p, o)
        PROVE  (TypeOK /\ Shaped)'
    <3>1. o \in Ops
      BY DEF Ops
    <3> QED
      BY <2>0, <2>2, <3>1, CallTypes
  <2>3. ASSUME NEW p \in Procs, Authorize(p) PROVE (TypeOK /\ Shaped)'
    BY <2>0, <2>3, AuthorizeTypes
  <2>4. ASSUME NEW p \in Procs, Observe(p) PROVE (TypeOK /\ Shaped)'
    BY <2>0, <2>4, ObserveTypes
  <2>5. ASSUME NEW p \in Procs, Execute(p) PROVE (TypeOK /\ Shaped)'
    BY <2>0, <2>5, ExecuteTypes
  <2>6. ASSUME NEW p \in Procs, ReadGeneration(p) PROVE (TypeOK /\ Shaped)'
    BY <2>0, <2>6, ReadGenerationTypes
  <2>7. ASSUME NEW p \in Procs, Put(p) PROVE (TypeOK /\ Shaped)'
    BY <2>0, <2>7, PutTypes
  <2>8. ASSUME NEW p \in Procs, VerifyEvaluation(p) PROVE (TypeOK /\ Shaped)'
    BY <2>0, <2>8, VerifyEvaluationTypes
  <2>9. CASE UNCHANGED vars
    BY <2>0, <2>9 DEF vars, env, locals, TypeOK, Shaped
  <2> QED
    BY <1>2, <2>1, <2>2, <2>3, <2>4, <2>5, <2>6, <2>7, <2>8, <2>9 DEF Next
<1> QED
  BY <1>1, <1>2, PTL DEF Spec

-----------------------------------------------------------------------------
(* What a step does to the history and to the drafts.                      *)

LEMMA ChangedSame ==
    ASSUME NEW d \in ForgeRecord
    PROVE  /\ SameDraft(d, d)
           /\ \A a, b : d.kind = "freeze" => SameDraft(With(d, [auth |-> a, plan |-> b]), d)
           /\ \A a : d.kind = "epoch" => SameDraft(With(d, [auth |-> a]), d)
           /\ \A a : d.kind = "result" => SameDraft(With(d, [status |-> a]), d)
           /\ \A a : d.kind = "result" => SameDraft(With(d, [workflow |-> a]), d)
           /\ \A a, b, c : d.kind = "evaluation" =>
                SameDraft(With(d, [status |-> a, ran |-> b, ranAuth |-> c]), d)
<1>1. SameDraft(d, d)
  BY DEF SameDraft
<1>2. ASSUME NEW a, NEW b, d.kind = "freeze"
      PROVE  SameDraft(With(d, [auth |-> a, plan |-> b]), d)
  <2>1. d \in FreezeRecord
    BY <1>2, RecordForms
  <2> QED
    BY <1>2, <2>1 DEF SameDraft, With, FreezeRecord
<1>3. ASSUME NEW a, d.kind = "epoch" PROVE SameDraft(With(d, [auth |-> a]), d)
  <2>1. d \in EpochRecord
    BY <1>3, RecordForms
  <2> QED
    BY <1>3, <2>1 DEF SameDraft, With, EpochRecord
<1>4. ASSUME NEW a, d.kind = "result"
      PROVE  SameDraft(With(d, [status |-> a]), d) /\ SameDraft(With(d, [workflow |-> a]), d)
  <2>1. d \in ResultRecord
    BY <1>4, RecordForms
  <2> QED
    BY <1>4, <2>1 DEF SameDraft, With, ResultRecord
<1>5. ASSUME NEW a, NEW b, NEW c, d.kind = "evaluation"
      PROVE  SameDraft(With(d, [status |-> a, ran |-> b, ranAuth |-> c]), d)
  <2>1. d \in EvaluationRecord
    BY <1>5, RecordForms
  <2> QED
    BY <1>5, <2>1 DEF SameDraft, With, EvaluationRecord
<1> QED
  BY <1>1, <1>2, <1>3, <1>4, <1>5

LEMMA StepShape ==
    ASSUME TypeOK, Shaped, [Next]_vars
    PROVE  \/ /\ history' = history
              /\ \A q \in Procs : \A e \in draft'[q] :
                    (\E d \in draft[q] : SameDraft(e, d)) \/ Authorizes(q, e)
           \/ \E q \in Procs, d \in ForgeRecord : Commits(q, d)
<1> DEFINE Kept(q) == \A e \in draft'[q] : \E d \in draft[q] : SameDraft(e, d)
<1>t. /\ draft \in [Procs -> SUBSET ForgeRecord] /\ seen \in [Procs -> SUBSET View]
      /\ tree \in View /\ history \in Seq(ForgeRecord)
  BY DEF TypeOK
<1>same. ASSUME NEW q \in Procs, draft'[q] = draft[q] PROVE Kept(q)
  <2> SUFFICES ASSUME NEW e \in draft'[q] PROVE \E d \in draft[q] : SameDraft(e, d)
    OBVIOUS
  <2>1. e \in draft[q] /\ e \in ForgeRecord
    BY <1>t, <1>same
  <2> QED
    BY <2>1, ChangedSame
<1>end. ASSUME NEW p \in Procs, End(p) PROVE draft'[p] = {} /\ \A q \in Procs : Kept(q)
  <2>1. draft'[p] = {} /\ \A q \in Procs \ {p} : draft'[q] = draft[q]
    BY <1>t, <1>end DEF End
  <2> QED
    BY <2>1, <1>same
<1>1. CASE Edit
  <2>1. history' = history /\ draft' = draft
    BY <1>1 DEF Edit, locals
  <2> QED
    BY <2>1, <1>same
<1>2. ASSUME NEW p \in Procs, NEW o \in Ops, Call(p, o) PROVE history' = history /\ draft' = draft
  BY <1>2 DEF Call
<1>3. ASSUME NEW p \in Procs, Authorize(p)
      PROVE  history' = history /\ \A q \in Procs : \A e \in draft'[q] :
                    (\E d \in draft[q] : SameDraft(e, d)) \/ Authorizes(q, e)
  <2>h. history' = history
    BY <1>3 DEF Authorize
  <2>1. CASE End(p)
    BY <2>h, <2>1, <1>end
  <2>2. CASE ~End(p)
    <3>1. PICK s \in seen[p] :
            /\ MachineAuthorizes(p, history, MachineView(p, s))
            /\ \E d \in Drafts(op[p], history, MachineView(p, s)) : draft' = [draft EXCEPT ![p] = {d}]
      BY <1>3, <2>2 DEF Authorize
    <3>2. PICK d \in Drafts(op[p], history, MachineView(p, s)) : draft' = [draft EXCEPT ![p] = {d}]
      BY <3>1
    <3>3. MachineView(p, s) \in View
      BY <1>t, <3>1, MachineViews
    <3>4. pc[p] = "authorize" /\ op[p] \in OpsOf(p)
      BY <1>3 DEF Authorize, Shaped
    <3>5. Authorizes(p, d)
      BY <3>1, <3>2, <3>3, <3>4 DEF Authorizes
    <3>6. draft'[p] = {d} /\ \A q \in Procs \ {p} : draft'[q] = draft[q]
      BY <1>t, <3>2
    <3> QED
      BY <2>h, <3>5, <3>6, <1>same
  <2> QED
    BY <2>1, <2>2
<1>4. ASSUME NEW p \in Procs, Observe(p) PROVE history' = history /\ \A q \in Procs : Kept(q)
  <2>1. PICK d \in draft[p] :
         IF d.kind = "evaluation" THEN UNCHANGED draft
         ELSE draft' = [draft EXCEPT ![p] =
                       {IF d.kind = "freeze"
                          THEN With(d, [auth |-> tree.auth, plan |-> tree.plan])
                          ELSE With(d, [auth |-> tree.auth])}]
    BY <1>4 DEF Observe
  <2>h. history' = history
    BY <1>4 DEF Observe
  <2>s. d \in ForgeRecord /\ d.kind \in {"epoch", "freeze", "evaluation"}
    BY <1>t, <1>4 DEF Observe, Shaped, KindOf
  <2>2. CASE d.kind = "evaluation"
    BY <2>1, <2>2, <2>h, <1>same
  <2>3. CASE d.kind # "evaluation"
    <3> DEFINE e == IF d.kind = "freeze" THEN With(d, [auth |-> tree.auth, plan |-> tree.plan])
                                         ELSE With(d, [auth |-> tree.auth])
    <3>1. SameDraft(e, d)
      BY <2>s, <2>3, ChangedSame
    <3>2. draft' = [draft EXCEPT ![p] = {e}]
      BY <2>1, <2>3
    <3> HIDE DEF e
    <3>3. draft'[p] = {e} /\ \A q \in Procs \ {p} : draft'[q] = draft[q]
      BY <1>t, <3>2
    <3>4. Kept(p)
      BY <2>1, <3>1, <3>3
    <3> QED
      BY <2>h, <3>3, <3>4, <1>same
  <2> QED
    BY <2>2, <2>3
<1>5. ASSUME NEW p \in Procs, Execute(p) PROVE history' = history /\ \A q \in Procs : Kept(q)
  <2>h. history' = history
    BY <1>5 DEF Execute
  <2>1. CASE End(p)
    BY <2>h, <2>1, <1>end
  <2>2. CASE ~End(p)
    <3>1. PICK d \in draft[p], s \in Statuses :
          draft' = [draft EXCEPT ![p] =
            {IF d.kind = "result" THEN With(d, [status |-> s])
             ELSE IF d.kind = "evaluation"
               THEN With(d, [status |-> s, ran |-> tree.content, ranAuth |-> tree.auth])
             ELSE d}]
      BY <1>5, <2>2 DEF Execute
    <3> DEFINE e == IF d.kind = "result" THEN With(d, [status |-> s])
                    ELSE IF d.kind = "evaluation"
                      THEN With(d, [status |-> s, ran |-> tree.content, ranAuth |-> tree.auth])
                    ELSE d
    <3>2. d \in ForgeRecord
      BY <1>t
    <3>3. SameDraft(e, d)
      BY <3>2, ChangedSame
    <3>4. draft' = [draft EXCEPT ![p] = {e}]
      BY <3>1
    <3> HIDE DEF e
    <3>5. draft'[p] = {e} /\ \A q \in Procs \ {p} : draft'[q] = draft[q]
      BY <1>t, <3>4
    <3>6. Kept(p)
      BY <3>1, <3>3, <3>5
    <3> QED
      BY <2>h, <3>5, <3>6, <1>same
  <2> QED
    BY <2>1, <2>2
<1>6. ASSUME NEW p \in Procs, ReadGeneration(p) PROVE history' = history /\ draft' = draft
  BY <1>6 DEF ReadGeneration
<1>7. ASSUME NEW p \in Procs, Put(p)
      PROVE  \/ history' = history /\ \A q \in Procs : Kept(q)
             \/ \E q \in Procs, d \in ForgeRecord : Commits(q, d)
  <2>1. PICK d \in draft[p] :
         IF gen[p] # Len(history) \/ IdentityConflict(history, d)
           THEN End(p) /\ UNCHANGED history
           ELSE /\ history' = Append(history, d)
                /\ IF d.kind = "evaluation" THEN UNCHANGED draft
                     ELSE End(p) \/ NextWorkflow(p, d)
    BY <1>7 DEF Put
  <2>2. d \in ForgeRecord /\ pc[p] = "put" /\ \A e \in draft[p] : e = d
    BY <1>t, <1>7 DEF Put, Shaped
  <2>3. CASE gen[p] # Len(history) \/ IdentityConflict(history, d)
    BY <2>1, <2>3, <1>end
  <2>4. CASE ~(gen[p] # Len(history) \/ IdentityConflict(history, d))
    <3>1. /\ \A q \in Procs \ {p} : draft'[q] = draft[q]
          /\ \A e \in draft'[p] : d.kind \in {"result", "evaluation"} /\ SameDraft(e, d)
      <4>1. CASE d.kind = "evaluation"
        <5>1. draft' = draft
          BY <2>1, <2>4, <4>1
        <5> QED
          BY <2>2, <4>1, <5>1, ChangedSame
      <4>2. CASE End(p)
        BY <1>t, <1>end, <4>2 DEF End
      <4>3. CASE NextWorkflow(p, d)
        <5>1. PICK w \in Workflows : draft' = [draft EXCEPT ![p] = {With(d, [workflow |-> w])}]
          BY <4>3 DEF NextWorkflow
        <5>2. d.kind = "result"
          BY <4>3 DEF NextWorkflow
        <5>3. SameDraft(With(d, [workflow |-> w]), d)
          BY <2>2, <5>2, ChangedSame
        <5>4. draft'[p] = {With(d, [workflow |-> w])} /\ \A q \in Procs \ {p} : draft'[q] = draft[q]
          BY <1>t, <5>1
        <5> QED
          BY <5>2, <5>3, <5>4
      <4> QED
        BY <2>1, <2>4, <4>1, <4>2, <4>3
    <3>2. Commits(p, d)
      BY <2>1, <2>2, <2>4, <3>1 DEF Commits
    <3> QED
      BY <2>2, <3>2
  <2> QED
    BY <2>3, <2>4
<1>8. ASSUME NEW p \in Procs, VerifyEvaluation(p) PROVE history' = history /\ \A q \in Procs : Kept(q)
  <2>1. history' = history /\ (End(p) \/ draft' = draft)
    BY <1>8 DEF VerifyEvaluation
  <2> QED
    BY <2>1, <1>end, <1>same
<1>9. CASE UNCHANGED vars
  <2>1. history' = history /\ draft' = draft
    BY <1>9 DEF vars, locals
  <2> QED
    BY <2>1, <1>same
<1>10. ASSUME history' = history, draft' = draft
       PROVE  history' = history /\ \A q \in Procs : Kept(q)
  BY <1>10, <1>same
<1> QED
  BY <1>1, <1>2, <1>3, <1>4, <1>5, <1>6, <1>7, <1>8, <1>9, <1>10 DEF Next, Ops

-----------------------------------------------------------------------------
(* Selections: any processes, any adapter.                                 *)

\* The kernel is ready only when the compatibility rules are.
LEMMA NativeIsReady ==
    ASSUME NEW h, NEW n, NEW req \in SUBSET Workflows, NEW v, NativeReady(h, n, req, v)
    PROVE  Ready(h, n, req, v)
<1> DEFINE q == [w \in req |-> normalized(h, n, w, v)]
           r == [w \in req |-> requirement(q[w])]
           In(c) == {w \in req : r[w].classification = c}
           Incomparable == {w \in req : r[w].noncomparable}
<1>1. readiness_project(r, req # {}).ready
  BY DEF NativeReady, readiness_projection
<1>2. /\ req # {}
      /\ Cardinality(In("Missing")) = 0 /\ Cardinality(In("Failed")) = 0
      /\ Cardinality(In("Unknown")) = 0 /\ Cardinality(Incomparable) = 0
  BY <1>1 DEF readiness_project, add_requirements
<1>3. IsFiniteSet(req)
  BY DeclaredWorkflows, FS_Subset
<1>4. IsFiniteSet(In("Missing")) /\ IsFiniteSet(In("Failed")) /\ IsFiniteSet(In("Unknown"))
      /\ IsFiniteSet(Incomparable)
  BY <1>3, FS_Subset
<1>5. In("Missing") = {} /\ In("Failed") = {} /\ In("Unknown") = {} /\ Incomparable = {}
  BY <1>2, <1>4, FS_EmptySet
<1>6. ASSUME NEW w \in req
      PROVE  /\ Evidence(h, h[n].cand, w) # {}
             /\ \A m \in Evidence(h, h[n].cand, w) : h[m].status \notin {"FAIL", "UNKNOWN"}
             /\ w \notin Noncomparable(h, n, req, v)
  <2> DEFINE R == Evidence(h, h[n].cand, w)
             a == normalized(h, n, w, v)
  <2>1. r[w] = requirement(a)
    OBVIOUS
  <2>2. /\ a.statuses = {h[m].status : m \in R} /\ a.count = Cardinality(R)
        /\ a.freshness = IF R = {} \/ h[n].cand = v.content THEN "Current" ELSE "Unknown"
        /\ a.authority_match = \A e \in Positions(h, "epoch") : e = h[n].epoch => h[e].auth = v.auth
    BY DEF normalized
  <2>3. /\ requirement(a).classification \notin {"Missing", "Failed", "Unknown"}
        /\ ~requirement(a).noncomparable
    BY <1>5, <2>1
  <2>4. /\ a.count # 0 /\ "FAIL" \notin a.statuses /\ "UNKNOWN" \notin a.statuses
        /\ a.freshness # "Unknown" /\ a.authority_match
    BY <2>3 DEF requirement, classify_requirement
  <2>5. R # {}
    BY <2>2, <2>4, FS_EmptySet
  <2>6. \A m \in R : h[m].status \notin {"FAIL", "UNKNOWN"}
    BY <2>2, <2>4
  <2>7. h[n].cand = v.content
    BY <2>2, <2>4, <2>5
  <2>8. \A e \in Positions(h, "epoch") : e = h[n].epoch => h[e].auth = v.auth
    BY <2>2, <2>4
  <2>9. w \notin Noncomparable(h, n, req, v)
    BY <2>7, <2>8 DEF Noncomparable
  <2> QED
    BY <2>5, <2>6, <2>9
<1>7. Noncomparable(h, n, req, v) \subseteq req
  BY DEF Noncomparable, Missing
<1> QED
  BY <1>2, <1>6, <1>7 DEF Ready, Missing, Failed, Unknown

\* Readiness is a PASS of every required workflow and nothing but a PASS.
LEMMA ReadyMeans ==
    ASSUME NEW h \in Seq(ForgeRecord), NEW n, NEW req, NEW v, Ready(h, n, req, v)
    PROVE  /\ req # {} /\ ReadinessStatus(h, n, req, v) = "PASS"
           /\ \A w \in req : /\ Evidence(h, h[n].cand, w) # {}
                             /\ \A m \in Evidence(h, h[n].cand, w) : h[m].status = "PASS"
<1>1. ASSUME NEW w \in req, NEW m \in Evidence(h, h[n].cand, w) PROVE h[m].status = "PASS"
  <2>1. h[m] \in ResultRecord
    BY HistoryTypes, RecordForms DEF Evidence
  <2>2. h[m].status \in Statuses
    BY <2>1 DEF ResultRecord
  <2>3. h[m].status # "FAIL" /\ h[m].status # "UNKNOWN"
    BY DEF Ready, Failed, Unknown
  <2> QED
    BY <2>2, <2>3 DEF Statuses
<1> QED
  BY <1>1 DEF Ready, ReadinessStatus, Missing

LEMMA SelectionReady ==
    ASSUME TypeOK, NEW p \in Procs, op[p] = "selected", NEW v \in View,
           MachineAuthorizes(p, history, v), NEW n \in CurrentCandidate(history)
    PROVE  Ready(history, n, Required[v.policy], v)
<1>1. Required[v.policy] \in SUBSET Workflows
  BY RequiredType DEF View
<1>2. CASE p \in Native
  <2>1. NativeCandidateDisposition(history, v, NativeProjection(history, v), named[p].cand, "selected")
    BY <1>2 DEF MachineAuthorizes, NativeAuthorized
  <2>2. NativeReady(history, n, Required[v.policy], v)
    BY <2>1 DEF NativeCandidateDisposition
  <2> QED
    BY <1>1, <2>2, NativeIsReady
<1>3. CASE p \notin Native
  <2>1. AuthorizeCandidateDisposition(history, v, named[p].cand, "selected")
    BY <1>3 DEF MachineAuthorizes, Authorized
  <2> QED
    BY <2>1 DEF AuthorizeCandidateDisposition
<1> QED
  BY <1>2, <1>3

LEMMA SelectsWhenAuthorized ==
    ASSUME TypeOK, NEW p \in Procs, NEW e, Authorizes(p, e)
    PROVE  Selects(history, e)
<1> SUFFICES ASSUME e.kind = "disposition", e.disposition = "selected"
             PROVE  Selects(history, e)
  BY DEF Selects
<1>h. history \in Seq(ForgeRecord)
  BY DEF TypeOK
<1>1. PICK v \in View : MachineAuthorizes(p, history, v) /\ e \in Drafts(op[p], history, v)
  BY DEF Authorizes
<1>2. op[p] \in Ops
  BY DEF Authorizes, OpsOf, Ops
<1>3. op[p] \in {"selected", "rejected"}
  <2>1. e.kind = KindOf(op[p])
    BY <1>1, <1>2, DraftKinds
  <2> QED
    BY <2>1 DEF KindOf
<1>4. PICK n \in CurrentCandidate(history) :
        e = [kind |-> "disposition", cand |-> history[n].cand, disposition |-> op[p],
             policy |-> v.policy,
             evidence |-> ReadinessStatus(history, n, Required[v.policy], v)]
  BY <1>1, <1>3 DEF Drafts
<1>5. op[p] = "selected"
  BY <1>4
<1>6. Ready(history, n, Required[v.policy], v)
  BY <1>1, <1>5, SelectionReady
<1>7. /\ Required[v.policy] # {}
      /\ ReadinessStatus(history, n, Required[v.policy], v) = "PASS"
      /\ \A w \in Required[v.policy] :
           /\ Evidence(history, history[n].cand, w) # {}
           /\ \A m \in Evidence(history, history[n].cand, w) : history[m].status = "PASS"
  BY <1>h, <1>6, ReadyMeans
<1>8. n \in Positions(history, "candidate")
  BY <1>h, ProjectionTypes
<1>9. e.cand = history[n].cand /\ e.policy = v.policy /\ e.evidence = "PASS"
  BY <1>4, <1>7
<1> QED
  BY <1>7, <1>8, <1>9 DEF Selects

LEMMA SelectsGrows ==
    ASSUME NEW h, NEW d, NEW g, Grows(g, h, d), NEW e, Selects(h, e)
    PROVE  Selects(g, e)
<1>1. /\ \A k, n : n \in Positions(h, k) => n \in Positions(g, k) /\ g[n] = h[n]
      /\ \A c, w, n : n \in Evidence(h, c, w) => n \in Evidence(g, c, w) /\ g[n] = h[n]
  BY DEF Grows
<1> QED
  BY <1>1 DEF Selects

LEMMA SelectsSame ==
    ASSUME NEW h, NEW d, NEW e, SameDraft(e, d), Selects(h, d)
    PROVE  Selects(h, e)
  BY DEF SameDraft, Selects

\* A committed selection was backed as a draft; the store keeps identities apart.
LEMMA SelectionStep ==
    ASSUME TypeOK, Shaped, SelectionInvariant, [Next]_vars
    PROVE  SelectionInvariant'
<1>t. history \in Seq(ForgeRecord) /\ draft \in [Procs -> SUBSET ForgeRecord]
  BY DEF TypeOK
<1>i. /\ \A p \in Procs : \A d \in draft[p] : Selects(history, d)
      /\ SelectionBacked /\ CandidateOnce
  BY DEF SelectionInvariant
<1>1. ASSUME history' = history,
             \A q \in Procs : \A e \in draft'[q] :
                 (\E d \in draft[q] : SameDraft(e, d)) \/ Authorizes(q, e)
      PROVE  SelectionInvariant'
  <2>1. ASSUME NEW q \in Procs, NEW e \in draft'[q] PROVE Selects(history, e)
    BY <1>i, <1>1, SelectsSame, SelectsWhenAuthorized
  <2>2. SelectionBacked' /\ CandidateOnce'
    BY <1>i, <1>1 DEF SelectionBacked, CandidateOnce
  <2> QED
    BY <1>1, <2>1, <2>2 DEF SelectionInvariant
<1>2. ASSUME NEW p \in Procs, NEW d \in ForgeRecord, Commits(p, d)
      PROVE  SelectionInvariant'
  <2> DEFINE N == Len(history) + 1
  <2>c. /\ history' = Append(history, d) /\ d \in draft[p] /\ ~IdentityConflict(history, d)
        /\ \A q \in Procs \ {p} : draft'[q] = draft[q]
        /\ \A e \in draft'[p] : d.kind \in {"result", "evaluation"} /\ SameDraft(e, d)
    BY <1>2 DEF Commits
  <2>0. Grows(history', history, d)
    BY <1>t, <2>c, Appended, Zenon
  <2>a. /\ Len(history) \in Nat /\ history'[N] = d
        /\ \A k : Positions(history', k) = Positions(history, k)
                      \cup (IF d.kind = k THEN {N} ELSE {})
    BY <2>0 DEF Grows
  <2>g. /\ \A k, n : n \in Positions(history, k) => n \in Positions(history', k) /\ history'[n] = history[n]
        /\ \A c, w, n : n \in Evidence(history, c, w) =>
              n \in Evidence(history', c, w) /\ history'[n] = history[n]
    BY <2>0 DEF Grows
  <2>p. /\ \A k, n : n \in Positions(history, k) => n \in 1..Len(history)
        /\ \A c, w, n : n \in Evidence(history, c, w) => n \in 1..Len(history)
    BY DEF Positions, Evidence
  <2>1. ASSUME NEW q \in Procs, NEW e \in draft'[q] PROVE Selects(history', e)
    <3>1. Selects(history, e)
      <4>1. CASE q = p
        <5>1. SameDraft(e, d) /\ Selects(history, d)
          BY <1>i, <2>1, <2>c, <4>1
        <5> QED
          BY <5>1, SelectsSame
      <4>2. CASE q # p
        BY <1>i, <2>1, <2>c, <4>2
      <4> QED
        BY <4>1, <4>2
    <3> QED
      BY <2>0, <3>1, SelectsGrows
  <2>2. SelectionBacked'
    <3> SUFFICES ASSUME NEW n \in Positions(history', "disposition"),
                        history'[n].disposition = "selected"
                 PROVE  /\ history'[n].evidence = "PASS"
                        /\ Required[history'[n].policy] # {}
                        /\ \A w \in Required[history'[n].policy] :
                             \E m \in Evidence(history', history'[n].cand, w) :
                                 m < n /\ history'[m].status = "PASS"
                        /\ \E m \in Positions(history', "candidate") :
                             m < n /\ history'[m].cand = history'[n].cand
      BY DEF SelectionBacked
    <3>1. CASE n \in Positions(history, "disposition")
      <4>1. history'[n] = history[n]
        BY <2>g, <3>1
      <4>2. /\ history[n].evidence = "PASS"
            /\ Required[history[n].policy] # {}
            /\ \A w \in Required[history[n].policy] :
                 \E m \in Evidence(history, history[n].cand, w) :
                     m < n /\ history[m].status = "PASS"
            /\ \E m \in Positions(history, "candidate") :
                 m < n /\ history[m].cand = history[n].cand
        BY <1>i, <3>1, <4>1 DEF SelectionBacked
      <4>3. ASSUME NEW w \in Required[history[n].policy]
            PROVE  \E m \in Evidence(history', history[n].cand, w) :
                       m < n /\ history'[m].status = "PASS"
        BY <2>g, <4>2
      <4>4. \E m \in Positions(history', "candidate") : m < n /\ history'[m].cand = history[n].cand
        BY <2>g, <4>2
      <4> QED
        BY <4>1, <4>2, <4>3, <4>4
    <3>2. CASE n \notin Positions(history, "disposition")
      <4>1. n = N /\ d.kind = "disposition" /\ history'[n] = d
        BY <2>a, <3>2
      <4>2. Selects(history, d)
        BY <1>i, <2>c
      <4>3. /\ d.evidence = "PASS" /\ Required[d.policy] # {}
            /\ \A w \in Required[d.policy] :
                 \E m \in Evidence(history, d.cand, w) : history[m].status = "PASS"
            /\ \E m \in Positions(history, "candidate") : history[m].cand = d.cand
        BY <4>1, <4>2 DEF Selects
      <4>4. \A m \in 1..Len(history) : m < n
        BY <2>a, <4>1
      <4>5. ASSUME NEW w \in Required[d.policy]
            PROVE  \E m \in Evidence(history', d.cand, w) : m < n /\ history'[m].status = "PASS"
        BY <2>g, <2>p, <4>3, <4>4
      <4>6. \E m \in Positions(history', "candidate") : m < n /\ history'[m].cand = d.cand
        BY <2>g, <2>p, <4>3, <4>4
      <4> QED
        BY <4>1, <4>3, <4>5, <4>6
    <3> QED
      BY <3>1, <3>2
  <2>3. CandidateOnce'
    <3> SUFFICES ASSUME NEW m \in Positions(history', "candidate"),
                        NEW n \in Positions(history', "candidate"),
                        history'[m].cand = history'[n].cand
                 PROVE  m = n
      BY DEF CandidateOnce
    <3>1. CASE m \in Positions(history, "candidate") /\ n \in Positions(history, "candidate")
      BY <1>i, <2>g, <3>1 DEF CandidateOnce
    <3>2. CASE m \notin Positions(history, "candidate") \/ n \notin Positions(history, "candidate")
      <4>1. \A c \in Positions(history, "candidate") : d.kind = "candidate" => history'[c].cand # d.cand
        BY <2>c, <2>g DEF IdentityConflict
      <4>2. d.kind = "candidate" /\ Positions(history', "candidate") = Positions(history, "candidate") \cup {N}
        BY <2>a, <3>2
      <4> QED
        BY <2>a, <3>2, <4>1, <4>2
    <3> QED
      BY <3>1, <3>2
  <2> QED
    BY <2>1, <2>2, <2>3 DEF SelectionInvariant
<1> QED
  BY <1>1, <1>2, StepShape

\* What the selection theorems below follow from.
THEOREM ControlSelections == Spec => []SelectionInvariant
<1>1. Init => SelectionInvariant
  BY DEF Init, SelectionInvariant, SelectionBacked, CandidateOnce, Positions
<1>2. TypeOK /\ Shaped /\ SelectionInvariant /\ [Next]_vars => SelectionInvariant'
  BY SelectionStep
<1> QED
  BY <1>1, <1>2, ControlTypes, PTL DEF Spec

\* A committed selection has a PASS of every workflow its policy requires before
\* it, whatever other processes committed between its authorization and its put.
THEOREM ControlSelectionBacked == Spec => []SelectionBacked
<1>1. SelectionInvariant => SelectionBacked
  BY DEF SelectionInvariant
<1> QED
  BY <1>1, ControlSelections, PTL

\* A candidate identity is registered once: the store refuses a bound identity,
\* whichever processes race to register it.
THEOREM ControlCandidateOnce == Spec => []CandidateOnce
<1>1. SelectionInvariant => CandidateOnce
  BY DEF SelectionInvariant
<1> QED
  BY <1>1, ControlSelections, PTL

-----------------------------------------------------------------------------
(* What an append does to the projection.                                  *)

LEMMA OneLatest ==
    ASSUME NEW S \in SUBSET Nat, NEW m \in Latest(S), NEW n \in Latest(S)
    PROVE  m = n
  BY DEF Latest

LEMMA ActiveEpochGrows ==
    ASSUME NEW h, NEW d, NEW g, Grows(g, h, d)
    PROVE  /\ d.kind # "epoch" => ActiveEpoch(g) = ActiveEpoch(h)
           /\ d.kind = "epoch" => ActiveEpoch(g) = {Len(h) + 1}
<1>1. /\ Positions(g, "epoch") = Positions(h, "epoch") \cup (IF d.kind = "epoch" THEN {Len(h) + 1} ELSE {})
      /\ Len(h) \in Nat /\ \A n \in Positions(h, "epoch") : n \in 1..Len(h)
  BY DEF Grows
<1>2. CASE d.kind # "epoch"
  <2>1. Positions(g, "epoch") = Positions(h, "epoch")
    BY <1>1, <1>2
  <2> QED
    BY <1>2, <2>1, Zenon DEF ActiveEpoch
<1>3. CASE d.kind = "epoch"
  <2>1. \A n \in Positions(g, "epoch") : n <= Len(h) + 1
    BY <1>1
  <2>2. Len(h) + 1 \in Positions(g, "epoch")
    BY <1>1, <1>3
  <2>3. \A n \in Positions(g, "epoch") : n # Len(h) + 1 => ~(Len(h) + 1 <= n)
    BY <1>1
  <2> QED
    BY <1>3, <2>1, <2>2, <2>3 DEF ActiveEpoch, Latest
<1> QED
  BY <1>2, <1>3

LEMMA ActiveCandidatesGrow ==
    ASSUME NEW h, NEW d, NEW g, Grows(g, h, d), EpochsKnown(h)
    PROVE  /\ d.kind \notin {"epoch", "candidate"} => ActiveCandidates(g) = ActiveCandidates(h)
           /\ d.kind = "epoch" => ActiveCandidates(g) = {}
           /\ d.kind = "candidate" /\ d.epoch \in ActiveEpoch(h) =>
                ActiveCandidates(g) = ActiveCandidates(h) \cup {Len(h) + 1}
<1>1. /\ Positions(g, "candidate") = Positions(h, "candidate")
                \cup (IF d.kind = "candidate" THEN {Len(h) + 1} ELSE {})
      /\ g[Len(h) + 1] = d /\ Len(h) \in Nat
      /\ \A n \in Positions(h, "candidate") : n \in 1..Len(h) /\ g[n] = h[n]
      /\ \A n \in Positions(h, "epoch") : n \in 1..Len(h)
  BY DEF Grows
<1>2. CASE d.kind \notin {"epoch", "candidate"}
  <2>1. ActiveEpoch(g) = ActiveEpoch(h) /\ Positions(g, "candidate") = Positions(h, "candidate")
    BY <1>1, <1>2, ActiveEpochGrows
  <2> QED
    BY <1>1, <1>2, <2>1 DEF ActiveCandidates
<1>3. CASE d.kind = "epoch"
  <2>1. ActiveEpoch(g) = {Len(h) + 1} /\ Positions(g, "candidate") = Positions(h, "candidate")
    BY <1>1, <1>3, ActiveEpochGrows
  <2>2. \A n \in Positions(g, "candidate") : g[n].epoch # Len(h) + 1
    BY <1>1, <2>1 DEF EpochsKnown
  <2> QED
    BY <1>3, <2>1, <2>2 DEF ActiveCandidates
<1>4. CASE d.kind = "candidate"
  <2>1. ActiveEpoch(g) = ActiveEpoch(h)
        /\ Positions(g, "candidate") = Positions(h, "candidate") \cup {Len(h) + 1}
    BY <1>1, <1>4, ActiveEpochGrows
  <2> QED
    BY <1>1, <1>4, <2>1 DEF ActiveCandidates
<1> QED
  BY <1>2, <1>3, <1>4

LEMMA CurrentGrows ==
    ASSUME NEW h, NEW d, NEW g, Grows(g, h, d), EpochsKnown(h)
    PROVE  /\ d.kind \notin {"epoch", "candidate"} =>
                CurrentCandidate(g) = CurrentCandidate(h) /\ CurrentId(g) = CurrentId(h)
           /\ d.kind = "epoch" => CurrentCandidate(g) = {} /\ CurrentId(g) = {}
           /\ d.kind = "candidate" /\ d.epoch \in ActiveEpoch(h) =>
                CurrentCandidate(g) = {Len(h) + 1} /\ CurrentId(g) = {d.cand}
<1>1. /\ g[Len(h) + 1] = d /\ Len(h) \in Nat
      /\ \A n \in Positions(h, "candidate") : n \in 1..Len(h) /\ g[n] = h[n]
  BY DEF Grows
<1>2. CASE d.kind \notin {"epoch", "candidate"}
  <2>1. ActiveCandidates(g) = ActiveCandidates(h)
    BY <1>2, ActiveCandidatesGrow
  <2>2. CurrentCandidate(g) = CurrentCandidate(h)
    BY <2>1, Zenon DEF CurrentCandidate
  <2>3. \A n \in CurrentCandidate(h) : n \in Positions(h, "candidate")
    BY LatestIn DEF CurrentCandidate, ActiveCandidates
  <2>4. CurrentId(g) = CurrentId(h)
    BY <1>1, <2>2, <2>3 DEF CurrentId
  <2> QED
    BY <1>2, <2>2, <2>4
<1>3. CASE d.kind = "epoch"
  <2>1. ActiveCandidates(g) = {}
    BY <1>3, ActiveCandidatesGrow
  <2>2. CurrentCandidate(g) = {}
    BY <2>1, LatestIn DEF CurrentCandidate
  <2> QED
    BY <1>3, <2>2 DEF CurrentId
<1>4. CASE d.kind = "candidate" /\ d.epoch \in ActiveEpoch(h)
  <2>1. ActiveCandidates(g) = ActiveCandidates(h) \cup {Len(h) + 1}
    BY <1>4, ActiveCandidatesGrow
  <2>2. \A n \in ActiveCandidates(h) : n \in 1..Len(h)
    BY <1>1 DEF ActiveCandidates
  <2>3. CurrentCandidate(g) = {Len(h) + 1}
    BY <1>1, <2>1, <2>2 DEF CurrentCandidate, Latest
  <2>4. CurrentId(g) = {d.cand}
    BY <1>1, <2>3 DEF CurrentId
  <2> QED
    BY <1>4, <2>3, <2>4
<1> QED
  BY <1>2, <1>3, <1>4

LEMMA OfCurrentGrows ==
    ASSUME NEW h, NEW d, NEW g, Grows(g, h, d), EpochsKnown(h), Registered(h)
    PROVE  /\ \A k : d.kind \notin {"epoch", "candidate", k} => OfCurrent(g, k) = OfCurrent(h, k)
           /\ \A k : d.kind = k /\ k \notin {"epoch", "candidate"} =>
                OfCurrent(g, k) \subseteq OfCurrent(h, k) \cup {Len(h) + 1}
           /\ d.kind = "epoch" => \A k : OfCurrent(g, k) = {}
           /\ d.kind = "candidate" /\ d.epoch \in ActiveEpoch(h)
              /\ (\A c \in Positions(h, "candidate") : h[c].cand # d.cand) =>
                \A k \in Binding : OfCurrent(g, k) = {}
<1>1. /\ \A k : Positions(g, k) = Positions(h, k) \cup (IF d.kind = k THEN {Len(h) + 1} ELSE {})
      /\ g[Len(h) + 1] = d /\ Len(h) \in Nat
      /\ \A k, n : n \in Positions(h, k) => n \in 1..Len(h) /\ g[n] = h[n]
  BY DEF Grows
<1>2. ASSUME NEW k, d.kind \notin {"epoch", "candidate", k} PROVE OfCurrent(g, k) = OfCurrent(h, k)
  <2>1. CurrentId(g) = CurrentId(h) /\ Positions(g, k) = Positions(h, k)
    BY <1>1, <1>2, CurrentGrows
  <2> QED
    BY <1>1, <2>1 DEF OfCurrent
<1>3. ASSUME NEW k, d.kind = k, k \notin {"epoch", "candidate"}
      PROVE  OfCurrent(g, k) \subseteq OfCurrent(h, k) \cup {Len(h) + 1}
  <2>1. CurrentId(g) = CurrentId(h) /\ Positions(g, k) = Positions(h, k) \cup {Len(h) + 1}
    BY <1>1, <1>3, CurrentGrows
  <2> QED
    BY <1>1, <2>1 DEF OfCurrent
<1>4. ASSUME d.kind = "epoch", NEW k PROVE OfCurrent(g, k) = {}
  <2>1. CurrentId(g) = {}
    BY <1>4, CurrentGrows
  <2> QED
    BY <2>1 DEF OfCurrent
<1>5. ASSUME d.kind = "candidate", d.epoch \in ActiveEpoch(h),
             \A c \in Positions(h, "candidate") : h[c].cand # d.cand,
             NEW k \in Binding
      PROVE  OfCurrent(g, k) = {}
  <2> SUFFICES ASSUME NEW n \in OfCurrent(g, k) PROVE FALSE
    OBVIOUS
  <2>1. CurrentId(g) = {d.cand}
    BY <1>5, CurrentGrows
  <2>2. n \in Positions(g, k) /\ g[n].cand = d.cand
    BY <2>1 DEF OfCurrent
  <2>3. n \in Positions(h, k)
    BY <1>1, <1>5, <2>2 DEF Binding
  <2>4. h[n].cand = d.cand /\ n \in 1..Len(h) /\ h[n].kind = k
    BY <1>1, <2>2, <2>3 DEF Positions
  <2>5. \E c \in Positions(h, "candidate") : h[c].cand = h[n].cand
    BY <1>5, <2>4 DEF Registered
  <2> QED
    BY <1>5, <2>4, <2>5
<1> QED
  BY <1>2, <1>3, <1>4, <1>5

\* An appended record that continues the history leaves it unambiguous.
LEMMA EpochsCoherentGrows ==
    ASSUME NEW h, NEW d, NEW g, Grows(g, h, d), Fits(h, d), EpochsCoherent(h)
    PROVE  EpochsCoherent(g)
<1>1. /\ Positions(g, "epoch") = Positions(h, "epoch") \cup (IF d.kind = "epoch" THEN {Len(h) + 1} ELSE {})
      /\ g[Len(h) + 1] = d /\ Len(h) \in Nat
      /\ \A n \in Positions(h, "epoch") : n \in 1..Len(h) /\ g[n] = h[n]
  BY DEF Grows
<1> SUFFICES ASSUME NEW n \in Positions(g, "epoch")
             PROVE  g[n].parent = Latest(Earlier(Positions(g, "epoch"), n))
  BY DEF EpochsCoherent
<1>2. CASE n \in Positions(h, "epoch")
  <2>1. Earlier(Positions(g, "epoch"), n) = Earlier(Positions(h, "epoch"), n)
    BY <1>1, <1>2 DEF Earlier
  <2>2. h[n].parent = Latest(Earlier(Positions(h, "epoch"), n))
    BY <1>2 DEF EpochsCoherent
  <2> QED
    BY <1>1, <1>2, <2>1, <2>2
<1>3. CASE n \notin Positions(h, "epoch")
  <2>1. n = Len(h) + 1 /\ d.kind = "epoch" /\ g[n] = d
    BY <1>1, <1>3
  <2>2. Earlier(Positions(g, "epoch"), n) = Positions(h, "epoch")
    <3>1. Positions(g, "epoch") = Positions(h, "epoch") \cup {Len(h) + 1}
      BY <1>1, <2>1
    <3>2. \A m \in Positions(h, "epoch") : m < n
      BY <1>1, <2>1
    <3>3. n = Len(h) + 1 /\ ~(n < n)
      BY <1>1, <2>1
    <3>4. Earlier(Positions(g, "epoch"), n) \subseteq Positions(h, "epoch")
      BY <3>1, <3>3, Zenon DEF Earlier
    <3>5. Positions(h, "epoch") \subseteq Earlier(Positions(g, "epoch"), n)
      BY <3>1, <3>2, Zenon DEF Earlier
    <3> QED
      BY <3>4, <3>5
  <2>3. d.parent = Latest(Positions(h, "epoch"))
    BY <2>1 DEF Fits, ActiveEpoch
  <2> QED
    BY <2>1, <2>2, <2>3
<1> QED
  BY <1>2, <1>3

LEMMA NotSupersededGrows ==
    ASSUME NEW h, NEW d, NEW g, Grows(g, h, d), Fits(h, d), ~EpochSuperseded(h)
    PROVE  ~EpochSuperseded(g)
<1>1. /\ Positions(g, "candidate") = Positions(h, "candidate")
                \cup (IF d.kind = "candidate" THEN {Len(h) + 1} ELSE {})
      /\ g[Len(h) + 1] = d /\ Len(h) \in Nat
      /\ \A n \in Positions(h, "candidate") : n \in 1..Len(h) /\ g[n] = h[n]
  BY DEF Grows
<1> SUFFICES ASSUME NEW e \in ActiveEpoch(g), NEW n \in Positions(g, "candidate"),
                    n > e, g[n].epoch # e
             PROVE  FALSE
  BY DEF EpochSuperseded
<1>2. CASE d.kind = "epoch"
  <2>1. e = Len(h) + 1
    BY <1>2, ActiveEpochGrows
  <2> QED
    BY <1>1, <1>2, <2>1
<1>3. CASE d.kind # "epoch"
  <2>1. e \in ActiveEpoch(h)
    BY <1>3, ActiveEpochGrows
  <2>2. CASE n \in Positions(h, "candidate")
    BY <1>1, <2>1, <2>2 DEF EpochSuperseded
  <2>3. CASE n \notin Positions(h, "candidate")
    <3>1. g[n] = d /\ d.kind = "candidate"
      BY <1>1, <2>3
    <3>2. ActiveEpoch(h) = {d.epoch}
      BY <3>1 DEF Fits
    <3> QED
      BY <2>1, <3>1, <3>2
  <2> QED
    BY <2>2, <2>3
<1> QED
  BY <1>2, <1>3

LEMMA CandidatesCoherentGrows ==
    ASSUME NEW h, NEW d, NEW g, Grows(g, h, d), Fits(h, d), EpochsKnown(h),
           CandidatesCoherent(h)
    PROVE  CandidatesCoherent(g)
<1>1. /\ g[Len(h) + 1] = d /\ Len(h) \in Nat
      /\ \A n \in Positions(h, "candidate") : n \in 1..Len(h) /\ g[n] = h[n]
  BY DEF Grows
<1> DEFINE A == ActiveCandidates(h)
           B == ActiveCandidates(g)
<1>2. \A n \in A : n \in 1..Len(h) /\ g[n] = h[n]
  BY <1>1 DEF ActiveCandidates
<1>3. \A n \in A : /\ h[n].parent = {h[m].cand : m \in Latest(Earlier(A, n))}
                   /\ h[n].cand \notin h[n].parent
  BY DEF CandidatesCoherent
<1> SUFFICES ASSUME NEW n \in B
             PROVE  /\ g[n].parent = {g[m].cand : m \in Latest(Earlier(B, n))}
                    /\ g[n].cand \notin g[n].parent
  BY DEF CandidatesCoherent
<1>4. B = A \/ (d.kind = "candidate" /\ B = A \cup {Len(h) + 1})
  <2>1. CASE d.kind = "epoch"
    BY <2>1, ActiveCandidatesGrow
  <2>2. CASE d.kind = "candidate"
    <3>1. d.epoch \in ActiveEpoch(h)
      BY <2>2 DEF Fits
    <3> QED
      BY <2>2, <3>1, ActiveCandidatesGrow
  <2>3. CASE d.kind \notin {"epoch", "candidate"}
    BY <2>3, ActiveCandidatesGrow
  <2> QED
    BY <2>1, <2>2, <2>3
<1> HIDE DEF A, B
<1>5. CASE n \in A
  <2>1. Earlier(B, n) = Earlier(A, n)
    BY <1>1, <1>2, <1>4, <1>5 DEF Earlier
  <2>2. \A m \in Latest(Earlier(A, n)) : g[m] = h[m]
    BY <1>2, LatestIn DEF Earlier
  <2>3. {g[m].cand : m \in Latest(Earlier(A, n))} = {h[m].cand : m \in Latest(Earlier(A, n))}
    BY <2>2
  <2>4. {g[m].cand : m \in Latest(Earlier(B, n))} = {g[m].cand : m \in Latest(Earlier(A, n))}
    BY <2>1, Zenon
  <2> QED
    BY <1>2, <1>3, <1>5, <2>3, <2>4
<1>6. CASE n \notin A
  <2>1. n = Len(h) + 1 /\ d.kind = "candidate" /\ g[n] = d
    BY <1>1, <1>4, <1>6
  <2>2. Earlier(B, n) = A
    BY <1>1, <1>2, <1>4, <2>1, <1>6 DEF Earlier
  <2>3. d.parent = CurrentId(h) /\ d.cand \notin d.parent
    BY <2>1 DEF Fits
  <2>4. CurrentId(h) = {h[m].cand : m \in Latest(A)}
    BY DEF CurrentId, CurrentCandidate, A
  <2>5. \A m \in Latest(A) : g[m] = h[m]
    BY <1>2, LatestIn
  <2>6. {g[m].cand : m \in Latest(A)} = {h[m].cand : m \in Latest(A)}
    BY <2>5
  <2>7. {g[m].cand : m \in Latest(Earlier(B, n))} = {g[m].cand : m \in Latest(A)}
    BY <2>2, Zenon
  <2> QED
    BY <2>1, <2>3, <2>4, <2>6, <2>7
<1> QED
  BY <1>5, <1>6

LEMMA AtMostOneGrows ==
    ASSUME NEW h, NEW d, NEW g, Grows(g, h, d), Fits(h, d), EpochsKnown(h), Registered(h),
           ~IdentityConflict(h, d), NEW k \in {"disposition", "freeze"}, AtMostOne(OfCurrent(h, k))
    PROVE  AtMostOne(OfCurrent(g, k))
<1>1. CASE d.kind \notin {"epoch", "candidate", k}
  <2>1. OfCurrent(g, k) = OfCurrent(h, k)
    BY <1>1, OfCurrentGrows
  <2> QED
    BY <2>1, Zenon
<1>2. CASE d.kind = k
  <2>1. OfCurrent(g, k) \subseteq OfCurrent(h, k) \cup {Len(h) + 1}
    BY <1>2, OfCurrentGrows
  <2>2. OfCurrent(h, k) = {}
    BY <1>2 DEF Fits
  <2> QED
    BY <2>1, <2>2 DEF AtMostOne
<1>3. CASE d.kind = "epoch"
  <2>1. OfCurrent(g, k) = {}
    BY <1>3, OfCurrentGrows
  <2> QED
    BY <2>1 DEF AtMostOne
<1>4. CASE d.kind = "candidate"
  <2>1. d.epoch \in ActiveEpoch(h) /\ \A c \in Positions(h, "candidate") : h[c].cand # d.cand
    BY <1>4 DEF Fits, IdentityConflict
  <2>2. OfCurrent(g, k) = {}
    BY <1>4, <2>1, OfCurrentGrows DEF Binding
  <2> QED
    BY <2>2 DEF AtMostOne
<1> QED
  BY <1>1, <1>2, <1>3, <1>4

LEMMA UnambiguousGrows ==
    ASSUME NEW h, NEW d, NEW g, Grows(g, h, d), Fits(h, d), EpochsKnown(h), Registered(h),
           ~IdentityConflict(h, d), ~Ambiguous(h)
    PROVE  ~Ambiguous(g)
<1>1. /\ EpochsCoherent(h) /\ ~EpochSuperseded(h) /\ CandidatesCoherent(h)
      /\ AtMostOne(OfCurrent(h, "disposition")) /\ AtMostOne(OfCurrent(h, "freeze"))
  BY DEF Ambiguous
<1>2. EpochsCoherent(g)
  BY <1>1, EpochsCoherentGrows
<1>3. ~EpochSuperseded(g)
  BY <1>1, NotSupersededGrows
<1>4. CandidatesCoherent(g)
  BY <1>1, CandidatesCoherentGrows
<1>5. AtMostOne(OfCurrent(g, "disposition")) /\ AtMostOne(OfCurrent(g, "freeze"))
  BY <1>1, AtMostOneGrows
<1> QED
  BY <1>2, <1>3, <1>4, <1>5 DEF Ambiguous

LEMMA EpochsKnownGrows ==
    ASSUME NEW h, NEW d, NEW g, Grows(g, h, d), Fits(h, d), EpochsKnown(h)
    PROVE  EpochsKnown(g)
<1>1. /\ Positions(g, "candidate") = Positions(h, "candidate")
                \cup (IF d.kind = "candidate" THEN {Len(h) + 1} ELSE {})
      /\ g[Len(h) + 1] = d
      /\ \A n \in Positions(h, "candidate") : g[n] = h[n]
      /\ \A n \in Positions(h, "epoch") : n \in Positions(g, "epoch")
  BY DEF Grows
<1>2. d.kind = "candidate" => d.epoch \in Positions(h, "epoch")
  <2>1. ActiveEpoch(h) \subseteq Positions(h, "epoch")
    BY LatestIn DEF ActiveEpoch
  <2> QED
    BY <2>1 DEF Fits
<1> QED
  BY <1>1, <1>2 DEF EpochsKnown

\* The current candidate is registered.
LEMMA CurrentIsRegistered ==
    ASSUME NEW h, NEW c \in CurrentId(h)
    PROVE  \E n \in CurrentCandidate(h) : n \in ActiveCandidates(h) /\ n \in Positions(h, "candidate")
                                          /\ h[n].cand = c
<1>1. CurrentCandidate(h) \subseteq ActiveCandidates(h)
  BY LatestIn DEF CurrentCandidate
<1> QED
  BY <1>1 DEF CurrentId, ActiveCandidates

LEMMA RegisteredGrows ==
    ASSUME NEW h, NEW d, NEW g, Grows(g, h, d), Binds(h, d), Registered(h)
    PROVE  Registered(g)
<1>1. /\ g[Len(h) + 1] = d /\ Len(h) \in Nat /\ Len(g) = Len(h) + 1
      /\ \A n \in 1..Len(h) : g[n] = h[n]
      /\ \A n \in Positions(h, "candidate") :
            n \in 1..Len(h) /\ n \in Positions(g, "candidate") /\ g[n] = h[n]
  BY DEF Grows
<1> SUFFICES ASSUME NEW n \in 1..Len(g), g[n].kind \in Binding
             PROVE  \E c \in Positions(g, "candidate") : c < n /\ g[c].cand = g[n].cand
  BY DEF Registered
<1>2. CASE n \in 1..Len(h)
  BY <1>1, <1>2 DEF Registered
<1>3. CASE n \notin 1..Len(h)
  <2>1. n = Len(h) + 1 /\ g[n] = d
    BY <1>1, <1>3
  <2>2. PICK c \in Positions(h, "candidate") : h[c].cand = d.cand
    BY <2>1 DEF Binds
  <2> QED
    BY <1>1, <2>1, <2>2
<1> QED
  BY <1>2, <1>3

-----------------------------------------------------------------------------
(* Bindings: any processes, any adapter.  A record binds a candidate that  *)
(* was the current one when its process was authorized.                    *)

LEMMA BindsWhenAuthorized ==
    ASSUME TypeOK, NEW p \in Procs, NEW e, Authorizes(p, e)
    PROVE  Binds(history, e) /\ Admitted(history, e)
<1>h. history \in Seq(ForgeRecord)
  BY DEF TypeOK
<1>1. PICK v \in View : MachineAuthorizes(p, history, v) /\ e \in Drafts(op[p], history, v)
  BY DEF Authorizes
<1>2. op[p] \in Ops /\ e.kind = KindOf(op[p])
  <2>1. op[p] \in Ops
    BY DEF Authorizes, OpsOf, Ops
  <2> QED
    BY <1>1, <2>1, DraftKinds
<1>3. \A c \in CurrentId(history) : \E n \in Positions(history, "candidate") : history[n].cand = c
  BY CurrentIsRegistered
<1>4. CASE op[p] = "check"
  <2>1. PICK c \in CurrentId(history), w \in Workflows :
           e = [kind |-> "result", cand |-> c, workflow |-> w, status |-> "UNKNOWN"]
    BY <1>1, <1>4 DEF Drafts
  <2>2. e.kind = "result" /\ e.cand = c
    BY <2>1
  <2> QED
    BY <1>3, <2>2 DEF Binds, Admitted
<1>5. CASE op[p] \in {"selected", "rejected"}
  <2>1. PICK n \in CurrentCandidate(history) :
           e = [kind |-> "disposition", cand |-> history[n].cand, disposition |-> op[p],
                policy |-> v.policy,
                evidence |-> ReadinessStatus(history, n, Required[v.policy], v)]
    BY <1>1, <1>5 DEF Drafts
  <2>2. e.kind = "disposition" /\ e.cand \in CurrentId(history)
    BY <2>1 DEF CurrentId
  <2> QED
    BY <1>3, <2>2 DEF Binds, Admitted
<1>6. CASE op[p] = "freeze"
  <2>1. PICK n \in Disposition(history) :
           e = [kind |-> "freeze", cand |-> history[n].cand, auth |-> v.auth, plan |-> v.plan,
                selection |-> n]
    BY <1>1, <1>6 DEF Drafts
  <2>2. e.kind = "freeze" /\ e.cand \in CurrentId(history)
    BY <1>h, <2>1, ProjectionTypes
  <2> QED
    BY <1>3, <2>2 DEF Binds, Admitted
<1>7. CASE op[p] = "evaluate"
  <2>1. PICK f \in Freeze(history) :
           e = [kind |-> "evaluation", cand |-> history[f].cand, status |-> "UNKNOWN",
                freeze |-> f, ran |-> v.content, ranAuth |-> v.auth]
    BY <1>1, <1>7 DEF Drafts
  <2>2. f \in Positions(history, "freeze") /\ history[f].cand \in CurrentId(history)
    BY <1>h, ProjectionTypes
  <2>3. e.kind = "evaluation" /\ e.freeze = f /\ e.cand = history[f].cand
    BY <2>1
  <2> QED
    BY <1>3, <2>2, <2>3 DEF Binds, Admitted
<1>8. CASE op[p] \in {"begin_epoch", "register", "refresh", "bundle"}
  <2>1. e.kind \in {"epoch", "candidate", "bundle"}
    BY <1>2, <1>8 DEF KindOf
  <2> QED
    BY <2>1 DEF Binds, Binding, Admitted
<1> QED
  BY <1>2, <1>4, <1>5, <1>6, <1>7, <1>8 DEF Ops, DevelopmentOps, EvaluatorOps

LEMMA BindsGrows ==
    ASSUME NEW h, NEW d, NEW g, Grows(g, h, d), NEW e, Binds(h, e), Admitted(h, e)
    PROVE  Binds(g, e) /\ Admitted(g, e)
<1>1. \A k, n : n \in Positions(h, k) => n \in Positions(g, k) /\ g[n] = h[n]
  BY DEF Grows
<1> QED
  BY <1>1 DEF Binds, Admitted

LEMMA BindsSame ==
    ASSUME NEW h, NEW d, NEW e, SameDraft(e, d), Binds(h, d), Admitted(h, d)
    PROVE  Binds(h, e) /\ Admitted(h, e)
  BY DEF SameDraft, Binds, Binding, Admitted

LEMMA AdmittedEvaluationsGrow ==
    ASSUME NEW h, NEW d, NEW g, Grows(g, h, d), Admitted(h, d), AdmittedEvaluations(h)
    PROVE  AdmittedEvaluations(g)
<1>1. /\ \A k : Positions(g, k) = Positions(h, k) \cup (IF d.kind = k THEN {Len(h) + 1} ELSE {})
      /\ g[Len(h) + 1] = d /\ Len(h) \in Nat
      /\ \A k, n : n \in Positions(h, k) =>
            n \in 1..Len(h) /\ n \in Positions(g, k) /\ g[n] = h[n]
  BY DEF Grows
<1> SUFFICES ASSUME NEW n \in Positions(g, "evaluation")
             PROVE  /\ g[n].freeze \in Earlier(Positions(g, "freeze"), n)
                    /\ g[g[n].freeze].cand = g[n].cand
  BY DEF AdmittedEvaluations
<1>2. CASE n \in Positions(h, "evaluation")
  <2>1. h[n].freeze \in Positions(h, "freeze") /\ h[n].freeze < n
        /\ h[h[n].freeze].cand = h[n].cand
    BY <1>2 DEF AdmittedEvaluations, Earlier
  <2> QED
    BY <1>1, <1>2, <2>1 DEF Earlier
<1>3. CASE n \notin Positions(h, "evaluation")
  <2>1. n = Len(h) + 1 /\ d.kind = "evaluation" /\ g[n] = d
    BY <1>1, <1>3
  <2>2. d.freeze \in Positions(h, "freeze") /\ h[d.freeze].cand = d.cand
    BY <2>1 DEF Admitted
  <2> QED
    BY <1>1, <2>1, <2>2 DEF Earlier
<1> QED
  BY <1>2, <1>3

LEMMA BindingStep ==
    ASSUME TypeOK, Shaped, BindingInvariant, [Next]_vars
    PROVE  BindingInvariant'
<1>t. history \in Seq(ForgeRecord) /\ draft \in [Procs -> SUBSET ForgeRecord]
  BY DEF TypeOK
<1>i. /\ \A p \in Procs : \A d \in draft[p] : Binds(history, d) /\ Admitted(history, d)
      /\ Registered(history) /\ AdmittedEvaluations(history)
  BY DEF BindingInvariant
<1>1. ASSUME history' = history,
             \A q \in Procs : \A e \in draft'[q] :
                 (\E d \in draft[q] : SameDraft(e, d)) \/ Authorizes(q, e)
      PROVE  BindingInvariant'
  <2>1. ASSUME NEW q \in Procs, NEW e \in draft'[q]
        PROVE  Binds(history', e) /\ Admitted(history', e)
    <3>1. Binds(history, e) /\ Admitted(history, e)
      BY <1>i, <1>1, <2>1, BindsSame, BindsWhenAuthorized
    <3> QED
      BY <1>1, <3>1, Zenon
  <2>2. Registered(history') /\ AdmittedEvaluations(history')
    BY <1>i, <1>1, Zenon
  <2> QED
    BY <2>1, <2>2 DEF BindingInvariant
<1>2. ASSUME NEW p \in Procs, NEW d \in ForgeRecord, Commits(p, d)
      PROVE  BindingInvariant'
  <2>c. /\ history' = Append(history, d) /\ d \in draft[p]
        /\ \A q \in Procs \ {p} : draft'[q] = draft[q]
        /\ \A e \in draft'[p] : SameDraft(e, d)
    BY <1>2 DEF Commits
  <2>0. Grows(history', history, d)
    BY <1>t, <2>c, Appended, Zenon
  <2>d. Binds(history, d) /\ Admitted(history, d)
    BY <1>i, <2>c
  <2>1. ASSUME NEW q \in Procs, NEW e \in draft'[q]
        PROVE  Binds(history', e) /\ Admitted(history', e)
    <3>1. Binds(history, e) /\ Admitted(history, e)
      <4>1. CASE q = p
        BY <2>1, <2>c, <2>d, <4>1, BindsSame
      <4>2. CASE q # p
        BY <1>i, <2>1, <2>c, <4>2
      <4> QED
        BY <4>1, <4>2
    <3> QED
      BY <2>0, <3>1, BindsGrows
  <2>2. Registered(history')
    BY <1>i, <2>0, <2>d, RegisteredGrows
  <2>3. AdmittedEvaluations(history')
    BY <1>i, <2>0, <2>d, AdmittedEvaluationsGrow
  <2> QED
    BY <2>1, <2>2, <2>3 DEF BindingInvariant
<1> QED
  BY <1>1, <1>2, StepShape

\* Whatever binds a candidate comes after its registration, an evaluation after
\* the freeze it was admitted for, whichever processes commit in between.
THEOREM ControlBindings == Spec => []BindingInvariant
<1>1. ASSUME Init PROVE BindingInvariant
  <2>1. history = <<>> /\ Len(history) = 0 /\ \A p \in Procs : draft[p] = {}
    BY <1>1 DEF Init
  <2>2. \A k : Positions(history, k) = {}
    BY <2>1 DEF Positions
  <2> QED
    BY <2>1, <2>2 DEF BindingInvariant, Registered, AdmittedEvaluations
<1>2. TypeOK /\ Shaped /\ BindingInvariant /\ [Next]_vars => BindingInvariant'
  BY BindingStep
<1> QED
  BY <1>1, <1>2, ControlTypes, PTL DEF Spec

-----------------------------------------------------------------------------
(* Recursive functions over 0..n: what holds initially and is kept by each *)
(* step holds of every number, and a step function has its run.            *)

LEMMA Induction ==
    ASSUME NEW S, 0 \in S, \A n \in Nat : n \in S => n + 1 \in S
    PROVE  \A n \in Nat : n \in S
<1> SUFFICES ASSUME NEW m \in Nat, m \notin S PROVE FALSE
  OBVIOUS
<1> DEFINE A == S \cap (0..m)
           B == A \ {0}
           f == [x \in A |-> x + 1]
<1>1. IsFiniteSet(0..m)
  BY FS_Interval
<1>2. IsFiniteSet(A)
  BY <1>1, FS_Subset
<1>3. 0 \in A /\ \A x \in A : x + 1 \in B
  OBVIOUS
<1>4. IsFiniteSet(B) /\ Cardinality(B) = Cardinality(A) - 1 /\ Cardinality(A) \in Nat
  <2> HIDE DEF A
  <2> QED BY <1>2, <1>3, FS_RemoveElement, FS_CardinalityType
<1>5. f \in [A -> B]
  <2> HIDE DEF A, B
  <2> QED BY <1>3
<1>6. \E x, y \in A : x # y /\ f[x] = f[y]
  <2> HIDE DEF A, B, f
  <2> QED BY <1>2, <1>4, <1>5, FS_PigeonHole
<1> QED
  BY <1>6

\* f is the run of n steps from a.
Iterates(f, n, X, a, step) ==
    /\ f \in [0..n -> X]
    /\ f[0] = a
    /\ \A k \in 1..n : f[k] = step[k][f[k - 1]]

LEMMA Recursion ==
    ASSUME NEW n \in Nat, NEW X, NEW a \in X, NEW step \in [1..n -> [X -> X]]
    PROVE  \E f : Iterates(f, n, X, a, step)
<1> DEFINE S == {m \in Nat : m <= n => \E f : Iterates(f, m, X, a, step)}
<1>1. 0 \in S
  <2> DEFINE f == [k \in 0..0 |-> a]
  <2>1. Iterates(f, 0, X, a, step)
    BY DEF Iterates
  <2> QED
    BY <2>1, Zenon
<1>2. \A m \in Nat : m \in S => m + 1 \in S
  <2> SUFFICES ASSUME NEW m \in Nat, m \in S, m + 1 <= n
               PROVE  \E f : Iterates(f, m + 1, X, a, step)
    OBVIOUS
  <2>1. PICK f : Iterates(f, m, X, a, step)
    OBVIOUS
  <2> DEFINE g == [k \in 0..m + 1 |-> IF k <= m THEN f[k] ELSE step[m + 1][f[m]]]
  <2> HIDE DEF S
  <2>2. f[m] \in X /\ step[m + 1] \in [X -> X]
    BY <2>1 DEF Iterates
  <2>3. g \in [0..m + 1 -> X]
    BY <2>1, <2>2 DEF Iterates
  <2>4. \A k \in 1..m + 1 : g[k] = step[k][g[k - 1]]
    BY <2>1 DEF Iterates
  <2>5. Iterates(g, m + 1, X, a, step)
    BY <2>1, <2>3, <2>4 DEF Iterates
  <2> QED
    BY <2>5
<1>3. n \in S
  <2> HIDE DEF S
  <2> QED BY <1>1, <1>2, Induction
<1> QED
  BY <1>3

-----------------------------------------------------------------------------
(* The native projection of a history, event by event.                     *)

Events == [kind : {"Empty", "EpochStarted", "CandidateRegistered", "EvidenceObserved",
                   "CandidateSelected", "CandidateRejected", "CandidateFrozen",
                   "EvaluationRecorded"},
           epoch : SUBSET Nat, parent_epoch : SUBSET Nat, candidate : SUBSET Contents,
           parent_candidate : SUBSET Contents, status : Statuses]

Projections == [active_epoch : SUBSET Nat, parent_epoch : SUBSET Nat,
                current_candidate : SUBSET Contents, parent_candidate : SUBSET Contents,
                evidence : Statuses, disposition : {"undisposed", "selected", "rejected"},
                lineage_ok : BOOLEAN, evidence_count : Nat, frozen : BOOLEAN,
                evaluated : BOOLEAN]

\* e is the event of record d at position n.
Reduces(d, n, req, e) ==
    /\ e \in Events
    /\ d.kind = "epoch" => e = Event("EpochStarted", {n}, d.parent, {}, {}, "UNKNOWN")
    /\ d.kind = "candidate" =>
         e = Event("CandidateRegistered", {d.epoch}, {}, {d.cand}, d.parent, "UNKNOWN")
    /\ d.kind = "result" =>
         e = IF d.workflow \in req THEN Event("EvidenceObserved", {}, {}, {d.cand}, {}, d.status)
             ELSE EmptyEvent
    /\ d.kind = "disposition" =>
         e = Event(IF d.disposition = "selected" THEN "CandidateSelected"
                   ELSE "CandidateRejected", {}, {}, {d.cand}, {}, "UNKNOWN")
    /\ d.kind = "freeze" => e = Event("CandidateFrozen", {}, {}, {d.cand}, {}, "UNKNOWN")
    /\ d.kind = "evaluation" =>
         e = Event("EvaluationRecorded", {}, {}, {d.cand}, {}, d.status)
    /\ d.kind = "bundle" => e = EmptyEvent

LEMMA EventOf ==
    ASSUME NEW h, NEW n \in Nat, h[n] \in ForgeRecord, NEW req
    PROVE  Reduces(h[n], n, req, history_event(h, n, req))
<1> DEFINE d == h[n]
           e == history_event(h, n, req)
<1> SUFFICES Reduces(d, n, req, e)
  OBVIOUS
<1> USE DEF Reduces
<1>s. "UNKNOWN" \in Statuses
  BY DEF Statuses
<1>0. EmptyEvent \in Events
  BY <1>s DEF EmptyEvent, Event, Events, Zero
<1>1. CASE d.kind = "epoch"
  <2>1. d \in EpochRecord
    BY <1>1, RecordForms
  <2>2. e = Event("EpochStarted", {n}, d.parent, {}, {}, "UNKNOWN")
    BY <1>1 DEF history_event, Zero
  <2>3. e \in Events
    BY <1>s, <2>1, <2>2 DEF Event, Events, EpochRecord
  <2> QED
    BY <1>1, <2>2, <2>3
<1>2. CASE d.kind = "candidate"
  <2>1. d \in CandidateRecord
    BY <1>2, RecordForms
  <2>2. e = Event("CandidateRegistered", {d.epoch}, {}, {d.cand}, d.parent, "UNKNOWN")
    BY <1>2 DEF history_event, Zero
  <2>3. e \in Events
    BY <1>s, <2>1, <2>2 DEF Event, Events, CandidateRecord
  <2> QED
    BY <1>2, <2>2, <2>3
<1>3. CASE d.kind = "result"
  <2>1. d \in ResultRecord
    BY <1>3, RecordForms
  <2>2. e = IF d.workflow \in req THEN Event("EvidenceObserved", {}, {}, {d.cand}, {}, d.status)
            ELSE EmptyEvent
    BY <1>3 DEF history_event, Zero
  <2>3. Event("EvidenceObserved", {}, {}, {d.cand}, {}, d.status) \in Events
    BY <2>1 DEF Event, Events, ResultRecord
  <2> QED
    BY <1>0, <1>3, <2>2, <2>3
<1>4. CASE d.kind = "disposition"
  <2>1. d \in DispositionRecord
    BY <1>4, RecordForms
  <2> DEFINE k == IF d.disposition = "selected" THEN "CandidateSelected" ELSE "CandidateRejected"
  <2>2. e = Event(k, {}, {}, {d.cand}, {}, "UNKNOWN")
    BY <1>4 DEF history_event, Zero
  <2>3. e \in Events
    BY <1>s, <2>1, <2>2 DEF Event, Events, DispositionRecord
  <2> QED
    BY <1>4, <2>2, <2>3
<1>5. CASE d.kind = "freeze"
  <2>1. d \in FreezeRecord
    BY <1>5, RecordForms
  <2>2. e = Event("CandidateFrozen", {}, {}, {d.cand}, {}, "UNKNOWN")
    BY <1>5 DEF history_event, Zero
  <2>3. e \in Events
    BY <1>s, <2>1, <2>2 DEF Event, Events, FreezeRecord
  <2> QED
    BY <1>5, <2>2, <2>3
<1>6. CASE d.kind = "evaluation"
  <2>1. d \in EvaluationRecord
    BY <1>6, RecordForms
  <2>2. e = Event("EvaluationRecorded", {}, {}, {d.cand}, {}, d.status)
    BY <1>6 DEF history_event, Zero
  <2>3. e \in Events
    BY <2>1, <2>2 DEF Event, Events, EvaluationRecord
  <2> QED
    BY <1>6, <2>2, <2>3
<1>7. CASE d.kind = "bundle"
  <2>1. e = EmptyEvent
    BY <1>7 DEF history_event
  <2> QED
    BY <1>0, <1>7, <2>1
<1> QED
  BY <1>1, <1>2, <1>3, <1>4, <1>5, <1>6, <1>7, RecordForms

\* The event an unambiguous projection accepts.
Accepts(s, e) ==
    /\ e.kind = "EpochStarted" => e.epoch # {} /\ e.parent_epoch = s.active_epoch
    /\ e.kind = "CandidateRegistered" =>
         /\ s.active_epoch # {} /\ e.epoch = s.active_epoch
         /\ e.candidate # {} /\ e.parent_candidate # e.candidate
         /\ e.parent_candidate = s.current_candidate
    /\ e.kind = "EvidenceObserved" =>
         /\ s.current_candidate # {} /\ e.candidate = s.current_candidate
         /\ ~s.frozen /\ ~s.evaluated
    /\ e.kind \in {"CandidateSelected", "CandidateRejected"} =>
         e.candidate = s.current_candidate /\ s.disposition = "undisposed"
    /\ e.kind = "CandidateFrozen" =>
         e.candidate = s.current_candidate /\ s.disposition = "selected" /\ ~s.frozen
    /\ e.kind = "EvaluationRecorded" =>
         /\ e.candidate = s.current_candidate /\ s.disposition = "selected"
         /\ s.frozen /\ ~s.evaluated

\* Everything but what changed.
SameLineage(s, t) ==
    /\ t.active_epoch = s.active_epoch /\ t.parent_epoch = s.parent_epoch
    /\ t.current_candidate = s.current_candidate /\ t.parent_candidate = s.parent_candidate
    /\ t.lineage_ok = s.lineage_ok

\* t starts over with no record of a candidate.
Cleared(t) ==
    /\ t.evidence = "UNKNOWN" /\ t.disposition = "undisposed" /\ t.evidence_count = 0
    /\ t.frozen = FALSE /\ t.evaluated = FALSE

\* What an accepted event makes of s.
Applies(s, e, t) ==
    /\ e.kind = "Empty" => t = s
    /\ e.kind = "EpochStarted" =>
         /\ t.active_epoch = e.epoch /\ t.parent_epoch = e.parent_epoch
         /\ t.current_candidate = {} /\ t.parent_candidate = {}
         /\ t.lineage_ok = s.lineage_ok /\ Cleared(t)
    /\ e.kind = "CandidateRegistered" =>
         /\ t.active_epoch = s.active_epoch /\ t.parent_epoch = s.parent_epoch
         /\ t.current_candidate = e.candidate /\ t.parent_candidate = e.parent_candidate
         /\ t.lineage_ok = s.lineage_ok /\ Cleared(t)
    /\ e.kind = "EvidenceObserved" =>
         /\ SameLineage(s, t)
         /\ t.evidence = join_evidence(s, e.status) /\ t.evidence_count = s.evidence_count + 1
         /\ t.disposition = s.disposition /\ t.frozen = s.frozen /\ t.evaluated = s.evaluated
    /\ e.kind \in {"CandidateSelected", "CandidateRejected"} =>
         /\ SameLineage(s, t) /\ t.evidence_count = s.evidence_count
         /\ t.disposition = (IF e.kind = "CandidateSelected" THEN "selected" ELSE "rejected")
         /\ t.frozen = s.frozen /\ t.evaluated = s.evaluated
    /\ e.kind = "CandidateFrozen" =>
         /\ SameLineage(s, t) /\ t.evidence = s.evidence /\ t.evidence_count = s.evidence_count
         /\ t.disposition = s.disposition /\ t.frozen = TRUE /\ t.evaluated = s.evaluated
    /\ e.kind = "EvaluationRecorded" =>
         /\ SameLineage(s, t) /\ t.evidence_count = s.evidence_count
         /\ t.disposition = s.disposition /\ t.frozen = s.frozen /\ t.evaluated = TRUE

LEMMA JoinedStatus ==
    ASSUME NEW s \in Projections, NEW a \in Statuses
    PROVE  join_evidence(s, a) \in Statuses
  BY DEF join_evidence, dominate, Summary, Statuses

LEMMA Refused ==
    ASSUME NEW s \in Projections
    PROVE  /\ invalid_projection(s) \in Projections
           /\ invalid_projection(s).lineage_ok = FALSE
  BY DEF Projections, invalid_projection, With

LEMMA EventApplied ==
    ASSUME NEW s \in Projections, NEW e \in Events
    PROVE  /\ project_event(s, e) \in Projections
           /\ Accepts(s, e) => Applies(s, e, project_event(s, e))
           /\ ~Accepts(s, e) => project_event(s, e).lineage_ok = FALSE
<1> DEFINE t == project_event(s, e)
<1>j. join_evidence(s, e.status) \in Statuses
  BY JoinedStatus DEF Events
<1>r. invalid_projection(s) \in Projections /\ invalid_projection(s).lineage_ok = FALSE
  BY Refused
<1>0. CASE e.kind = "Empty"
  BY <1>0 DEF project_event, Accepts, Applies
<1>1. CASE e.kind = "EpochStarted"
  <2> DEFINE u == With(projection_initial, [active_epoch |-> e.epoch,
                       parent_epoch |-> e.parent_epoch, lineage_ok |-> s.lineage_ok])
  <2>1. t = IF e.epoch # {} /\ e.parent_epoch = s.active_epoch THEN u ELSE invalid_projection(s)
    BY <1>1 DEF project_event, project_epoch, valid_root_or_successor, Zero
  <2>2. u \in Projections /\ Applies(s, e, u)
    BY <1>1 DEF With, projection_initial, Projections, Events, Applies, Cleared, Zero, Statuses
  <2>3. Accepts(s, e) <=> e.epoch # {} /\ e.parent_epoch = s.active_epoch
    BY <1>1 DEF Accepts
  <2> HIDE DEF t, u
  <2> QED
    BY <1>r, <2>1, <2>2, <2>3 DEF t
<1>2. CASE e.kind = "CandidateRegistered"
  <2> DEFINE u == candidate_registered(s, e)
             c == /\ s.active_epoch # {} /\ e.epoch = s.active_epoch
                  /\ e.candidate # {} /\ e.parent_candidate # e.candidate
                  /\ e.parent_candidate = s.current_candidate
  <2>1. t = IF c THEN u ELSE invalid_projection(s)
    BY <1>2 DEF project_event, project_candidate, valid_root_or_successor, Zero
  <2>2. u \in Projections /\ Applies(s, e, u)
    BY <1>2 DEF candidate_registered, With, Projections, Events, Applies, Cleared, Statuses
  <2>3. Accepts(s, e) <=> c
    BY <1>2 DEF Accepts
  <2> HIDE DEF t, u, c
  <2> QED
    BY <1>r, <2>1, <2>2, <2>3 DEF t
<1>3. CASE e.kind = "EvidenceObserved"
  <2> DEFINE u == With(s, [evidence |-> join_evidence(s, e.status),
                           evidence_count |-> s.evidence_count + 1])
             c == /\ s.current_candidate # {} /\ e.candidate = s.current_candidate
                  /\ ~s.frozen /\ ~s.evaluated
  <2>1. t = IF c THEN u ELSE invalid_projection(s)
    BY <1>3 DEF project_event, project_evidence, Zero
  <2>2. u \in Projections /\ Applies(s, e, u)
    BY <1>3, <1>j DEF With, Projections, Applies, SameLineage
  <2>3. Accepts(s, e) <=> c
    BY <1>3 DEF Accepts
  <2> HIDE DEF t, u, c
  <2> QED
    BY <1>r, <2>1, <2>2, <2>3 DEF t
<1>4. CASE e.kind = "CandidateSelected"
  <2> DEFINE u == With(s, [disposition |-> "selected"])
             c == e.candidate = s.current_candidate /\ s.disposition = "undisposed"
  <2>1. t = IF c THEN u ELSE invalid_projection(s)
    BY <1>4 DEF project_event, project_selected
  <2>2. u \in Projections /\ Applies(s, e, u)
    BY <1>4 DEF With, Projections, Applies, SameLineage
  <2>3. Accepts(s, e) <=> c
    BY <1>4 DEF Accepts
  <2> HIDE DEF t, u, c
  <2> QED
    BY <1>r, <2>1, <2>2, <2>3 DEF t
<1>5. CASE e.kind = "CandidateRejected"
  <2> DEFINE u == With(s, [disposition |-> "rejected", evidence |-> "FAIL"])
             c == e.candidate = s.current_candidate /\ s.disposition = "undisposed"
  <2>1. t = IF c THEN u ELSE invalid_projection(s)
    BY <1>5 DEF project_event, project_rejected
  <2>2. u \in Projections /\ Applies(s, e, u)
    BY <1>5 DEF With, Projections, Applies, SameLineage, Statuses
  <2>3. Accepts(s, e) <=> c
    BY <1>5 DEF Accepts
  <2> HIDE DEF t, u, c
  <2> QED
    BY <1>r, <2>1, <2>2, <2>3 DEF t
<1>6. CASE e.kind = "CandidateFrozen"
  <2> DEFINE u == With(s, [frozen |-> TRUE])
             c == e.candidate = s.current_candidate /\ s.disposition = "selected" /\ ~s.frozen
  <2>1. t = IF c THEN u ELSE invalid_projection(s)
    BY <1>6 DEF project_event, project_frozen
  <2>2. u \in Projections /\ Applies(s, e, u)
    BY <1>6 DEF With, Projections, Applies, SameLineage
  <2>3. Accepts(s, e) <=> c
    BY <1>6 DEF Accepts
  <2> HIDE DEF t, u, c
  <2> QED
    BY <1>r, <2>1, <2>2, <2>3 DEF t
<1>7. CASE e.kind = "EvaluationRecorded"
  <2> DEFINE u == With(s, [evidence |-> join_evidence(s, e.status), evaluated |-> TRUE])
             c == e.candidate = s.current_candidate /\ s.disposition = "selected"
                  /\ s.frozen /\ ~s.evaluated
  <2>1. t = IF c THEN u ELSE invalid_projection(s)
    BY <1>7 DEF project_event, project_evaluation
  <2>2. u \in Projections /\ Applies(s, e, u)
    BY <1>7, <1>j DEF With, Projections, Applies, SameLineage
  <2>3. Accepts(s, e) <=> c
    BY <1>7 DEF Accepts
  <2> HIDE DEF t, u, c
  <2> QED
    BY <1>r, <2>1, <2>2, <2>3 DEF t
<1> QED
  BY <1>0, <1>1, <1>2, <1>3, <1>4, <1>5, <1>6, <1>7 DEF Events

\* f is the run of the projection over h.
Projected(h, req, f) ==
    /\ f[0] = projection_initial
    /\ \A k \in 0..Len(h) : f[k] \in Projections
    /\ \A k \in 1..Len(h) : f[k] = project_event(f[k - 1], history_event(h, k, req))

LEMMA InitialProjection == projection_initial \in Projections
  BY DEF projection_initial, Projections, Zero, Statuses

LEMMA ProjectionRuns ==
    ASSUME NEW h \in Seq(ForgeRecord), NEW req
    PROVE  \E f : /\ Projected(h, req, f)
                  /\ project_events(native_history_events(h, req)) = f[Len(h)]
<1> DEFINE n == Len(h)
           events == native_history_events(h, req)
           Runs(f) == f = [k \in 0..Len(events) |->
                             IF k = 0 THEN projection_initial ELSE project_event(f[k - 1], events[k])]
           step == [k \in 1..n |-> [s \in Projections |-> project_event(s, events[k])]]
           after == CHOOSE f : Runs(f)
<1>1. n \in Nat
  OBVIOUS
<1>2. Len(events) = n /\ \A k \in 1..n : events[k] = history_event(h, k, req) /\ events[k] \in Events
  <2>1. \A k \in 1..n : history_event(h, k, req) \in Events
    <3> SUFFICES ASSUME NEW k \in 1..n PROVE history_event(h, k, req) \in Events
      OBVIOUS
    <3>1. h[k] \in ForgeRecord /\ k \in Nat
      OBVIOUS
    <3>2. Reduces(h[k], k, req, history_event(h, k, req))
      BY <3>1, EventOf
    <3> QED
      BY <3>2 DEF Reduces
  <2> QED
    BY <2>1, <1>1 DEF native_history_events
<1> HIDE DEF events, n
<1>3. step \in [1..n -> [Projections -> Projections]]
  BY <1>2, EventApplied
<1>4. PICK g : Iterates(g, n, Projections, projection_initial, step)
  <2> HIDE DEF step
  <2> QED
    BY <1>1, <1>3, InitialProjection, Recursion
<1>5. Runs(g)
  <2>1. \A k \in 1..n : g[k] = project_event(g[k - 1], events[k])
    BY <1>1, <1>4 DEF Iterates
  <2>2. g = [k \in 0..n |-> g[k]]
    BY <1>4 DEF Iterates
  <2>0. g[0] = projection_initial
    BY <1>4 DEF Iterates
  <2>3. \A k \in 0..n : g[k] = IF k = 0 THEN projection_initial ELSE project_event(g[k - 1], events[k])
    BY <1>1, <2>0, <2>1
  <2>4. g = [k \in 0..n |-> IF k = 0 THEN projection_initial ELSE project_event(g[k - 1], events[k])]
    BY <2>2, <2>3
  <2>5. Len(events) = n
    BY <1>2
  <2> QED
    BY <2>4, <2>5, Zenon
<1>6. Runs(after)
  <2> HIDE DEF Runs
  <2> QED
    BY <1>5, Zenon
<1>7. project_events(events) = after[Len(events)]
  BY Zenon DEF project_events
<1> HIDE DEF after
<1>8. \A k \in 0..n : after[k] = IF k = 0 THEN projection_initial
                                 ELSE project_event(after[k - 1], events[k])
  BY <1>2, <1>6
<1> HIDE DEF Runs, step
<1>9. after[0] = projection_initial /\ \A k \in 1..n : after[k] = project_event(after[k - 1], events[k])
  BY <1>1, <1>8
<1>10. \A k \in 0..n : after[k] \in Projections
  <2> DEFINE S == {k \in Nat : k <= n => after[k] \in Projections}
  <2>1. 0 \in S
    BY <1>9, InitialProjection
  <2>2. ASSUME NEW k \in Nat, k \in S PROVE k + 1 \in S
    <3> SUFFICES ASSUME k + 1 <= n PROVE after[k + 1] \in Projections
      OBVIOUS
    <3>1. after[k] \in Projections /\ k + 1 \in 1..n /\ (k + 1) - 1 = k
      BY <1>1, <2>2
    <3>2. after[k + 1] = project_event(after[k], events[k + 1]) /\ events[k + 1] \in Events
      BY <1>2, <1>9, <3>1
    <3> QED
      BY <3>1, <3>2, EventApplied
  <2>3. \A k \in Nat : k \in S
    <3> HIDE DEF S
    <3> QED BY <2>1, <2>2, Induction
  <2> QED
    BY <1>1, <2>3
<1>11. Projected(h, req, after)
  BY <1>2, <1>9, <1>10 DEF Projected, n
<1> QED
  BY <1>2, <1>7, <1>11 DEF events, n

-----------------------------------------------------------------------------
(* An unambiguous native projection tracks an unambiguous history.         *)

\* The results of the current candidate that the policy counts.
RequiredResults(h, req) == {n \in OfCurrent(h, "result") : h[n].workflow \in req}

ShowsLineage(h, s) ==
    /\ s.active_epoch = ActiveEpoch(h) /\ s.current_candidate = CurrentId(h)
    /\ \A e \in ActiveEpoch(h) : s.parent_epoch = h[e].parent
    /\ \A n \in CurrentCandidate(h) : s.parent_candidate = h[n].parent

ShowsDecisions(h, s) ==
    /\ \A n \in OfCurrent(h, "disposition") : h[n].disposition = s.disposition
    /\ s.disposition = "undisposed" <=> OfCurrent(h, "disposition") = {}
    /\ s.frozen <=> OfCurrent(h, "freeze") # {}
    /\ s.frozen => s.disposition = "selected"
    /\ s.evaluated => s.frozen /\ OfCurrent(h, "evaluation") # {}

ShowsEvidence(h, s, req) ==
    /\ s.evidence_count = Cardinality(RequiredResults(h, req))
    /\ s.disposition = "undisposed" /\ s.evidence_count # 0
       /\ (\A n \in RequiredResults(h, req) : h[n].status = "PASS") => s.evidence = "PASS"

Tracks(h, s, req) ==
    /\ ~Ambiguous(h) /\ EpochsKnown(h)
    /\ ShowsLineage(h, s) /\ ShowsDecisions(h, s) /\ ShowsEvidence(h, s, req)

LEMMA CurrentIsOne ==
    ASSUME NEW h, NEW c \in CurrentId(h)
    PROVE  CurrentId(h) = {c}
<1>1. Positions(h, "candidate") \in SUBSET Nat
  BY DEF Positions
<1>2. ActiveCandidates(h) \in SUBSET Nat
  BY <1>1 DEF ActiveCandidates
<1>3. \A m, n \in CurrentCandidate(h) : m = n
  BY <1>2, OneLatest DEF CurrentCandidate
<1> QED
  BY <1>3 DEF CurrentId

\* What the projection shows of a record that is neither an epoch nor a candidate.
LEMMA BoundGrows ==
    ASSUME NEW h, NEW d, NEW g, Grows(g, h, d), EpochsKnown(h), Registered(h),
           d.kind \notin {"epoch", "candidate"}
    PROVE  /\ ActiveEpoch(g) = ActiveEpoch(h) /\ CurrentCandidate(g) = CurrentCandidate(h)
           /\ CurrentId(g) = CurrentId(h)
           /\ \A n \in ActiveEpoch(h) \cup CurrentCandidate(h) : g[n] = h[n]
           /\ \A k : OfCurrent(g, k) = OfCurrent(h, k)
                         \cup (IF d.kind = k /\ d.cand \in CurrentId(h) THEN {Len(h) + 1} ELSE {})
           /\ \A k : \A n \in OfCurrent(h, k) : g[n] = h[n] /\ n \in 1..Len(h)
           /\ g[Len(h) + 1] = d
<1>1. /\ \A k : Positions(g, k) = Positions(h, k) \cup (IF d.kind = k THEN {Len(h) + 1} ELSE {})
      /\ g[Len(h) + 1] = d /\ Len(h) \in Nat
      /\ \A k, n : n \in Positions(h, k) => n \in 1..Len(h) /\ g[n] = h[n]
  BY DEF Grows
<1>2. /\ ActiveEpoch(g) = ActiveEpoch(h) /\ CurrentCandidate(g) = CurrentCandidate(h)
      /\ CurrentId(g) = CurrentId(h)
  BY ActiveEpochGrows, CurrentGrows
<1>3. ActiveEpoch(h) \subseteq Positions(h, "epoch")
      /\ CurrentCandidate(h) \subseteq Positions(h, "candidate")
  BY LatestIn DEF ActiveEpoch, CurrentCandidate, ActiveCandidates
<1>4. \A k : OfCurrent(h, k) \subseteq Positions(h, k)
  BY DEF OfCurrent
<1>5. ASSUME NEW k
      PROVE  OfCurrent(g, k) = OfCurrent(h, k)
                 \cup (IF d.kind = k /\ d.cand \in CurrentId(h) THEN {Len(h) + 1} ELSE {})
  <2>1. Positions(g, k) = Positions(h, k) \cup (IF d.kind = k THEN {Len(h) + 1} ELSE {})
    BY <1>1
  <2>2. \A n \in Positions(h, k) : g[n] = h[n]
    BY <1>1
  <2> QED
    BY <1>1, <1>2, <2>1, <2>2 DEF OfCurrent
<1> QED
  BY <1>1, <1>2, <1>3, <1>4, <1>5

LEMMA NoResults ==
    ASSUME NEW h, NEW req, OfCurrent(h, "result") = {}
    PROVE  RequiredResults(h, req) = {} /\ Cardinality(RequiredResults(h, req)) = 0
<1>1. RequiredResults(h, req) = {}
  BY DEF RequiredResults
<1> QED
  BY <1>1, FS_EmptySet

LEMMA ResultsFinite ==
    ASSUME NEW h \in Seq(ForgeRecord), NEW req
    PROVE  IsFiniteSet(RequiredResults(h, req)) /\ Cardinality(RequiredResults(h, req)) \in Nat
<1>1. RequiredResults(h, req) \subseteq 1..Len(h) /\ Len(h) \in Nat
  BY DEF RequiredResults, OfCurrent, Positions
<1>2. IsFiniteSet(1..Len(h))
  BY <1>1, FS_Interval
<1>3. IsFiniteSet(RequiredResults(h, req))
  BY <1>1, <1>2, FS_Subset
<1> QED
  BY <1>3, FS_CardinalityType

\* A record that continues what the projection shows.
LEMMA EpochTracked ==
    ASSUME NEW h, NEW d, NEW g, Grows(g, h, d), Registered(h),
           ~IdentityConflict(h, d), NEW req, NEW s, Tracks(h, s, req), d.kind = "epoch",
           d.parent = s.active_epoch, NEW t, t.active_epoch = {Len(h) + 1},
           t.parent_epoch = d.parent, t.current_candidate = {}, t.parent_candidate = {}, Cleared(t)
    PROVE  Tracks(g, t, req)
<1>1. Fits(h, d)
  BY DEF Fits, Tracks, ShowsLineage
<1>2. ~Ambiguous(g) /\ EpochsKnown(g)
  BY <1>1, UnambiguousGrows, EpochsKnownGrows DEF Tracks
<1>3. ActiveEpoch(g) = {Len(h) + 1} /\ g[Len(h) + 1] = d
  BY ActiveEpochGrows DEF Grows
<1>4. CurrentCandidate(g) = {} /\ CurrentId(g) = {} /\ \A k : OfCurrent(g, k) = {}
  BY CurrentGrows, OfCurrentGrows DEF Tracks
<1>5. ShowsLineage(g, t)
  BY <1>3, <1>4 DEF ShowsLineage
<1>6. ShowsDecisions(g, t)
  BY <1>4 DEF ShowsDecisions, Cleared
<1>7. ShowsEvidence(g, t, req)
  BY <1>4, NoResults DEF ShowsEvidence, Cleared
<1> QED
  BY <1>2, <1>5, <1>6, <1>7 DEF Tracks

LEMMA CandidateTracked ==
    ASSUME NEW h, NEW d, NEW g, Grows(g, h, d), Registered(h),
           ~IdentityConflict(h, d), NEW req, NEW s, Tracks(h, s, req), d.kind = "candidate",
           {d.epoch} = s.active_epoch, d.parent = s.current_candidate, d.parent # {d.cand},
           NEW t, t.active_epoch = s.active_epoch, t.parent_epoch = s.parent_epoch,
           t.current_candidate = {d.cand}, t.parent_candidate = d.parent, Cleared(t)
    PROVE  Tracks(g, t, req)
<1>0. ActiveEpoch(h) = {d.epoch} /\ d.parent = CurrentId(h)
  BY DEF Tracks, ShowsLineage
<1>1. Fits(h, d)
  <2>1. d.cand \notin d.parent
    BY <1>0, CurrentIsOne
  <2> QED
    BY <1>0, <2>1 DEF Fits
<1>2. ~Ambiguous(g) /\ EpochsKnown(g)
  BY <1>1, UnambiguousGrows, EpochsKnownGrows DEF Tracks
<1>3. ActiveEpoch(g) = ActiveEpoch(h)
  BY ActiveEpochGrows
<1>k. EpochsKnown(h) /\ d.epoch \in ActiveEpoch(h)
  BY <1>0 DEF Tracks
<1>4. CurrentCandidate(g) = {Len(h) + 1} /\ CurrentId(g) = {d.cand} /\ g[Len(h) + 1] = d
  <2>1. g[Len(h) + 1] = d
    BY DEF Grows
  <2> QED
    BY <1>k, <2>1, CurrentGrows
<1>5. \A c \in Positions(h, "candidate") : h[c].cand # d.cand
  BY DEF IdentityConflict
<1>6. \A k \in Binding : OfCurrent(g, k) = {}
  BY <1>0, <1>5, OfCurrentGrows DEF Tracks
<1>7. /\ OfCurrent(g, "result") = {} /\ OfCurrent(g, "disposition") = {}
      /\ OfCurrent(g, "freeze") = {} /\ OfCurrent(g, "evaluation") = {}
  BY <1>6 DEF Binding
<1>8. \A e \in ActiveEpoch(h) : g[e] = h[e]
  <2>1. ActiveEpoch(h) \subseteq Positions(h, "epoch")
    BY LatestIn DEF ActiveEpoch
  <2> QED
    BY <2>1 DEF Grows
<1>9. ShowsLineage(g, t)
  BY <1>3, <1>4, <1>8 DEF ShowsLineage, Tracks
<1>10. ShowsDecisions(g, t)
  BY <1>7 DEF ShowsDecisions, Cleared
<1>11. ShowsEvidence(g, t, req)
  BY <1>7, NoResults DEF ShowsEvidence, Cleared
<1> QED
  BY <1>2, <1>9, <1>10, <1>11 DEF Tracks

\* The parts of Tracks that a record of the current candidate leaves alone.
LEMMA BoundTracked ==
    ASSUME NEW h, NEW d, NEW g, Grows(g, h, d), Registered(h), Fits(h, d),
           ~IdentityConflict(h, d), NEW req, NEW s, Tracks(h, s, req),
           d.kind \notin {"epoch", "candidate"},
           NEW t, SameLineage(s, t)
    PROVE  ~Ambiguous(g) /\ EpochsKnown(g) /\ ShowsLineage(g, t)
<1>1. ~Ambiguous(g) /\ EpochsKnown(g)
  BY UnambiguousGrows, EpochsKnownGrows DEF Tracks
<1>2. /\ ActiveEpoch(g) = ActiveEpoch(h) /\ CurrentCandidate(g) = CurrentCandidate(h)
      /\ CurrentId(g) = CurrentId(h)
      /\ \A n \in ActiveEpoch(h) \cup CurrentCandidate(h) : g[n] = h[n]
  BY BoundGrows DEF Tracks
<1>3. ShowsLineage(g, t)
  BY <1>2 DEF ShowsLineage, SameLineage, Tracks
<1> QED
  BY <1>1, <1>3

LEMMA ResultTracked ==
    ASSUME NEW h \in Seq(ForgeRecord), NEW d, NEW g, Grows(g, h, d), Registered(h),
           ~IdentityConflict(h, d), NEW req, NEW s, Tracks(h, s, req), d.kind = "result",
           d.workflow \in req, {d.cand} = s.current_candidate, ~s.frozen, ~s.evaluated,
           NEW t, SameLineage(s, t), t.evidence = join_evidence(s, d.status),
           t.evidence_count = s.evidence_count + 1, t.disposition = s.disposition,
           t.frozen = s.frozen, t.evaluated = s.evaluated
    PROVE  Tracks(g, t, req)
<1>0. Fits(h, d) /\ d.cand \in CurrentId(h)
  BY DEF Fits, Tracks, ShowsLineage
<1>1. ~Ambiguous(g) /\ EpochsKnown(g) /\ ShowsLineage(g, t)
  BY <1>0, BoundTracked
<1>2. /\ \A k : OfCurrent(g, k) = OfCurrent(h, k)
                    \cup (IF d.kind = k /\ d.cand \in CurrentId(h) THEN {Len(h) + 1} ELSE {})
      /\ \A k : \A n \in OfCurrent(h, k) : g[n] = h[n] /\ n \in 1..Len(h)
      /\ g[Len(h) + 1] = d
  BY BoundGrows DEF Tracks
<1>3. /\ OfCurrent(g, "disposition") = OfCurrent(h, "disposition")
      /\ OfCurrent(g, "freeze") = OfCurrent(h, "freeze")
      /\ OfCurrent(g, "evaluation") = OfCurrent(h, "evaluation")
  BY <1>2
<1>4. ShowsDecisions(g, t)
  BY <1>2, <1>3 DEF ShowsDecisions, Tracks
<1> DEFINE R == RequiredResults(h, req)
           N == Len(h) + 1
<1>5. RequiredResults(g, req) = R \cup {N} /\ N \notin R /\ \A n \in R : g[n] = h[n]
  <2>1. OfCurrent(g, "result") = OfCurrent(h, "result") \cup {N}
    BY <1>0, <1>2
  <2>2. N \notin OfCurrent(h, "result")
    BY <1>2
  <2> QED
    BY <1>2, <2>1, <2>2 DEF RequiredResults
<1>6. IsFiniteSet(R) /\ Cardinality(R) \in Nat
  BY ResultsFinite
<1>7. Cardinality(RequiredResults(g, req)) = Cardinality(R) + 1
  <2> HIDE DEF R, N
  <2>1. Cardinality(R \cup {N}) = Cardinality(R) + 1
    BY <1>5, <1>6, FS_AddElement
  <2>2. RequiredResults(g, req) = R \cup {N}
    BY <1>5
  <2> QED
    BY <2>1, <2>2, Zenon
<1>8. s.evidence_count = Cardinality(R)
      /\ (s.disposition = "undisposed" /\ s.evidence_count # 0
          /\ (\A n \in R : h[n].status = "PASS") => s.evidence = "PASS")
  BY DEF Tracks, ShowsEvidence
<1> HIDE DEF R
<1>9. ASSUME t.disposition = "undisposed", \A n \in RequiredResults(g, req) : g[n].status = "PASS"
      PROVE  t.evidence = "PASS"
  <2>1. d.status = "PASS" /\ \A n \in R : h[n].status = "PASS"
    BY <1>2, <1>5, <1>9
  <2>2. CASE s.evidence_count = 0
    BY <2>1, <2>2 DEF join_evidence
  <2>3. CASE s.evidence_count # 0
    <3>1. s.evidence = "PASS"
      BY <1>8, <1>9, <2>1, <2>3
    <3>2. t.evidence = Summary({"PASS", "PASS"})
      BY <2>1, <2>3, <3>1 DEF join_evidence, dominate
    <3> QED
      BY <3>2 DEF Summary
  <2> QED
    BY <2>2, <2>3
<1>10. ShowsEvidence(g, t, req)
  BY <1>7, <1>8, <1>9 DEF ShowsEvidence
<1> QED
  BY <1>1, <1>4, <1>10 DEF Tracks

\* The evidence of a record that is not a counted result.
LEMMA EvidenceKept ==
    ASSUME NEW h, NEW d, NEW g, Grows(g, h, d), Registered(h), EpochsKnown(h),
           d.kind \notin {"epoch", "candidate"}, NEW req,
           d.kind = "result" => d.workflow \notin req,
           NEW s, ShowsEvidence(h, s, req), NEW t, t.evidence_count = s.evidence_count,
           t.disposition = "undisposed" => s.disposition = "undisposed" /\ t.evidence = s.evidence
    PROVE  ShowsEvidence(g, t, req)
<1>2. /\ \A k : OfCurrent(g, k) = OfCurrent(h, k)
                    \cup (IF d.kind = k /\ d.cand \in CurrentId(h) THEN {Len(h) + 1} ELSE {})
      /\ \A k : \A n \in OfCurrent(h, k) : g[n] = h[n] /\ n \in 1..Len(h)
      /\ g[Len(h) + 1] = d
  BY BoundGrows
<1>3. OfCurrent(g, "result") \subseteq OfCurrent(h, "result")
          \cup (IF d.kind = "result" THEN {Len(h) + 1} ELSE {})
      /\ OfCurrent(h, "result") \subseteq OfCurrent(g, "result")
  BY <1>2
<1>4. RequiredResults(g, req) = RequiredResults(h, req)
      /\ \A n \in RequiredResults(h, req) : g[n] = h[n]
  BY <1>2, <1>3 DEF RequiredResults
<1> QED
  BY <1>4 DEF ShowsEvidence

\* A record of which there is no event.
LEMMA OtherTracked ==
    ASSUME NEW h, NEW d, NEW g, Grows(g, h, d), Registered(h),
           ~IdentityConflict(h, d), NEW req, NEW s, Tracks(h, s, req),
           \/ d.kind = "result" /\ d.workflow \notin req
           \/ d.kind = "bundle"
    PROVE  Tracks(g, s, req)
<1>0. Fits(h, d) /\ d.kind \in {"result", "bundle"} /\ SameLineage(s, s)
  BY DEF Fits, SameLineage
<1>1. ~Ambiguous(g) /\ EpochsKnown(g) /\ ShowsLineage(g, s)
  BY <1>0, BoundTracked
<1>2. /\ \A k : OfCurrent(g, k) = OfCurrent(h, k)
                    \cup (IF d.kind = k /\ d.cand \in CurrentId(h) THEN {Len(h) + 1} ELSE {})
      /\ \A k : \A n \in OfCurrent(h, k) : g[n] = h[n] /\ n \in 1..Len(h)
  BY <1>0, BoundGrows DEF Tracks
<1>3. /\ OfCurrent(g, "disposition") = OfCurrent(h, "disposition")
      /\ OfCurrent(g, "freeze") = OfCurrent(h, "freeze")
      /\ OfCurrent(g, "evaluation") = OfCurrent(h, "evaluation")
  BY <1>0, <1>2
<1>4. ShowsDecisions(g, s)
  BY <1>2, <1>3 DEF ShowsDecisions, Tracks
<1>5. ShowsEvidence(g, s, req)
  BY <1>0, EvidenceKept DEF Tracks
<1> QED
  BY <1>1, <1>4, <1>5 DEF Tracks

LEMMA DispositionTracked ==
    ASSUME NEW h, NEW d, NEW g, Grows(g, h, d), Registered(h),
           ~IdentityConflict(h, d), NEW req, NEW s, Tracks(h, s, req), d.kind = "disposition",
           d.disposition \in {"selected", "rejected"},
           {d.cand} = s.current_candidate, s.disposition = "undisposed",
           NEW t, SameLineage(s, t), t.evidence_count = s.evidence_count,
           t.disposition = d.disposition, t.frozen = s.frozen, t.evaluated = s.evaluated
    PROVE  Tracks(g, t, req)
<1>0. /\ OfCurrent(h, "disposition") = {} /\ OfCurrent(h, "freeze") = {}
      /\ d.cand \in CurrentId(h) /\ ~s.frozen /\ ~s.evaluated
  BY DEF Tracks, ShowsDecisions, ShowsLineage
<1>f. Fits(h, d)
  BY <1>0 DEF Fits
<1>1. ~Ambiguous(g) /\ EpochsKnown(g) /\ ShowsLineage(g, t)
  BY <1>f, BoundTracked
<1>2. /\ \A k : OfCurrent(g, k) = OfCurrent(h, k)
                    \cup (IF d.kind = k /\ d.cand \in CurrentId(h) THEN {Len(h) + 1} ELSE {})
      /\ g[Len(h) + 1] = d
  BY BoundGrows DEF Tracks
<1>3. OfCurrent(g, "disposition") = {Len(h) + 1} /\ OfCurrent(g, "freeze") = {}
  BY <1>0, <1>2
<1>4. ShowsDecisions(g, t)
  BY <1>0, <1>2, <1>3 DEF ShowsDecisions
<1>5. ShowsEvidence(g, t, req)
  BY EvidenceKept DEF Tracks
<1> QED
  BY <1>1, <1>4, <1>5 DEF Tracks

LEMMA FreezeTracked ==
    ASSUME NEW h, NEW d, NEW g, Grows(g, h, d), Registered(h),
           ~IdentityConflict(h, d), NEW req, NEW s, Tracks(h, s, req), d.kind = "freeze",
           {d.cand} = s.current_candidate, s.disposition = "selected", ~s.frozen,
           NEW t, SameLineage(s, t), t.evidence_count = s.evidence_count,
           t.disposition = s.disposition, t.frozen = TRUE, t.evaluated = s.evaluated
    PROVE  Tracks(g, t, req)
<1>0. OfCurrent(h, "freeze") = {} /\ d.cand \in CurrentId(h)
  BY DEF Tracks, ShowsDecisions, ShowsLineage
<1>f. Fits(h, d)
  BY <1>0 DEF Fits
<1>1. ~Ambiguous(g) /\ EpochsKnown(g) /\ ShowsLineage(g, t)
  BY <1>f, BoundTracked
<1>2. /\ \A k : OfCurrent(g, k) = OfCurrent(h, k)
                    \cup (IF d.kind = k /\ d.cand \in CurrentId(h) THEN {Len(h) + 1} ELSE {})
      /\ \A k : \A n \in OfCurrent(h, k) : g[n] = h[n] /\ n \in 1..Len(h)
  BY BoundGrows DEF Tracks
<1>3. /\ OfCurrent(g, "disposition") = OfCurrent(h, "disposition")
      /\ OfCurrent(g, "freeze") = {Len(h) + 1}
  <2>1. OfCurrent(g, "disposition") = OfCurrent(h, "disposition")
    BY <1>2
  <2>2. OfCurrent(g, "freeze") = OfCurrent(h, "freeze") \cup {Len(h) + 1}
    BY <1>0, <1>2
  <2> QED
    BY <1>0, <2>1, <2>2
<1>4. ShowsDecisions(g, t)
  BY <1>2, <1>3 DEF ShowsDecisions, Tracks
<1>5. ShowsEvidence(g, t, req)
  BY EvidenceKept DEF Tracks
<1> QED
  BY <1>1, <1>4, <1>5 DEF Tracks

LEMMA EvaluationTracked ==
    ASSUME NEW h, NEW d, NEW g, Grows(g, h, d), Registered(h),
           ~IdentityConflict(h, d), NEW req, NEW s, Tracks(h, s, req), d.kind = "evaluation",
           {d.cand} = s.current_candidate, s.disposition = "selected", s.frozen,
           NEW t, SameLineage(s, t), t.evidence_count = s.evidence_count,
           t.disposition = s.disposition, t.frozen = s.frozen, t.evaluated = TRUE
    PROVE  Tracks(g, t, req)
<1>0. d.cand \in CurrentId(h)
  BY DEF Tracks, ShowsLineage
<1>f. Fits(h, d)
  BY DEF Fits
<1>1. ~Ambiguous(g) /\ EpochsKnown(g) /\ ShowsLineage(g, t)
  BY <1>f, BoundTracked
<1>2. /\ \A k : OfCurrent(g, k) = OfCurrent(h, k)
                    \cup (IF d.kind = k /\ d.cand \in CurrentId(h) THEN {Len(h) + 1} ELSE {})
      /\ \A k : \A n \in OfCurrent(h, k) : g[n] = h[n] /\ n \in 1..Len(h)
  BY BoundGrows DEF Tracks
<1>3. /\ OfCurrent(g, "disposition") = OfCurrent(h, "disposition")
      /\ OfCurrent(g, "freeze") = OfCurrent(h, "freeze")
      /\ OfCurrent(g, "evaluation") # {}
  BY <1>0, <1>2
<1>4. ShowsDecisions(g, t)
  BY <1>2, <1>3 DEF ShowsDecisions, Tracks
<1>5. ShowsEvidence(g, t, req)
  BY EvidenceKept DEF Tracks
<1> QED
  BY <1>1, <1>4, <1>5 DEF Tracks


\* An accepted record keeps the projection on the history's track.
LEMMA RecordTracked ==
    ASSUME NEW h \in Seq(ForgeRecord), NEW d \in ForgeRecord, NEW g, Grows(g, h, d),
           Registered(h), ~IdentityConflict(h, d), NEW req,
           NEW s \in Projections, Tracks(h, s, req),
           Accepts(s, history_event(g, Len(h) + 1, req))
    PROVE  Tracks(g, project_event(s, history_event(g, Len(h) + 1, req)), req)
<1> DEFINE n == Len(h) + 1
           e == history_event(g, n, req)
           t == project_event(s, e)
<1>0. n \in Nat /\ g[n] = d
  BY DEF Grows
<1>1. Reduces(d, n, req, e)
  <2>1. g[n] \in ForgeRecord
    BY <1>0
  <2>2. Reduces(g[n], n, req, history_event(g, n, req))
    BY <1>0, <2>1, EventOf
  <2> QED
    BY <1>0, <2>2
<1>2. Accepts(s, e) /\ Applies(s, e, t)
  <2>1. e \in Events
    BY <1>1 DEF Reduces
  <2> HIDE DEF e
  <2> QED
    BY <2>1, EventApplied DEF e
<1> HIDE DEF e, t
<1>3. CASE d.kind = "epoch"
  <2>1. /\ e.kind = "EpochStarted" /\ e.epoch = {n} /\ e.parent_epoch = d.parent
    BY <1>1, <1>3 DEF Reduces, Event
  <2>2. d.parent = s.active_epoch
    BY <1>2, <2>1 DEF Accepts
  <2>3. /\ t.active_epoch = {Len(h) + 1} /\ t.parent_epoch = d.parent
        /\ t.current_candidate = {} /\ t.parent_candidate = {} /\ Cleared(t)
    BY <1>2, <2>1 DEF Applies
  <2>4. Tracks(g, t, req)
    BY <1>3, <2>2, <2>3, EpochTracked
  <2> QED
    BY <2>4 DEF e, t
<1>4. CASE d.kind = "candidate"
  <2>1. /\ e.kind = "CandidateRegistered" /\ e.epoch = {d.epoch} /\ e.candidate = {d.cand}
        /\ e.parent_candidate = d.parent
    BY <1>1, <1>4 DEF Reduces, Event
  <2>2. {d.epoch} = s.active_epoch /\ d.parent = s.current_candidate /\ d.parent # {d.cand}
    BY <1>2, <2>1 DEF Accepts
  <2>3. /\ t.active_epoch = s.active_epoch /\ t.parent_epoch = s.parent_epoch
        /\ t.current_candidate = {d.cand} /\ t.parent_candidate = d.parent /\ Cleared(t)
    BY <1>2, <2>1 DEF Applies
  <2>4. Tracks(g, t, req)
    BY <1>4, <2>2, <2>3, CandidateTracked
  <2> QED
    BY <2>4 DEF e, t
<1>5. CASE d.kind = "result" /\ d.workflow \in req
  <2>1. e.kind = "EvidenceObserved" /\ e.candidate = {d.cand} /\ e.status = d.status
    BY <1>1, <1>5 DEF Reduces, Event
  <2>2. {d.cand} = s.current_candidate /\ ~s.frozen /\ ~s.evaluated
    BY <1>2, <2>1 DEF Accepts
  <2>3. /\ SameLineage(s, t) /\ t.evidence = join_evidence(s, d.status)
        /\ t.evidence_count = s.evidence_count + 1
        /\ t.disposition = s.disposition /\ t.frozen = s.frozen /\ t.evaluated = s.evaluated
    BY <1>2, <2>1 DEF Applies
  <2>4. Tracks(g, t, req)
    BY <1>5, <2>2, <2>3, ResultTracked
  <2> QED
    BY <2>4 DEF e, t
<1>6. CASE (d.kind = "result" /\ d.workflow \notin req) \/ d.kind = "bundle"
  <2>1. e.kind = "Empty"
    BY <1>1, <1>6 DEF Reduces, Event, EmptyEvent
  <2>2. t = s
    BY <1>2, <2>1 DEF Applies
  <2>3. Tracks(g, s, req)
    BY <1>6, OtherTracked
  <2> QED
    BY <2>2, <2>3 DEF e, t
<1>7. CASE d.kind = "disposition"
  <2>0. d.disposition \in {"selected", "rejected"}
    BY <1>7, RecordForms DEF DispositionRecord
  <2>1. /\ e.kind = IF d.disposition = "selected" THEN "CandidateSelected" ELSE "CandidateRejected"
        /\ e.candidate = {d.cand}
    BY <1>1, <1>7 DEF Reduces, Event
  <2>2. {d.cand} = s.current_candidate /\ s.disposition = "undisposed"
    BY <1>2, <2>1 DEF Accepts
  <2>3. /\ SameLineage(s, t) /\ t.evidence_count = s.evidence_count
        /\ t.disposition = (IF e.kind = "CandidateSelected" THEN "selected" ELSE "rejected")
        /\ t.frozen = s.frozen /\ t.evaluated = s.evaluated
    BY <1>2, <2>1 DEF Applies
  <2>4. t.disposition = d.disposition
    BY <2>0, <2>1, <2>3
  <2>5. Tracks(g, t, req)
    BY <1>7, <2>0, <2>2, <2>3, <2>4, DispositionTracked
  <2> QED
    BY <2>5 DEF e, t
<1>8. CASE d.kind = "freeze"
  <2>1. e.kind = "CandidateFrozen" /\ e.candidate = {d.cand}
    BY <1>1, <1>8 DEF Reduces, Event
  <2>2. {d.cand} = s.current_candidate /\ s.disposition = "selected" /\ ~s.frozen
    BY <1>2, <2>1 DEF Accepts
  <2>3. /\ SameLineage(s, t) /\ t.evidence_count = s.evidence_count
        /\ t.disposition = s.disposition /\ t.frozen = TRUE /\ t.evaluated = s.evaluated
    BY <1>2, <2>1 DEF Applies
  <2>4. Tracks(g, t, req)
    BY <1>8, <2>2, <2>3, FreezeTracked
  <2> QED
    BY <2>4 DEF e, t
<1>9. CASE d.kind = "evaluation"
  <2>1. e.kind = "EvaluationRecorded" /\ e.candidate = {d.cand}
    BY <1>1, <1>9 DEF Reduces, Event
  <2>2. {d.cand} = s.current_candidate /\ s.disposition = "selected" /\ s.frozen
    BY <1>2, <2>1 DEF Accepts
  <2>3. /\ SameLineage(s, t) /\ t.evidence_count = s.evidence_count
        /\ t.disposition = s.disposition /\ t.frozen = s.frozen /\ t.evaluated = TRUE
    BY <1>2, <2>1 DEF Applies
  <2>4. Tracks(g, t, req)
    BY <1>9, <2>2, <2>3, EvaluationTracked
  <2> QED
    BY <2>4 DEF e, t
<1> QED
  BY <1>3, <1>4, <1>5, <1>6, <1>7, <1>8, <1>9, RecordForms

\* A candidate identity is registered once in h.
Once(h) ==
    \A m, n \in Positions(h, "candidate") : h[m].cand = h[n].cand => m = n

\* The first k records of h.
Prefix(h, k) == SubSeq(h, 1, k)

LEMMA PrefixGrows ==
    ASSUME NEW h \in Seq(ForgeRecord), Registered(h), Once(h),
           NEW k \in Nat, k + 1 <= Len(h)
    PROVE  /\ Prefix(h, k) \in Seq(ForgeRecord) /\ Len(Prefix(h, k)) = k
           /\ Grows(Prefix(h, k + 1), Prefix(h, k), h[k + 1])
           /\ Registered(Prefix(h, k)) /\ ~IdentityConflict(Prefix(h, k), h[k + 1])
           /\ \A req : history_event(Prefix(h, k + 1), k + 1, req) = history_event(h, k + 1, req)
<1> DEFINE f == Prefix(h, k)
           g == Prefix(h, k + 1)
           d == h[k + 1]
<1>0. Len(h) \in Nat /\ d \in ForgeRecord
  OBVIOUS
<1>1. f \in Seq(ForgeRecord) /\ Len(f) = k /\ \A n \in 1..k : f[n] = h[n]
  BY <1>0 DEF Prefix
<1>2. g \in Seq(ForgeRecord) /\ Len(g) = k + 1 /\ \A n \in 1..k + 1 : g[n] = h[n]
  BY <1>0 DEF Prefix
<1> HIDE DEF f, g
<1>3. g = Append(f, d)
  <2>1. Append(f, d) \in Seq(ForgeRecord) /\ Len(Append(f, d)) = k + 1
        /\ \A n \in 1..k + 1 : Append(f, d)[n] = h[n]
    BY <1>0, <1>1
  <2> QED
    BY <1>2, <2>1, SeqEqual
<1>4. Grows(g, f, d)
  <2> HIDE DEF d
  <2> QED
    BY <1>0, <1>1, <1>3, Appended
<1>5. \A n \in Positions(f, "candidate") : n \in 1..k /\ n \in Positions(h, "candidate") /\ f[n] = h[n]
  BY <1>0, <1>1 DEF Positions
<1>6. Registered(f)
  <2> SUFFICES ASSUME NEW n \in 1..k, f[n].kind \in Binding
               PROVE  \E c \in Positions(f, "candidate") : c < n /\ f[c].cand = f[n].cand
    BY <1>1 DEF Registered
  <2>1. n \in 1..Len(h) /\ h[n].kind \in Binding /\ f[n] = h[n]
    BY <1>0, <1>1
  <2>2. PICK c \in Positions(h, "candidate") : c < n /\ h[c].cand = h[n].cand
    BY <2>1 DEF Registered
  <2>3. c \in 1..k /\ h[c].kind = "candidate"
    BY <1>0, <2>2 DEF Positions
  <2>4. c \in Positions(f, "candidate") /\ f[c] = h[c]
    BY <1>1, <2>3 DEF Positions
  <2> QED
    BY <2>1, <2>2, <2>4
<1>7. ~IdentityConflict(f, d)
  <2> SUFFICES ASSUME d.kind = "candidate", NEW n \in Positions(f, "candidate"), f[n].cand = d.cand
               PROVE  FALSE
    BY DEF IdentityConflict
  <2>1. k + 1 \in Positions(h, "candidate")
    BY <1>0 DEF Positions
  <2>2. n = k + 1
    BY <1>5, <2>1 DEF Once
  <2> QED
    BY <1>5, <2>2
<1>8. \A req : history_event(g, k + 1, req) = history_event(h, k + 1, req)
  <2>1. g[k + 1] = h[k + 1]
    BY <1>2
  <2> QED
    BY <2>1 DEF history_event
<1> QED
  BY <1>1, <1>4, <1>6, <1>7, <1>8 DEF f, g

LEMMA EmptyTracked ==
    ASSUME NEW h, Len(h) = 0, NEW req
    PROVE  Tracks(h, projection_initial, req)
<1>1. \A k : Positions(h, k) = {}
  BY DEF Positions
<1>2. \A k : OfCurrent(h, k) = {}
  BY <1>1 DEF OfCurrent
<1>3. ActiveEpoch(h) = {} /\ ActiveCandidates(h) = {}
  BY <1>1, LatestIn DEF ActiveEpoch, ActiveCandidates
<1>4. CurrentCandidate(h) = {} /\ CurrentId(h) = {}
  BY <1>3, LatestIn DEF CurrentCandidate, CurrentId
<1>5. ~Ambiguous(h) /\ EpochsKnown(h)
  BY <1>1, <1>2, <1>3
     DEF Ambiguous, EpochsCoherent, EpochSuperseded, CandidatesCoherent, AtMostOne, EpochsKnown
<1>6. ShowsLineage(h, projection_initial)
  BY <1>3, <1>4 DEF ShowsLineage, projection_initial, Zero
<1>7. ShowsDecisions(h, projection_initial)
  BY <1>2 DEF ShowsDecisions, projection_initial
<1>8. ShowsEvidence(h, projection_initial, req)
  BY <1>2, NoResults DEF ShowsEvidence, projection_initial
<1> QED
  BY <1>5, <1>6, <1>7, <1>8 DEF Tracks

\* The kernel's projection of a history it accepts shows what the host projects.
LEMMA NativeTracks ==
    ASSUME NEW h \in Seq(ForgeRecord), Registered(h), Once(h), NEW req
    PROVE  LET s == project_events(native_history_events(h, req))
           IN s \in Projections /\ (s.lineage_ok => Tracks(h, s, req))
<1>1. PICK f : /\ Projected(h, req, f)
               /\ project_events(native_history_events(h, req)) = f[Len(h)]
  BY ProjectionRuns
<1>2. /\ f[0] = projection_initial /\ Len(h) \in Nat
      /\ \A k \in 0..Len(h) : f[k] \in Projections
      /\ \A k \in 1..Len(h) : f[k] = project_event(f[k - 1], history_event(h, k, req))
  BY <1>1 DEF Projected
<1> DEFINE Good(k) == f[k].lineage_ok => Tracks(Prefix(h, k), f[k], req)
           S == {k \in Nat : k <= Len(h) => Good(k)}
<1>3. 0 \in S
  <2>1. Len(Prefix(h, 0)) = 0
    BY DEF Prefix
  <2> QED
    BY <1>2, <2>1, EmptyTracked
<1>4. ASSUME NEW k \in Nat, k \in S PROVE k + 1 \in S
  <2> SUFFICES ASSUME k + 1 <= Len(h), f[k + 1].lineage_ok
               PROVE  Tracks(Prefix(h, k + 1), f[k + 1], req)
    OBVIOUS
  <2> DEFINE e == history_event(h, k + 1, req)
             d == h[k + 1]
  <2>1. /\ f[k] \in Projections /\ f[k + 1] = project_event(f[k], e)
        /\ d \in ForgeRecord /\ Good(k)
    BY <1>2, <1>4
  <2>2. e \in Events
    <3>1. Reduces(d, k + 1, req, e)
      BY <2>1, EventOf
    <3> QED
      BY <3>1 DEF Reduces
  <2>3. Accepts(f[k], e) /\ Applies(f[k], e, f[k + 1])
    <3> HIDE DEF e
    <3> QED
      BY <2>1, <2>2, EventApplied
  <2>4. f[k].lineage_ok
    <3> HIDE DEF e
    <3> QED
      BY <2>2, <2>3 DEF Applies, SameLineage, Events
  <2>5. Tracks(Prefix(h, k), f[k], req)
    BY <2>1, <2>4
  <2>6. /\ Prefix(h, k) \in Seq(ForgeRecord) /\ Len(Prefix(h, k)) = k
        /\ Grows(Prefix(h, k + 1), Prefix(h, k), d)
        /\ Registered(Prefix(h, k)) /\ ~IdentityConflict(Prefix(h, k), d)
        /\ history_event(Prefix(h, k + 1), k + 1, req) = e
    BY PrefixGrows
  <2> HIDE DEF e, d, Good
  <2> QED
    BY <2>1, <2>3, <2>5, <2>6, RecordTracked
<1>5. \A k \in Nat : k \in S
  <2> HIDE DEF S
  <2> QED BY <1>3, <1>4, Induction
<1>6. Good(Len(h))
  BY <1>2, <1>5
<1>7. Prefix(h, Len(h)) = h
  BY <1>2 DEF Prefix
<1> QED
  BY <1>1, <1>2, <1>6, <1>7

-----------------------------------------------------------------------------
(* The native adapter grants nothing the compatibility rules refuse.       *)

\* q answers as the kernel does for history h and view v, with or without the
\* preflight.
Answers(q, h, v) ==
    /\ q.projection = NativeProjection(h, v).projection
    /\ q.freshness = NativeProjection(h, v).freshness
    /\ q.stage = NativeProjection(h, v).stage

LEMMA BothAnswer ==
    ASSUME NEW h, NEW v
    PROVE  /\ Answers(NativeProjection(h, v), h, v)
           /\ Answers(With(NativeProjection(h, v), [preflight |-> FALSE]), h, v)
  BY DEF Answers, NativeProjection, project, With

\* What the host projects of a tracked history.
LEMMA TrackedHost ==
    ASSUME NEW h, NEW s, NEW req, Tracks(h, s, req)
    PROVE  /\ ~Ambiguous(h) /\ DispositionStatus(h) = s.disposition
           /\ Freeze(h) = OfCurrent(h, "freeze") /\ Disposition(h) = OfCurrent(h, "disposition")
           /\ s.active_epoch = ActiveEpoch(h) /\ s.current_candidate = CurrentId(h)
<1>1. /\ ~Ambiguous(h) /\ AtMostOne(OfCurrent(h, "disposition")) /\ AtMostOne(OfCurrent(h, "freeze"))
  BY DEF Tracks, Ambiguous
<1>2. Freeze(h) = OfCurrent(h, "freeze") /\ Disposition(h) = OfCurrent(h, "disposition")
  BY <1>1 DEF Freeze, Disposition, OnlyOne
<1>3. DispositionStatus(h) = s.disposition
  <2>1. CASE OfCurrent(h, "disposition") = {}
    BY <1>1, <2>1 DEF DispositionStatus, Tracks, ShowsDecisions
  <2>2. CASE OfCurrent(h, "disposition") # {}
    <3>1. (CHOOSE n \in Disposition(h) : TRUE) \in OfCurrent(h, "disposition")
      BY <1>2, <2>2
    <3>2. h[CHOOSE n \in Disposition(h) : TRUE].disposition = s.disposition
      BY <3>1 DEF Tracks, ShowsDecisions
    <3> QED
      BY <1>1, <2>2, <3>2 DEF DispositionStatus
  <2> QED
    BY <2>1, <2>2
<1> QED
  BY <1>1, <1>2, <1>3 DEF Tracks, ShowsLineage

LEMMA AnswerTracks ==
    ASSUME NEW h \in Seq(ForgeRecord), Registered(h), Once(h), NEW v, NEW q,
           Answers(q, h, v), NativeUnambiguous(h, v, q)
    PROVE  /\ q.projection \in Projections /\ q.projection.lineage_ok
           /\ Tracks(h, q.projection, Required[v.policy])
           /\ q.freshness = project_freshness(q.projection, v.content)
           /\ q.stage = project_stage(q.projection, Cardinality(Required[v.policy]),
                                      OfCurrent(h, "bundle") # {})
<1>1. /\ q.projection = project_events(native_history_events(h, Required[v.policy]))
      /\ q.freshness = project_freshness(q.projection, v.content)
      /\ q.stage = project_stage(q.projection, Cardinality(Required[v.policy]),
                                 OfCurrent(h, "bundle") # {})
  BY DEF Answers, NativeProjection, project
<1>2. q.projection.lineage_ok
  BY <1>1 DEF NativeUnambiguous, project_stage
<1> QED
  BY <1>1, <1>2, NativeTracks

\* The adapter's candidate check is the host's.
LEMMA NativeCandidate ==
    ASSUME NEW h, NEW v, NEW q, NEW cand, NativeRequireCandidate(h, q, cand),
           q.freshness = project_freshness(q.projection, v.content),
           q.projection.current_candidate = CurrentId(h)
    PROVE  CurrentId(h) = {v.content} /\ RequireCandidate(h, v, cand)
  BY DEF NativeRequireCandidate, RequireCandidate, project_freshness, Zero

\* The one disposition of a frozen candidate is the selection the freeze binds.
LEMMA FrozenSelection ==
    ASSUME FreezeBacked, ~Ambiguous(history), NEW f \in OfCurrent(history, "freeze")
    PROVE  Disposition(history) = {history[f].selection}
<1>1. /\ f \in Positions(history, "freeze") /\ history[f].cand \in CurrentId(history)
      /\ AtMostOne(OfCurrent(history, "disposition"))
  BY DEF OfCurrent, Ambiguous
<1>2. /\ history[f].selection \in Positions(history, "disposition")
      /\ history[history[f].selection].cand = history[f].cand
  BY <1>1 DEF FreezeBacked, Earlier
<1>3. history[f].selection \in OfCurrent(history, "disposition")
  BY <1>1, <1>2 DEF OfCurrent
<1> QED
  BY <1>1, <1>3 DEF AtMostOne, Disposition, OnlyOne

LEMMA NativeToHost ==
    ASSUME TypeOK, CandidateOnce, Registered(history), NEW v \in View, NEW q, NEW a, NEW m, NEW o,
           o \in Ops, m \in {"development", "evaluator"}, Answers(q, history, v),
           NativeAuthorized(o, m, history, v, a, q),
           o # "bundle" \/ FreezeBacked
    PROVE  /\ Authorized(o, m, history, v, a)
           /\ q.projection \in Projections /\ q.projection.lineage_ok
           /\ Tracks(history, q.projection, Required[v.policy])
           /\ q.stage = project_stage(q.projection, Cardinality(Required[v.policy]),
                                      OfCurrent(history, "bundle") # {})
<1> DEFINE h == history
           s == q.projection
           req == Required[v.policy]
<1>h. h \in Seq(ForgeRecord) /\ Registered(h) /\ Once(h)
  BY DEF TypeOK, CandidateOnce, Once
<1>r. req \in SUBSET Workflows /\ Required[v.plan] \in SUBSET Workflows
  BY RequiredType DEF View
<1>u. NativeUnambiguous(h, v, q)
  BY DEF NativeAuthorized, Ops, DevelopmentOps, EvaluatorOps, NativeEpochBegin,
         NativeCandidateRegister, NativeDevelopmentWork, NativeCandidateDisposition,
         NativeCandidateFreeze, NativeEvaluatorEntry, NativeBundle
<1>t. /\ s \in Projections /\ s.lineage_ok /\ Tracks(h, s, req)
      /\ q.freshness = project_freshness(s, v.content)
      /\ q.stage = project_stage(s, Cardinality(req), OfCurrent(h, "bundle") # {})
  BY <1>h, <1>u, AnswerTracks
<1>k. /\ ~Ambiguous(h) /\ DispositionStatus(h) = s.disposition
      /\ Freeze(h) = OfCurrent(h, "freeze") /\ Disposition(h) = OfCurrent(h, "disposition")
      /\ s.current_candidate = CurrentId(h)
  BY <1>t, TrackedHost
<1>c. ASSUME NEW cand, NativeRequireCandidate(h, q, cand)
      PROVE  RequireCandidate(h, v, cand) /\ CurrentId(h) = {v.content}
  BY <1>c, <1>t, <1>k, NativeCandidate
<1>n. ASSUME NEW n, NEW r \in SUBSET Workflows, NativeReady(h, n, r, v)
      PROVE  Ready(h, n, r, v)
  BY <1>n, NativeIsReady
<1>a. Authorized(o, m, h, v, a)
  <2>1. CASE o = "begin_epoch"
    <3>1. NativeEpochBegin(h, v, q, a.epoch)
      BY <2>1 DEF NativeAuthorized
    <3> QED
      BY <1>k, <2>1, <3>1 DEF NativeEpochBegin, Authorized, AuthorizeEpochBegin
  <2>2. CASE o \in {"register", "refresh"}
    <3>1. NativeCandidateRegister(h, v, q, a.cand, v.content)
      BY <2>2 DEF NativeAuthorized
    <3> QED
      BY <1>k, <2>2, <3>1 DEF NativeCandidateRegister, Authorized, AuthorizeCandidateRegister
  <2>3. CASE o = "check"
    <3>1. NativeDevelopmentWork(h, v, q, a.cand)
      BY <2>3 DEF NativeAuthorized
    <3>2. Freeze(h) = {} /\ RequireCandidate(h, v, a.cand)
      BY <1>c, <3>1 DEF NativeDevelopmentWork
    <3> QED
      BY <1>k, <2>3, <3>2 DEF Authorized, AuthorizeDevelopmentWork
  <2>4. CASE o \in {"selected", "rejected"}
    <3>1. NativeCandidateDisposition(h, v, q, a.cand, o)
      BY <2>4 DEF NativeAuthorized
    <3>2. s.disposition = "undisposed" /\ RequireCandidate(h, v, a.cand)
      BY <1>c, <3>1 DEF NativeCandidateDisposition
    <3>3. o = "selected" => \A n \in CurrentCandidate(h) : Ready(h, n, req, v)
      BY <1>n, <1>r, <3>1 DEF NativeCandidateDisposition
    <3>4. AuthorizeCandidateDisposition(h, v, a.cand, o)
      BY <1>k, <3>2, <3>3 DEF AuthorizeCandidateDisposition
    <3> QED
      BY <2>4, <3>4 DEF Authorized
  <2>5. CASE o = "freeze"
    <3>1. NativeCandidateFreeze(h, v, q, a.cand, v.plan)
      BY <2>5 DEF NativeAuthorized
    <3>2. /\ RequireCandidate(h, v, a.cand) /\ s.disposition = "selected" /\ Freeze(h) = {}
          /\ \A e \in ActiveEpoch(h) : h[e].auth = v.auth
          /\ \A d \in Disposition(h) : h[d].policy = v.policy /\ h[d].evidence = "PASS"
      BY <1>c, <3>1 DEF NativeCandidateFreeze
    <3>3. \A n \in CurrentCandidate(h) : Ready(h, n, req, v) /\ Ready(h, n, Required[v.plan], v)
      BY <1>n, <1>r, <3>1 DEF NativeCandidateFreeze
    <3>4. AuthorizeCandidateFreeze(h, v, a.cand, v.plan)
      BY <1>k, <3>2, <3>3 DEF AuthorizeCandidateFreeze
    <3> QED
      BY <2>5, <3>4 DEF Authorized
  <2>6. CASE o = "evaluate"
    <3>1. NativeEvaluatorEntry(h, v, q, a.cand)
      BY <2>6 DEF NativeAuthorized
    <3>2. PICK f \in Freeze(h) :
             /\ a.cand \subseteq {h[f].cand} /\ FreezeDrift(h, f, v) = {}
             /\ NativeRequireCandidate(h, q, {h[f].cand})
             /\ s.disposition = "selected" /\ Disposition(h) = {h[f].selection}
      BY <3>1 DEF NativeEvaluatorEntry
    <3>3. RequireCandidate(h, v, {h[f].cand})
      BY <1>c, <3>2
    <3>4. AuthorizeEvaluatorEntry(h, v, a.cand)
      BY <1>k, <3>2, <3>3 DEF AuthorizeEvaluatorEntry
    <3> QED
      BY <2>6, <3>4 DEF Authorized
  <2>7. CASE o = "bundle"
    <3>1. bundle_preconditions(h, v, q, a.cand, m) /\ FreezeBacked
      BY <2>7 DEF NativeAuthorized, NativeBundle
    <3>2. RequireCandidate(h, v, a.cand) /\ CurrentId(h) = {v.content}
      BY <1>c, <3>1 DEF bundle_preconditions
    <3>3. CASE m = "development"
      BY <1>k, <2>7, <3>2, <3>3 DEF Authorized
    <3>4. CASE m = "evaluator"
      <4>1. /\ Freeze(h) # {} /\ s.disposition = "selected"
            /\ \A f \in Freeze(h) : FreezeDrift(h, f, v) = {}
        BY <3>1, <3>4 DEF bundle_preconditions
      <4>2. PICK f \in Freeze(h) : TRUE
        BY <4>1
      <4>3. Disposition(h) = {h[f].selection}
        BY <1>k, <3>1, <4>2, FrozenSelection
      <4>4. h[f].cand = v.content
        BY <1>k, <3>2, <4>2 DEF OfCurrent
      <4>5. RequireCandidate(h, v, {h[f].cand}) /\ a.cand \subseteq {h[f].cand}
        BY <3>2, <4>4 DEF RequireCandidate
      <4>6. AuthorizeEvaluatorEntry(h, v, a.cand)
        BY <1>k, <4>1, <4>2, <4>3, <4>5 DEF AuthorizeEvaluatorEntry
      <4> QED
        BY <2>7, <3>4, <4>6 DEF Authorized
    <3> QED
      BY <3>3, <3>4
  <2> QED
    BY <2>1, <2>2, <2>3, <2>4, <2>5, <2>6, <2>7 DEF Ops, DevelopmentOps, EvaluatorOps
<1> QED
  BY <1>a, <1>t

LEMMA HostAuthorizes ==
    ASSUME TypeOK, CandidateOnce, Registered(history), NEW p \in Procs, op[p] \in Ops,
           NEW v \in View, MachineAuthorizes(p, history, v), op[p] # "bundle" \/ FreezeBacked
    PROVE  Authorized(op[p], Mode[p], history, v, named[p])
<1>1. CASE p \notin Native
  BY <1>1 DEF MachineAuthorizes
<1>2. CASE p \in Native
  <2>1. NativeAuthorized(op[p], Mode[p], history, v, named[p], NativeProjection(history, v))
    BY <1>2 DEF MachineAuthorizes
  <2>2. Mode[p] \in {"development", "evaluator"} /\ Answers(NativeProjection(history, v), history, v)
    BY ControlConstants, BothAnswer
  <2> QED
    BY <2>1, <2>2, NativeToHost
<1> QED
  BY <1>1, <1>2

\* A ready candidate has a counted PASS for each of the policy's workflows.
LEMMA ReadyEvidence ==
    ASSUME NEW h \in Seq(ForgeRecord), NEW s \in Projections, NEW v, NEW req \in SUBSET Workflows,
           Tracks(h, s, req), s.disposition = "undisposed",
           NEW n \in CurrentCandidate(h), Ready(h, n, req, v)
    PROVE  s.evidence_count # 0 /\ s.evidence_count >= Cardinality(req) /\ s.evidence = "PASS"
<1> DEFINE R == RequiredResults(h, req)
           one == [w \in req |-> CHOOSE m \in Evidence(h, h[n].cand, w) : TRUE]
<1>1. /\ req # {}
      /\ \A w \in req : /\ Evidence(h, h[n].cand, w) # {}
                        /\ \A m \in Evidence(h, h[n].cand, w) : h[m].status = "PASS"
  BY ReadyMeans
<1>2. h[n].cand \in CurrentId(h) /\ CurrentId(h) = {h[n].cand}
  <2>1. h[n].cand \in CurrentId(h)
    BY DEF CurrentId
  <2> QED
    BY <2>1, CurrentIsOne
<1>3. \A m : m \in R <=> \E w \in req : m \in Evidence(h, h[n].cand, w) /\ h[m].workflow = w
  BY <1>2 DEF RequiredResults, OfCurrent, Evidence
<1>4. IsFiniteSet(R) /\ Cardinality(R) \in Nat
  BY ResultsFinite
<1>5. IsFiniteSet(req) /\ Cardinality(req) \in Nat
  <2>1. IsFiniteSet(req)
    BY DeclaredWorkflows, FS_Subset
  <2> QED
    BY <2>1, FS_CardinalityType
<1>6. Cardinality(req) <= Cardinality(R)
  <2> SUFFICES ASSUME Cardinality(R) < Cardinality(req) PROVE FALSE
    BY <1>4, <1>5
  <2>1. one \in [req -> R] /\ \A w \in req : h[one[w]].workflow = w
    <3> SUFFICES ASSUME NEW w \in req PROVE one[w] \in R /\ h[one[w]].workflow = w
      OBVIOUS
    <3>1. one[w] \in Evidence(h, h[n].cand, w)
      BY <1>1
    <3>2. h[one[w]].workflow = w
      BY <3>1 DEF Evidence
    <3> QED
      BY <1>3, <3>1, <3>2
  <2> HIDE DEF one, R
  <2>2. \E w, x \in req : w # x /\ one[w] = one[x]
    BY <1>4, <1>5, <2>1, FS_PigeonHole
  <2> QED
    BY <2>1, <2>2
<1>7. Cardinality(req) # 0
  BY <1>1, <1>5, FS_EmptySet
<1>8. \A m \in R : h[m].status = "PASS"
  BY <1>1, <1>3
<1>9. s.evidence_count = Cardinality(R)
  BY DEF Tracks, ShowsEvidence
<1>10. s.evidence_count # 0 /\ s.evidence_count >= Cardinality(req)
  BY <1>4, <1>5, <1>6, <1>7, <1>9
<1>11. s.evidence = "PASS"
  BY <1>8, <1>10 DEF Tracks, ShowsEvidence
<1> QED
  BY <1>10, <1>11

\* The stage of an undisposed candidate without a bundle is one it can be
\* rejected at.
LEMMA UndisposedStage ==
    ASSUME NEW h, NEW s, NEW req, NEW n, Tracks(h, s, req), s.lineage_ok,
           s.disposition = "undisposed", CurrentId(h) # {}
    PROVE  project_stage(s, n, FALSE) = undisposed_stage(s, n)
<1>1. s.current_candidate # {} /\ s.active_epoch # {} /\ ~s.frozen /\ ~s.evaluated
  <2>1. ActiveEpoch(h) # {}
    <3>1. CurrentCandidate(h) \subseteq ActiveCandidates(h)
      BY LatestIn DEF CurrentCandidate
    <3> QED
      BY <3>1 DEF CurrentId, ActiveCandidates
  <2> QED
    BY <2>1 DEF Tracks, ShowsLineage, ShowsDecisions
<1> QED
  BY <1>1 DEF project_stage, Zero

\* The preflight grants what the projected stage was derived from.
LEMMA PreflightGrants ==
    ASSUME TypeOK, CandidateOnce, Registered(history), NEW v \in View, NEW a, NEW m, NEW o,
           o \in Ops, m \in {"development", "evaluator"},
           NativeAuthorized(o, m, history, v, a,
                            With(NativeProjection(history, v), [preflight |-> FALSE])),
           o # "bundle" \/ FreezeBacked
    PROVE  NativeAuthorized(o, m, history, v, a, NativeProjection(history, v))
<1> DEFINE h == history
           q == NativeProjection(h, v)
           u == With(q, [preflight |-> FALSE])
           s == q.projection
           req == Required[v.policy]
           bundled == OfCurrent(h, "bundle") # {}
<1>h. h \in Seq(ForgeRecord)
  BY DEF TypeOK
<1>r. req \in SUBSET Workflows
  BY RequiredType DEF View
<1>u. /\ u.projection = s /\ u.freshness = q.freshness /\ u.stage = q.stage
      /\ u.event_count = q.event_count /\ u.preflight = FALSE
  BY DEF NativeProjection, project, With
<1>t. /\ s \in Projections /\ s.lineage_ok /\ Tracks(h, s, req)
      /\ q.stage = project_stage(s, Cardinality(req), bundled)
  <2>1. Answers(u, h, v)
    BY BothAnswer
  <2> HIDE DEF u, q
  <2> QED
    BY <1>u, <2>1, NativeToHost DEF u, q
<1>k. /\ DispositionStatus(h) = s.disposition /\ Freeze(h) = OfCurrent(h, "freeze")
      /\ s.active_epoch = ActiveEpoch(h) /\ s.current_candidate = CurrentId(h)
      /\ (s.frozen <=> Freeze(h) # {}) /\ (s.evaluated => s.frozen)
  <2>1. /\ DispositionStatus(h) = s.disposition /\ Freeze(h) = OfCurrent(h, "freeze")
        /\ s.active_epoch = ActiveEpoch(h) /\ s.current_candidate = CurrentId(h)
    BY <1>t, TrackedHost
  <2> QED
    BY <1>t, <2>1 DEF Tracks, ShowsDecisions
<1>e. CurrentId(h) # {} => ActiveEpoch(h) # {}
  <2>1. CurrentCandidate(h) \subseteq ActiveCandidates(h)
    BY LatestIn DEF CurrentCandidate
  <2> QED
    BY <2>1 DEF CurrentId, ActiveCandidates
<1>un. NativeUnambiguous(h, v, u) => NativeUnambiguous(h, v, q)
  BY <1>u DEF NativeUnambiguous, Projects
<1>rc. ASSUME NEW c, NativeRequireCandidate(h, u, c) PROVE NativeRequireCandidate(h, q, c)
  BY <1>u, <1>rc DEF NativeRequireCandidate
<1> HIDE DEF u, q, s, req, bundled
<1>1. CASE o = "begin_epoch"
  <2>1. NativeEpochBegin(h, v, u, a.epoch)
    BY <1>1 DEF NativeAuthorized, u, q
  <2>2. ActiveEpoch(h) = {} => native_transition(q, "BeginEpoch", "UNKNOWN", "EpochActive", "PASS", 0)
    <3> SUFFICES ASSUME ActiveEpoch(h) = {}
                 PROVE  native_transition(q, "BeginEpoch", "UNKNOWN", "EpochActive", "PASS", 0)
      OBVIOUS
    <3>1. q.stage = "NoEpoch"
      BY <1>t, <1>k DEF project_stage, Zero
    <3> QED
      BY <3>1 DEF native_transition, lifecycle_preflight, apply
  <2>3. NativeEpochBegin(h, v, q, a.epoch)
    BY <1>un, <2>1, <2>2 DEF NativeEpochBegin
  <2> QED
    BY <1>1, <2>3 DEF NativeAuthorized, q
<1>2. CASE o \in {"register", "refresh"}
  <2>1. NativeCandidateRegister(h, v, u, a.cand, v.content)
    BY <1>2 DEF NativeAuthorized, u, q
  <2>2. CurrentId(h) = {} =>
          native_transition(q, "RegisterCandidate", "UNKNOWN", "CandidateRegistered", "UNKNOWN", 0)
    <3> SUFFICES ASSUME CurrentId(h) = {}
                 PROVE  native_transition(q, "RegisterCandidate", "UNKNOWN",
                                          "CandidateRegistered", "UNKNOWN", 0)
      OBVIOUS
    <3>1. ActiveEpoch(h) # {}
      BY <2>1 DEF NativeCandidateRegister
    <3>2. q.stage = "EpochActive"
      BY <1>t, <1>k, <3>1 DEF project_stage, Zero
    <3> QED
      BY <3>2 DEF native_transition, lifecycle_preflight, apply
  <2>3. NativeCandidateRegister(h, v, q, a.cand, v.content)
    BY <1>un, <2>1, <2>2 DEF NativeCandidateRegister
  <2> QED
    BY <1>2, <2>3 DEF NativeAuthorized, q
<1>3. CASE o = "check"
  <2>1. NativeDevelopmentWork(h, v, u, a.cand)
    BY <1>3 DEF NativeAuthorized, u, q
  <2>2. NativeDevelopmentWork(h, v, q, a.cand)
    BY <1>un, <1>rc, <2>1 DEF NativeDevelopmentWork
  <2> QED
    BY <1>3, <2>2 DEF NativeAuthorized, q
<1>4. CASE o \in {"selected", "rejected"}
  <2>1. NativeCandidateDisposition(h, v, u, a.cand, o)
    BY <1>4 DEF NativeAuthorized, u, q
  <2>2. /\ s.disposition = "undisposed" /\ NativeRequireCandidate(h, u, a.cand)
        /\ CurrentId(h) # {}
    BY <1>u, <2>1 DEF NativeCandidateDisposition, NativeRequireCandidate
  <2>3. q.stage = IF bundled THEN "BundleComplete" ELSE undisposed_stage(s, Cardinality(req))
    <3>1. CASE bundled
      BY <1>t, <1>k, <1>e, <2>2, <3>1 DEF project_stage, Zero
    <3>2. CASE ~bundled
      <4>1. q.stage = project_stage(s, Cardinality(req), FALSE)
        BY <1>t, <3>2 DEF project_stage
      <4> QED
        BY <1>t, <2>2, <3>2, <4>1, UndisposedStage
    <3> QED
      BY <3>1, <3>2
  <2>4. CASE o = "selected"
    <3>1. ASSUME NEW n \in CurrentCandidate(h)
          PROVE  /\ NativeReady(h, n, req, v)
                 /\ native_transition(q, "SelectCandidate", "PASS", "CandidateSelected", "PASS", 0)
      <4>1. NativeReady(h, n, req, v)
        BY <2>1, <2>4 DEF NativeCandidateDisposition, req
      <4>2. Ready(h, n, req, v)
        BY <1>r, <4>1, NativeIsReady DEF req
      <4>3. s.evidence_count # 0 /\ s.evidence_count >= Cardinality(req) /\ s.evidence = "PASS"
        BY <1>h, <1>r, <1>t, <2>2, <4>2, ReadyEvidence
      <4>4. q.stage \in {"BundleComplete", "CandidateReady"}
        BY <2>3, <4>3 DEF undisposed_stage
      <4> QED
        BY <4>1, <4>4 DEF native_transition, lifecycle_preflight, apply
    <3>2. NativeCandidateDisposition(h, v, q, a.cand, "selected")
      BY <1>un, <1>rc, <2>1, <2>2, <3>1 DEF NativeCandidateDisposition, req, s
    <3> QED
      BY <2>4, <3>2 DEF NativeAuthorized, q
  <2>5. CASE o = "rejected"
    <3>1. q.stage \in {"BundleComplete", "CandidateRegistered", "CandidateReady", "EvidenceIncomplete"}
      BY <2>3 DEF undisposed_stage
    <3>2. \A r : native_transition(q, "RejectCandidate", r, "CandidateRejected", "FAIL", 9)
      BY <3>1 DEF native_transition, lifecycle_preflight, apply
    <3>3. NativeCandidateDisposition(h, v, q, a.cand, "rejected")
      BY <1>un, <1>rc, <2>1, <2>2, <2>5, <3>2 DEF NativeCandidateDisposition, s
    <3> QED
      BY <2>5, <3>3 DEF NativeAuthorized, q
  <2> QED
    BY <1>4, <2>4, <2>5
<1>5. CASE o = "freeze"
  <2>1. NativeCandidateFreeze(h, v, u, a.cand, v.plan)
    BY <1>5 DEF NativeAuthorized, u, q
  <2>2. /\ s.disposition = "selected" /\ Freeze(h) = {} /\ CurrentId(h) # {}
    BY <1>u, <2>1 DEF NativeCandidateFreeze, NativeRequireCandidate
  <2>3. q.stage \in {"BundleComplete", "CandidateSelected"}
    BY <1>t, <1>k, <1>e, <2>2 DEF project_stage, Zero
  <2>4. native_transition(q, "FreezeCandidate", "PASS", "CandidateFrozen", "PASS", 0)
    BY <2>3 DEF native_transition, lifecycle_preflight, apply
  <2>5. NativeCandidateFreeze(h, v, q, a.cand, v.plan)
    BY <1>un, <1>rc, <2>1, <2>2, <2>4 DEF NativeCandidateFreeze, s
  <2> QED
    BY <1>5, <2>5 DEF NativeAuthorized, q
<1>6. CASE o = "evaluate"
  <2>1. NativeEvaluatorEntry(h, v, u, a.cand)
    BY <1>6 DEF NativeAuthorized, u, q
  <2>2. NativeEvaluatorEntry(h, v, q, a.cand)
    BY <1>un, <1>rc, <1>u, <2>1 DEF NativeEvaluatorEntry, s
  <2> QED
    BY <1>6, <2>2 DEF NativeAuthorized, q
<1>7. CASE o = "bundle"
  <2>1. NativeBundle(h, v, u, a.cand, m)
    BY <1>7 DEF NativeAuthorized, u, q
  <2>2. NativeBundle(h, v, q, a.cand, m)
    BY <1>un, <1>rc, <1>u, <2>1 DEF NativeBundle, bundle_preconditions, s
  <2> QED
    BY <1>7, <2>2 DEF NativeAuthorized, q
<1> QED
  BY <1>1, <1>2, <1>3, <1>4, <1>5, <1>6, <1>7 DEF Ops, DevelopmentOps, EvaluatorOps
-----------------------------------------------------------------------------
(* Freezes: any processes, any adapter.                                    *)

\* A projected status is that of the one disposition there is.
LEMMA StatusOf ==
    ASSUME NEW h, NEW n \in Disposition(h), DispositionStatus(h) \in {"selected", "rejected"}
    PROVE  h[n].disposition = DispositionStatus(h)
<1>1. AtMostOne(OfCurrent(h, "disposition")) /\ Disposition(h) = OfCurrent(h, "disposition")
  BY DEF Disposition, OnlyOne
<1>2. \A m \in Disposition(h) : m = n
  BY <1>1 DEF AtMostOne
<1>3. (CHOOSE m \in Disposition(h) : TRUE) = n
  BY <1>2
<1>4. OfCurrent(h, "disposition") # {}
  BY <1>1
<1> QED
  BY <1>1, <1>3, <1>4 DEF DispositionStatus

LEMMA FreezesWhenAuthorized ==
    ASSUME TypeOK, CandidateOnce, Registered(history), NEW p \in Procs, NEW e, Authorizes(p, e)
    PROVE  Freezes(history, e)
<1> SUFFICES ASSUME e.kind = "freeze" PROVE Freezes(history, e)
  BY DEF Freezes
<1>h. history \in Seq(ForgeRecord)
  BY DEF TypeOK
<1>1. PICK v \in View : MachineAuthorizes(p, history, v) /\ e \in Drafts(op[p], history, v)
  BY DEF Authorizes
<1>2. op[p] = "freeze"
  <2>1. op[p] \in Ops
    BY DEF Authorizes, OpsOf, Ops
  <2>2. e.kind = KindOf(op[p])
    BY <1>1, <2>1, DraftKinds
  <2> QED
    BY <2>2 DEF KindOf
<1>3. PICK d \in Disposition(history) :
        e = [kind |-> "freeze", cand |-> history[d].cand, auth |-> v.auth, plan |-> v.plan,
             selection |-> d]
  BY <1>1, <1>2 DEF Drafts
<1>4. AuthorizeCandidateFreeze(history, v, named[p].cand, v.plan)
  <2>1. Authorized(op[p], Mode[p], history, v, named[p])
    BY <1>1, <1>2, HostAuthorizes DEF Ops, DevelopmentOps
  <2> QED
    BY <1>2, <2>1 DEF Authorized
<1>5. DispositionStatus(history) = "selected"
  BY <1>4 DEF AuthorizeCandidateFreeze
<1>6. d \in Positions(history, "disposition")
  BY <1>h, ProjectionTypes
<1>7. history[d].disposition = "selected"
  BY <1>5, StatusOf
<1>8. e.selection = d /\ e.cand = history[d].cand
  BY <1>3
<1> QED
  BY <1>6, <1>7, <1>8 DEF Freezes

LEMMA FreezesGrows ==
    ASSUME NEW h, NEW d, NEW g, Grows(g, h, d), NEW e, Freezes(h, e)
    PROVE  Freezes(g, e)
<1>1. \A k, n : n \in Positions(h, k) => n \in Positions(g, k) /\ g[n] = h[n]
  BY DEF Grows
<1> QED
  BY <1>1 DEF Freezes

LEMMA FreezesSame ==
    ASSUME NEW h, NEW d, NEW e, SameDraft(e, d), Freezes(h, d)
    PROVE  Freezes(h, e)
  BY DEF SameDraft, Freezes

LEMMA FreezeStep ==
    ASSUME TypeOK, Shaped, CandidateOnce, BindingInvariant, FreezeInvariant, [Next]_vars
    PROVE  FreezeInvariant'
<1>t. history \in Seq(ForgeRecord) /\ draft \in [Procs -> SUBSET ForgeRecord]
  BY DEF TypeOK
<1>i. (\A p \in Procs : \A d \in draft[p] : Freezes(history, d)) /\ FreezeBacked
  BY DEF FreezeInvariant
<1>1. ASSUME history' = history,
             \A q \in Procs : \A e \in draft'[q] :
                 (\E d \in draft[q] : SameDraft(e, d)) \/ Authorizes(q, e)
      PROVE  FreezeInvariant'
  <2>1. ASSUME NEW q \in Procs, NEW e \in draft'[q] PROVE Freezes(history, e)
    BY <1>i, <1>1, FreezesSame, FreezesWhenAuthorized DEF BindingInvariant
  <2>2. FreezeBacked'
    BY <1>i, <1>1 DEF FreezeBacked
  <2> QED
    BY <1>1, <2>1, <2>2 DEF FreezeInvariant
<1>2. ASSUME NEW p \in Procs, NEW d \in ForgeRecord, Commits(p, d)
      PROVE  FreezeInvariant'
  <2> DEFINE N == Len(history) + 1
  <2>c. /\ history' = Append(history, d) /\ d \in draft[p]
        /\ \A q \in Procs \ {p} : draft'[q] = draft[q]
        /\ \A e \in draft'[p] : SameDraft(e, d)
    BY <1>2 DEF Commits
  <2>0. Grows(history', history, d)
    BY <1>t, <2>c, Appended, Zenon
  <2>a. /\ Len(history) \in Nat /\ history'[N] = d
        /\ \A k : Positions(history', k) = Positions(history, k)
                      \cup (IF d.kind = k THEN {N} ELSE {})
        /\ \A k, n : n \in Positions(history, k) =>
              n \in 1..Len(history) /\ n \in Positions(history', k) /\ history'[n] = history[n]
    BY <2>0 DEF Grows
  <2>1. ASSUME NEW q \in Procs, NEW e \in draft'[q] PROVE Freezes(history', e)
    <3>1. Freezes(history, e)
      <4>1. CASE q = p
        <5>1. SameDraft(e, d) /\ Freezes(history, d)
          BY <1>i, <2>1, <2>c, <4>1
        <5> QED
          BY <5>1, FreezesSame
      <4>2. CASE q # p
        BY <1>i, <2>1, <2>c, <4>2
      <4> QED
        BY <4>1, <4>2
    <3> QED
      BY <2>0, <3>1, FreezesGrows
  <2>2. FreezeBacked'
    <3> SUFFICES ASSUME NEW n \in Positions(history', "freeze")
                 PROVE  /\ history'[n].selection \in Earlier(Positions(history', "disposition"), n)
                        /\ history'[history'[n].selection].disposition = "selected"
                        /\ history'[history'[n].selection].cand = history'[n].cand
      BY DEF FreezeBacked
    <3>1. CASE n \in Positions(history, "freeze")
      <4>1. history'[n] = history[n]
        BY <2>a, <3>1
      <4>2. /\ history[n].selection \in Earlier(Positions(history, "disposition"), n)
            /\ history[history[n].selection].disposition = "selected"
            /\ history[history[n].selection].cand = history[n].cand
        BY <1>i, <3>1 DEF FreezeBacked
      <4> QED
        BY <2>a, <4>1, <4>2 DEF Earlier
    <3>2. CASE n \notin Positions(history, "freeze")
      <4>1. n = N /\ d.kind = "freeze" /\ history'[n] = d
        BY <2>a, <3>2
      <4>2. Freezes(history, d)
        BY <1>i, <2>c
      <4>3. /\ d.selection \in Positions(history, "disposition")
            /\ history[d.selection].disposition = "selected"
            /\ history[d.selection].cand = d.cand
        BY <4>1, <4>2 DEF Freezes
      <4>4. d.selection \in 1..Len(history) /\ d.selection < N
        BY <2>a, <4>3
      <4> QED
        BY <2>a, <4>1, <4>3, <4>4 DEF Earlier
    <3> QED
      BY <3>1, <3>2
  <2> QED
    BY <2>1, <2>2 DEF FreezeInvariant
<1> QED
  BY <1>1, <1>2, StepShape

\* What the freeze theorem below follows from.
THEOREM ControlFreezes == Spec => []FreezeInvariant
<1>1. Init => FreezeInvariant
  BY DEF Init, FreezeInvariant, FreezeBacked, Positions
<1>2. TypeOK /\ Shaped /\ CandidateOnce /\ BindingInvariant /\ FreezeInvariant /\ [Next]_vars
        => FreezeInvariant'
  BY FreezeStep
<1> QED
  BY <1>1, <1>2, ControlTypes, ControlCandidateOnce, ControlBindings, PTL DEF Spec

\* A committed freeze binds an earlier selection of its own candidate.
THEOREM ControlFreezeBacked == Spec => []FreezeBacked
<1>1. FreezeInvariant => FreezeBacked
  BY DEF FreezeInvariant
<1> QED
  BY <1>1, ControlFreezes, PTL

-----------------------------------------------------------------------------
(* Reported evaluations: any processes, any adapter, and a tree that does  *)
(* not return to an identity it had before.                                *)

LEMMA AdmittedWhenAuthorized ==
    ASSUME TypeOK, NEW p \in Procs, NEW e, Authorizes(p, e)
    PROVE  Admitted(history, e)
<1> SUFFICES ASSUME e.kind = "evaluation" PROVE Admitted(history, e)
  BY DEF Admitted
<1>h. history \in Seq(ForgeRecord)
  BY DEF TypeOK
<1>1. PICK v \in View : MachineAuthorizes(p, history, v) /\ e \in Drafts(op[p], history, v)
  BY DEF Authorizes
<1>2. op[p] = "evaluate"
  <2>1. op[p] \in Ops
    BY DEF Authorizes, OpsOf, Ops
  <2>2. e.kind = KindOf(op[p])
    BY <1>1, <2>1, DraftKinds
  <2> QED
    BY <2>2 DEF KindOf
<1>3. PICK f \in Freeze(history) :
        e = [kind |-> "evaluation", cand |-> history[f].cand, status |-> "UNKNOWN",
             freeze |-> f, ran |-> v.content, ranAuth |-> v.auth]
  BY <1>1, <1>2 DEF Drafts
<1>4. f \in Positions(history, "freeze")
  BY <1>h, ProjectionTypes
<1>5. e.freeze = f /\ e.cand = history[f].cand
  BY <1>3
<1> QED
  BY <1>4, <1>5 DEF Admitted

LEMMA AdmittedGrows ==
    ASSUME NEW h, NEW d, NEW g, Grows(g, h, d), NEW e, Admitted(h, e)
    PROVE  Admitted(g, e)
<1>1. \A k, n : n \in Positions(h, k) => n \in Positions(g, k) /\ g[n] = h[n]
  BY DEF Grows
<1> QED
  BY <1>1 DEF Admitted

LEMMA AdmittedSame ==
    ASSUME NEW h, NEW d, NEW e, SameDraft(e, d), Admitted(h, d)
    PROVE  Admitted(h, e)
  BY DEF SameDraft, Admitted

\* A process that did not move, in a history that only grew.
LEMMA Unmoved ==
    ASSUME NEW q \in Procs, Witnessed(q), Recorded(q), UNCHANGED <<tree, used>>,
           pc'[q] = pc[q], op'[q] = op[q], seen'[q] = seen[q], draft'[q] = draft[q],
           gen'[q] = gen[q],
           history' = history \/ \E d : Grows(history', history, d)
    PROVE  Witnessed(q)' /\ Recorded(q)'
<1>1. Witnessed(q)'
  BY DEF Witnessed
<1>2. ASSUME NEW n \in 1..Len(history)
      PROVE  n \in 1..Len(history') /\ history'[n] = history[n]
  BY DEF Grows
<1>3. Recorded(q)'
  BY <1>2 DEF Recorded
<1> QED
  BY <1>1, <1>3

\* A process that returned.
LEMMA Returned ==
    ASSUME TypeOK, NEW p \in Procs, End(p)
    PROVE  /\ Witnessed(p)' /\ Recorded(p)'
           /\ \A q \in Procs \ {p} : /\ pc'[q] = pc[q] /\ op'[q] = op[q] /\ seen'[q] = seen[q]
                                     /\ draft'[q] = draft[q] /\ gen'[q] = gen[q]
<1>1. pc'[p] = "idle" /\ op'[p] = "none"
  BY DEF TypeOK, End
<1>2. Witnessed(p)' /\ Recorded(p)'
  BY <1>1 DEF Witnessed, Recorded
<1>3. \A q \in Procs \ {p} : /\ pc'[q] = pc[q] /\ op'[q] = op[q] /\ seen'[q] = seen[q]
                             /\ draft'[q] = draft[q] /\ gen'[q] = gen[q]
  BY DEF TypeOK, End
<1> QED
  BY <1>2, <1>3

\* An edit leaves an identity for good.
LEMMA EditWitnessed ==
    ASSUME ~Restore, TypeOK, Edit, NEW q \in Procs, Witnessed(q), Recorded(q)
    PROVE  Witnessed(q)' /\ Recorded(q)'
<1>1. UNCHANGED <<history, pc, op, seen, draft, gen>>
  BY DEF Edit, locals
<1>2. PICK v \in View : /\ ({v.content, v.auth} \ {tree.content, tree.auth}) \cap used = {}
                        /\ tree' = v /\ used' = used \cup {v.content, v.auth}
  BY DEF Edit
<1>3. v.content # tree.auth /\ v.auth # tree.content
  BY ControlConstants DEF View, TypeOK
<1>4. /\ v.content # tree.content => v.content \notin used
      /\ v.auth # tree.auth => v.auth \notin used
  BY <1>2, <1>3
<1>5. Witnessed(q)'
  <2> SUFFICES ASSUME op[q] = "evaluate"
               PROVE  /\ \A s \in seen[q] : s.content \in used' /\ s.auth \in used'
                      /\ pc[q] \in {"commit", "put", "verify"} => \A s \in seen[q], d \in draft[q] :
                           /\ s.content = v.content => d.ran = v.content
                           /\ s.auth = v.auth => d.ranAuth = v.auth
                      /\ pc[q] \in {"observe", "execute", "commit", "put", "verify"} => seen[q] # {}
    BY <1>1, <1>2 DEF Witnessed
  <2>1. /\ \A s \in seen[q] : s.content \in used /\ s.auth \in used
        /\ pc[q] \in {"commit", "put", "verify"} => \A s \in seen[q], d \in draft[q] :
             /\ s.content = tree.content => d.ran = tree.content
             /\ s.auth = tree.auth => d.ranAuth = tree.auth
        /\ pc[q] \in {"observe", "execute", "commit", "put", "verify"} => seen[q] # {}
    BY DEF Witnessed
  <2> QED
    BY <1>2, <1>4, <2>1
<1>6. Recorded(q)'
  BY <1>1 DEF Recorded
<1> QED
  BY <1>5, <1>6

\* One process moved: what it knows, and what the others still do.
LEMMA MovedWitnessed ==
    ASSUME TypeOK, Shaped, tree.content \in used, tree.auth \in used,
           \A q \in Procs : Witnessed(q) /\ Recorded(q),
           NEW p \in Procs,
           \/ \E o \in Ops : Call(p, o)
           \/ Authorize(p) \/ Observe(p) \/ Execute(p) \/ ReadGeneration(p) \/ Put(p)
           \/ VerifyEvaluation(p)
    PROVE  \A q \in Procs : Witnessed(q)' /\ Recorded(q)'
<1>t. /\ pc \in [Procs -> PCs] /\ op \in [Procs -> Ops \cup {"none"}]
      /\ seen \in [Procs -> SUBSET View] /\ draft \in [Procs -> SUBSET ForgeRecord]
      /\ gen \in [Procs -> Nat] /\ history \in Seq(ForgeRecord)
  BY DEF TypeOK, PCs, Ops
<1> DEFINE Others == \A q \in Procs \ {p} : /\ pc'[q] = pc[q] /\ op'[q] = op[q] /\ seen'[q] = seen[q]
                                            /\ draft'[q] = draft[q] /\ gen'[q] = gen[q]
           Done == Witnessed(p)' /\ Recorded(p)'
<1>o. ASSUME Others, UNCHANGED <<tree, used>>,
             history' = history \/ \E d : Grows(history', history, d),
             Done
      PROVE  \A q \in Procs : Witnessed(q)' /\ Recorded(q)'
  <2> SUFFICES ASSUME NEW q \in Procs PROVE Witnessed(q)' /\ Recorded(q)'
    OBVIOUS
  <2>1. CASE q = p
    BY <1>o, <2>1
  <2>2. CASE q # p
    BY <1>o, <2>2, Unmoved
  <2> QED
    BY <2>1, <2>2
<1>e. ASSUME End(p) PROVE Others /\ Done
  BY <1>e, Returned
<1>w. Witnessed(p) /\ Recorded(p)
  OBVIOUS
<1>1. ASSUME NEW o \in Ops, Call(p, o) PROVE \A q \in Procs : Witnessed(q)' /\ Recorded(q)'
  <2>1. UNCHANGED <<tree, used>> /\ history' = history
    BY <1>1 DEF Call, env
  <2>2. Others /\ seen'[p] = {tree} /\ pc'[p] = "authorize"
    BY <1>1, <1>t DEF Call
  <2>3. Done
    BY <2>1, <2>2 DEF Witnessed, Recorded
  <2> QED
    BY <1>o, <2>1, <2>2, <2>3
<1>2. ASSUME Authorize(p) PROVE \A q \in Procs : Witnessed(q)' /\ Recorded(q)'
  <2>1. UNCHANGED <<tree, used>> /\ history' = history
    BY <1>2 DEF Authorize, env
  <2>2. CASE End(p)
    BY <1>o, <1>e, <2>1, <2>2
  <2>3. CASE ~End(p)
    <3>1. PICK s \in seen[p] :
            /\ \E d \in Drafts(op[p], history, MachineView(p, s)) : draft' = [draft EXCEPT ![p] = {d}]
            /\ pc' = [pc EXCEPT ![p] = AfterAuthorize(op[p])]
            /\ UNCHANGED <<op, named, seen, gen>>
      BY <1>2, <2>3 DEF Authorize
    <3>2. PICK d : draft' = [draft EXCEPT ![p] = {d}]
      BY <3>1
    <3>3. Others /\ pc'[p] = AfterAuthorize(op[p]) /\ op'[p] = op[p] /\ seen'[p] = seen[p]
      BY <1>t, <3>1, <3>2
    <3>4. op[p] = "evaluate" => pc'[p] = "observe"
      BY <3>3 DEF AfterAuthorize
    <3>5. pc'[p] # "verify"
      BY <3>3 DEF AfterAuthorize
    <3>6. Done
      BY <1>w, <2>1, <3>1, <3>3, <3>4, <3>5 DEF Witnessed, Recorded
    <3> QED
      BY <1>o, <2>1, <3>3, <3>6
  <2> QED
    BY <2>2, <2>3
<1>3. ASSUME Observe(p) PROVE \A q \in Procs : Witnessed(q)' /\ Recorded(q)'
  <2>1. UNCHANGED <<tree, used, op, gen>> /\ history' = history
    BY <1>3 DEF Observe, env
  <2>2. PICK d \in draft[p] :
         IF d.kind = "evaluation"
           THEN /\ seen' = [seen EXCEPT ![p] = {tree}]
                /\ pc' = [pc EXCEPT ![p] = "execute"]
                /\ UNCHANGED draft
           ELSE /\ \E e : draft' = [draft EXCEPT ![p] = {e}]
                /\ pc' = [pc EXCEPT ![p] = "commit"]
                /\ UNCHANGED seen
    BY <1>3 DEF Observe
  <2>3. CASE d.kind = "evaluation"
    <3>1. Others /\ seen'[p] = {tree} /\ pc'[p] = "execute"
      BY <1>t, <2>1, <2>2, <2>3
    <3>2. Done
      BY <2>1, <3>1 DEF Witnessed, Recorded
    <3> QED
      BY <1>o, <2>1, <3>1, <3>2
  <2>4. CASE d.kind # "evaluation"
    <3>1. PICK e : draft' = [draft EXCEPT ![p] = {e}]
      BY <2>2, <2>4
    <3>2. Others /\ pc'[p] = "commit"
      BY <1>t, <2>1, <2>2, <2>4, <3>1
    <3>3. op[p] # "evaluate"
      BY <2>2, <2>4 DEF Shaped, KindOf
    <3>4. Done
      BY <2>1, <3>2, <3>3 DEF Witnessed, Recorded
    <3> QED
      BY <1>o, <2>1, <3>2, <3>4
  <2> QED
    BY <2>3, <2>4
<1>4. ASSUME Execute(p) PROVE \A q \in Procs : Witnessed(q)' /\ Recorded(q)'
  <2>1. UNCHANGED <<tree, used>> /\ history' = history /\ pc[p] = "execute"
    BY <1>4 DEF Execute, env
  <2>2. CASE End(p)
    BY <1>o, <1>e, <2>1, <2>2
  <2>3. CASE ~End(p)
    <3>1. PICK d \in draft[p], s \in Statuses :
          draft' = [draft EXCEPT ![p] =
            {IF d.kind = "result" THEN With(d, [status |-> s])
             ELSE IF d.kind = "evaluation"
               THEN With(d, [status |-> s, ran |-> tree.content, ranAuth |-> tree.auth])
             ELSE d}]
      BY <1>4, <2>3 DEF Execute
    <3>2. pc' = [pc EXCEPT ![p] = "commit"] /\ UNCHANGED <<op, named, seen, gen>>
      BY <1>4, <2>3 DEF Execute
    <3> DEFINE e == IF d.kind = "result" THEN With(d, [status |-> s])
                    ELSE IF d.kind = "evaluation"
                      THEN With(d, [status |-> s, ran |-> tree.content, ranAuth |-> tree.auth])
                    ELSE d
    <3>3. op[p] = "evaluate" => e.ran = tree.content /\ e.ranAuth = tree.auth
      <4> SUFFICES ASSUME op[p] = "evaluate"
                   PROVE  e.ran = tree.content /\ e.ranAuth = tree.auth
        OBVIOUS
      <4>1. d.kind = "evaluation"
        BY <3>1 DEF Shaped, KindOf
      <4>2. d \in EvaluationRecord
        BY <1>t, <4>1, RecordForms
      <4>3. e = With(d, [status |-> s, ran |-> tree.content, ranAuth |-> tree.auth])
        BY <4>1
      <4> QED
        BY <4>2, <4>3 DEF With, EvaluationRecord
    <3>4. draft' = [draft EXCEPT ![p] = {e}]
      BY <3>1
    <3> HIDE DEF e
    <3>5. Others /\ draft'[p] = {e} /\ pc'[p] = "commit" /\ op'[p] = op[p] /\ seen'[p] = seen[p]
      BY <1>t, <3>2, <3>4
    <3>6. Done
      BY <1>w, <2>1, <3>3, <3>5 DEF Witnessed, Recorded
    <3> QED
      BY <1>o, <2>1, <3>5, <3>6
  <2> QED
    BY <2>2, <2>3
<1>5. ASSUME ReadGeneration(p) PROVE \A q \in Procs : Witnessed(q)' /\ Recorded(q)'
  <2>1. UNCHANGED <<tree, used, op, seen, draft>> /\ history' = history /\ pc[p] = "commit"
    BY <1>5 DEF ReadGeneration, env
  <2>2. Others /\ pc'[p] = "put"
    BY <1>t, <1>5, <2>1 DEF ReadGeneration
  <2>3. Done
    BY <1>w, <2>1, <2>2 DEF Witnessed, Recorded
  <2> QED
    BY <1>o, <2>1, <2>2, <2>3
<1>6. ASSUME Put(p) PROVE \A q \in Procs : Witnessed(q)' /\ Recorded(q)'
  <2>1. UNCHANGED <<tree, used>> /\ pc[p] = "put"
    BY <1>6 DEF Put, env
  <2>2. PICK d \in draft[p] :
         IF gen[p] # Len(history) \/ IdentityConflict(history, d)
           THEN End(p) /\ UNCHANGED history
           ELSE /\ history' = Append(history, d)
                /\ IF d.kind = "evaluation"
                     THEN /\ pc' = [pc EXCEPT ![p] = "verify"]
                          /\ UNCHANGED <<op, named, seen, draft, gen>>
                     ELSE End(p) \/ NextWorkflow(p, d)
    BY <1>6 DEF Put
  <2>3. d \in ForgeRecord /\ d.kind = KindOf(op[p]) /\ \A e \in draft[p] : e = d
    BY <1>t, <2>2 DEF Shaped
  <2>4. CASE gen[p] # Len(history) \/ IdentityConflict(history, d)
    BY <1>o, <1>e, <2>1, <2>2, <2>4
  <2>5. CASE ~(gen[p] # Len(history) \/ IdentityConflict(history, d))
    <3>0. history' = Append(history, d)
      BY <2>2, <2>5
    <3>1. Grows(history', history, d)
      BY <1>t, <2>3, <3>0, Appended, Zenon
    <3>2. CASE d.kind = "evaluation"
      <4>1. pc' = [pc EXCEPT ![p] = "verify"] /\ UNCHANGED <<op, named, seen, draft, gen>>
        BY <2>2, <2>5, <3>2
      <4>2. Others /\ pc'[p] = "verify"
        BY <1>t, <4>1
      <4>3. gen[p] + 1 = Len(history) + 1 /\ gen[p] + 1 \in 1..Len(history')
            /\ history'[gen[p] + 1] = d
        BY <2>5, <3>1 DEF Grows
      <4>4. Recorded(p)'
        BY <2>2, <2>3, <4>1, <4>3 DEF Recorded
      <4>5. Witnessed(p)'
        BY <1>w, <2>1, <4>1, <4>2 DEF Witnessed
      <4> QED
        BY <1>o, <2>1, <3>1, <4>2, <4>4, <4>5
    <3>3. CASE End(p)
      BY <1>o, <1>e, <2>1, <3>1, <3>3
    <3>4. CASE NextWorkflow(p, d)
      <4>1. PICK w \in Workflows : draft' = [draft EXCEPT ![p] = {With(d, [workflow |-> w])}]
        BY <3>4 DEF NextWorkflow
      <4>2. d.kind = "result" /\ pc' = [pc EXCEPT ![p] = "execute"] /\ UNCHANGED <<op, named, seen, gen>>
        BY <3>4 DEF NextWorkflow
      <4>3. Others /\ pc'[p] = "execute" /\ op'[p] # "evaluate"
        BY <1>t, <2>3, <4>1, <4>2 DEF KindOf
      <4>4. Done
        BY <4>3 DEF Witnessed, Recorded
      <4> QED
        BY <1>o, <2>1, <3>1, <4>3, <4>4
    <3> QED
      BY <2>2, <2>5, <3>2, <3>3, <3>4
  <2> QED
    BY <2>4, <2>5
<1>7. ASSUME VerifyEvaluation(p) PROVE \A q \in Procs : Witnessed(q)' /\ Recorded(q)'
  <2>1. UNCHANGED <<tree, used>> /\ history' = history
    BY <1>7 DEF VerifyEvaluation, env
  <2>2. CASE End(p)
    BY <1>o, <1>e, <2>1, <2>2
  <2>3. CASE ~End(p)
    <3>1. pc[p] = "verify" /\ pc' = [pc EXCEPT ![p] = "observe"]
          /\ UNCHANGED <<op, named, seen, draft, gen>>
      BY <1>7, <2>3 DEF VerifyEvaluation
    <3>2. Others /\ pc'[p] = "observe"
      BY <1>t, <3>1
    <3>3. Done
      BY <1>w, <2>1, <3>1, <3>2 DEF Witnessed, Recorded
    <3> QED
      BY <1>o, <2>1, <3>2, <3>3
  <2> QED
    BY <2>2, <2>3
<1> QED
  BY <1>1, <1>2, <1>3, <1>4, <1>5, <1>6, <1>7

LEMMA EntryMeans ==
    ASSUME NEW p, op[p] = "evaluate", NEW v, MachineAuthorizes(p, history, v)
    PROVE  \E f \in Freeze(history) : history[f].cand = v.content /\ history[f].auth = v.auth
<1>1. \E f \in Freeze(history) : FreezeDrift(history, f, v) = {}
  <2>1. CASE p \in Native
    <3>1. NativeEvaluatorEntry(history, v, NativeProjection(history, v), named[p].cand)
      BY <2>1 DEF MachineAuthorizes, NativeAuthorized
    <3> QED
      BY <3>1 DEF NativeEvaluatorEntry
  <2>2. CASE p \notin Native
    <3>1. AuthorizeEvaluatorEntry(history, v, named[p].cand)
      BY <2>2 DEF MachineAuthorizes, Authorized
    <3> QED
      BY <3>1 DEF AuthorizeEvaluatorEntry
  <2> QED
    BY <2>1, <2>2
<1>2. PICK f \in Freeze(history) : FreezeDrift(history, f, v) = {}
  BY <1>1
<1>3. "candidate" \notin FreezeDrift(history, f, v) /\ "authority" \notin FreezeDrift(history, f, v)
  BY <1>2
<1>4. history[f].cand = v.content /\ history[f].auth = v.auth
  BY <1>3 DEF FreezeDrift
<1> QED
  BY <1>4

\* What one reported evaluation is, so far.
SoundReport(h, n) ==
    /\ h[n].ran = h[n].cand
    /\ \E f \in Positions(h, "freeze") : h[f].cand = h[n].cand /\ h[f].auth = h[n].ranAuth

LEMMA ReportedNow ==
    ASSUME TypeOK, Shaped, EvaluationInvariant, NEW p \in Procs, pc[p] = "verify", Undrifted(p)
    PROVE  gen[p] + 1 \in 1..Len(history) /\ SoundReport(history, gen[p] + 1)
<1>0. history \in Seq(ForgeRecord)
  BY DEF TypeOK
<1>1. /\ op[p] = "evaluate" /\ \A d \in draft[p] : d.kind = KindOf(op[p])
  BY DEF Shaped
<1>2. Witnessed(p) /\ Recorded(p) /\ \A d \in draft[p] : Admitted(history, d)
  BY DEF EvaluationInvariant
<1>3. /\ \A s \in seen[p] : s.auth = tree.auth /\ s.content = tree.content
      /\ MachineAuthorizes(p, history, tree)
      /\ \A d \in draft[p] : Freeze(history) = {d.freeze}
  BY DEF Undrifted
<1>4. PICK d \in draft[p] : gen[p] + 1 \in 1..Len(history) /\ history[gen[p] + 1] = d
  BY <1>2 DEF Recorded
<1>5. d.ran = tree.content /\ d.ranAuth = tree.auth
  BY <1>1, <1>2, <1>3 DEF Witnessed
<1>6. PICK f \in Freeze(history) : history[f].cand = tree.content /\ history[f].auth = tree.auth
  BY <1>1, <1>3, EntryMeans
<1>7. f = d.freeze
  BY <1>3, <1>6
<1>8. f \in Positions(history, "freeze") /\ history[f].cand = d.cand
  BY <1>1, <1>2, <1>7 DEF Admitted, KindOf
<1> QED
  BY <1>4, <1>5, <1>6, <1>8 DEF SoundReport

LEMMA EvaluationStep ==
    ASSUME ~Restore, TypeOK, Shaped, EvaluationInvariant, [Next]_vars
    PROVE  EvaluationInvariant'
<1>t. history \in Seq(ForgeRecord) /\ tree \in View
  BY DEF TypeOK
<1>i. /\ \A p \in Procs : \A d \in draft[p] : Admitted(history, d)
      /\ \A p \in Procs : Witnessed(p) /\ Recorded(p)
      /\ reported \subseteq 1..Len(history)
      /\ \A n \in reported : SoundReport(history, n)
      /\ tree.content \in used /\ tree.auth \in used
  BY DEF EvaluationInvariant, ReportedEvaluationSound, SoundReport
<1>1. \A p \in Procs : Witnessed(p)' /\ Recorded(p)'
  <2>1. CASE Edit
    BY <1>i, <2>1, EditWitnessed
  <2>2. CASE UNCHANGED vars
    <3>1. UNCHANGED <<tree, used, pc, op, seen, draft, gen, history>>
      BY <2>2 DEF vars, env, locals
    <3> QED
      BY <1>i, <3>1, Unmoved
  <2> QED
    BY <1>i, <2>1, <2>2, MovedWitnessed DEF Next, Ops
<1>2. tree'.content \in used' /\ tree'.auth \in used'
  <2>1. CASE Edit
    BY <2>1 DEF Edit
  <2>2. CASE ~Edit
    <3>1. UNCHANGED <<tree, used>>
      BY <2>2 DEF Next, Call, Authorize, Observe, Execute, ReadGeneration, Put, VerifyEvaluation,
                  vars, env
    <3> QED
      BY <1>i, <3>1
  <2> QED
    BY <2>1, <2>2
<1>g. history' = history \/ \E d \in ForgeRecord : Grows(history', history, d)
  <2>1. ASSUME NEW q \in Procs, NEW d \in ForgeRecord, Commits(q, d)
        PROVE  Grows(history', history, d)
    <3>1. history' = Append(history, d)
      BY <2>1 DEF Commits
    <3> QED
      BY <1>t, <3>1, Appended, Zenon
  <2> QED
    BY <2>1, StepShape
<1>3. \A p \in Procs : \A d \in draft'[p] : Admitted(history', d)
  <2> SUFFICES ASSUME NEW p \in Procs, NEW e \in draft'[p] PROVE Admitted(history', e)
    OBVIOUS
  <2>1. Admitted(history, e)
    <3>1. ASSUME NEW q \in Procs, NEW d \in ForgeRecord, Commits(q, d) PROVE Admitted(history, e)
      <4>1. /\ d \in draft[q] /\ \A r \in Procs \ {q} : draft'[r] = draft[r]
            /\ \A x \in draft'[q] : SameDraft(x, d)
        BY <3>1 DEF Commits
      <4>2. CASE p = q
        <5>1. SameDraft(e, d) /\ Admitted(history, d)
          BY <1>i, <4>1, <4>2
        <5> QED
          BY <5>1, AdmittedSame
      <4>3. CASE p # q
        BY <1>i, <4>1, <4>3
      <4> QED
        BY <4>2, <4>3
    <3>2. ASSUME (\E d \in draft[p] : SameDraft(e, d)) \/ Authorizes(p, e) PROVE Admitted(history, e)
      BY <1>i, <3>2, AdmittedSame, AdmittedWhenAuthorized
    <3> QED
      BY <3>1, <3>2, StepShape
  <2> QED
    BY <1>g, <2>1, AdmittedGrows
<1>4. ASSUME NEW n \in 1..Len(history), SoundReport(history, n)
      PROVE  n \in 1..Len(history') /\ SoundReport(history', n)
  <2>1. CASE history' = history
    BY <1>4, <2>1
  <2>2. ASSUME NEW d \in ForgeRecord, Grows(history', history, d)
        PROVE  n \in 1..Len(history') /\ SoundReport(history', n)
    <3>1. /\ n \in 1..Len(history') /\ history'[n] = history[n]
          /\ \A k, m : m \in Positions(history, k) => m \in Positions(history', k) /\ history'[m] = history[m]
      BY <2>2 DEF Grows
    <3> QED
      BY <1>4, <3>1 DEF SoundReport
  <2> QED
    BY <1>g, <2>1, <2>2
<1>5. \A n \in reported' : n \in 1..Len(history) /\ SoundReport(history, n)
  <2>1. ASSUME NEW p \in Procs, VerifyEvaluation(p)
        PROVE  \A n \in reported' : n \in 1..Len(history) /\ SoundReport(history, n)
    <3>1. pc[p] = "verify" /\ reported' = IF Undrifted(p) THEN reported \cup {gen[p] + 1} ELSE reported
      BY <2>1 DEF VerifyEvaluation
    <3>2. CASE Undrifted(p)
      <4>1. gen[p] + 1 \in 1..Len(history) /\ SoundReport(history, gen[p] + 1)
        BY <3>1, <3>2, ReportedNow
      <4>2. reported' = reported \cup {gen[p] + 1}
        BY <3>1, <3>2
      <4> QED
        BY <1>i, <4>1, <4>2
    <3>3. CASE ~Undrifted(p)
      BY <1>i, <3>1, <3>3
    <3> QED
      BY <3>2, <3>3
  <2>2. ASSUME ~\E p \in Procs : VerifyEvaluation(p) PROVE reported' = reported
    BY <2>2 DEF Next, Edit, Call, Authorize, Observe, Execute, ReadGeneration, Put, vars
  <2> QED
    BY <1>i, <2>1, <2>2
<1>6. reported' \subseteq 1..Len(history') /\ \A n \in reported' : SoundReport(history', n)
  BY <1>4, <1>5
<1>7. ReportedEvaluationSound'
  BY <1>6 DEF ReportedEvaluationSound, SoundReport
<1> QED
  BY <1>1, <1>2, <1>3, <1>6, <1>7 DEF EvaluationInvariant

\* What the evaluation theorem below follows from.
THEOREM ControlEvaluations ==
    ASSUME ~Restore
    PROVE  Spec => []EvaluationInvariant
<1>1. Init => EvaluationInvariant
  BY DEF Init, EvaluationInvariant, Witnessed, Recorded, ReportedEvaluationSound
<1>2. TypeOK /\ Shaped /\ EvaluationInvariant /\ [Next]_vars => EvaluationInvariant'
  BY EvaluationStep
<1> QED
  BY <1>1, <1>2, ControlTypes, PTL DEF Spec

\* An evaluation reported to its caller ran on the content and the authority
\* that were frozen: the comparison after the run misses no change in between.
THEOREM ControlReportedEvaluationSound ==
    ASSUME ~Restore
    PROVE  Spec => []ReportedEvaluationSound
<1>1. EvaluationInvariant => ReportedEvaluationSound
  BY DEF EvaluationInvariant
<1> QED
  BY <1>1, ControlEvaluations, PTL

-----------------------------------------------------------------------------
(* One development process: the lineage.                                   *)

LEMMA FrozenLastGrows ==
    ASSUME NEW h, NEW d, NEW g, Grows(g, h, d), Continues(h, d), Registered(h),
           ~IdentityConflict(h, d), FrozenLast(h),
           \A m, n \in Positions(h, "candidate") : h[m].cand = h[n].cand => m = n
    PROVE  FrozenLast(g)
<1>1. /\ \A k : Positions(g, k) = Positions(h, k) \cup (IF d.kind = k THEN {Len(h) + 1} ELSE {})
      /\ g[Len(h) + 1] = d /\ Len(h) \in Nat
      /\ \A k, n : n \in Positions(h, k) => n \in 1..Len(h) /\ g[n] = h[n]
  BY DEF Grows
<1> SUFFICES ASSUME NEW f \in Positions(g, "freeze"),
                    NEW b \in Positions(g, "candidate"), NEW c \in Positions(g, "candidate"),
                    g[c].cand = g[f].cand, g[b].epoch = g[c].epoch
             PROVE  b <= c
  BY DEF FrozenLast
<1>2. CASE d.kind \notin {"candidate", "freeze"}
  BY <1>1, <1>2 DEF FrozenLast
<1>3. CASE d.kind = "freeze"
  <2>0. b \in Positions(h, "candidate") /\ c \in Positions(h, "candidate")
        /\ g[b] = h[b] /\ g[c] = h[c]
    BY <1>1, <1>3
  <2>1. CASE f \in Positions(h, "freeze")
    BY <1>1, <2>0, <2>1 DEF FrozenLast
  <2>2. CASE f \notin Positions(h, "freeze")
    <3>1. g[f] = d
      BY <1>1, <2>2
    <3>2. d.cand \in CurrentId(h)
      BY <1>3 DEF Continues, Fits
    <3>3. PICK n \in CurrentCandidate(h) : n \in ActiveCandidates(h) /\ n \in Positions(h, "candidate")
                                           /\ h[n].cand = d.cand
      BY <3>2, CurrentIsRegistered
    <3>4. n = c
      BY <2>0, <3>1, <3>3
    <3>5. b \in ActiveCandidates(h)
      BY <2>0, <3>3, <3>4 DEF ActiveCandidates
    <3> QED
      BY <3>3, <3>4, <3>5 DEF CurrentCandidate, Latest
  <2> QED
    BY <2>1, <2>2
<1>4. CASE d.kind = "candidate"
  <2>0. f \in Positions(h, "freeze") /\ g[f] = h[f] /\ f \in 1..Len(h) /\ h[f].kind = "freeze"
    <3>1. f \in Positions(h, "freeze")
      BY <1>1, <1>4
    <3> QED
      BY <1>1, <3>1 DEF Positions
  <2>i. \A n \in Positions(h, "candidate") : h[n].cand # d.cand
    BY <1>4 DEF IdentityConflict
  <2>1. c \in Positions(h, "candidate") /\ g[c] = h[c]
    <3>1. \E n \in Positions(h, "candidate") : h[n].cand = h[f].cand
      BY <2>0 DEF Registered, Binding
    <3>2. g[c].cand # d.cand
      BY <2>0, <2>i, <3>1
    <3> QED
      BY <1>1, <3>2
  <2>2. CASE b \in Positions(h, "candidate")
    BY <1>1, <2>0, <2>1, <2>2 DEF FrozenLast
  <2>3. CASE b \notin Positions(h, "candidate")
    <3>1. g[b] = d
      BY <1>1, <2>3
    <3>2. ActiveEpoch(h) = {d.epoch} /\ OfCurrent(h, "freeze") = {}
      BY <1>4 DEF Continues, Fits
    <3>3. c \in ActiveCandidates(h)
      BY <2>1, <3>1, <3>2 DEF ActiveCandidates
    <3>4. ASSUME NEW m \in ActiveCandidates(h) PROVE m <= c
      <4>1. m \in Positions(h, "candidate") /\ h[m].epoch = h[c].epoch
        BY <3>2, <3>3 DEF ActiveCandidates
      <4> QED
        BY <2>0, <2>1, <4>1 DEF FrozenLast
    <3>5. c \in CurrentCandidate(h)
      BY <3>3, <3>4 DEF CurrentCandidate, Latest
    <3>6. f \in OfCurrent(h, "freeze")
      BY <2>0, <2>1, <3>5 DEF OfCurrent, CurrentId
    <3> QED
      BY <3>2, <3>6
  <2> QED
    BY <2>2, <2>3
<1> QED
  BY <1>2, <1>3, <1>4

LEMMA FrozenAloneGrows ==
    ASSUME NEW h, NEW d, NEW g, Grows(g, h, d), Continues(h, d), FrozenAlone(h)
    PROVE  FrozenAlone(g)
<1>1. /\ g[Len(h) + 1] = d /\ Len(h) \in Nat /\ Len(g) = Len(h) + 1
      /\ \A n \in 1..Len(h) : g[n] = h[n]
  BY DEF Grows
<1>2. \A k, n : n \in Positions(g, k) => n \in 1..Len(g) /\ g[n].kind = k
  BY DEF Positions
<1> SUFFICES ASSUME NEW f \in Positions(g, "freeze"), NEW n \in f + 1 .. Len(g),
                    g[n].kind \in {"result", "disposition", "freeze"}
             PROVE  g[n].cand # g[f].cand
  BY DEF FrozenAlone
<1>3. f \in 1..Len(h) /\ g[f] = h[f]
  BY <1>1, <1>2
<1>4. f \in Positions(h, "freeze")
  BY <1>2, <1>3 DEF Positions
<1>5. CASE n \in 1..Len(h)
  <2>1. n \in f + 1 .. Len(h) /\ g[n] = h[n]
    BY <1>1, <1>3, <1>5
  <2> QED
    BY <1>3, <1>4, <2>1 DEF FrozenAlone
<1>6. CASE n \notin 1..Len(h)
  <2>1. g[n] = d
    BY <1>1, <1>3, <1>6
  <2>2. d.cand \in CurrentId(h) /\ OfCurrent(h, "freeze") = {}
    BY <2>1 DEF Continues, Fits
  <2> QED
    BY <1>3, <1>4, <2>1, <2>2 DEF OfCurrent
<1> QED
  BY <1>5, <1>6

\* What a record continues, others' appends leave alone.
LEMMA ContinuesGrows ==
    ASSUME NEW h, NEW d, NEW g, Grows(g, h, d), EpochsKnown(h), Registered(h),
           NEW e, Continues(h, e),
           \/ d.kind \in {"evaluation", "bundle"}
           \/ d.kind = "result" /\ e.kind = "result"
    PROVE  Continues(g, e)
<1>1. /\ ActiveEpoch(g) = ActiveEpoch(h) /\ CurrentId(g) = CurrentId(h)
      /\ OfCurrent(g, "freeze") = OfCurrent(h, "freeze")
      /\ OfCurrent(g, "disposition") = OfCurrent(h, "disposition")
  <2>1. d.kind \notin {"epoch", "candidate", "freeze"} /\ d.kind \notin {"epoch", "candidate", "disposition"}
    OBVIOUS
  <2>2. ActiveEpoch(g) = ActiveEpoch(h)
    BY <2>1, ActiveEpochGrows
  <2>3. CurrentId(g) = CurrentId(h)
    BY <2>1, CurrentGrows
  <2>4. /\ OfCurrent(g, "freeze") = OfCurrent(h, "freeze")
        /\ OfCurrent(g, "disposition") = OfCurrent(h, "disposition")
    BY <2>1, OfCurrentGrows
  <2> QED
    BY <2>2, <2>3, <2>4
<1>2. ASSUME e.kind = "disposition", NEW c, NEW w, NEW m \in Evidence(g, c, w)
      PROVE  m \in Evidence(h, c, w) /\ g[m] = h[m]
  <2>1. Positions(g, "result") = Positions(h, "result")
        /\ \A n \in Positions(h, "result") : g[n] = h[n]
    BY <1>2 DEF Grows
  <2> QED
    BY <1>2, <2>1 DEF Evidence
<1> QED
  BY <1>1, <1>2 DEF Continues, Fits

LEMMA ContinuesSame ==
    ASSUME NEW h, NEW d, NEW e, SameDraft(e, d), Continues(h, d)
    PROVE  Continues(h, e)
<1>1. CASE d.kind \in {"candidate", "disposition", "bundle"}
  BY <1>1 DEF SameDraft
<1>2. CASE d.kind \notin {"candidate", "disposition", "bundle"}
  BY <1>2 DEF SameDraft, Continues, Fits
<1> QED
  BY <1>1, <1>2

LEMMA UndisposedMeans ==
    ASSUME NEW h \in Seq(ForgeRecord), DispositionStatus(h) = "undisposed"
    PROVE  OfCurrent(h, "disposition") = {}
<1> SUFFICES ASSUME OfCurrent(h, "disposition") # {} PROVE FALSE
  OBVIOUS
<1>1. AtMostOne(OfCurrent(h, "disposition"))
  BY DEF DispositionStatus
<1>2. Disposition(h) = OfCurrent(h, "disposition")
  BY <1>1 DEF Disposition, OnlyOne
<1>3. (CHOOSE n \in Disposition(h) : TRUE) \in Positions(h, "disposition")
  BY <1>2 DEF OfCurrent
<1>4. h[CHOOSE n \in Disposition(h) : TRUE] \in DispositionRecord
  BY <1>3, HistoryTypes, RecordForms
<1>5. h[CHOOSE n \in Disposition(h) : TRUE].disposition # "undisposed"
  BY <1>4 DEF DispositionRecord
<1> QED
  BY <1>1, <1>5 DEF DispositionStatus

LEMMA ContinuesWhenAuthorized ==
    ASSUME TypeOK, CandidateOnce, Registered(history), FreezeBacked,
           NEW p \in Procs, NEW e, Authorizes(p, e)
    PROVE  Continues(history, e)
<1>h. history \in Seq(ForgeRecord)
  BY DEF TypeOK
<1>1. PICK v \in View : MachineAuthorizes(p, history, v) /\ e \in Drafts(op[p], history, v)
  BY DEF Authorizes
<1>a. op[p] \in Ops /\ Authorized(op[p], Mode[p], history, v, named[p])
  <2>1. op[p] \in Ops
    BY DEF Authorizes, OpsOf, Ops
  <2> QED
    BY <1>1, <2>1, HostAuthorizes
<1>2. op[p] \in Ops /\ e.kind = KindOf(op[p])
  BY <1>1, <1>a, DraftKinds
<1>f. ASSUME ~Ambiguous(history), Freeze(history) = {} PROVE OfCurrent(history, "freeze") = {}
  BY <1>f DEF Ambiguous, Freeze, OnlyOne
<1>3. CASE op[p] = "begin_epoch"
  <2>1. e.kind = "epoch" /\ e.parent = ActiveEpoch(history)
    BY <1>1, <1>3 DEF Drafts
  <2> QED
    BY <2>1 DEF Continues, Fits
<1>4. CASE op[p] \in {"register", "refresh"}
  <2>1. PICK n \in ActiveEpoch(history) :
          e = [kind |-> "candidate", cand |-> v.content, epoch |-> n, parent |-> CurrentId(history)]
    BY <1>1, <1>4 DEF Drafts
  <2>2. AuthorizeCandidateRegister(history, v, named[p].cand, v.content)
    BY <1>a, <1>4 DEF Authorized
  <2>3. /\ v.content \notin CurrentId(history) /\ OfCurrent(history, "freeze") = {}
    BY <1>f, <2>2 DEF AuthorizeCandidateRegister
  <2>4. ActiveEpoch(history) = {n}
    <3>1. Positions(history, "epoch") \in SUBSET Nat
      BY DEF Positions
    <3>2. \A m \in ActiveEpoch(history) : m = n
      BY <2>1, <3>1, OneLatest DEF ActiveEpoch
    <3> QED
      BY <2>1, <3>2
  <2>5. e.kind = "candidate" /\ e.cand = v.content /\ e.epoch = n /\ e.parent = CurrentId(history)
    BY <2>1
  <2> QED
    BY <2>3, <2>4, <2>5 DEF Continues, Fits
<1>5. CASE op[p] = "check"
  <2>1. PICK c \in CurrentId(history), w \in Workflows :
           e = [kind |-> "result", cand |-> c, workflow |-> w, status |-> "UNKNOWN"]
    BY <1>1, <1>5 DEF Drafts
  <2>2. AuthorizeDevelopmentWork(history, v, named[p].cand)
    BY <1>a, <1>5 DEF Authorized
  <2>3. OfCurrent(history, "freeze") = {}
    BY <1>f, <2>2 DEF AuthorizeDevelopmentWork
  <2>4. e.kind = "result" /\ e.cand = c
    BY <2>1
  <2> QED
    BY <2>1, <2>3, <2>4 DEF Continues, Fits
<1>6. CASE op[p] \in {"selected", "rejected"}
  <2>1. PICK n \in CurrentCandidate(history) :
           e = [kind |-> "disposition", cand |-> history[n].cand, disposition |-> op[p],
                policy |-> v.policy,
                evidence |-> ReadinessStatus(history, n, Required[v.policy], v)]
    BY <1>1, <1>6 DEF Drafts
  <2>2. AuthorizeCandidateDisposition(history, v, named[p].cand, op[p])
    BY <1>a, <1>6 DEF Authorized
  <2>3. OfCurrent(history, "disposition") = {}
    BY <1>h, <2>2, UndisposedMeans DEF AuthorizeCandidateDisposition
  <2>4. OfCurrent(history, "freeze") = {}
    <3> SUFFICES ASSUME NEW f \in OfCurrent(history, "freeze") PROVE FALSE
      OBVIOUS
    <3>1. f \in Positions(history, "freeze") /\ history[f].cand \in CurrentId(history)
      BY DEF OfCurrent
    <3>2. /\ history[f].selection \in Positions(history, "disposition")
          /\ history[history[f].selection].cand = history[f].cand
      BY <3>1 DEF FreezeBacked, Earlier
    <3>3. history[f].selection \in OfCurrent(history, "disposition")
      BY <3>1, <3>2 DEF OfCurrent
    <3> QED
      BY <2>3, <3>3
  <2>5. /\ e.kind = "disposition" /\ e.cand = history[n].cand /\ e.disposition = op[p]
        /\ e.policy = v.policy
    BY <2>1
  <2>6. e.cand \in CurrentId(history)
    BY <2>1, <2>5 DEF CurrentId
  <2>7. op[p] = "selected" =>
          \A w \in Required[v.policy] : \A m \in Evidence(history, history[n].cand, w) :
              history[m].status = "PASS"
    <3> SUFFICES ASSUME op[p] = "selected"
                 PROVE  \A w \in Required[v.policy] :
                          \A m \in Evidence(history, history[n].cand, w) : history[m].status = "PASS"
      OBVIOUS
    <3>1. Ready(history, n, Required[v.policy], v)
      BY <1>1, <2>1, SelectionReady
    <3> QED
      BY <1>h, <3>1, ReadyMeans
  <2> QED
    BY <2>3, <2>4, <2>5, <2>6, <2>7 DEF Continues, Fits
<1>7. CASE op[p] = "freeze"
  <2>1. PICK n \in Disposition(history) :
           e = [kind |-> "freeze", cand |-> history[n].cand, auth |-> v.auth, plan |-> v.plan,
                selection |-> n]
    BY <1>1, <1>7 DEF Drafts
  <2>2. AuthorizeCandidateFreeze(history, v, named[p].cand, v.plan)
    BY <1>a, <1>7 DEF Authorized
  <2>3. OfCurrent(history, "freeze") = {}
    BY <1>f, <2>2 DEF AuthorizeCandidateFreeze
  <2>4. history[n].cand \in CurrentId(history)
    BY <1>h, <2>1, ProjectionTypes
  <2>5. e.kind = "freeze" /\ e.cand = history[n].cand
    BY <2>1
  <2> QED
    BY <2>3, <2>4, <2>5 DEF Continues, Fits
<1>8. CASE op[p] \in {"evaluate", "bundle"}
  <2>1. e.kind \in {"evaluation", "bundle"}
    BY <1>2, <1>8 DEF KindOf
  <2> QED
    BY <2>1 DEF Continues, Fits
<1> QED
  BY <1>2, <1>3, <1>4, <1>5, <1>6, <1>7, <1>8 DEF Ops, DevelopmentOps, EvaluatorOps

\* An evaluator drafts nothing that belongs to development.
LEMMA EvaluatorDrafts ==
    ASSUME Shaped, NEW p \in Procs, Mode[p] # "development", NEW d \in draft[p]
    PROVE  d.kind \in {"evaluation", "bundle"}
<1>1. pc[p] # "idle" /\ d.kind = KindOf(op[p])
  BY DEF Shaped
<1>2. op[p] \in EvaluatorOps
  BY <1>1 DEF Shaped, OpsOf
<1> QED
  BY <1>1, <1>2 DEF EvaluatorOps, KindOf

LEMMA SelectionCleanGrows ==
    ASSUME NEW d, Grows(history', history, d), Continues(history, d), SelectionClean
    PROVE  SelectionClean'
<1>1. /\ \A k : Positions(history', k) = Positions(history, k)
                    \cup (IF d.kind = k THEN {Len(history) + 1} ELSE {})
      /\ history'[Len(history) + 1] = d /\ Len(history) \in Nat
      /\ \A k, n : n \in Positions(history, k) => n \in 1..Len(history) /\ history'[n] = history[n]
  BY DEF Grows
<1> SUFFICES ASSUME NEW n \in Positions(history', "disposition"),
                    history'[n].disposition = "selected",
                    NEW w \in Required[history'[n].policy],
                    NEW m \in Evidence(history', history'[n].cand, w), m < n
             PROVE  history'[m].status = "PASS"
  BY DEF SelectionClean
<1>2. m \in Positions(history', "result") /\ history'[m].cand = history'[n].cand
      /\ history'[m].workflow = w
  BY DEF Evidence
<1>3. n \in 1 .. Len(history) + 1
  BY <1>1
<1>4. m \in Positions(history, "result") /\ history'[m] = history[m]
  BY <1>1, <1>2, <1>3
<1>5. m \in Evidence(history, history'[n].cand, w)
  BY <1>2, <1>4 DEF Evidence
<1>6. CASE n \in Positions(history, "disposition")
  BY <1>1, <1>4, <1>5, <1>6 DEF SelectionClean
<1>7. CASE n \notin Positions(history, "disposition")
  <2>1. d.kind = "disposition" /\ history'[n] = d
    BY <1>1, <1>7
  <2> QED
    BY <1>4, <1>5, <2>1 DEF Continues, Fits
<1> QED
  BY <1>6, <1>7

LEMMA LineageStep ==
    ASSUME OneDevelopment, TypeOK, Shaped, CandidateOnce, BindingInvariant, FreezeBacked,
           LineageInvariant, [Next]_vars
    PROVE  LineageInvariant'
<1>t. history \in Seq(ForgeRecord) /\ draft \in [Procs -> SUBSET ForgeRecord]
  BY DEF TypeOK
<1>i. /\ \A p \in Procs : \A d \in draft[p] : Continues(history, d)
      /\ ~Ambiguous(history) /\ SelectionClean
      /\ EpochsKnown(history) /\ FrozenLast(history) /\ FrozenAlone(history)
  BY DEF LineageInvariant, NeverAmbiguous
<1>b. Registered(history)
  BY DEF BindingInvariant
<1>1. ASSUME history' = history,
             \A q \in Procs : \A e \in draft'[q] :
                 (\E d \in draft[q] : SameDraft(e, d)) \/ Authorizes(q, e)
      PROVE  LineageInvariant'
  <2>1. ASSUME NEW q \in Procs, NEW e \in draft'[q] PROVE Continues(history', e)
    <3>1. Continues(history, e)
      BY <1>b, <1>i, <1>1, <2>1, ContinuesSame, ContinuesWhenAuthorized
    <3> QED
      BY <1>1, <3>1, Zenon
  <2>2. /\ ~Ambiguous(history')
        /\ EpochsKnown(history') /\ FrozenLast(history') /\ FrozenAlone(history')
    BY <1>i, <1>1, Zenon
  <2>3. SelectionClean'
    BY <1>i, <1>1 DEF SelectionClean
  <2> QED
    BY <2>1, <2>2, <2>3 DEF LineageInvariant, NeverAmbiguous
<1>2. ASSUME NEW p \in Procs, NEW d \in ForgeRecord, Commits(p, d)
      PROVE  LineageInvariant'
  <2>c. /\ history' = Append(history, d) /\ d \in draft[p] /\ ~IdentityConflict(history, d)
        /\ \A q \in Procs \ {p} : draft'[q] = draft[q]
        /\ \A e \in draft'[p] : d.kind \in {"result", "evaluation"} /\ SameDraft(e, d)
    BY <1>2 DEF Commits
  <2>0. Grows(history', history, d)
    BY <1>t, <2>c, Appended, Zenon
  <2>d. Continues(history, d) /\ Fits(history, d)
    BY <1>i, <2>c DEF Continues
  <2>1. ASSUME NEW q \in Procs, NEW e \in draft'[q] PROVE Continues(history', e)
    <3>1. CASE q = p
      <4>1. d.kind \in {"result", "evaluation"} /\ SameDraft(e, d) /\ e.kind = d.kind
        BY <2>1, <2>c, <3>1 DEF SameDraft
      <4>2. Continues(history, e)
        BY <2>d, <4>1, ContinuesSame
      <4> QED
        BY <1>b, <1>i, <2>0, <4>1, <4>2, ContinuesGrows
    <3>2. CASE q # p
      <4>1. e \in draft[q] /\ Continues(history, e)
        BY <1>i, <2>1, <2>c, <3>2
      <4>2. CASE Mode[p] = "development"
        <5>1. Mode[q] # "development"
          BY <3>2, <4>2 DEF OneDevelopment
        <5>2. e.kind \in {"evaluation", "bundle"}
          BY <4>1, <5>1, EvaluatorDrafts
        <5> QED
          BY <5>2 DEF Continues, Fits
      <4>3. CASE Mode[p] # "development"
        <5>1. d.kind \in {"evaluation", "bundle"}
          BY <2>c, <4>3, EvaluatorDrafts
        <5> QED
          BY <1>b, <1>i, <2>0, <4>1, <5>1, ContinuesGrows
      <4> QED
        BY <4>2, <4>3
    <3> QED
      BY <3>1, <3>2
  <2>2. ~Ambiguous(history')
    BY <1>b, <1>i, <2>0, <2>c, <2>d, UnambiguousGrows
  <2>3. SelectionClean'
    BY <1>i, <2>0, <2>d, SelectionCleanGrows
  <2>4. EpochsKnown(history')
    BY <1>i, <2>0, <2>d, EpochsKnownGrows
  <2>6. FrozenLast(history')
    <3>1. \A m, n \in Positions(history, "candidate") : history[m].cand = history[n].cand => m = n
      BY DEF CandidateOnce
    <3> QED
      BY <1>b, <1>i, <2>0, <2>c, <2>d, <3>1, FrozenLastGrows
  <2>7. FrozenAlone(history')
    BY <1>i, <2>0, <2>d, FrozenAloneGrows
  <2> QED
    BY <2>1, <2>2, <2>3, <2>4, <2>6, <2>7 DEF LineageInvariant, NeverAmbiguous
<1> QED
  BY <1>1, <1>2, StepShape

\* What the lineage theorems below follow from.
THEOREM ControlLineage ==
    ASSUME OneDevelopment
    PROVE  Spec => []LineageInvariant
<1>1. ASSUME Init PROVE LineageInvariant
  <2>0. history = <<>> /\ Len(history) = 0 /\ \A p \in Procs : draft[p] = {}
    BY <1>1 DEF Init
  <2>1. \A k : Positions(history, k) = {}
    BY <2>0 DEF Positions
  <2>2. \A k : OfCurrent(history, k) = {}
    BY <2>1 DEF OfCurrent
  <2>3. ActiveEpoch(history) = {} /\ ActiveCandidates(history) = {}
    BY <2>1, LatestIn DEF ActiveEpoch, ActiveCandidates
  <2>4. ~Ambiguous(history)
    BY <2>1, <2>2, <2>3
       DEF Ambiguous, EpochsCoherent, EpochSuperseded, CandidatesCoherent, AtMostOne
  <2>5. SelectionClean
    BY <2>1 DEF SelectionClean
  <2>6. EpochsKnown(history) /\ FrozenLast(history) /\ FrozenAlone(history)
    BY <2>0, <2>1 DEF EpochsKnown, FrozenLast, FrozenAlone
  <2> QED
    BY <2>0, <2>4, <2>5, <2>6 DEF LineageInvariant, NeverAmbiguous
<1>2. SelectionInvariant => CandidateOnce
  BY DEF SelectionInvariant
<1>3. FreezeInvariant => FreezeBacked
  BY DEF FreezeInvariant
<1>4. TypeOK /\ Shaped /\ CandidateOnce /\ BindingInvariant /\ FreezeBacked /\ LineageInvariant
        /\ [Next]_vars => LineageInvariant'
  BY LineageStep
<1> QED
  BY <1>1, <1>2, <1>3, <1>4, ControlTypes, ControlSelections, ControlBindings, ControlFreezes,
     PTL DEF Spec

\* With one development process no sequence of operations, refused or not, makes
\* the history ambiguous, however many evaluators run beside it.
THEOREM ControlNeverAmbiguous ==
    ASSUME OneDevelopment
    PROVE  Spec => []NeverAmbiguous
<1>1. LineageInvariant => NeverAmbiguous
  BY DEF LineageInvariant
<1> QED
  BY <1>1, ControlLineage, PTL

\* With one development process no result but a PASS precedes a selection that
\* requires its workflow.
THEOREM ControlSelectionClean ==
    ASSUME OneDevelopment
    PROVE  Spec => []SelectionClean
<1>1. LineageInvariant => SelectionClean
  BY DEF LineageInvariant
<1> QED
  BY <1>1, ControlLineage, PTL

\* With one development process a freeze ends the development of its candidate
\* and of its epoch.
THEOREM ControlFreezeIsFinal ==
    ASSUME OneDevelopment
    PROVE  Spec => []FreezeIsFinal
<1>1. ASSUME LineageInvariant, BindingInvariant, CandidateOnce PROVE FreezeIsFinal
  <2> SUFFICES ASSUME NEW f \in Positions(history, "freeze"), NEW n \in f + 1 .. Len(history)
               PROVE  /\ history[n].kind \in {"result", "disposition", "freeze"}
                           => history[n].cand # history[f].cand
                      /\ history[n].kind = "candidate" =>
                           \A c \in Positions(history, "candidate") :
                               history[c].cand = history[f].cand => history[c].epoch # history[n].epoch
    BY DEF FreezeIsFinal
  <2>1. history[n].kind \in {"result", "disposition", "freeze"} => history[n].cand # history[f].cand
    BY <1>1 DEF LineageInvariant, FrozenAlone
  <2>2. ASSUME history[n].kind = "candidate", NEW c \in Positions(history, "candidate"),
               history[c].cand = history[f].cand, history[c].epoch = history[n].epoch
        PROVE  FALSE
    <3>0. f \in 1..Len(history) /\ history[f].kind = "freeze"
      BY DEF Positions
    <3>1. n \in Positions(history, "candidate")
      BY <2>2, <3>0 DEF Positions
    <3>2. n <= c
      BY <1>1, <2>2, <3>1 DEF LineageInvariant, FrozenLast
    <3>3. PICK b \in Positions(history, "candidate") : b < f /\ history[b].cand = history[f].cand
      BY <1>1, <3>0 DEF BindingInvariant, Registered, Binding
    <3>4. b = c
      BY <1>1, <2>2, <3>3 DEF CandidateOnce
    <3>5. b \in 1..Len(history)
      BY DEF Positions
    <3> QED
      BY <3>0, <3>2, <3>3, <3>4, <3>5
  <2> QED
    BY <2>1, <2>2
<1>2. SelectionInvariant => CandidateOnce
  BY DEF SelectionInvariant
<1> QED
  BY <1>1, <1>2, ControlLineage, ControlBindings, ControlSelections, PTL

-----------------------------------------------------------------------------
(* The native adapter with one development process: it adds no refusal.    *)

\* Every record continued what was recorded before it.
Lined(h) == \A n \in 1..Len(h) : Continues(Prefix(h, n - 1), h[n])

LEMMA LinedGrows ==
    ASSUME NEW h \in Seq(ForgeRecord), NEW d \in ForgeRecord, Lined(h), Continues(h, d)
    PROVE  Lined(Append(h, d))
<1> DEFINE g == Append(h, d)
<1>1. /\ Len(h) \in Nat /\ g \in Seq(ForgeRecord) /\ Len(g) = Len(h) + 1 /\ g[Len(h) + 1] = d
      /\ \A n \in 1..Len(h) : g[n] = h[n]
  OBVIOUS
<1> HIDE DEF g
<1>2. ASSUME NEW k \in 0..Len(h) PROVE Prefix(g, k) = Prefix(h, k)
  <2>1. /\ Prefix(g, k) \in Seq(ForgeRecord) /\ Len(Prefix(g, k)) = k
        /\ \A n \in 1..k : Prefix(g, k)[n] = g[n]
    BY <1>1 DEF Prefix
  <2>2. /\ Prefix(h, k) \in Seq(ForgeRecord) /\ Len(Prefix(h, k)) = k
        /\ \A n \in 1..k : Prefix(h, k)[n] = h[n]
    BY <1>1 DEF Prefix
  <2>3. \A n \in 1..k : Prefix(g, k)[n] = Prefix(h, k)[n]
    BY <1>1, <2>1, <2>2
  <2> QED
    BY <2>1, <2>2, <2>3, SeqEqual
<1>3. Prefix(h, Len(h)) = h
  BY <1>1 DEF Prefix
<1>4. ASSUME NEW n \in 1..Len(g) PROVE Continues(Prefix(g, n - 1), g[n])
  <2>1. CASE n = Len(h) + 1
    <3>1. Prefix(g, n - 1) = h /\ g[n] = d
      BY <1>1, <1>2, <1>3, <2>1
    <3> QED
      BY <3>1
  <2>2. CASE n \in 1..Len(h)
    <3>1. Prefix(g, n - 1) = Prefix(h, n - 1) /\ g[n] = h[n]
      BY <1>1, <1>2, <2>2
    <3>2. Continues(Prefix(h, n - 1), h[n])
      BY <2>2 DEF Lined
    <3> QED
      BY <3>1, <3>2
  <2> QED
    BY <1>1, <2>1, <2>2
<1>5. Lined(g)
  BY <1>4 DEF Lined
<1> QED
  BY <1>5 DEF g

\* With one development process every committed record continues the history it
\* was appended to.
THEOREM ControlLined ==
    ASSUME OneDevelopment
    PROVE  Spec => []Lined(history)
<1>1. Init => Lined(history)
  BY DEF Init, Lined
<1>2. TypeOK /\ Shaped /\ LineageInvariant /\ Lined(history) /\ [Next]_vars => Lined(history)'
  <2> SUFFICES ASSUME TypeOK, Shaped, LineageInvariant, Lined(history), [Next]_vars
               PROVE  Lined(history')
    BY Zenon
  <2>1. CASE history' = history
    BY <2>1, Zenon
  <2>2. ASSUME NEW p \in Procs, NEW d \in ForgeRecord, Commits(p, d)
        PROVE  Lined(history')
    <3>1. history' = Append(history, d) /\ d \in draft[p]
      BY <2>2 DEF Commits
    <3>2. Continues(history, d)
      BY <3>1 DEF LineageInvariant
    <3>3. Lined(Append(history, d))
      BY <3>2, LinedGrows DEF TypeOK
    <3> QED
      BY <3>1, <3>3, Zenon
  <2> QED
    BY <2>1, <2>2, StepShape
<1> QED
  BY <1>1, <1>2, ControlTypes, ControlLineage, PTL DEF Spec

\* The kernel accepts a record that continued the history and arrived in order.
LEMMA OrderedAccepted ==
    ASSUME TypeOK, FreezeBacked, AdmittedEvaluations(history), Lined(history),
           NEW k \in Nat, k + 1 <= Len(history), InOrder(history, k + 1),
           NEW req, NEW s \in Projections, Tracks(Prefix(history, k), s, req)
    PROVE  Accepts(s, history_event(history, k + 1, req))
<1> DEFINE h == history
           g == Prefix(h, k)
           d == h[k + 1]
           e == history_event(h, k + 1, req)
<1>h. h \in Seq(ForgeRecord) /\ Len(h) \in Nat /\ d \in ForgeRecord
  BY DEF TypeOK
<1>g. Len(g) = k /\ \A n \in 1..k : g[n] = h[n]
  BY <1>h DEF Prefix
<1>p. \A x, n : n \in Positions(h, x) /\ n < k + 1 => n \in Positions(g, x) /\ g[n] = h[n]
  BY <1>h, <1>g DEF Positions
<1>1. Continues(g, d)
  <2>1. k + 1 \in 1..Len(h) /\ (k + 1) - 1 = k
    BY <1>h
  <2> QED
    BY <2>1 DEF Lined
<1>2. d.kind \in Binding =>
        /\ d.cand \in CurrentId(g)
        /\ d.kind = "evaluation" => OfCurrent(g, "evaluation") = {}
  <2>1. SubSeq(h, 1, (k + 1) - 1) = g
    BY DEF Prefix
  <2> QED
    BY <2>1 DEF InOrder, Binding
<1>3. Reduces(d, k + 1, req, e)
  BY <1>h, EventOf
<1>4. /\ s.active_epoch = ActiveEpoch(g) /\ s.current_candidate = CurrentId(g)
      /\ \A n \in OfCurrent(g, "disposition") : g[n].disposition = s.disposition
      /\ s.disposition = "undisposed" <=> OfCurrent(g, "disposition") = {}
      /\ s.frozen <=> OfCurrent(g, "freeze") # {}
      /\ s.frozen => s.disposition = "selected"
      /\ s.evaluated => s.frozen /\ OfCurrent(g, "evaluation") # {}
  BY DEF Tracks, ShowsLineage, ShowsDecisions
<1> HIDE DEF g, d, e
<1>5. d.kind \in Binding => s.current_candidate = {d.cand}
  BY <1>2, <1>4, CurrentIsOne
<1>6. CASE d.kind = "epoch"
  <2>1. e.kind = "EpochStarted" /\ e.epoch = {k + 1} /\ e.parent_epoch = d.parent
    BY <1>3, <1>6 DEF Reduces, Event
  <2>2. d.parent = s.active_epoch
    BY <1>1, <1>4, <1>6 DEF Continues, Fits
  <2> QED
    BY <2>1, <2>2 DEF Accepts, e
<1>7. CASE d.kind = "candidate"
  <2>1. /\ e.kind = "CandidateRegistered" /\ e.epoch = {d.epoch} /\ e.candidate = {d.cand}
        /\ e.parent_candidate = d.parent
    BY <1>3, <1>7 DEF Reduces, Event
  <2>2. {d.epoch} = s.active_epoch /\ d.parent = s.current_candidate /\ d.cand \notin d.parent
    BY <1>1, <1>4, <1>7 DEF Continues, Fits
  <2> QED
    BY <2>1, <2>2 DEF Accepts, e
<1>8. CASE d.kind = "result"
  <2>1. e.kind = "Empty" \/ (e.kind = "EvidenceObserved" /\ e.candidate = {d.cand})
    BY <1>3, <1>8 DEF Reduces, Event, EmptyEvent
  <2>2. OfCurrent(g, "freeze") = {}
    BY <1>1, <1>8 DEF Continues
  <2>3. ~s.frozen /\ ~s.evaluated /\ s.current_candidate = {d.cand}
    BY <1>4, <1>5, <1>8, <2>2 DEF Binding
  <2> QED
    BY <2>1, <2>3 DEF Accepts, e
<1>9. CASE d.kind = "disposition"
  <2>1. e.kind \in {"CandidateSelected", "CandidateRejected"} /\ e.candidate = {d.cand}
    BY <1>3, <1>9 DEF Reduces, Event
  <2>2. OfCurrent(g, "disposition") = {}
    BY <1>1, <1>9 DEF Continues, Fits
  <2>3. s.disposition = "undisposed" /\ s.current_candidate = {d.cand}
    BY <1>4, <1>5, <1>9, <2>2 DEF Binding
  <2> QED
    BY <2>1, <2>3 DEF Accepts, e
<1>10. CASE d.kind = "freeze"
  <2>1. e.kind = "CandidateFrozen" /\ e.candidate = {d.cand}
    BY <1>3, <1>10 DEF Reduces, Event
  <2>2. k + 1 \in Positions(h, "freeze")
    BY <1>h, <1>10 DEF Positions, d
  <2>3. /\ d.selection \in Positions(h, "disposition") /\ d.selection < k + 1
        /\ h[d.selection].disposition = "selected" /\ h[d.selection].cand = d.cand
    BY <2>2 DEF FreezeBacked, Earlier, d
  <2>4. d.selection \in Positions(g, "disposition") /\ g[d.selection] = h[d.selection]
    BY <1>p, <2>3
  <2>5. d.selection \in OfCurrent(g, "disposition")
    BY <1>2, <1>10, <2>3, <2>4 DEF OfCurrent, Binding
  <2>6. s.disposition = "selected"
    BY <1>4, <2>3, <2>4, <2>5
  <2>7. ~s.frozen /\ s.current_candidate = {d.cand}
    BY <1>1, <1>4, <1>5, <1>10 DEF Continues, Binding
  <2> QED
    BY <2>1, <2>6, <2>7 DEF Accepts, e
<1>11. CASE d.kind = "evaluation"
  <2>1. e.kind = "EvaluationRecorded" /\ e.candidate = {d.cand}
    BY <1>3, <1>11 DEF Reduces, Event
  <2>2. k + 1 \in Positions(h, "evaluation")
    BY <1>h, <1>11 DEF Positions, d
  <2>3. d.freeze \in Positions(h, "freeze") /\ d.freeze < k + 1 /\ h[d.freeze].cand = d.cand
    BY <2>2 DEF AdmittedEvaluations, Earlier, d
  <2>4. d.freeze \in Positions(g, "freeze") /\ g[d.freeze] = h[d.freeze]
    BY <1>p, <2>3
  <2>5. d.freeze \in OfCurrent(g, "freeze")
    BY <1>2, <1>11, <2>3, <2>4 DEF OfCurrent, Binding
  <2>6. s.frozen /\ s.disposition = "selected" /\ ~s.evaluated /\ s.current_candidate = {d.cand}
    BY <1>2, <1>4, <1>5, <1>11, <2>5 DEF Binding
  <2> QED
    BY <2>1, <2>6 DEF Accepts, e
<1>12. CASE d.kind = "bundle"
  <2>1. e.kind = "Empty"
    BY <1>3, <1>12 DEF Reduces, Event, EmptyEvent
  <2> QED
    BY <2>1 DEF Accepts, e
<1> QED
  BY <1>h, <1>6, <1>7, <1>8, <1>9, <1>10, <1>11, <1>12, RecordForms

\* The projection of a history in order is unambiguous.
LEMMA OrderedTracks ==
    ASSUME TypeOK, CandidateOnce, BindingInvariant, FreezeBacked, Lined(history),
           \A n \in 1..Len(history) : InOrder(history, n), NEW req
    PROVE  LET s == project_events(native_history_events(history, req))
           IN s \in Projections /\ s.lineage_ok /\ Tracks(history, s, req)
<1> DEFINE h == history
<1>h. h \in Seq(ForgeRecord) /\ Registered(h) /\ Once(h) /\ AdmittedEvaluations(h)
  BY DEF TypeOK, CandidateOnce, Once, BindingInvariant
<1>1. PICK f : /\ Projected(h, req, f)
               /\ project_events(native_history_events(h, req)) = f[Len(h)]
  BY <1>h, ProjectionRuns
<1>2. /\ f[0] = projection_initial /\ Len(h) \in Nat
      /\ \A k \in 0..Len(h) : f[k] \in Projections
      /\ \A k \in 1..Len(h) : f[k] = project_event(f[k - 1], history_event(h, k, req))
  BY <1>1 DEF Projected
<1> DEFINE Good(k) == f[k].lineage_ok /\ Tracks(Prefix(h, k), f[k], req)
           S == {k \in Nat : k <= Len(h) => Good(k)}
<1>3. 0 \in S
  <2>1. Len(Prefix(h, 0)) = 0
    BY DEF Prefix
  <2>2. projection_initial.lineage_ok
    BY DEF projection_initial
  <2> QED
    BY <1>2, <2>1, <2>2, EmptyTracked
<1>4. ASSUME NEW k \in Nat, k \in S PROVE k + 1 \in S
  <2> SUFFICES ASSUME k + 1 <= Len(h)
               PROVE  f[k + 1].lineage_ok /\ Tracks(Prefix(h, k + 1), f[k + 1], req)
    OBVIOUS
  <2> DEFINE e == history_event(h, k + 1, req)
             d == h[k + 1]
  <2>1. /\ f[k] \in Projections /\ f[k + 1] = project_event(f[k], e)
        /\ d \in ForgeRecord /\ Good(k)
    BY <1>h, <1>2, <1>4
  <2>2. e \in Events
    <3>1. Reduces(d, k + 1, req, e)
      BY <2>1, EventOf
    <3> QED
      BY <3>1 DEF Reduces
  <2>3. Accepts(f[k], e)
    <3>1. InOrder(h, k + 1)
      BY <1>2
    <3> QED
      BY <1>h, <2>1, <3>1, OrderedAccepted
  <2>4. Applies(f[k], e, f[k + 1])
    <3> HIDE DEF e
    <3> QED
      BY <2>1, <2>2, <2>3, EventApplied
  <2>5. f[k + 1].lineage_ok
    <3> HIDE DEF e
    <3> QED
      BY <2>1, <2>2, <2>4 DEF Applies, SameLineage, Events
  <2>6. /\ Prefix(h, k) \in Seq(ForgeRecord) /\ Len(Prefix(h, k)) = k
        /\ Grows(Prefix(h, k + 1), Prefix(h, k), d)
        /\ Registered(Prefix(h, k)) /\ ~IdentityConflict(Prefix(h, k), d)
        /\ history_event(Prefix(h, k + 1), k + 1, req) = e
    BY <1>h, PrefixGrows
  <2> HIDE DEF e, d
  <2> QED
    BY <2>1, <2>3, <2>5, <2>6, RecordTracked
<1>5. \A k \in Nat : k \in S
  <2> HIDE DEF S
  <2> QED BY <1>3, <1>4, Induction
<1>6. Good(Len(h))
  BY <1>2, <1>5
<1>7. Prefix(h, Len(h)) = h
  BY <1>h, <1>2 DEF Prefix
<1> QED
  BY <1>1, <1>2, <1>6, <1>7

LEMMA EvidenceFinite ==
    ASSUME NEW h \in Seq(ForgeRecord), NEW c, NEW w
    PROVE  /\ IsFiniteSet(Evidence(h, c, w)) /\ Cardinality(Evidence(h, c, w)) \in Nat
           /\ Cardinality(Evidence(h, c, w)) = 0 <=> Evidence(h, c, w) = {}
<1>1. Evidence(h, c, w) \subseteq 1..Len(h) /\ Len(h) \in Nat
  BY DEF Evidence, Positions
<1>2. IsFiniteSet(1..Len(h))
  BY <1>1, FS_Interval
<1>3. IsFiniteSet(Evidence(h, c, w))
  BY <1>1, <1>2, FS_Subset
<1> QED
  BY <1>3, FS_CardinalityType, FS_EmptySet

\* The kernel's answers for the requirements, and how it classifies them.
Requirements(h, n, req, v) == [w \in req |-> requirement(normalized(h, n, w, v))]
InClass(h, n, req, v, c) == {w \in req : Requirements(h, n, req, v)[w].classification = c}
Incomparable(h, n, req, v) == {w \in req : Requirements(h, n, req, v)[w].noncomparable}

\* Within its bounds the adapter takes the kernel's readiness, and the kernel
\* classifies every requirement as the compatibility rules do.
LEMMA NativeReadiness ==
    ASSUME NEW h \in Seq(ForgeRecord), NEW n \in CurrentCandidate(h),
           NEW req \in SUBSET Workflows, NEW v, NEW valid \in BOOLEAN, ReadinessBounded(h, req)
    PROVE  /\ readiness_projection(h, n, req, v, valid)
                  = {readiness_project(Requirements(h, n, req, v), valid)}
           /\ InClass(h, n, req, v, "Missing") = Missing(h, n, req)
           /\ InClass(h, n, req, v, "Failed") = Failed(h, n, req)
           /\ InClass(h, n, req, v, "Unknown") = Unknown(h, n, req)
           /\ Noncomparable(h, n, req, v) \subseteq Incomparable(h, n, req, v)
           /\ Incomparable(h, n, req, v) \subseteq
                 Noncomparable(h, n, req, v) \cup Missing(h, n, req)
<1> DEFINE q == [w \in req |-> normalized(h, n, w, v)]
           r == Requirements(h, n, req, v)
           R(w) == Evidence(h, h[n].cand, w)
           Match == \A e \in Positions(h, "epoch") : e = h[n].epoch => h[e].auth = v.auth
<1>1. ASSUME NEW w \in req
      PROVE  LET a == normalized(h, n, w, v)
             IN /\ a.statuses = {h[m].status : m \in R(w)} /\ a.count = Cardinality(R(w))
                /\ a.freshness = IF R(w) = {} \/ h[n].cand = v.content THEN "Current" ELSE "Unknown"
                /\ a.authority_match = Match
  BY DEF normalized
<1>2. ASSUME NEW w \in req
      PROVE  LET a == normalized(h, n, w, v)
             IN requirement_expected(a, requirement(a))
  BY <1>1 DEF requirement_expected, requirement
<1>r. \A w \in req : r[w] = requirement(normalized(h, n, w, v))
  BY DEF Requirements
<1>3. readiness_projection(h, n, req, v, valid) = {readiness_project(r, valid)}
  <2>1. r = [w \in req |-> requirement(q[w])]
    BY DEF Requirements
  <2>2. \A w \in req : requirement_expected(q[w], r[w])
    BY <1>r, <1>2
  <2> HIDE DEF r
  <2> QED
    BY <2>1, <2>2 DEF readiness_projection
<1>4. ASSUME NEW w \in req
      PROVE  /\ r[w].classification = "Missing" <=> R(w) = {}
             /\ r[w].classification = "Failed" <=> \E m \in R(w) : h[m].status = "FAIL"
             /\ r[w].classification = "Unknown" <=>
                  /\ \E m \in R(w) : h[m].status = "UNKNOWN"
                  /\ ~\E m \in R(w) : h[m].status = "FAIL"
             /\ r[w].noncomparable <=> (R(w) # {} /\ h[n].cand # v.content) \/ ~Match
  <2> DEFINE a == normalized(h, n, w, v)
  <2>1. /\ a.statuses = {h[m].status : m \in R(w)} /\ a.count = Cardinality(R(w))
        /\ a.freshness = IF R(w) = {} \/ h[n].cand = v.content THEN "Current" ELSE "Unknown"
        /\ a.authority_match = Match
    BY <1>1
  <2>2. a.count = 0 <=> R(w) = {}
    BY <2>1, EvidenceFinite
  <2>3. /\ "FAIL" \in a.statuses <=> \E m \in R(w) : h[m].status = "FAIL"
        /\ "UNKNOWN" \in a.statuses <=> \E m \in R(w) : h[m].status = "UNKNOWN"
    BY <2>1
  <2>4. (a.freshness = "Unknown") <=> (R(w) # {} /\ h[n].cand # v.content)
    BY <2>1
  <2>5. r[w].noncomparable = (a.freshness = "Unknown" \/ ~a.authority_match)
        /\ r[w].classification = classify_requirement(a, r[w].noncomparable)
    <3>1. r[w] = requirement(a)
      BY <1>r
    <3> HIDE DEF r, a
    <3> QED
      BY <3>1 DEF requirement
  <2> HIDE DEF a, r, R, Match
  <2>6. /\ r[w].classification = "Missing" <=> R(w) = {}
        /\ r[w].classification = "Failed" <=> R(w) # {} /\ "FAIL" \in a.statuses
        /\ r[w].classification = "Unknown" <=>
             R(w) # {} /\ "FAIL" \notin a.statuses /\ "UNKNOWN" \in a.statuses
    BY <2>2, <2>5 DEF classify_requirement
  <2>7. r[w].noncomparable <=> (R(w) # {} /\ h[n].cand # v.content) \/ ~Match
    BY <2>1, <2>4, <2>5
  <2> QED
    BY <2>3, <2>6, <2>7
<1>5. /\ InClass(h, n, req, v, "Missing") = Missing(h, n, req)
      /\ InClass(h, n, req, v, "Failed") = Failed(h, n, req)
      /\ InClass(h, n, req, v, "Unknown") = Unknown(h, n, req)
  BY <1>4 DEF Missing, Failed, Unknown, InClass
<1>6. /\ Noncomparable(h, n, req, v) \subseteq Incomparable(h, n, req, v)
      /\ Incomparable(h, n, req, v) \subseteq Noncomparable(h, n, req, v) \cup Missing(h, n, req)
  BY <1>4 DEF Noncomparable, Missing, Incomparable
<1> QED
  BY <1>3, <1>5, <1>6

\* Within its bounds the kernel is ready exactly when the compatibility rules are,
\* and reports the same status.
LEMMA NativeReadinessAgrees ==
    ASSUME NEW h \in Seq(ForgeRecord), NEW n \in CurrentCandidate(h),
           NEW req \in SUBSET Workflows, NEW v, ReadinessBounded(h, req)
    PROVE  /\ Ready(h, n, req, v) => NativeReady(h, n, req, v)
           /\ NativeReadinessStatus(h, n, req, v) = {ReadinessStatus(h, n, req, v)}
           /\ readiness_projection(h, n, req, v, TRUE) # {}
<1> DEFINE r == Requirements(h, n, req, v)
           In(c) == InClass(h, n, req, v, c)
           incomparable == Incomparable(h, n, req, v)
           answer == readiness_project(r, req # {})
<1>1. /\ readiness_projection(h, n, req, v, req # {}) = {answer}
      /\ readiness_projection(h, n, req, v, TRUE) # {}
      /\ In("Missing") = Missing(h, n, req) /\ In("Failed") = Failed(h, n, req)
      /\ In("Unknown") = Unknown(h, n, req)
      /\ Noncomparable(h, n, req, v) \subseteq incomparable
      /\ incomparable \subseteq Noncomparable(h, n, req, v) \cup Missing(h, n, req)
  <2>1. PICK valid \in BOOLEAN : valid = (req # {})
    BY Zenon
  <2>2. /\ readiness_projection(h, n, req, v, valid) = {readiness_project(r, valid)}
        /\ In("Missing") = Missing(h, n, req) /\ In("Failed") = Failed(h, n, req)
        /\ In("Unknown") = Unknown(h, n, req)
        /\ Noncomparable(h, n, req, v) \subseteq incomparable
        /\ incomparable \subseteq Noncomparable(h, n, req, v) \cup Missing(h, n, req)
    BY NativeReadiness
  <2>3. readiness_projection(h, n, req, v, req # {}) = {answer}
    BY <2>1, <2>2, Zenon
  <2>4. readiness_projection(h, n, req, v, TRUE) # {}
    <3>1. PICK yes \in BOOLEAN : yes = TRUE
      BY Zenon
    <3>2. readiness_projection(h, n, req, v, yes) = {readiness_project(r, yes)}
      BY NativeReadiness
    <3> QED
      BY <3>1, <3>2, Zenon
  <2> HIDE DEF r, In, incomparable, answer
  <2> QED
    BY <2>2, <2>3, <2>4
<1>2. IsFiniteSet(req) /\ DOMAIN r = req
  BY DeclaredWorkflows, FS_Subset DEF Requirements
<1>3. \A c : IsFiniteSet(In(c))
  BY <1>2, FS_Subset DEF InClass
<1>4. IsFiniteSet(incomparable)
  BY <1>2, FS_Subset DEF Incomparable
<1>5. /\ answer.ready <=>
           /\ req # {}
           /\ Cardinality(In("Missing")) = 0 /\ Cardinality(In("Failed")) = 0
           /\ Cardinality(In("Unknown")) = 0 /\ Cardinality(incomparable) = 0
      /\ answer.status = readiness_status(answer.ready, Cardinality(In("Failed")))
      /\ answer.ready \in BOOLEAN
  <2> DEFINE c == add_requirements(r)
             ready == req # {} /\ \A k \in DOMAIN c : c[k] = 0
  <2>1. c = [missing_count |-> Cardinality(In("Missing")), failed_count |-> Cardinality(In("Failed")),
             unknown_count |-> Cardinality(In("Unknown")),
             noncomparable_count |-> Cardinality(incomparable)]
    BY <1>2 DEF add_requirements, InClass, Incomparable
  <2>2. answer = [counts |-> c, ready |-> ready, status |-> readiness_status(ready, c.failed_count)]
    BY Zenon DEF readiness_project
  <2> HIDE DEF r, In, incomparable, answer, c
  <2>3. (\A k \in DOMAIN c : c[k] = 0) <=>
           /\ Cardinality(In("Missing")) = 0 /\ Cardinality(In("Failed")) = 0
           /\ Cardinality(In("Unknown")) = 0 /\ Cardinality(incomparable) = 0
    BY <2>1
  <2>4. c.failed_count = Cardinality(In("Failed"))
    BY <2>1
  <2>5. answer.ready = ready /\ answer.status = readiness_status(ready, c.failed_count)
    <3> HIDE DEF ready
    <3> QED
      BY <2>2
  <2> QED
    BY <2>3, <2>4, <2>5
<1> HIDE DEF r, In, incomparable, answer
<1>6. /\ \A c : Cardinality(In(c)) = 0 <=> In(c) = {}
      /\ Cardinality(incomparable) = 0 <=> incomparable = {}
      /\ Cardinality(In("Failed")) \in Nat
  BY <1>3, <1>4, FS_EmptySet, FS_CardinalityType
<1>7. answer.ready <=> Ready(h, n, req, v)
  BY <1>1, <1>5, <1>6 DEF Ready
<1>8. answer.status = ReadinessStatus(h, n, req, v)
  <2>1. Cardinality(In("Failed")) > 0 <=> Failed(h, n, req) # {}
    BY <1>1, <1>6
  <2>2. Ready(h, n, req, v) => Failed(h, n, req) = {}
    BY DEF Ready
  <2> QED
    BY <1>5, <1>7, <2>1, <2>2 DEF readiness_status, ReadinessStatus
<1>9. Ready(h, n, req, v) => NativeReady(h, n, req, v)
  BY <1>1, <1>7 DEF NativeReady
<1>10. NativeReadinessStatus(h, n, req, v) = {ReadinessStatus(h, n, req, v)}
  BY <1>1, <1>8 DEF NativeReadinessStatus
<1> QED
  BY <1>1, <1>9, <1>10

\* The native status is the host's, one answer and no other.
LEMMA NativeStatusAgrees ==
    ASSUME NEW h \in Seq(ForgeRecord), NEW n \in CurrentCandidate(h),
           NEW req \in SUBSET Workflows, NEW v, ReadinessBounded(h, req)
    PROVE  NativeReadinessStatus(h, n, req, v) = {ReadinessStatus(h, n, req, v)}
BY NativeReadinessAgrees


\* machine() answers, unambiguously, when nothing exceeds its bounds.
LEMMA Unambiguously ==
    ASSUME NEW h \in Seq(ForgeRecord), NEW v \in View, NEW q, NEW s, NEW req,
           req = Required[v.policy], q.projection = s, q.event_count <= EventBound,
           q.stage = project_stage(s, Cardinality(req), OfCurrent(h, "bundle") # {}),
           ReadinessBounded(h, req), s \in Projections, s.lineage_ok, Tracks(h, s, req)
    PROVE  NativeUnambiguous(h, v, q)
<1>1. req \in SUBSET Workflows
  BY RequiredType DEF View
<1>2. \A n \in CurrentCandidate(h) : readiness_projection(h, n, req, v, TRUE) # {}
  BY <1>1, NativeReadinessAgrees
<1>3. ~Mismatch(h, s)
  BY DEF Mismatch, Tracks, ShowsLineage
<1>4. q.stage # "AmbiguousHistory"
  BY DEF project_stage, undisposed_stage
<1> QED
  BY <1>2, <1>3, <1>4 DEF NativeUnambiguous, Projects

\* Inspection under the native adapter offers what the host allows.
LEMMA HostToNative ==
    ASSUME NEW h \in Seq(ForgeRecord), NEW v \in View, NEW a, NEW m, NEW o, NEW u, NEW s, NEW req,
           req = Required[v.policy], Authorized(o, m, h, v, a),
           NativeUnambiguous(h, v, u), u.preflight = FALSE, u.projection = s,
           u.freshness = project_freshness(s, v.content),
           ReadinessBounded(h, req), ReadinessBounded(h, Required[v.plan]), Tracks(h, s, req)
    PROVE  NativeAuthorized(o, m, h, v, a, u)
<1>r. req \in SUBSET Workflows /\ Required[v.plan] \in SUBSET Workflows
  BY RequiredType DEF View
<1>k. /\ ~Ambiguous(h) /\ DispositionStatus(h) = s.disposition
      /\ Freeze(h) = OfCurrent(h, "freeze") /\ Disposition(h) = OfCurrent(h, "disposition")
      /\ s.current_candidate = CurrentId(h)
  BY TrackedHost
<1>c. ASSUME NEW cand, RequireCandidate(h, v, cand) PROVE NativeRequireCandidate(h, u, cand)
  BY <1>c, <1>k DEF RequireCandidate, NativeRequireCandidate, project_freshness, Zero
<1>n. ASSUME NEW n \in CurrentCandidate(h), NEW r \in {req, Required[v.plan]}, Ready(h, n, r, v)
      PROVE  NativeReady(h, n, r, v)
  <2>1. r \in SUBSET Workflows /\ ReadinessBounded(h, r)
    BY <1>r
  <2> QED
    BY <1>n, <2>1, NativeReadinessAgrees
<1>p. \A operation, evidence, next, status, reason :
          native_transition(u, operation, evidence, next, status, reason)
  BY DEF native_transition
<1>1. CASE o = "begin_epoch"
  <2>1. AuthorizeEpochBegin(h, a.epoch)
    BY <1>1 DEF Authorized
  <2>2. NativeEpochBegin(h, v, u, a.epoch)
    BY <1>p, <2>1 DEF AuthorizeEpochBegin, NativeEpochBegin
  <2> QED
    BY <1>1, <2>2 DEF NativeAuthorized
<1>2. CASE o \in {"register", "refresh"}
  <2>1. AuthorizeCandidateRegister(h, v, a.cand, v.content)
    BY <1>2 DEF Authorized
  <2>2. NativeCandidateRegister(h, v, u, a.cand, v.content)
    BY <1>p, <2>1 DEF AuthorizeCandidateRegister, NativeCandidateRegister
  <2> QED
    BY <1>2, <2>2 DEF NativeAuthorized
<1>3. CASE o = "check"
  <2>1. AuthorizeDevelopmentWork(h, v, a.cand)
    BY <1>3 DEF Authorized
  <2>2. NativeDevelopmentWork(h, v, u, a.cand)
    BY <1>c, <2>1 DEF AuthorizeDevelopmentWork, NativeDevelopmentWork
  <2> QED
    BY <1>3, <2>2 DEF NativeAuthorized
<1>4. CASE o \in {"selected", "rejected"}
  <2>1. AuthorizeCandidateDisposition(h, v, a.cand, o)
    BY <1>4 DEF Authorized
  <2>2. /\ NativeRequireCandidate(h, u, a.cand) /\ s.disposition = "undisposed"
        /\ o = "selected" => \A n \in CurrentCandidate(h) : Ready(h, n, req, v)
    BY <1>c, <1>k, <2>1 DEF AuthorizeCandidateDisposition
  <2>3. \A n \in CurrentCandidate(h) :
          /\ o = "selected" => NativeReady(h, n, req, v)
          /\ NativeReadinessStatus(h, n, req, v) # {}
    <3> SUFFICES ASSUME NEW n \in CurrentCandidate(h)
                 PROVE  /\ o = "selected" => NativeReady(h, n, req, v)
                        /\ NativeReadinessStatus(h, n, req, v) # {}
      OBVIOUS
    <3>1. NativeReadinessStatus(h, n, req, v) = {ReadinessStatus(h, n, req, v)}
      BY <1>r, NativeStatusAgrees
    <3> QED
      BY <1>n, <2>2, <3>1
  <2>4. NativeCandidateDisposition(h, v, u, a.cand, o)
    BY <1>p, <2>2, <2>3 DEF NativeCandidateDisposition
  <2> QED
    BY <1>4, <2>4 DEF NativeAuthorized
<1>5. CASE o = "freeze"
  <2>1. AuthorizeCandidateFreeze(h, v, a.cand, v.plan)
    BY <1>5 DEF Authorized
  <2>2. /\ NativeRequireCandidate(h, u, a.cand) /\ s.disposition = "selected" /\ Freeze(h) = {}
        /\ \A e \in ActiveEpoch(h) : h[e].auth = v.auth
        /\ \A d \in Disposition(h) : h[d].policy = v.policy /\ h[d].evidence = "PASS"
        /\ \A n \in CurrentCandidate(h) : Ready(h, n, req, v) /\ Ready(h, n, Required[v.plan], v)
    BY <1>c, <1>k, <2>1 DEF AuthorizeCandidateFreeze
  <2>3. \A n \in CurrentCandidate(h) :
          NativeReady(h, n, req, v) /\ NativeReady(h, n, Required[v.plan], v)
    BY <1>n, <2>2
  <2>4. Disposition(h) # {}
    BY <1>k, <2>2 DEF Tracks, ShowsDecisions
  <2>5. NativeCandidateFreeze(h, v, u, a.cand, v.plan)
    BY <1>p, <2>2, <2>3, <2>4 DEF NativeCandidateFreeze
  <2> QED
    BY <1>5, <2>5 DEF NativeAuthorized
<1>6. ASSUME AuthorizeEvaluatorEntry(h, v, a.cand)
      PROVE  /\ NativeEvaluatorEntry(h, v, u, a.cand)
             /\ m = "evaluator" => NativeBundle(h, v, u, a.cand, m)
  <2>1. PICK f \in Freeze(h) :
           /\ a.cand \subseteq {h[f].cand} /\ FreezeDrift(h, f, v) = {}
           /\ RequireCandidate(h, v, {h[f].cand})
           /\ DispositionStatus(h) = "selected" /\ Disposition(h) = {h[f].selection}
    BY <1>6 DEF AuthorizeEvaluatorEntry
  <2>2. NativeRequireCandidate(h, u, {h[f].cand}) /\ s.disposition = "selected"
    BY <1>c, <1>k, <2>1
  <2>3. NativeEvaluatorEntry(h, v, u, a.cand)
    BY <2>1, <2>2 DEF NativeEvaluatorEntry
  <2>4. NativeRequireCandidate(h, u, a.cand)
    BY <2>1, <2>2 DEF NativeRequireCandidate
  <2>5. \A g \in Freeze(h) : g = f
    BY <1>k, <2>1 DEF Ambiguous, AtMostOne
  <2>6. Freeze(h) # {} /\ Disposition(h) # {} /\ \A g \in Freeze(h) : FreezeDrift(h, g, v) = {}
    BY <2>1, <2>5
  <2>7. bundle_preconditions(h, v, u, a.cand, m)
    BY <2>2, <2>4, <2>6 DEF bundle_preconditions
  <2> QED
    BY <2>3, <2>7 DEF NativeBundle
<1>7. CASE o = "evaluate"
  BY <1>6, <1>7 DEF Authorized, NativeAuthorized
<1>8. CASE o = "bundle" /\ m = "development"
  <2>1. RequireCandidate(h, v, a.cand)
    BY <1>8 DEF Authorized
  <2>2. NativeBundle(h, v, u, a.cand, m)
    BY <1>c, <1>8, <2>1 DEF NativeBundle, bundle_preconditions
  <2> QED
    BY <1>8, <2>2 DEF NativeAuthorized
<1>9. CASE o = "bundle" /\ m = "evaluator"
  BY <1>6, <1>9 DEF Authorized, NativeAuthorized
<1> QED
  BY <1>1, <1>2, <1>3, <1>4, <1>5, <1>7, <1>8, <1>9 DEF Authorized

\* With one development process the native adapter refuses nothing of its own
\* while the records arrive in order and its envelopes are within bounds, and the
\* status a disposition records is the host's.
THEOREM ControlNativeAgrees ==
    ASSUME OneDevelopment
    PROVE  Spec => []NativeAgrees
<1>1. ASSUME TypeOK, Shaped, CandidateOnce, BindingInvariant, FreezeBacked, Lined(history)
      PROVE  NativeAgrees
  <2> SUFFICES ASSUME NEW p \in Procs, pc[p] = "authorize", NEW s \in seen[p], NEW v,
                      v = MachineView(p, s),
                      Authorized(op[p], Mode[p], history, v, named[p]),
                      WithinBounds(history, v, NativeProjection(history, v)),
                      \A n \in 1..Len(history) : InOrder(history, n)
               PROVE  /\ NativeAuthorized(op[p], Mode[p], history, v, named[p],
                                          NativeProjection(history, v))
                      /\ \A n \in CurrentCandidate(history) :
                           NativeReadinessStatus(history, n, Required[v.policy], v)
                               = {ReadinessStatus(history, n, Required[v.policy], v)}
    BY DEF NativeAgrees
  <2> DEFINE q == NativeProjection(history, v)
             u == With(q, [preflight |-> FALSE])
             req == Required[v.policy]
             t == project_events(native_history_events(history, req))
  <2>1. v \in View /\ history \in Seq(ForgeRecord) /\ req \in SUBSET Workflows
    <3>1. s \in View /\ tree \in View
      BY <1>1 DEF TypeOK
    <3>2. v \in View
      BY <3>1, MachineViews
    <3> QED
      BY <1>1, <3>2, RequiredType DEF TypeOK, View
  <2>2. op[p] \in Ops /\ Mode[p] \in {"development", "evaluator"} /\ Registered(history)
    <3>1. op[p] \in OpsOf(p)
      BY <1>1 DEF Shaped
    <3> QED
      BY <1>1, <3>1, ControlConstants DEF OpsOf, Ops, BindingInvariant
  <2>3. t \in Projections /\ t.lineage_ok /\ Tracks(history, t, req)
    BY <1>1, OrderedTracks
  <2>4. /\ u.projection = t /\ u.preflight = FALSE /\ u.event_count = q.event_count
        /\ u.freshness = project_freshness(t, v.content)
        /\ u.stage = project_stage(t, Cardinality(req), OfCurrent(history, "bundle") # {})
    BY DEF NativeProjection, project, With
  <2>5. /\ u.event_count <= EventBound
        /\ ReadinessBounded(history, req) /\ ReadinessBounded(history, Required[v.plan])
    BY <2>4 DEF WithinBounds
  <2> HIDE DEF q, u, t
  <2>6. NativeUnambiguous(history, v, u)
    BY <2>1, <2>3, <2>4, <2>5, Unambiguously
  <2>7. NativeAuthorized(op[p], Mode[p], history, v, named[p], u)
    BY <2>1, <2>3, <2>4, <2>5, <2>6, HostToNative
  <2>8. NativeAuthorized(op[p], Mode[p], history, v, named[p], q)
    BY <1>1, <2>1, <2>2, <2>7, PreflightGrants DEF u, q
  <2>9. \A n \in CurrentCandidate(history) :
          NativeReadinessStatus(history, n, req, v) = {ReadinessStatus(history, n, req, v)}
    BY <2>1, <2>5, NativeStatusAgrees
  <2> QED
    BY <2>8, <2>9 DEF q
<1>2. FreezeInvariant => FreezeBacked
  BY DEF FreezeInvariant
<1> QED
  BY <1>1, <1>2, ControlTypes, ControlCandidateOnce, ControlBindings, ControlFreezes, ControlLined,
     PTL
-----------------------------------------------------------------------------
(* Inspection under the native adapter, any processes beside it.           *)

\* What inspection lists, and the submission fits, is authorized but for the preflight.
LEMMA ListedIsAuthorized ==
    ASSUME NEW h \in Seq(ForgeRecord), NEW v \in View, NEW q, NEW a, NEW m, NEW o, o \in Ops,
           inspect_transition(o, m, h, v, q), SubmissionFits(o, h, v, a)
    PROVE  NativeAuthorized(o, m, h, v, a, With(q, [preflight |-> FALSE]))
<1> DEFINE u == With(q, [preflight |-> FALSE])
           b == [epoch |-> ActiveEpoch(h), cand |-> CurrentId(h)]
<1>b. b.epoch = ActiveEpoch(h) /\ b.cand = CurrentId(h)
  OBVIOUS
<1>p. Required[v.plan] \in SUBSET Workflows
  BY RequiredType DEF View
<1>i. \/ o \in {"register", "refresh"} /\ NativeCandidateRegister(h, v, u, CurrentId(h), prospective)
      \/ o = "freeze" /\ NativeCandidateFreeze(h, v, u, CurrentId(h), v.policy)
      \/ o \notin {"register", "refresh", "freeze"} /\ NativeAuthorized(o, m, h, v, b, u)
  BY DEF inspect_transition
<1>rc. ASSUME NEW c, c \in {{}, CurrentId(h)}, NEW d, NativeRequireCandidate(h, u, d)
       PROVE  NativeRequireCandidate(h, u, c)
  BY <1>rc DEF NativeRequireCandidate
<1> HIDE DEF u, b
<1>1. CASE o = "begin_epoch"
  <2>1. NativeEpochBegin(h, v, u, ActiveEpoch(h))
    BY <1>b, <1>i, <1>1 DEF NativeAuthorized
  <2> QED
    BY <1>1, <2>1 DEF SubmissionFits, NativeAuthorized, u
<1>2. CASE o \in {"register", "refresh"}
  <2>1. NativeCandidateRegister(h, v, u, CurrentId(h), prospective)
    BY <1>i, <1>2
  <2>2. a.cand = CurrentId(h) /\ v.content \notin CurrentId(h)
    BY <1>2 DEF SubmissionFits
  <2>3. NativeCandidateRegister(h, v, u, a.cand, v.content)
    BY <2>1, <2>2 DEF NativeCandidateRegister
  <2> QED
    BY <1>2, <2>3 DEF NativeAuthorized, u
<1>3. CASE o = "check"
  <2>1. NativeDevelopmentWork(h, v, u, CurrentId(h))
    BY <1>b, <1>i, <1>3 DEF NativeAuthorized
  <2>2. a.cand \in {{}, CurrentId(h)}
    BY <1>3 DEF SubmissionFits
  <2>3. NativeDevelopmentWork(h, v, u, a.cand)
    BY <1>rc, <2>1, <2>2 DEF NativeDevelopmentWork
  <2> QED
    BY <1>3, <2>3 DEF NativeAuthorized, u
<1>4. CASE o \in {"selected", "rejected"}
  <2>1. NativeCandidateDisposition(h, v, u, CurrentId(h), o)
    BY <1>b, <1>i, <1>4 DEF NativeAuthorized
  <2>2. a.cand \in {{}, CurrentId(h)}
    BY <1>4 DEF SubmissionFits
  <2>3. NativeCandidateDisposition(h, v, u, a.cand, o)
    BY <1>rc, <2>1, <2>2 DEF NativeCandidateDisposition
  <2> QED
    BY <1>4, <2>3 DEF NativeAuthorized, u
<1>5. CASE o = "freeze"
  <2>1. NativeCandidateFreeze(h, v, u, CurrentId(h), v.policy)
    BY <1>i, <1>5
  <2>2. /\ a.cand \in {{}, CurrentId(h)} /\ ReadinessBounded(h, Required[v.plan])
        /\ \A n \in CurrentCandidate(h) : Ready(h, n, Required[v.plan], v)
    BY <1>5 DEF SubmissionFits
  <2>3. \A n \in CurrentCandidate(h) : NativeReady(h, n, Required[v.plan], v)
    BY <1>p, <2>2, NativeReadinessAgrees
  <2>4. NativeCandidateFreeze(h, v, u, a.cand, v.plan)
    BY <1>rc, <2>1, <2>2, <2>3 DEF NativeCandidateFreeze
  <2> QED
    BY <1>5, <2>4 DEF NativeAuthorized, u
<1>6. CASE o = "evaluate"
  <2>1. NativeEvaluatorEntry(h, v, u, CurrentId(h))
    BY <1>b, <1>i, <1>6 DEF NativeAuthorized
  <2>2. a.cand \subseteq CurrentId(h)
    BY <1>6 DEF SubmissionFits
  <2>3. NativeEvaluatorEntry(h, v, u, a.cand)
    BY <2>1, <2>2 DEF NativeEvaluatorEntry
  <2> QED
    BY <1>6, <2>3 DEF NativeAuthorized, u
<1>7. CASE o = "bundle"
  <2>1. NativeBundle(h, v, u, CurrentId(h), m)
    BY <1>b, <1>i, <1>7 DEF NativeAuthorized
  <2>2. a.cand \in {{}, CurrentId(h)}
    BY <1>7 DEF SubmissionFits
  <2>3. NativeBundle(h, v, u, a.cand, m)
    BY <1>rc, <2>1, <2>2 DEF NativeBundle, bundle_preconditions
  <2> QED
    BY <1>7, <2>3 DEF NativeAuthorized, u
<1> QED
  BY <1>1, <1>2, <1>3, <1>4, <1>5, <1>6, <1>7 DEF Ops, DevelopmentOps, EvaluatorOps

\* What is authorized, inspection lists, and its submission fits.
LEMMA AuthorizedIsListed ==
    ASSUME NEW h \in Seq(ForgeRecord), NEW v \in View, NEW a, NEW m, NEW o, o \in Ops,
           NativeAuthorized(o, m, h, v, a, NativeProjection(h, v))
    PROVE  inspect_transition(o, m, h, v, NativeProjection(h, v)) /\ SubmissionFits(o, h, v, a)
<1> DEFINE q == NativeProjection(h, v)
           u == With(q, [preflight |-> FALSE])
           b == [epoch |-> ActiveEpoch(h), cand |-> CurrentId(h)]
<1>b. b.epoch = ActiveEpoch(h) /\ b.cand = CurrentId(h)
  OBVIOUS
<1>w. Required[v.plan] \in SUBSET Workflows
  BY RequiredType DEF View
<1>u. /\ u.projection = q.projection /\ u.freshness = q.freshness /\ u.stage = q.stage
      /\ u.event_count = q.event_count /\ u.preflight = FALSE
  BY DEF NativeProjection, project, With
<1>i. \/ o \in {"register", "refresh"} /\ NativeCandidateRegister(h, v, u, CurrentId(h), prospective)
      \/ o = "freeze" /\ NativeCandidateFreeze(h, v, u, CurrentId(h), v.policy)
      \/ o \notin {"register", "refresh", "freeze"} /\ NativeAuthorized(o, m, h, v, b, u)
      => inspect_transition(o, m, h, v, q)
  BY DEF inspect_transition
<1>a. NativeAuthorized(o, m, h, v, a, q)
  OBVIOUS
<1> HIDE DEF u, q, b
<1>un. NativeUnambiguous(h, v, q) => NativeUnambiguous(h, v, u)
  BY <1>u DEF NativeUnambiguous, Projects
<1>rc. ASSUME NEW c, NativeRequireCandidate(h, q, c)
       PROVE  c \in {{}, CurrentId(h)} /\ NativeRequireCandidate(h, u, CurrentId(h))
  BY <1>rc, <1>u DEF NativeRequireCandidate
<1>t. \A operation, evidence, next, status, reason :
        native_transition(u, operation, evidence, next, status, reason)
  BY <1>u DEF native_transition
<1>1. CASE o = "begin_epoch"
  <2>1. NativeEpochBegin(h, v, q, a.epoch)
    BY <1>a, <1>1 DEF NativeAuthorized
  <2>2. NativeEpochBegin(h, v, u, b.epoch) /\ a.epoch = ActiveEpoch(h)
    BY <1>b, <1>t, <1>un, <2>1 DEF NativeEpochBegin
  <2> QED
    BY <1>i, <1>1, <2>2 DEF NativeAuthorized, SubmissionFits, q
<1>2. CASE o \in {"register", "refresh"}
  <2>1. NativeCandidateRegister(h, v, q, a.cand, v.content)
    BY <1>a, <1>2 DEF NativeAuthorized
  <2>2. prospective \notin CurrentId(h)
    BY ProjectionTypes, ControlConstants
  <2>3. /\ NativeCandidateRegister(h, v, u, CurrentId(h), prospective)
        /\ a.cand = CurrentId(h) /\ v.content \notin CurrentId(h)
    BY <1>t, <1>un, <2>1, <2>2 DEF NativeCandidateRegister
  <2> QED
    BY <1>i, <1>2, <2>3 DEF SubmissionFits, q
<1>3. CASE o = "check"
  <2>1. NativeDevelopmentWork(h, v, q, a.cand)
    BY <1>a, <1>3 DEF NativeAuthorized
  <2>2. NativeDevelopmentWork(h, v, u, b.cand) /\ a.cand \in {{}, CurrentId(h)}
    BY <1>b, <1>rc, <1>un, <2>1 DEF NativeDevelopmentWork
  <2> QED
    BY <1>i, <1>3, <2>2 DEF NativeAuthorized, SubmissionFits, q
<1>4. CASE o \in {"selected", "rejected"}
  <2>1. NativeCandidateDisposition(h, v, q, a.cand, o)
    BY <1>a, <1>4 DEF NativeAuthorized
  <2>2. NativeCandidateDisposition(h, v, u, b.cand, o) /\ a.cand \in {{}, CurrentId(h)}
    BY <1>b, <1>rc, <1>t, <1>u, <1>un, <2>1 DEF NativeCandidateDisposition
  <2> QED
    BY <1>i, <1>4, <2>2 DEF NativeAuthorized, SubmissionFits, q
<1>5. CASE o = "freeze"
  <2>1. NativeCandidateFreeze(h, v, q, a.cand, v.plan)
    BY <1>a, <1>5 DEF NativeAuthorized
  <2>2. NativeCandidateFreeze(h, v, u, CurrentId(h), v.policy) /\ a.cand \in {{}, CurrentId(h)}
    BY <1>rc, <1>t, <1>u, <1>un, <2>1 DEF NativeCandidateFreeze
  <2>3. \A n \in CurrentCandidate(h) : NativeReady(h, n, Required[v.plan], v)
    BY <2>1 DEF NativeCandidateFreeze
  <2>4. \A n \in CurrentCandidate(h) : Ready(h, n, Required[v.plan], v)
    BY <1>w, <2>3, NativeIsReady
  <2>5. ReadinessBounded(h, Required[v.plan])
    <3>1. PICK n \in CurrentCandidate(h) : TRUE
      BY <2>1 DEF NativeCandidateFreeze, NativeRequireCandidate, CurrentId
    <3>2. readiness_projection(h, n, Required[v.plan], v, Required[v.plan] # {}) # {}
      BY <2>3 DEF NativeReady
    <3> QED
      BY <3>2 DEF readiness_projection
  <2> QED
    BY <1>i, <1>5, <2>2, <2>4, <2>5 DEF SubmissionFits, q
<1>6. CASE o = "evaluate"
  <2>1. NativeEvaluatorEntry(h, v, q, a.cand)
    BY <1>a, <1>6 DEF NativeAuthorized
  <2>2. PICK f \in Freeze(h) :
           /\ a.cand \subseteq {h[f].cand} /\ FreezeDrift(h, f, v) = {}
           /\ NativeRequireCandidate(h, q, {h[f].cand})
           /\ q.projection.disposition = "selected" /\ Disposition(h) = {h[f].selection}
    BY <2>1 DEF NativeEvaluatorEntry
  <2>3. CurrentId(h) = {h[f].cand}
    BY <1>rc, <2>2
  <2>4. a.cand \in {{}, CurrentId(h)}
    BY <2>2, <2>3
  <2>5. NativeRequireCandidate(h, u, {h[f].cand})
    BY <1>rc, <2>2, <2>3
  <2>6. NativeEvaluatorEntry(h, v, u, b.cand)
    BY <1>b, <1>u, <1>un, <2>1, <2>2, <2>3, <2>5 DEF NativeEvaluatorEntry
  <2> QED
    BY <1>i, <1>6, <2>4, <2>6 DEF NativeAuthorized, SubmissionFits, q
<1>7. CASE o = "bundle"
  <2>1. NativeBundle(h, v, q, a.cand, m)
    BY <1>a, <1>7 DEF NativeAuthorized
  <2>2. NativeBundle(h, v, u, b.cand, m) /\ a.cand \in {{}, CurrentId(h)}
    BY <1>b, <1>rc, <1>u, <1>un, <2>1 DEF NativeBundle, bundle_preconditions
  <2> QED
    BY <1>i, <1>7, <2>2 DEF NativeAuthorized, SubmissionFits, q
<1> QED
  BY <1>1, <1>2, <1>3, <1>4, <1>5, <1>6, <1>7 DEF Ops, DevelopmentOps, EvaluatorOps

\* Under the native adapter an operation is granted exactly when inspection lists
\* it and the submission fits, and the compatibility rules then allow it, also
\* after processes raced.
THEOREM ControlNativeFailsClosed == Spec => []NativeFailsClosed
<1>1. ASSUME TypeOK, Shaped, CandidateOnce, BindingInvariant, FreezeBacked
      PROVE  NativeFailsClosed
  <2> SUFFICES ASSUME NEW p \in Procs, pc[p] = "authorize", NEW s \in seen[p]
               PROVE  LET v == MachineView(p, s)
                          q == NativeProjection(history, v)
                          granted == NativeAuthorized(op[p], Mode[p], history, v, named[p], q)
                      IN /\ granted <=> /\ inspect_transition(op[p], Mode[p], history, v, q)
                                        /\ SubmissionFits(op[p], history, v, named[p])
                         /\ granted => Authorized(op[p], Mode[p], history, v, named[p])
    BY DEF NativeFailsClosed
  <2> DEFINE v == MachineView(p, s)
             q == NativeProjection(history, v)
  <2>1. v \in View /\ history \in Seq(ForgeRecord)
    <3>1. s \in View /\ tree \in View
      BY <1>1 DEF TypeOK
    <3> QED
      BY <1>1, <3>1, MachineViews DEF TypeOK
  <2>2. op[p] \in Ops /\ Mode[p] \in {"development", "evaluator"} /\ Registered(history)
    <3>1. op[p] \in OpsOf(p)
      BY <1>1 DEF Shaped
    <3> QED
      BY <1>1, <3>1, ControlConstants DEF OpsOf, Ops, BindingInvariant
  <2>3. Answers(q, history, v)
    BY BothAnswer
  <2> HIDE DEF v, q
  <2>4. ASSUME NativeAuthorized(op[p], Mode[p], history, v, named[p], q)
        PROVE  /\ inspect_transition(op[p], Mode[p], history, v, q)
               /\ SubmissionFits(op[p], history, v, named[p])
    BY <2>1, <2>2, <2>4, AuthorizedIsListed DEF q
  <2>5. ASSUME inspect_transition(op[p], Mode[p], history, v, q),
               SubmissionFits(op[p], history, v, named[p])
        PROVE  NativeAuthorized(op[p], Mode[p], history, v, named[p], q)
    <3>1. NativeAuthorized(op[p], Mode[p], history, v, named[p],
                           With(q, [preflight |-> FALSE]))
      BY <2>1, <2>2, <2>5, ListedIsAuthorized
    <3> QED
      BY <1>1, <2>1, <2>2, <3>1, PreflightGrants DEF q
  <2>6. ASSUME NativeAuthorized(op[p], Mode[p], history, v, named[p], q)
        PROVE  Authorized(op[p], Mode[p], history, v, named[p])
    BY <1>1, <2>1, <2>2, <2>3, <2>6, NativeToHost
  <2> QED
    BY <2>4, <2>5, <2>6 DEF v, q
<1>2. FreezeInvariant => FreezeBacked
  BY DEF FreezeInvariant
<1> QED
  BY <1>1, <1>2, ControlTypes, ControlCandidateOnce, ControlBindings, ControlFreezes, PTL
-----------------------------------------------------------------------------
(* Reconciliation.                                                         *)

\* s lists the elements of S, each once.
Lists(s, S) ==
    /\ s \in [1..Cardinality(S) -> S]
    /\ \A i, j \in 1..Cardinality(S) : s[i] = s[j] => i = j

LEMMA ListExists ==
    ASSUME NEW S, IsFiniteSet(S)
    PROVE  \E s : Lists(s, S)
<1> DEFINE K == {k \in Nat : \A T \in SUBSET S : Cardinality(T) = k => \E s : Lists(s, T)}
<1>1. 0 \in K
  <2> SUFFICES ASSUME NEW T \in SUBSET S, Cardinality(T) = 0 PROVE \E s : Lists(s, T)
    OBVIOUS
  <2> DEFINE s == [i \in 1..0 |-> i]
  <2>1. Lists(s, T)
    BY DEF Lists
  <2> QED
    BY <2>1, Zenon
<1>2. \A k \in Nat : k \in K => k + 1 \in K
  <2> SUFFICES ASSUME NEW k \in Nat, k \in K, NEW T \in SUBSET S, Cardinality(T) = k + 1
               PROVE  \E s : Lists(s, T)
    OBVIOUS
  <2>1. IsFiniteSet(T) /\ T # {}
    BY FS_Subset, FS_EmptySet
  <2>2. PICK x \in T : TRUE
    BY <2>1
  <2>3. T \ {x} \in SUBSET S /\ Cardinality(T \ {x}) = k
    <3>1. Cardinality(T \ {x}) = Cardinality(T) - 1
      BY <2>1, <2>2, FS_RemoveElement
    <3> QED
      BY <3>1
  <2>4. PICK t : Lists(t, T \ {x})
    BY <2>3
  <2> DEFINE s == [i \in 1..k + 1 |-> IF i = k + 1 THEN x ELSE t[i]]
  <2>5. /\ t \in [1..k -> T \ {x}]
        /\ \A i, j \in 1..k : t[i] = t[j] => i = j
    BY <2>3, <2>4 DEF Lists
  <2>6. /\ s \in [1..k + 1 -> T]
        /\ \A i \in 1..k + 1 : i \in 1..k \/ i = k + 1
        /\ \A i \in 1..k : s[i] = t[i] /\ s[i] # x
        /\ s[k + 1] = x
    BY <2>2, <2>5
  <2> HIDE DEF s
  <2>7. \A i, j \in 1..k + 1 : s[i] = s[j] => i = j
    BY <2>5, <2>6
  <2>8. Lists(s, T)
    BY <2>6, <2>7 DEF Lists
  <2> QED
    BY <2>8, Zenon
<1>3. Cardinality(S) \in K
  <2> HIDE DEF K
  <2> QED
    BY <1>1, <1>2, Induction, FS_CardinalityType
<1> QED
  BY <1>3

\* SetToSeq lists a finite set, nothing left out.
LEMMA SetListed ==
    ASSUME NEW S, IsFiniteSet(S)
    PROVE  /\ Lists(SetToSeq(S), S) /\ Len(SetToSeq(S)) = Cardinality(S)
           /\ \A x \in S : \E i \in 1..Cardinality(S) : SetToSeq(S)[i] = x
<1> DEFINE s == SetToSeq(S)
           n == Cardinality(S)
<1>0. n \in Nat
  BY FS_CardinalityType
<1>1. Lists(s, S)
  <2>1. PICK t : Lists(t, S)
    BY ListExists
  <2>2. \E f \in [1..n -> S] : IsInjective(f)
    BY <2>1 DEF Lists, IsInjective
  <2>3. s \in [1..n -> S] /\ IsInjective(s)
    BY <2>2, Zenon DEF SetToSeq
  <2> HIDE DEF s
  <2> QED
    BY <2>3 DEF Lists, IsInjective
<1> HIDE DEF s
<1>2. Len(s) = n
  BY <1>0, <1>1 DEF Lists
<1>3. ASSUME NEW x \in S, \A i \in 1..n : s[i] # x PROVE FALSE
  <2>1. IsFiniteSet(S \ {x}) /\ Cardinality(S \ {x}) = n - 1
    BY FS_RemoveElement
  <2>2. IsFiniteSet(1..n) /\ Cardinality(1..n) = n
    BY <1>0, FS_Interval
  <2>3. s \in [1..n -> S \ {x}]
    BY <1>1, <1>3 DEF Lists
  <2>4. Cardinality(S \ {x}) < Cardinality(1..n)
    BY <1>0, <2>1, <2>2
  <2>5. \E i, j \in 1..n : i # j /\ s[i] = s[j]
    <3> HIDE DEF n
    <3> QED
      BY <2>1, <2>2, <2>3, <2>4, FS_PigeonHole
  <2> QED
    BY <1>1, <2>5 DEF Lists
<1> QED
  BY <1>1, <1>2, <1>3 DEF s

Reconciliations ==
    [status : Statuses, category_count : Nat, conflicting_category_count : Nat, observed_count : Nat]

\* The statuses of the records R.
StatusesOf(h, R) == {h[m].status : m \in R}

\* f is the run of the fold over the categories cats.
Folded(h, c, cats, f) ==
    /\ f[0] = initial
    /\ \A k \in 1..Len(cats) : f[k] = add_category(f[k - 1], category(h, c, cats[k]))
    /\ \A k \in 0..Len(cats) : f[k] \in Reconciliations

LEMMA EvidenceStatuses ==
    ASSUME NEW h \in Seq(ForgeRecord), NEW c, NEW w
    PROVE  /\ IsFiniteSet(Evidence(h, c, w)) /\ Cardinality(Evidence(h, c, w)) \in Nat
           /\ Evidence(h, c, w) \subseteq 1..Len(h)
           /\ StatusesOf(h, Evidence(h, c, w)) \subseteq Statuses
<1>1. IsFiniteSet(1..Len(h))
  BY FS_Interval
<1>2. Evidence(h, c, w) \subseteq 1..Len(h)
  BY DEF Evidence, Positions
<1>3. \A n \in Evidence(h, c, w) : h[n] \in ForgeRecord /\ h[n].kind = "result"
  BY DEF Evidence, Positions
<1>4. \A n \in Evidence(h, c, w) : h[n].status \in Statuses
  BY <1>3 DEF ForgeRecord, EpochRecord, CandidateRecord, ResultRecord, DispositionRecord,
                FreezeRecord, EvaluationRecord, BundleRecord
<1> QED
  BY <1>1, <1>2, <1>4, FS_Subset, FS_CardinalityType DEF StatusesOf

\* One step of the fold.
LEMMA CategoryAdded ==
    ASSUME NEW h \in Seq(ForgeRecord), NEW c, NEW w, NEW s \in Reconciliations
    PROVE  LET E == Evidence(h, c, w)
               t == add_category(s, category(h, c, w))
           IN /\ t \in Reconciliations
              /\ t.status = IF s.category_count > 0
                              THEN dominate(s.status, Summary(StatusesOf(h, E)))
                              ELSE Summary(StatusesOf(h, E))
              /\ t.category_count = s.category_count + 1
              /\ t.observed_count = s.observed_count + Cardinality(E)
              /\ t.conflicting_category_count = s.conflicting_category_count
                     + (IF Cardinality(StatusesOf(h, E)) > 1 THEN 1 ELSE 0)
<1> DEFINE E == Evidence(h, c, w)
           S == StatusesOf(h, E)
           p == category(h, c, w)
<1>1. p = [status |-> Summary(S), conflict |-> Cardinality(S) > 1, observed_count |-> Cardinality(E)]
  BY Zenon DEF category, StatusesOf
<1>2. /\ p.status = Summary(S) /\ p.observed_count = Cardinality(E)
      /\ p.conflict <=> Cardinality(S) > 1
  <2> HIDE DEF p
  <2> QED
    BY <1>1
<1>3. Cardinality(E) \in Nat
  BY EvidenceStatuses
<1>4. Summary(S) \in Statuses /\ dominate(s.status, Summary(S)) \in Statuses
  BY DEF Summary, dominate, Statuses
<1> HIDE DEF p, E, S
<1>5. add_category(s, p) =
        [status |-> IF s.category_count > 0 THEN dominate(s.status, Summary(S)) ELSE Summary(S),
         category_count |-> s.category_count + 1,
         conflicting_category_count |-> s.conflicting_category_count
                                            + (IF p.conflict THEN 1 ELSE 0),
         observed_count |-> s.observed_count + Cardinality(E)]
  BY <1>2 DEF add_category, combine_category
<1>6. add_category(s, p) \in Reconciliations
  BY <1>3, <1>4, <1>5 DEF Reconciliations
<1>8. LET t == add_category(s, p)
      IN /\ t.status = IF s.category_count > 0 THEN dominate(s.status, Summary(S)) ELSE Summary(S)
         /\ t.category_count = s.category_count + 1
         /\ t.observed_count = s.observed_count + Cardinality(E)
         /\ t.conflicting_category_count = s.conflicting_category_count
                + (IF Cardinality(S) > 1 THEN 1 ELSE 0)
  BY <1>2, <1>5
<1> QED
  BY <1>6, <1>8 DEF p, E, S

LEMMA Reconciles ==
    ASSUME NEW h \in Seq(ForgeRecord), NEW c
    PROVE  LET S == Categories(h, c)
           IN /\ IsFiniteSet(S)
              /\ \E cats, f : /\ Lists(cats, S) /\ Len(cats) = Cardinality(S)
                              /\ \A w \in S : \E i \in 1..Cardinality(S) : cats[i] = w
                              /\ Folded(h, c, cats, f)
                              /\ reconcile(h, c) = f[Len(cats)]
<1> DEFINE S == Categories(h, c)
           cats == SetToSeq(S)
           n == Len(cats)
           Runs(f) == f = [k \in 0..Len(cats) |->
                             IF k = 0 THEN initial
                             ELSE add_category(f[k - 1], category(h, c, cats[k]))]
           step == [k \in 1..n |-> [s \in Reconciliations |-> add_category(s, category(h, c, cats[k]))]]
           after == CHOOSE f : Runs(f)
<1>0. IsFiniteSet(S)
  BY DeclaredWorkflows, FS_Subset DEF Categories
<1>1. /\ Lists(cats, S) /\ Len(cats) = Cardinality(S) /\ n \in Nat
      /\ \A w \in S : \E i \in 1..Cardinality(S) : cats[i] = w
  <2> HIDE DEF S
  <2> QED
    BY <1>0, SetListed, FS_CardinalityType
<1>2. reconcile(h, c) = after[Len(cats)]
  BY Zenon DEF reconcile
<1>3. initial \in Reconciliations
  BY DEF initial, Reconciliations, Statuses
<1> HIDE DEF cats, S
<1>4. step \in [1..n -> [Reconciliations -> Reconciliations]]
  BY CategoryAdded
<1>5. PICK g : Iterates(g, n, Reconciliations, initial, step)
  <2> HIDE DEF step, n
  <2> QED
    BY <1>1, <1>3, <1>4, Recursion
<1>6. Runs(g)
  <2>1. \A k \in 1..n : g[k] = add_category(g[k - 1], category(h, c, cats[k]))
    BY <1>1, <1>5 DEF Iterates
  <2>2. g = [k \in 0..n |-> g[k]] /\ g[0] = initial
    BY <1>5 DEF Iterates
  <2>3. \A k \in 0..n : g[k] = IF k = 0 THEN initial
                               ELSE add_category(g[k - 1], category(h, c, cats[k]))
    BY <1>1, <2>1, <2>2
  <2> QED
    BY <2>2, <2>3
<1>7. Runs(after)
  <2> HIDE DEF Runs
  <2> QED
    BY <1>6, Zenon
<1> HIDE DEF after
<1>8. \A k \in 0..n : after[k] = IF k = 0 THEN initial
                                 ELSE add_category(after[k - 1], category(h, c, cats[k]))
  BY <1>7
<1> HIDE DEF Runs, step
<1>9. after[0] = initial
      /\ \A k \in 1..n : after[k] = add_category(after[k - 1], category(h, c, cats[k]))
  BY <1>1, <1>8
<1>10. \A k \in 0..n : after[k] \in Reconciliations
  <2> DEFINE K == {k \in Nat : k <= n => after[k] \in Reconciliations}
  <2>1. 0 \in K
    BY <1>3, <1>9
  <2>2. ASSUME NEW k \in Nat, k \in K PROVE k + 1 \in K
    <3> SUFFICES ASSUME k + 1 <= n PROVE after[k + 1] \in Reconciliations
      OBVIOUS
    <3>1. after[k] \in Reconciliations /\ k + 1 \in 1..n /\ (k + 1) - 1 = k
      BY <1>1, <2>2
    <3>2. after[k + 1] = add_category(after[k], category(h, c, cats[k + 1]))
      BY <1>9, <3>1
    <3> QED
      BY <3>1, <3>2, CategoryAdded
  <2>3. \A k \in Nat : k \in K
    <3> HIDE DEF K
    <3> QED BY <2>1, <2>2, Induction
  <2> QED
    BY <1>1, <2>3
<1>11. Folded(h, c, cats, after)
  BY <1>9, <1>10 DEF Folded
<1> QED
  BY <1>0, <1>1, <1>2, <1>11, Zenon DEF S

\* The results of c in the first k categories.
Counted(h, c, cats, k) ==
    {m \in Positions(h, "result") : h[m].cand = c /\ \E i \in 1..k : h[m].workflow = cats[i]}

LEMMA SummaryJoins ==
    ASSUME NEW A \in SUBSET Statuses, NEW B \in SUBSET Statuses
    PROVE  /\ A # {} /\ B # {} => dominate(Summary(A), Summary(B)) = Summary(A \cup B)
           /\ A = {} => Summary(A \cup B) = Summary(B)
  BY DEF dominate, Summary, Statuses

LEMMA StatusesJoined ==
    ASSUME NEW h, NEW A, NEW B
    PROVE  /\ StatusesOf(h, A \cup B) = StatusesOf(h, A) \cup StatusesOf(h, B)
           /\ StatusesOf(h, A) = {} <=> A = {}
<1>1. StatusesOf(h, A \cup B) = StatusesOf(h, A) \cup StatusesOf(h, B)
  BY DEF StatusesOf
<1>2. \A m \in A : h[m].status \in StatusesOf(h, A)
  BY DEF StatusesOf
<1>3. A = {} => StatusesOf(h, A) = {}
  BY DEF StatusesOf
<1> QED
  BY <1>1, <1>2, <1>3

\* What the fold has reached after k categories.
FoldReached(h, c, cats, k, s) ==
    /\ s.category_count = k
    /\ s.observed_count = Cardinality(Counted(h, c, cats, k))
    /\ s.status = Summary(StatusesOf(h, Counted(h, c, cats, k)))
    /\ s.conflicting_category_count = 0 <=>
         \A i \in 1..k : ~(Cardinality(StatusesOf(h, Evidence(h, c, cats[i]))) > 1)

LEMMA FoldSound ==
    ASSUME NEW h \in Seq(ForgeRecord), NEW c, NEW cats, NEW f, NEW n \in Nat, Len(cats) = n,
           \A i, j \in 1..n : cats[i] = cats[j] => i = j,
           \A i \in 1..n : Evidence(h, c, cats[i]) # {},
           Folded(h, c, cats, f)
    PROVE  FoldReached(h, c, cats, n, f[n])
<1> DEFINE P(k) == Counted(h, c, cats, k)
           K == {k \in Nat : k <= n => FoldReached(h, c, cats, k, f[k])}
<1>p. \A k : IsFiniteSet(P(k)) /\ StatusesOf(h, P(k)) \in SUBSET Statuses
  <2>1. \A k : P(k) \subseteq 1..Len(h) /\ StatusesOf(h, P(k)) \in SUBSET Statuses
    <3> SUFFICES ASSUME NEW k PROVE P(k) \subseteq 1..Len(h)
                                    /\ \A m \in P(k) : h[m].status \in Statuses
      BY DEF StatusesOf
    <3>1. P(k) \subseteq 1..Len(h) /\ \A m \in P(k) : h[m] \in ForgeRecord /\ h[m].kind = "result"
      BY DEF Counted, Positions
    <3> QED
      BY <3>1 DEF ForgeRecord, EpochRecord, CandidateRecord, ResultRecord, DispositionRecord,
                  FreezeRecord, EvaluationRecord, BundleRecord
  <2>2. IsFiniteSet(1..Len(h))
    BY FS_Interval
  <2> QED
    BY <2>1, <2>2, FS_Subset
<1>1. 0 \in K
  <2>1. P(0) = {}
    BY DEF Counted
  <2>2. StatusesOf(h, P(0)) = {} /\ Cardinality(P(0)) = 0
    BY <2>1, FS_EmptySet DEF StatusesOf
  <2>3. f[0] = initial
    BY DEF Folded
  <2>4. FoldReached(h, c, cats, 0, f[0])
    BY <2>2, <2>3 DEF FoldReached, initial, Summary
  <2> QED
    BY <2>4
<1>2. ASSUME NEW k \in Nat, k \in K PROVE k + 1 \in K
  <2> SUFFICES ASSUME k + 1 <= n PROVE FoldReached(h, c, cats, k + 1, f[k + 1])
    OBVIOUS
  <2> DEFINE w == cats[k + 1]
             E == Evidence(h, c, w)
             s == f[k]
             t == f[k + 1]
  <2>1. k + 1 \in 1..n /\ k \in 0..n /\ k <= n /\ (k + 1) - 1 = k
    OBVIOUS
  <2>2. s \in Reconciliations /\ t = add_category(s, category(h, c, w))
    BY <2>1 DEF Folded
  <2>3. FoldReached(h, c, cats, k, s)
    BY <1>2, <2>1
  <2>4. P(k + 1) = P(k) \cup E /\ P(k) \cap E = {} /\ E # {} /\ (k > 0 => P(k) # {})
    <3>1. \A i \in 1..k + 1 : i \in 1..k \/ i = k + 1
      OBVIOUS
    <3>2. P(k + 1) = P(k) \cup E
      BY <2>1, <3>1 DEF Counted, Evidence
    <3>3. ASSUME NEW m \in P(k), m \in E PROVE FALSE
      <4>1. PICK i \in 1..k : h[m].workflow = cats[i]
        BY <3>3 DEF Counted
      <4>2. cats[i] = cats[k + 1] /\ i \in 1..n /\ i # k + 1
        BY <2>1, <3>3, <4>1 DEF Evidence
      <4> QED
        BY <2>1, <4>2
    <3>4. k > 0 => 1 \in 1..k /\ 1 \in 1..n
      BY <2>1
    <3>5. k > 0 => P(k) # {}
      BY <3>4 DEF Counted, Evidence
    <3> QED
      BY <2>1, <3>2, <3>3, <3>5
  <2>5. /\ IsFiniteSet(E) /\ Cardinality(E) \in Nat /\ StatusesOf(h, E) \in SUBSET Statuses
    BY EvidenceStatuses
  <2>6. /\ t \in Reconciliations
        /\ t.status = IF s.category_count > 0 THEN dominate(s.status, Summary(StatusesOf(h, E)))
                      ELSE Summary(StatusesOf(h, E))
        /\ t.category_count = s.category_count + 1
        /\ t.observed_count = s.observed_count + Cardinality(E)
        /\ t.conflicting_category_count = s.conflicting_category_count
               + (IF Cardinality(StatusesOf(h, E)) > 1 THEN 1 ELSE 0)
    BY <2>2, CategoryAdded
  <2> HIDE DEF s, t, E, w
  <2>7. Cardinality(P(k + 1)) = Cardinality(P(k)) + Cardinality(E)
    <3>1. Cardinality(P(k) \cup E) = Cardinality(P(k)) + Cardinality(E) - Cardinality(P(k) \cap E)
      BY <1>p, <2>5, FS_Union
    <3>2. Cardinality(P(k) \cap E) = 0 /\ Cardinality(P(k)) \in Nat
      BY <1>p, <2>4, FS_EmptySet, FS_CardinalityType
    <3>3. Cardinality(P(k + 1)) = Cardinality(P(k) \cup E)
      BY <2>4
    <3> HIDE DEF P
    <3> QED
      BY <2>5, <3>1, <3>2, <3>3
  <2>8. /\ StatusesOf(h, P(k + 1)) = StatusesOf(h, P(k)) \cup StatusesOf(h, E)
        /\ StatusesOf(h, E) # {}
        /\ (StatusesOf(h, P(k)) = {} <=> P(k) = {})
    <3>1. P(k + 1) = P(k) \cup E /\ E # {}
      BY <2>4
    <3>2. StatusesOf(h, P(k) \cup E) = StatusesOf(h, P(k)) \cup StatusesOf(h, E)
      BY StatusesJoined
    <3>3. StatusesOf(h, E) # {} /\ (StatusesOf(h, P(k)) = {} <=> P(k) = {})
      BY <3>1, StatusesJoined
    <3> QED
      BY <3>1, <3>2, <3>3, Zenon
  <2>9. t.status = Summary(StatusesOf(h, P(k + 1)))
    <3>1. s.category_count = k /\ s.status = Summary(StatusesOf(h, P(k)))
      BY <2>3 DEF FoldReached
    <3>2. k = 0 => StatusesOf(h, P(k)) = {}
      BY DEF Counted, StatusesOf
    <3>3. k > 0 => StatusesOf(h, P(k)) # {}
      BY <2>4, <2>8
    <3>4. StatusesOf(h, P(k)) \in SUBSET Statuses
      BY <1>p
    <3>5. /\ StatusesOf(h, P(k)) # {} =>
               dominate(Summary(StatusesOf(h, P(k))), Summary(StatusesOf(h, E)))
                   = Summary(StatusesOf(h, P(k)) \cup StatusesOf(h, E))
          /\ StatusesOf(h, P(k)) = {} =>
               Summary(StatusesOf(h, P(k)) \cup StatusesOf(h, E)) = Summary(StatusesOf(h, E))
      BY <2>5, <2>8, <3>4, SummaryJoins
    <3>8. StatusesOf(h, P(k + 1)) = StatusesOf(h, P(k)) \cup StatusesOf(h, E)
      BY <2>8
    <3> DEFINE A == StatusesOf(h, P(k))
               B == StatusesOf(h, E)
               U == StatusesOf(h, P(k + 1))
    <3>9. U = A \cup B
      BY <3>8
    <3>10. s.category_count = k /\ s.status = Summary(A) /\ (k = 0 <=> A = {})
      BY <3>1, <3>2, <3>3
    <3>11. /\ A # {} => dominate(Summary(A), Summary(B)) = Summary(A \cup B)
           /\ A = {} => Summary(A \cup B) = Summary(B)
      BY <3>5
    <3>12. t.status = IF s.category_count > 0 THEN dominate(s.status, Summary(B)) ELSE Summary(B)
      BY <2>6
    <3> HIDE DEF A, B, U
    <3>13. t.status = Summary(U)
      BY <3>9, <3>10, <3>11, <3>12
    <3> QED
      BY <3>13 DEF U
  <2> DEFINE C(i) == Cardinality(StatusesOf(h, Evidence(h, c, cats[i])))
  <2>10. t.conflicting_category_count = 0 <=> \A i \in 1..k + 1 : ~(C(i) > 1)
    <3>1. s.conflicting_category_count = 0 <=> \A i \in 1..k : ~(C(i) > 1)
      BY <2>3 DEF FoldReached
    <3>2. s.conflicting_category_count \in Nat
      BY <2>2 DEF Reconciliations
    <3>3. t.conflicting_category_count
            = s.conflicting_category_count + (IF C(k + 1) > 1 THEN 1 ELSE 0)
      BY <2>6 DEF E, w
    <3> HIDE DEF C
    <3> QED
      BY <3>1, <3>2, <3>3
  <2>11. t.category_count = k + 1 /\ t.observed_count = Cardinality(P(k + 1))
    BY <2>3, <2>6, <2>7 DEF FoldReached
  <2> QED
    BY <2>9, <2>10, <2>11 DEF FoldReached, t
<1>3. \A k \in Nat : k \in K
  <2> HIDE DEF K
  <2> QED BY <1>1, <1>2, Induction
<1> QED
  BY <1>3

\* What reconcile() answers: the summary of all results of the candidate, all of
\* them observed, and a conflict only when results of one category differ.
LEMMA ReconcileAnswers ==
    ASSUME NEW h \in Seq(ForgeRecord), NEW c
    PROVE  LET R == {n \in Positions(h, "result") : h[n].cand = c}
               r == reconcile(h, c)
           IN /\ r.observed_count = Cardinality(R)
              /\ r.status = Summary({h[n].status : n \in R})
              /\ r.conflicting_category_count = 0 <=>
                   \A m, n \in R : h[m].workflow = h[n].workflow => h[m].status = h[n].status
<1> DEFINE S == Categories(h, c)
           N == Cardinality(S)
           R == {n \in Positions(h, "result") : h[n].cand = c}
           r == reconcile(h, c)
<1>1. IsFiniteSet(S)
  BY Reconciles
<1>2. PICK cats, f : /\ Lists(cats, S) /\ Len(cats) = N
                     /\ \A w \in S : \E i \in 1..N : cats[i] = w
                     /\ Folded(h, c, cats, f)
                     /\ r = f[N]
  <2>1. PICK cats, f : /\ Lists(cats, S) /\ Len(cats) = Cardinality(S)
                       /\ \A w \in S : \E i \in 1..Cardinality(S) : cats[i] = w
                       /\ Folded(h, c, cats, f)
                       /\ reconcile(h, c) = f[Len(cats)]
    BY Reconciles, Zenon
  <2> QED
    BY <2>1
<1>3. N \in Nat
  BY <1>1, FS_CardinalityType
<1>4. \A i \in 1..N : Evidence(h, c, cats[i]) # {}
  <2>1. \A i \in 1..N : cats[i] \in S
    BY <1>2 DEF Lists
  <2> QED
    BY <2>1 DEF Categories
<1>5. FoldReached(h, c, cats, N, r)
  <2>1. \A i, j \in 1..N : cats[i] = cats[j] => i = j
    BY <1>2 DEF Lists
  <2> HIDE DEF N, r
  <2>2. FoldReached(h, c, cats, N, f[N])
    BY <1>2, <1>3, <1>4, <2>1, FoldSound
  <2> QED
    BY <1>2, <2>2
<1>6. ASSUME NEW n \in R PROVE h[n].workflow \in S /\ n \in Evidence(h, c, h[n].workflow)
  <2>1. n \in Evidence(h, c, h[n].workflow)
    BY <1>6 DEF Evidence
  <2>2. h[n] \in ForgeRecord /\ h[n].kind = "result"
    BY <1>6 DEF Positions
  <2>3. h[n].workflow \in Workflows
    BY <2>2 DEF ForgeRecord, EpochRecord, CandidateRecord, ResultRecord, DispositionRecord,
                FreezeRecord, EvaluationRecord, BundleRecord
  <2> QED
    BY <2>1, <2>3 DEF Categories
<1>7. Counted(h, c, cats, N) = R
  <2>1. \A n \in R : \E i \in 1..N : h[n].workflow = cats[i]
    BY <1>2, <1>6
  <2> QED
    BY <2>1 DEF Counted
<1>8. /\ r.observed_count = Cardinality(R) /\ r.status = Summary(StatusesOf(h, R))
      /\ r.conflicting_category_count = 0 <=>
           \A i \in 1..N : ~(Cardinality(StatusesOf(h, Evidence(h, c, cats[i]))) > 1)
  <2> HIDE DEF r, R, N
  <2> QED
    BY <1>5, <1>7 DEF FoldReached
<1>9. ASSUME NEW w
      PROVE  Cardinality(StatusesOf(h, Evidence(h, c, w))) > 1 <=>
               \E m, n \in Evidence(h, c, w) : h[m].status # h[n].status
  <2> DEFINE T == StatusesOf(h, Evidence(h, c, w))
  <2>1. IsFiniteSet(T) /\ Cardinality(T) \in Nat
    <3>1. IsFiniteSet(Statuses)
      <4>1. IsFiniteSet({}) /\ IsFiniteSet({} \cup {"PASS"})
        BY FS_EmptySet, FS_AddElement
      <4>2. IsFiniteSet(({} \cup {"PASS"}) \cup {"FAIL"})
        BY <4>1, FS_AddElement
      <4>3. IsFiniteSet((({} \cup {"PASS"}) \cup {"FAIL"}) \cup {"UNKNOWN"})
        BY <4>2, FS_AddElement
      <4>4. Statuses = (({} \cup {"PASS"}) \cup {"FAIL"}) \cup {"UNKNOWN"}
        BY DEF Statuses
      <4> QED
        BY <4>3, <4>4
    <3>2. T \subseteq Statuses
      BY EvidenceStatuses
    <3> QED
      BY <3>1, <3>2, FS_Subset, FS_CardinalityType
  <2>2. (\E m, n \in Evidence(h, c, w) : h[m].status # h[n].status) <=> \E x, y \in T : x # y
    BY DEF StatusesOf
  <2> HIDE DEF T
  <2>3. ASSUME NEW x \in T, NEW y \in T, x # y PROVE Cardinality(T) > 1
    <3>1. Cardinality(T) # 0
      BY <2>1, FS_EmptySet
    <3>2. Cardinality(T) # 1
      BY <2>1, <2>3, FS_Singleton
    <3> QED
      BY <2>1, <3>1, <3>2
  <2>4. ASSUME \A x, y \in T : x = y PROVE ~(Cardinality(T) > 1)
    <3>1. CASE T = {}
      BY <3>1, FS_EmptySet
    <3>2. CASE T # {}
      <4>1. PICK x \in T : TRUE
        BY <3>2
      <4>2. T = {x}
        BY <2>4, <4>1
      <4>3. Cardinality({x}) = 1
        BY FS_Singleton
      <4> QED
        BY <4>2, <4>3
    <3> QED
      BY <3>1, <3>2
  <2>5. Cardinality(T) > 1 <=> \E x, y \in T : x # y
    BY <2>3, <2>4
  <2> QED
    BY <2>2, <2>5 DEF T
<1>10. (\A i \in 1..N : ~(Cardinality(StatusesOf(h, Evidence(h, c, cats[i]))) > 1)) <=>
         \A m, n \in R : h[m].workflow = h[n].workflow => h[m].status = h[n].status
  <2>1. (\A i \in 1..N : ~(Cardinality(StatusesOf(h, Evidence(h, c, cats[i]))) > 1)) <=>
          \A i \in 1..N : \A m, n \in Evidence(h, c, cats[i]) : h[m].status = h[n].status
    BY <1>9
  <2>2. ASSUME NEW m \in R, NEW n \in R, h[m].workflow = h[n].workflow,
               \A i \in 1..N : \A x, y \in Evidence(h, c, cats[i]) : h[x].status = h[y].status
        PROVE  h[m].status = h[n].status
    <3>1. PICK i \in 1..N : cats[i] = h[m].workflow
      BY <1>2, <1>6
    <3>2. m \in Evidence(h, c, cats[i]) /\ n \in Evidence(h, c, cats[i])
      BY <1>6, <2>2, <3>1
    <3> QED
      BY <2>2, <3>2
  <2>3. ASSUME NEW i \in 1..N, NEW m \in Evidence(h, c, cats[i]), NEW n \in Evidence(h, c, cats[i])
        PROVE  m \in R /\ n \in R /\ h[m].workflow = h[n].workflow
    BY DEF Evidence
  <2> HIDE DEF R, N
  <2> QED
    BY <2>1, <2>2, <2>3
<1> QED
  BY <1>8, <1>10 DEF StatusesOf

\* Any processes, any adapter: the native reconciliation answers within its
\* bounds, its status is the worst of all results of the candidate, and it names
\* a conflict exactly when results of one category differ.
THEOREM ControlReconcileSound == Spec => []ReconcileSound
<1>1. TypeOK => ReconcileSound
  <2> SUFFICES ASSUME history \in Seq(ForgeRecord), NEW c \in CurrentId(history)
               PROVE  LET R == {n \in Positions(history, "result") : history[n].cand = c}
                      IN /\ ReconciliationBounded(history, c) =>
                              native_reconciliation(history, c) # {}
                         /\ \A r \in native_reconciliation(history, c) :
                              /\ r.status = Summary({history[n].status : n \in R})
                              /\ r.conflicting_category_count = 0 <=>
                                   \A m, n \in R : history[m].workflow = history[n].workflow
                                                     => history[m].status = history[n].status
    BY DEF TypeOK, ReconcileSound
  <2>1. reconciliation_projection(history, c) \subseteq {reconcile(history, c)}
    BY DEF reconciliation_projection
  <2>2. ReconciliationBounded(history, c) =>
          reconciliation_projection(history, c) = {reconcile(history, c)}
    BY DEF reconciliation_projection
  <2> DEFINE R == {n \in Positions(history, "result") : history[n].cand = c}
             r == reconcile(history, c)
  <2>3. /\ r.observed_count = Cardinality(R)
        /\ r.status = Summary({history[n].status : n \in R})
        /\ r.conflicting_category_count = 0 <=>
             \A m, n \in R : history[m].workflow = history[n].workflow
                               => history[m].status = history[n].status
    BY ReconcileAnswers
  <2>4. /\ native_reconciliation(history, c) \subseteq {r}
        /\ ReconciliationBounded(history, c) => r \in native_reconciliation(history, c)
    <3> HIDE DEF r
    <3> QED
      BY <2>1, <2>2, <2>3 DEF native_reconciliation, r
  <2> HIDE DEF r
  <2> QED
    BY <2>3, <2>4
<1> QED
  BY <1>1, ControlTypes, PTL
=============================================================================
