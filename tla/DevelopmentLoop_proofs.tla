------------------------ MODULE DevelopmentLoop_proofs ------------------------
(***************************************************************************)
(* Theorems about the development loop: a verdict rests on this            *)
(* invocation's runs, a repair on a diagnosed failure, a PASS on what the  *)
(* plan in force asks for, and the kernel and the host agree.              *)
(***************************************************************************)
EXTENDS DevelopmentLoop, FiniteSetTheorems, TLAPS

-----------------------------------------------------------------------------
(* What a PASS of the assurance kernel rests on, for every evidence record *)
(* that the host can send.                                                 *)

\* What stopping with success requires in either phase.
Supported(phase, e) ==
    /\ e.identity_binding_valid /\ e.evidence_fresh
    /\ phase = "InitialVerification" =>
         /\ e.test_present /\ e.provider_evidence_present /\ e.test_status = "PASS"
         /\ e.plan_present => e.plan_current
    /\ phase = "AfterRepair" =>
         /\ e.source_changed
         /\ e.plan_present => e.rebound_plan_present /\ e.rebound_plan_current
         /\ e.post_repair_test_present /\ e.post_repair_test_status = "PASS"
    /\ e.proof_required =>
         e.family_proof_present /\ e.family_proof_status = "PASS" /\ e.proof_sufficient

\* The disposition of the kernel's shared last question: either the answer that
\* was left to give, and then the proof is there if it is required, or no success.
LEMMA ProofDecision ==
    ASSUME NEW phase, NEW e, NEW status, NEW done,
           proof_decision(phase, e, status, done).decision \in {"StopPass", "Finalize"},
           e \in ForgeEvidenceState
    PROVE  /\ proof_decision(phase, e, status, done) = done
           /\ e.proof_required =>
                e.family_proof_present /\ e.family_proof_status = "PASS" /\ e.proof_sufficient
  BY DEF proof_decision, terminal, action, ForgeEvidenceState, Verdicts

\* assurance.mncs, decide: the kernel stops with success only on evidence that
\* is present, current, bound and passing; after a repair that means a changed
\* source, a current rebound plan and a passing test of the repaired source.
THEOREM SuccessIsSupported ==
    ASSUME NEW phase \in LoopPhases, NEW e \in ForgeEvidenceState,
           decide(phase, e).decision \in {"StopPass", "Finalize"}
    PROVE  Supported(phase, e)
<1>1. CASE phase = "InitialVerification"
  <2>1. initial_decision(e).decision \in {"StopPass", "Finalize"}
    BY <1>1 DEF decide
  <2>2. ~(failing_decision(phase, e, evidence_status(phase, e)).decision \in {"StopPass", "Finalize"})
    BY DEF failing_decision, terminal, action
  <2> DEFINE status == evidence_status(phase, e)
             done   == terminal(phase, status, "StopPass", "InitialPass")
  <2> HIDE DEF status
  <2>3. /\ e.identity_binding_valid /\ e.evidence_fresh
        /\ e.test_present /\ e.provider_evidence_present
        /\ e.test_status = "PASS"
        /\ e.plan_present => e.plan_current
        /\ proof_decision(phase, e, status, done).decision \in {"StopPass", "Finalize"}
    BY <1>1, <2>1, <2>2 DEF initial_decision, terminal, status, ForgeEvidenceState, Verdicts
  <2>4. QED
    BY <1>1, <2>3, ProofDecision DEF Supported
<1>2. CASE phase = "AfterRepair"
  <2> DEFINE status == evidence_status(phase, e)
             done   == terminal(phase, "PASS", "Finalize", "AssuranceComplete")
  <2> HIDE DEF status
  <2>1. after_repair_decision(e).decision \in {"StopPass", "Finalize"}
    BY <1>2 DEF decide
  <2>2. /\ e.identity_binding_valid /\ e.evidence_fresh /\ e.source_changed
        /\ e.plan_present => e.rebound_plan_present /\ e.rebound_plan_current
        /\ e.post_repair_test_present /\ e.post_repair_test_status = "PASS"
        /\ proof_decision(phase, e, status, done).decision \in {"StopPass", "Finalize"}
    BY <1>2, <2>1 DEF after_repair_decision, terminal, action, status, ForgeEvidenceState, Verdicts
  <2>3. QED
    BY <1>2, <2>2, ProofDecision DEF Supported
<1>3. QED
  BY <1>1, <1>2 DEF LoopPhases

-----------------------------------------------------------------------------
(* The invocation, the documents and the developer.                        *)

FileRecords ==
    [after_plan : Opt(Plans), result : Opt(Results), after_result : Opt(Results),
     witness : Opt(Witnesses), validation : Opt(Validations),
     inspection : Opt({"inspection"}), diagnosis : Opt(Diagnoses)]

LoopStates == {"idle", "test", "read", "proof", "debug", "judge", "repair", "rebind",
               "retest", "verify"}

LoopRecords ==
    [pc : LoopStates, provider_mode : {"invoke", "consume"}, test : Opt(Tests),
     repair : {"none", "incomplete", "complete"}, ravel : BOOLEAN, began : 0 .. ProviderRuns,
     plan : Opt(Plans), post_plan : Opt(Plans), after_plan : Opt(Plans),
     result : Opt(Results), witness : Opt(Witnesses), diagnosis : Opt(Diagnoses),
     written : SUBSET Contents]

\* What an invocation has read, and what lies on disk.
Types ==
    /\ source \in Contents
    /\ clock \in 0 .. ProviderRuns
    /\ files \in FileRecords
    /\ loop \in LoopRecords

\* What this invocation reads was produced since it began.
Begun ==
    /\ loop.began <= clock
    /\ loop.provider_mode = "invoke" =>
         /\ loop.pc = "test" => files.result = {}
         /\ loop.pc = "read" => \A t \in files.result : t.run > loop.began
         /\ \A t \in loop.result : t.run > loop.began
    /\ loop.pc = "verify" => \A t \in files.after_result : t.run > loop.began

\* From here on the invocation acts on a failing test.
Failing == {"debug", "judge", "repair", "rebind", "retest", "verify"}
Repairing == {"repair", "rebind", "retest", "verify"}

\* The result read decides the branch, the branch of the repair is entered only
\* with the diagnosis of this failure, and a planned source is tested again only
\* with a plan for what was written.
Selected ==
    /\ loop.pc \in {"idle", "test", "read"} => loop.result = {}
    /\ loop.pc = "proof" => \E t \in Results : loop.result = {t} /\ t.verdict # "FAIL"
    /\ loop.pc \in Failing => \E t \in Results : loop.result = {t} /\ t.verdict = "FAIL"
    /\ loop.pc \in Repairing =>
         \E w \in loop.witness, d \in loop.diagnosis :
            /\ \A t \in loop.result : w.run = t.run
            /\ w.test = loop.test
            /\ d.of = w.id /\ d.sufficient
    /\ loop.written # {} => loop.pc \in Repairing
    /\ loop.pc \in {"retest", "verify"} /\ loop.plan # {} => loop.after_plan # {}

\* What is persisted of a concluded invocation: one document at most.
Documented ==
    /\ doc = {} \/ \E d : doc = {d}
    /\ \A d \in doc :
                   /\ d.compat \in Verdicts \cup {"none", "raise"}
                   /\ d.native.status \in Verdicts
                   /\ d.native.decision \in LoopDecisions
                   /\ d.repair \in {"NOT_REQUESTED", "CANDIDATE_NOT_REQUESTED",
                                    "NOT_ADMISSIBLE", "APPLIED"}

IInv == Types /\ Begun /\ Selected /\ VerdictFresh /\ PassSupported /\ ModesAgree /\ Documented

-----------------------------------------------------------------------------
(* Records updated by name.                                                *)

LEMMA WithField ==
    ASSUME NEW r, NEW u, NEW x, x \in DOMAIN r
    PROVE  With(r, u)[x] = IF x \in DOMAIN u THEN u[x] ELSE r[x]
  BY DEF With

LEMMA Optional ==
    ASSUME NEW S
    PROVE  /\ {} \in Opt(S)
           /\ \A x \in S : {x} \in Opt(S)
           /\ \A o \in Opt(S) : o = {} \/ \E x \in S : o = {x}
  BY DEF Opt

LEMMA TheElement == ASSUME NEW x PROVE The({x}) = x
  BY DEF The

\* The steps that only move the control or name one field.
LEMMA LoopMoves ==
    ASSUME NEW l \in LoopRecords, NEW pc \in LoopStates, NEW m, m = With(l, [pc |-> pc])
    PROVE  /\ m \in LoopRecords
           /\ m.pc = pc /\ m.provider_mode = l.provider_mode /\ m.test = l.test
           /\ m.repair = l.repair /\ m.ravel = l.ravel /\ m.began = l.began
           /\ m.plan = l.plan /\ m.post_plan = l.post_plan /\ m.after_plan = l.after_plan
           /\ m.result = l.result /\ m.witness = l.witness /\ m.diagnosis = l.diagnosis
           /\ m.written = l.written
  BY DEF With, LoopRecords

LEMMA InitialFacts ==
    ASSUME loop \in LoopRecords, The(loop.result).verdict \in Verdicts, loop.repair \in {"none", "incomplete", "complete"}
    PROVE  /\ _loop_facts \in ForgeEvidenceState
           /\ _loop_facts.test_status = The(loop.result).verdict
           /\ assurance_defaults \in ForgeEvidenceState
           /\ assurance_defaults.test_status = The(loop.result).verdict
           /\ assurance_defaults.identity_binding_valid = TRUE
  BY DEF With, _loop_facts, assurance_defaults, ForgeEvidenceState, Verdicts, repair_plan_admissible

-----------------------------------------------------------------------------
(* The kernel's answers.                                                   *)

LEMMA Dominates ==
    ASSUME NEW S
    PROVE  /\ "FAIL" \in S => dominate(S) = "FAIL"
           /\ "FAIL" \notin S /\ "UNKNOWN" \in S => dominate(S) = "UNKNOWN"
           /\ "FAIL" \notin S /\ "UNKNOWN" \notin S => dominate(S) = "PASS"
  BY DEF dominate

\* Whatever is decided before a repair is reported with the status of the evidence.
LEMMA InitialStatus ==
    ASSUME NEW e
    PROVE  decide("InitialVerification", e).status = evidence_status("InitialVerification", e)
<1> DEFINE status == evidence_status("InitialVerification", e)
<1> HIDE DEF status
<1>1. failing_decision("InitialVerification", e, status).status = status
  BY DEF failing_decision, terminal, action
<1>2. ASSUME NEW done, done.status = status
      PROVE  proof_decision("InitialVerification", e, status, done).status = status
  BY <1>2 DEF proof_decision, terminal, action
<1>3. terminal("InitialVerification", status, "StopPass", "InitialPass").status = status
  BY DEF terminal
<1>4. proof_decision("InitialVerification", e, status,
           terminal("InitialVerification", status, "StopPass", "InitialPass")).status = status
  BY <1>2, <1>3
<1>5. decide("InitialVerification", e) = initial_decision(e)
  BY DEF decide
<1>6. initial_decision(e).status = status
  BY <1>1, <1>4 DEF initial_decision, terminal, status
<1> QED
  BY <1>5, <1>6 DEF status

\* The status of the evidence before a repair.
LEMMA InitialEvidence ==
    ASSUME NEW e \in ForgeEvidenceState, e.test_present, e.identity_binding_valid,
           e.evidence_fresh, e.provider_evidence_present, e.plan_current,
           e.proof_required => e.family_proof_present \/ e.family_proof_status = "UNKNOWN"
    PROVE  evidence_status("InitialVerification", e)
             = dominate({e.test_status, "PASS",
                         IF e.proof_required THEN e.family_proof_status ELSE "PASS"})
  BY DEF evidence_status, StatusIf

LEMMA FailingEvidence ==
    ASSUME NEW phase, NEW e, e.test_status = "FAIL"
    PROVE  evidence_status(phase, e) = "FAIL"
  BY DEF evidence_status, dominate

\* After a repair the status is that of the evidence or the final PASS.
LEMMA AfterStatus ==
    ASSUME NEW e \in ForgeEvidenceState
    PROVE  \/ decide("AfterRepair", e).status = evidence_status("AfterRepair", e)
           \/ /\ decide("AfterRepair", e).status = "PASS"
              /\ decide("AfterRepair", e).decision = "Finalize"
<1> DEFINE status == evidence_status("AfterRepair", e)
           done == terminal("AfterRepair", "PASS", "Finalize", "AssuranceComplete")
<1> HIDE DEF status
<1>1. done.status = "PASS" /\ done.decision = "Finalize"
  BY DEF terminal
<1> HIDE DEF done
<1>2. \/ proof_decision("AfterRepair", e, status, done).status = status
      \/ proof_decision("AfterRepair", e, status, done) = done
  BY DEF proof_decision, terminal, action
<1>3. decide("AfterRepair", e) = after_repair_decision(e)
  BY DEF decide
<1>4. \/ after_repair_decision(e).status = status
      \/ after_repair_decision(e) = done
  BY <1>2 DEF after_repair_decision, terminal, action, status, done
<1> QED
  BY <1>1, <1>3, <1>4 DEF status

\* Every answer is one of the vocabulary.
LEMMA DecisionTypes ==
    ASSUME NEW phase \in LoopPhases, NEW e \in ForgeEvidenceState
    PROVE  decide(phase, e).status \in Verdicts /\ decide(phase, e).decision \in LoopDecisions
<1> DEFINE status == evidence_status(phase, e)
           Answer(a) == a.status \in Verdicts /\ a.decision \in LoopDecisions
<1>0. status \in Verdicts
  BY DEF evidence_status, dominate, Verdicts
<1> HIDE DEF status
<1>1. \A st, d, n, r : st \in Verdicts /\ d \in LoopDecisions =>
         Answer(terminal(phase, st, d, r)) /\ Answer(action(phase, st, d, n, r))
  BY DEF terminal, action
<1>2. /\ {"StopPass", "StopFail", "StopUnknown", "RequestDiagnosis", "RequestRepair",
          "RequireReboundPlan", "RunSelectedVerification", "RequireFamilyProof", "Finalize"} = LoopDecisions
      /\ "PASS" \in Verdicts
  BY DEF LoopDecisions, Verdicts
<1> HIDE DEF Answer
<1>3. Answer(failing_decision(phase, e, status))
  BY <1>0, <1>1, <1>2 DEF failing_decision
<1>4. ASSUME NEW done, Answer(done) PROVE Answer(proof_decision(phase, e, status, done))
  BY <1>0, <1>1, <1>2, <1>4 DEF proof_decision
<1>5. CASE phase = "InitialVerification"
  <2>1. Answer(proof_decision(phase, e, status, terminal(phase, status, "StopPass", "InitialPass")))
    BY <1>0, <1>1, <1>2, <1>4
  <2>2. Answer(initial_decision(e))
    BY <1>0, <1>1, <1>2, <1>3, <1>5, <2>1 DEF initial_decision, status
  <2> QED
    BY <1>5, <2>2 DEF decide, Answer
<1>6. CASE phase = "AfterRepair"
  <2>1. Answer(proof_decision(phase, e, status, terminal(phase, "PASS", "Finalize", "AssuranceComplete")))
    BY <1>0, <1>1, <1>2, <1>4
  <2>2. Answer(after_repair_decision(e))
    BY <1>0, <1>1, <1>2, <1>6, <2>1 DEF after_repair_decision, status
  <2> QED
    BY <1>6, <2>2 DEF decide, Answer
<1> QED
  BY <1>5, <1>6 DEF LoopPhases

-----------------------------------------------------------------------------
(* Conclusions.                                                            *)

\* The three properties of a document, and its types.
Sound(d) ==
    /\ d.provider_mode = "invoke" => d.result.run > d.began
    /\ \A t \in d.after : t.run > d.began
    /\ "PASS" \in {d.native.status, d.compat} =>
         /\ \A t \in IF d.repair = "APPLIED" THEN d.after ELSE {d.result} : t.verdict = "PASS"
         /\ d.after # {} \/ d.repair # "APPLIED"
         /\ \A p \in d.plans :
              (p.kind.sufficient_to_stop /\ ~p.kind.selected_repositories) \/ "PASS" \in d.family
         /\ d.native.status = "PASS" => d.native.decision \in {"StopPass", "Finalize"}
    /\ d.compat \in Verdicts =>
         \/ d.native.status = d.compat
         \/ d.repair = "APPLIED" /\ d.native.status = "FAIL" /\ d.compat = "UNKNOWN"
    /\ d.compat \in Verdicts \cup {"none", "raise"}
    /\ d.native.status \in Verdicts
    /\ d.native.decision \in LoopDecisions
    /\ d.repair \in {"NOT_REQUESTED", "CANDIDATE_NOT_REQUESTED", "NOT_ADMISSIBLE", "APPLIED"}

Documents == (doc = {} \/ \E d : doc = {d}) /\ \A d \in doc : Sound(d)

LEMMA DocumentsAre ==
    Documents <=> VerdictFresh /\ PassSupported /\ ModesAgree /\ Documented
  BY DEF Documents, Sound, VerdictFresh, PassSupported, ModesAgree, Documented

\* What _persist keeps.
LEMMA Concluded ==
    ASSUME NEW phase, NEW facts, NEW compat, NEW repair, NEW after, NEW family,
           Conclude(phase, facts, compat, repair, after, family)
    PROVE  /\ loop' = NoLoop
           /\ phase \in LoopPhases /\ facts \in ForgeEvidenceState
           /\ \E d : /\ doc' = {d}
                     /\ d.provider_mode = loop.provider_mode /\ d.native = decide(phase, facts)
                     /\ d.compat = compat /\ d.repair = repair /\ d.began = loop.began
                     /\ d.result = The(loop.result) /\ d.after = after
                     /\ d.plans = (IF repair = "APPLIED" THEN loop.after_plan ELSE loop.plan)
                     /\ d.family = family
<1>1. PICK decision \in assurance_loop(phase, facts) :
         doc' = {[provider_mode |-> loop.provider_mode, native |-> decision,
                  compat |-> compat, repair |-> repair, began |-> loop.began,
                  result |-> The(loop.result), after |-> after,
                  plans |-> IF repair = "APPLIED" THEN loop.after_plan ELSE loop.plan,
                  written |-> loop.written, family |-> family]}
  BY DEF Conclude
<1>2. phase \in LoopPhases /\ facts \in ForgeEvidenceState /\ decision = decide(phase, facts)
  BY <1>1 DEF assurance_loop
<1>3. loop' = NoLoop
  BY DEF Conclude
<1> DEFINE d == [provider_mode |-> loop.provider_mode, native |-> decision,
                 compat |-> compat, repair |-> repair, began |-> loop.began,
                 result |-> The(loop.result), after |-> after,
                 plans |-> IF repair = "APPLIED" THEN loop.after_plan ELSE loop.plan,
                 written |-> loop.written, family |-> family]
<1>4. /\ d.provider_mode = loop.provider_mode /\ d.native = decide(phase, facts)
      /\ d.compat = compat /\ d.repair = repair /\ d.began = loop.began
      /\ d.result = The(loop.result) /\ d.after = after
      /\ d.plans = (IF repair = "APPLIED" THEN loop.after_plan ELSE loop.plan)
      /\ d.family = family
  BY <1>2
<1>5. doc' = {d}
  BY <1>1
<1> HIDE DEF d
<1> QED
  BY <1>2, <1>3, <1>4, <1>5

\* A conclusion before a repair, of a failing test: FAIL, or, when the debugger's
\* identity is wrong, still FAIL with the decision to stop.
LEMMA FailingConclusion ==
    ASSUME IInv, loop.pc \in Failing, NEW facts, facts.test_status = The(loop.result).verdict,
           NEW compat \in {"FAIL", "raise"},
           NEW repair \in {"NOT_REQUESTED", "CANDIDATE_NOT_REQUESTED", "NOT_ADMISSIBLE"},
           Conclude("InitialVerification", facts, compat, repair, {}, {})
    PROVE  Documents' /\ loop' = NoLoop
<1>1. PICK t \in Results : loop.result = {t} /\ t.verdict = "FAIL"
  BY DEF IInv, Selected
<1>2. The(loop.result) = t
  BY <1>1, TheElement
<1>3. PICK d : /\ doc' = {d}
               /\ d.provider_mode = loop.provider_mode
               /\ d.native = decide("InitialVerification", facts)
               /\ d.compat = compat /\ d.repair = repair /\ d.began = loop.began
               /\ d.result = The(loop.result) /\ d.after = {}
  BY Concluded
<1>4. facts \in ForgeEvidenceState /\ loop' = NoLoop /\ "InitialVerification" \in LoopPhases
  BY Concluded
<1>5. d.native.status = "FAIL"
  BY <1>1, <1>2, <1>3, InitialStatus, FailingEvidence
<1>6. d.native.decision \in LoopDecisions
  BY <1>3, <1>4, DecisionTypes
<1>7. d.provider_mode = "invoke" => d.result.run > d.began
  BY <1>1, <1>2, <1>3 DEF IInv, Begun
<1>8. Sound(d)
  BY <1>3, <1>5, <1>6, <1>7 DEF Sound, Verdicts
<1> QED
  BY <1>3, <1>4, <1>8 DEF Documents

-----------------------------------------------------------------------------
(* One lemma per step.                                                     *)

LEMMA LoopReset ==
    ASSUME loop' = NoLoop, clock' \in Nat
    PROVE  loop' \in LoopRecords /\ Begun' /\ Selected'
<1>1. /\ NoLoop.pc = "idle" /\ NoLoop.began = 0 /\ NoLoop.result = {} /\ NoLoop.written = {}
      /\ NoLoop \in LoopRecords
  BY Optional, DevelopmentAssumption DEF NoLoop, LoopRecords, LoopStates
<1> QED
  BY <1>1 DEF Begun, Selected, Failing, Repairing

\* A step that concludes or gives up.
LEMMA Ends ==
    ASSUME IInv, loop' = NoLoop, Documents', UNCHANGED <<source, files, clock>>
    PROVE  IInv'
<1>1. Types'
  BY LoopReset DEF IInv, Types
<1>2. Begun' /\ Selected'
  BY LoopReset DEF IInv, Types
<1>3. (VerdictFresh /\ PassSupported /\ ModesAgree /\ Documented)'
  BY DocumentsAre, PTL
<1> QED
  BY <1>1, <1>2, <1>3 DEF IInv

\* A step that leaves the document.
LEMMA Goes ==
    ASSUME IInv, Types', Begun', Selected', doc' = doc \/ doc' = {}
    PROVE  IInv'
  BY DEF IInv, VerdictFresh, PassSupported, ModesAgree, Documented

LEMMA InitHolds == Init => IInv
<1> SUFFICES ASSUME Init PROVE IInv
  OBVIOUS
<1>1. /\ source \in Contents /\ files = [p \in DOMAIN FileTypes |-> {}]
      /\ clock = 0 /\ loop = NoLoop /\ doc = {}
  BY DEF Init
<1>2. /\ NoLoop.pc = "idle" /\ NoLoop.began = 0 /\ NoLoop.result = {} /\ NoLoop.written = {}
      /\ NoLoop \in LoopRecords
  BY Optional, DevelopmentAssumption DEF NoLoop, LoopRecords, LoopStates
<1>3. files \in FileRecords
  BY <1>1, Optional DEF FileRecords, FileTypes
<1>4. Types
  BY <1>1, <1>2, <1>3, DevelopmentAssumption DEF Types
<1>5. Begun /\ Selected
  BY <1>1, <1>2 DEF Begun, Selected, Failing, Repairing
<1>6. VerdictFresh /\ PassSupported /\ ModesAgree /\ Documented
  BY <1>1 DEF VerdictFresh, PassSupported, ModesAgree, Documented
<1> QED
  BY <1>4, <1>5, <1>6 DEF IInv

LEMMA StepAbandon == IInv /\ Abandon => IInv'
<1> SUFFICES ASSUME IInv, Abandon PROVE IInv'
  OBVIOUS
<1>1. Documents'
  BY DEF Abandon, Documents
<1> QED
  BY <1>1, Ends DEF Abandon

\* No update of the defaults touches the verdict of the first test run.
LEMMA FailingFacts ==
    ASSUME NEW u, "test_status" \notin DOMAIN u
    PROVE  With(assurance_defaults, u).test_status = The(loop.result).verdict
<1>1. assurance_defaults.test_status = The(loop.result).verdict
      /\ "test_status" \in DOMAIN assurance_defaults
  BY DEF assurance_defaults, With, _loop_facts
<1> QED
  BY <1>1 DEF With

LEMMA StepUndiagnosed ==
    ASSUME IInv, loop.pc \in Failing, NEW valid, ConcludeUndiagnosed(valid),
           UNCHANGED <<source, files, clock>>
    PROVE  IInv'
<1> DEFINE facts == With(assurance_defaults, [debug_status |-> "UNKNOWN",
                                              identity_binding_valid |-> valid])
<1>1. facts.test_status = The(loop.result).verdict
  BY FailingFacts
<1>2. Conclude("InitialVerification", facts, "FAIL", "NOT_REQUESTED", {}, {})
  BY DEF ConcludeUndiagnosed
<1> HIDE DEF facts
<1> QED
  BY <1>1, <1>2, FailingConclusion, Ends

LEMMA StepUnavailable == IInv /\ debugger_unavailable => IInv'
  BY StepUndiagnosed DEF debugger_unavailable, Failing

LEMMA StepRefuse == IInv /\ refuse_repair => IInv'
<1> SUFFICES ASSUME IInv, refuse_repair PROVE IInv'
  OBVIOUS
<1> DEFINE facts == With(assurance_defaults, [debug_status |-> "PASS", repair_admissible |-> FALSE])
<1>1. facts.test_status = The(loop.result).verdict
  BY FailingFacts
<1>2. /\ Conclude("InitialVerification", facts, "raise", "NOT_ADMISSIBLE", {}, {})
      /\ loop.pc \in Failing /\ UNCHANGED <<source, files, clock>>
  BY DEF refuse_repair, Failing
<1> HIDE DEF facts
<1> QED
  BY <1>1, <1>2, FailingConclusion, Ends

\* The repair branch is entered with the witness and the diagnosis on disk, which
\* have just been found bound to the failing run.
LEMMA StepJudge == IInv /\ judge_debug => IInv'
<1> SUFFICES ASSUME IInv, judge_debug PROVE IInv'
  OBVIOUS
<1> DEFINE facts == With(assurance_defaults, [debug_status |-> "PASS"])
           inadmissible == With(facts, [repair_admissible |-> FALSE])
<1>1. /\ facts.test_status = The(loop.result).verdict
      /\ inadmissible.test_status = The(loop.result).verdict
  <2>1. facts.test_status = The(loop.result).verdict
    BY FailingFacts
  <2>2. "test_status" \in DOMAIN facts
    BY DEF With, assurance_defaults, _loop_facts
  <2> QED
    BY <2>1, <2>2 DEF With
<1>2. /\ loop.pc = "judge" /\ loop.pc \in Failing /\ UNCHANGED <<source, files, clock>>
  BY DEF judge_debug, Failing
<1>3. \/ ConcludeUndiagnosed(TRUE)
      \/ ConcludeUndiagnosed(FALSE)
      \/ Conclude("InitialVerification", facts, "FAIL", "CANDIDATE_NOT_REQUESTED", {}, {})
      \/ Conclude("InitialVerification", inadmissible, "raise", "NOT_ADMISSIBLE", {}, {})
      \/ /\ WitnessBound /\ DiagnosisBound /\ DebugEstablished
         /\ loop' = With(loop, [pc |-> "repair", witness |-> files.witness,
                                diagnosis |-> files.diagnosis])
         /\ UNCHANGED doc
  BY DEF judge_debug
<1> HIDE DEF facts, inadmissible
<1>4. CASE ConcludeUndiagnosed(TRUE) \/ ConcludeUndiagnosed(FALSE)
  BY <1>2, <1>4, StepUndiagnosed
<1>5. CASE Conclude("InitialVerification", facts, "FAIL", "CANDIDATE_NOT_REQUESTED", {}, {})
  BY <1>1, <1>2, <1>5, FailingConclusion, Ends
<1>6. CASE Conclude("InitialVerification", inadmissible, "raise", "NOT_ADMISSIBLE", {}, {})
  BY <1>1, <1>2, <1>6, FailingConclusion, Ends
<1>7. CASE /\ WitnessBound /\ DiagnosisBound /\ DebugEstablished
           /\ loop' = With(loop, [pc |-> "repair", witness |-> files.witness,
                                  diagnosis |-> files.diagnosis])
           /\ UNCHANGED doc
  <2>1. PICK t \in Results : loop.result = {t} /\ t.verdict = "FAIL"
    BY <1>2 DEF IInv, Selected
  <2>2. /\ \E w \in files.witness : w.run = t.run /\ w.test = loop.test
        /\ \A d \in files.diagnosis, w \in files.witness : d.of = w.id
        /\ \E d \in files.diagnosis : d.sufficient
    BY <1>7, <2>1, TheElement DEF WitnessBound, DiagnosisBound, DebugEstablished
  <2>3. /\ loop \in LoopRecords /\ files.witness \in Opt(Witnesses)
        /\ files.diagnosis \in Opt(Diagnoses)
    BY DEF IInv, Types, FileRecords
  <2>4. /\ loop' \in LoopRecords
        /\ loop'.pc = "repair" /\ loop'.witness = files.witness
        /\ loop'.diagnosis = files.diagnosis /\ loop'.test = loop.test
        /\ loop'.result = loop.result /\ loop'.written = loop.written
        /\ loop'.began = loop.began /\ loop'.provider_mode = loop.provider_mode
    BY <1>7, <2>3 DEF With, LoopRecords, LoopStates
  <2>5. Types'
    BY <1>2, <2>4 DEF IInv, Types
  <2>6. Begun'
    BY <1>2, <2>4 DEF IInv, Begun
  <2>7. Selected'
    BY <1>2, <2>1, <2>2, <2>4 DEF Selected, Repairing
  <2> QED
    BY <1>7, <2>5, <2>6, <2>7, Goes
<1> QED
  BY <1>3, <1>4, <1>5, <1>6, <1>7

\* The steps between: what they read and write.
LEMMA StepRequest == IInv /\ Request => IInv'
<1> SUFFICES ASSUME IInv, Request PROVE IInv'
  OBVIOUS
<1>1. PICK mode \in {"invoke", "consume"}, ravel \in BOOLEAN, plan \in Opt(Plans),
           post_plan \in Opt(Plans), test \in Tests,
           repair \in {"none", "incomplete", "complete"} :
             failure_loop(mode, test, repair, plan, post_plan, ravel)
  BY DEF Request
<1>2. /\ loop' = With(NoLoop, [pc |-> IF mode = "invoke" THEN "test" ELSE "read",
                               provider_mode |-> mode, test |-> {test},
                               repair |-> repair, ravel |-> ravel, began |-> clock,
                               plan |-> plan, post_plan |-> post_plan])
      /\ files' = (IF mode = "invoke" THEN _drop_stale(files, {"result"}) ELSE files)
      /\ doc' = {} /\ source' = source /\ clock' = clock
  BY <1>1 DEF failure_loop
<1>3. /\ loop'.pc = (IF mode = "invoke" THEN "test" ELSE "read")
      /\ loop'.provider_mode = mode /\ loop'.test = {test} /\ loop'.repair = repair
      /\ loop'.ravel = ravel /\ loop'.began = clock /\ loop'.plan = plan
      /\ loop'.post_plan = post_plan /\ loop'.after_plan = {} /\ loop'.result = {}
      /\ loop'.witness = {} /\ loop'.diagnosis = {} /\ loop'.written = {}
  BY <1>2 DEF With, NoLoop
<1>4. loop' \in LoopRecords
  BY <1>2, Optional DEF With, NoLoop, LoopRecords, LoopStates, IInv, Types
<1>5. files' \in FileRecords /\ (mode = "invoke" => files'.result = {})
  BY <1>2, Optional DEF IInv, Types, FileRecords, _drop_stale
<1>6. Types'
  BY <1>2, <1>4, <1>5 DEF IInv, Types
<1>7. Begun'
  BY <1>2, <1>3, <1>5 DEF IInv, Types, Begun
<1>8. Selected'
  BY <1>3 DEF Selected, Failing, Repairing
<1> QED
  BY <1>2, <1>6, <1>7, <1>8, Goes

\* A test run leaves a result with a new identity, or none.
LEMMA Tested ==
    ASSUME NEW f \in FileRecords, NEW p \in {"result", "after_result"},
           clock \in 0 .. ProviderRuns, RunTest(f, p)
    PROVE  /\ files' \in FileRecords /\ clock' \in 0 .. ProviderRuns /\ clock' >= clock
           /\ files'.result = f.result \/ (p = "result" /\ \A t \in files'.result : t.run > clock)
           /\ files'.after_result = f.after_result
                \/ (p = "after_result" /\ \A t \in files'.after_result : t.run > clock)
<1>1. CASE files' = f /\ UNCHANGED clock
  BY <1>1, DevelopmentAssumption
<1>2. ASSUME clock < ProviderRuns, clock' = clock + 1, NEW v \in Verdicts,
             files' = With(f, [q \in {p} |-> {[run |-> clock + 1, verdict |-> v]}])
      PROVE  /\ files' \in FileRecords /\ clock' \in 0 .. ProviderRuns /\ clock' >= clock
             /\ files'.result = f.result \/ (p = "result" /\ \A t \in files'.result : t.run > clock)
             /\ files'.after_result = f.after_result
                  \/ (p = "after_result" /\ \A t \in files'.after_result : t.run > clock)
  <2> DEFINE t == [run |-> clock + 1, verdict |-> v]
  <2>1. t \in Results /\ t.run > clock
    BY <1>2, DevelopmentAssumption DEF Results
  <2> HIDE DEF t
  <2>2. {t} \in Opt(Results)
    BY <2>1, Optional
  <2>3. files' = With(f, [q \in {p} |-> {t}])
    BY <1>2 DEF t
  <2>4. files' \in FileRecords
    BY <2>2, <2>3 DEF With, FileRecords
  <2>5. /\ files'.result = f.result \/ (p = "result" /\ files'.result = {t})
        /\ files'.after_result = f.after_result \/ (p = "after_result" /\ files'.after_result = {t})
    BY <2>3 DEF With, FileRecords
  <2>6. clock' \in 0 .. ProviderRuns /\ clock' >= clock
    BY <1>2, DevelopmentAssumption
  <2>7. \A u \in {t} : u.run > clock
    BY <2>1
  <2> QED
    BY <2>4, <2>5, <2>6, <2>7
<1> QED
  BY <1>1, <1>2 DEF RunTest

LEMMA StepTest == IInv /\ test_provider => IInv'
<1> SUFFICES ASSUME IInv, test_provider PROVE IInv'
  OBVIOUS
<1>1. /\ files' \in FileRecords /\ clock' \in 0 .. ProviderRuns /\ clock' >= clock
      /\ files'.result = files.result \/ \A t \in files'.result : t.run > clock
  BY Tested DEF test_provider, IInv, Types
<1>2. /\ loop' \in LoopRecords /\ loop'.pc = "read"
      /\ loop'.provider_mode = loop.provider_mode /\ loop'.began = loop.began
      /\ loop'.result = loop.result /\ loop'.written = loop.written
  BY LoopMoves DEF test_provider, IInv, Types, LoopStates
<1>3. Types'
  BY <1>1, <1>2 DEF IInv, Types, test_provider
<1>4. loop.began \in Nat /\ clock \in Nat /\ clock' \in Nat /\ loop.began <= clock
      /\ \A t \in files'.result : t.run \in Nat
  BY <1>1, DevelopmentAssumption DEF IInv, Types, Begun, LoopRecords, FileRecords, Opt, Results
<1>5. Begun'
  BY <1>1, <1>2, <1>4 DEF IInv, Begun, test_provider
<1>6. Selected'
  BY <1>2 DEF IInv, Selected, Failing, Repairing, test_provider
<1> QED
  BY <1>3, <1>5, <1>6, Goes DEF test_provider

LEMMA StepRead == IInv /\ read_test_result => IInv'
<1> SUFFICES ASSUME IInv, read_test_result PROVE IInv'
  OBVIOUS
<1>1. PICK t \in files.result :
         loop' = With(loop, [result |-> {t},
                             pc |-> IF t.verdict = "FAIL" THEN "debug" ELSE "proof"])
  BY DEF read_test_result
<1>2. t \in Results /\ {t} \in Opt(Results) /\ loop \in LoopRecords
  BY <1>1, Optional DEF IInv, Types, FileRecords
<1>3. /\ loop' \in LoopRecords
      /\ loop'.pc = (IF t.verdict = "FAIL" THEN "debug" ELSE "proof") /\ loop'.result = {t}
      /\ loop'.provider_mode = loop.provider_mode /\ loop'.began = loop.began
      /\ loop'.written = loop.written
  BY <1>1, <1>2 DEF With, LoopRecords, LoopStates
<1>4. /\ loop.pc = "read" /\ UNCHANGED <<source, files, clock, doc>>
  BY DEF read_test_result
<1>5. Types'
  BY <1>3, <1>4 DEF IInv, Types
<1>6. Begun'
  BY <1>1, <1>3, <1>4 DEF IInv, Begun
<1>7. Selected'
  BY <1>2, <1>3, <1>4 DEF IInv, Selected, Failing, Repairing
<1> QED
  BY <1>4, <1>5, <1>6, <1>7, Goes

LEMMA StepDebug == IInv /\ debug_commands => IInv'
<1> SUFFICES ASSUME IInv, debug_commands PROVE IInv'
  OBVIOUS
<1>1. PICK imports, valid, sufficient \in BOOLEAN,
           queries \in SUBSET {"validation", "inspection", "diagnosis"} :
         /\ imports => clock < ProviderRuns
         /\ files' = _debug_commands(IF imports
                                     THEN {[id |-> clock + 1, run |-> The(loop.result).run,
                                            test |-> loop.test, valid |-> valid]}
                                     ELSE {}, queries, sufficient)
         /\ clock' = IF imports THEN clock + 1 ELSE clock
  BY DEF debug_commands
<1>2. /\ loop.pc = "debug" /\ loop' = With(loop, [pc |-> "judge"])
      /\ UNCHANGED <<source, doc>>
  BY DEF debug_commands
<1>3. PICK t \in Results : loop.result = {t} /\ t.verdict = "FAIL"
  BY <1>2 DEF IInv, Selected, Failing
<1> DEFINE x == [id |-> clock + 1, run |-> The(loop.result).run, test |-> loop.test, valid |-> valid]
           imported == IF imports THEN {x} ELSE {}
           w == IF imported # {} THEN imported ELSE files.witness
<1>4. imports => x \in Witnesses
  <2>1. The(loop.result).run \in 1 .. ProviderRuns
    BY <1>3, TheElement DEF Results
  <2>2. loop.test \in Opt(Tests) /\ clock \in 0 .. ProviderRuns
    BY DEF IInv, Types, LoopRecords
  <2>3. imports => clock + 1 \in 1 .. ProviderRuns
    BY <1>1, <2>2, DevelopmentAssumption
  <2> QED
    BY <2>1, <2>2, <2>3 DEF Witnesses
<1>5. w \in Opt(Witnesses)
  BY <1>4, Optional DEF IInv, Types, FileRecords
<1>6. files' = _debug_commands(imported, queries, sufficient)
  BY <1>1
<1> DEFINE validations == {[of |-> y.id, valid |-> y.valid] : y \in w}
           diagnoses == {[of |-> y.id, sufficient |-> sufficient] : y \in w}
           written == [witness |-> w, validation |-> validations,
                       inspection |-> {"inspection"}, diagnosis |-> diagnoses]
<1>7. files' = With(files, [p \in {"witness"} \cup queries |-> written[p]])
  BY <1>6 DEF _debug_commands
<1> HIDE DEF x, imported, w
<1>8. validations \in Opt(Validations) /\ diagnoses \in Opt(Diagnoses)
  <2>1. CASE w = {}
    <3>1. validations = {} /\ diagnoses = {}
      BY <2>1
    <3>2. {} \in Opt(Validations) /\ {} \in Opt(Diagnoses)
      BY Optional
    <3> QED
      BY <3>1, <3>2, Zenon
  <2>2. ASSUME NEW y \in Witnesses, w = {y} PROVE validations \in Opt(Validations) /\ diagnoses \in Opt(Diagnoses)
    <3>1. validations = {[of |-> y.id, valid |-> y.valid]} /\ diagnoses = {[of |-> y.id, sufficient |-> sufficient]}
      BY <2>2
    <3>2. [of |-> y.id, valid |-> y.valid] \in Validations /\ [of |-> y.id, sufficient |-> sufficient] \in Diagnoses
      BY DEF Witnesses, Validations, Diagnoses
    <3> QED
      BY <3>1, <3>2, Optional
  <2> QED
    BY <1>5, <2>1, <2>2, Optional
<1> HIDE DEF validations, diagnoses
<1>9. {"inspection"} \in Opt({"inspection"})
  BY Optional
<1>10. files' \in FileRecords
  BY <1>5, <1>7, <1>8, <1>9 DEF With, FileRecords, IInv, Types
<1>11. /\ loop' \in LoopRecords /\ loop'.pc = "judge"
       /\ loop'.provider_mode = loop.provider_mode /\ loop'.began = loop.began
       /\ loop'.result = loop.result /\ loop'.written = loop.written
  BY <1>2, LoopMoves DEF IInv, Types, LoopStates
<1>12. clock \in 0 .. ProviderRuns /\ clock' \in 0 .. ProviderRuns /\ clock' >= clock
       /\ loop.began \in Nat /\ loop.began <= clock
  BY <1>1, DevelopmentAssumption DEF IInv, Types, Begun, LoopRecords
<1>13. Types'
  BY <1>2, <1>10, <1>11, <1>12 DEF IInv, Types
<1>14. Begun'
  BY <1>2, <1>11, <1>12 DEF IInv, Begun
<1>15. Selected'
  BY <1>2, <1>11 DEF IInv, Selected, Failing, Repairing
<1> QED
  BY <1>2, <1>13, <1>14, <1>15, Goes

LEMMA StepRepair == IInv /\ apply_repair => IInv'
<1> SUFFICES ASSUME IInv, apply_repair PROVE IInv'
  OBVIOUS
<1>1. PICK after_text \in Contents :
         /\ source' = after_text
         /\ loop' = With(loop, [written |-> {after_text},
                                after_plan |-> IF loop.plan # {} THEN loop.post_plan ELSE {},
                                pc |-> IF loop.plan = {} \/ loop.post_plan # {}
                                       THEN "retest" ELSE "rebind"])
  BY DEF apply_repair
<1>2. loop.pc = "repair" /\ UNCHANGED <<files, clock, doc>>
  BY DEF apply_repair
<1>3. loop \in LoopRecords /\ {} \in Opt(Plans)
  BY Optional DEF IInv, Types
<1>4. /\ loop' \in LoopRecords
      /\ loop'.pc \in {"retest", "rebind"} /\ loop'.test = loop.test /\ loop'.plan = loop.plan
      /\ loop'.pc = "retest" /\ loop.plan # {} => loop'.after_plan # {}
      /\ loop'.provider_mode = loop.provider_mode /\ loop'.began = loop.began
      /\ loop'.result = loop.result /\ loop'.witness = loop.witness
      /\ loop'.diagnosis = loop.diagnosis
  BY <1>1, <1>3 DEF With, LoopRecords, LoopStates
<1>5. Types'
  BY <1>1, <1>2, <1>4 DEF IInv, Types
<1>6. Begun'
  BY <1>2, <1>4 DEF IInv, Begun
<1>7. Selected'
  BY <1>2, <1>4 DEF IInv, Selected, Failing, Repairing
<1> QED
  BY <1>2, <1>5, <1>6, <1>7, Goes

LEMMA StepRebind == IInv /\ _regenerate_verification_plan => IInv'
<1> SUFFICES ASSUME IInv, _regenerate_verification_plan PROVE IInv'
  OBVIOUS
<1>1. /\ loop.pc = "rebind" /\ UNCHANGED <<source, clock, doc>> /\ files'.after_plan # {}
      /\ loop' = With(loop, [after_plan |-> files'.after_plan, pc |-> "retest"])
  BY DEF _regenerate_verification_plan
<1>2. files' \in FileRecords
  <2>1. CASE UNCHANGED files
    BY <2>1 DEF IInv, Types
  <2>2. ASSUME NEW p \in PlansFor(source), files' = With(files, [after_plan |-> {p}])
        PROVE  files' \in FileRecords
    <3>1. {p} \in Opt(Plans)
      BY Optional DEF PlansFor
    <3> QED
      BY <2>2, <3>1 DEF IInv, Types, With, FileRecords
  <2> QED
    BY <2>1, <2>2 DEF _regenerate_verification_plan
<1>3. loop \in LoopRecords /\ files'.after_plan \in Opt(Plans)
  BY <1>2 DEF IInv, Types, FileRecords
<1>4. /\ loop' \in LoopRecords
      /\ loop'.pc = "retest" /\ loop'.test = loop.test
      /\ loop'.plan = loop.plan /\ loop'.after_plan = files'.after_plan
      /\ loop'.provider_mode = loop.provider_mode /\ loop'.began = loop.began
      /\ loop'.result = loop.result /\ loop'.witness = loop.witness
      /\ loop'.diagnosis = loop.diagnosis
  BY <1>1, <1>3 DEF With, LoopRecords, LoopStates
<1>5. Types'
  BY <1>1, <1>2, <1>4 DEF IInv, Types
<1>6. Begun'
  BY <1>1, <1>4 DEF IInv, Begun
<1>7. Selected'
  BY <1>1, <1>4 DEF IInv, Selected, Failing, Repairing
<1> QED
  BY <1>1, <1>5, <1>6, <1>7, Goes

LEMMA StepRetest == IInv /\ test_provider_after_repair => IInv'
<1> SUFFICES ASSUME IInv, test_provider_after_repair PROVE IInv'
  OBVIOUS
<1> DEFINE f == _drop_stale(files, {"after_result"})
<1>1. f \in FileRecords /\ f.after_result = {}
  BY Optional DEF IInv, Types, FileRecords, _drop_stale
<1>2. RunTest(f, "after_result")
  BY DEF test_provider_after_repair
<1> HIDE DEF f
<1>3. /\ files' \in FileRecords /\ clock' \in 0 .. ProviderRuns /\ clock' >= clock
      /\ \A t \in files'.after_result : t.run > clock
  BY <1>1, <1>2, Tested DEF IInv, Types
<1>4. /\ loop.pc = "retest" /\ loop' = With(loop, [pc |-> "verify"]) /\ UNCHANGED <<source, doc>>
  BY DEF test_provider_after_repair
<1>5. /\ loop' \in LoopRecords
      /\ loop'.pc = "verify" /\ loop'.test = loop.test
      /\ loop'.plan = loop.plan /\ loop'.after_plan = loop.after_plan
      /\ loop'.provider_mode = loop.provider_mode /\ loop'.began = loop.began
      /\ loop'.result = loop.result /\ loop'.witness = loop.witness
      /\ loop'.diagnosis = loop.diagnosis
  BY <1>4, LoopMoves DEF IInv, Types, LoopStates
<1>6. Types'
  BY <1>3, <1>4, <1>5 DEF IInv, Types
<1>7. loop.began \in Nat /\ clock \in Nat /\ clock' \in Nat /\ loop.began <= clock
      /\ \A t \in files'.after_result : t.run \in Nat
  BY <1>3, DevelopmentAssumption DEF IInv, Types, Begun, LoopRecords, FileRecords, Opt, Results
<1>8. Begun'
  BY <1>3, <1>4, <1>5, <1>7 DEF IInv, Begun
<1>9. Selected'
  BY <1>4, <1>5 DEF IInv, Selected, Failing, Repairing
<1> QED
  BY <1>4, <1>6, <1>8, <1>9, Goes

LEMMA StepEdit == IInv /\ edit_source => IInv'
<1> SUFFICES ASSUME IInv, edit_source PROVE IInv'
  OBVIOUS
<1>1. PICK c \in Contents :
         /\ source' = c
         /\ loop' = With(loop, [written |-> IF loop.written = {} THEN {}
                                            ELSE loop.written \cup {c}])
  BY DEF edit_source
<1>2. UNCHANGED <<files, clock, doc>> /\ loop \in LoopRecords
  BY DEF edit_source, IInv, Types
<1> DEFINE w == IF loop.written = {} THEN {} ELSE loop.written \cup {c}
<1>3. w \in SUBSET Contents /\ (w # {} => loop.written # {})
  BY <1>2 DEF LoopRecords
<1>4. loop' = With(loop, [written |-> w])
  BY <1>1
<1> HIDE DEF w
<1>5. /\ loop' \in LoopRecords /\ loop'.written = w
      /\ loop'.pc = loop.pc /\ loop'.test = loop.test
      /\ loop'.plan = loop.plan /\ loop'.after_plan = loop.after_plan
      /\ loop'.provider_mode = loop.provider_mode /\ loop'.began = loop.began
      /\ loop'.result = loop.result /\ loop'.witness = loop.witness
      /\ loop'.diagnosis = loop.diagnosis
  BY <1>2, <1>3, <1>4 DEF With, LoopRecords
<1>6. Types'
  BY <1>1, <1>2, <1>5 DEF IInv, Types
<1>7. Begun'
  BY <1>2, <1>5 DEF IInv, Begun
<1>8. Selected'
  BY <1>3, <1>5 DEF IInv, Selected
<1> QED
  BY <1>2, <1>6, <1>7, <1>8, Goes

-----------------------------------------------------------------------------
(* Conclusions that can pass.                                              *)

\* With everything in order, a passing first run stops with success.
LEMMA InitialPass ==
    ASSUME NEW e \in ForgeEvidenceState, e.test_present, e.identity_binding_valid,
           e.evidence_fresh, e.provider_evidence_present, e.plan_current,
           e.test_status = "PASS",
           e.proof_required =>
               e.family_proof_present /\ e.family_proof_status = "PASS" /\ e.proof_sufficient
    PROVE  decide("InitialVerification", e).decision = "StopPass"
<1> DEFINE status == evidence_status("InitialVerification", e)
           done == terminal("InitialVerification", status, "StopPass", "InitialPass")
<1> HIDE DEF status
<1>1. proof_decision("InitialVerification", e, status, done) = done
  BY DEF proof_decision
<1>2. initial_decision(e) = proof_decision("InitialVerification", e, status, done)
  BY DEF initial_decision, status
<1> QED
  BY <1>1, <1>2 DEF decide, terminal

\* With everything in order, a passing run of the repaired source finalizes.
LEMMA AfterPass ==
    ASSUME NEW e \in ForgeEvidenceState, e.identity_binding_valid, e.evidence_fresh,
           e.source_changed, e.plan_present => e.rebound_plan_present /\ e.rebound_plan_current,
           e.post_repair_test_present, e.post_repair_test_status = "PASS", ~e.proof_required
    PROVE  decide("AfterRepair", e).status = "PASS"
<1> DEFINE status == evidence_status("AfterRepair", e)
           done == terminal("AfterRepair", "PASS", "Finalize", "AssuranceComplete")
<1> HIDE DEF status
<1>1. proof_decision("AfterRepair", e, status, done) = done
  BY DEF proof_decision
<1>2. after_repair_decision(e) = proof_decision("AfterRepair", e, status, done)
  BY DEF after_repair_decision, status
<1> QED
  BY <1>1, <1>2 DEF decide, terminal

\* The status of a first run that did not fail: the worst of the run and of the
\* proof the plan asks for.
LEMMA NotFailingStatus ==
    ASSUME NEW e \in ForgeEvidenceState, e.test_present, e.identity_binding_valid,
           e.evidence_fresh, e.provider_evidence_present, e.plan_current,
           e.test_status # "FAIL",
           e.proof_required => e.family_proof_present \/ e.family_proof_status = "UNKNOWN"
    PROVE  decide("InitialVerification", e).status =
             IF ~e.proof_required \/ e.family_proof_status = "PASS" THEN e.test_status
             ELSE e.family_proof_status
<1> DEFINE proof == IF e.proof_required THEN e.family_proof_status ELSE "PASS"
           S == {e.test_status, "PASS", proof}
<1>1. decide("InitialVerification", e).status = dominate(S)
  BY InitialStatus, InitialEvidence
<1>2. e.test_status \in {"PASS", "UNKNOWN"} /\ proof \in {"PASS", "FAIL", "UNKNOWN"}
  BY DEF ForgeEvidenceState, Verdicts
<1>3. dominate(S) = IF proof = "PASS" THEN e.test_status ELSE proof
  BY <1>2, Dominates
<1> QED
  BY <1>1, <1>3

LEMMA StepNotFailing == IInv /\ conclude_not_failing => IInv'
<1> SUFFICES ASSUME IInv, conclude_not_failing PROVE IInv'
  OBVIOUS
<1> DEFINE routed == \E p \in loop.plan : p.kind.selected_repositories
           required == \E p \in loop.plan : ~p.kind.sufficient_to_stop
<1>1. loop.pc = "proof" /\ UNCHANGED <<source, files, clock>>
  BY DEF conclude_not_failing
<1>2. PICK t \in Results : loop.result = {t} /\ t.verdict # "FAIL"
  BY <1>1 DEF IInv, Selected
<1>3. The(loop.result) = t /\ t.verdict \in {"PASS", "UNKNOWN"}
  BY <1>2, TheElement DEF Results, Verdicts
<1>4. loop.provider_mode = "invoke" => t.run > loop.began
  BY <1>2 DEF IInv, Begun
<1>5. ASSUME NEW facts, NEW compat, NEW family,
             Conclude("InitialVerification", facts, compat, "NOT_REQUESTED", {}, family),
             facts.test_status = t.verdict, facts.test_present, facts.identity_binding_valid,
             facts.evidence_fresh, facts.provider_evidence_present, facts.plan_current,
             facts.proof_required => facts.family_proof_present \/ facts.family_proof_status = "UNKNOWN",
             facts.proof_required /\ facts.family_proof_status = "PASS" => facts.proof_sufficient,
             compat = IF ~facts.proof_required \/ facts.family_proof_status = "PASS"
                      THEN t.verdict ELSE facts.family_proof_status,
             \A p \in loop.plan : \/ p.kind.sufficient_to_stop /\ ~p.kind.selected_repositories
                                  \/ facts.proof_required /\ (facts.family_proof_status = "PASS" => "PASS" \in family)
      PROVE  IInv'
  <2>1. PICK d : /\ doc' = {d}
                 /\ d.provider_mode = loop.provider_mode
                 /\ d.native = decide("InitialVerification", facts)
                 /\ d.compat = compat /\ d.repair = "NOT_REQUESTED" /\ d.began = loop.began
                 /\ d.result = t /\ d.after = {} /\ d.plans = loop.plan /\ d.family = family
    BY <1>3, <1>5, Concluded
  <2>2. facts \in ForgeEvidenceState /\ loop' = NoLoop /\ "InitialVerification" \in LoopPhases
    BY <1>5, Concluded
  <2>3. d.native.status = compat
    BY <1>3, <1>5, <2>1, <2>2, NotFailingStatus
  <2>4. d.native.status \in Verdicts /\ d.native.decision \in LoopDecisions
    BY <2>1, <2>2, DecisionTypes
  <2>5. compat = "PASS" => /\ t.verdict = "PASS"
                           /\ facts.proof_required => facts.family_proof_status = "PASS"
    BY <1>3, <1>5
  <2>6. compat = "PASS" => d.native.decision = "StopPass"
    BY <1>5, <2>1, <2>2, <2>5, InitialPass
  <2>7. Sound(d)
    BY <1>4, <1>5, <2>1, <2>3, <2>4, <2>5, <2>6 DEF Sound
  <2> QED
    BY <1>1, <2>1, <2>2, <2>7, Ends DEF Documents
<1>6. CASE routed
  <2>1. PICK f \in _run_selected_family_proof :
           Conclude("InitialVerification",
                    With(_loop_facts,
                         [family_proof_status |-> f.status, family_proof_present |-> TRUE,
                          proof_required |-> TRUE,
                          proof_sufficient |-> f.sufficient_to_stop \/ f.status = "PASS"]),
                    IF f.status = "PASS" THEN t.verdict ELSE f.status,
                    "NOT_REQUESTED", {}, {f.status})
    BY <1>3, <1>6 DEF conclude_not_failing
  <2> DEFINE facts == With(_loop_facts,
                         [family_proof_status |-> f.status, family_proof_present |-> TRUE,
                          proof_required |-> TRUE,
                          proof_sufficient |-> f.sufficient_to_stop \/ f.status = "PASS"])
  <2>2. /\ facts.test_status = t.verdict /\ facts.test_present /\ facts.identity_binding_valid
        /\ facts.evidence_fresh /\ facts.provider_evidence_present /\ facts.plan_current
        /\ facts.family_proof_present /\ facts.proof_required
        /\ facts.family_proof_status = f.status
        /\ f.status = "PASS" => facts.proof_sufficient
    BY <1>3 DEF With, _loop_facts
  <2>3. Conclude("InitialVerification", facts, IF f.status = "PASS" THEN t.verdict ELSE f.status,
                 "NOT_REQUESTED", {}, {f.status})
    BY <2>1
  <2> HIDE DEF facts
  <2> QED
    BY <1>5, <2>2, <2>3
<1>7. CASE ~routed
  <2> DEFINE facts == With(_loop_facts, [proof_required |-> required,
                                         proof_sufficient |-> ~required])
  <2>1. Conclude("InitialVerification", facts, IF required THEN "UNKNOWN" ELSE t.verdict,
                 "NOT_REQUESTED", {}, {})
    BY <1>3, <1>7 DEF conclude_not_failing
  <2>2. /\ facts.test_status = t.verdict /\ facts.test_present /\ facts.identity_binding_valid
        /\ facts.evidence_fresh /\ facts.provider_evidence_present /\ facts.plan_current
        /\ facts.proof_required = required
        /\ facts.family_proof_status = "UNKNOWN"
    BY <1>3 DEF With, _loop_facts
  <2> HIDE DEF facts
  <2>3. \A p \in loop.plan : ~required => p.kind.sufficient_to_stop /\ ~p.kind.selected_repositories
    BY <1>7
  <2> QED
    BY <1>5, <2>1, <2>2, <2>3
<1> QED
  BY <1>6, <1>7

LEMMA StepRepaired == IInv /\ conclude_repaired => IInv'
<1> SUFFICES ASSUME IInv, conclude_repaired PROVE IInv'
  OBVIOUS
<1> DEFINE routed     == \E p \in loop.after_plan : p.kind.selected_repositories
           sufficient == \A p \in loop.after_plan : p.kind.sufficient_to_stop
           required   == routed \/ ~sufficient
<1>1. loop.pc = "verify" /\ UNCHANGED <<source, files, clock>>
  BY DEF conclude_repaired
<1>2. PICK t \in files.after_result,
           f \in IF routed THEN _run_selected_family_proof
                 ELSE {[status |-> "UNKNOWN", sufficient_to_stop |-> FALSE]} :
        Conclude("AfterRepair",
                 With(assurance_defaults,
                      [post_repair_test_status |-> t.verdict, post_repair_test_present |-> TRUE,
                       debug_status |-> "PASS", source_changed |-> TRUE,
                       rebound_plan_present |-> loop.after_plan # {},
                       rebound_plan_current |-> loop.after_plan # {},
                       proof_required |-> required,
                       family_proof_status |-> f.status, family_proof_present |-> routed,
                       proof_sufficient |->
                           required => f.sufficient_to_stop \/ f.status = "PASS",
                       repair_admissible |-> TRUE]),
                 compat_after(t.verdict, routed, sufficient),
                 "APPLIED", {t}, IF routed THEN {f.status} ELSE {})
  BY DEF conclude_repaired
<1> DEFINE facts == With(assurance_defaults,
                      [post_repair_test_status |-> t.verdict, post_repair_test_present |-> TRUE,
                       debug_status |-> "PASS", source_changed |-> TRUE,
                       rebound_plan_present |-> loop.after_plan # {},
                       rebound_plan_current |-> loop.after_plan # {},
                       proof_required |-> required,
                       family_proof_status |-> f.status, family_proof_present |-> routed,
                       proof_sufficient |->
                           required => f.sufficient_to_stop \/ f.status = "PASS",
                       repair_admissible |-> TRUE])
           compat == compat_after(t.verdict, routed, sufficient)
           family == IF routed THEN {f.status} ELSE {}
<1>3. PICK t0 \in Results : loop.result = {t0} /\ t0.verdict = "FAIL"
  BY <1>1 DEF IInv, Selected, Failing
<1>4. The(loop.result) = t0
  BY <1>3, TheElement
<1>5. /\ facts.test_status = "FAIL"
      /\ facts.post_repair_test_status = t.verdict /\ facts.post_repair_test_present
      /\ facts.source_changed /\ facts.identity_binding_valid /\ facts.evidence_fresh
      /\ facts.plan_present = (loop.plan # {})
      /\ facts.rebound_plan_present = (loop.after_plan # {})
      /\ facts.rebound_plan_current = (loop.after_plan # {})
      /\ facts.proof_required = required
      /\ facts.family_proof_status = f.status /\ facts.family_proof_present = routed
  <2>1. facts.test_status = "FAIL"
    BY <1>3, <1>4, FailingFacts
  <2>2. /\ assurance_defaults.identity_binding_valid /\ assurance_defaults.evidence_fresh
        /\ assurance_defaults.plan_present = (loop.plan # {})
        /\ {"identity_binding_valid", "evidence_fresh", "plan_present", "post_repair_test_status",
            "post_repair_test_present", "source_changed", "rebound_plan_present",
            "rebound_plan_current", "proof_required", "family_proof_status",
            "family_proof_present"} \subseteq DOMAIN assurance_defaults
    BY DEF assurance_defaults, With, _loop_facts
  <2> QED
    BY <2>1, <2>2 DEF With
<1>6. Conclude("AfterRepair", facts, compat, "APPLIED", {t}, family)
  BY <1>2
<1> HIDE DEF facts, compat, family
<1>7. PICK d : /\ doc' = {d}
               /\ d.provider_mode = loop.provider_mode
               /\ d.native = decide("AfterRepair", facts)
               /\ d.compat = compat /\ d.repair = "APPLIED" /\ d.began = loop.began
               /\ d.result = t0 /\ d.after = {t} /\ d.plans = loop.after_plan
               /\ d.family = family
  BY <1>4, <1>6, Concluded
<1>8. facts \in ForgeEvidenceState /\ loop' = NoLoop /\ "AfterRepair" \in LoopPhases
  BY <1>6, Concluded
<1>9. d.native.status \in Verdicts /\ d.native.decision \in LoopDecisions
  BY <1>7, <1>8, DecisionTypes
<1>10. \/ d.native.status = "FAIL"
       \/ d.native.status = "PASS" /\ d.native.decision = "Finalize"
  BY <1>5, <1>7, <1>8, AfterStatus, FailingEvidence
<1>11. d.native.status = "PASS" =>
         /\ t.verdict = "PASS"
         /\ required => routed /\ f.status = "PASS"
  BY <1>5, <1>7, <1>8, <1>10, SuccessIsSupported DEF Supported
<1>12. t.verdict = "PASS" /\ ~required => d.native.status = "PASS"
  <2>1. facts.plan_present => facts.rebound_plan_present /\ facts.rebound_plan_current
    BY <1>1, <1>5 DEF IInv, Selected
  <2> QED
    BY <1>5, <1>7, <1>8, <2>1, AfterPass
<1>13. t.verdict \in Verdicts /\ t.run > loop.began
  BY <1>1, <1>2 DEF IInv, Begun, Types, FileRecords, Opt, Results
<1>14. (d.provider_mode = "invoke" => d.result.run > d.began) /\ \A u \in d.after : u.run > d.began
  BY <1>3, <1>7, <1>13 DEF IInv, Begun
<1>15. compat = IF routed THEN "none" ELSE IF sufficient THEN t.verdict ELSE "UNKNOWN"
  BY DEF compat_after, compat
<1>16. \A p \in d.plans : ~required => p.kind.sufficient_to_stop /\ ~p.kind.selected_repositories
  BY <1>7
<1>17. (routed /\ f.status = "PASS") => "PASS" \in d.family
  BY <1>7 DEF family
<1> HIDE DEF routed, sufficient
<1>18. "PASS" \in {d.native.status, d.compat} =>
         /\ t.verdict = "PASS"
         /\ required => "PASS" \in d.family
  BY <1>7, <1>11, <1>15, <1>17 DEF Verdicts
<1>19. d.compat \in Verdicts => \/ d.native.status = d.compat
                                \/ d.native.status = "FAIL" /\ d.compat = "UNKNOWN"
  BY <1>7, <1>10, <1>11, <1>12, <1>13, <1>15 DEF Verdicts
<1>20. d.compat \in Verdicts \cup {"none", "raise"}
  BY <1>7, <1>13, <1>15 DEF Verdicts
<1>21. Sound(d)
  BY <1>7, <1>9, <1>10, <1>14, <1>16, <1>18, <1>19, <1>20 DEF Sound
<1> QED
  BY <1>1, <1>7, <1>8, <1>21, Ends DEF Documents

-----------------------------------------------------------------------------
LEMMA Inductive == IInv /\ [Next]_vars => IInv'
<1> SUFFICES ASSUME IInv, [Next]_vars PROVE IInv'
  OBVIOUS
<1>1. CASE UNCHANGED vars
  BY <1>1 DEF vars, IInv, Types, Begun, Selected, VerdictFresh, PassSupported, ModesAgree, Documented
<1>2. CASE Next
  BY <1>2, StepRequest, StepTest, StepRead, StepNotFailing, StepUnavailable, StepDebug, StepJudge,
     StepRefuse, StepRepair, StepRebind, StepRetest, StepRepaired, StepAbandon, StepEdit DEF Next
<1> QED
  BY <1>1, <1>2

\* The inductive invariant of an invocation: what it has read, which branch that
\* justifies, and what it persists, for any contents, tests and kinds of plan.
THEOREM LoopInvariant == Spec => []IInv
<1>1. Init => IInv
  BY InitHolds
<1>2. IInv /\ [Next]_vars => IInv'
  BY Inductive
<1> QED
  BY <1>1, <1>2, PTL DEF Spec

LEMMA Typed == IInv => TypeOK
<1> SUFFICES ASSUME IInv PROVE TypeOK
  OBVIOUS
<1>1. ASSUME NEW S, NEW o, o \in Opt(S) PROVE o \subseteq S /\ Cardinality(o) <= 1
  <2>1. Cardinality({}) = 0 /\ \A x : Cardinality({x}) = 1
    BY FS_EmptySet, FS_Singleton
  <2>2. o = {} \/ \E x \in S : o = {x}
    BY <1>1, Optional
  <2> QED
    BY <2>1, <2>2
<1>2. Cardinality(doc) <= 1
  <2>1. Cardinality({}) = 0 /\ \A x : Cardinality({x}) = 1
    BY FS_EmptySet, FS_Singleton
  <2>2. doc = {} \/ \E d : doc = {d}
    BY DEF IInv, Documented
  <2>3. CASE doc = {}
    BY <2>1, <2>3
  <2>4. ASSUME NEW d, doc = {d} PROVE Cardinality(doc) <= 1
    BY <2>1, <2>4
  <2> QED
    BY <2>2, <2>3, <2>4
<1>3. DOMAIN files = DOMAIN FileTypes
  BY DEF IInv, Types, FileRecords, FileTypes
<1>4. ASSUME NEW p \in DOMAIN files PROVE files[p] \in Opt(FileTypes[p])
  BY DEF IInv, Types, FileRecords, FileTypes
<1>5. ASSUME NEW v \in DOMAIN LoopTypes PROVE loop[v] \in Opt(LoopTypes[v])
  BY DEF IInv, Types, LoopRecords, LoopTypes
<1>6. /\ \A p \in DOMAIN files : files[p] \subseteq FileTypes[p] /\ Cardinality(files[p]) <= 1
      /\ \A v \in DOMAIN LoopTypes : loop[v] \subseteq LoopTypes[v] /\ Cardinality(loop[v]) <= 1
  BY <1>1, <1>4, <1>5
<1>7. /\ source \in Contents /\ clock \in 0 .. ProviderRuns
      /\ loop.pc \in LoopStates /\ loop.provider_mode \in {"invoke", "consume"}
      /\ loop.repair \in {"none", "incomplete", "complete"} /\ loop.ravel \in BOOLEAN
      /\ loop.began \in 0 .. ProviderRuns /\ loop.written \subseteq Contents
  BY DEF IInv, Types, LoopRecords
<1>8. \A d \in doc : /\ d.compat \in Verdicts \cup {"none", "raise"}
                     /\ d.native.status \in Verdicts
                     /\ d.native.decision \in LoopDecisions
                     /\ d.repair \in {"NOT_REQUESTED", "CANDIDATE_NOT_REQUESTED",
                                      "NOT_ADMISSIBLE", "APPLIED"}
  BY DEF IInv, Documented
<1> QED
  BY <1>2, <1>3, <1>6, <1>7, <1>8 DEF TypeOK, LoopStates

\* Every variable keeps its type; a persisted document speaks the vocabulary of
\* the kernel and of the host.
THEOREM LoopTypesHold == Spec => []TypeOK
<1>1. IInv => TypeOK
  BY Typed
<1> QED
  BY <1>1, LoopInvariant, PTL

\* No verdict rests on a leftover: the results it counts come from test runs of
\* this invocation, except for the handoff that consume mode reads.
THEOREM LoopVerdictFresh == Spec => []VerdictFresh
<1>1. IInv => VerdictFresh
  BY DEF IInv
<1> QED
  BY <1>1, LoopInvariant, PTL

\* The source is rewritten only for a failing run that the witness reproduces
\* and that a diagnosis of this witness was called sufficient for.
THEOREM LoopRepairJustified == Spec => []RepairJustified
<1>1. ASSUME IInv PROVE RepairJustified
  <2> SUFFICES ASSUME loop.written # {} PROVE RepairJustified
    BY DEF RepairJustified
  <2>1. loop.pc \in Repairing /\ loop.pc \in Failing
    BY <1>1 DEF IInv, Selected, Repairing, Failing
  <2>2. PICK t \in Results : loop.result = {t} /\ t.verdict = "FAIL"
    BY <1>1, <2>1 DEF IInv, Selected
  <2>3. PICK w \in loop.witness, d \in loop.diagnosis :
            /\ \A u \in loop.result : w.run = u.run
            /\ w.test = loop.test
            /\ d.of = w.id /\ d.sufficient
    BY <1>1, <2>1 DEF IInv, Selected
  <2> QED
    BY <2>2, <2>3 DEF RepairJustified
<1> QED
  BY <1>1, LoopInvariant, PTL

\* PASS, the kernel's or the host's, is never more than what the last test run and
\* the plan in force support, wherever their documents came from.
THEOREM LoopPassSupported == Spec => []PassSupported
<1>1. IInv => PassSupported
  BY DEF IInv
<1> QED
  BY <1>1, LoopInvariant, PTL

\* Kernel and host give the same verdict wherever both give one, but for a
\* repair whose proof is missing: FAIL of the one is UNKNOWN of the other.
THEOREM LoopModesAgree == Spec => []ModesAgree
<1>1. IInv => ModesAgree
  BY DEF IInv
<1> QED
  BY <1>1, LoopInvariant, PTL
=============================================================================
