--------------------------- MODULE AssuranceLoop ---------------------------
(***************************************************************************)
(* The Forge assurance kernel, resources/native/forge/assurance.mncs: from *)
(* the facts that the host collected from the providers (Test, Debug,      *)
(* RAVEL, Actions) it decides what the development loop does next.  The    *)
(* host reaches it through assurance_loop, which sends valid = TRUE.       *)
(***************************************************************************)

Verdicts == {"PASS", "FAIL", "UNKNOWN"}

LoopPhases == {"InitialVerification", "AfterRepair"}

LoopDecisions == {"StopPass", "StopFail", "StopUnknown", "RequestDiagnosis", "RequestRepair",
                  "RequireReboundPlan", "RunSelectedVerification", "RequireFamilyProof", "Finalize"}

\* record ForgeEvidenceState: provider verdicts, and the presence, freshness and
\* identity binding of the evidence behind them.
ForgeEvidenceState ==
    [test_status : Verdicts, post_repair_test_status : Verdicts,
     debug_status : Verdicts, family_proof_status : Verdicts,
     test_present : BOOLEAN, failing_execution_present : BOOLEAN,
     post_repair_test_present : BOOLEAN, family_proof_present : BOOLEAN,
     plan_present : BOOLEAN, plan_current : BOOLEAN,
     repair_requested : BOOLEAN, repair_arguments_complete : BOOLEAN, repair_admissible : BOOLEAN,
     source_changed : BOOLEAN, rebound_plan_present : BOOLEAN, rebound_plan_current : BOOLEAN,
     proof_required : BOOLEAN, proof_sufficient : BOOLEAN,
     identity_binding_valid : BOOLEAN, evidence_fresh : BOOLEAN,
     provider_evidence_present : BOOLEAN]

\* mncs.core.status: FAIL > UNKNOWN > PASS.
dominate(S) ==
    IF "FAIL" \in S THEN "FAIL" ELSE IF "UNKNOWN" \in S THEN "UNKNOWN" ELSE "PASS"

\* select(flag, PASS, UNKNOWN): what is missing or stale is never better than UNKNOWN.
StatusIf(holds) == IF holds THEN "PASS" ELSE "UNKNOWN"

evidence_status(phase, e) ==
    dominate({e.test_status,
              StatusIf(e.test_present),
              StatusIf(e.identity_binding_valid),
              StatusIf(e.evidence_fresh),
              StatusIf(e.provider_evidence_present),
              IF phase = "InitialVerification" THEN "PASS"
              ELSE IF e.post_repair_test_present THEN e.post_repair_test_status ELSE "UNKNOWN",
              StatusIf(e.plan_present => e.plan_current),
              StatusIf(phase = "AfterRepair" /\ e.plan_present
                         => e.rebound_plan_present /\ e.rebound_plan_current),
              IF ~e.proof_required THEN "PASS"
              ELSE IF e.family_proof_present THEN e.family_proof_status ELSE "UNKNOWN"})

\* The loop ends with this disposition.
terminal(phase, status, decision, reason) ==
    [phase |-> phase, status |-> status, decision |-> decision, next_action |-> "None",
     stop_reason |-> reason, terminal |-> TRUE]

\* The host is asked for one more external step.
action(phase, status, decision, next, reason) ==
    [phase |-> phase, status |-> status, decision |-> decision, next_action |-> next,
     stop_reason |-> reason, terminal |-> FALSE]

\* Both phases end with the same question: is the proof that the plan asks for
\* there, and is it enough?  Otherwise `done` is the answer.
proof_decision(phase, e, status, done) ==
    IF ~e.proof_required THEN done
    ELSE IF ~e.family_proof_present
         THEN action(phase, status, "RequireFamilyProof", "FamilyProof", "FamilyProofMissing")
    ELSE IF e.family_proof_status = "FAIL"
         THEN terminal(phase, status, "StopFail", "FamilyProofFail")
    ELSE IF e.family_proof_status = "UNKNOWN"
         THEN terminal(phase, status, "StopUnknown", "FamilyProofUnknown")
    ELSE IF ~e.proof_sufficient
         THEN terminal(phase, status, "StopUnknown", "FamilyProofInsufficient")
    ELSE done

\* A failing test: diagnose it, then repair it if a complete and admissible
\* repair was asked for.
failing_decision(phase, e, status) ==
    IF ~e.failing_execution_present
         THEN terminal(phase, status, "StopFail", "FailingExecutionMissing")
    ELSE IF e.debug_status # "PASS"
         THEN action(phase, status, "RequestDiagnosis", "Diagnose",
                     IF e.debug_status = "UNKNOWN" THEN "DiagnosisMissing" ELSE "DiagnosisInsufficient")
    ELSE IF ~e.repair_requested THEN terminal(phase, status, "StopFail", "RepairNotRequested")
    ELSE IF ~e.repair_arguments_complete
         THEN terminal(phase, status, "StopFail", "RepairArgumentsIncomplete")
    ELSE IF ~e.repair_admissible THEN terminal(phase, status, "StopFail", "RepairInadmissible")
    ELSE IF ~e.source_changed THEN action(phase, status, "RequestRepair", "Repair", "None")
    ELSE terminal(phase, status, "StopUnknown", "SourceChangeMissing")

initial_decision(e) ==
    LET phase  == "InitialVerification"
        status == evidence_status(phase, e)
    IN  IF ~e.identity_binding_valid
             THEN terminal(phase, status, "StopUnknown", "IdentityBindingInvalid")
        ELSE IF ~e.evidence_fresh THEN terminal(phase, status, "StopUnknown", "EvidenceStale")
        ELSE IF ~e.provider_evidence_present \/ ~e.test_present
             THEN terminal(phase, status, "StopUnknown", "ProviderEvidenceMissing")
        ELSE IF e.test_status = "FAIL" THEN failing_decision(phase, e, status)
        ELSE IF e.test_status = "UNKNOWN"
             THEN terminal(phase, status, "StopUnknown", "InitialEvidenceMissing")
        ELSE IF e.plan_present /\ ~e.plan_current
             THEN terminal(phase, status, "StopUnknown", "PlanStale")
        ELSE proof_decision(phase, e, status, terminal(phase, status, "StopPass", "InitialPass"))

\* Bug: a completed repair keeps the status of the failure it answers.
after_repair_decision_Joined(e) ==
    LET status == evidence_status("AfterRepair", e)
    IN  proof_decision("AfterRepair", e, status,
                       terminal("AfterRepair", status, "Finalize", "AssuranceComplete"))

\* The verdict of a completed repair is PASS outright: the failing result that
\* the repair answers no longer counts.
after_repair_decision(e) ==
    LET phase  == "AfterRepair"
        status == evidence_status(phase, e)
    IN  IF ~e.identity_binding_valid
             THEN terminal(phase, status, "StopUnknown", "IdentityBindingInvalid")
        ELSE IF ~e.evidence_fresh THEN terminal(phase, status, "StopUnknown", "EvidenceStale")
        ELSE IF ~e.source_changed THEN terminal(phase, status, "StopUnknown", "SourceChangeMissing")
        ELSE IF e.plan_present /\ ~e.rebound_plan_present
             THEN action(phase, status, "RequireReboundPlan", "ReboundPlan", "ReboundPlanMissing")
        ELSE IF e.plan_present /\ ~e.rebound_plan_current
             THEN terminal(phase, status, "StopUnknown", "ReboundPlanStale")
        ELSE IF ~e.post_repair_test_present
             THEN action(phase, status, "RunSelectedVerification", "SelectedVerification",
                         "PostRepairVerificationMissing")
        ELSE IF e.post_repair_test_status = "FAIL"
             THEN terminal(phase, status, "StopFail", "PostRepairVerificationFail")
        ELSE IF e.post_repair_test_status = "UNKNOWN"
             THEN terminal(phase, status, "StopUnknown", "PostRepairVerificationUnknown")
        ELSE proof_decision(phase, e, status, terminal(phase, "PASS", "Finalize", "AssuranceComplete"))

decide(phase, e) ==
    IF phase = "InitialVerification" THEN initial_decision(e) ELSE after_repair_decision(e)

\* The call from the host, NativeForgeAdapter.assurance_loop: a fact that is not a
\* value of its declared type is refused before the kernel runs.
assurance_loop(phase, e) ==
    IF phase \in LoopPhases /\ e \in ForgeEvidenceState THEN {decide(phase, e)} ELSE {}
=============================================================================
