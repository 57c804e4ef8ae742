-------------------------- MODULE DevelopmentLoop --------------------------
(***************************************************************************)
(* MncsDevelopmentService.failure_loop (application/mncs_development.py):  *)
(* test, debug, repair, verify.  Forge runs the providers as processes and *)
(* reads the documents they leave at fixed paths, so a document found on   *)
(* disk may be an earlier invocation's.  A provider may leave its document *)
(* or not, the developer may edit the source at any time, and the loop may *)
(* end without a result at any step (a ForgeError, or the death of Forge). *)
(* One invocation runs at a time; each action is one provider run or one   *)
(* stretch of the code between two of them.                                *)
(*                                                                         *)
(* A document is abstracted to what the loop compares: a test result to    *)
(* its run identity and verdict, a witness to its identity, the run and    *)
(* test it reproduces and whether it is valid.                             *)
(* A result and its check are written and read together and are one        *)
(* document here; the queries of the deeper diagnostic levels are like the *)
(* inspection.  A repair replaces text of the plan's source file.          *)
(***************************************************************************)
EXTENDS AssuranceLoop, Naturals, FiniteSets

CONSTANTS Contents,     \* contents the source file can have
          Tests,        \* test identities a failure can be selected by
          PlanKinds,    \* what a verification plan asks for: see Plans
          ProviderRuns  \* bound: documents with an identity that the providers write

\* sufficient_to_stop: the selected tests are proof enough; selected_repositories:
\* the plan is routed to several repositories and needs the Actions family proof.
ASSUME DevelopmentAssumption ==
    /\ Contents # {} /\ Tests # {} /\ ProviderRuns \in Nat
    /\ PlanKinds \subseteq [sufficient_to_stop : BOOLEAN, selected_repositories : BOOLEAN]

VARIABLES
    source,   \* the content of the source file
    files,    \* the provider documents on disk, by path (each at most one)
    clock,    \* identities given out so far: run_id of a test run, witness_id
    loop,     \* the local variables of the invocation; `written`: the contents that
              \* the source has had since the repair was written
    doc       \* the document that the last invocation persisted, if any

vars == <<source, files, clock, loop, doc>>

\* At most one element of S: an optional value.
Opt(S) == {{}} \cup {{x} : x \in S}

Plans == [source : Contents, kind : PlanKinds]
Results == [run : 1 .. ProviderRuns, verdict : Verdicts]
Witnesses == [id : 1 .. ProviderRuns, run : 1 .. ProviderRuns, test : Opt(Tests), valid : BOOLEAN]
Validations == [of : 1 .. ProviderRuns, valid : BOOLEAN]
Diagnoses == [of : 1 .. ProviderRuns, sufficient : BOOLEAN]

The(S) == CHOOSE x \in S : TRUE

\* {**r, **updates}: r with the fields that updates names.
With(r, updates) == [x \in DOMAIN r |-> IF x \in DOMAIN updates THEN updates[x] ELSE r[x]]

\* The types of the documents on disk, and of those an invocation holds.
FileTypes == [after_plan |-> Plans, result |-> Results, after_result |-> Results,
              witness |-> Witnesses, validation |-> Validations,
              inspection |-> {"inspection"}, diagnosis |-> Diagnoses]
LoopTypes == [test |-> Tests, plan |-> Plans, post_plan |-> Plans, after_plan |-> Plans,
              result |-> Results, witness |-> Witnesses, diagnosis |-> Diagnoses]

\* Type correctness: one document per path, and every verdict of a persisted
\* document is a verdict of the vocabulary (failure_loop and _persist).
TypeOK ==
    /\ source \in Contents
    /\ clock \in 0 .. ProviderRuns
    /\ DOMAIN files = DOMAIN FileTypes
    /\ \A p \in DOMAIN files : files[p] \subseteq FileTypes[p] /\ Cardinality(files[p]) <= 1
    /\ loop.pc \in {"idle", "test", "read", "proof", "debug", "judge", "repair", "rebind",
                    "retest", "verify"}
    /\ loop.provider_mode \in {"invoke", "consume"}
    /\ loop.repair \in {"none", "incomplete", "complete"}
    /\ loop.ravel \in BOOLEAN
    /\ loop.began \in 0 .. ProviderRuns
    /\ \A v \in DOMAIN LoopTypes : loop[v] \subseteq LoopTypes[v] /\ Cardinality(loop[v]) <= 1
    /\ loop.written \subseteq Contents
    /\ Cardinality(doc) <= 1
    /\ \A d \in doc : /\ d.compat \in Verdicts \cup {"none", "raise"}
                      /\ d.native.status \in Verdicts
                      /\ d.native.decision \in LoopDecisions
                      /\ d.repair \in {"NOT_REQUESTED", "CANDIDATE_NOT_REQUESTED",
                                       "NOT_ADMISSIBLE", "APPLIED"}

NoLoop ==
    [pc |-> "idle", provider_mode |-> "invoke", test |-> {},
     repair |-> "none", ravel |-> FALSE, began |-> 0, plan |-> {}, post_plan |-> {},
     after_plan |-> {}, result |-> {}, witness |-> {}, diagnosis |-> {}, written |-> {}]

Init ==
    /\ source \in Contents
    /\ files = [p \in DOMAIN FileTypes |-> {}]
    /\ clock = 0
    /\ loop = NoLoop
    /\ doc = {}

-----------------------------------------------------------------------------
\* Provider outputs.

\* Bug: the outputs of an earlier invocation stay where they are.
_drop_stale_Nothing(f, paths) == f

\* Forge owns these outputs and removes them before the provider runs.
_drop_stale(f, paths) == [p \in DOMAIN f |-> IF p \in paths THEN {} ELSE f[p]]

\* mncs-test run on the current source, leaving its result at path p or, when it
\* fails, nothing.  Forge does not look at the exit status, only at the document.
RunTest(f, p) ==
    \/ /\ clock < ProviderRuns
       /\ clock' = clock + 1
       /\ \E v \in Verdicts :
            files' = With(f, [q \in {p} |-> {[run |-> clock + 1, verdict |-> v]}])
    \/ files' = f /\ UNCHANGED clock

\* RAVEL's plan for content c.
PlansFor(c) == {p \in Plans : p.source = c}

-----------------------------------------------------------------------------
\* The end of an invocation.

\* _loop_facts: the defaults of the facts sent to the kernel.
_loop_facts ==
    [test_status |-> The(loop.result).verdict,
     post_repair_test_status |-> "UNKNOWN", debug_status |-> "UNKNOWN",
     family_proof_status |-> "UNKNOWN", test_present |-> TRUE,
     failing_execution_present |-> FALSE, post_repair_test_present |-> FALSE,
     family_proof_present |-> FALSE, plan_present |-> loop.plan # {}, plan_current |-> TRUE,
     repair_requested |-> FALSE, repair_arguments_complete |-> FALSE, repair_admissible |-> FALSE,
     source_changed |-> FALSE, rebound_plan_present |-> FALSE, rebound_plan_current |-> TRUE,
     proof_required |-> FALSE, proof_sufficient |-> TRUE, identity_binding_valid |-> TRUE,
     evidence_fresh |-> TRUE, provider_evidence_present |-> TRUE]

\* A repair of a planned source needs a plan for the repaired one.
repair_plan_admissible ==
    loop.repair # "none" /\ loop.plan # {} => loop.post_plan # {} \/ loop.ravel

\* assurance_defaults: the facts of an invocation whose test failed.
assurance_defaults ==
    With(_loop_facts, [failing_execution_present |-> TRUE,
                       repair_requested |-> loop.repair # "none",
                       repair_arguments_complete |-> loop.repair = "complete",
                       repair_admissible |-> repair_plan_admissible])

\* _record_assurance and _persist.  With the native adapter the verdict is the
\* kernel's status, without it `compat`, which the host works out itself ("none":
\* it leaves the document without a verdict; "raise": it raises, see Abandon).
\* Nothing else depends on which it is, so the document holds both.
Conclude(phase, facts, compat, repair, after, family) ==
    /\ \E decision \in assurance_loop(phase, facts) :
         doc' = {[provider_mode |-> loop.provider_mode, native |-> decision,
                  compat |-> compat, repair |-> repair, began |-> loop.began,
                  result |-> The(loop.result), after |-> after,
                  plans |-> IF repair = "APPLIED" THEN loop.after_plan ELSE loop.plan,
                  written |-> loop.written, family |-> family]}
    /\ loop' = NoLoop

\* ForgeError, or Forge dies: the invocation ends and persists nothing.  Every
\* step reads provider documents or runs a process and may end this way.
Abandon ==
    /\ loop.pc # "idle"
    /\ loop' = NoLoop
    /\ doc' = {}
    /\ UNCHANGED <<source, files, clock>>

-----------------------------------------------------------------------------
\* One invocation of failure_loop.

\* From the request to the first provider run.  A verification plan is refused
\* when it is not bound to the current source; in invoke mode earlier results go.
failure_loop(mode, test, repair, plan, post_plan, ravel) ==
    /\ loop.pc = "idle"
    /\ \A p \in plan : p.source = source
    /\ mode = "consume" => files.result # {}
    /\ loop' = With(NoLoop, [pc |-> IF mode = "invoke" THEN "test" ELSE "read",
                             provider_mode |-> mode, test |-> {test},
                             repair |-> repair, ravel |-> ravel, began |-> clock,
                             plan |-> plan, post_plan |-> post_plan])
    /\ files' = IF mode = "invoke" THEN _drop_stale(files, {"result"}) ELSE files
    /\ doc' = {}
    /\ UNCHANGED <<source, clock>>

test_provider ==
    /\ loop.pc = "test"
    /\ RunTest(files, "result")
    /\ loop' = With(loop, [pc |-> "read"])
    /\ UNCHANGED <<source, doc>>

\* The result is read and validated; a failing test is selected for the debugger.
read_test_result ==
    /\ loop.pc = "read"
    /\ \E t \in files.result :
         loop' = With(loop, [result |-> {t},
                             pc |-> IF t.verdict = "FAIL" THEN "debug" ELSE "proof"])
    /\ UNCHANGED <<source, files, clock, doc>>

\* What the family proof can come to: run by mncs-actions and bound to the plan, or
\* UNKNOWN because it could not be run or left no composite.
_run_selected_family_proof ==
    [status : Verdicts, sufficient_to_stop : BOOLEAN]

\* No failing test.  A plan over selected repositories needs the Actions proof;
\* any other plan must itself be sufficient to stop.
conclude_not_failing ==
    /\ loop.pc = "proof"
    /\ LET verdict  == The(loop.result).verdict
           routed   == \E p \in loop.plan : p.kind.selected_repositories
           required == \E p \in loop.plan : ~p.kind.sufficient_to_stop
       IN  \/ /\ routed
              /\ \E f \in _run_selected_family_proof :
                   Conclude("InitialVerification",
                            With(_loop_facts,
                                 [family_proof_status |-> f.status, family_proof_present |-> TRUE,
                                  proof_required |-> TRUE,
                                  proof_sufficient |-> f.sufficient_to_stop \/ f.status = "PASS"]),
                            IF f.status = "PASS" THEN verdict ELSE f.status,
                            "NOT_REQUESTED", {}, {f.status})
           \/ /\ ~routed
              /\ Conclude("InitialVerification",
                          With(_loop_facts, [proof_required |-> required,
                                             proof_sufficient |-> ~required]),
                          IF required THEN "UNKNOWN" ELSE verdict,
                          "NOT_REQUESTED", {}, {})
    /\ UNCHANGED <<source, files, clock>>

\* Without a diagnosis the loop stops at the test's FAIL.
ConcludeUndiagnosed(identity_valid) ==
    Conclude("InitialVerification",
             With(assurance_defaults, [debug_status |-> "UNKNOWN",
                                       identity_binding_valid |-> identity_valid]),
             "FAIL", "NOT_REQUESTED", {}, {})

\* mncs-debug is not declared; or, consuming a handoff, the Actions check is
\* missing, malformed or not PASS, or there is no witness.
debugger_unavailable ==
    /\ loop.pc = "debug"
    /\ ConcludeUndiagnosed(TRUE)
    /\ UNCHANGED <<source, files, clock>>

\* The files after the debugger's commands ran, in order: the witness is imported
\* in invoke mode only, the queries are about the witness on disk.
_debug_commands(imported, queries, sufficient) ==
    LET w == IF imported # {} THEN imported ELSE files.witness
        written == [witness |-> w,
                    validation |-> {[of |-> x.id, valid |-> x.valid] : x \in w},
                    inspection |-> {"inspection"},
                    diagnosis |-> {[of |-> x.id, sufficient |-> sufficient] : x \in w}]
    IN  With(files, [p \in {"witness"} \cup queries |-> written[p]])

\* In consume mode a query of the Actions handoff may be reused: its document
\* stays as it is.
_reusable_debug_queries ==
    IF loop.provider_mode = "consume"
    THEN {q \in {"validation", "inspection", "diagnosis"} : files[q] # {}} ELSE {}

\* Each command that is not reused may leave nothing, and then what an earlier
\* invocation left at its path is found instead.
debug_commands ==
    /\ loop.pc = "debug"
    /\ loop.provider_mode = "consume" => files.witness # {}
    /\ \E imports, valid, sufficient \in BOOLEAN, reused \in SUBSET _reusable_debug_queries :
       \E queries \in SUBSET ({"validation", "inspection", "diagnosis"} \ reused) :
         /\ imports => loop.provider_mode = "invoke" /\ clock < ProviderRuns
         /\ (valid => imports) /\ (sufficient => "diagnosis" \in queries)
         /\ queries # {} => imports \/ files.witness # {}
         /\ files' = _debug_commands(IF imports
                                     THEN {[id |-> clock + 1, run |-> The(loop.result).run,
                                            test |-> loop.test, valid |-> valid]}
                                     ELSE {},
                                     queries, sufficient)
         /\ clock' = IF imports THEN clock + 1 ELSE clock
    /\ loop' = With(loop, [pc |-> "judge"])
    /\ UNCHANGED <<source, doc>>

\* There is a witness, and the validation on disk calls it valid.
WitnessValidated == files.witness # {} /\ \E v \in files.validation : v.valid

\* Bug: any witness will do.
WitnessBound_Any == TRUE

\* The witness reproduces the selected failing execution.
WitnessBound ==
    \E w \in files.witness : w.run = The(loop.result).run /\ w.test = loop.test

\* Bug: the diagnosis is taken without asking which witness it is about.
DiagnosisBound_Any == TRUE

\* _validate_debug_diagnosis: a diagnosis of another witness raises.
DiagnosisBound == \A d \in files.diagnosis, w \in files.witness : d.of = w.id

\* Every expected query left a document and the debugger calls it sufficient.
DebugEstablished ==
    /\ files.inspection # {}
    /\ \E d \in files.diagnosis : d.sufficient

\* The debugger's documents are read, bound and judged, and then the repair request.
judge_debug ==
    /\ loop.pc = "judge"
    /\ \/ /\ ~WitnessValidated
          /\ ConcludeUndiagnosed(TRUE)
       \/ /\ WitnessValidated /\ ~WitnessBound
          /\ ConcludeUndiagnosed(FALSE)
       \/ /\ WitnessValidated /\ WitnessBound /\ DiagnosisBound /\ ~DebugEstablished
          /\ ConcludeUndiagnosed(TRUE)
       \/ /\ WitnessValidated /\ WitnessBound /\ DiagnosisBound /\ DebugEstablished
          /\ LET facts == With(assurance_defaults, [debug_status |-> "PASS"])
             IN  \/ /\ loop.repair = "none"
                    /\ Conclude("InitialVerification", facts, "FAIL", "CANDIDATE_NOT_REQUESTED", {}, {})
                 \/ /\ loop.repair = "incomplete" \/ (loop.repair = "complete" /\ ~repair_plan_admissible)
                    /\ Conclude("InitialVerification", With(facts, [repair_admissible |-> FALSE]),
                                "raise", "NOT_ADMISSIBLE", {}, {})
                 \/ /\ loop.repair = "complete" /\ repair_plan_admissible
                    /\ \E decision \in assurance_loop("InitialVerification", facts) :
                         decision.decision = "RequestRepair"
                    /\ loop' = With(loop, [pc |-> "repair", witness |-> files.witness,
                                           diagnosis |-> files.diagnosis])
                    /\ UNCHANGED doc
    /\ UNCHANGED <<source, files, clock>>

\* _source_change refuses the replacement: outside the candidate and generated
\* scopes, not permitted by the authority, or not matching exactly once.
refuse_repair ==
    /\ loop.pc = "repair"
    /\ Conclude("InitialVerification",
                With(assurance_defaults, [debug_status |-> "PASS", repair_admissible |-> FALSE]),
                "raise", "NOT_ADMISSIBLE", {}, {})
    /\ UNCHANGED <<source, files, clock>>

\* The source is rewritten.  A post-repair plan supplied with the request must be
\* bound to the text about to be written.
apply_repair ==
    /\ loop.pc = "repair"
    /\ \E after_text \in Contents :
         /\ loop.plan # {} => \A p \in loop.post_plan : p.source = after_text
         /\ source' = after_text
         /\ loop' = With(loop, [written |-> {after_text},
                                after_plan |-> IF loop.plan # {} THEN loop.post_plan ELSE {},
                                pc |-> IF loop.plan = {} \/ loop.post_plan # {}
                                       THEN "retest" ELSE "rebind"])
    /\ UNCHANGED <<files, clock, doc>>

\* _regenerate_verification_plan: RAVEL is run on the repaired source, and what is
\* then found at the output path is validated and taken as the rebound plan.
_regenerate_verification_plan ==
    /\ loop.pc = "rebind"
    /\ loop.ravel
    /\ \/ \E p \in PlansFor(source) : files' = With(files, [after_plan |-> {p}])
       \/ UNCHANGED files
    /\ files'.after_plan # {}
    /\ loop' = With(loop, [after_plan |-> files'.after_plan, pc |-> "retest"])
    /\ UNCHANGED <<source, clock, doc>>

test_provider_after_repair ==
    /\ loop.pc = "retest"
    /\ RunTest(_drop_stale(files, {"after_result"}), "after_result")
    /\ loop' = With(loop, [pc |-> "verify"])
    /\ UNCHANGED <<source, doc>>

\* Bug: without the kernel, the post-repair test alone decides.
compat_after_Test(verdict, routed, sufficient) == IF routed THEN "none" ELSE verdict

\* The verdict the host gives a repaired source without the kernel.
compat_after(verdict, routed, sufficient) ==
    IF routed THEN "none" ELSE IF sufficient THEN verdict ELSE "UNKNOWN"

\* The post-repair result is read, the family proof is run if the rebound plan
\* asks for it, and the repaired state is concluded.
conclude_repaired ==
    /\ loop.pc = "verify"
    /\ LET routed     == \E p \in loop.after_plan : p.kind.selected_repositories
           sufficient == \A p \in loop.after_plan : p.kind.sufficient_to_stop
           required   == routed \/ ~sufficient
           proofs     == IF routed THEN _run_selected_family_proof
                         ELSE {[status |-> "UNKNOWN", sufficient_to_stop |-> FALSE]}
       IN  \E t \in files.after_result, f \in proofs :
             Conclude("AfterRepair",
                      With(assurance_defaults,
                           [post_repair_test_status |-> t.verdict, post_repair_test_present |-> TRUE,
                            debug_status |-> "PASS", source_changed |-> TRUE,
                            rebound_plan_present |-> loop.after_plan # {},
                            rebound_plan_current |-> loop.after_plan # {},
                            proof_required |-> required,
                            family_proof_status |-> f.status, family_proof_present |-> routed,
                            proof_sufficient |->
                                required => f.sufficient_to_stop \/ f.status = "PASS",
                            repair_admissible |-> TRUE]),
                      compat_after(t.verdict, routed, sufficient),
                      "APPLIED", {t}, IF routed THEN {f.status} ELSE {})
    /\ UNCHANGED <<source, files, clock>>

-----------------------------------------------------------------------------
\* The developer, at any time.

edit_source ==
    /\ \E c \in Contents \ {source} :
         /\ source' = c
         /\ loop' = With(loop, [written |-> IF loop.written = {} THEN {}
                                            ELSE loop.written \cup {c}])
    /\ UNCHANGED <<files, clock, doc>>

\* The requests, short of those that differ only in what the loop then never
\* reads: plans for after a repair, when no planned source is to be repaired.
Request ==
    \E mode \in {"invoke", "consume"}, ravel \in BOOLEAN, plan, post_plan \in Opt(Plans),
       test \in Tests, repair \in {"none", "incomplete", "complete"} :
        /\ repair # "complete" \/ plan = {} => post_plan = {} /\ ~ravel
        /\ failure_loop(mode, test, repair, plan, post_plan, ravel)

Next ==
    \/ Request
    \/ test_provider
    \/ read_test_result
    \/ conclude_not_failing
    \/ debugger_unavailable
    \/ debug_commands
    \/ judge_debug
    \/ refuse_repair
    \/ apply_repair
    \/ _regenerate_verification_plan
    \/ test_provider_after_repair
    \/ conclude_repaired
    \/ Abandon
    \/ edit_source

Spec == Init /\ [][Next]_vars

-----------------------------------------------------------------------------
\* A verdict is never a leftover: in invoke mode the result it rests on, and in
\* either mode the result of a verification after repair, comes from a test run
\* of this very invocation (mncs_development.py, the _drop_stale calls), however
\* the providers fail and whatever earlier invocations left on disk.
VerdictFresh ==
    \A d \in doc : /\ d.provider_mode = "invoke" => d.result.run > d.began
                   /\ \A t \in d.after : t.run > d.began

\* Forge rewrites the source only for a failure that is diagnosed: the test run it
\* read failed, the witness reproduces that run and that test, and a diagnosis
\* of this witness was called sufficient (the checks before _source_change).
RepairJustified ==
    loop.written # {} =>
        \E t \in loop.result, w \in loop.witness, d \in loop.diagnosis :
            /\ t.verdict = "FAIL"
            /\ w.run = t.run /\ w.test = loop.test
            /\ d.of = w.id /\ d.sufficient

\* PASS is never more than what the evidence supports: the last test run that the
\* invocation read passed, and the plan in force is sufficient to stop or its
\* family proof passed; with or without the native kernel (failure_loop).
PassSupported ==
    \A d \in doc : "PASS" \in {d.native.status, d.compat} =>
        /\ \A t \in IF d.repair = "APPLIED" THEN d.after ELSE {d.result} : t.verdict = "PASS"
        /\ d.after # {} \/ d.repair # "APPLIED"
        /\ \A p \in d.plans :
             (p.kind.sufficient_to_stop /\ ~p.kind.selected_repositories) \/ "PASS" \in d.family
        /\ d.native.status = "PASS" => d.native.decision \in {"StopPass", "Finalize"}

\* The kernel and the host's own verdict are interchangeable where both give one
\* (native_mode prefer falls back silently): they are equal, except that after a
\* repair the kernel still counts the failure that was repaired and says FAIL
\* where the host says UNKNOWN.
ModesAgree ==
    \A d \in doc : d.compat \in Verdicts =>
        \/ d.native.status = d.compat
        \/ d.repair = "APPLIED" /\ d.native.status = "FAIL" /\ d.compat = "UNKNOWN"

\* A repaired source passes under a plan that is bound to it: to what the repair
\* wrote, or to what the developer has since made of it ("stale plans cannot be
\* reused after the source digest changes", docs/mncs-development-loop.md).
ReboundPlanBound ==
    \A d \in doc : d.repair = "APPLIED" /\ d.native.status = "PASS" =>
        \A p \in d.plans : p.source \in d.written
=============================================================================
