---------------------------- MODULE ResourcePolicy ----------------------------
(***************************************************************************)
(* The native resource decisions of Forge: the kernel functions of         *)
(* resource_policy.mncs and core.mncs, and the adapters of mncs_native.py  *)
(* that encode observations for them.  An optional value is a set with at  *)
(* most one element; {} returned by an adapter is a raised ForgeError.     *)
(* Memory is counted in MiB, the memory fraction in percent, time in       *)
(* seconds.                                                                *)
(***************************************************************************)
EXTENDS Integers

Least(a, b) == IF a < b THEN a ELSE b
Greatest(a, b) == IF a > b THEN a ELSE b
OrElse(opt, default) == IF opt = {} THEN default ELSE CHOOSE v \in opt : TRUE

-----------------------------------------------------------------------------
(* Budget selection.                                                       *)

EmptyBudget(s) == [status |-> s, high |-> 0, max |-> 0, tasks |-> 0, concurrency |-> 0,
                   runtime |-> 0, capacity |-> 0]

\* resource_budget_select of the kernel, over decoded policy fields.
resource_budget_select(obs, pol) ==
    LET fraction == OrElse(pol.fraction, 15)
        cap == OrElse(pol.cap, 4096)
        tasks == OrElse(pol.tasks, 64)
        concurrency == OrElse(pol.concurrency, 1)
        runtime == OrElse(pol.runtime, 600)
        host == OrElse(obs.host, OrElse(obs.cgroup, 0))
        capacity == Least(host, OrElse(obs.cgroup, host))
        derived == Least((capacity * fraction) \div 100, cap)
        max == Least(OrElse(pol.max, derived), derived)
        valid == /\ pol.valid
                 /\ fraction \in 5..25 /\ cap >= 128
                 /\ tasks \in 1..4096 /\ concurrency = 1
                 /\ runtime \in 1..600
    IN  IF ~valid THEN EmptyBudget("InvalidPolicy")
        ELSE IF capacity < 256 \/ max < 128 THEN EmptyBudget("Unavailable")
        ELSE [status |-> "Selected", high |-> Least(Greatest(64, max \div 2), max - 1),
              max |-> max, tasks |-> tasks, concurrency |-> concurrency, runtime |-> runtime,
              capacity |-> capacity]

\* The raw settings of the configuration: a field is absent, or has a value
\* that is (num) or is not a number.
PolicyFields == {"fraction", "cap", "max", "tasks", "concurrency", "runtime"}
Decoded(f) == {r.v : r \in {s \in f : s.num}}

\* Only an ill-typed memory_max_bytes is ignored; any other ill-typed field
\* makes the policy invalid.
Native_resource_budget_select(obs, settings, returned) ==
    IF returned
    THEN {resource_budget_select(obs, [k \in PolicyFields \cup {"valid"} |->
            IF k = "valid"
            THEN \A f \in PolicyFields \ {"max"} : \A s \in settings[f] : s.num
            ELSE Decoded(settings[k])])}
    ELSE {}

\* Only a selected budget has an envelope identity: its structured digest.
resource_budget_identity(decision, returned) ==
    IF returned /\ decision.status = "Selected" THEN {decision} ELSE {}

-----------------------------------------------------------------------------
(* Admission of one execution.                                             *)

Admission(s, why, headroom, runtime) ==
    [status |-> s, reason |-> why, deferred |-> s \in {"Defer", "Unavailable"},
     headroom |-> headroom, runtime |-> runtime]

\* The smaller of the observed headrooms, {} when none was observed.
EffectiveMemory(obs) ==
    {m \in obs.host \cup obs.cgroup : \A n \in obs.host \cup obs.cgroup : m <= n}

Uncontained(obs, pol) ==
    Admission("Uncontained", "None", 0,
              Least(obs.runtime, IF pol.runtime > 0 THEN pol.runtime ELSE 600))

\* Bug: the count of processes already in the slice is not looked at.
resource_admission_IgnoresTree(obs, pol) ==
    LET headroom == Greatest(512, 2 * pol.max) IN
    CASE ~obs.contained \/ ~obs.budget -> Admission("Unavailable", "ContainmentUnavailable", 0, 0)
      [] ~obs.slot -> Admission("Defer", "ExecutionSlotOccupied", 0, 0)
      [] \E m \in EffectiveMemory(obs) : m < headroom ->
            Admission("Defer", "LowHostHeadroom", headroom, 0)
      [] OTHER -> Admission("Admit", "None", headroom, Least(obs.runtime, pol.runtime))

\* resource_admission of the kernel: the first condition that applies decides.
resource_admission(obs, pol) ==
    LET headroom == Greatest(512, 2 * pol.max)
        tasks == OrElse(obs.tasks, 0)
    IN  IF obs.runtime <= 0 THEN Admission("InvalidInput", "InvalidRuntime", 0, 0)
        ELSE IF ~obs.contained THEN IF pol.required
                                    THEN Admission("Unavailable", "ContainmentUnavailable", 0, 0)
                                    ELSE Uncontained(obs, pol)
        ELSE IF ~obs.budget THEN IF pol.required
                                 THEN Admission("Unavailable", "BudgetUnavailable", 0, 0)
                                 ELSE Uncontained(obs, pol)
        ELSE IF pol.runtime <= 0 THEN Admission("InvalidInput", "InvalidRuntime", 0, 0)
        ELSE IF pol.max <= 0 \/ pol.concurrency < 1 THEN Admission("InvalidInput", "None", 0, 0)
        ELSE IF ~obs.slot THEN Admission("Defer", "ExecutionSlotOccupied", 0, 0)
        ELSE IF obs.tasks = {} THEN Admission("Unavailable", "ProcessCountUnknown", 0, 0)
        ELSE IF tasks < 0 THEN Admission("InvalidInput", "None", 0, 0)
        ELSE IF tasks >= pol.concurrency THEN Admission("Defer", "ActiveProcessTree", 0, 0)
        ELSE IF \E m \in EffectiveMemory(obs) : m < headroom
             THEN Admission("Defer", "LowHostHeadroom", headroom, 0)
        ELSE Admission("Admit", "None", headroom, Least(obs.runtime, pol.runtime))

\* The adapter passes every field through or raises.
Native_resource_admission(obs, pol, returned) ==
    IF returned THEN {resource_admission(obs, pol)} ELSE {}

-----------------------------------------------------------------------------
(* Classification of a finished execution.                                 *)

SystemdResults == {"Success", "ExitCode", "OomKill", "OutOfMemory", "Timeout", "Failed", "Unknown"}
OutcomeStatuses == {"Pass", "Fail", "ResourceLimit", "ResourcePressure", "Timeout", "OutputLimit",
                    "Unknown", "CleanupFailure", "Cancelled", "Stale"}

Outcome(s, metric) ==
    [status |-> s, metric |-> metric,
     exhausted |-> s \in {"Timeout", "ResourceLimit", "OutputLimit"},
     deferred |-> s \notin {"Pass", "Fail", "Cancelled", "Stale"}]

\* Memory limit evidence: kernel events or systemd's verdict.
MemoryLimited(obs) ==
    \/ obs.events \cap {"max", "oom", "oom_kill", "oom_group_kill"} # {}
    \/ obs.systemd \in {"OomKill", "OutOfMemory"}

\* resource_outcome_classify of the kernel; obs.cleanup is {} when unknown.
resource_outcome_classify(obs) ==
    IF obs.cleanup = {FALSE} THEN Outcome("CleanupFailure", "None")
    ELSE IF obs.superseded THEN Outcome("Stale", "None")
    ELSE IF obs.cancelled THEN Outcome("Cancelled", "None")
    ELSE IF obs.timed_out \/ obs.systemd = "Timeout" THEN Outcome("Timeout", "WallTime")
    ELSE IF MemoryLimited(obs) THEN Outcome("ResourceLimit", "Memory")
    ELSE IF "pids" \in obs.events THEN Outcome("ResourceLimit", "ProcessCount")
    ELSE IF obs.output_limited THEN Outcome("OutputLimit", "Output")
    ELSE IF "high" \in obs.events THEN Outcome("ResourcePressure", "Memory")
    ELSE IF \E e \in obs.exit, w \in obs.wrapper : e # w THEN Outcome("Unknown", "None")
    ELSE IF obs.systemd = "Failed" THEN Outcome("Unknown", "None")
    ELSE IF obs.exit = {} THEN Outcome(IF obs.wrapper = {0} THEN "Pass" ELSE "Unknown", "None")
    ELSE Outcome(IF obs.exit = {0} THEN "Pass" ELSE "Fail", "None")

\* Bug: the launcher's status stands in for the command's.
resource_outcome_TrustsWrapper(obs) ==
    [outcome |-> resource_outcome_classify(obs),
     exit |-> IF obs.exit # {} THEN obs.exit ELSE obs.wrapper]

HasExecutionExit(s) == s \in {"Pass", "Fail"}

\* resource_outcome: only Pass and Fail carry an execution exit status.
resource_outcome(obs) ==
    LET d == resource_outcome_classify(obs) IN
    [outcome |-> d,
     exit |-> IF ~HasExecutionExit(d.status) THEN {}
              ELSE IF obs.exit # {} THEN obs.exit
              ELSE IF d.status = "Pass" /\ obs.wrapper = {0} THEN {0}
              ELSE {}]

\* systemd's Result string is one of the known ones or Unknown; counters must
\* be known numbers.
Native_resource_outcome(obs, returned) ==
    IF returned /\ obs.counted
    THEN {resource_outcome([obs EXCEPT !.systemd = IF @ \in SystemdResults THEN @ ELSE "Unknown"])}
    ELSE {}
=============================================================================
