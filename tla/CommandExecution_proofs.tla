----------------------- MODULE CommandExecution_proofs ------------------------
(***************************************************************************)
(* Theorems about the execution of a command, for any number of processes, *)
(* units, crashes, generations and failing calls.  Around the command,     *)
(* ResourceEnvelope: at most one verification command runs on the host,    *)
(* and a status that run_bounded returns is the status its command exited  *)
(* with.  Below it, ProcessRunner: what cancel_generation answers is true, *)
(* and no cancellation is lost outside the cases the property names.       *)
(***************************************************************************)
EXTENDS ResourceEnvelope, ProcessRunner, FiniteSetTheorems, TLAPS

\* Inside execution_lock, and, of that, between prepare_execution and
\* finish_execution.
Owning == {"launch", "running", "finish"}
Inside == {"prepare"} \cup Owning

UnitType == [st : UnitStates, helper : BOOLEAN, exit : SUBSET {0, 1, 126, 127},
             result : {"Unknown", "Success", "ExitCode", "OomKill", "Timeout"}, events : SUBSET Events]
CauseType == [failure : {"none", "COMMAND_START", "TIMEOUT", "OUTPUT_LIMIT", "interrupted"},
              wrapper : SUBSET {0, 1, 126, 127}]
VerdictCodes == {"none", "ok", "RESOURCE_PRESSURE", "RESOURCE_CONCURRENCY_LIMIT", "RESOURCE_ADMISSION_INVALID",
                 "RESOURCE_ENVELOPE_UNAVAILABLE", "RESOURCE_ENVIRONMENT", "COMMAND_START", "TIMEOUT",
                 "OUTPUT_LIMIT", "interrupted", "NATIVE_RESOURCE_UNKNOWN", "RESOURCE_LIMIT",
                 "RESOURCE_EXECUTION_UNKNOWN"}
VerdictType == [code : VerdictCodes, rc : SUBSET {0, 1, 126, 127}, run : 0..MaxRuns]

Labels == {"refused", "down", "ready", "locking", "prepare"} \cup Owning

\* The types, and what the selected budget guarantees.
HostTypes ==
    /\ \A b \in budget : /\ b.status = "Selected" /\ b.high < b.max /\ b.max <= b.capacity
                         /\ b.concurrency = 1
    /\ available \in [Procs -> BOOLEAN] /\ free \in FreeMemory
ControlTypes ==
    /\ lock \subseteq Procs /\ pc \in [Procs -> Labels] /\ run \in [Procs -> 0..MaxRuns]
    /\ cause \in [Procs -> CauseType] /\ verdict \in [Procs -> VerdictType]
UnitTypes ==
    /\ unit \in [Runs -> UnitType] /\ sampled \in [Runs -> SUBSET Events]
    /\ envfile \subseteq Runs /\ late \subseteq Runs
    /\ \A r \in Runs : sampled[r] \subseteq unit[r].events
Types == HostTypes /\ ControlTypes /\ UnitTypes

\* The file lock has one holder at most, who is inside execution_lock and owns
\* a unit from prepare_execution to finish_execution.
Slot ==
    /\ \A p, q \in lock : p = q
    /\ \A p \in Procs : /\ p \in lock <=> pc[p] \in Inside
                        /\ run[p] \in Runs <=> pc[p] \in Owning

\* What an owner knows of its unit: the environment file waits for the helper,
\* and the helper never ends with 0.
OwnedUnit(p) ==
    LET u == unit[run[p]] IN
    /\ pc[p] = "launch" => u.st = "prepared"
    /\ pc[p] \in {"running", "finish"} => u.st \in {"requested", "active", "gone"}
    /\ u.helper => u.exit # {0}
    /\ u.helper /\ u.st # "gone" => run[p] \in envfile
    /\ pc[p] \in {"launch", "running"} => cause[p].failure = "none"
    /\ pc[p] = "finish" /\ cause[p].failure = "none" =>
         u.st = "gone" /\ cause[p].wrapper = {OrElse(u.exit, 1)}
Owned == \A p \in Procs : /\ pc[p] \in Owning => OwnedUnit(p)
                          /\ pc[p] \notin Owning => cause[p].failure = "none"

\* An exit status is one value, and no unit has one before it runs.
Exits ==
    \A r \in Runs :
        /\ unit[r].exit = {} \/ \E e \in {0, 1, 126, 127} : unit[r].exit = {e}
        /\ unit[r].st \in {"none", "prepared", "requested"} => unit[r].helper /\ unit[r].exit = {}

\* A unit that is, or that may still become, a command outside the slot's
\* accounting of late launches.
MayRun(r) ==
    /\ r \notin late
    /\ \/ unit[r].st = "active" /\ (~unit[r].helper \/ r \in envfile)
       \/ unit[r].st \in {"prepared", "requested"} /\ r \in envfile

\* With a holder, such a unit is the holder's; without, it is active, so that
\* the next holder's admission sees it in the slice, and it is the only one.
OneTree ==
    /\ \A r, s \in Runs : MayRun(r) /\ MayRun(s) => r = s
    /\ \A r \in Runs : MayRun(r) =>
         \/ unit[r].st = "active" /\ lock = {}
         \/ \E p \in lock : run[p] = r

\* A reported run is finished, and nobody owns it any more.
Settled ==
    /\ ResultIsUnits
    /\ \A p, q \in Procs : verdict[p].code = "ok" => verdict[p].run \in Runs /\ run[q] # verdict[p].run

IInv == Types /\ Slot /\ Owned /\ Exits /\ OneTree /\ Settled
-----------------------------------------------------------------------------
(* The native decisions.                                                   *)

LEMMA OrElseIn == ASSUME NEW S, NEW d PROVE (S = {} => OrElse(S, d) = d) /\ (S # {} => OrElse(S, d) \in S)
  BY DEF OrElse

\* The selected budget keeps its reclaim threshold below its hard limit and its
\* limit within the host, and allows one execution.
LEMMA SelectedBudget ==
    ASSUME NEW obs, NEW pol, obs.host \in SUBSET Nat, obs.cgroup = {},
           \A f \in PolicyFields : pol[f] \in SUBSET Int
    PROVE  LET b == resource_budget_select(obs, pol) IN
           b.status = "Selected" => /\ b.high < b.max /\ b.max <= b.capacity
                                    /\ b.concurrency = 1
  <1> DEFINE fraction == OrElse(pol.fraction, 15)
             cap == OrElse(pol.cap, 4096)
             tasks == OrElse(pol.tasks, 64)
             concurrency == OrElse(pol.concurrency, 1)
             runtime == OrElse(pol.runtime, 600)
             host == OrElse(obs.host, OrElse(obs.cgroup, 0))
             capacity == Least(host, OrElse(obs.cgroup, host))
             derived == Least((capacity * fraction) \div 100, cap)
             max == Least(OrElse(pol.max, derived), derived)
             valid == /\ pol.valid
                      /\ fraction \in 5..25 /\ cap >= 128
                      /\ tasks \in 1..4096 /\ concurrency = 1
                      /\ runtime \in 1..600
             budgeted == [status |-> "Selected", high |-> Least(Greatest(64, max \div 2), max - 1),
                          max |-> max, tasks |-> tasks, concurrency |-> concurrency,
                          runtime |-> runtime, capacity |-> capacity]
             b == resource_budget_select(obs, pol)
  <1>1. fraction \in Int /\ cap \in Int /\ capacity \in Nat
    <2>1. pol.fraction \in SUBSET Int /\ pol.cap \in SUBSET Int
      BY DEF PolicyFields
    <2>2. OrElse(obs.cgroup, 0) = 0 /\ OrElse(obs.cgroup, host) = host
      BY OrElseIn
    <2>3. OrElse(obs.host, 0) \in Nat
      BY OrElseIn
    <2>4. host \in Nat
      BY <2>2, <2>3
    <2>5. capacity \in Nat
      BY <2>2, <2>4 DEF Least
    <2>6. OrElse(pol.fraction, 15) \in Int /\ OrElse(pol.cap, 4096) \in Int
      BY <2>1, OrElseIn
    <2> QED
      BY <2>5, <2>6
  <1>2. OrElse(pol.max, derived) \in Int \/ derived \notin Int
    BY OrElseIn DEF PolicyFields
  <1>3. b = IF ~valid THEN EmptyBudget("InvalidPolicy")
            ELSE IF capacity < 256 \/ max < 128 THEN EmptyBudget("Unavailable")
            ELSE budgeted
    BY SMT DEF resource_budget_select
  <1>4. /\ valid => fraction \in 5..25 /\ concurrency = 1
        /\ derived = Least((capacity * fraction) \div 100, cap)
        /\ max = Least(OrElse(pol.max, derived), derived)
    OBVIOUS
  <1>5. /\ budgeted.status = "Selected" /\ budgeted.max = max /\ budgeted.capacity = capacity
        /\ budgeted.concurrency = concurrency
        /\ budgeted.high = Least(Greatest(64, max \div 2), max - 1)
    OBVIOUS
  <1> HIDE DEF fraction, cap, tasks, concurrency, runtime, host, capacity, derived, max, valid,
               budgeted, b
  <1>6. b.status = "Selected" => valid /\ b = budgeted
    BY <1>3 DEF EmptyBudget
  <1>7. valid => max \in Int /\ max <= capacity
    <2>1. valid => capacity * fraction \in Int /\ capacity * fraction <= capacity * 25
      BY <1>1, <1>4
    <2>2. \A x \in Int : x <= capacity * 25 => x \div 100 \in Int /\ x \div 100 <= capacity
      BY <1>1
    <2>3. valid => derived \in Int /\ derived <= capacity
      BY <1>1, <1>4, <2>1, <2>2 DEF Least
    <2> QED
      BY <1>2, <1>4, <2>3, <1>1 DEF Least
  <1>8. valid => Least(Greatest(64, max \div 2), max - 1) < max
    BY <1>7 DEF Least, Greatest
  <1>9. b.status = "Selected" => b.high < b.max /\ b.max <= b.capacity /\ b.concurrency = 1
    BY <1>4, <1>5, <1>6, <1>7, <1>8
  <1> QED
    BY <1>9 DEF b

\* A required admission that admits had a selected budget and no task in the slice.
LEMMA Admitted ==
    ASSUME Types, NEW p \in Procs, NEW mem, NEW tasks, NEW slot,
           Admit(p, mem, tasks, slot).status = "Admit"
    PROVE  budget # {} /\ tasks # {} /\ ~(OrElse(tasks, 0) >= 1)
  <1> DEFINE b == OrElse(budget, EmptyBudget("Unavailable"))
             obs == [contained |-> available[p], budget |-> budget # {}, host |-> {mem},
                     cgroup |-> {}, tasks |-> tasks, slot |-> slot, runtime |-> b.runtime + 1]
             pol == [required |-> TRUE, max |-> b.max, concurrency |-> b.concurrency,
                     runtime |-> b.runtime]
  <1>1. Admit(p, mem, tasks, slot) = resource_admission(obs, pol)
    BY DEF Admit
  <1>2. /\ obs.budget = (budget # {}) /\ obs.tasks = tasks /\ pol.required
        /\ pol.concurrency = b.concurrency
    OBVIOUS
  <1> HIDE DEF obs, pol
  <1>3. resource_admission(obs, pol).status = "Admit" =>
          /\ obs.budget \/ ~pol.required
          /\ (obs.tasks # {} /\ ~(OrElse(obs.tasks, 0) >= pol.concurrency)) \/ ~pol.required
    BY SMT DEF resource_admission, Admission, Uncontained
  <1>4. budget # {} => b.concurrency = 1
    BY OrElseIn DEF Types, HostTypes
  <1> QED
    BY <1>1, <1>2, <1>3, <1>4

-----------------------------------------------------------------------------
(* Types.                                                                  *)

LEMMA TypesInit == Init => Types
  <1> SUFFICES ASSUME Init PROVE Types
    OBVIOUS
  <1>1. PICK total \in HostMemory, s \in Settings, ok \in BOOLEAN :
          budget = {b \in Native_resource_budget_select([host |-> {total}, cgroup |-> {}], s, ok) :
                      b.status = "Selected" /\ resource_budget_identity(b, TRUE) # {}}
    BY Zenon DEF Init
  <1>2. \A b \in budget : /\ b.status = "Selected" /\ b.high < b.max /\ b.max <= b.capacity
                         /\ b.concurrency = 1
    <2> DEFINE pol == [k \in PolicyFields \cup {"valid"} |->
                         IF k = "valid"
                         THEN \A f \in PolicyFields \ {"max"} : \A x \in s[f] : x.num
                         ELSE Decoded(s[k])]
               obs == [host |-> {total}, cgroup |-> {}]
    <2>1. \A f \in PolicyFields : pol[f] \in SUBSET Int
      <3>1. ASSUME NEW f \in PolicyFields PROVE pol[f] = Decoded(s[f]) /\ s[f] \in SUBSET [num : BOOLEAN, v : Int]
        BY EnvelopeInputs DEF PolicyFields
      <3>2. ASSUME NEW x \in SUBSET [num : BOOLEAN, v : Int] PROVE Decoded(x) \in SUBSET Int
        BY DEF Decoded
      <3> QED
        BY <3>1, <3>2
    <2>2. obs.host \in SUBSET Nat /\ obs.cgroup = {}
      BY EnvelopeInputs
    <2>3. \A b \in budget : b = resource_budget_select(obs, pol) /\ b.status = "Selected"
      BY <1>1 DEF Native_resource_budget_select
    <2> HIDE DEF pol, obs
    <2>4. LET b == resource_budget_select(obs, pol) IN
          b.status = "Selected" => b.high < b.max /\ b.max <= b.capacity /\ b.concurrency = 1
      BY <2>1, <2>2, SelectedBudget
    <2> QED
      BY <2>3, <2>4
  <1>3. pc \in [Procs -> {"refused", "down"}]
    BY Zenon DEF Init
  <1>4. NoUnit \in UnitType /\ NoUnit.st = "none" /\ NoUnit.events = {}
    BY DEF NoUnit, UnitType, UnitStates
  <1>5. NoCause \in CauseType
    BY DEF NoCause, CauseType
  <1>6. Code("none") \in VerdictType /\ Code("none").rc = {}
    BY EnvelopeBounds DEF Code, VerdictType, VerdictCodes
  <1>7. /\ available = [p \in Procs |-> FALSE] /\ free \in FreeMemory
        /\ lock = {} /\ run = [p \in Procs |-> 0] /\ cause = [p \in Procs |-> NoCause]
        /\ unit = [r \in Runs |-> NoUnit] /\ envfile = {} /\ sampled = [r \in Runs |-> {}]
        /\ verdict = [p \in Procs |-> Code("none")] /\ late = {}
    BY Zenon DEF Init
  <1> QED
    BY <1>2, <1>3, <1>4, <1>5, <1>6, <1>7, EnvelopeBounds
       DEF Types, HostTypes, ControlTypes, UnitTypes, Labels
LEMMA TypesGiveTypeOK == Types => TypeOK
  <1> SUFFICES ASSUME Types PROVE TypeOK
    OBVIOUS
  <1>1. \A r \in Runs : unit[r].st \in UnitStates /\ sampled[r] \subseteq unit[r].events
    BY DEF Types, UnitTypes, UnitType
  <1>2. \A p \in Procs : verdict[p].rc \subseteq {0, 1, 126, 127}
    BY DEF Types, ControlTypes, VerdictType
  <1> QED
    BY <1>1, <1>2 DEF Types, HostTypes, ControlTypes, UnitTypes, TypeOK, Labels, Owning, HelperStatus

LEMMA CodeTypes == \A c \in VerdictCodes : Code(c) \in VerdictType /\ Code(c).rc = {} /\ Code(c).code = c
  BY EnvelopeBounds DEF Code, VerdictType

LEMMA AdmissionCodes == \A d : AdmissionCode(d) \in VerdictCodes \ {"ok", "none"}
  BY DEF AdmissionCode, VerdictCodes

\* A helper that fails ends its unit with a status of its own.
LEMMA HelperEnds ==
    ASSUME unit \in [Runs -> UnitType], NEW r \in Runs, HelperFails(r)
    PROVE  /\ unit[r].st = "active" /\ unit[r].helper
           /\ envfile' = envfile \/ envfile' = envfile \ {r}
           /\ UNCHANGED <<lock, pc, run, cause, sampled, late>>
           /\ \E u \in UnitType :
                /\ unit' = [unit EXCEPT ![r] = u] /\ u.st = "gone" /\ u.helper
                /\ u.exit \in {{1}, {126}, {127}} /\ u.events = unit[r].events
  <1>1. PICK status \in {1, 126, 127} : unit' = [unit EXCEPT ![r] = Ended(unit[r], {status}, "ExitCode")]
    BY DEF HelperFails, HelperStatus
  <1>2. unit[r].st = "active" /\ unit[r].helper
    BY DEF HelperFails
  <1>3. PICK u : u = Ended(unit[r], {status}, "ExitCode")
    OBVIOUS
  <1>4. /\ u \in UnitType /\ u.st = "gone" /\ u.helper /\ u.exit = {status}
        /\ u.events = unit[r].events
    BY <1>2, <1>3 DEF Ended, UnitType, UnitStates
  <1>5. unit' = [unit EXCEPT ![r] = u] /\ u.exit \in {{1}, {126}, {127}}
    BY <1>1, <1>3, <1>4
  <1>6. /\ envfile' = envfile \/ envfile' = envfile \ {r}
        /\ UNCHANGED <<lock, pc, run, cause, sampled, late>>
    BY DEF HelperFails
  <1> QED
    BY <1>2, <1>4, <1>5, <1>6

\* The steps of the user manager and of the command leave the processes alone.
LEMMA ManagerLeavesProcs ==
    \A r \in Runs : Manager(r) \/ CommandEvent(r) =>
        UNCHANGED <<hostVars, lock, pc, run, cause, verdict, late, sampled>>
  <1> TAKE r \in Runs
  <1> DEFINE Same == UNCHANGED <<hostVars, lock, pc, run, cause, verdict, late, sampled>>
  <1>1. UnitStarts(r) => Same
    BY DEF UnitStarts
  <1>2. HelperExecs(r) => Same
    BY DEF HelperExecs
  <1>3. HelperFails(r) => Same
    BY DEF HelperFails
  <1>4. CommandEnds(r) => Same
    BY DEF CommandEnds
  <1>5. CommandEvent(r) => Same
    BY DEF CommandEvent
  <1> QED
    BY <1>1, <1>2, <1>3, <1>4, <1>5 DEF Manager

LEMMA HostStep == HostTypes /\ [Next]_vars => HostTypes'
  <1> SUFFICES ASSUME HostTypes, [Next]_vars PROVE HostTypes'
    OBVIOUS
  <1>1. ASSUME NEW p \in Procs, Construct(p) PROVE HostTypes'
    BY <1>1 DEF Construct, HostTypes
  <1>2. CASE MemoryChanges
    BY <1>2 DEF MemoryChanges, HostTypes
  <1>3. ASSUME UNCHANGED <<budget, available, free>> PROVE HostTypes'
    BY <1>3 DEF HostTypes
  <1>4. ASSUME NEW p \in Procs, Begin(p) \/ TakeLock(p) \/ Prepare(p) \/ Launch(p) \/ LauncherEnds(p)
        PROVE  HostTypes'
    BY <1>3, <1>4 DEF Begin, TakeLock, Prepare, Launch, LauncherEnds, hostVars
  <1>5. ASSUME NEW p \in Procs, Finish(p) \/ Sample(p) \/ OwnerGivesUp(p) \/ Crash(p) PROVE HostTypes'
    BY <1>3, <1>5 DEF Finish, Sample, OwnerGivesUp, Crash, hostVars
  <1>6. ASSUME NEW r \in Runs, Manager(r) \/ CommandEvent(r) PROVE HostTypes'
    BY <1>3, <1>6, ManagerLeavesProcs DEF hostVars
  <1>7. CASE UNCHANGED vars
    BY <1>3, <1>7 DEF vars
  <1> QED
    BY <1>1, <1>2, <1>4, <1>5, <1>6, <1>7 DEF Next, Step, Rest

\* What run_bounded gives its caller.
LEMMA ReportedTypes ==
    ASSUME ControlTypes, UnitTypes, NEW p \in Procs, run[p] \in Runs,
           NEW read \in BOOLEAN, NEW clean \in BOOLEAN, NEW returned \in BOOLEAN,
           NEW v, v = Reported(p, Native_resource_outcome(Observed(p, read, clean), returned))
    PROVE  /\ v \in VerdictType
           /\ v.code = "ok" =>
                /\ v.run = run[p] /\ clean /\ cause[p].failure = "none" /\ v.rc # {}
                /\ v.rc = unit[run[p]].exit \/ (v.rc = {0} /\ cause[p].wrapper = {0})
  <1> DEFINE obs == Observed(p, read, clean)
             known == [obs EXCEPT !.systemd = IF @ \in SystemdResults THEN @ ELSE "Unknown"]
             out == Native_resource_outcome(obs, returned)
             o == resource_outcome(known)
             d == resource_outcome_classify(known)
  <1>1. /\ known.exit = {} \/ known.exit = unit[run[p]].exit
        /\ known.wrapper = cause[p].wrapper /\ known.cleanup = {clean}
    BY DEF Observed, Properties
  <1>2. out = {} \/ out = {o}
    BY DEF Native_resource_outcome
  <1>3. o.outcome = d /\ o.exit = IF ~HasExecutionExit(d.status) THEN {}
                                  ELSE IF known.exit # {} THEN known.exit
                                  ELSE IF d.status = "Pass" /\ known.wrapper = {0} THEN {0}
                                  ELSE {}
    BY DEF resource_outcome
  <1>4. ~clean => d.status = "CleanupFailure"
    BY <1>1 DEF resource_outcome_classify, Outcome
  <1>5. v = LET f == cause[p].failure IN
            IF f # "none" THEN Code(f)
            ELSE IF out = {} THEN Code("NATIVE_RESOURCE_UNKNOWN")
            ELSE IF OrElse(out, {}).outcome.exhausted THEN Code("RESOURCE_LIMIT")
            ELSE IF OrElse(out, {}).exit = {} THEN Code("RESOURCE_EXECUTION_UNKNOWN")
            ELSE [code |-> "ok", rc |-> OrElse(out, {}).exit, run |-> run[p]]
    BY DEF Reported
  <1> HIDE DEF obs, known, out, o, d
  <1>6. out # {} => OrElse(out, {}) = o
    BY <1>2, OrElseIn
  <1>7. cause[p].failure \in VerdictCodes \ {"ok"} /\ unit[run[p]].exit \subseteq {0, 1, 126, 127}
    BY DEF ControlTypes, CauseType, VerdictCodes, UnitTypes, UnitType
  <1>8. o.exit = {} \/ o.exit = unit[run[p]].exit \/ (o.exit = {0} /\ cause[p].wrapper = {0})
    BY <1>1, <1>3
  <1>9. o.exit # {} => clean
    BY <1>3, <1>4 DEF HasExecutionExit
  <1>10. \/ \E c \in VerdictCodes \ {"ok"} : v = Code(c)
         \/ /\ v = [code |-> "ok", rc |-> o.exit, run |-> run[p]]
            /\ cause[p].failure = "none" /\ o.exit # {}
    BY <1>5, <1>6, <1>7 DEF VerdictCodes
  <1>11. [code |-> "ok", rc |-> o.exit, run |-> run[p]] \in VerdictType
    <2>1. o.exit \in SUBSET {0, 1, 126, 127} /\ run[p] \in 0..MaxRuns
      BY <1>7, <1>8 DEF ControlTypes
    <2> QED
      BY <2>1 DEF VerdictType, VerdictCodes
  <1> QED
    BY <1>8, <1>9, <1>10, <1>11, CodeTypes

LEMMA ControlStep == Types /\ Slot /\ [Next]_vars => ControlTypes'
  <1> SUFFICES ASSUME Types, Slot, [Next]_vars PROVE ControlTypes'
    OBVIOUS
  <1> USE DEF Goto
  <1>types. ControlTypes /\ UnitTypes
    BY DEF Types
  <1>labels. Owning \subseteq Labels /\ {"refused", "down", "ready", "locking", "prepare"} \subseteq Labels
             /\ {"launch", "running", "finish"} \subseteq Labels
    BY DEF Labels, Owning
  <1>codes. \A d : Code(AdmissionCode(d)) \in VerdictType
    BY CodeTypes, AdmissionCodes
  <1>code. {Code("none"), Code("RESOURCE_ENVIRONMENT")} \subseteq VerdictType
    BY CodeTypes DEF VerdictCodes
  <1>0. CASE UNCHANGED <<lock, pc, run, cause, verdict>>
    BY <1>0, <1>types DEF ControlTypes
  <1>1. ASSUME NEW p \in Procs, Construct(p) PROVE ControlTypes'
    BY <1>1, <1>types, <1>labels DEF Construct, ControlTypes, runVars
  <1>2. ASSUME NEW p \in Procs, Begin(p) PROVE ControlTypes'
    <2>1. \E v \in VerdictType : verdict' = [verdict EXCEPT ![p] = v]
      BY <1>2, <1>codes, <1>code DEF Begin
    <2>2. UNCHANGED <<lock, run, cause>> /\ (UNCHANGED pc \/ Goto(p, "locking"))
      BY <1>2 DEF Begin, runVars
    <2> QED
      BY <2>1, <2>2, <1>types, <1>labels DEF ControlTypes
  <1>3. ASSUME NEW p \in Procs, TakeLock(p) PROVE ControlTypes'
    <2>1. \/ Goto(p, "prepare") /\ lock' = {p} /\ UNCHANGED verdict
          \/ \E d : Goto(p, "ready") /\ UNCHANGED lock
                    /\ verdict' = [verdict EXCEPT ![p] = Code(AdmissionCode(d))]
      BY <1>3 DEF TakeLock
    <2>2. UNCHANGED <<run, cause>>
      BY <1>3 DEF TakeLock, runVars
    <2> QED
      BY <2>1, <2>2, <1>types, <1>labels, <1>codes DEF ControlTypes
  <1>4. ASSUME NEW p \in Procs, Prepare(p) PROVE ControlTypes'
    <2>1. \/ \E c : Raise(p, c) /\ Code(c) \in VerdictType /\ UNCHANGED run
          \/ Goto(p, "launch") /\ UNCHANGED <<lock, verdict>> /\ \E r \in NextRun : run' = [run EXCEPT ![p] = r]
      BY <1>4, <1>codes, <1>code DEF Prepare
    <2>2. UNCHANGED cause
      BY <1>4 DEF Prepare
    <2>3. NextRun \subseteq 0..MaxRuns
      BY EnvelopeBounds DEF NextRun, Runs
    <2> QED
      BY <2>1, <2>2, <2>3, <1>types, <1>labels DEF ControlTypes, Raise
  <1>5. ASSUME NEW p \in Procs, Launch(p) \/ LauncherEnds(p) \/ OwnerGivesUp(p) PROVE ControlTypes'
    <2>1. run[p] \in Runs
      BY <1>5, <1>types DEF Slot, Launch, LauncherEnds, OwnerGivesUp, Owning
    <2>2. cause' \in [Procs -> CauseType]
      <3>1. CASE Launch(p)
        BY <3>1, <1>types DEF Launch, ControlTypes, CauseType
      <3>2. CASE LauncherEnds(p)
        <4>1. unit[run[p]].exit \subseteq {0, 1, 126, 127}
          BY <2>1, <1>types DEF UnitTypes, UnitType
        <4>2. {OrElse(unit[run[p]].exit, 1)} \in SUBSET {0, 1, 126, 127}
          BY <4>1, OrElseIn
        <4>3. \E w \in SUBSET {0, 1, 126, 127} : cause' = [cause EXCEPT ![p].wrapper = w]
          BY <3>2, <4>2 DEF LauncherEnds
        <4> QED
          BY <4>3, <1>types DEF ControlTypes, CauseType
      <3>3. CASE OwnerGivesUp(p)
        BY <3>3, <1>types DEF OwnerGivesUp, ControlTypes, CauseType
      <3> QED
        BY <1>5, <3>1, <3>2, <3>3
    <2>3. UNCHANGED <<lock, run, verdict>> /\ pc' \in [Procs -> Labels]
      BY <1>5, <1>types, <1>labels DEF Launch, LauncherEnds, OwnerGivesUp, ControlTypes
    <2> QED
      BY <2>2, <2>3, <1>types DEF ControlTypes
  <1>6. ASSUME NEW p \in Procs, Finish(p) PROVE ControlTypes'
    <2>1. run[p] \in Runs
      BY <1>6, <1>types DEF Slot, Finish, Owning
    <2>2. PICK v : v \in VerdictType /\ verdict' = [verdict EXCEPT ![p] = v]
      BY <1>6, <1>types, <2>1, ReportedTypes DEF Finish
    <2>3. /\ Goto(p, "ready") /\ lock' = lock \ {p}
          /\ run' = [run EXCEPT ![p] = 0] /\ cause' = [cause EXCEPT ![p] = NoCause]
      BY <1>6 DEF Finish
    <2>4. NoCause \in CauseType /\ 0 \in 0..MaxRuns
      BY EnvelopeBounds DEF NoCause, CauseType
    <2> QED
      BY <2>2, <2>3, <2>4, <1>types, <1>labels DEF ControlTypes
  <1>7. ASSUME NEW p \in Procs, Crash(p) PROVE ControlTypes'
    <2>1. /\ Goto(p, "down") /\ lock' = lock \ {p} /\ UNCHANGED verdict
          /\ run' = [run EXCEPT ![p] = 0] /\ cause' = [cause EXCEPT ![p] = NoCause]
      BY <1>7 DEF Crash
    <2>2. NoCause \in CauseType /\ 0 \in 0..MaxRuns
      BY EnvelopeBounds DEF NoCause, CauseType
    <2> QED
      BY <2>1, <2>2, <1>types, <1>labels DEF ControlTypes
  <1>8. ASSUME NEW p \in Procs, Sample(p) PROVE ControlTypes'
    BY <1>8, <1>0 DEF Sample
  <1>9. CASE MemoryChanges
    BY <1>9, <1>0 DEF MemoryChanges, runVars
  <1>10. CASE UNCHANGED vars
    BY <1>10, <1>0 DEF vars
  <1>11. ASSUME NEW r \in Runs, Manager(r) \/ CommandEvent(r) PROVE ControlTypes'
    BY <1>11, <1>0, ManagerLeavesProcs
  <1> QED
    BY <1>1, <1>2, <1>3, <1>4, <1>5, <1>6, <1>7, <1>8, <1>9, <1>10, <1>11 DEF Next, Step, Rest

\* A change of one unit that keeps its type and its sampled counters.
LEMMA UnitChanges ==
    ASSUME UnitTypes, NEW r \in Runs, NEW u \in UnitType, unit' = [unit EXCEPT ![r] = u],
           UNCHANGED sampled, unit[r].events \subseteq u.events,
           envfile' \subseteq Runs, late' \subseteq Runs
    PROVE  UnitTypes'
  <1>1. unit' \in [Runs -> UnitType]
    BY DEF UnitTypes
  <1>2. ASSUME NEW s \in Runs PROVE sampled'[s] \subseteq unit'[s].events
    <2>1. CASE s = r
      BY <2>1 DEF UnitTypes
    <2>2. CASE s # r
      BY <2>2 DEF UnitTypes
    <2> QED
      BY <2>1, <2>2
  <1> QED
    BY <1>1, <1>2 DEF UnitTypes

\* The units that differ only in their state.
LEMMA StateChanges ==
    ASSUME UnitTypes, NEW r \in Runs, NEW s \in UnitStates
    PROVE  /\ [unit EXCEPT ![r].st = s] = [unit EXCEPT ![r] = [unit[r] EXCEPT !.st = s]]
           /\ [unit[r] EXCEPT !.st = s] \in UnitType
           /\ [unit[r] EXCEPT !.st = s].events = unit[r].events
  BY DEF UnitTypes, UnitType

LEMMA RecordChanges ==
    ASSUME NEW u \in UnitType
    PROVE  /\ [u EXCEPT !.helper = FALSE] \in UnitType /\ Collected(u) \in UnitType
           /\ [u EXCEPT !.helper = FALSE].events = u.events
           /\ \A e \in Events : LimitMet(u, e) \in UnitType /\ u.events \subseteq LimitMet(u, e).events
           /\ \A x \in SUBSET {0, 1, 126, 127}, w \in {"Success", "ExitCode", "Timeout"} :
                Ended(u, x, w) \in UnitType /\ Ended(u, x, w).events = u.events
  <1>1. /\ [u EXCEPT !.helper = FALSE] \in UnitType
        /\ [u EXCEPT !.helper = FALSE].events = u.events
    BY DEF UnitType
  <1>2. Collected(u) \in UnitType
    BY DEF UnitType, UnitStates, Collected
  <1>3. ASSUME NEW e \in Events
        PROVE  LimitMet(u, e) \in UnitType /\ u.events \subseteq LimitMet(u, e).events
    BY DEF UnitType, UnitStates, LimitMet
  <1>4. ASSUME NEW x \in SUBSET {0, 1, 126, 127}, NEW w \in {"Success", "ExitCode", "Timeout"}
        PROVE  Ended(u, x, w) \in UnitType /\ Ended(u, x, w).events = u.events
    BY DEF UnitType, UnitStates, Ended
  <1> QED
    BY <1>1, <1>2, <1>3, <1>4

LEMMA UnitStep == Types /\ Slot /\ [Next]_vars => UnitTypes'
  <1> SUFFICES ASSUME Types, Slot, [Next]_vars PROVE UnitTypes'
    OBVIOUS
  <1>types. ControlTypes /\ UnitTypes
    BY DEF Types
  <1>files. envfile \subseteq Runs /\ late \subseteq Runs
    BY <1>types DEF UnitTypes
  <1>st. {"prepared", "requested", "active", "gone"} \subseteq UnitStates
    BY DEF UnitStates
  <1>0. CASE UNCHANGED <<unit, sampled, envfile, late>>
    BY <1>0, <1>types DEF UnitTypes
  <1>1. ASSUME NEW p \in Procs, Construct(p) \/ Begin(p) \/ TakeLock(p) PROVE UnitTypes'
    BY <1>1, <1>0 DEF Construct, Begin, TakeLock, runVars
  <1>2. ASSUME NEW p \in Procs, Prepare(p) PROVE UnitTypes'
    <2>1. CASE UNCHANGED <<unit, envfile>>
      BY <1>2, <2>1, <1>0 DEF Prepare
    <2>2. CASE ~UNCHANGED <<unit, envfile>>
      <3>1. PICK r \in NextRun : envfile' = envfile \cup {r} /\ unit' = [unit EXCEPT ![r].st = "prepared"]
        BY <1>2, <2>2 DEF Prepare
      <3>2. r \in Runs /\ UNCHANGED <<sampled, late>>
        BY <1>2 DEF NextRun, Prepare
      <3> QED
        BY <3>1, <3>2, <1>types, <1>files, <1>st, StateChanges, UnitChanges
    <2> QED
      BY <2>1, <2>2
  <1>3. ASSUME NEW p \in Procs, Launch(p) \/ LauncherEnds(p) \/ OwnerGivesUp(p) PROVE UnitTypes'
    <2>1. run[p] \in Runs
      BY <1>3 DEF Slot, Launch, LauncherEnds, OwnerGivesUp, Owning
    <2>2. UNCHANGED unit \/ \E s \in {"requested", "gone"} : unit' = [unit EXCEPT ![run[p]].st = s]
      BY <1>3 DEF Launch, LauncherEnds, OwnerGivesUp
    <2>3. UNCHANGED <<sampled, envfile, late>>
      BY <1>3 DEF Launch, LauncherEnds, OwnerGivesUp
    <2> QED
      BY <2>1, <2>2, <2>3, <1>0, <1>types, <1>files, <1>st, StateChanges, UnitChanges
  <1>4. ASSUME NEW p \in Procs, Finish(p) PROVE UnitTypes'
    <2>1. run[p] \in Runs
      BY <1>4 DEF Slot, Finish, Owning
    <2>2. unit' = unit \/ unit' = [unit EXCEPT ![run[p]] = Collected(unit[run[p]])]
      BY <1>4 DEF Finish, CleanupUnit
    <2>3. sampled' = [sampled EXCEPT ![run[p]] = {}] /\ envfile' \subseteq Runs /\ late' \subseteq Runs
      BY <1>4, <2>1, <1>files DEF Finish
    <2>4. Collected(unit[run[p]]) \in UnitType
      BY <2>1, <1>types, RecordChanges DEF UnitTypes
    <2>5. sampled'[run[p]] = {} /\ \A r \in Runs \ {run[p]} : sampled'[r] = sampled[r] /\ unit'[r] = unit[r]
      BY <2>1, <2>2, <2>3, <1>types DEF UnitTypes
    <2>6. unit' \in [Runs -> UnitType] /\ sampled' \in [Runs -> SUBSET Events]
      BY <2>2, <2>3, <2>4, <1>types DEF UnitTypes
    <2> QED
      BY <2>3, <2>5, <2>6, <1>types DEF UnitTypes
  <1>5. ASSUME NEW p \in Procs, Crash(p) PROVE UnitTypes'
    <2>1. late' \subseteq Runs /\ UNCHANGED envfile
      BY <1>5, <1>files DEF Crash
    <2>2. unit' \in [Runs -> UnitType] /\ \A r \in Runs : unit'[r].events = unit[r].events
      <3>1. CASE pc[p] = "launch"
        <4>1. run[p] \in Runs
          BY <3>1 DEF Slot, Owning
        <4>2. unit' = [unit EXCEPT ![run[p]].st = "gone"]
          BY <1>5, <3>1 DEF Crash
        <4> QED
          BY <4>1, <4>2, <1>types, <1>st, StateChanges DEF UnitTypes
      <3>2. CASE pc[p] # "launch"
        BY <1>5, <3>2, <1>types DEF Crash, UnitTypes
      <3> QED
        BY <3>1, <3>2
    <2>3. \A r \in Runs : sampled'[r] \in {{}, sampled[r]}
      BY <1>5 DEF Crash
    <2>4. sampled' \in [Runs -> SUBSET Events]
      BY <1>5, <1>types DEF Crash, UnitTypes
    <2> QED
      BY <2>1, <2>2, <2>3, <2>4, <1>types, <1>files DEF UnitTypes
  <1>6. ASSUME NEW p \in Procs, Sample(p) PROVE UnitTypes'
    <2>1. /\ run[p] \in Runs /\ UNCHANGED <<unit, envfile, late>>
          /\ sampled' = [sampled EXCEPT ![run[p]] = sampled[run[p]] \cup unit[run[p]].events]
      BY <1>6 DEF Sample, ActiveUnits
    <2>2. unit[run[p]].events \subseteq Events
      BY <2>1, <1>types DEF UnitTypes, UnitType
    <2> QED
      BY <2>1, <2>2, <1>types DEF UnitTypes
  <1>7. ASSUME NEW r \in Runs, UnitStarts(r) PROVE UnitTypes'
    <2>1. unit' = [unit EXCEPT ![r].st = "active"] /\ UNCHANGED <<sampled, envfile, late>>
      BY <1>7 DEF UnitStarts
    <2> QED
      BY <2>1, <1>types, <1>files, <1>st, StateChanges, UnitChanges
  <1>8. ASSUME NEW r \in Runs, HelperExecs(r) \/ HelperFails(r) PROVE UnitTypes'
    <2>1. PICK u \in UnitType : unit' = [unit EXCEPT ![r] = u] /\ unit[r].events \subseteq u.events
      <3>1. CASE HelperExecs(r)
        <4>1. unit' = [unit EXCEPT ![r] = [unit[r] EXCEPT !.helper = FALSE]]
          BY <3>1, <1>types DEF HelperExecs, UnitTypes
        <4>2. unit[r] \in UnitType
          BY <1>types DEF UnitTypes
        <4>3. /\ [unit[r] EXCEPT !.helper = FALSE] \in UnitType
              /\ [unit[r] EXCEPT !.helper = FALSE].events = unit[r].events
          BY <4>2, RecordChanges, Zenon
        <4> QED
          BY <4>1, <4>3
      <3>2. CASE HelperFails(r)
        BY <3>2, <1>types, HelperEnds DEF UnitTypes
      <3> QED
        BY <1>8, <3>1, <3>2
    <2>2. UNCHANGED <<sampled, late>> /\ envfile' \subseteq envfile
      BY <1>8 DEF HelperExecs, HelperFails
    <2> QED
      BY <2>1, <2>2, <1>types, <1>files, UnitChanges
  <1>9. ASSUME NEW r \in Runs, CommandEvent(r) PROVE UnitTypes'
    <2>1. PICK u \in UnitType : unit' = [unit EXCEPT ![r] = u] /\ unit[r].events \subseteq u.events
      <3>1. PICK e \in Events : unit' = [unit EXCEPT ![r] = LimitMet(unit[r], e)]
        BY <1>9 DEF CommandEvent
      <3>2. unit[r] \in UnitType
        BY <1>types DEF UnitTypes
      <3>3. LimitMet(unit[r], e) \in UnitType /\ unit[r].events \subseteq LimitMet(unit[r], e).events
        BY <3>2, RecordChanges, Zenon
      <3> QED
        BY <3>1, <3>3, Zenon
    <2>2. UNCHANGED <<sampled, envfile, late>>
      BY <1>9 DEF CommandEvent
    <2> QED
      BY <2>1, <2>2, <1>types, <1>files, UnitChanges
  <1>10. ASSUME NEW r \in Runs, CommandEnds(r) PROVE UnitTypes'
    <2>1. PICK u \in UnitType : unit' = [unit EXCEPT ![r] = u] /\ unit[r].events \subseteq u.events
      <3>1. unit[r] \in UnitType /\ {{}, {0}, {1}} \subseteq SUBSET {0, 1, 126, 127}
        BY <1>types DEF UnitTypes
      <3>2. PICK x \in {{}, {0}, {1}}, w \in {"Success", "ExitCode", "Timeout"} :
              unit' = [unit EXCEPT ![r] = Ended(unit[r], x, w)]
        BY <1>10 DEF CommandEnds
      <3>3. Ended(unit[r], x, w) \in UnitType /\ Ended(unit[r], x, w).events = unit[r].events
        BY <3>1, <3>2, RecordChanges
      <3> QED
        BY <3>2, <3>3
    <2>2. UNCHANGED <<sampled, envfile, late>>
      BY <1>10 DEF CommandEnds
    <2> QED
      BY <2>1, <2>2, <1>types, <1>files, UnitChanges
  <1>11. CASE MemoryChanges
    BY <1>11, <1>0 DEF MemoryChanges, runVars
  <1>12. CASE UNCHANGED vars
    BY <1>12, <1>0 DEF vars
  <1> QED
    BY <1>1, <1>2, <1>3, <1>4, <1>5, <1>6, <1>7, <1>8, <1>9, <1>10, <1>11, <1>12 DEF Next, Step, Manager, Rest

-----------------------------------------------------------------------------
(* The execution slot.                                                     *)

\* A process that moves outside execution_lock, or inside it.
LEMMA SlotKept ==
    ASSUME Types, Slot, NEW p \in Procs, NEW l, Goto(p, l), UNCHANGED <<lock, run>>,
           pc[p] \in Inside <=> l \in Inside, pc[p] \in Owning <=> l \in Owning
    PROVE  Slot'
  BY DEF Types, ControlTypes, Slot, Goto

\* A process that leaves the scope of execution_lock.
LEMMA SlotLeft ==
    ASSUME Types, Slot, NEW p \in Procs, NEW l \in Labels \ Inside, Goto(p, l), lock' = lock \ {p},
           run' = [run EXCEPT ![p] = 0]
    PROVE  Slot'
  BY DEF Types, ControlTypes, Slot, Goto, Inside, Runs

LEMMA SlotStep == Types /\ Slot /\ [Next]_vars => Slot'
  <1> SUFFICES ASSUME Types, Slot, [Next]_vars PROVE Slot'
    OBVIOUS
  <1> USE DEF Inside, Owning
  <1>types. ControlTypes
    BY DEF Types
  <1>0. CASE UNCHANGED <<lock, pc, run>>
    BY <1>0 DEF Slot
  <1>1. ASSUME NEW p \in Procs, Construct(p) PROVE Slot'
    BY <1>1, SlotKept DEF Construct, runVars
  <1>2. ASSUME NEW p \in Procs, Begin(p) PROVE Slot'
    <2>1. UNCHANGED <<lock, run>> /\ pc[p] = "ready" /\ (UNCHANGED pc \/ Goto(p, "locking"))
      BY <1>2 DEF Begin, runVars
    <2> QED
      BY <2>1, <1>0, SlotKept
  <1>3. ASSUME NEW p \in Procs, TakeLock(p) PROVE Slot'
    <2>1. /\ pc[p] = "locking" /\ UNCHANGED run
          /\ \/ lock = {} /\ lock' = {p} /\ Goto(p, "prepare")
             \/ UNCHANGED lock /\ Goto(p, "ready")
      BY <1>3 DEF TakeLock, runVars
    <2>2. CASE lock = {} /\ lock' = {p} /\ Goto(p, "prepare")
      BY <2>1, <2>2, <1>types DEF Slot, ControlTypes, Goto
    <2>3. CASE UNCHANGED lock /\ Goto(p, "ready")
      BY <2>1, <2>3, SlotKept
    <2> QED
      BY <2>1, <2>2, <2>3
  <1>4. ASSUME NEW p \in Procs, Prepare(p) PROVE Slot'
    <2>1. pc[p] = "prepare"
      BY <1>4 DEF Prepare
    <2>2. CASE \E c : Raise(p, c) /\ UNCHANGED run
      <3>1. Goto(p, "ready") /\ lock' = lock \ {p} /\ run' = run
        BY <2>2 DEF Raise
      <3>2. run[p] \notin Runs
        BY <2>1 DEF Slot
      <3> QED
        BY <3>1, <3>2, <1>types DEF Slot, ControlTypes, Goto
    <2>3. CASE Goto(p, "launch") /\ UNCHANGED lock /\ \E r \in Runs : run' = [run EXCEPT ![p] = r]
      BY <2>1, <2>3, <1>types DEF Slot, ControlTypes, Goto
    <2> QED
      BY <1>4, <2>2, <2>3 DEF Prepare, NextRun
  <1>5. ASSUME NEW p \in Procs, Launch(p) \/ LauncherEnds(p) \/ OwnerGivesUp(p) PROVE Slot'
    <2>1. UNCHANGED <<lock, run>> /\ pc[p] \in Owning /\ (Goto(p, "running") \/ Goto(p, "finish"))
      BY <1>5 DEF Launch, LauncherEnds, OwnerGivesUp
    <2> QED
      BY <2>1, SlotKept
  <1>6. ASSUME NEW p \in Procs, Finish(p) \/ Crash(p) PROVE Slot'
    <2>1. /\ Goto(p, "ready") \/ Goto(p, "down")
          /\ lock' = lock \ {p} /\ run' = [run EXCEPT ![p] = 0]
      BY <1>6 DEF Finish, Crash
    <2> QED
      BY <2>1, SlotLeft DEF Labels
  <1>7. ASSUME NEW p \in Procs, Sample(p) PROVE Slot'
    BY <1>7, <1>0 DEF Sample
  <1>8. CASE MemoryChanges
    BY <1>8, <1>0 DEF MemoryChanges, runVars
  <1>9. CASE UNCHANGED vars
    BY <1>9, <1>0 DEF vars
  <1>10. ASSUME NEW r \in Runs, Manager(r) \/ CommandEvent(r) PROVE Slot'
    BY <1>10, <1>0, ManagerLeavesProcs
  <1> QED
    BY <1>1, <1>2, <1>3, <1>4, <1>5, <1>6, <1>7, <1>8, <1>9, <1>10 DEF Next, Step, Rest

\* At most one process owns a unit.
LEMMA OneOwner ==
    ASSUME Slot, NEW p \in Procs, NEW q \in Procs, pc[p] \in Inside, pc[q] \in Inside
    PROVE  p = q
  BY DEF Slot

\* The unit of an owner, in the words of the other parts.
LEMMA OwnedRun ==
    ASSUME Types, Slot, Owned, NEW p \in Procs, pc[p] \in Owning
    PROVE  run[p] \in Runs /\ unit[run[p]] \in UnitType /\ OwnedUnit(p)
  BY DEF Types, UnitTypes, Slot, Owned

LEMMA ExitsStep == Types /\ Slot /\ Owned /\ Exits /\ [Next]_vars => Exits'
  <1> SUFFICES ASSUME Types, Slot, Owned, Exits, [Next]_vars PROVE Exits'
    OBVIOUS
  <1>types. unit \in [Runs -> UnitType]
    BY DEF Types, UnitTypes
  <1>0. CASE UNCHANGED unit
    BY <1>0 DEF Exits
  <1>state. ASSUME NEW r \in Runs, NEW s, unit' = [unit EXCEPT ![r].st = s],
                   s \in {"none", "prepared", "requested"} => unit[r].helper /\ unit[r].exit = {}
            PROVE  Exits'
    BY <1>state, <1>types DEF Exits, UnitType
  <1>ran. ASSUME NEW r \in Runs, NEW u, unit' = [unit EXCEPT ![r] = u],
                 u.st \notin {"none", "prepared", "requested"},
                 u.exit \in {{}, {0}, {1}, {126}, {127}, unit[r].exit}
          PROVE  Exits'
    BY <1>ran, <1>types DEF Exits
  <1>1. ASSUME NEW p \in Procs, Construct(p) \/ Begin(p) \/ TakeLock(p) PROVE Exits'
    BY <1>1, <1>0 DEF Construct, Begin, TakeLock, runVars
  <1>2. ASSUME NEW p \in Procs, Prepare(p) PROVE Exits'
    <2>1. UNCHANGED unit \/ \E r \in NextRun : unit' = [unit EXCEPT ![r].st = "prepared"]
      BY <1>2 DEF Prepare
    <2> QED
      BY <2>1, <1>0, <1>state DEF Exits, NextRun
  <1>3. ASSUME NEW p \in Procs, Launch(p) \/ LauncherEnds(p) \/ OwnerGivesUp(p) PROVE Exits'
    <2>1. pc[p] \in Owning /\ run[p] \in Runs
      BY <1>3, OwnedRun DEF Launch, LauncherEnds, OwnerGivesUp, Owning
    <2>2. CASE Launch(p)
      <3>1. unit[run[p]].st = "prepared"
        BY <2>1, <2>2, OwnedRun DEF Launch, OwnedUnit
      <3>2. \E s \in {"requested", "gone"} : unit' = [unit EXCEPT ![run[p]].st = s]
        BY <2>2 DEF Launch
      <3> QED
        BY <2>1, <3>1, <3>2, <1>state DEF Exits
    <2>3. CASE LauncherEnds(p) \/ OwnerGivesUp(p)
      <3>1. UNCHANGED unit \/ unit' = [unit EXCEPT ![run[p]].st = "gone"]
        BY <2>3 DEF LauncherEnds, OwnerGivesUp
      <3> QED
        BY <2>1, <3>1, <1>0, <1>state
    <2> QED
      BY <1>3, <2>2, <2>3
  <1>4. ASSUME NEW p \in Procs, Finish(p) PROVE Exits'
    <2>1. run[p] \in Runs
      BY <1>4, OwnedRun DEF Finish, Owning
    <2>2. unit' = unit \/ unit' = [unit EXCEPT ![run[p]] = Collected(unit[run[p]])]
      BY <1>4 DEF Finish, CleanupUnit
    <2>3. Collected(unit[run[p]]).st = "gone" /\ Collected(unit[run[p]]).exit = unit[run[p]].exit
      BY DEF Collected
    <2> QED
      BY <2>1, <2>2, <2>3, <1>0, <1>ran
  <1>5. ASSUME NEW p \in Procs, Crash(p) PROVE Exits'
    <2>1. CASE pc[p] = "launch"
      <3>1. run[p] \in Runs /\ unit' = [unit EXCEPT ![run[p]].st = "gone"]
        BY <1>5, <2>1, OwnedRun DEF Crash, Owning
      <3> QED
        BY <3>1, <1>state
    <2>2. CASE pc[p] # "launch"
      BY <1>5, <2>2, <1>0 DEF Crash
    <2> QED
      BY <2>1, <2>2
  <1>6. ASSUME NEW p \in Procs, Sample(p) PROVE Exits'
    BY <1>6, <1>0 DEF Sample
  <1>7. ASSUME NEW r \in Runs, UnitStarts(r) PROVE Exits'
    BY <1>7, <1>state DEF UnitStarts
  <1>8. ASSUME NEW r \in Runs, HelperExecs(r) \/ HelperFails(r) PROVE Exits'
    <2>1. CASE HelperExecs(r)
      <3>1. unit' = [unit EXCEPT ![r] = [unit[r] EXCEPT !.helper = FALSE]]
        BY <2>1, <1>types DEF HelperExecs
      <3>2. /\ [unit[r] EXCEPT !.helper = FALSE].st = "active"
            /\ [unit[r] EXCEPT !.helper = FALSE].exit = unit[r].exit
        BY <2>1, <1>types DEF HelperExecs, UnitType
      <3> QED
        BY <3>1, <3>2, <1>ran
    <2>2. CASE HelperFails(r)
      <3>1. PICK u \in UnitType : /\ unit' = [unit EXCEPT ![r] = u] /\ u.st = "gone"
                                /\ u.exit \in {{1}, {126}, {127}}
        BY <2>2, <1>types, HelperEnds
      <3> QED
        BY <3>1, <1>ran
    <2> QED
      BY <1>8, <2>1, <2>2
  <1>9. ASSUME NEW r \in Runs, CommandEvent(r) PROVE Exits'
    <2>1. PICK e : unit' = [unit EXCEPT ![r] = LimitMet(unit[r], e)]
      BY <1>9 DEF CommandEvent
    <2>2. LimitMet(unit[r], e).st \in {"active", "gone"} /\ LimitMet(unit[r], e).exit = unit[r].exit
      BY <1>9 DEF LimitMet, CommandEvent, Commands, ActiveUnits
    <2> QED
      BY <2>1, <2>2, <1>ran
  <1>10. ASSUME NEW r \in Runs, CommandEnds(r) PROVE Exits'
    <2>1. PICK x \in {{}, {0}, {1}}, w \in {"Success", "ExitCode", "Timeout"} : unit' = [unit EXCEPT ![r] = Ended(unit[r], x, w)]
      BY <1>10 DEF CommandEnds
    <2>2. Ended(unit[r], x, w).st = "gone" /\ Ended(unit[r], x, w).exit = x
      BY DEF Ended
    <2> QED
      BY <2>1, <2>2, <1>ran
  <1>11. CASE MemoryChanges
    BY <1>11, <1>0 DEF MemoryChanges, runVars
  <1>12. CASE UNCHANGED vars
    BY <1>12, <1>0 DEF vars
  <1> QED
    BY <1>1, <1>2, <1>3, <1>4, <1>5, <1>6, <1>7, <1>8, <1>9, <1>10, <1>11, <1>12 DEF Next, Step, Manager, Rest

\* Owners keep what they know while their units, files and causes do not change.
LEMMA OwnedKept ==
    ASSUME Owned, NEW q \in Procs, pc'[q] = pc[q], run'[q] = run[q], cause'[q] = cause[q],
           unit'[run[q]] = unit[run[q]], run[q] \in envfile => run[q] \in envfile'
    PROVE  /\ pc[q] \in Owning => OwnedUnit(q)'
           /\ pc[q] \notin Owning => cause'[q].failure = "none"
  BY DEF Owned, OwnedUnit

LEMMA OwnedStep == Types /\ Slot /\ Owned /\ Exits /\ [Next]_vars => Owned'
  <1> SUFFICES ASSUME Types, Slot, Owned, Exits, [Next]_vars PROVE Owned'
    OBVIOUS
  <1> USE DEF Goto
  <1>types. /\ unit \in [Runs -> UnitType] /\ pc \in [Procs -> Labels] /\ run \in [Procs -> 0..MaxRuns]
            /\ cause \in [Procs -> CauseType]
    BY DEF Types, UnitTypes, ControlTypes
  <1>0. ASSUME UNCHANGED <<pc, run, cause, unit, envfile>> PROVE Owned'
    BY <1>0, OwnedKept DEF Owned
  \* A process that owns nothing stays without a unit.
  <1>outside. ASSUME NEW p \in Procs, pc[p] \notin Owning, UNCHANGED <<run, cause, unit, envfile>>,
                     UNCHANGED pc \/ \E l : l \notin Owning /\ Goto(p, l)
              PROVE  Owned'
    <2>1. ASSUME NEW q \in Procs, q # p
          PROVE /\ pc'[q] \in Owning => OwnedUnit(q)'
                /\ pc'[q] \notin Owning => cause'[q].failure = "none"
      BY <1>outside, <1>types, <2>1, OwnedKept
    <2>2. pc'[p] \notin Owning /\ cause'[p].failure = "none"
      BY <1>outside, <1>types DEF Owned
    <2> QED
      BY <2>1, <2>2 DEF Owned
  \* The holder of the slot acts: nobody else owns a unit.
  <1>holder. ASSUME NEW p \in Procs, pc[p] \in Inside,
                    \A q \in Procs \ {p} : pc'[q] = pc[q] /\ cause'[q] = cause[q],
                    pc'[p] \in Owning => OwnedUnit(p)',
                    pc'[p] \notin Owning => cause'[p].failure = "none"
             PROVE  Owned'
    <2>1. \A q \in Procs \ {p} : pc[q] \notin Owning
      BY <1>holder, OneOwner DEF Inside
    <2> QED
      BY <1>holder, <2>1 DEF Owned
  <1>1. ASSUME NEW p \in Procs, Construct(p) PROVE Owned'
    BY <1>1, <1>outside DEF Construct, Owning, runVars
  <1>2. ASSUME NEW p \in Procs, Begin(p) PROVE Owned'
    <2>1. /\ pc[p] = "ready" /\ UNCHANGED <<run, cause, unit, envfile>>
          /\ UNCHANGED pc \/ Goto(p, "locking")
      BY <1>2 DEF Begin, runVars
    <2> QED
      BY <2>1, <1>outside DEF Owning
  <1>3. ASSUME NEW p \in Procs, TakeLock(p) PROVE Owned'
    <2>1. /\ pc[p] = "locking" /\ UNCHANGED <<run, cause, unit, envfile>>
          /\ Goto(p, "prepare") \/ Goto(p, "ready")
      BY <1>3 DEF TakeLock, runVars
    <2> QED
      BY <2>1, <1>outside DEF Owning
  <1>4. ASSUME NEW p \in Procs, Prepare(p) PROVE Owned'
    <2>1. pc[p] = "prepare" /\ UNCHANGED cause
      BY <1>4 DEF Prepare
    <2>2. CASE Goto(p, "ready") /\ UNCHANGED <<run, unit, envfile>>
      BY <2>1, <2>2, <1>outside DEF Owning
    <2>3. CASE \E r \in NextRun : /\ Goto(p, "launch") /\ run' = [run EXCEPT ![p] = r]
                                  /\ envfile' = envfile \cup {r}
                                  /\ unit' = [unit EXCEPT ![r].st = "prepared"]
      <3>1. PICK r \in NextRun : /\ Goto(p, "launch") /\ run' = [run EXCEPT ![p] = r]
                                 /\ envfile' = envfile \cup {r}
                                 /\ unit' = [unit EXCEPT ![r].st = "prepared"]
        BY <2>3
      <3>2. r \in Runs /\ unit[r].st = "none"
        BY DEF NextRun
      <3>3. /\ pc'[p] = "launch" /\ run'[p] = r /\ r \in envfile'
            /\ unit'[r].st = "prepared" /\ unit'[r].helper = unit[r].helper /\ unit'[r].exit = unit[r].exit
        BY <3>1, <3>2, <1>types DEF UnitType
      <3>4. unit[r].helper /\ unit[r].exit = {}
        BY <3>2 DEF Exits
      <3>5. OwnedUnit(p)'
        BY <2>1, <3>3, <3>4 DEF OwnedUnit, Owned, Owning
      <3>6. \A q \in Procs \ {p} : pc'[q] = pc[q] /\ cause'[q] = cause[q]
        BY <2>1, <3>1, <1>types
      <3> QED
        BY <2>1, <3>3, <3>5, <3>6, <1>holder DEF Inside, Owning
    <2> QED
      BY <1>4, <2>2, <2>3 DEF Prepare, Raise
  <1>5. ASSUME NEW p \in Procs, Launch(p) PROVE Owned'
    <2>1. /\ pc[p] = "launch" /\ run[p] \in Runs /\ OwnedUnit(p) /\ UNCHANGED <<run, envfile>>
      BY <1>5, OwnedRun DEF Launch, Owning
    <2>2. \/ /\ pc' = [pc EXCEPT ![p] = "running"] /\ UNCHANGED cause
             /\ unit' = [unit EXCEPT ![run[p]].st = "requested"]
          \/ /\ pc' = [pc EXCEPT ![p] = "finish"] /\ cause' = [cause EXCEPT ![p].failure = "COMMAND_START"]
             /\ unit' = [unit EXCEPT ![run[p]].st = "gone"]
      BY <1>5 DEF Launch
    <2>3. /\ unit'[run[p]].st \in {"requested", "gone"}
          /\ unit'[run[p]].helper = unit[run[p]].helper /\ unit'[run[p]].exit = unit[run[p]].exit
          /\ \/ pc'[p] = "running" /\ cause'[p].failure = "none"
             \/ pc'[p] = "finish" /\ cause'[p].failure = "COMMAND_START"
      BY <2>1, <2>2, <1>types DEF UnitType, CauseType, OwnedUnit
    <2>4. OwnedUnit(p)'
      BY <2>1, <2>3 DEF OwnedUnit
    <2>5. \A q \in Procs \ {p} : pc'[q] = pc[q] /\ cause'[q] = cause[q]
      BY <2>2, <1>types
    <2> QED
      BY <2>1, <2>3, <2>4, <2>5, <1>holder DEF Inside, Owning
  <1>6. ASSUME NEW p \in Procs, LauncherEnds(p) PROVE Owned'
    <2>1. /\ pc[p] = "running" /\ run[p] \in Runs /\ OwnedUnit(p) /\ UNCHANGED <<run, envfile>>
      BY <1>6, OwnedRun DEF LauncherEnds, Owning
    <2>2. /\ pc' = [pc EXCEPT ![p] = "finish"]
          /\ \/ /\ unit[run[p]].st = "gone" /\ UNCHANGED unit
                /\ cause' = [cause EXCEPT ![p].wrapper = {OrElse(unit[run[p]].exit, 1)}]
             \/ /\ unit[run[p]].st = "requested"
                /\ cause' = [cause EXCEPT ![p].wrapper = {1}]
                /\ unit' = [unit EXCEPT ![run[p]].st = "gone"]
      BY <1>6 DEF LauncherEnds
    <2>3. unit[run[p]].st = "requested" => OrElse(unit[run[p]].exit, 1) = 1
      BY <2>1, OrElseIn DEF Exits
    <2>4. /\ unit'[run[p]].st = "gone"
          /\ unit'[run[p]].helper = unit[run[p]].helper /\ unit'[run[p]].exit = unit[run[p]].exit
          /\ pc'[p] = "finish" /\ cause'[p].wrapper = {OrElse(unit[run[p]].exit, 1)}
      BY <2>1, <2>2, <2>3, <1>types DEF UnitType, CauseType
    <2>5. OwnedUnit(p)'
      BY <2>1, <2>4 DEF OwnedUnit
    <2>6. \A q \in Procs \ {p} : pc'[q] = pc[q] /\ cause'[q] = cause[q]
      BY <2>2, <1>types
    <2> QED
      BY <2>1, <2>4, <2>5, <2>6, <1>holder DEF Inside, Owning
  <1>7. ASSUME NEW p \in Procs, OwnerGivesUp(p) PROVE Owned'
    <2>1. /\ pc[p] = "running" /\ run[p] \in Runs /\ OwnedUnit(p) /\ UNCHANGED <<run, envfile>>
      BY <1>7, OwnedRun DEF OwnerGivesUp, Owning
    <2>2. /\ pc' = [pc EXCEPT ![p] = "finish"]
          /\ \E f \in {"TIMEOUT", "OUTPUT_LIMIT", "interrupted"} : cause' = [cause EXCEPT ![p].failure = f]
          /\ \/ UNCHANGED unit
             \/ unit[run[p]].st = "requested" /\ unit' = [unit EXCEPT ![run[p]].st = "gone"]
      BY <1>7 DEF OwnerGivesUp
    <2>3. /\ unit'[run[p]].st \in {unit[run[p]].st, "gone"}
          /\ unit'[run[p]].helper = unit[run[p]].helper /\ unit'[run[p]].exit = unit[run[p]].exit
          /\ pc'[p] = "finish" /\ cause'[p].failure # "none"
      BY <2>1, <2>2, <1>types DEF UnitType, CauseType
    <2>4. OwnedUnit(p)'
      BY <2>1, <2>3 DEF OwnedUnit
    <2>5. \A q \in Procs \ {p} : pc'[q] = pc[q] /\ cause'[q] = cause[q]
      BY <2>2, <1>types
    <2> QED
      BY <2>1, <2>3, <2>4, <2>5, <1>holder DEF Inside, Owning
  <1>8. ASSUME NEW p \in Procs, Finish(p) PROVE Owned'
    <2>1. pc[p] = "finish" /\ pc' = [pc EXCEPT ![p] = "ready"] /\ cause' = [cause EXCEPT ![p] = NoCause]
      BY <1>8 DEF Finish
    <2> QED
      BY <2>1, <1>types, <1>holder DEF Inside, Owning, NoCause
  <1>9. ASSUME NEW p \in Procs, Crash(p) PROVE Owned'
    <2>1. /\ pc' = [pc EXCEPT ![p] = "down"] /\ cause' = [cause EXCEPT ![p] = NoCause] /\ UNCHANGED envfile
          /\ run' = [run EXCEPT ![p] = 0]
          /\ pc[p] # "launch" => UNCHANGED unit
      BY <1>9 DEF Crash
    <2>2. CASE pc[p] \in Inside
      BY <2>1, <2>2, <1>types, <1>holder DEF Owning, NoCause
    <2>3. CASE pc[p] \notin Inside
      <3>1. UNCHANGED unit
        BY <2>1, <2>3 DEF Inside, Owning
      <3>2. ASSUME NEW q \in Procs, q # p
            PROVE /\ pc'[q] \in Owning => OwnedUnit(q)'
                  /\ pc'[q] \notin Owning => cause'[q].failure = "none"
        BY <2>1, <3>1, <3>2, <1>types, OwnedKept
      <3>3. pc'[p] \notin Owning /\ cause'[p].failure = "none"
        BY <2>1, <1>types DEF Owning, NoCause
      <3> QED
        BY <3>2, <3>3 DEF Owned
    <2> QED
      BY <2>2, <2>3
  <1>10. ASSUME NEW p \in Procs, Sample(p) PROVE Owned'
    BY <1>10, <1>0 DEF Sample
  \* A unit changes while its owner waits.
  <1>unit. ASSUME NEW r \in Runs, NEW u, unit' = [unit EXCEPT ![r] = u], UNCHANGED <<pc, run, cause>>,
                  envfile' = envfile \/ (envfile' = envfile \ {r} /\ (~u.helper \/ u.st = "gone")),
                  unit[r].st \in {"requested", "active"}, u.st \in {"active", "gone"},
                  u.helper => unit[r].helper,
                  u.helper => u.exit # {0}
           PROVE  Owned'
    <2> SUFFICES ASSUME NEW q \in Procs
                 PROVE  /\ pc'[q] \in Owning => OwnedUnit(q)'
                        /\ pc'[q] \notin Owning => cause'[q].failure = "none"
      BY DEF Owned
    <2>1. CASE run[q] # r
      <3>1. unit'[run[q]] = unit[run[q]] /\ (run[q] \in envfile => run[q] \in envfile')
        BY <1>unit, <2>1, <1>types
      <3> QED
        BY <1>unit, <3>1, OwnedKept
    <2>2. CASE run[q] = r /\ pc[q] \in Owning
      <3>1. unit'[run'[q]] = u /\ pc'[q] = pc[q] /\ cause'[q] = cause[q] /\ run'[q] = r
        BY <1>unit, <1>types, <2>2
      <3>2. pc[q] \in {"running", "finish"} /\ (pc[q] = "finish" => cause[q].failure # "none")
            /\ (pc[q] = "running" => cause[q].failure = "none")
        BY <1>unit, <2>2, OwnedRun DEF OwnedUnit, Owning
      <3>3. unit[r].helper => r \in envfile
        BY <1>unit, <2>2, OwnedRun DEF OwnedUnit
      <3>4. u.helper => u.exit # {0} /\ (u.st # "gone" => r \in envfile')
        BY <1>unit, <3>3
      <3>5. OwnedUnit(q)'
        BY <1>unit, <3>1, <3>2, <3>4, Zenon DEF OwnedUnit
      <3> QED
        BY <2>2, <3>1, <3>5
    <2>3. CASE pc[q] \notin Owning
      BY <1>unit, <2>3 DEF Owned
    <2> QED
      BY <2>1, <2>2, <2>3
  <1>11. ASSUME NEW r \in Runs, UnitStarts(r) PROVE Owned'
    <2>1. /\ unit' = [unit EXCEPT ![r] = [unit[r] EXCEPT !.st = "active"]]
          /\ unit[r].st = "requested" /\ UNCHANGED <<pc, run, cause, envfile>>
      BY <1>11, <1>types DEF UnitStarts
    <2>2. /\ [unit[r] EXCEPT !.st = "active"].st = "active"
          /\ [unit[r] EXCEPT !.st = "active"].helper = unit[r].helper
          /\ [unit[r] EXCEPT !.st = "active"].exit = {}
      BY <2>1, <1>types DEF UnitType, Exits
    <2> QED
      BY <2>1, <2>2, <1>unit
  <1>12. ASSUME NEW r \in Runs, HelperExecs(r) \/ HelperFails(r) PROVE Owned'
    <2>1. CASE HelperExecs(r)
      <3>1. /\ unit' = [unit EXCEPT ![r] = [unit[r] EXCEPT !.helper = FALSE]]
            /\ unit[r].st = "active" /\ envfile' = envfile \ {r} /\ UNCHANGED <<pc, run, cause>>
        BY <2>1, <1>types DEF HelperExecs
      <3>2. /\ [unit[r] EXCEPT !.helper = FALSE].st = unit[r].st
            /\ ~[unit[r] EXCEPT !.helper = FALSE].helper
        BY <1>types DEF UnitType
      <3> QED
        BY <3>1, <3>2, <1>unit
    <2>2. CASE HelperFails(r)
      <3>1. PICK u \in UnitType : /\ unit' = [unit EXCEPT ![r] = u] /\ u.st = "gone" /\ u.helper
                                /\ u.exit \in {{1}, {126}, {127}}
        BY <2>2, <1>types, HelperEnds
      <3>2. /\ unit[r].st = "active" /\ unit[r].helper /\ UNCHANGED <<pc, run, cause>>
            /\ envfile' = envfile \/ envfile' = envfile \ {r}
        BY <2>2, <1>types, HelperEnds
      <3>3. u.exit # {0}
        BY <3>1
      <3> QED
        BY <3>1, <3>2, <3>3, <1>unit
    <2> QED
      BY <1>12, <2>1, <2>2
  <1>13. ASSUME NEW r \in Runs, CommandEvent(r) PROVE Owned'
    <2>1. PICK e : unit' = [unit EXCEPT ![r] = LimitMet(unit[r], e)]
      BY <1>13 DEF CommandEvent
    <2>2. unit[r].st = "active" /\ ~unit[r].helper /\ UNCHANGED <<pc, run, cause, envfile>>
      BY <1>13 DEF CommandEvent, Commands, ActiveUnits
    <2>3. LimitMet(unit[r], e).st \in {"active", "gone"} /\ ~LimitMet(unit[r], e).helper
      BY <2>2 DEF LimitMet
    <2> QED
      BY <2>1, <2>2, <2>3, <1>unit
  <1>14. ASSUME NEW r \in Runs, CommandEnds(r) PROVE Owned'
    <2>1. PICK x, w : unit' = [unit EXCEPT ![r] = Ended(unit[r], x, w)]
      BY <1>14 DEF CommandEnds
    <2>2. unit[r].st = "active" /\ ~unit[r].helper /\ UNCHANGED <<pc, run, cause, envfile>>
      BY <1>14 DEF CommandEnds, Commands, ActiveUnits
    <2>3. Ended(unit[r], x, w).st = "gone" /\ ~Ended(unit[r], x, w).helper
      BY <2>2 DEF Ended
    <2> QED
      BY <2>1, <2>2, <2>3, <1>unit
  <1>15. CASE MemoryChanges
    BY <1>15, <1>0 DEF MemoryChanges, runVars
  <1>16. CASE UNCHANGED vars
    BY <1>16, <1>0 DEF vars
  <1> QED
    BY <1>1, <1>2, <1>3, <1>4, <1>5, <1>6, <1>7, <1>8, <1>9, <1>10, <1>11, <1>12, <1>13, <1>14, <1>15, <1>16
       DEF Next, Step, Manager, Rest

-----------------------------------------------------------------------------
(* One command.                                                            *)

\* Admission counts the tasks of the slice: with an active unit it refuses.
LEMMA AdmittedAlone ==
    ASSUME Types, NEW p \in Procs, NEW mem, NEW tasks \in SliceTasks,
           Admit(p, mem, tasks, TRUE).status = "Admit"
    PROVE  ActiveUnits = {}
  <1>1. tasks # {} /\ ~(OrElse(tasks, 0) >= 1)
    BY Admitted
  <1>2. tasks = {Cardinality(ActiveUnits)} /\ OrElse(tasks, 0) = Cardinality(ActiveUnits)
    BY <1>1, OrElseIn DEF SliceTasks
  <1>3. IsFiniteSet(ActiveUnits)
    <2>1. IsFiniteSet(Runs)
      BY EnvelopeBounds, FS_Interval DEF Runs
    <2> QED
      BY <2>1, FS_Subset DEF ActiveUnits
  <1>4. Cardinality(ActiveUnits) = 0
    BY <1>1, <1>2, <1>3, FS_CardinalityType
  <1> QED
    BY <1>3, <1>4, FS_EmptySet

\* With a holder in the slot, only its own unit may run.
LEMMA HolderOnly ==
    ASSUME Slot, OneTree, NEW p \in Procs, pc[p] \in Inside, NEW r \in Runs, MayRun(r)
    PROVE  r = run[p]
  BY DEF Slot, OneTree

\* The holder changes its own unit only.
LEMMA HolderActs ==
    ASSUME Types, Slot, OneTree, NEW p \in Procs, pc[p] \in Owning, UNCHANGED <<lock, run, late, envfile>>,
           \A s \in Runs \ {run[p]} : unit'[s] = unit[s]
    PROVE  OneTree'
  <1>1. p \in lock /\ run'[p] = run[p]
    BY DEF Slot, Inside
  <1>2. ASSUME NEW s \in Runs, MayRun(s)' PROVE s = run[p]
    <2>1. s # run[p] => MayRun(s)
      BY <1>2 DEF MayRun
    <2> QED
      BY <2>1, HolderOnly DEF Inside
  <1> QED
    BY <1>1, <1>2 DEF OneTree

\* The holder leaves: its unit is no longer expected to start, or runs and is
\* seen by the next admission.
LEMMA HolderLeaves ==
    ASSUME Types, Slot, OneTree, NEW p \in Procs, pc[p] \in Inside, lock' = lock \ {p},
           late \subseteq late', envfile' \subseteq envfile,
           \A s \in Runs \ {run[p]} : unit'[s] = unit[s],
           \A s \in Runs : s = run[p] /\ MayRun(s)' => unit'[s].st = "active"
    PROVE  OneTree'
  <1>1. lock' = {}
    BY DEF Slot
  <1>2. ASSUME NEW s \in Runs, MayRun(s)' PROVE s = run[p]
    <2>1. s # run[p] => MayRun(s)
      BY <1>2 DEF MayRun
    <2> QED
      BY <2>1, HolderOnly
  <1> QED
    BY <1>1, <1>2 DEF OneTree

\* A unit changes while its owner waits, or after its owner is gone.
LEMMA UnitActs ==
    ASSUME Types, OneTree, NEW r \in Runs, NEW u, unit' = [unit EXCEPT ![r] = u],
           UNCHANGED <<lock, run, late>>, envfile' \subseteq envfile,
           MayRun(r)' => MayRun(r) /\ u.st = "active"
    PROVE  OneTree'
  <1>1. unit'[r] = u /\ \A s \in Runs \ {r} : unit'[s] = unit[s]
    BY DEF Types, UnitTypes
  <1>2. ASSUME NEW s \in Runs, MayRun(s)'
        PROVE  MayRun(s) /\ (unit[s].st = "active" => unit'[s].st = "active")
    <2>1. CASE s = r
      BY <1>1, <1>2, <2>1
    <2>2. CASE s # r
      BY <1>1, <1>2, <2>2 DEF MayRun
    <2> QED
      BY <2>1, <2>2
  <1> QED
    BY <1>2 DEF OneTree

LEMMA OneTreeStep == Types /\ Slot /\ Owned /\ Exits /\ OneTree /\ [Next]_vars => OneTree'
  <1> SUFFICES ASSUME Types, Slot, Owned, Exits, OneTree, [Next]_vars PROVE OneTree'
    OBVIOUS
  <1>types. /\ unit \in [Runs -> UnitType] /\ run \in [Procs -> 0..MaxRuns] /\ lock \subseteq Procs
            /\ envfile \subseteq Runs
    BY DEF Types, UnitTypes, ControlTypes
  <1>0. ASSUME UNCHANGED <<lock, run, unit, envfile, late>> PROVE OneTree'
    BY <1>0 DEF OneTree, MayRun
  <1>1. ASSUME NEW p \in Procs, Construct(p) \/ Begin(p) PROVE OneTree'
    BY <1>1, <1>0 DEF Construct, Begin, runVars
  <1>2. ASSUME NEW p \in Procs, TakeLock(p) PROVE OneTree'
    <2>1. UNCHANGED <<run, unit, envfile, late>>
      BY <1>2 DEF TakeLock, runVars
    <2>2. CASE UNCHANGED lock
      BY <2>1, <2>2, <1>0
    <2>3. CASE ~UNCHANGED lock
      <3>1. lock = {} /\ \E tasks \in SliceTasks : Admit(p, seen[p], tasks, TRUE).status = "Admit"
        BY <1>2, <2>3 DEF TakeLock
      <3>2. ActiveUnits = {}
        BY <3>1, AdmittedAlone
      <3>3. \A r \in Runs : ~MayRun(r)
        BY <3>1, <3>2 DEF OneTree, ActiveUnits
      <3>4. \A r \in Runs : ~MayRun(r)'
        BY <2>1, <3>3 DEF MayRun
      <3> QED
        BY <3>4 DEF OneTree
    <2> QED
      BY <2>2, <2>3
  <1>3. ASSUME NEW p \in Procs, Prepare(p) PROVE OneTree'
    <2>1. pc[p] = "prepare" /\ UNCHANGED late
      BY <1>3 DEF Prepare
    <2>2. \A r \in Runs : ~MayRun(r)
      BY <2>1, HolderOnly DEF Slot, Inside, Owning
    <2>3. CASE UNCHANGED <<unit, envfile>>
      <3>1. \A r \in Runs : ~MayRun(r)'
        BY <2>1, <2>2, <2>3 DEF MayRun
      <3> QED
        BY <3>1 DEF OneTree
    <2>4. CASE ~UNCHANGED <<unit, envfile>>
      <3>1. PICK r \in Runs : /\ run' = [run EXCEPT ![p] = r] /\ UNCHANGED lock
                              /\ envfile' = envfile \cup {r} /\ unit' = [unit EXCEPT ![r].st = "prepared"]
        BY <1>3, <2>4 DEF Prepare, NextRun
      <3>2. p \in lock' /\ run'[p] = r
        BY <2>1, <3>1, <1>types DEF Slot, Inside
      <3>3. ASSUME NEW s \in Runs, s # r PROVE ~MayRun(s)'
        <4>1. unit'[s] = unit[s] /\ (s \in envfile' <=> s \in envfile)
          BY <3>1, <3>3, <1>types
        <4> QED
          BY <2>1, <2>2, <4>1 DEF MayRun
      <3> QED
        BY <3>2, <3>3 DEF OneTree
    <2> QED
      BY <2>3, <2>4
  <1>4. ASSUME NEW p \in Procs, Launch(p) \/ LauncherEnds(p) \/ OwnerGivesUp(p) PROVE OneTree'
    <2>1. pc[p] \in Owning /\ UNCHANGED <<lock, run, late, envfile>>
      BY <1>4 DEF Launch, LauncherEnds, OwnerGivesUp, Owning
    <2>2. UNCHANGED unit \/ \E s : unit' = [unit EXCEPT ![run[p]].st = s]
      BY <1>4 DEF Launch, LauncherEnds, OwnerGivesUp
    <2>3. \A s \in Runs \ {run[p]} : unit'[s] = unit[s]
      BY <2>2, <1>types
    <2> QED
      BY <2>1, <2>3, HolderActs
  <1>5. ASSUME NEW p \in Procs, Finish(p) PROVE OneTree'
    <2>1. pc[p] = "finish" /\ run[p] \in Runs /\ OwnedUnit(p)
      BY <1>5, OwnedRun DEF Finish, Owning
    <2>2. /\ unit' = unit \/ unit' = [unit EXCEPT ![run[p]] = Collected(unit[run[p]])]
          /\ lock' = lock \ {p} /\ envfile' \subseteq envfile
          /\ late' = IF run[p] \in envfile' /\ unit[run[p]].st = "requested" THEN late \cup {run[p]} ELSE late
      BY <1>5 DEF Finish, CleanupUnit
    <2>3. \A s \in Runs \ {run[p]} : unit'[s] = unit[s]
      BY <2>2, <1>types
    <2>4. ASSUME NEW s \in Runs, s = run[p], MayRun(s)' PROVE unit'[s].st = "active"
      <3>1. unit[s].st \in {"requested", "active", "gone"}
        BY <2>1, <2>4 DEF OwnedUnit
      <3>2. unit'[s].st = "gone" \/ unit'[s].st = unit[s].st
        BY <2>2, <2>4, <1>types DEF Collected
      <3>3. unit'[s].st # "requested"
        BY <2>2, <2>4, <3>2 DEF MayRun
      <3> QED
        BY <2>4, <3>1, <3>2, <3>3 DEF MayRun
    <2> QED
      BY <2>1, <2>2, <2>3, <2>4, HolderLeaves DEF Inside, Owning
  <1>6. ASSUME NEW p \in Procs, Crash(p) PROVE OneTree'
    <2>1. /\ lock' = lock \ {p} /\ UNCHANGED envfile /\ run' = [run EXCEPT ![p] = 0]
          /\ late' = IF run[p] \in envfile /\ unit[run[p]].st = "requested" THEN late \cup {run[p]} ELSE late
          /\ unit' = IF pc[p] = "launch" THEN [unit EXCEPT ![run[p]].st = "gone"] ELSE unit
      BY <1>6 DEF Crash
    <2>2. CASE pc[p] \in Inside
      <3>1. \A s \in Runs \ {run[p]} : unit'[s] = unit[s]
        BY <2>1, <1>types
      <3>2. ASSUME NEW s \in Runs, s = run[p], MayRun(s)' PROVE unit'[s].st = "active"
        <4>1. OwnedUnit(p) /\ pc[p] \in Owning
          BY <3>2, OwnedRun DEF Slot
        <4>2. CASE pc[p] = "launch"
          BY <2>1, <3>2, <4>2, <1>types DEF MayRun, UnitType
        <4>3. CASE pc[p] # "launch"
          <5>1. unit[s].st \in {"requested", "active", "gone"} /\ unit' = unit
            BY <2>1, <3>2, <4>1, <4>3 DEF OwnedUnit, Owning
          <5> QED
            BY <2>1, <3>2, <5>1 DEF MayRun
        <4> QED
          BY <4>2, <4>3
      <3> QED
        BY <2>1, <2>2, <3>1, <3>2, HolderLeaves
    <2>3. CASE pc[p] \notin Inside
      <3>1. p \notin lock /\ run[p] \notin Runs /\ pc[p] # "launch"
        BY <2>3 DEF Slot, Inside, Owning
      <3>2. lock' = lock /\ unit' = unit /\ late' = late /\ \A q \in lock : run'[q] = run[q]
        BY <2>1, <3>1, <1>types
      <3> QED
        BY <2>1, <3>2 DEF OneTree, MayRun
    <2> QED
      BY <2>2, <2>3
  <1>7. ASSUME NEW p \in Procs, Sample(p) PROVE OneTree'
    BY <1>7, <1>0 DEF Sample
  <1>8. ASSUME NEW r \in Runs, UnitStarts(r) PROVE OneTree'
    <2>1. /\ unit' = [unit EXCEPT ![r] = [unit[r] EXCEPT !.st = "active"]] /\ unit[r].st = "requested"
          /\ UNCHANGED <<lock, run, late, envfile>>
      BY <1>8, <1>types DEF UnitStarts
    <2>2. /\ [unit[r] EXCEPT !.st = "active"].st = "active"
          /\ unit'[r].helper
      BY <2>1, <1>types DEF UnitType, Exits
    <2>3. MayRun(r)' => MayRun(r)
      BY <2>1, <2>2 DEF MayRun
    <2> QED
      BY <2>1, <2>2, <2>3, UnitActs
  <1>9. ASSUME NEW r \in Runs, HelperExecs(r) \/ HelperFails(r) PROVE OneTree'
    <2>1. unit[r].st = "active" /\ envfile' \subseteq envfile /\ UNCHANGED <<lock, run, late>>
      BY <1>9 DEF HelperExecs, HelperFails
    <2>2. CASE HelperExecs(r)
      <3>1. r \in envfile /\ unit' = [unit EXCEPT ![r] = [unit[r] EXCEPT !.helper = FALSE]]
        BY <2>2, <1>types DEF HelperExecs
      <3>2. [unit[r] EXCEPT !.helper = FALSE].st = "active"
        BY <2>1, <1>types DEF UnitType
      <3>3. MayRun(r)' => MayRun(r)
        BY <2>1, <3>1 DEF MayRun
      <3>4. \A s \in Runs \ {r} : s \in envfile' <=> s \in envfile
        BY <2>2 DEF HelperExecs
      <3> QED
        BY <2>1, <3>1, <3>2, <3>3, <3>4, UnitActs
    <2>3. CASE HelperFails(r)
      <3>1. PICK u : unit' = [unit EXCEPT ![r] = u] /\ u.st = "gone"
        BY <2>3, <1>types, HelperEnds
      <3>2. ~MayRun(r)'
        BY <3>1, <1>types DEF MayRun
      <3> QED
        BY <2>1, <3>1, <3>2, UnitActs
    <2> QED
      BY <1>9, <2>2, <2>3
  <1>10. ASSUME NEW r \in Runs, CommandEvent(r) \/ CommandEnds(r) PROVE OneTree'
    <2>1. \E u : unit' = [unit EXCEPT ![r] = u] /\ u.st \in {"active", "gone"}
      <3>1. CASE CommandEvent(r)
        <4>1. \A e : LimitMet(unit[r], e).st \in {"active", "gone"}
          BY <3>1 DEF LimitMet, CommandEvent, Commands, ActiveUnits
        <4> QED
          BY <3>1, <4>1 DEF CommandEvent
      <3>2. CASE CommandEnds(r)
        <4>1. \A x, w : Ended(unit[r], x, w).st = "gone"
          BY DEF Ended
        <4> QED
          BY <3>2, <4>1 DEF CommandEnds
      <3> QED
        BY <1>10, <3>1, <3>2
    <2>2. unit[r].st = "active" /\ ~unit[r].helper
      BY <1>10 DEF CommandEvent, CommandEnds, Commands, ActiveUnits
    <2>3. UNCHANGED <<lock, run, late, envfile>>
      BY <1>10 DEF CommandEvent, CommandEnds
    <2>4. PICK u : unit' = [unit EXCEPT ![r] = u] /\ u.st \in {"active", "gone"}
      BY <2>1
    <2>5. MayRun(r)' => MayRun(r) /\ u.st = "active"
      BY <2>2, <2>3, <2>4, <1>types DEF MayRun
    <2> QED
      BY <2>3, <2>4, <2>5, UnitActs
  <1>11. CASE MemoryChanges
    BY <1>11, <1>0 DEF MemoryChanges, runVars
  <1>12. CASE UNCHANGED vars
    BY <1>12, <1>0 DEF vars
  <1> QED
    BY <1>1, <1>2, <1>3, <1>4, <1>5, <1>6, <1>7, <1>8, <1>9, <1>10, <1>11, <1>12 DEF Next, Step, Manager, Rest

-----------------------------------------------------------------------------
(* The reported status.                                                    *)

\* No step touches a finished unit that nobody owns.
LEMMA GoneStays ==
    ASSUME Types, Slot, [Next]_vars, NEW r \in Runs, unit[r].st = "gone", r \notin envfile,
           \A q \in Procs : run[q] # r
    PROVE  /\ unit'[r].st = "gone" /\ unit'[r].helper = unit[r].helper /\ unit'[r].exit = unit[r].exit
           /\ r \notin envfile' /\ \A q \in Procs : run'[q] # r
  <1> DEFINE Goal == /\ unit'[r].st = "gone" /\ unit'[r].helper = unit[r].helper
                     /\ unit'[r].exit = unit[r].exit
                     /\ r \notin envfile' /\ \A q \in Procs : run'[q] # r
  <1>types. unit \in [Runs -> UnitType] /\ run \in [Procs -> 0..MaxRuns] /\ 0 \notin Runs
    BY EnvelopeBounds DEF Types, UnitTypes, ControlTypes, Runs
  <1>0. ASSUME unit'[r] = unit[r], envfile' \subseteq envfile,
               UNCHANGED run \/ \E p \in Procs : run' = [run EXCEPT ![p] = 0]
        PROVE  Goal
    BY <1>0, <1>types
  <1>1. ASSUME NEW p \in Procs, Construct(p) \/ Begin(p) \/ TakeLock(p) \/ Sample(p) PROVE Goal
    BY <1>1, <1>0 DEF Construct, Begin, TakeLock, Sample, runVars
  <1>2. ASSUME NEW p \in Procs, Prepare(p) PROVE Goal
    <2>1. \/ UNCHANGED <<run, unit, envfile>>
          \/ \E s \in NextRun : /\ run' = [run EXCEPT ![p] = s] /\ envfile' = envfile \cup {s}
                                /\ unit' = [unit EXCEPT ![s].st = "prepared"]
      BY <1>2 DEF Prepare
    <2>2. r \notin NextRun
      BY DEF NextRun
    <2> QED
      BY <2>1, <2>2, <1>0, <1>types
  <1>3. ASSUME NEW p \in Procs, Launch(p) \/ LauncherEnds(p) \/ OwnerGivesUp(p) PROVE Goal
    <2>1. UNCHANGED <<run, envfile>> /\ (UNCHANGED unit \/ \E s : unit' = [unit EXCEPT ![run[p]].st = s])
      BY <1>3 DEF Launch, LauncherEnds, OwnerGivesUp
    <2> QED
      BY <2>1, <1>0, <1>types
  <1>4. ASSUME NEW p \in Procs, Finish(p) \/ Crash(p) PROVE Goal
    <2>1. /\ run' = [run EXCEPT ![p] = 0] /\ envfile' \subseteq envfile
          /\ \/ UNCHANGED unit
             \/ \E u : unit' = [unit EXCEPT ![run[p]] = u]
             \/ unit' = [unit EXCEPT ![run[p]].st = "gone"]
      BY <1>4 DEF Finish, Crash, CleanupUnit
    <2> QED
      BY <2>1, <1>0, <1>types
  <1>5. ASSUME NEW s \in Runs, Manager(s) \/ CommandEvent(s) PROVE Goal
    <2>1. UNCHANGED run
      BY <1>5, ManagerLeavesProcs
    <2>2. UnitStarts(s) => unit[s].st = "requested" /\ UNCHANGED envfile /\ \E u : unit' = [unit EXCEPT ![s] = u]
      BY <1>types DEF UnitStarts
    <2>3. HelperExecs(s) => unit[s].st = "active" /\ envfile' \subseteq envfile /\ \E u : unit' = [unit EXCEPT ![s] = u]
      BY <1>types DEF HelperExecs
    <2>4. HelperFails(s) => unit[s].st = "active" /\ envfile' \subseteq envfile /\ \E u : unit' = [unit EXCEPT ![s] = u]
      BY <1>types DEF HelperFails
    <2>5. CommandEnds(s) => unit[s].st = "active" /\ UNCHANGED envfile /\ \E u : unit' = [unit EXCEPT ![s] = u]
      BY <1>types DEF CommandEnds, Commands, ActiveUnits
    <2>6. CommandEvent(s) => unit[s].st = "active" /\ UNCHANGED envfile /\ \E u : unit' = [unit EXCEPT ![s] = u]
      BY <1>types DEF CommandEvent, Commands, ActiveUnits
    <2>7. s # r /\ envfile' \subseteq envfile /\ \E u : unit' = [unit EXCEPT ![s] = u]
      BY <1>5, <2>2, <2>3, <2>4, <2>5, <2>6 DEF Manager
    <2> QED
      BY <2>1, <2>7, <1>0, <1>types
  <1>6. CASE MemoryChanges
    BY <1>6, <1>0 DEF MemoryChanges, runVars
  <1>7. CASE UNCHANGED vars
    BY <1>7, <1>0 DEF vars
  <1> QED
    BY <1>1, <1>2, <1>3, <1>4, <1>5, <1>6, <1>7 DEF Next, Step, Rest

\* A returned status is set by finish_execution alone.
LEMMA VerdictStep ==
    ASSUME Types, [Next]_vars, NEW p \in Procs, verdict'[p].code = "ok"
    PROVE  verdict'[p] = verdict[p] \/ Finish(p)
  <1>types. verdict \in [Procs -> VerdictType]
    BY DEF Types, ControlTypes
  <1>0. ASSUME UNCHANGED verdict PROVE verdict'[p] = verdict[p]
    BY <1>0
  <1>code. \A q \in Procs : \A c \in VerdictCodes \ {"ok"} :
             verdict' = [verdict EXCEPT ![q] = Code(c)] => verdict'[p] = verdict[p]
    BY CodeTypes, <1>types
  <1>1. ASSUME NEW q \in Procs, Begin(q) \/ TakeLock(q) PROVE verdict'[p] = verdict[p]
    <2>1. \/ UNCHANGED verdict
          \/ verdict' = [verdict EXCEPT ![q] = Code("none")]
          \/ \E d : verdict' = [verdict EXCEPT ![q] = Code(AdmissionCode(d))]
      BY <1>1 DEF Begin, TakeLock
    <2> QED
      BY <2>1, <1>0, <1>code, AdmissionCodes DEF VerdictCodes
  <1>2. ASSUME NEW q \in Procs, Prepare(q) PROVE verdict'[p] = verdict[p]
    <2>1. \/ UNCHANGED verdict
          \/ verdict' = [verdict EXCEPT ![q] = Code("RESOURCE_ENVIRONMENT")]
          \/ \E d : verdict' = [verdict EXCEPT ![q] = Code(AdmissionCode(d))]
      BY <1>2 DEF Prepare, Raise
    <2> QED
      BY <2>1, <1>0, <1>code, AdmissionCodes DEF VerdictCodes
  <1>3. ASSUME NEW q \in Procs, Finish(q) PROVE verdict'[p] = verdict[p] \/ Finish(p)
    <2>1. CASE q # p
      <3>1. \E v : verdict' = [verdict EXCEPT ![q] = v]
        BY <1>3 DEF Finish
      <3> QED
        BY <2>1, <3>1, <1>types
    <2> QED
      BY <1>3, <2>1
  <1>4. ASSUME NEW q \in Procs, Construct(q) \/ Launch(q) \/ LauncherEnds(q) \/ OwnerGivesUp(q)
                                \/ Sample(q) \/ Crash(q)
        PROVE  UNCHANGED verdict
    BY <1>4 DEF Construct, Launch, LauncherEnds, OwnerGivesUp, Sample, Crash
  <1>5. ASSUME NEW s \in Runs, Manager(s) \/ CommandEvent(s) PROVE UNCHANGED verdict
    BY <1>5, ManagerLeavesProcs
  <1>6. CASE MemoryChanges
    BY <1>6 DEF MemoryChanges
  <1>7. CASE UNCHANGED vars
    BY <1>7 DEF vars
  <1> QED
    BY <1>0, <1>1, <1>2, <1>3, <1>4, <1>5, <1>6, <1>7 DEF Next, Step, Rest

\* What finish_execution reports as a status is the exit status of the unit,
\* which it leaves finished and without its environment file.
LEMMA FinishReports ==
    ASSUME Types, Slot, Owned, Exits, NEW p \in Procs, Finish(p), verdict'[p].code = "ok"
    PROVE  \E r \in Runs :
             /\ verdict'[p].run = r /\ verdict'[p].rc = unit'[r].exit /\ verdict'[p].rc # {}
             /\ (unit'[r].helper => verdict'[p].rc # {0}) /\ unit'[r].st = "gone" /\ r \notin envfile'
             /\ \A q \in Procs : run'[q] # r
  <1>types. /\ unit \in [Runs -> UnitType] /\ run \in [Procs -> 0..MaxRuns]
            /\ verdict \in [Procs -> VerdictType] /\ 0 \notin Runs /\ ControlTypes /\ UnitTypes
    BY DEF Types, UnitTypes, ControlTypes, Runs
  <1>1. pc[p] = "finish" /\ run[p] \in Runs /\ OwnedUnit(p)
    BY OwnedRun DEF Finish, Owning
  <1>2. PICK r \in Runs : r = run[p]
    BY <1>1
  <1>3. PICK read \in BOOLEAN, stopped \in BOOLEAN, clean \in BOOLEAN, returned \in BOOLEAN :
          /\ clean => run[p] \notin envfile'
          /\ CleanupUnit(run[p], stopped)
          /\ verdict' = [verdict EXCEPT ![p] =
                Reported(p, Native_resource_outcome(Observed(p, read, clean), returned))]
    BY Zenon DEF Finish
  <1>4. PICK v : v = Reported(p, Native_resource_outcome(Observed(p, read, clean), returned))
    OBVIOUS
  <1>5. verdict'[p] = v /\ v.code = "ok"
    BY <1>3, <1>4, <1>types
  <1>6. clean \in BOOLEAN
    BY <1>3
  <1>reported. /\ v.run = run[p] /\ clean /\ cause[p].failure = "none" /\ v.rc # {}
               /\ v.rc = unit[run[p]].exit \/ (v.rc = {0} /\ cause[p].wrapper = {0})
    <2>1. \A a, b, c \in BOOLEAN : \A w :
            /\ w = Reported(p, Native_resource_outcome(Observed(p, a, b), c))
            /\ w.code = "ok"
            => /\ w.run = run[p] /\ b /\ cause[p].failure = "none" /\ w.rc # {}
               /\ w.rc = unit[run[p]].exit \/ (w.rc = {0} /\ cause[p].wrapper = {0})
      <3> SUFFICES ASSUME NEW a \in BOOLEAN, NEW b \in BOOLEAN, NEW c \in BOOLEAN, NEW w,
                          w = Reported(p, Native_resource_outcome(Observed(p, a, b), c)),
                          w.code = "ok"
                   PROVE  /\ w.run = run[p] /\ b /\ cause[p].failure = "none" /\ w.rc # {}
                          /\ w.rc = unit[run[p]].exit \/ (w.rc = {0} /\ cause[p].wrapper = {0})
        OBVIOUS
      <3>1. run[p] \in Runs
        BY <1>1
      <3>2. ControlTypes /\ UnitTypes
        BY <1>types
      <3> HIDE <1>1, <1>types
      <3> QED
        BY <3>1, <3>2, ReportedTypes, SMTT(60)
    <2>2. /\ v = Reported(p, Native_resource_outcome(Observed(p, read, clean), returned))
          /\ v.code = "ok"
      BY <1>4, <1>5
    <2>3. read \in BOOLEAN /\ returned \in BOOLEAN
      BY <1>3
    <2> QED
      BY <1>6, <2>1, <2>2, <2>3, Zenon
  <1>7. /\ v.run = run[p] /\ clean /\ cause[p].failure = "none" /\ v.rc # {}
        /\ v.rc = unit[run[p]].exit \/ (v.rc = {0} /\ cause[p].wrapper = {0})
    BY <1>reported
  <1>8. unit[r].st = "gone" /\ cause[p].wrapper = {OrElse(unit[r].exit, 1)}
    BY <1>1, <1>2, <1>7 DEF OwnedUnit
  <1>9. v.rc = unit[r].exit
    <2>1. CASE unit[r].exit = {}
      BY <1>2, <1>7, <1>8, <2>1, OrElseIn
    <2>2. CASE \E e \in {0, 1, 126, 127} : unit[r].exit = {e}
      <3>1. OrElse(unit[r].exit, 1) \in unit[r].exit
        BY <2>2, OrElseIn
      <3>2. cause[p].wrapper = {0} => unit[r].exit = {0}
        BY <1>8, <2>2, <3>1
      <3> QED
        BY <1>2, <1>7, <3>2
    <2> QED
      BY <2>1, <2>2 DEF Exits
  <1>10. unit[r].helper => v.rc # {0}
    BY <1>1, <1>2, <1>9 DEF OwnedUnit
  <1>11. unit'[r].st = "gone" /\ unit'[r].helper = unit[r].helper /\ unit'[r].exit = unit[r].exit
    <2>1. unit' = [unit EXCEPT ![r] = Collected(unit[r])]
      BY <1>2, <1>3, <1>8 DEF CleanupUnit
    <2> QED
      BY <2>1, <1>types DEF Collected
  <1>12. \A q \in Procs : run'[q] # r
    <2>1. run' = [run EXCEPT ![p] = 0]
      BY DEF Finish
    <2>2. \A q \in Procs \ {p} : run[q] \notin Runs
      BY <1>1, OneOwner DEF Slot, Inside, Owning
    <2> QED
      BY <2>1, <2>2, <1>types
  <1>13. r \notin envfile'
    BY <1>2, <1>3, <1>7
  <1> QED
    BY <1>2, <1>5, <1>7, <1>9, <1>10, <1>11, <1>12, <1>13

LEMMA SettledStep == Types /\ Slot /\ Owned /\ Exits /\ Settled /\ [Next]_vars => Settled'
  <1> SUFFICES ASSUME Types, Slot, Owned, Exits, Settled, [Next]_vars PROVE Settled'
    OBVIOUS
  <1>1. ASSUME NEW p \in Procs, verdict'[p].code = "ok"
        PROVE  \E r \in Runs :
                 /\ verdict'[p].run = r /\ verdict'[p].rc = unit'[r].exit /\ verdict'[p].rc # {}
                 /\ (unit'[r].helper => verdict'[p].rc # {0}) /\ unit'[r].st = "gone" /\ r \notin envfile'
                 /\ \A q \in Procs : run'[q] # r
    <2>1. CASE Finish(p)
      BY <1>1, <2>1, FinishReports
    <2>2. CASE verdict'[p] = verdict[p]
      <3>1. PICK r \in Runs : r = verdict[p].run
        BY <1>1, <2>2 DEF Settled
      <3>2. /\ (unit[r].helper => verdict[p].rc # {0}) /\ unit[r].st = "gone"
            /\ verdict[p].rc = unit[r].exit /\ verdict[p].rc # {} /\ r \notin envfile /\ \A q \in Procs : run[q] # r
        BY <1>1, <2>2, <3>1 DEF Settled, ResultIsUnits
      <3>3. /\ unit'[r].st = "gone" /\ unit'[r].helper = unit[r].helper /\ unit'[r].exit = unit[r].exit
            /\ r \notin envfile' /\ \A q \in Procs : run'[q] # r
        BY <3>2, GoneStays
      <3> QED
        BY <2>2, <3>1, <3>2, <3>3
    <2> QED
      BY <1>1, <2>1, <2>2, VerdictStep
  <1> QED
    BY <1>1 DEF Settled, ResultIsUnits

-----------------------------------------------------------------------------
(* The theorems.                                                           *)

LEMMA InvInit == Init => IInv
  <1> SUFFICES ASSUME Init PROVE IInv
    OBVIOUS
  <1>1. Types
    BY TypesInit
  <1>2. /\ pc \in [Procs -> {"refused", "down"}] /\ lock = {} /\ run = [p \in Procs |-> 0]
        /\ cause = [p \in Procs |-> NoCause] /\ unit = [r \in Runs |-> NoUnit]
        /\ verdict = [p \in Procs |-> Code("none")]
    BY Zenon DEF Init
  <1>3. Slot
    BY <1>2 DEF Slot, Inside, Owning, Runs
  <1>4. Owned
    BY <1>2 DEF Owned, Owning, NoCause
  <1>5. Exits
    BY <1>2 DEF Exits, NoUnit
  <1>6. OneTree
    BY <1>2 DEF OneTree, MayRun, NoUnit
  <1>7. Settled
    BY <1>2 DEF Settled, ResultIsUnits, Code
  <1> QED
    BY <1>1, <1>3, <1>4, <1>5, <1>6, <1>7 DEF IInv

\* The inductive invariant of bounded execution: the slot and its holder, the
\* unit the holder owns, and the units that may run without an owner.
THEOREM EnvelopeInvariant == Spec => []IInv
  <1>1. Init => IInv
    BY InvInit
  <1>2. IInv /\ [Next]_vars => IInv'
    <2> SUFFICES ASSUME IInv, [Next]_vars PROVE IInv'
      OBVIOUS
    <2>1. Types /\ Slot /\ Owned /\ Exits /\ OneTree /\ Settled
      BY DEF IInv
    <2>2. Types'
      BY <2>1, HostStep, ControlStep, UnitStep DEF Types
    <2>3. Slot' /\ Owned' /\ Exits' /\ OneTree' /\ Settled'
      BY <2>1, SlotStep, OwnedStep, ExitsStep, OneTreeStep, SettledStep
    <2> QED
      BY <2>2, <2>3 DEF IInv
  <1> QED
    BY <1>1, <1>2, PTL DEF Spec

\* Every variable has its type, and the budget that select_budget derived keeps
\* its reclaim threshold below its limit and its limit within the host.
THEOREM EnvelopeTypes == Spec => []TypeOK
  <1>1. IInv => TypeOK
    BY TypesGiveTypeOK DEF IInv
  <1> QED
    BY <1>1, EnvelopeInvariant, PTL

\* execution_lock and its admission keep verification commands one at a time on
\* the host, through every crash, timeout and failed cleanup, except for a
\* launch request that outlives its owner together with its environment file.
THEOREM EnvelopeOneCommand == Spec => []OneCommand
  <1>1. IInv => OneCommand
    <2> SUFFICES ASSUME IInv, NEW r \in Commands, NEW s \in Commands, r \notin late, s \notin late
                 PROVE  r = s
      BY DEF OneCommand
    <2>1. r \in Runs /\ s \in Runs /\ MayRun(r) /\ MayRun(s)
      BY DEF Commands, ActiveUnits, MayRun
    <2> QED
      BY <2>1 DEF IInv, OneTree
  <1> QED
    BY <1>1, EnvelopeInvariant, PTL

\* A status that run_bounded returns is the one the unit of that call ended
\* with: never the launcher's, never of a tree still there, and 0 only when the
\* command itself ran.
THEOREM EnvelopeResult == Spec => []ResultIsUnits
  <1>1. IInv => ResultIsUnits
    BY DEF IInv, Settled
  <1> QED
    BY <1>1, EnvelopeInvariant, PTL

-----------------------------------------------------------------------------
(* The process runner: what the inductive invariant keeps of the worker's *)
(* run, of the registry the two threads meet in, and of the answer         *)
(* cancel_generation gave.                                                 *)

\* The worker holds a run from the service's handle to the return, of the
\* generation of its job, and the registry names that run exactly from the
\* publication to the return.
WorkerRun ==
    /\ wpc # "idle" => gen \in Gens
    /\ wpc \in {"idle", "admit", "start"} => cur = 0
    /\ wpc \in {"register", "cancel", "observe"} => cur \in Pids
    /\ cur \in Pids => proc[cur].g = gen
    /\ wpc \in {"idle", "admit", "cancel", "observe"} => launching = {}
    /\ wpc \in {"start", "register"} => launching = {gen}
    /\ launching \subseteq {gen}
    /\ \A g \in Gens : g # gen \/ wpc \in {"idle", "admit", "start", "register"} => owned[g] = 0
    /\ wpc \in {"cancel", "observe", "leave"} => owned[gen] = cur
    /\ wpc = "leave" => launching = IF cur = 0 THEN {gen} ELSE {}

\* The event thread works on a generation that exists, alone waits, and has
\* entered the generation among the cancelled ones.
CancelRun ==
    /\ cpc = "idle" <=> target = 0
    /\ target <= gen
    /\ waiters = IF cpc = "idle" THEN {} ELSE {target}
    /\ target = gen /\ cpc # "idle" => CancelledNow(gen)
    /\ cpc \in {"ask", "reap"} => held \in Pids
    /\ cpc \notin {"ask", "reap"} => held = 0

\* What the thread saw of the current generation stays true while it acts.
Seen ==
    target = gen =>
      /\ cpc = "absent" => wpc \in {"idle", "admit"}
      /\ cpc = "pending" => wpc \notin {"cancel", "observe"} \/ gen \in missed
      /\ cpc \in {"ask", "reap"} =>
           wpc \in {"idle", "admit"} \/ (cur = held /\ wpc \in {"cancel", "observe", "leave"})
      /\ cpc = "reap" => proc[held].asked \/ held \notin Alive

\* What an answer for the current generation leaves possible.
Answered ==
    /\ \A g \in Gens : g > gen => report[g] = "none"
    /\ gen \in Gens /\ report[gen] # "none" => CancelledNow(gen)
    /\ gen \in Gens /\ report[gen] = "complete" =>
         \/ wpc \in {"idle", "admit", "leave"}
         \/ wpc \in {"cancel", "observe"} /\ cur \notin Alive
    /\ wpc = "observe" /\ cur \in Alive =>
         \/ proc[cur].asked \/ report[gen] \in {"none", "raised"} \/ gen \in missed
         \/ cpc # "idle" /\ target = gen

RunnerIInv == RunnerTypeOK /\ WorkerRun /\ CancelRun /\ Seen /\ Answered

-----------------------------------------------------------------------------
ProcType == [g : 0..MaxGen, st : ProcStates, asked : BOOLEAN, clean : BOOLEAN]

LEMMA States == \A st \in Limits \cup {"none", "Exited", "Cancelled", "gone"} :
                   st # "Running" /\ st \in ProcStates
  BY RunnerBounds DEF ProcStates

\* move_to_end and popitem keep at most the capacity, and the generation that
\* is being cancelled is among those kept.
LEMMA RememberKeeps ==
    ASSUME RunnerTypeOK, NEW g \in Gens
    PROVE  /\ Remember(g) \in Seq(Gens) /\ Len(Remember(g)) <= MaxCancelled
           /\ \E i \in 1..Len(Remember(g)) : Remember(g)[i] = g
  <1> DEFINE n == Len(cancelled)
             at == CHOOSE i \in 1..n : cancelled[i] = g
             moved == [i \in 1..n |-> IF i < at THEN cancelled[i]
                                     ELSE IF i < n THEN cancelled[i + 1] ELSE g]
             added == Append(cancelled, g)
  <1>types. cancelled \in Seq(Gens) /\ n <= MaxCancelled /\ n \in Nat /\ MaxCancelled \in Nat \ {0}
    BY RunnerBounds DEF RunnerTypeOK
  <1>1. CASE CancelledNow(g)
    <2>1. Remember(g) = moved
      BY <1>1 DEF Remember
    <2>2. at \in 1..n /\ n # 0
      BY <1>1 DEF CancelledNow
    <2> HIDE DEF at
    <2>3. /\ moved \in Seq(Gens) /\ Len(moved) = n
          /\ moved[n] = g
      BY <1>types, <2>2
    <2> QED
      BY <1>types, <2>1, <2>2, <2>3
  <1>2. CASE ~CancelledNow(g)
    <2>1. Remember(g) = IF Len(added) > MaxCancelled THEN Tail(added) ELSE added
      BY <1>2 DEF Remember
    <2>2. added \in Seq(Gens) /\ Len(added) = n + 1 /\ added[n + 1] = g
      BY <1>types
    <2>3. CASE n + 1 > MaxCancelled
      <3>1. Tail(added) \in Seq(Gens) /\ Len(Tail(added)) = n /\ Tail(added)[n] = g
        BY <1>types, <2>2, <2>3
      <3> QED
        BY <1>types, <2>1, <2>2, <2>3, <3>1
    <2>4. CASE n + 1 <= MaxCancelled
      BY <1>types, <2>1, <2>2, <2>4
    <2> QED
      BY <1>types, <2>3, <2>4
  <1> QED
    BY <1>1, <1>2

LEMMA CancelledStays == ASSUME UNCHANGED cancelled PROVE \A g : CancelledNow(g)' = CancelledNow(g)
  BY DEF CancelledNow

LEMMA ForgetKeeps ==
    ASSUME NEW ps \in [Pids -> ProcType], NEW r \in 0..MaxPids, NEW holders
    PROVE  /\ Forget(ps, r, holders) \in [Pids -> ProcType]
           /\ \A q \in Pids :
                /\ Forget(ps, r, holders)[q].g = ps[q].g
                /\ Forget(ps, r, holders)[q].st = "Running" <=> ps[q].st = "Running"
                /\ q # r \/ q \in holders \/ ps[q].st = "Running" => Forget(ps, r, holders)[q] = ps[q]
  <1>1. CASE r = 0 \/ r \in holders \/ ps[r].st = "Running"
    BY <1>1 DEF Forget
  <1>2. CASE ~(r = 0 \/ r \in holders \/ ps[r].st = "Running")
    <2> DEFINE rest == Process(ps[r].g, "gone", FALSE, FALSE)
    <2>1. /\ Forget(ps, r, holders) = [ps EXCEPT ![r] = rest]
          /\ r \in Pids
      BY <1>2 DEF Forget, Pids
    <2>2. rest \in ProcType /\ rest.g = ps[r].g /\ rest.st # "Running"
      BY <2>1, States DEF ProcType, Process
    <2> HIDE DEF rest
    <2> QED
      BY <1>2, <2>1, <2>2
  <1> QED
    BY <1>1, <1>2

LEMMA Processes ==
    ASSUME NEW p \in ProcType, NEW st \in ProcStates, NEW asked \in BOOLEAN, NEW clean \in BOOLEAN,
           NEW x, x = Process(p.g, st, asked, clean)
    PROVE  x \in ProcType /\ x.g = p.g /\ x.st = st /\ x.asked = asked /\ x.clean = clean
  BY DEF ProcType, Process

LEMMA AskMarks ==
    ASSUME proc \in [Pids -> ProcType], NEW r \in Pids, Ask(r)
    PROVE  /\ proc' \in [Pids -> ProcType]
           /\ proc'[r].g = proc[r].g /\ proc'[r].st = proc[r].st
           /\ proc'[r].asked = (proc[r].asked \/ proc[r].st = "Running")
           /\ \A q \in Pids \ {r} : proc'[q] = proc[q]
  <1>1. PICK x : x = Process(proc[r].g, proc[r].st, proc[r].asked \/ proc[r].st = "Running", proc[r].clean)
    OBVIOUS
  <1>2. proc[r] \in ProcType /\ proc[r].st \in ProcStates /\ proc[r].clean \in BOOLEAN
    BY DEF ProcType
  <1>3. /\ x \in ProcType /\ x.g = proc[r].g /\ x.st = proc[r].st
        /\ x.asked = (proc[r].asked \/ proc[r].st = "Running")
    BY <1>1, <1>2 DEF Process, ProcType
  <1>4. proc' = [proc EXCEPT ![r] = x]
    BY <1>1 DEF Ask
  <1> QED
    BY <1>3, <1>4

\* What a step leaves of every process: its generation, and, of one that is
\* running, whether it was asked to stop; none starts to run.
Quiet ==
    /\ proc' \in [Pids -> ProcType]
    /\ \A q \in Pids :
         /\ proc'[q].g = proc[q].g
         /\ proc'[q].st = "Running" => proc[q].st = "Running"
         /\ proc'[q].st = "Running" /\ proc[q].asked => proc'[q].asked

LEMMA QuietSame == ASSUME proc \in [Pids -> ProcType], UNCHANGED proc PROVE Quiet
  BY DEF Quiet

LEMMA QuietForget ==
    ASSUME proc \in [Pids -> ProcType], NEW r \in 0..MaxPids, NEW holders,
           proc' = Forget(proc, r, holders)
    PROVE  Quiet
  BY ForgetKeeps DEF Quiet

LEMMA QuietAsk == ASSUME proc \in [Pids -> ProcType], NEW r \in Pids, Ask(r) PROVE Quiet
  BY AskMarks DEF Quiet, ProcType

LEMMA QuietObserve == ASSUME RunnerTypeOK, WorkerRun, Observe PROVE Quiet
  <1>1. PICK reaped \in BOOLEAN : proc' = [proc EXCEPT ![cur] = Reaped(@, @.clean \/ reaped)]
    BY DEF Observe
  <1>2. PICK x : x = Reaped(proc[cur], proc[cur].clean \/ reaped)
    OBVIOUS
  <1>3. proc \in [Pids -> ProcType] /\ cur \in Pids /\ proc[cur] \in ProcType
    BY DEF RunnerTypeOK, ProcType, WorkerRun, Observe
  <1>4. x \in ProcType /\ x.g = proc[cur].g /\ x.st = proc[cur].st /\ x.asked = proc[cur].asked
    BY <1>2, <1>3 DEF Reaped, Process, ProcType
  <1>5. proc' = [proc EXCEPT ![cur] = x]
    BY <1>1, <1>2
  <1> QED
    BY <1>3, <1>4, <1>5 DEF Quiet

LEMMA QuietReap == ASSUME RunnerTypeOK, CancelRun, CancelReaps PROVE Quiet
  <1>1. PICK reaped : /\ reaped \in BOOLEAN
                      /\ proc' = Forget([proc EXCEPT ![held] = Reaped(@, reaped)], held, {cur})
    BY DEF CancelReaps, RunnerTypeOK, CancelRun
  <1>2. PICK x : x = Reaped(proc[held], reaped)
    OBVIOUS
  <1>3. proc \in [Pids -> ProcType] /\ held \in Pids /\ proc[held] \in ProcType
    BY DEF RunnerTypeOK, ProcType, CancelRun, CancelReaps
  <1>4. x \in ProcType /\ x.g = proc[held].g /\ x.st = proc[held].st /\ x.asked = proc[held].asked
    BY <1>1, <1>2, <1>3 DEF Reaped, Process, ProcType
  <1>5. PICK ps : ps = [proc EXCEPT ![held] = x]
    OBVIOUS
  <1>6. /\ ps \in [Pids -> ProcType]
        /\ \A q \in Pids : ps[q].g = proc[q].g /\ ps[q].st = proc[q].st /\ ps[q].asked = proc[q].asked
    BY <1>3, <1>4, <1>5
  <1>7. proc' = Forget(ps, held, {cur})
    BY <1>1, <1>2, <1>5
  <1>8. held \in 0..MaxPids
    BY DEF RunnerTypeOK
  <1> QED
    BY <1>6, <1>7, <1>8, ForgetKeeps DEF Quiet

LEMMA QuietEnd == ASSUME RunnerTypeOK, NEW r \in Pids, ProcessEnds(r) PROVE Quiet /\ proc'[r].st # "Running"
  <1>1. PICK st \in {"Exited"} \cup Limits \cup (IF proc[r].asked THEN {"Cancelled"} ELSE {}) :
          proc' = Forget([proc EXCEPT ![r] = Process(@.g, st, @.asked, @.clean)], r, {cur, held})
    BY DEF ProcessEnds
  <1>2. st # "Running" /\ st \in ProcStates
    BY <1>1, States
  <1>3. PICK x : x = Process(proc[r].g, st, proc[r].asked, proc[r].clean)
    OBVIOUS
  <1>4. proc \in [Pids -> ProcType] /\ proc[r] \in ProcType
    BY DEF RunnerTypeOK, ProcType
  <1>5. x \in ProcType /\ x.g = proc[r].g /\ x.st = st
    BY <1>2, <1>3, <1>4 DEF Process, ProcType
  <1>6. PICK ps : ps = [proc EXCEPT ![r] = x]
    OBVIOUS
  <1>7. /\ ps \in [Pids -> ProcType] /\ ps[r].st # "Running" /\ ps[r].g = proc[r].g
        /\ \A q \in Pids \ {r} : ps[q] = proc[q]
    BY <1>2, <1>4, <1>5, <1>6
  <1>8. proc' = Forget(ps, r, {cur, held}) /\ r \in 0..MaxPids
    BY <1>1, <1>3, <1>6 DEF Pids
  <1> QED
    BY <1>7, <1>8, ForgetKeeps DEF Quiet

\* Every step but the start of a process is quiet.
LEMMA QuietStep == RunnerTypeOK /\ WorkerRun /\ CancelRun /\ [RunnerNext]_runnerVars => Quiet \/ Start
  <1> SUFFICES ASSUME RunnerTypeOK, WorkerRun, CancelRun, [RunnerNext]_runnerVars PROVE Quiet \/ Start
    OBVIOUS
  <1>types. proc \in [Pids -> ProcType] /\ cur \in 0..MaxPids /\ held \in 0..MaxPids
    BY DEF RunnerTypeOK, ProcType
  <1>1. SetJobContext \/ BeginRun \/ UNCHANGED runnerVars => Quiet
    BY <1>types, QuietSame DEF SetJobContext, BeginRun, runnerVars
  <1>2. MarkLaunching \/ Register \/ ObserveFails => Quiet
    BY <1>types, QuietSame DEF MarkLaunching, Register, ObserveFails
  <1>3. WorkerCancels => Quiet
    BY <1>types, QuietAsk DEF WorkerCancels, WorkerRun
  <1>4. Observe => Quiet
    BY QuietObserve
  <1>5. Leave => Quiet
    BY <1>types, QuietForget DEF Leave
  <1>6. CancelBegins \/ CancelLooks \/ CancelWithoutHandle => Quiet
    BY <1>types, QuietSame DEF CancelBegins, CancelLooks, CancelWithoutHandle
  <1>7. CancelAsks => Quiet
    <2> SUFFICES ASSUME CancelAsks PROVE Quiet
      OBVIOUS
    <2>1. held \in Pids /\ (Ask(held) \/ proc' = Forget(proc, held, {cur}))
      BY DEF CancelAsks, CancelRun
    <2> QED
      BY <1>types, <2>1, QuietAsk, QuietForget
  <1>8. CancelReaps => Quiet
    BY QuietReap
  <1>9. \A r \in Pids : ProcessEnds(r) => Quiet
    BY QuietEnd
  <1> QED
    BY <1>1, <1>2, <1>3, <1>4, <1>5, <1>6, <1>7, <1>8, <1>9 DEF RunnerNext, WorkerStep, CancelStep

\* Which variables the steps of each thread, and the ends of processes, leave alone.
LEMMA WorkerFrame ==
    SetJobContext \/ BeginRun \/ WorkerStep =>
      UNCHANGED <<cancelled, waiters, cpc, target, held, report>>
  BY DEF SetJobContext, BeginRun, WorkerStep, MarkLaunching, Start, Register, WorkerCancels, Observe,
         ObserveFails, Leave, canceller, registry

LEMMA CancelFrame ==
    CancelBegins \/ CancelStep => UNCHANGED <<gen, launching, owned, wpc, cur, missed>>
  BY DEF CancelBegins, CancelStep, CancelLooks, CancelWithoutHandle, CancelAsks, CancelReaps,
         worker, registry

LEMMA EndFrame ==
    \A r \in Pids : ProcessEnds(r) =>
      UNCHANGED <<gen, cancelled, launching, waiters, owned, wpc, cur, cpc, target, held, report, missed>>
  BY DEF ProcessEnds, worker, canceller, registry

\* cancel_generation answers: complete after a look only when no process was
\* registered or launching, or when the process it held was cancelled.
LEMMA Returns ==
    ASSUME RunnerTypeOK, NEW answer \in {"none", "pending", "complete", "incomplete", "raised"},
           CancelReturns(answer)
    PROVE  /\ report' \in [Gens -> {"none", "pending", "complete", "incomplete", "raised"}]
           /\ \A g \in Gens : report'[g] = IF g = target THEN answer ELSE report[g]
           /\ cpc' = "idle" /\ target' = 0 /\ held' = 0 /\ waiters' = waiters \ {target}
  BY DEF CancelReturns, RunnerTypeOK

LEMMA ReapsReturns ==
    CancelReaps => \E answer \in {"complete", "incomplete"} :
                     /\ CancelReturns(answer)
                     /\ answer = "complete" => proc[held].st = "Cancelled"
  <1> SUFFICES ASSUME CancelReaps
               PROVE  \E answer \in {"complete", "incomplete"} :
                        /\ CancelReturns(answer)
                        /\ answer = "complete" => proc[held].st = "Cancelled"
    OBVIOUS
  <1>1. PICK reaped :
          CancelReturns(IF proc[held].st = "Cancelled" /\ reaped THEN "complete" ELSE "incomplete")
    BY Zenon DEF CancelReaps
  <1> QED
    BY <1>1

LEMMA AsksReturns ==
    CancelAsks => \/ Ask(held) /\ cpc' = "reap" /\ UNCHANGED <<waiters, target, held, report>>
                  \/ CancelReturns("raised") /\ proc' = Forget(proc, held, {cur})
  BY DEF CancelAsks

LEMMA NotStart ==
    /\ CancelBegins \/ CancelStep => ~Start
    /\ \A r \in Pids : ProcessEnds(r) => ~Start
    /\ wpc # "start" => ~Start
  <1>1. Start => wpc = "start" /\ wpc' # wpc
    BY DEF Start, WorkerGoto
  <1> QED
    BY <1>1, CancelFrame, EndFrame

\* The start of a process: it runs with the generation of the job, and no
\* other process changes.
LEMMA Started ==
    ASSUME RunnerTypeOK, Start
    PROVE  \/ /\ cur' \in Pids /\ wpc' = "register" /\ proc'[cur'].g = gen
              /\ \A q \in Pids \ {cur'} : proc'[q] = proc[q]
              /\ proc[cur'].st = "none"
           \/ UNCHANGED <<proc, cur>> /\ wpc' = "leave"
  <1>1. PICK x : x = Process(gen, "Running", FALSE, FALSE)
    OBVIOUS
  <1>2. x.g = gen
    BY <1>1 DEF Process
  <1>3. proc \in [Pids -> ProcType]
    BY DEF RunnerTypeOK, ProcType
  <1>4. \/ UNCHANGED <<proc, cur>> /\ wpc' = "leave"
        \/ \E r \in Pids : /\ proc' = [proc EXCEPT ![r] = x] /\ proc[r].st = "none"
                          /\ cur' = r /\ wpc' = "register"
    BY <1>1 DEF Start, Fresh, WorkerGoto
  <1> QED
    BY <1>2, <1>3, <1>4

LEMMA TypeStep == RunnerTypeOK /\ WorkerRun /\ CancelRun /\ [RunnerNext]_runnerVars => RunnerTypeOK'
  <1> SUFFICES ASSUME RunnerTypeOK, WorkerRun, CancelRun, [RunnerNext]_runnerVars PROVE RunnerTypeOK'
    OBVIOUS
  <1> DEFINE Base ==
        /\ gen' \in 0..MaxGen /\ launching' \subseteq Gens /\ waiters' \subseteq Gens
        /\ cancelled' \in Seq(Gens) /\ Len(cancelled') <= MaxCancelled
        /\ owned' \in [Gens -> 0..MaxPids]
        /\ wpc' \in {"idle", "admit", "start", "register", "cancel", "observe", "leave"}
        /\ cur' \in 0..MaxPids
        /\ cpc' \in {"idle", "wait", "pending", "absent", "ask", "reap"}
        /\ target' \in 0..MaxGen /\ held' \in 0..MaxPids
        /\ report' \in [Gens -> {"none", "pending", "complete", "incomplete", "raised"}]
        /\ missed' \subseteq Gens
        /\ launching' \subseteq {gen'} /\ \A g \in Gens : owned'[g] # 0 => g = gen'
  <1>p. proc \in [Pids -> ProcType]
    BY DEF RunnerTypeOK, ProcType
  <1>proc. proc' \in [Pids -> ProcType]
    <2>1. Start => proc' \in [Pids -> ProcType]
      <3>1. PICK x : x = Process(gen, "Running", FALSE, FALSE)
        OBVIOUS
      <3>2. x \in ProcType
        BY <3>1 DEF Process, ProcType, RunnerTypeOK, ProcStates
      <3>3. Start => \/ UNCHANGED proc
                     \/ \E r \in Pids : proc' = [proc EXCEPT ![r] = x]
        BY <3>1 DEF Start, Fresh
      <3> QED
        BY <3>2, <3>3, <1>p
    <2> QED
      BY <2>1, QuietStep DEF Quiet
  <1>base. /\ gen \in 0..MaxGen /\ MaxGen \in Nat /\ MaxPids \in Nat
           /\ launching \subseteq {gen} /\ \A g \in Gens : owned[g] # 0 => g = gen
           /\ launching \subseteq Gens /\ waiters \subseteq Gens
           /\ cancelled \in Seq(Gens) /\ Len(cancelled) <= MaxCancelled
           /\ owned \in [Gens -> 0..MaxPids] /\ cur \in 0..MaxPids
           /\ wpc \in {"idle", "admit", "start", "register", "cancel", "observe", "leave"}
           /\ cpc \in {"idle", "wait", "pending", "absent", "ask", "reap"}
           /\ target \in 0..MaxGen /\ held \in 0..MaxPids
           /\ report \in [Gens -> {"none", "pending", "complete", "incomplete", "raised"}]
           /\ missed \subseteq Gens /\ 0 \in 0..MaxGen /\ 0 \in 0..MaxPids
    BY RunnerBounds DEF RunnerTypeOK
  <1>1. SetJobContext => Base
    BY <1>base DEF SetJobContext, registry, canceller, WorkerRun, Gens
  <1>2. BeginRun => Base
    BY <1>base DEF BeginRun, registry, canceller, WorkerGoto
  <1>3. MarkLaunching => Base
    BY <1>base DEF MarkLaunching, registry, canceller, WorkerGoto, WorkerRun
  <1>4. Start => Base
    <2>1. Start => cur' \in 0..MaxPids /\ wpc' \in {"register", "leave"}
      BY <1>base, Started DEF Pids
    <2>2. Start => UNCHANGED <<gen, registry, canceller, missed>>
      BY DEF Start
    <2> QED
      BY <1>base, <2>1, <2>2 DEF registry, canceller
  <1>5. Register => Base
    BY <1>base DEF Register, registry, canceller, WorkerGoto, WorkerRun
  <1>6. WorkerCancels => Base
    BY <1>base DEF WorkerCancels, registry, canceller, WorkerGoto
  <1>7. Observe => Base
    BY <1>base DEF Observe, registry, canceller, WorkerGoto
  <1>8. ObserveFails => Base
    BY <1>base DEF ObserveFails, registry, canceller, WorkerGoto
  <1>9. Leave => Base
    BY <1>base DEF Leave, canceller, WorkerGoto
  <1>10. CancelBegins => Base
    <2> SUFFICES ASSUME CancelBegins PROVE Base
      OBVIOUS
    <2>1. gen \in Gens /\ cancelled' = Remember(gen)
      BY <1>base DEF CancelBegins, Gens
    <2>2. cancelled' \in Seq(Gens) /\ Len(cancelled') <= MaxCancelled
      BY <2>1, RememberKeeps
    <2> QED
      BY <1>base, <2>1, <2>2 DEF CancelBegins, worker
  <1>11. CancelLooks => Base
    BY <1>base DEF CancelLooks, registry, worker, CancelRun, Gens
  <1>12. CancelWithoutHandle => Base
    <2> SUFFICES ASSUME CancelWithoutHandle PROVE Base
      OBVIOUS
    <2>1. /\ UNCHANGED cancelled
          /\ \E answer \in {"pending", "complete"} : CancelReturns(answer)
      BY DEF CancelWithoutHandle
    <2> QED
      BY <1>base, <2>1, CancelFrame, Returns DEF CancelStep
  <1>13. CancelAsks => Base
    <2> SUFFICES ASSUME CancelAsks PROVE Base
      OBVIOUS
    <2>1. UNCHANGED cancelled
      BY DEF CancelAsks
    <2> QED
      BY <1>base, <2>1, CancelFrame, AsksReturns, Returns DEF CancelStep
  <1>14. CancelReaps => Base
    <2> SUFFICES ASSUME CancelReaps PROVE Base
      OBVIOUS
    <2>1. UNCHANGED cancelled
      BY DEF CancelReaps
    <2> QED
      BY <1>base, <2>1, CancelFrame, ReapsReturns, Returns DEF CancelStep
  <1>15. \A r \in Pids : ProcessEnds(r) => Base
    BY <1>base, EndFrame
  <1>16. UNCHANGED runnerVars => Base
    BY <1>base DEF runnerVars, worker, canceller, registry
  <1>17. Base
    BY <1>1, <1>2, <1>3, <1>4, <1>5, <1>6, <1>7, <1>8, <1>9, <1>10, <1>11, <1>12, <1>13, <1>14, <1>15, <1>16
       DEF RunnerNext, WorkerStep, CancelStep
  <1> QED
    BY <1>17, <1>proc DEF RunnerTypeOK, ProcType

LEMMA WorkerRunStep == RunnerTypeOK /\ WorkerRun /\ CancelRun /\ [RunnerNext]_runnerVars => WorkerRun'
  <1> SUFFICES ASSUME RunnerTypeOK, WorkerRun, CancelRun, [RunnerNext]_runnerVars PROVE WorkerRun'
    OBVIOUS
  <1>types. /\ gen \in 0..MaxGen /\ owned \in [Gens -> 0..MaxPids] /\ cur \in 0..MaxPids
            /\ wpc \in {"idle", "admit", "start", "register", "cancel", "observe", "leave"}
            /\ MaxGen \in Nat /\ MaxPids \in Nat /\ Gens = 1..MaxGen /\ Pids = 1..MaxPids
    BY RunnerBounds DEF RunnerTypeOK, Gens, Pids
  <1>g. cur \in Pids => Start \/ proc'[cur].g = proc[cur].g
    <2>1. Quiet \/ Start
      BY QuietStep
    <2> QED
      BY <2>1 DEF Quiet
  <1>1. SetJobContext => WorkerRun'
    BY <1>types, <1>g DEF SetJobContext, WorkerRun, registry
  <1>2. BeginRun => WorkerRun'
    BY <1>types, <1>g DEF BeginRun, WorkerRun, registry, WorkerGoto
  <1>3. MarkLaunching => WorkerRun'
    BY <1>types, <1>g DEF MarkLaunching, WorkerRun, WorkerGoto
  <1>4. Start => WorkerRun'
    <2>1. Start => wpc = "start" /\ UNCHANGED <<gen, launching, owned>>
      BY DEF Start, registry
    <2> QED
      BY <1>types, <2>1, Started DEF WorkerRun
  <1>5. Register => WorkerRun'
    BY <1>types, <1>g DEF Register, WorkerRun, WorkerGoto
  <1>6. WorkerCancels => WorkerRun'
    <2>1. WorkerCancels => /\ wpc = "cancel" /\ wpc' = "observe"
                           /\ UNCHANGED <<gen, launching, owned, cur>>
      BY DEF WorkerCancels, registry, WorkerGoto
    <2> QED
      BY <1>types, <1>g, <2>1, NotStart DEF WorkerRun
  <1>7. Observe => WorkerRun'
    <2> SUFFICES ASSUME Observe PROVE WorkerRun'
      OBVIOUS
    <2>1. /\ wpc = "observe" /\ wpc' = "leave"
          /\ UNCHANGED <<gen, launching, owned, cur>>
      BY DEF Observe, registry, WorkerGoto
    <2>2. cur \in Pids /\ cur # 0 /\ proc'[cur].g = gen
      BY <1>types, <1>g, <2>1, NotStart DEF WorkerRun
    <2> QED
      BY <1>types, <2>1, <2>2 DEF WorkerRun
  <1>8. ObserveFails => WorkerRun'
    BY <1>types, <1>g DEF ObserveFails, WorkerRun, registry, WorkerGoto
  <1>9. Leave => WorkerRun'
    BY <1>types, <1>g DEF Leave, WorkerRun, WorkerGoto
  <1>10. CancelBegins \/ CancelStep => WorkerRun'
    BY <1>types, <1>g, CancelFrame, NotStart DEF WorkerRun
  <1>11. \A r \in Pids : ProcessEnds(r) => WorkerRun'
    BY <1>types, <1>g, EndFrame, NotStart DEF WorkerRun
  <1>12. UNCHANGED runnerVars => WorkerRun'
    BY <1>types DEF WorkerRun, runnerVars, worker, registry
  <1> QED
    BY <1>1, <1>2, <1>3, <1>4, <1>5, <1>6, <1>7, <1>8, <1>9, <1>10, <1>11, <1>12
       DEF RunnerNext, WorkerStep

LEMMA CancelRunStep == RunnerTypeOK /\ WorkerRun /\ CancelRun /\ [RunnerNext]_runnerVars => CancelRun'
  <1> SUFFICES ASSUME RunnerTypeOK, WorkerRun, CancelRun, [RunnerNext]_runnerVars PROVE CancelRun'
    OBVIOUS
  <1>types. /\ gen \in 0..MaxGen /\ owned \in [Gens -> 0..MaxPids] /\ target \in 0..MaxGen
            /\ cpc \in {"idle", "wait", "pending", "absent", "ask", "reap"}
            /\ MaxGen \in Nat /\ MaxPids \in Nat /\ Gens = 1..MaxGen /\ Pids = 1..MaxPids
    BY RunnerBounds DEF RunnerTypeOK, Gens, Pids
  <1>c. UNCHANGED cancelled => \A g : CancelledNow(g)' = CancelledNow(g)
    BY CancelledStays
  <1>1. SetJobContext => CancelRun'
    BY <1>types, <1>c, WorkerFrame DEF CancelRun, SetJobContext
  <1>2. BeginRun \/ WorkerStep => CancelRun'
    <2>1. BeginRun \/ WorkerStep => UNCHANGED gen
      BY DEF BeginRun, WorkerStep, MarkLaunching, Start, Register, WorkerCancels, Observe, ObserveFails, Leave
    <2> QED
      BY <1>types, <1>c, <2>1, WorkerFrame DEF CancelRun
  <1>3. CancelBegins => CancelRun'
    <2> SUFFICES ASSUME CancelBegins PROVE CancelRun'
      OBVIOUS
    <2>1. /\ gen \in Gens /\ cancelled' = Remember(gen) /\ target' = gen /\ gen' = gen
          /\ waiters' = waiters \cup {gen} /\ cpc' = "wait" /\ held' = held /\ cpc = "idle"
      BY <1>types DEF CancelBegins
    <2>2. CancelledNow(gen)'
      BY <2>1, RememberKeeps DEF CancelledNow
    <2> QED
      BY <1>types, <2>1, <2>2 DEF CancelRun
  <1>4. CancelLooks => CancelRun'
    BY <1>types, <1>c DEF CancelLooks, CancelRun, registry
  <1>5. CancelWithoutHandle \/ CancelReaps => CancelRun'
    <2>1. CancelWithoutHandle \/ CancelReaps =>
            \E answer \in {"pending", "complete", "incomplete"} : CancelReturns(answer)
      BY ReapsReturns DEF CancelWithoutHandle
    <2>2. CancelWithoutHandle \/ CancelReaps => UNCHANGED <<gen, cancelled>>
      BY DEF CancelWithoutHandle, CancelReaps
    <2>3. CancelWithoutHandle \/ CancelReaps => cpc # "idle"
      BY DEF CancelWithoutHandle, CancelReaps
    <2> QED
      BY <1>types, <1>c, <2>1, <2>2, <2>3, Returns DEF CancelRun
  <1>6. CancelAsks => CancelRun'
    <2>1. CancelAsks => UNCHANGED <<gen, cancelled>> /\ cpc = "ask"
      BY DEF CancelAsks
    <2> QED
      BY <1>types, <1>c, <2>1, AsksReturns, Returns DEF CancelRun
  <1>7. \A r \in Pids : ProcessEnds(r) => CancelRun'
    BY <1>types, <1>c, EndFrame DEF CancelRun
  <1>8. UNCHANGED runnerVars => CancelRun'
    BY <1>types, <1>c DEF runnerVars, canceller, registry, CancelRun
  <1> QED
    BY <1>1, <1>2, <1>3, <1>4, <1>5, <1>6, <1>7, <1>8 DEF RunnerNext, CancelStep

LEMMA SeenStep == RunnerTypeOK /\ WorkerRun /\ CancelRun /\ Seen /\ [RunnerNext]_runnerVars => Seen'
  <1> SUFFICES ASSUME RunnerTypeOK, WorkerRun, CancelRun, Seen, [RunnerNext]_runnerVars PROVE Seen'
    OBVIOUS
  <1>types. /\ gen \in 0..MaxGen /\ owned \in [Gens -> 0..MaxPids] /\ target \in 0..MaxGen
            /\ wpc \in {"idle", "admit", "start", "register", "cancel", "observe", "leave"}
            /\ cpc \in {"idle", "wait", "pending", "absent", "ask", "reap"}
            /\ MaxGen \in Nat /\ MaxPids \in Nat /\ Gens = 1..MaxGen /\ Pids = 1..MaxPids
            /\ cur \in 0..MaxPids
    BY RunnerBounds DEF RunnerTypeOK, Gens, Pids
  <1>q. \/ Start
        \/ \A q \in Pids : proc[q].asked \/ q \notin Alive => proc'[q].asked \/ q \notin Alive'
    <2>1. Quiet \/ Start
      BY QuietStep
    <2> QED
      BY <2>1 DEF Quiet, Alive
  <1>w. SetJobContext \/ BeginRun \/ WorkerStep => cpc' = cpc /\ target' = target /\ held' = held
    BY WorkerFrame
  <1>1. SetJobContext => Seen'
    BY <1>types, <1>w DEF SetJobContext, Seen, CancelRun
  <1>2. BeginRun => Seen'
    BY <1>types, <1>w, <1>q, NotStart DEF BeginRun, Seen, CancelRun, WorkerGoto
  <1>3. MarkLaunching => Seen'
    BY <1>types, <1>w, <1>q, NotStart DEF MarkLaunching, Seen, CancelRun, WorkerGoto, WorkerStep
  <1>4. Start => Seen'
    <2>1. Start => wpc = "start" /\ UNCHANGED <<gen, missed>> /\ wpc' \in {"register", "leave"}
      BY DEF Start, WorkerGoto
    <2> QED
      BY <1>types, <1>w, <2>1 DEF Seen, WorkerRun, CancelRun, WorkerStep
  <1>5. Register => Seen'
    BY <1>types, <1>w, <1>q, NotStart DEF Register, Seen, WorkerGoto, WorkerStep, WorkerRun, CancelRun
  <1>6. WorkerCancels \/ Observe \/ ObserveFails => Seen'
    <2>1. WorkerCancels \/ Observe \/ ObserveFails =>
            /\ wpc \in {"cancel", "observe"} /\ wpc' \in {"observe", "leave"}
            /\ UNCHANGED <<gen, missed, cur>> /\ (wpc' = "observe" => wpc = "cancel")
      BY DEF WorkerCancels, Observe, ObserveFails, WorkerGoto
    <2> QED
      BY <1>types, <1>w, <1>q, <2>1, NotStart DEF Seen, WorkerStep, CancelRun
  <1>7. Leave => Seen'
    BY <1>types, <1>w, <1>q, NotStart DEF Leave, Seen, WorkerGoto, WorkerStep, CancelRun
  <1>8. CancelBegins => Seen'
    BY <1>types DEF CancelBegins, Seen
  <1>9. CancelLooks => Seen'
    <2>1. CancelLooks => UNCHANGED <<gen, wpc, cur, missed, target>>
      BY CancelFrame DEF CancelLooks, CancelStep
    <2> QED
      BY <1>types, <2>1 DEF CancelLooks, Seen, WorkerRun, CancelRun
  <1>10. CancelWithoutHandle \/ CancelReaps => Seen'
    <2>1. CancelWithoutHandle \/ CancelReaps =>
            \E answer \in {"pending", "complete", "incomplete"} : CancelReturns(answer)
      BY ReapsReturns DEF CancelWithoutHandle
    <2> QED
      BY <2>1, Returns DEF Seen
  <1>11. CancelAsks => Seen'
    <2> SUFFICES ASSUME CancelAsks PROVE Seen'
      OBVIOUS
    <2>1. cpc = "ask" /\ UNCHANGED <<gen, wpc, cur, missed>>
      BY CancelFrame DEF CancelAsks, CancelStep
    <2>2. held \in Pids /\ proc \in [Pids -> ProcType]
      BY <2>1 DEF CancelRun, RunnerTypeOK, ProcType
    <2>3. CASE Ask(held) /\ cpc' = "reap" /\ UNCHANGED <<waiters, target, held, report>>
      <3>1. proc'[held].asked \/ held \notin Alive'
        BY <2>2, <2>3, AskMarks DEF Alive
      <3> QED
        BY <2>1, <2>3, <3>1 DEF Seen
    <2>4. CASE CancelReturns("raised")
      BY <2>4, Returns DEF Seen
    <2> QED
      BY <2>3, <2>4, AsksReturns
  <1>12. \A r \in Pids : ProcessEnds(r) => Seen'
    BY <1>types, <1>q, EndFrame, NotStart DEF Seen, CancelRun
  <1>13. UNCHANGED runnerVars => Seen'
    BY <1>types DEF runnerVars, canceller, worker, Seen, Alive
  <1> QED
    BY <1>1, <1>2, <1>3, <1>4, <1>5, <1>6, <1>7, <1>8, <1>9, <1>10, <1>11, <1>12, <1>13
       DEF RunnerNext, WorkerStep, CancelStep

\* How each thread's steps bear on the current generation's answer.
LEMMA AnsweredStep == RunnerTypeOK /\ WorkerRun /\ CancelRun /\ Seen /\ Answered /\ [RunnerNext]_runnerVars => Answered'
  <1> SUFFICES ASSUME RunnerTypeOK, WorkerRun, CancelRun, Seen, Answered, [RunnerNext]_runnerVars PROVE Answered'
    OBVIOUS
  <1>types. /\ gen \in 0..MaxGen /\ target \in 0..MaxGen
            /\ wpc \in {"idle", "admit", "start", "register", "cancel", "observe", "leave"}
            /\ cpc \in {"idle", "wait", "pending", "absent", "ask", "reap"}
            /\ MaxGen \in Nat /\ MaxPids \in Nat /\ Gens = 1..MaxGen /\ Pids = 1..MaxPids
            /\ cur \in 0..MaxPids
    BY RunnerBounds DEF RunnerTypeOK, Gens, Pids
  <1>c. UNCHANGED cancelled => \A g : CancelledNow(g)' = CancelledNow(g)
    BY CancelledStays
  <1>q. \/ Start
        \/ \A q \in Pids : /\ q \in Alive' => q \in Alive
                           /\ q \in Alive' /\ proc[q].asked => proc'[q].asked
    <2>1. Quiet \/ Start
      BY QuietStep
    <2> QED
      BY <2>1 DEF Quiet, Alive
  <1>w. SetJobContext \/ BeginRun \/ WorkerStep =>
          UNCHANGED <<cancelled, waiters, cpc, target, held, report>>
    BY WorkerFrame
  <1>1. SetJobContext => Answered'
    BY <1>types, <1>w DEF SetJobContext, Answered
  <1>2. BeginRun => Answered'
    BY <1>types, <1>w, <1>c DEF BeginRun, Answered, WorkerGoto
  <1>3. MarkLaunching => Answered'
    BY <1>types, <1>w, <1>c DEF MarkLaunching, Answered, WorkerGoto, WorkerStep
  <1>4. Start => Answered'
    <2>1. Start => wpc = "start" /\ UNCHANGED gen /\ wpc' \in {"register", "leave"}
      BY DEF Start, WorkerGoto
    <2> QED
      BY <1>types, <1>w, <1>c, <2>1 DEF Answered, WorkerStep
  <1>5. Register => Answered'
    BY <1>types, <1>w, <1>c DEF Register, Answered, WorkerGoto, WorkerStep, WorkerRun, CancelRun
  <1>6. WorkerCancels => Answered'
    <2> SUFFICES ASSUME WorkerCancels PROVE Answered'
      OBVIOUS
    <2>1. wpc = "cancel" /\ wpc' = "observe" /\ UNCHANGED <<gen, missed, cur>> /\ Ask(cur)
      BY DEF WorkerCancels, WorkerGoto
    <2>2. cur \in Pids /\ (cur \in Alive' => proc'[cur].asked) /\ (cur \in Alive' => cur \in Alive)
      BY <2>1, AskMarks DEF WorkerRun, RunnerTypeOK, ProcType, Alive
    <2> QED
      BY <1>types, <1>w, <1>c, <2>1, <2>2 DEF Answered, WorkerStep
  <1>7. Observe \/ ObserveFails => Answered'
    <2>1. Observe \/ ObserveFails => wpc \in {"cancel", "observe"} /\ wpc' = "leave" /\ UNCHANGED <<gen, cur>>
      BY DEF Observe, ObserveFails, WorkerGoto
    <2> QED
      BY <1>types, <1>w, <1>c, <2>1 DEF Answered, WorkerStep
  <1>8. Leave => Answered'
    BY <1>types, <1>w, <1>c DEF Leave, Answered, WorkerGoto, WorkerStep
  <1>9. CancelBegins => Answered'
    <2> SUFFICES ASSUME CancelBegins PROVE Answered'
      OBVIOUS
    <2>1. /\ gen \in Gens /\ cancelled' = Remember(gen)
          /\ cpc' = "wait" /\ target' = gen /\ cpc = "idle"
          /\ UNCHANGED <<gen, report, proc, wpc, cur, missed>>
      BY <1>types DEF CancelBegins, worker
    <2>2. CancelledNow(gen)'
      BY <2>1, RememberKeeps DEF CancelledNow
    <2>3. Alive' = Alive
      BY <2>1 DEF Alive
    <2> QED
      BY <1>types, <2>1, <2>2, <2>3 DEF Answered
  <1>10. CancelLooks => Answered'
    <2>1. CancelLooks => /\ cpc = "wait" /\ cpc' # "idle"
                         /\ UNCHANGED <<gen, proc, cancelled, wpc, cur, missed, report, target>>
      BY CancelFrame DEF CancelLooks, CancelStep, registry
    <2>2. UNCHANGED proc => Alive' = Alive
      BY DEF Alive
    <2> QED
      BY <1>types, <1>c, <2>1, <2>2 DEF Answered
  <1>returns. ASSUME NEW answer \in {"pending", "complete", "incomplete", "raised"},
                     CancelReturns(answer), ~Start, cpc # "idle",
                     UNCHANGED <<gen, cancelled, wpc, cur, missed>>,
                     answer = "pending" => cpc = "pending",
                     answer = "complete" => cpc = "absent" \/ (cpc = "reap" /\ held \notin Alive),
                     answer = "incomplete" => cpc = "reap"
              PROVE  Answered'
    <2>1. /\ \A g \in Gens : report'[g] = IF g = target THEN answer ELSE report[g]
          /\ cpc' = "idle"
      BY <1>returns, Returns
    <2>2. target \in Gens /\ target <= gen
      BY <1>returns, <1>types DEF CancelRun
    <2>3. CASE target # gen
      <3>1. wpc \in {"cancel", "observe"} => cur \in Pids
        BY DEF WorkerRun
      <3> QED
        BY <1>types, <1>c, <1>q, <1>returns, <2>1, <2>2, <2>3, <3>1 DEF Answered
    <2>4. CASE target = gen
      <3>1. CancelledNow(gen)
        BY <1>returns, <2>4 DEF CancelRun
      <3>2. answer = "complete" => \/ wpc \in {"idle", "admit", "leave"}
                                   \/ wpc \in {"cancel", "observe"} /\ cur \notin Alive
        BY <1>returns, <2>4 DEF Seen
      <3>3. wpc = "observe" /\ cur \in Alive' /\ answer # "raised" => gen \in missed \/ proc'[cur].asked
        BY <1>q, <1>returns, <2>4 DEF Seen, WorkerRun
      <3>4. wpc \in {"cancel", "observe"} => cur \in Pids
        BY DEF WorkerRun
      <3> QED
        BY <1>types, <1>c, <1>q, <1>returns, <2>1, <2>2, <2>4, <3>1, <3>2, <3>3, <3>4 DEF Answered
    <2> QED
      BY <2>3, <2>4
  <1>11. CancelWithoutHandle => Answered'
    <2> SUFFICES ASSUME CancelWithoutHandle PROVE Answered'
      OBVIOUS
    <2>1. PICK answer \in {"pending", "complete"} :
            /\ CancelReturns(answer) /\ cpc \in {"pending", "absent"}
            /\ answer = (IF cpc = "pending" THEN "pending" ELSE "complete")
      BY DEF CancelWithoutHandle
    <2>2. UNCHANGED <<gen, cancelled, wpc, cur, missed>> /\ ~Start
      BY CancelFrame, NotStart DEF CancelWithoutHandle, CancelStep
    <2> QED
      BY <1>returns, <2>1, <2>2
  <1>12. CancelReaps => Answered'
    <2> SUFFICES ASSUME CancelReaps PROVE Answered'
      OBVIOUS
    <2>1. PICK answer \in {"complete", "incomplete"} :
            CancelReturns(answer) /\ (answer = "complete" => proc[held].st = "Cancelled")
      BY ReapsReturns
    <2>2. UNCHANGED <<gen, cancelled, wpc, cur, missed>> /\ ~Start /\ cpc = "reap"
      BY CancelFrame, NotStart DEF CancelReaps, CancelStep
    <2>3. answer = "complete" => held \notin Alive
      BY <2>1 DEF Alive
    <2> QED
      BY <1>returns, <2>1, <2>2, <2>3
  <1>13. CancelAsks => Answered'
    <2> SUFFICES ASSUME CancelAsks PROVE Answered'
      OBVIOUS
    <2>1. UNCHANGED <<gen, cancelled, wpc, cur, missed>> /\ ~Start /\ cpc = "ask"
      BY CancelFrame, NotStart DEF CancelAsks, CancelStep
    <2>2. CASE cpc' = "reap" /\ UNCHANGED <<waiters, target, held, report>>
      <3>1. wpc \in {"cancel", "observe"} => cur \in Pids
        BY DEF WorkerRun
      <3> QED
        BY <1>types, <1>c, <1>q, <2>1, <2>2, <3>1 DEF Answered
    <2>3. CASE CancelReturns("raised")
      BY <1>returns, <2>1, <2>3
    <2> QED
      BY <2>2, <2>3, AsksReturns
  <1>14. \A r \in Pids : ProcessEnds(r) => Answered'
    <2>1. wpc \in {"cancel", "observe"} => cur \in Pids
      BY DEF WorkerRun
    <2> QED
      BY <1>types, <1>c, <1>q, <2>1, EndFrame, NotStart DEF Answered
  <1>15. UNCHANGED runnerVars => Answered'
    <2>1. UNCHANGED proc => Alive' = Alive
      BY DEF Alive
    <2> QED
      BY <1>types, <1>c, <2>1 DEF runnerVars, canceller, worker, registry, Answered
  <1> QED
    BY <1>1, <1>2, <1>3, <1>4, <1>5, <1>6, <1>7, <1>8, <1>9, <1>10, <1>11, <1>12, <1>13, <1>14, <1>15
       DEF RunnerNext, WorkerStep, CancelStep

-----------------------------------------------------------------------------
\* The invariant of the two threads, for any number of generations, runs and
\* failures, and any capacity of the table of cancelled generations.
THEOREM RunnerInvariant == RunnerSpec => []RunnerIInv
  <1>1. RunnerInit => RunnerIInv
    <2> SUFFICES ASSUME RunnerInit PROVE RunnerIInv
      OBVIOUS
    <2>1. NoProc \in ProcType
      BY RunnerBounds DEF NoProc, Process, ProcType, ProcStates
    <2>2. RunnerTypeOK
      BY <2>1, RunnerBounds DEF RunnerInit, RunnerTypeOK, ProcType, Gens
    <2>3. Pids = 1..MaxPids /\ Gens = 1..MaxGen
      BY DEF Pids, Gens
    <2>4. WorkerRun /\ CancelRun /\ Seen /\ Answered
      BY <2>3, RunnerBounds DEF RunnerInit, WorkerRun, CancelRun, Seen, Answered
    <2> QED
      BY <2>2, <2>4 DEF RunnerIInv
  <1>2. RunnerIInv /\ [RunnerNext]_runnerVars => RunnerIInv'
    BY TypeStep, WorkerRunStep, CancelRunStep, SeenStep, AnsweredStep DEF RunnerIInv
  <1> QED
    BY <1>1, <1>2, PTL DEF RunnerSpec

\* Of the processes that run, only the worker's is not lost, and it is of the
\* generation of the current job.
LEMMA NotLost ==
    ASSUME WorkerRun, RunnerTypeOK, NEW r \in Alive, r \notin Lost
    PROVE  r = cur /\ cur \in Alive /\ proc[r].g = gen /\ gen \in Gens
           /\ wpc \in {"register", "cancel", "observe"}
  <1>1. r \in Pids /\ r = cur /\ wpc # "leave"
    BY DEF Lost, Alive
  <1>2. wpc \notin {"idle", "admit", "start"}
    BY <1>1, RunnerBounds DEF WorkerRun, Pids
  <1> QED
    BY <1>1, <1>2 DEF WorkerRun, RunnerTypeOK

\* cancel_generation answers complete for a generation only when none of its
\* processes runs or will run, unless a failing call made the runner lose it.
THEOREM RunnerCompleteMeansGone == RunnerSpec => []CompleteMeansGone
  <1>1. RunnerIInv => CompleteMeansGone
    BY NotLost DEF RunnerIInv, Answered, CompleteMeansGone
  <1> QED
    BY <1>1, RunnerInvariant, PTL

\* Once cancel_generation has answered, the running process of the generation
\* has been asked to stop, or is about to be, or falls under the two losses the
\* property names: the call raised, or the publication came in the gap.
THEOREM RunnerNoLostCancellation == RunnerSpec => []NoLostCancellation
  <1>1. RunnerIInv => NoLostCancellation
    BY NotLost DEF RunnerIInv, Answered, NoLostCancellation
  <1> QED
    BY <1>1, RunnerInvariant, PTL
=============================================================================
