--------------------------- MODULE ResourceEnvelope ---------------------------
(***************************************************************************)
(* Bounded execution in the shared cgroup slice: every Forge process runs  *)
(* run_bounded(), which takes the host-wide file lock without waiting, asks *)
(* the native admission, stages the private environment file, launches a   *)
(* transient systemd unit and, when the launcher has ended or the owner    *)
(* gives up, cleans the unit up and classifies the outcome.  The user      *)
(* manager serves a launch request when it gets to it, possibly after the  *)
(* owner has died or has given up.                                         *)
(***************************************************************************)
EXTENDS ResourcePolicy, FiniteSets

CONSTANTS Procs,        \* Forge processes of one host
          MaxRuns,      \* bound: units launched in a behaviour
          MaxCrashes,   \* bound: process deaths
          HostMemory,   \* host capacities the constructor may observe
          FreeMemory,   \* values the available memory takes
          Events,       \* limit events a command may cause (cgroup counters)
          Settings      \* the [resource_envelope] tables of the configuration

ASSUME EnvelopeBounds == MaxRuns \in Nat /\ MaxCrashes \in Nat

\* Memory is counted; a setting is absent or a raw value.
ASSUME EnvelopeInputs ==
    /\ HostMemory \subseteq Nat
    /\ Settings \subseteq [PolicyFields -> SUBSET [num : BOOLEAN, v : Int]]

Runs == 1..MaxRuns

VARIABLES budget,     \* optional budget of the envelope, the same for all
          available,  \* per process: the slice was configured and verified
          free,       \* memory available on the host now
          lock,       \* holder of mncs-forge-verification.lock
          pc,
          seen,       \* memory a process read before trying the lock
          run,        \* the run a process owns, 0 for none
          cause,      \* how the launcher ended: wrapper status or failure
          unit,       \* per run: the transient unit as systemd knows it
          envfile,    \* runs whose environment file exists
          sampled,    \* per run: event counters the owner has sampled
          verdict,    \* per process: what run_bounded last gave its caller
          late,       \* runs left by their owner with a launch still to be served
          crashes

vars == <<budget, available, free, lock, pc, seen, run, cause, unit, envfile, sampled, verdict,
          late, crashes>>

\* A unit that was never asked for.  helper: resource_process.py has not yet
\* replaced itself by the command.
NoUnit == [st |-> "none", helper |-> TRUE, exit |-> {}, result |-> "Unknown", events |-> {}]
UnitStates == {"none", "prepared", "requested", "active", "gone"}
NoCause == [failure |-> "none", wrapper |-> {}]
Code(c) == [code |-> c, rc |-> {}, run |-> 0]

ActiveUnits == {r \in Runs : unit[r].st = "active"}
Commands == {r \in ActiveUnits : ~unit[r].helper}
NextRun == {r \in Runs : unit[r].st = "none" /\ \A s \in 1..(r - 1) : unit[s].st # "none"}

Init ==
    \E total \in HostMemory, s \in Settings, ok \in BOOLEAN :
        LET d == Native_resource_budget_select([host |-> {total}, cgroup |-> {}], s, ok) IN
        /\ budget = {b \in d : b.status = "Selected" /\ resource_budget_identity(b, TRUE) # {}}
        \* A rejected policy or a failed native call raises: no process starts.
        /\ pc = [p \in Procs |-> IF d = {} \/ \E b \in d : b.status = "InvalidPolicy"
                                 THEN "refused" ELSE "down"]
        /\ available = [p \in Procs |-> FALSE]
        /\ free \in FreeMemory
        /\ lock = {} /\ seen = [p \in Procs |-> 0] /\ run = [p \in Procs |-> 0]
        /\ cause = [p \in Procs |-> NoCause]
        /\ unit = [r \in Runs |-> NoUnit] /\ envfile = {} /\ sampled = [r \in Runs |-> {}]
        /\ verdict = [p \in Procs |-> Code("none")] /\ late = {} /\ crashes = 0

-----------------------------------------------------------------------------
Goto(p, l) == pc' = [pc EXCEPT ![p] = l]
hostVars == <<budget, available, free, crashes>>
runVars == <<run, cause, unit, envfile, sampled, late>>

\* SystemdCgroupEnvelope.__init__ and _prepare: with a budget the slice is
\* configured and verified, or a limitation is recorded.
Construct(p) ==
    /\ pc[p] = "down"
    /\ Goto(p, "ready")
    /\ \E ok \in BOOLEAN : available' = [available EXCEPT ![p] = ok /\ budget # {}]
    /\ UNCHANGED <<budget, free, crashes, lock, seen, verdict, runVars>>

\* The memory available on the host changes.
MemoryChanges ==
    /\ \E m \in FreeMemory \ {free} : free' = m
    /\ UNCHANGED <<budget, available, crashes, lock, pc, seen, verdict, runVars>>

\* _admission: the facts given to the native decision.
Admit(p, mem, tasks, slot) ==
    LET b == OrElse(budget, EmptyBudget("Unavailable")) IN
    resource_admission([contained |-> available[p], budget |-> budget # {}, host |-> {mem},
                        cgroup |-> {}, tasks |-> tasks, slot |-> slot, runtime |-> b.runtime + 1],
                       [required |-> TRUE, max |-> b.max, concurrency |-> b.concurrency,
                        runtime |-> b.runtime])

\* _raise_admission: the code the caller gets.
AdmissionCode(d) ==
    CASE d.reason = "LowHostHeadroom" -> "RESOURCE_PRESSURE"
      [] d.reason \in {"ActiveProcessTree", "ExecutionSlotOccupied"} -> "RESOURCE_CONCURRENCY_LIMIT"
      [] d.reason = "InvalidRuntime" \/ d.status = "InvalidInput" -> "RESOURCE_ADMISSION_INVALID"
      [] OTHER -> "RESOURCE_ENVELOPE_UNAVAILABLE"

\* run_bounded is called; execution_lock reads the memory before the lock.
\* Without an available slice the admission raises at once.
Begin(p) ==
    /\ pc[p] = "ready" /\ NextRun # {}
    /\ IF available[p]
       THEN /\ Goto(p, "locking")
            /\ seen' = [seen EXCEPT ![p] = free]
            /\ verdict' = [verdict EXCEPT ![p] = Code("none")]
       ELSE /\ verdict' = [verdict EXCEPT ![p] = Code(AdmissionCode(Admit(p, free, {}, TRUE)))]
            /\ UNCHANGED <<pc, seen>>
    /\ UNCHANGED <<hostVars, lock, runVars>>

\* _slice_value("pids.current"): the tasks in the slice, 0 when it is loaded
\* and inactive, unknown when neither can be read.
SliceTasks == {{Cardinality(ActiveUnits)}, {}}

\* execution_lock: the lock is free and the admission looks at the slice; a
\* refusal leaves the lock again.  An occupied lock is refused as a slot.
TakeLock(p) ==
    /\ pc[p] = "locking"
    /\ IF lock = {}
       THEN \E tasks \in SliceTasks :
              LET d == Admit(p, seen[p], tasks, TRUE) IN
              IF d.status = "Admit"
              THEN Goto(p, "prepare") /\ lock' = {p} /\ UNCHANGED verdict
              ELSE /\ Goto(p, "ready") /\ UNCHANGED lock
                   /\ verdict' = [verdict EXCEPT ![p] = Code(AdmissionCode(d))]
       ELSE /\ Goto(p, "ready") /\ UNCHANGED lock
            /\ verdict' = [verdict EXCEPT ![p] = Code(AdmissionCode(Admit(p, seen[p], {}, FALSE)))]
    /\ seen' = [seen EXCEPT ![p] = 0]
    /\ UNCHANGED <<hostVars, runVars>>

Raise(p, c) ==
    /\ Goto(p, "ready") /\ lock' = lock \ {p}
    /\ verdict' = [verdict EXCEPT ![p] = Code(c)]

\* prepare_execution: memory is asked for again (the slice is not), then the
\* environment file is staged; a failed staging removes it.
Prepare(p) ==
    /\ pc[p] = "prepare"
    /\ LET d == Admit(p, free, {0}, TRUE) IN
       IF d.status # "Admit"
       THEN Raise(p, AdmissionCode(d)) /\ UNCHANGED <<run, unit, envfile>>
       ELSE \/ Raise(p, "RESOURCE_ENVIRONMENT") /\ UNCHANGED <<run, unit, envfile>>
            \/ \E r \in NextRun :
                 /\ Goto(p, "launch") /\ UNCHANGED <<lock, verdict>>
                 /\ run' = [run EXCEPT ![p] = r]
                 /\ envfile' = envfile \cup {r}
                 /\ unit' = [unit EXCEPT ![r].st = "prepared"]
    /\ UNCHANGED <<hostVars, seen, cause, sampled, late>>

\* _run_bounded_process starts the launcher, or cannot (COMMAND_START).
Launch(p) ==
    /\ pc[p] = "launch"
    /\ \/ /\ Goto(p, "running") /\ UNCHANGED cause
          /\ unit' = [unit EXCEPT ![run[p]].st = "requested"]
       \/ /\ Goto(p, "finish")
          /\ cause' = [cause EXCEPT ![p].failure = "COMMAND_START"]
          /\ unit' = [unit EXCEPT ![run[p]].st = "gone"]
    /\ UNCHANGED <<hostVars, lock, seen, run, envfile, sampled, verdict, late>>

\* The user manager serves the launch request.
UnitStarts(r) ==
    /\ unit[r].st = "requested"
    /\ unit' = [unit EXCEPT ![r].st = "active"]
    /\ UNCHANGED <<hostVars, lock, pc, seen, run, cause, envfile, sampled, verdict, late>>

\* A unit whose main process has ended, and one that has met a limit.
Ended(u, exit, result) ==
    [st |-> "gone", helper |-> u.helper, exit |-> exit, result |-> result, events |-> u.events]
LimitMet(u, e) ==
    LET oom == e = "oom_kill" IN
    [st |-> IF oom THEN "gone" ELSE u.st, helper |-> u.helper, exit |-> u.exit,
     result |-> IF oom THEN "OomKill" ELSE u.result, events |-> u.events \cup {e}]

\* resource_process.main: read and remove the environment file, then become
\* the command (execvpe does not return).
HelperExecs(r) ==
    /\ unit[r].st = "active" /\ unit[r].helper /\ r \in envfile
    /\ envfile' = envfile \ {r}
    /\ unit' = [unit EXCEPT ![r].helper = FALSE]
    /\ UNCHANGED <<hostVars, lock, pc, seen, run, cause, sampled, verdict, late>>

\* How the helper itself can end: 126 when the file is missing, cannot be
\* opened, read or removed (it is left), is no valid environment, or the cgroup
\* membership cannot be bound; 127 when the command cannot be executed; 1 by an
\* exception main does not catch.  But for the first three the file is gone.
HelperStatus == {1, 126, 127}
HelperFails(r) ==
    /\ unit[r].st = "active" /\ unit[r].helper
    /\ \E status \in HelperStatus :
         /\ \/ status = 126 /\ UNCHANGED envfile
            \/ r \in envfile /\ envfile' = envfile \ {r}
         /\ unit' = [unit EXCEPT ![r] = Ended(@, {status}, "ExitCode")]
    /\ UNCHANGED <<hostVars, lock, pc, seen, run, cause, sampled, verdict, late>>

\* The command hits a limit of its unit, ends, or systemd ends it when
\* RuntimeMaxSec has passed.
CommandEvent(r) ==
    /\ r \in Commands
    /\ \E e \in Events \ unit[r].events : unit' = [unit EXCEPT ![r] = LimitMet(@, e)]
    /\ UNCHANGED <<hostVars, lock, pc, seen, run, cause, envfile, sampled, verdict, late>>

CommandEnds(r) ==
    /\ r \in Commands
    /\ \/ unit' = [unit EXCEPT ![r] = Ended(@, {0}, "Success")]
       \/ unit' = [unit EXCEPT ![r] = Ended(@, {1}, "ExitCode")]
       \/ unit' = [unit EXCEPT ![r] = Ended(@, {}, "Timeout")]
    /\ UNCHANGED <<hostVars, lock, pc, seen, run, cause, envfile, sampled, verdict, late>>

\* observe_execution: the counters of the live cgroup are merged as maxima.
Sample(p) ==
    /\ pc[p] = "running" /\ run[p] \in ActiveUnits
    /\ sampled' = [sampled EXCEPT ![run[p]] = @ \cup unit[run[p]].events]
    /\ UNCHANGED <<hostVars, lock, pc, seen, run, cause, unit, envfile, verdict, late>>

\* systemd-run --wait ends with the command's status, or by itself with 1
\* when the manager could not start the unit.
LauncherEnds(p) ==
    /\ pc[p] = "running"
    /\ Goto(p, "finish")
    /\ \/ /\ unit[run[p]].st = "gone"
          /\ cause' = [cause EXCEPT ![p].wrapper = {OrElse(unit[run[p]].exit, 1)}]
          /\ UNCHANGED unit
       \/ /\ unit[run[p]].st = "requested"
          /\ cause' = [cause EXCEPT ![p].wrapper = {1}]
          /\ unit' = [unit EXCEPT ![run[p]].st = "gone"]
    /\ UNCHANGED <<hostVars, lock, seen, run, envfile, sampled, verdict, late>>

\* The owner gives up: deadline, output cap, or an exception of its own that
\* is raised again after the cleanup.  The launcher is terminated; a request
\* it has sent may still be served.
OwnerGivesUp(p) ==
    /\ pc[p] = "running"
    /\ Goto(p, "finish")
    /\ \E f \in {"TIMEOUT", "OUTPUT_LIMIT", "interrupted"} :
         cause' = [cause EXCEPT ![p].failure = f]
    /\ \/ UNCHANGED unit
       \/ unit[run[p]].st = "requested" /\ unit' = [unit EXCEPT ![run[p]].st = "gone"]
    /\ UNCHANGED <<hostVars, lock, seen, run, envfile, sampled, verdict, late>>

-----------------------------------------------------------------------------
\* _unit_properties: exit status and result, when systemctl show answers.
Properties(r, read) == IF read THEN [exit |-> unit[r].exit, result |-> unit[r].result]
                       ELSE [exit |-> {}, result |-> "unknown"]

\* _cgroup_values: the event counters, while the unit has a cgroup.
CgroupEvents(r, read) == IF read /\ unit[r].st = "active" THEN unit[r].events ELSE {}

\* What finish_execution tells the kernel.
Observed(p, read, clean) ==
    LET r == run[p] IN
    [exit |-> Properties(r, read).exit, wrapper |-> cause[p].wrapper,
     systemd |-> Properties(r, read).result,
     timed_out |-> cause[p].failure = "TIMEOUT", output_limited |-> cause[p].failure = "OUTPUT_LIMIT",
     events |-> sampled[r] \cup CgroupEvents(r, read),
     cleanup |-> {clean}, cancelled |-> FALSE, superseded |-> FALSE, counted |-> TRUE]

\* run_bounded after finish_execution: what the caller gets.
Reported(p, out) ==
    LET f == cause[p].failure IN
    IF f # "none" THEN Code(f)
    ELSE IF out = {} THEN Code("NATIVE_RESOURCE_UNKNOWN")
    ELSE LET o == OrElse(out, {}) IN
         IF o.outcome.exhausted THEN Code("RESOURCE_LIMIT")
         ELSE IF o.exit = {} THEN Code("RESOURCE_EXECUTION_UNKNOWN")
         ELSE [code |-> "ok", rc |-> o.exit, run |-> run[p]]

\* Bug: the execution lock is not released.
Finish_KeepsLock(p) ==
    /\ pc[p] = "finish"
    /\ Goto(p, "ready") /\ UNCHANGED lock
    /\ verdict' = [verdict EXCEPT ![p] = Code("RESOURCE_LIMIT")]
    /\ unit' = IF unit[run[p]].st = "active" THEN [unit EXCEPT ![run[p]].st = "gone"] ELSE unit
    /\ envfile' = envfile \ {run[p]} /\ UNCHANGED late
    /\ run' = [run EXCEPT ![p] = 0] /\ cause' = [cause EXCEPT ![p] = NoCause]
    /\ UNCHANGED <<hostVars, seen, sampled>>

\* reset-failed: systemd forgets the unit (its exit status is kept here for
\* the properties).
Collected(u) == [st |-> "gone", helper |-> u.helper, exit |-> u.exit, result |-> "Unknown", events |-> {}]

\* _cleanup_unit: kill and stop, which may fail and leave an active tree.
CleanupUnit(r, stopped) ==
    unit' = IF unit[r].st = "gone" \/ (stopped /\ unit[r].st = "active")
            THEN [unit EXCEPT ![r] = Collected(@)] ELSE unit
TreeGone(r, stopped) == stopped \/ unit[r].st # "active"

\* finish_execution: read the unit, clean it up, remove the environment file
\* (which may fail), classify; then run_bounded leaves the lock.  A complete
\* cleanup is one of tree and file; that it is complete may not be confirmed.
Finish(p) ==
    LET r == run[p] IN
    /\ pc[p] = "finish"
    /\ \E read, stopped, clean, returned \in BOOLEAN, files \in {envfile, envfile \ {r}} :
         /\ clean => TreeGone(r, stopped) /\ r \notin files
         /\ CleanupUnit(r, stopped)
         /\ envfile' = files
         /\ late' = IF r \in files /\ unit[r].st = "requested" THEN late \cup {r} ELSE late
         /\ verdict' = [verdict EXCEPT ![p] =
                Reported(p, Native_resource_outcome(
                                Observed(p, read, clean), returned))]
    /\ Goto(p, "ready") /\ lock' = lock \ {p}
    /\ sampled' = [sampled EXCEPT ![r] = {}]
    /\ run' = [run EXCEPT ![p] = 0] /\ cause' = [cause EXCEPT ![p] = NoCause]
    /\ UNCHANGED <<hostVars, seen>>

\* The process dies: the file lock is released by the OS; the launcher, in a
\* session of its own, lives on.
Crash(p) ==
    /\ pc[p] \notin {"down", "refused", "ready"} /\ crashes < MaxCrashes
    /\ crashes' = crashes + 1
    /\ Goto(p, "down") /\ lock' = lock \ {p}
    /\ late' = IF run[p] \in envfile /\ unit[run[p]].st = "requested"
               THEN late \cup {run[p]} ELSE late
    /\ unit' = IF pc[p] = "launch" THEN [unit EXCEPT ![run[p]].st = "gone"] ELSE unit
    /\ run' = [run EXCEPT ![p] = 0] /\ cause' = [cause EXCEPT ![p] = NoCause]
    /\ seen' = [seen EXCEPT ![p] = 0]
    /\ sampled' = [r \in Runs |-> IF r = run[p] THEN {} ELSE sampled[r]]
    /\ UNCHANGED <<budget, available, free, envfile, verdict>>

\* No further unit can be launched and everything has come to rest.
Rest ==
    /\ \A p \in Procs : pc[p] = "refused" \/ (pc[p] = "ready" /\ (NextRun = {} \/ ~available[p]))
    /\ UNCHANGED vars

Step(p) == TakeLock(p) \/ Prepare(p) \/ Launch(p) \/ LauncherEnds(p) \/ Finish(p)
Manager(r) == UnitStarts(r) \/ HelperExecs(r) \/ HelperFails(r) \/ CommandEnds(r)

Next ==
    \/ \E p \in Procs : Construct(p) \/ Begin(p) \/ Step(p) \/ Sample(p) \/ OwnerGivesUp(p) \/ Crash(p)
    \/ \E r \in Runs : Manager(r) \/ CommandEvent(r)
    \/ MemoryChanges \/ Rest

\* A process inside run_bounded goes on (its waits are bounded by the
\* deadline); the user manager serves requests and enforces RuntimeMaxSec.
Spec == /\ Init /\ [][Next]_vars
        /\ \A p \in Procs : WF_vars(Step(p) \/ OwnerGivesUp(p))
        /\ \A r \in Runs : WF_vars(Manager(r))

-----------------------------------------------------------------------------
\* Every variable has its type; the selected budget is one of the policy's.
TypeOK ==
    /\ \A b \in budget : b.status = "Selected" /\ b.high < b.max /\ b.max <= b.capacity
    /\ available \in [Procs -> BOOLEAN] /\ free \in FreeMemory /\ lock \subseteq Procs
    /\ pc \in [Procs -> {"refused", "down", "ready", "locking", "prepare", "launch", "running",
                         "finish"}]
    /\ run \in [Procs -> 0..MaxRuns] /\ envfile \subseteq Runs /\ late \subseteq Runs
    /\ \A r \in Runs : unit[r].st \in UnitStates /\ sampled[r] \subseteq unit[r].events
    /\ \A p \in Procs : verdict[p].rc \subseteq {0, 1} \cup HelperStatus

\* Two verification commands never run at the same time, whatever dies or
\* times out (resource_envelope.py, execution_lock): except for a launch that
\* was still to be served when its owner left without removing its
\* environment file.
OneCommand == \A r, s \in Commands : r = s \/ r \in late \/ s \in late

\* A returned status is the one the unit of this very call ended with
\* (execution.py, run_bounded), never the launcher's own 1 for a unit that did
\* not start or was killed, and the unit's tree and environment file are gone.
\* A unit that ended before its command ran never returns 0: a caller that
\* reads success knows that the command ran and succeeded.  A status 1, 126 or
\* 127 may be the helper's (resource_process.py), which the caller cannot tell.
ResultIsUnits ==
    \A p \in Procs : verdict[p].code = "ok" =>
        LET r == verdict[p].run IN
        /\ unit[r].st = "gone" /\ verdict[p].rc = unit[r].exit /\ verdict[p].rc # {}
        /\ r \notin envfile
        /\ unit[r].helper => verdict[p].rc # {0}

\* The host-wide slot always becomes free again: no lock holder, no tree.
SlotFreed == []<>(lock = {} /\ ActiveUnits = {})
=============================================================================
