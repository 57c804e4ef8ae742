----------------------------- MODULE ProcessRunner -----------------------------
(***************************************************************************)
(* LocalProcessRunner over the native process effect: the worker thread    *)
(* launches and observes one process per run, bound to the generation of   *)
(* its job; the supervisor's event thread cancels a generation.  The two   *)
(* meet in the registry kept under _owned_lock.  The native process        *)
(* service is external: a handle is Running until it exits, exceeds its    *)
(* deadline or is cancelled, and a call to it may fail.                    *)
(***************************************************************************)
EXTENDS Naturals, Sequences

CONSTANTS MaxGen,        \* bound: generations of work
          MaxPids,       \* bound: processes started
          MaxFailures,   \* bound: failing calls to the process service
          Limits,        \* limits of the service a process may exceed
          MaxCancelled   \* _cancelled_generations keeps this many (64)

ASSUME RunnerBounds == MaxGen \in Nat /\ MaxPids \in Nat /\ MaxFailures \in Nat
                       /\ MaxCancelled \in Nat \ {0}
                       /\ Limits \subseteq {"TimedOut", "ResourceExhausted", "OutputExhausted"}

Gens == 1..MaxGen
Pids == 1..MaxPids

VARIABLES gen,        \* generation of the job context, 0 for none
          cancelled,  \* _cancelled_generations, oldest first
          launching, waiters,
          owned,      \* per generation: the registered run, 0 for none
          proc,       \* per run: the process as the service knows it
          wpc, cur,   \* worker thread: label and its run
          cpc, target, held,  \* event thread: label, generation, run found
          result,     \* what the last run gave the worker's caller
          report,     \* per generation: last answer of cancel_generation
          missed,     \* history: generations published after the cancelling
                      \* thread had looked and before it stopped waiting
          failures

worker == <<wpc, cur, result>>
canceller == <<cpc, target, held, report>>
registry == <<cancelled, launching, waiters, owned>>
runnerVars == <<gen, registry, proc, worker, canceller, missed, failures>>

Process(g, st, asked, clean) == [g |-> g, st |-> st, asked |-> asked, clean |-> clean]
NoProc == Process(0, "none", FALSE, FALSE)
ProcStates == {"none", "Running", "Exited", "Cancelled", "gone"} \cup Limits
Alive == {r \in Pids : proc[r].st = "Running"}
Fresh == {r \in Pids : proc[r].st = "none" /\ \A s \in 1..(r - 1) : proc[s].st # "none"}

RunnerInit ==
    /\ gen = 0 /\ cancelled = <<>> /\ launching = {} /\ waiters = {}
    /\ owned = [g \in Gens |-> 0] /\ proc = [r \in Pids |-> NoProc]
    /\ wpc = "idle" /\ cur = 0 /\ result = "none"
    /\ cpc = "idle" /\ target = 0 /\ held = 0 /\ report = [g \in Gens |-> "none"]
    /\ missed = {} /\ failures = 0

WorkerGoto(l) == wpc' = l

\* An ended process no thread holds a handle of: how it ended no longer matters.
Forget(ps, r, holders) ==
    IF r = 0 \/ r \in holders \/ ps[r].st = "Running" THEN ps
    ELSE [ps EXCEPT ![r] = Process(ps[r].g, "gone", FALSE, FALSE)]
CancelledNow(g) == \E i \in 1..Len(cancelled) : cancelled[i] = g

-----------------------------------------------------------------------------
(* The worker: LocalProcessRunner.run and _run_process_effect.             *)

\* set_job_context: a job of a new generation begins.
SetJobContext ==
    /\ wpc = "idle" /\ gen < MaxGen
    /\ gen' = gen + 1
    /\ result' = "none"
    /\ UNCHANGED <<registry, proc, wpc, cur, canceller, missed, failures>>

\* The generation is read under the lock; a cancelled one is refused.
BeginRun ==
    /\ wpc = "idle" /\ gen > 0 /\ Fresh # {}
    /\ IF CancelledNow(gen) THEN result' = "EXECUTION_CANCELLED" /\ UNCHANGED wpc
       ELSE WorkerGoto("admit") /\ result' = "none"
    /\ UNCHANGED <<gen, registry, proc, cur, canceller, missed, failures>>

\* Bug: the generation is not looked up again when it is marked launching.
MarkLaunching_NoCheck ==
    /\ wpc = "admit"
    /\ launching' = launching \cup {gen} /\ WorkerGoto("start")
    /\ UNCHANGED <<gen, cancelled, waiters, owned, proc, cur, result, canceller, missed, failures>>

\* An unavailable envelope is refused; then, under the lock, the generation
\* is looked up again and marked as launching.
MarkLaunching ==
    /\ wpc = "admit"
    /\ \/ result' = "RESOURCE_ENVELOPE_UNAVAILABLE" /\ WorkerGoto("idle") /\ UNCHANGED launching
       \/ IF CancelledNow(gen)
          THEN result' = "EXECUTION_CANCELLED" /\ WorkerGoto("idle") /\ UNCHANGED launching
          ELSE launching' = launching \cup {gen} /\ WorkerGoto("start") /\ UNCHANGED result
    /\ UNCHANGED <<gen, cancelled, waiters, owned, proc, cur, canceller, missed, failures>>

\* client.start: the service issues a handle, or raises.
Start ==
    /\ wpc = "start"
    /\ \/ \E r \in Fresh :
            /\ proc' = [proc EXCEPT ![r] = Process(gen, "Running", FALSE, FALSE)]
            /\ cur' = r /\ WorkerGoto("register") /\ UNCHANGED <<result, failures>>
       \/ /\ failures < MaxFailures /\ failures' = failures + 1
          /\ result' = "PROCESS_START_UNKNOWN" /\ WorkerGoto("leave") /\ UNCHANGED <<proc, cur>>
    /\ UNCHANGED <<gen, registry, canceller, missed>>

\* Bug: a cancellation that came while the process was starting is not seen.
Register_IgnoresCancel ==
    /\ wpc = "register"
    /\ owned' = [owned EXCEPT ![gen] = cur] /\ launching' = launching \ {gen}
    /\ WorkerGoto("observe")
    /\ UNCHANGED <<gen, cancelled, waiters, proc, cur, result, canceller, missed, failures>>

\* Under the lock the handle is published and waiters are notified; a
\* generation cancelled meanwhile is cancelled here when no waiter will.
Register ==
    /\ wpc = "register"
    /\ owned' = [owned EXCEPT ![gen] = cur] /\ launching' = launching \ {gen}
    /\ WorkerGoto(IF CancelledNow(gen) /\ gen \notin waiters THEN "cancel" ELSE "observe")
    /\ missed' = IF cpc = "pending" /\ target = gen THEN missed \cup {gen} ELSE missed
    /\ UNCHANGED <<gen, cancelled, waiters, proc, cur, result, canceller, failures>>

\* The service is asked to cancel: a running process is marked.
Ask(r) ==
    proc' = [proc EXCEPT ![r] = Process(@.g, @.st, @.asked \/ @.st = "Running", @.clean)]

WorkerCancels ==
    /\ wpc = "cancel"
    /\ Ask(cur) /\ WorkerGoto("observe")
    /\ UNCHANGED <<gen, registry, cur, result, canceller, missed, failures>>

Reaped(p, clean) == Process(p.g, p.st, p.asked, clean)

\* observe until the process is no longer Running, reap when its cleanup is
\* not complete yet; the terminal status is mapped to a result or an error.
Terminal(st, clean) ==
    IF st = "Exited" /\ clean THEN "exit"
    ELSE CASE st = "Cancelled" -> "EXECUTION_CANCELLED"
           [] st = "TimedOut" -> "TIMEOUT"
           [] st = "ResourceExhausted" -> "RESOURCE_LIMIT"
           [] st = "OutputExhausted" -> "OUTPUT_LIMIT"
           [] OTHER -> "PROCESS_CLEANUP_UNKNOWN"

\* Bug: only an exit ends the observation.
Observe_WaitsForExit ==
    /\ wpc = "observe" /\ proc[cur].st = "Exited"
    /\ WorkerGoto("leave")
    /\ result' = "exit"
    /\ UNCHANGED <<gen, registry, proc, cur, canceller, missed, failures>>

Observe ==
    /\ wpc = "observe" /\ cur \notin Alive
    /\ WorkerGoto("leave")
    /\ \E reaped \in BOOLEAN :
         /\ proc' = [proc EXCEPT ![cur] = Reaped(@, @.clean \/ reaped)]
         /\ result' = Terminal(proc[cur].st, proc[cur].clean \/ reaped)
    /\ UNCHANGED <<gen, registry, cur, canceller, missed, failures>>

\* A call to the service fails: the run ends with that error.
ObserveFails ==
    /\ wpc \in {"cancel", "observe"} /\ failures < MaxFailures
    /\ failures' = failures + 1
    /\ result' = "PROCESS_EFFECT_UNKNOWN" /\ WorkerGoto("leave")
    /\ UNCHANGED <<gen, registry, proc, cur, canceller, missed>>

\* finally: the registry forgets the generation's process.
Leave ==
    /\ wpc = "leave"
    /\ owned' = [owned EXCEPT ![gen] = 0] /\ launching' = launching \ {gen}
    /\ WorkerGoto("idle") /\ cur' = 0
    /\ proc' = Forget(proc, cur, {held})
    /\ UNCHANGED <<gen, cancelled, waiters, result, canceller, missed, failures>>

-----------------------------------------------------------------------------
(* The event thread: cancel_generation.                                    *)

\* The generation is the youngest of those remembered: move_to_end for one
\* already there, otherwise it is added and the oldest beyond the capacity
\* is dropped.
Remember(g) ==
    LET n == Len(cancelled)
        at == CHOOSE i \in 1..n : cancelled[i] = g
    IN  IF CancelledNow(g)
        THEN [i \in 1..n |-> IF i < at THEN cancelled[i] ELSE IF i < n THEN cancelled[i + 1] ELSE g]
        ELSE LET s == Append(cancelled, g) IN IF Len(s) > MaxCancelled THEN Tail(s) ELSE s

\* _cancel_active_for_event found newer source than the active job's.
CancelBegins ==
    /\ cpc = "idle" /\ gen > 0
    /\ target' = gen
    /\ cancelled' = Remember(gen) /\ waiters' = waiters \cup {gen}
    /\ cpc' = "wait"
    /\ UNCHANGED <<gen, launching, owned, proc, worker, held, report, missed, failures>>

\* wait_for returns: the handle is published or no launch is under way, or
\* five seconds have passed.
CancelLooks ==
    /\ cpc = "wait"
    /\ held' = owned[target]
    /\ cpc' = IF owned[target] # 0 THEN "ask"
              ELSE IF target \in launching THEN "pending" ELSE "absent"
    /\ UNCHANGED <<gen, registry, proc, worker, target, report, missed, failures>>

CancelReturns(answer) ==
    /\ cpc' = "idle" /\ target' = 0 /\ held' = 0
    /\ waiters' = waiters \ {target}
    /\ report' = [report EXCEPT ![target] = answer]

\* No handle: still launching is pending, otherwise nothing is left to cancel.
CancelWithoutHandle ==
    /\ cpc \in {"pending", "absent"}
    /\ CancelReturns(IF cpc = "pending" THEN "pending" ELSE "complete")
    /\ UNCHANGED <<gen, cancelled, launching, owned, proc, worker, missed, failures>>

\* The service is asked to cancel the process; the call may fail.
CancelAsks ==
    /\ cpc = "ask"
    /\ \/ Ask(held) /\ cpc' = "reap" /\ UNCHANGED <<waiters, target, held, report, failures>>
       \/ /\ failures < MaxFailures /\ failures' = failures + 1
          /\ CancelReturns("raised") /\ proc' = Forget(proc, held, {cur})
    /\ UNCHANGED <<gen, cancelled, launching, owned, worker, missed>>

\* Observe until the cleanup is established or five seconds have passed, then
\* reap; complete only for a cancelled process with an established cleanup.
CancelReaps ==
    /\ cpc = "reap"
    /\ \E reaped \in {proc[held].clean, held \notin Alive} :
         /\ proc' = Forget([proc EXCEPT ![held] = Reaped(@, reaped)], held, {cur})
         /\ CancelReturns(IF proc[held].st = "Cancelled" /\ reaped THEN "complete" ELSE "incomplete")
    /\ UNCHANGED <<gen, cancelled, launching, owned, worker, missed, failures>>

\* A process ends: by itself, at a limit, or because it was asked to.
ProcessEnds(r) ==
    /\ r \in Alive
    /\ \E st \in {"Exited"} \cup Limits \cup (IF proc[r].asked THEN {"Cancelled"} ELSE {}) :
         proc' = Forget([proc EXCEPT ![r] = Process(@.g, st, @.asked, @.clean)], r, {cur, held})
    /\ UNCHANGED <<gen, registry, worker, canceller, missed, failures>>

WorkerStep == MarkLaunching \/ Start \/ Register \/ WorkerCancels \/ Observe \/ ObserveFails \/ Leave
CancelStep == CancelLooks \/ CancelWithoutHandle \/ CancelAsks \/ CancelReaps

RunnerNext ==
    \/ SetJobContext \/ BeginRun \/ WorkerStep
    \/ CancelBegins \/ CancelStep
    \/ \E r \in Pids : ProcessEnds(r)

RunnerSpec ==
    /\ RunnerInit /\ [][RunnerNext]_runnerVars
    /\ WF_runnerVars(WorkerStep) /\ WF_runnerVars(CancelStep)
    /\ \A r \in Pids : WF_runnerVars(ProcessEnds(r))

-----------------------------------------------------------------------------
\* Every variable has its type.
RunnerTypeOK ==
    /\ gen \in 0..MaxGen /\ launching \subseteq Gens /\ waiters \subseteq Gens
    /\ cancelled \in Seq(Gens) /\ Len(cancelled) <= MaxCancelled
    /\ owned \in [Gens -> 0..MaxPids]
    /\ proc \in [Pids -> [g : 0..MaxGen, st : ProcStates, asked : BOOLEAN, clean : BOOLEAN]]
    /\ wpc \in {"idle", "admit", "start", "register", "cancel", "observe", "leave"}
    /\ cur \in 0..MaxPids
    /\ cpc \in {"idle", "wait", "pending", "absent", "ask", "reap"}
    /\ target \in 0..MaxGen /\ held \in 0..MaxPids
    /\ report \in [Gens -> {"none", "pending", "complete", "incomplete", "raised"}]
    /\ missed \subseteq Gens
    \* One launch or handle at a time, of the job's generation.
    /\ launching \cup {g \in Gens : owned[g] # 0} \subseteq {gen}

\* A process whose handle the runner gave up after a failing call.
Lost == {r \in Alive : wpc = "leave" \/ cur # r}

\* cancel_generation tells the truth: when it has answered that cancellation
\* is complete, no process of that generation is running or will ever run,
\* except one whose handle a failing call to the service made the runner lose.
CompleteMeansGone ==
    \A r \in Alive : report[proc[r].g] = "complete" => r \in Lost

\* A cancellation is not lost: once cancel_generation has returned for a
\* generation, its running process has been asked to stop or is about to be,
\* unless the call raised, or the process was published in the moment between
\* the cancelling thread's last look and its giving up the wait.
NoLostCancellation ==
    \A r \in Alive \ Lost :
        LET g == proc[r].g IN
        \/ proc[r].asked
        \/ report[g] \in {"none", "raised"} \/ g \in missed
        \/ wpc \in {"register", "cancel"}
        \/ cpc # "idle" /\ target = g

\* Neither thread waits for ever on the other: a launch ends and a
\* cancellation is answered.
BothReturn == (wpc # "idle" ~> wpc = "idle") /\ (cpc # "idle" ~> cpc = "idle")
=============================================================================
