--------------------------- MODULE VerifierAction ---------------------------
(***************************************************************************)
(* The life of a micro-verifier action across processes: run() records the *)
(* action and executes the provider under the action's OS lock, then       *)
(* records its terminal result; every Forge construction first gives each  *)
(* action it finds without a result a recovered UNKNOWN, unless the lock   *)
(* is held.  Processes may die at any step; the OS releases their locks.   *)
(***************************************************************************)
EXTENDS Naturals, Sequences

CONSTANTS Procs,       \* Forge processes
          Actions,     \* verifier action identities (timestamped digests)
          MaxCrashes   \* bound: process deaths in a run

ASSUME VerifierBounds == MaxCrashes \in Nat

VARIABLES log,      \* the verifier records of the store, in commit order
          lock,     \* action-locks: who holds the lock of each action
          pc,
          act,      \* the action a process runs or recovers
          todo,     \* actions recovery saw without a result when it read
          gen,      \* the generation the running commit expects
          outcome,  \* the result the process is about to commit
          crashes

locals == <<act, todo, gen, outcome>>
vars == <<log, lock, pc, locals, crashes>>

Statuses == {"PASS", "FAIL", "UNKNOWN"}
Outcomes == [status : Statuses, session : BOOLEAN]
Entry == [kind : {"action", "binding"}, act : Actions]
         \cup [kind : {"result"}, act : Actions, status : Statuses, by : {"run", "recovery"}]
Labels == {"down", "recovering", "recover_begin", "recover_put", "ready", "begin", "put_action",
           "execute", "terminal", "put_terminal"}

Recorded(k) == {log[n].act : n \in {m \in 1..Len(log) : log[m].kind = k}}
ResultsOf(a) == {n \in 1..Len(log) : log[n].kind = "result" /\ log[n].act = a}

Init ==
    /\ log = <<>>
    /\ lock = [a \in Actions |-> {}]
    /\ pc = [p \in Procs |-> "down"]
    /\ act = [p \in Procs |-> {}] /\ todo = [p \in Procs |-> {}]
    /\ gen = [p \in Procs |-> 0] /\ outcome = [p \in Procs |-> {}]
    /\ crashes = 0

-----------------------------------------------------------------------------
Goto(p, l) == pc' = [pc EXCEPT ![p] = l]

\* Leave the action's lock scope and forget the action.
Leave(p, l) ==
    /\ Goto(p, l)
    /\ lock' = [a \in Actions |-> lock[a] \ {p}]
    /\ act' = [act EXCEPT ![p] = {}]
    /\ gen' = [gen EXCEPT ![p] = 0]
    /\ outcome' = [outcome EXCEPT ![p] = {}]

\* Bug: stranded actions are not looked for.
Open_NoRecovery(p) ==
    /\ pc[p] = "down"
    /\ Goto(p, "recovering")
    /\ UNCHANGED <<log, lock, locals, crashes>>

\* Forge.__init__: recovery reads the actions and results once, lock-free.
Open(p) ==
    /\ pc[p] = "down"
    /\ Goto(p, "recovering")
    /\ todo' = [todo EXCEPT ![p] = Recorded("action") \ Recorded("result")]
    /\ UNCHANGED <<log, lock, act, gen, outcome, crashes>>

\* Bug: recovery does not respect the lock of a running action.
RecoverNext_IgnoresLock(p) ==
    /\ pc[p] = "recovering"
    /\ \E a \in todo[p] :
         /\ todo' = [todo EXCEPT ![p] = @ \ {a}]
         /\ lock' = [lock EXCEPT ![a] = @ \cup {p}]
         /\ act' = [act EXCEPT ![p] = {a}]
         /\ Goto(p, "recover_begin")
    /\ UNCHANGED <<log, gen, outcome, crashes>>

\* action_execution(action_id, timeout=0) in the recovery loop: a held lock is
\* ACTION_EXECUTION_BUSY and the action is skipped.  The check for an existing
\* result uses the list read by Open, in which this action has none.
RecoverNext(p) ==
    /\ pc[p] = "recovering"
    /\ \E a \in todo[p] :
         /\ todo' = [todo EXCEPT ![p] = @ \ {a}]
         /\ IF lock[a] # {}
              THEN UNCHANGED <<lock, pc, act>>
              ELSE /\ lock' = [lock EXCEPT ![a] = {p}]
                   /\ act' = [act EXCEPT ![p] = {a}]
                   /\ Goto(p, "recover_begin")
    /\ UNCHANGED <<log, gen, outcome, crashes>>

\* The commit of a recovered UNKNOWN; STORE_STALE_GENERATION fails the start.
RecoverPut(p) ==
    /\ pc[p] = "recover_put"
    /\ \E a \in act[p] :
         IF gen[p] # Len(log)
           THEN /\ Leave(p, "down")
                /\ todo' = [todo EXCEPT ![p] = {}]
                /\ UNCHANGED log
           ELSE /\ log' = Append(log, [kind |-> "result", act |-> a,
                                       status |-> "UNKNOWN", by |-> "recovery"])
                /\ Leave(p, "recovering")
                /\ UNCHANGED todo
    /\ UNCHANGED crashes

RecoverDone(p) ==
    /\ pc[p] = "recovering" /\ todo[p] = {}
    /\ Goto(p, "ready")
    /\ UNCHANGED <<log, lock, locals, crashes>>

\* run(): the action identity is new; its lock is taken before it is recorded.
Begin(p) ==
    /\ pc[p] = "ready"
    /\ \E a \in Actions :
         /\ a \notin Recorded("action") /\ \A q \in Procs : a \notin act[q]
         /\ lock[a] = {}
         /\ lock' = [lock EXCEPT ![a] = {p}]
         /\ act' = [act EXCEPT ![p] = {a}]
    /\ Goto(p, "begin")
    /\ UNCHANGED <<log, todo, gen, outcome, crashes>>

\* Every commit reads the expected generation itself and then puts.
ReadGeneration(p) ==
    /\ \/ pc[p] = "recover_begin" /\ Goto(p, "recover_put")
       \/ pc[p] = "begin" /\ Goto(p, "put_action")
       \/ pc[p] = "terminal" /\ Goto(p, "put_terminal")
    /\ gen' = [gen EXCEPT ![p] = Len(log)]
    /\ UNCHANGED <<log, lock, act, todo, outcome, crashes>>

PutAction(p) ==
    /\ pc[p] = "put_action"
    /\ \E a \in act[p] :
         IF gen[p] # Len(log)
           THEN Leave(p, "ready") /\ UNCHANGED log
           ELSE /\ log' = Append(log, [kind |-> "action", act |-> a])
                /\ Goto(p, "execute")
                /\ UNCHANGED <<lock, act, gen, outcome>>
    /\ UNCHANGED <<todo, crashes>>

\* _execute: any status with an execution session, or an exception that becomes
\* a terminal UNKNOWN, with a session or without.
Execute(p) ==
    /\ pc[p] = "execute"
    /\ \E o \in Outcomes : /\ ~o.session => o.status = "UNKNOWN"
                           /\ outcome' = [outcome EXCEPT ![p] = {o}]
    /\ Goto(p, "terminal")
    /\ UNCHANGED <<log, lock, act, todo, gen, crashes>>

\* Bug: the binding is committed on its own and the result may be refused.
PutTerminal_BindingAlone(p) ==
    /\ pc[p] = "put_terminal"
    /\ \E a \in act[p], o \in outcome[p] :
         IF gen[p] # Len(log) \/ ~o.session
           THEN UNCHANGED log
           ELSE log' = Append(log, [kind |-> "binding", act |-> a])
    /\ Leave(p, "ready")
    /\ UNCHANGED <<todo, crashes>>

\* The terminal commit: one generation for the receipt binding and the result,
\* or the result alone.  RECEIPT_DUPLICATE and STORE_STALE_GENERATION leave the
\* action without a result until the next Open.
PutTerminal(p) ==
    /\ pc[p] = "put_terminal"
    /\ \E a \in act[p], o \in outcome[p] :
         LET result == [kind |-> "result", act |-> a, status |-> o.status, by |-> "run"]
             binding == [kind |-> "binding", act |-> a]
         IN IF gen[p] # Len(log) \/ (o.session /\ a \in Recorded("binding"))
              THEN UNCHANGED log
              ELSE log' = log \o (IF o.session THEN <<binding, result>> ELSE <<result>>)
    /\ Leave(p, "ready")
    /\ UNCHANGED <<todo, crashes>>

\* The command or server ends.
Close(p) ==
    /\ pc[p] = "ready"
    /\ Goto(p, "down")
    /\ UNCHANGED <<log, lock, locals, crashes>>

Crash(p) ==
    /\ pc[p] # "down" /\ crashes < MaxCrashes
    /\ crashes' = crashes + 1
    /\ Leave(p, "down")
    /\ todo' = [todo EXCEPT ![p] = {}]
    /\ UNCHANGED log

Step(p) == \/ RecoverNext(p) \/ RecoverPut(p) \/ RecoverDone(p) \/ ReadGeneration(p)
           \/ PutAction(p) \/ Execute(p) \/ PutTerminal(p)

Next == \E p \in Procs : Open(p) \/ Step(p) \/ Begin(p) \/ Close(p) \/ Crash(p)

Spec == Init /\ [][Next]_vars

\* A started operation goes on (providers run under a timeout), processes end,
\* and Forge is started again.
FairSpec == Spec /\ \A p \in Procs : WF_vars(Step(p)) /\ WF_vars(Close(p)) /\ WF_vars(Open(p))

-----------------------------------------------------------------------------
\* Every variable has its type; a terminal result is PASS, FAIL or UNKNOWN
\* however the provider ended.
TypeOK ==
    /\ log \in Seq(Entry)
    /\ lock \in [Actions -> SUBSET Procs]
    /\ pc \in [Procs -> Labels]
    /\ act \in [Procs -> SUBSET Actions]
    /\ todo \in [Procs -> SUBSET Actions]
    /\ gen \in [Procs -> Nat]
    /\ outcome \in [Procs -> SUBSET Outcomes]
    /\ crashes \in 0..MaxCrashes

\* Recovery never closes an action whose executor is still alive: while a
\* process is between recording an action and committing its result, no
\* recovered UNKNOWN of that action is in the store.
RecoveryRespectsExecutor ==
    \A p \in Procs : pc[p] \in {"execute", "terminal", "put_terminal"} =>
        \A a \in act[p] : \A n \in ResultsOf(a) : log[n].by # "recovery"

\* A result of run() is never contradicted by a second run of the same action
\* and always follows its action; a receipt binding is never without its result.
RunResultsOrdered ==
    /\ \A n \in 1..Len(log) : log[n].kind = "result" =>
         \E m \in 1..n - 1 : log[m].kind = "action" /\ log[m].act = log[n].act
    /\ \A a \in Actions : \A m, n \in ResultsOf(a) :
         log[m].by = "run" /\ log[n].by = "run" => m = n
    /\ Recorded("binding") \subseteq Recorded("result")

\* Every recorded action eventually has a terminal result, although its
\* process may have died or lost the race for the store's generation.
EveryActionTerminates ==
    \A a \in Actions : a \in Recorded("action") ~> a \in Recorded("result")
=============================================================================
