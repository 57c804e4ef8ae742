--------------------------- MODULE ServiceLifecycle ---------------------------
(***************************************************************************)
(* Who starts and stops the processes of a workspace: the supervisor host  *)
(* and the Language Service it watches.  The resident provider (reconcile) *)
(* and the command line (continuous start, stop, status) take the same     *)
(* lifecycle lock; the hosts they launch do not, they share two lease      *)
(* files, the service's socket path and an endpoint address with them.  A  *)
(* call may die or meet its deadline after any step, a process may die at  *)
(* any time, and the number of a dead process is given out again.          *)
(*                                                                         *)
(* A process is named by its birth identity, which stands for the instance *)
(* of a managed host too.  An optional value is a set with at most one     *)
(* element.  A service the Environment selects, and a file of somebody     *)
(* else at the socket path, are left out.                                  *)
(***************************************************************************)
EXTENDS Naturals

CONSTANTS Ids,        \* birth identities; bound: those in use at one time
          Cli,        \* the command line as a caller of ensure_language_service
          Pids,       \* process numbers
          Owners,     \* checkout, configuration file and workspace
          Runtimes,   \* runtime paths and the identities of their artifacts
          Revisions,  \* checkout revision and configuration content
          Selections, \* the identities a caller of the provider may select
          MaxEvents   \* bound: calls that take the lock, processes that die and
                      \* callers that give up

ASSUME LifecycleConstants ==
    /\ MaxEvents \in Nat /\ Cli \notin Ids
    /\ Selections \subseteq [owner : Owners, runtime : Runtimes, revision : Revisions]

VARIABLES proc,      \* the processes
          lease,     \* supervisor.json
          lang,      \* language-service.json
          socket,    \* the service whose socket file is at the path
          endpoint,  \* the host bound to the endpoint address
          durable,   \* status.json: the acknowledged pair and its recovery
          ensure,    \* per caller: where it is in ensure_language_service
          call,      \* the call that holds the lifecycle lock
          stopped,   \* the last call has returned, with "stopped"
          interrupted, \* a continuous start died while it waited for its host
          events     \* bounded: see MaxEvents

files == <<lease, lang, socket, durable>>
vars  == <<proc, files, endpoint, ensure, call, stopped, interrupted, events>>

\* The record r with the fields that changes names.
With(r, changes) == [x \in DOMAIN r |-> IF x \in DOMAIN changes THEN changes[x] ELSE r[x]]

\* stop: SIGTERM was handled; svc: the service a supervisor is attached to.
Absent == [kind |-> "none", pid |-> {}, sel |-> {}, at |-> "none", stop |-> FALSE,
           svc |-> {}]
Idle == [step |-> "idle", child |-> {}, pid |-> {}]
NoCall == [op |-> "none", step |-> "none", sel |-> {}, stop |-> FALSE, ls |-> FALSE,
           incompatible |-> FALSE, stopping |-> FALSE, lease |-> {}, lang |-> {},
           child |-> {}, pid |-> {}]

Init ==
    /\ proc = [i \in Ids |-> Absent]
    /\ lease = {} /\ lang = {} /\ socket = {} /\ durable = "absent"
    /\ endpoint = {}
    /\ ensure = [a \in Ids \cup {Cli} |-> Idle]
    /\ call = NoCall /\ stopped = FALSE /\ interrupted = FALSE
    /\ events = 0

-----------------------------------------------------------------------------
(* Processes and leases.                                                   *)

Alive(i) == proc[i].kind # "none"

\* The live processes that have the number of a lease.
Holding(l) == {i \in Ids : Alive(i) /\ proc[i].pid = l.pid}

\* owns_process: the process with the lease's pid was born when the lease says.
owns_process(l) == \E i \in l.birth : i \in Holding(l)

\* _supervisor_process_matches: by command line only.
matches(l) == \E i \in Holding(l) : proc[i].kind \in {"managed", "detached"}

\* A birth identity is not given out again while anything names it.
Named == (UNION {l.birth : l \in lease \cup lang \cup call.lease \cup call.lang})
         \cup socket \cup call.child \cup (UNION {ensure[a].child : a \in Ids \cup {Cli}})
         \cup (UNION {proc[i].svc : i \in Ids})
Unborn == {i \in Ids : ~Alive(i) /\ i \notin Named}

\* Numbers in use; a parent that waits for its child keeps the child's.
TakenPids == (UNION {proc[j].pid : j \in Ids}) \cup call.pid
             \cup (UNION {ensure[a].pid : a \in Ids \cup {Cli}})

\* Popen: process i starts with a free number; a process of somebody else matters
\* when a lease has its number.
Popen(i, kind, sel, at) ==
    /\ i \in Unborn
    /\ \E p \in IF kind = "other" THEN UNION {l.pid : l \in lease \cup lang} ELSE Pids :
         /\ p \notin TakenPids
         /\ proc' = [proc EXCEPT ![i] = With(Absent, [kind |-> kind, pid |-> {p}, sel |-> sel,
                                                      at |-> at])]

At(i, at) == [proc EXCEPT ![i] = With(@, [at |-> at])]
Gone(i) == [proc EXCEPT ![i] = Absent]

\* SIGTERM: a host that has installed its handler notes it, any other process
\* ends.
Terminated(i) ==
    IF proc[i].kind \in {"managed", "detached"} /\ proc[i].at \notin {"wait", "spawned"}
      THEN [proc EXCEPT ![i] = With(@, [stop |-> TRUE])] ELSE Gone(i)

ManagedLease(i, phase) ==
    [pid |-> proc[i].pid, birth |-> {i}, sel |-> proc[i].sel, phase |-> phase]
DetachedLease(i, phase) ==
    [pid |-> proc[i].pid, birth |-> {}, sel |-> {}, phase |-> phase]

-----------------------------------------------------------------------------
(* ensure_language_service, for a caller that holds the lock (Cli) or for   *)
(* a managed host that does not.                                           *)

\* A probe that is answered: some service serves at the path.
Answering == {l \in socket : proc[l].kind = "language" /\ proc[l].at = "serve"}

\* The bindings a caller insists on; the command line has none.
bindings(a) == IF a = Cli THEN {} ELSE {s.runtime : s \in proc[a].sel}

\* A service that answers another binding is refused, never adopted.
Attached(a) ==
    \/ a = Cli
    \/ \E l \in lang : owns_process(l) /\ l.bind = bindings(a)

EnsureTo(a, step) ==
    ensure' = [ensure EXCEPT ![a] = [step |-> step, child |-> {}, pid |-> {}]]

EnsureProbe(a) ==
    /\ ensure[a].step = "probe"
    /\ IF Answering # {}
         THEN EnsureTo(a, IF Attached(a) THEN "attached" ELSE "refused")
         ELSE EnsureTo(a, "replace")
    /\ UNCHANGED <<proc, files>>

\* The socket file goes, whatever is behind it, and a service is started.
EnsureReplace(a) ==
    /\ ensure[a].step = "replace"
    /\ socket' = {}
    /\ \/ \E i \in Ids :
            /\ Popen(i, "language", IF a = Cli THEN {} ELSE proc[a].sel, "boot")
            /\ ensure' = [ensure EXCEPT ![a] =
                            [step |-> "lease", child |-> {i}, pid |-> proc'[i].pid]]
       \/ EnsureTo(a, "refused") /\ UNCHANGED proc
    /\ UNCHANGED <<lease, lang, durable>>

\* The lease; a service that has ended already has no birth identity to record.
EnsureLease(a) ==
    /\ ensure[a].step = "lease"
    /\ lang' = {[pid |-> ensure[a].pid, bind |-> bindings(a),
                 birth |-> IF a = Cli THEN {} ELSE {i \in ensure[a].child : Alive(i)}]}
    /\ ensure' = [ensure EXCEPT ![a] = With(@, [step |-> "poll"])]
    /\ UNCHANGED <<proc, lease, socket, durable>>

\* Ready when anything answers; or ended or too late: terminated, and lease and
\* socket file removed.
EnsurePoll(a) ==
    /\ ensure[a].step = "poll"
    /\ \/ /\ Answering # {}
          /\ EnsureTo(a, "attached")
          /\ UNCHANGED <<proc, lang, socket>>
       \/ /\ \E i \in ensure[a].child : proc' = Gone(i)
          /\ lang' = {} /\ socket' = {}
          /\ EnsureTo(a, "refused")
    /\ UNCHANGED <<lease, durable>>

Ensure ==
    /\ \E a \in Ids \cup {Cli} :
         EnsureProbe(a) \/ EnsureReplace(a) \/ EnsureLease(a) \/ EnsurePoll(a)
    /\ UNCHANGED <<endpoint, call, stopped, interrupted, events>>

-----------------------------------------------------------------------------
(* The hosts.                                                              *)

HostTo(i, at) == proc' = At(i, at) /\ UNCHANGED <<files, endpoint, ensure>>

\* Bug: a managed host does not wait for the lease of its instance.
Registered_Always(i) == TRUE
\* The lease names this instance.
Registered(i) == \E l \in lease : l.birth = {i}

\* _managed_run waits for its lease and gives up without one.
Register(i) == /\ proc[i].at = "wait" /\ Registered(i)
               /\ HostTo(i, "enter")
GiveUpWaiting(i) == /\ proc[i].at = "wait" /\ ~Registered(i)
                    /\ proc' = Gone(i) /\ UNCHANGED <<files, endpoint, ensure>>

\* ResidentEndpoint: binding fails while another host holds the address.
Bind(i) ==
    /\ proc[i].at = "enter" /\ endpoint = {}
    /\ endpoint' = {i}
    /\ proc' = At(i, "service")
    /\ EnsureTo(i, "probe")
    /\ UNCHANGED files

Serviced(i) ==
    /\ proc[i].at = "service" /\ ensure[i].step = "attached"
    /\ proc' = At(i, IF proc[i].stop THEN "final" ELSE "forge")
    /\ EnsureTo(i, "idle")
    /\ UNCHANGED <<files, endpoint>>

\* A detached host writes its lease before anything else.
Announce(i) ==
    /\ proc[i].at = "spawned"
    /\ lease' = {DetachedLease(i, "starting")}
    /\ proc' = At(i, "forge")
    /\ UNCHANGED <<lang, socket, durable, endpoint, ensure>>

\* Forge and its supervisor exist; the loop starts unless a stop came first.
Run(i) ==
    /\ proc[i].at = "forge"
    /\ proc' = At(i, IF proc[i].stop THEN "final" ELSE "run")
    /\ lease' = IF proc[i].stop THEN lease
                ELSE IF proc[i].kind = "managed" THEN {ManagedLease(i, "running")}
                ELSE {DetachedLease(i, "running")}
    /\ UNCHANGED <<lang, socket, durable, endpoint, ensure>>

\* The supervisor acknowledges the stream of the service that answers ...
Attach(i) ==
    /\ proc[i].at = "run" /\ ~proc[i].stop
    /\ Answering # {} /\ proc[i].svc # Answering
    /\ proc' = [proc EXCEPT ![i] = With(@, [svc |-> Answering])]
    /\ durable' = "current"
    /\ UNCHANGED <<lease, lang, socket, endpoint, ensure>>

\* ... until it is stopped.
Stopped(i) == proc[i].at = "run" /\ proc[i].stop /\ HostTo(i, "final")

\* An exception, changed bindings or a loop that returns by itself: a managed
\* host tells of it in its lease.
Raise(i) ==
    /\ \/ proc[i].at \in {"enter", "forge", "run"}
       \/ proc[i].at = "service" /\ ensure[i].step = "refused"
    /\ proc' = At(i, "final")
    /\ lease' = IF proc[i].kind = "managed" THEN {ManagedLease(i, "failed")} ELSE lease
    /\ durable' \in {durable} \cup (IF proc[i].at = "run" THEN {"current", "required"} ELSE {})
    /\ EnsureTo(i, "idle")
    /\ UNCHANGED <<lang, socket, endpoint>>

\* finally: the endpoint closes; the lease is read and, if it is the host's own
\* and does not tell of a failure, removed.
Final(i) ==
    /\ proc[i].at = "final"
    /\ endpoint' = endpoint \ {i}
    /\ proc' = IF \E l \in lease : /\ l.phase # "failed"
                                   /\ IF proc[i].kind = "managed" THEN l.birth = {i}
                                      ELSE l.pid = proc[i].pid
                 THEN At(i, "unlink") ELSE Gone(i)
    /\ UNCHANGED <<files, ensure>>

Unlink(i) ==
    /\ proc[i].at = "unlink"
    /\ lease' = {} /\ proc' = Gone(i)
    /\ UNCHANGED <<lang, socket, durable, endpoint, ensure>>

Host(i) ==
    /\ \/ Register(i) \/ GiveUpWaiting(i) \/ Bind(i) \/ Serviced(i) \/ Announce(i) \/ Run(i)
       \/ Attach(i) \/ Stopped(i) \/ Raise(i) \/ Final(i) \/ Unlink(i)
    /\ UNCHANGED <<call, stopped, interrupted, events>>

\* The service (external): it binds a free path and ends at an occupied one.
Serve(i) ==
    /\ proc[i].at = "boot"
    /\ IF socket = {} THEN socket' = {i} /\ proc' = At(i, "serve")
       ELSE proc' = Gone(i) /\ UNCHANGED socket
    /\ UNCHANGED <<lease, lang, durable, endpoint, ensure>>

\* A process of somebody else stays.
Die(i) ==
    /\ proc[i].kind \notin {"none", "other"} /\ events < MaxEvents
    /\ events' = events + 1
    /\ proc' = Gone(i)
    /\ endpoint' = endpoint \ {i}
    /\ EnsureTo(i, "idle")
    /\ UNCHANGED files

\* A process that is not Forge's is given a number.
Stranger ==
    /\ \E i \in Ids : Popen(i, "other", {}, "other")
    /\ UNCHANGED <<files, endpoint, ensure>>

\* The semantic owner reconciles the acknowledged pair.
Recover ==
    /\ durable = "required"
    /\ durable' = "current"
    /\ UNCHANGED <<proc, lease, lang, socket, endpoint, ensure>>

Environment ==
    /\ \/ /\ Stranger \/ Recover \/ \E i \in Ids : Serve(i)
          /\ UNCHANGED events
       \/ \E i \in Ids : Die(i)
    /\ UNCHANGED <<call, stopped, interrupted>>

-----------------------------------------------------------------------------
(* What a caller observes.                                                 *)

\* The kernel's precedence over the facts about the durable pair.
continuous_consumer_state(present, required, retry, supervised, matching) ==
    IF ~present THEN "starting"
    ELSE IF required THEN "blocked" ELSE IF retry THEN "retry_required"
    ELSE IF ~supervised THEN "unknown" ELSE IF matching THEN "ready" ELSE "reconciling"

\* The consumer as seen by supervisor S, {} outside of a host.  The kernel answers
\* or is silent; whether the owner of the pair has to retry is not kept, it answers
\* with and without.
Kernel == {"silent", "answers", "retry"}
ConsumerStatus(S, kernel) ==
    [state |-> IF kernel = "silent" THEN "unknown"
               ELSE continuous_consumer_state(durable # "absent", durable = "required",
                        kernel = "retry", S # {}, \E i \in S : proc[i].svc # {}),
     required |-> durable = "required"]

\* What the endpoint of host i answers to a challenge.
Answer(i, kernel) ==
    IF proc[i].at # "run" /\ (proc[i].at # "final" \/ proc[i].svc = {})
      THEN [state |-> "starting", consumer |-> [state |-> "starting", required |-> FALSE]]
    ELSE LET c == ConsumerStatus({i}, kernel)
         IN [state |-> IF proc[i].svc = {} \/ proc[i].stop THEN "starting"
                       ELSE IF c.state = "ready" THEN "ready"
                       ELSE IF c.state \in {"blocked", "retry_required", "unknown"}
                         THEN "degraded" ELSE "starting",
             consumer |-> c]

\* A supervisor that says it is ready is attached to the stream of the service
\* that answers, and the service is leased to the selected binding.
StreamCurrent(i, s) ==
    /\ \E l \in lang : owns_process(l) /\ l.bind = {s.runtime}
    /\ Answering # {} /\ proc[i].svc = Answering

\* resident_status for selection s; answered: the challenge is answered in time;
\* late: the startup deadline has passed.
resident_status(s, answered, kernel, late) ==
    LET outcome(st, c) == [state |-> st, consumer |-> c]
        offline == ConsumerStatus({}, kernel)
        probeFailed(l, c) ==
            outcome(IF l.phase = "starting" /\ ~late THEN "starting" ELSE "degraded", c)
        live(l, i) ==
            LET a == Answer(i, kernel)
                refuted == \/ a.state = "starting" /\ late
                           \/ a.state = "ready" /\ ~StreamCurrent(i, s)
            IN IF refuted THEN probeFailed(l, a.consumer) ELSE a
        of(l) == IF ~owns_process(l)
                   THEN outcome(IF l.phase = "failed" THEN "failed" ELSE "stale", offline)
                 ELSE IF l.sel # {s} THEN outcome("incompatible", offline)
                 ELSE IF answered /\ endpoint = l.birth
                   THEN live(l, CHOOSE i \in endpoint : TRUE)
                 ELSE probeFailed(l, offline)
    IN IF lease = {} THEN outcome("stopped", offline) ELSE of(CHOOSE l \in lease : TRUE)

\* _supervisor_status; it removes a lease without a birth identity whose
\* process does not match (StatusLease).
SupervisorState ==
    IF lease = {} THEN "stopped"
    ELSE LET l == CHOOSE x \in lease : TRUE
         IN IF owns_process(l) \/ (l.birth = {} /\ matches(l)) THEN l.phase ELSE "stale"
StatusLease == {l \in lease : l.birth # {} \/ matches(l)}

-----------------------------------------------------------------------------
(* The resident provider.                                                  *)

Step(changes) == call' = With(call, changes) /\ UNCHANGED stopped
Start(op, step, changes) ==
    /\ call' = With(With(NoCall, [op |-> op, step |-> step]), changes)
    /\ stopped' = FALSE
Return(result) == call' = NoCall /\ stopped' = (result = "stopped")

\* The verdict on a status.  A cursor that waits for its owner blocks every
\* control, a stop too.
verdict(st, stop) ==
    IF \/ st.consumer.state = "blocked"
       \/ st.consumer.state = "unknown" /\ st.consumer.required THEN "blocked"
    ELSE IF ~stop /\ st.state \in {"ready", "starting"} THEN "reused"
    ELSE IF st.state = "incompatible" THEN "incompatible" ELSE "control"

\* The verdicts on what a caller may observe.
Verdicts(s, stop) ==
    {verdict(resident_status(s, answered, kernel, late), stop) :
        answered, late \in BOOLEAN, kernel \in Kernel}

\* resident_reconcile takes the lock and observes.
Reconcile ==
    /\ \E s \in Selections, stop \in BOOLEAN : \E v \in Verdicts(s, stop) :
            IF v \in {"blocked", "reused"} THEN Return(v)
            ELSE \E ls \in {FALSE, stop} :
                   Start("reconcile", "read", [sel |-> {s}, stop |-> stop, ls |-> ls,
                                               incompatible |-> v = "incompatible"])
    /\ UNCHANGED <<proc, files, endpoint, ensure>>

\* A live process without a birth identity and another owner's host are left
\* alone.
Untouchable(s) ==
    \/ \E l \in lease : l.birth = {} /\ Holding(l) # {}
    \/ call.incompatible
       /\ ~\E l \in lease : \E t \in l.sel : t.owner = s.owner

\* The leases are read, and what a stop that includes the service finds of it.
Read ==
    /\ call.op = "reconcile" /\ call.step = "read"
    /\ \E s \in call.sel :
         LET owned == {l \in lang : owns_process(l)}
             bound == {l \in lang : l.bind = {s.runtime}}
             go(step) == Step([step |-> step, lease |-> lease, lang |-> lang,
                               incompatible |-> FALSE, ls |-> FALSE])
         IN IF Untouchable(s) THEN Return("blocked")
            ELSE IF ~call.ls \/ lang = {} THEN go("decide")
            ELSE IF owned # {} THEN IF bound # {} THEN go("signal_language") ELSE Return("raised")
            ELSE IF (\E l \in lang : Holding(l) # {}) \/ bound = {} \/ Answering # {}
              THEN Return("blocked")
            ELSE go("clean")
    /\ UNCHANGED <<proc, files, endpoint, ensure>>

\* The dead service's socket file and lease are removed.
Clean ==
    /\ call.step = "clean"
    /\ socket' = {} /\ lang' = {}
    /\ Step([step |-> "decide"])
    /\ UNCHANGED <<proc, lease, durable, endpoint, ensure>>

\* The leased host runs for the same owner on another runtime, and the service
\* with it.
RuntimeChanged(s) ==
    \E l \in call.lease, m \in call.lang : \E t \in l.sel :
        t.owner = s.owner /\ t.runtime # s.runtime /\ m.bind = {t.runtime} /\ owns_process(m)

Decide ==
    /\ call.step = "decide"
    /\ \E s \in call.sel :
         IF RuntimeChanged(s)
           THEN Step([step |-> "signal_changed"]) /\ UNCHANGED proc
         ELSE IF \E l \in call.lease : owns_process(l)
           THEN Step([step |-> "signal"]) /\ UNCHANGED proc
         ELSE IF call.stop
           THEN Return(IF call.stopping THEN "stopping" ELSE "stopped") /\ UNCHANGED proc
         ELSE \E i \in Ids :
                /\ Popen(i, "managed", {s}, "wait")
                /\ Step([step |-> "register", child |-> {i}, pid |-> proc'[i].pid])
    /\ UNCHANGED <<files, endpoint, ensure>>

\* Bug: the number alone is signalled.
Target_ByNumber(l) == Holding(l)

\* signal_owned: the process is pinned, its birth checked, then signalled.
Target(l) == {i \in l.birth : i \in Holding(l)}

Signal ==
    /\ call.step \in {"signal_language", "signal_changed", "signal"}
    /\ \E l \in IF call.step = "signal" THEN call.lease ELSE call.lang :
         IF Target(l) = {} THEN Return("raised") /\ UNCHANGED proc
         ELSE /\ \E i \in Target(l) : proc' = Terminated(i)
              /\ IF call.step = "signal_language"
                   THEN Step([step |-> "decide", stopping |-> TRUE])
                 ELSE IF call.step = "signal_changed" /\ \E m \in call.lease : owns_process(m)
                   THEN Step([step |-> "signal"])
                 ELSE Return("stopping")
    /\ UNCHANGED <<files, endpoint, ensure>>

\* The lease of the new host; none if it has ended already.
RegisterChild ==
    /\ call.step = "register"
    /\ \E i \in call.child :
         IF Alive(i) THEN lease' = {ManagedLease(i, "starting")} /\ Return("started")
         ELSE Return("raised") /\ UNCHANGED lease
    /\ UNCHANGED <<proc, lang, socket, durable, endpoint, ensure>>

-----------------------------------------------------------------------------
(* continuous_lifecycle.                                                   *)

CliStart ==
    /\ Start("start", "service", <<>>)
    /\ EnsureTo(Cli, "probe")
    /\ UNCHANGED <<proc, files, endpoint>>

\* The service is ensured first; then a supervisor that runs is left alone.
CliLook ==
    /\ call.op = "start" /\ call.step = "service"
    /\ ensure[Cli].step \in {"attached", "refused"}
    /\ EnsureTo(Cli, "idle")
    /\ IF ensure[Cli].step = "refused" THEN Return("raised") /\ UNCHANGED lease
       ELSE /\ lease' = StatusLease
            /\ IF SupervisorState \in {"starting", "running"} THEN Return("already_running")
               ELSE Step([step |-> "spawn"])
    /\ UNCHANGED <<proc, lang, socket, durable, endpoint>>

CliSpawn ==
    /\ call.step = "spawn"
    /\ \E i \in Ids :
         /\ Popen(i, "detached", {}, "spawned")
         /\ Step([step |-> "await", child |-> {i}, pid |-> proc'[i].pid])
    /\ UNCHANGED <<files, endpoint, ensure>>

\* Its own lease says it runs; or it ended; or the window is over.
CliAwait ==
    /\ call.step = "await"
    /\ \/ /\ SupervisorState = "running" /\ \E l \in lease : l.pid = call.pid
          /\ Return("started") /\ UNCHANGED <<proc, lease>>
       \/ /\ \E i \in call.child : proc' = IF Alive(i) THEN Terminated(i) ELSE proc
          /\ Step([step |-> "reap"]) /\ lease' = StatusLease
    /\ UNCHANGED <<lang, socket, durable, endpoint, ensure>>

\* Bug: the host that did not become ready is not waited for.
CliReap_NoWait ==
    /\ call.step = "reap"
    /\ lease' = {l \in lease : l.pid # call.pid}
    /\ Return("raised")
    /\ UNCHANGED <<proc, lang, socket, durable, endpoint, ensure>>

\* A host that did not become ready is waited for, or killed, and forgotten.
CliReap ==
    /\ call.step = "reap"
    /\ \E i \in call.child : proc' = Gone(i)
    /\ lease' = {l \in lease : l.pid # call.pid}
    /\ Return("raised")
    /\ UNCHANGED <<lang, socket, durable, endpoint, ensure>>

CliStatus ==
    /\ call.op = "none"
    /\ lease' = StatusLease
    /\ UNCHANGED <<proc, lang, socket, durable, endpoint, ensure, call, stopped>>

CliStop ==
    /\ lease' = StatusLease
    /\ IF SupervisorState \in {"starting", "running"}
         THEN Start("stop", "kill", [lease |-> lease])
         ELSE Return("stopped")
    /\ UNCHANGED <<proc, lang, socket, durable, endpoint, ensure>>

\* os.kill by number.
CliKill ==
    /\ call.step = "kill"
    /\ \E l \in call.lease :
         IF Holding(l) = {} THEN Return("raised") /\ UNCHANGED proc
         ELSE /\ \E i \in Holding(l) : proc' = Terminated(i)
              /\ Step([step |-> "await_stop"])
    /\ UNCHANGED <<files, endpoint, ensure>>

\* It is gone or the window is over.
CliAwaitStop ==
    /\ call.step = "await_stop"
    /\ lease' = StatusLease
    /\ Return(IF SupervisorState \in {"stopped", "stale"} THEN "stopped" ELSE "stopping")
    /\ UNCHANGED <<proc, lang, socket, durable, endpoint, ensure>>

\* A caller dies, or the provider's alarm goes off: the lock is free again.
Abort ==
    /\ call.op # "none" /\ events < MaxEvents
    /\ events' = events + 1
    /\ Return("dead")
    /\ EnsureTo(Cli, "idle")
    /\ interrupted' = (interrupted \/ call.step \in {"await", "reap"})
    /\ UNCHANGED <<proc, files, endpoint>>

Begin ==
    /\ call.op = "none" /\ events < MaxEvents
    /\ events' = events + 1
    /\ Reconcile \/ CliStart \/ CliStop
    /\ UNCHANGED interrupted

Continue ==
    /\ \/ Read \/ Clean \/ Decide \/ Signal \/ RegisterChild
       \/ CliLook \/ CliSpawn \/ CliAwait \/ CliReap \/ CliStatus \/ CliKill \/ CliAwaitStop
    /\ UNCHANGED <<interrupted, events>>

Next == Ensure \/ (\E i \in Ids : Host(i)) \/ Environment \/ Begin \/ Continue \/ Abort

Spec == Init /\ [][Next]_vars

-----------------------------------------------------------------------------
\* A host that supervises or is about to.
Active == {i \in Ids : proc[i].at \in {"enter", "service", "forge", "run"}}

\* Every process that supervises is the one the lease names, so there is one at
\* most and both ways of stopping can find it.  Only a continuous start that is
\* interrupted before its host has a lease may leave one behind.
Tracked ==
    ~interrupted => \A i \in Active : \E l \in lease : l.pid = proc[i].pid /\ l.birth \subseteq {i}

\* A stop that reports stopped has left no supervisor, and none will come without
\* a new start.
StoppedMeansStopped == stopped /\ ~interrupted => Active = {}

\* "PID recycling between observation and signaling cannot target a replacement
\* process": the provider signals managed hosts and services only, and the hosts
\* of its own checkout.
OnlyOwnedControlled ==
    [][call.op = "reconcile" /\ call' # call =>
         \A i \in Ids : Alive(i) /\ proc'[i] # proc[i] =>
            \/ proc[i].kind = "language"
            \/ /\ proc[i].kind = "managed"
               /\ \/ interrupted
                  \/ \A s \in proc[i].sel, t \in call.sel : s.owner = t.owner]_vars
=============================================================================
