------------------------ MODULE ServiceLifecycle_proofs ------------------------
(***************************************************************************)
(* Theorems about the lifecycle of a workspace's processes: no supervisor  *)
(* runs that the lease does not name, a stop that reports stopped has left *)
(* none, and the provider signals the processes of its own checkout only.  *)
(***************************************************************************)
EXTENDS ServiceLifecycle, TLAPS

\* Where a process of a kind can be.
Places(kind) ==
    IF kind = "managed" THEN {"wait", "enter", "service", "forge", "run", "final", "unlink"}
    ELSE IF kind = "detached" THEN {"spawned", "forge", "run", "final", "unlink"}
    ELSE IF kind = "language" THEN {"boot", "serve"} ELSE {kind}

Everywhere == {"none", "wait", "enter", "service", "spawned", "forge", "run", "final", "unlink",
               "boot", "serve", "other"}

Process ==
    [kind : {"none", "managed", "detached", "language", "other"}, pid : SUBSET Pids,
     sel : SUBSET Selections,
     at : Everywhere, stop : BOOLEAN, svc : SUBSET Ids]

HostLease == [pid : SUBSET Pids, birth : SUBSET Ids, sel : SUBSET Selections,
              phase : {"starting", "running", "failed"}]

ServiceLease == [pid : SUBSET Pids, bind : SUBSET Runtimes, birth : SUBSET Ids]

Caller == [step : {"idle", "probe", "replace", "lease", "poll", "attached", "refused"},
           child : SUBSET Ids, pid : SUBSET Pids]

CallSteps == {"none", "read", "clean", "decide", "signal_language", "signal_changed", "signal",
              "register", "service", "spawn", "await", "reap", "kill", "await_stop"}

CallRecord ==
    [op : {"none", "reconcile", "start", "stop"},
     step : CallSteps,
     sel : SUBSET Selections, stop : BOOLEAN, ls : BOOLEAN, incompatible : BOOLEAN,
     stopping : BOOLEAN, lease : SUBSET HostLease, lang : SUBSET ServiceLease,
     child : SUBSET Ids, pid : SUBSET Pids]

TypeOK ==
    /\ proc \in [Ids -> Process]
    /\ lease \subseteq HostLease /\ lang \subseteq ServiceLease
    /\ socket \subseteq Ids /\ endpoint \subseteq Ids
    /\ durable \in {"absent", "current", "required"}
    /\ ensure \in [Ids \cup {Cli} -> Caller]
    /\ call \in CallRecord
    /\ stopped \in BOOLEAN /\ interrupted \in BOOLEAN
    /\ events \in 0 .. MaxEvents

\* At most one element.
One(S) == \A x, y \in S : x = y

\* Processes are where their kind can be, and no two have the same number.
Processes ==
    /\ \A i \in Ids :
         /\ proc[i].at \in Places(proc[i].kind)
         /\ Alive(i) => proc[i].pid # {}
         /\ proc[i].kind = "managed" => One(proc[i].sel)
    /\ \A i, j \in Ids : Alive(i) /\ proc[i].pid = proc[j].pid => i = j

\* A lease that records a birth identity describes that process while it lives.
Describes(l, i) == proc[i].kind = "managed" /\ proc[i].pid = l.pid /\ proc[i].sel = l.sel

Leases ==
    /\ One(lease)
    /\ \A l \in lease : l.birth = {} => l.phase # "failed"
    /\ \A l \in lease : \A i \in l.birth : Alive(i) => Describes(l, i)
    /\ \A i \in Ids : proc[i].kind = "detached" /\ proc[i].at # "spawned" =>
          \A l \in lease : l.pid = proc[i].pid => l.birth = {}
    /\ \A l \in call.lease : \A i \in l.birth : Alive(i) => Describes(l, i)
    /\ \A l \in lang : \A i \in l.birth : Alive(i) => proc[i].kind = "language"
    /\ \A l \in call.lang : \A i \in l.birth : Alive(i) => proc[i].kind = "language"
    /\ \A a \in Ids \cup {Cli} : \A i \in ensure[a].child : Alive(i) => proc[i].kind = "language"

\* The lease of host i.
Names(l, i) ==
    l.pid = proc[i].pid /\ l.birth = (IF proc[i].kind = "managed" THEN {i} ELSE {})

\* A host that supervises, may still come to supervise, or removes the lease.
InUse(i) ==
    \/ proc[i].at \in {"enter", "service", "forge", "run", "unlink"}
    \/ proc[i].at = "wait" /\ \E l \in lease : Names(l, i)
    \/ proc[i].at = "final" /\ \E l \in lease : Names(l, i) /\ l.phase # "failed"

\* Every host in use has the lease.
Leased == \A i \in Ids : InUse(i) => \E l \in lease : Names(l, i) /\ l.phase # "failed"

\* The child of a call is the process it started, while that lives.
Calls ==
    /\ call.op = "none" => call = NoCall
    /\ call.op # "none" => ~stopped
    /\ One(call.sel)
    /\ call.step \in {"service", "spawn"} => call.child = {}
    /\ call.op = "reconcile" <=>
         call.step \in {"read", "clean", "decide", "signal_language", "signal_changed", "signal",
                        "register"}
    /\ call.step \in {"await", "reap", "register"} =>
         \E i \in Ids :
            /\ call.child = {i}
            /\ Alive(i) => /\ call.pid = proc[i].pid
                           /\ call.step = "register" => proc[i].at = "wait"
                           /\ call.step # "register" => proc[i].kind = "detached"
            /\ call.step = "register" => \A l \in lease : i \notin l.birth

Controlling == {"clean", "decide", "signal_language", "signal_changed", "signal"}

\* What the holder of the lock knows of the hosts in use.
Known ==
    /\ call.step = "read" /\ ~call.incompatible =>
         \A l \in lease : \A i \in l.birth : Alive(i) => proc[i].sel = call.sel
    /\ call.step \in Controlling =>
         /\ \A i \in Ids : InUse(i) => \E l \in call.lease : l.birth = {i}
         /\ \A l \in call.lease : \A i \in l.birth : Alive(i) =>
              \A s \in proc[i].sel, t \in call.sel : s.owner = t.owner
    /\ call.step = "register" => \A i \in Ids : ~InUse(i)
    /\ call.step = "spawn" => \A l \in lease : l.birth # {}
    /\ call.step \in {"spawn", "await", "reap"} => \A i \in Ids : InUse(i) => i \in call.child

\* A detached host that has no lease yet is the child of the call.
Spawned ==
    \A i \in Ids : proc[i].at = "spawned" =>
        call.step = "await" /\ call.child = {i} /\ \A l \in lease : l.birth # {}

\* A supervisor is not left behind by a stop, nor on its way.
Quiet == stopped => \A i \in Ids : InUse(i) => proc[i].at \in {"final", "unlink"}

Control == ~interrupted => Leased /\ Known /\ Spawned /\ Quiet

IInv == TypeOK /\ Processes /\ Leases /\ Calls /\ Control

-----------------------------------------------------------------------------
(* What the steps do to the processes.                                     *)

Others(i) == proc' \in [Ids -> Process] /\ \A j \in Ids : j # i => proc'[j] = proc[j]

MovesTo(i, a) ==
    /\ Others(i)
    /\ proc'[i].kind = proc[i].kind /\ proc'[i].pid = proc[i].pid /\ proc'[i].sel = proc[i].sel
    /\ proc'[i].at = a

Ended(i) == Others(i) /\ proc'[i] = Absent

Born(i, kind, sel, at) ==
    /\ Others(i)
    /\ i \in Ids /\ ~Alive(i) /\ i \notin Named
    /\ proc'[i].kind = kind /\ proc'[i].sel = sel /\ proc'[i].at = at
    /\ \E p \in Pids : proc'[i].pid = {p} /\ \A j \in Ids : p \notin proc[j].pid

Effect ==
    \/ proc' = proc
    \/ \E i \in Ids : Ended(i)
    \/ \E i \in Ids, a \in Everywhere : MovesTo(i, a) /\ a \in Places(proc[i].kind)
    \/ \E i \in Ids : \E kind, sel, at :
         /\ Born(i, kind, sel, at)
         /\ kind # "none" /\ at \in Places(kind) /\ (kind = "managed" => One(sel))

LEMMA AbsentIs == Absent \in Process /\ Absent.kind = "none" /\ Absent.at = "none" /\ Absent.pid = {}
  BY DEF Absent, Process, Everywhere

LEMMA MovedIs ==
    ASSUME NEW r \in Process, NEW a \in Everywhere
    PROVE  LET m == With(r, [at |-> a])
           IN m \in Process /\ m.kind = r.kind /\ m.pid = r.pid /\ m.sel = r.sel /\ m.at = a
  BY DEF Process, With

LEMMA StoppingIs ==
    ASSUME NEW r \in Process
    PROVE  LET m == With(r, [stop |-> TRUE])
           IN m \in Process /\ m.kind = r.kind /\ m.pid = r.pid /\ m.sel = r.sel /\ m.at = r.at
  BY DEF Process, With

LEMMA AttachedIs ==
    ASSUME NEW r \in Process, NEW s \in SUBSET Ids
    PROVE  LET m == With(r, [svc |-> s])
           IN m \in Process /\ m.kind = r.kind /\ m.pid = r.pid /\ m.sel = r.sel /\ m.at = r.at
  BY DEF Process, With

LEMMA BornIs ==
    ASSUME NEW kind \in {"managed", "detached", "language", "other"}, NEW p \in Pids,
           NEW sel \in SUBSET Selections, NEW at \in Everywhere
    PROVE  LET m == With(Absent, [kind |-> kind, pid |-> {p}, sel |-> sel, at |-> at])
           IN m \in Process /\ m.kind = kind /\ m.pid = {p} /\ m.sel = sel /\ m.at = at
  BY DEF Process, With, Absent

LEMMA AtMoves ==
    ASSUME TypeOK, NEW i \in Ids, NEW a \in Everywhere, proc' = At(i, a)
    PROVE  MovesTo(i, a)
<1> DEFINE m == With(proc[i], [at |-> a])
<1>1. proc \in [Ids -> Process] /\ proc' = [proc EXCEPT ![i] = m]
  BY DEF TypeOK, At
<1>2. m \in Process /\ m.kind = proc[i].kind /\ m.pid = proc[i].pid /\ m.sel = proc[i].sel /\ m.at = a
  BY <1>1, MovedIs
<1> HIDE DEF m
<1> QED
  BY <1>1, <1>2 DEF MovesTo, Others

LEMMA GoneEnds ==
    ASSUME TypeOK, NEW i \in Ids, proc' = Gone(i)
    PROVE  Ended(i)
  BY AbsentIs DEF TypeOK, Gone, Ended, Others

LEMMA SignalEffect ==
    ASSUME TypeOK, NEW i \in Ids, proc' = Terminated(i)
    PROVE  \/ Ended(i)
           \/ MovesTo(i, proc[i].at) /\ proc[i].at \notin {"wait", "spawned"}
<1>1. CASE proc' = Gone(i)
  BY <1>1, GoneEnds
<1>2. CASE proc' = [proc EXCEPT ![i] = With(@, [stop |-> TRUE])] /\ proc[i].at \notin {"wait", "spawned"}
  <2> DEFINE m == With(proc[i], [stop |-> TRUE])
  <2>1. proc \in [Ids -> Process] /\ proc' = [proc EXCEPT ![i] = m]
    BY <1>2 DEF TypeOK
  <2>2. m \in Process /\ m.kind = proc[i].kind /\ m.pid = proc[i].pid /\ m.sel = proc[i].sel
        /\ m.at = proc[i].at
    BY <2>1, StoppingIs
  <2> HIDE DEF m
  <2> QED
    BY <1>2, <2>1, <2>2 DEF MovesTo, Others
<1> QED
  BY <1>1, <1>2 DEF Terminated

LEMMA AttachEffect ==
    ASSUME TypeOK, NEW i \in Ids, NEW s \in SUBSET Ids,
           proc' = [proc EXCEPT ![i] = With(@, [svc |-> s])]
    PROVE  MovesTo(i, proc[i].at)
<1> DEFINE m == With(proc[i], [svc |-> s])
<1>1. proc \in [Ids -> Process] /\ proc' = [proc EXCEPT ![i] = m]
  BY DEF TypeOK
<1>2. m \in Process /\ m.kind = proc[i].kind /\ m.pid = proc[i].pid /\ m.sel = proc[i].sel
      /\ m.at = proc[i].at
  BY <1>1, AttachedIs
<1> HIDE DEF m
<1> QED
  BY <1>1, <1>2 DEF MovesTo, Others

LEMMA PopenEffect ==
    ASSUME TypeOK, NEW i \in Ids, NEW kind \in {"managed", "detached", "language", "other"},
           NEW sel \in SUBSET Selections, NEW at \in Everywhere, Popen(i, kind, sel, at)
    PROVE  Born(i, kind, sel, at)
<1>1. PICK p : /\ p \in IF kind = "other" THEN UNION {l.pid : l \in lease \cup lang} ELSE Pids
               /\ p \notin TakenPids
               /\ proc' = [proc EXCEPT ![i] = With(Absent, [kind |-> kind, pid |-> {p}, sel |-> sel,
                                                           at |-> at])]
  BY DEF Popen
<1>2. p \in Pids
  <2>1. \A l \in lease \cup lang : l.pid \subseteq Pids
    BY DEF TypeOK, HostLease, ServiceLease
  <2> QED
    BY <1>1, <2>1
<1>3. \A j \in Ids : p \notin proc[j].pid
  BY <1>1 DEF TakenPids
<1> DEFINE m == With(Absent, [kind |-> kind, pid |-> {p}, sel |-> sel, at |-> at])
<1>4. m \in Process /\ m.kind = kind /\ m.pid = {p} /\ m.sel = sel /\ m.at = at
  BY <1>2, BornIs
<1>5. proc \in [Ids -> Process] /\ proc' = [proc EXCEPT ![i] = m]
  BY <1>1 DEF TypeOK
<1>6. ~Alive(i) /\ i \notin Named
  BY DEF Popen, Unborn
<1> HIDE DEF m
<1> QED
  BY <1>2, <1>3, <1>4, <1>5, <1>6 DEF Born, Others

\* The processes stay, one ends, or a service or a stranger is born.
Apart ==
    \/ proc' = proc
    \/ \E i \in Ids : Ended(i)
    \/ \E i \in Ids, sel \in SUBSET Selections : Born(i, "language", sel, "boot")
    \/ \E i \in Ids : Born(i, "other", {}, "other")
    \/ \E i \in Ids : MovesTo(i, "serve") /\ proc[i].at = "boot"

LEMMA Bindings ==
    ASSUME TypeOK, NEW a \in Ids \cup {Cli}
    PROVE  bindings(a) \subseteq Runtimes
<1>1. CASE a = Cli
  BY <1>1 DEF bindings
<1>2. CASE a # Cli
  <2>1. a \in Ids /\ proc[a].sel \subseteq Selections
    BY <1>2 DEF TypeOK, Process
  <2>2. \A s \in Selections : s.runtime \in Runtimes
    BY LifecycleConstants
  <2> QED
    BY <1>2, <2>1, <2>2 DEF bindings
<1> QED
  BY <1>1, <1>2

\* What a caller of ensure_language_service does to lease and children.
ServiceKnown ==
    /\ \A l \in lang' : \A j \in l.birth :
          (\E m \in lang : j \in m.birth) \/ (\E b \in Ids \cup {Cli} : j \in ensure[b].child)
    /\ \A b \in Ids \cup {Cli} : \A j \in ensure'[b].child :
          j \in ensure[b].child \/ (Alive(j)' /\ proc'[j].kind = "language")

ServiceTypes == lang' \subseteq ServiceLease /\ socket' \subseteq Ids /\ ensure' \in [Ids \cup {Cli} -> Caller]

LEMMA EnsureToIs ==
    ASSUME TypeOK, NEW a \in Ids \cup {Cli},
           NEW st \in {"idle", "probe", "replace", "lease", "poll", "attached", "refused"},
           EnsureTo(a, st)
    PROVE  /\ ensure' \in [Ids \cup {Cli} -> Caller]
           /\ \A b \in Ids \cup {Cli} : ensure'[b].child \subseteq ensure[b].child
<1> DEFINE m == [step |-> st, child |-> {}, pid |-> {}]
<1>1. ensure' = [ensure EXCEPT ![a] = m] /\ ensure \in [Ids \cup {Cli} -> Caller]
  BY DEF EnsureTo, TypeOK
<1>2. m \in Caller /\ m.child = {}
  BY DEF Caller
<1> HIDE DEF m
<1>3. ensure' \in [Ids \cup {Cli} -> Caller]
  BY <1>1, <1>2
<1>4. ASSUME NEW b \in Ids \cup {Cli} PROVE ensure'[b].child \subseteq ensure[b].child
  BY <1>1, <1>2
<1> QED
  BY <1>3, <1>4

LEMMA EnsureStep ==
    ASSUME TypeOK, Ensure
    PROVE  Apart /\ ServiceKnown /\ ServiceTypes
<1> PICK a \in Ids \cup {Cli} : EnsureProbe(a) \/ EnsureReplace(a) \/ EnsureLease(a) \/ EnsurePoll(a)
  BY DEF Ensure
<1>1. CASE EnsureProbe(a)
  <2>1. \E st \in {"replace", "attached", "refused"} : EnsureTo(a, st)
    BY <1>1 DEF EnsureProbe
  <2>2. ensure' \in [Ids \cup {Cli} -> Caller] /\ \A b \in Ids \cup {Cli} : ensure'[b].child \subseteq ensure[b].child
    BY <2>1, EnsureToIs
  <2>3. proc' = proc /\ lang' = lang /\ socket' = socket
    BY <1>1 DEF EnsureProbe, files
  <2> QED
    BY <2>2, <2>3 DEF Apart, ServiceKnown, ServiceTypes, TypeOK
<1>2. CASE EnsureReplace(a)
  <2>0. socket' = {} /\ lang' = lang
    BY <1>2 DEF EnsureReplace
  <2>1. ASSUME NEW i \in Ids, Popen(i, "language", IF a = Cli THEN {} ELSE proc[a].sel, "boot"),
               ensure' = [ensure EXCEPT ![a] = [step |-> "lease", child |-> {i}, pid |-> proc'[i].pid]]
        PROVE  Apart /\ ServiceKnown /\ ServiceTypes
    <3> DEFINE sel == IF a = Cli THEN {} ELSE proc[a].sel
               m == [step |-> "lease", child |-> {i}, pid |-> proc'[i].pid]
    <3>1. sel \in SUBSET Selections
      BY DEF TypeOK, Process
    <3>2. Born(i, "language", sel, "boot")
      <4> HIDE DEF sel
      <4>1. Popen(i, "language", sel, "boot")
        BY <2>1 DEF sel
      <4> QED
        BY <3>1, <4>1, PopenEffect DEF Everywhere
    <3> HIDE DEF sel
    <3>3. proc'[i] \in Process /\ proc'[i].kind = "language" /\ Alive(i)'
      BY <3>2 DEF Born, Others, Alive
    <3>4. m \in Caller /\ m.child = {i}
      BY <3>3 DEF Caller, Process
    <3>5. ensure' = [ensure EXCEPT ![a] = m] /\ ensure \in [Ids \cup {Cli} -> Caller]
      BY <2>1 DEF TypeOK
    <3> HIDE DEF m
    <3>6. ensure' \in [Ids \cup {Cli} -> Caller]
          /\ \A b \in Ids \cup {Cli} : ensure'[b] = IF b = a THEN m ELSE ensure[b]
      BY <3>4, <3>5
    <3>7. ASSUME NEW b \in Ids \cup {Cli}, NEW j \in ensure'[b].child
          PROVE  j \in ensure[b].child \/ (Alive(j)' /\ proc'[j].kind = "language")
      BY <3>3, <3>4, <3>6, <3>7
    <3>8. Apart
      BY <3>1, <3>2 DEF Apart
    <3> QED
      BY <2>0, <3>6, <3>7, <3>8 DEF ServiceKnown, ServiceTypes, TypeOK
  <2>2. CASE EnsureTo(a, "refused") /\ UNCHANGED proc
    <3>1. ensure' \in [Ids \cup {Cli} -> Caller] /\ \A b \in Ids \cup {Cli} : ensure'[b].child \subseteq ensure[b].child
      BY <2>2, EnsureToIs
    <3> QED
      BY <2>0, <2>2, <3>1 DEF Apart, ServiceKnown, ServiceTypes, TypeOK
  <2> QED
    BY <1>2, <2>1, <2>2 DEF EnsureReplace
<1>3. CASE EnsureLease(a)
  <2> DEFINE births == IF a = Cli THEN {} ELSE {i \in ensure[a].child : Alive(i)}
             l == [pid |-> ensure[a].pid, bind |-> bindings(a), birth |-> births]
             m == With(ensure[a], [step |-> "poll"])
  <2>1. ensure[a] \in Caller /\ ensure \in [Ids \cup {Cli} -> Caller]
    BY DEF TypeOK
  <2>2. m \in Caller /\ m.child = ensure[a].child
    BY <2>1 DEF Caller, With
  <2>3. births \subseteq ensure[a].child /\ births \subseteq Ids
    BY <2>1 DEF Caller
  <2>4. lang' = {l} /\ ensure' = [ensure EXCEPT ![a] = m] /\ proc' = proc /\ socket' = socket
    BY <1>3 DEF EnsureLease
  <2> HIDE DEF births, m
  <2>5. l \in ServiceLease /\ l.birth = births
    BY <2>1, <2>3, Bindings DEF ServiceLease, Caller
  <2> HIDE DEF l
  <2>6. ensure' \in [Ids \cup {Cli} -> Caller]
        /\ \A b \in Ids \cup {Cli} : ensure'[b] = IF b = a THEN m ELSE ensure[b]
    BY <2>1, <2>2, <2>4
  <2>7. \A b \in Ids \cup {Cli} : ensure'[b].child = ensure[b].child
    BY <2>2, <2>6
  <2>8. \A k \in lang' : \A j \in k.birth : j \in ensure[a].child
    BY <2>3, <2>4, <2>5
  <2>9. lang' \subseteq ServiceLease
    BY <2>4, <2>5
  <2> QED
    BY <2>4, <2>6, <2>7, <2>8, <2>9 DEF Apart, ServiceKnown, ServiceTypes, TypeOK
<1>4. CASE EnsurePoll(a)
  <2>1. \E st \in {"attached", "refused"} : EnsureTo(a, st)
    BY <1>4 DEF EnsurePoll
  <2>2. ensure' \in [Ids \cup {Cli} -> Caller] /\ \A b \in Ids \cup {Cli} : ensure'[b].child \subseteq ensure[b].child
    BY <2>1, EnsureToIs
  <2>3. (lang' = lang \/ lang' = {}) /\ (socket' = socket \/ socket' = {})
    BY <1>4 DEF EnsurePoll
  <2>4. proc' = proc \/ \E i \in Ids : proc' = Gone(i)
    <3>1. ensure[a].child \subseteq Ids
      BY DEF TypeOK, Caller
    <3> QED
      BY <1>4, <3>1 DEF EnsurePoll
  <2>5. Apart
    BY <2>4, GoneEnds DEF Apart
  <2> QED
    BY <2>2, <2>3, <2>5 DEF ServiceKnown, ServiceTypes, TypeOK
<1> QED
  BY <1>1, <1>2, <1>3, <1>4

LEMMA EnvironmentStep ==
    ASSUME TypeOK, Environment
    PROVE  Apart /\ TypeOK' /\ UNCHANGED <<lease, lang, call, stopped, interrupted>>
           /\ \A b \in Ids \cup {Cli} : ensure'[b].child \subseteq ensure[b].child
<1>0. UNCHANGED <<lease, lang, call, stopped, interrupted>>
  BY DEF Environment, Stranger, Recover, Serve, Die, files
<1>1. CASE Stranger /\ UNCHANGED events
  <2>1. PICK i \in Ids : Popen(i, "other", {}, "other")
    BY <1>1 DEF Stranger
  <2>2. Born(i, "other", {}, "other")
    BY <2>1, PopenEffect DEF Everywhere
  <2> QED
    BY <1>0, <1>1, <2>2 DEF Stranger, Apart, TypeOK, Born, Others, files
<1>2. CASE Recover /\ UNCHANGED events
  BY <1>0, <1>2 DEF Recover, Apart, TypeOK
<1>3. ASSUME NEW i \in Ids, Serve(i), UNCHANGED events
      PROVE  Apart /\ TypeOK' /\ UNCHANGED ensure
  <2>1. MovesTo(i, "serve") \/ Ended(i)
    BY <1>3, AtMoves, GoneEnds DEF Serve, Everywhere
  <2>2. Apart /\ proc' \in [Ids -> Process] /\ UNCHANGED <<lease, lang, durable, endpoint, ensure>>
    BY <1>3, <2>1 DEF Apart, Serve, MovesTo, Ended, Others
  <2>3. socket' \subseteq Ids
    BY <1>3 DEF Serve, TypeOK
  <2> QED
    BY <1>0, <1>3, <2>2, <2>3 DEF TypeOK
<1>4. ASSUME NEW i \in Ids, Die(i)
      PROVE  Apart /\ TypeOK' /\ \A b \in Ids \cup {Cli} : ensure'[b].child \subseteq ensure[b].child
  <2>1. Ended(i)
    BY <1>4, GoneEnds DEF Die
  <2>2. ensure' \in [Ids \cup {Cli} -> Caller] /\ \A b \in Ids \cup {Cli} : ensure'[b].child \subseteq ensure[b].child
    BY <1>4, EnsureToIs DEF Die
  <2>3. events' \in 0 .. MaxEvents
    BY <1>4, LifecycleConstants DEF Die, TypeOK
  <2>4. socket' = socket /\ durable' = durable /\ endpoint' \subseteq Ids
    BY <1>4 DEF Die, files, TypeOK
  <2>5. Apart /\ proc' \in [Ids -> Process]
    BY <2>1 DEF Apart, Ended, Others
  <2> QED
    BY <1>0, <2>2, <2>3, <2>4, <2>5 DEF TypeOK
<1>5. UNCHANGED ensure => \A b \in Ids \cup {Cli} : ensure'[b].child \subseteq ensure[b].child
  OBVIOUS
<1>6. Stranger \/ Recover => UNCHANGED ensure
  BY DEF Stranger, Recover
<1> QED
  BY <1>0, <1>1, <1>2, <1>3, <1>4, <1>5, <1>6 DEF Environment

-----------------------------------------------------------------------------
(* What a host does: it goes on, it writes or removes the lease, or it is   *)
(* announced.                                                               *)

Busy == {"enter", "service", "forge", "run"}

GoesOn(i) ==
    /\ lease' = lease
    /\ \/ MovesTo(i, "enter") /\ proc[i].at = "wait" /\ Registered(i)
       \/ \E a \in Busy \cup {"final"} :
            MovesTo(i, a) /\ a \in Places(proc[i].kind) /\ proc[i].at \in Busy
       \/ /\ MovesTo(i, "unlink") /\ proc[i].at = "final"
          /\ \E l \in lease : /\ l.phase # "failed"
                              /\ IF proc[i].kind = "managed" THEN l.birth = {i} ELSE l.pid = proc[i].pid
       \/ Ended(i)

Tells(i) ==
    /\ proc[i].at \in Busy
    /\ \/ MovesTo(i, "run") /\ proc[i].at = "forge"
          /\ lease' = {IF proc[i].kind = "managed" THEN ManagedLease(i, "running")
                       ELSE DetachedLease(i, "running")}
       \/ MovesTo(i, "final") /\ proc[i].kind = "managed" /\ lease' = {ManagedLease(i, "failed")}

Leaves(i) == proc[i].at = "unlink" /\ Ended(i) /\ lease' = {}

Announced(i) ==
    proc[i].at = "spawned" /\ MovesTo(i, "forge") /\ lease' = {DetachedLease(i, "starting")}

LEMMA LeaseTypes ==
    ASSUME TypeOK, NEW i \in Ids, NEW phase \in {"starting", "running", "failed"}
    PROVE  /\ ManagedLease(i, phase) \in HostLease /\ ManagedLease(i, phase).pid = proc[i].pid
           /\ ManagedLease(i, phase).birth = {i} /\ ManagedLease(i, phase).sel = proc[i].sel
           /\ ManagedLease(i, phase).phase = phase
           /\ DetachedLease(i, phase) \in HostLease /\ DetachedLease(i, phase).pid = proc[i].pid
           /\ DetachedLease(i, phase).birth = {} /\ DetachedLease(i, phase).phase = phase
  BY DEF TypeOK, Process, ManagedLease, DetachedLease, HostLease

LEMMA HostStep ==
    ASSUME TypeOK, Processes, NEW i \in Ids, Host(i)
    PROVE  /\ GoesOn(i) \/ Tells(i) \/ Leaves(i) \/ Announced(i)
           /\ UNCHANGED <<lang, call, stopped, interrupted>>
           /\ \A b \in Ids \cup {Cli} : ensure'[b].child \subseteq ensure[b].child
           /\ TypeOK'
<1>p. proc[i].kind \in {"none", "managed", "detached", "language", "other"}
      /\ proc[i].at \in Places(proc[i].kind)
  BY DEF TypeOK, Process, Processes
<1>1. UNCHANGED <<lang, socket, call, stopped, interrupted, events>>
  BY DEF Host, Register, GiveUpWaiting, Bind, Serviced, Announce, Run, Attach, Stopped, Raise, Final,
         Unlink, HostTo, files
<1>2. ensure' \in [Ids \cup {Cli} -> Caller] /\ \A b \in Ids \cup {Cli} : ensure'[b].child \subseteq ensure[b].child
  <2>1. UNCHANGED ensure \/ \E st \in {"idle", "probe"} : EnsureTo(i, st)
    BY DEF Host, Register, GiveUpWaiting, Bind, Serviced, Announce, Run, Attach, Stopped, Raise, Final,
           Unlink, HostTo
  <2> QED
    BY <2>1, EnsureToIs DEF TypeOK
<1>3. durable' \in {"absent", "current", "required"}
  BY DEF Host, Register, GiveUpWaiting, Bind, Serviced, Announce, Run, Attach, Stopped, Raise, Final,
         Unlink, HostTo, files, TypeOK
<1>4. endpoint' \subseteq Ids
  BY DEF Host, Register, GiveUpWaiting, Bind, Serviced, Announce, Run, Attach, Stopped, Raise, Final,
         Unlink, HostTo, files, TypeOK
<1>5. GoesOn(i) \/ Tells(i) \/ Leaves(i) \/ Announced(i)
  <2>1. CASE Register(i)
    BY <2>1, AtMoves DEF Register, HostTo, files, GoesOn, Everywhere
  <2>2. CASE GiveUpWaiting(i)
    BY <2>2, GoneEnds DEF GiveUpWaiting, files, GoesOn
  <2>3. CASE Bind(i)
    <3>1. MovesTo(i, "service")
      BY <2>3, AtMoves DEF Bind, Everywhere
    <3> QED
      BY <1>p, <2>3, <3>1 DEF Bind, files, GoesOn, Busy, Places
  <2>4. CASE Serviced(i)
    <3>1. MovesTo(i, "forge") \/ MovesTo(i, "final")
      BY <2>4, AtMoves DEF Serviced, Everywhere
    <3> QED
      BY <1>p, <2>4, <3>1 DEF Serviced, files, GoesOn, Busy, Places
  <2>5. CASE Announce(i)
    BY <2>5, AtMoves DEF Announce, Announced, Everywhere
  <2>6. CASE Run(i)
    <3>1. CASE proc[i].stop
      <4>1. MovesTo(i, "final") /\ lease' = lease
        BY <2>6, <3>1, AtMoves DEF Run, Everywhere
      <4> QED
        BY <1>p, <2>6, <4>1 DEF Run, GoesOn, Busy, Places
    <3>2. CASE ~proc[i].stop
      <4>1. MovesTo(i, "run")
        BY <2>6, <3>2, AtMoves DEF Run, Everywhere
      <4> QED
        BY <2>6, <3>2, <4>1 DEF Run, Tells, Busy
    <3> QED
      BY <3>1, <3>2
  <2>7. CASE Attach(i)
    <3>1. Answering \in SUBSET Ids
      BY DEF Answering, TypeOK
    <3>2. MovesTo(i, proc[i].at)
      BY <2>7, <3>1, AttachEffect DEF Attach
    <3> QED
      BY <1>p, <2>7, <3>2 DEF Attach, GoesOn, Busy
  <2>8. CASE Stopped(i)
    <3>1. MovesTo(i, "final")
      BY <2>8, AtMoves DEF Stopped, HostTo, Everywhere
    <3> QED
      BY <1>p, <2>8, <3>1 DEF Stopped, HostTo, files, GoesOn, Busy, Places
  <2>9. CASE Raise(i)
    <3>1. MovesTo(i, "final") /\ proc[i].at \in Busy
      BY <2>9, AtMoves DEF Raise, Everywhere, Busy
    <3> QED
      BY <1>p, <2>9, <3>1 DEF Raise, GoesOn, Tells, Busy, Places
  <2>10. CASE Final(i)
    <3>1. lease' = lease
      BY <2>10 DEF Final, files
    <3>2. CASE proc' = Gone(i)
      BY <3>1, <3>2, GoneEnds DEF GoesOn
    <3>3. CASE /\ \E l \in lease : /\ l.phase # "failed"
                                   /\ IF proc[i].kind = "managed" THEN l.birth = {i}
                                      ELSE l.pid = proc[i].pid
               /\ proc' = At(i, "unlink")
      BY <2>10, <3>1, <3>3, AtMoves DEF Final, GoesOn, Everywhere
    <3> QED
      BY <2>10, <3>2, <3>3 DEF Final
  <2>11. CASE Unlink(i)
    BY <2>11, GoneEnds DEF Unlink, Leaves
  <2> QED
    BY <2>1, <2>2, <2>3, <2>4, <2>5, <2>6, <2>7, <2>8, <2>9, <2>10, <2>11 DEF Host
<1>6. proc' \in [Ids -> Process] /\ lease' \subseteq HostLease
  <2>1. proc' \in [Ids -> Process]
    BY <1>5 DEF GoesOn, Tells, Leaves, Announced, MovesTo, Ended, Others
  <2>2. lease' = lease \/ lease' = {} \/ \E phase \in {"starting", "running", "failed"} :
          lease' = {ManagedLease(i, phase)} \/ lease' = {DetachedLease(i, phase)}
    BY <1>5 DEF GoesOn, Tells, Leaves, Announced
  <2> QED
    BY <2>1, <2>2, LeaseTypes DEF TypeOK
<1> QED
  BY <1>1, <1>2, <1>3, <1>4, <1>5, <1>6 DEF TypeOK

-----------------------------------------------------------------------------
(* What holds of the processes and leases whatever is done to them.        *)

LEMMA ApartEffect == ASSUME TypeOK, Processes, Apart PROVE Effect
<1>1. "boot" \in Places("language") /\ "other" \in Places("other")
  BY DEF Places
<1>2. ASSUME NEW i \in Ids, MovesTo(i, "serve"), proc[i].at = "boot" PROVE Effect
  <2>1. proc[i].kind \in {"none", "managed", "detached", "language", "other"}
        /\ proc[i].at \in Places(proc[i].kind)
    BY DEF TypeOK, Process, Processes
  <2>2. "serve" \in Places(proc[i].kind)
    BY <1>2, <2>1 DEF Places
  <2>3. "serve" \in Everywhere
    BY DEF Everywhere
  <2> QED
    BY <1>2, <2>2, <2>3 DEF Effect
<1>3. ASSUME NEW i \in Ids, NEW sel \in SUBSET Selections, Born(i, "language", sel, "boot") PROVE Effect
  BY <1>1, <1>3 DEF Effect
<1>4. ASSUME NEW i \in Ids, Born(i, "other", {}, "other") PROVE Effect
  BY <1>1, <1>4 DEF Effect
<1> QED
  BY <1>2, <1>3, <1>4 DEF Apart, Effect

LEMMA HostEffect ==
    ASSUME TypeOK, Processes, NEW i \in Ids, GoesOn(i) \/ Tells(i) \/ Leaves(i) \/ Announced(i)
    PROVE  Effect
<1>1. proc[i].kind \in {"none", "managed", "detached", "language", "other"}
      /\ proc[i].at \in Places(proc[i].kind)
  BY DEF TypeOK, Process, Processes
<1>2. Ended(i) \/ \E a \in Everywhere : MovesTo(i, a) /\ a \in Places(proc[i].kind)
  BY <1>1 DEF GoesOn, Tells, Leaves, Announced, Everywhere, Places, Busy
<1> QED
  BY <1>2 DEF Effect

Persists(j) ==
    Alive(j)' =>
      \/ /\ Alive(j)
         /\ proc'[j].kind = proc[j].kind /\ proc'[j].pid = proc[j].pid /\ proc'[j].sel = proc[j].sel
      \/ ~Alive(j) /\ j \notin Named

LEMMA EffectPersists ==
    ASSUME TypeOK, Effect, NEW j \in Ids
    PROVE  Persists(j)
<1>1. CASE proc' = proc
  BY <1>1 DEF Persists, Alive
<1>2. CASE \E i \in Ids : Ended(i)
  BY <1>2, AbsentIs DEF Persists, Alive, Ended, Others
<1>3. CASE \E i \in Ids, a \in Everywhere : MovesTo(i, a) /\ a \in Places(proc[i].kind)
  BY <1>3 DEF Persists, Alive, MovesTo, Others
<1>4. CASE \E i \in Ids : \E kind, sel, at :
             /\ Born(i, kind, sel, at)
             /\ kind # "none" /\ at \in Places(kind) /\ (kind = "managed" => One(sel))
  BY <1>4 DEF Persists, Alive, Born, Others
<1> QED
  BY <1>1, <1>2, <1>3, <1>4 DEF Effect

LEMMA ProcessesKept == ASSUME TypeOK, Processes, Effect PROVE Processes'
<1>1. CASE proc' = proc
  BY <1>1 DEF Processes, Alive
<1>2. ASSUME NEW i \in Ids, Ended(i) PROVE Processes'
  <2>1. proc'[i].kind = "none" /\ proc'[i].at = "none" /\ proc'[i].pid = {}
    BY <1>2, AbsentIs DEF Ended
  <2>2. \A j \in Ids : j # i => proc'[j] = proc[j]
    BY <1>2 DEF Ended, Others
  <2>3. "none" \in Places("none")
    BY DEF Places
  <2> QED
    BY <2>1, <2>2, <2>3 DEF Processes, Alive
<1>3. ASSUME NEW i \in Ids, NEW a \in Everywhere, MovesTo(i, a), a \in Places(proc[i].kind)
      PROVE  Processes'
  BY <1>3 DEF Processes, Alive, MovesTo, Others
<1>4. ASSUME NEW i \in Ids, NEW kind, NEW sel, NEW at, Born(i, kind, sel, at), kind # "none",
             at \in Places(kind), kind = "managed" => One(sel)
      PROVE  Processes'
  <2>1. \A j \in Ids : j # i => proc'[j] = proc[j]
    BY <1>4 DEF Born, Others
  <2>2. PICK p \in Pids : proc'[i].pid = {p} /\ \A j \in Ids : p \notin proc[j].pid
    BY <1>4 DEF Born
  <2>3. proc'[i].kind = kind /\ proc'[i].sel = sel /\ proc'[i].at = at
    BY <1>4 DEF Born
  <2>4. \A j \in Ids : j # i => proc'[i].pid # proc'[j].pid
    BY <2>1, <2>2
  <2> QED
    BY <1>4, <2>1, <2>2, <2>3, <2>4 DEF Processes, Alive
<1> QED
  BY <1>1, <1>2, <1>3, <1>4 DEF Effect

\* What is in a lease, or a child of a caller, is not born again.
LEMMA NamedIs ==
    ASSUME NEW j \in Ids, j \notin Named
    PROVE  /\ \A l \in lease : j \notin l.birth
           /\ \A l \in lang : j \notin l.birth
           /\ \A l \in call.lease : j \notin l.birth
           /\ \A l \in call.lang : j \notin l.birth
           /\ j \notin call.child
           /\ \A a \in Ids \cup {Cli} : j \notin ensure[a].child
<1> DEFINE L == lease \cup lang \cup call.lease \cup call.lang
           B == UNION {l.birth : l \in L}
           C == UNION {ensure[a].child : a \in Ids \cup {Cli}}
           S == UNION {proc[i].svc : i \in Ids}
<1>0. Named = B \cup socket \cup call.child \cup C \cup S
  BY DEF Named
<1>1. \A l \in L : j \notin l.birth
  <2>1. j \notin B
    <3> HIDE DEF B, C, S
    <3> QED
      BY <1>0
  <2> HIDE DEF L
  <2> QED
    BY <2>1
<1>2. j \notin call.child
  <2> HIDE DEF B, C, S
  <2> QED
    BY <1>0
<1>3. \A a \in Ids \cup {Cli} : j \notin ensure[a].child
  <2>1. j \notin C
    <3> HIDE DEF B, C, S
    <3> QED
      BY <1>0
  <2> QED
    BY <2>1
<1> QED
  BY <1>1, <1>2, <1>3

\* A lease of a step: one that was there, one without a birth identity, or the lease
\* of a managed host.
NewLease(l) ==
    \/ l.birth = {} /\ l.phase # "failed"
    \/ \E i \in Ids : l.birth = {i} /\ Alive(i)' /\ Describes(l, i)'

LEMMA LeasesKept ==
    ASSUME TypeOK, Processes, Leases, Effect, ServiceKnown,
           One(lease'), \A l \in lease' : l \in lease \/ NewLease(l),
           \A l \in call'.lease : l \in call.lease \/ l \in lease,
           \A l \in call'.lang : l \in call.lang \/ l \in lang,
           \A i \in Ids : proc'[i].kind = "detached" /\ proc'[i].at # "spawned" =>
               (proc[i].at # "spawned" /\ Alive(i)) \/ \A l \in lease' : l.birth = {}
    PROVE  Leases'
<1>1. ASSUME NEW j \in Ids PROVE Persists(j)
  BY EffectPersists
<1>2. Processes'
  BY ProcessesKept
<1>3. ASSUME NEW l \in lease \cup call.lease, NEW j \in l.birth, j \in Ids, Alive(j)'
      PROVE  Describes(l, j)'
  <2>1. j \in Named
    BY <1>3, NamedIs
  <2> QED
    BY <1>1, <1>3, <2>1 DEF Leases, Describes, Persists
<1>4. ASSUME NEW l \in lang \cup call.lang, NEW j \in l.birth, j \in Ids, Alive(j)'
      PROVE  proc'[j].kind = "language"
  <2>1. j \in Named
    BY <1>4, NamedIs
  <2> QED
    BY <1>1, <1>4, <2>1 DEF Leases, Persists
<1>5. ASSUME NEW a \in Ids \cup {Cli}, NEW j \in ensure[a].child, j \in Ids, Alive(j)'
      PROVE  proc'[j].kind = "language"
  <2>1. j \in Named
    BY <1>5, NamedIs
  <2> QED
    BY <1>1, <1>5, <2>1 DEF Leases, Persists
<1>t. /\ \A l \in lease \cup call.lease : l.birth \subseteq Ids
      /\ \A l \in lang \cup call.lang : l.birth \subseteq Ids
      /\ \A a \in Ids \cup {Cli} : ensure[a].child \subseteq Ids
  BY DEF TypeOK, HostLease, ServiceLease, Caller, CallRecord
<1>6. ASSUME NEW l \in lease', NEW j \in l.birth, Alive(j)'
      PROVE  Describes(l, j)'
  <2>1. CASE l \in lease
    BY <1>3, <1>6, <1>t, <2>1
  <2>2. CASE NewLease(l)
    BY <1>6, <2>2 DEF NewLease
  <2> QED
    BY <1>6, <2>1, <2>2
<1>7. ASSUME NEW i \in Ids, proc'[i].kind = "detached", proc'[i].at # "spawned",
             NEW l \in lease', l.pid = proc'[i].pid
      PROVE  l.birth = {}
  <2>1. CASE l \in lease /\ proc[i].at # "spawned" /\ Alive(i)
    <3>1. Alive(i)'
      BY <1>7 DEF Alive
    <3>2. proc[i].kind = "detached" /\ proc[i].pid = proc'[i].pid
      BY <1>1, <1>7, <2>1, <3>1 DEF Persists
    <3> QED
      BY <1>7, <2>1, <3>2 DEF Leases
  <2>2. CASE NewLease(l)
    <3>1. ASSUME NEW k \in Ids, l.birth = {k}, Alive(k)', Describes(l, k)' PROVE FALSE
      <4>1. proc'[k].pid = proc'[i].pid /\ proc'[k].kind = "managed"
        BY <1>7, <3>1 DEF Describes
      <4>2. k = i
        BY <1>2, <3>1, <4>1 DEF Processes
      <4> QED
        BY <1>7, <4>1, <4>2
    <3> QED
      BY <2>2, <3>1 DEF NewLease
  <2> QED
    BY <1>7, <2>1, <2>2
<1>8. ASSUME NEW l \in call'.lease, NEW j \in l.birth, Alive(j)' PROVE Describes(l, j)'
  BY <1>3, <1>8, <1>t
<1>9. ASSUME NEW l \in lang', NEW j \in l.birth, Alive(j)' PROVE proc'[j].kind = "language"
  <2>1. CASE \E m \in lang : j \in m.birth
    BY <1>4, <1>9, <1>t, <2>1
  <2>2. CASE \E b \in Ids \cup {Cli} : j \in ensure[b].child
    BY <1>5, <1>9, <1>t, <2>2
  <2> QED
    BY <1>9, <2>1, <2>2 DEF ServiceKnown
<1>10. ASSUME NEW l \in call'.lang, NEW j \in l.birth, Alive(j)' PROVE proc'[j].kind = "language"
  BY <1>4, <1>10, <1>t
<1>11. ASSUME NEW a \in Ids \cup {Cli}, NEW j \in ensure'[a].child, Alive(j)'
       PROVE  proc'[j].kind = "language"
  BY <1>5, <1>11, <1>t DEF ServiceKnown
<1>12. ASSUME NEW l \in lease', l.birth = {} PROVE l.phase # "failed"
  BY <1>12 DEF Leases, NewLease
<1> QED
  BY <1>6, <1>7, <1>8, <1>9, <1>10, <1>11, <1>12 DEF Leases

-----------------------------------------------------------------------------
(* The hosts in use.                                                       *)

LEMMA UserIs ==
    ASSUME TypeOK, Processes, NEW i \in Ids, InUse(i)
    PROVE  Alive(i) /\ proc[i].kind \in {"managed", "detached"} /\ proc[i].at # "spawned"
  BY DEF TypeOK, Process, Processes, InUse, Places, Alive

\* One host at most is in use, since the lease names it.
LEMMA OneUser ==
    ASSUME TypeOK, Processes, Leases, Leased, NEW i \in Ids, NEW j \in Ids, InUse(i), InUse(j)
    PROVE  i = j
<1>1. Alive(i)
  BY UserIs
<1>2. PICK l \in lease : Names(l, i)
  BY DEF Leased
<1>3. PICK m \in lease : Names(m, j)
  BY DEF Leased
<1>4. l = m
  BY <1>2, <1>3 DEF Leases, One
<1>5. proc[i].pid = proc[j].pid
  BY <1>2, <1>3, <1>4 DEF Names
<1> QED
  BY <1>1, <1>5 DEF Processes

\* The status file cleaner leaves the lease of a host in use alone ...
KeepsLease == lease' \subseteq lease /\ \A i \in Ids, l \in lease : InUse(i) /\ Names(l, i) => l \in lease'

LEMMA StatusKeeps ==
    ASSUME TypeOK, Processes, lease' = StatusLease
    PROVE  KeepsLease
<1>1. ASSUME NEW i \in Ids, NEW l \in lease, InUse(i), Names(l, i) PROVE l \in StatusLease
  <2>1. Alive(i) /\ proc[i].kind \in {"managed", "detached"}
    BY <1>1, UserIs
  <2>2. i \in Holding(l)
    BY <1>1, <2>1 DEF Holding, Names
  <2>3. l.birth # {} \/ matches(l)
    BY <2>1, <2>2 DEF matches
  <2> QED
    BY <2>3 DEF StatusLease
<1> QED
  BY <1>1 DEF KeepsLease, StatusLease

LEMMA StateIs ==
    ASSUME One(lease), NEW l \in lease
    PROVE  SupervisorState = IF owns_process(l) \/ (l.birth = {} /\ matches(l)) THEN l.phase ELSE "stale"
<1>1. (CHOOSE x \in lease : TRUE) \in lease
  OBVIOUS
<1>2. (CHOOSE x \in lease : TRUE) = l
  BY <1>1 DEF One
<1> QED
  BY <1>2 DEF SupervisorState

\* ... and reports that host.
LEMMA UserReported ==
    ASSUME TypeOK, Processes, Leases, Leased, NEW i \in Ids, InUse(i)
    PROVE  SupervisorState \in {"starting", "running"}
<1>1. Alive(i) /\ proc[i].kind \in {"managed", "detached"}
  BY UserIs
<1>2. PICK l \in lease : Names(l, i) /\ l.phase # "failed"
  BY DEF Leased
<1>3. i \in Holding(l)
  BY <1>1, <1>2 DEF Holding, Names
<1>4. owns_process(l) \/ (l.birth = {} /\ matches(l))
  BY <1>1, <1>2, <1>3 DEF owns_process, matches, Names
<1>5. l.phase \in {"starting", "running"}
  BY <1>2 DEF TypeOK, HostLease
<1>6. One(lease)
  BY DEF Leases
<1> QED
  BY <1>4, <1>5, <1>6, StateIs

Steady(j) ==
    /\ InUse(j)' =>
         /\ InUse(j) /\ proc'[j].kind = proc[j].kind /\ proc'[j].pid = proc[j].pid
         /\ proc[j].at \in {"final", "unlink"} => proc'[j].at \in {"final", "unlink"}
    /\ proc'[j].at = "spawned" => proc[j].at = "spawned"

\* A process that stays as it is, ends, or is born without a lease.
LEMMA SameSteady ==
    ASSUME TypeOK, NEW j \in Ids, lease' \subseteq lease,
           \/ proc'[j] = proc[j] \/ proc'[j] = Absent
           \/ /\ proc'[j].kind = proc[j].kind /\ proc'[j].pid = proc[j].pid
              /\ proc'[j].at = proc[j].at
    PROVE  Steady(j)
  BY AbsentIs DEF Steady, InUse, Names

LEMMA BornSteady ==
    ASSUME TypeOK, NEW i \in Ids, NEW kind, NEW sel, NEW at, Born(i, kind, sel, at), lease' \subseteq lease,
           at \in {"boot", "other"} \/ (at = "wait" /\ kind = "managed")
    PROVE  Steady(i)
<1>1. CASE at \in {"boot", "other"}
  BY <1>1 DEF Steady, InUse, Born
<1>2. CASE at = "wait" /\ kind = "managed"
  <2>1. \A l \in lease : i \notin l.birth
    BY NamedIs DEF Born
  <2> QED
    BY <1>2, <2>1 DEF Steady, InUse, Names, Born
<1> QED
  BY <1>1, <1>2

LEMMA ApartSteady ==
    ASSUME TypeOK, Processes, Apart, lease' \subseteq lease, NEW j \in Ids
    PROVE  Steady(j)
<1>1. CASE proc' = proc
  BY <1>1, SameSteady
<1>2. ASSUME NEW i \in Ids, Ended(i) PROVE Steady(j)
  BY <1>2, SameSteady DEF Ended, Others
<1>3. ASSUME NEW i \in Ids, NEW kind, NEW sel, Born(i, kind, sel, "boot") \/ Born(i, kind, sel, "other")
      PROVE  Steady(j)
  <2>1. CASE j = i
    BY <1>3, <2>1, BornSteady
  <2>2. CASE j # i
    <3>1. proc'[j] = proc[j]
      BY <1>3, <2>2 DEF Born, Others
    <3> QED
      BY <3>1, SameSteady
  <2> QED
    BY <2>1, <2>2
<1>4. ASSUME NEW i \in Ids, MovesTo(i, "serve"), proc[i].at = "boot" PROVE Steady(j)
  <2>1. CASE j = i
    BY <1>4, <2>1 DEF MovesTo, Steady, InUse
  <2>2. CASE j # i
    <3>1. proc'[j] = proc[j]
      BY <1>4, <2>2 DEF MovesTo, Others
    <3> QED
      BY <3>1, SameSteady
  <2> QED
    BY <2>1, <2>2
<1> QED
  BY <1>1, <1>2, <1>3, <1>4 DEF Apart

LEMMA SteadyLeased ==
    ASSUME Leased, \A j \in Ids : Steady(j), KeepsLease
    PROVE  Leased'
<1> SUFFICES ASSUME NEW j \in Ids, InUse(j)'
             PROVE  \E l \in lease' : Names(l, j)' /\ l.phase # "failed"
  BY DEF Leased
<1>1. InUse(j) /\ proc'[j].kind = proc[j].kind /\ proc'[j].pid = proc[j].pid
  BY DEF Steady
<1>2. PICK l \in lease : Names(l, j) /\ l.phase # "failed"
  BY <1>1 DEF Leased
<1>3. l \in lease'
  BY <1>1, <1>2 DEF KeepsLease
<1> QED
  BY <1>1, <1>2, <1>3 DEF Names

LEMMA SteadyQuiet ==
    ASSUME Quiet, \A j \in Ids : Steady(j), stopped' => stopped
    PROVE  Quiet'
  BY DEF Quiet, Steady

LEMMA SteadySpawned ==
    ASSUME Spawned, \A j \in Ids : Steady(j), lease' \subseteq lease, call' = call
    PROVE  Spawned'
  BY DEF Spawned, Steady

\* What the leases say of living processes stays true of them.
LEMMA StillTrue ==
    ASSUME TypeOK, Effect, NEW l \in lease \cup call.lease, NEW i \in l.birth, Alive(i)'
    PROVE  i \in Ids /\ Alive(i) /\ proc'[i].sel = proc[i].sel
<1>1. i \in Ids
  BY DEF TypeOK, HostLease, CallRecord
<1>2. i \in Named
  BY <1>1, NamedIs
<1> QED
  BY <1>1, <1>2, EffectPersists DEF Persists

LEMMA SteadyKnown ==
    ASSUME TypeOK, Effect, Known, \A j \in Ids : Steady(j), lease' \subseteq lease, call' = call
    PROVE  Known'
<1>1. ASSUME call.step = "read", ~call.incompatible, NEW l \in lease', NEW i \in l.birth, Alive(i)'
      PROVE  proc'[i].sel = call.sel
  <2>1. l \in lease
    BY <1>1
  <2> QED
    BY <1>1, <2>1, StillTrue DEF Known
<1>2. ASSUME call.step \in Controlling, NEW l \in call.lease, NEW i \in l.birth, Alive(i)',
             NEW s \in proc'[i].sel, NEW t \in call.sel
      PROVE  s.owner = t.owner
  <2>1. i \in Ids /\ Alive(i) /\ proc'[i].sel = proc[i].sel
    BY <1>2, StillTrue
  <2> QED
    BY <1>2, <2>1 DEF Known
<1>3. \A i \in Ids : InUse(i)' => InUse(i)
  BY DEF Steady
<1> QED
  BY <1>1, <1>2, <1>3 DEF Known

LEMMA SteadyControl ==
    ASSUME TypeOK, Effect, Control, \A j \in Ids : Steady(j), KeepsLease, call' = call,
           stopped' = stopped, interrupted' = interrupted
    PROVE  Control'
<1> SUFFICES ASSUME ~interrupted PROVE Leased' /\ Known' /\ Spawned' /\ Quiet'
  BY DEF Control
<1>1. Leased /\ Known /\ Spawned /\ Quiet
  BY DEF Control
<1>2. lease' \subseteq lease
  BY DEF KeepsLease
<1> QED
  BY <1>1, <1>2, SteadyLeased, SteadyKnown, SteadySpawned, SteadyQuiet

\* The calls of a step that leaves them alone.
LEMMA CallsKept ==
    ASSUME TypeOK, Processes, Effect, Calls, call' = call, stopped' = stopped,
           \A l \in lease' : l \in lease \/ \A j \in Ids : j \in l.birth => proc[j].at \in Busy,
           \A i \in Ids : proc[i].at = "wait" /\ (\A l \in lease : i \notin l.birth) /\ Alive(i)' =>
                proc'[i].at = "wait"
    PROVE  Calls'
<1>1. ASSUME NEW i \in Ids, call.child = {i}, Alive(i)'
      PROVE  Alive(i) /\ proc'[i].kind = proc[i].kind /\ proc'[i].pid = proc[i].pid
  <2>1. i \in Named
    BY <1>1, NamedIs
  <2> QED
    BY <1>1, <2>1, EffectPersists DEF Persists
<1>2. ASSUME call.step \in {"await", "reap", "register"}
      PROVE  \E i \in Ids :
                /\ call.child = {i}
                /\ Alive(i)' => /\ call.pid = proc'[i].pid
                                /\ call.step = "register" => proc'[i].at = "wait"
                                /\ call.step # "register" => proc'[i].kind = "detached"
                /\ call.step = "register" => \A l \in lease' : i \notin l.birth
  <2>1. PICK i \in Ids :
          /\ call.child = {i}
          /\ Alive(i) => /\ call.pid = proc[i].pid
                         /\ call.step = "register" => proc[i].at = "wait"
                         /\ call.step # "register" => proc[i].kind = "detached"
          /\ call.step = "register" => \A l \in lease : i \notin l.birth
    BY <1>2 DEF Calls
  <2>2. ASSUME call.step = "register", NEW l \in lease', i \in l.birth PROVE FALSE
    <3>1. Alive(i) => proc[i].at = "wait"
      BY <2>1, <2>2
    <3>2. ~Alive(i) => proc[i].at = "none"
      BY DEF Alive, Processes, Places, TypeOK, Process
    <3> QED
      BY <2>1, <2>2, <3>1, <3>2 DEF Busy
  <2> QED
    BY <1>1, <2>1, <2>2
<1> QED
  BY <1>2 DEF Calls

-----------------------------------------------------------------------------
(* The steps that leave the calls alone.                                   *)

LEMMA ApartKept ==
    ASSUME IInv, Apart, TypeOK', ServiceKnown, UNCHANGED <<lease, call, stopped, interrupted>>
    PROVE  IInv'
<1>1. TypeOK /\ Processes /\ Leases /\ Calls /\ Control
  BY DEF IInv
<1>2. Effect
  BY <1>1, ApartEffect
<1>3. Processes'
  BY <1>1, <1>2, ProcessesKept
<1>4. \A j \in Ids : Steady(j)
  BY <1>1, ApartSteady
<1>5. Control'
  BY <1>1, <1>2, <1>4, SteadyControl DEF KeepsLease
<1>6. ASSUME NEW i \in Ids, proc[i].at = "wait", Alive(i)' PROVE proc'[i].at = "wait"
  <2>1. \A j \in Ids : Ended(j) => proc'[i] = proc[i]
    BY <1>6, AbsentIs DEF Ended, Others, Alive
  <2>2. \A j \in Ids : MovesTo(j, "serve") /\ proc[j].at = "boot" => proc'[i] = proc[i]
    BY <1>6 DEF MovesTo, Others
  <2>3. Alive(i)
    BY <1>1, <1>6 DEF Alive, Processes, Places
  <2>4. \A j \in Ids : \A kind, sel, at : Born(j, kind, sel, at) => proc'[i] = proc[i]
    BY <2>3 DEF Born, Others
  <2>5. proc'[i] = proc[i]
    BY <2>1, <2>2, <2>4 DEF Apart
  <2> QED
    BY <1>6, <2>5
<1>7. Calls'
  BY <1>1, <1>2, <1>6, CallsKept
<1>8. \A i \in Ids : proc'[i].kind = "detached" => Alive(i) /\ proc'[i].at = proc[i].at
  <2>1. ASSUME NEW i \in Ids, NEW j \in Ids, proc'[i].kind = "detached", Ended(j)
        PROVE  Alive(i) /\ proc'[i].at = proc[i].at
    BY <2>1, AbsentIs DEF Ended, Others, Alive
  <2>2. ASSUME NEW i \in Ids, NEW j \in Ids, proc'[i].kind = "detached", MovesTo(j, "serve"),
               proc[j].at = "boot"
        PROVE  Alive(i) /\ proc'[i].at = proc[i].at
    <3>1. i # j
      BY <1>1, <2>2 DEF MovesTo, Processes, Places
    <3> QED
      BY <2>2, <3>1 DEF MovesTo, Others, Alive
  <2>3. ASSUME NEW i \in Ids, NEW j \in Ids, NEW kind, NEW sel, NEW at,
               proc'[i].kind = "detached", Born(j, kind, sel, at), kind # "detached"
        PROVE  Alive(i) /\ proc'[i].at = proc[i].at
    BY <2>3 DEF Born, Others, Alive
  <2>4. CASE proc' = proc
    BY <2>4 DEF Alive
  <2> QED
    BY <2>1, <2>2, <2>3, <2>4 DEF Apart
<1>9. Leases'
  <2>1. One(lease') /\ \A l \in lease' : l \in lease
    BY <1>1 DEF Leases
  <2>2. (\A l \in call'.lease : l \in call.lease) /\ (\A l \in call'.lang : l \in call.lang)
    OBVIOUS
  <2>3. \A i \in Ids : proc'[i].kind = "detached" /\ proc'[i].at # "spawned" =>
          proc[i].at # "spawned" /\ Alive(i)
    BY <1>8
  <2> QED
    BY <1>1, <1>2, <2>1, <2>2, <2>3, LeasesKept
<1> QED
  BY <1>3, <1>5, <1>7, <1>9 DEF IInv

LEMMA EnsureKept == ASSUME IInv, Ensure PROVE IInv'
<1>1. TypeOK /\ UNCHANGED <<lease, endpoint, durable, call, stopped, interrupted, events>>
  BY DEF IInv, Ensure, EnsureProbe, EnsureReplace, EnsureLease, EnsurePoll, files
<1>2. Apart /\ ServiceKnown /\ ServiceTypes
  BY <1>1, EnsureStep
<1>3. proc' \in [Ids -> Process]
  BY <1>1, <1>2 DEF Apart, Ended, Born, MovesTo, Others, TypeOK
<1>4. TypeOK'
  BY <1>1, <1>2, <1>3 DEF TypeOK, ServiceTypes
<1> QED
  BY <1>1, <1>2, <1>4, ApartKept

LEMMA EnvironmentKept == ASSUME IInv, Environment PROVE IInv'
<1>1. TypeOK
  BY DEF IInv
<1>2. /\ Apart /\ TypeOK' /\ UNCHANGED <<lease, lang, call, stopped, interrupted>>
      /\ \A b \in Ids \cup {Cli} : ensure'[b].child \subseteq ensure[b].child
  BY <1>1, EnvironmentStep
<1>3. ServiceKnown
  BY <1>2 DEF ServiceKnown
<1> QED
  BY <1>2, <1>3, ApartKept

-----------------------------------------------------------------------------
(* The steps of the hosts.                                                 *)

LEMMA GoesOnSteady ==
    ASSUME TypeOK, Processes, Leases, Leased, NEW i \in Ids, GoesOn(i), NEW j \in Ids
    PROVE  Steady(j)
<1>1. CASE Ended(i)
  BY <1>1, SameSteady DEF Ended, Others, GoesOn
<1>2. ASSUME NEW a, MovesTo(i, a), j # i PROVE Steady(j)
  <2>1. proc'[j] = proc[j]
    BY <1>2 DEF MovesTo, Others
  <2> QED
    BY <2>1, SameSteady DEF GoesOn
<1>3. CASE j = i /\ MovesTo(i, "enter") /\ proc[i].at = "wait" /\ Registered(i)
  <2>1. PICK l \in lease : l.birth = {i}
    BY <1>3 DEF Registered
  <2>2. Alive(i) /\ proc[i].kind = "managed"
    BY <1>3 DEF Processes, Places, Alive, TypeOK, Process
  <2>3. l.pid = proc[i].pid
    BY <2>1, <2>2 DEF Leases, Describes
  <2>4. InUse(i)
    BY <1>3, <2>1, <2>2, <2>3 DEF InUse, Names
  <2> QED
    BY <1>3, <2>4 DEF Steady, MovesTo
<1>4. CASE j = i /\ \E a \in Busy \cup {"final"} :
             MovesTo(i, a) /\ a \in Places(proc[i].kind) /\ proc[i].at \in Busy
  BY <1>4 DEF Steady, MovesTo, InUse, Busy
<1>5. CASE /\ j = i /\ MovesTo(i, "unlink") /\ proc[i].at = "final"
           /\ \E l \in lease : /\ l.phase # "failed"
                               /\ IF proc[i].kind = "managed" THEN l.birth = {i} ELSE l.pid = proc[i].pid
  <2>1. PICK l \in lease : /\ l.phase # "failed"
                           /\ IF proc[i].kind = "managed" THEN l.birth = {i} ELSE l.pid = proc[i].pid
    BY <1>5
  <2>2. Alive(i) /\ proc[i].kind \in {"managed", "detached"}
    BY <1>5 DEF Processes, Places, Alive, TypeOK, Process
  <2>3. Names(l, i)
    <3>1. CASE proc[i].kind = "managed"
      BY <2>1, <2>2, <3>1 DEF Leases, Describes, Names
    <3>2. CASE proc[i].kind = "detached"
      BY <1>5, <2>1, <3>2 DEF Leases, Names
    <3> QED
      BY <2>2, <3>1, <3>2
  <2>4. InUse(i)
    BY <1>5, <2>1, <2>3 DEF InUse
  <2> QED
    BY <1>5, <2>4 DEF Steady, MovesTo
<1> QED
  BY <1>1, <1>2, <1>3, <1>4, <1>5 DEF GoesOn

\* Only the host moves, and only the host in use becomes or stays so.
HostAlone(i) == \A j \in Ids : j # i => ~InUse(j)' /\ proc'[j] = proc[j]

LEMMA OwnerAlone ==
    ASSUME TypeOK, Processes, Leases, Leased, NEW i \in Ids, InUse(i), Others(i),
           \A l \in lease' : l.pid = proc[i].pid
    PROVE  HostAlone(i)
<1> SUFFICES ASSUME NEW j \in Ids, j # i PROVE ~InUse(j)' /\ proc'[j] = proc[j]
  BY DEF HostAlone
<1>1. proc'[j] = proc[j]
  BY DEF Others
<1>2. ~InUse(j)
  BY OneUser
<1>3. Alive(i)
  BY UserIs
<1>4. proc[j].pid # proc[i].pid
  BY <1>3 DEF Processes
<1> QED
  BY <1>1, <1>2, <1>4 DEF InUse, Names

LEMMA TellsControl ==
    ASSUME TypeOK, Processes, Leases, Calls, Effect, Leased, Known, Spawned, Quiet, NEW i \in Ids,
           Tells(i) \/ Leaves(i), UNCHANGED <<call, stopped>>
    PROVE  Leased' /\ Known' /\ Spawned' /\ Quiet'
<1>1. InUse(i)
  BY DEF Tells, Leaves, InUse, Busy
<1>2. Others(i)
  BY DEF Tells, Leaves, MovesTo, Ended
<1>3. \A l \in lease' : l.pid = proc[i].pid /\ (l.birth = {} \/ l.birth = {i})
  BY LeaseTypes DEF Tells, Leaves
<1>4. HostAlone(i)
  BY <1>1, <1>2, <1>3, OwnerAlone
<1>5. PICK l0 \in lease : Names(l0, i) /\ l0.phase # "failed"
  BY <1>1 DEF Leased
<1>6. InUse(i)' => /\ proc'[i].at = "run" /\ proc[i].at = "forge"
                   /\ proc'[i].kind = proc[i].kind /\ proc'[i].pid = proc[i].pid
                   /\ lease' = {IF proc[i].kind = "managed" THEN ManagedLease(i, "running")
                                ELSE DetachedLease(i, "running")}
  <2>1. CASE MovesTo(i, "final") /\ proc[i].kind = "managed" /\ lease' = {ManagedLease(i, "failed")}
    BY <2>1, LeaseTypes DEF InUse, MovesTo
  <2>2. CASE Ended(i)
    BY <2>2, AbsentIs DEF InUse, Ended
  <2> QED
    BY <2>1, <2>2 DEF Tells, Leaves, MovesTo
<1>7. Leased'
  <2> SUFFICES ASSUME NEW j \in Ids, InUse(j)' PROVE \E l \in lease' : Names(l, j)' /\ l.phase # "failed"
    BY DEF Leased
  <2>1. j = i
    BY <1>4 DEF HostAlone
  <2> DEFINE l == IF proc[i].kind = "managed" THEN ManagedLease(i, "running")
                  ELSE DetachedLease(i, "running")
  <2>2. l.pid = proc[i].pid /\ l.phase = "running"
        /\ l.birth = IF proc[i].kind = "managed" THEN {i} ELSE {}
    BY LeaseTypes
  <2>3. lease' = {l} /\ proc'[i].kind = proc[i].kind /\ proc'[i].pid = proc[i].pid
    BY <1>6, <2>1
  <2> HIDE DEF l
  <2> QED
    BY <2>1, <2>2, <2>3 DEF Names
<1>8. Quiet'
  BY <1>1, <1>4, <1>6 DEF Quiet, HostAlone
<1>9. \A j \in Ids : proc'[j].at # "spawned"
  <2>1. ASSUME NEW j \in Ids, proc'[j].at = "spawned" PROVE FALSE
    <3>1. j # i
      BY <2>1, AbsentIs DEF Tells, Leaves, MovesTo, Ended
    <3>2. proc[j].at = "spawned"
      BY <1>4, <2>1, <3>1 DEF HostAlone
    <3>3. call.step = "await" /\ call.child = {j}
      BY <3>2 DEF Spawned
    <3>4. i \in call.child
      BY <1>1, <3>3 DEF Known
    <3> QED
      BY <3>1, <3>3, <3>4
  <2> QED
    BY <2>1
<1>10. Known'
  <2>1. ASSUME call.step = "read", ~call.incompatible, NEW l \in lease', NEW j \in l.birth, Alive(j)'
        PROVE  proc'[j].sel = call.sel
    <3>1. j = i
      BY <1>3, <2>1
    <3>2. proc'[i].sel = proc[i].sel /\ proc[i].kind = "managed"
      BY <2>1, <3>1, LeaseTypes DEF Tells, Leaves, MovesTo
    <3>3. i \in l0.birth /\ Alive(i)
      BY <1>1, <1>5, <3>2, UserIs DEF Names
    <3>4. proc[i].sel = call.sel
      BY <2>1, <3>3 DEF Known
    <3> QED
      BY <3>1, <3>2, <3>4
  <2>2. ASSUME call.step \in Controlling, NEW l \in call.lease, NEW j \in l.birth, Alive(j)',
               NEW s \in proc'[j].sel, NEW t \in call.sel
        PROVE  s.owner = t.owner
    <3>1. j \in Ids /\ Alive(j) /\ proc'[j].sel = proc[j].sel
      BY <2>2, StillTrue
    <3> QED
      BY <2>2, <3>1 DEF Known
  <2>3. \A j \in Ids : InUse(j)' => InUse(j)
    BY <1>1, <1>4 DEF HostAlone
  <2>4. call.step = "spawn" => FALSE
    BY <1>1 DEF Known, Calls
  <2> QED
    BY <2>1, <2>2, <2>3, <2>4 DEF Known
<1> QED
  BY <1>7, <1>8, <1>9, <1>10 DEF Spawned

LEMMA AnnouncedControl ==
    ASSUME TypeOK, Processes, Leases, Effect, Leased, Known, Spawned, Quiet, Calls, NEW i \in Ids,
           Announced(i), UNCHANGED <<call, stopped>>
    PROVE  Leased' /\ Known' /\ Spawned' /\ Quiet'
<1>1. call.step = "await" /\ call.child = {i}
  BY DEF Announced, Spawned
<1>2. Others(i) /\ proc'[i].at = "forge" /\ proc'[i].kind = proc[i].kind /\ proc'[i].pid = proc[i].pid
  BY DEF Announced, MovesTo
<1>3. proc[i].kind = "detached" /\ Alive(i)
  BY DEF Announced, Processes, Places, TypeOK, Process, Alive
<1> DEFINE l == DetachedLease(i, "starting")
<1>4. lease' = {l} /\ l.pid = proc[i].pid /\ l.birth = {} /\ l.phase = "starting"
  BY LeaseTypes DEF Announced
<1> HIDE DEF l
<1>5. ASSUME NEW j \in Ids, j # i PROVE ~InUse(j)' /\ proc'[j].at # "spawned"
  <2>1. proc'[j] = proc[j]
    BY <1>2, <1>5 DEF Others
  <2>2. ~InUse(j)
    BY <1>1, <1>5 DEF Known
  <2>3. proc[j].at # "spawned"
    BY <1>1, <1>5 DEF Spawned
  <2>4. proc[j].pid # proc[i].pid
    BY <1>3, <1>5 DEF Processes
  <2> QED
    BY <1>4, <2>1, <2>2, <2>3, <2>4 DEF InUse, Names
<1>6. Leased'
  BY <1>2, <1>3, <1>4, <1>5 DEF Leased, Names
<1>7. ~stopped
  <2>1. call.op # "none"
    BY <1>1 DEF Calls, NoCall
  <2> QED
    BY <2>1 DEF Calls
<1>8. Known'
  BY <1>1, <1>5 DEF Known, Controlling
<1> QED
  BY <1>2, <1>5, <1>6, <1>7, <1>8 DEF Spawned, Quiet

LEMMA HostKept == ASSUME IInv, NEW i \in Ids, Host(i) PROVE IInv'
<1>1. TypeOK /\ Processes /\ Leases /\ Calls /\ Control
  BY DEF IInv
<1>2. /\ GoesOn(i) \/ Tells(i) \/ Leaves(i) \/ Announced(i)
      /\ UNCHANGED <<lang, call, stopped, interrupted>>
      /\ \A b \in Ids \cup {Cli} : ensure'[b].child \subseteq ensure[b].child
      /\ TypeOK'
  BY <1>1, HostStep
<1>3. Effect
  BY <1>1, <1>2, HostEffect
<1>4. Processes'
  BY <1>1, <1>3, ProcessesKept
<1>5. Ended(i) \/ \E a : MovesTo(i, a) /\ a # "spawned"
  BY <1>2 DEF GoesOn, Tells, Leaves, Announced, Busy
<1>6. Others(i) /\ (Alive(i)' => Alive(i) /\ proc'[i].kind = proc[i].kind)
  BY <1>5, AbsentIs DEF Ended, MovesTo, Alive
<1>7. \/ lease' = lease \/ lease' = {}
      \/ /\ One(lease') /\ \E a : MovesTo(i, a)
         /\ \/ \A l \in lease' : l.birth = {} /\ l.phase # "failed"
            \/ /\ proc[i].at \in Busy /\ proc[i].kind = "managed"
               /\ \A l \in lease' : l.birth = {i} /\ l.pid = proc[i].pid /\ l.sel = proc[i].sel
  <2>1. CASE GoesOn(i) \/ Leaves(i)
    BY <2>1 DEF GoesOn, Leaves
  <2>2. CASE Tells(i)
    <3>1. \E phase \in {"running", "failed"} :
             /\ phase = "failed" => proc[i].kind = "managed"
             /\ lease' = {IF proc[i].kind = "managed" THEN ManagedLease(i, phase)
                         ELSE DetachedLease(i, phase)}
      BY <2>2 DEF Tells
    <3>2. proc[i].at \in Busy /\ \E a : MovesTo(i, a)
      BY <2>2 DEF Tells
    <3> QED
      BY <1>1, <3>1, <3>2, LeaseTypes DEF One
  <2>3. CASE Announced(i)
    BY <1>1, <2>3, LeaseTypes DEF Announced, One
  <2> QED
    BY <1>2, <2>1, <2>2, <2>3
<1>8. Calls'
  <2>1. ASSUME NEW j \in Ids, proc[j].at = "wait", \A l \in lease : j \notin l.birth, Alive(j)'
        PROVE  proc'[j].at = "wait"
    <3>1. CASE j # i
      BY <1>6, <2>1, <3>1 DEF Others
    <3>2. CASE j = i
      BY <1>2, <2>1, <3>2, AbsentIs
         DEF GoesOn, Tells, Leaves, Announced, Registered, Ended, Alive, Busy
    <3> QED
      BY <3>1, <3>2
  <2>2. \A l \in lease' : l \in lease \/ \A j \in Ids : j \in l.birth => proc[j].at \in Busy
    BY <1>7
  <2> QED
    BY <1>1, <1>2, <1>3, <2>1, <2>2, CallsKept
<1>9. Leases'
  <2>1. One(lease')
    BY <1>1, <1>7 DEF Leases, One
  <2>2. \A l \in lease' : l \in lease \/ NewLease(l)
    <3>1. ASSUME NEW l \in lease', l.birth = {i}, proc[i].kind = "managed",
                 l.pid = proc[i].pid, l.sel = proc[i].sel, NEW a, MovesTo(i, a)
          PROVE  NewLease(l)
      BY <3>1 DEF NewLease, MovesTo, Alive, Describes
    <3> QED
      BY <1>7, <3>1 DEF NewLease
  <2>3. \A j \in Ids : proc'[j].kind = "detached" /\ proc'[j].at # "spawned" =>
          (proc[j].at # "spawned" /\ Alive(j)) \/ \A l \in lease' : l.birth = {}
    <3>1. ASSUME NEW j \in Ids, proc'[j].kind = "detached", proc'[j].at # "spawned",
                 proc[j].at = "spawned" \/ ~Alive(j)
          PROVE  \A l \in lease' : l.birth = {}
      <4>1. j = i
        BY <1>6, <3>1 DEF Others, Alive
      <4>2. Alive(i)'
        BY <3>1, <4>1 DEF Alive
      <4>3. proc[i].at = "spawned"
        BY <1>6, <3>1, <4>1, <4>2
      <4>4. ~Ended(i)
        BY <3>1, <4>1, AbsentIs DEF Ended
      <4>5. Announced(i)
        BY <1>2, <4>3, <4>4 DEF GoesOn, Tells, Leaves, Busy
      <4> QED
        BY <1>1, <4>5, LeaseTypes DEF Announced
    <3> QED
      BY <3>1
  <2>4. (\A l \in call'.lease : l \in call.lease) /\ (\A l \in call'.lang : l \in call.lang)
    BY <1>2
  <2>5. ServiceKnown
    BY <1>2 DEF ServiceKnown
  <2> QED
    BY <1>1, <1>3, <2>1, <2>2, <2>3, <2>4, <2>5, LeasesKept
<1>10. Control'
  <2>1. CASE GoesOn(i)
    <3> SUFFICES ASSUME ~interrupted PROVE Leased' /\ Known' /\ Spawned' /\ Quiet'
      BY <1>2 DEF Control
    <3>1. Leased
      BY <1>1 DEF Control
    <3>2. \A j \in Ids : Steady(j)
      BY <1>1, <2>1, <3>1, GoesOnSteady
    <3>3. KeepsLease
      BY <2>1 DEF GoesOn, KeepsLease
    <3>4. Control'
      BY <1>1, <1>2, <1>3, <3>2, <3>3, SteadyControl
    <3> QED
      BY <1>2, <3>4 DEF Control
  <2>2. CASE Tells(i) \/ Leaves(i)
    BY <1>1, <1>2, <1>3, <2>2, TellsControl DEF Control
  <2>3. CASE Announced(i)
    BY <1>1, <1>2, <1>3, <2>3, AnnouncedControl DEF Control
  <2> QED
    BY <1>2, <2>1, <2>2, <2>3
<1> QED
  BY <1>2, <1>4, <1>8, <1>9, <1>10 DEF IInv

-----------------------------------------------------------------------------
(* The records of the calls.                                               *)

LEMMA NoCallIs ==
    /\ NoCall \in CallRecord /\ NoCall.op = "none" /\ NoCall.step = "none"
    /\ NoCall.lease = {} /\ NoCall.lang = {} /\ NoCall.child = {} /\ ~NoCall.incompatible
    /\ NoCall.sel = {}
  BY DEF NoCall, CallRecord, CallSteps

LEMMA StepIs ==
    ASSUME NEW r \in CallRecord, NEW s \in CallSteps
    PROVE  LET m == With(r, [step |-> s])
           IN /\ m \in CallRecord /\ m.step = s /\ m.op = r.op /\ m.sel = r.sel /\ m.child = r.child
              /\ m.pid = r.pid /\ m.lease = r.lease /\ m.lang = r.lang
  BY DEF CallRecord, With

LEMMA ReadIs ==
    ASSUME NEW r \in CallRecord, NEW s \in CallSteps, NEW l \in SUBSET HostLease, NEW k \in SUBSET ServiceLease
    PROVE  LET m == With(r, [step |-> s, lease |-> l, lang |-> k, incompatible |-> FALSE, ls |-> FALSE])
           IN /\ m \in CallRecord /\ m.step = s /\ m.op = r.op /\ m.sel = r.sel
              /\ m.lease = l /\ m.lang = k
  BY DEF CallRecord, With

LEMMA ChildIs ==
    ASSUME NEW r \in CallRecord, NEW s \in CallSteps, NEW i \in Ids, NEW p \in SUBSET Pids
    PROVE  LET m == With(r, [step |-> s, child |-> {i}, pid |-> p])
           IN /\ m \in CallRecord /\ m.step = s /\ m.op = r.op /\ m.sel = r.sel
              /\ m.child = {i} /\ m.pid = p
              /\ m.lease = r.lease /\ m.lang = r.lang
  BY DEF CallRecord, With

LEMMA StoppingStepIs ==
    ASSUME NEW r \in CallRecord
    PROVE  LET m == With(r, [step |-> "decide", stopping |-> TRUE])
           IN /\ m \in CallRecord /\ m.step = "decide" /\ m.op = r.op /\ m.sel = r.sel
              /\ m.lease = r.lease /\ m.lang = r.lang
  BY DEF CallRecord, CallSteps, With

LEMMA ReconcileIs ==
    ASSUME NEW s \in Selections, NEW stop \in BOOLEAN, NEW ls \in BOOLEAN, NEW inc \in BOOLEAN
    PROVE  LET m == With(With(NoCall, [op |-> "reconcile", step |-> "read"]),
                         [sel |-> {s}, stop |-> stop, ls |-> ls, incompatible |-> inc])
           IN /\ m \in CallRecord /\ m.op = "reconcile" /\ m.step = "read" /\ m.sel = {s}
              /\ m.incompatible = inc /\ m.lease = {} /\ m.lang = {}
<1> DEFINE n == With(NoCall, [op |-> "reconcile", step |-> "read"])
<1>1. n \in CallRecord /\ n.op = "reconcile" /\ n.step = "read" /\ n.lease = {} /\ n.lang = {}
  BY NoCallIs DEF With, CallRecord, CallSteps
<1> HIDE DEF n
<1> DEFINE m == With(n, [sel |-> {s}, stop |-> stop, ls |-> ls, incompatible |-> inc])
<1>2. /\ m \in CallRecord /\ m.op = "reconcile" /\ m.step = "read" /\ m.sel = {s}
      /\ m.incompatible = inc /\ m.lease = {} /\ m.lang = {}
  BY <1>1 DEF With, CallRecord
<1> QED
  BY <1>2 DEF n

LEMMA StartIs ==
    ASSUME NEW l \in SUBSET HostLease
    PROVE  /\ LET m == With(With(NoCall, [op |-> "start", step |-> "service"]), <<>>)
              IN /\ m \in CallRecord /\ m.op = "start" /\ m.step = "service"
                 /\ m.lease = {} /\ m.lang = {} /\ m.child = {} /\ m.sel = {}
           /\ LET m == With(With(NoCall, [op |-> "stop", step |-> "kill"]), [lease |-> l])
              IN /\ m \in CallRecord /\ m.op = "stop" /\ m.step = "kill"
                 /\ m.lease = l /\ m.lang = {} /\ m.sel = {}
<1> DEFINE n == With(NoCall, [op |-> "start", step |-> "service"])
           o == With(NoCall, [op |-> "stop", step |-> "kill"])
<1>1. /\ n \in CallRecord /\ n.op = "start" /\ n.step = "service"
      /\ n.lease = {} /\ n.lang = {} /\ n.child = {} /\ n.sel = {}
  BY NoCallIs DEF With, CallRecord, CallSteps
<1>2. o \in CallRecord /\ o.op = "stop" /\ o.step = "kill" /\ o.lang = {} /\ o.sel = {}
  BY NoCallIs DEF With, CallRecord, CallSteps
<1> HIDE DEF n, o
<1>3. LET m == With(n, <<>>)
      IN /\ m \in CallRecord /\ m.op = "start" /\ m.step = "service"
         /\ m.lease = {} /\ m.lang = {} /\ m.child = {} /\ m.sel = {}
  <2>1. DOMAIN <<>> = {}
    OBVIOUS
  <2>2. With(n, <<>>) = [x \in DOMAIN n |-> n[x]]
    BY <2>1 DEF With
  <2>3. With(n, <<>>) = n
    BY <1>1, <2>2 DEF CallRecord
  <2> QED
    BY <1>1, <2>3
<1>4. LET m == With(o, [lease |-> l])
      IN /\ m \in CallRecord /\ m.op = "stop" /\ m.step = "kill"
         /\ m.lease = l /\ m.lang = {} /\ m.sel = {}
  BY <1>2 DEF With, CallRecord
<1> QED
  BY <1>3, <1>4 DEF n, o

-----------------------------------------------------------------------------
(* What a step of a call leaves true.                                      *)

\* A call that lets the processes be, ends or signals one, or starts a host.
Touches ==
    \/ proc' = proc
    \/ \E i \in Ids : Ended(i)
    \/ \E i \in Ids : MovesTo(i, proc[i].at)
    \/ \E i \in Ids, s \in Selections : Born(i, "managed", {s}, "wait")
    \/ \E i \in Ids : Born(i, "detached", {}, "spawned")

LEMMA TouchesEffect ==
    ASSUME TypeOK, Processes, Touches
    PROVE  Effect /\ proc' \in [Ids -> Process]
<1>1. proc' \in [Ids -> Process]
  BY DEF Touches, Ended, MovesTo, Born, Others, TypeOK
<1>2. ASSUME NEW i \in Ids, MovesTo(i, proc[i].at) PROVE Effect
  <2>1. proc[i].at \in Everywhere /\ proc[i].at \in Places(proc[i].kind)
    BY DEF TypeOK, Process, Processes
  <2> QED
    BY <1>2, <2>1 DEF Effect
<1>3. ASSUME NEW i \in Ids, NEW s \in Selections, Born(i, "managed", {s}, "wait") PROVE Effect
  <2>1. One({s}) /\ "wait" \in Places("managed")
    BY DEF One, Places
  <2> QED
    BY <1>3, <2>1 DEF Effect
<1>4. ASSUME NEW i \in Ids, Born(i, "detached", {}, "spawned") PROVE Effect
  <2>1. "spawned" \in Places("detached")
    BY DEF Places
  <2> QED
    BY <1>4, <2>1 DEF Effect
<1> QED
  BY <1>1, <1>2, <1>3, <1>4 DEF Touches, Effect

LEMMA TouchesSteady ==
    ASSUME TypeOK, Processes, Touches, lease' \subseteq lease, NEW j \in Ids
    PROVE  Steady(j) \/ Born(j, "detached", {}, "spawned")
<1>1. CASE proc'[j] = proc[j]
  BY <1>1, SameSteady
<1>2. CASE Ended(j)
  BY <1>2, SameSteady DEF Ended
<1>3. CASE MovesTo(j, proc[j].at)
  BY <1>3, SameSteady DEF MovesTo
<1>4. ASSUME NEW s \in Selections, Born(j, "managed", {s}, "wait") PROVE Steady(j)
  BY <1>4, BornSteady
<1> QED
  BY <1>1, <1>2, <1>3, <1>4 DEF Touches, Ended, MovesTo, Born, Others

\* Leases and processes after a step that adds no lease.
LEMMA TouchesKept ==
    ASSUME IInv, Touches, lease' \subseteq lease, lang' \subseteq lang,
           \A b \in Ids \cup {Cli} : ensure'[b].child \subseteq ensure[b].child,
           \A l \in call'.lease : l \in call.lease \/ l \in lease,
           \A l \in call'.lang : l \in call.lang \/ l \in lang
    PROVE  Effect /\ Processes' /\ Leases'
<1>1. TypeOK /\ Processes /\ Leases /\ Calls /\ Control
  BY DEF IInv
<1>2. Effect
  BY <1>1, TouchesEffect
<1>3. ASSUME NEW i \in Ids, proc'[i].kind = "detached", proc'[i].at # "spawned"
      PROVE  proc[i].at # "spawned" /\ Alive(i)
  <2>1. CASE proc'[i] = proc[i]
    BY <1>3, <2>1 DEF Alive
  <2>2. CASE MovesTo(i, proc[i].at)
    BY <1>3, <2>2 DEF MovesTo, Alive
  <2>3. ~Ended(i)
    BY <1>3, AbsentIs DEF Ended
  <2>4. \A s : ~Born(i, "managed", {s}, "wait")
    BY <1>3 DEF Born
  <2>5. ~Born(i, "detached", {}, "spawned")
    BY <1>3 DEF Born
  <2> QED
    BY <2>1, <2>2, <2>3, <2>4, <2>5 DEF Touches, Ended, MovesTo, Born, Others
<1>4. ServiceKnown
  BY DEF ServiceKnown
<1>5. One(lease') /\ \A l \in lease' : l \in lease
  BY <1>1 DEF Leases, One
<1> QED
  BY <1>1, <1>2, <1>3, <1>4, <1>5, ProcessesKept, LeasesKept

\* A call returns: nothing is known any more.
LEMMA ReturnControl ==
    ASSUME NEW result, Return(result), Leased', \A j \in Ids : proc'[j].at # "spawned",
           result = "stopped" => \A j \in Ids : ~InUse(j)'
    PROVE  Leased' /\ Known' /\ Spawned' /\ Quiet'
<1>1. call'.step = "none" /\ (stopped' <=> result = "stopped")
  BY NoCallIs DEF Return
<1> QED
  BY <1>1 DEF Known, Spawned, Quiet, Controlling

LEMMA ReturnCalls ==
    ASSUME NEW result, Return(result)
    PROVE  /\ Calls' /\ call' \in CallRecord /\ stopped' \in BOOLEAN
           /\ call'.lease = {} /\ call'.lang = {}
  BY NoCallIs DEF Return, Calls, One

\* What a step of a call leaves of everything else.
Frame ==
    /\ lease' \subseteq lease /\ lang' \subseteq lang /\ socket' \subseteq socket
    /\ UNCHANGED <<endpoint, durable>>
    /\ ensure' \in [Ids \cup {Cli} -> Caller]
    /\ \A b \in Ids \cup {Cli} : ensure'[b].child \subseteq ensure[b].child
    /\ events' \in 0 .. MaxEvents

LEMMA TouchesTypes ==
    ASSUME IInv, Touches, Frame, call' \in CallRecord, stopped' \in BOOLEAN, interrupted' \in BOOLEAN
    PROVE  TypeOK'
<1>1. TypeOK /\ Processes
  BY DEF IInv
<1>2. proc' \in [Ids -> Process]
  BY <1>1, TouchesEffect
<1> QED
  BY <1>1, <1>2 DEF Frame, TypeOK

\* A step that frees the lock.
LEMMA ReturnKept ==
    ASSUME IInv, Touches, Frame, KeepsLease, NEW result, Return(result), interrupted' \in BOOLEAN,
           interrupted => interrupted',
           ~interrupted' => \A j \in Ids : Steady(j) /\ proc'[j].at # "spawned",
           ~interrupted' /\ result = "stopped" => \A j \in Ids : ~InUse(j)
    PROVE  IInv'
<1>1. TypeOK /\ Processes /\ Leases /\ Calls /\ Control
  BY DEF IInv
<1>2. Calls' /\ call' \in CallRecord /\ stopped' \in BOOLEAN /\ call'.lease = {} /\ call'.lang = {}
  BY ReturnCalls
<1>3. Effect /\ Processes' /\ Leases'
  BY <1>2, TouchesKept DEF Frame
<1>4. TypeOK'
  BY <1>2, TouchesTypes
<1>5. Control'
  <2> SUFFICES ASSUME ~interrupted' PROVE Leased' /\ Known' /\ Spawned' /\ Quiet'
    BY DEF Control
  <2>1. Leased'
    BY <1>1, SteadyLeased DEF Control
  <2>2. result = "stopped" => \A j \in Ids : ~InUse(j)'
    BY DEF Steady
  <2> QED
    BY <2>1, <2>2, ReturnControl
<1> QED
  BY <1>2, <1>3, <1>4, <1>5 DEF IInv

\* A step that keeps it.
LEMMA StepKept ==
    ASSUME IInv, Touches, Frame, KeepsLease, call.op # "none", call' \in CallRecord, Calls',
           UNCHANGED <<stopped, interrupted>>,
           \A l \in call'.lease : l \in call.lease \/ l \in lease,
           \A l \in call'.lang : l \in call.lang \/ l \in lang,
           ~interrupted => Known' /\ Spawned' /\ \A j \in Ids : InUse(j)' => Steady(j)
    PROVE  IInv'
<1>1. TypeOK /\ Processes /\ Leases /\ Calls /\ Control
  BY DEF IInv
<1>2. Effect /\ Processes' /\ Leases'
  BY TouchesKept DEF Frame
<1>3. TypeOK'
  <2>1. stopped' \in BOOLEAN /\ interrupted' \in BOOLEAN
    BY <1>1 DEF TypeOK
  <2> QED
    BY <2>1, TouchesTypes
<1>4. Control'
  <2> SUFFICES ASSUME ~interrupted PROVE Leased' /\ Known' /\ Spawned' /\ Quiet'
    BY DEF Control
  <2>1. Leased'
    <3> SUFFICES ASSUME NEW j \in Ids, InUse(j)'
                 PROVE  \E l \in lease' : Names(l, j)' /\ l.phase # "failed"
      BY DEF Leased
    <3>1. InUse(j) /\ proc'[j].kind = proc[j].kind /\ proc'[j].pid = proc[j].pid
      BY DEF Steady
    <3>2. PICK l \in lease : Names(l, j) /\ l.phase # "failed"
      BY <1>1, <3>1 DEF Control, Leased
    <3> QED
      BY <3>1, <3>2 DEF KeepsLease, Names
  <2>2. ~stopped'
    BY <1>1 DEF Calls
  <2> QED
    BY <2>1, <2>2 DEF Quiet
<1> QED
  BY <1>2, <1>3, <1>4 DEF IInv

\* A process is where it was, or gone, if it was there before the step.
LEMMA SpawnedBefore ==
    ASSUME TypeOK, Touches, NEW j \in Ids, proc'[j].at = "spawned"
    PROVE  proc[j].at = "spawned" \/ Born(j, "detached", {}, "spawned")
<1>1. ~Ended(j) /\ \A s : ~Born(j, "managed", {s}, "wait")
  BY AbsentIs DEF Ended, Born
<1> QED
  BY <1>1 DEF Touches, Ended, MovesTo, Born, Others

\* What the holder of the lock found out when it read the leases stays true.
LEMMA ControllingKept ==
    ASSUME TypeOK, Effect, Known, call.step \in Controlling, \A j \in Ids : Steady(j),
           call'.step \in Controlling, call'.lease = call.lease, call'.sel = call.sel
    PROVE  Known'
<1>1. ASSUME NEW l \in call.lease, NEW i \in l.birth, Alive(i)',
             NEW s \in proc'[i].sel, NEW t \in call.sel
      PROVE  s.owner = t.owner
  <2>1. i \in Ids /\ Alive(i) /\ proc'[i].sel = proc[i].sel
    BY <1>1, StillTrue
  <2> QED
    BY <1>1, <2>1 DEF Known
<1>2. \A i \in Ids : InUse(i)' => InUse(i)
  BY DEF Steady
<1> QED
  BY <1>1, <1>2 DEF Known, Controlling

\* A step of a call that changes nothing but the call.
LEMMA OnlyCall ==
    ASSUME IInv, UNCHANGED <<proc, files, endpoint, ensure, events>>
    PROVE  /\ Touches /\ Frame /\ KeepsLease
           /\ \A j \in Ids : Steady(j) /\ (InUse(j)' <=> InUse(j)) /\ (Alive(j)' <=> Alive(j))
<1>1. TypeOK /\ UNCHANGED <<proc, lease, lang, socket, durable>>
  BY DEF IInv, files
<1>2. Touches /\ Frame /\ KeepsLease
  BY <1>1 DEF Touches, Frame, KeepsLease, TypeOK
<1>3. ASSUME NEW j \in Ids PROVE Steady(j) /\ (InUse(j)' <=> InUse(j)) /\ (Alive(j)' <=> Alive(j))
  BY <1>1, SameSteady DEF InUse, Names, Alive
<1> QED
  BY <1>2, <1>3

LEMMA ReadKept ==
    ASSUME IInv, Read, UNCHANGED <<interrupted, events>>
    PROVE  IInv'
<1>1. TypeOK /\ Processes /\ Leases /\ Calls /\ Control
  BY DEF IInv
<1>2. UNCHANGED <<proc, files, endpoint, ensure, events>> /\ call.op = "reconcile" /\ call.step = "read"
  BY DEF Read
<1>3. /\ Touches /\ Frame /\ KeepsLease
      /\ \A j \in Ids : Steady(j) /\ (InUse(j)' <=> InUse(j)) /\ (Alive(j)' <=> Alive(j))
  BY <1>2, OnlyCall
<1>4. ~interrupted => \A j \in Ids : proc'[j].at # "spawned"
  BY <1>1, <1>2 DEF Control, Spawned
<1>5. PICK s \in call.sel :
        \/ Return("blocked") \/ Return("raised")
        \/ \E st \in {"decide", "signal_language", "clean"} :
             /\ ~Untouchable(s)
             /\ call' = With(call, [step |-> st, lease |-> lease, lang |-> lang,
                                    incompatible |-> FALSE, ls |-> FALSE])
             /\ UNCHANGED stopped
  BY DEF Read, Step
<1>6. ASSUME NEW result \in {"blocked", "raised"}, Return(result) PROVE IInv'
  BY <1>1, <1>3, <1>4, <1>6, ReturnKept DEF TypeOK
<1>7. ASSUME NEW st \in {"decide", "signal_language", "clean"}, ~Untouchable(s),
             call' = With(call, [step |-> st, lease |-> lease, lang |-> lang,
                                 incompatible |-> FALSE, ls |-> FALSE]),
             UNCHANGED stopped
      PROVE  IInv'
  <2>1. /\ call' \in CallRecord /\ call'.step = st /\ call'.op = call.op /\ call'.sel = call.sel
        /\ call'.lease = lease /\ call'.lang = lang
    <3>1. call \in CallRecord /\ lease \in SUBSET HostLease /\ lang \in SUBSET ServiceLease
      BY <1>1 DEF TypeOK
    <3>2. st \in CallSteps
      BY DEF CallSteps
    <3> QED
      BY <1>7, <3>1, <3>2, ReadIs
  <2>2. Calls'
    BY <1>1, <1>2, <1>7, <2>1 DEF Calls
  <2>3. ASSUME Leased, NEW i \in Ids, InUse(i) PROVE \E l \in lease : l.birth = {i}
    <3>1. PICK l \in lease : Names(l, i)
      BY <2>3 DEF Leased
    <3>2. i \in Holding(l)
      BY <1>1, <2>3, <3>1, UserIs DEF Holding, Names
    <3>3. l.birth # {}
      BY <1>7, <3>2 DEF Untouchable
    <3> QED
      BY <3>1, <3>3 DEF Names
  <2>4. ASSUME Known, NEW l \in lease, NEW i \in l.birth, Alive(i), NEW a \in proc[i].sel,
               NEW t \in call.sel
        PROVE  a.owner = t.owner
    <3>0. i \in Ids
      BY <1>1 DEF TypeOK, HostLease
    <3>1. proc[i].sel = l.sel /\ One(proc[i].sel) /\ t = s
      BY <1>1, <2>4, <3>0 DEF Leases, Describes, Processes, Calls, One
    <3>2. CASE ~call.incompatible
      <4>1. proc[i].sel = call.sel
        BY <1>2, <2>4, <3>2 DEF Known
      <4> QED
        BY <1>1, <2>4, <4>1 DEF Calls, One
    <3>3. CASE call.incompatible
      <4>1. PICK m \in lease : \E u \in m.sel : u.owner = s.owner
        BY <1>7, <3>3 DEF Untouchable
      <4>2. m = l
        BY <1>1, <4>1 DEF Leases, One
      <4> QED
        BY <2>4, <3>1, <4>1, <4>2 DEF One
    <3> QED
      BY <3>2, <3>3
  <2>5. ASSUME ~interrupted PROVE Known' /\ Spawned'
    <3>1. Leased /\ Known
      BY <1>1, <2>5 DEF Control
    <3>2. proc' = proc
      BY <1>2
    <3>3. \A i \in Ids : InUse(i)' => \E l \in call'.lease : l.birth = {i}
      BY <1>3, <2>1, <2>3, <3>1
    <3>4. ASSUME NEW l \in call'.lease, NEW i \in l.birth, Alive(i)', NEW a \in proc'[i].sel,
                 NEW t \in call'.sel
          PROVE  a.owner = t.owner
      <4>1. i \in Ids
        BY <1>1, <2>1, <3>4 DEF TypeOK, HostLease
      <4> QED
        BY <1>3, <2>1, <2>4, <3>1, <3>2, <3>4, <4>1
    <3>5. Known'
      BY <2>1, <3>3, <3>4 DEF Known
    <3> QED
      BY <1>4, <2>5, <3>5 DEF Spawned
  <2> QED
    BY <1>2, <1>3, <1>7, <2>1, <2>2, <2>5, StepKept
<1> QED
  BY <1>5, <1>6, <1>7

LEMMA CleanKept ==
    ASSUME IInv, Clean, UNCHANGED <<interrupted, events>>
    PROVE  IInv'
<1>1. TypeOK /\ Processes /\ Leases /\ Calls /\ Control
  BY DEF IInv
<1>2. call.step = "clean" /\ call.op = "reconcile" /\ UNCHANGED <<proc, lease, durable, endpoint, ensure, events>>
      /\ socket' = {} /\ lang' = {}
  BY <1>1 DEF Clean, Calls
<1>3. Touches /\ Frame /\ KeepsLease /\ \A j \in Ids : Steady(j)
  BY <1>1, <1>2, SameSteady DEF Touches, Frame, KeepsLease, TypeOK
<1>4. UNCHANGED stopped /\ call' \in CallRecord /\ call'.step = "decide" /\ call'.op = call.op
      /\ call'.sel = call.sel /\ call'.lease = call.lease /\ call'.lang = call.lang
  <2>1. call \in CallRecord /\ "decide" \in CallSteps
    BY <1>1 DEF TypeOK, CallSteps
  <2>2. call' = With(call, [step |-> "decide"]) /\ UNCHANGED stopped
    BY DEF Clean, Step
  <2> QED
    BY <2>1, <2>2, StepIs
<1>5. Calls'
  BY <1>1, <1>2, <1>4 DEF Calls
<1>6. ASSUME ~interrupted PROVE Known' /\ Spawned'
  <2>1. Effect
    BY <1>1, <1>3, TouchesEffect
  <2>2. Known /\ Spawned
    BY <1>1, <1>6 DEF Control
  <2>3. Known'
    BY <1>1, <1>2, <1>3, <1>4, <2>1, <2>2, ControllingKept DEF Controlling
  <2>4. Spawned'
    BY <1>2, <2>2 DEF Spawned
  <2> QED
    BY <2>3, <2>4
<1> QED
  BY <1>2, <1>3, <1>4, <1>5, <1>6, StepKept

LEMMA DecideKept ==
    ASSUME IInv, Decide, UNCHANGED <<interrupted, events>>
    PROVE  IInv'
<1>1. TypeOK /\ Processes /\ Leases /\ Calls /\ Control
  BY DEF IInv
<1>2. call.step = "decide" /\ call.op = "reconcile" /\ UNCHANGED <<files, endpoint, ensure, events>>
  BY <1>1 DEF Decide, Calls
<1>3. Frame /\ KeepsLease /\ UNCHANGED <<lease, lang>>
  BY <1>1, <1>2 DEF Frame, KeepsLease, TypeOK, files
<1>4. ASSUME ~interrupted PROVE Leased /\ Known /\ Spawned /\ \A j \in Ids : proc[j].at # "spawned"
  BY <1>1, <1>2, <1>4 DEF Control, Spawned
<1>5. PICK s \in call.sel :
        \/ \E st \in {"signal_changed", "signal"} : Step([step |-> st]) /\ UNCHANGED proc
        \/ /\ ~\E l \in call.lease : owns_process(l)
           /\ \/ \E result \in {"stopping", "stopped"} : Return(result) /\ UNCHANGED proc
              \/ \E i \in Ids :
                   /\ Popen(i, "managed", {s}, "wait")
                   /\ Step([step |-> "register", child |-> {i}, pid |-> proc'[i].pid])
  BY DEF Decide
<1>6. ASSUME NEW st \in {"signal_changed", "signal"}, Step([step |-> st]), UNCHANGED proc PROVE IInv'
  <2>1. Touches /\ \A j \in Ids : Steady(j)
    BY <1>1, <1>3, <1>6, SameSteady DEF Touches
  <2>2. UNCHANGED stopped /\ call' \in CallRecord /\ call'.step = st /\ call'.op = call.op
        /\ call'.sel = call.sel /\ call'.lease = call.lease /\ call'.lang = call.lang
    <3>1. call \in CallRecord /\ st \in CallSteps
      BY <1>1 DEF TypeOK, CallSteps
    <3> QED
      BY <1>6, <3>1, StepIs DEF Step
  <2>3. Calls'
    BY <1>1, <1>2, <2>2 DEF Calls
  <2>4. ASSUME ~interrupted PROVE Known' /\ Spawned'
    <3>1. Effect
      BY <1>1, <2>1, TouchesEffect
    <3>2. Known'
      BY <1>1, <1>2, <1>4, <2>1, <2>2, <2>4, <3>1, ControllingKept DEF Controlling
    <3> QED
      BY <1>4, <1>6, <2>4, <3>2 DEF Spawned
  <2> QED
    BY <1>2, <1>3, <2>1, <2>2, <2>3, <2>4, StepKept
<1>7. ASSUME ~interrupted, ~\E l \in call.lease : owns_process(l), NEW j \in Ids, InUse(j) PROVE FALSE
  <2>1. PICK l \in call.lease : l.birth = {j}
    BY <1>2, <1>4, <1>7 DEF Known, Controlling
  <2>2. Alive(j)
    BY <1>1, <1>7, UserIs
  <2>3. j \in Holding(l)
    BY <1>1, <2>1, <2>2 DEF Leases, Describes, Holding
  <2> QED
    BY <1>7, <2>1, <2>3 DEF owns_process
<1>8. ASSUME NEW result \in {"stopping", "stopped"}, Return(result), UNCHANGED proc,
             ~\E l \in call.lease : owns_process(l)
      PROVE  IInv'
  <2>1. Touches /\ \A j \in Ids : Steady(j)
    BY <1>1, <1>3, <1>8, SameSteady DEF Touches
  <2>2. ~interrupted => \A j \in Ids : proc'[j].at # "spawned"
    BY <1>4, <1>8
  <2>3. interrupted' = interrupted /\ interrupted \in BOOLEAN
    BY <1>1 DEF TypeOK
  <2> QED
    BY <1>3, <1>7, <1>8, <2>1, <2>2, <2>3, ReturnKept
<1>9. ASSUME NEW i \in Ids, Popen(i, "managed", {s}, "wait"),
             Step([step |-> "register", child |-> {i}, pid |-> proc'[i].pid]),
             ~\E l \in call.lease : owns_process(l)
      PROVE  IInv'
  <2>1. s \in Selections
    BY <1>1 DEF TypeOK, CallRecord
  <2>2. Born(i, "managed", {s}, "wait")
    BY <1>1, <1>9, <2>1, PopenEffect DEF Everywhere
  <2>3. Touches
    BY <2>1, <2>2 DEF Touches
  <2>4. ASSUME NEW j \in Ids PROVE Steady(j)
    <3>1. CASE j = i
      BY <1>1, <1>3, <2>2, <3>1, BornSteady
    <3>2. CASE j # i
      <4>1. proc'[j] = proc[j]
        BY <2>2, <3>2 DEF Born, Others
      <4> QED
        BY <1>1, <1>3, <4>1, SameSteady
    <3> QED
      BY <3>1, <3>2
  <2>5. proc'[i] \in Process /\ proc'[i].at = "wait"
    BY <2>2 DEF Born, Others
  <2>6. UNCHANGED stopped /\ call' \in CallRecord /\ call'.step = "register" /\ call'.op = call.op
        /\ call'.sel = call.sel /\ call'.lease = call.lease /\ call'.lang = call.lang
        /\ call'.child = {i} /\ call'.pid = proc'[i].pid
    <3>1. call \in CallRecord /\ "register" \in CallSteps /\ proc'[i].pid \in SUBSET Pids
      BY <1>1, <2>5 DEF TypeOK, CallSteps, Process
    <3> QED
      BY <1>9, <3>1, ChildIs DEF Step
  <2>7. \A l \in lease' : i \notin l.birth
    BY <1>3, <2>2, NamedIs DEF Born
  <2>8. Calls'
    BY <1>1, <1>2, <2>5, <2>6, <2>7 DEF Calls
  <2>9. ASSUME ~interrupted PROVE Known' /\ Spawned'
    <3>1. \A j \in Ids : ~InUse(j)'
      BY <1>7, <1>9, <2>4, <2>9 DEF Steady
    <3>2. \A j \in Ids : proc'[j].at # "spawned"
      BY <1>4, <2>4, <2>9 DEF Steady
    <3> QED
      BY <2>6, <3>1, <3>2 DEF Known, Spawned, Controlling
  <2> QED
    BY <1>2, <1>3, <2>3, <2>4, <2>6, <2>8, <2>9, StepKept
<1> QED
  BY <1>5, <1>6, <1>8, <1>9

LEMMA SignalKept ==
    ASSUME IInv, Signal, UNCHANGED <<interrupted, events>>
    PROVE  IInv'
<1>1. TypeOK /\ Processes /\ Leases /\ Calls /\ Control
  BY DEF IInv
<1>2. call.step \in {"signal_language", "signal_changed", "signal"} /\ call.op = "reconcile"
      /\ UNCHANGED <<files, endpoint, ensure, events>>
  BY <1>1 DEF Signal, Calls
<1>3. Frame /\ KeepsLease /\ UNCHANGED <<lease, lang>>
  BY <1>1, <1>2 DEF Frame, KeepsLease, TypeOK, files
<1>4. ASSUME ~interrupted PROVE Leased /\ Known /\ Spawned /\ \A j \in Ids : proc[j].at # "spawned"
  BY <1>1, <1>2, <1>4 DEF Control, Spawned
<1>5. \/ Return("raised") /\ UNCHANGED proc
      \/ /\ \E i \in Ids : proc' = Terminated(i)
         /\ \/ Step([step |-> "decide", stopping |-> TRUE])
            \/ Step([step |-> "signal"])
            \/ Return("stopping")
  BY DEF Signal, Target, Holding
<1>6. Touches /\ \A j \in Ids : Steady(j)
  <2>1. proc' = proc \/ \E i \in Ids : Ended(i) \/ MovesTo(i, proc[i].at)
    BY <1>1, <1>5, SignalEffect
  <2>2. Touches
    BY <2>1 DEF Touches
  <2>3. ASSUME NEW j \in Ids PROVE Steady(j)
    <3>1. CASE proc'[j] = proc[j]
      BY <1>1, <1>3, <3>1, SameSteady
    <3>2. CASE Ended(j) \/ MovesTo(j, proc[j].at)
      BY <1>1, <1>3, <3>2, SameSteady DEF Ended, MovesTo
    <3> QED
      BY <2>1, <3>1, <3>2 DEF Ended, MovesTo, Others
  <2> QED
    BY <2>2, <2>3
<1>7. ~interrupted => \A j \in Ids : proc'[j].at # "spawned"
  BY <1>4, <1>6 DEF Steady
<1>8. ASSUME NEW result \in {"raised", "stopping"}, Return(result) PROVE IInv'
  <2>1. interrupted' = interrupted /\ interrupted \in BOOLEAN
    BY <1>1 DEF TypeOK
  <2> QED
    BY <1>3, <1>6, <1>7, <1>8, <2>1, ReturnKept
<1>9. ASSUME Step([step |-> "decide", stopping |-> TRUE]) \/ Step([step |-> "signal"])
      PROVE  IInv'
  <2>1. UNCHANGED stopped /\ call' \in CallRecord /\ call'.step \in {"decide", "signal"} /\ call'.op = call.op
        /\ call'.sel = call.sel /\ call'.lease = call.lease /\ call'.lang = call.lang
    <3>1. call \in CallRecord /\ "signal" \in CallSteps
      BY <1>1 DEF TypeOK, CallSteps
    <3> QED
      BY <1>9, <3>1, StepIs, StoppingStepIs DEF Step
  <2>2. Calls'
    BY <1>1, <1>2, <2>1 DEF Calls
  <2>3. ASSUME ~interrupted PROVE Known' /\ Spawned'
    <3>1. Effect
      BY <1>1, <1>6, TouchesEffect
    <3>2. Known'
      BY <1>1, <1>2, <1>4, <1>6, <2>1, <2>3, <3>1, ControllingKept DEF Controlling
    <3> QED
      BY <1>7, <2>3, <3>2 DEF Spawned
  <2> QED
    BY <1>2, <1>3, <1>6, <2>1, <2>2, <2>3, StepKept
<1> QED
  BY <1>5, <1>8, <1>9

LEMMA RegisterChildKept ==
    ASSUME IInv, RegisterChild, UNCHANGED <<interrupted, events>>
    PROVE  IInv'
<1>1. TypeOK /\ Processes /\ Leases /\ Calls /\ Control
  BY DEF IInv
<1>2. call.step = "register" /\ UNCHANGED <<proc, lang, socket, durable, endpoint, ensure, events>>
  BY DEF RegisterChild
<1>3. ASSUME ~interrupted
      PROVE  Leased /\ (\A j \in Ids : proc[j].at # "spawned") /\ (\A j \in Ids : ~InUse(j))
  BY <1>1, <1>2, <1>3 DEF Control, Spawned, Known
<1>4. interrupted' = interrupted /\ interrupted \in BOOLEAN
  BY <1>1 DEF TypeOK
<1>5. CASE Return("raised") /\ UNCHANGED lease
  <2>1. Touches /\ Frame /\ KeepsLease /\ \A j \in Ids : Steady(j)
    BY <1>1, <1>2, <1>5, SameSteady DEF Touches, Frame, KeepsLease, TypeOK
  <2>2. ~interrupted => \A j \in Ids : proc'[j].at # "spawned"
    BY <1>2, <1>3
  <2> QED
    BY <1>4, <1>5, <2>1, <2>2, ReturnKept
<1>6. ASSUME NEW i \in call.child, Alive(i), lease' = {ManagedLease(i, "starting")}, Return("started")
      PROVE  IInv'
  <2>1. i \in Ids /\ proc[i].at = "wait" /\ proc[i].kind = "managed"
    BY <1>1, <1>2, <1>6 DEF Calls, Processes, Places, TypeOK, Process
  <2> DEFINE l == ManagedLease(i, "starting")
  <2>2. /\ l \in HostLease /\ l.pid = proc[i].pid /\ l.birth = {i} /\ l.sel = proc[i].sel
        /\ l.phase = "starting"
    BY <1>1, <2>1, LeaseTypes
  <2>3. lease' = {l}
    BY <1>6
  <2> HIDE DEF l
  <2>4. Calls' /\ call' \in CallRecord /\ stopped' \in BOOLEAN /\ call'.lease = {} /\ call'.lang = {}
    BY <1>6, ReturnCalls
  <2>5. TypeOK'
    BY <1>1, <1>2, <1>4, <2>2, <2>3, <2>4 DEF TypeOK
  <2>6. Touches /\ Effect
    BY <1>1, <1>2, TouchesEffect DEF Touches
  <2>7. Leases'
    <3>1. One(lease') /\ \A k \in lease' : NewLease(k)
      BY <1>2, <1>6, <2>1, <2>2, <2>3 DEF One, NewLease, Alive, Describes
    <3>2. ServiceKnown
      BY <1>2 DEF ServiceKnown
    <3>3. \A j \in Ids : proc'[j].kind = "detached" /\ proc'[j].at # "spawned" =>
            (proc[j].at # "spawned" /\ Alive(j)) \/ \A k \in lease' : k.birth = {}
      BY <1>2 DEF Alive
    <3> QED
      BY <1>1, <2>4, <2>6, <3>1, <3>2, <3>3, LeasesKept
  <2>8. Processes'
    BY <1>1, <2>6, ProcessesKept
  <2>9. Control'
    <3> SUFFICES ASSUME ~interrupted PROVE Leased' /\ Known' /\ Spawned' /\ Quiet'
      BY <1>4 DEF Control
    <3>1. ASSUME NEW j \in Ids, InUse(j)' PROVE j = i
      <4>1. ~InUse(j) /\ proc'[j] = proc[j]
        BY <1>2, <1>3
      <4>2. \E k \in lease' : Names(k, j)'
        BY <3>1, <4>1 DEF InUse
      <4>3. proc[j].pid = proc[i].pid
        BY <2>2, <2>3, <4>1, <4>2 DEF Names
      <4> QED
        BY <1>1, <1>6, <2>1, <4>3 DEF Processes
    <3>2. Leased'
      BY <1>2, <2>1, <2>2, <2>3, <3>1 DEF Leased, Names
    <3>3. \A j \in Ids : proc'[j].at # "spawned"
      BY <1>2, <1>3
    <3> QED
      BY <1>6, <3>2, <3>3, ReturnControl
  <2> QED
    BY <2>4, <2>5, <2>7, <2>8, <2>9 DEF IInv
<1> QED
  BY <1>5, <1>6 DEF RegisterChild

LEMMA StatusFrame ==
    ASSUME IInv, lease' = StatusLease \/ lease' = lease,
           UNCHANGED <<lang, socket, durable, endpoint, events>>,
           UNCHANGED ensure \/ EnsureTo(Cli, "idle")
    PROVE  Frame /\ KeepsLease
<1>1. TypeOK /\ Processes
  BY DEF IInv
<1>2. KeepsLease
  BY <1>1, StatusKeeps DEF KeepsLease
<1>3. ensure' \in [Ids \cup {Cli} -> Caller] /\ \A b \in Ids \cup {Cli} : ensure'[b].child \subseteq ensure[b].child
  BY <1>1, EnsureToIs DEF TypeOK
<1>4. events' \in 0 .. MaxEvents
  BY <1>1 DEF TypeOK
<1> QED
  BY <1>2, <1>3, <1>4 DEF Frame, KeepsLease

LEMMA CliLookKept ==
    ASSUME IInv, CliLook, UNCHANGED <<interrupted, events>>
    PROVE  IInv'
<1>1. TypeOK /\ Processes /\ Leases /\ Calls /\ Control
  BY DEF IInv
<1>2. call.step = "service" /\ call.op = "start"
      /\ UNCHANGED <<proc, lang, socket, durable, endpoint>> /\ EnsureTo(Cli, "idle")
  BY DEF CliLook
<1>3. \/ Return("raised") /\ lease' = lease
      \/ /\ lease' = StatusLease
         /\ \/ Return("already_running")
            \/ SupervisorState \notin {"starting", "running"} /\ Step([step |-> "spawn"])
  BY DEF CliLook
<1>4. Frame /\ KeepsLease
  BY <1>2, <1>3, StatusFrame
<1>5. Touches /\ \A j \in Ids : Steady(j)
  BY <1>1, <1>2, <1>4, SameSteady DEF Touches, Frame
<1>6. ~interrupted => \A j \in Ids : proc'[j].at # "spawned"
  BY <1>1, <1>2 DEF Control, Spawned
<1>7. ASSUME NEW result \in {"raised", "already_running"}, Return(result) PROVE IInv'
  <2>1. interrupted' = interrupted /\ interrupted \in BOOLEAN
    BY <1>1 DEF TypeOK
  <2> QED
    BY <1>4, <1>5, <1>6, <1>7, <2>1, ReturnKept
<1>8. ASSUME lease' = StatusLease, SupervisorState \notin {"starting", "running"}, Step([step |-> "spawn"])
      PROVE  IInv'
  <2>1. UNCHANGED stopped /\ call' \in CallRecord /\ call'.step = "spawn" /\ call'.op = call.op
        /\ call'.sel = call.sel /\ call'.lease = call.lease /\ call'.lang = call.lang /\ call'.child = call.child
    <3>1. call \in CallRecord /\ "spawn" \in CallSteps
      BY <1>1 DEF TypeOK, CallSteps
    <3> QED
      BY <1>8, <3>1, StepIs DEF Step
  <2>2. Calls'
    BY <1>1, <1>2, <2>1 DEF Calls
  <2>3. ASSUME NEW l \in lease' PROVE l.birth # {}
    <3>1. SUFFICES ASSUME l.birth = {} PROVE FALSE
      OBVIOUS
    <3>2. l \in lease /\ matches(l)
      BY <1>8, <2>3, <3>1 DEF StatusLease
    <3>3. SupervisorState = l.phase
      BY <1>1, <3>1, <3>2, StateIs DEF Leases
    <3>4. l.phase \in {"starting", "running"}
      BY <1>1, <3>1, <3>2 DEF Leases, TypeOK, HostLease
    <3> QED
      BY <1>8, <3>3, <3>4
  <2>4. ASSUME ~interrupted PROVE Known' /\ Spawned'
    <3>1. \A j \in Ids : ~InUse(j)
      BY <1>1, <1>8, <2>4, UserReported DEF Control
    <3>2. \A j \in Ids : ~InUse(j)'
      BY <1>5, <3>1 DEF Steady
    <3> QED
      BY <1>6, <2>1, <2>3, <2>4, <3>2 DEF Known, Spawned, Controlling
  <2> QED
    BY <1>2, <1>4, <1>5, <2>1, <2>2, <2>4, StepKept
<1> QED
  BY <1>3, <1>7, <1>8

LEMMA CliSpawnKept ==
    ASSUME IInv, CliSpawn, UNCHANGED <<interrupted, events>>
    PROVE  IInv'
<1>1. TypeOK /\ Processes /\ Leases /\ Calls /\ Control
  BY DEF IInv
<1>2. call.step = "spawn" /\ UNCHANGED <<files, endpoint, ensure, events>>
  BY DEF CliSpawn
<1>3. Frame /\ KeepsLease /\ UNCHANGED <<lease, lang>>
  BY <1>1, <1>2 DEF Frame, KeepsLease, TypeOK, files
<1>4. PICK i \in Ids : /\ Popen(i, "detached", {}, "spawned")
                       /\ Step([step |-> "await", child |-> {i}, pid |-> proc'[i].pid])
  BY DEF CliSpawn
<1>5. Born(i, "detached", {}, "spawned")
  BY <1>1, <1>4, PopenEffect DEF Everywhere
<1>6. Touches
  BY <1>5 DEF Touches
<1>7. proc'[i] \in Process /\ proc'[i].at = "spawned" /\ proc'[i].kind = "detached" /\ Others(i)
  BY <1>5 DEF Born, Others
<1>8. call.op # "none" /\ call.child = {}
  BY <1>1, <1>2, NoCallIs DEF Calls
<1>9. UNCHANGED stopped /\ call' \in CallRecord /\ call'.step = "await" /\ call'.op = call.op
      /\ call'.sel = call.sel /\ call'.lease = call.lease /\ call'.lang = call.lang
      /\ call'.child = {i} /\ call'.pid = proc'[i].pid
  <2>1. call \in CallRecord /\ "await" \in CallSteps /\ proc'[i].pid \in SUBSET Pids
    BY <1>1, <1>7 DEF TypeOK, CallSteps, Process
  <2> QED
    BY <1>4, <2>1, ChildIs DEF Step
<1>10. Calls'
  BY <1>1, <1>2, <1>7, <1>8, <1>9 DEF Calls
<1>11. ASSUME NEW j \in Ids, InUse(j)' PROVE Steady(j)
  <2>1. j # i
    BY <1>7, <1>11 DEF InUse
  <2>2. proc'[j] = proc[j]
    BY <1>7, <2>1 DEF Others
  <2> QED
    BY <1>1, <1>3, <2>2, SameSteady
<1>12. ASSUME ~interrupted PROVE Known' /\ Spawned'
  <2>1. Known /\ Spawned
    BY <1>1, <1>12 DEF Control
  <2>2. \A j \in Ids : ~InUse(j)'
    BY <1>2, <1>8, <1>11, <2>1 DEF Known, Steady
  <2>3. ASSUME NEW j \in Ids, proc'[j].at = "spawned" PROVE j = i
    BY <1>2, <1>7, <2>1, <2>3 DEF Spawned, Others
  <2>4. \A l \in lease' : l.birth # {}
    BY <1>2, <1>3, <2>1 DEF Known
  <2> QED
    BY <1>9, <2>2, <2>3, <2>4 DEF Known, Spawned, Controlling
<1> QED
  BY <1>3, <1>6, <1>8, <1>9, <1>10, <1>11, <1>12, StepKept

\* A process is signalled or killed, or none is.
LEMMA SignalSteady ==
    ASSUME IInv, lease' \subseteq lease,
           proc' = proc \/ \E i \in Ids : proc' = Terminated(i) \/ proc' = Gone(i)
    PROVE  Touches /\ \A j \in Ids : Steady(j)
<1>1. TypeOK
  BY DEF IInv
<1>2. proc' = proc \/ \E i \in Ids : Ended(i) \/ MovesTo(i, proc[i].at)
  BY <1>1, SignalEffect, GoneEnds
<1>3. Touches
  BY <1>2 DEF Touches
<1>4. ASSUME NEW j \in Ids PROVE Steady(j)
  <2>1. CASE proc'[j] = proc[j]
    BY <1>1, <2>1, SameSteady
  <2>2. CASE Ended(j) \/ MovesTo(j, proc[j].at)
    BY <1>1, <2>2, SameSteady DEF Ended, MovesTo
  <2> QED
    BY <1>2, <2>1, <2>2 DEF Ended, MovesTo, Others
<1> QED
  BY <1>3, <1>4

\* A host that the lease names is not one that has none yet.
LEMMA AwaitedRuns ==
    ASSUME IInv, Spawned, call.step = "await", SupervisorState = "running",
           NEW l \in lease, l.pid = call.pid, NEW j \in Ids
    PROVE  proc[j].at # "spawned"
<1>1. TypeOK /\ Processes /\ Leases /\ Calls
  BY DEF IInv
<1> SUFFICES ASSUME proc[j].at = "spawned" PROVE FALSE
  OBVIOUS
<1>2. proc[j].kind = "detached" /\ Alive(j)
  BY <1>1 DEF Processes, Places, TypeOK, Process, Alive
<1>3. call.child = {j} /\ l.birth # {}
  BY DEF Spawned
<1>4. call.pid = proc[j].pid
  BY <1>1, <1>2, <1>3 DEF Calls
<1>5. owns_process(l)
  BY <1>1, <1>3, StateIs DEF Leases
<1>6. PICK k \in l.birth : k \in Ids /\ Alive(k) /\ proc[k].pid = l.pid
  BY <1>5 DEF owns_process, Holding
<1>7. k = j
  BY <1>1, <1>4, <1>6 DEF Processes
<1>8. proc[k].kind = "managed"
  BY <1>1, <1>6 DEF Leases, Describes
<1> QED
  BY <1>2, <1>7, <1>8

LEMMA CliAwaitKept ==
    ASSUME IInv, CliAwait, UNCHANGED <<interrupted, events>>
    PROVE  IInv'
<1>1. TypeOK /\ Processes /\ Leases /\ Calls /\ Control
  BY DEF IInv
<1>2. call.step = "await" /\ UNCHANGED <<lang, socket, durable, endpoint, ensure>>
  BY DEF CliAwait
<1>3. call.op # "none"
  BY <1>1, <1>2, NoCallIs DEF Calls
<1>4. PICK i \in Ids :
        /\ call.child = {i}
        /\ Alive(i) => call.pid = proc[i].pid /\ proc[i].kind = "detached"
  BY <1>1, <1>2 DEF Calls
<1>5. ASSUME SupervisorState = "running", NEW l \in lease, l.pid = call.pid, Return("started"),
             UNCHANGED <<proc, lease>>
      PROVE  IInv'
  <2>1. Frame /\ KeepsLease
    BY <1>2, <1>5, StatusFrame
  <2>2. Touches /\ \A j \in Ids : Steady(j)
    BY <1>1, <1>5, SameSteady DEF Touches
  <2>3. ~interrupted => \A j \in Ids : proc'[j].at # "spawned"
    BY <1>1, <1>2, <1>5, AwaitedRuns DEF Control
  <2>4. interrupted' = interrupted /\ interrupted \in BOOLEAN
    BY <1>1 DEF TypeOK
  <2> QED
    BY <1>5, <2>1, <2>2, <2>3, <2>4, ReturnKept
<1>6. ASSUME proc' = IF Alive(i) THEN Terminated(i) ELSE proc, Step([step |-> "reap"]), lease' = StatusLease
      PROVE  IInv'
  <2>1. Frame /\ KeepsLease
    BY <1>2, <1>6, StatusFrame
  <2>2. Touches /\ \A j \in Ids : Steady(j)
    <3>1. lease' \subseteq lease
      BY <2>1 DEF Frame
    <3>2. proc' = proc \/ proc' = Terminated(i)
      BY <1>6
    <3> QED
      BY <3>1, <3>2, SignalSteady
  <2>3. UNCHANGED stopped /\ call' \in CallRecord /\ call'.step = "reap" /\ call'.op = call.op
        /\ call'.sel = call.sel /\ call'.lease = call.lease /\ call'.lang = call.lang
        /\ call'.child = call.child /\ call'.pid = call.pid
    <3>1. call \in CallRecord /\ "reap" \in CallSteps
      BY <1>1 DEF TypeOK, CallSteps
    <3> QED
      BY <1>6, <3>1, StepIs DEF Step
  <2>4. Alive(i)' => Alive(i) /\ proc'[i].kind = proc[i].kind /\ proc'[i].pid = proc[i].pid
    <3>1. CASE proc' = proc
      BY <3>1 DEF Alive
    <3>2. CASE proc' = Terminated(i)
      BY <1>1, <3>2, SignalEffect, AbsentIs DEF Ended, MovesTo, Alive
    <3> QED
      BY <1>6, <3>1, <3>2
  <2>5. Calls'
    BY <1>1, <1>2, <1>3, <1>4, <2>3, <2>4 DEF Calls
  <2>6. ASSUME ~interrupted PROVE Known' /\ Spawned'
    <3>1. Known /\ Spawned
      BY <1>1, <2>6 DEF Control
    <3>2. \A j \in Ids : InUse(j)' => j \in call.child
      BY <1>2, <2>2, <3>1 DEF Known, Steady
    <3>3. ASSUME NEW j \in Ids, proc'[j].at = "spawned" PROVE FALSE
      <4>1. proc[j].at = "spawned" /\ j = i
        BY <1>4, <2>2, <3>1, <3>3 DEF Steady, Spawned
      <4>2. Alive(i)
        BY <1>1, <4>1 DEF Processes, Places, TypeOK, Process, Alive
      <4>3. Ended(i)
        BY <1>1, <1>6, <4>1, <4>2, SignalEffect
      <4> QED
        BY <3>3, <4>1, <4>3, AbsentIs DEF Ended
    <3> QED
      BY <2>3, <3>2, <3>3 DEF Known, Spawned, Controlling
  <2> QED
    BY <1>3, <2>1, <2>2, <2>3, <2>5, <2>6, StepKept
<1> QED
  BY <1>4, <1>5, <1>6 DEF CliAwait

LEMMA CliReapKept ==
    ASSUME IInv, CliReap, UNCHANGED <<interrupted, events>>
    PROVE  IInv'
<1>1. TypeOK /\ Processes /\ Leases /\ Calls /\ Control
  BY DEF IInv
<1>2. call.step = "reap" /\ UNCHANGED <<lang, socket, durable, endpoint, ensure>>
      /\ lease' \subseteq lease /\ Return("raised")
  BY DEF CliReap
<1>3. PICK i \in Ids : call.child = {i} /\ proc' = Gone(i)
  BY <1>1, <1>2 DEF CliReap, Calls
<1>4. Ended(i) /\ Touches /\ \A j \in Ids : Steady(j)
  BY <1>1, <1>2, <1>3, GoneEnds, SignalSteady
<1>5. Frame
  BY <1>1, <1>2 DEF Frame, TypeOK
<1>6. Calls' /\ call' \in CallRecord /\ stopped' \in BOOLEAN /\ call'.lease = {} /\ call'.lang = {}
  BY <1>2, ReturnCalls
<1>7. TypeOK'
  <2>1. interrupted' \in BOOLEAN
    BY <1>1 DEF TypeOK
  <2> QED
    BY <1>4, <1>5, <1>6, <2>1, TouchesTypes
<1>8. Processes' /\ Leases'
  BY <1>4, <1>5, <1>6, TouchesKept DEF Frame
<1>9. Control'
  <2> SUFFICES ASSUME ~interrupted PROVE Leased' /\ Known' /\ Spawned' /\ Quiet'
    BY DEF Control
  <2>1. Known /\ Spawned
    BY <1>1 DEF Control
  <2>2. ASSUME NEW j \in Ids, InUse(j)' PROVE FALSE
    <3>1. j = i
      BY <1>2, <1>3, <1>4, <2>1, <2>2 DEF Steady, Known
    <3> QED
      BY <1>4, <2>2, <3>1, AbsentIs DEF Ended, InUse
  <2>3. \A j \in Ids : proc'[j].at # "spawned"
    BY <1>2, <1>4, <2>1 DEF Spawned, Steady
  <2>4. Leased'
    BY <2>2 DEF Leased
  <2> QED
    BY <1>2, <2>3, <2>4, ReturnControl
<1> QED
  BY <1>6, <1>7, <1>8, <1>9 DEF IInv

LEMMA CliStatusKept ==
    ASSUME IInv, CliStatus, UNCHANGED <<interrupted, events>>
    PROVE  IInv'
<1>1. TypeOK /\ Processes /\ Leases /\ Calls /\ Control
  BY DEF IInv
<1>2. UNCHANGED <<proc, lang, socket, durable, endpoint, ensure, call, stopped>> /\ lease' = StatusLease
  BY DEF CliStatus
<1>3. Frame /\ KeepsLease
  BY <1>2, StatusFrame
<1>4. Touches /\ \A j \in Ids : Steady(j)
  BY <1>1, <1>2, <1>3, SameSteady DEF Touches, Frame
<1>5. Effect /\ Processes' /\ Leases'
  BY <1>2, <1>3, <1>4, TouchesKept DEF Frame
<1>6. TypeOK'
  BY <1>1, <1>2, <1>3, <1>4, TouchesTypes DEF TypeOK
<1>7. Calls'
  BY <1>1, <1>2, <1>3, <1>5, CallsKept DEF Frame
<1>8. Control'
  BY <1>1, <1>2, <1>3, <1>4, <1>5, SteadyControl
<1> QED
  BY <1>5, <1>6, <1>7, <1>8 DEF IInv

LEMMA CliKillKept ==
    ASSUME IInv, CliKill, UNCHANGED <<interrupted, events>>
    PROVE  IInv'
<1>1. TypeOK /\ Processes /\ Leases /\ Calls /\ Control
  BY DEF IInv
<1>2. call.step = "kill" /\ UNCHANGED <<lease, lang, socket, durable, endpoint, ensure>>
  BY DEF CliKill, files
<1>3. call.op # "none"
  BY <1>1, <1>2, NoCallIs DEF Calls
<1>4. Frame /\ KeepsLease
  BY <1>2, StatusFrame
<1>5. \/ proc' = proc /\ Return("raised")
      \/ (\E i \in Ids : proc' = Terminated(i)) /\ Step([step |-> "await_stop"])
  BY DEF CliKill, Holding
<1>6. Touches /\ \A j \in Ids : Steady(j)
  BY <1>2, <1>5, SignalSteady
<1>7. ~interrupted => \A j \in Ids : proc'[j].at # "spawned"
  BY <1>1, <1>2, <1>6 DEF Control, Spawned, Steady
<1>8. CASE Return("raised")
  <2>1. interrupted' = interrupted /\ interrupted \in BOOLEAN
    BY <1>1 DEF TypeOK
  <2> QED
    BY <1>4, <1>6, <1>7, <1>8, <2>1, ReturnKept
<1>9. CASE Step([step |-> "await_stop"])
  <2>1. UNCHANGED stopped /\ call' \in CallRecord /\ call'.step = "await_stop" /\ call'.op = call.op
        /\ call'.sel = call.sel /\ call'.lease = call.lease /\ call'.lang = call.lang
    <3>1. call \in CallRecord /\ "await_stop" \in CallSteps
      BY <1>1 DEF TypeOK, CallSteps
    <3> QED
      BY <1>9, <3>1, StepIs DEF Step
  <2>2. Calls'
    BY <1>1, <1>2, <1>3, <2>1 DEF Calls
  <2>3. ~interrupted => Known' /\ Spawned'
    BY <1>7, <2>1 DEF Known, Spawned, Controlling
  <2> QED
    BY <1>3, <1>4, <1>6, <2>1, <2>2, <2>3, StepKept
<1> QED
  BY <1>5, <1>8, <1>9

\* A stop whose host is not reported leaves none.
LEMMA CliAwaitStopKept ==
    ASSUME IInv, CliAwaitStop, UNCHANGED <<interrupted, events>>
    PROVE  IInv'
<1>1. TypeOK /\ Processes /\ Leases /\ Calls /\ Control
  BY DEF IInv
<1>2. call.step = "await_stop" /\ lease' = StatusLease
      /\ UNCHANGED <<proc, lang, socket, durable, endpoint, ensure>>
  BY DEF CliAwaitStop
<1>3. PICK result \in {"stopped", "stopping"} :
        Return(result) /\ (result = "stopped" => SupervisorState \in {"stopped", "stale"})
  BY DEF CliAwaitStop
<1>4. Frame /\ KeepsLease
  BY <1>2, StatusFrame
<1>5. Touches /\ \A j \in Ids : Steady(j)
  BY <1>2, <1>4, SignalSteady DEF Frame
<1>6. ~interrupted => \A j \in Ids : proc'[j].at # "spawned"
  BY <1>1, <1>2 DEF Control, Spawned
<1>7. ~interrupted /\ result = "stopped" => \A j \in Ids : ~InUse(j)
  BY <1>1, <1>3, UserReported DEF Control
<1>8. interrupted' = interrupted /\ interrupted \in BOOLEAN
  BY <1>1 DEF TypeOK
<1> QED
  BY <1>3, <1>4, <1>5, <1>6, <1>7, <1>8, ReturnKept

LEMMA ContinueKept == ASSUME IInv, Continue PROVE IInv'
  BY ReadKept, CleanKept, DecideKept, SignalKept, RegisterChildKept, CliLookKept, CliSpawnKept,
     CliAwaitKept, CliReapKept, CliStatusKept, CliKillKept, CliAwaitStopKept DEF Continue

-----------------------------------------------------------------------------
(* The beginning of a call, and its death.                                 *)

\* No call holds the lock: no host is on its way.
LEMMA FreeIs ==
    ASSUME IInv, call.op = "none"
    PROVE  /\ call.step = "none"
           /\ ~interrupted => \A j \in Ids : proc[j].at # "spawned"
<1>1. call.step = "none"
  BY NoCallIs DEF IInv, Calls
<1> QED
  BY <1>1 DEF IInv, Control, Spawned

\* A stop that leaves hosts to a call does not report stopped before it returns.
LEMMA StartKept ==
    ASSUME IInv, call.op = "none", Touches, Frame, KeepsLease, proc' = proc, call' \in CallRecord,
           call'.op # "none", Calls', stopped' = FALSE, UNCHANGED interrupted,
           call'.lease \subseteq lease, call'.lang = {}, ~interrupted => Known'
    PROVE  IInv'
<1>1. TypeOK /\ Processes /\ Leases /\ Calls /\ Control
  BY DEF IInv
<1>2. Effect /\ Processes' /\ Leases'
  BY TouchesKept DEF Frame
<1>3. TypeOK'
  BY <1>1, TouchesTypes DEF TypeOK
<1>4. Control'
  <2> SUFFICES ASSUME ~interrupted PROVE Leased' /\ Known' /\ Spawned' /\ Quiet'
    BY DEF Control
  <2>1. \A j \in Ids : Steady(j)
    BY <1>1, SameSteady DEF Frame
  <2>2. Leased'
    BY <1>1, <2>1, SteadyLeased DEF Control
  <2>3. Spawned'
    BY FreeIs DEF Spawned
  <2> QED
    BY <2>2, <2>3 DEF Quiet
<1> QED
  BY <1>2, <1>3, <1>4 DEF IInv

LEMMA CliStartKept ==
    ASSUME IInv, call.op = "none", CliStart, events' \in 0 .. MaxEvents, UNCHANGED interrupted
    PROVE  IInv'
<1>1. TypeOK
  BY DEF IInv
<1>2. UNCHANGED <<proc, lease, lang, socket, durable, endpoint>> /\ EnsureTo(Cli, "probe")
  BY DEF CliStart, files
<1>3. /\ call' \in CallRecord /\ call'.op = "start" /\ call'.step = "service"
      /\ call'.lease = {} /\ call'.lang = {} /\ call'.child = {} /\ call'.sel = {} /\ stopped' = FALSE
  BY StartIs DEF CliStart, Start
<1>4. Touches /\ Frame /\ KeepsLease
  <2>1. ensure' \in [Ids \cup {Cli} -> Caller] /\ \A b \in Ids \cup {Cli} : ensure'[b].child \subseteq ensure[b].child
    BY <1>1, <1>2, EnsureToIs
  <2> QED
    BY <1>2, <2>1 DEF Touches, Frame, KeepsLease
<1>5. Calls' /\ Known'
  BY <1>3 DEF Calls, One, Known, Controlling
<1> QED
  BY <1>2, <1>3, <1>4, <1>5, StartKept

LEMMA CliStopKept ==
    ASSUME IInv, call.op = "none", CliStop, events' \in 0 .. MaxEvents, UNCHANGED interrupted
    PROVE  IInv'
<1>1. TypeOK /\ Processes /\ Leases /\ Calls /\ Control
  BY DEF IInv
<1>2. UNCHANGED <<proc, lang, socket, durable, endpoint, ensure>> /\ lease' = StatusLease
  BY DEF CliStop
<1>3. Frame /\ KeepsLease
  <2>1. KeepsLease
    BY <1>1, <1>2, StatusKeeps
  <2> QED
    BY <1>1, <1>2, <2>1 DEF Frame, KeepsLease, TypeOK
<1>4. Touches /\ \A j \in Ids : Steady(j)
  BY <1>2, <1>3, SignalSteady DEF Frame
<1>5. CASE Start("stop", "kill", [lease |-> lease])
  <2>1. /\ call' \in CallRecord /\ call'.op = "stop" /\ call'.step = "kill" /\ call'.lease = lease
        /\ call'.lang = {} /\ call'.sel = {} /\ stopped' = FALSE
    <3>1. lease \in SUBSET HostLease
      BY <1>1 DEF TypeOK
    <3> QED
      BY <1>5, <3>1, StartIs DEF Start
  <2>2. Calls' /\ Known'
    BY <2>1 DEF Calls, One, Known, Controlling
  <2> QED
    BY <1>2, <1>3, <1>4, <2>1, <2>2, StartKept
<1>6. CASE SupervisorState \notin {"starting", "running"} /\ Return("stopped")
  <2>1. ~interrupted => \A j \in Ids : ~InUse(j)
    BY <1>1, <1>6, UserReported DEF Control
  <2>2. ~interrupted => \A j \in Ids : proc'[j].at # "spawned"
    BY <1>2, FreeIs
  <2>3. interrupted' = interrupted /\ interrupted \in BOOLEAN
    BY <1>1 DEF TypeOK
  <2> QED
    BY <1>3, <1>4, <1>6, <2>1, <2>2, <2>3, ReturnKept
<1> QED
  BY <1>5, <1>6 DEF CliStop

LEMMA AbortKept == ASSUME IInv, Abort PROVE IInv'
<1>1. TypeOK /\ Processes /\ Leases /\ Calls /\ Control
  BY DEF IInv
<1>2. /\ UNCHANGED <<proc, lease, lang, socket, durable, endpoint>> /\ EnsureTo(Cli, "idle")
      /\ Return("dead")
  BY DEF Abort, files
<1>3. events' \in 0 .. MaxEvents
  BY <1>1, LifecycleConstants DEF Abort, TypeOK
<1>4. Touches /\ Frame /\ KeepsLease
  <2>1. ensure' \in [Ids \cup {Cli} -> Caller] /\ \A b \in Ids \cup {Cli} : ensure'[b].child \subseteq ensure[b].child
    BY <1>1, <1>2, EnsureToIs
  <2> QED
    BY <1>2, <1>3, <2>1 DEF Touches, Frame, KeepsLease
<1>5. \A j \in Ids : Steady(j)
  BY <1>2, SignalSteady
<1>6. interrupted' \in BOOLEAN /\ (interrupted => interrupted')
  BY <1>1 DEF Abort, TypeOK
<1>7. ~interrupted' => \A j \in Ids : proc'[j].at # "spawned"
  <2>1. ~interrupted' => ~interrupted /\ call.step # "await"
    BY DEF Abort
  <2> QED
    BY <1>1, <1>2, <2>1 DEF Control, Spawned
<1> QED
  BY <1>2, <1>4, <1>5, <1>6, <1>7, ReturnKept

\* A live host of another selection is reported as such.
LEMMA OtherSelection ==
    ASSUME One(lease), NEW l \in lease, owns_process(l), NEW s, l.sel # {s}, NEW answered, NEW kernel, NEW late
    PROVE  resident_status(s, answered, kernel, late).state = "incompatible"
<1>1. (CHOOSE x \in lease : TRUE) \in lease
  OBVIOUS
<1>2. (CHOOSE x \in lease : TRUE) = l /\ lease # {}
  BY <1>1 DEF One
<1> QED
  BY <1>2 DEF resident_status

\* What the provider does with a verdict.
Observes(s, stop, v) ==
    IF v \in {"blocked", "reused"} THEN Return(v)
    ELSE \E ls \in {FALSE, stop} :
           Start("reconcile", "read", [sel |-> {s}, stop |-> stop, ls |-> ls,
                                       incompatible |-> v = "incompatible"])

LEMMA ObservesIs ==
    ASSUME NEW s, NEW stop \in BOOLEAN, NEW v, v \notin {"blocked", "reused"}, Observes(s, stop, v)
    PROVE  \E ls, inc \in BOOLEAN :
             /\ inc <=> v = "incompatible"
             /\ call' = With(With(NoCall, [op |-> "reconcile", step |-> "read"]),
                             [sel |-> {s}, stop |-> stop, ls |-> ls, incompatible |-> inc])
             /\ stopped' = FALSE
<1>1. CASE v = "incompatible"
  <2>1. (v = "incompatible") = TRUE
    BY <1>1
  <2> QED
    BY <1>1, <2>1 DEF Observes, Start
<1>2. CASE v # "incompatible"
  <2>1. (v = "incompatible") = FALSE
    BY <1>2
  <2> QED
    BY <1>2, <2>1 DEF Observes, Start
<1> QED
  BY <1>1, <1>2

LEMMA ReconcileKept ==
    ASSUME IInv, call.op = "none", Reconcile, events' \in 0 .. MaxEvents, UNCHANGED interrupted
    PROVE  IInv'
<1>1. TypeOK /\ Processes /\ Leases /\ Calls /\ Control
  BY DEF IInv
<1>2. UNCHANGED <<proc, lease, lang, socket, durable, endpoint, ensure>>
  BY DEF Reconcile, files
<1>3. Touches /\ Frame /\ KeepsLease /\ \A j \in Ids : Steady(j)
  BY <1>1, <1>2, SameSteady DEF Touches, Frame, KeepsLease, TypeOK
<1>4. PICK s \in Selections, stop \in BOOLEAN : \E v \in Verdicts(s, stop) : Observes(s, stop, v)
  BY DEF Reconcile, Observes
<1>v. PICK v \in Verdicts(s, stop) : Observes(s, stop, v)
  BY <1>4
<1>5. CASE v \in {"blocked", "reused"}
  <2>0. Return(v)
    BY <1>v, <1>5 DEF Observes
  <2>1. ~interrupted' => \A j \in Ids : proc'[j].at # "spawned"
    BY <1>2, FreeIs
  <2>2. interrupted' = interrupted /\ interrupted \in BOOLEAN
    BY <1>1 DEF TypeOK
  <2>3. v # "stopped"
    BY <1>5
  <2> QED
    BY <1>3, <2>0, <2>1, <2>2, <2>3, ReturnKept
<1>6. CASE v \notin {"blocked", "reused"}
  <2>1. PICK ls \in BOOLEAN, inc \in BOOLEAN :
          /\ inc <=> v = "incompatible"
          /\ call' = With(With(NoCall, [op |-> "reconcile", step |-> "read"]),
                          [sel |-> {s}, stop |-> stop, ls |-> ls, incompatible |-> inc])
          /\ stopped' = FALSE
    BY <1>v, <1>6, ObservesIs, Zenon
  <2>2. /\ call' \in CallRecord /\ call'.op = "reconcile" /\ call'.step = "read" /\ call'.sel = {s}
        /\ call'.incompatible = inc /\ call'.lease = {} /\ call'.lang = {}
    BY <2>1, ReconcileIs
  <2>3. Calls'
    BY <2>1, <2>2 DEF Calls, One
  <2>4. ASSUME v # "incompatible", NEW l \in lease, NEW i \in l.birth, Alive(i)
        PROVE  proc[i].sel = {s}
    <3>1. i \in Ids
      BY <1>1 DEF TypeOK, HostLease
    <3>2. Describes(l, i)
      BY <1>1, <2>4, <3>1 DEF Leases
    <3>3. owns_process(l) /\ proc[i].sel = l.sel
      BY <2>4, <3>1, <3>2 DEF Describes, owns_process, Holding
    <3>4. SUFFICES ASSUME l.sel # {s} PROVE FALSE
      BY <3>3
    <3>5. PICK st : st.state = "incompatible" /\ v = verdict(st, stop)
      <4>1. One(lease)
        BY <1>1 DEF Leases
      <4>2. PICK answered \in BOOLEAN, late \in BOOLEAN, kernel \in Kernel :
              v = verdict(resident_status(s, answered, kernel, late), stop)
        BY DEF Verdicts
      <4> QED
        BY <3>3, <3>4, <4>1, <4>2, OtherSelection
    <3>6. v \in {"blocked", "incompatible"}
      BY <3>5 DEF verdict
    <3> QED
      BY <1>6, <2>4, <3>6
  <2>5. Known'
    BY <1>2, <2>1, <2>2, <2>4 DEF Known, Controlling, Alive
  <2> QED
    BY <1>2, <1>3, <2>1, <2>2, <2>3, <2>5, StartKept
<1> QED
  BY <1>5, <1>6

LEMMA BeginKept == ASSUME IInv, Begin PROVE IInv'
<1>1. events' \in 0 .. MaxEvents
  BY LifecycleConstants DEF IInv, TypeOK, Begin
<1> QED
  BY <1>1, ReconcileKept, CliStartKept, CliStopKept DEF Begin

-----------------------------------------------------------------------------
(* The theorems.                                                           *)

LEMMA InitIs == Init => IInv
<1> SUFFICES ASSUME Init PROVE IInv
  OBVIOUS
<1>1. proc \in [Ids -> Process] /\ \A i \in Ids : proc[i].kind = "none" /\ proc[i].at = "none"
  BY AbsentIs DEF Init
<1>2. lease = {} /\ lang = {} /\ socket = {} /\ endpoint = {} /\ durable = "absent" /\ events = 0
      /\ stopped = FALSE /\ interrupted = FALSE /\ call = NoCall
  BY DEF Init
<1>3. ensure \in [Ids \cup {Cli} -> Caller] /\ \A a \in Ids \cup {Cli} : ensure[a].child = {}
  BY DEF Init, Idle, Caller
<1>4. TypeOK
  <2>1. 0 \in 0 .. MaxEvents
    BY LifecycleConstants
  <2> QED
    BY <1>1, <1>2, <1>3, <2>1, NoCallIs DEF TypeOK
<1>5. Processes
  BY <1>1 DEF Processes, Alive, Places
<1>6. Leases
  BY <1>1, <1>2, <1>3, NoCallIs DEF Leases, One
<1>7. Calls
  BY <1>2, NoCallIs DEF Calls, One
<1>8. Control
  BY <1>1, <1>2, NoCallIs DEF Control, Leased, Known, Spawned, Quiet, InUse, Controlling
<1> QED
  BY <1>4, <1>5, <1>6, <1>7, <1>8 DEF IInv

LEMMA StutterKept == ASSUME IInv, UNCHANGED vars PROVE IInv'
<1>1. UNCHANGED <<proc, lease, lang, socket, durable, endpoint, ensure, call, stopped, interrupted, events>>
  BY DEF vars, files
<1>2. TypeOK' /\ Processes'
  BY <1>1 DEF IInv, TypeOK, Processes, Alive
<1>3. Leases'
  BY <1>1 DEF IInv, Leases, Alive, Describes
<1>4. Calls'
  BY <1>1 DEF IInv, Calls, Alive
<1>5. Control'
  <2>1. \A j \in Ids : InUse(j)' <=> InUse(j)
    BY <1>1 DEF InUse, Names
  <2>2. Leased => Leased'
    BY <1>1, <2>1 DEF Leased, Names
  <2>3. Known => Known'
    BY <1>1, <2>1 DEF Known, Alive, Controlling
  <2>4. (Spawned => Spawned') /\ (Quiet => Quiet')
    BY <1>1, <2>1 DEF Spawned, Quiet
  <2> QED
    BY <1>1, <2>2, <2>3, <2>4 DEF IInv, Control
<1> QED
  BY <1>2, <1>3, <1>4, <1>5 DEF IInv

\* The state of the lifecycle: processes are where their kind can be and have a
\* number of their own, the lease describes the process it names, and, unless a
\* continuous start was interrupted, every host in use has the lease, the holder
\* of the lock knows it, a host without a lease is the one a start waits for, and
\* after a stop no host is left that runs or will.
THEOREM LifecycleInvariant == Spec => []IInv
<1>1. ASSUME IInv, [Next]_vars PROVE IInv'
  <2>1. CASE Ensure
    BY <1>1, <2>1, EnsureKept
  <2>2. ASSUME NEW i \in Ids, Host(i) PROVE IInv'
    BY <1>1, <2>2, HostKept
  <2>3. CASE Environment
    BY <1>1, <2>3, EnvironmentKept
  <2>4. CASE Begin
    BY <1>1, <2>4, BeginKept
  <2>5. CASE Continue
    BY <1>1, <2>5, ContinueKept
  <2>6. CASE Abort
    BY <1>1, <2>6, AbortKept
  <2>7. CASE UNCHANGED vars
    BY <1>1, <2>7, StutterKept
  <2> QED
    BY <1>1, <2>1, <2>2, <2>3, <2>4, <2>5, <2>6, <2>7 DEF Next
<1> QED
  BY InitIs, <1>1, PTL DEF Spec

\* Unless a continuous start was interrupted, every process that supervises is the
\* one the lease names: the same number, and no other birth identity.
THEOREM LifecycleTracked == Spec => []Tracked
<1>1. ASSUME IInv PROVE Tracked
  <2> SUFFICES ASSUME ~interrupted, NEW i \in Active
               PROVE  \E l \in lease : l.pid = proc[i].pid /\ l.birth \subseteq {i}
    BY DEF Tracked
  <2>1. i \in Ids /\ InUse(i)
    BY DEF Active, InUse
  <2>2. PICK l \in lease : Names(l, i)
    BY <1>1, <2>1 DEF IInv, Control, Leased
  <2>3. l.pid = proc[i].pid /\ l.birth \subseteq {i}
    BY <2>2 DEF Names
  <2> QED
    BY <2>3
<1> QED
  BY LifecycleInvariant, <1>1, PTL

\* A stop that reported stopped left no process that supervises or will.
THEOREM LifecycleStopped == Spec => []StoppedMeansStopped
<1>1. ASSUME IInv PROVE StoppedMeansStopped
  <2> SUFFICES ASSUME stopped, ~interrupted, NEW i \in Active PROVE FALSE
    BY DEF StoppedMeansStopped
  <2>1. i \in Ids /\ InUse(i) /\ proc[i].at \notin {"final", "unlink"}
    BY DEF Active, InUse
  <2> QED
    BY <1>1, <2>1 DEF IInv, Control, Quiet
<1> QED
  BY LifecycleInvariant, <1>1, PTL

\* The process that the holder of the lock may signal.
Controlled(i) ==
    \/ proc[i].kind = "language"
    \/ /\ proc[i].kind = "managed"
       /\ interrupted \/ \A s \in proc[i].sel, t \in call.sel : s.owner = t.owner

LEMMA SignalsControlled ==
    ASSUME IInv, Signal, NEW j \in Ids, proc'[j] # proc[j]
    PROVE  Controlled(j)
<1>1. TypeOK /\ Processes /\ Leases /\ Calls /\ Control
  BY DEF IInv
<1>2. call.step \in {"signal_language", "signal_changed", "signal"}
  BY DEF Signal
<1>3. PICK l \in IF call.step = "signal" THEN call.lease ELSE call.lang :
        UNCHANGED proc \/ \E i \in Target(l) : proc' = Terminated(i)
  BY DEF Signal
<1>4. PICK i \in Target(l) : proc' = Terminated(i)
  BY <1>3
<1>5. i \in Ids /\ i \in l.birth /\ Alive(i)
  BY <1>4 DEF Target, Holding
<1>6. i = j
  BY <1>1, <1>4, <1>5, SignalEffect DEF Ended, MovesTo, Others
<1>7. CASE call.step # "signal"
  BY <1>1, <1>3, <1>5, <1>6, <1>7 DEF Leases, Controlled
<1>8. CASE call.step = "signal"
  <2>1. l \in call.lease
    BY <1>3, <1>8
  <2>2. proc[i].kind = "managed"
    BY <1>1, <1>5, <2>1 DEF Leases, Describes
  <2>3. ~interrupted => \A s \in proc[i].sel, t \in call.sel : s.owner = t.owner
    BY <1>1, <1>5, <1>8, <2>1 DEF Control, Known, Controlling
  <2> QED
    BY <1>6, <2>2, <2>3 DEF Controlled
<1> QED
  BY <1>7, <1>8

\* The provider ends or signals services and managed hosts only, and, unless a
\* continuous start was interrupted, the hosts of its own checkout: between the
\* reading of a lease and its signal the number of the process may have been given
\* to another.
THEOREM LifecycleOwnedControlled == Spec => OnlyOwnedControlled
<1>1. ASSUME IInv, [Next]_vars, call.op = "reconcile", call' # call,
             NEW i \in Ids, Alive(i), proc'[i] # proc[i]
      PROVE  Controlled(i)
  <2>1. /\ TypeOK /\ call.step \in {"read", "clean", "decide", "signal_language", "signal_changed",
                                    "signal", "register"}
    BY <1>1 DEF IInv, Calls
  <2>2. ASSUME NEW j \in Ids, NEW s \in SUBSET Selections, Popen(j, "managed", s, "wait") PROVE FALSE
    <3>1. Born(j, "managed", s, "wait")
      BY <2>1, <2>2, PopenEffect DEF Everywhere
    <3> QED
      BY <1>1, <3>1 DEF Born, Others
  <2>3. CASE Continue
    <3>1. Read \/ Clean \/ Decide \/ Signal \/ RegisterChild \/ CliStatus
      BY <1>1, <2>1, <2>3 DEF Continue, CliLook, CliSpawn, CliAwait, CliReap, CliKill, CliAwaitStop
    <3>2. CASE Decide
      <4>1. call.sel \subseteq Selections
        BY <2>1 DEF TypeOK, CallRecord
      <4>2. PICK s \in call.sel :
              UNCHANGED proc \/ \E j \in Ids : Popen(j, "managed", {s}, "wait")
        BY <3>2 DEF Decide
      <4> QED
        BY <1>1, <2>2, <4>1, <4>2
    <3>3. CASE Signal
      BY <1>1, <3>3, SignalsControlled
    <3> QED
      BY <1>1, <3>1, <3>2, <3>3 DEF Read, Clean, RegisterChild, CliStatus
  <2>4. CASE Abort
    BY <1>1, <2>4 DEF Abort
  <2>5. ~(Ensure \/ (\E j \in Ids : Host(j)) \/ Environment \/ Begin \/ UNCHANGED vars)
    BY <1>1 DEF Ensure, Host, Environment, Begin, vars
  <2> QED
    BY <1>1, <2>3, <2>4, <2>5 DEF Next
<1>2. ASSUME IInv, [Next]_vars
      PROVE  [call.op = "reconcile" /\ call' # call =>
                \A i \in Ids : Alive(i) /\ proc'[i] # proc[i] =>
                   \/ proc[i].kind = "language"
                   \/ /\ proc[i].kind = "managed"
                      /\ \/ interrupted
                         \/ \A s \in proc[i].sel, t \in call.sel : s.owner = t.owner]_vars
  BY <1>1, <1>2 DEF Controlled
<1> QED
  BY LifecycleInvariant, <1>2, PTL DEF Spec, OnlyOwnedControlled
=============================================================================
