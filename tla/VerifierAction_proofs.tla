------------------------ MODULE VerifierAction_proofs ------------------------
(***************************************************************************)
(* Theorems about VerifierAction: recovery never closes an action whose    *)
(* executor lives, and results, actions and receipt bindings are recorded  *)
(* in order, for any number of processes, actions and crashes.             *)
(***************************************************************************)
EXTENDS VerifierAction, SequenceTheorems, TLAPS

\* Inside run() before the action is recorded, after it, and in recovery.
Opening == {"begin", "put_action"}
Executing == {"execute", "terminal", "put_terminal"}
Recovering == {"recover_begin", "recover_put"}
Working == Opening \cup Executing \cup Recovering

\* A process works on one action, whose lock it alone holds.
Holding ==
    \A p \in Procs : /\ pc[p] \in Working => \E a \in Actions : act[p] = {a} /\ lock[a] = {p}
                     /\ pc[p] \notin Working => act[p] = {}

\* What the store holds of the action that a process works on.
Phase(p) ==
    \A a \in act[p] :
        /\ pc[p] \in Opening => a \notin Recorded("action")
        /\ pc[p] \in Recovering => a \in Recorded("action")
        /\ pc[p] \in Executing => a \in Recorded("action") /\ ResultsOf(a) = {}
Phases == \A p \in Procs : Phase(p)

\* Recovery looks only at recorded actions.
TodoRecorded == \A p \in Procs : todo[p] \subseteq Recorded("action")

\* The inductive invariant.
IInv == TypeOK /\ Holding /\ Phases /\ TodoRecorded /\ RunResultsOrdered

-----------------------------------------------------------------------------
(* The log.                                                                *)

\* What a commit of the entries s adds to the sets read from the log.
LEMMA Committed ==
    ASSUME log \in Seq(Entry), NEW s \in Seq(Entry), log' = log \o s
    PROVE  /\ log' \in Seq(Entry) /\ Len(log') = Len(log) + Len(s)
           /\ Len(log) \in Nat /\ Len(s) \in Nat
           /\ \A n \in 1..Len(log) : log'[n] = log[n]
           /\ \A i \in 1..Len(s) : log'[Len(log) + i] = s[i]
           /\ \A k, a : a \in Recorded(k)' <=>
                \/ a \in Recorded(k)
                \/ \E i \in 1..Len(s) : s[i].kind = k /\ s[i].act = a
           /\ \A a, n : n \in ResultsOf(a)' <=>
                \/ n \in ResultsOf(a)
                \/ \E i \in 1..Len(s) : n = Len(log) + i /\ s[i].kind = "result" /\ s[i].act = a
  <1>1. /\ log' \in Seq(Entry) /\ Len(log') = Len(log) + Len(s)
        /\ Len(log) \in Nat /\ Len(s) \in Nat
        /\ \A i \in 1..Len(log') : log'[i] = IF i <= Len(log) THEN log[i] ELSE s[i - Len(log)]
    BY ConcatProperties, LenProperties, SMT
  <1>2. ASSUME NEW n \in 1..Len(log)
        PROVE  n \in 1..Len(log') /\ log'[n] = log[n]
    BY <1>1
  <1>3. ASSUME NEW i \in 1..Len(s)
        PROVE  Len(log) + i \in 1..Len(log') /\ log'[Len(log) + i] = s[i]
    BY <1>1
  <1>4. ASSUME NEW n \in 1..Len(log'), n \notin 1..Len(log)
        PROVE  \E i \in 1..Len(s) : n = Len(log) + i
    <2>1. n - Len(log) \in 1..Len(s) /\ n = Len(log) + (n - Len(log))
      BY <1>1, <1>4
    <2> QED
      BY <2>1
  <1>5. ASSUME NEW k, NEW a
        PROVE  a \in Recorded(k)' <=> \/ a \in Recorded(k)
                                      \/ \E i \in 1..Len(s) : s[i].kind = k /\ s[i].act = a
    <2>1. ASSUME a \in Recorded(k)'
          PROVE  a \in Recorded(k) \/ \E i \in 1..Len(s) : s[i].kind = k /\ s[i].act = a
      <3>1. PICK n \in 1..Len(log') : log'[n].kind = k /\ log'[n].act = a
        BY <2>1 DEF Recorded
      <3>2. CASE n \in 1..Len(log)
        BY <1>2, <3>1, <3>2 DEF Recorded
      <3>3. CASE n \notin 1..Len(log)
        BY <1>3, <1>4, <3>1, <3>3
      <3> QED
        BY <3>2, <3>3
    <2>2. ASSUME NEW i \in 1..Len(s), s[i].kind = k, s[i].act = a PROVE a \in Recorded(k)'
      BY <1>3, <2>2 DEF Recorded
    <2>3. Recorded(k) \subseteq Recorded(k)'
      BY <1>2 DEF Recorded
    <2> QED
      BY <2>1, <2>2, <2>3
  <1>6. ASSUME NEW a, NEW n
        PROVE  n \in ResultsOf(a)' <=>
                 \/ n \in ResultsOf(a)
                 \/ \E i \in 1..Len(s) : n = Len(log) + i /\ s[i].kind = "result" /\ s[i].act = a
    <2>1. ASSUME n \in ResultsOf(a)', n \notin ResultsOf(a)
          PROVE  \E i \in 1..Len(s) : n = Len(log) + i /\ s[i].kind = "result" /\ s[i].act = a
      <3>1. n \in 1..Len(log') /\ log'[n].kind = "result" /\ log'[n].act = a
        BY <2>1 DEF ResultsOf
      <3>2. n \notin 1..Len(log)
        BY <1>2, <2>1, <3>1 DEF ResultsOf
      <3>3. PICK i \in 1..Len(s) : n = Len(log) + i
        BY <1>4, <3>1, <3>2
      <3> QED
        BY <1>3, <3>1, <3>3
    <2>2. ASSUME NEW i \in 1..Len(s), n = Len(log) + i, s[i].kind = "result", s[i].act = a
          PROVE  n \in ResultsOf(a)'
      BY <1>3, <2>2 DEF ResultsOf
    <2>3. ResultsOf(a) \subseteq ResultsOf(a)'
      BY <1>2 DEF ResultsOf
    <2> QED
      BY <2>1, <2>2, <2>3
  <1> QED
    BY <1>1, <1>2, <1>3, <1>5, <1>6

\* A commit adds only what it says: nothing else changes in the sets.
LEMMA CommittedOne ==
    ASSUME log \in Seq(Entry), NEW e \in Entry, log' = Append(log, e)
    PROVE  /\ log' \in Seq(Entry)
           /\ Len(log) \in Nat /\ Len(log') = Len(log) + 1
           /\ \A n \in 1..Len(log) : log'[n] = log[n]
           /\ log'[Len(log) + 1] = e
           /\ \A k : Recorded(k)' = Recorded(k) \cup (IF e.kind = k THEN {e.act} ELSE {})
           /\ \A a : ResultsOf(a)' = ResultsOf(a)
                        \cup (IF e.kind = "result" /\ e.act = a THEN {Len(log) + 1} ELSE {})
  <1>1. PICK s \in Seq(Entry) : s = <<e>>
    <2>1. <<e>> \in Seq(Entry)
      OBVIOUS
    <2> QED
      BY <2>1
  <1>2. Len(s) = 1 /\ 1..Len(s) = {1} /\ s[1] = e /\ log' = log \o s
    BY <1>1, AppendIsConcat
  <1>concat. log' = log \o s
    BY <1>2
  <1>sets. /\ \A k, a : a \in Recorded(k)' <=>
                \/ a \in Recorded(k)
                \/ \E i \in 1..Len(s) : s[i].kind = k /\ s[i].act = a
         /\ \A a, n : n \in ResultsOf(a)' <=>
                \/ n \in ResultsOf(a)
                \/ \E i \in 1..Len(s) : n = Len(log) + i /\ s[i].kind = "result" /\ s[i].act = a
    BY <1>concat, Committed
  <1>3. ASSUME NEW k
        PROVE  Recorded(k)' = Recorded(k) \cup (IF e.kind = k THEN {e.act} ELSE {})
    <2>1. \A a : a \in Recorded(k)' <=> \/ a \in Recorded(k)
                                        \/ \E i \in 1..Len(s) : s[i].kind = k /\ s[i].act = a
      BY <1>sets
    <2> QED
      BY <1>2, <2>1
  <1>4. ASSUME NEW a
        PROVE  ResultsOf(a)' = ResultsOf(a)
                  \cup (IF e.kind = "result" /\ e.act = a THEN {Len(log) + 1} ELSE {})
    <2>1. ASSUME NEW n
          PROVE  n \in ResultsOf(a)' <=>
                   \/ n \in ResultsOf(a)
                   \/ \E i \in 1..Len(s) : n = Len(log) + i /\ s[i].kind = "result" /\ s[i].act = a
      BY <1>sets
    <2>2. \A n : n \in ResultsOf(a)' <=>
                   n \in ResultsOf(a) \/ (n = Len(log) + 1 /\ e.kind = "result" /\ e.act = a)
      BY <1>2, <2>1, Zenon
    <2> QED
      BY <2>2, Zenon
  <1>5. /\ log' \in Seq(Entry)
        /\ Len(log) \in Nat /\ Len(log') = Len(log) + 1
        /\ \A n \in 1..Len(log) : log'[n] = log[n]
        /\ log'[Len(log) + 1] = e
    BY AppendProperties, LenProperties
  <1> QED
    BY <1>3, <1>4, <1>5

-----------------------------------------------------------------------------
(* Types.                                                                  *)

LEMMA TypeInit == Init => TypeOK
  BY VerifierBounds, EmptySeq DEF Init, TypeOK, Labels

LEMMA LeaveTypes ==
    ASSUME TypeOK, NEW p \in Procs, NEW l \in Labels, Leave(p, l)
    PROVE  /\ lock' \in [Actions -> SUBSET Procs] /\ pc' \in [Procs -> Labels]
           /\ act' \in [Procs -> SUBSET Actions] /\ gen' \in [Procs -> Nat]
           /\ outcome' \in [Procs -> SUBSET Outcomes]
  BY DEF TypeOK, Leave, Goto

LEMMA TypeStep == TypeOK /\ [Next]_vars => TypeOK'
  <1> SUFFICES ASSUME TypeOK, [Next]_vars PROVE TypeOK'
    OBVIOUS
  <1> USE DEF TypeOK, Labels
  <1>len. Len(log) \in Nat
    BY LenProperties
  <1>0. CASE UNCHANGED vars
    BY <1>0 DEF vars, locals
  <1>1. ASSUME NEW p \in Procs, Open(p) PROVE TypeOK'
    <2>1. Recorded("action") \subseteq Actions
      <3>1. ASSUME NEW n \in 1..Len(log) PROVE log[n].act \in Actions
        BY ElementOfSeq DEF Entry
      <3> QED
        BY <3>1 DEF Recorded
    <2> QED
      BY <1>1, <2>1 DEF Open, Goto
  <1>2. ASSUME NEW p \in Procs, RecoverNext(p) PROVE TypeOK'
    <2>1. CASE UNCHANGED <<lock, pc, act>>
      BY <1>2, <2>1 DEF RecoverNext
    <2>2. CASE ~UNCHANGED <<lock, pc, act>>
      <3>1. PICK a \in todo[p] : /\ lock' = [lock EXCEPT ![a] = {p}]
                                 /\ act' = [act EXCEPT ![p] = {a}]
                                 /\ Goto(p, "recover_begin")
                                 /\ todo' = [todo EXCEPT ![p] = todo[p] \ {a}]
        BY <1>2, <2>2 DEF RecoverNext
      <3> QED
        BY <1>2, <3>1 DEF RecoverNext, Goto
    <2> QED
      BY <2>1, <2>2
  <1>3. ASSUME NEW p \in Procs, RecoverPut(p) PROVE TypeOK'
    <2>1. PICK a \in act[p] :
            \/ UNCHANGED log
            \/ log' = Append(log, [kind |-> "result", act |-> a,
                                   status |-> "UNKNOWN", by |-> "recovery"])
      BY <1>3 DEF RecoverPut
    <2>2. [kind |-> "result", act |-> a, status |-> "UNKNOWN", by |-> "recovery"] \in Entry
      BY DEF Entry, Statuses
    <2>3. log' \in Seq(Entry)
      BY <2>1, <2>2, CommittedOne
    <2>4. Leave(p, "down") \/ Leave(p, "recovering")
      BY <1>3 DEF RecoverPut
    <2>5. todo' \in [Procs -> SUBSET Actions] /\ crashes' = crashes
      BY <1>3 DEF RecoverPut
    <2> QED
      BY <2>3, <2>4, <2>5, LeaveTypes
  <1>4. ASSUME NEW p \in Procs, RecoverDone(p) \/ Close(p) PROVE TypeOK'
    BY <1>4 DEF RecoverDone, Close, Goto, locals
  <1>5. ASSUME NEW p \in Procs, Begin(p) PROVE TypeOK'
    BY <1>5 DEF Begin, Goto
  <1>6. ASSUME NEW p \in Procs, ReadGeneration(p) PROVE TypeOK'
    BY <1>6, <1>len DEF ReadGeneration, Goto
  <1>7. ASSUME NEW p \in Procs, PutAction(p) PROVE TypeOK'
    <2>1. PICK a \in act[p] : \/ UNCHANGED log
                              \/ log' = Append(log, [kind |-> "action", act |-> a])
      BY <1>7 DEF PutAction
    <2>2. [kind |-> "action", act |-> a] \in Entry
      BY DEF Entry
    <2>3. log' \in Seq(Entry)
      BY <2>1, <2>2, CommittedOne
    <2>4. CASE Leave(p, "ready")
      BY <1>7, <2>3, <2>4, LeaveTypes DEF PutAction
    <2>5. CASE Goto(p, "execute") /\ UNCHANGED <<lock, act, gen, outcome>>
      BY <1>7, <2>3, <2>5 DEF PutAction, Goto
    <2> QED
      BY <1>7, <2>4, <2>5 DEF PutAction
  <1>8. ASSUME NEW p \in Procs, Execute(p) PROVE TypeOK'
    BY <1>8 DEF Execute, Goto
  <1>9. ASSUME NEW p \in Procs, PutTerminal(p) PROVE TypeOK'
    <2>1. PICK a \in act[p], o \in outcome[p], s \in Seq(Entry) :
            UNCHANGED log \/ log' = log \o s
      <3>1. PICK a \in act[p], o \in outcome[p] :
              LET result == [kind |-> "result", act |-> a, status |-> o.status, by |-> "run"]
                  binding == [kind |-> "binding", act |-> a]
              IN \/ UNCHANGED log
                 \/ log' = log \o <<binding, result>>
                 \/ log' = log \o <<result>>
        BY <1>9 DEF PutTerminal
      <3>2. /\ [kind |-> "result", act |-> a, status |-> o.status, by |-> "run"] \in Entry
            /\ [kind |-> "binding", act |-> a] \in Entry
        BY DEF Entry, Outcomes
      <3>3. <<[kind |-> "binding", act |-> a],
              [kind |-> "result", act |-> a, status |-> o.status, by |-> "run"]>> \in Seq(Entry)
            /\ <<[kind |-> "result", act |-> a, status |-> o.status, by |-> "run"]>> \in Seq(Entry)
        BY <3>2
      <3> QED
        BY <3>1, <3>3
    <2>2. log' \in Seq(Entry)
      BY <2>1, ConcatProperties
    <2> QED
      BY <1>9, <2>2, LeaveTypes DEF PutTerminal
  <1>10. ASSUME NEW p \in Procs, Crash(p) PROVE TypeOK'
    BY <1>10, VerifierBounds, LeaveTypes DEF Crash
  <1> QED
    BY <1>0, <1>1, <1>2, <1>3, <1>4, <1>5, <1>6, <1>7, <1>8, <1>9, <1>10 DEF Next, Step

-----------------------------------------------------------------------------
(* Locks.                                                                  *)

\* Leaving the lock scope of one's action disturbs no other process.
LEMMA LeaveHolding ==
    ASSUME TypeOK, Holding, NEW p \in Procs, NEW l \in Labels \ Working, Leave(p, l)
    PROVE  Holding'
  <1>1. pc'[p] \notin Working /\ act'[p] = {}
    BY DEF TypeOK, Leave, Goto
  <1>2. ASSUME NEW q \in Procs, q # p
        PROVE  /\ pc'[q] \in Working => \E a \in Actions : act'[q] = {a} /\ lock'[a] = {q}
               /\ pc'[q] \notin Working => act'[q] = {}
    <2>1. pc'[q] = pc[q] /\ act'[q] = act[q]
      BY <1>2 DEF TypeOK, Leave, Goto
    <2>2. \A a \in Actions : lock[a] = {q} => lock'[a] = {q}
      BY <1>2 DEF Leave
    <2> QED
      BY <2>1, <2>2 DEF Holding
  <1> QED
    BY <1>1, <1>2 DEF Holding

\* So does a step that keeps the locks and stays inside or outside the scope.
LEMMA SameLocksHolding ==
    ASSUME TypeOK, Holding, NEW p \in Procs, NEW l, Goto(p, l),
           pc[p] \in Working <=> l \in Working, UNCHANGED <<lock, act>>
    PROVE  Holding'
  <1> SUFFICES ASSUME NEW q \in Procs
               PROVE  /\ pc'[q] \in Working => \E a \in Actions : act[q] = {a} /\ lock[a] = {q}
                      /\ pc'[q] \notin Working => act[q] = {}
    BY DEF Holding
  <1> QED
    BY DEF TypeOK, Holding, Goto

\* And the taking of a free lock.
LEMMA TakeHolding ==
    ASSUME TypeOK, Holding, NEW p \in Procs, NEW l \in Working, Goto(p, l),
           NEW a \in Actions, lock[a] = {},
           lock' = [lock EXCEPT ![a] = {p}], act' = [act EXCEPT ![p] = {a}]
    PROVE  Holding'
  <1>1. pc'[p] \in Working /\ act'[p] = {a} /\ lock'[a] = {p}
    BY DEF TypeOK, Goto
  <1>2. ASSUME NEW q \in Procs, q # p
        PROVE  /\ pc'[q] \in Working => \E b \in Actions : act'[q] = {b} /\ lock'[b] = {q}
               /\ pc'[q] \notin Working => act'[q] = {}
    <2>1. pc'[q] = pc[q] /\ act'[q] = act[q]
      BY <1>2 DEF TypeOK, Goto
    <2>2. \A b \in Actions : lock[b] = {q} => lock'[b] = {q}
      BY DEF TypeOK
    <2> QED
      BY <2>1, <2>2 DEF Holding
  <1> QED
    BY <1>1, <1>2 DEF Holding

LEMMA HoldingStep == TypeOK /\ Holding /\ [Next]_vars => Holding'
  <1> SUFFICES ASSUME TypeOK, Holding, [Next]_vars PROVE Holding'
    OBVIOUS
  <1> USE DEF Working, Opening, Executing, Recovering
  <1>0. CASE UNCHANGED vars
    BY <1>0 DEF vars, locals, Holding
  <1>1. ASSUME NEW p \in Procs, Open(p) \/ RecoverDone(p) \/ Close(p) PROVE Holding'
    BY <1>1, SameLocksHolding DEF Open, RecoverDone, Close, locals
  <1>2. ASSUME NEW p \in Procs, RecoverNext(p) PROVE Holding'
    <2>1. CASE UNCHANGED <<lock, pc, act>>
      BY <2>1 DEF Holding
    <2>2. CASE \E a \in todo[p] : /\ lock[a] = {} /\ lock' = [lock EXCEPT ![a] = {p}]
                                  /\ act' = [act EXCEPT ![p] = {a}]
                                  /\ Goto(p, "recover_begin")
      BY <2>2, TakeHolding DEF TypeOK
    <2> QED
      BY <1>2, <2>1, <2>2 DEF RecoverNext
  <1>3. ASSUME NEW p \in Procs, Begin(p) PROVE Holding'
    BY <1>3, TakeHolding DEF Begin
  <1>4. ASSUME NEW p \in Procs, ReadGeneration(p) PROVE Holding'
    BY <1>4, SameLocksHolding DEF ReadGeneration
  <1>5. ASSUME NEW p \in Procs, Execute(p) PROVE Holding'
    BY <1>5, SameLocksHolding DEF Execute
  <1>6. ASSUME NEW p \in Procs, PutAction(p) PROVE Holding'
    <2>1. CASE Leave(p, "ready")
      BY <2>1, LeaveHolding DEF Labels
    <2>2. CASE Goto(p, "execute") /\ UNCHANGED <<lock, act>>
      BY <1>6, <2>2, SameLocksHolding DEF PutAction
    <2> QED
      BY <1>6, <2>1, <2>2 DEF PutAction
  <1>7. ASSUME NEW p \in Procs, RecoverPut(p) \/ PutTerminal(p) \/ Crash(p) PROVE Holding'
    BY <1>7, LeaveHolding DEF RecoverPut, PutTerminal, Crash, Labels
  <1> QED
    BY <1>0, <1>1, <1>2, <1>3, <1>4, <1>5, <1>6, <1>7 DEF Next, Step

-----------------------------------------------------------------------------
(* Phases.                                                                 *)

LEMMA SameLog ==
    ASSUME UNCHANGED log
    PROVE  (\A k : Recorded(k)' = Recorded(k)) /\ (\A a : ResultsOf(a)' = ResultsOf(a))
  BY DEF Recorded, ResultsOf

\* No two processes work on one action.
LEMMA Exclusive ==
    ASSUME TypeOK, Holding, NEW p \in Procs, NEW q \in Procs, NEW a \in act[p], a \in act[q]
    PROVE  p = q
  BY DEF Holding

\* A step that leaves a process alone, and its action in the log, keeps its phase.
LEMMA Untouched ==
    ASSUME NEW q, Phase(q), pc'[q] = pc[q], act'[q] = act[q],
           \A a \in act[q] : /\ a \in Recorded("action")' <=> a \in Recorded("action")
                             /\ ResultsOf(a)' = ResultsOf(a)
    PROVE  Phase(q)'
  BY DEF Phase

\* An action without an action record has no result.
LEMMA NothingBefore ==
    ASSUME TypeOK, RunResultsOrdered, NEW a, a \notin Recorded("action")
    PROVE  ResultsOf(a) = {}
  <1>1. Len(log) \in Nat
    BY LenProperties DEF TypeOK
  <1>2. ASSUME NEW n \in ResultsOf(a) PROVE FALSE
    <2>1. PICK m \in 1..n - 1 : log[m].kind = "action" /\ log[m].act = a
      BY <1>2 DEF RunResultsOrdered, ResultsOf
    <2>2. m \in 1..Len(log)
      BY <1>1, <1>2, <2>1 DEF ResultsOf
    <2> QED
      BY <2>1, <2>2 DEF Recorded
  <1> QED
    BY <1>2

\* What a commit adds whose last entry only is a result, all of an action a.
LEMMA CommittedResult ==
    ASSUME log \in Seq(Entry), NEW a \in Actions, NEW s \in Seq(Entry), s # <<>>,
           log' = log \o s,
           \A i \in 1..Len(s) : /\ s[i].act = a /\ s[i].kind # "action"
                                /\ s[i].kind = "result" <=> i = Len(s)
    PROVE  /\ Len(log) \in Nat /\ Len(log') \in Nat /\ Len(log) < Len(log')
           /\ \A n \in 1..Len(log) : log'[n] = log[n]
           /\ log'[Len(log')] = s[Len(s)]
           /\ \A n \in 1..Len(log') : n > Len(log) /\ log'[n].kind = "result" => n = Len(log')
           /\ Recorded("action")' = Recorded("action")
           /\ Recorded("result")' = Recorded("result") \cup {a}
           /\ Recorded("binding")' \subseteq Recorded("binding") \cup {a}
           /\ ResultsOf(a)' = ResultsOf(a) \cup {Len(log')}
           /\ \A b : b # a => ResultsOf(b)' = ResultsOf(b)
  <1>1. Len(s) \in Nat \ {0}
    BY EmptySeq
  <1>2. Len(s) \in 1..Len(s)
    BY <1>1
  <1>3. /\ Len(log') = Len(log) + Len(s) /\ Len(log) \in Nat
        /\ \A n \in 1..Len(log) : log'[n] = log[n]
        /\ \A i \in 1..Len(s) : log'[Len(log) + i] = s[i]
    BY Committed
  <1>4. \A k, b : b \in Recorded(k)' <=> \/ b \in Recorded(k)
                                         \/ \E i \in 1..Len(s) : s[i].kind = k /\ s[i].act = b
    BY Committed
  <1>5. /\ Recorded("action")' = Recorded("action")
        /\ Recorded("result")' = Recorded("result") \cup {a}
        /\ Recorded("binding")' \subseteq Recorded("binding") \cup {a}
    BY <1>2, <1>4
  <1>6. \A b, n : n \in ResultsOf(b)' <=>
                    \/ n \in ResultsOf(b)
                    \/ \E i \in 1..Len(s) : n = Len(log) + i /\ s[i].kind = "result" /\ s[i].act = b
    BY Committed
  <1>7. ResultsOf(a)' = ResultsOf(a) \cup {Len(log')}
    <2>1. \A n : (\E i \in 1..Len(s) : n = Len(log) + i /\ s[i].kind = "result" /\ s[i].act = a)
                   <=> n = Len(log')
      BY <1>2, <1>3
    <2>2. \A n : n \in ResultsOf(a)' <=> n \in ResultsOf(a) \/ n = Len(log')
      BY <1>6, <2>1, Zenon
    <2> QED
      BY <2>2, Zenon
  <1>8. ASSUME NEW b, b # a PROVE ResultsOf(b)' = ResultsOf(b)
    BY <1>6, <1>8
  <1>9. ASSUME NEW n \in 1..Len(log'), n > Len(log), log'[n].kind = "result"
        PROVE  n = Len(log')
    <2>1. PICK i \in 1..Len(s) : n = Len(log) + i
      <3>1. n - Len(log) \in 1..Len(s) /\ n = Len(log) + (n - Len(log))
        BY <1>1, <1>3, <1>9
      <3> QED
        BY <3>1
    <2> QED
      BY <1>1, <1>3, <1>9, <2>1
  <1>10. Len(log') \in Nat /\ Len(log) < Len(log') /\ log'[Len(log')] = s[Len(s)]
    BY <1>1, <1>2, <1>3
  <1> QED
    BY <1>3, <1>5, <1>7, <1>8, <1>9, <1>10

\* A terminal commit is such a commit.
LEMMA CommittedTerminal ==
    ASSUME TypeOK, NEW p \in Procs, NEW a \in act[p], NEW o \in outcome[p],
           NEW s, s = (IF o.session
                       THEN <<[kind |-> "binding", act |-> a],
                              [kind |-> "result", act |-> a, status |-> o.status, by |-> "run"]>>
                       ELSE <<[kind |-> "result", act |-> a, status |-> o.status, by |-> "run"]>>)
    PROVE  /\ s \in Seq(Entry) /\ s # <<>>
           /\ \A i \in 1..Len(s) : /\ s[i].act = a /\ s[i].kind # "action"
                                   /\ s[i].kind = "result" <=> i = Len(s)
  <1> DEFINE binding == [kind |-> "binding", act |-> a]
             result == [kind |-> "result", act |-> a, status |-> o.status, by |-> "run"]
  <1>1. result \in Entry /\ binding \in Entry
    BY DEF TypeOK, Entry, Outcomes
  <1>2. binding.act = a /\ binding.kind = "binding" /\ result.act = a /\ result.kind = "result"
    OBVIOUS
  <1>3. s = IF o.session THEN <<binding, result>> ELSE <<result>>
    OBVIOUS
  <1> HIDE DEF binding, result
  <1>4. CASE o.session
    <2>1. s = <<binding, result>>
      BY <1>3, <1>4
    <2>2. s \in Seq(Entry) /\ Len(s) = 2 /\ s[1] = binding /\ s[2] = result
      BY <1>1, <2>1
    <2> QED
      BY <1>2, <2>2
  <1>5. CASE ~o.session
    <2>1. s = <<result>>
      BY <1>3, <1>5
    <2>2. s \in Seq(Entry) /\ Len(s) = 1 /\ s[1] = result
      BY <1>1, <2>1
    <2> QED
      BY <1>2, <2>2
  <1> QED
    BY <1>4, <1>5

\* A commit of an action a that adds no action or result of any other.
LEMMA OthersKeepPhase ==
    ASSUME TypeOK, Holding, Phases, NEW p \in Procs, NEW a \in act[p],
           \A q \in Procs \ {p} : pc'[q] = pc[q] /\ act'[q] = act[q],
           \A b : b # a => /\ b \in Recorded("action")' <=> b \in Recorded("action")
                           /\ ResultsOf(b)' = ResultsOf(b),
           Phase(p)'
    PROVE  Phases'
  <1> SUFFICES ASSUME NEW q \in Procs, q # p PROVE Phase(q)'
    BY DEF Phases
  <1>1. \A b \in act[q] : b # a
    BY Exclusive
  <1> QED
    BY <1>1, Untouched DEF Phases

LEMMA PhaseStep == IInv /\ [Next]_vars => Phases'
  <1> SUFFICES ASSUME IInv, [Next]_vars PROVE Phases'
    OBVIOUS
  <1> USE DEF IInv
  <1>types. /\ \A p \in Procs, q \in Procs : q # p => \A l : Goto(p, l) => pc'[q] = pc[q]
            /\ \A p \in Procs : \A l : Goto(p, l) => pc'[p] = l
    BY DEF TypeOK, Goto
  <1>leave. ASSUME NEW p \in Procs, NEW l, Leave(p, l)
            PROVE  /\ \A q \in Procs \ {p} : pc'[q] = pc[q] /\ act'[q] = act[q]
                   /\ act'[p] = {}
    BY <1>leave DEF TypeOK, Leave, Goto
  <1>0. CASE UNCHANGED vars
    BY <1>0, SameLog, Untouched DEF vars, locals, Phases
  <1>1. ASSUME NEW p \in Procs, Open(p) \/ RecoverDone(p) \/ Close(p) PROVE Phases'
    <2>1. UNCHANGED log /\ act' = act /\ \A q \in Procs \ {p} : pc'[q] = pc[q]
      BY <1>1, <1>types DEF Open, RecoverDone, Close, locals
    <2>2. act[p] = {}
      BY <1>1 DEF Holding, Open, RecoverDone, Close, Working, Opening, Executing, Recovering
    <2> QED
      BY <2>1, <2>2, SameLog, Untouched DEF Phases, Phase
  <1>2. ASSUME NEW p \in Procs, RecoverNext(p) PROVE Phases'
    <2>1. CASE UNCHANGED <<lock, pc, act>>
      BY <1>2, <2>1, SameLog, Untouched DEF RecoverNext, Phases
    <2>2. CASE ~UNCHANGED <<lock, pc, act>>
      <3>1. PICK a \in todo[p] : act' = [act EXCEPT ![p] = {a}] /\ Goto(p, "recover_begin")
        BY <1>2, <2>2 DEF RecoverNext
      <3>2. UNCHANGED log /\ \A q \in Procs \ {p} : pc'[q] = pc[q] /\ act'[q] = act[q]
        BY <1>2, <3>1, <1>types DEF RecoverNext, TypeOK
      <3>3. act'[p] = {a} /\ pc'[p] = "recover_begin" /\ a \in Recorded("action")
        BY <3>1, <1>types DEF TypeOK, TodoRecorded
      <3>4. Phase(p)'
        BY <3>2, <3>3, SameLog DEF Phase, Opening, Executing, Recovering
      <3> QED
        BY <3>2, <3>4, SameLog, Untouched DEF Phases
    <2> QED
      BY <2>1, <2>2
  <1>3. ASSUME NEW p \in Procs, Begin(p) PROVE Phases'
    <2>1. PICK a \in Actions : /\ a \notin Recorded("action")
                               /\ act' = [act EXCEPT ![p] = {a}] /\ Goto(p, "begin")
      BY <1>3 DEF Begin
    <2>2. UNCHANGED log /\ \A q \in Procs \ {p} : pc'[q] = pc[q] /\ act'[q] = act[q]
      BY <1>3, <2>1, <1>types DEF Begin, TypeOK
    <2>3. act'[p] = {a} /\ pc'[p] = "begin"
      BY <2>1, <1>types DEF TypeOK
    <2>4. Phase(p)'
      BY <2>1, <2>2, <2>3, SameLog DEF Phase, Opening, Executing, Recovering
    <2> QED
      BY <2>2, <2>4, SameLog, Untouched DEF Phases
  <1>4. ASSUME NEW p \in Procs, ReadGeneration(p) \/ Execute(p) PROVE Phases'
    <2>1. UNCHANGED log /\ act' = act /\ \A q \in Procs \ {p} : pc'[q] = pc[q]
      BY <1>4, <1>types DEF ReadGeneration, Execute
    <2>2. \/ pc[p] = "recover_begin" /\ pc'[p] = "recover_put"
          \/ pc[p] = "begin" /\ pc'[p] = "put_action"
          \/ pc[p] = "terminal" /\ pc'[p] = "put_terminal"
          \/ pc[p] = "execute" /\ pc'[p] = "terminal"
      BY <1>4, <1>types DEF ReadGeneration, Execute
    <2>3. Phase(p)'
      BY <2>1, <2>2, SameLog DEF Phases, Phase, Opening, Executing, Recovering
    <2> QED
      BY <2>1, <2>3, SameLog, Untouched DEF Phases
  <1>5. ASSUME NEW p \in Procs, PutAction(p) PROVE Phases'
    <2>1. CASE Leave(p, "ready") /\ UNCHANGED log
      BY <2>1, <1>leave, SameLog, Untouched DEF Phases, Phase
    <2>2. CASE ~(Leave(p, "ready") /\ UNCHANGED log)
      <3>1. PICK a \in act[p], e \in Entry :
                   /\ e = [kind |-> "action", act |-> a]
                   /\ log' = Append(log, e) /\ Goto(p, "execute") /\ act' = act
        BY <1>5, <2>2 DEF PutAction, TypeOK, Entry
      <3>2. /\ Recorded("action")' = Recorded("action") \cup {a}
            /\ \A b : ResultsOf(b)' = ResultsOf(b)
        <4>1. e.kind = "action" /\ e.act = a /\ log \in Seq(Entry) /\ log' = Append(log, e)
          BY <3>1 DEF TypeOK
        <4>2. /\ \A k : Recorded(k)' = Recorded(k) \cup (IF e.kind = k THEN {e.act} ELSE {})
              /\ \A b : ResultsOf(b)' = ResultsOf(b)
                          \cup (IF e.kind = "result" /\ e.act = b THEN {Len(log) + 1} ELSE {})
          BY <4>1, CommittedOne, Zenon
        <4> QED
          BY <4>1, <4>2
      <3>3. a \notin Recorded("action") /\ act[p] = {a}
        BY <1>5, <3>1 DEF PutAction, Phases, Phase, Holding, Opening, Working
      <3>4. ResultsOf(a) = {}
        BY <3>3, NothingBefore
      <3>5. Phase(p)'
        BY <3>1, <3>2, <3>3, <3>4, <1>types DEF Phase, Opening, Executing, Recovering
      <3> QED
        BY <3>1, <3>2, <3>5, <1>types, OthersKeepPhase
    <2> QED
      BY <2>1, <2>2
  <1>6. ASSUME NEW p \in Procs, RecoverPut(p) PROVE Phases'
    <2>1. PICK a \in act[p], e \in Entry, l \in {"down", "recovering"} :
             /\ e = [kind |-> "result", act |-> a, status |-> "UNKNOWN", by |-> "recovery"]
             /\ Leave(p, l) /\ (UNCHANGED log \/ log' = Append(log, e))
      BY <1>6 DEF RecoverPut, TypeOK, Entry, Statuses
    <2>2. /\ Recorded("action")' = Recorded("action")
          /\ \A b : b # a => ResultsOf(b)' = ResultsOf(b)
      <3>1. CASE UNCHANGED log
        BY <3>1, SameLog
      <3>2. CASE log' = Append(log, e)
        <4>1. e.kind # "action" /\ e.act = a /\ log \in Seq(Entry)
          BY <2>1 DEF TypeOK
        <4>2. /\ \A k : Recorded(k)' = Recorded(k) \cup (IF e.kind = k THEN {e.act} ELSE {})
              /\ \A b : ResultsOf(b)' = ResultsOf(b)
                          \cup (IF e.kind = "result" /\ e.act = b THEN {Len(log) + 1} ELSE {})
          BY <3>2, <4>1, CommittedOne, Zenon
        <4> QED
          BY <4>1, <4>2
      <3> QED
        BY <2>1, <3>1, <3>2
    <2>3. Phase(p)'
      BY <2>1, <1>leave DEF Phase
    <2> QED
      BY <2>1, <2>2, <2>3, <1>leave, OthersKeepPhase
  <1>7. ASSUME NEW p \in Procs, PutTerminal(p) PROVE Phases'
    <2>0. PICK a \in act[p], o \in outcome[p] : \E s :
             /\ s = (IF o.session
                     THEN <<[kind |-> "binding", act |-> a],
                            [kind |-> "result", act |-> a, status |-> o.status, by |-> "run"]>>
                     ELSE <<[kind |-> "result", act |-> a, status |-> o.status, by |-> "run"]>>)
             /\ (UNCHANGED log \/ log' = log \o s)
      BY <1>7 DEF PutTerminal
    <2>1. PICK s :
             /\ s = (IF o.session
                     THEN <<[kind |-> "binding", act |-> a],
                            [kind |-> "result", act |-> a, status |-> o.status, by |-> "run"]>>
                     ELSE <<[kind |-> "result", act |-> a, status |-> o.status, by |-> "run"]>>)
             /\ (UNCHANGED log \/ log' = log \o s)
             /\ a \in act[p] /\ o \in outcome[p]
      BY <2>0
    <2>2. /\ Recorded("action")' = Recorded("action")
          /\ \A b : b # a => ResultsOf(b)' = ResultsOf(b)
      <3>1. CASE UNCHANGED log
        BY <3>1, SameLog
      <3>2. CASE log' = log \o s
        <4>0. TypeOK
          BY DEF IInv
        <4>1. /\ s \in Seq(Entry) /\ s # <<>>
              /\ \A i \in 1..Len(s) : /\ s[i].act = a /\ s[i].kind # "action"
                                      /\ s[i].kind = "result" <=> i = Len(s)
          BY <2>1, <4>0, CommittedTerminal
        <4>2. log \in Seq(Entry) /\ a \in Actions
          BY <2>1, <4>0 DEF TypeOK
        <4> QED
          BY <3>2, <4>1, <4>2, CommittedResult
      <3> QED
        BY <2>1, <3>1, <3>2
    <2>3. Leave(p, "ready")
      BY <1>7 DEF PutTerminal
    <2>4. Phase(p)'
      BY <2>3, <1>leave DEF Phase
    <2> QED
      BY <2>1, <2>2, <2>3, <2>4, <1>leave, OthersKeepPhase
  <1>8. ASSUME NEW p \in Procs, Crash(p) PROVE Phases'
    BY <1>8, <1>leave, SameLog, Untouched DEF Crash, Phases, Phase
  <1> QED
    BY <1>0, <1>1, <1>2, <1>3, <1>4, <1>5, <1>6, <1>7, <1>8 DEF Next, Step

-----------------------------------------------------------------------------
(* The order of the records.                                               *)

RecoveredResult(a) == [kind |-> "result", act |-> a, status |-> "UNKNOWN", by |-> "recovery"]
ActionRecord(a) == [kind |-> "action", act |-> a]
BindingRecord(a) == [kind |-> "binding", act |-> a]
RunResult(a, o) == [kind |-> "result", act |-> a, status |-> o.status, by |-> "run"]
TerminalRecords(a, o) == IF o.session THEN <<BindingRecord(a), RunResult(a, o)>>
                         ELSE <<RunResult(a, o)>>

\* All that a step may do to the log.
LEMMA LogSteps ==
    ASSUME [Next]_vars
    PROVE  \/ UNCHANGED log
           \/ \E p \in Procs : \E a \in act[p] :
                \/ pc[p] = "recover_put" /\ log' = Append(log, RecoveredResult(a))
                \/ pc[p] = "put_action" /\ log' = Append(log, ActionRecord(a))
                \/ /\ pc[p] = "put_terminal"
                   /\ \E o \in outcome[p] : log' = log \o TerminalRecords(a, o)
  <1>0. CASE UNCHANGED vars
    BY <1>0 DEF vars
  <1>1. ASSUME NEW p \in Procs,
               Open(p) \/ RecoverNext(p) \/ RecoverDone(p) \/ ReadGeneration(p)
                 \/ Execute(p) \/ Begin(p) \/ Close(p) \/ Crash(p)
        PROVE  UNCHANGED log
    BY <1>1 DEF Open, RecoverNext, RecoverDone, ReadGeneration, Execute, Begin, Close, Crash
  <1>2. ASSUME NEW p \in Procs, RecoverPut(p)
        PROVE  \/ UNCHANGED log
               \/ \E a \in act[p] : pc[p] = "recover_put" /\ log' = Append(log, RecoveredResult(a))
    BY <1>2 DEF RecoverPut, RecoveredResult
  <1>3. ASSUME NEW p \in Procs, PutAction(p)
        PROVE  \/ UNCHANGED log
               \/ \E a \in act[p] : pc[p] = "put_action" /\ log' = Append(log, ActionRecord(a))
    BY <1>3 DEF PutAction, ActionRecord
  <1>4. ASSUME NEW p \in Procs, PutTerminal(p)
        PROVE  \/ UNCHANGED log
               \/ /\ pc[p] = "put_terminal"
                  /\ \E a \in act[p], o \in outcome[p] : log' = log \o TerminalRecords(a, o)
    BY <1>4 DEF PutTerminal, TerminalRecords, BindingRecord, RunResult
  <1> QED
    BY <1>0, <1>1, <1>2, <1>3, <1>4 DEF Next, Step

\* A new result that is no run's second and follows its action keeps the order.
LEMMA OneMoreResult ==
    ASSUME TypeOK, RunResultsOrdered, NEW a \in Actions, a \in Recorded("action"),
           NEW by, by = "run" => ResultsOf(a) = {},
           Len(log) \in Nat, Len(log') \in Nat, Len(log) < Len(log'),
           \A n \in 1..Len(log) : log'[n] = log[n],
           log'[Len(log')].act = a, log'[Len(log')].by = by,
           \A n \in 1..Len(log') : n > Len(log) /\ log'[n].kind = "result" => n = Len(log'),
           ResultsOf(a)' = ResultsOf(a) \cup {Len(log')},
           \A b : b # a => ResultsOf(b)' = ResultsOf(b),
           Recorded("result")' = Recorded("result") \cup {a},
           Recorded("binding")' \subseteq Recorded("binding") \cup {a}
    PROVE  RunResultsOrdered'
  <1>1. ASSUME NEW n \in 1..Len(log'), log'[n].kind = "result"
        PROVE  \E m \in 1..n - 1 : log'[m].kind = "action" /\ log'[m].act = log'[n].act
    <2>1. CASE n \in 1..Len(log)
      <3>1. PICK m \in 1..n - 1 : log[m].kind = "action" /\ log[m].act = log[n].act
        BY <1>1, <2>1 DEF RunResultsOrdered
      <3>2. m \in 1..Len(log)
        BY <2>1, <3>1
      <3> QED
        BY <2>1, <3>1, <3>2
    <2>2. CASE n \notin 1..Len(log)
      <3>1. n = Len(log')
        BY <1>1, <2>2
      <3>2. PICK m \in 1..Len(log) : log[m].kind = "action" /\ log[m].act = a
        BY DEF Recorded
      <3>3. m \in 1..n - 1
        BY <3>1, <3>2
      <3> QED
        BY <3>1, <3>2, <3>3
    <2> QED
      BY <2>1, <2>2
  <1>2. ASSUME NEW b \in Actions, NEW m \in ResultsOf(b)', NEW n \in ResultsOf(b)',
               log'[m].by = "run", log'[n].by = "run"
        PROVE  m = n
    <2>old. \A i \in ResultsOf(b) : log'[i] = log[i]
      BY DEF ResultsOf
    <2>1. CASE b # a
      BY <1>2, <2>1, <2>old DEF RunResultsOrdered
    <2>2. CASE b = a
      BY <1>2, <2>2, <2>old DEF RunResultsOrdered
    <2> QED
      BY <2>1, <2>2
  <1>3. Recorded("binding")' \subseteq Recorded("result")'
    BY DEF RunResultsOrdered
  <1> QED
    BY <1>1, <1>2, <1>3 DEF RunResultsOrdered

LEMMA OrderedStep == IInv /\ [Next]_vars => RunResultsOrdered'
  <1> SUFFICES ASSUME IInv, [Next]_vars PROVE RunResultsOrdered'
    OBVIOUS
  <1>inv. TypeOK /\ Holding /\ Phases /\ RunResultsOrdered /\ log \in Seq(Entry)
          /\ Len(log) \in Nat
    BY LenProperties DEF IInv, TypeOK
  <1>0. CASE UNCHANGED log
    <2>1. /\ \A k : Recorded(k)' = Recorded(k)
          /\ \A a : ResultsOf(a)' = ResultsOf(a)
      BY <1>0, SameLog
    <2> QED
      BY <1>0, <1>inv, <2>1 DEF RunResultsOrdered
  <1>1. ASSUME NEW p \in Procs, NEW a \in act[p],
               pc[p] = "recover_put", log' = Append(log, RecoveredResult(a))
        PROVE  RunResultsOrdered'
    <2>1. a \in Actions /\ a \in Recorded("action")
      BY <1>1, <1>inv DEF TypeOK, Phases, Phase, Recovering
    <2>2. PICK e \in Entry : /\ e = RecoveredResult(a) /\ log' = Append(log, e)
                             /\ e.kind = "result" /\ e.act = a /\ e.by = "recovery"
      BY <1>1, <2>1 DEF RecoveredResult, Entry, Statuses
    <2>3. /\ Len(log') = Len(log) + 1 /\ log'[Len(log) + 1] = e
          /\ \A n \in 1..Len(log) : log'[n] = log[n]
          /\ \A k : Recorded(k)' = Recorded(k) \cup (IF e.kind = k THEN {e.act} ELSE {})
          /\ \A b : ResultsOf(b)' = ResultsOf(b)
                      \cup (IF e.kind = "result" /\ e.act = b THEN {Len(log) + 1} ELSE {})
      BY <1>inv, <2>2, CommittedOne, Zenon
    <2>4. /\ Recorded("result")' = Recorded("result") \cup {a}
          /\ Recorded("binding")' = Recorded("binding")
          /\ ResultsOf(a)' = ResultsOf(a) \cup {Len(log')}
          /\ \A b : b # a => ResultsOf(b)' = ResultsOf(b)
      BY <2>2, <2>3
    <2>5. /\ Len(log') \in Nat /\ Len(log) < Len(log')
          /\ log'[Len(log')].act = a /\ log'[Len(log')].by = "recovery"
          /\ \A n \in 1..Len(log') : n > Len(log) => n = Len(log')
      BY <1>inv, <2>2, <2>3
    <2> QED
      BY <1>inv, <2>1, <2>3, <2>4, <2>5, OneMoreResult
  <1>2. ASSUME NEW p \in Procs, NEW a \in act[p],
               pc[p] = "put_action", log' = Append(log, ActionRecord(a))
        PROVE  RunResultsOrdered'
    <2>1. a \in Actions
      BY <1>inv DEF TypeOK
    <2>2. PICK e \in Entry : /\ e = ActionRecord(a) /\ log' = Append(log, e)
                             /\ e.kind = "action" /\ e.act = a
      BY <1>2, <2>1 DEF ActionRecord, Entry
    <2>3. /\ Len(log') = Len(log) + 1 /\ log'[Len(log) + 1] = e
          /\ \A n \in 1..Len(log) : log'[n] = log[n]
          /\ \A k : Recorded(k)' = Recorded(k) \cup (IF e.kind = k THEN {e.act} ELSE {})
          /\ \A b : ResultsOf(b)' = ResultsOf(b)
                      \cup (IF e.kind = "result" /\ e.act = b THEN {Len(log) + 1} ELSE {})
      BY <1>inv, <2>2, CommittedOne, Zenon
    <2>4. /\ Recorded("result")' = Recorded("result")
          /\ Recorded("binding")' = Recorded("binding")
          /\ \A b : ResultsOf(b)' = ResultsOf(b)
      BY <2>2, <2>3
    <2>5. ASSUME NEW n \in 1..Len(log'), log'[n].kind = "result"
          PROVE  \E m \in 1..n - 1 : log'[m].kind = "action" /\ log'[m].act = log'[n].act
      <3>1. n \in 1..Len(log)
        BY <1>inv, <2>2, <2>3, <2>5
      <3>2. PICK m \in 1..n - 1 : log[m].kind = "action" /\ log[m].act = log[n].act
        BY <1>inv, <2>3, <2>5, <3>1 DEF RunResultsOrdered
      <3>3. m \in 1..Len(log)
        BY <3>1, <3>2
      <3> QED
        BY <2>3, <3>1, <3>2, <3>3
    <2>6. \A b \in Actions : \A n \in ResultsOf(b) : log'[n] = log[n]
      BY <2>3 DEF ResultsOf
    <2> QED
      BY <1>inv, <2>4, <2>5, <2>6 DEF RunResultsOrdered
  <1>3. ASSUME NEW p \in Procs, NEW a \in act[p], NEW o \in outcome[p],
               pc[p] = "put_terminal", log' = log \o TerminalRecords(a, o)
        PROVE  RunResultsOrdered'
    <2>1. a \in Actions /\ a \in Recorded("action") /\ ResultsOf(a) = {}
      BY <1>3, <1>inv DEF TypeOK, Phases, Phase, Executing
    <2>2. PICK s : s = TerminalRecords(a, o)
      OBVIOUS
    <2>3. /\ s \in Seq(Entry) /\ s # <<>>
          /\ \A i \in 1..Len(s) : /\ s[i].act = a /\ s[i].kind # "action"
                                  /\ s[i].kind = "result" <=> i = Len(s)
      BY <1>inv, <2>2, CommittedTerminal DEF TerminalRecords, BindingRecord, RunResult
    <2>4. s[Len(s)].act = a /\ s[Len(s)].by = "run"
      BY <2>2 DEF TerminalRecords, BindingRecord, RunResult
    <2>5. /\ Len(log) \in Nat /\ Len(log') \in Nat /\ Len(log) < Len(log')
          /\ \A n \in 1..Len(log) : log'[n] = log[n]
          /\ log'[Len(log')] = s[Len(s)]
          /\ \A n \in 1..Len(log') : n > Len(log) /\ log'[n].kind = "result" => n = Len(log')
          /\ Recorded("result")' = Recorded("result") \cup {a}
          /\ Recorded("binding")' \subseteq Recorded("binding") \cup {a}
          /\ ResultsOf(a)' = ResultsOf(a) \cup {Len(log')}
          /\ \A b : b # a => ResultsOf(b)' = ResultsOf(b)
      BY <1>3, <1>inv, <2>1, <2>2, <2>3, CommittedResult
    <2> QED
      BY <1>inv, <2>1, <2>4, <2>5, OneMoreResult
  <1> QED
    BY <1>0, <1>1, <1>2, <1>3, LogSteps

\* The store never forgets an action that recovery is about to close.
LEMMA TodoStep == IInv /\ [Next]_vars => TodoRecorded'
  <1> SUFFICES ASSUME IInv, [Next]_vars PROVE TodoRecorded'
    OBVIOUS
  <1>inv. TypeOK /\ TodoRecorded /\ log \in Seq(Entry)
    BY DEF IInv, TypeOK
  <1>1. Recorded("action") \subseteq Recorded("action")'
    <2>1. CASE UNCHANGED log
      BY <2>1, SameLog
    <2>2. ASSUME NEW a \in Actions, NEW e \in Entry, log' = Append(log, e)
          PROVE  Recorded("action") \subseteq Recorded("action")'
      BY <1>inv, <2>2, CommittedOne
    <2>3. ASSUME NEW p \in Procs, NEW a \in act[p], NEW o \in outcome[p],
                 log' = log \o TerminalRecords(a, o)
          PROVE  Recorded("action") \subseteq Recorded("action")'
      <3>1. PICK s : s = TerminalRecords(a, o)
        OBVIOUS
      <3>2. s \in Seq(Entry) /\ log' = log \o s
        BY <1>inv, <2>3, <3>1, CommittedTerminal DEF TerminalRecords, BindingRecord, RunResult
      <3>3. \A b : b \in Recorded("action") => b \in Recorded("action")'
        BY <1>inv, <3>2, Committed
      <3> QED
        BY <3>3
    <2>4. \A a \in Actions : RecoveredResult(a) \in Entry /\ ActionRecord(a) \in Entry
      BY DEF RecoveredResult, ActionRecord, Entry, Statuses
    <2>5. \A p \in Procs : act[p] \subseteq Actions
      BY <1>inv DEF TypeOK
    <2> QED
      BY <2>1, <2>2, <2>3, <2>4, <2>5, LogSteps
  <1>2. ASSUME NEW q \in Procs
        PROVE  todo'[q] \subseteq todo[q] \cup Recorded("action")
    <2> USE <1>inv DEF TypeOK
    <2>0. CASE UNCHANGED vars
      BY <2>0 DEF vars, locals
    <2>1. ASSUME NEW p \in Procs, Open(p) PROVE todo'[q] \subseteq todo[q] \cup Recorded("action")
      BY <2>1 DEF Open
    <2>2. ASSUME NEW p \in Procs, RecoverNext(p) PROVE todo'[q] \subseteq todo[q]
      <3>1. PICK a \in todo[p] : todo' = [todo EXCEPT ![p] = @ \ {a}]
        BY <2>2 DEF RecoverNext
      <3> QED
        BY <3>1
    <2>3. ASSUME NEW p \in Procs, RecoverPut(p) \/ Crash(p) PROVE todo'[q] \subseteq todo[q]
      <3>1. UNCHANGED todo \/ todo' = [todo EXCEPT ![p] = {}]
        BY <2>3 DEF RecoverPut, Crash
      <3> QED
        BY <3>1
    <2>4. ASSUME NEW p \in Procs, RecoverDone(p) \/ ReadGeneration(p) \/ PutAction(p) \/ Execute(p)
                                   \/ PutTerminal(p) \/ Begin(p) \/ Close(p)
          PROVE  todo' = todo
      BY <2>4 DEF RecoverDone, ReadGeneration, PutAction, Execute, PutTerminal, Begin, Close, locals
    <2> QED
      BY <2>0, <2>1, <2>2, <2>3, <2>4 DEF Next, Step
  <1> QED
    BY <1>inv, <1>1, <1>2 DEF TodoRecorded

-----------------------------------------------------------------------------
(* The theorems.                                                           *)

LEMMA InvInit == Init => IInv
  <1> SUFFICES ASSUME Init PROVE IInv
    OBVIOUS
  <1>1. TypeOK
    BY TypeInit
  <1>2. Holding /\ Phases /\ TodoRecorded
    BY DEF Init, Holding, Phases, Phase, TodoRecorded, Working, Opening, Executing, Recovering
  <1>3. \A n : n \notin 1..Len(log)
    BY DEF Init
  <1>4. RunResultsOrdered
    BY <1>3 DEF RunResultsOrdered, Recorded, ResultsOf
  <1> QED
    BY <1>1, <1>2, <1>4 DEF IInv

\* The inductive invariant of the action's life: locks, what the store holds of
\* the action at each label, and the order of the records.
THEOREM VerifierInvariant == Spec => []IInv
  <1>1. IInv /\ [Next]_vars => IInv'
    BY TypeStep, HoldingStep, PhaseStep, OrderedStep, TodoStep DEF IInv
  <1> QED
    BY <1>1, InvInit, PTL DEF Spec

\* Every variable has its type in every reachable state; whatever the provider
\* does, run() records PASS, FAIL or UNKNOWN.
THEOREM VerifierTypes == Spec => []TypeOK
  <1>1. IInv => TypeOK
    BY DEF IInv
  <1> QED
    BY <1>1, VerifierInvariant, PTL

\* recover_stranded_actions never closes an action whose executor is between
\* recording it and committing its result: the lock excludes it, and an action
\* recorded before the lock was taken is never executed again.
THEOREM RecoveryLeavesExecutor == Spec => []RecoveryRespectsExecutor
  <1>1. IInv => RecoveryRespectsExecutor
    BY DEF IInv, Phases, Phase, Executing, RecoveryRespectsExecutor
  <1> QED
    BY <1>1, VerifierInvariant, PTL

\* A result follows its action, run() records at most one result of an action,
\* and a receipt binding is in the store only together with a result.
THEOREM VerifierResultsOrdered == Spec => []RunResultsOrdered
  <1>1. IInv => RunResultsOrdered
    BY DEF IInv
  <1> QED
    BY <1>1, VerifierInvariant, PTL

=============================================================================
