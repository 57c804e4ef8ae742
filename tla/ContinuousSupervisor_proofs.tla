---------------------- MODULE ContinuousSupervisor_proofs ----------------------
(***************************************************************************)
(* Proofs about the continuous supervisor: no event is lost between the    *)
(* main thread, the queue and the ingress thread, and the status file      *)
(* never counts an event that was neither handled nor superseded.          *)
(***************************************************************************)
EXTENDS ContinuousSupervisor, SequenceTheorems, TLAPS

\* The service numbers generations no faster than it publishes events.
Numbered == \A k \in 1..Len(log) : log[k] <= k

\* Before the dispatch begins and after the run has ended there is no ingress
\* thread; the event being handled is the first of the batch.
Phases ==
    /\ pc \in {"down", "collect"} => ingress = "off" /\ queue = <<>> /\ ipage = <<>> /\ active = {}
    /\ pc \in {"job", "decide", "fresh"} => batch # <<>>
    /\ pc = "drain" => batch = <<>>
    /\ pc # "down" => mem.stream # {}

\* What is dispatched, queued and polled are consecutive events.
InOrder ==
    pc \notin {"down", "collect"} =>
        /\ \A k \in 1..Len(batch) : batch[k].cursor = icursor - Len(queue) - Len(batch) + k
        /\ \A k \in 1..Len(queue) : queue[k].cursor = icursor - Len(queue) + k
        /\ \A k \in 1..Len(ipage) : ipage[k].cursor = icursor + k
        /\ cause = {} => icursor = mem.cursor + Len(batch) + Len(queue)

\* An event counts as passed when its handling was acknowledged or a job was
\* cancelled for it or for a later one.
Passed(s, c) == <<s, c>> \in handled \/ \E d \in c..MaxEvents : <<s, d>> \in cause

\* A pair counts passed events only, and none if it names no stream.
Counts(p) ==
    /\ \A s \in p.stream : \A c \in 1..p.cursor : Passed(s, c)
    /\ p.stream = {} => p.cursor = 0

\* So does every acknowledged pair, on disk and in memory, and the ingress polls
\* the acknowledged stream.
Accounted ==
    /\ \A p \in status \cup {mem} : Counts(p)
    /\ \A k \in 1..Len(ipage) : {ipage[k].stream} = mem.stream

IInv == TypeOK /\ Numbered /\ Phases /\ InOrder /\ Accounted

-----------------------------------------------------------------------------
(* The operators the model is built from.                                  *)

MemType == [stream : SUBSET (1..MaxStreams), cursor : 0..MaxEvents, gen : 0..MaxEvents]

LEMMA MemoryIs ==
    ASSUME NEW s \in SUBSET (1..MaxStreams), NEW c \in 0..MaxEvents, NEW g \in 0..MaxEvents
    PROVE  /\ Memory(s, c, g) \in MemType
           /\ Memory(s, c, g).stream = s /\ Memory(s, c, g).cursor = c /\ Memory(s, c, g).gen = g
  BY DEF Memory, MemType

LEMMA AcknowledgementIs ==
    ASSUME NEW m \in MemType
    PROVE  /\ Acknowledgement(m) \in Pair
           /\ Acknowledgement(m).stream = m.stream /\ Acknowledgement(m).cursor = m.cursor
  BY DEF Acknowledgement, MemType, Pair

LEMMA OutcomeSet == Range(Outcomes) = {"PASS", "UNKNOWN", "FAIL", "REPAIRED", "ERROR"}
  <1>1. DOMAIN Outcomes = 1..5
    BY DEF Outcomes
  <1>2. /\ Outcomes[1] = "PASS" /\ Outcomes[2] = "UNKNOWN" /\ Outcomes[3] = "FAIL"
        /\ Outcomes[4] = "REPAIRED" /\ Outcomes[5] = "ERROR"
    BY DEF Outcomes
  <1>3. \A x : x \in Range(Outcomes) <=> \E k \in 1..5 : x = Outcomes[k]
    BY <1>1 DEF Range
  <1> QED
    BY <1>2, <1>3

LEMMA DominateIs ==
    ASSUME NEW s \in Range(Outcomes), NEW t \in Range(Outcomes)
    PROVE  Dominate(s, t) \in Range(Outcomes)
  BY DEF Dominate

LEMMA Sizes ==
    /\ MaxEvents \in Nat \ {0} /\ MaxStreams \in Nat \ {0} /\ Limit \in Nat \ {0} /\ Capacity \in Nat \ {0}
    /\ Triggers \in Nat /\ MaxStarts \in Nat /\ MaxCrashes \in Nat
  BY SupervisorConstants

LEMMA LargerIs ==
    ASSUME NEW m \in 0..MaxEvents, NEW n \in 0..MaxEvents
    PROVE  /\ Larger(m, n) \in 0..MaxEvents /\ Larger(m, n) \in {m, n}
           /\ m <= Larger(m, n) /\ n <= Larger(m, n)
  BY Sizes DEF Larger

LEMMA EventFields ==
    ASSUME NEW e \in Event
    PROVE  e.stream \in 1..MaxStreams /\ e.cursor \in 1..MaxEvents /\ e.gen \in 1..MaxEvents
  BY DEF Event

\* poll_events returns events of the current stream, consecutive from the cursor
\* after the consumer's.
LEMMA PageIs ==
    ASSUME TypeOK, NEW after \in 0..MaxEvents, after <= Len(log)
    PROVE  /\ Page(after) \in Seq(Event)
           /\ \A k \in 1..Len(Page(after)) :
                Page(after)[k].cursor = after + k /\ Page(after)[k].stream = stream
           /\ after + Len(Page(after)) <= MaxEvents
  <1> DEFINE n == IF Len(log) - after < Limit THEN Len(log) - after ELSE Limit
             ev(k) == [stream |-> stream, cursor |-> after + k, gen |-> log[after + k]]
  <1>1. /\ Len(log) \in Nat /\ Len(log) <= MaxEvents /\ log \in Seq(1..MaxEvents)
        /\ stream \in 1..MaxStreams /\ MaxEvents \in Nat /\ Limit \in Nat
    BY Sizes DEF TypeOK
  <1>2. n \in Nat /\ after + n <= Len(log)
    BY <1>1
  <1>3. Page(after) = [k \in 1..n |-> ev(k)]
    BY DEF Page
  <1> HIDE DEF n
  <1>4. \A k \in 1..n : ev(k) \in Event /\ ev(k).cursor = after + k /\ ev(k).stream = stream
    <2> SUFFICES ASSUME NEW k \in 1..n
                 PROVE  ev(k) \in Event /\ ev(k).cursor = after + k /\ ev(k).stream = stream
      OBVIOUS
    <2>1. after + k \in 1..Len(log) /\ after + k \in 1..MaxEvents
      BY <1>1, <1>2
    <2>2. log[after + k] \in 1..MaxEvents
      BY <1>1, <2>1
    <2> QED
      BY <1>1, <2>1, <2>2 DEF Event
  <1> HIDE DEF ev
  <1>5. Page(after) \in Seq(Event) /\ Len(Page(after)) = n /\ \A k \in 1..n : Page(after)[k] = ev(k)
    BY <1>2, <1>3, <1>4
  <1> QED
    BY <1>1, <1>2, <1>4, <1>5

\* The head and the tail of a sequence of events.
LEMMA TailIs ==
    ASSUME NEW q \in Seq(Event), q # <<>>
    PROVE  /\ Head(q) \in Event /\ Head(q) = q[1]
           /\ Tail(q) \in Seq(Event) /\ Len(q) \in Nat /\ Len(q) >= 1 /\ Len(Tail(q)) = Len(q) - 1
           /\ \A k \in 1..Len(Tail(q)) : Tail(q)[k] = q[k + 1] /\ k + 1 \in 1..Len(q)
           /\ 1 \in 1..Len(q)
  BY HeadTailProperties

LEMMA AppendIs ==
    ASSUME NEW q \in Seq(Event), NEW e \in Event
    PROVE  /\ Append(q, e) \in Seq(Event) /\ Len(q) \in Nat /\ Len(Append(q, e)) = Len(q) + 1
           /\ \A k \in 1..Len(q) : Append(q, e)[k] = q[k]
           /\ Append(q, e)[Len(q) + 1] = e
  BY AppendProperties

LEMMA EmptyIs == /\ <<>> \in Seq(Event) /\ Len(<<>>) = 0 /\ \A k \in 1..Len(<<>>) : FALSE
                 /\ \A q \in Seq(Event) : (Len(q) = 0 <=> q = <<>>) /\ Len(q) \in Nat
  BY EmptySeq

-----------------------------------------------------------------------------
(* What the steps do, as far as the invariant is concerned.                *)

\* TypeOK without sets of sets.
Types ==
    /\ stream \in 1..MaxStreams
    /\ log \in Seq(1..MaxEvents) /\ Len(log) <= MaxEvents /\ oldest \in 1..MaxEvents
    /\ status = {} \/ \E p \in Pair : status = {p}
    /\ pc \in {"down", "collect", "dispatch", "job", "decide", "fresh", "drain"}
    /\ once \in BOOLEAN /\ stop \in BOOLEAN
    /\ mem \in MemType
    /\ batch \in Seq(Event) /\ ipage \in Seq(Event) /\ queue \in Seq(Event)
    /\ Len(queue) <= Capacity
    /\ active = {} \/ \E g \in 1..MaxEvents : active = {g}
    /\ todo \in 0..Triggers /\ outcome \in Range(Outcomes)
    /\ ingress \in {"off", "on", "failed"} /\ icursor \in 0..MaxEvents
    /\ starts \in 0..MaxStarts /\ crashes \in 0..MaxCrashes
    /\ handled \subseteq (1..MaxStreams) \X (1..MaxEvents)
    /\ cause \subseteq (1..MaxStreams) \X (1..MaxEvents)

LEMMA TypesForm == (TypeOK <=> Types) /\ (TypeOK' <=> Types')
  BY DEF TypeOK, Types, MemType

\* run() returns.
Ends ==
    \E m \in MemType :
      /\ Counts(m) /\ Exit(m)
      /\ starts' \in 0..MaxStarts /\ crashes' \in 0..MaxCrashes /\ UNCHANGED <<service, ghosts>>

\* A page is read at the acknowledged cursor of the live stream.
Starts ==
    \E m \in MemType :
      /\ Counts(m) /\ m.stream = {stream} /\ mem' = m /\ batch' = Page(m.cursor)
      /\ pc = "down" /\ pc' = "collect" /\ once' \in BOOLEAN /\ starts' \in 0..MaxStarts
      /\ m.cursor <= Len(log)
      /\ UNCHANGED <<service, status, stop, active, todo, outcome, thread, crashes, ghosts>>

\* The dispatch of a page that continues the acknowledgement begins.
Begins ==
    \E b \in Seq(Event) :
      /\ pc = "collect" /\ pc' = "dispatch" /\ Contiguous(mem, b)
      /\ mem' \in MemType /\ mem'.stream = mem.stream /\ mem'.cursor = mem.cursor
      /\ batch' = b /\ icursor' = mem.cursor + Len(b) /\ ingress' \in {"off", "on"}
      /\ UNCHANGED <<service, status, once, stop, active, todo, outcome, ipage, queue, starts,
                     crashes, ghosts>>

\* The main thread goes on with the event at hand, or is done with the batch.
Works ==
    /\ pc \in {"dispatch", "job", "decide", "fresh"}
    /\ \/ pc' \in {"job", "decide", "fresh"} /\ batch # <<>>
       \/ pc' = "drain" /\ batch = <<>>
    /\ mem' \in MemType /\ mem'.stream = mem.stream /\ mem'.cursor = mem.cursor
    /\ status' \in {status, {Acknowledgement(mem)}}
    /\ active' = {} \/ \E g \in 1..MaxEvents : active' = {g}
    /\ todo' \in 0..Triggers /\ outcome' \in Range(Outcomes)
    /\ UNCHANGED <<service, once, stop, batch, thread, starts, crashes, ghosts>>

\* The event at hand is acknowledged.
Acks ==
    /\ pc \in {"dispatch", "decide", "fresh"} /\ batch # <<>>
    /\ Head(batch).cursor = mem.cursor + 1 /\ {Head(batch).stream} = mem.stream
    /\ mem' = Memory(mem.stream, Head(batch).cursor, mem.gen)
    /\ handled' = handled \cup {<<Head(batch).stream, Head(batch).cursor>>}
    /\ batch' = Tail(batch) /\ outcome' = "PASS" /\ pc' = "dispatch" /\ todo' = 0
    /\ UNCHANGED <<service, status, once, stop, active, thread, starts, crashes, cause>>

LEMMA CountsNothing == Counts(NoMemory) /\ NoMemory \in MemType /\ NoMemory.stream = {} /\ NoMemory.cursor = 0
  <1>1. NoMemory \in MemType /\ NoMemory.stream = {} /\ NoMemory.cursor = 0
    BY Sizes, MemoryIs DEF NoMemory
  <1> QED
    BY <1>1 DEF Counts

LEMMA RestoredIs ==
    ASSUME Types, Accounted
    PROVE  /\ Restored \in MemType /\ Counts(Restored) /\ Restored.stream # {}
           /\ \E st \in SUBSET (1..MaxStreams), c \in 0..MaxEvents : Restored = Memory(st, c, 0)
  <1> DEFINE s == IF status = {} THEN NoPair ELSE CHOOSE x \in status : TRUE
             st == IF s.stream = {} THEN {stream} ELSE s.stream
  <1>1. s \in Pair /\ Counts(s)
    <2>1. CASE status = {}
      BY <2>1, Sizes DEF NoPair, Pair, Counts
    <2>2. CASE status # {}
      BY <2>2 DEF Types, Accounted
    <2> QED
      BY <2>1, <2>2
  <1>2. Restored = Memory(st, s.cursor, 0)
    BY DEF Restored
  <1> HIDE DEF s
  <1>3. st \in SUBSET (1..MaxStreams) /\ s.cursor \in 0..MaxEvents /\ st # {}
    BY <1>1 DEF Pair, Types
  <1>4. Restored \in MemType /\ Restored.stream = st /\ Restored.cursor = s.cursor
    BY <1>2, <1>3, Sizes, MemoryIs
  <1>5. Counts(Restored)
    BY <1>1, <1>3, <1>4 DEF Counts
  <1> QED
    BY <1>2, <1>3, <1>4, <1>5

LEMMA AcknowledgeShape ==
    ASSUME Types, Accounted, batch # <<>>, pc \in {"dispatch", "decide", "fresh"},
           Acknowledge(Head(batch)), UNCHANGED <<service, starts, crashes>>
    PROVE  Ends \/ Acks
  <1>1. CASE Head(batch).cursor = mem.cursor + 1 /\ {Head(batch).stream} = mem.stream
    BY <1>1 DEF Acknowledge, Acks
  <1>2. CASE DispatchFailed
    BY <1>2 DEF DispatchFailed, Ends, Types, Accounted
  <1> QED
    BY <1>1, <1>2 DEF Acknowledge

LEMMA FailedShape ==
    ASSUME Types, Accounted, DispatchFailed, UNCHANGED <<service, starts, crashes>> PROVE Ends
  BY DEF DispatchFailed, Ends, Types, Accounted

LEMMA StartShape == ASSUME Types, Accounted, Phases, Start PROVE Ends \/ Starts
  <1> DEFINE m == Restored
  <1>1. pc = "down" /\ starts' \in 0..MaxStarts /\ UNCHANGED <<service, crashes, ghosts>>
    BY Sizes DEF Start, Types
  <1>2. CASE GiveUp(m)
    BY <1>1, <1>2, RestoredIs DEF GiveUp, Ends, Types
  <1>3. CASE /\ ~ResetRequired(m.stream, m.cursor) \/ Replayable(m)
             /\ mem' = Memory({stream}, m.cursor, m.gen)
             /\ batch' = Page(m.cursor)
             /\ once' \in BOOLEAN
             /\ pc' = "collect"
             /\ UNCHANGED <<status, stop, active, todo, outcome, thread>>
    <2>1. m \in MemType /\ Counts(m) /\ m.cursor \in 0..MaxEvents /\ m.gen \in 0..MaxEvents
      BY RestoredIs DEF MemType
    <2>2. PICK n : n = Memory({stream}, m.cursor, m.gen)
      OBVIOUS
    <2>3. {stream} \in SUBSET (1..MaxStreams)
      BY DEF Types
    <2>4. n \in MemType /\ n.stream = {stream} /\ n.cursor = m.cursor
      BY <2>1, <2>2, <2>3, MemoryIs
    <2>5. m.cursor <= Len(log) /\ (m.stream = {stream} \/ m.cursor = 0)
      BY <1>3, <2>1, Sizes DEF ResetRequired, Replayable, Types
    <2>6. Counts(n)
      BY <2>1, <2>4, <2>5 DEF Counts
    <2> HIDE DEF m
    <2> QED
      BY <1>1, <1>3, <2>2, <2>4, <2>5, <2>6 DEF Starts
  <1> QED
    BY <1>2, <1>3 DEF Start

\* A step that only moves the cursor or the generation on.
LEMMA Moves ==
    ASSUME Types, NEW c \in 0..MaxEvents, NEW g \in 0..MaxEvents, mem' = Memory(mem.stream, c, g)
    PROVE  mem' \in MemType /\ mem'.stream = mem.stream /\ mem'.cursor = c
  <1>1. mem.stream \in SUBSET (1..MaxStreams)
    BY DEF Types, MemType
  <1> QED
    BY <1>1, MemoryIs

LEMMA CollectShape == ASSUME Types, Accounted, Collect PROVE Ends \/ Begins
  <1>1. pc = "collect" /\ UNCHANGED <<service, starts, crashes, ghosts>>
    BY DEF Collect
  <1>2. CASE GiveUp(mem)
    BY <1>1, <1>2 DEF GiveUp, Ends, Types, Accounted
  <1>3. ASSUME NEW b, b \in {batch} \cup (IF batch = <<>> THEN {} ELSE Debounced),
               Contiguous(mem, b), BeginDispatch(b)
        PROVE  Begins
    <2>1. b \in Seq(Event)
      <3>1. CASE b = batch
        BY <3>1 DEF Types
      <3>2. CASE b \in Debounced
        <4>1. b = Page(mem.cursor) /\ ~ResetRequired(mem.stream, mem.cursor)
          BY <3>2 DEF Debounced
        <4>2. mem.cursor \in 0..MaxEvents /\ mem.cursor <= Len(log)
          BY <4>1, Sizes DEF ResetRequired, Types, MemType
        <4> QED
          BY <4>1, <4>2, PageIs, TypesForm
      <3> QED
        BY <1>3, <3>1, <3>2
    <2>2. PICK g : g = IF b = <<>> THEN mem.gen ELSE Larger(mem.gen, Last(b).gen)
      OBVIOUS
    <2>3. g \in 0..MaxEvents
      <3>1. CASE b = <<>>
        BY <2>2, <3>1 DEF Types, MemType
      <3>2. CASE b # <<>>
        <4>1. Last(b) \in Event
          BY <2>1, <3>2, EmptyIs, ElementOfSeq DEF Last
        <4>2. mem.gen \in 0..MaxEvents /\ Last(b).gen \in 0..MaxEvents
          BY <4>1, EventFields DEF Types, MemType
        <4> QED
          BY <2>2, <3>2, <4>2, LargerIs
      <3> QED
        BY <3>1, <3>2
    <2>4. mem' = Memory(mem.stream, mem.cursor, g)
      BY <1>3, <2>2 DEF BeginDispatch
    <2>5. mem' \in MemType /\ mem'.stream = mem.stream /\ mem'.cursor = mem.cursor
      <3>1. mem.cursor \in 0..MaxEvents
        BY DEF Types, MemType
      <3> QED
        BY <2>3, <2>4, <3>1, Moves
    <2>6. /\ batch' = b /\ icursor' = mem.cursor + Len(b) /\ ingress' \in {"off", "on"}
          /\ pc' = "dispatch"
          /\ UNCHANGED <<status, once, stop, active, todo, outcome, ipage, queue>>
      BY <1>3 DEF BeginDispatch
    <2> QED
      BY <1>1, <1>3, <2>1, <2>5, <2>6 DEF Begins
  <1> QED
    BY <1>2, <1>3 DEF Collect

LEMMA StartJobShape ==
    ASSUME Types, NEW ev \in Event, NEW n \in 0..Triggers, StartJob(ev, n)
    PROVE  /\ pc' = "job" /\ status' = {Acknowledgement(mem)}
           /\ active' = {ev.gen} /\ ev.gen \in 1..MaxEvents /\ todo' \in 0..Triggers
  BY EventFields DEF StartJob

LEMMA DispatchShape == ASSUME Types, Accounted, Dispatch PROVE Ends \/ Works \/ Acks
  <1>1. pc = "dispatch" /\ batch # <<>> /\ UNCHANGED <<service, starts, crashes>>
    BY DEF Dispatch
  <1>2. PICK ev : ev = Head(batch)
    OBVIOUS
  <1>3. ev \in Event /\ ev.gen \in 1..MaxEvents
    BY <1>1, <1>2, TailIs, EventFields DEF Types
  <1>4. CASE Acknowledge(ev)
    BY <1>1, <1>2, <1>4, AcknowledgeShape
  <1>5. CASE DispatchFailed
    BY <1>1, <1>5, FailedShape
  <1>6. CASE /\ mem' = Memory(mem.stream, mem.cursor, ev.gen)
             /\ \/ pc' = "fresh" /\ UNCHANGED <<status, active, todo>>
                \/ \E n \in 1..Triggers : StartJob(ev, n - 1)
             /\ UNCHANGED <<once, stop, batch, outcome, thread, ghosts>>
    <2>1. mem' \in MemType /\ mem'.stream = mem.stream /\ mem'.cursor = mem.cursor
      <3>1. mem.cursor \in 0..MaxEvents /\ ev.gen \in 0..MaxEvents
        BY <1>3, Sizes DEF Types, MemType
      <3> QED
        BY <1>6, <3>1, Moves
    <2>2. CASE pc' = "fresh" /\ UNCHANGED <<status, active, todo>>
      BY <1>1, <1>6, <2>1, <2>2 DEF Works, Types
    <2>3. ASSUME NEW n \in 1..Triggers, StartJob(ev, n - 1) PROVE Works
      <3>1. n - 1 \in 0..Triggers
        BY Sizes
      <3> QED
        BY <1>1, <1>3, <1>6, <2>1, <2>3, <3>1, StartJobShape DEF Works, Types
    <2> QED
      BY <1>6, <2>2, <2>3
  <1> QED
    BY <1>2, <1>4, <1>5, <1>6 DEF Dispatch

LEMMA EndJobShape == ASSUME Types, Phases, EndJob PROVE Works
  <1>1. \A t \in Range(Outcomes) : Dominate(outcome, t) \in Range(Outcomes)
    BY DominateIs DEF Types
  <1>2. outcome' \in Range(Outcomes) /\ pc = "job" /\ pc' = "decide" /\ active' = {}
        /\ status' = {Acknowledgement(mem)}
        /\ UNCHANGED <<service, once, stop, mem, batch, todo, thread, starts, crashes, ghosts>>
    BY <1>1 DEF EndJob
  <1> QED
    BY <1>2 DEF Works, Types, Phases

LEMMA DecideShape == ASSUME Types, Accounted, Phases, Decide PROVE Ends \/ Works \/ Acks
  <1>1. pc = "decide" /\ batch # <<>> /\ UNCHANGED <<service, starts, crashes>>
    BY DEF Decide, Phases
  <1>2. PICK ev : ev = Head(batch)
    OBVIOUS
  <1>3. ev \in Event
    BY <1>1, <1>2, TailIs DEF Types
  <1>4. CASE Acknowledge(ev)
    BY <1>1, <1>2, <1>4, AcknowledgeShape
  <1>5. CASE DispatchFailed
    BY <1>1, <1>5, FailedShape
  <1>6. CASE /\ todo > 0 /\ StartJob(ev, todo - 1)
             /\ UNCHANGED <<once, stop, mem, batch, outcome, thread, ghosts>>
    <2>1. todo - 1 \in 0..Triggers
      BY <1>6, Sizes DEF Types
    <2> QED
      BY <1>1, <1>3, <1>6, <2>1, StartJobShape DEF Works, Types
  <1>7. CASE /\ pc' = "fresh"
             /\ UNCHANGED <<status, once, stop, mem, batch, active, todo, outcome, thread, ghosts>>
    BY <1>1, <1>7 DEF Works, Types
  <1> QED
    BY <1>2, <1>4, <1>5, <1>6, <1>7 DEF Decide

LEMMA ConfirmFreshShape == ASSUME Types, Accounted, Phases, ConfirmFresh PROVE Ends \/ Acks
  <1>1. pc = "fresh" /\ batch # <<>> /\ UNCHANGED <<service, starts, crashes>>
    BY DEF ConfirmFresh, Phases
  <1> QED
    BY <1>1, AcknowledgeShape, FailedShape DEF ConfirmFresh

LEMMA PersistShape == ASSUME Types, Persist PROVE Works
  BY DEF Persist, Works, Types

LEMMA FinishShape == ASSUME Types, Accounted, Finish PROVE Ends
  <1>1. Exit(mem) /\ UNCHANGED <<service, starts, crashes, ghosts>>
    BY DEF Finish
  <1> QED
    BY <1>1 DEF Ends, Types, Accounted

LEMMA UnreachableShape == ASSUME Types, StartUnreachable PROVE Ends
  <1>1. Exit(NoMemory) /\ starts' \in 0..MaxStarts /\ UNCHANGED <<service, crashes, ghosts>>
    BY Sizes DEF StartUnreachable, Types
  <1> QED
    BY <1>1, CountsNothing DEF Ends, Types

\* Every step has one of the shapes.
LEMMA Shapes ==
    ASSUME Types, Accounted, Phases, [Next]_vars
    PROVE  \/ Ends \/ Starts \/ Begins \/ Works \/ Acks \/ Drain \/ Crash \/ RequestStop
           \/ IngressPoll \/ IngressEvent \/ Service \/ UNCHANGED vars
  BY StartShape, CollectShape, DispatchShape, EndJobShape, DecideShape, ConfirmFreshShape,
     PersistShape, FinishShape, UnreachableShape DEF Next, Main

-----------------------------------------------------------------------------
(* Each part of the invariant is kept.                                     *)

LEMMA ServiceTypes ==
    ASSUME Types, Numbered, Service
    PROVE  /\ stream' \in 1..MaxStreams /\ log' \in Seq(1..MaxEvents) /\ Len(log') <= MaxEvents
           /\ oldest' \in 1..MaxEvents /\ Numbered'
  <1>1. CASE Publish
    <2>1. PICK g \in {Generation(log), Generation(log) + 1} \ {0} : log' = Append(log, g)
      BY <1>1 DEF Publish
    <2>2. Len(log) \in Nat /\ Len(log) < MaxEvents /\ log \in Seq(1..MaxEvents)
      BY <1>1 DEF Types, Publish
    <2>3. Generation(log) \in Nat /\ Generation(log) <= Len(log)
      <3>1. CASE log = <<>>
        BY <2>2, <3>1 DEF Generation
      <3>2. CASE log # <<>>
        <4>1. Len(log) \in 1..Len(log) /\ Generation(log) = log[Len(log)]
          BY <2>2, <3>2 DEF Generation, Last
        <4>2. log[Len(log)] \in 1..MaxEvents
          BY <2>2, <4>1, ElementOfSeq
        <4>3. log[Len(log)] <= Len(log)
          BY <4>1 DEF Numbered
        <4> QED
          BY <4>1, <4>2, <4>3, Sizes
      <3> QED
        BY <3>1, <3>2
    <2>4. g \in 1..MaxEvents /\ g <= Len(log) + 1
      BY <2>1, <2>2, <2>3, Sizes
    <2>5. /\ log' \in Seq(1..MaxEvents) /\ Len(log') = Len(log) + 1
          /\ \A k \in 1..Len(log) : log'[k] = log[k]
          /\ log'[Len(log) + 1] = g
      BY <2>1, <2>2, <2>4, AppendProperties
    <2>6. Numbered'
      BY <2>2, <2>4, <2>5 DEF Numbered
    <2> QED
      BY <1>1, <2>2, <2>5, <2>6, Sizes DEF Publish, Types
  <1>2. CASE Expire
    BY <1>2, Sizes DEF Expire, Types, Numbered
  <1>3. CASE Restart
    <2>1. log' = <<>> /\ log' \in Seq(1..MaxEvents) /\ Len(log') = 0
      BY <1>3 DEF Restart
    <2> QED
      BY <1>3, <2>1, Sizes DEF Restart, Types, Numbered
  <1> QED
    BY <1>1, <1>2, <1>3 DEF Service

LEMMA NumberedStep == ASSUME Types, Accounted, Phases, Numbered, [Next]_vars PROVE Numbered'
  <1>1. UNCHANGED log \/ Service
    BY Shapes DEF Ends, Starts, Begins, Works, Acks, Drain, Crash, RequestStop, IngressPoll,
                  IngressEvent, service, vars
  <1> QED
    BY <1>1, ServiceTypes DEF Numbered

\* A process that is down has no memory.
DownTypes ==
    /\ pc = "down" /\ once = FALSE /\ stop = FALSE
    /\ mem = NoMemory /\ batch = <<>> /\ active = {} /\ todo = 0 /\ outcome = "PASS"
    /\ ingress = "off" /\ icursor = 0 /\ ipage = <<>> /\ queue = <<>>

LEMMA DownIs == ASSUME DownTypes' PROVE Phases' /\ InOrder'
  BY DEF DownTypes, Phases, InOrder

LEMMA DownKeepsTypes ==
    ASSUME Types, DownTypes', UNCHANGED <<service, ghosts>>, status' = {} \/ \E p \in Pair : status' = {p},
           starts' \in 0..MaxStarts, crashes' \in 0..MaxCrashes
    PROVE  Types'
  <1>1. /\ once' = FALSE /\ stop' = FALSE /\ mem' = NoMemory /\ active' = {}
        /\ pc' = "down" /\ todo' = 0 /\ outcome' = "PASS" /\ ingress' = "off" /\ icursor' = 0
        /\ batch' = <<>> /\ ipage' = <<>> /\ queue' = <<>>
    BY DEF DownTypes
  <1>2. /\ stream' \in 1..MaxStreams
        /\ log' \in Seq(1..MaxEvents) /\ Len(log') <= MaxEvents /\ oldest' \in 1..MaxEvents
        /\ handled' \subseteq (1..MaxStreams) \X (1..MaxEvents)
        /\ cause' \subseteq (1..MaxStreams) \X (1..MaxEvents)
    BY DEF Types, service, ghosts
  <1>3. /\ mem' \in MemType /\ todo' \in 0..Triggers /\ icursor' \in 0..MaxEvents
        /\ outcome' \in Range(Outcomes)
    BY <1>1, Sizes, OutcomeSet, CountsNothing
  <1>4. /\ batch' \in Seq(Event) /\ ipage' \in Seq(Event) /\ queue' \in Seq(Event)
        /\ Len(queue') <= Capacity
    BY <1>1, Sizes, EmptyIs
  <1> QED
    BY <1>1, <1>2, <1>3, <1>4 DEF Types

LEMMA EndsTypes == ASSUME Types, Ends PROVE DownTypes' /\ Types'
  <1>1. PICK m \in MemType :
          /\ Exit(m)
          /\ starts' \in 0..MaxStarts /\ crashes' \in 0..MaxCrashes /\ UNCHANGED <<service, ghosts>>
    BY DEF Ends
  <1>2. DownTypes' /\ status' = {Acknowledgement(m)}
    BY <1>1 DEF Exit, DownTypes
  <1> QED
    BY <1>1, <1>2, AcknowledgementIs, DownKeepsTypes

LEMMA CrashTypes == ASSUME Types, Crash PROVE DownTypes' /\ Types'
  <1>1. DownTypes' /\ crashes' \in 0..MaxCrashes /\ UNCHANGED <<service, starts, ghosts>>
    BY Sizes DEF Crash, DownTypes, Types
  <1>2. status' = {} \/ \E p \in Pair : status' = {p}
    BY DEF Crash, Types
  <1> QED
    BY <1>1, <1>2, DownKeepsTypes DEF Types

\* CancelActiveForEvent moves the cursor to the newer event, or changes nothing.
LEMMA CancelIs ==
    ASSUME Types, NEW e \in Event, CancelActiveForEvent(e)
    PROVE  /\ mem' \in MemType /\ mem'.stream = mem.stream
           /\ \/ UNCHANGED <<mem, cause>>
              \/ /\ mem'.cursor \in {mem.cursor, e.cursor} /\ cause' = cause \cup {<<e.stream, e.cursor>>}
           /\ cause' \subseteq (1..MaxStreams) \X (1..MaxEvents)
  <1>1. e.stream \in 1..MaxStreams /\ e.cursor \in 1..MaxEvents /\ e.gen \in 1..MaxEvents
    BY EventFields
  <1>2. CASE UNCHANGED <<mem, cause>>
    BY <1>2 DEF Types
  <1>3. CASE /\ mem' = Memory(mem.stream, Larger(mem.cursor, e.cursor), Larger(mem.gen, e.gen))
             /\ cause' = cause \cup {<<e.stream, e.cursor>>}
    <2>1. /\ Larger(mem.cursor, e.cursor) \in 0..MaxEvents /\ Larger(mem.gen, e.gen) \in 0..MaxEvents
          /\ Larger(mem.cursor, e.cursor) \in {mem.cursor, e.cursor}
      <3>1. mem.cursor \in 0..MaxEvents /\ mem.gen \in 0..MaxEvents
        BY DEF Types, MemType
      <3>2. e.cursor \in 0..MaxEvents /\ e.gen \in 0..MaxEvents
        BY <1>1, Sizes
      <3> QED
        BY <3>1, <3>2, LargerIs
    <2>2. /\ mem' \in MemType /\ mem'.stream = mem.stream
          /\ mem'.cursor = Larger(mem.cursor, e.cursor)
      BY <1>3, <2>1, Moves
    <2>3. <<e.stream, e.cursor>> \in (1..MaxStreams) \X (1..MaxEvents)
      BY <1>1
    <2>4. cause' \subseteq (1..MaxStreams) \X (1..MaxEvents)
      BY <1>3, <2>3 DEF Types
    <2> QED
      BY <1>3, <2>1, <2>2, <2>4
  <1> QED
    BY <1>2, <1>3 DEF CancelActiveForEvent

\* One event of the page is queued, or the full queue ends the thread.
LEMMA IngressEventIs ==
    ASSUME Types, IngressEvent
    PROVE  /\ ipage # <<>> /\ Head(ipage) \in Event /\ CancelActiveForEvent(Head(ipage))
           /\ UNCHANGED <<service, status, pc, once, stop, batch, active, todo, outcome, starts, crashes,
                          handled>>
           /\ \/ ipage' = <<>> /\ ingress' = "failed" /\ UNCHANGED <<icursor, queue>>
              \/ /\ queue' = Append(queue, Head(ipage)) /\ Len(queue) < Capacity
                 /\ icursor' = Head(ipage).cursor /\ ipage' = Tail(ipage) /\ ingress' = ingress
  <1>1. ipage # <<>> /\ Head(ipage) \in Event /\ Len(queue) <= Capacity /\ Len(queue) \in Nat
    BY TailIs, EmptyIs DEF IngressEvent, Types
  <1> QED
    BY <1>1, Sizes DEF IngressEvent

LEMMA TypesStep ==
    ASSUME Types, Accounted, Phases, InOrder, Numbered, [Next]_vars PROVE Types'
  <1>types. mem.cursor \in 0..MaxEvents /\ mem.stream \in SUBSET (1..MaxStreams) /\ mem.gen \in 0..MaxEvents
    BY DEF Types, MemType
  <1>1. Ends => Types'
    BY EndsTypes
  <1>2. Starts => Types'
    <2> SUFFICES ASSUME Starts PROVE Types'
      OBVIOUS
    <2>1. PICK m \in MemType :
            /\ mem' = m /\ batch' = Page(m.cursor)
            /\ pc' = "collect" /\ once' \in BOOLEAN /\ starts' \in 0..MaxStarts /\ m.cursor <= Len(log)
            /\ UNCHANGED <<service, status, stop, active, todo, outcome, thread, crashes, ghosts>>
      BY DEF Starts
    <2>2. m.cursor \in 0..MaxEvents
      BY DEF MemType
    <2>3. batch' \in Seq(Event)
      BY <2>1, <2>2, PageIs, TypesForm
    <2> QED
      BY <2>1, <2>3 DEF Types, service, thread, ghosts
  <1>3. Begins => Types'
    <2> SUFFICES ASSUME Begins PROVE Types'
      OBVIOUS
    <2>1. PICK b \in Seq(Event) :
            /\ pc' = "dispatch" /\ Contiguous(mem, b)
            /\ mem' \in MemType
            /\ batch' = b /\ icursor' = mem.cursor + Len(b) /\ ingress' \in {"off", "on"}
            /\ UNCHANGED <<service, status, once, stop, active, todo, outcome, ipage, queue, starts,
                           crashes, ghosts>>
      BY DEF Begins
    <2>2. mem.cursor + Len(b) \in 0..MaxEvents
      <3>1. CASE b = <<>>
        BY <1>types, <3>1, EmptyIs
      <3>2. CASE b # <<>>
        <4>1. Len(b) \in Nat /\ Len(b) \in 1..Len(b) /\ Len(b) \in DOMAIN b
          BY <3>2, EmptyIs, LenProperties
        <4>2. b[Len(b)] \in Event /\ b[Len(b)].cursor = mem.cursor + Len(b)
          BY <2>1, <4>1, ElementOfSeq DEF Contiguous
        <4> QED
          BY <1>types, <4>1, <4>2, EventFields, Sizes
      <3> QED
        BY <3>1, <3>2
    <2> QED
      BY <2>1, <2>2 DEF Types, service, ghosts
  <1>4. Works => Types'
    <2> SUFFICES ASSUME Works PROVE Types'
      OBVIOUS
    <2>1. status' = {} \/ \E p \in Pair : status' = {p}
      BY AcknowledgementIs DEF Works, Types
    <2> QED
      BY <2>1 DEF Works, Types, service, thread, ghosts
  <1>5. Acks => Types'
    <2> SUFFICES ASSUME Acks PROVE Types'
      OBVIOUS
    <2>1. batch # <<>> /\ Head(batch) \in Event /\ batch' \in Seq(Event)
      BY TailIs DEF Acks, Types
    <2>2. Head(batch).cursor \in 1..MaxEvents /\ Head(batch).stream \in 1..MaxStreams
      BY <2>1, EventFields
    <2>3. mem' \in MemType
      <3>1. Head(batch).cursor \in 0..MaxEvents
        BY <2>2, Sizes
      <3> QED
        BY <1>types, <3>1, Moves DEF Acks
    <2>4. handled' \subseteq (1..MaxStreams) \X (1..MaxEvents)
      BY <2>2 DEF Acks, Types
    <2>5. outcome' \in Range(Outcomes) /\ todo' \in 0..Triggers /\ pc' = "dispatch"
      BY OutcomeSet, Sizes DEF Acks
    <2>6. UNCHANGED <<service, status, once, stop, active, thread, starts, crashes, cause>>
      BY DEF Acks
    <2> QED
      BY <2>1, <2>3, <2>4, <2>5, <2>6 DEF Types, service, thread
  <1>6. Drain => Types'
    BY EmptyIs, Sizes DEF Drain, Types, service, ghosts
  <1>7. Crash => Types'
    BY CrashTypes
  <1>8. RequestStop => Types'
    <2> SUFFICES ASSUME RequestStop PROVE Types'
      OBVIOUS
    <2>1. status' = {} \/ \E p \in Pair : status' = {p}
      BY AcknowledgementIs DEF RequestStop, Types
    <2> QED
      BY <2>1 DEF RequestStop, Types, service, thread, ghosts
  <1>9. IngressPoll => Types'
    <2> SUFFICES ASSUME IngressPoll PROVE Types'
      OBVIOUS
    <2>1. ipage' \in Seq(Event) /\ ingress' \in {"on", "failed"}
      <3>1. CASE ~ResetRequired(mem.stream, icursor) /\ ipage' = Page(icursor) /\ UNCHANGED ingress
        <4>1. icursor \in 0..MaxEvents /\ icursor <= Len(log)
          BY <3>1, Sizes DEF ResetRequired, Types
        <4> QED
          BY <3>1, <4>1, PageIs, TypesForm DEF IngressPoll
      <3>2. CASE ingress' = "failed" /\ UNCHANGED ipage
        BY <3>2 DEF Types
      <3> QED
        BY <3>1, <3>2 DEF IngressPoll
    <2> QED
      BY <2>1 DEF IngressPoll, Types, service, ghosts
  <1>10. IngressEvent => Types'
    <2> SUFFICES ASSUME IngressEvent PROVE Types'
      OBVIOUS
    <2>1. /\ ipage # <<>> /\ Head(ipage) \in Event /\ CancelActiveForEvent(Head(ipage))
          /\ UNCHANGED <<service, status, pc, once, stop, batch, active, todo, outcome, starts, crashes,
                         handled>>
      BY IngressEventIs
    <2>2. mem' \in MemType /\ cause' \subseteq (1..MaxStreams) \X (1..MaxEvents)
      BY <2>1, CancelIs
    <2>3. /\ ipage' \in Seq(Event) /\ queue' \in Seq(Event) /\ Len(queue') <= Capacity
          /\ ingress' \in {"off", "on", "failed"} /\ icursor' \in 0..MaxEvents
      <3>1. Head(ipage).cursor \in 0..MaxEvents
        BY <2>1, EventFields, Sizes
      <3>2. CASE ipage' = <<>> /\ ingress' = "failed" /\ UNCHANGED <<icursor, queue>>
        BY <3>2, EmptyIs DEF Types
      <3>3. CASE /\ queue' = Append(queue, Head(ipage)) /\ Len(queue) < Capacity
                 /\ icursor' = Head(ipage).cursor /\ ipage' = Tail(ipage) /\ ingress' = ingress
        BY <2>1, <3>1, <3>3, TailIs, AppendIs, Sizes DEF Types
      <3> QED
        BY <3>2, <3>3, IngressEventIs
    <2> QED
      BY <2>1, <2>2, <2>3 DEF Types, service
  <1>11. Service => Types'
    <2> SUFFICES ASSUME Service PROVE Types'
      OBVIOUS
    <2>1. UNCHANGED <<status, pc, once, stop, mem, batch, active, todo, outcome, thread, starts,
                      crashes, ghosts>>
      BY DEF Service
    <2> QED
      BY <2>1, ServiceTypes DEF Types, thread, ghosts
  <1>12. UNCHANGED vars => Types'
    BY DEF vars, service, thread, ghosts, Types
  <1> QED
    BY <1>1, <1>2, <1>3, <1>4, <1>5, <1>6, <1>7, <1>8, <1>9, <1>10, <1>11, <1>12, Shapes

LEMMA PhasesStep == ASSUME Types, Accounted, Phases, [Next]_vars PROVE Phases'
  <1>1. Ends \/ Crash => Phases'
    BY EndsTypes, CrashTypes, DownIs DEF DownTypes, Phases
  <1>2. Starts => Phases'
    BY DEF Starts, Phases, thread
  <1>3. Begins => Phases'
    BY DEF Begins, Phases
  <1>4. Works => Phases'
    BY DEF Works, Phases
  <1>5. Acks => Phases'
    <2> SUFFICES ASSUME Acks PROVE Phases'
      OBVIOUS
    <2>1. mem.cursor \in 0..MaxEvents /\ mem.gen \in 0..MaxEvents /\ Head(batch).cursor \in 0..MaxEvents
      BY TailIs, EventFields, Sizes DEF Acks, Types, MemType
    <2>2. mem'.stream = mem.stream
      BY <2>1, Moves DEF Acks
    <2> QED
      BY <2>2 DEF Acks, Phases
  <1>6. Drain => Phases'
    BY DEF Drain, Phases
  <1>7. RequestStop \/ Service => Phases'
    BY DEF RequestStop, Service, Phases, thread
  <1>8. IngressPoll => Phases'
    BY DEF IngressPoll, Phases, Types
  <1>9. IngressEvent => Phases'
    <2> SUFFICES ASSUME IngressEvent PROVE Phases'
      OBVIOUS
    <2>1. mem'.stream = mem.stream /\ ipage # <<>> /\ UNCHANGED <<pc, batch, active>>
      BY IngressEventIs, CancelIs
    <2> QED
      BY <2>1 DEF Phases
  <1>10. UNCHANGED vars => Phases'
    BY DEF vars, thread, Phases
  <1> QED
    BY <1>1, <1>2, <1>3, <1>4, <1>5, <1>6, <1>7, <1>8, <1>9, <1>10, Shapes

LEMMA InOrderStep == ASSUME Types, Accounted, Phases, InOrder, [Next]_vars PROVE InOrder'
  <1>types. /\ batch \in Seq(Event) /\ ipage \in Seq(Event) /\ queue \in Seq(Event)
            /\ icursor \in Nat /\ mem.cursor \in Nat
            /\ Len(batch) \in Nat /\ Len(ipage) \in Nat /\ Len(queue) \in Nat
            /\ pc \in {"down", "collect", "dispatch", "job", "decide", "fresh", "drain"}
    BY Sizes, EmptyIs DEF Types, MemType
  <1>same. ASSUME pc \notin {"down", "collect"}, UNCHANGED <<batch, thread, cause>>,
                  mem'.cursor = mem.cursor
           PROVE  InOrder'
    BY <1>same DEF InOrder, thread
  <1>1. Ends \/ Crash => InOrder'
    BY EndsTypes, CrashTypes, DownIs
  <1>2. Starts => InOrder'
    BY DEF Starts, InOrder
  <1>3. Begins => InOrder'
    <2> SUFFICES ASSUME Begins PROVE InOrder'
      OBVIOUS
    <2>1. PICK b \in Seq(Event) :
            /\ pc = "collect" /\ Contiguous(mem, b) /\ mem'.cursor = mem.cursor
            /\ batch' = b /\ icursor' = mem.cursor + Len(b) /\ UNCHANGED <<ipage, queue>>
      BY DEF Begins
    <2>2. /\ queue' = <<>> /\ ipage' = <<>> /\ Len(queue') = 0 /\ Len(b) \in Nat
          /\ \A k \in 1..Len(queue') : FALSE
          /\ \A k \in 1..Len(ipage') : FALSE
      BY <2>1, EmptyIs DEF Phases
    <2>3. \A k \in 1..Len(b) : b[k].cursor = mem.cursor + k
      BY <2>1, LenProperties DEF Contiguous
    <2> QED
      BY <1>types, <2>1, <2>2, <2>3 DEF InOrder
  <1>4. Works => InOrder'
    BY <1>same DEF Works, ghosts
  <1>5. Acks => InOrder'
    <2> SUFFICES ASSUME Acks PROVE InOrder'
      OBVIOUS
    <2>1. /\ batch # <<>> /\ batch' = Tail(batch) /\ pc \in {"dispatch", "decide", "fresh"}
          /\ UNCHANGED <<thread, cause>>
      BY DEF Acks
    <2>2. mem'.cursor = Head(batch).cursor /\ Head(batch).cursor = mem.cursor + 1
      <3>1. mem.gen \in 0..MaxEvents /\ Head(batch).cursor \in 0..MaxEvents
        BY <2>1, TailIs, EventFields, Sizes DEF Types, MemType
      <3> QED
        BY <3>1, Moves DEF Acks
    <2>3. /\ Len(batch') = Len(batch) - 1
          /\ \A k \in 1..Len(batch') : batch'[k] = batch[k + 1] /\ k + 1 \in 1..Len(batch)
      BY <1>types, <2>1, TailIs
    <2>4. \A k \in 1..Len(batch) : batch[k].cursor = icursor - Len(queue) - Len(batch) + k
      BY <2>1 DEF InOrder
    <2>5. \A k \in 1..Len(batch') : batch'[k].cursor = icursor - Len(queue) - Len(batch) + (k + 1)
      BY <2>3, <2>4
    <2>6. \A k \in 1..Len(batch') : batch'[k].cursor = icursor' - Len(queue') - Len(batch') + k
      BY <1>types, <2>1, <2>3, <2>5 DEF thread
    <2>7. /\ \A k \in 1..Len(queue') : queue'[k].cursor = icursor' - Len(queue') + k
          /\ \A k \in 1..Len(ipage') : ipage'[k].cursor = icursor' + k
      BY <2>1 DEF InOrder, thread
    <2>8. cause' = {} => icursor' = mem'.cursor + Len(batch') + Len(queue')
      <3>1. cause = {} => icursor = mem.cursor + Len(batch) + Len(queue)
        BY <2>1 DEF InOrder
      <3> QED
        BY <1>types, <2>1, <2>2, <2>3, <3>1 DEF thread
    <2> QED
      BY <2>6, <2>7, <2>8 DEF InOrder
  <1>6. Drain => InOrder'
    <2> SUFFICES ASSUME Drain PROVE InOrder'
      OBVIOUS
    <2>1. /\ pc = "drain" /\ batch' = queue /\ queue' = <<>> /\ batch = <<>>
          /\ UNCHANGED <<mem, icursor, ipage, cause>>
      BY DEF Drain, Phases, ghosts
    <2>2. Len(queue') = 0 /\ Len(batch) = 0 /\ \A k \in 1..Len(queue') : FALSE
      BY <2>1, EmptyIs
    <2> QED
      BY <1>types, <2>1, <2>2 DEF InOrder
  <1>7. RequestStop \/ Service => InOrder'
    <2>1. RequestStop \/ Service => UNCHANGED <<batch, thread, ghosts, mem, pc>>
      BY DEF RequestStop, Service
    <2> QED
      BY <2>1 DEF InOrder, thread, ghosts
  <1>8. IngressPoll => InOrder'
    <2> SUFFICES ASSUME IngressPoll PROVE InOrder'
      OBVIOUS
    <2>1. UNCHANGED <<pc, mem, batch, icursor, queue, cause>>
      BY DEF IngressPoll, ghosts
    <2>2. \A k \in 1..Len(ipage') : ipage'[k].cursor = icursor + k
      <3>1. CASE ~ResetRequired(mem.stream, icursor) /\ ipage' = Page(icursor)
        <4>1. icursor \in 0..MaxEvents /\ icursor <= Len(log)
          BY <3>1, Sizes DEF ResetRequired, Types
        <4> QED
          BY <3>1, <4>1, PageIs, TypesForm
      <3>2. CASE UNCHANGED ipage
        <4>1. ipage' = <<>> /\ \A k \in 1..Len(ipage') : FALSE
          BY <3>2, EmptyIs DEF IngressPoll
        <4> QED
          BY <4>1
      <3> QED
        BY <3>1, <3>2 DEF IngressPoll
    <2> QED
      BY <2>1, <2>2 DEF InOrder
  <1>9. IngressEvent => InOrder'
    <2> SUFFICES ASSUME IngressEvent PROVE InOrder'
      OBVIOUS
    <2>1. /\ ipage # <<>> /\ Head(ipage) \in Event /\ UNCHANGED <<pc, batch>>
      BY IngressEventIs
    <2>2. UNCHANGED <<mem, cause>> \/ cause' # {}
      BY <2>1, IngressEventIs, CancelIs
    <2>3. pc \notin {"down", "collect"}
      BY <2>1 DEF Phases
    <2>4. CASE ipage' = <<>> /\ UNCHANGED <<icursor, queue>>
      <3>1. \A k \in 1..Len(ipage') : FALSE
        BY <2>4, EmptyIs
      <3> QED
        BY <2>1, <2>2, <2>3, <2>4, <3>1 DEF InOrder
    <2>5. CASE /\ queue' = Append(queue, Head(ipage))
               /\ icursor' = Head(ipage).cursor /\ ipage' = Tail(ipage)
      <3>1. /\ Len(ipage') = Len(ipage) - 1 /\ Head(ipage) = ipage[1] /\ 1 \in 1..Len(ipage)
            /\ \A k \in 1..Len(ipage') : ipage'[k] = ipage[k + 1] /\ k + 1 \in 1..Len(ipage)
        BY <1>types, <2>1, <2>5, TailIs
      <3>2. icursor' = icursor + 1
        BY <2>3, <2>5, <3>1 DEF InOrder
      <3>3. /\ Len(queue') = Len(queue) + 1
            /\ \A k \in 1..Len(queue) : queue'[k] = queue[k]
            /\ queue'[Len(queue) + 1] = Head(ipage)
        BY <1>types, <2>1, <2>5, AppendIs
      <3>4. \A k \in 1..Len(queue') : queue'[k].cursor = icursor' - Len(queue') + k
        <4> SUFFICES ASSUME NEW k \in 1..Len(queue')
                     PROVE  queue'[k].cursor = icursor' - Len(queue') + k
          OBVIOUS
        <4>1. CASE k \in 1..Len(queue)
          <5>1. queue[k].cursor = icursor - Len(queue) + k
            BY <2>3, <4>1 DEF InOrder
          <5> QED
            BY <1>types, <3>2, <3>3, <4>1, <5>1
        <4>2. CASE k = Len(queue) + 1
          BY <1>types, <2>5, <3>2, <3>3, <4>2
        <4> QED
          BY <1>types, <3>3, <4>1, <4>2
      <3>5. \A k \in 1..Len(ipage') : ipage'[k].cursor = icursor' + k
        <4> SUFFICES ASSUME NEW k \in 1..Len(ipage') PROVE ipage'[k].cursor = icursor' + k
          OBVIOUS
        <4>1. ipage'[k] = ipage[k + 1] /\ k + 1 \in 1..Len(ipage)
          BY <3>1
        <4>2. ipage[k + 1].cursor = icursor + (k + 1)
          BY <2>3, <4>1 DEF InOrder
        <4> QED
          BY <1>types, <3>1, <3>2, <4>1, <4>2
      <3> QED
        BY <1>types, <2>1, <2>2, <2>3, <3>2, <3>3, <3>4, <3>5 DEF InOrder
    <2> QED
      BY <2>4, <2>5, IngressEventIs
  <1>10. UNCHANGED vars => InOrder'
    BY DEF vars, thread, ghosts, InOrder
  <1> QED
    BY <1>1, <1>2, <1>3, <1>4, <1>5, <1>6, <1>7, <1>8, <1>9, <1>10, Shapes

\* What has passed stays passed.
LEMMA StillCounts ==
    ASSUME handled \subseteq handled', cause \subseteq cause',
           NEW q, Counts(q), NEW p, p.stream = q.stream, p.cursor = q.cursor
    PROVE  Counts(p)'
  BY DEF Counts, Passed

LEMMA AccountedStep == ASSUME Types, Accounted, Phases, InOrder, [Next]_vars PROVE Accounted'
  <1>1. ASSUME handled \subseteq handled', cause \subseteq cause',
               Counts(mem') \/ (mem'.stream = mem.stream /\ mem'.cursor = mem.cursor),
               \A p \in status' : Counts(p) \/ (p.stream = mem.stream /\ p.cursor = mem.cursor)
        PROVE  \A p \in status' \cup {mem'} : Counts(p)'
    <2>1. PICK m : m = mem'
      OBVIOUS
    <2>2. Counts(m)'
      BY <1>1, <2>1, StillCounts DEF Accounted
    <2>3. \A p \in status' : Counts(p)'
      BY <1>1, StillCounts DEF Accounted
    <2> QED
      BY <2>1, <2>2, <2>3
  <1>mem. \A m : m \in {mem} => Counts(m)
    BY DEF Accounted
  <1>down. ASSUME DownTypes', UNCHANGED ghosts,
                  \A p \in status' : Counts(p) \/ (p.stream = mem.stream /\ p.cursor = mem.cursor)
           PROVE  Accounted'
    <2>1. Counts(mem') /\ ipage' = <<>>
      BY <1>down, CountsNothing DEF DownTypes
    <2>2. \A p \in status' \cup {mem'} : Counts(p)'
      BY <1>1, <1>down, <2>1 DEF ghosts
    <2> QED
      BY <2>1, <2>2, EmptyIs DEF Accounted
  <1>same. ASSUME UNCHANGED <<thread, ghosts>>, mem'.stream = mem.stream, mem'.cursor = mem.cursor,
                  \A p \in status' : p \in status \/ (p.stream = mem.stream /\ p.cursor = mem.cursor)
           PROVE  Accounted'
    <2>1. \A p \in status' \cup {mem'} : Counts(p)'
      BY <1>1, <1>same DEF ghosts, Accounted
    <2> QED
      BY <1>same, <2>1 DEF thread, Accounted
  <1>2. Ends => Accounted'
    <2> SUFFICES ASSUME Ends PROVE Accounted'
      OBVIOUS
    <2>1. PICK m \in MemType : Counts(m) /\ status' = {Acknowledgement(m)} /\ UNCHANGED ghosts
      BY DEF Ends, Exit
    <2>2. Counts(Acknowledgement(m))
      BY <2>1, AcknowledgementIs DEF Counts
    <2> QED
      BY <1>down, <2>1, <2>2, EndsTypes
  <1>3. Crash => Accounted'
    <2>1. Crash => UNCHANGED ghosts /\ status' \in {status, {}}
      BY DEF Crash
    <2> QED
      BY <1>down, <2>1, CrashTypes DEF Accounted
  <1>4. Starts => Accounted'
    <2> SUFFICES ASSUME Starts PROVE Accounted'
      OBVIOUS
    <2>1. Counts(mem') /\ UNCHANGED <<status, thread, ghosts>> /\ pc = "down"
      BY DEF Starts
    <2>2. \A p \in status' \cup {mem'} : Counts(p)'
      BY <1>1, <2>1 DEF ghosts, Accounted
    <2> QED
      BY <2>1, <2>2, EmptyIs DEF Accounted, Phases, thread
  <1>5. Begins => Accounted'
    <2> SUFFICES ASSUME Begins PROVE Accounted'
      OBVIOUS
    <2>1. /\ UNCHANGED <<status, ghosts, ipage>>
          /\ mem'.stream = mem.stream /\ mem'.cursor = mem.cursor
      BY DEF Begins
    <2>2. \A p \in status' \cup {mem'} : Counts(p)'
      BY <1>1, <2>1 DEF ghosts, Accounted
    <2> QED
      BY <2>1, <2>2 DEF Accounted
  <1>6. Works => Accounted'
    <2>1. Works => \A p \in status' : p \in status \/ (p.stream = mem.stream /\ p.cursor = mem.cursor)
      BY AcknowledgementIs DEF Works, Types
    <2>2. Works => UNCHANGED <<thread, ghosts>> /\ mem'.stream = mem.stream /\ mem'.cursor = mem.cursor
      BY DEF Works
    <2> QED
      BY <1>same, <2>1, <2>2
  <1>7. Acks => Accounted'
    <2> SUFFICES ASSUME Acks PROVE Accounted'
      OBVIOUS
    <2>1. PICK ev : ev = Head(batch)
      OBVIOUS
    <2>2. /\ {ev.stream} = mem.stream /\ ev.cursor = mem.cursor + 1 /\ mem.cursor \in Nat
          /\ mem' = Memory(mem.stream, ev.cursor, mem.gen)
          /\ handled' = handled \cup {<<ev.stream, ev.cursor>>}
          /\ UNCHANGED <<status, thread, cause>>
      BY <2>1, Sizes DEF Acks, Types, MemType
    <2>3. mem'.stream = mem.stream /\ mem'.cursor = ev.cursor
      <3>1. mem.gen \in 0..MaxEvents /\ ev.cursor \in 0..MaxEvents
        BY <2>1, TailIs, EventFields, Sizes DEF Acks, Types, MemType
      <3> QED
        BY <2>2, <3>1, Moves
    <2>4. ASSUME NEW m, m = mem' PROVE Counts(m)'
      <3>2. Counts(mem)
        BY DEF Accounted
      <3>3. \A s \in m.stream : \A c \in 1..m.cursor : Passed(s, c)'
        <4> SUFFICES ASSUME NEW s \in m.stream, NEW c \in 1..m.cursor PROVE Passed(s, c)'
          OBVIOUS
        <4>1. s = ev.stream /\ s \in mem.stream /\ (c \in 1..mem.cursor \/ c = ev.cursor)
          BY <2>2, <2>3, <2>4
        <4>2. CASE c \in 1..mem.cursor
          BY <2>2, <3>2, <4>1, <4>2 DEF Counts, Passed
        <4>3. CASE c = ev.cursor
          BY <2>2, <4>1, <4>3 DEF Passed
        <4> QED
          BY <4>1, <4>2, <4>3
      <3>4. m.stream # {}
        BY <2>2, <2>3, <2>4
      <3> QED
        BY <3>3, <3>4 DEF Counts
    <2>5. \A p \in status' : Counts(p)'
      BY <2>2, StillCounts DEF Accounted
    <2>6. \A p \in status' \cup {mem'} : Counts(p)'
      BY <2>4, <2>5
    <2> QED
      BY <2>2, <2>3, <2>6 DEF Accounted, thread
  <1>8. Drain => Accounted'
    <2> SUFFICES ASSUME Drain PROVE Accounted'
      OBVIOUS
    <2>1. UNCHANGED <<status, ghosts, ipage, mem>>
      BY DEF Drain
    <2>2. \A p \in status' \cup {mem'} : Counts(p)'
      BY <1>1, <2>1 DEF ghosts, Accounted
    <2> QED
      BY <2>1, <2>2 DEF Accounted
  <1>9. RequestStop => Accounted'
    <2>1. RequestStop => \A p \in status' : p \in status \/ (p.stream = mem.stream /\ p.cursor = mem.cursor)
      BY AcknowledgementIs DEF RequestStop, Types
    <2>2. RequestStop => UNCHANGED <<thread, ghosts, mem>>
      BY DEF RequestStop
    <2> QED
      BY <1>same, <2>1, <2>2
  <1>10. IngressPoll => Accounted'
    <2> SUFFICES ASSUME IngressPoll PROVE Accounted'
      OBVIOUS
    <2>1. UNCHANGED <<status, ghosts, mem>>
      BY DEF IngressPoll
    <2>2. \A p \in status' \cup {mem'} : Counts(p)'
      BY <1>1, <2>1 DEF ghosts, Accounted
    <2>3. \A k \in 1..Len(ipage') : {ipage'[k].stream} = mem'.stream
      <3>1. CASE ~ResetRequired(mem.stream, icursor) /\ ipage' = Page(icursor)
        <4>1. icursor \in 0..MaxEvents /\ icursor <= Len(log) /\ mem.stream = {stream}
          BY <3>1, Sizes DEF ResetRequired, Types
        <4> QED
          BY <2>1, <3>1, <4>1, PageIs, TypesForm
      <3>2. CASE UNCHANGED ipage
        BY <2>1, <3>2 DEF Accounted
      <3> QED
        BY <3>1, <3>2 DEF IngressPoll
    <2> QED
      BY <2>2, <2>3 DEF Accounted
  <1>11. IngressEvent => Accounted'
    <2> SUFFICES ASSUME IngressEvent PROVE Accounted'
      OBVIOUS
    <2>1. PICK e : e = Head(ipage)
      OBVIOUS
    <2>2. /\ ipage # <<>> /\ e \in Event /\ CancelActiveForEvent(e) /\ UNCHANGED <<status, handled>>
          /\ ipage' = <<>> \/ ipage' = Tail(ipage)
      BY <2>1, IngressEventIs
    <2>3. {e.stream} = mem.stream /\ e.cursor \in 1..MaxEvents
      BY <2>1, <2>2, TailIs, EventFields DEF Accounted, Types
    <2>4. mem'.stream = mem.stream /\ cause \subseteq cause'
      BY <2>2, CancelIs
    <2>5. \A k \in 1..Len(ipage') : {ipage'[k].stream} = mem'.stream
      <3>1. CASE ipage' = <<>>
        BY <3>1, EmptyIs
      <3>2. CASE ipage' = Tail(ipage)
        <4>1. \A k \in 1..Len(ipage') : ipage'[k] = ipage[k + 1] /\ k + 1 \in 1..Len(ipage)
          BY <2>2, <3>2, TailIs DEF Types
        <4>2. \A k \in 1..Len(ipage) : {ipage[k].stream} = mem.stream
          BY DEF Accounted
        <4> QED
          BY <2>4, <4>1, <4>2
      <3> QED
        BY <2>2, <3>1, <3>2
    <2>6. \A p \in status' : Counts(p)'
      BY <2>2, <2>4, StillCounts DEF Accounted
    <2>7. ASSUME NEW m, m = mem' PROVE Counts(m)'
      <3>1. Counts(mem)
        BY DEF Accounted
      <3>2. CASE m.cursor = mem.cursor
        BY <2>2, <2>4, <2>7, <3>1, <3>2, StillCounts
      <3>3. CASE m.cursor = e.cursor /\ cause' = cause \cup {<<e.stream, e.cursor>>}
        <4>1. \A s \in m.stream : \A c \in 1..m.cursor : Passed(s, c)'
          BY <2>3, <2>4, <2>7, <3>3, Sizes DEF Passed
        <4>2. m.stream # {}
          BY <2>3, <2>4, <2>7
        <4> QED
          BY <4>1, <4>2 DEF Counts
      <3> QED
        BY <2>2, <2>7, <3>2, <3>3, CancelIs
    <2>8. \A p \in status' \cup {mem'} : Counts(p)'
      BY <2>6, <2>7
    <2> QED
      BY <2>5, <2>8 DEF Accounted
  <1>12. Service \/ UNCHANGED vars => Accounted'
    <2>1. Service \/ UNCHANGED vars => UNCHANGED <<status, mem, thread, ghosts>>
      BY DEF Service, vars
    <2> QED
      BY <1>same, <2>1
  <1> QED
    BY <1>2, <1>3, <1>4, <1>5, <1>6, <1>7, <1>8, <1>9, <1>10, <1>11, <1>12, Shapes

-----------------------------------------------------------------------------
\* The invariant of the supervisor and its ingress thread, for any bounds of the
\* stream, the page, the queue, and the number of starts and crashes.
THEOREM SupervisorInvariant == Spec => []IInv
  <1>1. Init => IInv
    <2> SUFFICES ASSUME Init PROVE IInv
      OBVIOUS
    <2>1. /\ <<>> \in Seq(1..MaxEvents) /\ Len(<<>>) = 0 /\ <<>> \in Seq(Event)
          /\ NoMemory \in MemType /\ "PASS" \in Range(Outcomes)
      BY EmptyIs, CountsNothing, OutcomeSet
    <2>2. Types
      <3>1. /\ stream = 1 /\ log = <<>> /\ oldest = 1 /\ status = {} /\ pc = "down"
            /\ once = FALSE /\ stop = FALSE /\ mem = NoMemory /\ batch = <<>> /\ active = {}
            /\ todo = 0 /\ outcome = "PASS" /\ ingress = "off" /\ icursor = 0 /\ ipage = <<>>
            /\ queue = <<>> /\ starts = 0 /\ crashes = 0 /\ handled = {} /\ cause = {}
        BY DEF Init
      <3>2. /\ log \in Seq(1..MaxEvents) /\ Len(log) <= MaxEvents
            /\ batch \in Seq(Event) /\ ipage \in Seq(Event) /\ queue \in Seq(Event) /\ Len(queue) <= Capacity
        BY <2>1, <3>1, Sizes
      <3>3. /\ stream \in 1..MaxStreams /\ oldest \in 1..MaxEvents
            /\ todo \in 0..Triggers /\ icursor \in 0..MaxEvents
        BY <3>1, Sizes
      <3>4. /\ once \in BOOLEAN /\ stop \in BOOLEAN /\ mem \in MemType /\ outcome \in Range(Outcomes)
        BY <2>1, <3>1
      <3>5. /\ starts \in 0..MaxStarts /\ crashes \in 0..MaxCrashes
            /\ handled \subseteq (1..MaxStreams) \X (1..MaxEvents)
            /\ cause \subseteq (1..MaxStreams) \X (1..MaxEvents)
        BY <3>1, Sizes
      <3> QED
        BY <3>1, <3>2, <3>3, <3>4, <3>5 DEF Types
    <2>3. Numbered /\ Phases /\ InOrder
      BY <2>1, Sizes DEF Init, Numbered, Phases, InOrder
    <2>4. Accounted
      BY <2>1, CountsNothing DEF Init, Accounted
    <2> QED
      BY <2>2, <2>3, <2>4, TypesForm DEF IInv
  <1>2. IInv /\ [Next]_vars => IInv'
    BY TypesStep, NumberedStep, PhasesStep, InOrderStep, AccountedStep, TypesForm DEF IInv
  <1> QED
    BY <1>1, <1>2, PTL DEF Spec

\* Every variable keeps its type; the ingress queue never exceeds its capacity
\* and the status file holds at most one pair.
THEOREM SupervisorTypes == Spec => []TypeOK
  <1>1. IInv => TypeOK
    BY DEF IInv
  <1> QED
    BY <1>1, SupervisorInvariant, PTL

\* The status file counts an event only if its handling was acknowledged or the
\* ingress cancelled a job for it or for a later one, whatever crashes, resets
\* and restarts there were.
THEOREM SupervisorAccounts == Spec => []SkippedOnlyBySupersession
  <1>1. IInv => SkippedOnlyBySupersession
    BY DEF IInv, Accounted, Counts, Passed, SkippedOnlyBySupersession
  <1> QED
    BY <1>1, SupervisorInvariant, PTL

\* What is dispatched, queued and polled are the consecutive events up to the
\* ingress cursor.
THEOREM SupervisorDropsNothing == Spec => []NothingDropped
  <1>1. IInv => NothingDropped
    <2> SUFFICES ASSUME IInv, pc \notin {"down", "collect"}
                 PROVE  /\ \A k \in DOMAIN (batch \o queue) :
                             (batch \o queue)[k].cursor = icursor - Len(batch \o queue) + k
                        /\ \A k \in DOMAIN ipage : ipage[k].cursor = icursor + k
                        /\ cause = {} => icursor = mem.cursor + Len(batch \o queue)
      BY DEF NothingDropped
    <2>1. batch \in Seq(Event) /\ queue \in Seq(Event) /\ ipage \in Seq(Event) /\ icursor \in Nat
      BY TypesForm, Sizes DEF IInv, Types
    <2>2. PICK held : held = batch \o queue
      OBVIOUS
    <2>3. /\ Len(batch) \in Nat /\ Len(queue) \in Nat /\ Len(held) = Len(batch) + Len(queue)
          /\ DOMAIN held = 1..Len(held) /\ DOMAIN ipage = 1..Len(ipage)
          /\ \A k \in 1..Len(held) : held[k] = IF k <= Len(batch) THEN batch[k] ELSE queue[k - Len(batch)]
      BY <2>1, <2>2, ConcatProperties, LenProperties
    <2>4. ASSUME NEW k \in 1..Len(held) PROVE held[k].cursor = icursor - Len(held) + k
      <3>1. CASE k <= Len(batch)
        <4>1. k \in 1..Len(batch) /\ held[k] = batch[k]
          BY <2>3, <3>1
        <4>2. batch[k].cursor = icursor - Len(queue) - Len(batch) + k
          BY <4>1 DEF IInv, InOrder
        <4> QED
          BY <2>1, <2>3, <4>1, <4>2
      <3>2. CASE k > Len(batch)
        <4>1. k - Len(batch) \in 1..Len(queue) /\ held[k] = queue[k - Len(batch)]
          BY <2>3, <3>2
        <4>2. queue[k - Len(batch)].cursor = icursor - Len(queue) + (k - Len(batch))
          BY <4>1 DEF IInv, InOrder
        <4> QED
          BY <2>1, <2>3, <4>1, <4>2
      <3> QED
        BY <2>3, <3>1, <3>2
    <2>5. /\ \A k \in 1..Len(ipage) : ipage[k].cursor = icursor + k
          /\ cause = {} => icursor = mem.cursor + Len(batch) + Len(queue)
      BY DEF IInv, InOrder
    <2>6. mem.cursor \in Nat
      BY TypesForm, Sizes DEF IInv, Types, MemType
    <2>7. /\ \A k \in DOMAIN held : held[k].cursor = icursor - Len(held) + k
          /\ \A k \in DOMAIN ipage : ipage[k].cursor = icursor + k
          /\ cause = {} => icursor = mem.cursor + Len(held)
      BY <2>3, <2>4, <2>5, <2>6
    <2> QED
      BY <2>2, <2>7, Zenon
  <1> QED
    BY <1>1, SupervisorInvariant, PTL
=============================================================================
