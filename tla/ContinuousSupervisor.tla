------------------------ MODULE ContinuousSupervisor ------------------------
(***************************************************************************)
(* The continuous supervisor: a main thread that dispatches the Language   *)
(* Service's workspace events to verification jobs one at a time and       *)
(* acknowledges them in a status file, and an ingress thread that keeps    *)
(* consuming the stream meanwhile and cancels a job a newer generation has *)
(* superseded.  The supervisor may stop, crash and start again; the        *)
(* service (external) may drop old events and may restart with a new       *)
(* stream.  Pending obligations, attention, repairs and counters are left  *)
(* out: they are reported and never decide what is dispatched.             *)
(***************************************************************************)
EXTENDS Naturals, Sequences, SequencesExt

CONSTANTS Limit,      \* events a poll returns (poll_max_events)
          Triggers,   \* bound: triggers that match one event
          Capacity,   \* CONTINUOUS_PENDING_CAPACITY of the ingress queue
          MaxEvents,  \* bound: events of one stream
          MaxStreams, \* bound: streams of the service
          MaxStarts,  \* bound: starts of the supervisor
          MaxCrashes  \* bound: crashes of the supervisor

ASSUME SupervisorConstants ==
    /\ {Limit, Capacity, MaxEvents, MaxStreams} \subseteq Nat \ {0}
    /\ {Triggers, MaxStarts, MaxCrashes} \subseteq Nat

VARIABLES stream,   \* the service's stream identity
          log,      \* the generation of each event of the stream, by cursor
          oldest,   \* the oldest cursor the service retains
          status,   \* status.json: at most one acknowledged pair, {} if unreadable
          pc, once, stop,
          mem,      \* current_cursor, stream_identity, current_generation
          batch,    \* events being dispatched
          active,   \* the generation of the active job, if there is one
          todo,     \* matched triggers whose job has not started
          outcome,  \* what the event's jobs amount to so far
          ingress,  \* the ingress thread: off, on, failed
          icursor, ipage, queue,
          starts, crashes,
          handled,  \* the events whose handling was acknowledged
          cause     \* the events a job was cancelled for

service == <<stream, log, oldest>>
thread  == <<ingress, icursor, ipage, queue>>
ghosts  == <<handled, cause>>
vars    == <<service, status, pc, once, stop, mem, batch, active, todo, outcome, thread,
             starts, crashes, ghosts>>

Event == [stream : 1..MaxStreams, cursor : 1..MaxEvents, gen : 1..MaxEvents]
Pair == [stream : SUBSET (1..MaxStreams), cursor : 0..MaxEvents]
NoPair == [stream |-> {}, cursor |-> 0]
Memory(s, c, g) == [stream |-> s, cursor |-> c, gen |-> g]
NoMemory == Memory({}, 0, 0)

\* FAIL dominates UNKNOWN dominates PASS (the status lattice); a Safe repair and
\* an error override what the other jobs found.
Outcomes == <<"PASS", "UNKNOWN", "FAIL", "REPAIRED", "ERROR">>

Init ==
    /\ stream = 1 /\ log = <<>> /\ oldest = 1
    /\ status = {}
    /\ pc = "down" /\ once = FALSE /\ stop = FALSE
    /\ mem = NoMemory /\ batch = <<>> /\ active = {} /\ todo = 0 /\ outcome = "PASS"
    /\ ingress = "off" /\ icursor = 0 /\ ipage = <<>> /\ queue = <<>>
    /\ starts = 0 /\ crashes = 0
    /\ handled = {} /\ cause = {}

Larger(m, n) == IF m < n THEN n ELSE m
Generation(l) == IF l = <<>> THEN 0 ELSE Last(l)

-----------------------------------------------------------------------------
(* The Language Service.                                                   *)

\* A file changed: one more event, of the same or of the next generation.
Publish ==
    /\ Len(log) < MaxEvents
    /\ \E g \in {Generation(log), Generation(log) + 1} \ {0} : log' = Append(log, g)
    /\ UNCHANGED <<stream, oldest>>

\* The bounded history forgets its oldest event.
Expire ==
    /\ oldest < Len(log)
    /\ oldest' = oldest + 1
    /\ UNCHANGED <<stream, log>>

Restart ==
    /\ stream < MaxStreams
    /\ stream' = stream + 1 /\ log' = <<>> /\ oldest' = 1

Service ==
    /\ Publish \/ Expire \/ Restart
    /\ UNCHANGED <<status, pc, once, stop, mem, batch, active, todo, outcome, thread, starts,
                   crashes, ghosts>>

\* poll_events answers a consumer of another stream, or one whose next event is
\* gone, with reset_required ...
ResetRequired(s, after) == s # {stream} \/ after + 1 < oldest \/ after > Len(log)

\* ... and any other with the events after its cursor.
Page(after) ==
    LET n == IF Len(log) - after < Limit THEN Len(log) - after ELSE Limit
    IN [k \in 1..n |-> [stream |-> stream, cursor |-> after + k, gen |-> log[after + k]]]

-----------------------------------------------------------------------------
(* The main thread.                                                        *)

\* _write_status(self.status()), as far as a later run reads it back.
Acknowledgement(m) == [stream |-> m.stream, cursor |-> m.cursor]

\* run() returns after it wrote m; the memory of the process is gone.
Exit(m) ==
    /\ status' = {Acknowledgement(m)}
    /\ pc' = "down" /\ once' = FALSE /\ stop' = FALSE
    /\ mem' = NoMemory /\ batch' = <<>> /\ active' = {} /\ todo' = 0 /\ outcome' = "PASS"
    /\ ingress' = "off" /\ icursor' = 0 /\ ipage' = <<>> /\ queue' = <<>>

\* The service cannot be reached: run() reports before it has read the status
\* of the previous run.
StartUnreachable ==
    /\ pc = "down" /\ starts < MaxStarts
    /\ starts' = starts + 1
    /\ Exit(NoMemory)
    /\ UNCHANGED <<service, crashes, ghosts>>

\* What read_status returns, with the live stream if it names none.
Restored ==
    LET s == IF status = {} THEN NoPair ELSE CHOOSE x \in status : TRUE
    IN Memory(IF s.stream = {} THEN {stream} ELSE s.stream, s.cursor, 0)

\* _replay_new_epoch_from_zero: nothing was acknowledged and the replacement
\* stream still has its whole history.
Replayable(m) == m.cursor = 0 /\ m.stream # {stream} /\ oldest = 1

\* Bug: a replacement stream is adopted at its high-water mark.
GiveUp_HighWater(m) == Exit(Memory(m.stream, Len(log), m.gen))

\* A reset the supervisor may not resolve by itself: the previous pair stays.
GiveUp(m) == Exit(m)

\* A start reads the status file and polls from the acknowledged cursor; a
\* request may fail, or the poll require a reset.
Start ==
    /\ pc = "down" /\ starts < MaxStarts
    /\ starts' = starts + 1
    /\ LET m == Restored IN
       \/ GiveUp(m)
       \/ /\ ~ResetRequired(m.stream, m.cursor) \/ Replayable(m)
          /\ mem' = Memory({stream}, m.cursor, m.gen)
          /\ batch' = Page(m.cursor)
          /\ once' \in BOOLEAN
          /\ pc' = "collect"
          /\ UNCHANGED <<status, stop, active, todo, outcome, thread>>
    /\ UNCHANGED <<service, crashes, ghosts>>

\* The page continues the acknowledged cursor, in the acknowledged stream.
Contiguous(m, b) ==
    \A k \in DOMAIN b : b[k].cursor = m.cursor + k /\ {b[k].stream} = m.stream

\* The ingress takes over behind the last event of the page; the page's older
\* generations are superseded from here on.
BeginDispatch(b) ==
    /\ mem' = Memory(mem.stream, mem.cursor,
                     IF b = <<>> THEN mem.gen ELSE Larger(mem.gen, Last(b).gen))
    /\ batch' = b
    /\ icursor' = mem.cursor + Len(b)
    /\ ingress' = IF b = <<>> /\ once THEN "off" ELSE "on"
    /\ pc' = "dispatch"
    /\ UNCHANGED <<status, once, stop, active, todo, outcome, ipage, queue>>

\* A debounce window ends with a second poll from the same cursor.
Debounced == IF ResetRequired(mem.stream, mem.cursor) THEN {} ELSE {Page(mem.cursor)}

\* The page, or the one after the debounce window, is dispatched if it continues
\* the acknowledgement; the debounce decision may fail and its poll be a reset.
Collect ==
    /\ pc = "collect"
    /\ \/ GiveUp(mem)
       \/ \E b \in {batch} \cup (IF batch = <<>> THEN {} ELSE Debounced) :
            Contiguous(mem, b) /\ BeginDispatch(b)
    /\ UNCHANGED <<service, starts, crashes, ghosts>>

\* dispatch_failed: the status is persisted and the run ends with the event
\* unacknowledged (owner_retry_required).
DispatchFailed == Exit(mem) /\ UNCHANGED ghosts

\* dispatch_and_ack: the owner handled the event; it is acknowledged if it
\* follows the cursor in the same stream.
Acknowledge(ev) ==
    IF ev.cursor = mem.cursor + 1 /\ {ev.stream} = mem.stream
      THEN /\ mem' = Memory(mem.stream, ev.cursor, mem.gen)
           /\ handled' = handled \cup {<<ev.stream, ev.cursor>>}
           /\ batch' = Tail(batch)
           /\ outcome' = "PASS"
           /\ pc' = "dispatch"
           /\ todo' = 0
           /\ UNCHANGED <<status, once, stop, active, thread, cause>>
      ELSE DispatchFailed

\* _job_scope: the job is published under the lock, then in the status file;
\* n triggers are left after it.
StartJob(ev, n) ==
    /\ active' = {ev.gen}
    /\ todo' = n
    /\ status' = {Acknowledgement(mem)}
    /\ pc' = "job"

\* _process_event up to its first job: a superseded event is acknowledged as
\* STALE; the triggers of another cannot be decided, or none matches, or a job
\* of one of them starts.
Dispatch ==
    /\ pc = "dispatch" /\ batch # <<>>
    /\ LET ev == Head(batch) IN
       IF ev.gen < mem.gen
         THEN Acknowledge(ev)
         ELSE \/ DispatchFailed
              \/ /\ mem' = Memory(mem.stream, mem.cursor, ev.gen)
                 /\ \/ pc' = "fresh" /\ UNCHANGED <<status, active, todo>>
                    \/ \E n \in 1..Triggers : StartJob(ev, n - 1)
                 /\ UNCHANGED <<once, stop, batch, outcome, thread, ghosts>>
    /\ UNCHANGED <<service, starts, crashes>>

Rank(s) == CHOOSE n \in DOMAIN Outcomes : Outcomes[n] = s
Dominate(s, t) == IF Rank(s) < Rank(t) THEN t ELSE s

\* A job ends with any outcome (UNKNOWN if it was cancelled, found stale or
\* deferred); the job is withdrawn and the status written.
EndJob ==
    /\ pc = "job"
    /\ \E s \in Range(Outcomes) : outcome' = Dominate(outcome, s)
    /\ active' = {}
    /\ status' = {Acknowledgement(mem)}
    /\ pc' = "decide"
    /\ UNCHANGED <<service, once, stop, mem, batch, todo, thread, starts, crashes, ghosts>>

\* Another trigger's job starts, or the event is settled: a repair (its rebound
\* event will follow) and a FAIL are acknowledged as they are, UNKNOWN and an
\* error are not, and PASS has its freshness confirmed first.
Decide ==
    /\ pc = "decide"
    /\ LET ev == Head(batch) IN
       \/ /\ todo > 0 /\ outcome # "ERROR"
          /\ StartJob(ev, todo - 1)
          /\ UNCHANGED <<once, stop, mem, batch, outcome, thread, ghosts>>
       \/ outcome = "REPAIRED" /\ Acknowledge(ev)
       \/ todo = 0 /\ outcome = "FAIL" /\ Acknowledge(ev)
       \/ todo = 0 /\ outcome = "UNKNOWN" /\ DispatchFailed
       \/ outcome = "ERROR" /\ DispatchFailed
       \/ /\ todo = 0 /\ outcome = "PASS" /\ pc' = "fresh"
          /\ UNCHANGED <<status, once, stop, mem, batch, active, todo, outcome, thread, ghosts>>
    /\ UNCHANGED <<service, starts, crashes>>

\* workspace_status answers (PASS, or STALE for a newer generation: both are
\* acknowledged) or cannot be reached.
ConfirmFresh ==
    /\ pc = "fresh"
    /\ Acknowledge(Head(batch)) \/ DispatchFailed
    /\ UNCHANGED <<service, starts, crashes>>

\* persist_runtime_status after a batch.
Persist ==
    /\ pc = "dispatch" /\ batch = <<>>
    /\ status' = {Acknowledgement(mem)}
    /\ pc' = "drain"
    /\ UNCHANGED <<service, once, stop, mem, batch, active, todo, outcome, thread, starts, crashes,
                   ghosts>>

\* The next batch is everything the ingress has queued.
Drain ==
    /\ pc = "drain" /\ queue # <<>>
    /\ ~stop
    /\ batch' = queue /\ queue' = <<>>
    /\ pc' = "dispatch"
    /\ UNCHANGED <<service, status, once, stop, mem, active, todo, outcome, ingress, icursor, ipage,
                   starts, crashes, ghosts>>

\* Bug: a stop request is seen only when the ingress has failed.
Finish_Deaf ==
    /\ pc = "drain"
    /\ once \/ ingress = "failed"
    /\ Exit(mem)
    /\ UNCHANGED <<service, starts, crashes, ghosts>>

\* The loop ends: asked to stop, ingress failure, or the end of a one-shot run.
Finish ==
    /\ pc = "drain"
    /\ once \/ stop \/ ingress = "failed"
    /\ Exit(mem)
    /\ UNCHANGED <<service, starts, crashes, ghosts>>

\* The host's signal handler; a one-shot run has none.  The status file is
\* rewritten with what it held, or with the memory's if it cannot be read.
RequestStop ==
    /\ pc # "down" /\ ~once /\ ~stop
    /\ stop' = TRUE
    /\ status' = IF status = {} THEN {Acknowledgement(mem)} ELSE status
    /\ UNCHANGED <<service, pc, once, mem, batch, active, todo, outcome, thread, starts,
                   crashes, ghosts>>

\* The process dies at any point; a status file it was writing is unreadable.
Crash ==
    /\ pc # "down" /\ crashes < MaxCrashes
    /\ crashes' = crashes + 1
    /\ status' \in {status, {}}
    /\ pc' = "down" /\ once' = FALSE /\ stop' = FALSE
    /\ mem' = NoMemory /\ batch' = <<>> /\ active' = {} /\ todo' = 0 /\ outcome' = "PASS"
    /\ ingress' = "off" /\ icursor' = 0 /\ ipage' = <<>> /\ queue' = <<>>
    /\ UNCHANGED <<service, starts, ghosts>>

-----------------------------------------------------------------------------
(* The ingress thread.                                                     *)

\* A poll behind its own cursor; a reset or a failed request ends the thread.
IngressPoll ==
    /\ ingress = "on" /\ ipage = <<>>
    /\ \/ ingress' = "failed" /\ UNCHANGED ipage
       \/ /\ ~ResetRequired(mem.stream, icursor)
          /\ ipage' = Page(icursor) /\ ipage' # <<>>
          /\ UNCHANGED ingress
    /\ UNCHANGED <<service, status, pc, once, stop, mem, batch, active, todo, outcome, icursor, queue,
                   starts, crashes, ghosts>>

\* _cancel_active_for_event: under the job lock.
CancelActiveForEvent(ev) ==
    IF \E g \in active : g < ev.gen
      THEN /\ mem' = Memory(mem.stream, Larger(mem.cursor, ev.cursor), Larger(mem.gen, ev.gen))
           /\ cause' = cause \cup {<<ev.stream, ev.cursor>>}
      ELSE UNCHANGED <<mem, cause>>

\* Bug: the cursor passes an event the full queue did not take.
IngressEvent_Drops ==
    /\ ipage # <<>>
    /\ CancelActiveForEvent(Head(ipage))
    /\ icursor' = Head(ipage).cursor
    /\ queue' = IF Len(queue) = Capacity THEN queue ELSE Append(queue, Head(ipage))
    /\ ipage' = Tail(ipage)
    /\ UNCHANGED <<service, status, pc, once, stop, batch, active, todo, outcome, ingress, starts,
                   crashes, handled>>

\* One event of the page: it may cancel the active job, and is queued or, if the
\* queue is full, ends the thread.
IngressEvent ==
    /\ ipage # <<>>
    /\ CancelActiveForEvent(Head(ipage))
    /\ IF Len(queue) = Capacity
         THEN ingress' = "failed" /\ ipage' = <<>> /\ UNCHANGED <<icursor, queue>>
         ELSE /\ queue' = Append(queue, Head(ipage))
              /\ icursor' = Head(ipage).cursor
              /\ ipage' = Tail(ipage)
              /\ UNCHANGED ingress
    /\ UNCHANGED <<service, status, pc, once, stop, batch, active, todo, outcome, starts, crashes,
                   handled>>

Main == Collect \/ Dispatch \/ EndJob \/ Decide \/ ConfirmFresh \/ Persist \/ Drain \/ Finish

Next == \/ Service \/ StartUnreachable \/ Start \/ Main \/ RequestStop \/ Crash
        \/ IngressPoll \/ IngressEvent

Spec == Init /\ [][Next]_vars

\* The main thread goes on: every request and every job has a timeout.
FairSpec == Spec /\ WF_vars(Main)

-----------------------------------------------------------------------------
\* Every variable has its type; the queue never exceeds its capacity.
TypeOK ==
    /\ stream \in 1..MaxStreams
    /\ log \in Seq(1..MaxEvents) /\ Len(log) <= MaxEvents
    /\ oldest \in 1..MaxEvents
    /\ status \in {{}} \cup {{p} : p \in Pair}
    /\ pc \in {"down", "collect", "dispatch", "job", "decide", "fresh", "drain"}
    /\ {once, stop} \subseteq BOOLEAN
    /\ mem \in [stream : SUBSET (1..MaxStreams), cursor : 0..MaxEvents, gen : 0..MaxEvents]
    /\ batch \in Seq(Event) /\ ipage \in Seq(Event) /\ queue \in Seq(Event)
    /\ Len(queue) <= Capacity
    /\ active \in {{}} \cup {{g} : g \in 1..MaxEvents}
    /\ todo \in 0..Triggers
    /\ outcome \in Range(Outcomes)
    /\ ingress \in {"off", "on", "failed"}
    /\ icursor \in 0..MaxEvents
    /\ starts \in 0..MaxStarts /\ crashes \in 0..MaxCrashes
    /\ handled \cup cause \subseteq (1..MaxStreams) \X (1..MaxEvents)

\* Whatever crashes, resets and restarts there were, the status file counts an
\* event only if its handling was acknowledged or the ingress cancelled a job
\* for it or for a later event.
SkippedOnlyBySupersession ==
    \A a \in status : \A s \in a.stream : \A c \in 1..a.cursor :
        \/ <<s, c>> \in handled
        \/ \E d \in c..MaxEvents : <<s, d>> \in cause

\* No event is lost between the threads: what is dispatched, queued and polled
\* are the consecutive events up to the ingress cursor, and as long as no job
\* was cancelled they begin right after the acknowledged cursor.
NothingDropped ==
    LET held == batch \o queue IN
    pc \notin {"down", "collect"} =>
        /\ \A k \in DOMAIN held : held[k].cursor = icursor - Len(held) + k
        /\ \A k \in DOMAIN ipage : ipage[k].cursor = icursor + k
        /\ cause = {} => icursor = mem.cursor + Len(held)

\* A supervisor asked to stop stops: no job, queue or ingress keeps it.
StopRequestEnds == stop ~> pc = "down"

=============================================================================
