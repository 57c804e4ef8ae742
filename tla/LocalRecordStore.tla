-------------------------- MODULE LocalRecordStore --------------------------
(***************************************************************************)
(* The journaled filesystem record store (record_store.py over ledger.py). *)
(* One commit publishes an immutable record file and one ledger entry      *)
(* through a transaction directory that holds a staged record, a staged    *)
(* ledger and a journal; every publication is one durable rename, and the  *)
(* process may die, or a system call fail, before any of them.  Whoever    *)
(* next takes the ledger lock first replays or abandons what it finds      *)
(* under transactions/.                                                    *)
(*                                                                         *)
(* Every operation runs inside "with self.lock" and keeps nothing between  *)
(* two of them but the disk (the ledger cache is keyed by the digest of    *)
(* the bytes just read), so the locals below are those of the critical     *)
(* section in progress, whichever process runs it.                         *)
(*                                                                         *)
(* A file is the set of its contents: {} when absent, {c} when it holds c. *)
(* The SHA-256 of a ledger is the ledger itself (no collisions), so the    *)
(* hash chain of an entry is the prefix before it.                         *)
(***************************************************************************)
EXTENDS Naturals, Sequences

CONSTANTS Ids,          \* record identities: ledger kind plus identity field
          Contents,     \* canonical record bytes
          TxIds,        \* names of transaction directories (uuid4)
          MaxCrashes    \* bound: interrupted critical sections in a run

ASSUME CrashBound == MaxCrashes \in Nat

VARIABLES files,    \* immutable_record_path of each identity
          ledger,   \* ledger.jsonl
          index,    \* ledger-index.json: the ledger it was derived from
          txs,      \* the transactions directory
          pc,       \* where the holder of ledger.lock is; "idle": lock free
          op,       \* "commit", or "open" for recover()
          rec,      \* the record being committed
          cur,      \* the transaction directory being worked on
          before,   \* ledger_before of the running commit
          own,      \* cur was created by the running commit
          acked, rejected, failed,   \* what callers were told so far
          crashes

disk    == <<files, ledger, index, txs>>
locals  == <<op, rec, cur, before, own>>
replies == <<acked, rejected, failed>>
vars    == <<disk, pc, locals, replies, crashes>>

Record  == [id : Ids, val : Contents]
Ledger  == Seq(Record)
Journal == [state : {"PREPARED", "COMMITTED"}, rec : Record, before : Ledger]
TxDir   == [exists : BOOLEAN, record : SUBSET Contents,
            ledger : SUBSET Ledger, journal : SUBSET Journal]
NoDir   == [exists |-> FALSE, record |-> {}, ledger |-> {}, journal |-> {}]
Labels  == {"idle", "recover", "replay", "lookup", "stage_record", "stage_ledger",
            "prepare", "publish_record", "publish_ledger", "mark", "index",
            "rmtree", "verify"}

\* Errors that say the directory is neither the old nor the new state.
StorageErrors == {"RECOVERY_AMBIGUOUS", "RECOVERY_STAGE_MISMATCH",
                  "RECOVERY_LEDGER_CONFLICT", "RECORD_STORAGE_CONFLICT",
                  "TRANSACTION_LEDGER_CONFLICT", "RECORD_FILE_MISMATCH"}

\* The positions of l that hold identity i (commit's "existing").
Existing(l, i) == {n \in DOMAIN l : l[n].id = i}

\* _require_recovered_unlocked: no transaction directory is left.
Recovered == \A t \in TxIds : ~txs[t].exists

Init ==
    /\ files = [i \in Ids |-> {}]
    /\ ledger = <<>>
    /\ index = {}
    /\ txs = [t \in TxIds |-> NoDir]
    /\ pc = "idle"
    /\ op = "open" /\ rec \in Record /\ cur \in TxIds /\ before = <<>> /\ own = FALSE
    /\ acked = {} /\ rejected = {} /\ failed = {}
    /\ crashes = 0

-----------------------------------------------------------------------------
\* Leave the critical section with an error.
Raise(e) ==
    /\ pc' = "idle"
    /\ failed' = failed \cup {e}
    /\ UNCHANGED <<disk, locals, acked, rejected, crashes>>

\* "with self.lock": commit(record) and recover() both replay first.
Enter(o, r) ==
    /\ pc = "idle"
    /\ pc' = "recover" /\ op' = o /\ rec' = r
    /\ UNCHANGED <<disk, cur, before, own, replies, crashes>>

CommitCall == \E r \in Record : Enter("commit", r)
RecoverCall == Enter("open", rec)

\* Bug: a prepared transaction is abandoned instead of replayed.
Scan_AbandonsPrepared ==
    /\ pc = "recover"
    /\ \/ \E t \in TxIds :
            /\ txs[t].exists
            /\ cur' = t /\ own' = FALSE
            /\ pc' = IF \E j \in txs[t].journal : j.state = "COMMITTED"
                       THEN "replay" ELSE "rmtree"
       \/ /\ Recovered
          /\ pc' = IF op = "open" THEN "verify" ELSE "lookup"
          /\ UNCHANGED <<cur, own>>
    /\ UNCHANGED <<disk, op, rec, before, replies, crashes>>

\* Bug: unfinished transactions are left for later.
Scan_Postpones ==
    /\ pc = "recover"
    /\ pc' = IF op = "open" THEN "verify" ELSE "lookup"
    /\ UNCHANGED <<disk, locals, replies, crashes>>

\* One turn of _recover_unlocked: a directory without a journal is abandoned,
\* one with a journal is replayed, and when none is left the caller goes on.
Scan ==
    /\ pc = "recover"
    /\ \/ \E t \in TxIds :
            /\ txs[t].exists
            /\ cur' = t /\ own' = FALSE
            /\ pc' = IF txs[t].journal = {} THEN "rmtree" ELSE "replay"
       \/ /\ Recovered
          /\ pc' = IF op = "open" THEN "verify" ELSE "lookup"
          /\ UNCHANGED <<cur, own>>
    /\ UNCHANGED <<disk, op, rec, before, replies, crashes>>

\* Bug: a duplicate identity is acknowledged whatever its content.
ResolveDuplicate_AnyContent ==
    /\ pc = "lookup"
    /\ files[rec.id] # {} \/ Existing(ledger, rec.id) # {}
    /\ pc' = "idle"
    /\ acked' = acked \cup {rec}
    /\ UNCHANGED <<disk, locals, rejected, failed, crashes>>

\* The identity is already stored: _resolve_duplicate.
ResolveDuplicate ==
    LET existing == Existing(ledger, rec.id) IN
    /\ pc = "lookup"
    /\ files[rec.id] # {} \/ existing # {}
    /\ IF files[rec.id] = {} \/ ~\E n \in existing : existing = {n}
         THEN Raise("RECORD_STORAGE_CONFLICT")
         ELSE /\ pc' = "idle"
              /\ IF files[rec.id] = {rec.val} /\ \A n \in existing : ledger[n] = rec
                   THEN acked' = acked \cup {rec} /\ UNCHANGED rejected
                   ELSE rejected' = rejected \cup {rec} /\ UNCHANGED acked
              /\ UNCHANGED <<disk, locals, failed, crashes>>

\* The identity is new: snapshot the ledger and create the transaction directory.
MakeTransaction ==
    /\ pc = "lookup"
    /\ files[rec.id] = {} /\ Existing(ledger, rec.id) = {}
    /\ \E t \in TxIds :
         /\ ~txs[t].exists
         /\ txs' = [txs EXCEPT ![t].exists = TRUE]
         /\ cur' = t
    /\ own' = TRUE /\ before' = ledger
    /\ pc' = "stage_record"
    /\ UNCHANGED <<files, ledger, index, op, rec, replies, crashes>>

\* A durable step of the holder that only changes its transaction directory.
InDirectory(from, to, dir) ==
    /\ pc = from /\ pc' = to
    /\ txs' = [txs EXCEPT ![cur] = dir]
    /\ UNCHANGED <<files, ledger, index, locals, replies, crashes>>

StageRecord ==
    InDirectory("stage_record", "stage_ledger", [txs[cur] EXCEPT !.record = {rec.val}])

StageLedger ==
    InDirectory("stage_ledger", "prepare",
                [txs[cur] EXCEPT !.ledger = {Append(before, rec)}])

\* Bug: the journal is written as COMMITTED before anything is published.
Prepare_TooSoon ==
    InDirectory("prepare", "publish_record",
                [txs[cur] EXCEPT !.journal =
                    {[state |-> "COMMITTED", rec |-> rec, before |-> before]}])

Prepare ==
    InDirectory("prepare", "publish_record",
                [txs[cur] EXCEPT !.journal =
                    {[state |-> "PREPARED", rec |-> rec, before |-> before]}])

\* os.replace(record_stage, destination) of the record with identity i.
ReplaceRecord(i) ==
    /\ files' = [files EXCEPT ![i] = txs[cur].record]
    /\ txs' = [txs EXCEPT ![cur].record = {}]
    /\ UNCHANGED <<ledger, index>>

\* os.replace(ledger_stage, ledger.path).
ReplaceLedger ==
    /\ ledger' \in txs[cur].ledger
    /\ txs' = [txs EXCEPT ![cur].ledger = {}]
    /\ UNCHANGED <<files, index>>

PublishRecord ==
    /\ pc = "publish_record" /\ pc' = "publish_ledger"
    /\ ReplaceRecord(rec.id)
    /\ UNCHANGED <<locals, replies, crashes>>

\* _assert_expected_ledger, then the rename that commits the record.
PublishLedger ==
    /\ pc = "publish_ledger"
    /\ IF ledger # before
         THEN Raise("TRANSACTION_LEDGER_CONFLICT")
         ELSE /\ pc' = "mark"
              /\ ReplaceLedger
              /\ UNCHANGED <<locals, replies, crashes>>

MarkCommitted ==
    InDirectory("mark", "index",
                [txs[cur] EXCEPT !.journal =
                    {[j EXCEPT !.state = "COMMITTED"] : j \in txs[cur].journal}])

\* Bug: the index is derived from the ledger read before the append.
RebuildIndex_Before ==
    /\ pc = "index" /\ pc' = "rmtree"
    /\ index' = {before}
    /\ UNCHANGED <<files, ledger, txs, locals, replies, crashes>>

RebuildIndex ==
    /\ pc = "index" /\ pc' = "rmtree"
    /\ index' = {ledger}
    /\ UNCHANGED <<files, ledger, txs, locals, replies, crashes>>

\* _cleanup_transaction_unlocked removes the files one by one, then the
\* directory; a commit then returns its entry, a recovery looks for more.
RemoveFile ==
    /\ pc = "rmtree"
    /\ \E d \in {[txs[cur] EXCEPT !.record = {}], [txs[cur] EXCEPT !.ledger = {}],
                 [txs[cur] EXCEPT !.journal = {}]} :
         d # txs[cur] /\ txs' = [txs EXCEPT ![cur] = d]
    /\ UNCHANGED <<files, ledger, index, pc, locals, replies, crashes>>

RemoveDirectory ==
    /\ pc = "rmtree"
    /\ txs[cur] = [NoDir EXCEPT !.exists = TRUE]
    /\ txs' = [txs EXCEPT ![cur] = NoDir]
    /\ IF own THEN pc' = "idle" /\ acked' = acked \cup {rec}
              ELSE pc' = "recover" /\ UNCHANGED acked
    /\ UNCHANGED <<files, ledger, index, locals, rejected, failed, crashes>>

-----------------------------------------------------------------------------
\* _validate_recovery_file: the file is there and has the journaled digest.
FileError(file, content) ==
    IF file = {content} THEN {}
    ELSE IF file = {} THEN {"RECOVERY_AMBIGUOUS"} ELSE {"RECOVERY_STAGE_MISMATCH"}

\* What _recover_transaction_unlocked raises for journal j, in its order.
ReplayErrors(j) ==
    LET final == files[j.rec.id]
        after == Append(j.before, j.rec)
        record == FileError(IF final # {} THEN final ELSE txs[cur].record, j.rec.val)
    IN IF record # {} THEN record
       ELSE IF ledger = j.before
              THEN IF j.state = "COMMITTED" THEN {"RECOVERY_AMBIGUOUS"}
                   ELSE FileError(txs[cur].ledger, after)
       ELSE IF ledger # after THEN {"RECOVERY_LEDGER_CONFLICT"}
       ELSE IF final = {} THEN {"RECOVERY_AMBIGUOUS"} ELSE {}

\* One durable step of replaying a journal: publish the record, publish the
\* ledger, or find both published.
Replay ==
    /\ pc = "replay"
    /\ \E j \in txs[cur].journal :
         IF ReplayErrors(j) # {}
           THEN \E e \in ReplayErrors(j) : Raise(e)
           ELSE /\ \/ /\ ledger = j.before /\ files[j.rec.id] = {}
                      /\ ReplaceRecord(j.rec.id) /\ UNCHANGED pc
                   \/ /\ ledger = j.before /\ files[j.rec.id] # {}
                      /\ ReplaceLedger /\ UNCHANGED pc
                   \/ /\ ledger # j.before
                      /\ pc' = "mark" /\ UNCHANGED disk
                /\ UNCHANGED <<locals, replies, crashes>>

\* recover() ends by verifying every companion and refreshing an index it finds.
Verify ==
    /\ pc = "verify"
    /\ IF \E n \in DOMAIN ledger : files[ledger[n].id] # {ledger[n].val}
         THEN Raise("RECORD_FILE_MISMATCH")
         ELSE /\ pc' = "idle"
              /\ index' = IF index = {} THEN {} ELSE {ledger}
              /\ UNCHANGED <<files, ledger, txs, locals, replies, crashes>>

\* The holder dies or a system call fails: the lock is released by the OS or
\* by "with", nothing on disk is undone.
Interrupt ==
    /\ pc # "idle" /\ crashes < MaxCrashes
    /\ pc' = "idle"
    /\ crashes' = crashes + 1
    /\ UNCHANGED <<disk, locals, replies>>

Step == \/ Scan \/ ResolveDuplicate \/ MakeTransaction \/ StageRecord \/ StageLedger
        \/ Prepare \/ PublishRecord \/ PublishLedger \/ MarkCommitted \/ RebuildIndex
        \/ RemoveFile \/ RemoveDirectory \/ Replay \/ Verify

Next == CommitCall \/ RecoverCall \/ Step \/ Interrupt

Spec == Init /\ [][Next]_vars

\* A process that holds the lock keeps running, and the project is opened
\* again after a crash (every Forge construction calls recover()).
FairSpec == Spec /\ WF_vars(Step) /\ WF_vars(RecoverCall)

-----------------------------------------------------------------------------
\* Every variable has its type.
TypeOK ==
    /\ files \in [Ids -> SUBSET Contents]
    /\ ledger \in Ledger
    /\ index \in SUBSET Ledger
    /\ txs \in [TxIds -> TxDir]
    /\ pc \in Labels
    /\ op \in {"commit", "open"} /\ rec \in Record /\ cur \in TxIds
    /\ before \in Ledger /\ own \in BOOLEAN
    /\ acked \in SUBSET Record /\ rejected \in SUBSET Record
    /\ failed \in SUBSET StorageErrors
    /\ crashes \in 0..MaxCrashes

\* A reader that _require_recovered_unlocked lets through sees the complete old
\* or the complete new state: the record files are exactly the ledger's entries,
\* whatever commit or recovery was interrupted, however often, before.
CompleteOldOrNew ==
    Recovered => /\ \A n \in DOMAIN ledger : files[ledger[n].id] = {ledger[n].val}
                 /\ \A i \in Ids : files[i] # {} => Existing(ledger, i) # {}

\* No interruption point leaves a journal that recovery, a later commit or the
\* companion check of recover() refuses: the store never needs manual repair.
NeverWedged == failed = {}

\* Once no transaction is left the derived index is absent or bound to the
\* ledger: a crash between the ledger rename and the index write is repaired
\* before the journal that remembers it is removed.
IndexBound == Recovered => index \in {{}, {ledger}}

\* A transaction whose journal became durable is finished by whoever opens the
\* store next, although its writer was told nothing.
PreparedIsFinished ==
    \A r \in Record :
        (\E t \in TxIds : \E j \in txs[t].journal : j.rec = r)
            ~> (\E n \in DOMAIN ledger : ledger[n] = r) /\ Recovered

\* The abstract record log this store implements.
Log == INSTANCE RecordLog WITH log <- ledger

\* A commit is one atomic append of a fresh identity, an acknowledged record
\* stays in the log, and RECORD_EXISTS means a conflicting record is there.
ImplementsRecordLog == Log!Spec
=============================================================================
