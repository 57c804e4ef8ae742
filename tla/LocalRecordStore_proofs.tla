----------------------- MODULE LocalRecordStore_proofs -----------------------
(***************************************************************************)
(* For every set of identities, contents and transaction names and every   *)
(* number of crashes: the type invariant, the inductive invariant that     *)
(* classifies what an interruption can leave on disk, the storage safety   *)
(* properties that follow from it, and that the store implements RecordLog. *)
(***************************************************************************)
EXTENDS LocalRecordStore, TLAPS

\* No ledger entry has identity i.
Absent(i) == \A n \in DOMAIN ledger : ledger[n].id # i

\* Identity i has no record file, or an entry of the ledger accounts for it.
Accounted(i) == files[i] # {} => ~Absent(i)

AllAccounted == \A i \in Ids : Accounted(i)

\* Every entry has its record file, and no identity has two entries.
LedgerInv ==
    /\ \A n \in DOMAIN ledger : files[ledger[n].id] = {ledger[n].val}
    /\ \A m, n \in DOMAIN ledger : ledger[m].id = ledger[n].id => m = n

\* The shapes of what a process that dies leaves behind: nothing, or one
\* directory that is not yet (or no longer) journaled, journaled but not in the
\* ledger, or published.
Clean == (\A t \in TxIds : txs[t] = NoDir) /\ AllAccounted

Only(t) == txs[t].exists /\ \A u \in TxIds : u # t => txs[u] = NoDir

Unjournaled(t) == txs[t].journal = {} /\ AllAccounted

Prepared(t, j) ==
    /\ txs[t].journal = {j} /\ j.state = "PREPARED"
    /\ ledger = j.before /\ Absent(j.rec.id)
    /\ txs[t].ledger = {Append(j.before, j.rec)}
    /\ \/ files[j.rec.id] = {} /\ txs[t].record = {j.rec.val}
       \/ files[j.rec.id] = {j.rec.val} /\ txs[t].record = {}
    /\ \A i \in Ids : i # j.rec.id => Accounted(i)

Published(t, j) ==
    /\ txs[t].journal = {j}
    /\ ledger = Append(j.before, j.rec)
    /\ txs[t].record = {} /\ txs[t].ledger = {}
    /\ AllAccounted

Shape(t) == Unjournaled(t) \/ \E j \in txs[t].journal : Prepared(t, j) \/ Published(t, j)

DirInv == Clean \/ \E t \in TxIds : Only(t) /\ Shape(t)

\* The journal the running commit writes.
Mine == [state |-> "PREPARED", rec |-> rec, before |-> before]

Staging == /\ Unjournaled(cur) /\ own
           /\ before = ledger /\ Absent(rec.id) /\ files[rec.id] = {}

\* Where the lock holder is determines the shape of its directory.
ControlInv ==
    /\ pc \in {"lookup", "verify"} => Clean
    /\ pc \notin {"idle", "recover", "lookup", "verify"} => Only(cur)
    /\ pc = "stage_record" => Staging
    /\ pc = "stage_ledger" => Staging /\ txs[cur].record = {rec.val}
    /\ pc = "prepare" => /\ Staging /\ txs[cur].record = {rec.val}
                         /\ txs[cur].ledger = {Append(before, rec)}
    /\ pc = "publish_record" => Prepared(cur, Mine) /\ own /\ files[rec.id] = {}
    /\ pc = "publish_ledger" => Prepared(cur, Mine) /\ own /\ files[rec.id] = {rec.val}
    /\ pc = "replay" => txs[cur].journal # {} /\ ~own
    /\ pc \in {"mark", "index"} => \E j \in txs[cur].journal : Published(cur, j)
    /\ pc = "rmtree" => Unjournaled(cur) \/ \E j \in txs[cur].journal : Published(cur, j)
    /\ pc \in {"mark", "index", "rmtree"} /\ own => \E n \in DOMAIN ledger : ledger[n] = rec

\* The index lags behind the ledger only while a journal remembers it.
Remembered == \E t \in TxIds : Only(t) /\ \E j \in txs[t].journal : Published(t, j)

IndexInv ==
    /\ pc = "rmtree" => index \in {{}, {ledger}}
    /\ index \in {{}, {ledger}} \/ Remembered

IInv == TypeOK /\ LedgerInv /\ DirInv /\ ControlInv /\ IndexInv /\ failed = {}

-----------------------------------------------------------------------------
(* Types.                                                                  *)

LEMMA InitType == Init => TypeOK
  <1> SUFFICES ASSUME Init PROVE TypeOK
    OBVIOUS
  <1>1. NoDir \in TxDir
    BY DEF NoDir, TxDir
  <1>2. txs \in [TxIds -> TxDir]
    BY <1>1 DEF Init
  <1>3. ledger \in Ledger /\ before \in Ledger /\ index \in SUBSET Ledger
    BY DEF Init, Ledger
  <1>4. files \in [Ids -> SUBSET Contents]
    BY DEF Init
  <1>5. crashes \in 0..MaxCrashes
    BY CrashBound DEF Init
  <1> QED
    BY <1>2, <1>3, <1>4, <1>5 DEF Init, TypeOK, Labels

\* A transaction directory keeps its type through each of its updates.
LEMMA DirTypes ==
    ASSUME NEW d \in TxDir, NEW r \in SUBSET Contents, NEW l \in SUBSET Ledger,
           NEW j \in SUBSET Journal
    PROVE  /\ [d EXCEPT !.exists = TRUE] \in TxDir
           /\ [d EXCEPT !.record = r] \in TxDir
           /\ [d EXCEPT !.ledger = l] \in TxDir
           /\ [d EXCEPT !.journal = j] \in TxDir
           /\ NoDir \in TxDir
  BY DEF TxDir, NoDir

LEMMA StepType == TypeOK /\ [Next]_vars => TypeOK'
  <1> SUFFICES ASSUME TypeOK, [Next]_vars PROVE TypeOK'
    OBVIOUS
  <1> USE CrashBound
  <1>1. CASE UNCHANGED vars
    BY <1>1 DEF vars, disk, locals, replies, TypeOK
  <1>2. CASE CommitCall
    BY <1>2 DEF CommitCall, Enter, TypeOK, Labels, disk, replies
  <1>3. CASE RecoverCall
    BY <1>3 DEF RecoverCall, Enter, TypeOK, Labels, disk, replies
  <1>4. CASE Scan
    BY <1>4 DEF Scan, TypeOK, Labels, disk, replies
  <1>5. CASE ResolveDuplicate
    BY <1>5 DEF ResolveDuplicate, Raise, TypeOK, Labels, StorageErrors, disk, locals
  <1>6. CASE MakeTransaction
    <2>1. PICK t \in TxIds : /\ txs' = [txs EXCEPT ![t] = [txs[t] EXCEPT !.exists = TRUE]]
                             /\ cur' = t
      BY <1>6 DEF MakeTransaction
    <2>2. [txs[t] EXCEPT !.exists = TRUE] \in TxDir
      BY DirTypes DEF TypeOK
    <2>3. txs' \in [TxIds -> TxDir]
      BY <2>1, <2>2 DEF TypeOK
    <2> QED
      BY <1>6, <2>1, <2>3 DEF MakeTransaction, TypeOK, Labels, replies
  <1>7. CASE StageRecord
    <2>1. {rec.val} \in SUBSET Contents
      BY DEF TypeOK, Record
    <2>2. [txs[cur] EXCEPT !.record = {rec.val}] \in TxDir
      BY <2>1, DirTypes DEF TypeOK
    <2> QED
      BY <1>7, <2>2 DEF StageRecord, InDirectory, TypeOK, Labels, locals, replies
  <1>8. CASE StageLedger
    <2>1. {Append(before, rec)} \in SUBSET Ledger
      BY DEF TypeOK, Ledger
    <2>2. [txs[cur] EXCEPT !.ledger = {Append(before, rec)}] \in TxDir
      BY <2>1, DirTypes DEF TypeOK
    <2> QED
      BY <1>8, <2>2 DEF StageLedger, InDirectory, TypeOK, Labels, locals, replies
  <1>9. CASE Prepare
    <2>1. {[state |-> "PREPARED", rec |-> rec, before |-> before]} \in SUBSET Journal
      BY DEF TypeOK, Journal
    <2>2. [txs[cur] EXCEPT !.journal =
             {[state |-> "PREPARED", rec |-> rec, before |-> before]}] \in TxDir
      BY <2>1, DirTypes DEF TypeOK
    <2> QED
      BY <1>9, <2>2 DEF Prepare, InDirectory, TypeOK, Labels, locals, replies
  <1>10. CASE PublishRecord
    BY <1>10 DEF PublishRecord, ReplaceRecord, TypeOK, TxDir, Record, Labels, locals, replies
  <1>11. CASE PublishLedger
    BY <1>11 DEF PublishLedger, ReplaceLedger, Raise, TypeOK, TxDir, Labels, StorageErrors,
                 disk, locals, replies
  <1>12. CASE MarkCommitted
    <2>1. {[j EXCEPT !.state = "COMMITTED"] : j \in txs[cur].journal} \in SUBSET Journal
      BY DEF TypeOK, TxDir, Journal
    <2>2. [txs[cur] EXCEPT !.journal =
             {[j EXCEPT !.state = "COMMITTED"] : j \in txs[cur].journal}] \in TxDir
      BY <2>1, DirTypes DEF TypeOK
    <2> QED
      BY <1>12, <2>2 DEF MarkCommitted, InDirectory, TypeOK, Labels, locals, replies
  <1>13. CASE RebuildIndex
    BY <1>13 DEF RebuildIndex, TypeOK, Labels, locals, replies
  <1>14. CASE RemoveFile
    <2>1. \A d \in {[txs[cur] EXCEPT !.record = {}], [txs[cur] EXCEPT !.ledger = {}],
                    [txs[cur] EXCEPT !.journal = {}]} : d \in TxDir
      <3>1. txs[cur] \in TxDir
        BY DEF TypeOK
      <3> QED
        BY <3>1 DEF TxDir
    <2> QED
      BY <1>14, <2>1 DEF RemoveFile, TypeOK, Labels, locals, replies
  <1>15. CASE RemoveDirectory
    BY <1>15, DirTypes DEF RemoveDirectory, TypeOK, Labels, locals
  <1>16. CASE Replay
    <2>1. PICK j \in txs[cur].journal :
            \/ \E e \in ReplayErrors(j) : Raise(e)
            \/ /\ \/ ReplaceRecord(j.rec.id) /\ UNCHANGED pc
                  \/ ReplaceLedger /\ UNCHANGED pc
                  \/ pc' = "mark" /\ UNCHANGED disk
               /\ UNCHANGED <<locals, replies, crashes>>
      BY <1>16 DEF Replay
    <2>2. ReplayErrors(j) \subseteq StorageErrors
      BY DEF ReplayErrors, FileError, StorageErrors
    <2>3. CASE \E e \in ReplayErrors(j) : Raise(e)
      BY <2>2, <2>3 DEF Raise, TypeOK, Labels, disk, locals
    <2>4. CASE ReplaceRecord(j.rec.id) /\ UNCHANGED <<pc, locals, replies, crashes>>
      BY <2>4 DEF ReplaceRecord, TypeOK, TxDir, Labels, locals, replies
    <2>5. CASE ReplaceLedger /\ UNCHANGED <<pc, locals, replies, crashes>>
      BY <2>5 DEF ReplaceLedger, TypeOK, TxDir, Labels, locals, replies
    <2>6. CASE pc' = "mark" /\ UNCHANGED <<disk, locals, replies, crashes>>
      BY <2>6 DEF TypeOK, Labels, disk, locals, replies
    <2> QED
      BY <2>1, <2>3, <2>4, <2>5, <2>6
  <1>17. CASE Verify
    <2>1. CASE Raise("RECORD_FILE_MISMATCH")
      BY <2>1 DEF Raise, TypeOK, Labels, StorageErrors, disk, locals
    <2>2. CASE /\ pc' = "idle" /\ index' = IF index = {} THEN {} ELSE {ledger}
               /\ UNCHANGED <<files, ledger, txs, locals, replies, crashes>>
      BY <2>2 DEF TypeOK, Labels, locals, replies
    <2> QED
      BY <1>17, <2>1, <2>2 DEF Verify
  <1>18. CASE Interrupt
    BY <1>18 DEF Interrupt, TypeOK, Labels, disk, locals, replies
  <1> QED
    BY <1>1, <1>2, <1>3, <1>4, <1>5, <1>6, <1>7, <1>8, <1>9, <1>10, <1>11, <1>12, <1>13,
       <1>14, <1>15, <1>16, <1>17, <1>18 DEF Next, Step

\* Every variable of the store keeps its type, for every instance: in
\* particular only the documented storage errors are ever raised, and a journal
\* only ever says PREPARED or COMMITTED (record_store.py _load_journal).
THEOREM StoreTypes == Spec => []TypeOK
  BY InitType, StepType, PTL DEF Spec

-----------------------------------------------------------------------------
(* The inductive invariant.                                                *)

LEMMA AppendFacts ==
    ASSUME NEW l \in Ledger, NEW r \in Record
    PROVE  /\ Append(l, r) \in Ledger /\ Append(l, r) # l
           /\ DOMAIN Append(l, r) = DOMAIN l \cup {Len(l) + 1}
           /\ Len(l) + 1 \notin DOMAIN l
           /\ Append(l, r)[Len(l) + 1] = r
           /\ \A n \in DOMAIN l : Append(l, r)[n] = l[n]
  BY DEF Ledger

LEMMA EntryTypes ==
    ASSUME NEW l \in Ledger
    PROVE  \A n \in DOMAIN l : l[n] \in Record /\ l[n].id \in Ids
  <1>1. \A n \in DOMAIN l : l[n] \in Record
    BY DEF Ledger
  <1> QED
    BY <1>1 DEF Record

\* A step that leaves files, ledger and directories alone leaves shapes alone.
LEMMA SameDisk ==
    ASSUME UNCHANGED <<files, ledger, txs>>
    PROVE  /\ LedgerInv => LedgerInv'
           /\ AllAccounted' <=> AllAccounted
           /\ Clean' <=> Clean
           /\ \A i : Absent(i)' <=> Absent(i)
           /\ \A t : Only(t)' <=> Only(t)
           /\ \A t : Unjournaled(t)' <=> Unjournaled(t)
           /\ \A t, j : Prepared(t, j)' <=> Prepared(t, j)
           /\ \A t, j : Published(t, j)' <=> Published(t, j)
           /\ DirInv => DirInv'
           /\ Remembered' <=> Remembered
  <1>1. LedgerInv => LedgerInv'
    BY DEF LedgerInv
  <1>2. \A i : Absent(i)' <=> Absent(i)
    BY DEF Absent
  <1>3. \A i : Accounted(i)' <=> Accounted(i)
    BY <1>2 DEF Accounted
  <1>4. AllAccounted' <=> AllAccounted
    BY <1>3 DEF AllAccounted
  <1>5. Clean' <=> Clean
    BY <1>4 DEF Clean
  <1>6. \A t : Only(t)' <=> Only(t)
    BY DEF Only
  <1>7. \A t : Unjournaled(t)' <=> Unjournaled(t)
    BY <1>4 DEF Unjournaled
  <1>8. \A t, j : Prepared(t, j)' <=> Prepared(t, j)
    BY <1>2, <1>3 DEF Prepared
  <1>9. \A t, j : Published(t, j)' <=> Published(t, j)
    BY <1>4 DEF Published
  <1>10. \A t : Shape(t)' <=> Shape(t)
    BY <1>7, <1>8, <1>9 DEF Shape
  <1> QED
    BY <1>1, <1>2, <1>4, <1>5, <1>6, <1>7, <1>8, <1>9, <1>10
    DEF DirInv, Remembered

\* A step that leaves files and ledger alone leaves their relation alone.
LEMMA SameLedger ==
    ASSUME UNCHANGED <<files, ledger>>
    PROVE  /\ LedgerInv => LedgerInv'
           /\ AllAccounted' <=> AllAccounted
           /\ \A i : Absent(i)' <=> Absent(i)
           /\ \A i : Accounted(i)' <=> Accounted(i)
  BY DEF LedgerInv, AllAccounted, Accounted, Absent

\* An existing directory is the only one and has one of the three shapes.
LEMMA ExistingDir ==
    ASSUME TypeOK, DirInv, NEW t \in TxIds, txs[t].exists
    PROVE  Only(t) /\ Shape(t)
  <1>1. ~Clean
    BY DEF Clean, NoDir
  <1>2. PICK u \in TxIds : Only(u) /\ Shape(u)
    BY <1>1 DEF DirInv
  <1>3. u = t
    BY <1>2 DEF Only, NoDir
  <1> QED
    BY <1>2, <1>3

LEMMA RecoveredIsClean ==
    ASSUME DirInv, Recovered
    PROVE  Clean
  BY DEF DirInv, Recovered, Only

\* Entering the critical section, leaving it, or dying in it.
LEMMA EnterInv == IInv /\ (CommitCall \/ RecoverCall \/ Interrupt) => IInv'
  <1> SUFFICES ASSUME IInv, CommitCall \/ RecoverCall \/ Interrupt PROVE IInv'
    OBVIOUS
  <1>1. TypeOK'
    BY StepType DEF IInv, Next
  <1>2. UNCHANGED <<files, ledger, txs, index, failed>> /\ pc' \in {"idle", "recover"}
    BY DEF CommitCall, RecoverCall, Interrupt, Enter, disk, replies
  <1>3. LedgerInv' /\ DirInv' /\ IndexInv'
    BY <1>2, SameDisk DEF IInv, IndexInv
  <1>4. ControlInv'
    BY <1>2 DEF ControlInv
  <1> QED
    BY <1>1, <1>2, <1>3, <1>4 DEF IInv

LEMMA ScanInv == IInv /\ Scan => IInv'
  <1> SUFFICES ASSUME IInv, Scan PROVE IInv'
    OBVIOUS
  <1>1. TypeOK'
    BY StepType DEF IInv, Next, Step
  <1>2. UNCHANGED <<files, ledger, txs, index, failed>>
    BY DEF Scan, disk, replies
  <1>3. LedgerInv' /\ DirInv' /\ (index' \in {{}, {ledger'}} \/ Remembered')
    BY <1>2, SameDisk DEF IInv, IndexInv
  <1>4. CASE \E t \in TxIds : /\ txs[t].exists /\ cur' = t /\ own' = FALSE
                              /\ pc' = IF txs[t].journal = {} THEN "rmtree" ELSE "replay"
    <2>1. PICK t \in TxIds : /\ txs[t].exists /\ cur' = t /\ own' = FALSE
                             /\ pc' = IF txs[t].journal = {} THEN "rmtree" ELSE "replay"
      BY <1>4
    <2>2. Only(t) /\ Shape(t)
      BY <2>1, ExistingDir DEF IInv
    <2>3. Only(t)'
      BY <1>2, <2>2, SameDisk
    <2>4. CASE txs[t].journal = {}
      <3>1. Unjournaled(t) /\ Unjournaled(t)'
        BY <1>2, <2>2, <2>4, SameDisk DEF Shape
      <3>2. ~Remembered
        BY <2>2, <2>4 DEF Remembered, Only, NoDir
      <3>3. ControlInv'
        BY <2>1, <2>3, <2>4, <3>1 DEF ControlInv
      <3>4. IndexInv'
        BY <1>2, <3>2 DEF IInv, IndexInv
      <3> QED
        BY <1>1, <1>2, <1>3, <3>3, <3>4 DEF IInv
    <2>5. CASE txs[t].journal # {}
      <3>1. ControlInv'
        BY <1>2, <2>1, <2>3, <2>5 DEF ControlInv
      <3> QED
        BY <1>1, <1>2, <1>3, <2>1, <2>5, <3>1 DEF IInv, IndexInv
    <2> QED
      BY <2>4, <2>5
  <1>5. CASE Recovered /\ pc' = IF op = "open" THEN "verify" ELSE "lookup"
    <2>1. Clean'
      BY <1>2, <1>5, RecoveredIsClean, SameDisk DEF IInv
    <2> QED
      BY <1>1, <1>2, <1>3, <1>5, <2>1 DEF IInv, ControlInv, IndexInv
  <1> QED
    BY <1>4, <1>5 DEF Scan

\* What the duplicate branch of a commit meets: one entry with its record file.
LEMMA DuplicateEntry ==
    ASSUME IInv, pc = "lookup", files[rec.id] # {} \/ Existing(ledger, rec.id) # {}
    PROVE  \E n \in DOMAIN ledger : /\ Existing(ledger, rec.id) = {n}
                                    /\ ledger[n].id = rec.id
                                    /\ files[rec.id] = {ledger[n].val}
  <1>1. AllAccounted /\ rec.id \in Ids
    BY DEF IInv, ControlInv, Clean, TypeOK, Record
  <1>2. PICK n \in DOMAIN ledger : ledger[n].id = rec.id
    BY <1>1 DEF AllAccounted, Accounted, Absent, Existing
  <1>3. Existing(ledger, rec.id) = {n}
    BY <1>2 DEF IInv, LedgerInv, Existing
  <1>4. files[rec.id] = {ledger[n].val}
    BY <1>2 DEF IInv, LedgerInv
  <1> QED
    BY <1>2, <1>3, <1>4

LEMMA ResolveDuplicateInv == IInv /\ ResolveDuplicate => IInv'
  <1> SUFFICES ASSUME IInv, ResolveDuplicate PROVE IInv'
    OBVIOUS
  <1>1. TypeOK'
    BY StepType DEF IInv, Next, Step
  <1>2. pc = "lookup" /\ (files[rec.id] # {} \/ Existing(ledger, rec.id) # {})
    BY DEF ResolveDuplicate
  <1>3. files[rec.id] # {} /\ \E n \in Existing(ledger, rec.id) : Existing(ledger, rec.id) = {n}
    BY <1>2, DuplicateEntry
  <1>4. UNCHANGED <<files, ledger, txs, index, failed>> /\ pc' = "idle"
    BY <1>3 DEF ResolveDuplicate, disk
  <1>5. LedgerInv' /\ DirInv' /\ IndexInv'
    BY <1>4, SameDisk DEF IInv, IndexInv
  <1>6. ControlInv'
    BY <1>4 DEF ControlInv
  <1> QED
    BY <1>1, <1>4, <1>5, <1>6 DEF IInv

LEMMA MakeTransactionInv == IInv /\ MakeTransaction => IInv'
  <1> SUFFICES ASSUME IInv, MakeTransaction PROVE IInv'
    OBVIOUS
  <1>1. TypeOK'
    BY StepType DEF IInv, Next, Step
  <1>2. UNCHANGED <<files, ledger, index, rec, failed>> /\ pc' = "stage_record" /\ own' /\ before' = ledger
    BY DEF MakeTransaction, replies
  <1>3. Clean
    BY DEF IInv, ControlInv, MakeTransaction
  <1>4. PICK t \in TxIds : txs' = [txs EXCEPT ![t].exists = TRUE] /\ cur' = t
    BY DEF MakeTransaction
  <1>5. txs'[t].exists /\ txs'[t].journal = {} /\ \A u \in TxIds : u # t => txs'[u] = NoDir
    BY <1>3, <1>4 DEF Clean, NoDir, IInv, TypeOK, TxDir
  <1>6. AllAccounted'
    BY <1>2, <1>3, SameLedger DEF Clean
  <1>7. Only(t)' /\ Unjournaled(t)'
    BY <1>5, <1>6 DEF Only, Unjournaled
  <1>8. Absent(rec.id)' /\ files'[rec'.id] = {}
    BY <1>2 DEF MakeTransaction, Existing, Absent
  <1>9. ControlInv'
    BY <1>2, <1>4, <1>7, <1>8 DEF ControlInv, Staging
  <1>10. ~Remembered
    BY <1>3 DEF Remembered, Clean, NoDir
  <1>11. LedgerInv' /\ DirInv' /\ IndexInv'
    BY <1>2, <1>7, <1>10, SameLedger DEF IInv, DirInv, Shape, IndexInv
  <1> QED
    BY <1>1, <1>2, <1>9, <1>11 DEF IInv

\* Before the journal is durable the directory holds whatever was staged.
LEMMA StageInv == IInv /\ (StageRecord \/ StageLedger) => IInv'
  <1> SUFFICES ASSUME IInv, StageRecord \/ StageLedger PROVE IInv'
    OBVIOUS
  <1>1. TypeOK'
    BY StepType DEF IInv, Next, Step
  <1>2. UNCHANGED <<files, ledger, index, rec, before, own, cur, failed>>
    BY DEF StageRecord, StageLedger, InDirectory, locals, replies
  <1>3. Staging /\ Only(cur) /\ Unjournaled(cur)
    BY DEF IInv, ControlInv, Staging, StageRecord, StageLedger, InDirectory
  <1>4. /\ txs'[cur].exists = txs[cur].exists /\ txs'[cur].journal = txs[cur].journal
        /\ \A u \in TxIds : u # cur => txs'[u] = txs[u]
    BY DEF StageRecord, StageLedger, InDirectory, IInv, TypeOK, TxDir
  <1>5. Only(cur)' /\ Unjournaled(cur)'
    BY <1>2, <1>3, <1>4, SameLedger DEF Only, Unjournaled
  <1>6. Staging'
    BY <1>2, <1>3, <1>5, SameLedger DEF Staging
  <1>7. ControlInv'
    <2>1. CASE StageRecord
      <3>1. pc' = "stage_ledger" /\ txs'[cur].record = {rec.val}
        BY <2>1 DEF StageRecord, InDirectory, IInv, TypeOK, TxDir
      <3> QED
        BY <1>2, <1>5, <1>6, <3>1 DEF ControlInv
    <2>2. CASE StageLedger
      <3>1. /\ pc' = "prepare" /\ txs'[cur].ledger = {Append(before, rec)}
            /\ txs'[cur].record = {rec.val}
        BY <2>2 DEF StageLedger, InDirectory, IInv, TypeOK, TxDir, ControlInv
      <3> QED
        BY <1>2, <1>5, <1>6, <3>1 DEF ControlInv
    <2> QED
      BY <2>1, <2>2
  <1>8. ~Remembered
    BY <1>3 DEF Remembered, Only, Unjournaled, NoDir
  <1>9. LedgerInv' /\ DirInv' /\ IndexInv'
    <2>1. pc' # "rmtree"
      BY DEF StageRecord, StageLedger, InDirectory
    <2>2. DirInv'
      BY <1>1, <1>5 DEF DirInv, Shape, TypeOK
    <2> QED
      BY <1>2, <1>8, <2>1, <2>2, SameLedger DEF IInv, IndexInv
  <1> QED
    BY <1>1, <1>2, <1>7, <1>9 DEF IInv

LEMMA PrepareInv == IInv /\ Prepare => IInv'
  <1> SUFFICES ASSUME IInv, Prepare PROVE IInv'
    OBVIOUS
  <1>1. TypeOK'
    BY StepType DEF IInv, Next, Step
  <1>2. /\ UNCHANGED <<files, ledger, index, rec, before, own, cur, failed>>
        /\ pc' = "publish_record"
    BY DEF Prepare, InDirectory, locals, replies
  <1>3. /\ Staging /\ Only(cur) /\ Unjournaled(cur) /\ txs[cur].record = {rec.val}
        /\ txs[cur].ledger = {Append(before, rec)}
    BY DEF IInv, ControlInv, Staging, Prepare, InDirectory
  <1>4. /\ txs'[cur].exists /\ txs'[cur].journal = {Mine}
        /\ txs'[cur].record = {rec.val} /\ txs'[cur].ledger = {Append(before, rec)}
        /\ \A u \in TxIds : u # cur => txs'[u] = txs[u]
    BY <1>3 DEF Prepare, InDirectory, IInv, TypeOK, TxDir, Only, Mine
  <1>5. Only(cur)'
    BY <1>2, <1>3, <1>4 DEF Only
  <1>6. Mine' = Mine /\ Mine.state = "PREPARED" /\ Mine.rec = rec /\ Mine.before = before
    BY <1>2 DEF Mine
  <1>7. /\ ledger' = before /\ Absent(rec.id)' /\ files'[rec.id] = {}
        /\ \A i \in Ids : Accounted(i)'
    BY <1>2, <1>3, SameLedger DEF Staging, Unjournaled, AllAccounted
  <1>8. Prepared(cur, Mine)'
    BY <1>2, <1>4, <1>6, <1>7 DEF Prepared
  <1>9. Shape(cur)'
    BY <1>2, <1>4, <1>6, <1>8 DEF Shape
  <1>10. ControlInv'
    BY <1>2, <1>3, <1>5, <1>7, <1>8 DEF ControlInv, Staging
  <1>11. ~Remembered
    BY <1>3 DEF Remembered, Only, Unjournaled, NoDir
  <1>12. DirInv'
    BY <1>1, <1>5, <1>9 DEF DirInv, TypeOK
  <1>13. LedgerInv' /\ IndexInv'
    BY <1>2, <1>11, SameLedger DEF IInv, IndexInv
  <1> QED
    BY <1>1, <1>2, <1>10, <1>12, <1>13 DEF IInv

\* Renaming the staged record onto its path, by the commit or by a replay.
LEMMA RecordPublished ==
    ASSUME TypeOK, LedgerInv, Only(cur), NEW j \in Journal, Prepared(cur, j),
           files[j.rec.id] = {}, ReplaceRecord(j.rec.id), UNCHANGED cur
    PROVE  /\ LedgerInv' /\ Only(cur)' /\ Prepared(cur, j)'
           /\ files'[j.rec.id] = {j.rec.val} /\ UNCHANGED <<ledger, index>>
  <1>1. j.rec.id \in Ids /\ txs[cur].record = {j.rec.val}
    BY DEF Journal, Record, Prepared
  <1>2. files' = [files EXCEPT ![j.rec.id] = {j.rec.val}] /\ UNCHANGED <<ledger, index>>
    BY <1>1 DEF ReplaceRecord
  <1>3. /\ txs'[cur].record = {} /\ txs'[cur].exists
        /\ txs'[cur].ledger = txs[cur].ledger /\ txs'[cur].journal = txs[cur].journal
        /\ \A u \in TxIds : u # cur => txs'[u] = txs[u]
    BY DEF ReplaceRecord, TypeOK, TxDir, Only
  <1>4. files'[j.rec.id] = {j.rec.val} /\ \A i \in Ids : i # j.rec.id => files'[i] = files[i]
    BY <1>1, <1>2 DEF TypeOK
  <1>5. Only(cur)'
    BY <1>3 DEF Only
  <1>6. LedgerInv'
    <2>1. \A n \in DOMAIN ledger : ledger[n].id \in Ids /\ ledger[n].id # j.rec.id
      BY EntryTypes DEF Prepared, Absent, TypeOK
    <2> QED
      BY <1>2, <1>4, <2>1 DEF LedgerInv
  <1>7. \A i \in Ids : i # j.rec.id => Accounted(i)'
    BY <1>2, <1>4 DEF Prepared, Accounted, Absent
  <1>8. Absent(j.rec.id)'
    BY <1>2 DEF Prepared, Absent
  <1>9. Prepared(cur, j)'
    BY <1>2, <1>3, <1>4, <1>7, <1>8 DEF Prepared
  <1> QED
    BY <1>2, <1>4, <1>5, <1>6, <1>9

\* Renaming the staged ledger, by the commit or by a replay.
LEMMA LedgerPublished ==
    ASSUME TypeOK, LedgerInv, Only(cur), NEW j \in Journal, Prepared(cur, j),
           files[j.rec.id] # {}, ReplaceLedger, UNCHANGED cur
    PROVE  /\ LedgerInv' /\ Only(cur)' /\ Published(cur, j)'
           /\ ledger' = Append(ledger, j.rec)
           /\ \E n \in DOMAIN ledger' : ledger'[n] = j.rec
  <1>1. /\ files[j.rec.id] = {j.rec.val} /\ txs[cur].record = {}
        /\ j.rec \in Record /\ j.rec.id \in Ids /\ ledger \in Ledger
    BY DEF Prepared, Journal, Record, TypeOK
  <1>2. ledger' = Append(ledger, j.rec) /\ UNCHANGED <<files, index>>
    BY DEF ReplaceLedger, Prepared
  <1>3. /\ txs'[cur].record = {} /\ txs'[cur].exists
        /\ txs'[cur].ledger = {} /\ txs'[cur].journal = txs[cur].journal
        /\ \A u \in TxIds : u # cur => txs'[u] = txs[u]
    BY <1>1 DEF ReplaceLedger, TypeOK, TxDir, Only
  <1>4. Only(cur)'
    BY <1>3 DEF Only
  <1>5. /\ DOMAIN ledger' = DOMAIN ledger \cup {Len(ledger) + 1}
        /\ Len(ledger) + 1 \notin DOMAIN ledger /\ ledger'[Len(ledger) + 1] = j.rec
        /\ \A n \in DOMAIN ledger : ledger'[n] = ledger[n]
    BY <1>1, <1>2, AppendFacts
  <1>6. LedgerInv'
    BY <1>1, <1>2, <1>5 DEF LedgerInv, Prepared, Absent
  <1>7. AllAccounted'
    BY <1>1, <1>2, <1>5 DEF AllAccounted, Accounted, Prepared, Absent
  <1>8. Published(cur, j)'
    BY <1>2, <1>3, <1>7 DEF Published, Prepared
  <1> QED
    BY <1>2, <1>4, <1>5, <1>6, <1>8

LEMMA PublishRecordInv == IInv /\ PublishRecord => IInv'
  <1> SUFFICES ASSUME IInv, PublishRecord PROVE IInv'
    OBVIOUS
  <1>1. TypeOK'
    BY StepType DEF IInv, Next, Step
  <1>2. UNCHANGED <<rec, before, own, cur, failed>> /\ pc' = "publish_ledger"
    BY DEF PublishRecord, locals, replies
  <1>3. Only(cur) /\ Prepared(cur, Mine) /\ own /\ files[rec.id] = {}
    BY DEF IInv, ControlInv, PublishRecord
  <1>4. PICK j : j = Mine
    OBVIOUS
  <1>5. j \in Journal /\ j.rec = rec
    BY <1>4 DEF Mine, Journal, IInv, TypeOK
  <1>6. Mine' = j
    BY <1>2, <1>4 DEF Mine
  <1>7. /\ LedgerInv' /\ Only(cur)' /\ Prepared(cur, j)'
        /\ files'[j.rec.id] = {j.rec.val} /\ UNCHANGED <<ledger, index>>
    BY <1>2, <1>3, <1>4, <1>5, RecordPublished DEF PublishRecord, IInv
  <1>8. ControlInv'
    BY <1>2, <1>3, <1>5, <1>6, <1>7 DEF ControlInv
  <1>9. DirInv'
    BY <1>1, <1>7 DEF DirInv, Shape, Prepared, TypeOK
  <1>10. ~Remembered
    <2>1. txs[cur].record # {} \/ txs[cur].ledger # {}
      BY <1>3 DEF Prepared
    <2>2. \A u \in TxIds : Only(u) => u = cur
      BY <1>3 DEF Only, NoDir
    <2> QED
      BY <2>1, <2>2 DEF Remembered, Published
  <1>11. IndexInv'
    BY <1>2, <1>7, <1>10 DEF IInv, IndexInv
  <1> QED
    BY <1>1, <1>2, <1>7, <1>8, <1>9, <1>11 DEF IInv

LEMMA PublishLedgerInv == IInv /\ PublishLedger => IInv'
  <1> SUFFICES ASSUME IInv, PublishLedger PROVE IInv'
    OBVIOUS
  <1>1. TypeOK'
    BY StepType DEF IInv, Next, Step
  <1>2. Only(cur) /\ Prepared(cur, Mine) /\ own /\ files[rec.id] = {rec.val}
    BY DEF IInv, ControlInv, PublishLedger
  <1>3. ledger = before
    BY <1>2 DEF Prepared, Mine
  <1>4. ReplaceLedger /\ UNCHANGED <<rec, before, own, cur, failed>> /\ pc' = "mark"
    BY <1>3 DEF PublishLedger, locals, replies
  <1>5. PICK j : j = Mine
    OBVIOUS
  <1>6. j \in Journal /\ j.rec = rec
    BY <1>5 DEF Mine, Journal, IInv, TypeOK
  <1>7. /\ LedgerInv' /\ Only(cur)' /\ Published(cur, j)'
        /\ \E n \in DOMAIN ledger' : ledger'[n] = rec'
    BY <1>2, <1>4, <1>5, <1>6, LedgerPublished DEF IInv
  <1>8. \E k \in txs'[cur'].journal : Published(cur, k)'
    BY <1>7 DEF Published
  <1>9. ControlInv'
    BY <1>4, <1>7, <1>8 DEF ControlInv
  <1>10. DirInv' /\ Remembered'
    BY <1>1, <1>7, <1>8 DEF DirInv, Shape, Remembered, TypeOK
  <1>11. IndexInv'
    BY <1>4, <1>10 DEF IndexInv
  <1> QED
    BY <1>1, <1>4, <1>7, <1>9, <1>10, <1>11 DEF IInv

\* A published directory stays published when its journal is marked, and the
\* index may be rebuilt or left alone.
LEMMA MarkInv == IInv /\ (MarkCommitted \/ RebuildIndex) => IInv'
  <1> SUFFICES ASSUME IInv, MarkCommitted \/ RebuildIndex PROVE IInv'
    OBVIOUS
  <1>1. TypeOK'
    BY StepType DEF IInv, Next, Step
  <1>2. UNCHANGED <<files, ledger, rec, own, cur, failed>>
    BY DEF MarkCommitted, RebuildIndex, InDirectory, locals, replies
  <1>3. Only(cur) /\ (own => \E n \in DOMAIN ledger : ledger[n] = rec)
    BY DEF IInv, ControlInv, MarkCommitted, RebuildIndex, InDirectory
  <1>4. PICK j \in txs[cur].journal : Published(cur, j)
    BY DEF IInv, ControlInv, MarkCommitted, RebuildIndex, InDirectory
  <1>5. CASE MarkCommitted
    <2>1. PICK k : k = [j EXCEPT !.state = "COMMITTED"]
      OBVIOUS
    <2>2. /\ txs'[cur].exists /\ txs'[cur].journal = {k}
          /\ txs'[cur].record = {} /\ txs'[cur].ledger = {}
          /\ \A u \in TxIds : u # cur => txs'[u] = txs[u]
      BY <1>3, <1>4, <1>5, <2>1
      DEF MarkCommitted, InDirectory, IInv, TypeOK, TxDir, Only, Published
    <2>3. k.before = j.before /\ k.rec = j.rec
      BY <1>4, <2>1 DEF IInv, TypeOK, TxDir, Journal
    <2>4. Only(cur)'
      BY <1>2, <1>3, <2>2 DEF Only
    <2>5. Published(cur, k)'
      BY <1>2, <1>4, <2>2, <2>3, SameLedger DEF Published
    <2>6. pc' = "index" /\ UNCHANGED index
      BY <1>5 DEF MarkCommitted, InDirectory
    <2>7. DirInv' /\ Remembered'
      BY <1>1, <1>2, <2>2, <2>4, <2>5 DEF DirInv, Shape, Remembered, TypeOK
    <2>8. ControlInv'
      BY <1>2, <1>3, <2>2, <2>4, <2>5, <2>6 DEF ControlInv
    <2> QED
      BY <1>1, <1>2, <2>6, <2>7, <2>8, SameLedger DEF IInv, IndexInv
  <1>6. CASE RebuildIndex
    <2>1. pc' = "rmtree" /\ index' = {ledger} /\ UNCHANGED txs
      BY <1>6 DEF RebuildIndex
    <2>2. Only(cur)' /\ Published(cur, j)' /\ j \in txs'[cur'].journal
      BY <1>2, <1>3, <1>4, <2>1, SameDisk
    <2>3. ControlInv'
      BY <1>2, <1>3, <2>1, <2>2 DEF ControlInv
    <2>4. IndexInv'
      BY <1>2, <2>1 DEF IndexInv
    <2> QED
      BY <1>1, <1>2, <2>1, <2>3, <2>4, SameDisk DEF IInv
  <1> QED
    BY <1>5, <1>6

\* The directory being removed is unjournaled from the moment its journal goes.
LEMMA RemoveFileInv == IInv /\ RemoveFile => IInv'
  <1> SUFFICES ASSUME IInv, RemoveFile PROVE IInv'
    OBVIOUS
  <1>1. TypeOK'
    BY StepType DEF IInv, Next, Step
  <1>2. UNCHANGED <<files, ledger, index, pc, rec, own, cur, failed>> /\ pc = "rmtree"
    BY DEF RemoveFile, locals, replies
  <1>3. /\ Only(cur) /\ (own => \E n \in DOMAIN ledger : ledger[n] = rec)
        /\ Unjournaled(cur) \/ \E j \in txs[cur].journal : Published(cur, j)
    BY <1>2 DEF IInv, ControlInv
  <1>4. /\ txs'[cur].exists /\ \A u \in TxIds : u # cur => txs'[u] = txs[u]
        /\ \/ txs'[cur].journal = {}
           \/ /\ txs'[cur].journal = txs[cur].journal
              /\ txs'[cur].record \subseteq txs[cur].record
              /\ txs'[cur].ledger \subseteq txs[cur].ledger
    BY <1>3 DEF RemoveFile, IInv, TypeOK, TxDir, Only
  <1>5. Only(cur)'
    BY <1>2, <1>3, <1>4 DEF Only
  <1>6. AllAccounted /\ AllAccounted'
    BY <1>2, <1>3, SameLedger DEF Unjournaled, Published
  <1>7. Unjournaled(cur)' \/ \E j \in txs'[cur'].journal : Published(cur, j)'
    <2>1. CASE txs'[cur].journal = {}
      BY <1>2, <1>6, <2>1 DEF Unjournaled
    <2>2. CASE txs'[cur].journal # {}
      <3>1. /\ txs'[cur].journal = txs[cur].journal
            /\ txs'[cur].record \subseteq txs[cur].record
            /\ txs'[cur].ledger \subseteq txs[cur].ledger
        BY <1>4, <2>2
      <3>2. PICK j \in txs[cur].journal : Published(cur, j)
        BY <1>3, <2>2, <3>1 DEF Unjournaled
      <3>3. Published(cur, j)'
        BY <1>2, <1>6, <3>1, <3>2 DEF Published
      <3> QED
        BY <1>2, <3>1, <3>3
    <2> QED
      BY <2>1, <2>2
  <1>8. DirInv'
    BY <1>1, <1>5, <1>7 DEF DirInv, Shape, TypeOK
  <1>9. ControlInv'
    BY <1>2, <1>3, <1>5, <1>7 DEF ControlInv
  <1>10. IndexInv'
    BY <1>2 DEF IInv, IndexInv
  <1> QED
    BY <1>1, <1>2, <1>8, <1>9, <1>10, SameLedger DEF IInv

LEMMA RemoveDirectoryInv == IInv /\ RemoveDirectory => IInv'
  <1> SUFFICES ASSUME IInv, RemoveDirectory PROVE IInv'
    OBVIOUS
  <1>1. TypeOK'
    BY StepType DEF IInv, Next, Step
  <1>2. UNCHANGED <<files, ledger, index, failed>> /\ pc' \in {"idle", "recover"}
    BY DEF RemoveDirectory
  <1>3. Only(cur) /\ Unjournaled(cur) /\ index \in {{}, {ledger}}
    BY DEF RemoveDirectory, IInv, ControlInv, IndexInv, NoDir, Unjournaled
  <1>4. \A t \in TxIds : txs'[t] = NoDir
    BY <1>3 DEF RemoveDirectory, IInv, TypeOK, Only
  <1>5. Clean'
    BY <1>2, <1>3, <1>4, SameLedger DEF Clean, Unjournaled
  <1>6. ControlInv' /\ IndexInv' /\ DirInv'
    BY <1>2, <1>3, <1>5 DEF ControlInv, IndexInv, DirInv
  <1> QED
    BY <1>1, <1>2, <1>6, SameLedger DEF IInv

LEMMA VerifyInv == IInv /\ Verify => IInv'
  <1> SUFFICES ASSUME IInv, Verify PROVE IInv'
    OBVIOUS
  <1>1. TypeOK'
    BY StepType DEF IInv, Next, Step
  <1>2. /\ UNCHANGED <<files, ledger, txs, failed>> /\ pc' = "idle"
        /\ index' \in {{}, {ledger}}
    BY DEF Verify, IInv, LedgerInv, replies
  <1>3. ControlInv' /\ IndexInv'
    BY <1>2 DEF ControlInv, IndexInv
  <1> QED
    BY <1>1, <1>2, <1>3, SameDisk DEF IInv

\* The journal a replay reads and what it finds on disk.
LEMMA ReplayedJournal ==
    ASSUME IInv, pc = "replay"
    PROVE  Only(cur) /\ \E j \in Journal : /\ txs[cur].journal = {j}
                                           /\ Prepared(cur, j) \/ Published(cur, j)
  <1>1. Only(cur) /\ txs[cur].journal # {} /\ cur \in TxIds
    BY DEF IInv, ControlInv, TypeOK
  <1>2. Shape(cur)
    BY <1>1, ExistingDir DEF IInv, Only
  <1>3. PICK j \in txs[cur].journal : Prepared(cur, j) \/ Published(cur, j)
    BY <1>1, <1>2 DEF Shape, Unjournaled
  <1>4. txs[cur].journal = {j}
    BY <1>3 DEF Prepared, Published
  <1>5. j \in Journal
    BY <1>1, <1>3 DEF IInv, TypeOK, TxDir
  <1> QED
    BY <1>1, <1>3, <1>4, <1>5

LEMMA PublishedFacts ==
    ASSUME TypeOK, LedgerInv, NEW j \in Journal, Published(cur, j)
    PROVE  ledger # j.before /\ files[j.rec.id] = {j.rec.val}
  <1>1. j.before \in Ledger /\ j.rec \in Record
    BY DEF Journal
  <1>2. \E n \in DOMAIN ledger : ledger[n] = j.rec
    BY <1>1, AppendFacts DEF Published
  <1>3. ledger # j.before
    BY <1>1, AppendFacts DEF Published
  <1> QED
    BY <1>2, <1>3 DEF LedgerInv

\* No journal that an interruption leaves behind is refused by recovery.
LEMMA ReplayAccepts ==
    ASSUME TypeOK, LedgerInv, NEW j \in Journal, Prepared(cur, j) \/ Published(cur, j)
    PROVE  ReplayErrors(j) = {}
  <1>1. CASE Prepared(cur, j)
    BY <1>1 DEF Prepared, ReplayErrors, FileError
  <1>2. CASE Published(cur, j)
    <2>1. ledger # j.before /\ files[j.rec.id] = {j.rec.val} /\ ledger = Append(j.before, j.rec)
      BY <1>2, PublishedFacts DEF Published
    <2> QED
      BY <2>1 DEF ReplayErrors, FileError
  <1> QED
    BY <1>1, <1>2

LEMMA ReplayInv == IInv /\ Replay => IInv'
  <1> SUFFICES ASSUME IInv, Replay PROVE IInv'
    OBVIOUS
  <1>1. TypeOK'
    BY StepType DEF IInv, Next, Step
  <1>2. pc = "replay" /\ ~own
    BY DEF Replay, IInv, ControlInv
  <1>3. PICK j \in Journal : /\ txs[cur].journal = {j}
                             /\ Prepared(cur, j) \/ Published(cur, j)
    BY <1>2, ReplayedJournal
  <1>4. Only(cur)
    BY <1>2, ReplayedJournal
  <1>5. ReplayErrors(j) = {}
    BY <1>3, ReplayAccepts DEF IInv
  <1>6. /\ UNCHANGED <<rec, before, own, cur, failed>>
        /\ \/ /\ ledger = j.before /\ files[j.rec.id] = {}
              /\ ReplaceRecord(j.rec.id) /\ UNCHANGED pc
           \/ /\ ledger = j.before /\ files[j.rec.id] # {}
              /\ ReplaceLedger /\ UNCHANGED pc
           \/ ledger # j.before /\ pc' = "mark" /\ UNCHANGED disk
    BY <1>3, <1>5 DEF Replay, locals, replies
  <1>7. ledger = j.before => Prepared(cur, j)
    BY <1>3, PublishedFacts DEF IInv
  <1>8. CASE ledger = j.before /\ files[j.rec.id] = {} /\ ReplaceRecord(j.rec.id) /\ UNCHANGED pc
    <2>1. LedgerInv' /\ Only(cur)' /\ Prepared(cur, j)' /\ UNCHANGED <<ledger, index>>
      BY <1>4, <1>6, <1>7, <1>8, RecordPublished DEF IInv
    <2>2. DirInv'
      BY <1>1, <2>1 DEF DirInv, Shape, Prepared, TypeOK
    <2>3. ControlInv'
      BY <1>2, <1>6, <1>8, <2>1 DEF ControlInv, Prepared
    <2>4. ~Remembered
      <3>1. \A u \in TxIds : Only(u) => u = cur
        BY <1>4 DEF Only, NoDir
      <3>2. txs[cur].ledger # {}
        BY <1>7, <1>8 DEF Prepared
      <3> QED
        BY <3>1, <3>2 DEF Remembered, Published
    <2>5. IndexInv'
      BY <1>2, <1>8, <2>1, <2>4 DEF IInv, IndexInv
    <2> QED
      BY <1>1, <1>6, <2>1, <2>2, <2>3, <2>5 DEF IInv
  <1>9. CASE ledger = j.before /\ files[j.rec.id] # {} /\ ReplaceLedger /\ UNCHANGED pc
    <2>1. LedgerInv' /\ Only(cur)' /\ Published(cur, j)'
      BY <1>4, <1>6, <1>7, <1>9, LedgerPublished DEF IInv
    <2>2. DirInv' /\ Remembered'
      BY <1>1, <2>1 DEF DirInv, Shape, Remembered, Published, TypeOK
    <2>3. ControlInv'
      BY <1>2, <1>6, <1>9, <2>1 DEF ControlInv, Published
    <2> QED
      BY <1>1, <1>2, <1>6, <1>9, <2>1, <2>2, <2>3 DEF IInv, IndexInv
  <1>10. CASE ledger # j.before /\ pc' = "mark" /\ UNCHANGED disk
    <2>1. UNCHANGED <<files, ledger, txs, index>>
      BY <1>10 DEF disk
    <2>2. Published(cur, j)
      BY <1>3, <1>10 DEF Prepared
    <2>3. Only(cur)' /\ Published(cur, j)'
      BY <1>4, <1>6, <2>1, <2>2, SameDisk
    <2>4. ControlInv'
      BY <1>2, <1>6, <1>10, <2>3 DEF ControlInv, Published
    <2>5. IndexInv'
      BY <1>10, <2>1, SameDisk DEF IInv, IndexInv
    <2> QED
      BY <1>1, <1>6, <2>1, <2>4, <2>5, SameDisk DEF IInv
  <1> QED
    BY <1>6, <1>8, <1>9, <1>10

LEMMA InitInv == Init => IInv
  <1> SUFFICES ASSUME Init PROVE IInv
    OBVIOUS
  <1>1. Clean
    BY DEF Init, Clean, AllAccounted, Accounted
  <1>2. LedgerInv
    BY DEF Init, LedgerInv
  <1> QED
    BY <1>1, <1>2, InitType DEF Init, IInv, DirInv, ControlInv, IndexInv

LEMMA StepInv == IInv /\ [Next]_vars => IInv'
  <1> SUFFICES ASSUME IInv, [Next]_vars PROVE IInv'
    OBVIOUS
  <1>1. CASE UNCHANGED vars
    <2>1. TypeOK'
      BY <1>1, StepType DEF IInv
    <2>2. UNCHANGED <<files, ledger, txs, index, pc, cur, rec, before, own, failed>>
      BY <1>1 DEF vars, disk, locals, replies
    <2>3. ControlInv' /\ IndexInv'
      BY <2>2 DEF IInv, ControlInv, IndexInv, Staging, Mine, Clean, Only, Unjournaled, Prepared,
                  Published, AllAccounted, Accounted, Absent, Remembered
    <2> QED
      BY <2>1, <2>2, <2>3, SameDisk DEF IInv
  <1> QED
    BY <1>1, EnterInv, ScanInv, ResolveDuplicateInv, MakeTransactionInv, StageInv, PrepareInv,
       PublishRecordInv, PublishLedgerInv, MarkInv, RemoveFileInv, RemoveDirectoryInv,
       ReplayInv, VerifyInv DEF Next, Step

LEMMA StoreInvariant == Spec => []IInv
  BY InitInv, StepInv, PTL DEF Spec

-----------------------------------------------------------------------------
(* The safety properties of the store.                                     *)

\* Whenever no transaction directory is left, the record files are exactly the
\* ledger's entries: commit and recover() may be cut off before any of their
\* durable steps, any number of times.
THEOREM StoreCompleteOldOrNew == Spec => []CompleteOldOrNew
  <1>1. IInv => CompleteOldOrNew
    <2> SUFFICES ASSUME IInv, Recovered PROVE
          /\ \A n \in DOMAIN ledger : files[ledger[n].id] = {ledger[n].val}
          /\ \A i \in Ids : files[i] # {} => Existing(ledger, i) # {}
      BY DEF CompleteOldOrNew
    <2>1. AllAccounted
      BY RecoveredIsClean DEF IInv, Clean
    <2> QED
      BY <2>1 DEF IInv, LedgerInv, AllAccounted, Accounted, Absent, Existing
  <1> QED
    BY <1>1, StoreInvariant, PTL

\* No interruption makes _recover_transaction_unlocked, _resolve_duplicate,
\* _assert_expected_ledger or the companion check of recover() raise.
THEOREM StoreNeverWedged == Spec => []NeverWedged
  <1>1. IInv => NeverWedged
    BY DEF IInv, NeverWedged
  <1> QED
    BY <1>1, StoreInvariant, PTL

\* The derived index is absent or that of the current ledger whenever no
\* transaction directory is left.
THEOREM StoreIndexBound == Spec => []IndexBound
  <1>1. IInv => IndexBound
    BY DEF IInv, IndexBound, IndexInv, Remembered, Only, Recovered
  <1> QED
    BY <1>1, StoreInvariant, PTL

\* Every step of the store is a step of the record log or leaves it alone.
LEMMA LogStep == IInv /\ [Next]_vars => [Log!Next]_(Log!vars)
  <1> SUFFICES ASSUME IInv, [Next]_vars PROVE [Log!Next]_(Log!vars)
    OBVIOUS
  <1> USE DEF Log!Next, Log!vars, Log!Commit, Log!Acknowledge, Log!Reject, Log!Fresh,
              Log!Committed, Log!Record
  <1>1. ASSUME NEW j \in Journal, Prepared(cur, j), files[j.rec.id] # {}, Only(cur),
               ReplaceLedger, UNCHANGED <<cur, acked, rejected>>
        PROVE  Log!Next
    <2>1. j.rec \in Record /\ Absent(j.rec.id)
      BY <1>1 DEF Journal, Prepared
    <2>2. ledger' = Append(ledger, j.rec)
      BY <1>1, LedgerPublished DEF IInv
    <2> QED
      BY <1>1, <2>1, <2>2 DEF Record, Absent
  <1>2. CASE UNCHANGED <<ledger, acked, rejected>>
    BY <1>2
  <1>3. CASE ResolveDuplicate
    <2>1. PICK n \in DOMAIN ledger : /\ Existing(ledger, rec.id) = {n}
                                     /\ ledger[n].id = rec.id
                                     /\ files[rec.id] = {ledger[n].val}
      BY <1>3, DuplicateEntry DEF ResolveDuplicate
    <2>2. rec \in Record /\ ledger[n] \in Record
      BY EntryTypes DEF IInv, TypeOK
    <2>3. UNCHANGED ledger
      BY <1>3, <2>1 DEF ResolveDuplicate, disk
    <2>4. CASE files[rec.id] = {rec.val} /\ ledger[n] = rec
      <3>1. acked' = acked \cup {rec} /\ UNCHANGED rejected
        BY <1>3, <2>1, <2>4 DEF ResolveDuplicate
      <3> QED
        BY <2>2, <2>3, <2>4, <3>1 DEF Record
    <2>5. CASE ~(files[rec.id] = {rec.val} /\ ledger[n] = rec)
      <3>1. rejected' = rejected \cup {rec} /\ UNCHANGED acked
        BY <1>3, <2>1, <2>5 DEF ResolveDuplicate
      <3>2. ledger[n].val # rec.val
        BY <2>1, <2>2, <2>5 DEF Record
      <3> QED
        BY <2>1, <2>2, <2>3, <3>1, <3>2 DEF Record
    <2> QED
      BY <2>4, <2>5
  <1>4. CASE PublishLedger
    <2>1. Only(cur) /\ Prepared(cur, Mine) /\ files[rec.id] = {rec.val}
      BY <1>4 DEF IInv, ControlInv, PublishLedger
    <2>2. PICK j : j = Mine
      OBVIOUS
    <2>3. j \in Journal /\ j.rec = rec
      BY <2>2 DEF Mine, Journal, IInv, TypeOK
    <2>4. ReplaceLedger /\ UNCHANGED <<cur, acked, rejected>>
      BY <1>4, <2>1 DEF PublishLedger, Prepared, Mine, locals, replies
    <2> QED
      BY <1>1, <2>1, <2>2, <2>3, <2>4
  <1>5. CASE RemoveDirectory
    <2>1. own => \E n \in DOMAIN ledger : ledger[n] = rec
      BY <1>5 DEF IInv, ControlInv, RemoveDirectory
    <2>2. UNCHANGED <<ledger, rejected>>
      BY <1>5 DEF RemoveDirectory
    <2>3. CASE own
      <3>1. acked' = acked \cup {rec} /\ rec \in Record
        BY <1>5, <2>3 DEF RemoveDirectory, IInv, TypeOK
      <3> QED
        BY <2>1, <2>2, <2>3, <3>1 DEF Record
    <2>4. CASE ~own
      BY <1>2, <1>5, <2>2, <2>4 DEF RemoveDirectory
    <2> QED
      BY <2>3, <2>4
  <1>6. CASE Replay
    <2>1. pc = "replay"
      BY <1>6 DEF Replay
    <2>2. PICK j \in Journal : /\ txs[cur].journal = {j}
                               /\ Prepared(cur, j) \/ Published(cur, j)
      BY <2>1, ReplayedJournal
    <2>3. Only(cur) /\ ReplayErrors(j) = {}
      BY <2>1, <2>2, ReplayedJournal, ReplayAccepts DEF IInv
    <2>4. ledger = j.before => Prepared(cur, j)
      BY <2>2, PublishedFacts DEF IInv
    <2>5. /\ UNCHANGED <<cur, acked, rejected>>
          /\ UNCHANGED ledger \/ (ledger = j.before /\ files[j.rec.id] # {} /\ ReplaceLedger)
      BY <1>6, <2>2, <2>3 DEF Replay, ReplaceRecord, locals, replies, disk
    <2> QED
      BY <1>1, <1>2, <2>3, <2>4, <2>5
  <1>7. CASE \/ CommitCall \/ RecoverCall \/ Interrupt \/ Scan \/ MakeTransaction
             \/ StageRecord \/ StageLedger \/ Prepare \/ PublishRecord \/ MarkCommitted
             \/ RebuildIndex \/ RemoveFile \/ Verify \/ UNCHANGED vars
    <2>1. UNCHANGED <<ledger, acked, rejected>>
      BY <1>7 DEF CommitCall, RecoverCall, Interrupt, Scan, MakeTransaction, StageRecord,
                  StageLedger, Prepare, PublishRecord, MarkCommitted, RebuildIndex, RemoveFile,
                  Verify, Enter, InDirectory, ReplaceRecord, Raise, vars, disk, locals, replies
    <2> QED
      BY <1>2, <2>1
  <1> QED
    BY <1>3, <1>4, <1>5, <1>6, <1>7 DEF Next, Step

\* The journaled store implements the abstract record log: one atomic append of
\* a fresh identity per commit, however it was interrupted; what a caller was
\* told is committed stays; what it was told conflicts is there with other content.
THEOREM StoreImplementsRecordLog == Spec => ImplementsRecordLog
  <1>1. Init => Log!Init
    BY DEF Init, Log!Init
  <1> QED
    BY <1>1, LogStep, StoreInvariant, PTL DEF Spec, ImplementsRecordLog, Log!Spec

=============================================================================
