----------------------------- MODULE RecordLog -----------------------------
(***************************************************************************)
(* What a Forge record store promises its callers, whatever it does on     *)
(* disk: an append-only log of immutable records in which one identity has *)
(* one content, an acknowledgement only for a record that is in the log,   *)
(* and a refusal only for an identity that is there with other content.    *)
(* Crashes and recovery are invisible at this level: they are stuttering   *)
(* steps, or the late Append of a record whose writer died.                *)
(***************************************************************************)
EXTENDS Sequences

CONSTANTS Ids,       \* record identities (ledger kind and identity field)
          Contents   \* canonical record contents

VARIABLES log,       \* the committed records, in commit order
          acked,     \* records some caller was told are committed
          rejected   \* records some caller was told conflict

vars == <<log, acked, rejected>>

Record == [id : Ids, val : Contents]

Committed(l) == {l[i] : i \in DOMAIN l}

\* No entry of the log l has the identity i.
Fresh(l, i) == \A e \in Committed(l) : e.id # i

Init == log = <<>> /\ acked = {} /\ rejected = {}

Commit(r) ==
    /\ Fresh(log, r.id)
    /\ log' = Append(log, r)
    /\ UNCHANGED <<acked, rejected>>

Acknowledge(r) ==
    /\ r \in Committed(log)
    /\ acked' = acked \cup {r}
    /\ UNCHANGED <<log, rejected>>

Reject(r) ==
    /\ \E e \in Committed(log) : e.id = r.id /\ e.val # r.val
    /\ rejected' = rejected \cup {r}
    /\ UNCHANGED <<log, acked>>

Next == \E r \in Record : Commit(r) \/ Acknowledge(r) \/ Reject(r)

Spec == Init /\ [][Next]_vars
=============================================================================
