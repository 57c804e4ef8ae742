------------------------- MODULE MCLocalRecordStore -------------------------
(* Two identities with two contents each, two transaction names.           *)
EXTENDS LocalRecordStore

CONSTANTS i1, i2, v1, v2, t1, t2

MCIds == {i1, i2}
MCContents == {v1, v2}
MCTxIds == {t1, t2}
=============================================================================
