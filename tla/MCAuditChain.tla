---------------------------- MODULE MCAuditChain ----------------------------
(* AuditChain with three transactions that record at the same time.          *)
EXTENDS AuditChain, TLC

CONSTANTS w1, w2, w3

TwoWriters == {w1, w2}
ThreeWriters == {w1, w2, w3}
=============================================================================
