-------------------------- MODULE MCConsentLedger --------------------------
(* ConsentLedger on small instances: one notice with a mandatory and an      *)
(* optional purpose, two request handlers that race on it.                   *)
EXTENDS ConsentLedger, TLC

CONSTANTS w1, w2, ann, ben, notice, core, extra

MCWorkers == {w1, w2}
OneSubject == {ann}
TwoSubjects == {ann, ben}
MCNotices == {notice}
MCPurposes == {core, extra}
MCPurposesOf == [n \in MCNotices |-> MCPurposes]
MCMandatory == [n \in MCNotices |-> {core}]
NobodyAnswered == {}
AnnAnswered == {<<ann, notice>>}
NoFirstId == [p \in {} |-> 1]
AnnFirstId == [p \in AnnAnswered |-> 1]
Symmetry == Permutations(MCWorkers)
=============================================================================
