---------------------------- MODULE MCConsentLink ----------------------------
(* ConsentLink on small instances: one link, at one of the project's two sites,*)
(* with room for one person or for everybody.                                 *)
EXTENDS ConsentLink, TLC

CONSTANTS w1, w2, ann, ben, north, lab, field

MCWorkers == {w1, w2}
TwoPeople == {ann, ben}
OneLink == {north}
MCSites == {lab, field}
OneSiteOf == [l \in OneLink |-> lab]
AnyCap == {1, 3}
=============================================================================
