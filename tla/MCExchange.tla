----------------------------- MODULE MCExchange -----------------------------
(* Exchange with two importers, whose manifests meet in one asset and each   *)
(* hold another row, and sweeps that may have more to select than their      *)
(* limit.                                                                    *)
EXTENDS Exchange, TLC

CONSTANTS i1, i2, v1, p1, p2, c1, c2, a1, a2, k1, f1, f2

MCImporters == {i1, i2}
MCSweepers == {v1}
MCProjects == {p1, p2}
MCCollections == {c1, c2}
MCAssets == {a1, a2}
MCConsents == {k1}
MCFiles == {f1, f2}

ManifestRow(c, a, s) == [collection |-> c, asset |-> a, subject |-> s]

\* The files give the first asset to different collections, so that importers meet at
\* its row, and each waits for what the other holds
MCManifest ==
  f1 :> <<ManifestRow(c1, a1, k1), ManifestRow(c2, a1, Bystander)>> @@
  f2 :> <<ManifestRow(c2, a1, k1), ManifestRow(c2, a2, k1)>>

MCConsentProject == k1 :> p1

\* With a limit of two, the two assets due for erasure may be all that a sweep selects
MCLapseBehaviours == k1 :> {"quarantine", "erase"}
=============================================================================
