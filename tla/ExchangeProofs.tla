--------------------------- MODULE ExchangeProofs ---------------------------
(***************************************************************************)
(* Theorems about Exchange, for any number of importers, sweepers, files,  *)
(* assets and consents.  Between the look for a row and the commit of its  *)
(* insert an import holds the row of the asset, so what it did not find    *)
(* nobody else records meanwhile; and what it is going to report is what   *)
(* is recorded, or what it is about to record itself.  That makes a batch  *)
(* one stroke, and with what its rows and the sweep's choice were checked  *)
(* for, which only grows, the whole implements ImportPromise.              *)
(***************************************************************************)
EXTENDS Exchange, TLAPS

\* How many rows there are for an asset and a subject
Total(l) == link[l].active + link[l].quarantined

\* The row at hand in the file, of the batch's project
Owned(l, w) == l[2] # Bystander => ConsentProject[l[2]] = tx[w].project

InFile(w) == DOMAIN Manifest[tx[w].file]

\* The position of an import in its file
WalkOK(w) ==
  tx[w] # Idle =>
    /\ tx[w].done \subseteq InFile(w)
    /\ tx[w].pc # "finishing" => tx[w].at \in InFile(w)
    /\ tx[w].pc \in {"asset", "link"} => Owned(Pair(Row(w)), w)

\* The assets it has locked
HoldsOK(w) ==
  tx[w] # Idle =>
    /\ tx[w].pc = "link" => asset[Row(w).asset].holder = w
    /\ \A l \in tx[w].links : asset[l[1]].holder = w /\ Total(l) = 0

\* What it will report
Ingested(w) == {Pair(Manifest[tx[w].file][i]) : i \in tx[w].done}

IngestedOK(w) ==
  tx[w] # Idle =>
    /\ \A l \in Ingested(w) : Present(l, w)
    /\ \A l \in tx[w].links : l \in Ingested(w) /\ Owned(l, w)

ImportOK(w) == WalkOK(w) /\ HoldsOK(w) /\ IngestedOK(w)

IndInv ==
  /\ TypeOK /\ OneRowPerSubject /\ ReportsAreTrue
  /\ \A w \in Importers : ImportOK(w)

LEMMA InitIndInv == Init => IndInv
<1> SUFFICES ASSUME Init PROVE IndInv
  OBVIOUS
<1>1. TypeOK
  BY DEF Init, TypeOK, Slot, Stored, NoAsset
<1>2. \A l \in Links : link[l].active = 0 /\ link[l].quarantined = 0
  BY DEF Init
<1>3. OneRowPerSubject /\ ReportsAreTrue
  BY <1>2 DEF Init, OneRowPerSubject, ReportsAreTrue, Exists
<1>4. \A w \in Importers : ImportOK(w)
  BY DEF Init, ImportOK, WalkOK, HoldsOK, IngestedOK
<1>5. QED BY <1>1, <1>3, <1>4 DEF IndInv

-----------------------------------------------------------------------------
(* What the steps of an import have in common                              *)

LEMMA TotalsAreNumbers ==
  ASSUME TypeOK, NEW l \in Links
  PROVE  /\ link[l] \in [active : Nat, quarantined : Nat]
         /\ Total(l) \in Nat /\ (Exists(l) <=> Total(l) > 0)
BY DEF TypeOK, Total, Exists

LEMMA OneMore ==
  ASSUME NEW r \in [active : Nat, quarantined : Nat]
  PROVE  LET s == [r EXCEPT !.active = @ + 1] IN
         /\ s \in [active : Nat, quarantined : Nat]
         /\ s.active = r.active + 1 /\ s.quarantined = r.quarantined
OBVIOUS

LEMMA RowsOfFiles ==
  ASSUME NEW f \in Files, NEW i \in DOMAIN Manifest[f]
  PROVE  /\ DOMAIN Manifest[f] = 1..Len(Manifest[f]) /\ Len(Manifest[f]) \in Nat
         /\ Manifest[f][i] \in Rows /\ Pair(Manifest[f][i]) \in Links
         /\ Manifest[f][i].asset = Pair(Manifest[f][i])[1]
         /\ Manifest[f][i].subject = Pair(Manifest[f][i])[2]
<1>1. Manifest[f] \in Seq(Rows)
  BY ExchangeAssumption
<1>2. DOMAIN Manifest[f] = 1..Len(Manifest[f]) /\ Len(Manifest[f]) \in Nat
  BY <1>1
<1>3. Manifest[f][i] \in Rows
  BY <1>1, <1>2
<1>4. \A row \in Rows : /\ Pair(row) \in Links
                        /\ row.asset = Pair(row)[1] /\ row.subject = Pair(row)[2]
  BY DEF Rows, Pair, Links
<1>5. QED BY <1>2, <1>3, <1>4

LEMMA AtWork ==
  ASSUME TypeOK, NEW w \in Importers, tx[w] # Idle
  PROVE  tx[w] \in Transaction /\ InFile(w) = 1..Len(Manifest[tx[w].file])
         /\ Len(Manifest[tx[w].file]) \in Nat /\ tx[w].file \in Files
<1>1. tx[w] \in Transaction
  BY DEF TypeOK
<1>2. tx[w].file \in Files
  BY <1>1 DEF Transaction
<1>3. QED BY <1>1, <1>2, ExchangeAssumption DEF InFile

\* The row at hand
LEMMA InHand ==
  ASSUME TypeOK, NEW w \in Importers, WalkOK(w), tx[w] # Idle, tx[w].pc # "finishing"
  PROVE  /\ tx[w] \in Transaction /\ tx[w].at \in InFile(w)
         /\ Row(w) \in Rows /\ Pair(Row(w)) \in Links
         /\ Row(w) = Manifest[tx[w].file][tx[w].at]
         /\ Row(w).asset = Pair(Row(w))[1] /\ Row(w).subject = Pair(Row(w))[2]
BY AtWork, RowsOfFiles DEF WalkOK, Row, InFile

LEMMA AdvanceType ==
  ASSUME TypeOK, NEW w \in Importers, WalkOK(w), tx[w] # Idle, tx[w].pc # "finishing",
         NEW done \in SUBSET InFile(w), NEW links \in SUBSET Links
  PROVE  LET r == Advance(w, done, links) IN
         /\ r \in Transaction /\ r # Idle
         /\ r.file = tx[w].file /\ r.project = tx[w].project
         /\ r.done = done /\ r.links = links /\ r.pc \in {"collection", "finishing"}
         /\ r.pc # "finishing" => r.at \in DOMAIN Manifest[r.file]
<1> DEFINE r == Advance(w, done, links)
<1>1. tx[w] \in Transaction /\ tx[w].at \in InFile(w)
  BY InHand
<1>2. InFile(w) = 1..Len(Manifest[tx[w].file]) /\ Len(Manifest[tx[w].file]) \in Nat
  BY AtWork
<1>3. done \in SUBSET Nat /\ tx[w].at \in Nat
  BY <1>1, <1>2
<1> DEFINE pc == IF tx[w].at < Len(Manifest[tx[w].file]) THEN "collection" ELSE "finishing"
<1>0. pc \in {"collection", "finishing"} /\ tx[w].at + 1 \in Nat
  BY <1>3
<1>b. r = [tx[w] EXCEPT !.pc = pc, !.at = tx[w].at + 1, !.done = done, !.links = links]
  BY <1>1 DEF Advance, Transaction
<1> HIDE DEF pc, r
<1>4. r \in Transaction
  BY <1>1, <1>3, <1>0, <1>b DEF Transaction
<1> USE DEF pc, r
<1>5. /\ r.file = tx[w].file /\ r.project = tx[w].project /\ r.done = done /\ r.links = links
      /\ r.pc = (IF tx[w].at < Len(Manifest[tx[w].file]) THEN "collection" ELSE "finishing")
      /\ r.at = tx[w].at + 1
  BY <1>1 DEF Advance, Transaction
<1>6. r # Idle
  BY <1>5 DEF Idle
<1>7. r.pc # "finishing" => r.at \in DOMAIN Manifest[r.file]
  BY <1>1, <1>2, <1>5 DEF InFile
<1>8. QED BY <1>4, <1>5, <1>6, <1>7

\* An import is not disturbed by who leaves its transaction, the assets it holds and the
\* subjects it found absent alone.
LEMMA Undisturbed ==
  ASSUME TypeOK, TypeOK', NEW v \in Importers, ImportOK(v), tx'[v] = tx[v],
         \A a \in Assets : asset[a].holder = v => asset'[a].holder = v,
         \A l \in Links : Exists(l) => Exists(l)',
         \A l \in Links : asset[l[1]].holder = v => Total(l)' = Total(l)
  PROVE  ImportOK(v)'
<1>1. CASE tx[v] = Idle
  BY <1>1 DEF ImportOK, WalkOK, HoldsOK, IngestedOK
<1>2. CASE tx[v] # Idle
  <2>1. tx[v] \in Transaction /\ tx[v].links \subseteq Links /\ tx[v].done \subseteq InFile(v)
    BY <1>2, AtWork DEF Transaction, ImportOK, WalkOK
  <2>2. WalkOK(v)'
    BY <1>2 DEF ImportOK, WalkOK, InFile, Owned, Row, Pair
  <2>3. Row(v)' = Row(v)
    BY DEF Row
  <2>4. tx[v].pc = "link" => Row(v).asset \in Assets
    BY <1>2, InHand DEF ImportOK, Rows
  <2>5. \A l \in tx[v].links : l[1] \in Assets
    BY <2>1 DEF Links
  <2>6. HoldsOK(v)'
    BY <1>2, <2>1, <2>3, <2>4, <2>5 DEF ImportOK, HoldsOK
  <2>7. Ingested(v) \subseteq Links
    BY <1>2, <2>1, AtWork, RowsOfFiles DEF Ingested, InFile
  <2>8. \A l \in Links : Present(l, v) => Present(l, v)'
    BY DEF Present
  <2>9. Ingested(v)' = Ingested(v) /\ \A l \in Links : Owned(l, v)' = Owned(l, v)
    BY DEF Ingested, Owned
  <2>10. IngestedOK(v)'
    BY <1>2, <2>1, <2>7, <2>8, <2>9 DEF ImportOK, IngestedOK
  <2>11. QED BY <2>2, <2>6, <2>10 DEF ImportOK
<1>3. QED BY <1>1, <1>2

\* Nothing is recorded by a step that leaves the rows and the reports alone.
LEMMA NothingRecorded ==
  ASSUME IndInv, UNCHANGED <<link, report>>
  PROVE  /\ OneRowPerSubject' /\ ReportsAreTrue'
         /\ \A l \in Links : Total(l)' = Total(l) /\ (Exists(l) => Exists(l)')
BY DEF IndInv, OneRowPerSubject, ReportsAreTrue, Total, Exists

\* A row under a lock
LEMMA SlotTypes ==
  ASSUME NEW V, NEW r \in Slot(V), NEW v \in V, NEW w \in Importers
  PROVE  /\ Put(r, w, v) \in Slot(V) /\ Put(r, w, v).holder = w
         /\ Seen(r, w) \in V /\ Kept(r, w) \in Slot(V) /\ Dropped(r, w) \in Slot(V)
         /\ r.holder # w => Kept(r, w) = r /\ Dropped(r, w) = r
BY DEF Slot, Put, Seen, Kept, Dropped, Stored

LEMMA MovesType ==
  ASSUME TypeOK, NEW w \in Importers, NEW r \in Transaction \cup {Idle},
         tx' = [tx EXCEPT ![w] = r]
  PROVE  /\ tx' \in [Importers -> Transaction \cup {Idle}]
         /\ tx'[w] = r /\ \A v \in Importers \ {w} : tx'[v] = tx[v]
BY DEF TypeOK

-----------------------------------------------------------------------------
(* import_manifest                                                         *)

LEMMA ImportKeeps ==
  ASSUME IndInv, NEW w \in Importers, NEW f \in Files, NEW p \in Projects, Import(w, f, p)
  PROVE  IndInv'
<1> DEFINE r == [pc |-> IF Manifest[f] = <<>> THEN "finishing" ELSE "collection",
                 file |-> f, project |-> p, at |-> 1, done |-> {}, links |-> {}]
<1>1. r \in Transaction /\ r # Idle
  BY DEF Transaction, Idle
<1>2. r.pc # "finishing" => r.at \in DOMAIN Manifest[r.file]
  <2>1. Manifest[f] \in Seq(Rows)
    BY ExchangeAssumption
  <2>2. QED BY <2>1
<1>3. r.pc \in {"finishing", "collection"} /\ r.done = {} /\ r.links = {}
  OBVIOUS
<1>4. tx' = [tx EXCEPT ![w] = r]
  BY DEF Import, Begin
<1> HIDE DEF r
<1>5. TypeOK
  BY DEF IndInv
<1>6. /\ tx' \in [Importers -> Transaction \cup {Idle}]
      /\ tx'[w] = r /\ \A v \in Importers \ {w} : tx'[v] = tx[v]
  BY <1>1, <1>4, <1>5, MovesType
<1>7. UNCHANGED <<consent, lapsed, collection, asset, link, accepted, report, lock, sweep>>
  BY DEF Import, consentVars, tableVars, batchVars, sweepVars
<1>8. TypeOK'
  BY <1>5, <1>6, <1>7 DEF TypeOK
<1>9. ImportOK(w)'
  BY <1>1, <1>2, <1>3, <1>6 DEF ImportOK, WalkOK, InFile, HoldsOK, IngestedOK, Ingested
<1>10. /\ OneRowPerSubject' /\ ReportsAreTrue'
       /\ \A l \in Links : Total(l)' = Total(l) /\ (Exists(l) => Exists(l)')
  BY <1>7, NothingRecorded
<1>11. ASSUME NEW v \in Importers \ {w} PROVE ImportOK(v)'
  BY <1>5, <1>6, <1>7, <1>8, <1>10, Undisturbed DEF IndInv
<1>12. QED BY <1>8, <1>9, <1>10, <1>11 DEF IndInv

\* The statements of a row leave the consents, the batches and the recorded rows alone.
LEMMA RowStep ==
  ASSUME IndInv, TypeOK', NEW w \in Importers,
         UNCHANGED <<link, report>>,
         \A v \in Importers \ {w} : tx'[v] = tx[v],
         \A v \in Importers \ {w} : \A a \in Assets :
            asset[a].holder = v => asset'[a].holder = v,
         ImportOK(w)'
  PROVE  IndInv'
<1>1. /\ OneRowPerSubject' /\ ReportsAreTrue'
      /\ \A l \in Links : Total(l)' = Total(l) /\ (Exists(l) => Exists(l)')
  BY NothingRecorded
<1>2. ASSUME NEW v \in Importers \ {w} PROVE ImportOK(v)'
  BY <1>1, Undisturbed DEF IndInv
<1>3. QED BY <1>1, <1>2 DEF IndInv

LEMMA UpsertCollectionKeeps ==
  ASSUME IndInv, NEW w \in Importers, UpsertCollection(w)
  PROVE  IndInv'
<1>1. TypeOK /\ ImportOK(w)
  BY DEF IndInv
<1>2. tx[w] # Idle /\ tx[w].pc = "collection"
  BY DEF UpsertCollection, Idle
<1>3. /\ tx[w] \in Transaction /\ tx[w].at \in InFile(w)
      /\ Row(w) \in Rows /\ Row(w).subject = Pair(Row(w))[2]
  BY <1>1, <1>2, InHand DEF ImportOK
<1>4. /\ tx[w].done \in SUBSET InFile(w) /\ tx[w].links \in SUBSET Links
      /\ tx[w].project \in Projects
  BY <1>1, <1>2, <1>3 DEF ImportOK, WalkOK, Transaction
<1> DEFINE r == IF Refused(w) THEN Advance(w, tx[w].done, tx[w].links)
                ELSE [tx[w] EXCEPT !.pc = "asset"]
<1>5. /\ r \in Transaction /\ r # Idle /\ r.file = tx[w].file /\ r.project = tx[w].project
      /\ r.done = tx[w].done /\ r.links = tx[w].links
      /\ r.pc \in {"asset", "collection", "finishing"}
      /\ r.pc # "finishing" => r.at \in InFile(w)
      /\ r.pc = "asset" => ~Refused(w) /\ r.at = tx[w].at
  <2>1. CASE Refused(w)
    BY <1>1, <1>2, <1>4, <2>1, AdvanceType DEF ImportOK, InFile
  <2>2. CASE ~Refused(w)
    BY <1>3, <2>2 DEF Transaction, Idle
  <2>3. QED BY <2>1, <2>2
<1>6. tx' = [tx EXCEPT ![w] = r]
  BY DEF UpsertCollection
<1> HIDE DEF r
<1>7. /\ tx' \in [Importers -> Transaction \cup {Idle}]
      /\ tx'[w] = r /\ \A v \in Importers \ {w} : tx'[v] = tx[v]
  BY <1>1, <1>5, <1>6, MovesType
<1>8. UNCHANGED <<consent, lapsed, asset, link, accepted, report, lock, sweep>>
  BY DEF UpsertCollection, consentVars, batchVars, sweepVars
<1>9. collection' \in [Collections -> Slot(Projects \cup {None})]
  <2> DEFINE V == Projects \cup {None}
             c == Row(w).collection
             v == IF Seen(collection[c], w) = None THEN tx[w].project
                  ELSE Seen(collection[c], w)
  <2>1. c \in Collections /\ collection \in [Collections -> Slot(V)]
    BY <1>1, <1>3 DEF TypeOK, Rows
  <2>2. collection[c] \in Slot(V) /\ tx[w].project \in V
    BY <1>4, <2>1
  <2>3. Seen(collection[c], w) \in V
    BY <2>2, SlotTypes
  <2>4. v \in V
    BY <2>2, <2>3
  <2>5. Put(collection[c], w, v) \in Slot(V)
    BY <2>2, <2>4, SlotTypes
  <2>6. collection' = [collection EXCEPT ![c] = Put(collection[c], w, v)]
    BY DEF UpsertCollection
  <2>7. QED BY <2>1, <2>5, <2>6
<1>10. TypeOK'
  BY <1>1, <1>7, <1>8, <1>9 DEF TypeOK
<1>11. WalkOK(w)'
  <2>1. r.pc = "asset" => Row(w)' = Row(w)
    BY <1>5, <1>7 DEF Row
  <2>2. r.pc = "asset" => Owned(Pair(Row(w)), w)
    BY <1>3, <1>5 DEF Owned, Refused
  <2>3. r.pc = "asset" => Owned(Pair(Row(w)), w)'
    BY <1>5, <1>7, <2>1, <2>2 DEF Owned, Pair
  <2>4. QED BY <1>4, <1>5, <1>7, <2>3 DEF WalkOK, InFile
<1>12. HoldsOK(w)'
  BY <1>1, <1>2, <1>5, <1>7, <1>8 DEF ImportOK, HoldsOK, Total
<1>13. IngestedOK(w)'
  BY <1>1, <1>2, <1>5, <1>7, <1>8 DEF ImportOK, IngestedOK, Ingested, Owned, Present, Exists
<1>14. ImportOK(w)'
  BY <1>11, <1>12, <1>13 DEF ImportOK
<1>15. QED BY <1>7, <1>8, <1>10, <1>14, RowStep

\* From here on the import holds the asset, and nobody who holds it loses it.
LEMMA UpsertAssetKeeps ==
  ASSUME IndInv, NEW w \in Importers, UpsertAsset(w)
  PROVE  IndInv'
<1>1. TypeOK /\ ImportOK(w)
  BY DEF IndInv
<1>2. tx[w] # Idle /\ tx[w].pc = "asset"
  BY DEF UpsertAsset, Idle
<1>3. /\ tx[w] \in Transaction /\ tx[w].at \in InFile(w)
      /\ Row(w) \in Rows
  BY <1>1, <1>2, InHand DEF ImportOK
<1> DEFINE r == [tx[w] EXCEPT !.pc = "link"]
           a == Row(w).asset
           V == [collection : Collections \cup {None}, flag : BOOLEAN]
           old == Seen(asset[a], w)
           v == [collection |-> IF old = NoAsset THEN Row(w).collection ELSE old.collection,
                 flag |-> Flag(Row(w))]
<1>4. /\ r \in Transaction /\ r # Idle /\ r.file = tx[w].file /\ r.project = tx[w].project
      /\ r.done = tx[w].done /\ r.links = tx[w].links /\ r.pc = "link" /\ r.at = tx[w].at
  BY <1>3 DEF Transaction, Idle
<1>5. tx' = [tx EXCEPT ![w] = r]
  BY DEF UpsertAsset
<1>6. /\ tx' \in [Importers -> Transaction \cup {Idle}]
      /\ tx'[w] = r /\ \A u \in Importers \ {w} : tx'[u] = tx[u]
  BY <1>1, <1>4, <1>5, MovesType
<1>7. UNCHANGED <<consent, lapsed, collection, link, accepted, report, lock, sweep>>
  BY DEF UpsertAsset, consentVars, batchVars, sweepVars
<1>8. a \in Assets /\ asset \in [Assets -> Slot(V)] /\ asset[a] \in Slot(V)
  BY <1>1, <1>3 DEF TypeOK, Rows
<1>9. v \in V
  <2>1. NoAsset \in V
    BY DEF NoAsset
  <2>2. old \in V
    BY <1>8, <2>1, SlotTypes
  <2>3. QED BY <1>3, <2>2 DEF Rows, Flag
<1>10. Put(asset[a], w, v) \in Slot(V) /\ Put(asset[a], w, v).holder = w
  <2> HIDE DEF V, v, a
  <2>1. QED BY <1>8, <1>9, SlotTypes
<1>11. asset' = [asset EXCEPT ![a] = Put(asset[a], w, v)] /\ Free(asset[a], w)
  BY DEF UpsertAsset, AssetFree
<1> HIDE DEF r, V, v
<1>12. /\ asset' \in [Assets -> Slot(V)] /\ asset'[a].holder = w
       /\ \A b \in Assets : asset[b].holder \notin {Nobody, w} => asset'[b] = asset[b]
       /\ \A b \in Assets : asset[b].holder = w => asset'[b].holder = w
  BY <1>8, <1>10, <1>11 DEF Free
<1>13. TypeOK'
  BY <1>1, <1>6, <1>7, <1>12 DEF TypeOK, V
<1>14. \A u \in Importers \ {w} : \A b \in Assets :
         asset[b].holder = u => asset'[b].holder = u
  BY <1>12, ExchangeAssumption
<1>15. Row(w)' = Row(w)
  BY <1>4, <1>6 DEF Row
<1>16. WalkOK(w)'
  <2>1. Owned(Pair(Row(w)), w)
    BY <1>1, <1>2 DEF ImportOK, WalkOK
  <2>2. Owned(Pair(Row(w)), w)'
    BY <1>4, <1>6, <1>15, <2>1 DEF Owned, Pair
  <2>3. tx[w].done \subseteq InFile(w)
    BY <1>1, <1>2 DEF ImportOK, WalkOK
  <2>4. QED BY <1>3, <1>4, <1>6, <2>2, <2>3 DEF WalkOK, InFile
<1>17. HoldsOK(w)'
  <2>1. \A l \in tx[w].links : l[1] \in Assets /\ asset[l[1]].holder = w /\ Total(l) = 0
    BY <1>1, <1>2, <1>3 DEF ImportOK, HoldsOK, Transaction, Links
  <2>2. \A l \in tx'[w].links : asset'[l[1]].holder = w /\ Total(l)' = 0
    BY <1>4, <1>6, <1>7, <1>12, <2>1 DEF Total
  <2>3. asset'[Row(w)'.asset].holder = w
    BY <1>12, <1>15
  <2>4. QED BY <2>2, <2>3 DEF HoldsOK
<1>18. IngestedOK(w)'
  BY <1>1, <1>2, <1>4, <1>6, <1>7 DEF ImportOK, IngestedOK, Ingested, Owned, Present, Exists
<1>19. ImportOK(w)'
  BY <1>16, <1>17, <1>18 DEF ImportOK
<1>20. QED BY <1>6, <1>7, <1>13, <1>14, <1>19, RowStep

\* What is not there is going to be inserted; the asset is held since before the look.
LEMMA LinkSubjectKeeps ==
  ASSUME IndInv, NEW w \in Importers, LinkSubject(w)
  PROVE  IndInv'
<1>1. TypeOK /\ ImportOK(w)
  BY DEF IndInv
<1>2. tx[w] # Idle /\ tx[w].pc = "link"
  BY DEF LinkSubject, Idle
<1> DEFINE l == Pair(Row(w))
           done == tx[w].done \cup {tx[w].at}
           links == IF Present(l, w) THEN tx[w].links ELSE tx[w].links \cup {l}
           r == Advance(w, done, links)
<1>3. /\ tx[w] \in Transaction /\ tx[w].at \in InFile(w) /\ l \in Links
      /\ Row(w) = Manifest[tx[w].file][tx[w].at] /\ Row(w).asset = l[1]
  BY <1>1, <1>2, InHand DEF ImportOK
<1>4. done \in SUBSET InFile(w) /\ links \in SUBSET Links
  BY <1>1, <1>2, <1>3 DEF ImportOK, WalkOK, Transaction
<1>5. /\ r \in Transaction /\ r # Idle /\ r.file = tx[w].file /\ r.project = tx[w].project
      /\ r.done = done /\ r.links = links /\ r.pc \in {"collection", "finishing"}
      /\ r.pc # "finishing" => r.at \in InFile(w)
  BY <1>1, <1>2, <1>4, AdvanceType DEF ImportOK, InFile
<1>6. tx' = [tx EXCEPT ![w] = r]
  BY DEF LinkSubject
<1> HIDE DEF r
<1>7. /\ tx' \in [Importers -> Transaction \cup {Idle}]
      /\ tx'[w] = r /\ \A u \in Importers \ {w} : tx'[u] = tx[u]
  BY <1>1, <1>5, <1>6, MovesType
<1>8. UNCHANGED <<consent, lapsed, collection, asset, link, accepted, report, lock, sweep>>
  BY DEF LinkSubject, consentVars, tableVars, batchVars, sweepVars
<1>9. TypeOK'
  BY <1>1, <1>7, <1>8 DEF TypeOK
<1>10. WalkOK(w)'
  BY <1>4, <1>5, <1>7 DEF WalkOK, InFile
<1>11. HoldsOK(w)'
  <2>1. asset[l[1]].holder = w
    BY <1>1, <1>2, <1>3 DEF ImportOK, HoldsOK
  <2>2. ~Present(l, w) => Total(l) = 0
    BY <1>1, <1>3, TotalsAreNumbers DEF Present
  <2>3. \A k \in links : asset[k[1]].holder = w /\ Total(k) = 0
    BY <1>1, <1>2, <2>1, <2>2 DEF ImportOK, HoldsOK
  <2>4. QED BY <1>5, <1>7, <1>8, <2>3 DEF HoldsOK, Total
<1>12. IngestedOK(w)'
  <2>1. Ingested(w)' = Ingested(w) \cup {l}
    BY <1>3, <1>5, <1>7 DEF Ingested
  <2>2. Owned(l, w)
    BY <1>1, <1>2 DEF ImportOK, WalkOK
  <2>3. \A k \in Ingested(w) \cup {l} : Exists(k) \/ k \in links
    BY <1>1, <1>2 DEF ImportOK, IngestedOK, Present
  <2>4. \A k \in links : k \in Ingested(w) \cup {l} /\ Owned(k, w)
    BY <1>1, <1>2, <2>2 DEF ImportOK, IngestedOK
  <2> HIDE DEF links, done, l
  <2>5. \A k \in Ingested(w)' : Present(k, w)'
    BY <1>5, <1>7, <1>8, <2>1, <2>3 DEF Present, Exists
  <2>6. \A k \in links : Owned(k, w)'
    BY <1>5, <1>7, <2>4 DEF Owned
  <2>7. QED BY <1>5, <1>7, <2>1, <2>4, <2>5, <2>6 DEF IngestedOK
<1>13. ImportOK(w)'
  BY <1>10, <1>11, <1>12 DEF ImportOK
<1>14. QED BY <1>7, <1>8, <1>9, <1>13, RowStep

\* The end of an import lets go of its own rows only.
LEMMA LetGo ==
  ASSUME TypeOK, NEW w \in Importers, tx[w] # Idle, tx' = [tx EXCEPT ![w] = Idle],
         \/ /\ collection' = [c \in Collections |-> Kept(collection[c], w)]
            /\ asset' = [a \in Assets |-> Kept(asset[a], w)]
         \/ /\ collection' = [c \in Collections |-> Dropped(collection[c], w)]
            /\ asset' = [a \in Assets |-> Dropped(asset[a], w)]
  PROVE  /\ collection' \in [Collections -> Slot(Projects \cup {None})]
         /\ asset' \in [Assets -> Slot([collection : Collections \cup {None}, flag : BOOLEAN])]
         /\ \A a \in Assets : asset[a].holder # w => asset'[a] = asset[a]
         /\ tx' \in [Importers -> Transaction \cup {Idle}]
         /\ tx'[w] = Idle /\ \A v \in Importers \ {w} : tx'[v] = tx[v]
         /\ ImportOK(w)'
<1> DEFINE P == Projects \cup {None}
           V == [collection : Collections \cup {None}, flag : BOOLEAN]
<1>1. collection \in [Collections -> Slot(P)] /\ asset \in [Assets -> Slot(V)]
  BY DEF TypeOK
<1>2. NoAsset \in V /\ None \in P
  BY DEF NoAsset
<1> HIDE DEF P, V
<1>3. \A c \in Collections :
        Kept(collection[c], w) \in Slot(P) /\ Dropped(collection[c], w) \in Slot(P)
  BY <1>1, <1>2, SlotTypes
<1>4. \A a \in Assets :
        /\ Kept(asset[a], w) \in Slot(V) /\ Dropped(asset[a], w) \in Slot(V)
        /\ asset[a].holder # w => Kept(asset[a], w) = asset[a] /\ Dropped(asset[a], w) = asset[a]
  BY <1>1, <1>2, SlotTypes
<1>5. /\ collection' \in [Collections -> Slot(P)] /\ asset' \in [Assets -> Slot(V)]
      /\ \A a \in Assets : asset[a].holder # w => asset'[a] = asset[a]
  BY <1>3, <1>4
<1>6. /\ tx' \in [Importers -> Transaction \cup {Idle}]
      /\ tx'[w] = Idle /\ \A v \in Importers \ {w} : tx'[v] = tx[v]
  BY MovesType
<1>7. ImportOK(w)'
  BY <1>6 DEF ImportOK, WalkOK, HoldsOK, IngestedOK
<1>8. QED BY <1>5, <1>6, <1>7 DEF P, V

LEMMA AbortKeeps ==
  ASSUME IndInv, NEW w \in Importers, Abort(w)
  PROVE  IndInv'
<1>1. TypeOK
  BY DEF IndInv
<1>2. UNCHANGED <<consent, lapsed, link, accepted, report, lock, sweep>>
  BY DEF Abort, consentVars, batchVars, sweepVars
<1>3. /\ collection' \in [Collections -> Slot(Projects \cup {None})]
      /\ asset' \in [Assets -> Slot([collection : Collections \cup {None}, flag : BOOLEAN])]
      /\ \A a \in Assets : asset[a].holder # w => asset'[a] = asset[a]
      /\ tx' \in [Importers -> Transaction \cup {Idle}]
      /\ \A v \in Importers \ {w} : tx'[v] = tx[v]
      /\ ImportOK(w)'
  BY <1>1, LetGo DEF Abort
<1>4. TypeOK'
  BY <1>1, <1>2, <1>3 DEF TypeOK
<1>5. QED BY <1>2, <1>3, <1>4, RowStep

\* The commit records what was absent, and nobody else was about to.
LEMMA FinishKeeps ==
  ASSUME IndInv, NEW w \in Importers, Finish(w)
  PROVE  IndInv'
<1>1. TypeOK /\ ImportOK(w) /\ tx[w] # Idle
  BY DEF IndInv, Finish, Idle
<1>2. /\ tx[w] \in Transaction /\ tx[w].file \in Files /\ tx[w].project \in Projects
      /\ tx[w].done \subseteq DOMAIN Manifest[tx[w].file] /\ tx[w].links \subseteq Links
  BY <1>1, AtWork DEF ImportOK, WalkOK, InFile, Transaction
<1>3. UNCHANGED <<consent, lapsed, lock, sweep>>
  BY DEF Finish, consentVars, sweepVars
<1>4. /\ collection' \in [Collections -> Slot(Projects \cup {None})]
      /\ asset' \in [Assets -> Slot([collection : Collections \cup {None}, flag : BOOLEAN])]
      /\ \A a \in Assets : asset[a].holder # w => asset'[a] = asset[a]
      /\ tx' \in [Importers -> Transaction \cup {Idle}]
      /\ \A v \in Importers \ {w} : tx'[v] = tx[v]
      /\ ImportOK(w)'
  BY <1>1, LetGo DEF Finish
<1>5. \A l \in Links : link'[l] = IF l \in tx[w].links THEN [link[l] EXCEPT !.active = @ + 1]
                                  ELSE link[l]
  BY DEF Finish
<1>6. \A l \in Links : link'[l] \in [active : Nat, quarantined : Nat]
  <2> TAKE l \in Links
  <2>1. link[l] \in [active : Nat, quarantined : Nat]
    BY <1>1, TotalsAreNumbers
  <2>2. CASE l \in tx[w].links
    BY <1>5, <2>1, <2>2, OneMore
  <2>3. CASE l \notin tx[w].links
    BY <1>5, <2>1, <2>3
  <2>4. QED BY <2>2, <2>3
<1>7. link' \in [Links -> [active : Nat, quarantined : Nat]]
  <2>1. link' = [l \in Links |-> link'[l]]
    BY DEF Finish
  <2>2. QED BY <1>6, <2>1
<1>8. accepted' \in [Files -> Nat]
  BY <1>1, <1>2 DEF Finish, TypeOK
<1>9. report' = report \cup {<<tx[w].file, i, tx[w].project>> : i \in tx[w].done}
  BY DEF Finish, Reported
<1>10. \A r \in report' : r[1] \in Files /\ r[2] \in DOMAIN Manifest[r[1]] /\ r[3] \in Projects
  BY <1>1, <1>2, <1>9 DEF TypeOK
<1>11. TypeOK'
  BY <1>1, <1>3, <1>4, <1>7, <1>8, <1>10 DEF TypeOK
<1>12. \A l \in Links : /\ l \in tx[w].links => Total(l) = 0 /\ Total(l)' = 1
                        /\ l \notin tx[w].links => Total(l)' = Total(l)
  <2> TAKE l \in Links
  <2>1. link[l] \in [active : Nat, quarantined : Nat]
    BY <1>1, TotalsAreNumbers
  <2>2. l \in tx[w].links => Total(l) = 0
    BY <1>1 DEF ImportOK, HoldsOK
  <2>3. CASE l \in tx[w].links
    <3>1. link'[l].active = link[l].active + 1 /\ link'[l].quarantined = link[l].quarantined
      BY <1>5, <2>1, <2>3, OneMore
    <3>2. QED BY <2>1, <2>2, <2>3, <3>1 DEF Total
  <2>4. CASE l \notin tx[w].links
    BY <1>5, <2>4 DEF Total
  <2>5. QED BY <2>3, <2>4
<1>13. \A l \in Links : Total(l)' \in Nat /\ (Exists(l)' <=> Total(l)' > 0)
  BY <1>6 DEF Total, Exists
<1>14. \A l \in Links : (Exists(l) => Exists(l)') /\ (l \in tx[w].links => Exists(l)')
  BY <1>1, <1>12, <1>13, TotalsAreNumbers
<1>15. OneRowPerSubject'
  BY <1>12 DEF IndInv, OneRowPerSubject, Total
<1>16. ReportsAreTrue'
  <2>1. ASSUME NEW r \in report' PROVE Exists(Pair(Manifest[r[1]][r[2]]))'
    <3>1. CASE r \in report
      <4>1. r[1] \in Files /\ r[2] \in DOMAIN Manifest[r[1]]
        BY <1>1, <3>1 DEF TypeOK
      <4>2. Pair(Manifest[r[1]][r[2]]) \in Links
        BY <4>1, RowsOfFiles
      <4>3. Exists(Pair(Manifest[r[1]][r[2]]))
        BY <3>1 DEF IndInv, ReportsAreTrue
      <4>4. QED BY <1>14, <4>2, <4>3 DEF Exists
    <3>2. CASE r \notin report
      <4>1. PICK i \in tx[w].done : r = <<tx[w].file, i, tx[w].project>>
        BY <1>9, <3>2
      <4>2. Pair(Manifest[tx[w].file][i]) \in Ingested(w)
        BY DEF Ingested
      <4>3. PICK l \in Links : l = Pair(Manifest[r[1]][r[2]]) /\ l \in Ingested(w)
        BY <1>2, <4>1, <4>2, RowsOfFiles
      <4>4. Present(l, w)
        BY <1>1, <4>3 DEF ImportOK, IngestedOK
      <4>5. Exists(l)'
        BY <1>14, <4>4 DEF Present
      <4>6. QED BY <4>3, <4>5 DEF Exists
    <3>3. QED BY <3>1, <3>2
  <2>2. ASSUME NEW l \in Links, Exists(l)'
        PROVE  \E r \in report' : /\ Pair(Manifest[r[1]][r[2]]) = l
                                  /\ l[2] # Bystander => ConsentProject[l[2]] = r[3]
    <3>1. CASE l \in tx[w].links
      <4>1. l \in Ingested(w) /\ Owned(l, w)
        BY <1>1, <3>1 DEF ImportOK, IngestedOK
      <4>2. PICK i \in tx[w].done : l = Pair(Manifest[tx[w].file][i])
        BY <4>1 DEF Ingested
      <4>3. <<tx[w].file, i, tx[w].project>> \in report'
        BY <1>9
      <4>4. QED BY <4>1, <4>2, <4>3 DEF Owned
    <3>2. CASE l \notin tx[w].links
      <4>1. Exists(l)
        BY <1>1, <1>12, <1>13, <2>2, <3>2, TotalsAreNumbers
      <4>2. QED BY <1>9, <4>1 DEF IndInv, ReportsAreTrue
    <3>3. QED BY <3>1, <3>2
  <2>3. QED BY <2>1, <2>2 DEF ReportsAreTrue
<1>17. ASSUME NEW v \in Importers \ {w} PROVE ImportOK(v)'
  <2>1. \A l \in Links : asset[l[1]].holder = v => Total(l)' = Total(l)
    BY <1>1, <1>12 DEF ImportOK, HoldsOK
  <2>2. \A a \in Assets : asset[a].holder = v => asset'[a].holder = v
    BY <1>4
  <2>3. QED BY <1>1, <1>4, <1>11, <1>14, <2>1, <2>2, Undisturbed DEF IndInv
<1>18. QED BY <1>4, <1>11, <1>15, <1>16, <1>17 DEF IndInv

-----------------------------------------------------------------------------
(* The sweep and the consents                                              *)

\* Who changes no row of a subject but its disposition disturbs no import.
LEMMA OthersKeep ==
  ASSUME IndInv, TypeOK', UNCHANGED <<asset, report, tx>>,
         \A l \in Links : Total(l)' = Total(l)
  PROVE  IndInv'
<1>1. \A l \in Links : Exists(l)' <=> Exists(l)
  <2> TAKE l \in Links
  <2>1. (Exists(l)' <=> Total(l)' > 0) /\ (Exists(l) <=> Total(l) > 0)
    BY DEF Exists, Total
  <2>2. QED BY <2>1
<1>2. OneRowPerSubject'
  BY DEF IndInv, OneRowPerSubject, Total
<1>3. ReportsAreTrue'
  <2>1. ASSUME NEW r \in report PROVE Exists(Pair(Manifest[r[1]][r[2]]))'
    <3>1. PICK l \in Links : l = Pair(Manifest[r[1]][r[2]])
      BY RowsOfFiles DEF IndInv, TypeOK
    <3>2. Exists(l)
      BY <3>1 DEF IndInv, ReportsAreTrue
    <3>3. QED BY <1>1, <3>1, <3>2 DEF Exists
  <2>2. QED BY <1>1, <2>1 DEF IndInv, ReportsAreTrue
<1>4. ASSUME NEW v \in Importers PROVE ImportOK(v)'
  BY <1>1, Undisturbed DEF IndInv
<1>5. QED BY <1>2, <1>3, <1>4 DEF IndInv

LEMMA SweepMoves ==
  ASSUME TypeOK, NEW v \in Sweepers, NEW r \in Sweep \cup {Rest},
         sweep' = [sweep EXCEPT ![v] = r]
  PROVE  sweep' \in [Sweepers -> Sweep \cup {Rest}]
BY DEF TypeOK

LEMMA SweepKeeps ==
  ASSUME IndInv, NEW v \in Sweepers,
         TakeLock(v) \/ Select(v) \/ Apply(v) \/ Release(v) \/ Crash(v)
  PROVE  IndInv'
<1>1. TypeOK
  BY DEF IndInv
<1>2. UNCHANGED <<consent, lapsed, collection, asset, accepted, report, tx>>
  BY DEF TakeLock, Select, Apply, Release, Crash, consentVars, tableVars, batchVars
<1>3. lock' \in Sweepers \cup {Nobody}
  BY <1>1 DEF TypeOK, TakeLock, Select, Apply, Release, Crash
<1>4. sweep' \in [Sweepers -> Sweep \cup {Rest}]
  <2>1. CASE TakeLock(v)
    <3>1. [pc |-> "selecting", todo |-> {}] \in Sweep
      BY DEF Sweep
    <3>2. QED BY <1>1, <2>1, <3>1, SweepMoves DEF TakeLock
  <2>2. CASE Select(v)
    <3>1. PICK items \in SUBSET Matching :
            sweep' = [sweep EXCEPT ![v] = [pc |-> "applying", todo |-> items]]
      BY <2>2 DEF Select
    <3>2. Matching \subseteq Links \X {"quarantine", "erase"}
      BY DEF Matching
    <3>3. [pc |-> "applying", todo |-> items] \in Sweep
      BY <3>2 DEF Sweep
    <3>4. QED BY <1>1, <3>1, <3>3, SweepMoves
  <2>3. CASE Apply(v)
    <3>1. [pc |-> "releasing", todo |-> {}] \in Sweep
      BY DEF Sweep
    <3>2. QED BY <1>1, <2>3, <3>1, SweepMoves DEF Apply
  <2>4. CASE Release(v) \/ Crash(v)
    BY <1>1, <2>4, SweepMoves DEF Release, Crash
  <2>5. QED BY <2>1, <2>2, <2>3, <2>4
<1>5. \A l \in Links : /\ link'[l] \in [active : Nat, quarantined : Nat]
                       /\ Total(l)' = Total(l)
  <2> TAKE l \in Links
  <2>1. link[l] \in [active : Nat, quarantined : Nat]
    BY <1>1, TotalsAreNumbers
  <2>2. \/ link'[l] = link[l]
        \/ link'[l] = [active |-> 0, quarantined |-> link[l].active + link[l].quarantined]
    BY DEF TakeLock, Select, Apply, Release, Crash, tableVars
  <2>3. QED BY <2>1, <2>2 DEF Total
<1>6. link' \in [Links -> [active : Nat, quarantined : Nat]]
  <2>1. link' = [l \in Links |-> link'[l]]
    BY <1>1 DEF TypeOK, TakeLock, Select, Apply, Release, Crash, tableVars
  <2>2. QED BY <1>5, <2>1
<1>7. TypeOK'
  BY <1>1, <1>2, <1>3, <1>4, <1>6 DEF TypeOK
<1>8. QED BY <1>2, <1>5, <1>7, OthersKeep

LEMMA ConsentsKeep ==
  ASSUME IndInv, LockExpires \/ \E k \in Consents : Consent(k) \/ Supersede(k) \/ Lapse(k)
  PROVE  IndInv'
<1>1. TypeOK
  BY DEF IndInv
<1>2. UNCHANGED <<collection, asset, link, accepted, report, tx, sweep>>
  BY DEF LockExpires, Consent, Supersede, Lapse, tableVars, batchVars, sweepVars
<1>3. TypeOK'
  <2>1. CASE LockExpires
    BY <1>1, <1>2, <2>1 DEF TypeOK, LockExpires, consentVars
  <2>2. CASE \E k \in Consents : Consent(k) \/ Supersede(k)
    BY <1>1, <1>2, <2>2 DEF TypeOK, Consent, Supersede, sweepVars
  <2>3. CASE \E k \in Consents : Lapse(k)
    BY <1>1, <1>2, <2>3 DEF TypeOK, Lapse, sweepVars
  <2>4. QED BY <2>1, <2>2, <2>3
<1>4. QED BY <1>2, <1>3, OthersKeep DEF Total

-----------------------------------------------------------------------------
LEMMA NextKeeps == ASSUME IndInv, [Next]_vars PROVE IndInv'
<1>1. CASE UNCHANGED vars
  <2>1. UNCHANGED <<consent, lapsed, collection, asset, link, accepted, report, tx, lock, sweep>>
    BY <1>1 DEF vars
  <2>2. TypeOK'
    BY <2>1 DEF IndInv, TypeOK
  <2>3. QED BY <2>1, <2>2, OthersKeep DEF Total
<1>2. ASSUME NEW w \in Importers, NEW f \in Files, NEW p \in Projects, Import(w, f, p)
      PROVE  IndInv'
  BY <1>2, ImportKeeps
<1>3. ASSUME NEW w \in Importers, Ingest(w) PROVE IndInv'
  BY <1>3, UpsertCollectionKeeps, UpsertAssetKeeps, LinkSubjectKeeps, FinishKeeps, AbortKeeps
     DEF Ingest
<1>4. ASSUME NEW v \in Sweepers,
             TakeLock(v) \/ Select(v) \/ Apply(v) \/ Release(v) \/ Crash(v)
      PROVE  IndInv'
  BY <1>4, SweepKeeps
<1>5. CASE LockExpires \/ \E k \in Consents : Consent(k) \/ Supersede(k) \/ Lapse(k)
  BY <1>5, ConsentsKeep
<1>6. QED BY <1>1, <1>2, <1>3, <1>4, <1>5 DEF Next

\* In every behaviour of the imports and the sweep the inductive invariant holds.
THEOREM Invariance == Spec => []IndInv
<1>1. QED BY InitIndInv, NextKeeps, PTL DEF Spec

\* Types: in particular what was reported names rows of the files (import_manifest).
THEOREM TypeCorrect == Spec => []TypeOK
<1>1. IndInv => TypeOK
  BY DEF IndInv
<1>2. QED BY <1>1, Invariance, PTL

\* However imports of overlapping files interleave, no subject of an asset is recorded
\* twice: the upsert of the asset holds its row from before asset_subject_exists.
THEOREM NoSubjectTwice == Spec => []OneRowPerSubject
<1>1. IndInv => OneRowPerSubject
  BY DEF IndInv
<1>2. QED BY <1>1, Invariance, PTL

\* What the batches report is what is recorded, under the project of the consent, through
\* refusals, rollbacks and repeated imports.
THEOREM BatchesTellTheTruth == Spec => []ReportsAreTrue
<1>1. IndInv => ReportsAreTrue
  BY DEF IndInv
<1>2. QED BY <1>1, Invariance, PTL

\* One step: the only row of a quarantined subject stays the only one, and nothing but an
\* import adds active rows.
LEMMA StepKeepsQuarantine ==
  ASSUME IndInv, [Next]_vars
  PROVE  \A l \in Links :
           link[l].quarantined > 0 => link'[l].active = 0 /\ link'[l].quarantined > 0
<1> TAKE l \in Links
<1> SUFFICES ASSUME link[l].quarantined > 0
             PROVE  link'[l].active = 0 /\ link'[l].quarantined > 0
  OBVIOUS
<1>1. link[l] \in [active : Nat, quarantined : Nat] /\ Total(l) <= 1
  BY TotalsAreNumbers DEF IndInv, OneRowPerSubject, Total
<1>2. link[l].active = 0 /\ Total(l) # 0
  BY <1>1 DEF Total
<1>3. CASE \E w \in Importers : Finish(w)
  <2>1. PICK w \in Importers : Finish(w)
    BY <1>3
  <2>2. tx[w] # Idle
    BY <2>1 DEF Finish, Idle
  <2>3. l \notin tx[w].links
    BY <1>2, <2>2 DEF IndInv, ImportOK, HoldsOK
  <2>4. QED BY <1>2, <2>1, <2>3 DEF Finish
<1>4. CASE \E v \in Sweepers : Apply(v)
  BY <1>1, <1>2, <1>4 DEF Apply
<1>5. CASE link' = link
  BY <1>2, <1>5
<1>6. QED
  BY <1>3, <1>4, <1>5
     DEF Next, Import, Ingest, UpsertCollection, UpsertAsset, LinkSubject, Abort, TakeLock,
         Select, Release, Crash, LockExpires, Consent, Supersede, Lapse, vars, tableVars

\* What a sweep has quarantined no later import makes available again: an asset imported a
\* second time keeps the row it has, whatever became of it.
THEOREM QuarantineIsFinal == Spec => QuarantineSticks
<1>1. [][\A l \in Links : link[l].quarantined > 0 =>
           link'[l].active = 0 /\ link'[l].quarantined > 0]_vars => QuarantineSticks
  BY PTL DEF QuarantineSticks
<1>2. QED BY <1>1, Invariance, StepKeepsQuarantine, PTL DEF Spec

-----------------------------------------------------------------------------
(* Imports and sweeps implement ImportPromise                              *)

\* A consent of the batch's project, or nobody's
CoveredBy(l, w) ==
  l[2] # Bystander => consent[l[2]] # "none" /\ ConsentProject[l[2]] = tx[w].project

\* What an import has accepted and the row it goes on with
CoveredOK(w) ==
  tx[w] # Idle =>
    /\ tx[w].pc \in {"asset", "link"} => CoveredBy(Pair(Row(w)), w)
    /\ \A l \in Ingested(w) : CoveredBy(l, w)

\* What a sweep is going to quarantine
ChosenOK(v) ==
  sweep[v].pc = "applying" =>
    \A l \in Links : <<l, "quarantine">> \in sweep[v].todo =>
      l[2] \in lapsed /\ "quarantine" \in LapseBehaviours[l[2]]

CoverInv == (\A w \in Importers : CoveredOK(w)) /\ (\A v \in Sweepers : ChosenOK(v))

LEMMA LinksByParts ==
  ASSUME NEW l \in Links
  PROVE  l[1] \in Assets /\ l[2] \in Subjects /\ (l[2] # Bystander => l[2] \in Consents)
BY DEF Links, Subjects

LEMMA IngestedAreLinks ==
  ASSUME IndInv, NEW w \in Importers, tx[w] # Idle
  PROVE  Ingested(w) \subseteq Links
<1>1. tx[w].done \subseteq DOMAIN Manifest[tx[w].file] /\ tx[w].file \in Files
  BY AtWork DEF IndInv, ImportOK, WalkOK, InFile
<1>2. QED BY <1>1, RowsOfFiles DEF Ingested

\* A consent that was given stays given, and what has elapsed stays so.
LEMMA ConsentsGrow ==
  ASSUME TypeOK, [Next]_vars
  PROVE  /\ \A k \in Consents : consent[k] # "none" => consent'[k] # "none"
         /\ lapsed \subseteq lapsed'
<1>1. CASE \E k \in Consents : Consent(k) \/ Supersede(k) \/ Lapse(k)
  BY <1>1 DEF TypeOK, Consent, Supersede, Lapse
<1>2. CASE UNCHANGED consentVars
  BY <1>2 DEF consentVars
<1>3. QED
  BY <1>1, <1>2
     DEF Next, Import, Ingest, UpsertCollection, UpsertAsset, LinkSubject, Finish, Abort,
         TakeLock, Select, Apply, Release, Crash, LockExpires, vars, consentVars

LEMMA CoverStays ==
  ASSUME IndInv, [Next]_vars, NEW w \in Importers, CoveredOK(w), tx'[w] = tx[w]
  PROVE  CoveredOK(w)'
<1>1. CASE tx[w] = Idle
  BY <1>1 DEF CoveredOK
<1>2. CASE tx[w] # Idle
  <2>1. TypeOK /\ WalkOK(w)
    BY DEF IndInv, ImportOK
  <2>2. Ingested(w)' = Ingested(w) /\ Row(w)' = Row(w) /\ Pair(Row(w))' = Pair(Row(w))
    BY DEF Ingested, Row, Pair
  <2>3. \A l \in Links : CoveredBy(l, w) => CoveredBy(l, w)'
    BY <2>1, ConsentsGrow, LinksByParts DEF CoveredBy
  <2>4. Ingested(w) \subseteq Links
    BY <1>2, IngestedAreLinks
  <2>5. tx[w].pc \in {"asset", "link"} => Pair(Row(w)) \in Links
    BY <1>2, <2>1, InHand
  <2>6. ASSUME tx[w].pc \in {"asset", "link"} PROVE CoveredBy(Pair(Row(w)), w)'
    <3>1. PICK l \in Links : l = Pair(Row(w))
      BY <2>5, <2>6
    <3>2. CoveredBy(l, w)'
      BY <1>2, <2>3, <2>6, <3>1 DEF CoveredOK
    <3>3. QED BY <2>2, <3>1, <3>2 DEF CoveredBy
  <2>8. \A l \in Ingested(w)' : CoveredBy(l, w)'
    BY <1>2, <2>2, <2>3, <2>4 DEF CoveredOK
  <2>9. QED BY <2>6, <2>8 DEF CoveredOK
<1>3. QED BY <1>1, <1>2

LEMMA ChoiceStays ==
  ASSUME TypeOK, [Next]_vars, NEW v \in Sweepers, ChosenOK(v), sweep'[v] = sweep[v]
  PROVE  ChosenOK(v)'
BY ConsentsGrow DEF ChosenOK

LEMMA ImportsAreCovered ==
  ASSUME IndInv, NEW w \in Importers, CoveredOK(w),
         Ingest(w) \/ \E f \in Files, p \in Projects : Import(w, f, p)
  PROVE  CoveredOK(w)' /\ \A v \in Importers \ {w} : tx'[v] = tx[v]
<1>1. TypeOK /\ WalkOK(w) /\ tx \in [Importers -> Transaction \cup {Idle}]
  BY DEF IndInv, ImportOK, TypeOK
<1>2. \A v \in Importers \ {w} : tx'[v] = tx[v]
  BY <1>1 DEF Import, Begin, Ingest, UpsertCollection, UpsertAsset, LinkSubject, Finish, Abort
<1>3. CASE \E f \in Files, p \in Projects : Import(w, f, p)
  BY <1>1, <1>3 DEF Import, Begin, CoveredOK, Ingested
<1>4. CASE Finish(w) \/ Abort(w)
  BY <1>1, <1>4 DEF Finish, Abort, CoveredOK
<1>5. CASE UpsertCollection(w)
  <2>1. tx[w] # Idle /\ tx[w].pc = "collection" /\ UNCHANGED consent
    BY <1>5 DEF UpsertCollection, Idle, consentVars
  <2>2. tx[w] \in Transaction /\ Pair(Row(w))[2] = Row(w).subject
    BY <1>1, <2>1, InHand
  <2>3. tx[w].done \in SUBSET InFile(w) /\ tx[w].links \in SUBSET Links
    BY <1>1, <2>1, <2>2 DEF WalkOK, Transaction
  <2>4. CASE Refused(w)
    <3>1. tx'[w] = Advance(w, tx[w].done, tx[w].links)
      BY <1>1, <1>5, <2>4 DEF UpsertCollection
    <3>2. /\ tx'[w].pc \in {"collection", "finishing"} /\ tx'[w].done = tx[w].done
          /\ tx'[w].file = tx[w].file /\ tx'[w].project = tx[w].project
      BY <1>1, <2>1, <2>3, <3>1, AdvanceType
    <3>3. \A l \in Ingested(w)' : CoveredBy(l, w)'
      BY <2>1, <3>2 DEF CoveredOK, Ingested, CoveredBy
    <3>4. QED BY <1>2, <3>2, <3>3 DEF CoveredOK
  <2>5. CASE ~Refused(w)
    <3>1. tx'[w] = [tx[w] EXCEPT !.pc = "asset"]
      BY <1>1, <1>5, <2>5 DEF UpsertCollection
    <3>2. /\ tx'[w].pc = "asset" /\ tx'[w].done = tx[w].done /\ tx'[w].at = tx[w].at
          /\ tx'[w].file = tx[w].file /\ tx'[w].project = tx[w].project
      BY <2>2, <3>1 DEF Transaction
    <3>3. CoveredBy(Pair(Row(w)), w)
      BY <2>2, <2>5 DEF Refused, CoveredBy
    <3>4. CoveredBy(Pair(Row(w)), w)'
      BY <2>1, <3>2, <3>3 DEF CoveredBy, Row, Pair
    <3>5. \A l \in Ingested(w)' : CoveredBy(l, w)'
      BY <2>1, <3>2 DEF CoveredOK, Ingested, CoveredBy
    <3>6. QED BY <1>2, <3>4, <3>5 DEF CoveredOK
  <2>6. QED BY <2>4, <2>5
<1>6. CASE UpsertAsset(w)
  <2>1. tx[w] # Idle /\ tx[w].pc = "asset" /\ UNCHANGED consent
    BY <1>6 DEF UpsertAsset, Idle, consentVars
  <2>2. tx[w] \in Transaction
    BY <1>1, <2>1
  <2>3. tx'[w] = [tx[w] EXCEPT !.pc = "link"]
    BY <1>1, <1>6 DEF UpsertAsset
  <2>4. /\ tx'[w].pc = "link" /\ tx'[w].done = tx[w].done /\ tx'[w].at = tx[w].at
        /\ tx'[w].file = tx[w].file /\ tx'[w].project = tx[w].project
    BY <2>2, <2>3 DEF Transaction
  <2>5. CoveredBy(Pair(Row(w)), w)'
    BY <2>1, <2>4 DEF CoveredOK, CoveredBy, Row, Pair
  <2>6. \A l \in Ingested(w)' : CoveredBy(l, w)'
    BY <2>1, <2>4 DEF CoveredOK, Ingested, CoveredBy
  <2>7. QED BY <1>2, <2>5, <2>6 DEF CoveredOK
<1>7. CASE LinkSubject(w)
  <2> DEFINE l == Pair(Row(w))
             links == IF Present(l, w) THEN tx[w].links ELSE tx[w].links \cup {l}
             done == tx[w].done \cup {tx[w].at}
  <2>1. tx[w] # Idle /\ tx[w].pc = "link" /\ UNCHANGED consent
    BY <1>7 DEF LinkSubject, Idle, consentVars
  <2>2. /\ tx[w] \in Transaction /\ tx[w].at \in InFile(w) /\ l \in Links
        /\ Row(w) = Manifest[tx[w].file][tx[w].at]
    BY <1>1, <2>1, InHand
  <2>3. done \in SUBSET InFile(w) /\ links \in SUBSET Links
    BY <1>1, <2>1, <2>2 DEF WalkOK, Transaction
  <2>4. tx'[w] = Advance(w, done, links)
    BY <1>1, <1>7 DEF LinkSubject
  <2>5. /\ tx'[w].pc \in {"collection", "finishing"} /\ tx'[w].done = done
        /\ tx'[w].file = tx[w].file /\ tx'[w].project = tx[w].project
    BY <1>1, <2>1, <2>3, <2>4, AdvanceType
  <2>6. Ingested(w)' = Ingested(w) \cup {l}
    BY <2>2, <2>5 DEF Ingested
  <2>7. \A m \in Ingested(w) \cup {l} : CoveredBy(m, w)
    BY <2>1 DEF CoveredOK
  <2>8. \A m \in Ingested(w)' : CoveredBy(m, w)'
    BY <2>1, <2>5, <2>6, <2>7 DEF CoveredBy
  <2>9. QED BY <1>2, <2>5, <2>8 DEF CoveredOK
<1>8. QED BY <1>2, <1>3, <1>4, <1>5, <1>6, <1>7 DEF Ingest

LEMMA SweepsAreDue ==
  ASSUME TypeOK, [Next]_vars, NEW v \in Sweepers, ChosenOK(v),
         TakeLock(v) \/ Select(v) \/ Apply(v) \/ Release(v) \/ Crash(v)
  PROVE  ChosenOK(v)' /\ \A u \in Sweepers \ {v} : sweep'[u] = sweep[u]
<1>1. sweep \in [Sweepers -> Sweep \cup {Rest}]
  BY DEF TypeOK
<1>2. \A u \in Sweepers \ {v} : sweep'[u] = sweep[u]
  BY <1>1 DEF TakeLock, Select, Apply, Release, Crash
<1>3. CASE Select(v)
  <2>1. PICK items \in SUBSET Matching :
          sweep' = [sweep EXCEPT ![v] = [pc |-> "applying", todo |-> items]]
    BY <1>3 DEF Select
  <2>2. sweep'[v].todo = items /\ lapsed' = lapsed
    BY <1>1, <1>3, <2>1 DEF Select, consentVars
  <2>3. \A l \in Links : <<l, "quarantine">> \in items =>
          l[2] \in lapsed /\ "quarantine" \in LapseBehaviours[l[2]]
    BY DEF Matching, Due
  <2>4. QED BY <1>2, <2>2, <2>3 DEF ChosenOK
<1>4. CASE TakeLock(v) \/ Apply(v) \/ Release(v) \/ Crash(v)
  <2>1. sweep'[v].pc # "applying"
    BY <1>1, <1>4 DEF TakeLock, Apply, Release, Crash, Rest
  <2>2. QED BY <1>2, <2>1 DEF ChosenOK
<1>5. QED BY <1>3, <1>4

LEMMA NextKeepsCover ==
  ASSUME IndInv, CoverInv, [Next]_vars
  PROVE  CoverInv'
<1>1. TypeOK
  BY DEF IndInv
<1>2. ASSUME NEW w \in Importers,
             Ingest(w) \/ \E f \in Files, p \in Projects : Import(w, f, p)
      PROVE  CoverInv'
  <2>1. CoveredOK(w)' /\ \A v \in Importers \ {w} : tx'[v] = tx[v]
    BY <1>2, ImportsAreCovered DEF CoverInv
  <2>2. \A v \in Importers : CoveredOK(v)'
    BY <2>1, CoverStays DEF CoverInv
  <2>3. sweep' = sweep
    BY <1>2 DEF Import, Ingest, UpsertCollection, UpsertAsset, LinkSubject, Finish, Abort,
         sweepVars
  <2>4. QED BY <1>1, <2>2, <2>3, ChoiceStays DEF CoverInv
<1>3. ASSUME NEW v \in Sweepers,
             TakeLock(v) \/ Select(v) \/ Apply(v) \/ Release(v) \/ Crash(v)
      PROVE  CoverInv'
  <2>1. ChosenOK(v)' /\ \A u \in Sweepers \ {v} : sweep'[u] = sweep[u]
    BY <1>1, <1>3, SweepsAreDue DEF CoverInv
  <2>2. \A u \in Sweepers : ChosenOK(u)'
    BY <1>1, <2>1, ChoiceStays DEF CoverInv
  <2>3. tx' = tx
    BY <1>3 DEF TakeLock, Select, Apply, Release, Crash
  <2>4. QED BY <2>2, <2>3, CoverStays DEF CoverInv
<1>4. CASE tx' = tx /\ sweep' = sweep
  BY <1>1, <1>4, CoverStays, ChoiceStays DEF CoverInv
<1>5. QED
  BY <1>2, <1>3, <1>4 DEF Next, LockExpires, Consent, Supersede, Lapse, vars, sweepVars

\* What a batch has accepted was recorded before or is about to be, and then nothing of it
\* is in quarantine.
LEMMA FinishIsImport ==
  ASSUME IndInv, CoverInv, NEW w \in Importers, Finish(w)
  PROVE  \E p \in Projects, ls \in SUBSET Links : Promise!Import(p, ls)
<1> DEFINE active == {l \in Links : link[l].active > 0}
           quarantined == {l \in Links : link[l].quarantined > 0}
           reported(r) == <<Pair(Manifest[r[1]][r[2]]), r[3]>>
<1>1. TypeOK /\ ImportOK(w) /\ CoveredOK(w) /\ tx[w] # Idle /\ UNCHANGED <<consent, lapsed>>
  BY DEF IndInv, CoverInv, Finish, Idle, consentVars
<1>2. Ingested(w) \subseteq Links /\ tx[w].links \subseteq Ingested(w)
  BY <1>1, IngestedAreLinks DEF ImportOK, IngestedOK
<1>3. \A l \in Links :
        /\ link[l] \in [active : Nat, quarantined : Nat]
        /\ l \in tx[w].links => link[l].quarantined = 0 /\ link'[l].active > 0
                                /\ link'[l].quarantined = 0
        /\ l \notin tx[w].links => link'[l] = link[l]
  <2> TAKE l \in Links
  <2>1. link[l] \in [active : Nat, quarantined : Nat]
    BY <1>1, TotalsAreNumbers
  <2>2. l \notin tx[w].links => link'[l] = link[l]
    BY DEF Finish
  <2>3. ASSUME l \in tx[w].links
        PROVE  link[l].quarantined = 0 /\ link'[l].active > 0 /\ link'[l].quarantined = 0
    <3>1. link[l].active + link[l].quarantined = 0
      BY <1>1, <2>3 DEF ImportOK, HoldsOK, Total
    <3>2. link'[l] = [link[l] EXCEPT !.active = @ + 1]
      BY <2>3 DEF Finish
    <3>3. link'[l].active = link[l].active + 1 /\ link'[l].quarantined = link[l].quarantined
      BY <2>1, <3>2, OneMore
    <3>4. QED BY <2>1, <3>1, <3>3
  <2>4. QED BY <2>1, <2>2, <2>3
<1>4. \A l \in Ingested(w) \ tx[w].links : l \in active \/ l \in quarantined
  <2> TAKE l \in Ingested(w) \ tx[w].links
  <2>1. l \in Links /\ Exists(l)
    BY <1>1, <1>2 DEF ImportOK, IngestedOK, Present
  <2>2. QED BY <1>3, <2>1 DEF Exists
<1>5. quarantined' = quarantined
  BY <1>3
<1>6. active' = active \cup (Ingested(w) \ quarantined)
  <2>1. ASSUME NEW l \in Links PROVE l \in active' <=> l \in active \/ l \in Ingested(w) \ quarantined
    <3>1. CASE l \in tx[w].links
      BY <1>2, <1>3, <3>1
    <3>2. CASE l \notin tx[w].links
      <4>1. l \in active' <=> l \in active
        BY <1>3, <3>2
      <4>2. l \in Ingested(w) \ quarantined => l \in active
        BY <1>4, <3>2
      <4>3. QED BY <4>1, <4>2
    <3>3. QED BY <3>1, <3>2
  <2>2. QED BY <1>2, <2>1
<1>7. {reported(r) : r \in report'} =
        {reported(r) : r \in report} \cup {<<l, tx[w].project>> : l \in Ingested(w)}
  <2>1. report' = report \cup {<<tx[w].file, i, tx[w].project>> : i \in tx[w].done}
    BY DEF Finish, Reported
  <2>2. \A i : reported(<<tx[w].file, i, tx[w].project>>) =
                 <<Pair(Manifest[tx[w].file][i]), tx[w].project>>
    OBVIOUS
  <2> DEFINE new == {<<tx[w].file, i, tx[w].project>> : i \in tx[w].done}
  <2>3. {reported(r) : r \in new} = {<<l, tx[w].project>> : l \in Ingested(w)}
    <3> HIDE DEF reported
    <3>1. {reported(r) : r \in new} =
            {reported(<<tx[w].file, i, tx[w].project>>) : i \in tx[w].done}
      OBVIOUS
    <3>2. QED BY <2>2, <3>1 DEF Ingested
  <2>4. report' = report \cup new
    BY <2>1
  <2> HIDE DEF reported, new
  <2>5. {reported(r) : r \in report'} =
          {reported(r) : r \in report} \cup {reported(r) : r \in new}
    BY <2>4
  <2>6. QED BY <2>3, <2>5
<1>8. \A l \in Ingested(w) : CoveredBy(l, w) /\ l \in Links
  BY <1>1, <1>2 DEF CoveredOK
<1>9. \A l \in Ingested(w) :
        l[2] # Bystander => /\ l[2] \in {k \in Consents : consent[k] # "none"}
                            /\ ConsentProject[l[2]] = tx[w].project
  BY <1>8, LinksByParts DEF CoveredBy
<1>10. PICK p \in Projects, ls \in SUBSET Links : p = tx[w].project /\ ls = Ingested(w)
  BY <1>1, <1>2, AtWork DEF Transaction
<1>11. Promise!Import(p, ls)
  BY <1>1, <1>5, <1>6, <1>7, <1>9, <1>10 DEF Promise!Import, Promise!Covered
<1>12. QED BY <1>11

\* Of what it chose the sweep quarantines what is still active.
LEMMA ApplyIsQuarantine ==
  ASSUME IndInv, CoverInv, NEW v \in Sweepers, Apply(v)
  PROVE  \E ls \in SUBSET Links : Promise!Quarantine(ls)
<1> DEFINE active == {l \in Links : link[l].active > 0}
           quarantined == {l \in Links : link[l].quarantined > 0}
<1>0. PICK ls \in SUBSET Links :
        ls = {l \in Links : link[l].active > 0 /\ <<l, "quarantine">> \in sweep[v].todo}
  OBVIOUS
<1>1. TypeOK /\ ChosenOK(v) /\ sweep[v].pc = "applying"
      /\ UNCHANGED <<consent, lapsed, report>>
  BY DEF IndInv, CoverInv, Apply, consentVars, batchVars
<1>2. ls \subseteq active
  BY <1>0
<1>3. \A l \in ls : l[2] \in lapsed
                    /\ l[2] \in {k \in Consents : "quarantine" \in LapseBehaviours[k]}
  BY <1>1, <1>0 DEF ChosenOK, TypeOK
<1>4. \A l \in Links :
        /\ link[l] \in [active : Nat, quarantined : Nat]
        /\ <<l, "quarantine">> \in sweep[v].todo =>
             /\ link'[l].active = 0
             /\ link'[l].quarantined = link[l].active + link[l].quarantined
        /\ <<l, "quarantine">> \notin sweep[v].todo => link'[l] = link[l]
  BY <1>1, TotalsAreNumbers DEF Apply
<1>5. active' = active \ ls
  BY <1>0, <1>4
<1>6. quarantined' = quarantined \cup ls
  BY <1>0, <1>4
<1>7. Promise!Quarantine(ls)
  BY <1>1, <1>2, <1>3, <1>5, <1>6 DEF Promise!Quarantine
<1>8. QED BY <1>7

LEMMA ConsentsAreConsents ==
  ASSUME TypeOK, NEW k \in Consents, Consent(k) \/ Supersede(k) \/ Lapse(k)
  PROVE  Promise!Agree(k) \/ Promise!Lapse(k) \/ UNCHANGED Promise!promiseVars
<1> DEFINE given == {j \in Consents : consent[j] # "none"}
<1>1. UNCHANGED <<link, report>>
  BY DEF Consent, Supersede, Lapse, tableVars, batchVars
<1>2. CASE Consent(k)
  <2>1. given' = given \cup {k} /\ lapsed' = lapsed
    BY <1>2 DEF TypeOK, Consent
  <2>2. QED BY <1>1, <2>1 DEF Promise!Agree
<1>3. CASE Supersede(k)
  <2>1. given' = given /\ lapsed' = lapsed
    BY <1>3 DEF TypeOK, Supersede
  <2>2. QED BY <1>1, <2>1 DEF Promise!promiseVars
<1>4. CASE Lapse(k)
  <2>1. k \in given /\ given' = given /\ lapsed' = lapsed \cup {k}
    BY <1>4 DEF TypeOK, Lapse
  <2>2. QED BY <1>1, <2>1 DEF Promise!Lapse
<1>5. QED BY <1>2, <1>3, <1>4

LEMMA StepIsPromised ==
  ASSUME IndInv, CoverInv, [Next]_vars
  PROVE  [Promise!Next]_(Promise!promiseVars)
<1>1. TypeOK
  BY DEF IndInv
<1>2. CASE \E w \in Importers : Finish(w)
  BY <1>2, FinishIsImport DEF Promise!Next
<1>3. CASE \E v \in Sweepers : Apply(v)
  BY <1>3, ApplyIsQuarantine DEF Promise!Next
<1>4. CASE \E k \in Consents : Consent(k) \/ Supersede(k) \/ Lapse(k)
  BY <1>1, <1>4, ConsentsAreConsents DEF Promise!Next
<1>5. CASE UNCHANGED <<consent, lapsed, link, report>>
  BY <1>5 DEF Promise!promiseVars
<1>6. QED
  BY <1>2, <1>3, <1>4, <1>5
     DEF Next, Import, Ingest, UpsertCollection, UpsertAsset, LinkSubject, Abort,
         TakeLock, Select, Release, Crash, LockExpires, vars, consentVars, tableVars, batchVars

LEMMA InitIsPromised == Init => Promise!Init /\ CoverInv
<1> SUFFICES ASSUME Init PROVE Promise!Init /\ CoverInv
  OBVIOUS
<1>1. CoverInv
  BY DEF Init, CoverInv, CoveredOK, ChosenOK, Rest
<1>2. /\ {k \in Consents : consent[k] # "none"} = {}
      /\ {l \in Links : link[l].active > 0} = {}
      /\ {l \in Links : link[l].quarantined > 0} = {}
      /\ lapsed = {} /\ report = {}
  BY DEF Init
<1>3. QED BY <1>1, <1>2 DEF Promise!Init

\* Imports and sweeps implement ImportPromise: whatever they interleave with each other,
\* with rollbacks, lost locks, withdrawals and lapses, a batch is one stroke, every subject
\* it records stands under a consent of its own project, and only what a lapsed consent
\* covers is held back (import_manifest, _ingest_row, apply_retention_lapse).
THEOREM ImportsKeepPromise == Spec => KeepsPromise
<1>1. IndInv /\ [Next]_vars => IndInv'
  BY NextKeeps
<1>2. IndInv /\ CoverInv /\ [Next]_vars => CoverInv'
  BY NextKeepsCover
<1>3. IndInv /\ CoverInv /\ [Next]_vars => [Promise!Next]_(Promise!promiseVars)
  BY StepIsPromised
<1>4. QED
  BY <1>1, <1>2, <1>3, InitIndInv, InitIsPromised, PTL DEF Spec, KeepsPromise, Promise!Spec
=============================================================================
