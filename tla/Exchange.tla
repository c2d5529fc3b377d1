------------------------------ MODULE Exchange ------------------------------
(***************************************************************************)
(* Import of manifests into collection, data_asset and asset_consent, and  *)
(* the nightly sweep that quarantines what a lapsed consent covered.       *)
(*                                                                         *)
(* An import is one transaction, one statement at a time.  An upsert waits *)
(* for the transaction that has the row, and keeps it until its own ends.  *)
(* asset_consent has no unique index: a row is inserted after a look for   *)
(* one.  The manifests of one data source are modelled; their fields, the  *)
(* declared counts, the site of a row and the errors of validation are     *)
(* not, and the audit row a commit brings is not.                          *)
(***************************************************************************)
EXTENDS Naturals, Sequences, FiniteSets

CONSTANTS
  Importers, Sweepers,  \* request handlers and task workers
  Projects, Collections, Assets, Consents,
  Files,
  Manifest,             \* the rows of each file that passed validation
  ConsentProject,       \* the project each consent belongs to
  LapseBehaviours,      \* what the granted purposes of each consent ask for
  Limit                 \* how many rows one sweep selects

Nobody == "nobody"
None == "none"
Bystander == "bystander"
Subjects == Consents \cup {Bystander}
Links == Assets \X Subjects
Rows == [collection : Collections, asset : Assets, subject : Subjects]
NoAsset == [collection |-> None, flag |-> FALSE]

ASSUME ExchangeAssumption ==
  /\ Manifest \in [Files -> Seq(Rows)]
  /\ ConsentProject \in [Consents -> Projects]
  /\ LapseBehaviours \in [Consents -> SUBSET {"quarantine", "erase"}]
  /\ Limit \in Nat
  /\ Nobody \notin Importers

VARIABLES
  consent,     \* each artefact: not there yet, current or superseded
  lapsed,      \* the consents whose validity has elapsed
  collection,  \* the project of each collection
  asset,       \* the collection and the flag of each asset
  link,        \* how many asset_consent rows there are, by disposition
  accepted,    \* how many batches of each file were accepted, whole or in part
  report,      \* the rows they reported accepted, with the batch's project
  tx,          \* each importer's transaction
  lock,        \* the sweep's lock in Redis
  sweep        \* each sweeper's progress

vars == <<consent, lapsed, collection, asset, link, accepted, report, tx, lock, sweep>>

consentVars == <<consent, lapsed>>
tableVars == <<collection, asset, link>>
batchVars == <<accepted, report>>
sweepVars == <<lock, sweep>>

-----------------------------------------------------------------------------
(* Rows under a transaction's lock                                         *)

Stored(v) == [value |-> v, next |-> v, holder |-> Nobody]
Seen(r, w) == IF r.holder = w THEN r.next ELSE r.value
Free(r, w) == r.holder \in {Nobody, w}
Put(r, w, v) == [r EXCEPT !.next = v, !.holder = w]
Kept(r, w) == IF r.holder = w THEN Stored(r.next) ELSE r
Dropped(r, w) == IF r.holder = w THEN Stored(r.value) ELSE r

Idle == [pc |-> "idle"]

\* at is the row in hand, done the rows accepted, links the rows inserted
Transaction ==
  [pc : {"collection", "asset", "link", "finishing"}, file : Files, project : Projects,
   at : Nat, done : SUBSET Nat, links : SUBSET Links]

Row(w) == Manifest[tx[w].file][tx[w].at]
Pair(row) == <<row.asset, row.subject>>
Exists(l) == link[l].active + link[l].quarantined > 0

Begin(w, t) == tx[w] = Idle /\ tx' = [tx EXCEPT ![w] = t]

\* The next row, or the end of the batch
Advance(w, done, links) ==
  [tx[w] EXCEPT
     !.pc = IF tx[w].at < Len(Manifest[tx[w].file]) THEN "collection" ELSE "finishing",
     !.at = @ + 1, !.done = done, !.links = links]

-----------------------------------------------------------------------------
(* import_manifest                                                         *)

\* A file that was accepted before is not read again
Import(w, f, p) ==
  /\ accepted[f] = 0
  /\ Begin(w, [pc |-> IF Manifest[f] = <<>> THEN "finishing" ELSE "collection",
               file |-> f, project |-> p, at |-> 1, done |-> {}, links |-> {}])
  /\ UNCHANGED <<consentVars, tableVars, batchVars, sweepVars>>

\* The consent is looked up by its uuid; whether it is still current is not asked
Refused(w) ==
  LET s == Row(w).subject
  IN  s # Bystander /\ (consent[s] = "none" \/ ConsentProject[s] # tx[w].project)

\* A collection keeps the project of its first import; a refused row keeps its
\* collection
UpsertCollection(w) ==
  /\ tx[w].pc = "collection"
  /\ LET c == Row(w).collection
         old == Seen(collection[c], w)
     IN  /\ Free(collection[c], w)
         /\ collection' = [collection EXCEPT ![c] =
              Put(@, w, IF old = None THEN tx[w].project ELSE old)]
  /\ tx' = [tx EXCEPT ![w] = IF Refused(w) THEN Advance(w, tx[w].done, tx[w].links)
                             ELSE [@ EXCEPT !.pc = "asset"]]
  /\ UNCHANGED <<consentVars, asset, link, batchVars, sweepVars>>

\* Mutant of AssetFree: a row that is there already is not locked
AssetFreeOnceStored(a, w) == asset[a].value # NoAsset \/ Free(asset[a], w)

AssetFree(a, w) == Free(asset[a], w)

Flag(row) == row.subject = Bystander

\* An asset keeps its collection and takes the flag of the row
UpsertAsset(w) ==
  /\ tx[w].pc = "asset"
  /\ LET a == Row(w).asset
         old == Seen(asset[a], w)
     IN  /\ AssetFree(a, w)
         /\ asset' = [asset EXCEPT ![a] =
              Put(@, w, [collection |-> IF old = NoAsset THEN Row(w).collection
                                        ELSE old.collection,
                         flag |-> Flag(Row(w))])]
  /\ tx' = [tx EXCEPT ![w].pc = "link"]
  /\ UNCHANGED <<consentVars, collection, link, batchVars, sweepVars>>

\* Mutant of Present: only the rows still active count
PresentActive(l, w) == link[l].active > 0 \/ l \in tx[w].links

\* asset_subject_exists, whatever became of the row
Present(l, w) == Exists(l) \/ l \in tx[w].links

LinkSubject(w) ==
  /\ tx[w].pc = "link"
  /\ LET l == Pair(Row(w))
     IN  tx' = [tx EXCEPT ![w] =
           Advance(w, tx[w].done \cup {tx[w].at},
                   IF Present(l, w) THEN tx[w].links ELSE tx[w].links \cup {l})]
  /\ UNCHANGED <<consentVars, tableVars, batchVars, sweepVars>>

\* Mutant of Reported: every row the file has
ReportedDeclared(w) == 1..Len(Manifest[tx[w].file])

Reported(w) == tx[w].done

\* finish_batch and the commit
Finish(w) ==
  /\ tx[w].pc = "finishing"
  /\ accepted' = [accepted EXCEPT ![tx[w].file] = IF tx[w].done = {} THEN @ ELSE @ + 1]
  /\ report' = report \cup {<<tx[w].file, i, tx[w].project>> : i \in Reported(w)}
  /\ collection' = [c \in Collections |-> Kept(collection[c], w)]
  /\ asset' = [a \in Assets |-> Kept(asset[a], w)]
  /\ link' = [l \in Links |-> IF l \in tx[w].links THEN [link[l] EXCEPT !.active = @ + 1]
                              ELSE link[l]]
  /\ tx' = [tx EXCEPT ![w] = Idle]
  /\ UNCHANGED <<consentVars, sweepVars>>

\* An error, a statement timeout, the victim of a deadlock, a crash
Abort(w) ==
  /\ tx[w] # Idle
  /\ collection' = [c \in Collections |-> Dropped(collection[c], w)]
  /\ asset' = [a \in Assets |-> Dropped(asset[a], w)]
  /\ tx' = [tx EXCEPT ![w] = Idle]
  /\ UNCHANGED <<consentVars, link, batchVars, sweepVars>>

-----------------------------------------------------------------------------
(* apply_retention_lapse                                                   *)

Rest == [pc |-> "idle"]
Sweep == [pc : {"selecting", "applying", "releasing"},
          todo : SUBSET (Links \X {"quarantine", "erase"})]

TakeLock(v) ==
  /\ sweep[v] = Rest
  /\ lock = Nobody
  /\ lock' = v
  /\ sweep' = [sweep EXCEPT ![v] = [pc |-> "selecting", todo |-> {}]]
  /\ UNCHANGED <<consentVars, tableVars, batchVars, tx>>

\* Mutant of Due: rows of superseded consents only
DueSuperseded(k) == consent[k] = "superseded" /\ k \in lapsed

\* Mutant of Due: whatever the validity of its purposes
DueWheneverCurrent(k) == consent[k] = "current"

Due(k) == consent[k] = "current" /\ k \in lapsed

\* One item for each active row and each behaviour its lapsed purposes ask for
Matching ==
  {item \in Links \X {"quarantine", "erase"} :
     LET l == item[1] IN
     /\ l[2] # Bystander
     /\ Due(l[2]) /\ item[2] \in LapseBehaviours[l[2]]
     /\ link[l].active > 0}

\* The query has a LIMIT and no order
Select(v) ==
  /\ sweep[v].pc = "selecting"
  /\ \E items \in SUBSET Matching :
       /\ Cardinality(items) = IF Cardinality(Matching) < Limit
                               THEN Cardinality(Matching) ELSE Limit
       /\ sweep' = [sweep EXCEPT ![v] = [pc |-> "applying", todo |-> items]]
  /\ UNCHANGED <<consentVars, tableVars, batchVars, tx, lock>>

\* What is to be erased is only reported
Apply(v) ==
  /\ sweep[v].pc = "applying"
  /\ link' = [l \in Links |->
       IF <<l, "quarantine">> \in sweep[v].todo
       THEN [active |-> 0, quarantined |-> link[l].active + link[l].quarantined]
       ELSE link[l]]
  /\ sweep' = [sweep EXCEPT ![v] = [pc |-> "releasing", todo |-> {}]]
  /\ UNCHANGED <<consentVars, collection, asset, batchVars, tx, lock>>

\* Only its own hold
Release(v) ==
  /\ sweep[v].pc = "releasing"
  /\ lock' = IF lock = v THEN Nobody ELSE lock
  /\ sweep' = [sweep EXCEPT ![v] = Rest]
  /\ UNCHANGED <<consentVars, tableVars, batchVars, tx>>

\* The worker is killed, or its transaction fails and the lock is released
Crash(v) ==
  /\ sweep[v].pc # "idle"
  /\ sweep' = [sweep EXCEPT ![v] = Rest]
  /\ lock' \in IF lock = v THEN {lock, Nobody} ELSE {lock}
  /\ UNCHANGED <<consentVars, tableVars, batchVars, tx>>

LockExpires ==
  /\ lock # Nobody
  /\ lock' = Nobody
  /\ UNCHANGED <<consentVars, tableVars, batchVars, tx, sweep>>

-----------------------------------------------------------------------------
(* Consents, as the ledger has them                                        *)

Consent(k) ==
  /\ consent[k] = "none"
  /\ consent' = [consent EXCEPT ![k] = "current"]
  /\ UNCHANGED <<lapsed, tableVars, batchVars, tx, sweepVars>>

Supersede(k) ==
  /\ consent[k] = "current"
  /\ consent' = [consent EXCEPT ![k] = "superseded"]
  /\ UNCHANGED <<lapsed, tableVars, batchVars, tx, sweepVars>>

\* Of consents to purposes with a validity
Lapse(k) ==
  /\ consent[k] # "none"
  /\ LapseBehaviours[k] # {}
  /\ k \notin lapsed
  /\ lapsed' = lapsed \cup {k}
  /\ UNCHANGED <<consent, tableVars, batchVars, tx, sweepVars>>

-----------------------------------------------------------------------------
Init ==
  /\ consent = [k \in Consents |-> "none"]
  /\ lapsed = {}
  /\ collection = [c \in Collections |-> Stored(None)]
  /\ asset = [a \in Assets |-> Stored(NoAsset)]
  /\ link = [l \in Links |-> [active |-> 0, quarantined |-> 0]]
  /\ accepted = [f \in Files |-> 0]
  /\ report = {}
  /\ tx = [w \in Importers |-> Idle]
  /\ lock = Nobody
  /\ sweep = [v \in Sweepers |-> Rest]

Ingest(w) ==
  UpsertCollection(w) \/ UpsertAsset(w) \/ LinkSubject(w) \/ Finish(w) \/ Abort(w)

Next ==
  \/ \E w \in Importers :
       Ingest(w) \/ \E f \in Files, p \in Projects : Import(w, f, p)
  \/ \E v \in Sweepers :
       TakeLock(v) \/ Select(v) \/ Apply(v) \/ Release(v) \/ Crash(v)
  \/ LockExpires
  \/ \E k \in Consents : Consent(k) \/ Supersede(k) \/ Lapse(k)

Spec == Init /\ [][Next]_vars

\* Beat starts the sweep every night, Redis drops an expired lock, and not every
\* sweep that was started fails
Fairness ==
  /\ WF_vars(LockExpires)
  /\ \A v \in Sweepers :
       SF_vars(TakeLock(v)) /\ SF_vars(Select(v)) /\ SF_vars(Apply(v)) /\ WF_vars(Release(v))

FairSpec == Spec /\ Fairness

-----------------------------------------------------------------------------
(* Properties                                                              *)

Slot(V) == [value : V, next : V, holder : Importers \cup {Nobody}]

\* Type invariant.
TypeOK ==
  /\ consent \in [Consents -> {"none", "current", "superseded"}]
  /\ lapsed \subseteq Consents
  /\ collection \in [Collections -> Slot(Projects \cup {None})]
  /\ asset \in [Assets -> Slot([collection : Collections \cup {None}, flag : BOOLEAN])]
  /\ link \in [Links -> [active : Nat, quarantined : Nat]]
  /\ accepted \in [Files -> Nat]
  /\ \A r \in report : r[1] \in Files /\ r[2] \in DOMAIN Manifest[r[1]] /\ r[3] \in Projects
  /\ tx \in [Importers -> Transaction \cup {Idle}]
  /\ lock \in Sweepers \cup {Nobody}
  /\ sweep \in [Sweepers -> Sweep \cup {Rest}]

\* Imports of overlapping files at the same time never record one subject of one
\* asset twice, although nothing but the lock on the asset stands between the look
\* for a row and its insert.
OneRowPerSubject == \A l \in Links : link[l].active + link[l].quarantined <= 1

\* Whatever was refused, rolled back or imported twice, the subjects recorded are
\* those the batches reported as accepted, each by a batch of its consent's project.
ReportsAreTrue ==
  /\ \A r \in report : Exists(Pair(Manifest[r[1]][r[2]]))
  /\ \A l \in Links : Exists(l) =>
       \E r \in report :
         /\ Pair(Manifest[r[1]][r[2]]) = l
         /\ l[2] # Bystander => ConsentProject[l[2]] = r[3]

\* What a sweep has quarantined no later import makes available again.
QuarantineSticks ==
  [][\A l \in Links :
       link[l].quarantined > 0 => link'[l].active = 0 /\ link'[l].quarantined > 0]_vars

\* What is due for erasure stays active, and is selected again every night.
EraseDue == {item \in Matching : item[2] = "erase"}

\* What a lapsed consent covers is quarantined in the end, as its purposes ask, unless
\* the consent is superseded first, through killed sweeps, lost locks and late imports:
\* provided that in the end fewer rows are due for erasure than a sweep selects.  The
\* rest of the time they may be all it selects.
LapsedIsQuarantined ==
  <>[](Cardinality(EraseDue) < Limit) =>
    \A k \in Consents : "quarantine" \in LapseBehaviours[k] =>
      \A a \in Assets :
        (consent[k] = "current" /\ k \in lapsed /\ link[<<a, k>>].active > 0)
          ~> (link[<<a, k>>].active = 0 \/ consent[k] = "superseded")

Promise == INSTANCE ImportPromise WITH
  Quarantining <- {k \in Consents : "quarantine" \in LapseBehaviours[k]},
  given <- {k \in Consents : consent[k] # "none"},
  available <- {l \in Links : link[l].active > 0},
  heldBack <- {l \in Links : link[l].quarantined > 0},
  vouched <- {<<Pair(Manifest[r[1]][r[2]]), r[3]>> : r \in report}

\* Imports and sweeps, whatever they interleave, implement ImportPromise: the row locks
\* make a batch one stroke although its rows are read and written one by one, and what a
\* sweep chose may still be held back when it gets to it, whatever happened since.
KeepsPromise == Promise!Spec

=============================================================================
