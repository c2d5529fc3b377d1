-------------------------- MODULE DisclosureProofs --------------------------
(***************************************************************************)
(* Theorems about Disclosure, for any number of handlers, people, names,   *)
(* links and exports.  While an export is being generated the people who   *)
(* consent at this moment are among the moments it has lived through, so   *)
(* what one query reads is one of them, and what is stored is what was     *)
(* read.                                                                   *)
(***************************************************************************)
EXTENDS Disclosure, FiniteSetTheorems, SequenceTheorems, TLAPS

Pairs == People \X Acts

File == [rows : Seq(PersonRow), pack : Seq(Header)]

Requests ==
  [pc : Stages, export : Exports, type : Types, first : BOOLEAN, file : File,
   during : SUBSET (SUBSET Pairs)]

\* What a request has read so far
RequestOK(w) ==
  tx[w] # Idle =>
    /\ tx[w].type = "collection_pack" => tx[w].file.rows = <<>>
    /\ tx[w].pc = "adding links" =>
         tx[w].type = "collection_pack" /\ 1 \in DOMAIN tx[w].file.pack
    /\ ~tx[w].first => export[tx[w].export] # NoExport
    /\ tx[w].first => GrantsNow \in tx[w].during
    /\ tx[w].first /\ tx[w].pc = "rendered" /\ tx[w].type = "consented_list" =>
         PairsOf(tx[w].file) \in tx[w].during

\* What an export keeps
ExportOK(e) ==
  export[e] # NoExport =>
    /\ export[e].type \in Types
    /\ export[e].lines \subseteq Pairs
    /\ export[e].lines = PairsOf(export[e].hash)
    /\ export[e].type = "collection_pack" => export[e].lines = {}
    /\ export[e].type = "consented_list" => export[e].lines \in export[e].during

\* What has left
SentOK ==
  sent # NoFile =>
    /\ sent.export \in Exports /\ export[sent.export] # NoExport
    /\ sent.people = PairsOf(sent.hash)

WorldOK ==
  /\ version \in 0..MaxVersion /\ link \subseteq Links
  /\ name \in [People -> Names]
  /\ consent \in [People -> [Versions -> Artefact \cup {NoConsent}]]
  /\ acts \in 0..MaxActs

TxOK == tx \in [Workers -> Requests \cup {Idle}]

IndInv ==
  /\ WorldOK /\ TxOK /\ SentOK
  /\ \A w \in Workers : RequestOK(w)
  /\ DOMAIN export = Exports /\ \A e \in Exports : ExportOK(e)

LEMMA InitIndInv == Init => IndInv
<1> SUFFICES ASSUME Init PROVE IndInv
  OBVIOUS
<1>1. WorldOK
  BY DisclosureAssumption DEF Init, WorldOK
<1>2. TxOK /\ \A w \in Workers : RequestOK(w)
  BY DEF Init, TxOK, RequestOK
<1>3. DOMAIN export = Exports /\ SentOK /\ \A e \in Exports : ExportOK(e)
  BY DEF Init, SentOK, ExportOK
<1>4. QED BY <1>1, <1>2, <1>3 DEF IndInv

-----------------------------------------------------------------------------
(* Lists                                                                   *)

LEMMA RowsAreFinite ==
  ASSUME WorldOK
  PROVE  Rows \subseteq PersonRow /\ IsFiniteSet(Rows) /\ Cardinality(Rows) \in Nat
<1>1. GrantsNow \subseteq Pairs
  BY DEF GrantsNow, GrantsOf, Pairs
<1>2. Rows \subseteq PersonRow
  BY <1>1 DEF Rows, PersonRow, Pairs, WorldOK
<1>3. IsFiniteSet(People) /\ IsFiniteSet(Acts)
  BY DisclosureAssumption, FS_Interval DEF Acts
<1>4. IsFiniteSet(Pairs)
  BY <1>3, FS_Product DEF Pairs
<1>5. IsFiniteSet(GrantsNow)
  BY <1>1, <1>4, FS_Subset
<1>6. IsFiniteSet(Rows)
  <2> DEFINE f == [d \in GrantsNow |->
                     [subject |-> d[1], name |-> name[d[1]], consent |-> d[2]]]
  <2>1. f \in Surjection(GrantsNow, Rows)
    BY DEF Rows, Surjection
  <2> HIDE DEF f
  <2>2. QED BY <1>5, <2>1, FS_Surjection
<1>7. QED BY <1>2, <1>6, FS_CardinalityType

\* Whatever order the rows come in, the people in the list are those who consent.
LEMMA ListsTheGrants ==
  ASSUME WorldOK, NEW s \in Listings
  PROVE  /\ s \in Seq(PersonRow)
         /\ {<<s[i].subject, s[i].consent>> : i \in DOMAIN s} = GrantsNow
<1>1. /\ s \in [1..Cardinality(Rows) -> Rows]
      /\ \A r \in Rows : \E i \in DOMAIN s : s[i] = r
  BY DEF Listings
<1>2. s \in Seq(PersonRow)
  <2>1. s \in [1..Cardinality(Rows) -> PersonRow]
    BY <1>1, RowsAreFinite
  <2>2. QED BY <2>1, RowsAreFinite, SeqDef
<1>3. \A d \in GrantsNow : d = <<d[1], d[2]>>
  BY DEF GrantsNow, GrantsOf
<1>4. ASSUME NEW i \in DOMAIN s PROVE <<s[i].subject, s[i].consent>> \in GrantsNow
  <2>1. s[i] \in Rows
    BY <1>1
  <2>2. PICK d \in GrantsNow :
          s[i] = [subject |-> d[1], name |-> name[d[1]], consent |-> d[2]]
    BY <2>1 DEF Rows
  <2>3. QED BY <1>3, <2>2
<1>5. ASSUME NEW d \in GrantsNow
      PROVE  \E i \in DOMAIN s : d = <<s[i].subject, s[i].consent>>
  <2> DEFINE row == [subject |-> d[1], name |-> name[d[1]], consent |-> d[2]]
  <2>1. row \in Rows
    BY DEF Rows
  <2>2. PICK i \in DOMAIN s : s[i] = row
    BY <1>1, <2>1
  <2>3. QED BY <1>3, <2>2
<1>6. QED BY <1>2, <1>4, <1>5

-----------------------------------------------------------------------------
(* People and notices                                                      *)

\* Who leaves the consents and the requests alone disturbs nothing.
LEMMA RecordsStand ==
  ASSUME UNCHANGED <<export, sent>>
  PROVE  (SentOK <=> SentOK') /\ \A e \in Exports : (ExportOK(e) <=> ExportOK(e)')
BY DEF SentOK, ExportOK

LEMMA PlaceKeeps ==
  ASSUME IndInv,
         \/ Publish \/ (\E l \in Links : LinkChanges(l))
         \/ \E p \in People, n \in Names : Rename(p, n)
  PROVE  IndInv'
<1>1. UNCHANGED <<consent, acts, export, sent, tx>>
  BY DEF Publish, LinkChanges, Rename
<1>2. WorldOK'
  BY DisclosureAssumption DEF IndInv, WorldOK, Publish, LinkChanges, Rename
<1>3. GrantsNow' = GrantsNow
  BY <1>1 DEF GrantsNow, GrantsOf
<1>4. TxOK' /\ \A w \in Workers : RequestOK(w)'
  <2>1. \A w \in Workers : RequestOK(w) <=> RequestOK(w)'
    BY <1>1, <1>3 DEF RequestOK, PairsOf
  <2>2. QED BY <1>1, <2>1 DEF IndInv, TxOK
<1>5. QED BY <1>1, <1>2, <1>4, RecordsStand DEF IndInv

\* A new artefact: every export under way has lived through this moment too.
LEMMA RecordKeeps ==
  ASSUME IndInv, NEW p \in People, NEW v \in Versions, NEW counts \in BOOLEAN,
         Record(p, v, counts)
  PROVE  IndInv'
<1>1. UNCHANGED <<version, link, name, export, sent>>
  BY DEF Record
<1>2. acts + 1 \in Acts /\ acts' = acts + 1
  BY DisclosureAssumption DEF IndInv, WorldOK, Record, Acts
<1>3. consent' \in [People -> [Versions -> Artefact \cup {NoConsent}]]
  <2>1. [id |-> acts + 1, counts |-> counts] \in Artefact
    BY <1>2 DEF Artefact
  <2>2. consent' = [consent EXCEPT ![p] =
                      [consent[p] EXCEPT ![v] = [id |-> acts + 1, counts |-> counts]]]
    BY DEF Record
  <2>3. consent[p] \in [Versions -> Artefact \cup {NoConsent}]
    BY DEF IndInv, WorldOK
  <2>4. [consent[p] EXCEPT ![v] = [id |-> acts + 1, counts |-> counts]]
          \in [Versions -> Artefact \cup {NoConsent}]
    BY <2>1, <2>3
  <2>5. QED BY <2>2, <2>4 DEF IndInv, WorldOK
<1>4. WorldOK'
  BY <1>1, <1>2, <1>3, DisclosureAssumption DEF IndInv, WorldOK, Acts
<1>5. PICK g : g = GrantsNow'
  OBVIOUS
<1>6. g \in SUBSET Pairs
  BY <1>5 DEF GrantsNow, GrantsOf, Pairs
<1>7. tx' = [w \in Workers |-> IF tx[w] # Idle /\ tx[w].first
                               THEN [tx[w] EXCEPT !.during = @ \cup {g}] ELSE tx[w]]
  BY <1>5 DEF Record, GrantsNow
<1>8. ASSUME NEW w \in Workers PROVE tx'[w] \in Requests \cup {Idle} /\ RequestOK(w)'
  <2>1. CASE tx[w] # Idle /\ tx[w].first
    <3>1. tx[w] \in Requests
      BY <2>1 DEF IndInv, TxOK
    <3> DEFINE r == [tx[w] EXCEPT !.during = @ \cup {g}]
    <3>2. r \in Requests
      BY <1>6, <3>1 DEF Requests
    <3>3. /\ r.pc = tx[w].pc /\ r.export = tx[w].export /\ r.type = tx[w].type
          /\ r.first = tx[w].first /\ r.file = tx[w].file
          /\ r.during = tx[w].during \cup {g}
      BY <3>1 DEF Requests
    <3>4. tx'[w] = r
      BY <1>7, <2>1
    <3> HIDE DEF r
    <3>5. RequestOK(w)'
      <4>1. RequestOK(w)
        BY DEF IndInv
      <4>2. PairsOf(tx[w].file)' = PairsOf(tx[w].file)
        BY <3>3, <3>4 DEF PairsOf
      <4>3. GrantsNow' \in tx'[w].during
        BY <1>5, <3>3, <3>4
      <4>4. QED BY <1>1, <2>1, <3>3, <3>4, <4>1, <4>2, <4>3 DEF RequestOK
    <3>6. QED BY <3>2, <3>4, <3>5
  <2>2. CASE ~(tx[w] # Idle /\ tx[w].first)
    <3>1. tx'[w] = tx[w]
      BY <1>7, <2>2
    <3>2. QED BY <1>1, <2>2, <3>1 DEF IndInv, TxOK, RequestOK
  <2>3. QED BY <2>1, <2>2
<1>9. TxOK'
  BY <1>7, <1>8 DEF TxOK
<1>10. QED BY <1>1, <1>4, <1>8, <1>9, RecordsStand DEF IndInv

LEMMA WorldKeeps == ASSUME IndInv, World PROVE IndInv'
<1>1. ASSUME NEW p \in People, NEW grants \in BOOLEAN, Capture(p, grants) PROVE IndInv'
  <2>1. version \in Versions
    BY <1>1, DisclosureAssumption DEF IndInv, WorldOK, Capture, Versions
  <2>2. QED BY <1>1, <2>1, RecordKeeps DEF Capture
<1>2. ASSUME NEW p \in People, NEW v \in Versions, Withdraw(p, v) PROVE IndInv'
  BY <1>2, RecordKeeps DEF Withdraw
<1>3. QED BY <1>1, <1>2, PlaceKeeps DEF World

-----------------------------------------------------------------------------
(* Requests                                                                *)

\* A request that goes on reads, and stores nothing.
LEMMA ReadKeeps ==
  ASSUME IndInv, UNCHANGED world, UNCHANGED <<export, sent>>,
         NEW w \in Workers, NEW r \in Requests \cup {Idle}, tx' = [tx EXCEPT ![w] = r],
         RequestOK(w)'
  PROVE  IndInv'
<1>1. tx' \in [Workers -> Requests \cup {Idle}] /\ \A v \in Workers \ {w} : tx'[v] = tx[v]
  BY DEF IndInv, TxOK
<1>2. WorldOK'
  BY DEF IndInv, WorldOK, world
<1>3. GrantsNow' = GrantsNow
  BY DEF GrantsNow, GrantsOf, world
<1>4. ASSUME NEW v \in Workers \ {w} PROVE RequestOK(v)'
  <2>1. RequestOK(v) /\ tx'[v] = tx[v]
    BY <1>1 DEF IndInv
  <2>2. PairsOf(tx[v].file)' = PairsOf(tx[v].file)
    BY <2>1 DEF PairsOf
  <2>3. QED BY <1>3, <2>1, <2>2 DEF RequestOK
<1>5. QED BY <1>1, <1>2, <1>4, RecordsStand DEF IndInv, TxOK

LEMMA IdleOK == ASSUME NEW w \in Workers, tx'[w] = Idle PROVE RequestOK(w)'
BY DEF RequestOK

LEMMA AtWork ==
  ASSUME IndInv, NEW w \in Workers, tx[w].pc # "idle"
  PROVE  tx[w] \in Requests /\ tx[w] # Idle
BY DEF IndInv, TxOK, Idle

LEMMA NewRequest ==
  ASSUME NEW e \in Exports, NEW type \in Types, NEW first \in BOOLEAN
  PROVE  LET r == Request(e, type, first) IN
         /\ r \in Requests /\ r # Idle
         /\ r.pc = "rendering" /\ r.export = e /\ r.type = type /\ r.first = first
         /\ r.file.rows = <<>> /\ (first => r.during = {GrantsNow})
<1>1. Blank \in File /\ Blank.rows = <<>>
  BY DEF Blank, File
<1>2. (IF first THEN {GrantsNow} ELSE {}) \in SUBSET (SUBSET Pairs)
  BY DEF GrantsNow, GrantsOf, Pairs
<1> DEFINE r == Request(e, type, first)
<1>3. r = [pc |-> "rendering", export |-> e, type |-> type, first |-> first, file |-> Blank,
           during |-> IF first THEN {GrantsNow} ELSE {}]
  BY DEF Request
<1> HIDE DEF r
<1>4. r \in Requests
  BY <1>1, <1>2, <1>3 DEF Requests, Stages
<1>5. QED BY <1>1, <1>3, <1>4 DEF r, Idle

LEMMA BeginKeeps ==
  ASSUME IndInv, NEW w \in Workers, NEW e \in Exports,
         Download(w, e) \/ \E type \in Types : Generate(w, e, type)
  PROVE  IndInv'
<1>1. PICK type \in Types, first \in BOOLEAN :
        /\ tx' = [tx EXCEPT ![w] = Request(e, type, first)]
        /\ ~first => export[e] # NoExport
  <2>1. export[e] # NoExport => export[e].type \in Types
    BY DEF IndInv, ExportOK
  <2>2. CASE Download(w, e)
    BY <2>1, <2>2 DEF Download
  <2>3. CASE \E type \in Types : Generate(w, e, type)
    BY <2>3 DEF Generate
  <2>4. QED BY <2>2, <2>3
<1>2. UNCHANGED world /\ UNCHANGED <<export, sent>>
  BY DEF Download, Generate
<1>3. PICK r \in Requests :
        /\ tx' = [tx EXCEPT ![w] = r]
        /\ r.pc = "rendering" /\ r.export = e /\ r.first = first
        /\ r.file.rows = <<>> /\ (first => r.during = {GrantsNow})
  <2> DEFINE q == Request(e, type, first)
  <2>1. /\ q \in Requests
        /\ q.pc = "rendering" /\ q.export = e /\ q.first = first
        /\ q.file.rows = <<>> /\ (first => q.during = {GrantsNow})
    BY NewRequest
  <2> HIDE DEF q
  <2>2. tx' = [tx EXCEPT ![w] = q]
    BY <1>1 DEF q
  <2>3. QED BY <2>1, <2>2
<1>4. tx'[w] = r
  BY <1>3 DEF IndInv, TxOK
<1>5. GrantsNow' = GrantsNow
  BY <1>2 DEF GrantsNow, GrantsOf, world
<1>6. RequestOK(w)'
  BY <1>1, <1>2, <1>3, <1>4, <1>5 DEF RequestOK
<1>7. QED BY <1>2, <1>3, <1>6, ReadKeeps

\* One query reads one moment.
LEMMA RenderListKeeps ==
  ASSUME IndInv, NEW w \in Workers, RenderList(w)
  PROVE  IndInv'
<1>1. tx[w] \in Requests /\ tx[w] # Idle /\ tx[w].type = "consented_list"
  BY AtWork DEF RenderList
<1>2. UNCHANGED world /\ UNCHANGED <<export, sent>>
  BY DEF RenderList
<1>3. PICK s \in Listings :
        tx' = [tx EXCEPT ![w] = [tx[w] EXCEPT !.pc = "rendered", !.file.rows = s]]
  BY DEF RenderList
<1>4. s \in Seq(PersonRow) /\ {<<s[i].subject, s[i].consent>> : i \in DOMAIN s} = GrantsNow
  BY ListsTheGrants DEF IndInv
<1> DEFINE file == [tx[w].file EXCEPT !.rows = s]
           r == [tx[w] EXCEPT !.pc = "rendered", !.file.rows = s]
<1>5. file \in File /\ file.rows = s
  BY <1>1, <1>4 DEF Requests, File
<1>6. r = [tx[w] EXCEPT !.pc = "rendered", !.file = file]
  BY <1>1 DEF Requests
<1> HIDE DEF file, r
<1>7. r \in Requests
  BY <1>1, <1>5, <1>6 DEF Requests, Stages
<1>8. /\ r.pc = "rendered" /\ r.export = tx[w].export /\ r.type = tx[w].type
      /\ r.first = tx[w].first /\ r.file = file /\ r.during = tx[w].during
  BY <1>1, <1>6 DEF Requests
<1>9. PairsOf(file) = GrantsNow
  BY <1>4, <1>5 DEF PairsOf
<1>10. tx' = [tx EXCEPT ![w] = r] /\ tx'[w] = r
  BY <1>3 DEF r, IndInv, TxOK
<1>11. GrantsNow' = GrantsNow /\ PairsOf(tx[w].file)' = PairsOf(file)
  BY <1>2, <1>8, <1>10 DEF GrantsNow, GrantsOf, world, PairsOf
<1>12. RequestOK(w)
  BY DEF IndInv
<1>13. RequestOK(w)'
  BY <1>1, <1>2, <1>8, <1>9, <1>10, <1>11, <1>12 DEF RequestOK
<1>14. QED BY <1>2, <1>7, <1>10, <1>13, ReadKeeps

\* A pack has no rows of people.
LEMMA RenderPackKeeps ==
  ASSUME IndInv, NEW w \in Workers, RenderNotice(w) \/ RenderLinks(w)
  PROVE  IndInv'
<1>1. tx[w] \in Requests /\ tx[w] # Idle /\ RequestOK(w) /\ WorldOK
  BY AtWork DEF IndInv, RenderNotice, RenderLinks
<1>2. tx[w].type = "collection_pack"
  BY <1>1 DEF RequestOK, RenderNotice, RenderLinks
<1>3. UNCHANGED world /\ UNCHANGED <<export, sent>>
  BY DEF RenderNotice, RenderLinks
<1>4. \E pack \in Seq(Header), pc \in {"adding links", "rendered"} :
        /\ tx' = [tx EXCEPT ![w] = [tx[w] EXCEPT !.pc = pc, !.file.pack = pack]]
        /\ pc = "adding links" => 1 \in DOMAIN pack
  <2>1. CASE RenderNotice(w)
    <3> DEFINE h == [at |-> IF tx[w].first THEN "then" ELSE "later",
                     notice |-> version, links |-> {}]
    <3>1. h \in Header
      <4>1. version \in Versions
        <5>1. version # 0
          BY <2>1 DEF RenderNotice
        <5>2. QED BY <1>1, <5>1, DisclosureAssumption DEF WorldOK, Versions
      <4>2. QED BY <4>1 DEF Header
    <3>2. tx' = [tx EXCEPT ![w] = [tx[w] EXCEPT !.pc = "adding links", !.file.pack = <<h>>]]
      BY <2>1 DEF RenderNotice
    <3> HIDE DEF h
    <3>3. <<h>> \in Seq(Header) /\ 1 \in DOMAIN <<h>>
      BY <3>1
    <3>4. QED BY <3>2, <3>3
  <2>2. CASE RenderLinks(w)
    <3> DEFINE pack == tx[w].file.pack
               new == [pack EXCEPT ![1].links = link]
    <3>1. pack \in Seq(Header) /\ 1 \in DOMAIN pack
      BY <1>1, <2>2 DEF Requests, File, RequestOK, RenderLinks
    <3>2. [pack[1] EXCEPT !.links = link] \in Header
      <4>1. pack[1] \in Header /\ link \in SUBSET Links
        BY <1>1, <3>1 DEF WorldOK
      <4>2. QED BY <4>1 DEF Header
    <3>3. new \in Seq(Header)
      <4>1. new = [pack EXCEPT ![1] = [pack[1] EXCEPT !.links = link]]
        OBVIOUS
      <4>2. QED BY <3>1, <3>2, <4>1
    <3>4. tx' = [tx EXCEPT ![w] = [tx[w] EXCEPT !.pc = "rendered", !.file.pack = new]]
      BY <2>2 DEF RenderLinks
    <3>5. QED BY <3>3, <3>4
  <2>3. QED BY <2>1, <2>2
<1>5. PICK pack \in Seq(Header), pc \in {"adding links", "rendered"} :
        /\ tx' = [tx EXCEPT ![w] = [tx[w] EXCEPT !.pc = pc, !.file.pack = pack]]
        /\ pc = "adding links" => 1 \in DOMAIN pack
  BY <1>4
<1> DEFINE file == [tx[w].file EXCEPT !.pack = pack]
           r == [tx[w] EXCEPT !.pc = pc, !.file.pack = pack]
<1>6. file \in File /\ file.rows = tx[w].file.rows /\ file.pack = pack
  BY <1>1 DEF Requests, File
<1>7. r = [tx[w] EXCEPT !.pc = pc, !.file = file]
  BY <1>1 DEF Requests
<1> HIDE DEF file, r
<1>8. r \in Requests
  BY <1>1, <1>6, <1>7 DEF Requests, Stages
<1>9. /\ r.pc = pc /\ r.export = tx[w].export /\ r.type = tx[w].type
      /\ r.first = tx[w].first /\ r.file = file /\ r.during = tx[w].during
  BY <1>1, <1>7 DEF Requests
<1>10. tx' = [tx EXCEPT ![w] = r] /\ tx'[w] = r
  BY <1>5 DEF r, IndInv, TxOK
<1>11. GrantsNow' = GrantsNow
  BY <1>3 DEF GrantsNow, GrantsOf, world
<1>12. RequestOK(w)'
  BY <1>1, <1>2, <1>3, <1>5, <1>6, <1>9, <1>10, <1>11 DEF RequestOK
<1>13. QED BY <1>3, <1>8, <1>10, <1>12, ReadKeeps

\* What is stored is what was read.
LEMMA StoreKeeps ==
  ASSUME IndInv, NEW w \in Workers, Store(w)
  PROVE  IndInv'
<1>1. tx[w] \in Requests /\ tx[w] # Idle /\ RequestOK(w)
  BY AtWork DEF IndInv, Store
<1>2. UNCHANGED world /\ sent' = sent
  BY DEF Store
<1> DEFINE row == [type |-> tx[w].type, hash |-> Digest(tx[w].file), lines |-> LinesOf(w),
                   during |-> tx[w].during]
<1>3. export' = [export EXCEPT ![tx[w].export] = row] /\ tx[w].export \in Exports
  BY <1>1 DEF Store, Requests
<1>4. PICK e \in Exports : e = tx[w].export
  BY <1>3
<1>5. /\ row.type = tx[w].type /\ row.hash = tx[w].file
      /\ row.lines = PairsOf(tx[w].file) /\ row.during = tx[w].during
  BY DEF Digest, LinesOf
<1>6. PairsOf(tx[w].file) \subseteq Pairs
  <2>1. tx[w].file.rows \in Seq(PersonRow)
    BY <1>1 DEF Requests, File
  <2>2. ASSUME NEW i \in DOMAIN tx[w].file.rows
        PROVE  <<tx[w].file.rows[i].subject, tx[w].file.rows[i].consent>> \in Pairs
    <3>1. tx[w].file.rows[i] \in PersonRow
      BY <2>1
    <3>2. QED BY <3>1 DEF PersonRow, Pairs
  <2>3. QED BY <2>2 DEF PairsOf
<1>7. tx[w].type = "collection_pack" => PairsOf(tx[w].file) = {}
  <2>1. tx[w].type = "collection_pack" => tx[w].file.rows = <<>>
    BY <1>1 DEF RequestOK
  <2>2. \A i \in DOMAIN <<>> : FALSE
    OBVIOUS
  <2>3. QED BY <2>1, <2>2 DEF PairsOf
<1>8. tx[w].type \in Types /\ tx[w].type # NoExport.type
  BY <1>1 DEF Requests, Types, NoExport
<1>9. row # NoExport
  BY <1>5, <1>8
<1>10. tx[w].type = "consented_list" => PairsOf(tx[w].file) \in tx[w].during
  BY <1>1 DEF RequestOK, Store
<1> HIDE DEF row
<1>11. /\ DOMAIN export' = Exports /\ export'[e] = row
       /\ \A d \in Exports \ {e} : export'[d] = export[d]
  BY <1>3, <1>4 DEF IndInv
<1>12. PICK kept : kept = row
  OBVIOUS
<1>13. ExportOK(e)'
  <2>1. /\ kept.type \in Types /\ kept.lines \subseteq Pairs
        /\ kept.lines = PairsOf(kept.hash)
        /\ kept.type = "collection_pack" => kept.lines = {}
        /\ kept.type = "consented_list" => kept.lines \in kept.during
    BY <1>5, <1>6, <1>7, <1>8, <1>10, <1>12
  <2>2. export'[e] = kept
    BY <1>11, <1>12
  <2>3. QED BY <2>1, <2>2 DEF ExportOK, PairsOf
<1>14. ASSUME NEW d \in Exports \ {e} PROVE ExportOK(d)'
  <2>1. ExportOK(d) /\ export'[d] = export[d]
    BY <1>11 DEF IndInv
  <2>2. QED BY <2>1 DEF ExportOK, PairsOf
<1>15. \A d \in Exports : export[d] # NoExport => export'[d] # NoExport
  BY <1>9, <1>11
<1>16. SentOK'
  BY <1>2, <1>15 DEF IndInv, SentOK, PairsOf
<1>17. /\ tx' \in [Workers -> Requests \cup {Idle}] /\ tx'[w] = Idle
       /\ \A v \in Workers \ {w} : tx'[v] = tx[v]
  BY DEF Store, IndInv, TxOK
<1>18. WorldOK' /\ GrantsNow' = GrantsNow
  BY <1>2 DEF IndInv, WorldOK, world, GrantsNow, GrantsOf
<1>19. ASSUME NEW v \in Workers \ {w} PROVE RequestOK(v)'
  <2>1. RequestOK(v) /\ tx'[v] = tx[v]
    BY <1>17 DEF IndInv
  <2>2. PairsOf(tx[v].file)' = PairsOf(tx[v].file)
    BY <2>1 DEF PairsOf
  <2>3. tx[v] # Idle => tx[v].export \in Exports
    BY DEF IndInv, TxOK, Requests
  <2>4. QED BY <1>15, <1>18, <2>1, <2>2, <2>3 DEF RequestOK
<1>20. RequestOK(w)'
  BY <1>17 DEF RequestOK
<1>21. QED BY <1>11, <1>13, <1>14, <1>16, <1>17, <1>18, <1>19, <1>20 DEF IndInv, TxOK

LEMMA AnswerKeeps ==
  ASSUME IndInv, NEW w \in Workers, Answer(w)
  PROVE  IndInv'
<1>1. tx[w] \in Requests /\ tx[w] # Idle /\ RequestOK(w)
  BY AtWork DEF IndInv, Answer
<1>2. UNCHANGED world /\ export' = export
  BY DEF Answer
<1>3. tx[w].export \in Exports /\ export[tx[w].export] # NoExport
  BY <1>1 DEF Requests, RequestOK, Answer
<1>4. sent' = [export |-> tx[w].export, hash |-> tx[w].file, people |-> PairsOf(tx[w].file)]
  BY DEF Answer, Digest
<1>5. PICK out : out = [export |-> tx[w].export, hash |-> tx[w].file,
                        people |-> PairsOf(tx[w].file)]
  OBVIOUS
<1>6. out.export \in Exports /\ export[out.export] # NoExport /\ out.people = PairsOf(out.hash)
  BY <1>3, <1>5
<1>7. SentOK'
  BY <1>2, <1>4, <1>5, <1>6 DEF SentOK, PairsOf
<1>8. /\ tx' \in [Workers -> Requests \cup {Idle}] /\ tx'[w] = Idle
      /\ \A v \in Workers \ {w} : tx'[v] = tx[v]
  BY DEF Answer, IndInv, TxOK
<1>9. WorldOK' /\ GrantsNow' = GrantsNow
  BY <1>2 DEF IndInv, WorldOK, world, GrantsNow, GrantsOf
<1>10. ASSUME NEW v \in Workers \ {w} PROVE RequestOK(v)'
  <2>1. RequestOK(v) /\ tx'[v] = tx[v]
    BY <1>8 DEF IndInv
  <2>2. PairsOf(tx[v].file)' = PairsOf(tx[v].file)
    BY <2>1 DEF PairsOf
  <2>3. QED BY <1>2, <1>9, <2>1, <2>2 DEF RequestOK
<1>11. \A e \in Exports : ExportOK(e)'
  BY <1>2 DEF IndInv, ExportOK, PairsOf
<1>12. QED BY <1>2, <1>7, <1>8, <1>9, <1>10, <1>11, IdleOK DEF IndInv, TxOK

LEMMA AbortKeeps ==
  ASSUME IndInv, NEW w \in Workers, Abort(w)
  PROVE  IndInv'
<1>1. tx' = [tx EXCEPT ![w] = Idle] /\ UNCHANGED world /\ UNCHANGED <<export, sent>>
  BY DEF Abort
<1>2. tx'[w] = Idle
  BY <1>1 DEF IndInv, TxOK
<1>3. QED BY <1>1, <1>2, IdleOK, ReadKeeps

-----------------------------------------------------------------------------
LEMMA NextKeeps == ASSUME IndInv, [Next]_vars PROVE IndInv'
<1>1. CASE UNCHANGED vars
  <2>1. UNCHANGED <<version, link, name, consent, acts, export, sent, tx>>
    BY <1>1 DEF vars
  <2>2. WorldOK' /\ TxOK' /\ GrantsNow' = GrantsNow
    BY <2>1 DEF IndInv, WorldOK, TxOK, GrantsNow, GrantsOf
  <2>3. \A w \in Workers : RequestOK(w)'
    BY <2>1, <2>2 DEF IndInv, RequestOK, PairsOf
  <2>4. QED BY <2>1, <2>2, <2>3, RecordsStand DEF IndInv
<1>2. CASE World
  BY <1>2, WorldKeeps
<1>3. ASSUME NEW w \in Workers, Serve(w) PROVE IndInv'
  BY <1>3, BeginKeeps, RenderListKeeps, RenderPackKeeps, StoreKeeps, AnswerKeeps, AbortKeeps
     DEF Serve
<1>4. QED BY <1>1, <1>2, <1>3 DEF Next

\* In every behaviour of the exports the inductive invariant holds.
THEOREM Invariance == Spec => []IndInv
<1>1. QED BY InitIndInv, NextKeeps, PTL DEF Spec

\* Types; in particular a collection pack leaves no lines about people.
THEOREM TypeCorrect == Spec => []TypeOK
<1>1. IndInv => TypeOK
  <2> SUFFICES ASSUME IndInv PROVE TypeOK
    OBVIOUS
  <2>1. ASSUME NEW w \in Workers, tx[w] # Idle
        PROVE  /\ tx[w].pc \in Stages /\ tx[w].export \in Exports /\ tx[w].type \in Types
               /\ \A i \in DOMAIN tx[w].file.rows : tx[w].file.rows[i] \in PersonRow
               /\ \A i \in DOMAIN tx[w].file.pack : tx[w].file.pack[i] \in Header
    <3>1. tx[w] \in Requests
      BY <2>1 DEF IndInv, TxOK
    <3>2. tx[w].file.rows \in Seq(PersonRow) /\ tx[w].file.pack \in Seq(Header)
      BY <3>1 DEF Requests, File
    <3>3. QED BY <3>1, <3>2 DEF Requests
  <2>2. QED BY <2>1 DEF IndInv, WorldOK, ExportOK, SentOK, Pairs, TypeOK
<1>2. QED BY <1>1, Invariance, PTL

\* The lines of a consented list are the people in the file whose digest is recorded, and
\* they all consented at one moment of the export (generate, one query).
THEOREM LinesAreOneMoment == Spec => []RecordIsOneMoment
<1>1. IndInv => RecordIsOneMoment
  BY DEF IndInv, ExportOK, RecordIsOneMoment
<1>2. QED BY <1>1, Invariance, PTL

\* A download that shows other people than the lines has another digest (render).
THEOREM DifferentPeopleDiffer == Spec => []DriftShows
<1>1. IndInv => DriftShows
  BY DEF IndInv, ExportOK, SentOK, DriftShows
<1>2. QED BY <1>1, Invariance, PTL
=============================================================================
