----------------------------- MODULE Disclosure -----------------------------
(***************************************************************************)
(* The exports of one project and site: the collection pack (no person     *)
(* rows) and the consented list, the lines that record who was in a list,  *)
(* and the download that renders the content again.                        *)
(*                                                                         *)
(* Generating and downloading are transactions at READ COMMITTED: every    *)
(* statement sees what is committed when it runs, and people consent,      *)
(* withdraw and change their profile in between.  A consented list is one  *)
(* query, a pack is several.  Consent is the current artefact of each      *)
(* person and notice (ConsentLedger has how it is recorded), a profile is  *)
(* the name a list is sorted by.  A file's digest is its content.          *)
(***************************************************************************)
EXTENDS Naturals, Sequences, FiniteSets

CONSTANTS
  Workers,      \* request handlers
  People,
  Names,        \* names people may have; the order is the alphabetical one
  Links,        \* the site's consent links
  Exports,      \* exports that may be generated
  MaxVersion,   \* bound: versions of the project's notice
  MaxActs       \* bound: captures and withdrawals

ASSUME DisclosureAssumption ==
  /\ Names \subseteq Nat /\ IsFiniteSet(People)
  /\ MaxVersion \in Nat /\ MaxActs \in Nat

VARIABLES
  version,      \* the published version of the notice, 0 if there is none
  link,         \* the active links
  name,         \* auth_user.full_name
  consent,      \* the current artefact of each person and notice
  acts,         \* artefacts so far
  export,       \* export_log with its lines
  sent,         \* the last file that was downloaded
  tx            \* each worker's request and its local variables

vars == <<version, link, name, consent, acts, export, sent, tx>>

world == <<version, link, name, consent, acts>>

Versions == 1..MaxVersion
Acts == 1..MaxActs
Types == {"collection_pack", "consented_list"}

\* An artefact: its id, and whether it counts: it is no withdrawal and grants a purpose
NoConsent == [id |-> 0, counts |-> FALSE]
Artefact == [id : Acts, counts : BOOLEAN]

\* A file: the rows of a list, or the one header of a pack
PersonRow == [subject : People, name : Names, consent : Acts]
Header == [at : {"then", "later"}, notice : Versions, links : SUBSET Links]
Blank == [rows |-> <<>>, pack |-> <<>>]

\* The record an export leaves.  during is history: who was consenting at each moment
\* of its transaction.
NoExport == [type |-> "none"]
NoFile == [export |-> "none"]

\* The disclosures a list makes: whose current artefact counts, and which it is
GrantsOf(c) ==
  {d \in People \X Acts : \E v \in Versions : c[d[1]][v] = [id |-> d[2], counts |-> TRUE]}

GrantsNow == GrantsOf(consent)

Stages == {"rendering", "adding links", "rendered"}
Idle == [pc |-> "idle"]
Request(e, type, first) ==
  [pc |-> "rendering", export |-> e, type |-> type, first |-> first, file |-> Blank,
   during |-> IF first THEN {GrantsNow} ELSE {}]

-----------------------------------------------------------------------------
(* People and notices                                                      *)

Record(p, v, counts) ==
  /\ acts < MaxActs
  /\ acts' = acts + 1
  /\ consent' = [consent EXCEPT ![p][v] = [id |-> acts + 1, counts |-> counts]]
  /\ tx' = [w \in Workers |->
              IF tx[w] # Idle /\ tx[w].first
              THEN [tx[w] EXCEPT !.during = @ \cup {GrantsOf(consent')}] ELSE tx[w]]
  /\ UNCHANGED <<version, link, name, export, sent>>

\* An answer to the notice that is published, by a link of the site
Capture(p, grants) ==
  /\ version # 0 /\ link # {}
  /\ Record(p, version, grants)

\* All purposes or some of them: the artefact is a withdrawal either way
Withdraw(p, v) ==
  /\ consent[p][v].counts
  /\ Record(p, v, FALSE)

Rename(p, n) ==
  /\ n # name[p]
  /\ name' = [name EXCEPT ![p] = n]
  /\ UNCHANGED <<version, link, consent, acts, export, sent, tx>>

Publish ==
  /\ version < MaxVersion
  /\ version' = version + 1
  /\ UNCHANGED <<link, name, consent, acts, export, sent, tx>>

\* A link is minted, or ends
LinkChanges(l) ==
  /\ link' = IF l \in link THEN link \ {l} ELSE link \cup {l}
  /\ UNCHANGED <<version, name, consent, acts, export, sent, tx>>

-----------------------------------------------------------------------------
(* Rendering                                                               *)

\* consented_subjects: one row for each current artefact that grants a purpose
Rows == {[subject |-> d[1], name |-> name[d[1]], consent |-> d[2]] : d \in GrantsNow}

\* in the order of the names, and in any order among equal names
Listings ==
  {s \in [1..Cardinality(Rows) -> Rows] :
     /\ \A r \in Rows : \E i \in DOMAIN s : s[i] = r
     /\ \A i, j \in DOMAIN s : i < j => s[i].name <= s[j].name}

RenderList(w) ==
  /\ tx[w].pc = "rendering" /\ tx[w].type = "consented_list"
  /\ \E s \in Listings :
       tx' = [tx EXCEPT ![w].pc = "rendered", ![w].file.rows = s]
  /\ UNCHANGED <<world, export, sent>>

\* _collection_pack: the newest published notice, refused if there is none.  The
\* time of rendering is in the file.
RenderNotice(w) ==
  /\ tx[w].pc = "rendering" /\ tx[w].type = "collection_pack"
  /\ version # 0
  /\ tx' = [tx EXCEPT
       ![w].pc = "adding links",
       ![w].file.pack = <<[at |-> IF tx[w].first THEN "then" ELSE "later",
                           notice |-> version, links |-> {}]>>]
  /\ UNCHANGED <<world, export, sent>>

\* The links are read by a later statement
RenderLinks(w) ==
  /\ tx[w].pc = "adding links"
  /\ tx' = [tx EXCEPT ![w].pc = "rendered", ![w].file.pack[1].links = link]
  /\ UNCHANGED <<world, export, sent>>

\* Mutant of Digest: the number of rows instead of the rows
DigestOfSize(file) == Len(file.rows)

Digest(file) == file

-----------------------------------------------------------------------------
(* Generating and downloading                                              *)

\* exported_at is the time the transaction begins
Generate(w, e, type) ==
  /\ tx[w].pc = "idle"
  /\ export[e] = NoExport /\ \A v \in Workers : tx[v].pc # "idle" => tx[v].export # e
  /\ tx' = [tx EXCEPT ![w] = Request(e, type, TRUE)]
  /\ UNCHANGED <<world, export, sent>>

\* The people in a file, as the pairs that lines record
PairsOf(file) == {<<file.rows[i].subject, file.rows[i].consent>> : i \in DOMAIN file.rows}

\* Mutant of LinesOf: the subjects are queried again
LinesAskedAgain(w) == IF tx[w].type = "consented_list" THEN GrantsNow ELSE {}

LinesOf(w) == PairsOf(tx[w].file)

\* Mutant of Store: a pack gets lines as well
StoreEverybody(w) ==
  /\ tx[w].pc = "rendered" /\ tx[w].first
  /\ export' = [export EXCEPT ![tx[w].export] =
       [type |-> tx[w].type, hash |-> Digest(tx[w].file), lines |-> GrantsNow,
        during |-> tx[w].during]]
  /\ tx' = [tx EXCEPT ![w] = Idle]
  /\ UNCHANGED <<world, sent>>

\* create_export, add_export_lines and the commit: other requests see all or nothing
Store(w) ==
  /\ tx[w].pc = "rendered" /\ tx[w].first
  /\ export' = [export EXCEPT ![tx[w].export] =
       [type |-> tx[w].type, hash |-> Digest(tx[w].file), lines |-> LinesOf(w),
        during |-> tx[w].during]]
  /\ tx' = [tx EXCEPT ![w] = Idle]
  /\ UNCHANGED <<world, sent>>

Download(w, e) ==
  /\ tx[w].pc = "idle" /\ export[e] # NoExport
  /\ tx' = [tx EXCEPT ![w] = Request(e, export[e].type, FALSE)]
  /\ UNCHANGED <<world, export, sent>>

\* The download is on the audit trail and the file leaves with both digests
Answer(w) ==
  /\ tx[w].pc = "rendered" /\ ~tx[w].first
  /\ sent' = [export |-> tx[w].export, hash |-> Digest(tx[w].file),
              people |-> PairsOf(tx[w].file)]
  /\ tx' = [tx EXCEPT ![w] = Idle]
  /\ UNCHANGED <<world, export>>

\* No published notice, a lost connection: nothing is stored, nothing leaves
Abort(w) ==
  /\ tx[w].pc # "idle"
  /\ tx' = [tx EXCEPT ![w] = Idle]
  /\ UNCHANGED <<world, export, sent>>

-----------------------------------------------------------------------------
Init ==
  /\ version = 0
  /\ link = {}
  /\ name \in [People -> Names]
  /\ consent = [p \in People |-> [v \in Versions |-> NoConsent]]
  /\ acts = 0
  /\ export = [e \in Exports |-> NoExport]
  /\ sent = NoFile
  /\ tx = [w \in Workers |-> Idle]

World ==
  \/ \E p \in People :
       \/ \E grants \in BOOLEAN : Capture(p, grants)
       \/ \E v \in Versions : Withdraw(p, v)
       \/ \E n \in Names : Rename(p, n)
  \/ Publish
  \/ \E l \in Links : LinkChanges(l)

Serve(w) ==
  \/ \E e \in Exports : Download(w, e) \/ \E type \in Types : Generate(w, e, type)
  \/ RenderList(w) \/ RenderNotice(w) \/ RenderLinks(w)
  \/ Store(w) \/ Answer(w) \/ Abort(w)

Next == World \/ \E w \in Workers : Serve(w)

Spec == Init /\ [][Next]_vars

-----------------------------------------------------------------------------
(* Properties                                                              *)

\* Type invariant; only a consented list has lines.
TypeOK ==
  /\ version \in 0..MaxVersion
  /\ link \subseteq Links
  /\ name \in [People -> Names]
  /\ consent \in [People -> [Versions -> Artefact \cup {NoConsent}]]
  /\ acts \in 0..MaxActs
  /\ \A e \in Exports : export[e] # NoExport =>
       /\ export[e].type \in Types
       /\ export[e].lines \subseteq People \X Acts
       /\ export[e].type = "collection_pack" => export[e].lines = {}
  /\ sent = NoFile \/ sent.export \in Exports
  /\ \A w \in Workers : tx[w] # Idle =>
       /\ tx[w].pc \in Stages /\ tx[w].export \in Exports /\ tx[w].type \in Types
       /\ \A i \in DOMAIN tx[w].file.rows : tx[w].file.rows[i] \in PersonRow
       /\ \A i \in DOMAIN tx[w].file.pack : tx[w].file.pack[i] \in Header

\* The lines of a list are the people in the file whose digest is recorded, and these
\* were all consenting at one moment of its transaction: nobody who had withdrawn
\* before, nobody missing who consented throughout, whatever is committed between two
\* of its statements.
RecordIsOneMoment ==
  \A e \in Exports :
    export[e] # NoExport /\ export[e].type = "consented_list" =>
      /\ export[e].lines = PairsOf(export[e].hash)
      /\ export[e].lines \in export[e].during

\* render() surfaces a changed disclosure: a download whose two digests agree shows
\* exactly the people and consents on the export's lines.
DriftShows ==
  sent # NoFile /\ sent.hash = export[sent.export].hash =>
    sent.people = export[sent.export].lines
=============================================================================
