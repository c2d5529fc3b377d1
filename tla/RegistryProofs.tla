--------------------------- MODULE RegistryProofs ---------------------------
(***************************************************************************)
(* Theorems about Registry, for any number of handlers, purposes, notices, *)
(* processors, sources and sites.  What forbids a write is never undone,   *)
(* so the requests that may still write are used up; and a site is in the  *)
(* recipients a publication has read, or its commit crosses one.           *)
(***************************************************************************)
EXTENDS Registry, FiniteSetTheorems, TLAPS

\* What a request carries at each of its stages.  Nothing it names is deleted.
Shape(w) ==
  /\ tx[w].pc \in {"editing", "activating", "retiring", "attaching"} =>
       tx[w].purpose \in Purposes
  /\ tx[w].pc = "attaching" => purpose[tx[w].purpose] \in {"active", "retired"}
  /\ tx[w].pc \in {"attaching", "publishing"} => tx[w].notice \in Notices
  /\ tx[w].pc = "publishing" =>
       /\ offers[tx[w].notice] # {}
       /\ tx[w].named \subseteq {s \in Sites : site[s] # NoRow}
  /\ tx[w].pc \in {"checked", "inserted"} =>
       /\ tx[w].site \in Sites
       /\ tx[w].source # None => source[tx[w].source] # NoRow
  /\ tx[w].pc = "importing" => tx[w].source \in Sources

Typed == TypeOK /\ \A w \in Workers : Shape(w)

\* The requests that may still write what x forbids
Writers(x) == {w \in Workers : MayWrite(w, x)}

\* Nothing counts as late before it is.
LateOK(x) ==
  /\ ~Settled(x) => late[x] = 0
  /\ Settled(x) => late[x] + Cardinality(Writers(x)) <= Cardinality(Workers)

Known(s) == site[s].flagged \/ site[s].crossed

Publishing == \E v \in Workers : tx[v].pc = "publishing"

Crossed == displaced \/ Publishing

\* What will hold when a site, or a publication, commits
Crossing(w) ==
  /\ tx[w].pc = "inserted" =>
       /\ published # {} => tx[w].flagged \/ tx[w].crossed
       /\ Publishing => tx[w].crossed
  /\ tx[w].pc = "publishing" =>
       \A s \in Sites : site[s].status = "active" => s \in tx[w].named \/ Known(s)

Warned == NamedOrFlagged /\ \A w \in Workers : Crossing(w)

IndInv == Typed /\ (\A x \in DOMAIN late : LateOK(x)) /\ Warned

\* What a step never undoes
Stays ==
  /\ \A p \in Purposes :
       purpose[p] \in {"active", "retired"} => purpose'[p] \in {"active", "retired"}
  /\ \A pr \in Processors : processor[pr] = "suspended" => processor'[pr] = "suspended"
  /\ \A so \in Sources : source[so] # NoRow =>
       source'[so] # NoRow /\ (source[so].status = "suspended" => source'[so].status = "suspended")
  /\ \A s \in Sites : site[s] # NoRow => site'[s] # NoRow

-----------------------------------------------------------------------------
(* Types and shapes                                                        *)

LEMMA RowTypes ==
  /\ NoRow \notin Source /\ NoRow \notin Site
  /\ \A r \in Request : r # Idle /\ r.pc # "idle"
BY DEF NoRow, Source, Site, Request, Idle, Stages

LEMMA OpensType ==
  ASSUME NEW pc \in Stages
  PROVE  /\ Open(pc) \in Request /\ Open(pc).pc = pc
         /\ Open(pc).purpose = None /\ Open(pc).notice = None /\ Open(pc).site = None
         /\ Open(pc).processor = None /\ Open(pc).source = None
BY DEF Open, Request

OnlyMoves(w) ==
  /\ tx' \in [Workers -> Request \cup {Idle}]
  /\ \A v \in Workers \ {w} : tx'[v] = tx[v]

LEMMA BeginsType ==
  ASSUME TypeOK, NEW w \in Workers, NEW r \in Request, Begin(w, r)
  PROVE  OnlyMoves(w) /\ tx[w] = Idle /\ tx'[w] = r
BY DEF TypeOK, Begin, OnlyMoves

LEMMA EndsType ==
  ASSUME TypeOK, NEW w \in Workers, tx' = [tx EXCEPT ![w] = Idle]
  PROVE  OnlyMoves(w) /\ tx'[w] = Idle
BY DEF TypeOK, OnlyMoves

LEMMA AtWork ==
  ASSUME TypeOK, NEW w \in Workers, tx[w].pc # "idle"
  PROVE  tx[w] \in Request
BY DEF TypeOK, Idle

\* The requests that begin with a look and nothing else.
Opens(w, r) ==
  /\ r \in Request /\ OnlyMoves(w) /\ tx[w] = Idle /\ tx'[w] = r
  /\ UNCHANGED <<purpose, published, offers, named, displaced, processor, source, site, late>>
  /\ r.pc \in {"editing", "activating", "retiring", "attaching", "checked", "importing"}
  /\ Shape(w)'
  /\ \A x \in DOMAIN late : MayWrite(w, x)' => ~Settled(x)

LEMMA PurposeLooks ==
  ASSUME Typed, NEW w \in Workers, NEW p \in Purposes,
         Edit(w, p) \/ Activate(w, p) \/ Retire(w, p)
  PROVE  \E r \in Request : Opens(w, r)
<1>1. PICK pc \in {"editing", "activating", "retiring"} :
        Begin(w, [Open(pc) EXCEPT !.purpose = p]) /\ (pc = "editing" => purpose[p] = "draft")
  BY DEF Edit, Activate, Retire
<1> DEFINE r == [Open(pc) EXCEPT !.purpose = p]
<1>2. Open(pc) \in Request
  BY OpensType DEF Stages
<1>3. /\ r \in Request /\ r.pc = pc /\ r.purpose = p
  BY <1>2, OpensType DEF Request, Stages
<1> HIDE DEF r
<1>4. OnlyMoves(w) /\ tx[w] = Idle /\ tx'[w] = r
  BY <1>1, <1>3, BeginsType DEF Typed, r
<1>5. UNCHANGED <<purpose, published, offers, named, displaced, processor, source, site, late>>
  BY DEF Edit, Activate, Retire, notices, operators
<1>6. Shape(w)'
  BY <1>3, <1>4 DEF Shape
<1>7. ASSUME NEW x \in DOMAIN late, MayWrite(w, x)' PROVE ~Settled(x)
  <2>1. x = p /\ purpose[p] = "draft"
    BY <1>1, <1>3, <1>4, <1>7 DEF MayWrite
  <2>2. QED BY <2>1, RegistryAssumption DEF Settled
<1>8. QED BY <1>3, <1>4, <1>5, <1>6, <1>7 DEF Opens

LEMMA AttachLooks ==
  ASSUME Typed, NEW w \in Workers, NEW n \in Notices, NEW p \in Purposes, Attach(w, n, p)
  PROVE  \E r \in Request : Opens(w, r)
<1> DEFINE r == [Open("attaching") EXCEPT !.notice = n, !.purpose = p]
<1>1. Open("attaching") \in Request
  BY OpensType DEF Stages
<1>2. r \in Request /\ r.pc = "attaching" /\ r.purpose = p /\ r.notice = n
  BY <1>1, OpensType DEF Request, Stages
<1>3. Begin(w, r)
  BY DEF Attach
<1> HIDE DEF r
<1>4. OnlyMoves(w) /\ tx[w] = Idle /\ tx'[w] = r
  BY <1>2, <1>3, BeginsType DEF Typed
<1>5. UNCHANGED <<purpose, published, offers, named, displaced, processor, source, site, late>>
  BY DEF Attach, notices, operators
<1>6. Shape(w)'
  BY <1>2, <1>4, <1>5 DEF Shape, Attach
<1>7. \A x : ~MayWrite(w, x)'
  BY <1>2, <1>4 DEF MayWrite
<1>8. QED BY <1>2, <1>4, <1>5, <1>6, <1>7 DEF Opens

LEMMA ImportLooks ==
  ASSUME Typed, NEW w \in Workers, NEW so \in Sources, Import(w, so)
  PROVE  \E r \in Request : Opens(w, r)
<1> DEFINE r == [Open("importing") EXCEPT !.source = so]
<1>1. Open("importing") \in Request
  BY OpensType DEF Stages
<1>2. r \in Request /\ r.pc = "importing" /\ r.source = so
  BY <1>1, OpensType DEF Request, Stages
<1>3. Begin(w, r)
  BY DEF Import
<1> HIDE DEF r
<1>4. OnlyMoves(w) /\ tx[w] = Idle /\ tx'[w] = r
  BY <1>2, <1>3, BeginsType DEF Typed
<1>5. UNCHANGED <<purpose, published, offers, named, displaced, processor, source, site, late>>
  BY DEF Import, notices, operators
<1>6. Shape(w)'
  BY <1>2, <1>4 DEF Shape
<1>7. ASSUME NEW x \in DOMAIN late, MayWrite(w, x)' PROVE ~Settled(x)
  <2>1. x = so /\ source[so].status = "active"
    BY <1>2, <1>4, <1>7 DEF MayWrite, Import
  <2>2. QED BY <2>1, RegistryAssumption DEF Settled
<1>8. QED BY <1>2, <1>4, <1>5, <1>6, <1>7 DEF Opens

LEMMA SiteLooks ==
  ASSUME Typed, NEW w \in Workers, NEW s \in Sites, NEW pr \in Processors \cup {None},
         NEW so \in Sources \cup {None}, CheckSite(w, s, pr, so)
  PROVE  \E r \in Request : Opens(w, r)
<1> DEFINE r == [Open("checked") EXCEPT !.site = s, !.processor = pr, !.source = so]
<1>1. Open("checked") \in Request
  BY OpensType DEF Stages
<1>2. /\ r \in Request /\ r.pc = "checked" /\ r.site = s /\ r.processor = pr
      /\ r.source = so
  BY <1>1, OpensType, ZenonT(30) DEF Request, Stages
<1>3. Begin(w, r) /\ Fit(pr, so)
  BY DEF CheckSite
<1> HIDE DEF r
<1>4. OnlyMoves(w) /\ tx[w] = Idle /\ tx'[w] = r
  BY <1>2, <1>3, BeginsType DEF Typed
<1>5. UNCHANGED <<purpose, published, offers, named, displaced, processor, source, site, late>>
  BY DEF CheckSite, notices, operators
<1>6. Shape(w)'
  BY <1>2, <1>3, <1>4, <1>5 DEF Shape, Fit, NoRow
<1>7. ASSUME NEW x \in DOMAIN late, MayWrite(w, x)' PROVE ~Settled(x)
  <2>1. x \in {pr, so}
    BY <1>2, <1>4, <1>7 DEF MayWrite
  <2>2. x # None
    BY <1>7, RegistryAssumption DEF Typed, TypeOK
  <2>3. QED BY <1>3, <2>1, <2>2, RegistryAssumption DEF Settled, Fit
<1>8. QED BY <1>2, <1>4, <1>5, <1>6, <1>7 DEF Opens

Looks(w) == \E r \in Request : Opens(w, r)

\* Writes without a request of their own
WorldStep ==
  \/ \E p \in Purposes : CreatePurpose(p) \/ \E n \in Notices : Detach(n, p)
  \/ \E pr \in Processors : CreateProcessor(pr) \/ SuspendProcessor(pr)
  \/ \E so \in Sources :
       \/ \E pr \in Processors \cup {None}, s \in Sites \cup {None} : CreateSource(so, pr, s)
       \/ SuspendSource(so)
  \/ \E s \in Sites : Deactivate(s)
  \/ PublishElsewhere

LEMMA StepKinds ==
  ASSUME Typed, Next
  PROVE  \/ WorldStep
         \/ \E w \in Workers : Looks(w)
         \/ \E w \in Workers : Saving(w) \/ \E n \in Notices : Publish(w, n)
BY PurposeLooks, AttachLooks, ImportLooks, SiteLooks
   DEF Next, DPO, Staff, WorldStep, Looks

LEMMA LooksStay == ASSUME Typed, NEW w \in Workers, Looks(w) PROVE Stays
BY DEF Looks, Opens, Stays

\* Purposes do not return to their draft, nothing is resumed or deleted.
LEMMA WorldStays == ASSUME Typed, WorldStep PROVE Stays
<1>1. TypeOK
  BY DEF Typed
<1>2. ASSUME NEW p \in Purposes, CreatePurpose(p) \/ \E n \in Notices : Detach(n, p)
      PROVE  Stays
  BY <1>1, <1>2 DEF TypeOK, CreatePurpose, Detach, operators, Stays
<1>3. ASSUME NEW pr \in Processors, CreateProcessor(pr) \/ SuspendProcessor(pr)
      PROVE  Stays
  BY <1>1, <1>3 DEF TypeOK, CreateProcessor, SuspendProcessor, Stays
<1>4. ASSUME NEW so \in Sources, NEW pr \in Processors \cup {None}, NEW s \in Sites \cup {None},
             CreateSource(so, pr, s)
      PROVE  Stays
  BY <1>1, <1>4 DEF TypeOK, CreateSource, Stays
<1>5. ASSUME NEW so \in Sources, SuspendSource(so) PROVE Stays
  <2>1. source[so] \in Source
    BY <1>1, <1>5 DEF TypeOK, SuspendSource
  <2>2. source'[so] # NoRow /\ source'[so].status = "suspended"
    BY <1>1, <1>5, <2>1 DEF TypeOK, SuspendSource, Source, NoRow
  <2>3. \A o \in Sources \ {so} : source'[o] = source[o]
    BY <1>1, <1>5 DEF TypeOK, SuspendSource
  <2>4. QED BY <1>5, <2>2, <2>3 DEF SuspendSource, Stays
<1>6. ASSUME NEW s \in Sites, Deactivate(s) PROVE Stays
  <2>1. site[s] \in Site
    BY <1>1, <1>6 DEF TypeOK, Deactivate
  <2>2. site'[s] # NoRow
    BY <1>1, <1>6, <2>1 DEF TypeOK, Deactivate, Site, NoRow
  <2>3. \A o \in Sites \ {s} : site'[o] = site[o]
    BY <1>1, <1>6 DEF TypeOK, Deactivate
  <2>4. QED BY <1>6, <2>2, <2>3 DEF Deactivate, Stays
<1>7. CASE PublishElsewhere
  BY <1>7 DEF PublishElsewhere, operators, Stays
<1>8. QED BY <1>2, <1>3, <1>4, <1>5, <1>6, <1>7 DEF WorldStep

LEMMA ShapeStays ==
  ASSUME Typed, Stays, NEW v \in Workers, tx'[v] = tx[v],
         tx[v].pc = "publishing" => offers'[tx[v].notice] # {}
  PROVE  Shape(v)'
<1>1. Shape(v)
  BY DEF Typed
<1>2. tx[v].pc \in {"checked", "inserted"} /\ tx[v].source # None => tx[v].source \in Sources
  BY AtWork DEF Typed, Request
<1>3. QED BY <1>1, <1>2 DEF Stays, Shape

LEMMA LooksType == ASSUME Typed, NEW w \in Workers, Looks(w) PROVE Typed'
<1>1. PICK r \in Request : Opens(w, r)
  BY DEF Looks
<1>2. TypeOK'
  BY <1>1 DEF Typed, TypeOK, Opens, OnlyMoves
<1>3. ASSUME NEW v \in Workers \ {w} PROVE Shape(v)'
  <2>1. tx[v].pc = "publishing" => offers'[tx[v].notice] # {}
    BY <1>1 DEF Typed, Shape, Opens
  <2>2. QED BY <1>1, <2>1, LooksStay, ShapeStays DEF Opens, OnlyMoves
<1>4. QED BY <1>1, <1>2, <1>3 DEF Typed, Opens

LEMMA WorldType == ASSUME Typed, WorldStep PROVE Typed'
<1>1. TypeOK
  BY DEF Typed
<1>2. tx' = tx
  BY DEF WorldStep, CreatePurpose, Detach, CreateProcessor, SuspendProcessor, CreateSource,
         SuspendSource, Deactivate, PublishElsewhere
<1>3. TypeOK'
  <2>1. ASSUME NEW p \in Purposes, CreatePurpose(p) PROVE TypeOK'
    BY <1>1, <2>1 DEF TypeOK, CreatePurpose, notices, operators
  <2>2. ASSUME NEW n \in Notices, NEW p \in Purposes, Detach(n, p) PROVE TypeOK'
    BY <1>1, <2>2 DEF TypeOK, Detach, RequireDraft, operators
  <2>3. ASSUME NEW pr \in Processors, CreateProcessor(pr) \/ SuspendProcessor(pr)
        PROVE  TypeOK'
    BY <1>1, <2>3 DEF TypeOK, CreateProcessor, SuspendProcessor, notices
  <2>4. ASSUME NEW so \in Sources, NEW pr \in Processors \cup {None}, NEW s \in Sites \cup {None},
               CreateSource(so, pr, s)
        PROVE  TypeOK'
    <3> DEFINE row == [status |-> "active", processor |-> pr, site |-> s]
    <3>1. row \in Source /\ row.site = s
      BY DEF Source
    <3>2. source' = [source EXCEPT ![so] = row] /\ (s # None => site[s] # NoRow)
      BY <2>4 DEF CreateSource
    <3> HIDE DEF row
    <3>3. QED BY <1>1, <2>4, <3>1, <3>2 DEF TypeOK, CreateSource, notices
  <2>5. ASSUME NEW so \in Sources, SuspendSource(so) PROVE TypeOK'
    <3>1. source[so] \in Source
      BY <1>1, <2>5 DEF TypeOK, SuspendSource
    <3>2. [source[so] EXCEPT !.status = "suspended"] \in Source
      BY <3>1 DEF Source
    <3>3. [source[so] EXCEPT !.status = "suspended"].site = source[so].site
      BY <3>1 DEF Source
    <3>4. source' = [source EXCEPT ![so] = [source[so] EXCEPT !.status = "suspended"]]
      BY <2>5 DEF SuspendSource
    <3>5. \A o \in Sources : source'[o] # NoRow =>
            source[o] # NoRow /\ source'[o].site = source[o].site
      BY <1>1, <2>5, <3>3, <3>4 DEF TypeOK, SuspendSource
    <3>6. source' \in [Sources -> Source \cup {NoRow}]
      BY <1>1, <3>2, <3>4 DEF TypeOK
    <3>7. QED BY <1>1, <2>5, <3>5, <3>6 DEF TypeOK, SuspendSource, notices
  <2>6. ASSUME NEW s \in Sites, Deactivate(s) PROVE TypeOK'
    <3> DEFINE row == [site[s] EXCEPT !.status = "terminated", !.flagged = FALSE,
                                      !.crossed = FALSE]
    <3>1. site[s] \in Site
      BY <1>1, <2>6 DEF TypeOK, Deactivate
    <3>2. row \in Site
      BY <3>1 DEF Site
    <3>3. row # NoRow
      BY <3>2, RowTypes
    <3>4. site' = [site EXCEPT ![s] = row]
      BY <2>6 DEF Deactivate
    <3> HIDE DEF row
    <3>5. site' \in [Sites -> Site \cup {NoRow}] /\ \A o \in Sites : site[o] # NoRow => site'[o] # NoRow
      BY <1>1, <3>2, <3>3, <3>4 DEF TypeOK
    <3>6. \A so \in Sources : source[so] # NoRow /\ source[so].site # None => source[so].site \in Sites
      BY <1>1 DEF TypeOK, Source
    <3>7. QED BY <1>1, <2>6, <3>5, <3>6 DEF TypeOK, Deactivate, notices
  <2>7. CASE PublishElsewhere
    BY <1>1, <2>7 DEF TypeOK, PublishElsewhere, operators
  <2>8. QED BY <2>1, <2>2, <2>3, <2>4, <2>5, <2>6, <2>7 DEF WorldStep
<1>4. ASSUME NEW v \in Workers, tx[v].pc = "publishing" PROVE offers'[tx[v].notice] # {}
  <2>1. tx[v].notice \in Notices /\ offers[tx[v].notice] # {} /\ tx[v] # Idle
    BY <1>4 DEF Typed, Shape, Idle
  <2>2. ASSUME NEW n \in Notices, NEW p \in Purposes, Detach(n, p)
        PROVE  offers'[tx[v].notice] = offers[tx[v].notice]
    <3>1. tx[v].notice # n
      BY <2>1, <2>2 DEF Detach, RequireDraft, NoticeFree
    <3>2. QED BY <1>1, <2>1, <2>2, <3>1 DEF TypeOK, Detach
  <2>3. CASE offers' = offers
    BY <2>1, <2>3
  <2>4. QED
    BY <2>1, <2>2, <2>3 DEF WorldStep, CreatePurpose, CreateProcessor, SuspendProcessor,
                            CreateSource, SuspendSource, Deactivate, PublishElsewhere, notices
<1>5. \A v \in Workers : Shape(v)'
  BY <1>2, <1>4, WorldStays, ShapeStays
<1>6. QED BY <1>3, <1>5 DEF Typed

\* A request that ends
LEMMA FinishType ==
  ASSUME TypeOK, NEW w \in Workers, NEW pc \in Stages, Finish(w, pc)
  PROVE  /\ OnlyMoves(w) /\ tx'[w] = Idle
         /\ tx[w] \in Request /\ tx[w].pc = pc
<1>1. tx[w].pc # "idle"
  BY DEF Finish, Stages
<1>2. QED BY <1>1, AtWork, EndsType DEF Finish

LEMMA WrittenType ==
  ASSUME TypeOK, NEW xs, Written(xs)
  PROVE  late' \in [Purposes \cup Processors \cup Sources -> Nat]
BY DEF TypeOK, Written

LEMMA IdleShape ==
  ASSUME NEW w \in Workers, tx'[w] = Idle PROVE Shape(w)'
BY DEF Shape, Idle

\* The ends that write the purposes, the notices and the imports
LEMMA EndsStay ==
  ASSUME Typed, NEW w \in Workers,
         \/ SaveEdit(w) \/ SaveActive(w) \/ SaveRetired(w) \/ SaveAttached(w)
         \/ SavePublished(w) \/ SaveImport(w) \/ Abort(w)
  PROVE  Stays /\ OnlyMoves(w) /\ tx'[w] = Idle /\ Typed'
<1>1. TypeOK
  BY DEF Typed
<1>2. OnlyMoves(w) /\ tx'[w] = Idle
  BY <1>1, FinishType, EndsType
     DEF SaveEdit, SaveActive, SaveRetired, SaveAttached, SavePublished, SaveImport, Abort, Stages
<1>3. UNCHANGED operators
  BY DEF SaveEdit, SaveActive, SaveRetired, SaveAttached, SavePublished, SaveImport, Abort
<1>4. Stays
  <2>1. \A p \in Purposes :
          purpose[p] \in {"active", "retired"} => purpose'[p] \in {"active", "retired"}
    BY <1>1 DEF TypeOK, SaveEdit, SaveActive, SaveRetired, SaveAttached, SavePublished,
                SaveImport, Abort
  <2>2. QED BY <1>3, <2>1 DEF operators, Stays
<1>5. TypeOK'
  <2>1. CASE SaveEdit(w) \/ SaveImport(w) \/ Abort(w)
    <3>1. late' \in [Purposes \cup Processors \cup Sources -> Nat]
      BY <1>1, <2>1, WrittenType DEF SaveEdit, SaveImport, Abort, TypeOK
    <3>2. UNCHANGED <<purpose, published, offers, named, displaced>>
      BY <2>1 DEF SaveEdit, SaveImport, Abort, notices
    <3>3. QED BY <1>1, <1>2, <1>3, <3>1, <3>2 DEF TypeOK, operators, OnlyMoves
  <2>2. CASE SaveActive(w) \/ SaveRetired(w)
    <3>1. purpose' \in [Purposes -> {"none", "draft", "active", "retired"}]
      BY <1>1, <2>2 DEF TypeOK, SaveActive, SaveRetired
    <3>2. \A n \in Notices : offers[n] \subseteq Purposes
      BY <1>1 DEF TypeOK
    <3>3. UNCHANGED <<published, offers, named, displaced, late>>
      BY <2>2 DEF SaveActive, SaveRetired, notices
    <3>4. \A n \in Notices : \A p \in offers'[n] : purpose'[p] \in {"active", "retired"}
      BY <1>1, <1>4, <3>2, <3>3 DEF TypeOK, Stays
    <3>5. QED BY <1>1, <1>2, <1>3, <3>1, <3>3, <3>4 DEF TypeOK, operators, OnlyMoves
  <2>3. CASE SaveAttached(w)
    <3>1. tx[w].pc = "attaching"
      BY <2>3 DEF SaveAttached, Finish
    <3>2. /\ tx[w].notice \in Notices /\ tx[w].purpose \in Purposes
          /\ purpose[tx[w].purpose] \in {"active", "retired"}
      BY <3>1 DEF Typed, Shape
    <3>3. offers' = [offers EXCEPT ![tx[w].notice] = offers[tx[w].notice] \cup {tx[w].purpose}]
      BY <2>3 DEF SaveAttached
    <3>4. offers' \in [Notices -> SUBSET Purposes]
      BY <1>1, <3>2, <3>3 DEF TypeOK
    <3>5. \A n \in Notices : offers[n] \subseteq offers'[n]
                             /\ \A p \in offers'[n] : p \in offers[n] \/ p = tx[w].purpose
      BY <1>1, <3>2, <3>3 DEF TypeOK
    <3>6. \A n \in published : offers'[n] # {}
      BY <1>1, <3>5 DEF TypeOK
    <3>7. \A n \in Notices : \A p \in offers'[n] : purpose[p] \in {"active", "retired"}
      BY <1>1, <3>2, <3>5 DEF TypeOK
    <3>8. UNCHANGED <<purpose, published, named, displaced, late>>
      BY <2>3 DEF SaveAttached
    <3>9. QED BY <1>1, <1>2, <1>3, <3>4, <3>6, <3>7, <3>8 DEF TypeOK, operators, OnlyMoves
  <2>4. CASE SavePublished(w)
    <3>1. tx[w].pc = "publishing"
      BY <2>4 DEF SavePublished, Finish
    <3>2. /\ tx[w].notice \in Notices /\ offers[tx[w].notice] # {}
          /\ tx[w].named \subseteq {s \in Sites : site[s] # NoRow}
      BY <3>1 DEF Typed, Shape
    <3>3. QED BY <1>1, <1>2, <1>3, <2>4, <3>2 DEF TypeOK, operators, OnlyMoves, SavePublished
  <2>5. QED BY <2>1, <2>2, <2>3, <2>4
<1>6. ASSUME NEW v \in Workers \ {w} PROVE Shape(v)'
  <2>1. ASSUME tx[v].pc = "publishing" PROVE offers'[tx[v].notice] # {}
    <3>1. tx[v].notice \in Notices /\ offers[tx[v].notice] # {}
      BY <2>1 DEF Typed, Shape
    <3>2. CASE SaveAttached(w)
      <4>1. offers' = [offers EXCEPT ![tx[w].notice] = offers[tx[w].notice] \cup {tx[w].purpose}]
        BY <3>2 DEF SaveAttached
      <4>2. QED BY <1>1, <3>1, <4>1 DEF TypeOK
    <3>3. CASE offers' = offers
      BY <3>1, <3>3
    <3>4. QED
      BY <3>2, <3>3 DEF SaveEdit, SaveActive, SaveRetired, SavePublished, SaveImport, Abort,
                        notices
  <2>2. QED BY <1>2, <1>4, <2>1, ShapeStays DEF OnlyMoves
<1>7. QED BY <1>2, <1>4, <1>5, <1>6, IdleShape DEF Typed

\* The commit of a site, with the source it moves
LEMMA SaveSiteType ==
  ASSUME Typed, NEW w \in Workers, SaveSite(w)
  PROVE  /\ Stays /\ OnlyMoves(w) /\ tx'[w] = Idle /\ Typed'
         /\ tx[w].pc = "inserted" /\ tx[w].site \in Sites /\ tx[w] \in Request
         /\ \A s \in Sites \ {tx[w].site} : site'[s] = site[s]
         /\ site'[tx[w].site].status = "active"
         /\ site'[tx[w].site].flagged = tx[w].flagged
         /\ site'[tx[w].site].crossed = tx[w].crossed
<1> DEFINE r == tx[w]
           row == [status |-> "active", processor |-> r.processor, flagged |-> r.flagged,
                   crossed |-> r.crossed]
<1>1. TypeOK
  BY DEF Typed
<1>2. OnlyMoves(w) /\ tx'[w] = Idle /\ r \in Request /\ r.pc = "inserted"
  BY <1>1, FinishType DEF SaveSite, Stages
<1>3. r.site \in Sites /\ (r.source # None => source[r.source] # NoRow /\ r.source \in Sources)
  BY <1>2 DEF Typed, Shape, Request
<1>4. row \in Site /\ row # NoRow
  <2>1. r.processor \in Processors \cup {None} /\ r.flagged \in BOOLEAN /\ r.crossed \in BOOLEAN
    BY <1>2 DEF Request
  <2>2. row \in Site
    BY <2>1 DEF Site
  <2>3. QED BY <2>2, RowTypes
<1>5. site' = [site EXCEPT ![r.site] = row]
  BY DEF SaveSite
<1>6. row.status = "active" /\ row.flagged = r.flagged /\ row.crossed = r.crossed
  OBVIOUS
<1> HIDE DEF row
<1>7. /\ site' \in [Sites -> Site \cup {NoRow}] /\ site'[r.site] = row
      /\ \A s \in Sites \ {r.site} : site'[s] = site[s]
  BY <1>1, <1>3, <1>4, <1>5 DEF TypeOK
<1>8. \A s \in Sites : site[s] # NoRow => site'[s] # NoRow
  BY <1>4, <1>7
<1>9. /\ source' \in [Sources -> Source \cup {NoRow}]
      /\ \A so \in Sources : source[so] = NoRow => source'[so] = NoRow
      /\ \A so \in Sources : source[so] # NoRow =>
           /\ source'[so] # NoRow /\ source'[so].status = source[so].status
           /\ source'[so].site \in {source[so].site, r.site}
  <2>1. CASE r.source = None
    BY <1>1, <2>1 DEF TypeOK, SaveSite
  <2>2. CASE r.source # None
    <3>1. source[r.source] \in Source /\ r.source \in Sources
      BY <1>1, <1>3, <2>2 DEF TypeOK
    <3> DEFINE moved == [source[r.source] EXCEPT !.site = r.site]
    <3>2. moved \in Source /\ moved.site = r.site /\ moved.status = source[r.source].status
      BY <1>3, <3>1 DEF Source
    <3>3. source' = [source EXCEPT ![r.source] = moved]
      BY <2>2 DEF SaveSite
    <3> HIDE DEF moved
    <3>4. QED BY <1>1, <3>1, <3>2, <3>3, RowTypes DEF TypeOK
  <2>3. QED BY <2>1, <2>2
<1>10. UNCHANGED <<purpose, published, offers, named, displaced, processor>>
  BY DEF SaveSite, notices
<1>11. Stays
  BY <1>8, <1>9, <1>10 DEF Stays
<1>12. \A so \in Sources :
         source'[so] # NoRow /\ source'[so].site # None => site'[source'[so].site] # NoRow
  <2> TAKE so \in Sources
  <2> SUFFICES ASSUME source'[so] # NoRow, source'[so].site # None
               PROVE  site'[source'[so].site] # NoRow
    OBVIOUS
  <2>1. source[so] # NoRow /\ source[so] \in Source
    BY <1>1, <1>9 DEF TypeOK
  <2>2. CASE source'[so].site = r.site
    BY <1>4, <1>7, <2>2
  <2>3. CASE source'[so].site = source[so].site
    <3>1. source[so].site \in Sites /\ site[source[so].site] # NoRow
      BY <1>1, <2>1, <2>3 DEF TypeOK, Source
    <3>2. QED BY <1>8, <2>3, <3>1
  <2>4. QED BY <1>9, <2>1, <2>2, <2>3
<1>13. late' \in [Purposes \cup Processors \cup Sources -> Nat]
  BY <1>1, WrittenType DEF SaveSite
<1>14. named \subseteq {s \in Sites : site'[s] # NoRow}
  BY <1>1, <1>8 DEF TypeOK
<1>15. TypeOK'
  BY <1>1, <1>2, <1>7, <1>9, <1>10, <1>12, <1>13, <1>14 DEF TypeOK, OnlyMoves
<1>16. ASSUME NEW v \in Workers \ {w} PROVE Shape(v)'
  <2>1. tx[v].pc = "publishing" => offers'[tx[v].notice] # {}
    BY <1>10 DEF Typed, Shape
  <2>2. QED BY <1>2, <1>11, <2>1, ShapeStays DEF OnlyMoves
<1>17. Typed'
  BY <1>2, <1>15, <1>16, IdleShape DEF Typed
<1>18. QED BY <1>2, <1>3, <1>6, <1>7, <1>11, <1>17

LEMMA InsertType ==
  ASSUME Typed, NEW w \in Workers, InsertSite(w)
  PROVE  /\ Stays /\ OnlyMoves(w) /\ Typed'
         /\ tx[w].pc = "checked" /\ tx'[w].pc = "inserted"
         /\ tx'[w].purpose = tx[w].purpose /\ tx'[w].processor = tx[w].processor
         /\ tx'[w].source = tx[w].source
         /\ tx'[w].flagged = NoticePublished /\ tx'[w].crossed = Crossed
         /\ UNCHANGED <<purpose, published, offers, named, displaced, processor, source, site, late>>
<1> DEFINE r == [tx[w] EXCEPT !.pc = "inserted", !.flagged = NoticePublished,
                              !.crossed = Crossed]
<1>1. TypeOK /\ tx[w].pc = "checked" /\ tx[w] \in Request
  BY AtWork DEF Typed, InsertSite
<1>2. r \in Request
  <2>1. "inserted" \in Stages /\ NoticePublished \in BOOLEAN /\ Crossed \in BOOLEAN
    BY DEF Stages, NoticePublished, Crossed, Publishing
  <2>2. QED BY <1>1, <2>1 DEF Request
<1>3. /\ r.pc = "inserted" /\ r.purpose = tx[w].purpose /\ r.processor = tx[w].processor
      /\ r.source = tx[w].source /\ r.site = tx[w].site
      /\ r.flagged = NoticePublished /\ r.crossed = Crossed
  BY <1>1 DEF Request
<1>4. tx' = [tx EXCEPT ![w] = r]
  BY DEF InsertSite, Crossed, Publishing
<1> HIDE DEF r
<1>5. OnlyMoves(w) /\ tx'[w] = r
  BY <1>1, <1>2, <1>4 DEF TypeOK, OnlyMoves
<1>6. UNCHANGED <<purpose, published, offers, named, displaced, processor, source, site, late>>
  BY DEF InsertSite, notices, operators
<1>7. Stays
  BY <1>6 DEF Stays
<1>8. TypeOK'
  BY <1>1, <1>5, <1>6 DEF TypeOK, OnlyMoves
<1>9. Shape(w)'
  BY <1>1, <1>3, <1>5, <1>6 DEF Typed, Shape
<1>10. ASSUME NEW v \in Workers \ {w} PROVE Shape(v)'
  <2>1. tx[v].pc = "publishing" => offers'[tx[v].notice] # {}
    BY <1>6 DEF Typed, Shape
  <2>2. QED BY <1>5, <1>7, <2>1, ShapeStays DEF OnlyMoves
<1>11. QED BY <1>1, <1>3, <1>5, <1>6, <1>7, <1>8, <1>9, <1>10 DEF Typed

\* A publication begins: it has read the recipients, and the sites on their way cross it.
LEMMA PublishType ==
  ASSUME Typed, NEW w \in Workers, NEW n \in Notices, Publish(w, n)
  PROVE  /\ Stays /\ Typed'
         /\ tx[w] = Idle /\ tx'[w].pc = "publishing" /\ tx'[w].named = Recipients
         /\ \A v \in Workers \ {w} :
              /\ tx'[v].pc = tx[v].pc /\ tx'[v].purpose = tx[v].purpose
              /\ tx'[v].processor = tx[v].processor /\ tx'[v].source = tx[v].source
              /\ tx[v].pc = "inserted" => tx'[v].crossed
              /\ tx[v].pc # "inserted" => tx'[v] = tx[v]
         /\ UNCHANGED <<purpose, published, offers, named, displaced, processor, source, site, late>>
<1> DEFINE r == [Open("publishing") EXCEPT !.notice = n, !.named = Recipients]
<1>1. TypeOK
  BY DEF Typed
<1>2. r \in Request /\ r.pc = "publishing" /\ r.notice = n /\ r.named = Recipients
  <2>1. Open("publishing") \in Request
    BY OpensType DEF Stages
  <2>2. Recipients \in SUBSET Sites
    BY DEF Recipients
  <2> HIDE DEF Recipients
  <2>3. QED BY <2>1, <2>2, OpensType DEF Request, Stages
<1>3. tx[w] = Idle /\ offers[n] # {}
  BY DEF Publish
<1>4. \A v \in Workers : tx'[v] = IF v = w THEN r
                                  ELSE IF tx[v].pc = "inserted"
                                       THEN [tx[v] EXCEPT !.crossed = TRUE] ELSE tx[v]
  BY DEF Publish
<1>5. tx' = [v \in Workers |-> tx'[v]]
  BY DEF Publish
<1> HIDE DEF r
<1>6. tx'[w] = r
  BY <1>4
<1>7. ASSUME NEW v \in Workers \ {w}
      PROVE  /\ tx'[v] \in Request \cup {Idle}
             /\ tx'[v].pc = tx[v].pc /\ tx'[v].purpose = tx[v].purpose
             /\ tx'[v].processor = tx[v].processor /\ tx'[v].source = tx[v].source
             /\ tx'[v].site = tx[v].site
             /\ tx[v].pc = "inserted" => tx'[v].crossed
             /\ tx[v].pc # "inserted" => tx'[v] = tx[v]
  <2>1. CASE tx[v].pc = "inserted"
    <3>1. tx[v] \in Request
      BY <1>1, <2>1, AtWork
    <3>2. tx'[v] = [tx[v] EXCEPT !.crossed = TRUE]
      BY <1>4, <2>1
    <3>3. [tx[v] EXCEPT !.crossed = TRUE] \in Request
      BY <3>1 DEF Request
    <3>4. QED BY <2>1, <3>1, <3>2, <3>3 DEF Request
  <2>2. CASE tx[v].pc # "inserted"
    BY <1>1, <1>4, <2>2 DEF TypeOK
  <2>3. QED BY <2>1, <2>2
<1>8. tx' \in [Workers -> Request \cup {Idle}]
  <2>1. \A v \in Workers : tx'[v] \in Request \cup {Idle}
    BY <1>2, <1>6, <1>7
  <2>2. QED BY <1>5, <2>1
<1>9. UNCHANGED <<purpose, published, offers, named, displaced, processor, source, site, late>>
  BY DEF Publish, notices, operators
<1>10. Stays
  BY <1>9 DEF Stays
<1>11. TypeOK'
  BY <1>1, <1>8, <1>9 DEF TypeOK
<1>12. Shape(w)'
  <2>1. Recipients \subseteq {s \in Sites : site[s] # NoRow}
    BY DEF Recipients, NoRow
  <2>2. QED BY <1>2, <1>3, <1>6, <1>9, <2>1 DEF Shape
<1>13. ASSUME NEW v \in Workers \ {w} PROVE Shape(v)'
  <2>1. CASE tx[v].pc = "inserted"
    BY <1>7, <1>9, <2>1 DEF Typed, Shape
  <2>2. CASE tx[v].pc # "inserted"
    BY <1>7, <1>9, <2>2 DEF Typed, Shape
  <2>3. QED BY <2>1, <2>2
<1>14. QED BY <1>2, <1>3, <1>6, <1>7, <1>9, <1>10, <1>11, <1>12, <1>13 DEF Typed

-----------------------------------------------------------------------------
(* Writes that come late                                                   *)

LEMMA SettledStays ==
  ASSUME Typed, Stays, NEW x, Settled(x) PROVE Settled(x)'
BY DEF Settled, Stays, NoRow

\* A write that comes late is one less that may come.
LEMMA CountFalls ==
  ASSUME Typed, Typed', Stays, NEW x \in DOMAIN late, LateOK(x),
         \/ late'[x] = late[x] /\ (Settled(x) => Writers(x)' \subseteq Writers(x))
         \/ /\ Settled(x) /\ late'[x] = late[x] + 1
            /\ \E w \in Writers(x) : Writers(x)' \subseteq Writers(x) \ {w}
  PROVE  LateOK(x)'
<1>1. late[x] \in Nat /\ late'[x] \in Nat
  BY DEF Typed, TypeOK
<1>2. /\ Writers(x) \subseteq Workers /\ Writers(x)' \subseteq Workers /\ IsFiniteSet(Workers)
  BY RegistryAssumption DEF Writers
<1>3. /\ IsFiniteSet(Writers(x)) /\ IsFiniteSet(Writers(x)')
      /\ Cardinality(Writers(x)) \in Nat /\ Cardinality(Writers(x)') \in Nat
      /\ Cardinality(Workers) \in Nat /\ Cardinality(Writers(x)') <= Cardinality(Workers)
  BY <1>2, FS_Subset, FS_CardinalityType
<1>4. CASE ~Settled(x)
  BY <1>3, <1>4 DEF LateOK
<1>5. CASE Settled(x) /\ late'[x] = late[x] /\ Writers(x)' \subseteq Writers(x)
  <2>1. Cardinality(Writers(x)') <= Cardinality(Writers(x))
    BY <1>3, <1>5, FS_Subset
  <2>2. Settled(x)'
    BY <1>5, SettledStays
  <2>3. QED BY <1>1, <1>3, <1>5, <2>1, <2>2 DEF LateOK
<1>6. ASSUME Settled(x), late'[x] = late[x] + 1,
             NEW w \in Writers(x), Writers(x)' \subseteq Writers(x) \ {w}
      PROVE  LateOK(x)'
  <2>1. /\ IsFiniteSet(Writers(x) \ {w})
        /\ Cardinality(Writers(x) \ {w}) = Cardinality(Writers(x)) - 1
    BY <1>3, FS_RemoveElement
  <2>2. Cardinality(Writers(x)') <= Cardinality(Writers(x)) - 1
    BY <1>6, <2>1, FS_Subset
  <2>3. Settled(x)'
    BY <1>6, SettledStays
  <2>4. QED BY <1>1, <1>3, <1>6, <2>2, <2>3 DEF LateOK
<1>7. QED BY <1>4, <1>5, <1>6

\* The write of a request that ends
LEMMA WriteCounts ==
  ASSUME Typed, Typed', Stays, NEW w \in Workers, OnlyMoves(w), tx'[w] = Idle, NEW xs,
         Written(xs), \A x \in xs : MayWrite(w, x),
         NEW x \in DOMAIN late, LateOK(x)
  PROVE  LateOK(x)'
<1>1. late'[x] = IF x \in xs /\ Settled(x) THEN late[x] + 1 ELSE late[x]
  BY DEF Written
<1>2. Writers(x)' \subseteq Writers(x) \ {w}
  BY DEF Writers, MayWrite, OnlyMoves, Idle
<1>3. x \in xs => w \in Writers(x)
  BY DEF Writers
<1>4. QED BY <1>1, <1>2, <1>3, CountFalls

LEMMA LateKeeps ==
  ASSUME Typed, Next, NEW x \in DOMAIN late, LateOK(x)
  PROVE  LateOK(x)'
<1>1. CASE WorldStep
  <2>1. tx' = tx /\ late' = late
    BY <1>1 DEF WorldStep, CreatePurpose, Detach, CreateProcessor, SuspendProcessor,
                CreateSource, SuspendSource, Deactivate, PublishElsewhere
  <2>2. Writers(x)' = Writers(x)
    BY <2>1 DEF Writers, MayWrite
  <2>3. QED BY <1>1, <2>1, <2>2, WorldType, WorldStays, CountFalls
<1>2. ASSUME NEW w \in Workers, Looks(w) PROVE LateOK(x)'
  <2>1. PICK r \in Request : Opens(w, r)
    BY <1>2 DEF Looks
  <2>2. Settled(x) => ~MayWrite(w, x)'
    BY <2>1 DEF Opens
  <2>3. Settled(x) => Writers(x)' \subseteq Writers(x)
    BY <2>1, <2>2 DEF Writers, MayWrite, Opens, OnlyMoves
  <2>4. late' = late
    BY <2>1 DEF Opens
  <2>5. QED BY <1>2, <2>3, <2>4, LooksType, LooksStay, CountFalls
<1>3. ASSUME NEW w \in Workers, NEW n \in Notices, Publish(w, n) PROVE LateOK(x)'
  <2>1. Writers(x)' \subseteq Writers(x)
    BY <1>3, PublishType DEF Writers, MayWrite
  <2>2. QED BY <1>3, <2>1, PublishType, CountFalls
<1>4. ASSUME NEW w \in Workers, Saving(w) PROVE LateOK(x)'
  <2>1. CASE SaveEdit(w)
    <3>1. Written({tx[w].purpose}) /\ \A y \in {tx[w].purpose} : MayWrite(w, y)
      BY <2>1 DEF SaveEdit, Finish, MayWrite
    <3>2. QED BY <2>1, <3>1, EndsStay, WriteCounts
  <2>2. CASE SaveImport(w)
    <3>1. Written({tx[w].source}) /\ \A y \in {tx[w].source} : MayWrite(w, y)
      BY <2>2 DEF SaveImport, Finish, MayWrite
    <3>2. QED BY <2>2, <3>1, EndsStay, WriteCounts
  <2>3. CASE SaveSite(w)
    <3> DEFINE xs == {tx[w].processor, tx[w].source} \ {None}
    <3>1. Written(xs) /\ \A y \in xs : MayWrite(w, y)
      BY <2>3 DEF SaveSite, Finish, MayWrite
    <3>2. QED BY <2>3, <3>1, SaveSiteType, WriteCounts
  <2>4. CASE SaveActive(w) \/ SaveRetired(w) \/ SaveAttached(w) \/ SavePublished(w) \/ Abort(w)
    <3>1. Stays /\ OnlyMoves(w) /\ tx'[w] = Idle /\ Typed'
      BY <2>4, EndsStay
    <3>2. late' = late
      BY <2>4 DEF SaveActive, SaveRetired, SaveAttached, SavePublished, Abort
    <3>3. Writers(x)' \subseteq Writers(x)
      BY <3>1 DEF Writers, MayWrite, OnlyMoves, Idle
    <3>4. QED BY <3>1, <3>2, <3>3, CountFalls
  <2>5. CASE InsertSite(w)
    <3>1. Writers(x)' \subseteq Writers(x)
      BY <2>5, InsertType DEF Writers, MayWrite, OnlyMoves
    <3>2. QED BY <2>5, <3>1, InsertType, CountFalls
  <2>6. QED BY <1>4, <2>1, <2>2, <2>3, <2>4, <2>5 DEF Saving
<1>5. QED BY <1>1, <1>2, <1>3, <1>4, StepKinds

-----------------------------------------------------------------------------
(* Sites and publications                                                  *)

\* Sites keep what is known of them while they are active.
SitesStand ==
  \A s \in Sites : site'[s].status = "active" => site'[s] = site[s]

\* A request that neither adds a site nor publishes, at a step that does neither
LEMMA CrossingStays ==
  ASSUME Warned, SitesStand, NEW v \in Workers, tx'[v] = tx[v],
         published' = published \/ Publishing, Publishing' => Publishing
  PROVE  Crossing(v)'
<1>1. \A s \in Sites : site'[s].status = "active" =>
        site[s].status = "active" /\ (Known(s)' <=> Known(s))
  BY DEF SitesStand, Known
<1>2. Crossing(v)
  BY DEF Warned
<1>3. tx'[v].pc = "publishing" =>
        \A s \in Sites : site'[s].status = "active" => s \in tx'[v].named \/ Known(s)'
  BY <1>1, <1>2 DEF Crossing
<1>4. tx'[v].pc = "inserted" =>
        /\ published' # {} => tx'[v].flagged \/ tx'[v].crossed
        /\ Publishing' => tx'[v].crossed
  BY <1>2 DEF Crossing
<1>5. QED BY <1>3, <1>4 DEF Crossing

LEMMA NamesStay ==
  ASSUME Warned, SitesStand, UNCHANGED <<published, named>>
  PROVE  NamedOrFlagged'
BY DEF Warned, SitesStand, NamedOrFlagged

LEMMA WorldWarns == ASSUME Typed, Warned, WorldStep PROVE Warned'
<1>1. tx' = tx /\ published' = published /\ named' = named
  BY DEF WorldStep, CreatePurpose, Detach, CreateProcessor, SuspendProcessor, CreateSource,
         SuspendSource, Deactivate, PublishElsewhere, notices
<1>2. SitesStand
  <2>1. ASSUME NEW s \in Sites, Deactivate(s) PROVE SitesStand
    <3> DEFINE row == [site[s] EXCEPT !.status = "terminated", !.flagged = FALSE,
                                      !.crossed = FALSE]
    <3>1. site[s] \in Site /\ site \in [Sites -> Site \cup {NoRow}]
      BY <2>1 DEF Typed, TypeOK, Deactivate
    <3>2. row.status = "terminated"
      BY <3>1 DEF Site
    <3>3. site' = [site EXCEPT ![s] = row]
      BY <2>1 DEF Deactivate
    <3> HIDE DEF row
    <3>4. QED BY <3>1, <3>2, <3>3 DEF SitesStand
  <2>2. CASE site' = site
    BY <2>2 DEF SitesStand
  <2>3. QED
    BY <2>1, <2>2 DEF WorldStep, CreatePurpose, Detach, CreateProcessor, SuspendProcessor,
                      CreateSource, SuspendSource, PublishElsewhere, operators
<1>3. \A v \in Workers : Crossing(v)'
  BY <1>1, <1>2, CrossingStays DEF Publishing
<1>4. QED BY <1>1, <1>2, <1>3, NamesStay DEF Warned

LEMMA LooksWarn == ASSUME Typed, Warned, NEW w \in Workers, Looks(w) PROVE Warned'
<1>1. PICK r \in Request : Opens(w, r)
  BY DEF Looks
<1>2. SitesStand /\ published' = published /\ named' = named
  BY <1>1 DEF Opens, SitesStand
<1>3. Publishing' => Publishing
  BY <1>1 DEF Opens, OnlyMoves, Publishing
<1>4. ASSUME NEW v \in Workers \ {w} PROVE Crossing(v)'
  BY <1>1, <1>2, <1>3, CrossingStays DEF Opens, OnlyMoves
<1>5. Crossing(w)'
  BY <1>1 DEF Opens, Crossing
<1>6. QED BY <1>2, <1>4, <1>5, NamesStay DEF Warned

LEMMA PublishWarns ==
  ASSUME Typed, Warned, NEW w \in Workers, NEW n \in Notices, Publish(w, n)
  PROVE  Warned'
<1>1. /\ tx'[w].pc = "publishing" /\ tx'[w].named = Recipients
      /\ UNCHANGED <<published, named, site>>
      /\ \A v \in Workers \ {w} :
           /\ tx'[v].pc = tx[v].pc
           /\ tx[v].pc = "inserted" => tx'[v].crossed
           /\ tx[v].pc # "inserted" => tx'[v] = tx[v]
  BY PublishType
<1>2. NamedOrFlagged'
  BY <1>1, NamesStay DEF SitesStand
<1>3. Crossing(w)'
  BY <1>1 DEF Crossing, Recipients
<1>4. ASSUME NEW v \in Workers \ {w} PROVE Crossing(v)'
  <2>1. CASE tx[v].pc = "inserted"
    BY <1>1, <2>1 DEF Crossing
  <2>2. CASE tx[v].pc # "inserted"
    <3>1. tx'[v] = tx[v] /\ Crossing(v)
      BY <1>1, <2>2 DEF Warned
    <3>2. \A s \in Sites : Known(s)' = Known(s)
      BY <1>1 DEF Known
    <3>3. QED BY <1>1, <2>2, <3>1, <3>2 DEF Crossing
  <2>3. QED BY <2>1, <2>2
<1>5. QED BY <1>2, <1>3, <1>4 DEF Warned

\* A publication commits with the recipients it read.
LEMMA SavePublishedWarns ==
  ASSUME Typed, Warned, NEW w \in Workers, SavePublished(w)
  PROVE  Warned'
<1>1. OnlyMoves(w) /\ tx'[w] = Idle
  BY EndsStay
<1>2. tx[w].pc = "publishing" /\ named' = tx[w].named /\ site' = site
  BY DEF SavePublished, Finish, operators
<1>3. Publishing /\ (Publishing' => Publishing)
  BY <1>2 DEF Publishing
<1>4. \A v \in Workers \ {w} : Crossing(v)'
  BY <1>1, <1>2, <1>3, CrossingStays DEF OnlyMoves, SitesStand
<1>5. Crossing(w)'
  BY <1>1 DEF Crossing, Idle
<1>6. NamedOrFlagged'
  BY <1>2 DEF Warned, Crossing, Known, NamedOrFlagged
<1>7. QED BY <1>4, <1>5, <1>6 DEF Warned

LEMMA EndsWarn ==
  ASSUME Typed, Warned, NEW w \in Workers,
         SaveEdit(w) \/ SaveActive(w) \/ SaveRetired(w) \/ SaveAttached(w) \/ SaveImport(w) \/ Abort(w)
  PROVE  Warned'
<1>1. OnlyMoves(w) /\ tx'[w] = Idle
  BY EndsStay
<1>2. UNCHANGED <<published, named, site>>
  BY DEF SaveEdit, SaveActive, SaveRetired, SaveAttached, SaveImport, Abort, notices, operators
<1>3. Publishing' => Publishing
  BY <1>1 DEF Publishing, OnlyMoves, Idle
<1>4. \A v \in Workers \ {w} : Crossing(v)'
  BY <1>1, <1>2, <1>3, CrossingStays DEF OnlyMoves, SitesStand
<1>5. Crossing(w)'
  BY <1>1 DEF Crossing, Idle
<1>6. NamedOrFlagged'
  BY <1>2, NamesStay DEF SitesStand
<1>7. QED BY <1>4, <1>5, <1>6 DEF Warned

LEMMA InsertWarns ==
  ASSUME Typed, Warned, NEW w \in Workers, InsertSite(w)
  PROVE  Warned'
<1>1. /\ OnlyMoves(w) /\ tx[w].pc = "checked" /\ tx'[w].pc = "inserted"
      /\ tx'[w].flagged = NoticePublished /\ tx'[w].crossed = Crossed
      /\ UNCHANGED <<published, named, site>>
  BY InsertType
<1>2. Publishing' => Publishing
  BY <1>1 DEF Publishing, OnlyMoves
<1>3. \A v \in Workers \ {w} : Crossing(v)'
  BY <1>1, <1>2, CrossingStays DEF OnlyMoves, SitesStand
<1>4. Crossing(w)'
  BY <1>1, <1>2 DEF Crossing, Crossed, NoticePublished
<1>5. NamedOrFlagged'
  BY <1>1, NamesStay DEF SitesStand
<1>6. QED BY <1>3, <1>4, <1>5 DEF Warned

\* A site commits: the notice that is published does not know it, nor does the one on its
\* way, and the request has said so.
LEMMA SaveSiteWarns ==
  ASSUME Typed, Warned, NEW w \in Workers, SaveSite(w)
  PROVE  Warned'
<1>1. PICK n \in Sites : n = tx[w].site
  BY SaveSiteType
<1>2. /\ OnlyMoves(w) /\ tx'[w] = Idle /\ tx[w].pc = "inserted"
      /\ \A s \in Sites \ {n} : site'[s] = site[s]
      /\ site'[n].flagged = tx[w].flagged /\ site'[n].crossed = tx[w].crossed
  BY <1>1, SaveSiteType
<1>3. UNCHANGED <<published, named>>
  BY DEF SaveSite, notices
<1>4. (published # {} => Known(n)') /\ (Publishing => Known(n)')
  BY <1>2 DEF Warned, Crossing, Known
<1>5. \A s \in Sites : s # n => (Known(s)' <=> Known(s)) /\ site'[s] = site[s]
  BY <1>2 DEF Known
<1>6. NamedOrFlagged'
  BY <1>3, <1>4, <1>5 DEF Warned, NamedOrFlagged, Known
<1>7. ASSUME NEW v \in Workers \ {w} PROVE Crossing(v)'
  <2>1. tx'[v] = tx[v] /\ Crossing(v) /\ (Publishing' => Publishing)
    BY <1>2 DEF Warned, OnlyMoves, Publishing, Idle
  <2>2. tx[v].pc = "publishing" => Publishing
    BY DEF Publishing
  <2>3. tx'[v].pc = "publishing" =>
          \A s \in Sites : site'[s].status = "active" => s \in tx'[v].named \/ Known(s)'
    BY <1>4, <1>5, <2>1, <2>2 DEF Crossing
  <2>4. tx'[v].pc = "inserted" =>
          /\ published' # {} => tx'[v].flagged \/ tx'[v].crossed
          /\ Publishing' => tx'[v].crossed
    BY <1>3, <2>1 DEF Crossing
  <2>5. QED BY <2>3, <2>4 DEF Crossing
<1>8. Crossing(w)'
  BY <1>2 DEF Crossing, Idle
<1>9. QED BY <1>6, <1>7, <1>8 DEF Warned

-----------------------------------------------------------------------------
LEMMA InitIndInv == Init => IndInv
<1> SUFFICES ASSUME Init PROVE IndInv
  OBVIOUS
<1>1. TypeOK
  BY DEF Init, TypeOK
<1>2. \A w \in Workers : Shape(w) /\ Crossing(w)
  BY DEF Init, Shape, Crossing, Idle
<1>3. ASSUME NEW x \in DOMAIN late PROVE LateOK(x)
  <2>1. late[x] = 0
    BY <1>3 DEF Init
  <2>2. ~Settled(x)
    BY DEF Init, Settled, NoRow
  <2>3. QED BY <2>1, <2>2 DEF LateOK
<1>4. NamedOrFlagged
  BY DEF Init, NamedOrFlagged
<1>5. QED BY <1>1, <1>2, <1>3, <1>4 DEF IndInv, Typed, Warned

LEMMA NextKeeps == ASSUME IndInv, [Next]_vars PROVE IndInv'
<1>1. CASE UNCHANGED vars
  <2>1. UNCHANGED <<purpose, published, offers, named, displaced, processor, source, site, late, tx>>
    BY <1>1 DEF vars
  <2>2. Typed'
    BY <2>1 DEF IndInv, Typed, TypeOK, Shape
  <2>3. \A x \in DOMAIN late' : LateOK(x)'
    BY <2>1 DEF IndInv, LateOK, Settled, Writers, MayWrite
  <2>4. Warned'
    BY <2>1 DEF IndInv, Warned, NamedOrFlagged, Crossing, Publishing, Known
  <2>5. QED BY <2>2, <2>3, <2>4 DEF IndInv
<1>2. ASSUME Next PROVE IndInv'
  <2>1. Typed /\ Warned
    BY DEF IndInv
  <2>2. Typed' /\ Warned'
    BY <1>2, <2>1, StepKinds, WorldType, WorldWarns, LooksType, LooksWarn, PublishType,
       PublishWarns, EndsStay, EndsWarn, SavePublishedWarns, SaveSiteType, SaveSiteWarns,
       InsertType, InsertWarns
       DEF Saving
  <2>3. DOMAIN late' = DOMAIN late
    BY <2>1, <2>2 DEF Typed, TypeOK
  <2>4. \A x \in DOMAIN late' : LateOK(x)'
    BY <1>2, <2>1, <2>3, LateKeeps DEF IndInv
  <2>5. QED BY <2>2, <2>4 DEF IndInv
<1>3. QED BY <1>1, <1>2

\* In every behaviour of the registry the inductive invariant holds.
THEOREM Invariance == Spec => []IndInv
<1>1. QED BY InitIndInv, NextKeeps, PTL DEF Spec

\* Types: in particular a source never names a site that was not committed, and a notice
\* offers only purposes that have been active.
THEOREM TypeCorrect == Spec => []TypeOK
<1>1. IndInv => TypeOK
  BY DEF IndInv, Typed
<1>2. QED BY <1>1, Invariance, PTL

\* A purpose, processor or source that is settled gets at most one more write from each
\* handler, however the checks without a lock interleave with what settles it.
THEOREM StaleWritesAreBounded == Spec => []StaleChecksRunOut
<1>1. IndInv => StaleChecksRunOut
  BY DEF IndInv, LateOK, Writers, StaleChecksRunOut
<1>2. QED BY <1>1, Invariance, PTL

\* Nobody collects at an active site that the last notice does not name, unless the request
\* that added it was told so, or it crossed a publication, or another project's publication
\* of the same code had superseded that notice (add_site reads the status of the project's
\* current notice).
THEOREM RecipientsAreKnown == Spec => []NamedOrFlagged
<1>1. IndInv => NamedOrFlagged
  BY DEF IndInv, Warned
<1>2. QED BY <1>1, Invariance, PTL
=============================================================================
