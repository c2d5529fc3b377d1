------------------------------ MODULE Registry ------------------------------
(***************************************************************************)
(* The registry: purposes, processors and data sources, and what is built  *)
(* on them: the purposes a notice offers, the sites of one project, the    *)
(* imports from a source.                                                  *)
(*                                                                         *)
(* A request reads the row it depends on, tests its status and writes in a *)
(* later statement.  Nothing but a notice is locked in between, so another *)
(* request can change that status before the write.  A site is also a      *)
(* recipient of the data: publishing lists the sites in the notice, and    *)
(* adding one later is flagged as a material change, while the project's   *)
(* current notice is a published one.                                      *)
(* The notices are the project's versions of one code, and its current     *)
(* notice is the one published last; a project that publishes a notice of  *)
(* the same code supersedes it.  What notices say and who approves it is   *)
(* in ProjectLifecycle, the rows of an import in Exchange, a site's links  *)
(* in ConsentLink.  Changes of names and contract references, audit rows   *)
(* and listings are left out.                                              *)
(***************************************************************************)
EXTENDS Naturals, FiniteSets

CONSTANTS
  Workers,      \* request handlers
  Purposes,
  Notices,
  Processors,
  Sources,
  Sites

VARIABLES
  purpose,      \* purpose.status
  published,    \* the notices published or superseded since
  offers,       \* notice_purpose
  named,        \* the sites the last published notice names
  displaced,    \* whether another project's publication superseded that notice
  processor,    \* processor.status
  source,       \* data_source
  site,         \* project_site
  late,         \* how many writes each row got that its status forbids by then
  tx            \* each worker's request and its local variables

vars == <<purpose, published, offers, named, displaced, processor, source, site, late, tx>>

notices == <<published, offers, named, displaced>>
operators == <<processor, source, site>>

None == "none"

\* Keys of three tables
ASSUME RegistryAssumption ==
  /\ IsFiniteSet(Workers)
  /\ None \notin Purposes \cup Processors \cup Sources
  /\ Purposes \cap Processors = {} /\ Purposes \cap Sources = {}
  /\ Processors \cap Sources = {}

Source == [status : {"active", "suspended"}, processor : Processors \cup {None},
           site : Sites \cup {None}]
\* flagged is the answer to the request that added the site.  crossed is history: a
\* publication was under way meanwhile, or another project's had come before.
Site == [status : {"active", "terminated"}, processor : Processors \cup {None},
         flagged : BOOLEAN, crossed : BOOLEAN]
NoRow == [status |-> "none"]

Stages == {"editing", "activating", "retiring", "attaching", "publishing",
           "checked", "inserted", "importing"}

\* named is what a publication has read, flagged and crossed what a new site will say
Request ==
  [pc : Stages, purpose : Purposes \cup {None}, notice : Notices \cup {None},
   site : Sites \cup {None}, processor : Processors \cup {None},
   source : Sources \cup {None}, named : SUBSET Sites, flagged : BOOLEAN,
   crossed : BOOLEAN]
Idle == [pc |-> "idle"]
Open(pc) ==
  [pc |-> pc, purpose |-> None, notice |-> None, site |-> None, processor |-> None,
   source |-> None, named |-> {}, flagged |-> FALSE, crossed |-> FALSE]

Begin(w, r) == tx[w] = Idle /\ tx' = [tx EXCEPT ![w] = r]
Finish(w, pc) == tx[w].pc = pc /\ tx' = [tx EXCEPT ![w] = Idle]

\* The state that forbids further writes, and that nothing undoes
Settled(x) ==
  \/ x \in Purposes /\ purpose[x] \in {"active", "retired"}
  \/ x \in Processors /\ processor[x] = "suspended"
  \/ x \in Sources /\ source[x].status = "suspended"

Written(xs) == late' = [x \in DOMAIN late |-> IF x \in xs /\ Settled(x) THEN late[x] + 1
                                              ELSE late[x]]

-----------------------------------------------------------------------------
(* Purposes                                                                *)

CreatePurpose(p) ==
  /\ purpose[p] = "none"
  /\ purpose' = [purpose EXCEPT ![p] = "draft"]
  /\ UNCHANGED <<notices, operators, late, tx>>

\* Mutant of Edit: only an active purpose is refused
EditUnlessActive(w, p) ==
  /\ purpose[p] \in {"draft", "retired"}
  /\ Begin(w, [Open("editing") EXCEPT !.purpose = p])
  /\ UNCHANGED <<purpose, notices, operators, late>>

\* update_purpose: draft only, as read
Edit(w, p) ==
  /\ purpose[p] = "draft"
  /\ Begin(w, [Open("editing") EXCEPT !.purpose = p])
  /\ UNCHANGED <<purpose, notices, operators, late>>

\* the UPDATE goes by the id alone
SaveEdit(w) ==
  /\ Finish(w, "editing")
  /\ Written({tx[w].purpose})
  /\ UNCHANGED <<purpose, notices, operators>>

\* activate_purpose refuses only what is active: a retired purpose can return
Activate(w, p) ==
  /\ purpose[p] \in {"draft", "retired"}
  /\ Begin(w, [Open("activating") EXCEPT !.purpose = p])
  /\ UNCHANGED <<purpose, notices, operators, late>>

SaveActive(w) ==
  /\ Finish(w, "activating")
  /\ purpose' = [purpose EXCEPT ![tx[w].purpose] = "active"]
  /\ UNCHANGED <<notices, operators, late>>

\* retire_purpose, in any status, unless purpose_is_published_anywhere
Retire(w, p) ==
  /\ purpose[p] # "none"
  /\ \A n \in published : p \notin offers[n]
  /\ Begin(w, [Open("retiring") EXCEPT !.purpose = p])
  /\ UNCHANGED <<purpose, notices, operators, late>>

SaveRetired(w) ==
  /\ Finish(w, "retiring")
  /\ purpose' = [purpose EXCEPT ![tx[w].purpose] = "retired"]
  /\ UNCHANGED <<notices, operators, late>>

-----------------------------------------------------------------------------
(* Notices, whose row is locked                                            *)

NoticeFree(n) == \A w \in Workers : tx[w] # Idle => tx[w].notice # n

RequireDraft(n) == NoticeFree(n) /\ n \notin published

\* attach_purpose: the notice is a draft, the purpose active
Attach(w, n, p) ==
  /\ RequireDraft(n)
  /\ purpose[p] = "active"
  /\ Begin(w, [Open("attaching") EXCEPT !.notice = n, !.purpose = p])
  /\ UNCHANGED <<purpose, notices, operators, late>>

SaveAttached(w) ==
  /\ Finish(w, "attaching")
  /\ offers' = [offers EXCEPT ![tx[w].notice] = @ \cup {tx[w].purpose}]
  /\ UNCHANGED <<purpose, published, named, displaced, operators, late>>

Detach(n, p) ==
  /\ RequireDraft(n) /\ p \in offers[n]
  /\ offers' = [offers EXCEPT ![n] = @ \ {p}]
  /\ UNCHANGED <<purpose, published, named, displaced, operators, late, tx>>

\* Mutant of Recipients: sites without a processor are lost in the join
RecipientsOperated ==
  {s \in Sites : site[s].status = "active" /\ site[s].processor # None}

\* recipients_text
Recipients == {s \in Sites : site[s].status = "active"}

\* publish: purposes are attached (the status of a purpose is not looked at again),
\* the recipients are read
Publish(w, n) ==
  /\ RequireDraft(n) /\ offers[n] # {}
  /\ tx[w] = Idle
  /\ tx' = [v \in Workers |->
       IF v = w THEN [Open("publishing") EXCEPT !.notice = n, !.named = Recipients]
       ELSE IF tx[v].pc = "inserted" THEN [tx[v] EXCEPT !.crossed = TRUE] ELSE tx[v]]
  /\ UNCHANGED <<purpose, notices, operators, late>>

SavePublished(w) ==
  /\ Finish(w, "publishing")
  /\ published' = published \cup {tx[w].notice}
  /\ named' = tx[w].named /\ displaced' = FALSE
  /\ UNCHANGED <<purpose, offers, operators, late>>

\* publish in another project, of a notice with the same code
PublishElsewhere ==
  /\ published # {}
  /\ displaced' = TRUE
  /\ UNCHANGED <<purpose, published, offers, named, operators, late, tx>>

-----------------------------------------------------------------------------
(* Processors and sources: suspended, never deleted or resumed             *)

CreateProcessor(pr) ==
  /\ processor[pr] = "none"
  /\ processor' = [processor EXCEPT ![pr] = "active"]
  /\ UNCHANGED <<purpose, notices, source, site, late, tx>>

SuspendProcessor(pr) ==
  /\ processor[pr] # "none"
  /\ processor' = [processor EXCEPT ![pr] = "suspended"]
  /\ UNCHANGED <<purpose, notices, source, site, late, tx>>

\* create_source: processor and site exist, whatever their status and each other's
CreateSource(so, pr, s) ==
  /\ source[so] = NoRow
  /\ pr # None => processor[pr] # "none"
  /\ s # None => site[s] # NoRow
  /\ source' = [source EXCEPT ![so] = [status |-> "active", processor |-> pr, site |-> s]]
  /\ UNCHANGED <<purpose, notices, processor, site, late, tx>>

SuspendSource(so) ==
  /\ source[so] # NoRow
  /\ source' = [source EXCEPT ![so].status = "suspended"]
  /\ UNCHANGED <<purpose, notices, processor, site, late, tx>>

\* import_manifest: the source is active as read
Import(w, so) ==
  /\ source[so].status = "active"
  /\ Begin(w, [Open("importing") EXCEPT !.source = so])
  /\ UNCHANGED <<purpose, notices, operators, late>>

SaveImport(w) ==
  /\ Finish(w, "importing")
  /\ Written({tx[w].source})
  /\ UNCHANGED <<purpose, notices, operators>>

-----------------------------------------------------------------------------
(* Sites                                                                   *)

\* The conditions of add_site: a given processor and source are active, and the
\* source, if it has a processor, has that one (two reads, taken as one)
Fit(pr, so) ==
  /\ pr # None => processor[pr] = "active"
  /\ so # None => /\ source[so].status = "active"
                  /\ None \notin {pr, source[so].processor} => source[so].processor = pr

Unused(s) == site[s] = NoRow /\ \A w \in Workers : tx[w] # Idle => tx[w].site # s

\* Mutant of CheckSite: the source is bound before the site is inserted
CheckSiteBinding(w, s, pr, so) ==
  /\ Unused(s) /\ Fit(pr, so)
  /\ Begin(w, [Open("checked") EXCEPT !.site = s, !.processor = pr, !.source = so])
  /\ source' = IF so = None THEN source ELSE [source EXCEPT ![so].site = s]
  /\ UNCHANGED <<purpose, notices, processor, site, late>>

CheckSite(w, s, pr, so) ==
  /\ Unused(s) /\ Fit(pr, so)
  /\ Begin(w, [Open("checked") EXCEPT !.site = s, !.processor = pr, !.source = so])
  /\ UNCHANGED <<purpose, notices, operators, late>>

\* notice_published of facts: the status of the project's current notice
NoticePublished == published # {} /\ ~displaced

\* The rows are written and not yet committed; facts is read
InsertSite(w) ==
  /\ tx[w].pc = "checked"
  /\ tx' = [tx EXCEPT ![w] = [@ EXCEPT
        !.pc = "inserted", !.flagged = NoticePublished,
        !.crossed = displaced \/ \E v \in Workers : tx[v].pc = "publishing"]]
  /\ UNCHANGED <<purpose, notices, operators, late>>

\* The commit; bind_source_to_site moves a source that stood elsewhere
SaveSite(w) ==
  LET r == tx[w] IN
  /\ Finish(w, "inserted")
  /\ site' = [site EXCEPT ![r.site] =
       [status |-> "active", processor |-> r.processor, flagged |-> r.flagged,
        crossed |-> r.crossed]]
  /\ source' = IF r.source = None THEN source
               ELSE [source EXCEPT ![r.source].site = r.site]
  /\ Written({r.processor, r.source} \ {None})
  /\ UNCHANGED <<purpose, notices, processor>>

\* The history of its addition is forgotten with it
Deactivate(s) ==
  /\ site[s] # NoRow
  /\ site' = [site EXCEPT ![s] =
       [@ EXCEPT !.status = "terminated", !.flagged = FALSE, !.crossed = FALSE]]
  /\ UNCHANGED <<purpose, notices, processor, source, late, tx>>

-----------------------------------------------------------------------------
\* An error, a lost connection, the end of the process
Abort(w) ==
  /\ tx[w] # Idle
  /\ tx' = [tx EXCEPT ![w] = Idle]
  /\ UNCHANGED <<purpose, notices, operators, late>>

Init ==
  /\ purpose = [p \in Purposes |-> "none"]
  /\ published = {} /\ offers = [n \in Notices |-> {}] /\ named = {}
  /\ displaced = FALSE
  /\ processor = [pr \in Processors |-> "none"]
  /\ source = [so \in Sources |-> NoRow]
  /\ site = [s \in Sites |-> NoRow]
  /\ late = [x \in Purposes \cup Processors \cup Sources |-> 0]
  /\ tx = [w \in Workers |-> Idle]

DPO ==
  \/ \E p \in Purposes :
       \/ CreatePurpose(p)
       \/ \E w \in Workers : Edit(w, p) \/ Activate(w, p) \/ Retire(w, p)
  \/ \E n \in Notices :
       \/ \E p \in Purposes : Detach(n, p) \/ \E w \in Workers : Attach(w, n, p)
       \/ \E w \in Workers : Publish(w, n)
  \/ \E s \in Sites : Deactivate(s)

Staff ==
  \/ \E pr \in Processors : CreateProcessor(pr) \/ SuspendProcessor(pr)
  \/ \E so \in Sources :
       \/ \E pr \in Processors \cup {None}, s \in Sites \cup {None} : CreateSource(so, pr, s)
       \/ SuspendSource(so)
       \/ \E w \in Workers : Import(w, so)
  \/ \E w \in Workers, s \in Sites, pr \in Processors \cup {None}, so \in Sources \cup {None} :
       CheckSite(w, s, pr, so)

Saving(w) ==
  \/ SaveEdit(w) \/ SaveActive(w) \/ SaveRetired(w) \/ SaveAttached(w) \/ SavePublished(w)
  \/ SaveImport(w) \/ InsertSite(w) \/ SaveSite(w) \/ Abort(w)

Next == DPO \/ Staff \/ PublishElsewhere \/ \E w \in Workers : Saving(w)

Spec == Init /\ [][Next]_vars

-----------------------------------------------------------------------------
(* Properties                                                              *)

\* Type invariant; a source never names a site that was not committed (the foreign
\* key, and bind_source_to_site after the insert), and only purposes that have been
\* active are on a notice.
TypeOK ==
  /\ purpose \in [Purposes -> {"none", "draft", "active", "retired"}]
  /\ published \subseteq Notices /\ offers \in [Notices -> SUBSET Purposes]
  /\ displaced \in BOOLEAN
  /\ \A n \in published : offers[n] # {}
  /\ \A n \in Notices : \A p \in offers[n] : purpose[p] \in {"active", "retired"}
  /\ named \subseteq {s \in Sites : site[s] # NoRow}
  /\ processor \in [Processors -> {"none", "active", "suspended"}]
  /\ source \in [Sources -> Source \cup {NoRow}]
  /\ site \in [Sites -> Site \cup {NoRow}]
  /\ \A so \in Sources :
       source[so] # NoRow /\ source[so].site # None => site[source[so].site] # NoRow
  /\ late \in [Purposes \cup Processors \cup Sources -> Nat]
  /\ tx \in [Workers -> Request \cup {Idle}]

MayWrite(w, x) ==
  \/ tx[w].pc = "editing" /\ tx[w].purpose = x
  \/ tx[w].pc \in {"checked", "inserted"} /\ x \in {tx[w].processor, tx[w].source}
  \/ tx[w].pc = "importing" /\ tx[w].source = x

\* Once a purpose has left its draft, a processor or a source is suspended, only the
\* requests that had read the earlier status can still write: changes to a purpose, a
\* site or an import for the suspended party are at most as many as there are handlers
\* (the status checks without a lock in update_purpose, add_site, import_manifest).
StaleChecksRunOut ==
  \A x \in DOMAIN late : Settled(x) =>
    late[x] + Cardinality({w \in Workers : MayWrite(w, x)}) <= Cardinality(Workers)

\* Each active site is named as a recipient in the notice the project published last, or
\* the request that added it said that a new version is needed, or it was added while a
\* notice was being published or after another project's publication of the same code had
\* superseded the current one (add_site and recipients_text together: nobody collects for
\* a recipient no notice names without a warning, but for these two cases).
NamedOrFlagged ==
  published # {} =>
    \A s \in Sites : site[s].status = "active" =>
      s \in named \/ site[s].flagged \/ site[s].crossed
=============================================================================
