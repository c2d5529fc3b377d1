----------------------- MODULE ProjectLifecycleProofs -----------------------
(***************************************************************************)
(* Theorems about ProjectLifecycle, for any number of handlers, notices,   *)
(* languages, purposes and texts.  A notice that is being edited or        *)
(* published belongs to one request, so what that request found under the  *)
(* lock still holds when it commits; a transition owns the project's row,  *)
(* so the status it found is the one it leaves.  So requests behave as if  *)
(* each happened at its commit, which is what NoticePromise has.           *)
(***************************************************************************)
EXTENDS ProjectLifecycle, FiniteSetTheorems, TLAPS

Edits == Items \ [kind : {"move"}, from : Statuses]
Moves == [kind : {"move"}, from : Statuses]

Editing == {"editing", "written"}
Locking == {"checked", "listed", "ready"}

\* What a request carries at each of its stages
Shape(w) ==
  /\ tx[w].pc \in Editing =>
       tx[w].notice \in Notices /\ tx[w].target = NoTarget /\ tx[w].item \in Edits
  /\ tx[w].pc \in {"publishing", "checked", "listed"} => tx[w].notice \in Notices
  /\ tx[w].pc = "ready" /\ tx[w].notice = NoNotice =>
       tx[w].target # NoTarget /\ tx[w].prior = {}
  /\ HoldsProject(w) => tx[w].item \in Moves

\* The ways in which an action changes a handler's request.
LEMMA BeginsType ==
  ASSUME TypeOK, NEW w \in Workers, NEW r \in Request, Begin(w, r)
  PROVE  /\ tx' \in [Workers -> Request \cup {Idle}]
         /\ tx'[w] = r
         /\ \A v \in Workers \ {w} : tx'[v] = tx[v]
BY DEF TypeOK, Begin

LEMMA OpensType ==
  ASSUME NEW pc \in Stages, NEW n \in Notices \cup {NoNotice},
         NEW target \in Statuses \cup {NoTarget}, NEW item \in Items \cup {NoItem}
  PROVE  Open(pc, n, target, item) \in Request
BY DEF Open, Request

LEMMA StepsType ==
  ASSUME TypeOK, NEW w \in Workers, NEW from \in Stages, NEW to \in Stages, Step(w, from, to)
  PROVE  /\ tx[w] \in Request /\ tx[w].pc = from
         /\ tx' \in [Workers -> Request \cup {Idle}]
         /\ tx'[w] = [tx[w] EXCEPT !.pc = to]
         /\ tx'[w].pc = to /\ tx'[w].notice = tx[w].notice /\ tx'[w].target = tx[w].target
         /\ tx'[w].item = tx[w].item /\ tx'[w].prior = tx[w].prior
         /\ \A v \in Workers \ {w} : tx'[v] = tx[v]
<1>1. tx[w] \in Request
  BY DEF TypeOK, Step, Stages, Idle
<1>2. tx' = [tx EXCEPT ![w] = [tx[w] EXCEPT !.pc = to]]
  BY DEF Step
<1>3. [tx[w] EXCEPT !.pc = to] \in Request
  BY <1>1 DEF Request
<1>4. tx'[w] = [tx[w] EXCEPT !.pc = to]
  BY <1>2 DEF TypeOK
<1>5. QED BY <1>1, <1>2, <1>3, <1>4 DEF TypeOK, Step, Request

LEMMA ListsType ==
  ASSUME TypeOK, NEW w \in Workers, ListVersions(w)
  PROVE  /\ tx[w] \in Request /\ tx[w].pc = "checked"
         /\ tx' \in [Workers -> Request \cup {Idle}]
         /\ tx'[w].pc = "listed" /\ tx'[w].notice = tx[w].notice
         /\ tx'[w].target = tx[w].target /\ tx'[w].item = tx[w].item
         /\ tx'[w].prior \subseteq Published
         /\ \A v \in Workers \ {w} : tx'[v] = tx[v]
<1> DEFINE found == {m \in Published \ {tx[w].notice} : code[m] = code[tx[w].notice]}
           r == [tx[w] EXCEPT !.pc = "listed", !.prior = found]
<1>1. tx[w] \in Request /\ tx[w].pc = "checked"
  BY DEF TypeOK, ListVersions, Idle
<1>2. tx' = [tx EXCEPT ![w] = r]
  BY DEF ListVersions
<1>3. found \in SUBSET Notices /\ found \subseteq Published
  BY DEF Published
<1> HIDE DEF found
<1>4. r \in Request
  BY <1>1, <1>3 DEF Request, Stages
<1>5. /\ r.pc = "listed" /\ r.notice = tx[w].notice /\ r.target = tx[w].target
      /\ r.item = tx[w].item /\ r.prior = found
  BY <1>1 DEF Request
<1> HIDE DEF r
<1>6. QED BY <1>1, <1>2, <1>3, <1>4, <1>5 DEF TypeOK

LEMMA EndsType ==
  ASSUME TypeOK, NEW w \in Workers, tx' = [tx EXCEPT ![w] = Idle]
  PROVE  /\ tx' \in [Workers -> Request \cup {Idle}]
         /\ tx'[w] = Idle
         /\ \A v \in Workers \ {w} : tx'[v] = tx[v]
BY DEF TypeOK

LEMMA AtWork ==
  ASSUME TypeOK, NEW w \in Workers, tx[w].pc # "idle"
  PROVE  tx[w] \in Request
BY DEF TypeOK, Idle

ShapesOK == \A w \in Workers : Shape(w)

LEMMA CreateType ==
  ASSUME TypeOK, NEW n \in Notices, NEW c \in Codes, Create(n, c)
  PROVE  TypeOK'
<1> USE DEF projectVars, contentVars
<1>1. PICK v \in 1..MaxVersion : version' = [version EXCEPT ![n] = v]
  BY DEF Create
<1>2. v \in 0..MaxVersion
  BY <1>1, LifecycleAssumption
<1>3. version' \in [Notices -> 0..MaxVersion]
  BY <1>1, <1>2 DEF TypeOK
<1>4. QED BY <1>3 DEF Create, TypeOK

\* What a publication in another project does to this one.
LEMMA ElsewhereDoes ==
  ASSUME NEW c \in Codes, PublishElsewhere(c)
  PROVE  /\ UNCHANGED <<project, current, history, proof, code, version, text, signed,
                        attached, tx>>
         /\ \E old \in SUBSET Published :
              /\ status' = [n \in Notices |-> IF n \in old THEN "superseded" ELSE status[n]]
              /\ displaced' = displaced \cup old
BY DEF PublishElsewhere, projectVars, contentVars

LEMMA ElsewhereType ==
  ASSUME TypeOK, NEW c \in Codes, PublishElsewhere(c)
  PROVE  TypeOK'
BY ElsewhereDoes DEF TypeOK, Published

\* One rendition of one notice is replaced.
LEMMA OneRendition ==
  ASSUME NEW V, NEW f \in [Notices -> [Languages -> V]], NEW n \in Notices,
         NEW l \in Languages, NEW x \in V, NEW g,
         g = [f EXCEPT ![n] = [f[n] EXCEPT ![l] = x]]
  PROVE  /\ g \in [Notices -> [Languages -> V]]
         /\ g[n][l] = x
         /\ \A k \in Languages \ {l} : g[n][k] = f[n][k]
         /\ \A m \in Notices \ {n} : g[m] = f[m]
<1>1. f[n] \in [Languages -> V]
  OBVIOUS
<1>2. [f[n] EXCEPT ![l] = x] \in [Languages -> V]
  BY <1>1
<1>3. QED BY <1>1, <1>2

\* What the commit of an edit leaves of the notice's content.
LEMMA EditCommits ==
  ASSUME TypeOK, ShapesOK, NEW w \in Workers, EditCommit(w)
  PROVE  LET n == tx[w].notice
         IN  \/ \E l \in Languages, t \in Texts :
                  /\ text' = [text EXCEPT ![n] = [text[n] EXCEPT ![l] = t]]
                  /\ signed' = [signed EXCEPT ![n] = [signed[n] EXCEPT ![l] = NoText]]
                  /\ attached' = attached
             \/ /\ text' = text /\ signed' = signed
                /\ \E ps \in SUBSET Purposes : attached' = [attached EXCEPT ![n] = ps]
<1>1. tx[w].notice \in Notices /\ tx[w].item \in Edits
  BY DEF EditCommit, Finish, ShapesOK, Shape, Editing
<1>2. CASE tx[w].item.kind = "render"
  <2>1. tx[w].item.language \in Languages /\ tx[w].item.text \in Texts
    BY <1>1, <1>2 DEF Edits, Items
  <2>2. Render(tx[w].notice, tx[w].item.language, tx[w].item.text)
    BY <1>2 DEF EditCommit
  <2>3. QED BY <2>1, <2>2 DEF Render
<1>3. CASE tx[w].item.kind # "render"
  <2>1. tx[w].item.purpose \in Purposes
    BY <1>1, <1>3 DEF Edits, Items
  <2>2. attached[tx[w].notice] \in SUBSET Purposes
    BY <1>1 DEF TypeOK
  <2>3. QED BY <1>3, <2>1, <2>2 DEF EditCommit
<1>4. QED BY <1>2, <1>3

LEMMA DraftingType ==
  ASSUME TypeOK, ShapesOK, NEW w \in Workers, Drafting(w)
  PROVE  TypeOK'
<1> USE DEF projectVars, noticeVars, contentVars
<1>1. ASSUME NEW n \in Notices, NEW item \in Edits, RequireDraft(w, n, item)
      PROVE  TypeOK'
  <2>1. Open("editing", n, NoTarget, item) \in Request
    BY OpensType DEF Stages, Edits
  <2>2. tx' \in [Workers -> Request \cup {Idle}]
    BY <1>1, <2>1, BeginsType DEF RequireDraft
  <2>3. QED BY <1>1, <2>2 DEF RequireDraft, TypeOK
<1>2. CASE Write(w)
  <2>1. tx' \in [Workers -> Request \cup {Idle}]
    BY <1>2, StepsType DEF Write, Stages
  <2>2. QED BY <1>2, <2>1 DEF Write, TypeOK
<1>3. CASE EditCommit(w)
  <2>1. /\ tx[w].notice \in Notices /\ tx[w].item \in Edits
        /\ tx' \in [Workers -> Request \cup {Idle}]
    BY <1>3, EndsType DEF EditCommit, Finish, ShapesOK, Shape, Editing
  <2> DEFINE n == tx[w].notice
             Renditioned == [Notices -> [Languages -> Texts \cup {NoText}]]
  <2>2. text \in Renditioned /\ signed \in Renditioned /\ n \in Notices
    BY <2>1 DEF TypeOK
  <2>3. text' \in Renditioned /\ signed' \in Renditioned
    <3>1. CASE \E l \in Languages, t \in Texts :
                 /\ text' = [text EXCEPT ![n] = [text[n] EXCEPT ![l] = t]]
                 /\ signed' = [signed EXCEPT ![n] = [signed[n] EXCEPT ![l] = NoText]]
      <4>1. PICK l \in Languages, t \in Texts :
                 /\ text' = [text EXCEPT ![n] = [text[n] EXCEPT ![l] = t]]
                 /\ signed' = [signed EXCEPT ![n] = [signed[n] EXCEPT ![l] = NoText]]
        BY <3>1
      <4> HIDE DEF n
      <4>2. text' \in Renditioned
        BY <2>2, <4>1, OneRendition
      <4>3. signed' \in Renditioned
        BY <2>2, <4>1, OneRendition
      <4>4. QED BY <4>2, <4>3
    <3>2. CASE text' = text /\ signed' = signed
      BY <2>2, <3>2
    <3>3. QED BY <1>3, <3>1, <3>2, EditCommits
  <2>4. attached' \in [Notices -> SUBSET Purposes]
    BY <1>3, <2>1, EditCommits DEF TypeOK
  <2>5. QED BY <1>3, <2>1, <2>3, <2>4 DEF EditCommit, TypeOK
<1>4. QED BY <1>1, <1>2, <1>3 DEF Drafting, Edits

LEMMA PublishingType ==
  ASSUME TypeOK, ShapesOK, NEW w \in Workers, Publishing(w)
  PROVE  TypeOK'
<1> USE DEF projectVars, noticeVars, contentVars
<1>1. ASSUME NEW n \in Notices, Publish(w, n)
      PROVE  TypeOK'
  <2>1. Open("publishing", n, NoTarget, NoItem) \in Request
    BY OpensType DEF Stages
  <2>2. tx' \in [Workers -> Request \cup {Idle}]
    BY <1>1, <2>1, BeginsType DEF Publish
  <2>3. QED BY <1>1, <2>2 DEF Publish, TypeOK
<1>2. CASE Check(w)
  <2>1. tx' \in [Workers -> Request \cup {Idle}]
    BY <1>2, StepsType DEF Check, Stages
  <2>2. QED BY <1>2, <2>1 DEF Check, TypeOK
<1>3. CASE ListVersions(w)
  <2>1. tx' \in [Workers -> Request \cup {Idle}]
    BY <1>3, ListsType
  <2>2. QED BY <1>3, <2>1 DEF ListVersions, TypeOK
<1>4. CASE Supersede(w)
  <2>1. tx' \in [Workers -> Request \cup {Idle}]
    BY <1>4, StepsType DEF Supersede, Stages
  <2>2. QED BY <1>4, <2>1 DEF Supersede, TypeOK
<1>5. CASE Commit(w)
  <2>1. tx[w] \in Request /\ tx' \in [Workers -> Request \cup {Idle}]
    BY <1>5, AtWork, EndsType DEF Commit, Finish
  <2>2. current' \in Notices \cup {NoNotice}
    BY <1>5, <2>1 DEF Commit, NewCurrent, TypeOK, Request
  <2>3. status' \in [Notices -> {"none", "draft", "published", "superseded"}]
    BY <1>5 DEF Commit, TypeOK
  <2>4. project' \in Statuses /\ history' \in Seq(Move)
    <3>1. CASE tx[w].target = NoTarget
      BY <1>5, <3>1 DEF Commit, TypeOK
    <3>2. CASE tx[w].target # NoTarget
      <4>1. tx[w].target \in Statuses /\ tx[w].item.from \in Statuses
        BY <1>5, <2>1, <3>2 DEF Commit, Request, ShapesOK, Shape, HoldsProject, Moves
      <4> DEFINE move == [from |-> tx[w].item.from, to |-> tx[w].target]
      <4>2. move \in Move
        BY <4>1 DEF Move
      <4>3. project' = tx[w].target /\ history' = Append(history, move)
        BY <1>5, <3>2 DEF Commit
      <4> HIDE DEF move
      <4>4. history \in Seq(Move)
        BY DEF TypeOK
      <4>5. Append(history, move) \in Seq(Move)
        BY <4>2, <4>4
      <4>6. QED BY <4>1, <4>3, <4>5
    <3>3. QED BY <3>1, <3>2
  <2>5. QED BY <1>5, <2>1, <2>2, <2>3, <2>4 DEF Commit, TypeOK
<1>6. QED BY <1>1, <1>2, <1>3, <1>4, <1>5 DEF Publishing

\* How a transition opens its request: with the publication of a draft, or ready.
LEMMA TransitionOpens ==
  ASSUME TypeOK, NEW w \in Workers, NEW target \in Statuses, Transition(w, target)
  PROVE  /\ tx[w].pc = "idle"
         /\ tx' \in [Workers -> Request \cup {Idle}]
         /\ \A v \in Workers \ {w} : tx'[v] = tx[v]
         /\ tx'[w].target = target /\ tx'[w].prior = {}
         /\ tx'[w].item = [kind |-> "move", from |-> project]
         /\ \/ tx'[w].pc = "publishing" /\ tx'[w].notice \in Drafts
            \/ tx'[w].pc = "ready" /\ tx'[w].notice = NoNotice
<1> DEFINE found == [kind |-> "move", from |-> project]
<1>1. found \in Items
  BY DEF TypeOK, Items
<1>2. CASE \E n \in Drafts : Begin(w, Open("publishing", n, target, found))
  <2>1. PICK n \in Drafts : Begin(w, Open("publishing", n, target, found))
    BY <1>2
  <2>2. Open("publishing", n, target, found) \in Request
    BY <1>1, OpensType DEF Stages, Drafts
  <2>3. QED BY <2>1, <2>2, BeginsType DEF Begin, Open
<1>3. CASE Begin(w, Open("ready", NoNotice, target, found))
  <2>1. Open("ready", NoNotice, target, found) \in Request
    BY <1>1, OpensType DEF Stages
  <2>2. QED BY <1>3, <2>1, BeginsType DEF Begin, Open
<1>4. QED BY <1>2, <1>3 DEF Transition

LEMMA MovingType ==
  ASSUME TypeOK, NEW w \in Workers, Moving(w)
  PROVE  TypeOK'
<1> USE DEF projectVars, noticeVars, contentVars
<1>1. ASSUME NEW target \in Statuses, Transition(w, target)
      PROVE  TypeOK'
  <2>1. tx' \in [Workers -> Request \cup {Idle}]
    BY <1>1, TransitionOpens
  <2>2. QED BY <1>1, <2>1 DEF Transition, TypeOK
<1>2. CASE AddApproval(w)
  <2>1. Open("approving", NoNotice, NoTarget, NoItem) \in Request
    BY OpensType DEF Stages
  <2>2. tx' \in [Workers -> Request \cup {Idle}]
    BY <1>2, <2>1, BeginsType DEF AddApproval
  <2>3. QED BY <1>2, <2>2 DEF AddApproval, TypeOK
<1>3. CASE AddApprovalCommit(w)
  BY <1>3, EndsType DEF AddApprovalCommit, Finish, TypeOK
<1>4. QED BY <1>1, <1>2, <1>3 DEF Moving

LEMMA NextTypeOK ==
  ASSUME TypeOK, ShapesOK, [Next]_vars
  PROVE  TypeOK'
<1> USE DEF projectVars, noticeVars, contentVars
<1>1. ASSUME NEW n \in Notices, NEW l \in Languages, ApproveLanguage(n, l)
      PROVE  TypeOK'
  BY <1>1 DEF ApproveLanguage, TypeOK
<1>2. ASSUME NEW w \in Workers, Abort(w)
      PROVE  TypeOK'
  BY <1>2, EndsType DEF Abort, TypeOK
<1>3. CASE UNCHANGED vars
  BY <1>3 DEF vars, TypeOK
<1>4. CASE \E n \in Notices, c \in Codes : Create(n, c)
  BY <1>4, CreateType
<1>5. CASE \E c \in Codes : PublishElsewhere(c)
  BY <1>5, ElsewhereType
<1>6. CASE \E w \in Workers : Drafting(w) \/ Publishing(w) \/ Moving(w) \/ Abort(w)
  BY <1>2, <1>6, DraftingType, PublishingType, MovingType
<1>7. QED BY <1>1, <1>3, <1>4, <1>5, <1>6 DEF Next

-----------------------------------------------------------------------------
(* The inductive invariant                                                 *)

\* What a request has found, and can rely on until it commits
Facts(w) ==
  /\ tx[w].pc \in Editing => status[tx[w].notice] = "draft"
  /\ tx[w].pc \in Locking /\ tx[w].notice # NoNotice =>
       status[tx[w].notice] = "draft" /\ Publishable(tx[w].notice)
  /\ tx[w].pc \in {"listed", "ready"} =>
       \A m \in tx[w].prior : status[m] \in {"published", "superseded"}
  /\ HoldsProject(w) => tx[w].item.from = project /\ current # NoNotice

\* Two requests never own the same notice.
Apart(v, w) ==
  /\ tx[v].pc \in Editing \cup Locking
  /\ tx[w].pc \in Editing \cup Locking
  /\ tx[v].notice = tx[w].notice
  => tx[v].notice = NoNotice

RequestsOK ==
  \A w \in Workers : Shape(w) /\ Facts(w) /\ \A v \in Workers \ {w} : Apart(v, w)

\* An approval is of the text as it is.
SignedOK == \A n \in Notices, l \in Languages : signed[n][l] \in {NoText, text[n][l]}

ContentOK == SignedOK /\ PublishedIsSignedOff
MovesOK == history # <<>> /\ HistoryExplains /\ OnlyOthersDisplace

IndInv == TypeOK /\ RequestsOK /\ ContentOK /\ MovesOK

LEMMA InitIndInv == Init => IndInv
<1> SUFFICES ASSUME Init PROVE IndInv
  OBVIOUS
<1>1. TypeOK
  <2>1. history \in Seq(Move)
    BY DEF Init, Move, Statuses
  <2>2. version \in [Notices -> 0..MaxVersion]
    BY LifecycleAssumption DEF Init
  <2>3. QED BY <2>1, <2>2 DEF Init, TypeOK, Statuses
<1>2. RequestsOK
  BY DEF Init, RequestsOK, Shape, Facts, Apart, HoldsProject, Idle, Editing, Locking
<1>3. ContentOK
  BY DEF Init, ContentOK, SignedOK, PublishedIsSignedOff
<1>4. MovesOK
  BY DEF Init, MovesOK, HistoryExplains, OnlyOthersDisplace
<1>5. QED BY <1>1, <1>2, <1>3, <1>4 DEF IndInv

LEMMA DataKept ==
  ASSUME ContentOK, MovesOK,
         UNCHANGED <<project, current, history, status, displaced, text, signed, attached>>
  PROVE  ContentOK' /\ MovesOK'
BY DEF ContentOK, SignedOK, PublishedIsSignedOff, Renditions, MovesOK, HistoryExplains,
       OnlyOthersDisplace

LEMMA ShapeKept ==
  ASSUME NEW v, tx'[v] = tx[v], Shape(v)
  PROVE  Shape(v)'
BY DEF Shape, HoldsProject

\* An action of w that only moves w's own request along leaves the others alone.
LEMMA OthersKept ==
  ASSUME RequestsOK, NEW w \in Workers,
         UNCHANGED <<project, current, status, text, signed, attached>>,
         \A v \in Workers \ {w} : tx'[v] = tx[v],
         Shape(w)', Facts(w)', \A v \in Workers \ {w} : Apart(v, w)'
  PROVE  RequestsOK'
<1>1. ASSUME NEW v \in Workers \ {w}
      PROVE  Shape(v)' /\ Facts(v)'
  <2>1. tx'[v] = tx[v] /\ Shape(v) /\ Facts(v)
    BY DEF RequestsOK
  <2>2. Facts(v)'
    BY <2>1 DEF Facts, HoldsProject, Publishable, Renditions
  <2>3. QED BY <2>1, <2>2, ShapeKept
<1>2. ASSUME NEW v \in Workers, NEW u \in Workers \ {v}
      PROVE  Apart(u, v)'
  <2>1. CASE v = w
    BY <2>1
  <2>2. CASE u = w
    <3>1. Apart(v, w)'
      BY <2>2
    <3>2. QED BY <2>2, <3>1 DEF Apart
  <2>3. CASE v # w /\ u # w
    <3>1. Apart(u, v) /\ tx'[u] = tx[u] /\ tx'[v] = tx[v]
      BY <2>3 DEF RequestsOK
    <3>2. QED BY <3>1 DEF Apart
  <2>4. QED BY <2>1, <2>2, <2>3
<1>3. QED BY <1>1, <1>2 DEF RequestsOK

LEMMA IdleIsQuiet ==
  ASSUME NEW w \in Workers, tx'[w] = Idle
  PROVE  Shape(w)' /\ Facts(w)' /\ \A v \in Workers \ {w} : Apart(v, w)'
BY DEF Shape, Facts, Apart, HoldsProject, Idle, Editing, Locking

\* What is under way when nothing but requests changes
LEMMA DraftingKeeps ==
  ASSUME IndInv, NEW w \in Workers, Drafting(w)
  PROVE  EditCommit(w) \/ (RequestsOK' /\ ContentOK' /\ MovesOK')
<1> USE DEF projectVars, noticeVars, contentVars, IndInv
<1>1. CASE UNCHANGED <<project, current, history, status, displaced, text, signed, attached>>
  <2>1. ContentOK' /\ MovesOK'
    BY <1>1, DataKept
  <2>2. ASSUME NEW n \in Notices, NEW item \in Edits, RequireDraft(w, n, item)
        PROVE  RequestsOK'
    <3>1. Open("editing", n, NoTarget, item) \in Request
      BY OpensType DEF Stages, Edits
    <3>2. /\ tx'[w] = Open("editing", n, NoTarget, item)
          /\ \A v \in Workers \ {w} : tx'[v] = tx[v]
      BY <2>2, <3>1, BeginsType DEF RequireDraft
    <3>3. Shape(w)' /\ Facts(w)'
      BY <1>1, <2>2, <3>2
      DEF RequireDraft, Open, Shape, Facts, HoldsProject, Editing, Locking
    <3>4. \A v \in Workers \ {w} : Apart(v, w)'
      BY <2>2, <3>2 DEF RequireDraft, NoticeFree, HoldsNotice, Open, Apart, Editing, Locking
    <3>5. QED BY <1>1, <3>2, <3>3, <3>4, OthersKept
  <2>3. CASE Write(w)
    <3>1. Step(w, "editing", "written")
      BY <2>3 DEF Write
    <3>2. /\ tx[w].pc = "editing" /\ tx'[w].pc = "written"
          /\ tx'[w].notice = tx[w].notice /\ tx'[w].target = tx[w].target
          /\ tx'[w].item = tx[w].item
          /\ \A v \in Workers \ {w} : tx'[v] = tx[v]
      BY <3>1, StepsType DEF Stages
    <3>3. Shape(w)' /\ Facts(w)'
      BY <1>1, <3>2 DEF RequestsOK, Shape, Facts, HoldsProject, Editing, Locking
    <3>4. \A v \in Workers \ {w} : Apart(v, w)'
      BY <3>2 DEF RequestsOK, Apart, Editing, Locking
    <3>5. QED BY <1>1, <2>1, <3>2, <3>3, <3>4, OthersKept
  <2>4. QED BY <2>1, <2>2, <2>3 DEF Drafting, Edits
<1>2. CASE EditCommit(w)
  BY <1>2
<1>3. QED BY <1>1, <1>2 DEF Drafting, RequireDraft, Write

LEMMA PublishingKeeps ==
  ASSUME IndInv, NEW w \in Workers, Publishing(w)
  PROVE  Commit(w) \/ (RequestsOK' /\ ContentOK' /\ MovesOK')
<1> USE DEF projectVars, noticeVars, contentVars, IndInv
<1>1. CASE UNCHANGED <<project, current, history, status, displaced, text, signed, attached>>
  <2>1. ContentOK' /\ MovesOK'
    BY <1>1, DataKept
  <2>2. ASSUME NEW n \in Notices, Publish(w, n)
        PROVE  RequestsOK'
    <3>1. Open("publishing", n, NoTarget, NoItem) \in Request
      BY OpensType DEF Stages
    <3>2. /\ tx'[w] = Open("publishing", n, NoTarget, NoItem)
          /\ \A v \in Workers \ {w} : tx'[v] = tx[v]
      BY <2>2, <3>1, BeginsType DEF Publish
    <3>3. Shape(w)' /\ Facts(w)' /\ \A v \in Workers \ {w} : Apart(v, w)'
      BY <3>2 DEF Open, Shape, Facts, Apart, HoldsProject, Editing, Locking
    <3>4. QED BY <1>1, <3>2, <3>3, OthersKept
  <2>3. CASE Check(w)
    <3>1. Step(w, "publishing", "checked")
      BY <2>3 DEF Check
    <3>2. /\ tx[w].pc = "publishing" /\ tx'[w].pc = "checked"
          /\ tx'[w].notice = tx[w].notice /\ tx'[w].target = tx[w].target
          /\ tx'[w].item = tx[w].item
          /\ \A v \in Workers \ {w} : tx'[v] = tx[v]
      BY <3>1, StepsType DEF Stages
    <3>3. status[tx[w].notice] = "draft" /\ Publishable(tx[w].notice)
      BY <2>3 DEF Check
    <3>4. Shape(w)' /\ Facts(w)'
      BY <1>1, <3>2, <3>3
      DEF RequestsOK, Shape, Facts, HoldsProject, Publishable, Renditions, Editing, Locking
    <3>5. \A v \in Workers \ {w} : Apart(v, w)'
      BY <2>3, <3>2 DEF Check, NoticeFree, HoldsNotice, Apart, Editing, Locking
    <3>6. QED BY <1>1, <2>1, <3>2, <3>4, <3>5, OthersKept
  <2>4. CASE ListVersions(w)
    <3>1. /\ tx[w].pc = "checked" /\ tx'[w].pc = "listed"
          /\ tx'[w].notice = tx[w].notice /\ tx'[w].target = tx[w].target
          /\ tx'[w].item = tx[w].item /\ tx'[w].prior \subseteq Published
          /\ \A v \in Workers \ {w} : tx'[v] = tx[v]
      BY <2>4, ListsType
    <3>2. Shape(w)' /\ Facts(w)'
      BY <1>1, <3>1
      DEF RequestsOK, Shape, Facts, HoldsProject, Publishable, Renditions, Published,
          Editing, Locking
    <3>3. \A v \in Workers \ {w} : Apart(v, w)'
      BY <3>1 DEF RequestsOK, Apart, Editing, Locking
    <3>4. QED BY <1>1, <2>1, <3>1, <3>2, <3>3, OthersKept
  <2>5. CASE Supersede(w)
    <3>1. Step(w, "listed", "ready")
      BY <2>5 DEF Supersede
    <3>2. /\ tx[w].pc = "listed" /\ tx'[w].pc = "ready"
          /\ tx'[w].notice = tx[w].notice /\ tx'[w].target = tx[w].target
          /\ tx'[w].item = tx[w].item /\ tx'[w].prior = tx[w].prior
          /\ \A v \in Workers \ {w} : tx'[v] = tx[v]
      BY <3>1, StepsType DEF Stages
    <3>3. Shape(w)' /\ Facts(w)'
      BY <1>1, <3>2, LifecycleAssumption
      DEF RequestsOK, Shape, Facts, HoldsProject, Publishable, Renditions, Editing, Locking
    <3>4. \A v \in Workers \ {w} : Apart(v, w)'
      BY <3>2 DEF RequestsOK, Apart, Editing, Locking
    <3>5. QED BY <1>1, <2>1, <3>2, <3>3, <3>4, OthersKept
  <2>6. CASE Commit(w)
    BY <2>6
  <2>7. QED BY <2>1, <2>2, <2>3, <2>4, <2>5, <2>6 DEF Publishing
<1>2. CASE Commit(w)
  BY <1>2
<1>3. QED BY <1>1, <1>2 DEF Publishing, Publish, Check, ListVersions, Supersede

LEMMA MovingKeeps ==
  ASSUME IndInv, NEW w \in Workers, Moving(w) \/ Abort(w)
  PROVE  RequestsOK' /\ ContentOK' /\ MovesOK'
<1> USE DEF projectVars, noticeVars, contentVars, IndInv
<1>1. UNCHANGED <<project, current, history, status, displaced, text, signed, attached>>
  BY DEF Moving, Transition, AddApproval, AddApprovalCommit, Abort
<1>2. ContentOK' /\ MovesOK'
  BY <1>1, DataKept
<1>3. ASSUME NEW target \in Statuses, Transition(w, target)
      PROVE  RequestsOK'
  <2>1. /\ \A v \in Workers \ {w} : tx'[v] = tx[v]
        /\ tx'[w].target = target /\ tx'[w].prior = {}
        /\ tx'[w].item = [kind |-> "move", from |-> project]
        /\ \/ tx'[w].pc = "publishing" /\ tx'[w].notice \in Drafts
           \/ tx'[w].pc = "ready" /\ tx'[w].notice = NoNotice
    BY <1>3, TransitionOpens
  <2>2. current # NoNotice
    BY <1>3 DEF Transition, Permitted, MovesOK, OnlyOthersDisplace
  <2>3. target # NoTarget /\ tx'[w].item \in Moves
    BY <2>1 DEF Statuses, NoTarget, Moves, TypeOK
  <2>4. Shape(w)'
    BY <2>1, <2>3 DEF Shape, Drafts, Editing
  <2>5. Facts(w)'
    BY <1>1, <2>1, <2>2 DEF Facts, Editing, Locking
  <2>6. \A v \in Workers \ {w} : Apart(v, w)'
    BY <2>1 DEF Apart, Editing, Locking
  <2>7. QED BY <1>1, <2>1, <2>4, <2>5, <2>6, OthersKept
<1>4. CASE AddApproval(w)
  <2>1. Open("approving", NoNotice, NoTarget, NoItem) \in Request
    BY OpensType DEF Stages
  <2>2. /\ tx'[w] = Open("approving", NoNotice, NoTarget, NoItem)
        /\ \A v \in Workers \ {w} : tx'[v] = tx[v]
    BY <1>4, <2>1, BeginsType DEF AddApproval
  <2>3. Shape(w)' /\ Facts(w)' /\ \A v \in Workers \ {w} : Apart(v, w)'
    BY <2>2 DEF Open, Shape, Facts, Apart, HoldsProject, Editing, Locking
  <2>4. QED BY <1>1, <1>2, <2>2, <2>3, OthersKept
<1>5. CASE AddApprovalCommit(w) \/ Abort(w)
  <2>1. tx'[w] = Idle /\ \A v \in Workers \ {w} : tx'[v] = tx[v]
    BY <1>5, EndsType DEF AddApprovalCommit, Abort, Finish
  <2>2. QED BY <1>1, <1>2, <2>1, IdleIsQuiet, OthersKept
<1>6. QED BY <1>2, <1>3, <1>4, <1>5 DEF Moving

\* Nobody has a row that does not exist yet.
LEMMA CreateKeeps ==
  ASSUME IndInv, NEW n \in Notices, NEW c \in Codes, Create(n, c)
  PROVE  RequestsOK' /\ ContentOK' /\ MovesOK'
<1> USE DEF IndInv
<1>1. /\ status[n] = "none" /\ status' = [status EXCEPT ![n] = "draft"]
      /\ UNCHANGED <<project, current, history, displaced, text, signed, attached, tx>>
  BY DEF Create, projectVars, contentVars
<1>2. status'[n] = "draft" /\ \A m \in Notices \ {n} : status'[m] = status[m]
  BY <1>1 DEF TypeOK
<1>3. ContentOK'
  BY <1>1, <1>2 DEF ContentOK, SignedOK, PublishedIsSignedOff, Renditions
<1>4. MovesOK'
  BY <1>1, <1>2 DEF MovesOK, HistoryExplains, OnlyOthersDisplace, TypeOK
<1>5. ASSUME NEW v \in Workers
      PROVE  Shape(v)' /\ Facts(v)'
  <2>1. Shape(v) /\ Facts(v) /\ tx'[v] = tx[v]
    BY <1>1 DEF RequestsOK
  <2>2. CASE tx[v].pc = "idle"
    BY <1>1, <2>1, <2>2, ShapeKept DEF Facts, HoldsProject, Editing, Locking
  <2>3. CASE tx[v].pc # "idle"
    <3>1. tx[v] \in Request
      BY <2>3, AtWork
    <3>2. \A m \in Notices : status[m] \in {"draft", "published", "superseded"}
                                => status'[m] = status[m]
      BY <1>1, <1>2
    <3>3. Facts(v)'
      BY <1>1, <2>1, <3>1, <3>2, LifecycleAssumption
      DEF Facts, HoldsProject, Publishable, Renditions, Request
    <3>4. QED BY <2>1, <3>3, ShapeKept
  <2>4. QED BY <2>2, <2>3
<1>6. RequestsOK'
  BY <1>1, <1>5 DEF RequestsOK, Apart
<1>7. QED BY <1>3, <1>4, <1>6

\* An approval only adds to what is signed, and what it adds is the text.
LEMMA ApproveKeeps ==
  ASSUME IndInv, NEW n \in Notices, NEW l \in Languages, ApproveLanguage(n, l)
  PROVE  RequestsOK' /\ ContentOK' /\ MovesOK'
<1> USE DEF IndInv
<1>1. /\ text[n][l] # NoText
      /\ signed' = [signed EXCEPT ![n] = [signed[n] EXCEPT ![l] = text[n][l]]]
      /\ UNCHANGED <<project, current, history, status, displaced, text, attached, tx>>
  BY DEF ApproveLanguage, projectVars, noticeVars
<1>2. /\ signed'[n][l] = text[n][l]
      /\ \A k \in Languages \ {l} : signed'[n][k] = signed[n][k]
      /\ \A m \in Notices \ {n} : signed'[m] = signed[m]
  <2>1. text[n][l] \in Texts \cup {NoText}
    BY DEF TypeOK
  <2>2. QED BY <1>1, <2>1, OneRendition DEF TypeOK
<1>3. \A m \in Notices, k \in Languages :
        /\ signed[m][k] # NoText => signed'[m][k] # NoText
        /\ signed[m][k] = text[m][k] => signed'[m][k] = text[m][k]
        /\ signed'[m][k] \in {signed[m][k], text[m][k]}
  BY <1>1, <1>2
<1>4. ContentOK'
  BY <1>1, <1>3 DEF ContentOK, SignedOK, PublishedIsSignedOff, Renditions
<1>5. MovesOK'
  BY <1>1 DEF MovesOK, HistoryExplains, OnlyOthersDisplace
<1>6. ASSUME NEW v \in Workers
      PROVE  Shape(v)' /\ Facts(v)'
  <2>1. Shape(v) /\ Facts(v) /\ tx'[v] = tx[v]
    BY <1>1 DEF RequestsOK
  <2>2. CASE tx[v].pc = "idle"
    BY <1>1, <2>1, <2>2, ShapeKept DEF Facts, HoldsProject, Editing, Locking
  <2>3. CASE tx[v].pc # "idle"
    <3>1. tx[v] \in Request
      BY <2>3, AtWork
    <3>2. \A m \in Notices : Publishable(m) => Publishable(m)'
      BY <1>1, <1>3 DEF Publishable, Renditions
    <3>3. Facts(v)'
      BY <1>1, <2>1, <3>1, <3>2 DEF Facts, HoldsProject, Request
    <3>4. QED BY <2>1, <3>3, ShapeKept
  <2>4. QED BY <2>2, <2>3
<1>7. RequestsOK'
  BY <1>1, <1>6 DEF RequestsOK, Apart
<1>8. QED BY <1>4, <1>5, <1>7

\* An edit is of a draft that nobody else has locked.
LEMMA EditKeeps ==
  ASSUME IndInv, NEW w \in Workers, EditCommit(w)
  PROVE  RequestsOK' /\ ContentOK' /\ MovesOK'
<1> USE DEF IndInv
<1> DEFINE n == tx[w].notice
<1>1. /\ n \in Notices /\ status[n] = "draft" /\ tx[w].pc = "written"
      /\ tx'[w] = Idle /\ \A v \in Workers \ {w} : tx'[v] = tx[v]
      /\ UNCHANGED <<project, current, history, status, displaced>>
  BY EndsType DEF EditCommit, Finish, RequestsOK, Shape, Facts, Editing, projectVars, noticeVars
<1>2. /\ \A m \in Notices \ {n} :
           text'[m] = text[m] /\ signed'[m] = signed[m] /\ attached'[m] = attached[m]
      /\ \A l \in Languages : signed'[n][l] \in {NoText, text'[n][l]}
  <2>1. ShapesOK
    BY DEF RequestsOK, ShapesOK
  <2>2. CASE \E l \in Languages, t \in Texts :
               /\ text' = [text EXCEPT ![n] = [text[n] EXCEPT ![l] = t]]
               /\ signed' = [signed EXCEPT ![n] = [signed[n] EXCEPT ![l] = NoText]]
               /\ attached' = attached
    <3>1. PICK l \in Languages, t \in Texts :
               /\ text' = [text EXCEPT ![n] = [text[n] EXCEPT ![l] = t]]
               /\ signed' = [signed EXCEPT ![n] = [signed[n] EXCEPT ![l] = NoText]]
               /\ attached' = attached
      BY <2>2
    <3> HIDE DEF n
    <3>2. /\ \A k \in Languages \ {l} : text'[n][k] = text[n][k]
          /\ \A m \in Notices \ {n} : text'[m] = text[m]
      BY <1>1, <3>1, OneRendition DEF TypeOK
    <3>3. /\ signed'[n][l] = NoText
          /\ \A k \in Languages \ {l} : signed'[n][k] = signed[n][k]
          /\ \A m \in Notices \ {n} : signed'[m] = signed[m]
      BY <1>1, <3>1, OneRendition DEF TypeOK
    <3>4. \A k \in Languages : signed[n][k] \in {NoText, text[n][k]}
      BY <1>1 DEF ContentOK, SignedOK
    <3>5. QED BY <3>1, <3>2, <3>3, <3>4
  <2>3. CASE /\ text' = text /\ signed' = signed
             /\ \E ps \in SUBSET Purposes : attached' = [attached EXCEPT ![n] = ps]
    BY <1>1, <2>3 DEF ContentOK, SignedOK, TypeOK
  <2>4. QED BY <2>1, <2>2, <2>3, EditCommits
<1> HIDE DEF n
<1>3. ContentOK'
  <2>1. SignedOK'
    BY <1>2 DEF ContentOK, SignedOK
  <2>2. PublishedIsSignedOff'
    BY <1>1, <1>2 DEF ContentOK, PublishedIsSignedOff, Renditions
  <2>3. QED BY <2>1, <2>2 DEF ContentOK
<1>4. MovesOK'
  BY <1>1 DEF MovesOK, HistoryExplains, OnlyOthersDisplace
<1>5. ASSUME NEW v \in Workers \ {w}
      PROVE  Shape(v)' /\ Facts(v)'
  <2>1. Shape(v) /\ Facts(v) /\ tx'[v] = tx[v] /\ Apart(v, w)
    BY <1>1 DEF RequestsOK
  <2>2. CASE tx[v].pc \notin Locking
    BY <1>1, <2>1, <2>2, ShapeKept DEF Facts, HoldsProject, Locking
  <2>3. CASE tx[v].pc \in Locking
    <3>1. tx[v] \in Request
      BY <2>3, AtWork DEF Locking
    <3>2. tx[v].notice # NoNotice => tx[v].notice \in Notices \ {n}
      BY <1>1, <2>1, <2>3, <3>1 DEF Apart, Editing, Request, n
    <3>3. tx[v].notice # NoNotice => status[tx[v].notice] = "draft" /\ Publishable(tx[v].notice)
      BY <2>1, <2>3 DEF Facts
    <3>4. tx[v].notice # NoNotice => Publishable(tx[v].notice)'
      BY <1>2, <2>1, <3>2, <3>3 DEF Publishable, Renditions
    <3>5. Facts(v)'
      BY <1>1, <2>1, <2>3, <3>3, <3>4 DEF Facts, HoldsProject
    <3>6. QED BY <2>1, <3>5, ShapeKept
  <2>4. QED BY <2>2, <2>3
<1>6. RequestsOK'
  <2>1. Shape(w)' /\ Facts(w)' /\ \A v \in Workers \ {w} : Apart(v, w)' /\ Apart(w, v)'
    BY <1>1, IdleIsQuiet DEF Apart, Idle, Editing, Locking
  <2>2. \A v \in Workers \ {w}, u \in Workers \ {w} : u # v => Apart(u, v)'
    BY <1>1 DEF RequestsOK, Apart
  <2>3. QED BY <1>5, <2>1, <2>2 DEF RequestsOK
<1>7. QED BY <1>3, <1>4, <1>6

\* What the commit of a publication or a transition finds and does
LEMMA CommitDoes ==
  ASSUME IndInv, NEW w \in Workers, Commit(w)
  PROVE  LET n == tx[w].notice IN
         /\ tx[w] \in Request /\ tx[w].pc = "ready"
         /\ tx'[w] = Idle /\ \A v \in Workers \ {w} : tx'[v] = tx[v]
         /\ \A v \in Workers \ {w} : ~HoldsProject(v)
         /\ UNCHANGED <<displaced, text, signed, attached>>
         /\ n # NoNotice => n \in Notices /\ status[n] = "draft" /\ Publishable(n)
         /\ n = NoNotice => tx[w].target # NoTarget /\ tx[w].prior = {}
         /\ \A m \in tx[w].prior : status[m] \in {"published", "superseded"}
         /\ tx[w].target # NoTarget => tx[w].item.from = project /\ current # NoNotice
         /\ n # NoNotice => status'[n] = "published"
         /\ \A m \in tx[w].prior : status'[m] = "superseded"
         /\ \A m \in Notices : m # n /\ m \notin tx[w].prior => status'[m] = status[m]
         /\ current' = IF n = NoNotice THEN current ELSE n
         /\ tx[w].target = NoTarget => project' = project /\ history' = history
         /\ tx[w].target # NoTarget =>
              /\ project' = tx[w].target
              /\ history' = Append(history, [from |-> tx[w].item.from, to |-> tx[w].target])
<1> USE DEF IndInv
<1> DEFINE n == tx[w].notice
<1>1. /\ tx[w] \in Request /\ tx[w].pc = "ready"
      /\ tx'[w] = Idle /\ \A v \in Workers \ {w} : tx'[v] = tx[v]
      /\ \A v \in Workers \ {w} : ~HoldsProject(v)
      /\ UNCHANGED <<displaced, text, signed, attached>>
  BY EndsType, AtWork DEF Commit, Finish, ProjectFree, contentVars
<1>2. /\ n # NoNotice => n \in Notices /\ status[n] = "draft" /\ Publishable(n)
      /\ n = NoNotice => tx[w].target # NoTarget /\ tx[w].prior = {}
      /\ \A m \in tx[w].prior : status[m] \in {"published", "superseded"}
      /\ tx[w].target # NoTarget => tx[w].item.from = project /\ current # NoNotice
  BY <1>1 DEF RequestsOK, Shape, Facts, HoldsProject, Locking, Request
<1>3. /\ n # NoNotice => status'[n] = "published"
      /\ \A m \in tx[w].prior : status'[m] = "superseded"
      /\ \A m \in Notices : m # n /\ m \notin tx[w].prior => status'[m] = status[m]
  <2>1. status' = [m \in Notices |-> CASE m = n -> "published"
                                        [] m \in tx[w].prior -> "superseded"
                                        [] OTHER -> status[m]]
    BY DEF Commit
  <2>2. tx[w].prior \subseteq Notices
    BY <1>1 DEF Request
  <2>3. n # NoNotice => n \notin tx[w].prior
    BY <1>2
  <2> HIDE DEF n
  <2>4. n = NoNotice => n \notin tx[w].prior
    BY <1>2
  <2>5. QED BY <1>2, <2>1, <2>2, <2>3, <2>4
<1>4. /\ current' = IF n = NoNotice THEN current ELSE n
      /\ tx[w].target = NoTarget => project' = project /\ history' = history
      /\ tx[w].target # NoTarget =>
           /\ project' = tx[w].target
           /\ history' = Append(history, [from |-> tx[w].item.from, to |-> tx[w].target])
  BY DEF Commit, NewCurrent
<1>5. QED BY <1>1, <1>2, <1>3, <1>4

\* A publication commits what it checked, and a transition leaves the status it
\* found.
LEMMA CommitKeeps ==
  ASSUME IndInv, NEW w \in Workers, Commit(w)
  PROVE  RequestsOK' /\ ContentOK' /\ MovesOK'
<1> USE DEF IndInv
<1> DEFINE n == tx[w].notice
<1>1. /\ tx[w] \in Request /\ tx[w].pc = "ready"
      /\ tx'[w] = Idle /\ \A v \in Workers \ {w} : tx'[v] = tx[v]
      /\ \A v \in Workers \ {w} : ~HoldsProject(v)
      /\ UNCHANGED <<displaced, text, signed, attached>>
  BY CommitDoes
<1>2. /\ n # NoNotice => n \in Notices /\ status[n] = "draft" /\ Publishable(n)
      /\ n = NoNotice => tx[w].target # NoTarget /\ tx[w].prior = {}
      /\ \A m \in tx[w].prior : status[m] \in {"published", "superseded"}
      /\ tx[w].target # NoTarget => tx[w].item.from = project /\ current # NoNotice
  BY CommitDoes
<1>3. /\ n # NoNotice => status'[n] = "published"
      /\ \A m \in tx[w].prior : status'[m] = "superseded"
      /\ \A m \in Notices : m # n /\ m \notin tx[w].prior => status'[m] = status[m]
  BY CommitDoes
<1>4. /\ current' = IF n = NoNotice THEN current ELSE n
      /\ tx[w].target = NoTarget => project' = project /\ history' = history
      /\ tx[w].target # NoTarget =>
           /\ project' = tx[w].target
           /\ history' = Append(history, [from |-> tx[w].item.from, to |-> tx[w].target])
  BY CommitDoes
<1>5. tx[w].prior \subseteq Notices
  BY <1>1 DEF Request
<1> HIDE DEF n
<1>6. \A m \in Notices : /\ status[m] = "draft" => status'[m] = "draft" \/ m = n
                         /\ status[m] \in {"published", "superseded"}
                              => status'[m] \in {"published", "superseded"}
  BY <1>2, <1>3, LifecycleAssumption
<1>7. ContentOK'
  <2>1. SignedOK'
    BY <1>1 DEF ContentOK, SignedOK
  <2>2. ASSUME NEW m \in Notices, status'[m] \in {"published", "superseded"}
        PROVE  /\ attached'[m] # {} /\ Renditions(m)' # {}
               /\ \A l \in Renditions(m)' : signed'[m][l] = text'[m][l]
    <3>1. CASE status[m] \in {"published", "superseded"}
      BY <1>1, <3>1 DEF ContentOK, PublishedIsSignedOff, Renditions
    <3>2. CASE status[m] \notin {"published", "superseded"}
      <4>1. m = n /\ Publishable(n)
        BY <1>2, <1>3, <2>2, <3>2, LifecycleAssumption
      <4>2. QED BY <1>1, <4>1 DEF Publishable, Renditions, ContentOK, SignedOK
    <3>3. QED BY <3>1, <3>2
  <2>3. QED BY <2>1, <2>2 DEF ContentOK, PublishedIsSignedOff
<1>8. MovesOK'
  <2>1. OnlyOthersDisplace'
    <3>1. CASE n = NoNotice
      <4>1. current' = current /\ current # NoNotice /\ tx[w].prior = {}
        BY <1>2, <1>4, <3>1
      <4>2. status'[current] = status[current]
        BY <1>3, <3>1, <4>1 DEF TypeOK
      <4>3. QED BY <1>1, <4>1, <4>2 DEF MovesOK, OnlyOthersDisplace
    <3>2. CASE n # NoNotice
      BY <1>3, <1>4, <3>2 DEF OnlyOthersDisplace
    <3>3. QED BY <3>1, <3>2
  <2>2. HistoryExplains' /\ history' # <<>>
    <3>1. CASE tx[w].target = NoTarget
      BY <1>4, <3>1 DEF MovesOK, HistoryExplains
    <3>2. CASE tx[w].target # NoTarget
      <4> DEFINE move == [from |-> tx[w].item.from, to |-> tx[w].target]
      <4>1. move.from = project /\ move.to = project'
        BY <1>2, <1>4, <3>2
      <4>2. history' = Append(history, move)
        BY <1>4, <3>2
      <4> HIDE DEF move
      <4>3. history \in Seq(Move) /\ history # <<>>
        BY DEF MovesOK, TypeOK
      <4>4. /\ Len(history) \in Nat \ {0} /\ Len(history') = Len(history) + 1
            /\ history'[Len(history) + 1] = move
            /\ \A i \in 1..Len(history) : history'[i] = history[i]
        BY <4>2, <4>3
      <4>5. project = history[Len(history)].to
        BY DEF MovesOK, HistoryExplains
      <4>6. ASSUME NEW i \in 2..Len(history')
            PROVE  history'[i].from = history'[i - 1].to
        <5>1. CASE i = Len(history) + 1
          BY <4>1, <4>4, <4>5, <5>1
        <5>2. CASE i # Len(history) + 1
          <6>1. i \in 2..Len(history) /\ i \in 1..Len(history) /\ i - 1 \in 1..Len(history)
            BY <4>4, <5>2
          <6>2. QED BY <4>4, <6>1 DEF MovesOK, HistoryExplains
        <5>3. QED BY <5>1, <5>2
      <4>7. project' = history'[Len(history')].to
        BY <4>1, <4>4
      <4>8. history' # <<>>
        BY <4>4
      <4>9. QED BY <4>6, <4>7, <4>8 DEF HistoryExplains
    <3>3. QED BY <3>1, <3>2
  <2>3. QED BY <2>1, <2>2 DEF MovesOK
<1>9. ASSUME NEW v \in Workers \ {w}
      PROVE  Shape(v)' /\ Facts(v)'
  <2>1. Shape(v) /\ Facts(v) /\ tx'[v] = tx[v] /\ Apart(v, w) /\ ~HoldsProject(v)
    BY <1>1 DEF RequestsOK
  <2>2. CASE tx[v].pc \notin Editing \cup Locking
    BY <1>1, <2>1, <2>2, ShapeKept DEF Facts, HoldsProject, Editing, Locking
  <2>3. CASE tx[v].pc \in Editing \cup Locking
    <3>1. tx[v] \in Request
      BY <2>3, AtWork DEF Editing, Locking
    <3>2. tx[v].notice # NoNotice => tx[v].notice \in Notices /\ tx[v].notice # n
      BY <1>1, <2>1, <2>3, <3>1 DEF Apart, Locking, Request, n
    <3>3. tx[v].pc \in Editing => tx[v].notice # NoNotice
      BY <2>1, LifecycleAssumption DEF Shape
    <3>4. \A m \in Notices : Publishable(m) => Publishable(m)'
      BY <1>1 DEF Publishable, Renditions
    <3>5. /\ tx[v].pc \in Editing => status'[tx[v].notice] = "draft"
          /\ tx[v].pc \in Locking /\ tx[v].notice # NoNotice =>
               status'[tx[v].notice] = "draft" /\ Publishable(tx[v].notice)'
      BY <1>6, <2>1, <3>2, <3>3, <3>4 DEF Facts
    <3>6. tx[v].pc \in {"listed", "ready"} =>
            \A m \in tx[v].prior : status'[m] \in {"published", "superseded"}
      BY <1>6, <2>1, <3>1 DEF Facts, Request
    <3>7. Facts(v)'
      BY <2>1, <3>5, <3>6 DEF Facts, HoldsProject
    <3>8. QED BY <2>1, <3>7, ShapeKept
  <2>4. QED BY <2>2, <2>3
<1>10. RequestsOK'
  <2>1. Shape(w)' /\ Facts(w)' /\ \A v \in Workers \ {w} : Apart(v, w)' /\ Apart(w, v)'
    BY <1>1, IdleIsQuiet DEF Apart, Idle, Editing, Locking
  <2>2. \A v \in Workers \ {w}, u \in Workers \ {w} : u # v => Apart(u, v)'
    BY <1>1 DEF RequestsOK, Apart
  <2>3. QED BY <1>9, <2>1, <2>2 DEF RequestsOK
<1>11. QED BY <1>7, <1>8, <1>10

\* A publication in another project takes nothing from a request, and shows for what it
\* is.
LEMMA ElsewhereKeeps ==
  ASSUME IndInv, NEW c \in Codes, PublishElsewhere(c)
  PROVE  RequestsOK' /\ ContentOK' /\ MovesOK'
<1> USE DEF IndInv
<1>1. /\ UNCHANGED <<project, current, history, text, signed, attached, tx>>
      /\ displaced \subseteq displaced'
      /\ \A n \in Notices : \/ status'[n] = status[n]
                            \/ /\ status[n] = "published" /\ status'[n] = "superseded"
                               /\ n \in displaced'
  BY ElsewhereDoes DEF Published
<1>2. ContentOK'
  BY <1>1 DEF ContentOK, SignedOK, PublishedIsSignedOff, Renditions
<1>3. MovesOK'
  BY <1>1 DEF MovesOK, HistoryExplains, OnlyOthersDisplace, TypeOK
<1>4. ASSUME NEW v \in Workers
      PROVE  Shape(v)' /\ Facts(v)'
  <2>1. Shape(v) /\ Facts(v) /\ tx'[v] = tx[v]
    BY <1>1 DEF RequestsOK
  <2>2. CASE tx[v].pc = "idle"
    BY <1>1, <2>1, <2>2, ShapeKept DEF Facts, HoldsProject, Editing, Locking
  <2>3. CASE tx[v].pc # "idle"
    <3>1. tx[v] \in Request
      BY <2>3, AtWork
    <3>2. \A m \in Notices :
            /\ status[m] = "draft" => status'[m] = "draft"
            /\ status[m] \in {"published", "superseded"}
                 => status'[m] \in {"published", "superseded"}
      BY <1>1
    <3>3. \A m \in Notices : Publishable(m) => Publishable(m)'
      BY <1>1 DEF Publishable, Renditions
    <3>4. tx[v].pc \in Editing => tx[v].notice \in Notices
      BY <2>1 DEF Shape
    <3>5. Facts(v)'
      BY <1>1, <2>1, <3>1, <3>2, <3>3, <3>4 DEF Facts, HoldsProject, Request
    <3>6. QED BY <2>1, <3>5, ShapeKept
  <2>4. QED BY <2>2, <2>3
<1>5. RequestsOK'
  BY <1>1, <1>4 DEF RequestsOK, Apart
<1>6. QED BY <1>2, <1>3, <1>5

LEMMA NextIndInv ==
  ASSUME IndInv, [Next]_vars
  PROVE  IndInv'
<1>1. TypeOK'
  BY NextTypeOK DEF IndInv, RequestsOK, ShapesOK
<1>2. CASE UNCHANGED vars
  <2>1. UNCHANGED <<project, current, history, status, displaced, text, signed, attached, tx>>
    BY <1>2 DEF vars
  <2>2. ContentOK' /\ MovesOK'
    BY <2>1, DataKept DEF IndInv
  <2>3. RequestsOK'
    BY <2>1 DEF IndInv, RequestsOK, Shape, Facts, Apart, HoldsProject, Publishable, Renditions
  <2>4. QED BY <1>1, <2>2, <2>3 DEF IndInv
<1>3. CASE Next
  BY <1>1, <1>3, CreateKeeps, ApproveKeeps, ElsewhereKeeps, DraftingKeeps, EditKeeps, PublishingKeeps,
     CommitKeeps, MovingKeeps
  DEF Next, IndInv
<1>4. QED BY <1>2, <1>3

-----------------------------------------------------------------------------
(* Theorems                                                                *)

\* The strengthened invariant holds in every reachable state.
THEOREM Invariance == Spec => []IndInv
<1>1. Init => IndInv
  BY InitIndInv
<1>2. IndInv /\ [Next]_vars => IndInv'
  BY NextIndInv
<1>3. QED BY <1>1, <1>2, PTL DEF Spec

\* Statuses, versions, texts and requests keep their shape.
THEOREM TypeCorrect == Spec => []TypeOK
<1>1. IndInv => TypeOK
  BY DEF IndInv
<1>2. QED BY <1>1, Invariance, PTL

\* A project's history explains its state, however many transitions are attempted
\* at once: transition() holds the project's row from the status it reads on.
THEOREM HistoryIsAChain == Spec => []HistoryExplains
<1>1. IndInv => HistoryExplains
  BY DEF IndInv, MovesOK
<1>2. QED BY <1>1, Invariance, PTL

\* Every rendition people were shown has been approved as it stands, against edits
\* and approvals that race the publication.
THEOREM PublishedWasApproved == Spec => []PublishedIsSignedOff
<1>1. IndInv => PublishedIsSignedOff
  BY DEF IndInv, ContentOK
<1>2. QED BY <1>1, Invariance, PTL

\* A project out of draft has a current notice, a published one unless another project's
\* publication of the same code has superseded it: publish() makes what it publishes the
\* current notice in the transaction in which it supersedes the one before.
THEOREM CurrentNoticeIsPublished == Spec => []OnlyOthersDisplace
<1>1. IndInv => OnlyOthersDisplace
  BY DEF IndInv, MovesOK
<1>2. QED BY <1>1, Invariance, PTL

\* What one step may do to a notice that has been published
LEMMA StepLeavesPublished ==
  ASSUME IndInv, [Next]_vars, NEW n \in Notices, status[n] \in {"published", "superseded"}
  PROVE  /\ text'[n] = text[n] /\ attached'[n] = attached[n]
         /\ status'[n] \in {status[n], "superseded"}
<1> USE DEF IndInv, projectVars, noticeVars, contentVars
<1>1. CASE \E w \in Workers : EditCommit(w)
  <2>1. PICK w \in Workers : EditCommit(w)
    BY <1>1
  <2>2. tx[w].notice \in Notices /\ tx[w].notice # n
    BY <2>1 DEF EditCommit, Finish, RequestsOK, Shape, Facts, Editing
  <2>3. ShapesOK
    BY DEF RequestsOK, ShapesOK
  <2>4. \/ \E f : text' = [text EXCEPT ![tx[w].notice] = f] /\ attached' = attached
        \/ \E g : text' = text /\ attached' = [attached EXCEPT ![tx[w].notice] = g]
    BY <2>1, <2>2, <2>3, EditCommits
  <2>5. text'[n] = text[n] /\ attached'[n] = attached[n]
    BY <2>2, <2>4 DEF TypeOK
  <2>6. QED BY <2>1, <2>5 DEF EditCommit
<1>2. CASE \E w \in Workers : Commit(w)
  <2>1. PICK w \in Workers : Commit(w)
    BY <1>2
  <2>2. tx[w].notice # n
    BY <2>1, LifecycleAssumption DEF Commit, RequestsOK, Facts, Locking
  <2>3. QED BY <2>1, <2>2 DEF Commit
<1>3. CASE \E m \in Notices, c \in Codes : Create(m, c)
  BY <1>3 DEF Create, TypeOK
<1>4. CASE UNCHANGED <<status, text, attached>>
  BY <1>4
<1>5. CASE \E c \in Codes : PublishElsewhere(c)
  BY <1>5, ElsewhereDoes
<1>6. QED
  BY <1>1, <1>2, <1>3, <1>4, <1>5
  DEF Next, vars, ApproveLanguage, Drafting, RequireDraft, Write, Publishing, Publish,
      Check, ListVersions, Supersede, Moving, Transition, AddApproval, AddApprovalCommit,
      Abort

\* A published notice keeps its text and purposes for good, also against an edit
\* that began before its publication: the edit and the publication lock its row.
THEOREM PublishedStaysFrozen == Spec => FrozenOncePublished
<1>1. IndInv /\ [Next]_vars
        => [\A n \in Notices : status[n] \in {"published", "superseded"} =>
              /\ text'[n] = text[n]
              /\ attached'[n] = attached[n]
              /\ status'[n] \in {status[n], "superseded"}]_vars
  BY StepLeavesPublished
<1>2. QED BY <1>1, Invariance, PTL DEF Spec, FrozenOncePublished

-----------------------------------------------------------------------------
(* Requests implement NoticePromise                                        *)

\* The move a transition is about to commit is one the machine has, and what it asks of
\* the proof is there.
MoveOK(w) ==
  HoldsProject(w) =>
    /\ <<tx[w].item.from, tx[w].target>> \in Promise!Edges
    /\ tx[w].target = "pending_approval" => proof
    /\ tx[w].notice # NoNotice => tx[w].target = "under_process"

MovesAllowed == \A w \in Workers : MoveOK(w)

LEMMA TransitionIsAllowed ==
  ASSUME TypeOK, NEW w \in Workers, NEW target \in Statuses, Transition(w, target)
  PROVE  MoveOK(w)'
<1>1. /\ tx'[w].target = target /\ tx'[w].item = [kind |-> "move", from |-> project]
      /\ tx'[w].pc = "publishing" \/ tx'[w].notice = NoNotice
  BY TransitionOpens
<1>2. proof' = proof /\ Permitted(project, target)
  BY DEF Transition, projectVars
<1>3. <<project, target>> \in Promise!Edges /\ (target = "pending_approval" => proof)
  BY <1>2 DEF Permitted, Promise!Edges
<1>4. tx'[w].notice # NoNotice => target = "under_process"
  <2>1. CASE target = "under_process"
    BY <2>1
  <2>2. CASE target # "under_process"
    <3>1. Begin(w, Open("ready", NoNotice, target, [kind |-> "move", from |-> project]))
      BY <2>2 DEF Transition
    <3>2. tx'[w].notice = NoNotice
      BY <3>1 DEF TypeOK, Begin, Open
    <3>3. QED BY <3>2
  <2>3. QED BY <2>1, <2>2
<1>5. QED BY <1>1, <1>2, <1>3, <1>4 DEF MoveOK

LEMMA NextKeepsMoves ==
  ASSUME IndInv, MovesAllowed, [Next]_vars
  PROVE  MovesAllowed'
<1>1. TypeOK /\ tx \in [Workers -> Request \cup {Idle}]
  BY DEF IndInv, TypeOK
<1>2. proof => proof'
  BY DEF Next, vars, Create, ApproveLanguage, PublishElsewhere, Drafting, RequireDraft, Write, EditCommit,
         Publishing, Publish, Check, ListVersions, Supersede, Commit, Moving, Transition,
         AddApproval, AddApprovalCommit, Abort, projectVars
<1>3. ASSUME NEW v \in Workers, tx'[v] = tx[v]
      PROVE  MoveOK(v)'
  BY <1>2, <1>3 DEF MovesAllowed, MoveOK, HoldsProject
<1>4. ASSUME NEW w \in Workers, Drafting(w) \/ Publishing(w) \/ Moving(w) \/ Abort(w)
      PROVE  MovesAllowed'
  <2>1. \A v \in Workers \ {w} : tx'[v] = tx[v]
    BY <1>1, <1>4 DEF Drafting, RequireDraft, Write, EditCommit, Publishing, Publish, Check,
         ListVersions, Supersede, Commit, Moving, Transition, AddApproval, AddApprovalCommit,
         Abort, Begin, Step, Finish
  <2>2. MoveOK(w)'
    <3>1. CASE \E n \in Notices, item \in Edits : RequireDraft(w, n, item)
      BY <1>1, <3>1 DEF RequireDraft, Begin, Open, MoveOK, HoldsProject
    <3>2. CASE Write(w)
      BY <1>1, <3>2 DEF Write, Step, MoveOK, HoldsProject
    <3>3. CASE EditCommit(w) \/ Commit(w) \/ AddApprovalCommit(w) \/ Abort(w)
      <4>1. tx'[w] = Idle
        BY <1>1, <3>3 DEF EditCommit, Commit, AddApprovalCommit, Abort, Finish
      <4>2. QED BY <4>1 DEF MoveOK, HoldsProject, Idle
    <3>4. CASE \E n \in Notices : Publish(w, n)
      BY <1>1, <3>4 DEF Publish, Begin, Open, MoveOK, HoldsProject
    <3>5. CASE Check(w) \/ Supersede(w)
      <4>1. /\ tx[w].pc \in {"publishing", "listed"}
            /\ tx'[w].notice = tx[w].notice /\ tx'[w].target = tx[w].target
            /\ tx'[w].item = tx[w].item
        BY <1>1, <3>5, StepsType DEF Check, Supersede, Stages
      <4>2. QED BY <1>2, <4>1 DEF MovesAllowed, MoveOK, HoldsProject
    <3>6. CASE ListVersions(w)
      <4>1. /\ tx[w].pc = "checked"
            /\ tx'[w].notice = tx[w].notice /\ tx'[w].target = tx[w].target
            /\ tx'[w].item = tx[w].item
        BY <1>1, <3>6, ListsType
      <4>2. QED BY <1>2, <4>1 DEF MovesAllowed, MoveOK, HoldsProject
    <3>7. CASE \E target \in Statuses : Transition(w, target)
      BY <1>1, <3>7, TransitionIsAllowed
    <3>8. CASE AddApproval(w)
      BY <1>1, <3>8 DEF AddApproval, Begin, Open, MoveOK, HoldsProject
    <3>9. QED
      BY <1>4, <3>1, <3>2, <3>3, <3>4, <3>5, <3>6, <3>7, <3>8
      DEF Drafting, Publishing, Moving, Edits
  <2>3. QED BY <1>3, <2>1, <2>2 DEF MovesAllowed
<1>5. CASE tx' = tx
  BY <1>3, <1>5 DEF MovesAllowed
<1>6. QED BY <1>4, <1>5 DEF Next, Create, ApproveLanguage, PublishElsewhere, vars

\* The languages a notice is approved in
Approvals == [n \in Notices |-> {l \in Languages : signed[n][l] # NoText}]

LEMMA ApprovalsMove ==
  ASSUME NEW n \in Notices, NEW ls,
         ls = {l \in Languages : signed'[n][l] # NoText},
         \A m \in Notices \ {n} : signed'[m] = signed[m]
  PROVE  Approvals' = [Approvals EXCEPT ![n] = ls]
<1>1. \A m \in Notices : Approvals'[m] = IF m = n THEN ls ELSE Approvals[m]
  BY DEF Approvals
<1>2. Approvals' = [m \in Notices |-> Approvals'[m]]
  BY DEF Approvals
<1>3. [Approvals EXCEPT ![n] = ls] = [m \in Notices |-> IF m = n THEN ls ELSE Approvals[m]]
  BY DEF Approvals
<1> HIDE DEF Approvals
<1>4. QED BY <1>1, <1>2, <1>3

\* A commit is a move, or a publication with or without one.
LEMMA CommitIsPromised ==
  ASSUME IndInv, MovesAllowed, NEW w \in Workers, Commit(w)
  PROVE  Promise!Next
<1>1. /\ tx[w] \in Request /\ tx[w].pc = "ready" /\ TypeOK
      /\ UNCHANGED <<proof, displaced, text, attached>> /\ Approvals' = Approvals
  BY CommitDoes DEF IndInv, Commit, contentVars, Approvals
<1>2. /\ tx[w].target = NoTarget => project' = project
      /\ tx[w].target # NoTarget =>
           /\ project' = tx[w].target /\ <<project, project'>> \in Promise!Edges
           /\ project' = "pending_approval" => proof
           /\ tx[w].notice # NoNotice => project' = "under_process"
  <2>1. HoldsProject(w) => /\ <<tx[w].item.from, tx[w].target>> \in Promise!Edges
                           /\ tx[w].target = "pending_approval" => proof
                           /\ tx[w].notice # NoNotice => tx[w].target = "under_process"
    BY DEF MovesAllowed, MoveOK
  <2>2. /\ tx[w].target = NoTarget => project' = project
        /\ tx[w].target # NoTarget => tx[w].item.from = project /\ project' = tx[w].target
    BY CommitDoes
  <2>3. tx[w].target # NoTarget => HoldsProject(w)
    BY <1>1 DEF HoldsProject
  <2>4. QED BY <2>1, <2>2, <2>3
<1>3. CASE tx[w].notice = NoNotice
  <2>1. /\ current' = current /\ current # NoNotice /\ tx[w].prior = {}
        /\ project' = tx[w].target /\ <<project, project'>> \in Promise!Edges
        /\ project' = "pending_approval" => proof
    BY <1>2, <1>3, CommitDoes
  <2>2. Promise!Covered
    BY <1>1, <2>1 DEF IndInv, MovesOK, OnlyOthersDisplace, Promise!Covered
  <2>3. \A m \in Notices : status'[m] = status[m]
    BY <1>3, <2>1, CommitDoes, LifecycleAssumption
  <2>4. status' = status
    BY <1>1, <2>3 DEF Commit, TypeOK
  <2>5. PICK edge \in Promise!Edges : edge = <<project, project'>>
    BY <2>1
  <2>6. Promise!Move(edge[2])
    BY <1>1, <2>1, <2>2, <2>4, <2>5
       DEF Promise!Move, Promise!Moves, Promise!contentVars, Approvals
  <2>7. QED BY <2>6 DEF Promise!Next
<1>4. CASE tx[w].notice # NoNotice
  <2>1. PICK n \in Notices, old \in SUBSET Notices : n = tx[w].notice /\ old = tx[w].prior
    BY <1>1, <1>4 DEF Request
  <2>2. /\ status[n] = "draft" /\ Publishable(n) /\ current' = n
        /\ \A m \in old : status[m] \in {"published", "superseded"}
        /\ status'[n] = "published" /\ \A m \in old : status'[m] = "superseded"
        /\ \A m \in Notices : m # n /\ m \notin old => status'[m] = status[m]
    BY <1>4, <2>1, CommitDoes
  <2>3. Promise!Complete(n)
    <3>1. Promise!Rendered(n) = Renditions(n)
      BY DEF Renditions, Promise!Rendered
    <3>2. /\ attached[n] # {} /\ Renditions(n) # {}
          /\ \A l \in Renditions(n) : l \in Languages /\ signed[n][l] # NoText
      BY <2>2 DEF Publishable, Renditions
    <3>3. Renditions(n) \subseteq Approvals[n]
      BY <3>2 DEF Approvals
    <3>4. QED BY <3>1, <3>2, <3>3 DEF Promise!Complete
  <2>4. status' = [m \in Notices |-> IF m = n THEN "published"
                                     ELSE IF m \in old THEN "superseded" ELSE status[m]]
    <3>1. status' = [m \in Notices |-> status'[m]]
      BY DEF Commit
    <3>2. QED BY <2>2, <3>1
  <2>5. project' = project \/ Promise!Moves("under_process")
    BY <1>2, <1>4 DEF Promise!Moves
  <2>6. Promise!Publish(n, old)
    BY <1>1, <2>2, <2>3, <2>4, <2>5 DEF Promise!Publish, Promise!contentVars, Approvals
  <2>7. QED BY <2>6 DEF Promise!Next
<1>5. QED BY <1>3, <1>4

LEMMA EditIsPromised ==
  ASSUME IndInv, NEW w \in Workers, EditCommit(w)
  PROVE  Promise!Next
<1>1. /\ TypeOK /\ ShapesOK
      /\ tx[w].notice \in Notices /\ status[tx[w].notice] = "draft"
      /\ UNCHANGED <<project, current, proof, status, displaced>>
  BY DEF IndInv, RequestsOK, ShapesOK, Shape, Facts, Editing, EditCommit, Finish,
         projectVars, noticeVars
<1>2. PICK n \in Notices : n = tx[w].notice
  BY <1>1
<1>3. CASE \E l \in Languages, t \in Texts :
             /\ text' = [text EXCEPT ![n] = [text[n] EXCEPT ![l] = t]]
             /\ signed' = [signed EXCEPT ![n] = [signed[n] EXCEPT ![l] = NoText]]
             /\ attached' = attached
  <2>1. PICK l \in Languages, t \in Texts :
             /\ text' = [text EXCEPT ![n] = [text[n] EXCEPT ![l] = t]]
             /\ signed' = [signed EXCEPT ![n] = [signed[n] EXCEPT ![l] = NoText]]
             /\ attached' = attached
    BY <1>3
  <2>2. PICK f \in [Languages -> Texts \cup {NoText}] : f = [text[n] EXCEPT ![l] = t]
    BY <1>1 DEF TypeOK
  <2>3. PICK ls \in SUBSET Languages : ls = Approvals[n] \ {l}
    BY DEF Approvals
  <2>4. /\ signed'[n][l] = NoText
        /\ \A k \in Languages \ {l} : signed'[n][k] = signed[n][k]
        /\ \A m \in Notices \ {n} : signed'[m] = signed[m]
    BY <1>1, <2>1 DEF TypeOK
  <2>5. Approvals' = [Approvals EXCEPT ![n] = ls]
    <3>1. ls = {k \in Languages : signed'[n][k] # NoText}
      BY <2>3, <2>4 DEF Approvals
    <3>2. QED BY <2>4, <3>1, ApprovalsMove
  <2>6. ls \in SUBSET {k \in Approvals[n] : f[k] = text[n][k]}
    BY <1>1, <2>2, <2>3 DEF TypeOK, Approvals
  <2>7. text' = [text EXCEPT ![n] = f]
    BY <2>1, <2>2
  <2>8. attached[n] \in SUBSET Purposes /\ attached' = [attached EXCEPT ![n] = attached[n]]
    BY <1>1, <2>1 DEF TypeOK
  <2>9. Promise!Edit(n)
    BY <1>1, <1>2, <2>5, <2>6, <2>7, <2>8 DEF Promise!Edit, Approvals
  <2>10. QED BY <2>9 DEF Promise!Next
<1>4. CASE /\ text' = text /\ signed' = signed
           /\ \E ps \in SUBSET Purposes : attached' = [attached EXCEPT ![n] = ps]
  <2>1. PICK f \in [Languages -> Texts \cup {NoText}] : f = text[n]
    BY <1>1 DEF TypeOK
  <2>2. text' = [text EXCEPT ![n] = f]
    BY <1>1, <1>4, <2>1 DEF TypeOK
  <2>3. PICK ls \in SUBSET Languages : ls = Approvals[n]
    BY DEF Approvals
  <2>4. /\ Approvals' = [Approvals EXCEPT ![n] = ls]
        /\ ls \in SUBSET {k \in Approvals[n] : f[k] = text[n][k]}
    <3>1. ls = {k \in Languages : signed'[n][k] # NoText}
      BY <1>4, <2>3 DEF Approvals
    <3>2. Approvals' = [Approvals EXCEPT ![n] = ls]
      BY <1>4, <3>1, ApprovalsMove
    <3>3. QED BY <2>1, <2>3, <3>2
  <2>5. Promise!Edit(n)
    BY <1>1, <1>2, <1>4, <2>2, <2>4 DEF Promise!Edit, Approvals
  <2>6. QED BY <2>5 DEF Promise!Next
<1>5. QED BY <1>1, <1>2, <1>3, <1>4, EditCommits

LEMMA CreationIsDrafting ==
  ASSUME TypeOK, NEW n \in Notices, NEW c \in Codes, Create(n, c)
  PROVE  Promise!Next
<1>1. Promise!Draft(n)
  BY DEF Create, Promise!Draft, Promise!contentVars, projectVars, contentVars
<1>2. QED BY <1>1 DEF Promise!Next

LEMMA ApprovalIsPromised ==
  ASSUME TypeOK, NEW n \in Notices, NEW l \in Languages, ApproveLanguage(n, l)
  PROVE  Promise!Next
<1>1. /\ text[n][l] # NoText /\ UNCHANGED <<project, current, proof, status, displaced, text, attached>>
      /\ signed' = [signed EXCEPT ![n] = [signed[n] EXCEPT ![l] = text[n][l]]]
  BY DEF ApproveLanguage, projectVars, noticeVars
<1>2. /\ signed'[n][l] = text[n][l]
      /\ \A k \in Languages \ {l} : signed'[n][k] = signed[n][k]
      /\ \A m \in Notices \ {n} : signed'[m] = signed[m]
  BY <1>1 DEF TypeOK
<1>3. PICK ls \in SUBSET Languages : ls = Approvals[n] \cup {l}
  BY DEF Approvals
<1>4. Approvals' = [Approvals EXCEPT ![n] = ls]
  <2>1. ls = {k \in Languages : signed'[n][k] # NoText}
    BY <1>1, <1>2, <1>3 DEF Approvals
  <2>2. QED BY <1>2, <2>1, ApprovalsMove
<1>5. Promise!Approve(n, l)
  BY <1>1, <1>3, <1>4 DEF Promise!Approve, Promise!Rendered, Approvals
<1>6. QED BY <1>5 DEF Promise!Next

LEMMA ProofIsPromised ==
  ASSUME NEW w \in Workers, AddApprovalCommit(w)
  PROVE  Promise!Next
<1>1. Promise!Prove
  BY DEF AddApprovalCommit, Promise!Prove, Promise!contentVars, noticeVars, contentVars
<1>2. QED BY <1>1 DEF Promise!Next

LEMMA DisplacementIsPromised ==
  ASSUME NEW c \in Codes, PublishElsewhere(c)
  PROVE  Promise!Next
<1>1. PICK old \in SUBSET Published :
        /\ status' = [n \in Notices |-> IF n \in old THEN "superseded" ELSE status[n]]
        /\ displaced' = displaced \cup old
  BY ElsewhereDoes
<1>2. UNCHANGED <<project, current, proof, text, attached, signed>>
  BY ElsewhereDoes
<1>3. old \in SUBSET Notices /\ \A m \in old : status[m] = "published"
  BY <1>1 DEF Published
<1>4. Promise!Displace(old)
  BY <1>1, <1>2, <1>3 DEF Promise!Displace, Promise!contentVars
<1>5. QED BY <1>3, <1>4 DEF Promise!Next

LEMMA StepIsPromised ==
  ASSUME IndInv, MovesAllowed, [Next]_vars
  PROVE  [Promise!Next]_(Promise!promiseVars)
<1>1. TypeOK
  BY DEF IndInv
<1>2. CASE \E w \in Workers : Commit(w) \/ EditCommit(w) \/ AddApprovalCommit(w)
  BY <1>2, CommitIsPromised, EditIsPromised, ProofIsPromised
<1>3. CASE \/ \E n \in Notices, c \in Codes : Create(n, c)
           \/ \E n \in Notices, l \in Languages : ApproveLanguage(n, l)
  BY <1>1, <1>3, CreationIsDrafting, ApprovalIsPromised
<1>4. CASE \E c \in Codes : PublishElsewhere(c)
  BY <1>4, DisplacementIsPromised
<1>5. CASE UNCHANGED <<project, current, proof, status, displaced, text, attached, signed>>
  BY <1>5 DEF Promise!promiseVars, Promise!contentVars
<1>6. QED
  BY <1>2, <1>3, <1>4, <1>5
  DEF Next, vars, Drafting, RequireDraft, Write, Publishing, Publish, Check, ListVersions,
      Supersede, Moving, Transition, AddApproval, Abort, projectVars, noticeVars, contentVars

LEMMA InitIsPromised == Init => Promise!Init /\ MovesAllowed
<1> SUFFICES ASSUME Init PROVE Promise!Init /\ MovesAllowed
  OBVIOUS
<1>1. MovesAllowed
  BY DEF Init, MovesAllowed, MoveOK, HoldsProject, Idle
<1>2. Approvals = [n \in Notices |-> {}]
  BY DEF Init, Approvals
<1>3. QED BY <1>1, <1>2 DEF Init, Promise!Init, Approvals

\* Drafting, approving, publishing and moving implement NoticePromise: whatever the requests
\* interleave, a publication is one stroke over a complete and approved draft, a transition
\* is along the table and under a published notice, both as of their commit (publish,
\* transition, set_language, approve_language, add_approval).
THEOREM NoticesKeepPromise == Spec => KeepsPromise
<1>1. IndInv /\ [Next]_vars => IndInv'
  BY NextIndInv
<1>2. IndInv /\ MovesAllowed /\ [Next]_vars => MovesAllowed'
  BY NextKeepsMoves
<1>3. IndInv /\ MovesAllowed /\ [Next]_vars => [Promise!Next]_(Promise!promiseVars)
  BY StepIsPromised
<1>4. QED
  BY <1>1, <1>2, <1>3, InitIndInv, InitIsPromised, PTL DEF Spec, KeepsPromise, Promise!Spec
=============================================================================
