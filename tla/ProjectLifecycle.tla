-------------------------- MODULE ProjectLifecycle --------------------------
(***************************************************************************)
(* A project and its notices: drafting and approving the text, publishing  *)
(* it (which supersedes the published version of the same code), uploading *)
(* the approval proof, and the transitions between the project's states.   *)
(*                                                                         *)
(* Requests are READ COMMITTED transactions.  An edit of a notice and its  *)
(* publication lock the notice's row (FOR UPDATE) before they look at it;  *)
(* a transition locks the project's row.  Publishing is a request of its   *)
(* own, or part of the transition to under_process.  A request writes at   *)
(* its commit; what it locked stays locked until then.  Who may attempt a  *)
(* transition depends on the caller's role alone and is left out, as are   *)
(* the four contact fields of a notice, taken to be filled in.             *)
(*                                                                         *)
(* A notice code belongs to no project: another project may draft notices  *)
(* of the same code, which take versions of it, and their publication      *)
(* supersedes the published versions of this project too.  The other       *)
(* projects appear by these two effects alone.                             *)
(***************************************************************************)
EXTENDS Naturals, Sequences, FiniteSets, FiniteSetsExt

CONSTANTS
  Workers,      \* request handlers, each with at most one open transaction
  Notices,      \* notice rows that may be created
  Codes,        \* notice codes
  Languages,
  Purposes,
  Texts,        \* texts a rendition may be given
  MaxVersion,   \* bound: versions of a code
  MaxMoves      \* bound: rows of project_status_history

VARIABLES
  project,      \* project.project_status
  current,      \* project.current_notice_id
  history,      \* project_status_history
  proof,        \* whether project_approval holds a row; each has its proof file
  status,       \* notice.status, "none" before the row exists
  code,         \* notice.notice_code
  version,      \* notice.version
  displaced,    \* (history) notices superseded by another project's publication
  text,         \* rendered_text of each rendition, NoText if there is none
  signed,       \* the text that approved_at stands for, NoText if it is NULL
  attached,     \* notice_purpose
  tx            \* each worker's open request and its local variables

vars == <<project, current, history, proof, status, code, version, displaced, text,
          signed, attached, tx>>

projectVars == <<project, current, history, proof>>
noticeVars == <<status, code, version, displaced>>
contentVars == <<text, signed, attached>>

NoNotice == "no notice"
NoCode == "no code"
NoText == "no text"
Statuses == {"in_draft", "under_process", "pending_approval", "approved", "closed"}
NoTarget == "none"

ASSUME LifecycleAssumption ==
  /\ MaxMoves \in Nat \ {0} /\ MaxVersion \in Nat
  /\ NoNotice \notin Notices /\ NoText \notin Texts

Move == [from : Statuses \cup {NoTarget}, to : Statuses]

\* What a request carries: the edit to make, or the status its transition found
Items ==
  [kind : {"render"}, language : Languages, text : Texts]
    \cup [kind : {"attach", "detach"}, purpose : Purposes]
    \cup [kind : {"move"}, from : Statuses]
NoItem == [kind |-> "none"]

Stages ==
  {"editing", "written", "publishing", "checked", "listed", "ready", "approving"}

\* target is set in a transition; prior is what a publication found to supersede
Request ==
  [pc : Stages, notice : Notices \cup {NoNotice}, target : Statuses \cup {NoTarget},
   item : Items \cup {NoItem}, prior : SUBSET Notices]
Idle == [pc |-> "idle"]

Open(pc, n, target, item) ==
  [pc |-> pc, notice |-> n, target |-> target, item |-> item, prior |-> {}]

Begin(w, r) == tx[w].pc = "idle" /\ tx' = [tx EXCEPT ![w] = r]
Step(w, from, to) == tx[w].pc = from /\ tx' = [tx EXCEPT ![w].pc = to]
Finish(w, from) == tx[w].pc = from /\ tx' = [tx EXCEPT ![w] = Idle]

-----------------------------------------------------------------------------
(* Locks and tests                                                         *)

\* Row of a notice, from the moment the request holds it
HoldsNotice(v, n) ==
  \/ tx[v].pc \in {"editing", "written", "checked", "listed", "ready"} /\ tx[v].notice = n
  \/ tx[v].pc = "ready" /\ n \in tx[v].prior

NoticeFree(w, n) == \A v \in Workers \ {w} : ~HoldsNotice(v, n)

\* require_for_update: a transition holds the project's row from its start
HoldsProject(v) ==
  tx[v].pc \in {"publishing", "checked", "listed", "ready"} /\ tx[v].target # NoTarget

\* Mutant of ProjectFree: the project is read without FOR UPDATE
ProjectAlwaysFree(w) == TRUE

ProjectFree(w) == \A v \in Workers \ {w} : ~HoldsProject(v)

Drafts == {n \in Notices : status[n] = "draft"}
Published == {n \in Notices : status[n] = "published"}
Renditions(n) == {l \in Languages : text[n][l] # NoText}

\* checklist
Publishable(n) ==
  /\ attached[n] # {}
  /\ Renditions(n) # {}
  /\ \A l \in Renditions(n) : signed[n][l] # NoText

\* Mutant of Permitted: nobody asks for the proof of approval
PermittedUnproved(from, to) ==
  \/ /\ from = "in_draft" /\ to = "under_process"
     /\ current # NoNotice
     /\ attached[current] # {}
     /\ \E l \in Languages : signed[current][l] # NoText
  \/ from = "under_process" /\ to = "pending_approval"
  \/ from = "pending_approval" /\ to = "approved"
  \/ from \in {"under_process", "pending_approval"} /\ to = "in_draft"
  \/ from = "approved" /\ to = "closed"

\* What validate asks of the facts for each transition of the table
Permitted(from, to) ==
  \/ /\ from = "in_draft" /\ to = "under_process"
     /\ current # NoNotice
     /\ attached[current] # {}
     /\ \E l \in Languages : signed[current][l] # NoText
  \/ from = "under_process" /\ to = "pending_approval" /\ proof
  \/ from = "pending_approval" /\ to = "approved"
  \/ from \in {"under_process", "pending_approval"} /\ to = "in_draft"
  \/ from = "approved" /\ to = "closed"

-----------------------------------------------------------------------------
(* Drafting                                                                *)

\* create and copy_from: a draft with the code's next version, which is above the
\* project's own by as many as other projects have drafted in between
Create(n, c) ==
  /\ status[n] = "none"
  /\ status' = [status EXCEPT ![n] = "draft"]
  /\ code' = [code EXCEPT ![n] = c]
  /\ \E v \in 1..MaxVersion :
       /\ \A m \in Notices : code[m] = c => version[m] < v
       /\ version' = [version EXCEPT ![n] = v]
  /\ UNCHANGED <<projectVars, displaced, contentVars, tx>>

\* Mutant of RequireDraft: the status is read without locking the row
RequireDraftUnlocked(w, n, item) ==
  /\ status[n] = "draft"
  /\ Begin(w, Open("editing", n, NoTarget, item))
  /\ UNCHANGED <<projectVars, noticeVars, contentVars>>

\* _require_draft, the first statement of every edit
RequireDraft(w, n, item) ==
  /\ NoticeFree(w, n)
  /\ status[n] = "draft"
  /\ Begin(w, Open("editing", n, NoTarget, item))
  /\ UNCHANGED <<projectVars, noticeVars, contentVars>>

\* The write, where the freeze triggers look at the notice once more
Write(w) ==
  /\ Step(w, "editing", "written")
  /\ status[tx[w].notice] \notin {"published", "superseded"}
  /\ UNCHANGED <<projectVars, noticeVars, contentVars>>

\* Mutant of Render: a new text keeps the approval of the old one
RenderKeepingApproval(n, l, t) ==
  /\ text' = [text EXCEPT ![n][l] = t]
  /\ UNCHANGED <<signed, attached>>

\* upsert_language
Render(n, l, t) ==
  /\ text' = [text EXCEPT ![n][l] = t]
  /\ signed' = [signed EXCEPT ![n][l] = NoText]
  /\ UNCHANGED attached

EditCommit(w) ==
  /\ Finish(w, "written")
  /\ LET n == tx[w].notice
         item == tx[w].item
     IN  \/ item.kind = "render" /\ Render(n, item.language, item.text)
         \/ /\ item.kind = "attach"
            /\ attached' = [attached EXCEPT ![n] = @ \cup {item.purpose}]
            /\ UNCHANGED <<text, signed>>
         \/ /\ item.kind = "detach"
            /\ attached' = [attached EXCEPT ![n] = @ \ {item.purpose}]
            /\ UNCHANGED <<text, signed>>
  /\ UNCHANGED <<projectVars, noticeVars>>

\* approve_language: one UPDATE, which asks neither for the notice's status nor
\* for its lock, and approves the text it finds
ApproveLanguage(n, l) ==
  /\ text[n][l] # NoText
  /\ signed' = [signed EXCEPT ![n][l] = text[n][l]]
  /\ UNCHANGED <<projectVars, noticeVars, text, attached, tx>>

-----------------------------------------------------------------------------
(* Publishing                                                              *)

\* POST /notices/{uuid}/publish
Publish(w, n) ==
  /\ status[n] # "none"
  /\ Begin(w, Open("publishing", n, NoTarget, NoItem))
  /\ UNCHANGED <<projectVars, noticeVars, contentVars>>

\* publish(): lock the notice, then look at it
Check(w) ==
  /\ tx[w].pc = "publishing"
  /\ NoticeFree(w, tx[w].notice)
  /\ status[tx[w].notice] = "draft"
  /\ Publishable(tx[w].notice)
  /\ Step(w, "publishing", "checked")
  /\ UNCHANGED <<projectVars, noticeVars, contentVars>>

\* versions(): the published ones among the committed versions of the code
ListVersions(w) ==
  /\ tx[w].pc = "checked"
  /\ tx' = [tx EXCEPT ![w].pc = "listed",
                      ![w].prior = {m \in Published \ {tx[w].notice} :
                                      code[m] = code[tx[w].notice]}]
  /\ UNCHANGED <<projectVars, noticeVars, contentVars>>

\* supersede() waits for each of them
Supersede(w) ==
  /\ tx[w].pc = "listed"
  /\ \A m \in tx[w].prior : NoticeFree(w, m)
  /\ Step(w, "listed", "ready")
  /\ UNCHANGED <<projectVars, noticeVars, contentVars>>

\* Mutant of NewCurrent: a transition only moves the project
NewCurrentIfBare(w) == IF tx[w].target # NoTarget THEN current ELSE tx[w].notice

\* set_current_notice
NewCurrent(w) == IF tx[w].notice = NoNotice THEN current ELSE tx[w].notice

\* set_current_notice writes the project's row and waits for it; then the notices,
\* and in a transition the project's status and its history, are committed
Commit(w) ==
  /\ tx[w].pc = "ready"
  /\ ProjectFree(w)
  /\ Finish(w, "ready")
  /\ status' = [m \in Notices |->
                  CASE m = tx[w].notice -> "published"
                    [] m \in tx[w].prior -> "superseded"
                    [] OTHER -> status[m]]
  /\ current' = NewCurrent(w)
  /\ IF tx[w].target = NoTarget THEN UNCHANGED <<project, history>>
     ELSE /\ project' = tx[w].target
          /\ history' = Append(history, [from |-> tx[w].item.from, to |-> tx[w].target])
  /\ UNCHANGED <<proof, code, version, displaced, contentVars>>

\* The commit of a publication in another project, of a notice with the code c: it
\* supersedes what its versions() found published and sets its own project's current
\* notice, not this one's
PublishElsewhere(c) ==
  \E old \in SUBSET {n \in Published : code[n] = c} :
    /\ old # {}
    /\ \A n \in old, v \in Workers : ~HoldsNotice(v, n)
    /\ status' = [n \in Notices |-> IF n \in old THEN "superseded" ELSE status[n]]
    /\ displaced' = displaced \cup old
    /\ UNCHANGED <<projectVars, code, version, contentVars, tx>>

-----------------------------------------------------------------------------
(* The project                                                             *)

\* transition(): lock the project, read the facts, validate; on the way to
\* under_process publish_current picks the newest draft, or is content with a
\* notice published before.  Drafts of two codes may share the newest version.
Transition(w, target) ==
  /\ ProjectFree(w)
  /\ Len(history) < MaxMoves
  /\ Permitted(project, target)
  /\ LET found == [kind |-> "move", from |-> project]
     IN  IF target = "under_process" /\ Drafts # {}
         THEN \E n \in Drafts :
                /\ \A m \in Drafts : version[m] <= version[n]
                /\ Begin(w, Open("publishing", n, target, found))
         ELSE /\ target = "under_process" => Published # {}
              /\ Begin(w, Open("ready", NoNotice, target, found))
  /\ UNCHANGED <<projectVars, noticeVars, contentVars>>

\* add_approval reads the status without a lock
AddApproval(w) ==
  /\ project \in {"under_process", "pending_approval"}
  /\ Begin(w, Open("approving", NoNotice, NoTarget, NoItem))
  /\ UNCHANGED <<projectVars, noticeVars, contentVars>>

\* The insert's foreign key waits for a transition's FOR UPDATE
AddApprovalCommit(w) ==
  /\ ProjectFree(w)
  /\ Finish(w, "approving")
  /\ proof' = TRUE
  /\ UNCHANGED <<project, current, history, noticeVars, contentVars>>

\* A refusal, a lock timeout, a deadlock broken by the server, a crash
Abort(w) ==
  /\ tx[w].pc # "idle"
  /\ tx' = [tx EXCEPT ![w] = Idle]
  /\ UNCHANGED <<projectVars, noticeVars, contentVars>>

-----------------------------------------------------------------------------
\* create() has recorded the project's first row of history
Init ==
  /\ project = "in_draft"
  /\ current = NoNotice
  /\ history = <<[from |-> NoTarget, to |-> "in_draft"]>>
  /\ proof = FALSE
  /\ status = [n \in Notices |-> "none"]
  /\ code = [n \in Notices |-> NoCode]
  /\ version = [n \in Notices |-> 0]
  /\ displaced = {}
  /\ text = [n \in Notices |-> [l \in Languages |-> NoText]]
  /\ signed = [n \in Notices |-> [l \in Languages |-> NoText]]
  /\ attached = [n \in Notices |-> {}]
  /\ tx = [w \in Workers |-> Idle]

Drafting(w) ==
  \/ \E n \in Notices, item \in Items \ [kind : {"move"}, from : Statuses] :
       RequireDraft(w, n, item)
  \/ Write(w) \/ EditCommit(w)

Publishing(w) ==
  \/ \E n \in Notices : Publish(w, n)
  \/ Check(w) \/ ListVersions(w) \/ Supersede(w) \/ Commit(w)

Moving(w) ==
  \/ \E target \in Statuses : Transition(w, target)
  \/ AddApproval(w) \/ AddApprovalCommit(w)

Next ==
  \/ \E n \in Notices, c \in Codes : Create(n, c)
  \/ \E n \in Notices, l \in Languages : ApproveLanguage(n, l)
  \/ \E c \in Codes : PublishElsewhere(c)
  \/ \E w \in Workers : Drafting(w) \/ Publishing(w) \/ Moving(w) \/ Abort(w)

Spec == Init /\ [][Next]_vars

-----------------------------------------------------------------------------
(* Properties                                                              *)

\* Type invariant.
TypeOK ==
  /\ project \in Statuses
  /\ current \in Notices \cup {NoNotice}
  /\ history \in Seq(Move)
  /\ proof \in BOOLEAN
  /\ status \in [Notices -> {"none", "draft", "published", "superseded"}]
  /\ code \in [Notices -> Codes \cup {NoCode}]
  /\ version \in [Notices -> 0..MaxVersion]
  /\ displaced \in SUBSET Notices
  /\ text \in [Notices -> [Languages -> Texts \cup {NoText}]]
  /\ signed \in [Notices -> [Languages -> Texts \cup {NoText}]]
  /\ attached \in [Notices -> SUBSET Purposes]
  /\ tx \in [Workers -> Request \cup {Idle}]

\* A project is never in a state its history does not explain: each row starts
\* where the one before ended and the last one ends where the project is, whatever
\* transitions were attempted at once.
HistoryExplains ==
  /\ project = history[Len(history)].to
  /\ \A i \in 2..Len(history) : history[i].from = history[i - 1].to

\* What people consent to was approved: every rendition of a published or
\* superseded notice has been approved as it stands, and there is one, and a
\* purpose (set_language: "text that changed after a lawyer signed it off has not
\* been signed off").
PublishedIsSignedOff ==
  \A n \in Notices : status[n] \in {"published", "superseded"} =>
    /\ attached[n] # {}
    /\ Renditions(n) # {}
    /\ \A l \in Renditions(n) : signed[n][l] = text[n][l]

\* Once published, a notice keeps its text and its purposes for good, also against
\* an edit that began before the publication; it can only be superseded.
FrozenOncePublished ==
  [][\A n \in Notices : status[n] \in {"published", "superseded"} =>
       /\ text'[n] = text[n]
       /\ attached'[n] = attached[n]
       /\ status'[n] \in {status[n], "superseded"}]_vars

\* A project that has left draft has a current notice, and that is a published one
\* unless another project's publication of the same code has superseded it (publish
\* supersedes every version of the code): no publication of the project's own, bare or
\* in a transition, and no two of them at once, leave it with a superseded notice.
OnlyOthersDisplace ==
  /\ current # NoNotice => status[current] = "published" \/ current \in displaced
  /\ project # "in_draft" => current # NoNotice

Promise == INSTANCE NoticePromise WITH
  approved <- [n \in Notices |-> {l \in Languages : signed[n][l] # NoText}]

\* Edits, approvals, publications and transitions, whatever they interleave, implement
\* NoticePromise: what a request checked under its lock holds when it commits, and an
\* approval that took no lock is still one of the text.
KeepsPromise == Promise!Spec

=============================================================================
