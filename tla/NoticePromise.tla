--------------------------- MODULE NoticePromise ---------------------------
(***************************************************************************)
(* What drafting, approving, publishing and moving a project promise, with *)
(* no locks and no requests under way: a notice is edited while it is a    *)
(* draft and an approval does not outlive its text; a notice is published  *)
(* at one stroke, complete and approved, and is the project's current one  *)
(* from then on; a project moves along the edges of its life, and leaves   *)
(* draft only under a published notice, or one that another project's      *)
(* publication of the same code has displaced, which can happen at any     *)
(* time.  It is not promised that a publication finds every version it     *)
(* replaces.                                                               *)
(***************************************************************************)
CONSTANTS Notices, Languages, Purposes, Texts, NoText, NoNotice

VARIABLES
  project,   \* where the project is in its life
  current,   \* its current notice
  proof,     \* whether there is proof of its approval
  status,    \* of each notice
  displaced, \* notices that another project's publication has replaced
  text,      \* of each rendition
  attached,  \* purposes of each notice
  approved   \* languages each notice is approved in

contentVars == <<text, attached, approved>>
promiseVars == <<project, current, proof, status, displaced, contentVars>>

Edges ==
  {<<"in_draft", "under_process">>, <<"under_process", "pending_approval">>,
   <<"pending_approval", "approved">>, <<"under_process", "in_draft">>,
   <<"pending_approval", "in_draft">>, <<"approved", "closed">>}

Rendered(n) == {l \in Languages : text[n][l] # NoText}
Complete(n) == attached[n] # {} /\ Rendered(n) # {} /\ Rendered(n) \subseteq approved[n]
Covered ==
  current # NoNotice /\ (status[current] = "published" \/ current \in displaced)

Init ==
  /\ project = "in_draft" /\ current = NoNotice /\ proof = FALSE
  /\ status = [n \in Notices |-> "none"] /\ displaced = {}
  /\ text = [n \in Notices |-> [l \in Languages |-> NoText]]
  /\ attached = [n \in Notices |-> {}]
  /\ approved = [n \in Notices |-> {}]

Draft(n) ==
  /\ status[n] = "none"
  /\ status' = [status EXCEPT ![n] = "draft"]
  /\ UNCHANGED <<project, current, proof, displaced, contentVars>>

\* The approvals that are left are of texts that were left as they were.
Edit(n) ==
  /\ status[n] = "draft"
  /\ \E ps \in SUBSET Purposes : attached' = [attached EXCEPT ![n] = ps]
  /\ \E t \in [Languages -> Texts \cup {NoText}] :
       /\ text' = [text EXCEPT ![n] = t]
       /\ \E ls \in SUBSET {l \in approved[n] : t[l] = text[n][l]} :
            approved' = [approved EXCEPT ![n] = ls]
  /\ UNCHANGED <<project, current, proof, status, displaced>>

Approve(n, l) ==
  /\ l \in Rendered(n)
  /\ approved' = [approved EXCEPT ![n] = @ \cup {l}]
  /\ UNCHANGED <<project, current, proof, status, displaced, text, attached>>

Moves(to) ==
  /\ <<project, to>> \in Edges
  /\ to = "pending_approval" => proof
  /\ project' = to

Move(to) ==
  /\ Moves(to) /\ Covered
  /\ UNCHANGED <<current, proof, status, displaced, contentVars>>

\* Alone, or with the move out of draft.
Publish(n, old) ==
  /\ status[n] = "draft" /\ Complete(n)
  /\ \A m \in old : status[m] \in {"published", "superseded"}
  /\ status' = [m \in Notices |-> IF m = n THEN "published"
                                  ELSE IF m \in old THEN "superseded" ELSE status[m]]
  /\ current' = n
  /\ project' = project \/ Moves("under_process")
  /\ UNCHANGED <<proof, displaced, contentVars>>

\* By a publication that is another project's.
Displace(old) ==
  /\ \A m \in old : status[m] = "published"
  /\ status' = [m \in Notices |-> IF m \in old THEN "superseded" ELSE status[m]]
  /\ displaced' = displaced \cup old
  /\ UNCHANGED <<project, current, proof, contentVars>>

Prove ==
  /\ proof' = TRUE
  /\ UNCHANGED <<project, current, status, displaced, contentVars>>

Next ==
  \/ \E n \in Notices :
       \/ Draft(n) \/ Edit(n)
       \/ \E l \in Languages : Approve(n, l)
       \/ \E old \in SUBSET Notices : Publish(n, old)
  \/ \E old \in SUBSET Notices : Displace(old)
  \/ \E edge \in Edges : Move(edge[2])
  \/ Prove

Spec == Init /\ [][Next]_promiseVars
=============================================================================
