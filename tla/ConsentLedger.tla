---------------------------- MODULE ConsentLedger ----------------------------
(***************************************************************************)
(* The consent ledger: consent_artefact and consent_purpose_grant, written *)
(* by domain/consent.py capture() and withdraw() and read through the view *)
(* v_current_consent.  Each request handler is one READ COMMITTED          *)
(* transaction, split here where other requests can run in between: taking *)
(* the timestamp, reading the current artefact, inserting the new one      *)
(* (which meets the partial unique index) and committing.                  *)
(*                                                                         *)
(* An artefact and its grants are written by one transaction and become    *)
(* visible together, so one row carries both.  Whether the link behind a   *)
(* capture still resolves is ConsentLink's subject: here a capture may     *)
(* simply never be asked for.                                              *)
(***************************************************************************)
EXTENDS Naturals

CONSTANTS
  Workers,      \* request handlers, each with at most one open transaction
  Subjects,     \* auth_user rows with role data_subject
  Notices,      \* published notices
  Purposes,     \* purposes
  PurposesOf,   \* the purposes of each notice, frozen when it was published
  Mandatory,    \* those of them that cannot be refused
  Answered,     \* <<subject, notice>> pairs that answered before the behaviour
  FirstId,      \* the consent_id of each of those answers
  MaxId,        \* bound: consent_id values the serial may hand out
  MaxTime       \* bound: clock readings

ASSUME LedgerAssumption ==
  /\ Subjects # {}
  /\ Notices # {}
  /\ PurposesOf \in [Notices -> SUBSET Purposes]
  /\ \A n \in Notices : Mandatory[n] \subseteq PurposesOf[n]
  /\ MaxId \in Nat
  /\ MaxTime \in Nat
  /\ Answered \subseteq Subjects \X Notices
  /\ FirstId \in [Answered -> 1..MaxId]
  /\ \A p, q \in Answered : FirstId[p] = FirstId[q] => p = q

VARIABLES
  row,          \* consent_artefact tuples with their grants, by consent_id
  committed,    \* the consent_ids whose transaction has committed
  nextId,       \* the serial behind consent_id
  clock,        \* datetime.now(UTC) of the application hosts
  tx,           \* each worker's open transaction and its local variables
  lastAct       \* history: the last artefact each pair committed, 0 for none

vars == <<row, committed, nextId, clock, tx, lastAct>>

Ids == 1..MaxId
NoId == 0       \* supersedes_consent_id IS NULL
Pairs == Subjects \X Notices

Artefact ==
  [subject : Subjects, notice : Notices, supersedes : Ids \cup {NoId},
   at : 0..MaxTime, withdrawal : BOOLEAN, granted : SUBSET Purposes]

Tx ==
  [pc : {"idle", "started", "read", "inserted"},
   subject : Subjects, notice : Notices, withdrawal : BOOLEAN,
   granted : SUBSET Purposes, at : 0..MaxTime,
   seen : Ids \cup {NoId}, id : Ids \cup {NoId}]

AnySubject == CHOOSE s \in Subjects : TRUE
AnyNotice == CHOOSE n \in Notices : TRUE

Blank ==
  [subject |-> AnySubject, notice |-> AnyNotice, supersedes |-> NoId,
   at |-> 0, withdrawal |-> FALSE, granted |-> {}]

IdleTx ==
  [pc |-> "idle", subject |-> AnySubject, notice |-> AnyNotice,
   withdrawal |-> FALSE, granted |-> {}, at |-> 0, seen |-> NoId, id |-> NoId]

-----------------------------------------------------------------------------
(* Reads                                                                   *)

History(s, n) == {i \in committed : row[i].subject = s /\ row[i].notice = n}

Superseded(i) == \E j \in committed : row[j].supersedes = i

\* v_current_consent, for one person and one notice
Current(s, n) == {i \in History(s, n) : ~Superseded(i)}

\* current_for_user_notice: ORDER BY affirmative_action_at DESC LIMIT 1, which
\* is free to return any of several rows that carry the same time
Live(s, n) == {i \in Current(s, n) : \A j \in Current(s, n) : row[j].at <= row[i].at}

Roots(s, n) == {i \in History(s, n) : row[i].supersedes = NoId}

\* Mutant of ConsentedList: consented_subjects reads every artefact, not the view
ListFromHistory ==
  {p \in Pairs : \E i \in History(p[1], p[2]) :
                    ~row[i].withdrawal /\ row[i].granted # {}}

\* Export B: consented_subjects
ConsentedList ==
  {p \in Pairs : \E i \in Current(p[1], p[2]) :
                    ~row[i].withdrawal /\ row[i].granted # {}}

-----------------------------------------------------------------------------
(* Requests                                                                *)

\* capture() up to its own clock reading: the answer names every purpose of the
\* notice and grants every mandatory one.
CaptureStart(w, s, n, answer) ==
  /\ tx[w].pc = "idle"
  /\ answer \subseteq PurposesOf[n]
  /\ Mandatory[n] \subseteq answer
  /\ tx' = [tx EXCEPT ![w] =
              [pc |-> "started", subject |-> s, notice |-> n, withdrawal |-> FALSE,
               granted |-> answer, at |-> clock, seen |-> NoId, id |-> NoId]]
  /\ UNCHANGED <<row, committed, nextId, clock, lastAct>>

\* capture() looks for the artefact to supersede, after the clock was read
CaptureRead(w) ==
  /\ tx[w].pc = "started"
  /\ LET found == Live(tx[w].subject, tx[w].notice)
     IN  \E e \in (IF found = {} THEN {NoId} ELSE found) :
           tx' = [tx EXCEPT ![w].pc = "read", ![w].seen = e]
  /\ UNCHANGED <<row, committed, nextId, clock, lastAct>>

\* Mutant of WithdrawRead: the artefact's owner is not compared with the caller
WithdrawAnyones(w, s, c, targets) ==
  /\ tx[w].pc = "idle"
  /\ c \in Live(row[c].subject, row[c].notice)
  /\ targets # {}
  /\ targets \subseteq PurposesOf[row[c].notice]
  /\ tx' = [tx EXCEPT ![w] =
              [pc |-> "read", subject |-> s, notice |-> row[c].notice,
               withdrawal |-> TRUE, granted |-> row[c].granted \ targets,
               at |-> 0, seen |-> c, id |-> NoId]]
  /\ UNCHANGED <<row, committed, nextId, clock, lastAct>>

\* Mutant of WithdrawRead: the withdrawn purposes are granted, the others dropped
WithdrawInverted(w, s, c, targets) ==
  /\ tx[w].pc = "idle"
  /\ row[c].subject = s
  /\ c \in Live(s, row[c].notice)
  /\ targets # {}
  /\ targets \subseteq PurposesOf[row[c].notice]
  /\ tx' = [tx EXCEPT ![w] =
              [pc |-> "read", subject |-> s, notice |-> row[c].notice,
               withdrawal |-> TRUE, granted |-> targets,
               at |-> 0, seen |-> c, id |-> NoId]]
  /\ UNCHANGED <<row, committed, nextId, clock, lastAct>>

\* withdraw(): her own artefact c, still the live one; its grants, less the
\* targets, are the new artefact's grants.
WithdrawRead(w, s, c, targets) ==
  /\ tx[w].pc = "idle"
  /\ row[c].subject = s
  /\ c \in Live(s, row[c].notice)
  /\ targets # {}
  /\ targets \subseteq PurposesOf[row[c].notice]
  /\ tx' = [tx EXCEPT ![w] =
              [pc |-> "read", subject |-> s, notice |-> row[c].notice,
               withdrawal |-> TRUE, granted |-> row[c].granted \ targets,
               at |-> 0, seen |-> c, id |-> NoId]]
  /\ UNCHANGED <<row, committed, nextId, clock, lastAct>>

\* Mutants of MustWait: an insert looks at committed rows only; an insert waits for
\* committed duplicates as well
WaitForNobody(w) == FALSE
WaitForCommitted(w) ==
  /\ tx[w].seen # NoId
  /\ \/ Superseded(tx[w].seen)
     \/ \E v \in Workers : /\ tx[v].pc = "inserted"
                           /\ row[tx[v].id].supersedes = tx[w].seen

\* uq_artefact_supersedes_once covers rows whose supersedes_consent_id IS NOT
\* NULL.  An insert that meets an uncommitted duplicate waits for it.
MustWait(w) ==
  /\ tx[w].seen # NoId
  /\ \E v \in Workers : /\ tx[v].pc = "inserted"
                        /\ row[tx[v].id].supersedes = tx[w].seen

\* Mutant of Duplicate: there is no unique index
NoUniqueIndex(w) == FALSE

Duplicate(w) == tx[w].seen # NoId /\ Superseded(tx[w].seen)

\* create_artefact and add_grants.  A withdrawal reads its clock just before.
Insert(w) ==
  /\ tx[w].pc = "read"
  /\ nextId <= MaxId
  /\ ~MustWait(w)
  /\ ~Duplicate(w)
  /\ row' = [row EXCEPT ![nextId] =
               [subject |-> tx[w].subject, notice |-> tx[w].notice,
                supersedes |-> tx[w].seen,
                at |-> IF tx[w].withdrawal THEN clock ELSE tx[w].at,
                withdrawal |-> tx[w].withdrawal, granted |-> tx[w].granted]]
  /\ tx' = [tx EXCEPT ![w].pc = "inserted", ![w].id = nextId]
  /\ nextId' = nextId + 1
  /\ UNCHANGED <<committed, clock, lastAct>>

\* The unique index refuses the row: the exception rolls the request back.
InsertRefused(w) ==
  /\ tx[w].pc = "read"
  /\ ~MustWait(w)
  /\ Duplicate(w)
  /\ tx' = [tx EXCEPT ![w] = IdleTx]
  /\ UNCHANGED <<row, committed, nextId, clock, lastAct>>

\* transaction() commits on clean exit: artefact and grants appear together.
Commit(w) ==
  /\ tx[w].pc = "inserted"
  /\ committed' = committed \cup {tx[w].id}
  /\ lastAct' = [lastAct EXCEPT ![<<tx[w].subject, tx[w].notice>>] = tx[w].id]
  /\ tx' = [tx EXCEPT ![w] = IdleTx]
  /\ UNCHANGED <<row, nextId, clock>>

\* Any exception, lost connection or crash before the commit rolls it back; the
\* inserted tuple is dead and its id is not used again.
Rollback(w) ==
  /\ tx[w].pc # "idle"
  /\ row' = IF tx[w].pc = "inserted" THEN [row EXCEPT ![tx[w].id] = Blank] ELSE row
  /\ tx' = [tx EXCEPT ![w] = IdleTx]
  /\ UNCHANGED <<committed, nextId, clock, lastAct>>

Tick ==
  /\ clock < MaxTime
  /\ clock' = clock + 1
  /\ UNCHANGED <<row, committed, nextId, tx, lastAct>>

-----------------------------------------------------------------------------
FirstRow(p) ==
  [subject |-> p[1], notice |-> p[2], supersedes |-> NoId, at |-> 0,
   withdrawal |-> FALSE, granted |-> PurposesOf[p[2]]]

\* A ledger in which every pair of Answered has committed its first answer and
\* the serial has moved past those rows
Init ==
  /\ committed = {FirstId[p] : p \in Answered}
  /\ row = [i \in Ids |-> IF \E p \in Answered : FirstId[p] = i
                          THEN FirstRow(CHOOSE p \in Answered : FirstId[p] = i)
                          ELSE Blank]
  /\ nextId \in 1..MaxId + 1
  /\ \A i \in Ids : i \in committed <=> i < nextId
  /\ clock = 0
  /\ tx = [w \in Workers |-> IdleTx]
  /\ lastAct = [p \in Pairs |-> IF p \in Answered THEN FirstId[p] ELSE NoId]

Capture(w) ==
  \/ \E s \in Subjects, n \in Notices : \E answer \in SUBSET PurposesOf[n] :
       CaptureStart(w, s, n, answer)
  \/ CaptureRead(w)

Withdraw(w) ==
  \E s \in Subjects, c \in committed :
    \E targets \in SUBSET PurposesOf[row[c].notice] : WithdrawRead(w, s, c, targets)

Finish(w) == Insert(w) \/ InsertRefused(w) \/ Commit(w)

Next ==
  \/ \E w \in Workers : Capture(w) \/ Withdraw(w) \/ Finish(w) \/ Rollback(w)
  \/ Tick

Spec == Init /\ [][Next]_vars

\* Every statement of an open transaction is executed in the end: the event loop
\* schedules the handler and the statement timeout bounds each wait.  Nothing
\* makes a client ask, a transaction fail or the clock advance.
Fairness == \A w \in Workers : WF_vars(CaptureRead(w)) /\ WF_vars(Finish(w))

FairSpec == Spec /\ Fairness

-----------------------------------------------------------------------------
(* Properties                                                              *)

\* Type invariant: row, tx and the counters of the ledger tables keep their shape.
TypeOK ==
  /\ row \in [Ids -> Artefact]
  /\ committed \subseteq Ids
  /\ nextId \in 1..MaxId + 1
  /\ clock \in 0..MaxTime
  /\ tx \in [Workers -> Tx]
  /\ lastAct \in [Pairs -> Ids \cup {NoId}]

\* No artefact is superseded twice, whatever the requests that raced for it:
\* the supersession chain of v_current_consent never forks.
NoForks ==
  \A i, j \in committed :
    row[i].supersedes = row[j].supersedes /\ row[i].supersedes # NoId => i = j

\* An artefact supersedes only an earlier committed artefact of the same person
\* for the same notice, so one subject's act never hides another's consent.
ChainStaysHome ==
  \A i \in committed : row[i].supersedes # NoId =>
    /\ row[i].supersedes \in committed
    /\ row[i].supersedes < i
    /\ row[row[i].supersedes].subject = row[i].subject
    /\ row[row[i].supersedes].notice = row[i].notice

\* A withdrawal never grants what the artefact it supersedes did not grant: no
\* interleaving of capture() and withdraw() resumes a refused purpose.
WithdrawalNarrows ==
  \A i \in committed : row[i].withdrawal =>
    /\ row[i].supersedes # NoId
    /\ row[i].granted \subseteq row[row[i].supersedes].granted

\* What v_current_consent shows for an unforked chain is the subject's last
\* committed act: a stale request never overrides a later one (no lost update).
CurrentIsLastAct ==
  \A s \in Subjects, n \in Notices :
    (\A i, j \in Roots(s, n) : i = j) =>
      Current(s, n) = {lastAct[<<s, n>>]} \ {NoId}

\* Export B of consented_subjects() never lists a subject whose last committed
\* act on an unforked chain was a withdrawal or refused every purpose.
ExportFollowsLastAct ==
  \A p \in ConsentedList :
    (\A i, j \in Roots(p[1], p[2]) : i = j) =>
      ~row[lastAct[p]].withdrawal /\ row[lastAct[p]].granted # {}

\* Every request of capture() and withdraw() ends, the wait on the unique index
\* included (or the run's supply of ids is used up).
EveryRequestEnds ==
  \A w \in Workers : tx[w].pc # "idle" ~> tx[w].pc = "idle" \/ nextId > MaxId

\* The single answer v_current_consent gives for each pair, as the abstract
\* specification sees it
PromisedAnswer ==
  [p \in Pairs |->
     IF Current(p[1], p[2]) = {} THEN [given |-> FALSE, granted |-> {}]
     ELSE [given |-> TRUE,
           granted |-> row[CHOOSE i \in Current(p[1], p[2]) : TRUE].granted]]

Promise == INSTANCE ConsentPromise WITH answer <- PromisedAnswer

\* capture() and withdraw() implement ConsentPromise as long as the view shows one
\* answer (OneCurrent): each request takes effect at its commit, on the answer that
\* then stands, and nothing else changes an answer.
KeepsPromise == Promise!Spec

-----------------------------------------------------------------------------
(* The inductive invariant behind the safety properties                    *)

\* A capture that has not read yet carries a legal answer
StartedOK(w) ==
  tx[w].pc = "started" =>
    /\ ~tx[w].withdrawal
    /\ tx[w].granted \subseteq PurposesOf[tx[w].notice]
    /\ Mandatory[tx[w].notice] \subseteq tx[w].granted

\* What a transaction that has read its predecessor still knows about it
SeenOK(w) ==
  tx[w].pc \in {"read", "inserted"} =>
    /\ tx[w].granted \subseteq PurposesOf[tx[w].notice]
    /\ tx[w].seen # NoId =>
         /\ tx[w].seen \in committed
         /\ row[tx[w].seen].subject = tx[w].subject
         /\ row[tx[w].seen].notice = tx[w].notice
    /\ tx[w].withdrawal =>
         /\ tx[w].seen # NoId
         /\ tx[w].granted \subseteq row[tx[w].seen].granted
    /\ ~tx[w].withdrawal => Mandatory[tx[w].notice] \subseteq tx[w].granted

\* An inserted row is the transaction's own copy, still invisible, and names a
\* predecessor that nothing committed supersedes
InsertedOK(w) ==
  tx[w].pc = "inserted" =>
    /\ tx[w].id \in Ids
    /\ tx[w].id < nextId
    /\ tx[w].id \notin committed
    /\ row[tx[w].id].subject = tx[w].subject
    /\ row[tx[w].id].notice = tx[w].notice
    /\ row[tx[w].id].supersedes = tx[w].seen
    /\ row[tx[w].id].withdrawal = tx[w].withdrawal
    /\ row[tx[w].id].granted = tx[w].granted
    /\ tx[w].seen # NoId => tx[w].seen < tx[w].id /\ ~Superseded(tx[w].seen)

\* Inserted rows are distinct and hold their predecessors against each other
Exclusive ==
  \A v, w \in Workers :
    tx[v].pc = "inserted" /\ tx[w].pc = "inserted" /\ v # w =>
      /\ tx[v].id # tx[w].id
      /\ tx[v].seen = tx[w].seen => tx[v].seen = NoId

TxInv ==
  /\ \A w \in Workers : StartedOK(w) /\ SeenOK(w) /\ InsertedOK(w)
  /\ Exclusive

\* Every history begins with a first answer, its ids are spent, and lastAct is
\* what an unforked chain currently shows
ChainInv ==
  /\ \A i \in committed : i < nextId
  /\ \A i \in committed : row[i].granted \subseteq PurposesOf[row[i].notice]
  /\ \A s \in Subjects, n \in Notices :
       /\ History(s, n) # {} => Roots(s, n) # {}
       /\ History(s, n) = {} <=> lastAct[<<s, n>>] = NoId
       /\ lastAct[<<s, n>>] # NoId => lastAct[<<s, n>>] \in Current(s, n)

IndInv ==
  /\ TypeOK
  /\ TxInv
  /\ NoForks
  /\ ChainStaysHome
  /\ WithdrawalNarrows
  /\ ChainInv
  /\ CurrentIsLastAct

-----------------------------------------------------------------------------
(* What the code's documentation says, for the run that looks for a          *)
(* disagreement                                                              *)

\* There is one current artefact for one person and one notice
\* (current_for_user_notice: "The live artefact for one person and one notice").
OneCurrent ==
  \A s \in Subjects, n \in Notices : \A i, j \in Current(s, n) : i = j
=============================================================================
