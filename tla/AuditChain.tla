----------------------------- MODULE AuditChain -----------------------------
(***************************************************************************)
(* The hash chain of audit_log.  Every service records its change in its   *)
(* own transaction (domain/audit.py: record); the trigger cmp_audit_chain  *)
(* gives the new row the hash of the row with the largest log_id it can    *)
(* see, and cmp_audit_verify recomputes the chain in the order of log_id.  *)
(*                                                                         *)
(* An INSERT takes its log_id from the sequence before the trigger runs    *)
(* and waits for the advisory lock inside the trigger; the lock is held    *)
(* until the transaction ends, and an id drawn is never given back.  What  *)
(* a row records does not matter here: a row's hash is named by the row    *)
(* and whether it was recomputed after somebody altered the row.           *)
(***************************************************************************)
EXTENDS Integers, FiniteSets, FiniteSetsExt

CONSTANTS
  Writers,      \* transactions that may record at the same time
  MaxId         \* bound: ids the sequence gives out

ASSUME AuditAssumption == Writers # {} /\ MaxId \in Nat

VARIABLES
  nextId,       \* audit_log_log_id_seq
  rows,         \* log_id of the committed rows
  prev,         \* _prev of each row, NoHash for a row that found the table empty
  altered,      \* what somebody with the owner's rights did to a row
  tx,           \* each writer's open transaction
  found         \* whether the nightly job has reported a break

vars == <<nextId, rows, prev, altered, tx, found>>

Ids == 1..MaxId
NoId == 0

\* The hash of row i: the one the trigger computed, or one recomputed since
Hash == Ids \X BOOLEAN
NoHash == <<NoId, FALSE>>

\* The id drawn for the row being inserted and the rows inserted so far
Tx == [drawn : Ids \cup {NoId}, own : SUBSET Ids]
Idle == [drawn |-> NoId, own |-> {}]

HashOf(i) == <<i, altered[i] = "rehashed">>

-----------------------------------------------------------------------------
(* Writing                                                                 *)

\* Mutant of Draw: the next id is worked out from the rows in the table
DrawFromRows(w) ==
  LET id == IF rows = {} THEN 1 ELSE Max(rows) + 1
  IN  /\ tx[w].drawn = NoId
      /\ id <= MaxId
      /\ nextId' = IF id < nextId THEN nextId ELSE id + 1
      /\ tx' = [tx EXCEPT ![w].drawn = id]
      /\ UNCHANGED <<rows, prev, altered, found>>

\* record: the INSERT evaluates nextval before any trigger of the row.  A
\* transaction may record several times.
Draw(w) ==
  /\ tx[w].drawn = NoId
  /\ nextId <= MaxId
  /\ nextId' = nextId + 1
  /\ tx' = [tx EXCEPT ![w].drawn = nextId]
  /\ UNCHANGED <<rows, prev, altered, found>>

\* pg_advisory_xact_lock: taken with the first row, released with the transaction
HoldsLock(w) == tx[w].own # {}

\* Mutant of LockFree: nothing serialises the chain
AlwaysFree(w) == TRUE

LockFree(w) == \A v \in Writers \ {w} : ~HoldsLock(v)

\* What the trigger's SELECT finds: committed rows and the transaction's own
Visible(w) == rows \cup tx[w].own

\* cmp_audit_chain: wait for the lock, then link to the largest id there is
Chain(w) ==
  /\ tx[w].drawn # NoId
  /\ LockFree(w)
  /\ prev' = [prev EXCEPT ![tx[w].drawn] =
                IF Visible(w) = {} THEN NoHash ELSE HashOf(Max(Visible(w)))]
  /\ tx' = [tx EXCEPT ![w] = [drawn |-> NoId, own |-> tx[w].own \cup {tx[w].drawn}]]
  /\ UNCHANGED <<nextId, rows, altered, found>>

Commit(w) ==
  /\ tx[w].drawn = NoId
  /\ HoldsLock(w)
  /\ rows' = rows \cup tx[w].own
  /\ tx' = [tx EXCEPT ![w] = Idle]
  /\ UNCHANGED <<nextId, prev, altered, found>>

\* A refusal after the audit row, a lock timeout, a lost connection, a crash
Rollback(w) ==
  /\ tx[w] # Idle
  /\ tx' = [tx EXCEPT ![w] = Idle]
  /\ UNCHANGED <<nextId, rows, prev, altered, found>>

\* The owner of the table can drop its triggers: a committed row is changed, and
\* its own hash perhaps recomputed
Alter(i) ==
  /\ i \in rows
  /\ altered[i] = "no"
  /\ \E how \in {"edited", "rehashed"} : altered' = [altered EXCEPT ![i] = how]
  /\ UNCHANGED <<nextId, rows, prev, tx, found>>

-----------------------------------------------------------------------------
(* Verifying                                                               *)

\* Mutant of Verifies: only the links between rows are compared
LinksOnly(i, from) ==
  LET before == {j \in rows : from <= j /\ j < i}
  IN  before # {} => prev[i] = HashOf(Max(before))

\* cmp_audit_verify, for one row: its _prev is the hash of the row before it, and
\* its _hash is that of its content.  The first row is taken at its word for _prev.
Verifies(i, from) ==
  LET before == {j \in rows : from <= j /\ j < i}
  IN  /\ before # {} => prev[i] = HashOf(Max(before))
      /\ altered[i] # "edited"

\* verify_chain reports no break among the rows from the given id
Intact(from) == \A i \in rows : from <= i => Verifies(i, from)

\* Mutant of Nightly: each night starts at the newest row
NightlySinceLast ==
  /\ rows # {} /\ ~Intact(Max(rows))
  /\ found' = TRUE
  /\ UNCHANGED <<nextId, rows, prev, altered, tx>>

\* verify_audit_chain finds a break and reports it
Nightly ==
  /\ ~Intact(0)
  /\ found' = TRUE
  /\ UNCHANGED <<nextId, rows, prev, altered, tx>>

\* On an intact chain it records AUDIT_VERIFIED in the same transaction
NightlyRecords(w) == tx[w] = Idle /\ Intact(0) /\ Draw(w)

-----------------------------------------------------------------------------
Init ==
  /\ nextId = 1
  /\ rows = {}
  /\ prev = [i \in Ids |-> NoHash]
  /\ altered = [i \in Ids |-> "no"]
  /\ tx = [w \in Writers |-> Idle]
  /\ found = FALSE

Proceed(w) == Chain(w) \/ Commit(w) \/ Rollback(w)

Next ==
  \/ \E w \in Writers : Draw(w) \/ NightlyRecords(w) \/ Proceed(w)
  \/ \E i \in Ids : Alter(i)
  \/ Nightly

Spec == Init /\ [][Next]_vars

\* Transactions end (statement and lock timeouts see to it) and the beat goes on
Fairness == WF_vars(Nightly) /\ \A w \in Writers : WF_vars(Proceed(w))

FairSpec == Spec /\ Fairness

-----------------------------------------------------------------------------
(* Properties                                                              *)

\* Type invariant.  An id drawn belongs to one row of one transaction.
TypeOK ==
  /\ nextId \in 1..(MaxId + 1)
  /\ rows \subseteq 1..(nextId - 1)
  /\ prev \in [Ids -> Hash \cup {NoHash}]
  /\ altered \in [Ids -> {"no", "edited", "rehashed"}]
  /\ tx \in [Writers -> Tx]
  /\ found \in BOOLEAN
  /\ \A w \in Writers :
       LET mine == tx[w].own \cup ({tx[w].drawn} \ {NoId})
       IN  /\ mine \subseteq 1..(nextId - 1)
           /\ mine \cap rows = {}
           /\ tx[w].drawn \notin tx[w].own
           /\ \A v \in Writers \ {w} :
                mine \cap (tx[v].own \cup {tx[v].drawn}) = {}

Untouched == \A i \in rows : altered[i] = "no"

\* As long as no row was given a smaller id than the row it was chained to, the
\* trail nobody has touched verifies: the lock in cmp_audit_chain admits no two
\* rows with one predecessor, over rollbacks and transactions that record twice.
OrderedTrailVerifies ==
  Untouched /\ (\A i \in rows : prev[i][1] < i) => Intact(0)

\* An altered row is found by cmp_audit_verify: at once if its hash was left as it
\* was, and if it was recomputed as soon as a committed row recorded the old one.
\* This holds for rows chained out of order too, and for the first row, whose _prev
\* is not checked.
DetectsAlteration ==
  \A i \in rows :
    \/ altered[i] = "edited"
    \/ altered[i] = "rehashed" /\ \E j \in rows : prev[j] = <<i, FALSE>>
    => ~Intact(0)

\* The nightly job reports every break, whoever is writing meanwhile
\* (verify_audit_chain: "a break is discovered within a day of happening").
BreakIsFound == ~Intact(0) ~> found

-----------------------------------------------------------------------------
(* What the trail promises its readers                                     *)

\* What committed rows recorded; that of other rows is nobody's business yet.
Recorded == [i \in Ids |-> IF i \in rows THEN prev[i] ELSE NoHash]

Promise == INSTANCE TrailPromise WITH trail <- rows, recorded <- Recorded

\* The audit trail is the list its readers are promised: a change is on it whole or
\* not at all, each of its rows follows the newest row there was, and nothing
\* rewrites what a committed row recorded.
KeepsPromise == Promise!Spec

-----------------------------------------------------------------------------
(* What the code's documentation says                                      *)

\* A trail nobody has touched verifies (cmp_audit_verify: "Returns zero rows when
\* the trail is intact").
UntouchedVerifies == Untouched => Intact(0)
=============================================================================
