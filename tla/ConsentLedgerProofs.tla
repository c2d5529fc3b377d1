------------------------ MODULE ConsentLedgerProofs ------------------------
(***************************************************************************)
(* Theorems about ConsentLedger, for any number of handlers, subjects,     *)
(* notices, purposes, ids and clock readings.  The argument is the         *)
(* inductive invariant IndInv: an inserted row holds its predecessor       *)
(* against every other insert (Exclusive), so a commit replaces the one  *)
(* current artefact of a chain and nothing else.                           *)
(***************************************************************************)
EXTENDS ConsentLedger, TLAPS

\* The constants chosen to stand for "none" are themselves legal values.
LEMMA BlankTypes == Blank \in Artefact /\ IdleTx \in Tx
<1>1. AnySubject \in Subjects /\ AnyNotice \in Notices
  BY LedgerAssumption DEF AnySubject, AnyNotice
<1>2. QED BY <1>1, LedgerAssumption DEF Blank, IdleTx, Artefact, Tx, NoId, Ids

\* A first answer is an artefact.
LEMMA FirstRowType == \A p \in Answered : FirstRow(p) \in Artefact
BY LedgerAssumption DEF FirstRow, Artefact, NoId

LEMMA InitTypeOK == Init => TypeOK
<1> SUFFICES ASSUME Init PROVE TypeOK
  OBVIOUS
<1>1. row \in [Ids -> Artefact]
  <2>1. \A i \in Ids : (\E p \in Answered : FirstId[p] = i) =>
          FirstRow(CHOOSE p \in Answered : FirstId[p] = i) \in Artefact
    BY FirstRowType
  <2>2. QED BY <2>1, BlankTypes DEF Init
<1>2. committed \subseteq Ids
  BY LedgerAssumption DEF Init, Ids
<1>3. lastAct \in [Pairs -> Ids \cup {NoId}]
  BY LedgerAssumption DEF Init, Ids, Pairs
<1>4. tx \in [Workers -> Tx]
  BY BlankTypes DEF Init
<1>5. nextId \in 1..MaxId + 1 /\ clock \in 0..MaxTime
  BY LedgerAssumption DEF Init
<1>6. QED BY <1>1, <1>2, <1>3, <1>4, <1>5 DEF TypeOK

LEMMA NextTypeOK ==
  ASSUME TypeOK, TxInv, [Next]_vars
  PROVE  TypeOK'
<1> USE DEF TypeOK
<1>1. ASSUME NEW w \in Workers, NEW s \in Subjects, NEW n \in Notices,
             NEW answer \in SUBSET PurposesOf[n], CaptureStart(w, s, n, answer)
      PROVE  TypeOK'
  <2>1. [pc |-> "started", subject |-> s, notice |-> n, withdrawal |-> FALSE,
         granted |-> answer, at |-> clock, seen |-> NoId, id |-> NoId] \in Tx
    <3>1. answer \in SUBSET Purposes
      BY LedgerAssumption
    <3>2. QED BY <3>1, LedgerAssumption DEF Tx, NoId
  <2>2. QED BY <1>1, <2>1 DEF CaptureStart
<1>2. ASSUME NEW w \in Workers, CaptureRead(w)
      PROVE  TypeOK'
  <2>1. PICK e \in Ids \cup {NoId} : tx' = [tx EXCEPT ![w].pc = "read", ![w].seen = e]
    BY <1>2 DEF CaptureRead, Live, Current, History
  <2>2. [tx[w] EXCEPT !.pc = "read", !.seen = e] \in Tx
    BY DEF Tx
  <2>3. tx' = [tx EXCEPT ![w] = [tx[w] EXCEPT !.pc = "read", !.seen = e]]
    BY <2>1
  <2>4. QED BY <1>2, <2>2, <2>3 DEF CaptureRead
<1>3. ASSUME NEW w \in Workers, NEW s \in Subjects, NEW c \in committed,
             NEW targets \in SUBSET PurposesOf[row[c].notice],
             WithdrawRead(w, s, c, targets)
      PROVE  TypeOK'
  <2>1. row[c] \in Artefact
    OBVIOUS
  <2>2. [pc |-> "read", subject |-> s, notice |-> row[c].notice,
         withdrawal |-> TRUE, granted |-> row[c].granted \ targets,
         at |-> 0, seen |-> c, id |-> NoId] \in Tx
    <3>1. row[c].notice \in Notices /\ row[c].granted \ targets \in SUBSET Purposes
      BY <2>1 DEF Artefact
    <3>2. c \in Ids
      OBVIOUS
    <3>3. QED BY <3>1, <3>2, LedgerAssumption DEF Tx, NoId
  <2>3. QED BY <1>3, <2>2 DEF WithdrawRead
<1>4. ASSUME NEW w \in Workers, Insert(w)
      PROVE  TypeOK'
  <2>1. nextId \in Ids
    BY <1>4, LedgerAssumption DEF Insert, Ids
  <2>2. tx[w] \in Tx
    OBVIOUS
  <2>3. [subject |-> tx[w].subject, notice |-> tx[w].notice,
         supersedes |-> tx[w].seen,
         at |-> IF tx[w].withdrawal THEN clock ELSE tx[w].at,
         withdrawal |-> tx[w].withdrawal, granted |-> tx[w].granted] \in Artefact
    BY <2>2 DEF Tx, Artefact
  <2>4. row' \in [Ids -> Artefact]
    BY <1>4, <2>1, <2>3 DEF Insert
  <2>5. tx' \in [Workers -> Tx]
    <3>1. [tx[w] EXCEPT !.pc = "inserted", !.id = nextId] \in Tx
      BY <2>1, <2>2 DEF Tx
    <3>2. tx' = [tx EXCEPT ![w] = [tx[w] EXCEPT !.pc = "inserted", !.id = nextId]]
      BY <1>4 DEF Insert
    <3>3. QED BY <3>1, <3>2
  <2>6. nextId' \in 1..MaxId + 1
    BY <1>4, LedgerAssumption DEF Insert
  <2>7. QED BY <1>4, <2>4, <2>5, <2>6 DEF Insert
<1>5. ASSUME NEW w \in Workers, InsertRefused(w)
      PROVE  TypeOK'
  BY <1>5, BlankTypes DEF InsertRefused
<1>6. ASSUME NEW w \in Workers, Commit(w)
      PROVE  TypeOK'
  BY <1>6, BlankTypes DEF Commit, TxInv, InsertedOK, Pairs, Tx
<1>7. ASSUME NEW w \in Workers, Rollback(w)
      PROVE  TypeOK'
  BY <1>7, BlankTypes DEF Rollback
<1>8. CASE Tick
  BY <1>8, LedgerAssumption DEF Tick
<1>9. CASE UNCHANGED vars
  BY <1>9 DEF vars
<1>10. QED BY <1>1, <1>2, <1>3, <1>4, <1>5, <1>6, <1>7, <1>8, <1>9
         DEF Next, Capture, Withdraw, Finish

(* Steps that do not commit                                                  *)

\* The views read committed rows only.
LEMMA StableReads ==
  ASSUME committed' = committed, \A i \in committed : row'[i] = row[i]
  PROVE  /\ \A i : Superseded(i)' <=> Superseded(i)
         /\ \A s \in Subjects, n \in Notices :
              /\ History(s, n)' = History(s, n)
              /\ Current(s, n)' = Current(s, n)
              /\ Roots(s, n)' = Roots(s, n)
<1>1. \A i : Superseded(i)' <=> Superseded(i)
  BY DEF Superseded
<1>2. ASSUME NEW s \in Subjects, NEW n \in Notices
      PROVE  /\ History(s, n)' = History(s, n)
             /\ Current(s, n)' = Current(s, n)
             /\ Roots(s, n)' = Roots(s, n)
  <2>1. History(s, n)' = History(s, n)
    BY DEF History
  <2>2. Current(s, n)' = Current(s, n)
    BY <1>1, <2>1 DEF Current
  <2>3. Roots(s, n)' = Roots(s, n)
    BY <2>1 DEF Roots, History
  <2>4. QED BY <2>1, <2>2, <2>3
<1>3. QED BY <1>1, <1>2

Ledger == NoForks /\ ChainStaysHome /\ WithdrawalNarrows /\ ChainInv /\ CurrentIsLastAct

\* Whatever leaves the committed rows and lastAct alone keeps the ledger's part
\* of the invariant.
LEMMA QuietStep ==
  ASSUME TypeOK, Ledger, TypeOK',
         committed' = committed, lastAct' = lastAct, nextId <= nextId',
         \A i \in committed : row'[i] = row[i]
  PROVE  Ledger'
<1> USE DEF Ledger
<1>1. NoForks'
  BY DEF NoForks
<1>2. ChainStaysHome'
  BY DEF ChainStaysHome
<1>3. WithdrawalNarrows'
  BY DEF WithdrawalNarrows, ChainStaysHome
<1>4. ChainInv'
  <2>1. \A i \in committed' : i < nextId'
    BY LedgerAssumption DEF ChainInv, TypeOK, Ids
  <2>2. \A i \in committed' : row'[i].granted \subseteq PurposesOf[row'[i].notice]
    BY DEF ChainInv
  <2>3. QED BY <2>1, <2>2, StableReads DEF ChainInv
<1>5. CurrentIsLastAct'
  <2> SUFFICES ASSUME NEW s \in Subjects, NEW n \in Notices,
                      \A i, j \in Roots(s, n)' : i = j
               PROVE  Current(s, n)' = {lastAct[<<s, n>>]} \ {NoId}
    BY DEF CurrentIsLastAct
  <2>1. Roots(s, n)' = Roots(s, n) /\ Current(s, n)' = Current(s, n)
    BY StableReads
  <2>2. QED BY <2>1 DEF CurrentIsLastAct
<1>6. QED BY <1>1, <1>2, <1>3, <1>4, <1>5

\* A handler's own knowledge outlives the steps of the others.
LEMMA OthersKeepTx ==
  ASSUME TypeOK, TypeOK', NEW v \in Workers, tx'[v] = tx[v],
         StartedOK(v), SeenOK(v), InsertedOK(v),
         committed' = committed, nextId <= nextId',
         \A i \in committed : row'[i] = row[i],
         tx[v].pc = "inserted" => row'[tx[v].id] = row[tx[v].id]
  PROVE  StartedOK(v)' /\ SeenOK(v)' /\ InsertedOK(v)'
<1>1. StartedOK(v)'
  BY DEF StartedOK
<1>2. SeenOK(v)'
  BY DEF SeenOK
<1>3. InsertedOK(v)'
  <2>1. \A i : Superseded(i)' <=> Superseded(i)
    BY StableReads
  <2>2. tx[v].pc = "inserted" => tx[v].id < nextId'
    BY LedgerAssumption DEF InsertedOK, TypeOK, Ids
  <2>3. QED BY <2>1, <2>2 DEF InsertedOK
<1>4. QED BY <1>1, <1>2, <1>3

Knows(v) == StartedOK(v) /\ SeenOK(v) /\ InsertedOK(v)

\* A step of handler w that commits nothing keeps TxInv if it leaves w's own
\* part, and the exclusion of inserted rows, in order.
LEMMA OneHandlerSteps ==
  ASSUME TypeOK, TypeOK', TxInv, NEW w \in Workers,
         \A v \in Workers \ {w} : tx'[v] = tx[v],
         committed' = committed, nextId <= nextId',
         \A i \in committed : row'[i] = row[i],
         \A v \in Workers \ {w} :
            tx[v].pc = "inserted" => row'[tx[v].id] = row[tx[v].id],
         Knows(w)',
         tx'[w].pc = "inserted" =>
           \A v \in Workers \ {w} : tx[v].pc = "inserted" =>
             /\ tx'[w].id # tx[v].id
             /\ tx'[w].seen = tx[v].seen => tx[v].seen = NoId
  PROVE  TxInv'
<1>1. \A v \in Workers : StartedOK(v)' /\ SeenOK(v)' /\ InsertedOK(v)'
  <2> TAKE v \in Workers
  <2>1. CASE v = w
    BY <2>1 DEF Knows
  <2>2. CASE v # w
    BY <2>2, OthersKeepTx DEF TxInv
  <2>3. QED BY <2>1, <2>2
<1>2. Exclusive'
  BY DEF Exclusive, TxInv
<1>3. QED BY <1>1, <1>2 DEF TxInv

LEMMA CaptureStartKeeps ==
  ASSUME TypeOK, TypeOK', TxInv, Ledger,
         NEW w \in Workers, NEW s \in Subjects, NEW n \in Notices,
         NEW answer \in SUBSET PurposesOf[n], CaptureStart(w, s, n, answer)
  PROVE  TxInv' /\ Ledger'
<1>1. tx'[w] = [pc |-> "started", subject |-> s, notice |-> n, withdrawal |-> FALSE,
                granted |-> answer, at |-> clock, seen |-> NoId, id |-> NoId]
  BY DEF CaptureStart, TypeOK
<1>2. Knows(w)'
  BY <1>1 DEF CaptureStart, Knows, StartedOK, SeenOK, InsertedOK
<1>3. nextId <= nextId'
  BY LedgerAssumption DEF CaptureStart, TypeOK
<1>4. TxInv'
  BY <1>1, <1>2, <1>3, OneHandlerSteps DEF CaptureStart, TypeOK
<1>5. Ledger'
  BY <1>3, QuietStep DEF CaptureStart
<1>6. QED BY <1>4, <1>5

LEMMA CaptureReadKeeps ==
  ASSUME TypeOK, TypeOK', TxInv, Ledger, NEW w \in Workers, CaptureRead(w)
  PROVE  TxInv' /\ Ledger'
<1> DEFINE found == Live(tx[w].subject, tx[w].notice)
<1>1. PICK e \in (IF found = {} THEN {NoId} ELSE found) :
        tx' = [tx EXCEPT ![w].pc = "read", ![w].seen = e]
  BY DEF CaptureRead
<1>2. tx[w] \in Tx
  BY DEF TypeOK
<1>3. /\ tx'[w].pc = "read" /\ tx'[w].seen = e
      /\ tx'[w].subject = tx[w].subject /\ tx'[w].notice = tx[w].notice
      /\ tx'[w].withdrawal = tx[w].withdrawal /\ tx'[w].granted = tx[w].granted
  <2>1. tx'[w] = [tx[w] EXCEPT !.pc = "read", !.seen = e]
    BY <1>1 DEF TypeOK
  <2>2. QED BY <1>2, <2>1 DEF Tx
<1>4. e # NoId => e \in History(tx[w].subject, tx[w].notice)
  BY <1>1 DEF Live, Current
<1>5. Knows(w)'
  BY <1>3, <1>4 DEF CaptureRead, TxInv, Knows, StartedOK, SeenOK, InsertedOK, History
<1>6. nextId <= nextId'
  BY LedgerAssumption DEF CaptureRead, TypeOK
<1>7. \A v \in Workers \ {w} : tx'[v] = tx[v]
  BY <1>1 DEF TypeOK
<1>8. TxInv'
  BY <1>3, <1>5, <1>6, <1>7, OneHandlerSteps DEF CaptureRead
<1>9. Ledger'
  BY <1>6, QuietStep DEF CaptureRead
<1>10. QED BY <1>8, <1>9

LEMMA WithdrawReadKeeps ==
  ASSUME TypeOK, TypeOK', TxInv, Ledger,
         NEW w \in Workers, NEW s \in Subjects, NEW c \in committed,
         NEW targets \in SUBSET PurposesOf[row[c].notice],
         WithdrawRead(w, s, c, targets)
  PROVE  TxInv' /\ Ledger'
<1>1. tx'[w] = [pc |-> "read", subject |-> s, notice |-> row[c].notice,
                withdrawal |-> TRUE, granted |-> row[c].granted \ targets,
                at |-> 0, seen |-> c, id |-> NoId]
  BY DEF WithdrawRead, TypeOK
<1>2. row[c].granted \subseteq PurposesOf[row[c].notice] /\ c # NoId
  BY DEF Ledger, ChainInv, TypeOK, Ids, NoId
<1>3. Knows(w)'
  BY <1>1, <1>2 DEF WithdrawRead, Knows, StartedOK, SeenOK, InsertedOK
<1>4. nextId <= nextId'
  BY LedgerAssumption DEF WithdrawRead, TypeOK
<1>5. TxInv'
  BY <1>1, <1>3, <1>4, OneHandlerSteps DEF WithdrawRead, TypeOK
<1>6. Ledger'
  BY <1>4, QuietStep DEF WithdrawRead
<1>7. QED BY <1>5, <1>6

LEMMA InsertKeeps ==
  ASSUME TypeOK, TypeOK', TxInv, Ledger, NEW w \in Workers, Insert(w)
  PROVE  TxInv' /\ Ledger'
<1>1. tx[w] \in Tx /\ nextId \in Ids /\ nextId \notin committed
  BY LedgerAssumption DEF Insert, TypeOK, Ids, Ledger, ChainInv
<1>2. /\ tx'[w].pc = "inserted" /\ tx'[w].id = nextId /\ tx'[w].seen = tx[w].seen
      /\ tx'[w].subject = tx[w].subject /\ tx'[w].notice = tx[w].notice
      /\ tx'[w].withdrawal = tx[w].withdrawal /\ tx'[w].granted = tx[w].granted
  <2>1. tx'[w] = [tx[w] EXCEPT !.pc = "inserted", !.id = nextId]
    BY DEF Insert, TypeOK
  <2>2. QED BY <1>1, <2>1 DEF Tx
<1>3. /\ row'[nextId] = [subject |-> tx[w].subject, notice |-> tx[w].notice,
                         supersedes |-> tx[w].seen,
                         at |-> IF tx[w].withdrawal THEN clock ELSE tx[w].at,
                         withdrawal |-> tx[w].withdrawal, granted |-> tx[w].granted]
      /\ \A i \in Ids \ {nextId} : row'[i] = row[i]
  BY <1>1 DEF Insert, TypeOK
<1>4. \A i \in committed : row'[i] = row[i]
  BY <1>1, <1>3 DEF TypeOK
<1>5. nextId <= nextId' /\ nextId < nextId'
  BY <1>1 DEF Insert, Ids
<1>6. Knows(w)'
  <2>1. tx[w].seen # NoId => tx[w].seen \in committed /\ tx[w].seen < nextId
    BY DEF Insert, TxInv, SeenOK, Ledger, ChainInv
  <2>2. \A e : e = tx[w].seen /\ e # NoId => ~Superseded(e)'
    BY <1>4, StableReads DEF Insert, Duplicate
  <2>3. InsertedOK(w)'
    BY <1>1, <1>2, <1>3, <1>5, <2>1, <2>2 DEF Insert, InsertedOK
  <2>4. SeenOK(w)'
    <3>1. tx[w].pc = "read" /\ committed' = committed /\ SeenOK(w)
      BY DEF Insert, TxInv
    <3>2. QED BY <1>2, <1>4, <3>1 DEF SeenOK
  <2>5. QED BY <1>2, <2>3, <2>4 DEF Knows, StartedOK
<1>7. \A v \in Workers \ {w} : tx[v].pc = "inserted" =>
        /\ tx[v].id \in Ids /\ tx[v].id # nextId
        /\ tx[w].seen = tx[v].seen => tx[v].seen = NoId
  BY <1>1 DEF Insert, MustWait, TxInv, InsertedOK, Ids
<1>8. \A v \in Workers \ {w} : tx'[v] = tx[v]
  BY DEF Insert, TypeOK
<1>9. TxInv'
  BY <1>2, <1>3, <1>4, <1>5, <1>6, <1>7, <1>8, OneHandlerSteps DEF Insert
<1>10. Ledger'
  BY <1>4, <1>5, QuietStep DEF Insert
<1>11. QED BY <1>9, <1>10

LEMMA ReleaseKeeps ==
  ASSUME TypeOK, TypeOK', TxInv, Ledger, NEW w \in Workers,
         InsertRefused(w) \/ Rollback(w)
  PROVE  TxInv' /\ Ledger'
<1>1. tx'[w] = IdleTx /\ \A v \in Workers \ {w} : tx'[v] = tx[v]
  BY DEF InsertRefused, Rollback, TypeOK
<1>2. committed' = committed /\ nextId' = nextId /\ lastAct' = lastAct
  BY DEF InsertRefused, Rollback
<1>3. \A i \in Ids : row'[i] = row[i] \/ (tx[w].pc = "inserted" /\ i = tx[w].id)
  BY DEF InsertRefused, Rollback, TypeOK
<1>4. \A i \in committed : row'[i] = row[i]
  BY <1>3 DEF TxInv, InsertedOK, TypeOK
<1>5. \A v \in Workers \ {w} : tx[v].pc = "inserted" => row'[tx[v].id] = row[tx[v].id]
  BY <1>3 DEF TxInv, InsertedOK, Exclusive
<1>6. Knows(w)'
  BY <1>1 DEF Knows, StartedOK, SeenOK, InsertedOK, IdleTx
<1>7. nextId <= nextId'
  BY <1>2, LedgerAssumption DEF TypeOK
<1>8. TxInv'
  BY <1>1, <1>2, <1>4, <1>5, <1>6, <1>7, OneHandlerSteps DEF IdleTx
<1>9. Ledger'
  BY <1>2, <1>4, <1>7, QuietStep
<1>10. QED BY <1>8, <1>9

LEMMA StandingStillKeeps ==
  ASSUME TypeOK, TypeOK', TxInv, Ledger, Tick \/ UNCHANGED vars
  PROVE  TxInv' /\ Ledger'
<1>1. /\ row' = row /\ committed' = committed /\ nextId' = nextId
      /\ tx' = tx /\ lastAct' = lastAct
  BY DEF Tick, vars
<1>2. nextId <= nextId'
  BY <1>1, LedgerAssumption DEF TypeOK
<1>3. \A v \in Workers : StartedOK(v)' /\ SeenOK(v)' /\ InsertedOK(v)'
  BY <1>1, <1>2, OthersKeepTx DEF TxInv
<1>4. Exclusive'
  BY <1>1 DEF Exclusive, TxInv
<1>5. Ledger'
  BY <1>1, <1>2, QuietStep
<1>6. QED BY <1>3, <1>4, <1>5 DEF TxInv

(* The commit                                                                *)

\* A commit adds one artefact at the head of its chain: it becomes the single
\* current answer of its pair and no other pair notices.
LEMMA CommitKeepsLedger ==
  ASSUME TypeOK, TxInv, Ledger, NEW w \in Workers, Commit(w)
  PROVE  Ledger'
<1> SUFFICES ASSUME NEW id, NEW e, NEW s, NEW n,
                    id = tx[w].id, e = tx[w].seen,
                    s = tx[w].subject, n = tx[w].notice
             PROVE  Ledger'
  OBVIOUS
<1>1. tx[w] \in Tx /\ tx[w].pc = "inserted" /\ InsertedOK(w) /\ SeenOK(w)
  BY DEF TypeOK, TxInv, Commit
<1>2. id \in Ids /\ id # NoId /\ id \notin committed /\ s \in Subjects /\ n \in Notices
  BY <1>1 DEF InsertedOK, Tx, Ids, NoId
<1>3. /\ row' = row /\ committed' = committed \cup {id} /\ nextId' = nextId
      /\ lastAct' = [lastAct EXCEPT ![<<s, n>>] = id]
  BY DEF Commit
<1>4. /\ row[id].subject = s /\ row[id].notice = n /\ row[id].supersedes = e
      /\ row[id].withdrawal = tx[w].withdrawal /\ row[id].granted = tx[w].granted
  BY <1>1 DEF InsertedOK
<1>5. e # NoId => e \in History(s, n) /\ ~Superseded(e) /\ e < id
  BY <1>1 DEF InsertedOK, SeenOK, History
<1>6. ASSUME NEW i PROVE Superseded(i)' <=> Superseded(i) \/ i = e
  BY <1>3, <1>4 DEF Superseded
<1>7. ~Superseded(id) /\ id # e
  BY <1>2, <1>5 DEF Superseded, Ledger, ChainStaysHome, History
<1>8. ASSUME NEW p \in Subjects, NEW q \in Notices
      PROVE  History(p, q)' = IF p = s /\ q = n THEN History(p, q) \cup {id}
                              ELSE History(p, q)
  BY <1>3, <1>4 DEF History
<1>9. ASSUME NEW p \in Subjects, NEW q \in Notices, ~(p = s /\ q = n)
      PROVE  /\ History(p, q)' = History(p, q)
             /\ Roots(p, q)' = Roots(p, q)
             /\ Current(p, q)' = Current(p, q)
             /\ lastAct'[<<p, q>>] = lastAct[<<p, q>>]
  <2>1. History(p, q)' = History(p, q)
    BY <1>8, <1>9
  <2>2. Roots(p, q)' = Roots(p, q)
    BY <1>3, <2>1 DEF Roots
  <2>3. \A i \in History(p, q) : i # e
    BY <1>2, <1>5, <1>9 DEF History, TypeOK, Ids, NoId
  <2>4. Current(p, q)' = Current(p, q)
    BY <1>6, <2>1, <2>3 DEF Current
  <2>5. <<p, q>> # <<s, n>>
    BY <1>9
  <2>6. lastAct'[<<p, q>>] = lastAct[<<p, q>>]
    BY <1>2, <1>3, <2>5 DEF TypeOK, Pairs
  <2>7. QED BY <2>1, <2>2, <2>4, <2>6
<1>10. /\ id \in History(s, n)' /\ id \in Current(s, n)'
       /\ lastAct'[<<s, n>>] = id
  BY <1>2, <1>3, <1>4, <1>6, <1>7 DEF History, Current, TypeOK, Pairs
<1>11. NoForks'
  BY <1>3, <1>4, <1>5 DEF Ledger, NoForks, Superseded
<1>12. ChainStaysHome'
  BY <1>1, <1>3, <1>4, <1>5 DEF Ledger, ChainStaysHome, History
<1>13. WithdrawalNarrows'
  BY <1>1, <1>3, <1>4 DEF Ledger, WithdrawalNarrows, SeenOK
<1>14. ChainInv'
  <2>1. \A i \in committed' : i < nextId'
    BY <1>1, <1>3 DEF InsertedOK, Ledger, ChainInv
  <2>2. \A i \in committed' : row'[i].granted \subseteq PurposesOf[row'[i].notice]
    BY <1>1, <1>3, <1>4 DEF SeenOK, Ledger, ChainInv
  <2>3. Roots(s, n)' # {}
    <3>1. CASE e = NoId
      BY <1>3, <1>4, <1>10, <3>1 DEF Roots
    <3>2. CASE e # NoId
      <4>1. PICK r : r \in Roots(s, n)
        BY <1>2, <1>5, <3>2 DEF Ledger, ChainInv
      <4>2. QED BY <1>2, <1>3, <1>8, <4>1 DEF Roots
    <3>3. QED BY <3>1, <3>2
  <2>4. ASSUME NEW p \in Subjects, NEW q \in Notices
        PROVE  /\ History(p, q)' # {} => Roots(p, q)' # {}
               /\ History(p, q)' = {} <=> lastAct'[<<p, q>>] = NoId
               /\ lastAct'[<<p, q>>] # NoId => lastAct'[<<p, q>>] \in Current(p, q)'
    <3>1. CASE p = s /\ q = n
      BY <1>2, <1>10, <2>3, <3>1
    <3>2. CASE ~(p = s /\ q = n)
      BY <1>9, <3>2 DEF Ledger, ChainInv
    <3>3. QED BY <3>1, <3>2
  <2>5. QED BY <2>1, <2>2, <2>4 DEF ChainInv
<1>15. ASSUME \A i, j \in Roots(s, n)' : i = j
       PROVE  Current(s, n)' = {id}
  <2>1. CASE e = NoId
    <3>1. id \in Roots(s, n)'
      BY <1>3, <1>4, <1>10, <2>1 DEF Roots
    <3>2. History(s, n) = {}
      <4>1. \A r \in Roots(s, n) : r \in Roots(s, n)' /\ r # id
        BY <1>2, <1>3, <1>8 DEF Roots, History
      <4>2. Roots(s, n) = {}
        BY <1>15, <3>1, <4>1
      <4>3. History(s, n) # {} => Roots(s, n) # {}
        BY <1>2 DEF Ledger, ChainInv
      <4>4. QED BY <4>2, <4>3
    <3>3. QED BY <1>2, <1>8, <1>10, <3>2 DEF Current
  <2>2. CASE e # NoId
    <3>1. Roots(s, n) \subseteq Roots(s, n)'
      BY <1>2, <1>3, <1>8 DEF Roots
    <3>2. Current(s, n) = {lastAct[<<s, n>>]} \ {NoId}
      BY <1>2, <1>15, <3>1 DEF Ledger, CurrentIsLastAct
    <3>3. e \in Current(s, n)
      BY <1>5, <2>2 DEF Current
    <3>4. \A i \in Current(s, n)' : i = id \/ (i \in Current(s, n) /\ i # e)
      BY <1>2, <1>6, <1>8 DEF Current
    <3>5. QED BY <1>10, <3>2, <3>3, <3>4
  <2>3. QED BY <2>1, <2>2
<1>16. CurrentIsLastAct'
  <2> SUFFICES ASSUME NEW p \in Subjects, NEW q \in Notices,
                      \A i, j \in Roots(p, q)' : i = j
               PROVE  Current(p, q)' = {lastAct'[<<p, q>>]} \ {NoId}
    BY DEF CurrentIsLastAct
  <2>1. CASE p = s /\ q = n
    BY <1>2, <1>10, <1>15, <2>1
  <2>2. CASE ~(p = s /\ q = n)
    BY <1>9, <2>2 DEF Ledger, CurrentIsLastAct
  <2>3. QED BY <2>1, <2>2
<1>17. QED BY <1>11, <1>12, <1>13, <1>14, <1>16 DEF Ledger

LEMMA CommitKeepsTx ==
  ASSUME TypeOK, TxInv, Ledger, NEW w \in Workers, Commit(w)
  PROVE  TxInv'
<1>1. /\ row' = row /\ committed' = committed \cup {tx[w].id} /\ nextId' = nextId
      /\ tx'[w] = IdleTx /\ \A v \in Workers \ {w} : tx'[v] = tx[v]
  BY DEF Commit, TypeOK
<1>2. tx[w].pc = "inserted" /\ row[tx[w].id].supersedes = tx[w].seen
  BY DEF Commit, TxInv, InsertedOK
<1>3. ASSUME NEW i PROVE Superseded(i)' <=> Superseded(i) \/ i = tx[w].seen
  BY <1>1, <1>2 DEF Superseded
<1>4. \A v \in Workers : StartedOK(v)' /\ SeenOK(v)' /\ InsertedOK(v)'
  <2> TAKE v \in Workers
  <2>1. CASE v = w
    BY <1>1, <2>1 DEF StartedOK, SeenOK, InsertedOK, IdleTx
  <2>2. CASE v # w
    <3>1. tx'[v] = tx[v] /\ StartedOK(v) /\ SeenOK(v) /\ InsertedOK(v)
      BY <1>1, <2>2 DEF TxInv
    <3>2. StartedOK(v)' /\ SeenOK(v)'
      BY <1>1, <3>1 DEF StartedOK, SeenOK
    <3>3. tx[v].pc = "inserted" =>
            tx[v].id # tx[w].id /\ (tx[v].seen # NoId => tx[v].seen # tx[w].seen)
      BY <1>2, <2>2 DEF TxInv, Exclusive
    <3>4. InsertedOK(v)'
      BY <1>1, <1>3, <3>1, <3>3 DEF InsertedOK
    <3>5. QED BY <3>2, <3>4
  <2>3. QED BY <2>1, <2>2
<1>5. Exclusive'
  BY <1>1 DEF TxInv, Exclusive, IdleTx
<1>6. QED BY <1>4, <1>5 DEF TxInv

(* The invariant and the theorems                                            *)

\* A ledger with first answers only, each the whole history of its own pair.
LEMMA InitLedger == Init => Ledger
<1> SUFFICES ASSUME Init PROVE Ledger
  OBVIOUS
<1>1. ASSUME NEW p \in Answered
      PROVE  /\ FirstId[p] \in committed /\ FirstId[p] \in Ids
             /\ row[FirstId[p]] = FirstRow(p)
             /\ p = <<p[1], p[2]>> /\ p[1] \in Subjects /\ p[2] \in Notices
  <2>1. FirstId[p] \in committed /\ FirstId[p] \in Ids
    BY LedgerAssumption DEF Init, Ids
  <2>2. (CHOOSE q \in Answered : FirstId[q] = FirstId[p]) = p
    BY LedgerAssumption
  <2>3. p = <<p[1], p[2]>> /\ p[1] \in Subjects /\ p[2] \in Notices
    BY LedgerAssumption
  <2>4. QED BY <2>1, <2>2, <2>3 DEF Init
<1>2. ASSUME NEW i \in committed
      PROVE  \E p \in Answered : i = FirstId[p] /\ row[i] = FirstRow(p)
  <2>1. PICK p \in Answered : i = FirstId[p]
    BY DEF Init
  <2>2. QED BY <1>1, <2>1
<1>3. \A i \in committed : /\ row[i].supersedes = NoId /\ ~row[i].withdrawal
                           /\ row[i].granted = PurposesOf[row[i].notice]
  <2> TAKE i \in committed
  <2>1. PICK p \in Answered : row[i] = FirstRow(p)
    BY <1>2
  <2>2. QED BY <2>1 DEF FirstRow
<1>4. ASSUME NEW s \in Subjects, NEW n \in Notices
      PROVE  /\ Current(s, n) = {lastAct[<<s, n>>]} \ {NoId}
             /\ Roots(s, n) = Current(s, n)
             /\ History(s, n) = Current(s, n)
  <2>1. Roots(s, n) = History(s, n)
    BY <1>3 DEF Roots, History
  <2>2. Current(s, n) = History(s, n)
    <3>1. \A i \in History(s, n) : i \in Ids
      BY <1>1, <1>2 DEF History
    <3>2. \A i \in Ids : ~Superseded(i)
      BY <1>3 DEF Superseded, Ids, NoId
    <3>3. QED BY <3>1, <3>2 DEF Current
  <2>3. CASE <<s, n>> \in Answered
    <3>1. FirstId[<<s, n>>] \in History(s, n) /\ FirstId[<<s, n>>] # NoId
      <4>1. FirstRow(<<s, n>>).subject = s /\ FirstRow(<<s, n>>).notice = n
        BY DEF FirstRow
      <4>2. QED BY <1>1, <2>3, <4>1 DEF History, Ids, NoId
    <3>2. ASSUME NEW i \in History(s, n) PROVE i = FirstId[<<s, n>>]
      <4>1. PICK p \in Answered : i = FirstId[p] /\ row[i] = FirstRow(p)
        BY <1>2 DEF History
      <4>2. p[1] = s /\ p[2] = n
        BY <4>1 DEF History, FirstRow
      <4>3. QED BY <1>1, <4>1, <4>2
    <3>3. lastAct[<<s, n>>] = FirstId[<<s, n>>]
      BY <2>3 DEF Init, Pairs
    <3>4. QED BY <2>1, <2>2, <3>1, <3>2, <3>3
  <2>4. CASE <<s, n>> \notin Answered
    <3>1. ASSUME NEW i \in History(s, n) PROVE FALSE
      <4>1. PICK p \in Answered : i = FirstId[p] /\ row[i] = FirstRow(p)
        BY <1>2 DEF History
      <4>2. p[1] = s /\ p[2] = n
        BY <4>1 DEF History, FirstRow
      <4>3. QED BY <1>1, <2>4, <4>1, <4>2
    <3>2. lastAct[<<s, n>>] = NoId
      BY <2>4 DEF Init, Pairs
    <3>3. QED BY <2>1, <2>2, <3>1, <3>2
  <2>5. QED BY <2>3, <2>4
<1>5. NoForks /\ ChainStaysHome /\ WithdrawalNarrows
  BY <1>3 DEF NoForks, ChainStaysHome, WithdrawalNarrows
<1>6. CurrentIsLastAct
  BY <1>4 DEF CurrentIsLastAct
<1>7. ChainInv
  <2>1. \A i \in committed : i < nextId
    <3>1. \A i \in Ids : i \in committed <=> i < nextId
      BY DEF Init
    <3>2. QED BY <1>1, <1>2, <3>1
  <2>2. QED BY <1>3, <1>4, <2>1 DEF ChainInv
<1>8. QED BY <1>5, <1>6, <1>7 DEF Ledger

LEMMA InitIndInv == Init => IndInv
<1> SUFFICES ASSUME Init PROVE IndInv
  OBVIOUS
<1>1. TxInv
  BY DEF Init, TxInv, StartedOK, SeenOK, InsertedOK, Exclusive, IdleTx
<1>2. QED BY <1>1, InitTypeOK, InitLedger DEF IndInv, Ledger

LEMMA NextIndInv == IndInv /\ [Next]_vars => IndInv'
<1> SUFFICES ASSUME IndInv, [Next]_vars PROVE IndInv'
  OBVIOUS
<1>1. TypeOK /\ TxInv /\ Ledger
  BY DEF IndInv, Ledger
<1>2. TypeOK'
  BY <1>1, NextTypeOK
<1>3. TxInv' /\ Ledger'
  <2>1. CASE \E w \in Workers : Capture(w)
    BY <1>1, <1>2, <2>1, CaptureStartKeeps, CaptureReadKeeps DEF Capture
  <2>2. CASE \E w \in Workers : Withdraw(w)
    BY <1>1, <1>2, <2>2, WithdrawReadKeeps DEF Withdraw
  <2>3. CASE \E w \in Workers : Finish(w)
    BY <1>1, <1>2, <2>3, InsertKeeps, ReleaseKeeps, CommitKeepsLedger, CommitKeepsTx
       DEF Finish
  <2>4. CASE \E w \in Workers : Rollback(w)
    BY <1>1, <1>2, <2>4, ReleaseKeeps
  <2>5. CASE Tick \/ UNCHANGED vars
    BY <1>1, <1>2, <2>5, StandingStillKeeps
  <2>6. QED BY <2>1, <2>2, <2>3, <2>4, <2>5 DEF Next
<1>4. QED BY <1>2, <1>3 DEF IndInv, Ledger

\* The inductive invariant holds throughout.
THEOREM Invariance == Spec => []IndInv
BY InitIndInv, NextIndInv, PTL DEF Spec

\* The ledger's rows, open transactions and counters keep their types.
THEOREM TypeCorrect == Spec => []TypeOK
<1>1. IndInv => TypeOK
  BY DEF IndInv
<1>2. QED BY <1>1, Invariance, PTL

\* No artefact is ever superseded twice, however many requests race for it.
THEOREM ChainNeverForks == Spec => []NoForks
<1>1. IndInv => NoForks
  BY DEF IndInv
<1>2. QED BY <1>1, Invariance, PTL

\* Every supersession stays within one person's answers to one notice and
\* points back in time.
THEOREM ChainIsOnesOwn == Spec => []ChainStaysHome
<1>1. IndInv => ChainStaysHome
  BY DEF IndInv
<1>2. QED BY <1>1, Invariance, PTL

\* A withdrawal never resumes a purpose the superseded artefact refused.
THEOREM WithdrawalOnlyNarrows == Spec => []WithdrawalNarrows
<1>1. IndInv => WithdrawalNarrows
  BY DEF IndInv
<1>2. QED BY <1>1, Invariance, PTL

\* Where the first answer was not duplicated, v_current_consent shows exactly
\* the last committed act: no capture or withdrawal is lost to another.
THEOREM NoLostUpdate == Spec => []CurrentIsLastAct
<1>1. IndInv => CurrentIsLastAct
  BY DEF IndInv
<1>2. QED BY <1>1, Invariance, PTL

\* Export B never lists somebody whose last act, on an unforked chain, was a
\* withdrawal or a refusal of everything.
THEOREM ExportIsCurrent == Spec => []ExportFollowsLastAct
<1>1. IndInv => ExportFollowsLastAct
  <2> SUFFICES ASSUME IndInv, NEW p \in ConsentedList,
                      \A i, j \in Roots(p[1], p[2]) : i = j
               PROVE  ~row[lastAct[p]].withdrawal /\ row[lastAct[p]].granted # {}
    BY DEF ExportFollowsLastAct
  <2>1. p = <<p[1], p[2]>> /\ p[1] \in Subjects /\ p[2] \in Notices
    BY DEF ConsentedList, Pairs
  <2>2. PICK i \in Current(p[1], p[2]) : ~row[i].withdrawal /\ row[i].granted # {}
    BY DEF ConsentedList
  <2>3. i = lastAct[<<p[1], p[2]>>]
    BY <2>1, <2>2 DEF IndInv, CurrentIsLastAct
  <2>4. QED BY <2>1, <2>2, <2>3
<1>2. QED BY <1>1, Invariance, PTL

-----------------------------------------------------------------------------
(* The refinement of ConsentPromise, while the view shows one answer         *)

\* Only a commit changes what the views read, and of one handler's request.
LEMMA NoCommitNoChange ==
  ASSUME IndInv, [Next]_vars, ~\E w \in Workers : Commit(w)
  PROVE  committed' = committed /\ lastAct' = lastAct /\ \A i \in committed : row'[i] = row[i]
<1>1. committed' = committed /\ lastAct' = lastAct
  BY DEF Next, vars, Capture, CaptureStart, CaptureRead, Withdraw, WithdrawRead, Finish,
         Insert, InsertRefused, Rollback, Tick
<1>2. CASE row' = row
  BY <1>1, <1>2
<1>3. ASSUME NEW w \in Workers, Insert(w)
      PROVE  \A i \in committed : row'[i] = row[i]
  <2>1. \A i \in committed : i \in Ids /\ i # nextId
    BY LedgerAssumption DEF IndInv, TypeOK, ChainInv, Ids
  <2>2. QED BY <1>3, <2>1 DEF Insert, IndInv, TypeOK
<1>4. ASSUME NEW w \in Workers, Rollback(w)
      PROVE  \A i \in committed : row'[i] = row[i]
  BY <1>4 DEF Rollback, IndInv, TypeOK, TxInv, InsertedOK
<1>5. QED
  BY <1>1, <1>2, <1>3, <1>4
  DEF Next, vars, Capture, CaptureStart, CaptureRead, Withdraw, WithdrawRead, Finish,
      InsertRefused, Tick

\* If the view shows at most one artefact, it is the last act.
LEMMA CurrentIsLast ==
  ASSUME IndInv, OneCurrent, NEW s \in Subjects, NEW n \in Notices
  PROVE  Current(s, n) = {lastAct[<<s, n>>]} \ {NoId}
<1>1. CASE lastAct[<<s, n>>] = NoId
  BY <1>1 DEF IndInv, ChainInv, Current
<1>2. CASE lastAct[<<s, n>>] # NoId
  BY <1>2 DEF IndInv, ChainInv, OneCurrent
<1>3. QED BY <1>1, <1>2

\* What the view shows, as an answer: that of the last act, if there is one.
LastAnswer(last, rows) ==
  [p \in Pairs |-> IF last[p] = NoId THEN [given |-> FALSE, granted |-> {}]
                   ELSE [given |-> TRUE, granted |-> rows[last[p]].granted]]

LEMMA AnswerIsLast == IndInv /\ OneCurrent => PromisedAnswer = LastAnswer(lastAct, row)
<1> SUFFICES ASSUME IndInv, OneCurrent, NEW p \in Pairs
             PROVE  PromisedAnswer[p] = LastAnswer(lastAct, row)[p]
  BY DEF PromisedAnswer, LastAnswer
<1>1. p = <<p[1], p[2]>> /\ p[1] \in Subjects /\ p[2] \in Notices
  BY DEF Pairs
<1>2. Current(p[1], p[2]) = {lastAct[p]} \ {NoId}
  BY <1>1, CurrentIsLast
<1>3. CASE lastAct[p] = NoId
  BY <1>2, <1>3 DEF PromisedAnswer, LastAnswer
<1>4. CASE lastAct[p] # NoId
  <2>1. (CHOOSE i \in Current(p[1], p[2]) : TRUE) = lastAct[p]
    BY <1>2, <1>4
  <2>2. QED BY <1>2, <1>4, <2>1 DEF PromisedAnswer, LastAnswer
<1>5. QED BY <1>3, <1>4

\* The ledger begins with the promise's first answers.
LEMMA InitPromise ==
  ASSUME Init, OneCurrent
  PROVE  Promise!Init
<1>1. PromisedAnswer = LastAnswer(lastAct, row)
  BY InitIndInv, AnswerIsLast
<1>2. ASSUME NEW p \in Answered
      PROVE  /\ p \in Pairs /\ lastAct[p] = FirstId[p] /\ lastAct[p] # NoId
             /\ row[lastAct[p]].granted = PurposesOf[p[2]]
  <2>1. p \in Pairs /\ lastAct[p] = FirstId[p] /\ FirstId[p] \in Ids
    BY <1>2, LedgerAssumption DEF Init, Ids, Pairs
  <2>2. (CHOOSE q \in Answered : FirstId[q] = FirstId[p]) = p
    BY <1>2, LedgerAssumption
  <2>3. row[FirstId[p]] = FirstRow(p)
    BY <2>1, <2>2 DEF Init
  <2>4. QED BY <2>1, <2>3 DEF FirstRow, Ids, NoId
<1>3. ASSUME NEW p \in Pairs, p \notin Answered
      PROVE  lastAct[p] = NoId
  BY <1>3 DEF Init
<1>4. LastAnswer(lastAct, row) =
        [p \in Pairs |-> IF p \in Answered THEN [given |-> TRUE, granted |-> PurposesOf[p[2]]]
                         ELSE [given |-> FALSE, granted |-> {}]]
  BY <1>2, <1>3 DEF LastAnswer
<1>5. QED BY <1>1, <1>4 DEF Promise!Init, Promise!Given, Promise!Unanswered, Pairs

\* A commit is one act of the subject on the answer that stands; no other step
\* changes an answer.
LEMMA StepKeepsPromise ==
  ASSUME IndInv, OneCurrent, [Next]_vars,
         PromisedAnswer = LastAnswer(lastAct, row),
         PromisedAnswer' = LastAnswer(lastAct', row')
  PROVE  [Promise!Next]_PromisedAnswer
<1>1. CASE ~\E w \in Workers : Commit(w)
  <2>1. lastAct' = lastAct /\ \A i \in committed : row'[i] = row[i]
    BY <1>1, NoCommitNoChange
  <2>2. \A p \in Pairs : lastAct[p] # NoId => lastAct[p] \in committed
    BY DEF IndInv, ChainInv, Pairs, Current, History
  <2>3. LastAnswer(lastAct', row') = LastAnswer(lastAct, row)
    BY <2>1, <2>2 DEF LastAnswer
  <2>4. QED BY <2>3
<1>2. ASSUME NEW w \in Workers, Commit(w)
      PROVE  Promise!Next
  <2> SUFFICES ASSUME NEW id, NEW e, NEW s, NEW n, NEW grants,
                      id = tx[w].id, e = tx[w].seen, s = tx[w].subject, n = tx[w].notice,
                      grants = tx[w].granted
               PROVE  Promise!Next
    OBVIOUS
  <2>1. /\ tx[w].pc = "inserted" /\ tx[w] \in Tx
        /\ s \in Subjects /\ n \in Notices /\ <<s, n>> \in Pairs
        /\ row' = row /\ lastAct' = [lastAct EXCEPT ![<<s, n>>] = id]
    BY <1>2 DEF Commit, IndInv, TypeOK, Tx, Pairs
  <2>2. InsertedOK(w) /\ SeenOK(w)
    BY DEF IndInv, TxInv
  <2>3. /\ row[id].granted = grants /\ grants \subseteq PurposesOf[n]
        /\ id \in Ids /\ id # NoId
    BY <2>1, <2>2 DEF InsertedOK, SeenOK, Ids, NoId
  <2>4. PromisedAnswer' = [PromisedAnswer EXCEPT ![<<s, n>>] = [given |-> TRUE, granted |-> grants]]
    <3>1. lastAct \in [Pairs -> Ids \cup {NoId}]
      BY DEF IndInv, TypeOK
    <3>2. LastAnswer(lastAct', row) =
            [LastAnswer(lastAct, row) EXCEPT ![<<s, n>>] = [given |-> TRUE, granted |-> grants]]
      BY <2>1, <2>3, <3>1 DEF LastAnswer
    <3>3. QED BY <2>1, <3>2
  <2>5. CASE tx[w].withdrawal
    <3>1. e # NoId /\ grants \subseteq row[e].granted /\ e \in Current(s, n)
      BY <2>1, <2>2, <2>5 DEF InsertedOK, SeenOK, Current, History
    <3>2. e = lastAct[<<s, n>>]
      BY <2>1, <3>1, CurrentIsLast
    <3>3. PromisedAnswer[<<s, n>>] = [given |-> TRUE, granted |-> row[e].granted]
      BY <2>1, <3>1, <3>2 DEF LastAnswer
    <3>4. row[e].granted \subseteq PurposesOf[n]
      <4>1. row[e].notice = n /\ e \in committed
        BY <3>1 DEF Current, History
      <4>2. row[e].granted \subseteq PurposesOf[row[e].notice]
        BY <4>1 DEF IndInv, ChainInv
      <4>3. QED BY <4>1, <4>2
    <3> DEFINE targets == row[e].granted \ grants
    <3>5. targets \in SUBSET PurposesOf[n] /\ row[e].granted \ targets = grants
      BY <3>1, <3>4
    <3>6. Promise!WithdrawConsent(s, n)
      <4>1. /\ PromisedAnswer[<<s, n>>].given
            /\ PromisedAnswer[<<s, n>>].granted \ targets = grants
        BY <3>3, <3>5
      <4> HIDE DEF targets
      <4>2. QED BY <2>4, <3>5, <4>1 DEF Promise!WithdrawConsent, Promise!Given
    <3>7. QED BY <2>1, <3>6 DEF Promise!Next
  <2>6. CASE ~tx[w].withdrawal
    <3>1. Mandatory[n] \subseteq grants /\ grants \in SUBSET PurposesOf[n]
      BY <2>1, <2>2, <2>3, <2>6 DEF SeenOK
    <3>2. Promise!GiveConsent(s, n)
      BY <2>4, <3>1 DEF Promise!GiveConsent, Promise!Given
    <3>3. QED BY <2>1, <3>2 DEF Promise!Next
  <2>7. QED BY <2>5, <2>6
<1>3. QED BY <1>1, <1>2

\* capture() and withdraw() implement ConsentPromise as long as the view shows one
\* answer: each request takes effect at its commit, on the answer that then stands,
\* whatever the others read, wait for or roll back.
THEOREM LedgerKeepsPromise == Spec /\ []OneCurrent => KeepsPromise
<1>1. Init /\ OneCurrent => Promise!Init
  BY InitPromise
<1>2. IndInv /\ OneCurrent /\ IndInv' /\ OneCurrent' /\ [Next]_vars
        => [Promise!Next]_PromisedAnswer
  <2>1. (IndInv /\ OneCurrent => PromisedAnswer = LastAnswer(lastAct, row))
          /\ (IndInv /\ OneCurrent => PromisedAnswer = LastAnswer(lastAct, row))'
    BY AnswerIsLast, PTL
  <2>2. QED BY <2>1, StepKeepsPromise
<1>3. QED BY <1>1, <1>2, Invariance, PTL DEF Spec, KeepsPromise, Promise!Spec

-----------------------------------------------------------------------------
(* The view shows one answer once every first answer is recorded             *)

\* Every pair has its one root, and nobody is about to insert another.
Rooted ==
  /\ \A s \in Subjects, n \in Notices :
       /\ lastAct[<<s, n>>] # NoId
       /\ \A i, j \in Roots(s, n) : i = j
  /\ \A w \in Workers : tx[w].pc \in {"read", "inserted"} => tx[w].seen # NoId

LEMMA InitRooted ==
  ASSUME Init, Answered = Pairs
  PROVE  Rooted
<1>1. \A p \in Pairs : FirstId[p] \in Ids /\ lastAct[p] = FirstId[p]
  BY LedgerAssumption DEF Init, Ids
<1>2. ASSUME NEW s \in Subjects, NEW n \in Notices
      PROVE  lastAct[<<s, n>>] # NoId /\ \A i, j \in Roots(s, n) : i = j
  <2>1. lastAct[<<s, n>>] # NoId
    BY <1>1 DEF Pairs, Ids, NoId
  <2>2. ASSUME NEW i \in Roots(s, n)
        PROVE  i = FirstId[<<s, n>>]
    <3>1. i \in committed /\ row[i].subject = s /\ row[i].notice = n
      BY DEF Roots, History
    <3>2. PICK p \in Answered : FirstId[p] = i
      BY <3>1 DEF Init
    <3>3. (CHOOSE q \in Answered : FirstId[q] = i) = p
      BY <3>2, LedgerAssumption
    <3>4. i \in Ids /\ row[i] = FirstRow(p)
      BY <1>1, <3>2, <3>3 DEF Init
    <3>5. p[1] = s /\ p[2] = n
      BY <3>1, <3>4 DEF FirstRow
    <3>6. QED BY <3>2, <3>5 DEF Pairs
  <2>3. QED BY <2>1, <2>2
<1>3. \A w \in Workers : tx[w].pc = "idle"
  BY DEF Init, IdleTx
<1>4. QED BY <1>2, <1>3 DEF Rooted

\* On a chain with one root the view shows the last act, and every reader finds it.
LEMMA RootedCurrent ==
  ASSUME IndInv, Rooted, NEW s \in Subjects, NEW n \in Notices
  PROVE  /\ Current(s, n) = {lastAct[<<s, n>>]}
         /\ Live(s, n) = {lastAct[<<s, n>>]}
         /\ lastAct[<<s, n>>] \in committed
         /\ row[lastAct[<<s, n>>]].subject = s /\ row[lastAct[<<s, n>>]].notice = n
<1> DEFINE a == lastAct[<<s, n>>]
<1>1. Current(s, n) = {a}
  BY DEF IndInv, CurrentIsLastAct, Rooted
<1>2. a \in committed /\ row[a].subject = s /\ row[a].notice = n
  BY <1>1 DEF Current, History
<1>3. row[a].at \in 0..MaxTime
  BY <1>2 DEF IndInv, TypeOK, Artefact
<1>4. row[a].at <= row[a].at
  BY <1>3, LedgerAssumption
<1>5. QED BY <1>1, <1>2, <1>4 DEF Live

LEMMA NextRooted ==
  ASSUME IndInv, Rooted, [Next]_vars
  PROVE  Rooted'
<1>1. ASSUME NEW w \in Workers, Commit(w)
      PROVE  Rooted'
  <2> SUFFICES ASSUME NEW id, NEW e, NEW s, NEW n,
                      id = tx[w].id, e = tx[w].seen, s = tx[w].subject, n = tx[w].notice
               PROVE  Rooted'
    OBVIOUS
  <2>1. /\ tx[w] \in Tx /\ id \in Ids /\ id # NoId /\ row[id].supersedes = e /\ e # NoId
        /\ s \in Subjects /\ n \in Notices
    BY <1>1 DEF Commit, IndInv, TypeOK, TxInv, InsertedOK, Rooted, Ids, NoId, Tx
  <2>2. /\ row' = row /\ committed' = committed \cup {id}
        /\ lastAct' = [lastAct EXCEPT ![<<s, n>>] = id]
        /\ tx'[w] = IdleTx /\ \A v \in Workers \ {w} : tx'[v] = tx[v]
    BY <1>1 DEF Commit, IndInv, TypeOK
  <2>3. \A t \in Subjects, m \in Notices : Roots(t, m)' = Roots(t, m)
    BY <2>1, <2>2 DEF Roots, History
  <2>4. \A t \in Subjects, m \in Notices : lastAct'[<<t, m>>] # NoId
    <3> SUFFICES ASSUME NEW t \in Subjects, NEW m \in Notices
                 PROVE  lastAct'[<<t, m>>] # NoId
      OBVIOUS
    <3>1. <<t, m>> \in Pairs /\ lastAct[<<t, m>>] # NoId /\ lastAct \in [Pairs -> Ids \cup {NoId}]
      BY DEF Pairs, Rooted, IndInv, TypeOK
    <3>2. QED BY <2>1, <2>2, <3>1
  <2>5. \A v \in Workers : tx'[v].pc \in {"read", "inserted"} => tx'[v].seen # NoId
    BY <2>2 DEF Rooted, IdleTx
  <2>6. QED BY <2>3, <2>4, <2>5 DEF Rooted
<1>2. CASE ~\E w \in Workers : Commit(w)
  <2>1. committed' = committed /\ lastAct' = lastAct /\ \A i \in committed : row'[i] = row[i]
    BY <1>2, NoCommitNoChange
  <2>2. \A s \in Subjects, n \in Notices : Roots(s, n)' = Roots(s, n)
    BY <2>1, StableReads
  <2>3. \A w \in Workers : tx'[w].pc \in {"read", "inserted"} => tx'[w].seen # NoId
    <3>1. ASSUME NEW w \in Workers, CaptureRead(w)
          PROVE  tx'[w].seen # NoId
      <4>1. tx[w] \in Tx
        BY DEF IndInv, TypeOK
      <4>2. Live(tx[w].subject, tx[w].notice) = {lastAct[<<tx[w].subject, tx[w].notice>>]}
        BY <4>1, RootedCurrent DEF Tx
      <4>3. lastAct[<<tx[w].subject, tx[w].notice>>] # NoId
        BY <4>1 DEF Rooted, Tx
      <4>4. PICK e : /\ e = lastAct[<<tx[w].subject, tx[w].notice>>]
                     /\ tx' = [tx EXCEPT ![w].pc = "read", ![w].seen = e]
        BY <3>1, <4>2 DEF CaptureRead
      <4>5. tx'[w] = [tx[w] EXCEPT !.pc = "read", !.seen = e]
        BY <4>4 DEF IndInv, TypeOK
      <4>6. QED BY <4>1, <4>3, <4>4, <4>5 DEF Tx
    <3>2. ASSUME NEW w \in Workers, NEW s \in Subjects, NEW c \in committed, NEW ts,
                 WithdrawRead(w, s, c, ts)
          PROVE  tx'[w].seen # NoId
      BY <3>2 DEF WithdrawRead, IndInv, TypeOK, Ids, NoId
    <3>3. ASSUME NEW w \in Workers, Insert(w)
          PROVE  tx'[w].seen # NoId
      <4>1. tx[w] \in Tx /\ tx[w].seen # NoId
        BY <3>3 DEF Insert, IndInv, TypeOK, Rooted
      <4>2. tx'[w] = [tx[w] EXCEPT !.pc = "inserted", !.id = nextId]
        BY <3>3 DEF Insert, IndInv, TypeOK
      <4>3. QED BY <4>1, <4>2 DEF Tx
    <3>4. ASSUME NEW w \in Workers, NEW s \in Subjects, NEW n \in Notices, NEW answer,
                 CaptureStart(w, s, n, answer)
          PROVE  tx'[w].pc = "started"
      BY <3>4 DEF CaptureStart, IndInv, TypeOK
    <3>5. ASSUME NEW w \in Workers, InsertRefused(w) \/ Rollback(w)
          PROVE  tx'[w].pc = "idle"
      BY <3>5 DEF InsertRefused, Rollback, IdleTx, IndInv, TypeOK
    <3>6. ASSUME NEW w \in Workers,
                 Capture(w) \/ Withdraw(w) \/ Insert(w) \/ InsertRefused(w) \/ Rollback(w)
          PROVE  \A v \in Workers \ {w} : tx'[v] = tx[v]
      BY <3>6 DEF Capture, CaptureStart, CaptureRead, Withdraw, WithdrawRead, Insert,
                  InsertRefused, Rollback, IndInv, TypeOK
    <3>7. CASE tx' = tx
      BY <3>7 DEF Rooted
    <3>8. ASSUME NEW w \in Workers,
                 Capture(w) \/ Withdraw(w) \/ Insert(w) \/ InsertRefused(w) \/ Rollback(w)
          PROVE  tx'[w].pc \in {"read", "inserted"} => tx'[w].seen # NoId
      BY <3>1, <3>2, <3>3, <3>4, <3>5, <3>8 DEF Capture, Withdraw
    <3>9. CASE \E w \in Workers :
                 Capture(w) \/ Withdraw(w) \/ Insert(w) \/ InsertRefused(w) \/ Rollback(w)
      BY <3>6, <3>8, <3>9 DEF Rooted
    <3>10. QED BY <1>2, <3>7, <3>9 DEF Next, vars, Finish, Tick
  <2>4. QED BY <2>1, <2>2, <2>3 DEF Rooted
<1>3. QED BY <1>1, <1>2

\* Every pair keeps its one root.
LEMMA StaysRooted ==
  ASSUME Answered = Pairs
  PROVE  Spec => []Rooted
<1>1. Init => Rooted
  BY InitRooted
<1>2. IndInv /\ Rooted /\ [Next]_vars => Rooted'
  BY NextRooted
<1>3. QED BY <1>1, <1>2, Invariance, PTL DEF Spec

\* Two first captures at once are the only way to two current answers: where every
\* first answer is recorded, re-captures and withdrawals never leave two.
THEOREM OnlyFirstAnswersCollide ==
  ASSUME Answered = Pairs
  PROVE  Spec => []OneCurrent
<1>1. IndInv /\ Rooted => OneCurrent
  BY RootedCurrent DEF OneCurrent
<1>2. QED BY <1>1, Invariance, StaysRooted, PTL
=============================================================================
