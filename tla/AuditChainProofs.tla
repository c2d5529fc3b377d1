-------------------------- MODULE AuditChainProofs --------------------------
(***************************************************************************)
(* Theorems about AuditChain, for any number of writers and ids, and about *)
(* Paging, for lists of any length: how the trail is written, and how it   *)
(* is read, page by page like every list.                                  *)
(*                                                                         *)
(* AuditChain.  What is true of the committed rows is true of what each    *)
(* transaction can see: the lock makes the rows of one transaction at a    *)
(* time the end of one trail, and a rollback gives up that end and nothing *)
(* before it.  To its readers the trail only grows, by whole changes: the  *)
(* rows of a transaction follow the newest row, which stays the newest     *)
(* until they are committed, and that is what TrailPromise has.            *)
(*                                                                         *)
(* Paging.  Between two pages the rows shown once are those that are not   *)
(* beyond the cursor.  That the query has a result is a lemma: the rows of *)
(* a page are found one by one, each the first of those that are left.     *)
(***************************************************************************)
EXTENDS AuditChain, Paging, FiniteSetTheorems, TLAPS

\* A trail: rows T with the hashes p that each recorded of its predecessor.
\* The predecessor of a row is on the trail.
Closed(T, p) == \A i \in T : p[i][1] \in T \cup {NoId}

\* Following the predecessors never turns in a circle.
Founded(T, p) == \A S \in SUBSET T : S # {} => \E i \in S : p[i][1] \notin S

\* If all predecessors have smaller ids, each is the next smaller one.
InOrder(T, p) ==
  (\A i \in T : p[i][1] < i) =>
    \A i \in T : LET before == {j \in T : j < i}
                 IN  before # {} => p[i][1] = Max(before)

Trail(T, p) == Closed(T, p) /\ Founded(T, p) /\ InOrder(T, p)

\* One transaction at a time has rows that are not committed.
LockIsExclusive ==
  \A v, w \in Writers : HoldsLock(v) /\ HoldsLock(w) => v = w

\* A recorded hash that was recomputed is that of a row that was altered.
HashesExplained ==
  \A i \in Ids : prev[i][2] => prev[i][1] \in Ids /\ altered[prev[i][1]] = "rehashed"

IndInv ==
  /\ TypeOK
  /\ LockIsExclusive
  /\ HashesExplained
  /\ Trail(rows, prev)
  /\ \A w \in Writers : Trail(Visible(w), prev)

(* Trails                                                                    *)

\* A set of ids that is not empty has a largest element.
LEMMA MaxOfIds ==
  ASSUME NEW T \in SUBSET Ids, T # {}
  PROVE  Max(T) \in T /\ \A i \in T : i <= Max(T)
<1> DEFINE Above == {n \in Nat : \A i \in T : i <= n}
           R == OpToRel(<, Nat)
<1>1. MaxId \in Above
  BY AuditAssumption DEF Ids
<1>2. PICK n \in Above : \A m \in Above : <<m, n>> \notin R
  <2>1. IsWellFoundedOn(R, Nat)
    BY NatLessThanWellFounded
  <2> HIDE DEF R
  <2>2. QED BY <1>1, <2>1, WFMin
<1>3. \A m \in Above : ~(m < n)
  BY <1>2 DEF OpToRel
<1>4. n \in T
  <2>1. CASE n = 0
    <3>1. PICK i \in T : i <= 0
      BY <1>2, <2>1
    <3>2. QED BY <3>1, AuditAssumption DEF Ids
  <2>2. CASE n # 0
    <3>1. n - 1 \in Nat /\ n - 1 \notin Above
      BY <1>3, <2>2
    <3>2. PICK i \in T : ~(i <= n - 1)
      BY <3>1
    <3>3. i = n
      BY <3>2, AuditAssumption DEF Ids
    <3>4. QED BY <3>3
  <2>3. QED BY <2>1, <2>2
<1>5. \E x \in T : \A y \in T : x >= y
  BY <1>4, AuditAssumption DEF Ids
<1>6. Max(T) \in T /\ \A y \in T : Max(T) >= y
  BY <1>5 DEF Max
<1>7. QED BY <1>6, AuditAssumption DEF Ids

\* What a trail is depends on the hashes of its own rows only.
LEMMA SameTrail ==
  ASSUME NEW T, NEW p, NEW q, \A i \in T : p[i] = q[i], Trail(T, p)
  PROVE  Trail(T, q)
<1>1. Closed(T, q)
  BY DEF Trail, Closed
<1>2. Founded(T, q)
  <2> SUFFICES ASSUME NEW S \in SUBSET T, S # {} PROVE \E i \in S : q[i][1] \notin S
    BY DEF Founded
  <2>1. PICK i \in S : p[i][1] \notin S
    BY DEF Trail, Founded
  <2>2. QED BY <2>1
<1>3. InOrder(T, q)
  BY DEF Trail, InOrder
<1>4. QED BY <1>1, <1>2, <1>3 DEF Trail

LEMMA EmptyTrail == ASSUME NEW p PROVE Trail({}, p)
BY DEF Trail, Closed, Founded, InOrder

\* A row chained to the largest id there is continues the trail.
LEMMA LongerTrail ==
  ASSUME NEW T \in SUBSET Ids, NEW d \in Ids, d \notin T, NEW p, NEW q,
         Trail(T, p), \A i \in T : q[i] = p[i],
         q[d][1] = IF T = {} THEN NoId ELSE Max(T)
  PROVE  Trail(T \cup {d}, q)
<1> DEFINE U == T \cup {d}
<1>0. \A i \in U : i \in Int
  BY AuditAssumption DEF Ids
<1>1. q[d][1] \in T \cup {NoId} /\ \A i \in T : q[i][1] \in T \cup {NoId}
  BY MaxOfIds DEF Trail, Closed
<1>2. d # NoId
  BY DEF Ids, NoId
<1>3. Closed(U, q)
  BY <1>1 DEF Closed
<1>4. Founded(U, q)
  <2> SUFFICES ASSUME NEW S \in SUBSET U, S # {} PROVE \E i \in S : q[i][1] \notin S
    BY DEF Founded
  <2>1. CASE S \ {d} = {}
    BY <1>1, <1>2, <2>1
  <2>2. CASE S \ {d} # {}
    <3>1. S \ {d} \in SUBSET T
      OBVIOUS
    <3>2. PICK i \in S \ {d} : p[i][1] \notin S \ {d}
      BY <2>2, <3>1 DEF Trail, Founded
    <3>3. i \in T /\ q[i] = p[i] /\ q[i][1] # d
      BY <1>1, <1>2, <3>2
    <3>4. QED BY <3>2, <3>3
  <2>3. QED BY <2>1, <2>2
<1>5. InOrder(U, q)
  <2> SUFFICES ASSUME \A i \in U : q[i][1] < i, NEW i \in U, {j \in U : j < i} # {}
               PROVE  q[i][1] = Max({j \in U : j < i})
    BY DEF InOrder
  <2>1. \A j \in T : j < d
    <3>1. CASE T = {}
      BY <3>1
    <3>2. CASE T # {}
      <4>1. Max(T) \in T /\ (\A j \in T : j <= Max(T)) /\ Max(T) < d
        BY <3>2, MaxOfIds DEF NoId
      <4>2. QED BY <1>0, <4>1
    <3>3. QED BY <3>1, <3>2
  <2>2. CASE i = d
    <3>1. {j \in U : j < i} = T
      BY <1>0, <2>1, <2>2
    <3>2. QED BY <2>2, <3>1
  <2>3. CASE i \in T
    <3>1. {j \in U : j < i} = {j \in T : j < i}
      BY <1>0, <2>1, <2>3
    <3>2. \A k \in T : p[k][1] < k
      OBVIOUS
    <3>3. p[i][1] = Max({j \in T : j < i})
      BY <2>3, <3>1, <3>2 DEF Trail, InOrder
    <3>4. QED BY <2>3, <3>1, <3>3
  <2>4. QED BY <2>2, <2>3
<1>6. QED BY <1>3, <1>4, <1>5 DEF Trail

(* Types                                                                     *)

\* The ids a transaction has drawn, for the row in hand and the rows inserted.
Mine(w) == tx[w].own \cup ({tx[w].drawn} \ {NoId})

\* The part of TypeOK about one transaction and the others.
OwnsApart ==
  \A w \in Writers :
    /\ Mine(w) \subseteq 1..(nextId - 1)
    /\ Mine(w) \cap rows = {}
    /\ tx[w].drawn \notin tx[w].own
    /\ \A v \in Writers \ {w} : Mine(w) \cap (tx[v].own \cup {tx[v].drawn}) = {}

LEMMA IdleType == Idle \in Tx
BY DEF Idle, Tx

LEMMA InitTypeOK == Init => TypeOK
<1> SUFFICES ASSUME Init PROVE TypeOK
  OBVIOUS
<1>1. tx \in [Writers -> Tx] /\ \A w \in Writers : tx[w] = Idle
  BY IdleType DEF Init
<1>2. prev \in [Ids -> Hash \cup {NoHash}]
  BY DEF Init
<1>3. nextId \in 1..(MaxId + 1) /\ rows \subseteq 1..(nextId - 1)
  BY AuditAssumption DEF Init
<1>4. OwnsApart
  BY <1>1 DEF OwnsApart, Mine, Idle, NoId
<1>5. QED BY <1>1, <1>2, <1>3, <1>4 DEF Init, TypeOK, OwnsApart, Mine

\* A transaction that gives up ids, or moves one from the row in hand to the rows
\* inserted, stays apart from the others.
LEMMA FewerIds ==
  ASSUME TypeOK, NEW w \in Writers, tx' \in [Writers -> Tx],
         \A v \in Writers \ {w} : tx'[v] = tx[v],
         tx'[w].own \cup ({tx'[w].drawn} \ {NoId}) \subseteq Mine(w),
         tx'[w].drawn \notin tx'[w].own,
         nextId' = nextId,
         rows' = rows \/ (rows' = rows \cup Mine(w) /\ Mine(w)' = {})
  PROVE  OwnsApart'
<1>1. OwnsApart
  BY DEF TypeOK, OwnsApart, Mine
<1>2. \A v \in Writers : Mine(v)' \subseteq Mine(v)
  BY DEF Mine
<1>3. \A v \in Writers : NoId \notin Mine(v)
  BY <1>1, AuditAssumption DEF OwnsApart, Mine, TypeOK, NoId
<1>4. \A v \in Writers : /\ Mine(v)' \subseteq 1..(nextId' - 1)
                         /\ tx'[v].drawn \notin tx'[v].own
  BY <1>1, <1>2 DEF OwnsApart
<1>5. \A v \in Writers : Mine(v)' \cap rows' = {}
  <2>1. \A v \in Writers \ {w} : Mine(v) \cap Mine(w) = {}
    BY <1>1 DEF OwnsApart, Mine
  <2>2. QED BY <1>1, <1>2, <2>1 DEF OwnsApart
<1>6. ASSUME NEW u \in Writers, NEW v \in Writers \ {u}
      PROVE  Mine(u)' \cap (tx'[v].own \cup {tx'[v].drawn}) = {}
  <2>1. tx'[v].own \cup {tx'[v].drawn} \subseteq tx[v].own \cup {tx[v].drawn, NoId}
    BY DEF Mine
  <2>2. Mine(u) \cap (tx[v].own \cup {tx[v].drawn}) = {}
    BY <1>1 DEF OwnsApart
  <2>3. QED BY <1>2, <1>3, <2>1, <2>2
<1>7. QED BY <1>4, <1>5, <1>6 DEF OwnsApart

LEMMA VisibleIds ==
  ASSUME TypeOK
  PROVE  rows \subseteq Ids /\ \A w \in Writers : Visible(w) \subseteq Ids
<1>1. nextId \in 1..(MaxId + 1) /\ rows \subseteq 1..(nextId - 1)
  BY DEF TypeOK
<1>2. rows \subseteq Ids
  BY <1>1, AuditAssumption DEF Ids
<1>3. \A w \in Writers : tx[w].own \subseteq Ids
  BY DEF TypeOK, Tx
<1>4. QED BY <1>2, <1>3 DEF Visible

LEMMA NextTypeOK ==
  ASSUME TypeOK, [Next]_vars
  PROVE  TypeOK'
<1>1. OwnsApart
  BY DEF TypeOK, OwnsApart, Mine
<1>2. ASSUME OwnsApart', tx' \in [Writers -> Tx], nextId' = nextId, found' \in BOOLEAN,
             rows' \subseteq 1..(nextId' - 1), prev' \in [Ids -> Hash \cup {NoHash}],
             altered' \in [Ids -> {"no", "edited", "rehashed"}]
      PROVE  TypeOK'
  BY <1>2 DEF TypeOK, OwnsApart, Mine
<1>3. ASSUME NEW w \in Writers, Draw(w)
      PROVE  TypeOK'
  <2>1. nextId \in Ids /\ nextId' = nextId + 1 /\ nextId \in Nat
    BY <1>3, AuditAssumption DEF Draw, TypeOK, Ids
  <2>2. [tx[w] EXCEPT !.drawn = nextId] \in Tx
    BY <2>1 DEF TypeOK, Tx
  <2>3. tx' \in [Writers -> Tx]
    BY <1>3, <2>2 DEF Draw, TypeOK
  <2>4. /\ tx'[w].drawn = nextId /\ tx'[w].own = tx[w].own
        /\ \A v \in Writers \ {w} : tx'[v] = tx[v]
    BY <1>3 DEF Draw, TypeOK, Tx
  <2>5. \A i \in 1..(nextId - 1) : i # nextId /\ i \in 1..(nextId' - 1)
    BY <2>1
  <2>6. nextId # NoId /\ nextId \in 1..(nextId' - 1)
    BY <2>1 DEF Ids, NoId
  <2>7. ASSUME NEW v \in Writers
        PROVE  nextId \notin tx[v].own \cup {tx[v].drawn} /\ nextId \notin rows
    BY <1>1, <2>5, <2>6 DEF OwnsApart, Mine, TypeOK
  <2>8. OwnsApart'
    <3>1. \A v \in Writers : Mine(v)' = IF v = w THEN Mine(v) \cup {nextId} ELSE Mine(v)
      BY <1>3, <2>4, <2>6 DEF Mine, Draw
    <3>2. rows' = rows
      BY <1>3 DEF Draw
    <3>3. \A v \in Writers : /\ Mine(v)' \subseteq 1..(nextId' - 1)
                             /\ Mine(v)' \cap rows' = {}
                             /\ tx'[v].drawn \notin tx'[v].own
      BY <1>1, <2>4, <2>5, <2>6, <2>7, <3>1, <3>2 DEF OwnsApart
    <3>4. ASSUME NEW u \in Writers, NEW v \in Writers \ {u}
          PROVE  Mine(u)' \cap (tx'[v].own \cup {tx'[v].drawn}) = {}
      BY <1>1, <2>4, <2>5, <2>7, <3>1 DEF OwnsApart
    <3>5. QED BY <3>3, <3>4 DEF OwnsApart
  <2>9. QED BY <1>3, <2>1, <2>3, <2>5, <2>8, AuditAssumption DEF Draw, TypeOK, OwnsApart, Mine
<1>4. ASSUME NEW w \in Writers, Chain(w)
      PROVE  TypeOK'
  <2>1. tx[w] \in Tx /\ tx[w].drawn \in Ids
    BY <1>4 DEF Chain, TypeOK, Tx
  <2>2. Visible(w) \subseteq Ids
    BY <2>1, VisibleIds
  <2>3. (IF Visible(w) = {} THEN NoHash ELSE HashOf(Max(Visible(w)))) \in Hash \cup {NoHash}
    BY <2>2, MaxOfIds DEF HashOf, Hash
  <2>4. prev' \in [Ids -> Hash \cup {NoHash}]
    BY <1>4, <2>1, <2>3 DEF Chain, TypeOK
  <2>5. [drawn |-> NoId, own |-> tx[w].own \cup {tx[w].drawn}] \in Tx
    BY <2>1 DEF Tx
  <2>6. /\ tx' \in [Writers -> Tx] /\ \A v \in Writers \ {w} : tx'[v] = tx[v]
        /\ tx'[w] = [drawn |-> NoId, own |-> tx[w].own \cup {tx[w].drawn}]
    BY <1>4, <2>5 DEF Chain, TypeOK
  <2>7. NoId \notin Mine(w)
    BY <1>1, AuditAssumption DEF OwnsApart, NoId, TypeOK
  <2>8. OwnsApart'
    BY <1>4, <2>1, <2>6, <2>7, FewerIds DEF Mine, Chain
  <2>9. QED BY <1>2, <1>4, <2>4, <2>6, <2>8 DEF Chain, TypeOK
<1>5. ASSUME NEW w \in Writers, Commit(w) \/ Rollback(w)
      PROVE  TypeOK'
  <2>1. /\ tx' \in [Writers -> Tx] /\ \A v \in Writers \ {w} : tx'[v] = tx[v]
        /\ tx'[w] = Idle
    BY <1>5, IdleType DEF Commit, Rollback, TypeOK
  <2>2. rows' = rows \/ (rows' = rows \cup Mine(w) /\ Mine(w)' = {})
    BY <1>5, <2>1 DEF Commit, Rollback, Mine, Idle
  <2>3. OwnsApart'
    BY <1>5, <2>1, <2>2, FewerIds DEF Commit, Rollback, Idle, Mine, NoId
  <2>4. rows' \subseteq 1..(nextId' - 1)
    BY <1>1, <1>5, <2>2 DEF Commit, Rollback, TypeOK, OwnsApart
  <2>5. QED BY <1>2, <1>5, <2>1, <2>3, <2>4 DEF Commit, Rollback, TypeOK
<1>6. ASSUME NEW i \in Ids, Alter(i)
      PROVE  TypeOK'
  BY <1>1, <1>2, <1>6 DEF Alter, TypeOK, OwnsApart, Mine
<1>7. CASE Nightly \/ UNCHANGED vars
  BY <1>1, <1>2, <1>7 DEF Nightly, vars, TypeOK, OwnsApart, Mine
<1>8. QED BY <1>3, <1>4, <1>5, <1>6, <1>7 DEF Next, NightlyRecords, Proceed

(* The invariant                                                             *)

LEMMA InitIndInv == Init => IndInv
<1> SUFFICES ASSUME Init PROVE IndInv
  OBVIOUS
<1>1. rows = {} /\ \A w \in Writers : Visible(w) = {} /\ ~HoldsLock(w)
  BY DEF Init, Visible, HoldsLock, Idle
<1>2. HashesExplained
  BY DEF Init, HashesExplained, NoHash
<1>3. QED BY <1>1, <1>2, InitTypeOK, EmptyTrail DEF IndInv, LockIsExclusive

\* A step that leaves the recorded hashes alone keeps the invariant if what can be
\* seen is what some transaction saw, or the committed rows.
LEMMA NoNewRows ==
  ASSUME IndInv, TypeOK', LockIsExclusive', HashesExplained', prev' = prev,
         rows' = rows \/ \E v \in Writers : rows' = Visible(v),
         \A w \in Writers : \/ Visible(w)' = rows \/ Visible(w)' = Visible(w)
                            \/ \E v \in Writers : Visible(w)' = Visible(v)
  PROVE  IndInv'
<1>1. Trail(rows', prev')
  BY DEF IndInv
<1>2. \A w \in Writers : Trail(Visible(w)', prev')
  BY DEF IndInv
<1>3. QED BY <1>1, <1>2 DEF IndInv

LEMMA ChainKeeps ==
  ASSUME IndInv, TypeOK', NEW w \in Writers, Chain(w)
  PROVE  IndInv'
<1> DEFINE d == tx[w].drawn
           T == Visible(w)
<1>1. TypeOK /\ tx[w] \in Tx /\ d \in Ids /\ d # NoId
  BY DEF Chain, IndInv, TypeOK, Tx
<1>2. d \notin rows /\ \A v \in Writers : d \notin tx[v].own
  <2>1. d \in Mine(w)
    BY <1>1 DEF Mine
  <2>2. \A v \in Writers \ {w} : d \notin tx[v].own
    BY <1>1, <2>1 DEF TypeOK, Mine
  <2>3. QED BY <1>1, <2>1, <2>2 DEF TypeOK, Mine
<1>3. /\ prev'[d] = IF T = {} THEN NoHash ELSE HashOf(Max(T))
      /\ \A i \in Ids \ {d} : prev'[i] = prev[i]
      /\ rows' = rows /\ altered' = altered
      /\ tx'[w].own = tx[w].own \cup {d}
      /\ \A v \in Writers \ {w} : tx'[v] = tx[v]
  BY <1>1 DEF Chain, TypeOK
<1>4. T \in SUBSET Ids /\ d \notin T /\ rows \subseteq Ids
  BY <1>1, <1>2, VisibleIds DEF Visible
<1>5. \A v \in Writers \ {w} : tx[v].own = {}
  BY DEF Chain, LockFree, HoldsLock
<1>6. LockIsExclusive'
  BY <1>3, <1>5 DEF LockIsExclusive, HoldsLock
<1>7. HashesExplained'
  <2>1. T # {} => Max(T) \in Ids
    BY <1>4, MaxOfIds
  <2>2. prev'[d][2] => prev'[d][1] \in Ids /\ altered[prev'[d][1]] = "rehashed"
    <3>1. CASE T = {}
      BY <1>3, <3>1 DEF NoHash
    <3>2. CASE T # {}
      <4>1. prev'[d] = <<Max(T), altered[Max(T)] = "rehashed">>
        BY <1>3, <3>2 DEF HashOf
      <4>2. prev'[d][1] = Max(T) /\ prev'[d][2] = (altered[Max(T)] = "rehashed")
        BY <4>1
      <4>3. QED BY <2>1, <3>2, <4>2
    <3>3. QED BY <3>1, <3>2
  <2>3. QED BY <1>3, <2>2 DEF HashesExplained, IndInv
<1>8. Trail(rows', prev')
  BY <1>2, <1>3, <1>4, SameTrail DEF IndInv
<1>9. ASSUME NEW v \in Writers
      PROVE  Trail(Visible(v)', prev')
  <2>1. CASE v = w
    <3>1. Visible(w)' = T \cup {d}
      BY <1>3 DEF Visible
    <3>2. prev'[d][1] = IF T = {} THEN NoId ELSE Max(T)
      BY <1>3 DEF NoHash, HashOf
    <3>3. Trail(T, prev) /\ \A i \in T : prev'[i] = prev[i]
      BY <1>3, <1>4 DEF IndInv
    <3>4. Trail(T \cup {d}, prev')
      BY <1>1, <1>4, <3>2, <3>3, LongerTrail
    <3>5. QED BY <2>1, <3>1, <3>4
  <2>2. CASE v # w
    <3>1. Visible(v)' = rows'
      BY <1>3, <1>5, <2>2 DEF Visible
    <3>2. QED BY <1>8, <3>1
  <2>3. QED BY <2>1, <2>2
<1>10. QED BY <1>6, <1>7, <1>8, <1>9 DEF IndInv

LEMMA NextIndInv == IndInv /\ [Next]_vars => IndInv'
<1> SUFFICES ASSUME IndInv, [Next]_vars PROVE IndInv'
  OBVIOUS
<1>1. TypeOK /\ TypeOK'
  BY NextTypeOK DEF IndInv
<1>2. ASSUME NEW w \in Writers, Draw(w)
      PROVE  IndInv'
  <2>1. rows' = rows /\ prev' = prev /\ altered' = altered
    BY <1>2 DEF Draw
  <2>2. \A v \in Writers : tx'[v].own = tx[v].own
    BY <1>1, <1>2 DEF Draw, TypeOK, Tx
  <2>3. LockIsExclusive' /\ HashesExplained'
    BY <2>1, <2>2 DEF LockIsExclusive, HoldsLock, HashesExplained, IndInv
  <2>4. QED BY <1>1, <2>1, <2>2, <2>3, NoNewRows DEF Visible
<1>3. ASSUME NEW w \in Writers, Chain(w)
      PROVE  IndInv'
  BY <1>1, <1>3, ChainKeeps
<1>4. ASSUME NEW w \in Writers, Commit(w)
      PROVE  IndInv'
  <2>1. prev' = prev /\ altered' = altered /\ rows' = Visible(w)
    BY <1>4 DEF Commit, Visible
  <2>2. \A v \in Writers : tx'[v].own = {}
    BY <1>1, <1>4 DEF Commit, TypeOK, Idle, IndInv, LockIsExclusive, HoldsLock
  <2>3. LockIsExclusive' /\ HashesExplained'
    BY <2>1, <2>2 DEF LockIsExclusive, HoldsLock, HashesExplained, IndInv
  <2>4. \A v \in Writers : Visible(v)' = Visible(w)
    BY <2>1, <2>2 DEF Visible
  <2>5. QED BY <1>1, <2>1, <2>3, <2>4, NoNewRows
<1>5. ASSUME NEW w \in Writers, Rollback(w)
      PROVE  IndInv'
  <2>1. rows' = rows /\ prev' = prev /\ altered' = altered
    BY <1>5 DEF Rollback
  <2>2. tx'[w].own = {} /\ \A v \in Writers \ {w} : tx'[v] = tx[v]
    BY <1>1, <1>5 DEF Rollback, TypeOK, Idle
  <2>3. LockIsExclusive' /\ HashesExplained'
    BY <2>1, <2>2 DEF LockIsExclusive, HoldsLock, HashesExplained, IndInv
  <2>4. Visible(w)' = rows /\ \A v \in Writers \ {w} : Visible(v)' = Visible(v)
    BY <2>1, <2>2 DEF Visible
  <2>5. QED BY <1>1, <2>1, <2>3, <2>4, NoNewRows
<1>6. ASSUME NEW i \in Ids, Alter(i)
      PROVE  IndInv'
  <2>1. rows' = rows /\ prev' = prev /\ tx' = tx
    BY <1>6 DEF Alter
  <2>2. \A j \in Ids : altered[j] = "rehashed" => altered'[j] = "rehashed"
    BY <1>1, <1>6 DEF Alter, TypeOK
  <2>3. LockIsExclusive' /\ HashesExplained'
    BY <2>1, <2>2 DEF LockIsExclusive, HoldsLock, HashesExplained, IndInv
  <2>4. QED BY <1>1, <2>1, <2>3, NoNewRows DEF Visible
<1>7. CASE Nightly \/ UNCHANGED vars
  <2>1. rows' = rows /\ prev' = prev /\ tx' = tx /\ altered' = altered
    BY <1>7 DEF Nightly, vars
  <2>2. LockIsExclusive' /\ HashesExplained'
    BY <2>1 DEF LockIsExclusive, HoldsLock, HashesExplained, IndInv
  <2>3. QED BY <1>1, <2>1, <2>2, NoNewRows DEF Visible
<1>8. QED BY <1>2, <1>3, <1>4, <1>5, <1>6, <1>7 DEF Next, NightlyRecords, Proceed

\* The inductive invariant holds throughout.
THEOREM Invariance == Spec => []IndInv
BY InitIndInv, NextIndInv, PTL DEF Spec

\* The ids of rows and of open transactions never collide, whatever is rolled back.
THEOREM TypeCorrect == Spec => []TypeOK
<1>1. IndInv => TypeOK
  BY DEF IndInv
<1>2. QED BY <1>1, Invariance, PTL

\* A trail nobody has touched verifies as long as the rows were chained in the order
\* of their ids: all that is missing for "returns zero rows when the trail is intact".
THEOREM OrderedTrailIsIntact == Spec => []OrderedTrailVerifies
<1>1. IndInv => OrderedTrailVerifies
  <2> SUFFICES ASSUME IndInv, Untouched, \A i \in rows : prev[i][1] < i,
                      NEW i \in rows
               PROVE  Verifies(i, 0)
    BY DEF OrderedTrailVerifies, Intact
  <2> DEFINE before == {j \in rows : 0 <= j /\ j < i}
  <2>1. rows \subseteq Ids /\ before = {j \in rows : j < i}
    BY VisibleIds, AuditAssumption DEF IndInv, Ids
  <2>2. before # {} => prev[i][1] = Max(before)
    BY <2>1 DEF IndInv, Trail, InOrder
  <2>3. before # {} => Max(before) \in rows
    BY <2>1, MaxOfIds
  <2>4. i \in Ids /\ prev[i] \in Hash \cup {NoHash}
    BY <2>1 DEF IndInv, TypeOK
  <2>5. prev[i] = <<prev[i][1], prev[i][2]>> /\ prev[i][2] \in BOOLEAN
    <3>1. CASE prev[i] \in Ids \X BOOLEAN
      BY <3>1
    <3>2. CASE prev[i] = <<NoId, FALSE>>
      BY <3>2
    <3>3. QED BY <2>4, <3>1, <3>2 DEF Hash, NoHash
  <2>6. before # {} => prev[i] = HashOf(Max(before))
    <3> SUFFICES ASSUME before # {} PROVE prev[i] = HashOf(Max(before))
      OBVIOUS
    <3>1. altered[Max(before)] = "no"
      BY <2>3 DEF Untouched
    <3>2. ~prev[i][2]
      BY <2>2, <2>4, <3>1 DEF IndInv, HashesExplained
    <3>3. QED BY <2>2, <2>5, <3>1, <3>2 DEF HashOf
  <2>7. altered[i] # "edited"
    BY DEF Untouched
  <2>8. QED BY <2>6, <2>7 DEF Verifies
<1>2. QED BY <1>1, Invariance, PTL

\* An altered row does not verify: the rows form no circle, so the row that recorded
\* the old hash, or one between the two, has a predecessor that is checked.
THEOREM AlterationShows == Spec => []DetectsAlteration
<1>1. IndInv => DetectsAlteration
  <2> SUFFICES ASSUME IndInv, Intact(0), NEW i \in rows,
                      \/ altered[i] = "edited"
                      \/ altered[i] = "rehashed" /\ \E j \in rows : prev[j] = <<i, FALSE>>
               PROVE  FALSE
    BY DEF DetectsAlteration
  <2> DEFINE Before(k) == {j \in rows : 0 <= j /\ j < k}
  <2>1. rows \subseteq Ids /\ \A k \in rows : k \in Int /\ 0 <= k
    <3>1. rows \subseteq Ids
      BY VisibleIds DEF IndInv
    <3>2. QED BY <3>1, AuditAssumption DEF Ids
  <2>2. ASSUME NEW k \in rows
        PROVE  /\ altered[k] # "edited"
               /\ Before(k) # {} => /\ prev[k] = HashOf(Max(Before(k)))
                                   /\ Max(Before(k)) \in Before(k)
                                   /\ \A j \in Before(k) : j <= Max(Before(k))
    <3>1. Verifies(k, 0)
      BY <2>1 DEF Intact
    <3>2. Before(k) \in SUBSET Ids
      BY <2>1
    <3>3. QED BY <3>1, <3>2, MaxOfIds DEF Verifies
  <2>3. PICK j \in rows : prev[j] = <<i, FALSE>> /\ altered[i] = "rehashed"
    BY <2>2
  <2>4. Before(j) = {}
    <3> SUFFICES ASSUME Before(j) # {} PROVE FALSE
      OBVIOUS
    <3>1. <<i, FALSE>> = <<Max(Before(j)), altered[Max(Before(j))] = "rehashed">>
      BY <2>2, <2>3 DEF HashOf
    <3>2. i = Max(Before(j)) /\ (altered[Max(Before(j))] = "rehashed") = FALSE
      BY <3>1
    <3>3. QED BY <2>3, <3>2
  <2>5. \A k \in rows : j <= k
    BY <2>1, <2>4
  <2>6. ASSUME NEW k \in rows
        PROVE  prev[k][1] \in rows
    <3>1. CASE k = j
      BY <2>3, <3>1
    <3>2. CASE k # j
      <4>1. j \in Before(k)
        BY <2>1, <2>5, <3>2
      <4>2. prev[k][1] = Max(Before(k))
        BY <2>2, <4>1 DEF HashOf
      <4>3. QED BY <2>2, <4>1, <4>2
    <3>3. QED BY <3>1, <3>2
  <2>7. QED BY <2>6 DEF IndInv, Trail, Founded
<1>2. QED BY <1>1, Invariance, PTL
-----------------------------------------------------------------------------
(* Transactions implement TrailPromise                                     *)

\* The rows of a transaction follow one another, and the first the newest committed
\* one: the row in hand was drawn after them, and nobody commits in between.
OwnOrdered ==
  \A w \in Writers :
    /\ tx[w].drawn # NoId => \A j \in tx[w].own : j < tx[w].drawn
    /\ \A i \in tx[w].own :
         Promise!NewestOf(prev[i][1], rows \cup {j \in tx[w].own : j < i})

\* Only the holder of the lock has rows, and chaining adds the one it drew last.
LEMMA ChainIsOrdered ==
  ASSUME IndInv, OwnOrdered, NEW w \in Writers, Chain(w)
  PROVE  OwnOrdered'
<1> DEFINE d == tx[w].drawn
           own == tx[w].own
<1>1. TypeOK /\ tx[w] \in Tx /\ d \in Ids /\ d # NoId /\ own \subseteq Ids
  BY DEF Chain, IndInv, TypeOK, Tx
<1>2. d \in Int /\ \A j \in own : j < d /\ j \in Int /\ j # d
  BY <1>1, AuditAssumption DEF OwnOrdered, Ids
<1>3. /\ prev'[d] = IF Visible(w) = {} THEN NoHash ELSE HashOf(Max(Visible(w)))
      /\ \A i \in Ids \ {d} : prev'[i] = prev[i]
      /\ rows' = rows
      /\ tx'[w].own = own \cup {d} /\ tx'[w].drawn = NoId
      /\ \A v \in Writers \ {w} : tx'[v] = tx[v] /\ tx'[v].own = {}
  BY <1>1 DEF Chain, TypeOK, LockFree, HoldsLock
<1>4. Promise!NewestOf(prev'[d][1], Visible(w))
  <2>1. Visible(w) \in SUBSET Ids
    BY <1>1, VisibleIds
  <2>2. CASE Visible(w) = {}
    BY <1>3, <2>2 DEF Promise!NewestOf, NoHash
  <2>3. CASE Visible(w) # {}
    BY <1>3, <2>1, <2>3, MaxOfIds DEF Promise!NewestOf, HashOf
  <2>4. QED BY <2>2, <2>3
<1>5. {j \in tx'[w].own : j < d} = own
  BY <1>2, <1>3
<1>6. ASSUME NEW i \in own
      PROVE  {j \in tx'[w].own : j < i} = {j \in own : j < i} /\ prev'[i] = prev[i]
  <2>1. i # d /\ i \in Ids /\ ~(d < i)
    BY <1>1, <1>2
  <2>2. QED BY <1>3, <2>1
<1>7. \A i \in tx'[w].own : Promise!NewestOf(prev'[i][1], rows \cup {j \in tx'[w].own : j < i})
  <2>1. Promise!NewestOf(prev'[d][1], rows \cup {j \in tx'[w].own : j < d})
    BY <1>4, <1>5 DEF Visible
  <2>2. \A i \in own : Promise!NewestOf(prev[i][1], rows \cup {j \in own : j < i})
    BY DEF OwnOrdered
  <2>3. \A i \in own : Promise!NewestOf(prev'[i][1], rows \cup {j \in tx'[w].own : j < i})
    BY <1>6, <2>2
  <2>4. QED BY <1>3, <2>1, <2>3
<1>8. QED BY <1>3, <1>7 DEF OwnOrdered

LEMMA NextKeepsOrder == IndInv /\ OwnOrdered /\ [Next]_vars => OwnOrdered'
<1> SUFFICES ASSUME IndInv, OwnOrdered, [Next]_vars PROVE OwnOrdered'
  OBVIOUS
<1>1. TypeOK
  BY DEF IndInv
<1>2. ASSUME NEW w \in Writers, Draw(w)
      PROVE  OwnOrdered'
  <2>1. /\ rows' = rows /\ prev' = prev
        /\ tx'[w].own = tx[w].own /\ tx'[w].drawn = nextId
        /\ \A v \in Writers \ {w} : tx'[v] = tx[v]
    BY <1>1, <1>2 DEF Draw, TypeOK, Tx
  <2>2. \A j \in tx[w].own : j < nextId
    BY <1>1, AuditAssumption DEF TypeOK
  <2>3. QED BY <2>1, <2>2 DEF OwnOrdered
<1>3. ASSUME NEW w \in Writers, Commit(w)
      PROVE  OwnOrdered'
  <2>1. \A v \in Writers : tx'[v].own = {}
    BY <1>1, <1>3 DEF Commit, TypeOK, Idle, IndInv, LockIsExclusive, HoldsLock
  <2>2. QED BY <2>1 DEF OwnOrdered
<1>4. ASSUME NEW w \in Writers, Rollback(w)
      PROVE  OwnOrdered'
  <2>1. /\ rows' = rows /\ prev' = prev /\ tx'[w].own = {}
        /\ \A v \in Writers \ {w} : tx'[v] = tx[v]
    BY <1>1, <1>4 DEF Rollback, TypeOK, Idle
  <2>2. QED BY <2>1 DEF OwnOrdered
<1>5. CASE UNCHANGED <<rows, prev, tx>>
  BY <1>5 DEF OwnOrdered
<1>6. QED
  BY <1>2, <1>3, <1>4, <1>5, ChainIsOrdered
  DEF Next, NightlyRecords, Proceed, Alter, Nightly, vars

LEMMA CommitAppends ==
  ASSUME IndInv, OwnOrdered, NEW w \in Writers, Commit(w)
  PROVE  Promise!Next
<1>1. TypeOK
  BY DEF IndInv
<1>2. PICK S \in SUBSET Ids : S = tx[w].own
  BY <1>1 DEF TypeOK, Tx
<1>3. /\ S # {} /\ S \cap rows = {} /\ rows \subseteq Ids
      /\ rows' = rows \cup S /\ UNCHANGED <<prev, altered>>
  BY <1>1, <1>2, VisibleIds DEF Commit, HoldsLock, TypeOK
<1>4. /\ \A i \in Ids \ S : Recorded'[i] = Recorded[i]
      /\ \A i \in S : Recorded'[i] = prev[i]
  BY <1>3 DEF Recorded
<1>5. Recorded' \in [Ids -> (Ids \cup {NoId}) \X BOOLEAN]
  <2>1. NoHash \in (Ids \cup {NoId}) \X BOOLEAN
    BY DEF NoHash
  <2>2. Hash \subseteq (Ids \cup {NoId}) \X BOOLEAN
    BY DEF Hash
  <2>3. \A i \in Ids : prev[i] \in (Ids \cup {NoId}) \X BOOLEAN
    BY <1>1, <2>1, <2>2 DEF TypeOK
  <2>4. QED BY <1>3, <2>1, <2>3 DEF Recorded
<1>6. ASSUME NEW i \in S
      PROVE  /\ Promise!NewestOf(Recorded'[i][1], rows \cup {j \in S : j < i})
             /\ Recorded'[i][2] => altered[Recorded'[i][1]] = "rehashed"
  BY <1>2, <1>4 DEF OwnOrdered, IndInv, HashesExplained
<1>7. Promise!Append(S)
  BY <1>3, <1>4, <1>5, <1>6 DEF Promise!Append
<1>8. QED BY <1>7 DEF Promise!Next

LEMMA ChainIsPromised ==
  ASSUME IndInv, OwnOrdered, [Next]_vars
  PROVE  [Promise!Next]_(Promise!promiseVars)
<1>1. TypeOK
  BY DEF IndInv
<1>2. ASSUME NEW w \in Writers, Chain(w)
      PROVE  UNCHANGED Promise!promiseVars
  <2>1. tx[w].drawn \in Ids /\ tx[w].drawn \notin rows
    BY <1>1, <1>2 DEF Chain, TypeOK, Tx
  <2>2. UNCHANGED <<rows, altered>> /\ \A i \in rows : prev'[i] = prev[i]
    BY <1>1, <1>2, <2>1, VisibleIds DEF Chain, TypeOK
  <2>3. Recorded' = Recorded
    BY <2>2 DEF Recorded
  <2>4. QED BY <2>2, <2>3 DEF Promise!promiseVars
<1>3. ASSUME NEW i \in Ids, Alter(i)
      PROVE  Promise!Next
  <2>1. Recorded' = Recorded
    BY <1>3 DEF Alter, Recorded
  <2>2. Promise!Alter(i)
    BY <1>3, <2>1 DEF Alter, Promise!Alter
  <2>3. QED BY <2>2 DEF Promise!Next
<1>4. CASE UNCHANGED <<rows, prev, altered>>
  BY <1>4 DEF Promise!promiseVars, Recorded
<1>5. QED
  BY <1>2, <1>3, <1>4, CommitAppends
  DEF Next, NightlyRecords, Proceed, Draw, Rollback, Nightly, vars

LEMMA InitIsPromised == Init => Promise!Init /\ OwnOrdered
<1> SUFFICES ASSUME Init PROVE Promise!Init /\ OwnOrdered
  OBVIOUS
<1>1. OwnOrdered
  BY DEF Init, OwnOrdered, Idle
<1>2. QED BY <1>1 DEF Init, Promise!Init, Recorded, NoHash

\* Recording implements TrailPromise: whatever transactions draw, wait, roll back or are
\* cut off, the trail its readers see grows by whole changes, each row recording the
\* newest row there was (record, cmp_audit_chain).
THEOREM TrailKeepsPromise == Spec => KeepsPromise
<1>1. IndInv /\ [Next]_vars => IndInv'
  BY NextIndInv
<1>2. IndInv /\ OwnOrdered /\ [Next]_vars => OwnOrdered'
  BY NextKeepsOrder
<1>3. IndInv /\ OwnOrdered /\ [Next]_vars => [Promise!Next]_(Promise!promiseVars)
  BY ChainIsPromised
<1>4. QED
  BY <1>1, <1>2, <1>3, InitIndInv, InitIsPromised, PTL DEF Spec, KeepsPromise, Promise!Spec
-----------------------------------------------------------------------------
(* The first rows of an ordered list, and its last one                     *)

LEMMA LeastNat ==
  ASSUME NEW S \in SUBSET Nat, S # {}
  PROVE  \E n \in S : \A m \in S : n <= m
<1> DEFINE R == OpToRel(<, Nat)
<1>1. IsWellFoundedOn(R, Nat)
  BY NatLessThanWellFounded
<1> HIDE DEF R
<1>2. PICK n \in S : \A m \in S : <<m, n>> \notin R
  BY <1>1, WFMin
<1>3. \A m \in S : ~(m < n)
  BY <1>2 DEF OpToRel, R
<1>4. QED BY <1>3

\* A non-empty set of rows has a first and a last row in the order of the column.
LEMMA LexEnds ==
  ASSUME NEW S \in SUBSET Rows, S # {}, \A i \in S : key[i] \in 0..Null
  PROVE  /\ \E e \in S : \A j \in S \ {e} : Lex(key[e], e, key[j], j)
         /\ \E e \in S : \A j \in S \ {e} : Lex(key[j], j, key[e], e)
<1>1. MaxRow \in Nat /\ Null \in Nat /\ S \subseteq 1..MaxRow
  BY PagingAssumption DEF Rows, Null
<1>0. \A i \in S : key[i] \in Nat /\ Null - key[i] \in Nat /\ i \in Nat /\ MaxRow - i \in Nat
  BY <1>1
<1>2. \E e \in S : \A j \in S \ {e} : Lex(key[e], e, key[j], j)
  <2> DEFINE K == {key[i] : i \in S}
  <2>1. PICK k \in K : \A m \in K : k <= m
    <3>1. K \in SUBSET Nat
      BY <1>0
    <3>2. K # {}
      OBVIOUS
    <3>3. QED BY <3>1, <3>2, LeastNat
  <2> DEFINE T == {i \in S : key[i] = k}
  <2>2. PICK e \in T : \A m \in T : e <= m
    <3>1. T \in SUBSET Nat /\ T # {}
      BY <1>1, <2>1
    <3>2. QED BY <3>1, LeastNat
  <2>3. ASSUME NEW j \in S \ {e} PROVE Lex(key[e], e, key[j], j)
    <3>1. /\ key[e] = k /\ k <= key[j]
          /\ key[e] \in Nat /\ key[j] \in Nat /\ e \in Nat /\ j \in Nat
      BY <1>0, <2>1
    <3>2. key[j] = k => e <= j
      BY <2>2
    <3>3. QED BY <3>1, <3>2 DEF Lex
  <2>4. QED BY <2>3
<1>3. \E e \in S : \A j \in S \ {e} : Lex(key[j], j, key[e], e)
  <2> DEFINE K == {Null - key[i] : i \in S}
  <2>1. PICK k \in K : \A m \in K : k <= m
    <3>1. K \in SUBSET Nat
      BY <1>0
    <3>2. K # {}
      OBVIOUS
    <3>3. QED BY <3>1, <3>2, LeastNat
  <2> DEFINE T == {i \in S : Null - key[i] = k}
             D == {MaxRow - i : i \in T}
  <2>2. PICK d \in D : \A m \in D : d <= m
    <3>1. D \in SUBSET Nat /\ D # {}
      BY <1>1, <2>1
    <3>2. QED BY <3>1, LeastNat
  <2>3. PICK e \in T : d = MaxRow - e
    OBVIOUS
  <2>4. ASSUME NEW j \in S \ {e} PROVE Lex(key[j], j, key[e], e)
    <3>1. /\ Null - key[e] = k /\ k <= Null - key[j]
          /\ key[e] \in Nat /\ key[j] \in Nat /\ e \in Nat /\ j \in Nat
      BY <1>0, <2>1
    <3>2. key[j] = key[e] => MaxRow - e <= MaxRow - j
      BY <2>2, <2>3, <3>1
    <3>3. QED BY <1>1, <3>1, <3>2 DEF Lex
  <2>5. QED BY <2>4
<1>4. QED BY <1>2, <1>3

LEMMA RestType ==
  ASSUME PagingTypeOK
  PROVE  /\ Rest \in SUBSET Rows /\ IsFiniteSet(Rest) /\ Cardinality(Rest) \in Nat
         /\ \A i \in Rest : key[i] \in 0..Null
         /\ \A S \in SUBSET Rest : IsFiniteSet(S) /\ Cardinality(S) \in Nat
         /\ MaxRow \in Nat /\ MaxValue \in Nat /\ Null \in Nat
<1>1. MaxRow \in Nat /\ MaxValue \in Nat /\ Null \in Nat
  BY PagingAssumption DEF Null
<1>2. Rest \in SUBSET Rows /\ \A i \in Rest : key[i] \in 0..Null
  BY <1>1 DEF PagingTypeOK, Rest, Born, Values, Null, Unborn
<1>3. IsFiniteSet(Rows)
  BY <1>1, FS_Interval DEF Rows
<1>4. QED BY <1>1, <1>2, <1>3, FS_Subset, FS_CardinalityType

\* The rows of a page come before the others.
Leads(page) ==
  page \in SUBSET Rest /\ \A i \in page, j \in Rest \ page : After(key[j], j, key[i], i)

\* There is a page of every size up to that of the rest: the next row is the first of those
\* that are left.
LEMMA PageOfSize ==
  ASSUME PagingTypeOK, NEW size \in Nat, size <= Cardinality(Rest)
  PROVE  \E page : Leads(page) /\ Cardinality(page) = size
<1> DEFINE Missing ==
             {k \in Nat : k <= Cardinality(Rest)
                          /\ ~\E page : Leads(page) /\ Cardinality(page) = k}
<1>1. SUFFICES ASSUME Missing # {} PROVE FALSE
  OBVIOUS
<1>2. PICK k \in Missing : \A m \in Missing : k <= m
  BY <1>1, LeastNat
<1>3. k # 0
  <2>1. Leads({}) /\ Cardinality({}) = 0
    BY FS_EmptySet DEF Leads
  <2>2. QED BY <2>1
<1>4. k - 1 \in Nat /\ k - 1 < Cardinality(Rest) /\ k - 1 \notin Missing
  BY <1>2, <1>3, RestType
<1>5. PICK page : Leads(page) /\ Cardinality(page) = k - 1
  BY <1>4, RestType
<1> DEFINE left == Rest \ page
<1>6. left # {} /\ left \in SUBSET Rows /\ \A i \in left : key[i] \in 0..Null
  <2>1. page # Rest
    BY <1>4, <1>5, RestType
  <2>2. QED BY <1>5, <2>1, RestType DEF Leads
<1>7. PICK e \in left : \A j \in left \ {e} : After(key[j], j, key[e], e)
  BY <1>6, LexEnds DEF After
<1>8. Leads(page \cup {e})
  BY <1>5, <1>7 DEF Leads
<1>9. Cardinality(page \cup {e}) = k
  <2>1. IsFiniteSet(page) /\ e \notin page
    BY <1>5, RestType DEF Leads
  <2>2. QED BY <1>2, <1>4, <1>5, <2>1, FS_AddElement
<1>10. QED BY <1>2, <1>8, <1>9

\* What the query returns
LEMMA FirstRows ==
  ASSUME PagingTypeOK, NEW n \in Nat \ {0}
  PROVE  /\ Leads(First(n))
         /\ Cardinality(Rest) <= n => First(n) = Rest
         /\ Cardinality(Rest) > n => First(n) # {}
<1> DEFINE size == IF Cardinality(Rest) < n THEN Cardinality(Rest) ELSE n
<1>1. size \in Nat /\ size <= Cardinality(Rest)
  BY RestType
<1>2. PICK page : Leads(page) /\ Cardinality(page) = size
  BY <1>1, PageOfSize
<1>3. /\ First(n) \in SUBSET Rest /\ Cardinality(First(n)) = size
      /\ \A i \in First(n), j \in Rest \ First(n) : After(key[j], j, key[i], i)
  <2> DEFINE P(pg) == /\ Cardinality(pg) = size
                      /\ \A i \in pg, j \in Rest \ pg : After(key[j], j, key[i], i)
  <2>1. page \in SUBSET Rest /\ P(page)
    BY <1>2 DEF Leads
  <2>2. First(n) = CHOOSE pg \in SUBSET Rest : P(pg)
    BY DEF First
  <2> HIDE DEF P
  <2>3. First(n) \in SUBSET Rest /\ P(First(n))
    BY <2>1, <2>2
  <2>4. QED BY <2>3 DEF P
<1>4. Leads(First(n))
  BY <1>3 DEF Leads
<1>5. ASSUME Cardinality(Rest) <= n PROVE First(n) = Rest
  <2>1. size = Cardinality(Rest)
    BY <1>5, RestType
  <2>2. QED BY <1>3, <2>1, RestType, FS_Subset
<1>6. ASSUME Cardinality(Rest) > n PROVE First(n) # {}
  <2>1. size = n
    BY <1>6, RestType
  <2>2. QED BY <1>3, <2>1, FS_EmptySet
<1>7. QED BY <1>4, <1>5, <1>6

\* The row the cursor is made from
LEMMA LastRow ==
  ASSUME PagingTypeOK, NEW page \in SUBSET Rest, page # {}
  PROVE  /\ Last(page) \in page
         /\ \A j \in page \ {Last(page)} : After(key[Last(page)], Last(page), key[j], j)
<1>1. page \in SUBSET Rows /\ \A i \in page : key[i] \in 0..Null
  BY RestType
<1>2. \E i \in page : \A j \in page \ {i} : After(key[i], i, key[j], j)
  BY <1>1, LexEnds DEF After
<1>3. QED BY <1>2 DEF Last

-----------------------------------------------------------------------------
(* Paging: the invariant                                                   *)

\* A row that the next page may show
Beyond(i) ==
  cursor # NoCursor => key[i] # Null /\ After(key[i], i, cursor.value, cursor.id)

\* Rows that are still to be inserted have not been shown.
UnbornUnseen == \A i \in Rows \ Born : seen[i] = 0

\* While a walk goes on, a row that keeps its value has been shown once and is not beyond
\* the cursor, or has not been shown and is beyond it if it was there throughout.
WalkOK ==
  \A i \in Rows \ moved :
    /\ seen[i] <= 1
    /\ phase = "reading" /\ cursor.value # None =>
         /\ seen[i] = 1 => ~Beyond(i)
         /\ i \in since /\ key[i] # Null /\ seen[i] = 0 => Beyond(i)
    /\ phase = "over" /\ i \in since /\ key[i] # Null => seen[i] = 1

PagingInv == PagingTypeOK /\ UnbornUnseen /\ WalkOK
LEMMA InitPagingInv == PagingInit => PagingInv
<1> SUFFICES ASSUME PagingInit PROVE PagingInv
  OBVIOUS
<1>1. PagingTypeOK
  BY DEF PagingInit, PagingTypeOK, Born
<1>2. UnbornUnseen /\ WalkOK
  BY DEF PagingInit, UnbornUnseen, WalkOK
<1>3. QED BY <1>1, <1>2 DEF PagingInv

\* The rows of a page were still beyond the cursor: they are shown for the first time.
LEMMA ShowOnce ==
  ASSUME PagingInv, phase = "reading", cursor.value # None, NEW page \in SUBSET Rest,
         Show(page)
  PROVE  /\ seen' \in [Rows -> Nat]
         /\ \A i \in Rows \ Born : seen'[i] = 0
         /\ \A i \in Rows \ moved :
              /\ seen'[i] <= 1
              /\ i \in page => seen'[i] = 1
              /\ i \notin page => seen'[i] = seen[i]
<1>1. seen \in [Rows -> Nat] /\ Rest \subseteq Born
  BY DEF PagingInv, PagingTypeOK, Rest
<1>2. seen' \in [Rows -> Nat] /\ \A i \in Rows \ Born : seen'[i] = 0
  BY <1>1 DEF Show, PagingInv, UnbornUnseen
<1>3. ASSUME NEW i \in page \ moved PROVE seen[i] = 0
  <2>1. i \in Rows /\ Beyond(i)
    BY RestType DEF Rest, Beyond, PagingInv
  <2>2. seen[i] <= 1 /\ seen[i] # 1
    BY <2>1 DEF PagingInv, WalkOK
  <2>3. QED BY <1>1, <2>1, <2>2
<1>4. QED BY <1>1, <1>2, <1>3 DEF Show, PagingInv, WalkOK

\* After is an order: what comes after a row of the rest comes after the cursor.
LEMMA AfterOrder ==
  ASSUME NEW k \in Int, NEW l \in Int, NEW m \in Int, NEW i \in Int, NEW j \in Int, NEW h \in Int
  PROVE  /\ After(k, i, l, j) /\ After(l, j, m, h) => After(k, i, m, h)
         /\ ~(After(k, i, l, j) /\ After(l, j, k, i))
         /\ ~After(k, i, k, i)
BY DEF After, Lex

LEMMA NextPageKeeps ==
  ASSUME PagingInv, NEW n \in Limits, NextPage(n)
  PROVE  PagingInv'
<1> DEFINE page == First(n)
<1>1. /\ phase = "reading" /\ cursor.value # None /\ Show(page)
      /\ UNCHANGED <<column, key, listed, descending, since, moved>>
  BY DEF NextPage
<1>2. /\ Leads(page) /\ page \in SUBSET Rest
      /\ Cardinality(Rest) <= n => page = Rest
      /\ Cardinality(Rest) > n => page # {}
      /\ n \in Nat
  <2>1. n \in Nat \ {0}
    BY PagingAssumption
  <2>2. QED BY <2>1, FirstRows DEF PagingInv, Leads
<1> HIDE DEF page
<1>3. /\ seen' \in [Rows -> Nat]
      /\ \A i \in Rows \ Born : seen'[i] = 0
      /\ \A i \in Rows \ moved :
           /\ seen'[i] <= 1
           /\ i \in page => seen'[i] = 1
           /\ i \notin page => seen'[i] = seen[i]
  BY <1>1, <1>2, ShowOnce
<1>4. UnbornUnseen'
  BY <1>1, <1>3 DEF UnbornUnseen, Born
<1>5. /\ Rest \in SUBSET Rows /\ Rest \subseteq listed
      /\ \A i \in Rest : Beyond(i) /\ key[i] \in Values \cup {Null}
      /\ \A i \in listed : Beyond(i) => i \in Rest
  BY RestType DEF Rest, Beyond, PagingInv, PagingTypeOK, Born
<1>6. CASE Cardinality(Rest) <= n
  <2>1. phase' = "over" /\ cursor' = NoCursor
    BY <1>2, <1>6, RestType DEF NextPage, PagingInv
  <2>2. PagingTypeOK'
    BY <2>1, <1>1, <1>3 DEF PagingInv, PagingTypeOK, Born
  <2>3. ASSUME NEW i \in Rows \ moved, i \in since, key[i] # Null PROVE seen'[i] = 1
    <3>1. CASE i \in page
      BY <3>1, <1>3
    <3>2. CASE i \notin page
      <4>1. ~Beyond(i)
        BY <2>3, <3>2, <1>2, <1>5, <1>6 DEF PagingInv, PagingTypeOK
      <4>2. seen[i] # 0 /\ seen[i] <= 1 /\ seen[i] \in Nat
        BY <2>3, <4>1, <1>1 DEF PagingInv, PagingTypeOK, WalkOK
      <4>3. QED BY <3>2, <4>2, <1>3
    <3>3. QED BY <3>1, <3>2
  <2>4. WalkOK'
    BY <2>1, <2>3, <1>1, <1>3 DEF WalkOK
  <2>5. QED BY <2>2, <2>4, <1>4 DEF PagingInv
<1>7. CASE Cardinality(Rest) > n
  <2> DEFINE l == Last(page)
  <2>1. /\ phase' = "reading" /\ cursor' = CursorAt(l)
        /\ l \in page /\ \A j \in page \ {l} : After(key[l], l, key[j], j)
    BY <1>1, <1>2, <1>7, LastRow DEF NextPage, page, PagingInv
  <2> HIDE DEF l
  <2>2. l \in Rest /\ l \in Rows /\ key[l] \in Values \cup {Null}
    BY <2>1, <1>2, <1>5
  <2>3. cursor' \in Cursor /\ cursor' # NoCursor /\ cursor'.id = l
        /\ (cursor'.value # None => cursor'.value = key[l] /\ key[l] # Null)
    <3>1. MaxRow \in Nat /\ l # 0
      BY <2>2, PagingAssumption DEF Rows
    <3>2. QED BY <2>1, <2>2, <3>1 DEF CursorAt, Cursor, NoCursor, None
  <2>4. PagingTypeOK'
    BY <2>1, <2>3, <1>1, <1>3 DEF PagingInv, PagingTypeOK, Born
  <2>5. ASSUME NEW i \in Rows, cursor'.value # None
        PROVE  Beyond(i)' <=> key[i] # Null /\ After(key[i], i, key[l], l)
    BY <2>3, <2>5, <1>1 DEF Beyond, After
  <2>6. \A i \in Rows : key[i] \in Int /\ i \in Int
    BY PagingAssumption DEF PagingInv, PagingTypeOK, Values, Null, Unborn, Rows
  <2>7. cursor # NoCursor => cursor.value \in Int /\ cursor.id \in Int
    BY PagingAssumption DEF PagingInv, PagingTypeOK, Cursor, Values, None, Null, Rows
  <2>8. ASSUME NEW i \in Rows \ moved, cursor'.value # None, seen'[i] = 1
        PROVE  ~Beyond(i)'
    <3> SUFFICES ASSUME After(key[i], i, key[l], l), key[i] # Null PROVE FALSE
      BY <2>5, <2>8
    <3>1. CASE i \in page
      <4>1. CASE i = l
        BY <4>1, <2>6, AfterOrder
      <4>2. CASE i # l
        BY <4>2, <3>1, <2>1, <2>2, <2>6, AfterOrder
      <4>3. QED BY <4>1, <4>2
    <3>2. CASE i \notin page
      <4>1. seen[i] = 1 /\ ~Beyond(i)
        BY <3>2, <2>8, <1>1, <1>3 DEF PagingInv, WalkOK
      <4>2. cursor # NoCursor /\ ~After(key[i], i, cursor.value, cursor.id)
        BY <4>1 DEF Beyond
      <4>3. After(key[l], l, cursor.value, cursor.id)
        BY <4>2, <2>2, <1>5 DEF Beyond
      <4>4. QED BY <4>2, <4>3, <2>2, <2>6, <2>7, AfterOrder
    <3>3. QED BY <3>1, <3>2
  <2>9. ASSUME NEW i \in Rows \ moved, cursor'.value # None,
               i \in since, key[i] # Null, seen'[i] = 0
        PROVE  Beyond(i)'
    <3>1. i \notin page /\ seen[i] = 0
      BY <2>9, <1>3
    <3>2. i \in Rest \ page
      BY <3>1, <2>9, <1>1, <1>5 DEF PagingInv, PagingTypeOK, WalkOK
    <3>3. After(key[i], i, key[l], l)
      BY <3>2, <2>1, <1>2 DEF Leads
    <3>4. QED BY <3>3, <2>5, <2>9
  <2>10. WalkOK'
    BY <2>1, <2>8, <2>9, <1>1, <1>3 DEF WalkOK
  <2>11. QED BY <2>4, <2>10, <1>4 DEF PagingInv
<1>8. QED BY <1>2, <1>6, <1>7, RestType DEF PagingInv

LEMMA FailKeeps == ASSUME PagingInv, Fail PROVE PagingInv'
<1>1. PagingTypeOK'
  BY DEF Fail, PagingInv, PagingTypeOK, Born
<1>2. UnbornUnseen' /\ WalkOK'
  BY DEF Fail, PagingInv, UnbornUnseen, WalkOK, Born
<1>3. QED BY <1>1, <1>2 DEF PagingInv

LEMMA StartKeeps == ASSUME PagingInv, NEW desc \in BOOLEAN, Start(desc) PROVE PagingInv'
<1>1. PagingTypeOK'
  BY DEF Start, PagingInv, PagingTypeOK, Born
<1>2. UnbornUnseen'
  BY DEF Start, UnbornUnseen, Born
<1>3. WalkOK'
  BY DEF Start, WalkOK, Beyond
<1>4. QED BY <1>1, <1>2, <1>3 DEF PagingInv

\* A new row was not there throughout, and has not been shown.
LEMMA InsertKeeps ==
  ASSUME PagingInv, NEW i \in Rows, NEW v \in Values \cup {Null}, Insert(i, v)
  PROVE  PagingInv'
<1>1. key[i] = Unborn /\ key' = [key EXCEPT ![i] = v] /\ listed' = listed \cup {i}
      /\ UNCHANGED <<column, walkVars, since, moved>>
  BY DEF Insert
<1>2. v # Unborn
  BY PagingAssumption DEF Values, Null, Unborn
<1>3. i \notin since /\ i \notin moved /\ seen[i] = 0
  BY <1>1 DEF PagingInv, PagingTypeOK, UnbornUnseen, Born
<1>4. PagingTypeOK'
  <2>1. key' \in [Rows -> Values \cup {Null, Unborn}]
    BY <1>1 DEF PagingInv, PagingTypeOK
  <2>2. Born' = Born \cup {i}
    BY <1>1, <1>2 DEF Born, PagingInv, PagingTypeOK
  <2>3. QED BY <2>1, <2>2, <1>1 DEF PagingInv, PagingTypeOK, walkVars
<1>5. UnbornUnseen'
  BY <1>1, <1>2 DEF PagingInv, PagingTypeOK, UnbornUnseen, Born, walkVars
<1>6. \A j \in Rows \ {i} : key'[j] = key[j] /\ (Beyond(j)' <=> Beyond(j))
  BY <1>1 DEF PagingInv, PagingTypeOK, Beyond, After, walkVars
<1>7. WalkOK'
  BY <1>1, <1>3, <1>6 DEF PagingInv, WalkOK, walkVars
<1>8. QED BY <1>4, <1>5, <1>7 DEF PagingInv

LEMMA UpdateKeeps ==
  ASSUME PagingInv, NEW i \in Rows, NEW v \in Values \cup {Null}, Update(i, v)
  PROVE  PagingInv'
<1>1. /\ i \in Born /\ v \in Values /\ key' = [key EXCEPT ![i] = v]
      /\ moved' = moved \cup {i}
      /\ UNCHANGED <<column, listed, walkVars, since>>
  BY DEF Update
<1>2. v # Unborn
  BY <1>1, PagingAssumption DEF Values, Unborn
<1>3. Born' = Born
  BY <1>1, <1>2 DEF Born, PagingInv, PagingTypeOK
<1>4. PagingTypeOK'
  <2>1. key' \in [Rows -> Values \cup {Null, Unborn}]
    BY <1>1 DEF PagingInv, PagingTypeOK
  <2>2. QED BY <2>1, <1>1, <1>3 DEF PagingInv, PagingTypeOK, walkVars
<1>5. UnbornUnseen'
  BY <1>1, <1>3 DEF PagingInv, UnbornUnseen, walkVars
<1>6. \A j \in Rows \ {i} : key'[j] = key[j] /\ (Beyond(j)' <=> Beyond(j))
  BY <1>1 DEF PagingInv, PagingTypeOK, Beyond, After, walkVars
<1>7. WalkOK'
  BY <1>1, <1>6 DEF PagingInv, WalkOK, walkVars
<1>8. QED BY <1>4, <1>5, <1>7 DEF PagingInv

LEMMA LeaveReturnKeep ==
  ASSUME PagingInv, NEW i \in Rows, Leave(i) \/ Return(i)
  PROVE  PagingInv'
<1>1. /\ listed' \subseteq Born /\ since' \subseteq since /\ since' \subseteq listed'
      /\ UNCHANGED <<column, key, walkVars, moved>>
  BY DEF Leave, Return, PagingInv, PagingTypeOK
<1>2. Born' = Born
  BY <1>1 DEF Born
<1>3. PagingTypeOK' /\ UnbornUnseen'
  BY <1>1, <1>2 DEF PagingInv, PagingTypeOK, UnbornUnseen, walkVars
<1>4. \A j \in Rows : Beyond(j)' <=> Beyond(j)
  BY <1>1 DEF Beyond, After, walkVars
<1>5. WalkOK'
  BY <1>1, <1>4 DEF PagingInv, WalkOK, walkVars
<1>6. QED BY <1>3, <1>5 DEF PagingInv

LEMMA PagingStep == PagingInv /\ [PagingNext]_pagingVars => PagingInv'
<1> SUFFICES ASSUME PagingInv, [PagingNext]_pagingVars PROVE PagingInv'
  OBVIOUS
<1>1. CASE Reader
  BY <1>1, NextPageKeeps, FailKeeps, StartKeeps DEF Reader
<1>2. CASE OtherRequests
  BY <1>2, InsertKeeps, UpdateKeeps, LeaveReturnKeep DEF OtherRequests
<1>3. CASE UNCHANGED pagingVars
  BY <1>3 DEF pagingVars, PagingInv, PagingTypeOK, UnbornUnseen, WalkOK, Beyond, After, Born
<1>4. QED BY <1>1, <1>2, <1>3 DEF PagingNext

\* For lists of any length, any values and any page sizes: a client holds a cursor only
\* while there is more to read (build_page).
THEOREM PagingTypeCorrect == PagingSpec => []PagingTypeOK
<1>1. PagingInv => PagingTypeOK
  BY DEF PagingInv
<1>2. QED BY <1>1, InitPagingInv, PagingStep, PTL DEF PagingSpec

\* Whatever other requests do between two pages, a row that keeps its value is shown at
\* most once, and once if it was there throughout and the walk came to its end
\* (keyset_clause, build_page).
THEOREM WalkCompletes == PagingSpec => []WalkIsComplete
<1>1. PagingInv => WalkIsComplete
  BY DEF PagingInv, WalkOK, WalkIsComplete
<1>2. QED BY <1>1, InitPagingInv, PagingStep, PTL DEF PagingSpec
=============================================================================
