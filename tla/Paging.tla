------------------------------- MODULE Paging -------------------------------
(***************************************************************************)
(* A client walks one of the lists page by page while others insert,       *)
(* change and remove its rows.                                             *)
(*                                                                         *)
(* Every list is read with the same query: the rows beyond the cursor in   *)
(* the order of one column, ties in the order of the primary key, one row  *)
(* more than asked for.  The cursor is the column's value and the key of   *)
(* the last row of the page, as text; nothing is kept on the server.  Each *)
(* page is a transaction of its own, and rows come and go between two      *)
(* pages.  What the column does meanwhile depends on the list and the      *)
(* column; rows with no value in it sort as the largest.                   *)
(* The predicates of a list only decide which rows are in it: a row leaves *)
(* and returns.  The total that goes with a page is left out.              *)
(***************************************************************************)
EXTENDS Naturals, FiniteSets

CONSTANTS
  MaxRow,       \* bound: rows
  MaxValue,     \* values of the column the list is sorted by
  Limits        \* page sizes a client asks for

ASSUME PagingAssumption ==
  /\ MaxRow \in Nat \ {0} /\ MaxValue \in Nat \ {0}
  /\ Limits \subseteq Nat \ {0}

Rows == 1..MaxRow
Values == 1..MaxValue

-----------------------------------------------------------------------------
(* The lists: for each column a list may be sorted by, what becomes of it  *)

\* fixed: set by the insert; changing: updated later; unset: NULL until it is set;
\* hidden: fixed, but not among the columns the query returns
Users == [created_at |-> "fixed", full_name |-> "changing", email |-> "fixed",
          role |-> "changing", status |-> "changing"]
Projects == [created_at |-> "fixed", updated_at |-> "changing",
             project_name |-> "changing", project_status |-> "changing"]
Sites == [created_at |-> "fixed", site_label |-> "changing"]
Approvals == [uploaded_at |-> "fixed", approved_on |-> "fixed"]
Notices == [created_at |-> "fixed", published_at |-> "unset", version |-> "fixed"]
Processors == [created_at |-> "fixed", legal_name |-> "changing",
               security_confirmed_at |-> "changing"]
Sources == [created_at |-> "fixed", name |-> "changing", source_code |-> "fixed"]
Purposes == [created_at |-> "fixed", name |-> "changing", purpose_code |-> "fixed",
             status |-> "changing"]
Batches == [received_at |-> "fixed"]
Collections == [collected_on |-> "fixed", created_at |-> "fixed"]
AllCollections == [collected_on |-> "fixed", created_at |-> "fixed"]
Exports == [exported_at |-> "fixed"]
ProjectConsents == [affirmative_action_at |-> "fixed", created_at |-> "fixed"]
AllConsents == [affirmative_action_at |-> "fixed", created_at |-> "hidden"]
Links == [created_at |-> "fixed", expires_at |-> "fixed"]
Events == [occurred_at |-> "fixed"]

Kinds(list) == {list[column] : column \in DOMAIN list}

Columns ==
  Kinds(Users) \cup Kinds(Projects) \cup Kinds(Sites) \cup Kinds(Approvals)
  \cup Kinds(Notices) \cup Kinds(Processors) \cup Kinds(Sources) \cup Kinds(Purposes)
  \cup Kinds(Batches) \cup Kinds(Collections) \cup Kinds(AllCollections)
  \cup Kinds(Exports) \cup Kinds(ProjectConsents) \cup Kinds(AllConsents)
  \cup Kinds(Links) \cup Kinds(Events)

-----------------------------------------------------------------------------
VARIABLES
  column,       \* what becomes of the column the client sorts by
  key,          \* the value of each row in it
  listed,       \* the rows in the list
  descending,
  phase,        \* where the walk is
  cursor,       \* what the client will send with its next request
  seen,         \* how often each row was shown in this walk
  since,        \* the rows that have been in the list throughout
  moved         \* the rows whose value has changed since the walk began

pagingVars == <<column, key, listed, descending, phase, cursor, seen, since, moved>>

walkVars == <<descending, phase, cursor, seen>>

Unborn == 0
Null == MaxValue + 1
Born == {i \in Rows : key[i] # Unborn}

\* A position in the order.  The text "None" stands for a value the row did not show.
None == Null
NoCursor == [value |-> 0, id |-> 0]
Cursor == [value : Values \cup {None}, id : Rows]

Lex(k, i, l, j) == k < l \/ (k = l /\ i < j)

\* The row with value k and primary key i comes after the one with l and j
After(k, i, l, j) == IF descending THEN Lex(k, i, l, j) ELSE Lex(l, j, k, i)

-----------------------------------------------------------------------------
(* One page                                                                *)

\* Mutant of Rest: the values are compared without the primary keys
RestByValue ==
  {i \in listed :
     cursor # NoCursor =>
       key[i] # Null /\ IF descending THEN key[i] < cursor.value ELSE key[i] > cursor.value}

\* keyset_clause: a comparison with a NULL is not true
Rest ==
  {i \in listed :
     cursor # NoCursor => key[i] # Null /\ After(key[i], i, cursor.value, cursor.id)}

\* ORDER BY ... LIMIT n
First(n) ==
  CHOOSE page \in SUBSET Rest :
    /\ Cardinality(page) = IF Cardinality(Rest) < n THEN Cardinality(Rest) ELSE n
    /\ \A i \in page, j \in Rest \ page : After(key[j], j, key[i], i)

Last(page) == CHOOSE i \in page : \A j \in page \ {i} : After(key[i], i, key[j], j)

\* build_page: the value as the row shows it
CursorAt(i) == [value |-> IF column = "hidden" THEN None ELSE key[i], id |-> i]

Show(page) == seen' = [i \in Rows |-> IF i \in page THEN seen[i] + 1 ELSE seen[i]]

\* Mutant of NextPage: the last page has a cursor too
NextPageAlways(n) ==
  /\ phase = "reading" /\ cursor.value # None
  /\ Show(First(n))
  /\ phase' = IF Cardinality(Rest) > n THEN phase ELSE "over"
  /\ cursor' = IF Rest = {} THEN NoCursor ELSE CursorAt(Last(First(n)))
  /\ UNCHANGED <<column, key, listed, descending, since, moved>>

\* The list endpoint: n rows, and a cursor if there was one more
NextPage(n) ==
  /\ phase = "reading" /\ cursor.value # None
  /\ Show(First(n))
  /\ IF Cardinality(Rest) > n
     THEN phase' = phase /\ cursor' = CursorAt(Last(First(n)))
     ELSE phase' = "over" /\ cursor' = NoCursor
  /\ UNCHANGED <<column, key, listed, descending, since, moved>>

\* A cursor with the text "None" for a time fails in the query
Fail ==
  /\ phase = "reading" /\ cursor.value = None
  /\ phase' = "failed" /\ cursor' = NoCursor
  /\ UNCHANGED <<column, key, listed, descending, seen, since, moved>>

\* The first request names the order (parse_page); a walk may be given up
Start(desc) ==
  /\ descending' = desc
  /\ phase' = "reading" /\ cursor' = NoCursor
  /\ seen' = [i \in Rows |-> 0]
  /\ since' = listed /\ moved' = {}
  /\ UNCHANGED <<column, key, listed>>

-----------------------------------------------------------------------------
(* The other requests                                                      *)

\* A row is committed.  Its key was drawn and its time taken when its transaction
\* began, so it may come before rows that are there already.
Insert(i, v) ==
  /\ key[i] = Unborn
  /\ v = Null <=> column = "unset"
  /\ key' = [key EXCEPT ![i] = v]
  /\ listed' = listed \cup {i}
  /\ UNCHANGED <<column, walkVars, since, moved>>

\* The column is updated: any time, or once from NULL
Update(i, v) ==
  /\ i \in Born /\ v \in Values \ {key[i]}
  /\ \/ column = "changing"
     \/ column = "unset" /\ key[i] = Null
  /\ key' = [key EXCEPT ![i] = v]
  /\ moved' = moved \cup {i}
  /\ UNCHANGED <<column, listed, walkVars, since>>

\* A row stops to match the list's predicates: it is superseded, changes its status,
\* is assigned to somebody else
Leave(i) ==
  /\ i \in listed
  /\ listed' = listed \ {i}
  /\ since' = since \ {i}
  /\ UNCHANGED <<column, key, walkVars, moved>>

Return(i) ==
  /\ i \in Born \ listed
  /\ listed' = listed \cup {i}
  /\ UNCHANGED <<column, key, walkVars, since, moved>>

-----------------------------------------------------------------------------
PagingInit ==
  /\ column \in Columns
  /\ key = [i \in Rows |-> Unborn] /\ listed = {}
  /\ descending \in BOOLEAN
  /\ phase = "over" /\ cursor = NoCursor
  /\ seen = [i \in Rows |-> 0]
  /\ since = {} /\ moved = {}

Reader ==
  \/ \E desc \in BOOLEAN : Start(desc)
  \/ \E n \in Limits : NextPage(n)
  \/ Fail

OtherRequests ==
  \E i \in Rows :
    \/ \E v \in Values \cup {Null} : Insert(i, v) \/ Update(i, v)
    \/ Leave(i) \/ Return(i)

PagingNext == Reader \/ OtherRequests

PagingSpec == PagingInit /\ [][PagingNext]_pagingVars

-----------------------------------------------------------------------------
(* Properties                                                              *)

\* Type invariant; a client holds a cursor only while there is more to read.
PagingTypeOK ==
  /\ column \in Columns
  /\ key \in [Rows -> Values \cup {Null, Unborn}]
  /\ listed \subseteq Born
  /\ descending \in BOOLEAN
  /\ phase \in {"reading", "over", "failed"}
  /\ cursor \in Cursor \cup {NoCursor}
  /\ phase # "reading" => cursor = NoCursor
  /\ seen \in [Rows -> Nat]
  /\ since \subseteq listed /\ moved \subseteq Born

\* Whatever is inserted, changed or removed between two pages, a row that keeps its
\* value is not shown twice, and a walk that comes to its end has shown each row that
\* was there throughout with the value it has (the promise of keyset paging over
\* offsets).  Rows without a value are the exception: a cursor passes them by.
WalkIsComplete ==
  \A i \in Rows \ moved :
    /\ seen[i] <= 1
    /\ phase = "over" /\ i \in since /\ key[i] # Null => seen[i] = 1
=============================================================================
