---------------------------- MODULE TrailPromise ----------------------------
(***************************************************************************)
(* What the audit trail promises its readers, with no locks, triggers or   *)
(* open transactions: it grows by the rows of one change at a time, each   *)
(* row recording the row with the largest id there was; what a row         *)
(* recorded stays; and only rows of the trail are ever altered, and leave  *)
(* a mark when their hash is recomputed.  That later changes have larger   *)
(* ids is not promised.                                                    *)
(***************************************************************************)
EXTENDS Integers

CONSTANTS Ids, NoId

VARIABLES
  trail,      \* ids of the rows anybody can read
  recorded,   \* <<row, whether its hash was a recomputed one>> each row recorded
  altered     \* what was done to a row since

promiseVars == <<trail, recorded, altered>>

\* The newest row of a set is the one with the largest id
NewestOf(i, S) == IF S = {} THEN i = NoId ELSE i \in S /\ \A j \in S : j <= i

Init ==
  /\ trail = {}
  /\ recorded = [i \in Ids |-> <<NoId, FALSE>>]
  /\ altered = [i \in Ids |-> "no"]

\* One change: its rows, in the order of their ids, after all that went before.
Append(S) ==
  /\ S # {} /\ S \cap trail = {}
  /\ trail' = trail \cup S
  /\ recorded' \in [Ids -> (Ids \cup {NoId}) \X BOOLEAN]
  /\ \A i \in Ids \ S : recorded'[i] = recorded[i]
  /\ \A i \in S :
       /\ NewestOf(recorded'[i][1], trail \cup {j \in S : j < i})
       /\ recorded'[i][2] => altered[recorded'[i][1]] = "rehashed"
  /\ UNCHANGED altered

Alter(i) ==
  /\ i \in trail /\ altered[i] = "no"
  /\ \E how \in {"edited", "rehashed"} : altered' = [altered EXCEPT ![i] = how]
  /\ UNCHANGED <<trail, recorded>>

Next ==
  \/ \E S \in SUBSET Ids : Append(S)
  \/ \E i \in Ids : Alter(i)

Spec == Init /\ [][Next]_promiseVars
=============================================================================
