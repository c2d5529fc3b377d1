--------------------------- MODULE ImportPromise ---------------------------
(***************************************************************************)
(* What imports and the nightly sweep promise, with no transactions, row   *)
(* locks or leases: a batch adds its subjects at one stroke, all of them   *)
(* consents to the batch's own project that were given, or bystanders; it  *)
(* brings back nothing that is held back; and only what a lapsed consent   *)
(* covers is ever held back, where its purposes ask for that.              *)
(***************************************************************************)
CONSTANTS Links, Projects, Consents, Bystander,
          ConsentProject, Quarantining  \* consents whose purposes ask for quarantine

VARIABLES
  given,      \* the consents there are
  lapsed,     \* those whose validity has elapsed
  available,  \* the subjects of assets in use
  heldBack,   \* those in quarantine
  vouched     \* what batches reported, and of which project

promiseVars == <<given, lapsed, available, heldBack, vouched>>

Init == given = {} /\ lapsed = {} /\ available = {} /\ heldBack = {} /\ vouched = {}

Covered(l, p) == l[2] # Bystander => l[2] \in given /\ ConsentProject[l[2]] = p

Import(p, ls) ==
  /\ \A l \in ls : Covered(l, p)
  /\ available' = available \cup (ls \ heldBack)
  /\ vouched' = vouched \cup {<<l, p>> : l \in ls}
  /\ UNCHANGED <<given, lapsed, heldBack>>

\* A consent may have been superseded since the sweep read it.
Quarantine(ls) ==
  /\ ls \subseteq available
  /\ \A l \in ls : l[2] \in lapsed \cap Quarantining
  /\ available' = available \ ls
  /\ heldBack' = heldBack \cup ls
  /\ UNCHANGED <<given, lapsed, vouched>>

Agree(k) ==
  /\ given' = given \cup {k}
  /\ UNCHANGED <<lapsed, available, heldBack, vouched>>

Lapse(k) ==
  /\ k \in given
  /\ lapsed' = lapsed \cup {k}
  /\ UNCHANGED <<given, available, heldBack, vouched>>

Next ==
  \/ \E ls \in SUBSET Links : Quarantine(ls) \/ \E p \in Projects : Import(p, ls)
  \/ \E k \in Consents : Agree(k) \/ Lapse(k)

Spec == Init /\ [][Next]_promiseVars
=============================================================================
