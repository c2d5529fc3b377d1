---------------------------- MODULE LinkPromise ----------------------------
(***************************************************************************)
(* What a consent link promises whoever minted it, with no transactions:   *)
(* it admits people one at a time while it stands and has room, nobody     *)
(* twice; once it has ended it admits nobody and never stands again; and   *)
(* only people who were admitted and confirmed their contact consent.      *)
(***************************************************************************)
EXTENDS Naturals, FiniteSets

CONSTANTS People, Links, NoLink

VARIABLES
  room,       \* how many people each link may admit
  minted,     \* links that stand or have stood
  standing,   \* links that stand
  via,        \* the link that admitted each person
  confirmed,  \* people who have confirmed their contact
  consented   \* who consented on which link

promiseVars == <<room, minted, standing, via, confirmed, consented>>

Guests(l) == {p \in People : via[p] = l}

Init ==
  /\ room \in [Links -> Nat \ {0}]
  /\ minted = {} /\ standing = {}
  /\ via = [p \in People |-> NoLink]
  /\ confirmed = {} /\ consented = {}

Mint(l) ==
  /\ l \notin minted
  /\ minted' = minted \cup {l} /\ standing' = standing \cup {l}
  /\ UNCHANGED <<room, via, confirmed, consented>>

\* A revocation or the sweep ends one link or many.
End(ls) ==
  /\ standing' = standing \ ls
  /\ UNCHANGED <<room, minted, via, confirmed, consented>>

Admit(p, l) ==
  /\ l \in standing /\ via[p] = NoLink
  /\ Cardinality(Guests(l)) < room[l]
  /\ via' = [via EXCEPT ![p] = l]
  /\ UNCHANGED <<room, minted, standing, confirmed, consented>>

Confirm(p) ==
  /\ via[p] # NoLink
  /\ confirmed' = confirmed \cup {p}
  /\ UNCHANGED <<room, minted, standing, via, consented>>

\* The link may have ended since she opened it.
Consent(p, l) ==
  /\ p \in confirmed /\ l \in minted
  /\ consented' = consented \cup {[person |-> p, link |-> l]}
  /\ UNCHANGED <<room, minted, standing, via, confirmed>>

Next ==
  \/ \E l \in Links : Mint(l)
  \/ \E ls \in SUBSET Links : End(ls)
  \/ \E p \in People, l \in Links : Admit(p, l) \/ Consent(p, l)
  \/ \E p \in People : Confirm(p)

Spec == Init /\ [][Next]_promiseVars
=============================================================================
