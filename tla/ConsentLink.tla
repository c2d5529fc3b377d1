----------------------------- MODULE ConsentLink -----------------------------
(***************************************************************************)
(* The public consent flow /c/{token}: minting a link, registering,        *)
(* confirming a contact and consenting, against everything that ends a     *)
(* link: its use cap, its expiry, revocation, the end of its site and the  *)
(* close of its project.                                                   *)
(*                                                                         *)
(* A request is a READ COMMITTED transaction that resolves the link with a *)
(* plain SELECT and acts on the answer later; only increment_use locks the *)
(* link row, until its transaction ends.  A link is minted for a published *)
(* notice, which can only become superseded, so resolve_link's test of the *)
(* notice never fails and is left out; so is the artefact's place in the   *)
(* supersession chain, which is ConsentLedger's.  Opening a link and       *)
(* serving its notice keep nothing but an audit row.                       *)
(***************************************************************************)
EXTENDS Naturals, FiniteSets

CONSTANTS
  Workers,      \* request handlers, each with at most one open transaction
  People,       \* people, each known by one email address
  Links,        \* consent_link rows that may be minted
  Sites,        \* sites of the one project
  SiteOf,       \* the site of each link
  Caps,         \* values of max_uses (one above the number of people: no cap)
  MaxTime       \* bound: clock readings

VARIABLES
  project,      \* project.project_status, once approved
  site,         \* project_site.status
  linkStatus,   \* consent_link.status, "none" before the row exists
  uses,         \* consent_link.use_count
  cap,          \* consent_link.max_uses, decided by whoever will mint the link
  expires,      \* consent_link.expires_at
  user,         \* auth_user.status of each person, "none" before the row exists
  via,          \* auth_user.registered_via_link_id
  code,         \* contact codes held in Redis, by link and person
  session,      \* people whose browser holds a subject session
  consent,      \* committed artefacts of captures
  clock,
  tx            \* each worker's open request and its local variables

vars == <<project, site, linkStatus, uses, cap, expires, user, via, code, session,
          consent, clock, tx>>

projectVars == <<project, site>>
linkVars == <<linkStatus, uses, cap, expires>>
userVars == <<user, via>>
redisVars == <<code, session>>

Times == 0..MaxTime
NoLink == "no link"
AnyPerson == CHOOSE p \in People : TRUE   \* where no person is concerned

ASSUME LinkAssumption ==
  /\ People # {}
  /\ SiteOf \in [Links -> Sites]
  /\ Caps \subseteq Nat \ {0}
  /\ NoLink \notin Links
  /\ MaxTime \in Nat

Artefact == [person : People, link : Links]

Stages ==
  {"registering", "consumed", "created", "verifying", "verified", "capturing",
   "minting", "minted"}

\* An open request: what it was asked for and when it resolved the link
Request ==
  [pc : Stages, link : Links, person : People, time : Times]

Idle == [pc |-> "idle"]

-----------------------------------------------------------------------------
(* Links                                                                   *)

\* resolve_link: everything about the link in one query
Resolves(l) ==
  /\ linkStatus[l] = "active"
  /\ clock < expires[l]
  /\ uses[l] < cap[l]
  /\ project = "approved"
  /\ site[SiteOf[l]] = "active"

\* Mutant of Locked: increment_use reads the count first and writes it later
NeverLocked(l) == FALSE

\* The row lock increment_use holds until its transaction ends
Locked(l) ==
  \E w \in Workers : tx[w].pc \in {"consumed", "created"} /\ tx[w].link = l

Begin(w, pc, l, p, t) ==
  /\ tx[w].pc = "idle"
  /\ tx' = [tx EXCEPT ![w] = [pc |-> pc, link |-> l, person |-> p, time |-> t]]

Step(w, from, to) ==
  /\ tx[w].pc = from
  /\ tx' = [tx EXCEPT ![w] = [pc |-> to, link |-> tx[w].link,
                              person |-> tx[w].person, time |-> tx[w].time]]

Finish(w, from) == tx[w].pc = from /\ tx' = [tx EXCEPT ![w] = Idle]

\* create_link: the checks it makes on the rows it reads
MintCheck(w, l, e) ==
  /\ linkStatus[l] = "none"
  /\ \A v \in Workers : tx[v].pc \in {"minting", "minted"} => tx[v].link # l
  /\ site[SiteOf[l]] = "active"
  /\ project = "approved"
  /\ e > clock
  /\ Begin(w, "minting", l, AnyPerson, e)
  /\ UNCHANGED <<projectVars, linkVars, userVars, redisVars, consent, clock>>

\* The insert, where trg_link_coherent looks at the project once more
MintInsert(w) ==
  /\ project = "approved"
  /\ Step(w, "minting", "minted")
  /\ UNCHANGED <<projectVars, linkVars, userVars, redisVars, consent, clock>>

MintCommit(w) ==
  /\ Finish(w, "minted")
  /\ linkStatus' = [linkStatus EXCEPT ![tx[w].link] = "active"]
  /\ expires' = [expires EXCEPT ![tx[w].link] = tx[w].time]
  /\ UNCHANGED <<projectVars, uses, cap, userVars, redisVars, consent, clock>>

-----------------------------------------------------------------------------
(* The subject's requests                                                  *)

\* register_subject for a new email; a known one changes nothing kept here
Register(w, l, p) ==
  /\ Resolves(l)
  /\ user[p] = "none"
  /\ Begin(w, "registering", l, p, clock)
  /\ UNCHANGED <<projectVars, linkVars, userVars, redisVars, consent, clock>>

\* Mutant of Consume: increment_use does not ask again whether the link is active
ConsumeStale(w) ==
  /\ tx[w].pc = "registering"
  /\ LET l == tx[w].link
     IN  ~Locked(l) /\ tx[w].time < expires[l] /\ uses[l] < cap[l]
  /\ Step(w, "registering", "consumed")
  /\ UNCHANGED <<projectVars, linkVars, userVars, redisVars, consent, clock>>

\* increment_use: waits for the row, then tests what it finds there.  Its now()
\* is the start of the transaction.
Consume(w) ==
  /\ tx[w].pc = "registering"
  /\ LET l == tx[w].link
     IN  ~Locked(l) /\ linkStatus[l] = "active"
           /\ tx[w].time < expires[l] /\ uses[l] < cap[l]
  /\ Step(w, "registering", "consumed")
  /\ UNCHANGED <<projectVars, linkVars, userVars, redisVars, consent, clock>>

\* The insert of auth_user waits for an uncommitted row with the same email and
\* is refused by a committed one
CreateUser(w) ==
  /\ tx[w].pc = "consumed"
  /\ user[tx[w].person] = "none"
  /\ \A v \in Workers : tx[v].pc = "created" => tx[v].person # tx[w].person
  /\ Step(w, "consumed", "created")
  /\ UNCHANGED <<projectVars, linkVars, userVars, redisVars, consent, clock>>

RegisterCommit(w) ==
  /\ Finish(w, "created")
  /\ uses' = [uses EXCEPT ![tx[w].link] = @ + 1]
  /\ user' = [user EXCEPT ![tx[w].person] = "pending"]
  /\ via' = [via EXCEPT ![tx[w].person] = tx[w].link]
  /\ UNCHANGED <<projectVars, linkStatus, cap, expires, redisVars, consent, clock>>

\* send_contact_code asks for the link and nothing about the contact
SendCode(l, p) ==
  /\ Resolves(l)
  /\ code' = code \cup {<<l, p>>}
  /\ UNCHANGED <<projectVars, linkVars, userVars, session, consent, clock, tx>>

\* The code's ten minutes pass, its attempts are used up, or the DEL of a verification
\* comes
CodeGone(l, p) ==
  /\ <<l, p>> \in code
  /\ code' = code \ {<<l, p>>}
  /\ UNCHANGED <<projectVars, linkVars, userVars, session, consent, clock, tx>>

\* Mutant of Verify: the session is created inside the transaction
VerifySessionFirst(w, l, p) ==
  /\ Resolves(l)
  /\ <<l, p>> \in code
  /\ code' \in {code, code \ {<<l, p>>}}
  /\ IF user[p] = "none" THEN UNCHANGED <<tx, session>>
     ELSE Begin(w, "verifying", l, p, clock) /\ session' = session \cup {p}
  /\ UNCHANGED <<projectVars, linkVars, userVars, consent, clock>>

\* verify_contact_code: the code is read and compared, and deleted by a command of its
\* own: until then (CodeGone) another request may find it too.  Redis spends it whatever
\* the transaction does afterwards; nobody registered is 404
Verify(w, l, p) ==
  /\ tx[w].pc = "idle"
  /\ Resolves(l)
  /\ <<l, p>> \in code
  /\ code' \in {code, code \ {<<l, p>>}}
  /\ IF user[p] = "none" THEN UNCHANGED tx ELSE Begin(w, "verifying", l, p, clock)
  /\ UNCHANGED <<projectVars, linkVars, userVars, session, consent, clock>>

VerifyCommit(w) ==
  /\ Step(w, "verifying", "verified")
  /\ user' = [user EXCEPT ![tx[w].person] = "active"]
  /\ UNCHANGED <<projectVars, linkVars, via, redisVars, consent, clock>>

\* verify_code creates the session once the transaction has committed
VerifySession(w) ==
  /\ Finish(w, "verified")
  /\ session' = session \cup {tx[w].person}
  /\ UNCHANGED <<projectVars, linkVars, userVars, code, consent, clock>>

\* verify_subject_otp, the sign-in that needs no link, also activates; its
\* session reaches the browser with the response, after the commit
SignIn(p) ==
  /\ user[p] # "none"
  /\ user' = [user EXCEPT ![p] = "active"]
  /\ session' = session \cup {p}
  /\ UNCHANGED <<projectVars, linkVars, via, code, consent, clock, tx>>

\* Sign-out, idle timeout or the end of the session's life
SessionEnds(p) ==
  /\ p \in session
  /\ session' = session \ {p}
  /\ UNCHANGED <<projectVars, linkVars, userVars, code, consent, clock, tx>>

\* capture() up to its insert: it resolves the link and does not look again
Capture(w, l, p) ==
  /\ p \in session
  /\ Resolves(l)
  /\ Begin(w, "capturing", l, p, clock)
  /\ UNCHANGED <<projectVars, linkVars, userVars, redisVars, consent, clock>>

CaptureCommit(w) ==
  /\ Finish(w, "capturing")
  /\ consent' = consent \cup
       {[person |-> tx[w].person, link |-> tx[w].link]}
  /\ UNCHANGED <<projectVars, linkVars, userVars, redisVars, clock>>

\* Whatever a request waits for or tests may end it instead: a refusal, a lock
\* timeout, a lost connection, a crash.
Abort(w) ==
  /\ tx[w].pc # "idle"
  /\ tx' = [tx EXCEPT ![w] = Idle]
  /\ UNCHANGED <<projectVars, linkVars, userVars, redisVars, consent, clock>>

-----------------------------------------------------------------------------
(* What ends a link.  Each is an UPDATE that waits for the row lock.       *)

Live(l) == linkStatus[l] = "active"

\* Links whose rows an UPDATE of the given set would touch are free
Free(ls) == \A l \in ls : Live(l) => ~Locked(l)

Set(ls, status) ==
  linkStatus' = [l \in Links |-> IF l \in ls /\ Live(l) THEN status ELSE linkStatus[l]]

\* POST /links/{uuid}/revoke
Revoke(l) ==
  /\ Live(l)
  /\ Free({l})
  /\ Set({l}, "revoked")
  /\ UNCHANGED <<projectVars, uses, cap, expires, userVars, redisVars, consent, clock, tx>>

\* POST /sites/{uuid}/deactivate: revoke_links_for_project reaches every link of
\* the project, not only the site's
Deactivate(s) ==
  /\ Free(Links)
  /\ site' = [site EXCEPT ![s] = "terminated"]
  /\ Set(Links, "revoked")
  /\ UNCHANGED <<project, uses, cap, expires, userVars, redisVars, consent, clock, tx>>

\* POST /projects/{uuid}/close: transition and revocation in one transaction
Close ==
  /\ project = "approved"
  /\ Free(Links)
  /\ project' = "closed"
  /\ Set(Links, "revoked")
  /\ UNCHANGED <<site, uses, cap, expires, userVars, redisVars, consent, clock, tx>>

\* Mutant of CloseByTransition: a closed project can be approved again
TransitionBackAndForth ==
  /\ project' = IF project = "approved" THEN "closed" ELSE "approved"
  /\ UNCHANGED <<site, linkVars, userVars, redisVars, consent, clock, tx>>

\* POST /projects/{uuid}/transition reaches closed as well, without the links
CloseByTransition ==
  /\ project = "approved"
  /\ project' = "closed"
  /\ UNCHANGED <<site, linkVars, userVars, redisVars, consent, clock, tx>>

\* expire_consent_links
Sweep ==
  LET due == {l \in Links : Live(l) /\ expires[l] <= clock}
  IN  /\ due # {}
      /\ Free(due)
      /\ Set(due, "expired")
      /\ UNCHANGED <<projectVars, uses, cap, expires, userVars, redisVars, consent, clock, tx>>

Tick ==
  /\ clock < MaxTime
  /\ clock' = clock + 1
  /\ UNCHANGED <<projectVars, linkVars, userVars, redisVars, consent, tx>>

-----------------------------------------------------------------------------
Init ==
  /\ project = "approved"
  /\ site = [s \in Sites |-> "active"]
  /\ linkStatus = [l \in Links |-> "none"]
  /\ uses = [l \in Links |-> 0]
  /\ cap \in [Links -> Caps]
  /\ expires = [l \in Links |-> 0]
  /\ user = [p \in People |-> "none"]
  /\ via = [p \in People |-> NoLink]
  /\ code = {} /\ session = {} /\ consent = {}
  /\ clock = 0
  /\ tx = [w \in Workers |-> Idle]

Mint(w) ==
  \/ \E l \in Links, e \in Times : MintCheck(w, l, e)
  \/ MintInsert(w) \/ MintCommit(w)

Registration(w) ==
  \/ \E l \in Links, p \in People : Register(w, l, p)
  \/ Consume(w) \/ CreateUser(w) \/ RegisterCommit(w)

Verification(w) ==
  \/ \E l \in Links, p \in People : Verify(w, l, p)
  \/ VerifyCommit(w) \/ VerifySession(w)

Consenting(w) ==
  \/ \E l \in Links, p \in People : Capture(w, l, p)
  \/ CaptureCommit(w)

Anytime ==
  \/ \E l \in Links, p \in People : SendCode(l, p) \/ CodeGone(l, p)
  \/ \E p \in People : SignIn(p) \/ SessionEnds(p)
  \/ \E l \in Links : Revoke(l)
  \/ \E s \in Sites : Deactivate(s)
  \/ Close \/ CloseByTransition \/ Sweep \/ Tick

Next ==
  \/ \E w \in Workers :
       Mint(w) \/ Registration(w) \/ Verification(w) \/ Consenting(w) \/ Abort(w)
  \/ Anytime

Spec == Init /\ [][Next]_vars

-----------------------------------------------------------------------------
(* Properties                                                              *)

\* Type invariant: statuses, counters and requests keep their shape.
TypeOK ==
  /\ project \in {"approved", "closed"}
  /\ site \in [Sites -> {"active", "terminated"}]
  /\ linkStatus \in [Links -> {"none", "active", "revoked", "expired"}]
  /\ uses \in [Links -> Nat]
  /\ cap \in [Links -> Caps]
  /\ expires \in [Links -> Times]
  /\ user \in [People -> {"none", "pending", "active"}]
  /\ via \in [People -> Links \cup {NoLink}]
  /\ code \subseteq Links \X People
  /\ session \subseteq People
  /\ consent \subseteq Artefact
  /\ clock \in Times
  /\ tx \in [Workers -> Request \cup {Idle}]

\* use_count is the number of people registered through the link and never passes
\* the cap, whatever registrations race for the last place or for one email.
UsesCountRegistrants ==
  \A l \in Links :
    /\ uses[l] = Cardinality({p \in People : via[p] = l})
    /\ uses[l] <= cap[l]

\* capture() and verify_contact_code() never let somebody consent who has not
\* registered and confirmed a contact.
OnlyVerifiedConsent == \A c \in consent : user[c.person] = "active"

\* A link that no longer resolves never resolves again: no registration, sweep or
\* revocation still in flight brings it back.
DeadStaysDead ==
  [][\A l \in Links : linkStatus[l] # "none" /\ ~Resolves(l) => ~Resolves(l)']_vars

\* What the links promise, read off the rows
Promise == INSTANCE LinkPromise WITH
  room <- cap,
  minted <- {l \in Links : linkStatus[l] # "none"},
  standing <- {l \in Links : Live(l)},
  confirmed <- {p \in People : user[p] = "active"},
  consented <- consent

\* The handlers, whatever they interleave, implement LinkPromise: use_count and the row
\* lock of increment_use stand for a head count and an admission at one stroke, and what
\* a request learnt about a person still holds when it writes.
KeepsPromise == Promise!Spec
=============================================================================
