-------------------------- MODULE ConsentLinkProofs --------------------------
(***************************************************************************)
(* Theorems about ConsentLink, for any number of handlers, people, links,  *)
(* sites and clock readings.  Between the two halves of a registration the *)
(* row lock keeps the place it has counted, and the insert of the person   *)
(* keeps the email; what a request learnt about a person stays true.       *)
(* From this the flow implements LinkPromise, where an admission is one    *)
(* step: it happens when the registration commits.                         *)
(***************************************************************************)
EXTENDS ConsentLink, FiniteSetTheorems, TLAPS

Counting == {"consumed", "created"}
Minting == {"minting", "minted"}

\* What a request that is under way can rely on.
RequestOK(w) ==
  /\ tx[w].pc \in Counting => uses[tx[w].link] < cap[tx[w].link]
  /\ tx[w].pc = "created" => user[tx[w].person] = "none"
  /\ tx[w].pc = "verifying" => user[tx[w].person] # "none"
  /\ tx[w].pc \in {"verified", "capturing"} => user[tx[w].person] = "active"
  /\ tx[w].pc \in Minting => linkStatus[tx[w].link] = "none"

\* Two requests never hold one link's row, one email or the row of one new link.
Apart(v, w) ==
  /\ tx[v].pc \in Counting /\ tx[w].pc \in Counting => tx[v].link # tx[w].link
  /\ tx[v].pc = "created" /\ tx[w].pc = "created" => tx[v].person # tx[w].person
  /\ tx[v].pc \in Minting /\ tx[w].pc \in Minting => tx[v].link # tx[w].link

RequestsOK ==
  \A w \in Workers : RequestOK(w) /\ \A v \in Workers \ {w} : Apart(v, w)

\* A person who exists came by a link, and one who has a session or consented has
\* confirmed a contact.
PeopleOK ==
  /\ \A p \in People : user[p] = "none" <=> via[p] = NoLink
  /\ \A p \in session : user[p] = "active"
  /\ OnlyVerifiedConsent

Registrants(l) == {p \in People : via[p] = l}

CountsOK ==
  \A l \in Links :
    /\ IsFiniteSet(Registrants(l))
    /\ uses[l] = Cardinality(Registrants(l))
    /\ uses[l] <= cap[l]

IndInv == TypeOK /\ RequestsOK /\ PeopleOK /\ CountsOK

LEMMA InitIndInv == Init => IndInv
<1> SUFFICES ASSUME Init PROVE IndInv
  OBVIOUS
<1>1. TypeOK
  BY LinkAssumption DEF Init, TypeOK, Times
<1>2. RequestsOK
  BY DEF Init, RequestsOK, RequestOK, Apart, Idle, Counting, Minting
<1>3. PeopleOK
  BY DEF Init, PeopleOK, OnlyVerifiedConsent
<1>4. CountsOK
  <2> SUFFICES ASSUME NEW l \in Links
               PROVE  /\ IsFiniteSet(Registrants(l))
                      /\ uses[l] = Cardinality(Registrants(l)) /\ uses[l] <= cap[l]
    BY DEF CountsOK
  <2>1. Registrants(l) = {}
    BY LinkAssumption DEF Init, Registrants
  <2>2. uses[l] = 0 /\ cap[l] \in Nat
    BY LinkAssumption DEF Init
  <2>3. QED BY <2>1, <2>2, FS_EmptySet
<1>5. QED BY <1>1, <1>2, <1>3, <1>4 DEF IndInv

\* The ways in which an action changes a handler's request.
LEMMA BeginsType ==
  ASSUME TypeOK, NEW w \in Workers, NEW pc \in Stages, NEW l \in Links, NEW p \in People,
         NEW t \in Times, Begin(w, pc, l, p, t)
  PROVE  /\ tx' \in [Workers -> Request \cup {Idle}]
         /\ tx'[w] = [pc |-> pc, link |-> l, person |-> p, time |-> t]
         /\ \A v \in Workers \ {w} : tx'[v] = tx[v]
<1>1. [pc |-> pc, link |-> l, person |-> p, time |-> t] \in Request
  BY DEF Request
<1>2. QED BY <1>1 DEF TypeOK, Begin

LEMMA StepsType ==
  ASSUME TypeOK, NEW w \in Workers, NEW from \in Stages, NEW to \in Stages, Step(w, from, to)
  PROVE  /\ tx[w] \in Request
         /\ tx' \in [Workers -> Request \cup {Idle}]
         /\ tx'[w] = [pc |-> to, link |-> tx[w].link, person |-> tx[w].person,
                      time |-> tx[w].time]
         /\ \A v \in Workers \ {w} : tx'[v] = tx[v]
<1>1. tx[w] \in Request
  BY DEF TypeOK, Step, Stages, Idle
<1>2. [pc |-> to, link |-> tx[w].link, person |-> tx[w].person, time |-> tx[w].time] \in Request
  BY <1>1 DEF Request
<1>3. QED BY <1>1, <1>2 DEF TypeOK, Step

LEMMA EndsType ==
  ASSUME TypeOK, NEW w \in Workers, tx' = [tx EXCEPT ![w] = Idle]
  PROVE  /\ tx' \in [Workers -> Request \cup {Idle}]
         /\ tx'[w] = Idle
         /\ \A v \in Workers \ {w} : tx'[v] = tx[v]
BY DEF TypeOK

LEMMA AtWork ==
  ASSUME TypeOK, NEW w \in Workers, tx[w].pc # "idle"
  PROVE  tx[w] \in Request
BY DEF TypeOK, Idle

LEMMA NextTypeOK ==
  ASSUME TypeOK, [Next]_vars
  PROVE  TypeOK'
<1> USE DEF projectVars, linkVars, userVars, redisVars
<1>1. ASSUME NEW w \in Workers, Mint(w)
      PROVE  TypeOK'
  <2>1. ASSUME NEW l \in Links, NEW e \in Times, MintCheck(w, l, e)
        PROVE  TypeOK'
    <3>1. AnyPerson \in People
      BY LinkAssumption DEF AnyPerson
    <3>2. tx' \in [Workers -> Request \cup {Idle}]
      BY <2>1, <3>1, BeginsType DEF MintCheck, Stages
    <3>3. QED BY <2>1, <3>2 DEF MintCheck, TypeOK
  <2>2. CASE MintInsert(w)
    <3>1. tx' \in [Workers -> Request \cup {Idle}]
      BY <2>2, StepsType DEF MintInsert, Stages
    <3>2. QED BY <2>2, <3>1 DEF MintInsert, TypeOK
  <2>3. CASE MintCommit(w)
    <3>1. tx[w] \in Request /\ tx' \in [Workers -> Request \cup {Idle}]
      BY <2>3, AtWork, EndsType DEF MintCommit, Finish
    <3>2. QED BY <2>3, <3>1 DEF MintCommit, TypeOK, Request
  <2>4. QED BY <1>1, <2>1, <2>2, <2>3 DEF Mint
<1>2. ASSUME NEW w \in Workers, Registration(w)
      PROVE  TypeOK'
  <2>1. ASSUME NEW l \in Links, NEW p \in People, Register(w, l, p)
        PROVE  TypeOK'
    <3>1. tx' \in [Workers -> Request \cup {Idle}]
      BY <2>1, BeginsType DEF Register, Stages, TypeOK
    <3>2. QED BY <2>1, <3>1 DEF Register, TypeOK
  <2>2. CASE Consume(w) \/ CreateUser(w)
    <3>1. tx' \in [Workers -> Request \cup {Idle}]
      BY <2>2, StepsType DEF Consume, CreateUser, Stages
    <3>2. QED BY <2>2, <3>1 DEF Consume, CreateUser, TypeOK
  <2>3. CASE RegisterCommit(w)
    <3>1. tx[w] \in Request /\ tx' \in [Workers -> Request \cup {Idle}]
      BY <2>3, AtWork, EndsType DEF RegisterCommit, Finish
    <3>2. uses' \in [Links -> Nat]
      BY <2>3, <3>1 DEF RegisterCommit, TypeOK, Request
    <3>3. user' \in [People -> {"none", "pending", "active"}]
      BY <2>3, <3>1 DEF RegisterCommit, TypeOK, Request
    <3>4. via' \in [People -> Links \cup {NoLink}]
      BY <2>3, <3>1 DEF RegisterCommit, TypeOK, Request
    <3>5. QED BY <2>3, <3>1, <3>2, <3>3, <3>4 DEF RegisterCommit, TypeOK
  <2>4. QED BY <1>2, <2>1, <2>2, <2>3 DEF Registration
<1>3. ASSUME NEW w \in Workers, Verification(w)
      PROVE  TypeOK'
  <2>1. ASSUME NEW l \in Links, NEW p \in People, Verify(w, l, p)
        PROVE  TypeOK'
    <3>1. tx' \in [Workers -> Request \cup {Idle}]
      BY <2>1, BeginsType DEF Verify, Stages, TypeOK
    <3>2. QED BY <2>1, <3>1 DEF Verify, TypeOK
  <2>2. CASE VerifyCommit(w)
    <3>1. tx[w] \in Request /\ tx' \in [Workers -> Request \cup {Idle}]
      BY <2>2, StepsType DEF VerifyCommit, Stages
    <3>2. QED BY <2>2, <3>1 DEF VerifyCommit, TypeOK, Request
  <2>3. CASE VerifySession(w)
    <3>1. tx[w] \in Request /\ tx' \in [Workers -> Request \cup {Idle}]
      BY <2>3, AtWork, EndsType DEF VerifySession, Finish
    <3>2. QED BY <2>3, <3>1 DEF VerifySession, TypeOK, Request
  <2>4. QED BY <1>3, <2>1, <2>2, <2>3 DEF Verification
<1>4. ASSUME NEW w \in Workers, Consenting(w)
      PROVE  TypeOK'
  <2>1. ASSUME NEW l \in Links, NEW p \in People, Capture(w, l, p)
        PROVE  TypeOK'
    <3>1. tx' \in [Workers -> Request \cup {Idle}]
      BY <2>1, BeginsType DEF Capture, Stages, TypeOK
    <3>2. QED BY <2>1, <3>1 DEF Capture, TypeOK
  <2>2. CASE CaptureCommit(w)
    <3>1. tx[w] \in Request /\ tx' \in [Workers -> Request \cup {Idle}]
      BY <2>2, AtWork, EndsType DEF CaptureCommit, Finish
    <3>2. [person |-> tx[w].person, link |-> tx[w].link] \in Artefact
      BY <3>1 DEF Artefact, Request
    <3>3. QED BY <2>2, <3>1, <3>2 DEF CaptureCommit, TypeOK
  <2>3. QED BY <1>4, <2>1, <2>2 DEF Consenting
<1>5. ASSUME NEW w \in Workers, Abort(w)
      PROVE  TypeOK'
  BY <1>5, EndsType DEF Abort, TypeOK
<1>6. CASE Anytime
  <2>1. ASSUME NEW ls, NEW status \in {"revoked", "expired"}, Set(ls, status)
        PROVE  linkStatus' \in [Links -> {"none", "active", "revoked", "expired"}]
    BY <2>1 DEF Set, TypeOK
  <2>2. CASE \E l \in Links, p \in People : SendCode(l, p) \/ CodeGone(l, p)
    BY <2>2 DEF SendCode, CodeGone, TypeOK
  <2>3. CASE \E p \in People : SignIn(p) \/ SessionEnds(p)
    BY <2>3 DEF SignIn, SessionEnds, TypeOK
  <2>4. CASE \E l \in Links : Revoke(l)
    BY <2>1, <2>4 DEF Revoke, TypeOK
  <2>5. CASE \E s \in Sites : Deactivate(s)
    BY <2>1, <2>5 DEF Deactivate, TypeOK
  <2>6. CASE Close
    BY <2>1, <2>6 DEF Close, TypeOK
  <2>7. CASE CloseByTransition
    BY <2>7 DEF CloseByTransition, TypeOK
  <2>8. CASE Sweep
    BY <2>1, <2>8 DEF Sweep, TypeOK
  <2>9. CASE Tick
    BY <2>9, LinkAssumption DEF Tick, TypeOK, Times
  <2>10. QED BY <1>6, <2>2, <2>3, <2>4, <2>5, <2>6, <2>7, <2>8, <2>9 DEF Anytime
<1>7. CASE UNCHANGED vars
  BY <1>7 DEF vars, TypeOK
<1>8. QED BY <1>1, <1>2, <1>3, <1>4, <1>5, <1>6, <1>7 DEF Next

-----------------------------------------------------------------------------
(* What each action keeps                                                  *)

LEMMA CountsKept ==
  ASSUME CountsOK, UNCHANGED <<uses, cap, via>>
  PROVE  CountsOK'
BY DEF CountsOK, Registrants

\* An action of w that only moves w's own request along leaves the others alone.
LEMMA OthersKept ==
  ASSUME RequestsOK, NEW w \in Workers, UNCHANGED <<linkStatus, uses, cap, user>>,
         \A v \in Workers \ {w} : tx'[v] = tx[v],
         RequestOK(w)', \A v \in Workers \ {w} : Apart(v, w)'
  PROVE  RequestsOK'
<1>1. ASSUME NEW v \in Workers \ {w}
      PROVE  RequestOK(v)'
  BY <1>1 DEF RequestsOK, RequestOK
<1>2. ASSUME NEW v \in Workers, NEW u \in Workers \ {v}
      PROVE  Apart(u, v)'
  <2>1. CASE v = w
    BY <2>1
  <2>2. CASE u = w
    <3>1. Apart(v, w)'
      BY <2>2
    <3>2. QED BY <2>2, <3>1 DEF Apart
  <2>3. CASE v # w /\ u # w
    <3>1. Apart(u, v)
      BY DEF RequestsOK
    <3>2. QED BY <2>3, <3>1 DEF Apart
  <2>4. QED BY <2>1, <2>2, <2>3
<1>3. QED BY <1>1, <1>2 DEF RequestsOK

\* A request that ends, however it ends, leaves the others what they rely on.
LEMMA EndKeeps ==
  ASSUME TypeOK, RequestsOK, NEW w \in Workers, tx' = [tx EXCEPT ![w] = Idle],
         UNCHANGED <<linkStatus, uses, cap, user>>
  PROVE  RequestsOK'
<1>1. tx'[w] = Idle /\ \A v \in Workers \ {w} : tx'[v] = tx[v]
  BY EndsType
<1>2. RequestOK(w)' /\ \A v \in Workers \ {w} : Apart(v, w)'
  BY <1>1 DEF RequestOK, Apart, Idle, Counting, Minting
<1>3. QED BY <1>1, <1>2, OthersKept

\* A request that begins, or goes on without taking a lock, does too.
LEMMA BeginKeeps ==
  ASSUME TypeOK, RequestsOK, NEW w \in Workers, NEW l \in Links, NEW p \in People,
         NEW t \in Times, NEW pc \in {"registering", "verifying", "capturing"},
         Begin(w, pc, l, p, t), UNCHANGED <<linkStatus, uses, cap, user>>,
         pc = "verifying" => user[p] # "none",
         pc = "capturing" => user[p] = "active"
  PROVE  RequestsOK'
<1>1. /\ tx'[w] = [pc |-> pc, link |-> l, person |-> p, time |-> t]
      /\ \A v \in Workers \ {w} : tx'[v] = tx[v]
  BY BeginsType DEF Stages
<1>2. RequestOK(w)' /\ \A v \in Workers \ {w} : Apart(v, w)'
  BY <1>1 DEF RequestOK, Apart, Counting, Minting
<1>3. QED BY <1>1, <1>2, OthersKept

LEMMA MintKeeps ==
  ASSUME IndInv, NEW w \in Workers, Mint(w)
  PROVE  RequestsOK' /\ PeopleOK' /\ CountsOK'
<1> USE DEF projectVars, linkVars, userVars, redisVars, IndInv
<1>1. PeopleOK' /\ CountsOK'
  <2>1. UNCHANGED <<uses, cap, user, via, session, consent>>
    BY DEF Mint, MintCheck, MintInsert, MintCommit
  <2>2. QED BY <2>1, CountsKept DEF PeopleOK, OnlyVerifiedConsent
<1>2. ASSUME NEW l \in Links, NEW e \in Times, MintCheck(w, l, e)
      PROVE  RequestsOK'
  <2>1. AnyPerson \in People
    BY LinkAssumption DEF AnyPerson
  <2>2. /\ tx'[w] = [pc |-> "minting", link |-> l, person |-> AnyPerson, time |-> e]
        /\ \A v \in Workers \ {w} : tx'[v] = tx[v]
    BY <1>2, <2>1, BeginsType DEF MintCheck, Stages
  <2>3. RequestOK(w)'
    BY <1>2, <2>2 DEF RequestOK, MintCheck, Counting, Minting
  <2>4. \A v \in Workers \ {w} : Apart(v, w)'
    BY <1>2, <2>2 DEF Apart, MintCheck, Counting, Minting
  <2>5. QED BY <1>2, <2>2, <2>3, <2>4, OthersKept DEF MintCheck
<1>3. CASE MintInsert(w)
  <2>1. /\ tx[w].pc = "minting"
        /\ tx'[w].pc = "minted" /\ tx'[w].link = tx[w].link
        /\ \A v \in Workers \ {w} : tx'[v] = tx[v]
    BY <1>3, StepsType DEF MintInsert, Stages, Step
  <2>2. UNCHANGED <<linkStatus, uses, cap, user>>
    BY <1>3 DEF MintInsert
  <2>3. RequestOK(w)'
    BY <2>1, <2>2 DEF RequestsOK, RequestOK, Counting, Minting
  <2>4. \A v \in Workers \ {w} : Apart(v, w)'
    BY <2>1, <2>2 DEF RequestsOK, Apart, Counting, Minting
  <2>5. QED BY <1>1, <2>1, <2>2, <2>3, <2>4, OthersKept
<1>4. CASE MintCommit(w)
  <2>1. /\ tx[w].pc = "minted"
        /\ tx'[w] = Idle /\ \A v \in Workers \ {w} : tx'[v] = tx[v]
    BY <1>4, EndsType DEF MintCommit, Finish
  <2>2. /\ UNCHANGED <<uses, cap, user>>
        /\ \A l \in Links \ {tx[w].link} : linkStatus'[l] = linkStatus[l]
    BY <1>4 DEF MintCommit, TypeOK
  <2>3. ASSUME NEW v \in Workers
        PROVE  RequestOK(v)'
    <3>1. CASE v = w
      BY <2>1, <3>1 DEF RequestOK, Idle, Counting, Minting
    <3>2. CASE v # w /\ tx[v].pc \in Minting
      <4>1. tx[v].link # tx[w].link
        BY <2>1, <3>2 DEF RequestsOK, Apart, Minting
      <4>2. tx[v].link \in Links
        BY <3>2, AtWork DEF Request, Minting
      <4>3. QED BY <2>1, <2>2, <3>2, <4>1, <4>2 DEF RequestsOK, RequestOK, Counting, Minting
    <3>3. CASE v # w /\ tx[v].pc \notin Minting
      BY <2>1, <2>2, <3>3 DEF RequestsOK, RequestOK
    <3>4. QED BY <3>1, <3>2, <3>3
  <2>4. ASSUME NEW v \in Workers, NEW u \in Workers \ {v}
        PROVE  Apart(u, v)'
    <3>1. CASE v = w \/ u = w
      BY <2>1, <3>1 DEF Apart, Idle, Counting, Minting
    <3>2. CASE v # w /\ u # w
      BY <2>1, <3>2 DEF RequestsOK, Apart
    <3>3. QED BY <3>1, <3>2
  <2>5. QED BY <1>1, <2>3, <2>4 DEF RequestsOK
<1>5. QED BY <1>1, <1>2, <1>3, <1>4 DEF Mint

LEMMA RegistrationKeeps ==
  ASSUME IndInv, NEW w \in Workers, Registration(w)
  PROVE  RequestsOK' /\ PeopleOK' /\ CountsOK'
<1> USE DEF projectVars, linkVars, userVars, redisVars, IndInv
<1>1. CASE UNCHANGED <<linkVars, userVars, redisVars, consent>>
  <2>1. PeopleOK' /\ CountsOK'
    BY <1>1, CountsKept DEF PeopleOK, OnlyVerifiedConsent
  <2>2. ASSUME NEW l \in Links, NEW p \in People, Register(w, l, p)
        PROVE  RequestsOK'
    BY <1>1, <2>2, BeginKeeps DEF Register, TypeOK
  <2>3. CASE Consume(w)
    <3>1. /\ tx[w].pc = "registering" /\ tx[w].link \in Links
          /\ tx'[w].pc = "consumed" /\ tx'[w].link = tx[w].link
          /\ \A v \in Workers \ {w} : tx'[v] = tx[v]
      <4>1. tx[w].pc = "registering" /\ Step(w, "registering", "consumed")
        BY <2>3 DEF Consume
      <4>2. QED BY <4>1, StepsType DEF Stages, Step, Request
    <3>2. uses[tx[w].link] < cap[tx[w].link]
      BY <2>3 DEF Consume
    <3>3. \A v \in Workers : tx[v].pc \in Counting => tx[v].link # tx[w].link
      BY <2>3 DEF Consume, Locked, Counting
    <3>4. RequestOK(w)'
      BY <1>1, <3>1, <3>2 DEF RequestOK, Counting, Minting
    <3>5. \A v \in Workers \ {w} : Apart(v, w)'
      BY <3>1, <3>3 DEF Apart, Counting, Minting
    <3>6. QED BY <1>1, <2>1, <3>1, <3>4, <3>5, OthersKept
  <2>4. CASE CreateUser(w)
    <3>1. /\ tx[w].pc = "consumed"
          /\ tx'[w].pc = "created"
          /\ tx'[w].link = tx[w].link /\ tx'[w].person = tx[w].person
          /\ \A v \in Workers \ {w} : tx'[v] = tx[v]
      <4>1. tx[w].pc = "consumed" /\ Step(w, "consumed", "created")
        BY <2>4 DEF CreateUser
      <4>2. QED BY <4>1, StepsType DEF Stages, Step
    <3>2. RequestOK(w)'
      BY <1>1, <2>4, <3>1 DEF CreateUser, RequestsOK, RequestOK, Counting, Minting
    <3>3. \A v \in Workers \ {w} : Apart(v, w)'
      BY <2>4, <3>1 DEF CreateUser, RequestsOK, Apart, Counting, Minting
    <3>4. QED BY <1>1, <2>1, <3>1, <3>2, <3>3, OthersKept
  <2>5. CASE RegisterCommit(w)
    <3>1. tx[w] \in Request
      BY <2>5, AtWork DEF RegisterCommit, Finish
    <3>2. uses'[tx[w].link] = uses[tx[w].link] + 1
      BY <2>5, <3>1 DEF RegisterCommit, TypeOK, Request
    <3>3. uses[tx[w].link] \in Nat
      BY <3>1 DEF TypeOK, Request
    <3>4. QED BY <1>1, <3>2, <3>3
  <2>6. QED BY <2>1, <2>2, <2>3, <2>4, <2>5 DEF Registration
<1>2. CASE RegisterCommit(w)
  <2> DEFINE l == tx[w].link
             p == tx[w].person
  <2>1. /\ tx[w].pc = "created" /\ l \in Links /\ p \in People
        /\ tx'[w] = Idle /\ \A v \in Workers \ {w} : tx'[v] = tx[v]
    BY <1>2, AtWork, EndsType DEF RegisterCommit, Finish, Request
  <2>2. uses[l] < cap[l] /\ user[p] = "none" /\ via[p] = NoLink
    BY <2>1 DEF RequestsOK, RequestOK, PeopleOK, Counting
  <2>3. /\ uses' = [uses EXCEPT ![l] = @ + 1]
        /\ user' = [user EXCEPT ![p] = "pending"]
        /\ via' = [via EXCEPT ![p] = l]
        /\ UNCHANGED <<linkStatus, cap, session, consent>>
    BY <1>2 DEF RegisterCommit
  <2> HIDE DEF l, p
  <2>4. /\ user'[p] = "pending" /\ \A q \in People \ {p} : user'[q] = user[q]
        /\ via'[p] = l /\ \A q \in People \ {p} : via'[q] = via[q]
        /\ uses'[l] = uses[l] + 1 /\ \A k \in Links \ {l} : uses'[k] = uses[k]
    BY <2>1, <2>3 DEF TypeOK
  <2>5. PeopleOK'
    <3>1. \A q \in People : user'[q] = "none" <=> via'[q] = NoLink
      BY <2>1, <2>4, LinkAssumption DEF PeopleOK
    <3>2. \A q \in session : user'[q] = "active"
      BY <2>2, <2>4 DEF PeopleOK, TypeOK
    <3>3. \A c \in consent : user'[c.person] = "active"
      BY <2>2, <2>4 DEF PeopleOK, OnlyVerifiedConsent, TypeOK, Artefact
    <3>4. QED BY <2>3, <3>1, <3>2, <3>3 DEF PeopleOK, OnlyVerifiedConsent
  <2>6. CountsOK'
    <3> SUFFICES ASSUME NEW k \in Links
                 PROVE  /\ IsFiniteSet(Registrants(k)')
                        /\ uses'[k] = Cardinality(Registrants(k)')
                        /\ uses'[k] <= cap'[k]
      BY DEF CountsOK
    <3>1. CASE k = l
      <4>1. Registrants(k)' = Registrants(k) \cup {p} /\ p \notin Registrants(k)
        BY <2>1, <2>2, <2>4, <3>1, LinkAssumption DEF Registrants
      <4>2. uses[k] \in Nat /\ cap[k] \in Nat
        BY LinkAssumption DEF TypeOK
      <4>3. /\ IsFiniteSet(Registrants(k)')
            /\ Cardinality(Registrants(k)') = Cardinality(Registrants(k)) + 1
        BY <4>1, FS_AddElement DEF CountsOK
      <4>4. QED BY <2>2, <2>3, <2>4, <3>1, <4>2, <4>3 DEF CountsOK
    <3>2. CASE k # l
      <4>1. Registrants(k)' = Registrants(k)
        BY <2>1, <2>2, <2>4, <3>2, LinkAssumption DEF Registrants
      <4>2. QED BY <2>3, <2>4, <3>2, <4>1 DEF CountsOK
    <3>3. QED BY <3>1, <3>2
  <2>7. ASSUME NEW v \in Workers \ {w}, tx[v].pc # "idle"
        PROVE  RequestOK(v)'
    <3>1. tx[v] \in Request /\ tx'[v] = tx[v]
      BY <2>1, <2>7, AtWork
    <3>2. tx[v].pc \in Counting => tx[v].link # l
      BY <2>1 DEF RequestsOK, Apart, Counting, l
    <3>3. tx[v].pc = "created" => tx[v].person # p
      BY <2>1 DEF RequestsOK, Apart, p
    <3>4. RequestOK(v)
      BY DEF RequestsOK
    <3>5. tx[v].pc \in {"verifying", "verified", "capturing"} => tx[v].person # p
      BY <2>2, <3>4 DEF RequestOK
    <3>6. QED BY <2>3, <2>4, <3>1, <3>2, <3>3, <3>4, <3>5
              DEF RequestOK, Request
  <2>8. RequestsOK'
    BY <2>1, <2>7 DEF RequestsOK, RequestOK, Apart, Idle, Counting, Minting
  <2>9. QED BY <2>5, <2>6, <2>8
<1>3. QED BY <1>1, <1>2 DEF Registration, Register, Consume, CreateUser

LEMMA VerificationKeeps ==
  ASSUME IndInv, NEW w \in Workers, Verification(w)
  PROVE  RequestsOK' /\ PeopleOK' /\ CountsOK'
<1> USE DEF projectVars, linkVars, userVars, redisVars, IndInv
<1>1. CountsOK'
  BY CountsKept DEF Verification, Verify, VerifyCommit, VerifySession
<1>2. ASSUME NEW l \in Links, NEW p \in People, Verify(w, l, p)
      PROVE  RequestsOK' /\ PeopleOK'
  <2>1. PeopleOK'
    BY <1>2 DEF Verify, PeopleOK, OnlyVerifiedConsent
  <2>2. CASE user[p] = "none"
    BY <1>2, <2>1, <2>2 DEF Verify, RequestsOK, RequestOK, Apart
  <2>3. CASE user[p] # "none"
    <3>1. Begin(w, "verifying", l, p, clock) /\ UNCHANGED <<linkStatus, uses, cap, user>>
      BY <1>2, <2>3 DEF Verify
    <3>2. RequestsOK'
      BY <2>3, <3>1, BeginKeeps DEF TypeOK
    <3>3. QED BY <2>1, <3>2
  <2>4. QED BY <2>2, <2>3
<1>3. CASE VerifyCommit(w)
  <2>1. Step(w, "verifying", "verified")
    BY <1>3 DEF VerifyCommit
  <2>2. /\ tx[w] \in Request /\ tx[w].pc = "verifying"
        /\ tx'[w].pc = "verified" /\ tx'[w].person = tx[w].person
        /\ \A v \in Workers \ {w} : tx'[v] = tx[v]
    BY <2>1, StepsType DEF Stages, Step
  <2>3. /\ user' = [user EXCEPT ![tx[w].person] = "active"]
        /\ UNCHANGED <<linkStatus, uses, cap, via, session, consent>>
    BY <1>3 DEF VerifyCommit
  <2>4. user[tx[w].person] # "none" /\ tx[w].person \in People
    BY <2>2 DEF RequestsOK, RequestOK, Request
  <2>5. \A p \in People : user'[p] \in {user[p], "active"} /\ (user'[p] = "none" <=> user[p] = "none")
    BY <2>3, <2>4 DEF TypeOK
  <2>6. PeopleOK'
    BY <2>3, <2>5 DEF PeopleOK, OnlyVerifiedConsent, TypeOK, Artefact
  <2>7. RequestOK(w)'
    BY <2>2, <2>3, <2>4 DEF RequestOK, TypeOK, Counting, Minting
  <2>8. ASSUME NEW v \in Workers \ {w}, tx[v].pc # "idle"
        PROVE  RequestOK(v)'
    <3>1. tx[v] \in Request /\ tx'[v] = tx[v] /\ RequestOK(v)
      BY <2>2, <2>8, AtWork DEF RequestsOK
    <3>2. QED BY <2>3, <2>5, <3>1 DEF RequestOK, Request
  <2>9. RequestsOK'
    BY <2>2, <2>7, <2>8 DEF RequestsOK, RequestOK, Apart, Counting, Minting
  <2>10. QED BY <1>1, <2>6, <2>9
<1>4. CASE VerifySession(w)
  <2>1. RequestsOK'
    BY <1>4, EndKeeps DEF VerifySession, Finish
  <2>2. user[tx[w].person] = "active"
    BY <1>4 DEF VerifySession, Finish, RequestsOK, RequestOK
  <2>3. PeopleOK'
    BY <1>4, <2>2 DEF VerifySession, PeopleOK, OnlyVerifiedConsent
  <2>4. QED BY <1>1, <2>1, <2>3
<1>5. QED BY <1>1, <1>2, <1>3, <1>4 DEF Verification

LEMMA ConsentingKeeps ==
  ASSUME IndInv, NEW w \in Workers, Consenting(w)
  PROVE  RequestsOK' /\ PeopleOK' /\ CountsOK'
<1> USE DEF projectVars, linkVars, userVars, redisVars, IndInv
<1>1. CountsOK'
  BY CountsKept DEF Consenting, Capture, CaptureCommit
<1>2. ASSUME NEW l \in Links, NEW p \in People, Capture(w, l, p)
      PROVE  RequestsOK' /\ PeopleOK'
  <2>1. PeopleOK'
    BY <1>2 DEF Capture, PeopleOK, OnlyVerifiedConsent
  <2>2. user[p] = "active"
    BY <1>2 DEF Capture, PeopleOK
  <2>3. QED BY <1>2, <2>1, <2>2, BeginKeeps DEF Capture, TypeOK
<1>3. CASE CaptureCommit(w)
  <2>1. RequestsOK'
    BY <1>3, EndKeeps DEF CaptureCommit, Finish
  <2>2. user[tx[w].person] = "active"
    BY <1>3 DEF CaptureCommit, Finish, RequestsOK, RequestOK
  <2>3. PeopleOK'
    BY <1>3, <2>2 DEF CaptureCommit, PeopleOK, OnlyVerifiedConsent
  <2>4. QED BY <1>1, <2>1, <2>3
<1>4. QED BY <1>1, <1>2, <1>3 DEF Consenting

\* What ends links touches only links that are active.
LEMMA AnytimeKeeps ==
  ASSUME IndInv, Anytime
  PROVE  RequestsOK' /\ PeopleOK' /\ CountsOK'
<1> USE DEF projectVars, linkVars, userVars, redisVars, IndInv
<1>1. CountsOK'
  BY CountsKept
     DEF Anytime, SendCode, CodeGone, SignIn, SessionEnds, Revoke, Deactivate, Close,
         CloseByTransition, Sweep, Tick
<1>2. CASE \E p \in People : SignIn(p)
  <2>1. PICK p \in People : SignIn(p)
    BY <1>2
  <2>2. /\ user[p] # "none" /\ user' = [user EXCEPT ![p] = "active"]
        /\ session' = session \cup {p}
        /\ UNCHANGED <<linkStatus, uses, cap, via, consent, tx>>
    BY <2>1 DEF SignIn
  <2>3. \A q \in People : user'[q] \in {user[q], "active"} /\ (user'[q] = "none" <=> user[q] = "none")
    BY <2>2 DEF TypeOK
  <2>4. user'[p] = "active"
    BY <2>2 DEF TypeOK
  <2>5. PeopleOK'
    BY <2>2, <2>3, <2>4 DEF PeopleOK, OnlyVerifiedConsent, TypeOK, Artefact
  <2>6. ASSUME NEW v \in Workers, tx[v].pc # "idle"
        PROVE  RequestOK(v)'
    <3>1. tx[v] \in Request /\ RequestOK(v)
      BY <2>6, AtWork DEF RequestsOK
    <3>2. QED BY <2>2, <2>3, <3>1 DEF RequestOK, Request
  <2>7. RequestsOK'
    BY <2>2, <2>6 DEF RequestsOK, RequestOK, Apart, Counting, Minting
  <2>8. QED BY <1>1, <2>5, <2>7
<1>3. CASE ~\E p \in People : SignIn(p)
  <2>1. /\ UNCHANGED <<uses, cap, user, via, consent, tx>>
        /\ session' \subseteq session
    BY <1>3 DEF Anytime, SendCode, CodeGone, SessionEnds, Revoke, Deactivate, Close,
                CloseByTransition, Sweep, Tick
  <2>2. \A l \in Links : linkStatus[l] = "none" => linkStatus'[l] = "none"
    BY <1>3 DEF Anytime, SendCode, CodeGone, SessionEnds, Revoke, Deactivate, Close,
                CloseByTransition, Sweep, Tick, Set, Live
  <2>3. PeopleOK'
    BY <2>1 DEF PeopleOK, OnlyVerifiedConsent
  <2>4. ASSUME NEW v \in Workers, tx[v].pc # "idle"
        PROVE  RequestOK(v)'
    <3>1. tx[v] \in Request /\ RequestOK(v)
      BY <2>4, AtWork DEF RequestsOK
    <3>2. QED BY <2>1, <2>2, <3>1 DEF RequestOK, Request
  <2>5. RequestsOK'
    BY <2>1, <2>4 DEF RequestsOK, RequestOK, Apart, Counting, Minting
  <2>6. QED BY <1>1, <2>3, <2>5
<1>4. QED BY <1>2, <1>3

LEMMA NextIndInv ==
  ASSUME IndInv, [Next]_vars
  PROVE  IndInv'
<1>1. TypeOK'
  BY NextTypeOK DEF IndInv
<1>2. ASSUME NEW w \in Workers, Abort(w)
      PROVE  RequestsOK' /\ PeopleOK' /\ CountsOK'
  <2>1. /\ tx' = [tx EXCEPT ![w] = Idle]
        /\ UNCHANGED <<linkStatus, uses, cap, user, via, session, consent>>
    BY <1>2 DEF Abort, linkVars, userVars, redisVars
  <2>2. QED BY <2>1, EndKeeps, CountsKept DEF IndInv, PeopleOK, OnlyVerifiedConsent
<1>3. CASE UNCHANGED vars
  <2>1. UNCHANGED <<linkStatus, uses, cap, user, via, session, consent, tx>>
    BY <1>3 DEF vars
  <2>2. RequestsOK'
    BY <2>1 DEF IndInv, RequestsOK, RequestOK, Apart
  <2>3. QED BY <1>1, <2>1, <2>2, CountsKept DEF IndInv, PeopleOK, OnlyVerifiedConsent
<1>4. QED
  BY <1>1, <1>2, <1>3, MintKeeps, RegistrationKeeps, VerificationKeeps, ConsentingKeeps,
     AnytimeKeeps
  DEF Next, IndInv

-----------------------------------------------------------------------------
(* Theorems                                                                *)

\* The strengthened invariant holds in every reachable state.
THEOREM Invariance == Spec => []IndInv
<1>1. Init => IndInv
  BY InitIndInv
<1>2. IndInv /\ [Next]_vars => IndInv'
  BY NextIndInv
<1>3. QED BY <1>1, <1>2, PTL DEF Spec

\* Statuses, counters and requests keep their shape.
THEOREM TypeCorrect == Spec => []TypeOK
<1>1. IndInv => TypeOK
  BY DEF IndInv
<1>2. QED BY <1>1, Invariance, PTL

\* use_count is the number of people registered through the link and never passes
\* the cap: increment_use holds the row between its test and its commit.
THEOREM CapIsKept == Spec => []UsesCountRegistrants
<1>1. IndInv => UsesCountRegistrants
  BY DEF IndInv, CountsOK, UsesCountRegistrants, Registrants
<1>2. QED BY <1>1, Invariance, PTL

\* Nobody's consent is kept who has not confirmed a contact, whatever captures,
\* verifications and sign-ins interleave.
THEOREM ConsentIsVerified == Spec => []OnlyVerifiedConsent
<1>1. IndInv => OnlyVerifiedConsent
  BY DEF IndInv, PeopleOK
<1>2. QED BY <1>1, Invariance, PTL

\* A step that lets a link resolve found it resolving, or made its row.
LEMMA NothingRevives ==
  ASSUME IndInv, [Next]_vars, NEW l \in Links, linkStatus[l] # "none", Resolves(l)'
  PROVE  Resolves(l)
<1> USE DEF projectVars, linkVars, userVars, redisVars
<1>1. /\ project' = "approved" => project = "approved"
      /\ site' = site \/ \E s \in Sites : site' = [site EXCEPT ![s] = "terminated"]
      /\ clock' = clock \/ clock' = clock + 1
      /\ cap' = cap
      /\ uses' = uses \/ \E w \in Workers : uses' = [uses EXCEPT ![tx[w].link] = @ + 1]
  BY DEF Next, vars, Mint, MintCheck, MintInsert, MintCommit, Registration, Register,
         Consume, CreateUser, RegisterCommit, Verification, Verify, VerifyCommit,
         VerifySession, Consenting, Capture, CaptureCommit, Abort, Anytime, SendCode,
         CodeGone, SignIn, SessionEnds, Revoke, Deactivate, Close, CloseByTransition,
         Sweep, Tick
<1>2. \A s \in Sites : site'[s] = "active" => site[s] = "active"
  BY <1>1 DEF IndInv, TypeOK
<1>3. clock \in Nat /\ clock' \in Nat /\ clock <= clock'
  <2>1. clock \in Nat
    BY LinkAssumption DEF IndInv, TypeOK, Times
  <2>2. QED BY <1>1, <2>1
<1>4. /\ uses[l] \in Nat /\ uses'[l] \in Nat /\ uses[l] <= uses'[l]
      /\ cap'[l] = cap[l] /\ cap[l] \in Nat
  <2>1. uses[l] \in Nat /\ cap[l] \in Nat
    BY LinkAssumption DEF IndInv, TypeOK
  <2>2. uses'[l] \in {uses[l], uses[l] + 1}
    BY <1>1 DEF IndInv, TypeOK
  <2>3. QED BY <1>1, <2>1, <2>2
<1>5. linkStatus[l] = "active" /\ expires'[l] = expires[l]
  <2>1. CASE \E w \in Workers : MintCommit(w)
    <3>1. PICK w \in Workers : MintCommit(w)
      BY <2>1
    <3>2. linkStatus[tx[w].link] = "none" /\ tx[w] \in Request
      BY <3>1, AtWork DEF MintCommit, Finish, IndInv, RequestsOK, RequestOK, Minting
    <3>3. l # tx[w].link
      BY <3>2
    <3>4. linkStatus'[l] = linkStatus[l] /\ expires'[l] = expires[l]
      BY <3>1, <3>3 DEF MintCommit, IndInv, TypeOK
    <3>5. QED BY <3>4 DEF Resolves
  <2>2. CASE ~\E w \in Workers : MintCommit(w)
    <3>1. expires' = expires
      BY <2>2
      DEF Next, vars, Mint, MintCheck, MintInsert, Registration, Register, Consume,
          CreateUser, RegisterCommit, Verification, Verify, VerifyCommit, VerifySession,
          Consenting, Capture, CaptureCommit, Abort, Anytime, SendCode, CodeGone, SignIn,
          SessionEnds, Revoke, Deactivate, Close, CloseByTransition, Sweep, Tick
    <3>2. linkStatus'[l] = "active" => linkStatus[l] = "active"
      BY <2>2
      DEF Next, vars, Mint, MintCheck, MintInsert, Registration, Register, Consume,
          CreateUser, RegisterCommit, Verification, Verify, VerifyCommit, VerifySession,
          Consenting, Capture, CaptureCommit, Abort, Anytime, SendCode, CodeGone, SignIn,
          SessionEnds, Revoke, Deactivate, Close, CloseByTransition, Sweep, Tick, Set,
          Live
    <3>3. QED BY <3>1, <3>2 DEF Resolves
  <2>3. QED BY <2>1, <2>2
<1>6. expires[l] \in Nat /\ SiteOf[l] \in Sites
  BY LinkAssumption DEF IndInv, TypeOK, Times
<1>7. QED BY <1>1, <1>2, <1>3, <1>4, <1>5, <1>6 DEF Resolves

\* A link that no longer resolves never resolves again: neither a registration nor
\* a minting still in flight brings back a link that was revoked, used up or past
\* its time.
THEOREM DeadLinksStayDead == Spec => DeadStaysDead
<1>1. IndInv /\ [Next]_vars
        => [\A l \in Links : linkStatus[l] # "none" /\ ~Resolves(l) => ~Resolves(l)']_vars
  BY NothingRevives
<1>2. QED BY <1>1, Invariance, PTL DEF Spec, DeadStaysDead

-----------------------------------------------------------------------------
(* The refinement of LinkPromise                                           *)

\* A link whose place is being taken stands until the place is taken, for every end of it
\* waits for its row; a link on which somebody is consenting has stood.
HeldOK(w) ==
  /\ tx[w].pc \in Counting => linkStatus[tx[w].link] = "active"
  /\ tx[w].pc = "capturing" => linkStatus[tx[w].link] # "none"

LinksHeld == \A w \in Workers : HeldOK(w)

\* What may end a link
Ends ==
  \/ \E l \in Links : Revoke(l)
  \/ \E s \in Sites : Deactivate(s)
  \/ Close \/ Sweep

LEMMA EndsSpareHeld ==
  ASSUME Ends
  PROVE  /\ UNCHANGED <<uses, cap, userVars, session, consent, tx>>
         /\ \E ls \in SUBSET Links, status \in {"revoked", "expired"} :
              Free(ls) /\ Set(ls, status)
<1>1. UNCHANGED <<uses, cap, userVars, session, consent, tx>>
  BY DEF Ends, Revoke, Deactivate, Close, Sweep, redisVars
<1>2. CASE \E l \in Links : Revoke(l)
  <2>1. PICK l \in Links : Revoke(l)
    BY <1>2
  <2>2. {l} \in SUBSET Links /\ Free({l}) /\ Set({l}, "revoked")
    BY <2>1 DEF Revoke
  <2>3. QED BY <1>1, <2>2
<1>3. CASE (\E s \in Sites : Deactivate(s)) \/ Close
  <2>1. Links \in SUBSET Links /\ Free(Links) /\ Set(Links, "revoked")
    BY <1>3 DEF Deactivate, Close
  <2>2. QED BY <1>1, <2>1
<1>4. CASE Sweep
  <2> DEFINE due == {l \in Links : Live(l) /\ expires[l] <= clock}
  <2>1. due \in SUBSET Links /\ Free(due) /\ Set(due, "expired")
    BY <1>4 DEF Sweep
  <2> HIDE DEF due
  <2>2. QED BY <1>1, <2>1
<1>5. QED BY <1>2, <1>3, <1>4 DEF Ends

\* The steps after which every row of a link is as it was, but for its count
Others ==
  \/ \E w \in Workers :
       \/ \E l \in Links, e \in Times : MintCheck(w, l, e)
       \/ MintInsert(w) \/ Registration(w) \/ Verification(w) \/ Consenting(w) \/ Abort(w)
  \/ \E l \in Links, p \in People : SendCode(l, p) \/ CodeGone(l, p)
  \/ \E p \in People : SignIn(p) \/ SessionEnds(p)
  \/ CloseByTransition \/ Tick

LEMMA StepKinds ==
  ASSUME [Next]_vars
  PROVE  (\E w \in Workers : MintCommit(w)) \/ Ends \/ Others \/ UNCHANGED vars
BY DEF Next, Mint, Anytime, Ends, Others

LEMMA OthersLeaveStatus == Others => linkStatus' = linkStatus
BY DEF Others, MintCheck, MintInsert, Registration, Register, Consume, CreateUser,
       RegisterCommit, Verification, Verify, VerifyCommit, VerifySession, Consenting,
       Capture, CaptureCommit, Abort, SendCode, CodeGone, SignIn, SessionEnds,
       CloseByTransition, Tick, linkVars

\* A handler's own step takes a place, or begins to consent, on a link that stands.
LEMMA OthersHold ==
  ASSUME IndInv, LinksHeld, Others, NEW w \in Workers
  PROVE  HeldOK(w)'
<1>1. linkStatus' = linkStatus /\ HeldOK(w) /\ TypeOK
  BY OthersLeaveStatus DEF LinksHeld, IndInv
<1>2. CASE tx'[w] = tx[w]
  BY <1>1, <1>2 DEF HeldOK
<1>3. CASE Consume(w)
  <2>1. tx'[w].pc = "consumed" /\ tx'[w].link = tx[w].link
    <3>1. Step(w, "registering", "consumed")
      BY <1>3 DEF Consume
    <3>2. QED BY <1>1, <3>1, StepsType DEF Stages, Step
  <2>2. linkStatus[tx[w].link] = "active"
    BY <1>3 DEF Consume
  <2>3. QED BY <2>1, <2>2, <1>1 DEF HeldOK
<1>4. CASE CreateUser(w)
  <2>1. tx'[w].pc = "created" /\ tx'[w].link = tx[w].link
    <3>1. Step(w, "consumed", "created")
      BY <1>4 DEF CreateUser
    <3>2. QED BY <1>1, <3>1, StepsType DEF Stages, Step
  <2>2. tx[w].pc = "consumed"
    BY <1>4 DEF CreateUser
  <2>3. QED BY <2>1, <2>2, <1>1 DEF HeldOK, Counting
<1>5. CASE \E l \in Links, p \in People : Capture(w, l, p)
  BY <1>1, <1>5 DEF Capture, Begin, Resolves, HeldOK, Counting, TypeOK
<1>6. CASE tx'[w].pc \notin Counting \cup {"capturing"}
  BY <1>6 DEF HeldOK
<1>7. \/ tx'[w] = tx[w] \/ Consume(w) \/ CreateUser(w)
      \/ \E l \in Links, p \in People : Capture(w, l, p)
      \/ tx'[w].pc \notin Counting \cup {"capturing"}
  <2>1. ASSUME NEW v \in Workers,
               \/ \E l \in Links, e \in Times : MintCheck(v, l, e)
               \/ MintInsert(v) \/ Registration(v) \/ Verification(v) \/ Consenting(v)
               \/ Abort(v)
        PROVE  \/ tx'[v] = tx[v] \/ Consume(v) \/ CreateUser(v)
               \/ \E l \in Links, p \in People : Capture(v, l, p)
               \/ tx'[v].pc \notin Counting \cup {"capturing"}
    <3>1. CASE \/ \E l \in Links, e \in Times : MintCheck(v, l, e)
               \/ \E l \in Links, p \in People : Register(v, l, p) \/ Verify(v, l, p)
      <4>1. ASSUME NEW l, NEW p, NEW t,
                   \/ Begin(v, "minting", l, p, t) \/ Begin(v, "registering", l, p, t)
                   \/ Begin(v, "verifying", l, p, t)
            PROVE  tx'[v].pc \in {"minting", "registering", "verifying"}
        BY <4>1, <1>1 DEF Begin, TypeOK
      <4>2. \/ tx' = tx
            \/ \E l, p, t :
                 \/ Begin(v, "minting", l, p, t) \/ Begin(v, "registering", l, p, t)
                 \/ Begin(v, "verifying", l, p, t)
        BY <3>1 DEF MintCheck, Register, Verify
      <4>3. QED BY <4>1, <4>2 DEF Counting
    <3>2. CASE MintInsert(v) \/ VerifyCommit(v)
      BY <3>2, <1>1 DEF MintInsert, VerifyCommit, Step, Counting, TypeOK
    <3>3. CASE RegisterCommit(v) \/ VerifySession(v) \/ CaptureCommit(v) \/ Abort(v)
      BY <3>3, <1>1, EndsType DEF RegisterCommit, VerifySession, CaptureCommit, Abort, Finish,
         Idle, Counting
    <3>4. QED BY <2>1, <3>1, <3>2, <3>3 DEF Registration, Verification, Consenting
  <2>2. ASSUME NEW v \in Workers, v # w,
               \/ \E l \in Links, e \in Times : MintCheck(v, l, e)
               \/ MintInsert(v) \/ Registration(v) \/ Verification(v) \/ Consenting(v)
               \/ Abort(v)
        PROVE  tx'[w] = tx[w]
    BY <2>2, <1>1 DEF MintCheck, MintInsert, Registration, Register, Consume, CreateUser,
       RegisterCommit, Verification, Verify, VerifyCommit, VerifySession, Consenting, Capture,
       CaptureCommit, Abort, Begin, Step, Finish, TypeOK
  <2>3. CASE \/ \E l \in Links, p \in People : SendCode(l, p) \/ CodeGone(l, p)
             \/ \E p \in People : SignIn(p) \/ SessionEnds(p)
             \/ CloseByTransition \/ Tick
    BY <2>3 DEF SendCode, CodeGone, SignIn, SessionEnds, CloseByTransition, Tick
  <2>4. QED BY <2>1, <2>2, <2>3 DEF Others
<1>8. QED BY <1>2, <1>3, <1>4, <1>5, <1>6, <1>7

LEMMA NextLinksHeld ==
  ASSUME IndInv, LinksHeld, [Next]_vars
  PROVE  LinksHeld'
<1> SUFFICES ASSUME NEW w \in Workers PROVE HeldOK(w)'
  BY DEF LinksHeld
<1>1. HeldOK(w)
  BY DEF LinksHeld
<1>2. CASE \E v \in Workers : MintCommit(v)
  <2>1. PICK v \in Workers : MintCommit(v)
    BY <1>2
  <2>2. tx'[w] = tx[w] \/ tx'[w].pc = "idle"
    BY <2>1 DEF MintCommit, Finish, Idle, IndInv, TypeOK
  <2>3. \A l \in Links : linkStatus'[l] \in {linkStatus[l], "active"}
    BY <2>1 DEF MintCommit, IndInv, TypeOK
  <2>4. tx[w].pc # "idle" => tx[w].link \in Links
    BY AtWork DEF IndInv, Request
  <2>5. QED BY <1>1, <2>2, <2>3, <2>4 DEF HeldOK, Counting
<1>3. CASE Ends
  <2>1. tx' = tx
    BY <1>3, EndsSpareHeld
  <2>2. PICK ls \in SUBSET Links, status \in {"revoked", "expired"} :
          Free(ls) /\ Set(ls, status)
    BY <1>3, EndsSpareHeld
  <2>3. tx[w].pc # "idle" => tx[w].link \in Links
    BY AtWork DEF IndInv, Request
  <2>4. tx[w].pc \in Counting => linkStatus'[tx[w].link] = linkStatus[tx[w].link]
    BY <2>2, <2>3 DEF Free, Set, Locked, Counting
  <2>5. \A l \in Links : linkStatus[l] # "none" => linkStatus'[l] # "none"
    BY <2>2 DEF Set
  <2>6. QED BY <1>1, <2>1, <2>3, <2>4, <2>5 DEF HeldOK
<1>4. CASE Others
  BY <1>4, OthersHold
<1>5. CASE UNCHANGED vars
  BY <1>1, <1>5 DEF vars, HeldOK
<1>6. QED BY <1>2, <1>3, <1>4, <1>5, StepKinds

\* How many people a link has admitted, as LinkPromise counts them and as the rows do
LEMMA HeadCount ==
  ASSUME CountsOK, NEW l \in Links
  PROVE  Promise!Cardinality(Promise!Guests(l)) = uses[l]
<1>1. Promise!Cardinality(Promise!Guests(l)) = Cardinality(Promise!Guests(l))
  BY DEF Promise!Cardinality, Cardinality
<1>2. Promise!Guests(l) = Registrants(l)
  BY DEF Promise!Guests, Registrants
<1>3. QED BY <1>1, <1>2 DEF CountsOK

\* The three steps of the handlers that LinkPromise sees
LEMMA MintIsMint ==
  ASSUME IndInv, NEW w \in Workers, MintCommit(w)
  PROVE  \E l \in Links : Promise!Mint(l)
<1>1. PICK l \in Links : tx[w].link = l
  BY AtWork DEF MintCommit, Finish, Request, IndInv
<1>2. linkStatus[l] = "none"
  BY <1>1 DEF MintCommit, Finish, IndInv, RequestsOK, RequestOK, Minting
<1>3. /\ linkStatus' = [linkStatus EXCEPT ![l] = "active"]
      /\ UNCHANGED <<cap, via, user, consent>>
  BY <1>1 DEF MintCommit, userVars
<1>4. \A k \in Links : linkStatus'[k] = IF k = l THEN "active" ELSE linkStatus[k]
  BY <1>3 DEF IndInv, TypeOK
<1>5. /\ {k \in Links : linkStatus'[k] # "none"} = {k \in Links : linkStatus[k] # "none"} \cup {l}
      /\ {k \in Links : Live(k)}' = {k \in Links : Live(k)} \cup {l}
  BY <1>4 DEF Live
<1>6. Promise!Mint(l)
  BY <1>2, <1>3, <1>5 DEF Promise!Mint
<1>7. QED BY <1>6

LEMMA RegistrationIsAdmission ==
  ASSUME IndInv, LinksHeld, NEW w \in Workers, RegisterCommit(w)
  PROVE  \E p \in People, l \in Links : Promise!Admit(p, l)
<1>1. PICK l \in Links, p \in People : tx[w].link = l /\ tx[w].person = p
  BY AtWork DEF RegisterCommit, Finish, Request, IndInv
<1>2. linkStatus[l] = "active" /\ uses[l] < cap[l] /\ user[p] = "none"
  BY <1>1
  DEF RegisterCommit, Finish, LinksHeld, HeldOK, IndInv, RequestsOK, RequestOK, Counting
<1>3. via[p] = NoLink
  BY <1>2 DEF IndInv, PeopleOK
<1>4. /\ user' = [user EXCEPT ![p] = "pending"] /\ via' = [via EXCEPT ![p] = l]
      /\ UNCHANGED <<linkStatus, cap, consent>>
  BY <1>1 DEF RegisterCommit
<1>5. {q \in People : user'[q] = "active"} = {q \in People : user[q] = "active"}
  <2>1. \A q \in People : user'[q] = IF q = p THEN "pending" ELSE user[q]
    BY <1>4 DEF IndInv, TypeOK
  <2>2. QED BY <2>1, <1>2
<1>6. {k \in Links : Live(k)}' = {k \in Links : Live(k)} /\ l \in {k \in Links : Live(k)}
  BY <1>2, <1>4 DEF Live
<1>7. Promise!Cardinality(Promise!Guests(l)) < cap[l]
  BY <1>2, HeadCount DEF IndInv
<1>8. Promise!Admit(p, l)
  BY <1>3, <1>4, <1>5, <1>6, <1>7 DEF Promise!Admit
<1>9. QED BY <1>8

LEMMA VerificationIsConfirmation ==
  ASSUME IndInv, NEW p \in People, user[p] # "none", user' = [user EXCEPT ![p] = "active"],
         UNCHANGED <<linkStatus, cap, via, consent>>
  PROVE  Promise!Confirm(p)
<1>1. via[p] # NoLink
  BY DEF IndInv, PeopleOK
<1>2. {q \in People : user'[q] = "active"} = {q \in People : user[q] = "active"} \cup {p}
  <2>1. \A q \in People : user'[q] = IF q = p THEN "active" ELSE user[q]
    BY DEF IndInv, TypeOK
  <2>2. QED BY <2>1
<1>3. {k \in Links : Live(k)}' = {k \in Links : Live(k)}
  BY DEF Live
<1>4. QED BY <1>1, <1>2, <1>3 DEF Promise!Confirm

LEMMA CaptureIsConsent ==
  ASSUME IndInv, LinksHeld, NEW w \in Workers, CaptureCommit(w)
  PROVE  \E p \in People, l \in Links : Promise!Consent(p, l)
<1>1. PICK l \in Links, p \in People : tx[w].link = l /\ tx[w].person = p
  BY AtWork DEF CaptureCommit, Finish, Request, IndInv
<1>2. linkStatus[l] # "none" /\ user[p] = "active"
  BY <1>1 DEF CaptureCommit, Finish, LinksHeld, HeldOK, IndInv, RequestsOK, RequestOK
<1>3. /\ consent' = consent \cup {[person |-> p, link |-> l]}
      /\ UNCHANGED <<linkStatus, cap, via, user>>
  BY <1>1 DEF CaptureCommit, linkVars, userVars
<1>4. {k \in Links : Live(k)}' = {k \in Links : Live(k)}
  BY <1>3 DEF Live
<1>5. Promise!Consent(p, l)
  BY <1>2, <1>3, <1>4 DEF Promise!Consent
<1>6. QED BY <1>5

LEMMA EndingIsEnd ==
  ASSUME IndInv, Ends
  PROVE  \E ls \in SUBSET Links : Promise!End(ls)
<1>1. PICK ls \in SUBSET Links, status \in {"revoked", "expired"} : Set(ls, status)
  BY EndsSpareHeld
<1>2. UNCHANGED <<cap, via, user, consent>>
  BY EndsSpareHeld DEF userVars
<1>3. \A l \in Links : linkStatus'[l] = IF l \in ls /\ Live(l) THEN status ELSE linkStatus[l]
  BY <1>1 DEF Set
<1>4. /\ {k \in Links : linkStatus'[k] # "none"} = {k \in Links : linkStatus[k] # "none"}
      /\ {k \in Links : Live(k)}' = {k \in Links : Live(k)} \ ls
  BY <1>3 DEF Live
<1>5. Promise!End(ls)
  BY <1>2, <1>4 DEF Promise!End
<1>6. QED BY <1>5

\* The steps that it does not see
Silent ==
  \/ \E w \in Workers :
       \/ \E l \in Links, e \in Times : MintCheck(w, l, e)
       \/ MintInsert(w)
       \/ \E l \in Links, p \in People :
            Register(w, l, p) \/ Verify(w, l, p) \/ Capture(w, l, p)
       \/ Consume(w) \/ CreateUser(w) \/ VerifySession(w) \/ Abort(w)
  \/ \E l \in Links, p \in People : SendCode(l, p) \/ CodeGone(l, p)
  \/ \E p \in People : SessionEnds(p)
  \/ CloseByTransition \/ Tick

LEMMA StepKeepsPromise ==
  ASSUME IndInv, LinksHeld, [Next]_vars
  PROVE  [Promise!Next]_(Promise!promiseVars)
<1>1. ASSUME UNCHANGED <<linkStatus, cap, via, user, consent>>
      PROVE  UNCHANGED Promise!promiseVars
  BY <1>1 DEF Promise!promiseVars, Live
<1>2. CASE \E w \in Workers : MintCommit(w)
  BY <1>2, MintIsMint DEF Promise!Next
<1>3. CASE Ends
  BY <1>3, EndingIsEnd DEF Promise!Next
<1>4. CASE \E w \in Workers : RegisterCommit(w)
  BY <1>4, RegistrationIsAdmission DEF Promise!Next
<1>5. CASE \E w \in Workers : VerifyCommit(w)
  <2>1. PICK w \in Workers : VerifyCommit(w)
    BY <1>5
  <2>2. PICK p \in People : tx[w].person = p
    BY <2>1, AtWork DEF VerifyCommit, Step, Request, IndInv
  <2>3. user[p] # "none"
    BY <2>1, <2>2 DEF VerifyCommit, Step, IndInv, RequestsOK, RequestOK
  <2>4. /\ user' = [user EXCEPT ![p] = "active"]
        /\ UNCHANGED <<linkStatus, cap, via, consent>>
    BY <2>1, <2>2 DEF VerifyCommit, linkVars
  <2>5. QED BY <2>3, <2>4, VerificationIsConfirmation DEF Promise!Next
<1>6. CASE \E p \in People : SignIn(p)
  BY <1>6, VerificationIsConfirmation DEF SignIn, linkVars, Promise!Next
<1>7. CASE \E w \in Workers : CaptureCommit(w)
  BY <1>7, CaptureIsConsent DEF Promise!Next
<1>8. CASE Silent
  <2>1. Silent => UNCHANGED <<linkStatus, cap, via, user, consent>>
    BY DEF Silent, MintCheck, MintInsert, Register, Consume, CreateUser, Verify, VerifySession,
       Capture, Abort, SendCode, CodeGone, SessionEnds, CloseByTransition, Tick, linkVars,
       userVars
  <2>2. UNCHANGED Promise!promiseVars
    BY <1>1, <1>8, <2>1
  <2>3. QED BY <2>2
<1>9. CASE UNCHANGED vars
  BY <1>1, <1>9 DEF vars
<1>10. Others => \/ \E w \in Workers : RegisterCommit(w)
                 \/ \E w \in Workers : VerifyCommit(w)
                 \/ \E w \in Workers : CaptureCommit(w)
                 \/ \E p \in People : SignIn(p)
                 \/ Silent
  BY DEF Others, Registration, Verification, Consenting, Silent
<1>11. QED
  BY <1>2, <1>3, <1>4, <1>5, <1>6, <1>7, <1>8, <1>9, <1>10, StepKinds

LEMMA InitPromise == Init => Promise!Init /\ LinksHeld
<1> SUFFICES ASSUME Init PROVE Promise!Init /\ LinksHeld
  OBVIOUS
<1>1. LinksHeld
  BY DEF Init, LinksHeld, HeldOK, Idle, Counting
<1>2. /\ {l \in Links : linkStatus[l] # "none"} = {} /\ {l \in Links : Live(l)} = {}
      /\ {p \in People : user[p] = "active"} = {}
  BY DEF Init, Live
<1>3. cap \in [Links -> Nat \ {0}]
  BY LinkAssumption DEF Init
<1>4. QED BY <1>1, <1>2, <1>3 DEF Init, Promise!Init

\* The public consent flow implements LinkPromise: whatever registrations, confirmations,
\* consents and ends of links interleave, each link admits people one at a time, while it
\* stands and up to its cap by head count, nobody twice, and only confirmed people consent
\* (increment_use, register_subject, verify_contact_code, capture).
THEOREM LinksKeepPromise == Spec => KeepsPromise
<1>1. Init => Promise!Init /\ LinksHeld
  BY InitPromise
<1>2. IndInv /\ LinksHeld /\ [Next]_vars => LinksHeld'
  BY NextLinksHeld
<1>3. IndInv /\ LinksHeld /\ [Next]_vars => [Promise!Next]_(Promise!promiseVars)
  BY StepKeepsPromise
<1>4. QED BY <1>1, <1>2, <1>3, Invariance, PTL DEF Spec, KeepsPromise, Promise!Spec
=============================================================================
