---------------------------- MODULE SignInProofs ----------------------------
(***************************************************************************)
(* Theorems about SignIn, for any number of handlers, tokens, roles and    *)
(* codes, and about Accounts, for any number of handlers, login names and  *)
(* passwords and any threshold: what a session stands on, and what stands  *)
(* before the password.                                                    *)
(*                                                                         *)
(* SignIn.  A session becomes full by a code or for a role that needs      *)
(* none, the wrong guesses on their way to the counter are exactly the     *)
(* requests that still have to count, a hash that is gone is written only  *)
(* by requests that write some of its fields, and a revocation that has    *)
(* read the index knows every session that was indexed and is live.        *)
(*                                                                         *)
(* Accounts.  Behind the lock of a name only the passwords are answered    *)
(* that were being tried when it was set, so their number is part of the   *)
(* invariant.                                                              *)
(***************************************************************************)
EXTENDS SignIn, Accounts, FiniteSetTheorems, TLAPS

\* What a request carries at each of its stages
Shape(w) ==
  /\ tx[w].pc \in {"signing", "admitting"} => tx[w].role \in Roles
  /\ tx[w].pc \in {"issuing", "verifying", "matched", "missed", "discarding",
                   "promoting", "found"} => tx[w].scope \in Scopes
  /\ tx[w].pc \in {"verifying", "matched"} /\ tx[w].scope = "staff_mfa" =>
       tx[w].token \in Tokens
  /\ tx[w].pc \in {"verifying", "matched"} /\ tx[w].scope = "subject_login" =>
       tx[w].role \in Roles
  /\ tx[w].pc \in {"promoting", "found", "sliding"} => tx[w].token \in Tokens
  /\ tx[w].pc = "missed" => tx[w].code \in 1..issued

ShapesOK == \A w \in Workers : Shape(w)

\* Codes are issued in order, each under one scope, and nobody has guessed at one to
\* come.  A guess that missed an outstanding code is on its way to that code's counter.
CodesOK ==
  /\ \A sc \in Scopes : code[sc] <= issued
  /\ \A c \in Codes : c > issued => missed[c] = 0
  /\ \A s1, s2 \in Scopes : code[s1] = code[s2] /\ code[s1] # NoCode => s1 = s2
  /\ \A w \in Workers, sc \in Scopes :
       tx[w].pc = "missed" /\ code[sc] = tx[w].code => tx[w].scope = sc

\* The wrong guesses at a code that are not on the counter yet
Missers(c) == {w \in Workers : tx[w].pc = "missed" /\ tx[w].code = c}

GuessesOK ==
  \A c \in Codes :
    /\ IsFiniteSet(Missers(c))
    /\ Cardinality(Missers(c)) <= missed[c]
    /\ \A sc \in Scopes : c = code[sc] => missed[c] <= attempts[sc] + Cardinality(Missers(c))

\* The sessions of which LiveIsIndexed speaks
Tracked(t) == IsLive(t) /\ ~session[t].stray /\ ~session[t].renewed

\* A listing prunes only what has ended; a revocation has read every tracked session.
SweepsOK ==
  \A w \in Workers :
    /\ tx[w].pc = "listing" => \A t \in tx[w].tokens : session[t] \in {Gone, Broken}
    /\ tx[w].pc = "members" => \A t \in Tokens : Tracked(t) => t \in tx[w].tokens

IndInv ==
  TypeOK /\ ShapesOK /\ CodesOK /\ GuessesOK /\ SecondFactor /\ SweepsOK /\ LiveIsIndexed

LEMMA InitIndInv == Init => IndInv
<1> SUFFICES ASSUME Init PROVE IndInv
  OBVIOUS
<1>0. \A t \in Tokens : ~IsLive(t) /\ ~Full(t)
  BY DEF Init, IsLive, Full, Unused
<1>1. TypeOK
  BY SignInAssumption DEF Init, TypeOK, NoCode, Statuses
<1>2. ShapesOK
  BY DEF Init, ShapesOK, Shape, Idle
<1>3. CodesOK
  BY DEF Init, CodesOK, NoCode, Idle
<1>4. GuessesOK
  <2> SUFFICES ASSUME NEW c \in Codes
               PROVE  /\ IsFiniteSet(Missers(c)) /\ Cardinality(Missers(c)) <= missed[c]
                      /\ \A sc \in Scopes : c = code[sc] =>
                           missed[c] <= attempts[sc] + Cardinality(Missers(c))
    BY DEF GuessesOK
  <2>1. Missers(c) = {}
    BY DEF Init, Missers, Idle
  <2>2. missed[c] = 0 /\ \A sc \in Scopes : attempts[sc] = 0
    BY DEF Init
  <2>3. QED BY <2>1, <2>2, FS_EmptySet
<1>5. SecondFactor /\ LiveIsIndexed
  BY <1>0 DEF SecondFactor, LiveIsIndexed
<1>6. SweepsOK
  BY DEF Init, SweepsOK, Idle
<1>7. QED BY <1>1, <1>2, <1>3, <1>4, <1>5, <1>6 DEF IndInv

-----------------------------------------------------------------------------
(* How an action changes a handler's request                               *)

OnlyMoves(w) ==
  /\ tx' \in [Workers -> Request \cup {Idle}]
  /\ \A v \in Workers \ {w} : tx'[v] = tx[v]

LEMMA BeginsType ==
  ASSUME TypeOK, NEW w \in Workers, NEW r \in Request, Begin(w, r)
  PROVE  OnlyMoves(w) /\ tx[w] = Idle /\ tx'[w] = r
BY DEF TypeOK, Begin, OnlyMoves, Request, Stages

\* A request is replaced by another one.
LEMMA BecomesType ==
  ASSUME TypeOK, NEW w \in Workers, NEW r \in Request, tx' = [tx EXCEPT ![w] = r]
  PROVE  OnlyMoves(w) /\ tx'[w] = r
BY DEF TypeOK, OnlyMoves

LEMMA StepsType ==
  ASSUME TypeOK, NEW w \in Workers, NEW from \in Stages, NEW to \in Stages, Step(w, from, to)
  PROVE  /\ OnlyMoves(w)
         /\ tx[w] \in Request /\ tx[w].pc = from /\ tx'[w].pc = to
         /\ tx'[w].token = tx[w].token /\ tx'[w].role = tx[w].role
         /\ tx'[w].code = tx[w].code /\ tx'[w].scope = tx[w].scope
<1>1. tx[w] \in Request
  BY DEF TypeOK, Step, Stages, Idle
<1> DEFINE r == [tx[w] EXCEPT !.pc = to]
<1>2. tx' = [tx EXCEPT ![w] = r]
  BY DEF Step
<1>3. /\ r \in Request /\ r.pc = to /\ r.token = tx[w].token /\ r.role = tx[w].role
      /\ r.code = tx[w].code /\ r.scope = tx[w].scope
  BY <1>1 DEF Request
<1> HIDE DEF r
<1>4. QED BY <1>1, <1>2, <1>3, BecomesType DEF Step

LEMMA EndsType ==
  ASSUME TypeOK, NEW w \in Workers, tx' = [tx EXCEPT ![w] = Idle]
  PROVE  OnlyMoves(w) /\ Shape(w)' /\ tx'[w].pc \notin {"missed", "listing", "members"}
<1>1. OnlyMoves(w) /\ tx'[w] = Idle
  BY DEF TypeOK, OnlyMoves
<1>2. QED BY <1>1 DEF Shape, Idle

LEMMA AtWork ==
  ASSUME TypeOK, NEW w \in Workers, tx[w].pc # "idle"
  PROVE  tx[w] \in Request
BY DEF TypeOK, Idle

LEMMA OpensType ==
  ASSUME NEW pc \in Stages, NEW sc \in Scopes \cup {NoScope}
  PROVE  Open(pc, sc) \in Request /\ Open(pc, sc).pc = pc /\ Open(pc, sc).scope = sc
BY DEF Open, Request

\* The requests about a session
LEMMA OpensWith ==
  ASSUME NEW t \in Tokens
  PROVE  /\ LET r == [Open("verifying", "staff_mfa") EXCEPT !.token = t]
            IN  r \in Request /\ r.pc = "verifying" /\ r.token = t /\ r.scope = "staff_mfa"
         /\ LET s == [Open("sliding", NoScope) EXCEPT !.token = t]
            IN  s \in Request /\ s.pc = "sliding" /\ s.token = t
BY DEF Open, Request, Stages, Scopes

ArrivalStages == {"signing", "issuing", "verifying", "sliding", "listing", "revoking"}

\* A request that arrives knows little; a listing what it found gone.
LEMMA ArriveType ==
  ASSUME TypeOK, NEW w \in Workers, Arrive(w)
  PROVE  /\ OnlyMoves(w) /\ tx[w] = Idle /\ tx'[w].pc \in ArrivalStages
         /\ Shape(w)'
         /\ tx'[w].pc = "listing" => \A t \in tx'[w].tokens : session[t] = Gone
<1> USE DEF ArrivalStages
<1>1. CASE Login(w)
  <2> DEFINE r == [Open("signing", NoScope) EXCEPT !.role = role]
  <2>1. r \in Request /\ r.pc = "signing" /\ r.role \in Roles
    BY DEF TypeOK, Open, Request, Stages
  <2>2. Begin(w, r)
    BY <1>1 DEF Login
  <2> HIDE DEF r
  <2>3. QED BY <2>1, <2>2, BeginsType DEF Shape
<1>2. CASE List(w)
  <2> DEFINE stale == {t \in index : session[t] = Gone}
             r == [Open("listing", NoScope) EXCEPT !.tokens = stale]
  <2>1. r \in Request /\ r.pc = "listing" /\ r.tokens = stale
    BY DEF TypeOK, Open, Request, Stages
  <2>2. Begin(w, r)
    BY <1>2 DEF List
  <2> HIDE DEF r
  <2>3. QED BY <2>1, <2>2, BeginsType DEF Shape
<1>3. ASSUME NEW t \in Tokens, Verify(w, t) \/ Load(w, t)
      PROVE  /\ OnlyMoves(w) /\ tx[w] = Idle /\ tx'[w].pc \in {"verifying", "sliding"}
             /\ Shape(w)'
  <2> DEFINE r == [Open("verifying", "staff_mfa") EXCEPT !.token = t]
             s == [Open("sliding", NoScope) EXCEPT !.token = t]
  <2>1. /\ r \in Request /\ r.pc = "verifying" /\ r.token = t /\ r.scope = "staff_mfa"
        /\ s \in Request /\ s.pc = "sliding" /\ s.token = t
    BY OpensWith
  <2>2. Begin(w, r) \/ Begin(w, s)
    BY <1>3 DEF Verify, Load
  <2> HIDE DEF r, s
  <2>3. QED BY <2>1, <2>2, BeginsType DEF Shape, Scopes
<1>4. CASE VerifyLogin(w)
  <2> DEFINE r == [Open("verifying", "subject_login") EXCEPT
                     !.role = role, !.pending = (status = "pending")]
  <2>1. /\ r \in Request /\ r.pc = "verifying" /\ r.scope = "subject_login"
        /\ r.role \in Roles
    BY DEF TypeOK, Open, Request, Stages, Scopes
  <2>2. Begin(w, r)
    BY <1>4 DEF VerifyLogin
  <2> HIDE DEF r
  <2>3. QED BY <2>1, <2>2, BeginsType DEF Shape, Scopes
<1>5. ASSUME NEW sc \in Scopes, NEW pc \in {"issuing", "verifying"}, Begin(w, Open(pc, sc)),
             pc = "verifying" => sc = "consent_link"
      PROVE  /\ OnlyMoves(w) /\ tx[w] = Idle /\ tx'[w].pc = pc
             /\ Shape(w)'
  <2>1. Open(pc, sc) \in Request /\ Open(pc, sc).pc = pc /\ Open(pc, sc).scope = sc
    BY OpensType DEF Stages
  <2>2. QED BY <1>5, <2>1, BeginsType DEF Shape
<1>6. CASE VerifyContact(w) \/ (\E t \in Tokens : Resend(w, t))
           \/ \E sc \in {"subject_login", "consent_link"} : AskCode(w, sc)
  BY <1>5, <1>6 DEF VerifyContact, Resend, AskCode, Scopes
<1>7. CASE Begin(w, Open("revoking", NoScope))
  <2>1. Open("revoking", NoScope) \in Request /\ Open("revoking", NoScope).pc = "revoking"
    BY OpensType DEF Stages
  <2>2. QED BY <1>7, <2>1, BeginsType DEF Shape
<1>8. QED
  BY <1>1, <1>2, <1>3, <1>4, <1>6, <1>7
  DEF Arrive, Deactivate, ForceLogout, ResetMfa, ChangeRole

LEMMA CompareType ==
  ASSUME TypeOK, ShapesOK, CodesOK, NEW w \in Workers, Compare(w)
  PROVE  /\ OnlyMoves(w) /\ Shape(w)'
         /\ tx[w].pc = "verifying" /\ tx[w].scope \in Scopes /\ tx'[w].scope = tx[w].scope
         /\ code[tx[w].scope] \in Codes /\ code[tx[w].scope] # NoCode
         /\ \/ tx'[w].pc = "matched" /\ missed' = missed
            \/ /\ tx'[w].pc = "missed" /\ tx'[w].code = code[tx[w].scope]
               /\ missed[code[tx[w].scope]] < MaxGuesses
               /\ missed' = [missed EXCEPT ![code[tx[w].scope]] = @ + 1]
<1> DEFINE c == code[tx[w].scope]
<1>1. /\ tx[w] \in Request /\ tx[w].pc = "verifying" /\ tx[w].scope \in Scopes
      /\ tx[w].scope = "staff_mfa" => tx[w].token \in Tokens
      /\ tx[w].scope = "subject_login" => tx[w].role \in Roles
  BY AtWork DEF Compare, ShapesOK, Shape
<1>2. c \in Codes /\ c # NoCode /\ UNCHANGED <<code, attempts, issued>>
  BY <1>1 DEF Compare, TypeOK
<1>3. c \in 1..issued
  BY <1>1, <1>2, SignInAssumption DEF TypeOK, CodesOK, Codes
<1>4. CASE Step(w, "verifying", "matched") /\ UNCHANGED missed
  <2>1. /\ OnlyMoves(w) /\ tx'[w].pc = "matched" /\ tx'[w].token = tx[w].token
        /\ tx'[w].role = tx[w].role /\ tx'[w].scope = tx[w].scope
    BY <1>4, StepsType DEF Stages
  <2>2. Shape(w)'
    BY <1>1, <2>1 DEF Shape
  <2>3. QED BY <1>1, <1>2, <1>4, <2>1, <2>2
<1>5. CASE /\ missed[c] + c <= MaxGuesses
           /\ tx' = [tx EXCEPT ![w].pc = "missed", ![w].code = c]
           /\ missed' = [missed EXCEPT ![c] = @ + 1]
  <2> DEFINE r == [tx[w] EXCEPT !.pc = "missed", !.code = c]
  <2>1. r \in Request /\ r.pc = "missed" /\ r.code = c /\ r.scope = tx[w].scope
    BY <1>1, <1>2 DEF Request, Stages
  <2>2. tx' = [tx EXCEPT ![w] = r]
    BY <1>5
  <2>3. missed[c] < MaxGuesses
    BY <1>2, <1>5, SignInAssumption DEF TypeOK, Codes
  <2>4. issued' = issued
    BY <1>2
  <2> HIDE DEF r
  <2>5. OnlyMoves(w) /\ tx'[w] = r
    BY <2>1, <2>2, BecomesType
  <2>6. tx'[w].pc = "missed" /\ tx'[w].code = c /\ tx'[w].scope = tx[w].scope
    BY <2>1, <2>5
  <2>7. Shape(w)'
    BY <1>1, <1>3, <2>4, <2>6 DEF Shape
  <2>8. QED BY <1>1, <1>2, <1>5, <2>3, <2>5, <2>6, <2>7
<1>6. QED BY <1>4, <1>5 DEF Compare

LEMMA MembersType ==
  ASSUME TypeOK, NEW w \in Workers, Members(w)
  PROVE  /\ OnlyMoves(w) /\ Shape(w)' /\ tx[w].pc = "revoking"
         /\ tx'[w].pc = "members" /\ tx'[w].tokens = index
<1> DEFINE r == [tx[w] EXCEPT !.pc = "members", !.tokens = index]
<1>1. tx[w] \in Request /\ tx[w].pc = "revoking"
  BY AtWork DEF Members
<1>2. r \in Request /\ r.pc = "members" /\ r.tokens = index
  BY <1>1 DEF Request, Stages, TypeOK
<1>3. tx' = [tx EXCEPT ![w] = r]
  BY DEF Members
<1> HIDE DEF r
<1>4. QED BY <1>1, <1>2, <1>3, BecomesType DEF Shape

LEMMA ResolveType ==
  ASSUME TypeOK, NEW w \in Workers, Resolve(w)
  PROVE  OnlyMoves(w) /\ Shape(w)' /\ tx[w].pc = "resolving" /\ tx'[w].pc = "admitting"
<1> DEFINE r == [tx[w] EXCEPT !.pc = "admitting", !.role = role,
                              !.pending = (status = "pending")]
<1>1. tx[w] \in Request /\ tx[w].pc = "resolving"
  BY AtWork DEF Resolve
<1>2. r \in Request /\ r.pc = "admitting" /\ r.role \in Roles
  BY <1>1 DEF Request, Stages, TypeOK
<1>3. tx' = [tx EXCEPT ![w] = r]
  BY DEF Resolve
<1> HIDE DEF r
<1>4. QED BY <1>1, <1>2, <1>3, BecomesType DEF Shape

LEMMA ConsumeType ==
  ASSUME TypeOK, ShapesOK, NEW w \in Workers, Consume(w)
  PROVE  /\ OnlyMoves(w) /\ Shape(w)' /\ tx[w].pc = "matched" /\ tx[w].scope \in Scopes
         /\ tx'[w].pc \in {"promoting", "signing", "resolving"}
<1> DEFINE to == Completes[tx[w].scope]
<1>1. /\ tx[w].pc = "matched" /\ tx[w].scope \in Scopes /\ tx[w] \in Request
      /\ tx[w].scope = "staff_mfa" => tx[w].token \in Tokens
  BY AtWork DEF Consume, ShapesOK, Shape
<1>2. /\ to \in {"promoting", "signing", "resolving"}
      /\ to = "promoting" => tx[w].scope = "staff_mfa"
      /\ to = "signing" => tx[w].scope = "subject_login"
  BY <1>1 DEF Completes, Scopes
<1>3. /\ OnlyMoves(w) /\ tx'[w].pc = to /\ tx'[w].token = tx[w].token
      /\ tx'[w].role = tx[w].role /\ tx'[w].scope = tx[w].scope
  <2>1. Step(w, "matched", to)
    BY DEF Consume
  <2> HIDE DEF to
  <2>2. QED BY <1>2, <2>1, StepsType DEF Stages
<1> HIDE DEF to
<1>4. to = "signing" => tx[w].role \in Roles
  BY <1>1, <1>2 DEF ShapesOK, Shape
<1>5. QED BY <1>1, <1>2, <1>3, <1>4 DEF Shape

LEMMA CreateSessionType ==
  ASSUME TypeOK, ShapesOK, NEW w \in Workers, NEW t \in Tokens, CreateSession(w, t)
  PROVE  /\ OnlyMoves(w) /\ Shape(w)' /\ tx[w].pc = "signing"
         /\ tx'[w].pc \notin {"missed", "listing", "members"}
         /\ NewSession(w) \in Live /\ session' = [session EXCEPT ![t] = NewSession(w)]
<1>1. tx[w].role \in Roles /\ tx[w].pc = "signing" /\ tx[w] \in Request
  BY AtWork DEF CreateSession, ShapesOK, Shape
<1>2. NewSession(w) \in Live /\ session' = [session EXCEPT ![t] = NewSession(w)]
  BY <1>1 DEF CreateSession, NewSession, Live, Request
<1> DEFINE r == [tx[w] EXCEPT !.pc = "admitting"]
<1>3. r \in Request /\ r.pc = "admitting" /\ r.role = tx[w].role
  BY <1>1 DEF Request, Stages
<1>4. tx' = [tx EXCEPT ![w] = Open("issuing", "staff_mfa")] \/ tx' = [tx EXCEPT ![w] = r]
      \/ tx' = [tx EXCEPT ![w] = Idle]
  BY DEF CreateSession
<1> HIDE DEF r
<1>5. CASE tx' = [tx EXCEPT ![w] = Open("issuing", "staff_mfa")]
  <2>1. /\ Open("issuing", "staff_mfa") \in Request
        /\ Open("issuing", "staff_mfa").pc = "issuing"
        /\ Open("issuing", "staff_mfa").scope \in Scopes
    BY OpensType DEF Stages, Scopes
  <2>2. QED BY <1>1, <1>2, <1>5, <2>1, BecomesType DEF Shape
<1>6. CASE tx' = [tx EXCEPT ![w] = r]
  BY <1>1, <1>2, <1>3, <1>6, BecomesType DEF Shape
<1>7. CASE tx' = [tx EXCEPT ![w] = Idle]
  BY <1>1, <1>2, <1>7, EndsType
<1>8. QED BY <1>4, <1>5, <1>6, <1>7

-----------------------------------------------------------------------------
(* Types, and what requests carry                                          *)

LEMMA ShapesKept ==
  ASSUME TypeOK, ShapesOK, NEW w \in Workers, OnlyMoves(w), Shape(w)',
         issued' = issued \/ issued' = issued + 1
  PROVE  ShapesOK'
<1>1. issued \in Nat /\ 1..issued \subseteq 1..issued'
  BY SignInAssumption DEF TypeOK
<1>2. ASSUME NEW v \in Workers \ {w}
      PROVE  Shape(v)'
  <2>1. Shape(v) /\ tx'[v] = tx[v]
    BY DEF ShapesOK, OnlyMoves
  <2>2. QED BY <1>1, <2>1 DEF Shape
<1>3. QED BY <1>2 DEF ShapesOK

\* Nothing but a guess at a code comes to "missed", nothing but Members to "members".
LEMMA ProceedMoves ==
  ASSUME TypeOK, ShapesOK, CodesOK, NEW w \in Workers, Proceed(w)
  PROVE  /\ OnlyMoves(w) /\ Shape(w)' /\ tx'[w].pc # "listing"
         /\ tx'[w].pc = "members" => Members(w)
         /\ tx'[w].pc = "missed" => Compare(w)
<1>1. ASSUME NEW t \in Tokens, CreateSession(w, t)
      PROVE  /\ OnlyMoves(w) /\ Shape(w)'
             /\ tx'[w].pc \notin {"missed", "listing", "members"}
  BY <1>1, CreateSessionType
<1>2. CASE Compare(w) \/ Members(w) \/ Resolve(w) \/ Consume(w)
  BY <1>2, CompareType, MembersType, ResolveType, ConsumeType
<1>3. CASE Find(w)
  <2>1. ShapesOK /\ Step(w, "promoting", "found")
    BY <1>3 DEF Find
  <2>2. QED BY <2>1, StepsType DEF ShapesOK, Shape, Stages
<1>4. CASE Step(w, "missed", "discarding")
  BY <1>4, StepsType DEF ShapesOK, Shape, Stages
<1>5. CASE Step(w, "admitting", "signing")
  BY <1>5, StepsType DEF ShapesOK, Shape, Stages
<1>6. CASE tx' = [tx EXCEPT ![w] = Idle]
  BY <1>6, EndsType
<1>7. QED
  BY <1>1, <1>2, <1>3, <1>4, <1>5, <1>6
  DEF Proceed, IssueCode, Count, Discard, Admit, Promote, Slide, Prune, RevokeAll, Abort, Finish

\* What a step does to one session: it ends or breaks it, creates it, or promotes it.
LEMMA SessionStep ==
  ASSUME TypeOK, ShapesOK, CodesOK, [Next]_vars, NEW t \in Tokens
  PROVE  \/ session'[t] \in {session[t], Gone, Broken}
         \/ \E w \in Workers :
              /\ session[t] = Unused /\ session'[t] = NewSession(w)
              /\ NewSession(w) \in Live
         \/ \E sc \in Scopes : IsLive(t) /\ session'[t] = Promoted(t, sc)
<1> USE DEF accountVars, otpVars, sessionVars
<1>1. ASSUME NEW w \in Workers, NEW u \in Tokens, CreateSession(w, u)
      PROVE  \/ session'[t] = session[t]
             \/ session[t] = Unused /\ session'[t] = NewSession(w) /\ NewSession(w) \in Live
  BY <1>1, CreateSessionType DEF CreateSession, TypeOK
<1>2. ASSUME NEW w \in Workers, Promote(w)
      PROVE  \/ session'[t] \in {session[t], Broken}
             \/ \E sc \in Scopes : IsLive(t) /\ session'[t] = Promoted(t, sc)
  <2>1. tx[w].token \in Tokens /\ tx[w].scope \in Scopes
    BY <1>2 DEF Promote, Finish, ShapesOK, Shape
  <2>2. QED BY <1>2, <2>1 DEF Promote, TypeOK
<1>3. ASSUME NEW w \in Workers, Slide(w) \/ RevokeAll(w)
      PROVE  session'[t] \in {session[t], Gone, Broken}
  BY <1>3 DEF Slide, RevokeAll, TypeOK
<1>4. ASSUME NEW u \in Tokens, Destroy(u) \/ Expire(u)
      PROVE  session'[t] \in {session[t], Gone}
  BY <1>4 DEF Destroy, Expire, TypeOK
<1>5. CASE UNCHANGED session
  BY <1>5
<1>6. ASSUME NEW w \in Workers, Proceed(w)
      PROVE  \/ UNCHANGED session \/ Promote(w) \/ Slide(w) \/ RevokeAll(w)
             \/ \E u \in Tokens : CreateSession(w, u)
  BY <1>6 DEF Proceed, IssueCode, Compare, Consume, Count, Discard, Resolve, Admit, Find,
              Prune, Members, Abort
<1>7. ASSUME NEW w \in Workers, Arrive(w)
      PROVE  UNCHANGED session
  BY <1>7 DEF Arrive, Login, VerifyLogin, VerifyContact, List, Resend, Verify, Load,
              AskCode, Deactivate, ForceLogout, ResetMfa, ChangeRole
<1>8. QED
  BY <1>1, <1>2, <1>3, <1>4, <1>5, <1>6, <1>7
  DEF Next, vars, CodeExpires, IndexExpires, Reactivate

\* What a live session looks like before and after a step
LEMMA SessionType ==
  ASSUME TypeOK, ShapesOK, CodesOK, [Next]_vars
  PROVE  session' \in [Tokens -> Live \cup {Unused, Gone, Broken}]
<1>1. DOMAIN session' = Tokens /\ session' = [t \in Tokens |-> session'[t]]
  <2> USE DEF accountVars, otpVars, sessionVars, TypeOK
  <2>1. ASSUME NEW w \in Workers, Proceed(w)
        PROVE  session' = [t \in Tokens |-> session'[t]]
    BY <2>1 DEF Proceed, CreateSession, IssueCode, Compare, Consume, Count, Discard,
                Resolve, Admit, Find, Promote, Slide, Prune, Members, RevokeAll, Abort
  <2>2. ASSUME NEW w \in Workers, Arrive(w)
        PROVE  session' = [t \in Tokens |-> session'[t]]
    BY <2>2 DEF Arrive, Login, VerifyLogin, VerifyContact, List, Resend, Verify, Load,
                AskCode, Deactivate, ForceLogout, ResetMfa, ChangeRole
  <2>3. CASE \/ \E t \in Tokens : Destroy(t) \/ Expire(t)
             \/ \E sc \in Scopes : CodeExpires(sc)
             \/ IndexExpires \/ Reactivate \/ UNCHANGED vars
    BY <2>3 DEF Destroy, Expire, CodeExpires, IndexExpires, Reactivate, vars
  <2>4. QED BY <2>1, <2>2, <2>3 DEF Next
<1>2. ASSUME NEW t \in Tokens
      PROVE  session'[t] \in Live \cup {Unused, Gone, Broken}
  <2>1. session[t] \in Live \cup {Unused, Gone, Broken}
    BY DEF TypeOK
  <2>2. ASSUME NEW sc \in Scopes, IsLive(t)
        PROVE  Promoted(t, sc) \in Live
    <3>1. session[t] \in Live
      BY <2>1, <2>2 DEF IsLive, Unused, Gone, Broken
    <3>2. QED BY <3>1 DEF Promoted, Live, Full
  <2>3. QED BY <2>1, <2>2, SessionStep
<1>3. QED BY <1>1, <1>2

LEMMA AccountType ==
  ASSUME TypeOK, [Next]_vars
  PROVE  status' \in Statuses /\ role' \in Roles /\ index' \subseteq Tokens
<1> USE DEF accountVars, otpVars, sessionVars, TypeOK, Statuses
<1>1. ASSUME NEW w \in Workers, Proceed(w)
      PROVE  status' \in Statuses /\ role' \in Roles /\ index' \subseteq Tokens
  BY <1>1 DEF Proceed, CreateSession, IssueCode, Compare, Consume, Count, Discard, Resolve,
              Admit, Find, Promote, Slide, Prune, Members, RevokeAll, Abort
<1>2. ASSUME NEW w \in Workers, Arrive(w)
      PROVE  status' \in Statuses /\ role' \in Roles /\ index' \subseteq Tokens
  BY <1>2 DEF Arrive, Login, VerifyLogin, VerifyContact, List, Resend, Verify, Load, AskCode,
              Deactivate, ForceLogout, ResetMfa, ChangeRole
<1>3. CASE \/ \E t \in Tokens : Destroy(t) \/ Expire(t)
           \/ \E sc \in Scopes : CodeExpires(sc)
           \/ IndexExpires \/ Reactivate \/ UNCHANGED vars
  BY <1>3 DEF Destroy, Expire, CodeExpires, IndexExpires, Reactivate, vars
<1>4. QED BY <1>1, <1>2, <1>3 DEF Next

-----------------------------------------------------------------------------
(* Codes and the guesses at them                                           *)

OtpOK ==
  /\ code \in [Scopes -> Codes \cup {NoCode}]
  /\ attempts \in [Scopes -> Nat]
  /\ issued \in 0..MaxCodes
  /\ missed \in [Codes -> 0..MaxGuesses]
  /\ CodesOK
  /\ GuessesOK

\* No guess joins or leaves those on their way to the counter.
SameGuesses ==
  \A w \in Workers :
    /\ tx'[w].pc = "missed" <=> tx[w].pc = "missed"
    /\ tx[w].pc = "missed" => tx'[w].code = tx[w].code /\ tx'[w].scope = tx[w].scope

LEMMA NobodyMissed ==
  ASSUME NEW w \in Workers, OnlyMoves(w), tx[w].pc # "missed", tx'[w].pc # "missed"
  PROVE  SameGuesses
BY DEF OnlyMoves, SameGuesses

LEMMA SameMissers ==
  ASSUME SameGuesses, NEW c
  PROVE  Missers(c)' = Missers(c)
BY DEF SameGuesses, Missers

\* The code of each scope stays, with its counter, or goes.
CodesKept ==
  /\ code' \in [Scopes -> Codes \cup {NoCode}] /\ attempts' \in [Scopes -> Nat]
  /\ \A sc \in Scopes :
       code'[sc] = NoCode \/ (code'[sc] = code[sc] /\ attempts'[sc] = attempts[sc])
  /\ UNCHANGED <<issued, missed>>

LEMMA CodeKept ==
  ASSUME OtpOK, ShapesOK, SameGuesses, CodesKept
  PROVE  OtpOK'
<1>1. issued \in Nat /\ \A sc \in Scopes : code'[sc] <= issued'
  BY SignInAssumption DEF OtpOK, CodesOK, CodesKept, NoCode, Codes
<1>2. ASSUME NEW w \in Workers, NEW sc \in Scopes,
             tx'[w].pc = "missed", code'[sc] = tx'[w].code
      PROVE  tx'[w].scope = sc
  <2>1. tx[w].pc = "missed" /\ tx'[w].code = tx[w].code /\ tx'[w].scope = tx[w].scope
    BY <1>2 DEF SameGuesses
  <2>2. tx[w].code \in 1..issued
    BY <2>1 DEF ShapesOK, Shape
  <2>3. code'[sc] # NoCode
    BY <1>1, <1>2, <2>1, <2>2 DEF NoCode
  <2>4. QED BY <1>2, <2>1, <2>3 DEF CodesKept, OtpOK, CodesOK
<1>3. CodesOK'
  <2>1. \A s1, s2 \in Scopes : code'[s1] = code'[s2] /\ code'[s1] # NoCode => s1 = s2
    BY DEF CodesKept, OtpOK, CodesOK
  <2>2. \A c \in Codes : c > issued' => missed'[c] = 0
    BY DEF CodesKept, OtpOK, CodesOK
  <2>3. QED BY <1>1, <1>2, <2>1, <2>2 DEF CodesOK
<1>4. ASSUME NEW c \in Codes
      PROVE  /\ IsFiniteSet(Missers(c)') /\ Cardinality(Missers(c)') <= missed'[c]
             /\ \A sc \in Scopes : c = code'[sc] =>
                  missed'[c] <= attempts'[sc] + Cardinality(Missers(c)')
  <2>1. Missers(c)' = Missers(c)
    BY SameMissers
  <2>2. c # NoCode
    BY SignInAssumption DEF Codes, NoCode
  <2>3. QED BY <2>1, <2>2 DEF OtpOK, GuessesOK, CodesKept
<1>5. GuessesOK'
  BY <1>4 DEF GuessesOK
<1>6. QED BY <1>3, <1>5 DEF OtpOK, CodesKept

LEMMA NewCodeOK ==
  ASSUME OtpOK, ShapesOK, SameGuesses, NEW s \in Scopes, NewCode(s)
  PROVE  OtpOK'
<1>1. /\ issued \in Nat /\ issued' = issued + 1 /\ issued' \in 0..MaxCodes
      /\ issued' \in Codes /\ missed' = missed
      /\ code' = [code EXCEPT ![s] = issued'] /\ attempts' = [attempts EXCEPT ![s] = 0]
  BY SignInAssumption DEF OtpOK, NewCode, Codes
<1>2. missed[issued'] = 0
  BY <1>1 DEF OtpOK, CodesOK
<1>3. \A sc \in Scopes :
        /\ code[sc] \in Nat /\ code[sc] <= issued
        /\ code'[sc] = IF sc = s THEN issued' ELSE code[sc]
        /\ attempts'[sc] = IF sc = s THEN 0 ELSE attempts[sc]
  BY <1>1, SignInAssumption DEF OtpOK, CodesOK, Codes, NoCode
<1>4. code' \in [Scopes -> Codes \cup {NoCode}] /\ attempts' \in [Scopes -> Nat]
  BY <1>1 DEF OtpOK
<1>5. ASSUME NEW w \in Workers, NEW sc \in Scopes,
             tx'[w].pc = "missed", code'[sc] = tx'[w].code
      PROVE  tx'[w].scope = sc
  <2>1. tx[w].pc = "missed" /\ tx'[w].code = tx[w].code /\ tx'[w].scope = tx[w].scope
    BY <1>5 DEF SameGuesses
  <2>2. tx[w].code \in 1..issued
    BY <2>1 DEF ShapesOK, Shape
  <2>3. sc # s
    BY <1>1, <1>3, <1>5, <2>1, <2>2
  <2>4. QED BY <1>3, <1>5, <2>1, <2>3 DEF OtpOK, CodesOK
<1>6. CodesOK'
  <2>1. \A s1, s2 \in Scopes : code'[s1] = code'[s2] /\ code'[s1] # NoCode => s1 = s2
    <3> SUFFICES ASSUME NEW s1 \in Scopes, NEW s2 \in Scopes, code'[s1] = code'[s2],
                        code'[s1] # NoCode
                 PROVE  s1 = s2
      OBVIOUS
    <3>1. CASE s1 = s \/ s2 = s
      BY <1>1, <1>3, <3>1
    <3>2. CASE s1 # s /\ s2 # s
      BY <1>3, <3>2 DEF OtpOK, CodesOK
    <3>3. QED BY <3>1, <3>2
  <2>2. \A sc \in Scopes : code'[sc] <= issued'
    BY <1>1, <1>3
  <2>3. \A c \in Codes : c > issued' => missed'[c] = 0
    BY <1>1 DEF OtpOK, CodesOK, Codes
  <2>4. QED BY <1>5, <2>1, <2>2, <2>3 DEF CodesOK
<1>7. ASSUME NEW c \in Codes
      PROVE  /\ IsFiniteSet(Missers(c)') /\ Cardinality(Missers(c)') <= missed'[c]
             /\ \A sc \in Scopes : c = code'[sc] =>
                  missed'[c] <= attempts'[sc] + Cardinality(Missers(c)')
  <2>1. /\ Missers(c)' = Missers(c) /\ IsFiniteSet(Missers(c))
        /\ Cardinality(Missers(c)) <= missed[c]
        /\ \A sc \in Scopes : c = code[sc] => missed[c] <= attempts[sc] + Cardinality(Missers(c))
    BY SameMissers DEF OtpOK, GuessesOK
  <2>2. Cardinality(Missers(c)) \in Nat
    BY <2>1, FS_CardinalityType
  <2>3. ASSUME NEW sc \in Scopes, c = code'[sc]
        PROVE  missed'[c] <= attempts'[sc] + Cardinality(Missers(c)')
    <3>1. CASE sc = s
      BY <1>1, <1>2, <1>3, <2>1, <2>2, <2>3, <3>1
    <3>2. CASE sc # s
      BY <1>1, <1>3, <2>1, <2>3, <3>2
    <3>3. QED BY <3>1, <3>2
  <2>4. QED BY <1>1, <2>1, <2>3
<1>8. GuessesOK'
  BY <1>7 DEF GuessesOK
<1>9. QED BY <1>1, <1>4, <1>6, <1>8 DEF OtpOK

\* A wrong guess is one more of both; it is looked at before it is counted.
LEMMA CompareOK ==
  ASSUME TypeOK, ShapesOK, OtpOK, NEW w \in Workers, Compare(w)
  PROVE  OtpOK'
<1> DEFINE s == tx[w].scope
           d == code[s]
<1>1. /\ UNCHANGED <<code, attempts, issued>> /\ d \in Codes /\ d # NoCode /\ s \in Scopes
      /\ OnlyMoves(w) /\ tx[w].pc # "missed" /\ tx'[w].scope = s
  BY CompareType DEF Compare, OtpOK
<1>2. CASE tx'[w].pc = "matched" /\ missed' = missed
  <2>1. SameGuesses
    BY <1>1, <1>2, NobodyMissed
  <2>2. QED BY <1>1, <1>2, <2>1, CodeKept DEF OtpOK, CodesKept
<1>3. CASE /\ tx'[w].pc = "missed" /\ tx'[w].code = d /\ missed[d] < MaxGuesses
           /\ missed' = [missed EXCEPT ![d] = @ + 1]
  <2>2. missed' \in [Codes -> 0..MaxGuesses]
    BY <1>1, <1>3, SignInAssumption DEF OtpOK
  <2>3. CodesOK'
    <3>1. \A c \in Codes : c > issued => missed'[c] = 0
      BY <1>1, <1>3, SignInAssumption DEF OtpOK, CodesOK, Codes
    <3>2. ASSUME NEW v \in Workers, NEW sc \in Scopes,
                 tx'[v].pc = "missed", code[sc] = tx'[v].code
          PROVE  tx'[v].scope = sc
      <4>1. CASE v = w
        BY <1>1, <1>3, <3>2, <4>1 DEF OtpOK, CodesOK
      <4>2. CASE v # w
        BY <1>1, <3>2, <4>2 DEF OnlyMoves, OtpOK, CodesOK
      <4>3. QED BY <4>1, <4>2
    <3>3. QED BY <1>1, <3>1, <3>2 DEF OtpOK, CodesOK
  <2>4. ASSUME NEW c \in Codes
        PROVE  /\ IsFiniteSet(Missers(c)') /\ Cardinality(Missers(c)') <= missed'[c]
               /\ \A sc \in Scopes : c = code'[sc] =>
                    missed'[c] <= attempts'[sc] + Cardinality(Missers(c)')
    <3>1. /\ IsFiniteSet(Missers(c)) /\ Cardinality(Missers(c)) <= missed[c]
          /\ \A sc \in Scopes : c = code[sc] =>
               missed[c] <= attempts[sc] + Cardinality(Missers(c))
      BY DEF OtpOK, GuessesOK
    <3>2. /\ missed[c] \in Nat /\ Cardinality(Missers(c)) \in Nat
          /\ \A sc \in Scopes : attempts[sc] \in Nat
      BY <3>1, FS_CardinalityType, SignInAssumption DEF OtpOK
    <3>3. CASE c = d
      <4>1. Missers(c)' = Missers(c) \cup {w} /\ w \notin Missers(c)
        BY <1>1, <1>3, <3>3 DEF Missers, OnlyMoves
      <4>2. /\ IsFiniteSet(Missers(c)')
            /\ Cardinality(Missers(c)') = Cardinality(Missers(c)) + 1
        BY <3>1, <4>1, FS_AddElement
      <4>3. missed'[c] = missed[c] + 1
        BY <1>3, <3>3 DEF OtpOK
      <4>4. QED BY <1>1, <3>1, <3>2, <4>2, <4>3
    <3>4. CASE c # d
      <4>1. Missers(c)' = Missers(c)
        BY <1>1, <1>3, <3>4 DEF Missers, OnlyMoves
      <4>2. missed'[c] = missed[c]
        BY <1>3, <3>4 DEF OtpOK
      <4>3. QED BY <1>1, <3>1, <3>4, <4>1, <4>2
    <3>5. QED BY <3>3, <3>4
  <2>5. GuessesOK'
    BY <2>4 DEF GuessesOK
  <2>6. QED BY <1>1, <2>2, <2>3, <2>5 DEF OtpOK
<1>4. QED BY <1>2, <1>3, CompareType DEF OtpOK

\* A request leaves "missed": the set of one code loses it, and no other changes.
LEMMA OneLess ==
  ASSUME TypeOK, ShapesOK, OtpOK, NEW w \in Workers, OnlyMoves(w),
         tx[w].pc = "missed", tx'[w].pc # "missed"
  PROVE  \E d \in Codes :
           /\ d = tx[w].code
           /\ \A c \in Codes : IsFiniteSet(Missers(c)')
           /\ Cardinality(Missers(d)') = Cardinality(Missers(d)) - 1
           /\ Cardinality(Missers(d)) \in Nat \ {0}
           /\ \A c \in Codes \ {d} : Missers(c)' = Missers(c)
<1>1. PICK d \in Codes : d = tx[w].code
  <2>1. tx[w].code \in 1..issued
    BY DEF ShapesOK, Shape
  <2>2. QED BY <2>1, SignInAssumption DEF OtpOK, Codes
<1>2. Missers(d)' = Missers(d) \ {w} /\ w \in Missers(d)
  BY <1>1 DEF Missers, OnlyMoves
<1>3. \A c \in Codes \ {d} : Missers(c)' = Missers(c)
  BY <1>1 DEF Missers, OnlyMoves
<1>4. \A c \in Codes : IsFiniteSet(Missers(c))
  BY DEF OtpOK, GuessesOK
<1>5. /\ IsFiniteSet(Missers(d)')
      /\ Cardinality(Missers(d)') = Cardinality(Missers(d)) - 1
  BY <1>2, <1>4, FS_RemoveElement
<1>6. Cardinality(Missers(d)) \in Nat /\ Cardinality(Missers(d)) # 0
  BY <1>2, <1>4, FS_CardinalityType, FS_EmptySet
<1>7. QED BY <1>1, <1>3, <1>4, <1>5, <1>6

\* Counting moves the guess from Missers to the counter of its code, if that is still
\* outstanding; giving up takes it back.
LEMMA LeaveMissedOK ==
  ASSUME TypeOK, ShapesOK, OtpOK, NEW w \in Workers, OnlyMoves(w),
         tx[w].pc = "missed", tx'[w].pc # "missed", UNCHANGED <<code, issued>>,
         \/ attempts' = [attempts EXCEPT ![tx[w].scope] = @ + 1] /\ missed' = missed
         \/ attempts' = attempts /\ missed' = [missed EXCEPT ![tx[w].code] = @ - 1]
  PROVE  OtpOK'
<1>1. PICK d \in Codes :
        /\ d = tx[w].code
        /\ \A c \in Codes : IsFiniteSet(Missers(c)')
        /\ Cardinality(Missers(d)') = Cardinality(Missers(d)) - 1
        /\ Cardinality(Missers(d)) \in Nat \ {0}
        /\ \A c \in Codes \ {d} : Missers(c)' = Missers(c)
  BY OneLess
<1>2. PICK s \in Scopes : s = tx[w].scope
  BY DEF ShapesOK, Shape
<1>3. \/ attempts' = [attempts EXCEPT ![s] = @ + 1] /\ missed' = missed
      \/ attempts' = attempts /\ missed' = [missed EXCEPT ![d] = @ - 1]
  BY <1>1, <1>2
<1>4. \A c \in Codes : missed[c] \in 0..MaxGuesses
  BY DEF OtpOK
<1>5. Cardinality(Missers(d)) <= missed[d]
  BY DEF OtpOK, GuessesOK
<1>6. missed' \in [Codes -> 0..MaxGuesses] /\ attempts' \in [Scopes -> Nat]
  <2>1. missed[d] - 1 \in 0..MaxGuesses
    BY <1>1, <1>4, <1>5, SignInAssumption
  <2>2. QED BY <1>1, <1>3, <2>1 DEF OtpOK
<1>7. CodesOK'
  <2>1. \A c \in Codes : c > issued => missed'[c] = 0
    <3> SUFFICES ASSUME NEW c \in Codes, c > issued PROVE missed'[c] = 0
      OBVIOUS
    <3>1. missed[c] = 0
      BY DEF OtpOK, CodesOK
    <3>2. c # d
      BY <1>1, <1>5, <3>1
    <3>3. QED BY <1>3, <3>1, <3>2 DEF OtpOK
  <2>2. \A v \in Workers, sc \in Scopes :
          tx'[v].pc = "missed" /\ code[sc] = tx'[v].code => tx'[v].scope = sc
    BY DEF OnlyMoves, OtpOK, CodesOK
  <2>3. QED BY <2>1, <2>2 DEF OtpOK, CodesOK
<1>8. ASSUME NEW c \in Codes
      PROVE  /\ IsFiniteSet(Missers(c)') /\ Cardinality(Missers(c)') <= missed'[c]
             /\ \A sc \in Scopes : c = code'[sc] =>
                  missed'[c] <= attempts'[sc] + Cardinality(Missers(c)')
  <2>1. /\ IsFiniteSet(Missers(c)) /\ Cardinality(Missers(c)) <= missed[c]
        /\ \A sc \in Scopes : c = code[sc] => missed[c] <= attempts[sc] + Cardinality(Missers(c))
    BY DEF OtpOK, GuessesOK
  <2>2. /\ missed[c] \in Nat /\ Cardinality(Missers(c)) \in Nat
        /\ \A sc \in Scopes : attempts[sc] \in Nat
    BY <2>1, FS_CardinalityType, SignInAssumption DEF OtpOK
  <2>3. CASE c = d
    <3>1. \A sc \in Scopes : c = code[sc] => sc = s
      BY <1>1, <1>2, <2>3 DEF OtpOK, CodesOK
    <3>2. \/ attempts'[s] = attempts[s] + 1 /\ missed'[c] = missed[c]
          \/ attempts'[s] = attempts[s] /\ missed'[c] = missed[c] - 1
      BY <1>3, <2>3 DEF OtpOK
    <3>3. Cardinality(Missers(c)') = Cardinality(Missers(c)) - 1 /\ missed[c] # 0
      BY <1>1, <1>5, <2>2, <2>3
    <3>4. Cardinality(Missers(c)') <= missed'[c]
      BY <1>1, <2>1, <2>2, <2>3, <3>2, <3>3
    <3>5. c = code[s] => missed'[c] <= attempts'[s] + Cardinality(Missers(c)')
      BY <2>1, <2>2, <3>2, <3>3
    <3>6. QED BY <1>1, <3>1, <3>4, <3>5
  <2>4. CASE c # d
    <3>1. missed'[c] = missed[c] /\ \A sc \in Scopes : attempts'[sc] \in {attempts[sc], attempts[sc] + 1}
      BY <1>3, <2>4 DEF OtpOK
    <3>2. Missers(c)' = Missers(c)
      BY <1>1, <2>4
    <3>3. QED BY <2>1, <2>2, <3>1, <3>2
  <2>5. QED BY <2>3, <2>4
<1>9. GuessesOK'
  BY <1>8 DEF GuessesOK
<1>10. QED BY <1>6, <1>7, <1>9 DEF OtpOK

LEMMA ForgetKeeps ==
  ASSUME OtpOK, NEW sc \in Scopes, Forget(sc), UNCHANGED <<issued, missed>>
  PROVE  CodesKept
BY DEF OtpOK, Forget, CodesKept

LEMMA ProceedOK ==
  ASSUME TypeOK, ShapesOK, OtpOK, NEW w \in Workers, Proceed(w)
  PROVE  OtpOK'
<1> USE DEF accountVars, otpVars, sessionVars
<1>1. OnlyMoves(w) /\ (tx'[w].pc = "missed" => Compare(w))
  BY ProceedMoves DEF OtpOK
<1>2. CASE Compare(w)
  BY <1>2, CompareOK
<1>3. CASE tx[w].pc = "missed"
  <2>1. tx'[w].pc # "missed"
    BY <1>1, <1>3 DEF Compare
  <2>2. Count(w) \/ Abort(w)
    BY <1>3 DEF Proceed, CreateSession, IssueCode, Compare, Consume, Discard, Resolve, Admit,
                Find, Promote, Slide, Prune, Members, RevokeAll, Finish, Step
  <2>3. CASE Count(w)
    BY <1>1, <1>3, <2>1, <2>3, LeaveMissedOK DEF Count
  <2>4. CASE Abort(w)
    BY <1>1, <1>3, <2>1, <2>4, LeaveMissedOK DEF Abort
  <2>5. QED BY <2>2, <2>3, <2>4
<1>4. CASE tx[w].pc # "missed" /\ ~Compare(w)
  <2>1. SameGuesses
    BY <1>1, <1>4, NobodyMissed
  <2>2. CASE IssueCode(w)
    <3>1. tx[w].scope \in Scopes /\ NewCode(tx[w].scope)
      BY <2>2 DEF IssueCode, Finish, ShapesOK, Shape
    <3>2. QED BY <2>1, <3>1, NewCodeOK
  <2>3. CASE Consume(w) \/ Discard(w)
    <3>1. /\ tx[w].scope \in Scopes /\ Forget(tx[w].scope)
          /\ UNCHANGED <<issued, missed>>
      BY <2>3 DEF Consume, Discard, Finish, ShapesOK, Shape
    <3>2. QED BY <2>1, <3>1, ForgetKeeps, CodeKept
  <2>4. CASE UNCHANGED <<code, attempts, issued, missed>>
    BY <2>1, <2>4, CodeKept DEF OtpOK, CodesKept
  <2>5. QED
    BY <1>4, <2>2, <2>3, <2>4
    DEF Proceed, CreateSession, Count, Resolve, Admit, Find, Promote, Slide, Prune, Members,
        RevokeAll, Abort, Step, Finish
<1>5. QED BY <1>2, <1>3, <1>4

LEMMA ArriveOK ==
  ASSUME TypeOK, ShapesOK, OtpOK, NEW w \in Workers, Arrive(w)
  PROVE  OtpOK'
<1>1. SameGuesses
  BY ArriveType, NobodyMissed DEF Idle, ArrivalStages
<1>2. CASE ResetMfa(w)
  <2>1. CodesKept
    BY <1>2, ForgetKeeps DEF ResetMfa, Scopes
  <2>2. QED BY <1>1, <2>1, CodeKept
<1>3. CASE UNCHANGED otpVars
  <2>1. CodesKept
    BY <1>3 DEF otpVars, OtpOK, CodesKept
  <2>2. QED BY <1>1, <2>1, CodeKept
<1>4. QED
  BY <1>2, <1>3
  DEF Arrive, Login, VerifyLogin, VerifyContact, List, Resend, Verify, Load, AskCode,
      Deactivate, ForceLogout, ChangeRole

LEMMA NextTypes ==
  ASSUME TypeOK, ShapesOK, CodesOK, GuessesOK, [Next]_vars
  PROVE  TypeOK' /\ ShapesOK' /\ CodesOK' /\ GuessesOK'
<1> USE DEF accountVars, otpVars, sessionVars
<1>1. OtpOK
  BY DEF OtpOK, TypeOK
<1>2. ASSUME NEW w \in Workers, Arrive(w) \/ Proceed(w)
      PROVE  OtpOK' /\ ShapesOK' /\ tx' \in [Workers -> Request \cup {Idle}]
  <2>1. OtpOK'
    BY <1>1, <1>2, ArriveOK, ProceedOK
  <2>2. OnlyMoves(w) /\ Shape(w)'
    BY <1>2, ArriveType, ProceedMoves
  <2>3. issued' = issued \/ issued' = issued + 1
    BY <1>2
    DEF Arrive, Login, VerifyLogin, VerifyContact, List, Resend, Verify, Load, AskCode,
        Deactivate, ForceLogout, ResetMfa, ChangeRole, Proceed, CreateSession, IssueCode,
        NewCode, Compare, Consume, Count, Discard, Resolve, Admit, Find, Promote, Slide,
        Prune, Members, RevokeAll, Abort
  <2>4. QED BY <2>1, <2>2, <2>3, ShapesKept DEF OnlyMoves
<1>3. ASSUME \/ \E t \in Tokens : Destroy(t) \/ Expire(t)
             \/ \E sc \in Scopes : CodeExpires(sc)
             \/ IndexExpires \/ Reactivate \/ UNCHANGED vars
      PROVE  OtpOK' /\ ShapesOK' /\ tx' \in [Workers -> Request \cup {Idle}]
  <2>1. tx' = tx /\ issued' = issued
    BY <1>3 DEF vars, Destroy, Expire, CodeExpires, IndexExpires, Reactivate
  <2>2. SameGuesses
    BY <2>1 DEF SameGuesses
  <2>3. CodesKept
    <3>1. CASE \E sc \in Scopes : CodeExpires(sc)
      BY <1>1, <3>1 DEF CodeExpires, OtpOK, CodesKept
    <3>2. CASE ~(\E sc \in Scopes : CodeExpires(sc))
      BY <1>1, <1>3, <3>2
      DEF vars, Destroy, Expire, IndexExpires, Reactivate, OtpOK, CodesKept
    <3>3. QED BY <3>1, <3>2
  <2>4. OtpOK'
    BY <1>1, <2>2, <2>3, CodeKept
  <2>5. ShapesOK'
    BY <2>1 DEF ShapesOK, Shape
  <2>6. QED BY <2>1, <2>4, <2>5 DEF TypeOK
<1>4. OtpOK' /\ ShapesOK' /\ tx' \in [Workers -> Request \cup {Idle}]
  BY <1>2, <1>3 DEF Next
<1>5. QED BY <1>4, SessionType, AccountType DEF OtpOK, TypeOK

-----------------------------------------------------------------------------
(* What a session stands on                                                *)

\* A session becomes full with a code, or for a role that needs none.
LEMMA NextSecondFactor ==
  ASSUME IndInv, [Next]_vars
  PROVE  SecondFactor'
<1> SUFFICES ASSUME NEW t \in Tokens, Full(t)', session'[t].role \in MfaRoles
             PROVE  session'[t].factor # NoScope
  BY DEF SecondFactor
<1>1. CASE session'[t] \in {session[t], Gone, Broken}
  BY <1>1 DEF IndInv, SecondFactor, Full, Gone, Broken
<1>2. ASSUME NEW w \in Workers, session'[t] = NewSession(w)
      PROVE  session'[t].factor # NoScope
  <2>1. ~MfaNeeded(w) /\ tx[w].role \in MfaRoles
    BY <1>2 DEF NewSession, Full
  <2>2. QED BY <1>2, <2>1 DEF NewSession, MfaNeeded
<1>3. ASSUME NEW sc \in Scopes, IsLive(t), session'[t] = Promoted(t, sc)
      PROVE  session'[t].factor # NoScope
  <2>1. session[t] \in Live
    BY <1>3 DEF IndInv, TypeOK, IsLive, Unused, Gone, Broken
  <2>2. session'[t].factor = sc
    BY <1>3, <2>1 DEF Promoted, Live
  <2>3. QED BY <2>2 DEF Scopes, NoScope
<1>4. QED BY <1>1, <1>2, <1>3, SessionStep DEF IndInv

\* What a step may do to a token whose hash is gone or broken
LEMMA NothingRestores ==
  ASSUME TypeOK, ShapesOK, CodesOK, [Next]_vars, NEW t \in Tokens, session[t] \in {Gone, Broken}
  PROVE  session'[t] \in {Gone, Broken} /\ ~IsLive(t)'
<1>1. ~IsLive(t) /\ session[t] # Unused
  BY DEF IsLive, Gone, Broken, Unused
<1>2. session'[t] \in {Gone, Broken}
  BY <1>1, SessionStep
<1>3. QED BY <1>2 DEF IsLive, Gone, Broken

\* A tracked session was tracked before, or has just been created with no revocation
\* between its two commands.
LEMMA TrackedBefore ==
  ASSUME TypeOK, ShapesOK, CodesOK, [Next]_vars, NEW t \in Tokens, Tracked(t)'
  PROVE  \/ Tracked(t)
         \/ session[t] = Unused /\ \A v \in Workers : tx[v].pc # "members"
<1>1. CASE session'[t] \in {session[t], Gone, Broken}
  BY <1>1 DEF Tracked, IsLive, Gone, Broken
<1>2. ASSUME NEW w \in Workers, session[t] = Unused, session'[t] = NewSession(w)
      PROVE  \A v \in Workers : tx[v].pc # "members"
  BY <1>2 DEF Tracked, NewSession
<1>3. ASSUME NEW sc \in Scopes, IsLive(t), session'[t] = Promoted(t, sc)
      PROVE  Tracked(t)
  <2>1. session[t] \in Live
    BY <1>3 DEF TypeOK, IsLive, Unused, Gone, Broken
  <2>2. session'[t].stray = session[t].stray
        /\ session'[t].renewed = (session[t].renewed \/ Full(t))
    BY <1>3, <2>1 DEF Promoted, Live
  <2>3. QED BY <1>3, <2>2 DEF Tracked
<1>4. QED BY <1>1, <1>2, <1>3, SessionStep

LEMMA NextSweeps ==
  ASSUME IndInv, [Next]_vars
  PROVE  SweepsOK'
<1> SUFFICES ASSUME NEW v \in Workers
             PROVE  /\ tx'[v].pc = "listing" =>
                         \A t \in tx'[v].tokens : session'[t] \in {Gone, Broken}
                    /\ tx'[v].pc = "members" =>
                         \A t \in Tokens : Tracked(t)' => t \in tx'[v].tokens
  BY DEF SweepsOK
<1> USE DEF IndInv
<1>1. CASE tx'[v] = tx[v]
  <2>1. ASSUME tx[v].pc = "listing", NEW t \in tx[v].tokens
        PROVE  session'[t] \in {Gone, Broken}
    <3>1. t \in Tokens
      BY <2>1, AtWork DEF Request
    <3>2. QED BY <2>1, <3>1, NothingRestores DEF SweepsOK
  <2>2. ASSUME tx[v].pc = "members", NEW t \in Tokens, Tracked(t)'
        PROVE  t \in tx[v].tokens
    BY <2>2, TrackedBefore DEF SweepsOK
  <2>3. QED BY <1>1, <2>1, <2>2
<1>2. CASE Arrive(v)
  <2>1. /\ tx'[v].pc # "members"
        /\ tx'[v].pc = "listing" => \A t \in tx'[v].tokens : session[t] = Gone
        /\ tx' \in [Workers -> Request \cup {Idle}]
    BY <1>2, ArriveType DEF ArrivalStages, OnlyMoves
  <2>2. ASSUME tx'[v].pc = "listing", NEW t \in tx'[v].tokens
        PROVE  session'[t] \in {Gone, Broken}
    <3>1. t \in Tokens /\ session[t] = Gone
      BY <2>1, <2>2 DEF Request, Idle
    <3>2. QED BY <3>1, NothingRestores
  <2>3. QED BY <2>1, <2>2
<1>3. CASE Members(v)
  <2>1. tx'[v].pc = "members" /\ tx'[v].tokens = index /\ session' = session
    BY <1>3, MembersType DEF Members, sessionVars
  <2>2. QED BY <2>1 DEF LiveIsIndexed, Tracked, IsLive
<1>4. CASE Proceed(v) /\ ~Members(v)
  BY <1>4, ProceedMoves
<1>5. ASSUME NEW w \in Workers, w # v, Arrive(w) \/ Proceed(w)
      PROVE  tx'[v] = tx[v]
  BY <1>5, ArriveType, ProceedMoves DEF OnlyMoves
<1>6. QED
  BY <1>1, <1>2, <1>3, <1>4, <1>5
  DEF Next, vars, Destroy, Expire, CodeExpires, IndexExpires, Reactivate

\* The index loses only what has ended, what a revocation deletes, and what it has
\* outlived.
LEMMA NextIndexed ==
  ASSUME IndInv, [Next]_vars
  PROVE  LiveIsIndexed'
<1> SUFFICES ASSUME NEW t \in Tokens, Tracked(t)'
             PROVE  t \in index'
  BY DEF LiveIsIndexed, Tracked
<1> USE DEF IndInv, accountVars, otpVars, sessionVars
<1>1. CASE ~Tracked(t)
  <2>1. session[t] = Unused /\ session'[t] # Unused
    BY <1>1, TrackedBefore DEF Tracked, IsLive, Unused
  <2>2. ASSUME NEW w \in Workers, NEW u \in Tokens, CreateSession(w, u)
        PROVE  t \in index'
    BY <2>1, <2>2 DEF CreateSession, TypeOK
  <2>3. ASSUME NEW w \in Workers, Promote(w) \/ Slide(w) \/ RevokeAll(w)
        PROVE  FALSE
    <3>1. session'[t] \in {session[t], Gone, Broken} \/ IsLive(t)
      BY <2>3 DEF Promote, Slide, RevokeAll, TypeOK
    <3>2. QED BY <2>1, <3>1 DEF Tracked, IsLive, Gone, Broken, Unused
  <2>4. ASSUME NEW u \in Tokens, Destroy(u) \/ Expire(u)
        PROVE  FALSE
    <3>1. session'[t] \in {session[t], Gone}
      BY <2>4 DEF Destroy, Expire, TypeOK
    <3>2. QED BY <2>1, <3>1 DEF Tracked, IsLive, Gone
  <2>5. CASE UNCHANGED session
    BY <2>1, <2>5
  <2>6. ASSUME NEW w \in Workers, Proceed(w)
        PROVE  \/ UNCHANGED session \/ Promote(w) \/ Slide(w) \/ RevokeAll(w)
               \/ \E u \in Tokens : CreateSession(w, u)
    BY <2>6 DEF Proceed, IssueCode, Compare, Consume, Count, Discard, Resolve, Admit, Find,
                Prune, Members, Abort
  <2>7. ASSUME NEW w \in Workers, Arrive(w)
        PROVE  UNCHANGED session
    BY <2>7 DEF Arrive, Login, VerifyLogin, VerifyContact, List, Resend, Verify, Load,
                AskCode, Deactivate, ForceLogout, ResetMfa, ChangeRole
  <2>8. QED
    BY <2>2, <2>3, <2>4, <2>5, <2>6, <2>7
    DEF Next, vars, CodeExpires, IndexExpires, Reactivate
<1>2. CASE Tracked(t)
  <2>1. t \in index
    BY <1>2 DEF LiveIsIndexed, Tracked
  <2>2. ASSUME NEW w \in Workers, Prune(w)
        PROVE  t \in index'
    <3>1. tx[w].pc = "listing" /\ index' = index \ tx[w].tokens
      BY <2>2 DEF Prune, Finish
    <3>2. t \notin tx[w].tokens
      BY <1>2, <3>1 DEF SweepsOK, Tracked, IsLive, Gone, Broken
    <3>3. QED BY <2>1, <3>1, <3>2
  <2>3. ASSUME NEW w \in Workers, RevokeAll(w)
        PROVE  t \in index'
    <3>1. /\ tx[w].pc = "members" /\ session' = [u \in Tokens |-> IF u \in tx[w].tokens
                                                    THEN Gone ELSE session[u]]
      BY <2>3 DEF RevokeAll, Finish
    <3>2. t \in tx[w].tokens
      BY <1>2, <3>1 DEF SweepsOK
    <3>3. session'[t] = Gone
      BY <3>1, <3>2
    <3>4. QED BY <3>3 DEF Tracked, IsLive, Gone
  <2>4. ASSUME NEW u \in Tokens, Destroy(u)
        PROVE  t \in index'
    <3>1. u # t
      BY <2>4 DEF Destroy, Tracked, IsLive, Gone, TypeOK
    <3>2. QED BY <2>1, <2>4, <3>1 DEF Destroy
  <2>5. CASE IndexExpires
    BY <1>2, <2>1, <2>5 DEF IndexExpires, Tracked
  <2>6. CASE index \subseteq index'
    BY <2>1, <2>6
  <2>7. ASSUME NEW w \in Workers, Proceed(w)
        PROVE  index \subseteq index' \/ Prune(w) \/ RevokeAll(w)
    BY <2>7 DEF Proceed, CreateSession, IssueCode, Compare, Consume, Count, Discard, Resolve,
                Admit, Find, Promote, Slide, Members, Abort
  <2>8. ASSUME NEW w \in Workers, Arrive(w)
        PROVE  index' = index
    BY <2>8 DEF Arrive, Login, VerifyLogin, VerifyContact, List, Resend, Verify, Load,
                AskCode, Deactivate, ForceLogout, ResetMfa, ChangeRole
  <2>9. QED
    BY <2>2, <2>3, <2>4, <2>5, <2>6, <2>7, <2>8
    DEF Next, vars, Expire, CodeExpires, Reactivate
<1>3. QED BY <1>1, <1>2

LEMMA NextIndInv ==
  ASSUME IndInv, [Next]_vars
  PROVE  IndInv'
BY NextTypes, NextSecondFactor, NextSweeps, NextIndexed DEF IndInv

-----------------------------------------------------------------------------
(* Theorems                                                                *)

\* The strengthened invariant holds in every reachable state.
THEOREM Invariance == Spec => []IndInv
<1>1. Init => IndInv
  BY InitIndInv
<1>2. IndInv /\ [Next]_vars => IndInv'
  BY NextIndInv
<1>3. QED BY <1>1, <1>2, PTL DEF Spec

\* The account, its codes, its sessions and the requests keep their shape.
THEOREM TypeCorrect == Spec => []TypeOK
<1>1. IndInv => TypeOK
  BY DEF IndInv
<1>2. QED BY <1>1, Invariance, PTL

\* The password alone opens no full session of a role that needs a second factor,
\* however the account's role changes while its sign-ins are under way: one of the
\* codes sent to its contact completed each (authenticate, promote, create).
THEOREM NoFullSessionWithoutCode == Spec => []SecondFactor
<1>1. IndInv => SecondFactor
  BY DEF IndInv
<1>2. QED BY <1>1, Invariance, PTL

\* Every wrong guess at an outstanding code that was answered is on its counter,
\* whatever is reissued, discarded or guessed at the same time, under any scope.
THEOREM AnsweredGuessesCount == Spec => []GuessesCounted
<1>1. IndInv => GuessesCounted
  <2> SUFFICES ASSUME IndInv, NEW sc \in Scopes, code[sc] # NoCode
               PROVE  missed[code[sc]] <= attempts[sc] + Cardinality(Missers(code[sc]))
    BY DEF GuessesCounted, Missers
  <2>1. code[sc] \in Codes
    BY DEF IndInv, TypeOK
  <2>2. QED BY <2>1 DEF IndInv, GuessesOK
<1>2. QED BY <1>1, Invariance, PTL

\* A session that has ended never works again: a promotion or a sliding write that
\* read the hash before can only leave one that no request loads.
THEOREM EndedForGood == Spec => EndedStaysEnded
<1>1. IndInv /\ [Next]_vars
        => [\A t \in Tokens : session[t] \in {Gone, Broken} => ~IsLive(t)']_vars
  BY NothingRestores DEF IndInv
<1>2. QED BY <1>1, Invariance, PTL DEF Spec, EndedStaysEnded

\* A live session is where a revocation will find it, whatever listings, expiries and
\* other revocations do to the index, unless it was created while a revocation was
\* between its two commands or was granted its lifetime again.
THEOREM LiveSessionsAreIndexed == Spec => []LiveIsIndexed
<1>1. IndInv => LiveIsIndexed
  BY DEF IndInv
<1>2. QED BY <1>1, Invariance, PTL
-----------------------------------------------------------------------------
(* Accounts                                                                *)

\* The passwords for a name that are being tried and may yet be answered as wrong
Tries(n) ==
  {w \in Handlers : request[w].pc \in {"checking", "missed", "locking"} /\ request[w].name = n}

\* A request that tries a password has a name.
TryingOK ==
  \A w \in Handlers :
    request[w].pc \in {"checking", "matched", "missed", "locking"} => request[w].name \in Names

\* Before the lock every answer is on the counter and below the threshold.  Behind the
\* lock only those are answered that were being tried when it was set.
NameOK(n) ==
  /\ ~locked[n] => answered[n] <= fails[n] /\ answered[n] < LoginMaxAttempts
  /\ locked[n] =>
       answered[n] + Cardinality(Tries(n)) <= LoginMaxAttempts + Cardinality(Handlers) - 1

\* An account that is active and of the staff has been so at one moment.
ServedOK == kind = "staff" /\ accountStatus = "active" => served

AccountsInv == AccountsTypeOK /\ TryingOK /\ \A n \in Names : NameOK(n)

LEMMA HandlerSets ==
  /\ Cardinality(Handlers) \in Nat
  /\ \A S \in SUBSET Handlers :
       /\ IsFiniteSet(S) /\ Cardinality(S) \in Nat /\ Cardinality(S) <= Cardinality(Handlers)
       /\ \A T \in SUBSET S : Cardinality(T) <= Cardinality(S)
       /\ \A w \in S : Cardinality(S \ {w}) = Cardinality(S) - 1
BY AccountsAssumption, FS_Subset, FS_CardinalityType, FS_RemoveElement

LEMMA InitAccountsInv == AccountsInit => AccountsInv
<1> SUFFICES ASSUME AccountsInit PROVE AccountsInv
  OBVIOUS
<1>1. AccountsTypeOK
  <2>1. /\ asked \in 0..(Quota + 1) /\ answered \in [Names -> Nat]
        /\ fails \in [Names -> 0..(LoginMaxAttempts + 1)]
    BY AccountsAssumption DEF AccountsInit
  <2>2. \A w \in Handlers : request[w].pc = "idle"
    BY DEF AccountsInit, NoRequest
  <2>3. request \in [Handlers -> AccountRequest \cup {NoRequest}]
    BY DEF AccountsInit
  <2>4. QED BY <2>1, <2>2, <2>3 DEF AccountsInit, AccountsTypeOK
<1>2. TryingOK
  BY DEF AccountsInit, NoRequest, TryingOK
<1>3. \A n \in Names : NameOK(n)
  BY AccountsAssumption DEF AccountsInit, NameOK
<1>4. QED BY <1>1, <1>2, <1>3 DEF AccountsInv

\* A request under way is a record with all its fields.
LEMMA UnderWay ==
  ASSUME AccountsTypeOK, NEW w \in Handlers, request[w].pc # "idle"
  PROVE  request[w] \in AccountRequest
BY DEF AccountsTypeOK, NoRequest

\* How the three steps of a handler change its request, and no other
LEMMA Receives ==
  ASSUME AccountsTypeOK, NEW w \in Handlers,
         NEW pc \in {"checking", "changing", "resetting", "admitting"},
         NEW n \in Names \cup {NoName}, Receive(w, pc, n)
  PROVE  /\ request[w].pc = "idle"
         /\ request' \in [Handlers -> AccountRequest \cup {NoRequest}]
         /\ request'[w].pc = pc /\ request'[w].name = n
         /\ \A v \in Handlers \ {w} : request'[v] = request[v]
BY DEF AccountsTypeOK, NoRequest, Receive, RowRead, AccountRequest

LEMMA Continues ==
  ASSUME AccountsTypeOK, NEW w \in Handlers,
         NEW from, NEW to \in {"missed", "locking", "rehashing"},
         from # "idle", Continue(w, from, to)
  PROVE  /\ request[w].pc = from
         /\ request' \in [Handlers -> AccountRequest \cup {NoRequest}]
         /\ request'[w].pc = to /\ request'[w].name = request[w].name
         /\ \A v \in Handlers \ {w} : request'[v] = request[v]
<1>1. request[w] \in AccountRequest
  BY UnderWay DEF Continue
<1>2. QED BY <1>1 DEF AccountsTypeOK, Continue, AccountRequest

LEMMA Concludes ==
  ASSUME AccountsTypeOK, NEW w \in Handlers, NEW from, Conclude(w, from)
  PROVE  /\ request[w].pc = from
         /\ request' \in [Handlers -> AccountRequest \cup {NoRequest}]
         /\ request'[w].pc = "idle"
         /\ \A v \in Handlers \ {w} : request'[v] = request[v]
BY DEF AccountsTypeOK, NoRequest, Conclude

\* A step that leaves the two keys of a name alone and starts no try for it
LEMMA KeysAlone ==
  ASSUME AccountsInv, NEW n \in Names, UNCHANGED lockout, Tries(n)' \subseteq Tries(n)
  PROVE  NameOK(n)'
<1>1. Cardinality(Tries(n)') \in Nat /\ Cardinality(Tries(n)') <= Cardinality(Tries(n))
  <2>1. Tries(n) \in SUBSET Handlers /\ Tries(n)' \in SUBSET Tries(n)
    BY DEF Tries
  <2>2. QED BY <2>1, HandlerSets
<1>2. Cardinality(Tries(n)) \in Nat
  BY HandlerSets DEF Tries
<1>3. Cardinality(Handlers) \in Nat
  BY HandlerSets
<1>4. answered[n] \in Nat
  BY DEF AccountsInv, AccountsTypeOK
<1>5. QED BY <1>1, <1>2, <1>3, <1>4, AccountsAssumption DEF AccountsInv, NameOK, lockout

\* The same of the requests: one of them goes on, the others do not change.
LEMMA OnlyOne ==
  ASSUME AccountsInv, NEW w \in Handlers, UNCHANGED lockout,
         \A v \in Handlers \ {w} : request'[v] = request[v],
         \/ request'[w].pc \notin {"checking", "missed", "locking"}
         \/ /\ request[w].pc \in {"checking", "missed", "locking"}
            /\ request'[w].name = request[w].name
  PROVE  \A n \in Names : NameOK(n)'
<1> SUFFICES ASSUME NEW n \in Names PROVE NameOK(n)'
  OBVIOUS
<1>1. Tries(n)' \subseteq Tries(n)
  BY DEF Tries
<1>2. QED BY <1>1, KeysAlone

LEMMA CheckLockKeeps ==
  ASSUME AccountsInv, NEW w \in Handlers, NEW m \in Names, CheckLock(w, m)
  PROVE  AccountsInv'
<1>1. /\ request[w].pc = "idle"
      /\ request' \in [Handlers -> AccountRequest \cup {NoRequest}]
      /\ request'[w].pc = "checking" /\ request'[w].name = m
      /\ \A v \in Handlers \ {w} : request'[v] = request[v]
  BY Receives DEF CheckLock, AccountsInv
<1>2. UNCHANGED <<rowVars, lockout>>
  BY DEF CheckLock
<1>3. AccountsTypeOK'
  BY <1>1, <1>2 DEF AccountsInv, AccountsTypeOK, rowVars, statusVars, lockout
<1>4. TryingOK'
  BY <1>1, <1>2 DEF AccountsInv, TryingOK
<1>5. ASSUME NEW n \in Names PROVE NameOK(n)'
  <2>1. CASE n = m
    BY <2>1, <1>2 DEF AccountsInv, CheckLock, NameOK, lockout
  <2>2. CASE n # m
    <3>1. Tries(n)' \subseteq Tries(n)
      BY <1>1, <2>2 DEF Tries
    <3>2. QED BY <3>1, <1>2, KeysAlone DEF lockout
  <2>3. QED BY <2>1, <2>2
<1>6. QED BY <1>3, <1>4, <1>5 DEF AccountsInv

LEMMA MatchKeeps ==
  ASSUME AccountsInv, NEW w \in Handlers, Match(w)
  PROVE  AccountsInv'
<1>1. request[w].pc = "checking" /\ request[w] \in AccountRequest
  BY UnderWay DEF Match, AccountsInv
<1>2. request[w].name \in Names
  BY <1>1 DEF AccountsInv, TryingOK
<1>3. /\ request' \in [Handlers -> AccountRequest \cup {NoRequest}]
      /\ request'[w].pc \in {"matched", "idle"}
      /\ request'[w].pc = "matched" => request'[w].name \in Names
      /\ \A v \in Handlers \ {w} : request'[v] = request[v]
  BY <1>1, <1>2 DEF Match, AccountsInv, AccountsTypeOK, AccountRequest, RowRead, NoRequest
<1>4. UNCHANGED <<rowVars, lockout>> /\ password # Unusable
  BY DEF Match
<1>5. AccountsTypeOK'
  <2>1. served
    BY <1>4 DEF AccountsInv, AccountsTypeOK
  <2>2. QED BY <2>1, <1>3, <1>4 DEF AccountsInv, AccountsTypeOK, rowVars, statusVars, lockout
<1>6. TryingOK'
  BY <1>3 DEF AccountsInv, TryingOK
<1>7. \A n \in Names : NameOK(n)'
  BY <1>3, <1>4, OnlyOne DEF lockout
<1>8. QED BY <1>5, <1>6, <1>7 DEF AccountsInv

LEMMA MismatchKeeps ==
  ASSUME AccountsInv, NEW w \in Handlers, Mismatch(w)
  PROVE  AccountsInv'
<1>1. /\ request[w].pc = "checking"
      /\ request' \in [Handlers -> AccountRequest \cup {NoRequest}]
      /\ request'[w].pc = "missed" /\ request'[w].name = request[w].name
      /\ \A v \in Handlers \ {w} : request'[v] = request[v]
  BY Continues DEF Mismatch, AccountsInv
<1>2. UNCHANGED <<rowVars, lockout>>
  BY DEF Mismatch
<1>3. AccountsTypeOK'
  BY <1>1, <1>2 DEF AccountsInv, AccountsTypeOK, rowVars, statusVars, lockout
<1>4. TryingOK'
  BY <1>1, <1>2 DEF AccountsInv, TryingOK
<1>5. \A n \in Names : NameOK(n)'
  BY <1>1, <1>2, OnlyOne DEF lockout
<1>6. QED BY <1>3, <1>4, <1>5 DEF AccountsInv

\* The types of what is counted for a name
LEMMA NameTypes ==
  ASSUME AccountsTypeOK, NEW n \in Names
  PROVE  /\ answered[n] \in Nat /\ fails[n] \in 0..(LoginMaxAttempts + 1)
         /\ locked[n] \in BOOLEAN
         /\ Tries(n) \in SUBSET Handlers /\ Cardinality(Tries(n)) \in Nat
         /\ Cardinality(Handlers) \in Nat
         /\ LoginMaxAttempts \in Nat \ {0}
<1>1. Tries(n) \in SUBSET Handlers
  BY DEF Tries
<1>2. QED BY <1>1, HandlerSets, AccountsAssumption DEF AccountsTypeOK

\* The answer to a wrong password: one try less for its name.
LEMMA AnswerEndsTry ==
  ASSUME AccountsTypeOK, NEW w \in Handlers, NEW n \in Names,
         request[w].pc \in {"missed", "locking"}, request[w].name = n,
         request'[w].pc = "idle",
         \A v \in Handlers \ {w} : request'[v] = request[v]
  PROVE  /\ Cardinality(Tries(n)') = Cardinality(Tries(n)) - 1
         /\ Cardinality(Tries(n)') <= Cardinality(Handlers) - 1
         /\ Cardinality(Tries(n)') \in Nat
<1>1. Tries(n)' = Tries(n) \ {w} /\ w \in Tries(n)
  BY DEF Tries
<1>2. Tries(n) \in SUBSET Handlers /\ Tries(n)' \in SUBSET (Handlers \ {w})
  BY <1>1 DEF Tries
<1>3. /\ Cardinality(Tries(n)) \in Nat /\ Cardinality(Tries(n)') \in Nat
      /\ Cardinality(Tries(n)') = Cardinality(Tries(n)) - 1
  BY <1>1, <1>2, HandlerSets
<1>4. Cardinality(Tries(n)') <= Cardinality(Handlers) - 1
  <2>1. Cardinality(Handlers \ {w}) = Cardinality(Handlers) - 1
    BY HandlerSets
  <2>2. Handlers \ {w} \in SUBSET Handlers
    OBVIOUS
  <2>3. Cardinality(Tries(n)') <= Cardinality(Handlers \ {w})
    BY <1>2, <2>2, HandlerSets
  <2>4. QED BY <2>1, <2>3
<1>5. QED BY <1>3, <1>4

LEMMA CountFailureKeeps ==
  ASSUME AccountsInv, NEW w \in Handlers, CountFailure(w)
  PROVE  AccountsInv'
<1>0. PICK n \in Names : request[w].name = n
  BY DEF CountFailure, AccountsInv, TryingOK
<1> DEFINE last == Counted(n) >= LoginMaxAttempts
<1>1. /\ request[w].pc = "missed"
      /\ request' \in [Handlers -> AccountRequest \cup {NoRequest}]
      /\ last => request'[w].pc = "locking" /\ request'[w].name = n
      /\ ~last => request'[w].pc = "idle"
      /\ \A v \in Handlers \ {w} : request'[v] = request[v]
  <2>1. request[w].pc = "missed"
    BY DEF CountFailure
  <2>2. CASE last
    BY <2>1, <2>2, <1>0, Continues DEF CountFailure, AccountsInv
  <2>3. CASE ~last
    BY <2>1, <2>3, <1>0, Concludes DEF CountFailure, AccountsInv
  <2>4. QED BY <2>1, <2>2, <2>3
<1>2. UNCHANGED <<rowVars, locked>>
  BY DEF CountFailure
<1>3. Counted(n) \in 0..(LoginMaxAttempts + 1) /\ Counted(n) >= fails[n]
      /\ (~last => Counted(n) = fails[n] + 1)
  BY <1>1, NameTypes DEF Counted, AccountsInv
<1>4. /\ fails' = [fails EXCEPT ![n] = Counted(n)]
      /\ answered' = IF last THEN answered ELSE [answered EXCEPT ![n] = @ + 1]
  BY <1>0 DEF CountFailure, Answer
<1> HIDE DEF last
<1>5. AccountsTypeOK'
  <2>1. fails' \in [Names -> 0..(LoginMaxAttempts + 1)] /\ answered' \in [Names -> Nat]
    BY <1>1, <1>3, <1>4 DEF AccountsInv, AccountsTypeOK
  <2>2. QED BY <2>1, <1>1, <1>2 DEF AccountsInv, AccountsTypeOK, rowVars, statusVars
<1>6. TryingOK'
  BY <1>1, <1>2 DEF AccountsInv, TryingOK
<1>7. ASSUME NEW m \in Names PROVE NameOK(m)'
  <2>1. CASE m # n
    <3>1. Tries(m)' = Tries(m)
      BY <1>0, <1>1, <2>1 DEF Tries
    <3>2. QED BY <3>1, <2>1, <1>2, <1>4 DEF AccountsInv, AccountsTypeOK, NameOK
  <2>2. CASE m = n /\ last
    <3>1. Tries(n)' = Tries(n)
      BY <1>0, <1>1, <2>2 DEF Tries
    <3>2. answered'[n] = answered[n] /\ fails'[n] >= fails[n] /\ fails'[n] \in Nat
      BY <2>2, <1>1, <1>3, <1>4 DEF AccountsInv, AccountsTypeOK
    <3>3. /\ answered[n] \in Nat /\ fails[n] \in Nat /\ NameOK(n)
      BY <1>1, NameTypes DEF AccountsInv
    <3>4. QED BY <3>1, <3>2, <3>3, <2>2, <1>2 DEF NameOK
  <2>3. CASE m = n /\ ~last
    <3>1. Cardinality(Tries(n)') = Cardinality(Tries(n)) - 1
      BY <1>0, <1>1, <2>3, AnswerEndsTry DEF AccountsInv
    <3>2. answered'[n] = answered[n] + 1 /\ fails'[n] = fails[n] + 1
          /\ fails[n] + 1 < LoginMaxAttempts
      BY <2>3, <1>1, <1>3, <1>4, NameTypes DEF AccountsInv, AccountsTypeOK, last
    <3>3. /\ answered[n] \in Nat /\ fails[n] \in Nat /\ NameOK(n)
          /\ Cardinality(Tries(n)) \in Nat /\ Cardinality(Handlers) \in Nat
          /\ LoginMaxAttempts \in Nat \ {0}
      BY <1>1, NameTypes DEF AccountsInv
    <3>4. QED BY <3>1, <3>2, <3>3, <2>3, <1>2 DEF NameOK
  <2>4. QED BY <2>1, <2>2, <2>3
<1>8. QED BY <1>5, <1>6, <1>7 DEF AccountsInv

LEMMA SetLockKeeps ==
  ASSUME AccountsInv, NEW w \in Handlers, SetLock(w)
  PROVE  AccountsInv'
<1>0. PICK n \in Names : request[w].name = n
  BY DEF SetLock, Conclude, AccountsInv, TryingOK
<1>1. /\ request[w].pc = "locking"
      /\ request' \in [Handlers -> AccountRequest \cup {NoRequest}]
      /\ request'[w].pc = "idle"
      /\ \A v \in Handlers \ {w} : request'[v] = request[v]
  BY Concludes DEF SetLock, AccountsInv
<1>2. /\ UNCHANGED <<rowVars, fails>>
      /\ locked' = [locked EXCEPT ![n] = TRUE]
      /\ answered' = [answered EXCEPT ![n] = @ + 1]
  BY <1>0 DEF SetLock, Answer
<1>3. AccountsTypeOK'
  <2>1. locked' \in [Names -> BOOLEAN] /\ answered' \in [Names -> Nat]
    BY <1>1, <1>2 DEF AccountsInv, AccountsTypeOK
  <2>2. QED BY <2>1, <1>1, <1>2 DEF AccountsInv, AccountsTypeOK, rowVars, statusVars
<1>4. TryingOK'
  BY <1>1, <1>2 DEF AccountsInv, TryingOK
<1>5. ASSUME NEW m \in Names PROVE NameOK(m)'
  <2>1. CASE m # n
    <3>1. Tries(m)' = Tries(m)
      BY <1>0, <1>1, <2>1 DEF Tries
    <3>2. QED BY <3>1, <2>1, <1>2 DEF AccountsInv, AccountsTypeOK, NameOK
  <2>2. CASE m = n
    <3>1. /\ Cardinality(Tries(n)') = Cardinality(Tries(n)) - 1
          /\ Cardinality(Tries(n)') <= Cardinality(Handlers) - 1
          /\ Cardinality(Tries(n)') \in Nat
      BY <1>0, <1>1, AnswerEndsTry DEF AccountsInv
    <3>2. locked'[n] /\ answered'[n] = answered[n] + 1
      BY <1>1, <1>2 DEF AccountsInv, AccountsTypeOK
    <3>3. /\ answered[n] \in Nat /\ fails[n] \in Nat /\ locked[n] \in BOOLEAN
          /\ Cardinality(Tries(n)) \in Nat /\ Cardinality(Handlers) \in Nat
          /\ LoginMaxAttempts \in Nat \ {0} /\ NameOK(n)
      BY <1>1, NameTypes DEF AccountsInv
    <3>4. answered'[n] + Cardinality(Tries(n)')
            <= LoginMaxAttempts + Cardinality(Handlers) - 1
      BY <3>1, <3>2, <3>3 DEF NameOK
    <3>5. QED BY <3>2, <3>4, <2>2 DEF NameOK
  <2>3. QED BY <2>1, <2>2
<1>6. QED BY <1>3, <1>4, <1>5 DEF AccountsInv

LEMMA ClearKeeps ==
  ASSUME AccountsInv, NEW w \in Handlers, Clear(w)
  PROVE  AccountsInv'
<1>0. PICK n \in Names : request[w].name = n
  BY DEF Clear, Conclude, Continue, AccountsInv, TryingOK
<1>1. /\ request[w].pc = "matched"
      /\ request' \in [Handlers -> AccountRequest \cup {NoRequest}]
      /\ request'[w].pc \in {"idle", "rehashing"}
      /\ \A v \in Handlers \ {w} : request'[v] = request[v]
  BY Concludes, Continues DEF Clear, AccountsInv
<1>2. /\ UNCHANGED rowVars
      /\ fails' = [fails EXCEPT ![n] = 0] /\ locked' = [locked EXCEPT ![n] = FALSE]
      /\ answered' = [answered EXCEPT ![n] = 0]
  BY <1>0 DEF Clear
<1>3. AccountsTypeOK'
  <2>1. /\ fails' \in [Names -> 0..(LoginMaxAttempts + 1)]
        /\ locked' \in [Names -> BOOLEAN] /\ answered' \in [Names -> Nat]
    BY <1>2, AccountsAssumption DEF AccountsInv, AccountsTypeOK
  <2>2. served
    BY <1>1 DEF AccountsInv, AccountsTypeOK
  <2>3. QED BY <2>1, <2>2, <1>1, <1>2 DEF AccountsInv, AccountsTypeOK, rowVars, statusVars
<1>4. TryingOK'
  BY <1>1, <1>2 DEF AccountsInv, TryingOK
<1>5. ASSUME NEW m \in Names PROVE NameOK(m)'
  <2>1. CASE m # n
    <3>1. Tries(m)' = Tries(m)
      BY <1>1, <2>1 DEF Tries
    <3>2. QED BY <3>1, <2>1, <1>2 DEF AccountsInv, AccountsTypeOK, NameOK
  <2>2. CASE m = n
    BY <2>2, <1>2, AccountsAssumption DEF AccountsInv, AccountsTypeOK, NameOK
  <2>3. QED BY <2>1, <2>2
<1>6. QED BY <1>3, <1>4, <1>5 DEF AccountsInv

\* Redis lets go of the counter: at most every handler is trying a password.
LEMMA CounterExpiresKeeps ==
  ASSUME AccountsInv, NEW n \in Names, CounterExpires(n)
  PROVE  AccountsInv'
<1>1. /\ UNCHANGED <<rowVars, locked, request>>
      /\ fails' = [fails EXCEPT ![n] = 0] /\ answered' = [answered EXCEPT ![n] = 0]
  BY DEF CounterExpires
<1>2. AccountsTypeOK'
  <2>1. fails' \in [Names -> 0..(LoginMaxAttempts + 1)] /\ answered' \in [Names -> Nat]
    BY <1>1, AccountsAssumption DEF AccountsInv, AccountsTypeOK
  <2>2. QED BY <2>1, <1>1 DEF AccountsInv, AccountsTypeOK, rowVars, statusVars
<1>3. TryingOK'
  BY <1>1 DEF AccountsInv, TryingOK
<1>4. ASSUME NEW m \in Names PROVE NameOK(m)'
  <2>1. Tries(m)' = Tries(m)
    BY <1>1 DEF Tries
  <2>2. CASE m # n
    BY <2>1, <2>2, <1>1 DEF AccountsInv, AccountsTypeOK, NameOK
  <2>3. CASE m = n
    <3>1. Cardinality(Tries(n)) <= Cardinality(Handlers)
      BY HandlerSets DEF Tries
    <3>2. answered'[n] = 0 /\ fails'[n] = 0
      BY <1>1 DEF AccountsInv, AccountsTypeOK
    <3>3. Cardinality(Tries(n)) \in Nat /\ Cardinality(Handlers) \in Nat
          /\ LoginMaxAttempts \in Nat \ {0}
      BY NameTypes DEF AccountsInv
    <3>4. answered'[n] + Cardinality(Tries(n)')
            <= LoginMaxAttempts + Cardinality(Handlers) - 1
      BY <2>1, <2>3, <3>1, <3>2, <3>3
    <3>5. QED BY <3>2, <3>3, <3>4, <2>3 DEF NameOK
  <2>4. QED BY <2>2, <2>3
<1>5. QED BY <1>2, <1>3, <1>4 DEF AccountsInv

LEMMA LockExpiresKeeps ==
  ASSUME AccountsInv, NEW n \in Names, LockExpires(n)
  PROVE  AccountsInv'
<1>1. /\ UNCHANGED <<rowVars, fails, request>>
      /\ locked' = [locked EXCEPT ![n] = FALSE] /\ answered' = [answered EXCEPT ![n] = 0]
  BY DEF LockExpires
<1>2. AccountsTypeOK'
  <2>1. locked' \in [Names -> BOOLEAN] /\ answered' \in [Names -> Nat]
    BY <1>1 DEF AccountsInv, AccountsTypeOK
  <2>2. QED BY <2>1, <1>1 DEF AccountsInv, AccountsTypeOK, rowVars, statusVars
<1>3. TryingOK'
  BY <1>1 DEF AccountsInv, TryingOK
<1>4. ASSUME NEW m \in Names PROVE NameOK(m)'
  <2>1. Tries(m)' = Tries(m)
    BY <1>1 DEF Tries
  <2>2. CASE m # n
    BY <2>1, <2>2, <1>1 DEF AccountsInv, AccountsTypeOK, NameOK
  <2>3. CASE m = n
    <3>1. ~locked'[n] /\ answered'[n] = 0 /\ fails'[n] = fails[n]
      BY <1>1 DEF AccountsInv, AccountsTypeOK
    <3>2. fails[n] \in Nat /\ LoginMaxAttempts \in Nat \ {0}
      BY NameTypes DEF AccountsInv
    <3>3. QED BY <3>1, <3>2, <2>3 DEF NameOK
  <2>4. QED BY <2>2, <2>3
<1>5. QED BY <1>2, <1>3, <1>4 DEF AccountsInv

\* What becomes of the role and the status
LEMMA SetRowType ==
  ASSUME AccountsTypeOK, NEW k \in Kinds,
         NEW st \in {"none", "pending", "active", "deactivated"}, SetRow(k, st)
  PROVE  /\ kind' \in Kinds /\ served' \in BOOLEAN /\ (served => served')
         /\ accountStatus' \in {"none", "pending", "active", "deactivated"}
BY DEF SetRow, AccountsTypeOK

\* The steps of a handler that touch no key and end, or begin anything but a try
LEMMA OtherHandlerStepKeeps ==
  ASSUME AccountsInv, NEW w \in Handlers,
         \/ Rehash(w) \/ ChangePassword(w) \/ ConfirmReset(w) \/ VerifyCode(w)
         \/ \E p \in Passwords : SaveChange(w, p) \/ SaveReset(w, p)
         \/ Activate(w) \/ Drop(w)
  PROVE  AccountsInv'
<1>1. /\ request' \in [Handlers -> AccountRequest \cup {NoRequest}]
      /\ request'[w].pc \in {"idle", "changing", "resetting", "admitting"}
      /\ \A v \in Handlers \ {w} : request'[v] = request[v]
  <2>1. CASE Drop(w)
    BY <2>1 DEF Drop, NoRequest, AccountsInv, AccountsTypeOK
  <2>2. CASE ChangePassword(w) \/ ConfirmReset(w) \/ VerifyCode(w)
    BY <2>2, Receives DEF ChangePassword, ConfirmReset, VerifyCode, AccountsInv
  <2>3. CASE \/ Rehash(w) \/ Activate(w)
             \/ \E p \in Passwords : SaveChange(w, p) \/ SaveReset(w, p)
    BY <2>3, Concludes DEF Rehash, Activate, SaveChange, SaveReset, AccountsInv
  <2>4. QED BY <2>1, <2>2, <2>3
<1>2. UNCHANGED <<lockout, asked>>
  BY DEF Rehash, ChangePassword, ConfirmReset, VerifyCode, SaveChange, SaveReset, Activate,
         Drop, lockout, rowVars
<1>3. \A n \in Names : NameOK(n)'
  BY <1>1, <1>2, OnlyOne
<1>4. TryingOK'
  BY <1>1 DEF AccountsInv, TryingOK
<1>5. AccountsTypeOK'
  <2>1. CASE Rehash(w) \/ \E p \in Passwords : SaveChange(w, p) \/ SaveReset(w, p)
    <3>1. request[w].pc \in {"rehashing", "changing", "resetting"}
      BY <2>1 DEF Rehash, SaveChange, SaveReset, Conclude
    <3>2. request[w] \in AccountRequest /\ served
      BY <3>1, UnderWay DEF AccountsInv, AccountsTypeOK
    <3>3. password' \in Passwords \cup {Unusable} /\ UNCHANGED <<statusVars, outstanding>>
      BY <2>1, <3>2 DEF Rehash, SaveChange, SaveReset, AccountRequest
    <3>4. QED BY <3>2, <3>3, <1>1, <1>2 DEF AccountsInv, AccountsTypeOK, lockout, statusVars
  <2>2. CASE ChangePassword(w) \/ ConfirmReset(w)
    <3>1. /\ password' = password /\ UNCHANGED statusVars /\ outstanding' \in BOOLEAN
          /\ served
      BY <2>2 DEF ChangePassword, ConfirmReset, rowVars, AccountsInv, AccountsTypeOK
    <3>2. QED BY <3>1, <1>1, <1>2 DEF AccountsInv, AccountsTypeOK, lockout, statusVars
  <2>3. CASE VerifyCode(w) \/ Drop(w)
    <3>1. request'[w].pc \in {"idle", "admitting"}
      BY <2>3, Receives DEF VerifyCode, Drop, NoRequest, AccountsInv, AccountsTypeOK
    <3>2. UNCHANGED rowVars
      BY <2>3 DEF VerifyCode, Drop
    <3>3. QED BY <3>1, <3>2, <1>1, <1>2
          DEF AccountsInv, AccountsTypeOK, lockout, rowVars, statusVars
  <2>4. CASE Activate(w)
    <3>1. request'[w].pc = "idle" /\ UNCHANGED <<password, outstanding>>
      BY <2>4, Concludes DEF Activate, AccountsInv
    <3>2. /\ kind' \in Kinds /\ served' \in BOOLEAN /\ (served => served')
          /\ accountStatus' \in {"none", "pending", "active", "deactivated"}
      BY <2>4, SetRowType DEF Activate, AccountsInv, AccountsTypeOK
    <3>3. QED BY <3>1, <3>2, <1>1, <1>2 DEF AccountsInv, AccountsTypeOK, lockout
  <2>5. QED BY <2>1, <2>2, <2>3, <2>4
<1>6. QED BY <1>3, <1>4, <1>5 DEF AccountsInv

\* The steps that leave every handler's request as it is, and the keys
LEMMA RowStepKeeps ==
  ASSUME AccountsInv, ServedOK,
         \/ RequestReset \/ WindowSlides \/ OutstandingExpires
         \/ CreateUser \/ ReactivateAccount \/ DeactivateAccount
         \/ \E k \in Kinds : ChangeKind(k)
  PROVE  AccountsInv'
<1>1. UNCHANGED <<password, lockout, request>>
  BY DEF RequestReset, WindowSlides, OutstandingExpires, CreateUser, ReactivateAccount,
         DeactivateAccount, ChangeKind
<1>2. \A n \in Names : NameOK(n)'
  <2> SUFFICES ASSUME NEW n \in Names PROVE NameOK(n)'
    OBVIOUS
  <2>1. Tries(n)' = Tries(n)
    BY <1>1 DEF Tries
  <2>2. QED BY <2>1, <1>1, KeysAlone
<1>3. asked' \in 0..(Quota + 1)
  <2>1. asked' = asked \/ Ask \/ (asked > 0 /\ asked' = asked - 1)
    BY DEF RequestReset, WindowSlides, OutstandingExpires, CreateUser, ReactivateAccount,
           DeactivateAccount, ChangeKind
  <2>2. asked \in 0..(Quota + 1) /\ Quota \in Nat
    BY AccountsAssumption DEF AccountsInv, AccountsTypeOK
  <2>3. QED BY <2>1, <2>2 DEF Ask
<1>4. outstanding' \in BOOLEAN
  BY DEF RequestReset, WindowSlides, OutstandingExpires, CreateUser, ReactivateAccount,
         DeactivateAccount, ChangeKind, AccountsInv, AccountsTypeOK
<1>5. \/ UNCHANGED statusVars
      \/ \E k \in Kinds, st \in {"none", "pending", "active", "deactivated"} : SetRow(k, st)
  BY DEF RequestReset, WindowSlides, OutstandingExpires, CreateUser, ReactivateAccount,
         DeactivateAccount, ChangeKind, AccountsInv, AccountsTypeOK
<1>6. /\ kind' \in Kinds /\ served' \in BOOLEAN /\ (served => served')
      /\ accountStatus' \in {"none", "pending", "active", "deactivated"}
  BY <1>5, SetRowType DEF statusVars, AccountsInv, AccountsTypeOK
<1>7. ~served' => ~outstanding'
  <2>1. CASE RequestReset
    BY <2>1, <1>6 DEF RequestReset, statusVars, AccountsInv, AccountsTypeOK, ServedOK
  <2>2. CASE ~RequestReset
    BY <2>2, <1>6 DEF WindowSlides, OutstandingExpires, CreateUser, ReactivateAccount,
       DeactivateAccount, ChangeKind, AccountsInv, AccountsTypeOK
  <2>3. QED BY <2>1, <2>2
<1>8. AccountsTypeOK'
  BY <1>1, <1>3, <1>4, <1>6, <1>7 DEF AccountsInv, AccountsTypeOK, lockout
<1>9. TryingOK'
  BY <1>1 DEF AccountsInv, TryingOK
<1>10. QED BY <1>2, <1>8, <1>9 DEF AccountsInv

\* Every change of the role or the status is a SetRow.
LEMMA ServedStep == ServedOK /\ [AccountsNext]_accountsVars => ServedOK'
<1> SUFFICES ASSUME ServedOK, [AccountsNext]_accountsVars PROVE ServedOK'
  OBVIOUS
<1>1. CASE UNCHANGED statusVars
  BY <1>1 DEF statusVars, ServedOK
<1>2. ASSUME NEW k, NEW st, SetRow(k, st) PROVE ServedOK'
  BY <1>2 DEF SetRow, ServedOK
<1>3. ASSUME NEW w \in Handlers, Arrival(w) \/ Progress(w) PROVE ServedOK'
  <2>1. UNCHANGED statusVars \/ \E st : SetRow(kind, st)
    BY <1>3 DEF Arrival, Progress, CheckLock, ChangePassword, ConfirmReset, VerifyCode, Match,
                Mismatch, CountFailure, SetLock, Clear, Rehash, SaveChange, SaveReset,
                Activate, Drop, rowVars
  <2>2. QED BY <2>1, <1>1, <1>2
<1>4. QED
  BY <1>1, <1>2, <1>3
  DEF AccountsNext, CounterExpires, LockExpires, RequestReset, WindowSlides,
      OutstandingExpires, CreateUser, ReactivateAccount, DeactivateAccount, ChangeKind,
      rowVars, accountsVars, statusVars

LEMMA AccountsStep ==
  AccountsInv /\ ServedOK /\ [AccountsNext]_accountsVars => AccountsInv'
<1> SUFFICES ASSUME AccountsInv, ServedOK, [AccountsNext]_accountsVars PROVE AccountsInv'
  OBVIOUS
<1>1. ASSUME NEW w \in Handlers, Arrival(w) \/ Progress(w) PROVE AccountsInv'
  BY <1>1, CheckLockKeeps, MatchKeeps, MismatchKeeps, CountFailureKeeps, SetLockKeeps,
     ClearKeeps, OtherHandlerStepKeeps DEF Arrival, Progress
<1>2. ASSUME NEW n \in Names, CounterExpires(n) \/ LockExpires(n) PROVE AccountsInv'
  BY <1>2, CounterExpiresKeeps, LockExpiresKeeps
<1>3. CASE UNCHANGED accountsVars
  BY <1>3 DEF accountsVars, AccountsInv, AccountsTypeOK, TryingOK, NameOK, Tries
<1>4. QED BY <1>1, <1>2, <1>3, RowStepKeeps DEF AccountsNext

\* What both theorems rest on
LEMMA AccountsInvariance == AccountsSpec => [](AccountsInv /\ ServedOK)
<1>1. AccountsInit => ServedOK
  BY DEF AccountsInit, ServedOK
<1>2. QED BY <1>1, InitAccountsInv, AccountsStep, ServedStep, PTL DEF AccountsSpec

\* For any number of handlers, names and passwords, and any threshold and quota: until
\* an account has been active and of the staff at one moment, nobody has a password of
\* it (authenticate, request_password_reset, confirm_password_reset, change_role).
THEOREM AccountsTypeCorrect == AccountsSpec => []AccountsTypeOK
<1>1. AccountsInv => AccountsTypeOK
  BY DEF AccountsInv
<1>2. QED BY <1>1, AccountsInvariance, PTL

\* The lockout answers at most one failure beyond the threshold for each other handler,
\* however many handlers try, and whichever of them end between counter and lock
\* (record_login_failure).
THEOREM LockoutHolds == AccountsSpec => []LockoutCounts
<1>1. AccountsInv => LockoutCounts
  <2> SUFFICES ASSUME AccountsInv, NEW n \in Names
               PROVE  answered[n] <= LoginMaxAttempts + Cardinality(Handlers) - 1
    BY DEF LockoutCounts
  <2>1. CASE locked[n]
    BY <2>1, NameTypes DEF AccountsInv, NameOK
  <2>2. CASE ~locked[n]
    BY <2>2, NameTypes DEF AccountsInv, NameOK
  <2>3. QED BY <2>1, <2>2
<1>2. QED BY <1>1, AccountsInvariance, PTL
=============================================================================
