------------------------------- MODULE SignIn -------------------------------
(***************************************************************************)
(* Sign-in of one account: the password, one-time codes, the sessions in   *)
(* Redis, and the administrator's requests that end them.                  *)
(*                                                                         *)
(* There are three ways to a session: the password, completed by a code    *)
(* where the role asks for a second factor; a sign-in code (/auth/otp);    *)
(* and the code of a consent link.  The last two look at no role.          *)
(*                                                                         *)
(* A session is a Redis hash under the digest of its token; the account's  *)
(* tokens are indexed by a set.  Each step below is one command or one     *)
(* MULTI block; what a request read in an earlier step may have changed.   *)
(* A request that writes some fields of a hash that is gone creates a hash *)
(* without the others, which no request can load: a broken session.        *)
(* Passwords, lockout, request quotas and delivery are left out, and so is *)
(* the audit row each request writes; whether a link resolves and who      *)
(* registers through it is in ConsentLink.  Every value here belongs to    *)
(* the one account, with one contact and one link; accounts share no key.  *)
(***************************************************************************)
EXTENDS Naturals, FiniteSets

CONSTANTS
  Workers,      \* request handlers
  Tokens,       \* session tokens that may be minted
  Roles,
  StaffRoles,   \* those with a password path: all but the data subject's
  MfaRoles,     \* settings.mfa_required_roles
  MaxAttempts,  \* settings.otp_max_verify_attempts
  MaxCodes,     \* bound: codes issued
  MaxMinted,    \* bound: codes issued and sessions created, together
  MaxGuesses    \* bound: wrong guesses looked at for the first code issued, one less for
                \* each later one

ASSUME SignInAssumption ==
  /\ MfaRoles \subseteq Roles /\ StaffRoles \subseteq Roles
  /\ MaxAttempts \in Nat \ {0}
  /\ MaxCodes \in Nat /\ MaxMinted \in Nat /\ MaxGuesses \in Nat

VARIABLES
  status,       \* auth_user.status
  role,         \* auth_user.role
  code,         \* the outstanding code of each scope, NoCode if Redis holds none
  attempts,     \* its counter of failures
  issued,       \* how many codes have been issued; the n-th is named n
  missed,       \* how many wrong guesses at each code got, or will get, an answer
  session,      \* the hash of each token
  index,        \* the set of the account's tokens
  tx            \* each worker's request and its local variables

vars == <<status, role, code, attempts, issued, missed, session, index, tx>>

accountVars == <<status, role>>
otpVars == <<code, attempts, issued, missed>>
sessionVars == <<session, index>>

Scopes == {"staff_mfa", "subject_login", "consent_link"}
Codes == 1..MaxCodes
NoCode == 0
NoScope == "no scope"
NoToken == "no token"
NoRole == "no role"

\* A session's hash.  Three fields are history: the scope of the code that completed
\* the sign-in; whether the session was created between the two commands of a
\* revocation; whether its lifetime was granted again.
Live == [kind : {"partial", "full"}, role : Roles, factor : Scopes \cup {NoScope},
         stray : BOOLEAN, renewed : BOOLEAN]
Unused == [kind |-> "unused"]
Gone == [kind |-> "gone"]
Broken == [kind |-> "broken"]

IsLive(t) == session[t].kind \in {"partial", "full"}
Full(t) == session[t].kind = "full"

Statuses == {"pending", "active", "deactivated"}
Stages ==
  {"signing", "issuing", "verifying", "matched", "missed", "discarding", "promoting",
   "found", "resolving", "admitting", "sliding", "listing", "revoking", "members"}

\* role and pending are the account's as a sign-in read it, scope that of the code the
\* request is about, code the one a guess missed, tokens what SMEMBERS
\* returned or a listing found stale
Request ==
  [pc : Stages, token : Tokens \cup {NoToken}, scope : Scopes \cup {NoScope},
   role : Roles \cup {NoRole}, pending : BOOLEAN, code : Codes \cup {NoCode},
   tokens : SUBSET Tokens]
Idle == [pc |-> "idle"]

Open(pc, sc) ==
  [pc |-> pc, token |-> NoToken, scope |-> sc, role |-> NoRole, pending |-> FALSE,
   code |-> NoCode, tokens |-> {}]

Begin(w, r) == tx[w].pc = "idle" /\ tx' = [tx EXCEPT ![w] = r]
Step(w, from, to) == tx[w].pc = from /\ tx' = [tx EXCEPT ![w].pc = to]
Finish(w, from) == tx[w].pc = from /\ tx' = [tx EXCEPT ![w] = Idle]

Minted == issued + Cardinality({t \in Tokens : session[t] # Unused})

-----------------------------------------------------------------------------
(* Password and session                                                    *)

\* authenticate: the password is right, the account, as read, is active and of the staff
Login(w) ==
  /\ status = "active" /\ role \in StaffRoles
  /\ Begin(w, [Open("signing", NoScope) EXCEPT !.role = role])
  /\ UNCHANGED <<accountVars, otpVars, sessionVars>>

\* Mutant of MfaNeeded: the role is looked up again instead of the one read
MfaNeededNow(w) == tx[w].scope = NoScope /\ role \in MfaRoles

\* Of a sign-in by password
MfaNeeded(w) == tx[w].scope = NoScope /\ tx[w].role \in MfaRoles

\* verify_subject_otp updates a pending account before it creates the session, and
\* holds the row until it commits
RowLocked ==
  \E w \in Workers :
    tx[w].pc = "admitting" /\ tx[w].scope = "subject_login" /\ tx[w].pending

NewSession(w) ==
  [kind |-> IF MfaNeeded(w) THEN "partial" ELSE "full", role |-> tx[w].role,
   factor |-> tx[w].scope, renewed |-> FALSE,
   stray |-> \E v \in Workers : tx[v].pc = "members"]

\* sessions.create, with the role read before.  A second factor's code is issued next;
\* a sign-in by code has yet to commit.
CreateSession(w, t) ==
  /\ tx[w].pc = "signing"
  /\ tx[w].scope = "subject_login" /\ tx[w].pending => ~RowLocked
  /\ session[t] = Unused /\ Minted < MaxMinted
  /\ session' = [session EXCEPT ![t] = NewSession(w)]
  /\ index' = index \cup {t}
  /\ tx' = [tx EXCEPT ![w] =
       IF MfaNeeded(w) THEN Open("issuing", "staff_mfa")
       ELSE IF tx[w].scope = "subject_login" THEN [tx[w] EXCEPT !.pc = "admitting"]
       ELSE Idle]
  /\ UNCHANGED <<accountVars, otpVars>>

-----------------------------------------------------------------------------
(* One-time codes                                                          *)

\* POST /auth/mfa/resend, which any live session of the account may call
Resend(w, t) ==
  /\ IsLive(t)
  /\ Begin(w, Open("issuing", "staff_mfa"))
  /\ UNCHANGED <<accountVars, otpVars, sessionVars>>

\* request_subject_otp asks for the account's status, send_contact_code for nothing
AskCode(w, sc) ==
  /\ sc = "subject_login" => status \in {"active", "pending"}
  /\ Begin(w, Open("issuing", sc))
  /\ UNCHANGED <<accountVars, otpVars, sessionVars>>

\* otp.issue replaces the code of the scope and resets its counter
NewCode(sc) ==
  /\ issued < MaxCodes /\ Minted < MaxMinted
  /\ issued' = issued + 1
  /\ code' = [code EXCEPT ![sc] = issued + 1]
  /\ attempts' = [attempts EXCEPT ![sc] = 0]
  /\ UNCHANGED missed

IssueCode(w) ==
  /\ Finish(w, "issuing")
  /\ NewCode(tx[w].scope)
  /\ UNCHANGED <<accountVars, sessionVars>>

\* A code's time is up, in Redis
CodeExpires(sc) ==
  /\ code[sc] # NoCode
  /\ code' = [code EXCEPT ![sc] = NoCode]
  /\ UNCHANGED <<accountVars, attempts, issued, missed, sessionVars, tx>>

\* POST /auth/mfa/verify with a session that loads, whatever its kind
Verify(w, t) ==
  /\ IsLive(t)
  /\ Begin(w, [Open("verifying", "staff_mfa") EXCEPT !.token = t])
  /\ UNCHANGED <<accountVars, otpVars, sessionVars>>

\* verify_subject_otp reads the account before the code
VerifyLogin(w) ==
  /\ Begin(w, [Open("verifying", "subject_login") EXCEPT
                 !.role = role, !.pending = (status = "pending")])
  /\ UNCHANGED <<accountVars, otpVars, sessionVars>>

\* verify_contact_code the code before the account
VerifyContact(w) ==
  /\ Begin(w, Open("verifying", "consent_link"))
  /\ UNCHANGED <<accountVars, otpVars, sessionVars>>

\* otp.verify: the stored code is read and compared; the guess is right or wrong
Compare(w) ==
  LET c == code[tx[w].scope] IN
  /\ tx[w].pc = "verifying"
  /\ c # NoCode
  /\ \/ Step(w, "verifying", "matched") /\ UNCHANGED missed
     \/ /\ missed[c] + c <= MaxGuesses
        /\ tx' = [tx EXCEPT ![w].pc = "missed", ![w].code = c]
        /\ missed' = [missed EXCEPT ![c] = @ + 1]
  /\ UNCHANGED <<accountVars, code, attempts, issued, sessionVars>>

Forget(sc) ==
  /\ code' = [code EXCEPT ![sc] = NoCode]
  /\ attempts' = [attempts EXCEPT ![sc] = 0]

Completes == [sc \in Scopes |-> CASE sc = "staff_mfa" -> "promoting"
                                  [] sc = "subject_login" -> "signing"
                                  [] sc = "consent_link" -> "resolving"]

\* A right guess deletes the code and its counter
Consume(w) ==
  /\ tx[w].pc = "matched"
  /\ Step(w, "matched", Completes[tx[w].scope])
  /\ Forget(tx[w].scope)
  /\ UNCHANGED <<accountVars, issued, missed, sessionVars>>

\* A wrong one is counted (INCR), and the last one the code is worth discards it
Count(w) ==
  LET sc == tx[w].scope IN
  /\ tx[w].pc = "missed"
  /\ attempts' = [attempts EXCEPT ![sc] = @ + 1]
  /\ IF attempts[sc] + 1 >= MaxAttempts THEN Step(w, "missed", "discarding")
     ELSE Finish(w, "missed")
  /\ UNCHANGED <<accountVars, code, issued, missed, sessionVars>>

\* Mutant of Discard: only the counter is deleted
DiscardCounter(w) ==
  /\ Finish(w, "discarding")
  /\ attempts' = [attempts EXCEPT ![tx[w].scope] = 0]
  /\ UNCHANGED <<accountVars, code, issued, missed, sessionVars>>

Discard(w) ==
  /\ Finish(w, "discarding")
  /\ Forget(tx[w].scope)
  /\ UNCHANGED <<accountVars, issued, missed, sessionVars>>

\* verify_contact_code reads the account by its contact
Resolve(w) ==
  /\ tx[w].pc = "resolving"
  /\ tx' = [tx EXCEPT ![w].pc = "admitting", ![w].role = role,
                      ![w].pending = (status = "pending")]
  /\ UNCHANGED <<accountVars, otpVars, sessionVars>>

\* A sign-in by code commits: what was pending becomes active.  The session of a
\* consent link comes after the commit, that of /auth/otp was created before it.
Admit(w) ==
  /\ tx[w].pc = "admitting"
  /\ tx[w].scope = "consent_link" /\ tx[w].pending => ~RowLocked
  /\ IF tx[w].scope = "consent_link" THEN Step(w, "admitting", "signing")
     ELSE Finish(w, "admitting")
  /\ status' = IF tx[w].pending THEN "active" ELSE status
  /\ UNCHANGED <<role, otpVars, sessionVars>>

-----------------------------------------------------------------------------
(* Using a session                                                         *)

\* promote reads the hash and, finding it, goes on
Find(w) ==
  /\ tx[w].pc = "promoting"
  /\ session[tx[w].token].kind \in {"partial", "full", "broken"}
  /\ Step(w, "promoting", "found")
  /\ UNCHANGED <<accountVars, otpVars, sessionVars>>

\* Mutant of Promote: the whole record that was read is written back
PromoteRecord(w) ==
  /\ Finish(w, "found")
  /\ session' = [session EXCEPT ![tx[w].token] =
       [kind |-> "full", role |-> role, factor |-> tx[w].scope, stray |-> FALSE,
        renewed |-> FALSE]]
  /\ UNCHANGED <<accountVars, otpVars, index>>

Promoted(t, sc) ==
  [session[t] EXCEPT !.kind = "full", !.factor = sc, !.renewed = @ \/ Full(t)]

\* It then writes the fields that change, with a lifetime that begins now
Promote(w) ==
  /\ Finish(w, "found")
  /\ LET t == tx[w].token
     IN  session' = [session EXCEPT ![t] =
           IF IsLive(t) THEN Promoted(t, tx[w].scope) ELSE Broken]
  /\ UNCHANGED <<accountVars, otpVars, index>>

\* load, in any request: read the hash, then write last_seen_at
Load(w, t) ==
  /\ IsLive(t)
  /\ Begin(w, [Open("sliding", NoScope) EXCEPT !.token = t])
  /\ UNCHANGED <<accountVars, otpVars, sessionVars>>

Slide(w) ==
  /\ Finish(w, "sliding")
  /\ session' = [session EXCEPT ![tx[w].token] = IF IsLive(tx[w].token) THEN @ ELSE Broken]
  /\ UNCHANGED <<accountVars, otpVars, index>>

\* list_for_user: members whose hash is gone are found, then removed from the index
List(w) ==
  LET stale == {t \in index : session[t] = Gone}
  IN  /\ stale # {}
      /\ Begin(w, [Open("listing", NoScope) EXCEPT !.tokens = stale])
      /\ UNCHANGED <<accountVars, otpVars, sessionVars>>

\* Mutant of Prune: the index is deleted when a member of it is stale
PruneIndex(w) ==
  /\ Finish(w, "listing")
  /\ index' = {}
  /\ UNCHANGED <<accountVars, otpVars, session>>

Prune(w) ==
  /\ Finish(w, "listing")
  /\ index' = index \ tx[w].tokens
  /\ UNCHANGED <<accountVars, otpVars, session>>

\* destroy (sign-out) and revoke_by_sid (one session, by its owner)
Destroy(t) ==
  /\ IsLive(t)
  /\ session' = [session EXCEPT ![t] = Gone]
  /\ index' = index \ {t}
  /\ UNCHANGED <<accountVars, otpVars, tx>>

\* The hash's time to live, absolute or idle; the index keeps its member
Expire(t) ==
  /\ session[t].kind \in {"partial", "full", "broken"}
  /\ session' = [session EXCEPT ![t] = Gone]
  /\ UNCHANGED <<accountVars, otpVars, index, tx>>

\* The index lives for two lifetimes of a session from the last one created, which a
\* session can only outlast if its lifetime was granted again
IndexExpires ==
  /\ index # {}
  /\ \A t \in index : IsLive(t) => session[t].renewed
  /\ index' = {}
  /\ UNCHANGED <<accountVars, otpVars, session, tx>>

-----------------------------------------------------------------------------
(* Administration: the change is committed, then the sessions are revoked  *)

Deactivate(w) ==
  /\ ~RowLocked
  /\ status' = "deactivated"
  /\ Begin(w, Open("revoking", NoScope))
  /\ UNCHANGED <<role, otpVars, sessionVars>>

Reactivate ==
  /\ ~RowLocked
  /\ status' = "active"
  /\ UNCHANGED <<role, otpVars, sessionVars, tx>>

ChangeRole(w, r) ==
  /\ r # role /\ ~RowLocked
  /\ role' = r
  /\ Begin(w, Open("revoking", NoScope))
  /\ UNCHANGED <<status, otpVars, sessionVars>>

\* reset_mfa discards the code first
ResetMfa(w) ==
  /\ Forget("staff_mfa")
  /\ Begin(w, Open("revoking", NoScope))
  /\ UNCHANGED <<accountVars, issued, missed, sessionVars>>

\* Force logout, and the revocations that follow a change of password or a look at
\* one's own account (me_payload) when it is not active
ForceLogout(w) ==
  /\ Begin(w, Open("revoking", NoScope))
  /\ UNCHANGED <<accountVars, otpVars, sessionVars>>

\* revoke_all asks for the members of the index
Members(w) ==
  /\ tx[w].pc = "revoking"
  /\ tx' = [tx EXCEPT ![w].pc = "members", ![w].tokens = index]
  /\ UNCHANGED <<accountVars, otpVars, sessionVars>>

\* and deletes their hashes and the index itself, if there were any
RevokeAll(w) ==
  /\ Finish(w, "members")
  /\ session' = [t \in Tokens |-> IF t \in tx[w].tokens THEN Gone ELSE session[t]]
  /\ index' = IF tx[w].tokens = {} THEN index ELSE {}
  /\ UNCHANGED <<accountVars, otpVars>>

\* A refusal, a lost connection to Redis, a crash: a guess gets no answer
Abort(w) ==
  /\ tx[w].pc # "idle"
  /\ tx' = [tx EXCEPT ![w] = Idle]
  /\ missed' = IF tx[w].pc = "missed" THEN [missed EXCEPT ![tx[w].code] = @ - 1]
               ELSE missed
  /\ UNCHANGED <<accountVars, code, attempts, issued, sessionVars>>

-----------------------------------------------------------------------------
Init ==
  /\ status \in {"pending", "active"}
  /\ role \in Roles
  /\ code = [sc \in Scopes |-> NoCode] /\ attempts = [sc \in Scopes |-> 0]
  /\ issued = 0
  /\ missed = [c \in Codes |-> 0]
  /\ session = [t \in Tokens |-> Unused]
  /\ index = {}
  /\ tx = [w \in Workers |-> Idle]

\* The rest of a request that has begun
Proceed(w) ==
  \/ \E t \in Tokens : CreateSession(w, t)
  \/ IssueCode(w) \/ Compare(w) \/ Consume(w) \/ Count(w) \/ Discard(w)
  \/ Resolve(w) \/ Admit(w) \/ Find(w) \/ Promote(w) \/ Slide(w) \/ Prune(w)
  \/ Members(w) \/ RevokeAll(w)
  \/ Abort(w)

Arrive(w) ==
  \/ Login(w) \/ VerifyLogin(w) \/ VerifyContact(w) \/ List(w)
  \/ \E t \in Tokens : Resend(w, t) \/ Verify(w, t) \/ Load(w, t)
  \/ \E sc \in {"subject_login", "consent_link"} : AskCode(w, sc)
  \/ Deactivate(w) \/ ForceLogout(w) \/ ResetMfa(w)
  \/ \E r \in Roles : ChangeRole(w, r)

Next ==
  \/ \E w \in Workers : Arrive(w) \/ Proceed(w)
  \/ \E t \in Tokens : Destroy(t) \/ Expire(t)
  \/ \E sc \in Scopes : CodeExpires(sc)
  \/ IndexExpires \/ Reactivate

Spec == Init /\ [][Next]_vars

-----------------------------------------------------------------------------
(* Properties                                                              *)

\* Type invariant.
TypeOK ==
  /\ status \in Statuses
  /\ role \in Roles
  /\ code \in [Scopes -> Codes \cup {NoCode}]
  /\ attempts \in [Scopes -> Nat]
  /\ issued \in 0..MaxCodes
  /\ missed \in [Codes -> 0..MaxGuesses]
  /\ session \in [Tokens -> Live \cup {Unused, Gone, Broken}]
  /\ index \subseteq Tokens
  /\ tx \in [Workers -> Request \cup {Idle}]

\* The password alone never opens a full session of a role that needs a second factor:
\* each was completed by a code sent to the account's contact, however the role changes
\* while sign-ins are under way.  It is the second factor's code after the password, or
\* one of the two codes that replace the password for every role (authenticate,
\* verify_subject_otp, verify_contact_code).
SecondFactor ==
  \A t \in Tokens :
    Full(t) /\ session[t].role \in MfaRoles => session[t].factor # NoScope

\* Every wrong guess at an outstanding code that was answered is on its counter: no
\* discard, reissue or guess at an older code loses one, and as many more as there
\* are requests may be on their way there.
GuessesCounted ==
  \A sc \in Scopes : code[sc] # NoCode =>
    missed[code[sc]] <= attempts[sc] +
      Cardinality({w \in Workers : tx[w].pc = "missed" /\ tx[w].code = code[sc]})

\* A session that has ended never works again: neither a promotion nor a request
\* that read it before brings it back.
EndedStaysEnded ==
  [][\A t \in Tokens : session[t] \in {Gone, Broken} => ~IsLive(t)']_vars

\* Every live session is in the index, where the next revocation will find it, but for
\* those created while a revocation was between its two commands and those that
\* outlived the index by being promoted again (create and revoke_all, with the listings
\* that prune the index and the expiry of either key).
LiveIsIndexed ==
  \A t \in Tokens :
    IsLive(t) /\ ~session[t].stray /\ ~session[t].renewed => t \in index
=============================================================================
