------------------------------ MODULE Accounts ------------------------------
(***************************************************************************)
(* One account: how it is created, activated and deactivated, how its role *)
(* moves between the staff's and the data subject's, how its password is   *)
(* set, and the lockout that stands before the password.                   *)
(*                                                                         *)
(* The lockout is two Redis keys for each login name: a counter of         *)
(* failures and a lock.  The lock is set by a command of its own after the *)
(* counter, so a process that ends between the two leaves none.  Both keys *)
(* expire.  The account has several names (its e-mail address and its user *)
(* name), each with keys of its own.                                       *)
(* A request reads the account's row in one step and writes in a later one *)
(* what it then knew.  Sessions, the other roles and one-time codes with   *)
(* their commands are in SignIn: here a code to sign in is right when its  *)
(* holder says so.  Delivery, profile fields and audit rows are left out.  *)
(***************************************************************************)
EXTENDS Naturals, FiniteSets

CONSTANTS
  Handlers,          \* request handlers
  Names,             \* the account's login names
  LoginMaxAttempts,  \* settings.login_max_attempts
  Passwords,         \* the passwords the person may choose
  Quota              \* requests for a password reset that are served in a window

ASSUME AccountsAssumption ==
  LoginMaxAttempts \in Nat \ {0} /\ Quota \in Nat \ {0} /\ IsFiniteSet(Handlers)

VARIABLES
  kind,           \* auth_user.role: of the staff or the data subject's
  accountStatus,  \* auth_user.status
  served,         \* history: whether it was once active and of the staff
  password,       \* what auth_user.password_hash is made from
  outstanding,    \* whether a code to reset the password is outstanding
  asked,          \* requests for one in the current window, refused ones too
  fails,          \* the failure counter of each name, 0 if Redis holds none
  locked,         \* whether each name is locked
  answered,       \* wrong passwords refused for each name since a key of it last went
  request         \* each handler's request and its local variables

accountsVars ==
  <<kind, accountStatus, served, password, outstanding, asked, fails, locked, answered,
    request>>

statusVars == <<kind, accountStatus, served>>
rowVars == <<statusVars, password, outstanding, asked>>
lockout == <<fails, locked, answered>>

Kinds == {"staff", "subject"}

\* create_user hashes a random token; a data subject has no hash
Unusable == "unusable"
NoName == "no name"

AccountRequest ==
  [pc : {"checking", "matched", "missed", "locking", "rehashing", "changing",
         "resetting", "admitting"},
   name : Names \cup {NoName}, password : Passwords \cup {Unusable},
   status : {"none", "pending", "active", "deactivated"}]
NoRequest == [pc |-> "idle"]

\* What a request still needs of the row it has read
RowRead(pc, n) ==
  [pc |-> pc, name |-> n,
   password |-> IF pc \in {"matched", "changing"} THEN password ELSE Unusable,
   status |-> IF pc = "admitting" THEN accountStatus ELSE "none"]

Receive(w, pc, n) ==
  request[w] = NoRequest /\ request' = [request EXCEPT ![w] = RowRead(pc, n)]
Continue(w, from, to) ==
  request[w].pc = from /\ request' = [request EXCEPT ![w].pc = to]
Conclude(w, from) ==
  request[w].pc = from /\ request' = [request EXCEPT ![w] = NoRequest]

SetRow(k, st) ==
  /\ kind' = k /\ accountStatus' = st
  /\ served' = (served \/ (k = "staff" /\ st = "active"))

-----------------------------------------------------------------------------
(* A password is tried                                                     *)

\* authenticate begins with is_locked_out
CheckLock(w, n) ==
  /\ ~locked[n]
  /\ Receive(w, "checking", n)
  /\ UNCHANGED <<rowVars, lockout>>

\* The right password.  Status and role count only now; a refusal for them is not a
\* failure.
Match(w) ==
  /\ request[w].pc = "checking" /\ password # Unusable
  /\ request' = [request EXCEPT ![w] =
       IF accountStatus = "active" /\ kind = "staff" THEN RowRead("matched", @.name)
       ELSE NoRequest]
  /\ UNCHANGED <<rowVars, lockout>>

Mismatch(w) ==
  /\ Continue(w, "checking", "missed")
  /\ UNCHANGED <<rowVars, lockout>>

Answer(n) == answered' = [answered EXCEPT ![n] = @ + 1]

\* Beyond one more than the threshold the counter makes no difference
Counted(n) == IF fails[n] > LoginMaxAttempts THEN fails[n] ELSE fails[n] + 1

\* Mutant of CountFailure: the lock is set when the threshold is met, not after it
CountFailureOnce(w) ==
  LET n == request[w].name IN
  /\ request[w].pc = "missed"
  /\ fails' = [fails EXCEPT ![n] = Counted(n)]
  /\ IF Counted(n) = LoginMaxAttempts
     THEN Continue(w, "missed", "locking") /\ UNCHANGED answered
     ELSE Conclude(w, "missed") /\ Answer(n)
  /\ UNCHANGED <<rowVars, locked>>

\* record_login_failure: INCR and EXPIRE in one pipeline
CountFailure(w) ==
  LET n == request[w].name IN
  /\ request[w].pc = "missed"
  /\ fails' = [fails EXCEPT ![n] = Counted(n)]
  /\ IF Counted(n) >= LoginMaxAttempts
     THEN Continue(w, "missed", "locking") /\ UNCHANGED answered
     ELSE Conclude(w, "missed") /\ Answer(n)
  /\ UNCHANGED <<rowVars, locked>>

\* SETEX, then the refusal
SetLock(w) ==
  /\ Conclude(w, "locking")
  /\ locked' = [locked EXCEPT ![request[w].name] = TRUE]
  /\ Answer(request[w].name)
  /\ UNCHANGED <<rowVars, fails>>

\* clear_login_failures deletes both keys; an old hash is then renewed
Clear(w) ==
  LET n == request[w].name IN
  /\ Conclude(w, "matched") \/ Continue(w, "matched", "rehashing")
  /\ fails' = [fails EXCEPT ![n] = 0] /\ locked' = [locked EXCEPT ![n] = FALSE]
  /\ answered' = [answered EXCEPT ![n] = 0]
  /\ UNCHANGED rowVars

\* The hash of the password that was typed, whatever the account's is by now
Rehash(w) ==
  /\ Conclude(w, "rehashing")
  /\ password' = request[w].password
  /\ UNCHANGED <<statusVars, outstanding, asked, lockout>>

\* Each failure renews the counter's expiry, and its lock comes after that; with a
\* process that ended in between either may expire first
CounterExpires(n) ==
  /\ fails[n] > 0
  /\ fails' = [fails EXCEPT ![n] = 0] /\ answered' = [answered EXCEPT ![n] = 0]
  /\ UNCHANGED <<rowVars, locked, request>>

LockExpires(n) ==
  /\ locked[n]
  /\ locked' = [locked EXCEPT ![n] = FALSE] /\ answered' = [answered EXCEPT ![n] = 0]
  /\ UNCHANGED <<rowVars, fails, request>>

-----------------------------------------------------------------------------
(* The password is set                                                     *)

\* change_password: the current password is right
ChangePassword(w) ==
  /\ password # Unusable
  /\ Receive(w, "changing", NoName)
  /\ UNCHANGED <<rowVars, lockout>>

SaveChange(w, p) ==
  /\ Conclude(w, "changing") /\ p # request[w].password
  /\ password' = p
  /\ UNCHANGED <<statusVars, outstanding, asked, lockout>>

\* enforce: a refused request is counted with the others.  Beyond one more than the
\* quota the number makes no difference.
Ask == asked' = IF asked > Quota THEN asked ELSE asked + 1

\* Mutant of RequestReset: an account that waits for its first password is served
RequestResetPending ==
  /\ Ask
  /\ outstanding' = (outstanding \/
       (asked < Quota /\ kind = "staff" /\ accountStatus \in {"active", "pending"}))
  /\ UNCHANGED <<statusVars, password, lockout, request>>

\* request_password_reset answers alike whether it sends a code or not
RequestReset ==
  /\ Ask
  /\ outstanding' =
       (outstanding \/ (asked < Quota /\ kind = "staff" /\ accountStatus = "active"))
  /\ UNCHANGED <<statusVars, password, lockout, request>>

\* confirm_password_reset: the code is right and used up; status and role are not
\* looked at
ConfirmReset(w) ==
  /\ outstanding
  /\ outstanding' = FALSE
  /\ Receive(w, "resetting", NoName)
  /\ UNCHANGED <<statusVars, password, asked, lockout>>

SaveReset(w, p) ==
  /\ Conclude(w, "resetting")
  /\ password' = p
  /\ UNCHANGED <<statusVars, outstanding, asked, lockout>>

\* A request leaves the sliding window
WindowSlides ==
  /\ asked > 0 /\ asked' = asked - 1
  /\ UNCHANGED <<statusVars, password, outstanding, lockout, request>>

OutstandingExpires ==
  /\ outstanding /\ outstanding' = FALSE
  /\ UNCHANGED <<statusVars, password, asked, lockout, request>>

-----------------------------------------------------------------------------
(* A sign-in code is right, whatever the role                              *)

\* verify_subject_otp and verify_contact_code: the account is read
VerifyCode(w) ==
  /\ accountStatus # "none"
  /\ Receive(w, "admitting", NoName)
  /\ UNCHANGED <<rowVars, lockout>>

\* What was pending becomes active
Activate(w) ==
  /\ Conclude(w, "admitting")
  /\ SetRow(kind, IF request[w].status = "pending" THEN "active" ELSE accountStatus)
  /\ UNCHANGED <<password, outstanding, asked, lockout>>

-----------------------------------------------------------------------------
(* The administrator                                                       *)

\* create_user; a data subject's row comes from a registration, also pending
CreateUser ==
  /\ accountStatus = "none" /\ SetRow(kind, "pending")
  /\ UNCHANGED <<password, outstanding, asked, lockout, request>>

ReactivateAccount ==
  /\ accountStatus # "none" /\ SetRow(kind, "active")
  /\ UNCHANGED <<password, outstanding, asked, lockout, request>>

DeactivateAccount ==
  /\ accountStatus # "none" /\ SetRow(kind, "deactivated")
  /\ UNCHANGED <<password, outstanding, asked, lockout, request>>

\* change_role, from the staff's to the data subject's or back: the password stays
ChangeKind(k) ==
  /\ accountStatus # "none" /\ k # kind /\ SetRow(k, accountStatus)
  /\ UNCHANGED <<password, outstanding, asked, lockout, request>>

\* An error, a lost connection, the end of the process: no answer
Drop(w) ==
  /\ request[w] # NoRequest
  /\ request' = [request EXCEPT ![w] = NoRequest]
  /\ UNCHANGED <<rowVars, lockout>>

-----------------------------------------------------------------------------
AccountsInit ==
  /\ kind \in Kinds
  /\ accountStatus = "none" /\ served = FALSE
  /\ password = Unusable /\ outstanding = FALSE /\ asked = 0
  /\ fails = [n \in Names |-> 0] /\ locked = [n \in Names |-> FALSE]
  /\ answered = [n \in Names |-> 0]
  /\ request = [w \in Handlers |-> NoRequest]

Arrival(w) ==
  \/ \E n \in Names : CheckLock(w, n)
  \/ ChangePassword(w) \/ ConfirmReset(w) \/ VerifyCode(w)

Progress(w) ==
  \/ Match(w) \/ Mismatch(w) \/ CountFailure(w) \/ SetLock(w) \/ Clear(w) \/ Rehash(w)
  \/ \E p \in Passwords : SaveChange(w, p) \/ SaveReset(w, p)
  \/ Activate(w) \/ Drop(w)

AccountsNext ==
  \/ \E w \in Handlers : Arrival(w) \/ Progress(w)
  \/ \E n \in Names : CounterExpires(n) \/ LockExpires(n)
  \/ RequestReset \/ WindowSlides \/ OutstandingExpires
  \/ CreateUser \/ ReactivateAccount \/ DeactivateAccount
  \/ \E k \in Kinds : ChangeKind(k)

AccountsSpec == AccountsInit /\ [][AccountsNext]_accountsVars

-----------------------------------------------------------------------------
(* Properties                                                              *)

\* Type invariant; until an account has been active and of the staff at one moment,
\* nobody has its password or a code to set one, and no request under way will set one
\* (create_user, request_password_reset), however its role and its status move.
AccountsTypeOK ==
  /\ kind \in Kinds /\ served \in BOOLEAN
  /\ accountStatus \in {"none", "pending", "active", "deactivated"}
  /\ password \in Passwords \cup {Unusable}
  /\ outstanding \in BOOLEAN /\ asked \in 0..(Quota + 1)
  /\ fails \in [Names -> 0..(LoginMaxAttempts + 1)]
  /\ locked \in [Names -> BOOLEAN] /\ answered \in [Names -> Nat]
  /\ request \in [Handlers -> AccountRequest \cup {NoRequest}]
  /\ ~served =>
       /\ password = Unusable /\ ~outstanding
       /\ \A w \in Handlers :
            request[w].pc \notin {"matched", "rehashing", "changing", "resetting"}

\* Between two moments at which Redis lets go of a name's counter or lock, no more
\* wrong passwords are answered for that name than the threshold and one for each
\* other handler, also when processes end between the counter and the lock
\* (record_login_failure locks at every failure from the threshold on).
LockoutCounts ==
  \A n \in Names : answered[n] <= LoginMaxAttempts + Cardinality(Handlers) - 1
=============================================================================
