# COMPASS CMP: a verification project

TLA+ specifications of the COMPASS consent management platform
(`src/cmp_backend`), the TLC runs that check them on small instances, and
theorems about each specification proved with TLAPS for every instance.

The specifications follow the source: each maps to the lines listed under `map`
in `PROJECT.json`. Paths below are relative to `src/cmp_backend/src/cmp` unless
they start with `migrations`.

    tlc -workers 2 -config ledger.cfg MCConsentLedger     # one run of the table below
    tlapm ConsentLedgerProofs.tla                         # the proofs of one component

## 1. The system

A data fiduciary registers a project, has a notice approved and published and
collects consent to it, purpose by purpose, through links given to field agents.
A data subject registers through a link, confirms a contact, consents, and may
withdraw. Collected assets are imported and tied to the consents that cover them.
Everything is recorded in an audit trail that is a hash chain.

The API (FastAPI) runs in several processes against PostgreSQL 16 at READ
COMMITTED, with raw SQL. A request is in general one transaction
(`db/pool.py:116-135`: commit on a clean exit, rollback on any exception). Redis
holds what may be lost: sessions, one-time codes, counters and mutexes, one
command or one MULTI block at a time and in no transaction with PostgreSQL. Celery
workers, fed by a beat schedule, expire links, quarantine assets whose consent
lapsed and verify the trail, with at-least-once delivery. Part of the logic lives
in triggers and constraints (`migrations/versions/0001`, `0002`). The console
(`src/cmp_frontent`) is a client without authority of its own.

Three mechanisms carry most of the correctness, and most of the difficulty:

- **Reads without locks.** A handler reads a row, decides, and writes later.
  Between the two anything may commit. Only a few places lock
  (`SELECT ... FOR UPDATE`, an upsert, an advisory lock) or rely on a unique index.
- **Two stores.** Redis and PostgreSQL change one after the other; a crash or a
  refusal falls in between.
- **Work nobody waits for.** Sweeps and verification race the requests, may be
  killed, and come again.

### Inventory

| Component | State | Operations that change it | What makes it correct |
|---|---|---|---|
| Consent ledger: `domain/consent.py` capture, withdraw; view `v_current_consent` | `consent_artefact`, `consent_purpose_grant` (append-only) | capture, withdraw | one current answer per person and notice; a withdrawal only narrows; the last act counts |
| Consent links and the public flow: `domain/consent.py`, `api/routers/public.py`, `api/routers/consents.py` | `consent_link`, `auth_user`, contact codes, subject sessions | mint, register, resend, verify, capture, revoke, expire, deactivate site, close project | exact use count within the cap; only confirmed people consent; an ended link stays ended |
| Audit trail: `domain/audit.py`, trigger `cmp_audit_chain`, `cmp_audit_verify` | `audit_log` and its sequence | record (in each service's transaction), nightly verification | an untouched trail verifies; an altered one does not, and somebody is told |
| Projects and notices: `domain/projects.py`, `domain/notices.py`, `domain/state_machine.py` | `project`, history, approvals, `notice`, renditions, `notice_purpose` | create, edit, approve, publish, transition, upload of proof | what people consent to was approved, as it stands, and does not change; the history explains the state |
| One-time codes: `domain/otp.py` | Redis: digest and counter per code | issue, verify, discard, expiry | limited guesses, single use |
| Sessions and sign-in: `domain/auth.py`, `domain/sessions.py`, `api/routers/auth.py` | Redis: a hash per token, an index per account | sign in by password, by a code, by a link's code; step up, load, slide, list, revoke | a password alone opens nothing that needs a second factor; an ended session stays ended; a revocation finds every session |
| Accounts: `api/routers/users.py`, `domain/auth.py` | `auth_user` | create, deactivate, reactivate, change role, reset MFA, force logout, change and reset the password, activation by a sign-in code | revocation reaches every session; nobody has the password of an account that was never active and of the staff |
| Imports: `domain/exchange.py` import_manifest | `import_batch`, `collection`, `data_asset`, `asset_consent` | import, row by row | re-import changes nothing; one row per subject; the report is true |
| Retention sweep: `tasks/maintenance.py`, lock in `domain/ratelimit.py` | `asset_consent.disposition`, a Redis lock | nightly sweep | what lapsed gets quarantined and stays so |
| Exports: `domain/exchange.py` generate, render | `export_log`, `export_line` | generate, download | the lines are those who consented at one moment; a download that differs shows it |
| Rate limits and lockout: `domain/ratelimit.py` | Redis counters | hit, record failure, clear, expiry | the lock comes at the threshold whatever ends or races in between |
| Registry: `api/routers/registry.py` | `purpose`, `processor`, `data_source` | create, edit a draft, activate, retire, suspend | a write allowed by an old status is one that was under way |
| Sites: `domain/projects.py` add_site, `api/routers/projects.py` | `project_site`, the site of a source | add, bind a source, deactivate | each recipient is in the notice, or somebody was warned |
| Lists: `core/pagination.py`, `db/sql.py`, sixteen list queries | none (the cursor is the client's) | insert, update and removal of rows | what stays is shown once |
| Agents, `/me`, dashboard, notifications, API shell, helpers, migrations 0003 and 0004, seed, console | single rows, or none | see `components` in `PROJECT.json` | |

The hazards found while reading, each with its line and the property that covers
it or the reason why none does, are the `hazards` of `PROJECT.json`.

## 2. The modules

| Module | Models | Proofs |
|---|---|---|
| `ConsentLedger` | capture and withdraw as transactions over the artefact table | `ConsentLedgerProofs` |
| `ConsentLink` | the public flow and all that ends a link | `ConsentLinkProofs` |
| `AuditChain` | the trigger, verification, alteration, the nightly job | `AuditChainProofs` |
| `ProjectLifecycle` | notices, approvals, publication, transitions | `ProjectLifecycleProofs` |
| `SignIn` | the codes, sessions and revocations of one account | `SignInProofs` |
| `Exchange` | imports and the retention sweep | `ExchangeProofs` |
| `Disclosure` | exports, their lines and digests, downloads | `DisclosureProofs` |
| `Registry` | purposes, processors, sources, sites, and the notices and imports that depend on them | `RegistryProofs` |
| `Accounts` | one account's status, passwords and lockout | `SignInProofs` |
| `Paging` | a walk through a list that changes | `AuditChainProofs` |

Five of them are shown to implement an abstract specification, which has no transactions, locks or
requests under way:

| Module | What is promised | Implemented by |
|---|---|---|
| `ConsentPromise` | one answer per person and notice, narrowed or replaced as it stands | `ConsentLedger` |
| `LinkPromise` | admission one at a time up to the cap, only while the link stands; it never stands again | `ConsentLink` |
| `TrailPromise` | a trail that grows by whole changes, each row recording the one with the largest id before it | `AuditChain` |
| `NoticePromise` | publication at one stroke, complete and approved; the edges of a project's life | `ProjectLifecycle` |
| `ImportPromise` | batches that add covered subjects at one stroke; only what lapsed is held back, for good | `Exchange` |

In each of the five, `Promise` is the instance with its refinement mapping and `KeepsPromise`
the property.

`MC*` modules give TLC its constants. A definition named as a *mutant* is the form
a plausible bug would give the definition after it; it is used by nothing.

How they fit together: a module leaves out what another one owns and keeps the
weakest assumption about it. `ConsentLedger` lets a capture happen or not at any
time, which covers every answer `ConsentLink` may give about the link.
`ConsentLink` records that somebody consented and leaves supersession to the
ledger. A link is minted for a published notice, and `ProjectLifecycle` shows that
a published notice can only become superseded, by a later one of the project's own or by another project's. `Exchange` takes consents as they come
from the ledger: absent, current, superseded. All of them write audit rows; the
row joins the chain inside the transaction it belongs to, which is what
`AuditChain` has for its writers. `Disclosure` takes the current artefact of each person
as given, in any order the ledger allows. `Registry` has of a notice only whether it is
published and whether another project superseded it, `ProjectLifecycle` the rest; `Accounts` has the password that
`SignIn` finds right or wrong, `SignIn` the codes that `Accounts` takes to be right.

### ConsentLedger

One row of the table is an artefact with its grants (they commit together).
Each handler goes through `CaptureStart` (the clock is read, `consent.py:323`),
`CaptureRead` (the predecessor is read, without a lock), `Insert` (which waits while
another uncommitted row supersedes the same artefact, as the partial unique index
`uq_artefact_supersedes_once` makes it) and `Commit`; `WithdrawRead` reads the
artefact to withdraw from and its grants. A duplicate that has committed ends the
request with a conflict; `Rollback` is any other failure. Ids come from a serial and are
burned by rollbacks. `lastAct` is a history variable: what each person did last,
in commit order.

`ConsentPromise` has neither transactions nor races: an answer stands, a new one
replaces it, a withdrawal narrows the one that stands *when it is recorded*.
`KeepsPromise` says that the ledger, read through `v_current_consent`, implements
this as long as the view shows one answer for each person and notice, which two first captures
at once break (`one_current`). The instance of `ledger` has a person without a first answer too;
its ids are used up before anything can be withdrawn from such a pair of answers.

### ConsentLink

A request carries the link it resolved and when. Registration goes through
`Consume` (the locking `increment_use`), `CreateUser` and its commit; a code lives in
Redis outside the transaction; verification reads it and deletes it by another command
(two requests may find the same code), then commits the account, then creates the session. `Revoke`, the sweep, the end of the site and the close of
the project are single UPDATEs that wait for row locks. Where a request waits
the statement or lock timeout may end it (`Abort`).

In `LinkPromise` a person is admitted at the commit of her registration and at no other moment,
although the use was counted by an earlier statement and the link resolved before that. A consent
may be given on a link that has ended since she opened it; the code allows that too.

### AuditChain

`Draw` (nextval), `Insert` (advisory lock, the visible row with the largest id as
predecessor) and commit or rollback are separate, because PostgreSQL evaluates the
default of `log_id` before the trigger takes the lock. `Alter` stands for somebody
with the owner's rights editing a row, with or without recomputing its hash.
Verification (`Intact`) walks by `log_id`, as the SQL function does, and trusts the first
row. A hash is represented by the row it was computed from: hashes are assumed not to
collide.

`TrailPromise` sees committed rows only. A commit is one change: its rows in the order of their
ids, the first recording the committed row with the largest id. It does not promise that a later change has larger
ids, which is the reason for `audit_race`.

### ProjectLifecycle

Edits and publication lock the notice before they look; a transition locks the
project. Approvals of a language do not lock. Publication reads the versions it
will supersede without a lock and writes at its end; a transition to
`under_process` publishes inside its own transaction. The machine's edges and guards
are those of `state_machine.py`; who may take them is the caller's role and is
left out.

A notice code belongs to no project. `publish` supersedes every published version of the code
(`notices.py:452-454`), whoever's it is, and sets the current notice of its own project only.
`PublishElsewhere` is such a publication by another project, at any moment, between the
requests of this one; `displaced` records which of this project's notices it superseded. The versions
other projects took are the gaps that `Create` may leave. `OnlyOthersDisplace` is what remains
of "the current notice is published": where it is not, another project's publication is the reason, and no
race among this project's own requests.

In `NoticePromise` all of a publication happens at its commit, the move out of draft included; `Displace` is
another project's. People are covered (`Covered`) by a published notice, or by one that was displaced.
An approval is a set of languages there and a text that was signed here. `NoticePromise` lets a publication
miss versions it should replace, since two of one code at once miss each other (section 6).

### SignIn

One account, whose role is any, and the three ways it has to a session:

- the password (`Login`, staff only), which gives a partial session where the role needs a second factor,
  completed by the code of the scope `staff_mfa` (`Verify`, `Find`, `Promote`);
- a sign-in code (`AskCode`, `VerifyLogin`), where neither `request_subject_otp` nor
  `verify_subject_otp` asks for a role: a full session for staff too;
- the code of a consent link (`VerifyContact`, `Resolve`), which does not ask either.

The last two activate a pending account (`Admit`), the sign-in code after it created the
session and before it commits, the link's before. Each Redis command or MULTI block is a step:
`IssueCode` and `CreateSession`; `Compare`, `Consume` or `Count` and `Discard`; `Load` and `Slide` read and
write a session's hash; `List` and `Prune` read the index and take stale members from it; `Members` and
`RevokeAll` are the two halves of a revocation. Redis may drop a code or a session at any time, and the
index once its own lifetime is over. A write to a hash that is gone creates one without its other fields;
`load` does not accept it (`Broken`). What a session's history says (`factor`, `stray`, `renewed`) is what
the properties are about: which code completed it, whether it was created inside a revocation, and
whether it was promoted when it was full already, which any session may ask for
(`/auth/mfa/resend`, `/auth/mfa/verify`) and which begins its lifetime anew.

### Exchange

An import walks its manifest statement by statement: `UpsertCollection`,
`UpsertAsset`, `LinkSubject`, then `Finish` or `Abort`. An upsert takes the row and
keeps it: `Stored`, `Put`, `Seen`, `Kept` and `Dropped` say what the holder and the others
see. The sweep takes its Redis lock, selects at most `Limit` items in no order, applies them and
releases; it may be killed, and its lock may expire under it. What is due for erasure is only
recorded: it stays active and is selected again (`EraseDue`).

`ImportPromise` has a batch's subjects appear when it commits, each covered by a consent to the
batch's project or a bystander, and each quarantine when the sweep applies what it chose. What
it chose may be stale by then, as `v_current_consent` moves on: the promise is that the
consent had lapsed, not that it is still the current one.

### Disclosure

`Generate` starts a transaction; a consented list is one query (`RenderList`), a pack two
(`RenderNotice`, `RenderLinks`), each seeing what is committed at that moment; `Store` writes
the record and its lines and commits. `Download` renders again and `Answer` compares the
digests, which only raises a flag in the answer's headers. Rows are ordered by name, and rows of equal names in
any order, as `ORDER BY` leaves them. `during` is a history variable: the consents at each
moment of the transaction.

### Registry

`Edit`, `Activate`, `Retire`, `Attach`, `Publish`, `Import` and `CheckSite` read what they depend
on; the matching `Save...` writes later. `InsertSite` reads whether the project's current notice is published
while the site's row is not yet committed; it is not after another project's publication of the same
code (`PublishElsewhere`, `displaced`). The two reads of `CheckSite` are one step. `late`
counts the writes that a row got after its status forbade them; `crossed` marks a site that
was being added while a notice was being published, or while the last one was displaced.

### Accounts

A password goes through `CheckLock`, `Match` or `Mismatch`, then `CountFailure` (INCR and EXPIRE)
and `SetLock` (SETEX), or `Clear` and perhaps `Rehash`. Any request may end between two steps
(`Abort`). Counters, locks, codes and the entries of a quota's window expire at any time.
The account is of the staff or a data subject's at any moment: `ChangeKind` is a change of role, which
keeps the password. A code to sign in is right for either kind and activates a pending account (`VerifyCode`,
`Activate`); a code to set a password is sent to active staff only, but used without another look at the role.
`served` is history: that the account was once active and of the staff.
`answered` counts the refusals a client saw since Redis last let go of a key.

### Paging

The reader takes page after page (`NextPage`), the writers insert, update and remove rows
between two pages. A list is given by what becomes of the columns it may be sorted by
(`Users`, `Projects`, ...): fixed, changing, unset until an update, or not among the columns
returned. A cursor is the value and key of the last row, NULL comparing as unknown, and the text
"None" where the row showed no value.

## 3. The runs

States are distinct states; a run by itself takes about three minutes at most with two workers.

| Run | Instance | States | Shows |
|---|---|---|---|
| `ledger` | 2 people, one of whom answered before, 1 notice, 2 handlers, 3 ids, 2 clock readings | 0.19 M | no fork, withdrawals narrow, the last act and Export B agree, the inductive invariant of the proofs, the refinement of `ConsentPromise`, every request ends |
| `link` | 2 people, 1 link (cap 1 or none), 2 sites, 2 handlers, 2 clock readings | 0.28 M | exact count, only confirmed people, no resurrection, the refinement of `LinkPromise` |
| `audit` | 3 writers, 4 ids | 49 k | the chain and its verification, the refinement of `TrailPromise` |
| `lifecycle` | 3 notices of one code, 3 versions, 1 language, 2 texts, 1 purpose, 5 history rows, 2 handlers, another project with the code | 1.5 M | approved and frozen text, history and status, only other projects displace the current notice, the refinement of `NoticePromise` |
| `signin` | 2 tokens, 2 codes, 3 of both together, 2 attempts, 2 and 1 guesses, two staff roles, with and without MFA, 2 handlers | 4.9 M | no session of an MFA role by a password alone, guesses, ended sessions, each live session in the index but for the two named cases |
| `exchange` | 2 files of 2 rows, 2 assets, 2 collections, 2 projects, 1 consent to be quarantined and erased, 2 importers, 1 sweeper, limit 2 | 0.39 M | one row per subject, true reports, quarantine for good and in the end, the refinement of `ImportPromise` |
| `disclosure` | 2 people, 2 names, 1 link, 1 export, 2 versions of a notice, 2 acts, 2 handlers | 1.2 M | the lines are one moment's, a download with the same digest shows exactly them |
| `registry` | 1 purpose, 2 versions of a notice, 1 processor, 1 source, 2 sites, 2 handlers, another project with the code | 4.0 M | stale checks run out, each site is named or flagged, but for the two named cases |
| `accounts` | 1 login name, 2 passwords, threshold 3, quota 1, both kinds, 3 handlers | 0.39 M | failures within the threshold plus the attempts under way, also when a process ends in between; no password before the account was active and of the staff |
| `paging` | 3 rows, 2 values, pages of 1 and 2 rows | 0.2 M | a walk is complete and repeats nothing |
| `one_current` | as `ledger`, 1 person | | violated: two first captures |
| `audit_race` | 2 writers, 3 ids | | violated: two untouched rows do not verify |

### Why the bounds are enough

- *Two handlers* race in every way two requests can; handlers hold no more than one
  transaction. Three appear in `audit`, where a third row may come between
  two that were drawn out of order, and in `accounts`, where the bound that is checked
  grows with their number.
- *Three ids* in the ledger let a first answer be followed by a race of two (or
  a race of two firsts be followed by a withdrawal). The proofs remove the bound.
- *One link* with a cap equal to one and one above the number of people covers the
  last place, the race for it, and no cap; two people race for it. Links share
  nothing but the project, whose close acts on all of them at once.
- *Three notices of one code* give a published one and a race of two to supersede it.
- *Two codes* give a reissue while a guess at the older one is on its way; the limit
  of attempts is the setting, 5 in production, 2 here, which does not change which
  requests can overlap; *two guesses* at the first code reach it, and one at the second follows the reissue. *Two tokens*
  meet in the index: one is revoked, pruned or outlives the index while the other is created. `MaxMinted` lets two
  codes come with one session and two sessions with one code; nothing relates a second session to a reissued code.
  The two roles are those that `SecondFactor` tells apart; a data subject's role has no password
  and differs in nothing else here.
- *Three versions* of a code let another project take one between two of this project's. The
  *two texts* are model values and symmetric: a text is only compared.
- The *two manifests* of `exchange` meet in one asset and disagree on its collection,
  so importers wait for each other in both orders. One sweeper: its writes are one
  idempotent statement per row, and two sweepers at once, which the lock does not quite
  exclude, repeat them. *Two assets* under a consent that asks for quarantine and erasure are four items for a
  sweep whose *limit is 2*: what is due for erasure may be all it selects, night after night.
- *One export* suffices: exports share nothing but their inputs. Two people with two
  names make every order of a list and a tie; two acts are a consent and its end, or one of each person.
- *Two versions of a notice* let a publication overlap another one and a site; *two sites*
  let a source move. With one purpose and one processor nothing is lost: no rule relates two of them.
- The *threshold* is 5 in production and 3 here: a counter that passes it, a crash at it and
  requests past the lock all occur. Names share no key, so one is enough.
- *Three rows* in pages of one and two give a page that is full, one that is not, a cursor
  between two rows, and inserts on each side of it; two values give ties and changes in both directions.
- Every bound that stops a model (`MaxId`, `MaxRow`, `MaxTime`, `MaxCodes`, `MaxVersion`, ...) is a
  guard on the action that counts, named `bound` at its declaration. `audit` ends when the
  ids are used up, so its runs do not check for deadlock. The other modules can
  always take a step: they check for it.

## 4. Fairness

`Spec` assumes nothing. `FairSpec` is used where something must happen in the end:

- an open request takes its next step or fails (`WF`): the event loop schedules
  every handler, and `statement_timeout` and `lock_timeout` bound each wait
  (`db/pool.py`). No client is assumed to ask for anything, no request to succeed.
- Redis drops the sweep's lock when it has expired (`WF`).
- the nightly verification is run (`WF`): beat is scheduled, tasks are acknowledged
  late and redelivered when a worker is lost (`tasks/app.py`).
- the retention sweep gets its steps (`SF`): a sweep may be killed any number of times,
  but not every one of them for ever at the same step.

`LapsedIsQuarantined` needs more than fairness: the sweep's query has no order, and rows that are due for erasure
match again each night (`maintenance.py:101-131`). With as many of them as the limit they may be all that
is ever selected. So the property has the condition that in the end they are fewer, `<>[](Cardinality(EraseDue) < Limit)`;
in `exchange` this may fail for any time before, or for ever, and without the condition TLC finds the starvation.

`SignIn` assumes no fairness. A session need not end: any live one may be promoted again and again. The guard of
`IndexExpires` is about time: the index lives twice `session_ttl_s` (16 h) from the last session
created, a session `mfa_ttl_s` (5 min) and then `session_ttl_s` (8 h) unless it is promoted when it is full.

## 5. What is proved

Every safety property, action property (`[][...]_vars`) and refinement that a passing run
checks is a theorem of the module's `Spec` (`AccountsSpec`, `PagingSpec`), for every value of the constants
and without the fairness of section 4. One has a hypothesis about the behaviour, `LedgerKeepsPromise` (see below).

| Module | Theorem | Statement |
|---|---|---|
| `ConsentLedgerProofs` | `ChainNeverForks` | `Spec => []NoForks` |
| | `ChainIsOnesOwn` | `Spec => []ChainStaysHome` |
| | `WithdrawalOnlyNarrows` | `Spec => []WithdrawalNarrows` |
| | `NoLostUpdate` | `Spec => []CurrentIsLastAct` |
| | `ExportIsCurrent` | `Spec => []ExportFollowsLastAct` |
| | `LedgerKeepsPromise` | `Spec /\ []OneCurrent => KeepsPromise` |
| | `OnlyFirstAnswersCollide` | `Answered = Pairs` gives `Spec => []OneCurrent` |
| `ConsentLinkProofs` | `CapIsKept` | `Spec => []UsesCountRegistrants` |
| | `ConsentIsVerified` | `Spec => []OnlyVerifiedConsent` |
| | `DeadLinksStayDead` | `Spec => DeadStaysDead` |
| | `LinksKeepPromise` | `Spec => KeepsPromise` |
| `AuditChainProofs` | `OrderedTrailIsIntact` | `Spec => []OrderedTrailVerifies` |
| | `AlterationShows` | `Spec => []DetectsAlteration` |
| | `TrailKeepsPromise` | `Spec => KeepsPromise` |
| | `WalkCompletes` | `PagingSpec => []WalkIsComplete` |
| `ProjectLifecycleProofs` | `HistoryIsAChain` | `Spec => []HistoryExplains` |
| | `PublishedWasApproved` | `Spec => []PublishedIsSignedOff` |
| | `CurrentNoticeIsPublished` | `Spec => []OnlyOthersDisplace` |
| | `PublishedStaysFrozen` | `Spec => FrozenOncePublished` |
| | `NoticesKeepPromise` | `Spec => KeepsPromise` |
| `SignInProofs` | `NoFullSessionWithoutCode` | `Spec => []SecondFactor` |
| | `AnsweredGuessesCount` | `Spec => []GuessesCounted` |
| | `EndedForGood` | `Spec => EndedStaysEnded` |
| | `LiveSessionsAreIndexed` | `Spec => []LiveIsIndexed` |
| | `AccountsTypeCorrect` | `AccountsSpec => []AccountsTypeOK` |
| | `LockoutHolds` | `AccountsSpec => []LockoutCounts` |
| `ExchangeProofs` | `NoSubjectTwice` | `Spec => []OneRowPerSubject` |
| | `BatchesTellTheTruth` | `Spec => []ReportsAreTrue` |
| | `QuarantineIsFinal` | `Spec => QuarantineSticks` |
| | `ImportsKeepPromise` | `Spec => KeepsPromise` |
| `DisclosureProofs` | `LinesAreOneMoment` | `Spec => []RecordIsOneMoment` |
| | `DifferentPeopleDiffer` | `Spec => []DriftShows` |
| `RegistryProofs` | `StaleWritesAreBounded` | `Spec => []StaleChecksRunOut` |
| | `RecipientsAreKnown` | `Spec => []NamedOrFlagged` |

Each of these modules also has `Invariance` (`Spec => []IndInv`) and `TypeCorrect`
(`Spec => []TypeOK`; `PagingTypeCorrect` for `Paging`). `AccountsTypeOK` says of accounts that were never active and
of the staff that nobody has their password, which is why it is in the table. The type invariants
of `ConsentLink`, `ProjectLifecycle`, `SignIn` and `Exchange` say nothing beyond types and are left to these
theorems; the other runs check theirs, the ledger's as part of `IndInv`. The proof modules are laid out
alike: the inductive invariant, one lemma per action or group of actions that disturbs it, the theorems,
and then the refinement with what it needs besides. `SignInProofs` is about the whole of signing in, the
password (`Accounts`) and the session (`SignIn`); `AuditChainProofs` about how the trail is written and how
it is read, as every list is, page by page (`Paging`).

### Assumptions

Each proof uses the `ASSUME` of the module it is about and nothing else: bounds are numbers; a
value that stands for none (`NoLink`, `NoNotice`, `Nobody`, `None`) is no link, notice, importer,
purpose, processor or source, and `NoText` no text; the roles with a password and those with a second
factor are roles; the three tables of the registry have different keys, which
`late` is indexed by; the mandatory purposes of a notice are among its purposes; the answers
given before the behaviour have distinct ids; the lockout's threshold, page sizes and quotas are
positive; `Workers` (in the registry), `Handlers` (in `Accounts`) and `People` (in an export) are
finite. TLC evaluates them on each run.

`LedgerKeepsPromise` has a hypothesis about the behaviour, and needs it: where two first captures
of one person meet, the view shows two answers (`one_current`) and a withdrawal from one of them is no
step of `ConsentPromise`. `OnlyFirstAnswersCollide` says that this is the only way: with a first
answer of everybody recorded, the hypothesis is a fact.

### The inductive invariants

None of the safety properties is inductive, except where said: whether a step keeps one depends on what a
request has read or written and not committed.

**The ledger.** `IndInv` adds

- `SeenOK`: what a handler read about its predecessor stays true, because artefacts
  are never updated; a withdrawal's grants are a subset of it;
- `InsertedOK`: an inserted row is the handler's own, names what it read, and nothing
  committed supersedes that;
- `Exclusive`: two inserted rows never name the same predecessor, which is what the
  unique index gives, *except* when there is none;
- `ChainInv`: every history has a first answer, and `lastAct` is among what the view
  shows.

An insert establishes `Exclusive` by its wait, a commit uses it: it replaces the one
current artefact of one chain. Two roots (two first captures at once) are possible, so
`CurrentIsLastAct` and `ExportFollowsLastAct` speak of unforked chains, those with
one root. The refinement maps a commit to an act on the answer that stands and every other step to a
stutter: with one current artefact the predecessor a withdrawal read is `lastAct`
(`CurrentIsLast`), so what it copied is what it narrows.

**Links.** `uses[l]` counts the people whose `via` is `l` (`CountsOK`). Between `Consume` and the
commit of a registration, the row lock keeps the place below the cap and the insert keeps the
email: `RequestOK` says so of one request, `Apart` of two. That `OnlyVerifiedConsent` holds
needs that a confirmed account stays confirmed under every request that saw it so. `DeadStaysDead`
follows step by step: a request changes a link it holds only as `RequestOK` allows. The refinement
needs `LinksHeld` besides: what ends a link waits for its row, so a link whose place is being taken
stands until the commit, where `LinkPromise` admits the person. `HeadCount` is why there is room: the
counter is the number of those admitted.

**The trail.** `Trail` says of a set of rows that each predecessor is in it (`Closed`), that the
predecessors form no circle (`Founded`), and that if all of them have smaller ids they are the next
smaller ones (`InOrder`). The invariant has it for the committed rows and for what each transaction sees.
`LockIsExclusive` makes the two agree but for the one transaction that holds the lock. `AlterationShows`
needs `Founded`: in a trail that verifies, a row that recorded an old hash can only be the one with the
smallest id, whose predecessor is not checked; but then each row has a predecessor in the trail, and following
them is a circle. For the refinement, `OwnOrdered` says that the rows of an open transaction follow one
another in the order of their ids, and the first of them the newest committed row: it stays the newest, since
whoever else would commit needs the lock.

**Lifecycle.** `Facts` is what a request found under its lock (a draft, a publishable notice,
the status it is leaving, versions that were published), `Apart` that a notice being edited or
published belongs to one request. `SignedOK` keeps an approval to the text as it is:
an approval that takes no lock may come late, but not for another text. For the refinement
`MovesAllowed` carries the tests of the edge and of the proof from the start of a transition to its
commit: the project is locked meanwhile, and proof is never taken back. Another project's publication
(`PublishElsewhere`) disturbs no request: it supersedes published versions, and a request holds drafts,
or has listed versions that were published once.

**Sign-in.** `GuessesOK` counts: what was missed at a code is what is on its counter plus the requests between
the comparison and the increment. `SecondFactor` is inductive given the shapes of the requests: a request that is to create a session has the
scope of a code, or the role it read with the password. `EndedStaysEnded`
holds since a write to a hash that is gone sets only some of its fields. For `LiveIsIndexed`, `SweepsOK`
says that a listing takes from the index only what has ended, and that a revocation between its two commands has
read every live session that is not marked as one of the two exceptions, so that it deletes them with the index.

**Imports.** `HoldsOK` is the argument of the whole module: an importer at `LinkSubject` holds the
asset's row, and what it is to insert is not there. So it is not there when it commits.
`IngestedOK` ties its report to what is recorded already or comes with its own commit. `CoverInv` says
for the refinement that what an import accepted is covered and what a sweep chose has lapsed;
both stay so, because consents and lapses are never taken back.

**Exports.** The consents of now are among `during` of each export under way
(`RequestOK`), since whatever changes them adds to it. A list is read in one query, so what it shows is one of
them; `ExportOK` carries that to the stored lines.

**Registry.** `LateOK`: nothing is late before a row is settled, and what is late plus the
requests that may still write it is at most the number of handlers, since a settled row lets no new
request begin. `Crossing` says of a site that is inserted, or a publication that has
read its recipients, what `NamedOrFlagged` will need when it commits, also if the notice is displaced before.

**Accounts.** `LockoutCounts` bounds the wrong passwords that are answered by the threshold and the
number of handlers. Before the lock every answer is on the counter (`NameOK`); behind it only the
passwords are answered that were being tried when it was set (`Tries`), so the sum of the two does not
grow, since no request passes a lock that is set. When it is set the answers are still below the threshold
and each handler tries one password at most. `AccountsTypeOK` needs `ServedOK` besides: an account
that is active and of the staff is `served`, as is one a request has read so.

**Lists.** `WalkOK` is about a row whose value nobody changes while a walk goes on: it was shown once and
is not beyond the cursor, or not yet shown and beyond it if it was there from the start. That the first rows
of what is beyond the cursor exist at all (`PageOfSize`) is shown from a least size without them
(`LeastNat`): the next row is the first of those left (`LexEnds`).

### Only model-checked

- Liveness: `EveryRequestEnds`, `BreakIsFound`, `LapsedIsQuarantined`. The prover
  has no rule for fairness and `ENABLED`.
- The inductive invariants but the ledger's, and what the refinements add to them, are not listed in a run: they are
  theorems, and TLC agreed with each of them on the instance of its component's run. (The lifecycle's says that some number bounds
  the versions; TLC needs a set to look for it in.)

## 6. Where the code and its documentation disagree

Two runs show a statement of the repository that the code does not keep; the quotes
and lines are in `findings`.

1. `one_current`: two first captures of one person for one notice both commit, and
   the view returns two "live artefacts". The unique index ignores a NULL predecessor.
2. `audit_race`: ids drawn in one order and chained in the other make verification
   report a break nobody caused; it never heals.

Seen while reading, consistent with the models, without a run:

- Export B lists only artefacts that are not withdrawals
  (`db/repositories/exchange.py:171`), so a person who withdrew one purpose of several is
  dropped altogether.
- With `max_uses` reached, the link stops resolving for the person who took the last place
  before the contact is confirmed (`consent.py:121`).
- Two drafts of one code published at once stay both published: each looks for versions to
  supersede before the other commits (`notices.py:452`).
- A consented subject ingested after a bystander of the same asset clears the flag that is
  to keep the asset from release (`exchange.py:498`).
- A capture that resolved its link before the project closed commits afterwards
  (`consent.py:316`, `projects.py:231`).
- A bare publication locks the notice and then the project, a transition the other way
  round (`notices.py:466`): the server ends the deadlock by aborting one.
- An upload of proof reads the project's status without a lock (`projects.py:276`) and may
  land after the project went back to draft.
- A sign-in that read the account before it was deactivated creates its session after
  the revocation (`users.py:247`, `sessions.py:268-275`); the session is in the index, and no promotion
  looks at the account's status, so it may go on as long as it is promoted again.
- The audit rows of a failed sign-in, a lockout, a failed second factor and an unparseable manifest are
  rolled back by the exception that reports them.
- Two projects may name the same `notice_code`; publishing one supersedes the other's and leaves that project
  with a superseded notice (`notices.py:124`, `notices.py:452`). `OnlyOthersDisplace` says that nothing else does.
- A sign-in code is verified by GET and DEL (`otp.py:82`, `otp.py:88-91`), so two requests may use one;
  `otp.py:13-14` calls consumption atomic.
- `api/routers/auth.py:3-5` says that staff sign-in is two-step where MFA applies; `/auth/otp/verify`
  (`domain/auth.py:243-265`), like the code of a consent link (`api/routers/public.py:158-165`), gives
  a full session with `mfa_verified` set to whatever account the contact belongs to. `SecondFactor` says what is left:
  a password alone does not.
- `sessions.py:13-14` says that a session dies at a fixed age; `promote` (`sessions.py:190-201`) gives a full
  session another eight hours, as often as it asks for them. `LiveIsIndexed` has such sessions as an exception.
- A session that has only the password is sent the second factor's code again, and one that is full as well
  (`api/routers/auth.py`, `/auth/mfa/resend`).
- A pending staff account is activated by a sign-in code of its own (`auth.py:253`) and may then set
  its password by a reset, with no administrator. A change of role keeps the password
  (`users.py:204-226`); it works again when the role is changed back.
- Two bystanders of one asset cannot both be recorded: the key of
  the look before the insert is (asset, NULL).
- A refused row keeps its collection, under the project of the refused import.
- The same file imported twice at once gives two accepted batches (and no more data).
- The retention sweep reads `v_current_consent`: assets of a consent that was superseded
  before it lapsed are never quarantined by it. Erase-due rows match again every
  night and are recorded each time; 5000 of them or more can keep quarantine from
  ever being selected. `LapsedIsQuarantined` has fewer of them as its condition.
- A download renders the list again: whoever consented since has no `export_line`. The
  digests differ then (`DriftShows`), but also when a name changed or people of one name
  came in another order, and always for a collection pack, which contains the time it was
  generated.
- An edit of a purpose that passed its test for draft lands after the activation
  (`registry.py:183`); `StaleChecksRunOut` bounds such writes by the requests under way. A new
  version of a purpose, which the refusal recommends, cannot be created: `purpose_code` is unique.
- A purpose attached as active can be retired before the notice is published
  (`registry.py:215-241` looks at published notices, publication not at the purposes' status).
- A source may be created for a processor and a site that do not belong together
  (`registry.py:466-484`), which `add_site` refuses.
- A site added while a notice is being published, or after another project's publication
  superseded the project's notice, is neither in its recipients nor flagged
  (`projects.py:379`); `NamedOrFlagged` says that these are the only cases.
- The lockout is keyed on the name that was typed, not on the account (`ratelimit.py:96`,
  `auth.py:45`): an account with two names has two counters.
- A sign-in that renews an old hash writes the password it checked, although another one
  was set meanwhile (`auth.py:105`); a data subject's code reactivates an account that was
  deactivated after it was read as pending (`auth.py:253`); a password can be reset with a code
  asked for before a deactivation.
- A staff account is created to be "activated through the reset flow" (`users.py:138`), but
  a reset is refused unless the account is active already (`auth.py:326`). Verifying a contact
  under `/me` always fails: no code of that kind is issued.
- Rows without a `published_at` are lost from the second page on in ascending order, and in
  descending order the cursor says "None", which fails in the query; so does the second page
  of all consents by `created_at`, which the query does not return.

## 7. Not modelled

Real time and the exact lengths of lifetimes; the contents of texts, names and
messages; digests; who may call what (`core/permissions.py` is a table); the predicates and
totals of lists; dashboards (they read); delivery of notifications; the console. What
each module leaves out of its component is in the module's header and in the `note` of the component
in `PROJECT.json`.

## 8. Plan

Done: every model of the tables in section 2 and its runs; the proofs of section 5, which cover each
safety and action property and each refinement.

Left, in this order:

1. A model of the trail's advisory lock together with the row locks of notices, projects and
   links, where a cycle ends by a timeout.
2. An abstract specification of a session (none without its factors, none after its end), which
   `SignIn` and `Accounts` together would implement; they share the account's status, which each
   has for itself now.
