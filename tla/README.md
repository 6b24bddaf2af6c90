# OCM, specified in TLA+

OCM is a console for the clients of an existing OpenVPN server. A NestJS API
(`apps/api`) keeps a SQLite table of credentials and drives easy-rsa to issue
and revoke certificates; a React console (`apps/web`) calls the API; a command
line tool (`apps/cli`, `ocm-admin`) opens the same database from a process of
its own. This directory models the parts of it where steps of several actors
can meet: the queue of PKI operations, the life of a credential, the freshness
of the CRL, the administrator accounts with their lockout, `ocm-admin` with its prompts and
the adoption of clients that existed before OCM, the migrations of the database,
and the session and the two pages of the console.

Paths below are relative to `apps/api/src` unless they begin with `apps/` or `installer/`.

## 1. The system

| Component | State | Operations | Modelled by |
|---|---|---|---|
| PKI queue, `vpn/easyrsa.service.ts` | `queue`, a promise chain in memory | `serialize` | `SerialQueue`, `PromiseQueue` |
| PKI directory (easy-rsa, openssl, external) | `ca.crt`, `issued/`, `private/`, `crl.pem` and its mode | build-client-full, revoke, gen-crl, `openssl pkey`, chmod | `Pki` |
| Credentials, `vpn/vpn.{controller,service,repository}.ts` | table `vpn_credentials` | create, renew, revoke, downloadProfile, list | `Credentials`, `CredentialLedger` |
| CRL refresh, `vpn/crl-refresh.service.ts` | none; a cron and a boot hook | `regenerateCrl` | `Credentials` (order), `CrlFreshness` (time) |
| Accounts, `admins/*.ts` | table `admin_users` | create, createFirstAdmin, changePassword, delete, list | `Accounts` |
| Login, `auth/*.ts`, `common/guards` | attempts per username in memory; JWTs at the clients | login, guard, lockout | `LoginThrottle`, `Accounts` |
| `ocm-admin`, `apps/cli/src/main.ts` | none of its own; the same two tables | create, reset-password, delete, list | `Accounts` |
| Its prompts, `apps/cli/src/main.ts` | lines and keys read so far | `readNewPassword` from a pipe and from a terminal | `PasswordPrompt`, `OcmAdmin` |
| `ocm-admin import-clients`, `apps/cli/src/{main,pki}.ts` | none; reads `index.txt`, inserts rows | the import and its preview | `ImportClients`, `OcmAdmin` |
| Schema, `database/{schema,database,migrate}.ts`, run by systemd, the package and the API | tables, columns, indexes | `applySchema`, start, upgrade | `Schema` |
| Console session, `apps/web/src/{auth,lib}`, `App.tsx`, login and setup pages | token in localStorage; user, loading, needsSetup | restore, login, setup, logout, reload, 401 | `WebSession` |
| Credentials page, `apps/web/src/pages/CredentialsPage.tsx` | page, items, total, loading | load, previous, next, create, renew, revoke | `CredentialsPage`, `Console` |
| Administrators page, `apps/web/src/pages/AdminsPage.tsx` | the list | load, create, delete | `AdminsPage`, `Console` |
| Password dialog, `apps/web/src/components/ChangePasswordDialog.tsx` | open, submitting, done | open, submit, close | `AdminsPage`, `Console` |
| Configuration, HTTP shell, hashing | - | validation at boot, headers | not modelled |
| Installer, Debian package, Docker, end-to-end tests | - | shell scripts | not modelled, but for the upgrade in `Schema` |

How they interact. A handler of the API runs to its first `await` without
anything else of the process in between. `create`, `renew`, `revoke` and
`downloadProfile` check the table, then wait for their operation in the PKI
queue, and touch the table again when it settles: what they checked may be
stale by then. The refresh of the CRL uses the same queue, so a request waits
for it and it for requests. Commands can fail, be killed after 120 s with or
without their work done, and the process can die between any two of them; the
table and the PKI are on disk and nothing makes them agree but the order of
the steps. The OpenVPN server reads the CRL on every connection; a CRL that is
expired or that it cannot read makes it refuse everybody. Handlers of the
account part are cut at scrypt, which runs on a thread pool. `ocm-admin` shares
nothing with the API but the files, and does not use transactions. The schema is
migrated before the API starts, by the API when it boots, and by the package,
which stops the unit before (`prerm`) and starts it after (`postinst`); each
statement is committed on its own. The console
is a client of the API: its requests overlap, their answers come in any order,
and each changes the state of the page or of the session as it is by then.

What makes each part correct:

- queue: operations never overlap, run in the order submitted, and a failing
  one does not stop the next;
- credentials: what the table claims of a certificate (revoked, with a
  passphrase, current) is true of the PKI, whatever fails; a certificate that
  is blocked never works again; a name always keeps a credential through a
  renewal; no working certificate escapes the table unless something failed;
- CRL: readable while the API serves, complete once crashes stop, never expired;
- accounts: unique usernames, deleted for good, the last one lost to nothing but
  two deletions that overlap, a lockout that overlapping logins can exceed only
  by their own number;
- import: every client listed once, nothing overwritten, an honest preview;
- prompts: a password that is set was given twice, whatever comes early;
- schema: the API serves on a complete one, whatever was cut short before, it
  comes to serve if nothing has left its unit stopped, and no migration loses a
  name;
- console: the user shown is the one the requests are made for, the load that
  follows a revocation or a deletion shows it, and "done" is only said to whom
  it was done for.

The hazards behind these are listed at their lines in `PROJECT.json`.

## 2. Modules

    SerialQueue                       what serialize promises: FIFO, one at a time
      ^ refines
    PromiseQueue                      the promise chain that implements it
      + PromiseQueueProofs
    Pki                               the files, and what the commands do to them
      ^ extends
    Credentials                       handlers, queue, failures, crashes
      + CredentialsInv                the inductive invariant, by parts, and what
                                      runs with fewer failures keep besides
      + CredentialsProofs             the invariants
      + CredentialsRefinement         refines CredentialLedger
      + MCCredentials                 instances for TLC
    CredentialLedger                  what the console promises about credentials
    CrlFreshness + CrlFreshnessProofs the CRL in days
    LoginThrottle <- Accounts         lockout; accounts, API and ocm-admin
      + AccountsProofs
      + MCAccounts                    instance for TLC
    Schema + SchemaProofs             migrations, upgrades and boots
    ImportClients                     the import beside the API and the CA
    PasswordPrompt                    a password from a pipe or a terminal
    OcmAdmin                          the process of ocm-admin: the two above
      + OcmAdminProofs
    WebSession                        the session of one tab, and its server
      <- CredentialsPage              with the page of credentials
      <- AdminsPage                   with the page of accounts and the dialog
    Console                           the two together
      + ConsoleProofs
      + MCConsole                     symmetry for TLC

Definitions keep the names of the source; `PROJECT.json` maps each to its
lines. A definition introduced as "a slip" is a plausible bug in the operation
that follows it, kept to show that some property notices it; no specification
uses one.

**PromiseQueue.** `serialize` chains `queue.then(task, task)` and stores a
promise that swallows the outcome. The module models the links, the two
microtask steps between a task's end and the next one's start, and both
outcomes. `SerialQueue` is a sequence of pending tasks. The refinement allows
the other modules to treat the queue as a sequence.

**Credentials.** A slot of `Req` holds one request, `Cron` the refresh.
`task[s].pc` is where its handler is, `ahead[s]` the operations it still waits
for, so an operation runs when `ahead[s] = {}`. `row` is the table, keyed by
Common Name: `common_name` is UNIQUE, is never updated, and no row is deleted, so it
stands for the id. Each action is the code between two awaits:

- `Create`, `Renew`, `Revoke`, `DownloadProfile`: the checks of the handler and
  the submission to the queue;
- `Build`, `EncryptPrivateKey`, `RevokeStep`, `GenCrlStep`,
  `EnsureCrlReadable`: one external command each, with its failures;
- `Store`, `ReadProfile`, `MarkRevoked`: the end of the operation together with
  the code of the handler behind its `await`. They are one action because that
  code runs as a microtask, before any effect outside the process of the next
  operation in the queue;
- `Supersede`: the second statement of `renew`. It is a step of its own because
  the process can die or the statement fail before it; `Uninterrupted` keeps
  other handlers of the same process out, since there is no await in between;
- `Boot` (the refresh is awaited before the API listens), `RefreshCrl`, `Crash`.

`Faults` names what may go wrong: `"pki"` a command fails (possibly leaving a
key behind), `"late"` it is reported failed after its work was done, `"chmod"`,
`"db"` a statement fails, `"crash"`. systemd kills the whole control group, so
no command outlives the process.

**CredentialLedger.** The promise of the console: access is granted before a
credential is listed, taken away before it is shown as revoked, a credential is
replaced only by another of the same name, what is blocked stays blocked.
`Credentials` refines it with access = what the server accepts, shown = what
the table says.

**CrlFreshness.** Days and weekdays; `api` is `"due"` when a refresh has to run.
A refresh may fail, at most `MaxMisses` times in a row, and nothing retries it
before the next Sunday or boot.

**Accounts.** `slot` holds the requests that wait for scrypt, with the answer
scrypt will give, decided by the record read before. `cli` is `ocm-admin`
between its two statements. The guard, the pipes and a handler up to scrypt are
one action (the awaits in them are microtasks). `delete` has no scrypt, but its
checks, its count and its DELETE are statements of their own on a database that
`ocm-admin` uses as well: `deleting` is the deletion in flight, and
`Uninterrupted` keeps the other handlers of the process out until it has
returned. Password changes verify and hash, two
scrypts in a row on private data, and are cut once. A JWT names an account;
`token` holds the ids with one that has not expired. `KeyOf` maps usernames to
throttle keys, so that two that differ in case share a lock; when a lock runs
out is left open, any moment may be past `lockedUntil`. The count of failures
is not reset when the lock runs out but when it is set, as in the code.

**ImportClients.** `index` is `index.txt`: revoking rewrites a line in place,
issuing appends one. The import copies it once and handles one entry per step,
in two steps when it inserts. The API appears by its steps that touch the same
files; the administrator uses easy-rsa directly, and may issue a Common Name
again once it is revoked, which leaves two lines of it in the index.
`AdoptsEveryClient` says what the import does then: it adopts the older line.
A certificate is a client's, a server's, or a server's without an extended key
usage (`bareServer`), which `isClientCertificate` takes for a client's; what is
issued again may be of another kind.

**PasswordPrompt, OcmAdmin.** `readNewPassword` asks twice. From a pipe,
readline delivers lines whether or not one is awaited (`lineQueue`,
`lineWaiter`); from a terminal in raw mode `OnData` gets chunks of keys, and
what it looks for in them is what the code looks for in a string. What comes
while nobody listens stays with the kernel. `OcmAdmin` is the process: it runs one
command, the import, or the prompts of a command that sets a password; what such
a command then does to the accounts is in `Accounts`.

**Schema.** `Statements` is the order of `applySchema`, `pc[r]` the next
statement of a process that runs it: `"service"` is migrate.js of the unit
followed by the API, which runs it again at boot, `"postinst"` the package's, or
one by hand. `Init` is any earlier version of the database, or none, with the
package unpacked. A statement that names a column or a table that is not there
throws (`Prepares`) and ends the process; any process may also be cut between
two statements (`Cut`). `api` is the unit as systemd sees it: `"stopped"`
cleanly, which `prerm` does on an upgrade and which is how a new machine
begins, or `"failed"`. systemd starts it again after a failure (`Start`,
`Restart=on-failure`) and at boot if it is enabled (`Reboot`); only the end of
postinst (`RestartUnit`) or an administrator (`StartByHand`) starts one that was
stopped. `package` is how far dpkg is: after a postinst that was cut short
nothing goes on by itself.

**WebSession, CredentialsPage.** `call[w]` is the request a flow of the tab
waits for: `"restore"` (the effect of `AuthProvider`), `"sign"` (login or
setup), and the flows of the page. The server answers in one step and the tab
receives in a later one, so `token` may change in between; `by` is the token
the request was sent with, `arg` what it is about. Any request may also fail without effect, or after
its effect (`Elsewhere` makes the change and `ServeFails` loses the answer).
`request` forgets the stored token on every 401. `RequireAuth` is `LoginShown`,
`SetupShown` and `ConsoleShown`; `restoring` is `loading` of `AuthProvider`. A
tab is loaded, at first and at every `Reload`, behind `RequireAuth`, which
waits for the restore, or at `/login`, where `LoginPage` does not: `early` says
that the form may be filled in while the session is being restored, `overlap`
that somebody has. A row is
its number in the order of creation, so page p is an interval counted
from the newest (`PageIds`). A load writes into the page whatever page number
is shown by then, and the load after a change is the one of the page on which it was
clicked, as the closures of the component make it. `orphan` holds calls of a page that
is gone: they end, and their answers are dropped. Create and renew both add a
row and are one action.

**AdminsPage, Console.** The header with the password dialog lives as long as
the console is shown, the page until another one is opened. A change is followed
by a load, a failed one is not. The dialog resets its form when it is closed and
does not cancel its request; a request whose component is gone (`orphan`) changes
nothing but the token. `alive` is the table of accounts: the server's answers
are its handlers reduced to what the tab can tell apart (`Accounts` has the
rest), and others delete and create accounts too (`Elsewhere`). `Console` is
both pages on one session; a tab uses one of them (`section`).

## 3. What TLC checks

| Run | Instance | Shows |
|---|---|---|
| `queue` | 4 tasks, each may fail | `ChainLinked`, `OneAtATime`, refinement of `SerialQueue`, `ChainStaysAlive` (liveness) |
| `credentials` | 1 name, 3 certificates, 2 requests and the cron, every failure and crashes | `IInv`, `RevokedIsBlocked`, `FlagHonest`, `NameKeepsACredential`, `DownloadServesUsable`, `BlockedForever`, refinement of the ledger |
| `credentials_sound` | 2 names, 3 certificates, 2 requests, no failures | `NoOrphans`, `ActiveMeansValid`: both hold only without failures |
| `serving` | 1 name, 2 certificates, 2 requests, failing statements and crashes, fairness | `CrlReadableWhileServing`, `EveryRequestAnswered`, `CrlHeals` |
| `crl_freshness` | 22 days, 2 failures in a row, fairness | `NeverExpires`, `AgeBound`, `ExpiryHeals` |
| `accounts` | 3 ids, 2 usernames of one key, 2 requests, 2 attempts, `ocm-admin` create, reset-password and delete | `AccountsInv`, `UsernamesUnique`, `DeletedForGood`, `LockoutBound`, `LastGoesOnStaleCountOnly` |
| `import` | 3 Common Names, 3 lines of index; 2 characters, lines of 3, 3 lines | `AdminInv`, `AdoptsEveryClient`, `ReportIsHonest`, `ImportKeepsRows`, `PasswordIsTyped` |
| `console` | 2 administrators, 2 tokens, 2 rows, pages of 1 row, 2 overlapping requests of the page, loaded at the console or at `/login` | `ConsoleInv`, `UserMatchesToken`, `SeesItsRevocation`, `NeverPastTheEnd`, `SeesItsDeletion`, `DoneHonest` |
| `schema` | 2 credentials, every earlier version, upgrades, reboots, cuts anywhere, fairness | `SchemaInv`, `ServesCurrentSchema`, `NamesKept`, `EventuallyServes` |
| `name_race`, `stuck_revoke`, `tty_digit` | small | a violation each, section 5 |

Why the bounds suffice. Two requests and the cron are three parties in the
queue: one running, one behind it, one submitted in between, and every check of
a handler concerns its own credential and at most one other. Three certificates
of a name allow a renewal and the renewal of its replacement, or a renewal beside a
fresh issuance of the same name. In `accounts`, three ids let an account be
created after one was deleted while a third acts; with two requests and two
attempts a lock is set by one login while the other is being verified.
`LastGoesOnStaleCountOnly` has a deletion of the API and one of `ocm-admin`
beside each other, with every order of their statements. In `import`, three
lines hold a client, a server and one that appears while the import is under way,
or a client issued twice; three lines of input are one more than the prompts
ask for. `schema` needs two credentials, one with a name and one
without. In `console`, two tokens are an old session and a
new one, two rows on pages of one make two pages that shift when a row is
added, and two calls of the page overtake each other beside the restore and the
login; one change is under way at a time, and one login. The bounds are
`MaxIndex`, `MaxMisses`, `MaxRows`, `NoChange`, `MaxLines`, `MaxKeys`,
`AtLogin`, the `section` of `Console`, that enter ends its chunk of keys, the
`OverlapBound` of the next paragraph, and the sizes of the sets of ids, Common Names, slots, tokens
and calls.

In a tab loaded at `/login` with a token of an earlier session, somebody may
sign in while that session is being restored, and the answer to its `me` then
puts the old name beside the new token. `UserMatchesToken` and `DoneHonest` name
this history (`overlap`) as their one exception; `LoginShownEarly`, a `RequireAuth`
that does not wait, violates the first of them. No document of the repository speaks of it, so
no run does. `console` has tabs of both kinds, and every reload may be of
either (`AtLogin = {TRUE, FALSE}`). After such an overlap the run follows the
session until a page sends a request (`OverlapBound`); the proofs have no such
bound, and show what does not depend on the session (`SeesItsRevocation`,
`NeverPastTheEnd`, `SeesItsDeletion`) after an overlap as well.

Symmetry is used in `credentials` (interchangeable certificates of one name and
slots), `credentials_sound`, `accounts` and `console` only; none of their
properties is a liveness property.

Deadlock is not checked in `queue`, in the `Credentials` runs, in `console`, `import`
and `tty_digit`: a finite set of tasks or of Common Names is used up, without a CA
nothing need happen, a tab may be left alone, and a command ends.

Fairness. `LiveSpec` of `Credentials` has weak fairness of each slot's steps (a
command ends, or is killed at its timeout; a promise callback runs), of `Boot` (systemd
restarts the service after a crash, `Restart=on-failure`) and of `RefreshCrl`
(the cron). No request is ever obliged to come. `EveryRequestAnswered` allows an
answer to be lost with the process. `CrlHeals` and `ExpiryHeals` suppose that
the process stops dying at some time: without that, it could die between every
gen-crl and its chmod. `CrlFreshness` has fairness of days, of a start after a
stop, and of the end of a queued gen-crl with either outcome; `MaxMisses` is
what excludes a refresh that fails forever. `PromiseQueue` has fairness of the
steps of the event loop and of the end of a task. `LiveSpec` of `Schema` has
fairness of what happens without an administrator: systemd starts a unit that
failed, a unit whose ExecStartPre succeeded goes on, dpkg goes on to postinst and
postinst to its restart of the unit, and their statements, which wait for the
file, run. It has none of `StartByHand`, `ConfigureAgain` or `Reboot`.
`EventuallyServes` supposes that interruptions, upgrades and reboots among them,
stop at some time; and it leaves out the machine whose last upgrade was cut short
between prerm and the end of postinst, for its unit stays stopped.

## 4. What is proved

TLAPS checks the proofs for every value of the constants.

- `PromiseQueueProofs`: `ChainLinked` is inductive: links are numbered in the
  order of submission, and a task starts only when the link before its own is
  resolved. `PkiMutex` and the refinement of `SerialQueue` follow.
- `CredentialsProofs`: `IInv` is inductive, action by action. The properties
  themselves are not. `RevokedIsBlocked` needs that a revocation past gen-crl
  has its certificate in the CRL (`RevokeInv`), and that a later gen-crl, which
  lists what is revoked at that time, finds it revoked (`RowInv`). That a
  Common Name once revoked is never built again needs the order of the queue:
  an issuance of the same Common Name was submitted before the revocation
  (`BuildBeforeRevoke`), because a row makes `uniqueCommonName` avoid it, and
  `QueueInv`, `StartedInv` say that what has started is at the head.
  `NameKeepsACredential` needs `SupersedeInv`. `DownloadsServeUsable` and
  `BlockedStaysBlocked` are action properties from the same invariant.
- `CredentialsRefinement`: the initial states map to initial states of the
  ledger and every step to one of its steps or a stutter, using `IInv`.
- `CrlFreshnessProofs`: with `CrlDays > 7 * (MaxMisses + 1)` the CRL never
  expires once it has been refreshed. A failed refresh costs a week on top of
  the days since Sunday (`AgeBound`). The assumption is needed:
  the configuration accepts any `OCM_CRL_DAYS` of at least 1
  (`config/configuration.ts:100`), and with seven days or fewer the CRL expires
  before or at its weekly refresh although nothing fails, unlike "CRL never
  expires" in the README of the repository. The default of 3650 days outlasts
  520 failures in a row.

- `SchemaProofs`: `SchemaInv` is inductive. What a process has run stays in force
  whoever else migrates, since nothing is dropped (`ProgressInv`); a column is
  there before the index that names it (`LayerInv`), and after the backfill of
  the unit nothing that runs beside it stores a credential without a name
  (`NamedInv`). `ServesCurrentSchema`
  follows, and `NamesKept` as an action property.

- `CredentialsProofs`, for runs with fewer failures: the invariants of section
  3 that a failure breaks, each under the weakest hypothesis on `Faults`: with
  any other set of failures TLC finds a small counterexample. `NoOrphans` and
  `ActiveMeansValid` need `NothingFails` (only the chmod may fail): a command
  or a statement that fails, or a crash, between the certificate and its row
  leaves a certificate outside the table, and one between `easyrsa revoke` and
  `markRevoked` leaves an ACTIVE row that does not work (`stuck_revoke`).
  `ActiveInv` adds to `IInv` that such a row has its revocation under way.
  `CrlReadableWhileServing` needs `ModeIsSet`: the chmod does not fail, no
  gen-crl is reported failed after its work, and crashes and failing commands
  do not both occur, because a crash before the chmod followed by a gen-crl
  that fails at boot leaves an unreadable CRL until the next refresh.
  `ReadableOrSoon`: an unreadable CRL has its chmod at the head of the queue,
  or the API is not up.
- `AccountsProofs`: `AccountsInv` is inductive. A table with unique
  usernames keeps them under every insert, deletion and change of a hash, and
  the insert checks for itself, so it does not matter how old the check of the
  handler is. What scrypt is verifying is about an account that was there: the
  history `gone` shows it cannot come back. For `LockoutBound`, the key of an
  unlocked username counts every failure since the last reset, and a locked one
  takes no new login: failures and logins in flight that will fail together stay
  within `MaxAttempts + Cardinality(Req) - 1`. `LastGoesOnStaleCountOnly`
  follows from unique usernames and from what a deletion knows between its
  statements: it goes on only if it counted two accounts (`CountInv`),
  so if it removes the last one, another deletion came in between.
- `OcmAdminProofs`: `AdminInv` has a part for the import and a part for the
  prompts. Of the import: a line of the index is rewritten but never lost, so
  every client found unlisted is listed or still ahead (`AdoptsEveryClient`), and
  the number reported counts the lines handled so far that were not listed
  when nobody interferes (`ReportIsHonest`). The set of Common Names may be
  infinite; what is due is finite because the index is a sequence. Of the prompts: from a
  pipe, the answers given followed by the lines queued are the lines delivered,
  in order; from a terminal, the value collected is what was typed since
  the prompt. `PasswordIsTyped` follows for both.
- `ConsoleProofs`: `ConsoleInv` is inductive. Every flow sends its own
  requests and the owner of a token never changes (`CallsInv`, `AnswerInv`);
  unless somebody signs in while a session is being restored (`overlap`),
  the token stored is the one of the `me` under way (`OneSession`), which gives
  `UserMatchesToken` and, with the dialog waiting for its own user only,
  `DoneHonest`. Of the credentials page: what it knows was true of a
  table that only grows and whose revocations stay, and the number of pages grows
  with the table for every page size; hence `SeesItsRevocation` and
  `NeverPastTheEnd`, whatever the order of the answers. Of the accounts page: a
  deleted id is not given again, hence `SeesItsDeletion`. `Console` has
  `AdminsPage` by INSTANCE, so the proof first shows that the definitions of
  the session mean the same in both.

Every invariant and action property of the passing runs is stated by a theorem
listed in `PROJECT.json`.

The assumptions are the named `ASSUME`s on constants: Common Names of different
labels differ, the cron is not a request, requests of `Accounts` are finitely many,
the nil values are not members of the sets they stand beside, and the bounds are
numbers. Three theorems have a hypothesis of their own: `NothingFails` or
`ModeIsSet` as above.

Only model-checked: liveness (`ChainStaysAlive`, `EveryRequestAnswered`, `CrlHeals`,
`ExpiryHeals`, `EventuallyServes`), because TLAPS proves no liveness under
fairness, and the violations of section 5, which are counterexamples.

## 5. Where the code does something else than it says

- `name_race`: the check for an active credential of the same name
  (`vpn/vpn.service.ts:49`) is made before the certificate is issued and not
  repeated at the insert, so two overlapping requests leave two current
  credentials of one name. Renewing one credential twice does the same.
- `stuck_revoke`: when `gen-crl` fails after `revoke`, the row stays ACTIVE and no
  request can change that, since `easyrsa revoke` fails the second time
  (`vpn/easyrsa.service.ts:200`).
- `tty_digit`: the listener of the hidden prompt looks for bytes in what are
  strings (`apps/cli/src/main.ts:99`): a 3 in a password ends the command, and
  Ctrl-C does not. For the same reason a backspace becomes part of the password.

Without a run of their own, as behaviour of the models, some of them the exceptions
that a property names:

- a renewal that waits behind a revocation of the same credential goes on and
  supersedes a revoked credential (`vpn/vpn.service.ts:87`; `Credentials`);
- a client that was revoked and issued again under the same Common Name is
  adopted as REVOKED, and a preview counts it twice (`apps/cli/src/main.ts:273`;
  the exceptions of `AdoptsEveryClient` and `ReportIsHonest`);
- the API and `ocm-admin` count the accounts and delete in two statements
  (`admins/admins.service.ts:100`, `apps/cli/src/main.ts:215`): two deletions
  that both count two accounts leave none, against "Cannot delete the last
  remaining admin" (`admins/admins.service.ts:101`), and the public setup opens
  again (what `LastGoesOnStaleCountOnly` leaves possible);
- a server certificate without an extended key usage is imported as a credential:
  `apps/cli/src/pki.ts:92`, against the comment at lines 82-83, "must never be
  imported", and as the one at lines 90-91 wants it (`IsClientCertificate`);
- an import that reads a key which the API is about to encrypt lists it as
  having no passphrase, and the insert of the API then fails
  (`apps/cli/src/main.ts:284`; `ApiIssue`, `Look`, `ApiEncrypt`); a client that is
  revoked after the index was read may be listed as ACTIVE (`main.ts:245`);
- a postinst that is cut short leaves the unit stopped
  (`installer/debian/postinst:83`; the exception of `EventuallyServes`);
- somebody who signs in at `/login` while a session is being restored may be shown
  the name of the old one (`apps/web/src/auth/AuthContext.tsx:40`; `overlap`);
- an older load of a list that is received later is shown, and may list again what
  was revoked or deleted (`apps/web/src/pages/CredentialsPage.tsx:27`,
  `AdminsPage.tsx:25`; `ReceiveList`);
- a late 401 of a previous session clears the token of the one opened meanwhile
  (`apps/web/src/lib/api.ts:53`; `Unauthorized`);
- when the `me` after a setup fails, the setup page stays until a reload
  (`apps/web/src/auth/AuthContext.tsx:64`; `SignedMe`);
- a change verified against the hash it read overwrites a password that `ocm-admin`
  reset meanwhile (`admins/admins.service.ts:84`; `FinishPassword`);
- a pipe that ends before the second line ends `ocm-admin` with status 0 and nothing
  done (`apps/cli/src/main.ts:54`; `PipeEnds`), and what follows enter in one chunk
  of keys is dropped (`main.ts:111`; excluded by the bound on chunks);
- "Password updated." of an earlier request shows when the dialog was closed and
  opened again, and hides the failure of the second one
  (`apps/web/src/components/ChangePasswordDialog.tsx:54`; `ReceivePassword`);
- a deletion of an account that fails is not caught: the page shows no error
  and does not load its list (`apps/web/src/pages/AdminsPage.tsx:97`;
  `ReceiveChange`).

All these need an overlap, a failure, an unusual certificate or a history that the
unit tests do not set up.

## 6. Not modelled

- Descriptions, dates and expiry of certificates.
- The content of profiles (template, control-channel key), the syntax of names
  and passphrases.
- Certificates that existed before OCM in `Credentials` (`PkiInit` is a fresh
  PKI, with a CA or without); they are the subject of `ImportClients`.
- How long a request waits in the queue, and how long a lock or a token lasts.
- Hashing and signing: a hash fits one password, a token cannot be made up.
- Of the console: downloads (they change no state), the labels of the status
  column, several tabs that share localStorage, and the two pages used in turn by
  one tab.
- The dates of the index: `utcTimeToIso` (`apps/cli/src/pki.ts:28`) reads
  UTCTime only, so an expiry of 2050 or later is stored as unknown.
- The configuration (read once), headers, the installer and Docker (for
  evaluation only): no state that changes while the system runs.

## 7. Plan

1. Proofs: a specification of the accounts as a client sees them (a set of
   usernames with their administrators), refined by `Accounts`.
2. Several tabs on one localStorage, and the two pages in turn.
3. Runs for the disagreements of section 5 that have none.
