# A TLA+ model of ccxt-trading-webhook

The service takes trading alerts over HTTP, authenticates them, and places
market orders through CCXT, either in the request or in a Celery worker. Beside
the webhook it has an identity API (accounts, roles, API tokens, KYC). This
directory models the parts of it whose correctness depends on order, sharing or
time, checks them with TLC, and proves the main results with TLAPS.

All paths below are relative to the repository. Run everything in this directory:

    tlc -workers 2 -config MCOrderExecution.cfg MCOrderExecution
    tlapm ExecutionProofs.tla

`PROJECT.json` lists each run with its module and configuration, each mutant,
the lines every definition stands for, the hazards and the theorems.


## 1. Inventory

| Part | Code | State it keeps | Operations | Status |
|---|---|---|---|---|
| Exchange session pool | `app/execution/session_pool.py` | `_pools`: a FIFO queue of idle clients per (exchange, apiKey, secret); `_pool_key` in each client | `acquire`, `release` | modelled, proved |
| Order execution | `app/api/routes.py` 114-150, `app/execution/exchange_factory.py` | the local `exchange` of each task; the order at the exchange | `get_exchange`, `load_markets`, `create_market_order`, except clauses, `release_exchange` | modelled, proved |
| Nonce store | `app/identity/token_store.py` | SQLite table `nonces`, shared by all processes | `register_nonce`, `cleanup_expired_nonces` | modelled, proved |
| Webhook tokens | `app/identity/token_store.py` 25-59 | SQLite table `tokens` | `issue_token`, `revoke_token`, `is_token_valid` | modelled (TokenAuth), proved |
| Signature check | `app/identity/auth.py` 77-123 | `signature_cache` (TTL cache of one process) | `verify_signature` | modelled, proved |
| Token rate limit | `app/identity/auth.py` 29-62 | `token_rate_cache` (TTL cache of one process) | `_enforce_token_limit` | modelled, proved |
| Token authentication | `app/identity/auth.py` 126-196 | tables `api_tokens`, `user_roles`, `token_usage_log` | `verify_token` | modelled, proved |
| Webhook front | `app/api/routes.py` 77-112, `main.py`, middlewares | what the checks remember | order of the checks; queue or execute | modelled (WebhookService), proved |
| Order queue | `app/execution/tasks.py`, Celery, Redis | the broker's queue, what each worker has fetched | `delay`, worker | modelled (WebhookService), proved |
| `place_market_order` | `app/api/routes.py` 19-49 | none | retries an order | not modelled: nothing calls it |
| Accounts | `app/identity/routes.py` 132-301, `app/identity/auth.py` 210-241 | table `users` | register, verify, login, MFA, reset, profile, delete | modelled, proved |
| Roles and permissions | `app/identity/permissions.py`, `routes.py` 304-385 | `roles`, `permissions`, `user_roles`, audit log | middleware, `create_role`, `create_permission`, `assign_role` | modelled (Rbac), proved |
| API token management | `app/identity/routes.py` 388-485 | `api_tokens` | issue, revoke, update | modelled (TokenAuth), proved |
| KYC | `app/identity/routes.py` 488-641 | `kyc_verifications`, `kyc_documents` | submit, upload, approve, reject, report | modelled, proved |
| Document storage | `app/compliance/` | encryption key, files | save, scan, OCR | modelled (Kyc), proved |
| Metrics, logging, settings, CLI, migrations | `app/dashboard/`, `app/utils.py`, `config/`, `alembic/` | none that matters here | | not modelled: no control state |
| wallet, ledger, marketplace, risk, subscription | `app/*/__init__.py` | | | packages with a docstring only |

**How the parts interact.** `webhook()` authenticates a request either by its
signature (`verify_signature`) or by a token and a nonce (`verify_token`, which
calls `is_token_valid`, `_enforce_token_limit` and `register_nonce`). It then
hands the payload to Celery, or runs the order itself; both ways make the same
calls, with a client borrowed from the pool of their process. The web process is
one event loop: a handler is interrupted only at an `await` that really
suspends. Functions without one (`verify_token`, `verify_signature`, whose body
has been read before) run in one piece with respect to the other handlers of
their process, but not with respect to other processes (several web
processes, workers, `manage_tokens.py`) that use the same database. The identity
handlers are plain functions, which FastAPI runs in a thread pool: they
interleave even in one process. Those for roles and permissions, and the KYC
reviews, run behind `PermissionMiddleware`, whose check is a transaction of its own.

**What is hard here.** Tasks that share clients across awaits; an exchange whose
answer comes late or never; exceptions in `finally`; statements of several
processes between a SELECT and an INSERT; clocks read before a wait; caches that
forget by age, by pressure and with the process; boundaries of whole seconds; a
broker that repeats and gives back messages, and workers that die.
`PROJECT.json` lists each of these at its line under `hazards`, with the
properties that cover it, or the reason why none does.


## 2. The modules

### SessionPool, ClientOwnership

`SessionPool` is `ExchangeSessionPool`. `pools` is `_pools` (a missing queue is
an empty one: `acquire` and `release` create it and nothing else sees the
difference), `poolKey` is the `_pool_key` attribute, `held` the local variable of
each task, `open` the clients whose connection has not been handed to `close()`.
The lock is always free when it is asked for: the body of `acquire` does not
suspend (`get()` on a non-empty queue returns at once), nor does that of
`release`. Therefore `AcquirePooled`, `AcquireFresh`, `AcquireFails`,
`ReleaseToPool` and `ReleaseFull` are one step each, and only `close()`
(`CloseReturns`, `CloseRaises`) is a step of its own. A task acquires one client,
which names the clients. `release` of an object without `_pool_key` is left out:
all clients in the program come from `acquire`.

`ClientOwnership` says what a pool promises without queues: a client is lent to
one borrower at a time, a new one is made only if none of its kind is idle, and
one is retired only if enough are. `ImplementsOwnership` states that SessionPool
implements it (`owner` is computed from `held`, `idle` is the union of the queues).

### OrderExecution

The block of `webhook()` (114-150), in any number of tasks that
share one `SessionPool`. The module extends that one: the pool's actions are
conjoined with the steps of the block, and the pool's variables change in no other
way (`BlockUsesPool`). `step` is the await a task is at, `outcome` what leaves the `try` block,
`reply` the answer, `order` what the exchange did. The exchange is external: once
an order is sent it may fill it, refuse it, or never see it, at any time, also
after the client has given up. Exceptions come before the order is sent
(`FailsEarly`, any family), as a refusal, as a timeout whatever happened to the
order, or because what comes back cannot be read (`OrderUnreadable`): errors of JSON,
of numbers and of character sets are `ValueError`s, which the block answers with 422.
`Status` is the list of except clauses. We assume that an `ExchangeError` raised by
`create_market_order` after the order was sent is the exchange's own, final refusal.
The Celery task (`_execute_order`) makes the same calls in its own block, which has no
reply and one clause for both families of CCXT errors; it is modelled in WebhookService
(`ExecuteOrder`, `TaskEnds`).

### NonceStore, ReplayGuard

`NonceStore` runs `register_nonce` and `cleanup_expired_nonces` one SQL
transaction at a time, in several callers that share the table. A caller reads
the clock first; it may then wait for the database for at most `MaxStall`, may
fail, or may die before any statement. An INSERT of a nonce that another caller
has inserted meanwhile raises (`InsertConflicts`). The clock is in whole
seconds, like `int(time.time())`, never goes back, and is the same for all
callers. `ReplayGuard` is the promise: two accepted uses of one identifier are
at least `Window` apart. NonceStore implements it with
`Window = NonceTtl - MaxStall`.

### SignatureCheck

`verify_signature` and its cache, in one process that may be restarted. The
clock has a finer grain than a second (`Resolution` units), because freshness is
judged on whole seconds and the cache on fractions. The cache is
`cachetools.TTLCache`, an external part modelled from how it is used: membership
tests and writes only, so its order of use is its order of insertion. A write first
removes the expired entries from the front, up to one that is live (`FirstExpired`),
and the oldest live one if there is still no room (`Room`). The TTL is in whole
seconds, as the setting is.

### TokenRate

`_enforce_token_limit` and its cache. Here `get` is also used, so the cache evicts
in order of last use; `since` gives that order as a relation (which tokens were
seen after which). An expired counter is the same as none. The clock is read once
per call (the library reads it at each access). `Limit = 0`, a token that may
never be used, is excluded by an assumption.


### UnitOfWork

What three modules below share: an SQLAlchemy session. A handler SELECTs a row,
changes attributes of the object and commits. Under SQLite the SELECT leaves no
lock behind, so other sessions write in between; the commit issues an UPDATE of
only those columns whose value differs from the one read (`Flush`). A commit that
changes a row which is gone raises. The read, and the commit, are one step each.

### TokenAuth

`verify_token` against the handlers that issue, revoke and edit tokens of either
kind. A request looks into `hooks` (table `tokens`) first (`HookFound`,
`HookMissing`, `HookExpired`), then into `rows` (table `api_tokens`, `Find`); it
registers its nonce, counts the owner's roles and commits last use and log entry
together. `loaded` is its object: the tests after `Find` use it, not the table. An
edit reads in `Fetch` and commits in `Write`. Fields that an update does not send
are None in `Ask`. What the nonce store and the rate limit answer is left open
(`NonceNew`, `NonceSeen`, `FindNone`): the modules above say when they do what.
`granted` is history: the role restrictions under which the token could be used
at some moment of the request. All tokens have one owner, whose roles only grow:
no code sets `user_roles.is_active` to false.

### Accounts

The handlers of `users`. The unauthenticated ones (`Register`, `VerifyEmail`, `Login`,
`ForgotPassword`, `ResetPassword`) read in the first step and commit in the second.
The others get the object of `get_current_user`, whose session is closed
(`GetCurrentUser`); the profile handlers read the account again (`Reload`), the MFA
handlers do not, so that their commit writes nothing. `children` stands for the rows
of other tables that refer to a user. `DeleteAccount` is the look at them that
SQLAlchemy takes before the DELETE (`Delete`): if there are any it would set a
`user_id` that must not be null, and raises. SQLite does not enforce the foreign
key afterwards. A password is named by the call that set it, because hashes are salted.

### Kyc

Applications, documents, two-step reviews, and the three queries of the compliance
report. `submitted_at` has the grain of a second, so that two applications of one user
may be equally new. Neither review looks at the status it finds: a decision may be
repeated or overturned, which the model allows. What a review answers is read after
its commit and changes nothing; it is left out.

An upload finds its application (`UploadFinds`), reads the key or generates one
(`GetFernet`), sets it and writes the encrypted file (`SaveEncryptedData`), and inserts
the row (`UploadInserts`). `setting` is `settings.DOCUMENT_ENCRYPTION_KEY`, `key` the
local variable of each upload, `files` the key a file is really encrypted with. A
generated key is named after the upload that generated it. Between the test for a
missing key and the assignment another thread may generate a second one; `KeepKey` is
the assignment, also on the way to a failure. `Restart` ends all calls and loses a
generated key. The virus scan may refuse a file; the text recognition fills a column.

### WebhookService, AlertDesk

`WebhookService` is the way of an alert from `webhook()` to the exchange. The checks
are one step each (`Refuse`, `RefuseLate`, `Accept`), because the modules above have
their inside; what they have in common is `known`, the nonces and signatures that are
remembered and forgotten (`Forget`). `RefuseLate` is the refusal after `register_nonce`
(`auth.py` 169-183), which uses the identifier up. `queueing` is `settings.QUEUE_ORDERS`.
The order itself is one step to send it and one to learn its end (`CreateOrder`,
`OrderSucceeds`, `OrderFails`; in a worker `ExecuteOrder`, `TaskEnds`): OrderExecution
has the steps between.

Celery, kombu and Redis are outside the repository. `tasks.py` sets neither
`acks_late` nor a retry policy, so that their defaults hold: `delay()` repeats a
publication whose connection breaks, and may leave `Copies` messages or raise although
one is there (`Delay`, `DelayFails`); a worker fetches messages ahead (`Reserve`),
acknowledges one just before its task runs (`PlaceOrderTask`), and what it had fetched
but not acknowledged when it dies comes back (`WorkerDies`, `Restore`). A task that
raises is over (`TaskEnds`).

`AlertDesk` is the promise to the sender, without queue or workers: a delivery is
accepted only while its identifier is unknown, and only what was accepted is ordered,
each message once. `ImplementsAlertDesk` states that the service implements it;
`Decision` computes the state of a request from `step` and `reply`.

### Rbac

`PermissionMiddleware` and the handlers it protects. A check reads the user, his
active roles, and the number of matching permissions, one query each, and commits an
entry of `permission_audit_log` before the handler runs. Nothing in the program writes
`role_permissions` or withdraws a role, so an operator does (`Give`, `Take`, `Assign`,
`Withdraw`, at most `MaxEdits` times), at any moment. `user_roles` is indexed by the
request, or the operator's action, that inserted the row: the table has no uniqueness,
and two requests may insert the same assignment. `seen` and `changes` are history:
what the two queries would answer together at each moment of a check, and how often
that could change while it ran.


## 3. What the runs check

| Run | Instance | Question | States |
|---|---|---|---|
| `order_execution` | 2 orders and 1 other user of the pool, 2 keys, queues of 1 | of the pool: exclusive use, no leak, no needless clients, refinement of ClientOwnership; of the block: own client, nothing kept, truthful reply, no second order, every request is answered | 201,000 |
| `order_report` | 2 tasks, 1 key, queue of 1 | *violated*: a confirmed order is reported | |
| `nonce_store` | 3 callers, 1 nonce, TTL 4, stall 2, 9 seconds | refinement of ReplayGuard, refusals have a reason | 513,000 (symmetry) |
| `signature_check` | 3 signatures, cache of 2, age 1 s, TTL 3 s, half seconds | eviction only under pressure, duplicates only within the TTL, a request delivered twice is accepted once | 271,000 |
| `signature_window` | 1 signature, TTL = maximal age | *violated*: a request delivered twice is accepted once | |
| `token_rate` | 3 tokens, cache of 2, limit 3, window 3, 7 units | rate kept, refused only without a rest of a window, eviction only under pressure | 484,000 (symmetry) |
| `token_rate_slow` | 1 token, limit 2, window 3 | *violated*: only a token above its rate is refused | |
| `token_auth` | 1 token, 1 role, 1 request, 2 edits, 3 seconds | accepted only what was permitted meanwhile, uses recorded, revocations stick | 169,000 (symmetry) |
| `kyc` | 1 user, 2 applications, 2 reviewers and reviews, 2 uploads, no configured key | decided means signed, the report misses none, documents can be decrypted | 756,000 (symmetry) |
| `accounts` | 2 accounts, 1 address, 4 requests, 2 seconds | one account per address, reset tokens used up, deleted stays deleted, passwords by reset only | 358,000 (symmetry) |
| `webhook_service` | 1 alert delivered twice, 2 copies, 2 workers, 2 deaths | refinement of AlertDesk, nothing queued vanishes or doubles, queued is tried | 226,000 |
| `rbac` | 1 user, 2 roles, 2 requests, 2 edits | a decision is right for a moment of its check, changes are granted and logged | 851,000 (symmetry) |

**Bounds.** In `order_execution` two tasks overflow a queue of one, and a second key lets
credentials be confused. The third task (`MCOrderExecution`) only acquires a client and
releases it, as any user of the pool does: it is the one that comes while another
client is queued, lent or being closed. What holds of the pool with longer queues and
more tasks is proved (section 5).
Three callers of the nonce store are the two that race and one that deletes
meanwhile; nine seconds hold two lifetimes of a nonce. Both caches are smaller by
one than the number of their keys, and their horizons exceed the life of an entry. One
request and two edits of TokenAuth are what it takes to revoke a token that a request has read and
to lift the revocation with an older edit. Two reviews on one application, with a second
application for the report to confuse, are what decisions need, and two uploads race
for the key. Two deliveries of one alert are a request and its repetition, each with a
second copy of its message; of two workers that fetch one message ahead, one dies and
the other takes over, or both die. Two edits in Rbac fall into one check or into two. A deletion, a reset,
and two more requests on two accounts of one address leave room for three stale objects
at once. Only the clocks (`Horizon`), the deaths of
workers (`MaxCrashes`) and the operator's edits (`MaxEdits`) are bounded; all other state
is finite by itself. Symmetry is used where all tasks, callers or tokens are alike, and
not for liveness.

**Deadlock** is checked everywhere. `MCOrderExecution` and `OrderExecution` end when
every task has (`AllEnded`, `AllAnswered`), and so (`Finished`) do `TokenAuth`, `Kyc`,
`Accounts`, `Rbac` and `WebhookService` when every call has. Any other stop is an error.

**Fairness.** `Answered` needs weak fairness of each task's next step: asyncio runs
every task that is ready, and ccxt gives every HTTP request a timeout, so that every
await ends. The exchange is not assumed to do anything (`ExchangeStep` has no
fairness): neither a decision nor an unreadable answer has to come. `QueuedIsTried` needs weak
fairness of each worker and of `Restore`: a Celery worker that is alive fetches and
runs messages, and kombu's Redis transport gives back what stays unacknowledged for
longer than its visibility timeout. Nobody is assumed to start a dead worker.

**Mutants.** Each property is broken by a small change of a definition, written
next to it in the module with a comment, as a likely mistake in the code would
make it: a queue looked up by part of its key, a client forgotten when its queue is
full, `INSERT OR REPLACE`, a retry after a timeout, and so on.


## 4. Where the code and its documentation differ

* `order_report`: if `close()` raises while a surplus client is released, its
  exception replaces the answer, and a filled order is reported as an internal error
  (`app/api/routes.py` 148-150).
* `signature_window`: with the default settings a signature is forgotten after 300
  seconds while its timestamp is still fresh, for the rest of that second if the
  clocks agree and for up to 300 seconds more if the sender's clock is ahead
  (`app/identity/auth.py` 95, `config/settings.py` 36). `signature_check` shows that
  a TTL of twice the maximal age and one second is enough.

* `token_rate_slow`: a token is refused when it "exceeded its allowed rate", says the
  docstring (`app/identity/auth.py` 56). But every use renews the life of its counter
  (61), so that a token that never rests for a whole window is refused in the end, however
  slowly it is used. `token_rate` shows what is true of a refusal.

The modules also contain, as the code does, some behaviours that no run is about:

* A `ValueError` raised while the answer of `create_market_order` is parsed is answered
  422 ("Validation error", `app/api/routes.py` 137-139) like an invalid payload, although
  the order may be filled (`OrderUnreadable`). `TruthfulReply` therefore promises nothing
  of a 422.
* `register_nonce` raises `IntegrityError`, although it promises False, when another
  caller registers the nonce between its SELECT and its INSERT
  (`app/identity/token_store.py` 73-79; `InsertConflicts`). The nonce is still used only
  once. In the same way the slower of two registrations of one address gets an internal
  error and not status 400 (`app/identity/routes.py` 134, 154; `InsertConflicts` of
  Accounts).
* `mfa_setup` changes the object of a closed session; the secret it answers is never
  stored (`app/identity/routes.py` 204-205, `auth.py` 235-241; `MfaSetup`).
* A token, role or application can be added to an account that is being deleted, and
  stays without an owner (`app/identity/routes.py` 299-300; `IssueToken`).
* A commit writes only what the handler changed against what it read. If an approved
  application is approved again while another reviewer rejects it, the row ends as
  rejected with the approver's name (580-583; `Write` of Kyc). A document may be added
  to an application that was decided during the upload (531-554; `UploadInserts`).
* Without a configured key every process generates its own, and a process whose two
  first uploads race generates two (`app/compliance/storage.py` 10-13; `GetFernet`). The
  documents stay readable because each row holds its key.
* `docs/modules/execution.md` 5 says that Celery workers "retry on failure"; the task
  raises, and nothing retries it (`app/execution/tasks.py` 42-44; `TaskEnds`). A retry
  would send a second order after a timeout: the mutant `TaskRetries`.
* `delay()` may raise although the broker has the message, and an alert that was not
  queued cannot be sent again with its identifier (`app/api/routes.py` 110;
  `DelayFails`). A repeated publication leaves two messages, which are two orders.
* `docs/identity_module_design.md` 192 wants `UNIQUE(user_id, role_id)`; the table has
  no such constraint, and `assign_role` may insert a second row
  (`app/identity/routes.py` 381; `InsertUserRole`).
* A permission check makes two queries. If the tables change twice in between, a caller
  may pass who never held the permission (`app/identity/permissions.py` 59-74; the
  comment at `DecisionHadItsMoment`). `is_active` of a role or permission,
  `user_roles.expires_at` and the hierarchy of roles are not looked at.
* `expires_in = 0` issues a token that never expires (415; `Expiry`); a request that is
  refused late has used up its nonce and rate (`auth.py` 163-183; `RefuseLate`).


## 5. What is proved

The theorems hold for every value of the constants that satisfies the modules'
assumptions. In each case an inductive invariant `IInv` is shown to hold initially,
to be kept by every action, and to imply the property.

* **ExecutionProofs**, the pool (assuming `maxsize` is a natural number and that `None`
  is no task and no key): `TypeCorrect`, `ExclusiveOwnership`, `NothingLeaks`,
  `RightCredentials`, `QueuesBounded`. The properties are nearly inductive
  together; what has to be added is `Life`, which ties the place of a task to what it
  holds and says that a client that was never created is nowhere. It is needed because
  a client is named after its creator: without it `AcquireFresh` might create a
  client that is already in a queue.
  `PoolImplementsOwnership`: each action of the pool maps to one of `ClientOwnership`,
  or to a stutter. The queue of a key has as many slots as idle clients, because it is
  injective (from `OneOwner`), so that the tests of the two levels for a full queue agree.
  `NoChurnEver` (assuming finitely many tasks) counts over the history. As long as no more
  clients of a key were in use at once than a queue keeps, none has been closed (`Kept`).
  Then a client is created only when all there are of its key are in use (`AllInUse`: the
  queue is empty and the clients that are open, which are all, map one to one to tasks),
  and a full queue together with the client that does not fit would be more clients
  than the peak allows.
* **ExecutionProofs**, the order block (assuming also that `None` is no outcome and no
  reply): `ExecTypeCorrect`, `ClientsAreOwn`, `NothingIsKept`, `RepliesAreTruthful`,
  `OneOrderEach`. The pool's invariant is not proved again: its actions are conjuncts of
  the steps here, and the lemmas about them are cited. What is added ties the step of a
  task to its place in the pool, and its outcome to the state of its order.
  `BlockUsesPool`: every execution of orders is one of the pool, so that the theorems
  above, and the ownership protocol, hold of it.
* **ReplayProofs**, the nonce store (assuming a TTL of at least one second): `TypeCorrect`,
  `StoreImplementsReplayGuard`, `RefusalsJustified`. A row outlives the use it stands
  for by NONCE_TTL less the delay of the caller that wrote it, because it is deleted
  only by a reading of the clock that has passed `expires_at` (`Covered`); and a use is
  recorded only where there is no row. The SELECT plays no part in this: the primary
  key alone is enough. For refusals, a row that a caller finds after its own DELETE is
  either unexpired by its own reading or younger than that reading (`Purged`).
* **ReplayProofs**, the signature cache (assuming a cache of at least one entry):
  `SignaturesAreTyped`, `ForgetsUnderPressure`, `DuplicatesAreJustified`. Every entry
  stands for an acceptance that is no older than it says (`Stood`), and a signature
  accepted within the TTL has an entry with no more entries behind it than others were
  accepted since (`Held`); so the entry is dropped from the front only after as many as
  the cache holds.
  `LongTtlAcceptsOnce` is the way out of the finding `signature_window`: if
  `CacheTtl > 2 * MaxAge`, both in whole seconds, no request is accepted twice without
  that pressure or a restart, whatever the resolution of the clock. Its timestamp was at
  most `MaxAge` ahead of the second of its last acceptance (`Dated`), and is too old when
  the entry has expired. The condition is a hypothesis of this theorem only, because the
  default settings do not satisfy it.
* **TokenRateProofs** (assuming positive limit, window and cache size, and finitely
  many tokens): `TypeCorrect`, `RateIsKept`, `RefusalsJustified`,
  `EvictionNeedsPressure`. A live counter counts the last uses of its token, and all the
  uses it does not count are at least a window old (`Counted`); it expires a window
  after the last of them (`Lasting`), so that this stays true when it does. A use is added
  to a counter only while that is live, hence less than a window after the one before it
  (`Chained`): a full counter stands for uses without a rest.
* **WebhookServiceProofs** (assuming at least one copy, and that `None` is no message
  and no reply): `TypeCorrect`, `QueuedStays`, `ServiceImplementsDesk`. Counting
  orders is not inductive; the invariant says where a message can be. Until its task is
  started it is in one place (`OnePlace`) and its order has not been sent (`Untried`);
  after, at most one live worker has it, and has sent its order at most once (`Runs`);
  and only a request that is over and was not refused has messages (`Published`). With
  this every step maps to one of AlertDesk, or to a stutter, for any number of workers,
  copies, deliveries and deaths.
* **RbacProofs** (assuming that requests are not the operator's rows): `TypeCorrect`,
  `DecisionsAreRight`, `ChangesAreAudited`. Between the two queries, `role_ids` are the
  roles as they were at a moment of the check; if nothing has changed since, they are
  still the caller's, and if something has, the change was the only one, so that the
  permissions are the ones of after it: either way the second query repeats an answer
  the tables gave.
* **KycProofs** (assuming that `None` is none of the data): `TypeCorrect`,
  `DecisionsAreSigned`, `ReportIsComplete`, `DocumentsReadable`. `TypeCorrect` includes that
  no application is dated after the clock, which needs that no review writes that column.
  A review writes only the
  columns that differ from what it read; the row stays signed because what was decided
  when it read is decided when it writes (`Reviewing`). The report misses nothing
  because of the order of its queries: an application leaves "pending" for good before
  "approved" is asked for, and only an overturned rejection goes back (`Counting`).
* **TokenAuthProofs** (assuming that requests and edits are different calls):
  `TypeCorrect`, `AcceptanceIsPermitted`, `UsesAreRecorded`, `RevocationsStick`. The
  object a request has read stays true in three ways (`Reading`): its restriction was in
  force during the request, its row is still there, and a use recorded in it stays
  recorded. The last needs that an edit leaves that column as it read it (`Editing`).
* **AccountsProofs** (assuming that `None` is no time, no account and no row):
  `TypeCorrect`, `AddressesAreUnique`, `UsedTokensAreGone`, `DeletedAccountsStayGone`,
  `PasswordsChangeByReset`. What a request has read is history when it commits, but a
  commit writes only what the handler has changed against it, and of an existing row only
  (`Change`, `FlushedRow`): no handler changes an address, only a reset the password, and
  only the handlers that issue a reset token or use it up the token. A reset that was read
  before another one committed can therefore set the password again, but cannot bring
  the token back.

Every invariant, action property and refinement that a passing run checks is stated by a
theorem. Only `NoChurn` and `AcceptedOnce` speak of a history variable of an MC module;
they are proved for the specification there (`MCSpec`), which adds nothing else.

**Only model-checked.** `Answered` and `QueuedIsTried`: liveness under fairness is out of
the prover's reach.


## 6. Plan

What is left, the most useful first:

1. **Two processes in SignatureCheck**: the caches of several web processes know nothing
   of each other.
2. **Restarts in AcceptedOnce**: the theorem starts the history anew when the process is
   restarted, as the cache does; how many acceptances `n` restarts allow is not stated.
3. **Composition**: OrderExecution is shown to run SessionPool; that WebhookService's two
   steps of an order are an abstraction of OrderExecution is not.


## 7. Not modelled

Parsing and validation of payloads (pydantic), formatting, logging and metrics; the
contents of messages, keys and files; HTTP itself. The per-IP rate limiter is
slowapi's own code. HMAC, hashing and JWT are taken to do what they are meant to.
What is inside a ccxt client is external: a step that uses one may fail, whether the
client is new or comes from the pool. Idle clients are never closed by the program and
`_pools` never shrinks; no property is stated of this.
`place_market_order` is not called by anything. A broker that loses its queue, the death
of a single child of a prefork worker, and a task that runs longer than the visibility
timeout are outside of what the code decides. A client that was pooled under one
`asyncio.run` and is used under the next may fail (`app/execution/tasks.py` 60); that is
`TaskEnds` before `ExecuteOrder`. Endpoints that only list rows change nothing. The
packages wallet, ledger, marketplace, risk and subscription hold no code; settings are
constants of the modules; migrations and models are declarations, which enter the
modules as types.
