# browser-fetch-router: TLA+ models, checks and proofs

`bfr` is a command line tool that reads web pages, drives hosted browsers and
reads the tabs of a local browser. It has no daemon: every command is a process
of its own, and all coordination happens through files under the state
directory (a SQLite cost ledger, JSON caches, registries and grants, `flock`
sentinels) and through external processes (browsers, providers). What is hard
in it is therefore hard to test: what two or three processes do to the same file
between two of each other's steps, and what is left behind by one that dies.

These modules model that behaviour. Source references are to `src/`, and
`PROJECT.json` maps each definition to the lines it stands for.

## 1. Inventory

| component | source (`src/browser_fetch_router/`) | state | operations | what is hard |
|---|---|---|---|---|
| cost ledger | `cost.py` | SQLite tables `costs`, `paid_disabled_sessions`; JSONL mirror; token buckets and circuits, which nothing in the package uses, in the same database | `reserve`, `release`, `settle`, `mark_provider_overrun`, the two totals | several processes reserve against one daily cap; the date is read before the transaction; lockout is a transaction of its own |
| hosted browser orchestration | `interactive.py` | none of its own: a reservation per call, held for minutes | gates, `_reserve_hosted_cost`, provider run, `_finalize_hosted_result` / `_finalize_hosted_failure` | Ctrl-C or death between two ledger steps, a provider that reports more than the cap, providers that report nothing |
| Browser Use Cloud client | `providers/browser_use_cloud.py` | a remote session | create, poll, stop | poll deadline and step limit against a session that ends; a stop that does not arrive; answers without fields |
| Browserbase client | `providers/browserbase_stagehand.py` | a remote session | start, execute, end in one coroutine | the end of the session after a failure or Ctrl-C |
| read-web orchestration | `read_web.py` | none of its own | cache look-up, lock, re-look, route, paid fallback, write | two readers of one key; write after the release; paid calls outside the ledger |
| response cache, in-flight lock | `cache.py` | a JSON file and a lock file per key | `read`, `write`; `InflightLock.acquire`, `release` | lock time-out, expiry while waiting, records of another schema |
| read-web providers | `providers/` | none | fetch and parse | third-party formats |
| session registry, cleanup | `lifecycle.py` | a JSON file and a sentinel per session | `register_process`, `run_cleanup`, `_kill_pid_safely`, `_rotate_logs` | registration during cleanup, pid reuse, survivors, dying in the middle |
| managed CDP browser | `read_user_tabs.py` | browser process, profile directory | `setup_cdp`, `list_tabs`, `read_tab`, `screenshot_tab` | a launch that fails half-way; a tab that navigates between authorisation and use |
| CDP client | `cdp.py` | one WebSocket | commands, text, screenshots | replies out of order, navigation between two commands |
| approval store and policy | `approvals.py` | a JSON file of scopes with expiry, a sentinel | `add_approval`, `list_active_scopes`, `revoke`, `can_read_url` | re-approval of a live grant, expiry, lost updates |
| persistent files | `paths.py` | any state file | `SentinelLock`, `read_json_dict`, `backup_corrupt_file`, `append_durable_line`, `atomic_write_bytes` | stale inode after a rename, partial writes, a rotation under an append |
| audit log | `audit.py` | JSONL | one record per command | rotation under an append, power failure, death between two writes |
| HTTP transport, URL policy | `http_client.py`, `url_safety.py` | none | request with checked redirects | hop limit, credentials and bodies over several hosts, a resolver that changes its mind, a body at the limit |
| command line | `cli.py`, `status.py` | none | dispatch, exit status, audit | exactly one result and one record, whatever is raised |
| agent installer | `install_agent.py` | agents' directories | install, verify | several agents, one fails |
| doctor, acceptance | `doctor.py`, `acceptance.py` | none | probes | nothing concurrent |
| quality gate | `quality.py` | none | classify a text | nothing concurrent |
| adapters, skills, spec tooling | `adapters/`, `skills/`, `specs/` | none | prompts and packaging | no program state |

How they interact. `cli.py` runs one command and emits its audit record.
`interactive-browser` calls `cost.py` before and after its provider.
`read-web` uses cache, lock and providers, and does not use the ledger.
`setup --launch` starts a browser, waits for its CDP port and calls
`register_process`; `cleanup`, in another process, reads what was registered,
kills it and removes its profile directory. `read-tab` asks the approval store
before and after it talks to the browser. `SafeHttpClient` carries the requests of the
read-web providers and of Browser Use Cloud. Nothing else is shared.

What makes each part correct:

* ledger and hosted calls: no day is overcommitted; a session is charged at most
  once; what an ended call leaves in the ledger is what its answer says; an
  overrun locks its session out and nothing is reserved after that;
* read-web: at most one provider call per key unless a lock timed out; no lock
  stays behind; paid content reaches the cache only by an opt-in; nobody waits
  for ever;
* registry: no registration is lost to another one; a file goes only when all it
  named is dead; no running browser loses its profile; launches end;
* approvals and tabs: the store changes by one whole request at a time; content
  leaves a tab only with a consent to the very page it comes from; a revoked or
  expired grant serves no request that begins later; nobody waits for ever for the store;
* hosted providers: no session that is known of is left running unless the
  request to stop it was lost; success and cost are the vendor's own;
* HTTP: neither credentials nor a body come back once a chain has dropped them;
  every hop goes to an address checked for that hop; an answer is never cut to fit;
* persistent files: a reader sees a whole record or none, without a lock; the
  program itself never harms a file, even when it dies;
* audit log and command line: the bytes of a record whose append returned are found
  again, and nothing but what a stopped writer left comes before them on their line;
  the envelope, the exit status and the record agree; an append that has begun ends.

The hazards, each at its line with the properties that cover it or the reason
none does yet, are listed in `PROJECT.json`.

## 2. Modules

| module | what it is |
|---|---|
| `Tally` | the `SUM(...)` of the ledger's queries, as a recursive function |
| `CostLedger` | the two tables and one action per transaction of `CostLedger` in `cost.py` |
| `HostedBrowser` | the calls of `run_interactive_browser` around the ledger (EXTENDS `CostLedger`) |
| `DailyBudget` | abstract: a daily budget from which each taker takes at most once |
| `HostedProviders` | `run_task` of both providers against a remote session |
| `ReadWeb` | readers, cache files, in-flight locks, paid fallback |
| `CacheRegister` | abstract: a register whose value expires and may be lost |
| `CacheFile` | one cache entry as a file that is replaced, read and set aside without a lock; implements `CacheRegister` |
| `HttpRequest` | one request of `SafeHttpClient` and its chain of redirects |
| `SessionRegistry` | launchers, browsers, profile directories, registry files, cleaners |
| `Approvals` | abstract: the table of grants, and the policy that reads it |
| `ApprovalStore` | the same table as a locked file that processes read, edit and replace; implements `Approvals` |
| `TabRead` | reads, screenshots, listings and revocations over a tab that navigates (EXTENDS `Approvals`) |
| `AuditTrail` | the end of every command: envelope, exit status, durable record, rotation |
| `MC...` | the finite instances of these; `CacheFile` and `HostedProviders` need none |
| `...Proofs` | the theorems about them, each beside the lemmas it rests on (`ApprovalProofs`: those about `ApprovalStore` and `TabRead`) |

Definitions named `X_Y` under a comment "Mutation of X" are plausible bugs of
`X`. They occur in no specification; the mutants in `PROJECT.json` use them in
place of `X` to show that each property can be broken.

### HostedBrowser and CostLedger

`costs[c]` is the row whose `audit_id` belongs to call `c`; `paidDisabled` the
rows of `paid_disabled_sessions`. A call's `pc` names its place in the code:

| action | code |
|---|---|
| `Refuse` | confirmation, opt-in, API key, cost-limit parsing: every return in front of the ledger |
| `PreCheck` | `reserve` reads the UTC date and looks the session up outside the transaction |
| `ReserveRefused`, `Reserve` | the BEGIN IMMEDIATE transaction of `reserve` and its outcomes; exceeding the session cap also locks the session out |
| `ProviderAnswers`, `ProviderRaises` | the provider call, an answer with or without a cost, an exception |
| `Settle`, `Release`, `ReleaseOverrun`, `Disable` | the finalisation, one action per transaction |
| `Abort` | SIGKILL, Ctrl-C (not an `Exception`), `sqlite3` errors, a mirror append that raises after the commit |
| `NextDay` | the calendar, between any two steps |

A transaction is one step because it runs under BEGIN IMMEDIATE. The mirror is
written after the commit and never read back, so only its failure matters.
Amounts are integers (cents): rounding of floats is not modelled. All processes
of a machine have the same daily cap, as they read the same environment. A
call passes the same number as amount, request cap and session cap, so
`amount > request_cap` cannot hold and is left out; `settle` always finds its
row, which `ReservationHeld` checks, so the answer "cost_record_failed" shows
only as the branch `Settle` would take to `disabling`.

### HostedProviders

`remote` is the session at the vendor, which works, ends and costs as it likes;
`latest` is the decoded answer the code goes by. In `HostedBrowser` all of this is the one step
`ProviderAnswers`: `AnswersAreTheVendors` is about what that step passes to the ledger.

| action | code |
|---|---|
| `CreateFails`, `Created` | the session is created, or not; a lost answer leaves one nobody knows of |
| `Finish`, `Limit`, `GoOn` | the head of the poll loop: terminal status first, then step limit and deadline |
| `Sleep`, `Wake`, `Poll`, `PollFails` | `min(2.0, remaining)`, `_poll_session` |
| `StopHeard`, `StopUnheard` | `_stop_session`, once, whether it arrives or not |
| `Execute`, `ExecuteRaises`, `End` | Browserbase: the task, and `session.end()` in the `finally` |
| `Interrupted`, `Die` | Ctrl-C, which the `finally` of Browserbase survives and the poll loop does not; death |
| `RemoteWorks`, `RemoteEnds`, `Tick` | the vendor and the clock |

An answer has all fields, lacks the status, the step count or the cost, or says nothing
at all; the session may have ended by the time its creation is answered. The wording of errors is left out: an error is one of the statuses
`interactive.py` tells apart. A fraction, a NaN or an infinite number in an answer is
not modelled (section 4).

### ReadWeb

`Route` maps a URL to its provider; the key of the cache and of the lock is the
URL (with its route). `FirstLook`, `Lock` / `LockTimeout`, `Recheck`,
`FetchPrimary`, `FetchPaid`, `Unlock`, `Write` are the lines of `read_web` in
their order; `Raises` is whatever leaves its `try`. Three facts of the code
matter most, and the model keeps them: a lock that times out is ignored; the
lock file of a reader that is late is closed without freeing anybody's lock; the cache is written
after the release. Content is only the provider it came from, since nothing else
decides where it goes. An entry expires after the TTL of the provider that
produced it. A `flock` belongs to a descriptor: the kernel frees it when its
process dies. A status other than `ok` and `insufficient_content` is `"other"`. What a
look at the cache does to the file is `CacheFile`'s subject; here it is one step.

### CacheFile and CacheRegister

`file` is what the path leads to. A writer makes a temporary file, writes,
flushes and replaces (`atomic_write_bytes`); a reader looks, opens, judges, and
renames a damaged file out of the way (`read_json_dict`, `backup_corrupt_file`),
looking again each time, so that what it renames may be a good record that a writer has
just put there. `CacheRegister` promises no more than the code keeps: an answer is
a value that was there while the caller was reading and has not expired, or a
miss, for which something must have been missing, lost or stale in that time.
`ImplementsRegister` holds with that rename because it loses a record, which the register
may. `seen` is the register's variable, kept in `CacheFile` as history.

What others leave in the file is told apart by what `read` makes of it: damaged,
of another schema, or without `schema_version`, on which `read` raises a
`KeyError` (section 4). `StoreStaysClean` is what the program answers for: as long as nobody
else harms the file and no read fails, what was stored last is there, whole, and nothing is ever set aside.

Left out: the lock of `ReadWeb`, which a reader whose lock timed out and a writer after its
release do not hold; a rename that does not survive a power
failure, as the directory is not synced; two backups of one name (a stamp in
microseconds and a counter).

### HttpRequest

`current`, `method`, `body` and `headers` are what the next hop sends. `Resolve`
takes any set of addresses from the resolver at every hop, refuses all of them
if one is blocked, and pins one. `Connect`, `Send`, `ReadChunk`, `ReadsEnd` are
`_do_one_request`; `Return`, `RefuseRedirect` and `FollowRedirect` the loop of
`request`, with its checks in the order of the code. `Cut` is a server that
closes within a body that has a length, which `http.client` takes for its end when a bounded
`read(n)` is used. `NetworkFails` is every exception but the policy's own.

URLs are names: which are valid, secure, suspicious or acting, and which
addresses are blocked, are constants (parsing is data). Redirects of a strict caller and of one that
allows side effects are both among the requests. `env_allowlist` and the
decoding of the body are left out.

### AuditTrail

Every command is a process with its `pc`. `Start` and `HandlerStep` (`HandlerEnds`, `Emit`)
are `main` and `_emit`: the handler ends in any of the statuses told apart, an
unserializable payload becomes `internal_error` before it is printed, and the record is
appended after it. `AppendStep` (`Open`, `LockAndWrite`, `WriteTail`, `Sync`) is
`append_durable_line` with `write_all`, in two writes, a head and a tail, between which a
process may die and another one go on. The tail brings the newline: a line begins at the
start of a file and behind a tail, and what is written behind a head without its tail
continues the same line, on which neither record can be parsed any more. `RecordsSurvive`
says of every acknowledged record that its bytes stand whole and once, and that
it has a line to itself unless the head of a stopped writer is right before it, which
does happen (section 4). `CheckLog` and `Rename` are `_rotate_logs` in a cleanup. Files are inodes: a rename moves
the name and not the descriptors, so an append may end in an archive.
`PowerLoss` leaves of each file any prefix that holds what was synced.

Left out: the JSONL mirror of the ledger, written by the same function; the
sync of the directory entry; the redaction of URLs (string processing).

### SessionRegistry

A launcher stands for its process, its browser, the browser's record (pid and
creation time) and its profile directory: there is one of each. An empty set of
records stands for "no registry file" (a file always has a record).
`RegisterReads` and `RegisterWrites` are the two ends of the read-modify-write
under the sentinel; a cleaner takes no lock. `CheckProcess` is the part of
`_kill_pid_safely` in front of its first signal, `KillProcess` the signals and
waits, `Unlink` the end of a file. `PidIsReused` gives a dead browser's pid to
an unrelated process, which the creation time tells apart. A browser is its
whole process tree, which the code kills with it.

Left out: `dry_run`, which no command line asks for; a missing `psutil`, which
the package requires; entries that do not parse (they are skipped); the
processes between the check of a pid and the signal to it, a window in which the
operating system may reuse the pid (recorded as a hazard). The age
test of `--global-orphan-reap` compares with a number the user is free to choose,
so the files it selects are any set of existing ones.

### Approvals, ApprovalStore and TabRead

`Approvals` is what `approvals.py` promises: `grants[s]` is the record of scope
`s`, which `Add` replaces and `Revoke` removes, each in one step; `Active` and
`CanRead` are the policy. Which scope covers which URL is the constant
`Covers`: normalising and matching scopes is parsing. `ApprovalStore` shows that the file
keeps the promise. A writer waits for `.approvals.lock`
(`Acquire`), reads and edits (`Edit`), and replaces the file (`Replace`); the
lock is freed however the writer ends (`WriteFails`, `Die`). A grant
is stamped while it is edited and takes effect when the file is
replaced, so `Add` may take any time up to now. A reader takes the lock for one
read, and the model gives it the table in one step (`LoadScopes`), after it
has read the clock (`ReadClock`) and maybe waited. A file that does not parse
is met by the same `read_json_dict` and `backup_corrupt_file` as in `CacheFile`.

In `TabRead` a request takes its authorisation once and holds it against the page
at each look; the tab may navigate (`Navigate`) between any two steps.

| action | code |
|---|---|
| `ListTab`, `ReadClock`, `LoadScopes` | `_resolve_and_authorize_tab`: the tab list, the active scopes, the decision |
| `BeginListAll` | `list_tabs(all_tabs=True)`, which records its scope in front of all else |
| `Approve`, `RevokeScope` | `add_approval`, `revoke` |
| `Relist`, `LookAtFrame`, `Confirm` | `_ensure_authorized_current_url` on the second tab list and on the frame trees |
| `Evaluate` | `Runtime.evaluate`, whose URL and text are of one document, and the check of that URL |
| `Capture`, `FetchList` | the image; the list without its default-denied tabs |
| `Fail` | a browser that fails or closes the tab, a store that cannot be written, death |

There is one tab, and content is the URL it came from: nothing else decides
whether it may be returned. `moves`, `recorded`, `standing` and `backing` are
history: no guard reads them. They keep what the properties ask about,
namely how often the tab navigated around a capture, when each approval was
recorded, which are not revoked, and which were not when a request
took its authorisation. A plain `list` changes nothing and asks for no approval: it returns the first
tab, redacted as `--all` redacts its tabs, and is left out.

## 3. Runs

| run | instance | shows |
|---|---|---|
| `hosted_calls` | 3 calls, 2 sessions, 2 days, caps 1 and 2 of a daily 3, two command lines that are refused | the ledger's invariants, no reservation after a lockout, that the calls implement `DailyBudget`, that a started call ends |
| `hosted_providers` | a session of up to 3 steps under a limit of 2, a deadline of 2 ticks, costs 0..2 | known sessions are stopped once and in time; success and cost are the vendor's; the call ends |
| `read_web` | 3 readers, 2 URLs, times 0..2 | locks, duplicates, opt-in; no reader waits for ever, even for a holder that never returns |
| `readweb_handover` | 2 readers | violated: a lock can be handed over before the result is in the cache |
| `cache_file` | 3 callers of one read or write each, 2 values, TTL 0 and 1, one harm from outside | the file is a `CacheRegister`; the program never harms it |
| `http_request` | 9 requests, 5 URLs on 2 hosts, 3 addresses, 4 hops, 3 bytes | what a chain carries, where it goes, how much it returns, that it ends |
| `registry` | 2 launchers of one session, 2 cleaners | profiles, registrations and survivors; a launch ends, unless its process dies |
| `registry_tracked` | 2 launchers, 1 cleaner | violated: a cleanup can unlink a registration written after it read the file |
| `approval_store` | 3 writers, 2 scopes | the file changes as `Approvals` says, whoever fails or dies with the lock; a started request ends |
| `tab_reads` | 2 readers with every pair of requests, or 3 in one domain; 2 URLs (one default-denied), 3 scopes | nothing leaves the browser without a standing consent, over the whole life of a grant |
| `tabread_selfapproval` | 2 readers | violated: a session may be asked to approve what it has just approved |
| `audit_trail` | 3 commands of 7 sorts, up to 2 of them rotations, 2 seconds | acknowledged records are never taken apart or cut, and share a line only with what a stopped writer left; exit status, envelope and record agree; appends end |

The bounds, and why they are enough to be interesting. `NumCalls` 3: two calls
race for one session while a third spends the rest of the day. `MaxDay` 1: one midnight
falls anywhere. Caps of 1 and 2 under a daily cap of 3: two calls fit or
one does; a report of 1 or 3 is below, at or above the cap. Three readers: a
holder, one that times out, and one that takes the lock over or must not get it when the
late one leaves. `MCInit` picks the requests of the three that are worth telling
apart, and sorts those of the calls: readers and calls differ in their requests only. `MaxTime` 2: an
entry can expire between any two steps. Two launchers race for one file. Two cleaners: each may kill
what the other is looking at, or unlink what it has read. Three writers of the
store: one holds the lock, one waits for it, one starts. Two readers of a tab:
the one whose approval the other uses, while the page is one
of two between any two steps; where three use one domain, a third one revokes in between. `SessionTtl` 1 and `MaxTime` 1: a grant
may expire at any step. The self-approval run needs no time, so `MaxTime` is 0 there. Symmetry
is declared over the readers of a tab, in runs of invariants only.

A hosted session takes 3 steps at most under a limit of 2, so it may be below, at or above
it when it is polled; a deadline of 2 ticks falls between any two polls. Of the
three callers of a cache entry one may read, one repair and one replace, or two
may find the same damage. `MaxHarm` 1: one harm is what `backup_corrupt_file` is for, and it is enough to make
it rename a good record. Four hops instead of ten leave a host, come back and leave
again; `MaxBytes` 3 has bodies one below, at, one and two above it, read in one chunk, or
in more when the limit asks for one byte. `AllowDowngrade` is FALSE, its
default: TRUE removes the check. In `audit_trail` two cleanups rotate in the same second or in
two, before, between and after the writes of a third command; `MCTriples` picks the combinations of kinds. Deadlock checking is
off in all runs: every process ends, and the system then rightly stops.

Fairness. *Hosted calls*: weak fairness of a call that has started. Its waits are
bounded by the code (10 s for the database, `--max-duration-sec` for the
provider). Starting a call, aborting it and the calendar are not fair.
*Readers*: weak fairness of `Lock` / `LockTimeout` only. A provider call may
take any time, and with it the reader that holds the lock, which is the case
the five-second limit is for. *Launchers*: weak fairness of the steps past
`Popen`; their waits are bounded, except for the sentinel, which is held for one
read and one write. Each launcher takes the sentinel at most once, so weak fairness is enough for it. No fairness for
cleaners, browsers and the system. *Store writers*: weak fairness past the
start, for the same reason as launchers. *Commands* (`AuditTrail`): weak fairness of `AppendStep`
only. A handler may wait for ever (a tab read does, see below), and so may `print`, if nobody reads
the pipe, so `AppendsEnd` starts where the append does. `flock` has no time-out, and `AppendsEnd` shows
that the locks of failed and dead processes go. `AppendFails`, death and power are not fair. *Providers*: weak
fairness of the client's steps and of the clock, none of the vendor. *HTTP*:
weak fairness of `Next`, as every wait on a socket has a time-out. *Cache*:
none, for only safety is asked. None for tab reads: `websocket.recv()` has no
time limit, so a browser that stops answering stops the command, and no
liveness property would hold (recorded as a hazard).

## 4. Findings

Each of these is a run that ends in a counterexample.

* **The lock does not hand over the result** (`readweb_handover`). The
  cache is written after the release. A reader that takes the lock in between,
  without any time-out, misses and calls the provider again.
* **Cleanup loses a registration** (`registry_tracked`). `run_cleanup` reads and unlinks
  the file without the sentinel, so what is registered in between is
  deleted and its browser runs untracked.
* **An approval can be taken back by another one** (`tabread_selfapproval`).
  `add_approval` replaces any record of the same scope, whoever made it. If two
  sessions approve listing all tabs at once, the first is told to approve what
  it has just approved, though a comment promises one command is enough.

Other divergences, seen in the code while modelling it and plain
to see there or in a few steps of a model, so that they have no run:

* `interactive.py:356`: on a cost above its cap a call releases its reservation and disables
  the session, so that money spent is in no total (`LedgerMatchesAnswer` says so); `docs/`'s
  interactive-browser contract (line 39) says the reported cost is recorded.
  `specs/003-browser-reliability/contracts/interactive-browser-cli.md:27` is content with
  the lockout, but release and lockout are two transactions: in `HostedBrowser` the steps
  `ReleaseOverrun` and `Abort` of one call leave neither.
* `read_web.py:173`: the paid fallback does not use the ledger, neither caps nor
  lockout; `specs/003-browser-reliability/spec.md:125` says it must respect them.
* `approvals.py:284`: naming a persisted scope in `--approval-scope` without
  `--persist-approval` replaces its record by one that expires; the approvals contract (line
  108) says persistent grants outlive sessions.
* `lifecycle.py:506`: the archive's name has a resolution of one second and the rename replaces; the
  persistence contract (line 37) says archives are never replaced. `RecordsSurvive`
  excepts exactly these files (`replaced`). Lines 132-134 of the contract say the package does
  not rotate in-process at all, which `_rotate_logs` does.
* `cli.py:31-33` says every command has a record. One with a malformed
  `BFR_SESSION_ID` has none, as the id is looked up inside the `try` that
  absorbs failures of the append; nor has one whose stdout fails, as the envelope is printed first.
* `paths.py:246`: a writer that fails or dies between two writes leaves half a line. The next
  record continues it, and consumers have to skip the line of both (`cli.py:240`), although its append succeeded and
  was synced. The persistence contract (lines 51, 54) says "line atomic" and that
  writers lose no entries. `RecordsSurvive` excepts exactly these records (`FollowsTorn`).
* Comments give usage errors the exit status 2; `status.py` has 64. `schema` exits with 0
  whatever its envelope says, unless interrupted.
* `cache.py:108`: a record without `schema_version` passes the gate, whose docstring (line 37) calls any
  mismatch a normal miss, and makes `CacheStore.read` raise a `KeyError` (`"raised"` in `CacheFile`).
* A step count of `Infinity` in a vendor's JSON raises an `OverflowError`; an empty object in
  answer to a poll makes the code forget the cost it knew.

## 5. Proofs

TLAPS proves the following for every value of the constants.

| theorem | module | argument |
|---|---|---|
| `TypeCorrect`, `DailyCapTheorem`, `ReservationTheorem` | `HostedBrowserProofs` | inductive `IInv`: types, `ReservationHeld`, and the cap on every day, those to come included, for a call charges the date it read, which may already be over |
| `OneChargeTheorem`, `AnswerTheorem`, `OverrunTheorem` | `HostedBrowserProofs` | the same `IInv`, with what each call still owes the ledger: see below |
| `LockoutTheorem` | `HostedBrowserProofs` | from the type invariant and the recheck inside `InsertRow` |
| `BudgetTheorem` | `HostedBrowserProofs` | every step of the calls is a `Take`, a `Forgo` or a `GiveBack` of `DailyBudget`, or a stutter |
| `StopTheorem`, `AnswerTheorem` | `HostedProvidersProofs` | inductive `IInv`: nothing is stopped or returned before the end and each provider keeps to its part (`PlacesAreRight`), an answer never says more than the session had reached and a final one stays true (`LatestIsReached`), what waits to be returned is earned (`PendingIsEarned`), and who polled past the deadline polls no more (`LatePollIsLast`) |
| `TypeCorrect`, `LockTheorem`, `DuplicatesTheorem`, `OptInTheorem` | `ReadWebProofs` | inductive `IInv`: besides the properties, a reader past the lock and not late holds it (`LocksHeld`), and how a paid result comes about on its way to the cache (`PaidByOptIn`) |
| `CleanTheorem`, `RegisterTheorem` | `CacheFileProofs` | inductive `IInv`: a writer about to replace has flushed its own whole entry (`WriterIsReady`), what a reader holds was in the file while it read (`ReaderHasSeen`), and nobody sets aside what nobody harmed (`OnlyDoubtsHarm`); then one step of `CacheRegister`, or a stutter, for each action |
| `TypeCorrect`, `CarriedTheorem`, `WhereTheorem`, `WholeTheorem` | `HttpRequestProofs` | inductive `IInv`: what `headers` and `body` still hold at a hop was in every request before it (`CarriedByAll`), the number of requests follows `hop` and `pc`, the next URL has been checked, and what was read of the body is what was sent |
| `TypeCorrect`, `ProfileTheorem`, `WritersTheorem`, `SurvivorsTheorem` | `SessionRegistryProofs` | inductive `IInv`: the writer has the lock and has read all there is (`RegistryIsRead`), what a cleaner handled is gone or counted as a survivor (`HandledAreGone`), a profile lasts as long as its browser may run (`ProfilesLast`) |
| `StoreTypeCorrect`, `StoreTheorem` | `ApprovalProofs` | inductive `StoreInv`: whoever is inside holds the lock, so its draft is the present table with its own request applied; `Replace` is then a step of `Approvals` and all others stutter |
| `TypeCorrect`, `TextTheorem`, `ScreenshotTheorem`, `ListingTheorem` | `ApprovalProofs` | inductive `IInv`: every grant is what a standing approval recorded (`GrantsStand`), so what a request was authorised by backs it (`ScopesAreBacked`), and what a look at the tab says of the content taken after it (`LooksHold`) |
| `TypeCorrect`, `RecordsTheorem`, `ReportTheorem` | `AuditTrailProofs` | inductive `IInv`: what a command has done by each step, how far its record has come, and whose each piece in a file is: see below |

The daily cap needs more than first-order reasoning about one step. It is about
a sum, so `HostedBrowserProofs` proves first, by induction on the number of rows, that sums are
natural numbers, depend only on the rows they add, are at least as large as each of them, grow by
what one row grows, and do not grow when a row shrinks. From these, a reservation adds its own amount to its own
day and leaves all others alone, and settling or releasing adds to none.
`ReservationHeld` is needed beside it: a settlement lowers the total only because the
row is still there at its full cap and the report fits into it.
`OneChargePerSession` uses the sum the other way round: a reservation asks for the
whole cap its session total is tested against, so it commits only where that total
is 0, and a total of 0 has no charged row.

A record in the log survives for reasons that lie in several processes. Whoever is between the two
writes holds the lock of the file it writes to (`FileIsKept`), its head is the last piece
of that file (`RecordIsOnItsWay`), and a head that is last where nobody holds the
lock belongs to somebody who died or failed (`PieceIsOwned`), so that the next writer
continues only such lines: behind an acknowledged record there is a newline, and before it
a newline, nothing, or a head that will never be completed nor acknowledged (`BehindWhat`). A power failure leaves at least what was synced, and a
record that was acknowledged ends within it. A rename takes the name away and not the
file, which is then an archive or was renamed over.

In `CacheFile` a reader's answer is explained by what was there at some moment of its
read and not at its end, which is why `seen` is carried as history: the
refinement maps each of the reader's steps without looking ahead.

Assumptions: the named ones in the modules, all about constants (requests are
well-formed records, the values that stand for "nothing", damage or an answer are none of the others, bounds are
natural numbers). TLC evaluates them on every run.

Every invariant and every action property that a passing run checks is stated by
a theorem. Only model-checked are the liveness properties (`StartedCallsEnd`, `CallsEnd`,
`NobodyWaitsForEver`, `RequestsEnd`, `LaunchesEnd`, `AppendsEnd`): they need fairness and
`ENABLED`, which are out of the prover's reach. No `RECURSIVE` operator occurs in the
specifications: the sums are a recursive function, about which induction on numbers
says what is needed.

## 6. Plan

What is left:

1. Composition: that what `HostedProviders` returns is an answer `HostedBrowser` expects
   of `ProviderAnswers`, and that `ReadWeb`'s one step for a look at the cache is
   what `CacheRegister` allows, as theorems in place of the prose of section 2.
2. Partial answers for liveness that need no fairness: that whoever holds a lock
   or a reservation has a step to take, as an invariant beside each liveness run.

## 7. Not modelled

A screenshot of a tab that navigates away and back between the two frame trees:
`ScreenshotWasConsented` says nothing of more than one navigation there, as the
code cannot know (recorded as a hazard).

The token bucket and the circuit breaker of `cost.py`: nothing in the package
calls them, so a model would have to invent their callers.

The agent installer: one process writes adapters one after another and reports on
each; what may go wrong half-way is a hazard in the list, with no interleaving in it to check.

Commands of the CDP client that are answered out of order: the client waits for the
reply with the number of its command and drops all others.

Parsers of provider responses, the quality gate's classification, URL and address
parsing, JSON schemas, argument parsing, text layout and wording (pure data);
`doctor` and `acceptance` (they only look); adapters, skills and spec tooling
(no program state). What vendors' services do is only seen as the answers the
code distinguishes.
