-------------------------------- MODULE ReadWeb --------------------------------
(***************************************************************************)
(* `read-web`: CLI processes that read URLs through a shared file cache,   *)
(* with a lock file per cache key around the provider calls, and the paid  *)
(* fallback to Parallel.                                                   *)
(*                                                                         *)
(* A reader looks in the cache, takes the key's flock or gives up waiting  *)
(* after five seconds, looks again, calls the provider of the URL's route  *)
(* and perhaps the paid one, releases the lock, and only then writes the   *)
(* cache.  Content is abstracted to the provider that produced it.         *)
(***************************************************************************)
EXTENDS Naturals

CONSTANTS
    Readers,
    Urls,       \* normalized URLs; a URL and its route determine the cache key
    Route,      \* classify_route: the provider each URL is read with
    Requests,   \* the reads that may be asked for
    Ttl,        \* ROUTE_TTLS, in ticks
    MaxTime,    \* bound on the clock
    NoEntry,    \* stands for "no cache file"
    NoReader    \* stands for "nobody holds the lock"

Providers == {"fxtwitter", "reddit-json", "jina-reader", "parallel"}
Request == [url : Urls, allowPaid : BOOLEAN, noCache : BOOLEAN]

\* What a provider's answer can be: usable, rejected by the quality gate, or
\* any other status (blocked, auth_required, rate_limited, ...).
Answers == {"ok", "insufficient_content", "other"}

ASSUME ReadWebAssumption ==
    /\ Route \in [Urls -> Providers \ {"parallel"}]
    /\ Ttl \in [Providers -> Nat \ {0}]
    /\ Requests \subseteq Request
    /\ MaxTime \in Nat
    /\ NoReader \notin Readers
    /\ NoEntry \notin [provider : Providers, expires : Nat]

VARIABLES
    now,        \* time.time(), in ticks
    req,        \* what each reader was asked for
    pc,
    result,     \* the status and provider each reader ended up with
    late,       \* the readers whose lock acquisition timed out
    holder,     \* who holds each key's flock
    cache       \* the cache file of each key

vars == <<now, req, pc, result, late, holder, cache>>

\* An entry lives as long as its provider's TTL, whatever route led to it.
Entry == {[provider |-> p, expires |-> t + Ttl[p]] : p \in Providers, t \in 0..MaxTime}

Calling == {"fetching", "paying"}
Inside == {"rechecking", "unlocking"} \cup Calling
Steps  == {"idle", "locking", "writing", "done", "crashed"} \cup Inside

TypeOK ==
    /\ now \in 0..MaxTime
    /\ req \in [Readers -> Requests]
    /\ pc \in [Readers -> Steps]
    /\ result \in [Readers -> [status : Answers \cup {"none", "raised", "hit"},
                               provider : Providers]]
    /\ late \in SUBSET Readers
    /\ holder \in [Urls -> Readers \cup {NoReader}]
    /\ cache \in [Urls -> Entry \cup {NoEntry}]

Init ==
    /\ now = 0
    /\ req \in [Readers -> Requests]
    /\ pc = [r \in Readers |-> "idle"]
    /\ result = [r \in Readers |-> [status |-> "none", provider |-> Route[req[r].url]]]
    /\ late = {}
    /\ holder = [u \in Urls |-> NoReader]
    /\ cache = [u \in Urls |-> NoEntry]

Url(r) == req[r].url
Paid(r) == result[r].provider = "parallel"

Go(r, from, to) ==
    /\ pc[r] = from
    /\ pc' = [pc EXCEPT ![r] = to]

Becomes(r, status, provider) ==
    result' = [result EXCEPT ![r] = [status |-> status, provider |-> provider]]

--------------------------------------------------------------------------------
(* The cache and the lock. *)

\* CacheStore.read finds a usable entry.
Usable(e) == e # NoEntry /\ e.expires >= now

Hit(r) == ~ req[r].noCache /\ Usable(cache[Url(r)])

FirstLook(r) ==
    /\ \/ /\ Hit(r)
          /\ Go(r, "idle", "done")
          /\ Becomes(r, "hit", cache[Url(r)].provider)
       \/ /\ ~ Hit(r)
          /\ Go(r, "idle", "locking")
          /\ UNCHANGED result
    /\ UNCHANGED <<now, req, late, holder, cache>>

Lock(r) ==
    /\ holder[Url(r)] = NoReader
    /\ Go(r, "locking", "rechecking")
    /\ holder' = [holder EXCEPT ![Url(r)] = r]
    /\ UNCHANGED <<now, req, result, late, cache>>

\* Mutation of LockTimeout: acquire polls for as long as it takes.
LockTimeout_Never(r) ==
    /\ holder[Url(r)] = r
    /\ Go(r, "locking", "rechecking")
    /\ UNCHANGED <<now, req, result, late, holder, cache>>

\* The five seconds are over and somebody else still holds the lock: read_web
\* ignores acquire's False and goes on without it.
LockTimeout(r) ==
    /\ holder[Url(r)] # NoReader
    /\ Go(r, "locking", "rechecking")
    /\ late' = late \cup {r}
    /\ UNCHANGED <<now, req, result, holder, cache>>

Recheck(r) ==
    /\ \/ /\ Hit(r)
          /\ Go(r, "rechecking", "unlocking")
          /\ Becomes(r, "hit", cache[Url(r)].provider)
       \/ /\ ~ Hit(r)
          /\ Go(r, "rechecking", "fetching")
          /\ UNCHANGED result
    /\ UNCHANGED <<now, req, late, holder, cache>>

--------------------------------------------------------------------------------
(* The provider calls. *)

\* Mutation of MayPay: the opt-in is not asked for.
MayPay_WithoutOptIn(r, answer) ==
    /\ Route[Url(r)] = "jina-reader"
    /\ answer = "insufficient_content"

\* _maybe_paid_fallback: what leads from the primary answer to Parallel.
MayPay(r, answer) ==
    /\ Route[Url(r)] = "jina-reader"
    /\ answer = "insufficient_content"
    /\ req[r].allowPaid

FetchPrimary(r) ==
    /\ \E answer \in Answers :
          /\ Go(r, "fetching", IF MayPay(r, answer) THEN "paying" ELSE "unlocking")
          /\ Becomes(r, answer, Route[Url(r)])
    /\ UNCHANGED <<now, req, late, holder, cache>>

\* fetch_parallel: its failures, a missing key included, are statuses.
FetchPaid(r) ==
    /\ \E answer \in {"ok", "other"} :
          /\ Go(r, "paying", "unlocking")
          /\ Becomes(r, answer, "parallel")
    /\ UNCHANGED <<now, req, late, holder, cache>>

\* A SafetyError, or any other exception, out of the `try`: the `finally`
\* frees the lock, if the reader has it.
Raises(r) ==
    /\ \E from \in {"locking", "rechecking", "fetching", "paying"} : Go(r, from, "unlocking")
    /\ Becomes(r, "raised", result[r].provider)
    /\ UNCHANGED <<now, req, late, holder, cache>>

\* Where the `finally` leads.
AfterUnlock(r) ==
    IF result[r].status = "ok" /\ ~ req[r].noCache THEN "writing" ELSE "done"

\* Mutation of FreeLock: whoever leaves the lock file behind frees it.
FreeLock_Anyones(r) == holder' = [holder EXCEPT ![Url(r)] = NoReader]

\* Closing the descriptor frees the lock only if this reader has it.
FreeLock(r) ==
    holder' = IF holder[Url(r)] = r THEN [holder EXCEPT ![Url(r)] = NoReader] ELSE holder

Unlock(r) ==
    /\ Go(r, "unlocking", AfterUnlock(r))
    /\ FreeLock(r)
    /\ UNCHANGED <<now, req, result, late, cache>>

\* Mutation of Write: the TTL is that of the URL's route.
Write_RouteTtl(r) ==
    /\ Go(r, "writing", "done")
    /\ cache' \in {cache, [cache EXCEPT ![Url(r)] =
                          [provider |-> result[r].provider,
                           expires |-> now + Ttl[Route[Url(r)]]]]}
    /\ UNCHANGED <<now, req, result, late, holder>>

\* The write after the release; an OSError is reported on stderr only.
Write(r) ==
    /\ Go(r, "writing", "done")
    /\ LET p == result[r].provider IN
       cache' \in {cache, [cache EXCEPT ![Url(r)] =
                             [provider |-> p, expires |-> now + Ttl[p]]]}
    /\ UNCHANGED <<now, req, result, late, holder>>

--------------------------------------------------------------------------------
(* The environment. *)

\* Mutation of Crash: the lock outlives its process.
Crash_KeepsLock(r) ==
    /\ pc[r] \in Inside \cup {"locking", "writing"}
    /\ pc' = [pc EXCEPT ![r] = "crashed"]
    /\ UNCHANGED <<now, req, result, late, holder, cache>>

\* The process dies; the kernel closes its descriptors, hence frees its flock.
Crash(r) ==
    /\ pc[r] \in Inside \cup {"locking", "writing"}
    /\ pc' = [pc EXCEPT ![r] = "crashed"]
    /\ FreeLock(r)
    /\ UNCHANGED <<now, req, result, late, cache>>

Tick ==
    /\ now < MaxTime
    /\ now' = now + 1
    /\ UNCHANGED <<req, pc, result, late, holder, cache>>

TakeLock(r) == Lock(r) \/ LockTimeout(r)

ReaderStep(r) ==
    \/ FirstLook(r)
    \/ TakeLock(r)
    \/ Recheck(r)
    \/ FetchPrimary(r)
    \/ FetchPaid(r)
    \/ Raises(r)
    \/ Unlock(r)
    \/ Write(r)

Next ==
    \/ \E r \in Readers : ReaderStep(r) \/ Crash(r)
    \/ Tick

\* Only the polling loop of `acquire` is sure to go on: a provider call may
\* take any time, and with it whoever holds the lock.
Fairness == \A r \in Readers : WF_vars(TakeLock(r))

Spec == Init /\ [][Next]_vars /\ Fairness

--------------------------------------------------------------------------------
(* Properties. *)

\* Two readers are calling the provider of one key at the same time only if
\* the lock of one of them timed out (InflightLock: a duplicate call is the
\* price of not waiting forever, and of nothing else).
DuplicatesAreLate ==
    \A r, q \in Readers :
        /\ r # q /\ Url(r) = Url(q)
        /\ pc[r] \in Calling /\ pc[q] \in Calling
        => r \in late \/ q \in late

\* A held lock has a live holder inside the section: no exception, cache hit,
\* timeout or crash leaves a key locked (the try/finally of read_web).
LocksHaveHolders ==
    \A u \in Urls : holder[u] # NoReader =>
        pc[holder[u]] \in Inside /\ Url(holder[u]) = u /\ holder[u] \notin late

\* A paid page is in the cache only because some reader of that URL opted in,
\* and Reddit and X pages never are paid ("Reddit/X never fall back").
PaidPagesWereOptedIn ==
    \A u \in Urls : cache[u] # NoEntry /\ cache[u].provider = "parallel" =>
        /\ Route[u] = "jina-reader"
        /\ \E r \in Readers : Url(r) = u /\ req[r].allowPaid /\ ~ req[r].noCache

\* No reader waits for the lock for ever, even if its holder never returns
\* ("better to double-charge once than to lock up indefinitely").
NobodyWaitsForEver == \A r \in Readers : pc[r] = "locking" ~> pc[r] # "locking"

\* Inductive: a reader past the lock and not late has it, and one that has
\* not passed it cannot be late.
LocksHeld ==
    \A r \in Readers :
        /\ pc[r] \in Calling \cup {"rechecking"} /\ r \notin late => holder[Url(r)] = r
        /\ pc[r] \in {"idle", "locking"} => r \notin late

\* Inductive: how a paid result comes about on its way to the cache.
PaidByOptIn ==
    \A r \in Readers :
        /\ pc[r] \in {"idle", "locking", "rechecking"} \cup Calling => ~ Paid(r)
        /\ pc[r] = "paying" \/ (Paid(r) /\ result[r].status # "hit")
             => Route[Url(r)] = "jina-reader" /\ req[r].allowPaid
        /\ pc[r] = "writing" => result[r].status = "ok" /\ ~ req[r].noCache

IInv == TypeOK /\ LocksHaveHolders /\ LocksHeld /\ PaidByOptIn /\ PaidPagesWereOptedIn

(* What comments and documents say and the code does not do. *)

\* "Recheck cache after lock - another process may have populated it"
\* (read_web.py:88): a reader that got the lock does not call the provider
\* again while a result for its key is on its way into the cache.
LockHandsOverResult ==
    \A r, q \in Readers :
        /\ pc[r] \in Calling /\ r \notin late /\ ~ req[r].noCache
        /\ pc[q] = "writing" /\ q \notin late
        => Url(r) # Url(q)
==============================================================================
