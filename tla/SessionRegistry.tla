---------------------------- MODULE SessionRegistry ----------------------------
(***************************************************************************)
(* The browsers `read-user-tabs setup --launch` starts, the per-session    *)
(* registry file that remembers them, and the `cleanup` processes that     *)
(* kill what the file lists and unlink it.                                 *)
(*                                                                         *)
(* A launcher is one CLI process with one browser, so it also stands for   *)
(* the browser, for its record (pid and create_time) and for its profile   *)
(* directory.  A browser is a whole process tree.                          *)
(***************************************************************************)
EXTENDS FiniteSets

CONSTANTS
    Launchers,
    Cleaners,
    Sessions,
    SessionOf,  \* current_session_id of each launcher
    Nobody      \* stands for "nobody holds the lock"

ASSUME RegistryAssumption ==
    /\ SessionOf \in [Launchers -> Sessions]
    /\ Nobody \notin Launchers

VARIABLES
    browser,    \* the browser of each launcher
    reused,     \* the gone browsers whose pid the system gave to a stranger
    profile,    \* the profile directories that exist
    registry,   \* the records in each session's file, {} if there is no file
    lock,       \* who holds each session's sentinel lock
    lpc,        \* the launchers' control state
    read,       \* the records each launcher read before it writes
    cpc,        \* the cleaners' control state
    targets,    \* the files each cleaner has yet to process
    at,         \* the file it is processing
    file,       \* the records it read from that file
    victim,     \* the record whose process it is killing
    handled,    \* those it has dealt with
    failed      \* those of them that survived

launchVars == <<lock, lpc, read>>
cleanVars == <<cpc, targets, at, file, victim, handled, failed>>
vars == <<browser, reused, profile, registry, launchVars, cleanVars>>

Launching == {"spawning", "waiting", "registering", "writing", "stopping", "removing"}

TypeOK ==
    /\ browser \in [Launchers -> {"none", "running", "gone"}]
    /\ reused \subseteq {l \in Launchers : browser[l] = "gone"}
    /\ profile \subseteq Launchers
    /\ registry \in [Sessions -> SUBSET Launchers]
    /\ lock \in [Sessions -> Launchers \cup {Nobody}]
    /\ lpc \in [Launchers -> Launching \cup {"idle", "launched", "failed", "crashed"}]
    /\ read \in [Launchers -> SUBSET Launchers]
    /\ cpc \in [Cleaners -> {"idle", "looping", "checking", "killing", "done", "crashed"}]
    /\ targets \in [Cleaners -> SUBSET Sessions]
    /\ at \in [Cleaners -> Sessions]
    /\ file \in [Cleaners -> SUBSET Launchers]
    /\ victim \in [Cleaners -> Launchers]
    /\ handled \in [Cleaners -> SUBSET Launchers]
    /\ failed \in [Cleaners -> SUBSET Launchers]
    /\ \A c \in Cleaners : failed[c] \subseteq handled[c] /\ handled[c] \subseteq file[c]

Init ==
    /\ browser = [l \in Launchers |-> "none"]
    /\ reused = {}
    /\ profile = {}
    /\ registry = [s \in Sessions |-> {}]
    /\ lock = [s \in Sessions |-> Nobody]
    /\ lpc = [l \in Launchers |-> "idle"]
    /\ read = [l \in Launchers |-> {}]
    /\ cpc = [c \in Cleaners |-> "idle"]
    /\ targets = [c \in Cleaners |-> {}]
    /\ at \in [Cleaners -> Sessions]
    /\ file = [c \in Cleaners |-> {}]
    /\ victim \in [Cleaners -> Launchers]
    /\ handled = [c \in Cleaners |-> {}]
    /\ failed = [c \in Cleaners |-> {}]

--------------------------------------------------------------------------------
(* setup_cdp. *)

Goto(l, from, to) ==
    /\ lpc[l] = from
    /\ lpc' = [lpc EXCEPT ![l] = to]

MakeProfile(l) ==
    /\ Goto(l, "idle", "spawning")
    /\ profile' = profile \cup {l}
    /\ UNCHANGED <<browser, reused, registry, lock, read, cleanVars>>

Spawn(l) ==
    /\ Goto(l, "spawning", "waiting")
    /\ browser' = [browser EXCEPT ![l] = "running"]
    /\ UNCHANGED <<reused, profile, registry, lock, read, cleanVars>>

SpawnFails(l) ==
    /\ Goto(l, "spawning", "removing")
    /\ UNCHANGED <<browser, reused, profile, registry, lock, read, cleanVars>>

\* _wait_for_cdp_ready: the port answers, perhaps for another browser, or not.
CdpAnswers(l) ==
    /\ Goto(l, "waiting", "registering") \/ Goto(l, "waiting", "stopping")
    /\ UNCHANGED <<browser, reused, profile, registry, lock, read, cleanVars>>

\* Mutation of RegisterReads: no lock around the read-modify-write.
RegisterReads_Unlocked(l) ==
    LET s == SessionOf[l] IN
    /\ Goto(l, "registering", "writing")
    /\ read' = [read EXCEPT ![l] = registry[s]]
    /\ UNCHANGED <<browser, reused, profile, registry, lock, cleanVars>>

\* register_process takes the sentinel lock and reads the file.
RegisterReads(l) ==
    LET s == SessionOf[l] IN
    /\ lock[s] = Nobody
    /\ Goto(l, "registering", "writing")
    /\ lock' = [lock EXCEPT ![s] = l]
    /\ read' = [read EXCEPT ![l] = registry[s]]
    /\ UNCHANGED <<browser, reused, profile, registry, cleanVars>>

\* The kernel frees the lock a process leaves behind, however it leaves.
FreeLock(l) ==
    LET s == SessionOf[l] IN
    lock' = IF lock[s] = l THEN [lock EXCEPT ![s] = Nobody] ELSE lock

\* It replaces the file by what it read and its own record.
RegisterWrites(l) ==
    LET s == SessionOf[l] IN
    /\ Goto(l, "writing", "launched")
    /\ registry' = [registry EXCEPT ![s] = read[l] \cup {l}]
    /\ FreeLock(l)
    /\ UNCHANGED <<browser, reused, profile, read, cleanVars>>

\* The browser is gone already, or the disk is full.
RegisterFails(l) ==
    /\ Goto(l, "registering", "stopping") \/ Goto(l, "writing", "stopping")
    /\ FreeLock(l)
    /\ UNCHANGED <<browser, reused, profile, registry, read, cleanVars>>

\* _terminate_process swallows every failure: the browser may survive it.
Terminate(l) ==
    /\ Goto(l, "stopping", "removing")
    /\ browser' \in {browser, [browser EXCEPT ![l] = "gone"]}
    /\ UNCHANGED <<reused, profile, registry, lock, read, cleanVars>>

\* rmtree(ignore_errors=True)
RemoveProfile(l) ==
    /\ Goto(l, "removing", "failed")
    /\ profile' \in {profile, profile \ {l}}
    /\ UNCHANGED <<browser, reused, registry, lock, read, cleanVars>>

\* Mutation of LauncherDies: the lock outlives its process.
LauncherDies_KeepsLock(l) ==
    /\ lpc[l] \in Launching
    /\ lpc' = [lpc EXCEPT ![l] = "crashed"]
    /\ UNCHANGED <<browser, reused, profile, registry, lock, read, cleanVars>>

\* Ctrl-C included; the browser has a session of its own and lives on.
LauncherDies(l) ==
    /\ lpc[l] \in Launching
    /\ lpc' = [lpc EXCEPT ![l] = "crashed"]
    /\ FreeLock(l)
    /\ UNCHANGED <<browser, reused, profile, registry, read, cleanVars>>

--------------------------------------------------------------------------------
(* run_cleanup, without dry_run: no command line asks for it. *)

\* The file of one session (--all), or whichever are old enough
\* (--global-orphan-reap with any --max-age-days).
ChooseTargets(c) ==
    /\ cpc[c] = "idle"
    /\ \E old \in SUBSET {s \in Sessions : registry[s] # {}} :
          targets' = [targets EXCEPT ![c] = old]
    /\ cpc' = [cpc EXCEPT ![c] = "looping"]
    /\ UNCHANGED <<browser, reused, profile, registry, launchVars, at, file, victim, handled, failed>>

\* The next file is read, without the lock.
ReadFile(c, s) ==
    /\ cpc[c] = "looping"
    /\ s \in targets[c]
    /\ cpc' = [cpc EXCEPT ![c] = "checking"]
    /\ targets' = [targets EXCEPT ![c] = @ \ {s}]
    /\ at' = [at EXCEPT ![c] = s]
    /\ file' = [file EXCEPT ![c] = registry[s]]
    /\ handled' = [handled EXCEPT ![c] = {}]
    /\ failed' = [failed EXCEPT ![c] = {}]
    /\ UNCHANGED <<browser, reused, profile, registry, launchVars, victim>>

\* Mutation of Outcome: the profile goes whatever became of the browser.
Outcome_RemovesProfile(c, l, outcome) ==
    /\ cpc' = [cpc EXCEPT ![c] = "checking"]
    /\ handled' = [handled EXCEPT ![c] = @ \cup {l}]
    /\ UNCHANGED victim
    /\ failed' = [failed EXCEPT ![c] = IF outcome = "failed" THEN @ \cup {l} ELSE @]
    /\ profile' \in {profile, profile \ {l}}

\* One record is dealt with; its profile goes only if it was cleaned, and
\* if removing it works.
Outcome(c, l, outcome) ==
    /\ cpc' = [cpc EXCEPT ![c] = "checking"]
    /\ handled' = [handled EXCEPT ![c] = @ \cup {l}]
    /\ UNCHANGED victim
    /\ failed' = [failed EXCEPT ![c] = IF outcome = "failed" THEN @ \cup {l} ELSE @]
    /\ IF outcome = "cleaned" THEN profile' \in {profile, profile \ {l}}
                              ELSE UNCHANGED profile

\* Mutation of CheckProcess: the file is read again for each record.
CheckProcess_Rereads(c, l) ==
    /\ cpc[c] = "checking"
    /\ l \in registry[at[c]] \ handled[c]
    /\ \/ browser[l] = "gone" /\ l \notin reused /\ Outcome(c, l, "cleaned")
       \/ l \in reused /\ Outcome(c, l, "skipped")
       \/ Outcome(c, l, "failed")
       \/ /\ browser[l] = "running"
          /\ cpc' = [cpc EXCEPT ![c] = "killing"]
          /\ victim' = [victim EXCEPT ![c] = l]
          /\ UNCHANGED <<profile, handled, failed>>
    /\ UNCHANGED <<browser, reused, registry, launchVars, targets, at, file>>

\* _kill_pid_safely up to its first signal: the pid is free, a stranger's, or
\* ours; or psutil may not look at it.
CheckProcess(c, l) ==
    /\ cpc[c] = "checking"
    /\ l \in file[c] \ handled[c]
    /\ \/ browser[l] = "gone" /\ l \notin reused /\ Outcome(c, l, "cleaned")
       \/ l \in reused /\ Outcome(c, l, "skipped")
       \/ Outcome(c, l, "failed")
       \/ /\ browser[l] = "running"
          /\ cpc' = [cpc EXCEPT ![c] = "killing"]
          /\ victim' = [victim EXCEPT ![c] = l]
          /\ UNCHANGED <<profile, handled, failed>>
    /\ UNCHANGED <<browser, reused, registry, launchVars, targets, at, file>>

\* Mutation of KillProcess: "cleaned" is declared after the grace period,
\* whether or not the process exited (round-11 i06).
KillProcess_AssumesSuccess(c, l) ==
    /\ cpc[c] = "killing" /\ l = victim[c]
    /\ browser' \in {browser, [browser EXCEPT ![l] = "gone"]}
    /\ Outcome(c, l, "cleaned")
    /\ UNCHANGED <<reused, registry, launchVars, targets, at, file>>

\* SIGTERM, SIGKILL and two waits: "cleaned" if the tree is gone.
KillProcess(c, l) ==
    /\ cpc[c] = "killing" /\ l = victim[c]
    /\ browser' \in {browser, [browser EXCEPT ![l] = "gone"]}
    /\ Outcome(c, l, IF browser'[l] = "gone" THEN "cleaned" ELSE "failed")
    /\ UNCHANGED <<reused, registry, launchVars, targets, at, file>>

\* Mutation of Unlink: survivors do not keep the file.
Unlink_Always(c) ==
    /\ cpc[c] = "checking"
    /\ handled[c] = file[c]
    /\ cpc' = [cpc EXCEPT ![c] = "looping"]
    /\ registry' \in {registry, [registry EXCEPT ![at[c]] = {}]}
    /\ UNCHANGED <<browser, reused, profile, launchVars, targets, at, file, victim, handled, failed>>

\* All records of the file are dealt with: it goes, without the lock, unless
\* one of them survived; an OSError is ignored.
Unlink(c) ==
    /\ cpc[c] = "checking"
    /\ handled[c] = file[c]
    /\ cpc' = [cpc EXCEPT ![c] = "looping"]
    /\ \/ UNCHANGED registry
       \/ failed[c] = {} /\ registry' = [registry EXCEPT ![at[c]] = {}]
    /\ UNCHANGED <<browser, reused, profile, launchVars, targets, at, file, victim, handled, failed>>

FinishCleanup(c) ==
    /\ cpc[c] = "looping"
    /\ targets[c] = {}
    /\ cpc' = [cpc EXCEPT ![c] = "done"]
    /\ UNCHANGED <<browser, reused, profile, registry, launchVars,
                   targets, at, file, victim, handled, failed>>

CleanerDies(c) ==
    /\ cpc[c] \notin {"idle", "done", "crashed"}
    /\ cpc' = [cpc EXCEPT ![c] = "crashed"]
    /\ UNCHANGED <<browser, reused, profile, registry, launchVars,
                   targets, at, file, victim, handled, failed>>

--------------------------------------------------------------------------------
(* The system around them. *)

BrowserExits(l) ==
    /\ browser[l] = "running"
    /\ browser' = [browser EXCEPT ![l] = "gone"]
    /\ UNCHANGED <<reused, profile, registry, launchVars, cleanVars>>

PidIsReused(l) ==
    /\ browser[l] = "gone" /\ l \notin reused
    /\ reused' = reused \cup {l}
    /\ UNCHANGED <<browser, profile, registry, launchVars, cleanVars>>

StrangerExits(l) ==
    /\ l \in reused
    /\ reused' = reused \ {l}
    /\ UNCHANGED <<browser, profile, registry, launchVars, cleanVars>>

LauncherStep(l) ==
    \/ MakeProfile(l) \/ Spawn(l) \/ SpawnFails(l)
    \/ CdpAnswers(l)
    \/ RegisterReads(l) \/ RegisterWrites(l) \/ RegisterFails(l)
    \/ Terminate(l) \/ RemoveProfile(l)

CleanerStep(c) ==
    \/ ChooseTargets(c)
    \/ \E s \in Sessions : ReadFile(c, s)
    \/ \E l \in Launchers : CheckProcess(c, l) \/ KillProcess(c, l)
    \/ Unlink(c)
    \/ FinishCleanup(c)

Next ==
    \/ \E l \in Launchers :
          LauncherStep(l) \/ LauncherDies(l)
            \/ BrowserExits(l) \/ PidIsReused(l) \/ StrangerExits(l)
    \/ \E c \in Cleaners : CleanerStep(c) \/ CleanerDies(c)

\* A launcher past its Popen has no wait without an end but the lock's, whose
\* holder only reads and writes one file.
Fairness ==
    \A l \in Launchers :
        /\ WF_vars(CdpAnswers(l))
        /\ WF_vars(RegisterReads(l))
        /\ WF_vars(lpc[l] = "writing" /\ (RegisterWrites(l) \/ RegisterFails(l)))
        /\ WF_vars(Terminate(l)) /\ WF_vars(RemoveProfile(l))

Spec == Init /\ [][Next]_vars /\ Fairness

--------------------------------------------------------------------------------
(* Properties. *)

\* A launcher never drops the record of another one: registrations of one
\* session serialize across the replacement of the file (L7, the stale-inode
\* race).
WritersKeepRecords ==
    [][\A s \in Sessions :
         registry[s] # {} /\ registry'[s] # {} => registry[s] \subseteq registry'[s]]_vars

\* A file goes only when a cleaner has seen the end of every browser it read
\* from it: a survivor stays tracked for a retry (L6).
SurvivorsStayTracked ==
    [][\A s \in Sessions :
         registry[s] # {} /\ registry'[s] = {} =>
            \E c \in Cleaners :
                /\ cpc[c] = "checking" /\ at[c] = s
                /\ \A l \in file[c] : browser[l] # "running"]_vars

\* No cleanup removes the profile directory under a browser that runs, though
\* other processes launch, register, kill and reuse pids at the same time.
RunningBrowsersHaveProfiles ==
    \A l \in Launchers : lpc[l] = "launched" /\ browser[l] = "running" => l \in profile

\* A browser once started is registered or given up, unless its launcher
\* dies: nobody waits for the sentinel lock for ever.
LaunchesEnd ==
    \A l \in Launchers : lpc[l] = "waiting" ~> lpc[l] \in {"launched", "failed", "crashed"}

\* Inductive: the writer has the lock and has read all the file says; what a
\* cleaner has dealt with is gone or counted as failed; a profile lasts as
\* long as its browser may still run.
RegistryIsRead ==
    \A l \in Launchers : lpc[l] = "writing" =>
        lock[SessionOf[l]] = l /\ registry[SessionOf[l]] \subseteq read[l]

HandledAreGone ==
    \A c \in Cleaners :
        /\ \A l \in handled[c] \ failed[c] : browser[l] = "gone"
        /\ cpc[c] = "killing" => victim[c] \in file[c] /\ browser[victim[c]] # "none"

ProfilesLast ==
    \A l \in Launchers :
        /\ lpc[l] \in {"spawning", "waiting", "registering", "writing", "launched"}
             /\ browser[l] # "gone" => l \in profile
        /\ lpc[l] \in {"idle", "spawning"} => browser[l] = "none"

IInv == TypeOK /\ RegistryIsRead /\ HandledAreGone /\ ProfilesLast

\* What the code does not do: the sentinel lock "used to serialize
\* register_process / run_cleanup writes for a session" (_registry_lock_path)
\* keeps a running browser's registration from being lost.
LaunchedStaysTracked ==
    \A l \in Launchers :
        lpc[l] = "launched" /\ browser[l] = "running" => l \in registry[SessionOf[l]]
==============================================================================
