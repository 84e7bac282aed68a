------------------------- MODULE SessionRegistryProofs -------------------------
(***************************************************************************)
(* The session registry, for any number of launchers, cleaners and         *)
(* sessions: registrations serialize, survivors stay tracked, and running  *)
(* browsers keep their profiles.                                           *)
(***************************************************************************)
EXTENDS SessionRegistry, TLAPS

LEMMA InitIInv == Init => IInv
PROOF
  BY RegistryAssumption DEF Init, IInv, TypeOK, RegistryIsRead, HandledAreGone, ProfilesLast,
     Launching

\* What a launcher does to its browser, its profile and its file.
LEMMA LauncherKeepsIInv ==
  ASSUME IInv, NEW l \in Launchers, LauncherStep(l) \/ LauncherDies(l)
  PROVE  IInv'
PROOF
  <1> USE RegistryAssumption DEF IInv, TypeOK, RegistryIsRead, HandledAreGone, ProfilesLast,
          Launching, Goto, cleanVars
  <1>1. CASE MakeProfile(l)
    BY <1>1 DEF MakeProfile
  <1>2. CASE Spawn(l)
    BY <1>2 DEF Spawn
  <1>3. CASE SpawnFails(l)
    BY <1>3 DEF SpawnFails
  <1>4. CASE CdpAnswers(l)
    <2>1. UNCHANGED <<browser, reused, profile, registry, lock, read, cleanVars>>
      BY <1>4 DEF CdpAnswers
    <2>2. CASE Goto(l, "waiting", "registering")
      BY <2>1, <2>2
    <2>3. CASE Goto(l, "waiting", "stopping")
      BY <2>1, <2>3
    <2> QED BY <1>4, <2>2, <2>3 DEF CdpAnswers
  <1>5. CASE RegisterReads(l)
    BY <1>5 DEF RegisterReads
  <1>6. CASE RegisterWrites(l)
    BY <1>6 DEF RegisterWrites, FreeLock
  <1>7. CASE RegisterFails(l)
    <2>1. /\ FreeLock(l)
          /\ UNCHANGED <<browser, reused, profile, registry, read, cleanVars>>
      BY <1>7 DEF RegisterFails
    <2>2. CASE Goto(l, "registering", "stopping")
      BY <2>1, <2>2 DEF FreeLock
    <2>3. CASE Goto(l, "writing", "stopping")
      BY <2>1, <2>3 DEF FreeLock
    <2> QED BY <1>7, <2>2, <2>3 DEF RegisterFails
  <1>8. CASE Terminate(l)
    BY <1>8 DEF Terminate
  <1>9. CASE RemoveProfile(l)
    BY <1>9 DEF RemoveProfile
  <1>10. CASE LauncherDies(l)
    BY <1>10 DEF LauncherDies, FreeLock
  <1> QED
    BY <1>1, <1>2, <1>3, <1>4, <1>5, <1>6, <1>7, <1>8, <1>9, <1>10 DEF LauncherStep

\* What a cleaner does keeps it too.
LEMMA CleanerKeepsIInv ==
  ASSUME IInv, NEW c \in Cleaners, CleanerStep(c) \/ CleanerDies(c)
  PROVE  IInv'
PROOF
  <1> USE DEF IInv, TypeOK, RegistryIsRead, HandledAreGone, ProfilesLast, launchVars
  <1>1. CASE ChooseTargets(c)
    BY <1>1 DEF ChooseTargets
  <1>2. ASSUME NEW s \in Sessions, ReadFile(c, s) PROVE IInv'
    BY <1>2 DEF ReadFile
  <1>3. ASSUME NEW l \in Launchers, CheckProcess(c, l) PROVE IInv'
    <2>1. CASE browser[l] = "gone" /\ Outcome(c, l, "cleaned")
      BY <1>3, <2>1 DEF CheckProcess, Outcome
    <2>2. CASE l \in reused /\ Outcome(c, l, "skipped")
      BY <1>3, <2>2 DEF CheckProcess, Outcome
    <2>3. CASE Outcome(c, l, "failed")
      BY <1>3, <2>3 DEF CheckProcess, Outcome
    <2>4. CASE /\ browser[l] = "running"
               /\ cpc' = [cpc EXCEPT ![c] = "killing"]
               /\ victim' = [victim EXCEPT ![c] = l]
               /\ UNCHANGED <<profile, handled, failed>>
      BY <1>3, <2>4 DEF CheckProcess
    <2>5. \/ browser[l] = "gone" /\ Outcome(c, l, "cleaned")
          \/ l \in reused /\ Outcome(c, l, "skipped")
          \/ Outcome(c, l, "failed")
          \/ /\ browser[l] = "running"
             /\ cpc' = [cpc EXCEPT ![c] = "killing"]
             /\ victim' = [victim EXCEPT ![c] = l]
             /\ UNCHANGED <<profile, handled, failed>>
      BY <1>3 DEF CheckProcess
    <2> HIDE DEF IInv
    <2> QED BY <2>1, <2>2, <2>3, <2>4, <2>5
  <1>4. ASSUME NEW l \in Launchers, KillProcess(c, l) PROVE IInv'
    <2>1. browser'[l] = "gone" \/ (browser' = browser /\ browser[l] # "gone")
      BY <1>4 DEF KillProcess
    <2>2. CASE browser'[l] = "gone"
      <3>1. /\ cpc' = [cpc EXCEPT ![c] = "checking"]
            /\ handled' = [handled EXCEPT ![c] = @ \cup {l}]
            /\ failed' = failed
            /\ profile' \in {profile, profile \ {l}}
            /\ UNCHANGED <<reused, registry, lock, lpc, read, targets, at, file, victim>>
        BY <1>4, <2>2 DEF KillProcess, Outcome
      <3>2. \A k \in Launchers : browser'[k] = browser[k] \/ browser'[k] = "gone"
        BY <1>4 DEF KillProcess
      <3>3. browser' \in [Launchers -> {"none", "running", "gone"}]
        BY <1>4 DEF KillProcess
      <3>4. lpc[l] \notin {"idle", "spawning"}
        BY <1>4, <2>2, <3>1 DEF KillProcess
      <3> QED BY <1>4, <2>2, <3>1, <3>2, <3>3, <3>4 DEF KillProcess
    <2>3. CASE browser' = browser /\ browser[l] # "gone"
      BY <1>4, <2>3 DEF KillProcess, Outcome
    <2> QED BY <2>1, <2>2, <2>3
  <1>5. CASE Unlink(c)
    <2>1. CASE UNCHANGED registry
      BY <1>5, <2>1 DEF Unlink
    <2>2. CASE registry' = [registry EXCEPT ![at[c]] = {}]
      BY <1>5, <2>2 DEF Unlink
    <2> QED BY <1>5, <2>1, <2>2 DEF Unlink
  <1>6. CASE FinishCleanup(c) \/ CleanerDies(c)
    BY <1>6 DEF FinishCleanup, CleanerDies
  <1> QED BY <1>1, <1>2, <1>3, <1>4, <1>5, <1>6 DEF CleanerStep

LEMMA NextIInv == IInv /\ [Next]_vars => IInv'
PROOF
  <1> SUFFICES ASSUME IInv, [Next]_vars PROVE IInv'
    OBVIOUS
  <1>1. ASSUME NEW l \in Launchers, BrowserExits(l) \/ PidIsReused(l) \/ StrangerExits(l)
        PROVE  IInv'
    <2> USE DEF IInv, TypeOK, RegistryIsRead, HandledAreGone, ProfilesLast, launchVars,
            cleanVars
    <2>1. CASE BrowserExits(l)
      BY <2>1 DEF BrowserExits
    <2>2. CASE PidIsReused(l)
      BY <2>2 DEF PidIsReused
    <2>3. CASE StrangerExits(l)
      BY <2>3 DEF StrangerExits
    <2> QED BY <1>1, <2>1, <2>2, <2>3
  <1>2. CASE UNCHANGED vars
    BY <1>2 DEF vars, launchVars, cleanVars, IInv, TypeOK, RegistryIsRead, HandledAreGone,
       ProfilesLast
  <1> QED
    BY <1>1, <1>2, LauncherKeepsIInv, CleanerKeepsIInv DEF Next

LEMMA IInvHolds == Spec => []IInv
PROOF
  BY InitIInv, NextIInv, PTL DEF Spec

\* Every variable of the launchers, the cleaners and the file has its type.
THEOREM TypeCorrect == Spec => []TypeOK
PROOF
  <1>1. IInv => TypeOK
    BY DEF IInv
  <1> QED BY <1>1, IInvHolds, PTL

\* No cleanup removes the profile under a registered browser that runs.
THEOREM ProfileTheorem == Spec => []RunningBrowsersHaveProfiles
PROOF
  <1>1. IInv => RunningBrowsersHaveProfiles
    BY DEF IInv, ProfilesLast, RunningBrowsersHaveProfiles
  <1> QED BY <1>1, IInvHolds, PTL

\* Only RegisterWrites adds records, and only Unlink takes them away.
LEMMA RegistryChanges ==
  ASSUME [Next]_vars, NEW s \in Sessions, registry'[s] # registry[s]
  PROVE  \/ \E l \in Launchers : RegisterWrites(l)
         \/ \E c \in Cleaners : Unlink(c)
PROOF
  <1> USE DEF launchVars, cleanVars
  <1>1. ASSUME NEW l \in Launchers, LauncherStep(l) \/ LauncherDies(l)
        PROVE  RegisterWrites(l)
    BY <1>1 DEF LauncherStep, LauncherDies, MakeProfile, Spawn, SpawnFails, CdpAnswers,
       RegisterReads, RegisterFails, Terminate, RemoveProfile
  <1>2. ASSUME NEW c \in Cleaners, CleanerStep(c) \/ CleanerDies(c)
        PROVE  Unlink(c)
    BY <1>2 DEF CleanerStep, CleanerDies, ChooseTargets, ReadFile, CheckProcess, KillProcess,
       FinishCleanup
  <1>3. ~ UNCHANGED vars
    BY DEF vars
  <1>4. \A l \in Launchers : ~ (BrowserExits(l) \/ PidIsReused(l) \/ StrangerExits(l))
    BY DEF BrowserExits, PidIsReused, StrangerExits
  <1> QED BY <1>1, <1>2, <1>3, <1>4 DEF Next

\* Registrations of one session serialize: no writer drops a record.
THEOREM WritersTheorem == Spec => WritersKeepRecords
PROOF
  <1> DEFINE Keep == \A s \in Sessions : registry[s] # {} /\ registry'[s] # {}
                       => registry[s] \subseteq registry'[s]
  <1>1. IInv /\ [Next]_vars => Keep
    <2> SUFFICES ASSUME IInv, [Next]_vars, NEW s \in Sessions, registry'[s] # registry[s],
                        registry[s] # {}, registry'[s] # {}
                 PROVE  registry[s] \subseteq registry'[s]
      OBVIOUS
    <2>1. CASE \E l \in Launchers : RegisterWrites(l)
      BY <2>1, RegistryAssumption DEF RegisterWrites, Goto, IInv, TypeOK, RegistryIsRead
    <2>2. CASE \E c \in Cleaners : Unlink(c)
      BY <2>2 DEF Unlink, IInv, TypeOK
    <2> QED BY <2>1, <2>2, RegistryChanges
  <1>2. IInv /\ [Next]_vars => [Keep]_vars
    BY <1>1
  <1> HIDE DEF Keep
  <1>3. Spec => [][Keep]_vars
    BY <1>2, IInvHolds, PTL DEF Spec
  <1> QED BY <1>3 DEF Keep, WritersKeepRecords

\* A file goes only once every browser its cleaner read from it is gone.
THEOREM SurvivorsTheorem == Spec => SurvivorsStayTracked
PROOF
  <1> DEFINE Seen == \A s \in Sessions : registry[s] # {} /\ registry'[s] = {} =>
                       \E c \in Cleaners :
                          /\ cpc[c] = "checking" /\ at[c] = s
                          /\ \A l \in file[c] : browser[l] # "running"
  <1>1. IInv /\ [Next]_vars => Seen
    <2> SUFFICES ASSUME IInv, [Next]_vars, NEW s \in Sessions, registry[s] # {},
                        registry'[s] = {}
                 PROVE  \E c \in Cleaners :
                          /\ cpc[c] = "checking" /\ at[c] = s
                          /\ \A l \in file[c] : browser[l] # "running"
      OBVIOUS
    <2>1. CASE \E l \in Launchers : RegisterWrites(l)
      <3>1. PICK l \in Launchers : RegisterWrites(l)
        BY <2>1
      <3>2. registry' = [registry EXCEPT ![SessionOf[l]] = read[l] \cup {l}]
        BY <3>1 DEF RegisterWrites
      <3> QED BY <3>2 DEF IInv, TypeOK
    <2>2. CASE \E c \in Cleaners : Unlink(c)
      BY <2>2 DEF Unlink, IInv, TypeOK, HandledAreGone
    <2> QED BY <2>1, <2>2, RegistryChanges
  <1>2. IInv /\ [Next]_vars => [Seen]_vars
    BY <1>1
  <1> HIDE DEF Seen
  <1>3. Spec => [][Seen]_vars
    BY <1>2, IInvHolds, PTL DEF Spec
  <1> QED BY <1>3 DEF Seen, SurvivorsStayTracked
================================================================================
