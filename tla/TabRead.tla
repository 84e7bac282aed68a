-------------------------------- MODULE TabRead --------------------------------
(***************************************************************************)
(* `read-user-tabs`: CLI processes that list, read or capture a tab of the *)
(* user's browser under the approvals of Approvals, or revoke one.  A      *)
(* request takes its authorisation once, from its own scope and from the   *)
(* store, and holds it against the page's URL at each look; the tab        *)
(* navigates whenever it likes.  There is one tab; content is the URL it   *)
(* came from.                                                              *)
(***************************************************************************)
EXTENDS Approvals

CONSTANTS
    Readers,
    Requests,       \* the command lines that may be run
    ListAllTabs,    \* the scope `exact:list-all-tabs`
    NoScope,        \* stands for "no --approval-scope"
    Nothing,        \* stands for "no content"
    Never           \* stands for "no approval recorded"

Ops == {"text", "screenshot", "list_all", "revoke"}
Request == [op : Ops, session : Sessions, scope : Scopes \cup {NoScope}, persist : BOOLEAN]

ASSUME TabReadAssumption ==
    /\ Requests \subseteq Request
    /\ ListAllTabs \in ExactScopes
    /\ \A u \in Urls : <<ListAllTabs, u>> \notin Covers
    /\ NoScope \notin Scopes
    /\ Nothing \notin Urls
    /\ Never \notin Nat

VARIABLES
    page,       \* the URL the tab shows
    req, pc,
    url,        \* the tab's URL in the list each reader fetched
    clock,      \* the time its list_active_scopes read
    scopes,     \* its persistent_scopes
    content,    \* what it got from the tab
    moves,      \* history: how often the tab has navigated since its look, up to 2
    recorded,   \* history: when its approval was recorded
    standing,   \* history: the readers whose approval is not revoked
    backing     \* history: `standing` when the reader took its authorisation

readVars == <<req, pc, url, clock, scopes, content>>
history == <<moves, recorded, standing, backing>>
vars == <<now, grants, page, req, pc, url, clock, scopes, content,
          moves, recorded, standing, backing>>

Steps == {"idle", "listed", "loading", "approving", "connecting", "framing",
          "evaluating", "capturing", "confirming", "denied", "failed", "done"}

TypeOK ==
    /\ ApprovalsTypeOK
    /\ page \in Urls
    /\ req \in [Readers -> Requests]
    /\ pc \in [Readers -> Steps]
    /\ url \in [Readers -> Urls \cup {Nothing}]
    /\ clock \in [Readers -> 0..MaxTime]
    /\ scopes \in [Readers -> SUBSET Scopes]
    /\ content \in [Readers -> Urls \cup {Nothing}]
    /\ moves \in [Readers -> 0..2]
    /\ recorded \in [Readers -> 0..MaxTime \cup {Never}]
    /\ standing \in SUBSET Readers
    /\ backing \in [Readers -> SUBSET Readers]

TabInit ==
    /\ Init
    /\ page \in Urls
    /\ req \in [Readers -> Requests]
    /\ pc = [r \in Readers |-> "idle"]
    /\ url = [r \in Readers |-> Nothing]
    /\ clock = [r \in Readers |-> 0]
    /\ scopes = [r \in Readers |-> {}]
    /\ content = [r \in Readers |-> Nothing]
    /\ moves = [r \in Readers |-> 0]
    /\ recorded = [r \in Readers |-> Never]
    /\ standing = {}
    /\ backing = [r \in Readers |-> {}]

Go(r, from, to) ==
    /\ pc[r] = from
    /\ pc' = [pc EXCEPT ![r] = to]

Reads(r) == req[r].op \in {"text", "screenshot"}

--------------------------------------------------------------------------------
(* Authorisation. *)

\* _authorization_for_request: an exact scope of the request counts once and
\* only here, any other is added to the active ones.
OneTime(r) == {req[r].scope} \cap ExactScopes

\* Mutation of Own: an absent --approval-scope is added like any other.
Own_EvenNone(r) == {req[r].scope} \ ExactScopes

Own(r) == {req[r].scope} \cap (Scopes \ ExactScopes)

Authorized(r, u) == CanRead(u, scopes[r], OneTime(r))

\* _resolve_and_authorize_tab: the tab is looked up in the browser's list.
ListTab(r) ==
    /\ Reads(r)
    /\ Go(r, "idle", "listed")
    /\ url' = [url EXCEPT ![r] = page]
    /\ UNCHANGED <<approvalVars, page, req, clock, scopes, content, history>>

\* list_tabs(all_tabs=True) records its scope first, if it has one.
BeginListAll(r) ==
    /\ req[r].op = "list_all"
    /\ Go(r, "idle", IF req[r].scope = NoScope THEN "listed" ELSE "approving")
    /\ UNCHANGED <<approvalVars, page, req, url, clock, scopes, content, history>>

\* list_active_scopes reads the clock, then waits for the store's lock.
ReadClock(r) ==
    /\ Go(r, "listed", "loading")
    /\ clock' = [clock EXCEPT ![r] = now]
    /\ UNCHANGED <<approvalVars, page, req, url, scopes, content, history>>

\* Where the authorisation of a read leads: the scope is recorded unless the
\* tab is default-denied.
AfterLoading(r, active) ==
    IF ~ CanRead(url[r], active \cup Own(r), OneTime(r)) THEN "denied"
    ELSE IF req[r].scope # NoScope /\ url[r] \notin DefaultDenied THEN "approving"
    ELSE "connecting"

LoadScopes(r) ==
    LET active == Active(grants, req[r].session, clock[r]) IN
    /\ Go(r, "loading",
          IF Reads(r) THEN AfterLoading(r, active)
          ELSE IF ListAllTabs \in active THEN "connecting" ELSE "denied")
    /\ scopes' = [scopes EXCEPT ![r] = IF Reads(r) THEN active \cup Own(r) ELSE active]
    /\ backing' = [backing EXCEPT ![r] = standing]
    /\ UNCHANGED <<approvalVars, page, req, url, clock, content, moves, recorded, standing>>

\* The call of add_approval.
Approve(r) ==
    /\ Go(r, "approving", IF Reads(r) THEN "connecting" ELSE "listed")
    /\ Add(req[r].scope, req[r].session, req[r].persist)
    /\ recorded' = [recorded EXCEPT ![r] = now]
    /\ standing' = standing \cup {r}
    /\ UNCHANGED <<page, req, url, clock, scopes, content, moves, backing>>

RevokeScope(r) ==
    /\ req[r].op = "revoke" /\ req[r].scope # NoScope
    /\ Go(r, "idle", "done")
    /\ Revoke(req[r].scope)
    /\ standing' = {q \in standing : req[q].scope # req[r].scope}
    /\ UNCHANGED <<page, req, url, clock, scopes, content, moves, recorded, backing>>

--------------------------------------------------------------------------------
(* The browser. *)

\* _ensure_authorized_current_url, at a look at the tab.
Look(r, from, to) ==
    /\ Go(r, from, IF Authorized(r, page) THEN to ELSE "denied")
    /\ moves' = [moves EXCEPT ![r] = 0]

\* fetch_tab_screenshot fetches the tab list a second time.
Relist(r) ==
    /\ req[r].op = "screenshot"
    /\ Look(r, "connecting", "framing")
    /\ UNCHANGED <<approvalVars, page, req, url, clock, scopes, content,
                   recorded, standing, backing>>

\* The first Page.getFrameTree.
LookAtFrame(r) ==
    /\ \/ req[r].op = "text" /\ Look(r, "connecting", "evaluating")
       \/ req[r].op = "screenshot" /\ Look(r, "framing", "capturing")
    /\ UNCHANGED <<approvalVars, page, req, url, clock, scopes, content,
                   recorded, standing, backing>>

Gets(r) == content' = [content EXCEPT ![r] = page]

\* Mutation of Evaluate: the URL is not looked at again.
Evaluate_Unchecked(r) ==
    /\ Go(r, "evaluating", "done")
    /\ Gets(r)
    /\ UNCHANGED <<approvalVars, page, req, url, clock, scopes, history>>

\* Runtime.evaluate returns URL and text of one document, which may be another
\* than the frame tree showed; its text is returned only if its URL passes.
Evaluate(r) ==
    /\ Go(r, "evaluating", IF Authorized(r, page) THEN "done" ELSE "denied")
    /\ Gets(r)
    /\ UNCHANGED <<approvalVars, page, req, url, clock, scopes, history>>

Capture(r) ==
    /\ Go(r, "capturing", "confirming")
    /\ Gets(r)
    /\ UNCHANGED <<approvalVars, page, req, url, clock, scopes, history>>

\* Mutation of Confirm: the frame tree after the capture is not looked at.
Confirm_Unchecked(r) ==
    /\ Go(r, "confirming", "done")
    /\ UNCHANGED <<approvalVars, page, req, url, clock, scopes, content, history>>

\* The second Page.getFrameTree.
Confirm(r) ==
    /\ Go(r, "confirming", IF Authorized(r, page) THEN "done" ELSE "denied")
    /\ UNCHANGED <<approvalVars, page, req, url, clock, scopes, content, history>>

\* list_tabs fetches the list and hides the default-denied tabs.
FetchList(r) ==
    /\ req[r].op = "list_all"
    /\ Go(r, "connecting", "done")
    /\ content' = [content EXCEPT ![r] = IF page \in DefaultDenied THEN Nothing ELSE page]
    /\ UNCHANGED <<approvalVars, page, req, url, clock, scopes, history>>

\* The browser does not answer, answers nonsense or closes the tab; the store
\* cannot be written; the process dies.
Fail(r) ==
    /\ pc[r] \notin {"denied", "failed", "done"}
    /\ pc' = [pc EXCEPT ![r] = "failed"]
    /\ UNCHANGED <<approvalVars, page, req, url, clock, scopes, content, history>>

Navigate ==
    \E u \in Urls \ {page} :
        /\ page' = u
        /\ moves' = [r \in Readers |->
                       IF pc[r] \in {"capturing", "confirming"} /\ moves[r] < 2
                       THEN moves[r] + 1 ELSE moves[r]]
        /\ UNCHANGED <<approvalVars, readVars, recorded, standing, backing>>

ReaderStep(r) ==
    \/ ListTab(r) \/ BeginListAll(r) \/ ReadClock(r) \/ LoadScopes(r)
    \/ Approve(r) \/ RevokeScope(r)
    \/ Relist(r) \/ LookAtFrame(r)
    \/ Evaluate(r) \/ Capture(r) \/ Confirm(r) \/ FetchList(r)
    \/ Fail(r)

TabNext ==
    \/ \E r \in Readers : ReaderStep(r)
    \/ Navigate
    \/ Tick /\ UNCHANGED <<page, readVars, history>>

TabSpec == TabInit /\ [][TabNext]_vars

--------------------------------------------------------------------------------
(* Properties. *)

\* An approval that reader r may use: its own, or one that stood when r took
\* its authorisation, of anybody if persisted, else of the same session and
\* not older than a session grant lasts.
Backed(r, s) ==
    \/ req[r].scope = s
    \/ \E q \in backing[r] :
          /\ req[q].scope = s
          /\ \/ req[q].persist
             \/ req[q].session = req[r].session /\ recorded[q] + SessionTtl > clock[r]

Consented(r, u) ==
    \/ \E s \in OneTime(r) : <<s, u>> \in Covers
    \/ u \notin DefaultDenied /\ \E s \in Scopes : <<s, u>> \in Covers /\ Backed(r, s)

\* Text leaves a tab only with a consent to the very page it comes from:
\* given on this command line, or before, by the same session or for good,
\* not revoked and not expired when the request began; and for a page that is
\* default-denied only on this command line, exactly.  The tab may navigate
\* between any two steps (fetch_tab_text; contract B1, B2, E2, E3, E4).
TextWasConsented ==
    \A r \in Readers : req[r].op = "text" /\ pc[r] = "done" => Consented(r, content[r])

\* The same for an image, provided the tab navigates at most once between the
\* two frame checks around the capture: the page captured is then one of the
\* two that were checked (fetch_tab_screenshot).
ScreenshotWasConsented ==
    \A r \in Readers :
        req[r].op = "screenshot" /\ pc[r] = "done" /\ moves[r] <= 1
            => Consented(r, content[r])

\* All tabs are listed only with a consent to that.
ListingWasConsented ==
    \A r \in Readers : req[r].op = "list_all" /\ pc[r] = "done" => Backed(r, ListAllTabs)

\* Inductive: every grant is what a standing approval recorded.
GrantsStand ==
    /\ \A s \in Scopes : grants[s] # NoGrant =>
          \E q \in standing :
             /\ req[q].scope = s
             /\ grants[s].session = req[q].session
             /\ grants[s].persisted = req[q].persist
             /\ grants[s].expires <= recorded[q] + SessionTtl
    /\ \A q \in Readers :
          /\ pc[q] = "approving" => req[q].scope # NoScope
          /\ recorded[q] # Never => recorded[q] <= now
          /\ q \in standing \/ (\E r \in Readers : q \in backing[r]) => recorded[q] # Never

\* Inductive: what a reader was authorised by backs it.
ScopesAreBacked ==
    \A r \in Readers :
        /\ \A s \in scopes[r] : Backed(r, s)
        /\ pc[r] \in {"idle", "listed", "loading"} \/ (pc[r] = "approving" /\ ~ Reads(r))
              => scopes[r] = {}
        /\ req[r].op = "list_all" /\ pc[r] \in {"connecting", "done"}
              => ListAllTabs \in scopes[r]

\* Inductive: what a look at the tab says of the content taken after it.
LooksHold ==
    \A r \in Readers :
        /\ pc[r] = "evaluating" => req[r].op = "text"
        /\ pc[r] \in {"framing", "capturing", "confirming"} => req[r].op = "screenshot"
        /\ pc[r] \in {"capturing", "confirming"} /\ moves[r] = 0 => Authorized(r, page)
        /\ pc[r] = "confirming" /\ moves[r] <= 1
              => content[r] = page \/ Authorized(r, content[r])
        /\ pc[r] = "done" /\ (req[r].op = "screenshot" => moves[r] <= 1) /\ Reads(r)
              => Authorized(r, content[r])

IInv == TypeOK /\ GrantsStand /\ ScopesAreBacked /\ LooksHold

(* What comments and documents say and the code does not do. *)

\* "a single CLI invocation can both grant and exercise the list-all-tabs
\* permission" (read_user_tabs.py:315): who has just approved listing all
\* tabs is not asked to approve it, unless somebody revoked it or it expired.
SelfApprovalWorks ==
    \A r \in Readers :
        /\ req[r].op = "list_all" /\ req[r].scope = ListAllTabs
        /\ r \in standing /\ recorded[r] + SessionTtl > clock[r]
        => pc[r] # "denied"
==============================================================================
