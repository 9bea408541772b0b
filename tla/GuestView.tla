------------------------------ MODULE GuestView ------------------------------
(***************************************************************************)
(* What the verifier's device shows while PeerSession goes on: the pane of *)
(* verifier-view.ts, in which the user reads a proposal and answers it.    *)
(* Each step of the guest's session is taken together with the calls it    *)
(* makes on the pane.                                                      *)
(*                                                                         *)
(* A text is represented by the run it is about.  Of the pane's three      *)
(* panels the gate comes before a connection, see Invite.                  *)
(***************************************************************************)
EXTENDS PeerSession, Functions

CONSTANTS
    Uploads,      \* the runs whose guest program is an uploaded module
    LateHashes    \* a hash may be shown after the next proposal has come

ASSUME ViewAssumption == Uploads \subseteq Runs \ Sourced /\ LateHashes \in BOOLEAN

VARIABLES
    view,     \* the pane
    hashed,   \* the runs whose module's sha256Hex is being computed
    overtaken \* history: see Untold

viewVars == <<view, hashed>>

ViewTypeOK ==
    /\ view \in [hidden : BOOLEAN, panel : {"waiting", "run"}, actions : BOOLEAN,
                 label : {"none", "incoming request", "verifying"},
                 title : MaybeRun, params : MaybeRun, module : MaybeRun,
                 desc : {"none", "proposed", "loading", "compiling", "refused", "running"}]
    /\ hashed \subseteq Runs
    /\ overtaken \in BOOLEAN

\* The link is open: connected has been called.
ViewInit ==
    /\ view = [hidden |-> FALSE, panel |-> "waiting", actions |-> FALSE, label |-> "none",
               title |-> NoRun, params |-> NoRun, module |-> NoRun, desc |-> "none"]
    /\ hashed = {}
    /\ overtaken = FALSE

-----------------------------------------------------------------------------
(* The methods of the pane, as functions from a pane to the next one.  A   *)
(* definition X_y above X is a mutant of it; nothing uses it.              *)

Exit(v) == [v EXCEPT !.hidden = TRUE, !.actions = FALSE]

ResetToWaiting(v) == [v EXCEPT !.actions = FALSE, !.panel = "waiting"]

ShowProposal_keepsModule(v, r) ==
    [v EXCEPT !.label = "incoming request", !.title = r, !.desc = "proposed",
              !.params = r, !.actions = TRUE, !.panel = "run"]

ShowProposal(v, r) ==
    [v EXCEPT !.label = "incoming request", !.title = r, !.desc = "proposed",
              !.module = r, !.params = r, !.actions = TRUE, !.panel = "run"]

BeginAccept_unlabelled(v) == [v EXCEPT !.actions = FALSE]

BeginAccept(v) == [v EXCEPT !.actions = FALSE, !.label = "verifying"]

SetStatus(v, desc) == [v EXCEPT !.desc = desc]

\* Compiling a source clears the line that names its module.
Compiling(v) == [SetStatus(v, "compiling") EXCEPT !.module = NoRun]

\* The module of an example is named at once, another when it is hashed.
Custom == Sourced \cup Uploads

ShowRunning(v, r) ==
    [v EXCEPT !.panel = "run", !.title = r, !.desc = "running",
              !.module = IF r \in Custom THEN @ ELSE r]

-----------------------------------------------------------------------------
(* The session's calls.                                                    *)

\* proceedAccept, with the pane v, has brought run r as far as it has.
Proceed(v, r) ==
    /\ view' = IF r \in started' \ started THEN ShowRunning(v, r)
               ELSE IF r \in compiling' \ compiling THEN Compiling(v) ELSE v
    /\ hashed' = hashed \cup ((started' \ started) \cap Custom)

Keep == UNCHANGED viewVars

ViewPropose ==
    /\ ReceivePropose
    /\ LateHashes \/ hashed = {}
    /\ view' = IF pendingProposal' = pendingProposal THEN view
               ELSE ShowProposal(view, pendingProposal')
    /\ UNCHANGED hashed

ViewAccept ==
    /\ AcceptRun
    /\ IF page["guest"].nReady < 2
       THEN view' = SetStatus(BeginAccept(view), "loading") /\ UNCHANGED hashed
       ELSE Proceed(BeginAccept(view), pendingProposal)

ViewDecline == DeclineRun /\ view' = ResetToWaiting(view) /\ UNCHANGED hashed

ViewAbort_silent == ReceiveAbort /\ Keep

ViewAbort == ReceiveAbort /\ view' = ResetToWaiting(view) /\ UNCHANGED hashed

ViewClose == LinkDown("guest") /\ view' = Exit(view) /\ UNCHANGED hashed

\* onWorkersReady resumes a proposal accepted before.
ViewWorkerReady(role) == WorkerReady("guest", role) /\ Proceed(view, acceptedPending)

ViewCompiled ==
    \E r \in compiling :
        \/ CompileOk(r) /\ Proceed(view, r)
        \/ CompileRefused(r) /\ view' = SetStatus(view, "refused") /\ UNCHANGED hashed

\* showRunning's sha256Hex is done.
ModuleHashed(r) ==
    /\ r \in hashed
    /\ hashed' = hashed \ {r}
    /\ view' = [view EXCEPT !.module = r]
    /\ UNCHANGED vars

-----------------------------------------------------------------------------

GuestStep ==
    \/ ViewPropose \/ ViewAccept \/ ViewDecline \/ ViewAbort \/ ViewClose \/ ViewCompiled
    \/ \E role \in Roles : ViewWorkerReady(role)
    \/ \E r \in Runs : ModuleHashed(r)

\* The steps that do not call the pane: those of the host, and the guest's
\* party, whose results and errors are shown on a button this device hides.
OtherStep ==
    \/ ClickProve \/ ClickAbort
    \/ \E r \in hashing : HashDone(r)
    \/ ReceiveReady \/ ReceiveDecline \/ LinkDown("host")
    \/ \E role \in Roles : WorkerReady("host", role)
    \/ \E p \in Pages :
         \/ \E role \in Roles : WorkerBroken(p, role)
         \/ ReceiveDone(p) \/ ReceiveError(p) \/ ReceiveBytes(p)
         \/ \E j \in page[p].jobs : JobSend(p, j) \/ JobDone(p, j) \/ JobError(p, j)

\* The guest is busy with a run that the host has given up, and no message on its
\* way says so: an answer to an earlier run has ended it there, or its abort came
\* during the compile (the README describes both).
News(kinds) == {m.run : m \in {n \in Range(net["guest"]) : n.kind \in kinds}}
Proposed ==
    ({pendingProposal, acceptedPending} \ {NoRun}) \cup compiling \cup News({"propose"})
Untold ==
    \/ compiling \cap withdrawn # {}
    \/ /\ linked["host"] /\ linked["guest"]
       /\ \/ ~ Proposed \subseteq {page["host"].run} \cup News({"abort"})
          \/ page["guest"].run \notin
               {NoRun, page["host"].run} \cup News({"abort", "done", "error"})

ViewNext ==
    /\ GuestStep \/ (OtherStep /\ Keep)
    /\ overtaken' = (overtaken \/ Untold')

ViewSpec == Init /\ ViewInit /\ [][ViewNext]_<<vars, viewVars, overtaken>>

-----------------------------------------------------------------------------
(* Properties.                                                             *)

\* The user is asked, by the two buttons, exactly while the session has a
\* proposal that waits for an answer, whatever happens (showProposal, beginAccept,
\* resetToWaiting and exit against pendingProposal of the session).
Asks == view.actions /\ ~view.hidden /\ view.panel = "run"
AsksWhatPends == Asks <=> pendingProposal # NoRun

\* What the user reads when asked is about the run that an accept would start:
\* its title, its inputs and its module, and not what was left of another.
Informed ==
    Asks /\ ~overtaken =>
        /\ view.label = "incoming request" /\ view.desc = "proposed"
        /\ {view.title, view.params, view.module} = {pendingProposal}
        /\ page["guest"].run = NoRun

\* While the guest verifies a run, the pane says so and of which run; it waits for a
\* run only when nothing is asked, kept for later or running.
Watching ==
    /\ page["guest"].run # NoRun /\ ~overtaken =>
         /\ ~view.hidden /\ view.panel = "run" /\ view.label = "verifying"
         /\ view.desc = "running"
         /\ view.title = page["guest"].run /\ view.params = view.title
         /\ view.module \in {NoRun, view.title}
    /\ ~view.hidden /\ view.panel = "waiting" /\ ~overtaken =>
         {page["guest"].run, pendingProposal, acceptedPending} = {NoRun}
=============================================================================
