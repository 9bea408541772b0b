----------------------------- MODULE MixedSession -----------------------------
(***************************************************************************)
(* The prover's device as its user may drive it: he proves on the device   *)
(* alone or to a peer, switches the mode of the control pane, and peers    *)
(* connect and go, also while a run is on that has nothing to do with      *)
(* them.  PeerSession is one connection of it.                             *)
(*                                                                         *)
(* Run names are shared: run r is local when r \in alone.  What a local    *)
(* run's parties say to each other is in LocalRun; here they only return.  *)
(***************************************************************************)
EXTENDS PeerSession

CONSTANT MaxLinks    \* bound: how many peers may connect

ASSUME MixedAssumption == MaxLinks \in Nat

VARIABLES
    mode,       \* the host's control pane: "local" or "peer"
    links,      \* number of peers so far
    alone,      \* history: the runs that were started as local ones
    localJobs,  \* the parties of local runs, inside the host's workers
    lost        \* the runs whose hash was being computed when their link went

mixedVars == <<mode, links, alone, localJobs, lost>>

LocalJob == [run : Runs, role : Roles]

MixedTypeOK ==
    /\ TypeOK
    /\ mode \in {"local", "peer"}
    /\ links \in 0..MaxLinks
    /\ alone \subseteq Runs
    /\ localJobs \subseteq LocalJob
    /\ lost \subseteq Sourced

\* The page as it loads.
MixedInit ==
    /\ page = [p \in Pages |-> Fresh]
    /\ linked = [p \in Pages |-> FALSE]
    /\ net = [p \in Pages |-> <<>>]
    /\ asked = 0
    /\ hashing = {}
    /\ pendingProposal = NoRun
    /\ acceptedPending = NoRun
    /\ compiling = {}
    /\ started = {}
    /\ withdrawn = {}
    /\ mode = "local"
    /\ links = 0
    /\ alone = {}
    /\ localJobs = {}
    /\ lost = {}

\* c, once runButton.set is told readyCount() === 2 ? "idle" : "loading": the idle
\* button waits for a peer in mode m without a link.
Rest(c, m, up) ==
    [c EXCEPT !.button = IF c.nReady < 2 THEN "loading"
                         ELSE IF m = "peer" /\ ~up THEN "waiting" ELSE "idle"]

-----------------------------------------------------------------------------
(* The host's user.                                                        *)

StartLocalRun ==
    LET r == asked + 1
        c == page["host"]
    IN  /\ c.run = NoRun /\ c.button \notin Disabled
        /\ hashing = {} /\ r \in Runs
        /\ asked' = r
        /\ page' = [page EXCEPT !["host"] = [NewRun(c, r) EXCEPT !.button = "running"]]
        /\ alone' = alone \cup {r}
        /\ localJobs' = localJobs \cup {[run |-> r, role |-> role] : role \in Roles}
        /\ UNCHANGED <<linked, net, hashing, guestVars, history, mode, links, lost>>

ProveLocal_linked == StartLocalRun

\* A click on Prove without a link, in either mode.  He does not click while the hash
\* of a proposal is being computed (see "reclick").
ProveLocal == ~linked["host"] /\ StartLocalRun

\* A click during a local run.  A peer that has come meanwhile is told.
AbortLocal ==
    LET c == page["host"]
    IN  /\ c.run \in alone /\ c.button \notin Disabled
        /\ page' = [page EXCEPT !["host"] = Abort(@)]
        /\ net' = Send(net, "host", Msg("abort", c.run))
        /\ localJobs' = {}
        /\ UNCHANGED <<linked, hostVars, guestVars, history, mode, links, alone, lost>>

\* onTabChange: another guest program is chosen.
ChooseTab ==
    /\ page["host"].run = NoRun
    /\ page' = [page EXCEPT !["host"] = Rest(@, mode, linked["host"])]
    /\ UNCHANGED <<linked, net, hostVars, guestVars, history, mixedVars>>

ToPeer ==
    /\ mode = "local"
    /\ mode' = "peer"
    /\ page' = [page EXCEPT !["host"] = Rest(@, "peer", FALSE)]
    /\ UNCHANGED <<linked, net, hostVars, guestVars, history,
                   links, alone, localJobs, lost>>

\* The link is closed first, and with it whatever run is on.
ToLocal ==
    LET c == IF linked["host"] THEN Abort(page["host"]) ELSE page["host"]
    IN  /\ mode = "peer"
        /\ mode' = "local"
        /\ linked' = [linked EXCEPT !["host"] = FALSE]
        /\ net' = [net EXCEPT !["host"] = <<>>]
        /\ page' = [page EXCEPT !["host"] = Rest(c, "local", FALSE)]
        /\ localJobs' = IF linked["host"] THEN {} ELSE localJobs
        /\ lost' = IF linked["host"] THEN lost \cup hashing ELSE lost
        /\ UNCHANGED <<hostVars, guestVars, history, links, alone>>

-----------------------------------------------------------------------------
(* Peers.                                                                  *)

\* A device that has followed the invite's link, its page just loaded (setHost).
Connect ==
    /\ mode = "peer" /\ ~linked["host"] /\ links < MaxLinks
    /\ links' = links + 1
    /\ linked' = [p \in Pages |-> TRUE]
    /\ net' = [p \in Pages |-> <<>>]
    /\ page' = [host |-> Rest(page["host"], mode, TRUE), guest |-> Fresh]
    /\ pendingProposal' = NoRun /\ acceptedPending' = NoRun /\ compiling' = {}
    /\ UNCHANGED <<hostVars, history, mode, alone, localJobs, lost>>

\* As in PeerSession.  A local run of the host's ends with the link, too.
Close(p) ==
    /\ LinkDown(p)
    /\ localJobs' = IF p = "host" /\ page[p].run # NoRun THEN {} ELSE localJobs
    /\ lost' = IF p = "host" THEN lost \cup hashing ELSE lost
    /\ UNCHANGED <<mode, links, alone>>

\* startRemoteRun resumes and sends to the link it was called with.
Hashed(r) ==
    /\ r \in hashing
    /\ IF r \notin lost THEN HashDone(r)
       ELSE /\ hashing' = hashing \ {r}
            /\ page' = [page EXCEPT !["host"] = Propose(@, r)]
            /\ UNCHANGED <<asked, linked, net, guestVars, history>>
    /\ UNCHANGED mixedVars

-----------------------------------------------------------------------------
(* The host's workers.                                                     *)

HostReady(role) ==
    LET c == page["host"]
    IN  /\ c.worker[role] = "loading"
        /\ page' = [page EXCEPT !["host"] =
                      WorkerUp(c, role, Rest([c EXCEPT !.nReady = 2], mode,
                                             linked["host"]).button)]
        /\ UNCHANGED <<linked, net, hostVars, guestVars, history, mixedVars>>

\* A party of a local run returns; its result goes to a peer, if there is one.
LocalDone(j) ==
    /\ j \in localJobs /\ page["host"].worker[j.role] = "up"
    /\ localJobs' = localJobs \ {j}
    /\ \E c \in RecordResult(page["host"], j.role, j.run) :
         page' = [page EXCEPT !["host"] = c]
    /\ net' = IF page["host"].run = NoRun THEN net
              ELSE Send(net, "host", Msg("done", j.run))
    /\ UNCHANGED <<linked, hostVars, guestVars, history, mode, links, alone, lost>>

HostWork ==
    \/ \E role \in Roles : HostReady(role)
    \/ \E j \in localJobs : LocalDone(j)
    \/ /\ \E j \in page["host"].jobs :
            JobSend("host", j) \/ JobDone("host", j) \/ JobError("host", j)
       /\ UNCHANGED mixedVars

-----------------------------------------------------------------------------

\* What PeerSession says of a connection.
SessionStep ==
    \/ ClickProve \/ AcceptRun \/ DeclineRun \/ Compiled
    \/ \E p \in Pages : Receive(p)
    \/ WorkerStep("guest")

MixedNext ==
    \/ ProveLocal \/ AbortLocal \/ ChooseTab \/ ToPeer \/ ToLocal
    \/ Connect
    \/ \E p \in Pages : Close(p)
    \/ \E r \in hashing : Hashed(r)
    \/ HostWork
    \/ SessionStep /\ UNCHANGED mixedVars

\* As in PeerSession; nobody need connect, click or switch.
MixedFairness ==
    /\ \A p \in Pages : WF_vars(Receive(p))
    /\ WF_vars(WorkerStep("guest")) /\ WF_<<vars, localJobs>>(HostWork)
    /\ WF_vars(\E r \in hashing : Hashed(r))
    /\ WF_vars(Compiled)
    /\ WF_vars(AcceptRun \/ DeclineRun)
    /\ \A p \in Pages : WF_vars(Close(p) /\ ~linked[Other(p)])

MixedSpec == MixedInit /\ [][MixedNext]_<<vars, mixedVars>> /\ MixedFairness

-----------------------------------------------------------------------------
(* Properties, with ProvesOnlyAccepted and AgreementIsReal of PeerSession. *)

\* A local run and a peer that connects while it is on leave each other alone: no
\* message of that peer can act on the run, and what the run sends to it finds a
\* device with nothing to do (setHost does not look whether a run is on; neither do
\* onRemoteControl, the workers' handler and abort ask what kind of run it is).
Idle ==
    /\ page["guest"].run = NoRun
    /\ pendingProposal = NoRun /\ acceptedPending = NoRun /\ compiling = {}
LocalRunIsAlone ==
    /\ linked["host"] /\ page["host"].run \in alone =>
         net["host"] = <<>> /\ (linked["guest"] => Idle)
    /\ \A kind \in Kinds :
         Arrives("guest", kind) /\ Head(net["guest"]).run \in alone => Idle

\* Every run ends, on both pages, while none is cut short, whoever comes and goes.
\* Guarded: a run whose proposal was sent to a link that had closed in its hash.
RunsEnd ==
    \A p \in Pages : page[p].run # NoRun ~> page[p].run \in {NoRun} \cup lost
=============================================================================
