----------------------------- MODULE PeerSession -----------------------------
(***************************************************************************)
(* Two pages of the demo proving to each other over one link: the host     *)
(* (the prover's device) and the guest (the verifier's device).  Each page *)
(* has a RunController (run-controller.ts) with two party workers          *)
(* (party.worker.ts) and a remote session (remote-session.ts); main.ts     *)
(* wires them to the Prove button.                                         *)
(*                                                                         *)
(* The model starts when the link is up on both pages and the workers are  *)
(* still loading.  The link is the reliable ordered channel of remote.ts,  *)
(* one FIFO per receiver.                                                  *)
(*                                                                         *)
(* Runs are named (see RunController).  No message of the code names its    *)
(* run: messages and jobs carry the name so that properties can tell runs  *)
(* apart, and no guard of an action looks at the name in a message.        *)
(***************************************************************************)
EXTENDS RunController, Sequences

CONSTANTS
    Sourced,    \* the runs whose guest program is sent as AssemblyScript source
    Faults      \* what may go wrong, see AllFaults

\* abort: the host aborts a run.  reclick: the host clicks Prove again while
\* the hash of the last proposal is still being computed.  error: a party
\* throws (a rejected proof, a script exception).  load: a worker's wasm does
\* not load.  refuse: the guest cannot compile a source, or its hash differs.
\* close: the link goes down, or a user disconnects.
AllFaults == {"abort", "reclick", "error", "load", "refuse", "close"}

ASSUME PeerAssumption ==
    /\ Sourced \subseteq Runs
    /\ Faults \subseteq AllFaults

Pages == {"host", "guest"}
Other(p) == IF p = "host" THEN "guest" ELSE "host"
RoleOf(p) == IF p = "host" THEN "prover" ELSE "verifier"

VARIABLES
    page,             \* per page: the controller, its workers and the button
    linked,           \* per page: remote.kind # "local", the link not closed
    net,              \* per page: the messages on their way to it
    asked,            \* host: number of proposals so far
    hashing,          \* host: runs waiting for sha256Hex in startRemoteRun
    pendingProposal,  \* guest: the proposal on screen
    acceptedPending,  \* guest: accepted while the workers were loading
    compiling,        \* guest: proposals inside proceedAccept's awaits
    started,          \* history: runs the guest began to verify
    withdrawn         \* history: runs whose abort has reached the guest

hostVars  == <<asked, hashing>>
guestVars == <<pendingProposal, acceptedPending, compiling>>
history   == <<started, withdrawn>>
vars == <<page, linked, net, hostVars, guestVars, history>>

-----------------------------------------------------------------------------
(* Types.                                                                  *)

Kinds == {"propose", "ready", "decline", "done", "error", "abort", "bytes"}
Message == [kind : Kinds, run : Runs]
Msg(kind, r) == [kind |-> kind, run |-> r]

\* A run inside a worker.  It sends a batch of protocol bytes, needs a batch of
\* its own run from the other party, and then returns.  A batch of another run
\* is a broken protocol stream: the party can only reject it.
Job == [run : Runs, sent : BOOLEAN, got : {"none", "own", "foreign"}]
NewJob(r) == [run |-> r, sent |-> FALSE, got |-> "none"]

Controller == ControllerOf(Job)

TypeOK ==
    /\ page \in [Pages -> Controller]
    /\ linked \in [Pages -> BOOLEAN]
    /\ net \in [Pages -> Seq(Message)]
    /\ asked \in 0..MaxRuns
    /\ hashing \subseteq Runs
    /\ pendingProposal \in MaybeRun
    /\ acceptedPending \in MaybeRun
    /\ compiling \subseteq Runs
    /\ started \subseteq Runs
    /\ withdrawn \subseteq Runs

-----------------------------------------------------------------------------
(* The remote side of RunController.                                       *)

\* Hand a request to the worker and route the link's bytes to its port.
AttachRemoteRun(c, r) ==
    [c EXCEPT !.attached = TRUE, !.jobs = @ \cup {NewJob(r)}]

AttachProver(c) ==
    IF c.run # NoRun /\ c.pendingProverReq # NoRun
    THEN [AttachRemoteRun(c, c.pendingProverReq) EXCEPT !.pendingProverReq = NoRun]
    ELSE c

\* Incoming protocol bytes: dropped unless a run is attached, else delivered
\* to the job at the other end of its port.
OnRemoteProtocol(c, r) ==
    LET Feed(j) == [j EXCEPT !.got = IF r = j.run /\ @ # "foreign"
                                     THEN "own" ELSE "foreign"]
    IN  IF ~c.attached THEN c
        ELSE [c EXCEPT !.jobs = {IF j.run = c.run THEN Feed(j) ELSE j : j \in @}]

-----------------------------------------------------------------------------
(* The link.                                                               *)

\* n with m sent by p: a closed link drops it, and nothing is delivered to a
\* page whose end is closed.
Send(n, p, m) ==
    IF linked["host"] /\ linked["guest"]
    THEN [n EXCEPT ![Other(p)] = Append(@, m)] ELSE n

Arrives(p, kind) ==
    linked[p] /\ net[p] # <<>> /\ Head(net[p]).kind = kind
Taken(p) == [net EXCEPT ![p] = Tail(@)]

Init ==
    /\ page = [p \in Pages |-> Fresh]
    /\ linked = [p \in Pages |-> TRUE]
    /\ net = [p \in Pages |-> <<>>]
    /\ asked = 0
    /\ hashing = {}
    /\ pendingProposal = NoRun
    /\ acceptedPending = NoRun
    /\ compiling = {}
    /\ started = {}
    /\ withdrawn = {}

-----------------------------------------------------------------------------
(* The host's user.                                                        *)

Propose_eager(c, r) == AttachRemoteRun(NewRun(c, r), r)

\* The proposal goes out and the run exists, held until `ready`.
Propose(c, r) == [NewRun(c, r) EXCEPT !.pendingProverReq = r]

ClickProve ==
    LET r == asked + 1
        c == page["host"]
    IN  /\ linked["host"]
        /\ c.run = NoRun /\ c.button \notin Disabled
        /\ hashing = {} \/ "reclick" \in Faults
        /\ r \in Runs
        /\ asked' = r
        /\ IF r \in Sourced
           THEN /\ hashing' = hashing \cup {r}
                /\ page' = [page EXCEPT !["host"].button = "running"]
                /\ UNCHANGED net
           ELSE /\ page' = [page EXCEPT !["host"] =
                              [Propose(c, r) EXCEPT !.button = "running"]]
                /\ net' = Send(net, "host", Msg("propose", r))
                /\ UNCHANGED hashing
        /\ UNCHANGED <<linked, guestVars, history>>

\* startRemoteRun resumes after `await sha256Hex`.
HashDone(r) ==
    /\ r \in hashing
    /\ hashing' = hashing \ {r}
    /\ page' = [page EXCEPT !["host"] = Propose(@, r)]
    /\ net' = Send(net, "host", Msg("propose", r))
    /\ UNCHANGED <<asked, linked, guestVars, history>>

ClickAbort ==
    LET c == page["host"]
    IN  /\ "abort" \in Faults
        /\ c.run # NoRun /\ c.button \notin Disabled
        /\ page' = [page EXCEPT !["host"] = Abort(@)]
        /\ net' = Send(net, "host", Msg("abort", c.run))
        /\ UNCHANGED <<linked, hostVars, guestVars, history>>

-----------------------------------------------------------------------------
(* The guest's user, and proceedAccept.                                    *)

StartVerifierRun_silent(r, c) ==
    /\ page' = [page EXCEPT !["guest"] = AttachRemoteRun(NewRun(c, r), r)]
    /\ started' = started \cup {r}
    /\ UNCHANGED net

\* c is the guest's controller, as it is when the call is made.
StartVerifierRun(r, c) ==
    /\ page' = [page EXCEPT !["guest"] = AttachRemoteRun(NewRun(c, r), r)]
    /\ net' = Send(net, "guest", Msg("ready", r))
    /\ started' = started \cup {r}

\* From the call to its first await, or to its end when it has none.
ProceedAccept(r, c) ==
    IF linked["guest"] /\ c.run = NoRun /\ r \notin Sourced
    THEN StartVerifierRun(r, c) /\ UNCHANGED compiling
    ELSE /\ page' = [page EXCEPT !["guest"] = c]
         /\ compiling' = IF linked["guest"] /\ c.run = NoRun
                         THEN compiling \cup {r} ELSE compiling
         /\ UNCHANGED <<net, started>>

AcceptRun_unloaded ==
    /\ pendingProposal # NoRun /\ linked["guest"] /\ page["guest"].run = NoRun
    /\ pendingProposal' = NoRun
    /\ ProceedAccept(pendingProposal, page["guest"])
    /\ UNCHANGED <<linked, hostVars, acceptedPending, withdrawn>>

AcceptRun_keepsProposal ==
    /\ pendingProposal # NoRun /\ linked["guest"] /\ page["guest"].run = NoRun
    /\ ProceedAccept(pendingProposal, page["guest"])
    /\ UNCHANGED <<linked, hostVars, pendingProposal, acceptedPending, withdrawn>>

AcceptRun ==
    /\ pendingProposal # NoRun /\ linked["guest"] /\ page["guest"].run = NoRun
    /\ pendingProposal' = NoRun
    /\ IF page["guest"].nReady < 2
       THEN /\ acceptedPending' = pendingProposal
            /\ UNCHANGED <<page, net, compiling, started>>
       ELSE /\ ProceedAccept(pendingProposal, page["guest"])
            /\ UNCHANGED acceptedPending
    /\ UNCHANGED <<linked, hostVars, withdrawn>>

DeclineRun_silent ==
    /\ pendingProposal # NoRun /\ linked["guest"]
    /\ pendingProposal' = NoRun
    /\ UNCHANGED <<page, linked, net, hostVars, acceptedPending, compiling, history>>

DeclineRun ==
    /\ pendingProposal # NoRun /\ linked["guest"]
    /\ pendingProposal' = NoRun
    /\ net' = Send(net, "guest", Msg("decline", pendingProposal))
    /\ UNCHANGED <<page, linked, hostVars, acceptedPending, compiling, history>>

CompileOk_noRecheck(r) ==
    /\ r \in compiling
    /\ compiling' = compiling \ {r}
    /\ StartVerifierRun(r, page["guest"])
    /\ UNCHANGED <<linked, hostVars, pendingProposal, acceptedPending, withdrawn>>

\* The source compiled to the hash the host sent.
CompileOk(r) ==
    /\ r \in compiling
    /\ compiling' = compiling \ {r}
    /\ IF linked["guest"] /\ page["guest"].run = NoRun
       THEN StartVerifierRun(r, page["guest"])
       ELSE UNCHANGED <<page, net, started>>
    /\ UNCHANGED <<linked, hostVars, pendingProposal, acceptedPending, withdrawn>>

\* It did not compile, or to something else: the verifier refuses.
CompileRefused(r) ==
    /\ "refuse" \in Faults
    /\ r \in compiling
    /\ compiling' = compiling \ {r}
    /\ net' = Send(net, "guest", Msg("error", r))
    /\ UNCHANGED <<page, linked, hostVars, pendingProposal, acceptedPending, history>>

-----------------------------------------------------------------------------
(* Messages from the peer: onRemoteControl's cases and onRemoteProtocol.   *)

ReceivePropose ==
    /\ Arrives("guest", "propose")
    /\ pendingProposal' = IF page["guest"].run = NoRun /\ pendingProposal = NoRun
                          THEN Head(net["guest"]).run ELSE pendingProposal
    /\ net' = Taken("guest")
    /\ UNCHANGED <<page, linked, hostVars, acceptedPending, compiling, history>>

ReceiveReady ==
    /\ Arrives("host", "ready")
    /\ page' = [page EXCEPT !["host"] = AttachProver(@)]
    /\ net' = Taken("host")
    /\ UNCHANGED <<linked, hostVars, guestVars, history>>

ReceiveDecline ==
    /\ Arrives("host", "decline")
    /\ page' = [page EXCEPT !["host"] = FailRun(@)]
    /\ net' = Taken("host")
    /\ UNCHANGED <<linked, hostVars, guestVars, history>>

ReceiveDone(p) ==
    /\ Arrives(p, "done")
    /\ \E c \in RecordResult(page[p], RoleOf(Other(p)), Head(net[p]).run) :
         page' = [page EXCEPT ![p] = c]
    /\ net' = Taken(p)
    /\ UNCHANGED <<linked, hostVars, guestVars, history>>

ReceiveError(p) ==
    /\ Arrives(p, "error")
    /\ page' = [page EXCEPT ![p] = FailRun(@)]
    /\ net' = Taken(p)
    /\ UNCHANGED <<linked, hostVars, guestVars, history>>

ReceiveAbort_keepsAccepted ==
    /\ Arrives("guest", "abort")
    /\ pendingProposal' = NoRun
    /\ page' = [page EXCEPT !["guest"] = Abort(@)]
    /\ net' = Taken("guest")
    /\ withdrawn' = withdrawn \cup {Head(net["guest"]).run}
    /\ UNCHANGED <<linked, hostVars, acceptedPending, compiling, started>>

ReceiveAbort ==
    /\ Arrives("guest", "abort")
    /\ pendingProposal' = NoRun
    /\ acceptedPending' = NoRun
    /\ page' = [page EXCEPT !["guest"] = Abort(@)]
    /\ net' = Taken("guest")
    /\ withdrawn' = withdrawn \cup {Head(net["guest"]).run}
    /\ UNCHANGED <<linked, hostVars, compiling, started>>

ReceiveBytes(p) ==
    /\ Arrives(p, "bytes")
    /\ page' = [page EXCEPT ![p] = OnRemoteProtocol(@, Head(net[p]).run)]
    /\ net' = Taken(p)
    /\ UNCHANGED <<linked, hostVars, guestVars, history>>

LinkDown_keepsRun(p) ==
    /\ linked[p]
    /\ linked' = [linked EXCEPT ![p] = FALSE]
    /\ net' = [net EXCEPT ![p] = <<>>]
    /\ page' = [page EXCEPT ![p].button = "waiting"]
    /\ UNCHANGED <<hostVars, guestVars, history>>

\* onClose: a user disconnects, or the connection's close event arrives.
LinkDown(p) ==
    /\ "close" \in Faults
    /\ linked[p]
    /\ linked' = [linked EXCEPT ![p] = FALSE]
    /\ net' = [net EXCEPT ![p] = <<>>]
    /\ page' = [page EXCEPT ![p] =
                  IF @.run # NoRun THEN Abort(@)
                  ELSE [@ EXCEPT !.button = IF page[p].nReady = 2
                                            THEN "waiting" ELSE "loading"]]
    /\ IF p = "guest"
       THEN pendingProposal' = NoRun /\ acceptedPending' = NoRun
       ELSE UNCHANGED <<pendingProposal, acceptedPending>>
    /\ UNCHANGED <<hostVars, compiling, history>>

-----------------------------------------------------------------------------
(* The party workers, each step with the page's handler for what it posts. *)

WorkerReady(p, role) ==
    LET c == WorkerUp(page[p], role, IF linked[p] THEN "idle" ELSE "waiting")
    IN  /\ page[p].worker[role] = "loading"
        /\ IF p = "guest" /\ c.nReady = 2 /\ acceptedPending # NoRun
           THEN ProceedAccept(acceptedPending, c) /\ acceptedPending' = NoRun
           ELSE /\ page' = [page EXCEPT ![p] = c]
                /\ UNCHANGED <<net, acceptedPending, compiling, started>>
        /\ UNCHANGED <<linked, hostVars, pendingProposal, withdrawn>>

\* A worker's error reaches page p, left with controller c; the peer of an
\* active run is told.
ReportError(p, c, r) ==
    /\ page' = [page EXCEPT ![p] = WorkerError(c)]
    /\ net' = IF c.run = NoRun THEN net ELSE Send(net, p, Msg("error", r))

WorkerBroken(p, role) ==
    /\ "load" \in Faults
    /\ page[p].worker[role] = "loading"
    /\ LET c == [page[p] EXCEPT !.worker[role] = "broken"]
       IN  ReportError(p, c, c.run)
    /\ UNCHANGED <<linked, hostVars, guestVars, history>>

Works(p, j) == j \in page[p].jobs /\ page[p].worker[RoleOf(p)] = "up"
Without(p, j) == [page[p] EXCEPT !.jobs = @ \ {j}]

\* A batch of bytes leaves the party; the pump forwards it while its run lives.
JobSend(p, j) ==
    /\ Works(p, j) /\ ~j.sent
    /\ page' = [page EXCEPT ![p].jobs = (@ \ {j}) \cup {[j EXCEPT !.sent = TRUE]}]
    /\ net' = IF page[p].run = j.run THEN Send(net, p, Msg("bytes", j.run)) ELSE net
    /\ UNCHANGED <<linked, hostVars, guestVars, history>>

JobDone(p, j) ==
    /\ Works(p, j) /\ j.sent /\ j.got = "own"
    /\ \E c \in RecordResult(Without(p, j), RoleOf(p), j.run) :
         page' = [page EXCEPT ![p] = c]
    /\ net' = IF page[p].run = NoRun THEN net ELSE Send(net, p, Msg("done", j.run))
    /\ UNCHANGED <<linked, hostVars, guestVars, history>>

JobError(p, j) ==
    /\ Works(p, j) /\ (j.got = "foreign" \/ "error" \in Faults)
    /\ ReportError(p, Without(p, j), j.run)
    /\ UNCHANGED <<linked, hostVars, guestVars, history>>

-----------------------------------------------------------------------------

Receive(p) ==
    \/ p = "guest" /\ (ReceivePropose \/ ReceiveAbort)
    \/ p = "host" /\ (ReceiveReady \/ ReceiveDecline)
    \/ ReceiveDone(p)
    \/ ReceiveError(p)
    \/ ReceiveBytes(p)

WorkerStep(p) ==
    \/ \E role \in Roles : WorkerReady(p, role) \/ WorkerBroken(p, role)
    \/ \E j \in page[p].jobs : JobSend(p, j) \/ JobDone(p, j) \/ JobError(p, j)

Compiled == \E r \in compiling : CompileOk(r) \/ CompileRefused(r)

Next ==
    \/ ClickProve
    \/ \E r \in hashing : HashDone(r)
    \/ ClickAbort
    \/ AcceptRun
    \/ DeclineRun
    \/ Compiled
    \/ \E p \in Pages : Receive(p) \/ WorkerStep(p) \/ LinkDown(p)

\* The channel delivers, awaits resume, workers work, and the guest's user
\* answers a proposal; a page notices that the other end of the link is gone.
\* The host's user need not click, and nothing need fail.
Fairness ==
    /\ \A p \in Pages : WF_vars(Receive(p)) /\ WF_vars(WorkerStep(p))
    /\ WF_vars(\E r \in hashing : HashDone(r))
    /\ WF_vars(Compiled)
    /\ WF_vars(AcceptRun \/ DeclineRun)
    /\ \A p \in Pages : WF_vars(LinkDown(p) /\ ~linked[Other(p)])

Spec == Init /\ [][Next]_vars
FairSpec == Spec /\ Fairness

-----------------------------------------------------------------------------
(* What holds in every environment.                                        *)

\* A held prover request belongs to the run that is active and has no prover
\* yet; so `ready` never attaches a second prover, and never without a run.
HeldProver ==
    LET c == page["host"]
    IN  c.pendingProverReq # NoRun =>
          /\ c.run = c.pendingProverReq /\ ~c.attached
          /\ \A j \in c.jobs : j.run # c.run

\* Nobody proves or verifies over a link that is gone: awaits that resume late
\* and proposals kept for later do not outlive it.
NoUnlinkedRun ==
    /\ \A p \in Pages : ~linked[p] => ~page[p].attached
    /\ ~linked["guest"] => /\ page["guest"].run = NoRun
                           /\ pendingProposal = NoRun /\ acceptedPending = NoRun

\* `ready` is ordered before every protocol byte: a page never drops bytes of
\* its own current run because nothing is attached yet.
NoEarlyBytes ==
    \A p \in Pages : Arrives(p, "bytes") /\ Head(net[p]).run = page[p].run
                       => page[p].attached

\* A proposal is verified at most once.
NeverVerifiedTwice ==
    [][\A r \in started : page["guest"].run' = r => page["guest"].run = r]_vars

-----------------------------------------------------------------------------
(* What holds while no run is cut short.                                   *)

\* The prover starts only once the verifier has accepted this very proposal
\* and is set up (startRemoteRun, attachProver).
ProvesOnlyAccepted ==
    page["host"].attached => page["host"].run \in started

\* A page that shows success has the results of both parties of that run
\* (RunCallbacks.onFinished: `ok` means the parties agreed).
Agreed(p) ==
    LET s == page[p].shown
    IN  s.run # NoRun => \A role \in Roles : s.results[role] = s.run
AgreementIsReal == \A p \in Pages : Agreed(p)

-----------------------------------------------------------------------------
(* Liveness, and what holds but for the cases that its guard names.  The   *)
(* runs of sources are in them because startRemoteRun and proceedAccept    *)
(* await with nothing on the page that says that a run is starting.        *)

Broken(p) == \E role \in Roles : page[p].worker[role] = "broken"

\* A party is only ever handed a run when its worker is up: neither a proposal
\* accepted early nor a respawn after an abort posts one to a loading worker
\* (acceptRun, onReady).  Guarded: a compile may end after the workers it was
\* started with are gone; on the host so may the hash of a source, and that run's
\* failure enables the button, as a worker that broke does.
NoSourceSent == Sourced \cap 1..asked \subseteq hashing
RequestsWaitForWorkers ==
    /\ \A j \in page["guest"].jobs :
         j.run \notin Sourced => \A role \in Roles : page["guest"].worker[role] = "up"
    /\ NoSourceSent /\ ~Broken("host") =>
         \A j \in page["host"].jobs, role \in Roles : page["host"].worker[role] = "up"

\* The guest never verifies what the prover has withdrawn, wherever the proposal
\* is when the abort arrives (onRemoteControl).  Guarded: inside the compile of
\* a source.
WithdrawnNotStarted ==
    [][\A r \in withdrawn \ Sourced : r \in started' => r \in started]_vars

\* While a run is on, the Prove button can abort it (initRunButton: "click to
\* abort").  Guarded: the run of a source begins when its hash is done, whatever
\* has happened since the click; on a link that has closed, or next to workers
\* that load again because an earlier run was aborted, the button is disabled.
RunIsAbortable ==
    LET c == page["host"]
    IN  c.run # NoRun /\ (c.run \in Sourced => linked["host"] /\ c.nReady = 2)
            => c.button \notin Disabled

\* An aborted page gets both of its workers back, unless one does not load.
Reloads == \A p \in Pages : page[p].nReady < 2 ~> page[p].nReady = 2 \/ Broken(p)
=============================================================================
