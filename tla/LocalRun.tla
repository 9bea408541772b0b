------------------------------ MODULE LocalRun ------------------------------
(***************************************************************************)
(* One page proving to itself: startLocalRun of run-controller.ts gives    *)
(* each of the two party workers one end of a MessageChannel and relays    *)
(* what comes out of the other ends through the queue of the run's state.  *)
(*                                                                         *)
(* The page is one thread.  Its handlers are steps that wait while a       *)
(* microtask (pump's `step`) is queued; the workers run beside it.  A      *)
(* worker's `done` or `error` and the page's handler of it are one step.   *)
(* They do not travel on the ports, so they may overtake protocol bytes.   *)
(***************************************************************************)
EXTENDS RunController, Sequences

CONSTANTS
    Batches,    \* bound: the batches of bytes each party sends in a run
    Faults      \* what may go wrong, see AllFaults

\* abort: the user aborts a run.  error: a party throws.  load: a worker's wasm
\* does not load.  fetch: an example's module cannot be fetched.
AllFaults == {"abort", "error", "load", "fetch"}

ASSUME LocalAssumption == Batches \in Nat /\ Faults \subseteq AllFaults

VARIABLES
    page,       \* the controller, its workers and the button
    port,       \* per run and role: the party's end of its channel
    relay,      \* queue, pumping and traffic of the active run's state
    pending,    \* the run whose `step` is queued as a microtask
    asked       \* number of runs so far

vars == <<page, port, relay, pending, asked>>

-----------------------------------------------------------------------------
(* Types.                                                                  *)

\* A run inside a worker.
Job == [role : Roles, run : Runs]
Controller == ControllerOf(Job)

\* A party numbers its batches; up holds those on their way to the page, down
\* those the page has forwarded to it.
Batch == 1..Batches
Port == [sent : 0..Batches, got : 0..Batches, up : Seq(Batch), down : Seq(Batch)]
NewPort == [sent |-> 0, got |-> 0, up |-> <<>>, down |-> <<>>]
NewPorts == [r \in Runs |-> [role \in Roles |-> NewPort]]

\* newRunState, with the bytes counted per sender (pv and vp).
NewRelay == [queue |-> <<>>, pumping |-> FALSE, traffic |-> [role \in Roles |-> 0]]

TypeOK ==
    /\ page \in Controller
    /\ port \in [Runs -> [Roles -> Port]]
    /\ relay \in [queue : Seq([from : Roles, batch : Batch]), pumping : BOOLEAN,
                  traffic : [Roles -> 0..Batches]]
    /\ pending \in MaybeRun
    /\ asked \in 0..MaxRuns

Init ==
    /\ page = Fresh
    /\ port = NewPorts
    /\ relay = NewRelay
    /\ pending = NoRun
    /\ asked = 0

-----------------------------------------------------------------------------
(* The page.                                                               *)

\* A handler of the page starts when the microtasks are done.
Handler == pending = NoRun

StartRelay_counts == [NewRelay EXCEPT !.traffic = relay.traffic]

StartRelay == NewRelay

ClickProve ==
    LET r == asked + 1
    IN  /\ Handler
        /\ page.run = NoRun /\ page.button \notin Disabled
        /\ r \in Runs
        /\ asked' = r
        /\ page' = [NewRun(page, r) EXCEPT
                      !.button = "running",
                      !.jobs = @ \cup {[role |-> role, run |-> r] : role \in Roles}]
        /\ relay' = StartRelay
        /\ UNCHANGED <<port, pending>>

\* The channels die with their workers.
ClickAbort ==
    /\ "abort" \in Faults
    /\ Handler
    /\ page.run # NoRun /\ page.button \notin Disabled
    /\ page' = Abort(page)
    /\ port' = NewPorts
    /\ UNCHANGED <<relay, pending, asked>>

\* Fetching a built-in module fails: the button says so, whatever it showed.
FetchFailed ==
    /\ "fetch" \in Faults
    /\ Handler
    /\ page' = [page EXCEPT !.button = "error"]
    /\ UNCHANGED <<port, relay, pending, asked>>

\* onTabChange shows the button anew when no run is on.
SelectTab ==
    /\ Handler
    /\ page.run = NoRun
    /\ page' = [page EXCEPT !.button = IF page.nReady = 2 THEN "idle" ELSE "loading"]
    /\ UNCHANGED <<port, relay, pending, asked>>

\* forward: the batch goes to the other party's port.
Forward_crossed(m, p) == [p EXCEPT ![page.run][m.from].down = Append(@, m.batch)]

Forward(m, p) == [p EXCEPT ![page.run][OtherRole(m.from)].down = Append(@, m.batch)]

Drained_deaf(s) == s

Drained(s) == [s EXCEPT !.pumping = FALSE]

\* pump's step with queue q and ports p: forward one message and queue another
\* step, or stop pumping.
Shift(q, p) ==
    IF q = <<>>
    THEN /\ pending' = NoRun
         /\ port' = p
         /\ relay' = Drained(relay)
    ELSE /\ pending' = page.run
         /\ port' = Forward(Head(q), p)
         /\ relay' = [queue |-> Tail(q), pumping |-> TRUE,
                      traffic |-> [relay.traffic EXCEPT ![Head(q).from] = @ + 1]]

Step ==
    /\ pending # NoRun
    /\ IF page.run = pending
       THEN Shift(relay.queue, port)
       ELSE pending' = NoRun /\ UNCHANGED <<port, relay>>
    /\ UNCHANGED <<page, asked>>

\* A batch arrives from a worker.  The queue of a run that ended is garbage.
PortMessage(r, role) ==
    /\ Handler
    /\ port[r][role].up # <<>>
    /\ LET taken == [port EXCEPT ![r][role].up = Tail(@)]
           q == Append(relay.queue, [from |-> role, batch |-> Head(port[r][role].up)])
       IN  IF r = page.run
           THEN IF relay.pumping
                THEN port' = taken /\ relay' = [relay EXCEPT !.queue = q] /\ UNCHANGED pending
                ELSE Shift(q, taken)
           ELSE port' = taken /\ UNCHANGED <<relay, pending>>
    /\ UNCHANGED <<page, asked>>

-----------------------------------------------------------------------------
(* The party workers.                                                      *)

WorkerReady(role) ==
    /\ Handler
    /\ page.worker[role] = "loading"
    /\ page' = WorkerUp(page, role, "idle")
    /\ UNCHANGED <<port, relay, pending, asked>>

WorkerBroken(role) ==
    /\ "load" \in Faults
    /\ Handler
    /\ page.worker[role] = "loading"
    /\ page' = WorkerError([page EXCEPT !.worker[role] = "broken"])
    /\ UNCHANGED <<port, relay, pending, asked>>

\* A job begins when its worker has loaded.
Works(j) == page.worker[j.role] = "up"
Without(j) == [page EXCEPT !.jobs = @ \ {j}]

JobSend(j) ==
    LET p == port[j.run][j.role]
    IN  /\ Works(j) /\ p.sent < Batches
        /\ port' = [port EXCEPT ![j.run][j.role].sent = @ + 1,
                                ![j.run][j.role].up = Append(@, p.sent + 1)]
        /\ UNCHANGED <<page, relay, pending, asked>>

JobReceive(j) ==
    LET p == port[j.run][j.role]
    IN  /\ Works(j) /\ p.down # <<>>
        /\ port' = [port EXCEPT ![j.run][j.role].got = Head(p.down),
                                ![j.run][j.role].down = Tail(@)]
        /\ UNCHANGED <<page, relay, pending, asked>>

\* A party is done when it has sent and received all there is.
JobDone(j) ==
    LET p == port[j.run][j.role]
    IN  /\ Handler
        /\ Works(j) /\ p.sent = Batches /\ p.got = Batches
        /\ page' \in RecordResult(Without(j), j.role, j.run)
        /\ UNCHANGED <<port, relay, pending, asked>>

JobError(j) ==
    /\ "error" \in Faults
    /\ Handler
    /\ Works(j)
    /\ page' = WorkerError(Without(j))
    /\ UNCHANGED <<port, relay, pending, asked>>

-----------------------------------------------------------------------------

Page ==
    \/ Step
    \/ \E r \in Runs, role \in Roles : PortMessage(r, role)
Work(role) ==
    \/ WorkerReady(role)
    \/ \E j \in page.jobs : j.role = role /\ (JobSend(j) \/ JobReceive(j) \/ JobDone(j))
Fail(role) ==
    \/ WorkerBroken(role)
    \/ \E j \in page.jobs : j.role = role /\ JobError(j)

Next ==
    \/ ClickProve
    \/ ClickAbort
    \/ FetchFailed
    \/ SelectTab
    \/ Page
    \/ \E role \in Roles : Work(role) \/ Fail(role)

\* The page's event loop runs, and so does each worker.  Nobody has to click, and
\* nothing has to fail.
Fairness ==
    /\ WF_vars(Page)
    /\ \A role \in Roles : WF_vars(Work(role))

Spec == Init /\ [][Next]_vars
FairSpec == Spec /\ Fairness

-----------------------------------------------------------------------------
(* What holds in every environment.                                        *)

\* The relay is a Pipe between the parties of the active run (startLocalRun,
\* pump, forward): through two ports and a queue that both directions share,
\* nothing is lost, doubled, reordered or delivered to the wrong party, and
\* nothing of an earlier run comes through.
PipeOf(field) ==
    [role \in Roles |->
       IF page.run = NoRun THEN 0 ELSE field[page.run][role]]
Sent == [r \in Runs |-> [role \in Roles |-> port[r][role].sent]]
Got == [r \in Runs |-> [role \in Roles |-> port[r][role].got]]
P == INSTANCE Pipe WITH run <- page.run, sent <- PipeOf(Sent), got <- PipeOf(Got)
Relayed == P!Spec

\* While a run is on, the Prove button can abort it: whatever reports come from
\* loading workers and failed fetches in the meantime (initRunButton: "click to
\* abort").
RunIsAbortable == page.run # NoRun => page.button \notin Disabled

\* When a run succeeds with results of its own, the traffic shown is all that its
\* parties sent: no batch is still on its way behind a `done` that overtook it
\* (finishRun, forward).  A result left over from a run that failed may finish a
\* later one early.
Succeeds ==
    /\ page.run # NoRun /\ page'.run = NoRun /\ page'.button = "done"
    /\ \A role \in Roles : page'.shown.results[role] = page.run
TrafficComplete ==
    [][Succeeds => \A role \in Roles : relay.traffic[role] = Sent[page.run][role]]_vars

\* Every run ends: the pump never stalls.  A party handed to a worker that does not
\* load cannot.
RunsEnd ==
    page.run # NoRun ~>
        page.run = NoRun \/ \E role \in Roles : page.worker[role] = "broken"

-----------------------------------------------------------------------------
(* What the comments say and the code does not do.                         *)

\* A local run starts when both workers are ready (startLocalRun: "local: both
\* workers are ready, so proving starts now").
StartsReady == [][page.run = NoRun /\ page'.run # NoRun => page.nReady = 2]_vars
=============================================================================
