# SpeakUp demo: TLA+ specifications, model checking and proofs

SpeakUp's repository holds the documentation of a zkVM and a live browser demo of it
(`demo/`). The zkVM itself is a dependency. The demo is the program that is specified
here: web pages in which a prover and a verifier run the real protocol, either both in
one page or on two devices connected by WebRTC.

Paths such as `run-controller.ts` are under `src/demo/web/src/`; `lib.rs` and
`port_io.rs` are under `src/demo/speakup-wasm/src/`.

## 1. The system

### Parts, their state and their operations

| part | state it keeps | operations |
|---|---|---|
| run controller (`run-controller.ts`) | the active run (queue, `pumping`, results, traffic, `remoteIn`), the two workers and how many are ready, the held prover request | start a local run, propose a remote run, attach the prover, start the verifier, protocol bytes in and out, results and errors of workers and peer, fail, cancel, abort with respawn |
| remote session (`remote-session.ts`) | the remote mode and link, the proposal on screen, the proposal accepted before the workers were ready, the ping's interval and last answer | connect as host or guest, accept, decline, compile and check a source, react to every control message, disconnect |
| remote link and invites (`remote.ts`) | a Peer per invite, its link; per link whether it is closed | host an invite, join one, send, close |
| control pane (`control-pane.ts`) | the mode, the invite's handle, what is shown of the peer | select a mode, invite, cancel, disconnect |
| verifier view (`verifier-view.ts`) | what the verifier's device shows of which proposal or run | show a proposal, begin to accept, show the run, go back to waiting, leave |
| page wiring (`main.ts`, `run-button.ts`) | the state of the Prove button | Prove, abort, the callbacks of all of the above |
| party worker (`party.worker.ts`) | its wasm instance | load, inspect a module, run a script as one party |
| zkVM facade (`zkvm.ts`) | the role | turn a script's statements into the primitives of its role |
| wasm bindings (`lib.rs`) | the cell with a party's engine, context and module | synchronous reads and writes, interactive calls |
| byte stream (`port_io.rs`) | write buffer, batches, received bytes | write, flush, drain, receive, read |
| guest panel (`guest-panel.ts`) | tab, the custom module and its mode, debounce timer, compile number, the tabs' scripts, the last starter | tabs, edits, compiles, uploads, built-ins, starters |
| inspector (`guest-module.ts`) | the module under inspection, the queue | inspect, answers |
| sudoku (`sudoku-form.ts`, `demo/guests/sudoku`) | puzzle and entries | new puzzle, enter, check |

### How they interact

The page is one thread: its handlers run to completion, and only an `await` lets others
in. Each party worker is another thread that gets requests by `postMessage` and answers
in the same way; protocol bytes travel on MessagePorts beside those answers. Pages talk
over one reliable, ordered channel that carries control messages and protocol bytes. The
controller calls back into the page (button, remote session); the session calls the
controller.

```
   script -- Vm -- Party -- PortIo == port == RunController == link == RunController ...
            (GuestRun)     (PortIo)    (LocalRun: both ports on one page)
   guest panel -- inspector -- worker  (PeerSession: two pages over a link;
   (GuestPanel, GuestScript)            GuestView: with the verifier's pane;
   control pane -- invites -- link      MixedSession: with local runs, modes, peers)
   (Invite; Heartbeat: the ping)
```

### What is hard about it

* No message names its run. `ready`, `done`, `error`, `decline` and the worker's
  answers are matched with the run that happens to be active.
* Handlers look at state before an `await` (a hash, a compile, a file, a module's
  fetch) and use it after.
* Aborting kills both workers and starts new ones while answers and messages of
  the old ones are under way; a failed or cancelled run kills neither.
* Two pages agree on a run's start and end only by messages, over a link that
  may go down or be closed by a user.
* One button and one readiness counter are written from many callbacks.
* A script's calls take the party's state out of its cell for the time of a
  protocol round.

What makes each part correct: runs are never mixed up and success means that both
parties agreed (controller); nothing is proved that was not accepted and nothing
verified that was withdrawn (session); one verifier, none in local mode, no closed link
in use (invites); a silent peer is noticed and a live one is not taken for silent
(ping); the user is asked about the run that an accept would start (verifier view);
bytes arrive once and in order (relay, byte stream); the module and the script that are
proved are those on screen (panel); the state of a party is never lost and both roles
see the same run (bindings); a verdict is the rule of the game (sudoku). `PROJECT.json`
lists every component, also those that are not modelled, and the hazards with the lines
at which they bite.

## 2. The modules

| module | models | proofs |
|---|---|---|
| `RunController` | the controller's record (run, results, readiness, held request, workers, button) and its methods as operators on it | `RunController_proofs` |
| `PeerSession` (+ `MCPeerSession`) | two pages over a link: extends `RunController` with the remote runs, the sessions, the link, the workers' jobs | `PeerSession_proofs` |
| `GuestView` | the verifier's pane: extends `PeerSession`, each step of the guest's session with its calls on the pane | `Compositions_proofs` |
| `MixedSession` | the host's device as its user may drive it: extends `PeerSession` with local runs, modes, tabs, peers that come and go | `Compositions_proofs` |
| `LocalRun` | one page proving to itself: extends `RunController` with the ports, the relay queue and its pump, the worker's jobs | `LocalRun_proofs` |
| `Pipe` | what a relay promises: each batch once and in order | refined by `LocalRun` |
| `Invite` | control pane, invites and connections of one host and several guests | `Link_proofs` |
| `Heartbeat` | the ping and the address of the peer, over links that come and go | `Link_proofs` |
| `GuestPanel` | which module a page would prove, and the inspector | `GuestPanel_proofs` |
| `GuestScript` | which script it would run: extends `GuestPanel` with the scripts of the tabs and the starter | `GuestPanel_proofs` |
| `GuestRun` | one script run by both workers against their Party | `GuestRun_proofs` |
| `PortIo` | one direction of the byte stream over a MessagePort | `Data_proofs` |
| `ByteStream` | what that promises | refined by `PortIo` |
| `Sudoku` (+ `MCSudoku`) | the form, its generator, and the guest's check | `Data_proofs` |

State and actions follow the code: a field of a class or a variable of a closure is a
variable or a field of a record, a handler is an action with the handler's name, and
what one handler does to a controller is an operator on its record that may return
several outcomes. `PROJECT.json` maps each definition to its lines.

### RunController

`ControllerOf(Job)` is a page's controller with its workers: `run` (0 for none),
`results` per role, `attached` (a party of this page is in the run), `pendingProverReq`,
`nReady`, per role the worker's state and the `jobs` the workers hold, the `button`, and
`shown`, the run and results of the success on screen. A run is named by a number no
code ever sees: the name lets properties tell runs apart. A result is the run it comes
from, so two results of one run are equal; results of two runs are equal or not, both
are tried (`RecordResult` returns a set of controllers).

### PeerSession

The model starts with an open link and loading workers. Per page: controller, `linked`,
and the queue of messages to it. Host: `asked` and `hashing` (runs inside the
`sha256Hex` of `startRemoteRun`). Guest: `pendingProposal`, `acceptedPending`, and
`compiling`, the proposals inside `proceedAccept`'s awaits. One action per click, per
resumed `await`, per kind of message and per step of a worker. A job sends a batch of
bytes, needs one of its own run and returns; fed bytes of another run's stream it can
only reject.

Two steps of the code are one action where nothing else can see the state between them:
the relay of bytes from a worker to the link, and a worker's answer with the page's
handler for it. `hello` is left out since the host compares versions before it sends
one.

### GuestView

`PeerSession` with the pane of the verifier's device. A text on the pane is the run it
is about; `view` has the panel, the buttons, the label, and the run that title, inputs
and module line are of. Each action of the guest's session is taken together with the
calls it makes, so the module adds no behaviour to the session (`ViewRefinesSession`).
`hashed` are the runs whose module's hash is awaited by `showRunning`. `overtaken` is a
history variable: it becomes true when the host has given up a run that the guest is
busy with and no message on its way says so (`Untold`; the two ways are in section 3).
From then on the two pages are a run apart, and `Informed` and `Watching` are not
claimed.

### MixedSession

`PeerSession` is one connection of two devices that are already connected.
`MixedSession` starts with a freshly loaded host in local mode: its user proves alone
(`ProveLocal`, of which only the parties' return is left: `LocalRun` has the rest),
aborts, changes tabs and modes; peers connect (`Connect`, as `Invite` ends with) and go.
Local and remote runs share the controller, its workers and the button, and `alone`
remembers which is which. `lost` are the runs whose link went while their hash was
computed; `startRemoteRun` sends those to the old link.

### LocalRun

The same controller with what a local run adds: per run and role the two directions of
its port (`up` towards the page, `down` to the party), the relay's queue and `pumping`,
and `pending`, the run whose `step` is queued as a microtask. While a microtask is
queued no other handler of the page runs. Channels of ended runs stay: their messages
still arrive at closures that hold the old run state, as in the code. `done` and `error`
do not travel on ports and may overtake bytes.

### Invite

One host, several guests, each of which follows the link of one invite. PeerJS is
external: a Peer per invite that the broker knows while it is open, and a connection
that opens on each side on its own. Destroying a Peer closes its other open connections
on that page at once, and each reports it. `link` is the variable of `hostInvite`'s
closure, `closing` the 500 ms timers of `setHost`.

### Heartbeat

Time is in steps. `timers` are the intervals that are set, `pingTimer` the one the
session can clear; the two differ when an interval is forgotten, which is what the
properties are about. An interval may fire late (`Jitter`), a pong takes up to `Trip`, a
peer may fall silent and wake up, a link may open while another is in use (as `Invite`
allows) and may close at any time. `flight` are the pings without a pong, `shown` and
`info` the row of the control pane, `lookups` the two tries of `beginPeerSession` for an
address.

### GuestPanel

A module is named by what it is made from: a version of the source, a file, an example.
Compiles and file reads answer in any order, or fail:
a read that rejects leaves the panel as it was (`FileFails`), as a file that is too large
does, which is not a step of its own. The tab that is shown can be selected again, which
does all that `selectTab` does. `exports` records which module an answer
was attributed to and which it was about.

### GuestScript

`GuestPanel` with what each of its steps does to the scripts. All tabs share one editor,
`doc`; `scripts` are the others' texts. A text is the one a tab comes with, the user's,
or the starter that `customStarter` writes for a module. `place` is the position of the
custom module in the inspector's line: `onModuleResolved` runs for it when its answer
comes. `owed` and `typed` are history: who is entitled to the text of the custom tab.

### GuestRun

A script is a sequence of statements of nine kinds (awaited and held calls, a join, an
unknown export and bad parameters that are caught, timers, reads, and private and public
writes); all scripts of a given length are checked. A worker runs its script until it
awaits, then gives every queued future its first poll, then lets timers and rounds
proceed: the order in which a worker with `wasm_bindgen_futures` does it. `inner` and
`flight` are sets of at most one element: the cell, and the call that has taken the
state out of it. A round is external: it completes if both parties have issued the same
call in matching states. Each call of a script has arguments no other call has; a script
that repeats one call while letting calls overlap is outside of the model, and of what
`lib.rs` allows ("Calls must not overlap").

### PortIo

`wbuf`, `outgoing`, the task that owns the port, the port, `incoming` and `buf` in a
row. Bytes are numbered, so a lost, doubled or moved byte shows. The port may refuse a
message; then the task ends and a later flush is told.

### Sudoku

The grid is of any side; the code's is 3. The generator is a set of grids: every shuffle
is possible. The guest's three counts are cardinalities of the sets of violations it
counts. `Completes` is the rule of the game, by rows, columns and boxes of cells and not
by index tables.

## 3. What TLC checks

Actions and faults that a run leaves out are named in its configuration; the faults are
constants of the modules (`AllFaults` explains each). Deadlock checking is off where the
system may rest: clicks, edits and invites are bounded, and nobody has to click.
`Sudoku` never rests.

### Passing runs

| run | bounds | shows |
|---|---|---|
| `MixedCalm` | 4 runs, two of them with a source when they are remote, 2 peers; refusals and links that go; modes, tabs, aborts of local runs; fair | runs are never mixed up: the prover starts only accepted proposals and success is agreement, also across local and remote runs; a peer and a local run leave each other alone; every run ends |
| `PeerAll` | 2 runs, the first with a source; every fault; fair | held request, no run without a link, `ready` before bytes, nothing verified twice; requests reach loaded workers, the run stays abortable, withdrawn runs are not started, workers come back, all four but for the cases their guards name |
| `ViewAll` | 3 runs, one with a source and one with an uploaded module; aborts, broken workers, refusals, links that go | the pane asks exactly what the session waits for, about the right run, and shows the run that is verified |
| `PingAll` | period 1, patience 3, jitter 1, trip 1, 8 ticks, 2 links | a silent peer is shown offline in time, a live one is not; one interval; no address of an old peer |
| `LocalAll` | 2 runs of 2 batches, every fault; fair | the run stays abortable, the relay is a `Pipe`, success comes with all traffic, every run ends |
| `InviteAll` | 2 guests, one of another deploy, 3 invites, network cuts; fair | the session's link is open, there is always a way to invite, no peer in local mode, no guest believes for ever in a host that is not there |
| `PanelAll` | 1 built-in, 5 user steps, 1 respawn, slow files; fair | answers attributed to the right module, the compiled module is that of the source on screen, scripts stay in their tabs and are the user's or the module's starter, the inspector gets through its queue |
| `GuestAll` | all scripts of 4 statements, failing rounds; fair | a party's state has one owner, the verifier's memory is the prover's, blinded, both sides see a statement after the same rounds, a script that awaits its calls ends |
| `StreamAll` | 6 bytes, writes and reads of up to 3, refused messages; fair | a `ByteStream`; what is flushed arrives |
| `SudokuAll` | digits 1 to 4, the form's grids in two relabellings, one entry or one of some 1100 staged grids | fresh puzzles are valid, the guest accepts exactly the solutions |

A property that the code keeps only in some circumstances says so in one of two ways:
the run's configuration leaves out a fault (the section headings of the modules say
which), or the property has a guard, and its comment names the case the guard takes out.

The type invariants (`TypeOK` and its namesakes) are in no run: they are proved, as
theorems of their own or as parts of the inductive invariants.

Each property of each run is paired in `PROJECT.json` with a mutant of the code (an
operator next to the definition it stands in for) that the run refutes.

Why the bounds are enough. Confusions between runs need two runs; messages of a run are
few, and no code counts them. Two batches each way suffice for one to be in the queue
while others are in ports; the proof of `Relayed` is for any number. Two guests are the
fewest that compete for an invite, and invites interact only with the one before; three
guests and two invites pass as well, in two minutes. Two peers and four runs allow a run
with each peer and local runs before, between and during. A pong, a tick and a deadline
interact within one patience, which eight ticks hold twice; two links are an old one and
a new one. Five user steps allow a script, a switch, an upload, a switch back and an
edit of the source. Four statements allow two calls that overlap, a pause and a look at
the result. With boxes of side 2, units of the three kinds overlap in all the ways they
do with side 3, except that there is no middle band. For safety the bounds are a first
test only: the proofs of section 4 are for all of them. For liveness they are the claim.

### Where the code does not do what its comments say

Two runs check one sentence of the code's own comments each, in a small environment that
refutes it. `PROJECT.json` quotes the lines.

| run | what happens |
|---|---|
| `StaleReady` | a late `ready` of an aborted run starts the prover of the next one |
| `TwoVerifiers` | two guests that dial at once are both let in |

The others have no run of their own. They are why the properties below are kept out of
the runs, have a guard, or are checked without a fault. TLC finds those that name a
property, when it or the fault is put back in or the guard taken away; the others can be
read off the actions.

| property | what happens |
|---|---|
| `AgreementIsReal` of `PeerSession`, with `error` | a late `done` of a run that failed on the other page counts as a result of the next one (`run-controller.ts:192`) |
| that both results of a local run are its own, in `LocalRun` with `error` | after a failed local run the surviving worker's result counts for the next one (`run-controller.ts:336`) |
| `WithdrawnNotStarted` for sources | a proposal withdrawn during the guest's compile is verified: `proceedAccept` re-checks only that no run is on (`remote-session.ts:186`) |
| `RunsEnd`, `RunIsAbortable` of `PeerSession` for sources, with `close` | the link closes while the hash is computed; the run then begins on a closed link, with a disabled button (`run-controller.ts:144`) |
| `RequestsWaitForWorkers` on the host and `RunIsAbortable`, for sources, with `abort` | a run whose hash comes after an abort begins while the respawned workers load: the button is disabled until they are up, the prover may be started in one of them, and its failure enables the button too early (`run-controller.ts:144`) |
| `StartsReady` of `LocalRun`, with `load` | after a worker failed to load, the enabled error button starts a local run without it (`run-controller.ts:113`) |
| that a run's button can abort it, in `MixedSession` | a change of modes during a run, or a peer that connects, sets the abort button to "Prove", or to "waiting" or "loading", which disable it (`main.ts:170`, `remote-session.ts:125`) |
| that a local run is cut short only by its user, in `MixedSession` | a peer that goes aborts a local run that has nothing to do with it (`remote-session.ts:129`) |
| `Informed`, `Watching` of `GuestView` without `overtaken` | the guest goes on with a run that the host has given up: a late `decline` or `error` of an earlier run cancels the host's without a word to the guest (`remote-session.ts:234`), or an abort comes during the guest's compile |
| `Informed` of `GuestView`, with `LateHashes` | the hash of an uploaded module is shown after the next proposal has come: the user is asked about one run with the module of another (`verifier-view.ts:157`) |
| that the pane says "verifying" only during a run, in `GuestView` | the label "verifying" stays when a run has ended, until the next proposal (`verifier-view.ts:140`) |
| `ScriptsStayPut` without `owed` | a script the user writes after a switch to AssemblyScript, before the compile answers, is replaced by the starter (`guest-panel.ts:320`) |
| `GuestsAlone` of `Invite` | a guest is connected after it went to local mode while dialling (`control-pane.ts:86`) |
| `HostAlone` after a refused guest | so is a host that goes to local mode: `cancel` does nothing once `link` is set (`remote.ts:323`) |
| `NoGhosts` with two connected guests | the close of the refused guest's link ends the host's session with the other (`remote-session.ts:129`) |
| `SourceIsTruth` of `GuestPanel` | a file that is read slowly replaces the module compiled from the source (`guest-panel.ts:153`) |
| `UploadWaits` of `GuestPanel` | a compile that answers after the switch becomes the module of upload mode (`guest-panel.ts:167`) |
| `Inspected` after an abort | an abort during an inspection stops the inspector for good (`guest-module.ts:118`) |

### Fairness

Safety needs none. Liveness is checked under weak fairness of what the event loops do: a
message that was sent is delivered, an `await` resumes, a posted request is handled, a
worker that can step does, a microtask runs, a timer fires, and a page notices that the
other end of its link is gone. In `PeerSession` and `MixedSession` the guest's user
answers a proposal in the end, accepting or declining: without it a proposal may rest on
the screen. In `LocalRun` a worker's fairness is that of its steps that work, not of
those that fail. No fairness is put on clicks, on faults, on the host's user, on peers
that might connect, or on writes and flushes. In `GuestRun` a round both parties have
entered ends, which is what the protocol library provides.

## 4. What is proved

TLAPS checks the proofs for every value of the constants (numbers of runs, links,
batches, bytes, guests, invites, statements, edits and files, periods, sides of a box,
the choice of sources and uploads, every set of faults), from the assumptions named in
the modules (`MaxRunsAssumption`, `PeerAssumption`, `MixedAssumption`,
`LocalAssumption`, `ViewAssumption`, `PingAssumption`, `InviteAssumption`,
`PanelAssumption`, `GuestAssumption`, `PortAssumption`, `SudokuAssumption`), which only
give types and say that bounds are positive.

Every safety invariant and every action property of the passing runs has a theorem, and
so have both refinements and all type invariants. Two groups of theorems have a
hypothesis on the constants; each is named below, with what happens without it.

**Two pages** (`RunController_proofs`, `PeerSession_proofs`), in every environment:

* `TypeCorrect`. Types are not inductive: a report of a worker increments `nReady`, and
  only since `nReady` counts the workers that are up does it stay below 3. `CountingOf`
  adds that to the type of a controller. `RunController_proofs` shows for each method
  that it keeps it; the compositions use these lemmas, one step per action.
* `HeldProverHolds` and `NoUnlinkedRunHolds`, from `SafeInv`: a held request is that of
  the active run, which has no job and no attachment yet; jobs are of runs that were
  asked for; without a link nothing is attached and the guest keeps no run and no
  proposal.
* `NeverVerifiedTwiceHolds` and `WithdrawnNotStartedHolds`, from `PlacesInv`: a proposal
  is in one place at a time (not sent yet, on the wire once, on screen, kept for later,
  in the compile, started: `OnePlace`), and a withdrawn one is in none of those the guest
  answers from, since its abort is behind it in the channel (`Withdrawn`). Steps only
  move a proposal onwards; a verifier starts from the last places only (`VerifierStep`).
* `NoEarlyBytesHolds`, from `ReadyInv`: a run of the host without a prover holds the
  request for it, and once its verifier is there a `ready` is on its way, in front of all
  bytes of the run (`ReadyAhead`). That `ready` may be an older run's, so the invariant
  names no run for it; `StaleReady` is about just that difference.
* `RequestsWaitForWorkersHolds` and `RunIsAbortableHolds`, from `WorkersInv` (a host that
  may start a run, has one, or has a party left from one, has both of its workers up),
  `ButtonInv` (a run without a source has a link and an enabled button) and `EnabledInv`
  (with a link and both workers up the button is enabled). The host's part of the first is all
  but empty in `PeerAll`, whose first run is a source: there the theorem carries it.

**Compositions** (`Compositions_proofs`):

* `MixedTypeCorrect` for `MixedSession`, in every environment. `ProvesOnlyAcceptedHolds`,
  `AgreementIsRealHolds` and `LocalRunIsAloneHolds` assume `Calm`: of the faults only
  refusals and links that go, so that no run is cut short by an abort or an error. Then
  the two pages never disagree about the run they are in (`LinkInv`), what is on its way
  to the host is about the host's run, and its end is the last (`ToHostInv`), what is on
  its way to the guest ends with a proposal if it has one (`ToGuestInv`), and while a
  proposal waits nothing else happens (`HereInv`): `CalmInv`. The hypothesis is needed:
  `StaleReady` refutes the first of them with `abort`, and the table above the second
  with `error`, because no message names its run.
* `ViewRefinesSession` (`GuestView`): a behaviour with the pane is one of `PeerSession`,
  so what is proved of the session holds there too. `AsksWhatPendsHolds`, from `AsksInv`:
  the pane is hidden just when the guest is not linked, its buttons are shown just while
  a proposal pends, and then the panel is the run's.
* `InformedHolds` and `WatchingHolds` assume `~LateHashes` (the table above says what
  happens otherwise). What the pane shows (`PaneInv`) depends on what the guest is busy
  with, which an abort ends without a look at the pane; so the invariant, `WatchInv`,
  must know that the abort that comes is about that. `Ordered` says so: of the guest's
  run and of each proposal it has or will get, the next news in the channel, if any, is
  that run's own abort. It holds as long as no run is `overtaken`, a guard of the
  properties, and no longer: from then on the guest runs on with nothing to stop it.

**One page** (`LocalRun_proofs`), in every environment:

* `LocalTypeCorrect`; `RunIsAbortableHolds`: a run's button is never disabled, in
  whatever order workers, fetches and tabs report.
* `RelayedHolds`: `Spec => Relayed`, the refinement of `Pipe`. `RelayInv` says that
  between handlers the queue is empty and `pumping` holds just while a step is pending
  (`Quiet`); that runs not yet asked for have left no trace in any port (`Unused`), so a
  new run starts with an empty pipe; and that of what a party has sent, the other has
  received the first `got` batches and the rest lies in `down` and then `up`, in order
  (`Flow`). Lemmas about `InOrder` show that sending, forwarding and receiving keep it.
  Each action then maps to a step of `Pipe` or a stutter.
* `TrafficCompleteHolds`, from `RelayInv` and `Finished`: a party whose result is in has
  sent and received all its batches, so when both results are in, nothing is left in a
  port, whichever of `done` and the last batches was handled first.

**Link** (`Link_proofs`):

* `SilenceShownHolds` and `OneIntervalHolds`, from `PingInv`: one interval is set, it is
  the session's, it fires a period after the last check at the latest (`Due`), and that
  check has left nothing on the table that was too old then. `InfoIsCurrentHolds` builds
  on it.
* `NoFalseAlarmHolds`, from `QuickInv`: the pings without a pong were sent one interval
  after the other, the first an interval after the last pong, and none is overdue
  (`Steady`). So at any time the last pong is younger than the patience, if period,
  jitter and trip fit into it (`FastEnough`, a premise of the property; the proof found
  that it had been written so that it did not bind).
* `RemoteIsOpenHolds`, `CanInviteHolds`, `HostAloneHolds` and `InviteTypeCorrect`, from
  `InviteInv`: a guest's connection is on the invite it followed (`FollowsOne`), an
  invite's link is a connection that opened (`LinksKnown`), timers are for guests of
  another deploy (`TimersOfStale`), and as long as no such guest was met, the session's
  guest is the link of the handle's invite (`HandleHolds`), so that the
  disconnect and the cancel that leave peer mode between them reach every connection the
  host still has.

**Panel** (`GuestPanel_proofs`), where `GuestScript` is proved about with the panel in it:

* `ExportsBelongHolds`, from `OneAtATime`: no module but the one under inspection is with
  the worker or has an answer on its way, and none waits unless one is under inspection,
  aborts and respawns included.
* `CompiledIsSourceHolds`, from `LatestCompile`: unless an edit still waits for its
  compile, the compile with the last number is of the source in the editor, and so is
  the module that it left, whatever answers late.
* `ScriptsStayPutHolds`, `StarterFitsHolds` and `PanelTypeCorrect`, from `ScriptInv`. The
  custom module keeps its `place` in the line until it is served, and what is behind it
  are built-ins (`PlaceInLine`), so the answer that writes the starter is about that
  module; until then a starter is owed (`Starters`), afterwards it fits (`ServedFits`).
  An uploaded module is in the line once (`UploadsOnce`), which is what tells its answer
  from an earlier one.

**Scripts** (`GuestRun_proofs`), with calls that overlap and rounds that fail:

* `OneOwnerHolds` and `SameMemoryHolds`, from `ScriptInv`. That parties at the same
  statement agree is not inductive, as one runs ahead of the other: the invariant says
  that there is one history of memories, one per statement, which both parties follow as
  far as they have come, each as its role sees it.
* `AnswersAgreeHolds`, from `AnswerInv`: a party has taken its calls to its peer in the
  order of the script (`InOrder`), those that were issued before it was last suspended
  and no others (`PolledSo`); it has run the rounds of all but the last (`Counts`); a
  round that has been run is one both parties entered, and a call that succeeded was
  matched by the same call (`Together`). So a call is answered by the same round on both
  sides. A read that finds more rounds behind it on one side than on the other has met a
  round that the two entered with different calls (`Crossed`), because one of them found
  its Party busy where the other did not. With the four statements of `GuestAll` reads
  always agree; six are the fewest for which they do not (a held call, a pause, a held
  call, a pause, a read, a held call), and for those the theorem speaks.
* `GuestTypeCorrect`: with it, that no script runs more rounds than it has statements,
  since the calls it has taken are an increasing sequence of statements.

**Data** (`Data_proofs`):

* `IsStreamHolds`: `Spec => IsStream`, the refinement of `ByteStream`. `PipeInv` cuts the
  bytes written so far into segments, one per buffer they lie in (`Placed`), and says
  that the batches of a queue are segments that follow one another (`Chain`). A refused
  message takes the tail of the stream with it; what was on its way arrives. Lemmas about
  segments give the result of each write, batch and read of any size. `StreamTypeCorrect`
  needs nothing beyond the types.
* `VerdictIsExactHolds`, `RunsGreenHolds` and `SudokuTypeCorrect`, for boxes of any side.
  The index tables list the cells of each row, column and box once (`RowLists`,
  `ColumnLists`, `BoxLists`: facts about quotients and remainders), and a map from the
  cells of a unit to as many digits is one-to-one iff it is onto, so that no doubles is
  the rule of the game (`UnitHolds`). A shuffled pattern keeps it (`Shuffled`), so a
  fresh puzzle is valid and fits its solution (`GridInv`).

The invariants are TLC's as well: each was checked on small instances before it was
proved.

Only model-checked: liveness (`RunsEnd`, `Reloads`, `NoGhosts`, `Inspected`,
`ScriptsSucceed`, `FlushedArrive`), whose proofs need ENABLED and fairness, which TLAPS
does not reason about here.

## 5. What is not modelled, and why

* The zero-knowledge protocol, its OT stack, the multiplexer (`port_mux.rs` hands
  over to `tlsn_mux`) and PeerJS: they are dependencies. How the code uses them
  is modelled, as external definitions.
* The multiplexer's file keeps no state: it hands the byte stream to `tlsn_mux`.
* Thread initialisation and tracing (`initialize` of `lib.rs`), the rendering of
  exports and values.
* The SHA-256 guest: a sequential function around an external precompile. The layout
  of its last block is worth a check and has none yet.
* Statistics, notifications, editors, tabs, tooltips: display that no other state
  depends on. The module's info line and the completions of the script editor (a
  failed compile, or the failed inspection of another module, clears the completions
  of the example on screen: `guest-panel.ts:174` and `:330`). The wire format of control
  messages. Which pair of ICE candidates an address is taken from (`remote.ts:266`
  takes any nominated pair that succeeded, not only the selected one).
* The guest's own button: it is hidden on the verifier's device, and so are the errors
  that are shown on it.
* Dishonest parties: a rejected proof is the fault `error`. The link is the
  reliable ordered channel PeerJS offers; it may close, not lose or reorder.
* Build scripts, deployment, documentation.

## 6. Plan

Done, in this order: `RunController` and `PeerSession` (the confusion of runs is the
most important hazard), their first proofs, `LocalRun` and `Pipe` with the refinement
proof, `Invite`, `GuestPanel`, `GuestRun`, `PortIo`, `Sudoku`; then `GuestView`,
`Heartbeat`, `MixedSession` and `GuestScript`; then the proofs of every safety property
that the runs check.

Next, proofs:

1. An abstract specification of a proposal's life (asked, sent, answered, started,
   withdrawn, ended) that `PeerSession` implements: `PlacesInv` and `ReadyInv` are what
   its mapping needs.
2. What still holds once a run was `overtaken`, or cut short in `MixedSession`: weaker
   forms of `Watching` and of `AgreementIsReal` in every environment.

Next, extending the model: repeated calls in `GuestRun` and the allocator calls of its
scripts; the padding of the SHA-256 guest against the standard's; the frames of
`remote.ts`.

## 7. Running

```
tlc -workers 2 -config PeerAll.cfg MCPeerSession.tla    # any run of PROJECT.json
tlapm LocalRun_proofs.tla                               # any proof module
```
