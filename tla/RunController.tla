---------------------------- MODULE RunController ----------------------------
(***************************************************************************)
(* The state of one page's RunController (run-controller.ts), with what it *)
(* drives: the two party workers and the Prove button.  Its methods are    *)
(* functions from a controller to the next one; PeerSession and LocalRun   *)
(* make steps of them.                                                     *)
(*                                                                         *)
(* A run is named by the number of the click that started it.  The code    *)
(* has no such number: it names runs so that properties can tell them      *)
(* apart.  A result is represented by the run that computed it: two        *)
(* results of one run are equal, two of different runs may or may not be.  *)
(***************************************************************************)
EXTENDS Integers

CONSTANT MaxRuns    \* bound: how many times Prove may be clicked

Runs == 1..MaxRuns
NoRun == 0
MaybeRun == Runs \cup {NoRun}

ASSUME MaxRunsAssumption == MaxRuns \in Nat

Roles == {"prover", "verifier"}
OtherRole(role) == IF role = "prover" THEN "verifier" ELSE "prover"

Results == [Roles -> MaybeRun]
NoResults == [role \in Roles |-> NoRun]

\* The Prove button.  "waiting" is its idle look without a peer: disabled.
Buttons == {"loading", "waiting", "idle", "running", "done", "error"}
Disabled == {"loading", "waiting"}

WorkerStates == {"loading", "up", "broken"}

\* The controllers whose workers compute members of Job.
ControllerOf(Job) ==
    [run : MaybeRun, attached : BOOLEAN, results : Results,
     pendingProverReq : MaybeRun, nReady : 0..2,
     worker : [Roles -> WorkerStates], jobs : SUBSET Job,
     button : Buttons, shown : [run : MaybeRun, results : Results]]

\* A worker just spawned is loading its wasm.  jobs are the runs the workers
\* are computing, shown the last success the page has shown.
Fresh ==
    [run |-> NoRun, attached |-> FALSE, results |-> NoResults,
     pendingProverReq |-> NoRun, nReady |-> 0,
     worker |-> [role \in Roles |-> "loading"], jobs |-> {},
     button |-> "loading", shown |-> [run |-> NoRun, results |-> NoResults]]

\* A definition X_y above X is a mutant of it, a plausible bug; nothing uses it.

NewRun(c, r) ==
    [c EXCEPT !.run = r, !.attached = FALSE, !.results = NoResults]

EndRun_keepsRequest(c) ==
    [c EXCEPT !.run = NoRun, !.attached = FALSE, !.results = NoResults]

EndRun(c) ==
    [c EXCEPT !.run = NoRun, !.attached = FALSE, !.results = NoResults,
              !.pendingProverReq = NoRun]

FailRun(c) ==
    IF c.run = NoRun THEN c ELSE [EndRun(c) EXCEPT !.button = "error"]

Abort_oneWorker(c) ==
    IF c.run = NoRun THEN c
    ELSE [Fresh EXCEPT !.shown = c.shown, !.worker["verifier"] = c.worker["verifier"]]

\* Terminating a worker kills its jobs and drops what it had posted.
Abort(c) ==
    IF c.run = NoRun THEN c
    ELSE [Fresh EXCEPT !.shown = c.shown]

FinishRun(c, results, ok) ==
    IF ok THEN [EndRun(c) EXCEPT !.button = "done",
                                 !.shown = [run |-> c.run, results |-> results]]
          ELSE [EndRun(c) EXCEPT !.button = "error"]

RecordResult_either(c, role, r) ==
    {IF c.run = NoRun THEN c
     ELSE FinishRun(c, [c.results EXCEPT ![role] = r], TRUE)}

\* The controllers that may follow when the result of one party comes in.
RecordResult(c, role, r) ==
    LET results == [c.results EXCEPT ![role] = r]
    IN  IF c.run = NoRun THEN {c}
        ELSE IF NoRun \in {results["prover"], results["verifier"]}
        THEN {[c EXCEPT !.results = results]}
        ELSE {FinishRun(c, results, ok) :
                ok \in IF results["prover"] = results["verifier"]
                       THEN {TRUE} ELSE BOOLEAN}

WorkerUp_loading(c, role, look) ==
    [c EXCEPT !.worker[role] = "up", !.nReady = @ + 1,
              !.button = IF c.nReady = 1 THEN look ELSE "loading"]

\* A worker reports ready; look is what runButton.set("idle") then shows.
WorkerUp(c, role, look) ==
    [c EXCEPT !.worker[role] = "up", !.nReady = @ + 1,
              !.button = IF c.nReady = 1 THEN look ELSE @]

\* A worker's error fails the run that is active now; without one the button
\* shows it.
WorkerError(c) ==
    IF c.run = NoRun THEN [c EXCEPT !.button = "error"] ELSE FailRun(c)
=============================================================================
