------------------------ MODULE RunController_proofs ------------------------
(***************************************************************************)
(* What each method of the controller returns, whatever the jobs of its    *)
(* workers are.  The modules that make steps of the methods build on it.   *)
(***************************************************************************)
EXTENDS RunController, TLAPS

LEMMA RunIds ==
    /\ NoRun \in MaybeRun
    /\ \A r \in Runs : r \in MaybeRun /\ r # NoRun /\ r \in Nat
    /\ \A r \in MaybeRun : r # NoRun => r \in Runs
    /\ NoResults \in Results
BY MaxRunsAssumption DEF MaybeRun, Runs, NoRun, NoResults, Results

\* The readiness counter counts the workers that are up: without it, a third
\* `ready` could not be excluded.
Loaded(c, role) == IF c.worker[role] = "up" THEN 1 ELSE 0
CountingOf(Job) ==
    {c \in ControllerOf(Job) : c.nReady = Loaded(c, "prover") + Loaded(c, "verifier")}

LEMMA FreshType ==
    ASSUME NEW J
    PROVE  Fresh \in CountingOf(J)
BY RunIds DEF Fresh, CountingOf, ControllerOf, Loaded, Buttons, Roles, WorkerStates

LEMMA WorkerUpType ==
    ASSUME NEW J, NEW c \in CountingOf(J), NEW role \in Roles, c.worker[role] = "loading",
           NEW look \in Buttons
    PROVE  WorkerUp(c, role, look) \in CountingOf(J)
<1> DEFINE w == [c.worker EXCEPT ![role] = "up"]
           b == IF c.nReady = 1 THEN look ELSE c.button
           d == [c EXCEPT !.worker = w, !.nReady = @ + 1, !.button = b]
<1>1. w \in [Roles -> WorkerStates] /\ b \in Buttons
  BY DEF CountingOf, ControllerOf, WorkerStates
<1>2. c.nReady + 1 = Loaded(d, "prover") + Loaded(d, "verifier")
  <2>1. CASE role = "prover"
    BY <2>1 DEF CountingOf, ControllerOf, Loaded, Roles
  <2>2. CASE role = "verifier"
    BY <2>2 DEF CountingOf, ControllerOf, Loaded, Roles
  <2> QED
    BY <2>1, <2>2 DEF Roles
<1>3. Loaded(d, "prover") + Loaded(d, "verifier") \in 0..2
  BY DEF Loaded
<1>4. d \in ControllerOf(J)
  BY <1>1, <1>2, <1>3 DEF CountingOf, ControllerOf
<1>5. d \in CountingOf(J)
  BY <1>2, <1>4 DEF CountingOf, ControllerOf
<1>6. d = WorkerUp(c, role, look)
  BY DEF WorkerUp, CountingOf, ControllerOf
<1> QED
  BY <1>5, <1>6

LEMMA WorkerBrokenType ==
    ASSUME NEW J, NEW c \in CountingOf(J), NEW role \in Roles, c.worker[role] = "loading"
    PROVE  [c EXCEPT !.worker[role] = "broken"] \in CountingOf(J)
<1> DEFINE w == [c.worker EXCEPT ![role] = "broken"]
           d == [c EXCEPT !.worker = w]
<1>1. w \in [Roles -> WorkerStates]
  BY DEF CountingOf, ControllerOf, WorkerStates
<1>2. \A x \in Roles : Loaded(d, x) = Loaded(c, x)
  BY DEF CountingOf, ControllerOf, Loaded, Roles
<1>3. d \in ControllerOf(J)
  BY <1>1 DEF CountingOf, ControllerOf
<1>4. d \in CountingOf(J)
  BY <1>2, <1>3 DEF CountingOf, ControllerOf, Roles
<1> QED
  BY <1>4

LEMMA NewRunType ==
    ASSUME NEW J, NEW c \in CountingOf(J), NEW r \in Runs
    PROVE  NewRun(c, r) \in CountingOf(J)
BY RunIds DEF NewRun, CountingOf, ControllerOf, Loaded

LEMMA EndRunType ==
    ASSUME NEW J, NEW c \in CountingOf(J)
    PROVE  EndRun(c) \in CountingOf(J)
BY RunIds DEF EndRun, CountingOf, ControllerOf, Loaded

LEMMA FailRunType ==
    ASSUME NEW J, NEW c \in CountingOf(J)
    PROVE  FailRun(c) \in CountingOf(J)
<1>1. EndRun(c) \in CountingOf(J)
  BY EndRunType
<1> QED
  BY <1>1 DEF FailRun, CountingOf, ControllerOf, Loaded, Buttons

LEMMA AbortType ==
    ASSUME NEW J, NEW c \in CountingOf(J)
    PROVE  Abort(c) \in CountingOf(J)
BY FreshType DEF Abort, CountingOf, ControllerOf, Loaded

LEMMA FinishRunType ==
    ASSUME NEW J, NEW c \in CountingOf(J), NEW res \in Results, NEW ok \in BOOLEAN
    PROVE  FinishRun(c, res, ok) \in CountingOf(J)
<1>1. EndRun(c) \in CountingOf(J)
  BY EndRunType
<1> QED
  BY <1>1, RunIds DEF FinishRun, CountingOf, ControllerOf, Loaded, Buttons

LEMMA RecordResultType ==
    ASSUME NEW J, NEW c \in CountingOf(J), NEW role \in Roles, NEW r \in Runs
    PROVE  RecordResult(c, role, r) \subseteq CountingOf(J)
<1> DEFINE res == [c.results EXCEPT ![role] = r]
<1>1. res \in Results
  BY RunIds DEF CountingOf, ControllerOf, Loaded, Results
<1>2. [c EXCEPT !.results = res] \in CountingOf(J)
  BY <1>1 DEF CountingOf, ControllerOf, Loaded
<1>3. \A ok \in BOOLEAN : FinishRun(c, res, ok) \in CountingOf(J)
  BY <1>1, FinishRunType
<1> QED
  BY <1>2, <1>3 DEF RecordResult

LEMMA WorkerErrorType ==
    ASSUME NEW J, NEW c \in CountingOf(J)
    PROVE  WorkerError(c) \in CountingOf(J)
<1>1. [c EXCEPT !.button = "error"] \in CountingOf(J)
  BY DEF CountingOf, ControllerOf, Loaded, Buttons
<1> QED
  BY <1>1, FailRunType DEF WorkerError
=============================================================================
